---------------------------- MODULE HostControl ----------------------------
(***************************************************************************)
(* The Mac host of the production project: a process under launchd that    *)
(* every fifteen seconds looks at three containers and starts or stops     *)
(* them (scripts/mac/production-host.mjs, runtime-controller.mjs and the   *)
(* driver), and the operator's commands that work on the same containers   *)
(* and the same private files: activate-production.mjs,                    *)
(* production-maintenance.mjs, production-storage-recovery.mjs and         *)
(* switch-managed-host.mjs.  Host and commands exclude each other by one   *)
(* lock directory that is never stolen.                                    *)
(*                                                                         *)
(* Both are scripts: a decision writes the steps it will take, and each    *)
(* step is an action that may fail, with or without its effect.  A         *)
(* release or a volume generation is a member of Gen.  Every failure and   *)
(* every bad observation costs one of MaxMishaps, every command one of     *)
(* MaxCommands.                                                            *)
(***************************************************************************)
EXTENDS Naturals, Sequences, FiniteSets

CONSTANTS Gen, None,
          Grace,        \* the quarter minutes a good sample lasts
          MaxMishaps, MaxCommands

ASSUME HostAssumption ==
    /\ None \notin Gen /\ None \notin {"host", "operator", "dead"} /\ None \notin 0..Grace
    /\ Grace \in Nat \ {0} /\ MaxMishaps \in Nat /\ MaxCommands \in Nat

VARIABLES
    lock,      \* clawbot-test.lock: None, "host", "operator", or "dead" when its owner was killed
    files,     \* production-enabled.json, production-maintenance, production-storage-fault.json
    job,       \* launchd: the installed plist and the loaded job
    box,       \* the containers by role
    host,      \* the host process: where its tick is and what it remembers
    op,        \* the running command
    sampled,   \* quarter minutes since the last complete sample of these containers in good health
    mishaps, commands

hostVars == <<lock, files, job, box, host, op, sampled, mishaps, commands>>

Role == {"origin", "openclaw", "guard"}
Dependants == {"openclaw", "guard"}
ClosingOrder == <<"guard", "openclaw", "origin">>
Files == [gate: Gen \cup {None}, marker: Gen \cup {None}, fault: Gen \cup {None}]

\* tie: which origin the container shares its network and processes with:
\* the running process, an earlier one of the same container, or one that is gone.
Container == [gen: Gen \cup {None}, run: BOOLEAN, ready: BOOLEAN, tie: {"live", "old", "lost"}]
Absent == [gen |-> None, run |-> FALSE, ready |-> FALSE, tie |-> "lost"]
Created(g) == [gen |-> g, run |-> FALSE, ready |-> FALSE, tie |-> "old"]

Down == [at |-> "down", gen |-> None, enabled |-> FALSE, todo |-> <<>>, guarded |-> FALSE, result |-> "none",
         fault |-> FALSE, paused |-> FALSE, age |-> None, kept |-> {}, backoff |-> FALSE]
NoCommand == [cmd |-> "none", from |-> None, to |-> None, todo |-> <<>>, done |-> {}, undoing |-> FALSE]

---------------------------------------------------------------------------
\* What an inspection by the driver of generation g reports.

Trusted(g) == {r \in Role : box[r].gen = g}
IdentityValid(g) == Trusted(g) = Role
NamespaceValid == \A r \in Dependants : box[r].tie # "lost"
Healthy == \A r \in Role : box[r].ready
Quiet == \A r \in Role : ~box[r].run

StopStep(r, roles) == IF r \in roles THEN <<<<"stop", r>>>> ELSE <<>>
StopSteps(roles) == StopStep("guard", roles) \o StopStep("openclaw", roles) \o StopStep("origin", roles)

\* Free space becomes a decision; nothing starts again in the middle range.
StorageDecision(sample, wasStopped) ==
    IF sample = "middle" THEN IF wasStopped THEN "hold" ELSE "warn" ELSE sample

Spoilt == mishaps < MaxMishaps /\ mishaps' = mishaps + 1
Fine == UNCHANGED mishaps

---------------------------------------------------------------------------
\* Starting and stopping one container.

Stopped(r) == [box EXCEPT ![r].run = FALSE, ![r].ready = FALSE]
\* A new origin process leaves the dependants behind; compose may also replace the container.
Started(r, g, replaced) ==
    IF r = "origin"
    THEN [x \in Role |-> IF x = "origin" THEN [box[x] EXCEPT !.gen = g, !.run = TRUE, !.ready = FALSE]
                         ELSE [box[x] EXCEPT !.tie = IF replaced THEN "lost" ELSE IF @ = "live" THEN "old" ELSE @]]
    ELSE [box EXCEPT ![r] = [gen |-> g, run |-> TRUE, ready |-> FALSE,
                             tie |-> IF box["origin"].run THEN "live" ELSE "old"]]

---------------------------------------------------------------------------
\* The tick of the host.

HostStarts ==
    /\ host.at = "down" /\ job.loaded # None
    /\ host' = [Down EXCEPT !.at = "idle", !.gen = job.loaded, !.fault = files.fault # None]
    /\ UNCHANGED <<lock, files, job, box, op, sampled, mishaps, commands>>

\* The enable gate is read before the lock is taken.
ReadGate ==
    /\ host.at = "idle" /\ job.loaded = host.gen
    /\ host' = [host EXCEPT !.at = "gated", !.enabled = files.gate = host.gen]
    /\ UNCHANGED <<lock, files, job, box, op, sampled, mishaps, commands>>

TakeLockByForce ==
    /\ host.at = "gated"
    /\ lock' = "host" /\ host' = [host EXCEPT !.at = "locked"]
    /\ UNCHANGED <<files, job, box, op, sampled, mishaps, commands>>
TakeLock ==
    /\ host.at = "gated"
    /\ IF lock = None
       THEN lock' = "host" /\ host' = [host EXCEPT !.at = "locked"]
       ELSE UNCHANGED lock /\ host' = [host EXCEPT !.at = "idle", !.result = "another-operation"]
    /\ UNCHANGED <<files, job, box, op, sampled, mishaps, commands>>

Resolved(h, result, todo) == host' = [h EXCEPT !.at = "acting", !.result = result, !.todo = todo,
                                               !.guarded = FALSE]

\* The decision rests on one inspection, one storage sample and one validation
\* of the inputs, which took `slow` quarter minutes.
\* Both dependants are stopped first; the origin is restarted unless it is ready.
RecoverySteps ==
    IF box["origin"].ready
    THEN <<<<"stop", "guard">>, <<"stop", "openclaw">>,
           <<"ready", "origin">>, <<"start", "openclaw">>, <<"ready", "openclaw">>, <<"inputs", "all">>,
           <<"start", "guard">>, <<"ready", "guard">>, <<"healthy", "all">>>>
    ELSE <<<<"stop", "guard">>, <<"stop", "openclaw">>, <<"stop", "origin">>, <<"start", "origin">>,
           <<"ready", "origin">>, <<"start", "openclaw">>, <<"ready", "openclaw">>, <<"inputs", "all">>,
           <<"start", "guard">>, <<"ready", "guard">>, <<"healthy", "all">>>>

Aged(n, slow) == IF n = None THEN None ELSE IF n + slow > Grace THEN Grace ELSE n + slow
Sound == Healthy /\ NamespaceValid
\* What the process remembers when its tick goes on: the fault file counts as its own.
Awake == [host EXCEPT !.fault = @ \/ files.fault # None]
Forgetful(h) == [h EXCEPT !.age = None, !.kept = {}]
Settled(h, slow) == LET later == [h EXCEPT !.age = Aged(@, slow)]
                    IN IF Sound THEN later ELSE Forgetful(later)

Recover(h) ==
    IF NamespaceValid /\ box["origin"].ready /\ box["openclaw"].ready /\ box["guard"].run
    THEN Resolved(h, "guard-unready", <<>>)
    ELSE IF h.backoff THEN Resolved(h, "backoff", <<>>)
    ELSE Resolved([h EXCEPT !.backoff = TRUE], "recovering", RecoverySteps)

\* A sample counts from the moment it was taken, not from the end of a slow validation.
RememberedLate(h, slow) == [h EXCEPT !.age = 0, !.kept = Role]
Remembered(h, slow) == [h EXCEPT !.age = slow, !.kept = Role]

Deciding == host.at = "locked" /\ UNCHANGED <<lock, job, box, op, commands>>
Looks(bad, slow) == /\ IF bad \/ slow > 0 THEN Spoilt ELSE Fine
                    /\ sampled' = Aged(sampled, slow)

\* A release whose gate is gone closes what is its own and starts nothing.
Disabled ==
    /\ Deciding /\ ~host.enabled
    /\ \E up \in BOOLEAN :
         /\ IF up THEN Fine ELSE Spoilt
         /\ Resolved(host, "disabled", IF up THEN StopSteps(Trusted(host.gen)) ELSE <<>>)
    /\ UNCHANGED <<files, sampled>>

InMaintenance ==
    /\ Deciding /\ host.enabled /\ files.marker # None
    /\ Resolved(host, "maintenance", <<>>)
    /\ UNCHANGED <<files, sampled, mishaps>>

Controls == Deciding /\ host.enabled /\ files.marker = None
DockerAway == Controls /\ Looks(TRUE, 0) /\ Resolved(Awake, "waiting", <<>>) /\ UNCHANGED files

\* A container is missing, or the inspection failed before or after it saw them.
IdentityNeedsAttention ==
    /\ Controls
    /\ \E failed \in BOOLEAN, seen \in {{}, Trusted(host.gen)} :
         /\ ~failed => ~IdentityValid(host.gen) /\ seen = Trusted(host.gen)
         /\ Looks(failed, 0)
         /\ Resolved(Forgetful(Awake), "identity", StopSteps(seen \cap Dependants))
    /\ UNCHANGED files

ActivationNeedsAttention ==
    /\ Controls /\ IdentityValid(host.gen)
    /\ \E slow \in 0..1 : Looks(TRUE, slow) /\ Resolved([Awake EXCEPT !.age = Aged(@, slow)], "activation",
                                                         StopSteps(Dependants))
    /\ UNCHANGED files

\* From here on the identity and the inputs are in order.
Allowed(bad, slow) == Controls /\ IdentityValid(host.gen) /\ Looks(bad, slow)

\* A fault is kept in memory and, when it can be written, in a file that
\* keeps the first one; low space and what follows it stop all three as well.
StorageStops ==
    \E disk \in {"none", "fault", "stop", "hold"}, written \in BOOLEAN, slow \in 0..1 :
       LET fault == Awake.fault \/ disk = "fault" IN
       /\ Awake.fault <=> disk = "none"
       /\ disk = "hold" => StorageDecision("middle", host.paused) = "hold"
       /\ disk # "fault" => written
       /\ Allowed(disk # "none", slow)
       /\ files' = IF disk = "fault" /\ written THEN [files EXCEPT !.fault = host.gen] ELSE files
       /\ Resolved([Awake EXCEPT !.fault = fault, !.paused = TRUE, !.age = Aged(@, slow)],
                   IF fault THEN "fault-latched" ELSE "low-disk", StopSteps(Role))

\* Without an observation nothing starts; the same healthy containers go on for a while.
StorageUnavailable ==
    \E slow \in 0..1 :
       LET age == Aged(host.age, slow)
           grace == ~host.paused /\ Sound /\ age # None /\ age < Grace /\ host.kept = Role
       IN /\ Allowed(TRUE, slow) /\ ~Awake.fault
          /\ IF grace THEN Resolved([Awake EXCEPT !.age = age], "grace", <<>>)
             ELSE Resolved([Forgetful(Awake) EXCEPT !.paused = TRUE], "observation-paused", StopSteps(Role))
          /\ UNCHANGED files

LowDisk ==
    /\ StorageDecision("middle", host.paused) = "warn" /\ ~Awake.fault
    /\ \E slow \in 0..1 :
         /\ Allowed(TRUE, slow)
         /\ IF Sound THEN Resolved([Settled(Awake, slow) EXCEPT !.paused = FALSE], "healthy", <<>>)
            ELSE IF ~Healthy THEN Resolved(Settled(Awake, slow), "no-restart", <<>>)
            ELSE Recover(Settled(Awake, slow))
    /\ UNCHANGED files

StorageGood ==
    \E slow \in 0..1 :
       /\ Controls /\ IdentityValid(host.gen) /\ ~Awake.fault
       /\ IF slow > 0 THEN Spoilt ELSE Fine
       /\ sampled' = IF Sound THEN slow ELSE Aged(sampled, slow)
       /\ IF Sound THEN Resolved(Remembered([Awake EXCEPT !.paused = FALSE], slow), "healthy", <<>>)
          ELSE Recover(Settled(Awake, slow))
       /\ UNCHANGED files

---------------------------------------------------------------------------
\* The steps of a decision.

Advance(h) == host' = [h EXCEPT !.todo = Tail(@), !.guarded = @ \/ (/\ h.result = "recovering"
                                                              /\ h.todo[1] = <<"stop", "openclaw">>)]
Step(what) == host.at = "acting" /\ host.todo # <<>> /\ Head(host.todo)[1] = what
Here == Head(host.todo)[2]

\* A failure in the guarded part of a recovery closes what depends on the
\* ledger; any other ends the tick.
StepFails(b) ==
    /\ box' = b
    /\ \E seen \in BOOLEAN : host' =
               IF host.guarded
               THEN [host EXCEPT !.guarded = FALSE, !.result = "recovery-failed",
                                 !.todo = IF seen THEN StopSteps({r \in Dependants : b[r].gen = host.gen})
                                          ELSE <<>>]
               ELSE [host EXCEPT !.todo = <<>>, !.result = "needs-attention"]

HostStops ==
    /\ Step("stop")
    /\ \/ Here \in Trusted(host.gen) /\ box' = Stopped(Here) /\ Advance(host) /\ Fine
       \/ Here \in Trusted(host.gen) /\ Spoilt /\ \E b \in {box, Stopped(Here)} : StepFails(b)
       \/ Here \notin Trusted(host.gen) /\ StepFails(box) /\ Fine
    /\ UNCHANGED <<lock, files, job, op, sampled, commands>>

HostStartsContainer ==
    /\ Step("start")
    /\ \E replaced \in BOOLEAN :
         LET b == Started(Here, host.gen, replaced)
             same == Here = "origin" /\ box[Here].gen # None /\ ~replaced
         IN
         /\ replaced => Here = "origin"
         /\ \/ /\ Here \in Dependants => box["origin"].gen # None
               /\ box' = b /\ Advance([host EXCEPT !.kept = IF same THEN @ ELSE @ \ {Here}])
               /\ IF replaced THEN Spoilt ELSE Fine
            \/ ~replaced /\ IdentityValid(host.gen) /\ Spoilt /\ (StepFails(box) \/ StepFails(b))
            \/ ~replaced /\ ~IdentityValid(host.gen) /\ StepFails(box) /\ Fine
    /\ sampled' = IF box' = box THEN sampled ELSE None
    /\ UNCHANGED <<lock, files, job, op, commands>>

HostChecks ==
    /\ \/ /\ Step("ready")
          /\ \/ box[Here].ready /\ IdentityValid(host.gen) /\ Advance(host) /\ UNCHANGED <<box, mishaps>>
             \/ /\ ~(box[Here].ready /\ IdentityValid(host.gen))
                /\ IF box[Here].run /\ IdentityValid(host.gen) THEN Spoilt ELSE Fine
                /\ StepFails(box)
       \/ /\ Step("inputs")
          /\ \/ Advance(host) /\ UNCHANGED <<box, mishaps>>
             \/ Spoilt /\ StepFails(box)
       \/ /\ Step("healthy")
          /\ IF IdentityValid(host.gen) /\ Sound
             THEN /\ host' = [host EXCEPT !.todo = <<>>, !.paused = FALSE, !.result = "healthy"]
                  /\ UNCHANGED <<box, mishaps>>
             ELSE Fine /\ StepFails(box)
    /\ UNCHANGED <<lock, files, job, op, sampled, commands>>

HostUnlocksIfHealthy ==
    /\ host.at = "acting" /\ host.todo = <<>>
    /\ lock' = IF host.result = "healthy" THEN None ELSE lock
    /\ host' = IF host.result = "healthy" THEN [host EXCEPT !.at = "idle"] ELSE host
    /\ UNCHANGED <<files, job, box, op, sampled, mishaps, commands>>
HostUnlocks ==
    /\ host.at = "acting" /\ host.todo = <<>>
    /\ lock' = None
    /\ host' = [host EXCEPT !.at = "idle", !.guarded = FALSE]
    /\ UNCHANGED <<files, job, box, op, sampled, mishaps, commands>>

BackoffEnds ==
    /\ host.backoff
    /\ host' = [host EXCEPT !.backoff = FALSE]
    /\ UNCHANGED <<lock, files, job, box, op, sampled, mishaps, commands>>

\* A quarter of a minute passes.
Passes ==
    /\ sampled # Aged(sampled, 1) \/ host.age # Aged(host.age, 1)
    /\ sampled' = Aged(sampled, 1) /\ host' = [host EXCEPT !.age = Aged(@, 1)]
    /\ UNCHANGED <<lock, files, job, box, op, mishaps, commands>>

\* The process is killed: its lock stays behind, launchd starts it again.
HostKilled ==
    /\ host.at # "down" /\ Spoilt
    /\ lock' = IF lock = "host" THEN "dead" ELSE lock
    /\ host' = Down
    /\ UNCHANGED <<files, job, box, op, sampled, commands>>

---------------------------------------------------------------------------
\* The containers on their own.

TurnsReady(r) ==
    /\ box[r].run /\ ~box[r].ready
    /\ box' = [box EXCEPT ![r].ready = TRUE]
    /\ UNCHANGED <<lock, files, job, host, op, sampled, mishaps, commands>>

Falters(r) ==
    /\ box[r].run /\ Spoilt
    /\ box' \in {Stopped(r)} \cup (IF box[r].ready THEN {[box EXCEPT ![r].ready = FALSE]} ELSE {})
    /\ UNCHANGED <<lock, files, job, host, op, sampled, commands>>

\* Somebody removes a container by hand, while no command runs.
Removed(r) ==
    /\ box[r].gen # None /\ op.cmd = "none" /\ Spoilt
    /\ box' = [x \in Role |-> IF x = r THEN Absent
                              ELSE IF r = "origin" THEN [box[x] EXCEPT !.tie = "lost"] ELSE box[x]]
    /\ sampled' = None
    /\ UNCHANGED <<lock, files, job, host, op, commands>>
=============================================================================
