-------------------------- MODULE HostOperations --------------------------
(***************************************************************************)
(* The operator's commands on a production host, one at a time, and their  *)
(* composition with the host of HostControl.  A command takes the lock,    *)
(* verifies what it finds and then works through its steps; a switch that  *)
(* fails goes back, and a failed activation removes its gate before it has *)
(* the lock again.                                                         *)
(***************************************************************************)
EXTENDS HostControl

---------------------------------------------------------------------------
\* What a command verifies before its first step, and its steps.

Installed(g) == job = [plist |-> g, loaded |-> g]
Still(g) == IdentityValid(g) /\ NamespaceValid /\ Quiet

CanEnter(g) == files.marker = None /\ IdentityValid(g)
CanResume(g) == files = [gate |-> g, marker |-> g, fault |-> None] /\ IdentityValid(g)
CanClear(g) == files = [gate |-> g, marker |-> g, fault |-> g] /\ Installed(g) /\ Still(g)
CanSwitch(g) == files = [gate |-> g, marker |-> g, fault |-> None] /\ Installed(g) /\ Still(g)
CanActivate(g) == /\ files = [gate |-> None, marker |-> None, fault |-> None]
                  /\ job = [plist |-> None, loaded |-> None] /\ Still(g)

EnterSteps == <<"mark", "guard", "openclaw", "origin", "quiet">>
ResumeSteps == <<"unmark">>
\* The host ends before its fault is removed: its memory goes with the file.
ClearSteps == <<"stop-host", "recheck", "archive", "start-host">>
SwitchSteps == <<"stop-host", "retire", "create", "marker", "gate", "plist", "start-host">>
ActivateSteps == <<"plist", "gate", "start-host", "unlock", "await">>
LockAndClose == <<"lock", "guard", "openclaw", "origin">>
UndoSteps == IF "plist" \in op.done THEN SwitchSteps ELSE Tail(SwitchSteps)

Command(cmd, g, h, can, steps) ==
    /\ op.cmd = "none" /\ commands < MaxCommands /\ lock = None /\ can
    /\ lock' = "operator" /\ commands' = commands + 1
    /\ op' = [NoCommand EXCEPT !.cmd = cmd, !.from = g, !.to = h, !.todo = steps]
    /\ UNCHANGED <<files, job, box, host, sampled, mishaps>>

Enter(g) == Command("enter", g, g, CanEnter(g), EnterSteps)
Resume(g) == Command("resume", g, g, CanResume(g), ResumeSteps)
Clear(g) == Command("clear", g, g, CanClear(g), ClearSteps)
Switch(g, h) == g # h /\ Command("switch", g, h, CanSwitch(g), SwitchSteps)
Activate(g) == Command("activate", g, g, CanActivate(g), ActivateSteps)

---------------------------------------------------------------------------
\* One action for each step.

At(step) == op.todo # <<>> /\ Head(op.todo) = step
Target == IF op.undoing THEN op.from ELSE op.to
Proceed == op' = [op EXCEPT !.todo = Tail(@), !.done = @ \cup {Head(op.todo)}]
Alone(changed) == UNCHANGED <<changed, sampled, commands>>

SetMarker == /\ At("mark") \/ At("marker")
             /\ files' = [files EXCEPT !.marker = Target] /\ Proceed
             /\ Alone(<<lock, job, box, host, mishaps>>)
SetGate == /\ At("gate")
           /\ files' = [files EXCEPT !.gate = Target] /\ Proceed
           /\ Alone(<<lock, job, box, host, mishaps>>)
SetPlist == /\ At("plist")
            /\ job' = [job EXCEPT !.plist = Target] /\ Proceed
            /\ Alone(<<lock, files, box, host, mishaps>>)

\* The containers of the release are stopped one by one; a failed activation
\* passes over those it does not know.
CommandStops ==
    \E r \in Role : /\ At(r)
                    /\ r \in Trusted(op.from) \/ op.cmd = "activate"
                    /\ box' = (IF r \in Trusted(op.from) THEN Stopped(r) ELSE box) /\ Proceed
                    /\ Alone(<<lock, files, job, host, mishaps>>)

CommandVerifies ==
    /\ \/ At("quiet") /\ IdentityValid(op.from) /\ Quiet
       \/ At("recheck") /\ Still(op.from) /\ files = [gate |-> op.from, marker |-> op.from, fault |-> op.from]
    /\ Proceed
    /\ Alone(<<lock, files, job, box, host, mishaps>>)

\* Nothing but the marker is removed: the host starts the services in its next tick.
RemoveMarker == /\ At("unmark")
                /\ files' = [files EXCEPT !.marker = None] /\ Proceed
                /\ Alone(<<lock, job, box, host, mishaps>>)
ArchiveFault == /\ At("archive")
                /\ files' = [files EXCEPT !.fault = None] /\ Proceed
                /\ Alone(<<lock, job, box, host, mishaps>>)

\* launchd ends the process; a tick that is under way finishes first.  Going
\* back, the command accepts that no job is loaded.
HostKnown == /\ job.plist = (IF op.undoing THEN op.to ELSE op.from)
             /\ job.loaded = job.plist \/ (op.undoing /\ job.loaded = None)
HostMayLeave == HostKnown /\ host.at \in {"idle", "down"}
StopHost == /\ At("stop-host") /\ HostMayLeave
            /\ job' = [job EXCEPT !.loaded = None] /\ host' = Down /\ Proceed
            /\ Alone(<<lock, files, box, mishaps>>)
StartHost == /\ At("start-host") /\ job = [plist |-> Target, loaded |-> None]
             /\ job' = [job EXCEPT !.loaded = Target] /\ Proceed
             /\ Alone(<<lock, files, box, host, mishaps>>)

\* Stopped containers are removed, volumes never; going back, whichever set is there.
Retiring == IF op.undoing /\ "retire" \in op.done THEN op.to ELSE op.from
Members == {r \in Role : box[r].gen # None}
Retire == /\ At("retire") /\ Quiet /\ Members = Trusted(Retiring)
          /\ op.undoing \/ Still(Retiring)
          /\ box' = [r \in Role |-> Absent] /\ Proceed
          /\ Alone(<<lock, files, job, host, mishaps>>)
CreateStopped == /\ At("create") /\ Members = {}
                 /\ box' = [r \in Role |-> Created(Target)] /\ Proceed
                 /\ Alone(<<lock, files, job, host, mishaps>>)

\* An activation waits for its host to report good health, without the lock.
Unlock == /\ At("unlock")
          /\ lock' = None /\ Proceed
          /\ Alone(<<files, job, box, host, mishaps>>)
Await == /\ At("await") /\ host.result = "healthy" /\ Healthy /\ files.gate = op.from
         /\ Proceed
         /\ Alone(<<lock, files, job, box, host, mishaps>>)
LockAgain == /\ At("lock") /\ lock = None
             /\ lock' = "operator" /\ Proceed
             /\ Alone(<<files, job, box, host, mishaps>>)

---------------------------------------------------------------------------
\* A step that cannot be taken, or fails after some of its effect.

Effects(step) ==
    CASE step = "stop-host" /\ HostMayLeave -> {<<job, box>>, <<[job EXCEPT !.loaded = None], box>>}
      [] step = "start-host" /\ job = [plist |-> Target, loaded |-> None] ->
             {<<job, box>>, <<[job EXCEPT !.loaded = Target], box>>}
      [] step = "retire" -> {<<job, box>>, <<job, [box EXCEPT !["guard"] = Absent]>>}
      [] step = "create" /\ Members = {} -> {<<job, box>>, <<job, [box EXCEPT !["origin"] = Created(Target)]>>}
      [] OTHER -> {<<job, box>>}

\* Only what the host's own memory or a verified file cannot explain stays for
\* inspection: the switch goes back once the old host has stopped.
AfterFailure ==
    IF op.cmd = "switch" /\ ~op.undoing /\ "stop-host" \in op.done
    THEN op' = [op EXCEPT !.undoing = TRUE, !.todo = UndoSteps] /\ UNCHANGED files
    ELSE IF op.cmd = "activate" /\ "gate" \in op.done /\ "gate-removed" \notin op.done
    THEN /\ files' = [files EXCEPT !.gate = IF @ = op.from THEN None ELSE @]
         /\ op' = [op EXCEPT !.done = @ \cup {"gate-removed"},
                             !.todo = IF "unlock" \in op.done THEN LockAndClose ELSE ClosingOrder]
    ELSE op' = [op EXCEPT !.todo = <<>>] /\ UNCHANGED files

Feasible(step) ==
    CASE step \in Role -> step \in Trusted(op.from) \/ op.cmd = "activate"
      [] step = "quiet" -> IdentityValid(op.from) /\ Quiet
      [] step = "recheck" -> Still(op.from)
      [] step = "stop-host" -> HostKnown
      [] step = "start-host" -> job = [plist |-> Target, loaded |-> None]
      [] step = "retire" -> Quiet /\ Members = Trusted(Retiring) /\ (op.undoing \/ Still(Retiring))
      [] step = "create" -> Members = {}
      [] step = "lock" -> lock = None
      [] OTHER -> step # "await"

CommandFails ==
    /\ op.todo # <<>>
    /\ IF Feasible(Head(op.todo)) THEN Spoilt ELSE Fine
    /\ \E e \in Effects(Head(op.todo)) :
         /\ job' = e[1] /\ box' = e[2]
         /\ host' = IF job.loaded # None /\ job'.loaded = None THEN Down ELSE host
    /\ AfterFailure
    /\ UNCHANGED <<lock, sampled, commands>>

CommandEnds ==
    /\ op.cmd # "none" /\ op.todo = <<>>
    /\ lock' = IF lock = "operator" THEN None ELSE lock
    /\ op' = NoCommand
    /\ UNCHANGED <<files, job, box, host, sampled, mishaps, commands>>

\* Killed: the lock stays behind with whatever was done.
CommandKilled ==
    /\ op.cmd # "none" /\ Spoilt
    /\ lock' = IF lock = "operator" THEN "dead" ELSE lock
    /\ op' = NoCommand
    /\ UNCHANGED <<files, job, box, host, sampled, commands>>

---------------------------------------------------------------------------
\* Before the first activation, in ordinary service, or in maintenance with or
\* without a fault to review.

HostInit ==
    /\ lock = None /\ host = Down /\ op = NoCommand
    /\ sampled = None /\ mishaps = 0 /\ commands = 0
    /\ \E g \in Gen :
         \/ /\ files = [gate |-> None, marker |-> None, fault |-> None]
            /\ job = [plist |-> None, loaded |-> None]
            /\ box = [r \in Role |-> Created(g)]
         \/ /\ files = [gate |-> g, marker |-> None, fault |-> None]
            /\ job = [plist |-> g, loaded |-> g]
            /\ box = [r \in Role |-> [gen |-> g, run |-> TRUE, ready |-> TRUE, tie |-> "live"]]
         \/ \E f \in {g, None} :
            /\ files = [gate |-> g, marker |-> g, fault |-> f]
            /\ job = [plist |-> g, loaded |-> g]
            /\ box = [r \in Role |-> [Created(g) EXCEPT !.tie = "live"]]

HostSteps == \/ HostStarts \/ ReadGate \/ TakeLock
             \/ Disabled \/ InMaintenance \/ DockerAway \/ IdentityNeedsAttention
             \/ ActivationNeedsAttention \/ StorageStops \/ StorageUnavailable \/ LowDisk \/ StorageGood
             \/ HostStops \/ HostStartsContainer \/ HostChecks \/ HostUnlocks

CommandSteps == \/ SetMarker \/ SetGate \/ SetPlist \/ CommandStops \/ CommandVerifies
                \/ RemoveMarker \/ ArchiveFault \/ StopHost \/ StartHost
                \/ Retire \/ CreateStopped \/ Unlock \/ Await \/ LockAgain
                \/ CommandFails \/ CommandEnds

HostNext ==
    \/ HostSteps \/ CommandSteps
    \/ HostKilled \/ CommandKilled \/ BackoffEnds \/ Passes
    \/ \E r \in Role : TurnsReady(r) \/ Falters(r) \/ Removed(r)
    \/ \E g, h \in Gen : Enter(g) \/ Resume(g) \/ Clear(g) \/ Switch(g, h) \/ Activate(g)

\* The host keeps ticking, a wait ends, and a started service answers its health check.
HostFairness == /\ WF_hostVars(HostSteps) /\ WF_hostVars(BackoffEnds)
                /\ \A r \in Role : WF_hostVars(TurnsReady(r))
                /\ WF_hostVars(CommandSteps)

---------------------------------------------------------------------------
HostTypeOK ==
    /\ lock \in {None, "host", "operator", "dead"}
    /\ files \in Files
    /\ job \in [plist : Gen \cup {None}, loaded : Gen \cup {None}]
    /\ box \in [Role -> Container]
    /\ host.at \in {"down", "idle", "gated", "locked", "acting"}
    /\ host.kept \subseteq Role /\ host.age \in (0..Grace) \cup {None}
    /\ sampled \in (0..Grace) \cup {None}
    /\ lock = "host" <=> host.at \in {"locked", "acting"}
    /\ lock = "operator" => op.cmd # "none"
    /\ mishaps \in 0..MaxMishaps /\ commands \in 0..MaxCommands

\* The containers that run are of one release, the one its gate and its
\* marker name, whatever a switch, its way back or a crash has left.
OneRelease ==
    \A r, q \in Role : box[r].run => /\ box[q].gen \in {box[r].gen, None}
                                     /\ files.gate \in {box[r].gen, None}
                                     /\ files.marker \in {box[r].gen, None}

\* Without an observation the services go on only while a complete sample of
\* these very containers is younger than the grace period.
GraceRestsOnASample ==
    host.age # None /\ host.kept = Role /\ Sound => sampled # None /\ sampled <= host.age

\* A container starts only under the host's lock, outside maintenance and
\* while no storage fault is recorded or remembered.
StartsAreAllowed ==
    [][\A r \in Role : ~box[r].run /\ box'[r].run =>
           /\ lock = "host" /\ files.marker = None /\ files.fault = None /\ ~host.fault
           /\ r \in Dependants => box["origin"].gen = host.gen]_hostVars

\* A marker goes only from a release that is selected, known and free of
\* faults; a fault goes only in maintenance, with nothing running and no host
\* left that remembers it.
PausesEndReviewed ==
    [][/\ files.marker # None /\ files'.marker = None =>
              files.gate = files.marker /\ files.fault = None /\ Trusted(files.marker) = Role
       /\ files.fault # None /\ files'.fault = None =>
              files.marker # None /\ Quiet /\ host = Down /\ job.loaded = None]_hostVars

\* Good health is reported of three ready containers that share the running origin.
\* Said of the moment of the inspection: here it is one step with the report, which in
\* production-host.mjs follows the storage probe some seconds later.
HealthIsReal ==
    [][host'.result = "healthy" /\ host.result # "healthy" =>
           \A r \in Role : box[r].ready /\ (r \in Dependants => box[r].tie = "live")]_hostVars

\* A host that is left alone, enabled and without a pause brings its services back.
LeftAlone == /\ mishaps = MaxMishaps /\ op.cmd = "none" /\ lock # "dead"
             /\ \E g \in Gen : /\ files = [gate |-> g, marker |-> None, fault |-> None]
                               /\ job.loaded = g /\ IdentityValid(g)
             /\ ~host.fault
ServicesComeBack == <>[]LeftAlone => <>[]Healthy

=============================================================================
