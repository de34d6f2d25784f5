-------------------------- MODULE VolumeGenerations --------------------------
(***************************************************************************)
(* The life of a set of nine volumes: imported once from the old machine   *)
(* (scripts/mac/import-migration.mjs and deploy/docker/import-migration.mjs), *)
(* backed up offline (backup-nine-volumes.mjs), copied, restored as a      *)
(* candidate (restore-nine-backup.mjs), staged as a new generation, for a  *)
(* recovery or for a release update (stage-recovery-generation.mjs), and   *)
(* selected (switch-managed-host.mjs).                                     *)
(*                                                                         *)
(* Three parts stand for the nine volumes: the ledger, the receipts of     *)
(* messages, and the configuration, whose number is the release it is      *)
(* bound to.  Each part carries the receipts of its import and of its      *)
(* generation.  A part is copied in one step and a set in several; an      *)
(* audit is the equality of sets; the hash of a manifest is the archive.   *)
(* The containers, the lock and the way back of a switch are in            *)
(* HostOperations.                                                         *)
(***************************************************************************)
EXTENDS Naturals, Sequences

CONSTANTS None, Generation,
          MaxArchives, MaxWrites, MaxRelease,
          MaxTroubles    \* failed commands, damaged archives and foreign containers

Part == {"ledger", "receipts", "config"}
\* A part with its version and its two receipts; a set while it is copied, and complete.
Versions == [n : 0..(MaxWrites + MaxRelease), imported : BOOLEAN, stamp : Generation \cup {None}]
Sets == [Part -> Versions \cup {None}]
Wholes == [Part -> Versions]
Names == {"base", "candidate"} \cup Generation
Releases == 1..MaxRelease
\* A directory of backups: what was copied, what was audited, and its manifest.
Directories == [parts : Sets, audit : Wholes \cup {None}, intact : BOOLEAN, closed : BOOLEAN,
                set : Names, release : Releases]
Selections == [set : Names \ {"candidate"}, release : Releases]

ASSUME GenerationAssumption ==
    /\ {"base", "candidate"} \cap Generation = {}
    /\ None \notin Versions \cup Sets \cup Directories \cup Selections
    /\ MaxArchives \in Nat /\ MaxWrites \in Nat /\ MaxTroubles \in Nat /\ MaxRelease \in Nat \ {0}

VARIABLES
    volumes,     \* the sets that exist: production's first one, the candidate's, the generations'
    live,        \* the selected set and its release; None before anything was provisioned
    serving,     \* the services run on the selected set
    latched,     \* a storage fault is recorded
    archive,     \* directories of backups in the order they were made, and the copy of one
    candidate,   \* the record of a retained recovery
    stages,      \* the records of staged generations
    work,        \* the running command; it holds the operation lock
    stray,       \* the set a foreign container has mounted
    seen,        \* ghost: the data the selected set has ever held
    meddled,     \* ghost: sets a foreign container has written since they were last compared
    troubles

generationVars == <<volumes, live, serving, latched, archive, candidate, stages, work, stray,
                    seen, meddled, troubles>>

Order == <<"config", "ledger", "receipts">>
Backups == 1..MaxArchives
Copy == 0
Archives == Backups \cup {Copy}
Nothing == [p \in Part |-> None]
\* What may be brought from the old machine: made for a release, bound to one in
\* its own configuration, with the files of its manifest or others.
Package == [target : 1..MaxRelease, bound : 1..MaxRelease, whole : BOOLEAN]
Contents(pkg) == [p \in Part |-> [n |-> IF p = "config" THEN pkg.bound ELSE IF pkg.whole THEN 0 ELSE 1,
                                  imported |-> FALSE, stamp |-> None]]
NoWork == [cmd |-> "none", at |-> "none", left |-> <<>>, k |-> None, g |-> None, up |-> FALSE, before |-> None]
Task(cmd) == [NoWork EXCEPT !.cmd = cmd, !.at = "copy", !.left = Order]

Data(set) == <<set["ledger"].n, set["receipts"].n>>
StampOf(s) == IF s = "base" THEN None ELSE s
Unused(sets) == stray \notin sets
Idle == work = NoWork
Trouble == troubles < MaxTroubles /\ troubles' = troubles + 1

\* The preflight of a release: every part carries the receipt of its import and
\* of exactly this generation, and the configuration is bound to the release.
Imported(set) == \A p \in Part : set[p] # None /\ set[p].imported
StampedFor(set, s) == \A p \in Part : set[p].stamp = StampOf(s)
ValidInputs(s, release) ==
    /\ volumes[s] # None /\ Imported(volumes[s]) /\ StampedFor(volumes[s], s)
    /\ volumes[s]["config"].n = release

At(cmd, at) == work.cmd = cmd /\ work.at = at
Goes(at) == work' = [work EXCEPT !.at = at]
Ends == work' = NoWork
Copied == At(work.cmd, "copy") /\ work.left = <<>>

---------------------------------------------------------------------------
\* The services.

Provision ==
    /\ Idle /\ live = None /\ ValidInputs("base", 1)
    /\ live' = [set |-> "base", release |-> 1]
    /\ seen' = {Data(volumes["base"])}
    /\ UNCHANGED <<volumes, serving, latched, archive, candidate, stages, work, stray, meddled, troubles>>

Serve ==
    /\ Idle /\ live # None /\ ~serving /\ ~latched /\ ValidInputs(live.set, live.release)
    /\ serving' = TRUE
    /\ UNCHANGED <<volumes, live, latched, archive, candidate, stages, work, stray, seen, meddled, troubles>>

Pause ==
    /\ Idle /\ serving
    /\ serving' = FALSE
    /\ latched' \in BOOLEAN
    /\ UNCHANGED <<volumes, live, archive, candidate, stages, work, stray, seen, meddled, troubles>>

Written(s, p) == [volumes EXCEPT ![s][p].n = @ + 1]
Writable(s, p) == volumes[s] # None /\ volumes[s][p] # None /\ p # "config" /\ volumes[s][p].n < MaxWrites
ServiceWrites(p) ==
    /\ serving /\ Writable(live.set, p)
    /\ volumes' = Written(live.set, p)
    /\ seen' = seen \cup {Data(volumes'[live.set])}
    /\ UNCHANGED <<live, serving, latched, archive, candidate, stages, work, stray, meddled, troubles>>

---------------------------------------------------------------------------
\* A container that is none of ours.

StrayStarts(s) ==
    /\ stray = None /\ volumes[s] # None /\ Trouble
    /\ stray' = s
    /\ UNCHANGED <<volumes, live, serving, latched, archive, candidate, stages, work, seen, meddled>>
StrayWrites(p) ==
    /\ stray # None /\ Writable(stray, p)
    /\ volumes' = Written(stray, p)
    /\ seen' = IF live # None /\ live.set = stray THEN seen \cup {Data(volumes'[stray])} ELSE seen
    /\ meddled' = meddled \cup {stray}
    /\ UNCHANGED <<live, serving, latched, archive, candidate, stages, work, stray, troubles>>
StrayEnds ==
    /\ stray # None
    /\ stray' = None
    /\ UNCHANGED <<volumes, live, serving, latched, archive, candidate, stages, work, seen, meddled, troubles>>

Damage(a) ==
    /\ archive[a] # None /\ archive[a].intact /\ Trouble
    /\ archive' = [archive EXCEPT ![a].intact = FALSE]
    /\ UNCHANGED <<volumes, live, serving, latched, candidate, stages, work, stray, seen, meddled>>

---------------------------------------------------------------------------
\* The next part of whatever is being copied: the package into new volumes, the
\* live set into an archive, an archive into new volumes (what a damaged one
\* yields is unknown until its end), the candidate into a generation.

From(p) == CASE work.cmd = "import"  -> Contents(work.k)[p]
             [] work.cmd = "backup"  -> volumes[live.set][p]
             [] work.cmd = "restore" -> IF archive[work.k].intact THEN archive[work.k].parts[p] ELSE None
             [] work.cmd = "stage"   -> volumes["candidate"][p]
Into == CASE work.cmd = "import" -> "base" [] work.cmd = "restore" -> "candidate" [] OTHER -> work.g

CopyPart ==
    /\ At(work.cmd, "copy") /\ work.left # <<>>
    /\ LET p == Head(work.left) IN
       IF work.cmd = "backup"
       THEN archive' = [archive EXCEPT ![work.k].parts[p] = From(p)] /\ UNCHANGED volumes
       ELSE volumes' = [volumes EXCEPT ![Into][p] = From(p)] /\ UNCHANGED archive
    /\ work' = [work EXCEPT !.left = Tail(@)]
    /\ UNCHANGED <<live, serving, latched, candidate, stages, stray, seen, meddled, troubles>>

\* Receipts are written volume by volume, each one created or replaced as a
\* whole; a generation's replaces exactly the one the candidate came with.
StampPart ==
    /\ work.at = "stamp" /\ work.left # <<>>
    /\ work.cmd = "stage" /\ work.left = Order =>
           \A p \in Part : volumes[work.g][p].stamp = StampOf(candidate.set)
    /\ LET p == Head(work.left) IN
       volumes' = IF work.cmd = "import" THEN [volumes EXCEPT !["base"][p].imported = TRUE]
                  ELSE [volumes EXCEPT ![work.g][p].stamp = work.g]
    /\ work' = [work EXCEPT !.left = Tail(@)]
    /\ UNCHANGED <<live, serving, latched, archive, candidate, stages, stray, seen, meddled, troubles>>

---------------------------------------------------------------------------
\* The import: never over anything that is there.

ManifestFits(pkg) == pkg.target = 1
FilesMatch(pkg) == pkg.whole
SemanticsHold(pkg) == pkg.bound = pkg.target
ImportBegins ==
    /\ Idle /\ volumes["base"] = None
    /\ \E pkg \in Package : /\ ManifestFits(pkg) /\ FilesMatch(pkg) /\ SemanticsHold(pkg)
                            /\ work' = [Task("import") EXCEPT !.k = pkg]
    /\ volumes' = [volumes EXCEPT !["base"] = Nothing]
    /\ UNCHANGED <<live, serving, latched, archive, candidate, stages, stray, seen, meddled, troubles>>
ImportGoesOn ==
    /\ \/ Copied /\ work.cmd = "import" /\ volumes["base"] = Contents(work.k)
          /\ work' = [work EXCEPT !.at = "stamp", !.left = Order]
       \/ At("import", "stamp") /\ work.left = <<>> /\ Ends
    /\ UNCHANGED <<volumes, live, serving, latched, archive, candidate, stages, stray, seen, meddled, troubles>>

---------------------------------------------------------------------------
\* The backup of the live set, in maintenance.

OfflineSource == live # None /\ ~serving /\ Unused({live.set}) /\ ValidInputs(live.set, live.release)

BackupBegins(k) ==
    /\ Idle /\ OfflineSource /\ archive[k] = None /\ \A j \in 1..(k - 1) : archive[j] # None
    /\ work' = [Task("backup") EXCEPT !.k = k, !.before = volumes[live.set]]
    /\ archive' = [archive EXCEPT ![k] = [parts |-> Nothing, audit |-> None, intact |-> TRUE, closed |-> FALSE,
                                          set |-> live.set, release |-> live.release]]
    /\ UNCHANGED <<volumes, live, serving, latched, candidate, stages, stray, seen, meddled, troubles>>

\* The source is compared again before the manifest is written.
BackupAudits ==
    /\ Copied /\ work.cmd = "backup" /\ OfflineSource /\ volumes[live.set] = work.before
    /\ archive' = [archive EXCEPT ![work.k].audit = work.before] /\ Goes("verify")
    /\ UNCHANGED <<volumes, live, serving, latched, candidate, stages, stray, seen, meddled, troubles>>

\* The archive is authenticated and unpacked into volumes of this call alone,
\* and these are compared, before the source is looked at a last time.
Authentic(a) == archive[a] # None /\ archive[a].audit # None /\ archive[a].intact
BackupRestores ==
    /\ At("backup", "verify") /\ Authentic(work.k) /\ archive[work.k].parts = work.before
    /\ Goes("close")
    /\ UNCHANGED <<volumes, live, serving, latched, archive, candidate, stages, stray, seen, meddled, troubles>>
BackupCloses ==
    /\ At("backup", "close") /\ OfflineSource
    /\ archive' = [archive EXCEPT ![work.k].closed = TRUE] /\ Ends
    /\ UNCHANGED <<volumes, live, serving, latched, candidate, stages, stray, seen, meddled, troubles>>

\* A copy elsewhere needs no lock; its record is written when the copy has been authenticated.
CopyStarts(k) ==
    /\ archive[Copy] = None /\ Authentic(k) /\ archive[k].closed
    /\ archive' = [archive EXCEPT ![Copy] = [archive[k] EXCEPT !.closed = FALSE]]
    /\ UNCHANGED <<volumes, live, serving, latched, candidate, stages, work, stray, seen, meddled, troubles>>
CopyEnds ==
    /\ Authentic(Copy) /\ ~archive[Copy].closed
    /\ archive' = [archive EXCEPT ![Copy].closed = TRUE]
    /\ UNCHANGED <<volumes, live, serving, latched, candidate, stages, work, stray, seen, meddled, troubles>>

---------------------------------------------------------------------------
\* The recovery of an archive into new volumes: authenticated before they are
\* made, compared with the manifest afterwards.

RestoreBegins(k) ==
    /\ Idle /\ Authentic(k)
    /\ volumes' = [volumes EXCEPT !["candidate"] = Nothing] /\ candidate' = None
    /\ work' = [Task("restore") EXCEPT !.k = k]
    /\ meddled' = meddled \ {"candidate"} /\ stray' = IF stray = "candidate" THEN None ELSE stray
    /\ UNCHANGED <<live, serving, latched, archive, stages, seen, troubles>>

RestoreEndsUnaudited ==
    /\ Copied /\ work.cmd = "restore"
    /\ candidate' = [audit |-> archive[work.k].audit, from |-> work.k, set |-> archive[work.k].set,
                     release |-> archive[work.k].release]
    /\ Ends /\ UNCHANGED <<volumes, stray>>
    /\ UNCHANGED <<live, serving, latched, archive, stages, seen, meddled, troubles>>
RestoreEnds ==
    /\ Copied /\ work.cmd = "restore"
    /\ \E retain \in BOOLEAN :
         IF retain /\ archive[work.k].intact /\ volumes["candidate"] = archive[work.k].audit
         THEN /\ candidate' = [audit |-> archive[work.k].audit, from |-> work.k, set |-> archive[work.k].set,
                               release |-> archive[work.k].release]
              /\ UNCHANGED <<volumes, stray>>
         ELSE /\ volumes' = [volumes EXCEPT !["candidate"] = None] /\ stray # "candidate"
              /\ UNCHANGED <<candidate, stray>>
    /\ Ends
    /\ UNCHANGED <<live, serving, latched, archive, stages, seen, meddled, troubles>>

---------------------------------------------------------------------------
\* The staging of a new generation from the candidate; up is a release update.

\* An update goes from the release of the candidate to another one.
NewRelease == candidate.release < MaxRelease
Kept == volumes["candidate"] = candidate.audit /\ Unused({"candidate", work.g})
StageRelease == IF work.up THEN candidate.release + 1 ELSE candidate.release
Rebound(set) == [set EXCEPT !["config"].n = StageRelease]
Stamped(set) == [p \in Part |-> [set[p] EXCEPT !.stamp = work.g]]

AsExpected == volumes[work.g] = Stamped(Rebound(volumes["candidate"]))

StageBegins(g, up) ==
    /\ Idle /\ candidate # None /\ volumes[g] = None
    /\ volumes["candidate"] = candidate.audit /\ Unused({"candidate"})
    /\ up => NewRelease
    /\ volumes' = [volumes EXCEPT ![g] = Nothing]
    /\ work' = [Task("stage") EXCEPT !.g = g, !.up = up]
    /\ UNCHANGED <<live, serving, latched, archive, candidate, stages, stray, seen, meddled, troubles>>

StageAudits ==
    /\ Copied /\ work.cmd = "stage" /\ Kept /\ volumes[work.g] = candidate.audit
    /\ work' = [work EXCEPT !.at = IF work.up THEN "rebind" ELSE "stamp", !.left = Order]
    /\ UNCHANGED <<volumes, live, serving, latched, archive, candidate, stages, stray, seen, meddled, troubles>>

\* Of the persistent files only the bindings of the configuration change, and
\* this is compared file by file before and after.
StageRebinds ==
    /\ At("stage", "rebind") /\ volumes[work.g] = volumes["candidate"]
    /\ volumes' = [volumes EXCEPT ![work.g] = Rebound(@)] /\ Goes("stamp")
    /\ UNCHANGED <<live, serving, latched, archive, candidate, stages, stray, seen, meddled, troubles>>

StageVerifies ==
    /\ At("stage", "stamp") /\ work.left = <<>>
    /\ work.up => AsExpected
    /\ StampedFor(volumes[work.g], work.g) /\ Kept
    /\ Goes("record")
    /\ UNCHANGED <<volumes, live, serving, latched, archive, candidate, stages, stray, seen, meddled, troubles>>

RecoveryStaged == ~work.up
UpdateStaged == work.up /\ ValidInputs(work.g, StageRelease)
StageRecords ==
    /\ At("stage", "record") /\ (RecoveryStaged \/ UpdateStaged)
    /\ stages' = [stages EXCEPT ![work.g] = [from |-> candidate.from, source |-> candidate.audit,
                                             staged |-> volumes[work.g], up |-> work.up,
                                             release |-> StageRelease, old |-> candidate.release]]
    /\ Ends
    /\ UNCHANGED <<volumes, live, serving, latched, archive, candidate, stray, seen, meddled, troubles>>

---------------------------------------------------------------------------
\* The selection of a staged generation, and the end of a storage fault: both
\* compare the live set with a verified backup of it, more than once.

CurrentBackup(k) == /\ Authentic(k) /\ archive[k].closed
                    /\ archive[k].set = live.set /\ archive[k].release = live.release
SameAsBackup(k) == Unused({live.set}) /\ volumes[live.set] = archive[k].audit
DataVerified == /\ ~latched /\ SameAsBackup(work.k)
                /\ Unused({work.g}) /\ volumes[work.g] = stages[work.g].staged

\* An update must come from the current backup and leave both databases as they
\* were; a recovery stays with the release.
SelectableFromAny(k, g) ==
    IF stages[g].up
    THEN stages[g].old = live.release /\ stages[g].release = live.release + 1
    ELSE stages[g].release = live.release
Selectable(k, g) ==
    IF stages[g].up
    THEN /\ stages[g].from = k /\ stages[g].source = archive[k].audit /\ stages[g].old = live.release
         /\ Data(stages[g].staged) = Data(archive[k].audit)
    ELSE stages[g].release = live.release

SwitchBegins(k, g) ==
    /\ Idle /\ live # None /\ ~serving /\ ~latched /\ live.set # g
    /\ CurrentBackup(k) /\ stages[g] # None /\ Selectable(k, g)
    /\ ValidInputs(live.set, live.release) /\ ValidInputs(g, stages[g].release)
    /\ SameAsBackup(k) /\ Unused({g}) /\ volumes[g] = stages[g].staged
    /\ work' = [NoWork EXCEPT !.cmd = "switch", !.at = "reviewed", !.k = k, !.g = g]
    /\ UNCHANGED <<volumes, live, serving, latched, archive, candidate, stages, stray, seen, meddled, troubles>>

\* Once when the old host has stopped, once when the new containers exist.
SwitchVerifies ==
    /\ work.cmd = "switch" /\ work.at \in {"reviewed", "created"} /\ DataVerified
    /\ Goes(IF work.at = "reviewed" THEN "created" ELSE "select")
    /\ meddled' = meddled \ {live.set}
    /\ UNCHANGED <<volumes, live, serving, latched, archive, candidate, stages, stray, seen, troubles>>

SwitchSelects ==
    /\ At("switch", "select")
    /\ live' = [set |-> work.g, release |-> stages[work.g].release]
    /\ seen' = seen \cup {Data(volumes[work.g])} /\ Ends
    /\ UNCHANGED <<volumes, serving, latched, archive, candidate, stages, stray, meddled, troubles>>

ClearBegins(k) ==
    /\ Idle /\ live # None /\ ~serving /\ latched /\ CurrentBackup(k) /\ SameAsBackup(k)
    /\ work' = [NoWork EXCEPT !.cmd = "clear", !.at = "reviewed", !.k = k]
    /\ UNCHANGED <<volumes, live, serving, latched, archive, candidate, stages, stray, seen, meddled, troubles>>
ClearEndsAtOnce ==
    /\ At("clear", "reviewed")
    /\ latched' = FALSE /\ Ends /\ meddled' = meddled \ {live.set}
    /\ UNCHANGED <<volumes, live, serving, archive, candidate, stages, stray, seen, troubles>>
ClearEnds ==
    /\ At("clear", "reviewed") /\ SameAsBackup(work.k)
    /\ latched' = FALSE /\ Ends /\ meddled' = meddled \ {live.set}
    /\ UNCHANGED <<volumes, live, serving, archive, candidate, stages, stray, seen, troubles>>

---------------------------------------------------------------------------
\* A command that fails or is killed leaves what it has written: a directory
\* without its last record, or volumes nobody selects or fills again.
Fails ==
    /\ ~Idle /\ Trouble
    /\ Ends
    /\ UNCHANGED <<volumes, live, serving, latched, archive, candidate, stages, stray, seen, meddled>>

---------------------------------------------------------------------------
\* Before the import, or in service.
GenerationInit ==
    /\ \E fresh \in BOOLEAN :
         /\ volumes = [s \in Names |-> IF s = "base" /\ ~fresh
                                       THEN [p \in Part |-> [n |-> IF p = "config" THEN 1 ELSE 0,
                                                       imported |-> TRUE, stamp |-> None]] ELSE None]
         /\ live = IF fresh THEN None ELSE [set |-> "base", release |-> 1]
         /\ seen = IF fresh THEN {} ELSE {<<0, 0>>}
    /\ serving = FALSE /\ latched = FALSE
    /\ archive = [a \in Archives |-> None] /\ candidate = None
    /\ stages = [g \in Generation |-> None]
    /\ work = NoWork /\ stray = None /\ meddled = {} /\ troubles = 0

GenerationNext ==
    \/ Provision \/ Serve \/ Pause \/ CopyPart \/ StampPart \/ ImportBegins \/ ImportGoesOn
    \/ BackupAudits \/ BackupRestores \/ BackupCloses \/ CopyEnds \/ RestoreEnds
    \/ StageAudits \/ StageRebinds \/ StageVerifies \/ StageRecords
    \/ SwitchVerifies \/ SwitchSelects \/ ClearEnds \/ Fails \/ StrayEnds
    \/ \E p \in Part : ServiceWrites(p) \/ StrayWrites(p)
    \/ \E s \in Names : StrayStarts(s)
    \/ \E k \in Backups : BackupBegins(k) \/ CopyStarts(k) \/ RestoreBegins(k) \/ ClearBegins(k)
    \/ \E a \in Archives : Damage(a)
    \/ \E g \in Generation, up \in BOOLEAN : StageBegins(g, up)
    \/ \E k \in Backups, g \in Generation : SwitchBegins(k, g)

---------------------------------------------------------------------------
GenerationTypeOK ==
    /\ volumes \in [Names -> Sets \cup {None}]
    /\ live \in Selections \cup {None}
    /\ serving \in BOOLEAN /\ latched \in BOOLEAN
    /\ archive \in [Archives -> Directories \cup {None}]
    /\ candidate \in [audit : Wholes, from : Backups, set : Names, release : Releases] \cup {None}
    /\ stages \in [Generation -> [from : Backups, source : Wholes, staged : Wholes, up : BOOLEAN,
                                  release : Releases, old : Releases] \cup {None}]
    /\ work.cmd \in {"none", "import", "backup", "restore", "stage", "switch", "clear"}
    /\ stray \in Names \cup {None} /\ meddled \subseteq Names
    /\ troubles \in 0..MaxTroubles

\* A backup that says it was verified, a copy with its record and a retained
\* candidate all are one state that production really had, never a mixture.
BackupsAreSnapshots ==
    /\ \A a \in Archives : archive[a] # None /\ archive[a].closed =>
           archive[a].parts = archive[a].audit /\ Data(archive[a].audit) \in seen
    /\ candidate # None =>
           /\ candidate.audit = archive[candidate.from].parts /\ Data(candidate.audit) \in seen
           /\ "candidate" \notin meddled => volumes["candidate"] = candidate.audit

\* What is selected was production's data once, and an update keeps the data of
\* the very moment, whatever was written since the backup it was made from.
SelectionKeepsTheData ==
    [][live # None /\ live' # live =>
           LET g == live'.set IN
           /\ stages[g].up /\ meddled \cap {live.set, g} = {} => Data(volumes[g]) = Data(volumes[live.set])
           /\ g \notin meddled => Data(volumes[g]) \in seen]_generationVars

\* No command writes a set that is selected or recorded, and no fault ends while
\* production differs, at the last comparison, from the backup that was reviewed.
VolumesAreKept ==
    [][/\ \A s \in Names : volumes'[s] # volumes[s] =>
              \/ s = stray \/ (serving /\ s = live.set)
              \/ (live = None \/ live.set # s) /\ (s \in Generation => stages[s] = None)
       /\ latched /\ ~latched' =>
              \E k \in Backups : archive[k] # None /\ archive[k].closed /\ archive[k].audit = volumes[live.set]
      ]_generationVars

\* What is selected is complete and of its own release, also after an import or
\* a staging that was interrupted.
SelectedIsWhole == live # None => ValidInputs(live.set, live.release)
=============================================================================
