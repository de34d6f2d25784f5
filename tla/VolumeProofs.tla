---------------------------- MODULE VolumeProofs ----------------------------
(***************************************************************************)
(* For every number of backups, generations, releases and troubles: a       *)
(* verified backup and a retained candidate are states production had, what *)
(* is selected is complete, a selection keeps the data, and no command      *)
(* writes a set that is selected or recorded.                               *)
(***************************************************************************)
EXTENDS MCVolumes, TLAPS

-----------------------------------------------------------------------------
(* The inductive invariant.                                                 *)

Remaining == {Order, <<"ledger", "receipts">>, <<"receipts">>, <<>>}
Left == {work.left[i] : i \in DOMAIN work.left}
WorkIsTyped ==
    work \in [cmd : {"none", "import", "backup", "restore", "stage", "switch", "clear"},
              at : {"none", "copy", "stamp", "verify", "close", "rebind", "record",
                    "reviewed", "created", "select"},
              left : Remaining, k : {work.k}, g : Generation \cup {None},
              up : BOOLEAN, before : Wholes \cup {None}]

\* One part a later state of the other: versions only grow.
Older(a, b) == /\ a \in Versions /\ b \in Versions
               /\ a.imported = b.imported /\ a.stamp = b.stamp /\ a.n <= b.n

\* The selected set is complete, and what it holds counts as production's.
LiveIsValid ==
    /\ live # None => /\ ValidInputs(live.set, live.release) /\ Data(volumes[live.set]) \in seen
                      /\ live.set \in Generation => stages[live.set] # None
                      /\ volumes["base"] # None
    /\ serving => live # None /\ ~latched

\* Nothing is backed up, recovered or staged before something is selected.
NothingBefore ==
    live = None => /\ \A a \in Archives : archive[a] = None
                   /\ candidate = None /\ \A g \in Generation : stages[g] = None

\* A directory with an audit holds what was audited, and production had it.
ArchivesAreTrue ==
    \A a \in Archives : archive[a] # None =>
        /\ archive[a].audit # None => archive[a].parts = archive[a].audit /\ Data(archive[a].audit) \in seen
        /\ archive[a].closed \/ a = Copy => archive[a].audit # None

CandidateIsTrue ==
    candidate # None =>
        /\ archive[candidate.from] # None /\ archive[candidate.from].audit = candidate.audit
        /\ volumes["candidate"] # None
        /\ "candidate" \notin meddled => volumes["candidate"] = candidate.audit

\* A generation with a record exists, and its data was production's unless a
\* foreign container wrote it.
StagesAreKept ==
    \A g \in Generation : stages[g] # None =>
        volumes[g] # None /\ (g \notin meddled => Data(volumes[g]) \in seen)

ImportRuns ==
    work.cmd = "import" =>
        /\ live = None /\ work.k \in Package /\ work.at \in {"copy", "stamp"} /\ volumes["base"] # None
        /\ work.at = "stamp" => volumes["base"] \in Wholes

\* Each copied part lies between what it was at the beginning and what it is.
BackupRuns ==
    work.cmd = "backup" =>
        /\ live # None /\ work.k \in Backups /\ archive[work.k] # None
        /\ work.before \in Wholes /\ work.at \in {"copy", "verify", "close"}
        /\ work.at = "copy" =>
              /\ archive[work.k].audit = None
              /\ \A p \in Part : /\ Older(work.before[p], volumes[live.set][p])
                                 /\ p \notin Left => /\ Older(work.before[p], archive[work.k].parts[p])
                                                     /\ Older(archive[work.k].parts[p], volumes[live.set][p])
        /\ work.at # "copy" => archive[work.k].audit = work.before

RestoreRuns ==
    work.cmd = "restore" =>
        /\ work.k \in Backups /\ archive[work.k] # None /\ archive[work.k].audit # None
        /\ work.at = "copy" /\ candidate = None /\ volumes["candidate"] # None

\* A generation that is being staged has no record, and its data is the candidate's.
StageRuns ==
    work.cmd = "stage" =>
        /\ work.g \in Generation /\ stages[work.g] = None /\ volumes[work.g] # None
        /\ candidate # None /\ (work.up => candidate.release < MaxRelease)
        /\ work.at \in {"copy", "rebind", "stamp", "record"}
        /\ work.at # "copy" => /\ volumes[work.g] \in Wholes
                               /\ work.g \notin meddled => Data(volumes[work.g]) = Data(candidate.audit)

\* What a switch has verified holds until it selects, foreign containers aside.
SwitchRuns ==
    work.cmd = "switch" =>
        /\ live # None /\ ~serving /\ work.k \in Backups /\ work.g \in Generation
        /\ work.at \in {"reviewed", "created", "select"}
        /\ live.set # work.g /\ archive[work.k] # None
        /\ stages[work.g] # None /\ ValidInputs(work.g, stages[work.g].release)
        /\ stages[work.g].up => Data(stages[work.g].staged) = Data(archive[work.k].audit)
        /\ work.g \notin meddled => volumes[work.g] = stages[work.g].staged
        /\ work.at = "select" /\ live.set \notin meddled => volumes[live.set] = archive[work.k].audit

ClearRuns ==
    work.cmd = "clear" =>
        /\ live # None /\ ~serving /\ work.k \in Backups /\ work.at = "reviewed"
        /\ archive[work.k] # None /\ archive[work.k].closed

NothingRuns == work.cmd = "none" => work.at = "none"

CommandsAreTrue == NothingRuns /\ ImportRuns /\ BackupRuns /\ RestoreRuns /\ StageRuns /\ SwitchRuns /\ ClearRuns

VolumeInv ==
    /\ GenerationTypeOK /\ WorkIsTyped
    /\ LiveIsValid /\ NothingBefore /\ ArchivesAreTrue /\ CandidateIsTrue /\ StagesAreKept
    /\ CommandsAreTrue

-----------------------------------------------------------------------------
(* Lists of parts, sets, and what a write leaves alone.                     *)

USE DEF Selections

LEMMA PartsLeft ==
    ASSUME NEW l \in Remaining, l # <<>>
    PROVE  /\ Head(l) \in Part /\ Tail(l) \in Remaining
           /\ \A i \in DOMAIN l : l[i] = Head(l) \/ \E j \in DOMAIN Tail(l) : Tail(l)[j] = l[i]
<1>1. CASE l = Order
  BY <1>1 DEF Remaining, Order, Part
<1>2. CASE l = <<"ledger", "receipts">>
  BY <1>2 DEF Remaining, Order, Part
<1>3. CASE l = <<"receipts">>
  BY <1>3 DEF Remaining, Order, Part
<1> QED BY <1>1, <1>2, <1>3 DEF Remaining

LEMMA Distinct == /\ "base" # "candidate" /\ "base" \in Names /\ "candidate" \in Names
                  /\ Generation \subseteq Names /\ "base" \notin Generation /\ "candidate" \notin Generation
BY GenerationAssumption DEF Names

LEMMA WholeSets == Wholes \subseteq Sets /\ None \notin Wholes
BY GenerationAssumption DEF Wholes, Sets

LEMMA ArchiveNumbers == Copy \notin Backups /\ Copy \in Archives /\ Backups \subseteq Archives
BY GenerationAssumption DEF Backups, Archives, Copy

LEMMA DirectoryIsSomething == None \notin Directories
BY GenerationAssumption

LEMMA OlderIsOrder ==
    /\ \A a \in Versions : Older(a, a)
    /\ \A a, b, c : Older(a, b) /\ Older(b, c) => Older(a, c)
    /\ \A a, b : Older(a, b) /\ Older(b, a) => a = b
BY GenerationAssumption DEF Older, Versions

\* A valid set is complete.
LEMMA ValidIsWhole ==
    ASSUME GenerationTypeOK, NEW s \in Names, NEW r, ValidInputs(s, r)
    PROVE  volumes[s] \in Wholes
BY DEF ValidInputs, Imported, GenerationTypeOK, Sets, Wholes

\* What a write by a service or a foreign container does.
Grows(s) ==
    /\ s \in Names /\ volumes' \in [Names -> Sets \cup {None}]
    /\ \A x \in Names \ {s} : volumes'[x] = volumes[x]
    /\ volumes[s] # None /\ volumes'[s] \in Sets
    /\ volumes'[s]["config"] = volumes[s]["config"]
    /\ \A p \in Part : /\ volumes[s][p] = None <=> volumes'[s][p] = None
                       /\ volumes[s][p] # None => Older(volumes[s][p], volumes'[s][p])

LEMMA WriteGrows ==
    ASSUME GenerationTypeOK, NEW s \in Names, NEW p \in Part, Writable(s, p), volumes' = Written(s, p)
    PROVE  Grows(s)
<1> DEFINE set == volumes[s]
           part == [set[p] EXCEPT !.n = @ + 1]
           new == [set EXCEPT ![p] = part]
<1>1. /\ set \in Sets /\ set[p] \in Versions /\ p # "config"
      /\ set[p].n \in Nat /\ set[p].n < MaxWrites
  BY GenerationAssumption DEF Writable, GenerationTypeOK, Sets, Versions
<1>2. /\ part \in Versions /\ part.n = set[p].n + 1 /\ part.imported = set[p].imported
      /\ part.stamp = set[p].stamp
  BY <1>1, GenerationAssumption DEF Versions
<1>3. Older(set[p], part)
  BY <1>1, <1>2 DEF Older
<1>4. volumes' = [volumes EXCEPT ![s] = new]
  BY <1>1 DEF Written, GenerationTypeOK
<1> HIDE DEF part
<1>5. new \in Sets /\ new[p] = part /\ \A q \in Part \ {p} : new[q] = set[q]
  BY <1>1, <1>2 DEF Sets
<1>6. "config" \in Part
  BY DEF Part
<1>7. \A q \in Part : /\ set[q] = None <=> new[q] = None
                      /\ set[q] # None => Older(set[q], new[q])
  BY <1>1, <1>2, <1>3, <1>5, OlderIsOrder, GenerationAssumption DEF Sets
<1> HIDE DEF new
<1>8. /\ volumes'[s] = new /\ \A x \in Names \ {s} : volumes'[x] = volumes[x]
      /\ volumes' \in [Names -> Sets \cup {None}]
  BY <1>4, <1>5 DEF GenerationTypeOK
<1>9. volumes[s] # None
  BY DEF Writable
<1> QED BY <1>1, <1>5, <1>6, <1>7, <1>8, <1>9 DEF Grows

LEMMA GrowthKeepsValid ==
    ASSUME GenerationTypeOK, NEW s \in Names, Grows(s), NEW x \in Names, NEW r, ValidInputs(x, r)
    PROVE  /\ volumes'[x] # None /\ Imported(volumes'[x]) /\ StampedFor(volumes'[x], x)
           /\ volumes'[x]["config"].n = r /\ volumes'[x] \in Wholes
<1>1. CASE x # s
  BY <1>1, ValidIsWhole DEF Grows, ValidInputs
<1>2. CASE x = s
  <2>1. \A p \in Part : Older(volumes[s][p], volumes'[s][p])
    BY <1>2 DEF Grows, ValidInputs, Imported
  <2>2. volumes'[s] \in Wholes
    BY <2>1 DEF Grows, Sets, Wholes, Older
  <2>3. Imported(volumes'[s]) /\ StampedFor(volumes'[s], s)
    BY <1>2, <2>1, <2>2, WholeSets, GenerationAssumption
    DEF Grows, ValidInputs, Imported, StampedFor, Older, Wholes
  <2> QED BY <1>2, <2>2, <2>3, WholeSets DEF Grows, ValidInputs
<1> QED BY <1>1, <1>2

\* A write by the running services, or by a foreign container, keeps everything.
LEMMA GrowthStep ==
    ASSUME VolumeInv, NEW s \in Names, Grows(s),
           UNCHANGED <<live, serving, latched, archive, candidate, stages, work, stray, troubles>>,
           seen \subseteq seen', meddled \subseteq meddled', meddled' \subseteq Names,
           live # None /\ s = live.set => Data(volumes'[s]) \in seen',
           s \in meddled' \/ (serving /\ s = live.set)
    PROVE  VolumeInv'
<1> USE DEF VolumeInv
<1>1. GenerationTypeOK'
  BY DEF GenerationTypeOK, Grows
<1>2. WorkIsTyped'
  BY DEF WorkIsTyped
<1>3. LiveIsValid'
  <2>1. live # None => live.set \in Names /\ live.release \in Releases
    BY DEF GenerationTypeOK
  <2>2. live # None => /\ ValidInputs(live.set, live.release)'
    BY <2>1, GrowthKeepsValid DEF LiveIsValid, ValidInputs
  <2>3. live # None => Data(volumes[live.set])' \in seen'
    BY <2>1 DEF LiveIsValid, Grows
  <2>4. live # None => volumes'["base"] # None
    BY GenerationAssumption DEF LiveIsValid, Grows, Names
  <2> QED BY <2>2, <2>3, <2>4 DEF LiveIsValid
<1>4. ArchivesAreTrue'
  BY DEF ArchivesAreTrue
<1>5. CandidateIsTrue'
  <2>1. candidate # None /\ s = "candidate" => "candidate" \in meddled'
    BY DEF LiveIsValid, GenerationTypeOK
  <2> QED BY <2>1, Distinct, GenerationAssumption DEF CandidateIsTrue, Grows
<1>6. StagesAreKept'
  <2> SUFFICES ASSUME NEW g \in Generation, stages[g] # None
               PROVE  volumes'[g] # None /\ (g \notin meddled' => Data(volumes'[g]) \in seen')
    BY DEF StagesAreKept
  <2>1. volumes'[g] # None
    BY Distinct, GenerationAssumption DEF StagesAreKept, Grows
  <2>2. CASE g = s
    BY <2>1, <2>2 DEF LiveIsValid
  <2>3. CASE g # s
    BY <2>1, <2>3, Distinct DEF StagesAreKept, Grows
  <2> QED BY <2>2, <2>3
<1>7. ImportRuns'
  <2>1. CASE s # "base"
    BY <2>1, Distinct DEF CommandsAreTrue, ImportRuns, Grows
  <2>2. CASE s = "base"
    <3>1. volumes'["base"] # None
      BY <2>2, GenerationAssumption DEF Grows
    <3>2. volumes["base"] \in Wholes => volumes'["base"] \in Wholes
      BY <2>2, GenerationAssumption DEF Grows, Wholes, Sets, Older
    <3> QED BY <3>1, <3>2 DEF CommandsAreTrue, ImportRuns
  <2> QED BY <2>1, <2>2
<1>8. BackupRuns'
  <2> SUFFICES ASSUME work.cmd = "backup", work.at = "copy"
               PROVE  \A p \in Part : /\ Older(work.before[p], volumes'[live.set][p])
                                      /\ p \notin Left => Older(archive[work.k].parts[p], volumes'[live.set][p])
    BY DEF CommandsAreTrue, BackupRuns, Left
  <2>1. /\ live # None /\ live.set \in Names /\ volumes[live.set] # None
        /\ \A p \in Part : volumes[live.set][p] # None
    BY DEF CommandsAreTrue, BackupRuns, LiveIsValid, ValidInputs, Imported, GenerationTypeOK
  <2>2. \A p \in Part : Older(volumes[live.set][p], volumes'[live.set][p])
    <3>1. CASE live.set = s
      BY <2>1, <3>1 DEF Grows
    <3>2. CASE live.set # s
      BY <2>1, <3>2, OlderIsOrder DEF Grows, GenerationTypeOK, Sets
    <3> QED BY <3>1, <3>2
  <2> QED BY <2>2, OlderIsOrder DEF CommandsAreTrue, BackupRuns
<1>9. RestoreRuns'
  BY Distinct, GenerationAssumption DEF CommandsAreTrue, RestoreRuns, Grows
<1>10. StageRuns'
  <2> SUFFICES ASSUME work.cmd = "stage"
               PROVE  /\ volumes'[work.g] # None
                      /\ work.at # "copy" => /\ volumes'[work.g] \in Wholes
                                             /\ work.g \notin meddled' =>
                                                    Data(volumes'[work.g]) = Data(candidate.audit)
    BY DEF CommandsAreTrue, StageRuns
  <2>1. /\ work.g \in Generation /\ work.g \in Names /\ stages[work.g] = None
        /\ live # None => live.set # work.g
    BY Distinct DEF CommandsAreTrue, StageRuns, LiveIsValid
  <2>2. CASE work.g # s
    BY <2>1, <2>2 DEF CommandsAreTrue, StageRuns, Grows
  <2>3. CASE work.g = s
    <3>1. volumes'[s] # None /\ (volumes[s] \in Wholes => volumes'[s] \in Wholes)
      BY GenerationAssumption DEF Grows, Wholes, Sets, Older
    <3>2. s \in meddled'
      BY <2>1, <2>3 DEF LiveIsValid
    <3> QED BY <2>3, <3>1, <3>2 DEF CommandsAreTrue, StageRuns
  <2> QED BY <2>2, <2>3
<1>11. SwitchRuns'
  <2> SUFFICES ASSUME work.cmd = "switch"
               PROVE  /\ ValidInputs(work.g, stages[work.g].release)'
                      /\ work.g \notin meddled' => volumes'[work.g] = stages[work.g].staged
                      /\ work.at = "select" /\ live.set \notin meddled' =>
                             volumes'[live.set] = archive[work.k].audit
    BY DEF CommandsAreTrue, SwitchRuns
  <2>1. /\ work.g \in Names /\ live.set \in Names /\ ~serving
        /\ ValidInputs(work.g, stages[work.g].release)
    BY Distinct DEF CommandsAreTrue, SwitchRuns, GenerationTypeOK
  <2>2. ValidInputs(work.g, stages[work.g].release)'
    BY <2>1, GrowthKeepsValid DEF ValidInputs
  <2>3. s \in meddled'
    BY <2>1
  <2> QED BY <2>1, <2>2, <2>3 DEF CommandsAreTrue, SwitchRuns, Grows
<1>12. ClearRuns'
  BY DEF CommandsAreTrue, ClearRuns
<1>13. NothingBefore' /\ NothingRuns'
  BY DEF NothingBefore, NothingRuns, CommandsAreTrue
<1> QED BY <1>1, <1>2, <1>3, <1>4, <1>5, <1>6, <1>7, <1>8, <1>9, <1>10, <1>11, <1>12, <1>13
        DEF CommandsAreTrue

LEMMA ServiceStep ==
    ASSUME VolumeInv, NEW p \in Part, ServiceWrites(p)
    PROVE  VolumeInv'
<1>1. /\ live # None /\ live.set \in Names /\ serving /\ Writable(live.set, p)
      /\ volumes' = Written(live.set, p)
  BY DEF ServiceWrites, VolumeInv, LiveIsValid, GenerationTypeOK
<1>2. Grows(live.set)
  BY <1>1, WriteGrows DEF VolumeInv
<1>3. seen \subseteq seen' /\ Data(volumes'[live.set]) \in seen'
  BY DEF ServiceWrites
<1>4. meddled' = meddled /\ meddled' \subseteq Names
  BY DEF ServiceWrites, VolumeInv, GenerationTypeOK
<1> QED BY <1>1, <1>2, <1>3, <1>4, GrowthStep DEF ServiceWrites

LEMMA StrayStep ==
    ASSUME VolumeInv, NEW p \in Part, StrayWrites(p)
    PROVE  VolumeInv'
<1>1. /\ stray \in Names /\ Writable(stray, p) /\ volumes' = Written(stray, p)
      /\ meddled' = meddled \cup {stray}
  BY DEF StrayWrites, VolumeInv, GenerationTypeOK
<1>2. Grows(stray)
  BY <1>1, WriteGrows DEF VolumeInv
<1>3. seen \subseteq seen' /\ (live # None /\ stray = live.set => Data(volumes'[stray]) \in seen')
  BY DEF StrayWrites
<1>4. meddled \subseteq meddled' /\ meddled' \subseteq Names /\ stray \in meddled'
  BY <1>1 DEF VolumeInv, GenerationTypeOK
<1> QED BY <1>1, <1>2, <1>3, <1>4, GrowthStep DEF StrayWrites

-----------------------------------------------------------------------------
(* Steps of the services and of the world that leave the volumes alone.     *)

LEMMA ProvisionStep ==
    ASSUME VolumeInv, Provision
    PROVE  VolumeInv'
<1> USE DEF VolumeInv
<1>1. /\ work = NoWork /\ live = None /\ ValidInputs("base", 1)
      /\ live' = [set |-> "base", release |-> 1] /\ seen' = {Data(volumes["base"])}
      /\ UNCHANGED <<volumes, serving, latched, archive, candidate, stages, work, stray, meddled, troubles>>
  BY DEF Provision, Idle
<1>2. GenerationTypeOK'
  BY <1>1, Distinct, GenerationAssumption DEF GenerationTypeOK, Releases
<1>3. WorkIsTyped'
  BY <1>1 DEF WorkIsTyped
<1>4. LiveIsValid'
  BY <1>1, Distinct DEF LiveIsValid, ValidInputs
<1>5. /\ \A a \in Archives : archive[a] = None
      /\ candidate = None /\ \A g \in Generation : stages[g] = None
  BY <1>1 DEF NothingBefore
<1>6. NothingBefore' /\ ArchivesAreTrue' /\ CandidateIsTrue' /\ StagesAreKept'
  BY <1>1, <1>5 DEF NothingBefore, ArchivesAreTrue, CandidateIsTrue, StagesAreKept
<1>7. CommandsAreTrue'
  BY <1>1 DEF NoWork, CommandsAreTrue, NothingRuns, ImportRuns, BackupRuns, RestoreRuns, StageRuns, SwitchRuns, ClearRuns
<1> QED BY <1>2, <1>3, <1>4, <1>6, <1>7

LEMMA IdleRunsNothing == ASSUME work = NoWork PROVE CommandsAreTrue
BY DEF NoWork, CommandsAreTrue, NothingRuns, ImportRuns, BackupRuns, RestoreRuns, StageRuns, SwitchRuns, ClearRuns

\* The services start and stop while no command runs.
LEMMA ServingStep ==
    ASSUME VolumeInv, Serve \/ Pause
    PROVE  VolumeInv'
<1> USE DEF VolumeInv
<1>1. /\ work = NoWork /\ work' = NoWork
      /\ UNCHANGED <<volumes, live, archive, candidate, stages, stray, seen, meddled, troubles>>
      /\ serving' \in BOOLEAN /\ latched' \in BOOLEAN /\ (serving' => live # None /\ ~latched')
  <2>1. latched \in BOOLEAN
    BY DEF GenerationTypeOK
  <2>2. CASE Serve
    BY <2>1, <2>2 DEF Serve, Idle
  <2>3. CASE Pause
    BY <2>3 DEF Pause, Idle
  <2> QED BY <2>2, <2>3
<1>2. GenerationTypeOK' /\ WorkIsTyped'
  BY <1>1 DEF GenerationTypeOK, WorkIsTyped, NoWork
<1>3. LiveIsValid' /\ NothingBefore' /\ ArchivesAreTrue' /\ CandidateIsTrue' /\ StagesAreKept'
  BY <1>1 DEF LiveIsValid, NothingBefore, ArchivesAreTrue, CandidateIsTrue, StagesAreKept, ValidInputs
<1>4. CommandsAreTrue'
  BY <1>1, IdleRunsNothing
  DEF NoWork, CommandsAreTrue, NothingRuns, ImportRuns, BackupRuns, RestoreRuns, StageRuns, SwitchRuns, ClearRuns
<1> QED BY <1>2, <1>3, <1>4

\* What is stored stays, and only the command moves on.
Records == <<volumes, live, serving, latched, archive, candidate, stages, seen, meddled>>
LEMMA RecordsStay ==
    ASSUME VolumeInv, UNCHANGED Records, stray' \in Names \cup {None}, troubles' \in 0..MaxTroubles,
           WorkIsTyped', CommandsAreTrue'
    PROVE  VolumeInv'
<1> USE DEF VolumeInv, Records
<1>1. GenerationTypeOK'
  BY DEF GenerationTypeOK, WorkIsTyped
<1>2. LiveIsValid' /\ NothingBefore' /\ ArchivesAreTrue' /\ CandidateIsTrue' /\ StagesAreKept'
  BY DEF LiveIsValid, NothingBefore, ArchivesAreTrue, CandidateIsTrue, StagesAreKept, ValidInputs
<1> QED BY <1>1, <1>2

LEMMA CommandStays ==
    ASSUME WorkIsTyped, CommandsAreTrue, UNCHANGED <<work, Records>>
    PROVE  WorkIsTyped' /\ CommandsAreTrue'
BY DEF Records, WorkIsTyped, CommandsAreTrue, NothingRuns, ImportRuns, BackupRuns, RestoreRuns, StageRuns,
       SwitchRuns, ClearRuns, Left, ValidInputs

LEMMA TroubleIsBounded ==
    ASSUME VolumeInv, Trouble PROVE troubles' \in 0..MaxTroubles
BY GenerationAssumption DEF VolumeInv, GenerationTypeOK, Trouble

LEMMA StrayMoves ==
    ASSUME VolumeInv, StrayEnds \/ \E s \in Names : StrayStarts(s)
    PROVE  VolumeInv'
<1>1. stray' \in Names \cup {None} /\ UNCHANGED <<work, Records>>
  BY DEF StrayEnds, StrayStarts, Records
<1>2. troubles' \in 0..MaxTroubles
  BY TroubleIsBounded DEF StrayEnds, StrayStarts, VolumeInv, GenerationTypeOK
<1> QED BY <1>1, <1>2, CommandStays, RecordsStay DEF VolumeInv

\* A command that ends leaves everything as it is.
LEMMA NoWorkIsTyped == ASSUME work' = NoWork PROVE WorkIsTyped' /\ CommandsAreTrue'
BY DEF NoWork, WorkIsTyped, Remaining, CommandsAreTrue, NothingRuns, ImportRuns, BackupRuns, RestoreRuns,
       StageRuns, SwitchRuns, ClearRuns

LEMMA FailsStep == ASSUME VolumeInv, Fails PROVE VolumeInv'
<1>1. work' = NoWork /\ UNCHANGED <<Records, stray>> /\ Trouble
  BY DEF Fails, Ends, Records
<1> QED BY <1>1, NoWorkIsTyped, RecordsStay, TroubleIsBounded DEF VolumeInv, GenerationTypeOK

-----------------------------------------------------------------------------
(* Imports.                                                                 *)

LEMMA TaskIsTyped ==
    ASSUME NEW cmd \in {"import", "backup", "restore", "stage"}
    PROVE  /\ Task(cmd).cmd = cmd /\ Task(cmd).at = "copy" /\ Task(cmd).left = Order
           /\ Task(cmd) \in [cmd : {cmd}, at : {"copy"}, left : {Order}, k : {None}, g : {None},
                             up : {FALSE}, before : {None}]
BY DEF Task, NoWork

LEMMA ImportStep ==
    ASSUME VolumeInv, ImportBegins \/ ImportGoesOn
    PROVE  VolumeInv'
<1> USE DEF VolumeInv
<1>1. CASE ImportBegins
  <2>1. PICK pkg \in Package : work' = [Task("import") EXCEPT !.k = pkg]
    BY <1>1 DEF ImportBegins
  <2>2. /\ work' = [cmd |-> "import", at |-> "copy", left |-> Order, k |-> pkg, g |-> None,
                    up |-> FALSE, before |-> None]
        /\ WorkIsTyped'
    BY <2>1, TaskIsTyped DEF WorkIsTyped, Remaining
  <2>3. /\ volumes["base"] = None /\ volumes' = [volumes EXCEPT !["base"] = Nothing]
        /\ UNCHANGED <<live, serving, latched, archive, candidate, stages, stray, seen, meddled, troubles>>
    BY <1>1 DEF ImportBegins
  <2>4. live = None
    BY <2>3 DEF LiveIsValid
  <2>5. Nothing \in Sets /\ Nothing # None
    BY GenerationAssumption DEF Nothing, Sets
  <2>6. /\ volumes' \in [Names -> Sets \cup {None}] /\ volumes'["base"] # None
        /\ \A s \in Names \ {"base"} : volumes'[s] = volumes[s]
    BY <2>3, <2>5, Distinct DEF GenerationTypeOK
  <2>7. GenerationTypeOK'
    BY <2>2, <2>3, <2>6 DEF GenerationTypeOK
  <2>8. LiveIsValid' /\ NothingBefore' /\ ArchivesAreTrue' /\ CandidateIsTrue' /\ StagesAreKept'
    BY <2>3, <2>4 DEF LiveIsValid, NothingBefore, ArchivesAreTrue, CandidateIsTrue, StagesAreKept
  <2>9. CommandsAreTrue'
    BY <2>2, <2>3, <2>4, <2>6
    DEF CommandsAreTrue, NothingRuns, ImportRuns, BackupRuns, RestoreRuns, StageRuns, SwitchRuns, ClearRuns
  <2> QED BY <2>2, <2>7, <2>8, <2>9
<1>2. CASE ImportGoesOn /\ work' = NoWork
  BY <1>2, NoWorkIsTyped, RecordsStay DEF ImportGoesOn, Records, GenerationTypeOK
<1>3. CASE ImportGoesOn /\ work' # NoWork
  <2>1. /\ work.cmd = "import" /\ volumes["base"] = Contents(work.k)
        /\ work' = [work EXCEPT !.at = "stamp", !.left = Order]
        /\ UNCHANGED <<Records, stray, troubles>>
    BY <1>3 DEF ImportGoesOn, Ends, Records
  <2>2. /\ WorkIsTyped' /\ work'.cmd = "import" /\ work'.at = "stamp" /\ work'.k = work.k
    BY <2>1 DEF WorkIsTyped, Remaining
  <2>3. work.k \in Package /\ live = None /\ volumes["base"] # None
    BY <2>1 DEF CommandsAreTrue, ImportRuns
  <2>4. Contents(work.k) \in Wholes
    BY <2>3, GenerationAssumption DEF Contents, Wholes, Versions, Package
  <2>5. CommandsAreTrue'
    BY <2>1, <2>2, <2>3, <2>4
    DEF CommandsAreTrue, NothingRuns, ImportRuns, BackupRuns, RestoreRuns, StageRuns, SwitchRuns, ClearRuns, Records
  <2> QED BY <2>1, <2>2, <2>5, RecordsStay DEF GenerationTypeOK
<1> QED BY <1>1, <1>2, <1>3

-----------------------------------------------------------------------------
(* Copies and stamps.                                                       *)

\* A set nothing depends on.
Unselected(s) ==
    /\ s \in Names /\ (live # None => live.set # s) /\ (s = "base" => live = None)
    /\ s \in Generation => stages[s] = None
    /\ s = "candidate" => candidate = None
OnlyChanges(s) ==
    /\ volumes' \in [Names -> Sets \cup {None}]
    /\ \A x \in Names \ {s} : volumes'[x] = volumes[x]
    /\ UNCHANGED <<live, serving, latched, archive, candidate, stages, stray, seen, meddled, troubles>>

LEMMA ApartStep ==
    ASSUME VolumeInv, NEW s, Unselected(s), OnlyChanges(s), WorkIsTyped', CommandsAreTrue'
    PROVE  VolumeInv'
<1> USE DEF VolumeInv, OnlyChanges, Unselected
<1>1. GenerationTypeOK'
  BY DEF GenerationTypeOK, WorkIsTyped
<1>2. LiveIsValid'
  <2>1. live # None => live.set \in Names /\ volumes'[live.set] = volumes[live.set]
    BY DEF GenerationTypeOK
  <2>2. live # None => volumes'["base"] # None
    BY Distinct DEF LiveIsValid
  <2> QED BY <2>1, <2>2 DEF LiveIsValid, ValidInputs
<1>3. NothingBefore' /\ ArchivesAreTrue'
  BY DEF NothingBefore, ArchivesAreTrue
<1>4. CandidateIsTrue' /\ StagesAreKept'
  BY Distinct DEF CandidateIsTrue, StagesAreKept
<1> QED BY <1>1, <1>2, <1>3, <1>4

\* Where a command copies to, and stamps, is selected by nobody.
LEMMA IntoIsUnselected ==
    ASSUME VolumeInv, work.cmd \in {"import", "restore", "stage"}
    PROVE  Unselected(Into) /\ volumes[Into] # None /\ volumes[Into] \in Sets
<1> USE DEF VolumeInv
<1>1. Unselected(Into) /\ volumes[Into] # None
  <2>1. CASE work.cmd = "import"
    BY <2>1, Distinct DEF CommandsAreTrue, ImportRuns, Into, Unselected
  <2>2. CASE work.cmd = "restore"
    <3>1. live # None => live.set # "candidate"
      BY DEF GenerationTypeOK
    <3> QED BY <2>2, <3>1, Distinct DEF CommandsAreTrue, RestoreRuns, Into, Unselected
  <2>3. CASE work.cmd = "stage"
    BY <2>3, Distinct DEF CommandsAreTrue, StageRuns, Into, Unselected, LiveIsValid
  <2> QED BY <2>1, <2>2, <2>3
<1> QED BY <1>1 DEF GenerationTypeOK, Unselected

LEMMA NextIsOneLess ==
    ASSUME WorkIsTyped, work.left # <<>>, work' = [work EXCEPT !.left = Tail(@)]
    PROVE  /\ WorkIsTyped' /\ Head(work.left) \in Part
           /\ work'.cmd = work.cmd /\ work'.at = work.at /\ work'.k = work.k /\ work'.g = work.g
           /\ work'.up = work.up /\ work'.before = work.before
           /\ \A p \in Part : p \notin Left' => p = Head(work.left) \/ p \notin Left
<1>1. work.left \in Remaining
  BY DEF WorkIsTyped
<1>2. Head(work.left) \in Part /\ Tail(work.left) \in Remaining
  BY <1>1, PartsLeft
<1>3. WorkIsTyped' /\ work'.left = Tail(work.left)
  BY <1>2 DEF WorkIsTyped
<1>4. \A p \in Part : p \notin Left' => p = Head(work.left) \/ p \notin Left
  BY <1>1, <1>3, PartsLeft DEF Left
<1>5. /\ work'.cmd = work.cmd /\ work'.at = work.at /\ work'.k = work.k /\ work'.g = work.g
      /\ work'.up = work.up /\ work'.before = work.before
  BY DEF WorkIsTyped
<1> QED BY <1>2, <1>3, <1>4, <1>5

LEMMA CopyIntoStep ==
    ASSUME VolumeInv, CopyPart, work.cmd # "backup"
    PROVE  VolumeInv'
<1> DEFINE p == Head(work.left)
<1> USE DEF VolumeInv
<1>1. /\ work.at = "copy" /\ work.left # <<>> /\ work' = [work EXCEPT !.left = Tail(@)]
      /\ volumes' = [volumes EXCEPT ![Into][p] = From(p)]
      /\ UNCHANGED <<live, serving, latched, archive, candidate, stages, stray, seen, meddled, troubles>>
  BY DEF CopyPart, At
<1>2. work.cmd \in {"import", "restore", "stage"}
  BY <1>1 DEF GenerationTypeOK, CommandsAreTrue, SwitchRuns, ClearRuns, NothingRuns
<1>3. p \in Part
  BY <1>1, NextIsOneLess
<1>4. From(p) \in Versions \cup {None}
  <2>1. CASE work.cmd = "import"
    BY <1>3, <2>1, GenerationAssumption
    DEF From, Contents, CommandsAreTrue, ImportRuns, Package, Versions
  <2>2. CASE work.cmd = "restore"
    <3>1. archive[work.k] \in Directories
      BY <2>2, ArchiveNumbers DEF CommandsAreTrue, RestoreRuns, GenerationTypeOK
    <3> QED BY <1>3, <2>2, <3>1 DEF From, Directories, Sets
  <2>3. CASE work.cmd = "stage"
    <3>1. volumes["candidate"] \in Sets
      BY <2>3, Distinct DEF CommandsAreTrue, StageRuns, CandidateIsTrue, GenerationTypeOK
    <3> QED BY <1>3, <2>3, <3>1 DEF From, Sets
  <2> QED BY <1>2, <2>1, <2>2, <2>3
<1> HIDE DEF p
<1>5. OnlyChanges(Into) /\ volumes'[Into] \in Sets
  <2> DEFINE new == [volumes[Into] EXCEPT ![p] = From(p)]
  <2>1. new \in Sets
    BY <1>2, <1>3, <1>4, IntoIsUnselected DEF Sets
  <2> HIDE DEF new
  <2>2. volumes' = [volumes EXCEPT ![Into] = new]
    BY <1>1 DEF new
  <2> QED BY <1>1, <1>2, <2>1, <2>2, IntoIsUnselected DEF OnlyChanges, GenerationTypeOK, Unselected
<1>6. volumes'[Into] # None
  BY <1>5, GenerationAssumption
<1>7. WorkIsTyped' /\ work'.cmd = work.cmd /\ work'.at = "copy" /\ work'.k = work.k /\ work'.g = work.g
      /\ work'.up = work.up
  BY <1>1, NextIsOneLess
<1>8. CommandsAreTrue'
  BY <1>1, <1>2, <1>5, <1>6, <1>7
  DEF CommandsAreTrue, NothingRuns, ImportRuns, BackupRuns, RestoreRuns, StageRuns, SwitchRuns, ClearRuns, Into
<1> QED BY <1>2, <1>5, <1>7, <1>8, IntoIsUnselected, ApartStep

-----------------------------------------------------------------------------
(* Backups.                                                                 *)

\* One directory is made or changed: what it says it has audited stays what it
\* holds, and stays something production had.
Others == <<volumes, live, serving, latched, candidate, stages, stray, seen, meddled>>
LEMMA ArchiveStep ==
    ASSUME VolumeInv, UNCHANGED Others, troubles' \in 0..MaxTroubles, live # None,
           NEW a \in Archives, NEW d \in Directories, archive' = [archive EXCEPT ![a] = d],
           archive[a] # None /\ archive[a].audit # None => d.audit = archive[a].audit,
           d.audit # None => d.parts = d.audit /\ Data(d.audit) \in seen,
           d.closed \/ a = Copy => d.audit # None,
           WorkIsTyped', CommandsAreTrue'
    PROVE  VolumeInv'
<1> USE DEF VolumeInv, Others
<1>1. /\ archive' \in [Archives -> Directories \cup {None}] /\ archive'[a] = d
      /\ \A b \in Archives \ {a} : archive'[b] = archive[b]
  BY DEF GenerationTypeOK
<1>2. GenerationTypeOK'
  BY <1>1 DEF GenerationTypeOK, WorkIsTyped
<1>3. LiveIsValid' /\ NothingBefore' /\ StagesAreKept'
  BY DEF LiveIsValid, NothingBefore, StagesAreKept, ValidInputs
<1>4. ArchivesAreTrue'
  BY <1>1 DEF ArchivesAreTrue
<1>5. CandidateIsTrue'
  <2> SUFFICES ASSUME candidate # None
               PROVE  archive'[candidate.from] # None /\ archive'[candidate.from].audit = candidate.audit
    BY DEF CandidateIsTrue
  <2>1. /\ candidate.from \in Archives /\ candidate.audit # None
        /\ archive[candidate.from] # None /\ archive[candidate.from].audit = candidate.audit
    BY ArchiveNumbers, WholeSets DEF CandidateIsTrue, GenerationTypeOK
  <2>2. d # None
    BY <2>1, <1>1, DirectoryIsSomething
  <2> QED BY <1>1, <2>1, <2>2
<1> QED BY <1>2, <1>3, <1>4, <1>5

\* What a command knows of a directory, it still finds there.
LEMMA ArchivesStayForCommands ==
    ASSUME VolumeInv, UNCHANGED <<work, Others>>,
           \A k \in Backups : archive[k] # None =>
               /\ archive'[k] # None /\ archive'[k].parts = archive[k].parts
               /\ archive'[k].audit = archive[k].audit /\ archive'[k].closed = archive[k].closed
    PROVE  WorkIsTyped' /\ CommandsAreTrue'
<1> USE DEF VolumeInv, Others
<1>1. WorkIsTyped'
  BY DEF WorkIsTyped
<1>2. NothingRuns' /\ ImportRuns' /\ StageRuns'
  BY DEF CommandsAreTrue, NothingRuns, ImportRuns, StageRuns
<1>3. BackupRuns'
  BY DEF CommandsAreTrue, BackupRuns, Left
<1>4. RestoreRuns' /\ ClearRuns'
  BY DEF CommandsAreTrue, RestoreRuns, ClearRuns
<1>5. SwitchRuns'
  BY DEF CommandsAreTrue, SwitchRuns, ValidInputs
<1> QED BY <1>1, <1>2, <1>3, <1>4, <1>5 DEF CommandsAreTrue

LEMMA CopyOutStep ==
    ASSUME VolumeInv, CopyPart, work.cmd = "backup"
    PROVE  VolumeInv'
<1> DEFINE p == Head(work.left)
           k == work.k
           part == volumes[live.set][p]
           d == [archive[k] EXCEPT !.parts[p] = part]
<1> USE DEF VolumeInv
<1>1. /\ work.at = "copy" /\ work.left # <<>> /\ work' = [work EXCEPT !.left = Tail(@)]
      /\ archive' = [archive EXCEPT ![work.k].parts[p] = part] /\ UNCHANGED <<Others, troubles>>
  BY DEF CopyPart, At, From, Others
<1>2. /\ WorkIsTyped' /\ p \in Part
      /\ work'.cmd = work.cmd /\ work'.at = work.at /\ work'.k = work.k /\ work'.before = work.before
      /\ \A q \in Part : q \notin Left' => q = p \/ q \notin Left
  BY <1>1, NextIsOneLess
<1>3. /\ live # None /\ work.k \in Backups /\ archive[work.k] # None /\ work.before \in Wholes
      /\ archive[k] \in Directories /\ archive[k].audit = None
      /\ \A q \in Part : /\ Older(work.before[q], volumes[live.set][q])
                         /\ q \notin Left => /\ Older(work.before[q], archive[work.k].parts[q])
                                             /\ Older(archive[work.k].parts[q], volumes[live.set][q])
  BY <1>1, ArchiveNumbers DEF CommandsAreTrue, BackupRuns, GenerationTypeOK
<1>4. part \in Versions
  BY <1>2, <1>3 DEF Older
<1> HIDE DEF p, part
<1>5. archive[k].parts \in [Part -> Versions \cup {None}]
  BY <1>3 DEF Directories, Sets
<1>6. /\ d \in Directories /\ d.audit = None /\ d.closed = archive[k].closed
      /\ d.parts = [archive[k].parts EXCEPT ![p] = part]
  BY <1>3, <1>4, <1>5 DEF Directories, Sets
<1> HIDE DEF d
<1>7. archive' = [archive EXCEPT ![k] = d] /\ k \in Archives /\ k # Copy
  BY <1>1, <1>3, ArchiveNumbers DEF d, GenerationTypeOK
<1>8. archive'[k] = d /\ d # None
  BY <1>6, <1>7, DirectoryIsSomething DEF GenerationTypeOK
<1>9. \A q \in Part : q \notin Left' => Older(work.before[q], d.parts[q]) /\ Older(d.parts[q], volumes[live.set][q])
  BY <1>2, <1>3, <1>4, <1>5, <1>6, OlderIsOrder DEF part
<1>10. CommandsAreTrue'
  BY <1>1, <1>2, <1>3, <1>6, <1>8, <1>9
  DEF CommandsAreTrue, NothingRuns, ImportRuns, BackupRuns, RestoreRuns, StageRuns, SwitchRuns, ClearRuns, Others
<1>11. ~archive[k].closed
  BY <1>3, <1>7 DEF ArchivesAreTrue
<1>12. troubles' \in 0..MaxTroubles
  BY <1>1 DEF GenerationTypeOK
<1> QED BY <1>1, <1>2, <1>3, <1>6, <1>7, <1>10, <1>11, <1>12, ArchiveStep

LEMMA BackupBeginsStep ==
    ASSUME VolumeInv, NEW k \in Backups, BackupBegins(k)
    PROVE  VolumeInv'
<1> DEFINE d == [parts |-> Nothing, audit |-> None, intact |-> TRUE, closed |-> FALSE,
                 set |-> live.set, release |-> live.release]
<1> USE DEF VolumeInv
<1>1. /\ live # None /\ ValidInputs(live.set, live.release) /\ archive[k] = None
      /\ work' = [Task("backup") EXCEPT !.k = k, !.before = volumes[live.set]]
      /\ archive' = [archive EXCEPT ![k] = d] /\ UNCHANGED <<Others, troubles>>
  BY DEF BackupBegins, OfflineSource, Others
<1>2. /\ live.set \in Names /\ live.release \in Releases /\ volumes[live.set] \in Wholes
  BY <1>1, ValidIsWhole DEF GenerationTypeOK
<1>3. /\ work' = [cmd |-> "backup", at |-> "copy", left |-> Order, k |-> k, g |-> None,
                  up |-> FALSE, before |-> volumes[live.set]]
      /\ WorkIsTyped'
  BY <1>1, <1>2, TaskIsTyped DEF WorkIsTyped, Remaining
<1>4. d \in Directories /\ d.audit = None /\ ~d.closed
  BY <1>2, Distinct DEF Directories, Nothing, Sets
<1> HIDE DEF d
<1>5. k \in Archives /\ k # Copy /\ archive'[k] = d /\ d # None
  BY <1>1, <1>4, ArchiveNumbers, DirectoryIsSomething DEF GenerationTypeOK
<1>6. Part \subseteq Left'
  BY <1>3 DEF Left, Order, Part
<1>7. \A q \in Part : Older(volumes[live.set][q], volumes[live.set][q])
  BY <1>2, OlderIsOrder DEF Wholes
<1>8. CommandsAreTrue'
  <2>1. /\ work'.cmd = "backup" /\ work'.at = "copy" /\ work'.k = k /\ work'.before = volumes[live.set]
    BY <1>3
  <2>2. volumes' = volumes /\ live' = live /\ archive'[k] # None /\ archive'[k].audit = None
    BY <1>1, <1>4, <1>5 DEF Others
  <2>3. BackupRuns'
    BY <1>1, <1>2, <1>6, <1>7, <2>1, <2>2 DEF BackupRuns
  <2>4. NothingRuns' /\ ImportRuns' /\ RestoreRuns' /\ StageRuns' /\ SwitchRuns' /\ ClearRuns'
    BY <2>1 DEF NothingRuns, ImportRuns, RestoreRuns, StageRuns, SwitchRuns, ClearRuns
  <2> QED BY <2>3, <2>4 DEF CommandsAreTrue
<1>9. troubles' \in 0..MaxTroubles
  BY <1>1 DEF GenerationTypeOK
<1> QED BY <1>1, <1>3, <1>4, <1>5, <1>8, <1>9, ArchiveStep

\* What was copied part by part is one state: nothing was written meanwhile.
LEMMA BackupAuditsStep ==
    ASSUME VolumeInv, BackupAudits
    PROVE  VolumeInv'
<1> DEFINE k == work.k
           d == [archive[k] EXCEPT !.audit = work.before]
<1> USE DEF VolumeInv
<1>1. /\ work.cmd = "backup" /\ work.at = "copy" /\ work.left = <<>> /\ volumes[live.set] = work.before
      /\ archive' = [archive EXCEPT ![k].audit = work.before] /\ work' = [work EXCEPT !.at = "verify"]
      /\ UNCHANGED <<Others, troubles>>
  BY DEF BackupAudits, Copied, At, Goes, Others
<1>2. /\ live # None /\ k \in Backups /\ archive[k] # None /\ work.before \in Wholes
      /\ archive[k] \in Directories /\ archive[k].audit = None
      /\ \A q \in Part : q \notin Left => /\ Older(work.before[q], archive[k].parts[q])
                                          /\ Older(archive[k].parts[q], work.before[q])
  BY <1>1, ArchiveNumbers DEF CommandsAreTrue, BackupRuns, GenerationTypeOK
<1>3. \A q \in Part : archive[k].parts[q] = work.before[q]
  BY <1>1, <1>2, OlderIsOrder DEF Left
<1>4. archive[k].parts = work.before
  BY <1>2, <1>3 DEF Directories, Sets, Wholes
<1>5. Data(work.before) \in seen
  BY <1>1, <1>2 DEF LiveIsValid
<1>6. /\ d \in Directories /\ d.audit = work.before /\ d.parts = work.before /\ d.closed = archive[k].closed
  BY <1>2, <1>4 DEF Directories
<1> HIDE DEF d
<1>7. archive' = [archive EXCEPT ![k] = d] /\ k \in Archives /\ k # Copy
  BY <1>1, <1>2, ArchiveNumbers DEF d, GenerationTypeOK
<1>8. archive'[k] = d /\ d # None
  BY <1>6, <1>7, DirectoryIsSomething DEF GenerationTypeOK
<1>9. /\ WorkIsTyped' /\ work'.cmd = "backup" /\ work'.at = "verify" /\ work'.k = k
      /\ work'.before = work.before
  BY <1>1 DEF WorkIsTyped
<1>10. CommandsAreTrue'
  BY <1>1, <1>2, <1>6, <1>8, <1>9
  DEF CommandsAreTrue, NothingRuns, ImportRuns, BackupRuns, RestoreRuns, StageRuns, SwitchRuns, ClearRuns, Others
<1>11. work.before # None /\ troubles' \in 0..MaxTroubles
  BY <1>1, <1>2, WholeSets DEF GenerationTypeOK
<1>12. /\ archive[k] # None /\ archive[k].audit # None => d.audit = archive[k].audit
       /\ d.audit # None => d.parts = d.audit /\ Data(d.audit) \in seen
       /\ d.closed \/ k = Copy => d.audit # None
  BY <1>2, <1>5, <1>6, <1>11
<1>13. UNCHANGED Others /\ live # None /\ d \in Directories /\ WorkIsTyped'
  BY <1>1, <1>2, <1>6, <1>9
<1> QED BY ONLY VolumeInv, <1>7, <1>10, <1>11, <1>12, <1>13, ArchiveStep

LEMMA BackupEndsStep ==
    ASSUME VolumeInv, BackupRestores \/ BackupCloses
    PROVE  VolumeInv'
<1> USE DEF VolumeInv
<1>1. CASE BackupRestores
  <2>1. /\ work.cmd = "backup" /\ work.at = "verify" /\ work' = [work EXCEPT !.at = "close"]
        /\ UNCHANGED <<Records, stray, troubles>>
    BY <1>1 DEF BackupRestores, At, Goes, Records
  <2>2. /\ WorkIsTyped' /\ work'.cmd = "backup" /\ work'.at = "close" /\ work'.k = work.k
        /\ work'.before = work.before
    BY <2>1 DEF WorkIsTyped
  <2>3. CommandsAreTrue'
    BY <2>1, <2>2
    DEF CommandsAreTrue, NothingRuns, ImportRuns, BackupRuns, RestoreRuns, StageRuns, SwitchRuns, ClearRuns, Records
  <2> QED BY <2>1, <2>2, <2>3, RecordsStay DEF GenerationTypeOK
<1>2. CASE BackupCloses
  <2> DEFINE k == work.k
             d == [archive[k] EXCEPT !.closed = TRUE]
  <2>1. /\ work.cmd = "backup" /\ work.at = "close" /\ work' = NoWork /\ live # None
        /\ archive' = [archive EXCEPT ![k].closed = TRUE] /\ UNCHANGED <<Others, troubles>>
    BY <1>2 DEF BackupCloses, OfflineSource, At, Ends, Others
  <2>2. /\ k \in Backups /\ archive[k] # None /\ archive[k] \in Directories
        /\ archive[k].audit = work.before /\ work.before # None
    BY <2>1, ArchiveNumbers, WholeSets DEF CommandsAreTrue, BackupRuns, GenerationTypeOK
  <2>3. /\ d \in Directories /\ d.audit = archive[k].audit /\ d.parts = archive[k].parts
    BY <2>2 DEF Directories
  <2>4. archive' = [archive EXCEPT ![k] = d] /\ k \in Archives
    BY <2>1, <2>2, ArchiveNumbers DEF GenerationTypeOK
  <2> HIDE DEF d
  <2>5. d.audit # None => d.parts = d.audit /\ Data(d.audit) \in seen
    BY <2>2, <2>3, <2>4 DEF ArchivesAreTrue
  <2> QED BY <2>1, <2>2, <2>3, <2>4, <2>5, NoWorkIsTyped, ArchiveStep DEF GenerationTypeOK
<1> QED BY <1>1, <1>2

\* The copy of a directory, its record, and a damage to one.
LEMMA CopiesStep ==
    ASSUME VolumeInv, CopyEnds \/ \E k \in Backups : CopyStarts(k)
    PROVE  VolumeInv'
<1> USE DEF VolumeInv
<1>1. ASSUME NEW k \in Backups, CopyStarts(k)
      PROVE  VolumeInv'
  <2> DEFINE d == [archive[k] EXCEPT !.closed = FALSE]
  <2>1. /\ archive[Copy] = None /\ archive[k] # None /\ archive[k].audit # None
        /\ archive' = [archive EXCEPT ![Copy] = d] /\ UNCHANGED <<work, Others, troubles>>
    BY <1>1 DEF CopyStarts, Authentic, Others
  <2>2. archive[k] \in Directories /\ k \in Archives
    BY <2>1, ArchiveNumbers DEF GenerationTypeOK
  <2>3. d \in Directories /\ d.audit = archive[k].audit /\ d.parts = archive[k].parts
    BY <2>2 DEF Directories
  <2> HIDE DEF d
  <2>4. d.audit # None => d.parts = d.audit /\ Data(d.audit) \in seen
    BY <2>1, <2>2, <2>3 DEF ArchivesAreTrue
  <2>5. \A j \in Backups : archive'[j] = archive[j]
    BY <2>1, ArchiveNumbers DEF GenerationTypeOK
  <2>6. live # None
    BY <2>1, <2>2 DEF NothingBefore
  <2> QED BY <2>1, <2>2, <2>3, <2>4, <2>5, <2>6, ArchiveNumbers, ArchivesStayForCommands, ArchiveStep
          DEF GenerationTypeOK
<1>2. CASE CopyEnds
  <2> DEFINE d == [archive[Copy] EXCEPT !.closed = TRUE]
  <2>1. /\ archive[Copy] # None /\ archive[Copy].audit # None
        /\ archive' = [archive EXCEPT ![Copy].closed = TRUE] /\ UNCHANGED <<work, Others, troubles>>
    BY <1>2 DEF CopyEnds, Authentic, Others
  <2>2. archive[Copy] \in Directories
    BY <2>1, ArchiveNumbers DEF GenerationTypeOK
  <2>3. d \in Directories /\ d.audit = archive[Copy].audit /\ d.parts = archive[Copy].parts
    BY <2>2 DEF Directories
  <2>4. archive' = [archive EXCEPT ![Copy] = d]
    BY <2>1, ArchiveNumbers DEF GenerationTypeOK
  <2> HIDE DEF d
  <2>5. d.audit # None => d.parts = d.audit /\ Data(d.audit) \in seen
    BY <2>1, <2>3, ArchiveNumbers DEF ArchivesAreTrue
  <2>6. \A j \in Backups : archive'[j] = archive[j]
    BY <2>4, ArchiveNumbers DEF GenerationTypeOK
  <2>7. live # None
    BY <2>1, ArchiveNumbers DEF NothingBefore
  <2> QED BY <2>1, <2>3, <2>4, <2>5, <2>6, <2>7, ArchiveNumbers, ArchivesStayForCommands, ArchiveStep
          DEF GenerationTypeOK
<1> QED BY <1>1, <1>2

LEMMA DamageStep ==
    ASSUME VolumeInv, NEW a \in Archives, Damage(a)
    PROVE  VolumeInv'
<1> USE DEF VolumeInv
<1> DEFINE d == [archive[a] EXCEPT !.intact = FALSE]
<1>1. /\ archive[a] # None /\ archive' = [archive EXCEPT ![a].intact = FALSE]
      /\ UNCHANGED <<work, Others>> /\ Trouble
  BY DEF Damage, Others
<1>2. archive[a] \in Directories
  BY <1>1 DEF GenerationTypeOK
<1>3. /\ d \in Directories /\ d.audit = archive[a].audit /\ d.parts = archive[a].parts
      /\ d.closed = archive[a].closed
  BY <1>2 DEF Directories
<1>4. archive' = [archive EXCEPT ![a] = d]
  BY <1>1 DEF GenerationTypeOK
<1> HIDE DEF d
<1>5. /\ d.audit # None => d.parts = d.audit /\ Data(d.audit) \in seen
      /\ d.closed \/ a = Copy => d.audit # None
  BY <1>1, <1>3 DEF ArchivesAreTrue
<1>6. live # None /\ troubles' \in 0..MaxTroubles
  BY <1>1, TroubleIsBounded DEF NothingBefore
<1>7. archive'[a] = d /\ d # None /\ \A j \in Archives \ {a} : archive'[j] = archive[j]
  BY <1>3, <1>4, DirectoryIsSomething DEF GenerationTypeOK
<1>8. WorkIsTyped' /\ CommandsAreTrue'
  BY <1>1, <1>3, <1>7, ArchiveNumbers, ArchivesStayForCommands
<1> QED BY <1>1, <1>3, <1>4, <1>5, <1>6, <1>8, ArchiveStep

-----------------------------------------------------------------------------
(* Recoveries.                                                              *)

LEMMA RestoreBeginsStep ==
    ASSUME VolumeInv, NEW k \in Backups, RestoreBegins(k)
    PROVE  VolumeInv'
<1> USE DEF VolumeInv
<1>1. /\ archive[k] # None /\ archive[k].audit # None
      /\ volumes' = [volumes EXCEPT !["candidate"] = Nothing] /\ candidate' = None
      /\ work' = [Task("restore") EXCEPT !.k = k]
      /\ meddled' = meddled \ {"candidate"} /\ stray' \in {stray, None}
      /\ UNCHANGED <<live, serving, latched, archive, stages, seen, troubles>>
  BY DEF RestoreBegins, Authentic
<1>2. /\ work' = [cmd |-> "restore", at |-> "copy", left |-> Order, k |-> k, g |-> None,
                  up |-> FALSE, before |-> None]
      /\ WorkIsTyped'
  BY <1>1, TaskIsTyped DEF WorkIsTyped, Remaining
<1>3. Nothing \in Sets /\ Nothing # None
  BY GenerationAssumption DEF Nothing, Sets
<1>4. /\ volumes' \in [Names -> Sets \cup {None}] /\ volumes'["candidate"] # None
      /\ \A s \in Names \ {"candidate"} : volumes'[s] = volumes[s]
  BY <1>1, <1>3, Distinct DEF GenerationTypeOK
<1>5. GenerationTypeOK'
  BY <1>1, <1>2, <1>4 DEF GenerationTypeOK
<1>6. LiveIsValid'
  <2>1. live # None => live.set \in Names /\ volumes'[live.set] = volumes[live.set]
    BY <1>4 DEF GenerationTypeOK
  <2>2. live # None => volumes'["base"] # None
    BY <1>4, Distinct DEF LiveIsValid
  <2> QED BY <1>1, <2>1, <2>2 DEF LiveIsValid, ValidInputs
<1>7. NothingBefore' /\ ArchivesAreTrue' /\ CandidateIsTrue'
  BY <1>1 DEF NothingBefore, ArchivesAreTrue, CandidateIsTrue
<1>8. StagesAreKept'
  BY <1>1, <1>4, Distinct DEF StagesAreKept
<1>9. CommandsAreTrue'
  BY <1>1, <1>2, <1>4
  DEF CommandsAreTrue, NothingRuns, ImportRuns, BackupRuns, RestoreRuns, StageRuns, SwitchRuns, ClearRuns
<1> QED BY <1>2, <1>5, <1>6, <1>7, <1>8, <1>9

\* The candidate is retained as it was audited, or removed.
LEMMA RestoreEndsStep ==
    ASSUME VolumeInv, RestoreEnds
    PROVE  VolumeInv'
<1> USE DEF VolumeInv
<1>1. /\ work.cmd = "restore" /\ work' = NoWork
      /\ UNCHANGED <<live, serving, latched, archive, stages, seen, meddled, troubles>>
  BY DEF RestoreEnds, Copied, At, Ends
<1>2. /\ work.k \in Backups /\ archive[work.k] # None /\ archive[work.k].audit # None
      /\ candidate = None /\ volumes["candidate"] # None
      /\ archive[work.k] \in Directories
  BY <1>1, ArchiveNumbers DEF CommandsAreTrue, RestoreRuns, GenerationTypeOK
<1>3. CASE /\ candidate' = [audit |-> archive[work.k].audit, from |-> work.k, set |-> archive[work.k].set,
                            release |-> archive[work.k].release]
           /\ volumes["candidate"] = archive[work.k].audit /\ UNCHANGED <<volumes, stray>>
  <2>1. archive[work.k].audit \in Wholes
    BY <1>2 DEF Directories
  <2>2. GenerationTypeOK'
    BY <1>1, <1>2, <1>3, <2>1, NoWorkIsTyped DEF GenerationTypeOK, WorkIsTyped, Directories
  <2>3. live # None
    BY <1>2, ArchiveNumbers DEF NothingBefore
  <2>4. LiveIsValid' /\ NothingBefore' /\ ArchivesAreTrue' /\ StagesAreKept'
    BY <1>1, <1>3, <2>3 DEF LiveIsValid, NothingBefore, ArchivesAreTrue, StagesAreKept, ValidInputs
  <2>5. CandidateIsTrue'
    BY <1>1, <1>2, <1>3 DEF CandidateIsTrue
  <2> QED BY <1>1, <2>2, <2>4, <2>5, NoWorkIsTyped
<1>4. CASE volumes' = [volumes EXCEPT !["candidate"] = None] /\ UNCHANGED <<candidate, stray>>
  <2>1. OnlyChanges("candidate")
    BY <1>1, <1>4 DEF OnlyChanges, GenerationTypeOK
  <2>2. live # None => live.set # "candidate"
    BY DEF GenerationTypeOK
  <2>3. Unselected("candidate")
    BY <1>2, <2>2, Distinct DEF Unselected
  <2> QED BY <1>1, <2>1, <2>3, NoWorkIsTyped, ApartStep
<1> QED BY <1>3, <1>4 DEF RestoreEnds

-----------------------------------------------------------------------------
(* Receipts, and the staging of a generation.                               *)

LEMMA StampStep ==
    ASSUME VolumeInv, StampPart
    PROVE  VolumeInv'
<1> DEFINE p == Head(work.left)
           set == volumes[Into]
           part == IF work.cmd = "import" THEN [set[p] EXCEPT !.imported = TRUE]
                   ELSE [set[p] EXCEPT !.stamp = work.g]
           new == [set EXCEPT ![p] = part]
<1> USE DEF VolumeInv
<1>1. /\ work.at = "stamp" /\ work.left # <<>> /\ work' = [work EXCEPT !.left = Tail(@)]
      /\ UNCHANGED <<live, serving, latched, archive, candidate, stages, stray, seen, meddled, troubles>>
  BY DEF StampPart
<1>2. work.cmd \in {"import", "stage"}
  BY <1>1
  DEF GenerationTypeOK, CommandsAreTrue, NothingRuns, BackupRuns, RestoreRuns, SwitchRuns, ClearRuns
<1>3. p \in Part
  BY <1>1, NextIsOneLess
<1>4. set \in Wholes /\ set[p] \in Versions
  BY <1>1, <1>2, <1>3 DEF CommandsAreTrue, ImportRuns, StageRuns, Into, Wholes
<1>5. part \in Versions /\ part.n = set[p].n
  <2>1. CASE work.cmd = "import"
    BY <1>4, <2>1 DEF Versions
  <2>2. CASE work.cmd = "stage"
    BY <1>4, <2>2 DEF Versions, CommandsAreTrue, StageRuns
  <2> QED BY <1>2, <2>1, <2>2
<1>6. volumes' = [volumes EXCEPT ![Into] = new]
  <2>1. Into \in Names
    BY <1>2, IntoIsUnselected DEF Unselected
  <2>2. CASE work.cmd = "import"
    BY <2>1, <2>2, <1>3, <1>4 DEF StampPart, Into, GenerationTypeOK, Wholes
  <2>3. CASE work.cmd = "stage"
    BY <2>1, <2>3, <1>3, <1>4 DEF StampPart, Into, GenerationTypeOK, Wholes
  <2> QED BY <1>2, <2>2, <2>3
<1> HIDE DEF p, part
<1>7. new \in Wholes /\ \A q \in Part : new[q].n = set[q].n
  BY <1>3, <1>4, <1>5 DEF Wholes
<1>8. Data(new) = Data(set)
  BY <1>7 DEF Data, Part
<1> HIDE DEF new
<1>9. OnlyChanges(Into) /\ volumes'[Into] = new /\ new # None
  BY <1>1, <1>2, <1>6, <1>7, IntoIsUnselected, WholeSets DEF OnlyChanges, GenerationTypeOK, Unselected
<1>10. WorkIsTyped' /\ work'.cmd = work.cmd /\ work'.at = "stamp" /\ work'.k = work.k /\ work'.g = work.g
       /\ work'.up = work.up
  BY <1>1, NextIsOneLess
<1>11. CommandsAreTrue'
  <2>1. CASE work.cmd = "import"
    BY <1>1, <1>7, <1>9, <1>10, <2>1
    DEF CommandsAreTrue, NothingRuns, ImportRuns, BackupRuns, RestoreRuns, StageRuns, SwitchRuns, ClearRuns, Into
  <2>2. CASE work.cmd = "stage"
    BY <1>1, <1>7, <1>8, <1>9, <1>10, <2>2
    DEF CommandsAreTrue, NothingRuns, ImportRuns, BackupRuns, RestoreRuns, StageRuns, SwitchRuns, ClearRuns, Into
  <2> QED BY <1>2, <2>1, <2>2
<1> QED BY <1>2, <1>9, <1>10, <1>11, IntoIsUnselected, ApartStep

LEMMA StageBeginsStep ==
    ASSUME VolumeInv, NEW g \in Generation, NEW up \in BOOLEAN, StageBegins(g, up)
    PROVE  VolumeInv'
<1> USE DEF VolumeInv
<1>1. /\ candidate # None /\ volumes[g] = None /\ (up => candidate.release < MaxRelease)
      /\ volumes' = [volumes EXCEPT ![g] = Nothing]
      /\ work' = [Task("stage") EXCEPT !.g = g, !.up = up]
      /\ UNCHANGED <<live, serving, latched, archive, candidate, stages, stray, seen, meddled, troubles>>
  BY DEF StageBegins, NewRelease
<1>2. /\ work' = [cmd |-> "stage", at |-> "copy", left |-> Order, k |-> None, g |-> g,
                  up |-> up, before |-> None]
      /\ WorkIsTyped'
  BY <1>1, TaskIsTyped DEF WorkIsTyped, Remaining
<1>3. Nothing \in Sets /\ Nothing # None
  BY GenerationAssumption DEF Nothing, Sets
<1>4. OnlyChanges(g) /\ volumes'[g] # None
  BY <1>1, <1>3, Distinct DEF OnlyChanges, GenerationTypeOK
<1>5. Unselected(g) /\ stages[g] = None
  BY <1>1, Distinct DEF Unselected, LiveIsValid, StagesAreKept, ValidInputs
<1>6. CommandsAreTrue'
  <2>1. /\ work'.cmd = "stage" /\ work'.at = "copy" /\ work'.g = g /\ work'.up = up
    BY <1>2
  <2>2. StageRuns'
    BY <1>1, <1>4, <1>5, <2>1 DEF StageRuns
  <2>3. NothingRuns' /\ ImportRuns' /\ BackupRuns' /\ RestoreRuns' /\ SwitchRuns' /\ ClearRuns'
    BY <2>1 DEF NothingRuns, ImportRuns, BackupRuns, RestoreRuns, SwitchRuns, ClearRuns
  <2> QED BY <2>2, <2>3 DEF CommandsAreTrue
<1> QED BY <1>2, <1>4, <1>5, <1>6, ApartStep

\* The audits of a staging change nothing.
LEMMA StageChecksStep ==
    ASSUME VolumeInv, StageAudits \/ StageVerifies
    PROVE  VolumeInv'
<1> USE DEF VolumeInv
<1>1. /\ work.cmd = "stage" /\ work'.cmd = "stage" /\ work'.g = work.g /\ work'.up = work.up
      /\ work'.at \in {"rebind", "stamp", "record"} /\ WorkIsTyped'
      /\ UNCHANGED <<Records, stray, troubles>>
  <2>1. CASE StageAudits
    <3>1. work' = [work EXCEPT !.at = IF work.up THEN "rebind" ELSE "stamp", !.left = Order]
      BY <2>1 DEF StageAudits
    <3> QED BY <2>1, <3>1 DEF StageAudits, WorkIsTyped, Remaining, Records
  <2>2. CASE StageVerifies
    <3>1. work' = [work EXCEPT !.at = "record"]
      BY <2>2 DEF StageVerifies, Goes
    <3> QED BY <2>2, <3>1 DEF StageVerifies, At, WorkIsTyped, Records
  <2> QED BY <2>1, <2>2
<1>2. /\ volumes[work.g] \in Wholes
      /\ work.g \notin meddled => Data(volumes[work.g]) = Data(candidate.audit)
  <2>1. CASE StageAudits
    BY <1>1, <2>1 DEF StageAudits, CommandsAreTrue, StageRuns, GenerationTypeOK
  <2>2. CASE StageVerifies
    BY <1>1, <2>2 DEF StageVerifies, At, CommandsAreTrue, StageRuns
  <2> QED BY <2>1, <2>2
<1>3. CommandsAreTrue'
  BY <1>1, <1>2
  DEF CommandsAreTrue, NothingRuns, ImportRuns, BackupRuns, RestoreRuns, StageRuns, SwitchRuns, ClearRuns, Records
<1> QED BY <1>1, <1>3, RecordsStay DEF GenerationTypeOK

LEMMA NextReleases ==
    ASSUME VolumeInv, work.cmd = "stage"
    PROVE  StageRelease \in Releases /\ StageRelease \in 0..(MaxWrites + MaxRelease)
BY GenerationAssumption DEF VolumeInv, CommandsAreTrue, StageRuns, GenerationTypeOK, StageRelease, Releases

LEMMA StageRebindsStep ==
    ASSUME VolumeInv, StageRebinds
    PROVE  VolumeInv'
<1> DEFINE g == work.g
           part == [volumes[g]["config"] EXCEPT !.n = StageRelease]
           new == [volumes[g] EXCEPT !["config"] = part]
<1> USE DEF VolumeInv
<1>1. /\ work.cmd = "stage" /\ work.at = "rebind" /\ work' = [work EXCEPT !.at = "stamp"]
      /\ volumes' = [volumes EXCEPT ![g] = new]
      /\ UNCHANGED <<live, serving, latched, archive, candidate, stages, stray, seen, meddled, troubles>>
  BY DEF StageRebinds, At, Goes, Rebound
<1>2. /\ g \in Generation /\ g \in Names /\ stages[g] = None /\ volumes[g] \in Wholes /\ Into = g
      /\ g \notin meddled => Data(volumes[g]) = Data(candidate.audit)
  BY <1>1, Distinct DEF CommandsAreTrue, StageRuns, Into
<1>3. part \in Versions
  BY <1>1, <1>2, NextReleases DEF Wholes, Versions, Part
<1> HIDE DEF part
<1>4. new \in Wholes /\ Data(new) = Data(volumes[g])
  BY <1>2, <1>3 DEF Wholes, Data, Part
<1> HIDE DEF new
<1>5. OnlyChanges(g) /\ volumes'[g] = new /\ new # None
  BY <1>1, <1>2, <1>4, WholeSets DEF OnlyChanges, GenerationTypeOK
<1>6. Unselected(g)
  BY <1>1, <1>2, IntoIsUnselected
<1>7. WorkIsTyped' /\ work'.cmd = "stage" /\ work'.at = "stamp" /\ work'.g = g /\ work'.up = work.up
  BY <1>1 DEF WorkIsTyped
<1>8. CommandsAreTrue'
  BY <1>1, <1>2, <1>4, <1>5, <1>7
  DEF CommandsAreTrue, NothingRuns, ImportRuns, BackupRuns, RestoreRuns, StageRuns, SwitchRuns, ClearRuns
<1> QED BY <1>5, <1>6, <1>7, <1>8, ApartStep

LEMMA StageRecordsStep ==
    ASSUME VolumeInv, StageRecords
    PROVE  VolumeInv'
<1> DEFINE g == work.g
           r == [from |-> candidate.from, source |-> candidate.audit, staged |-> volumes[g], up |-> work.up,
                 release |-> StageRelease, old |-> candidate.release]
<1> USE DEF VolumeInv
<1>1. /\ work.cmd = "stage" /\ work.at = "record" /\ work' = NoWork
      /\ stages' = [stages EXCEPT ![g] = r]
      /\ UNCHANGED <<volumes, live, serving, latched, archive, candidate, stray, seen, meddled, troubles>>
  BY DEF StageRecords, At, Ends
<1>2. /\ g \in Generation /\ stages[g] = None /\ volumes[g] \in Wholes /\ candidate # None
      /\ g \notin meddled => Data(volumes[g]) = Data(candidate.audit)
  BY <1>1 DEF CommandsAreTrue, StageRuns
<1>3. work.up \in BOOLEAN /\ StageRelease \in Releases
  BY <1>1, NextReleases DEF WorkIsTyped
<1>4. stages' \in [Generation -> [from : Backups, source : Wholes, staged : Wholes, up : BOOLEAN,
                                  release : Releases, old : Releases] \cup {None}]
  BY <1>1, <1>2, <1>3 DEF GenerationTypeOK
<1>5. \A h \in Generation \ {g} : stages'[h] = stages[h]
  BY <1>1 DEF GenerationTypeOK
<1>6. /\ candidate.from \in Archives /\ candidate.audit \in Wholes
      /\ archive[candidate.from] # None /\ archive[candidate.from].audit = candidate.audit
  BY <1>2, ArchiveNumbers DEF GenerationTypeOK, CandidateIsTrue
<1>7. Data(candidate.audit) \in seen
  BY <1>6, WholeSets DEF ArchivesAreTrue
<1>8. GenerationTypeOK' /\ WorkIsTyped' /\ CommandsAreTrue'
  BY <1>1, <1>4, NoWorkIsTyped DEF GenerationTypeOK, NoWork
<1>9. live # None
  BY <1>2 DEF NothingBefore
<1>10. LiveIsValid' /\ NothingBefore' /\ ArchivesAreTrue' /\ CandidateIsTrue'
  <2>1. live # None /\ live.set \in Generation => live.set # g
    BY <1>2 DEF LiveIsValid
  <2> QED BY <1>1, <1>5, <1>9, <2>1 DEF LiveIsValid, NothingBefore, ArchivesAreTrue, CandidateIsTrue, ValidInputs
<1>11. StagesAreKept'
  BY <1>1, <1>2, <1>5, <1>7, WholeSets DEF StagesAreKept
<1> QED BY <1>8, <1>10, <1>11

-----------------------------------------------------------------------------
(* Selections, and the end of a storage fault.                              *)

\* The selected set has been compared with its backup: it holds what production
\* had, whoever wrote it before.
LEMMA ComparedStep ==
    ASSUME VolumeInv, live # None, meddled' \in {meddled, meddled \ {live.set}},
           latched' \in BOOLEAN, serving => ~latched',
           UNCHANGED <<volumes, live, serving, archive, candidate, stages, stray, seen, troubles>>,
           WorkIsTyped', CommandsAreTrue'
    PROVE  VolumeInv'
<1> USE DEF VolumeInv
<1>1. GenerationTypeOK'
  BY DEF GenerationTypeOK, WorkIsTyped
<1>2. LiveIsValid' /\ NothingBefore' /\ ArchivesAreTrue'
  BY DEF LiveIsValid, NothingBefore, ArchivesAreTrue, ValidInputs
<1>3. live.set # "candidate" /\ Data(volumes[live.set]) \in seen
  BY DEF LiveIsValid, GenerationTypeOK
<1>4. CandidateIsTrue' /\ StagesAreKept'
  BY <1>3 DEF CandidateIsTrue, StagesAreKept
<1> QED BY <1>1, <1>2, <1>4

LEMMA SwitchStep ==
    ASSUME VolumeInv, SwitchVerifies \/ \E k \in Backups, g \in Generation : SwitchBegins(k, g)
    PROVE  VolumeInv'
<1> USE DEF VolumeInv
<1>1. ASSUME NEW k \in Backups, NEW g \in Generation, SwitchBegins(k, g)
      PROVE  VolumeInv'
  <2>1. /\ live # None /\ ~serving /\ ~latched /\ live.set # g /\ archive[k] # None /\ stages[g] # None
        /\ stages[g].up => Data(stages[g].staged) = Data(archive[k].audit)
        /\ ValidInputs(g, stages[g].release) /\ volumes[g] = stages[g].staged
        /\ work' = [NoWork EXCEPT !.cmd = "switch", !.at = "reviewed", !.k = k, !.g = g]
        /\ UNCHANGED <<Others, archive, troubles>>
    BY <1>1 DEF SwitchBegins, CurrentBackup, Authentic, Selectable, Others
  <2>2. /\ work' = [cmd |-> "switch", at |-> "reviewed", left |-> <<>>, k |-> k, g |-> g,
                    up |-> FALSE, before |-> None]
        /\ WorkIsTyped'
    BY <2>1 DEF NoWork, WorkIsTyped, Remaining
  <2>3. work'.cmd = "switch" /\ work'.at = "reviewed" /\ work'.k = k /\ work'.g = g
    BY <2>2
  <2>4. SwitchRuns'
    BY <2>1, <2>3 DEF SwitchRuns, Others, ValidInputs
  <2>5. CommandsAreTrue'
    BY <2>3, <2>4
    DEF CommandsAreTrue, NothingRuns, ImportRuns, BackupRuns, RestoreRuns, StageRuns, ClearRuns
  <2> QED BY <2>1, <2>2, <2>5, ComparedStep DEF Others, GenerationTypeOK
<1>2. CASE SwitchVerifies
  <2>1. /\ work.cmd = "switch" /\ ~latched /\ volumes[live.set] = archive[work.k].audit
        /\ volumes[work.g] = stages[work.g].staged /\ meddled' = meddled \ {live.set}
        /\ work' = [work EXCEPT !.at = IF work.at = "reviewed" THEN "created" ELSE "select"]
        /\ UNCHANGED <<volumes, live, serving, latched, archive, candidate, stages, stray, seen, troubles>>
    BY <1>2 DEF SwitchVerifies, DataVerified, SameAsBackup, Goes
  <2>2. /\ WorkIsTyped' /\ work'.cmd = "switch" /\ work'.at \in {"created", "select"}
        /\ work'.k = work.k /\ work'.g = work.g
    BY <2>1 DEF WorkIsTyped
  <2>3. SwitchRuns' /\ live # None
    BY <2>1, <2>2 DEF CommandsAreTrue, SwitchRuns, ValidInputs
  <2>4. CommandsAreTrue'
    BY <2>2, <2>3
    DEF CommandsAreTrue, NothingRuns, ImportRuns, BackupRuns, RestoreRuns, StageRuns, ClearRuns
  <2> QED BY <2>1, <2>2, <2>3, <2>4, ComparedStep DEF GenerationTypeOK
<1> QED BY <1>1, <1>2

LEMMA SwitchSelectsStep ==
    ASSUME VolumeInv, SwitchSelects
    PROVE  VolumeInv'
<1> USE DEF VolumeInv
<1>1. /\ work.cmd = "switch" /\ work' = NoWork
      /\ live' = [set |-> work.g, release |-> stages[work.g].release]
      /\ seen' = seen \cup {Data(volumes[work.g])}
      /\ UNCHANGED <<volumes, serving, latched, archive, candidate, stages, stray, meddled, troubles>>
  BY DEF SwitchSelects, At, Ends
<1>2. /\ live # None /\ ~serving /\ work.g \in Generation /\ stages[work.g] # None
      /\ ValidInputs(work.g, stages[work.g].release)
  BY <1>1 DEF CommandsAreTrue, SwitchRuns
<1>3. live' \in Selections /\ live' # None /\ live'.set = work.g /\ live'.release = stages[work.g].release
  <2>1. stages[work.g].release \in Releases
    BY <1>2 DEF GenerationTypeOK
  <2>2. live' \in Selections
    BY <1>1, <1>2, <2>1, Distinct
  <2> QED BY <1>1, <2>2, GenerationAssumption
<1>4. GenerationTypeOK' /\ WorkIsTyped' /\ CommandsAreTrue'
  BY <1>1, <1>3, NoWorkIsTyped DEF GenerationTypeOK, NoWork
<1>5. LiveIsValid'
  BY <1>1, <1>2, <1>3 DEF LiveIsValid, ValidInputs
<1>6. NothingBefore' /\ ArchivesAreTrue' /\ CandidateIsTrue' /\ StagesAreKept'
  BY <1>1, <1>3 DEF NothingBefore, ArchivesAreTrue, CandidateIsTrue, StagesAreKept
<1> QED BY <1>4, <1>5, <1>6

LEMMA ClearStep ==
    ASSUME VolumeInv, ClearEnds \/ \E k \in Backups : ClearBegins(k)
    PROVE  VolumeInv'
<1> USE DEF VolumeInv
<1>1. ASSUME NEW k \in Backups, ClearBegins(k)
      PROVE  VolumeInv'
  <2>1. /\ live # None /\ ~serving /\ archive[k] # None /\ archive[k].closed
        /\ work' = [NoWork EXCEPT !.cmd = "clear", !.at = "reviewed", !.k = k]
        /\ UNCHANGED <<Others, archive, troubles>>
    BY <1>1 DEF ClearBegins, CurrentBackup, Authentic, Others
  <2>2. /\ work' = [cmd |-> "clear", at |-> "reviewed", left |-> <<>>, k |-> k, g |-> None,
                    up |-> FALSE, before |-> None]
        /\ WorkIsTyped'
    BY <2>1 DEF NoWork, WorkIsTyped, Remaining
  <2>3. work'.cmd = "clear" /\ work'.at = "reviewed" /\ work'.k = k
    BY <2>2
  <2>4. CommandsAreTrue'
    BY <2>1, <2>3 DEF CommandsAreTrue, NothingRuns, ImportRuns, BackupRuns, RestoreRuns, StageRuns,
                      SwitchRuns, ClearRuns, Others
  <2> QED BY <2>1, <2>2, <2>4, ComparedStep DEF Others, GenerationTypeOK
<1>2. CASE ClearEnds
  <2>1. /\ work.cmd = "clear" /\ latched' = FALSE /\ work' = NoWork /\ meddled' = meddled \ {live.set}
        /\ UNCHANGED <<volumes, live, serving, archive, candidate, stages, stray, seen, troubles>>
    BY <1>2 DEF ClearEnds, At, Ends
  <2>2. live # None
    BY <2>1 DEF CommandsAreTrue, ClearRuns
  <2> QED BY <2>1, <2>2, NoWorkIsTyped, ComparedStep
<1> QED BY <1>1, <1>2

-----------------------------------------------------------------------------
(* The theorems.                                                            *)

LEMMA VolumesBegin == GenerationInit => VolumeInv
<1> SUFFICES ASSUME GenerationInit PROVE VolumeInv
  OBVIOUS
<1> DEFINE first0 == [p \in Part |-> [n |-> IF p = "config" THEN 1 ELSE 0, imported |-> TRUE, stamp |-> None]]
<1>1. PICK fresh \in BOOLEAN :
        /\ volumes = [s \in Names |-> IF s = "base" /\ ~fresh THEN first0 ELSE None]
        /\ live = IF fresh THEN None ELSE [set |-> "base", release |-> 1]
        /\ seen = IF fresh THEN {} ELSE {<<0, 0>>}
  BY DEF GenerationInit
<1>2. /\ serving = FALSE /\ latched = FALSE
      /\ archive = [a \in Archives |-> None] /\ candidate = None
      /\ stages = [g \in Generation |-> None]
      /\ work = NoWork /\ stray = None /\ meddled = {} /\ troubles = 0
  BY DEF GenerationInit
<1>3. first0 \in Wholes /\ first0 # None /\ first0 \in Sets
  <2>1. first0 \in Wholes
    BY GenerationAssumption DEF Wholes, Versions
  <2> QED BY <2>1, WholeSets
<1>4. 1 \in Releases /\ 0 \in 0..MaxTroubles
  BY GenerationAssumption DEF Releases
<1>5. /\ Data(first0) = <<0, 0>> /\ Imported(first0) /\ StampedFor(first0, "base") /\ first0["config"].n = 1
  <2>1. \A p \in Part : first0[p] # None
    BY <1>3, GenerationAssumption DEF Wholes
  <2> QED BY <2>1 DEF Data, Imported, StampedFor, StampOf, Part
<1> HIDE DEF first0
<1>6. /\ volumes \in [Names -> Sets \cup {None}] /\ (~fresh => volumes["base"] = first0)
  BY <1>1, <1>3, Distinct
<1>7. live \in Selections \cup {None}
  BY <1>1, <1>4, Distinct
<1>8. GenerationTypeOK
  BY <1>2, <1>4, <1>6, <1>7 DEF GenerationTypeOK, NoWork
<1>9. LiveIsValid
  BY <1>1, <1>2, <1>3, <1>5, <1>6, Distinct DEF LiveIsValid, ValidInputs
<1>10. NothingBefore /\ ArchivesAreTrue /\ CandidateIsTrue /\ StagesAreKept
  BY <1>2 DEF NothingBefore, ArchivesAreTrue, CandidateIsTrue, StagesAreKept
<1>11. WorkIsTyped /\ CommandsAreTrue
  BY <1>2, IdleRunsNothing DEF WorkIsTyped, NoWork, Remaining
<1> QED BY <1>8, <1>9, <1>10, <1>11 DEF VolumeInv

LEMMA VolumesStep ==
    ASSUME VolumeInv, [GenerationNext]_generationVars
    PROVE  VolumeInv'
<1>1. CASE UNCHANGED generationVars
  <2>1. UNCHANGED <<work, stray, troubles, Records>>
    BY <1>1 DEF generationVars, Records
  <2> QED BY <2>1, CommandStays, RecordsStay DEF VolumeInv, GenerationTypeOK
<1>2. CASE \/ Provision \/ Serve \/ Pause \/ Fails \/ StrayEnds \/ \E s \in Names : StrayStarts(s)
  BY <1>2, ProvisionStep, ServingStep, FailsStep, StrayMoves
<1>3. CASE \E p \in Part : ServiceWrites(p) \/ StrayWrites(p)
  BY <1>3, ServiceStep, StrayStep
<1>4. CASE CopyPart \/ StampPart \/ ImportBegins \/ ImportGoesOn
  BY <1>4, CopyIntoStep, CopyOutStep, StampStep, ImportStep
<1>5. CASE \/ BackupAudits \/ BackupRestores \/ BackupCloses \/ CopyEnds
           \/ \E k \in Backups : BackupBegins(k) \/ CopyStarts(k)
           \/ \E a \in Archives : Damage(a)
  BY <1>5, BackupAuditsStep, BackupEndsStep, CopiesStep, BackupBeginsStep, DamageStep
<1>6. CASE RestoreEnds \/ \E k \in Backups : RestoreBegins(k)
  BY <1>6, RestoreEndsStep, RestoreBeginsStep
<1>7. CASE \/ StageAudits \/ StageRebinds \/ StageVerifies \/ StageRecords
           \/ \E g \in Generation, up \in BOOLEAN : StageBegins(g, up)
  BY <1>7, StageChecksStep, StageRebindsStep, StageRecordsStep, StageBeginsStep
<1>8. CASE \/ SwitchVerifies \/ SwitchSelects \/ ClearEnds
           \/ \E k \in Backups : ClearBegins(k)
           \/ \E k \in Backups, g \in Generation : SwitchBegins(k, g)
  BY <1>8, SwitchStep, SwitchSelectsStep, ClearStep
<1> QED BY <1>1, <1>2, <1>3, <1>4, <1>5, <1>6, <1>7, <1>8 DEF GenerationNext

\* Everything above holds of every behaviour of the volumes.
THEOREM VolumeInvariance == MCSpec => []VolumeInv
<1>1. GenerationInit => VolumeInv
  BY VolumesBegin
<1>2. VolumeInv /\ [GenerationNext /\ InTurn']_generationVars => VolumeInv'
  BY VolumesStep
<1> QED BY <1>1, <1>2, PTL DEF MCSpec

\* Verified backups and retained candidates are states production had, and what
\* is selected is complete, also when a foreign container writes during a copy
\* or an import is interrupted (backup-nine-volumes.mjs,
\* restore-nine-backup.mjs, provision-production.mjs).
THEOREM BackupsStayTrue == MCSpec => []BackupsAreTrue
<1>1. VolumeInv => BackupsAreTrue
  <2> SUFFICES ASSUME VolumeInv PROVE BackupsAreTrue
    OBVIOUS
  <2> USE DEF VolumeInv
  <2>1. ASSUME NEW a \in Archives, archive[a] # None, archive[a].closed
        PROVE  archive[a].parts = archive[a].audit /\ Data(archive[a].audit) \in seen
    BY <2>1 DEF ArchivesAreTrue
  <2>2. ASSUME candidate # None
        PROVE  /\ candidate.audit = archive[candidate.from].parts /\ Data(candidate.audit) \in seen
               /\ "candidate" \notin meddled => volumes["candidate"] = candidate.audit
    <3>1. /\ candidate.from \in Archives /\ candidate.audit # None
          /\ archive[candidate.from] # None /\ archive[candidate.from].audit = candidate.audit
      BY <2>2, ArchiveNumbers, WholeSets DEF GenerationTypeOK, CandidateIsTrue
    <3> QED BY <2>2, <3>1 DEF ArchivesAreTrue, CandidateIsTrue
  <2>3. SelectedIsWhole
    BY DEF SelectedIsWhole, LiveIsValid
  <2> QED BY <2>1, <2>2, <2>3 DEF BackupsAreTrue, BackupsAreSnapshots
<1> QED BY <1>1, VolumeInvariance, PTL

\* What is selected was production's data once, and an update keeps the data of
\* the moment it is selected (switch-managed-host.mjs, release-update-review.mjs).
THEOREM SelectionsKeepTheData == MCSpec => SelectionKeepsTheData
<1>1. ASSUME VolumeInv, [GenerationNext]_generationVars
      PROVE  [live # None /\ live' # live =>
                 LET g == live'.set IN
                 /\ stages[g].up /\ meddled \cap {live.set, g} = {} =>
                        Data(volumes[g]) = Data(volumes[live.set])
                 /\ g \notin meddled => Data(volumes[g]) \in seen]_generationVars
  <2> USE DEF VolumeInv
  <2>1. live' # live /\ live # None => SwitchSelects
    BY <1>1 DEF GenerationNext, generationVars, Provision, Serve, Pause, CopyPart, StampPart, ImportBegins,
       ImportGoesOn, BackupAudits, BackupRestores, BackupCloses, CopyEnds, RestoreEnds, StageAudits,
       StageRebinds, StageVerifies, StageRecords, SwitchVerifies, ClearEnds, Fails, StrayEnds,
       ServiceWrites, StrayWrites, StrayStarts, BackupBegins, CopyStarts, RestoreBegins, ClearBegins,
       Damage, StageBegins, SwitchBegins
  <2>2. ASSUME SwitchSelects
        PROVE  LET g == live'.set IN
               /\ stages[g].up /\ meddled \cap {live.set, g} = {} =>
                      Data(volumes[g]) = Data(volumes[live.set])
               /\ g \notin meddled => Data(volumes[g]) \in seen
    <3>1. work.cmd = "switch" /\ work.at = "select" /\ live'.set = work.g
      BY <2>2 DEF SwitchSelects, At
    <3>2. /\ work.g \in Generation /\ stages[work.g] # None
          /\ stages[work.g].up => Data(stages[work.g].staged) = Data(archive[work.k].audit)
          /\ work.g \notin meddled => volumes[work.g] = stages[work.g].staged
          /\ live.set \notin meddled => volumes[live.set] = archive[work.k].audit
      BY <1>1, <3>1 DEF CommandsAreTrue, SwitchRuns
    <3>3. work.g \notin meddled => Data(volumes[work.g]) \in seen
      BY <1>1, <3>2 DEF StagesAreKept
    <3> QED BY <3>1, <3>2, <3>3
  <2> QED BY <2>1, <2>2
<1>2. VolumeInv /\ [GenerationNext /\ InTurn']_generationVars =>
          [live # None /\ live' # live =>
               LET g == live'.set IN
               /\ stages[g].up /\ meddled \cap {live.set, g} = {} =>
                      Data(volumes[g]) = Data(volumes[live.set])
               /\ g \notin meddled => Data(volumes[g]) \in seen]_generationVars
  BY <1>1
<1> QED BY <1>2, VolumeInvariance, PTL DEF MCSpec, SelectionKeepsTheData

\* A set that changes is the one a foreign container has mounted, the one in
\* service, or one nobody depends on.
LEMMA ChangesAreApart ==
    ASSUME VolumeInv, GenerationNext, NEW s \in Names, volumes'[s] # volumes[s]
    PROVE  \/ s = stray \/ (serving /\ s = live.set)
           \/ (live = None \/ live.set # s) /\ (s \in Generation => stages[s] = None)
<1> USE DEF VolumeInv
<1>1. CASE \/ Provision \/ Serve \/ Pause \/ ImportGoesOn \/ BackupAudits \/ BackupRestores \/ BackupCloses
           \/ CopyEnds \/ StageAudits \/ StageVerifies \/ StageRecords \/ SwitchVerifies \/ SwitchSelects
           \/ ClearEnds \/ Fails \/ StrayEnds \/ \E x \in Names : StrayStarts(x)
  BY <1>1 DEF Provision, Serve, Pause, ImportGoesOn, BackupAudits, BackupRestores, BackupCloses, CopyEnds,
     StageAudits, StageVerifies, StageRecords, SwitchVerifies, SwitchSelects, ClearEnds, Fails, StrayEnds,
     StrayStarts
<1>2. CASE \/ \E k \in Backups : BackupBegins(k) \/ CopyStarts(k) \/ ClearBegins(k)
           \/ \E a \in Archives : Damage(a)
           \/ \E k \in Backups, g \in Generation : SwitchBegins(k, g)
  BY <1>2 DEF BackupBegins, CopyStarts, ClearBegins, Damage, SwitchBegins
<1>3. CASE \E p \in Part : ServiceWrites(p) \/ StrayWrites(p)
  BY <1>3 DEF ServiceWrites, StrayWrites, Written, GenerationTypeOK
<1>4. CASE ImportBegins
  BY <1>4, Distinct DEF ImportBegins, GenerationTypeOK, LiveIsValid
<1>5. CASE CopyPart \/ StampPart \/ StageRebinds
  <2>1. CASE CopyPart /\ work.cmd = "backup"
    BY <2>1 DEF CopyPart
  <2>2. CASE CopyPart /\ work.cmd # "backup"
    <3>1. /\ work.cmd \in {"import", "restore", "stage"}
      BY <2>2 DEF CopyPart, At, GenerationTypeOK, CommandsAreTrue, NothingRuns, SwitchRuns, ClearRuns
    <3>2. s = Into
      BY <2>2 DEF CopyPart, GenerationTypeOK
    <3> QED BY <3>1, <3>2, IntoIsUnselected DEF Unselected
  <2>3. CASE StampPart
    <3>1. work.cmd \in {"import", "stage"}
      BY <2>3 DEF StampPart, GenerationTypeOK, CommandsAreTrue, NothingRuns, BackupRuns, RestoreRuns,
                  SwitchRuns, ClearRuns
    <3>2. s = Into
      BY <2>3, <3>1 DEF StampPart, Into, GenerationTypeOK
    <3> QED BY <3>1, <3>2, IntoIsUnselected DEF Unselected
  <2>4. CASE StageRebinds
    <3>1. work.cmd = "stage" /\ s = Into
      BY <2>4 DEF StageRebinds, At, Into, GenerationTypeOK
    <3> QED BY <3>1, IntoIsUnselected DEF Unselected
  <2> QED BY <1>5, <2>1, <2>2, <2>3, <2>4
<1>6. CASE RestoreEnds \/ \E k \in Backups : RestoreBegins(k)
  <2>1. s = "candidate"
    BY <1>6 DEF RestoreEnds, RestoreBegins, GenerationTypeOK
  <2> QED BY <2>1, Distinct DEF GenerationTypeOK
<1>7. CASE \E g \in Generation, up \in BOOLEAN : StageBegins(g, up)
  <2>1. s \in Generation /\ volumes[s] = None
    BY <1>7 DEF StageBegins, GenerationTypeOK
  <2> QED BY <2>1 DEF StagesAreKept, LiveIsValid, ValidInputs
<1> QED BY <1>1, <1>2, <1>3, <1>4, <1>5, <1>6, <1>7 DEF GenerationNext

\* The services never run over a storage fault, so only the command ends one.
LEMMA FaultsEndReviewed ==
    ASSUME VolumeInv, GenerationNext, latched, ~latched'
    PROVE  \E k \in Backups : archive[k] # None /\ archive[k].closed /\ archive[k].audit = volumes[live.set]
<1> USE DEF VolumeInv
<1>1. ~Pause
  BY DEF Pause, LiveIsValid
<1>2. ClearEnds
  BY <1>1 DEF GenerationNext, Provision, Serve, CopyPart, StampPart, ImportBegins,
     ImportGoesOn, BackupAudits, BackupRestores, BackupCloses, CopyEnds, RestoreEnds, StageAudits,
     StageRebinds, StageVerifies, StageRecords, SwitchVerifies, SwitchSelects, Fails, StrayEnds,
     ServiceWrites, StrayWrites, StrayStarts, BackupBegins, CopyStarts, RestoreBegins, ClearBegins,
     Damage, StageBegins, SwitchBegins
<1> QED BY <1>2 DEF ClearEnds, At, SameAsBackup, CommandsAreTrue, ClearRuns

\* No command writes a set that is selected or recorded, and no storage fault
\* ends while production differs from the backup that was reviewed
\* (stage-recovery-generation.mjs, production-storage-recovery.mjs).
THEOREM VolumesStayKept == MCSpec => VolumesAreKept
<1> DEFINE A == /\ \A s \in Names : volumes'[s] # volumes[s] =>
                      \/ s = stray \/ (serving /\ s = live.set)
                      \/ (live = None \/ live.set # s) /\ (s \in Generation => stages[s] = None)
                /\ latched /\ ~latched' =>
                      \E k \in Backups : archive[k] # None /\ archive[k].closed /\ archive[k].audit = volumes[live.set]
<1>1. VolumeInv /\ [GenerationNext /\ InTurn']_generationVars => [A]_generationVars
  BY ChangesAreApart, FaultsEndReviewed
<1> QED BY <1>1, VolumeInvariance, PTL DEF MCSpec, VolumesAreKept
=============================================================================
