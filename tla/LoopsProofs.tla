----------------------------- MODULE LoopsProofs -----------------------------
(***************************************************************************)
(* Proofs about the loops: the long poll of an account for every stream,    *)
(* the guardian for every set of publishers, the daily quotes for every set *)
(* of processes and currencies; and about the replacement of a credential,  *)
(* for any number of failures, reviews and maintenances: what a helper may  *)
(* do while it runs, and what a saved record says.                          *)
(***************************************************************************)
EXTENDS MCLoops, TLAPS

-----------------------------------------------------------------------------
(* The long poll.                                                           *)

\* The file is the loop's cursor or was lost, which torn remembers.
FileIsCursor == file \in {0, cursor} /\ (~torn => file = cursor)

\* A batch ends at the cursor, and was delivered: no authorization is missing.
BatchEndsAtCursor == pc = "batch" => upto = cursor /\ ~reauth

\* What lies beyond the cursor or is left of the batch was not processed.
AheadIsUntouched ==
    ~torn => \A m \in Messages : m > cursor \/ m \in Left => handled[m] = 0

MonitorInv ==
    MessagesAreKept /\ FileIsCursor /\ BatchEndsAtCursor /\ AheadIsUntouched

LEMMA FailuresAreCounted ==
    ASSUME TypeOK
    PROVE  /\ (failures + 1) % MaxFailures \in 0 .. MaxFailures - 1
           /\ 1 % MaxFailures \in 0 .. MaxFailures - 1
BY MonitorAssumption DEF TypeOK

\* An answer without messages, the end of a wait, and what only touches the
\* status: neither cursor nor batch nor history changes.
LEMMA QuietSteps ==
    ASSUME MonitorInv,
           \/ LocalTimeout \/ StaleToken \/ ApiError \/ Unrecognized \/ TransportError
           \/ WaitEnds \/ PauseEnds \/ Stop \/ MessageArrives \/ UNCHANGED vars
    PROVE  MonitorInv'
<1>1. UNCHANGED <<file, cursor, next, upto, handled, cut, torn>>
  BY DEF LocalTimeout, StaleToken, ApiError, Unrecognized, TransportError, WaitEnds, PauseEnds,
         Stop, MessageArrives, loop, history, vars
<1>2. pc' = "batch" <=> pc = "batch"
  BY DEF LocalTimeout, StaleToken, ApiError, Unrecognized, TransportError, WaitEnds, PauseEnds,
         Stop, MessageArrives, Failing, loop, vars
<1>3. TypeOK'
  <2>1. pc' \in {"off", "poll", "batch", "wait", "pause"} /\ failures' \in 0 .. MaxFailures - 1
    BY FailuresAreCounted, MonitorAssumption
    DEF MonitorInv, MessagesAreKept, TypeOK, LocalTimeout, StaleToken, ApiError, Unrecognized,
        TransportError, WaitEnds, PauseEnds, Stop, MessageArrives, Failing, loop, vars
  <2>2. /\ reauth' \in BOOLEAN /\ paused' \in BOOLEAN /\ aborted' \in BOOLEAN
        /\ lastError' \in Errors
    BY DEF MonitorInv, MessagesAreKept, TypeOK, LocalTimeout, StaleToken, ApiError, Unrecognized,
           TransportError, WaitEnds, PauseEnds, Stop, MessageArrives, Shown, Errors, loop, vars
  <2>3. arrived' \in Cursors /\ faults' \in 0 .. MaxFaults
    BY MonitorAssumption
    DEF MonitorInv, MessagesAreKept, TypeOK, LocalTimeout, StaleToken, ApiError, Unrecognized,
        TransportError, WaitEnds, PauseEnds, Stop, MessageArrives, Fault, Cursors, loop, vars
  <2> QED BY <1>1, <1>2, <2>1, <2>2, <2>3 DEF MonitorInv, MessagesAreKept, TypeOK
<1>4. (reauth' => lastError' = "reauthorization") /\ (pc' = "batch" => reauth' = reauth)
  BY DEF MonitorInv, MessagesAreKept, ReauthorizationIsShown, LocalTimeout, StaleToken, ApiError,
         Unrecognized, TransportError, WaitEnds, PauseEnds, Stop, MessageArrives, Shown, loop, vars
<1> QED BY <1>1, <1>2, <1>3, <1>4
    DEF MonitorInv, MessagesAreKept, HandledOnce, NothingSkipped, ReauthorizationIsShown,
        FileIsCursor, BatchEndsAtCursor, AheadIsUntouched, Left

\* Messages up to a new cursor: a batch of what was never processed.
LEMMA AcceptStep ==
    ASSUME MonitorInv, NEW k \in Cursors, Accept(k)
    PROVE  MonitorInv'
<1> USE MonitorAssumption DEF MonitorInv, MessagesAreKept
<1>1. TypeOK'
  <2>1. arrived' \in Cursors /\ file' \in Cursors /\ cursor' \in Cursors
    BY DEF TypeOK, Accept
  <2>2. pc' \in {"off", "poll", "batch", "wait", "pause"}
    BY DEF TypeOK, Accept
  <2>3. next' \in 1 .. LastMessage + 1 /\ upto' \in Cursors
    BY DEF TypeOK, Accept, Cursors
  <2>4. pc' = "batch" <=> next' <= upto'
    BY DEF TypeOK, Accept, Cursors
  <2>5. failures' \in 0 .. MaxFailures - 1
    BY DEF TypeOK, Accept, Cursors
  <2>6. /\ reauth' \in BOOLEAN /\ paused' \in BOOLEAN /\ aborted' \in BOOLEAN /\ torn' \in BOOLEAN
        /\ lastError' \in Errors
    BY DEF TypeOK, Accept, Errors, history
  <2>7. handled' \in [Messages -> Nat] /\ cut' \subseteq Messages /\ faults' \in 0 .. MaxFaults
    BY DEF TypeOK, Accept, history
  <2> QED BY <2>1, <2>2, <2>3, <2>4, <2>5, <2>6, <2>7 DEF TypeOK
<1>2. /\ cursor \in Nat /\ cursor <= k /\ Left = {} /\ Left' = cursor + 1 .. k
      /\ cursor' = k /\ UNCHANGED <<handled, cut, torn>>
  BY DEF TypeOK, Accept, Cursors, Left, history
<1>3. HandledOnce' /\ AheadIsUntouched'
  BY <1>2 DEF HandledOnce, AheadIsUntouched, Messages, Cursors
<1>4. NothingSkipped'
  BY <1>2 DEF NothingSkipped, Messages
<1>5. ReauthorizationIsShown' /\ FileIsCursor' /\ BatchEndsAtCursor'
  BY DEF Accept, ReauthorizationIsShown, FileIsCursor, BatchEndsAtCursor
<1> QED BY <1>1, <1>3, <1>4, <1>5

\* The file may be lost, the cursor of the running loop stays.
LEMMA SaveFailsStep ==
    ASSUME MonitorInv, SaveFails
    PROVE  MonitorInv'
<1> USE MonitorAssumption DEF MonitorInv, MessagesAreKept
<1>1. TypeOK'
  <2>1. file' \in Cursors /\ torn' \in BOOLEAN
    <3>1. CASE Torn
      BY <3>1 DEF Torn, Cursors
    <3>2. CASE UNCHANGED <<file, torn>>
      BY <3>2 DEF TypeOK
    <3> QED BY <3>1, <3>2 DEF SaveFails
  <2>2. failures' \in 0 .. MaxFailures - 1 /\ faults' \in 0 .. MaxFaults
    BY FailuresAreCounted DEF TypeOK, SaveFails, Fault
  <2>3. pc' \in {"off", "poll", "batch", "wait", "pause"} /\ (pc' = "batch" <=> next' <= upto')
    BY DEF TypeOK, SaveFails
  <2> QED BY <2>1, <2>2, <2>3 DEF TypeOK, SaveFails, Errors
<1>2. Left = {} /\ Left' = {} /\ (torn => torn') /\ UNCHANGED <<cursor, handled, cut>>
  BY DEF SaveFails, Torn, Left, TypeOK
<1>3. HandledOnce' /\ NothingSkipped' /\ AheadIsUntouched'
  BY <1>2 DEF HandledOnce, NothingSkipped, AheadIsUntouched
<1>4. ReauthorizationIsShown' /\ FileIsCursor' /\ BatchEndsAtCursor'
  BY DEF SaveFails, Torn, ReauthorizationIsShown, FileIsCursor, BatchEndsAtCursor
<1> QED BY <1>1, <1>3, <1>4

\* One message is processed, and is no longer left.
LEMMA HandleStep ==
    ASSUME MonitorInv, Handle
    PROVE  MonitorInv'
<1> USE MonitorAssumption DEF MonitorInv, MessagesAreKept
<1>1. /\ next \in Messages /\ next <= upto /\ upto = cursor /\ next \in Left
      /\ next \in Nat /\ upto \in Nat /\ Left = next .. upto /\ Left' = next + 1 .. upto
      /\ UNCHANGED <<file, cursor, cut, torn, reauth, lastError>>
  BY DEF TypeOK, BatchEndsAtCursor, Handle, NoBatch, Messages, Cursors, Left
<1>2. /\ handled' \in [Messages -> Nat] /\ handled'[next] = handled[next] + 1
      /\ \A m \in Messages \ {next} : handled'[m] = handled[m]
      /\ handled \in [Messages -> Nat]
  BY <1>1 DEF TypeOK, Handle
<1>3. TypeOK'
  BY <1>1, <1>2 DEF TypeOK, Handle, NoBatch, Messages, Cursors
<1>4. HandledOnce' /\ AheadIsUntouched' /\ NothingSkipped'
  BY <1>1, <1>2 DEF HandledOnce, AheadIsUntouched, NothingSkipped, Messages
<1>5. ReauthorizationIsShown' /\ FileIsCursor' /\ BatchEndsAtCursor'
  BY <1>1 DEF Handle, ReauthorizationIsShown, FileIsCursor, BatchEndsAtCursor, NoBatch
<1> QED BY <1>3, <1>4, <1>5

\* The rest of the batch is cut off, its first message processed or not.
LEMMA HandleFailsStep ==
    ASSUME MonitorInv, HandleFails
    PROVE  MonitorInv'
<1> USE MonitorAssumption DEF MonitorInv, MessagesAreKept
<1>1. /\ next \in Messages /\ next <= upto /\ upto = cursor /\ next \in Left /\ ~reauth
      /\ next \in Nat /\ upto \in Nat /\ Left = next .. upto /\ Left' = {} /\ Left \subseteq Messages
      /\ cut' = cut \cup Left /\ pc' # "batch"
      /\ UNCHANGED <<file, cursor, torn, reauth>>
  BY DEF TypeOK, BatchEndsAtCursor, HandleFails, NoBatch, Failing, Messages, Cursors, Left
<1>2. PICK n \in {0, 1} : handled' = [handled EXCEPT ![next] = @ + n]
  BY DEF HandleFails
<1>3. /\ handled' \in [Messages -> Nat] /\ handled'[next] = handled[next] + n
      /\ \A m \in Messages \ {next} : handled'[m] = handled[m]
      /\ handled \in [Messages -> Nat]
  BY <1>1, <1>2 DEF TypeOK
<1>4. TypeOK'
  <2>1. next' \in 1 .. LastMessage + 1 /\ upto' \in Cursors /\ ~(next' <= upto')
    BY DEF HandleFails, NoBatch, Cursors
  <2>2. pc' \in {"off", "poll", "batch", "wait", "pause"} /\ failures' \in 0 .. MaxFailures - 1
    BY FailuresAreCounted DEF TypeOK, HandleFails, Failing
  <2>3. lastError' \in Errors /\ faults' \in 0 .. MaxFaults
    BY DEF TypeOK, HandleFails, Fault, Errors
  <2> QED BY <1>1, <1>3, <2>1, <2>2, <2>3 DEF TypeOK, HandleFails
<1>5. HandledOnce' /\ AheadIsUntouched' /\ NothingSkipped'
  BY <1>1, <1>3 DEF HandledOnce, AheadIsUntouched, NothingSkipped, Messages
<1>6. ReauthorizationIsShown' /\ FileIsCursor' /\ BatchEndsAtCursor'
  BY <1>1 DEF ReauthorizationIsShown, FileIsCursor, BatchEndsAtCursor
<1> QED BY <1>4, <1>5, <1>6

\* A new loop reads the file: the old cursor, or nothing.
LEMMA StartStep ==
    ASSUME MonitorInv, Start
    PROVE  MonitorInv'
<1> USE MonitorAssumption DEF MonitorInv, MessagesAreKept
<1>1. TypeOK'
  <2>1. next' \in 1 .. LastMessage + 1 /\ upto' \in Cursors /\ ~(next' <= upto')
    BY DEF Start, NoBatch, Cursors
  <2>2. pc' = "poll" /\ failures' \in 0 .. MaxFailures - 1 /\ lastError' \in Errors
    BY DEF Start, Errors
  <2> QED BY <2>1, <2>2 DEF TypeOK, Start, history
<1>2. /\ cursor' = file /\ Left = {} /\ Left' = {} /\ UNCHANGED <<file, handled, cut, torn>>
      /\ pc' = "poll" /\ ~reauth'
  BY DEF Start, Left, history
<1>3. HandledOnce' /\ AheadIsUntouched' /\ NothingSkipped'
  BY <1>2 DEF HandledOnce, AheadIsUntouched, NothingSkipped, FileIsCursor, Messages
<1>4. ReauthorizationIsShown' /\ FileIsCursor' /\ BatchEndsAtCursor'
  BY <1>2 DEF ReauthorizationIsShown, FileIsCursor, BatchEndsAtCursor
<1> QED BY <1>1, <1>3, <1>4

\* The batch is cut off; the file survives unless it was being written.
LEMMA CrashStep ==
    ASSUME MonitorInv, Crash
    PROVE  MonitorInv'
<1> USE MonitorAssumption DEF MonitorInv, MessagesAreKept
<1>1. Left \subseteq Messages /\ cut' = cut \cup Left /\ Left' = {} /\ pc' = "off"
      /\ (torn => torn') /\ UNCHANGED <<cursor, handled, reauth, lastError>>
  BY DEF TypeOK, Crash, NoBatch, Torn, Left, Messages, Cursors
<1>2. TypeOK'
  <2>1. next' \in 1 .. LastMessage + 1 /\ upto' \in Cursors /\ ~(next' <= upto')
    BY DEF Crash, NoBatch, Cursors
  <2>2. file' \in Cursors /\ torn' \in BOOLEAN
    <3>1. CASE Torn
      BY <3>1 DEF Torn, Cursors
    <3>2. CASE UNCHANGED <<file, torn>>
      BY <3>2 DEF TypeOK
    <3> QED BY <3>1, <3>2 DEF Crash
  <2>3. faults' \in 0 .. MaxFaults
    BY DEF TypeOK, Crash, Fault
  <2> QED BY <1>1, <2>1, <2>2, <2>3 DEF TypeOK, Crash
<1>3. HandledOnce' /\ AheadIsUntouched' /\ NothingSkipped'
  BY <1>1 DEF HandledOnce, AheadIsUntouched, NothingSkipped
<1>4. ReauthorizationIsShown' /\ FileIsCursor' /\ BatchEndsAtCursor'
  BY <1>1 DEF Crash, Torn, ReauthorizationIsShown, FileIsCursor, BatchEndsAtCursor
<1> QED BY <1>2, <1>3, <1>4

\* In every other scene the poll stands still.
LEMMA MonitorPlays == [MCNext]_all => [Next]_vars
BY DEF MCNext, all

(* The long poll processes no message twice and passes none over in        *)
(* silence, whatever a poll is answered with and whenever the account is    *)
(* stopped or the process dies; a missing authorization stays visible.      *)
THEOREM NoMessageIsLost == MCSpec => []MessagesAreKept
<1>1. MCInit => MonitorInv
  <2> SUFFICES ASSUME Init PROVE MonitorInv
    BY DEF MCInit
  <2>1. TypeOK
    <3>1. /\ arrived \in Cursors /\ file \in Cursors /\ cursor \in Cursors /\ upto \in Cursors
          /\ next \in 1 .. LastMessage + 1 /\ ~(next <= upto) /\ pc = "off"
      BY MonitorAssumption DEF Init, Cursors
    <3>2. failures \in 0 .. MaxFailures - 1 /\ faults \in 0 .. MaxFaults
      BY MonitorAssumption DEF Init
    <3>3. handled \in [Messages -> Nat] /\ cut \subseteq Messages /\ lastError \in Errors
      BY DEF Init, Errors
    <3> QED BY <3>1, <3>2, <3>3 DEF TypeOK, Init
  <2>2. HandledOnce /\ NothingSkipped /\ AheadIsUntouched
    BY DEF Init, HandledOnce, NothingSkipped, AheadIsUntouched, Left, Messages
  <2> QED BY <2>1, <2>2 DEF Init, MonitorInv, MessagesAreKept, ReauthorizationIsShown, FileIsCursor,
                            BatchEndsAtCursor
<1>2. MonitorInv /\ [MCNext]_all => MonitorInv'
  <2> SUFFICES ASSUME MonitorInv, [Next]_vars PROVE MonitorInv'
    BY MonitorPlays
  <2> QED BY QuietSteps, AcceptStep, SaveFailsStep, HandleStep, HandleFailsStep, StartStep, CrashStep
      DEF Next, Poll
<1>3. MonitorInv => MessagesAreKept
  BY DEF MonitorInv
<1> QED BY <1>1, <1>2, <1>3, PTL DEF MCSpec

-----------------------------------------------------------------------------
(* The guardian.                                                            *)

\* The history counts what the loop counts.
StreakIsStable == streak = stable

GuardInv ==
    /\ Guard!TypeOK /\ Guard!StoppedMeansClosed /\ Guard!PublishedOnlyVerified
    /\ StreakIsStable

\* The publisher that runs is the one whose handle is held.
LEMMA RunningIsChild ==
    ASSUME Guard!TypeOK
    PROVE  \A p \in Publishers : state[p] = "running" <=> p = child /\ state[child] = "running"
BY DEF Guard!TypeOK, Guard!Running

\* Without its handle there is no publisher, whatever stood behind it.
LEMMA ClosedMeansNoneRuns ==
    ASSUME Guard!TypeOK, Guard!CloseChild
    PROVE  /\ child' = NoPublisher /\ state' \in [Publishers -> {"none", "running", "exited"}]
           /\ Guard!Running' = {}
BY RunningIsChild DEF Guard!TypeOK, Guard!CloseChild, Guard!Running

LEMMA BootIsSafe ==
    ASSUME NEW good, Guard!Boot(good) PROVE Guard!Running = {}
BY DEF Guard!Boot, Guard!Running

\* Steps that end with the publisher closed.
LEMMA ClosingSteps ==
    ASSUME GuardInv,
           Guard!VerifiedStopped \/ Guard!Refuted \/ Guard!Doubt \/ Guard!Signal
             \/ (Guard!Again /\ stop)
    PROVE  GuardInv'
<1> USE LoopsAssumption DEF GuardInv
<1>1. Guard!CloseChild
  BY DEF Guard!VerifiedStopped, Guard!Refuted, Guard!Block, Guard!Doubt, Guard!Signal, Guard!Again
<1>2. child' = NoPublisher /\ state' \in [Publishers -> {"none", "running", "exited"}] /\ Guard!Running' = {}
  BY <1>1, ClosedMeansNoneRuns
<1>3. /\ gpc' \in {"verify", "ready", "delay", "ended"}
      /\ stable' \in 0 .. 2 /\ streak' = stable'
  <2>1. stable' \in {0, stable} /\ streak' = IF stable' = 0 THEN 0 ELSE streak
    BY DEF Guard!TypeOK, StreakIsStable, Guard!VerifiedStopped, Guard!Refuted, Guard!Block,
           Guard!Doubt, Guard!Signal, Guard!Again
  <2>2. gpc' \in {"verify", "ready", "delay", "ended"}
    BY DEF Guard!TypeOK, Guard!VerifiedStopped, Guard!Refuted, Guard!Block, Guard!Doubt,
           Guard!Signal, Guard!Again
  <2> QED BY <2>1, <2>2 DEF Guard!TypeOK, StreakIsStable
<1>4. stop' \in BOOLEAN /\ UNCHANGED <<holdoff, origin, saw>>
  BY DEF Guard!TypeOK, Guard!VerifiedStopped, Guard!Refuted, Guard!Block,
         Guard!Doubt, Guard!Signal, Guard!Again
<1>5. gfaults' \in 0 .. GuardFaults
  <2>1. gfaults' = gfaults \/ Guard!Fault
    BY DEF Guard!VerifiedStopped, Guard!Refuted, Guard!Block, Guard!Doubt, Guard!Signal, Guard!Again
  <2> QED BY <2>1 DEF Guard!TypeOK, Guard!Fault
<1> QED BY <1>2, <1>3, <1>4, <1>5
    DEF Guard!TypeOK, Guard!StoppedMeansClosed, Guard!PublishedOnlyVerified, StreakIsStable

\* The publisher starts after the second success in a row, or goes on.
LEMMA VerifiedStep ==
    ASSUME GuardInv, Guard!Verified
    PROVE  GuardInv'
<1> USE LoopsAssumption DEF GuardInv
<1>1. /\ stable \in 0 .. 2 /\ stable' \in 0 .. 2 /\ streak' = stable' /\ stable <= stable'
      /\ Guard!Enough(Guard!AtMost2(stable + 1)) => stable' = 2
  BY DEF Guard!TypeOK, StreakIsStable, Guard!Verified, Guard!Enough, Guard!AtMost2
<1>2. CASE Guard!MayStart
  <2>1. PICK p \in Publishers : /\ state[p] = "none" /\ child' = p
                                /\ state' = [state EXCEPT ![p] = "running"]
    BY <1>2 DEF Guard!Verified, Guard!StartChild
  <2>2. Guard!Running = {}
    BY <1>2, RunningIsChild DEF Guard!MayStart, Guard!Running
  <2>3. state' \in [Publishers -> {"none", "running", "exited"}] /\ Guard!Running' \subseteq {child'}
    BY <2>1, <2>2 DEF Guard!TypeOK, Guard!Running
  <2>4. stable' = 2
    BY <1>1, <1>2 DEF Guard!MayStart
  <2> QED BY <1>1, <2>1, <2>3, <2>4
      DEF Guard!TypeOK, Guard!StoppedMeansClosed, Guard!PublishedOnlyVerified, StreakIsStable,
          Guard!Verified
<1>3. CASE ~Guard!MayStart
  <2>1. UNCHANGED <<child, state>>
    BY <1>3 DEF Guard!Verified
  <2> QED BY <1>1, <2>1
      DEF Guard!TypeOK, Guard!StoppedMeansClosed, Guard!PublishedOnlyVerified, StreakIsStable,
          Guard!Verified, Guard!Running
<1> QED BY <1>2, <1>3

\* Its exit is seen when it no longer runs; an event of an old one is not its.
LEMMA ExitSteps ==
    ASSUME GuardInv, NEW p \in Publishers, Guard!ExitSeen(p) \/ Guard!PublisherExits(p)
    PROVE  GuardInv'
<1> USE LoopsAssumption DEF GuardInv
<1>1. /\ state' \in [Publishers -> {"none", "running", "exited"}]
      /\ Guard!Running' \subseteq Guard!Running
  BY DEF Guard!TypeOK, Guard!ExitSeen, Guard!PublisherExits, Guard!Running
<1>2. CASE Guard!ExitSeen(p) /\ child = p
  <2>1. Guard!Running' = {}
    BY <1>1, <1>2, RunningIsChild DEF Guard!ExitSeen, Guard!Running
  <2> QED BY <1>1, <1>2, <2>1
      DEF Guard!TypeOK, Guard!StoppedMeansClosed, Guard!PublishedOnlyVerified, StreakIsStable,
          Guard!ExitSeen
<1>3. CASE ~(Guard!ExitSeen(p) /\ child = p)
  <2>1. UNCHANGED <<gpc, stop, stable, holdoff, child, origin, saw, streak>>
        /\ gfaults' \in 0 .. GuardFaults
    BY <1>3 DEF Guard!TypeOK, Guard!ExitSeen, Guard!PublisherExits, Guard!Fault
  <2> QED BY <1>1, <2>1
      DEF Guard!TypeOK, Guard!StoppedMeansClosed, Guard!PublishedOnlyVerified, StreakIsStable
<1> QED BY <1>2, <1>3

\* Steps of the loop and of the world that leave the publisher alone.
LEMMA OtherGuardSteps ==
    ASSUME GuardInv,
           Guard!Answered \/ (Guard!Again /\ ~stop) \/ Guard!HoldoffEnds \/ Guard!OriginTurns
             \/ UNCHANGED gvars
    PROVE  GuardInv'
<1> USE DEF GuardInv
<1>1. UNCHANGED <<stop, stable, child, state, streak>> /\ Guard!Running' = Guard!Running
  BY DEF Guard!Answered, Guard!Again, Guard!HoldoffEnds, Guard!OriginTurns, gvars, Guard!Running
<1>2. gpc' \in {"verify", "ready", "delay", "ended"} /\ holdoff' \in BOOLEAN
  BY DEF Guard!TypeOK, Guard!Answered, Guard!Again, Guard!HoldoffEnds, Guard!OriginTurns, gvars
<1>3. origin' \in BOOLEAN
  BY DEF Guard!TypeOK, Guard!Answered, Guard!Again, Guard!HoldoffEnds, Guard!OriginTurns, gvars
<1>5. saw' \in SUBSET BOOLEAN
  <2>1. saw' = saw \/ saw' = {origin} \/ saw' = saw \cup {origin'}
    BY DEF Guard!Answered, Guard!Again, Guard!HoldoffEnds, Guard!OriginTurns, gvars
  <2> QED BY <1>3, <2>1 DEF Guard!TypeOK
<1>4. gfaults' \in 0 .. GuardFaults
  BY LoopsAssumption
  DEF Guard!TypeOK, Guard!Answered, Guard!Again, Guard!HoldoffEnds, Guard!OriginTurns,
      Guard!Fault, gvars
<1> QED BY <1>1, <1>2, <1>3, <1>4, <1>5
    DEF Guard!TypeOK, Guard!StoppedMeansClosed, Guard!PublishedOnlyVerified, StreakIsStable

LEMMA GuardBoots ==
    ASSUME Guard!Boot(origin), origin \in BOOLEAN, gfaults \in 0 .. GuardFaults
    PROVE  GuardInv
<1>1. state \in [Publishers -> {"none", "running", "exited"}] /\ Guard!Running = {}
  BY DEF Guard!Boot, Guard!Running
<1>2. saw \in SUBSET BOOLEAN
  BY DEF Guard!Boot
<1>3. stop \in BOOLEAN /\ holdoff \in BOOLEAN /\ gpc = "verify" /\ child = NoPublisher
      /\ stable = 0 /\ streak = 0
  BY DEF Guard!Boot
<1>4. Guard!TypeOK
  BY <1>1, <1>2, <1>3 DEF Guard!TypeOK
<1> QED BY <1>1, <1>3, <1>4
    DEF GuardInv, Guard!StoppedMeansClosed, Guard!PublishedOnlyVerified, StreakIsStable

\* A guardian that died starts like the first one.
LEMMA GuardRestarts ==
    ASSUME GuardInv, Guard!Restart
    PROVE  GuardInv'
<1>1. state' \in [Publishers -> {"none", "running", "exited"}] /\ Guard!Running' = {}
  BY DEF Guard!Restart, Guard!Running
<1>2. saw' \in SUBSET BOOLEAN /\ origin' \in BOOLEAN
  BY DEF GuardInv, Guard!TypeOK, Guard!Restart
<1>3. gfaults' \in 0 .. GuardFaults
  BY LoopsAssumption DEF GuardInv, Guard!TypeOK, Guard!Restart, Guard!Fault
<1>4. stop' \in BOOLEAN /\ holdoff' \in BOOLEAN /\ gpc' = "verify" /\ child' = NoPublisher
      /\ stable' = 0 /\ streak' = 0
  BY DEF Guard!Restart
<1>5. Guard!TypeOK'
  BY <1>1, <1>2, <1>3, <1>4 DEF Guard!TypeOK
<1> QED BY <1>1, <1>4, <1>5
    DEF GuardInv, Guard!StoppedMeansClosed, Guard!PublishedOnlyVerified, StreakIsStable

LEMMA GuardPlays == [MCNext]_all => [Guard!Next]_gvars
BY DEF MCNext, all

(* The guardian publishes the ledger only after two verifications in a row  *)
(* and not after a signal, through one publisher at a time, whatever exits, *)
(* turns or arrives while it waits.                                         *)
THEOREM NothingUnverifiedIsPublished == MCSpec => []OnlyVerifiedIsPublished
<1>1. MCInit => GuardInv
  BY GuardBoots, LoopsAssumption DEF MCInit, Guard!Init
<1>2. GuardInv /\ [MCNext]_all => GuardInv'
  <2> SUFFICES ASSUME GuardInv, [Guard!Next]_gvars PROVE GuardInv'
    BY GuardPlays
  <2>1. CASE Guard!Loop
    BY <2>1, ClosingSteps, VerifiedStep, OtherGuardSteps DEF Guard!Loop
  <2> QED BY <2>1, ClosingSteps, ExitSteps, OtherGuardSteps, GuardRestarts DEF Guard!Next
<1>3. GuardInv => OnlyVerifiedIsPublished
  BY RunningIsChild DEF GuardInv, OnlyVerifiedIsPublished, Guard!OnePublisher, Guard!Running
<1> QED BY <1>1, <1>2, <1>3, PTL DEF MCSpec

-----------------------------------------------------------------------------
(* The daily quotes.                                                        *)

Busy(i) == inst[i].at \in {"loading", "compared"}

\* No day after the claimed one was asked about, no day twice.
DaysAreAskedOnce ==
    /\ attempt <= today
    /\ \A d \in Rates!Days : loads[d] <= 1 /\ (d > attempt => loads[d] = 0)

\* A call works on a day that was claimed, and is the only one that does.
EveryDayHasOneAsker ==
    /\ \A i \in Instances : Busy(i) => inst[i].day <= attempt
    /\ \A i, j \in Instances : i # j /\ Busy(i) /\ Busy(j) => inst[i].day # inst[j].day

\* What the row holds was asked for on a claimed day.
RowIsOfAClaimedDay == fetched = asked /\ fetched <= attempt

\* While a call owns the row, its answer is not older than what is there.
ComparedIsNotOlder ==
    \A i \in Instances : inst[i].at = "compared" /\ inst[i].day = attempt
        => \A c \in Currencies : inst[i].value[c] # 0 => payload[c] <= inst[i].value[c]

RatesInv ==
    /\ Rates!TypeOK
    /\ DaysAreAskedOnce /\ EveryDayHasOneAsker /\ RowIsOfAClaimedDay /\ ComparedIsNotOlder

\* A call that is under way has its day, and its quotes once they were compared.
LEMMA BusyIsTyped ==
    ASSUME Rates!TypeOK, NEW i \in Instances, Busy(i)
    PROVE  /\ inst[i].day \in Rates!Days
           /\ inst[i].at = "compared" => inst[i].value \in Rates!Quotes
BY DEF Rates!TypeOK, Busy, Rates!Idle, Rates!Closed, Rates!Loading

\* An object that claims today claims a day nobody was asked about.
LEMMA ClaimStep ==
    ASSUME RatesInv, NEW i \in Instances, Rates!ClaimDay(i),
           UNCHANGED <<today, fetched, payload, asked>>, timer' \in [Instances -> 0 .. LastDay + 1]
    PROVE  RatesInv'
<1> USE LoopsAssumption DEF RatesInv
<1>1. /\ inst[i] = Rates!Idle /\ attempt < today /\ attempt' = today
      /\ inst' = [inst EXCEPT ![i] = Rates!Loading(today)]
      /\ loads' = [loads EXCEPT ![today] = @ + 1] /\ loads[today] = 0
      /\ today \in Rates!Days
  BY DEF Rates!ClaimDay, Rates!Claimable, Rates!TypeOK, DaysAreAskedOnce, Rates!Days
<1>2. Rates!TypeOK'
  BY <1>1 DEF Rates!TypeOK, Rates!Days
<1>3. DaysAreAskedOnce'
  BY <1>1 DEF Rates!TypeOK, DaysAreAskedOnce, Rates!Days
<1>4. /\ \A j \in Instances \ {i} : inst'[j] = inst[j]
      /\ inst'[i] = Rates!Loading(today)
  BY <1>1 DEF Rates!TypeOK
<1>5. ASSUME NEW j \in Instances \ {i}, Busy(j) PROVE inst[j].day < today /\ inst[j].day # today
  <2>1. inst[j].day \in Nat /\ inst[j].day <= attempt
    BY <1>5, BusyIsTyped DEF EveryDayHasOneAsker, Rates!Days
  <2>2. attempt \in Nat /\ today \in Nat
    BY DEF Rates!TypeOK, Rates!Days
  <2> QED BY <1>1, <2>1, <2>2
<1>6. EveryDayHasOneAsker'
  BY <1>1, <1>4, <1>5, BusyIsTyped
  DEF EveryDayHasOneAsker, Busy, Rates!Loading, Rates!Days
<1>7. ComparedIsNotOlder'
  BY <1>1, <1>4, <1>5 DEF ComparedIsNotOlder, Busy, Rates!Loading
<1>8. RowIsOfAClaimedDay'
  <2>1. attempt \in Nat /\ today \in Nat /\ fetched \in Nat
    BY DEF Rates!TypeOK, Rates!Days
  <2>2. UNCHANGED <<fetched, asked>> /\ attempt < today /\ attempt' = today
    BY <1>1
  <2>3. fetched = asked /\ fetched <= attempt
    BY DEF RowIsOfAClaimedDay
  <2> QED BY ONLY <2>1, <2>2, <2>3 DEF RowIsOfAClaimedDay
<1> QED BY ONLY <1>2, <1>3, <1>6, <1>7, <1>8 DEF RatesInv

\* The answer is compared with the row as it is now.
LEMMA LoadedStep ==
    ASSUME RatesInv, NEW i \in Instances, NEW value \in Rates!Quotes, Rates!Loaded(i, value)
    PROVE  RatesInv'
<1> USE DEF RatesInv
<1>1. /\ Busy(i) /\ inst[i].day \in Rates!Days
      /\ inst' = [inst EXCEPT ![i] = [at |-> "compared", day |-> inst[i].day, value |-> value]]
      /\ UNCHANGED <<today, attempt, fetched, payload, timer, loads, asked>>
  BY BusyIsTyped DEF Rates!Loaded, Busy
<1>2. /\ \A j \in Instances \ {i} : inst'[j] = inst[j]
      /\ inst'[i] = [at |-> "compared", day |-> inst[i].day, value |-> value]
  BY <1>1 DEF Rates!TypeOK
<1>3. Rates!TypeOK'
  BY <1>1 DEF Rates!TypeOK
<1>4. EveryDayHasOneAsker'
  BY <1>1, <1>2 DEF EveryDayHasOneAsker, Busy
<1>5. ComparedIsNotOlder'
  BY <1>1, <1>2 DEF ComparedIsNotOlder, Rates!Loaded, Rates!NotBackwards
<1> QED BY <1>1, <1>3, <1>4, <1>5 DEF DaysAreAskedOnce, RowIsOfAClaimedDay

\* Only the call that owns the row writes it, and nobody else works on its day.
LEMMA StoreStep ==
    ASSUME RatesInv, NEW i \in Instances, Rates!Store(i)
    PROVE  RatesInv'
<1> USE DEF RatesInv
<1>1. /\ Busy(i) /\ inst[i].day \in Rates!Days /\ inst[i].value \in Rates!Quotes
      /\ inst' = [inst EXCEPT ![i] = Rates!Idle]
      /\ UNCHANGED <<today, attempt, timer, loads>>
  BY BusyIsTyped DEF Rates!Store, Busy
<1>2. \A j \in Instances \ {i} : inst'[j] = inst[j]
  BY <1>1 DEF Rates!TypeOK
<1>3. inst'[i] = Rates!Idle /\ Rates!Idle.at = "idle"
  BY <1>1 DEF Rates!TypeOK, Rates!Idle
<1>4. EveryDayHasOneAsker'
  BY <1>1, <1>2, <1>3 DEF EveryDayHasOneAsker, Busy
<1>5. CASE Rates!OwnsTheRow(i)
  <2>1. attempt = inst[i].day /\ fetched' = attempt /\ asked' = attempt /\ payload' = inst[i].value
    BY <1>5 DEF Rates!Store, Rates!OwnsTheRow, Rates!DayStored
  <2>2. Rates!TypeOK'
    BY <1>1, <2>1 DEF Rates!TypeOK
  <2>3. ComparedIsNotOlder'
    BY <1>1, <1>2, <1>3, <2>1 DEF ComparedIsNotOlder, EveryDayHasOneAsker, Busy
  <2> QED BY <1>1, <1>4, <2>1, <2>2, <2>3
      DEF DaysAreAskedOnce, RowIsOfAClaimedDay, Rates!TypeOK
<1>6. CASE ~Rates!OwnsTheRow(i)
  <2>1. UNCHANGED <<fetched, payload, asked>>
    BY <1>6 DEF Rates!Store
  <2>2. Rates!TypeOK'
    BY <1>1, <2>1 DEF Rates!TypeOK
  <2> QED BY <1>1, <1>2, <1>3, <1>4, <2>1, <2>2
      DEF DaysAreAskedOnce, RowIsOfAClaimedDay, ComparedIsNotOlder
<1> QED BY <1>5, <1>6

\* An object gives up, closes or opens: it works on no day afterwards.
LEMMA LetGoSteps ==
    ASSUME RatesInv, NEW i \in Instances, Rates!GiveUp(i) \/ Rates!Close(i) \/ Rates!Open(i)
    PROVE  RatesInv'
<1> USE DEF RatesInv
<1>1. PICK new \in {Rates!Idle, Rates!Closed} :
          /\ inst' = [inst EXCEPT ![i] = new]
          /\ timer' \in [Instances -> 0 .. LastDay + 1]
          /\ UNCHANGED <<today, attempt, fetched, payload, loads, asked>>
  BY LoopsAssumption DEF Rates!GiveUp, Rates!Close, Rates!Open, Rates!TypeOK
<1>2. /\ \A j \in Instances \ {i} : inst'[j] = inst[j]
      /\ inst'[i] = new /\ new.at \notin {"loading", "compared"}
  BY <1>1 DEF Rates!TypeOK, Rates!Idle, Rates!Closed
<1>3. Rates!TypeOK'
  BY <1>1 DEF Rates!TypeOK
<1> QED BY <1>1, <1>2, <1>3
    DEF DaysAreAskedOnce, RowIsOfAClaimedDay, EveryDayHasOneAsker, Busy, ComparedIsNotOlder

\* The clock goes on, a tick finds the day claimed, or nothing happens here.
LEMMA TimeSteps ==
    ASSUME RatesInv,
           \/ Rates!DayPasses \/ UNCHANGED rvars
           \/ /\ timer' \in [Instances -> 0 .. LastDay + 1]
              /\ UNCHANGED <<today, attempt, fetched, payload, inst, loads, asked>>
    PROVE  RatesInv'
<1>1. /\ timer' \in [Instances -> 0 .. LastDay + 1]
      /\ UNCHANGED <<attempt, fetched, payload, inst, loads, asked>>
  BY DEF RatesInv, Rates!TypeOK, Rates!DayPasses, rvars
<1>2. today' \in Rates!Days /\ today <= today'
  <2>1. today' = today \/ (today < LastDay /\ today' = today + 1)
    BY DEF Rates!DayPasses, rvars
  <2> QED BY <2>1, LoopsAssumption DEF RatesInv, Rates!TypeOK, Rates!Days
<1> QED BY <1>1, <1>2
    DEF RatesInv, Rates!TypeOK, DaysAreAskedOnce, RowIsOfAClaimedDay, EveryDayHasOneAsker, Busy,
        ComparedIsNotOlder, Rates!Days

\* A tick claims the day or finds nothing to do; the next one is set.
LEMMA TickStep ==
    ASSUME RatesInv, NEW i \in Instances, Rates!Tick(i, today + 1)
    PROVE  RatesInv'
<1>1. timer' \in [Instances -> 0 .. LastDay + 1]
  <2>1. today + 1 \in 0 .. LastDay + 1
    BY LoopsAssumption DEF RatesInv, Rates!TypeOK, Rates!Days
  <2> QED BY <2>1 DEF RatesInv, Rates!TypeOK, Rates!Tick
<1> QED BY <1>1, ClaimStep, TimeSteps DEF Rates!Tick

LEMMA RatesStep ==
    ASSUME RatesInv, [Rates!Next]_rvars
    PROVE  RatesInv'
<1>1. ASSUME NEW i \in Instances, Rates!Get(i) PROVE RatesInv'
  BY <1>1, ClaimStep DEF Rates!Get, RatesInv, Rates!TypeOK
<1> QED BY <1>1, TickStep, LoadedStep, StoreStep, LetGoSteps, TimeSteps
    DEF Rates!Next, Rates!Start, Rates!Midnight

LEMMA RatesPlay == [MCNext]_all => [Rates!Next]_rvars
BY DEF MCNext, all

\* Only a call that owns the row changes it.
LEMMA OnlyStoreWrites ==
    ASSUME [Rates!Next]_rvars
    PROVE  \/ UNCHANGED <<fetched, payload>>
           \/ \E i \in Instances : Rates!Store(i) /\ Rates!OwnsTheRow(i)
BY DEF Rates!Next, Rates!Get, Rates!Start, Rates!Midnight, Rates!Tick, Rates!Store, Rates!GiveUp,
       Rates!Close, Rates!Open, Rates!Loaded, Rates!DayPasses, rvars

LEMMA TheCacheNeverGoesBack ==
    ASSUME RatesInv, [Rates!Next]_rvars
    PROVE  /\ fetched <= fetched'
           /\ \A c \in Currencies : payload'[c] # 0 => payload[c] <= payload'[c]
<1>1. CASE UNCHANGED <<fetched, payload>>
  BY <1>1 DEF RatesInv, Rates!TypeOK, Rates!Quotes, Rates!Times
<1>2. ASSUME NEW i \in Instances, Rates!Store(i), Rates!OwnsTheRow(i)
      PROVE  /\ fetched <= fetched'
             /\ \A c \in Currencies : payload'[c] # 0 => payload[c] <= payload'[c]
  BY <1>2 DEF RatesInv, RowIsOfAClaimedDay, ComparedIsNotOlder, Rates!Store, Rates!OwnsTheRow,
              Rates!DayStored
<1> QED BY <1>1, <1>2, OnlyStoreWrites

(* However many processes open the file: the bank is asked once a day, a    *)
(* quote that counts as fresh was asked for on that day, the day of the     *)
(* cache never goes back and no quote is replaced by an older one.          *)
THEOREM QuotesStayOfTheDay == MCSpec => QuotesAreOfTheDay
<1>1. MCInit => RatesInv
  <2> SUFFICES ASSUME Rates!Init PROVE RatesInv
    BY DEF MCInit
  <2>1. Rates!TypeOK
    BY LoopsAssumption
    DEF Rates!Init, Rates!TypeOK, Rates!Days, Rates!Quotes, Rates!Times, Rates!NoQuotes
  <2>2. \A i \in Instances : ~Busy(i)
    BY DEF Rates!Init, Rates!Idle, Busy
  <2> QED BY <2>1, <2>2
      DEF Rates!Init, RatesInv, DaysAreAskedOnce, EveryDayHasOneAsker, RowIsOfAClaimedDay,
          ComparedIsNotOlder, Busy
<1>2. RatesInv /\ [MCNext]_all => RatesInv'
  BY RatesStep, RatesPlay
<1>3. RatesInv => Rates!TypeOK /\ Rates!OneLoadPerDay /\ Rates!FreshMeansToday
  BY DEF RatesInv, DaysAreAskedOnce, RowIsOfAClaimedDay, Rates!OneLoadPerDay, Rates!FreshMeansToday
<1>4. RatesInv /\ [MCNext]_all => [fetched <= fetched']_rvars
  BY TheCacheNeverGoesBack, RatesPlay
<1>5. RatesInv /\ [MCNext]_all
        => [\A c \in Currencies : payload'[c] # 0 => payload[c] <= payload'[c]]_rvars
  BY TheCacheNeverGoesBack, RatesPlay
<1> QED BY <1>1, <1>2, <1>3, <1>4, <1>5, PTL
    DEF MCSpec, QuotesAreOfTheDay, Rates!FetchedNeverGoesBack, Rates!QuotesNeverAge, Rates!vars, rvars

-----------------------------------------------------------------------------
(* The replacement of a credential.                                        *)

\* A rotation writes under its marker, and its helper only applies or resumes.
LedgerWritersAreMarked ==
    /\ helper.at = "mark" => kind = "ledger"
    /\ kind = "ledger" => /\ helper.at \in {"write", "replace"} => volume.marker
                          /\ helper # Credential!NoHelper => helper.mode \in {"apply", "resume"}

\* What is begun is on record, before a helper runs and while it does.
BegunIsRecorded ==
    kind # "model" =>
        ( helper # Credential!NoHelper \/ command.at \in {"started", "running", "saved", "failed"}
            => desk.started # {} )

\* The model's official writer keeps no files next to the profile, and a
\* rotation is reviewed when nothing of an earlier one is left.
NothingPending ==
    /\ kind = "model" => volume.pending = {}
    /\ kind \in {"ledger", "model"} /\ desk.review # None => desk.review.backup.pending = {}

\* No service starts while a command runs on its review.
CommandsRunAlone ==
    command # Credential!NoAttempt => services = "off" /\ desk.review # None /\ command.act # "none"

\* One helper at a time, and none is left when its result is to be saved.
SavedMeansNoHelper == command.at \in {"reviewed", "started", "saved"} => helper = Credential!NoHelper

\* What a helper reports to the command that waits, and what the command saves.
Finished ==
    /\ Credential!AllAre("new") /\ ~volume.marker
    /\ kind = "weixin" => Credential!WeixinOthersKept
    /\ kind = "model" => Credential!OthersKept
ReportsAreTrue == (helper.at = "report" /\ helper.waited) \/ command.at = "saved" => Finished

CredentialInv ==
    /\ TokensAreGuarded
    /\ LedgerWritersAreMarked /\ BegunIsRecorded /\ NothingPending /\ CommandsRunAlone
    /\ SavedMeansNoHelper /\ ReportsAreTrue

-----------------------------------------------------------------------------
(* Steps at the operator's desk.                                            *)

LEMMA SameKind ==
    ASSUME UNCHANGED kind
    PROVE  /\ Credential!Parts' = Credential!Parts /\ Credential!Volumes' = Credential!Volumes
           /\ Credential!Desks' = Credential!Desks
BY DEF Credential!Parts, Credential!Volumes, Credential!Desks, Credential!Reviews

\* A step that keeps volume, command, helper and services keeps what is said of them.
LEMMA DeskSteps ==
    ASSUME CredentialInv, UNCHANGED <<kind, volume, held, command, helper, services>>,
           desk' \in Credential!Desks, desk'.started = desk.started,
           cfaults' \in 0 .. CredentialFaults,
           desk'.review = desk.review \/ held = "free",
           kind \in {"ledger", "model"} /\ desk'.review # None => desk'.review.backup.pending = {}
    PROVE  CredentialInv'
<1> USE DEF CredentialInv, TokensAreGuarded
<1>1. Credential!CredentialTypeOK'
  BY SameKind DEF Credential!CredentialTypeOK, Credential!NoAttempt
<1>2. Credential!CredentialsAreGuarded'
  BY DEF Credential!CredentialsAreGuarded, Credential!AllAre, Credential!Parts
<1>3. LedgerWritersAreMarked' /\ BegunIsRecorded' /\ NothingPending' /\ CommandsRunAlone'
      /\ SavedMeansNoHelper'
  BY DEF Credential!CredentialTypeOK, LedgerWritersAreMarked, BegunIsRecorded, NothingPending, CommandsRunAlone,
         SavedMeansNoHelper, Credential!NoHelper, Credential!NoAttempt
<1>4. ReportsAreTrue'
  <2> SUFFICES ASSUME (helper.at = "report" /\ helper.waited) \/ command.at = "saved"
               PROVE  Finished'
    BY DEF ReportsAreTrue
  <2>1. Finished /\ desk'.review = desk.review
    BY DEF ReportsAreTrue, Credential!CredentialTypeOK, Credential!NoAttempt
  <2> QED BY <2>1 DEF Finished, Credential!AllAre, Credential!Parts, Credential!WeixinOthersKept,
                      Credential!OthersKept
<1> QED BY <1>1, <1>2, <1>3, <1>4

LEMMA PrepareStep ==
    ASSUME CredentialInv, Credential!Prepare
    PROVE  CredentialInv'
<1> USE DEF CredentialInv, TokensAreGuarded
<1>1. PICK binding \in Nat : Credential!Drafted(binding)
  BY LoopsAssumption
  DEF Credential!Prepare, Credential!LedgerPrepares, Credential!WeixinPrepares,
      Credential!TunnelPrepares, Credential!ModelPrepares, Credential!CredentialTypeOK,
      Credential!Volumes, Credential!Desks
<1>2. kind \in {"ledger", "model"} => volume.pending = {}
  BY DEF Credential!Prepare, Credential!LedgerPrepares, Credential!WeixinPrepares,
         Credential!TunnelPrepares, Credential!ModelPrepares, Credential!RotationComplete,
         NothingPending
<1>3. /\ desk.prepared \in Nat /\ desk.epoch \in Nat /\ volume \in Credential!Volumes
      /\ desk \in Credential!Desks
  BY DEF Credential!CredentialTypeOK, Credential!Desks
<1>4. [epoch |-> desk.epoch, backup |-> volume, binding |-> binding] \in Credential!Reviews
  BY <1>3 DEF Credential!Reviews
<1> DEFINE review == [epoch |-> desk.epoch, backup |-> volume, binding |-> binding]
<1>5. review \in Credential!Reviews /\ review.backup = volume
  BY <1>4
<1>6. desk' = [desk EXCEPT !.prepared = @ + 1, !.edits = 0, !.fresh = FALSE, !.review = review]
  BY <1>1 DEF Credential!Drafted
<1> HIDE DEF review
<1>7. desk' \in Credential!Desks /\ desk'.started = desk.started /\ desk'.review = review
  <2> DEFINE e == [desk EXCEPT !.prepared = @ + 1]
             f == [e EXCEPT !.edits = 0]
             g == [f EXCEPT !.fresh = FALSE]
  <2>1. e \in Credential!Desks /\ e.started = desk.started
    BY <1>3 DEF Credential!Desks
  <2>2. desk' = [g EXCEPT !.review = review]
    BY <1>6
  <2> HIDE DEF e
  <2>3. f \in Credential!Desks /\ f.started = desk.started
    BY <2>1 DEF Credential!Desks
  <2> HIDE DEF f
  <2>4. g \in Credential!Desks /\ g.started = desk.started
    BY <2>3 DEF Credential!Desks
  <2> HIDE DEF g
  <2> QED BY <1>5, <2>2, <2>4 DEF Credential!Desks
<1> QED BY <1>1, <1>2, <1>5, <1>7, DeskSteps DEF Credential!Drafted, Credential!CredentialTypeOK

LEMMA ApproveSteps ==
    ASSUME CredentialInv, Credential!Approve \/ Credential!ReviewExpires
    PROVE  CredentialInv'
<1> USE DEF CredentialInv, TokensAreGuarded
<1>1. desk' \in Credential!Desks /\ desk'.started = desk.started /\ desk'.review = desk.review
  <2>1. \/ desk' = [desk EXCEPT !.edits = @ + 1, !.fresh = TRUE]
        \/ desk' = [desk EXCEPT !.fresh = FALSE]
    BY DEF Credential!Approve, Credential!ReviewExpires
  <2>2. desk \in Credential!Desks
    BY DEF Credential!CredentialTypeOK
  <2>3. CASE desk' = [desk EXCEPT !.edits = @ + 1, !.fresh = TRUE]
    <3> DEFINE e == [desk EXCEPT !.edits = @ + 1]
    <3>1. e \in Credential!Desks /\ e.started = desk.started /\ e.review = desk.review
      BY <2>2 DEF Credential!Desks
    <3>2. desk' = [e EXCEPT !.fresh = TRUE]
      BY <2>3
    <3> HIDE DEF e
    <3> QED BY <3>1, <3>2 DEF Credential!Desks
  <2>4. CASE desk' = [desk EXCEPT !.fresh = FALSE]
    BY <2>2, <2>4 DEF Credential!Desks
  <2> QED BY <2>1, <2>3, <2>4
<1>2. cfaults' \in 0 .. CredentialFaults
  BY LoopsAssumption
  DEF Credential!Approve, Credential!ReviewExpires, Credential!CredentialTypeOK, Credential!Fault
<1> QED BY <1>1, <1>2, DeskSteps DEF Credential!Approve, Credential!ReviewExpires, NothingPending

-----------------------------------------------------------------------------
(* Steps of the command.                                                    *)

\* A step of the command keeps the volume and the services.
LEMMA CommandKeeps ==
    ASSUME CredentialInv, UNCHANGED <<kind, volume, services>>,
           desk' \in Credential!Desks, desk'.review = desk.review, desk.started \subseteq desk'.started
    PROVE  /\ Credential!CredentialsAreGuarded' /\ NothingPending' /\ Finished' = Finished
BY DEF CredentialInv, TokensAreGuarded, Credential!CredentialsAreGuarded, Credential!AllAre,
       Credential!Parts, NothingPending, Finished, Credential!WeixinOthersKept, Credential!OthersKept

\* A command begins in a maintenance, when nothing runs.
LEMMA BeginMeansUnused ==
    ASSUME Credential!BeginApply \/ Credential!BeginResume
    PROVE  Credential!Unused /\ held = "free" /\ desk.review # None
BY DEF Credential!BeginApply, Credential!BeginResume, Credential!BeginApplyLedger,
       Credential!BeginApplySingle, Credential!BeginApplyModel, Credential!BeginResumeLedger,
       Credential!BeginResumeSingle, Credential!LedgerContext, Credential!SingleContext,
       Credential!ModelContext, Credential!LedgerReviewHolds, Credential!AsBackedUp,
       Credential!AuditedAsBackup

LEMMA BeginStep ==
    ASSUME CredentialInv, Credential!BeginApply \/ Credential!BeginResume
    PROVE  CredentialInv'
<1> USE DEF CredentialInv, TokensAreGuarded
<1>1. PICK act \in {"apply", "resume"}, at \in {"reviewed", "started"} :
          Credential!Begun(act, at) /\ (kind # "model" /\ at = "started" => desk.started # {})
  BY DEF Credential!BeginApply, Credential!BeginResume, Credential!BeginApplyLedger,
         Credential!BeginApplySingle, Credential!BeginApplyModel, Credential!BeginResumeLedger,
         Credential!BeginResumeSingle, Credential!OwnRecord
<1>2. desk' = desk \/ desk' = [desk EXCEPT !.stageLocked = TRUE]
  BY DEF Credential!BeginApply, Credential!BeginResume, Credential!BeginApplyLedger,
         Credential!BeginApplySingle, Credential!BeginApplyModel, Credential!BeginResumeLedger,
         Credential!BeginResumeSingle
<1>3. /\ desk' \in Credential!Desks /\ desk'.review = desk.review /\ desk'.started = desk.started
      /\ desk.edits \in Nat
  BY <1>2 DEF Credential!CredentialTypeOK, Credential!Desks
<1>4. helper = Credential!NoHelper /\ services = "off" /\ held = "free" /\ desk.review # None
  BY BeginMeansUnused DEF Credential!Unused
<1>5. /\ held' = "command" /\ command' = [act |-> act, at |-> at, edits |-> desk.edits]
      /\ UNCHANGED <<kind, volume, helper, services, cfaults>>
  BY <1>1 DEF Credential!Begun
<1>6. Credential!CredentialTypeOK'
  BY <1>3, <1>4, <1>5, SameKind
  DEF Credential!CredentialTypeOK, Credential!NoAttempt, Credential!NoHelper
<1>7. Credential!CredentialsAreGuarded' /\ NothingPending'
  BY <1>3, <1>5, CommandKeeps
<1> QED BY <1>1, <1>3, <1>4, <1>5, <1>6, <1>7
    DEF LedgerWritersAreMarked, BegunIsRecorded, CommandsRunAlone, SavedMeansNoHelper,
        ReportsAreTrue, Credential!NoHelper

LEMMA SaveStartedStep ==
    ASSUME CredentialInv, Credential!SaveStarted
    PROVE  CredentialInv'
<1> USE DEF CredentialInv, TokensAreGuarded
<1> DEFINE new == [binding |-> desk.review.binding, epoch |-> desk.epoch, edits |-> desk.edits]
<1>1. /\ command.at = "reviewed" /\ command' = [command EXCEPT !.at = "started"]
      /\ desk' = [desk EXCEPT !.started = @ \cup {new}]
      /\ UNCHANGED <<kind, volume, held, helper, services, cfaults>>
  BY DEF Credential!SaveStarted
<1>2. new \in [binding : Nat, epoch : Nat, edits : Nat] /\ desk.review # None
  <2>1. desk.review # None /\ desk \in Credential!Desks
    BY DEF Credential!SaveStarted, CommandsRunAlone, Credential!CredentialTypeOK,
           Credential!NoAttempt
  <2> QED BY <2>1 DEF Credential!Desks, Credential!Reviews
<1> HIDE DEF new
<1>3. desk' \in Credential!Desks /\ desk'.review = desk.review
      /\ desk.started \subseteq desk'.started /\ desk'.started # {}
  BY <1>1, <1>2 DEF Credential!CredentialTypeOK, Credential!Desks
<1>4. /\ command'.at = "started" /\ command'.act = command.act /\ command'.edits = command.edits
      /\ command' \in [act : {"none", "apply", "resume"}, edits : Nat,
                       at : {"none", "reviewed", "started", "running", "saved", "failed"}]
  BY <1>1 DEF Credential!CredentialTypeOK
<1>5. Credential!CredentialTypeOK'
  BY <1>1, <1>3, <1>4, SameKind DEF Credential!CredentialTypeOK, Credential!NoAttempt
<1>6. Credential!CredentialsAreGuarded' /\ NothingPending' /\ Finished' = Finished
  BY <1>1, <1>3, CommandKeeps
<1> QED BY <1>1, <1>2, <1>3, <1>4, <1>5, <1>6
    DEF LedgerWritersAreMarked, BegunIsRecorded, CommandsRunAlone, SavedMeansNoHelper,
        ReportsAreTrue, Credential!NoHelper, Credential!NoAttempt

LEMMA RunHelperStep ==
    ASSUME CredentialInv, Credential!RunHelper
    PROVE  CredentialInv'
<1> USE DEF CredentialInv, TokensAreGuarded
<1>1. PICK mode \in {"apply", "resume", "verify-saved"} :
          /\ helper' = [at |-> "check", mode |-> mode, waited |-> TRUE]
          /\ kind = "ledger" => mode # "verify-saved"
  <2>1. command.act \in {"apply", "resume"}
    BY DEF Credential!RunHelper, Credential!CredentialTypeOK, Credential!NoAttempt, CommandsRunAlone
  <2> QED BY <2>1 DEF Credential!RunHelper, Credential!Runs
<1>2. /\ command.at = "started" /\ command' = [command EXCEPT !.at = "running"]
      /\ UNCHANGED <<kind, volume, desk, held, services, cfaults>>
  BY DEF Credential!RunHelper
<1>3. /\ command'.at = "running" /\ command'.act = command.act /\ command'.edits = command.edits
      /\ command' \in [act : {"none", "apply", "resume"}, edits : Nat,
                       at : {"none", "reviewed", "started", "running", "saved", "failed"}]
  BY <1>2 DEF Credential!CredentialTypeOK
<1>4. Credential!CredentialTypeOK'
  BY <1>1, <1>2, <1>3, SameKind DEF Credential!CredentialTypeOK, Credential!NoAttempt
<1>5. Credential!CredentialsAreGuarded' /\ NothingPending'
  BY <1>2, CommandKeeps DEF Credential!CredentialTypeOK
<1> QED BY <1>1, <1>2, <1>3, <1>4, <1>5
    DEF LedgerWritersAreMarked, BegunIsRecorded, CommandsRunAlone, SavedMeansNoHelper,
        ReportsAreTrue, Credential!NoHelper, Credential!NoAttempt

\* The command is over: with a record, because it is refused or fails, or killed.
LEMMA EndSteps ==
    ASSUME CredentialInv, command' = Credential!NoAttempt, held' \in {"free", "dead"},
           UNCHANGED <<kind, volume, services>>,
           desk' \in Credential!Desks, desk'.review = desk.review, desk'.started = desk.started,
           helper' \in {helper, [helper EXCEPT !.waited = FALSE], Credential!NoHelper},
           command.at = "running" \/ helper.waited => helper'.waited = FALSE,
           cfaults' \in 0 .. CredentialFaults
    PROVE  CredentialInv'
<1> USE DEF CredentialInv, TokensAreGuarded
<1>1. /\ helper'.at = helper.at \/ helper'.at = "none"
      /\ helper'.mode = helper.mode \/ helper'.mode = "none"
      /\ helper'.waited = FALSE
      /\ helper' \in [at : {"none", "check", "mark", "write", "replace", "report"}, waited : BOOLEAN,
                      mode : {"none", "apply", "resume", "verify-saved"}]
      /\ helper = Credential!NoHelper => helper' = Credential!NoHelper
  <2>1. CASE helper' = helper
    BY <2>1 DEF Credential!CredentialTypeOK, Credential!NoHelper
  <2>2. CASE helper' = [helper EXCEPT !.waited = FALSE]
    <3>1. /\ helper'.at = helper.at /\ helper'.mode = helper.mode /\ helper'.waited = FALSE
          /\ helper' \in [at : {"none", "check", "mark", "write", "replace", "report"},
                          waited : BOOLEAN, mode : {"none", "apply", "resume", "verify-saved"}]
      BY <2>2 DEF Credential!CredentialTypeOK
    <3>2. helper = Credential!NoHelper => helper' = Credential!NoHelper
      BY <3>1 DEF Credential!NoHelper
    <3> QED BY <3>1, <3>2
  <2>3. CASE helper' = Credential!NoHelper
    BY <2>3 DEF Credential!NoHelper
  <2> QED BY <2>1, <2>2, <2>3
<1>2. Credential!CredentialTypeOK'
  BY <1>1, SameKind DEF Credential!CredentialTypeOK, Credential!NoAttempt
<1>3. Credential!CredentialsAreGuarded' /\ NothingPending'
  BY CommandKeeps
<1> QED BY <1>1, <1>2, <1>3
    DEF LedgerWritersAreMarked, BegunIsRecorded, CommandsRunAlone, SavedMeansNoHelper,
        ReportsAreTrue, Credential!NoHelper, Credential!NoAttempt

LEMMA ReleasedKeeps ==
    ASSUME CredentialInv
    PROVE  /\ Credential!Released \in Credential!Desks
           /\ Credential!Released.review = desk.review /\ Credential!Released.started = desk.started
           /\ Credential!Released.receipts = desk.receipts
BY DEF CredentialInv, TokensAreGuarded, Credential!CredentialTypeOK, Credential!Released,
       Credential!Desks

LEMMA CommandEnds ==
    ASSUME CredentialInv,
           Credential!SaveReceipt \/ Credential!CommandStops \/ Credential!CommandKilled
    PROVE  CredentialInv'
<1> USE DEF CredentialInv, TokensAreGuarded
<1>1. /\ command' = Credential!NoAttempt /\ held' \in {"free", "dead"}
      /\ UNCHANGED <<kind, volume, services>>
  BY DEF Credential!SaveReceipt, Credential!CommandStops, Credential!CommandKilled
<1>2. desk' \in Credential!Desks /\ desk'.review = desk.review /\ desk'.started = desk.started
  <2>1. CASE Credential!SaveReceipt
    <3>1. desk.review # None /\ desk \in Credential!Desks
      BY <2>1 DEF Credential!SaveReceipt, CommandsRunAlone, Credential!CredentialTypeOK,
                  Credential!NoAttempt
    <3>2. desk.review.binding \in Nat
      BY <3>1 DEF Credential!Desks, Credential!Reviews
    <3>3. desk' = [Credential!Released EXCEPT !.receipts = @ \cup {desk.review.binding}]
      BY <2>1 DEF Credential!SaveReceipt
    <3> QED BY <3>2, <3>3, ReleasedKeeps DEF Credential!Desks
  <2>2. CASE Credential!CommandStops
    BY <2>2, ReleasedKeeps DEF Credential!CommandStops
  <2>3. CASE Credential!CommandKilled
    BY <2>3 DEF Credential!CommandKilled, Credential!CredentialTypeOK
  <2> QED BY <2>1, <2>2, <2>3
<1>3. /\ helper' \in {helper, [helper EXCEPT !.waited = FALSE], Credential!NoHelper}
      /\ command.at = "running" \/ helper.waited => helper'.waited = FALSE
  BY DEF Credential!SaveReceipt, Credential!CommandStops, Credential!CommandKilled,
         Credential!HelperAfter, Credential!Blocked, Credential!CredentialTypeOK,
         Credential!NoHelper
<1>4. cfaults' \in 0 .. CredentialFaults
  <2>1. UNCHANGED cfaults \/ Credential!Fault
    BY DEF Credential!SaveReceipt, Credential!CommandStops, Credential!CommandKilled
  <2> QED BY <2>1, LoopsAssumption DEF Credential!Fault, Credential!CredentialTypeOK
<1> QED BY <1>1, <1>2, <1>3, <1>4, EndSteps

LEMMA LockRemovedStep ==
    ASSUME CredentialInv, Credential!LockRemovedByHand
    PROVE  CredentialInv'
<1> USE DEF CredentialInv, TokensAreGuarded
<1>1. command = Credential!NoAttempt /\ command' = Credential!NoAttempt /\ held' = "free"
      /\ UNCHANGED <<kind, volume, helper, services, cfaults>> /\ desk' = Credential!Released
  BY DEF Credential!LockRemovedByHand, Credential!CredentialTypeOK
<1>2. ~helper.waited
  BY <1>1 DEF Credential!CredentialTypeOK, Credential!NoAttempt
<1> QED BY <1>1, <1>2, ReleasedKeeps, EndSteps DEF Credential!CredentialTypeOK, Credential!NoAttempt

-----------------------------------------------------------------------------
(* Steps of the helper.                                                     *)

HelperTypes == [at : {"none", "check", "mark", "write", "replace", "report"}, waited : BOOLEAN,
                mode : {"none", "apply", "resume", "verify-saved"}]
CommandTypes == [act : {"none", "apply", "resume"}, edits : Nat,
                 at : {"none", "reviewed", "started", "running", "saved", "failed"}]

\* What a helper keeps while it works: its command, and the records of the desk.
HelperWorks ==
    /\ helper # Credential!NoHelper /\ UNCHANGED <<kind, desk, held, services>>
    /\ cfaults' \in 0 .. CredentialFaults
    /\ volume' \in Credential!Volumes /\ (volume'.marker => kind = "ledger")
    /\ kind = "model" => volume'.pending = {}
    /\ kind = "ledger" /\ ~volume'.marker =>
           volume'.pending = {} /\ (Credential!AllAre("old")' \/ Credential!AllAre("new")')

LEMMA GuardedAtWork ==
    ASSUME CredentialInv, HelperWorks
    PROVE  /\ Credential!CredentialsAreGuarded' /\ NothingPending'
           /\ command.at \notin {"reviewed", "started", "saved"}
           /\ kind # "model" => desk.started # {}
BY DEF CredentialInv, HelperWorks, Credential!CredentialsAreGuarded, NothingPending, BegunIsRecorded,
       SavedMeansNoHelper

\* It goes on to its next step.
LEMMA HelperGoesOn ==
    ASSUME CredentialInv, HelperWorks, NEW step \in {"mark", "write", "replace", "report"},
           Credential!Goes(step),
           step = "mark" => kind = "ledger",
           kind = "ledger" /\ step \in {"write", "replace"} => volume'.marker,
           step = "report" => Finished'
    PROVE  CredentialInv'
<1> USE DEF CredentialInv, TokensAreGuarded
<1>1. /\ helper' \in HelperTypes /\ helper'.at = step
      /\ helper'.mode = helper.mode /\ helper'.waited = helper.waited
  BY DEF Credential!Goes, Credential!CredentialTypeOK, HelperTypes
<1>2. UNCHANGED <<kind, desk, held, services, command>> /\ helper # Credential!NoHelper
  BY DEF HelperWorks, Credential!Goes
<1>3. Credential!CredentialTypeOK'
  BY <1>1, <1>2, SameKind
  DEF HelperWorks, HelperTypes, Credential!CredentialTypeOK, Credential!NoAttempt
<1> QED BY <1>1, <1>2, <1>3, GuardedAtWork
    DEF LedgerWritersAreMarked, BegunIsRecorded, CommandsRunAlone, SavedMeansNoHelper,
        ReportsAreTrue, Credential!NoAttempt

\* It ends, and a command that waits learns how.
LEMMA HelperEnds ==
    ASSUME CredentialInv, HelperWorks, NEW result \in {"failed", "saved"}, Credential!Ends(result),
           result = "saved" /\ helper.waited => Finished'
    PROVE  CredentialInv'
<1> USE DEF CredentialInv, TokensAreGuarded
<1>1. UNCHANGED <<kind, desk, held, services>> /\ helper' = Credential!NoHelper
  BY DEF HelperWorks, Credential!Ends
<1>2. /\ command' \in CommandTypes /\ command'.act = command.act
      /\ command.at = "running" => command'.at = result
      /\ command.at # "running" => command' = command
  BY DEF Credential!Ends, Credential!CredentialTypeOK, CommandTypes
<1>3. Credential!CredentialTypeOK'
  BY <1>1, <1>2, SameKind
  DEF HelperWorks, CommandTypes, Credential!CredentialTypeOK, Credential!NoAttempt, Credential!NoHelper
<1> QED BY <1>1, <1>2, <1>3, GuardedAtWork
    DEF LedgerWritersAreMarked, BegunIsRecorded, CommandsRunAlone, SavedMeansNoHelper,
        ReportsAreTrue, Credential!NoAttempt, Credential!NoHelper, Credential!CredentialTypeOK

\* What holds when the helper leaves the volume as it is.
LEMMA LooksOnly ==
    ASSUME CredentialInv, helper # Credential!NoHelper,
           UNCHANGED <<kind, volume, desk, held, services>>, cfaults' \in 0 .. CredentialFaults
    PROVE  HelperWorks /\ Finished' = Finished
BY DEF CredentialInv, TokensAreGuarded, HelperWorks, Credential!CredentialTypeOK,
       Credential!CredentialsAreGuarded, NothingPending, Credential!AllAre, Credential!Parts, Finished,
       Credential!WeixinOthersKept, Credential!OthersKept

LEMMA HelperChecksStep ==
    ASSUME CredentialInv, Credential!HelperChecks
    PROVE  CredentialInv'
<1> USE DEF CredentialInv, TokensAreGuarded
<1>1. helper # Credential!NoHelper /\ HelperWorks /\ Finished' = Finished
  BY LooksOnly DEF Credential!HelperChecks, Credential!NoHelper, Credential!CredentialTypeOK
<1>2. CASE Credential!LedgerChecks
  <2>1. Credential!LedgerMode \in {"verify-saved", "resume", "apply"}
    BY <1>1, <1>2 DEF Credential!LedgerMode, Credential!LedgerChecks, LedgerWritersAreMarked
  <2>2. CASE ~Credential!LedgerPlanHolds
    BY <1>1, <1>2, <2>2, HelperEnds DEF Credential!LedgerChecks
  <2>3. CASE Credential!LedgerPlanHolds /\ Credential!LedgerMode = "verify-saved"
    <3>1. Finished
      BY <1>1, <1>2, <2>3
      DEF Credential!LedgerMode, Credential!LedgerPlanHolds, Credential!LedgerChecks, Finished,
          Credential!RotationComplete, LedgerWritersAreMarked
    <3>2. Credential!Goes("report")
      BY <1>2, <2>3 DEF Credential!LedgerChecks
    <3> QED BY <1>1, <3>1, <3>2, HelperGoesOn
  <2>4. CASE Credential!LedgerPlanHolds /\ Credential!LedgerMode = "resume"
    <3>1. volume'.marker
      BY <2>4 DEF Credential!LedgerPlanHolds, Credential!HelperChecks
    <3>2. Credential!Goes("write")
      BY <1>2, <2>4 DEF Credential!LedgerChecks
    <3> QED BY <1>1, <3>1, <3>2, HelperGoesOn
  <2>5. CASE Credential!LedgerPlanHolds /\ Credential!LedgerMode = "apply"
    <3>1. Credential!Goes("mark")
      BY <1>2, <2>5 DEF Credential!LedgerChecks
    <3> QED BY <1>1, <1>2, <3>1, HelperGoesOn DEF Credential!LedgerChecks
  <2> QED BY <2>1, <2>2, <2>3, <2>4, <2>5
<1>3. CASE Credential!WeixinChecks \/ Credential!TunnelChecks \/ Credential!ModelChecks
  <2>1. kind # "ledger"
    BY <1>3 DEF Credential!WeixinChecks, Credential!TunnelChecks, Credential!ModelChecks
  <2>2. \/ Credential!Ends("failed")
        \/ Credential!Goes("write")
        \/ Credential!Goes("report") /\ kind \in {"weixin", "tunnel"} /\ Credential!AllAre("new")
             /\ (kind = "weixin" => Credential!WeixinOthersKept)
    BY <1>3 DEF Credential!WeixinChecks, Credential!TunnelChecks, Credential!ModelChecks,
                Credential!WeixinSaved
  <2>3. CASE Credential!Goes("report") /\ kind \in {"weixin", "tunnel"} /\ Credential!AllAre("new")
               /\ (kind = "weixin" => Credential!WeixinOthersKept)
    <3>1. Finished
      BY <2>1, <2>3 DEF Finished, Credential!CredentialTypeOK
    <3> QED BY <1>1, <2>1, <2>3, <3>1, HelperGoesOn
  <2> QED BY <1>1, <2>1, <2>2, <2>3, HelperGoesOn, HelperEnds
<1> QED BY <1>2, <1>3 DEF Credential!HelperChecks

\* Under its marker a rotation may stand anywhere between old and new.
LEMMA HelperWritesSteps ==
    ASSUME CredentialInv, Credential!HelperMarks \/ Credential!HelperWrites \/ Credential!HelperReplaces
    PROVE  CredentialInv'
<1> USE DEF CredentialInv, TokensAreGuarded
<1>1. /\ helper # Credential!NoHelper /\ UNCHANGED <<kind, desk, held, services, cfaults>>
      /\ volume \in Credential!Volumes /\ (volume.marker => kind = "ledger")
      /\ cfaults \in 0 .. CredentialFaults
      /\ kind = "model" => volume.pending = {}
      /\ kind = "ledger" /\ ~(helper.at = "mark") => volume.marker
  BY DEF Credential!HelperMarks, Credential!HelperWrites, Credential!HelperReplaces,
         Credential!NoHelper, Credential!CredentialTypeOK, LedgerWritersAreMarked, NothingPending
<1>2. Credential!NextPart \in Credential!Parts
  BY DEF Credential!NextPart, Credential!Parts
<1>3. CASE Credential!HelperMarks
  <2>1. /\ kind = "ledger" /\ volume' = [volume EXCEPT !.marker = TRUE] /\ Credential!Goes("write")
    BY <1>3 DEF Credential!HelperMarks, LedgerWritersAreMarked
  <2>2. volume' \in Credential!Volumes /\ volume'.marker
    BY <1>1, <2>1 DEF Credential!Volumes
  <2> QED BY <1>1, <2>1, <2>2, HelperGoesOn DEF HelperWorks
<1>4. CASE Credential!HelperWrites
  <2>1. \/ UNCHANGED volume
        \/ \E left \in SUBSET (Credential!Parts \cup {"stray"}) :
               volume' = [volume EXCEPT !.pending = left] /\ kind # "model"
    <3>1. /\ {Credential!NextPart} \in SUBSET (Credential!Parts \cup {"stray"})
          /\ {} \in SUBSET (Credential!Parts \cup {"stray"})
          /\ volume.pending \cup {Credential!NextPart} \in SUBSET (Credential!Parts \cup {"stray"})
      BY <1>1, <1>2 DEF Credential!Volumes
    <3> QED BY <1>4, <3>1
        DEF Credential!HelperWrites, Credential!LedgerWrites, Credential!WeixinWrites,
            Credential!TunnelWrites, Credential!ModelWrites
  <2>2. /\ volume' \in Credential!Volumes /\ volume'.marker = volume.marker
        /\ kind = "model" => volume'.pending = {}
    BY <1>1, <2>1 DEF Credential!Volumes
  <2>3. helper.at = "write" /\ Credential!Goes("replace")
    BY <1>4 DEF Credential!HelperWrites
  <2> QED BY <1>1, <2>2, <2>3, HelperGoesOn DEF HelperWorks
<1>5. CASE Credential!HelperReplaces
  <2>1. volume' \in Credential!Volumes /\ volume'.marker = volume.marker
        /\ (kind = "model" => volume'.pending = {})
    <3> DEFINE mid == [volume EXCEPT !.saved[Credential!NextPart] = "new"]
    <3>1. mid \in Credential!Volumes /\ mid.marker = volume.marker /\ mid.pending = volume.pending
      BY <1>1, <1>2 DEF Credential!Volumes
    <3>2. volume' = [mid EXCEPT !.pending = @ \ {Credential!NextPart}]
      BY <1>5 DEF Credential!HelperReplaces, Credential!Replaced
    <3> HIDE DEF mid
    <3> QED BY <1>1, <3>1, <3>2 DEF Credential!Volumes
  <2>2. helper.at = "replace" /\ Credential!Goes("write")
    BY <1>5 DEF Credential!HelperReplaces
  <2> QED BY <1>1, <2>1, <2>2, HelperGoesOn DEF HelperWorks
<1> QED BY <1>3, <1>4, <1>5

\* The marker goes when everything is new and nothing is left over.
LEMMA HelperClosesStep ==
    ASSUME CredentialInv, Credential!HelperCloses
    PROVE  CredentialInv'
<1> USE DEF CredentialInv, TokensAreGuarded
<1>1. /\ helper # Credential!NoHelper /\ UNCHANGED <<kind, desk, held, services, cfaults>>
      /\ volume \in Credential!Volumes /\ (volume.marker => kind = "ledger")
      /\ cfaults \in 0 .. CredentialFaults
      /\ Credential!AllAre("new")
  BY DEF Credential!HelperCloses, Credential!NoHelper, Credential!CredentialTypeOK
<1> DEFINE closes == \/ Credential!LedgerCloses \/ Credential!WeixinCloses \/ kind = "tunnel"
                     \/ Credential!ModelCloses
<1>2. CASE closes
  <2>1. Credential!Goes("report")
    BY <1>2 DEF Credential!HelperCloses
  <2>2. /\ volume' \in Credential!Volumes /\ ~volume'.marker
        /\ volume'.saved = volume.saved /\ volume'.other = volume.other
        /\ kind = "ledger" => volume'.pending = {}
        /\ kind # "ledger" => volume' = volume
    <3>1. CASE kind = "ledger"
      <4> DEFINE mid == [volume EXCEPT !.marker = FALSE]
      <4>1. /\ mid \in Credential!Volumes /\ ~mid.marker /\ mid.saved = volume.saved
            /\ mid.other = volume.other
        BY <1>1 DEF Credential!Volumes
      <4>2. volume' = [mid EXCEPT !.pending = {}]
        BY <1>2, <3>1 DEF Credential!HelperCloses
      <4> HIDE DEF mid
      <4> QED BY <3>1, <4>1, <4>2 DEF Credential!Volumes
    <3>2. CASE kind # "ledger"
      BY <1>1, <1>2, <3>2 DEF Credential!HelperCloses
    <3> QED BY <3>1, <3>2
  <2>3. Credential!AllAre("new")'
    BY <1>1, <2>2 DEF Credential!AllAre, Credential!Parts
  <2>4. HelperWorks
    BY <1>1, <2>2, <2>3, SameKind DEF HelperWorks, NothingPending
  <2>5. Finished'
    BY <1>1, <1>2, <2>2, <2>3
    DEF Finished, Credential!LedgerCloses, Credential!WeixinCloses, Credential!ModelCloses,
        Credential!WeixinOthersKept, Credential!OthersKept
  <2> QED BY <2>1, <2>4, <2>5, HelperGoesOn
<1>3. CASE ~closes
  <2>1. UNCHANGED volume /\ Credential!Ends("failed")
    BY <1>3 DEF Credential!HelperCloses
  <2> QED BY <1>1, <2>1, LooksOnly, HelperEnds
<1> QED BY <1>2, <1>3

LEMMA HelperReportsStep ==
    ASSUME CredentialInv, Credential!HelperReports
    PROVE  CredentialInv'
<1>1. HelperWorks /\ Finished' = Finished
  BY LooksOnly DEF CredentialInv, TokensAreGuarded, Credential!HelperReports, Credential!NoHelper,
                   Credential!CredentialTypeOK
<1>2. helper.waited => Finished
  BY DEF CredentialInv, ReportsAreTrue, Credential!HelperReports
<1> QED BY <1>1, <1>2, HelperEnds DEF Credential!HelperReports

\* It fails or is killed; only files of one credential are touched.
LEMMA HelperFails ==
    ASSUME CredentialInv, Credential!HelperErrs \/ Credential!HelperKilled
    PROVE  CredentialInv'
<1> USE DEF CredentialInv, TokensAreGuarded
<1>1. /\ helper # Credential!NoHelper /\ UNCHANGED <<kind, desk, held, services>>
      /\ Credential!Ends("failed") /\ Credential!Fault
  BY DEF Credential!HelperErrs, Credential!HelperKilled, Credential!NoHelper
<1>2. cfaults' \in 0 .. CredentialFaults
  BY <1>1, LoopsAssumption DEF Credential!Fault, Credential!CredentialTypeOK
<1>3. \/ UNCHANGED volume
      \/ /\ kind # "ledger"
         /\ \E left \in SUBSET (Credential!Parts \cup {"stray"}) :
              volume' = [volume EXCEPT !.pending = left] /\ (volume.pending = {} => left = {})
  <2>1. /\ volume.pending \ Credential!Parts \in SUBSET (Credential!Parts \cup {"stray"})
        /\ {"stray"} \in SUBSET (Credential!Parts \cup {"stray"})
    BY DEF Credential!CredentialTypeOK, Credential!Volumes
  <2>2. CASE kind = "ledger"
    BY <2>2 DEF Credential!HelperErrs, Credential!HelperKilled, Credential!Cleaned
  <2>3. CASE kind # "ledger" /\ Credential!HelperErrs
    BY <2>1, <2>3 DEF Credential!HelperErrs, Credential!Cleaned
  <2>4. CASE kind # "ledger" /\ Credential!HelperKilled
    BY <2>1, <2>4 DEF Credential!HelperKilled
  <2> QED BY <2>2, <2>3, <2>4
<1>4. CASE UNCHANGED volume
  BY <1>1, <1>2, <1>4, LooksOnly, HelperEnds
<1>5. CASE ~UNCHANGED volume
  <2>1. /\ kind # "ledger" /\ volume' \in Credential!Volumes /\ volume'.marker = volume.marker
        /\ volume.pending = {} => volume'.pending = {}
    BY <1>3, <1>5 DEF Credential!CredentialTypeOK, Credential!Volumes
  <2>2. HelperWorks
    BY <1>1, <1>2, <2>1 DEF HelperWorks, Credential!CredentialTypeOK, NothingPending
  <2> QED BY <1>1, <2>2, HelperEnds
<1> QED BY <1>4, <1>5

\* The command no longer waits for a helper that works on.
LEMMA ClientStep ==
    ASSUME CredentialInv, Credential!ClientTimesOut
    PROVE  CredentialInv'
<1> USE DEF CredentialInv, TokensAreGuarded
<1>1. UNCHANGED <<kind, volume, desk, held, services>> /\ helper.waited /\ command.at = "running"
  BY DEF Credential!ClientTimesOut, Credential!CredentialTypeOK
<1>2. /\ helper' \in HelperTypes /\ helper'.at = helper.at /\ helper'.mode = helper.mode
      /\ helper'.waited = FALSE
      /\ command' \in CommandTypes /\ command'.at = "failed" /\ command'.act = command.act
  BY DEF Credential!ClientTimesOut, Credential!CredentialTypeOK, HelperTypes, CommandTypes
<1>3. cfaults' \in 0 .. CredentialFaults
  BY LoopsAssumption DEF Credential!ClientTimesOut, Credential!Fault, Credential!CredentialTypeOK
<1>4. Credential!CredentialTypeOK'
  BY <1>1, <1>2, <1>3, SameKind
  DEF HelperTypes, CommandTypes, Credential!CredentialTypeOK, Credential!NoAttempt
<1>5. Credential!CredentialsAreGuarded' /\ NothingPending'
  BY <1>1, CommandKeeps DEF Credential!CredentialTypeOK
<1> QED BY <1>1, <1>2, <1>4, <1>5
    DEF LedgerWritersAreMarked, BegunIsRecorded, CommandsRunAlone, SavedMeansNoHelper,
        ReportsAreTrue, Credential!NoAttempt, Credential!NoHelper

-----------------------------------------------------------------------------
(* Steps of the services.                                                   *)

\* They change when no command runs, or come up when one does not.
LEMMA ServiceSteps ==
    ASSUME CredentialInv,
           \/ Credential!LeaveMaintenance \/ Credential!EnterMaintenance
           \/ Credential!GatewayStarts \/ Credential!GatewayKilled \/ Credential!GatewayWrites
    PROVE  CredentialInv'
<1> USE DEF CredentialInv, TokensAreGuarded
<1>1. UNCHANGED <<kind, held, command, helper, cfaults>> /\ command = Credential!NoAttempt
      /\ services' \in {"off", "starting", "up"}
  BY DEF Credential!LeaveMaintenance, Credential!EnterMaintenance, Credential!GatewayStarts,
         Credential!GatewayKilled, Credential!GatewayWrites, Credential!CredentialTypeOK,
         CommandsRunAlone
<1>2. /\ volume' \in Credential!Volumes /\ volume'.saved = volume.saved
      /\ volume'.marker = volume.marker /\ volume'.pending = volume.pending
  <2>1. \/ UNCHANGED volume
        \/ volume' = [volume EXCEPT !.other = @ + 1] /\ volume.other < MaxEpochs
    BY DEF Credential!LeaveMaintenance, Credential!EnterMaintenance, Credential!GatewayStarts,
           Credential!GatewayKilled, Credential!GatewayWrites
  <2>2. CASE UNCHANGED volume
    BY <2>2 DEF Credential!CredentialTypeOK
  <2>3. CASE volume' = [volume EXCEPT !.other = @ + 1] /\ volume.other < MaxEpochs
    <3>1. volume.other + 1 \in 0 .. MaxEpochs /\ volume \in Credential!Volumes
      BY <2>3, LoopsAssumption DEF Credential!CredentialTypeOK, Credential!Volumes
    <3> QED BY <2>3, <3>1 DEF Credential!Volumes
  <2> QED BY <2>1, <2>2, <2>3
<1>3. desk' \in Credential!Desks /\ desk'.review = desk.review /\ desk'.started = desk.started
  <2>1. UNCHANGED desk \/ desk' = [desk EXCEPT !.epoch = @ + 1]
    BY DEF Credential!LeaveMaintenance, Credential!EnterMaintenance, Credential!GatewayStarts,
           Credential!GatewayKilled, Credential!GatewayWrites
  <2> QED BY <2>1 DEF Credential!CredentialTypeOK, Credential!Desks
<1>4. Credential!CredentialTypeOK'
  BY <1>1, <1>2, <1>3, SameKind DEF Credential!CredentialTypeOK, Credential!NoAttempt
<1>5. Credential!CredentialsAreGuarded'
  BY <1>1, <1>2, <1>3 DEF Credential!CredentialsAreGuarded, Credential!AllAre, Credential!Parts
<1> QED BY <1>1, <1>2, <1>3, <1>4, <1>5
    DEF LedgerWritersAreMarked, BegunIsRecorded, NothingPending, CommandsRunAlone,
        SavedMeansNoHelper, ReportsAreTrue, Credential!NoAttempt, Credential!NoHelper,
        Credential!CredentialTypeOK

-----------------------------------------------------------------------------
(* The theorems.                                                            *)

LEMMA CredentialStep ==
    ASSUME CredentialInv, [Credential!CredentialNext]_cvars
    PROVE  CredentialInv'
<1>1. CASE UNCHANGED cvars
  <2>1. desk \in Credential!Desks /\ cfaults \in 0 .. CredentialFaults
    BY DEF CredentialInv, TokensAreGuarded, Credential!CredentialTypeOK
  <2> QED BY <1>1, <2>1, DeskSteps DEF cvars, CredentialInv, NothingPending
<1>2. CASE Credential!CommandSteps
  BY <1>2, SaveStartedStep, RunHelperStep, CommandEnds DEF Credential!CommandSteps
<1>3. CASE Credential!HelperSteps
  BY <1>3, HelperChecksStep, HelperWritesSteps, HelperClosesStep, HelperReportsStep
  DEF Credential!HelperSteps
<1> QED BY <1>1, <1>2, <1>3, PrepareStep, ApproveSteps, BeginStep, CommandEnds, LockRemovedStep,
           HelperFails, ClientStep, ServiceSteps
    DEF Credential!CredentialNext

LEMMA CredentialPlays == [MCNext]_all => [Credential!CredentialNext]_cvars
BY DEF MCNext, all

LEMMA CredentialStarts ==
    ASSUME MCInit
    PROVE  CredentialInv
<1>1. Credential!CredentialInit
  BY DEF MCInit
<1> USE <1>1 DEF Credential!CredentialInit
<1>2. /\ volume \in Credential!Volumes /\ ~volume.marker /\ volume.pending = {}
      /\ Credential!AllAre("old")
  BY LoopsAssumption DEF Credential!Volumes, Credential!AllAre
<1>3. desk \in Credential!Desks /\ desk.review = None
  BY DEF Credential!Desks
<1>4. Credential!CredentialTypeOK
  BY <1>2, <1>3, LoopsAssumption
  DEF Credential!CredentialTypeOK, Credential!NoAttempt, Credential!NoHelper
<1> QED BY <1>2, <1>3, <1>4
    DEF CredentialInv, TokensAreGuarded, Credential!CredentialsAreGuarded, LedgerWritersAreMarked,
        BegunIsRecorded, NothingPending, CommandsRunAlone, SavedMeansNoHelper, ReportsAreTrue,
        Credential!NoAttempt, Credential!NoHelper

(* What holds at every moment of a replacement, above all: a rotation writes *)
(* under its marker, what a helper touches was recorded as begun before, and *)
(* a command that saves has a helper's word that is still true.             *)
THEOREM CredentialInvariance == MCSpec => []CredentialInv
BY CredentialStarts, CredentialStep, CredentialPlays, PTL DEF MCSpec

(* The ledger's tokens are of one pair or marked, and what can be finished   *)
(* later is on record, wherever command, helper, client or machine stop.    *)
THEOREM TokensStayGuarded == MCSpec => []TokensAreGuarded
BY CredentialInvariance, PTL DEF CredentialInv

\* A gateway that comes up finds one pair, or one credential.
LEMMA StartsOnOnePair ==
    ASSUME CredentialInv, Credential!CredentialNext, services # "up", services' = "up"
    PROVE  Credential!AllAre("old") \/ Credential!AllAre("new")
<1>1. Credential!GatewayStarts
  BY DEF Credential!CredentialNext, Credential!Prepare, Credential!LedgerPrepares,
         Credential!WeixinPrepares, Credential!TunnelPrepares, Credential!ModelPrepares,
         Credential!Drafted, Credential!Approve, Credential!ReviewExpires, Credential!BeginApply,
         Credential!BeginResume, Credential!BeginApplyLedger, Credential!BeginApplySingle,
         Credential!BeginApplyModel, Credential!BeginResumeLedger, Credential!BeginResumeSingle,
         Credential!Begun, Credential!CommandSteps, Credential!SaveStarted, Credential!RunHelper,
         Credential!SaveReceipt, Credential!CommandStops, Credential!CommandKilled,
         Credential!LockRemovedByHand, Credential!HelperSteps, Credential!HelperChecks,
         Credential!HelperMarks, Credential!HelperWrites, Credential!HelperReplaces,
         Credential!HelperCloses, Credential!HelperReports, Credential!HelperErrs,
         Credential!HelperKilled, Credential!ClientTimesOut, Credential!LeaveMaintenance,
         Credential!EnterMaintenance, Credential!GatewayStarts, Credential!GatewayKilled,
         Credential!GatewayWrites
<1>2. Credential!RotationComplete
  BY <1>1 DEF Credential!GatewayStarts, Credential!EntryPointAllows
<1>3. CASE kind = "ledger"
  BY <1>2, <1>3 DEF CredentialInv, TokensAreGuarded, Credential!CredentialsAreGuarded,
                    Credential!RotationComplete
<1>4. CASE kind # "ledger"
  BY <1>4 DEF CredentialInv, TokensAreGuarded, Credential!CredentialTypeOK, Credential!Volumes,
              Credential!AllAre, Credential!Parts
<1> QED BY <1>3, <1>4

\* Only a command that saves adds to the records of what is done.
LEMMA OnlySavingRecords ==
    ASSUME CredentialInv, Credential!CredentialNext, desk'.receipts # desk.receipts
    PROVE  Credential!SaveReceipt
<1>1. desk \in Credential!Desks
  BY DEF CredentialInv, TokensAreGuarded, Credential!CredentialTypeOK
<1>2. ~(Credential!Prepare \/ Credential!Approve \/ Credential!ReviewExpires)
  BY <1>1 DEF Credential!Prepare, Credential!LedgerPrepares, Credential!WeixinPrepares,
              Credential!TunnelPrepares, Credential!ModelPrepares, Credential!Drafted,
              Credential!Approve, Credential!ReviewExpires, Credential!Desks
<1>3. ~(Credential!BeginApply \/ Credential!BeginResume \/ Credential!SaveStarted
          \/ Credential!EnterMaintenance)
  BY <1>1 DEF Credential!BeginApply, Credential!BeginResume, Credential!BeginApplyLedger,
              Credential!BeginApplySingle, Credential!BeginApplyModel, Credential!BeginResumeLedger,
              Credential!BeginResumeSingle, Credential!Begun, Credential!SaveStarted,
              Credential!EnterMaintenance, Credential!Desks
<1>4. ~(Credential!CommandStops \/ Credential!LockRemovedByHand)
  BY ReleasedKeeps DEF Credential!CommandStops, Credential!LockRemovedByHand
<1>5. ~(\/ Credential!RunHelper \/ Credential!CommandKilled \/ Credential!HelperSteps
        \/ Credential!HelperErrs \/ Credential!HelperKilled \/ Credential!ClientTimesOut
        \/ Credential!LeaveMaintenance \/ Credential!GatewayStarts \/ Credential!GatewayKilled
        \/ Credential!GatewayWrites)
  BY DEF Credential!RunHelper, Credential!CommandKilled, Credential!HelperSteps,
         Credential!HelperChecks, Credential!HelperMarks, Credential!HelperWrites,
         Credential!HelperReplaces, Credential!HelperCloses, Credential!HelperReports,
         Credential!HelperErrs, Credential!HelperKilled, Credential!ClientTimesOut,
         Credential!LeaveMaintenance, Credential!GatewayStarts, Credential!GatewayKilled,
         Credential!GatewayWrites
<1> QED BY <1>2, <1>3, <1>4, <1>5 DEF Credential!CredentialNext, Credential!CommandSteps

\* What is compared before the record is written, with what the helper said.
LEMMA SavedMeansDone ==
    ASSUME CredentialInv, Credential!SaveReceipt
    PROVE  /\ Credential!AllAre("new") /\ ~volume.marker /\ helper = Credential!NoHelper
           /\ volume.pending = desk.review.backup.pending
           /\ volume.other = desk.review.backup.other
<1> USE DEF CredentialInv, TokensAreGuarded
<1>1. /\ command.at = "saved" /\ Credential!MaySave /\ Finished /\ helper = Credential!NoHelper
      /\ desk.review # None /\ kind \in {"ledger", "weixin", "tunnel", "model"}
  BY DEF Credential!SaveReceipt, ReportsAreTrue, SavedMeansNoHelper, CommandsRunAlone,
         Credential!NoAttempt, Credential!CredentialTypeOK, Credential!Kinds
<1>2. CASE kind = "ledger"
  <2>1. volume.other = desk.review.backup.other
    BY <1>1, <1>2 DEF Credential!MaySave, Credential!LedgerMaySave, Credential!AuditedAsBackup,
                      Credential!Audited
  <2>2. volume.pending = {} /\ desk.review.backup.pending = {}
    BY <1>1, <1>2 DEF Finished, Credential!CredentialsAreGuarded, NothingPending
  <2> QED BY <1>1, <2>1, <2>2 DEF Finished
<1>3. CASE kind = "weixin"
  BY <1>1, <1>3 DEF Finished, Credential!WeixinOthersKept, Credential!OthersKept
<1>4. CASE kind = "tunnel"
  <2>1. <<volume.other, volume.pending>> = <<desk.review.backup.other, desk.review.backup.pending>>
    BY <1>1, <1>4 DEF Credential!MaySave, Credential!SingleMaySave, Credential!SingleReviewHolds,
                      Credential!AuditedAsBackup, Credential!Audited
  <2> QED BY <1>1, <2>1 DEF Finished
<1>5. CASE kind = "model"
  BY <1>1, <1>5 DEF Finished, Credential!OthersKept, NothingPending
<1> QED BY <1>1, <1>2, <1>3, <1>4, <1>5

(* A gateway comes up on one pair of tokens only, and a record that says     *)
(* "saved" is written only of new credentials next to the unrelated state   *)
(* of the reviewed backup, when no helper is left that could write on.      *)
THEOREM RecordsStayTrue == MCSpec => RecordsAreTrue
<1> DEFINE A == /\ services # "up" /\ services' = "up" => Credential!AllAre("old") \/ Credential!AllAre("new")
                /\ desk'.receipts # desk.receipts =>
                     /\ Credential!AllAre("new") /\ ~volume.marker /\ helper = Credential!NoHelper
                     /\ volume.pending = desk.review.backup.pending
                     /\ volume.other = desk.review.backup.other
<1>1. CredentialInv /\ [MCNext]_all => [A]_cvars
  <2> SUFFICES ASSUME CredentialInv, Credential!CredentialNext PROVE A
    BY CredentialPlays
  <2> QED BY StartsOnOnePair, OnlySavingRecords, SavedMeansDone
<1> QED BY <1>1, CredentialInvariance, PTL
    DEF MCSpec, RecordsAreTrue, Credential!CredentialRecordsAreTrue, Credential!credentialVars, cvars
=============================================================================
