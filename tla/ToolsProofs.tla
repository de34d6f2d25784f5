---------------------------- MODULE ToolsProofs ----------------------------
(***************************************************************************)
(* Proofs about what MCTools checks.                                       *)
(*                                                                         *)
(* RunBinding, for any number of instances, messages, runs, calls and tool  *)
(* call ids, and for all ages: type correctness; that a run writes nothing  *)
(* after its end; and that, while the host keeps its order, an execution    *)
(* acts on a message that its own run may mean (MayMean), texts of the      *)
(* prompt being all that tells messages apart.  The argument follows the     *)
(* bindings.                                                               *)
(* Whatever ties a run to a message - a row of the queue, an entry of a     *)
(* map, a slot, a call - was made for that run, before it ended (Fits).  So *)
(* the end of a run is at least as old as the tombstone, and what is older  *)
(* than the tombstone is too old to be used; and a binding that can be used *)
(* is one of the run that is under way.                                     *)
(***************************************************************************)
EXTENDS MCTools, TLAPS

\* Run r may be tied to the message of b.
Fits(r, b) ==
    /\ b \in Binding /\ b.at \in 1 .. now
    /\ tomb[r] # 0 => b.at + EndTtl <= tomb[r]
    /\ MayMean(MsgOf[r], b.msg)
    /\ cast = "abort" => b.at = 1 /\ b.msg = m1

\* Time goes on, tombstones are of the past, and only what the scene delivers
\* was received.
ClockInv ==
    /\ cast \in {"overlap", "serial", "abort", "questions", "numbers"}
    /\ now \in 1 .. MaxTime
    /\ received \in [Message -> 0 .. MaxReceived]
    /\ tomb \in [Run -> Nat]
    /\ \A r \in Run : tomb[r] # 0 => tomb[r] >= 1 + EndTtl /\ tomb[r] <= now + EndTtl
    /\ \A r \in Run : tomb[r] # 0 => received[MsgOf[r]] > 0
    /\ cast = "overlap" => now = 1
    /\ cast = "abort" => \A m \in Message : received[m] > 0 => m = m1
    /\ cast = "serial" => \A r, o \in Run :
          received[MsgOf[r]] > 0 /\ received[MsgOf[o]] > 0 /\ tomb[r] = 0 /\ tomb[o] = 0
            => MsgOf[r] = MsgOf[o]

\* A row is of a message that was received; what ties it to a run fits; and a
\* row for an execution lives no longer than its run's tombstone.
RowFits(row) ==
    /\ row \in Row /\ row.inbound.at \in 1 .. now
    /\ cast = "abort" => row.inbound.at = 1 /\ row.inbound.msg = m1
    /\ \A r \in Run : row.key[1] = "corr" /\ row.key[2] = r => Fits(r, row.inbound)
    /\ row.key[1] = "bridge" =>
          /\ row.author \in Run /\ Fits(row.author, row.inbound)
          /\ received[MsgOf[row.author]] > 0
          /\ row.expires <= now + PromptAge
          /\ tomb[row.author] # 0 /\ cast # "abort" => row.expires + EndTtl <= tomb[row.author] + PromptAge
QueueInv ==
    /\ \A n \in DOMAIN pending : RowFits(pending[n])
    /\ claimed \subseteq Key
    /\ runKeys \subseteq Run \X Message /\ \A x \in runKeys : x[2] = MsgOf[x[1]]

MapsInv ==
    /\ prepared \in [Instance -> SUBSET Run]
    /\ {inboundByRun, unverified} \subseteq [Instance -> [Run -> Binding \cup {None}]]
    /\ cached \in [Instance -> [Run -> 0 .. MaxTime \cup {None}]]
    /\ \A i \in Instance, r \in Run :
          /\ inboundByRun[i][r] # None => Fits(r, inboundByRun[i][r])
          /\ unverified[i][r] # None => Fits(r, unverified[i][r])

\* A slot was made by its run, and is not touched after the run's end unless it
\* is ambiguous.
SlotFits(s) ==
    /\ s \in Slot /\ s.touched \in 1 .. now /\ received[MsgOf[s.run]] > 0
    /\ s.inbound # None => Fits(s.run, s.inbound)
    /\ ~s.ambiguous /\ tomb[s.run] # 0 /\ cast # "abort" => s.touched + EndTtl <= tomb[s.run]
SlotsInv ==
    /\ slots \in [Instance -> [Id -> Slot \cup {None}]]
    /\ \A i \in Instance, d \in Id : slots[i][d] # None => SlotFits(slots[i][d])
    /\ cast = "overlap" => \A i \in Others, d \in Id : slots[i][d] = None

CallInv(k) ==
    /\ call[k] \in [stage : {"idle", "hooked", "bound", "written", "answered", "refused"},
                    inst : Instance \cup {None}, id : Id \cup {None}, run : Run \cup {None},
                    inbound : Binding \cup {None}]
    /\ call[k].stage = "hooked" =>
          /\ received[MsgOf[RunOf[k]]] > 0
          /\ cast # "abort" => tomb[RunOf[k]] = 0
          /\ cast = "overlap" =>
                /\ slots[inst1][IdOf[k]] # None
                /\ slots[inst1][IdOf[k]].run = RunOf[k] \/ slots[inst1][IdOf[k]].ambiguous
    /\ call[k].stage = "bound" =>
          /\ call[k].inst \in Instance /\ call[k].id \in Id /\ call[k].run \in Run
          /\ Fits(call[k].run, call[k].inbound)
          /\ MayMean(MsgOf[RunOf[k]], call[k].inbound.msg)
CallsInv == DOMAIN call = Call /\ \A k \in Call : CallInv(k)

RunsInv == ClockInv /\ QueueInv /\ MapsInv /\ SlotsInv /\ CallsInv

-----------------------------------------------------------------------------
(* The queue.                                                               *)

LEMMA LiveRows ==
    ASSUME NEW q, NEW n \in DOMAIN Live(q)
    PROVE  n \in DOMAIN q /\ Live(q)[n] = q[n] /\ q[n].expires >= now
BY DEF Live, Restrict

LEMMA RowsWithout ==
    ASSUME NEW q, NEW x, NEW n \in DOMAIN Without(q, x)
    PROVE  n \in DOMAIN q /\ Without(q, x)[n] = q[n]
BY DEF Without, Restrict

LEMMA RowsEnqueued ==
    ASSUME NEW q, NEW row, NEW n \in DOMAIN Enqueued(q, row)
    PROVE  Enqueued(q, row)[n] = row \/ (n \in DOMAIN q /\ Enqueued(q, row)[n] = q[n])
<1> HIDE DEF Newest
<1> QED BY DEF Enqueued

LEMMA OldestIsFound == ASSUME NEW found, Oldest(found) # 0 PROVE Oldest(found) \in found
BY DEF Oldest

LEMMA TheOnlyIsFound == ASSUME NEW found, TheOnly(found) # 0 PROVE TheOnly(found) \in found
BY DEF TheOnly

-----------------------------------------------------------------------------
(* What was made before a step still fits after it.                         *)

\* No time passes, no run ends, nothing arrives.
Still == UNCHANGED <<now, tomb, received, cast>>

\* Time passes, or one of the runs ends, or a message arrives.
Going ==
    /\ cast' = cast /\ now' \in 1 .. MaxTime /\ now <= now'
    /\ \A r \in Run : tomb'[r] = tomb[r] \/ (tomb[r] = 0 /\ tomb'[r] = now + EndTtl)
    /\ \A m \in Message : received[m] > 0 => received'[m] > 0

LEMMA StillGoing ==
    ASSUME ClockInv, Still
    PROVE  Going /\ ClockInv'
<1>1. Going
  BY DEF ClockInv, Still, Going
<1>2. ClockInv'
  BY DEF ClockInv, Still
<1> QED BY <1>1, <1>2

LEMMA FitsStays ==
    ASSUME ClockInv, Going, NEW r \in Run, NEW b, Fits(r, b)
    PROVE  Fits(r, b)'
<1> USE AgesAssumption DEF AgesAssumption
<1>1. b \in Binding /\ b.at \in 1 .. now /\ b.at \in Nat /\ now \in Nat /\ now' \in Nat /\ now <= now'
  BY DEF Fits, ClockInv, Going
<1>2. b.at \in 1 .. now'
  BY ONLY <1>1
<1>3. tomb'[r] # 0 => b.at + EndTtl <= tomb'[r]
  BY <1>1 DEF Fits, Going
<1> QED BY <1>1, <1>2, <1>3 DEF Fits, Going

LEMMA RowsStay ==
    ASSUME ClockInv, Going, NEW row, RowFits(row)
    PROVE  RowFits(row)'
<1> USE AgesAssumption DEF AgesAssumption
<1>1. row \in Row /\ row.inbound.at \in 1 .. now /\ row.inbound.at \in 1 .. now'
      /\ (cast' = "abort" => row.inbound.at = 1 /\ row.inbound.msg = m1)
  BY DEF RowFits, ClockInv, Going
<1>2. ASSUME NEW r \in Run, row.key[1] = "corr" /\ row.key[2] = r PROVE Fits(r, row.inbound)'
  BY <1>2, FitsStays DEF RowFits
<1>3. ASSUME row.key[1] = "bridge"
      PROVE  /\ row.author \in Run /\ Fits(row.author, row.inbound)'
             /\ received'[MsgOf[row.author]] > 0
             /\ row.expires <= now' + PromptAge
             /\ tomb'[row.author] # 0 /\ cast' # "abort" => row.expires + EndTtl <= tomb'[row.author] + PromptAge
  <2>1. row.author \in Run /\ Fits(row.author, row.inbound) /\ received[MsgOf[row.author]] > 0
        /\ row.expires <= now + PromptAge
        /\ (tomb[row.author] # 0 /\ cast # "abort" => row.expires + EndTtl <= tomb[row.author] + PromptAge)
    BY <1>3 DEF RowFits
  <2>2. Fits(row.author, row.inbound)' /\ received'[MsgOf[row.author]] > 0
    BY <2>1, FitsStays, HostAssumption DEF Going, HostAssumption
  <2>3. row.expires \in Nat /\ now \in Nat /\ now' \in Nat /\ now <= now'
    BY <1>1 DEF Row, Going, ClockInv
  <2>4. row.expires <= now' + PromptAge
    BY <2>1, <2>3
  <2>5. tomb'[row.author] # 0 /\ cast' # "abort" => row.expires + EndTtl <= tomb'[row.author] + PromptAge
    BY <2>1, <2>3 DEF Going
  <2> QED BY <2>1, <2>2, <2>4, <2>5
<1> QED BY <1>1, <1>2, <1>3 DEF RowFits

\* The queue changes by rows that are removed and one that fits.
LEMMA QueueStays ==
    ASSUME ClockInv, QueueInv, Going, NEW row, RowFits(row)',
           \A n \in DOMAIN pending' : pending'[n] = row \/ (n \in DOMAIN pending /\ pending'[n] = pending[n])
    PROVE  \A n \in DOMAIN pending' : RowFits(pending[n])'
<1>1. SUFFICES ASSUME NEW n \in DOMAIN pending' PROVE RowFits(pending[n])'
  OBVIOUS
<1>2. PICK x : x = pending'[n]
  OBVIOUS
<1>3. RowFits(x)'
  <2>1. CASE x = row
    BY <2>1
  <2>2. CASE n \in DOMAIN pending /\ x = pending[n]
    <3>1. RowFits(x)
      BY <2>2 DEF QueueInv
    <3> QED BY <3>1, RowsStay
  <2> QED BY <1>2, <2>1, <2>2
<1> QED BY <1>2, <1>3

LEMMA QueueShrinks ==
    ASSUME ClockInv, QueueInv, Going,
           \A n \in DOMAIN pending' : n \in DOMAIN pending /\ pending'[n] = pending[n]
    PROVE  \A n \in DOMAIN pending' : RowFits(pending[n])'
<1>1. SUFFICES ASSUME NEW n \in DOMAIN pending' PROVE RowFits(pending[n])'
  OBVIOUS
<1>2. PICK x : x = pending'[n]
  OBVIOUS
<1>3. RowFits(x)
  BY <1>2 DEF QueueInv
<1>4. RowFits(x)'
  BY <1>3, RowsStay
<1> QED BY <1>2, <1>4

-----------------------------------------------------------------------------
(* The maps, the slots and the calls.                                       *)

\* A map gets at most one entry, for run r.
LEMMA InboundStays ==
    ASSUME ClockInv, MapsInv, Going, NEW r \in Run, NEW b, Fits(r, b)',
           \A i \in Instance, o \in Run : \/ inboundByRun'[i][o] \in {None, inboundByRun[i][o]}
                                          \/ o = r /\ inboundByRun'[i][o] = b
    PROVE  \A i \in Instance, o \in Run : inboundByRun'[i][o] # None => Fits(o, inboundByRun[i][o])'
<1>1. SUFFICES ASSUME NEW i \in Instance, NEW o \in Run, inboundByRun'[i][o] # None
               PROVE  Fits(o, inboundByRun[i][o])'
  OBVIOUS
<1>2. PICK x : x = inboundByRun'[i][o]
  OBVIOUS
<1>3. Fits(o, x)'
  <2>1. CASE x = inboundByRun[i][o]
    <3>1. Fits(o, x) BY <1>1, <1>2, <2>1 DEF MapsInv
    <3> QED BY <3>1, FitsStays
  <2>2. CASE o = r /\ x = b
    BY <2>2
  <2> QED BY <1>1, <1>2, <2>1, <2>2
<1> QED BY <1>2, <1>3

LEMMA UnverifiedStays ==
    ASSUME ClockInv, MapsInv, Going, NEW r \in Run, NEW b, Fits(r, b)',
           \A i \in Instance, o \in Run : \/ unverified'[i][o] \in {None, unverified[i][o]}
                                          \/ o = r /\ unverified'[i][o] = b
    PROVE  \A i \in Instance, o \in Run : unverified'[i][o] # None => Fits(o, unverified[i][o])'
<1>1. SUFFICES ASSUME NEW i \in Instance, NEW o \in Run, unverified'[i][o] # None
               PROVE  Fits(o, unverified[i][o])'
  OBVIOUS
<1>2. PICK x : x = unverified'[i][o]
  OBVIOUS
<1>3. Fits(o, x)'
  <2>1. CASE x = unverified[i][o]
    <3>1. Fits(o, x) BY <1>1, <1>2, <2>1 DEF MapsInv
    <3> QED BY <3>1, FitsStays
  <2>2. CASE o = r /\ x = b
    BY <2>2
  <2> QED BY <1>1, <1>2, <2>1, <2>2
<1> QED BY <1>2, <1>3

\* Entries go, or stay.
LEMMA MapsShrink ==
    ASSUME ClockInv, MapsInv, Going,
           \A i \in Instance, o \in Run : /\ inboundByRun'[i][o] \in {None, inboundByRun[i][o]}
                                          /\ unverified'[i][o] \in {None, unverified[i][o]}
    PROVE  \A i \in Instance, o \in Run : /\ inboundByRun'[i][o] # None => Fits(o, inboundByRun[i][o])'
                                          /\ unverified'[i][o] # None => Fits(o, unverified[i][o])'
<1>1. SUFFICES ASSUME NEW i \in Instance, NEW o \in Run
               PROVE  /\ inboundByRun'[i][o] # None => Fits(o, inboundByRun[i][o])'
                      /\ unverified'[i][o] # None => Fits(o, unverified[i][o])'
  OBVIOUS
<1>2. PICK x : x = inboundByRun'[i][o]
  OBVIOUS
<1>3. PICK y : y = unverified'[i][o]
  OBVIOUS
<1>4. (x # None => Fits(o, x)) /\ (y # None => Fits(o, y))
  BY <1>2, <1>3 DEF MapsInv
<1>5. (x # None => Fits(o, x)') /\ (y # None => Fits(o, y)')
  BY <1>4, FitsStays
<1> QED BY <1>2, <1>3, <1>5

LEMMA SlotStays ==
    ASSUME ClockInv, Going, NEW s, SlotFits(s)
    PROVE  SlotFits(s)'
<1> USE AgesAssumption DEF AgesAssumption
<1>1. s \in Slot /\ s.run \in Run /\ s.touched \in 1 .. now /\ received[MsgOf[s.run]] > 0
  BY DEF SlotFits, Slot
<1>2. s.inbound # None => Fits(s.run, s.inbound)'
  BY <1>1, FitsStays DEF SlotFits
<1>3. s.touched \in Nat /\ now \in Nat /\ now' \in Nat /\ now <= now' /\ s.touched \in 1 .. now'
  BY <1>1 DEF Going, ClockInv
<1>4. ~s.ambiguous /\ tomb'[s.run] # 0 /\ cast' # "abort" => s.touched + EndTtl <= tomb'[s.run]
  BY <1>1, <1>3 DEF SlotFits, Going
<1>5. received'[MsgOf[s.run]] > 0
  BY <1>1, HostAssumption DEF Going, HostAssumption
<1> QED BY <1>1, <1>2, <1>3, <1>4, <1>5 DEF SlotFits

\* Slots go, stay, or become one that fits.
LEMMA SlotsStay ==
    ASSUME ClockInv, SlotsInv, Going, NEW s, SlotFits(s)',
           \A i \in Instance, d \in Id : slots'[i][d] \in {None, slots[i][d], s}
    PROVE  \A i \in Instance, d \in Id : slots'[i][d] # None => SlotFits(slots[i][d])'
<1>1. SUFFICES ASSUME NEW i \in Instance, NEW d \in Id, slots'[i][d] # None
               PROVE  SlotFits(slots[i][d])'
  OBVIOUS
<1>2. PICK x : x = slots'[i][d]
  OBVIOUS
<1>3. SlotFits(x)'
  <2>1. CASE x = s
    BY <2>1
  <2>2. CASE x = slots[i][d]
    <3>1. SlotFits(x) BY <1>1, <1>2, <2>2 DEF SlotsInv
    <3> QED BY <3>1, SlotStays
  <2> QED BY <1>1, <1>2, <2>1, <2>2
<1> QED BY <1>2, <1>3

LEMMA SlotsShrink ==
    ASSUME ClockInv, SlotsInv, Going,
           \A i \in Instance, d \in Id : slots'[i][d] \in {None, slots[i][d]}
    PROVE  \A i \in Instance, d \in Id : slots'[i][d] # None => SlotFits(slots[i][d])'
<1>1. SUFFICES ASSUME NEW i \in Instance, NEW d \in Id, slots'[i][d] # None
               PROVE  SlotFits(slots[i][d])'
  OBVIOUS
<1>2. PICK x : x = slots'[i][d]
  OBVIOUS
<1>3. SlotFits(x)
  BY <1>1, <1>2 DEF SlotsInv
<1>4. SlotFits(x)'
  BY <1>3, SlotStays
<1> QED BY <1>2, <1>4

\* A call that waits goes on waiting.  In "overlap" its slot stays that of its
\* run, or becomes ambiguous.
SlotsKeepTheirRun ==
    cast = "overlap" => \A d \in Id : slots[inst1][d] # None =>
        /\ slots'[inst1][d] # None /\ slots'[inst1][d].run = slots[inst1][d].run
        /\ slots[inst1][d].ambiguous => slots'[inst1][d].ambiguous

LEMMA CallStays ==
    ASSUME ClockInv, Going, Allowed, SlotsKeepTheirRun, NEW k \in Call, CallInv(k), call'[k] = call[k]
    PROVE  CallInv(k)'
<1> USE HostAssumption DEF HostAssumption
<1>1. CASE call[k].stage = "hooked"
  <2>1. received'[MsgOf[RunOf[k]]] > 0
    BY <1>1 DEF CallInv, Going
  <2>2. cast' # "abort" => tomb'[RunOf[k]] = 0
    BY <1>1 DEF Allowed, InOrder, Going
  <2>3. cast' = "overlap" => /\ slots'[inst1][IdOf[k]] # None
                             /\ slots'[inst1][IdOf[k]].run = RunOf[k] \/ slots'[inst1][IdOf[k]].ambiguous
    BY <1>1 DEF CallInv, Going, SlotsKeepTheirRun
  <2> QED BY <1>1, <2>1, <2>2, <2>3 DEF CallInv
<1>2. CASE call[k].stage = "bound"
  <2>1. PICK r, b : r \in Run /\ r = call[k].run /\ b = call[k].inbound /\ Fits(r, b)
    BY <1>2 DEF CallInv
  <2>2. Fits(r, b)'
    BY <2>1, FitsStays
  <2>3. Fits(call[k].run, call[k].inbound)'
    <3>1. r = call'[k].run /\ b = call'[k].inbound BY <2>1
    <3> QED BY <2>2, <3>1
  <2> QED BY <1>2, <2>3 DEF CallInv
<1>3. CASE call[k].stage \notin {"hooked", "bound"}
  BY <1>3 DEF CallInv
<1> QED BY <1>1, <1>2, <1>3

-----------------------------------------------------------------------------
(* Pruning.                                                                 *)

LEMMA PrunedSlot ==
    ASSUME ClockInv, SlotsInv, NEW i \in Instance, NEW d \in Id
    PROVE  /\ PrunedSlots(i)[d] \in {None, slots[i][d]}
           /\ PrunedSlots(i)[d] # None => /\ PrunedSlots(i)[d] = slots[i][d]
                                          /\ SlotFits(PrunedSlots(i)[d])
                                          /\ now - PrunedSlots(i)[d].touched <= MaxAge
           /\ cast = "overlap" => PrunedSlots(i)[d] = slots[i][d]
<1> USE AgesAssumption DEF AgesAssumption
<1>1. PICK s : s = slots[i][d]
  OBVIOUS
<1>2. PrunedSlots(i)[d] = IF s # None /\ now - s.touched > MaxAge THEN None ELSE s
  BY <1>1 DEF PrunedSlots
<1>3. ASSUME s # None PROVE SlotFits(s) /\ s.touched \in 1 .. now /\ now \in Nat
  BY <1>1, <1>3 DEF SlotsInv, SlotFits, ClockInv
<1>4. ASSUME s # None, cast = "overlap" PROVE ~(now - s.touched > MaxAge)
  <2>1. now = 1 /\ s.touched = 1
    BY <1>3, <1>4 DEF ClockInv
  <2> QED BY <2>1
<1>5. s # None /\ ~(now - s.touched > MaxAge) => now - s.touched <= MaxAge
  <2> SUFFICES ASSUME s # None PROVE ~(now - s.touched > MaxAge) => now - s.touched <= MaxAge
    OBVIOUS
  <2>1. s.touched \in Nat /\ now \in Nat BY <1>3
  <2> QED BY <2>1
<1>6. CASE s # None /\ now - s.touched > MaxAge
  BY <1>2, <1>4, <1>6
<1>7. CASE ~(s # None /\ now - s.touched > MaxAge)
  <2>1. PrunedSlots(i)[d] = s
    BY <1>2, <1>7
  <2> QED BY <1>1, <1>3, <1>5, <1>7, <2>1
<1> QED BY <1>6, <1>7

LEMMA PrunedTypes ==
    ASSUME ClockInv, MapsInv, SlotsInv, NEW i \in Instance
    PROVE  /\ PrunedSlots(i) \in [Id -> Slot \cup {None}]
           /\ PrunedCache(i) \in [Run -> 0 .. MaxTime \cup {None}]
<1>1. slots[i] \in [Id -> Slot \cup {None}] /\ cached[i] \in [Run -> 0 .. MaxTime \cup {None}]
  BY DEF SlotsInv, MapsInv
<1>2. PrunedSlots(i) \in [Id -> Slot \cup {None}]
  BY <1>1 DEF PrunedSlots
<1>3. PrunedCache(i) \in [Run -> 0 .. MaxTime \cup {None}]
  BY <1>1 DEF PrunedCache
<1> QED BY <1>2, <1>3

\* A row of the queue becomes a binding of a run that is under way.
LEMMA NewBinding ==
    ASSUME ClockInv, NEW row, RowFits(row), NEW r \in Run,
           MayMean(MsgOf[r], row.inbound.msg), tomb[r] # 0 => cast = "abort"
    PROVE  Fits(r, row.inbound)
<1> USE AgesAssumption DEF AgesAssumption
<1>1. row.inbound \in Binding /\ row.inbound.at \in 1 .. now
  BY DEF RowFits, Row
<1>2. tomb[r] # 0 => row.inbound.at = 1 /\ tomb[r] >= 1 + EndTtl /\ tomb[r] \in Nat
  BY DEF RowFits, ClockInv
<1>3. tomb[r] # 0 => row.inbound.at + EndTtl <= tomb[r]
  BY <1>2
<1> QED BY <1>1, <1>3 DEF Fits, RowFits

-----------------------------------------------------------------------------
(* The calls.                                                               *)

\* One call changes.
LEMMA OneCallMoves ==
    ASSUME ClockInv, CallsInv, Going, Allowed, SlotsKeepTheirRun, NEW k \in Call, NEW x,
           call' = [call EXCEPT ![k] = x], CallInv(k)'
    PROVE  CallsInv'
<1>1. DOMAIN call' = Call
  BY DEF CallsInv
<1>2. ASSUME NEW o \in Call PROVE CallInv(o)'
  <2>1. CASE o = k
    BY <2>1
  <2>2. CASE o # k
    BY <2>2, CallStays DEF CallsInv
  <2> QED BY <2>1, <2>2
<1> QED BY <1>1, <1>2 DEF CallsInv

LEMMA CallsStay ==
    ASSUME ClockInv, CallsInv, Going, Allowed, SlotsKeepTheirRun, call' = call
    PROVE  CallsInv'
BY CallStays DEF CallsInv

\* A call is hooked: its run is under way, its slot is there.
LEMMA HookedCall ==
    ASSUME ClockInv, CallsInv, Going, Allowed, SlotsKeepTheirRun, NEW k \in Call, Hooked(k),
           call[k].stage = "idle", received[MsgOf[RunOf[k]]] > 0,
           cast = "overlap" => /\ slots'[inst1][IdOf[k]] # None
                               /\ slots'[inst1][IdOf[k]].run = RunOf[k] \/ slots'[inst1][IdOf[k]].ambiguous
    PROVE  CallsInv'
<1> USE HostAssumption DEF HostAssumption
<1>1. PICK x : x = [call[k] EXCEPT !.stage = "hooked"]
  OBVIOUS
<1>2. call' = [call EXCEPT ![k] = x]
  BY <1>1 DEF Hooked
<1>3. call'[k] = x /\ DOMAIN call = Call /\ CallInv(k)
  BY <1>2 DEF CallsInv
<1>4. x \in [stage : {"idle", "hooked", "bound", "written", "answered", "refused"},
             inst : Instance \cup {None}, id : Id \cup {None}, run : Run \cup {None},
             inbound : Binding \cup {None}] /\ x.stage = "hooked"
  BY <1>1, <1>3 DEF CallInv
<1>5. received'[MsgOf[RunOf[k]]] > 0
  BY DEF Going
<1>6. cast' # "abort" => tomb'[RunOf[k]] = 0
  BY <1>3, <1>4 DEF Allowed, InOrder, Going
<1>7. CallInv(k)'
  <2>1. cast' = cast BY DEF Going
  <2> QED BY <1>3, <1>4, <1>5, <1>6, <2>1 DEF CallInv
<1> QED BY <1>2, <1>7, OneCallMoves

\* A call is over.
LEMMA CallEnds ==
    ASSUME ClockInv, CallsInv, Going, Allowed, SlotsKeepTheirRun, NEW k \in Call,
           NEW stage \in {"written", "answered", "refused"}, Ends(k, stage)
    PROVE  CallsInv'
<1>1. PICK x : x = [Idle EXCEPT !.stage = stage]
  OBVIOUS
<1>2. call' = [call EXCEPT ![k] = x]
  BY <1>1 DEF Ends
<1>3. call'[k] = x
  BY <1>2 DEF CallsInv
<1>4. x \in [stage : {"idle", "hooked", "bound", "written", "answered", "refused"},
             inst : Instance \cup {None}, id : Id \cup {None}, run : Run \cup {None},
             inbound : Binding \cup {None}] /\ x.stage = stage
  BY <1>1 DEF Idle
<1>5. CallInv(k)'
  BY <1>3, <1>4 DEF CallInv
<1> QED BY <1>2, <1>5, OneCallMoves

\* A call acts on the message of a slot.
LEMMA CallActs ==
    ASSUME ClockInv, CallsInv, Going, Allowed, SlotsKeepTheirRun, NEW k \in Call,
           NEW i \in Instance, NEW d \in Id, NEW s, s.run \in Run, Fits(s.run, s.inbound)',
           MayMean(MsgOf[RunOf[k]], s.inbound.msg), Acts(k, i, d, s)
    PROVE  CallsInv'
<1>r. PICK r \in Run : r = s.run
  OBVIOUS
<1>1. PICK b : r = s.run /\ b = s.inbound
  BY <1>r
<1>2. Fits(r, b)' /\ b \in Binding
  BY <1>1 DEF Fits
<1>3. PICK x : x = [stage |-> "bound", inst |-> i, id |-> d, run |-> r, inbound |-> b]
  OBVIOUS
<1>4. call' = [call EXCEPT ![k] = x]
  BY <1>1, <1>3 DEF Acts
<1>5. call'[k] = x
  BY <1>4 DEF CallsInv
<1>6. x \in [stage : {"idle", "hooked", "bound", "written", "answered", "refused"},
             inst : Instance \cup {None}, id : Id \cup {None}, run : Run \cup {None},
             inbound : Binding \cup {None}]
  BY <1>2, <1>3
<1>7. Fits(call[k].run, call[k].inbound)'
  <2>1. call'[k].run = r /\ call'[k].inbound = b BY <1>3, <1>5
  <2> QED BY <1>2, <2>1
<1>8. CallInv(k)'
  BY <1>1, <1>3, <1>5, <1>6, <1>7 DEF CallInv
<1> QED BY <1>4, <1>8, OneCallMoves

-----------------------------------------------------------------------------
(* The steps.                                                               *)

LEMMA TickStays == ASSUME RunsInv, Allowed, cast' = cast, Tick PROVE RunsInv'
<1> USE AgesAssumption DEF AgesAssumption
<1>0. ClockInv /\ QueueInv /\ MapsInv /\ SlotsInv /\ CallsInv
  BY DEF RunsInv
<1>1. now \in 1 .. MaxTime /\ now' = now + 1 /\ now < MaxTime /\ now' \in 1 .. MaxTime /\ now <= now'
      /\ UNCHANGED <<received, queue, tomb, memory, call>>
  BY <1>0 DEF Tick, ClockInv
<1>2. Going
  BY <1>1 DEF Going
<1>3. ClockInv'
  <2>1. \A r \in Run : tomb'[r] # 0 => tomb'[r] >= 1 + EndTtl /\ tomb'[r] <= now' + EndTtl
    BY <1>0, <1>1 DEF ClockInv
  <2>2. cast' # "overlap"
    BY <1>0, <1>1 DEF Allowed, ClockInv
  <2> QED BY <1>0, <1>1, <2>1, <2>2 DEF ClockInv
<1>4. QueueInv'
  <2>1. \A n \in DOMAIN pending' : RowFits(pending[n])'
    BY <1>0, <1>1, <1>2, QueueShrinks DEF queue
  <2> QED BY <1>0, <1>1, <2>1 DEF QueueInv, queue
<1>5. MapsInv'
  BY <1>0, <1>1, <1>2, MapsShrink DEF MapsInv, memory
<1>6. SlotsInv'
  BY <1>0, <1>1, <1>2, SlotsShrink DEF SlotsInv, memory
<1>7. CallsInv'
  BY <1>0, <1>1, <1>2, CallsStay DEF SlotsKeepTheirRun, memory
<1> QED BY <1>3, <1>4, <1>5, <1>6, <1>7 DEF RunsInv

LEMMA MessageReceivedStays ==
    ASSUME RunsInv, Allowed, cast' = cast, NEW m \in Message, NEW runs \in SUBSET Run,
           \A r \in runs : MsgOf[r] = m, MessageReceived(m, runs)
    PROVE  RunsInv'
<1> USE AgesAssumption DEF AgesAssumption
<1>0. ClockInv /\ QueueInv /\ MapsInv /\ SlotsInv /\ CallsInv
  BY DEF RunsInv
<1>1. PICK row : row = [key |-> Real(m), inbound |-> [msg |-> m, at |-> now],
                        expires |-> now + MaxAge, author |-> None]
  OBVIOUS
<1>2. /\ received[m] < MaxReceived /\ received' = [received EXCEPT ![m] = @ + 1]
      /\ pending' = Enqueued(Live(pending), row) /\ claimed' = claimed \ {Real(m)}
      /\ runKeys' \subseteq runKeys \cup (runs \X {m})
      /\ UNCHANGED <<now, tomb, memory, call>>
  BY <1>1 DEF MessageReceived
<1>3. \A o \in Message : received[o] \in 0 .. MaxReceived /\ (o # m => received'[o] = received[o])
      /\ received'[m] = received[m] + 1 /\ received' \in [Message -> 0 .. MaxReceived]
  BY <1>0, <1>2 DEF ClockInv
<1>4. Going
  BY <1>0, <1>2, <1>3 DEF Going, ClockInv
<1>5. cast = "abort" => m = m1 /\ now = 1
  BY <1>3 DEF Allowed
<1>6. ClockInv'
  <2>1. \A r \in Run : MsgOf[r] \in Message
    BY HostAssumption DEF HostAssumption
  <2>2. \A r \in Run : tomb'[r] # 0 => received'[MsgOf[r]] > 0
    BY <1>0, <1>2, <1>4, <2>1 DEF ClockInv, Going
  <2>3. cast' = "abort" => \A o \in Message : received'[o] > 0 => o = m1
    BY <1>0, <1>3, <1>5 DEF ClockInv
  <2>4. cast' = "serial" => \A r, o \in Run :
          received'[MsgOf[r]] > 0 /\ received'[MsgOf[o]] > 0 /\ tomb'[r] = 0 /\ tomb'[o] = 0
            => MsgOf[r] = MsgOf[o]
    <3>1. SUFFICES ASSUME cast' = "serial", NEW r \in Run, received'[MsgOf[r]] > 0, tomb'[r] = 0
                   PROVE  MsgOf[r] = m
      OBVIOUS
    <3>2. \A o \in Run : MsgOf[o] # m /\ received[MsgOf[o]] > 0 => tomb[o] # 0
      <4>1. received'[m] # received[m] BY <1>3
      <4> QED BY <3>1, <4>1 DEF Allowed, Serial
    <3> QED BY <1>2, <1>3, <2>1, <3>1, <3>2
  <2>5. now' = now /\ tomb' = tomb BY <1>2
  <2> QED BY <1>0, <1>3, <2>2, <2>3, <2>4, <2>5 DEF ClockInv
<1>7. QueueInv'
  <2>1. row \in Row
    <3>1. Real(m) \in Key /\ [msg |-> m, at |-> now] \in Binding /\ now + MaxAge \in Nat
      BY <1>0 DEF Key, Binding, ClockInv
    <3> QED BY <1>1, <3>1 DEF Row
  <2>2. row.inbound.at = now /\ row.inbound.msg = m /\ row.key[1] = "real" /\ now \in 1 .. now
    BY <1>0, <1>1 DEF Real, ClockInv
  <2>3. RowFits(row)'
    <3>1. row.key[1] # "corr" /\ row.key[1] # "bridge" BY <2>2
    <3>2. row.inbound.at \in 1 .. now' BY <1>2, <2>2
    <3>3. cast' = "abort" => row.inbound.at = 1 /\ row.inbound.msg = m1 BY <1>5, <2>2
    <3> QED BY <2>1, <3>1, <3>2, <3>3 DEF RowFits
  <2>4. \A n \in DOMAIN pending' : pending'[n] = row \/ (n \in DOMAIN pending /\ pending'[n] = pending[n])
    BY <1>2, RowsEnqueued, LiveRows
  <2>5. \A n \in DOMAIN pending' : RowFits(pending[n])'
    BY <1>0, <1>4, <2>3, <2>4, QueueStays
  <2>6. claimed' \subseteq Key /\ runKeys' \subseteq Run \X Message /\ \A x \in runKeys' : x[2] = MsgOf[x[1]]
    BY <1>0, <1>2 DEF QueueInv
  <2> QED BY <2>5, <2>6 DEF QueueInv
<1>8. MapsInv'
  BY <1>0, <1>2, <1>4, MapsShrink DEF MapsInv, memory
<1>9. SlotsInv'
  BY <1>0, <1>2, <1>4, SlotsShrink DEF SlotsInv, memory
<1>10. CallsInv'
  BY <1>0, <1>2, <1>4, CallsStay DEF SlotsKeepTheirRun, memory
<1> QED BY <1>6, <1>7, <1>8, <1>9, <1>10 DEF RunsInv

\* A row is claimed and comes back as the correlated row of the run.
LEMMA CorrelateStays ==
    ASSUME ClockInv, QueueInv, Still, UNCHANGED runKeys, NEW r \in Run,
           NEW n \in DOMAIN Live(pending), Fits(r, Live(pending)[n].inbound), Correlate(Live(pending), n, r)
    PROVE  QueueInv'
<1> USE AgesAssumption DEF AgesAssumption
<1>1. PICK b : b = Live(pending)[n].inbound
  OBVIOUS
<1>2. PICK row : row = [key |-> Corr(r, b.msg), inbound |-> b, expires |-> b.at + MaxAge, author |-> None]
  OBVIOUS
<1>3. Fits(r, b) /\ b \in Binding /\ b.msg \in Message /\ b.at \in 1 .. now /\ now \in Nat
  BY <1>1 DEF Fits, Binding, ClockInv
<1>4. Going
  BY StillGoing
<1>5. Fits(r, b)'
  BY <1>3, <1>4, FitsStays
<1>6. RowFits(row)'
  <2>1. row.key = <<"corr", r, b.msg>> /\ row.key[1] = "corr" /\ row.key[2] = r /\ row.inbound = b
    BY <1>2 DEF Corr
  <2>2. row \in Row
    <3>1. Corr(r, b.msg) \in Key /\ b.at + MaxAge \in Nat BY <1>3 DEF Key
    <3> QED BY <1>2, <1>3, <3>1 DEF Row
  <2>3. row.inbound.at \in 1 .. now' /\ (cast' = "abort" => row.inbound.at = 1 /\ row.inbound.msg = m1)
    BY <1>5, <2>1 DEF Fits
  <2> QED BY <1>5, <2>1, <2>2, <2>3 DEF RowFits
<1>7. pending' = Enqueued(Without(Live(pending), n), row)
      /\ claimed' = (claimed \cup {Live(pending)[n].key}) \ {Corr(r, b.msg)}
  BY <1>1, <1>2 DEF Correlate
<1>8. \A x \in DOMAIN pending' : pending'[x] = row \/ (x \in DOMAIN pending /\ pending'[x] = pending[x])
  BY <1>7, RowsEnqueued, RowsWithout, LiveRows
<1>9. \A x \in DOMAIN pending' : RowFits(pending[x])'
  BY <1>4, <1>6, <1>8, QueueStays
<1>10. claimed' \subseteq Key
  <2>1. Live(pending)[n].key \in Key
    BY LiveRows DEF QueueInv, RowFits, Row
  <2> QED BY <1>7, <2>1 DEF QueueInv
<1> QED BY <1>9, <1>10 DEF QueueInv

LEMMA BeforeAgentRunStays ==
    ASSUME RunsInv, Allowed, cast' = cast, NEW i \in Instance, NEW r \in Run, BeforeAgentRun(i, r)
    PROVE  RunsInv'
<1>0. ClockInv /\ QueueInv /\ MapsInv /\ SlotsInv /\ CallsInv
  BY DEF RunsInv
<1>1. PICK q : q = Live(pending)
  OBVIOUS
<1>2. PICK n :
      /\ n # 0 => n \in DOMAIN q /\ (ByRunId(r, q[n]) \/ ByPrompt(r, q[n]))
      /\ r \notin prepared[i] /\ prepared' = [prepared EXCEPT ![i] = @ \cup {r}]
      /\ IF n = 0
         THEN pending' = q /\ UNCHANGED <<claimed, inboundByRun>>
         ELSE /\ inboundByRun' = [inboundByRun EXCEPT ![i][r] = q[n].inbound]
              /\ Correlate(q, n, r)
      /\ UNCHANGED <<now, received, runKeys, tomb, unverified, slots, cached, call>>
  <2>1. PICK exact : exact = Oldest(Matching(q, LAMBDA row : ByRunId(r, row)))
    OBVIOUS
  <2>2. PICK told : told = TheOnly(Matching(q, LAMBDA row : ByPrompt(r, row)))
    OBVIOUS
  <2>3. exact # 0 => exact \in DOMAIN q /\ ByRunId(r, q[exact])
    BY <2>1, OldestIsFound DEF Matching
  <2>4. told # 0 => told \in DOMAIN q /\ ByPrompt(r, q[told])
    BY <2>2, TheOnlyIsFound DEF Matching
  <2>5. PICK n : n = IF exact # 0 THEN exact ELSE told
    OBVIOUS
  <2> WITNESS n
  <2> QED BY <1>1, <2>1, <2>2, <2>3, <2>4, <2>5 DEF BeforeAgentRun
<1>3. Still /\ Going /\ ClockInv'
  BY <1>0, <1>2, StillGoing DEF Still
<1>4. tomb[r] # 0 => cast = "abort"
  <2>1. SUFFICES ASSUME cast # "abort", tomb[r] # 0 PROVE FALSE
    OBVIOUS
  <2>2. prepared \in [Instance -> SUBSET Run] /\ r \in prepared'[i] /\ prepared'[i] # prepared[i]
    BY <1>0, <1>2 DEF MapsInv
  <2>3. InOrder
    BY <2>1 DEF Allowed
  <2>4. i = inst1
    <3>1. CASE i \in Others
      <4>1. ByHooks(i)' = ByHooks(i) BY <2>3, <3>1 DEF InOrder
      <4> QED BY <2>2, <4>1 DEF ByHooks
    <3> QED BY <3>1 DEF Others
  <2>5. r \notin prepared'[inst1] \ prepared[inst1]
    BY <2>1, <2>3 DEF InOrder
  <2> QED BY <1>2, <2>2, <2>4, <2>5
<1>5. CASE n = 0
  <2>1. QueueInv'
    <3>1. \A x \in DOMAIN pending' : x \in DOMAIN pending /\ pending'[x] = pending[x]
      BY <1>1, <1>2, <1>5, LiveRows
    <3>2. \A x \in DOMAIN pending' : RowFits(pending[x])'
      BY <1>0, <1>3, <3>1, QueueShrinks
    <3> QED BY <1>0, <1>2, <1>5, <3>2 DEF QueueInv
  <2>2. MapsInv'
    <3>1. prepared' \in [Instance -> SUBSET Run]
      BY <1>0, <1>2 DEF MapsInv
    <3> QED BY <1>0, <1>2, <1>3, <1>5, <3>1, MapsShrink DEF MapsInv
  <2>3. SlotsInv'
    BY <1>0, <1>2, <1>3, SlotsShrink DEF SlotsInv
  <2>4. CallsInv'
    BY <1>0, <1>2, <1>3, CallsStay DEF SlotsKeepTheirRun
  <2> QED BY <1>3, <2>1, <2>2, <2>3, <2>4 DEF RunsInv
<1>6. CASE n # 0
  <2>1. PICK row, b : row = q[n] /\ b = row.inbound /\ RowFits(row)
    BY <1>0, <1>1, <1>2, <1>6, LiveRows DEF QueueInv
  <2>2. MayMean(MsgOf[r], b.msg)
    <3>1. CASE ByRunId(r, row)
      <4>1. <<r, b.msg>> \in runKeys BY <2>1, <3>1 DEF ByRunId
      <4>2. b.msg = MsgOf[r] BY <1>0, <4>1 DEF QueueInv
      <4> QED BY <4>2 DEF MayMean
    <3>2. CASE ByPrompt(r, row)
      BY <2>1, <3>2 DEF ByPrompt, MayMean
    <3> QED BY <1>2, <1>6, <2>1, <3>1, <3>2
  <2>3. Fits(r, b)
    BY <1>0, <1>4, <2>1, <2>2, NewBinding
  <2>4. Fits(r, b)' /\ b \in Binding
    BY <1>0, <1>3, <2>3, FitsStays DEF Fits
  <2>5. QueueInv'
    <3>1. Correlate(Live(pending), n, r) /\ n \in DOMAIN Live(pending) /\ Fits(r, Live(pending)[n].inbound)
      BY <1>1, <1>2, <1>6, <2>1, <2>3
    <3>2. UNCHANGED runKeys BY <1>2
    <3> QED BY <1>0, <1>3, <3>1, <3>2, CorrelateStays
  <2>6. MapsInv'
    <3>1. prepared' \in [Instance -> SUBSET Run]
      BY <1>0, <1>2 DEF MapsInv
    <3>2. inboundByRun' = [inboundByRun EXCEPT ![i][r] = b] /\ unverified' = unverified /\ cached' = cached
      BY <1>2, <1>6, <2>1
    <3>3. inboundByRun \in [Instance -> [Run -> Binding \cup {None}]]
      BY <1>0 DEF MapsInv
    <3>4. inboundByRun' \in [Instance -> [Run -> Binding \cup {None}]]
      BY <2>4, <3>2, <3>3
    <3>5. \A j \in Instance, o \in Run : \/ inboundByRun'[j][o] \in {None, inboundByRun[j][o]}
                                         \/ o = r /\ inboundByRun'[j][o] = b
      BY <3>2, <3>3
    <3>6. \A j \in Instance, o \in Run : inboundByRun'[j][o] # None => Fits(o, inboundByRun[j][o])'
      BY <1>0, <1>3, <2>4, <3>5, InboundStays
    <3>7. \A j \in Instance, o \in Run : unverified'[j][o] # None => Fits(o, unverified[j][o])'
      BY <1>0, <1>3, <2>4, <3>2, UnverifiedStays
    <3> QED BY <1>0, <3>1, <3>2, <3>4, <3>6, <3>7 DEF MapsInv
  <2>7. SlotsInv'
    BY <1>0, <1>2, <1>3, SlotsShrink DEF SlotsInv
  <2>8. CallsInv'
    BY <1>0, <1>2, <1>3, CallsStay DEF SlotsKeepTheirRun
  <2> QED BY <1>3, <2>5, <2>6, <2>7, <2>8 DEF RunsInv
<1> QED BY <1>5, <1>6

LEMMA LlmInputStays ==
    ASSUME RunsInv, Allowed, cast' = cast, NEW i \in Instance, NEW r \in Run, NEW sender \in BOOLEAN,
           NEW scope \in BOOLEAN, LlmInput(i, r, sender, scope)
    PROVE  RunsInv'
<1>0. ClockInv /\ QueueInv /\ MapsInv /\ SlotsInv /\ CallsInv
  BY DEF RunsInv
<1>1. PICK q : q = Live(pending)
  OBVIOUS
<1>2. PICK convs : convs = IF sender THEN {RunConv(r)} ELSE {ConvOf[m] : m \in Message}
  OBVIOUS
<1>3. PICK n :
      /\ n \in DOMAIN q /\ ByModelInput(r, q[n], convs, scope)
      /\ unverified[i][r] = None
      /\ unverified' = [unverified EXCEPT ![i][r] = q[n].inbound]
      /\ Correlate(q, n, r)
      /\ UNCHANGED <<now, received, runKeys, tomb, prepared, inboundByRun, slots, cached, call>>
  <2>1. PICK n : n = TheOnly(Matching(q, LAMBDA row : ByModelInput(r, row, convs, scope)))
    OBVIOUS
  <2>2. n # 0 => n \in DOMAIN q /\ ByModelInput(r, q[n], convs, scope)
    BY <2>1, TheOnlyIsFound DEF Matching
  <2> WITNESS n
  <2> QED BY <1>1, <1>2, <2>1, <2>2 DEF LlmInput
<1>4. Still /\ Going /\ ClockInv'
  BY <1>0, <1>3, StillGoing DEF Still
<1>5. PICK row, b : row = q[n] /\ b = row.inbound /\ RowFits(row)
  BY <1>0, <1>1, <1>3, LiveRows DEF QueueInv
<1>6. MayMean(MsgOf[r], b.msg) /\ b \in Binding /\ b # None
  <2>1. ByModelInput(r, row, convs, scope)
    BY <1>3, <1>5
  <2>2. MayMean(MsgOf[r], b.msg)
    BY <1>5, <2>1 DEF ByModelInput, ImageRunMatches, EndsPrompt, MayMean
  <2> QED BY <1>5, <2>2, NoneAssumption DEF RowFits, Row, NoneAssumption
<1>7. unverified \in [Instance -> [Run -> Binding \cup {None}]] /\ unverified' = [unverified EXCEPT ![i][r] = b]
  BY <1>0, <1>3, <1>5 DEF MapsInv
<1>8. tomb[r] # 0 => cast = "abort"
  <2>1. SUFFICES ASSUME cast # "abort", tomb[r] # 0 PROVE FALSE
    OBVIOUS
  <2>2. unverified'[i][r] = b /\ unverified'[i] # unverified[i]
    BY <1>3, <1>6, <1>7
  <2>3. InOrder
    BY <2>1 DEF Allowed
  <2>4. i = inst1
    <3>1. CASE i \in Others
      <4>1. ByHooks(i)' = ByHooks(i) BY <2>3, <3>1 DEF InOrder
      <4> QED BY <2>2, <4>1 DEF ByHooks
    <3> QED BY <3>1 DEF Others
  <2>5. unverified'[inst1][r] \in {None, unverified[inst1][r]}
    BY <2>1, <2>3 DEF InOrder
  <2> QED BY <1>3, <1>6, <2>2, <2>4, <2>5
<1>9. Fits(r, b)
  BY <1>0, <1>5, <1>6, <1>8, NewBinding
<1>10. Fits(r, b)'
  BY <1>0, <1>4, <1>9, FitsStays
<1>11. QueueInv'
  <2>1. Correlate(Live(pending), n, r) /\ n \in DOMAIN Live(pending) /\ Fits(r, Live(pending)[n].inbound)
    BY <1>1, <1>3, <1>5, <1>9
  <2>2. UNCHANGED runKeys BY <1>3
  <2> QED BY <1>0, <1>4, <2>1, <2>2, CorrelateStays
<1>12. MapsInv'
  <2>1. unverified' \in [Instance -> [Run -> Binding \cup {None}]]
    BY <1>6, <1>7
  <2>2. \A j \in Instance, o \in Run : \/ unverified'[j][o] \in {None, unverified[j][o]}
                                       \/ o = r /\ unverified'[j][o] = b
    BY <1>7
  <2>3. \A j \in Instance, o \in Run : unverified'[j][o] # None => Fits(o, unverified[j][o])'
    BY <1>0, <1>4, <1>10, <2>2, UnverifiedStays
  <2>4. \A j \in Instance, o \in Run : inboundByRun'[j][o] # None => Fits(o, inboundByRun[j][o])'
    BY <1>0, <1>3, <1>4, <1>10, InboundStays
  <2> QED BY <1>0, <1>3, <2>1, <2>3, <2>4 DEF MapsInv
<1>13. SlotsInv'
  BY <1>0, <1>3, <1>4, SlotsShrink DEF SlotsInv
<1>14. CallsInv'
  BY <1>0, <1>3, <1>4, CallsStay DEF SlotsKeepTheirRun
<1> QED BY <1>4, <1>11, <1>12, <1>13, <1>14 DEF RunsInv

\* The slots of instance i are pruned, and slot d becomes s.
LEMMA SlotMoves ==
    ASSUME ClockInv, MapsInv, SlotsInv, Going, Allowed, NEW i \in Instance, NEW d \in Id, NEW s, SlotFits(s)',
           slots' = [slots EXCEPT ![i] = [PrunedSlots(i) EXCEPT ![d] = s]]
    PROVE  SlotsInv' /\ slots'[i][d] = s /\ \A e \in Id : e # d => slots'[i][e] = PrunedSlots(i)[e]
<1>1. s \in Slot
  BY DEF SlotFits
<1>2. PrunedSlots(i) \in [Id -> Slot \cup {None}]
  BY PrunedTypes
<1>3. PICK p : p = [PrunedSlots(i) EXCEPT ![d] = s]
  OBVIOUS
<1>4. p \in [Id -> Slot \cup {None}] /\ p[d] = s /\ \A e \in Id : e # d => p[e] = PrunedSlots(i)[e]
  BY <1>1, <1>2, <1>3
<1>5. slots \in [Instance -> [Id -> Slot \cup {None}]] /\ slots' = [slots EXCEPT ![i] = p]
  BY <1>3 DEF SlotsInv
<1>6. slots' \in [Instance -> [Id -> Slot \cup {None}]] /\ slots'[i] = p
      /\ \A j \in Instance : j # i => slots'[j] = slots[j]
  BY <1>4, <1>5
<1>7. \A j \in Instance, e \in Id : slots'[j][e] \in {None, slots[j][e], s}
  BY <1>4, <1>6, PrunedSlot
<1>8. \A j \in Instance, e \in Id : slots'[j][e] # None => SlotFits(slots[j][e])'
  BY <1>7, SlotsStay
<1>9. cast' = "overlap" => \A j \in Others, e \in Id : slots'[j][e] = None
  BY DEF Allowed, SlotsInv, Going
<1> QED BY <1>4, <1>6, <1>8, <1>9 DEF SlotsInv

\* The slots of instance i are pruned.
LEMMA SlotsPruned ==
    ASSUME ClockInv, MapsInv, SlotsInv, Going, Allowed, NEW i \in Instance,
           slots' = [slots EXCEPT ![i] = PrunedSlots(i)]
    PROVE  SlotsInv' /\ SlotsKeepTheirRun
<1>1. PrunedSlots(i) \in [Id -> Slot \cup {None}] /\ slots \in [Instance -> [Id -> Slot \cup {None}]]
  BY PrunedTypes DEF SlotsInv
<1>2. slots' \in [Instance -> [Id -> Slot \cup {None}]] /\ slots'[i] = PrunedSlots(i)
      /\ \A j \in Instance : j # i => slots'[j] = slots[j]
  BY <1>1
<1>3. \A j \in Instance, e \in Id : slots'[j][e] \in {None, slots[j][e]}
  BY <1>2, PrunedSlot
<1>4. \A j \in Instance, e \in Id : slots'[j][e] # None => SlotFits(slots[j][e])'
  BY <1>3, SlotsShrink
<1>5. cast' = "overlap" => \A j \in Others, e \in Id : slots'[j][e] = None
  BY DEF Allowed, SlotsInv, Going
<1>6. SlotsKeepTheirRun
  <2>1. inst1 \in Instance BY CastAssumption DEF CastAssumption
  <2>2. cast = "overlap" => \A e \in Id : slots'[inst1][e] = slots[inst1][e]
    BY <1>2, <2>1, PrunedSlot
  <2> QED BY <2>2 DEF SlotsKeepTheirRun
<1> QED BY <1>2, <1>4, <1>5, <1>6 DEF SlotsInv

\* In "overlap" slot d of the first instance stays with its run.
LEMMA SlotMoveKeeps ==
    ASSUME ClockInv, MapsInv, SlotsInv, NEW i \in Instance, NEW d \in Id, NEW s,
           slots' \in [Instance -> [Id -> Slot \cup {None}]],
           slots' = [slots EXCEPT ![i] = [PrunedSlots(i) EXCEPT ![d] = s]],
           s # None, slots[i][d] # None => s.run = slots[i][d].run /\ (slots[i][d].ambiguous => s.ambiguous)
    PROVE  SlotsKeepTheirRun
<1>1. SUFFICES ASSUME cast = "overlap", NEW e \in Id, slots[inst1][e] # None
               PROVE  /\ slots'[inst1][e] # None /\ slots'[inst1][e].run = slots[inst1][e].run
                      /\ slots[inst1][e].ambiguous => slots'[inst1][e].ambiguous
  BY DEF SlotsKeepTheirRun
<1>2. inst1 \in Instance BY CastAssumption DEF CastAssumption
<1>3. PrunedSlots(i) \in [Id -> Slot \cup {None}] /\ slots \in [Instance -> [Id -> Slot \cup {None}]]
  BY PrunedTypes DEF SlotsInv
<1>4. CASE i # inst1
  <2>1. slots'[inst1] = slots[inst1] BY <1>2, <1>3, <1>4
  <2> QED BY <1>1, <2>1
<1>5. CASE i = inst1 /\ e # d
  <2>1. slots'[inst1][e] = PrunedSlots(inst1)[e] BY <1>3, <1>5
  <2> QED BY <1>1, <1>2, <2>1, PrunedSlot
<1>6. CASE i = inst1 /\ e = d
  <2>1. slots'[inst1][e] = s BY <1>3, <1>6
  <2> QED BY <1>1, <1>6, <2>1
<1> QED BY <1>4, <1>5, <1>6

\* Cached results are pruned.
LEMMA CachePruned ==
    ASSUME ClockInv, MapsInv, SlotsInv, NEW i \in Instance, cached' = [cached EXCEPT ![i] = PrunedCache(i)]
    PROVE  cached' \in [Instance -> [Run -> 0 .. MaxTime \cup {None}]]
<1>1. PrunedCache(i) \in [Run -> 0 .. MaxTime \cup {None}]
  BY PrunedTypes
<1>2. cached \in [Instance -> [Run -> 0 .. MaxTime \cup {None}]]
  BY DEF MapsInv
<1> QED BY <1>1, <1>2

LEMMA HookTooLateStays ==
    ASSUME RunsInv, Allowed, cast' = cast, NEW i \in Instance, NEW k \in Call, HookTooLate(i, k)
    PROVE  RunsInv'
<1>0. ClockInv /\ QueueInv /\ MapsInv /\ SlotsInv /\ CallsInv
  BY DEF RunsInv
<1>1. /\ call[k].stage = "idle" /\ Ended(RunOf[k]) /\ Hooked(k)
      /\ slots' = [slots EXCEPT ![i] = PrunedSlots(i)]
      /\ cached' = [cached EXCEPT ![i] = PrunedCache(i)]
      /\ UNCHANGED <<now, received, queue, tomb, prepared, inboundByRun, unverified>>
  BY DEF HookTooLate
<1>2. Still /\ Going /\ ClockInv'
  BY <1>0, <1>1, StillGoing DEF Still
<1>3. QueueInv'
  <2>1. \A n \in DOMAIN pending' : RowFits(pending[n])'
    BY <1>0, <1>1, <1>2, QueueShrinks DEF queue
  <2> QED BY <1>0, <1>1, <2>1 DEF QueueInv, queue
<1>4. MapsInv'
  <2>1. cached' \in [Instance -> [Run -> 0 .. MaxTime \cup {None}]]
    BY <1>0, <1>1, CachePruned
  <2> QED BY <1>0, <1>1, <1>2, <2>1, MapsShrink DEF MapsInv
<1>5. SlotsInv' /\ SlotsKeepTheirRun
  BY <1>0, <1>1, <1>2, SlotsPruned
<1>6. CallsInv'
  <2>1. tomb[RunOf[k]] # 0 /\ RunOf[k] \in Run
    BY <1>0, <1>1, HostAssumption DEF Ended, ClockInv, HostAssumption
  <2>2. received[MsgOf[RunOf[k]]] > 0
    BY <1>0, <2>1 DEF ClockInv
  <2>3. cast # "overlap"
    <3>1. call'[k].stage = "hooked"
      <4>1. call[k] \in [stage : {"idle", "hooked", "bound", "written", "answered", "refused"},
                    inst : Instance \cup {None}, id : Id \cup {None}, run : Run \cup {None},
                    inbound : Binding \cup {None}] /\ DOMAIN call = Call
        BY <1>0 DEF CallsInv, CallInv
      <4> QED BY <1>1, <4>1 DEF Hooked
    <3>2. cast # "abort" => tomb'[RunOf[k]] = 0
      BY <3>1 DEF Allowed, InOrder
    <3> QED BY <1>1, <2>1, <3>2
  <2> QED BY <1>0, <1>1, <1>2, <1>5, <2>2, <2>3, HookedCall
<1> QED BY <1>2, <1>3, <1>4, <1>5, <1>6 DEF RunsInv

\* A second run makes the slot ambiguous; what is left in it fits.
LEMMA CollideMoves ==
    ASSUME ClockInv, MapsInv, SlotsInv, Still, NEW i \in Instance, NEW d \in Id, PrunedSlots(i)[d] # None
    PROVE  \E t : /\ Collide(PrunedSlots(i), d) = [PrunedSlots(i) EXCEPT ![d] = t]
                  /\ t \in Slot /\ SlotFits(t)' /\ t.ambiguous /\ t.run = slots[i][d].run
<1>1. PICK p : p = PrunedSlots(i)
  OBVIOUS
<1>2. p \in [Id -> Slot \cup {None}] /\ SlotFits(p[d]) /\ p[d] = slots[i][d]
  BY <1>1, PrunedTypes, PrunedSlot
<1>3. PICK s : s = p[d]
  OBVIOUS
<1>4. s \in Slot /\ SlotFits(s) /\ now \in 0 .. MaxTime /\ now \in 1 .. now
  BY <1>2, <1>3 DEF SlotFits, ClockInv
<1>5. PICK a : a = [s EXCEPT !.ambiguous = TRUE]
  OBVIOUS
<1>6. a \in Slot /\ a.run = s.run /\ a.ambiguous = TRUE
  BY <1>4, <1>5 DEF Slot
<1>7. PICK b : b = [a EXCEPT !.inbound = None]
  OBVIOUS
<1>8. b \in Slot /\ b.run = s.run /\ b.ambiguous = TRUE /\ b.inbound = None
  BY <1>6, <1>7 DEF Slot
<1>9. PICK t : t = [b EXCEPT !.touched = now]
  OBVIOUS
<1>10. t \in Slot /\ t.run = s.run /\ t.ambiguous = TRUE /\ t.inbound = None /\ t.touched = now
  BY <1>4, <1>8, <1>9 DEF Slot
<1>11. SlotFits(t)'
  <2>1. received'[MsgOf[t.run]] > 0 BY <1>4, <1>10 DEF SlotFits, Still
  <2>2. t.touched \in 1 .. now' BY <1>4, <1>10 DEF Still
  <2> QED BY <1>10, <2>1, <2>2 DEF SlotFits
<1>12. Collide(p, d) = [p EXCEPT ![d] = t]
  BY <1>2, <1>3, <1>5, <1>7, <1>9 DEF Collide
<1> QED BY <1>1, <1>2, <1>3, <1>10, <1>11, <1>12

LEMMA HookMeetsSlotStays ==
    ASSUME RunsInv, Allowed, cast' = cast, NEW i \in Instance, NEW k \in Call, HookMeetsSlot(i, k)
    PROVE  RunsInv'
<1> USE HostAssumption DEF HostAssumption
<1>0. ClockInv /\ QueueInv /\ MapsInv /\ SlotsInv /\ CallsInv
  BY DEF RunsInv
<1>1. PICK r \in Run, d \in Id : r = RunOf[k] /\ d = IdOf[k]
  OBVIOUS
<1>2. PICK s : s = PrunedSlots(i)
  OBVIOUS
<1>3. /\ call[k].stage = "idle" /\ received[MsgOf[r]] > 0 /\ s[d] # None /\ Hooked(k)
      /\ IF s[d].run # r
         THEN /\ slots' = [slots EXCEPT ![i] = Collide(s, d)]
              /\ inboundByRun' = [inboundByRun EXCEPT ![i][r] = None]
         ELSE slots' = [slots EXCEPT ![i] = s] /\ UNCHANGED inboundByRun
      /\ cached' = [cached EXCEPT ![i] = PrunedCache(i)]
      /\ UNCHANGED <<now, received, queue, tomb, prepared, unverified>>
  BY <1>1, <1>2 DEF HookMeetsSlot
<1>4. Still /\ Going /\ ClockInv'
  BY <1>0, <1>3, StillGoing DEF Still
<1>5. QueueInv'
  <2>1. \A n \in DOMAIN pending' : RowFits(pending[n])'
    BY <1>0, <1>3, <1>4, QueueShrinks DEF queue
  <2> QED BY <1>0, <1>3, <2>1 DEF QueueInv, queue
<1>6. MapsInv'
  <2>1. cached' \in [Instance -> [Run -> 0 .. MaxTime \cup {None}]]
    BY <1>0, <1>3, CachePruned
  <2>2. inboundByRun \in [Instance -> [Run -> Binding \cup {None}]]
    BY <1>0 DEF MapsInv
  <2>3. inboundByRun' \in [Instance -> [Run -> Binding \cup {None}]]
        /\ \A j \in Instance, o \in Run : inboundByRun'[j][o] \in {None, inboundByRun[j][o]}
    <3>1. CASE s[d].run = r
      BY <1>3, <2>2, <3>1
    <3>2. CASE s[d].run # r
      <4>1. inboundByRun' = [inboundByRun EXCEPT ![i][r] = None] BY <1>3, <3>2
      <4> QED BY ONLY <2>2, <4>1
    <3> QED BY <3>1, <3>2
  <2>4. \A j \in Instance, o \in Run : /\ inboundByRun'[j][o] # None => Fits(o, inboundByRun[j][o])'
                                       /\ unverified'[j][o] # None => Fits(o, unverified[j][o])'
    BY <1>0, <1>3, <1>4, <2>3, MapsShrink
  <2> QED BY <1>0, <1>3, <2>1, <2>3, <2>4 DEF MapsInv
<1>7. cast = "overlap" => i = inst1
  BY <1>0, <1>2, <1>3, PrunedSlot DEF SlotsInv, Others
<1>8. s \in [Id -> Slot \cup {None}] /\ s[d] = slots[i][d]
      /\ slots \in [Instance -> [Id -> Slot \cup {None}]]
  BY <1>0, <1>2, <1>3, PrunedTypes, PrunedSlot DEF SlotsInv
<1>9. CASE s[d].run # r
  <2>1. PICK t : /\ Collide(s, d) = [s EXCEPT ![d] = t]
                 /\ t \in Slot /\ SlotFits(t)' /\ t.ambiguous /\ t.run = slots[i][d].run
    BY <1>0, <1>2, <1>3, <1>4, CollideMoves
  <2>2. slots' = [slots EXCEPT ![i] = [PrunedSlots(i) EXCEPT ![d] = t]]
    BY <1>2, <1>3, <1>9, <2>1
  <2>3. SlotsInv' /\ slots'[i][d] = t
    BY <1>0, <1>4, <2>1, <2>2, SlotMoves
  <2>4. t # None
    BY <2>1, NoneAssumption DEF NoneAssumption
  <2>5. slots' \in [Instance -> [Id -> Slot \cup {None}]]
    BY <2>3 DEF SlotsInv
  <2>6. SlotsKeepTheirRun
    BY <1>0, <2>1, <2>2, <2>4, <2>5, SlotMoveKeeps
  <2>7. cast = "overlap" => slots'[inst1][d] # None /\ slots'[inst1][d].ambiguous
    BY <1>7, <2>1, <2>3, <2>4
  <2>8. CallsInv'
    BY <1>0, <1>1, <1>3, <1>4, <2>6, <2>7, HookedCall
  <2> QED BY <1>4, <1>5, <1>6, <2>3, <2>8 DEF RunsInv
<1>10. CASE s[d].run = r
  <2>1. slots' = [slots EXCEPT ![i] = PrunedSlots(i)]
    BY <1>2, <1>3, <1>10
  <2>2. SlotsInv' /\ SlotsKeepTheirRun
    BY <1>0, <1>4, <2>1, SlotsPruned
  <2>3. slots'[i] = s
    BY <1>2, <1>8, <2>1
  <2>4. cast = "overlap" => slots'[inst1][d] # None /\ slots'[inst1][d].run = r
    BY <1>3, <1>7, <1>10, <2>3
  <2>5. CallsInv'
    BY <1>0, <1>1, <1>3, <1>4, <2>2, <2>4, HookedCall
  <2> QED BY <1>4, <1>5, <1>6, <2>2, <2>5 DEF RunsInv
<1> QED BY <1>9, <1>10

\* The row that hands the message over to the execution.
LEMMA BridgeFits ==
    ASSUME ClockInv, Still, NEW r \in Run, NEW b, Fits(r, b), received[MsgOf[r]] > 0,
           tomb[r] # 0 => cast = "abort", NEW row,
           row = [key |-> Bridge(b.msg), inbound |-> b, expires |-> now + PromptAge, author |-> r]
    PROVE  RowFits(row)'
<1> USE AgesAssumption DEF AgesAssumption
<1>1. b \in Binding /\ b.msg \in Message /\ b.at \in 1 .. now /\ now \in Nat /\ Going
  BY StillGoing DEF Fits, Binding, ClockInv
<1>2. Fits(r, b)'
  BY <1>1, FitsStays
<1>3. row.key = <<"bridge", b.msg>> /\ row.key[1] = "bridge" /\ row.inbound = b /\ row.author = r
      /\ row.expires = now + PromptAge
  BY DEF Bridge
<1>4. row \in Row
  <2>1. Bridge(b.msg) \in Key /\ now + PromptAge \in Nat BY <1>1 DEF Key
  <2> QED BY <1>1, <2>1 DEF Row
<1>5. row.expires <= now' + PromptAge
  BY <1>1, <1>3 DEF Still
<1>6. tomb'[row.author] # 0 => cast' = "abort"
  BY <1>3 DEF Still
<1>7. row.inbound.at \in 1 .. now' /\ (cast' = "abort" => row.inbound.at = 1 /\ row.inbound.msg = m1)
  BY <1>2, <1>3 DEF Fits
<1>8. received'[MsgOf[row.author]] > 0
  BY <1>3 DEF Still
<1>9. Fits(row.author, row.inbound)'
  <2>1. PICK c : c = row.inbound /\ c = b BY <1>3
  <2> QED BY <1>2, <1>3, <2>1
<1>10. row.key[1] # "corr"
  BY <1>3
<1> QED BY <1>3, <1>4, <1>5, <1>6, <1>7, <1>8, <1>9, <1>10 DEF RowFits

\* The hook of run r takes message b from place n of the queue, or from a map,
\* and hands it over: the queue after it.
HookTakes(i, d, r, q, n, b, row, rest, bridged, left) ==
    /\ n # 0 => n \in DOMAIN q
    /\ \/ b = None
       \/ b = inboundByRun[i][r]
       \/ b = unverified[i][r]
       \/ /\ n # 0 /\ b = q[n].inbound
          /\ (q[n].key[1] = "corr" /\ q[n].key[2] = r) \/ ByRunId(r, q[n])
    /\ row = [key |-> Bridge(b.msg), inbound |-> b, expires |-> now + PromptAge, author |-> r]
    /\ rest = IF n = 0 THEN q ELSE Without(q, n)
    /\ bridged = Enqueued(rest, row)
    /\ left # 0 => left \in DOMAIN bridged
    /\ slots' = [slots EXCEPT ![i] = [PrunedSlots(i) EXCEPT ![d] =
            [run |-> r, conv |-> RunConv(r), inbound |-> b, ambiguous |-> FALSE, touched |-> now]]]
    /\ IF b = None
       THEN pending' = rest /\ claimed' = claimed \cup (IF n = 0 THEN {} ELSE {q[n].key})
            /\ UNCHANGED <<inboundByRun, unverified>>
       ELSE /\ pending' = (IF left = 0 THEN bridged ELSE Without(bridged, left))
            /\ claimed' = ((claimed \cup (IF n = 0 THEN {} ELSE {q[n].key})) \ {Bridge(b.msg)})
                             \cup (IF left = 0 THEN {} ELSE {bridged[left].key})
            /\ inboundByRun' = [inboundByRun EXCEPT ![i][r] = None]
            /\ unverified' = [unverified EXCEPT ![i][r] = None]

\* The hook's choice of a message, and what becomes of the queue.
LEMMA HookChoice ==
    ASSUME NEW i \in Instance, NEW k \in Call, NEW r, r = RunOf[k], NEW q, q = Live(pending), HookBinds(i, k)
    PROVE  \E n, b, row, rest, bridged, left : HookTakes(i, IdOf[k], r, q, n, b, row, rest, bridged, left)
<1>1. PICK corr : corr = TheOnly(Matching(q, LAMBDA row : /\ row.key[1] = "corr" /\ row.key[2] = RunOf[k]
                                        /\ ConvOf[row.inbound.msg] = RunConv(RunOf[k])
                                        /\ Fresh(row.inbound, MaxAge)))
  OBVIOUS
<1>2. corr # 0 => corr \in DOMAIN q /\ q[corr].key[1] = "corr" /\ q[corr].key[2] = r
  BY <1>1, TheOnlyIsFound DEF Matching
<1>3. PICK exact : exact = Oldest(Matching(q, LAMBDA row : ByRunId(RunOf[k], row)))
  OBVIOUS
<1>4. exact # 0 => exact \in DOMAIN q /\ ByRunId(r, q[exact])
  BY <1>3, OldestIsFound DEF Matching
<1>5. PICK own, probed : own = inboundByRun[i][r] /\ probed = unverified[i][r]
  OBVIOUS
<1>6. PICK n : n = IF own # None THEN 0
             ELSE IF corr # 0 THEN corr
             ELSE IF probed # None /\ ConvOf[probed.msg] = RunConv(r) THEN 0
             ELSE exact
  OBVIOUS
<1>7. PICK b : b = IF own # None THEN own
             ELSE IF n # 0 THEN q[n].inbound
             ELSE IF probed # None /\ ConvOf[probed.msg] = RunConv(r) THEN probed ELSE None
  OBVIOUS
<1>8. PICK row : row = [key |-> Bridge(b.msg), inbound |-> b, expires |-> now + PromptAge, author |-> r]
  OBVIOUS
<1>9. PICK rest : rest = IF n = 0 THEN q ELSE Without(q, n)
  OBVIOUS
<1>10. PICK bridged : bridged = Enqueued(rest, row)
  OBVIOUS
<1>11. PICK left : left = Oldest(Matching(bridged, LAMBDA x : x.key[1] = "corr" /\ x.key[2] = RunOf[k]))
  OBVIOUS
<1>12. left # 0 => left \in DOMAIN bridged
  BY <1>11, OldestIsFound DEF Matching
<1>13. n # 0 => n \in DOMAIN q /\ ((q[n].key[1] = "corr" /\ q[n].key[2] = r) \/ ByRunId(r, q[n]))
  BY <1>2, <1>4, <1>6
<1>14. \/ b = None
       \/ b = inboundByRun[i][r]
       \/ b = unverified[i][r]
       \/ /\ n # 0 /\ b = q[n].inbound
          /\ (q[n].key[1] = "corr" /\ q[n].key[2] = r) \/ ByRunId(r, q[n])
  BY <1>5, <1>7, <1>13
<1>15. /\ slots' = [slots EXCEPT ![i] = [PrunedSlots(i) EXCEPT ![IdOf[k]] =
              [run |-> r, conv |-> RunConv(r), inbound |-> b, ambiguous |-> FALSE, touched |-> now]]]
       /\ IF b = None
          THEN pending' = rest /\ claimed' = claimed \cup (IF n = 0 THEN {} ELSE {q[n].key})
               /\ UNCHANGED <<inboundByRun, unverified>>
          ELSE /\ pending' = (IF left = 0 THEN bridged ELSE Without(bridged, left))
               /\ claimed' = ((claimed \cup (IF n = 0 THEN {} ELSE {q[n].key})) \ {Bridge(b.msg)})
                                \cup (IF left = 0 THEN {} ELSE {bridged[left].key})
               /\ inboundByRun' = [inboundByRun EXCEPT ![i][r] = None]
               /\ unverified' = [unverified EXCEPT ![i][r] = None]
  <2>1. slots' = [slots EXCEPT ![i] = [PrunedSlots(i) EXCEPT ![IdOf[k]] =
              [run |-> r, conv |-> RunConv(r), inbound |-> b, ambiguous |-> FALSE, touched |-> now]]]
    BY <1>1, <1>3, <1>5, <1>6, <1>7 DEF HookBinds
  <2>2. b = None => pending' = rest
    BY <1>1, <1>3, <1>5, <1>6, <1>7, <1>9 DEF HookBinds
  <2>3. b = None => claimed' = claimed \cup (IF n = 0 THEN {} ELSE {q[n].key}) /\ UNCHANGED <<inboundByRun, unverified>>
    BY <1>1, <1>3, <1>5, <1>6, <1>7, <1>9 DEF HookBinds
  <2>4. b # None => inboundByRun' = [inboundByRun EXCEPT ![i][r] = None] /\ unverified' = [unverified EXCEPT ![i][r] = None]
    BY <1>1, <1>3, <1>5, <1>6, <1>7, <1>9 DEF HookBinds
  <2>5. b # None => pending' = (IF left = 0 THEN bridged ELSE Without(bridged, left))
    BY <1>1, <1>3, <1>5, <1>6, <1>7, <1>8, <1>9, <1>10, <1>11 DEF HookBinds
  <2>6. b # None => claimed' = ((claimed \cup (IF n = 0 THEN {} ELSE {q[n].key})) \ {Bridge(b.msg)})
                                \cup (IF left = 0 THEN {} ELSE {bridged[left].key})
    BY <1>1, <1>3, <1>5, <1>6, <1>7, <1>8, <1>9, <1>10, <1>11 DEF HookBinds
  <2> QED BY <2>1, <2>2, <2>3, <2>4, <2>5, <2>6
<1>16. HookTakes(i, IdOf[k], r, q, n, b, row, rest, bridged, left)
  BY <1>8, <1>9, <1>10, <1>12, <1>13, <1>14, <1>15 DEF HookTakes
<1> QED BY <1>16

LEMMA HookBindsStays ==
    ASSUME RunsInv, Allowed, cast' = cast, NEW i \in Instance, NEW k \in Call, HookBinds(i, k)
    PROVE  RunsInv'
<1> USE HostAssumption DEF HostAssumption
<1>0. ClockInv /\ QueueInv /\ MapsInv /\ SlotsInv /\ CallsInv
  BY DEF RunsInv
<1>r. PICK r \in Run, d \in Id : r = RunOf[k] /\ d = IdOf[k]
  OBVIOUS
<1>1. PICK q : r = RunOf[k] /\ d = IdOf[k] /\ q = Live(pending)
  BY <1>r
<1>2. PICK n, b, row, rest, bridged, left : HookTakes(i, d, r, q, n, b, row, rest, bridged, left)
  BY <1>1, HookChoice
<1>3. /\ call[k].stage = "idle" /\ received[MsgOf[r]] > 0 /\ Hooked(k) /\ PrunedSlots(i)[d] = None
      /\ cached' = [cached EXCEPT ![i] = PrunedCache(i)]
      /\ UNCHANGED <<now, received, runKeys, tomb, prepared>>
  BY <1>1 DEF HookBinds
<1>4. Still /\ Going /\ ClockInv'
  BY <1>0, <1>3, StillGoing DEF Still
<1>5. call'[k].stage = "hooked"
  <2>1. call[k] \in [stage : {"idle", "hooked", "bound", "written", "answered", "refused"},
                inst : Instance \cup {None}, id : Id \cup {None}, run : Run \cup {None},
                inbound : Binding \cup {None}] /\ DOMAIN call = Call
    BY <1>0 DEF CallsInv, CallInv
  <2> QED BY <1>3, <2>1 DEF Hooked
<1>6. tomb[r] # 0 => cast = "abort"
  <2>1. cast # "abort" => tomb'[r] = 0
    BY <1>1, <1>5 DEF Allowed, InOrder
  <2> QED BY <1>3, <2>1
<1>7. n # 0 => n \in DOMAIN pending /\ q[n] = pending[n] /\ RowFits(q[n])
  BY <1>0, <1>1, <1>2, LiveRows DEF HookTakes, QueueInv
<1>8. b # None => Fits(r, b) /\ b \in Binding
  <2>1. SUFFICES ASSUME b # None PROVE Fits(r, b)
    BY DEF Fits
  <2>2. CASE b = inboundByRun[i][r]
    BY <1>0, <2>1, <2>2 DEF MapsInv
  <2>3. CASE b = unverified[i][r]
    BY <1>0, <2>1, <2>3 DEF MapsInv
  <2>4. CASE n # 0 /\ b = q[n].inbound /\ q[n].key[1] = "corr" /\ q[n].key[2] = r
    BY <1>7, <2>4 DEF RowFits
  <2>5. CASE n # 0 /\ b = q[n].inbound /\ ByRunId(r, q[n])
    <3>1. PICK old : old = q[n]
      OBVIOUS
    <3>2. <<r, b.msg>> \in runKeys /\ RowFits(old) /\ b = old.inbound
      BY <1>7, <2>5, <3>1 DEF ByRunId
    <3>3. MayMean(MsgOf[r], old.inbound.msg)
      BY <1>0, <3>2 DEF QueueInv, MayMean
    <3> QED BY <1>0, <1>6, <3>2, <3>3, NewBinding
  <2> QED BY <1>2, <2>1, <2>2, <2>3, <2>4, <2>5 DEF HookTakes
<1>9. n # 0 => q[n].key \in Key
  BY <1>7 DEF RowFits, Row
<1>10. QueueInv'
  <2>1. \A x \in DOMAIN rest : x \in DOMAIN pending /\ rest[x] = pending[x]
    BY <1>1, <1>2, RowsWithout, LiveRows DEF HookTakes
  <2>2. CASE b = None
    <3>1. pending' = rest /\ claimed' = claimed \cup (IF n = 0 THEN {} ELSE {q[n].key})
      BY <1>2, <2>2 DEF HookTakes
    <3>2. \A x \in DOMAIN pending' : RowFits(pending[x])'
      BY <1>0, <1>4, <2>1, <3>1, QueueShrinks
    <3> QED BY <1>0, <1>3, <1>9, <3>1, <3>2 DEF QueueInv
  <2>3. CASE b # None
    <3>1. RowFits(row)'
      BY <1>0, <1>2, <1>3, <1>4, <1>6, <1>8, <2>3, BridgeFits DEF HookTakes
    <3>2. /\ pending' = (IF left = 0 THEN bridged ELSE Without(bridged, left))
          /\ claimed' = ((claimed \cup (IF n = 0 THEN {} ELSE {q[n].key})) \ {Bridge(b.msg)})
                           \cup (IF left = 0 THEN {} ELSE {bridged[left].key})
          /\ bridged = Enqueued(rest, row) /\ (left # 0 => left \in DOMAIN bridged)
      BY <1>2, <2>3 DEF HookTakes
    <3>3. \A x \in DOMAIN bridged : bridged[x] = row \/ (x \in DOMAIN pending /\ bridged[x] = pending[x])
      BY <2>1, <3>2, RowsEnqueued
    <3>4. \A x \in DOMAIN pending' : pending'[x] = row \/ (x \in DOMAIN pending /\ pending'[x] = pending[x])
      BY <3>2, <3>3, RowsWithout
    <3>5. \A x \in DOMAIN pending' : RowFits(pending[x])'
      BY <1>0, <1>4, <3>1, <3>4, QueueStays
    <3>6. left # 0 => bridged[left].key \in Key
      <4>1. row.key \in Key BY <3>1 DEF RowFits, Row
      <4>2. \A x \in DOMAIN pending : pending[x].key \in Key BY <1>0 DEF QueueInv, RowFits, Row
      <4> QED BY <3>2, <3>3, <4>1, <4>2
    <3>7. claimed' \subseteq Key
      BY <1>0, <1>9, <3>2, <3>6 DEF QueueInv
    <3> QED BY <1>0, <1>3, <3>5, <3>7 DEF QueueInv
  <2> QED BY <2>2, <2>3
<1>11. MapsInv'
  <2>1. cached' \in [Instance -> [Run -> 0 .. MaxTime \cup {None}]]
    BY <1>0, <1>3, CachePruned
  <2>2. inboundByRun \in [Instance -> [Run -> Binding \cup {None}]]
        /\ unverified \in [Instance -> [Run -> Binding \cup {None}]]
    BY <1>0 DEF MapsInv
  <2>3. /\ inboundByRun' \in [Instance -> [Run -> Binding \cup {None}]]
        /\ unverified' \in [Instance -> [Run -> Binding \cup {None}]]
        /\ \A j \in Instance, o \in Run : /\ inboundByRun'[j][o] \in {None, inboundByRun[j][o]}
                                          /\ unverified'[j][o] \in {None, unverified[j][o]}
    <3>1. CASE b = None
      <4>1. UNCHANGED <<inboundByRun, unverified>> BY <1>2, <3>1 DEF HookTakes
      <4> QED BY <2>2, <4>1
    <3>2. CASE b # None
      <4>1. inboundByRun' = [inboundByRun EXCEPT ![i][r] = None] /\ unverified' = [unverified EXCEPT ![i][r] = None]
        BY <1>2, <3>2 DEF HookTakes
      <4> QED BY ONLY <2>2, <4>1
    <3> QED BY <3>1, <3>2
  <2>4. \A j \in Instance, o \in Run : /\ inboundByRun'[j][o] # None => Fits(o, inboundByRun[j][o])'
                                       /\ unverified'[j][o] # None => Fits(o, unverified[j][o])'
    BY <1>0, <1>4, <2>3, MapsShrink
  <2> QED BY <1>0, <1>3, <2>1, <2>3, <2>4 DEF MapsInv
<1>12. PICK s : s = [run |-> r, conv |-> RunConv(r), inbound |-> b, ambiguous |-> FALSE, touched |-> now]
  OBVIOUS
<1>13. SlotFits(s)'
  <2>1. RunConv(r) \in {ConvOf[m] : m \in Message} /\ now \in 0 .. MaxTime /\ now \in 1 .. now
    BY <1>0 DEF RunConv, ClockInv
  <2>2. b \in Binding \cup {None}
    BY <1>8
  <2>3. s \in Slot
    BY <1>12, <2>1, <2>2 DEF Slot
  <2>4. s.touched \in 1 .. now' /\ received'[MsgOf[s.run]] > 0
    BY <1>3, <1>12, <2>1
  <2>5. s.inbound # None => Fits(s.run, s.inbound)'
    <3>1. b # None => Fits(r, b)'
      BY <1>0, <1>4, <1>8, FitsStays
    <3> QED BY <1>12, <3>1
  <2>6. tomb'[s.run] # 0 => cast' = "abort"
    BY <1>3, <1>6, <1>12
  <2> QED BY <2>3, <2>4, <2>5, <2>6 DEF SlotFits
<1>14. slots' = [slots EXCEPT ![i] = [PrunedSlots(i) EXCEPT ![d] = s]]
  BY <1>2, <1>12 DEF HookTakes
<1>15. SlotsInv' /\ slots'[i][d] = s
  BY <1>0, <1>4, <1>13, <1>14, SlotMoves
<1>16. s \in Slot /\ s # None
  BY <1>13, NoneAssumption DEF SlotFits, NoneAssumption
<1>17. cast = "overlap" => i = inst1 /\ slots[i][d] = None
  <2>1. SUFFICES ASSUME cast = "overlap" PROVE i = inst1 /\ slots[i][d] = None
    OBVIOUS
  <2>2. slots[i][d] = None
    BY <1>0, <1>3, <2>1, PrunedSlot
  <2>3. i \notin Others
    BY <1>15, <1>16, <2>1, <2>2 DEF Allowed
  <2> QED BY <2>2, <2>3 DEF Others
<1>18. SlotsKeepTheirRun
  <2>1. CASE cast = "overlap"
    <3>1. slots' \in [Instance -> [Id -> Slot \cup {None}]] /\ slots[i][d] = None
      BY <1>15, <1>17, <2>1 DEF SlotsInv
    <3> QED BY <1>0, <1>14, <1>16, <3>1, SlotMoveKeeps
  <2>2. CASE cast # "overlap"
    BY <2>2 DEF SlotsKeepTheirRun
  <2> QED BY <2>1, <2>2
<1>19. CallsInv'
  <2>1. cast = "overlap" => slots'[inst1][d] # None /\ slots'[inst1][d].run = r
    BY <1>12, <1>15, <1>16, <1>17
  <2> QED BY <1>0, <1>1, <1>3, <1>4, <1>18, <2>1, HookedCall
<1> QED BY <1>4, <1>10, <1>11, <1>15, <1>19 DEF RunsInv

\* A slot that can still be used is of a run that is under way: the call may
\* act on its message.
LEMMA UsableSlot ==
    ASSUME ClockInv, CallsInv, NEW k \in Call, call[k].stage = "hooked", cast \in {"serial", "abort"},
           NEW s, SlotFits(s), s.inbound # None, ~s.ambiguous, ~Ended(s.run), now - s.touched <= MaxAge
    PROVE  MayMean(MsgOf[RunOf[k]], s.inbound.msg)
<1> USE HostAssumption, AgesAssumption DEF HostAssumption, AgesAssumption
<1>1. s \in Slot /\ s.run \in Run /\ s.touched \in 1 .. now /\ received[MsgOf[s.run]] > 0
      /\ Fits(s.run, s.inbound)
  BY DEF SlotFits, Slot
<1>2. received[MsgOf[RunOf[k]]] > 0 /\ (cast # "abort" => tomb[RunOf[k]] = 0)
  BY DEF CallsInv, CallInv
<1>3. CASE cast = "abort"
  <2>1. s.inbound.msg = m1 /\ MsgOf[RunOf[k]] = m1
    BY <1>1, <1>2, <1>3 DEF Fits, ClockInv
  <2> QED BY <2>1 DEF MayMean
<1>4. CASE cast = "serial"
  <2>1. now \in Nat /\ s.touched \in Nat /\ tomb[s.run] \in Nat
    BY <1>1 DEF ClockInv
  <2>2. tomb[s.run] # 0 => s.touched + EndTtl <= tomb[s.run]
    BY <1>4 DEF SlotFits
  <2>3. tomb[s.run] # 0 => tomb[s.run] < now
    BY <2>1 DEF Ended
  <2>4. tomb[s.run] = 0
    BY <2>1, <2>2, <2>3
  <2>5. RunOf[k] \in Run /\ tomb[RunOf[k]] = 0
    BY <1>2, <1>4
  <2>6. MsgOf[s.run] = MsgOf[RunOf[k]]
    BY <1>1, <1>2, <1>4, <2>4, <2>5 DEF ClockInv
  <2>7. MayMean(MsgOf[s.run], s.inbound.msg)
    BY <1>1 DEF Fits
  <2> QED BY <2>6, <2>7
<1> QED BY <1>3, <1>4

\* What UseSlot does, however it ends.
LEMMA SlotUsed ==
    ASSUME NEW i, NEW k, NEW d, NEW s, NEW q, UseSlot(i, k, d, s, q)
    PROVE  /\ \/ slots' = [slots EXCEPT ![i] = [PrunedSlots(i) EXCEPT ![d] = s]]
              \/ slots' = [slots EXCEPT ![i] = [PrunedSlots(i) EXCEPT ![d] = [s EXCEPT !.inbound = None]]]
           /\ \/ pending' = q /\ claimed' = claimed
              \/ \E n \in DOMAIN q : pending' = Without(q, n) /\ claimed' = claimed \cup {q[n].key}
           /\ \/ \E stage \in {"answered", "refused"} : Ends(k, stage)
              \/ /\ ~Ended(s.run) /\ ~s.ambiguous /\ s.inbound # None /\ Fresh(s.inbound, MaxAge)
                 /\ Acts(k, i, d, s)
<1>1. PICK mine : mine = IF s.inbound = None \/ s.ambiguous THEN 0
                         ELSE TheOnly(Matching(q, LAMBDA row : row.key = Bridge(s.inbound.msg)))
  OBVIOUS
<1>2. mine # 0 => mine \in DOMAIN q
  BY <1>1, TheOnlyIsFound DEF Matching
<1>3. CASE Ended(s.run)
  BY <1>3 DEF UseSlot
<1>4. CASE ~Ended(s.run) /\ ~s.ambiguous /\ PrunedCache(i)[s.run] # None
  BY <1>4 DEF UseSlot
<1>5. CASE ~Ended(s.run) /\ ~(~s.ambiguous /\ PrunedCache(i)[s.run] # None)
  <2>1. /\ slots' = [slots EXCEPT ![i] = [PrunedSlots(i) EXCEPT ![d] = [s EXCEPT !.inbound = None]]]
        /\ IF mine # 0
           THEN pending' = Without(q, mine) /\ claimed' = claimed \cup {q[mine].key}
           ELSE pending' = q /\ UNCHANGED claimed
        /\ IF s.ambiguous \/ s.inbound = None
           THEN Ends(k, "refused")
           ELSE IF ~Fresh(s.inbound, MaxAge)
           THEN Ends(k, "refused")
           ELSE Acts(k, i, d, s)
    BY <1>1, <1>5 DEF UseSlot
  <2> QED BY <1>2, <1>5, <2>1
<1> QED BY <1>3, <1>4, <1>5

\* An execution that works with a slot of its instance.
LEMMA UseSlotStays ==
    ASSUME RunsInv, Allowed, cast' = cast, cast \in {"overlap", "serial", "abort"},
           NEW i \in Instance, NEW k \in Call, NEW d \in Id, call[k].stage = "hooked",
           NEW s, s = PrunedSlots(i)[d], s # None,
           UseSlot(i, k, d, s, Live(pending)), Kept(i),
           cast = "overlap" /\ s.inbound # None /\ ~s.ambiguous => s.run = RunOf[k]
    PROVE  RunsInv'
<1> USE HostAssumption DEF HostAssumption
<1>0. ClockInv /\ QueueInv /\ MapsInv /\ SlotsInv /\ CallsInv
  BY DEF RunsInv
<1>1. /\ cached' = [cached EXCEPT ![i] = PrunedCache(i)]
      /\ UNCHANGED <<now, received, runKeys, tomb, prepared, inboundByRun, unverified>>
  BY DEF Kept
<1>2. Still /\ Going /\ ClockInv'
  BY <1>0, <1>1, StillGoing DEF Still
<1>3. SlotFits(s) /\ s \in Slot /\ s.run \in Run /\ s = slots[i][d] /\ now - s.touched <= MaxAge
  BY <1>0, PrunedSlot DEF SlotFits, Slot
<1>4. QueueInv'
  <2>1. \/ pending' = Live(pending) /\ claimed' = claimed
        \/ \E n \in DOMAIN Live(pending) : /\ pending' = Without(Live(pending), n)
                                           /\ claimed' = claimed \cup {Live(pending)[n].key}
    BY SlotUsed
  <2>2. \A x \in DOMAIN pending' : x \in DOMAIN pending /\ pending'[x] = pending[x]
    BY <2>1, LiveRows, RowsWithout
  <2>3. \A x \in DOMAIN pending' : RowFits(pending[x])'
    BY <1>0, <1>2, <2>2, QueueShrinks
  <2>4. \A n \in DOMAIN Live(pending) : Live(pending)[n].key \in Key
    BY <1>0, LiveRows DEF QueueInv, RowFits, Row
  <2>5. claimed' \subseteq Key
    BY <1>0, <2>1, <2>4 DEF QueueInv
  <2> QED BY <1>0, <1>1, <2>3, <2>5 DEF QueueInv
<1>5. MapsInv'
  <2>1. cached' \in [Instance -> [Run -> 0 .. MaxTime \cup {None}]]
    BY <1>0, <1>1, CachePruned
  <2> QED BY <1>0, <1>1, <1>2, <2>1, MapsShrink DEF MapsInv
<1>6. PICK spent : spent = [s EXCEPT !.inbound = None]
  OBVIOUS
<1>7. spent \in Slot /\ spent.run = s.run /\ spent.ambiguous = s.ambiguous /\ spent.touched = s.touched
      /\ spent.inbound = None
  BY <1>3, <1>6 DEF Slot
<1>8. SlotFits(spent)
  BY <1>3, <1>7 DEF SlotFits
<1>9. PICK t \in {s, spent} : slots' = [slots EXCEPT ![i] = [PrunedSlots(i) EXCEPT ![d] = t]]
  BY <1>6, SlotUsed
<1>10. SlotFits(t) /\ SlotFits(t)' /\ t \in Slot /\ t # None /\ t.run = s.run /\ t.ambiguous = s.ambiguous
  <2>1. SlotFits(t) /\ t \in Slot /\ t.run = s.run /\ t.ambiguous = s.ambiguous
    BY <1>3, <1>7, <1>8, <1>9
  <2>2. t # None
    BY <2>1, NoneAssumption DEF NoneAssumption
  <2> QED BY <1>0, <1>2, <2>1, <2>2, SlotStays
<1>11. SlotsInv'
  BY <1>0, <1>2, <1>9, <1>10, SlotMoves
<1>12. SlotsKeepTheirRun
  <2>1. slots' \in [Instance -> [Id -> Slot \cup {None}]]
    BY <1>11 DEF SlotsInv
  <2> QED BY <1>0, <1>3, <1>9, <1>10, <2>1, SlotMoveKeeps
<1>13. CallsInv'
  <2>1. CASE \E stage \in {"answered", "refused"} : Ends(k, stage)
    BY <1>0, <1>2, <1>12, <2>1, CallEnds
  <2>2. CASE ~Ended(s.run) /\ ~s.ambiguous /\ s.inbound # None /\ Acts(k, i, d, s)
    <3>1. Fits(s.run, s.inbound)
      BY <1>3, <2>2 DEF SlotFits
    <3>2. MayMean(MsgOf[RunOf[k]], s.inbound.msg)
      <4>1. CASE cast = "overlap"
        <5>1. s.run = RunOf[k] BY <2>2, <4>1
        <5> QED BY <3>1, <5>1 DEF Fits
      <4>2. CASE cast \in {"serial", "abort"}
        BY <1>0, <1>3, <2>2, <4>2, UsableSlot
      <4> QED BY <4>1, <4>2
    <3>3. Fits(s.run, s.inbound)'
      BY <1>0, <1>2, <1>3, <3>1, FitsStays
    <3> QED BY <1>0, <1>2, <1>3, <1>12, <2>2, <3>2, <3>3, CallActs
  <2> QED BY <2>1, <2>2, SlotUsed
<1> QED BY <1>2, <1>4, <1>5, <1>11, <1>13 DEF RunsInv

LEMMA TakeOwnSlotStays ==
    ASSUME RunsInv, Allowed, cast' = cast, cast \in {"overlap", "serial", "abort"},
           NEW i \in Instance, NEW k \in Call, TakeOwnSlot(i, k)
    PROVE  RunsInv'
<1> USE HostAssumption DEF HostAssumption
<1>d. PICK d \in Id : d = IdOf[k]
  OBVIOUS
<1>1. PICK s : d = IdOf[k] /\ s = PrunedSlots(i)[d]
  BY <1>d
<1>2. call[k].stage = "hooked" /\ s # None /\ UseSlot(i, k, d, s, Live(pending)) /\ Kept(i)
  BY <1>1 DEF TakeOwnSlot, Executing
<1>3. ASSUME cast = "overlap", ~s.ambiguous PROVE s.run = RunOf[k]
  <2>1. ClockInv /\ SlotsInv /\ CallInv(k)
    BY DEF RunsInv, CallsInv
  <2>2. s = slots[i][d]
    BY <1>1, <1>2, <2>1, PrunedSlot
  <2>3. i = inst1
    BY <1>2, <1>3, <2>1, <2>2 DEF SlotsInv, Others
  <2>4. slots[inst1][d].run = RunOf[k] \/ slots[inst1][d].ambiguous
    BY <1>1, <1>2, <1>3, <2>1 DEF CallInv
  <2> QED BY <1>3, <2>2, <2>3, <2>4
<1> QED BY <1>1, <1>2, <1>3, UseSlotStays

\* Without a slot under its id, no execution of "overlap" finds one.
LEMMA NoOtherSlot ==
    ASSUME ClockInv, SlotsInv, CallsInv, NEW i \in Instance, NEW k \in Call, cast = "overlap",
           call[k].stage = "hooked", PrunedSlots(i)[IdOf[k]] = None
    PROVE  i \in Others /\ \A d \in Id : PrunedSlots(i)[d] = None /\ slots[i][d] = None
<1> USE HostAssumption DEF HostAssumption
<1>1. i # inst1
  BY PrunedSlot DEF CallsInv, CallInv
<1>2. i \in Others
  BY <1>1 DEF Others
<1> QED BY <1>2, PrunedSlot DEF SlotsInv

LEMMA TakeRecoveredStays ==
    ASSUME RunsInv, Allowed, cast' = cast, cast \in {"overlap", "serial", "abort"},
           NEW i \in Instance, NEW k \in Call,
           Executing(i, k), PrunedSlots(i)[IdOf[k]] = None,
           NEW d \in Recovered(i, k), UseSlot(i, k, d, PrunedSlots(i)[d], Live(pending)), Kept(i)
    PROVE  RunsInv'
<1>1. d \in Recoverable(i)
  BY DEF Recovered
<1>2. PICK s : s = PrunedSlots(i)[d]
  OBVIOUS
<1>3. d \in Id /\ s # None /\ call[k].stage = "hooked"
  BY <1>1, <1>2 DEF Recoverable, Executing
<1>4. cast # "overlap"
  BY <1>2, <1>3, NoOtherSlot DEF RunsInv
<1> QED BY <1>2, <1>3, <1>4, UseSlotStays

\* An open row for an execution was left by a run that is under way.
LEMMA OpenBridgeFits ==
    ASSUME ClockInv, QueueInv, CallsInv, NEW k \in Call, call[k].stage = "hooked",
           cast \in {"overlap", "serial", "abort"},
           NEW row, RowFits(row), OpenBridge(row), row.expires >= now
    PROVE  /\ row.author \in Run /\ Fits(row.author, row.inbound) /\ received[MsgOf[row.author]] > 0
           /\ tomb[row.author] # 0 => cast = "abort"
           /\ cast # "overlap" => MayMean(MsgOf[RunOf[k]], row.inbound.msg)
<1> USE HostAssumption, AgesAssumption DEF HostAssumption, AgesAssumption
<1>1. PICK r : r = row.author
  OBVIOUS
<1>2. /\ r \in Run /\ Fits(r, row.inbound) /\ received[MsgOf[r]] > 0
      /\ tomb[r] # 0 /\ cast # "abort" => row.expires + EndTtl <= tomb[r] + PromptAge
      /\ ~Ended(r)
  BY <1>1 DEF RowFits, OpenBridge, IsBridge
<1>3. now \in Nat /\ tomb[r] \in Nat /\ row.expires \in Nat
  BY <1>2 DEF ClockInv, RowFits, Row
<1>4. tomb[r] # 0 => tomb[r] < now
  BY <1>2, <1>3 DEF Ended
<1>5. tomb[r] # 0 => cast = "abort"
  BY <1>2, <1>3, <1>4
<1>6. received[MsgOf[RunOf[k]]] > 0 /\ (cast # "abort" => tomb[RunOf[k]] = 0)
  BY DEF CallsInv, CallInv
<1>7. ASSUME cast = "serial" PROVE MayMean(MsgOf[RunOf[k]], row.inbound.msg)
  <2>1. MsgOf[r] = MsgOf[RunOf[k]]
    BY <1>2, <1>5, <1>6, <1>7 DEF ClockInv
  <2> QED BY <1>2, <2>1 DEF Fits
<1>8. ASSUME cast = "abort" PROVE MayMean(MsgOf[RunOf[k]], row.inbound.msg)
  <2>1. row.inbound.msg = m1 /\ MsgOf[RunOf[k]] = m1
    BY <1>2, <1>6, <1>8 DEF Fits, ClockInv
  <2> QED BY <2>1 DEF MayMean
<1> QED BY <1>1, <1>2, <1>5, <1>7, <1>8

LEMMA TakeBridgedStays ==
    ASSUME RunsInv, Allowed, cast' = cast, cast \in {"overlap", "serial", "abort"},
           NEW i \in Instance, NEW k \in Call, TakeBridged(i, k)
    PROVE  RunsInv'
<1> USE HostAssumption DEF HostAssumption
<1>0. ClockInv /\ QueueInv /\ MapsInv /\ SlotsInv /\ CallsInv
  BY DEF RunsInv
<1>d. PICK d \in Id : d = IdOf[k]
  OBVIOUS
<1>1. PICK q, n : q = Live(pending) /\ n = BridgeAt /\ d = IdOf[k]
  BY <1>d
<1>2. n # 0 => n \in DOMAIN q /\ OpenBridge(q[n])
  BY <1>1, TheOnlyIsFound DEF BridgeAt, Matching
<1>3. PICK s : s = [run |-> q[n].author, conv |-> ConvOf[q[n].inbound.msg],
              inbound |-> q[n].inbound, ambiguous |-> FALSE, touched |-> now]
  OBVIOUS
<1>4. PICK spent : spent = [s EXCEPT !.inbound = None]
  OBVIOUS
<1>5. /\ call[k].stage = "hooked" /\ PrunedSlots(i)[d] = None /\ n # 0
      /\ \/ /\ slots' = [slots EXCEPT ![i] = [PrunedSlots(i) EXCEPT ![d] = s]]
            /\ Ends(k, "answered")
         \/ /\ slots' = [slots EXCEPT ![i] = [PrunedSlots(i) EXCEPT ![d] = spent]]
            /\ Acts(k, i, d, s)
      /\ pending' = Without(q, n) /\ claimed' = claimed \cup {q[n].key}
      /\ Kept(i)
  BY <1>1, <1>3, <1>4 DEF TakeBridged, Executing
<1>6. /\ cached' = [cached EXCEPT ![i] = PrunedCache(i)]
      /\ UNCHANGED <<now, received, runKeys, tomb, prepared, inboundByRun, unverified>>
  BY <1>5 DEF Kept
<1>7. Still /\ Going /\ ClockInv'
  BY <1>0, <1>6, StillGoing DEF Still
<1>8. PICK row : row = q[n] /\ RowFits(row) /\ row = pending[n] /\ row.expires >= now /\ OpenBridge(row)
  BY <1>0, <1>1, <1>2, <1>5, LiveRows DEF QueueInv
<1>9. /\ row.author \in Run /\ Fits(row.author, row.inbound) /\ received[MsgOf[row.author]] > 0
      /\ tomb[row.author] # 0 => cast = "abort"
      /\ cast # "overlap" => MayMean(MsgOf[RunOf[k]], row.inbound.msg)
  BY <1>0, <1>5, <1>8, OpenBridgeFits
<1>10. QueueInv'
  <2>1. \A x \in DOMAIN pending' : x \in DOMAIN pending /\ pending'[x] = pending[x]
    BY <1>1, <1>5, LiveRows, RowsWithout
  <2>2. \A x \in DOMAIN pending' : RowFits(pending[x])'
    BY <1>0, <1>7, <2>1, QueueShrinks
  <2>3. row.key \in Key
    BY <1>8 DEF RowFits, Row
  <2> QED BY <1>0, <1>5, <1>6, <1>8, <2>2, <2>3 DEF QueueInv
<1>11. MapsInv'
  <2>1. cached' \in [Instance -> [Run -> 0 .. MaxTime \cup {None}]]
    BY <1>0, <1>6, CachePruned
  <2> QED BY <1>0, <1>6, <1>7, <2>1, MapsShrink DEF MapsInv
<1>12. SlotFits(s) /\ s \in Slot
  <2>1. row.inbound \in Binding /\ ConvOf[row.inbound.msg] \in {ConvOf[m] : m \in Message}
        /\ now \in 0 .. MaxTime /\ now \in 1 .. now
    BY <1>0, <1>9 DEF Fits, Binding, ClockInv
  <2>2. s.run = row.author /\ s.inbound = row.inbound /\ s.touched = now /\ s.ambiguous = FALSE
    BY <1>3, <1>8
  <2>3. s \in Slot
    BY <1>3, <1>8, <1>9, <2>1 DEF Slot
  <2> QED BY <1>9, <2>1, <2>2, <2>3 DEF SlotFits
<1>13. SlotFits(spent) /\ spent \in Slot
  <2>1. spent \in Slot /\ spent.run = s.run /\ spent.ambiguous = s.ambiguous /\ spent.touched = s.touched
        /\ spent.inbound = None
    BY <1>4, <1>12 DEF Slot
  <2> QED BY <1>12, <2>1 DEF SlotFits
<1>14. PICK t \in {s, spent} : slots' = [slots EXCEPT ![i] = [PrunedSlots(i) EXCEPT ![d] = t]]
  BY <1>5
<1>15. SlotFits(t)' /\ t # None
  <2>1. t # None
    BY <1>12, <1>13, <1>14, NoneAssumption DEF NoneAssumption
  <2> QED BY <1>0, <1>7, <1>12, <1>13, <1>14, <2>1, SlotStays
<1>16. SlotsInv' /\ slots'[i][d] = t
  BY <1>0, <1>7, <1>14, <1>15, SlotMoves
<1>17. cast # "overlap"
  <2>1. SUFFICES ASSUME cast = "overlap" PROVE FALSE
    OBVIOUS
  <2>2. i \in Others /\ slots[i][d] = None
    BY <1>0, <1>1, <1>5, <2>1, NoOtherSlot
  <2> QED BY <1>15, <1>16, <2>1, <2>2 DEF Allowed
<1>18. SlotsKeepTheirRun
  BY <1>17 DEF SlotsKeepTheirRun
<1>19. CallsInv'
  <2>1. CASE Ends(k, "answered")
    BY <1>0, <1>7, <1>18, <2>1, CallEnds
  <2>2. CASE Acts(k, i, d, s)
    <3>1. s.run \in Run /\ Fits(s.run, s.inbound) /\ MayMean(MsgOf[RunOf[k]], s.inbound.msg)
      <4>1. s.run = row.author /\ s.inbound = row.inbound BY <1>3, <1>8
      <4> QED BY <1>9, <1>17, <4>1
    <3>2. Fits(s.run, s.inbound)'
      BY <1>0, <1>7, <3>1, FitsStays
    <3> QED BY <1>0, <1>7, <1>18, <2>2, <3>1, <3>2, CallActs
  <2> QED BY <1>5, <2>1, <2>2
<1> QED BY <1>7, <1>10, <1>11, <1>16, <1>19 DEF RunsInv

LEMMA TakeNothingStays ==
    ASSUME RunsInv, Allowed, cast' = cast, NEW i \in Instance, NEW k \in Call, NEW identity \in BOOLEAN,
           TakeNothing(i, k, identity)
    PROVE  RunsInv'
<1>0. ClockInv /\ QueueInv /\ MapsInv /\ SlotsInv /\ CallsInv
  BY DEF RunsInv
<1>1. /\ Ends(k, "refused") /\ pending' = (IF identity THEN Live(pending) ELSE pending)
      /\ slots' = [slots EXCEPT ![i] = PrunedSlots(i)]
      /\ cached' = [cached EXCEPT ![i] = PrunedCache(i)]
      /\ UNCHANGED <<claimed, now, received, runKeys, tomb, prepared, inboundByRun, unverified>>
  BY DEF TakeNothing, Kept
<1>2. Still /\ Going /\ ClockInv'
  BY <1>0, <1>1, StillGoing DEF Still
<1>3. QueueInv'
  <2>1. \A x \in DOMAIN pending' : x \in DOMAIN pending /\ pending'[x] = pending[x]
    BY <1>1, LiveRows
  <2>2. \A x \in DOMAIN pending' : RowFits(pending[x])'
    BY <1>0, <1>2, <2>1, QueueShrinks
  <2> QED BY <1>0, <1>1, <2>2 DEF QueueInv
<1>4. MapsInv'
  <2>1. cached' \in [Instance -> [Run -> 0 .. MaxTime \cup {None}]]
    BY <1>0, <1>1, CachePruned
  <2> QED BY <1>0, <1>1, <1>2, <2>1, MapsShrink DEF MapsInv
<1>5. SlotsInv' /\ SlotsKeepTheirRun
  BY <1>0, <1>1, <1>2, SlotsPruned
<1>6. CallsInv'
  BY <1>0, <1>1, <1>2, <1>5, CallEnds
<1> QED BY <1>2, <1>3, <1>4, <1>5, <1>6 DEF RunsInv

LEMMA WriteExpenseStays ==
    ASSUME RunsInv, Allowed, cast' = cast, NEW k \in Call, WriteExpense(k)
    PROVE  RunsInv'
<1>0. ClockInv /\ QueueInv /\ MapsInv /\ SlotsInv /\ CallsInv
  BY DEF RunsInv
<1>1. PICK i \in Instance, r \in Run : i = call[k].inst /\ r = call[k].run
  BY <1>0 DEF WriteExpense, CallsInv, CallInv
<1>2. /\ Ends(k, "written")
      /\ cached' = [cached EXCEPT ![i][r] = IF @ = None THEN now ELSE @]
      /\ UNCHANGED <<now, received, queue, tomb, prepared, inboundByRun, unverified, slots>>
  BY <1>1 DEF WriteExpense
<1>3. Still /\ Going /\ ClockInv'
  BY <1>0, <1>2, StillGoing DEF Still
<1>4. QueueInv'
  <2>1. \A n \in DOMAIN pending' : RowFits(pending[n])'
    BY <1>0, <1>2, <1>3, QueueShrinks DEF queue
  <2> QED BY <1>0, <1>2, <2>1 DEF QueueInv, queue
<1>5. MapsInv'
  <2>1. cached \in [Instance -> [Run -> 0 .. MaxTime \cup {None}]] /\ now \in 0 .. MaxTime
    BY <1>0 DEF MapsInv, ClockInv
  <2>2. PICK x : x = IF cached[i][r] = None THEN now ELSE cached[i][r]
    OBVIOUS
  <2>3. x \in 0 .. MaxTime \cup {None} /\ cached' = [cached EXCEPT ![i][r] = x]
    BY <1>2, <2>1, <2>2
  <2>4. cached' \in [Instance -> [Run -> 0 .. MaxTime \cup {None}]]
    BY ONLY <2>1, <2>3
  <2> QED BY <1>0, <1>2, <1>3, <2>4, MapsShrink DEF MapsInv
<1>6. SlotsInv'
  BY <1>0, <1>2, <1>3, SlotsShrink DEF SlotsInv
<1>7. CallsInv'
  <2>1. SlotsKeepTheirRun BY <1>2 DEF SlotsKeepTheirRun
  <2> QED BY <1>0, <1>2, <1>3, <2>1, CallEnds
<1> QED BY <1>3, <1>4, <1>5, <1>6, <1>7 DEF RunsInv

LEMMA WriteRefusedStays ==
    ASSUME RunsInv, Allowed, cast' = cast, NEW k \in Call, WriteRefused(k)
    PROVE  RunsInv'
<1>0. ClockInv /\ QueueInv /\ MapsInv /\ SlotsInv /\ CallsInv
  BY DEF RunsInv
<1>1. Ends(k, "refused") /\ UNCHANGED <<now, received, queue, tomb, memory>>
  BY DEF WriteRefused
<1>2. Still /\ Going /\ ClockInv'
  BY <1>0, <1>1, StillGoing DEF Still
<1>3. QueueInv'
  <2>1. \A n \in DOMAIN pending' : RowFits(pending[n])'
    BY <1>0, <1>1, <1>2, QueueShrinks DEF queue
  <2> QED BY <1>0, <1>1, <2>1 DEF QueueInv, queue
<1>4. MapsInv'
  BY <1>0, <1>1, <1>2, MapsShrink DEF MapsInv, memory
<1>5. SlotsInv'
  BY <1>0, <1>1, <1>2, SlotsShrink DEF SlotsInv, memory
<1>6. CallsInv'
  <2>1. SlotsKeepTheirRun BY <1>1 DEF SlotsKeepTheirRun, memory
  <2> QED BY <1>0, <1>1, <1>2, <2>1, CallEnds
<1> QED BY <1>2, <1>3, <1>4, <1>5, <1>6 DEF RunsInv

LEMMA AgentEndStays ==
    ASSUME RunsInv, Allowed, cast' = cast, NEW i \in Instance, NEW r \in Run, AgentEnd(i, r)
    PROVE  RunsInv'
<1> USE AgesAssumption DEF AgesAssumption
<1>0. ClockInv /\ QueueInv /\ MapsInv /\ SlotsInv /\ CallsInv
  BY DEF RunsInv
<1>1. PICK q, n : q = Live(pending)
                  /\ n = Oldest(Matching(q, LAMBDA row : row.key[1] = "corr" /\ row.key[2] = r))
  OBVIOUS
<1>2. n # 0 => n \in DOMAIN q
  BY <1>1, OldestIsFound DEF Matching
<1>3. /\ received[MsgOf[r]] > 0 /\ tomb[r] = 0
      /\ tomb' = [tomb EXCEPT ![r] = now + EndTtl]
      /\ prepared' = [prepared EXCEPT ![i] = @ \ {r}]
      /\ inboundByRun' = [inboundByRun EXCEPT ![i][r] = None]
      /\ unverified' = [unverified EXCEPT ![i][r] = None]
      /\ cached' = [cached EXCEPT ![i] = [PrunedCache(i) EXCEPT ![r] = None]]
      /\ UNCHANGED <<now, received, runKeys, call>>
  BY DEF AgentEnd, Tombstone
<1>4. pending' = (IF n = 0 THEN q ELSE Without(q, n))
  BY <1>1 DEF AgentEnd
<1>5. claimed' = (IF n = 0 THEN claimed ELSE claimed \cup {q[n].key})
  BY <1>1 DEF AgentEnd
<1>6. PICK f : /\ f = [d \in Id |-> LET s == PrunedSlots(i)[d] IN
                        IF s # None /\ s.run = r THEN [s EXCEPT !.inbound = None, !.touched = now] ELSE s]
               /\ slots' = [slots EXCEPT ![i] = f]
  BY DEF AgentEnd
<1>7. now \in Nat /\ now \in 1 .. MaxTime /\ tomb \in [Run -> Nat] /\ tomb' \in [Run -> Nat]
      /\ tomb'[r] = now + EndTtl /\ \A o \in Run : o # r => tomb'[o] = tomb[o]
  <2>1. now \in Nat /\ now \in 1 .. MaxTime /\ tomb \in [Run -> Nat]
    BY <1>0 DEF ClockInv
  <2>2. now + EndTtl \in Nat
    BY <2>1
  <2> QED BY ONLY <1>3, <2>1, <2>2
<1>8. Going
  BY <1>3, <1>7 DEF Going
<1>9. ClockInv'
  <2>1. \A o \in Run : tomb'[o] # 0 => tomb'[o] >= 1 + EndTtl /\ tomb'[o] <= now' + EndTtl
    BY <1>0, <1>3, <1>7 DEF ClockInv
  <2>2. \A o \in Run : tomb'[o] # 0 => received'[MsgOf[o]] > 0
    BY <1>0, <1>3, <1>7 DEF ClockInv
  <2>3. \A o \in Run : tomb'[o] = 0 => tomb[o] = 0
    BY <1>3, <1>7
  <2>4. cast' = "serial" => \A p, o \in Run :
          received'[MsgOf[p]] > 0 /\ received'[MsgOf[o]] > 0 /\ tomb'[p] = 0 /\ tomb'[o] = 0
            => MsgOf[p] = MsgOf[o]
    BY <1>0, <1>3, <2>3 DEF ClockInv
  <2> QED BY <1>0, <1>3, <1>7, <2>1, <2>2, <2>4 DEF ClockInv
<1>10. QueueInv'
  <2>1. \A x \in DOMAIN pending' : x \in DOMAIN pending /\ pending'[x] = pending[x]
    BY <1>1, <1>4, LiveRows, RowsWithout
  <2>2. \A x \in DOMAIN pending' : RowFits(pending[x])'
    BY <1>0, <1>8, <2>1, QueueShrinks
  <2>3. n # 0 => q[n].key \in Key
    BY <1>0, <1>1, <1>2, LiveRows DEF QueueInv, RowFits, Row
  <2>4. claimed' \subseteq Key
    BY <1>0, <1>5, <2>3 DEF QueueInv
  <2> QED BY <1>0, <1>3, <2>2, <2>4 DEF QueueInv
<1>11. MapsInv'
  <2>1. PICK c : c = [PrunedCache(i) EXCEPT ![r] = None]
    OBVIOUS
  <2>2. c \in [Run -> 0 .. MaxTime \cup {None}]
    BY <1>0, <2>1, PrunedTypes
  <2>3. cached' \in [Instance -> [Run -> 0 .. MaxTime \cup {None}]]
    BY <1>0, <1>3, <2>1, <2>2 DEF MapsInv
  <2>4. prepared' \in [Instance -> SUBSET Run]
    BY <1>0, <1>3 DEF MapsInv
  <2>5. inboundByRun \in [Instance -> [Run -> Binding \cup {None}]]
        /\ unverified \in [Instance -> [Run -> Binding \cup {None}]]
    BY <1>0 DEF MapsInv
  <2>6. /\ inboundByRun' \in [Instance -> [Run -> Binding \cup {None}]]
        /\ unverified' \in [Instance -> [Run -> Binding \cup {None}]]
        /\ \A j \in Instance, o \in Run : /\ inboundByRun'[j][o] \in {None, inboundByRun[j][o]}
                                          /\ unverified'[j][o] \in {None, unverified[j][o]}
    <3>1. inboundByRun' = [inboundByRun EXCEPT ![i][r] = None] /\ unverified' = [unverified EXCEPT ![i][r] = None]
      BY <1>3
    <3> QED BY ONLY <2>5, <3>1
  <2>7. \A j \in Instance, o \in Run : /\ inboundByRun'[j][o] # None => Fits(o, inboundByRun[j][o])'
                                       /\ unverified'[j][o] # None => Fits(o, unverified[j][o])'
    BY <1>0, <1>8, <2>6, MapsShrink
  <2> QED BY <2>3, <2>4, <2>6, <2>7 DEF MapsInv
<1>12. \A d \in Id : f[d] # None => /\ PrunedSlots(i)[d] # None /\ SlotFits(f[d])'
                                    /\ f[d].run = slots[i][d].run /\ f[d].ambiguous = slots[i][d].ambiguous
  <2>1. SUFFICES ASSUME NEW d \in Id, f[d] # None
                 PROVE  /\ PrunedSlots(i)[d] # None /\ SlotFits(f[d])'
                        /\ f[d].run = slots[i][d].run /\ f[d].ambiguous = slots[i][d].ambiguous
    OBVIOUS
  <2>2. PICK s : s = PrunedSlots(i)[d]
    OBVIOUS
  <2>3. s # None /\ f[d] = IF s.run = r THEN [s EXCEPT !.inbound = None, !.touched = now] ELSE s
    BY <1>6, <2>1, <2>2
  <2>4. SlotFits(s) /\ s \in Slot /\ s = slots[i][d] /\ s.touched \in 1 .. now /\ s.run \in Run
    BY <1>0, <2>2, <2>3, PrunedSlot DEF SlotFits, Slot
  <2>5. CASE s.run # r
    <3>1. SlotFits(s)' BY <1>0, <1>8, <2>4, SlotStays
    <3>2. PICK x : x = s /\ x = f[d] BY <2>3, <2>5
    <3>3. SlotFits(x)' BY <3>1, <3>2
    <3>4. f' = f BY <1>6
    <3> QED BY <2>2, <2>3, <2>4, <3>2, <3>3, <3>4
  <2>6. CASE s.run = r
    <3>1. PICK a : a = [s EXCEPT !.inbound = None]
      OBVIOUS
    <3>2. a \in Slot /\ a.run = r /\ a.ambiguous = s.ambiguous /\ a.inbound = None
      BY <2>4, <2>6, <3>1 DEF Slot
    <3>3. PICK x : x = [a EXCEPT !.touched = now]
      OBVIOUS
    <3>4. now \in 0 .. MaxTime BY <1>7
    <3>5. x \in Slot /\ x.run = r /\ x.ambiguous = s.ambiguous /\ x.inbound = None /\ x.touched = now
      BY <3>2, <3>3, <3>4 DEF Slot
    <3>6. x = f[d]
      BY <2>3, <2>6, <3>1, <3>3
    <3>7. SlotFits(x)'
      <4>1. x.touched \in 1 .. now' /\ received'[MsgOf[x.run]] > 0 BY <1>3, <1>7, <3>5
      <4>2. x.touched + EndTtl <= tomb'[x.run] BY <1>7, <3>5
      <4> QED BY <3>5, <4>1, <4>2 DEF SlotFits
    <3> QED BY <2>2, <2>3, <2>4, <2>6, <3>5, <3>6, <3>7
  <2> QED BY <2>5, <2>6
<1>13. SlotsInv' /\ SlotsKeepTheirRun
  <2>1. slots \in [Instance -> [Id -> Slot \cup {None}]] /\ DOMAIN f = Id
    BY <1>0, <1>6 DEF SlotsInv
  <2>2. \A d \in Id : f[d] \in Slot \cup {None}
    <3>1. ASSUME NEW d \in Id, f[d] # None PROVE f[d] \in Slot
      <4>1. SlotFits(f[d])' BY <1>12, <3>1
      <4> QED BY <4>1 DEF SlotFits
    <3> QED BY <3>1
  <2>3. f \in [Id -> Slot \cup {None}]
    BY <1>6, <2>1, <2>2
  <2>4. slots' \in [Instance -> [Id -> Slot \cup {None}]] /\ slots'[i] = f
        /\ \A j \in Instance : j # i => slots'[j] = slots[j]
    BY <1>6, <2>1, <2>3
  <2>5. ASSUME NEW j \in Instance, NEW d \in Id, slots'[j][d] # None PROVE SlotFits(slots[j][d])'
    <3>1. PICK x : x = slots'[j][d] OBVIOUS
    <3>2. CASE j = i
      <4>1. x = f[d] /\ SlotFits(f[d])' BY <1>12, <2>4, <2>5, <3>1, <3>2
      <4> QED BY <3>1, <4>1
    <3>3. CASE j # i
      <4>1. x = slots[j][d] /\ SlotFits(x) BY <1>0, <2>4, <2>5, <3>1, <3>3 DEF SlotsInv
      <4>2. SlotFits(x)' BY <1>0, <1>8, <4>1, SlotStays
      <4> QED BY <3>1, <4>2
    <3> QED BY <3>2, <3>3
  <2>6. cast' = "overlap" => \A j \in Others, d \in Id : slots'[j][d] = None
    BY <1>0 DEF Allowed, SlotsInv
  <2>7. SlotsKeepTheirRun
    <3>1. SUFFICES ASSUME cast = "overlap", NEW e \in Id, slots[inst1][e] # None
                   PROVE  /\ slots'[inst1][e] # None /\ slots'[inst1][e].run = slots[inst1][e].run
                          /\ slots[inst1][e].ambiguous => slots'[inst1][e].ambiguous
      BY DEF SlotsKeepTheirRun
    <3>2. inst1 \in Instance BY CastAssumption DEF CastAssumption
    <3>3. CASE inst1 # i
      <4>1. slots'[inst1] = slots[inst1] BY <2>4, <3>2, <3>3
      <4> QED BY <3>1, <4>1
    <3>4. CASE inst1 = i
      <4>1. PrunedSlots(i)[e] # None
        BY <1>0, <3>1, <3>4, PrunedSlot
      <4>2. f[e] # None
        <5>1. PICK s : s = PrunedSlots(i)[e] OBVIOUS
        <5>2. s \in Slot BY <1>0, <4>1, <5>1, PrunedSlot DEF SlotFits
        <5>3. CASE s.run = r
          <6>1. f[e] = [s EXCEPT !.inbound = None, !.touched = now] BY <1>6, <4>1, <5>1, <5>3
          <6>2. now \in 0 .. MaxTime BY <1>7
          <6>3. [s EXCEPT !.inbound = None, !.touched = now] \in Slot BY <5>2, <6>2 DEF Slot
          <6> QED BY <6>1, <6>3, NoneAssumption DEF NoneAssumption
        <5>4. CASE s.run # r
          <6>1. f[e] = s BY <1>6, <5>1, <5>4
          <6> QED BY <4>1, <5>1, <6>1
        <5> QED BY <5>3, <5>4
      <4> QED BY <1>12, <2>4, <3>4, <4>2
    <3> QED BY <3>3, <3>4
  <2> QED BY <2>4, <2>5, <2>6, <2>7 DEF SlotsInv
<1>14. CallsInv'
  BY <1>0, <1>3, <1>8, <1>13, CallsStay
<1> QED BY <1>9, <1>10, <1>11, <1>13, <1>14 DEF RunsInv

LEMMA GatewayRestartStays ==
    ASSUME RunsInv, Allowed, cast' = cast, GatewayRestart
    PROVE  RunsInv'
<1>0. ClockInv /\ QueueInv /\ MapsInv /\ SlotsInv /\ CallsInv
  BY DEF RunsInv
<1>1. /\ prepared' = [i \in Instance |-> {}]
      /\ inboundByRun' = [i \in Instance |-> [r \in Run |-> None]]
      /\ unverified' = [i \in Instance |-> [r \in Run |-> None]]
      /\ slots' = [i \in Instance |-> [d \in Id |-> None]]
      /\ cached' = [i \in Instance |-> [r \in Run |-> None]]
      /\ UNCHANGED <<now, received, queue, tomb>>
  BY DEF GatewayRestart
<1>2. Still /\ Going /\ ClockInv'
  BY <1>0, <1>1, StillGoing DEF Still
<1>3. QueueInv'
  <2>1. \A n \in DOMAIN pending' : RowFits(pending[n])'
    BY <1>0, <1>1, <1>2, QueueShrinks DEF queue
  <2> QED BY <1>0, <1>1, <2>1 DEF QueueInv, queue
<1>4. MapsInv'
  BY <1>1 DEF MapsInv
<1>5. SlotsInv'
  BY <1>1 DEF SlotsInv, Others
<1>6. CallsInv'
  <2>1. DOMAIN call' = Call /\ \A k \in Call :
           call'[k] = IF call[k].stage \in {"hooked", "bound"} THEN [Idle EXCEPT !.stage = "refused"] ELSE call[k]
    BY DEF GatewayRestart
  <2>2. ASSUME NEW k \in Call PROVE CallInv(k)'
    <3>1. CallInv(k)
      BY <1>0 DEF CallsInv
    <3>2. CASE call[k].stage \in {"hooked", "bound"}
      <4>1. PICK x : x = [Idle EXCEPT !.stage = "refused"]
        OBVIOUS
      <4>2. x \in [stage : {"idle", "hooked", "bound", "written", "answered", "refused"},
                   inst : Instance \cup {None}, id : Id \cup {None}, run : Run \cup {None},
                   inbound : Binding \cup {None}] /\ x.stage = "refused"
        BY <4>1 DEF Idle
      <4>3. call'[k] = x
        BY <2>1, <3>2, <4>1
      <4> QED BY <4>2, <4>3 DEF CallInv
    <3>3. CASE call[k].stage \notin {"hooked", "bound"}
      <4>1. call'[k] = call[k]
        BY <2>1, <3>3
      <4> QED BY <3>1, <3>3, <4>1 DEF CallInv
    <3> QED BY <3>2, <3>3
  <2> QED BY <2>1, <2>2 DEF CallsInv
<1> QED BY <1>2, <1>3, <1>4, <1>5, <1>6 DEF RunsInv

-----------------------------------------------------------------------------
(* The invariant.                                                           *)

LEMMA RunsInit == MCInit => RunsInv
<1> SUFFICES ASSUME MCInit PROVE RunsInv
  OBVIOUS
<1> USE AgesAssumption, HostAssumption DEF AgesAssumption, HostAssumption
<1>1. /\ cast \in {"overlap", "serial", "abort", "questions", "numbers"}
      /\ now = 1 /\ received = [m \in Message |-> 0]
      /\ pending = <<>> /\ claimed = {} /\ runKeys = {}
      /\ tomb = [r \in Run |-> 0]
      /\ prepared = [i \in Instance |-> {}]
      /\ inboundByRun = [i \in Instance |-> [r \in Run |-> None]]
      /\ unverified = [i \in Instance |-> [r \in Run |-> None]]
      /\ slots = [i \in Instance |-> [d \in Id |-> None]]
      /\ cached = [i \in Instance |-> [r \in Run |-> None]]
      /\ call = [k \in Call |-> Idle]
  BY DEF MCInit, Init
<1>2. 1 <= MaxTime
  OBVIOUS
<1>3. ClockInv
  BY <1>1, <1>2 DEF ClockInv
<1>4. QueueInv
  BY <1>1 DEF QueueInv
<1>5. MapsInv
  BY <1>1 DEF MapsInv
<1>6. SlotsInv
  BY <1>1 DEF SlotsInv, Others
<1>7. CallsInv
  BY <1>1 DEF CallsInv, CallInv, Idle
<1> QED BY <1>3, <1>4, <1>5, <1>6, <1>7 DEF RunsInv

LEMMA RunsStep == RunsInv /\ [MCNext]_<<vars, qvars, nvars, cast>> => RunsInv'
<1> SUFFICES ASSUME RunsInv, [MCNext]_<<vars, qvars, nvars, cast>> PROVE RunsInv'
  OBVIOUS
<1>1. CASE cast \in {"overlap", "serial", "abort"} /\ Next /\ Allowed /\ cast' = cast
  <2> USE <1>1
  <2>1. CASE Tick
    BY <2>1, TickStays
  <2>2. CASE GatewayRestart
    BY <2>2, GatewayRestartStays
  <2>3. ASSUME NEW m \in Message, MessageReceived(m, {}) PROVE RunsInv'
    <3>1. {} \in SUBSET Run /\ \A r \in {} : MsgOf[r] = m
      OBVIOUS
    <3> QED BY <2>3, <3>1, MessageReceivedStays
  <2>4. ASSUME NEW m \in Message, NEW r \in Run, MsgOf[r] = m, MessageReceived(m, {r}) PROVE RunsInv'
    <3>1. {r} \in SUBSET Run /\ \A o \in {r} : MsgOf[o] = m
      BY <2>4
    <3> QED BY <2>4, <3>1, MessageReceivedStays
  <2>5. ASSUME NEW k \in Call, WriteExpense(k) \/ WriteRefused(k) PROVE RunsInv'
    BY <2>5, WriteExpenseStays, WriteRefusedStays
  <2>6. ASSUME NEW i \in Instance, NEW r \in Run, BeforeAgentRun(i, r) \/ AgentEnd(i, r) PROVE RunsInv'
    BY <2>6, BeforeAgentRunStays, AgentEndStays
  <2>7. ASSUME NEW i \in Instance, NEW r \in Run, NEW sender \in BOOLEAN, NEW scope \in BOOLEAN,
              LlmInput(i, r, sender, scope)
        PROVE RunsInv'
    BY <2>7, LlmInputStays
  <2>8. ASSUME NEW i \in Instance, NEW k \in Call, HookMeetsSlot(i, k) \/ HookBinds(i, k) \/ HookTooLate(i, k)
        PROVE  RunsInv'
    BY <2>8, HookMeetsSlotStays, HookBindsStays, HookTooLateStays
  <2>9. ASSUME NEW i \in Instance, NEW k \in Call, TakeOwnSlot(i, k) \/ TakeBridged(i, k) PROVE RunsInv'
    BY <2>9, TakeOwnSlotStays, TakeBridgedStays
  <2>10. ASSUME NEW i \in Instance, NEW k \in Call, TakeRecovered(i, k) PROVE RunsInv'
    <3>1. PICK d \in Recovered(i, k) : UseSlot(i, k, d, PrunedSlots(i)[d], Live(pending))
      BY <2>10 DEF TakeRecovered
    <3>2. Executing(i, k) /\ PrunedSlots(i)[IdOf[k]] = None /\ Kept(i)
      BY <2>10 DEF TakeRecovered
    <3> QED BY <3>1, <3>2, TakeRecoveredStays
  <2>11. ASSUME NEW i \in Instance, NEW k \in Call, TakeCached(i, k) PROVE RunsInv'
    <3>1. PICK d \in Recovered(i, k) : UseSlot(i, k, d, PrunedSlots(i)[d], Live(pending))
      BY <2>11 DEF TakeCached
    <3>2. Executing(i, k) /\ PrunedSlots(i)[IdOf[k]] = None /\ Kept(i)
      BY <2>11 DEF TakeCached
    <3> QED BY <3>1, <3>2, TakeRecoveredStays
  <2>12. ASSUME NEW i \in Instance, NEW k \in Call, NEW identity \in BOOLEAN, TakeNothing(i, k, identity)
         PROVE  RunsInv'
    BY <2>12, TakeNothingStays
  <2> QED BY <2>1, <2>2, <2>3, <2>4, <2>5, <2>6, <2>7, <2>8, <2>9, <2>10, <2>11, <2>12 DEF Next
<1>2. CASE UNCHANGED <<vars, cast>>
  <2>0. ClockInv /\ QueueInv /\ MapsInv /\ SlotsInv /\ CallsInv
    BY DEF RunsInv
  <2>1. UNCHANGED <<now, received, pending, claimed, runKeys, tomb, prepared, inboundByRun, unverified,
                    slots, cached, call, cast>>
    BY <1>2 DEF vars, queue, memory
  <2>2. Still /\ Going /\ ClockInv'
    BY <2>0, <2>1, StillGoing DEF Still
  <2>3. QueueInv'
    <3>1. \A n \in DOMAIN pending' : RowFits(pending[n])'
      BY <2>0, <2>1, <2>2, QueueShrinks
    <3> QED BY <2>0, <2>1, <3>1 DEF QueueInv
  <2>4. MapsInv'
    BY <2>0, <2>1, <2>2, MapsShrink DEF MapsInv
  <2>5. SlotsInv'
    BY <2>0, <2>1, <2>2, SlotsShrink DEF SlotsInv
  <2>6. CallsInv'
    <3>1. ASSUME NEW k \in Call PROVE CallInv(k)'
      <4>1. \A r, b : Fits(r, b)' <=> Fits(r, b)
        BY <2>1 DEF Fits
      <4>2. CallInv(k)
        BY <2>0 DEF CallsInv
      <4>3. Fits(call[k].run, call[k].inbound)' <=> Fits(call[k].run, call[k].inbound)
        <5>1. PICK r, b : r = call[k].run /\ b = call[k].inbound
          OBVIOUS
        <5>2. r = call'[k].run /\ b = call'[k].inbound
          BY <2>1, <5>1
        <5> QED BY <4>1, <5>1, <5>2
      <4> QED BY <2>1, <4>2, <4>3 DEF CallInv
    <3> QED BY <2>0, <2>1, <3>1 DEF CallsInv
  <2> QED BY <2>2, <2>3, <2>4, <2>5, <2>6 DEF RunsInv
<1> QED BY <1>1, <1>2 DEF MCNext

\* The invariant holds from the start and every step keeps it.
THEOREM RunsInvariant == MCSpec => []RunsInv
BY RunsInit, RunsStep, PTL DEF MCSpec

\* The maps, the queue, the tombstones and the calls hold what they are for,
\* through every hook, execution, end of a run and restart of the gateway.
THEOREM TypesStay == MCSpec => []TypeOK
<1>1. RunsInv => TypeOK
  <2> SUFFICES ASSUME RunsInv PROVE TypeOK
    OBVIOUS
  <2> USE DEF RunsInv
  <2>1. now \in 0 .. MaxTime /\ received \in [Message -> 0 .. MaxReceived] /\ tomb \in [Run -> Nat]
    BY DEF ClockInv
  <2>2. /\ \A n \in DOMAIN pending : pending[n] \in Row
        /\ claimed \subseteq Key /\ runKeys \subseteq Run \X Message
    BY DEF QueueInv, RowFits
  <2>3. /\ prepared \in [Instance -> SUBSET Run]
        /\ {inboundByRun, unverified} \subseteq [Instance -> [Run -> Binding \cup {None}]]
        /\ cached \in [Instance -> [Run -> 0 .. MaxTime \cup {None}]]
    BY DEF MapsInv
  <2>4. slots \in [Instance -> [Id -> Slot \cup {None}]]
    BY DEF SlotsInv
  <2>5. \A k \in Call : /\ call[k].stage \in {"idle", "hooked", "bound", "written", "answered", "refused"}
                        /\ call[k].stage = "bound" => call[k].inbound \in Binding
    BY DEF CallsInv, CallInv, Fits
  <2> QED BY <2>1, <2>2, <2>3, <2>4, <2>5 DEF TypeOK
<1> QED BY <1>1, RunsInvariant, PTL

\* While the host runs its calls in order, an execution acts on the message of
\* its own run, or on one that the prompt of its run gives or ends with: whatever
\* slot, handed over row or tool call id of another run it meets.
THEOREM OwnMessageStays == MCSpec => []OwnMessage
<1>1. RunsInv => OwnMessage
  BY DEF RunsInv, CallsInv, CallInv, OwnMessage
<1> QED BY <1>1, RunsInvariant, PTL

-----------------------------------------------------------------------------
(* Ended runs.                                                              *)

\* Only WriteExpense writes.
LEMMA OnlyWriteExpenseWrites ==
    ASSUME CallsInv, Next, NEW k \in Call, call[k].stage = "bound", call'[k].stage = "written"
    PROVE  WriteExpense(k)
<1>1. DOMAIN call = Call /\ \A o \in Call : call[o] \in [stage : {"idle", "hooked", "bound", "written", "answered", "refused"},
                    inst : Instance \cup {None}, id : Id \cup {None}, run : Run \cup {None},
                    inbound : Binding \cup {None}]
  BY DEF CallsInv, CallInv
<1>2. call'[k] # call[k]
  OBVIOUS
<1>3. ASSUME NEW o \in Call, Hooked(o) PROVE FALSE
  BY <1>1, <1>3 DEF Hooked
<1>4. ASSUME NEW o \in Call, NEW stage \in {"answered", "refused"}, Ends(o, stage) PROVE FALSE
  BY <1>1, <1>4 DEF Ends, Idle
<1>5. ASSUME NEW o \in Call, NEW i, NEW d, NEW s, Acts(o, i, d, s) PROVE FALSE
  BY <1>1, <1>5 DEF Acts
<1>6. ASSUME NEW o \in Call, NEW i, NEW d, NEW s, NEW q, UseSlot(i, o, d, s, q) PROVE FALSE
  BY <1>4, <1>5, <1>6, SlotUsed
<1>7. CASE Tick
  BY <1>2, <1>7 DEF Tick
<1>8. CASE GatewayRestart
  BY <1>8 DEF GatewayRestart, Idle
<1>9. ASSUME NEW m \in Message, NEW runs, MessageReceived(m, runs) PROVE FALSE
  BY <1>2, <1>9 DEF MessageReceived
<1>10. ASSUME NEW o \in Call, WriteExpense(o) PROVE o = k
  BY <1>1, <1>10 DEF WriteExpense, Ends
<1>11. ASSUME NEW o \in Call, WriteRefused(o) PROVE FALSE
  BY <1>4, <1>11 DEF WriteRefused
<1>12. ASSUME NEW i \in Instance, NEW r \in Run, BeforeAgentRun(i, r) PROVE FALSE
  BY <1>2, <1>12 DEF BeforeAgentRun
<1>13. ASSUME NEW i \in Instance, NEW r \in Run, AgentEnd(i, r) PROVE FALSE
  BY <1>2, <1>13 DEF AgentEnd
<1>14. ASSUME NEW i \in Instance, NEW r \in Run, NEW sender \in BOOLEAN, NEW scope \in BOOLEAN,
              LlmInput(i, r, sender, scope)
        PROVE FALSE
  BY <1>2, <1>14 DEF LlmInput
<1>15. ASSUME NEW i \in Instance, NEW o \in Call, HookMeetsSlot(i, o) \/ HookBinds(i, o) \/ HookTooLate(i, o)
       PROVE  FALSE
  BY <1>3, <1>15 DEF HookMeetsSlot, HookBinds, HookTooLate
<1>16. ASSUME NEW i \in Instance, NEW o \in Call, TakeOwnSlot(i, o) PROVE FALSE
  BY <1>6, <1>16 DEF TakeOwnSlot
<1>17. ASSUME NEW i \in Instance, NEW o \in Call, TakeRecovered(i, o) PROVE FALSE
  BY <1>6, <1>17 DEF TakeRecovered
<1>18. ASSUME NEW i \in Instance, NEW o \in Call, TakeCached(i, o) PROVE FALSE
  BY <1>6, <1>18 DEF TakeCached
<1>19. ASSUME NEW i \in Instance, NEW o \in Call, TakeBridged(i, o) PROVE FALSE
  BY <1>4, <1>5, <1>19 DEF TakeBridged
<1>20. ASSUME NEW i \in Instance, NEW o \in Call, NEW identity \in BOOLEAN, TakeNothing(i, o, identity) PROVE FALSE
  BY <1>4, <1>20 DEF TakeNothing
<1> QED BY <1>7, <1>8, <1>9, <1>10, <1>11, <1>12, <1>13, <1>14, <1>15, <1>16, <1>17, <1>18, <1>19, <1>20 DEF Next

\* No write is made for a run after its end, also when the tombstone has
\* expired: what was bound before the end is too old by then.
THEOREM EndedRunsStayQuiet == MCSpec => EndedRunsWriteNothing
<1> USE AgesAssumption DEF AgesAssumption
<1>1. RunsInv /\ [MCNext]_<<vars, qvars, nvars, cast>> =>
        [\A k \in Call : call[k].stage = "bound" /\ call'[k].stage = "written"
                           => tomb[call[k].run] = 0]_vars
  <2> SUFFICES ASSUME RunsInv, [MCNext]_<<vars, qvars, nvars, cast>>, ~(UNCHANGED vars), NEW k \in Call,
                      call[k].stage = "bound", call'[k].stage = "written"
               PROVE  tomb[call[k].run] = 0
    OBVIOUS
  <2>1. Next
    BY DEF MCNext
  <2>2. WriteExpense(k)
    BY <2>1, OnlyWriteExpenseWrites DEF RunsInv
  <2>3. PICK r, b : r = call[k].run /\ b = call[k].inbound
    OBVIOUS
  <2>4. Fresh(b, MaxAge) /\ ~Ended(r)
    BY <2>2, <2>3 DEF WriteExpense, StillAuthorized
  <2>5. r \in Run /\ Fits(r, b) /\ ClockInv
    BY <2>3 DEF RunsInv, CallsInv, CallInv
  <2>6. now \in Nat /\ tomb[r] \in Nat /\ b.at \in Nat /\ (tomb[r] # 0 => b.at + EndTtl <= tomb[r])
    BY <2>5 DEF ClockInv, Fits
  <2>7. tomb[r] # 0 => tomb[r] < now
    BY <2>4, <2>6 DEF Ended
  <2>8. now <= b.at + MaxAge
    BY <2>4, <2>6 DEF Fresh
  <2>9. tomb[r] = 0
    BY <2>6, <2>7, <2>8
  <2> QED BY <2>3, <2>9
<1> QED BY <1>1, RunsInvariant, PTL DEF MCSpec, EndedRunsWriteNothing
=============================================================================
