------------------------- MODULE ExpenseWriteProofs -------------------------
(***************************************************************************)
(* Proofs about ExpenseWrite for any number of calls, messages, pictures   *)
(* and orders: type correctness, the inductive invariant IndInv, the safety *)
(* theorems that follow from it, and that the pipeline implements           *)
(* ExactlyOnceLedger under the mapping of LedgerPromise.                    *)
(***************************************************************************)
EXTENDS LedgerPromise, TLAPS

JobsTyped ==
    /\ job \in [Workers -> Job]
    /\ \A w \in Workers : WellFormed(job[w])

-----------------------------------------------------------------------------
(* Typing.                                                                  *)

\* Replacing one job by a well-typed one keeps all jobs well typed.
LEMMA OneJobTyped ==
    ASSUME JobsTyped, NEW w \in Workers, NEW j \in Job, WellFormed(j),
           job' = [job EXCEPT ![w] = j]
    PROVE  JobsTyped'
BY DEF JobsTyped, WellFormed, HasImage

LEMMA IdleTyped == Idle \in Job /\ Idle.at = "idle" /\ Idle.step = "read" /\ WellFormed(Idle)
BY DEF Idle, Job, Stage, OrderOrNone, WellFormed, Refreshing

LEMMA MovedTyped ==
    ASSUME NEW j \in Job, NEW s \in Stage
    PROVE  LET k == [j EXCEPT !.at = s, !.step = "read", !.owner = NoMsg, !.tx = 0]
           IN  k \in Job /\ k.at = s /\ k.msg = j.msg /\ k.order = j.order
               /\ k.confirmed = j.confirmed /\ k.step = "read"
BY DEF Job, Stage, OrderOrNone

\* The moves of a call keep every job well typed.
LEMMA FinishTyped ==
    ASSUME JobsTyped, NEW w \in Workers, Finish(w)
    PROVE  JobsTyped'
BY IdleTyped, OneJobTyped DEF Finish

LEMMA GoToTyped ==
    ASSUME JobsTyped, NEW w \in Workers, NEW s \in Stage, job[w].at # "idle", GoTo(w, s),
           s \in Refreshing \cup {"decide"} => HasImage(job[w].msg),
           s \in {"ord1", "ord2"} => job[w].order # NoOrder
    PROVE  JobsTyped'
<1> DEFINE k == [job[w] EXCEPT !.at = s, !.step = "read", !.owner = NoMsg, !.tx = 0]
<1>1. job[w] \in Job /\ job[w].msg \in Messages
  BY DEF JobsTyped, WellFormed
<1>2. k \in Job /\ k.at = s /\ k.msg = job[w].msg /\ k.order = job[w].order /\ k.step = "read"
  BY <1>1, MovedTyped
<1>3. job' = [job EXCEPT ![w] = k]
  BY DEF GoTo
<1> HIDE DEF k
<1>4. WellFormed(k)
  BY <1>1, <1>2 DEF WellFormed
<1> QED BY <1>2, <1>3, <1>4, OneJobTyped

LEMMA RefreshTyped ==
    ASSUME JobsTyped, NEW w \in Workers, job[w].at \in Refreshing, Blocked(w) \/ Unblocked(w)
    PROVE  JobsTyped'
<1>1. /\ AfterRefresh(job[w]) \in Stage
      /\ AfterRefresh(job[w]) \in {"ord1", "ord2"} => job[w].order # NoOrder
  BY DEF AfterRefresh, Stage
<1>2. job[w].at # "idle" /\ HasImage(job[w].msg)
  BY DEF Refreshing, JobsTyped, WellFormed
<1> QED BY <1>1, <1>2, FinishTyped, GoToTyped DEF Blocked, Unblocked

LEMMA KeyTyped ==
    ASSUME NEW j \in Job, WellFormed(j), j.at \in Refreshing
    PROVE  KeyAt(j) \in Keys
BY ConstantsAssumption
   DEF KeyAt, WellFormed, Refreshing, HasImage, Keys, Job, OrderOrNone

-----------------------------------------------------------------------------
(* Type correctness.                                                        *)

LEMMA InitTypeOK == Init => TypeOK
BY ConstantsAssumption, IdleTyped
   DEF Init, TypeOK, Keys, Status, OrderOrNone, NoProposal

LEMMA PersistTyped ==
    ASSUME TypeOK, NEW m \in Messages, NEW s \in Status, NEW t \in Nat, PersistOutcome(m, s, t)
    PROVE  status' \in [Messages -> Status] /\ txid' \in [Messages -> Nat]
BY DEF TypeOK, PersistOutcome, receipts

LEMMA NextTypeOK == TypeOK /\ [Next]_vars => TypeOK'
<1> SUFFICES ASSUME TypeOK, [Next]_vars PROVE TypeOK'
  OBVIOUS
<1>a. JobsTyped
  BY DEF TypeOK, JobsTyped
<1>b. ASSUME JobsTyped', UNCHANGED <<receipts, link, proposal, ledger>> PROVE TypeOK'
  BY <1>b DEF TypeOK, JobsTyped, receipts, ledger
<1>c. ASSUME JobsTyped', status' \in [Messages -> Status], txid' \in [Messages -> Nat],
             link' \in [Keys -> Messages \cup {NoMsg}], UNCHANGED <<proposal, ledger>>
      PROVE  TypeOK'
  BY <1>c DEF TypeOK, JobsTyped, ledger
<1>1. ASSUME NEW w \in Workers, NEW m \in Messages, NEW o \in OrderOrNone, Deliver(w, m, o)
      PROVE  TypeOK'
  <2> DEFINE j == [Idle EXCEPT !.at = IF HasImage(m) THEN "att1" ELSE "claim", !.msg = m, !.order = o]
  <2>1. j \in Job /\ WellFormed(j)
    BY DEF Idle, Job, Stage, OrderOrNone, WellFormed, Refreshing
  <2>2. job' = [job EXCEPT ![w] = j]
    BY <1>1 DEF Deliver
  <2> HIDE DEF j
  <2>3. JobsTyped'
    BY <1>a, <2>1, <2>2, OneJobTyped
  <2> QED BY <1>1, <1>b, <2>3 DEF Deliver
<1>2. ASSUME NEW w \in Workers, NEW m \in Messages, Confirm(w, m) PROVE TypeOK'
  <2> DEFINE j == [Idle EXCEPT !.at = "att2", !.msg = m, !.confirmed = TRUE, !.order = proposal[m].order]
  <2>1. HasImage(m) /\ proposal[m].order \in OrderOrNone
    BY <1>2 DEF Confirm, TypeOK
  <2>2. j \in Job /\ WellFormed(j)
    BY <2>1 DEF Idle, Job, Stage, WellFormed, Refreshing
  <2>3. job' = [job EXCEPT ![w] = j]
    BY <1>2 DEF Confirm
  <2> HIDE DEF j
  <2>4. JobsTyped'
    BY <1>a, <2>2, <2>3, OneJobTyped
  <2>5. /\ proposal' \in [Messages -> [status: {"none", "active", "spent"}, order: OrderOrNone]]
        /\ \A n \in Messages : proposal'[n].status = "active" => HasImage(n)
    BY <1>2 DEF Confirm, TypeOK, Spent, OrderOrNone
  <2> QED BY <1>2, <2>4, <2>5 DEF Confirm, TypeOK, JobsTyped, receipts, ledger
<1>3. ASSUME NEW w \in Workers, ReadLink(w) PROVE TypeOK'
  <2> DEFINE owner == link[KeyAt(job[w])]
  <2>0. job[w] \in Job /\ WellFormed(job[w]) /\ job[w].at \in Refreshing
    BY <1>3, <1>a DEF ReadLink, JobsTyped
  <2>1. CASE Blocked(w) \/ Unblocked(w)
    BY <1>3, <1>a, <1>b, <2>0, <2>1, RefreshTyped DEF ReadLink
  <2>2. CASE job' = [job EXCEPT ![w] = [@ EXCEPT !.step = "lookup", !.owner = owner, !.tx = txid[owner]]]
             /\ owner # NoMsg
    <3>1. owner \in Messages /\ txid[owner] \in Nat
      BY <2>0, <2>2, KeyTyped DEF TypeOK
    <3> DEFINE t == txid[owner]
    <3> DEFINE k == [job[w] EXCEPT !.step = "lookup", !.owner = owner, !.tx = t]
    <3>3. job' = [job EXCEPT ![w] = k]
      BY <2>2
    <3> HIDE DEF owner
    <3>a. t \in Nat
      BY <3>1
    <3> HIDE DEF t
    <3>2. k \in Job /\ k.at = job[w].at /\ k.msg = job[w].msg /\ k.order = job[w].order
      BY <2>0, <3>1, <3>a DEF Job
    <3> HIDE DEF k
    <3>4. WellFormed(k)
      BY <2>0, <3>2 DEF WellFormed, Refreshing
    <3> QED BY <1>3, <1>a, <1>b, <3>2, <3>3, <3>4, OneJobTyped DEF ReadLink
  <2> QED BY <1>3, <2>1, <2>2 DEF ReadLink
<1>4. ASSUME NEW w \in Workers, LookupFound(w) PROVE TypeOK'
  <2>1. job[w].at \in Refreshing
    BY <1>4, <1>a DEF LookupFound, JobsTyped, WellFormed
  <2> QED BY <1>4, <1>a, <1>b, <2>1, RefreshTyped DEF LookupFound
<1>5. ASSUME NEW w \in Workers, LookupFails(w) \/ ReviewRefuses(w) \/ ClaimLoses(w) \/ Crash(w)
      PROVE  TypeOK'
  BY <1>5, <1>a, <1>b, FinishTyped DEF LookupFails, ReviewRefuses, ClaimLoses, Crash
<1>6. ASSUME NEW w \in Workers, LookupGone(w) PROVE TypeOK'
  <2>1. CASE Finish(w) /\ UNCHANGED link
    BY <1>6, <1>a, <1>b, <2>1, FinishTyped DEF LookupGone
  <2>2. CASE /\ link' = [k \in Keys |-> IF link[k] = job[w].owner THEN NoMsg ELSE link[k]]
             /\ job' = [job EXCEPT ![w] = [@ EXCEPT !.step = "reread", !.owner = NoMsg, !.tx = 0]]
    <3>0. job[w] \in Job /\ WellFormed(job[w]) /\ job[w].at \in Refreshing
      BY <1>6, <1>a DEF LookupGone, JobsTyped, WellFormed
    <3> DEFINE k == [job[w] EXCEPT !.step = "reread", !.owner = NoMsg, !.tx = 0]
    <3>1. k \in Job /\ k.at = job[w].at /\ k.msg = job[w].msg /\ k.order = job[w].order
      BY <3>0 DEF Job
    <3>2. job' = [job EXCEPT ![w] = k]
      BY <2>2
    <3> HIDE DEF k
    <3>3. WellFormed(k)
      BY <3>0, <3>1 DEF WellFormed, Refreshing
    <3>4. JobsTyped'
      BY <1>a, <3>1, <3>2, <3>3, OneJobTyped
    <3>5. link' \in [Keys -> Messages \cup {NoMsg}]
      BY <2>2 DEF TypeOK
    <3> QED BY <1>6, <1>c, <3>4, <3>5 DEF LookupGone, TypeOK, receipts
  <2> QED BY <1>6, <2>1, <2>2 DEF LookupGone
<1>7. ASSUME NEW w \in Workers, Reread(w) PROVE TypeOK'
  <2>1. job[w].at \in Refreshing
    BY <1>7, <1>a DEF Reread, JobsTyped, WellFormed
  <2> QED BY <1>7, <1>a, <1>b, <2>1, RefreshTyped DEF Reread
<1>8. ASSUME NEW w \in Workers, StoreImageProposal(w) PROVE TypeOK'
  <2>1. JobsTyped'
    BY <1>8, <1>a, FinishTyped DEF StoreImageProposal
  <2>2. HasImage(job[w].msg) /\ job[w].order \in OrderOrNone
    BY <1>8, <1>a DEF StoreImageProposal, JobsTyped, WellFormed, Job
  <2>3. /\ proposal' \in [Messages -> [status: {"none", "active", "spent"}, order: OrderOrNone]]
        /\ \A n \in Messages : proposal'[n].status = "active" => HasImage(n)
    BY <1>8, <2>2 DEF StoreImageProposal, TypeOK
  <2> QED BY <1>8, <2>1, <2>3 DEF StoreImageProposal, TypeOK, JobsTyped, receipts, ledger
<1>9. ASSUME NEW w \in Workers, RecordDirectly(w) PROVE TypeOK'
  <2>1. job[w].at = "decide" /\ HasImage(job[w].msg)
    BY <1>9, <1>a DEF RecordDirectly, JobsTyped, WellFormed
  <2> QED BY <1>9, <1>a, <1>b, <2>1, GoToTyped DEF RecordDirectly, Stage
<1>10. ASSUME NEW w \in Workers, ClaimWins(w) PROVE TypeOK'
  <2>1. job[w].at = "claim" /\ job[w].msg \in Messages
    BY <1>10, <1>a DEF ClaimWins, JobsTyped, WellFormed
  <2>2. JobsTyped'
    BY <1>10, <1>a, <2>1, GoToTyped DEF ClaimWins, Stage, Refreshing
  <2>3. status' \in [Messages -> Status] /\ link' \in [Keys -> Messages \cup {NoMsg}]
    BY <1>10, <2>1 DEF ClaimWins, TypeOK, Status
  <2> QED BY <1>10, <1>c, <2>2, <2>3 DEF ClaimWins, TypeOK
<1>11. ASSUME NEW w \in Workers, ResolveFails(w) \/ PostAnswered(w) \/ PostUncertain(w)
       PROVE  TypeOK'
  <2>1. job[w].msg \in Messages /\ job[w].tx \in Nat
    BY <1>11, <1>a DEF ResolveFails, PostAnswered, PostUncertain, JobsTyped, WellFormed, Job
  <2>2. status' \in [Messages -> Status] /\ txid' \in [Messages -> Nat]
    BY <1>11, <2>1, PersistTyped DEF ResolveFails, PostAnswered, PostUncertain, Status
  <2>3. JobsTyped'
    BY <1>11, <1>a, FinishTyped DEF ResolveFails, PostAnswered, PostUncertain
  <2> QED BY <1>11, <1>c, <2>2, <2>3 DEF ResolveFails, PostAnswered, PostUncertain, TypeOK
<1>12. ASSUME NEW w \in Workers, SendPost(w) PROVE TypeOK'
  <2> DEFINE k == [job[w] EXCEPT !.at = "post", !.tx = nextId]
  <2>0. job[w] \in Job /\ job[w].msg \in Messages /\ job[w].at = "resolve" /\ nextId \in Nat
        /\ job[w].step = "read"
    BY <1>12, <1>a DEF SendPost, JobsTyped, WellFormed, TypeOK, Job, Refreshing
  <2>1. k \in Job /\ k.at = "post" /\ k.msg = job[w].msg /\ k.step = "read"
    BY <2>0 DEF Job, Stage
  <2>2. job' = [job EXCEPT ![w] = k]
    BY <1>12 DEF SendPost
  <2> HIDE DEF k
  <2>3. WellFormed(k)
    BY <2>0, <2>1 DEF WellFormed, Refreshing
  <2>4. JobsTyped'
    BY <1>a, <2>1, <2>2, <2>3, OneJobTyped
  <2>5. job[w].order \in OrderOrNone /\ (~job[w].confirmed) \in BOOLEAN
    BY <2>0 DEF Job
  <2>6. /\ posts' \subseteq [id: Nat, msg: Messages, order: OrderOrNone, direct: BOOLEAN]
        /\ inflight' \subseteq Nat /\ nextId' \in Nat \ {0}
    <3> DEFINE p == [id |-> nextId, msg |-> job[w].msg, order |-> job[w].order,
                     direct |-> ~job[w].confirmed]
    <3>1. p \in [id: Nat, msg: Messages, order: OrderOrNone, direct: BOOLEAN]
      BY <2>0, <2>5
    <3>2. posts' = posts \cup {p}
      BY <1>12 DEF SendPost
    <3> HIDE DEF p
    <3>3. posts' \subseteq [id: Nat, msg: Messages, order: OrderOrNone, direct: BOOLEAN]
      BY <3>1, <3>2 DEF TypeOK
    <3>4. inflight' \subseteq Nat /\ nextId' \in Nat \ {0}
      BY <1>12, <2>0 DEF SendPost, TypeOK
    <3> QED BY <3>3, <3>4
  <2> QED BY <1>12, <2>4, <2>6 DEF SendPost, TypeOK, JobsTyped, receipts
<1>13. ASSUME NEW m \in Messages, CancelOrExpire(m) PROVE TypeOK'
  BY <1>13 DEF CancelOrExpire, TypeOK, Spent, OrderOrNone, receipts, ledger
<1>14. ASSUME NEW t, t \in inflight, LedgerApplies(t) \/ LedgerRefuses(t) PROVE TypeOK'
  BY <1>14 DEF LedgerApplies, LedgerRefuses, TypeOK, receipts
<1>15. ASSUME NEW t, t \in live, OwnerDeletes(t) PROVE TypeOK'
  BY <1>15 DEF OwnerDeletes, TypeOK, receipts
<1>16. ASSUME UNCHANGED vars PROVE TypeOK'
  BY <1>16 DEF vars, TypeOK
<1> QED BY <1>1, <1>2, <1>3, <1>4, <1>5, <1>6, <1>7, <1>8, <1>9, <1>10, <1>11, <1>12, <1>13,
           <1>14, <1>15, <1>16 DEF Next, Step

(* The receipts, links, proposals, jobs and ledger sets always have their  *)
(* types, and a call at a stage always carries what that stage reads.      *)
THEOREM TypeCorrect == Spec => []TypeOK
BY InitTypeOK, NextTypeOK, PTL DEF Spec

-----------------------------------------------------------------------------
(* The inductive invariant.                                                *)

Core ==
    /\ IdsFresh /\ OneBusyCall /\ BusyCallsPost /\ EvidenceIsOwned
    /\ AtMostOncePerMessage /\ ReceiptsTellTheTruth

\* The call w holds no claim after the step, and the other calls do not move.
HoldsNoClaim(w) ==
    /\ job'[w].at \notin Busy
    /\ \A v \in Workers \ {w} : job'[v] = job[v]

LEMMA FinishHoldsNoClaim ==
    ASSUME JobsTyped, NEW w \in Workers, Finish(w)
    PROVE  HoldsNoClaim(w)
BY IdleTyped DEF Finish, HoldsNoClaim, JobsTyped, Busy

LEMMA GoToHoldsNoClaim ==
    ASSUME JobsTyped, NEW w \in Workers, NEW s \in Stage \ Busy, GoTo(w, s)
    PROVE  HoldsNoClaim(w)
<1> DEFINE k == [job[w] EXCEPT !.at = s, !.step = "read", !.owner = NoMsg, !.tx = 0]
<1>1. job[w] \in Job
  BY DEF JobsTyped
<1>2. k.at = s
  BY <1>1, MovedTyped
<1>3. job' = [job EXCEPT ![w] = k]
  BY DEF GoTo
<1> HIDE DEF k
<1> QED BY <1>2, <1>3 DEF HoldsNoClaim, JobsTyped, Busy

LEMMA RefreshHoldsNoClaim ==
    ASSUME JobsTyped, NEW w \in Workers, Blocked(w) \/ Unblocked(w)
    PROVE  HoldsNoClaim(w)
<1>1. AfterRefresh(job[w]) \in Stage \ Busy
  BY DEF AfterRefresh, Stage, Busy
<1> QED BY <1>1, FinishHoldsNoClaim, GoToHoldsNoClaim DEF Blocked, Unblocked

\* A step that leaves the receipts, the links and the ledger alone and gives
\* nobody a claim keeps everything.
LEMMA QuietStep ==
    ASSUME TypeOK, Core, NEW w \in Workers, HoldsNoClaim(w),
           UNCHANGED <<receipts, link, ledger>>
    PROVE  Core'
<1> USE DEF receipts, ledger, HoldsNoClaim, Core
<1>1. IdsFresh' /\ AtMostOncePerMessage' /\ ReceiptsTellTheTruth'
  BY DEF IdsFresh, AtMostOncePerMessage, ReceiptsTellTheTruth, Open
<1>2. OneBusyCall'
  BY DEF OneBusyCall
<1>3. BusyCallsPost'
  BY DEF BusyCallsPost, PostsOf, Busy
<1>4. EvidenceIsOwned'
  BY DEF EvidenceIsOwned, Busy, Open
<1> QED BY <1>1, <1>2, <1>3, <1>4

\* Release: the links that go belong to a message whose transaction is deleted.
LEMMA LookupGoneStep ==
    ASSUME TypeOK, Core, NEW w \in Workers, LookupGone(w)
    PROVE  Core'
<1> USE DEF Core
<1>0. JobsTyped
  BY DEF TypeOK, JobsTyped
<1>1. CASE Finish(w) /\ UNCHANGED link
  BY <1>0, <1>1, FinishHoldsNoClaim, QuietStep DEF LookupGone
<1>2. CASE /\ status[job[w].owner] = "created" /\ txid[job[w].owner] = job[w].tx
           /\ link' = [k \in Keys |-> IF link[k] = job[w].owner THEN NoMsg ELSE link[k]]
           /\ job' = [job EXCEPT ![w] = [@ EXCEPT !.step = "reread", !.owner = NoMsg, !.tx = 0]]
  <2> DEFINE m == job[w].owner
  <2>0. job[w] \in Job /\ job[w].at \in Refreshing
    BY <1>0, <1>2 DEF LookupGone, JobsTyped, WellFormed
  <2>1. job'[w].at = job[w].at /\ \A v \in Workers \ {w} : job'[v] = job[v]
    BY <1>0, <1>2, <2>0 DEF JobsTyped, Job
  <2>2. HoldsNoClaim(w)
    BY <2>0, <2>1 DEF HoldsNoClaim, Refreshing, Busy
  <2>3. UNCHANGED <<status, txid, posts, inflight, live, deleted, nextId>>
    BY DEF LookupGone, receipts, ledger
  <2>4. IdsFresh' /\ AtMostOncePerMessage' /\ ReceiptsTellTheTruth'
    BY <2>3 DEF IdsFresh, AtMostOncePerMessage, ReceiptsTellTheTruth, Open
  <2>5. OneBusyCall' /\ BusyCallsPost'
    BY <2>2, <2>3 DEF OneBusyCall, BusyCallsPost, PostsOf, HoldsNoClaim, Busy
  <2>6. \A k \in Keys : link[k] # m => link'[k] = link[k]
    BY <1>2
  <2>7. \A p \in posts : m \in Messages /\ p.msg = m => p.id \notin Open
    <3> SUFFICES ASSUME NEW p \in posts, m \in Messages, p.msg = m PROVE p.id \notin Open
      OBVIOUS
    <3>1. PICK q \in posts : q.msg = m /\ q.id = txid[m] /\ txid[m] \in live \cup deleted
      BY <1>2 DEF ReceiptsTellTheTruth
    <3>2. p.id = txid[m]
      BY <3>1 DEF AtMostOncePerMessage
    <3>3. txid[m] \notin live
      BY <1>2 DEF LookupGone
    <3> QED BY <3>1, <3>2, <3>3 DEF IdsFresh
  <2>8. \A v \in Workers : job'[v].at = "resolve" =>
          job'[v] = job[v] /\ job[v].msg \in Messages /\ job[v].msg # m /\ job[v] \in Job
    BY <1>0, <1>2, <2>2 DEF HoldsNoClaim, OneBusyCall, Busy, JobsTyped, WellFormed
  <2>9. \A v \in Workers : job'[v].at = "resolve" =>
          /\ HasImage(job'[v].msg) => link'[ImageOf[job'[v].msg]] = job'[v].msg
          /\ job'[v].order # NoOrder /\ ~job'[v].confirmed => link'[job'[v].order] = job'[v].msg
    <3> SUFFICES ASSUME NEW v \in Workers, job'[v].at = "resolve"
                 PROVE  /\ HasImage(job[v].msg) => link'[ImageOf[job[v].msg]] = job[v].msg
                        /\ job[v].order # NoOrder /\ ~job[v].confirmed => link'[job[v].order] = job[v].msg
      BY <2>8
    <3>1. HasImage(job[v].msg) => ImageOf[job[v].msg] \in Keys
      BY <2>8, ConstantsAssumption DEF HasImage, Keys
    <3>2. job[v].order # NoOrder => job[v].order \in Keys
      BY <2>8 DEF Job, OrderOrNone, Keys
    <3> QED BY <2>6, <2>8, <3>1, <3>2 DEF EvidenceIsOwned
  <2>10. \A p \in posts : p.id \in Open =>
          /\ HasImage(p.msg) => link'[ImageOf[p.msg]] = p.msg
          /\ p.order # NoOrder /\ p.direct => link'[p.order] = p.msg
    <3> SUFFICES ASSUME NEW p \in posts, p.id \in Open
                 PROVE  /\ HasImage(p.msg) => link'[ImageOf[p.msg]] = p.msg
                        /\ p.order # NoOrder /\ p.direct => link'[p.order] = p.msg
      OBVIOUS
    <3>1. p.msg \in Messages /\ p.order \in OrderOrNone
      BY DEF TypeOK
    <3>2. HasImage(p.msg) => ImageOf[p.msg] \in Keys
      BY <3>1, ConstantsAssumption DEF HasImage, Keys
    <3>3. p.order # NoOrder => p.order \in Keys
      BY <3>1 DEF OrderOrNone, Keys
    <3>4. p.msg # m
      BY <2>7, <3>1
    <3> QED BY <2>6, <3>2, <3>3, <3>4 DEF EvidenceIsOwned
  <2>11. EvidenceIsOwned'
    BY <2>3, <2>9, <2>10 DEF EvidenceIsOwned, Open
  <2> QED BY <2>4, <2>5, <2>11
<1> QED BY <1>1, <1>2 DEF LookupGone

\* The claim: the message was never posted, and its evidence was free or its own.
LEMMA ClaimWinsStep ==
    ASSUME TypeOK, Core, NEW w \in Workers, ClaimWins(w)
    PROVE  Core'
<1> USE DEF Core
<1> DEFINE j == job[w]
           m == job[w].msg
<1>0. JobsTyped
  BY DEF TypeOK, JobsTyped
<1>1. /\ j \in Job /\ j.at = "claim" /\ m \in Messages /\ status[m] = "none"
      /\ \A k \in ClaimKeys(j) : link[k] \in {NoMsg, m}
  BY <1>0 DEF ClaimWins, Claimable, JobsTyped, WellFormed
<1>2. /\ status' = [status EXCEPT ![m] = "pending"]
      /\ link' = [k \in Keys |-> IF k \in OwnKeys(j) /\ link[k] = NoMsg THEN m ELSE link[k]]
      /\ UNCHANGED <<txid, posts, inflight, live, deleted, nextId>>
  BY DEF ClaimWins, ledger
<1> DEFINE k0 == [job[w] EXCEPT !.at = "resolve", !.step = "read", !.owner = NoMsg, !.tx = 0]
<1>3. /\ job' = [job EXCEPT ![w] = k0] /\ k0.at = "resolve" /\ k0.msg = m
      /\ k0.order = j.order /\ k0.confirmed = j.confirmed
  <2>1. job' = [job EXCEPT ![w] = k0]
    BY DEF ClaimWins, GoTo
  <2>2. k0.at = "resolve" /\ k0.msg = m /\ k0.order = j.order /\ k0.confirmed = j.confirmed
    BY <1>1 DEF Job
  <2> QED BY <2>1, <2>2
<1> HIDE DEF k0
<1>4. /\ job'[w].at = "resolve" /\ job'[w].msg = m /\ job'[w].order = j.order
      /\ job'[w].confirmed = j.confirmed
      /\ \A v \in Workers \ {w} : job'[v] = job[v]
  BY <1>0, <1>3 DEF JobsTyped
<1>5. PostsOf(m) = {}
  BY <1>1 DEF ReceiptsTellTheTruth, PostsOf
<1>6. \A v \in Workers : job[v].at \in Busy => job[v].msg # m /\ job[v].msg \in Messages /\ v # w
  BY <1>0, <1>1 DEF OneBusyCall, JobsTyped, WellFormed, Busy
<1>7. IdsFresh' /\ AtMostOncePerMessage'
  BY <1>2 DEF IdsFresh, AtMostOncePerMessage, Open
<1>8. ReceiptsTellTheTruth'
  BY <1>1, <1>2 DEF ReceiptsTellTheTruth, TypeOK
<1>9. OneBusyCall'
  <2>1. status'[m] = "pending" /\ \A n \in Messages \ {m} : status'[n] = status[n]
    BY <1>1, <1>2 DEF TypeOK
  <2>2. \A v \in Workers : job'[v].at \in Busy => status'[job'[v].msg] = "pending"
    BY <1>4, <1>6, <2>1 DEF OneBusyCall
  <2>3. \A u, v \in Workers : job'[u].at \in Busy /\ job'[v].at \in Busy
                              /\ job'[u].msg = job'[v].msg => u = v
    BY <1>4, <1>6 DEF OneBusyCall
  <2> QED BY <2>2, <2>3 DEF OneBusyCall
<1>10. BusyCallsPost'
  BY <1>2, <1>4, <1>5 DEF BusyCallsPost, PostsOf
<1>11. \A k \in Keys : link[k] # NoMsg => link'[k] = link[k]
  BY <1>2
<1>12. \A k \in ClaimKeys(j) \cap Keys : link'[k] = m
  BY <1>1, <1>2 DEF ClaimKeys
<1>13. /\ HasImage(m) => ImageOf[m] \in ClaimKeys(j) \cap Keys
       /\ j.order # NoOrder /\ ~j.confirmed => j.order \in ClaimKeys(j) \cap Keys
  BY <1>1, ConstantsAssumption DEF ClaimKeys, OwnKeys, HasImage, Keys, Job, OrderOrNone
<1>14. \A v \in Workers \ {w} : job[v].at = "resolve" =>
          /\ HasImage(job[v].msg) => link'[ImageOf[job[v].msg]] = job[v].msg
          /\ job[v].order # NoOrder /\ ~job[v].confirmed => link'[job[v].order] = job[v].msg
  <2> SUFFICES ASSUME NEW v \in Workers \ {w}, job[v].at = "resolve"
               PROVE  /\ HasImage(job[v].msg) => link'[ImageOf[job[v].msg]] = job[v].msg
                      /\ job[v].order # NoOrder /\ ~job[v].confirmed => link'[job[v].order] = job[v].msg
    OBVIOUS
  <2>1. job[v].msg \in Messages /\ job[v].msg # NoMsg /\ job[v] \in Job
    BY <1>0, <1>6, ConstantsAssumption DEF Busy, JobsTyped
  <2>2. HasImage(job[v].msg) => ImageOf[job[v].msg] \in Keys
    BY <2>1, ConstantsAssumption DEF HasImage, Keys
  <2>3. job[v].order # NoOrder => job[v].order \in Keys
    BY <2>1 DEF Job, OrderOrNone, Keys
  <2> QED BY <1>11, <2>1, <2>2, <2>3 DEF EvidenceIsOwned
<1>15. \A p \in posts : p.id \in Open =>
          /\ HasImage(p.msg) => link'[ImageOf[p.msg]] = p.msg
          /\ p.order # NoOrder /\ p.direct => link'[p.order] = p.msg
  <2> SUFFICES ASSUME NEW p \in posts, p.id \in Open
               PROVE  /\ HasImage(p.msg) => link'[ImageOf[p.msg]] = p.msg
                      /\ p.order # NoOrder /\ p.direct => link'[p.order] = p.msg
    OBVIOUS
  <2>1. p.msg \in Messages /\ p.msg # NoMsg /\ p.order \in OrderOrNone
    BY ConstantsAssumption DEF TypeOK
  <2>2. HasImage(p.msg) => ImageOf[p.msg] \in Keys
    BY <2>1, ConstantsAssumption DEF HasImage, Keys
  <2>3. p.order # NoOrder => p.order \in Keys
    BY <2>1 DEF OrderOrNone, Keys
  <2> QED BY <1>11, <2>1, <2>2, <2>3 DEF EvidenceIsOwned
<1>16. EvidenceIsOwned'
  BY <1>2, <1>4, <1>12, <1>13, <1>14, <1>15 DEF EvidenceIsOwned, Open
<1> QED BY <1>7, <1>8, <1>9, <1>10, <1>16

\* The call that holds the claim ends, with its outcome stored or not.
LEMMA SettleStep ==
    ASSUME TypeOK, Core, NEW w \in Workers,
           ResolveFails(w) \/ PostAnswered(w) \/ PostUncertain(w)
    PROVE  Core'
<1> USE DEF Core
<1> DEFINE m == job[w].msg
<1>0. JobsTyped
  BY DEF TypeOK, JobsTyped
<1>1. /\ job[w].at \in Busy /\ m \in Messages /\ status[m] = "pending"
      /\ UNCHANGED <<link, posts, inflight, live, deleted, nextId>>
  BY <1>0 DEF ResolveFails, PostAnswered, PostUncertain, OneBusyCall, JobsTyped, WellFormed,
              Busy, ledger
<1>2. HoldsNoClaim(w)
  BY <1>0, FinishHoldsNoClaim DEF ResolveFails, PostAnswered, PostUncertain
<1>3. \A n \in Messages \ {m} : status'[n] = status[n] /\ txid'[n] = txid[n]
  BY <1>1 DEF ResolveFails, PostAnswered, PostUncertain, PersistOutcome, receipts, TypeOK
<1>4. \A v \in Workers \ {w} : job[v].at \in Busy => job[v].msg # m /\ job[v].msg \in Messages
  BY <1>0, <1>1 DEF OneBusyCall, JobsTyped, WellFormed, Busy
<1>5. IdsFresh' /\ AtMostOncePerMessage' /\ EvidenceIsOwned' /\ BusyCallsPost'
  BY <1>1, <1>2 DEF IdsFresh, AtMostOncePerMessage, EvidenceIsOwned, BusyCallsPost, PostsOf,
                    HoldsNoClaim, Busy, Open
<1>6. OneBusyCall'
  BY <1>1, <1>2, <1>3, <1>4 DEF OneBusyCall, HoldsNoClaim
<1>7. /\ status'[m] = "created" =>
            \E p \in posts : p.msg = m /\ p.id = txid'[m] /\ txid'[m] \in live \cup deleted
      /\ status'[m] \in {"none", "failed"} => \A p \in posts : p.msg # m
  <2>1. CASE ResolveFails(w)
    BY <1>1, <2>1 DEF ResolveFails, PersistOutcome, receipts, TypeOK, BusyCallsPost, PostsOf
  <2>2. CASE PostAnswered(w)
    BY <1>1, <2>2 DEF PostAnswered, PersistOutcome, receipts, TypeOK, BusyCallsPost
  <2>3. CASE PostUncertain(w)
    BY <1>1, <2>3 DEF PostUncertain, PersistOutcome, receipts, TypeOK
  <2> QED BY <2>1, <2>2, <2>3
<1>8. ReceiptsTellTheTruth'
  BY <1>1, <1>3, <1>7 DEF ReceiptsTellTheTruth
<1> QED BY <1>5, <1>6, <1>8

\* The POST leaves: a fresh id, the message's only post, its evidence owned.
LEMMA SendPostStep ==
    ASSUME TypeOK, Core, NEW w \in Workers, SendPost(w)
    PROVE  Core'
<1> USE DEF Core
<1> DEFINE m == job[w].msg
           p0 == [id |-> nextId, msg |-> m, order |-> job[w].order, direct |-> ~job[w].confirmed]
           j0 == [job[w] EXCEPT !.at = "post", !.tx = nextId]
<1>0. JobsTyped
  BY DEF TypeOK, JobsTyped
<1>1. /\ job[w] \in Job /\ job[w].at = "resolve" /\ m \in Messages /\ status[m] = "pending"
      /\ PostsOf(m) = {} /\ nextId \in Nat
  BY <1>0 DEF SendPost, OneBusyCall, BusyCallsPost, JobsTyped, WellFormed, Busy, TypeOK
<1>2. /\ posts' = posts \cup {p0} /\ job' = [job EXCEPT ![w] = j0]
      /\ inflight' = inflight \cup {nextId} /\ nextId' = nextId + 1
      /\ UNCHANGED <<status, txid, link, live, deleted>>
  BY DEF SendPost, receipts
<1>3. /\ p0.id = nextId /\ p0.msg = m /\ p0.order = job[w].order /\ p0.direct = ~job[w].confirmed
  OBVIOUS
<1>4. j0.at = "post" /\ j0.msg = m /\ j0.tx = nextId
  BY <1>1 DEF Job
<1> HIDE DEF p0, j0
<1>5. /\ job'[w].at = "post" /\ job'[w].msg = m /\ job'[w].tx = nextId
      /\ \A v \in Workers \ {w} : job'[v] = job[v]
  BY <1>0, <1>2, <1>4 DEF JobsTyped
<1>6. \A p \in posts : p.id \in Nat /\ p.id < nextId /\ p.msg # m
  BY <1>1 DEF IdsFresh, PostsOf, TypeOK
<1>7. \A v \in Workers \ {w} : job[v].at \in Busy => job[v].msg # m
  BY <1>1 DEF OneBusyCall, Busy
<1>8. nextId \notin inflight \cup live \cup deleted
  BY <1>1, <1>6 DEF IdsFresh
<1>9. IdsFresh'
  <2>1. \A p \in posts' : p.id < nextId'
    BY <1>1, <1>2, <1>3, <1>6
  <2>2. \A p, q \in posts' : p.id = q.id => p = q
    BY <1>1, <1>2, <1>3, <1>6 DEF IdsFresh
  <2>3. (inflight \cup live \cup deleted)' \subseteq {p.id : p \in posts'}
    BY <1>2, <1>3 DEF IdsFresh
  <2>4. deleted' \cap Open' = {} /\ inflight' \cap live' = {}
    BY <1>2, <1>8 DEF IdsFresh, Open
  <2> QED BY <2>1, <2>2, <2>3, <2>4 DEF IdsFresh
<1>10. AtMostOncePerMessage'
  BY <1>2, <1>3, <1>6 DEF AtMostOncePerMessage
<1>11. OneBusyCall'
  BY <1>1, <1>2, <1>5, <1>7 DEF OneBusyCall, Busy
<1>12. BusyCallsPost'
  <2>1. \A v \in Workers \ {w} : job[v].at = "resolve" => PostsOf(job[v].msg)' = {}
    BY <1>2, <1>3, <1>5, <1>7 DEF BusyCallsPost, PostsOf, Busy
  <2> QED BY <1>2, <1>3, <1>5, <2>1 DEF BusyCallsPost, PostsOf
<1>13. ReceiptsTellTheTruth'
  <2>1. \A n \in Messages : status[n] \in {"none", "failed"} => \A p \in posts' : p.msg # n
    BY <1>1, <1>2, <1>3 DEF ReceiptsTellTheTruth
  <2> QED BY <1>2, <2>1 DEF ReceiptsTellTheTruth
<1>14. EvidenceIsOwned'
  <2>1. \A v \in Workers : job'[v].at = "resolve" =>
          /\ HasImage(job'[v].msg) => link'[ImageOf[job'[v].msg]] = job'[v].msg
          /\ job'[v].order # NoOrder /\ ~job'[v].confirmed => link'[job'[v].order] = job'[v].msg
    BY <1>2, <1>5 DEF EvidenceIsOwned
  <2>2. /\ HasImage(p0.msg) => link'[ImageOf[p0.msg]] = p0.msg
        /\ p0.order # NoOrder /\ p0.direct => link'[p0.order] = p0.msg
    BY <1>1, <1>2, <1>3 DEF EvidenceIsOwned
  <2>3. \A p \in posts : p.id \in Open' => p.id \in Open
    BY <1>2, <1>6 DEF Open
  <2> QED BY <1>2, <2>1, <2>2, <2>3 DEF EvidenceIsOwned
<1> QED BY <1>9, <1>10, <1>11, <1>12, <1>13, <1>14

\* The ledger decides about a request, or its owner deletes a transaction.
LEMMA LedgerStep ==
    ASSUME TypeOK, Core, NEW t,
           LedgerApplies(t) \/ LedgerRefuses(t) \/ OwnerDeletes(t)
    PROVE  Core'
<1> USE DEF Core
<1>1. UNCHANGED <<status, txid, link, job, posts, nextId>>
  BY DEF LedgerApplies, LedgerRefuses, OwnerDeletes, receipts
<1>2. IdsFresh'
  BY DEF LedgerApplies, LedgerRefuses, OwnerDeletes, IdsFresh, Open
<1>3. \A p \in posts : p.id \in Open' => p.id \in Open
  BY DEF LedgerApplies, LedgerRefuses, OwnerDeletes, Open
<1>4. live \cup deleted \subseteq (live \cup deleted)'
  BY DEF LedgerApplies, LedgerRefuses, OwnerDeletes
<1>5. OneBusyCall' /\ BusyCallsPost' /\ AtMostOncePerMessage'
  BY <1>1 DEF OneBusyCall, BusyCallsPost, PostsOf, AtMostOncePerMessage
<1>6. EvidenceIsOwned'
  BY <1>1, <1>3 DEF EvidenceIsOwned
<1>7. ReceiptsTellTheTruth'
  BY <1>1, <1>4 DEF ReceiptsTellTheTruth
<1> QED BY <1>2, <1>5, <1>6, <1>7

\* Nothing but proposals changes.
LEMMA UnchangedStep ==
    ASSUME Core, UNCHANGED <<receipts, link, ledger, job>>
    PROVE  Core'
BY DEF Core, receipts, ledger, IdsFresh, OneBusyCall, BusyCallsPost, PostsOf, EvidenceIsOwned,
       AtMostOncePerMessage, ReceiptsTellTheTruth, Open

LEMMA InitIndInv == Init => IndInv
<1> SUFFICES ASSUME Init PROVE IndInv
  OBVIOUS
<1>1. TypeOK
  BY InitTypeOK
<1>2. \A w \in Workers : job[w].at = "idle"
  BY IdleTyped DEF Init
<1>3. IdsFresh /\ AtMostOncePerMessage /\ ReceiptsTellTheTruth
  BY DEF Init, IdsFresh, AtMostOncePerMessage, ReceiptsTellTheTruth, Open
<1>4. OneBusyCall /\ BusyCallsPost /\ EvidenceIsOwned
  BY <1>2 DEF Init, OneBusyCall, BusyCallsPost, EvidenceIsOwned, Busy, Open
<1> QED BY <1>1, <1>3, <1>4 DEF IndInv

\* Every step preserves the inductive invariant.
LEMMA NextIndInv == IndInv /\ [Next]_vars => IndInv'
<1> SUFFICES ASSUME IndInv, [Next]_vars PROVE IndInv'
  OBVIOUS
<1>0. TypeOK /\ Core /\ JobsTyped
  BY DEF IndInv, Core, TypeOK, JobsTyped
<1>1. TypeOK'
  BY <1>0, NextTypeOK
<1>2. Core'
  <2>1. ASSUME NEW w \in Workers, NEW m \in Messages, NEW o \in OrderOrNone,
               Deliver(w, m, o) \/ Confirm(w, m)
        PROVE  Core'
    <3>1. ASSUME NEW k \in Job, job' = [job EXCEPT ![w] = k], k.at \in {"att1", "claim", "att2"}
          PROVE  HoldsNoClaim(w)
      BY <1>0, <3>1 DEF HoldsNoClaim, JobsTyped, Busy
    <3>2. HoldsNoClaim(w)
      <4>1. CASE Deliver(w, m, o)
        <5> DEFINE k == [Idle EXCEPT !.at = IF HasImage(m) THEN "att1" ELSE "claim",
                                     !.msg = m, !.order = o]
        <5>1. job' = [job EXCEPT ![w] = k]
          BY <4>1 DEF Deliver
        <5>2. k \in Job /\ k.at \in {"att1", "claim"}
          BY DEF Idle, Job, Stage
        <5> HIDE DEF k
        <5> QED BY <3>1, <5>1, <5>2
      <4>2. CASE Confirm(w, m)
        <5> DEFINE k == [Idle EXCEPT !.at = "att2", !.msg = m, !.confirmed = TRUE,
                                     !.order = proposal[m].order]
        <5>1. job' = [job EXCEPT ![w] = k]
          BY <4>2 DEF Confirm
        <5>2. proposal[m].order \in OrderOrNone
          BY <1>0 DEF TypeOK
        <5>3. k \in Job /\ k.at = "att2"
          BY <5>2 DEF Idle, Job, Stage
        <5> HIDE DEF k
        <5> QED BY <3>1, <5>1, <5>3
      <4> QED BY <2>1, <4>1, <4>2
    <3> QED BY <1>0, <2>1, <3>2, QuietStep DEF Deliver, Confirm
  <2>2. ASSUME NEW w \in Workers, Step(w) \/ Crash(w)
        PROVE  Core'
    <3>1. CASE ReadLink(w)
      <4>1. CASE Blocked(w) \/ Unblocked(w)
        BY <1>0, <3>1, <4>1, RefreshHoldsNoClaim, QuietStep DEF ReadLink
      <4>2. CASE \E o, t : job' = [job EXCEPT ![w] = [@ EXCEPT !.step = "lookup", !.owner = o, !.tx = t]]
        <5>1. PICK o, t : job' = [job EXCEPT ![w] = [@ EXCEPT !.step = "lookup", !.owner = o, !.tx = t]]
          BY <4>2
        <5>2. job[w] \in Job /\ job[w].at \in Refreshing
          BY <1>0, <3>1 DEF ReadLink, JobsTyped
        <5>3. job'[w].at = job[w].at /\ \A v \in Workers \ {w} : job'[v] = job[v]
          BY <1>0, <5>1, <5>2 DEF JobsTyped, Job
        <5>4. HoldsNoClaim(w)
          BY <5>2, <5>3 DEF HoldsNoClaim, Refreshing, Busy
        <5> QED BY <1>0, <3>1, <5>4, QuietStep DEF ReadLink
      <4> QED BY <3>1, <4>1, <4>2 DEF ReadLink
    <3>2. CASE LookupFound(w) \/ Reread(w)
      BY <1>0, <3>2, RefreshHoldsNoClaim, QuietStep DEF LookupFound, Reread
    <3>3. CASE LookupFails(w) \/ ReviewRefuses(w) \/ ClaimLoses(w) \/ Crash(w) \/ StoreImageProposal(w)
      BY <1>0, <3>3, FinishHoldsNoClaim, QuietStep
         DEF LookupFails, ReviewRefuses, ClaimLoses, Crash, StoreImageProposal
    <3>4. CASE LookupGone(w)
      BY <1>0, <3>4, LookupGoneStep
    <3>5. CASE RecordDirectly(w)
      BY <1>0, <3>5, GoToHoldsNoClaim, QuietStep DEF RecordDirectly, Stage, Busy
    <3>6. CASE ClaimWins(w)
      BY <1>0, <3>6, ClaimWinsStep
    <3>7. CASE SendPost(w)
      BY <1>0, <3>7, SendPostStep
    <3>8. CASE ResolveFails(w) \/ PostAnswered(w) \/ PostUncertain(w)
      BY <1>0, <3>8, SettleStep
    <3> QED BY <2>2, <3>1, <3>2, <3>3, <3>4, <3>5, <3>6, <3>7, <3>8 DEF Step
  <2>3. ASSUME NEW m \in Messages, CancelOrExpire(m)
        PROVE  Core'
    BY <1>0, <2>3, UnchangedStep DEF CancelOrExpire
  <2>4. ASSUME NEW t, LedgerApplies(t) \/ LedgerRefuses(t) \/ OwnerDeletes(t)
        PROVE  Core'
    BY <1>0, <2>4, LedgerStep
  <2>5. CASE UNCHANGED vars
    BY <1>0, <2>5, UnchangedStep DEF vars, receipts, ledger
  <2>6. CASE \E w \in Workers, m \in Messages, o \in OrderOrNone : Deliver(w, m, o)
    BY <2>1, <2>6
  <2>7. CASE \E w \in Workers, m \in Messages : Confirm(w, m)
    BY <2>1, <2>7 DEF OrderOrNone
  <2>8. CASE \E w \in Workers : Step(w) \/ Crash(w)
    BY <2>2, <2>8
  <2>9. CASE \E m \in Messages : CancelOrExpire(m)
    BY <2>3, <2>9
  <2>10. CASE \/ \E t \in inflight : LedgerApplies(t) \/ LedgerRefuses(t)
              \/ \E t \in live : OwnerDeletes(t)
    BY <2>4, <2>10
  <2> QED BY <2>5, <2>6, <2>7, <2>8, <2>9, <2>10 DEF Next
<1> QED BY <1>1, <1>2 DEF IndInv, Core

(* The inductive invariant holds in every reachable state.                  *)
THEOREM Invariance == Spec => []IndInv
<1> QED BY InitIndInv, NextIndInv, PTL DEF Spec

(* No message is posted twice (bookkeeping-core.mjs writeExpense, claim).   *)
THEOREM MessagesPostedOnce == Spec => []AtMostOncePerMessage
<1>1. IndInv => AtMostOncePerMessage
  BY DEF IndInv
<1> QED BY <1>1, Invariance, PTL

(* The receipts never contradict the ledger (complete, fail, uncertain).    *)
THEOREM ReceiptsAreTrue == Spec => []ReceiptsTellTheTruth
<1>1. IndInv => ReceiptsTellTheTruth
  BY DEF IndInv
<1> QED BY <1>1, Invariance, PTL

(* The same picture is never in the ledger twice: both posts would own the  *)
(* same attachment link, so they belong to one message.                     *)
THEOREM PicturesBookedOnce == Spec => []OneOpenPostPerImage
<1>1. IndInv => OneOpenPostPerImage
  BY DEF IndInv, EvidenceIsOwned, AtMostOncePerMessage, OneOpenPostPerImage, HasImage
<1> QED BY <1>1, Invariance, PTL

(* Nor is one order booked twice without the user's confirmation.           *)
THEOREM OrdersBookedOnce == Spec => []OneOpenDirectPostPerOrder
<1>1. IndInv => OneOpenDirectPostPerOrder
  BY DEF IndInv, EvidenceIsOwned, AtMostOncePerMessage, OneOpenDirectPostPerOrder
<1> QED BY <1>1, Invariance, PTL

(* A claimed message never becomes unclaimed and a settled receipt never    *)
(* changes: only the call that holds the claim of a pending one writes it.  *)
THEOREM SettledReceiptsStay == Spec => ReceiptsArePermanent
<1> DEFINE Kept(m) == /\ status[m] # "none" => status'[m] # "none"
                      /\ status[m] \in {"created", "failed", "unknown"} =>
                            status'[m] = status[m] /\ txid'[m] = txid[m]
           A == \A m \in Messages : Kept(m)
<1>1. IndInv /\ [Next]_vars => [A]_vars
  <2> SUFFICES ASSUME IndInv, Next, NEW m \in Messages PROVE Kept(m)
    OBVIOUS
  <2>1. ASSUME NEW w \in Workers, ClaimWins(w) PROVE Kept(m)
    BY <2>1 DEF ClaimWins, Claimable, IndInv, TypeOK
  <2>2. ASSUME NEW w \in Workers, ResolveFails(w) \/ PostAnswered(w) \/ PostUncertain(w)
        PROVE  Kept(m)
    <3>1. job[w].msg \in Messages /\ status[job[w].msg] = "pending"
      BY <2>2 DEF ResolveFails, PostAnswered, PostUncertain, IndInv, TypeOK, WellFormed,
                  OneBusyCall, Busy
    <3>2. \/ \E s \in {"failed", "created", "unknown"} : \E t :
                /\ status' = [status EXCEPT ![job[w].msg] = s]
                /\ txid' = [txid EXCEPT ![job[w].msg] = t]
          \/ UNCHANGED <<status, txid>>
      BY <2>2 DEF ResolveFails, PostAnswered, PostUncertain, PersistOutcome, receipts
    <3> QED BY <3>1, <3>2 DEF IndInv, TypeOK
  <2>3. CASE UNCHANGED receipts
    BY <2>3 DEF receipts
  <2> QED
    BY <2>1, <2>2, <2>3
       DEF Next, Step, Deliver, Confirm, Crash, CancelOrExpire, LedgerApplies, LedgerRefuses,
           OwnerDeletes, ReadLink, LookupFound, LookupFails, LookupGone, Reread, ReviewRefuses,
           StoreImageProposal, RecordDirectly, ClaimLoses, SendPost
<1> QED BY <1>1, Invariance, PTL DEF Spec, ReceiptsArePermanent

(* Evidence is released only by the lookup that found the transaction gone, *)
(* and then it really was deleted (releaseDeletedImageLinks).               *)
THEOREM LinksAreReleasedSafely == Spec => LinksReleasedOnlyAfterDeletion
<1> DEFINE Safe(k) == link[k] # NoMsg /\ link'[k] # link[k] =>
                        /\ link'[k] = NoMsg
                        /\ status[link[k]] = "created" /\ txid[link[k]] \in deleted
           A == \A k \in Keys : Safe(k)
<1>1. IndInv /\ [Next]_vars => [A]_vars
  <2> SUFFICES ASSUME IndInv, Next, NEW k \in Keys PROVE Safe(k)
    OBVIOUS
  <2>1. ASSUME NEW w \in Workers, ClaimWins(w) PROVE Safe(k)
    BY <2>1 DEF ClaimWins
  <2>2. ASSUME NEW w \in Workers, LookupGone(w) PROVE Safe(k)
    <3>1. CASE UNCHANGED link
      BY <3>1
    <3>2. CASE /\ status[job[w].owner] = "created" /\ txid[job[w].owner] = job[w].tx
               /\ link' = [n \in Keys |-> IF link[n] = job[w].owner THEN NoMsg ELSE link[n]]
      <4> SUFFICES ASSUME link[k] # NoMsg, link'[k] # link[k] PROVE Safe(k)
        OBVIOUS
      <4>1. link[k] = job[w].owner /\ link'[k] = NoMsg /\ link[k] \in Messages
        BY <3>2 DEF IndInv, TypeOK
      <4>2. txid[link[k]] \in live \cup deleted
        BY <3>2, <4>1 DEF IndInv, ReceiptsTellTheTruth
      <4> QED BY <2>2, <3>2, <4>1, <4>2 DEF LookupGone
    <3> QED BY <2>2, <3>1, <3>2 DEF LookupGone
  <2>3. CASE UNCHANGED link
    BY <2>3
  <2> QED
    BY <2>1, <2>2, <2>3
       DEF Next, Step, Deliver, Confirm, Crash, CancelOrExpire, LedgerApplies, LedgerRefuses,
           OwnerDeletes, ReadLink, LookupFound, LookupFails, Reread, ReviewRefuses,
           StoreImageProposal, RecordDirectly, ClaimLoses, ResolveFails, SendPost,
           PostAnswered, PostUncertain
<1> QED BY <1>1, Invariance, PTL DEF Spec, LinksReleasedOnlyAfterDeletion

-----------------------------------------------------------------------------
(* The pipeline implements the abstract ledger: each step of ExpenseWrite   *)
(* is a step of it, or changes nothing there.                               *)

\* A message that was posted has one post, and its fate is that post's.
LEMMA OnePost ==
    ASSUME IndInv, NEW p \in posts
    PROVE  PostOf(p.msg) = {p.id} /\ p.msg \in Messages
BY DEF IndInv, AtMostOncePerMessage, PostOf, TypeOK

\* Another message has other posts.
LEMMA OtherPosts ==
    ASSUME IndInv, NEW p \in posts, NEW n \in Messages, n # p.msg
    PROVE  p.id \notin PostOf(n)
BY DEF IndInv, IdsFresh, PostOf

LEMMA InitRefines == Init => Promise!AbsInit
<1> SUFFICES ASSUME Init PROVE Promise!AbsInit
  OBVIOUS
<1>1. \A m \in Messages : PostOf(m) = {}
  BY DEF Init, PostOf
<1> QED BY <1>1 DEF Init, Promise!AbsInit, EntryOf, Fate

\* The ledger and the receipts are left alone: nothing happens.
LEMMA QuietStutters ==
    ASSUME UNCHANGED <<receipts, ledger>>
    PROVE  UNCHANGED Promise!absVars
BY DEF receipts, ledger, Promise!absVars, EntryOf, Fate, PostOf

\* A receipt changes, the ledger does not.
LEMMA ReceiptRefines ==
    ASSUME IndInv, NEW w \in Workers, UNCHANGED ledger,
           ClaimWins(w) \/ ResolveFails(w) \/ PostAnswered(w) \/ PostUncertain(w)
    PROVE  [Promise!AbsNext]_Promise!absVars
<1> DEFINE m == job[w].msg
<1>0. UNCHANGED EntryOf
  BY DEF ledger, EntryOf, Fate, PostOf
<1>1. CASE UNCHANGED status
  BY <1>0, <1>1 DEF Promise!absVars
<1>2. CASE ClaimWins(w)
  <2>1. m \in Messages /\ status[m] = "none" /\ status' = [status EXCEPT ![m] = "pending"]
    BY <1>2 DEF ClaimWins, Claimable, IndInv, TypeOK, WellFormed
  <2>2. Promise!Accept(m)
    BY <1>0, <2>1 DEF Promise!Accept
  <2> QED BY <2>1, <2>2 DEF Promise!AbsNext
<1>3. ASSUME NEW s \in {"created", "failed", "unknown"}, status' = [status EXCEPT ![m] = s],
             job[w].at \in Busy, Promise!Truthful(m, s)
      PROVE  Promise!AbsNext
  <2>1. m \in Messages /\ status[m] = "pending"
    BY <1>3 DEF IndInv, OneBusyCall, Busy, TypeOK, WellFormed
  <2>2. Promise!Report(m, s)
    BY <1>0, <1>3, <2>1 DEF Promise!Report
  <2> QED BY <2>1, <2>2 DEF Promise!AbsNext
<1>4. CASE ResolveFails(w) /\ status' # status
  <2>1. status' = [status EXCEPT ![m] = "failed"] /\ job[w].at \in Busy
    BY <1>4 DEF ResolveFails, PersistOutcome, receipts, Busy
  <2>2. m \in Messages /\ PostOf(m) = {}
    BY <1>4 DEF ResolveFails, IndInv, BusyCallsPost, PostsOf, PostOf, TypeOK, WellFormed
  <2>3. Promise!Truthful(m, "failed")
    BY <2>2 DEF Promise!Truthful, EntryOf, Fate
  <2> QED BY <1>3, <2>1, <2>3
<1>5. CASE (PostAnswered(w) \/ PostUncertain(w)) /\ status' # status
  <2>0. job[w].at = "post" /\ job[w].at \in Busy
    BY <1>5 DEF PostAnswered, PostUncertain, Busy
  <2>1. m \in Messages /\ PostOf(m) = {job[w].tx}
    <3>1. PICK p \in posts : p.msg = job[w].msg /\ p.id = job[w].tx
      BY <2>0 DEF IndInv, BusyCallsPost
    <3> QED BY <3>1, OnePost
  <2>2. CASE PostAnswered(w)
    <3>1. status' = [status EXCEPT ![m] = "created"] /\ job[w].tx \in live \cup deleted
      BY <1>5, <2>2 DEF PostAnswered, PersistOutcome, receipts
    <3>2. job[w].tx \notin inflight
      BY <3>1 DEF IndInv, IdsFresh, Open
    <3>3. Promise!Truthful(m, "created")
      BY <2>1, <3>1, <3>2 DEF Promise!Truthful, EntryOf, Fate
    <3> QED BY <1>3, <2>0, <3>1, <3>3
  <2>3. CASE PostUncertain(w)
    <3>1. status' = [status EXCEPT ![m] = "unknown"]
      BY <1>5, <2>3 DEF PostUncertain, PersistOutcome, receipts
    <3>2. Promise!Truthful(m, "unknown")
      BY <2>1 DEF Promise!Truthful, EntryOf, Fate
    <3> QED BY <1>3, <2>0, <3>1, <3>2
  <2> QED BY <1>5, <2>2, <2>3
<1> QED BY <1>1, <1>2, <1>4, <1>5

\* The POST leaves: the message had no entry, and no rival has an open one.
LEMMA SendPostRefines ==
    ASSUME IndInv, NEW w \in Workers, SendPost(w)
    PROVE  Promise!AbsNext
<1>0. PICK m \in Messages : m = job[w].msg
  BY DEF SendPost, IndInv, TypeOK, WellFormed
<1> DEFINE n == [id |-> nextId, msg |-> m, order |-> job[w].order, direct |-> ~job[w].confirmed]
<1>1. /\ m \in Messages /\ status[m] = "pending" /\ PostOf(m) = {}
      /\ HasImage(m) => link[ImageOf[m]] = m
  BY <1>0 DEF SendPost, IndInv, OneBusyCall, Busy, BusyCallsPost, PostsOf, PostOf, EvidenceIsOwned,
         TypeOK, WellFormed
<1>2. /\ posts' = posts \cup {n} /\ n.msg = m /\ n.id = nextId
      /\ inflight' = inflight \cup {nextId} /\ UNCHANGED <<live, deleted, status>>
  BY <1>0 DEF SendPost, receipts
<1> HIDE DEF n
<1>3. PostOf(m)' = {nextId}
  <2>1. \A p \in posts : p.msg # m
    BY <1>1 DEF PostOf
  <2>2. \A p \in posts' : p.msg = m <=> p = n
    BY <1>2, <2>1
  <2> QED BY <1>2, <2>2 DEF PostOf
<1>4. \A k \in Messages \ {m} : PostOf(k)' = PostOf(k) /\ nextId \notin PostOf(k)
  <2>1. \A p \in posts : p.id # nextId
    BY DEF IndInv, IdsFresh, TypeOK
  <2> QED BY <1>2, <2>1 DEF PostOf
<1>5. Fate(PostOf(m)) = "none" /\ Fate(PostOf(m))' = "sent"
  BY <1>1, <1>2, <1>3 DEF Fate
<1>6. \A k \in Messages \ {m} : Fate(PostOf(k))' = Fate(PostOf(k))
  BY <1>2, <1>4 DEF Fate
<1>7. EntryOf' = [EntryOf EXCEPT ![m] = "sent"]
  BY <1>5, <1>6 DEF EntryOf
<1>8. ASSUME NEW k \in Promise!Rivals(m) PROVE EntryOf[k] \notin {"sent", "live"}
  <2>1. k \in Messages \ {m} /\ HasImage(m) /\ ImageOf[k] = ImageOf[m] /\ HasImage(k)
    BY <1>8 DEF Promise!Rivals, HasImage
  <2>2. SUFFICES ASSUME EntryOf[k] \in {"sent", "live"} PROVE FALSE
    OBVIOUS
  <2>3. PostOf(k) \cap (inflight \cup live) # {}
    BY <2>1, <2>2 DEF EntryOf, Fate
  <2>4. PICK p \in posts : p.msg = k /\ p.id \in inflight \cup live
    BY <2>3 DEF PostOf
  <2>5. link[ImageOf[k]] = k
    BY <2>1, <2>4 DEF IndInv, EvidenceIsOwned, Open
  <2> QED BY <1>1, <2>1, <2>5
<1>9. EntryOf[m] = "none"
  BY <1>1, <1>5 DEF EntryOf
<1>10. Promise!Send(m)
  BY <1>1, <1>2, <1>7, <1>8, <1>9 DEF Promise!Send
<1> QED BY <1>1, <1>10 DEF Promise!AbsNext

\* The ledger settles a request, or its owner deletes a transaction.
LEMMA LedgerRefines ==
    ASSUME IndInv, NEW t, LedgerApplies(t) \/ LedgerRefuses(t) \/ OwnerDeletes(t)
    PROVE  Promise!AbsNext
<1>1. PICK p \in posts : p.id = t
  BY DEF LedgerApplies, LedgerRefuses, OwnerDeletes, IndInv, IdsFresh
<1>2. p.msg \in Messages /\ PostOf(p.msg) = {t} /\ UNCHANGED <<status, posts>>
  BY <1>1, OnePost DEF LedgerApplies, LedgerRefuses, OwnerDeletes, receipts
<1>3. \A m \in Messages : PostOf(m)' = PostOf(m)
  BY <1>2 DEF PostOf
<1>4. ASSUME NEW m \in Messages \ {p.msg} PROVE Fate(PostOf(m))' = Fate(PostOf(m))
  <2>1. t \notin PostOf(m)
    BY <1>1, OtherPosts
  <2> QED BY <1>3, <2>1 DEF Fate, LedgerApplies, LedgerRefuses, OwnerDeletes
<1>5. ASSUME NEW f, Fate(PostOf(p.msg))' = f PROVE EntryOf' = [EntryOf EXCEPT ![p.msg] = f]
  BY <1>4, <1>5 DEF EntryOf
<1>6. t \notin deleted \/ t \notin inflight \cup live
  BY DEF IndInv, IdsFresh, Open
<1>7. CASE LedgerApplies(t)
  <2>1. Fate(PostOf(p.msg)) = "sent" /\ Fate(PostOf(p.msg))' = "live"
    BY <1>2, <1>3, <1>7 DEF Fate, LedgerApplies
  <2>2. Promise!Settle(p.msg, "live")
    BY <1>2, <1>5, <2>1 DEF Promise!Settle, EntryOf
  <2> QED BY <1>2, <2>2 DEF Promise!AbsNext
<1>8. CASE LedgerRefuses(t)
  <2>1. t \notin live /\ t \notin deleted
    BY <1>8 DEF IndInv, IdsFresh, Open, LedgerRefuses
  <2>2. Fate(PostOf(p.msg)) = "sent" /\ Fate(PostOf(p.msg))' = "refused"
    BY <1>2, <1>3, <1>8, <2>1 DEF Fate, LedgerRefuses
  <2>3. Promise!Settle(p.msg, "refused")
    BY <1>2, <1>5, <2>2 DEF Promise!Settle, EntryOf
  <2> QED BY <1>2, <2>3 DEF Promise!AbsNext
<1>9. CASE OwnerDeletes(t)
  <2>1. t \notin inflight
    BY <1>9 DEF IndInv, IdsFresh, Open, OwnerDeletes
  <2>2. Fate(PostOf(p.msg)) = "live" /\ Fate(PostOf(p.msg))' = "deleted"
    BY <1>2, <1>3, <1>9, <2>1 DEF Fate, OwnerDeletes
  <2>3. Promise!Delete(p.msg)
    BY <1>2, <1>5, <2>2 DEF Promise!Delete, EntryOf
  <2> QED BY <1>2, <2>3 DEF Promise!AbsNext
<1> QED BY <1>7, <1>8, <1>9

LEMMA NextRefines ==
    ASSUME IndInv, [Next]_vars
    PROVE  [Promise!AbsNext]_Promise!absVars
<1>1. ASSUME NEW w \in Workers,
             ClaimWins(w) \/ ResolveFails(w) \/ PostAnswered(w) \/ PostUncertain(w)
      PROVE  [Promise!AbsNext]_Promise!absVars
  <2>1. UNCHANGED ledger
    BY <1>1 DEF ClaimWins, ResolveFails, PostAnswered, PostUncertain
  <2> QED BY <1>1, <2>1, ReceiptRefines
<1>2. ASSUME NEW w \in Workers, SendPost(w) PROVE Promise!AbsNext
  BY <1>2, SendPostRefines
<1>3. ASSUME NEW t, LedgerApplies(t) \/ LedgerRefuses(t) \/ OwnerDeletes(t)
      PROVE  Promise!AbsNext
  BY <1>3, LedgerRefines
<1>4. CASE UNCHANGED <<receipts, ledger>>
  BY <1>4, QuietStutters
<1>5. CASE UNCHANGED vars
  BY <1>4, <1>5 DEF vars, receipts, ledger
<1> QED
  BY <1>1, <1>2, <1>3, <1>4, <1>5
     DEF Next, Step, Deliver, Confirm, Crash, CancelOrExpire, ReadLink, LookupFound, LookupFails,
         LookupGone, Reread, ReviewRefuses, StoreImageProposal, RecordDirectly, ClaimLoses

(* The write pipeline implements the exactly-once ledger: whatever the      *)
(* calls, crashes, silent answers and deletions of writeExpense, each       *)
(* message has one entry at most, rivals are never both open, and no report *)
(* contradicts its entry.                                                   *)
THEOREM Refinement == Spec => ImplementsExactlyOnce
BY InitRefines, NextRefines, Invariance, PTL DEF Spec, ImplementsExactlyOnce, Promise!AbsSpec
=============================================================================
