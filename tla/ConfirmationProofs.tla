------------------------ MODULE ConfirmationProofs ------------------------
(***************************************************************************)
(* Theorems about proposals and confirmations, for every number of runs,   *)
(* messages, pictures and open proposals: type correctness, the inductive   *)
(* invariant, and each safety property the runs check.                      *)
(***************************************************************************)
EXTENDS Confirmation, FiniteSetTheorems, TLAPS

\* What a run may be doing.
Run == [at: {"idle", "bound", "write"}, msg: Messages \cup {NoMsg}, source: Sources \cup {NoMsg}]
Row == [id: Nat, status: {"none", "active", "consumed"}, expired: BOOLEAN]

LEMMA InitTypeOK == Init => TypeOK
BY ConfirmationAssumption DEF Init, TypeOK, NoRow, Never, Idle, NotAsked, Messages, Sources

\* A run that ends is idle and typed.
LEMMA EndTyped ==
    ASSUME TypeOK, NEW c \in Calls, End(c)
    PROVE  /\ call' \in [Calls -> Run]
           /\ \A d \in Calls : /\ call'[d].at # "idle" => call'[d].msg \in Messages
                               /\ call'[d].at = "write" => call'[d].source \in Sources
BY DEF TypeOK, End, Idle, Run

\* Whoever is handed a proposal is typed, and so is what it was handed.
LEMMA HandOutTyped ==
    ASSUME TypeOK, NEW c \in Calls, NEW s \in Sources, NEW id \in Nat,
           call[c].at = "bound", call[c].msg \in Replies, HandOut(c, s, id)
    PROVE  /\ call' \in [Calls -> Run]
           /\ \A d \in Calls : /\ call'[d].at # "idle" => call'[d].msg \in Messages
                               /\ call'[d].at = "write" => call'[d].source \in Sources
           /\ taken' \subseteq [reply: Replies, source: Sources, id: Nat]
<1>1. taken' \subseteq [reply: Replies, source: Sources, id: Nat]
  <2>1. taken' = taken \cup {[reply |-> call[c].msg, source |-> s, id |-> id]}
    BY DEF HandOut
  <2>2. [reply |-> call[c].msg, source |-> s, id |-> id] \in [reply: Replies, source: Sources, id: Nat]
    OBVIOUS
  <2>3. taken \subseteq [reply: Replies, source: Sources, id: Nat]
    BY DEF TypeOK
  <2> QED BY <2>1, <2>2, <2>3
<1>2. CASE Says[call[c].msg] = "confirm"
  <2> DEFINE k == [at |-> "write", msg |-> call[c].msg, source |-> s]
  <2>1. k \in Run /\ k.at = "write" /\ k.source = s /\ k.msg \in Messages
    BY DEF Run, Messages
  <2>2. call' = [call EXCEPT ![c] = k]
    BY <1>2 DEF HandOut
  <2> HIDE DEF k
  <2> QED BY <1>1, <2>1, <2>2 DEF TypeOK, Run
<1>3. CASE Says[call[c].msg] # "confirm"
  BY <1>1, <1>3, EndTyped DEF HandOut
<1> QED BY <1>2, <1>3

\* Every action preserves the types.
LEMMA NextTypeOK == TypeOK /\ [Next]_vars => TypeOK'
<1> SUFFICES ASSUME TypeOK, [Next]_vars PROVE TypeOK'
  OBVIOUS
<1> USE DEF inbound, tables, writes, history
<1>1. ASSUME NEW m \in Messages, Arrive(m) PROVE TypeOK'
  BY <1>1 DEF TypeOK, Arrive, NoRow, Messages
<1>2. ASSUME NEW m \in Messages, QueueExpires(m) PROVE TypeOK'
  BY <1>2 DEF TypeOK, QueueExpires
<1>3. ASSUME NEW c \in Calls, NEW m \in Messages, Bind(c, m) PROVE TypeOK'
  <2> DEFINE k == [at |-> "bound", msg |-> m, source |-> NoMsg]
  <2>1. k \in Run /\ k.at = "bound" /\ k.msg = m
    BY DEF Run
  <2>2. call' = [call EXCEPT ![c] = k] /\ queue' = [queue EXCEPT ![m] = "claimed"]
    BY <1>3 DEF Bind
  <2> HIDE DEF k
  <2> QED BY <1>3, <2>1, <2>2 DEF TypeOK, Run, Bind
<1>4. ASSUME NEW c \in Calls, RunEnds(c) \/ AskWhich(c) \/ RefuseRepeated(c) PROVE TypeOK'
  <2>1. End(c) /\ UNCHANGED <<queue, known, latest, pending, proposal, nextId, processed,
                              receipt, booked, taken>>
    BY <1>4 DEF RunEnds, AskWhich, RefuseRepeated
  <2>2. asked' \in [Replies -> [before: BOOLEAN, proposed: SUBSET Sources]]
    <3> DEFINE k == [before |-> TRUE, proposed |-> Proposed]
    <3> DEFINE Note == [before: BOOLEAN, proposed: SUBSET Sources]
    <3>1. k \in Note
      BY DEF Proposed
    <3>0. asked \in [Replies -> Note]
      BY DEF TypeOK
    <3> HIDE DEF k, Note
    <3>2. CASE asked' = [asked EXCEPT ![call[c].msg] = k]
      BY <3>0, <3>1, <3>2 DEF Note
    <3>3. CASE asked' = asked
      BY <3>0, <3>3 DEF Note
    <3> QED BY <1>4, <3>2, <3>3 DEF RunEnds, AskWhich, RefuseRepeated, k
  <2> QED BY <2>1, <2>2, EndTyped DEF TypeOK, Run
<1>5. ASSUME NEW c \in Calls, ReplacePendingExpenseConfirmation(c) PROVE TypeOK'
  <2>1. pending' \in [source: Texts \cup {NoMsg}, expired: BOOLEAN]
    BY <1>5 DEF TypeOK, ReplacePendingExpenseConfirmation
  <2> QED BY <1>5, <2>1, EndTyped DEF TypeOK, Run, ReplacePendingExpenseConfirmation
<1>6. ASSUME NEW c \in Calls, StoreImageProposal(c) PROVE TypeOK'
  <2>1. proposal' \in [Pictures -> Row] /\ nextId' \in Nat \ {0}
    <3> DEFINE k == [id |-> nextId, status |-> "active", expired |-> FALSE]
    <3>1. k \in Row /\ proposal \in [Pictures -> Row] /\ nextId \in Nat \ {0}
      BY DEF TypeOK, Row
    <3>2. \/ /\ proposal' = [proposal EXCEPT ![call[c].msg] = k]
             /\ nextId' = nextId + 1
          \/ UNCHANGED <<proposal, nextId>>
      BY <1>6 DEF StoreImageProposal
    <3> HIDE DEF k
    <3> QED BY <3>1, <3>2
  <2> QED BY <1>6, <2>1, EndTyped DEF TypeOK, Run, Row, StoreImageProposal
<1>7. ASSUME NEW c \in Calls, TakeText(c) PROVE TypeOK'
  <2>1. /\ processed' \subseteq Replies
        /\ pending' \in [source: Texts \cup {NoMsg}, expired: BOOLEAN]
    BY <1>7 DEF TypeOK, TakeText, NoRow
  <2>2. CASE OpenText /\ HandOut(c, pending.source, 0)
    <3>1. pending.source \in Sources
      BY <2>2 DEF OpenText, TypeOK, Sources
    <3> QED BY <1>7, <2>1, <2>2, <3>1, HandOutTyped DEF TypeOK, Run, TakeText
  <2>3. CASE Nothing(c)
    BY <1>7, <2>1, <2>3, EndTyped DEF TypeOK, Run, TakeText, Nothing
  <2> QED BY <1>7, <2>2, <2>3 DEF TakeText
<1>8. ASSUME NEW c \in Calls, TakeImage(c) PROVE TypeOK'
  <2>1. processed' \subseteq Replies
    BY <1>8 DEF TypeOK, TakeImage
  <2>2. CASE Nothing(c) /\ UNCHANGED proposal
    BY <1>8, <2>1, <2>2, EndTyped DEF TypeOK, Run, TakeImage, Nothing
  <2>3. ASSUME NEW p \in Meant(call[c].msg), proposal' = Consume(p),
               Nothing(c) \/ HandOut(c, p, proposal[p].id)
        PROVE  TypeOK'
    <3>1. p \in Pictures
      BY DEF Meant, OpenImages
    <3>2. p \in Sources /\ proposal[p].id \in Nat /\ proposal' \in [Pictures -> Row]
      BY <2>3, <3>1 DEF TypeOK, Sources, Row, Consume
    <3>3. CASE Nothing(c)
      BY <1>8, <2>1, <3>2, <3>3, EndTyped DEF TypeOK, Run, Row, TakeImage, Nothing
    <3>4. CASE HandOut(c, p, proposal[p].id)
      BY <1>8, <2>1, <3>2, <3>4, HandOutTyped DEF TypeOK, Run, Row, TakeImage
    <3> QED BY <2>3, <3>3, <3>4
  <2> QED BY <1>8, <2>2, <2>3 DEF TakeImage
<1>9. ASSUME NEW c \in Calls, RecordExpense(c) PROVE TypeOK'
  <2> DEFINE k == [at |-> "write", msg |-> call[c].msg, source |-> call[c].msg]
  <2>1. k \in Run /\ k.msg \in Messages /\ k.source \in Sources
    BY <1>9 DEF Run, Messages, RecordExpense
  <2>2. call' = [call EXCEPT ![c] = k]
    BY <1>9 DEF RecordExpense
  <2> HIDE DEF k
  <2> QED BY <1>9, <2>1, <2>2 DEF TypeOK, Run, RecordExpense
<1>10. ASSUME NEW c \in Calls, Write(c) PROVE TypeOK'
  <2>1. receipt' \subseteq Sources /\ booked' \subseteq [source: Sources, by: Messages]
    BY <1>10 DEF TypeOK, Write
  <2> QED BY <1>10, <2>1, EndTyped DEF TypeOK, Run, Write
<1>11. ASSUME TextExpires \/ \E p \in Pictures : ImageExpires(p) PROVE TypeOK'
  <2>1. CASE TextExpires
    BY <2>1 DEF TypeOK, TextExpires
  <2>2. ASSUME NEW p \in Pictures, ImageExpires(p) PROVE TypeOK'
    <3>1. proposal' \in [Pictures -> Row]
      BY <2>2 DEF TypeOK, ImageExpires, Row
    <3> QED BY <2>2, <3>1 DEF TypeOK, ImageExpires, Row
  <2> QED BY <1>11, <2>1, <2>2
<1>12. CASE UNCHANGED vars
  BY <1>12 DEF TypeOK, vars
<1> QED
  BY <1>1, <1>2, <1>3, <1>4, <1>5, <1>6, <1>7, <1>8, <1>9, <1>10, <1>11, <1>12 DEF Next

(* Every reachable state is well typed, and a run carries the message and   *)
(* the source its stage needs.                                              *)
THEOREM TypeCorrect == Spec => []TypeOK
BY InitTypeOK, NextTypeOK, PTL DEF Spec

-----------------------------------------------------------------------------
(* The inductive invariant.                                                *)

\* What waits or runs was received, and so was the latest content.
NewestKnown ==
    /\ \A m \in Messages : queue[m] # "absent" => m \in known
    /\ \A c \in Calls : call[c].at # "idle" => call[c].msg \in known
    /\ latest = NoMsg => known \cap Sources = {}

\* A stored proposal has a number of its own.
NumbersAreUnique ==
    /\ \A p \in Pictures : proposal[p].status # "none" => proposal[p].id \in 1 .. nextId - 1
    /\ \A p, q \in Pictures :
          proposal[p].status # "none" /\ proposal[q].status # "none"
            /\ proposal[p].id = proposal[q].id => p = q

\* What was handed out is spent: the reply, and the picture proposal.
TakenIsSpent ==
    \A t \in taken :
        /\ t.reply \in processed
        /\ t.id # 0 => /\ t.source \in Pictures
                       /\ proposal[t.source].status = "consumed"
                       /\ proposal[t.source].id = t.id

\* Who may write an expense: its own message, or a reply that took it.
MayWrite(m, s, ts) ==
    m # s => /\ m \in Replies /\ Says[m] = "confirm"
             /\ \E t \in ts : t.reply = m /\ t.source = s

WritersWereAsked ==
    \A c \in Calls : call[c].at = "write" => MayWrite(call[c].msg, call[c].source, taken)

IndInv ==
    /\ TypeOK
    /\ NewestKnown /\ PendingTextIsLatest
    /\ NumbersAreUnique /\ TakenIsSpent /\ EveryReplyTakesOne
    /\ WritersWereAsked /\ BookedOnlyAsAsked
    /\ OneProposalPerPicture

-----------------------------------------------------------------------------
(* What a step does to each part of the state.                             *)

\* A run keeps its message; a new one binds a message that waits.
LEMMA RunsKeepTheirMessage ==
    ASSUME TypeOK, [Next]_vars, NEW d \in Calls, call'[d].at # "idle"
    PROVE  \/ call[d].at # "idle" /\ call'[d].msg = call[d].msg
           \/ call'[d].msg \in Messages /\ queue[call'[d].msg] = "waiting"
<1>1. ASSUME NEW c \in Calls, End(c)
      PROVE  call[d].at # "idle" /\ call'[d].msg = call[d].msg
  BY <1>1 DEF End, Idle, TypeOK
<1>2. ASSUME NEW c \in Calls, NEW s, NEW id, HandOut(c, s, id), call[c].at = "bound"
      PROVE  call[d].at # "idle" /\ call'[d].msg = call[d].msg
  BY <1>1, <1>2 DEF HandOut, TypeOK
<1>3. CASE \E c \in Calls, m \in Messages : Bind(c, m)
  BY <1>3 DEF Bind, TypeOK
<1>4. CASE \E c \in Calls : RecordExpense(c)
  BY <1>4 DEF RecordExpense, TypeOK
<1>5. ASSUME NEW c \in Calls, TakeText(c) \/ TakeImage(c)
      PROVE  call[d].at # "idle" /\ call'[d].msg = call[d].msg
  BY <1>1, <1>2, <1>5 DEF TakeText, TakeImage, Nothing
<1>6. CASE UNCHANGED call
  BY <1>6
<1> QED
  BY <1>1, <1>3, <1>4, <1>5, <1>6
     DEF Next, vars, Arrive, QueueExpires, RunEnds, ReplacePendingExpenseConfirmation,
         StoreImageProposal, AskWhich, RefuseRepeated, Write, TextExpires, ImageExpires

\* Only Arrive and Bind, QueueExpires touch the inbound tables.
LEMMA InboundSteps ==
    ASSUME [Next]_vars
    PROVE  \/ UNCHANGED inbound
           \/ \E m \in Messages : Arrive(m) \/ QueueExpires(m)
           \/ \E c \in Calls, m \in Messages : Bind(c, m)
BY DEF Next, vars, inbound, RunEnds, ReplacePendingExpenseConfirmation, StoreImageProposal,
       AskWhich, RefuseRepeated, TakeText, TakeImage, RecordExpense, Write, TextExpires,
       ImageExpires

LEMMA NewestStaysKnown ==
    ASSUME TypeOK, TypeOK', NewestKnown, [Next]_vars
    PROVE  NewestKnown'
<1>1. known \subseteq known' /\ \A m \in Messages : queue'[m] # "absent" => m \in known'
  BY InboundSteps DEF inbound, Arrive, QueueExpires, Bind, TypeOK, NewestKnown
<1>2. \A d \in Calls : call'[d].at # "idle" => call'[d].msg \in known'
  BY <1>1, RunsKeepTheirMessage DEF NewestKnown
<1>3. latest' = NoMsg => known' \cap Sources = {}
  BY InboundSteps, ConfirmationAssumption
     DEF inbound, Arrive, QueueExpires, Bind, TypeOK, NewestKnown, Messages
<1> QED BY <1>1, <1>2, <1>3 DEF NewestKnown

\* The pending text stays, goes, or becomes that of the newest content.
LEMMA PendingStaysLatest ==
    ASSUME TypeOK, NewestKnown, PendingTextIsLatest, [Next]_vars
    PROVE  PendingTextIsLatest'
<1>1. ASSUME NEW m \in Messages, Arrive(m) PROVE PendingTextIsLatest'
  BY <1>1 DEF Arrive, PendingTextIsLatest, NoRow
<1>2. ASSUME NEW c \in Calls, ReplacePendingExpenseConfirmation(c) PROVE PendingTextIsLatest'
  <2>1. call[c].msg \in known \cap Sources /\ UNCHANGED latest
    BY <1>2 DEF ReplacePendingExpenseConfirmation, NewestKnown, inbound, Sources
  <2> QED BY <1>2, <2>1
          DEF ReplacePendingExpenseConfirmation, IsCurrentExpenseProposalSource, NewestKnown,
              PendingTextIsLatest
<1>3. ASSUME NEW c \in Calls, TakeText(c) PROVE PendingTextIsLatest'
  BY <1>3 DEF TakeText, NoRow, PendingTextIsLatest
<1>4. CASE TextExpires
  BY <1>4 DEF TextExpires, PendingTextIsLatest, inbound
<1>5. CASE UNCHANGED <<pending, latest>>
  BY <1>5 DEF PendingTextIsLatest
<1> QED
  BY <1>1, <1>2, <1>3, <1>4, <1>5
     DEF Next, vars, inbound, tables, QueueExpires, Bind, RunEnds, StoreImageProposal, AskWhich,
         RefuseRepeated, TakeImage, RecordExpense, Write, ImageExpires

\* Four steps change the picture proposals.
LEMMA ProposalSteps ==
    ASSUME [Next]_vars
    PROVE  \/ UNCHANGED <<proposal, nextId>>
           \/ \E c \in Calls : StoreImageProposal(c) \/ TakeImage(c)
           \/ \E p \in Pictures : ImageExpires(p)
BY DEF Next, vars, inbound, tables, Arrive, QueueExpires, Bind, RunEnds,
       ReplacePendingExpenseConfirmation, AskWhich, RefuseRepeated, TakeText, RecordExpense, Write,
       TextExpires

\* What StoreImageProposal leaves behind, when it stores something.
Stored(m) ==
    /\ m \in Pictures /\ proposal[m].status = "none"
    /\ ~\E p \in OpenImages : ShownOn[p] = ShownOn[m]
    /\ Cardinality(OpenImages) < MaxOpen
    /\ proposal' = [proposal EXCEPT ![m] = [id |-> nextId, status |-> "active", expired |-> FALSE]]
    /\ nextId' = nextId + 1

\* The proposal that is closed keeps its number.
Closed(p) ==
    /\ p \in Pictures /\ proposal[p].status = "active" /\ UNCHANGED nextId
    /\ \E k \in {[id |-> proposal[p].id, status |-> "consumed", expired |-> FALSE],
                 [id |-> proposal[p].id, status |-> "active", expired |-> TRUE]} :
          proposal' = [proposal EXCEPT ![p] = k]

LEMMA ProposalsStoredOrClosed ==
    ASSUME TypeOK, [Next]_vars
    PROVE  \/ UNCHANGED <<proposal, nextId>>
           \/ \E m \in Pictures : Stored(m) \/ Closed(m)
<1>1. ASSUME NEW c \in Calls, StoreImageProposal(c)
      PROVE  UNCHANGED <<proposal, nextId>> \/ Stored(call[c].msg)
  BY <1>1 DEF StoreImageProposal, Stored
<1>2. ASSUME NEW c \in Calls, TakeImage(c)
      PROVE  UNCHANGED <<proposal, nextId>> \/ \E p \in Pictures : Closed(p)
  BY <1>2 DEF TakeImage, Closed, Consume, Meant, OpenImages, IsOpen
<1>3. ASSUME NEW p \in Pictures, ImageExpires(p) PROVE Closed(p)
  BY <1>3 DEF ImageExpires, Closed, IsOpen
<1>4. ASSUME NEW c \in Calls, StoreImageProposal(c) PROVE call[c].msg \in Pictures
  BY <1>4 DEF StoreImageProposal
<1> QED BY ProposalSteps, <1>1, <1>2, <1>3, <1>4

\* The proposals after such a step, one by one.
LEMMA StoredEach ==
    ASSUME TypeOK, NEW m \in Pictures, Stored(m)
    PROVE  /\ proposal'[m].id = nextId /\ proposal'[m].status = "active"
           /\ \A p \in Pictures \ {m} : proposal'[p] = proposal[p]
BY DEF TypeOK, Stored

LEMMA ClosedEach ==
    ASSUME TypeOK, NEW m \in Pictures, Closed(m)
    PROVE  /\ proposal'[m].id = proposal[m].id
           /\ \/ proposal'[m].status = "consumed"
              \/ proposal'[m].status = "active" /\ proposal'[m].expired
           /\ \A p \in Pictures \ {m} : proposal'[p] = proposal[p]
BY DEF TypeOK, Closed

LEMMA NumbersStayUnique ==
    ASSUME TypeOK, NumbersAreUnique, [Next]_vars
    PROVE  NumbersAreUnique'
<1>0. nextId \in Nat \ {0} /\ \A p \in Pictures : proposal[p].id \in Nat
  BY DEF TypeOK
<1>1. ASSUME NEW m \in Pictures, Stored(m) PROVE NumbersAreUnique'
  <2>1. nextId' = nextId + 1
    BY <1>1 DEF Stored
  <2> QED BY <1>0, <1>1, <2>1, StoredEach DEF NumbersAreUnique
<1>2. ASSUME NEW m \in Pictures, Closed(m) PROVE NumbersAreUnique'
  <2>1. nextId' = nextId /\ proposal[m].status # "none"
    BY <1>2 DEF Closed
  <2>2. \A p \in Pictures : /\ proposal'[p].id = proposal[p].id
                            /\ proposal'[p].status # "none" => proposal[p].status # "none"
    BY <1>2, <2>1, ClosedEach
  <2> QED BY <2>1, <2>2 DEF NumbersAreUnique
<1>3. CASE UNCHANGED <<proposal, nextId>>
  BY <1>3 DEF NumbersAreUnique
<1> QED BY <1>1, <1>2, <1>3, ProposalsStoredOrClosed

LEMMA PicturesStayDistinct ==
    ASSUME TypeOK, OneProposalPerPicture, [Next]_vars
    PROVE  OneProposalPerPicture'
<1>1. ASSUME NEW m \in Pictures, Stored(m) PROVE OneProposalPerPicture'
  <2>1. OpenImages' \subseteq OpenImages \cup {m}
    BY <1>1, StoredEach DEF OpenImages, IsOpen
  <2>2. \A p \in OpenImages : ShownOn[p] # ShownOn[m]
    BY <1>1 DEF Stored
  <2> QED BY <2>1, <2>2 DEF OneProposalPerPicture
<1>2. ASSUME NEW m \in Pictures, Closed(m) PROVE OneProposalPerPicture'
  <2>1. OpenImages' \subseteq OpenImages
    BY <1>2, ClosedEach DEF OpenImages, IsOpen
  <2> QED BY <2>1 DEF OneProposalPerPicture
<1>3. CASE UNCHANGED <<proposal, nextId>>
  BY <1>3 DEF OneProposalPerPicture, OpenImages, IsOpen
<1> QED BY <1>1, <1>2, <1>3, ProposalsStoredOrClosed

-----------------------------------------------------------------------------
(* What is handed out.                                                     *)

\* A reply takes the pending text, or a picture proposal it consumes.
TakesText(c) ==
    LET r == call[c].msg
    IN  /\ r \in Replies \ processed /\ OpenText /\ OnText(r)
        /\ processed' = processed \cup {r} /\ UNCHANGED <<proposal, nextId>>
        /\ taken' = taken \cup {[reply |-> r, source |-> pending.source, id |-> 0]}

TakesImage(c, p) ==
    LET r == call[c].msg
    IN  /\ r \in Replies \ processed /\ p \in Meant(r) /\ ~proposal[p].expired
        /\ ~IsAmbiguous(r) /\ ~OnText(r)
        /\ processed' = processed \cup {r} /\ UNCHANGED nextId
        /\ proposal' = Consume(p)
        /\ taken' = taken \cup {[reply |-> r, source |-> p, id |-> proposal[p].id]}

LEMMA TakenSteps ==
    ASSUME [Next]_vars
    PROVE  \/ taken' = taken /\ processed \subseteq processed'
           \/ \E c \in Calls : TakesText(c)
           \/ \E c \in Calls : \E p \in Pictures : TakesImage(c, p)
<1>1. ASSUME NEW c \in Calls, TakeText(c)
      PROVE  (taken' = taken /\ processed \subseteq processed') \/ TakesText(c)
  BY <1>1 DEF TakeText, TakesText, HandOut, Nothing, Fresh
<1>2. ASSUME NEW c \in Calls, TakeImage(c)
      PROVE  \/ taken' = taken /\ processed \subseteq processed'
             \/ \E p \in Pictures : TakesImage(c, p)
  <2>1. ASSUME NEW p \in Meant(call[c].msg) PROVE p \in Pictures
    BY DEF Meant, OpenImages
  <2> QED BY <1>2, <2>1 DEF TakeImage, TakesImage, HandOut, Nothing, Fresh
<1>3. CASE UNCHANGED <<taken, processed>>
  BY <1>3
<1> QED
  BY <1>1, <1>2, <1>3
     DEF Next, vars, inbound, tables, history, Arrive, QueueExpires, Bind, RunEnds,
         ReplacePendingExpenseConfirmation, StoreImageProposal, AskWhich, RefuseRepeated,
         RecordExpense, Write, TextExpires, ImageExpires

LEMMA TakenStaysSpent ==
    ASSUME TypeOK, NumbersAreUnique, TakenIsSpent, EveryReplyTakesOne, [Next]_vars
    PROVE  TakenIsSpent' /\ EveryReplyTakesOne'
<1>0. \A t \in taken : t.id # 0 => t.source \in Pictures
  BY DEF TakenIsSpent
<1>1. CASE taken' = taken /\ processed \subseteq processed'
  <2>1. \A p \in Pictures : proposal[p].status = "consumed" => proposal'[p] = proposal[p]
    <3>1. ASSUME NEW m \in Pictures, Stored(m)
          PROVE  \A p \in Pictures : proposal[p].status = "consumed" => proposal'[p] = proposal[p]
      BY <3>1, StoredEach DEF Stored
    <3>2. ASSUME NEW m \in Pictures, Closed(m)
          PROVE  \A p \in Pictures : proposal[p].status = "consumed" => proposal'[p] = proposal[p]
      BY <3>2, ClosedEach DEF Closed
    <3> QED BY <3>1, <3>2, ProposalsStoredOrClosed
  <2> QED BY <1>0, <1>1, <2>1 DEF TakenIsSpent, EveryReplyTakesOne
<1>2. ASSUME NEW c \in Calls, TakesText(c) PROVE TakenIsSpent' /\ EveryReplyTakesOne'
  <2> DEFINE n == [reply |-> call[c].msg, source |-> pending.source, id |-> 0]
  <2>1. taken' = taken \cup {n} /\ n.reply \notin processed /\ n.reply \in processed' /\ n.id = 0
    BY <1>2 DEF TakesText
  <2>2. processed \subseteq processed' /\ UNCHANGED proposal
    BY <1>2 DEF TakesText
  <2> HIDE DEF n
  <2> QED BY <1>0, <2>1, <2>2 DEF TakenIsSpent, EveryReplyTakesOne
<1>3. ASSUME NEW c \in Calls, NEW p \in Pictures, TakesImage(c, p)
      PROVE  TakenIsSpent' /\ EveryReplyTakesOne'
  <2> DEFINE n == [reply |-> call[c].msg, source |-> p, id |-> proposal[p].id]
  <2>1. /\ taken' = taken \cup {n} /\ n.reply \notin processed /\ n.reply \in processed'
        /\ n.source = p /\ n.id = proposal[p].id
    BY <1>3 DEF TakesImage
  <2>2. processed \subseteq processed' /\ proposal' = Consume(p)
    BY <1>3 DEF TakesImage
  <2>3. proposal[p].status = "active"
    BY <1>3 DEF TakesImage, Meant, OpenImages, IsOpen
  <2>4. /\ proposal'[p].status = "consumed" /\ proposal'[p].id = proposal[p].id
        /\ \A q \in Pictures \ {p} : proposal'[q] = proposal[q]
    BY <2>2 DEF Consume, TypeOK
  <2>5. \A t \in taken : t.id # 0 => t.source # p /\ t.id # proposal[p].id
    BY <2>3, <1>0 DEF TakenIsSpent, NumbersAreUnique
  <2> HIDE DEF n
  <2>6. TakenIsSpent'
    BY <1>0, <2>1, <2>2, <2>4, <2>5 DEF TakenIsSpent
  <2>7. EveryReplyTakesOne'
    BY <2>1, <2>5 DEF EveryReplyTakesOne, TakenIsSpent
  <2> QED BY <2>6, <2>7
<1> QED BY <1>1, <1>2, <1>3, TakenSteps

\* Whoever starts to write was asked to.
LEMMA WritersStayAsked ==
    ASSUME TypeOK, WritersWereAsked, [Next]_vars
    PROVE  WritersWereAsked'
<1>1. \A m, s : MayWrite(m, s, taken) => MayWrite(m, s, taken')
  BY TakenSteps DEF TakesText, TakesImage, MayWrite
<1>2. ASSUME NEW c \in Calls, End(c) PROVE WritersWereAsked'
  BY <1>1, <1>2 DEF End, Idle, WritersWereAsked, TypeOK
<1>3. ASSUME NEW c \in Calls, NEW s, NEW id, HandOut(c, s, id), call[c].msg \in Replies
      PROVE  WritersWereAsked'
  <2>1. CASE Says[call[c].msg] = "confirm"
    <3>1. MayWrite(call[c].msg, s, taken')
      <4> DEFINE n == [reply |-> call[c].msg, source |-> s, id |-> id]
      <4>1. n.reply = call[c].msg /\ n.source = s /\ n \in taken'
        BY <1>3 DEF HandOut
      <4> HIDE DEF n
      <4> QED BY <1>3, <2>1, <4>1 DEF MayWrite
    <3>2. /\ call'[c].msg = call[c].msg /\ call'[c].source = s
          /\ \A d \in Calls \ {c} : call'[d] = call[d]
      BY <1>3, <2>1 DEF HandOut, TypeOK
    <3> QED BY <1>1, <3>1, <3>2 DEF WritersWereAsked
  <2> QED BY <1>2, <1>3, <2>1 DEF HandOut
<1>4. ASSUME NEW c \in Calls, RecordExpense(c) PROVE WritersWereAsked'
  <2>1. /\ call'[c].msg = call'[c].source
        /\ \A d \in Calls \ {c} : call'[d] = call[d]
    BY <1>4 DEF RecordExpense, TypeOK
  <2> QED BY <1>1, <2>1 DEF WritersWereAsked, MayWrite
<1>5. ASSUME NEW c \in Calls, NEW m \in Messages, Bind(c, m) PROVE WritersWereAsked'
  <2>1. /\ call'[c].at = "bound"
        /\ \A d \in Calls \ {c} : call'[d] = call[d]
    BY <1>5 DEF Bind, TypeOK
  <2> QED BY <1>1, <2>1 DEF WritersWereAsked
<1>6. ASSUME NEW c \in Calls, TakeText(c) \/ TakeImage(c) PROVE WritersWereAsked'
  BY <1>2, <1>3, <1>6 DEF TakeText, TakeImage, Nothing
<1>7. CASE UNCHANGED call
  BY <1>1, <1>7 DEF WritersWereAsked
<1> QED
  BY <1>2, <1>4, <1>5, <1>6, <1>7
     DEF Next, vars, Arrive, QueueExpires, RunEnds, ReplacePendingExpenseConfirmation,
         StoreImageProposal, AskWhich, RefuseRepeated, Write, TextExpires, ImageExpires

\* Only Write books, for the run that may.
LEMMA BookedStaysAsked ==
    ASSUME TypeOK, WritersWereAsked, BookedOnlyAsAsked, [Next]_vars
    PROVE  BookedOnlyAsAsked'
<1>1. taken \subseteq taken'
  BY TakenSteps DEF TakesText, TakesImage
<1>2. \/ booked' = booked
      \/ \E c \in Calls : /\ call[c].at = "write"
                          /\ booked' = booked \cup {[source |-> call[c].source, by |-> call[c].msg]}
  <2>1. ASSUME NEW c \in Calls, Write(c)
        PROVE  \/ booked' = booked
               \/ /\ call[c].at = "write"
                  /\ booked' = booked \cup {[source |-> call[c].source, by |-> call[c].msg]}
    BY <2>1 DEF Write, writes
  <2> QED
    BY <2>1 DEF Next, vars, writes, Arrive, QueueExpires, Bind, RunEnds,
                ReplacePendingExpenseConfirmation, StoreImageProposal, AskWhich, RefuseRepeated,
                TakeText, TakeImage, RecordExpense, TextExpires, ImageExpires
<1> QED BY <1>1, <1>2 DEF WritersWereAsked, MayWrite, BookedOnlyAsAsked

-----------------------------------------------------------------------------
(* The theorems.                                                           *)

LEMMA InitIndInv == Init => IndInv
<1> SUFFICES ASSUME Init PROVE IndInv
  OBVIOUS
<1>1. TypeOK
  BY InitTypeOK
<1>2. /\ \A c \in Calls : call[c].at = "idle"
      /\ \A p \in Pictures : proposal[p].status = "none"
  BY DEF Init, Idle, Never
<1>3. NewestKnown /\ PendingTextIsLatest
  BY <1>2 DEF Init, NewestKnown, PendingTextIsLatest, NoRow
<1>4. NumbersAreUnique /\ OneProposalPerPicture
  BY <1>2 DEF NumbersAreUnique, OneProposalPerPicture, OpenImages, IsOpen
<1>5. TakenIsSpent /\ EveryReplyTakesOne /\ WritersWereAsked /\ BookedOnlyAsAsked
  BY <1>2 DEF Init, TakenIsSpent, EveryReplyTakesOne, WritersWereAsked, BookedOnlyAsAsked
<1> QED BY <1>1, <1>3, <1>4, <1>5 DEF IndInv

LEMMA NextIndInv == IndInv /\ [Next]_vars => IndInv'
<1> SUFFICES ASSUME IndInv, [Next]_vars PROVE IndInv'
  OBVIOUS
<1>1. TypeOK'
  BY NextTypeOK DEF IndInv
<1>2. NewestKnown' /\ PendingTextIsLatest'
  BY <1>1, NewestStaysKnown, PendingStaysLatest DEF IndInv
<1>3. NumbersAreUnique' /\ OneProposalPerPicture'
  BY NumbersStayUnique, PicturesStayDistinct DEF IndInv
<1>4. TakenIsSpent' /\ EveryReplyTakesOne'
  BY TakenStaysSpent DEF IndInv
<1>5. WritersWereAsked' /\ BookedOnlyAsAsked'
  BY WritersStayAsked, BookedStaysAsked DEF IndInv
<1> QED BY <1>1, <1>2, <1>3, <1>4, <1>5 DEF IndInv

(* The inductive invariant holds in every reachable state.                 *)
THEOREM Invariance == Spec => []IndInv
BY InitIndInv, NextIndInv, PTL DEF Spec

(* A withdrawn text proposal never comes back: the pending text is always   *)
(* that of the newest content (replacePendingExpenseConfirmation checks     *)
(* latest_substantive_messages in its own transaction).                     *)
THEOREM PendingIsLatest == Spec => []PendingTextIsLatest
<1>1. IndInv => PendingTextIsLatest
  BY DEF IndInv
<1> QED BY <1>1, Invariance, PTL

(* A reply settles one proposal and a picture proposal is settled once      *)
(* (consumeImageOrTextConfirmation).                                        *)
THEOREM RepliesTakeOne == Spec => []EveryReplyTakesOne
<1>1. IndInv => EveryReplyTakesOne
  BY DEF IndInv
<1> QED BY <1>1, Invariance, PTL

(* There are never two open proposals of one picture (storeImageProposal).  *)
THEOREM PicturesProposedOnce == Spec => []OneProposalPerPicture
<1>1. IndInv => OneProposalPerPicture
  BY DEF IndInv
<1> QED BY <1>1, Invariance, PTL

(* Nothing is booked on a cancellation, nor for a proposal that was not      *)
(* handed to the reply (resolve_expense_confirmation).                      *)
THEOREM BookedAsAsked == Spec => []BookedOnlyAsAsked
<1>1. IndInv => BookedOnlyAsAsked
  BY DEF IndInv
<1> QED BY <1>1, Invariance, PTL

(* A reply that was acted on takes nothing again                            *)
(* (processed_expense_confirmations).                                       *)
THEOREM SpentStaysSpent == Spec => SpentRepliesStaySpent
<1> DEFINE A == \A t \in taken' \ taken : t.reply \notin processed
<1>1. [Next]_vars => [A]_vars
  BY TakenSteps DEF TakesText, TakesImage
<1> QED BY <1>1, PTL DEF Spec, SpentRepliesStaySpent

(* A bare reply takes a proposal only when it is the single open one        *)
(* (the count over both tables in consumeImageOrTextConfirmation).          *)
THEOREM BareRepliesNeverChoose == Spec => BareReplyNeverChooses
<1> DEFINE Only(t) == /\ OpenCount = 1
                      /\ IF t.id = 0 THEN OpenText /\ t.source = pending.source
                                     ELSE t.source \in OpenImages
           A == \A t \in taken' \ taken : Names[t.reply] = 0 => Only(t)
<1>1. IndInv /\ [Next]_vars => [A]_vars
  <2> SUFFICES ASSUME IndInv, [Next]_vars, NEW t \in taken' \ taken, Names[t.reply] = 0
               PROVE  Only(t)
    OBVIOUS
  <2>1. ASSUME NEW c \in Calls, TakesText(c) PROVE Only(t)
    <3>1. t = [reply |-> call[c].msg, source |-> pending.source, id |-> 0]
      BY <2>1 DEF TakesText
    <3>2. OpenImages = {} /\ OpenText
      BY <2>1 DEF TakesText, OnText
    <3>3. OpenCount = 1
      BY <3>2, FS_EmptySet DEF OpenCount
    <3> QED BY <3>1, <3>2, <3>3
  <2>2. ASSUME NEW c \in Calls, NEW p \in Pictures, TakesImage(c, p) PROVE Only(t)
    <3>1. t = [reply |-> call[c].msg, source |-> p, id |-> proposal[p].id]
      BY <2>2 DEF TakesImage
    <3>2. p \in OpenImages
      BY <2>2, <3>1 DEF TakesImage, Meant
    <3>3. OpenCount = 1
      BY <2>2, <3>1, <3>2 DEF TakesImage, IsAmbiguous
    <3>4. proposal[p].id # 0
      BY <3>2 DEF OpenImages, IsOpen, IndInv, NumbersAreUnique, TypeOK
    <3> QED BY <3>1, <3>2, <3>3, <3>4
  <2> QED BY <2>1, <2>2, TakenSteps
<1> QED BY <1>1, Invariance, PTL DEF Spec, BareReplyNeverChooses

(* The user never faces more open pictures than the limit                   *)
(* (MAX_ACTIVE_IMAGE_PROPOSALS in storeImageProposal).                      *)
THEOREM ProposalsAreBounded == Spec => []OpenProposalsAreBounded
<1>0. MaxOpen \in Nat /\ IsFiniteSet(OpenImages)
  <2>1. OpenImages \subseteq Pictures
    BY DEF OpenImages
  <2> QED BY <2>1, ConfirmationAssumption, FS_Subset
<1>1. Init => OpenProposalsAreBounded
  <2> SUFFICES ASSUME Init PROVE OpenProposalsAreBounded
    OBVIOUS
  <2>1. OpenImages = {}
    BY DEF Init, OpenImages, IsOpen, Never
  <2> QED BY <1>0, <2>1, FS_EmptySet DEF OpenProposalsAreBounded
<1>2. IndInv /\ OpenProposalsAreBounded /\ [Next]_vars => OpenProposalsAreBounded'
  <2> SUFFICES ASSUME IndInv, OpenProposalsAreBounded, [Next]_vars
               PROVE  OpenProposalsAreBounded'
    OBVIOUS
  <2>0. TypeOK
    BY DEF IndInv
  <2>1. ASSUME NEW m \in Pictures, Stored(m) PROVE OpenProposalsAreBounded'
    <3>1. OpenImages' = OpenImages \cup {m} /\ m \notin OpenImages
      <4>1. proposal'[m].status = "active" /\ ~proposal'[m].expired
        BY <2>0, <2>1 DEF TypeOK, Stored
      <4> QED BY <2>0, <2>1, <4>1, StoredEach DEF OpenImages, IsOpen, Stored
    <3>2. Cardinality(OpenImages') = Cardinality(OpenImages) + 1
      BY <1>0, <3>1, FS_AddElement
    <3>3. Cardinality(OpenImages) \in Nat /\ Cardinality(OpenImages) < MaxOpen
      BY <1>0, <2>1, FS_CardinalityType DEF Stored
    <3> QED BY <1>0, <3>2, <3>3 DEF OpenProposalsAreBounded
  <2>2. ASSUME OpenImages' \subseteq OpenImages PROVE OpenProposalsAreBounded'
    <3>1. /\ Cardinality(OpenImages') <= Cardinality(OpenImages)
          /\ Cardinality(OpenImages') \in Nat /\ Cardinality(OpenImages) \in Nat
      BY <1>0, <2>2, FS_Subset, FS_CardinalityType
    <3> QED BY <1>0, <3>1 DEF OpenProposalsAreBounded
  <2>3. ASSUME NEW m \in Pictures, Closed(m) PROVE OpenImages' \subseteq OpenImages
    BY <2>0, <2>3, ClosedEach DEF OpenImages, IsOpen
  <2>4. CASE UNCHANGED <<proposal, nextId>>
    BY <2>2, <2>4 DEF OpenImages, IsOpen
  <2> QED BY <2>0, <2>1, <2>2, <2>3, <2>4, ProposalsStoredOrClosed
<1> QED BY <1>1, <1>2, Invariance, PTL DEF Spec

(* The open picture proposals stay within the limit and are of different    *)
(* pictures (storeImageProposal).                                           *)
THEOREM ProposalsStayKept == Spec => []ProposalsAreKept
<1>1. OneProposalPerPicture /\ OpenProposalsAreBounded => ProposalsAreKept
  BY DEF ProposalsAreKept
<1> QED BY <1>1, PicturesProposedOnce, ProposalsAreBounded, PTL
=============================================================================
