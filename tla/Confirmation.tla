---------------------------- MODULE Confirmation ----------------------------
(***************************************************************************)
(* Proposals and their confirmation, in one conversation.  An expense the  *)
(* plugin will not write by itself is put to the user: a text expense as   *)
(* the conversation's single pending row, a picture as a numbered          *)
(* proposal.  The user's short reply takes one of them.  Messages arrive   *)
(* at least once, wait in the trusted queue until a run binds them, and    *)
(* the runs that act on them interleave with later arrivals; proposals and *)
(* queue rows expire at any moment.  The stored tables survive a restart,  *)
(* which only ends the runs.                                               *)
(*                                                                         *)
(* The write that follows a confirmation is the pipeline of ExpenseWrite,  *)
(* here one step that claims the source's receipt.                         *)
(***************************************************************************)
EXTENDS Naturals, FiniteSets

CONSTANTS Calls,       \* runs that may be in progress at the same time
          Texts,       \* text messages that name an expense
          Pictures,    \* picture messages
          Replies,     \* messages whose whole content is a confirm or cancel word
          ShownOn,     \* the image of each picture message (its sha256)
          Says,        \* the decision of each reply: "confirm" or "cancel"
          Names,       \* the proposal number a reply names, 0 when it names none
          MaxOpen,     \* how many picture proposals may be open (10 in the code)
          NoMsg

Sources  == Texts \cup Pictures
Messages == Sources \cup Replies

ASSUME ConfirmationAssumption ==
    /\ Texts \cap Pictures = {} /\ Replies \cap Sources = {} /\ NoMsg \notin Messages
    /\ Says \in [Replies -> {"confirm", "cancel"}]
    /\ Names \in [Replies -> Nat]
    /\ MaxOpen \in Nat
    /\ IsFiniteSet(Pictures)

VARIABLES
    queue,      \* trusted_inbound_queue: a message is waiting, claimed, or has no row
    known,      \* real_inbound_message_history
    latest,     \* latest_substantive_messages of the conversation
    pending,    \* pending_expense_confirmations: the row's source and whether its TTL is over
    proposal,   \* image_expense_proposals, by source message
    nextId,     \* the table's AUTOINCREMENT
    processed,  \* processed_expense_confirmations, the tombstones of replies
    call,       \* what each run is doing
    receipt,    \* the sources whose receipt was claimed
    booked,     \* transactions: the source and the message whose run wrote it
    taken,      \* history: which reply was handed which proposal
    asked       \* history: the sources proposed when a reply was first found ambiguous

inbound == <<queue, known, latest>>
tables  == <<pending, proposal, nextId, processed>>
writes  == <<receipt, booked>>
history == <<taken, asked>>
vars    == <<queue, known, latest, pending, proposal, nextId, processed, call,
             receipt, booked, taken, asked>>

NoRow == [source |-> NoMsg, expired |-> FALSE]
Never == [id |-> 0, status |-> "none", expired |-> FALSE]
Idle  == [at |-> "idle", msg |-> NoMsg, source |-> NoMsg]
NotAsked == [before |-> FALSE, proposed |-> {}]

TypeOK ==
    /\ queue \in [Messages -> {"absent", "waiting", "claimed"}]
    /\ known \subseteq Messages
    /\ latest \in Sources \cup {NoMsg}
    /\ pending \in [source: Texts \cup {NoMsg}, expired: BOOLEAN]
    /\ proposal \in [Pictures -> [id: Nat, status: {"none", "active", "consumed"}, expired: BOOLEAN]]
    /\ nextId \in Nat \ {0}
    /\ processed \subseteq Replies
    /\ call \in [Calls -> [at: {"idle", "bound", "write"}, msg: Messages \cup {NoMsg},
                           source: Sources \cup {NoMsg}]]
    /\ \A c \in Calls : /\ call[c].at # "idle" => call[c].msg \in Messages
                        /\ call[c].at = "write" => call[c].source \in Sources
    /\ receipt \subseteq Sources
    /\ booked \subseteq [source: Sources, by: Messages]
    /\ taken \subseteq [reply: Replies, source: Sources, id: Nat]
    /\ asked \in [Replies -> [before: BOOLEAN, proposed: SUBSET Sources]]

Init ==
    /\ queue = [m \in Messages |-> "absent"]
    /\ known = {} /\ latest = NoMsg
    /\ pending = NoRow
    /\ proposal = [p \in Pictures |-> Never]
    /\ nextId = 1 /\ processed = {}
    /\ call = [c \in Calls |-> Idle]
    /\ receipt = {} /\ booked = {} /\ taken = {}
    /\ asked = [r \in Replies |-> NotAsked]

-----------------------------------------------------------------------------
(* Messages.                                                               *)

\* message_received: a delivery or a redelivery.  Only the first one counts as
\* new content, which withdraws the pending text proposal; a claimed queue row
\* is reactivated, a waiting one stays.
Arrive(m) ==
    LET newContent == m \notin known /\ m \in Sources
    IN  /\ known' = known \cup {m}
        /\ latest' = IF newContent THEN m ELSE latest
        /\ pending' = IF newContent THEN NoRow ELSE pending
        /\ queue' = [queue EXCEPT ![m] = "waiting"]
        /\ UNCHANGED <<proposal, nextId, processed, call, writes, history>>

\* A run claims the message it was started for.
Bind(c, m) ==
    /\ call[c].at = "idle" /\ queue[m] = "waiting"
    /\ queue' = [queue EXCEPT ![m] = "claimed"]
    /\ call' = [call EXCEPT ![c] = [at |-> "bound", msg |-> m, source |-> NoMsg]]
    /\ UNCHANGED <<known, latest, tables, writes, history>>

\* A message nobody claims in time is deleted.
QueueExpires(m) ==
    /\ queue[m] = "waiting"
    /\ queue' = [queue EXCEPT ![m] = "absent"]
    /\ UNCHANGED <<known, latest, tables, call, writes, history>>

\* Mutant: the run forgets its message but goes on.
EndKeepsStage(c) == call' = [call EXCEPT ![c].msg = NoMsg]

End(c) == call' = [call EXCEPT ![c] = Idle]

\* The run ends without a further call: the model only talked, the decision did
\* not match the reply, the authority was revoked, or the gateway restarted.
RunEnds(c) ==
    /\ call[c].at # "idle"
    /\ End(c)
    /\ UNCHANGED <<inbound, tables, writes, history>>

-----------------------------------------------------------------------------
(* Proposals.                                                              *)

IsCurrentExpenseProposalSource(m) == latest \in {NoMsg, m}

\* Mutant: the row is written without looking at newer content.
ReplacePendingBlindly(c) ==
    /\ call[c].at = "bound" /\ call[c].msg \in Texts
    /\ pending' = [source |-> call[c].msg, expired |-> FALSE]
    /\ End(c)
    /\ UNCHANGED <<inbound, proposal, nextId, processed, writes, history>>

\* prepare_expense, or record_expense on a text that needs a confirmation.
ReplacePendingExpenseConfirmation(c) ==
    /\ call[c].at = "bound" /\ call[c].msg \in Texts
    /\ pending' = IF IsCurrentExpenseProposalSource(call[c].msg)
                  THEN [source |-> call[c].msg, expired |-> FALSE]
                  ELSE pending
    /\ End(c)
    /\ UNCHANGED <<inbound, proposal, nextId, processed, writes, history>>

IsOpen(p)  == proposal[p].status = "active" /\ ~proposal[p].expired
OpenImages == {p \in Pictures : IsOpen(p)}
OpenText   == pending.source # NoMsg /\ ~pending.expired

\* Mutant: the limit is off by one.
StoreImageProposalOneMore(c) ==
    LET m == call[c].msg
        duplicate == \E p \in OpenImages : ShownOn[p] = ShownOn[m]
    IN  /\ call[c].at = "bound" /\ m \in Pictures
        /\ IF proposal[m].status = "none" /\ ~duplicate /\ Cardinality(OpenImages) <= MaxOpen
           THEN /\ proposal' = [proposal EXCEPT ![m] =
                                  [id |-> nextId, status |-> "active", expired |-> FALSE]]
                /\ nextId' = nextId + 1
           ELSE UNCHANGED <<proposal, nextId>>
        /\ End(c)
        /\ UNCHANGED <<inbound, pending, processed, writes, history>>

\* A second proposal of the source, of a picture that is already open, or beyond
\* MaxOpen is answered without storing one.
StoreImageProposal(c) ==
    LET m == call[c].msg
        duplicate == \E p \in OpenImages : ShownOn[p] = ShownOn[m]
    IN  /\ call[c].at = "bound" /\ m \in Pictures
        /\ IF proposal[m].status = "none" /\ ~duplicate /\ Cardinality(OpenImages) < MaxOpen
           THEN /\ proposal' = [proposal EXCEPT ![m] =
                                  [id |-> nextId, status |-> "active", expired |-> FALSE]]
                /\ nextId' = nextId + 1
           ELSE UNCHANGED <<proposal, nextId>>
        /\ End(c)
        /\ UNCHANGED <<inbound, pending, processed, writes, history>>

TextExpires ==
    /\ OpenText
    /\ pending' = [source |-> pending.source, expired |-> TRUE]
    /\ UNCHANGED <<inbound, proposal, nextId, processed, call, writes, history>>

ImageExpires(p) ==
    /\ IsOpen(p)
    /\ proposal' = [proposal EXCEPT ![p] = [id |-> @.id, status |-> "active", expired |-> TRUE]]
    /\ UNCHANGED <<inbound, pending, nextId, processed, call, writes, history>>

-----------------------------------------------------------------------------
(* consumeImageOrTextConfirmation, one immediate transaction.              *)

Proposed == {s \in Sources : s = pending.source \/ (s \in Pictures /\ proposal[s].status # "none")}
OpenCount == Cardinality(OpenImages) + IF OpenText THEN 1 ELSE 0
\* Mutant: the pending text does not make a bare reply ambiguous.
IsAmbiguousAmongImages(r) == Names[r] = 0 /\ Cardinality(OpenImages) > 1
IsAmbiguous(r) == Names[r] = 0 /\ OpenImages # {} /\ OpenCount # 1
OnText(r)      == Names[r] = 0 /\ OpenImages = {}

\* The picture proposals a reply can mean: the one it names, or the only open one.
Meant(r) == IF Names[r] = 0 THEN OpenImages
            ELSE {p \in Pictures : proposal[p].id = Names[r] /\ proposal[p].status = "active"}

\* Mutant: a cancelled proposal is written like a confirmed one.
HandOutAlways(c, s, id) ==
    LET r == call[c].msg
    IN  /\ taken' = taken \cup {[reply |-> r, source |-> s, id |-> id]}
        /\ call' = [call EXCEPT ![c] = [at |-> "write", msg |-> r, source |-> s]]

HandOut(c, s, id) ==
    LET r == call[c].msg
    IN  /\ taken' = taken \cup {[reply |-> r, source |-> s, id |-> id]}
        /\ IF Says[r] = "confirm"
           THEN call' = [call EXCEPT ![c] = [at |-> "write", msg |-> r, source |-> s]]
           ELSE End(c)

Nothing(c) == End(c) /\ UNCHANGED taken

\* Several proposals are open and the reply names none: nothing is taken.
AskWhich(c) ==
    LET r == call[c].msg
    IN  /\ call[c].at = "bound" /\ r \in Replies
        /\ IsAmbiguous(r)
        /\ asked' = IF asked[r].before THEN asked
                    ELSE [asked EXCEPT ![r] = [before |-> TRUE, proposed |-> Proposed]]
        /\ End(c)
        /\ UNCHANGED <<inbound, tables, writes, taken>>

\* The reply was acted on before.
RefuseRepeated(c) ==
    LET r == call[c].msg
    IN  /\ call[c].at = "bound" /\ r \in processed
        /\ ~IsAmbiguous(r)
        /\ End(c)
        /\ UNCHANGED <<inbound, tables, writes, history>>

\* No tombstone of the reply was written yet.
Fresh(r) == r \notin processed

\* No picture is open: the reply is for the pending text, whose row goes.
TakeText(c) ==
    LET r == call[c].msg
        s == pending.source
    IN  /\ call[c].at = "bound" /\ r \in Replies
        /\ OnText(r) /\ Fresh(r)
        /\ processed' = processed \cup {r}
        /\ pending' = NoRow
        /\ IF OpenText /\ IsCurrentExpenseProposalSource(s) THEN HandOut(c, s, 0) ELSE Nothing(c)
        /\ UNCHANGED <<inbound, proposal, nextId, writes, asked>>

\* Mutant: the proposal that was handed out stays active.
ConsumeNothing(p) == proposal
Consume(p) == [proposal EXCEPT ![p] = [id |-> @.id, status |-> "consumed", expired |-> FALSE]]

\* The reply is for a picture: the proposal is consumed, an expired one too.
TakeImage(c) ==
    LET r == call[c].msg
    IN  /\ call[c].at = "bound" /\ r \in Replies
        /\ ~OnText(r) /\ ~IsAmbiguous(r) /\ Fresh(r)
        /\ processed' = processed \cup {r}
        /\ \/ /\ Meant(r) = {}
              /\ Nothing(c) /\ UNCHANGED proposal
           \/ \E p \in Meant(r) :
                /\ proposal' = Consume(p)
                /\ IF proposal[p].expired THEN Nothing(c) ELSE HandOut(c, p, proposal[p].id)
        /\ UNCHANGED <<inbound, pending, nextId, writes, asked>>

-----------------------------------------------------------------------------
(* Writing.                                                                *)

\* record_expense writes the message's own expense without a proposal.
RecordExpense(c) ==
    /\ call[c].at = "bound" /\ call[c].msg \in Sources
    /\ call' = [call EXCEPT ![c] = [at |-> "write", msg |-> @.msg, source |-> @.msg]]
    /\ UNCHANGED <<inbound, tables, writes, history>>

\* The source's receipt is claimed; the transaction may still fail.
Write(c) ==
    LET j == call[c]
    IN  /\ j.at = "write"
        /\ \/ /\ j.source \notin receipt
              /\ receipt' = receipt \cup {j.source}
              /\ booked' \in {booked, booked \cup {[source |-> j.source, by |-> j.msg]}}
           \/ j.source \in receipt /\ UNCHANGED writes
        /\ End(c)
        /\ UNCHANGED <<inbound, tables, history>>

Next ==
    \/ \E m \in Messages : Arrive(m) \/ QueueExpires(m)
    \/ \E c \in Calls, m \in Messages : Bind(c, m)
    \/ \E c \in Calls :
          \/ RunEnds(c) \/ ReplacePendingExpenseConfirmation(c) \/ StoreImageProposal(c)
          \/ AskWhich(c) \/ RefuseRepeated(c) \/ TakeText(c) \/ TakeImage(c)
          \/ RecordExpense(c) \/ Write(c)
    \/ TextExpires
    \/ \E p \in Pictures : ImageExpires(p)

Spec == Init /\ [][Next]_vars

-----------------------------------------------------------------------------
(* Properties.                                                              *)

(* One reply settles one proposal and a picture proposal is handed out      *)
(* once, however often the reply is redelivered and whichever instance acts *)
(* on it.                                                                   *)
EveryReplyTakesOne ==
    \A t, u \in taken :
        /\ t.reply = u.reply => t = u
        /\ t.id # 0 /\ t.id = u.id => t = u

(* The pending text is always that of the newest content of the            *)
(* conversation: an older proposal is withdrawn with the arrival of the    *)
(* next message, and a run that was slow to propose cannot bring it back.   *)
PendingTextIsLatest == pending.source # NoMsg => pending.source = latest

(* The user never faces more open pictures than the limit.                  *)
OpenProposalsAreBounded == Cardinality(OpenImages) <= MaxOpen

(* Nor two open proposals of one picture, however often it is resent: one   *)
(* yes to each would book it twice.                                         *)
OneProposalPerPicture == \A p, q \in OpenImages : ShownOn[p] = ShownOn[q] => p = q

(* So the open proposals are few, and of different pictures.                *)
ProposalsAreKept == OneProposalPerPicture /\ OpenProposalsAreBounded

(* A transaction is written by the message's own run, or because a reply    *)
(* that said yes was handed its proposal; a cancellation writes nothing.    *)
BookedOnlyAsAsked ==
    \A b \in booked : b.by # b.source =>
        /\ b.by \in Replies /\ Says[b.by] = "confirm"
        /\ \E t \in taken : t.reply = b.by /\ t.source = b.source

(* A bare yes or no never chooses: it takes a proposal only when that is     *)
(* the single one open, in either table.                                    *)
BareReplyNeverChooses ==
    [][\A t \in taken' \ taken : Names[t.reply] = 0 =>
          /\ OpenCount = 1
          /\ IF t.id = 0 THEN OpenText /\ t.source = pending.source ELSE t.source \in OpenImages]_vars

(* A reply that was acted on, whether it found a proposal or not, is never   *)
(* handed one by a redelivery.                                              *)
SpentRepliesStaySpent ==
    [][\A t \in taken' \ taken : t.reply \notin processed]_vars

(* "Redelivery of an old confirmation must never consume a subsequent       *)
(* proposal": nor is a reply that was answered with a question handed a     *)
(* proposal that did not exist then.                                        *)
OldReplyTakesNothingNew ==
    [][\A t \in taken' \ taken : asked[t.reply].before => t.source \in asked[t.reply].proposed]_vars
=============================================================================
