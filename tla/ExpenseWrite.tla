---------------------------- MODULE ExpenseWrite ----------------------------
(***************************************************************************)
(* The write pipeline of the bookkeeping plugin: one record_expense or     *)
(* resolve_expense_confirmation call takes a trusted message to at most    *)
(* one transaction in the ledger.  Calls run concurrently, in several      *)
(* plugin instances that share one SQLite receipt store; the awaits of the *)
(* code (ledger lookup, image review, account and category lookup, the     *)
(* POST) are the places where another call may run.  The ledger is a       *)
(* remote service that may answer late, never, or apply a request whose    *)
(* answer was lost, and whose owner deletes transactions on its web page.  *)
(*                                                                         *)
(* A message stands for its receipt key (channel + message id), an image   *)
(* for the attachment key of one recipient's picture, an order for the     *)
(* order key the model extracted from it.                                  *)
(***************************************************************************)
EXTENDS Naturals, FiniteSets

CONSTANTS Workers,      \* tool calls that may run at the same time
          Messages,     \* receipt keys of trusted inbound messages
          Images,       \* attachment evidence keys
          Orders,       \* order evidence keys
          ImageOf,      \* the attachment of each message, or NoImage
          NoMsg, NoImage, NoOrder

ASSUME ConstantsAssumption ==
    /\ ImageOf \in [Messages -> Images \cup {NoImage}]
    /\ NoMsg \notin Messages
    /\ {NoImage, NoOrder} \cap (Images \cup Orders) = {}
    /\ Images \cap Orders = {}

VARIABLES
    status,     \* message_receipts.status, "none" when there is no row
    txid,       \* the transactionId of a created receipt, 0 when it has none
    link,       \* image_expense_links: evidence key -> receipt key
    proposal,   \* image_expense_proposals of a message: its order and status
    job,        \* what each worker is doing
    posts,      \* every POST to transactions/add.json ever sent
    inflight,   \* ids of the posts the ledger has neither applied nor refused
    live,       \* ids of the transactions in the ledger
    deleted,    \* ids of the transactions its owner deleted
    nextId

receipts == <<status, txid>>
ledger   == <<posts, inflight, live, deleted, nextId>>
vars     == <<status, txid, link, proposal, job, posts, inflight, live, deleted, nextId>>

Keys    == Images \cup Orders
OrderOrNone == Orders \cup {NoOrder}
Status  == {"none", "pending", "created", "failed", "unknown"}
Stage   == {"idle", "att1", "ord1", "decide", "att2", "ord2", "claim", "resolve", "post"}
Refreshing == {"att1", "ord1", "att2", "ord2"}

Job  == [at: Stage, step: {"read", "lookup", "reread"}, msg: Messages \cup {NoMsg},
         order: OrderOrNone, confirmed: BOOLEAN, owner: Messages \cup {NoMsg}, tx: Nat]
Idle == [at |-> "idle", step |-> "read", msg |-> NoMsg, order |-> NoOrder,
         confirmed |-> FALSE, owner |-> NoMsg, tx |-> 0]
NoProposal == [status |-> "none", order |-> NoOrder]
Spent      == [status |-> "spent", order |-> NoOrder]

HasImage(m) == ImageOf[m] # NoImage

\* What a job at each stage carries.
WellFormed(j) ==
    /\ j.at # "idle" => j.msg \in Messages
    /\ j.at \in Refreshing \cup {"decide"} => HasImage(j.msg)
    /\ j.at \in {"ord1", "ord2"} => j.order # NoOrder
    /\ j.step # "read" => j.at \in Refreshing

TypeOK ==
    /\ status \in [Messages -> Status]
    /\ txid \in [Messages -> Nat]
    /\ link \in [Keys -> Messages \cup {NoMsg}]
    /\ proposal \in [Messages -> [status: {"none", "active", "spent"}, order: OrderOrNone]]
    /\ job \in [Workers -> Job]
    /\ \A w \in Workers : WellFormed(job[w])
    /\ \A m \in Messages : proposal[m].status = "active" => HasImage(m)
    /\ posts \subseteq [id: Nat, msg: Messages, order: OrderOrNone, direct: BOOLEAN]
    /\ inflight \subseteq Nat /\ live \subseteq Nat /\ deleted \subseteq Nat
    /\ nextId \in Nat \ {0}

Init ==
    /\ status = [m \in Messages |-> "none"]
    /\ txid = [m \in Messages |-> 0]
    /\ link = [k \in Keys |-> NoMsg]
    /\ proposal = [m \in Messages |-> NoProposal]
    /\ job = [w \in Workers |-> Idle]
    /\ posts = {} /\ inflight = {} /\ live = {} /\ deleted = {}
    /\ nextId = 1

-----------------------------------------------------------------------------
(* Movement of one call through the stages.                                *)

\* Mutant: a call that ends without giving up its place.
FinishKeepsStage(w) == job' = [job EXCEPT ![w].msg = NoMsg]

Finish(w)    == job' = [job EXCEPT ![w] = Idle]
GoTo(w, s)   == job' = [job EXCEPT ![w] = [@ EXCEPT !.at = s, !.step = "read",
                                                    !.owner = NoMsg, !.tx = 0]]

\* Where a call goes once the evidence key it was refreshing does not block it.
AfterRefresh(j) ==
    CASE j.at = "att1" -> IF j.order # NoOrder THEN "ord1" ELSE "decide"
      [] j.at = "ord1" -> "decide"
      [] j.at = "att2" -> IF j.order # NoOrder /\ ~j.confirmed THEN "ord2" ELSE "claim"
      [] OTHER -> "claim"

Unblocked(w) == GoTo(w, AfterRefresh(job[w]))

\* Only imageExpenseResponse answers "duplicate" from a refreshed attachment;
\* the other callers ignore the receipt and leave the decision to the claim.
Blocked(w) == IF job[w].at = "att1" THEN Finish(w) ELSE Unblocked(w)

KeyAt(j) == IF j.at \in {"att1", "att2"} THEN ImageOf[j.msg] ELSE j.order

(* A message reaches record_expense or prepare_expense, for the first time *)
(* or redelivered.  A text expense goes straight to the claim; a text       *)
(* proposal is confirmed into the same path.                                *)
Deliver(w, m, o) ==
    /\ job[w].at = "idle"
    /\ ~HasImage(m) => o = NoOrder
    /\ job' = [job EXCEPT ![w] = [Idle EXCEPT !.at = IF HasImage(m) THEN "att1" ELSE "claim",
                                              !.msg = m, !.order = o]]
    /\ UNCHANGED <<receipts, link, proposal, ledger>>

(* refreshImageReceipt up to its await: the message's own receipt, a        *)
(* missing link or a receipt that is not a created one need no lookup.      *)
ReadLink(w) ==
    LET j == job[w]
        owner == link[KeyAt(j)]
    IN  /\ j.at \in Refreshing /\ j.step = "read"
        /\ IF status[j.msg] # "none" THEN Blocked(w)
           ELSE IF owner = NoMsg THEN Unblocked(w)
           ELSE IF status[owner] # "created" THEN Blocked(w)
           ELSE job' = [job EXCEPT ![w] = [@ EXCEPT !.step = "lookup", !.owner = owner,
                                                    !.tx = txid[owner]]]
        /\ UNCHANGED <<receipts, link, proposal, ledger>>

\* transactionExists returned true: the transaction is still in the ledger.
LookupFound(w) ==
    /\ job[w].step = "lookup" /\ job[w].tx \in live
    /\ Blocked(w)
    /\ UNCHANGED <<receipts, link, proposal, ledger>>

\* transactionExists threw, or the ledger said "not found" to a call whose
\* authority has been revoked meanwhile: nothing is released, nothing written.
LookupFails(w) ==
    /\ job[w].step = "lookup"
    /\ Finish(w)
    /\ UNCHANGED <<receipts, link, proposal, ledger>>

\* Mutant: any error answer is taken for "not found".
LookupGoneUnverified(w) ==
    LET j == job[w]
    IN  /\ j.step = "lookup"
        /\ link' = [k \in Keys |-> IF link[k] = j.owner THEN NoMsg ELSE link[k]]
        /\ job' = [job EXCEPT ![w] = [@ EXCEPT !.step = "reread", !.owner = NoMsg, !.tx = 0]]
        /\ UNCHANGED <<receipts, proposal, ledger>>

\* releaseDeletedImageLinks(link): drops every link of the owner if its receipt
\* is still the created one that was looked up.
LookupGone(w) ==
    LET j == job[w]
    IN  /\ j.step = "lookup" /\ j.tx \notin live
        /\ IF status[j.owner] = "created" /\ txid[j.owner] = j.tx
           THEN /\ link' = [k \in Keys |-> IF link[k] = j.owner THEN NoMsg ELSE link[k]]
                /\ job' = [job EXCEPT ![w] = [@ EXCEPT !.step = "reread", !.owner = NoMsg, !.tx = 0]]
           ELSE Finish(w) /\ UNCHANGED link
        /\ UNCHANGED <<receipts, proposal, ledger>>

\* Another instance may have claimed this evidence since the release.
Reread(w) ==
    /\ job[w].step = "reread"
    /\ IF link[KeyAt(job[w])] # NoMsg THEN Blocked(w) ELSE Unblocked(w)
    /\ UNCHANGED <<receipts, link, proposal, ledger>>

(* The second look at the original picture, awaited after the attachment    *)
(* was refreshed: when it refuses, the call ends; when it passes, the call   *)
(* goes on with the order (ReadLink) or the decision.                        *)
ReviewRefuses(w) ==
    /\ job[w].at \in {"ord1", "decide"} /\ job[w].step = "read"
    /\ Finish(w)
    /\ UNCHANGED <<receipts, link, proposal, ledger>>

ImageOrderNeedsConfirmation(j) ==
    /\ j.order # NoOrder
    /\ link[ImageOf[j.msg]] = NoMsg
    /\ link[j.order] # NoMsg

(* The expense is put to the user instead of being written: the order is    *)
(* already linked, the picture is ambiguous, or the user asked for it.      *)
StoreImageProposal(w) ==
    LET j == job[w]
        sameImage == {m \in Messages : proposal[m].status = "active" /\ ImageOf[m] = ImageOf[j.msg]}
    IN  /\ j.at = "decide"
        /\ \/ /\ proposal[j.msg].status = "none" /\ sameImage = {}
              /\ proposal' = [proposal EXCEPT ![j.msg] = [status |-> "active", order |-> j.order]]
           \/ UNCHANGED proposal   \* a proposal exists, ten are open, or the authority is gone
        /\ Finish(w)
        /\ UNCHANGED <<receipts, link, ledger>>

RecordDirectly(w) ==
    /\ job[w].at = "decide"
    /\ ~ImageOrderNeedsConfirmation(job[w])
    /\ GoTo(w, "att2")
    /\ UNCHANGED <<receipts, link, proposal, ledger>>

(* consumeImageOrTextConfirmation hands out an image proposal once; the     *)
(* write of the original message follows.                                   *)
Confirm(w, m) ==
    /\ job[w].at = "idle"
    /\ proposal[m].status = "active"
    /\ proposal' = [proposal EXCEPT ![m] = Spent]
    /\ job' = [job EXCEPT ![w] = [Idle EXCEPT !.at = "att2", !.msg = m, !.confirmed = TRUE,
                                              !.order = proposal[m].order]]
    /\ UNCHANGED <<receipts, link, ledger>>

CancelOrExpire(m) ==
    /\ proposal[m].status = "active"
    /\ proposal' = [proposal EXCEPT ![m] = Spent]
    /\ UNCHANGED <<receipts, link, job, ledger>>

-----------------------------------------------------------------------------
(* claim, in one immediate transaction: refuse if another receipt owns the  *)
(* evidence, otherwise insert the pending receipt and take free evidence.   *)

OwnKeys(j)  == {ImageOf[j.msg], j.order} \ {NoImage, NoOrder}
ClaimKeysNone(j)  == {}                       \* Mutant: evidence is not checked
ClaimKeysImage(j) == OwnKeys(j) \ {j.order}   \* Mutant: the order is never checked
ClaimKeys(j) == IF j.confirmed THEN OwnKeys(j) \ {j.order} ELSE OwnKeys(j)
\* Mutant: the number of inserted rows is not looked at.
ClaimableAgain(j) == \A k \in ClaimKeys(j) : link[k] \in {NoMsg, j.msg}
Claimable(j) ==
    /\ \A k \in ClaimKeys(j) : link[k] \in {NoMsg, j.msg}
    /\ status[j.msg] = "none"

ClaimWins(w) ==
    LET j == job[w]
    IN  /\ j.at = "claim" /\ Claimable(j)
        /\ status' = [status EXCEPT ![j.msg] = "pending"]
        /\ link' = [k \in Keys |-> IF k \in OwnKeys(j) /\ link[k] = NoMsg THEN j.msg ELSE link[k]]
        /\ GoTo(w, "resolve")
        /\ UNCHANGED <<txid, proposal, ledger>>

ClaimLoses(w) ==
    /\ job[w].at = "claim" /\ ~Claimable(job[w])
    /\ Finish(w)
    /\ UNCHANGED <<receipts, link, proposal, ledger>>

\* The outcome is written to the receipt, or the store fails and it stays pending.
PersistOutcome(m, s, t) ==
    \/ /\ status' = [status EXCEPT ![m] = s]
       /\ txid' = [txid EXCEPT ![m] = t]
    \/ UNCHANGED receipts

\* Account and category lookup failed, or validateBeforeWrite no longer holds.
ResolveFails(w) ==
    /\ job[w].at = "resolve"
    /\ PersistOutcome(job[w].msg, "failed", 0)
    /\ Finish(w)
    /\ UNCHANGED <<link, proposal, ledger>>

\* Both lookups answered and the call is still authorized: the POST leaves.
SendPost(w) ==
    LET j == job[w]
    IN  /\ j.at = "resolve"
        /\ posts' = posts \cup {[id |-> nextId, msg |-> j.msg, order |-> j.order,
                                 direct |-> ~j.confirmed]}
        /\ inflight' = inflight \cup {nextId}
        /\ nextId' = nextId + 1
        /\ job' = [job EXCEPT ![w] = [@ EXCEPT !.at = "post", !.tx = nextId]]
        /\ UNCHANGED <<receipts, link, proposal, live, deleted>>

\* The answer names the transaction: the receipt becomes a created one.
PostAnswered(w) ==
    /\ job[w].at = "post" /\ job[w].tx \in live \cup deleted
    /\ PersistOutcome(job[w].msg, "created", job[w].tx)
    /\ Finish(w)
    /\ UNCHANGED <<link, proposal, ledger>>

\* Mutant: an uncertain outcome is stored as a failed one.
PostUncertainFails(w) ==
    /\ job[w].at = "post"
    /\ PersistOutcome(job[w].msg, "failed", 0)
    /\ Finish(w)
    /\ UNCHANGED <<link, proposal, ledger>>

\* Mutant: no request timeout, the call waits for the ledger to decide.
PostUncertainWaits(w) ==
    /\ job[w].at = "post" /\ job[w].tx \notin inflight
    /\ PersistOutcome(job[w].msg, "unknown", 0)
    /\ Finish(w)
    /\ UNCHANGED <<link, proposal, ledger>>

\* Timeout, network error, HTTP error or an answer without an id: the request
\* may or may not have been applied, or may still be.
PostUncertain(w) ==
    /\ job[w].at = "post"
    /\ PersistOutcome(job[w].msg, "unknown", 0)
    /\ Finish(w)
    /\ UNCHANGED <<link, proposal, ledger>>

\* The instance dies between two steps; the store keeps what was committed.
Crash(w) ==
    /\ job[w].at # "idle"
    /\ Finish(w)
    /\ UNCHANGED <<receipts, link, proposal, ledger>>

-----------------------------------------------------------------------------
(* The ledger service, as the plugin uses it.                              *)

LedgerApplies(t) ==
    /\ t \in inflight
    /\ inflight' = inflight \ {t} /\ live' = live \cup {t}
    /\ UNCHANGED <<receipts, link, proposal, job, posts, deleted, nextId>>

LedgerRefuses(t) ==
    /\ t \in inflight
    /\ inflight' = inflight \ {t}
    /\ UNCHANGED <<receipts, link, proposal, job, posts, live, deleted, nextId>>

OwnerDeletes(t) ==
    /\ t \in live
    /\ live' = live \ {t} /\ deleted' = deleted \cup {t}
    /\ UNCHANGED <<receipts, link, proposal, job, posts, inflight, nextId>>

-----------------------------------------------------------------------------
Step(w) ==
    \/ ReadLink(w) \/ LookupFound(w) \/ LookupFails(w) \/ LookupGone(w) \/ Reread(w)
    \/ ReviewRefuses(w) \/ StoreImageProposal(w) \/ RecordDirectly(w)
    \/ ClaimWins(w) \/ ClaimLoses(w) \/ ResolveFails(w) \/ SendPost(w)
    \/ PostAnswered(w) \/ PostUncertain(w)

Next ==
    \/ \E w \in Workers, m \in Messages, o \in OrderOrNone : Deliver(w, m, o)
    \/ \E w \in Workers, m \in Messages : Confirm(w, m)
    \/ \E w \in Workers : Step(w) \/ Crash(w)
    \/ \E m \in Messages : CancelOrExpire(m)
    \/ \E t \in inflight : LedgerApplies(t) \/ LedgerRefuses(t)
    \/ \E t \in live : OwnerDeletes(t)

Spec == Init /\ [][Next]_vars

(* Every await of a call is bounded by the request timeout of the API client *)
(* or of the review, so a call that has started is scheduled again.          *)
FairSpec == Spec /\ \A w \in Workers : WF_vars(Step(w))

-----------------------------------------------------------------------------
(* Properties.                                                              *)

Open == inflight \cup live   \* posts that are, or may still become, transactions

(* A message is posted to the ledger at most once, however often it is     *)
(* redelivered, retried, confirmed or interrupted (claim in adapter.mjs).  *)
AtMostOncePerMessage == \A p, q \in posts : p.msg = q.msg => p = q

(* Two posts of the same picture are never both in, or on their way into,  *)
(* the ledger: a resend is written again only after the first transaction  *)
(* is verified deleted (refreshImageReceipt, releaseDeletedImageLinks).    *)
OneOpenPostPerImage ==
    \A p, q \in posts :
        /\ HasImage(p.msg) /\ ImageOf[p.msg] = ImageOf[q.msg]
        /\ p.id \in Open /\ q.id \in Open
        => p = q

(* Without the user's confirmation, two screenshots of one order are never *)
(* both booked.                                                            *)
OneOpenDirectPostPerOrder ==
    \A p, q \in posts :
        /\ p.order # NoOrder /\ p.order = q.order /\ p.direct /\ q.direct
        /\ p.id \in Open /\ q.id \in Open
        => p = q

(* What the receipt says happened: "created" names the message's own       *)
(* applied transaction, "failed" and "none" mean that no request was sent, *)
(* which is what the user is told.                                         *)
ReceiptsTellTheTruth ==
    \A m \in Messages :
        /\ status[m] = "created" =>
              \E p \in posts : p.msg = m /\ p.id = txid[m] /\ txid[m] \in live \cup deleted
        /\ status[m] \in {"none", "failed"} => \A p \in posts : p.msg # m

(* Evidence leaves a receipt only when its transaction is gone from the    *)
(* ledger, and never passes straight to another receipt.                   *)
LinksReleasedOnlyAfterDeletion ==
    [][\A k \in Keys : link[k] # NoMsg /\ link'[k] # link[k] =>
          /\ link'[k] = NoMsg
          /\ status[link[k]] = "created" /\ txid[link[k]] \in deleted]_vars

(* A settled receipt is permanent, and a claimed message never becomes     *)
(* unclaimed, although complete/fail/uncertain are unconditional updates.  *)
ReceiptsArePermanent ==
    [][\A m \in Messages :
          /\ status[m] # "none" => status'[m] # "none"
          /\ status[m] \in {"created", "failed", "unknown"} =>
                status'[m] = status[m] /\ txid'[m] = txid[m]]_vars

(* Every call ends: the user gets an answer even when the ledger is silent. *)
EveryCallEnds == \A w \in Workers : job[w].at # "idle" ~> job[w].at = "idle"

(* The design says a picture is booked without confirmation only when there *)
(* is no suspicion of a duplicate order.                                    *)
DirectPostMeansNewOrder ==
    [][\A p \in posts' \ posts : p.direct /\ p.order # NoOrder =>
          \A q \in posts : q.order = p.order => q.id \notin live]_vars
-----------------------------------------------------------------------------
(* The inductive invariant behind the theorems of ExpenseWriteProofs.       *)

Busy == {"resolve", "post"}      \* the stages of the call that won the claim
PostsOf(m) == {p \in posts : p.msg = m}

\* Ids are fresh, and a post is in at most one state.
IdsFresh ==
    /\ \A p \in posts : p.id < nextId
    /\ \A p, q \in posts : p.id = q.id => p = q
    /\ inflight \cup live \cup deleted \subseteq {p.id : p \in posts}
    /\ deleted \cap Open = {} /\ inflight \cap live = {}

\* A message is in the hands of at most one call, and its receipt is pending.
OneBusyCall ==
    /\ \A w \in Workers : job[w].at \in Busy => status[job[w].msg] = "pending"
    /\ \A v, w \in Workers :
          job[v].at \in Busy /\ job[w].at \in Busy /\ job[v].msg = job[w].msg => v = w

\* Before the POST nothing was sent; after it the call knows its own request.
BusyCallsPost ==
    \A w \in Workers :
        /\ job[w].at = "resolve" => PostsOf(job[w].msg) = {}
        /\ job[w].at = "post" => \E p \in posts : p.msg = job[w].msg /\ p.id = job[w].tx

\* The call that is about to post owns its evidence, and an open post keeps it.
EvidenceIsOwned ==
    /\ \A w \in Workers : job[w].at = "resolve" =>
          /\ HasImage(job[w].msg) => link[ImageOf[job[w].msg]] = job[w].msg
          /\ job[w].order # NoOrder /\ ~job[w].confirmed => link[job[w].order] = job[w].msg
    /\ \A p \in posts : p.id \in Open =>
          /\ HasImage(p.msg) => link[ImageOf[p.msg]] = p.msg
          /\ p.order # NoOrder /\ p.direct => link[p.order] = p.msg

IndInv ==
    /\ TypeOK /\ IdsFresh /\ OneBusyCall /\ BusyCallsPost /\ EvidenceIsOwned
    /\ AtMostOncePerMessage /\ ReceiptsTellTheTruth
=============================================================================
