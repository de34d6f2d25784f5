------------------------ MODULE AuthoritativeReply ------------------------
(***************************************************************************)
(* The way from a tool's result to the text the user reads.  The language   *)
(* model may not word the outcome of a tool: the first result of a run is   *)
(* kept, in the instance that saw it and as a row all instances share, and  *)
(* put in the place of whatever is being sent.  Two hooks do so, one after  *)
(* the other.  reply_payload_sending works on the final payload of a run,    *)
(* before it has an address; message_sending on a send to a recipient, and   *)
(* lets the payload pass when it has nothing to put in.  A row is reserved   *)
(* for the run that sends it (not always the run of the tool), released     *)
(* when the send fails, deleted when it succeeds, and outdated by the       *)
(* recipient's next message.                                                *)
(*                                                                         *)
(* A delivery is an account and a recipient; one person may be reached      *)
(* through several accounts, and a send may not say through which.          *)
(***************************************************************************)
CONSTANTS Instances,    \* plugin instances of the gateway process
          Runs,         \* run keys, of tool runs and of outbound runs
          Sends,        \* sends of the channel that may be in progress at the same time
          Messages,     \* real inbound messages
          Deliveries,   \* account and recipient
          Recipients,
          SourceOf,     \* the message the hooks tie each run to
          DeliveryOf,   \* where the answer to each message belongs
          RecipientOf,  \* the recipient of each delivery
          NoMsg, NoRun

ASSUME ReplyAssumption ==
    /\ SourceOf \in [Runs -> Messages]
    /\ DeliveryOf \in [Messages -> Deliveries]
    /\ RecipientOf \in [Deliveries -> Recipients]
    /\ NoMsg \notin Messages /\ NoRun \notin Runs

VARIABLES
    known,      \* real_inbound_message_history
    latest,     \* latest_recipient_messages
    row,        \* pending_authoritative_replies, by the tool run: no row, stored, expired
    reservedBy, \* the outbound run of each row's reservation
    bound,      \* deliveryKeysByRun of each instance
    memory,     \* authoritativeRepliesByRun of each instance
    outgoing,   \* authoritativeReplyDeliveriesByRun of each instance
    payload,    \* what each send is about to carry, as reply_payload_sending left it
    send        \* what each send of the channel carries, and for which outbound run

store   == <<known, latest, row, reservedBy>>
process == <<bound, memory, outgoing, payload, send>>
vars    == <<known, latest, row, reservedBy, bound, memory, outgoing, payload, send>>

Idle == [run |-> NoRun]
\* The model's own text, a notice, or the text of the run, tied to a message or not.
OfPayloads == {"model", "notice", "final", "unsourced"}

(* The type of every variable; a reservation is one of a row.               *)
TypeOK ==
    /\ known \subseteq Messages
    /\ latest \in [Recipients -> Messages \cup {NoMsg}]
    /\ row \in [Runs -> {"none", "stored", "expired"}]
    /\ reservedBy \in [Runs -> Runs \cup {NoRun}]
    /\ bound \in [Instances -> SUBSET Runs]
    /\ memory \in [Instances -> [Runs -> {"none", "unsourced", "volatile", "persisted"}]]
    /\ outgoing \in [Instances -> [Runs -> Runs \cup {NoRun}]]
    /\ payload \in [Sends -> {Idle} \cup [run: Runs, text: Runs \cup {NoRun}, from: OfPayloads]]
    /\ send \in [Sends -> {Idle} \cup [run: Runs, inst: Instances, to: Deliveries,
                                      text: Runs \cup {NoRun},
                                      from: {"row", "memory"} \cup OfPayloads]]
    /\ \A r \in Runs : row[r] = "none" => reservedBy[r] = NoRun

Init ==
    /\ known = {}
    /\ latest = [p \in Recipients |-> NoMsg]
    /\ row = [r \in Runs |-> "none"]
    /\ reservedBy = [r \in Runs |-> NoRun]
    /\ bound = [i \in Instances |-> {}]
    /\ memory = [i \in Instances |-> [r \in Runs |-> "none"]]
    /\ outgoing = [i \in Instances |-> [r \in Runs |-> NoRun]]
    /\ payload = [s \in Sends |-> Idle]
    /\ send = [s \in Sends |-> Idle]

Person(m) == RecipientOf[DeliveryOf[m]]

\* Mutant: the reservation is left behind.
DeleteKeepsReservation(gone) ==
    /\ row' = [r \in Runs |-> IF r \in gone THEN "none" ELSE row[r]]
    /\ UNCHANGED reservedBy

\* The rows that remain when those of gone are deleted.
Delete(gone) ==
    /\ row' = [r \in Runs |-> IF r \in gone THEN "none" ELSE row[r]]
    /\ reservedBy' = [r \in Runs |-> IF r \in gone THEN NoRun ELSE reservedBy[r]]

Expired == {r \in Runs : row[r] = "expired"}
\* A reply is outdated when its recipient has a later message.
Outdated(newest) == {r \in Runs : newest[Person(SourceOf[r])] \notin {NoMsg, SourceOf[r]}}

-----------------------------------------------------------------------------
(* Messages and runs.                                                      *)

\* message_received: the first delivery of a message makes it its recipient's
\* latest and outdates the replies to the others.
Arrive(m) ==
    /\ known' = known \cup {m}
    /\ IF m \in known THEN UNCHANGED <<latest, row, reservedBy>>
       ELSE /\ latest' = [latest EXCEPT ![Person(m)] = m]
            /\ Delete(Outdated(latest'))
    /\ UNCHANGED process

\* A run is correlated with its message, in the instance that serves the hook.
Bind(i, r) ==
    /\ SourceOf[r] \in known
    /\ bound' = [bound EXCEPT ![i] = @ \cup {r}]
    /\ UNCHANGED <<store, memory, outgoing, payload, send>>

\* Mutant: every source counts as current.
IsCurrentAlways(r) == TRUE
IsCurrentReplySource(r) == latest[Person(SourceOf[r])] \in {NoMsg, SourceOf[r]}

Remember(i, r, how) == memory' = [memory EXCEPT ![i][r] = how]

-----------------------------------------------------------------------------
(* storeAuthoritativeReply: the first text of a run stays, in the memory of  *)
(* the instance and, when the run is bound there and still current, as the   *)
(* row of the run; the instance that comes second finds the row.             *)

StoreUnsourced(i, r) ==
    /\ memory[i][r] = "none" /\ r \notin bound[i]
    /\ Remember(i, r, "unsourced")
    /\ UNCHANGED <<store, bound, outgoing, payload, send>>

\* Outdated, or the store failed.
StoreVolatile(i, r) ==
    /\ memory[i][r] = "none" /\ r \in bound[i]
    /\ Remember(i, r, "volatile")
    /\ UNCHANGED <<store, bound, outgoing, payload, send>>

\* Mutant: the freshness of the source is not looked at in the transaction.
StoreBlindly(i, r) ==
    /\ memory[i][r] = "none" /\ r \in bound[i]
    /\ Remember(i, r, "persisted")
    /\ row' = [q \in Runs |-> IF q = r THEN "stored"
                              ELSE IF q \in Expired THEN "none" ELSE row[q]]
    /\ reservedBy' = [q \in Runs |-> IF q \in Expired THEN NoRun ELSE reservedBy[q]]
    /\ UNCHANGED <<known, latest, bound, outgoing, payload, send>>

StorePersisted(i, r) ==
    /\ memory[i][r] = "none" /\ r \in bound[i]
    /\ IsCurrentReplySource(r)
    /\ Remember(i, r, "persisted")
    /\ row' = [q \in Runs |-> IF q = r THEN "stored"
                              ELSE IF q \in Expired THEN "none" ELSE row[q]]
    /\ reservedBy' = [q \in Runs |-> IF q \in Expired THEN NoRun ELSE reservedBy[q]]
    /\ UNCHANGED <<known, latest, bound, outgoing, payload, send>>

\* authoritativeRepliesByRun and the rows have an age limit.
Expire(r) ==
    /\ row[r] = "stored"
    /\ row' = [row EXCEPT ![r] = "expired"]
    /\ UNCHANGED <<known, latest, reservedBy, process>>

\* So have the notes in memory.
Forget(i, r) ==
    /\ \/ memory' = [memory EXCEPT ![i][r] = "none"] /\ UNCHANGED <<bound, outgoing>>
       \/ bound' = [bound EXCEPT ![i] = @ \ {r}] /\ UNCHANGED <<memory, outgoing>>
       \/ outgoing' = [outgoing EXCEPT ![i][r] = NoRun] /\ UNCHANGED <<memory, bound>>
    /\ UNCHANGED <<store, payload, send>>

-----------------------------------------------------------------------------
(* reply_payload_sending: the final payload of a run is given what the        *)
(* instance remembers of the run, or a notice when there is a newer message. *)
(* Nobody has looked at the recipient yet.                                   *)

Compose(s, o, text, from) ==
    /\ payload[s] = Idle /\ send[s] = Idle
    /\ payload' = [payload EXCEPT ![s] = [run |-> o, text |-> text, from |-> from]]
    /\ UNCHANGED <<store, bound, memory, outgoing, send>>

\* A payload that is not the final one, a run without a remembered text, or a
\* hook that failed.
ComposeOther(s, o) == Compose(s, o, NoRun, "model")

ComposeFinal(s, i, o) ==
    \/ memory[i][o] = "unsourced" /\ Compose(s, o, o, "unsourced")
    \/ /\ memory[i][o] \in {"volatile", "persisted"} /\ IsCurrentReplySource(o)
       /\ Compose(s, o, o, "final")

ComposeNotice(s, i, o) ==
    /\ memory[i][o] \in {"volatile", "persisted"} /\ ~IsCurrentReplySource(o)
    /\ Compose(s, o, NoRun, "notice")

-----------------------------------------------------------------------------
(* message_sending: the transaction of reserveUniqueAuthoritativeReply, then *)
(* the memory of the instance.                                              *)

Gone == Expired \cup Outdated(latest)
Rows == {r \in Runs : row[r] = "stored"} \ Gone

\* Without an account the recipient has to do.
Belongs(r, d, account) ==
    LET home == DeliveryOf[SourceOf[r]]
    IN  IF account THEN home = d ELSE RecipientOf[home] = RecipientOf[d]

Reserved(o) == {r \in Rows : reservedBy[r] = o}
Free(d, account) == {r \in Rows : reservedBy[r] = NoRun /\ Belongs(r, d, account)}
Only(S) == {r \in S : S = {r}}

\* Mutant: an existing reservation is returned to whomever the run now writes.
ReservableByAnyone(o, d, account) == Only(IF Reserved(o) # {} THEN Reserved(o) ELSE Free(d, account))
\* What the outbound run may send: its reservation, if it belongs to the
\* addressee, or the only free row that does.
Reservable(o, d, account) ==
    IF Reserved(o) # {} THEN {r \in Only(Reserved(o)) : Belongs(r, d, account)}
    ELSE Only(Free(d, account))

Composed(s, o) == payload[s] # Idle /\ payload[s].run = o
HandOver(s, i, o, d, r, where) ==
    /\ payload' = [payload EXCEPT ![s] = Idle]
    /\ send' = [send EXCEPT ![s] = [run |-> o, inst |-> i, to |-> d, text |-> r, from |-> where]]

SendReserved(s, i, o, d, account) ==
    /\ Composed(s, o)
    /\ \E r \in Reservable(o, d, account) :
          /\ HandOver(s, i, o, d, r, "row")
          /\ row' = [q \in Runs |-> IF q \in Gone THEN "none" ELSE row[q]]
          /\ reservedBy' = [q \in Runs |-> IF q = r THEN o
                                           ELSE IF q \in Gone THEN NoRun ELSE reservedBy[q]]
          /\ outgoing' = [outgoing EXCEPT ![i][o] = r]
    /\ UNCHANGED <<known, latest, bound, memory>>

\* What is only in memory is sent by its own run and, when the run was bound,
\* to its own recipient while it is current.
Remembered(i, o, d, account) ==
    \/ memory[i][o] = "unsourced"
    \/ memory[i][o] = "volatile" /\ Belongs(o, d, account) /\ IsCurrentReplySource(o)

\* There was nothing to reserve, or the store failed.
NothingReserved(o, d, account) ==
    \/ Reservable(o, d, account) = {} /\ Delete(Gone)
    \/ UNCHANGED <<row, reservedBy>>

SendRemembered(s, i, o, d, account) ==
    /\ Composed(s, o) /\ Remembered(i, o, d, account)
    /\ NothingReserved(o, d, account)
    /\ HandOver(s, i, o, d, o, IF memory[i][o] = "volatile" THEN "memory" ELSE "unsourced")
    /\ outgoing' = [outgoing EXCEPT ![i][o] = o]
    /\ UNCHANGED <<known, latest, bound, memory>>

\* No text to put in the place of the payload's, which stays; or the store failed
\* when it was asked for the latest message.
SendAsIs(s, i, o, d, account) ==
    /\ Composed(s, o)
    /\ ~Remembered(i, o, d, account) \/ memory[i][o] = "volatile"
    /\ NothingReserved(o, d, account)
    /\ HandOver(s, i, o, d, payload[s].text, payload[s].from)
    /\ UNCHANGED <<known, latest, bound, memory, outgoing>>

-----------------------------------------------------------------------------
(* message_sent, in the instance that served the send: what its run reserved *)
(* is deleted or released, and the notes about it go.                       *)

Source(s) == LET r == outgoing[send[s].inst][send[s].run]
             IN  IF r = NoRun THEN send[s].run ELSE r

\* The notes of the instance about this run or this reply.
ForgetOutgoing(s) ==
    outgoing' = [outgoing EXCEPT ![send[s].inst] =
                    [o \in Runs |-> IF o = send[s].run \/ @[o] = Source(s) THEN NoRun ELSE @[o]]]

Carried(s) == {r \in Runs : reservedBy[r] = send[s].run}

\* Nothing is deleted or released when the store fails; the memory goes on.
Delivered(s) ==
    /\ send[s] # Idle
    /\ \E completed \in {Carried(s), {}} :
          LET answered == completed \cup {Source(s)}
              i == send[s].inst
          IN  /\ Delete(completed)
              /\ memory' = [memory EXCEPT ![i] =
                              [r \in Runs |-> IF r \in answered THEN "none" ELSE @[r]]]
              /\ bound' = [bound EXCEPT ![i] = @ \ answered]
    /\ ForgetOutgoing(s)
    /\ send' = [send EXCEPT ![s] = Idle]
    /\ UNCHANGED <<known, latest, payload>>

Failed(s) ==
    /\ send[s] # Idle
    /\ \E released \in {Carried(s), {}} :
          reservedBy' = [r \in Runs |-> IF r \in released THEN NoRun ELSE reservedBy[r]]
    /\ ForgetOutgoing(s)
    /\ send' = [send EXCEPT ![s] = Idle]
    /\ UNCHANGED <<known, latest, row, bound, memory, payload>>

\* The gateway stops or dies; the store stays.  OpenClaw may take a run up again.
Restart ==
    /\ bound' = [i \in Instances |-> {}]
    /\ memory' = [i \in Instances |-> [r \in Runs |-> "none"]]
    /\ outgoing' = [i \in Instances |-> [r \in Runs |-> NoRun]]
    /\ payload' = [s \in Sends |-> Idle]
    /\ send' = [s \in Sends |-> Idle]
    /\ UNCHANGED store

Next ==
    \/ \E m \in Messages : Arrive(m)
    \/ \E i \in Instances, r \in Runs :
          Bind(i, r) \/ StoreUnsourced(i, r) \/ StoreVolatile(i, r) \/ StorePersisted(i, r)
            \/ Forget(i, r)
    \/ \E r \in Runs : Expire(r)
    \/ \E s \in Sends : Delivered(s) \/ Failed(s)
    \/ \E s \in Sends, o \in Runs :
          \/ ComposeOther(s, o)
          \/ \E i \in Instances : ComposeFinal(s, i, o) \/ ComposeNotice(s, i, o)
    \/ \E s \in Sends, i \in Instances, o \in Runs, d \in Deliveries, account \in BOOLEAN :
          SendReserved(s, i, o, d, account) \/ SendRemembered(s, i, o, d, account)
            \/ SendAsIs(s, i, o, d, account)
    \/ Restart

Spec == Init /\ [][Next]_vars

-----------------------------------------------------------------------------
(* Properties.                                                              *)

(* A stored reply always answers the latest message of its recipient: none  *)
(* outlives the next message, and none is stored after it, whichever        *)
(* instance was slow (enqueueTrustedInbound, storeAuthoritativeReply).      *)
RowsAreCurrent ==
    \A r \in Runs : row[r] # "none" => latest[Person(SourceOf[r])] = SourceOf[r]

(* What message_sending puts into a send - a reserved row, or what the instance *)
(* remembers of a bound run - belongs to the addressee, also when one outbound   *)
(* run writes to several people.  Anyone else is only reached by the run's own   *)
(* text: the final payload brought it, whose hook does not look at the recipient *)
(* (index.ts 924-943), or the run was never tied to a message.                   *)
RepliesReachTheirOwn ==
    \A s \in Sends : send[s] # Idle /\ send[s].text # NoRun =>
        \/ Person(SourceOf[send[s].text]) = RecipientOf[send[s].to]
        \/ send[s].text = send[s].run /\ send[s].from \in {"final", "unsourced"}

(* "Failed old replies and late old results cannot replace a new recipient  *)
(* message": both hooks put a text in only while it answers the latest      *)
(* message of its recipient.  What goes out late was current in its final   *)
(* payload: the next message came between the hooks, and message_sending    *)
(* does not ask again for what it lets pass (index.ts 934-941, 978-992).    *)
AnswersLatest(r) == latest[Person(SourceOf[r])] = SourceOf[r]
LetPass(s) == /\ payload[s] # Idle /\ payload[s].from = "final"
              /\ payload[s].run = send'[s].run /\ payload[s].text = send'[s].text
NothingStaleIsPutIn ==
    [][\A s \in Sends :
         /\ payload'[s] \notin {payload[s], Idle} =>
               (payload'[s].from = "final" => AnswersLatest(payload'[s].text))
         /\ send'[s] \notin {send[s], Idle} =>
               \/ send'[s].text = NoRun \/ send'[s].from = "unsourced"
               \/ AnswersLatest(send'[s].text) \/ LetPass(s)]_vars

(* "Deleted after it was sent successfully, released when it failed": a      *)
(* reply leaves the store with the end of a send that carried it, or because *)
(* it is outdated.                                                          *)
SentBeforeDeleted ==
    [][\A r \in Runs : row[r] = "stored" /\ row'[r] = "none" =>
          \/ r \in Outdated(latest')
          \/ \E s \in Sends : send[s] # Idle /\ send'[s] = Idle /\ send[s].text = r]_vars
=============================================================================
