--------------------------- MODULE WeixinMonitor ---------------------------
(***************************************************************************)
(* The long-poll loop of one WeChat account.  The server keeps a stream of  *)
(* messages and hands out those after a cursor; the loop saves the cursor   *)
(* it is given in a file, then processes the batch message by message.      *)
(* Requests fail, time out and are refused, processing throws, the gateway  *)
(* stops and restarts the account, and the process dies.                    *)
(*                                                                         *)
(* A cursor is the number of messages it covers.  Answers with messages are *)
(* taken to carry a cursor and a result code, as those of the server do.    *)
(***************************************************************************)
EXTENDS Integers

CONSTANTS LastMessage,    \* bound of the stream
          MaxFailures,    \* MAX_CONSECUTIVE_FAILURES
          MaxFaults       \* bound of failures, stops and deaths

ASSUME MonitorAssumption ==
    LastMessage \in Nat /\ MaxFailures \in Nat \ {0} /\ MaxFaults \in Nat

VARIABLES
    arrived,    \* messages at the server
    file,       \* the saved get_updates_buf
    cursor,     \* getUpdatesBuf of the running loop
    pc,         \* what the loop waits for
    next, upto, \* the part of the batch that is still to be processed
    failures,   \* consecutiveFailures
    reauth,     \* reauthorizationRequired
    lastError,  \* of the status the gateway shows
    paused,     \* pauseUntilMap: the hour after a stale token
    aborted,    \* abortSignal of the running loop
    handled,    \* history: how often each message was processed
    cut,        \* history: messages of batches that were not finished
    torn,       \* history: the file was lost while it was written
    faults

loop    == <<cursor, pc, next, upto, failures, reauth, lastError, aborted>>
history == <<handled, cut, torn>>
vars    == <<arrived, file, loop, paused, history, faults>>

Messages == 1 .. LastMessage
Cursors  == 0 .. LastMessage
Errors == {"none", "awaiting", "timeout", "reauthorization", "api", "unrecognized",
           "transport", "processing"}

(* Types; only a loop in a batch has messages left to process.              *)
TypeOK ==
    /\ arrived \in Cursors /\ file \in Cursors /\ cursor \in Cursors
    /\ pc \in {"off", "poll", "batch", "wait", "pause"}
    /\ next \in 1 .. LastMessage + 1 /\ upto \in Cursors
    /\ pc = "batch" <=> next <= upto
    /\ failures \in 0 .. MaxFailures - 1
    /\ reauth \in BOOLEAN /\ paused \in BOOLEAN /\ aborted \in BOOLEAN /\ torn \in BOOLEAN
    /\ lastError \in Errors
    /\ handled \in [Messages -> Nat]
    /\ cut \subseteq Messages
    /\ faults \in 0 .. MaxFaults

Init ==
    /\ arrived = 0 /\ file = 0 /\ cursor = 0
    /\ pc = "off" /\ next = 1 /\ upto = 0
    /\ failures = 0 /\ reauth = FALSE /\ lastError = "none"
    /\ paused = FALSE /\ aborted = FALSE
    /\ handled = [m \in Messages |-> 0] /\ cut = {} /\ torn = FALSE
    /\ faults = 0

Fault == faults < MaxFaults /\ faults' = faults + 1

\* A pending request for authorization is shown in the place of any other
\* error of a poll.
Shown(error) == IF reauth' THEN "reauthorization" ELSE error

Left == IF pc = "batch" THEN next .. upto ELSE {}
NoBatch == next' = 1 /\ upto' = 0

\* The loop waits, longer after every MaxFailures in a row, unless it was
\* aborted, which ends it.
Failing ==
    IF aborted THEN pc' = "off" /\ UNCHANGED failures
    ELSE pc' = "wait" /\ failures' = (failures + 1) % MaxFailures

-----------------------------------------------------------------------------
(* The answers to a poll.                                                   *)

\* Messages up to a new cursor, which is saved first.
Accept(k) ==
    /\ pc = "poll" /\ k \in cursor .. arrived
    /\ file' = k /\ cursor' = k
    /\ failures' = 0 /\ reauth' = FALSE /\ lastError' = "none"
    /\ next' = cursor + 1 /\ upto' = k
    /\ IF k = cursor THEN UNCHANGED pc ELSE pc' = "batch"
    /\ UNCHANGED <<arrived, aborted, paused, history, faults>>

\* The file was truncated and not written: the next start reads no cursor.
Torn == file' = 0 /\ torn' = TRUE

\* The cursor cannot be saved: the batch is not looked at.
SaveFails ==
    /\ pc = "poll" /\ Fault
    /\ Torn \/ UNCHANGED <<file, torn>>
    /\ reauth' = FALSE /\ lastError' = "processing" /\ failures' = 1 % MaxFailures /\ pc' = "wait"
    /\ UNCHANGED <<arrived, cursor, next, upto, aborted, paused, handled, cut>>

\* "Not accepted by iLink": nothing but the status changes.
LocalTimeout ==
    /\ pc = "poll" /\ Fault
    /\ UNCHANGED reauth /\ lastError' = Shown("timeout")
    /\ UNCHANGED <<arrived, file, cursor, pc, next, upto, failures, aborted, paused, history>>

StaleToken ==
    /\ pc = "poll" /\ Fault
    /\ reauth' = TRUE /\ lastError' = Shown("reauthorization")
    /\ paused' = TRUE /\ failures' = 0 /\ pc' = "pause"
    /\ UNCHANGED <<arrived, file, cursor, next, upto, aborted, history>>

\* Mutant: the cursor of a refusal is taken over.
ApiErrorMoves ==
    /\ pc = "poll" /\ Fault
    /\ UNCHANGED reauth /\ lastError' = Shown("api") /\ Failing
    /\ cursor' = arrived
    /\ UNCHANGED <<arrived, file, next, upto, aborted, paused, history>>

ApiError ==
    /\ pc = "poll" /\ Fault
    /\ UNCHANGED reauth /\ lastError' = Shown("api") /\ Failing
    /\ UNCHANGED <<arrived, file, cursor, next, upto, aborted, paused, history>>

\* Neither a result code nor messages: polled again at once.
Unrecognized ==
    /\ pc = "poll" /\ Fault
    /\ UNCHANGED reauth /\ lastError' = Shown("unrecognized") /\ failures' = 0
    /\ UNCHANGED <<arrived, file, cursor, pc, next, upto, aborted, paused, history>>

TransportError ==
    /\ pc = "poll" /\ Fault
    /\ UNCHANGED reauth /\ lastError' = Shown("transport") /\ Failing
    /\ UNCHANGED <<arrived, file, cursor, next, upto, aborted, paused, history>>

-----------------------------------------------------------------------------
(* The batch and the waits.                                                 *)

Handle ==
    /\ pc = "batch"
    /\ handled' = [handled EXCEPT ![next] = @ + 1]
    /\ IF next < upto THEN next' = next + 1 /\ UNCHANGED <<upto, pc>>
       ELSE NoBatch /\ pc' = IF aborted THEN "off" ELSE "poll"
    /\ UNCHANGED <<arrived, file, cursor, failures, reauth, lastError, aborted, paused, cut, torn,
                   faults>>

\* A message throws, before or after it was dispatched; the rest is not tried.
HandleFails ==
    /\ pc = "batch" /\ Fault
    /\ \E n \in {0, 1} : handled' = [handled EXCEPT ![next] = @ + n]
    /\ cut' = cut \cup Left
    /\ NoBatch
    /\ UNCHANGED reauth /\ lastError' = IF aborted THEN lastError ELSE "processing"
    /\ Failing
    /\ UNCHANGED <<arrived, file, cursor, aborted, paused, torn>>

WaitEnds ==
    /\ pc = "wait" \/ (pc = "pause" /\ ~paused)
    /\ pc' = "poll"
    /\ UNCHANGED <<arrived, file, cursor, next, upto, failures, reauth, lastError, aborted, paused,
                   history, faults>>

PauseEnds ==
    /\ paused /\ paused' = FALSE
    /\ UNCHANGED <<arrived, file, loop, history, faults>>

-----------------------------------------------------------------------------
(* Starts, stops and the world.                                             *)

\* startAccount: a new loop from the saved cursor.
Start ==
    /\ pc = "off"
    /\ cursor' = file /\ pc' = "poll" /\ NoBatch
    /\ failures' = 0 /\ reauth' = FALSE /\ lastError' = "awaiting" /\ aborted' = FALSE
    /\ UNCHANGED <<arrived, file, paused, history, faults>>

\* An abort cancels a poll or a wait; a batch is finished first.
Stop ==
    /\ pc # "off" /\ ~aborted /\ Fault
    /\ aborted' = TRUE
    /\ pc' = IF pc = "batch" THEN "batch" ELSE "off"
    /\ UNCHANGED <<arrived, file, cursor, next, upto, failures, reauth, lastError, paused, history>>

\* The process dies, with the pause; perhaps while the file is truncated.
Crash ==
    /\ pc # "off" /\ Fault
    /\ pc' = "off" /\ NoBatch /\ cut' = cut \cup Left /\ paused' = FALSE
    /\ \/ UNCHANGED <<file, torn>>
       \/ pc = "poll" /\ Torn
    /\ UNCHANGED <<arrived, cursor, failures, reauth, lastError, aborted, handled>>

MessageArrives ==
    /\ arrived < LastMessage /\ arrived' = arrived + 1
    /\ UNCHANGED <<file, loop, paused, history, faults>>

Poll == LocalTimeout \/ StaleToken \/ ApiError \/ Unrecognized \/ TransportError \/ SaveFails
        \/ \E k \in Cursors : Accept(k)

Next == Poll \/ Handle \/ HandleFails \/ WaitEnds \/ PauseEnds \/ Start \/ Stop \/ Crash
        \/ MessageArrives

Spec == Init /\ [][Next]_vars

\* The gateway starts the account again, waits and pauses end, a poll that can
\* deliver does so in the end, and processing a message ends.
FairSpec ==
    /\ Spec
    /\ WF_vars(Start) /\ WF_vars(WaitEnds) /\ WF_vars(PauseEnds)
    /\ WF_vars(Handle) /\ WF_vars(\E k \in Cursors : k = arrived /\ Accept(k))

-----------------------------------------------------------------------------
(* Properties.                                                              *)

(* No message is processed twice, whatever fails, stops or dies, unless the  *)
(* cursor's file itself was lost.                                           *)
HandledOnce == ~torn => \A m \in Messages : handled[m] <= 1

(* A message the cursor has passed was processed, is about to be, or was in *)
(* a batch that was cut off: nothing is skipped by an answer that is not    *)
(* the server's acceptance.                                                 *)
NothingSkipped ==
    \A m \in Messages : m <= cursor => handled[m] > 0 \/ m \in Left \/ m \in cut

(* "Preserve the existing auth failure until a server reply": while a new    *)
(* authorization is needed, the status says so.                             *)
ReauthorizationIsShown == reauth => lastError = "reauthorization"

(* Every message is processed in the end, or was lost with its batch.        *)
EveryMessageIsHandled ==
    \A m \in Messages : arrived >= m ~> (handled[m] > 0 \/ m \in cut)
=============================================================================
