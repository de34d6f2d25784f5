--------------------------- MODULE WeixinDelivery ---------------------------
(***************************************************************************)
(* What one account does with a message it was given: authorization, local  *)
(* commands, the download of its media, and a run of the host during which  *)
(* answers are delivered, tool events are reported and failures are told.   *)
(* The account processes one message at a time and waits for each.          *)
(*                                                                         *)
(* The host (withReplyDispatcher) delivers the answers of a run one after   *)
(* the other and ends the run after the last.  Its tool events may come at  *)
(* any time, also after the run.  A request that fails may have arrived.    *)
(***************************************************************************)
EXTENDS Naturals, Sequences

CONSTANTS MaxRuns,        \* bound: messages
          MaxDeliveries,  \* bound: answers of one run
          MaxTools,       \* bound: tool calls of one run
          MaxErrors       \* bound: failing requests and writes

UPLOAD_MAX_RETRIES == 3

VARIABLES
    step,        \* where processOneMessage waits
    msg,         \* the message: its number, sender, kind, context token and media
    replies,     \* the replies of a local command that are still to be sent
    debugMode,   \* the account's entry in debug-mode.json
    debug,       \* what the run has read of it
    delivery,    \* the answer that is being delivered
    outcome,     \* message_sent of the answers of this run, or "cancelled"
    sendChain,   \* progress messages of the run that wait for their turn
    tool,        \* [run -> events of its tools the host has reported]
    finalized,   \* runs whose progress sender was finalized
    notices,     \* error notices on their way
    sent,        \* history: what the user got while this message was processed
    noticed,     \* history: answers of this run whose failure was told
    fetched,     \* history: the media of this message was asked for
    errors

message == <<step, msg, replies>>
answers == <<delivery, outcome, noticed, notices>>
tools   == <<sendChain, tool, finalized>>
dvars   == <<message, debugMode, debug, answers, tools, sent, fetched, errors>>

NoMessage  == [n |-> 0, from |-> "linked", kind |-> "chat", token |-> FALSE, media |-> FALSE]
NoDelivery == [at |-> "none", kind |-> "text", caption |-> FALSE, tries |-> <<>>]

Init ==
    /\ step = "idle" /\ msg = NoMessage /\ replies = <<>>
    /\ debugMode = FALSE /\ debug = FALSE
    /\ delivery = NoDelivery /\ outcome = <<>> /\ noticed = {} /\ notices = {}
    /\ sendChain = <<>> /\ tool = [r \in 1 .. MaxRuns |-> 0] /\ finalized = {}
    /\ sent = <<>> /\ fetched = FALSE /\ errors = 0

Item(run, what, d) == [run |-> run, what |-> what, d |-> d]
Here(what, d) == Item(msg.n, what, d)
Error == errors < MaxErrors /\ errors' = errors + 1

\* sendMessage: the item arrives, or the request fails, before or after that.
Arrives(item) == sent' = Append(sent, item) /\ UNCHANGED errors
Fails(item) == Error /\ sent' \in {sent, Append(sent, item)}

-----------------------------------------------------------------------------
(* The message.                                                             *)

Receive(from, kind, token, media) ==
    /\ step = "idle" /\ msg.n < MaxRuns
    /\ msg' = [n |-> msg.n + 1, from |-> from, kind |-> kind, token |-> token, media |-> media]
    /\ step' = "authorize"
    /\ outcome' = <<>> /\ noticed' = {} /\ sent' = <<>> /\ fetched' = FALSE
    /\ UNCHANGED <<replies, debugMode, debug, delivery, notices, tools, errors>>

\* The media of a message that no command took is downloaded before it is
\* recorded; a failure leaves the message without them.
Begin == /\ debug' = debugMode /\ fetched' = msg.media
         /\ step' = (IF msg.media THEN "download" ELSE "record")

\* "Authorize before local commands, media downloads or any message
\* processing."  debug-mode.json is replaced, or the write fails unnoticed.
Authorize ==
    /\ step = "authorize"
    /\ \/ /\ msg.from = "stranger" /\ step' = "idle"
          /\ UNCHANGED <<replies, debugMode, debug, fetched, errors>>
       \/ /\ msg.from = "linked" /\ msg.kind = "echo" /\ step' = "command"
          /\ replies' \in {<<"echo", "timing">>, <<"timing">>}
          /\ UNCHANGED <<debugMode, debug, fetched, errors>>
       \/ /\ msg.from = "linked" /\ msg.kind = "toggle" /\ step' = "command"
          /\ replies' = <<"toggled">>
          /\ \/ debugMode' = ~debugMode /\ UNCHANGED errors
             \/ UNCHANGED debugMode /\ Error
          /\ UNCHANGED <<debug, fetched>>
       \/ /\ msg.from = "linked" /\ msg.kind = "chat" /\ Begin
          /\ UNCHANGED <<replies, debugMode, errors>>
    /\ UNCHANGED <<msg, answers, tools, sent>>

\* handleSlashCommand: a reply that fails ends the command with one more
\* attempt to say so.
CommandReply ==
    /\ step = "command"
    /\ \/ Arrives(Here("reply", 0)) /\ replies' = Tail(replies)
       \/ /\ Fails(Here("reply", 0))
          /\ replies' = IF Head(replies) = "failed" THEN <<>> ELSE <<"failed">>
    /\ step' = (IF replies' = <<>> THEN "idle" ELSE step)
    /\ UNCHANGED <<msg, debugMode, debug, answers, tools, fetched>>

Downloaded ==
    /\ step = "download" /\ step' = "record"
    /\ UNCHANGED <<msg, replies, debugMode, debug, answers, tools, sent, fetched, errors>>

\* The session is recorded, the context token kept, and the host runs.
Recorded ==
    /\ step = "record" /\ step' = "run"
    /\ UNCHANGED <<msg, replies, debugMode, debug, answers, tools, sent, fetched, errors>>

\* Mutant: the progress messages that wait are not waited for.
EndedEarly == step' = "finish"

\* finalize: later tool events are ignored; those before it are sent.
Ended == IF sendChain = <<>> THEN step' = "finish" ELSE step' = "drain"
RunEnds ==
    /\ step = "run" /\ delivery.at = "none"
    /\ finalized' = finalized \cup {msg.n} /\ Ended
    /\ UNCHANGED <<msg, replies, debugMode, debug, answers, sendChain, tool, sent, fetched, errors>>

Drained ==
    /\ step = "drain" /\ sendChain = <<>> /\ step' = "finish"
    /\ UNCHANGED <<msg, replies, debugMode, debug, answers, tools, sent, fetched, errors>>

\* In debug mode the times are sent as a last message.
Finish ==
    /\ step = "finish" /\ step' = "idle"
    /\ IF debug /\ msg.token
       THEN Arrives(Here("timing", 0)) \/ Fails(Here("timing", 0))
       ELSE UNCHANGED <<sent, errors>>
    /\ UNCHANGED <<msg, replies, debugMode, debug, answers, tools, fetched>>

-----------------------------------------------------------------------------
(* The progress of tools.                                                   *)

\* enqueueMessage: nothing after finalize.
Taken(r) == r \notin finalized

\* The start and the end of each tool call of run r, or an end after the run.
ToolEvent(r) ==
    /\ tool[r] < 2 * MaxTools
    /\ r \in finalized \/ (r = msg.n /\ step = "run")
    /\ tool' = [tool EXCEPT ![r] = @ + 1]
    /\ sendChain' = (IF Taken(r) THEN Append(sendChain, Item(r, "tool", tool[r] + 1)) ELSE sendChain)
    /\ UNCHANGED <<message, debugMode, debug, answers, finalized, sent, fetched, errors>>

\* One after the other; a failure is not told.
ProgressSends ==
    /\ sendChain # <<>> /\ sendChain' = Tail(sendChain)
    /\ Arrives(Head(sendChain)) \/ Fails(Head(sendChain))
    /\ UNCHANGED <<message, debugMode, debug, answers, tool, finalized, fetched>>

-----------------------------------------------------------------------------
(* The answers.                                                             *)

Unmoved == UNCHANGED <<message, debugMode, debug, tools, fetched>>
ThisOne == Len(outcome) + 1
Deliver(kind, caption) ==
    /\ step = "run" /\ delivery.at = "none" /\ Len(outcome) < MaxDeliveries
    /\ kind \in {"text", "odd"} => caption
    /\ delivery' = [NoDelivery EXCEPT !.at = "hook", !.kind = kind, !.caption = caption]
    /\ UNCHANGED <<outcome, noticed, notices, sent, errors>> /\ Unmoved

Ends(result) == outcome' = Append(outcome, result) /\ delivery' = NoDelivery

\* The message_sending hook; without it, and when it fails, the answer is sent.
Hook ==
    /\ delivery.at = "hook"
    /\ \/ Ends("cancelled")
       \/ /\ delivery' = [delivery EXCEPT !.at = CASE delivery.kind = "remote" -> "fetch"
                                                   [] delivery.kind = "local"  -> "ask"
                                                   [] OTHER -> "text"]
          /\ UNCHANGED outcome
    /\ UNCHANGED <<noticed, notices, sent, errors>> /\ Unmoved

\* A failing answer is told by a notice nobody waits for.  Its words follow
\* the words of the error: a network error counts as a failed download.
Notice(at, why) == CASE why = "network" \/ at = "fetch"      -> "download"
                     [] at \in {"ask", "upload"}             -> "upload"
                     [] OTHER                                -> "send"
DeliveryFails(why) ==
    /\ Ends("failed") /\ noticed' = noticed \cup {ThisOne}
    /\ notices' = notices \cup {[run |-> msg.n, d |-> ThisOne, says |-> Notice(delivery.at, why)]}

Why == {"network", "refused"}

\* The remote file is downloaded; an upload URL is asked for.
Prepare ==
    /\ delivery.at \in {"fetch", "ask"}
    /\ \/ /\ delivery' = [delivery EXCEPT !.at = IF delivery.at = "fetch" THEN "ask" ELSE "upload"]
          /\ UNCHANGED <<outcome, noticed, notices, errors>>
       \/ Error /\ \E why \in Why : DeliveryFails(why)
    /\ UNCHANGED sent /\ Unmoved

\* Mutant: a refusal is retried too.
AgainAlways(tries) == Len(tries) < UPLOAD_MAX_RETRIES

\* uploadBufferToCdn: three attempts, but none after a refusal (4xx).
Again(tries) == Len(tries) < UPLOAD_MAX_RETRIES /\ tries[Len(tries)] # "refused"
Upload ==
    /\ delivery.at = "upload"
    /\ \/ /\ delivery' = [delivery EXCEPT !.at = IF delivery.caption THEN "caption" ELSE "media",
                                          !.tries = Append(@, "stored")]
          /\ UNCHANGED <<outcome, noticed, notices, errors>>
       \/ \E why \in Why :
             /\ Error
             /\ IF Again(Append(delivery.tries, why))
                THEN /\ delivery' = [delivery EXCEPT !.tries = Append(@, why)]
                     /\ UNCHANGED <<outcome, noticed, notices>>
                ELSE DeliveryFails(why)
    /\ UNCHANGED sent /\ Unmoved

\* The caption is a message of its own before the media.
SendAnswer ==
    /\ delivery.at \in {"text", "caption", "media"}
    /\ \/ /\ Arrives(Here(delivery.at, ThisOne))
          /\ IF delivery.at = "caption"
             THEN delivery' = [delivery EXCEPT !.at = "media"] /\ UNCHANGED outcome
             ELSE Ends("sent")
          /\ UNCHANGED <<noticed, notices>>
       \/ Fails(Here(delivery.at, ThisOne)) /\ \E why \in Why : DeliveryFails(why)
    /\ Unmoved

NoticeSends(x) ==
    /\ notices' = notices \ {x}
    /\ Arrives(Item(x.run, "notice", x.d)) \/ Fails(Item(x.run, "notice", x.d))
    /\ UNCHANGED <<delivery, outcome, noticed>> /\ Unmoved

-----------------------------------------------------------------------------
Process == Authorize \/ CommandReply \/ Downloaded \/ Recorded \/ RunEnds \/ Drained \/ Finish

Next ==
    \/ \E from \in {"linked", "stranger"}, kind \in {"chat", "echo", "toggle"},
          token \in BOOLEAN, media \in BOOLEAN : Receive(from, kind, token, media)
    \/ Process
    \/ \E r \in 1 .. MaxRuns : ToolEvent(r)
    \/ ProgressSends
    \/ \E kind \in {"text", "odd", "local", "remote"}, caption \in BOOLEAN : Deliver(kind, caption)
    \/ Hook \/ Prepare \/ Upload \/ SendAnswer
    \/ \E x \in notices : NoticeSends(x)

Spec == Init /\ [][Next]_dvars

-----------------------------------------------------------------------------
Items == [run : 1 .. MaxRuns, what : {"reply", "tool", "text", "caption", "media", "notice", "timing"},
          d : 0 .. 2 * MaxTools + MaxDeliveries]

\* Steps, requests and histories are what they should be; only a run delivers.
TypeOK ==
    /\ step \in {"idle", "authorize", "command", "download", "record", "run", "drain", "finish"}
    /\ msg.n \in 0 .. MaxRuns
    /\ step = "command" <=> replies # <<>>
    /\ delivery.at # "none" => step = "run"
    /\ delivery.at \in {"none", "hook", "fetch", "ask", "upload", "caption", "media", "text"}
    /\ \A i \in DOMAIN outcome : outcome[i] \in {"sent", "failed", "cancelled"}
    /\ \A i \in DOMAIN sendChain : sendChain[i] \in Items
    /\ \A i \in DOMAIN sent : sent[i] \in Items
    /\ finalized \subseteq 1 .. msg.n /\ errors \in 0 .. MaxErrors

\* What the user gets belongs to the message that is being processed, which is
\* from an authorized sender; only a notice may be late.  Progress messages
\* come in the order of the events, before the times of the run, and none is
\* sent between two messages.
RunsKeepApart ==
    /\ \A i \in DOMAIN sent : sent[i].what # "notice" => sent[i].run = msg.n
    /\ \A i, j \in DOMAIN sent :
          (i < j /\ sent[j].what = "tool") => (sent[i].what # "timing" /\ (sent[i].what = "tool" => sent[i].d < sent[j].d))
    /\ msg.from = "stranger" => /\ \A i \in DOMAIN sent : sent[i].what = "notice"
                                /\ step \in {"idle", "authorize"} /\ ~fetched
    /\ step = "idle" => sendChain = <<>>

\* What has arrived of answer i of this message.
Parts == {"text", "caption", "media"}
Arrived(what, i) == {k \in DOMAIN sent : sent[k] = Here(what, i)}
Got(i) == {what \in Parts : Arrived(what, i) # {}}

\* What message_sent reports is true: an answer that was "sent" has arrived,
\* nothing twice and one answer after the other; one that was cancelled has
\* not; of one that failed the user is told.  The media is not sent before its
\* caption has arrived.  An upload is tried three times, and a refused one not
\* again.
OutcomeIsTrue ==
    /\ \A i \in DOMAIN outcome :
          CASE outcome[i] = "sent"      -> Got(i) \in {{"text"}, {"media"}, {"caption", "media"}}
            [] outcome[i] = "cancelled" -> Got(i) = {}
            [] outcome[i] = "failed"    -> i \in noticed /\ (Got(i) = {"text"} \/ Got(i) \subseteq {"caption", "media"})
    /\ \A k, l \in DOMAIN sent :
          k < l /\ {sent[k].what, sent[l].what} \subseteq Parts
            => sent[k].d < sent[l].d \/ (sent[k] = [sent[l] EXCEPT !.what = "caption"] /\ sent[l].what = "media")
    /\ delivery.at = "media" => Got(ThisOne) = (IF delivery.caption THEN {"caption"} ELSE {})
    /\ noticed = {i \in DOMAIN outcome : outcome[i] = "failed"}
    /\ Len(delivery.tries) <= UPLOAD_MAX_RETRIES
    /\ \A i \in DOMAIN delivery.tries :
          delivery.tries[i] \in {"refused", "stored"} => i = Len(delivery.tries) /\ delivery.tries[i] = "stored"
=============================================================================
