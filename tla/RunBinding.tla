----------------------------- MODULE RunBinding -----------------------------
(***************************************************************************)
(* How a tool call of the language model gets the WeChat message it may    *)
(* act on.  The host runs hooks (message received, agent run, model input, *)
(* tool call, agent end) and tool executions; the plugin may be loaded     *)
(* more than once, so each hook and each execution meets any one instance. *)
(* What the instances share is the durable queue of trusted messages with  *)
(* three kinds of rows and the tombstones of ended runs:                   *)
(*   Real(m)    the message as received,                                   *)
(*   Corr(r, m) "run r was matched with m", for the tool hook,             *)
(*   Bridge(m)  "a tool hook bound m", for the execution.                  *)
(* One owner, one account and one tool: an identity that is not the        *)
(* owner's is refused before any of this.  A message of the owner belongs  *)
(* to a conversation (its session), a run and its calls inherit it.        *)
(***************************************************************************)
EXTENDS Integers, Sequences, FiniteSets, SequencesExt

CONSTANTS
    Instance, Message, Run, Call, Id,
    ConvOf,       \* [Message -> conversation]
    Image,        \* the messages with an image
    TextOf,       \* [Message -> text, None when there is none]
    PromptOf,     \* [Message -> text]: the prompt of a run started for it, before_agent_run
    PromptEnds,   \* [Message -> texts]: what the model's input of such a run ends with, llm_input
    MsgOf,        \* [Run -> Message]: what the host started the run for
    RunOf,        \* [Call -> Run]
    IdOf,         \* [Call -> Id]: the model's tool call id, which may repeat
    PromptAge,    \* TRUSTED_PROMPT_CORRELATION_MAX_AGE_MS
    MaxAge,       \* TRUSTED_INBOUND_MAX_AGE_MS, also the retention of slots
    EndTtl,       \* TRUSTED_RUN_END_TTL_MS
    MaxTime,      \* bound: the last instant of the clock
    MaxReceived,  \* bound: deliveries of one message
    None

ASSUME AgesAssumption ==
    /\ {PromptAge, MaxAge, EndTtl, MaxTime, MaxReceived} \subseteq Nat
    /\ PromptAge <= MaxAge /\ MaxAge <= EndTtl /\ 1 <= MaxTime
ASSUME HostAssumption ==
    /\ MsgOf \in [Run -> Message] /\ RunOf \in [Call -> Run]
    /\ IdOf \in [Call -> Id]
    /\ Image \subseteq Message
    /\ None \notin Message \cup Run \cup Id \cup Instance

VARIABLES
    now,        \* the clock
    received,   \* [Message -> how often it was delivered]
    pending,    \* unclaimed rows of trusted_inbound_queue: [arrival_order -> row]
    claimed,    \* keys of its claimed rows, which stay for ever
    runKeys,    \* <<r, m>>: lookup rows by run id
    tomb,       \* ended_trusted_runs: [Run -> expiry, 0 when there is none]
    prepared,   \* [Instance -> SUBSET Run]
    inboundByRun, unverified,      \* [Instance -> [Run -> binding or None]]
    slots,      \* [Instance -> [Id -> slot or None]]: toolCallSlots
    cached,     \* [Instance -> [Run -> when stored, or None]]
    call        \* [Call -> stage of the call and what its execution holds]

queue == <<pending, claimed, runKeys>>
memory == <<prepared, inboundByRun, unverified, slots, cached>>
vars == <<now, received, queue, tomb, memory, call>>

Binding == [msg: Message, at: 0..MaxTime]
Real(m) == <<"real", m>>
Corr(r, m) == <<"corr", r, m>>
Bridge(m) == <<"bridge", m>>
Key == {Real(m) : m \in Message} \cup {Bridge(m) : m \in Message}
       \cup {Corr(r, m) : r \in Run, m \in Message}
Row == [key: Key, inbound: Binding, expires: Nat, author: Run \cup {None}]
Slot == [run: Run, conv: {ConvOf[m] : m \in Message} , inbound: Binding \cup {None},
         ambiguous: BOOLEAN, touched: 0..MaxTime]
ASSUME NoneAssumption == None \notin Binding \cup Slot \cup Nat

Idle == [stage |-> "idle", inst |-> None, id |-> None, run |-> None, inbound |-> None]

Fresh(b, age) == now - b.at <= age
Ended(r) == tomb[r] > 0 /\ tomb[r] >= now
RunConv(r) == ConvOf[MsgOf[r]]

\* Rows that are past their time are deleted first, in every transaction.
Live(q) == Restrict(q, {n \in DOMAIN q : q[n].expires >= now})
Matching(q, P(_)) == {n \in DOMAIN q : P(q[n])}

\* A row is inserted, or a claimed one is reactivated as the newest; a row
\* that is still waiting stays as it is.
Newest(q) == 1 + Max(DOMAIN q \cup {0})
Enqueued(q, row) == IF \E n \in DOMAIN q : q[n].key = row.key THEN q
                    ELSE [n \in DOMAIN q \cup {Newest(q)} |-> IF n = Newest(q) THEN row ELSE q[n]]
Without(q, n) == Restrict(q, DOMAIN q \ {n})
IsOldest(n, found) == n \in found /\ \A k \in found : n <= k
Oldest(found) == IF \E n \in found : IsOldest(n, found) THEN CHOOSE n \in found : IsOldest(n, found) ELSE 0
TheOnly(found) == IF \E n \in found : found = {n} THEN CHOOSE n \in found : TRUE ELSE 0

\* Slots, and cached results, that were not touched for ten minutes are dropped.
PrunedSlots(i) == [d \in Id |-> IF slots[i][d] # None /\ now - slots[i][d].touched > MaxAge
                                THEN None ELSE slots[i][d]]
PrunedCache(i) == [r \in Run |-> IF cached[i][r] # None /\ now - cached[i][r] > MaxAge
                                 THEN None ELSE cached[i][r]]

Init ==
    /\ now = 1
    /\ received = [m \in Message |-> 0]
    /\ pending = <<>> /\ claimed = {} /\ runKeys = {}
    /\ tomb = [r \in Run |-> 0]
    /\ prepared = [i \in Instance |-> {}]
    /\ inboundByRun = [i \in Instance |-> [r \in Run |-> None]]
    /\ unverified = inboundByRun
    /\ slots = [i \in Instance |-> [d \in Id |-> None]]
    /\ cached = [i \in Instance |-> [r \in Run |-> None]]
    /\ call = [k \in Call |-> Idle]

Tick == now < MaxTime /\ now' = now + 1
        /\ UNCHANGED <<received, queue, tomb, memory, call>>

-----------------------------------------------------------------------------
\* message_received; the host names the run when it already knows it.
MessageReceived(m, runs) ==
    LET q == Live(pending)
        row == [key |-> Real(m), inbound |-> [msg |-> m, at |-> now],
                expires |-> now + MaxAge, author |-> None]
    IN /\ received[m] < MaxReceived
       /\ received' = [received EXCEPT ![m] = @ + 1]
       /\ pending' = Enqueued(q, row)
       /\ claimed' = claimed \ {Real(m)}
       /\ runKeys' = IF pending' # q THEN runKeys \cup (runs \X {m}) ELSE runKeys
       /\ UNCHANGED <<now, tomb, memory, call>>

\* persistCorrelatedInbound after the row at place n was claimed.
Correlate(q, n, r) ==
    LET b == q[n].inbound
    IN /\ pending' = Enqueued(Without(q, n), [key |-> Corr(r, b.msg), inbound |-> b,
                                              expires |-> b.at + MaxAge, author |-> None])
       /\ claimed' = (claimed \cup {q[n].key}) \ {Corr(r, b.msg)}

ByRunId(r, row) == row.key[1] = "real" /\ <<r, row.inbound.msg>> \in runKeys
\* promptEndsWithInboundMessage: the model's input ends with the text; its last
\* lines may be the text of another message too.
EndsPrompt(o, m) == TextOf[m] # None /\ TextOf[m] \in PromptEnds[o]

\* before_agent_run: the prompt is the text, sent within the last minute.
ByPrompt(r, row) == /\ row.key[1] = "real"
                    /\ ConvOf[row.inbound.msg] = RunConv(r)
                    /\ row.inbound.msg \notin Image
                    /\ TextOf[row.inbound.msg] # None
                    /\ TextOf[row.inbound.msg] = PromptOf[MsgOf[r]]
                    /\ Fresh(row.inbound, PromptAge)

\* imageRunMatches: the channel's dispatch of a message reaches the hooks of its
\* own run, while the asynchronous scope of the dispatch holds.
ImageRunMatches(r, m, scope) == scope /\ m = MsgOf[r]

\* llm_input: an image by its dispatch for ten minutes, a text by the prompt for one.
ByModelInput(r, row, convs, scope) ==
    /\ row.key[1] = "real"
    /\ ConvOf[row.inbound.msg] \in convs
    /\ IF row.inbound.msg \in Image
       THEN ImageRunMatches(r, row.inbound.msg, scope) /\ Fresh(row.inbound, MaxAge)
       ELSE EndsPrompt(MsgOf[r], row.inbound.msg) /\ Fresh(row.inbound, PromptAge)

BeforeAgentRun(i, r) ==
    LET q == Live(pending)
        exact == Oldest(Matching(q, LAMBDA row : ByRunId(r, row)))
        n == IF exact # 0 THEN exact
             ELSE TheOnly(Matching(q, LAMBDA row : ByPrompt(r, row)))
    IN /\ received[MsgOf[r]] > 0
       /\ ~Ended(r) /\ r \notin prepared[i]
       /\ prepared' = [prepared EXCEPT ![i] = @ \cup {r}]
       /\ IF n = 0
          THEN pending' = q /\ UNCHANGED <<claimed, inboundByRun>>
          ELSE /\ inboundByRun' = [inboundByRun EXCEPT ![i][r] = q[n].inbound]
               /\ Correlate(q, n, r)
       /\ UNCHANGED <<now, received, runKeys, tomb, unverified, slots, cached, call>>

\* llm_input of a run without a binding here; a context without the sender
\* cannot tell the conversations apart.
LlmInput(i, r, sender, scope) ==
    LET q == Live(pending)
        convs == IF sender THEN {RunConv(r)} ELSE {ConvOf[m] : m \in Message}
        n == TheOnly(Matching(q, LAMBDA row : ByModelInput(r, row, convs, scope)))
    IN /\ received[MsgOf[r]] > 0
       /\ ~Ended(r) /\ inboundByRun[i][r] = None /\ unverified[i][r] = None
       /\ n # 0
       /\ unverified' = [unverified EXCEPT ![i][r] = q[n].inbound]
       /\ Correlate(q, n, r)
       /\ UNCHANGED <<now, received, runKeys, tomb, prepared, inboundByRun, slots, cached, call>>
-----------------------------------------------------------------------------
\* before_tool_call
Hooked(k) == call' = [call EXCEPT ![k].stage = "hooked"]

\* Mutant: the slot of the first run stays usable.
CollideKeeps(s, d) == [s EXCEPT ![d].touched = now]

\* Mutant: the slot no longer names a run.
CollideNameless(s, d) == [s EXCEPT ![d].run = None, ![d].inbound = None, ![d].ambiguous = TRUE,
                                   ![d].touched = now]

\* The id already has a slot: a second run makes it ambiguous for good.
Collide(s, d) == [s EXCEPT ![d].ambiguous = TRUE, ![d].inbound = None, ![d].touched = now]
HookMeetsSlot(i, k) ==
    LET s == PrunedSlots(i)
        r == RunOf[k]
        d == IdOf[k]
    IN /\ call[k].stage = "idle" /\ ~Ended(r) /\ received[MsgOf[r]] > 0
       /\ s[d] # None
       /\ IF s[d].run # r
          THEN /\ slots' = [slots EXCEPT ![i] = Collide(s, d)]
               /\ inboundByRun' = [inboundByRun EXCEPT ![i][r] = None]
          ELSE slots' = [slots EXCEPT ![i] = s] /\ UNCHANGED inboundByRun
       /\ Hooked(k)
       /\ cached' = [cached EXCEPT ![i] = PrunedCache(i)]
       /\ UNCHANGED <<now, received, queue, tomb, prepared, unverified>>

\* The message of the run: embedded in this instance, else handed over by the
\* queue, else matched here with the model's input, else under the run's id.
HookBinds(i, k) ==
    LET r == RunOf[k]
        d == IdOf[k]
        q == Live(pending)
        corr == TheOnly(Matching(q, LAMBDA row : /\ row.key[1] = "corr" /\ row.key[2] = r
                                        /\ ConvOf[row.inbound.msg] = RunConv(r)
                                        /\ Fresh(row.inbound, MaxAge)))
        own == inboundByRun[i][r]
        seen == unverified[i][r]
        exact == Oldest(Matching(q, LAMBDA row : ByRunId(r, row)))
        n == IF own # None THEN 0
             ELSE IF corr # 0 THEN corr
             ELSE IF seen # None /\ ConvOf[seen.msg] = RunConv(r) THEN 0
             ELSE exact
        b == IF own # None THEN own
             ELSE IF n # 0 THEN q[n].inbound
             ELSE IF seen # None /\ ConvOf[seen.msg] = RunConv(r) THEN seen ELSE None
        rest == IF n = 0 THEN q ELSE Without(q, n)
        bridged == Enqueued(rest, [key |-> Bridge(b.msg), inbound |-> b,
                                   expires |-> now + PromptAge, author |-> r])
        left == Oldest(Matching(bridged, LAMBDA row : row.key[1] = "corr" /\ row.key[2] = r))
        taken == IF n = 0 THEN {} ELSE {q[n].key}
    IN /\ call[k].stage = "idle" /\ ~Ended(r) /\ received[MsgOf[r]] > 0
       /\ PrunedSlots(i)[d] = None
       /\ slots' = [slots EXCEPT ![i] = [PrunedSlots(i) EXCEPT ![d] =
              [run |-> r, conv |-> RunConv(r), inbound |-> b,
               ambiguous |-> FALSE, touched |-> now]]]
       /\ IF b = None
          THEN pending' = rest /\ claimed' = claimed \cup taken
               /\ UNCHANGED <<inboundByRun, unverified>>
          ELSE /\ pending' = (IF left = 0 THEN bridged ELSE Without(bridged, left))
               /\ claimed' = ((claimed \cup taken) \ {Bridge(b.msg)})
                                \cup (IF left = 0 THEN {} ELSE {bridged[left].key})
               /\ inboundByRun' = [inboundByRun EXCEPT ![i][r] = None]
               /\ unverified' = [unverified EXCEPT ![i][r] = None]
       /\ Hooked(k)
       /\ cached' = [cached EXCEPT ![i] = PrunedCache(i)]
       /\ UNCHANGED <<now, received, runKeys, tomb, prepared>>

\* The hook of a run that has ended binds nothing, and lets the call through.
HookTooLate(i, k) ==
    /\ call[k].stage = "idle" /\ Ended(RunOf[k])
    /\ Hooked(k)
    /\ slots' = [slots EXCEPT ![i] = PrunedSlots(i)]
    /\ cached' = [cached EXCEPT ![i] = PrunedCache(i)]
    /\ UNCHANGED <<now, received, queue, tomb, prepared, inboundByRun, unverified>>

-----------------------------------------------------------------------------
\* takeToolCallBinding

\* Slots another call of the same conversation, or else the only run of the
\* account, has left here.
Recoverable(i) == {d \in Id : LET s == PrunedSlots(i)[d] IN
    /\ s # None /\ ~s.ambiguous /\ ~Ended(s.run)
    /\ s.inbound # None \/ PrunedCache(i)[s.run] # None}
RunsOf(i, ds) == {PrunedSlots(i)[d].run : d \in ds}
Recovered(i, k) ==
    LET near == {d \in Recoverable(i) : PrunedSlots(i)[d].conv = RunConv(RunOf[k])}
        ds == IF Cardinality(RunsOf(i, near)) = 1 THEN near
              ELSE IF Cardinality(RunsOf(i, Recoverable(i))) = 1 THEN Recoverable(i) ELSE {}
        bound == {d \in ds : PrunedSlots(i)[d].inbound # None}
    IN IF bound # {} THEN bound ELSE ds

IsBridge(row) == row.key[1] = "bridge" /\ Fresh(row.inbound, MaxAge)
OpenBridge(row) == IsBridge(row) /\ ~Ended(row.author)

Ends(k, stage) == call' = [call EXCEPT ![k] = [Idle EXCEPT !.stage = stage]]
Acts(k, i, d, s) == call' = [call EXCEPT ![k] = [stage |-> "bound", inst |-> i, id |-> d,
                                                 run |-> s.run, inbound |-> s.inbound]]

\* The execution works with slot s under id d.  q is the queue after the search.
UseSlot(i, k, d, s, q) ==
    LET put(x) == slots' = [slots EXCEPT ![i] = [PrunedSlots(i) EXCEPT ![d] = x]]
        spent == [s EXCEPT !.inbound = None]
        mine == IF s.inbound = None \/ s.ambiguous THEN 0
                ELSE TheOnly(Matching(q, LAMBDA row : row.key = Bridge(s.inbound.msg)))
    IN IF Ended(s.run)
       THEN /\ put(spent) /\ Ends(k, "refused")
            /\ pending' = q /\ UNCHANGED claimed
       ELSE IF ~s.ambiguous /\ PrunedCache(i)[s.run] # None
       THEN /\ put(s) /\ Ends(k, "answered")
            /\ pending' = q /\ UNCHANGED claimed
       ELSE /\ put(spent)
            /\ IF mine # 0
               THEN pending' = Without(q, mine) /\ claimed' = claimed \cup {q[mine].key}
               ELSE pending' = q /\ UNCHANGED claimed
            /\ IF s.ambiguous \/ s.inbound = None
               THEN Ends(k, "refused")
               ELSE IF ~Fresh(s.inbound, MaxAge)
               THEN Ends(k, "refused")
               ELSE Acts(k, i, d, s)

Executing(i, k) == call[k].stage = "hooked"
Kept(i) == /\ cached' = [cached EXCEPT ![i] = PrunedCache(i)]
           /\ UNCHANGED <<now, received, runKeys, tomb, prepared, inboundByRun, unverified>>

TakeOwnSlot(i, k) ==
    /\ Executing(i, k) /\ PrunedSlots(i)[IdOf[k]] # None
    /\ UseSlot(i, k, IdOf[k], PrunedSlots(i)[IdOf[k]], Live(pending))
    /\ Kept(i)

\* No slot under this id, the execution carries the owner's full identity and
\* a bound slot of a single run is here.
TakeRecovered(i, k) ==
    /\ Executing(i, k) /\ PrunedSlots(i)[IdOf[k]] = None
    /\ \E d \in Recovered(i, k) :
        /\ PrunedSlots(i)[d].inbound # None
        /\ UseSlot(i, k, d, PrunedSlots(i)[d], Live(pending))
    /\ Kept(i)

NothingBoundHere(i, k) == \A d \in Recovered(i, k) : PrunedSlots(i)[d].inbound = None
BridgeAt == TheOnly(Matching(Live(pending), OpenBridge))

TakeBridged(i, k) ==
    LET q == Live(pending)
        n == BridgeAt
        s == [run |-> q[n].author, conv |-> ConvOf[q[n].inbound.msg],
              inbound |-> q[n].inbound, ambiguous |-> FALSE, touched |-> now]
    IN /\ Executing(i, k) /\ PrunedSlots(i)[IdOf[k]] = None
       /\ NothingBoundHere(i, k) /\ n # 0
       /\ IF PrunedCache(i)[s.run] # None
          THEN /\ slots' = [slots EXCEPT ![i] = [PrunedSlots(i) EXCEPT ![IdOf[k]] = s]]
               /\ Ends(k, "answered")
          ELSE /\ slots' = [slots EXCEPT ![i] = [PrunedSlots(i) EXCEPT ![IdOf[k]] =
                                                    [s EXCEPT !.inbound = None]]]
               /\ Acts(k, i, IdOf[k], s)
       /\ pending' = Without(q, n) /\ claimed' = claimed \cup {q[n].key}
       /\ Kept(i)

\* Nothing is pending, so the cached result of the run is what was asked for.
TakeCached(i, k) ==
    LET q == Live(pending)
    IN /\ Executing(i, k) /\ PrunedSlots(i)[IdOf[k]] = None
       /\ NothingBoundHere(i, k) /\ Matching(q, IsBridge) = {}
       /\ \E d \in Recovered(i, k) : UseSlot(i, k, d, PrunedSlots(i)[d], q)
       /\ Kept(i)

\* Nothing to act on.  An execution without identity (after a compaction) does
\* not search at all.
TakeNothing(i, k, identity) ==
    /\ Executing(i, k) /\ PrunedSlots(i)[IdOf[k]] = None
    /\ identity => /\ NothingBoundHere(i, k) /\ BridgeAt = 0
                   /\ Recovered(i, k) = {} \/ Matching(Live(pending), IsBridge) # {}
    /\ Ends(k, "refused")
    /\ pending' = (IF identity THEN Live(pending) ELSE pending)
    /\ slots' = [slots EXCEPT ![i] = PrunedSlots(i)]
    /\ UNCHANGED claimed
    /\ Kept(i)
-----------------------------------------------------------------------------
\* isStillAuthorized, asked again right before the ledger is written to.
StillAuthorized(k) ==
    LET s == slots[call[k].inst][call[k].id]
    IN /\ s # None /\ s.run = call[k].run /\ ~s.ambiguous
       /\ Fresh(call[k].inbound, MaxAge)
       /\ ~Ended(s.run)

\* The write, and the answer that the run keeps.
WriteExpense(k) ==
    /\ call[k].stage = "bound" /\ StillAuthorized(k)
    /\ Ends(k, "written")
    /\ cached' = [cached EXCEPT ![call[k].inst][call[k].run] = IF @ = None THEN now ELSE @]
    /\ UNCHANGED <<now, received, queue, tomb, prepared, inboundByRun, unverified, slots>>

WriteRefused(k) ==
    /\ call[k].stage = "bound" /\ ~StillAuthorized(k)
    /\ Ends(k, "refused")
    /\ UNCHANGED <<now, received, queue, tomb, memory>>

\* Mutant: the tombstone lives as long as a prompt's correlation only.
TombstoneShort(r) == [tomb EXCEPT ![r] = now + PromptAge]

\* endTrustedRun.
Tombstone(r) == [tomb EXCEPT ![r] = now + EndTtl]

\* agent_end, in whichever instance the hook runs.  The tool may still be
\* executing: an aborted run does not wait for it.
AgentEnd(i, r) ==
    LET q == Live(pending)
        n == Oldest(Matching(q, LAMBDA row : row.key[1] = "corr" /\ row.key[2] = r))
    IN /\ received[MsgOf[r]] > 0 /\ tomb[r] = 0
       /\ tomb' = Tombstone(r)
       /\ prepared' = [prepared EXCEPT ![i] = @ \ {r}]
       /\ inboundByRun' = [inboundByRun EXCEPT ![i][r] = None]
       /\ unverified' = [unverified EXCEPT ![i][r] = None]
       /\ pending' = (IF n = 0 THEN q ELSE Without(q, n))
       /\ claimed' = (IF n = 0 THEN claimed ELSE claimed \cup {q[n].key})
       /\ cached' = [cached EXCEPT ![i] = [PrunedCache(i) EXCEPT ![r] = None]]
       /\ slots' = [slots EXCEPT ![i] = [d \in Id |->
              LET s == PrunedSlots(i)[d] IN
              IF s # None /\ s.run = r THEN [s EXCEPT !.inbound = None, !.touched = now] ELSE s]]
       /\ UNCHANGED <<now, received, runKeys, call>>

\* gateway_stop, or the process dies: maps and calls are gone, the database is not.
GatewayRestart ==
    /\ prepared' = [i \in Instance |-> {}]
    /\ inboundByRun' = [i \in Instance |-> [r \in Run |-> None]]
    /\ unverified' = [i \in Instance |-> [r \in Run |-> None]]
    /\ slots' = [i \in Instance |-> [d \in Id |-> None]]
    /\ cached' = [i \in Instance |-> [r \in Run |-> None]]
    /\ call' = [k \in Call |-> IF call[k].stage \in {"hooked", "bound"}
                               THEN [Idle EXCEPT !.stage = "refused"] ELSE call[k]]
    /\ UNCHANGED <<now, received, queue, tomb>>

Next ==
    \/ Tick \/ GatewayRestart
    \/ \E m \in Message : \/ MessageReceived(m, {})
                          \/ \E r \in Run : MsgOf[r] = m /\ MessageReceived(m, {r})
    \/ \E k \in Call : WriteExpense(k) \/ WriteRefused(k)
    \/ \E i \in Instance :
        \/ \E r \in Run : \/ BeforeAgentRun(i, r) \/ AgentEnd(i, r)
                          \/ \E sender, scope \in BOOLEAN : LlmInput(i, r, sender, scope)
        \/ \E k \in Call :
            \/ HookMeetsSlot(i, k) \/ HookBinds(i, k) \/ HookTooLate(i, k)
            \/ TakeOwnSlot(i, k) \/ TakeRecovered(i, k) \/ TakeBridged(i, k) \/ TakeCached(i, k)
            \/ \E identity \in BOOLEAN : TakeNothing(i, k, identity)

Spec == Init /\ [][Next]_vars
-----------------------------------------------------------------------------
\* What the maps, the queue, the tombstones and the calls hold.
TypeOK ==
    /\ now \in 0..MaxTime
    /\ received \in [Message -> 0..MaxReceived]
    /\ \A n \in DOMAIN pending : pending[n] \in Row
    /\ claimed \subseteq Key /\ runKeys \subseteq Run \X Message
    /\ tomb \in [Run -> Nat]
    /\ prepared \in [Instance -> SUBSET Run]
    /\ {inboundByRun, unverified} \subseteq [Instance -> [Run -> Binding \cup {None}]]
    /\ slots \in [Instance -> [Id -> Slot \cup {None}]]
    /\ cached \in [Instance -> [Run -> 0..MaxTime \cup {None}]]
    /\ \A k \in Call : /\ call[k].stage \in {"idle", "hooked", "bound", "written", "answered", "refused"}
                       /\ call[k].stage = "bound" => call[k].inbound \in Binding

\* No write is made for a run after its agent_end, in whichever instance the
\* end was seen and wherever the tool still runs, also after the tombstone has
\* expired: whatever a slot, a cache or the queue has kept is too old by then
\* (index.ts 1040, 1264-1270; adapter.mjs 685).
EndedRunsWriteNothing ==
    [][\A k \in Call : call[k].stage = "bound" /\ call'[k].stage = "written"
                        => tomb[call[k].run] = 0]_vars

\* What a run started for message o may be taken to be about.
MayMean(o, m) ==
    \/ m = o
    \/ m \notin Image /\ TextOf[m] # None /\ TextOf[m] \in PromptEnds[o] \cup {PromptOf[o]}

\* While the host runs its calls in order, an execution acts on the message its
\* own run was started for or on one whose text is, or ends, the prompt of that
\* run, and on an image only of its own run: never on another message, whose slot,
\* handed over row or tool call id it meets (index.ts 639-652, 706-722, 783-805,
\* 1098-1192).
OwnMessage == \A k \in Call : call[k].stage = "bound" => MayMean(MsgOf[RunOf[k]], call[k].inbound.msg)
=============================================================================
