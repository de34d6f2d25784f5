---------------------------- MODULE WeixinProofs ----------------------------
(***************************************************************************)
(* Proofs about what the user reads.  The WeChat channel: its accounts, for  *)
(* any set of bots, users and processes that log in; the processing of      *)
(* messages, for any number of messages, answers, tool calls and failures;  *)
(* and the Markdown filter, for texts of any length over any characters.    *)
(* Before the channel the replies to tool results, for any number of        *)
(* instances, runs, sends, messages, recipients and accounts.               *)
(***************************************************************************)
EXTENDS MCWeixin, AuthoritativeReply, Integers, SequenceTheorems, FiniteSetTheorems, WellFoundedInduction, TLAPS

-----------------------------------------------------------------------------
(* The accounts.                                                            *)

\* A send outside a run is one call.
OneCall == DOMAIN out = {"pc", "bot", "to", "kind", "token"}

\* What is on disk are the tokens of the last messages, and the memory has
\* them or nothing: then StartAccount restores them.  Only a failed write, or
\* a removal by the command line, takes an account out.
FilesAreNewest == \A b \in Bot \ outdated : tokenFile[b] = newest[b]
MemoryIsNewestOrEmpty == \A b \in Bot \ outdated : \A x \in User : tokens[b][x] \in {0, newest[b][x]}

AccountsInv ==
    /\ Accounts!TypeOK /\ OneCall
    /\ FilesAreNewest /\ MemoryIsNewestOrEmpty
    /\ Accounts!OneAccountPerUser /\ Accounts!ContextIsCurrent

-----------------------------------------------------------------------------
(* The processing of messages.                                              *)

Whats == {"reply", "tool", "text", "caption", "media", "notice", "timing"}
Stages == {"none", "hook", "fetch", "ask", "upload", "caption", "media", "text"}
Attempts == {"network", "refused", "stored"}

\* The requests, queues and histories are records and sequences of what they
\* should be, within the bounds.
DeliveryTyped ==
    /\ Delivery!TypeOK
    /\ msg \in [n : 0 .. MaxRuns, from : {"linked", "stranger"}, kind : {"chat", "echo", "toggle"},
                token : BOOLEAN, media : BOOLEAN]
    /\ step # "idle" => msg.n \in 1 .. MaxRuns
    /\ replies \in Seq({"echo", "timing", "toggled", "failed"})
    /\ delivery \in [at : Stages, kind : {"text", "odd", "local", "remote"}, caption : BOOLEAN,
                     tries : Seq(Attempts)]
    /\ outcome \in Seq({"sent", "failed", "cancelled"}) /\ Len(outcome) <= MaxDeliveries
    /\ delivery.at # "none" => Len(outcome) < MaxDeliveries
    /\ sendChain \in Seq(Delivery!Items) /\ sent \in Seq(Delivery!Items)
    /\ tool \in [1 .. MaxRuns -> 0 .. 2 * MaxTools]
    /\ \A x \in notices : x.run \in 1 .. MaxRuns /\ x.d \in 1 .. MaxDeliveries

\* The progress messages that wait are of the run that is under way, in the
\* order of its events, and everything that was sent precedes them.
ChainIsOfTheRun ==
    /\ sendChain # <<>> => step \in {"run", "drain"}
    /\ \A k \in DOMAIN sendChain : /\ sendChain[k].run = msg.n /\ sendChain[k].what = "tool"
                                   /\ sendChain[k].d <= tool[msg.n]
    /\ \A k, l \in DOMAIN sendChain : k < l => sendChain[k].d < sendChain[l].d
SentPrecedesTheChain ==
    /\ \A i \in DOMAIN sent : sent[i].what = "timing" => step = "idle"
    /\ \A i \in DOMAIN sent : sent[i].what = "tool" =>
          sent[i].d <= tool[msg.n] /\ \A k \in DOMAIN sendChain : sent[i].d < sendChain[k].d

ApartInv == DeliveryTyped /\ ChainIsOfTheRun /\ SentPrecedesTheChain /\ RunsKeepApart

\* Parts that have arrived are of an answer that is over, or the caption of the
\* one whose media comes next.
PartsAreOfAnswers ==
    /\ \A k \in DOMAIN sent : sent[k].what \in Delivery!Parts =>
          /\ sent[k].d \in 1 .. Len(outcome) + 1
          /\ sent[k].d = Len(outcome) + 1 => sent[k].what = "caption" /\ delivery.at = "media"
    /\ delivery.at = "caption" => delivery.caption

\* Attempts are made in "upload" only; one that was refused ended it.
AttemptsOfAnUpload ==
    /\ delivery.at \in {"none", "hook", "fetch", "ask", "text"} => delivery.tries = <<>>
    /\ delivery.at = "upload" => /\ Len(delivery.tries) < 3
                                 /\ \A i \in DOMAIN delivery.tries : delivery.tries[i] = "network"
    /\ delivery.at \in {"caption", "media"} =>
          /\ Len(delivery.tries) \in 1 .. 3
          /\ \A i \in DOMAIN delivery.tries :
                delivery.tries[i] = IF i = Len(delivery.tries) THEN "stored" ELSE "network"

OutcomeInv == ApartInv /\ PartsAreOfAnswers /\ AttemptsOfAnUpload /\ OutcomeIsTrue

-----------------------------------------------------------------------------
(* Steps of a login that confirm nothing.                                   *)

LEMMA LoginSteps ==
    ASSUME AccountsInv,
           \/ \E s \in Waiter : (\E force \in BOOLEAN : Accounts!StartLogin(s, force))
                                  \/ Accounts!QrArrives(s) \/ Accounts!LoginExpires(s)
           \/ \E w \in Waiter : Accounts!Wait(w) \/ Accounts!VerifyCode(w) \/ Accounts!Refresh(w)
                                  \/ Accounts!WaitFails(w)
    PROVE  AccountsInv'
<1> USE WeixinAssumption DEF AccountsInv, WeixinAssumption
<1>1. UNCHANGED <<index, account, allowed, tokenFile, tokens, logins, running, out, newest, issued,
                  outdated, anonymous>>
  BY DEF Accounts!StartLogin, Accounts!QrArrives, Accounts!LoginExpires, Accounts!Wait,
         Accounts!VerifyCode, Accounts!Refresh, Accounts!WaitFails, Accounts!files, Accounts!history
<1>2. active' \in [Waiter -> {"fresh", "expired", None}] /\ starting' \subseteq Waiter
  BY DEF Accounts!TypeOK, Accounts!StartLogin, Accounts!QrArrives, Accounts!LoginExpires, Accounts!Wait,
         Accounts!VerifyCode, Accounts!Refresh, Accounts!WaitFails, Accounts!Purged, Accounts!EndOf
<1> DEFINE Calls == [pc : {"off", "poll", "input"}, refreshes : 1 .. 3, mine : BOOLEAN]
<1>3. waiter' \in [Waiter -> Calls]
  <2>1. waiter \in [Waiter -> Calls]
    BY DEF Accounts!TypeOK, Accounts!MAX_QR_REFRESH_COUNT
  <2>2. ASSUME NEW s \in Waiter, Accounts!QrArrives(s) PROVE waiter' \in [Waiter -> Calls]
    <3>1. CASE waiter' = [w \in Waiter |-> IF w = s THEN [waiter[w] EXCEPT !.mine = FALSE] ELSE waiter[w]]
      <4>1. \A w \in Waiter : [waiter[w] EXCEPT !.mine = FALSE] \in Calls
        BY <2>1
      <4> HIDE DEF Calls
      <4> QED BY ONLY <2>1, <3>1, <4>1
    <3> QED BY <2>1, <2>2, <3>1 DEF Accounts!QrArrives
  <2>3. ASSUME NEW w \in Waiter, Accounts!Wait(w) PROVE waiter' \in [Waiter -> Calls]
    <3>1. waiter' \in {waiter, [waiter EXCEPT ![w] = [pc |-> "poll", refreshes |-> 1, mine |-> TRUE]]}
      BY <2>3 DEF Accounts!Wait
    <3>2. [pc |-> "poll", refreshes |-> 1, mine |-> TRUE] \in Calls
      OBVIOUS
    <3> HIDE DEF Calls
    <3> QED BY ONLY <2>1, <3>1, <3>2
  <2>4. ASSUME NEW w \in Waiter, Accounts!VerifyCode(w) PROVE waiter' \in [Waiter -> Calls]
    BY <2>1, <2>4 DEF Accounts!VerifyCode
  <2>5. ASSUME NEW w \in Waiter, Accounts!Refresh(w) PROVE waiter' \in [Waiter -> Calls]
    BY <2>1, <2>5 DEF Accounts!Refresh, Accounts!MAX_QR_REFRESH_COUNT
  <2>6. ASSUME NEW w \in Waiter, Accounts!WaitFails(w) PROVE waiter' \in [Waiter -> Calls]
    BY <2>1, <2>6 DEF Accounts!WaitFails, Accounts!EndOf, Accounts!Away
  <2> QED BY <2>1, <2>2, <2>3, <2>4, <2>5, <2>6 DEF Accounts!StartLogin, Accounts!LoginExpires
<1>4. Accounts!TypeOK'
  BY <1>1, <1>2, <1>3 DEF Accounts!TypeOK, Accounts!MAX_QR_REFRESH_COUNT
<1> QED BY <1>1, <1>4
    DEF OneCall, FilesAreNewest, MemoryIsNewestOrEmpty, Accounts!OneAccountPerUser,
        Accounts!ContextIsCurrent, Accounts!UserIn

-----------------------------------------------------------------------------
(* A login that is confirmed.                                               *)

LEMMA ConfirmedStep ==
    ASSUME AccountsInv, NEW w \in Waiter, NEW b \in Bot, NEW x \in User \cup {None},
           Accounts!Confirmed(w, b, x)
    PROVE  AccountsInv'
<1> USE WeixinAssumption DEF AccountsInv, WeixinAssumption
<1> DEFINE saved == Accounts!Saved(b, x)
           stale == Accounts!Stale(saved, b, x)
<1>1. /\ account' = [y \in Bot |-> IF y \in stale THEN None ELSE saved[y]]
      /\ index' = (index \cup {b}) \ stale
      /\ allowed' = [y \in Bot |-> IF y \in stale THEN {} ELSE allowed[y]]
      /\ tokenFile' = [y \in Bot |-> IF y \in stale THEN Accounts!NoTokens ELSE tokenFile[y]]
      /\ newest' = [y \in Bot |-> IF y \in stale THEN Accounts!NoTokens ELSE newest[y]]
      /\ \/ /\ tokens' = tokens
            /\ outdated' = outdated \cup {y \in stale : tokens[y] # Accounts!NoTokens}
         \/ /\ tokens' = [y \in Bot |-> IF y \in stale THEN Accounts!NoTokens ELSE tokens[y]]
            /\ outdated' = outdated
      /\ anonymous' = (anonymous \/ x = None)
      /\ UNCHANGED <<starting, running, out, issued>>
  BY DEF Accounts!Confirmed, Accounts!Without
<1>2. /\ saved \in [Bot -> User \cup {"nobody", None}]
      /\ x # None => saved[b] = x
      /\ \A y \in Bot \ {b} : saved[y] = account[y]
  <2> HIDE DEF saved, stale
  <2>1. Accounts!UserIn(account, b) \in User \cup {"nobody", None}
    BY DEF Accounts!UserIn, Accounts!TypeOK
  <2>2. account \in [Bot -> User \cup {"nobody", None}]
    BY DEF Accounts!TypeOK
  <2>3. PICK y \in User \cup {"nobody", None} : saved = [account EXCEPT ![b] = y] /\ (x # None => y = x)
    BY <2>1 DEF Accounts!Saved, saved
  <2>4. saved \in [Bot -> User \cup {"nobody", None}] /\ saved[b] = y
    BY <2>2, <2>3
  <2>5. \A z \in Bot \ {b} : saved[z] = account[z]
    BY <2>2, <2>3
  <2> QED BY <2>3, <2>4, <2>5
<1>3. stale \subseteq index \ {b} /\ stale \subseteq Bot
  BY DEF Accounts!Stale, Accounts!TypeOK
<1>4. Accounts!NoTokens \in [User -> 0 .. MaxTokens] /\ \A y \in User : Accounts!NoTokens[y] = 0
  BY DEF Accounts!NoTokens
<1>5. Accounts!TypeOK'
  <2>1. index' \subseteq Bot /\ running' \subseteq Bot /\ outdated' \subseteq Bot
    BY <1>1, <1>3 DEF Accounts!TypeOK
  <2>2. account' \in [Bot -> User \cup {"nobody", None}] /\ allowed' \in [Bot -> SUBSET User]
    BY <1>1, <1>2 DEF Accounts!TypeOK
  <2>3. {tokenFile', tokens', newest', issued'} \subseteq [Bot -> [User -> 0 .. MaxTokens]]
    <3>1. {tokenFile, tokens, newest, issued} \subseteq [Bot -> [User -> 0 .. MaxTokens]]
      BY DEF Accounts!TypeOK
    <3> HIDE DEF stale, saved
    <3> QED BY ONLY <1>1, <1>4, <3>1
  <2>4. /\ active' \in [Waiter -> {"fresh", "expired", None}] /\ starting' \subseteq Waiter
        /\ waiter' \in [Waiter -> [pc : {"off", "poll", "input"}, refreshes : 1 .. 3, mine : BOOLEAN]]
        /\ logins' \in 0 .. MaxLogins
    BY DEF Accounts!TypeOK, Accounts!Confirmed, Accounts!EndOf, Accounts!Away,
           Accounts!MAX_QR_REFRESH_COUNT
  <2> HIDE DEF stale, saved
  <2> QED BY <1>1, <2>1, <2>2, <2>3, <2>4 DEF Accounts!TypeOK, Accounts!MAX_QR_REFRESH_COUNT
<1>6. FilesAreNewest' /\ Accounts!ContextIsCurrent'
  <2> HIDE DEF stale, saved
  <2>1. outdated \subseteq outdated' BY <1>1
  <2>2. ASSUME NEW y \in running', y \notin outdated' PROVE tokens'[y] = newest'[y]
    <3>1. y \in Bot /\ tokens[y] = newest[y]
      BY <1>1, <2>1, <2>2 DEF Accounts!ContextIsCurrent, Accounts!TypeOK
    <3> QED BY ONLY <3>1, <1>1, <2>2
  <2> QED BY <1>1, <2>1, <2>2 DEF FilesAreNewest, Accounts!ContextIsCurrent
<1>7. MemoryIsNewestOrEmpty'
  <2> HIDE DEF stale, saved
  <2>1. SUFFICES ASSUME NEW y \in Bot, y \notin outdated', NEW z \in User
                 PROVE  tokens'[y][z] \in {0, newest'[y][z]}
    BY DEF MemoryIsNewestOrEmpty
  <2>2. tokens[y][z] \in {0, newest[y][z]}
    BY <1>1, <2>1 DEF MemoryIsNewestOrEmpty
  <2> QED BY ONLY <1>1, <1>4, <2>1, <2>2
<1>8. Accounts!OneAccountPerUser'
  <2>1. SUFFICES ASSUME ~anonymous', NEW c \in index', NEW d \in index', c # d,
                        Accounts!UserIn(account', c) \in User
                 PROVE  Accounts!UserIn(account', c) # Accounts!UserIn(account', d)
    BY DEF Accounts!OneAccountPerUser, Accounts!UserIn
  <2>2. ~anonymous /\ x \in User /\ x # None
    BY <1>1, <2>1
  <2>3. c \notin stale /\ d \notin stale /\ c \in Bot /\ d \in Bot
    BY <1>1, <2>1, <1>5 DEF Accounts!TypeOK
  <2>4. \A y \in {c, d} \ {b} : /\ y \in index /\ account'[y] = account[y]
                                /\ Accounts!UserIn(account', y) = Accounts!UserIn(account, y)
                                /\ Accounts!UserIn(saved, y) = Accounts!UserIn(account, y)
    BY <1>1, <1>2, <2>1, <2>3 DEF Accounts!UserIn
  <2>5. \A y \in {c, d} \ {b} : Accounts!UserIn(account', y) # x
    BY <2>2, <2>3, <2>4 DEF Accounts!Stale
  <2>6. Accounts!UserIn(account', b) = x
    <3>1. account'[b] = x BY <1>1, <1>2, <1>3, <2>2
    <3> QED BY <3>1, <2>2 DEF Accounts!UserIn
  <2> QED BY <2>1, <2>2, <2>4, <2>5, <2>6 DEF Accounts!OneAccountPerUser
<1> QED BY <1>1, <1>5, <1>6, <1>7, <1>8 DEF OneCall

-----------------------------------------------------------------------------
(* Accounts that run.                                                       *)

LEMMA StartAccountStep ==
    ASSUME AccountsInv, NEW b \in Bot, Accounts!StartAccount(b)
    PROVE  AccountsInv'
<1> USE WeixinAssumption DEF AccountsInv, WeixinAssumption
<1>1. /\ tokens' = [tokens EXCEPT ![b] = Accounts!Restored(b)]
      /\ running' \in {running, running \cup {b}}
      /\ UNCHANGED <<index, account, allowed, tokenFile, active, starting, waiter, logins, out,
                     newest, issued, outdated, anonymous>>
  BY DEF Accounts!StartAccount, Accounts!files, Accounts!login, Accounts!history
<1>2. /\ tokens \in [Bot -> [User -> 0 .. MaxTokens]] /\ tokenFile \in [Bot -> [User -> 0 .. MaxTokens]]
      /\ newest \in [Bot -> [User -> 0 .. MaxTokens]]
  BY DEF Accounts!TypeOK
<1>3. Accounts!Restored(b) \in [User -> 0 .. MaxTokens]
  BY <1>2 DEF Accounts!Restored
<1>4. b \notin outdated => Accounts!Restored(b) = newest[b]
  <2> SUFFICES ASSUME b \notin outdated PROVE Accounts!Restored(b) = newest[b]
    OBVIOUS
  <2>1. tokenFile[b] = newest[b] /\ \A y \in User : tokens[b][y] \in {0, newest[b][y]}
    BY DEF FilesAreNewest, MemoryIsNewestOrEmpty
  <2>2. \A y \in User : Accounts!Restored(b)[y] = newest[b][y]
    BY <2>1 DEF Accounts!Restored
  <2> QED BY ONLY <2>2, <1>2, <1>3
<1>5. Accounts!TypeOK'
  BY <1>1, <1>2, <1>3 DEF Accounts!TypeOK
<1>6. \A y \in Bot : tokens'[y] = IF y = b THEN Accounts!Restored(b) ELSE tokens[y]
  BY <1>1, <1>2
<1>7. MemoryIsNewestOrEmpty' /\ Accounts!ContextIsCurrent'
  BY <1>1, <1>4, <1>6 DEF MemoryIsNewestOrEmpty, Accounts!ContextIsCurrent, Accounts!TypeOK
<1> QED BY <1>1, <1>5, <1>7
    DEF OneCall, FilesAreNewest, Accounts!OneAccountPerUser, Accounts!UserIn

LEMMA MessageStep ==
    ASSUME AccountsInv, NEW b \in Bot, NEW x \in User, Accounts!MessageArrives(b, x)
    PROVE  AccountsInv'
<1> USE WeixinAssumption DEF AccountsInv, WeixinAssumption
<1>1. /\ b \in running /\ issued[b][x] < MaxTokens
      /\ issued' = [issued EXCEPT ![b][x] = @ + 1]
      /\ newest' = [newest EXCEPT ![b][x] = issued[b][x] + 1]
      /\ tokens' = [tokens EXCEPT ![b][x] = issued[b][x] + 1]
      /\ \/ tokenFile' = [tokenFile EXCEPT ![b] = tokens'[b]] /\ UNCHANGED outdated
         \/ tokenFile' = tokenFile /\ outdated' = outdated \cup {b}
      /\ UNCHANGED <<index, account, allowed, active, starting, waiter, logins, running, out, anonymous>>
  BY DEF Accounts!MessageArrives, Accounts!Persisted, Accounts!login
<1>2. /\ tokens \in [Bot -> [User -> 0 .. MaxTokens]] /\ tokenFile \in [Bot -> [User -> 0 .. MaxTokens]]
      /\ newest \in [Bot -> [User -> 0 .. MaxTokens]] /\ issued \in [Bot -> [User -> 0 .. MaxTokens]]
  BY DEF Accounts!TypeOK
<1>3. issued[b][x] + 1 \in 0 .. MaxTokens
  <2>1. issued[b][x] \in 0 .. MaxTokens /\ issued[b][x] < MaxTokens
    BY <1>1, <1>2
  <2> QED BY ONLY <2>1, WeixinAssumption DEF WeixinAssumption
<1>4. /\ tokens' \in [Bot -> [User -> 0 .. MaxTokens]] /\ issued' \in [Bot -> [User -> 0 .. MaxTokens]]
      /\ newest' \in [Bot -> [User -> 0 .. MaxTokens]]
  BY ONLY <1>1, <1>2, <1>3
<1>5. tokenFile' \in [Bot -> [User -> 0 .. MaxTokens]]
  BY <1>1, <1>2, <1>4
<1>6. Accounts!TypeOK'
  BY <1>1, <1>4, <1>5 DEF Accounts!TypeOK
<1>7. b \notin outdated => tokens'[b] = newest'[b]
  <2>1. b \notin outdated => tokens[b] = newest[b]
    BY <1>1 DEF Accounts!ContextIsCurrent
  <2> QED BY ONLY <2>1, <1>1, <1>2
<1>8. \A y \in Bot \ {b} : tokens'[y] = tokens[y] /\ newest'[y] = newest[y] /\ tokenFile'[y] = tokenFile[y]
  BY <1>1, <1>2
<1>9. b \notin outdated' => tokenFile'[b] = newest'[b]
  BY <1>1, <1>2, <1>7
<1>10. Accounts!ContextIsCurrent' /\ FilesAreNewest'
  <2>1. outdated \subseteq outdated' /\ running' = running /\ running \subseteq Bot
    BY <1>1 DEF Accounts!TypeOK
  <2> QED BY <1>7, <1>8, <1>9, <2>1 DEF FilesAreNewest, Accounts!ContextIsCurrent
<1>11. MemoryIsNewestOrEmpty'
  <2>1. SUFFICES ASSUME NEW y \in Bot, y \notin outdated', NEW z \in User
                 PROVE  tokens'[y][z] \in {0, newest'[y][z]}
    BY DEF MemoryIsNewestOrEmpty
  <2>2. y \notin outdated BY <1>1, <2>1
  <2>3. tokens[y][z] \in {0, newest[y][z]} BY <2>1, <2>2 DEF MemoryIsNewestOrEmpty
  <2> QED BY ONLY <1>7, <1>8, <2>1, <2>2, <2>3
<1> QED BY <1>1, <1>6, <1>10, <1>11 DEF OneCall, Accounts!OneAccountPerUser, Accounts!UserIn

\* Pairings, stops and restarts, and the sends outside a run.
LEMMA OtherAccountSteps ==
    ASSUME AccountsInv,
           \/ \E b \in Bot : Accounts!StopAccount(b) \/ \E x \in User : Accounts!Pair(b, x)
           \/ \E b \in Bot, x \in User, kind \in {"text", "media"}, named \in BOOLEAN :
                 Accounts!Send(b, x, kind, named)
           \/ Accounts!GatewayRestart \/ Accounts!HookEnds \/ Accounts!SendEnds
    PROVE  AccountsInv'
<1> USE WeixinAssumption DEF AccountsInv, WeixinAssumption
<1>1. UNCHANGED <<index, account, tokenFile, logins, newest, issued, outdated, anonymous>>
  BY DEF Accounts!StopAccount, Accounts!Pair, Accounts!Send, Accounts!GatewayRestart, Accounts!HookEnds,
         Accounts!SendEnds, Accounts!files, Accounts!login, Accounts!history
<1>2. /\ running' \subseteq running
      /\ tokens' = tokens \/ (running' = {} /\ tokens' = [b \in Bot |-> Accounts!NoTokens])
  BY DEF Accounts!StopAccount, Accounts!Pair, Accounts!Send, Accounts!GatewayRestart, Accounts!HookEnds,
         Accounts!SendEnds, Accounts!files, Accounts!login, Accounts!history
<1>3. OneCall' /\ out'.pc \in {"idle", "hook", "sending"}
  <2>1. DOMAIN out = {"pc", "bot", "to", "kind", "token"} /\ out.pc \in {"idle", "hook", "sending"}
    BY DEF OneCall, Accounts!TypeOK
  <2>2. CASE UNCHANGED out
    BY <2>1, <2>2 DEF OneCall
  <2>3. CASE out' = Accounts!Quiet
    BY <2>3 DEF OneCall, Accounts!Quiet
  <2>4. ASSUME NEW b \in Bot, NEW x \in User, NEW kind \in {"text", "media"}, NEW named \in BOOLEAN,
               Accounts!Send(b, x, kind, named)
        PROVE  OneCall' /\ out'.pc \in {"idle", "hook", "sending"}
    BY <2>4 DEF OneCall, Accounts!Send
  <2>5. CASE Accounts!HookEnds
    BY <2>1, <2>3, <2>5 DEF OneCall, Accounts!HookEnds
  <2> QED BY <2>2, <2>3, <2>4, <2>5
      DEF Accounts!StopAccount, Accounts!Pair, Accounts!GatewayRestart, Accounts!SendEnds
<1>4. allowed' \in [Bot -> SUBSET User]
  <2>1. allowed \in [Bot -> SUBSET User]
    BY DEF Accounts!TypeOK
  <2>2. ASSUME NEW b \in Bot, NEW x \in User, Accounts!Pair(b, x) PROVE allowed' \in [Bot -> SUBSET User]
    <3>1. allowed' = [allowed EXCEPT ![b] = @ \cup {x}]
      BY <2>2 DEF Accounts!Pair
    <3> QED BY ONLY <2>1, <3>1
  <2> QED BY <2>1, <2>2 DEF Accounts!StopAccount, Accounts!Pair, Accounts!Send, Accounts!GatewayRestart,
         Accounts!HookEnds, Accounts!SendEnds, Accounts!files
<1>5. tokens' \in [Bot -> [User -> 0 .. MaxTokens]]
  BY <1>2 DEF Accounts!TypeOK, Accounts!NoTokens
<1>6. /\ active' \in [Waiter -> {"fresh", "expired", None}] /\ starting' \subseteq Waiter
      /\ waiter' \in [Waiter -> [pc : {"off", "poll", "input"}, refreshes : 1 .. 3, mine : BOOLEAN]]
  <2>1. CASE Accounts!GatewayRestart
    BY <2>1 DEF Accounts!TypeOK, Accounts!GatewayRestart, Accounts!Away, Accounts!MAX_QR_REFRESH_COUNT
  <2>2. CASE UNCHANGED <<active, starting, waiter>>
    BY <2>2 DEF Accounts!TypeOK, Accounts!MAX_QR_REFRESH_COUNT
  <2> QED BY <2>1, <2>2 DEF Accounts!StopAccount, Accounts!Pair, Accounts!Send, Accounts!HookEnds,
                            Accounts!SendEnds, Accounts!login
<1>7. Accounts!TypeOK'
  BY <1>1, <1>2, <1>3, <1>4, <1>5, <1>6 DEF Accounts!TypeOK, Accounts!MAX_QR_REFRESH_COUNT
<1>8. MemoryIsNewestOrEmpty'
  BY <1>1, <1>2 DEF MemoryIsNewestOrEmpty, Accounts!NoTokens
<1>9. Accounts!ContextIsCurrent'
  BY <1>1, <1>2 DEF Accounts!ContextIsCurrent
<1> QED BY <1>1, <1>3, <1>7, <1>8, <1>9
    DEF FilesAreNewest, Accounts!OneAccountPerUser, Accounts!UserIn

LEMMA AccountsStart == ASSUME Accounts!Init PROVE AccountsInv
<1> USE WeixinAssumption DEF Accounts!Init, WeixinAssumption
<1>1. Accounts!NoTokens \in [User -> 0 .. MaxTokens] /\ \A x \in User : Accounts!NoTokens[x] = 0
  BY DEF Accounts!NoTokens
<1>2. Accounts!TypeOK
  BY <1>1 DEF Accounts!TypeOK, Accounts!Away, Accounts!Quiet, Accounts!MAX_QR_REFRESH_COUNT
<1>3. Accounts!OneAccountPerUser
  BY DEF Accounts!OneAccountPerUser, Accounts!UserIn
<1> QED BY <1>1, <1>2, <1>3
    DEF AccountsInv, OneCall, Accounts!Quiet, FilesAreNewest, MemoryIsNewestOrEmpty,
        Accounts!ContextIsCurrent

LEMMA AccountsStep == ASSUME AccountsInv, Accounts!Next PROVE AccountsInv'
BY LoginSteps, ConfirmedStep, StartAccountStep, MessageStep, OtherAccountSteps DEF Accounts!Next

-----------------------------------------------------------------------------
(* Sequences that grow at the end and shrink at the front.                  *)

LEMMA Appended ==
    ASSUME NEW S, NEW s \in Seq(S), NEW e \in S
    PROVE  /\ Append(s, e) \in Seq(S)
           /\ Len(Append(s, e)) = Len(s) + 1 /\ Len(s) \in Nat
           /\ DOMAIN s = 1 .. Len(s) /\ DOMAIN Append(s, e) = 1 .. Len(s) + 1
           /\ \A i \in DOMAIN s : Append(s, e)[i] = s[i]
           /\ Append(s, e)[Len(s) + 1] = e
OBVIOUS

LEMMA Rest ==
    ASSUME NEW S, NEW s \in Seq(S), s # <<>>
    PROVE  /\ Head(s) \in S /\ Head(s) = s[1] /\ Tail(s) \in Seq(S)
           /\ Len(s) \in Nat \ {0} /\ DOMAIN s = 1 .. Len(s) /\ DOMAIN Tail(s) = 1 .. Len(s) - 1
           /\ \A i \in DOMAIN Tail(s) : Tail(s)[i] = s[i + 1]
OBVIOUS

-----------------------------------------------------------------------------
(* What is sent.  Every step sends nothing or one item, of the message that *)
(* is processed, the head of the chain, or a notice.                        *)

\* The item e arrives, or not.
Arrives(e) == sent' = sent \/ sent' = Append(sent, e)

LEMMA ItemsAreTyped ==
    ASSUME DeliveryTyped, NEW what \in Whats, NEW r \in 1 .. MaxRuns,
           NEW d \in 0 .. 2 * MaxTools + MaxDeliveries
    PROVE  Delivery!Item(r, what, d) \in Delivery!Items
BY DEF Delivery!Item, Delivery!Items, Whats

LEMMA SentIsTyped ==
    ASSUME DeliveryTyped, NEW e \in Delivery!Items, Arrives(e)
    PROVE  /\ sent' \in Seq(Delivery!Items) /\ \A i \in DOMAIN sent' : sent'[i] \in Delivery!Items
           /\ \A i \in DOMAIN sent' : \/ i \in DOMAIN sent /\ sent'[i] = sent[i]
                                      \/ i = Len(sent) + 1 /\ sent'[i] = e /\ i \notin DOMAIN sent
           /\ DOMAIN sent \subseteq DOMAIN sent' /\ \A i \in DOMAIN sent : sent'[i] = sent[i]
           /\ sent' # sent => Len(sent) + 1 \in DOMAIN sent' /\ sent'[Len(sent) + 1] = e
           /\ DOMAIN sent' \subseteq Nat /\ \A i \in DOMAIN sent : i < Len(sent) + 1
<1>1. sent \in Seq(Delivery!Items)
  BY DEF DeliveryTyped
<1> HIDE DEF Delivery!Items
<1>2. CASE sent' = sent
  BY ONLY <1>1, <1>2
<1>3. CASE sent' = Append(sent, e)
  BY ONLY <1>1, <1>3, Appended
<1> QED BY <1>2, <1>3 DEF Arrives

-----------------------------------------------------------------------------
(* Steps before and after the run.                                          *)

LEMMA ReceiveStep ==
    ASSUME OutcomeInv, NEW from \in {"linked", "stranger"}, NEW kind \in {"chat", "echo", "toggle"},
           NEW token \in BOOLEAN, NEW media \in BOOLEAN, Delivery!Receive(from, kind, token, media)
    PROVE  OutcomeInv'
<1> USE WeixinAssumption DEF WeixinAssumption, OutcomeInv, ApartInv
<1>1. /\ step = "idle" /\ msg.n < MaxRuns
      /\ msg' = [n |-> msg.n + 1, from |-> from, kind |-> kind, token |-> token, media |-> media]
      /\ step' = "authorize" /\ outcome' = <<>> /\ noticed' = {} /\ sent' = <<>> /\ fetched' = FALSE
      /\ UNCHANGED <<replies, delivery, notices, sendChain, tool, finalized, errors>>
  BY DEF Delivery!Receive, Delivery!tools
<1>2. msg.n \in Nat /\ msg.n + 1 \in 1 .. MaxRuns /\ msg'.n = msg.n + 1
  BY <1>1 DEF DeliveryTyped
<1>3. sendChain = <<>> /\ delivery.at = "none"
  BY <1>1 DEF ChainIsOfTheRun, DeliveryTyped, Delivery!TypeOK
<1>4. Delivery!TypeOK'
  <2>1. /\ finalized \subseteq 1 .. msg'.n /\ errors \in 0 .. MaxErrors
        /\ delivery.at \in {"none", "hook", "fetch", "ask", "upload", "caption", "media", "text"}
        /\ \A i \in DOMAIN sendChain : sendChain[i] \in Delivery!Items /\ replies = <<>>
    BY <1>1, <1>2, <1>3 DEF DeliveryTyped, Delivery!TypeOK
  <2>2. replies = <<>>
    BY <1>1 DEF DeliveryTyped, Delivery!TypeOK
  <2> QED BY <1>1, <1>2, <1>3, <2>1, <2>2 DEF Delivery!TypeOK
<1>5. DeliveryTyped'
  BY <1>1, <1>2, <1>3, <1>4 DEF DeliveryTyped
<1>6. ChainIsOfTheRun' /\ SentPrecedesTheChain' /\ RunsKeepApart'
  BY <1>1, <1>3 DEF ChainIsOfTheRun, SentPrecedesTheChain, RunsKeepApart, Delivery!RunsKeepApart
<1>7. PartsAreOfAnswers' /\ AttemptsOfAnUpload' /\ OutcomeIsTrue'
  BY <1>1, <1>3 DEF PartsAreOfAnswers, AttemptsOfAnUpload, OutcomeIsTrue, Delivery!OutcomeIsTrue
<1> QED BY <1>5, <1>6, <1>7

-----------------------------------------------------------------------------
(* A step that sends no part of an answer leaves the answers as they are.   *)

LEMMA OtherItems ==
    ASSUME OutcomeInv, NEW e \in Delivery!Items, e.what \notin Delivery!Parts, Arrives(e),
           UNCHANGED <<msg, outcome, noticed, delivery>>
    PROVE  PartsAreOfAnswers' /\ AttemptsOfAnUpload' /\ OutcomeIsTrue'
<1> USE DEF OutcomeInv, ApartInv
<1>1. /\ \A i \in DOMAIN sent' : \/ i \in DOMAIN sent /\ sent'[i] = sent[i]
                                 \/ sent'[i] = e
      /\ DOMAIN sent \subseteq DOMAIN sent' /\ \A i \in DOMAIN sent : sent'[i] = sent[i]
  BY SentIsTyped
<1>2. \A i \in DOMAIN sent' : sent'[i].what \in Delivery!Parts => i \in DOMAIN sent /\ sent'[i] = sent[i]
  BY <1>1
<1>3. ASSUME NEW i, NEW what \in Delivery!Parts
      PROVE  Delivery!Arrived(what, i)' = Delivery!Arrived(what, i)
  <2>1. Delivery!Here(what, i)' = Delivery!Here(what, i) /\ Delivery!Here(what, i).what = what
    BY DEF Delivery!Here, Delivery!Item
  <2> QED BY <1>1, <1>2, <2>1 DEF Delivery!Arrived
<1>4. ASSUME NEW i PROVE Delivery!Got(i)' = Delivery!Got(i)
  BY <1>3 DEF Delivery!Got
<1>5. PartsAreOfAnswers' /\ AttemptsOfAnUpload'
  BY <1>2 DEF PartsAreOfAnswers, AttemptsOfAnUpload
<1>6. OutcomeIsTrue'
  <2>1. Delivery!ThisOne' = Delivery!ThisOne
    BY DEF Delivery!ThisOne
  <2>2. \A k, l \in DOMAIN sent' : k < l /\ {sent'[k].what, sent'[l].what} \subseteq Delivery!Parts
            => sent'[k].d < sent'[l].d
               \/ (sent'[k] = [sent'[l] EXCEPT !.what = "caption"] /\ sent'[l].what = "media")
    BY <1>2 DEF OutcomeIsTrue, Delivery!OutcomeIsTrue
  <2> QED BY <1>4, <2>1, <2>2 DEF OutcomeIsTrue, Delivery!OutcomeIsTrue
<1> QED BY <1>5, <1>6

-----------------------------------------------------------------------------
(* The steps that process a message.                                        *)

\* Where the message goes: a stranger's ends, no progress message is left
\* behind, and what is sent is a reply or, at the end, the times.
LEMMA ProcessMoves ==
    ASSUME OutcomeInv, Delivery!Process
    PROVE  /\ UNCHANGED <<msg, delivery, outcome, noticed, notices, sendChain, tool>>
           /\ delivery.at = "none" /\ step # "idle" /\ msg.n \in 1 .. MaxRuns
           /\ step' \in {"idle", "command", "download", "record", "run", "drain", "finish"}
           /\ sendChain # <<>> => step' = "drain"
           /\ msg.from = "stranger" => step' = "idle" /\ sent' = sent /\ fetched' = fetched
           /\ \/ Arrives(Delivery!Here("reply", 0))
              \/ Arrives(Delivery!Here("timing", 0)) /\ step' = "idle"
<1> USE DEF OutcomeInv, ApartInv
<1>1. UNCHANGED <<msg, delivery, outcome, noticed, notices, sendChain, tool>>
  BY DEF Delivery!Process, Delivery!Authorize, Delivery!CommandReply, Delivery!Downloaded,
         Delivery!Recorded, Delivery!RunEnds, Delivery!Drained, Delivery!Finish, Delivery!answers,
         Delivery!tools
<1>2. step # "idle" /\ msg.n \in 1 .. MaxRuns
  BY DEF DeliveryTyped, Delivery!Process, Delivery!Authorize, Delivery!CommandReply,
         Delivery!Downloaded, Delivery!Recorded, Delivery!RunEnds, Delivery!Drained, Delivery!Finish
<1>3. delivery.at = "none"
  BY DEF DeliveryTyped, Delivery!TypeOK, Delivery!Process, Delivery!Authorize, Delivery!CommandReply,
         Delivery!Downloaded, Delivery!Recorded, Delivery!RunEnds, Delivery!Drained, Delivery!Finish
<1>4. step' \in {"idle", "command", "download", "record", "run", "drain", "finish"}
  BY DEF Delivery!Process, Delivery!Authorize, Delivery!Begin, Delivery!CommandReply,
         Delivery!Downloaded, Delivery!Recorded, Delivery!RunEnds, Delivery!Ended, Delivery!Drained,
         Delivery!Finish
<1>5. sendChain # <<>> => step' = "drain"
  BY DEF ChainIsOfTheRun, Delivery!Process, Delivery!Authorize, Delivery!CommandReply,
         Delivery!Downloaded, Delivery!Recorded, Delivery!RunEnds, Delivery!Ended, Delivery!Drained,
         Delivery!Finish
<1>6. msg.from = "stranger" => step = "authorize"
  BY <1>2 DEF RunsKeepApart, Delivery!RunsKeepApart
<1>7. msg.from = "stranger" => step' = "idle" /\ sent' = sent /\ fetched' = fetched
  BY <1>6 DEF Delivery!Process, Delivery!Authorize, Delivery!CommandReply,
         Delivery!Downloaded, Delivery!Recorded, Delivery!RunEnds, Delivery!Drained, Delivery!Finish
<1>8. \/ Arrives(Delivery!Here("reply", 0))
      \/ Arrives(Delivery!Here("timing", 0)) /\ step' = "idle"
  BY DEF Arrives, Delivery!Process, Delivery!Authorize, Delivery!CommandReply,
         Delivery!Downloaded, Delivery!Recorded, Delivery!RunEnds, Delivery!Drained, Delivery!Finish,
         Delivery!Arrives, Delivery!Fails
<1> QED BY <1>1, <1>2, <1>3, <1>4, <1>5, <1>7, <1>8

LEMMA RepliesAreThere ==
    ASSUME NEW s \in {<<"echo", "timing">>, <<"timing">>, <<"toggled">>, <<"failed">>}
    PROVE  s \in Seq({"echo", "timing", "toggled", "failed"}) /\ s # <<>>
<1> DEFINE Replies == {"echo", "timing", "toggled", "failed"}
<1>1. \A a, b \in Replies : <<a>> \in Seq(Replies) /\ <<a, b>> \in Seq(Replies)
  OBVIOUS
<1>2. \A a, b \in Replies : Len(<<a>>) = 1 /\ Len(<<a, b>>) = 2
  OBVIOUS
<1>3. \A a, b \in Replies : <<a>> # <<>> /\ <<a, b>> # <<>>
  BY <1>2
<1> QED BY <1>1, <1>3

\* A command is under way as long as it has replies to send.
LEMMA ProcessTypes ==
    ASSUME OutcomeInv, Delivery!Process
    PROVE  /\ replies' \in Seq({"echo", "timing", "toggled", "failed"})
           /\ step' = "command" <=> replies' # <<>>
           /\ finalized' \subseteq 1 .. msg.n /\ errors' \in 0 .. MaxErrors
<1> USE WeixinAssumption DEF OutcomeInv, ApartInv
<1>1. replies \in Seq({"echo", "timing", "toggled", "failed"}) /\ (step = "command" <=> replies # <<>>)
  BY DEF DeliveryTyped, Delivery!TypeOK
<1>2. /\ replies' \in Seq({"echo", "timing", "toggled", "failed"})
      /\ step' = "command" <=> replies' # <<>>
  <2>1. CASE Delivery!Authorize
    <3>1. \/ step' = "command" /\ replies' \in {<<"echo", "timing">>, <<"timing">>, <<"toggled">>}
          \/ step' # "command" /\ replies' = replies
      BY <2>1 DEF Delivery!Authorize, Delivery!Begin
    <3>2. step # "command"
      BY <2>1 DEF Delivery!Authorize
    <3> QED BY <1>1, <3>1, <3>2, RepliesAreThere
  <2>2. CASE Delivery!CommandReply
    <3>1. replies # <<>> /\ replies' \in {Tail(replies), <<>>, <<"failed">>}
      BY <1>1, <2>2 DEF Delivery!CommandReply
    <3>2. Tail(replies) \in Seq({"echo", "timing", "toggled", "failed"})
      BY <1>1, <3>1
    <3>3. step' = (IF replies' = <<>> THEN "idle" ELSE "command")
      BY <2>2 DEF Delivery!CommandReply
    <3>4. <<>> \in Seq({"echo", "timing", "toggled", "failed"})
      OBVIOUS
    <3>5. <<"failed">> \in Seq({"echo", "timing", "toggled", "failed"})
      BY RepliesAreThere
    <3>6. replies' \in Seq({"echo", "timing", "toggled", "failed"})
      BY ONLY <3>1, <3>2, <3>4, <3>5
    <3> QED BY ONLY <3>3, <3>6
  <2>3. CASE step \notin {"authorize", "command"}
    BY <1>1, <2>3
    DEF Delivery!Process, Delivery!Authorize, Delivery!CommandReply, Delivery!Downloaded,
        Delivery!Recorded, Delivery!RunEnds, Delivery!Ended, Delivery!Drained, Delivery!Finish
  <2> QED BY <2>1, <2>2, <2>3
      DEF Delivery!Process, Delivery!Downloaded, Delivery!Recorded, Delivery!RunEnds, Delivery!Drained,
          Delivery!Finish
<1>3. finalized' \subseteq 1 .. msg.n
  <2>1. finalized \subseteq 1 .. msg.n /\ msg.n \in 1 .. MaxRuns
    BY ProcessMoves DEF DeliveryTyped, Delivery!TypeOK
  <2>2. finalized' \subseteq finalized \cup {msg.n}
    BY DEF Delivery!Process, Delivery!Authorize, Delivery!CommandReply, Delivery!Downloaded,
           Delivery!Recorded, Delivery!RunEnds, Delivery!Drained, Delivery!Finish, Delivery!tools
  <2> QED BY <2>1, <2>2
<1>4. errors' \in 0 .. MaxErrors
  <2>1. errors \in 0 .. MaxErrors
    BY DEF DeliveryTyped, Delivery!TypeOK
  <2>2. errors' = errors \/ (errors < MaxErrors /\ errors' = errors + 1)
    BY DEF Delivery!Process, Delivery!Authorize, Delivery!Begin, Delivery!CommandReply,
           Delivery!Downloaded, Delivery!Recorded, Delivery!RunEnds, Delivery!Drained,
           Delivery!Finish, Delivery!Arrives, Delivery!Fails, Delivery!Error, Delivery!tools
  <2> QED BY <2>1, <2>2 DEF WeixinAssumption
<1> QED BY <1>2, <1>3, <1>4

LEMMA ProcessStep ==
    ASSUME OutcomeInv, Delivery!Process
    PROVE  OutcomeInv'
<1> USE WeixinAssumption DEF OutcomeInv, ApartInv
<1>1. PICK e : /\ e \in {Delivery!Here("reply", 0), Delivery!Here("timing", 0)} /\ Arrives(e)
               /\ e.what = "timing" => step' = "idle"
  BY ProcessMoves DEF Delivery!Here, Delivery!Item
<1>2. /\ e \in Delivery!Items /\ e.what \in {"reply", "timing"} /\ e.run = msg.n
  <2>1. 0 \in 0 .. 2 * MaxTools + MaxDeliveries
    BY DEF WeixinAssumption
  <2> QED BY <1>1, <2>1, ProcessMoves, ItemsAreTyped DEF Delivery!Here, Delivery!Item, Whats
<1>3. PartsAreOfAnswers' /\ AttemptsOfAnUpload' /\ OutcomeIsTrue'
  BY <1>1, <1>2, ProcessMoves, OtherItems DEF Delivery!Parts
<1>4. DeliveryTyped'
  <2>1. sent' \in Seq(Delivery!Items) /\ \A i \in DOMAIN sent' : sent'[i] \in Delivery!Items
    BY <1>1, <1>2, SentIsTyped
  <2>2. Delivery!TypeOK'
    <3>1. /\ delivery.at = "none" /\ UNCHANGED <<msg, delivery, outcome, sendChain>>
          /\ step' \in {"idle", "authorize", "command", "download", "record", "run", "drain", "finish"}
      BY ProcessMoves
    <3> QED BY <2>1, <3>1, ProcessTypes DEF DeliveryTyped, Delivery!TypeOK
  <2> HIDE DEF Delivery!Items
  <2> QED BY <2>1, <2>2, ProcessMoves, ProcessTypes DEF DeliveryTyped
<1>5. /\ \A i \in DOMAIN sent' : \/ i \in DOMAIN sent /\ sent'[i] = sent[i]
                                 \/ i = Len(sent) + 1 /\ sent'[i] = e /\ i \notin DOMAIN sent
  BY <1>1, <1>2, SentIsTyped
<1>6. ChainIsOfTheRun'
  BY ProcessMoves DEF ChainIsOfTheRun
<1>7. SentPrecedesTheChain'
  <2>1. \A i \in DOMAIN sent : sent[i].what # "timing"
    BY ProcessMoves DEF SentPrecedesTheChain
  <2> QED BY <1>1, <1>2, <1>5, <2>1, ProcessMoves DEF SentPrecedesTheChain
<1>8. RunsKeepApart'
  <2>1. \A i \in DOMAIN sent' : sent'[i].what # "notice" => sent'[i].run = msg'.n
    BY <1>2, <1>5, ProcessMoves DEF RunsKeepApart, Delivery!RunsKeepApart
  <2>2. \A i, j \in DOMAIN sent' :
          (i < j /\ sent'[j].what = "tool")
            => (sent'[i].what # "timing" /\ (sent'[i].what = "tool" => sent'[i].d < sent'[j].d))
    <3>1. \A i \in DOMAIN sent' : \A j \in DOMAIN sent : i < j => i \in DOMAIN sent
      <4>1. \A j \in DOMAIN sent : j < Len(sent) + 1
        BY <1>1, <1>2, SentIsTyped
      <4>2. DOMAIN sent \subseteq Nat /\ Len(sent) \in Nat
        BY DEF DeliveryTyped
      <4> QED BY ONLY <1>5, <4>1, <4>2
    <3> QED BY <1>2, <1>5, <3>1 DEF RunsKeepApart, Delivery!RunsKeepApart
  <2>3. msg'.from = "stranger" => /\ \A i \in DOMAIN sent' : sent'[i].what = "notice"
                                  /\ step' \in {"idle", "authorize"} /\ ~fetched'
    BY ProcessMoves DEF RunsKeepApart, Delivery!RunsKeepApart
  <2>4. step' = "idle" => sendChain' = <<>>
    BY ProcessMoves
  <2> QED BY <2>1, <2>2, <2>3, <2>4 DEF RunsKeepApart, Delivery!RunsKeepApart
<1> QED BY <1>3, <1>4, <1>6, <1>7, <1>8

-----------------------------------------------------------------------------
(* The progress of tools and the notices.                                   *)

LEMMA ToolStep ==
    ASSUME OutcomeInv, NEW r \in 1 .. MaxRuns, Delivery!ToolEvent(r)
    PROVE  OutcomeInv'
<1> USE WeixinAssumption DEF OutcomeInv, ApartInv
<1> DEFINE e == Delivery!Item(r, "tool", tool[r] + 1)
<1>1. /\ tool[r] < 2 * MaxTools /\ (r \in finalized \/ (r = msg.n /\ step = "run"))
      /\ tool' = [tool EXCEPT ![r] = @ + 1]
      /\ sendChain' = (IF r \notin finalized THEN Append(sendChain, e) ELSE sendChain)
      /\ UNCHANGED <<step, msg, replies, delivery, outcome, noticed, notices, finalized, sent,
                     fetched, errors>>
  BY DEF Delivery!ToolEvent, Delivery!Taken, Delivery!message, Delivery!answers
<1>2. /\ tool \in [1 .. MaxRuns -> 0 .. 2 * MaxTools] /\ tool[r] + 1 \in 0 .. 2 * MaxTools
      /\ tool[r] + 1 \in 0 .. 2 * MaxTools + MaxDeliveries
  <2>1. tool \in [1 .. MaxRuns -> 0 .. 2 * MaxTools]
    BY DEF DeliveryTyped
  <2>2. tool[r] \in 0 .. 2 * MaxTools /\ tool[r] < 2 * MaxTools
    BY ONLY <1>1, <2>1
  <2>3. tool[r] + 1 \in 0 .. 2 * MaxTools /\ tool[r] + 1 \in 0 .. 2 * MaxTools + MaxDeliveries
    BY ONLY <2>2, WeixinAssumption DEF WeixinAssumption
  <2> QED BY <2>1, <2>3
<1>3. e \in Delivery!Items /\ e.run = r /\ e.what = "tool" /\ e.d = tool[r] + 1
  BY <1>2, ItemsAreTyped DEF Delivery!Item, Whats
<1>4. sendChain \in Seq(Delivery!Items)
  BY DEF DeliveryTyped
<1>5. /\ sendChain' \in Seq(Delivery!Items) /\ DOMAIN sendChain \subseteq DOMAIN sendChain'
      /\ \A k \in DOMAIN sendChain' : \/ k \in DOMAIN sendChain /\ sendChain'[k] = sendChain[k]
                                      \/ /\ k = Len(sendChain) + 1 /\ sendChain'[k] = e
                                         /\ r = msg.n /\ step = "run"
      /\ Len(sendChain) \in Nat /\ DOMAIN sendChain = 1 .. Len(sendChain)
  <2> HIDE DEF e, Delivery!Items
  <2>1. CASE r \notin finalized
    BY ONLY <1>1, <1>3, <1>4, <2>1, Appended
  <2>2. CASE r \in finalized
    BY ONLY <1>1, <1>4, <2>2
  <2> QED BY <2>1, <2>2
<1>6. tool' \in [1 .. MaxRuns -> 0 .. 2 * MaxTools] /\ tool'[r] = tool[r] + 1
      /\ \A x \in 1 .. MaxRuns : tool[x] <= tool'[x]
  BY <1>1, <1>2
<1>7. PartsAreOfAnswers' /\ AttemptsOfAnUpload' /\ OutcomeIsTrue'
  BY <1>1, <1>3, OtherItems DEF Arrives, Delivery!Parts
<1>8. DeliveryTyped'
  <2>1. \A i \in DOMAIN sendChain' : sendChain'[i] \in Delivery!Items
    BY <1>5
  <2>2. Delivery!TypeOK'
    BY <1>1, <2>1 DEF DeliveryTyped, Delivery!TypeOK
  <2> HIDE DEF Delivery!Items
  <2> QED BY <1>1, <1>5, <1>6, <2>2 DEF DeliveryTyped
<1>9. sendChain' # <<>> => msg.n \in 1 .. MaxRuns /\ step \in {"run", "drain"}
  <2>1. sendChain' # sendChain => step = "run"
    BY <1>1
  <2> QED BY <2>1 DEF ChainIsOfTheRun, DeliveryTyped
<1>10. \A k \in DOMAIN sendChain : sendChain[k].d <= tool[msg.n] /\ sendChain[k].d \in Nat
  BY <1>4 DEF ChainIsOfTheRun, Delivery!Items, DeliveryTyped, Delivery!TypeOK
<1>11. ChainIsOfTheRun'
  <2>1. \A k \in DOMAIN sendChain' : /\ sendChain'[k].run = msg.n /\ sendChain'[k].what = "tool"
    BY <1>3, <1>5 DEF ChainIsOfTheRun
  <2>2. \A k \in DOMAIN sendChain' : sendChain'[k].d <= tool'[msg.n]
    <3>1. SUFFICES ASSUME NEW k \in DOMAIN sendChain' PROVE sendChain'[k].d <= tool'[msg.n]
      OBVIOUS
    <3>2. msg.n \in 1 .. MaxRuns
      <4>1. sendChain' # <<>> BY <1>5, <3>1
      <4> QED BY <1>9, <4>1
    <3>3. tool[msg.n] <= tool'[msg.n] /\ tool[msg.n] \in Nat /\ tool'[msg.n] \in Nat
      BY <1>2, <1>6, <3>2
    <3>4. CASE k \in DOMAIN sendChain /\ sendChain'[k] = sendChain[k]
      BY <1>10, <3>3, <3>4
    <3>5. CASE sendChain'[k] = e /\ r = msg.n
      BY <1>3, <1>6, <3>3, <3>5
    <3> QED BY <1>5, <3>4, <3>5
  <2>3. \A k, l \in DOMAIN sendChain' : k < l => sendChain'[k].d < sendChain'[l].d
    <3>1. SUFFICES ASSUME NEW k \in DOMAIN sendChain', NEW l \in DOMAIN sendChain', k < l
                   PROVE  sendChain'[k].d < sendChain'[l].d
      OBVIOUS
    <3>2. CASE l \in DOMAIN sendChain
      <4>1. k \in DOMAIN sendChain /\ sendChain'[k] = sendChain[k] /\ sendChain'[l] = sendChain[l]
        <5>1. l \in 1 .. Len(sendChain) /\ k \in 1 .. Len(sendChain) + 1
          BY ONLY <1>5, <3>2
        <5>2. k # Len(sendChain) + 1 /\ l # Len(sendChain) + 1
          BY ONLY <1>5, <3>1, <5>1
        <5> QED BY <1>5, <5>2
      <4>2. \A a, b \in DOMAIN sendChain : a < b => sendChain[a].d < sendChain[b].d
        BY DEF ChainIsOfTheRun
      <4> QED BY ONLY <3>1, <3>2, <4>1, <4>2
    <3>3. CASE sendChain'[l] = e /\ r = msg.n /\ l = Len(sendChain) + 1
      <4>1. k \in DOMAIN sendChain /\ sendChain'[k] = sendChain[k]
        BY ONLY <1>5, <3>1, <3>3
      <4> QED BY <1>2, <1>3, <1>10, <3>3, <4>1
    <3> QED BY <1>5, <3>2, <3>3
  <2> QED BY <1>1, <1>9, <2>1, <2>2, <2>3 DEF ChainIsOfTheRun
<1>12. SentPrecedesTheChain'
  <2>1. ASSUME NEW i \in DOMAIN sent, sent[i].what = "tool"
        PROVE  sent[i].d <= tool'[msg.n] /\ \A k \in DOMAIN sendChain' : sent[i].d < sendChain'[k].d
    <3>1. sent[i].d <= tool[msg.n] /\ sent[i].d \in Nat /\ sent[i].run = msg.n /\ sent[i].run \in 1 .. MaxRuns
      <4>1. sent[i] \in Delivery!Items
        BY DEF DeliveryTyped, Delivery!TypeOK
      <4>2. sent[i].d \in Nat /\ sent[i].run \in 1 .. MaxRuns
        BY <4>1 DEF Delivery!Items
      <4> QED BY <2>1, <4>2 DEF SentPrecedesTheChain, RunsKeepApart, Delivery!RunsKeepApart
    <3>2. tool[msg.n] <= tool'[msg.n] /\ tool[msg.n] \in Nat /\ tool'[msg.n] \in Nat
      BY <1>2, <1>6, <3>1
    <3>3. ASSUME NEW k \in DOMAIN sendChain' PROVE sent[i].d < sendChain'[k].d
      <4>1. CASE k \in DOMAIN sendChain /\ sendChain'[k] = sendChain[k]
        BY <2>1, <4>1 DEF SentPrecedesTheChain
      <4>2. CASE sendChain'[k] = e /\ r = msg.n
        BY <1>3, <3>1, <3>2, <4>2
      <4> QED BY <1>5, <4>1, <4>2
    <3> QED BY <3>1, <3>2, <3>3
  <2> QED BY <1>1, <2>1 DEF SentPrecedesTheChain
<1>13. RunsKeepApart'
  <2>1. step = "idle" => sendChain' = <<>>
    BY <1>9
  <2> QED BY <1>1, <2>1 DEF RunsKeepApart, Delivery!RunsKeepApart
<1> QED BY <1>7, <1>8, <1>11, <1>12, <1>13

\* The head of the chain is sent: the rest still comes after it.
LEMMA ProgressStep ==
    ASSUME OutcomeInv, Delivery!ProgressSends
    PROVE  OutcomeInv'
<1> USE WeixinAssumption DEF OutcomeInv, ApartInv
<1> DEFINE e == Head(sendChain)
<1>1. /\ sendChain # <<>> /\ sendChain' = Tail(sendChain) /\ Arrives(e)
      /\ errors' = errors \/ (errors < MaxErrors /\ errors' = errors + 1)
      /\ UNCHANGED <<step, msg, replies, delivery, outcome, noticed, notices, tool, finalized, fetched>>
  BY DEF Delivery!ProgressSends, Delivery!Arrives, Delivery!Fails, Delivery!Error, Delivery!message,
         Delivery!answers, Arrives
<1>2. sendChain \in Seq(Delivery!Items)
  BY DEF DeliveryTyped
<1>3. /\ e \in Delivery!Items /\ e = sendChain[1] /\ 1 \in DOMAIN sendChain
      /\ sendChain' \in Seq(Delivery!Items)
      /\ \A k \in DOMAIN sendChain' : /\ k \in Nat /\ k + 1 \in DOMAIN sendChain /\ 1 < k + 1
                                      /\ sendChain'[k] = sendChain[k + 1]
  <2> HIDE DEF Delivery!Items
  <2> QED BY ONLY <1>1, <1>2, Rest
<1>4. e.run = msg.n /\ e.what = "tool" /\ e.d <= tool[msg.n] /\ step \in {"run", "drain"}
  BY <1>1, <1>3 DEF ChainIsOfTheRun
<1>5. msg.n \in 1 .. MaxRuns /\ msg.from # "stranger"
  BY <1>4 DEF DeliveryTyped, RunsKeepApart, Delivery!RunsKeepApart
<1>6. /\ \A i \in DOMAIN sent' : \/ i \in DOMAIN sent /\ sent'[i] = sent[i]
                                 \/ i = Len(sent) + 1 /\ sent'[i] = e /\ i \notin DOMAIN sent
      /\ sent' \in Seq(Delivery!Items) /\ \A i \in DOMAIN sent' : sent'[i] \in Delivery!Items
      /\ \A i \in DOMAIN sent : i < Len(sent) + 1
      /\ DOMAIN sent \subseteq Nat /\ Len(sent) \in Nat
  BY <1>1, <1>3, SentIsTyped DEF DeliveryTyped
<1>7. PartsAreOfAnswers' /\ AttemptsOfAnUpload' /\ OutcomeIsTrue'
  BY <1>1, <1>3, <1>4, OtherItems DEF Delivery!Parts
<1>8. DeliveryTyped'
  <2>1. errors' \in 0 .. MaxErrors
    BY <1>1 DEF DeliveryTyped, Delivery!TypeOK, WeixinAssumption
  <2>2. \A i \in DOMAIN sendChain' : sendChain'[i] \in Delivery!Items
    BY <1>3
  <2>3. Delivery!TypeOK'
    BY <1>1, <1>6, <2>1, <2>2 DEF DeliveryTyped, Delivery!TypeOK
  <2> HIDE DEF Delivery!Items
  <2> QED BY <1>1, <1>3, <1>6, <2>3 DEF DeliveryTyped
<1>9. ChainIsOfTheRun'
  <2>1. \A k, l \in DOMAIN sendChain : k < l => sendChain[k].d < sendChain[l].d
    BY DEF ChainIsOfTheRun
  <2>2. \A k, l \in DOMAIN sendChain' : k < l => sendChain'[k].d < sendChain'[l].d
    BY ONLY <1>3, <2>1
  <2> QED BY <1>1, <1>3, <1>4, <2>2 DEF ChainIsOfTheRun
<1>10. \A k \in DOMAIN sendChain' : e.d < sendChain'[k].d
  BY <1>3 DEF ChainIsOfTheRun
<1>11. \A i \in DOMAIN sent : sent[i].what # "timing" /\ (sent[i].what = "tool" => sent[i].d < e.d)
  BY <1>3, <1>4 DEF SentPrecedesTheChain
<1>12. SentPrecedesTheChain'
  <2>1. \A i \in DOMAIN sent' : sent'[i].what # "timing"
    BY <1>4, <1>6, <1>11
  <2>2. ASSUME NEW i \in DOMAIN sent', sent'[i].what = "tool"
        PROVE  sent'[i].d <= tool[msg.n] /\ \A k \in DOMAIN sendChain' : sent'[i].d < sendChain'[k].d
    <3>1. CASE sent'[i] = e
      BY <1>4, <1>10, <3>1
    <3>2. CASE i \in DOMAIN sent /\ sent'[i] = sent[i]
      BY <1>3, <2>2, <3>2 DEF SentPrecedesTheChain
    <3> QED BY <1>6, <3>1, <3>2
  <2> QED BY <1>1, <2>1, <2>2 DEF SentPrecedesTheChain
<1>13. RunsKeepApart'
  <2>1. \A i \in DOMAIN sent' : sent'[i].what # "notice" => sent'[i].run = msg'.n
    BY <1>1, <1>4, <1>6 DEF RunsKeepApart, Delivery!RunsKeepApart
  <2>2. ASSUME NEW i \in DOMAIN sent', NEW j \in DOMAIN sent', i < j, sent'[j].what = "tool"
        PROVE  sent'[i].what # "timing" /\ (sent'[i].what = "tool" => sent'[i].d < sent'[j].d)
    <3>1. i \in DOMAIN sent /\ sent'[i] = sent[i]
      <4>1. i # Len(sent) + 1
        BY ONLY <1>6, <2>2
      <4> QED BY <1>6, <4>1
    <3>2. CASE j \in DOMAIN sent /\ sent'[j] = sent[j]
      BY <2>2, <3>1, <3>2 DEF RunsKeepApart, Delivery!RunsKeepApart
    <3>3. CASE sent'[j] = e
      BY <1>11, <3>1, <3>3
    <3> QED BY <1>6, <3>2, <3>3
  <2> QED BY <1>1, <1>4, <1>5, <2>1, <2>2 DEF RunsKeepApart, Delivery!RunsKeepApart
<1> QED BY <1>7, <1>8, <1>9, <1>12, <1>13

\* A notice may be late: it may be of an earlier run.
LEMMA NoticeStep ==
    ASSUME OutcomeInv, NEW x \in notices, Delivery!NoticeSends(x)
    PROVE  OutcomeInv'
<1> USE WeixinAssumption DEF OutcomeInv, ApartInv
<1> DEFINE e == Delivery!Item(x.run, "notice", x.d)
<1>1. /\ notices' = notices \ {x} /\ Arrives(e)
      /\ errors' = errors \/ (errors < MaxErrors /\ errors' = errors + 1)
      /\ UNCHANGED <<step, msg, replies, delivery, outcome, noticed, sendChain, tool, finalized, fetched>>
  BY DEF Delivery!NoticeSends, Delivery!Arrives, Delivery!Fails, Delivery!Error, Delivery!Unmoved,
         Delivery!message, Delivery!tools, Arrives
<1>2. e \in Delivery!Items /\ e.what = "notice"
  <2>1. x.run \in 1 .. MaxRuns /\ x.d \in 0 .. 2 * MaxTools + MaxDeliveries
    <3>1. x.run \in 1 .. MaxRuns /\ x.d \in 1 .. MaxDeliveries
      BY DEF DeliveryTyped
    <3>2. \A d \in 1 .. MaxDeliveries : d \in 0 .. 2 * MaxTools + MaxDeliveries
      BY ONLY WeixinAssumption DEF WeixinAssumption
    <3> QED BY ONLY <3>1, <3>2
  <2> QED BY <2>1, ItemsAreTyped DEF Delivery!Item, Whats
<1>3. /\ \A i \in DOMAIN sent' : \/ i \in DOMAIN sent /\ sent'[i] = sent[i]
                                 \/ i = Len(sent) + 1 /\ sent'[i] = e /\ i \notin DOMAIN sent
      /\ sent' \in Seq(Delivery!Items) /\ \A i \in DOMAIN sent' : sent'[i] \in Delivery!Items
      /\ \A i \in DOMAIN sent : i < Len(sent) + 1
      /\ DOMAIN sent \subseteq Nat /\ Len(sent) \in Nat
  BY <1>1, <1>2, SentIsTyped DEF DeliveryTyped
<1>4. PartsAreOfAnswers' /\ AttemptsOfAnUpload' /\ OutcomeIsTrue'
  BY <1>1, <1>2, OtherItems DEF Delivery!Parts
<1>5. DeliveryTyped'
  <2>1. errors' \in 0 .. MaxErrors
    BY <1>1 DEF DeliveryTyped, Delivery!TypeOK, WeixinAssumption
  <2>2. Delivery!TypeOK'
    BY <1>1, <1>3, <2>1 DEF DeliveryTyped, Delivery!TypeOK
  <2> HIDE DEF Delivery!Items
  <2> QED BY <1>1, <1>3, <2>2 DEF DeliveryTyped
<1>6. ChainIsOfTheRun' /\ SentPrecedesTheChain'
  BY <1>1, <1>2, <1>3 DEF ChainIsOfTheRun, SentPrecedesTheChain
<1>7. RunsKeepApart'
  <2>1. \A i \in DOMAIN sent' : sent'[i].what # "notice" => sent'[i].run = msg'.n
    BY <1>1, <1>2, <1>3 DEF RunsKeepApart, Delivery!RunsKeepApart
  <2>2. ASSUME NEW i \in DOMAIN sent', NEW j \in DOMAIN sent', i < j, sent'[j].what = "tool"
        PROVE  sent'[i].what # "timing" /\ (sent'[i].what = "tool" => sent'[i].d < sent'[j].d)
    <3>1. j \in DOMAIN sent /\ sent'[j] = sent[j]
      BY <1>2, <1>3, <2>2
    <3>2. i \in DOMAIN sent /\ sent'[i] = sent[i]
      <4>1. i # Len(sent) + 1
        BY ONLY <1>3, <2>2, <3>1
      <4> QED BY <1>3, <4>1
    <3> QED BY <2>2, <3>1, <3>2 DEF RunsKeepApart, Delivery!RunsKeepApart
  <2> QED BY <1>1, <1>2, <1>3, <2>1, <2>2 DEF RunsKeepApart, Delivery!RunsKeepApart
<1> QED BY <1>4, <1>5, <1>6, <1>7

-----------------------------------------------------------------------------
(* The answers.                                                             *)

\* A step of an answer leaves the message and the progress of tools alone, and
\* is made while the run is under way.
LEMMA AnswerSteps ==
    ASSUME OutcomeInv,
           \/ \E kind \in {"text", "odd", "local", "remote"}, caption \in BOOLEAN :
                 Delivery!Deliver(kind, caption)
           \/ Delivery!Hook \/ Delivery!Prepare \/ Delivery!Upload \/ Delivery!SendAnswer
    PROVE  /\ UNCHANGED <<step, msg, replies, sendChain, tool, finalized, fetched>>
           /\ step = "run" /\ msg.n \in 1 .. MaxRuns /\ msg.from # "stranger"
           /\ errors' \in 0 .. MaxErrors
<1> USE DEF OutcomeInv, ApartInv
<1>1. UNCHANGED <<step, msg, replies, sendChain, tool, finalized, fetched>>
  BY DEF Delivery!Deliver, Delivery!Hook, Delivery!Prepare, Delivery!Upload, Delivery!SendAnswer,
         Delivery!Unmoved, Delivery!message, Delivery!tools
<1>2. step = "run"
  BY DEF DeliveryTyped, Delivery!TypeOK, Delivery!Deliver, Delivery!Hook, Delivery!Prepare,
         Delivery!Upload, Delivery!SendAnswer
<1>3. msg.n \in 1 .. MaxRuns /\ msg.from # "stranger"
  BY <1>2 DEF DeliveryTyped, RunsKeepApart, Delivery!RunsKeepApart
<1>4. errors' \in 0 .. MaxErrors
  <2>1. errors' = errors \/ (errors < MaxErrors /\ errors' = errors + 1)
    BY DEF Delivery!Deliver, Delivery!Hook, Delivery!Prepare, Delivery!Upload, Delivery!SendAnswer,
           Delivery!Arrives, Delivery!Fails, Delivery!Error
  <2>2. errors \in 0 .. MaxErrors
    BY DEF DeliveryTyped, Delivery!TypeOK
  <2> QED BY <2>1, <2>2, WeixinAssumption DEF WeixinAssumption
<1> QED BY <1>1, <1>2, <1>3, <1>4

\* What an answer may change: its request while it is on its way, or it ends
\* with a result; if it failed, a notice is sent off.
OnItsWay(d) ==
    /\ delivery' = d /\ UNCHANGED <<outcome, noticed, notices>>
    /\ d.at # "none" /\ Len(outcome) < MaxDeliveries
Over(result) ==
    /\ delivery' = Delivery!NoDelivery /\ outcome' = Append(outcome, result)
    /\ result \in {"sent", "failed", "cancelled"} /\ Len(outcome) < MaxDeliveries
    /\ noticed' = (IF result = "failed" THEN noticed \cup {Len(outcome) + 1} ELSE noticed)
    /\ notices' = notices \/ \E y : /\ notices' = notices \cup {y}
                                    /\ y.run = msg.n /\ y.d = Len(outcome) + 1

Requests == [at : Stages, kind : {"text", "odd", "local", "remote"}, caption : BOOLEAN,
             tries : Seq(Attempts)]

\* Steps of an answer keep the types, whatever is sent.
LEMMA AnswersStayTyped ==
    ASSUME OutcomeInv, NEW e \in Delivery!Items, Arrives(e),
           UNCHANGED <<step, msg, replies, sendChain, tool, finalized, fetched>>,
           step = "run", msg.n \in 1 .. MaxRuns, errors' \in 0 .. MaxErrors,
           \/ \E d \in Requests : OnItsWay(d)
           \/ \E result \in {"sent", "failed", "cancelled"} : Over(result)
    PROVE  DeliveryTyped'
<1> USE WeixinAssumption DEF OutcomeInv, ApartInv
<1>1. sent' \in Seq(Delivery!Items) /\ \A i \in DOMAIN sent' : sent'[i] \in Delivery!Items
  BY SentIsTyped
<1>2. delivery' \in Requests
  <2>1. Delivery!NoDelivery \in Requests
    BY DEF Delivery!NoDelivery, Requests, Stages
  <2> QED BY <2>1 DEF OnItsWay, Over
<1>3. outcome \in Seq({"sent", "failed", "cancelled"}) /\ Len(outcome) <= MaxDeliveries
  BY DEF DeliveryTyped
<1>4. /\ outcome' \in Seq({"sent", "failed", "cancelled"}) /\ Len(outcome') <= MaxDeliveries
      /\ delivery'.at # "none" => Len(outcome') < MaxDeliveries
  <2>1. CASE \E d \in Requests : OnItsWay(d)
    BY <1>3, <2>1 DEF OnItsWay
  <2>2. ASSUME NEW result \in {"sent", "failed", "cancelled"}, Over(result)
        PROVE  /\ outcome' \in Seq({"sent", "failed", "cancelled"}) /\ Len(outcome') <= MaxDeliveries
               /\ delivery'.at # "none" => Len(outcome') < MaxDeliveries
    <3>1. outcome' = Append(outcome, result) /\ Len(outcome) < MaxDeliveries
          /\ delivery'.at = "none"
      BY <2>2 DEF Over, Delivery!NoDelivery
    <3>2. outcome' \in Seq({"sent", "failed", "cancelled"}) /\ Len(outcome') = Len(outcome) + 1
      BY ONLY <1>3, <3>1, Appended
    <3> QED BY ONLY <1>3, <3>1, <3>2, WeixinAssumption DEF WeixinAssumption
  <2> QED BY <2>1, <2>2
<1>5. \A y \in notices' : y.run \in 1 .. MaxRuns /\ y.d \in 1 .. MaxDeliveries
  <2>1. \A y \in notices : y.run \in 1 .. MaxRuns /\ y.d \in 1 .. MaxDeliveries
    BY DEF DeliveryTyped
  <2>2. Len(outcome) < MaxDeliveries => Len(outcome) + 1 \in 1 .. MaxDeliveries
    BY <1>3 DEF WeixinAssumption
  <2> QED BY <2>1, <2>2 DEF OnItsWay, Over
<1>6. Delivery!TypeOK'
  <2>1. \A i \in DOMAIN outcome' : outcome'[i] \in {"sent", "failed", "cancelled"}
    BY <1>4
  <2>2. delivery'.at \in {"none", "hook", "fetch", "ask", "upload", "caption", "media", "text"}
    BY <1>2 DEF Requests, Stages
  <2> QED BY <1>1, <2>1, <2>2 DEF DeliveryTyped, Delivery!TypeOK
<1> HIDE DEF Delivery!Items
<1> QED BY <1>1, <1>2, <1>4, <1>5, <1>6 DEF DeliveryTyped, Requests

\* They keep the runs apart: what is sent is a part of an answer of this run.
LEMMA AnswersStayApart ==
    ASSUME OutcomeInv, NEW e \in Delivery!Items, Arrives(e), e.run = msg.n, e.what \in Delivery!Parts,
           UNCHANGED <<step, msg, sendChain, tool, fetched>>,
           step = "run", msg.from # "stranger"
    PROVE  ChainIsOfTheRun' /\ SentPrecedesTheChain' /\ RunsKeepApart'
<1> USE WeixinAssumption DEF OutcomeInv, ApartInv
<1>1. /\ \A i \in DOMAIN sent' : \/ i \in DOMAIN sent /\ sent'[i] = sent[i]
                                 \/ i = Len(sent) + 1 /\ sent'[i] = e /\ i \notin DOMAIN sent
      /\ \A i \in DOMAIN sent : i < Len(sent) + 1
      /\ DOMAIN sent \subseteq Nat /\ Len(sent) \in Nat
  BY SentIsTyped DEF DeliveryTyped
<1>2. ChainIsOfTheRun' /\ SentPrecedesTheChain'
  BY <1>1 DEF ChainIsOfTheRun, SentPrecedesTheChain, Delivery!Parts
<1>3. \A i \in DOMAIN sent' : sent'[i].what # "notice" => sent'[i].run = msg'.n
  BY <1>1 DEF RunsKeepApart, Delivery!RunsKeepApart
<1>4. ASSUME NEW i \in DOMAIN sent', NEW j \in DOMAIN sent', i < j, sent'[j].what = "tool"
      PROVE  sent'[i].what # "timing" /\ (sent'[i].what = "tool" => sent'[i].d < sent'[j].d)
  <2>1. j \in DOMAIN sent /\ sent'[j] = sent[j]
    BY <1>1, <1>4 DEF Delivery!Parts
  <2>2. i \in DOMAIN sent /\ sent'[i] = sent[i]
    <3>1. i # Len(sent) + 1
      BY ONLY <1>1, <1>4, <2>1
    <3> QED BY <1>1, <3>1
  <2> QED BY <1>4, <2>1, <2>2 DEF RunsKeepApart, Delivery!RunsKeepApart
<1> QED BY <1>2, <1>3, <1>4 DEF RunsKeepApart, Delivery!RunsKeepApart

-----------------------------------------------------------------------------
(* What has arrived of the answers.                                         *)

\* The parts follow each other, a caption before its media.
InOrder(s) ==
    \A k, l \in DOMAIN s :
        k < l /\ {s[k].what, s[l].what} \subseteq Delivery!Parts
          => s[k].d < s[l].d \/ (s[k] = [s[l] EXCEPT !.what = "caption"] /\ s[l].what = "media")

\* All parts are of the first n answers.
UpTo(s, n) == \A k \in DOMAIN s : s[k].what \in Delivery!Parts => s[k].d \in 1 .. n

LEMMA NothingYet ==
    ASSUME OutcomeInv, NEW n \in Nat, n = Len(outcome) + 1, delivery.at # "media"
    PROVE  /\ Delivery!Got(n) = {} /\ InOrder(sent) /\ UpTo(sent, n)
           /\ \A k \in DOMAIN sent : sent[k].what \in Delivery!Parts => sent[k].d # n
<1>1. \A k \in DOMAIN sent : sent[k].what \in Delivery!Parts => sent[k].d # n /\ sent[k].d \in 1 .. n
  BY DEF OutcomeInv, PartsAreOfAnswers
<1>2. ASSUME NEW what \in Delivery!Parts PROVE Delivery!Arrived(what, n) = {}
  BY <1>1 DEF Delivery!Arrived, Delivery!Here, Delivery!Item
<1>3. Delivery!Got(n) = {}
  BY <1>2 DEF Delivery!Got
<1> QED BY <1>1, <1>3 DEF OutcomeInv, OutcomeIsTrue, Delivery!OutcomeIsTrue, InOrder, UpTo

LEMMA PartsGrow ==
    ASSUME OutcomeInv, NEW n \in Nat, n = Len(outcome) + 1, NEW what \in Delivery!Parts,
           UNCHANGED msg, delivery.at = what, msg.n \in 1 .. MaxRuns, Len(outcome) < MaxDeliveries,
           sent' = sent \/ sent' = Append(sent, Delivery!Here(what, n))
    PROVE  /\ \A i \in DOMAIN outcome : Delivery!Got(i)' = Delivery!Got(i)
           /\ \/ sent' = sent /\ Delivery!Got(n)' = Delivery!Got(n)
              \/ Delivery!Got(n)' = Delivery!Got(n) \cup {what}
           /\ sent' = Append(sent, Delivery!Here(what, n)) => Delivery!Got(n)' = Delivery!Got(n) \cup {what}
           /\ InOrder(sent') /\ UpTo(sent', n)
           /\ \A k \in DOMAIN sent' : sent'[k].what \in Delivery!Parts /\ sent'[k].d = n
                 => sent'[k].what \in {what, "caption"} /\ (what # "media" => sent'[k].what = what)
<1> USE DEF OutcomeInv, ApartInv
<1> DEFINE e == Delivery!Here(what, n)
<1>1. e \in Delivery!Items /\ e.run = msg.n /\ e.what = what /\ e.d = n
  <2>1. what \in Whats
    BY DEF Delivery!Parts, Whats
  <2>2. n \in 0 .. 2 * MaxTools + MaxDeliveries
    <3>1. Len(outcome) \in Nat BY DEF DeliveryTyped
    <3> QED BY ONLY <3>1, n = Len(outcome) + 1, Len(outcome) < MaxDeliveries, WeixinAssumption
            DEF WeixinAssumption
  <2> QED BY <2>1, <2>2, ItemsAreTyped DEF Delivery!Here, Delivery!Item
<1>2. Arrives(e)
  BY DEF Arrives
<1>3. /\ \A i \in DOMAIN sent' : \/ i \in DOMAIN sent /\ sent'[i] = sent[i]
                                 \/ i = Len(sent) + 1 /\ sent'[i] = e /\ i \notin DOMAIN sent
      /\ \A i \in DOMAIN sent : i < Len(sent) + 1 /\ i \in DOMAIN sent' /\ sent'[i] = sent[i]
      /\ DOMAIN sent \subseteq Nat /\ Len(sent) \in Nat
  BY <1>1, <1>2, SentIsTyped DEF DeliveryTyped
<1>4. sent' = Append(sent, e) => Len(sent) + 1 \in DOMAIN sent' /\ sent'[Len(sent) + 1] = e
  <2>1. sent \in Seq(Delivery!Items) BY DEF DeliveryTyped
  <2> HIDE DEF e, Delivery!Items
  <2> QED BY <1>1, <2>1, Appended
<1>5. ASSUME NEW i, NEW w \in Delivery!Parts
      PROVE  Delivery!Here(w, i)' = Delivery!Here(w, i) /\ (Delivery!Here(w, i) = e <=> w = what /\ i = n)
  BY DEF Delivery!Here, Delivery!Item
<1>6. ASSUME NEW i, NEW w \in Delivery!Parts, ~(w = what /\ i = n)
      PROVE  Delivery!Arrived(w, i)' = Delivery!Arrived(w, i)
  <2>1. Delivery!Here(w, i)' = Delivery!Here(w, i) /\ Delivery!Here(w, i) # e
    BY <1>5, <1>6
  <2> HIDE DEF e
  <2> QED BY <1>3, <2>1 DEF Delivery!Arrived
<1>7. sent' = sent => Delivery!Arrived(what, n)' = Delivery!Arrived(what, n)
  BY <1>5 DEF Delivery!Arrived
<1>8. sent' = Append(sent, e) => Delivery!Arrived(what, n)' # {}
  <2>1. Delivery!Here(what, n)' = e
    BY <1>5
  <2> HIDE DEF e
  <2> QED BY <1>4, <2>1 DEF Delivery!Arrived
<1>9. \A i \in DOMAIN outcome : Delivery!Got(i)' = Delivery!Got(i)
  <2>1. ASSUME NEW i \in DOMAIN outcome PROVE Delivery!Got(i)' = Delivery!Got(i)
    <3>1. i # n
      BY DEF DeliveryTyped
    <3> QED BY <1>6, <3>1 DEF Delivery!Got
  <2> QED BY <2>1
<1>10. /\ sent' = sent => Delivery!Got(n)' = Delivery!Got(n)
       /\ sent' = Append(sent, e) => Delivery!Got(n)' = Delivery!Got(n) \cup {what}
  <2> HIDE DEF e
  <2> QED BY <1>6, <1>7, <1>8 DEF Delivery!Got
<1>11. \A k \in DOMAIN sent : sent[k].what \in Delivery!Parts =>
          /\ sent[k].d \in 1 .. n /\ sent[k].run = msg.n
          /\ sent[k].d = n => sent[k].what = "caption" /\ what = "media"
  BY DEF PartsAreOfAnswers, RunsKeepApart, Delivery!RunsKeepApart, Delivery!Parts
<1>12. UpTo(sent', n)
  <2> HIDE DEF e
  <2> QED BY <1>1, <1>3, <1>11 DEF UpTo
<1>13. \A k \in DOMAIN sent' : sent'[k].what \in Delivery!Parts /\ sent'[k].d = n
                 => sent'[k].what \in {what, "caption"} /\ (what # "media" => sent'[k].what = what)
  <2> HIDE DEF e
  <2> QED BY <1>1, <1>3, <1>11
<1>14. InOrder(sent')
  <2>1. SUFFICES ASSUME NEW k \in DOMAIN sent', NEW l \in DOMAIN sent', k < l,
                        {sent'[k].what, sent'[l].what} \subseteq Delivery!Parts
                 PROVE  sent'[k].d < sent'[l].d
                        \/ (sent'[k] = [sent'[l] EXCEPT !.what = "caption"] /\ sent'[l].what = "media")
    BY DEF InOrder
  <2>2. k \in DOMAIN sent /\ sent'[k] = sent[k]
    <3>1. k # Len(sent) + 1
      BY ONLY <1>3, <2>1
    <3> QED BY <1>3, <3>1
  <2>3. CASE l \in DOMAIN sent /\ sent'[l] = sent[l]
    BY <2>1, <2>2, <2>3 DEF OutcomeIsTrue, Delivery!OutcomeIsTrue
  <2>4. CASE sent'[l] = e
    <3>1. sent[k].d \in 1 .. n /\ sent[k].run = msg.n /\ (sent[k].d = n => sent[k].what = "caption" /\ what = "media")
      BY <1>11, <2>1, <2>2
    <3>2. CASE sent[k].d # n
      BY <1>1, <2>2, <2>4, <3>1, <3>2
    <3>3. CASE sent[k].d = n
      <4>1. sent[k] \in Delivery!Items
        BY <2>2 DEF DeliveryTyped, Delivery!TypeOK
      <4>2. sent[k] = [e EXCEPT !.what = "caption"]
        BY <3>1, <3>3, <4>1 DEF Delivery!Items, Delivery!Here, Delivery!Item
      <4> QED BY <1>1, <2>2, <2>4, <3>1, <3>3, <4>2
    <3> QED BY <3>2, <3>3
  <2> QED BY <1>3, <2>3, <2>4
<1> QED BY <1>9, <1>10, <1>12, <1>13, <1>14

-----------------------------------------------------------------------------
(* The steps of an answer.                                                  *)

\* An answer is on its way and nothing of it has arrived.
LEMMA RequestsGoOn ==
    ASSUME OutcomeInv, NEW d \in Requests, OnItsWay(d), UNCHANGED <<msg, sent>>,
           delivery.at # "media", d.at = "caption" => d.caption,
           d.at = "media" => ~d.caption,
           AttemptsOfAnUpload'
    PROVE  PartsAreOfAnswers' /\ OutcomeIsTrue'
<1> USE DEF OutcomeInv, ApartInv
<1> DEFINE n == Len(outcome) + 1
<1>1. n \in Nat /\ Delivery!ThisOne' = n
  BY DEF DeliveryTyped, OnItsWay, Delivery!ThisOne
<1>2. /\ Delivery!Got(n) = {}
      /\ \A k \in DOMAIN sent : sent[k].what \in Delivery!Parts => sent[k].d # n
  BY <1>1, NothingYet
<1>3. \A i : Delivery!Got(i)' = Delivery!Got(i)
  BY DEF Delivery!Got, Delivery!Arrived, Delivery!Here
<1>4. PartsAreOfAnswers'
  BY <1>2 DEF PartsAreOfAnswers, OnItsWay
<1>5. delivery'.at = "media" => Delivery!Got(Delivery!ThisOne)' = (IF delivery'.caption THEN {"caption"} ELSE {})
  BY <1>1, <1>2, <1>3 DEF OnItsWay
<1>6. /\ Len(delivery'.tries) <= 3
      /\ \A i \in DOMAIN delivery'.tries :
            delivery'.tries[i] \in {"refused", "stored"}
              => i = Len(delivery'.tries) /\ delivery'.tries[i] = "stored"
  <2>1. delivery' \in Requests
    BY DEF OnItsWay
  <2> QED BY <2>1 DEF AttemptsOfAnUpload, Requests, Stages
<1>7. OutcomeIsTrue'
  <2>1. \A i \in DOMAIN outcome' :
          CASE outcome'[i] = "sent"      -> Delivery!Got(i)' \in {{"text"}, {"media"}, {"caption", "media"}}
            [] outcome'[i] = "cancelled" -> Delivery!Got(i)' = {}
            [] outcome'[i] = "failed"    -> i \in noticed' /\ (Delivery!Got(i)' = {"text"}
                                                               \/ Delivery!Got(i)' \subseteq {"caption", "media"})
    <3>1. outcome' = outcome /\ noticed' = noticed
      BY DEF OnItsWay
    <3> QED BY <1>3, <3>1 DEF OutcomeIsTrue, Delivery!OutcomeIsTrue
  <2>2. InOrder(sent')
    BY DEF OutcomeIsTrue, Delivery!OutcomeIsTrue, InOrder
  <2>3. noticed' = {i \in DOMAIN outcome' : outcome'[i] = "failed"}
    BY DEF OutcomeIsTrue, Delivery!OutcomeIsTrue, OnItsWay
  <2> QED BY <1>5, <1>6, <2>1, <2>2, <2>3
      DEF OutcomeIsTrue, Delivery!OutcomeIsTrue, InOrder, Delivery!UPLOAD_MAX_RETRIES
<1> QED BY <1>4, <1>7

\* An answer is over, with a result that is true of what has arrived of it.
LEMMA AnswersEnd ==
    ASSUME OutcomeInv, NEW n \in Nat, n = Len(outcome) + 1,
           NEW result \in {"sent", "failed", "cancelled"}, Over(result),
           \A i \in DOMAIN outcome : Delivery!Got(i)' = Delivery!Got(i),
           result = "sent" => Delivery!Got(n)' \in {{"text"}, {"media"}, {"caption", "media"}},
           result = "cancelled" => Delivery!Got(n)' = {},
           result = "failed" => Delivery!Got(n)' = {"text"} \/ Delivery!Got(n)' \subseteq {"caption", "media"},
           InOrder(sent'), UpTo(sent', n)
    PROVE  PartsAreOfAnswers' /\ AttemptsOfAnUpload' /\ OutcomeIsTrue'
<1> USE DEF OutcomeInv, ApartInv
<1>1. /\ outcome \in Seq({"sent", "failed", "cancelled"}) /\ outcome' = Append(outcome, result)
      /\ delivery'.at = "none" /\ delivery'.tries = <<>>
  BY DEF DeliveryTyped, Over, Delivery!NoDelivery
<1>2. /\ Len(outcome') = n /\ DOMAIN outcome' = 1 .. n /\ DOMAIN outcome = 1 .. n - 1 /\ outcome'[n] = result
      /\ n \in DOMAIN outcome' /\ n \notin DOMAIN outcome
      /\ \A i \in DOMAIN outcome : outcome'[i] = outcome[i]
  BY ONLY <1>1, n \in Nat, n = Len(outcome) + 1, Appended
<1>3. PartsAreOfAnswers'
  BY <1>1, <1>2 DEF PartsAreOfAnswers, UpTo
<1>4. AttemptsOfAnUpload'
  BY <1>1 DEF AttemptsOfAnUpload
<1>5. noticed' = {i \in DOMAIN outcome' : outcome'[i] = "failed"}
  <2>1. noticed = {i \in DOMAIN outcome : outcome[i] = "failed"}
    BY DEF OutcomeIsTrue, Delivery!OutcomeIsTrue
  <2>2. noticed' = (IF result = "failed" THEN noticed \cup {n} ELSE noticed)
    BY DEF Over
  <2>3. ASSUME NEW i PROVE i \in noticed' <=> i \in DOMAIN outcome' /\ outcome'[i] = "failed"
    <3>1. CASE i = n
      <4>1. n \notin noticed BY ONLY <1>2, <2>1
      <4>2. n \in noticed' <=> result = "failed" BY ONLY <2>2, <4>1
      <4> QED BY ONLY <1>2, <3>1, <4>2
    <3>2. CASE i # n
      <4>1. i \in DOMAIN outcome' <=> i \in DOMAIN outcome
        <5>1. 1 .. n = (1 .. n - 1) \cup {n}
          <6>1. n \in Nat \ {0}
            <7>1. Len(outcome) \in Nat BY <1>1
            <7> QED BY ONLY <7>1, n = Len(outcome) + 1
          <6> QED BY ONLY <6>1
        <5> QED BY ONLY <1>2, <3>2, <5>1
      <4>2. i \in noticed' <=> i \in noticed
        BY <2>2, <3>2
      <4>3. i \in DOMAIN outcome => outcome'[i] = outcome[i]
        BY <1>2
      <4> QED BY ONLY <2>1, <4>1, <4>2, <4>3
    <3> QED BY <3>1, <3>2
  <2> QED BY <2>3
<1>6. \A i \in DOMAIN outcome' :
          CASE outcome'[i] = "sent"      -> Delivery!Got(i)' \in {{"text"}, {"media"}, {"caption", "media"}}
            [] outcome'[i] = "cancelled" -> Delivery!Got(i)' = {}
            [] outcome'[i] = "failed"    -> i \in noticed' /\ (Delivery!Got(i)' = {"text"}
                                                               \/ Delivery!Got(i)' \subseteq {"caption", "media"})
  <2>1. SUFFICES ASSUME NEW i \in DOMAIN outcome'
        PROVE /\ outcome'[i] = "sent" => Delivery!Got(i)' \in {{"text"}, {"media"}, {"caption", "media"}}
              /\ outcome'[i] = "cancelled" => Delivery!Got(i)' = {}
              /\ outcome'[i] = "failed" => i \in noticed' /\ (Delivery!Got(i)' = {"text"}
                                                             \/ Delivery!Got(i)' \subseteq {"caption", "media"})
              /\ outcome'[i] \in {"sent", "failed", "cancelled"}
    OBVIOUS
  <2>2. CASE i = n
    BY <1>2, <1>5, <2>2
  <2>3. CASE i \in DOMAIN outcome
    <3>1. outcome[i] \in {"sent", "failed", "cancelled"}
      BY <1>1, <2>3
    <3>2. /\ outcome[i] = "sent" => Delivery!Got(i) \in {{"text"}, {"media"}, {"caption", "media"}}
          /\ outcome[i] = "cancelled" => Delivery!Got(i) = {}
          /\ outcome[i] = "failed" => Delivery!Got(i) = {"text"} \/ Delivery!Got(i) \subseteq {"caption", "media"}
      BY <2>3, <3>1 DEF OutcomeIsTrue, Delivery!OutcomeIsTrue
    <3> QED BY <1>2, <1>5, <2>1, <2>3, <3>1, <3>2
  <2> QED BY <1>2, <2>1, <2>2, <2>3
<1>7. Len(delivery'.tries) <= 3 /\ DOMAIN delivery'.tries = {}
  BY <1>1
<1>8. OutcomeIsTrue'
  BY <1>1, <1>5, <1>6, <1>7
  DEF OutcomeIsTrue, Delivery!OutcomeIsTrue, InOrder, Delivery!UPLOAD_MAX_RETRIES
<1> QED BY <1>3, <1>4, <1>8

\* Some item: what a step of an answer would send.
LEMMA PartsAreItems ==
    ASSUME OutcomeInv, msg.n \in 1 .. MaxRuns
    PROVE  \E e \in Delivery!Items : e.run = msg.n /\ e.what \in Delivery!Parts
<1> USE DEF OutcomeInv, ApartInv
<1>1. 0 \in 0 .. 2 * MaxTools + MaxDeliveries
  BY WeixinAssumption DEF WeixinAssumption
<1>2. Delivery!Item(msg.n, "text", 0) \in Delivery!Items
  BY <1>1, ItemsAreTyped DEF Whats
<1> QED BY <1>2 DEF Delivery!Item, Delivery!Parts

LEMMA NothingSent ==
    ASSUME UNCHANGED <<msg, sent>>, NEW i
    PROVE  Delivery!Got(i)' = Delivery!Got(i)
BY DEF Delivery!Got, Delivery!Arrived, Delivery!Here

LEMMA NothingIsAdded ==
    ASSUME UNCHANGED <<msg, sent>>
    PROVE  /\ \A i : Delivery!Got(i)' = Delivery!Got(i)
           /\ InOrder(sent') = InOrder(sent) /\ \A n : UpTo(sent', n) = UpTo(sent, n)
BY NothingSent

LEMMA FailuresAreTold ==
    ASSUME NEW why \in Delivery!Why, Delivery!DeliveryFails(why), Len(outcome) < MaxDeliveries
    PROVE  Over("failed")
<1> DEFINE y == [run |-> msg.n, d |-> Len(outcome) + 1, says |-> Delivery!Notice(delivery.at, why)]
<1>1. notices' = notices \cup {y} /\ y.run = msg.n /\ y.d = Len(outcome) + 1
  BY DEF Delivery!DeliveryFails, Delivery!ThisOne
<1> HIDE DEF y
<1> QED BY <1>1 DEF Delivery!DeliveryFails, Delivery!Ends, Delivery!ThisOne, Over

\* An answer's step of any kind keeps the runs apart.
AnswerStep ==
    \/ \E kind \in {"text", "odd", "local", "remote"}, caption \in BOOLEAN :
          Delivery!Deliver(kind, caption)
    \/ Delivery!Hook \/ Delivery!Prepare \/ Delivery!Upload \/ Delivery!SendAnswer
Moves == \/ \E d \in Requests : OnItsWay(d)
         \/ \E result \in {"sent", "failed", "cancelled"} : Over(result)

LEMMA SendingStaysApart ==
    ASSUME OutcomeInv, AnswerStep, Moves,
           NEW e \in Delivery!Items, e.run = msg.n, e.what \in Delivery!Parts, Arrives(e)
    PROVE  ApartInv'
<1>1. /\ UNCHANGED <<step, msg, replies, sendChain, tool, finalized, fetched>>
      /\ step = "run" /\ msg.n \in 1 .. MaxRuns /\ msg.from # "stranger"
      /\ errors' \in 0 .. MaxErrors
  BY AnswerSteps DEF AnswerStep
<1> HIDE DEF Delivery!Items, OutcomeInv, Arrives, Requests, OnItsWay, Over
<1>2. DeliveryTyped'
  BY <1>1, AnswersStayTyped DEF Moves
<1>3. ChainIsOfTheRun' /\ SentPrecedesTheChain' /\ RunsKeepApart'
  BY <1>1, AnswersStayApart
<1> QED BY <1>2, <1>3 DEF ApartInv

LEMMA QuietStepsStayApart ==
    ASSUME OutcomeInv, AnswerStep, Moves, UNCHANGED sent
    PROVE  ApartInv'
<1>1. msg.n \in 1 .. MaxRuns
  BY AnswerSteps DEF AnswerStep
<1>2. PICK e \in Delivery!Items : e.run = msg.n /\ e.what \in Delivery!Parts
  BY <1>1, PartsAreItems
<1>3. Arrives(e)
  BY DEF Arrives
<1> QED BY <1>2, <1>3, SendingStaysApart

LEMMA DeliverStep ==
    ASSUME OutcomeInv, NEW kind \in {"text", "odd", "local", "remote"}, NEW caption \in BOOLEAN,
           Delivery!Deliver(kind, caption)
    PROVE  OutcomeInv'
<1> USE WeixinAssumption DEF OutcomeInv, ApartInv
<1> DEFINE d == [Delivery!NoDelivery EXCEPT !.at = "hook", !.kind = kind, !.caption = caption]
<1>1. d \in Requests /\ d.at = "hook" /\ d.tries = <<>>
  <2> DEFINE hook == [Delivery!NoDelivery EXCEPT !.at = "hook"]
             of   == [hook EXCEPT !.kind = kind]
  <2>1. hook \in Requests /\ hook.at = "hook" /\ hook.tries = <<>>
    <3>1. Delivery!NoDelivery \in Requests /\ Delivery!NoDelivery.tries = <<>>
      BY DEF Delivery!NoDelivery, Requests, Stages
    <3> QED BY <3>1 DEF Requests, Stages
  <2>2. of \in Requests /\ of.at = "hook" /\ of.tries = <<>>
    <3> HIDE DEF hook
    <3> QED BY <2>1 DEF Requests
  <2>3. d = [of EXCEPT !.caption = caption]
    OBVIOUS
  <2> HIDE DEF of, d
  <2> QED BY <2>2, <2>3 DEF Requests
<1>2. OnItsWay(d) /\ UNCHANGED <<msg, sent>> /\ delivery.at = "none"
  BY <1>1 DEF Delivery!Deliver, OnItsWay, Delivery!Unmoved, Delivery!message
<1>3. AttemptsOfAnUpload'
  BY <1>1, <1>2 DEF AttemptsOfAnUpload, OnItsWay
<1>4. PartsAreOfAnswers' /\ OutcomeIsTrue'
  <2> HIDE DEF d
  <2> QED BY <1>1, <1>2, <1>3, RequestsGoOn
<1>5. ApartInv'
  <2>1. AnswerStep /\ Moves
    BY <1>1, <1>2 DEF AnswerStep, Moves
  <2> QED BY <1>2, <2>1, QuietStepsStayApart
<1> QED BY <1>3, <1>4, <1>5

LEMMA HookStep ==
    ASSUME OutcomeInv, Delivery!Hook
    PROVE  OutcomeInv'
<1> USE WeixinAssumption DEF OutcomeInv, ApartInv
<1>n. PICK n \in Nat : n = Len(outcome) + 1
  BY DEF DeliveryTyped
<1>1. delivery.at = "hook" /\ UNCHANGED <<msg, sent>> /\ delivery \in Requests /\ delivery.tries = <<>>
      /\ Len(outcome) < MaxDeliveries
  BY DEF Delivery!Hook, Delivery!Unmoved, Delivery!message, DeliveryTyped, Requests, AttemptsOfAnUpload
<1>2. CASE Delivery!Ends("cancelled")
  <2>1. Over("cancelled")
    BY <1>1, <1>2 DEF Delivery!Hook, Delivery!Ends, Over
  <2>2. /\ Delivery!Got(n)' = {} /\ \A i \in DOMAIN outcome : Delivery!Got(i)' = Delivery!Got(i)
        /\ InOrder(sent') /\ UpTo(sent', n)
    BY <1>n, <1>1, NothingYet, NothingIsAdded
  <2>3. PartsAreOfAnswers' /\ AttemptsOfAnUpload' /\ OutcomeIsTrue'
    BY <1>n, <1>1, <2>1, <2>2, AnswersEnd
  <2>4. AnswerStep /\ Moves
    BY <2>1 DEF AnswerStep, Moves
  <2>5. ApartInv'
    BY <1>1, <2>4, QuietStepsStayApart
  <2> QED BY <2>3, <2>5
<1>3. CASE ~Delivery!Ends("cancelled")
  <2>1. PICK at \in {"ask", "fetch", "text"} : delivery' = [delivery EXCEPT !.at = at]
    BY <1>3 DEF Delivery!Hook
  <2> DEFINE d == [delivery EXCEPT !.at = at]
  <2>2. d \in Requests /\ d.at = at /\ d.tries = <<>>
    BY <1>1 DEF Requests, Stages
  <2>3. OnItsWay(d)
    BY <1>1, <1>3, <2>1, <2>2 DEF Delivery!Hook, OnItsWay
  <2>4. AttemptsOfAnUpload'
    BY <2>1, <2>2 DEF AttemptsOfAnUpload
  <2> HIDE DEF d
  <2>5. PartsAreOfAnswers' /\ OutcomeIsTrue'
    BY <1>1, <2>2, <2>3, <2>4, RequestsGoOn
  <2>6. AnswerStep /\ Moves
    BY <2>2, <2>3 DEF AnswerStep, Moves
  <2>7. ApartInv'
    BY <1>1, <2>6, QuietStepsStayApart
  <2> QED BY <2>4, <2>5, <2>7
<1> QED BY <1>2, <1>3

\* A download or an upload URL that fails.
LEMMA FailuresEnd ==
    ASSUME OutcomeInv, NEW why \in Delivery!Why, Delivery!DeliveryFails(why), UNCHANGED <<msg, sent>>,
           delivery.at \in {"fetch", "ask", "upload"}
    PROVE  Over("failed") /\ PartsAreOfAnswers' /\ AttemptsOfAnUpload' /\ OutcomeIsTrue'
<1> USE WeixinAssumption DEF OutcomeInv, ApartInv
<1>n. PICK n \in Nat : n = Len(outcome) + 1
  BY DEF DeliveryTyped
<1>1. Len(outcome) < MaxDeliveries
  BY DEF DeliveryTyped
<1>2. Over("failed")
  BY <1>1, FailuresAreTold
<1>3. /\ Delivery!Got(n)' = {} /\ \A i \in DOMAIN outcome : Delivery!Got(i)' = Delivery!Got(i)
      /\ InOrder(sent') /\ UpTo(sent', n)
  BY <1>n, <1>1, NothingYet, NothingIsAdded
<1> QED BY <1>n, <1>2, <1>3, AnswersEnd

LEMMA PrepareStep ==
    ASSUME OutcomeInv, Delivery!Prepare
    PROVE  OutcomeInv'
<1> USE WeixinAssumption DEF OutcomeInv, ApartInv
<1>1. delivery.at \in {"fetch", "ask"} /\ UNCHANGED <<msg, sent>> /\ delivery \in Requests /\ delivery.tries = <<>>
      /\ Len(outcome) < MaxDeliveries
  BY DEF Delivery!Prepare, Delivery!Unmoved, Delivery!message, DeliveryTyped, Requests, AttemptsOfAnUpload
<1>2. CASE \E why \in Delivery!Why : Delivery!DeliveryFails(why)
  <2>1. Over("failed") /\ PartsAreOfAnswers' /\ AttemptsOfAnUpload' /\ OutcomeIsTrue'
    BY <1>1, <1>2, FailuresEnd
  <2>2. AnswerStep /\ Moves
    BY <2>1 DEF AnswerStep, Moves
  <2>3. ApartInv'
    BY <1>1, <2>2, QuietStepsStayApart
  <2> QED BY <2>1, <2>3
<1>3. CASE \E at \in {"ask", "upload"} : /\ delivery' = [delivery EXCEPT !.at = at]
                                         /\ UNCHANGED <<outcome, noticed, notices>>
  <2>1. PICK at \in {"ask", "upload"} : delivery' = [delivery EXCEPT !.at = at]
    BY <1>3
  <2> DEFINE d == [delivery EXCEPT !.at = at]
  <2>2. d \in Requests /\ d.at = at /\ d.tries = <<>>
    BY <1>1 DEF Requests, Stages
  <2>3. OnItsWay(d)
    BY <1>1, <1>3, <2>1, <2>2 DEF OnItsWay
  <2>4. AttemptsOfAnUpload'
    BY <2>1, <2>2 DEF AttemptsOfAnUpload
  <2> HIDE DEF d
  <2>5. PartsAreOfAnswers' /\ OutcomeIsTrue'
    BY <1>1, <2>2, <2>3, <2>4, RequestsGoOn
  <2>6. AnswerStep /\ Moves
    BY <2>2, <2>3 DEF AnswerStep, Moves
  <2>7. ApartInv'
    BY <1>1, <2>6, QuietStepsStayApart
  <2> QED BY <2>4, <2>5, <2>7
<1> QED BY <1>2, <1>3 DEF Delivery!Prepare

\* The attempts: one more that is stored, or one more of the network's.
LEMMA UploadStep ==
    ASSUME OutcomeInv, Delivery!Upload
    PROVE  OutcomeInv'
<1> USE WeixinAssumption DEF OutcomeInv, ApartInv
<1>1. /\ delivery.at = "upload" /\ UNCHANGED <<msg, sent>> /\ delivery \in Requests
      /\ delivery.tries \in Seq(Attempts) /\ Len(outcome) < MaxDeliveries
      /\ Len(delivery.tries) < 3 /\ \A i \in DOMAIN delivery.tries : delivery.tries[i] = "network"
  BY DEF Delivery!Upload, Delivery!Unmoved, Delivery!message, DeliveryTyped, Requests, AttemptsOfAnUpload
<1>2. ASSUME NEW last \in Attempts
      PROVE  LET tries == Append(delivery.tries, last) IN
             /\ tries \in Seq(Attempts) /\ Len(tries) \in 1 .. 3 /\ tries[Len(tries)] = last
             /\ \A i \in DOMAIN tries : tries[i] = IF i = Len(tries) THEN last ELSE "network"
  <2> DEFINE tries == Append(delivery.tries, last)
  <2>1. /\ tries \in Seq(Attempts) /\ Len(tries) = Len(delivery.tries) + 1 /\ Len(delivery.tries) \in Nat
        /\ DOMAIN delivery.tries = 1 .. Len(delivery.tries) /\ DOMAIN tries = 1 .. Len(delivery.tries) + 1
        /\ \A i \in DOMAIN delivery.tries : tries[i] = delivery.tries[i]
        /\ tries[Len(delivery.tries) + 1] = last
    BY ONLY <1>1, <1>2, last \in Attempts, Appended
  <2> HIDE DEF tries
  <2>2. Len(tries) \in 1 .. 3 /\ tries[Len(tries)] = last
    BY ONLY <1>1, <2>1
  <2>3. ASSUME NEW i \in DOMAIN tries, i # Len(tries) PROVE tries[i] = "network"
    <3>1. i \in DOMAIN delivery.tries
      BY ONLY <2>1, <2>3
    <3> QED BY <1>1, <2>1, <3>1
  <2> QED BY <2>1, <2>2, <2>3 DEF tries
<1>3. ASSUME NEW d \in Requests, OnItsWay(d), AttemptsOfAnUpload',
             d.at = "caption" => d.caption, d.at = "media" => ~d.caption
      PROVE  OutcomeInv'
  <2>1. PartsAreOfAnswers' /\ OutcomeIsTrue'
    BY <1>1, <1>3, RequestsGoOn
  <2>2. AnswerStep /\ Moves
    BY <1>3 DEF AnswerStep, Moves
  <2>3. ApartInv'
    BY <1>1, <2>2, QuietStepsStayApart
  <2> QED BY <1>3, <2>1, <2>3
<1>4. CASE \E why \in Delivery!Why : Delivery!DeliveryFails(why)
  <2>1. Over("failed") /\ PartsAreOfAnswers' /\ AttemptsOfAnUpload' /\ OutcomeIsTrue'
    BY <1>1, <1>4, FailuresEnd
  <2>2. AnswerStep /\ Moves
    BY <2>1 DEF AnswerStep, Moves
  <2>3. ApartInv'
    BY <1>1, <2>2, QuietStepsStayApart
  <2> QED BY <2>1, <2>3
<1>5. CASE /\ delivery' = [delivery EXCEPT !.at = IF delivery.caption THEN "caption" ELSE "media",
                                           !.tries = Append(@, "stored")]
           /\ UNCHANGED <<outcome, noticed, notices>>
  <2> DEFINE tries == Append(delivery.tries, "stored")
  <2>1. /\ tries \in Seq(Attempts) /\ Len(tries) \in 1 .. 3
        /\ \A i \in DOMAIN tries : tries[i] = IF i = Len(tries) THEN "stored" ELSE "network"
    BY <1>2 DEF Attempts
  <2> HIDE DEF tries
  <2>2. PICK at \in {"caption", "media"} : /\ delivery' = [delivery EXCEPT !.at = at, !.tries = tries]
                                           /\ at = "caption" <=> delivery.caption
    BY <1>1, <1>5 DEF tries, Requests
  <2>3. /\ delivery' \in Requests /\ delivery'.at = at /\ delivery'.tries = tries
        /\ delivery'.caption = delivery.caption
    BY <1>1, <2>1, <2>2 DEF Requests, Stages
  <2>4. AttemptsOfAnUpload'
    BY <2>1, <2>3 DEF AttemptsOfAnUpload
  <2>5. OnItsWay(delivery')
    BY <1>1, <1>5, <2>3 DEF OnItsWay
  <2> QED BY <1>3, <2>2, <2>3, <2>4, <2>5
<1>6. ASSUME NEW why \in Delivery!Why, Delivery!Again(Append(delivery.tries, why)),
             delivery' = [delivery EXCEPT !.tries = Append(@, why)],
             UNCHANGED <<outcome, noticed, notices>>
      PROVE  OutcomeInv'
  <2> DEFINE tries == Append(delivery.tries, why)
  <2>1. /\ tries \in Seq(Attempts) /\ Len(tries) \in 1 .. 3 /\ tries[Len(tries)] = why
        /\ \A i \in DOMAIN tries : tries[i] = IF i = Len(tries) THEN why ELSE "network"
    BY <1>2 DEF Attempts, Delivery!Why
  <2> HIDE DEF tries
  <2>2. why = "network" /\ Len(tries) < 3
    BY <1>6, <2>1 DEF Delivery!Again, Delivery!Why, Delivery!UPLOAD_MAX_RETRIES, tries
  <2>3. delivery' = [delivery EXCEPT !.tries = tries]
    BY <1>6 DEF tries
  <2>4. delivery' \in Requests /\ delivery'.at = "upload" /\ delivery'.tries = tries
    BY <1>1, <2>1, <2>3 DEF Requests
  <2>5. AttemptsOfAnUpload'
    BY <2>1, <2>2, <2>4 DEF AttemptsOfAnUpload
  <2>6. OnItsWay(delivery')
    BY <1>1, <1>6, <2>4 DEF OnItsWay
  <2> QED BY <1>3, <2>4, <2>5, <2>6
<1> QED BY <1>4, <1>5, <1>6 DEF Delivery!Upload

-----------------------------------------------------------------------------
(* The parts are sent.                                                      *)

\* The caption has arrived: its media is next.
LEMMA CaptionStep ==
    ASSUME OutcomeInv, NEW n \in Nat, n = Len(outcome) + 1, delivery.at = "caption", UNCHANGED msg,
           delivery' = [delivery EXCEPT !.at = "media"], UNCHANGED <<outcome, noticed>>,
           \A i \in DOMAIN outcome : Delivery!Got(i)' = Delivery!Got(i),
           Delivery!Got(n)' = {"caption"}, InOrder(sent'), UpTo(sent', n),
           \A k \in DOMAIN sent' : sent'[k].what \in Delivery!Parts /\ sent'[k].d = n
                                     => sent'[k].what = "caption"
    PROVE  PartsAreOfAnswers' /\ AttemptsOfAnUpload' /\ OutcomeIsTrue'
<1> USE DEF OutcomeInv, ApartInv
<1>1. delivery \in Requests /\ delivery.caption = TRUE
  BY DEF DeliveryTyped, Requests, PartsAreOfAnswers
<1>2. delivery'.at = "media" /\ delivery'.caption = TRUE /\ delivery'.tries = delivery.tries
  BY <1>1 DEF Requests
<1>3. Len(outcome') + 1 = n
  OBVIOUS
<1>4. PartsAreOfAnswers'
  BY <1>2, <1>3 DEF PartsAreOfAnswers, UpTo
<1>5. AttemptsOfAnUpload'
  BY <1>2 DEF AttemptsOfAnUpload
<1>6. Delivery!Got(Delivery!ThisOne)' = (IF delivery'.caption THEN {"caption"} ELSE {})
  <2>1. Delivery!ThisOne' = n
    BY <1>3 DEF Delivery!ThisOne
  <2> QED BY <1>2, <2>1
<1>7. Len(delivery'.tries) <= 3 /\ \A i \in DOMAIN delivery'.tries :
          delivery'.tries[i] \in {"refused", "stored"} => i = Len(delivery'.tries) /\ delivery'.tries[i] = "stored"
  BY <1>2, <1>5 DEF AttemptsOfAnUpload
<1>8. \A i \in DOMAIN outcome' :
          CASE outcome'[i] = "sent"      -> Delivery!Got(i)' \in {{"text"}, {"media"}, {"caption", "media"}}
            [] outcome'[i] = "cancelled" -> Delivery!Got(i)' = {}
            [] outcome'[i] = "failed"    -> i \in noticed' /\ (Delivery!Got(i)' = {"text"}
                                                               \/ Delivery!Got(i)' \subseteq {"caption", "media"})
  <2>1. \A i \in DOMAIN outcome :
          CASE outcome[i] = "sent"      -> Delivery!Got(i) \in {{"text"}, {"media"}, {"caption", "media"}}
            [] outcome[i] = "cancelled" -> Delivery!Got(i) = {}
            [] outcome[i] = "failed"    -> i \in noticed /\ (Delivery!Got(i) = {"text"}
                                                             \/ Delivery!Got(i) \subseteq {"caption", "media"})
    BY DEF OutcomeIsTrue, Delivery!OutcomeIsTrue
  <2>2. outcome' = outcome /\ noticed' = noticed
    OBVIOUS
  <2> QED BY ONLY <2>1, <2>2, \A i \in DOMAIN outcome : Delivery!Got(i)' = Delivery!Got(i)
<1>9. noticed' = {i \in DOMAIN outcome' : outcome'[i] = "failed"}
  BY DEF OutcomeIsTrue, Delivery!OutcomeIsTrue
<1>10. OutcomeIsTrue'
  BY <1>6, <1>7, <1>8, <1>9
  DEF OutcomeIsTrue, Delivery!OutcomeIsTrue, InOrder, Delivery!UPLOAD_MAX_RETRIES
<1> QED BY <1>4, <1>5, <1>10

LEMMA SendAnswerStep ==
    ASSUME OutcomeInv, Delivery!SendAnswer
    PROVE  OutcomeInv'
<1> USE WeixinAssumption DEF OutcomeInv, ApartInv
<1>n. PICK n \in Nat : n = Len(outcome) + 1
  BY DEF DeliveryTyped
<1>w. PICK what \in Delivery!Parts : what = delivery.at
  BY DEF Delivery!SendAnswer, Delivery!Parts
<1> DEFINE e == Delivery!Here(what, n)
<1>1. /\ UNCHANGED <<msg, step>> /\ Len(outcome) < MaxDeliveries /\ delivery \in Requests
      /\ Arrives(e)
  BY <1>n, <1>w DEF Delivery!SendAnswer, Delivery!Unmoved, Delivery!message, DeliveryTyped, Requests, Arrives,
         Delivery!Arrives, Delivery!Fails, Delivery!ThisOne, Delivery!Parts
<1>2. AnswerStep /\ msg.n \in 1 .. MaxRuns
  BY AnswerSteps DEF AnswerStep
<1>3. e \in Delivery!Items /\ e.run = msg.n /\ e.what = what
  <2>1. n \in 0 .. 2 * MaxTools + MaxDeliveries
    <3>1. Len(outcome) \in Nat BY DEF DeliveryTyped
    <3> QED BY ONLY <1>1, <1>n, <3>1, WeixinAssumption DEF WeixinAssumption
  <2>2. what \in Whats
    BY DEF Delivery!Parts, Whats
  <2> QED BY <1>2, <2>1, <2>2, ItemsAreTyped DEF Delivery!Here, Delivery!Item
<1>4. /\ \A i \in DOMAIN outcome : Delivery!Got(i)' = Delivery!Got(i)
      /\ \/ sent' = sent /\ Delivery!Got(n)' = Delivery!Got(n)
         \/ Delivery!Got(n)' = Delivery!Got(n) \cup {what}
      /\ sent' = Append(sent, e) => Delivery!Got(n)' = Delivery!Got(n) \cup {what}
      /\ InOrder(sent') /\ UpTo(sent', n)
      /\ \A k \in DOMAIN sent' : sent'[k].what \in Delivery!Parts /\ sent'[k].d = n
            => sent'[k].what \in {what, "caption"} /\ (what # "media" => sent'[k].what = what)
  BY <1>1, <1>2, <1>n, <1>w, PartsGrow DEF Arrives
<1>5. /\ what # "media" => Delivery!Got(n) = {}
      /\ what = "media" => Delivery!Got(n) \in {{"caption"}, {}}
      /\ what \in {"text", "caption", "media"}
  BY <1>n, <1>w, NothingYet DEF OutcomeIsTrue, Delivery!OutcomeIsTrue, Delivery!ThisOne, Delivery!Parts
<1> HIDE DEF e
<1>6. ASSUME Moves PROVE ApartInv'
  BY <1>1, <1>2, <1>3, <1>6, SendingStaysApart
<1>7. CASE \E why \in Delivery!Why : Delivery!DeliveryFails(why)
  <2>1. Over("failed")
    BY <1>1, <1>7, FailuresAreTold
  <2>2. Delivery!Got(n)' = {"text"} \/ Delivery!Got(n)' \subseteq {"caption", "media"}
    BY <1>4, <1>5
  <2>3. PartsAreOfAnswers' /\ AttemptsOfAnUpload' /\ OutcomeIsTrue'
    BY <1>4, <1>n, <2>1, <2>2, AnswersEnd
  <2>4. Moves
    BY <2>1 DEF Moves
  <2> QED BY <1>6, <2>3, <2>4
<1>8. CASE sent' = Append(sent, e) /\ what # "caption" /\ Delivery!Ends("sent") /\ UNCHANGED <<noticed, notices>>
  <2>1. Over("sent")
    BY <1>1, <1>8 DEF Delivery!Ends, Over
  <2>2. Delivery!Got(n)' \in {{"text"}, {"media"}, {"caption", "media"}}
    BY <1>4, <1>5, <1>8
  <2>3. PartsAreOfAnswers' /\ AttemptsOfAnUpload' /\ OutcomeIsTrue'
    BY <1>4, <1>n, <2>1, <2>2, AnswersEnd
  <2>4. Moves
    BY <2>1 DEF Moves
  <2> QED BY <1>6, <2>3, <2>4
<1>9. CASE /\ sent' = Append(sent, e) /\ what = "caption"
           /\ delivery' = [delivery EXCEPT !.at = "media"] /\ UNCHANGED <<outcome, noticed, notices>>
  <2>1. PartsAreOfAnswers' /\ AttemptsOfAnUpload' /\ OutcomeIsTrue'
    BY <1>1, <1>4, <1>5, <1>9, <1>n, <1>w, CaptionStep
  <2>2. delivery' \in Requests /\ delivery'.at = "media"
    BY <1>1, <1>9 DEF Requests, Stages
  <2>3. Moves
    BY <1>1, <1>9, <2>2 DEF Moves, OnItsWay
  <2> QED BY <1>6, <2>1, <2>3
<1> QED BY <1>7, <1>8, <1>9, <1>n, <1>w
    DEF Delivery!SendAnswer, Delivery!Arrives, Delivery!ThisOne, e

-----------------------------------------------------------------------------
(* The filter.                                                              *)

Marks == {"none", "image", "bold3", "ubold3", "italic", "uitalic"}
Chars == (UNION Alphabets) \cup {"bang", "lb", "star", "under"}
FilterRecord == [buf : Seq(Chars), fence : BOOLEAN, sol : BOOLEAN, inl : Marks, acc : Seq(Chars),
                 out : Seq(Chars)]

FilterTyped ==
    /\ alphabet \in Alphabets /\ text \in Seq(Chars)
    /\ filter \in FilterRecord
    /\ calling \in {"none", "feed", "flush", "closed"}

\* Concatenation, whose definition is kept from the provers.
Join(x, y) == x \o y

\* What the filter holds back, with the marker it has read.
Held(f) == Join(Filter!Marker(f.inl), Join(f.acc, f.buf))

\* b is t without some of its characters, none of which is to be kept.
Places(at, b, t, keep) ==
    /\ at \in [1 .. Len(b) -> 1 .. Len(t)]
    /\ \A i, j \in 1 .. Len(b) : i < j => at[i] < at[j]
    /\ \A i \in 1 .. Len(b) : b[i] = t[at[i]]
    /\ \A j \in 1 .. Len(t) : t[j] \in keep => \E i \in 1 .. Len(b) : at[i] = j
Left(b, t, keep) == \E at : Places(at, b, t, keep)
EndOf(s, t) == \E p \in Seq(Chars) : t = Join(p, s)

Kept == IF Filter!HasImage(text) THEN {} ELSE Filter!Letters

\* The filter holds the end of the text; what it gave out is what is left of the
\* rest.
Removes(f) == Left(Join(f.out, Held(f)), text, Kept) /\ EndOf(Held(f), text)

\* A text that begins with a fence which does not end: the filter still holds
\* all of it, or is inside the fence, or has given it out.
Ticks(t) == \A i \in 1 .. Len(t) : i <= 3 => t[i] = "tick"
Fenced(t) == Ticks(t) /\ Filter!Find(t, <<"nl">> \o Filter!Fence, 1) = 0
Opening(f) == f.inl = "none" /\ f.sol /\ ~f.fence /\ f.buf = text /\ f.out = <<>>
Inside(f) == /\ f.inl = "none" /\ f.fence /\ Join(f.out, f.buf) = text
             /\ f.sol => f.out # <<>> /\ f.out[Len(f.out)] = "nl"
Passed(f) == Len(text) >= 3 => f.inl = "none" /\ f.buf = <<>> /\ f.out = text
FencePasses ==
    Fenced(text) => Opening(filter) \/ Inside(filter) \/ (calling \in {"flush", "closed"} /\ Passed(filter))

FilterInv ==
    /\ FilterTyped
    /\ filter.inl = "none" => filter.acc = <<>>
    /\ filter.fence => filter.inl = "none"
    /\ Removes(filter)
    /\ FencePasses
    /\ calling = "closed" => filter.buf = <<>> /\ filter.inl = "none"

-----------------------------------------------------------------------------
(* Lemmas about numbers and sequences.                                      *)

\* The least of some numbers.
LEMMA MinIs ==
    ASSUME NEW S \in SUBSET Nat, S # {}
    PROVE  Filter!Min(S) \in S /\ \A y \in S : Filter!Min(S) <= y
<1>1. \E x \in S : \A y \in S : ~(<<y, x>> \in OpToRel(<, Nat))
  BY NatLessThanWellFounded, WFMin
<1>2. \E x \in S : \A y \in S : x <= y
  <2>1. PICK x \in S : \A y \in S : ~(<<y, x>> \in OpToRel(<, Nat))
    BY <1>1
  <2>2. ASSUME NEW y \in S PROVE x <= y
    <3>1. x \in Nat /\ y \in Nat /\ <<y, x>> \in Nat \X Nat
      OBVIOUS
    <3>2. ~(<<y, x>>[1] < <<y, x>>[2])
      BY <2>1, <3>1 DEF OpToRel
    <3> QED BY <3>1, <3>2
  <2> QED BY <2>2
<1> QED BY <1>2 DEF Filter!Min

\* The greatest of some numbers up to a bound.
LEMMA MaxIs ==
    ASSUME NEW n \in Nat, NEW S \in SUBSET (0 .. n), S # {}
    PROVE  Filter!Max(S) \in S /\ \A y \in S : Filter!Max(S) >= y
<1>1. PICK T : T = {n - x : x \in S}
  OBVIOUS
<1>2. T \in SUBSET Nat /\ T # {}
  <2>1. \A x \in S : n - x \in Nat
    <3> TAKE x \in S
    <3>1. x \in 0 .. n OBVIOUS
    <3> QED BY <3>1
  <2>2. \A y \in T : y \in Nat
    BY <1>1, <2>1
  <2>3. T # {}
    <3>1. PICK x : x \in S OBVIOUS
    <3>2. n - x \in T BY <1>1, <3>1
    <3> QED BY <3>2
  <2> QED BY <2>2, <2>3
<1>3. PICK m \in T : \A y \in T : m <= y
  BY <1>2, MinIs
<1>4. PICK x \in S : m = n - x
  BY <1>1, <1>3
<1>5. \A y \in S : x >= y
  <2>1. TAKE y \in S
  <2>2. n - y \in T
    BY <1>1
  <2>3. m <= n - y
    BY <1>3, <2>2
  <2> QED BY <2>3, <1>4
<1> QED BY <1>5 DEF Filter!Max

\* Two parts of a sequence are the sequence.
LEMMA Split ==
    ASSUME NEW S, NEW b \in Seq(S), NEW i \in 0 .. Len(b)
    PROVE  /\ Filter!Upto(b, i) \in Seq(S) /\ Filter!From(b, i + 1) \in Seq(S)
           /\ Len(Filter!Upto(b, i)) = i /\ Len(Filter!From(b, i + 1)) = Len(b) - i
           /\ \A k \in 1 .. i : Filter!Upto(b, i)[k] = b[k]
           /\ \A k \in 1 .. Len(b) - i : Filter!From(b, i + 1)[k] = b[i + k]
           /\ b = Filter!Upto(b, i) \o Filter!From(b, i + 1)
<1>0. Len(b) \in Nat /\ \A k \in 1 .. Len(b) : b[k] \in S
  BY LenProperties, ElementOfSeq
<1>1. SubSeq(b, 1, i) \o SubSeq(b, i + 1, Len(b)) = b
  <2>1. SubSeq(b, 1, i) \o SubSeq(b, i + 1, Len(b)) = SubSeq(b, 1, Len(b))
    <3>1. 1 \in 1 .. Len(b) + 1 /\ i \in 1 - 1 .. Len(b) /\ Len(b) \in i .. Len(b)
      BY <1>0
    <3> QED BY <3>1, ConcatAdjacentSubSeq
  <2> QED BY <2>1, SubSeqFull
<1>2. /\ SubSeq(b, 1, i) \in Seq(S) /\ Len(SubSeq(b, 1, i)) = IF 1 <= i THEN i - 1 + 1 ELSE 0
      /\ \A k \in 1 .. i - 1 + 1 : SubSeq(b, 1, i)[k] = b[1 + k - 1]
  BY <1>0, SubSeqProperties
<1>3. /\ SubSeq(b, i + 1, Len(b)) \in Seq(S)
      /\ Len(SubSeq(b, i + 1, Len(b))) = IF i + 1 <= Len(b) THEN Len(b) - (i + 1) + 1 ELSE 0
      /\ \A k \in 1 .. Len(b) - (i + 1) + 1 : SubSeq(b, i + 1, Len(b))[k] = b[i + 1 + k - 1]
  BY <1>0, SubSeqProperties
<1>4. Filter!Upto(b, i) = SubSeq(b, 1, i) /\ Filter!From(b, i + 1) = SubSeq(b, i + 1, Len(b))
  BY DEF Filter!Upto, Filter!From
<1>5. \A k \in 1 .. Len(b) - i : Filter!From(b, i + 1)[k] = b[i + k]
  <2> TAKE k \in 1 .. Len(b) - i
  <2>1. k \in 1 .. Len(b) - (i + 1) + 1 /\ i + 1 + k - 1 = i + k BY <1>0
  <2> QED BY <2>1, <1>3, <1>4
<1>6. \A k \in 1 .. i : Filter!Upto(b, i)[k] = b[k]
  <2> TAKE k \in 1 .. i
  <2>1. k \in 1 .. i - 1 + 1 /\ 1 + k - 1 = k OBVIOUS
  <2> QED BY <2>1, <1>2, <1>4
<1>7. Len(Filter!Upto(b, i)) = i /\ Len(Filter!From(b, i + 1)) = Len(b) - i
  BY <1>0, <1>2, <1>3, <1>4
<1> QED BY <1>1, <1>2, <1>3, <1>4, <1>5, <1>6, <1>7

\* What is left of something left.
LEMMA LeftOfLeft ==
    ASSUME NEW S, NEW p \in Seq(S), NEW m \in Seq(S), NEW q \in Seq(S), NEW t \in Seq(S), NEW keep,
           Left(p \o (m \o q), t, keep), \A i \in 1 .. Len(m) : m[i] \notin keep
    PROVE  Left(p \o q, t, keep)
<1>0. Len(p) \in Nat /\ Len(m) \in Nat /\ Len(q) \in Nat /\ Len(t) \in Nat
  BY LenProperties
<1>1. PICK b, n, k, l : b = p \o (m \o q) /\ n = Len(p) /\ k = Len(m) /\ l = Len(q)
  OBVIOUS
<1>2. /\ m \o q \in Seq(S) /\ Len(m \o q) = k + l
      /\ \A i \in 1 .. k + l : (m \o q)[i] = IF i <= k THEN m[i] ELSE q[i - k]
  BY <1>1, ConcatProperties
<1>3. /\ b \in Seq(S) /\ Len(b) = n + (k + l)
      /\ \A i \in 1 .. n + (k + l) : b[i] = IF i <= n THEN p[i] ELSE (m \o q)[i - n]
  BY <1>1, <1>2, ConcatProperties
<1>4. /\ Len(p \o q) = n + l
      /\ \A i \in 1 .. n + l : (p \o q)[i] = IF i <= n THEN p[i] ELSE q[i - n]
  BY <1>1, ConcatProperties
<1>5. PICK at : Places(at, b, t, keep)
  BY <1>1 DEF Left
<1> USE DEF Places
<1>6. PICK to : to = [i \in 1 .. n + l |-> at[IF i <= n THEN i ELSE i + k]]
  OBVIOUS
<1>7. \A i \in 1 .. n + l : /\ (IF i <= n THEN i ELSE i + k) \in 1 .. Len(b)
                            /\ b[IF i <= n THEN i ELSE i + k] = (p \o q)[i]
  <2> TAKE i \in 1 .. n + l
  <2>1. CASE i <= n
    BY <2>1, <1>0, <1>1, <1>3, <1>4
  <2>2. CASE ~(i <= n)
    <3>1. i + k \in 1 .. n + (k + l) /\ ~(i + k <= n) /\ (i + k) - n \in 1 .. k + l
          /\ ~((i + k) - n <= k) /\ ((i + k) - n) - k = i - n
      BY <2>2, <1>0, <1>1
    <3>2. b[i + k] = q[i - n]
      BY <3>1, <1>2, <1>3
    <3> QED BY <2>2, <3>1, <3>2, <1>3, <1>4
  <2> QED BY <2>1, <2>2
<1>8. to \in [1 .. n + l -> 1 .. Len(t)]
  BY <1>5, <1>6, <1>7
<1>9. \A i, j \in 1 .. n + l : i < j => to[i] < to[j]
  <2> TAKE i, j \in 1 .. n + l
  <2> HAVE i < j
  <2>1. (IF i <= n THEN i ELSE i + k) < (IF j <= n THEN j ELSE j + k)
    BY <1>0, <1>1
  <2>2. to[i] = at[IF i <= n THEN i ELSE i + k] /\ to[j] = at[IF j <= n THEN j ELSE j + k]
    BY <1>6
  <2> QED BY <2>1, <2>2, <1>5, <1>7
<1>10. \A i \in 1 .. n + l : (p \o q)[i] = t[to[i]]
  BY <1>5, <1>6, <1>7
<1>11. \A j \in 1 .. Len(t) : t[j] \in keep => \E i \in 1 .. n + l : to[i] = j
  <2> TAKE j \in 1 .. Len(t)
  <2> HAVE t[j] \in keep
  <2>1. PICK i \in 1 .. Len(b) : at[i] = j
    BY <1>5
  <2>2. b[i] \in keep
    BY <1>5, <2>1
  <2>3. CASE i <= n
    <3>1. i \in 1 .. n + l /\ to[i] = j BY <2>3, <2>1, <1>6, <1>0, <1>1
    <3> QED BY <3>1
  <2>4. CASE i > n /\ i <= n + k
    <3>1. i \in 1 .. n + (k + l) /\ ~(i <= n) /\ i - n \in 1 .. k + l /\ i - n <= k /\ i - n \in 1 .. Len(m)
      BY <2>4, <1>0, <1>1, <1>3
    <3>2. b[i] = m[i - n]
      BY <3>1, <1>2, <1>3
    <3> QED BY <3>1, <3>2, <2>2
  <2>5. CASE i > n + k
    <3>1. i - k \in 1 .. n + l /\ ~(i - k <= n) /\ (i - k) + k = i
      BY <2>5, <1>0, <1>1, <1>3
    <3>2. to[i - k] = j BY <3>1, <2>1, <1>6
    <3> QED BY <3>1, <3>2
  <2> QED BY <2>3, <2>4, <2>5, <1>0, <1>1
<1>12. Places(to, p \o q, t, keep)
  BY <1>4, <1>8, <1>9, <1>10, <1>11
<1> QED BY <1>12 DEF Left

\* The module's cardinality is that of the library.
LEMMA SameCardinality == \A S : Filter!Cardinality(S) = Cardinality(S)
  BY DEF Filter!Cardinality, Cardinality

\* The places up to one are as many as their number.
LEMMA Rank ==
    ASSUME NEW n \in Nat, NEW at, \A i \in 1 .. n : at[i] \in Nat,
           \A i, j \in 1 .. n : i < j => at[i] < at[j]
    PROVE  Cardinality({at[j] : j \in 1 .. n}) = n
<1>1. PICK S, f : S = {at[j] : j \in 1 .. n} /\ f = [j \in 1 .. n |-> at[j]]
  OBVIOUS
<1>2. f \in [1 .. n -> S] /\ \A x \in S : \E j \in 1 .. n : f[j] = x
  BY <1>1
<1>3. \A i, j \in 1 .. n : f[i] = f[j] => i = j
  <2> TAKE i, j \in 1 .. n
  <2>1. f[i] = at[i] /\ f[j] = at[j] BY <1>1
  <2>2. at[i] \in Nat /\ at[j] \in Nat OBVIOUS
  <2>3. i < j => at[i] < at[j] OBVIOUS
  <2>4. j < i => at[j] < at[i] OBVIOUS
  <2>5. i \in Nat /\ j \in Nat OBVIOUS
  <2> QED BY ONLY <2>1, <2>2, <2>3, <2>4, <2>5
<1>4. f \in Bijection(1 .. n, S)
  BY <1>2, <1>3 DEF Bijection, Injection, Surjection, IsInjective
<1> QED BY <1>1, <1>4, FS_CountingElements DEF ExistsBijection

\* What is left is what the property says is left.
LEMMA LeftIsWithin ==
    ASSUME NEW S, NEW b \in Seq(S), NEW t \in Seq(S), NEW keep, Left(b, t, keep)
    PROVE  Filter!Within(b, t, keep)
<1>0. Len(b) \in Nat /\ Len(t) \in Nat /\ DOMAIN t = 1 .. Len(t)
  BY LenProperties
<1>1. PICK at : Places(at, b, t, keep)
  BY DEF Left
<1>2. PICK n : n = Len(b)
  OBVIOUS
<1> USE <1>0, <1>2
<1>3. /\ \A i \in 1 .. n : at[i] \in 1 .. Len(t)
      /\ \A i, j \in 1 .. n : i < j => at[i] < at[j]
  BY <1>1 DEF Places
<1>4. PICK P : P = {at[j] : j \in 1 .. n}
  OBVIOUS
<1>5. P \in SUBSET DOMAIN t
  <2>1. \A x \in P : x \in 1 .. Len(t) BY <1>3, <1>4
  <2> QED BY <2>1
<1>6. \A i \in DOMAIN t : t[i] \in keep => i \in P
  <2> TAKE i \in DOMAIN t
  <2> HAVE t[i] \in keep
  <2>1. PICK j \in 1 .. n : at[j] = i
    BY <1>1 DEF Places
  <2> QED BY <2>1, <1>4
<1>7. Cardinality(P) = n
  <2>1. \A i \in 1 .. n : at[i] \in Nat
    BY <1>3
  <2>2. n \in Nat OBVIOUS
  <2>3. Cardinality({at[j] : j \in 1 .. n}) = n
    BY ONLY <2>1, <2>2, <1>3, Rank
  <2> QED BY ONLY <2>3, <1>4
<1>8. ASSUME NEW i \in P PROVE t[i] = b[Cardinality({k \in P : k <= i})]
  <2>1. PICK j \in 1 .. n : i = at[j]
    BY <1>4
  <2>2. {k \in P : k <= i} = {at[l] : l \in 1 .. j}
    <3>1. ASSUME NEW l \in 1 .. n PROVE at[l] <= at[j] <=> l <= j
      <4>1. at[l] \in Nat /\ at[j] \in Nat BY <1>3
      <4>2. CASE l < j BY <4>1, <4>2, <1>3
      <4>3. CASE l = j BY <4>1, <4>3
      <4>4. CASE l > j BY <4>1, <4>4, <1>3
      <4> QED BY <4>2, <4>3, <4>4
    <3>2. \A l \in 1 .. j : l \in 1 .. n /\ l <= j
      OBVIOUS
    <3>3. \A x \in {at[l] : l \in 1 .. j} : x \in P /\ x <= i
      BY <3>1, <3>2, <2>1, <1>4
    <3>4. ASSUME NEW x \in P, x <= i PROVE x \in {at[l] : l \in 1 .. j}
      <4>1. PICK l \in 1 .. n : x = at[l] BY <1>4
      <4>2. l \in 1 .. j BY <4>1, <3>1, <3>4, <2>1
      <4> QED BY <4>1, <4>2
    <3> QED BY <3>3, <3>4
  <2>3. Cardinality({at[l] : l \in 1 .. j}) = j
    <3>1. \A l \in 1 .. j : at[l] \in Nat
      BY <1>3
    <3>2. \A k, l \in 1 .. j : k < l => at[k] < at[l]
      BY <1>3
    <3>3. j \in Nat OBVIOUS
    <3> QED BY ONLY <3>1, <3>2, <3>3, Rank
  <2>4. b[j] = t[at[j]]
    BY <1>1 DEF Places
  <2> QED BY <2>1, <2>2, <2>3, <2>4
<1>9. \A i \in P : t[i] = b[Cardinality({k \in P : k <= i})]
  BY <1>8
<1> QED BY <1>5, <1>6, <1>7, <1>9, SameCardinality DEF Filter!Within

\* A character that is read on both sides.
LEMMA LeftAndMore ==
    ASSUME NEW S, NEW b \in Seq(S), NEW t \in Seq(S), NEW c \in S, NEW keep, NEW more,
           more \subseteq keep, Left(b, t, keep)
    PROVE  Left(b \o <<c>>, t \o <<c>>, more)
<1>0. Len(b) \in Nat /\ Len(t) \in Nat /\ <<c>> \in Seq(S) /\ Len(<<c>>) = 1
  BY LenProperties
<1>1. PICK at : Places(at, b, t, keep)
  BY DEF Left
<1>2. PICK n, m, d, e : n = Len(b) /\ m = Len(t) /\ d = b \o <<c>> /\ e = t \o <<c>>
  OBVIOUS
<1>3. /\ Len(d) = n + 1 /\ Len(e) = m + 1
      /\ \A i \in 1 .. n : d[i] = b[i]
      /\ \A i \in 1 .. m : e[i] = t[i]
      /\ d[n + 1] = c /\ e[m + 1] = c
  <2>1. /\ Len(d) = n + 1
        /\ \A i \in 1 .. n + 1 : d[i] = IF i <= n THEN b[i] ELSE <<c>>[i - n]
    BY <1>0, <1>2, ConcatProperties
  <2>2. /\ Len(e) = m + 1
        /\ \A i \in 1 .. m + 1 : e[i] = IF i <= m THEN t[i] ELSE <<c>>[i - m]
    BY <1>0, <1>2, ConcatProperties
  <2>3. n \in Nat /\ m \in Nat BY <1>0, <1>2
  <2>4. \A i \in 1 .. n : i \in 1 .. n + 1 /\ i <= n BY <2>3
  <2>5. \A i \in 1 .. m : i \in 1 .. m + 1 /\ i <= m BY <2>3
  <2>6. n + 1 \in 1 .. n + 1 /\ ~(n + 1 <= n) /\ (n + 1) - n = 1 BY <2>3
  <2>7. m + 1 \in 1 .. m + 1 /\ ~(m + 1 <= m) /\ (m + 1) - m = 1 BY <2>3
  <2> QED BY <2>1, <2>2, <2>4, <2>5, <2>6, <2>7
<1>4. PICK to : to = [i \in 1 .. n + 1 |-> IF i = n + 1 THEN m + 1 ELSE at[i]]
  OBVIOUS
<1>5. n \in Nat /\ m \in Nat BY <1>0, <1>2
<1>6. /\ \A i \in 1 .. n : at[i] \in 1 .. m /\ b[i] = t[at[i]]
      /\ \A i, j \in 1 .. n : i < j => at[i] < at[j]
      /\ \A j \in 1 .. m : t[j] \in keep => \E i \in 1 .. n : at[i] = j
  BY <1>1, <1>2 DEF Places
<1>7. \A i \in 1 .. n : i \in 1 .. n + 1 /\ i # n + 1 /\ to[i] = at[i]
  BY <1>4, <1>5
<1>8. to[n + 1] = m + 1 /\ n + 1 \in 1 .. n + 1
  BY <1>4, <1>5
<1>9. \A i \in 1 .. n + 1 : i = n + 1 \/ i \in 1 .. n
  BY <1>5
<1>10. to \in [1 .. n + 1 -> 1 .. m + 1]
  <2>1. \A i \in 1 .. n + 1 : to[i] \in 1 .. m + 1
    BY <1>5, <1>6, <1>7, <1>8, <1>9
  <2> QED BY <2>1, <1>4
<1>11. \A i, j \in 1 .. n + 1 : i < j => to[i] < to[j]
  <2> TAKE i, j \in 1 .. n + 1
  <2> HAVE i < j
  <2>1. i \in 1 .. n BY <1>5
  <2>2. CASE j = n + 1 BY <2>1, <2>2, <1>5, <1>6, <1>7, <1>8
  <2>3. CASE j \in 1 .. n BY <2>1, <2>3, <1>6, <1>7
  <2> QED BY <2>2, <2>3, <1>9
<1>12. \A i \in 1 .. n + 1 : d[i] = e[to[i]]
  <2> TAKE i \in 1 .. n + 1
  <2>1. CASE i = n + 1 BY <2>1, <1>3, <1>8
  <2>2. CASE i \in 1 .. n
    <3>1. d[i] = b[i] /\ to[i] = at[i] /\ b[i] = t[at[i]] /\ at[i] \in 1 .. m BY <2>2, <1>3, <1>6, <1>7
    <3> QED BY <3>1, <1>3
  <2> QED BY <2>1, <2>2, <1>9
<1>13. \A j \in 1 .. m + 1 : e[j] \in more => \E i \in 1 .. n + 1 : to[i] = j
  <2> TAKE j \in 1 .. m + 1
  <2> HAVE e[j] \in more
  <2>1. CASE j = m + 1 BY <2>1, <1>8
  <2>2. CASE j \in 1 .. m
    <3>1. e[j] = t[j] BY <2>2, <1>3
    <3>2. PICK i \in 1 .. n : at[i] = j BY <2>2, <3>1, <1>6
    <3> QED BY <3>2, <1>7
  <2> QED BY <2>1, <2>2, <1>5
<1>14. Places(to, d, e, more)
  BY <1>3, <1>10, <1>11, <1>12, <1>13 DEF Places
<1> QED BY <1>2, <1>14 DEF Left

-----------------------------------------------------------------------------
(* What a turn of the loop does to the text.                                *)

\* The markers are characters, and no letters.
LEMMA MarkerTyped ==
    ASSUME NEW inl \in Marks
    PROVE  /\ Filter!Marker(inl) \in Seq(Chars)
           /\ Filter!Marker("none") = <<>>
           /\ \A i \in 1 .. Len(Filter!Marker(inl)) : Filter!Marker(inl)[i] \notin Filter!Letters
<1>1. "bang" \in Chars /\ "lb" \in Chars /\ "star" \in Chars /\ "under" \in Chars
  BY DEF Chars
<1>2. Filter!Marker("none") = <<>>
  BY DEF Filter!Marker
<1>3. CASE inl = "none"
  <2>1. <<>> \in Seq(Chars) /\ Len(<<>>) = 0
    BY EmptySeq
  <2>2. Filter!Marker(inl) = <<>>
    BY <1>2, <1>3
  <2>3. \A i \in 1 .. Len(Filter!Marker(inl)) : Filter!Marker(inl)[i] \notin Filter!Letters
    BY ONLY <2>1, <2>2
  <2> QED BY ONLY <2>1, <2>2, <2>3, <1>2
<1>4. CASE inl = "image"
  <2>1. Filter!Marker(inl) = <<"bang", "lb">> BY <1>4 DEF Filter!Marker
  <2> QED BY <1>1, <1>2, <2>1 DEF Filter!Letters
<1>5. CASE inl = "bold3"
  <2>1. Filter!Marker(inl) = <<"star", "star", "star">> BY <1>5 DEF Filter!Marker
  <2> QED BY <1>1, <1>2, <2>1 DEF Filter!Letters
<1>6. CASE inl = "ubold3"
  <2>1. Filter!Marker(inl) = <<"under", "under", "under">> BY <1>6 DEF Filter!Marker
  <2> QED BY <1>1, <1>2, <2>1 DEF Filter!Letters
<1>7. CASE inl = "italic"
  <2>1. Filter!Marker(inl) = <<"star">> BY <1>7 DEF Filter!Marker
  <2> QED BY <1>1, <1>2, <2>1 DEF Filter!Letters
<1>8. CASE inl = "uitalic"
  <2>1. Filter!Marker(inl) = <<"under">> BY <1>8 DEF Filter!Marker
  <2> QED BY <1>1, <1>2, <2>1 DEF Filter!Letters
<1> QED BY <1>3, <1>4, <1>5, <1>6, <1>7, <1>8 DEF Marks

LEMMA Joins ==
    ASSUME NEW x \in Seq(Chars), NEW y \in Seq(Chars)
    PROVE  Join(x, y) \in Seq(Chars)
  BY ConcatProperties DEF Join

LEMMA JoinsOfThree ==
    ASSUME NEW x \in Seq(Chars), NEW y \in Seq(Chars), NEW z \in Seq(Chars)
    PROVE  Join(Join(x, y), z) = Join(x, Join(y, z))
<1>1. (x \o y) \o z = x \o (y \o z)
  BY ConcatAssociative
<1> QED BY <1>1 DEF Join

LEMMA JoinsEmpty ==
    ASSUME NEW x \in Seq(Chars)
    PROVE  Join(x, <<>>) = x /\ Join(<<>>, x) = x
  BY ConcatEmptySeq DEF Join

\* What a filter holds is a text.
LEMMA HeldTyped ==
    ASSUME NEW f \in FilterRecord
    PROVE  /\ Held(f) \in Seq(Chars) /\ Join(f.acc, f.buf) \in Seq(Chars) /\ f.out \in Seq(Chars)
           /\ f.buf \in Seq(Chars) /\ f.acc \in Seq(Chars) /\ f.inl \in Marks
           /\ Filter!Marker(f.inl) \in Seq(Chars)
<1>1. f.out \in Seq(Chars) /\ f.buf \in Seq(Chars) /\ f.acc \in Seq(Chars) /\ f.inl \in Marks
  BY DEF FilterRecord
<1>2. Filter!Marker(f.inl) \in Seq(Chars)
  BY <1>1, MarkerTyped
<1>3. Join(f.acc, f.buf) \in Seq(Chars)
  BY <1>1, Joins
<1>4. Held(f) \in Seq(Chars)
  BY <1>2, <1>3, Joins DEF Held
<1> QED BY <1>1, <1>2, <1>3, <1>4

\* Without a marker the filter holds its buffer.
LEMMA HoldsBuffer ==
    ASSUME NEW f \in FilterRecord, f.inl = "none", f.acc = <<>>
    PROVE  Held(f) = f.buf
<1>1. Held(f) = Join(<<>>, Join(<<>>, f.buf))
  BY MarkerTyped, HeldTyped DEF Held
<1> QED BY <1>1, HeldTyped, JoinsEmpty

\* Characters that need not be kept may be removed anywhere.
LEMMA LeftWithout ==
    ASSUME text \in Seq(Chars), NEW p \in Seq(Chars), NEW m \in Seq(Chars), NEW q \in Seq(Chars),
           Left(Join(p, Join(m, q)), text, Kept), \A i \in 1 .. Len(m) : m[i] \notin Kept
    PROVE  Left(Join(p, q), text, Kept)
  BY LeftOfLeft DEF Join

\* A turn gives out what comes first of what was held, without what it removes.
LEMMA Turn ==
    ASSUME NEW f \in FilterRecord, NEW g \in FilterRecord, text \in Seq(Chars),
           NEW m \in Seq(Chars), NEW x \in Seq(Chars), NEW n \in Seq(Chars),
           Removes(f), Held(f) = Join(m, Join(x, Join(n, Held(g)))), g.out = Join(f.out, x),
           \A i \in 1 .. Len(m) : m[i] \notin Kept, \A i \in 1 .. Len(n) : n[i] \notin Kept
    PROVE  Removes(g)
<1>1. PICK h, o : h = Held(g) /\ o = f.out
  OBVIOUS
<1>2. h \in Seq(Chars) /\ o \in Seq(Chars)
  BY <1>1, HeldTyped
<1>3. Join(n, h) \in Seq(Chars) /\ Join(x, Join(n, h)) \in Seq(Chars) /\ Join(o, x) \in Seq(Chars)
  BY <1>2, Joins
<1>4. Left(Join(o, Join(m, Join(x, Join(n, h)))), text, Kept) /\ EndOf(Join(m, Join(x, Join(n, h))), text)
  BY <1>1 DEF Removes
<1>5. Left(Join(o, Join(x, Join(n, h))), text, Kept)
  BY <1>2, <1>3, <1>4, LeftWithout
<1>6. Join(o, Join(x, Join(n, h))) = Join(Join(o, x), Join(n, h))
  BY <1>2, <1>3, JoinsOfThree
<1>7. Left(Join(Join(o, x), h), text, Kept)
  BY <1>2, <1>3, <1>5, <1>6, LeftWithout
<1>8. EndOf(h, text)
  <2>1. PICK p \in Seq(Chars) : text = Join(p, Join(m, Join(x, Join(n, h))))
    BY <1>4 DEF EndOf
  <2>2. Join(x, Join(n, h)) = Join(Join(x, n), h) /\ Join(x, n) \in Seq(Chars)
    BY <1>2, Joins, JoinsOfThree
  <2>3. Join(m, Join(Join(x, n), h)) = Join(Join(m, Join(x, n)), h) /\ Join(m, Join(x, n)) \in Seq(Chars)
    BY <1>2, <2>2, Joins, JoinsOfThree
  <2>4. Join(p, Join(Join(m, Join(x, n)), h)) = Join(Join(p, Join(m, Join(x, n))), h)
    BY <1>2, <2>3, Joins, JoinsOfThree
  <2>5. Join(p, Join(m, Join(x, n))) \in Seq(Chars)
    BY <2>3, Joins
  <2>6. text = Join(Join(p, Join(m, Join(x, n))), h)
    BY <2>1, <2>2, <2>3, <2>4
  <2> QED BY <2>5, <2>6 DEF EndOf
<1> QED BY <1>1, <1>7, <1>8 DEF Removes

\* A turn that removes nothing.
LEMMA TurnKeeps ==
    ASSUME NEW f \in FilterRecord, NEW g \in FilterRecord, text \in Seq(Chars), NEW x \in Seq(Chars),
           Removes(f), Held(f) = Join(x, Held(g)), g.out = Join(f.out, x)
    PROVE  Removes(g)
<1>1. <<>> \in Seq(Chars) /\ Len(<<>>) = 0
  BY EmptySeq
<1>2. Join(x, Held(g)) \in Seq(Chars) /\ Held(g) \in Seq(Chars)
  BY HeldTyped, Joins
<1>3. Held(f) = Join(<<>>, Join(x, Join(<<>>, Held(g))))
  BY <1>2, JoinsEmpty
<1>4. \A i \in 1 .. Len(<<>>) : <<>>[i] \notin Kept
  BY <1>1
<1> QED BY <1>1, <1>3, <1>4, Turn

-----------------------------------------------------------------------------
(* Searching.                                                               *)

\* The first place where p is, or 0.
LEMMA FindIs ==
    ASSUME NEW b, NEW p, NEW i \in Nat, i >= 1, Len(b) \in Nat, Len(p) \in Nat
    PROVE  /\ Filter!Find(b, p, i) = 0 \/ /\ Filter!Find(b, p, i) \in i .. Len(b) - Len(p) + 1
                                          /\ SubSeq(b, Filter!Find(b, p, i), Filter!Find(b, p, i) + Len(p) - 1) = p
           /\ Filter!Find(b, p, i) = 0 =>
                \A k \in i .. Len(b) - Len(p) + 1 : SubSeq(b, k, k + Len(p) - 1) # p
<1>1. PICK S : S = {k \in i .. Len(b) - Len(p) + 1 : SubSeq(b, k, k + Len(p) - 1) = p}
  OBVIOUS
<1>2. Filter!Find(b, p, i) = IF S = {} THEN 0 ELSE Filter!Min(S)
  BY <1>1 DEF Filter!Find, Filter!First
<1>3. CASE S = {}
  BY <1>1, <1>2, <1>3
<1>4. CASE S # {}
  <2>1. \A k \in S : k \in Nat /\ k >= 1
    BY <1>1
  <2>2. Filter!Min(S) \in S
    BY <2>1, <1>4, MinIs
  <2>3. Filter!Min(S) # 0
    BY <2>1, <2>2
  <2> QED BY <1>1, <1>2, <1>4, <2>2, <2>3
<1> QED BY <1>3, <1>4

\* A single character is found where it is.
LEMMA FindOne ==
    ASSUME NEW S, NEW b \in Seq(S), NEW c, NEW i \in Nat, i >= 1
    PROVE  /\ Filter!Find(b, <<c>>, i) = 0 \/ /\ Filter!Find(b, <<c>>, i) \in i .. Len(b)
                                              /\ b[Filter!Find(b, <<c>>, i)] = c
           /\ Filter!Find(b, <<c>>, i) = 0 => \A k \in i .. Len(b) : b[k] # c
<1>1. Len(b) \in Nat /\ Len(<<c>>) = 1
  BY LenProperties
<1>2. ASSUME NEW k \in i .. Len(b) PROVE SubSeq(b, k, k + 1 - 1) = <<c>> <=> b[k] = c
  <2>1. k \in 1 .. Len(b) /\ k + 1 - 1 = k /\ k \in Int /\ k \in Nat
    BY <1>1
  <2>0. SubSeq(b, k, k + 1 - 1) = SubSeq(b, k, k) /\ <<c>>[1] = c
    BY <2>1
  <2>2. \A j \in k .. k : b[j] \in S
    BY <2>1, ElementOfSeq
  <2>3. /\ SubSeq(b, k, k) \in Seq(S) /\ Len(SubSeq(b, k, k)) = 1
        /\ SubSeq(b, k, k)[1] = b[k]
    <3>1. /\ SubSeq(b, k, k) \in Seq(S) /\ Len(SubSeq(b, k, k)) = IF k <= k THEN k - k + 1 ELSE 0
          /\ \A j \in 1 .. k - k + 1 : SubSeq(b, k, k)[j] = b[k + j - 1]
      BY <2>1, <2>2, SubSeqProperties
    <3>2. 1 \in 1 .. k - k + 1 /\ k + 1 - 1 = k /\ k - k + 1 = 1 /\ k <= k
      BY <2>1
    <3> QED BY <3>1, <3>2
  <2>4. ASSUME b[k] = c PROVE SubSeq(b, k, k) = <<c>>
    <3>1. <<c>> \in Seq(S) /\ <<c>>[1] = c
      BY <2>4, <2>1, ElementOfSeq
    <3>2. \A j \in 1 .. 1 : SubSeq(b, k, k)[j] = <<c>>[j]
      BY <2>3, <2>4, <3>1
    <3> QED BY <3>1, <3>2, <2>3, <1>1, SeqEqual
  <2>5. ASSUME SubSeq(b, k, k) = <<c>> PROVE b[k] = c
    BY ONLY <2>5, <2>3, <2>0
  <2> QED BY ONLY <2>0, <2>4, <2>5
<1>3. i .. Len(b) - Len(<<c>>) + 1 = i .. Len(b) /\ \A k : k + Len(<<c>>) - 1 = k + 1 - 1
  BY <1>1
<1>4. /\ Filter!Find(b, <<c>>, i) = 0 \/ /\ Filter!Find(b, <<c>>, i) \in i .. Len(b) - Len(<<c>>) + 1
                                         /\ SubSeq(b, Filter!Find(b, <<c>>, i), Filter!Find(b, <<c>>, i) + Len(<<c>>) - 1) = <<c>>
      /\ Filter!Find(b, <<c>>, i) = 0 =>
            \A k \in i .. Len(b) - Len(<<c>>) + 1 : SubSeq(b, k, k + Len(<<c>>) - 1) # <<c>>
  BY <1>1, FindIs
<1> QED BY <1>2, <1>3, <1>4

\* A run of c consists of c and ends in the buffer.
LEMMA RunEndIs ==
    ASSUME NEW S, NEW b \in Seq(S), NEW i \in 1 .. Len(b) + 1, NEW c, c # "end"
    PROVE  /\ Filter!RunEnd(b, i, c) \in i - 1 .. Len(b)
           /\ \A k \in i .. Filter!RunEnd(b, i, c) : b[k] = c
<1>1. Len(b) \in Nat /\ DOMAIN b = 1 .. Len(b)
  BY LenProperties
<1>2. PICK P : P = {k \in i .. Len(b) + 1 : Filter!At(b, k) # c}
  OBVIOUS
<1>3. Len(b) + 1 \in P
  BY <1>1, <1>2 DEF Filter!At
<1>4. \A k \in P : k \in Nat
  BY <1>1, <1>2
<1>5. Filter!Min(P) \in P /\ \A k \in P : Filter!Min(P) <= k
  BY <1>3, <1>4, MinIs
<1>6. Filter!RunEnd(b, i, c) = Filter!Min(P) - 1
  BY <1>2 DEF Filter!RunEnd
<1>7. Filter!Min(P) \in i .. Len(b) + 1
  BY <1>2, <1>5
<1>8. ASSUME NEW k \in i .. Filter!Min(P) - 1 PROVE b[k] = c
  <2>1. k \in i .. Len(b) + 1 /\ k \in 1 .. Len(b) /\ ~(Filter!Min(P) <= k)
    BY <1>1, <1>7
  <2>2. k \notin P BY <2>1, <1>5
  <2> QED BY <2>1, <2>2, <1>1, <1>2 DEF Filter!At
<1> QED BY <1>1, <1>6, <1>7, <1>8

-----------------------------------------------------------------------------
(* The turns of the loop.                                                   *)

TurnsWell(g) == /\ g \in FilterRecord /\ Removes(g)
                /\ (g.inl = "none" => g.acc = <<>>) /\ (g.fence => g.inl = "none")
Shifts(f, g) == Len(g.buf) # Len(f.buf) \/ g.inl # f.inl \/ g.sol # f.sol \/ g.fence # f.fence

\* Outside a marker, with something in the buffer.
Between == /\ text \in Seq(Chars)
           /\ filter \in FilterRecord /\ filter.inl = "none" /\ filter.acc = <<>> /\ Removes(filter)
           /\ filter.buf # <<>>

\* A buffer is cut in two.
LEMMA SplitChars ==
    ASSUME NEW b \in Seq(Chars), NEW i \in 0 .. Len(b)
    PROVE  /\ Filter!Upto(b, i) \in Seq(Chars) /\ Filter!From(b, i + 1) \in Seq(Chars)
           /\ Len(Filter!Upto(b, i)) = i /\ Len(Filter!From(b, i + 1)) = Len(b) - i
           /\ b = Join(Filter!Upto(b, i), Filter!From(b, i + 1))
  BY Split DEF Join

\* The first i characters are given out.
Emitted(g, i) ==
    /\ TurnsWell(g) /\ g.inl = "none" /\ Len(g.buf) = Len(filter.buf) - i
    /\ g.buf = Filter!From(filter.buf, i + 1) /\ g.out = Join(filter.out, Filter!Upto(filter.buf, i))

\* A filter that gave out the first i characters still only removes.
LEMMA EmittedIs ==
    ASSUME Between, NEW i \in 0 .. Len(filter.buf), NEW g \in FilterRecord, g.inl = "none", g.acc = <<>>,
           g.buf = Filter!From(filter.buf, i + 1), g.out = Join(filter.out, Filter!Upto(filter.buf, i))
    PROVE  Emitted(g, i)
<1>1. filter.buf \in Seq(Chars) /\ filter.out \in Seq(Chars) /\ filter \in FilterRecord
  BY HeldTyped DEF Between
<1>2. PICK x, y : x = Filter!Upto(filter.buf, i) /\ y = Filter!From(filter.buf, i + 1)
  OBVIOUS
<1>3. x \in Seq(Chars) /\ y \in Seq(Chars) /\ filter.buf = Join(x, y) /\ Len(y) = Len(filter.buf) - i
  BY <1>1, <1>2, SplitChars
<1>8. Held(filter) = filter.buf /\ Held(g) = y
  BY <1>1, <1>2, HoldsBuffer DEF Between
<1>9. Held(filter) = Join(x, Held(g)) /\ g.out = Join(filter.out, x)
  BY <1>2, <1>3, <1>8
<1>10. Removes(g)
  BY <1>1, <1>3, <1>9, TurnKeeps DEF Between
<1> QED BY <1>2, <1>3, <1>10 DEF TurnsWell, Emitted

\* Emit gives out the first i characters, whatever flag is set with it.
LEMMA EmitTurns ==
    ASSUME Between, NEW i \in 0 .. Len(filter.buf)
    PROVE  /\ Emitted(Filter!Emit(filter, i), i)
           /\ Filter!Emit(filter, i).sol = filter.sol /\ Filter!Emit(filter, i).fence = filter.fence
           /\ \A b \in BOOLEAN : /\ Emitted([Filter!Emit(filter, i) EXCEPT !.sol = b], i)
                                  /\ Emitted([Filter!Emit(filter, i) EXCEPT !.fence = b], i)
<1>1. filter.buf \in Seq(Chars) /\ filter.out \in Seq(Chars) /\ filter \in FilterRecord
  BY HeldTyped DEF Between
<1>2. PICK x, y, o : x = Filter!Upto(filter.buf, i) /\ y = Filter!From(filter.buf, i + 1) /\ o = Join(filter.out, x)
  OBVIOUS
<1>3. y \in Seq(Chars) /\ o \in Seq(Chars)
  BY <1>1, <1>2, SplitChars, Joins
<1>4. PICK e : e = [filter EXCEPT !.buf = y]
  OBVIOUS
<1>5. PICK f : f = [e EXCEPT !.out = o]
  OBVIOUS
<1>6. Filter!Emit(filter, i) = f
  BY <1>2, <1>4, <1>5 DEF Filter!Emit, Join
<1>7. e \in FilterRecord /\ e.inl = "none" /\ e.acc = <<>> /\ e.buf = y /\ e.sol = filter.sol /\ e.fence = filter.fence
  BY <1>1, <1>3, <1>4 DEF FilterRecord, Between
<1>8. f \in FilterRecord /\ f.inl = "none" /\ f.acc = <<>> /\ f.buf = y /\ f.out = o /\ f.sol = filter.sol
      /\ f.fence = filter.fence
  BY <1>3, <1>5, <1>7 DEF FilterRecord
<1>9. Emitted(f, i)
  BY <1>2, <1>8, EmittedIs
<1>10. ASSUME NEW b \in BOOLEAN PROVE Emitted([f EXCEPT !.sol = b], i) /\ Emitted([f EXCEPT !.fence = b], i)
  <2>1. PICK g, h : g = [f EXCEPT !.sol = b] /\ h = [f EXCEPT !.fence = b]
    OBVIOUS
  <2>2. g \in FilterRecord /\ g.inl = "none" /\ g.acc = <<>> /\ g.buf = y /\ g.out = o
    BY <2>1, <1>8 DEF FilterRecord
  <2>3. h \in FilterRecord /\ h.inl = "none" /\ h.acc = <<>> /\ h.buf = y /\ h.out = o
    BY <2>1, <1>8 DEF FilterRecord
  <2>4. Emitted(g, i) BY <1>2, <2>2, EmittedIs
  <2>5. Emitted(h, i) BY <1>2, <2>3, EmittedIs
  <2> QED BY <2>1, <2>4, <2>5
<1> QED BY <1>6, <1>8, <1>9, <1>10

\* It may give out the whole buffer.
LEMMA EmitAll ==
    ASSUME Between
    PROVE  /\ filter.buf \in Seq(Chars) /\ Len(filter.buf) \in Nat /\ Len(filter.buf) >= 1
           /\ \E l \in 1 .. Len(filter.buf) :
                /\ l = Len(filter.buf)
                /\ Emitted(Filter!Emit(filter, l), l)
                /\ \A b \in BOOLEAN : /\ Emitted([Filter!Emit(filter, l) EXCEPT !.sol = b], l)
                                       /\ Emitted([Filter!Emit(filter, l) EXCEPT !.fence = b], l)
<1>1. filter.buf \in Seq(Chars) /\ filter.buf # <<>>
  BY HeldTyped DEF Between
<1>2. Len(filter.buf) \in Nat \ {0}
  BY <1>1, EmptySeq
<1>3. PICK l \in 0 .. Len(filter.buf) : l = Len(filter.buf) /\ l >= 1
  BY <1>2
<1>4. /\ Emitted(Filter!Emit(filter, l), l)
      /\ \A b \in BOOLEAN : /\ Emitted([Filter!Emit(filter, l) EXCEPT !.sol = b], l)
                             /\ Emitted([Filter!Emit(filter, l) EXCEPT !.fence = b], l)
  BY EmitTurns
<1> QED BY <1>1, <1>2, <1>3, <1>4

\* Giving out a character is a move.
LEMMA EmittedMoves ==
    ASSUME Between, NEW i \in 1 .. Len(filter.buf), NEW g, Emitted(g, i)
    PROVE  TurnsWell(g) /\ Shifts(filter, g)
<1>1. Len(filter.buf) \in Nat BY EmitAll
<1> QED BY <1>1 DEF Emitted, Shifts

\* Leaving the start of a line gives out nothing.
LEMMA BodyTurns ==
    ASSUME Between, NEW g, g = Filter!Body(filter)
    PROVE  /\ TurnsWell(g) /\ g.inl = "none" /\ g.sol = FALSE /\ g.fence = filter.fence
           /\ g.buf = filter.buf /\ g.out = filter.out
<1>1. /\ g \in FilterRecord /\ g.inl = "none" /\ g.acc = <<>> /\ g.sol = FALSE
      /\ g.buf = filter.buf /\ g.out = filter.out /\ g.fence = filter.fence
  BY DEF Between, FilterRecord, Filter!Body
<1>2. Held(g) = Held(filter)
  BY <1>1, HoldsBuffer DEF Between
<1> QED BY <1>1, <1>2 DEF TurnsWell, Between, Removes

\* Inside a fence.
LEMMA PumpFenceTurns ==
    ASSUME Between, NEW eof \in BOOLEAN, NEW g, g = Filter!PumpFence(filter, eof)
    PROVE  TurnsWell(g) /\ (eof => Shifts(filter, g))
<1>1. PICK b, nl : b = filter.buf /\ nl = Filter!Find(b, <<"nl">>, IF filter.sol /\ Filter!IsPrefix(Filter!Fence, b) THEN 4 ELSE 1)
  OBVIOUS
<1>2. PICK l \in 1 .. Len(filter.buf) :
        /\ l = Len(filter.buf)
        /\ Emitted(Filter!Emit(filter, l), l)
        /\ \A x \in BOOLEAN : /\ Emitted([Filter!Emit(filter, l) EXCEPT !.sol = x], l)
                               /\ Emitted([Filter!Emit(filter, l) EXCEPT !.fence = x], l)
  BY EmitAll
<1>3. b \in Seq(Chars) /\ Len(b) \in Nat /\ l = Len(b)
  BY <1>1, <1>2, EmitAll
<1>4. nl \in 0 .. Len(filter.buf)
  BY <1>1, <1>3, FindOne
<1>5. TurnsWell(filter)
  BY DEF TurnsWell, Between
<1>6. Filter!IsPrefix(Filter!Fence, b) => Len(b) >= 3
  <2>1. Len(Filter!Fence) = 3 BY DEF Filter!Fence
  <2> QED BY <2>1, <1>3 DEF Filter!IsPrefix
<1>7. CASE filter.sol /\ Len(b) < 3 /\ ~eof
  <2>1. g = filter BY <1>1, <1>3, <1>6, <1>7 DEF Filter!PumpFence
  <2> QED BY <1>5, <1>7, <2>1
<1>8. CASE filter.sol /\ Filter!IsPrefix(Filter!Fence, b)
  <2>1. g = IF nl # 0 THEN [Filter!Emit(filter, nl) EXCEPT !.fence = FALSE]
            ELSE IF eof THEN [Filter!Emit(filter, l) EXCEPT !.fence = FALSE] ELSE filter
    BY <1>1, <1>3, <1>6, <1>8 DEF Filter!PumpFence
  <2>2. CASE nl # 0
    <3>1. nl \in 1 .. Len(filter.buf) BY <2>2, <1>4
    <3>2. Emitted(g, nl)
      BY <2>1, <2>2, <1>4, EmitTurns
    <3> QED BY <3>1, <3>2, EmittedMoves
  <2>3. CASE nl = 0 /\ eof
    <3>1. Emitted(g, l)
      BY <2>1, <2>3, <1>2
    <3> QED BY <3>1, EmittedMoves
  <2>4. CASE nl = 0 /\ ~eof
    BY <2>1, <2>4, <1>5
  <2> QED BY <2>2, <2>3, <2>4
<1>9. CASE ~(filter.sol /\ Filter!IsPrefix(Filter!Fence, b)) /\ ~(filter.sol /\ Len(b) < 3 /\ ~eof)
  <2>1. g = IF nl # 0 THEN [Filter!Emit(filter, nl) EXCEPT !.sol = TRUE] ELSE Filter!Body(Filter!Emit(filter, l))
    BY <1>1, <1>3, <1>9 DEF Filter!PumpFence
  <2>2. CASE nl # 0
    <3>1. nl \in 1 .. Len(filter.buf) BY <2>2, <1>4
    <3>2. Emitted(g, nl)
      BY <2>1, <2>2, <1>4, EmitTurns
    <3> QED BY <3>1, <3>2, EmittedMoves
  <2>3. CASE nl = 0
    <3>1. g = [Filter!Emit(filter, l) EXCEPT !.sol = FALSE]
      BY <2>1, <2>3 DEF Filter!Body
    <3>2. Emitted(g, l)
      BY <3>1, <1>2
    <3> QED BY <3>2, EmittedMoves
  <2> QED BY <2>2, <2>3
<1> QED BY <1>7, <1>8, <1>9


\* Characters that are removed where the buffer begins.
LEMMA DropTurns ==
    ASSUME Between, NEW i \in 1 .. Len(filter.buf), \A k \in 1 .. i : filter.buf[k] \notin Filter!Letters,
           NEW g \in FilterRecord, g.inl = "none", g.acc = <<>>, g.out = filter.out,
           g.buf = Filter!From(filter.buf, i + 1)
    PROVE  TurnsWell(g) /\ Shifts(filter, g)
<1>1. /\ filter.buf \in Seq(Chars) /\ filter.out \in Seq(Chars) /\ filter \in FilterRecord
      /\ Len(filter.buf) \in Nat /\ <<>> \in Seq(Chars) /\ Len(<<>>) = 0
  BY HeldTyped, EmitAll, EmptySeq DEF Between
<1>2. PICK m, y : m = Filter!Upto(filter.buf, i) /\ y = Filter!From(filter.buf, i + 1)
  OBVIOUS
<1>3. i \in 0 .. Len(filter.buf)
  BY <1>1
<1>4. /\ m \in Seq(Chars) /\ y \in Seq(Chars) /\ filter.buf = Join(m, y)
      /\ Len(m) = i /\ Len(y) = Len(filter.buf) - i
  BY <1>1, <1>2, <1>3, SplitChars
<1>5. \A k \in 1 .. i : m[k] = filter.buf[k]
  BY <1>1, <1>2, <1>3, Split
<1>6. \A k \in 1 .. Len(m) : m[k] \notin Kept
  BY <1>4, <1>5 DEF Kept
<1>7. Held(filter) = filter.buf /\ Held(g) = y
  BY <1>1, <1>2, HoldsBuffer DEF Between
<1>8. Held(filter) = Join(m, Join(<<>>, Join(<<>>, Held(g)))) /\ g.out = Join(filter.out, <<>>)
  BY <1>1, <1>4, <1>7, JoinsEmpty
<1>9. \A k \in 1 .. Len(<<>>) : <<>>[k] \notin Kept
  BY <1>1
<1>10. Removes(g)
  BY <1>1, <1>4, <1>6, <1>8, <1>9, Turn DEF Between
<1> QED BY <1>1, <1>2, <1>4, <1>10 DEF TurnsWell, Shifts

\* At the start of a line.
LEMMA PumpSOLTurns ==
    ASSUME Between, filter.sol, NEW eof \in BOOLEAN, NEW g, g = Filter!PumpSOL(filter, eof)
    PROVE  TurnsWell(g) /\ (eof => Shifts(filter, g))
<1>1. PICK b, c, nl, hashes, rule, marks :
        /\ b = filter.buf /\ c = b[1]
        /\ nl = Filter!Find(b, <<"nl">>, 4)
        /\ hashes = Filter!RunEnd(b, 1, "hash")
        /\ rule = Filter!Min({k \in 1 .. Len(b) + 1 : Filter!At(b, k) \notin {c, "space"}}) - 1
        /\ marks = Filter!Cardinality({k \in 1 .. rule : b[k] = c})
  OBVIOUS
<1>2. PICK l \in 1 .. Len(filter.buf) :
        /\ l = Len(filter.buf)
        /\ Emitted(Filter!Emit(filter, l), l)
        /\ \A x \in BOOLEAN : /\ Emitted([Filter!Emit(filter, l) EXCEPT !.sol = x], l)
                               /\ Emitted([Filter!Emit(filter, l) EXCEPT !.fence = x], l)
  BY EmitAll
<1>3. b \in Seq(Chars) /\ Len(b) \in Nat /\ l = Len(b) /\ DOMAIN b = 1 .. Len(b) /\ Len(b) >= 1
  BY <1>1, <1>2, EmitAll, LenProperties
<1>4. nl \in 0 .. Len(filter.buf)
  BY <1>1, <1>3, FindOne
<1>5. TurnsWell(filter)
  BY DEF TurnsWell, Between
<1>6. Filter!IsPrefix(Filter!Fence, b) => Len(b) >= 3
  <2>1. Len(Filter!Fence) = 3 BY DEF Filter!Fence
  <2> QED BY <2>1, <1>3 DEF Filter!IsPrefix
<1>7. hashes \in 0 .. Len(b) /\ \A k \in 1 .. hashes : b[k] = "hash"
  <2>1. 1 \in 1 .. Len(b) + 1 /\ "hash" # "end" /\ 1 - 1 = 0
    BY <1>3
  <2>2. /\ Filter!RunEnd(b, 1, "hash") \in 1 - 1 .. Len(b)
        /\ \A k \in 1 .. Filter!RunEnd(b, 1, "hash") : b[k] = "hash"
    BY ONLY <2>1, <1>3, RunEndIs
  <2> QED BY ONLY <2>1, <2>2, <1>1
<1>8. Filter!At(b, Len(b) + 1) = "end"
  BY <1>3 DEF Filter!At
<1>9. g = CASE c = "nl" -> Filter!Emit(filter, 1)
         [] c = "tick" /\ Len(b) < 3 /\ ~eof -> filter
         [] c = "tick" /\ Filter!IsPrefix(Filter!Fence, b) ->
              IF nl # 0 THEN [Filter!Emit(filter, nl) EXCEPT !.fence = TRUE]
              ELSE IF eof THEN Filter!Emit(filter, l) ELSE filter
         [] c = "hash" /\ hashes = Len(b) /\ ~eof -> filter
         [] c = "hash" /\ hashes \in 5 .. 6 /\ Filter!At(b, hashes + 1) = "space" ->
              Filter!Body([filter EXCEPT !.buf = Filter!From(b, hashes + 2)])
         [] c = "space" /\ Filter!RunEnd(b, 1, "space") = Len(b) /\ ~eof -> filter
         [] c \in {"dash", "star", "under"} /\ rule = Len(b) /\ ~eof -> filter
         [] c \in {"dash", "star", "under"} /\ (eof \/ rule < Len(b)) /\ Filter!At(b, rule + 1) \in {"end", "nl"} /\ marks >= 3 ->
              Filter!Emit(filter, Filter!Min({rule + 1, Len(b)}))
         [] OTHER -> Filter!Body(filter)
  BY <1>1, <1>3 DEF Filter!PumpSOL
<1>10. Shifts(filter, Filter!Body(filter)) /\ TurnsWell(Filter!Body(filter))
  BY BodyTurns DEF Shifts
<1>11. CASE c = "nl"
  <2>1. g = Filter!Emit(filter, 1)
    BY <1>9, <1>11
  <2>2. 1 \in 1 .. Len(filter.buf) /\ 1 \in 0 .. Len(filter.buf)
    BY <1>1, <1>3
  <2> QED BY <2>1, <2>2, EmitTurns, EmittedMoves
<1>12. CASE c = "tick"
  <2>1. CASE Len(b) < 3 /\ ~eof
    <3>1. g = filter BY <1>9, <1>12, <1>6, <1>3, <2>1
    <3> QED BY <3>1, <2>1, <1>5
  <2>2. CASE Filter!IsPrefix(Filter!Fence, b)
    <3>1. g = IF nl # 0 THEN [Filter!Emit(filter, nl) EXCEPT !.fence = TRUE]
              ELSE IF eof THEN Filter!Emit(filter, l) ELSE filter
      BY <1>9, <1>12, <1>6, <1>3, <2>2
    <3>2. CASE nl # 0
      <4>1. nl \in 1 .. Len(filter.buf) BY <3>2, <1>4
      <4>2. Emitted(g, nl)
        BY <3>1, <3>2, <1>4, EmitTurns
      <4> QED BY <4>1, <4>2, EmittedMoves
    <3>3. CASE nl = 0 /\ eof
      <4>1. Emitted(g, l)
        BY <3>1, <3>3, <1>2
      <4> QED BY <4>1, EmittedMoves
    <3>4. CASE nl = 0 /\ ~eof
      BY <3>1, <3>4, <1>5
    <3> QED BY <3>2, <3>3, <3>4
  <2>3. CASE ~(Len(b) < 3 /\ ~eof) /\ ~Filter!IsPrefix(Filter!Fence, b)
    <3>1. g = Filter!Body(filter) BY <1>9, <1>12, <2>3
    <3> QED BY <3>1, <1>10
  <2> QED BY <2>1, <2>2, <2>3
<1>13. CASE c = "hash"
  <2>1. CASE hashes = Len(b) /\ ~eof
    <3>1. Filter!At(b, hashes + 1) # "space" BY <2>1, <1>8
    <3>2. g = filter BY <1>9, <1>13, <2>1, <3>1
    <3> QED BY <3>2, <2>1, <1>5
  <2>2. CASE hashes \in 5 .. 6 /\ Filter!At(b, hashes + 1) = "space"
    <3>1. hashes + 1 \in 1 .. Len(b) /\ b[hashes + 1] = "space"
      BY <2>2, <1>3 DEF Filter!At
    <3>2. g = Filter!Body([filter EXCEPT !.buf = Filter!From(b, hashes + 2)])
      <4>1. hashes # Len(b) BY <2>2, <1>8
      <4> QED BY <1>9, <1>13, <2>2, <4>1
    <3>3. \A k \in 1 .. hashes + 1 : b[k] \notin Filter!Letters
      <4>1. \A k \in 1 .. hashes + 1 : k = hashes + 1 \/ k \in 1 .. hashes
        BY <1>7
      <4> QED BY <4>1, <3>1, <1>7 DEF Filter!Letters
    <3>4. PICK y : y = Filter!From(b, (hashes + 1) + 1)
      OBVIOUS
    <3>5. y \in Seq(Chars)
      BY <3>1, <3>4, <1>3, SplitChars
    <3>6. PICK e : e = [filter EXCEPT !.buf = y]
      OBVIOUS
    <3>7. g = [e EXCEPT !.sol = FALSE]
      <4>1. (hashes + 1) + 1 = hashes + 2 BY <1>7
      <4>2. y = Filter!From(b, hashes + 2) BY ONLY <4>1, <3>4
      <4> QED BY ONLY <3>2, <3>6, <4>2 DEF Filter!Body
    <3>8. e \in FilterRecord /\ e.inl = "none" /\ e.acc = <<>> /\ e.out = filter.out /\ e.buf = y
      BY <3>5, <3>6 DEF Between, FilterRecord
    <3>9. g \in FilterRecord /\ g.inl = "none" /\ g.acc = <<>> /\ g.out = filter.out /\ g.buf = y
      BY <3>7, <3>8 DEF FilterRecord
    <3> QED BY <3>1, <3>3, <3>4, <3>9, <1>1, DropTurns
  <2>3. CASE ~(hashes = Len(b) /\ ~eof) /\ ~(hashes \in 5 .. 6 /\ Filter!At(b, hashes + 1) = "space")
    <3>1. g = Filter!Body(filter) BY <1>9, <1>13, <2>3
    <3> QED BY <3>1, <1>10
  <2> QED BY <2>1, <2>2, <2>3
<1>14. CASE c = "space"
  <2>1. (g = filter /\ ~eof) \/ g = Filter!Body(filter)
    BY <1>9, <1>14
  <2> QED BY <2>1, <1>5, <1>10
<1>15. CASE c \in {"dash", "star", "under"}
  <2>1. PICK P : P = {k \in 1 .. Len(b) + 1 : Filter!At(b, k) \notin {c, "space"}}
    OBVIOUS
  <2>2. Len(b) + 1 \in P
    BY <2>1, <1>3, <1>8, <1>15
  <2>3. rule \in 0 .. Len(b)
    <3>1. \A k \in P : k \in Nat BY <2>1, <1>3
    <3>2. Filter!Min(P) \in P BY <2>2, <3>1, MinIs
    <3> QED BY <3>2, <2>1, <1>1, <1>3
  <2>4. PICK n : n = Filter!Min({rule + 1, Len(b)})
    OBVIOUS
  <2>5. n \in 1 .. Len(filter.buf) /\ n \in 0 .. Len(filter.buf)
    <3>1. {rule + 1, Len(b)} \in SUBSET Nat BY <2>3, <1>3
    <3>2. n \in {rule + 1, Len(b)} /\ n <= Len(b) BY <3>1, <2>4, MinIs
    <3> QED BY <3>2, <2>3, <1>1, <1>3
  <2>6. CASE rule = Len(b) /\ ~eof
    <3>1. g = filter BY <1>9, <1>15, <2>6
    <3> QED BY <3>1, <2>6, <1>5
  <2>7. CASE (eof \/ rule < Len(b)) /\ Filter!At(b, rule + 1) \in {"end", "nl"} /\ marks >= 3
    <3>1. g = Filter!Emit(filter, n) BY <1>9, <1>15, <1>3, <2>3, <2>4, <2>7
    <3> QED BY <3>1, <2>5, EmitTurns, EmittedMoves
  <2>8. CASE ~(rule = Len(b) /\ ~eof) /\ ~((eof \/ rule < Len(b)) /\ Filter!At(b, rule + 1) \in {"end", "nl"} /\ marks >= 3)
    <3>1. g = Filter!Body(filter) BY <1>9, <1>15, <2>8
    <3> QED BY <3>1, <1>10
  <2> QED BY <2>6, <2>7, <2>8
<1>16. CASE c \notin {"nl", "tick", "hash", "space", "dash", "star", "under"}
  <2>1. g = Filter!Body(filter) BY <1>9, <1>16
  <2> QED BY <2>1, <1>10
<1> QED BY <1>11, <1>12, <1>13, <1>14, <1>15, <1>16

\* What opens a marker is the marker.
LEMMA OpensIs ==
    ASSUME NEW b \in Seq(Chars), NEW i \in 1 .. Len(b), NEW inl, inl = Filter!Opens(b, i), inl # "none"
    PROVE  /\ inl \in Marks
           /\ \E n \in 1 .. Len(b) - i + 1 :
                /\ n = Len(Filter!Marker(inl))
                /\ \A k \in 1 .. n : b[i + k - 1] = Filter!Marker(inl)[k]
<1>1. PICK c, run : c = b[i] /\ run = Filter!RunEnd(b, i, c) - i + 1
  OBVIOUS
<1>2. Len(b) \in Nat /\ DOMAIN b = 1 .. Len(b) /\ i \in Nat /\ i >= 1 /\ i <= Len(b)
  BY LenProperties
<1>3. inl = CASE c = "bang" /\ Filter!At(b, i + 1) = "lb" -> "image"
              [] c \in {"star", "under"} /\ Filter!RunStart(b, i, c) = i /\ run >= 3 ->
                   (IF c = "star" THEN "bold3" ELSE "ubold3")
              [] c \in {"star", "under"} /\ Filter!RunStart(b, i, c) = i /\ run = 1
                 /\ Filter!At(b, i + 1) \notin {"space", "nl", "end"} ->
                   (IF c = "star" THEN "italic" ELSE "uitalic")
              [] OTHER -> "none"
  BY ONLY <1>1, inl = Filter!Opens(b, i) DEF Filter!Opens
<1>4. CASE c = "bang"
  <2>1. Filter!At(b, i + 1) = "lb" /\ inl = "image"
    BY ONLY <1>3, <1>4, inl # "none"
  <2>2. i + 1 \in 1 .. Len(b) /\ b[i + 1] = "lb"
    BY <2>1, <1>2 DEF Filter!At
  <2>3. Filter!Marker(inl) = <<"bang", "lb">>
    BY ONLY <2>1 DEF Filter!Marker
  <2>4. 2 \in 1 .. Len(b) - i + 1 /\ 2 = Len(Filter!Marker(inl))
    BY <2>2, <2>3, <1>2
  <2>5. ASSUME NEW k \in 1 .. 2 PROVE b[i + k - 1] = Filter!Marker(inl)[k]
    <3>0. Filter!Marker(inl)[1] = "bang" /\ Filter!Marker(inl)[2] = "lb"
      BY ONLY <2>3
    <3>1. CASE k = 1
      <4>1. i + k - 1 = i BY <1>2, <3>1
      <4> QED BY <4>1, <3>0, <3>1, <1>1, <1>4
    <3>2. CASE k = 2
      <4>1. i + k - 1 = i + 1 BY <1>2, <3>2
      <4> QED BY <4>1, <3>0, <3>2, <2>2
    <3> QED BY <3>1, <3>2
  <2> QED BY <2>1, <2>4, <2>5 DEF Marks
<1>5. CASE c \in {"star", "under"}
  <2>1. \/ run >= 3 /\ inl = (IF c = "star" THEN "bold3" ELSE "ubold3")
        \/ run = 1 /\ ~(run >= 3) /\ inl = (IF c = "star" THEN "italic" ELSE "uitalic")
    <3>1. c # "bang" BY <1>5
    <3>2. CASE Filter!RunStart(b, i, c) = i /\ run >= 3
      BY ONLY <1>3, <1>5, <3>1, <3>2
    <3>3. CASE ~(Filter!RunStart(b, i, c) = i /\ run >= 3)
      <4>1. /\ Filter!RunStart(b, i, c) = i /\ run = 1
            /\ inl = (IF c = "star" THEN "italic" ELSE "uitalic")
        BY ONLY <1>3, <1>5, <3>1, <3>3, inl # "none"
      <4>2. ~(run >= 3) BY <4>1
      <4> QED BY <4>1, <4>2
    <3> QED BY <3>2, <3>3
  <2>2. Filter!RunEnd(b, i, c) \in i - 1 .. Len(b) /\ \A k \in i .. Filter!RunEnd(b, i, c) : b[k] = c
    <3>1. i \in 1 .. Len(b) + 1 /\ c # "end" BY <1>2, <1>5
    <3> QED BY ONLY <3>1, RunEndIs, b \in Seq(Chars)
  <2>3. run \in 0 .. Len(b) - i + 1 /\ Filter!RunEnd(b, i, c) = i + run - 1
    BY <1>1, <1>2, <2>2
  <2>4. Filter!Marker(inl) = (IF run >= 3 THEN <<c, c, c>> ELSE <<c>>)
    BY ONLY <2>1, <1>5 DEF Filter!Marker
  <2>5. PICK n \in 1 .. Len(b) - i + 1 : n = IF run >= 3 THEN 3 ELSE 1
    <3>1. run >= 3 \/ run = 1 BY <2>1
    <3> QED BY <3>1, <2>3, <1>2
  <2>6. n = Len(Filter!Marker(inl)) /\ n <= run
    BY ONLY <2>1, <2>3, <2>4, <2>5
  <2>7. ASSUME NEW k \in 1 .. n PROVE b[i + k - 1] = Filter!Marker(inl)[k]
    <3>1. i + k - 1 \in i .. Filter!RunEnd(b, i, c) BY <1>2, <2>3, <2>5, <2>6
    <3>2. Filter!Marker(inl)[k] = c
      <4>1. k \in {1, 2, 3} /\ (~(run >= 3) => k = 1) BY <2>5
      <4> QED BY ONLY <4>1, <2>4
    <3> QED BY <3>1, <3>2, <2>2
  <2>8. inl \in Marks BY <2>1 DEF Marks
  <2> QED BY <2>6, <2>7, <2>8
<1>6. CASE c \notin {"bang", "star", "under"}
  <2>1. inl = "none" BY ONLY <1>3, <1>6
  <2> QED BY <2>1
<1> QED BY <1>4, <1>5, <1>6

\* A sequence that has m at i is cut before and after it.
LEMMA SplitAt ==
    ASSUME NEW b \in Seq(Chars), NEW i \in 1 .. Len(b), NEW m \in Seq(Chars),
           i + Len(m) <= Len(b) + 1, \A k \in 1 .. Len(m) : b[i + k - 1] = m[k]
    PROVE  /\ Filter!Upto(b, i - 1) \in Seq(Chars) /\ Filter!From(b, i + Len(m)) \in Seq(Chars)
           /\ Len(Filter!From(b, i + Len(m))) = Len(b) - (i + Len(m)) + 1
           /\ b = Join(Filter!Upto(b, i - 1), Join(m, Filter!From(b, i + Len(m))))
<1>1. Len(b) \in Nat /\ Len(m) \in Nat
  BY LenProperties
<1>2. PICK n, j, x, y, z, d : /\ n = Len(m) /\ j = i - 1 /\ x = Filter!Upto(b, j) /\ y = Filter!From(b, i + n)
                              /\ z = Filter!From(b, j + 1) /\ d = Join(m, y)
  OBVIOUS
<1>3. /\ j \in 0 .. Len(b) /\ j + 1 = i
      /\ x \in Seq(Chars) /\ z \in Seq(Chars) /\ Len(z) = Len(b) - j /\ b = Join(x, z)
      /\ \A k \in 1 .. Len(b) - j : z[k] = b[j + k]
  <2>1. j \in 0 .. Len(b) /\ j + 1 = i BY <1>1, <1>2
  <2>2. x \in Seq(Chars) /\ z \in Seq(Chars) /\ Len(z) = Len(b) - j /\ b = Join(x, z)
    BY <2>1, <1>2, SplitChars
  <2>3. \A k \in 1 .. Len(b) - j : z[k] = b[j + k]
    BY <2>1, <1>2, Split
  <2> QED BY <2>1, <2>2, <2>3
<1>4. PICK e : e = i + n - 1
  OBVIOUS
<1>5. e \in 0 .. Len(b) /\ e + 1 = i + n
  BY <1>1, <1>2, <1>4
<1>6. y \in Seq(Chars) /\ Len(y) = Len(b) - e /\ \A k \in 1 .. Len(b) - e : y[k] = b[e + k]
  BY <1>2, <1>5, Split
<1>7. /\ d \in Seq(Chars) /\ Len(d) = n + Len(y)
      /\ \A k \in 1 .. n + Len(y) : d[k] = IF k <= n THEN m[k] ELSE y[k - n]
  BY <1>2, <1>6, ConcatProperties DEF Join
<1>8. Len(d) = Len(z) /\ Len(z) \in Nat
  BY <1>1, <1>2, <1>3, <1>4, <1>6, <1>7
<1>9. ASSUME NEW k \in 1 .. Len(z) PROVE z[k] = d[k]
  <2>1. k \in 1 .. Len(b) - j /\ k \in 1 .. n + Len(y) /\ z[k] = b[j + k]
    BY <1>3, <1>7, <1>8
  <2>2. CASE k <= n
    <3>1. i + k - 1 = j + k /\ k \in 1 .. n BY <2>2, <1>2, <1>1
    <3> QED BY <3>1, <2>1, <2>2, <1>2, <1>7
  <2>3. CASE ~(k <= n)
    <3>1. k - n \in 1 .. Len(b) - e /\ e + (k - n) = j + k BY <2>1, <2>3, <1>1, <1>2, <1>4, <1>6
    <3>2. y[k - n] = b[j + k] BY ONLY <3>1, <1>6
    <3> QED BY ONLY <2>1, <2>3, <3>2, <1>7
  <2> QED BY <2>2, <2>3
<1>10. z = d
  BY ONLY <1>3, <1>7, <1>8, <1>9, SeqEqual
<1>11. Len(y) = Len(b) - (i + n) + 1
  BY <1>1, <1>2, <1>4, <1>6
<1> QED BY ONLY <1>2, <1>3, <1>6, <1>10, <1>11

\* What is held back is in the buffer.
LEMMA HoldIs ==
    ASSUME NEW b \in Seq(Chars), b # <<>>
    PROVE  Filter!Hold(b) \in 0 .. Len(b)
<1>1. PICK l, c, s : l = Len(b) /\ c = Filter!At(b, l) /\ s = Filter!RunStart(b, l, c)
  OBVIOUS
<1>2. l \in Nat /\ l >= 1
  BY <1>1, EmptySeq
<1>3. s \in 1 .. l + 1
  <2>1. PICK P : P = {k \in 0 .. l : k = 0 \/ b[k] # c}
    OBVIOUS
  <2>2. P \in SUBSET (0 .. l) /\ P # {}
    <3>1. 0 \in P BY <2>1, <1>2
    <3>2. \A k \in P : k \in 0 .. l BY <2>1
    <3> QED BY <3>1, <3>2
  <2>3. Filter!Max(P) \in 0 .. l
    BY <2>2, <1>2, MaxIs
  <2>4. s = Filter!Max(P) + 1
    BY ONLY <1>1, <2>1 DEF Filter!RunStart
  <2> QED BY <2>3, <2>4, <1>2
<1>4. Filter!Max({s, l - 1}) \in {s, l - 1} /\ Filter!Max({s, l - 1}) >= l - 1 /\ Filter!Max({s, l - 1}) >= s
  <2>1. {s, l - 1} \in SUBSET (0 .. l + 1) /\ l + 1 \in Nat
    BY <1>2, <1>3
  <2> QED BY <2>1, MaxIs
<1>5. Filter!Hold(b) \in {l - Filter!Max({s, l - 1}) + 1, 1, 0}
  BY ONLY <1>1 DEF Filter!Hold
<1>6. PICK n : n = Filter!Max({s, l - 1})
  OBVIOUS
<1>7. n \in l - 1 .. l + 1 /\ l - n + 1 \in 0 .. l
  <2>1. n \in {s, l - 1} /\ n >= l - 1 /\ n >= s BY <1>4, <1>6
  <2> QED BY ONLY <2>1, <1>2, <1>3
<1>8. l - n + 1 \in 0 .. l /\ 1 \in 0 .. l /\ 0 \in 0 .. l
  BY ONLY <1>2, <1>7
<1>9. Filter!Hold(b) \in {l - n + 1, 1, 0}
  BY ONLY <1>5, <1>6
<1>10. Filter!Hold(b) \in 0 .. l
  BY ONLY <1>8, <1>9
<1> QED BY ONLY <1>1, <1>10

\* Between markers.
LEMMA PumpBodyTurns ==
    ASSUME Between, ~filter.fence, NEW eof \in BOOLEAN, NEW g, g = Filter!PumpBody(filter, eof)
    PROVE  TurnsWell(g) /\ (eof => Shifts(filter, g))
<1>1. PICK b, stop : /\ b = filter.buf
                     /\ stop = Filter!First({i \in 1 .. Len(b) : b[i] = "nl" \/ Filter!Opens(b, i) # "none"})
  OBVIOUS
<1>2. /\ b \in Seq(Chars) /\ Len(b) \in Nat /\ Len(b) >= 1 /\ b # <<>>
      /\ filter \in FilterRecord /\ filter.out \in Seq(Chars)
  BY <1>1, EmitAll, HeldTyped DEF Between
<1>3. stop = 0 \/ (stop \in 1 .. Len(b) /\ (b[stop] = "nl" \/ Filter!Opens(b, stop) # "none"))
  <2>1. PICK P : P = {i \in 1 .. Len(b) : b[i] = "nl" \/ Filter!Opens(b, i) # "none"}
    OBVIOUS
  <2>2. stop = IF P = {} THEN 0 ELSE Filter!Min(P)
    BY <1>1, <2>1 DEF Filter!First
  <2>3. P # {} => Filter!Min(P) \in P
    <3>1. P \in SUBSET Nat BY <2>1, <1>2
    <3> QED BY <3>1, MinIs
  <2> QED BY <2>1, <2>2, <2>3
<1>4. g = IF stop = 0 THEN Filter!Emit(filter, Len(b) - (IF eof THEN 0 ELSE Filter!Hold(b)))
          ELSE IF b[stop] = "nl" THEN [Filter!Emit(filter, stop) EXCEPT !.sol = TRUE]
          ELSE LET inl == Filter!Opens(b, stop)
               IN [filter EXCEPT !.out = @ \o Filter!Upto(b, stop - 1), !.inl = inl,
                                 !.buf = Filter!From(b, stop + Len(Filter!Marker(inl)))]
  BY ONLY <1>1, g = Filter!PumpBody(filter, eof) DEF Filter!PumpBody
<1>5. CASE stop = 0
  <2>1. PICK n : n = Len(b) - (IF eof THEN 0 ELSE Filter!Hold(b))
    OBVIOUS
  <2>2. n \in 0 .. Len(filter.buf) /\ (eof => n \in 1 .. Len(filter.buf))
    BY <2>1, <1>1, <1>2, HoldIs
  <2>3. Emitted(g, n)
    BY <2>1, <2>2, <1>4, <1>5, EmitTurns
  <2>4. TurnsWell(g)
    BY <2>3 DEF Emitted
  <2> QED BY <2>2, <2>3, <2>4, EmittedMoves
<1>6. CASE stop \in 1 .. Len(b) /\ b[stop] = "nl"
  <2>1. stop \in 0 .. Len(filter.buf) /\ stop \in 1 .. Len(filter.buf) /\ stop # 0
    BY <1>1, <1>2, <1>6
  <2>2. Emitted(g, stop)
    BY <2>1, <1>4, <1>6, EmitTurns
  <2> QED BY <2>1, <2>2, EmittedMoves
<1>7. CASE stop \in 1 .. Len(b) /\ b[stop] # "nl"
  <2>1. PICK inl, m, x, y, o : /\ inl = Filter!Opens(b, stop) /\ m = Filter!Marker(inl)
                               /\ x = Filter!Upto(b, stop - 1) /\ y = Filter!From(b, stop + Len(m))
                               /\ o = Join(filter.out, x)
    OBVIOUS
  <2>2. inl # "none" /\ stop # 0
    BY <2>1, <1>2, <1>3, <1>7
  <2>3. inl \in Marks /\ \E n \in 1 .. Len(b) - stop + 1 : n = Len(m) /\ \A k \in 1 .. n : b[stop + k - 1] = m[k]
    <3>1. stop \in 1 .. Len(b) /\ inl = Filter!Opens(b, stop) BY <2>1, <1>7
    <3>2. /\ inl \in Marks
          /\ \E n \in 1 .. Len(b) - stop + 1 :
               /\ n = Len(Filter!Marker(inl))
               /\ \A k \in 1 .. n : b[stop + k - 1] = Filter!Marker(inl)[k]
      <4>1. b \in Seq(Chars) BY <1>2
      <4>2. inl # "none" BY <2>2
      <4> QED BY ONLY <3>1, <4>1, <4>2, OpensIs
    <3> QED BY ONLY <3>2, <2>1
  <2>4. m \in Seq(Chars)
    BY <2>1, <2>3, MarkerTyped
  <2>5. stop + Len(m) <= Len(b) + 1 /\ \A k \in 1 .. Len(m) : b[stop + k - 1] = m[k]
    BY <2>3, <1>2, <1>7
  <2>6. x \in Seq(Chars) /\ y \in Seq(Chars) /\ b = Join(x, Join(m, y))
    <3>1. stop \in 1 .. Len(b) BY <1>7
    <3>2. /\ Filter!Upto(b, stop - 1) \in Seq(Chars) /\ Filter!From(b, stop + Len(m)) \in Seq(Chars)
          /\ b = Join(Filter!Upto(b, stop - 1), Join(m, Filter!From(b, stop + Len(m))))
      BY ONLY <3>1, <2>4, <2>5, <1>2, SplitAt
    <3> QED BY ONLY <3>2, <2>1
  <2>7. o \in Seq(Chars)
    BY <2>1, <2>6, <1>2, Joins
  <2>8. PICK d : d = [filter EXCEPT !.out = o]
    OBVIOUS
  <2>9. PICK e : e = [d EXCEPT !.inl = inl]
    OBVIOUS
  <2>10. g = [e EXCEPT !.buf = y]
    BY ONLY <1>4, <2>1, <2>2, <1>7, <2>8, <2>9 DEF Join
  <2>11. d \in FilterRecord /\ d.acc = <<>> /\ d.out = o /\ ~d.fence
    BY <2>7, <2>8, <1>2 DEF FilterRecord, Between
  <2>12. e \in FilterRecord /\ e.acc = <<>> /\ e.out = o /\ e.inl = inl /\ ~e.fence
    BY <2>3, <2>9, <2>11 DEF FilterRecord
  <2>13. g \in FilterRecord /\ g.acc = <<>> /\ g.out = o /\ g.inl = inl /\ g.buf = y /\ ~g.fence
    BY <2>6, <2>10, <2>12 DEF FilterRecord
  <2>14. Held(g) = Join(m, y)
    <3>1. Held(g) = Join(m, Join(<<>>, y)) BY ONLY <2>1, <2>13 DEF Held
    <3> QED BY <3>1, <2>6, JoinsEmpty
  <2>15. Held(filter) = b
    BY <1>1, HoldsBuffer DEF Between
  <2>16. Held(filter) = Join(x, Held(g)) /\ g.out = Join(filter.out, x)
    BY <2>1, <2>6, <2>13, <2>14, <2>15
  <2>17. Removes(g)
    BY <2>6, <2>13, <2>16, TurnKeeps DEF Between
  <2> QED BY <2>2, <2>13, <2>17 DEF TurnsWell, Shifts, Between
<1> QED BY <1>3, <1>5, <1>6, <1>7

-----------------------------------------------------------------------------
(* Inside a marker.                                                         *)

Marked == /\ text \in Seq(Chars)
          /\ filter \in FilterRecord /\ filter.inl # "none" /\ ~filter.fence /\ Removes(filter)
          /\ filter.buf # <<>>

\* The parts of a filter inside a marker.
LEMMA MarkedIs ==
    ASSUME Marked
    PROVE  /\ filter.out \in Seq(Chars) /\ filter.acc \in Seq(Chars) /\ filter.buf \in Seq(Chars)
           /\ Join(filter.acc, filter.buf) \in Seq(Chars) /\ Filter!Marker(filter.inl) \in Seq(Chars)
           /\ Held(filter) = Join(Filter!Marker(filter.inl), Join(filter.acc, filter.buf))
           /\ filter.inl \in Marks
  BY HeldTyped DEF Marked, Held

\* The marker closes, and is kept or removed on both sides.
LEMMA CloseTurns ==
    ASSUME Marked, NEW a, a = Join(filter.acc, filter.buf), NEW mark, mark = Filter!Marker(filter.inl),
           NEW i \in 1 .. Len(a), i + Len(mark) <= Len(a) + 1,
           \A k \in 1 .. Len(mark) : a[i + k - 1] = mark[k],
           NEW g, g = Filter!Close(filter, a, i, mark)
    PROVE  TurnsWell(g) /\ Shifts(filter, g)
<1>1. /\ filter.out \in Seq(Chars) /\ a \in Seq(Chars) /\ mark \in Seq(Chars) /\ filter \in FilterRecord
      /\ Held(filter) = Join(mark, a) /\ filter.inl \in Marks /\ filter.inl # "none"
  BY MarkedIs DEF Marked
<1>2. PICK x, y : x = Filter!Upto(a, i - 1) /\ y = Filter!From(a, i + Len(mark))
  OBVIOUS
<1>3. x \in Seq(Chars) /\ y \in Seq(Chars) /\ a = Join(x, Join(mark, y))
  BY <1>1, <1>2, SplitAt
<1>4. PICK z, o : z = (IF Filter!HasCJK(x) THEN x ELSE Join(Join(mark, x), mark)) /\ o = Join(filter.out, z)
  OBVIOUS
<1>5. z \in Seq(Chars) /\ o \in Seq(Chars)
  <2>1. Join(mark, x) \in Seq(Chars) BY <1>1, <1>3, Joins
  <2>2. Join(Join(mark, x), mark) \in Seq(Chars) BY <1>1, <2>1, Joins
  <2>3. z \in Seq(Chars) BY <1>3, <1>4, <2>2
  <2> QED BY <2>3, <1>1, <1>4, Joins
<1>6. PICK d : d = [filter EXCEPT !.inl = "none"]
  OBVIOUS
<1>7. PICK e : e = [d EXCEPT !.acc = <<>>]
  OBVIOUS
<1>8. PICK h : h = [e EXCEPT !.buf = y]
  OBVIOUS
<1>9. g = [h EXCEPT !.out = o]
  <2>1. g = [filter EXCEPT !.inl = "none", !.acc = <<>>, !.buf = y, !.out = filter.out \o z]
    BY ONLY g = Filter!Close(filter, a, i, mark), <1>2, <1>4 DEF Filter!Close, Join
  <2> QED BY ONLY <2>1, <1>4, <1>6, <1>7, <1>8 DEF Join
<1>10. d \in FilterRecord /\ d.inl = "none"
  BY <1>1, <1>6 DEF FilterRecord, Marks
<1>11. e \in FilterRecord /\ e.inl = "none" /\ e.acc = <<>>
  <2>1. <<>> \in Seq(Chars) BY EmptySeq
  <2> QED BY <2>1, <1>7, <1>10 DEF FilterRecord
<1>12. h \in FilterRecord /\ h.inl = "none" /\ h.acc = <<>> /\ h.buf = y
  BY <1>3, <1>8, <1>11 DEF FilterRecord
<1>13. g \in FilterRecord /\ g.inl = "none" /\ g.acc = <<>> /\ g.buf = y /\ g.out = o
  BY <1>5, <1>9, <1>12 DEF FilterRecord
<1>14. Held(g) = y
  BY <1>13, HoldsBuffer
<1>15. CASE Filter!HasCJK(x)
  <2>1. Held(filter) = Join(mark, Join(x, Join(mark, Held(g)))) /\ g.out = Join(filter.out, x)
    BY <1>1, <1>3, <1>4, <1>13, <1>14, <1>15
  <2>2. \A k \in 1 .. Len(mark) : mark[k] \notin Kept
    BY <1>1, MarkerTyped DEF Kept
  <2>3. Removes(g)
    BY <2>1, <2>2, <1>1, <1>3, <1>13, Turn DEF Marked
  <2> QED BY <2>3, <1>1, <1>13 DEF TurnsWell, Shifts
<1>16. CASE ~Filter!HasCJK(x)
  <2>1. z = Join(Join(mark, x), mark) /\ Join(mark, x) \in Seq(Chars)
    BY <1>1, <1>3, <1>4, <1>16, Joins
  <2>2. Join(z, y) = Join(Join(mark, x), Join(mark, y))
    BY <1>1, <1>3, <2>1, JoinsOfThree
  <2>3. Join(Join(mark, x), Join(mark, y)) = Join(mark, Join(x, Join(mark, y)))
    <3>1. Join(mark, y) \in Seq(Chars) BY <1>1, <1>3, Joins
    <3> QED BY <3>1, <1>1, <1>3, JoinsOfThree
  <2>4. Held(filter) = Join(z, Held(g)) /\ g.out = Join(filter.out, z)
    BY <1>1, <1>3, <1>4, <1>13, <1>14, <2>2, <2>3
  <2>5. Removes(g)
    BY <2>4, <1>1, <1>5, <1>13, TurnKeeps DEF Marked
  <2> QED BY <2>5, <1>1, <1>13 DEF TurnsWell, Shifts
<1> QED BY <1>15, <1>16

\* The marker and what follows it are given out as they are.
LEMMA PassTurns ==
    ASSUME Marked, NEW a, a = Join(filter.acc, filter.buf), NEW i \in 0 .. Len(a),
           NEW g \in FilterRecord, g.inl = "none", g.acc = <<>>, g.buf = Filter!From(a, i + 1),
           g.out = Join(Join(filter.out, Filter!Marker(filter.inl)), Filter!Upto(a, i))
    PROVE  TurnsWell(g) /\ Shifts(filter, g)
<1>1. PICK mark : mark = Filter!Marker(filter.inl)
  OBVIOUS
<1>2. /\ filter.out \in Seq(Chars) /\ a \in Seq(Chars) /\ mark \in Seq(Chars) /\ filter \in FilterRecord
      /\ Held(filter) = Join(mark, a) /\ filter.inl # "none"
  BY <1>1, MarkedIs DEF Marked
<1>3. PICK x, y : x = Filter!Upto(a, i) /\ y = Filter!From(a, i + 1)
  OBVIOUS
<1>4. x \in Seq(Chars) /\ y \in Seq(Chars) /\ a = Join(x, y)
  BY <1>2, <1>3, SplitChars
<1>5. Held(g) = y
  BY <1>3, HoldsBuffer
<1>6. Join(mark, x) \in Seq(Chars)
  BY <1>2, <1>4, Joins
<1>7. Held(filter) = Join(Join(mark, x), Held(g))
  BY <1>2, <1>4, <1>5, JoinsOfThree
<1>8. g.out = Join(filter.out, Join(mark, x))
  BY <1>1, <1>2, <1>3, <1>4, JoinsOfThree
<1>9. Removes(g)
  BY <1>2, <1>6, <1>7, <1>8, TurnKeeps DEF Marked
<1> QED BY <1>2, <1>9 DEF TurnsWell, Shifts

\* What occurs is found.
LEMMA FindOccurs ==
    ASSUME NEW t \in Seq(Chars), NEW p \in Seq(Chars), Len(p) >= 1, NEW k \in 1 .. Len(t),
           k + Len(p) <= Len(t) + 1, \A j \in 1 .. Len(p) : t[k + j - 1] = p[j]
    PROVE  Filter!Find(t, p, 1) # 0
<1>1. Len(t) \in Nat /\ Len(p) \in Nat
  BY LenProperties
<1>2. PICK n, e : n = Len(p) /\ e = k + n - 1
  OBVIOUS
<1>3. e \in 1 .. Len(t) /\ k <= e /\ e - k + 1 = n /\ k \in 1 .. Len(t) - n + 1
  BY <1>1, <1>2
<1>4. /\ SubSeq(t, k, e) \in Seq(Chars) /\ Len(SubSeq(t, k, e)) = n
      /\ \A j \in 1 .. n : SubSeq(t, k, e)[j] = t[k + j - 1]
  <2>1. \A j \in k .. e : t[j] \in Chars
    <3>1. \A j \in k .. e : j \in 1 .. Len(t) BY <1>3
    <3> QED BY <3>1, ElementOfSeq
  <2>2. k \in Int /\ e \in Int BY <1>3
  <2> QED BY <1>3, <2>1, <2>2, SubSeqProperties
<1>5. SubSeq(t, k, e) = p
  BY <1>2, <1>4, SeqEqual
<1>6. Filter!Find(t, p, 1) = 0 => \A j \in 1 .. Len(t) - Len(p) + 1 : SubSeq(t, j, j + Len(p) - 1) # p
  <2>1. 1 \in Nat /\ 1 >= 1 OBVIOUS
  <2> QED BY ONLY <2>1, <1>1, FindIs
<1> QED BY <1>2, <1>3, <1>5, <1>6

\* The closing of an image that the filter has read is in the text.
LEMMA ImageIsRead ==
    ASSUME Marked, NEW a, a = Join(filter.acc, filter.buf), NEW i \in 1 .. Len(a),
           i < Len(a), a[i] = "rb", a[i + 1] = "lp"
    PROVE  Kept = {}
<1>1. PICK mark : mark = Filter!Marker(filter.inl)
  OBVIOUS
<1>2. a \in Seq(Chars) /\ mark \in Seq(Chars) /\ Held(filter) = Join(mark, a) /\ EndOf(Held(filter), text)
      /\ text \in Seq(Chars)
  BY <1>1, MarkedIs DEF Marked, Removes
<1>3. PICK p \in Seq(Chars) : text = Join(p, Join(mark, a))
  BY <1>2 DEF EndOf
<1>4. PICK q : q = Join(p, mark)
  OBVIOUS
<1>5. q \in Seq(Chars) /\ text = q \o a
  <2>1. q \in Seq(Chars) BY <1>2, <1>4, Joins
  <2>2. text = Join(q, a) BY <1>2, <1>3, <1>4, JoinsOfThree
  <2> QED BY <2>1, <2>2 DEF Join
<1>6. Len(q) \in Nat /\ Len(a) \in Nat
  BY <1>2, <1>5, LenProperties
<1>7. /\ Len(text) = Len(q) + Len(a)
      /\ \A k \in 1 .. Len(q) + Len(a) : text[k] = IF k <= Len(q) THEN q[k] ELSE a[k - Len(q)]
  BY <1>2, <1>5, ConcatProperties
<1>8. PICK k : k = Len(q) + i
  OBVIOUS
<1>9. k \in 1 .. Len(text) /\ k + 1 \in 1 .. Len(text) /\ k + 2 <= Len(text) + 1
      /\ ~(k <= Len(q)) /\ ~(k + 1 <= Len(q)) /\ k - Len(q) = i /\ (k + 1) - Len(q) = i + 1
  BY <1>6, <1>7, <1>8
<1>10. text[k] = "rb" /\ text[k + 1] = "lp"
  BY <1>7, <1>9
<1>11. PICK p2 : p2 = <<"rb", "lp">>
  OBVIOUS
<1>12. p2 \in Seq(Chars) /\ Len(p2) = 2 /\ p2[1] = "rb" /\ p2[2] = "lp"
  <2>1. "rb" \in Chars /\ "lp" \in Chars
    BY <1>2, <1>9, <1>10, ElementOfSeq
  <2> QED BY <2>1, <1>11
<1>13. \A j \in 1 .. Len(p2) : text[k + j - 1] = p2[j]
  <2> TAKE j \in 1 .. Len(p2)
  <2>1. CASE j = 1
    <3>1. k + j - 1 = k BY <2>1, <1>9
    <3> QED BY <3>1, <2>1, <1>10, <1>12
  <2>2. CASE j = 2
    <3>1. k + j - 1 = k + 1 BY <2>2, <1>9
    <3> QED BY <3>1, <2>2, <1>10, <1>12
  <2> QED BY <2>1, <2>2, <1>12
<1>14. Filter!Find(text, p2, 1) # 0
  <2>1. Len(p2) >= 1 /\ k + Len(p2) <= Len(text) + 1 BY <1>9, <1>12
  <2> QED BY ONLY <2>1, <1>2, <1>9, <1>12, <1>13, FindOccurs
<1> QED BY <1>11, <1>14 DEF Kept, Filter!HasImage

\* Inside a marker, which closes, breaks or goes on.
LEMMA PumpInlineTurns ==
    ASSUME Marked, NEW g, g = Filter!PumpInline(filter)
    PROVE  TurnsWell(g) /\ Shifts(filter, g)
<1>1. PICK a, mark, held, end, single, bracket, paren :
        /\ a = Join(filter.acc, filter.buf) /\ mark = Filter!Marker(filter.inl)
        /\ held = [filter EXCEPT !.acc = a, !.buf = <<>>]
        /\ end = Filter!Find(a, mark, 1)
        /\ single = Filter!First({i \in DOMAIN a : \/ a[i] = "nl"
                                                   \/ /\ a[i] = mark[1] /\ Filter!At(a, i + 1) # mark[1]
                                                      /\ (i - Filter!RunStart(a, i, mark[1])) % 2 = 0})
        /\ bracket = Filter!Find(a, <<"rb">>, 1)
        /\ paren = Filter!Find(a, <<"rp">>, bracket + 2)
  OBVIOUS
<1>2. /\ filter.out \in Seq(Chars) /\ a \in Seq(Chars) /\ mark \in Seq(Chars) /\ filter \in FilterRecord
      /\ filter.buf \in Seq(Chars) /\ Held(filter) = Join(mark, a) /\ filter.inl \in Marks /\ filter.inl # "none"
      /\ Removes(filter) /\ text \in Seq(Chars) /\ ~filter.fence
  BY <1>1, MarkedIs DEF Marked
<1>3. Len(a) \in Nat /\ DOMAIN a = 1 .. Len(a) /\ Len(mark) \in Nat /\ Len(filter.buf) # 0
  BY <1>2, LenProperties, EmptySeq DEF Marked
<1>4. g = CASE filter.inl \in {"bold3", "ubold3"} -> IF end = 0 THEN held ELSE Filter!Close(filter, a, end, mark)
            [] filter.inl \in {"italic", "uitalic"} ->
                 IF single = 0 THEN held
                 ELSE IF a[single] = "nl" THEN Filter!Broken(filter, a, single) ELSE Filter!Close(filter, a, single, mark)
            [] filter.inl = "image" ->
                 IF bracket \in {0, Len(a)} THEN held
                 ELSE IF a[bracket + 1] # "lp"
                      THEN [filter EXCEPT !.inl = "none", !.acc = <<>>, !.buf = Filter!From(a, bracket + 1),
                                          !.out = @ \o mark \o Filter!Upto(a, bracket)]
                 ELSE IF paren = 0 THEN held
                 ELSE [filter EXCEPT !.inl = "none", !.acc = <<>>, !.buf = Filter!From(a, paren + 1)]
  BY ONLY <1>1, g = Filter!PumpInline(filter) DEF Filter!PumpInline, Join
<1>5. TurnsWell(held) /\ Shifts(filter, held)
  <2>1. PICK d : d = [filter EXCEPT !.acc = a]
    OBVIOUS
  <2>2. held = [d EXCEPT !.buf = <<>>]
    BY ONLY <1>1, <2>1
  <2>3. d \in FilterRecord /\ d.inl = filter.inl /\ d.out = filter.out /\ d.acc = a /\ ~d.fence
    BY <2>1, <1>2 DEF FilterRecord
  <2>4. <<>> \in Seq(Chars) /\ Len(<<>>) = 0
    BY EmptySeq
  <2>5. held \in FilterRecord /\ held.inl = filter.inl /\ held.out = filter.out /\ held.acc = a /\ held.buf = <<>>
        /\ ~held.fence
    BY <2>2, <2>3, <2>4 DEF FilterRecord
  <2>6. Held(held) = Held(filter)
    BY <2>5, <1>1, <1>2, JoinsEmpty DEF Held
  <2>7. Removes(held)
    BY ONLY <2>5, <2>6, <1>2 DEF Removes
  <2> QED BY <2>4, <2>5, <2>7, <1>2, <1>3 DEF TurnsWell, Shifts
<1>6. CASE filter.inl \in {"bold3", "ubold3"}
  <2>1. g = IF end = 0 THEN held ELSE Filter!Close(filter, a, end, mark)
    BY ONLY <1>4, <1>6
  <2>2. CASE end = 0
    BY <2>1, <2>2, <1>5
  <2>3. CASE end # 0
    <3>1. end \in 1 .. Len(a) - Len(mark) + 1 /\ SubSeq(a, end, end + Len(mark) - 1) = mark
      <4>1. 1 \in Nat /\ 1 >= 1 OBVIOUS
      <4>2. \/ Filter!Find(a, mark, 1) = 0
            \/ /\ Filter!Find(a, mark, 1) \in 1 .. Len(a) - Len(mark) + 1
               /\ SubSeq(a, Filter!Find(a, mark, 1), Filter!Find(a, mark, 1) + Len(mark) - 1) = mark
        BY ONLY <4>1, <1>3, FindIs
      <4> QED BY ONLY <4>2, <2>3, <1>1
    <3>2. Len(mark) = 3
      <4>1. mark = <<"star", "star", "star">> \/ mark = <<"under", "under", "under">>
        BY <1>1, <1>6 DEF Filter!Marker
      <4> QED BY <4>1
    <3>3. end \in 1 .. Len(a) /\ end + Len(mark) <= Len(a) + 1
      BY <3>1, <3>2, <1>3
    <3>4. \A k \in 1 .. Len(mark) : a[end + k - 1] = mark[k]
      <4>1. end \in Int /\ end + 2 \in Int /\ end + 2 \in 1 .. Len(a) /\ end + Len(mark) - 1 = end + 2
            /\ (end + 2) - end + 1 = 3
        BY <3>2, <3>3, <1>3
      <4>2. \A k \in end .. end + 2 : a[k] \in Chars
        <5>1. \A k \in end .. end + 2 : k \in 1 .. Len(a) BY <3>3, <4>1
        <5> QED BY <5>1, <1>2, ElementOfSeq
      <4>3. \A k \in 1 .. (end + 2) - end + 1 : SubSeq(a, end, end + 2)[k] = a[end + k - 1]
        BY ONLY <4>1, <4>2, SubSeqProperties
      <4>4. SubSeq(a, end, end + 2) = mark
        BY ONLY <3>1, <4>1
      <4> QED BY ONLY <4>1, <4>3, <4>4, <3>2
    <3>5. g = Filter!Close(filter, a, end, mark)
      BY <2>1, <2>3
    <3> QED BY ONLY <1>1, <3>3, <3>4, <3>5, Marked, CloseTurns
  <2> QED BY <2>2, <2>3
<1>7. CASE filter.inl \in {"italic", "uitalic"}
  <2>1. g = IF single = 0 THEN held
            ELSE IF a[single] = "nl" THEN Filter!Broken(filter, a, single) ELSE Filter!Close(filter, a, single, mark)
    BY ONLY <1>4, <1>7
  <2>2. single = 0 \/ (single \in 1 .. Len(a) /\ (a[single] = "nl" \/ a[single] = mark[1]))
    <3>1. PICK P : P = {i \in DOMAIN a : \/ a[i] = "nl"
                                         \/ /\ a[i] = mark[1] /\ Filter!At(a, i + 1) # mark[1]
                                            /\ (i - Filter!RunStart(a, i, mark[1])) % 2 = 0}
      OBVIOUS
    <3>2. single = IF P = {} THEN 0 ELSE Filter!Min(P)
      BY ONLY <1>1, <3>1 DEF Filter!First
    <3>3. \A i \in P : i \in 1 .. Len(a) /\ (a[i] = "nl" \/ a[i] = mark[1])
      BY ONLY <1>3, <3>1
    <3>4. P # {} => Filter!Min(P) \in P
      <4>1. P \in SUBSET Nat BY <3>3
      <4> QED BY <4>1, MinIs
    <3> QED BY ONLY <3>2, <3>3, <3>4
  <2>3. CASE single = 0
    BY <2>1, <2>3, <1>5
  <2>4. CASE single # 0 /\ a[single] = "nl"
    <3>1. single \in 0 .. Len(a)
      BY <2>2, <2>4
    <3>2. PICK x, y, o : x = Filter!Upto(a, single) /\ y = Filter!From(a, single + 1)
                         /\ o = Join(Join(filter.out, mark), x)
      OBVIOUS
    <3>3. y \in Seq(Chars) /\ o \in Seq(Chars)
      <4>1. x \in Seq(Chars) /\ y \in Seq(Chars) BY <3>1, <3>2, <1>2, SplitChars
      <4>2. Join(filter.out, mark) \in Seq(Chars) BY <1>2, Joins
      <4> QED BY <4>1, <4>2, <3>2, Joins
    <3>4. g = [filter EXCEPT !.inl = "none", !.acc = <<>>, !.buf = y, !.sol = TRUE, !.out = o]
      BY ONLY <2>1, <2>4, <3>2, <1>1 DEF Filter!Broken, Join
    <3>5. PICK d, e : d = [filter EXCEPT !.inl = "none", !.acc = <<>>] /\ e = [d EXCEPT !.buf = y, !.sol = TRUE]
      OBVIOUS
    <3>6. g = [e EXCEPT !.out = o]
      BY ONLY <3>4, <3>5
    <3>7. d \in FilterRecord /\ d.inl = "none" /\ d.acc = <<>>
      <4>1. <<>> \in Seq(Chars) BY EmptySeq
      <4> QED BY <4>1, <3>5, <1>2 DEF FilterRecord, Marks
    <3>8. e \in FilterRecord /\ e.inl = "none" /\ e.acc = <<>> /\ e.buf = y
      BY <3>3, <3>5, <3>7 DEF FilterRecord
    <3>9. g \in FilterRecord /\ g.inl = "none" /\ g.acc = <<>> /\ g.buf = y /\ g.out = o
      BY <3>3, <3>6, <3>8 DEF FilterRecord
    <3> QED BY ONLY <1>1, <3>1, <3>2, <3>9, Marked, PassTurns
  <2>5. CASE single # 0 /\ a[single] # "nl"
    <3>1. single \in 1 .. Len(a) /\ a[single] = mark[1] /\ g = Filter!Close(filter, a, single, mark)
      BY <2>1, <2>2, <2>5
    <3>2. Len(mark) = 1
      <4>1. mark = <<"star">> \/ mark = <<"under">>
        BY <1>1, <1>7 DEF Filter!Marker
      <4> QED BY <4>1
    <3>3. single + Len(mark) <= Len(a) + 1
      BY <3>1, <3>2, <1>3
    <3>4. \A k \in 1 .. Len(mark) : a[single + k - 1] = mark[k]
      <4> TAKE k \in 1 .. Len(mark)
      <4>1. k = 1 BY <3>2
      <4>2. single + k - 1 = single BY <4>1, <3>1, <1>3
      <4> QED BY ONLY <4>1, <4>2, <3>1
    <3> QED BY ONLY <1>1, <3>1, <3>3, <3>4, Marked, CloseTurns
  <2> QED BY <2>3, <2>4, <2>5
<1>8. CASE filter.inl = "image"
  <2>1. g = IF bracket \in {0, Len(a)} THEN held
            ELSE IF a[bracket + 1] # "lp"
                 THEN [filter EXCEPT !.inl = "none", !.acc = <<>>, !.buf = Filter!From(a, bracket + 1),
                                     !.out = @ \o mark \o Filter!Upto(a, bracket)]
            ELSE IF paren = 0 THEN held
            ELSE [filter EXCEPT !.inl = "none", !.acc = <<>>, !.buf = Filter!From(a, paren + 1)]
    BY ONLY <1>4, <1>8
  <2>2. bracket = 0 \/ (bracket \in 1 .. Len(a) /\ a[bracket] = "rb")
    <3>1. 1 \in Nat /\ 1 >= 1 /\ bracket = Filter!Find(a, <<"rb">>, 1) BY <1>1
    <3>2. a \in Seq(Chars) BY <1>2
    <3> QED BY ONLY <3>1, <3>2, FindOne
  <2>3. CASE bracket \in {0, Len(a)}
    BY <2>1, <2>3, <1>5
  <2>4. CASE bracket \notin {0, Len(a)} /\ a[bracket + 1] # "lp"
    <3>1. bracket \in 0 .. Len(a)
      BY <2>2, <2>4
    <3>2. PICK x, y, o : x = Filter!Upto(a, bracket) /\ y = Filter!From(a, bracket + 1)
                         /\ o = Join(Join(filter.out, mark), x)
      OBVIOUS
    <3>3. y \in Seq(Chars) /\ o \in Seq(Chars)
      <4>1. x \in Seq(Chars) /\ y \in Seq(Chars) BY <3>1, <3>2, <1>2, SplitChars
      <4>2. Join(filter.out, mark) \in Seq(Chars) BY <1>2, Joins
      <4> QED BY <4>1, <4>2, <3>2, Joins
    <3>4. g = [filter EXCEPT !.inl = "none", !.acc = <<>>, !.buf = y, !.out = o]
      BY ONLY <2>1, <2>4, <3>2 DEF Join
    <3>5. PICK d, e : d = [filter EXCEPT !.inl = "none", !.acc = <<>>] /\ e = [d EXCEPT !.buf = y]
      OBVIOUS
    <3>6. g = [e EXCEPT !.out = o]
      BY ONLY <3>4, <3>5
    <3>7. d \in FilterRecord /\ d.inl = "none" /\ d.acc = <<>>
      <4>1. <<>> \in Seq(Chars) BY EmptySeq
      <4> QED BY <4>1, <3>5, <1>2 DEF FilterRecord, Marks
    <3>8. e \in FilterRecord /\ e.inl = "none" /\ e.acc = <<>> /\ e.buf = y
      BY <3>3, <3>5, <3>7 DEF FilterRecord
    <3>9. g \in FilterRecord /\ g.inl = "none" /\ g.acc = <<>> /\ g.buf = y /\ g.out = o
      BY <3>3, <3>6, <3>8 DEF FilterRecord
    <3> QED BY ONLY <1>1, <3>1, <3>2, <3>9, Marked, PassTurns
  <2>5. CASE bracket \notin {0, Len(a)} /\ a[bracket + 1] = "lp" /\ paren = 0
    BY <2>1, <2>5, <1>5
  <2>6. CASE bracket \notin {0, Len(a)} /\ a[bracket + 1] = "lp" /\ paren # 0
    <3>1. bracket \in 1 .. Len(a) /\ bracket < Len(a) /\ a[bracket] = "rb"
      BY <2>2, <2>6, <1>3
    <3>2. paren \in 0 .. Len(a)
      <4>1. bracket + 2 \in Nat /\ bracket + 2 >= 1 BY <3>1
      <4>2. paren = 0 \/ paren \in bracket + 2 .. Len(a)
        BY ONLY <4>1, <1>1, <1>2, FindOne
      <4> QED BY <4>2, <3>1, <1>3
    <3>3. PICK x, y : x = Filter!Upto(a, paren) /\ y = Filter!From(a, paren + 1)
      OBVIOUS
    <3>4. x \in Seq(Chars) /\ y \in Seq(Chars) /\ a = Join(x, y)
      BY <3>2, <3>3, <1>2, SplitChars
    <3>5. PICK d : d = [filter EXCEPT !.inl = "none", !.acc = <<>>]
      OBVIOUS
    <3>6. g = [d EXCEPT !.buf = y]
      BY ONLY <2>1, <2>6, <3>3, <3>5
    <3>7. d \in FilterRecord /\ d.inl = "none" /\ d.acc = <<>> /\ d.out = filter.out
      <4>1. <<>> \in Seq(Chars) BY EmptySeq
      <4> QED BY <4>1, <3>5, <1>2 DEF FilterRecord, Marks
    <3>8. g \in FilterRecord /\ g.inl = "none" /\ g.acc = <<>> /\ g.buf = y /\ g.out = filter.out
      BY <3>4, <3>6, <3>7 DEF FilterRecord
    <3>9. Held(g) = y
      BY <3>8, HoldsBuffer
    <3>10. Kept = {}
      BY ONLY <1>1, <3>1, <2>6, Marked, ImageIsRead
    <3>11. <<>> \in Seq(Chars)
      BY EmptySeq
    <3>12. Join(mark, x) \in Seq(Chars)
      BY <1>2, <3>4, Joins
    <3>13. Held(filter) = Join(Join(mark, x), y)
      BY <1>2, <3>4, JoinsOfThree
    <3>14. Held(filter) = Join(Join(mark, x), Join(<<>>, Join(<<>>, Held(g)))) /\ g.out = Join(filter.out, <<>>)
      BY <3>4, <3>8, <3>9, <3>13, <1>2, JoinsEmpty
    <3>15. Removes(g)
      <4>1. \A i \in 1 .. Len(Join(mark, x)) : Join(mark, x)[i] \notin Kept
        BY <3>10
      <4>2. \A i \in 1 .. Len(<<>>) : <<>>[i] \notin Kept
        BY <3>10
      <4> QED BY ONLY <4>1, <4>2, <3>8, <3>11, <3>12, <3>14, <1>2, Turn
    <3> QED BY <3>8, <3>15, <1>2 DEF TurnsWell, Shifts
  <2> QED BY <2>3, <2>4, <2>5, <2>6
<1> QED BY <1>2, <1>6, <1>7, <1>8 DEF Marks

-----------------------------------------------------------------------------
(* The actions of the filter.                                               *)

\* A turn of the loop, in whatever the filter is in.
LEMMA PumpedTurns ==
    ASSUME FilterInv, filter.buf # <<>>, NEW eof \in BOOLEAN, NEW g, g = Filter!Pumped(filter, eof)
    PROVE  TurnsWell(g) /\ (eof => Shifts(filter, g))
<1>1. /\ text \in Seq(Chars) /\ filter \in FilterRecord /\ Removes(filter)
      /\ filter.inl = "none" => filter.acc = <<>>
      /\ filter.fence => filter.inl = "none"
      /\ filter.fence \in BOOLEAN /\ filter.sol \in BOOLEAN
  BY DEF FilterInv, FilterTyped, FilterRecord
<1>2. g = IF filter.fence THEN Filter!PumpFence(filter, eof)
          ELSE IF filter.inl # "none" THEN Filter!PumpInline(filter)
          ELSE IF filter.sol THEN Filter!PumpSOL(filter, eof) ELSE Filter!PumpBody(filter, eof)
  BY DEF Filter!Pumped
<1>3. filter.inl = "none" => Between
  BY <1>1 DEF Between
<1>4. filter.inl # "none" => Marked
  BY <1>1 DEF Marked
<1>5. CASE filter.fence
  BY <1>1, <1>2, <1>3, <1>5, PumpFenceTurns
<1>6. CASE ~filter.fence /\ filter.inl # "none"
  BY <1>2, <1>4, <1>6, PumpInlineTurns
<1>7. CASE ~filter.fence /\ filter.inl = "none" /\ filter.sol
  BY <1>2, <1>3, <1>7, PumpSOLTurns
<1>8. CASE ~filter.fence /\ filter.inl = "none" /\ ~filter.sol
  BY <1>2, <1>3, <1>8, PumpBodyTurns
<1> QED BY <1>5, <1>6, <1>7, <1>8

\* What flush gives out at the end.
LEMMA EndTurns ==
    ASSUME text \in Seq(Chars), TurnsWell(filter), filter.buf = <<>>, NEW g,
           g = [filter EXCEPT !.out = @ \o Filter!Marker(filter.inl) \o filter.acc, !.inl = "none", !.acc = <<>>]
    PROVE  /\ TurnsWell(g) /\ g.buf = <<>> /\ g.inl = "none"
           /\ filter.inl = "none" => g.out = filter.out
<1>1. /\ filter \in FilterRecord /\ Removes(filter) /\ filter.out \in Seq(Chars) /\ filter.acc \in Seq(Chars)
      /\ filter.inl \in Marks /\ Filter!Marker(filter.inl) \in Seq(Chars)
      /\ filter.inl = "none" => filter.acc = <<>>
  BY HeldTyped DEF TurnsWell
<1>2. PICK mark, o, x : /\ mark = Filter!Marker(filter.inl) /\ o = Join(Join(filter.out, mark), filter.acc)
                        /\ x = Join(mark, filter.acc)
  OBVIOUS
<1>3. o \in Seq(Chars) /\ x \in Seq(Chars) /\ o = Join(filter.out, x)
  <2>1. mark \in Seq(Chars) BY <1>1, <1>2
  <2>2. Join(filter.out, mark) \in Seq(Chars) BY ONLY <2>1, <1>1, Joins
  <2>3. o \in Seq(Chars) BY ONLY <2>2, <1>1, <1>2, Joins
  <2>4. x \in Seq(Chars) BY ONLY <2>1, <1>1, <1>2, Joins
  <2>5. Join(Join(filter.out, mark), filter.acc) = Join(filter.out, Join(mark, filter.acc))
    BY ONLY <2>1, <1>1, JoinsOfThree
  <2> QED BY ONLY <2>3, <2>4, <2>5, <1>2
<1>4. PICK d, e : d = [filter EXCEPT !.out = o] /\ e = [d EXCEPT !.inl = "none"]
  OBVIOUS
<1>5. g = [e EXCEPT !.acc = <<>>]
  <2>1. g = [filter EXCEPT !.out = o, !.inl = "none", !.acc = <<>>]
    BY <1>2 DEF Join
  <2> QED BY ONLY <2>1, <1>4
<1>6. d \in FilterRecord /\ d.buf = <<>> /\ d.out = o
  BY <1>1, <1>3, <1>4 DEF FilterRecord
<1>7. e \in FilterRecord /\ e.buf = <<>> /\ e.out = o /\ e.inl = "none"
  BY <1>4, <1>6 DEF FilterRecord, Marks
<1>8. <<>> \in Seq(Chars)
  BY EmptySeq
<1>9. g \in FilterRecord /\ g.buf = <<>> /\ g.out = o /\ g.inl = "none" /\ g.acc = <<>>
  BY <1>5, <1>7, <1>8 DEF FilterRecord
<1>10. Held(filter) = Join(x, Held(g))
  <2>1. Held(g) = <<>> BY <1>9, HoldsBuffer
  <2>2. Join(filter.acc, <<>>) = filter.acc BY <1>1, JoinsEmpty
  <2>3. Held(filter) = x BY <1>2, <2>2 DEF Held
  <2> QED BY <2>1, <2>3, <1>3, JoinsEmpty
<1>11. Removes(g)
  BY <1>1, <1>3, <1>9, <1>10, TurnKeeps
<1>12. filter.inl = "none" => g.out = filter.out
  <2> HAVE filter.inl = "none"
  <2>1. mark = <<>> BY ONLY filter.inl = "none", <1>1, <1>2, MarkerTyped
  <2>2. filter.acc = <<>> BY <1>1
  <2>3. Join(Join(filter.out, <<>>), <<>>) = filter.out BY ONLY <1>1, JoinsEmpty
  <2> QED BY ONLY <2>1, <2>2, <2>3, <1>2, <1>9
<1> QED BY <1>9, <1>11, <1>12 DEF TurnsWell

\* What is found stays found.
LEMMA FindStays ==
    ASSUME NEW t \in Seq(Chars), NEW c \in Chars, NEW p, Len(p) \in Nat \ {0}, Filter!Find(t, p, 1) # 0
    PROVE  Filter!Find(Append(t, c), p, 1) # 0
<1>1. PICK k, n, w : k = Filter!Find(t, p, 1) /\ n = Len(p) /\ w = Append(t, c)
  OBVIOUS
<1>2. Len(t) \in Nat /\ n \in Nat \ {0}
  BY <1>1, LenProperties
<1>3. k \in 1 .. Len(t) - n + 1 /\ SubSeq(t, k, k + n - 1) = p
  <2>1. 1 \in Nat /\ 1 >= 1 OBVIOUS
  <2>2. \/ Filter!Find(t, p, 1) = 0
        \/ /\ Filter!Find(t, p, 1) \in 1 .. Len(t) - Len(p) + 1
           /\ SubSeq(t, Filter!Find(t, p, 1), Filter!Find(t, p, 1) + Len(p) - 1) = p
    BY ONLY <2>1, <1>1, <1>2, FindIs
  <2> QED BY <2>2, <1>1
<1>4. PICK e : e = k + n - 1
  OBVIOUS
<1>5. e \in 1 .. Len(t) /\ k \in 1 .. Len(t) /\ k <= e /\ e - k + 1 = n
  BY <1>2, <1>3, <1>4
<1>6. p \in Seq(Chars) /\ \A j \in 1 .. n : p[j] = t[k + j - 1]
  <2>1. \A j \in k .. e : t[j] \in Chars
    <3>1. \A j \in k .. e : j \in 1 .. Len(t) BY <1>5
    <3> QED BY <3>1, ElementOfSeq
  <2>2. k \in Int /\ e \in Int BY <1>5
  <2>3. SubSeq(t, k, e) \in Seq(Chars) /\ \A j \in 1 .. e - k + 1 : SubSeq(t, k, e)[j] = t[k + j - 1]
    BY ONLY <2>1, <2>2, SubSeqProperties
  <2>4. SubSeq(t, k, e) = p BY ONLY <1>3, <1>4
  <2> QED BY ONLY <2>3, <2>4, <1>5
<1>7. w \in Seq(Chars) /\ Len(w) = Len(t) + 1 /\ \A j \in 1 .. Len(t) : w[j] = t[j]
  BY <1>1, AppendProperties
<1>8. \A j \in 1 .. n : w[k + j - 1] = p[j]
  <2> TAKE j \in 1 .. n
  <2>1. k + j - 1 \in 1 .. Len(t) BY <1>2, <1>4, <1>5
  <2> QED BY <2>1, <1>6, <1>7
<1>9. k \in 1 .. Len(w) /\ k + n <= Len(w) + 1
  BY <1>2, <1>3, <1>7
<1>10. Filter!Find(w, p, 1) # 0
  <2>1. Len(p) >= 1 /\ k + Len(p) <= Len(w) + 1 BY <1>1, <1>2, <1>9
  <2>2. \A j \in 1 .. Len(p) : w[k + j - 1] = p[j] BY <1>1, <1>8
  <2>3. w \in Seq(Chars) /\ p \in Seq(Chars) /\ k \in 1 .. Len(w) BY <1>6, <1>7, <1>9
  <2> QED BY ONLY <2>1, <2>2, <2>3, FindOccurs
<1> QED BY <1>1, <1>10

\* A character that is fed comes last in the text and in what is held.
LEMMA FeedTurns ==
    ASSUME FilterInv, NEW c \in Chars, text' = Append(text, c),
           filter' = [filter EXCEPT !.buf = Append(@, c)]
    PROVE  /\ filter' \in FilterRecord /\ text' \in Seq(Chars) /\ Removes(filter)'
           /\ (filter.inl = "none" => filter.acc = <<>>)'
           /\ (filter.fence => filter.inl = "none")'
<1>1. /\ text \in Seq(Chars) /\ filter \in FilterRecord /\ Removes(filter)
      /\ filter.inl = "none" => filter.acc = <<>>
      /\ filter.fence => filter.inl = "none"
  BY DEF FilterInv, FilterTyped
<1>2. /\ Held(filter) \in Seq(Chars) /\ Join(filter.acc, filter.buf) \in Seq(Chars) /\ filter.out \in Seq(Chars)
      /\ filter.buf \in Seq(Chars) /\ filter.acc \in Seq(Chars) /\ Filter!Marker(filter.inl) \in Seq(Chars)
  BY <1>1, HeldTyped
<1>3. PICK z, h : z = <<c>> /\ z \in Seq(Chars) /\ h = Held(filter)
  <2>1. <<c>> \in Seq(Chars) OBVIOUS
  <2> QED BY ONLY <2>1
<1>4. ASSUME NEW s \in Seq(Chars) PROVE Append(s, c) = Join(s, z) /\ Append(s, c) \in Seq(Chars)
  BY <1>3, AppendIsConcat, AppendProperties DEF Join
<1>5. PICK y : y = Append(filter.buf, c)
  OBVIOUS
<1>6. y \in Seq(Chars) /\ y = Join(filter.buf, z)
  BY <1>2, <1>4, <1>5
<1>7. /\ filter' = [filter EXCEPT !.buf = y] /\ filter' \in FilterRecord /\ filter'.buf = y
      /\ filter'.out = filter.out /\ filter'.acc = filter.acc /\ filter'.inl = filter.inl
      /\ filter'.fence = filter.fence
  BY <1>1, <1>5, <1>6 DEF FilterRecord
<1>8. text' = Join(text, z) /\ text' \in Seq(Chars)
  BY <1>1, <1>4
<1>9. Held(filter)' = Join(Held(filter), z)
  <2>0. z \in Seq(Chars)
    BY <1>3
  <2>1. Join(filter.acc, Join(filter.buf, z)) = Join(Join(filter.acc, filter.buf), z)
    BY ONLY <1>2, <2>0, JoinsOfThree
  <2>2. Held(filter)' = Join(Filter!Marker(filter.inl), Join(Join(filter.acc, filter.buf), z))
    BY <1>6, <1>7, <2>1 DEF Held
  <2>3. Join(Filter!Marker(filter.inl), Join(Join(filter.acc, filter.buf), z))
        = Join(Join(Filter!Marker(filter.inl), Join(filter.acc, filter.buf)), z)
    BY ONLY <1>2, <2>0, JoinsOfThree
  <2> QED BY ONLY <2>2, <2>3 DEF Held
<1>10. Kept' \subseteq Kept
  <2>1. ASSUME Filter!HasImage(text) PROVE Filter!HasImage(text')
    <3>1. PICK p : p = <<"rb", "lp">> OBVIOUS
    <3>2. Len(p) \in Nat \ {0} BY <3>1
    <3>3. Filter!Find(text, p, 1) # 0 BY <2>1, <3>1 DEF Filter!HasImage
    <3>4. Filter!Find(Append(text, c), p, 1) # 0 BY <3>2, <3>3, <1>1, FindStays
    <3> QED BY <3>1, <3>4 DEF Filter!HasImage
  <2>2. Kept' = IF Filter!HasImage(text') THEN {} ELSE Filter!Letters
    BY DEF Kept
  <2> QED BY <2>1, <2>2 DEF Kept
<1>11. Left(Join(filter.out, Held(filter)), text, Kept) /\ EndOf(Held(filter), text)
  BY <1>1 DEF Removes
<1>12. Left(Join(filter'.out, Held(filter)'), text', Kept')
  <2>1. Join(filter.out, h) \in Seq(Chars)
    BY <1>2, <1>3, Joins
  <2>2. Left(Join(Join(filter.out, h), z), text', Kept')
    <3>1. PICK b, k1, k2, t2 : b = Join(filter.out, h) /\ k1 = Kept /\ k2 = Kept' /\ t2 = text'
      OBVIOUS
    <3>2. Left(b, text, k1) /\ k2 \subseteq k1 /\ b \in Seq(Chars) /\ text \in Seq(Chars)
      BY <3>1, <2>1, <1>1, <1>3, <1>10, <1>11
    <3>3. Left(Join(b, <<c>>), Join(text, <<c>>), k2)
      BY ONLY <3>2, c \in Chars, LeftAndMore DEF Join
    <3> QED BY ONLY <3>1, <3>3, <1>3, <1>8
  <2>3. Join(Join(filter.out, h), z) = Join(filter.out, Join(h, z))
    <3>1. z \in Seq(Chars) /\ h \in Seq(Chars) BY <1>2, <1>3
    <3> QED BY ONLY <3>1, <1>2, JoinsOfThree
  <2> QED BY <2>2, <2>3, <1>3, <1>7, <1>9
<1>13. EndOf(Held(filter)', text')
  <2>1. PICK p \in Seq(Chars) : text = Join(p, Held(filter))
    BY <1>11 DEF EndOf
  <2>2. Join(Join(p, h), z) = Join(p, Join(h, z))
    <3>1. z \in Seq(Chars) /\ h \in Seq(Chars) BY <1>2, <1>3
    <3> QED BY ONLY <3>1, p \in Seq(Chars), JoinsOfThree
  <2>3. text' = Join(p, Held(filter)')
    BY <2>1, <2>2, <1>3, <1>8, <1>9
  <2> QED BY <2>3 DEF EndOf
<1>14. Removes(filter)'
  BY <1>12, <1>13 DEF Removes
<1> QED BY <1>1, <1>7, <1>8, <1>14

-----------------------------------------------------------------------------
(* A fence that does not end.                                               *)

\* What begins with a fence.
LEMMA PrefixIs ==
    ASSUME NEW b \in Seq(Chars)
    PROVE  Filter!IsPrefix(Filter!Fence, b) <=> Len(b) >= 3 /\ b[1] = "tick" /\ b[2] = "tick" /\ b[3] = "tick"
<1>1. Len(b) \in Nat
  BY LenProperties
<1>2. PICK p : p = <<"tick", "tick", "tick">>
  OBVIOUS
<1>3. Len(p) = 3 /\ p[1] = "tick" /\ p[2] = "tick" /\ p[3] = "tick" /\ p = Filter!Fence
  BY <1>2 DEF Filter!Fence
<1>4. ASSUME Len(b) >= 3
      PROVE  SubSeq(b, 1, 3) \in Seq(Chars) /\ Len(SubSeq(b, 1, 3)) = 3 /\ SubSeq(b, 1, 3)[1] = b[1]
             /\ SubSeq(b, 1, 3)[2] = b[2] /\ SubSeq(b, 1, 3)[3] = b[3]
  <2>1. \A j \in 1 .. 3 : b[j] \in Chars
    BY <1>1, <1>4, ElementOfSeq
  <2>2. /\ SubSeq(b, 1, 3) \in Seq(Chars) /\ Len(SubSeq(b, 1, 3)) = IF 1 <= 3 THEN 3 - 1 + 1 ELSE 0
        /\ \A j \in 1 .. 3 - 1 + 1 : SubSeq(b, 1, 3)[j] = b[1 + j - 1]
    <3>1. 1 \in Int /\ 3 \in Int OBVIOUS
    <3> QED BY ONLY <3>1, <2>1, SubSeqProperties
  <2>3. 1 + 1 - 1 = 1 /\ 1 + 2 - 1 = 2 /\ 1 + 3 - 1 = 3 /\ 3 - 1 + 1 = 3
    OBVIOUS
  <2> QED BY ONLY <2>2, <2>3
<1>5. SubSeq(p, 1, 3) = p
  <2>1. PICK S : "tick" \in S
    OBVIOUS
  <2>2. p \in Seq(S) BY <1>2, <2>1
  <2> QED BY ONLY <2>2, <1>3, SubSeqFull
<1>6. Filter!IsPrefix(p, b) <=> Len(p) <= Len(b) /\ SubSeq(p, 1, Len(p)) = SubSeq(b, 1, Len(p))
  BY DEF Filter!IsPrefix
<1>7. Filter!IsPrefix(p, b) <=> Len(b) >= 3 /\ p = SubSeq(b, 1, 3)
  BY <1>1, <1>3, <1>5, <1>6
<1>8. ASSUME Len(b) >= 3, b[1] = "tick", b[2] = "tick", b[3] = "tick" PROVE p = SubSeq(b, 1, 3)
  <2>1. p \in Seq(Chars)
    <3>1. "tick" \in Chars
      <4>1. 1 \in 1 .. Len(b) BY <1>1, <1>8
      <4> QED BY <4>1, <1>8, ElementOfSeq
    <3> QED BY <3>1, <1>2
  <2>2. \A j \in 1 .. 3 : p[j] = SubSeq(b, 1, 3)[j]
    BY <1>3, <1>4, <1>8
  <2> QED BY <2>1, <2>2, <1>3, <1>4, <1>8, SeqEqual
<1> QED BY <1>3, <1>4, <1>7, <1>8

\* The characters of a fence on a new line.
LEMMA NewFence ==
    /\ Len(<<"nl">> \o Filter!Fence) = 4 /\ (<<"nl">> \o Filter!Fence)[1] = "nl"
    /\ \A j \in 2 .. 4 : (<<"nl">> \o Filter!Fence)[j] = "tick"
<1>1. PICK S, n, p : "nl" \in S /\ "tick" \in S /\ n = <<"nl">> /\ p = <<"tick", "tick", "tick">>
  <2>1. "nl" \in {"nl", "tick"} /\ "tick" \in {"nl", "tick"} OBVIOUS
  <2> QED BY ONLY <2>1
<1>2. n \in Seq(S) /\ p \in Seq(S) /\ Len(n) = 1 /\ Len(p) = 3 /\ n[1] = "nl"
  BY <1>1
<1>3. \A j \in 1 .. 3 : p[j] = "tick"
  <2> TAKE j \in 1 .. 3
  <2>1. p[1] = "tick" /\ p[2] = "tick" /\ p[3] = "tick" BY <1>1
  <2>2. j = 1 \/ j = 2 \/ j = 3 OBVIOUS
  <2> QED BY ONLY <2>1, <2>2
<1>4. Len(n \o p) = 1 + 3 /\ \A i \in 1 .. 1 + 3 : (n \o p)[i] = IF i <= 1 THEN n[i] ELSE p[i - 1]
  <2>1. n \in Seq(S) /\ p \in Seq(S) BY <1>2
  <2>2. /\ Len(n \o p) = Len(n) + Len(p)
        /\ \A i \in 1 .. Len(n) + Len(p) : (n \o p)[i] = IF i <= Len(n) THEN n[i] ELSE p[i - Len(n)]
    BY ONLY <2>1, ConcatProperties
  <2>3. Len(n) = 1 /\ Len(p) = 3 BY <1>2
  <2> QED BY ONLY <2>2, <2>3
<1>5. \A j \in 2 .. 4 : j - 1 \in 1 .. 3 /\ ~(j <= 1) /\ j \in 1 .. 1 + 3
  OBVIOUS
<1>6. 1 + 3 = 4 /\ 1 \in 1 .. 1 + 3 /\ 1 <= 1
  OBVIOUS
<1>7. Len(n \o p) = 4 /\ (n \o p)[1] = "nl" /\ \A j \in 2 .. 4 : (n \o p)[j] = "tick"
  BY ONLY <1>2, <1>5, <1>6, <1>3, <1>4
<1> QED BY ONLY <1>1, <1>7 DEF Filter!Fence

\* A fence that does not end has not ended before.
LEMMA FencedBefore ==
    ASSUME NEW t \in Seq(Chars), NEW c \in Chars, Fenced(Append(t, c))
    PROVE  Fenced(t)
<1>1. PICK p, w : p = <<"nl">> \o Filter!Fence /\ w = Append(t, c)
  OBVIOUS
<1>2. Len(p) \in Nat \ {0}
  BY <1>1, NewFence
<1>3. Filter!Find(t, p, 1) # 0 => Filter!Find(w, p, 1) # 0
  BY <1>1, <1>2, FindStays
<1>4. Len(w) = Len(t) + 1 /\ Len(t) \in Nat /\ \A j \in 1 .. Len(t) : w[j] = t[j]
  BY <1>1, AppendProperties, LenProperties
<1>5. \A i \in 1 .. Len(w) : i <= 3 => w[i] = "tick"
  BY <1>1 DEF Fenced, Ticks
<1>6. \A i \in 1 .. Len(t) : i <= 3 => t[i] = "tick"
  BY ONLY <1>4, <1>5
<1> QED BY <1>1, <1>3, <1>6 DEF Fenced, Ticks

\* The beginning of a line that the filter gives out in a fence is not a fence.
LEMMA NoNewFence ==
    ASSUME text \in Seq(Chars), Fenced(text), NEW o \in Seq(Chars), NEW b \in Seq(Chars), text = Join(o, b),
           o # <<>>, o[Len(o)] = "nl", Len(b) >= 3, b[1] = "tick", b[2] = "tick", b[3] = "tick"
    PROVE  FALSE
<1>1. Len(o) \in Nat /\ Len(b) \in Nat /\ Len(o) >= 1
  BY EmptySeq, LenProperties
<1>2. /\ Len(text) = Len(o) + Len(b)
      /\ \A i \in 1 .. Len(o) + Len(b) : text[i] = IF i <= Len(o) THEN o[i] ELSE b[i - Len(o)]
  BY ConcatProperties DEF Join
<1>3. PICK k : k = Len(o)
  OBVIOUS
<1>4. text[k] = "nl" /\ text[k + 1] = "tick" /\ text[k + 2] = "tick" /\ text[k + 3] = "tick"
  <2>1. /\ k \in 1 .. Len(o) + Len(b) /\ k <= Len(o)
        /\ k + 1 \in 1 .. Len(o) + Len(b) /\ ~(k + 1 <= Len(o)) /\ (k + 1) - Len(o) = 1
        /\ k + 2 \in 1 .. Len(o) + Len(b) /\ ~(k + 2 <= Len(o)) /\ (k + 2) - Len(o) = 2
        /\ k + 3 \in 1 .. Len(o) + Len(b) /\ ~(k + 3 <= Len(o)) /\ (k + 3) - Len(o) = 3
    BY <1>1, <1>3
  <2> QED BY <2>1, <1>2, <1>3
<1>5. k \in 1 .. Len(text) /\ k + 4 <= Len(text) + 1 /\ k + 1 \in 1 .. Len(text)
  BY <1>1, <1>2, <1>3
<1>6. PICK p : p = <<"nl">> \o Filter!Fence
  OBVIOUS
<1>7. p \in Seq(Chars)
  <2>1. "nl" \in Chars /\ "tick" \in Chars
    BY <1>4, <1>5, ElementOfSeq
  <2>2. <<"nl">> \in Seq(Chars) /\ Filter!Fence \in Seq(Chars)
    BY <2>1 DEF Filter!Fence
  <2> QED BY <2>2, <1>6, ConcatProperties
<1>8. Len(p) = 4 /\ p[1] = "nl" /\ \A j \in 2 .. 4 : p[j] = "tick"
  BY <1>6, NewFence
<1>9. \A j \in 1 .. Len(p) : text[k + j - 1] = p[j]
  <2> TAKE j \in 1 .. Len(p)
  <2>1. j \in {1, 2, 3, 4} BY <1>8
  <2>2. k + 1 - 1 = k /\ k + 2 - 1 = k + 1 /\ k + 3 - 1 = k + 2 /\ k + 4 - 1 = k + 3 BY <1>5
  <2>3. p[1] = "nl" /\ p[2] = "tick" /\ p[3] = "tick" /\ p[4] = "tick" BY <1>8
  <2> QED BY ONLY <2>1, <2>2, <2>3, <1>4
<1>10. Filter!Find(text, p, 1) # 0
  <2>1. Len(p) >= 1 /\ k + Len(p) <= Len(text) + 1 BY <1>5, <1>8
  <2>2. text \in Seq(Chars) OBVIOUS
  <2> QED BY ONLY <2>1, <2>2, <1>5, <1>7, <1>9, FindOccurs
<1> QED BY <1>6, <1>10 DEF Fenced

\* What is given out and what is held are the same text before and after.
LEMMA EmittedKeeps ==
    ASSUME Between, NEW i \in 0 .. Len(filter.buf), NEW g, Emitted(g, i)
    PROVE  Join(g.out, g.buf) = Join(filter.out, filter.buf)
<1>1. filter.buf \in Seq(Chars) /\ filter.out \in Seq(Chars)
  BY HeldTyped DEF Between
<1>2. PICK x, y : x = Filter!Upto(filter.buf, i) /\ y = Filter!From(filter.buf, i + 1)
  OBVIOUS
<1>3. x \in Seq(Chars) /\ y \in Seq(Chars) /\ filter.buf = Join(x, y)
  BY <1>1, <1>2, SplitChars
<1>4. g.out = Join(filter.out, x) /\ g.buf = y
  BY <1>2 DEF Emitted
<1>5. Join(Join(filter.out, x), y) = Join(filter.out, Join(x, y))
  BY ONLY <1>1, <1>3, JoinsOfThree
<1> QED BY ONLY <1>3, <1>4, <1>5

\* The last character given out.
LEMMA EmittedEnds ==
    ASSUME Between, NEW i \in 1 .. Len(filter.buf), NEW g, Emitted(g, i)
    PROVE  g.out # <<>> /\ g.out[Len(g.out)] = filter.buf[i]
<1>1. filter.buf \in Seq(Chars) /\ filter.out \in Seq(Chars) /\ Len(filter.buf) \in Nat /\ Len(filter.out) \in Nat
  BY HeldTyped, LenProperties DEF Between
<1>2. PICK x, o : x = Filter!Upto(filter.buf, i) /\ o = filter.out
  OBVIOUS
<1>3. i \in 0 .. Len(filter.buf) /\ i \in 1 .. i /\ i \in Nat
  BY <1>1
<1>4. x \in Seq(Chars) /\ Len(x) = i /\ x[i] = filter.buf[i]
  <2>1. \A k \in 1 .. i : x[k] = filter.buf[k] BY <1>1, <1>2, <1>3, Split
  <2> QED BY <2>1, <1>1, <1>2, <1>3, SplitChars
<1>5. g.out = o \o x
  BY <1>2 DEF Emitted, Join
<1>6. /\ Len(o \o x) = Len(o) + Len(x)
      /\ \A k \in 1 .. Len(o) + Len(x) : (o \o x)[k] = IF k <= Len(o) THEN o[k] ELSE x[k - Len(o)]
  <2>1. o \in Seq(Chars) /\ x \in Seq(Chars) BY <1>1, <1>2, <1>4
  <2> QED BY ONLY <2>1, ConcatProperties
<1>7. PICK n : n = Len(o) + i
  OBVIOUS
<1>8. n \in 1 .. Len(o) + Len(x) /\ ~(n <= Len(o)) /\ n - Len(o) = i /\ n = Len(o \o x)
  BY <1>1, <1>2, <1>3, <1>4, <1>6, <1>7
<1>9. (o \o x)[n] = x[i] /\ Len(o \o x) # 0
  BY ONLY <1>6, <1>8
<1>10. g.out[Len(g.out)] = filter.buf[i]
  BY ONLY <1>4, <1>5, <1>8, <1>9
<1>11. o \o x # <<>>
  BY ONLY <1>9, EmptySeq
<1> QED BY <1>5, <1>10, <1>11

\* The flags after Emit.
LEMMA EmitFlags ==
    ASSUME Between, NEW i \in 0 .. Len(filter.buf), NEW b \in BOOLEAN
    PROVE  /\ [Filter!Emit(filter, i) EXCEPT !.sol = b].sol = b
           /\ [Filter!Emit(filter, i) EXCEPT !.sol = b].fence = filter.fence
           /\ [Filter!Emit(filter, i) EXCEPT !.fence = b].fence = b
           /\ [Filter!Emit(filter, i) EXCEPT !.fence = b].sol = filter.sol
<1>1. PICK f : f = Filter!Emit(filter, i)
  OBVIOUS
<1>2. f \in FilterRecord /\ f.sol = filter.sol /\ f.fence = filter.fence
  BY <1>1, EmitTurns DEF Emitted, TurnsWell
<1>3. PICK g, h : g = [f EXCEPT !.sol = b] /\ h = [f EXCEPT !.fence = b]
  OBVIOUS
<1>4. g.sol = b /\ g.fence = f.fence /\ h.fence = b /\ h.sol = f.sol
  BY <1>2, <1>3 DEF FilterRecord
<1> QED BY <1>1, <1>2, <1>3, <1>4

\* A turn inside a fence that does not end stays inside.
LEMMA FenceGoesOn ==
    ASSUME Between, Fenced(text), Inside(filter), NEW eof \in BOOLEAN, NEW g, g = Filter!PumpFence(filter, eof)
    PROVE  Inside(g)
<1>1. PICK b, nl : b = filter.buf /\ nl = Filter!Find(b, <<"nl">>, IF filter.sol /\ Filter!IsPrefix(Filter!Fence, b) THEN 4 ELSE 1)
  OBVIOUS
<1>2. PICK l \in 1 .. Len(filter.buf) : l = Len(filter.buf)
  BY EmitAll
<1>3. /\ b \in Seq(Chars) /\ Len(b) \in Nat /\ l = Len(b) /\ filter.out \in Seq(Chars) /\ filter.sol \in BOOLEAN
      /\ text \in Seq(Chars) /\ text = Join(filter.out, b)
  BY <1>1, <1>2, EmitAll, HeldTyped DEF Between, Inside, FilterRecord
<1>4. nl = 0 \/ (nl \in 1 .. Len(filter.buf) /\ nl \in 0 .. Len(filter.buf) /\ b[nl] = "nl")
  <2>1. \A i \in {1, 4} : /\ i \in Nat /\ i >= 1
                          /\ Filter!Find(b, <<"nl">>, i) = 0 \/ /\ Filter!Find(b, <<"nl">>, i) \in i .. Len(b)
                                                                /\ b[Filter!Find(b, <<"nl">>, i)] = "nl"
    <3> TAKE i \in {1, 4}
    <3>1. i \in Nat /\ i >= 1 OBVIOUS
    <3> QED BY ONLY <3>1, <1>3, FindOne
  <2>2. PICK i \in {1, 4} : nl = Filter!Find(b, <<"nl">>, i)
    BY <1>1
  <2>3. nl = 0 \/ (nl \in i .. Len(b) /\ b[nl] = "nl")
    BY <2>1, <2>2
  <2> QED BY <2>2, <2>3, <1>1, <1>3
<1>5. ~(filter.sol /\ Filter!IsPrefix(Filter!Fence, b))
  <2> SUFFICES ASSUME filter.sol, Filter!IsPrefix(Filter!Fence, b) PROVE FALSE
    OBVIOUS
  <2>1. filter.out # <<>> /\ filter.out[Len(filter.out)] = "nl"
    BY DEF Inside
  <2>2. Len(b) >= 3 /\ b[1] = "tick" /\ b[2] = "tick" /\ b[3] = "tick"
    BY <1>3, PrefixIs
  <2> QED BY ONLY <2>1, <2>2, <1>3, Fenced(text), NoNewFence
<1>6. filter.inl = "none" /\ filter.fence
  BY DEF Inside
<1>7. CASE filter.sol /\ Len(b) < 3 /\ ~eof
  <2>1. g = filter BY <1>1, <1>5, <1>7 DEF Filter!PumpFence
  <2> QED BY <2>1
<1>8. CASE ~(filter.sol /\ Len(b) < 3 /\ ~eof)
  <2>1. g = IF nl # 0 THEN [Filter!Emit(filter, nl) EXCEPT !.sol = TRUE] ELSE Filter!Body(Filter!Emit(filter, l))
    BY <1>1, <1>3, <1>5, <1>8 DEF Filter!PumpFence
  <2>2. CASE nl # 0
    <3>1. Emitted(g, nl) /\ g.fence
      BY <2>1, <2>2, <1>4, <1>6, EmitTurns, EmitFlags
    <3>2. Join(g.out, g.buf) = text
      BY <3>1, <2>2, <1>1, <1>3, <1>4, EmittedKeeps
    <3>3. g.out # <<>> /\ g.out[Len(g.out)] = "nl"
      BY <3>1, <2>2, <1>1, <1>4, EmittedEnds
    <3> QED BY <3>1, <3>2, <3>3 DEF Inside, Emitted
  <2>3. CASE nl = 0
    <3>1. g = [Filter!Emit(filter, l) EXCEPT !.sol = FALSE] /\ l \in 0 .. Len(filter.buf)
      BY <2>1, <2>3, <1>3 DEF Filter!Body
    <3>2. Emitted(g, l) /\ g.fence /\ ~g.sol
      BY <3>1, <1>6, EmitTurns, EmitFlags
    <3>3. Join(g.out, g.buf) = text
      BY <3>1, <3>2, <1>1, <1>3, EmittedKeeps
    <3> QED BY <3>2, <3>3 DEF Inside, Emitted
  <2> QED BY <2>2, <2>3
<1> QED BY <1>7, <1>8

\* The turn that reads the opening of a fence.
LEMMA FenceOpens ==
    ASSUME Between, Fenced(text), Opening(filter), NEW eof \in BOOLEAN, Len(text) >= 3 \/ ~eof,
           NEW g, g = Filter!PumpSOL(filter, eof)
    PROVE  Opening(g) \/ Inside(g) \/ (eof /\ Passed(g))
<1>1. PICK b, nl : b = filter.buf /\ nl = Filter!Find(b, <<"nl">>, 4)
  OBVIOUS
<1>2. PICK l \in 1 .. Len(filter.buf) : l = Len(filter.buf)
  BY EmitAll
<1>3. /\ b \in Seq(Chars) /\ Len(b) \in Nat /\ Len(b) >= 1 /\ l = Len(b) /\ l \in 0 .. Len(filter.buf)
      /\ text = b /\ filter.out = <<>> /\ filter.sol /\ ~filter.fence /\ Join(filter.out, filter.buf) = text
  <2>1. b \in Seq(Chars) /\ Len(b) \in Nat /\ Len(b) >= 1 /\ l = Len(b)
    BY <1>1, <1>2, EmitAll
  <2>2. text = b /\ filter.out = <<>> /\ filter.sol /\ ~filter.fence
    BY <1>1 DEF Opening
  <2> QED BY <2>1, <2>2, <1>1, JoinsEmpty
<1>4. nl = 0 \/ (nl \in 1 .. Len(filter.buf) /\ nl \in 0 .. Len(filter.buf) /\ b[nl] = "nl")
  <2>1. 4 \in Nat /\ 4 >= 1 OBVIOUS
  <2>2. nl = 0 \/ (nl \in 4 .. Len(b) /\ b[nl] = "nl")
    BY ONLY <2>1, <1>1, <1>3, FindOne
  <2> QED BY <2>2, <1>1, <1>3
<1>5. b[1] = "tick" /\ (Len(b) >= 3 => Filter!IsPrefix(Filter!Fence, b))
  <2>1. \A i \in 1 .. Len(b) : i <= 3 => b[i] = "tick"
    BY <1>3 DEF Fenced, Ticks
  <2>2. 1 \in 1 .. Len(b) /\ (Len(b) >= 3 => 2 \in 1 .. Len(b) /\ 3 \in 1 .. Len(b)) BY <1>3
  <2> QED BY <2>1, <2>2, <1>3, PrefixIs
<1>6. Filter!IsPrefix(Filter!Fence, b) <=> Len(b) >= 3
  BY <1>3, <1>5, PrefixIs
<1>7. CASE Len(b) < 3 /\ ~eof
  <2>1. g = filter BY <1>1, <1>3, <1>5, <1>6, <1>7 DEF Filter!PumpSOL
  <2> QED BY <2>1
<1>8. CASE Len(b) >= 3
  <2>1. g = IF nl # 0 THEN [Filter!Emit(filter, nl) EXCEPT !.fence = TRUE]
            ELSE IF eof THEN Filter!Emit(filter, l) ELSE filter
    BY <1>1, <1>3, <1>5, <1>6, <1>8 DEF Filter!PumpSOL
  <2>2. CASE nl # 0
    <3>1. Emitted(g, nl) /\ g.fence
      BY <2>1, <2>2, <1>4, EmitTurns, EmitFlags
    <3>2. Join(g.out, g.buf) = text
      BY <3>1, <2>2, <1>3, <1>4, EmittedKeeps
    <3>3. g.out # <<>> /\ g.out[Len(g.out)] = "nl"
      BY <3>1, <2>2, <1>1, <1>4, EmittedEnds
    <3> QED BY <3>1, <3>2, <3>3 DEF Inside, Emitted
  <2>3. CASE nl = 0 /\ eof
    <3>1. Emitted(g, l)
      BY <2>1, <2>3, <1>3, EmitTurns
    <3>2. g.inl = "none" /\ Len(g.buf) = 0 /\ g.buf \in Seq(Chars) /\ g.out \in Seq(Chars)
      <4>1. g.inl = "none" /\ Len(g.buf) = Len(filter.buf) - l /\ g \in FilterRecord
        BY <3>1 DEF Emitted, TurnsWell
      <4> QED BY <4>1, <1>1, <1>3, HeldTyped
    <3>3. g.buf = <<>>
      BY ONLY <3>2, EmptySeq
    <3>4. Join(g.out, g.buf) = text
      BY <3>1, <1>3, EmittedKeeps
    <3>5. g.out = text
      BY <3>2, <3>3, <3>4, JoinsEmpty
    <3> QED BY <2>3, <3>2, <3>3, <3>5 DEF Passed
  <2>4. CASE nl = 0 /\ ~eof
    BY <2>1, <2>4
  <2> QED BY <2>2, <2>3, <2>4
<1> QED BY <1>3, <1>7, <1>8

-----------------------------------------------------------------------------
(* The filter as a whole.                                                   *)

\* A turn after which the loop ends has not moved.
LEMMA SameIsStill ==
    ASSUME NEW f \in FilterRecord, NEW g \in FilterRecord,
           [f EXCEPT !.acc = <<>>, !.out = <<>>, !.buf = Len(@)]
           = [g EXCEPT !.acc = <<>>, !.out = <<>>, !.buf = Len(@)]
    PROVE  ~Shifts(g, f)
<1>1. ASSUME NEW h \in FilterRecord, NEW r, r = [h EXCEPT !.acc = <<>>, !.out = <<>>, !.buf = Len(@)]
      PROVE  r.buf = Len(h.buf) /\ r.inl = h.inl /\ r.sol = h.sol /\ r.fence = h.fence
  BY <1>1 DEF FilterRecord
<1>2. PICK r : /\ r = [f EXCEPT !.acc = <<>>, !.out = <<>>, !.buf = Len(@)]
               /\ r = [g EXCEPT !.acc = <<>>, !.out = <<>>, !.buf = Len(@)]
  OBVIOUS
<1>3. r.buf = Len(f.buf) /\ r.inl = f.inl /\ r.sol = f.sol /\ r.fence = f.fence
  BY ONLY <1>1, <1>2, f \in FilterRecord
<1>4. r.buf = Len(g.buf) /\ r.inl = g.inl /\ r.sol = g.sol /\ r.fence = g.fence
  BY ONLY <1>1, <1>2, g \in FilterRecord
<1> QED BY ONLY <1>3, <1>4 DEF Shifts

\* f is what the filter is after a turn of the loop; the filter is closed when
\* nothing is left in the buffer.
After(f) ==
    /\ TurnsWell(f)
    /\ filter.buf = <<>> => f = filter
    /\ filter.buf # <<>> => f = Filter!Pumped(filter, calling = "flush")
    /\ \/ filter' = f /\ calling' = calling /\ filter.buf # <<>> /\ calling \in {"feed", "flush"}
       \/ filter' = f /\ calling' = "none" /\ calling = "feed"
       \/ /\ calling = "flush" /\ calling' = "closed" /\ filter.buf = <<>> /\ f = filter
          /\ filter' = [filter EXCEPT !.out = @ \o Filter!Marker(filter.inl) \o filter.acc, !.inl = "none",
                                      !.acc = <<>>]

\* What the action Pump does.
LEMMA PumpIs ==
    ASSUME FilterInv, Filter!Pump
    PROVE  alphabet' = alphabet /\ text' = text /\ \E f : After(f)
<1>1. PICK f : f = IF filter.buf = <<>> THEN filter ELSE Filter!Pumped(filter, calling = "flush")
  OBVIOUS
<1>2. PICK same : same = ([f EXCEPT !.acc = <<>>, !.out = <<>>, !.buf = Len(@)]
                          = [filter EXCEPT !.acc = <<>>, !.out = <<>>, !.buf = Len(@)])
  OBVIOUS
<1>3. /\ calling \in {"feed", "flush"}
      /\ IF filter.buf # <<>> /\ ~same
         THEN filter' = f /\ calling' = calling
         ELSE /\ calling' = (IF calling = "flush" THEN "closed" ELSE "none")
              /\ filter' = (IF calling = "flush"
                            THEN [f EXCEPT !.out = @ \o Filter!Marker(f.inl) \o f.acc, !.inl = "none", !.acc = <<>>]
                            ELSE f)
      /\ alphabet' = alphabet /\ text' = text
  BY ONLY Filter!Pump, <1>1, <1>2 DEF Filter!Pump
<1>4. filter \in FilterRecord /\ TurnsWell(filter)
  BY DEF FilterInv, FilterTyped, TurnsWell
<1>5. filter.buf # <<>> => TurnsWell(f) /\ (calling = "flush" => Shifts(filter, f))
  <2>1. (calling = "flush") \in BOOLEAN OBVIOUS
  <2>2. filter.buf # <<>> => f = Filter!Pumped(filter, calling = "flush") BY <1>1
  <2> QED BY ONLY <2>1, <2>2, FilterInv, PumpedTurns
<1>6. TurnsWell(f) /\ f \in FilterRecord
  BY <1>1, <1>4, <1>5 DEF TurnsWell
<1>7. same => ~Shifts(filter, f)
  BY ONLY <1>2, <1>4, <1>6, SameIsStill
<1>8. CASE filter.buf # <<>> /\ ~same
  BY <1>1, <1>3, <1>6, <1>8 DEF After
<1>9. CASE filter.buf # <<>> /\ same
  <2>1. calling = "feed" BY <1>3, <1>5, <1>7, <1>9
  <2>2. filter' = f /\ calling' = "none" BY ONLY <2>1, <1>3, <1>9
  <2> QED BY <2>1, <2>2, <1>1, <1>3, <1>6, <1>9 DEF After
<1>10. CASE filter.buf = <<>>
  <2>1. f = filter BY <1>1, <1>10
  <2>2. CASE calling = "feed"
    <3>1. filter' = f /\ calling' = "none" BY ONLY <2>2, <1>3, <1>10
    <3> QED BY <3>1, <2>1, <2>2, <1>3, <1>6, <1>10 DEF After
  <2>3. CASE calling = "flush"
    <3>1. /\ calling' = "closed"
          /\ filter' = [filter EXCEPT !.out = @ \o Filter!Marker(filter.inl) \o filter.acc, !.inl = "none", !.acc = <<>>]
      BY ONLY <2>1, <2>3, <1>3, <1>10
    <3> QED BY <3>1, <2>1, <2>3, <1>3, <1>6, <1>10 DEF After
  <2> QED BY <2>2, <2>3, <1>3
<1> QED BY <1>3, <1>8, <1>9, <1>10

\* What is true of a filter and this text is true of the next filter.
LEMMA NextIs ==
    ASSUME NEW g, filter' = g, text' = text, TurnsWell(g)
    PROVE  /\ filter' \in FilterRecord /\ Removes(filter)'
           /\ (filter.inl = "none" => filter.acc = <<>>)' /\ (filter.fence => filter.inl = "none")'
           /\ Opening(g) => Opening(filter)'
           /\ Inside(g) => Inside(filter)'
           /\ Passed(g) => Passed(filter)'
<1>1. Removes(filter)'
  BY DEF TurnsWell, Removes, Held, Kept
<1>2. (Opening(g) => Opening(filter)') /\ (Inside(g) => Inside(filter)') /\ (Passed(g) => Passed(filter)')
  BY DEF Opening, Inside, Passed
<1> QED BY <1>1, <1>2 DEF TurnsWell

\* A turn keeps a fence that does not end.
LEMMA PumpFences ==
    ASSUME FilterInv, text' = text, NEW f, After(f)
    PROVE  FencePasses'
<1> SUFFICES ASSUME Fenced(text)
             PROVE  Opening(filter)' \/ Inside(filter)' \/ (calling' \in {"flush", "closed"} /\ Passed(filter)')
  BY DEF FencePasses
<1>1. /\ text \in Seq(Chars) /\ filter \in FilterRecord /\ TurnsWell(filter) /\ TurnsWell(f) /\ Len(text) \in Nat
      /\ filter.buf # <<>> /\ filter.inl = "none" => Between
      /\ Opening(filter) \/ Inside(filter) \/ (calling \in {"flush", "closed"} /\ Passed(filter))
  BY LenProperties DEF FilterInv, FilterTyped, TurnsWell, Between, FencePasses, After
<1>2. CASE Len(text) < 3 /\ calling = "flush"
  <2>1. calling' \in {"flush", "closed"} BY <1>2 DEF After
  <2>2. Passed(filter)' BY <1>1, <1>2 DEF Passed
  <2> QED BY <2>1, <2>2
<1>3. CASE filter.buf = <<>> /\ calling = "feed"
  <2>1. filter' = filter /\ f = filter BY <1>3 DEF After
  <2>2. Opening(filter) \/ Inside(filter) BY <1>1, <1>3
  <2> QED BY <2>1, <2>2, <1>1, NextIs
<1>4. CASE filter.buf = <<>> /\ calling = "flush" /\ Len(text) >= 3
  <2>1. PICK g : /\ calling' = "closed" /\ filter' = g
                 /\ g = [filter EXCEPT !.out = @ \o Filter!Marker(filter.inl) \o filter.acc, !.inl = "none",
                                       !.acc = <<>>]
    BY <1>4 DEF After
  <2>2. TurnsWell(g) /\ g.buf = <<>> /\ g.inl = "none" /\ (filter.inl = "none" => g.out = filter.out)
    BY ONLY <2>1, <1>1, <1>4, EndTurns
  <2>3. filter.inl = "none" /\ filter.out = text
    <3>1. CASE Opening(filter)
      <4>1. text = <<>> BY <3>1, <1>4 DEF Opening
      <4> QED BY ONLY <4>1, <1>4, EmptySeq
    <3>2. CASE Inside(filter)
      <4>1. filter.inl = "none" /\ Join(filter.out, <<>>) = text BY <3>2, <1>4 DEF Inside
      <4>2. filter.out \in Seq(Chars) BY <1>1, HeldTyped
      <4> QED BY ONLY <4>1, <4>2, JoinsEmpty
    <3>3. CASE Passed(filter)
      BY <3>3, <1>4 DEF Passed
    <3> QED BY <3>1, <3>2, <3>3, <1>1
  <2>4. Passed(g) BY <2>2, <2>3 DEF Passed
  <2> QED BY <2>1, <2>2, <2>4, NextIs
<1>5. CASE filter.buf # <<>> /\ ~(Len(text) < 3 /\ calling = "flush")
  <2>1. /\ filter' = f /\ f = Filter!Pumped(filter, calling = "flush") /\ calling \in {"feed", "flush"}
        /\ calling = "flush" => calling' = "flush"
    BY <1>5 DEF After
  <2>2. PICK eof \in BOOLEAN : eof = (calling = "flush")
    OBVIOUS
  <2>3. CASE Opening(filter)
    <3>1. f = Filter!PumpSOL(filter, eof)
      BY <2>1, <2>2, <2>3 DEF Opening, Filter!Pumped
    <3>2. Between /\ (Len(text) >= 3 \/ ~eof)
      <4>1. Between BY <2>3, <1>1, <1>5 DEF Opening
      <4>2. Len(text) >= 3 \/ calling # "flush" BY <1>1, <1>5
      <4> QED BY ONLY <4>1, <4>2, <2>2
    <3>3. Opening(f) \/ Inside(f) \/ (eof /\ Passed(f))
      BY ONLY <3>1, <3>2, <2>3, Fenced(text), FenceOpens
    <3> QED BY <3>3, <2>1, <2>2, <1>1, NextIs
  <2>4. CASE Inside(filter)
    <3>1. f = Filter!PumpFence(filter, eof)
      BY <2>1, <2>2, <2>4 DEF Inside, Filter!Pumped
    <3>2. Between
      BY <2>4, <1>1, <1>5 DEF Inside
    <3>3. Inside(f)
      BY ONLY <3>1, <3>2, <2>4, Fenced(text), FenceGoesOn
    <3> QED BY <3>3, <2>1, <1>1, NextIs
  <2>5. CASE calling \in {"flush", "closed"} /\ Passed(filter)
    BY <2>1, <2>5, <1>1, <1>5 DEF Passed
  <2> QED BY <2>3, <2>4, <2>5, <1>1
<1>6. calling \in {"feed", "flush"}
  BY DEF After
<1> QED BY <1>1, <1>2, <1>3, <1>4, <1>5, <1>6

\* The actions keep the invariant.
LEMMA PumpStep == ASSUME FilterInv, Filter!Pump PROVE FilterInv'
<1>1. alphabet' = alphabet /\ text' = text /\ \E f : After(f)
  BY PumpIs
<1>2. PICK f : After(f)
  BY <1>1
<1>3. text \in Seq(Chars) /\ alphabet \in Alphabets /\ TurnsWell(filter) /\ TurnsWell(f)
  BY <1>2 DEF FilterInv, FilterTyped, TurnsWell, After
<1>4. FencePasses'
  BY <1>1, <1>2, PumpFences
<1>5. \E g : /\ TurnsWell(g) /\ filter' = g
             /\ calling' \in {"none", "feed", "flush"} \/ (calling' = "closed" /\ g.buf = <<>> /\ g.inl = "none")
  <2>1. CASE filter' = f /\ calling' \in {"none", "feed", "flush"}
    BY <2>1, <1>3
  <2>2. CASE /\ calling' = "closed" /\ filter.buf = <<>>
             /\ filter' = [filter EXCEPT !.out = @ \o Filter!Marker(filter.inl) \o filter.acc, !.inl = "none",
                                         !.acc = <<>>]
    BY ONLY <2>2, <1>3, EndTurns
  <2> QED BY <2>1, <2>2, <1>2 DEF After
<1>6. PICK g : /\ TurnsWell(g) /\ filter' = g
               /\ calling' \in {"none", "feed", "flush"} \/ (calling' = "closed" /\ g.buf = <<>> /\ g.inl = "none")
  BY <1>5
<1>7. /\ filter' \in FilterRecord /\ Removes(filter)'
      /\ (filter.inl = "none" => filter.acc = <<>>)' /\ (filter.fence => filter.inl = "none")'
  BY <1>1, <1>6, NextIs
<1>8. FilterTyped' /\ (calling = "closed" => filter.buf = <<>> /\ filter.inl = "none")'
  BY <1>1, <1>3, <1>6, <1>7 DEF FilterTyped
<1> QED BY <1>4, <1>7, <1>8 DEF FilterInv

LEMMA FeedStep == ASSUME FilterInv, NEW c \in alphabet, Filter!Feed(c) PROVE FilterInv'
<1>1. /\ text' = Append(text, c) /\ filter' = [filter EXCEPT !.buf = Append(@, c)]
      /\ calling = "none" /\ calling' \in {"none", "feed"} /\ alphabet' = alphabet
  BY DEF Filter!Feed
<1>2. c \in Chars /\ text \in Seq(Chars) /\ alphabet \in Alphabets /\ filter \in FilterRecord
  BY DEF Chars, FilterInv, FilterTyped
<1>3. /\ filter' \in FilterRecord /\ text' \in Seq(Chars) /\ Removes(filter)'
      /\ (filter.inl = "none" => filter.acc = <<>>)' /\ (filter.fence => filter.inl = "none")'
  BY <1>1, <1>2, FeedTurns
<1>4. FilterTyped' /\ (calling = "closed" => filter.buf = <<>> /\ filter.inl = "none")'
  BY <1>1, <1>2, <1>3 DEF FilterTyped
<1>5. FencePasses'
  <2> SUFFICES ASSUME Fenced(text') PROVE Opening(filter)' \/ Inside(filter)'
    BY DEF FencePasses
  <2>1. Fenced(text)
    BY <1>1, <1>2, FencedBefore
  <2>2. Opening(filter) \/ Inside(filter)
    BY <2>1, <1>1 DEF FilterInv, FencePasses
  <2>3. PICK y : y = Append(filter.buf, c)
    OBVIOUS
  <2>4. /\ filter'.buf = y /\ filter'.out = filter.out /\ filter'.inl = filter.inl /\ filter'.sol = filter.sol
        /\ filter'.fence = filter.fence
    BY <1>1, <1>2, <2>3 DEF FilterRecord
  <2>5. CASE Opening(filter)
    <3>1. Opening(filter)' BY <2>3, <2>4, <2>5, <1>1 DEF Opening
    <3> QED BY <3>1
  <2>6. CASE Inside(filter)
    <3>1. filter.out \in Seq(Chars) /\ filter.buf \in Seq(Chars)
      BY <1>2, HeldTyped
    <3>2. Join(filter.out, y) = Append(text, c)
      <4>1. Append(filter.buf, c) = filter.buf \o <<c>>
        BY ONLY <3>1, <1>2, AppendIsConcat
      <4>2. Append(text, c) = text \o <<c>>
        BY ONLY <1>2, AppendIsConcat
      <4>3. PICK z \in Seq(Chars) : z = <<c>>
        <5>1. <<c>> \in Seq(Chars) BY <1>2
        <5> QED BY <5>1
      <4>4. y = Join(filter.buf, z) /\ Append(text, c) = Join(text, z) /\ text = Join(filter.out, filter.buf)
        BY <4>1, <4>2, <4>3, <2>3, <2>6 DEF Join, Inside
      <4>5. z \in Seq(Chars) BY <4>3
      <4>6. Join(Join(filter.out, filter.buf), z) = Join(filter.out, Join(filter.buf, z))
        BY ONLY <4>5, <3>1, JoinsOfThree
      <4> QED BY ONLY <4>4, <4>6
    <3>3. Inside(filter)' BY <3>2, <2>4, <2>6, <1>1 DEF Inside
    <3> QED BY <3>3
  <2> QED BY <2>2, <2>5, <2>6
<1> QED BY <1>3, <1>4, <1>5 DEF FilterInv

LEMMA FlushStep == ASSUME FilterInv, Filter!Flush PROVE FilterInv'
<1>1. alphabet' = alphabet /\ text' = text /\ filter' = filter /\ calling = "none" /\ calling' = "flush"
  BY DEF Filter!Flush
<1>2. TurnsWell(filter) /\ text \in Seq(Chars) /\ alphabet \in Alphabets
  BY DEF FilterInv, FilterTyped, TurnsWell
<1>3. FencePasses'
  <2>1. Fenced(text) => Opening(filter) \/ Inside(filter)
    BY <1>1 DEF FilterInv, FencePasses
  <2>2. Fenced(text) => Opening(filter)' \/ Inside(filter)'
    BY <2>1, <1>1, <1>2, NextIs
  <2> QED BY <2>2, <1>1 DEF FencePasses
<1>4. /\ filter' \in FilterRecord /\ Removes(filter)'
      /\ (filter.inl = "none" => filter.acc = <<>>)' /\ (filter.fence => filter.inl = "none")'
  BY <1>1, <1>2, NextIs
<1>5. FilterTyped' /\ (calling = "closed" => filter.buf = <<>> /\ filter.inl = "none")'
  BY <1>1, <1>2, <1>4 DEF FilterTyped
<1> QED BY <1>3, <1>4, <1>5 DEF FilterInv

\* The filter is empty at first.
LEMMA FilterStart == ASSUME Filter!FilterInit PROVE FilterInv
<1>1. /\ alphabet \in Alphabets /\ text = <<>> /\ calling = "none"
      /\ filter = [buf |-> <<>>, fence |-> FALSE, sol |-> TRUE, inl |-> "none", acc |-> <<>>, out |-> <<>>]
  BY DEF Filter!FilterInit
<1>2. <<>> \in Seq(Chars) /\ Len(<<>>) = 0
  BY EmptySeq
<1>3. filter \in FilterRecord /\ text \in Seq(Chars)
  BY <1>1, <1>2 DEF FilterRecord, Marks
<1>4. filter.inl = "none" /\ filter.acc = <<>> /\ filter.buf = <<>> /\ filter.out = <<>> /\ filter.sol /\ ~filter.fence
  BY <1>1
<1>5. Held(filter) = <<>>
  BY <1>3, <1>4, HoldsBuffer
<1>6. Left(<<>>, <<>>, Kept)
  <2>1. PICK at : at = [i \in 1 .. 0 |-> 1]
    OBVIOUS
  <2>2. at \in [1 .. 0 -> 1 .. 0]
    BY <2>1
  <2>3. \A i \in 1 .. 0 : FALSE
    OBVIOUS
  <2>4. Places(at, <<>>, <<>>, Kept)
    BY <2>2, <2>3, <1>2 DEF Places
  <2> QED BY <2>4 DEF Left
<1>7. EndOf(<<>>, <<>>) /\ Join(<<>>, <<>>) = <<>>
  BY <1>2, JoinsEmpty DEF EndOf
<1>8. Removes(filter)
  BY <1>1, <1>4, <1>5, <1>6, <1>7 DEF Removes
<1>9. FencePasses
  BY <1>1, <1>4 DEF FencePasses, Opening
<1> QED BY <1>1, <1>3, <1>4, <1>8, <1>9 DEF FilterInv, FilterTyped

LEMMA FilterStep == ASSUME FilterInv, Filter!FilterNext PROVE FilterInv'
BY FeedStep, FlushStep, PumpStep DEF Filter!FilterNext

\* A step of another part leaves the filter alone.
LEMMA FilterRests == ASSUME FilterInv, UNCHANGED fvars PROVE FilterInv'
<1>1. alphabet' = alphabet /\ text' = text /\ filter' = filter /\ calling' = calling
  BY DEF fvars
<1>2. TurnsWell(filter) /\ text \in Seq(Chars) /\ alphabet \in Alphabets
  BY DEF FilterInv, FilterTyped, TurnsWell
<1>3. FencePasses'
  BY <1>1, <1>2, NextIs DEF FilterInv, FencePasses
<1>4. /\ filter' \in FilterRecord /\ Removes(filter)'
      /\ (filter.inl = "none" => filter.acc = <<>>)' /\ (filter.fence => filter.inl = "none")'
  BY <1>1, <1>2, NextIs
<1>5. FilterTyped' /\ (calling = "closed" => filter.buf = <<>> /\ filter.inl = "none")'
  BY <1>1, <1>2, <1>4 DEF FilterInv, FilterTyped
<1> QED BY <1>3, <1>4, <1>5 DEF FilterInv

\* A text that is a fence as the property means it.
LEMMA FencedIs ==
    ASSUME text \in Seq(Chars), Filter!IsFenced(text)
    PROVE  Fenced(text) /\ Len(text) >= 3
<1>1. Len(text) >= 3 /\ text[1] = "tick" /\ text[2] = "tick" /\ text[3] = "tick"
  BY PrefixIs DEF Filter!IsFenced
<1>2. Ticks(text)
  <2> SUFFICES ASSUME NEW i \in 1 .. Len(text), i <= 3 PROVE text[i] = "tick"
    BY DEF Ticks
  <2>1. i \in {1, 2, 3} BY LenProperties
  <2> QED BY <2>1, <1>1
<1> QED BY <1>1, <1>2 DEF Fenced, Filter!IsFenced

\* The invariant implies the property.
LEMMA FilterHolds == ASSUME FilterInv PROVE FilterOnlyRemoves
<1>1. /\ text \in Seq(Chars) /\ filter \in FilterRecord /\ Removes(filter)
      /\ filter.inl = "none" => filter.acc = <<>>
  BY DEF FilterInv, FilterTyped
<1>2. /\ filter.out \in Seq(Chars) /\ Held(filter) \in Seq(Chars) /\ filter.acc \in Seq(Chars)
      /\ filter.buf \in Seq(Chars) /\ Filter!Marker(filter.inl) \in Seq(Chars)
      /\ Join(filter.acc, filter.buf) \in Seq(Chars)
  BY <1>1, HeldTyped
<1>3. PICK b, mark : b = Join(filter.out, Held(filter)) /\ mark = Filter!Marker(filter.inl)
  OBVIOUS
<1>4. Filter!Whole = b
  <2>1. PICK o, a, r : o = filter.out /\ a = filter.acc /\ r = filter.buf
    OBVIOUS
  <2>2. o \in Seq(Chars) /\ a \in Seq(Chars) /\ r \in Seq(Chars) /\ mark \in Seq(Chars) /\ Join(a, r) \in Seq(Chars)
        /\ Join(o, mark) \in Seq(Chars)
    BY <2>1, <1>2, <1>3, Joins
  <2>3. Join(Join(Join(o, mark), a), r) = Join(Join(o, mark), Join(a, r))
    BY ONLY <2>2, JoinsOfThree
  <2>4. Join(Join(o, mark), Join(a, r)) = Join(o, Join(mark, Join(a, r)))
    BY ONLY <2>2, JoinsOfThree
  <2>5. Filter!Whole = Join(Join(Join(o, mark), a), r)
    BY <2>1, <1>3 DEF Filter!Whole, Join
  <2>6. b = Join(o, Join(mark, Join(a, r)))
    BY <2>1, <1>3 DEF Held
  <2> QED BY ONLY <2>3, <2>4, <2>5, <2>6
<1>5. b \in Seq(Chars)
  BY <1>2, <1>3, Joins
<1>6. Filter!Within(b, text, Kept)
  <2>1. Left(b, text, Kept) BY <1>1, <1>3 DEF Removes
  <2> QED BY ONLY <2>1, <1>1, <1>5, LeftIsWithin
<1>7. Filter!IsFenced(text) => b = text
  <2> HAVE Filter!IsFenced(text)
  <2>1. Opening(filter) \/ Inside(filter) \/ (Passed(filter) /\ Len(text) >= 3)
    BY <1>1, FencedIs DEF FilterInv, FencePasses
  <2>2. filter.inl = "none" /\ Join(filter.out, filter.buf) = text
    <3>1. CASE Opening(filter) BY <3>1, <1>2, JoinsEmpty DEF Opening
    <3>2. CASE Inside(filter) BY <3>2 DEF Inside
    <3>3. CASE Passed(filter) /\ Len(text) >= 3 BY <3>3, <1>2, JoinsEmpty DEF Passed
    <3> QED BY <2>1, <3>1, <3>2, <3>3
  <2>3. Held(filter) = filter.buf BY <2>2, <1>1, HoldsBuffer
  <2> QED BY <2>2, <2>3, <1>3
<1>8. calling = "closed" => filter.buf = <<>> /\ filter.inl = "none" /\ filter.acc = <<>>
  BY DEF FilterInv
<1> QED BY <1>4, <1>6, <1>7, <1>8 DEF FilterOnlyRemoves, Filter!FilterOnlyRemoves, Kept

-----------------------------------------------------------------------------
(* Every behaviour.                                                         *)

LEMMA DeliveryStart == ASSUME Delivery!Init PROVE OutcomeInv
<1> USE WeixinAssumption DEF Delivery!Init, Delivery!NoMessage, Delivery!NoDelivery, WeixinAssumption
<1>1. Delivery!TypeOK
  BY DEF Delivery!TypeOK
<1>2. DeliveryTyped
  BY <1>1 DEF DeliveryTyped, Stages
<1>3. ChainIsOfTheRun /\ SentPrecedesTheChain /\ RunsKeepApart
  BY DEF ChainIsOfTheRun, SentPrecedesTheChain, RunsKeepApart, Delivery!RunsKeepApart
<1>4. PartsAreOfAnswers /\ AttemptsOfAnUpload
  BY DEF PartsAreOfAnswers, AttemptsOfAnUpload
<1>5. OutcomeIsTrue
  BY DEF OutcomeIsTrue, Delivery!OutcomeIsTrue, Delivery!UPLOAD_MAX_RETRIES
<1> QED BY <1>2, <1>3, <1>4, <1>5 DEF OutcomeInv, ApartInv

LEMMA DeliveryStep == ASSUME OutcomeInv, Delivery!Next PROVE OutcomeInv'
BY ReceiveStep, ProcessStep, ToolStep, ProgressStep, DeliverStep, HookStep, PrepareStep, UploadStep,
   SendAnswerStep, NoticeStep DEF Delivery!Next

\* A step of one part of the channel leaves the others alone.
LEMMA AccountsRest == ASSUME AccountsInv, UNCHANGED avars PROVE AccountsInv'
<1> USE DEF avars, AccountsInv
<1>1. Accounts!TypeOK' /\ OneCall'
  <2>1. Accounts!TypeOK'
    BY DEF Accounts!TypeOK
  <2> QED BY <2>1 DEF OneCall
<1>2. FilesAreNewest' /\ MemoryIsNewestOrEmpty' /\ Accounts!ContextIsCurrent'
  BY DEF FilesAreNewest, MemoryIsNewestOrEmpty, Accounts!ContextIsCurrent
<1>3. Accounts!OneAccountPerUser'
  BY DEF Accounts!OneAccountPerUser, Accounts!UserIn
<1> QED BY <1>1, <1>2, <1>3

LEMMA DeliveryRests == ASSUME OutcomeInv, UNCHANGED dvars PROVE OutcomeInv'
<1> USE DEF dvars, OutcomeInv
<1>1. \A i : Delivery!Got(i)' = Delivery!Got(i)
  BY NothingSent
<1>2. Delivery!ThisOne' = Delivery!ThisOne
  BY DEF Delivery!ThisOne
<1>3. ApartInv'
  BY DEF ApartInv, DeliveryTyped, Delivery!TypeOK, ChainIsOfTheRun, SentPrecedesTheChain, RunsKeepApart,
         Delivery!RunsKeepApart
<1>4. PartsAreOfAnswers' /\ AttemptsOfAnUpload'
  BY DEF PartsAreOfAnswers, AttemptsOfAnUpload
<1>5. OutcomeIsTrue'
  BY <1>1, <1>2 DEF OutcomeIsTrue, Delivery!OutcomeIsTrue
<1> QED BY <1>3, <1>4, <1>5

WeixinInv == AccountsInv /\ OutcomeInv

\* The invariant holds from the start and every step keeps it.
THEOREM WeixinInvariant == MCSpec => []WeixinInv
<1>1. MCInit => WeixinInv
  BY AccountsStart, DeliveryStart DEF MCInit, WeixinInv
<1>2. WeixinInv /\ [MCNext]_<<scene, avars, dvars, fvars>> => WeixinInv'
  <2> SUFFICES ASSUME WeixinInv, [MCNext]_<<scene, avars, dvars, fvars>> PROVE WeixinInv'
    OBVIOUS
  <2> USE DEF WeixinInv
  <2>1. CASE Accounts!Next /\ UNCHANGED dvars
    BY <2>1, AccountsStep, DeliveryRests
  <2>2. CASE Delivery!Next /\ UNCHANGED avars
    BY <2>2, AccountsRest, DeliveryStep
  <2>3. CASE UNCHANGED <<avars, dvars>>
    BY <2>3, AccountsRest, DeliveryRests
  <2> QED BY <2>1, <2>2, <2>3 DEF MCNext
<1> QED BY <1>1, <1>2, PTL DEF MCSpec

\* A user has one account, whoever logs in and in whatever order logins, their
\* clean-ups and restarts happen; and the context token a reply is sent with is
\* the one of the last message, or there is none.
THEOREM AccountsStayTrue == MCSpec => []AccountsHold
<1>1. WeixinInv => AccountsHold
  BY DEF WeixinInv, AccountsInv, OutcomeInv, ApartInv, DeliveryTyped, AccountsHold
<1> QED BY <1>1, WeixinInvariant, PTL

\* What the user gets while a message is processed belongs to that message,
\* progress comes in order and before the times, and strangers get nothing.
THEOREM RunsStayApart == MCSpec => []RunsKeepApart
<1>1. WeixinInv => RunsKeepApart
  BY DEF WeixinInv, OutcomeInv, ApartInv
<1> QED BY <1>1, WeixinInvariant, PTL

\* What message_sent reports of an answer is what happened to it, and its
\* parts arrive in order, after at most three attempts to upload them.
THEOREM OutcomesStayTrue == MCSpec => []OutcomeIsTrue
<1>1. WeixinInv => OutcomeIsTrue
  BY DEF WeixinInv, OutcomeInv
<1> QED BY <1>1, WeixinInvariant, PTL

\* The filter only removes markers: what it gives out and holds are parts of the
\* text in their order, with every letter unless an image was removed; a fence
\* that does not end passes as it is, and at the end nothing is held.
THEOREM FilterStaysTrue == MCSpec => []FilterOnlyRemoves
<1>1. MCInit => FilterInv
  BY FilterStart DEF MCInit
<1>2. FilterInv /\ [MCNext]_<<scene, avars, dvars, fvars>> => FilterInv'
  <2> SUFFICES ASSUME FilterInv, [MCNext]_<<scene, avars, dvars, fvars>> PROVE FilterInv'
    OBVIOUS
  <2>1. CASE Filter!FilterNext
    BY <2>1, FilterStep
  <2>2. CASE UNCHANGED fvars
    BY <2>2, FilterRests
  <2> QED BY <2>1, <2>2 DEF MCNext
<1>3. FilterInv => FilterOnlyRemoves
  BY FilterHolds
<1> QED BY <1>1, <1>2, <1>3, PTL DEF MCSpec
-----------------------------------------------------------------------------
(* The replies to tool results: from the hooks of the plugin to the channel.  *)

LEMMA PersonTyped == \A r \in Runs : Person(SourceOf[r]) \in Recipients
BY ReplyAssumption DEF Person

Memories == [Runs -> {"none", "unsourced", "volatile", "persisted"}]
Outgoing == [Runs -> Runs \cup {NoRun}]

\* Replacing what one instance knows, or one entry of it, keeps its type.
LEMMA OneInstance ==
    ASSUME NEW S, NEW f \in [Instances -> S], NEW i \in Instances, NEW g \in S
    PROVE  [f EXCEPT ![i] = g] \in [Instances -> S]
OBVIOUS

LEMMA OneRun ==
    ASSUME NEW S, NEW f \in [Instances -> [Runs -> S]], NEW i \in Instances,
           NEW r \in Runs, NEW v \in S
    PROVE  [f EXCEPT ![i][r] = v] \in [Instances -> [Runs -> S]]
<1> DEFINE g == [f[i] EXCEPT ![r] = v]
<1>1. g \in [Runs -> S] /\ [f EXCEPT ![i][r] = v] = [f EXCEPT ![i] = g]
  OBVIOUS
<1> HIDE DEF g
<1> QED BY <1>1, OneInstance

\* What reply_payload_sending makes of a payload.
Composes(s, o) ==
    \/ ComposeOther(s, o)
    \/ \E i \in Instances : ComposeFinal(s, i, o) \/ ComposeNotice(s, i, o)

-----------------------------------------------------------------------------
(* Typing.                                                                  *)

\* Every step keeps the variables well typed.
LEMMA TypeStep ==
    ASSUME TypeOK, [Next]_vars
    PROVE  TypeOK'
<1> USE ReplyAssumption
<1>1. ASSUME NEW m \in Messages, Arrive(m) PROVE TypeOK'
  BY <1>1 DEF TypeOK, Arrive, Delete, process, Person
<1>2. ASSUME NEW i \in Instances, NEW r \in Runs, Bind(i, r) PROVE TypeOK'
  BY <1>2 DEF TypeOK, Bind, store
<1>3. ASSUME NEW i \in Instances, NEW r \in Runs,
             StoreUnsourced(i, r) \/ StoreVolatile(i, r) \/ StorePersisted(i, r)
      PROVE  TypeOK'
  <2>1. memory' \in [Instances -> Memories]
    <3>1. PICK how \in {"unsourced", "volatile", "persisted"} : Remember(i, r, how)
      BY <1>3 DEF StoreUnsourced, StoreVolatile, StorePersisted
    <3> QED BY <3>1, OneRun DEF Remember, TypeOK, Memories
  <2>2. UNCHANGED <<known, latest, bound, outgoing, payload, send>>
    BY <1>3 DEF StoreUnsourced, StoreVolatile, StorePersisted, store
  <2>3. /\ row' \in [Runs -> {"none", "stored", "expired"}]
        /\ reservedBy' \in [Runs -> Runs \cup {NoRun}]
        /\ \A q \in Runs : row'[q] = "none" => reservedBy'[q] = NoRun
    BY <1>3 DEF TypeOK, StoreUnsourced, StoreVolatile, StorePersisted, Expired, store
  <2> QED BY <2>1, <2>2, <2>3 DEF TypeOK, Memories
<1>4. ASSUME NEW i \in Instances, NEW r \in Runs, Forget(i, r) PROVE TypeOK'
  <2>1. memory' \in [Instances -> Memories]
    <3>1. memory' = memory \/ memory' = [memory EXCEPT ![i][r] = "none"]
      BY <1>4 DEF Forget
    <3>2. memory \in [Instances -> Memories]
      BY DEF TypeOK, Memories
    <3>3. [memory EXCEPT ![i][r] = "none"] \in [Instances -> Memories]
      BY <3>2, OneRun DEF Memories
    <3> QED BY <3>1, <3>2, <3>3
  <2>2. outgoing' \in [Instances -> Outgoing]
    <3>1. outgoing' = outgoing \/ outgoing' = [outgoing EXCEPT ![i][r] = NoRun]
      BY <1>4 DEF Forget
    <3>2. outgoing \in [Instances -> Outgoing]
      BY DEF TypeOK, Outgoing
    <3>3. NoRun \in Runs \cup {NoRun}
      OBVIOUS
    <3>4. [outgoing EXCEPT ![i][r] = NoRun] \in [Instances -> Outgoing]
      BY <3>2, <3>3, OneRun DEF Outgoing
    <3> QED BY <3>1, <3>2, <3>4
  <2>3. bound' \in [Instances -> SUBSET Runs]
    <3>1. bound' = bound \/ bound' = [bound EXCEPT ![i] = @ \ {r}]
      BY <1>4 DEF Forget
    <3>2. bound \in [Instances -> SUBSET Runs]
      BY DEF TypeOK
    <3> QED BY <3>1, <3>2
  <2>4. UNCHANGED <<known, latest, row, reservedBy, payload, send>>
    BY <1>4 DEF Forget, store
  <2> QED BY <2>1, <2>2, <2>3, <2>4 DEF TypeOK, Memories, Outgoing
<1>5. ASSUME NEW r \in Runs, Expire(r) PROVE TypeOK'
  BY <1>5 DEF TypeOK, Expire, process
<1>6. ASSUME NEW s \in Sends, Delivered(s) \/ Failed(s) PROVE TypeOK'
  <2>1. send[s] # Idle /\ send[s].inst \in Instances /\ send[s].run \in Runs
    BY <1>6 DEF TypeOK, Delivered, Failed
  <2>2. outgoing' \in [Instances -> Outgoing]
    <3> DEFINE i == send[s].inst
               g == [o \in Runs |-> IF o = send[s].run \/ outgoing[i][o] = Source(s)
                                    THEN NoRun ELSE outgoing[i][o]]
    <3>1. outgoing' = [outgoing EXCEPT ![i] = g]
      BY <1>6 DEF Delivered, Failed, ForgetOutgoing
    <3>2. outgoing \in [Instances -> Outgoing] /\ g \in Outgoing
      BY <2>1 DEF TypeOK, Outgoing
    <3> HIDE DEF g
    <3> QED BY <2>1, <3>1, <3>2, OneInstance
  <2>3. memory' \in [Instances -> Memories]
    <3>1. CASE Delivered(s)
      <4>1. PICK answered : memory' = [memory EXCEPT ![send[s].inst] =
                 [r \in Runs |-> IF r \in answered THEN "none" ELSE memory[send[s].inst][r]]]
        BY <3>1 DEF Delivered
      <4> DEFINE g == [r \in Runs |-> IF r \in answered THEN "none"
                                      ELSE memory[send[s].inst][r]]
      <4>2. memory \in [Instances -> Memories] /\ g \in Memories
        BY <2>1 DEF TypeOK, Memories
      <4>3. memory' = [memory EXCEPT ![send[s].inst] = g]
        BY <4>1
      <4> HIDE DEF g
      <4> QED BY <2>1, <4>2, <4>3, OneInstance
    <3>2. CASE Failed(s)
      BY <3>2 DEF Failed, TypeOK, Memories
    <3> QED BY <1>6, <3>1, <3>2
  <2>4. bound' \in [Instances -> SUBSET Runs]
    <3>1. CASE Delivered(s)
      <4>1. PICK answered : bound' = [bound EXCEPT ![send[s].inst] = @ \ answered]
        BY <3>1 DEF Delivered
      <4> QED BY <2>1, <4>1 DEF TypeOK
    <3>2. CASE Failed(s)
      BY <3>2 DEF Failed, TypeOK
    <3> QED BY <1>6, <3>1, <3>2
  <2>5. /\ row' \in [Runs -> {"none", "stored", "expired"}]
        /\ reservedBy' \in [Runs -> Runs \cup {NoRun}]
        /\ \A q \in Runs : row'[q] = "none" => reservedBy'[q] = NoRun
    BY <1>6 DEF TypeOK, Delivered, Failed, Delete
  <2>6. send' = [send EXCEPT ![s] = Idle] /\ UNCHANGED <<known, latest, payload>>
    BY <1>6 DEF Delivered, Failed
  <2> QED BY <2>2, <2>3, <2>4, <2>5, <2>6 DEF TypeOK, Memories, Outgoing
<1>7. ASSUME NEW s \in Sends, NEW i \in Instances, NEW o \in Runs, NEW d \in Deliveries,
             NEW named \in BOOLEAN,
             SendReserved(s, i, o, d, named) \/ SendRemembered(s, i, o, d, named)
               \/ SendAsIs(s, i, o, d, named)
      PROVE  TypeOK'
  <2>1. Reservable(o, d, named) \subseteq {r \in Runs : row[r] = "stored" /\ r \notin Gone}
    BY DEF Reservable, Only, Reserved, Free, Rows
  <2>2. CASE SendReserved(s, i, o, d, named)
    BY <2>1, <2>2 DEF TypeOK, SendReserved, Composed, HandOver, OfPayloads
  <2>3. CASE SendRemembered(s, i, o, d, named)
    BY <2>3 DEF TypeOK, SendRemembered, Composed, HandOver, NothingReserved, Delete, OfPayloads
  <2>4. CASE SendAsIs(s, i, o, d, named)
    <3>1. send' \in [Sends -> {Idle} \cup [run: Runs, inst: Instances, to: Deliveries,
                         text: Runs \cup {NoRun}, from: {"row", "memory"} \cup OfPayloads]]
      <4>1. payload[s].text \in Runs \cup {NoRun} /\ payload[s].from \in OfPayloads
        BY <2>4 DEF TypeOK, SendAsIs, Composed, HandOver
      <4> QED BY <2>4, <4>1 DEF TypeOK, SendAsIs, Composed, HandOver
    <3>2. payload' \in [Sends -> {Idle} \cup [run: Runs, text: Runs \cup {NoRun}, from: OfPayloads]]
      BY <2>4 DEF TypeOK, SendAsIs, Composed, HandOver
    <3> QED BY <2>4, <3>1, <3>2 DEF TypeOK, SendAsIs, NothingReserved, Delete
  <2> QED BY <1>7, <2>2, <2>3, <2>4
<1>8. CASE Restart
  BY <1>8 DEF TypeOK, Restart, store
<1>9. CASE UNCHANGED vars
  BY <1>9 DEF TypeOK, vars
<1>10. ASSUME NEW s \in Sends, NEW o \in Runs, Composes(s, o) PROVE TypeOK'
  <2>1. PICK words \in Runs \cup {NoRun}, from \in OfPayloads : Compose(s, o, words, from)
    BY <1>10 DEF Composes, ComposeOther, ComposeFinal, ComposeNotice, OfPayloads
  <2> QED BY <2>1 DEF TypeOK, Compose, store
<1> QED BY <1>1, <1>2, <1>3, <1>4, <1>5, <1>6, <1>7, <1>8, <1>9, <1>10 DEF Next, Composes

(* Every reachable state of the reply store and of its instances is well   *)
(* typed, and a row that is gone took its reservation along.                *)
THEOREM TypeCorrect == Spec => []TypeOK
<1>1. Init => TypeOK
  BY ReplyAssumption DEF Init, TypeOK
<1>2. TypeOK /\ [Next]_vars => TypeOK'
  BY TypeStep
<1> QED BY <1>1, <1>2, PTL DEF Spec

-----------------------------------------------------------------------------
(* Freshness.  A stored row is current because its run was bound to a       *)
(* message the store knows; so what is bound or bound to be sent from       *)
(* memory has a recipient whose latest message is on record.                *)

Known(r) == latest[Person(SourceOf[r])] # NoMsg

KnownHaveLatest == \A m \in known : latest[Person(m)] # NoMsg
BoundAreKnown   == \A i \in Instances : \A r \in bound[i] : Known(r)
Sourced == {"volatile", "persisted"}
RememberedAreKnown ==
    \A i \in Instances, r \in Runs : memory[i][r] \in Sourced => Known(r)

\* A payload carries the text of its own run, or none of the plugin's.
PayloadsAreOwn ==
    \A s \in Sends : payload[s] # Idle =>
        IF payload[s].from \in {"final", "unsourced"} THEN payload[s].text = payload[s].run
        ELSE payload[s].text = NoRun

Inv == /\ TypeOK
       /\ KnownHaveLatest
       /\ BoundAreKnown
       /\ RememberedAreKnown
       /\ PayloadsAreOwn
       /\ RowsAreCurrent
       /\ RepliesReachTheirOwn

\* Only a message changes what is known, and it overwrites its recipient's latest.
LEMMA OnlyMessagesAreNews ==
    ASSUME Next
    PROVE  (\E m \in Messages : Arrive(m)) \/ UNCHANGED <<known, latest>>
<1>1. ASSUME NEW i \in Instances, NEW r \in Runs,
             Bind(i, r) \/ StoreUnsourced(i, r) \/ StoreVolatile(i, r) \/ StorePersisted(i, r)
               \/ Forget(i, r) \/ Expire(r)
      PROVE  UNCHANGED <<known, latest>>
  BY <1>1 DEF Bind, StoreUnsourced, StoreVolatile, StorePersisted, Forget, Expire, store
<1>2. ASSUME NEW s \in Sends, Delivered(s) \/ Failed(s)
      PROVE  UNCHANGED <<known, latest>>
  BY <1>2 DEF Delivered, Failed
<1>3. ASSUME NEW s \in Sends, NEW i \in Instances, NEW o \in Runs, NEW d \in Deliveries,
             NEW named \in BOOLEAN,
             SendReserved(s, i, o, d, named) \/ SendRemembered(s, i, o, d, named)
               \/ SendAsIs(s, i, o, d, named)
      PROVE  UNCHANGED <<known, latest>>
  BY <1>3 DEF SendReserved, SendRemembered, SendAsIs
<1>4. Restart => UNCHANGED <<known, latest>>
  BY DEF Restart, store
<1>5. (\E r \in Runs : Expire(r)) => UNCHANGED <<known, latest>>
  BY DEF Expire
<1>6. ASSUME NEW s \in Sends, NEW o \in Runs, Composes(s, o) PROVE UNCHANGED <<known, latest>>
  BY <1>6 DEF Composes, ComposeOther, ComposeFinal, ComposeNotice, Compose, store
<1> QED BY <1>1, <1>2, <1>3, <1>4, <1>5, <1>6 DEF Next, Composes

LEMMA LatestStays ==
    ASSUME TypeOK, Next
    PROVE  \A p \in Recipients : latest[p] # NoMsg => latest'[p] # NoMsg
<1>1. ASSUME NEW m \in Messages, Arrive(m)
      PROVE  \A p \in Recipients : latest[p] # NoMsg => latest'[p] # NoMsg
  BY <1>1, ReplyAssumption DEF Arrive, TypeOK, Person
<1> QED BY <1>1, OnlyMessagesAreNews

\* What a stored row is sent for belongs to the addressee and is current.
LEMMA ReservableIsCurrent ==
    ASSUME Inv, NEW o \in Runs, NEW d \in Deliveries, NEW named \in BOOLEAN,
           NEW r \in Reservable(o, d, named)
    PROVE  /\ r \in Runs /\ row[r] = "stored" /\ r \notin Gone
           /\ latest[Person(SourceOf[r])] = SourceOf[r]
           /\ Person(SourceOf[r]) = RecipientOf[d]
<1>1. r \in Rows /\ Belongs(r, d, named)
  BY DEF Reservable, Only, Reserved, Free
<1>2. r \in Runs /\ row[r] = "stored" /\ r \notin Gone
  BY <1>1 DEF Rows
<1> QED BY <1>1, <1>2 DEF Inv, RowsAreCurrent, Belongs, Person

\* So is what is sent from memory for a bound run.
LEMMA RememberedIsCurrent ==
    ASSUME Inv, NEW i \in Instances, NEW o \in Runs, NEW d \in Deliveries,
           NEW named \in BOOLEAN, memory[i][o] = "volatile", Remembered(i, o, d, named)
    PROVE  /\ latest[Person(SourceOf[o])] = SourceOf[o]
           /\ Person(SourceOf[o]) = RecipientOf[d]
BY DEF Remembered, Belongs, Inv, RememberedAreKnown, Sourced, Known, IsCurrentReplySource, Person

-----------------------------------------------------------------------------
(* Each part of the invariant is kept.                                      *)

LEMMA KnownStep ==
    ASSUME Inv, Next
    PROVE  KnownHaveLatest'
<1>1. \A m \in known' : m \in Messages /\ Person(m) \in Recipients
  <2>1. known' \subseteq Messages
    BY TypeStep DEF Inv, TypeOK
  <2> QED BY <2>1, ReplyAssumption DEF Person
<1>2. ASSUME NEW m \in Messages, Arrive(m) PROVE KnownHaveLatest'
  BY <1>1, <1>2, LatestStays, ReplyAssumption DEF Arrive, Inv, TypeOK, KnownHaveLatest, Person
<1>3. CASE UNCHANGED <<known, latest>>
  BY <1>3 DEF Inv, KnownHaveLatest
<1> QED BY <1>2, <1>3, OnlyMessagesAreNews

LEMMA BoundStep ==
    ASSUME Inv, Next
    PROVE  BoundAreKnown'
<1>1. ASSUME NEW j \in Instances, NEW q \in bound'[j]
      PROVE  q \in bound[j] \/ SourceOf[q] \in known
  <2>1. ASSUME NEW m \in Messages, Arrive(m) PROVE q \in bound[j]
    BY <2>1 DEF Arrive, process
  <2>2. ASSUME NEW i \in Instances, NEW r \in Runs, Bind(i, r)
        PROVE  q \in bound[j] \/ SourceOf[q] \in known
    BY <2>2 DEF Bind, Inv, TypeOK
  <2>3. ASSUME NEW i \in Instances, NEW r \in Runs,
               StoreUnsourced(i, r) \/ StoreVolatile(i, r) \/ StorePersisted(i, r) \/ Expire(r)
        PROVE  q \in bound[j]
    BY <2>3 DEF StoreUnsourced, StoreVolatile, StorePersisted, Expire, process
  <2>4. ASSUME NEW i \in Instances, NEW r \in Runs, Forget(i, r) PROVE q \in bound[j]
    BY <2>4 DEF Forget, Inv, TypeOK
  <2>5. ASSUME NEW s \in Sends, Delivered(s) PROVE q \in bound[j]
    <3>1. PICK answered : bound' = [bound EXCEPT ![send[s].inst] = @ \ answered]
      BY <2>5 DEF Delivered
    <3> QED BY <3>1 DEF Inv, TypeOK
  <2>6. ASSUME NEW s \in Sends, Failed(s) PROVE q \in bound[j]
    BY <2>6 DEF Failed
  <2>7. ASSUME NEW s \in Sends, NEW i \in Instances, NEW o \in Runs, NEW d \in Deliveries,
               NEW named \in BOOLEAN,
               SendReserved(s, i, o, d, named) \/ SendRemembered(s, i, o, d, named)
                 \/ SendAsIs(s, i, o, d, named)
        PROVE  q \in bound[j]
    BY <2>7 DEF SendReserved, SendRemembered, SendAsIs
  <2>8. CASE Restart
    BY <2>8 DEF Restart
  <2>9. ASSUME NEW s \in Sends, NEW o \in Runs, Composes(s, o) PROVE q \in bound[j]
    BY <2>9 DEF Composes, ComposeOther, ComposeFinal, ComposeNotice, Compose
  <2> QED BY <2>1, <2>2, <2>3, <2>4, <2>5, <2>6, <2>7, <2>8, <2>9 DEF Next, Composes
<1>2. \A j \in Instances : bound'[j] \subseteq Runs
  BY TypeStep DEF Inv, TypeOK
<1>3. ASSUME NEW j \in Instances, NEW q \in bound'[j] PROVE Known(q)'
  <2>1. Known(q)
    BY <1>1, <1>3 DEF Inv, BoundAreKnown, KnownHaveLatest, Known
  <2> QED BY <1>2, <1>3, <2>1, LatestStays, PersonTyped DEF Inv, Known, Person
<1> QED BY <1>3 DEF BoundAreKnown

LEMMA RememberedStep ==
    ASSUME Inv, Next
    PROVE  RememberedAreKnown'
<1>1. ASSUME NEW j \in Instances, NEW q \in Runs, memory'[j][q] \in Sourced
      PROVE  memory[j][q] \in Sourced \/ q \in bound[j]
  <2>1. ASSUME NEW m \in Messages, Arrive(m) PROVE memory[j][q] \in Sourced
    BY <1>1, <2>1 DEF Arrive, process
  <2>2. ASSUME NEW i \in Instances, NEW r \in Runs, Bind(i, r) PROVE memory[j][q] \in Sourced
    BY <1>1, <2>2 DEF Bind
  <2>3. ASSUME NEW i \in Instances, NEW r \in Runs,
               StoreUnsourced(i, r) \/ StoreVolatile(i, r) \/ StorePersisted(i, r)
        PROVE  memory[j][q] \in Sourced \/ q \in bound[j]
    <3>1. memory \in [Instances -> Memories]
      BY DEF Inv, TypeOK, Memories
    <3>2. PICK how : memory' = [memory EXCEPT ![i][r] = how] /\ (how = "unsourced" \/ r \in bound[i])
      BY <2>3 DEF StoreUnsourced, StoreVolatile, StorePersisted, Remember
    <3>3. CASE j = i /\ q = r
      <4>1. memory'[j][q] = how
        BY <3>1, <3>2, <3>3 DEF Memories
      <4> QED BY <1>1, <3>2, <3>3, <4>1 DEF Sourced
    <3>4. CASE ~(j = i /\ q = r)
      <4>1. memory'[j][q] = memory[j][q]
        BY <3>1, <3>2, <3>4 DEF Memories
      <4> QED BY <1>1, <4>1
    <3> QED BY <3>3, <3>4
  <2>4. ASSUME NEW i \in Instances, NEW r \in Runs, Forget(i, r)
        PROVE  memory[j][q] \in Sourced
    <3>1. memory' = memory \/ memory' = [memory EXCEPT ![i][r] = "none"]
      BY <2>4 DEF Forget
    <3>2. memory \in [Instances -> Memories]
      BY DEF Inv, TypeOK, Memories
    <3> QED BY <1>1, <3>1, <3>2 DEF Memories, Sourced
  <2>5. ASSUME NEW s \in Sends, Delivered(s) PROVE memory[j][q] \in Sourced
    <3>1. PICK answered : memory' = [memory EXCEPT ![send[s].inst] =
               [r \in Runs |-> IF r \in answered THEN "none" ELSE memory[send[s].inst][r]]]
      BY <2>5 DEF Delivered
    <3> QED BY <1>1, <3>1 DEF Inv, TypeOK, Sourced
  <2>6. ASSUME NEW s \in Sends, Failed(s) PROVE memory[j][q] \in Sourced
    BY <1>1, <2>6 DEF Failed
  <2>7. ASSUME NEW s \in Sends, NEW i \in Instances, NEW o \in Runs, NEW d \in Deliveries,
               NEW named \in BOOLEAN,
               SendReserved(s, i, o, d, named) \/ SendRemembered(s, i, o, d, named)
                 \/ SendAsIs(s, i, o, d, named)
        PROVE  memory[j][q] \in Sourced
    BY <1>1, <2>7 DEF SendReserved, SendRemembered, SendAsIs
  <2>8. ~Restart
    BY <1>1 DEF Restart, Sourced
  <2>9. ASSUME NEW r \in Runs, Expire(r) PROVE memory[j][q] \in Sourced
    BY <1>1, <2>9 DEF Expire, process
  <2>10. ASSUME NEW s \in Sends, NEW o \in Runs, Composes(s, o) PROVE memory[j][q] \in Sourced
    BY <1>1, <2>10 DEF Composes, ComposeOther, ComposeFinal, ComposeNotice, Compose
  <2> QED BY <2>1, <2>2, <2>3, <2>4, <2>5, <2>6, <2>7, <2>8, <2>9, <2>10 DEF Next, Composes
<1>2. ASSUME NEW j \in Instances, NEW q \in Runs, memory'[j][q] \in Sourced PROVE Known(q)'
  <2>1. Known(q)
    BY <1>1, <1>2 DEF Inv, RememberedAreKnown, BoundAreKnown
  <2> QED BY <2>1, LatestStays, PersonTyped DEF Inv, Known, Person
<1> QED BY <1>2 DEF RememberedAreKnown

LEMMA RowsStep ==
    ASSUME Inv, Next
    PROVE  RowsAreCurrent'
<1>1. ASSUME NEW m \in Messages, Arrive(m) PROVE RowsAreCurrent'
  <2>1. CASE m \in known
    BY <1>1, <2>1 DEF Arrive, Inv, RowsAreCurrent, Person
  <2>2. CASE ~(m \in known)
    <3>1. latest' = [latest EXCEPT ![Person(m)] = m] /\ Delete(Outdated(latest'))
      BY <1>1, <2>2 DEF Arrive
    <3>2. ASSUME NEW r \in Runs, row'[r] # "none"
          PROVE  latest'[Person(SourceOf[r])] = SourceOf[r]
      <4>1. row[r] # "none" /\ ~(r \in Outdated(latest'))
        BY <3>1, <3>2 DEF Delete
      <4>2. latest[Person(SourceOf[r])] = SourceOf[r] /\ SourceOf[r] \in Messages
        BY <4>1, ReplyAssumption DEF Inv, RowsAreCurrent
      <4>3. latest'[Person(SourceOf[r])] \in {NoMsg, SourceOf[r]}
        BY <4>1 DEF Outdated
      <4>4. latest'[Person(SourceOf[r])] # NoMsg
        BY <4>2, LatestStays, PersonTyped, ReplyAssumption DEF Inv
      <4> QED BY <4>3, <4>4
    <3> QED BY <3>2 DEF RowsAreCurrent, Person
  <2> QED BY <2>1, <2>2
<1>2. ASSUME UNCHANGED latest,
             \A r \in Runs : row'[r] # "none" => row[r] # "none"
                 \/ latest[Person(SourceOf[r])] = SourceOf[r]
      PROVE  RowsAreCurrent'
  BY <1>2 DEF Inv, RowsAreCurrent, Person
<1>3. ASSUME NEW i \in Instances, NEW r \in Runs, StorePersisted(i, r)
      PROVE  RowsAreCurrent'
  <2>1. latest[Person(SourceOf[r])] = SourceOf[r]
    BY <1>3 DEF StorePersisted, IsCurrentReplySource, Inv, BoundAreKnown, Known
  <2>2. /\ UNCHANGED latest
        /\ row' = [q \in Runs |-> IF q = r THEN "stored"
                                  ELSE IF q \in Expired THEN "none" ELSE row[q]]
    BY <1>3 DEF StorePersisted
  <2> QED BY <1>2, <2>1, <2>2
<1>4. ASSUME NEW i \in Instances, NEW r \in Runs,
             Bind(i, r) \/ StoreUnsourced(i, r) \/ StoreVolatile(i, r) \/ Forget(i, r)
      PROVE  RowsAreCurrent'
  BY <1>2, <1>4 DEF Bind, StoreUnsourced, StoreVolatile, Forget, store
<1>5. ASSUME NEW r \in Runs, Expire(r) PROVE RowsAreCurrent'
  <2>1. UNCHANGED latest /\ row[r] = "stored" /\ row' = [row EXCEPT ![r] = "expired"]
    BY <1>5 DEF Expire
  <2> QED BY <1>2, <2>1 DEF Inv, TypeOK
<1>6. ASSUME NEW s \in Sends, Delivered(s) \/ Failed(s) PROVE RowsAreCurrent'
  BY <1>2, <1>6 DEF Delivered, Failed, Delete
<1>7. ASSUME NEW s \in Sends, NEW i \in Instances, NEW o \in Runs, NEW d \in Deliveries,
             NEW named \in BOOLEAN,
             SendReserved(s, i, o, d, named) \/ SendRemembered(s, i, o, d, named)
               \/ SendAsIs(s, i, o, d, named)
      PROVE  RowsAreCurrent'
  BY <1>2, <1>7 DEF SendReserved, SendRemembered, SendAsIs, NothingReserved, Delete
<1>8. CASE Restart
  BY <1>2, <1>8 DEF Restart, store
<1>9. ASSUME NEW s \in Sends, NEW o \in Runs, Composes(s, o) PROVE RowsAreCurrent'
  BY <1>2, <1>9 DEF Composes, ComposeOther, ComposeFinal, ComposeNotice, Compose, store
<1> QED BY <1>1, <1>3, <1>4, <1>5, <1>6, <1>7, <1>8, <1>9 DEF Next, Composes

\* What a send carries was checked as it was handed over, or is the payload's.
Passes(s, i, o, d) ==
    \E named \in BOOLEAN :
        SendReserved(s, i, o, d, named) \/ SendRemembered(s, i, o, d, named)
          \/ SendAsIs(s, i, o, d, named)
Checked(r, d) == /\ r \in Runs
                 /\ latest[Person(SourceOf[r])] = SourceOf[r]
                 /\ Person(SourceOf[r]) = RecipientOf[d]
Carries(s, i, o, d, r, where) ==
    /\ payload[s] # Idle /\ payload[s].run = o
    /\ payload' = [payload EXCEPT ![s] = Idle]
    /\ send' = [send EXCEPT ![s] = [run |-> o, inst |-> i, to |-> d, text |-> r, from |-> where]]
    /\ \/ where \in {"row", "memory"} /\ Checked(r, d)
       \/ where = "unsourced" /\ r = o
       \/ where = payload[s].from /\ r = payload[s].text

LEMMA HandedOver ==
    ASSUME Inv, NEW s \in Sends, NEW i \in Instances, NEW o \in Runs, NEW d \in Deliveries,
           Passes(s, i, o, d)
    PROVE  \E r, where : Carries(s, i, o, d, r, where)
<1>1. PICK named \in BOOLEAN :
         SendReserved(s, i, o, d, named) \/ SendRemembered(s, i, o, d, named)
           \/ SendAsIs(s, i, o, d, named)
  BY DEF Passes
<1>2. CASE SendReserved(s, i, o, d, named)
  <2>1. PICK r \in Reservable(o, d, named) : HandOver(s, i, o, d, r, "row")
    BY <1>2 DEF SendReserved
  <2>2. Checked(r, d)
    BY <2>1, ReservableIsCurrent DEF Checked
  <2>3. Composed(s, o)
    BY <1>2 DEF SendReserved
  <2>4. Carries(s, i, o, d, r, "row")
    BY <2>1, <2>2, <2>3 DEF Composed, HandOver, Carries
  <2> QED BY <2>4
<1>3. CASE SendRemembered(s, i, o, d, named)
  <2>1. CASE memory[i][o] = "volatile"
    <3>1. Checked(o, d)
      BY <1>3, <2>1, RememberedIsCurrent DEF SendRemembered, Checked
    <3>2. Carries(s, i, o, d, o, "memory")
      BY <1>3, <2>1, <3>1 DEF SendRemembered, Composed, HandOver, Carries
    <3> QED BY <3>2
  <2>2. CASE memory[i][o] # "volatile"
    <3>1. Carries(s, i, o, d, o, "unsourced")
      BY <1>3, <2>2 DEF SendRemembered, Composed, HandOver, Carries
    <3> QED BY <3>1
  <2> QED BY <2>1, <2>2
<1>4. CASE SendAsIs(s, i, o, d, named)
  <2>1. Carries(s, i, o, d, payload[s].text, payload[s].from)
    BY <1>4 DEF SendAsIs, Composed, HandOver, Carries
  <2> QED BY <2>1
<1> QED BY <1>1, <1>2, <1>3, <1>4

\* Every other step leaves each send as it is or ends it.
LEMMA OtherSends ==
    ASSUME Inv, Next, NEW s \in Sends, send'[s] # send[s], send'[s] # Idle
    PROVE  \E i \in Instances, o \in Runs, d \in Deliveries : Passes(s, i, o, d)
<1>1. ASSUME NEW m \in Messages, Arrive(m) PROVE FALSE
  BY <1>1 DEF Arrive, process
<1>2. ASSUME NEW i \in Instances, NEW r \in Runs,
             Bind(i, r) \/ StoreUnsourced(i, r) \/ StoreVolatile(i, r) \/ StorePersisted(i, r)
               \/ Forget(i, r)
      PROVE  FALSE
  BY <1>2 DEF Bind, StoreUnsourced, StoreVolatile, StorePersisted, Forget
<1>3. ASSUME NEW r \in Runs, Expire(r) PROVE FALSE
  BY <1>3 DEF Expire, process
<1>4. ASSUME NEW t \in Sends, Delivered(t) \/ Failed(t) PROVE FALSE
  <2>1. send' = [send EXCEPT ![t] = Idle]
    BY <1>4 DEF Delivered, Failed
  <2> QED BY <2>1 DEF Inv, TypeOK
<1>5. ASSUME NEW t \in Sends, NEW i \in Instances, NEW o \in Runs, NEW d \in Deliveries,
             Passes(t, i, o, d)
      PROVE  t = s
  <2>1. PICK r, where : Carries(t, i, o, d, r, where)
    BY <1>5, HandedOver
  <2> QED BY <2>1 DEF Carries
<1>6. ~Restart
  BY DEF Restart
<1>7. ASSUME NEW t \in Sends, NEW o \in Runs, Composes(t, o) PROVE FALSE
  BY <1>7 DEF Composes, ComposeOther, ComposeFinal, ComposeNotice, Compose
<1> QED BY <1>1, <1>2, <1>3, <1>4, <1>5, <1>6, <1>7 DEF Next, Passes, Composes

\* What a send has newly got.
LEMMA NewSend ==
    ASSUME Inv, Next, NEW s \in Sends, send'[s] # send[s], send'[s] # Idle
    PROVE  \E i \in Instances, o \in Runs, d \in Deliveries : \E r, where :
              /\ Carries(s, i, o, d, r, where)
              /\ send'[s] = [run |-> o, inst |-> i, to |-> d, text |-> r, from |-> where]
<1>1. PICK i \in Instances, o \in Runs, d \in Deliveries : Passes(s, i, o, d)
  BY OtherSends
<1>2. PICK r, where : Carries(s, i, o, d, r, where)
  BY <1>1, HandedOver
<1>3. send'[s] = [run |-> o, inst |-> i, to |-> d, text |-> r, from |-> where]
  BY <1>2 DEF Carries, Inv, TypeOK
<1> QED BY <1>2, <1>3

LEMMA ReachStep ==
    ASSUME Inv, Next
    PROVE  RepliesReachTheirOwn'
<1>1. ASSUME NEW s \in Sends, send'[s] # Idle, send'[s].text # NoRun
      PROVE  \/ Person(SourceOf[send'[s].text]) = RecipientOf[send'[s].to]
             \/ send'[s].text = send'[s].run /\ send'[s].from \in {"final", "unsourced"}
  <2>1. CASE send'[s] = send[s]
    BY <1>1, <2>1 DEF Inv, RepliesReachTheirOwn
  <2>2. CASE send'[s] # send[s]
    <3>0. PICK i \in Instances, o \in Runs, d \in Deliveries : \E r, where :
             /\ Carries(s, i, o, d, r, where)
             /\ send'[s] = [run |-> o, inst |-> i, to |-> d, text |-> r, from |-> where]
      BY <1>1, <2>2, NewSend
    <3>1. PICK r, where :
             /\ Carries(s, i, o, d, r, where)
             /\ send'[s] = [run |-> o, inst |-> i, to |-> d, text |-> r, from |-> where]
      BY <3>0
    <3>2. payload[s] # Idle /\ payload[s].run = o
      BY <3>1 DEF Carries
    <3>3. r # NoRun
      BY <1>1, <3>1
    <3>4. (where \in {"row", "memory"} /\ Checked(r, d)) \/ (where = "unsourced" /\ r = o)
            \/ (where = payload[s].from /\ r = payload[s].text)
      BY <3>1 DEF Carries
    <3>5. Person(SourceOf[r]) = RecipientOf[d] \/ (r = o /\ where \in {"final", "unsourced"})
      BY <3>2, <3>3, <3>4 DEF Checked, Inv, PayloadsAreOwn
    <3> QED BY <3>1, <3>5
  <2> QED BY <2>1, <2>2
<1> QED BY <1>1 DEF RepliesReachTheirOwn, Person

\* What a payload has newly got is nothing, or the text of its own run, which is
\* current when it was tied to a message.
LEMMA NewPayload ==
    ASSUME Inv, Next, NEW s \in Sends, payload'[s] # payload[s], payload'[s] # Idle
    PROVE  \E o \in Runs : \/ payload'[s] = [run |-> o, text |-> o, from |-> "unsourced"]
                          \/ /\ payload'[s] = [run |-> o, text |-> o, from |-> "final"]
                             /\ latest[Person(SourceOf[o])] = SourceOf[o]
                          \/ \E from \in {"model", "notice"} :
                                payload'[s] = [run |-> o, text |-> NoRun, from |-> from]
<1> DEFINE Same == payload'[s] = payload[s] \/ payload'[s] = Idle
<1>1. ASSUME NEW m \in Messages, Arrive(m) PROVE Same
  BY <1>1 DEF Arrive, process
<1>2. ASSUME NEW i \in Instances, NEW r \in Runs,
             Bind(i, r) \/ StoreUnsourced(i, r) \/ StoreVolatile(i, r) \/ StorePersisted(i, r)
               \/ Forget(i, r)
      PROVE  Same
  BY <1>2 DEF Bind, StoreUnsourced, StoreVolatile, StorePersisted, Forget
<1>3. ASSUME NEW r \in Runs, Expire(r) PROVE Same
  BY <1>3 DEF Expire, process
<1>4. ASSUME NEW t \in Sends, Delivered(t) \/ Failed(t) PROVE Same
  BY <1>4 DEF Delivered, Failed
<1>5. ASSUME NEW t \in Sends, NEW i \in Instances, NEW o \in Runs, NEW d \in Deliveries,
             Passes(t, i, o, d)
      PROVE  Same
  <2>1. payload' = [payload EXCEPT ![t] = Idle]
    BY <1>5, HandedOver DEF Carries
  <2> QED BY <2>1 DEF Inv, TypeOK
<1>6. Restart => Same
  BY DEF Restart
<1>7. PICK t \in Sends, o \in Runs : Composes(t, o)
  BY <1>1, <1>2, <1>3, <1>4, <1>5, <1>6 DEF Next, Passes, Composes
<1>8. PICK words, from : /\ Compose(t, o, words, from)
                        /\ \/ words = NoRun /\ from \in {"model", "notice"}
                           \/ words = o /\ from = "unsourced"
                           \/ /\ words = o /\ from = "final"
                              /\ latest[Person(SourceOf[o])] = SourceOf[o]
  <2>1. CASE ComposeOther(t, o)
    BY <2>1 DEF ComposeOther
  <2>2. ASSUME NEW i \in Instances, ComposeNotice(t, i, o) PROVE Compose(t, o, NoRun, "notice")
    BY <2>2 DEF ComposeNotice
  <2>3. ASSUME NEW i \in Instances, ComposeFinal(t, i, o)
        PROVE  \/ Compose(t, o, o, "unsourced")
               \/ /\ Compose(t, o, o, "final")
                  /\ latest[Person(SourceOf[o])] = SourceOf[o]
    BY <2>3 DEF ComposeFinal, IsCurrentReplySource, Inv, RememberedAreKnown, Sourced, Known
  <2> QED BY <1>7, <2>1, <2>2, <2>3 DEF Composes
<1>9. t = s
  BY <1>8 DEF Compose
<1>10. payload'[s] = [run |-> o, text |-> words, from |-> from]
  BY <1>8, <1>9 DEF Compose, Inv, TypeOK
<1> QED BY <1>8, <1>10

LEMMA PayloadStep ==
    ASSUME Inv, Next
    PROVE  PayloadsAreOwn'
<1>1. ASSUME NEW s \in Sends, payload'[s] # Idle
      PROVE  IF payload'[s].from \in {"final", "unsourced"} THEN payload'[s].text = payload'[s].run
             ELSE payload'[s].text = NoRun
  <2>1. CASE payload'[s] = payload[s]
    BY <1>1, <2>1 DEF Inv, PayloadsAreOwn
  <2>2. CASE payload'[s] # payload[s]
    <3>1. PICK o \in Runs : \/ payload'[s] = [run |-> o, text |-> o, from |-> "unsourced"]
                            \/ payload'[s] = [run |-> o, text |-> o, from |-> "final"]
                            \/ \E from \in {"model", "notice"} :
                                  payload'[s] = [run |-> o, text |-> NoRun, from |-> from]
      BY <1>1, <2>2, NewPayload
    <3>2. CASE payload'[s] = [run |-> o, text |-> o, from |-> "unsourced"]
      BY <3>2
    <3>3. CASE payload'[s] = [run |-> o, text |-> o, from |-> "final"]
      BY <3>3
    <3>4. ASSUME NEW from \in {"model", "notice"},
                 payload'[s] = [run |-> o, text |-> NoRun, from |-> from]
          PROVE  payload'[s].text = NoRun /\ payload'[s].from \notin {"final", "unsourced"}
      BY <3>4
    <3> QED BY <3>1, <3>2, <3>3, <3>4
  <2> QED BY <2>1, <2>2
<1> QED BY <1>1 DEF PayloadsAreOwn

-----------------------------------------------------------------------------
(* The invariant and what it establishes.                                   *)

LEMMA InvStutters ==
    ASSUME Inv, UNCHANGED vars
    PROVE  Inv'
<1>1. TypeOK'
  BY TypeStep DEF Inv
<1>2. UNCHANGED <<known, latest, row, bound, memory, payload, send>>
  BY DEF vars
<1>3. KnownHaveLatest' /\ BoundAreKnown' /\ RememberedAreKnown'
  BY <1>2 DEF Inv, KnownHaveLatest, BoundAreKnown, RememberedAreKnown, Known, Person
<1>4. RowsAreCurrent' /\ RepliesReachTheirOwn' /\ PayloadsAreOwn'
  BY <1>2 DEF Inv, RowsAreCurrent, RepliesReachTheirOwn, PayloadsAreOwn, Person
<1> QED BY <1>1, <1>3, <1>4 DEF Inv

(* The inductive invariant: the store has a latest message for whatever a   *)
(* run was bound to, every stored row answers that message, a payload       *)
(* carries nothing but its own run's text, and a send in progress an answer  *)
(* to its addressee or what its payload brought.                            *)
THEOREM Invariance == Spec => []Inv
<1>1. Init => Inv
  <2> SUFFICES ASSUME Init PROVE Inv
    OBVIOUS
  <2>1. TypeOK
    BY ReplyAssumption DEF Init, TypeOK
  <2>2. KnownHaveLatest /\ BoundAreKnown /\ RememberedAreKnown
    BY DEF Init, KnownHaveLatest, BoundAreKnown, RememberedAreKnown, Sourced
  <2>3. RowsAreCurrent /\ RepliesReachTheirOwn /\ PayloadsAreOwn
    BY DEF Init, RowsAreCurrent, RepliesReachTheirOwn, PayloadsAreOwn
  <2> QED BY <2>1, <2>2, <2>3 DEF Inv
<1>2. Inv /\ [Next]_vars => Inv'
  <2> SUFFICES ASSUME Inv, [Next]_vars PROVE Inv'
    OBVIOUS
  <2>1. CASE Next
    BY <2>1, TypeStep, KnownStep, BoundStep, RememberedStep, RowsStep, ReachStep, PayloadStep DEF Inv
  <2>2. CASE UNCHANGED vars
    BY <2>2, InvStutters
  <2> QED BY <2>1, <2>2
<1> QED BY <1>1, <1>2, PTL DEF Spec

(* No stored reply outlives the next message of its recipient, and none is  *)
(* stored after it.                                                         *)
THEOREM RowsStayCurrent == Spec => []RowsAreCurrent
<1>1. Inv => RowsAreCurrent
  BY DEF Inv
<1> QED BY <1>1, Invariance, PTL

(* What message_sending puts into a send is for the person who asked; anyone *)
(* else is only reached by the text that the sending run has remembered and    *)
(* its final payload, or an untied run, brought along.                        *)
THEOREM RepliesReachTheAsker == Spec => []RepliesReachTheirOwn
<1>1. Inv => RepliesReachTheirOwn
  BY DEF Inv
<1> QED BY <1>1, Invariance, PTL

(* Whatever either hook puts in answers the latest message of its recipient  *)
(* at that moment, also when the row was reserved by another run; and what   *)
(* message_sending lets pass unchecked is what the final payload was given.  *)
THEOREM OnlyCurrentIsPutIn == Spec => NothingStaleIsPutIn
<1> DEFINE Current == \A s \in Sends :
         /\ payload'[s] \notin {payload[s], Idle} =>
               (payload'[s].from = "final" => AnswersLatest(payload'[s].text))
         /\ send'[s] \notin {send[s], Idle} =>
               \/ send'[s].text = NoRun \/ send'[s].from = "unsourced"
               \/ AnswersLatest(send'[s].text) \/ LetPass(s)
<1>1. Inv /\ [Next]_vars => [Current]_vars
  <2> SUFFICES ASSUME Inv, Next, NEW s \in Sends
               PROVE  /\ payload'[s] \notin {payload[s], Idle} =>
                            (payload'[s].from = "final" => AnswersLatest(payload'[s].text))
                      /\ send'[s] \notin {send[s], Idle} =>
                            \/ send'[s].text = NoRun \/ send'[s].from = "unsourced"
                            \/ AnswersLatest(send'[s].text) \/ LetPass(s)
    OBVIOUS
  <2>1. ASSUME payload'[s] \notin {payload[s], Idle}, payload'[s].from = "final"
        PROVE  AnswersLatest(payload'[s].text)
    <3>1. PICK o \in Runs : \/ payload'[s] = [run |-> o, text |-> o, from |-> "unsourced"]
                            \/ /\ payload'[s] = [run |-> o, text |-> o, from |-> "final"]
                               /\ latest[Person(SourceOf[o])] = SourceOf[o]
                            \/ \E from \in {"model", "notice"} :
                                  payload'[s] = [run |-> o, text |-> NoRun, from |-> from]
      BY <2>1, NewPayload
    <3>2. payload'[s] = [run |-> o, text |-> o, from |-> "final"] /\ latest[Person(SourceOf[o])] = SourceOf[o]
      BY <2>1, <3>1
    <3> QED BY <3>2 DEF AnswersLatest
  <2>2. ASSUME send'[s] \notin {send[s], Idle}, send'[s].text # NoRun, send'[s].from # "unsourced"
        PROVE  AnswersLatest(send'[s].text) \/ LetPass(s)
    <3>0. PICK i \in Instances, o \in Runs, d \in Deliveries : \E r, where :
             /\ Carries(s, i, o, d, r, where)
             /\ send'[s] = [run |-> o, inst |-> i, to |-> d, text |-> r, from |-> where]
      BY <2>2, NewSend
    <3>1. PICK r, where :
             /\ Carries(s, i, o, d, r, where)
             /\ send'[s] = [run |-> o, inst |-> i, to |-> d, text |-> r, from |-> where]
      BY <3>0
    <3>2. send'[s].run = o /\ send'[s].text = r /\ send'[s].from = where
      BY <3>1
    <3>3. payload[s] # Idle /\ payload[s].run = o
      BY <3>1 DEF Carries
    <3>4. CASE Checked(r, d)
      BY <3>2, <3>4 DEF Checked, AnswersLatest
    <3>5. CASE where = payload[s].from /\ r = payload[s].text
      BY <2>2, <3>2, <3>3, <3>5 DEF LetPass, Inv, PayloadsAreOwn
    <3>6. Checked(r, d) \/ (where = payload[s].from /\ r = payload[s].text)
      BY <2>2, <3>1, <3>2 DEF Carries
    <3> QED BY <3>4, <3>5, <3>6
  <2> QED BY <2>1, <2>2
<1> QED BY <1>1, Invariance, PTL DEF Spec, NothingStaleIsPutIn
=============================================================================
