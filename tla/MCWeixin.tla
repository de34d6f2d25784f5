------------------------------ MODULE MCWeixin ------------------------------
(***************************************************************************)
(* The WeChat channel for TLC.  The accounts, the processing of messages    *)
(* and the filter share no state the properties look at, so a behaviour is  *)
(* about one of them, and the bounds of each scene are its own.             *)
(***************************************************************************)
EXTENDS Naturals, Sequences, FiniteSets, TLC

CONSTANTS Bot, User, Waiter,                 \* accounts, users, processes that log in
          A, u, gateway, terminal, None,     \* those the scenes speak of
          MaxTokens, MaxLogins, MaxMishaps,
          MaxRuns, MaxDeliveries, MaxTools, MaxErrors,
          Alphabets, MaxLength

\* Accounts are on file for users that have a name.
WeixinAssumption ==
    /\ A \in Bot /\ u \in User /\ "nobody" \notin User /\ None \notin User \cup {"nobody"}
    /\ {gateway, terminal} \subseteq Waiter
    /\ MaxTokens \in Nat /\ MaxLogins \in Nat /\ MaxMishaps \in Nat
    /\ MaxRuns \in Nat /\ MaxDeliveries \in Nat /\ MaxTools \in Nat /\ MaxErrors \in Nat
ASSUME WeixinAssumption

VARIABLES scene
VARIABLES index, account, allowed, tokenFile, tokens, active, starting, waiter, running, out,
          newest, issued, outdated, anonymous, logins, mishaps
VARIABLES step, msg, replies, debugMode, debug, delivery, outcome, sendChain, tool, finalized,
          notices, sent, noticed, fetched, errors
VARIABLES alphabet, text, filter, calling

\* Account A is on file under its raw name, for user u.  Each process has one
\* session and one login at a time.
Accounts == INSTANCE WeixinAccounts WITH
    CliWaiter <- {terminal}, Session <- Waiter, SessionOf <- [w \in Waiter |-> w],
    RawUser <- [b \in Bot |-> IF b = A THEN u ELSE None]
Delivery == INSTANCE WeixinDelivery
Filter == INSTANCE MarkdownFilter

avars == <<index, account, allowed, tokenFile, tokens, active, starting, waiter, running, out,
           newest, issued, outdated, anonymous, logins, mishaps>>
dvars == <<step, msg, replies, debugMode, debug, delivery, outcome, sendChain, tool, finalized,
           notices, sent, noticed, fetched, errors>>
fvars == <<alphabet, text, filter, calling>>

MCInit ==
    /\ scene \in {"login", "talk", "send", "runs", "answers", "filter"}
    /\ Accounts!Init /\ Delivery!Init
    /\ Filter!FilterInit /\ (scene # "filter" => alphabet = CHOOSE a \in Alphabets : TRUE)

\* Logins at length; the talk of running accounts, with logins that are confirmed
\* at once, one after the other; and sends outside a run after one login.
Logging ==
    /\ issued' = issued /\ out' = out /\ allowed' = allowed /\ running' = {}
    /\ waiter'[gateway].pc # "input"
Talking ==
    /\ \A w \in Waiter : waiter'[w].pc # "input" /\ waiter'[w].refreshes = 1
    /\ \A s \in Waiter : active'[s] # "expired"
    /\ starting' # {} => active' = [s \in Waiter |-> None]
    /\ Cardinality({w \in Waiter : waiter'[w].pc # "off"} \cup starting') <= 1
    /\ \A b \in Bot : u \notin allowed'[b] /\ (b # A => allowed'[b] = {})
    /\ out' = out
Sending ==
    /\ logins' <= 1 /\ starting' \subseteq {gateway} /\ mishaps' = 0 /\ allowed' = allowed
    /\ waiter'[terminal].pc = "off" /\ waiter'[gateway].pc # "input"
    /\ waiter'[gateway].refreshes = 1 /\ active'[gateway] # "expired"

\* Several messages with an answer each and the events of tools, or one message
\* with several answers and more errors.
Several == Len(outcome') <= 1 /\ errors' <= 1 /\ delivery'.kind = "text" /\ ~msg'.media
One == msg'.n <= 1 /\ tool' = tool /\ ~debugMode' /\ msg'.token

MCNext ==
    /\ \/ scene = "login"   /\ Accounts!Next /\ Logging /\ UNCHANGED <<dvars, fvars>>
       \/ scene = "talk"    /\ Accounts!Next /\ Talking /\ UNCHANGED <<dvars, fvars>>
       \/ scene = "send"    /\ Accounts!Next /\ Sending /\ UNCHANGED <<dvars, fvars>>
       \/ scene = "runs"    /\ Delivery!Next /\ Several /\ UNCHANGED <<avars, fvars>>
       \/ scene = "answers" /\ Delivery!Next /\ One /\ UNCHANGED <<avars, fvars>>
       \/ scene = "filter"  /\ Filter!FilterNext /\ UNCHANGED <<avars, dvars>>
    /\ UNCHANGED scene

MCSpec == MCInit /\ [][MCNext]_<<scene, avars, dvars, fvars>>

-----------------------------------------------------------------------------
(* A WeChat user has one account, whoever logs in, and the tokens in memory *)
(* are those of the last messages, in well-typed states.                    *)
AccountsHold ==
    /\ Accounts!TypeOK /\ Delivery!TypeOK
    /\ Accounts!OneAccountPerUser /\ Accounts!ContextIsCurrent

(* What the user gets is from the message that is processed.                *)
RunsKeepApart == Delivery!RunsKeepApart

(* message_sent reports what happened to an answer.                         *)
OutcomeIsTrue == Delivery!OutcomeIsTrue

(* The filter removes markers and nothing else.                             *)
FilterOnlyRemoves == Filter!FilterOnlyRemoves
=============================================================================
