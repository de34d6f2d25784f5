--------------------------- MODULE WeixinAccounts ---------------------------
(***************************************************************************)
(* The accounts of the WeChat channel: logging a bot in by QR code, the     *)
(* account files and their index, the context tokens that the messages of a *)
(* user bring and every answer must carry, and the choice of the account    *)
(* for a message that names none.                                           *)
(*                                                                         *)
(* Logins run in the gateway or in the command line process; both write the *)
(* same files, but each has its own memory.  A QR code has no identity here:*)
(* a poll may be answered with any status at any time.                      *)
(***************************************************************************)
EXTENDS Naturals, FiniteSets

CONSTANTS
    Bot, User,
    Waiter,       \* calls that wait for a login
    CliWaiter,    \* those of the command line process
    Session,      \* keys of activeLogins
    SessionOf,    \* [Waiter -> Session]: a process shares no session with the other
    RawUser,      \* [Bot -> user of a file under the bot's old, raw name, or None]
    MaxTokens,    \* bound: context tokens of one user at one bot
    MaxLogins,    \* bound: logins that are confirmed
    MaxMishaps,    \* bound: failing writes and restarts
    None

MAX_QR_REFRESH_COUNT == 3

VARIABLES
    index,        \* accounts.json
    account,      \* accounts/<id>.json: the user, "nobody", or None without a file
    allowed,      \* the framework's allowFrom list of the account
    tokenFile,    \* accounts/<id>.context-tokens.json
    tokens,       \* contextTokenStore of the gateway
    active,       \* activeLogins: "fresh", "expired" or None
    starting,     \* sessions whose QR code is being fetched
    waiter,       \* [pc, refreshes, mine] of waitForWeixinLogin
    running,      \* accounts whose monitor runs
    out,          \* the message that is being sent outside a run
    newest,       \* history: the last token since the account was last cleared
    issued,       \* history: tokens issued so far
    outdated,         \* history: accounts with a failed write, or cleared behind the gateway
    anonymous,    \* history: a login did not name its user
    logins, mishaps

files == <<index, account, allowed, tokenFile>>
login == <<active, starting, waiter, logins>>
history == <<newest, issued, outdated, anonymous>>
vars == <<files, tokens, login, running, out, history, mishaps>>

NoTokens == [u \in User |-> 0]
Quiet == [pc |-> "idle", bot |-> None, to |-> None, kind |-> "text", token |-> 0]
Away == [pc |-> "off", refreshes |-> 1, mine |-> FALSE]

\* loadWeixinAccount falls back to the file under the raw name.
UserIn(a, b) == IF a[b] # None THEN a[b] ELSE RawUser[b]
Configured(b) == UserIn(account, b) # None

Init ==
    /\ index = {b \in Bot : RawUser[b] # None}
    /\ account = [b \in Bot |-> None]
    /\ allowed = [b \in Bot |-> {}]
    /\ tokenFile = [b \in Bot |-> NoTokens] /\ tokens = tokenFile
    /\ active = [s \in Session |-> None] /\ starting = {}
    /\ waiter = [w \in Waiter |-> Away]
    /\ running = {} /\ out = Quiet
    /\ newest = tokenFile /\ issued = tokenFile
    /\ outdated = {} /\ anonymous = FALSE /\ logins = 0 /\ mishaps = 0

-----------------------------------------------------------------------------
\* startWeixinLoginWithQr: expired logins are purged, a fresh one is reused
\* unless force is given.
Purged == [s \in Session |-> IF active[s] = "expired" THEN None ELSE active[s]]
StartLogin(s, force) ==
    /\ s \notin starting
    /\ active' = Purged
    /\ starting' = (IF ~force /\ Purged[s] # None THEN starting ELSE starting \cup {s})
    /\ UNCHANGED <<files, tokens, waiter, logins, running, out, history, mishaps>>

\* The code arrives and replaces whatever login the session has, or the fetch
\* has failed.
QrArrives(s) ==
    /\ s \in starting /\ starting' = starting \ {s}
    /\ \/ /\ active' = [active EXCEPT ![s] = "fresh"]
          /\ waiter' = [w \in Waiter |-> IF SessionOf[w] = s THEN [waiter[w] EXCEPT !.mine = FALSE]
                                                             ELSE waiter[w]]
       \/ UNCHANGED <<active, waiter>>
    /\ UNCHANGED <<files, tokens, logins, running, out, history, mishaps>>

\* Five minutes pass.
LoginExpires(s) ==
    /\ active[s] = "fresh" /\ active' = [active EXCEPT ![s] = "expired"]
    /\ UNCHANGED <<files, tokens, starting, waiter, logins, running, out, history, mishaps>>

\* waitForWeixinLogin
Wait(w) ==
    LET s == SessionOf[w]
    IN /\ waiter[w].pc = "off" /\ logins < MaxLogins
       /\ IF active[s] = "fresh"
          THEN waiter' = [waiter EXCEPT ![w] = [pc |-> "poll", refreshes |-> 1, mine |-> TRUE]]
               /\ UNCHANGED active
          ELSE active' = [active EXCEPT ![s] = None] /\ UNCHANGED waiter
       /\ UNCHANGED <<files, tokens, starting, logins, running, out, history, mishaps>>

\* Every end of a wait removes the login of the session, also one that has
\* replaced the login that was waited for.
EndOf(w) == /\ waiter' = [x \in Waiter |-> IF x = w THEN Away
                            ELSE IF SessionOf[x] = SessionOf[w] THEN [waiter[x] EXCEPT !.mine = FALSE]
                            ELSE waiter[x]]
            /\ active' = [active EXCEPT ![SessionOf[w]] = None]

\* The poll asks for the code shown on the phone, which is read from the
\* terminal without a time limit.
VerifyCode(w) ==
    /\ \/ waiter[w].pc = "poll" /\ waiter' = [waiter EXCEPT ![w].pc = "input"]
       \/ waiter[w].pc = "input" /\ waiter' = [waiter EXCEPT ![w].pc = "poll"]
    /\ UNCHANGED <<files, tokens, active, starting, logins, running, out, history, mishaps>>

\* "expired" and "verify_code_blocked": two new codes are fetched, not a third.
Refresh(w) ==
    /\ waiter[w].pc = "poll" /\ waiter[w].refreshes < MAX_QR_REFRESH_COUNT
    /\ waiter' = [waiter EXCEPT ![w].refreshes = @ + 1]
    /\ active' = (IF waiter[w].mine THEN [active EXCEPT ![SessionOf[w]] = "fresh"] ELSE active)
    /\ UNCHANGED <<files, tokens, starting, logins, running, out, history, mishaps>>

\* A fetch that fails, a third expiry, an error, the deadline, "binded_redirect"
\* or a confirmation without a bot.
WaitFails(w) ==
    /\ waiter[w].pc = "poll" /\ EndOf(w)
    /\ UNCHANGED <<files, tokens, starting, logins, running, out, history, mishaps>>

-----------------------------------------------------------------------------

\* clearStaleAccountsForUserId
Stale(a, b, u) == IF u = None THEN {} ELSE {x \in index \ {b} : UserIn(a, x) = u}

\* saveWeixinAccount: a login that names no user keeps the one on file.
Saved(b, u) == [account EXCEPT ![b] = IF u # None THEN u
                  ELSE IF Configured(b) THEN UserIn(account, b) ELSE "nobody"]

\* clearWeixinAccount and clearContextTokensForAccount remove the files.
Without(f, stale, empty) == [x \in Bot |-> IF x \in stale THEN empty ELSE f[x]]

\* The account is saved and registered, then the user's other accounts are
\* cleared.  The command line process cannot clear the gateway's tokens.
Confirmed(w, b, u) ==
    LET saved == Saved(b, u)
        stale == Stale(saved, b, u)
        Cleared(f, empty) == Without(f, stale, empty)
    IN /\ waiter[w].pc = "poll" /\ logins < MaxLogins
       /\ EndOf(w) /\ logins' = logins + 1
       /\ account' = Cleared(saved, None)
       /\ index' = (index \cup {b}) \ stale
       /\ allowed' = Cleared(allowed, {})
       /\ tokenFile' = Cleared(tokenFile, NoTokens)
       /\ newest' = Cleared(newest, NoTokens)
       /\ IF w \in CliWaiter
          THEN tokens' = tokens /\ outdated' = outdated \cup {x \in stale : tokens[x] # NoTokens}
          ELSE tokens' = Cleared(tokens, NoTokens) /\ outdated' = outdated
       /\ anonymous' = (anonymous \/ u = None)
       /\ UNCHANGED <<starting, running, out, issued, mishaps>>

-----------------------------------------------------------------------------
\* The framework approves a pairing (registerUserInFrameworkStore).
Pair(b, u) ==
    /\ b \in index /\ allowed' = [allowed EXCEPT ![b] = @ \cup {u}]
    /\ UNCHANGED <<index, account, tokenFile, tokens, login, running, out, history, mishaps>>

\* restoreContextTokens overwrites what is in memory with what is in the file.
Restored(b) == [u \in User |-> IF tokenFile[b][u] # 0 THEN tokenFile[b][u] ELSE tokens[b][u]]

\* startAccount restores the tokens before the monitor runs.
StartAccount(b) ==
    /\ b \in index \ running
    /\ tokens' = [tokens EXCEPT ![b] = Restored(b)]
    /\ running' = (IF Configured(b) THEN running \cup {b} ELSE running)
    /\ UNCHANGED <<files, login, out, history, mishaps>>

\* The channel is reloaded, or the gateway stops the account.
StopAccount(b) ==
    /\ b \in running /\ running' = running \ {b}
    /\ UNCHANGED <<files, tokens, login, out, history, mishaps>>

GatewayRestart ==
    /\ mishaps < MaxMishaps /\ mishaps' = mishaps + 1
    /\ tokens' = [b \in Bot |-> NoTokens] /\ running' = {} /\ out' = Quiet
    /\ LET gone == {w \in Waiter \ CliWaiter : TRUE}
           theirs == {SessionOf[w] : w \in gone}
       IN /\ waiter' = [w \in Waiter |-> IF w \in gone THEN Away ELSE waiter[w]]
          /\ active' = [s \in Session |-> IF s \in theirs THEN None ELSE active[s]]
          /\ starting' = starting \ theirs
    /\ UNCHANGED <<files, logins, history>>

\* A message of user u brings a token; the sender is authorized first, by the
\* allow list or, while it is empty, as the user who linked the account.
Authorized(b, u) == IF allowed[b] # {} THEN u \in allowed[b] ELSE UserIn(account, b) = u

\* Mutant: only the new token is written.
PersistedOne(b, u) == [tokenFile EXCEPT ![b] = [NoTokens EXCEPT ![u] = tokens'[b][u]]]

\* persistContextTokens writes all tokens of the account from memory.
Persisted(b, u) == [tokenFile EXCEPT ![b] = tokens'[b]]
MessageArrives(b, u) ==
    /\ b \in running /\ Authorized(b, u) /\ issued[b][u] < MaxTokens
    /\ issued' = [issued EXCEPT ![b][u] = @ + 1]
    /\ newest' = [newest EXCEPT ![b][u] = issued[b][u] + 1]
    /\ tokens' = [tokens EXCEPT ![b][u] = issued[b][u] + 1]
    /\ \/ tokenFile' = Persisted(b, u) /\ UNCHANGED <<outdated, mishaps>>
       \/ /\ mishaps < MaxMishaps /\ mishaps' = mishaps + 1
          /\ outdated' = outdated \cup {b} /\ UNCHANGED tokenFile
    /\ UNCHANGED <<index, account, allowed, login, running, out, anonymous>>
-----------------------------------------------------------------------------
\* resolveOutboundAccountId: the only account, or the only one that holds a
\* token of the recipient.
Resolved(u) == IF Cardinality(index) = 1 THEN index
               ELSE LET matched == {b \in index : tokens[b][u] # 0}
                    IN IF Cardinality(matched) = 1 THEN matched ELSE {}

\* sendText reads the token before the message_sending hook runs, sendMedia
\* after it and after a download.
Send(b, u, kind, named) ==
    /\ out.pc = "idle"
    /\ named \/ b \in Resolved(u)
    /\ Configured(b)
    /\ out' = [pc |-> "hook", bot |-> b, to |-> u, kind |-> kind,
               token |-> IF kind = "text" THEN tokens[b][u] ELSE 0]
    /\ UNCHANGED <<files, tokens, login, running, history, mishaps>>

HookEnds ==
    /\ out.pc = "hook"
    /\ \/ out' = [out EXCEPT !.pc = "sending",
                             !.token = IF out.kind = "text" THEN @ ELSE tokens[out.bot][out.to]]
       \/ out' = Quiet
    /\ UNCHANGED <<files, tokens, login, running, history, mishaps>>

SendEnds ==
    /\ out.pc = "sending" /\ out' = Quiet
    /\ UNCHANGED <<files, tokens, login, running, history, mishaps>>

Next ==
    \/ \E s \in Session : (\E force \in BOOLEAN : StartLogin(s, force)) \/ QrArrives(s) \/ LoginExpires(s)
    \/ \E w \in Waiter : \/ Wait(w) \/ VerifyCode(w) \/ Refresh(w) \/ WaitFails(w)
                         \/ \E b \in Bot, u \in User \cup {None} : Confirmed(w, b, u)
    \/ \E b \in Bot : \/ StartAccount(b) \/ StopAccount(b)
                      \/ \E u \in User : \/ Pair(b, u) \/ MessageArrives(b, u)
                                         \/ \E kind \in {"text", "media"}, named \in BOOLEAN :
                                                Send(b, u, kind, named)
    \/ GatewayRestart \/ HookEnds \/ SendEnds

Spec == Init /\ [][Next]_vars
-----------------------------------------------------------------------------
\* Files, memory and calls hold what they should.
TypeOK ==
    /\ index \subseteq Bot /\ running \subseteq Bot /\ outdated \subseteq Bot
    /\ account \in [Bot -> User \cup {"nobody", None}]
    /\ allowed \in [Bot -> SUBSET User]
    /\ {tokenFile, tokens, newest, issued} \subseteq [Bot -> [User -> 0..MaxTokens]]
    /\ active \in [Session -> {"fresh", "expired", None}] /\ starting \subseteq Session
    /\ waiter \in [Waiter -> [pc : {"off", "poll", "input"}, refreshes : 1..MAX_QR_REFRESH_COUNT,
                              mine : BOOLEAN]]
    /\ out.pc \in {"idle", "hook", "sending"} /\ logins \in 0..MaxLogins

\* A WeChat user is linked to one account only, the one of the latest login,
\* in whichever process and order logins are confirmed, as long as the server
\* names the user (accounts.ts 82-106).
OneAccountPerUser ==
    ~anonymous => \A b, c \in index : /\ b # c
                                      /\ UserIn(account, b) \in User
                                      => UserIn(account, b) # UserIn(account, c)

\* The gateway holds, for each user of a running account, the token of the last
\* message: not an older one after a restart, not one from before the account
\* was removed, and none is missing because another user's was written.
\* Writes that fail, and removals by the command line, void this.
ContextIsCurrent ==
    \A b \in running \ outdated : tokens[b] = newest[b]
=============================================================================
