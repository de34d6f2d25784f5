# WeChat-Clawbot-Ledger: verification project

A user writes to a WeChat bot ("lunch 32", a payment screenshot, "confirm").  The channel adapter
polls the messages from the iLink gateway, OpenClaw runs a language model on each of them, and the
model may act only through the tools of the `clawbot-bookkeeping` plugin, which books expenses in a
local ezBookkeeping server.  The model is not trusted with anything that matters: which message a
tool call belongs to, whether a proposal was confirmed, whether an expense was already booked and
what the user is told are decided by the plugin from its SQLite receipt store, which several
plugin instances (the gateway's and one per tool call) share.

This directory holds TLA+ models of that code, their TLC runs and their TLAPS proofs.

## Inventory

`P` is `src/openclaw-plugins/clawbot-bookkeeping`, `W` is
`src/openclaw-plugins/openclaw-weixin-stable-id/src`, `M` is `src/scripts/mac`.

| Component | State it keeps | Operations | Correct when |
|---|---|---|---|
| Expense write pipeline (`P/bookkeeping-core.mjs`, `ReceiptStore` of `P/adapter.mjs`) | `message_receipts`, `message_image_attachments` (evidence links) | `writeExpense`: refresh, claim, resolve the category, POST, complete | no message is posted twice, one picture or order number is never booked twice unasked, a receipt never contradicts the ledger |
| Proposals and confirmations (`P/adapter.mjs` 477-607, `P/index.ts`) | `pending_expense_confirmations`, `image_expense_proposals`, `processed_expense_confirmations`, `latest_substantive_messages` | propose, replace, withdraw, take, consume, expire | a short reply acts once, on the proposal the user could have meant; stale proposals never come back |
| Authoritative replies (`P/adapter.mjs` 591-674) | `pending_authoritative_replies`, three maps by run in memory | store, put into a final payload, reserve, put into a send, outdate, complete | a text is put in only while nothing newer was said, and by the send hook only for who asked |
| Trusted inbound queue and run binding (`P/adapter.mjs` 676-799, hooks of `P/index.ts`) | `trusted_inbound_queue`, `ended_trusted_runs`, maps of runs and tool calls in memory | enqueue, claim, bind a tool call, hand it over, end a run | a tool call acts on the message of its run, and writes nothing after its end |
| Daily exchange rates (`P/daily-exchange-rates.mjs`) | the row of `daily_bank_rates`, a pending call per instance | claim the day, fetch, compare, store, midnight timer | one fetch a day for all processes, a quote is never replaced by an older one |
| Read-only queries (`P/expense-*.mjs`, `P/bookkeeping-queries.mjs`, `P/restricted-history.mjs`) | lists and quotes for the length of a call | list, search, summarise, page through the history | what is told as found is what the ledger held: exact totals, the newest expenses, "more" only when there is more |
| Expense parsing (`P/currency.mjs`, `P/image-*.mjs`, parts of the core) | none | amounts, currencies, periods, local times | an amount is the value of its expression, a conversion the nearest hundredth, a period whole days, a time the one that was said |
| WeChat channel: poll loop (`W/monitor/monitor.ts`) | the sync cursor, failure counter, session pause | long poll, back-off, dispatch | no message is skipped in silence, an expired session is not hammered |
| WeChat channel: accounts (`W/auth`, `W/messaging/inbound.ts`, `W/channel.ts`) | account index and files, allow lists, context tokens in memory and on disk, QR logins | log in, replace an older account, start, stop, pick an account and a token for a send | one account per user, tokens are those of the last message |
| WeChat channel: a message and its answers (`W/messaging/process-message.ts`, `W/cdn`, `W/messaging/progress-buffer.ts`) | the debug flag, the chain of progress sends, retries of an upload | authorize, commands, run, deliver text or media, report | answers and notices of two messages are not mixed; what is reported as sent was sent |
| Outgoing filter (`W/messaging/markdown-filter.ts`) | a buffer and two open constructs | feed, flush | only marks and pictures are removed, however the text is cut |
| Tunnel guard (`src/deploy/guard/supervisor.mjs`) | child process, origin verdict | verify, open, close, restart | nothing is published unless the origin was verified |
| Mac host (`M/runtime-controller.mjs`, `M/production-host.mjs`, the driver, `M/operation-lock.mjs`) | lock directory, gate, maintenance and fault files, grace and back-off in memory | observe, stop, recover | containers start only under the lock, outside pauses, of one release |
| Host operations (`activate-production`, `production-maintenance`, `production-storage-recovery`, `switch-managed-host` in `M`) | the same files, the plist | enter, resume, clear, switch with its way back | a failure or a kill at any step leaves one release and no unreviewed restart |
| Credentials (`M/rotate-ledger-tokens.mjs`, `M/ledger-token-operation.mjs`, `M/single-credential-operation.mjs`, `M/import-model-authorization.mjs`, helpers in `src/deploy/docker`) | tokens in a volume, rotation marker, review, started and saved records | review, apply, resume, finish | the two ledger tokens are of one pair or marked; "saved" means saved |
| Volumes and generations (`M/provision-production.mjs`, `M/backup-nine-volumes.mjs`, `M/restore-nine-backup.mjs`, `M/generation-switch.mjs`, helpers in `src/deploy/docker`) | nine volumes per generation, backups, candidate and stage records | import, back up, copy, recover, stage, rebind, select | a backup is a state production had, a selection loses nothing |
| Image builds, migration and verification scripts | none at run time | build, compare, report | out of production |
| Windows scripts, dashboard, hooks | process state, none | supervision, presentation | out of production or without state of their own |

How they interact.  The channel calls `message_received` (which enqueues the message, decides
whether it is *new content* and withdraws the pending text proposal); OpenClaw starts a run
(`before_agent_run`, `llm_input`, `before_tool_call`), whose tool calls claim the queued
message and execute in a plugin instance of their own; an instance talks to the ledger over HTTP
with a timeout; all instances share one SQLite file with `BEGIN IMMEDIATE` transactions.  The user
resends pictures, WeChat redelivers messages, OpenClaw retries tool calls, the owner deletes
transactions on the web page.  Below them the host starts and stops three containers, and the
operator's commands replace releases, credentials and volumes while the host is paused; host and
commands exclude each other by one lock directory, and speak through files.

What is hard: two instances between the awaits of one pipeline; an answer that never comes; a
message delivered again days later; a run that proposes after the conversation has moved on;
evidence that must outlive a crash but be released after a deletion; bare replies that must not
choose; a tool that executes elsewhere than its hook ran, or after its run; a login that replaces
an account while it is used; a command killed between two files, a helper container that outlives
it, a host that decided before the operator did.  `PROJECT.json` lists each hazard at its line with
the properties that watch it.

## Modules

| Module | What it is |
|---|---|
| `ExpenseWrite` | one action per atomic stretch between two awaits of `writeExpense` and its callers |
| `ExactlyOnceLedger` | abstract: what a user may rely on about entries and reports |
| `LedgerPromise` | the refinement mapping of `ExpenseWrite` onto it |
| `ExpenseWriteProofs` | type correctness, the inductive invariant, the safety theorems and the refinement theorem |
| `Confirmation` | proposals, replies and their tombstones in one conversation |
| `ConfirmationProofs` | type correctness, the inductive invariant and the safety theorems |
| `AuthoritativeReply` | the stored replies and the two sending hooks that put them in place |
| `RunBinding` | hooks, queue, slots, caches and tombstones: which message a tool call gets |
| `ExpenseQueries` | a call with several questions, the requests it makes, and the checks on their answers |
| `ExpenseNumbers` | the arithmetic of amounts, conversions, periods and times |
| `DailyRates` | the quote cache shared by several processes |
| `GuardSupervisor` | the supervisor loop of the tunnel guard and its publisher |
| `WeixinMonitor` | the long-poll loop of one WeChat account with its cursor file |
| `WeixinAccounts` | logins, account files, context tokens, and the sends that look them up |
| `WeixinDelivery` | the processing of one message after another, with answers and uploads |
| `MarkdownFilter` | the streaming filter, character by character |
| `HostControl`, `HostOperations` | the host's tick; the operator's commands on top of it |
| `CredentialUpdate` | the replacement of one of four credentials, with its resumption |
| `VolumeGenerations` | import, backup, copy, recovery, staging and selection of the volumes |
| `LoopsProofs` | the long poll, the guard, the daily quotes and the credentials: their inductive invariants and safety theorems |
| `VolumeProofs`, `HostProofs`, `ToolsProofs`, `NumbersProofs` | the same for `VolumeGenerations`, the host with its commands, the run binding, and the numbers |
| `WeixinProofs` | the same for what the user reads: the WeChat channel, and before it `AuthoritativeReply` |
| `MCExpenseWrite`, `MCConfirmation`, `MCAuthoritativeReply`, `MCHost`, `MCVolumes` | values, symmetries, casts and order of instances for TLC |
| `MCWriteScenes`, `MCConfirmScenes`, `MCTools`, `MCWeixin`, `MCLoops` | one run of several scenes: an initial choice of what takes part |

How the models fit together.  `RunBinding` decides which message a call acts on; `ExpenseWrite`
and `Confirmation` start from a call that has its message.  `Confirmation` replaces the pipeline by
one step, `Write`, that claims the receipt; `ExpenseWrite` in turn reduces the conversation about a
proposal to one (`StoreImageProposal`, `Confirm`, `CancelOrExpire`).  `AuthoritativeReply` starts
where either of them has a result: which text a tool produced does not matter there, only which run
and message it belongs to.  `WeixinMonitor` hands messages over one by one, `WeixinDelivery` works
one off, and `WeixinAccounts` has the tokens both need.  `WeixinMonitor` delivers each message at
most once unless its cursor is lost; the plugin models nevertheless let messages be redelivered,
because the store is written to expect it.  `HostOperations` composes the commands with
`HostControl`: both act on the same containers, files and lock.  `CredentialUpdate` and
`VolumeGenerations` are what happens inside a maintenance that `HostOperations` enters and leaves;
there the services are one flag.

### ExpenseWrite

*State.* `status[m]` and `txid[m]` are the columns of the receipt of message `m` ("none" without a
row).  `link` maps each evidence key (a picture hash, an order key) to the receipt that owns it,
`proposal[m]` is the picture proposal of `m`.  `posts`, `inflight`, `live`, `deleted` and `nextId`
describe the ledger: every POST ever sent with its message and whether it was unconfirmed
(`direct`), those unanswered, those applied, those the owner deleted.  `job[w]` is one tool call:
the stage it is suspended at (`at`: the two refreshes `att1`/`ord1` and `att2`/`ord2`, the decision
between them, the claim, the category lookup `resolve`, the `post`), the `step` within a refresh,
its message, order and whether it was confirmed, and what it read before the await (`owner`, `tx`),
which may be stale when it continues.

*Steps.* A call starts with `Deliver` or `Confirm`, refreshes the evidence (`ReadLink`, then
`LookupFound | LookupGone | LookupFails`, then `Reread`), is refused or proposed (`ReviewRefuses`,
`StoreImageProposal`) or goes on to the claim (`RecordDirectly`, `ClaimWins | ClaimLoses`), resolves
the category (`ResolveFails` or `SendPost`) and ends with `PostAnswered` or `PostUncertain`.
`Crash` ends any call at any await and keeps the tables.  The ledger may apply or refuse a request
before or after the caller gave up (`LedgerApplies`, `LedgerRefuses`); the owner may delete a
transaction (`OwnerDeletes`).  Amounts, categories and wording are left out.

### Confirmation

*State.* `queue`, `known`, `latest` are the inbound tables, `pending` the single text proposal,
`proposal`/`nextId` the picture proposals and their AUTOINCREMENT, `processed` the tombstones.
`call` is what each concurrent run is doing.  TTLs are actions that may fire at any time, which
covers every clock.  `taken` and `asked` are history variables and are read by no action.

*Steps.* `Arrive` is `message_received` (first delivery or redelivery), `Bind` the claim of a run,
`StoreImageProposal` and `ReplacePendingExpenseConfirmation` the two ways to propose, `AskWhich`,
`RefuseRepeated`, `TakeText`, `TakeImage` the outcomes of the transaction
`consumeImageOrTextConfirmation`, `RecordExpense` and `Write` the write that follows (the pipeline
of `ExpenseWrite` in one step: only whether the receipt was free matters here).

### AuthoritativeReply

*State.* `known` and `latest` are the message tables, `row[r]` the stored reply of tool run `r` and
`reservedBy[r]` the outbound run that reserved it.  `bound`, `memory` and `outgoing` are the maps an
instance keeps by run (`deliveryKeysByRun`, `authoritativeRepliesByRun`,
`authoritativeReplyDeliveriesByRun`); they are lost in a `Restart`, the tables are not.  `payload` is
what `reply_payload_sending` made of what a send is about to carry, `send` what it carries after
`message_sending`, each with where the text is from and for which outbound run.

*Steps.* `Arrive` records a message and deletes the rows it outdates; `Bind` ties a run to its
message; `StoreUnsourced`, `StoreVolatile`, `StorePersisted` are the three ways of
`storeAuthoritativeReply`.  A send passes two hooks.  The first, on the final payload, gives it what
the instance remembers of the run (`ComposeFinal`), stored or not, or a notice when the recipient has a
newer message (`ComposeNotice`); other payloads keep the model's text (`ComposeOther`).  The second, on
the send, reserves a row (`SendReserved`), takes what is only in memory (`SendRemembered`) or lets the
payload pass (`SendAsIs`).  The send ends with `Delivered` or `Failed`, either of which may find the
store unavailable.  `Expire` and `Forget` may happen at any time and stand for the TTLs.  Whether
OpenClaw takes a run up again under its old id after a restart is not decided by this repository; the
model allows it.

*What is and is not promised.*  The first hook looks at the latest message and at no recipient; the
second looks at both, but only at what it puts in itself.  So a text that the final payload was given
may go out after the next message has arrived, when its row was outdated in between and nothing is
reserved, and it goes to whomever the run writes.  `NothingStaleIsPutIn` therefore speaks of the two
moments at which a text is put in, and names what may be late (`LetPass`); `RepliesReachTheirOwn`
speaks of everyone, and names the run's own final text (and that of a run no message is known of) as
the one thing that reaches others.  The send hook's own promise, that a row goes to its recipient only,
holds for a run that writes to several people.

### RunBinding

*State.* `pending` is the trusted queue, a function from the arrival order to the row, with three
kinds of rows: the message (`Real`), a row that ties a run to a message (`Corr`), a row that a tool hook leaves for an execution in
another instance (`Bridge`); `claimed` and `runKeys` are what stays of them; `tomb` the tombstones.
Per instance, `prepared`, `inboundByRun`, `unverified`, `slots` and `cached` are the maps of the
same names.  `call[k]` is a tool call from its hook to its write.

*Steps.* `MessageReceived` with or without run ids; `BeforeAgentRun` correlates a run by its
id or by a prompt that is the text (`ByPrompt`); `LlmInput` by a prompt that is the text or ends with it
after a line break (`EndsPrompt`), and a picture by the dispatch its run was started in
(`ImageRunMatches`), for the longer of the two ages (`ByModelInput`); the tool hook meets a slot (`HookMeetsSlot`, with the collision of two runs
on one tool call id), binds (`HookBinds`) or comes too late (`HookTooLate`); the execution takes its
own slot, a recovered one, the handed-over row, the run's cached answer, or nothing (`Take...`);
`WriteExpense` asks once more; `AgentEnd` writes the tombstone and clears; `GatewayRestart` empties
the maps.

*Texts.*  A prompt is all that tells text messages apart, and texts repeat.  `PromptOf[m]` is the
prompt of a run started for `m` and `PromptEnds[m]` the texts its model input is or ends with, any sets
at all; so a run may claim the row of another message, whose text is the same or is the end of its own.
In the cast the second message is a picture whose last words are the text of the first, and its run
does take the first message when that one's own run has not.  `OwnMessage` says what remains: a call
acts on the message of its run or on one that its run's prompt gives or ends with (`MayMean`), on a
picture only of its own run, and never on a message that only a slot, a handed-over row or a tool call
id of another run has brought.

*Assumed of the host* (in `MCTools`, for `OwnMessage`): a run ends after its calls have
started, a call executes right after its hook, and the run's hooks come in one instance.  Without this
order, an execution in another instance that takes a handed-over row (`TakeBridged`) may meet the row of
another run, because the row does not name the run that it is for.  Of the channel, that the dispatch of
a message reaches the hooks of its own run only; it may be lost on the way (`scope`).

### ExpenseQueries

*State.* `script` is the call, `at` the request it waits for, `lists` the accounts, categories and
quotes it has (each asked for once, also when that failed), `pages` the answers to the question that
is under way, `results` the answers given.  The owner's state is the ledger's; `truth` is a history
of what each request should have found.

*Steps.* One action per awaited request: `AccountsKnown`, `CategoriesKnown`, `RowsAnswered`,
`Summarised` (with the quotes), `PageAnswered` (a search asks the accounts one after the other, a
history asks for all at once), `HistoryPageAnswered` for the MCP tool, `Exchanged`, `RequestFails`.
The owner moves, deletes and hides between any two of them.  A request is answered by the ledger as
it is then (`LedgerAnswers`), or by something else (`OddAnswer`), on which only the checks of the
code stand: a question whose answer fails them fails, and the others go on.

`AnswersAreTrue` compares each answer with what the ledger held when each of its requests was
answered, and for an odd answer asks that nothing outside the question is shown.

### ExpenseNumbers

*State.* Nothing in the code; here the expression read so far with the accumulators of the loop
(`ReadFirst`, `ReadNext`), a conversion of its amount (`Convert`), or the answer to one question
about a period or a time.

The code computes with fractions and with the calendar of JavaScript, which carries months and days
over; the properties say the same otherwise: a product and sum over the terms of the expression, the
worth of an amount from the meaning of the quotes, membership of each day in the period, the months'
lengths.  An expression without an amount, a date that is none and a time to come must be refused,
and nothing else may be.

### DailyRates

*State.* `attempt`, `fetched`, `payload` are the columns of the single row, `inst` what each object
waits for, `timer` the day of its next tick.  `loads` and `asked` are history variables.  Days are
numbers and the clock does not go back.

*Steps.* `Get` (a query), `Start` and `Midnight` (the service's tick) claim the day in one SQL
statement; `Loaded` is the answer and its comparison with the cached row, `Store` the update that
follows, which another process may precede; `GiveUp` is every failure, `Close` the service's stop or
the end of the process, `Open` a new one.

### GuardSupervisor

*State.* `pc` is the await the loop is suspended at, `stop`, `stable`, `holdoff` and `child` its
variables, `state[p]` the life of each publisher process (running, exited with the event still to
come), `origin` whether the origin is what the policy says, `saw` the verdicts the verification
under way can still come to.  `streak` is history.

*Steps.* `Verified`, `VerifiedStopped`, `Refuted`, `Doubt`, `Answered` and `Again` are the loop;
`Signal` and `ExitSeen` the handlers that interrupt it; `PublisherExits`, `OriginTurns` and
`Restart` the world.  That the publisher dies with its guardian is the work of
`exec-with-parent.py` and part of `Restart`.

### WeixinMonitor

*State.* `arrived` is the server's stream, `file` the saved cursor, `cursor`, `failures`, `reauth`
the variables of the running loop, `pc` its await, `next .. upto` the rest of the batch, `paused` the
session guard's map, `lastError` the status that is shown.  `handled`, `cut` and `torn` are history.

*Steps.* `Accept` and `SaveFails`, `LocalTimeout`, `StaleToken`, `ApiError`, `Unrecognized`,
`TransportError` are the answers to a poll in the order the code tells them apart; `Handle` and
`HandleFails` work off the batch; `Start`, `Stop`, `Crash` are the gateway and the process.  Answers
that carry messages are taken to carry a cursor and a result code as well, and the gateway to run
one loop per account.

### WeixinAccounts

*State.* `index` and `account` are the account files, `allowed` the allow lists, `tokenFile` and
`tokens` the context tokens on disk and in memory, `running` the accounts the gateway polls;
`active` and `waiter` the QR logins of the gateway and of the terminal; `out` a send that is
between two of its awaits.  `newest` and `outdated` are history.

*Steps.* `StartLogin`, `QrArrives`, `Wait`, `VerifyCode`, `Refresh`, `LoginExpires`, `WaitFails` and
`Confirmed` are a login, which saves the account and clears older ones of the same user;
`StartAccount`, `StopAccount`, `GatewayRestart` restore tokens; `MessageArrives` stores one; `Send`,
`HookEnds` and `SendEnds` are a send outside a run, which picks the account and the token.

### WeixinDelivery

One message at a time (`Receive` to `Finish`): authorization, the two slash commands, the download,
the run with its tool events and answers, the draining of progress sends, the times in debug mode.
An answer goes through the sending hook (`Hook`), which may cancel it, is uploaded in up to three
attempts (`Prepare`, `Upload`) and sent, its caption first (`SendAnswer`); any failure tells the
user (`NoticeSends`, which may come late).  `sent` is what has arrived at the user, `outcome` what
`message_sent` reported.

### MarkdownFilter

The machine of `markdown-filter.ts`: `Feed` adds a character (given by name; `"C"` stands for CJK text),
`Pump` is one turn of the loop of `feed` or `flush`.  `filter` holds what the class keeps: the buffer
`buf`, the fence, the start of a line `sol`, the open marker `inl` with what was read after it (`acc`), and
what was given out.

### HostControl and HostOperations

*State.* `lock` is the directory (free, the host's, the operator's, or left by a killed owner),
`files` the gate, the maintenance marker and the storage fault, `job` the plist and the loaded job,
`box` the three containers with the release they belong to and the origin process they share;
`host` the process: where its tick is, the steps it still has to take (`todo`), its back-off, its
grace and the fault it remembers; `op` the running command, its steps, and what it would undo.

*Steps.* `HostStarts`, `ReadGate`, `TakeLock`, then one decision (`Disabled`, `InMaintenance`,
`DockerAway`, `IdentityNeedsAttention`, `ActivationNeedsAttention`, `StorageStops`,
`StorageUnavailable`, `LowDisk`, `StorageGood`), then its steps (`HostStops`,
`HostStartsContainer`, `HostChecks`), each of which may fail with or without effect, then
`HostUnlocks`.  Containers turn ready, falter, or are removed by hand (`TurnsReady`, `Falters`,
`Removed`).  A command is a list of steps as well (`EnterSteps`, `ResumeSteps`, `ClearSteps`,
`SwitchSteps`, `ActivateSteps`), a failing switch goes back by `UndoSteps`, and a killed command
leaves its lock.

### CredentialUpdate

*State.* `volume` is what is stored: each credential old or new, the rotation marker, temporary
files, unrelated state; `desk` the operator's records (review, started, saved, the maintenance
epoch); `held` the lock; `attempt` the command, `helper` its container, which may outlive it.

*Steps.* `Approve`, `BeginApply`/`BeginResume`, `SaveStarted`, `RunHelper`, `SaveReceipt`,
`CommandStops`, `CommandKilled` are the command; `HelperChecks`, `HelperMarks`, `HelperWrites`,
`HelperReplaces`, `HelperCloses`, `HelperReports` and their failures the helper; `ClientTimesOut` is
the command that no longer waits for it.  What an update may do differs by kind and stands in one
definition each (`LedgerMayGo`, `WeixinChecks`, ...).

### VolumeGenerations

*State.* `volumes` maps the base, the candidate and each generation to three parts that stand for
the nine volumes (the ledger, the receipts, the configuration), each with a version and its labels;
`archive` holds backups and copies with their audit, `stages` the stage records, `live` what is
selected, `work` the running command, `stray` a set that a foreign container writes.

*Steps.* One part is copied at a time (`CopyPart`), so that a writer may come in between;
`ImportBegins`, `BackupBegins`/`BackupAudits`/`BackupRestores`/`BackupCloses`, `CopyStarts`,
`RestoreBegins`, `StageBegins`/`StageAudits`/`StageRebinds`/`StageVerifies`/`StageRecords`,
`SwitchBegins`/`SwitchVerifies`/`SwitchSelects`, `ClearBegins` follow the commands; `Fails` ends any
of them.

## Runs

| Run | Shows |
|---|---|
| `write_resend` | two messages with the same picture and two concurrent calls: the receipts stay true and permanent, the picture has one open post, `ExactlyOnceLedger` is implemented, and (liveness) every call ends |
| `write_order` | two pictures of one order, or a picture and a text: no message is posted twice, one unconfirmed post of the order at a time, evidence released only after a deletion |
| `confirm` | six scenes: two texts and a reply with two runs; a text and two pictures; one picture sent twice; numbered replies; more pictures than may be open; two replies to one picture with two runs, and what is written.  A withdrawn proposal stays withdrawn, a picture has one open proposal and the limit holds, a reply acts once and a bare one chooses nothing, only what was asked for is written |
| `reply` | two messages of one person, a bystander, two runs, two concurrent sends: no outdated reply is kept, or put in by either hook, and the bystander is reached only by what a run's own final payload brought |
| `tools` | five casts.  Two messages, two runs, three calls and two instances (overlapping runs with one tool call id; one run after the other; an aborted run): a call acts on its own message or one its prompt ends with, an ended run writes nothing.  *questions*: one call about four expenses in three accounts while the owner makes two changes and the server errs: answers are true.  *numbers*: expressions of three operands and their conversion, periods and times around a new year and a leap day: the numbers are right |
| `loops` | four scenes, one loop at a time.  *monitor*: none of three messages is processed twice or skipped in silence, a missing authorization is shown, (liveness) each is processed or was lost with its batch.  *guard*: nothing published after a signal, twice, or unverified; (liveness) a wrong origin is closed, a good one published again.  *rates*: one request a day, the cache never goes back.  *credential*: tokens of one pair or marked, a true record, (liveness) an operator who resumes gets a rotation to its end |
| `channel` | six scenes: logins in two processes; the talk of two accounts with restarts and failing writes; sends outside a run; two messages with tools and answers; failing uploads; the filter.  One account per user, current tokens, runs that do not mix, true reports, only marks removed |
| `host` | two releases, two mishaps, two commands: one release at a time, starts under the lock and outside pauses, pauses that end reviewed, a reported health that is real, (liveness) a host that is left alone brings its services back |
| `volumes` | two backups, two generations, one trouble: a verified backup is a state production had, a selection keeps the data, nothing selected or recorded is written |
| `write_order_suspicion` | finding 1, expected violation |
| `confirm_redelivered` | finding 2, expected violation |
| `reply_lost` | finding 3, expected violation |

*Bounds.* `ExpenseWrite`, `Confirmation` and `AuthoritativeReply` are bounded only by the sizes of
the constant sets.  They are enough because a race in the plugin is between two calls over one
receipt or one key (the claims are single SQL transactions, so a third call adds no new kind of
interleaving), which needs two calls and two messages; an order key needs two pictures of it, and
the finding a third.  `MaxOpen` is 10 in the code and 2 in the runs, so that the limit is reached.
`VIEW Watched` hides, in the scenes that do not ask about it, what was written, which only `Write`
reads.  In `reply`, sends that overlap go to one recipient, since overlapping sends to two are what
`reply_lost` is about, and one payload at a time is between the two hooks: what happens there to one,
a message, an expiry, the end of the other send, happens with one.  Symmetry is used only in runs
without liveness: of what is alike, in `reply` the sends, and the two messages together with their runs.

`RunBinding`: `PromptAge` 0, `MaxAge` 1, `EndTtl` 1 and `MaxTime` 3 keep the order of the real
limits and let everything outlive each of them; two instances and two runs are the least that can be
confused, and the casts keep the product of their orders small.  `ACTION_CONSTRAINT Searched` keeps
TLC, not the theorems, from two things: using the second of two unused instances first in `abort`,
where they are alike, and naming runs in `serial`, which the other casts do.  `WeixinAccounts`: two bots, two
users, `MaxLogins` 2, `MaxTokens` 1, `MaxMishaps` 1: a login that replaces an account and one
failure inside it.  With one token a user's tokens grow old only by a removed account or a lost file;
many tokens of one user are the theorem's part.  `WeixinDelivery`: `MaxRuns` 2, `MaxDeliveries` 2, `MaxTools` 1, `MaxErrors` 3,
the last so that an upload can use up its attempts.  `MarkdownFilter`: texts up to `MaxLength` 5
over four small alphabets, one per group of constructs.  `HostControl`: `Grace` 2 quarter minutes,
`MaxMishaps` 2 (a failure, and a second one on the way back), `MaxCommands` 2.
`CredentialUpdate`: `CredentialFaults` 2, `MaxReviews` 3, `MaxEpochs` 2: an interrupted update, an
interrupted resumption, and a review that is outdated.  `VolumeGenerations`: `MaxArchives` 2,
`MaxWrites` 1, `MaxRelease` 3, `MaxTroubles` 1; a second generation only without trouble.
`ExpenseQueries`: `MaxChanges` 2, so that two requests of a call see different ledgers and a third
may see yet another; `Top` is 3 in the code and 1 in the run, limits are 1 and 2, so that four
expenses, two of one second, reach "exactly as many", "one more" and a continuation.
`ExpenseNumbers`: `Operands` with zero, values that divide and values that do not, `MaxOperands` 3
(every pair of operators in a row, which is as far as the loop looks back), `MaxMinor` 300 so that
it is exceeded; quotes whose conversion falls on, below and above a half; `Days` from 2023-12-29 to
2024-01-02 and from 2024-02-27 to 2024-03-01, at their first and last second and once in between.
`DailyRates`: `LastDay` 3, two processes of which the gateway has the timer; two days and a third
for a slow answer of the first reach every order of claims and stores.  A fault of the guard or the
monitor resets the loop's state, so that five or four (`GuardFaults`, `MaxFaults`) reach every pair
of them in every state; `LastMessage` is 3.

`CHECK_DEADLOCK FALSE` stands where a behaviour may stop: in `loops` (a guardian that was told to
stop has ended, a replacement is done), `tools`, `channel`, `host` and `volumes` (the bounds
are used up, or the operator does nothing more).

*Fairness.* In `ExpenseWrite`, weak fairness of each call's own steps (`Step(w)`), never of the
ledger, the owner, a crash or an arrival: an `await` in Node resumes when its promise settles, and
every promise the pipeline waits for settles, because `EzBookkeepingApi.#request` aborts after its
timeout.  In `GuardSupervisor`, of the loop (its requests have time limits, its delay is a timer), of
the end of the hold-off and of the delivery of exit events.  In `WeixinMonitor`, of the gateway's
starting the account again, of the timers, of processing a message, and of a poll that can deliver
all that has arrived; faults are bounded, so that the last of them is followed by quiet.  In
`HostControl`, of the host's steps, of the timers, of a command's own steps and of containers
becoming ready (launchd restarts the process, every docker call has a time limit); the property
speaks of a host left alone, after its last mishap.  In `CredentialUpdate`, of the steps of commands
and helpers, of an operator who removes the lock of a killed command, approves and resumes; the
last one strongly, because other commands may take the lock in between.  That is what the runbook
asks of the operator, and the property says what it earns him.

## Findings

1. *A third screenshot of an order is booked without asking* (`write_order_suspicion`).  `claim`
   stores the order key of a confirmed second expense with `INSERT OR IGNORE`; while the first
   receipt owns the key the second never does.  When the first transaction is deleted, the key goes
   with it, and a third picture of the order is booked directly although the second transaction is
   live.
2. *A redelivered bare reply can consume a later proposal* (`confirm_redelivered`).  The ambiguous
   branch of `consumeImageOrTextConfirmation` returns before the reply's tombstone is written.
3. *A successful send deletes the reply of another* (`reply_lost`).  Completion is by outbound run,
   not by send: when one run sends twice at a time, the first success deletes the reply that the
   other send carries and may fail to deliver.

Observed while modelling, and part of the models without a property against them:

- a midnight tick that meets a pending call of the day before takes that call's answer and leaves
  the new day unclaimed until somebody asks (`P/daily-exchange-rates.mjs:32`);
- polling does not consult the session guard; only the sleep of the running loop keeps the pause
  after a stale token, which therefore ends with a restart of the account (`W/api/session-guard.ts`,
  `W/monitor/monitor.ts:97`);
- a host that read its gate before an operator took it away, or is inside a recovery, still starts
  containers afterwards, as `StartsAreAllowed` is about the lock, the pause and the fault, not the
  gate (`M/production-host.mjs:61-68`);
- a ledger rotation whose command is killed, or whose docker client does not answer, leaves a
  helper that writes on after the lock is gone; the marker still guards the tokens
  (`M/rotate-ledger-tokens.mjs:111-112`);
- the end of a wait deletes whatever login its session has by then, also a newer one
  (`W/auth/login-qr.ts:337`);
- a started record of an earlier maintenance with the same binding blocks an identical later review
  of ledger or tunnel credentials, and a temporary file of a killed single-credential helper blocks
  its resumption: safe, but it needs a new backup and review;
- a search over several accounts asks one after the other and merges without comparing ids, so
  that an expense the owner moves between two of these requests is shown twice or not at all
  (`P/bookkeeping-queries.mjs:162-166`); with one account per currency it cannot happen;
- an answer of the poll with no result code and no messages is followed by the next poll at once,
  without a back-off (`W/monitor/monitor.ts:164`; the step is `Unrecognized`);
- a reply that a final payload was given is not looked at again when `message_sending` reserves nothing
  for it, so it can go out after a newer message, or to another recipient of the run, although
  docs/handoffs/2026-09-07-history-reply-audit.md:15 says 「新请求使旧回复失效，内存和 SQLite 发送均核对来源」
  (a new request invalidates old replies, sends from memory and from SQLite both check the source)
  (`P/index.ts:934` and `992`; `SendAsIs` with a payload from `ComposeFinal`);
- a prompt whose last line is the text of an earlier message of the last minute correlates with it
  (`P/index.ts:713`; `LlmInput`);
- every failure whose text holds "fetch" is announced to the user as a failed download of media.

## Proofs

`ExpenseWriteProofs!TypeCorrect` is the type invariant for every number of calls, messages,
pictures and orders.  It is inductive as it stands because it also says what a call carries at
each stage.

It also proves the inductive invariant `IndInv` and from it every safety property the
runs check of `ExpenseWrite`.  The properties alone are not inductive.  The strengthening says:
ids of posts are fresh and their three fates disjoint (`IdsFresh`); at most one call is past the
claim of a message, and then its receipt is pending and, until it posts, no post exists for it;
every post belongs to a claimed receipt; an open post of a picture owns the picture's link; an
open unconfirmed post of an order owns the order's link.  The last two are what makes a fresh
claim, which needs the link to be free, safe.  The argument for `LookupGone`, the one step that
frees a link, is that the post it saw deleted is the only one of its receipt.

`Refinement`, in the same module, says that `ExpenseWrite` implements `ExactlyOnceLedger`.  Under the mapping an
entry of a message is the fate of its only post and a report is its receipt.  Steps that touch
neither receipts nor ledger stutter; a claim, an answer and a timeout change one report; the
ledger's steps change one entry, because another message has other posts (`OtherPosts`).

`ConfirmationProofs` does the same for `Confirmation`.  Its strengthening says: the newest content
is a known message (`NewestKnown`), so that a redelivery cannot move it back; numbers of proposals
are unique and below `nextId` (`NumbersAreUnique`), so that a number means one proposal; a proposal
that was handed out is consumed and its reply has a tombstone (`TakenIsSpent`); and a run that
writes was asked to (`WritersWereAsked`).  `ProposalsStayKept` says that
a picture never has two open proposals and that there are never more open than the limit.

`LoopsProofs` is about the three loops of `MCLoops`, for every stream of messages, set of publishers,
set of processes and number of faults.  *The long poll* (`MonitorInv`): the saved cursor is the loop's
or was lost; a batch ends at the cursor; what lies beyond the cursor, or is left of the batch, was not
processed yet.  The last makes "processed once" inductive: a message moves from "ahead" to "processed"
in one step, or is counted as cut off.  *The guard* (`GuardInv`): the type invariant knows which
publisher is the loop's child, and what the history counts is what the loop counts (`StreakIsStable`);
then a publisher runs only where the loop's own counter let it.  *The quotes* (`RatesInv`): no day
after the claimed one was asked about and none twice; two calls under way have different days; a call
whose day is still the claimed one holds an answer that is not older than the row.  The last is
what the `UPDATE ... WHERE attempt` of the store rests on, because another process may store between
the comparison and the update.

*The credentials* (`CredentialInv`), for any number of failures, reviews and maintenances: a
rotation writes only under its marker (`LedgerWritersAreMarked`), a helper runs only for an update
whose start is on record (`BegunIsRecorded`), no service starts while a command runs on its review,
and what a helper reports to the command that waits is what the volume then holds (`ReportsAreTrue`).
The helper that outlives its command is the case to look at: it keeps the marker, so that the
tokens stay guarded, and no command waits for its report.  `TokensStayGuarded` and `RecordsStayTrue`
follow.

`VolumeProofs` proves `VolumeInv` for any number of backups, generations, releases and troubles.  A
copy is made part by part with writers in between; while it runs each copied part lies between the
part as it was when the copy began and as it is now (`BackupRuns`, with `Older`), so that equal audits
before and after mean that the copy is a state production had.  For each other command one conjunct
says what it has verified and what of that still holds: the stage's data is the candidate's
(`StageRuns`), a reviewed switch selects a complete set with the data of its backup (`SwitchRuns`),
all unless a foreign container wrote the set.  From it follow `BackupsStayTrue`,
`SelectionsKeepTheData` and `VolumesStayKept`.

`HostProofs` proves `HostInv` for any number of releases, mishaps and commands, and from it every
safety property the run checks of the host.  `OneRelease` and the three properties of steps are far
from inductive: a host and a command change the same files and containers, either may die at any
step, and the lock its death leaves is the only trace.  The strengthening says:

- what launchd has loaded is what the files and containers say, and nothing runs without a loaded job
  (`LoadedRules`); a switch may therefore change gate, marker and containers one by one, since
  nothing runs until the job is loaded again;
- what is left to do of a tick is a list of stops or the rest of a recovery, and a rest tells how far
  the recovery has come: which containers are stopped, what the grace period still counts, that
  neither pause nor fault is there (`RecoveryIsAllowed`).  No command can pause in between, for the
  host holds the lock, and the fault file is written by the host alone;
- a dependant beside a running origin shares that very process (`ContainersAreTrue`), which is why
  stopping both dependants before an origin is restarted makes a reported health real;
- what the grace period rests on is a sample of these containers, or one of them is down
  (`SampleHolds`);
- for each command, what is verified or done at each of its remaining steps (`EnterIsTrue`,
  `ResumeIsTrue`, `ClearIsTrue`, `SwitchIsTrue`, `ActivateIsTrue`), on the way there and on the way
  back.

`OneReleaseHolds` follows at once.  `HostKeepsTheWord` is about steps: a start is the head of a
recovery (`AllowedStart`), a marker or a fault goes only by the one step of the one command that
verified what the property asks (`ReviewedEnd`), and the three places that report good health look
at all three containers first (`PraiseIsReal`).

`WeixinProofs` proves `WeixinInv` for any number of bots, users, sessions, logins, messages and
attempts.  *Accounts*: a file may lag behind the memory of a session that could not write it, and a
memory may be empty after a restart; what makes them safe together is that the file of an account holds
its newest tokens unless a write has failed (`FilesAreNewest`), and that a memory then holds the
newest or nothing (`MemoryIsNewestOrEmpty`).  A login cleans up the other accounts of its user before
it is started, so that two accounts never claim one user.  *Delivery*: the chain of sends is always of
the message in progress (`ChainIsOfTheRun`), and what was sent precedes what is left of the chain
(`SentPrecedesTheChain`); so progress keeps its order and stops at the end of its message.  For
`OutcomeIsTrue` the parts that have arrived are numbered in order (`PartsAreOfAnswers`), and an upload
counts its attempts until it is given up (`AttemptsOfAnUpload`).  *The filter*, for texts of any
length over any characters (`FilterInv`, `FilterStaysTrue`): what is held back, that is the open marker,
`acc` and `buf`, is the very end of the text (`EndOf`), and what was given out, with it, is what is left
of the text, with its letters (`Removes`, by a strictly increasing placement of the one in the other,
`Places`).  The first part is what makes the second inductive: a turn looks at what is held, and only of an
end of the text is known where it stands.  An image is dropped only after
its `](` was read, from where on no letter is claimed.  While a block is fenced and not ended, nothing
was dropped yet (`FencePasses`, with `Opening`, `Inside` and `Passed`).  A turn of `flush` with a
buffer that is not empty always moves (`Shifts`), so the last call ends with an empty one.

*Replies*, in the same module, for any number of instances, runs, sends, messages, recipients and
accounts (`Invariance`): a message on record has a latest message of its person on record
(`KnownHaveLatest`); a run that an instance has bound, or whose text it remembers as tied to a message,
is of a message on record (`BoundAreKnown`, `RememberedAreKnown`), so that the "no latest message" which
the code takes for current does not occur; stored rows answer the latest message; a payload between the
hooks has the text of its own run or none (`PayloadsAreOwn`), which is what limits what `message_sending`
lets pass; and a send carries its addressee's reply or what its payload brought.

`ToolsProofs` proves `RunsInv` of `RunBinding` for any number of instances, messages, runs, calls and
tool call ids and for all ages with `PromptAge <= MaxAge <= EndTtl`.  `OwnMessage` and
`EndedRunsWriteNothing` look at the end of a chain of hand-overs (queue, map, slot, bridge row, call),
any link of which may be in another instance or be repeated.  The strengthening puts the same
statement on every link: what ties a run to a message fits (`Fits`), that is, the run may mean the
message (`MayMean`, for any texts, prompts and pictures), and the binding is at least `EndTtl` older than the tombstone the run has, if
it has one.  Three consequences carry the proof.  A write needs a binding no older than `MaxAge`, and
none with a tombstone that has expired is (`EndedRunsStayQuiet`).  A slot that is not ambiguous, or an
open bridge row, that can still be used is of a run that has not ended (`UsableSlot`,
`OpenBridgeFits`); in `serial` there is one such run.  In `overlap`, the slot under a call's id is its
run's or is ambiguous, until the call executes (`SlotsKeepTheirRun`); this is what an id that two runs
share would break if a collision did not spoil the slot.

`NumbersProofs` proves `NumbersAreRight` of `ExpenseNumbers` for any operands, upper limit, tables of quotes,
days, dates and clocks within `NumbersAssumption`, and expressions of any length.  *The calendar*: each
month begins where the one before ends and each year too (`MonthsFollow`), so that a date has one day,
a day one date, and carrying over a month or a day lands where it should; the bounds of a period then
enclose its days and no others.  *Sums and products* over finite sets grow by one element at a time, by
induction on the set; the induction theorem of the library takes a predicate, so each such induction is
stated with the set of the numbers for which it holds.  *Expressions*: between two turns of the loop the
accumulators hold the product since the last sign and the sum of the terms before it, as fractions with
positive denominators, and the amount is there exactly when their sum is whole hundredths within the
limit.  *Conversions*: the quotient that the code rounds is no further than half a hundredth from the
worth, and none is nearer.

The assumptions are those of the modules' `ASSUME`s: disjointness of the sentinels, the types of
the constants (`MonitorAssumption`, `LoopsAssumption`, `GenerationAssumption`, `WeixinAssumption`,
`HostAssumption` and those of the plugin's modules), the order of the ages (`AgesAssumption`), that quotes
are positive and days and dates lie after 1971 and 1970 (`NumbersAssumption`), and that `Pictures` is
finite.  TLC evaluates them in every run.
What is proved of `MCLoops`, `MCVolumes`, `MCHost`, `MCWeixin` and `MCTools` is proved of the
specifications the runs check, with their constants open.

What stays with TLC, on the instances above:

- `ServicesComeBack`, `LoopsRecover` and `EveryCallEnds` have liveness in them, which is out of the
  prover's reach;
- `AnswersAreTrue` of `ExpenseQueries`: the merged pages and the sums over lists are folds of folds, and
  the induction a proof needs takes an operator, which the installed provers cannot instantiate.

## Plan

Done: the plugin's stores (`ExpenseWrite` with its refinement, `Confirmation`,
`AuthoritativeReply`), run binding, the channel with its filter, the loops, the credentials, the volumes
the host and the numbers, with proofs; questions checked.  Left, in this order:

1. The composition of `RunBinding` with `Confirmation` and `AuthoritativeReply`, which take the
   binding as given.
2. `AnswersAreTrue` as theorems about the merge of pages and about the checks of one answer.

## Not modelled

- Finding amounts, times and comments in a text, the words of the picture review, formatting and
  model prompts: regular expressions and wording without shared state.
- `ExpenseQueries`: the filter by keyword, the size limits of requests, totals beyond the safe
  integers, the session of the MCP client.  `ExpenseNumbers`: how a number is written, the limit of
  127 parts, the time mode "received" (the time of the message), amounts that TLC's integers do not
  hold.
- The dashboard, the OpenClaw hooks, the retired Windows scripts, image builds, and scripts that
  only compare, rehearse or report.  The schema migrations of the store run once, before it is used.
- `RunBinding`: more than one owner or tool; the identity checks are one condition; that a picture's
  dispatch context names the file as well.
- `AuthoritativeReply`: rows of the schema before replies had a source; sends without a run id, which
  both hooks leave alone; a run that two instances tie to two messages (`SourceOf` is one for all).
- `WeixinAccounts`: two processes inside one file operation; the removal of the sync buffer, the
  host name of a login, the list of ten tokens, the content of a verification code.
- `WeixinDelivery`: typing indicators and their configuration cache, which is asked for before the
  sender is authorized; ciphers; the cutting of a long answer into several texts, each of which the
  filter meets on its own.  That OpenClaw hands over one answer at a time is assumed.
- `HostControl`: the process started with `--once`, the last readiness wait of a switch, an effect
  of a docker daemon after its client was killed, the rehearsal scripts.  A lock whose owner died
  stays until a person removes it, which no code does.  Inspection, storage sample, validation and the
  report of a tick are one step (`StorageGood` and its siblings), in the code seconds apart
  (`M/production-host.mjs:79-83`, and the sample is dated after its probe,
  `M/runtime-controller.mjs:23`): read `HealthIsReal` as "at the inspection".
- `CredentialUpdate`: the entry point's look at the marker and the start of the gateway are one step
  (`src/deploy/docker/entrypoint.mjs:12` and `33`), which the maintenance makes harmless; what the
  inspection helpers read; nobody stops a single-credential helper
  after its client gave up, so no property says so.
- `VolumeGenerations`: the dates of the operator's reviews; a content that is written and written
  back (versions only grow); older candidates; foreign containers while a second generation exists.
  The last audit of a reviewed fault and its removal are one step (`ClearEnds`;
  `M/storage-recovery-review.mjs:37-38`, `M/production-storage-recovery.mjs:63-73`): read `VolumesAreKept`
  as "at the last comparison".
