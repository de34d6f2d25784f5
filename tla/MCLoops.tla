------------------------------ MODULE MCLoops ------------------------------
(***************************************************************************)
(* The loops of the system, for TLC: the long poll of a WeChat account, the *)
(* guardian of the tunnel and the daily fetch of quotes run for ever, and   *)
(* the replacement of a credential is resumed until it is done.  They share *)
(* no state, so a behaviour is about one of them.  Only the gateway's       *)
(* object of quotes is started, as in index.ts.                             *)
(***************************************************************************)
EXTENDS WeixinMonitor

CONSTANTS Publishers, NoPublisher, GuardFaults, Instances, gateway, Currencies, LastDay,
          None, CredentialFaults, MaxReviews, MaxEpochs

ASSUME LoopsAssumption ==
    /\ NoPublisher \notin Publishers /\ GuardFaults \in Nat
    /\ gateway \in Instances /\ LastDay \in Nat \ {0}
    /\ CredentialFaults \in Nat /\ MaxReviews \in Nat /\ MaxEpochs \in Nat

VARIABLES scene
VARIABLES gpc, stop, stable, holdoff, child, state, origin, saw, streak, gfaults
VARIABLES today, attempt, fetched, payload, inst, timer, loads, asked
VARIABLES kind, volume, desk, held, command, helper, services, cfaults

Guard == INSTANCE GuardSupervisor WITH pc <- gpc, faults <- gfaults, MaxFaults <- GuardFaults
Rates == INSTANCE DailyRates
Credential == INSTANCE CredentialUpdate WITH
    attempt <- command, gateway <- services, faults <- cfaults, MaxFaults <- CredentialFaults

gvars == <<gpc, stop, stable, holdoff, child, state, origin, saw, streak, gfaults>>
rvars == <<today, attempt, fetched, payload, inst, timer, loads, asked>>
cvars == <<kind, volume, desk, held, command, helper, services, cfaults>>
all == <<scene, vars, gvars, rvars, cvars>>

MCInit ==
    /\ scene \in {"monitor", "guard", "rates", "credential"}
    /\ Init /\ Guard!Init /\ Rates!Init /\ Credential!CredentialInit
    /\ scene # "guard" => origin
    /\ scene # "credential" => kind = "ledger"

MCNext ==
    /\ \/ scene = "monitor" /\ Next       /\ UNCHANGED <<gvars, rvars, cvars>>
       \/ scene = "guard"   /\ Guard!Next /\ UNCHANGED <<vars, rvars, cvars>>
       \/ /\ scene = "rates"  /\ Rates!Next /\ \A i \in Instances \ {gateway} : timer'[i] = 0
          /\ UNCHANGED <<vars, gvars, cvars>>
       \/ scene = "credential" /\ Credential!CredentialNext /\ UNCHANGED <<vars, gvars, rvars>>
    /\ UNCHANGED scene

\* The fairness of the loop that plays.
MonitorIsFair ==
    /\ WF_vars(scene = "monitor" /\ Start)
    /\ WF_vars(scene = "monitor" /\ WaitEnds)
    /\ WF_vars(scene = "monitor" /\ PauseEnds)
    /\ WF_vars(scene = "monitor" /\ Handle)
    /\ WF_vars(scene = "monitor" /\ \E k \in Cursors : k = arrived /\ Accept(k))
GuardIsFair ==
    /\ WF_gvars(scene = "guard" /\ Guard!Loop)
    /\ WF_gvars(scene = "guard" /\ Guard!HoldoffEnds)
    /\ \A p \in Publishers : WF_gvars(scene = "guard" /\ Guard!ExitSeen(p))

\* Commands and helpers go on; the operator keeps approving and resuming, and
\* removes the lock of a command that was killed.
OperatorIsFair ==
    /\ WF_cvars(scene = "credential" /\ Credential!CommandSteps)
    /\ WF_cvars(scene = "credential" /\ Credential!HelperSteps)
    /\ WF_cvars(scene = "credential" /\ Credential!LockRemovedByHand)
    /\ SF_cvars(scene = "credential" /\ Credential!BeginResume)
    /\ WF_cvars(scene = "credential" /\ Credential!Approve)

MCSpec == MCInit /\ [][MCNext]_all /\ MonitorIsFair /\ GuardIsFair /\ OperatorIsFair

-----------------------------------------------------------------------------
(* No message is processed twice or passed over in silence, and a missing    *)
(* authorization stays visible, in well-typed states (monitor.ts).          *)
MessagesAreKept == TypeOK /\ HandledOnce /\ NothingSkipped /\ ReauthorizationIsShown

(* Nothing is published after a signal, twice, or unverified, whatever exits *)
(* or arrives during an await (supervisor.mjs).                             *)
OnlyVerifiedIsPublished ==
    Guard!TypeOK /\ Guard!StoppedMeansClosed /\ Guard!OnePublisher /\ Guard!PublishedOnlyVerified

(* The ledger's tokens are of one pair or marked (ledger-token-rotation.mjs). *)
TokensAreGuarded == Credential!CredentialTypeOK /\ Credential!CredentialsAreGuarded

(* The bank is asked once a day, what counts as fresh is, and the cache     *)
(* never goes back (daily-exchange-rates.mjs).                              *)
QuotesAreOfTheDay ==
    /\ [](Rates!TypeOK /\ Rates!OneLoadPerDay /\ Rates!FreshMeansToday)
    /\ Rates!FetchedNeverGoesBack /\ Rates!QuotesNeverAge

(* A gateway starts on one pair of tokens, and a replacement is recorded as  *)
(* done only when it was (entrypoint.mjs, rotate-ledger-tokens.mjs).        *)
RecordsAreTrue == Credential!CredentialRecordsAreTrue

(* Once the faults are over the loops do their work: every message is       *)
(* processed or was lost with its batch, a wrong origin is closed for good  *)
(* and a good one published again, and an operator who resumes gets a       *)
(* rotation to its end.                                                     *)
LoopsRecover ==
    /\ EveryMessageIsHandled
    /\ Guard!WrongOriginIsClosed /\ (scene = "guard" => Guard!GoodOriginIsPublished)
    /\ scene = "credential" => Credential!ResumingEnds
=============================================================================
