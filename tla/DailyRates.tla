----------------------------- MODULE DailyRates -----------------------------
(***************************************************************************)
(* The cache of the bank's quotes, one row in a file of its own which the   *)
(* gateway and every tool process open.  Whoever first needs a quote on a   *)
(* day claims the day in the row and is the only one to ask the bank; the   *)
(* others use what is there.  The gateway's instance also does so at        *)
(* midnight, by a timer.                                                    *)
(*                                                                         *)
(* Days and the bank's publication times are numbers; a day is long enough  *)
(* for one unit of publication time.  The clock does not go back.           *)
(***************************************************************************)
EXTENDS Integers

CONSTANTS Instances,    \* DailyBankOfChinaRates objects, each in a process of its own
          Currencies,
          LastDay       \* bound of the clock

VARIABLES
    today,
    attempt,    \* attempt_day, 0 without a row
    fetched,    \* fetched_day, 0 without a quote
    payload,    \* the publication time of each currency's quote, 0 for no quote
    inst,       \* what each object is doing
    timer,      \* the day of each object's next tick, 0 when it is not started
    loads,      \* history: how often the bank was asked on each day
    asked       \* history: the day on which the payload was asked for

vars == <<today, attempt, fetched, payload, inst, timer, loads, asked>>

Days  == 1 .. LastDay
Times == 0 .. LastDay
Quotes == [Currencies -> Times]
NoQuotes == [c \in Currencies |-> 0]

Idle == [at |-> "idle", day |-> 0, value |-> NoQuotes]
Closed == [at |-> "closed", day |-> 0, value |-> NoQuotes]
Loading(d) == [at |-> "loading", day |-> d, value |-> NoQuotes]

(* Types; an object that waits for nothing holds neither a day nor quotes.  *)
TypeOK ==
    /\ today \in Days
    /\ attempt \in 0 .. LastDay /\ fetched \in 0 .. LastDay /\ asked \in 0 .. LastDay
    /\ payload \in Quotes
    /\ inst \in [Instances -> {Idle, Closed} \cup {Loading(d) : d \in Days}
                                \cup [at: {"compared"}, day: Days, value: Quotes]]
    /\ timer \in [Instances -> 0 .. LastDay + 1]
    /\ loads \in [Days -> Nat]

Init ==
    /\ today = 1
    /\ attempt = 0 /\ fetched = 0 /\ asked = 0
    /\ payload = NoQuotes
    /\ inst = [i \in Instances |-> Idle]
    /\ timer = [i \in Instances |-> 0]
    /\ loads = [d \in Days |-> 0]

-----------------------------------------------------------------------------
\* Mutant: a day may be claimed again.
ClaimableAgain(day) == attempt <= day
Claimable(day) == attempt < day

\* get, when no other call of it is pending: the claim is one statement.
ClaimDay(i) ==
    /\ inst[i] = Idle
    /\ Claimable(today)
    /\ attempt' = today
    /\ inst' = [inst EXCEPT ![i] = Loading(today)]
    /\ loads' = [loads EXCEPT ![today] = @ + 1]

Get(i) ==
    /\ ClaimDay(i)
    /\ UNCHANGED <<today, fetched, payload, timer, asked>>

\* A call that finds another one pending waits for that one's answer, one that
\* cannot claim reads what is there; the next tick is set in any case.
Tick(i, scheduled) ==
    /\ inst[i].at # "closed"
    /\ \/ ClaimDay(i)
       \/ ~(inst[i] = Idle /\ Claimable(today)) /\ UNCHANGED <<attempt, inst, loads>>
    /\ timer' = [timer EXCEPT ![i] = scheduled]
    /\ UNCHANGED <<today, fetched, payload, asked>>

Start(i) == timer[i] = 0 /\ Tick(i, today + 1)
Midnight(i) == timer[i] \in 1 .. today /\ Tick(i, today + 1)

\* A quote of the answer is not older than the cached one of its currency.
NotBackwards(value) ==
    \A c \in Currencies : value[c] # 0 => payload[c] <= value[c]

\* The bank answers, and the answer is compared with the cached row.  It may
\* have withdrawn the quotes of some currencies, and publish in any order.
Loaded(i, value) ==
    /\ inst[i].at = "loading"
    /\ value # NoQuotes /\ NotBackwards(value)
    /\ \A c \in Currencies : value[c] <= today
    /\ inst' = [inst EXCEPT ![i] = [at |-> "compared", day |-> inst[i].day, value |-> value]]
    /\ UNCHANGED <<today, attempt, fetched, payload, timer, loads, asked>>

\* Mutant: whichever day the row is claimed for.
OwnsTheRowAlways(i) == TRUE
OwnsTheRow(i) == attempt = inst[i].day

\* The day of the claim, not that of the answer.
DayStored(i) == inst[i].day

\* The update is a statement of its own, between which and the comparison
\* another process may write; it finds no row when the next day is claimed.
Store(i) ==
    /\ inst[i].at = "compared"
    /\ IF OwnsTheRow(i)
       THEN fetched' = DayStored(i) /\ payload' = inst[i].value /\ asked' = inst[i].day
       ELSE UNCHANGED <<fetched, payload, asked>>
    /\ inst' = [inst EXCEPT ![i] = Idle]
    /\ UNCHANGED <<today, attempt, timer, loads>>

\* No answer in time, not a valid one, one that goes back, or a busy file.
GiveUp(i) ==
    /\ inst[i].at \in {"loading", "compared"}
    /\ inst' = [inst EXCEPT ![i] = Idle]
    /\ UNCHANGED <<today, attempt, fetched, payload, timer, loads, asked>>

\* close, or the end of the process; an answer that comes later is dropped.
Close(i) ==
    /\ inst[i] # Closed
    /\ inst' = [inst EXCEPT ![i] = Closed]
    /\ timer' = [timer EXCEPT ![i] = 0]
    /\ UNCHANGED <<today, attempt, fetched, payload, loads, asked>>

\* A new process opens the file.
Open(i) ==
    /\ inst[i] = Closed
    /\ inst' = [inst EXCEPT ![i] = Idle]
    /\ UNCHANGED <<today, attempt, fetched, payload, timer, loads, asked>>

DayPasses ==
    /\ today < LastDay
    /\ today' = today + 1
    /\ UNCHANGED <<attempt, fetched, payload, inst, timer, loads, asked>>

Next ==
    \/ \E i \in Instances : Get(i) \/ Start(i) \/ Midnight(i) \/ Store(i) \/ GiveUp(i)
                              \/ Close(i) \/ Open(i)
    \/ \E i \in Instances, value \in Quotes : Loaded(i, value)
    \/ DayPasses

Spec == Init /\ [][Next]_vars

-----------------------------------------------------------------------------
(* Properties.                                                              *)

(* "At most one request a day by the gateway and the separate tool          *)
(* processes together", crashes and restarts included.                      *)
OneLoadPerDay == \A d \in Days : loads[d] <= 1

(* A reply without the notice that today's update failed (fetched_day is     *)
(* today) rests on quotes that were asked for today.                        *)
FreshMeansToday == fetched = asked

(* A slow answer of one day never replaces what a later day brought.        *)
FetchedNeverGoesBack == [][fetched <= fetched']_vars

(* A cached quote is only replaced by one the bank published later or at    *)
(* the same time, whoever wrote between the comparison and the update.      *)
QuotesNeverAge ==
    [][\A c \in Currencies : payload'[c] # 0 => payload[c] <= payload'[c]]_vars

=============================================================================
