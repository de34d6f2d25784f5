------------------------------ MODULE MCTools ------------------------------
(***************************************************************************)
(* The tools of the plugin, for TLC: which message a call acts on, the      *)
(* questions it asks the ledger, and the numbers it computes.  They share   *)
(* no state, so one of five casts plays.  Three are of RunBinding, on two    *)
(* messages, two runs, three calls and two instances:                       *)
(*   "overlap"  both runs at once in one instance, with one tool call id   *)
(*              for both;                                                  *)
(*   "serial"   the second message arrives after the first run has ended;  *)
(*              hooks run in one instance, tools in either;                *)
(*   "abort"    one run with two calls in both instances, ended while its  *)
(*              tools are still to execute.                                *)
(* The first two keep to the order of the host: a run is not hooked after  *)
(* its end, it ends after its calls have started, and a call starts right  *)
(* after its hook.  Ages and expiry are played in "serial" and "abort": the  *)
(* clock stands still in "overlap", and no first message arrives later     *)
(* than the first instant.  The other two:                                 *)
(*   "questions"  one call with one or two questions about four expenses in *)
(*                three accounts, two of which have the same currency;      *)
(*   "numbers"    an expression and its conversion, a period, or a time.    *)
(***************************************************************************)
EXTENDS RunBinding, TLC

CONSTANTS inst1, m1, m2, r1, r2, k1, k2, k3, c1, c2
CONSTANTS bread, cab, bus, soup, cash, card, yen, food, travel,   \* expenses, accounts, categories
          MaxChanges, Top, Failed, NotAsked,
          Operands, MaxOperands, MaxMinor, Prices, Days, Dates, Clocks

VARIABLE cast
VARIABLES ledger, open, categories, changes, script, at, lists, pages, results, truth, seen
VARIABLES expression, sums, minor, converted, reply

-----------------------------------------------------------------------------
(* The questions.                                                           *)

Summary == [kind |-> "summary", currency |-> None, category |-> None, start |-> 1, end |-> 2,
            amount |-> None, targets |-> None]
Find == [kind |-> "find", currency |-> "SGD", category |-> None, start |-> 0, end |-> 3,
         amount |-> 5, limit |-> 1]
History == [kind |-> "history", currency |-> None, category |-> None, start |-> 0, end |-> 3,
            amount |-> None, limit |-> 2]
HistoryPage == [kind |-> "page", category |-> None, start |-> 0, end |-> 3, amount |-> None,
                limit |-> 2, number |-> 1]
Exchange == [kind |-> "exchange", from |-> "JPY", to |-> "SGD"]

Queries == INSTANCE ExpenseQueries WITH
    Account <- {cash, card, yen},
    CurrencyOf <- cash :> "SGD" @@ card :> "SGD" @@ yen :> "JPY",
    GroupOf <- cash :> "legacy" @@ card :> "multicurrency" @@ yen :> "multicurrency",
    Row <- {bread, cab, bus, soup},
    SequenceOf <- bread :> 10 @@ cab :> 20 @@ bus :> 21 @@ soup :> 30,
    AmountOf <- bread :> 5 @@ cab :> 3 @@ bus :> 5 @@ soup :> 5,
    CategoryOf <- bread :> food @@ cab :> travel @@ bus :> travel @@ soup :> food,
    Scripts <- {
        <<Summary, [Exchange EXCEPT !.to = "JPY"]>>,
        <<Exchange, [Summary EXCEPT !.currency = "JPY", !.targets = {"SGD", "USD"}, !.start = 0]>>,
        <<[Summary EXCEPT !.currency = "SGD", !.category = food, !.end = 3]>>,
        <<Find>>, <<History, [Find EXCEPT !.limit = 2]>>,
        <<HistoryPage>>, <<[HistoryPage EXCEPT !.number = 2, !.limit = 1]>>},
    QuoteSets <- {{"SGD", "JPY", "USD"}, {"SGD", "USD"}},
    OddAnswers <- {<<>>, << <<bread, None>> >>, << <<soup, cash>> >>,
                   << <<cab, yen>>, <<bus, cash>> >>, << <<bus, cash>>, <<bus, cash>> >>,
                   << <<soup, cash>>, <<bus, cash>>, <<bread, cash>> >>}

OneCall == at' # at => at \notin {"answered"}
Ledgers == {bread :> cash @@ cab :> cash @@ bus :> cash @@ soup :> cash,
            bread :> cash @@ cab :> yen @@ bus :> cash @@ soup :> card}

-----------------------------------------------------------------------------
(* The numbers.  A year with a leap day begins and February ends.           *)

MCDays == 19720 .. 19724 \cup 19780 .. 19783   \* 2023-12-29 to 2024-01-02, 2024-02-27 to 2024-03-01
MCDates == {<<2023, 2, 29>>, <<2023, 12, 31>>, <<2024, 1, 1>>, <<2024, 2, 28>>, <<2024, 2, 29>>,
            <<2024, 2, 30>>, <<2024, 3, 0>>, <<2024, 3, 1>>, <<2024, 13, 1>>}
MCClocks == {None, <<0, 0>>, <<11, 60>>, <<12, 1>>, <<23, 59>>, <<24, 0>>}
MCPrices == {[bank |-> TRUE, price |-> [CNY |-> None, SGD |-> <<1100, 2>>, JPY |-> <<7, 4>>]],
             [bank |-> TRUE, price |-> [CNY |-> None, SGD |-> <<11, 2>>, JPY |-> None]],
             [bank |-> FALSE, price |-> [CNY |-> <<11, 2>>, SGD |-> <<1, 1>>, JPY |-> None]]}

Numbers == INSTANCE ExpenseNumbers

\* Quotes are positive.  The days are at least two years after 1970, so that no
\* day that is looked at lies before it.
Fraction == {f \in Nat \X Nat : f[1] > 0 /\ f[2] > 0}
ASSUME NumbersAssumption ==
    /\ None \notin Int /\ None \notin [n : Int, d : Int, sn : Int, sd : Int, sign : Int]
    /\ None \notin [start : Int, end : Int]
    /\ Operands \subseteq Int /\ MaxMinor \in Nat
    /\ \A t \in Prices : /\ t.bank \in BOOLEAN
                         /\ \A c \in DOMAIN t.price : t.price[c] \in Fraction \cup {None}
    /\ Days # {} /\ IsFiniteSet(Days) /\ \A d \in Days : d \in Nat /\ d >= 730
    /\ Dates \subseteq {p \in Nat \X Nat \X Nat : p[1] > 1970}
    /\ Clocks \subseteq {None} \cup Nat \X Nat

qvars == <<ledger, open, categories, changes, script, at, lists, pages, results, truth, seen>>
nvars == <<expression, sums, minor, converted, reply>>

-----------------------------------------------------------------------------
(* The runs.                                                                *)

MCConv == [m \in {m1, m2} |-> "session"]
\* m2 is a picture with the words of m1, and the model is given the words last.
MCText == [m \in {m1, m2} |-> "lunch"]
MCPrompt == m1 :> "lunch" @@ m2 :> "image"
MCEnds == [m \in {m1, m2} |-> {"lunch"}]
MCMsgOf == r1 :> m1 @@ r2 :> m2
MCRunOf == k1 :> r1 @@ k2 :> r2 @@ k3 :> r1
MCIdOf == k1 :> c1 @@ k2 :> c1 @@ k3 :> c2

ASSUME CastAssumption == inst1 \in Instance /\ m1 \in Message

Playing == IF cast = "abort" THEN {k1, k3} ELSE {k1, k2}
ByHooks(i) == <<prepared[i], inboundByRun[i], unverified[i]>>

Others == Instance \ {inst1}
InOrder ==
    /\ \A k \in Call : /\ tomb'[RunOf[k]] # 0 => call'[k].stage # "hooked"
                       /\ call[k].stage = "hooked" => now' = now
                       /\ call[k].stage = "idle" /\ call'[k].stage = "hooked" =>
                             \A i \in Others : slots'[i] = slots[i]
    /\ \A i \in Others : ByHooks(i)' = ByHooks(i)
    /\ \A r \in Run : tomb[r] # 0 => /\ r \notin prepared'[inst1] \ prepared[inst1]
                                     /\ unverified'[inst1][r] \in {None, unverified[inst1][r]}
Serial == /\ received'[m1] # received[m1] => now = 1
          /\ \A m \in Message : received'[m] # received[m] =>
                 \A r \in Run : MsgOf[r] # m /\ received[MsgOf[r]] > 0 => tomb[r] # 0

Allowed ==
    /\ \A k \in Call \ Playing : call'[k].stage = "idle"
    /\ cast = "abort" => \A m \in Message : received'[m] # received[m] => m = m1 /\ now = 1
    /\ cast # "abort" => InOrder
    /\ cast = "serial" => Serial
    /\ cast = "overlap" => (\A i \in Others : slots'[i] = slots[i]) /\ now' = 1

MCInit ==
    /\ cast \in {"overlap", "serial", "abort", "questions", "numbers"}
    /\ Init /\ Queries!QueriesInit /\ Numbers!NumbersInit
    /\ ledger \in Ledgers
    /\ cast # "questions" => ledger[cab] = cash

MCNext ==
    /\ \/ cast \in {"overlap", "serial", "abort"} /\ Next /\ Allowed /\ UNCHANGED <<qvars, nvars>>
       \/ cast = "questions" /\ Queries!QueriesNext /\ OneCall /\ UNCHANGED <<vars, nvars>>
       \/ cast = "numbers" /\ Numbers!NumbersNext /\ UNCHANGED <<vars, qvars>>
    /\ UNCHANGED cast

MCSpec == MCInit /\ [][MCNext]_<<vars, qvars, nvars, cast>>

\* What TLC searches of it.  The instances are alike in "abort", so the first one
\* that is used there is inst1; the host names no run in "serial", as it may in the
\* other two.
Unused(i) == /\ prepared[i] = {} /\ \A d \in Id : slots[i][d] = None
             /\ \A r \in Run : /\ inboundByRun[i][r] = None /\ unverified[i][r] = None
                               /\ cached[i][r] = None
Searched == /\ cast = "serial" => runKeys' = {}
            /\ cast = "abort" /\ (\A i \in Instance : Unused(i)) =>
                   \A i \in Others : Unused(i)'

-----------------------------------------------------------------------------
(* What a question is told as found is what the ledger held when asked.     *)
AnswersAreTrue == Queries!AnswersAreTrue

(* What is booked and what is counted are the numbers that were meant.      *)
NumbersAreRight == Numbers!NumbersAreRight
=============================================================================
