--------------------------- MODULE ExpenseNumbers ---------------------------
(***************************************************************************)
(* The arithmetic of the bookkeeping plugin: the value of an amount written *)
(* as an expression, its conversion into another currency, the period of a  *)
(* query and the time of an expense, both in Singapore.                     *)
(*                                                                         *)
(* An amount is in hundredths, an instant in seconds since 1970.  What the  *)
(* parser makes of a text (operands, operators, dates) is where this starts. *)
(***************************************************************************)
EXTENDS Integers, SequencesExt, FiniteSetsExt

CONSTANTS
    Operands,       \* values of the numbers of an expression, in hundredths
    MaxOperands,    \* bound of an expression
    MaxMinor,       \* MAX_EZBOOKKEEPING_AMOUNT_MINOR
    Prices,         \* tables of quotes: a fraction <<n, d>> per currency, or None
    Days,           \* the days on which a message may be received or a query asked
    Dates, Clocks,  \* what a message may say: <<year, month, day>>, <<hour, minute>>
    None

VARIABLES
    expression,     \* operands and operators in turn
    sums,           \* the accumulators of the loop, or None
    minor,          \* the amount, or None when the expression has no exact one
    converted,      \* [from, to, table, amount] of a conversion
    reply           \* a question about a period or a time and its answer

nvars == <<expression, sums, minor, converted, reply>>

NumbersInit ==
    /\ expression = <<>> /\ sums = None /\ minor = None
    /\ converted = None /\ reply = None

-----------------------------------------------------------------------------
(* Amounts (bookkeeping-core.mjs).                                          *)

Additive(op) == op \in {"+", "-"}
Readable(v) == v \in 0 .. MaxMinor      \* zero is an operand, not an amount

FirstOperand(v) == [n |-> v, d |-> 100, sn |-> 0, sd |-> 1, sign |-> 1]

\* A finished product joins the sum, with the sign that stood before it.
Joined(s) == [n |-> s.sn * s.d + s.sign * s.n * s.sd, d |-> s.sd * s.d]

\* Mutant: the sign after the product decides instead of the one before.
FoldLateSign(s, op, v) ==
    CASE Additive(op) ->
            LET t == Joined([s EXCEPT !.sign = IF op = "+" THEN 1 ELSE -1])
            IN [n |-> v, d |-> 100, sn |-> t.n, sd |-> t.d, sign |-> 1]
      [] op = "/" -> IF v = 0 THEN None ELSE [s EXCEPT !.n = @ * 100, !.d = @ * v]
      [] op = "*" -> [s EXCEPT !.n = @ * v, !.d = @ * 100]

\* One turn of the loop: the operator and the operand behind it.
Fold(s, op, v) ==
    CASE Additive(op) -> [n |-> v, d |-> 100, sn |-> Joined(s).n, sd |-> Joined(s).d,
                          sign |-> IF op = "+" THEN 1 ELSE -1]
      [] op = "/" -> IF v = 0 THEN None ELSE [s EXCEPT !.n = @ * 100, !.d = @ * v]
      [] op = "*" -> [s EXCEPT !.n = @ * v, !.d = @ * 100]

\* No rounding: an expression that is not whole hundredths has no amount.
AmountOf(s) ==
    LET total == Joined(s)
        value == (total.n * 100) \div total.d
    IN IF s # None /\ (total.n * 100) % total.d = 0 /\ value \in 1 .. MaxMinor
       THEN value ELSE None

ReadFirst(v) ==
    /\ expression = <<>>
    /\ expression' = <<v>>
    /\ sums' = IF Readable(v) THEN FirstOperand(v) ELSE None
    /\ minor' = IF Readable(v) THEN AmountOf(FirstOperand(v)) ELSE None
    /\ UNCHANGED <<converted, reply>>

\* None is final: the code has returned.
ReadNext(op, v) ==
    /\ expression # <<>> /\ Len(expression) < 2 * MaxOperands - 1 /\ converted = None
    /\ expression' = expression \o <<op, v>>
    /\ LET s == IF sums = None \/ ~Readable(v) THEN None ELSE Fold(sums, op, v)
       IN sums' = s /\ minor' = (IF s = None THEN None ELSE AmountOf(s))
    /\ UNCHANGED <<converted, reply>>

-----------------------------------------------------------------------------
(* Conversion (currency.mjs).  The bank quotes yuan for 100 of a currency,   *)
(* the ledger what one unit of its base currency is worth.                  *)

RateFor(table, c) ==
    IF table.bank
    THEN IF c = "CNY" THEN <<1, 1>> ELSE <<100 * table.price[c][2], table.price[c][1]>>
    ELSE table.price[c]

Quoted(table, c) == (table.bank /\ c = "CNY") \/ table.price[c] # None

ConvertCurrencyAmount(amount, from, to, table) ==
    LET f == RateFor(table, from)
        t == RateFor(table, to)
        numerator == amount * t[1] * f[2]
        denominator == t[2] * f[1]
    IN CASE from = to -> amount
         [] from # to /\ Quoted(table, from) /\ Quoted(table, to) ->
                (2 * numerator + denominator) \div (2 * denominator)
         [] OTHER -> None

\* An amount that stands is converted.
Convert(from, to, table) ==
    /\ minor # None /\ converted = None
    /\ converted' = [from |-> from, to |-> to, table |-> table,
                     amount |-> ConvertCurrencyAmount(minor, from, to, table)]
    /\ UNCHANGED <<expression, sums, minor, reply>>

-----------------------------------------------------------------------------
(* The calendar of JavaScript.  Date.UTC carries months and days over; the   *)
(* parts of a Date are those of the day number.                             *)

DaySeconds == 86400
Offset == 8 * 3600          \* SINGAPORE_OFFSET_SECONDS
FutureTolerance == 5 * 60   \* FUTURE_CLOCK_TOLERANCE_SECONDS

Leap(y) == y % 4 = 0        \* from 1970 to 2037, the years TLC's integers allow
DaysBefore == <<0, 31, 59, 90, 120, 151, 181, 212, 243, 273, 304, 334>>

UTC(y, m, d) ==
    LET year == y + (m - 1) \div 12
        month == ((m - 1) % 12) + 1
    IN 365 * (year - 1970) + ((year - 1969) \div 4) + DaysBefore[month]
         + (IF month > 2 /\ Leap(year) THEN 1 ELSE 0) + d - 1

Parts(day) ==
    LET y == CHOOSE y \in 1970 + day \div 366 .. 1970 + day \div 365 : day \in UTC(y, 1, 1) .. UTC(y + 1, 1, 1) - 1
        m == CHOOSE m \in 1 .. 12 : day \in UTC(y, m, 1) .. UTC(y, m + 1, 1) - 1
    IN <<y, m, day - UTC(y, m, 1) + 1>>

Weekday(day) == (day + 4) % 7       \* 0 is a Sunday
Number(parts) == UTC(parts[1], parts[2], parts[3])
LocalDay(instant) == (instant + Offset) \div DaySeconds
LocalClock(instant) == (instant + Offset) % DaySeconds
Midnight(day) == day * DaySeconds - Offset

-----------------------------------------------------------------------------
(* The period of a query (expense-summary.mjs).                             *)

Periods == {"today", "this_week", "this_month", "last_month", "this_year"}

\* The first day and the day after the last, as in the branches of the code.
PeriodBounds(period, today) ==
    LET p == Parts(today)
        monday == today - ((Weekday(today) + 6) % 7)
    IN CASE period = "today"      -> <<today, today + 1>>
         [] period = "this_week"  -> <<monday, monday + 7>>
         [] period = "this_month" -> <<UTC(p[1], p[2], 1),
                IF p[2] = 12 THEN UTC(p[1] + 1, 1, 1) ELSE UTC(p[1], p[2] + 1, 1)>>
         [] period = "last_month" -> <<
                IF p[2] = 1 THEN UTC(p[1] - 1, 12, 1) ELSE UTC(p[1], p[2] - 1, 1),
                UTC(p[1], p[2], 1)>>
         [] period = "this_year"  -> <<UTC(p[1], 1, 1), UTC(p[1] + 1, 1, 1)>>

Between(bounds) == [start |-> Midnight(bounds[1]), end |-> Midnight(bounds[2]) - 1]

ResolveRange(period, now) ==
    /\ reply = None
    /\ reply' = [kind |-> period, now |-> now,
                 answer |-> Between(PeriodBounds(period, LocalDay(now)))]
    /\ UNCHANGED <<expression, sums, minor, converted>>

\* A date is one when the calendar gives its parts back.
IsDate(parts) == Parts(Number(parts)) = parts

ResolveCustomRange(from, to) ==
    /\ reply = None
    /\ reply' = [kind |-> "custom", from |-> from, to |-> to,
                 answer |-> IF IsDate(from) /\ IsDate(to) /\ Number(from) < Number(to) + 1
                            THEN Between(<<Number(from), Number(to) + 1>>) ELSE None]
    /\ UNCHANGED <<expression, sums, minor, converted>>

-----------------------------------------------------------------------------
(* The time of an expense (bookkeeping-core.mjs).                           *)

\* singaporeTimestamp: the parts must come back unchanged.
SingaporeTimestamp(date, clock) ==
    LET instant == Midnight(Number(date)) + clock[1] * 3600 + clock[2] * 60
    IN IF Parts(LocalDay(instant)) = date
          /\ <<LocalClock(instant) \div 3600, (LocalClock(instant) % 3600) \div 60>> = clock
       THEN instant ELSE None

\* Without a clock of its own an expense takes that of the message.  Only a
\* picture has seconds.
ResolveExplicit(received, date, clock, second) ==
    LET now == LocalClock(received)
        said == IF clock = None THEN <<now \div 3600, (now % 3600) \div 60>> ELSE clock
        instant == SingaporeTimestamp(date, said)
    IN IF instant = None \/ instant + second > received + FutureTolerance
       THEN None ELSE instant + second

ResolveExpenseTimestamp(received, date, clock, second) ==
    /\ reply = None
    /\ clock = None => second = 0
    /\ reply' = [kind |-> "explicit", received |-> received, date |-> date, clock |-> clock,
                 second |-> second, answer |-> ResolveExplicit(received, date, clock, second)]
    /\ UNCHANGED <<expression, sums, minor, converted>>

Instants == {Midnight(d) + s : d \in Days, s \in {0, 43230, DaySeconds - 1}}

NumbersNext ==
    \/ reply = None /\ \E v \in Operands : ReadFirst(v)
    \/ \E op \in {"+", "-", "*", "/"}, v \in Operands : ReadNext(op, v)
    \/ \E t \in Prices : \E from, to \in DOMAIN t.price : Convert(from, to, t)
    \/ /\ expression = <<>>
       /\ \/ \E p \in Periods, now \in Instants : ResolveRange(p, now)
          \/ \E from, to \in Dates : ResolveCustomRange(from, to)
          \/ \E received \in Instants, date \in Dates, clock \in Clocks, second \in {0, 59} :
                ResolveExpenseTimestamp(received, date, clock, second)

-----------------------------------------------------------------------------
(* Properties.                                                              *)

Product(f, S) == FoldFunctionOnSet(LAMBDA x, y : x * y, 1, f, S)
Total(f, S) == SumFunctionOnSet(f, S)

\* The operands of an expression by number, those at which a term begins, and
\* the operands of the term that begins at t.
Numbered(e) == 1 .. (Len(e) + 1) \div 2
Divides(e, i) == i > 1 /\ e[2 * i - 2] = "/"
Starts(e) == {i \in Numbered(e) : i = 1 \/ Additive(e[2 * i - 2])}
TermOf(e, t) == {i \in Numbered(e) : t <= i /\ Starts(e) \cap (t + 1) .. i = {}}

\* A term is the product of its factors and of the inverses of its divisors.
Signed(e) == [t \in Starts(e) |-> IF t > 1 /\ e[2 * t - 2] = "-" THEN -1 ELSE 1]
Over(e) == [t \in Starts(e) |->
    Product([i \in Numbered(e) |-> IF Divides(e, i) THEN 100 ELSE e[2 * i - 1]], TermOf(e, t))]
Under(e) == [t \in Starts(e) |->
    Product([i \in Numbered(e) |-> IF Divides(e, i) THEN e[2 * i - 1] ELSE 100], TermOf(e, t))]

\* The value of an expression, the sum of its terms, is a fraction.
Defined(e) == \A i \in Numbered(e) : Readable(e[2 * i - 1]) /\ ~(Divides(e, i) /\ e[2 * i - 1] = 0)
Numerator(e) == Total([t \in Starts(e) |-> Signed(e)[t] * Over(e)[t] * Product(Under(e), Starts(e) \ {t})],
                      Starts(e))
Denominator(e) == Product(Under(e), Starts(e))
Values(e) == LET n == Numerator(e)
                 d == Denominator(e)
             IN IF Defined(e) THEN {m \in 1 .. MaxMinor : m * d = 100 * n} ELSE {}

(* An amount is exactly the value of its expression, by the usual precedence *)
(* and never rounded; one that is a payable amount is not refused           *)
(* (expressionAmountToMinorUnits).                                          *)
AmountsAreExact ==
    expression # <<>> =>
        IF minor # None THEN minor \in Values(expression) ELSE Values(expression) = {}

\* What an amount is worth, as a fraction, from the meaning of the quotes.
Worth(c) ==
    LET yuan(x) == IF x = "CNY" THEN <<100, 1>> ELSE c.table.price[x]
        f == IF c.table.bank THEN yuan(c.from) ELSE c.table.price[c.to]
        t == IF c.table.bank THEN yuan(c.to) ELSE c.table.price[c.from]
    IN <<minor * f[1] * t[2], f[2] * t[1]>>

(* A conversion is the nearest hundredth, halves up, in either direction and *)
(* across; without both quotes there is none (convertCurrencyAmount).       *)
ConversionsAreNearest ==
    converted # None =>
        LET a == converted.amount
            w == Worth(converted)
        IN CASE converted.from = converted.to -> a = minor
             [] converted.from # converted.to /\ a # None ->
                    /\ 2 * a * w[2] <= 2 * w[1] + w[2]
                    /\ 2 * w[1] + w[2] < 2 * (a + 1) * w[2]
             [] OTHER -> \E c \in {converted.from, converted.to} :
                            /\ ~(converted.table.bank /\ c = "CNY")
                            /\ converted.table.price[c] = None

Window == Min(Days) - 366 .. Max(Days) + 366
DaysOf(y, m) == CASE m = 2 -> IF Leap(y) THEN 29 ELSE 28
                  [] m \in {4, 6, 9, 11} -> 30
                  [] OTHER -> 31
RealDate(p) == p[2] \in 1 .. 12 /\ p[3] \in 1 .. DaysOf(p[1], p[2])
NotAfter(p, q) == \/ p[1] < q[1]
                  \/ p[1] = q[1] /\ (p[2] < q[2] \/ (p[2] = q[2] /\ p[3] <= q[3]))

\* Whether a day belongs to the period that was asked for.
Wanted(r, day) ==
    LET p == Parts(day)
        t == Parts(LocalDay(r.now))
        months(q) == 12 * q[1] + q[2]
        SinceMonday(d) == (Weekday(d) + 6) % 7
    IN CASE r.kind = "today"      -> p = t
         [] r.kind = "this_week"  -> day - LocalDay(r.now) = SinceMonday(day) - SinceMonday(LocalDay(r.now))
         [] r.kind = "this_month" -> months(p) = months(t)
         [] r.kind = "last_month" -> months(p) = months(t) - 1
         [] r.kind = "this_year"  -> p[1] = t[1]
         [] r.kind = "custom"     -> NotAfter(r.from, p) /\ NotAfter(p, r.to)

(* A query covers whole days of Singapore, all of its period and no other,  *)
(* also across years and leap days (resolveExpenseRange).                   *)
RangesAreWhole ==
    reply # None /\ reply.kind # "explicit" =>
        IF reply.answer = None
        THEN ~RealDate(reply.from) \/ ~RealDate(reply.to) \/ ~NotAfter(reply.from, reply.to)
        ELSE /\ LocalClock(reply.answer.start) = 0 /\ LocalClock(reply.answer.end + 1) = 0
             /\ \A d \in Window : Wanted(reply, d) <=>
                    reply.answer.start <= Midnight(d) /\ Midnight(d + 1) - 1 <= reply.answer.end

(* An expense is booked at the date and the clock that were said, never at  *)
(* another that the calendar makes of them, and none that is still to come; *)
(* what can be booked is (resolveExpenseTimestamp).                         *)
TimesAreAsSaid ==
    reply # None /\ reply.kind = "explicit" =>
        LET minutes == IF reply.clock = None THEN LocalClock(reply.received) \div 60
                       ELSE 60 * reply.clock[1] + reply.clock[2]
            real == /\ RealDate(reply.date)
                    /\ reply.clock # None => reply.clock[1] \in 0 .. 23 /\ reply.clock[2] \in 0 .. 59
            instant == Midnight(Number(reply.date)) + 60 * minutes + reply.second
        IN IF reply.answer # None
           THEN /\ real /\ Parts(LocalDay(reply.answer)) = reply.date
                /\ LocalClock(reply.answer) = 60 * minutes + reply.second
                /\ reply.answer <= reply.received + FutureTolerance
           ELSE real => instant > reply.received + FutureTolerance

(* What is booked and what is counted are the numbers that were meant.      *)
NumbersAreRight == AmountsAreExact /\ ConversionsAreNearest /\ RangesAreWhole /\ TimesAreAsSaid
=============================================================================
