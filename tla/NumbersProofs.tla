--------------------------- MODULE NumbersProofs ---------------------------
(***************************************************************************)
(* Proofs about the numbers that MCTools checks: ExpenseNumbers, for any    *)
(* operands, bounds, quotes, days, dates and clocks (NumbersAssumption).    *)
(* What is booked and counted are the numbers that were meant.  A day has   *)
(* one date and a date one day, since months and years follow each other;   *)
(* so the bounds of a period enclose its days and no others.  Products and  *)
(* sums over finite sets grow element by element.  The accumulators of the  *)
(* loop hold the last term of what has been read, and the sum of the terms  *)
(* before it.                                                              *)
(***************************************************************************)
EXTENDS MCTools, Integers, FiniteSetTheorems, SequenceTheorems, WellFoundedInduction, TLAPS

-----------------------------------------------------------------------------
(* The calendar.                                                           *)

\* Days before a month in a year.
MonthStart(y, m) == Numbers!DaysBefore[m] + (IF m > 2 /\ Numbers!Leap(y) THEN 1 ELSE 0)
YearStart(y) == 365 * (y - 1970) + ((y - 1969) \div 4)

\* Date.UTC of a date with a real month.
LEMMA UTCIs ==
    ASSUME NEW y \in Int, NEW m \in 1 .. 12, NEW d \in Int
    PROVE  /\ Numbers!UTC(y, m, d) = YearStart(y) + MonthStart(y, m) + d - 1
           /\ YearStart(y) \in Int /\ MonthStart(y, m) \in Int
<1>1. (m - 1) \div 12 = 0 /\ ((m - 1) % 12) + 1 = m
  OBVIOUS
<1>2. Numbers!DaysBefore[m] \in Int
  BY SMT DEF Numbers!DaysBefore
<1> QED BY <1>1, <1>2 DEF Numbers!UTC, YearStart, MonthStart, Numbers!Leap

\* A month begins where the one before ends.
LEMMA MonthsFollow ==
    ASSUME NEW y \in Int, NEW m \in 1 .. 12
    PROVE  /\ MonthStart(y, m) \in Int /\ Numbers!DaysOf(y, m) \in 28 .. 31
           /\ m < 12 => MonthStart(y, m + 1) = MonthStart(y, m) + Numbers!DaysOf(y, m)
           /\ m = 12 => YearStart(y + 1) = YearStart(y) + MonthStart(y, m) + Numbers!DaysOf(y, m)
<1>1. m \in {1, 2, 3, 4, 5, 6, 7, 8, 9, 10, 11, 12}
  OBVIOUS
<1>2. (y + 1 - 1969) \div 4 = ((y - 1969) \div 4) + IF y % 4 = 0 THEN 1 ELSE 0
  OBVIOUS
<1> QED BY <1>1, <1>2, SMTT(60) DEF MonthStart, YearStart, Numbers!DaysOf, Numbers!Leap, Numbers!DaysBefore

\* A month has ended when a later one of the year begins.
LEMMA MonthsAreOrdered ==
    ASSUME NEW y \in Int, NEW m \in 1 .. 12, NEW n \in 1 .. 12, m < n
    PROVE  MonthStart(y, m) + Numbers!DaysOf(y, m) <= MonthStart(y, n)
<1>1. m \in {1, 2, 3, 4, 5, 6, 7, 8, 9, 10, 11, 12} /\ n \in {1, 2, 3, 4, 5, 6, 7, 8, 9, 10, 11, 12}
  OBVIOUS
<1> QED BY <1>1, SMTT(60) DEF MonthStart, Numbers!DaysOf, Numbers!Leap, Numbers!DaysBefore

\* A year has ended when a later one begins.
LEMMA YearsAreOrdered ==
    ASSUME NEW y \in Int, NEW z \in Int, y < z
    PROVE  YearStart(y + 1) <= YearStart(z)
BY DEF YearStart

\* A month lies within its year.
LEMMA MonthsAreInTheYear ==
    ASSUME NEW y \in Int, NEW m \in 1 .. 12
    PROVE  /\ MonthStart(y, 1) = 0 /\ MonthStart(y, m) >= 0
           /\ YearStart(y) + MonthStart(y, m) + Numbers!DaysOf(y, m) <= YearStart(y + 1)
<1>1. MonthStart(y, 1) = 0 /\ MonthStart(y, m) >= 0
  <2>1. m \in {1, 2, 3, 4, 5, 6, 7, 8, 9, 10, 11, 12}
    OBVIOUS
  <2> QED BY <2>1, SMTT(60) DEF MonthStart, Numbers!Leap, Numbers!DaysBefore
<1>2. CASE m = 12
  <2>1. YearStart(y + 1) = YearStart(y) + MonthStart(y, m) + Numbers!DaysOf(y, m)
    BY <1>2, MonthsFollow
  <2>2. YearStart(y + 1) \in Int
    BY DEF YearStart
  <2> QED BY <1>1, <2>1, <2>2
<1>3. CASE m < 12
  <2>1. MonthStart(y, m) + Numbers!DaysOf(y, m) <= MonthStart(y, 12)
    BY <1>3, MonthsAreOrdered
  <2>2. /\ YearStart(y + 1) = YearStart(y) + MonthStart(y, 12) + Numbers!DaysOf(y, 12)
        /\ Numbers!DaysOf(y, 12) \in 28 .. 31 /\ MonthStart(y, 12) \in Int
        /\ Numbers!DaysOf(y, m) \in 28 .. 31 /\ MonthStart(y, m) \in Int
    <3>1. 12 \in 1 .. 12
      OBVIOUS
    <3>2. /\ YearStart(y + 1) = YearStart(y) + MonthStart(y, 12) + Numbers!DaysOf(y, 12)
          /\ Numbers!DaysOf(y, 12) \in 28 .. 31 /\ MonthStart(y, 12) \in Int
      BY <3>1, MonthsFollow
    <3>3. Numbers!DaysOf(y, m) \in 28 .. 31 /\ MonthStart(y, m) \in Int
      BY MonthsFollow
    <3> QED BY <3>2, <3>3
  <2>3. YearStart(y) \in Int
    BY DEF YearStart
  <2>4. YearStart(y) + MonthStart(y, m) + Numbers!DaysOf(y, m) <= YearStart(y + 1)
    BY ONLY <2>1, <2>2, <2>3
  <2> QED BY <1>1, <2>4
<1> QED BY <1>2, <1>3

\* A date of the calendar.
OfTheCalendar(y, m, d) == y \in Int /\ m \in 1 .. 12 /\ d \in 1 .. Numbers!DaysOf(y, m)
Before(y, m, d, z, n, e) == y < z \/ (y = z /\ (m < n \/ (m = n /\ d < e)))

\* Days are numbered in the order of their dates.
LEMMA DatesAreOrdered ==
    ASSUME NEW y, NEW m, NEW d, OfTheCalendar(y, m, d), NEW z, NEW n, NEW e, OfTheCalendar(z, n, e),
           Before(y, m, d, z, n, e)
    PROVE  Numbers!UTC(y, m, d) < Numbers!UTC(z, n, e)
<1>1. /\ y \in Int /\ m \in 1 .. 12 /\ d \in Int /\ z \in Int /\ n \in 1 .. 12 /\ e \in Int
      /\ d >= 1 /\ d <= Numbers!DaysOf(y, m) /\ e >= 1 /\ e <= Numbers!DaysOf(z, n)
      /\ Numbers!DaysOf(y, m) \in 28 .. 31 /\ Numbers!DaysOf(z, n) \in 28 .. 31
  <2>1. y \in Int /\ m \in 1 .. 12 /\ z \in Int /\ n \in 1 .. 12
    BY DEF OfTheCalendar
  <2>2. Numbers!DaysOf(y, m) \in 28 .. 31 /\ Numbers!DaysOf(z, n) \in 28 .. 31
    BY <2>1, MonthsFollow
  <2> QED BY <2>1, <2>2 DEF OfTheCalendar
<1>2. /\ Numbers!UTC(y, m, d) = YearStart(y) + MonthStart(y, m) + d - 1
      /\ Numbers!UTC(z, n, e) = YearStart(z) + MonthStart(z, n) + e - 1
      /\ YearStart(y) \in Int /\ MonthStart(y, m) \in Int /\ YearStart(z) \in Int /\ MonthStart(z, n) \in Int
  BY <1>1, UTCIs
<1>3. CASE y < z
  <2>1. YearStart(y) + MonthStart(y, m) + Numbers!DaysOf(y, m) <= YearStart(y + 1)
    BY <1>1, MonthsAreInTheYear
  <2>2. YearStart(y + 1) <= YearStart(z)
    BY <1>1, <1>3, YearsAreOrdered
  <2>3. MonthStart(z, n) >= 0 /\ YearStart(y + 1) \in Int
    <3>1. MonthStart(z, n) >= 0
      BY <1>1, MonthsAreInTheYear
    <3>2. YearStart(y + 1) \in Int
      BY <1>1 DEF YearStart
    <3> QED BY <3>1, <3>2
  <2>4. YearStart(y) + MonthStart(y, m) + d - 1 < YearStart(z) + MonthStart(z, n) + e - 1
    BY ONLY <1>1, <1>2, <2>1, <2>2, <2>3
  <2> QED BY <1>2, <2>4
<1>4. CASE y = z /\ m < n
  <2>1. MonthStart(y, m) + Numbers!DaysOf(y, m) <= MonthStart(z, n)
    BY <1>1, <1>4, MonthsAreOrdered
  <2> QED BY <1>1, <1>2, <1>4, <2>1
<1>5. CASE y = z /\ m = n /\ d < e
  BY <1>1, <1>2, <1>5
<1> QED BY <1>3, <1>4, <1>5 DEF Before

\* So a day has one date.
LEMMA OneDate ==
    ASSUME NEW y, NEW m, NEW d, OfTheCalendar(y, m, d), NEW z, NEW n, NEW e, OfTheCalendar(z, n, e)
    PROVE  /\ Numbers!UTC(y, m, d) \in Int
           /\ Numbers!UTC(y, m, d) = Numbers!UTC(z, n, e) => y = z /\ m = n /\ d = e
           /\ Numbers!UTC(y, m, d) <= Numbers!UTC(z, n, e) <=> ~Before(z, n, e, y, m, d)
<1>1. y \in Int /\ m \in 1 .. 12 /\ z \in Int /\ n \in 1 .. 12
  BY DEF OfTheCalendar
<1>2. Numbers!DaysOf(y, m) \in 28 .. 31 /\ Numbers!DaysOf(z, n) \in 28 .. 31
  BY <1>1, MonthsFollow
<1>3. d \in Int /\ e \in Int
  BY <1>2 DEF OfTheCalendar
<1>4. Numbers!UTC(y, m, d) \in Int /\ Numbers!UTC(z, n, e) \in Int
  <2>1. /\ Numbers!UTC(y, m, d) = YearStart(y) + MonthStart(y, m) + d - 1
        /\ YearStart(y) \in Int /\ MonthStart(y, m) \in Int
    BY <1>1, <1>3, UTCIs
  <2>2. /\ Numbers!UTC(z, n, e) = YearStart(z) + MonthStart(z, n) + e - 1
        /\ YearStart(z) \in Int /\ MonthStart(z, n) \in Int
    BY <1>1, <1>3, UTCIs
  <2> QED BY <1>3, <2>1, <2>2
<1>5. CASE Before(y, m, d, z, n, e)
  <2>1. Numbers!UTC(y, m, d) < Numbers!UTC(z, n, e)
    BY <1>5, DatesAreOrdered
  <2>2. ~Before(z, n, e, y, m, d) /\ ~(y = z /\ m = n /\ d = e)
    BY <1>1, <1>3, <1>5 DEF Before
  <2> QED BY <1>4, <2>1, <2>2
<1>6. CASE Before(z, n, e, y, m, d)
  <2>1. Numbers!UTC(z, n, e) < Numbers!UTC(y, m, d)
    BY <1>6, DatesAreOrdered
  <2> QED BY <1>4, <1>6, <2>1
<1>7. CASE ~Before(y, m, d, z, n, e) /\ ~Before(z, n, e, y, m, d)
  <2>1. y = z /\ m = n /\ d = e
    BY <1>1, <1>3, <1>7 DEF Before
  <2> QED BY <1>4, <1>7, <2>1
<1> QED BY <1>5, <1>6, <1>7

\* The first day of a month.
LEMMA MonthBegins ==
    ASSUME NEW y \in Int, NEW m \in 1 .. 12
    PROVE  /\ YearStart(y) \in Int /\ MonthStart(y, m) \in Int /\ Numbers!DaysOf(y, m) \in 28 .. 31
           /\ Numbers!UTC(y, m, 1) = YearStart(y) + MonthStart(y, m)
<1>1. PICK d \in Int : d = 1
  OBVIOUS
<1>2. /\ Numbers!UTC(y, m, d) = YearStart(y) + MonthStart(y, m) + d - 1
      /\ YearStart(y) \in Int /\ MonthStart(y, m) \in Int
  BY UTCIs
<1>3. Numbers!DaysOf(y, m) \in 28 .. 31
  BY MonthsFollow
<1>4. YearStart(y) + MonthStart(y, m) + d - 1 = YearStart(y) + MonthStart(y, m)
  BY <1>1, <1>2
<1> QED BY <1>1, <1>2, <1>3, <1>4

\* A month ends where the next begins, also in December.
LEMMA MonthEnds ==
    ASSUME NEW y \in Int, NEW m \in 1 .. 12
    PROVE  Numbers!UTC(y, m + 1, 1) = YearStart(y) + MonthStart(y, m) + Numbers!DaysOf(y, m)
<1>1. CASE m < 12
  <2>1. m + 1 \in 1 .. 12
    BY <1>1
  <2>2. Numbers!UTC(y, m + 1, 1) = YearStart(y) + MonthStart(y, m + 1)
    BY <2>1, MonthBegins
  <2>3. MonthStart(y, m + 1) = MonthStart(y, m) + Numbers!DaysOf(y, m)
    BY <1>1, MonthsFollow
  <2>4. /\ YearStart(y) \in Int /\ MonthStart(y, m) \in Int /\ Numbers!DaysOf(y, m) \in 28 .. 31
    BY MonthBegins
  <2> QED BY <2>2, <2>3, <2>4
<1>2. CASE m = 12
  <2>1. (m + 1 - 1) \div 12 = 1 /\ ((m + 1 - 1) % 12) + 1 = 1
    BY <1>2
  <2>2. Numbers!DaysBefore[1] = 0
    BY DEF Numbers!DaysBefore
  <2>3. Numbers!UTC(y, m + 1, 1) = YearStart(y + 1)
    BY <2>1, <2>2 DEF Numbers!UTC, YearStart
  <2> QED BY <1>2, <2>3, MonthsFollow
<1>3. m < 12 \/ m = 12
  OBVIOUS
<1> QED BY <1>1, <1>2, <1>3

\* The year that Parts looks for is found, and there is no other.
LEMMA YearOfDay ==
    ASSUME NEW day \in Nat
    PROVE  \E y \in 1970 + day \div 366 .. 1970 + day \div 365 :
              day \in Numbers!UTC(y, 1, 1) .. Numbers!UTC(y + 1, 1, 1) - 1
<1>1. PICK k \in Nat : k = (4 * day + 2) \div 1461
  OBVIOUS
<1>2. 1461 * k <= 4 * day + 2 /\ 4 * day + 2 < 1461 * k + 1461
  BY <1>1
<1>3. PICK q \in Nat, r \in Nat : q = (k + 1) \div 4 /\ k + 1 = 4 * q + r /\ r <= 3
  <2>1. k + 1 = 4 * ((k + 1) \div 4) + ((k + 1) % 4) /\ (k + 1) \div 4 \in Nat /\ (k + 1) % 4 \in 0 .. 3
    OBVIOUS
  <2> QED BY <2>1
<1>4. PICK q2 \in Nat : q2 = (k + 2) \div 4 /\ q2 = q + IF r = 3 THEN 1 ELSE 0
  BY <1>3
<1>5. 365 * k + q <= day /\ day < 365 * (k + 1) + q2
  BY <1>2, <1>3, <1>4
<1>6. day \div 366 <= k /\ k <= day \div 365
  <2>1. 365 * k <= day /\ day < 366 * (k + 1)
    BY <1>3, <1>4, <1>5
  <2> QED BY <2>1
<1>7. PICK y \in Int : y = 1970 + k
  OBVIOUS
<1>8. y \in 1970 + day \div 366 .. 1970 + day \div 365
  <2>1. day \div 366 \in Nat /\ day \div 365 \in Nat
    OBVIOUS
  <2> QED BY <1>6, <1>7, <2>1
<1>9. Numbers!UTC(y, 1, 1) = 365 * k + q /\ Numbers!UTC(y + 1, 1, 1) = 365 * (k + 1) + q2
  <2>1. MonthStart(y, 1) = 0 /\ MonthStart(y + 1, 1) = 0 /\ 1 \in 1 .. 12 /\ y + 1 \in Int
    <3>1. \A z \in Int : MonthStart(z, 1) = 0
      BY MonthsAreInTheYear
    <3> QED BY <3>1
  <2>2. Numbers!UTC(y, 1, 1) = YearStart(y) /\ Numbers!UTC(y + 1, 1, 1) = YearStart(y + 1)
    <3>1. \A z \in Int : YearStart(z) \in Int
      BY DEF YearStart
    <3>2. Numbers!UTC(y, 1, 1) = YearStart(y) + MonthStart(y, 1)
      BY <2>1, MonthBegins
    <3>3. Numbers!UTC(y + 1, 1, 1) = YearStart(y + 1) + MonthStart(y + 1, 1)
      BY <2>1, MonthBegins
    <3> QED BY <2>1, <3>1, <3>2, <3>3
  <2>3. YearStart(y) = 365 * k + q /\ YearStart(y + 1) = 365 * (k + 1) + q2
    BY <1>3, <1>4, <1>7 DEF YearStart
  <2> QED BY <2>2, <2>3
<1> QED BY <1>5, <1>8, <1>9

\* The month within it, likewise.
LEMMA MonthOfDay ==
    ASSUME NEW y \in Int, NEW day \in Int, YearStart(y) <= day, day < YearStart(y + 1)
    PROVE  \E m \in 1 .. 12 : day \in Numbers!UTC(y, m, 1) .. Numbers!UTC(y, m + 1, 1) - 1
<1>1. SUFFICES \E m \in 1 .. 12 : /\ YearStart(y) + MonthStart(y, m) <= day
                                  /\ day < YearStart(y) + MonthStart(y, m) + Numbers!DaysOf(y, m)
  <2>1. ASSUME NEW m \in 1 .. 12, YearStart(y) + MonthStart(y, m) <= day,
               day < YearStart(y) + MonthStart(y, m) + Numbers!DaysOf(y, m)
        PROVE  day \in Numbers!UTC(y, m, 1) .. Numbers!UTC(y, m + 1, 1) - 1
    <3>1. Numbers!UTC(y, m, 1) = YearStart(y) + MonthStart(y, m)
      BY MonthBegins
    <3>2. Numbers!UTC(y, m + 1, 1) = YearStart(y) + MonthStart(y, m) + Numbers!DaysOf(y, m)
      BY MonthEnds
    <3>3. /\ YearStart(y) \in Int /\ MonthStart(y, m) \in Int /\ Numbers!DaysOf(y, m) \in 28 .. 31
      BY MonthBegins
    <3> QED BY <2>1, <3>1, <3>2, <3>3
  <2> QED BY <2>1
<1>2. PICK r \in Int : r = day - YearStart(y)
  BY DEF YearStart
<1>3. r >= 0 /\ r < 365 + IF Numbers!Leap(y) THEN 1 ELSE 0
  BY <1>2 DEF YearStart, Numbers!Leap
<1>4. \E m \in {1, 2, 3, 4, 5, 6, 7, 8, 9, 10, 11, 12} :
         MonthStart(y, m) <= r /\ r < MonthStart(y, m) + Numbers!DaysOf(y, m)

  <2>1. Numbers!Leap(y) \in BOOLEAN
    BY DEF Numbers!Leap
  <2> QED BY <1>3, <2>1, SMTT(60) DEF MonthStart, Numbers!DaysOf, Numbers!DaysBefore
<1>5. PICK m \in 1 .. 12 : MonthStart(y, m) <= r /\ r < MonthStart(y, m) + Numbers!DaysOf(y, m)
  BY <1>4
<1>6. /\ YearStart(y) \in Int /\ MonthStart(y, m) \in Int /\ Numbers!DaysOf(y, m) \in 28 .. 31
  BY MonthBegins
<1> QED BY <1>2, <1>5, <1>6

\* The parts of a day are its date.
LEMMA PartsAre ==
    ASSUME NEW day \in Nat
    PROVE  \E y, m, d : /\ Numbers!Parts(day) = <<y, m, d>> /\ OfTheCalendar(y, m, d) /\ y >= 1970
                        /\ Numbers!UTC(y, m, d) = day
<1>1. PICK y : y = CHOOSE z \in 1970 + day \div 366 .. 1970 + day \div 365 :
                            day \in Numbers!UTC(z, 1, 1) .. Numbers!UTC(z + 1, 1, 1) - 1
  OBVIOUS
<1>2. /\ y \in 1970 + day \div 366 .. 1970 + day \div 365
      /\ day \in Numbers!UTC(y, 1, 1) .. Numbers!UTC(y + 1, 1, 1) - 1
  <2>1. \E z \in 1970 + day \div 366 .. 1970 + day \div 365 :
           day \in Numbers!UTC(z, 1, 1) .. Numbers!UTC(z + 1, 1, 1) - 1
    BY YearOfDay
  <2>2. PICK S : S = 1970 + day \div 366 .. 1970 + day \div 365
    OBVIOUS
  <2>3. y = CHOOSE z \in S : day \in Numbers!UTC(z, 1, 1) .. Numbers!UTC(z + 1, 1, 1) - 1
    BY <1>1, <2>2
  <2>4. \E z \in S : day \in Numbers!UTC(z, 1, 1) .. Numbers!UTC(z + 1, 1, 1) - 1
    BY <2>1, <2>2
  <2>5. y \in S /\ day \in Numbers!UTC(y, 1, 1) .. Numbers!UTC(y + 1, 1, 1) - 1
    BY ONLY <2>3, <2>4
  <2> QED BY <2>2, <2>5
<1>3. y \in Int /\ y >= 1970 /\ y + 1 \in Int
  <2>1. day \div 366 \in Nat /\ day \div 365 \in Nat
    OBVIOUS
  <2> QED BY <1>2, <2>1
<1>4. YearStart(y) <= day /\ day < YearStart(y + 1) /\ YearStart(y) \in Int
  <2>1. \A z \in Int : YearStart(z) \in Int /\ Numbers!UTC(z, 1, 1) = YearStart(z)
    <3> TAKE z \in Int
    <3>1. 1 \in 1 .. 12
      OBVIOUS
    <3>2. MonthStart(z, 1) = 0
      BY <3>1, MonthsAreInTheYear
    <3>3. YearStart(z) \in Int /\ Numbers!UTC(z, 1, 1) = YearStart(z) + MonthStart(z, 1)
      BY <3>1, MonthBegins
    <3> QED BY <3>2, <3>3
  <2>2. YearStart(y) \in Int /\ YearStart(y + 1) \in Int
    BY <1>3, <2>1
  <2> QED BY <1>2, <1>3, <2>1, <2>2
<1>5. PICK m : m = CHOOSE n \in 1 .. 12 : day \in Numbers!UTC(y, n, 1) .. Numbers!UTC(y, n + 1, 1) - 1
  OBVIOUS
<1>6. m \in 1 .. 12 /\ day \in Numbers!UTC(y, m, 1) .. Numbers!UTC(y, m + 1, 1) - 1
  BY <1>3, <1>4, <1>5, MonthOfDay
<1>7. PICK d : d = day - Numbers!UTC(y, m, 1) + 1
  OBVIOUS
<1>8. Numbers!Parts(day) = <<y, m, d>>
  BY <1>1, <1>5, <1>7 DEF Numbers!Parts
<1>9. /\ YearStart(y) \in Int /\ MonthStart(y, m) \in Int /\ Numbers!DaysOf(y, m) \in 28 .. 31
      /\ Numbers!UTC(y, m, 1) = YearStart(y) + MonthStart(y, m)
  <2>1. y \in Int /\ m \in 1 .. 12
    BY <1>3, <1>6
  <2> QED BY ONLY <2>1, MonthBegins
<1>10. Numbers!UTC(y, m + 1, 1) = YearStart(y) + MonthStart(y, m) + Numbers!DaysOf(y, m)
  BY <1>3, <1>6, MonthEnds
<1>11. d \in Int /\ d \in 1 .. Numbers!DaysOf(y, m)
  BY <1>6, <1>7, <1>9, <1>10
<1>12. Numbers!UTC(y, m, d) = day
  <2>1. Numbers!UTC(y, m, d) = YearStart(y) + MonthStart(y, m) + d - 1
    <3>1. y \in Int /\ m \in 1 .. 12 /\ d \in Int
      BY <1>3, <1>6, <1>11
    <3> QED BY ONLY <3>1, UTCIs
  <2> QED BY <1>7, <1>9, <2>1
<1> QED BY <1>3, <1>6, <1>8, <1>11, <1>12 DEF OfTheCalendar

\* And a date is the parts of its day.
LEMMA DateIsParts ==
    ASSUME NEW y, NEW m, NEW d, OfTheCalendar(y, m, d), Numbers!UTC(y, m, d) \in Nat
    PROVE  Numbers!Parts(Numbers!UTC(y, m, d)) = <<y, m, d>>
<1>1. PICK day \in Nat : day = Numbers!UTC(y, m, d)
  OBVIOUS
<1>2. PICK z, n, e : /\ Numbers!Parts(day) = <<z, n, e>> /\ OfTheCalendar(z, n, e)
                     /\ Numbers!UTC(z, n, e) = day
  BY PartsAre
<1>3. z = y /\ n = m /\ e = d
  BY <1>1, <1>2, OneDate
<1> QED BY <1>1, <1>2, <1>3

\* Whether a day lies before a month.
LEMMA MonthFrom ==
    ASSUME NEW y \in Int, NEW m \in 1 .. 12, NEW z, NEW n, NEW e, OfTheCalendar(z, n, e)
    PROVE  /\ Numbers!UTC(y, m, 1) \in Int /\ Numbers!UTC(z, n, e) \in Int
           /\ Numbers!UTC(y, m, 1) <= Numbers!UTC(z, n, e) <=> 12 * y + m <= 12 * z + n
<1>1. z \in Int /\ n \in 1 .. 12 /\ e \in Int /\ e >= 1
  <2>1. z \in Int /\ n \in 1 .. 12 /\ e \in 1 .. Numbers!DaysOf(z, n)
    BY DEF OfTheCalendar
  <2>2. Numbers!DaysOf(z, n) \in 28 .. 31
    BY <2>1, MonthBegins
  <2> QED BY <2>1, <2>2
<1>2. OfTheCalendar(y, m, 1)
  <2>1. Numbers!DaysOf(y, m) \in 28 .. 31
    BY MonthBegins
  <2> QED BY <2>1 DEF OfTheCalendar
<1>3. /\ Numbers!UTC(y, m, 1) \in Int /\ Numbers!UTC(z, n, e) \in Int
      /\ Numbers!UTC(y, m, 1) <= Numbers!UTC(z, n, e) <=> ~Before(z, n, e, y, m, 1)
  <2>1. Numbers!UTC(z, n, e) \in Int
    BY OneDate
  <2>2. PICK c : c = 1
    OBVIOUS
  <2>3. OfTheCalendar(y, m, c)
    BY <1>2, <2>2
  <2>4. /\ Numbers!UTC(y, m, c) \in Int
        /\ Numbers!UTC(y, m, c) <= Numbers!UTC(z, n, e) <=> ~Before(z, n, e, y, m, c)
    BY <2>3, OneDate
  <2> QED BY <2>1, <2>2, <2>4
<1>4. Before(z, n, e, y, m, 1) <=> 12 * z + n < 12 * y + m
  BY <1>1 DEF Before
<1> QED BY <1>1, <1>3, <1>4
-----------------------------------------------------------------------------
\* The clock of Singapore.
LEMMA ClockOfDay ==
    ASSUME NEW d \in Int, NEW s \in Nat, s < 86400
    PROVE  /\ Numbers!Midnight(d) \in Int
           /\ Numbers!LocalDay(Numbers!Midnight(d) + s) = d
           /\ Numbers!LocalClock(Numbers!Midnight(d) + s) = s
<1>1. Numbers!DaySeconds = 86400 /\ Numbers!Offset = 28800
  BY DEF Numbers!DaySeconds, Numbers!Offset
<1>2. Numbers!Midnight(d) = d * 86400 - 28800
  BY <1>1 DEF Numbers!Midnight
<1>3. (d * 86400 - 28800 + s + 28800) \div 86400 = d /\ (d * 86400 - 28800 + s + 28800) % 86400 = s
  OBVIOUS
<1> QED BY <1>1, <1>2, <1>3 DEF Numbers!LocalDay, Numbers!LocalClock

\* A range from the first day to before the last covers these days, and no part
\* of another.
LEMMA BoundsAreWhole ==
    ASSUME NEW f \in Int, NEW l \in Int, NEW a, a = Numbers!Between(<<f, l>>)
    PROVE  /\ a.start \in Int /\ a.end \in Int
           /\ Numbers!LocalClock(a.start) = 0 /\ Numbers!LocalClock(a.end + 1) = 0
           /\ \A day \in Int : (f <= day /\ day < l) <=>
                 (a.start <= Numbers!Midnight(day) /\ Numbers!Midnight(day + 1) - 1 <= a.end)
<1>1. a.start = Numbers!Midnight(f) /\ a.end = Numbers!Midnight(l) - 1
  BY DEF Numbers!Between
<1>2. \A d \in Int : Numbers!Midnight(d) = d * 86400 - 28800
  BY DEF Numbers!Midnight, Numbers!DaySeconds, Numbers!Offset
<1>3. a.start \in Int /\ a.end \in Int
  BY <1>1, <1>2
<1>4. Numbers!LocalClock(a.start) = 0 /\ Numbers!LocalClock(a.end + 1) = 0
  <2>1. a.start = f * 86400 - 28800 /\ a.end + 1 = l * 86400 - 28800
    BY <1>1, <1>2
  <2>2. (f * 86400 - 28800 + 28800) % 86400 = 0 /\ (l * 86400 - 28800 + 28800) % 86400 = 0
    OBVIOUS
  <2> QED BY <2>1, <2>2 DEF Numbers!LocalClock, Numbers!DaySeconds, Numbers!Offset
<1>5. ASSUME NEW day \in Int
      PROVE  (f <= day /\ day < l) <=>
                (a.start <= Numbers!Midnight(day) /\ Numbers!Midnight(day + 1) - 1 <= a.end)
  <2>1. /\ Numbers!Midnight(day) = day * 86400 - 28800 /\ a.start = f * 86400 - 28800
        /\ Numbers!Midnight(day + 1) = (day + 1) * 86400 - 28800 /\ a.end = l * 86400 - 28800 - 1
    BY <1>1, <1>2
  <2> QED BY <2>1
<1> QED BY <1>3, <1>4, <1>5

\* The bounds of a period are days, and a day is wanted when it lies between.
Spans(b, r) ==
    /\ b \in Int \X Int
    /\ \A day \in Nat : Numbers!Wanted(r, day) <=> b[1] <= day /\ day < b[2]

LEMMA PeriodSpans ==
    ASSUME NEW now_, NEW today \in Nat, Numbers!LocalDay(now_) = today, NEW period \in Numbers!Periods,
           NEW r, r.kind = period, r.now = now_
    PROVE  Spans(Numbers!PeriodBounds(period, today), r)
<1>1. PICK y, m, d : /\ Numbers!Parts(today) = <<y, m, d>> /\ OfTheCalendar(y, m, d) /\ y >= 1970
                     /\ Numbers!UTC(y, m, d) = today
  BY PartsAre
<1>2. y \in Int /\ m \in 1 .. 12
  BY <1>1 DEF OfTheCalendar
<1>3. PICK p : p = Numbers!Parts(today) /\ p[1] = y /\ p[2] = m
  BY <1>1
<1>4. ASSUME NEW z \in Int, NEW n \in 1 .. 12
      PROVE  Numbers!UTC(z, n, 1) \in Int
  <2>1. Numbers!UTC(z, n, 1) = YearStart(z) + MonthStart(z, n) /\ YearStart(z) \in Int /\ MonthStart(z, n) \in Int
    BY ONLY <1>4, MonthBegins
  <2> QED BY <2>1
<1>5. ASSUME NEW day \in Nat
      PROVE  \E z, n, e : /\ Numbers!Parts(day) = <<z, n, e>> /\ z \in Int /\ n \in 1 .. 12
                          /\ Numbers!UTC(z, n, e) = day
                          /\ \A x \in Int, k \in 1 .. 12 :
                                Numbers!UTC(x, k, 1) <= day <=> 12 * x + k <= 12 * z + n
  <2>1. PICK z, n, e : /\ Numbers!Parts(day) = <<z, n, e>> /\ OfTheCalendar(z, n, e) /\ z >= 1970
                       /\ Numbers!UTC(z, n, e) = day
    BY PartsAre
  <2>2. z \in Int /\ n \in 1 .. 12
    BY <2>1 DEF OfTheCalendar
  <2>3. ASSUME NEW x \in Int, NEW k \in 1 .. 12
        PROVE  Numbers!UTC(x, k, 1) <= day <=> 12 * x + k <= 12 * z + n
    <3>1. OfTheCalendar(z, n, e)
      BY <2>1
    <3>2. Numbers!UTC(x, k, 1) <= Numbers!UTC(z, n, e) <=> 12 * x + k <= 12 * z + n
      BY ONLY <2>3, <3>1, MonthFrom
    <3> QED BY <2>1, <3>2
  <2> QED BY <2>1, <2>2, <2>3
<1>6. CASE period = "today"
  <2>1. Numbers!PeriodBounds(period, today) = <<today, today + 1>>
    BY <1>6 DEF Numbers!PeriodBounds
  <2>2. ASSUME NEW day \in Nat
        PROVE  Numbers!Wanted(r, day) <=> day = today
    <3>1. Numbers!Wanted(r, day) <=> Numbers!Parts(day) = Numbers!Parts(today)
      BY <1>6 DEF Numbers!Wanted
    <3>2. PICK z, n, e : Numbers!Parts(day) = <<z, n, e>> /\ Numbers!UTC(z, n, e) = day
      <4>1. PICK z, n, e : Numbers!Parts(day) = <<z, n, e>> /\ OfTheCalendar(z, n, e) /\ Numbers!UTC(z, n, e) = day
        BY PartsAre
      <4> QED BY <4>1
    <3> QED BY <1>1, <3>1, <3>2
  <2> QED BY <2>1, <2>2 DEF Spans
<1>7. CASE period = "this_week"
  <2>1. PICK monday \in Int : monday = today - ((Numbers!Weekday(today) + 6) % 7)
    BY DEF Numbers!Weekday
  <2>2. Numbers!PeriodBounds(period, today) = <<monday, monday + 7>>
    BY <1>7, <2>1 DEF Numbers!PeriodBounds
  <2>3. ASSUME NEW day \in Nat
        PROVE  Numbers!Wanted(r, day) <=> monday <= day /\ day < monday + 7
    <3>1. Numbers!Wanted(r, day) <=>
            day - today = ((Numbers!Weekday(day) + 6) % 7) - ((Numbers!Weekday(today) + 6) % 7)
      BY <1>7 DEF Numbers!Wanted
    <3>2. Numbers!Weekday(day) = (day + 4) % 7 /\ Numbers!Weekday(today) = (today + 4) % 7
      BY DEF Numbers!Weekday
    <3>3. PICK s \in 0 .. 6, t \in 0 .. 6 : /\ s = ((Numbers!Weekday(day) + 6) % 7)
                                            /\ t = ((Numbers!Weekday(today) + 6) % 7)
      BY <3>2
    <3>4. (day + 3 - s) % 7 = 0 /\ (today + 3 - t) % 7 = 0
      BY <3>2, <3>3
    <3>5. day - s = today - t <=> today - t <= day /\ day < today - t + 7
      BY <3>4
    <3> QED BY <2>1, <3>1, <3>3, <3>5
  <2> QED BY <2>1, <2>2, <2>3 DEF Spans
<1>8. CASE period \in {"this_month", "last_month", "this_year"}
  <2>2. \E x, z \in Int, k, n \in 1 .. 12 :
           /\ Numbers!PeriodBounds(period, today) = <<Numbers!UTC(x, k, 1), Numbers!UTC(z, n, 1)>>
           /\ CASE period = "this_month" -> 12 * x + k = 12 * y + m /\ 12 * z + n = 12 * y + m + 1
                [] period = "last_month" -> 12 * x + k = 12 * y + m - 1 /\ 12 * z + n = 12 * y + m
                [] period = "this_year"  -> 12 * x + k = 12 * y + 1 /\ 12 * z + n = 12 * y + 13
    <3>1. CASE period = "this_month"
      <4>1. PICK z \in Int, n \in 1 .. 12 : /\ z = (IF m = 12 THEN y + 1 ELSE y) /\ n = (IF m = 12 THEN 1 ELSE m + 1)
                                            /\ 12 * z + n = 12 * y + m + 1
        BY <1>2
      <4>2. Numbers!PeriodBounds(period, today) = <<Numbers!UTC(y, m, 1), Numbers!UTC(z, n, 1)>>
        BY <1>2, <1>3, <3>1, <4>1 DEF Numbers!PeriodBounds
      <4> QED BY <1>2, <3>1, <4>1, <4>2
    <3>2. CASE period = "last_month"
      <4>1. PICK x \in Int, k \in 1 .. 12 : /\ x = (IF m = 1 THEN y - 1 ELSE y) /\ k = (IF m = 1 THEN 12 ELSE m - 1)
                                            /\ 12 * x + k = 12 * y + m - 1
        BY <1>2
      <4>2. Numbers!PeriodBounds(period, today) = <<Numbers!UTC(x, k, 1), Numbers!UTC(y, m, 1)>>
        BY <1>2, <1>3, <3>2, <4>1 DEF Numbers!PeriodBounds
      <4> QED BY <1>2, <3>2, <4>1, <4>2
    <3>3. CASE period = "this_year"
      <4>1. PICK z \in Int, k \in 1 .. 12 : z = y + 1 /\ k = 1 /\ 12 * z + k = 12 * y + 13
        BY <1>2
      <4>2. Numbers!PeriodBounds(period, today) = <<Numbers!UTC(y, k, 1), Numbers!UTC(z, k, 1)>>
        BY <1>2, <1>3, <3>3, <4>1 DEF Numbers!PeriodBounds
      <4> QED BY <1>2, <3>3, <4>1, <4>2
    <3> QED BY <1>8, <3>1, <3>2, <3>3
  <2>3. PICK x \in Int, z \in Int, k \in 1 .. 12, n \in 1 .. 12 :
           /\ Numbers!PeriodBounds(period, today) = <<Numbers!UTC(x, k, 1), Numbers!UTC(z, n, 1)>>
           /\ CASE period = "this_month" -> 12 * x + k = 12 * y + m /\ 12 * z + n = 12 * y + m + 1
                [] period = "last_month" -> 12 * x + k = 12 * y + m - 1 /\ 12 * z + n = 12 * y + m
                [] period = "this_year"  -> 12 * x + k = 12 * y + 1 /\ 12 * z + n = 12 * y + 13
    BY <2>2
  <2>4. Numbers!UTC(x, k, 1) \in Int /\ Numbers!UTC(z, n, 1) \in Int
    BY <1>4
  <2>5. ASSUME NEW day \in Nat
        PROVE  Numbers!Wanted(r, day) <=> Numbers!UTC(x, k, 1) <= day /\ day < Numbers!UTC(z, n, 1)
    <3>1. PICK dy, dm, dd : /\ Numbers!Parts(day) = <<dy, dm, dd>> /\ dy \in Int /\ dm \in 1 .. 12
                            /\ \A v \in Int, w \in 1 .. 12 :
                                  Numbers!UTC(v, w, 1) <= day <=> 12 * v + w <= 12 * dy + dm
      BY <1>5
    <3>2. PICK q : q = Numbers!Parts(day) /\ q[1] = dy /\ q[2] = dm
      BY <3>1
    <3>3. Numbers!UTC(x, k, 1) <= day <=> 12 * x + k <= 12 * dy + dm
      BY <3>1
    <3>4. day < Numbers!UTC(z, n, 1) <=> 12 * dy + dm < 12 * z + n
      <4>1. Numbers!UTC(z, n, 1) <= day <=> 12 * z + n <= 12 * dy + dm
        BY <3>1
      <4>2. 12 * dy + dm \in Int /\ 12 * z + n \in Int
        BY <3>1
      <4> QED BY <2>4, <4>1, <4>2
    <3>5. Numbers!Wanted(r, day) <=>
             CASE period = "this_month" -> 12 * dy + dm = 12 * y + m
               [] period = "last_month" -> 12 * dy + dm = 12 * y + m - 1
               [] period = "this_year"  -> dy = y
      <4>1. Numbers!Parts(Numbers!LocalDay(r.now)) = p
        BY <1>3
      <4>2. CASE period = "this_month"
        <5>1. Numbers!Wanted(r, day) <=> 12 * q[1] + q[2] = 12 * p[1] + p[2]
          BY <3>2, <4>1, <4>2 DEF Numbers!Wanted
        <5> QED BY <1>3, <3>2, <4>2, <5>1
      <4>3. CASE period = "last_month"
        <5>1. Numbers!Wanted(r, day) <=> 12 * q[1] + q[2] = 12 * p[1] + p[2] - 1
          <6>1. p[1] \in Int /\ p[2] \in Int /\ q[1] \in Int /\ q[2] \in Int
            BY <1>2, <1>3, <3>1, <3>2
          <6> QED BY <3>2, <4>1, <4>3, <6>1 DEF Numbers!Wanted
        <5> QED BY <1>3, <3>2, <4>3, <5>1
      <4>4. CASE period = "this_year"
        <5>1. Numbers!Wanted(r, day) <=> q[1] = p[1]
          BY <3>2, <4>1, <4>4 DEF Numbers!Wanted
        <5> QED BY <1>3, <3>2, <4>4, <5>1
      <4> QED BY <1>8, <4>2, <4>3, <4>4
    <3>6. CASE period = "this_month"
      BY <1>2, <2>3, <3>1, <3>3, <3>4, <3>5, <3>6
    <3>7. CASE period = "last_month"
      BY <1>2, <2>3, <3>1, <3>3, <3>4, <3>5, <3>7
    <3>8. CASE period = "this_year"
      BY <1>2, <2>3, <3>1, <3>3, <3>4, <3>5, <3>8
    <3> QED BY <1>8, <3>6, <3>7, <3>8
  <2> QED BY <2>3, <2>4, <2>5 DEF Spans
<1> QED BY <1>6, <1>7, <1>8 DEF Numbers!Periods

\* The same of a range between two dates.
LEMMA RealIsOfTheCalendar ==
    ASSUME NEW p \in Nat \X Nat \X Nat
    PROVE  Numbers!RealDate(p) <=> OfTheCalendar(p[1], p[2], p[3])
BY DEF Numbers!RealDate, OfTheCalendar

\* The day of what was said as a date.
LEMMA DateIsADay ==
    ASSUME NEW p \in Nat \X Nat \X Nat, p[1] > 1970
    PROVE  Numbers!Number(p) \in Nat
<1>1. PICK y \in Nat, m \in Nat, d \in Nat : y = p[1] /\ m = p[2] /\ d = p[3] /\ y >= 1971
  OBVIOUS
<1>2. PICK v \in Int : v = (m - 1) \div 12 /\ v >= -1
  OBVIOUS
<1>3. PICK w \in 1 .. 12 : w = ((m - 1) % 12) + 1 /\ 12 * v + w = m
  BY <1>2
<1>4. PICK x \in Int : x = y + v
  OBVIOUS
<1>5. Numbers!Number(p) = 365 * (x - 1970) + ((x - 1969) \div 4) + MonthStart(x, w) + d - 1
  <2>1. Numbers!DaysBefore[w] \in Int
    BY DEF Numbers!DaysBefore
  <2> QED BY <1>1, <1>2, <1>3, <1>4, <2>1 DEF Numbers!Number, Numbers!UTC, MonthStart
<1>6. MonthStart(x, w) \in Int /\ MonthStart(x, w) >= 0
  <2>1. MonthStart(x, w) >= 0
    BY MonthsAreInTheYear
  <2>2. MonthStart(x, w) \in Int
    BY DEF MonthStart, Numbers!DaysBefore
  <2> QED BY <2>1, <2>2
<1>7. CASE v >= 0
  BY <1>1, <1>4, <1>5, <1>6, <1>7
<1>8. CASE v = -1
  <2>1. w = 12
    BY <1>3, <1>8
  <2>2. MonthStart(x, w) >= 300
    BY <2>1 DEF MonthStart, Numbers!DaysBefore
  <2> QED BY <1>1, <1>4, <1>5, <1>6, <1>8, <2>2
<1> QED BY <1>2, <1>7, <1>8

\* What is a date of the calendar is accepted as one, and nothing else.
LEMMA DatesAreReal ==
    ASSUME NEW p \in Nat \X Nat \X Nat, p[1] > 1970
    PROVE  Numbers!IsDate(p) <=> Numbers!RealDate(p)
<1>1. Numbers!Number(p) \in Nat
  BY DateIsADay
<1>2. p = <<p[1], p[2], p[3]>>
  OBVIOUS
<1>3. Numbers!Number(p) = Numbers!UTC(p[1], p[2], p[3])
  BY DEF Numbers!Number
<1>4. ASSUME Numbers!RealDate(p)
      PROVE  Numbers!IsDate(p)
  <2>1. OfTheCalendar(p[1], p[2], p[3])
    BY <1>4, RealIsOfTheCalendar
  <2>2. Numbers!Parts(Numbers!UTC(p[1], p[2], p[3])) = <<p[1], p[2], p[3]>>
    BY <1>1, <1>3, <2>1, DateIsParts
  <2> QED BY <1>2, <1>3, <2>2 DEF Numbers!IsDate
<1>5. ASSUME Numbers!IsDate(p)
      PROVE  Numbers!RealDate(p)
  <2>1. PICK y, m, d : /\ Numbers!Parts(Numbers!Number(p)) = <<y, m, d>> /\ OfTheCalendar(y, m, d) /\ y >= 1970
                       /\ Numbers!UTC(y, m, d) = Numbers!Number(p)
    BY <1>1, PartsAre
  <2>2. p = <<y, m, d>>
    BY <1>5, <2>1 DEF Numbers!IsDate
  <2>3. p[1] = y /\ p[2] = m /\ p[3] = d
    BY <2>2
  <2> QED BY <2>1, <2>3, RealIsOfTheCalendar
<1> QED BY <1>4, <1>5

LEMMA DatesSpan ==
    ASSUME NEW p \in Nat \X Nat \X Nat, p[1] > 1970, NEW q \in Nat \X Nat \X Nat, q[1] > 1970,
           Numbers!RealDate(p), Numbers!RealDate(q),
           NEW r, r.kind = "custom", r.from = p, r.to = q
    PROVE  /\ Spans(<<Numbers!Number(p), Numbers!Number(q) + 1>>, r)
           /\ Numbers!Number(p) <= Numbers!Number(q) <=> Numbers!NotAfter(p, q)
<1>1. Numbers!Number(p) \in Nat /\ Numbers!Number(q) \in Nat
  BY DateIsADay
<1>2. ASSUME NEW x, NEW y, x = <<x[1], x[2], x[3]>>, y = <<y[1], y[2], y[3]>>,
             OfTheCalendar(x[1], x[2], x[3]), OfTheCalendar(y[1], y[2], y[3])
      PROVE  Numbers!Number(x) <= Numbers!Number(y) <=> Numbers!NotAfter(x, y)
  <2>1. Numbers!Number(x) <= Numbers!Number(y) <=> ~Before(y[1], y[2], y[3], x[1], x[2], x[3])
    BY <1>2, OneDate DEF Numbers!Number
  <2>2. /\ x[1] \in Int /\ x[2] \in 1 .. 12 /\ x[3] \in 1 .. Numbers!DaysOf(x[1], x[2])
        /\ y[1] \in Int /\ y[2] \in 1 .. 12 /\ y[3] \in 1 .. Numbers!DaysOf(y[1], y[2])
    BY <1>2 DEF OfTheCalendar
  <2>3. Numbers!DaysOf(x[1], x[2]) \in 28 .. 31 /\ Numbers!DaysOf(y[1], y[2]) \in 28 .. 31
    BY <2>2, MonthsFollow
  <2>4. x[3] \in Int /\ y[3] \in Int
    BY <2>2, <2>3
  <2> QED BY <2>1, <2>2, <2>4 DEF Before, Numbers!NotAfter
<1>3. /\ p = <<p[1], p[2], p[3]>> /\ q = <<q[1], q[2], q[3]>>
      /\ OfTheCalendar(p[1], p[2], p[3]) /\ OfTheCalendar(q[1], q[2], q[3])
  BY RealIsOfTheCalendar
<1>4. ASSUME NEW day \in Nat
      PROVE  Numbers!Wanted(r, day) <=> Numbers!Number(p) <= day /\ day < Numbers!Number(q) + 1
  <2>1. PICK y, m, d : /\ Numbers!Parts(day) = <<y, m, d>> /\ OfTheCalendar(y, m, d) /\ y >= 1970
                       /\ Numbers!UTC(y, m, d) = day
    BY PartsAre
  <2>2. PICK x : x = Numbers!Parts(day)
    OBVIOUS
  <2>3. /\ x = <<x[1], x[2], x[3]>> /\ OfTheCalendar(x[1], x[2], x[3]) /\ Numbers!Number(x) = day
        /\ Numbers!Parts(day) = x
    BY <2>1, <2>2 DEF Numbers!Number
  <2>4. Numbers!Number(p) <= day <=> Numbers!NotAfter(p, x)
    BY <1>2, <1>3, <2>3
  <2>5. day <= Numbers!Number(q) <=> Numbers!NotAfter(x, q)
    BY <1>2, <1>3, <2>3
  <2>6. Numbers!Wanted(r, day) <=> Numbers!NotAfter(p, x) /\ Numbers!NotAfter(x, q)
    BY <2>3 DEF Numbers!Wanted
  <2> QED BY <1>1, <2>4, <2>5, <2>6
<1>5. Numbers!Number(p) <= Numbers!Number(q) <=> Numbers!NotAfter(p, q)
  BY <1>2, <1>3
<1> QED BY <1>1, <1>4, <1>5 DEF Spans

\* The least of some numbers.
LEMMA LeastIs ==
    ASSUME NEW S \in SUBSET Nat, S # {}
    PROVE  Numbers!Min(S) \in S /\ \A y \in S : Numbers!Min(S) <= y
<1>1. \E x \in S : \A y \in S : ~(<<y, x>> \in OpToRel(<, Nat))
  BY NatLessThanWellFounded, WFMin
<1>2. \E x \in S : \A y \in S : x <= y
  <2>1. PICK x \in S : \A y \in S : ~(<<y, x>> \in OpToRel(<, Nat))
    BY <1>1
  <2>2. ASSUME NEW y \in S PROVE x <= y
    <3>1. x \in Nat /\ y \in Nat /\ <<y, x>> \in Nat \X Nat
      OBVIOUS
    <3>2. ~(<<y, x>>[1] < <<y, x>>[2])
      BY <2>1, <3>1 DEF OpToRel
    <3> QED BY <3>1, <3>2
  <2> QED BY <2>2
<1> QED BY <1>2 DEF Numbers!Min

-----------------------------------------------------------------------------
\* The days that are looked at are not before 1970.
LEMMA WindowIsInTime == \A day \in Numbers!Window : day \in Nat
<1>1. Days \in SUBSET Nat /\ Days # {} /\ \A d \in Days : d >= 730
  BY NumbersAssumption DEF NumbersAssumption
<1>2. PICK k : k = Numbers!Min(Days)
  OBVIOUS
<1>3. k \in Days
  BY <1>1, <1>2, LeastIs
<1>4. k \in Nat /\ k >= 730
  BY <1>1, <1>3
<1>5. PICK x : x = Numbers!Max(Days) + 366
  OBVIOUS
<1>6. ASSUME NEW day, day \in (k - 366) .. x PROVE day \in Nat
  <2>1. day \in Int /\ k - 366 <= day
    BY <1>4, <1>6
  <2> QED BY <1>4, <2>1
<1> QED BY <1>2, <1>5, <1>6 DEF Numbers!Window

\* When a message may come.
LEMMA InstantIs ==
    ASSUME NEW i \in Numbers!Instants
    PROVE  \E d \in Nat, s \in Nat : /\ s < 86400 /\ d >= 730 /\ i = Numbers!Midnight(d) + s
                                     /\ i \in Int /\ Numbers!LocalDay(i) = d /\ Numbers!LocalClock(i) = s
<1>1. Numbers!DaySeconds = 86400
  BY DEF Numbers!DaySeconds
<1>2. PICK d \in Days, s \in {0, 43230, Numbers!DaySeconds - 1} : i = Numbers!Midnight(d) + s
  BY DEF Numbers!Instants
<1>3. d \in Nat /\ d >= 730
  BY NumbersAssumption DEF NumbersAssumption
<1>4. s \in Nat /\ s < 86400
  BY <1>1, <1>2
<1>5. /\ Numbers!Midnight(d) \in Int /\ Numbers!LocalDay(Numbers!Midnight(d) + s) = d
      /\ Numbers!LocalClock(Numbers!Midnight(d) + s) = s
  BY <1>3, <1>4, ClockOfDay
<1> QED BY <1>2, <1>3, <1>4, <1>5

\* An answer with bounds that span what was asked for is as RangesAreWhole says.
LEMMA SpansAreWhole ==
    ASSUME NEW b, NEW r, Spans(b, r), r.answer = Numbers!Between(b)
    PROVE  /\ r.answer # None
           /\ Numbers!LocalClock(r.answer.start) = 0 /\ Numbers!LocalClock(r.answer.end + 1) = 0
           /\ \A d \in Numbers!Window : Numbers!Wanted(r, d) <=>
                  r.answer.start <= Numbers!Midnight(d) /\ Numbers!Midnight(d + 1) - 1 <= r.answer.end
<1>1. PICK f \in Int, l \in Int : b = <<f, l>> /\ b[1] = f /\ b[2] = l
  BY DEF Spans
<1>2. PICK a : a = r.answer
  OBVIOUS
<1>3. a = Numbers!Between(<<f, l>>)
  BY <1>1, <1>2
<1>4. /\ a.start \in Int /\ a.end \in Int
      /\ Numbers!LocalClock(a.start) = 0 /\ Numbers!LocalClock(a.end + 1) = 0
      /\ \A day \in Int : (f <= day /\ day < l) <=>
             (a.start <= Numbers!Midnight(day) /\ Numbers!Midnight(day + 1) - 1 <= a.end)
  BY <1>3, BoundsAreWhole
<1>5. a \in [start : Int, end : Int]
  <2>1. a = [start |-> Numbers!Midnight(f), end |-> Numbers!Midnight(l) - 1]
    BY <1>1, <1>3 DEF Numbers!Between
  <2> QED BY <1>4, <2>1
<1>6. a # None
  BY <1>5, NumbersAssumption DEF NumbersAssumption
<1>7. ASSUME NEW d \in Numbers!Window
      PROVE  Numbers!Wanted(r, d) <=> a.start <= Numbers!Midnight(d) /\ Numbers!Midnight(d + 1) - 1 <= a.end
  <2>1. d \in Nat
    BY WindowIsInTime
  <2>2. Numbers!Wanted(r, d) <=> f <= d /\ d < l
    BY <1>1, <2>1 DEF Spans
  <2> QED BY <1>4, <2>1, <2>2
<1> QED BY <1>2, <1>4, <1>6, <1>7

\* A period that was asked for.
LEMMA PeriodsAreWhole ==
    ASSUME NEW period \in Numbers!Periods, NEW i \in Numbers!Instants, Numbers!ResolveRange(period, i)
    PROVE  Numbers!RangesAreWhole'
<1>1. PICK r : r = reply'
  OBVIOUS
<1>2. /\ r.kind = period /\ r.now = i
      /\ r.answer = Numbers!Between(Numbers!PeriodBounds(period, Numbers!LocalDay(i)))
  BY <1>1 DEF Numbers!ResolveRange
<1>3. Numbers!LocalDay(i) \in Nat
  BY InstantIs
<1>4. PICK b : b = Numbers!PeriodBounds(period, Numbers!LocalDay(i))
  OBVIOUS
<1>5. Spans(b, r)
  BY <1>2, <1>3, <1>4, PeriodSpans
<1>6. r.answer = Numbers!Between(b)
  BY <1>2, <1>4
<1>7. /\ r.answer # None
      /\ Numbers!LocalClock(r.answer.start) = 0 /\ Numbers!LocalClock(r.answer.end + 1) = 0
      /\ \A d \in Numbers!Window : Numbers!Wanted(r, d) <=>
             r.answer.start <= Numbers!Midnight(d) /\ Numbers!Midnight(d + 1) - 1 <= r.answer.end
  BY <1>5, <1>6, SpansAreWhole
<1> QED BY <1>1, <1>7 DEF Numbers!RangesAreWhole

\* A range between two dates that was asked for.
LEMMA CustomRangesAreWhole ==
    ASSUME NEW p \in Dates, NEW q \in Dates, Numbers!ResolveCustomRange(p, q)
    PROVE  Numbers!RangesAreWhole'
<1>1. PICK r : r = reply'
  OBVIOUS
<1>2. /\ p \in Nat \X Nat \X Nat /\ p[1] > 1970 /\ q \in Nat \X Nat \X Nat /\ q[1] > 1970
  BY NumbersAssumption DEF NumbersAssumption
<1>3. /\ r.kind = "custom" /\ r.from = p /\ r.to = q
      /\ r.answer = IF Numbers!IsDate(p) /\ Numbers!IsDate(q) /\ Numbers!Number(p) < Numbers!Number(q) + 1
                    THEN Numbers!Between(<<Numbers!Number(p), Numbers!Number(q) + 1>>) ELSE None
  BY <1>1 DEF Numbers!ResolveCustomRange
<1>4. /\ Numbers!IsDate(p) <=> Numbers!RealDate(p)
      /\ Numbers!IsDate(q) <=> Numbers!RealDate(q)
      /\ Numbers!Number(p) \in Nat /\ Numbers!Number(q) \in Nat
  BY <1>2, DatesAreReal, DateIsADay
<1>5. CASE ~(Numbers!IsDate(p) /\ Numbers!IsDate(q))
  <2>1. r.answer = None
    BY <1>3, <1>5
  <2> QED BY <1>1, <1>3, <1>4, <1>5, <2>1 DEF Numbers!RangesAreWhole
<1>6. CASE Numbers!IsDate(p) /\ Numbers!IsDate(q)
  <2>1. PICK b : b = <<Numbers!Number(p), Numbers!Number(q) + 1>>
    BY <1>4
  <2>2. Spans(b, r) /\ (Numbers!Number(p) <= Numbers!Number(q) <=> Numbers!NotAfter(p, q))
    BY <1>2, <1>3, <1>4, <1>6, <2>1, DatesSpan
  <2>3. CASE Numbers!Number(p) <= Numbers!Number(q)
    <3>1. r.answer = Numbers!Between(b)
      BY <1>3, <1>4, <1>6, <2>1, <2>3
    <3>2. /\ r.answer # None
          /\ Numbers!LocalClock(r.answer.start) = 0 /\ Numbers!LocalClock(r.answer.end + 1) = 0
          /\ \A d \in Numbers!Window : Numbers!Wanted(r, d) <=>
                 r.answer.start <= Numbers!Midnight(d) /\ Numbers!Midnight(d + 1) - 1 <= r.answer.end
      BY <2>2, <3>1, SpansAreWhole
    <3> QED BY <1>1, <3>2 DEF Numbers!RangesAreWhole
  <2>4. CASE ~(Numbers!Number(p) <= Numbers!Number(q))
    <3>1. r.answer = None
      BY <1>3, <1>4, <2>4
    <3> QED BY <1>1, <1>3, <2>2, <2>4, <3>1 DEF Numbers!RangesAreWhole
  <2> QED BY <2>3, <2>4
<1> QED BY <1>5, <1>6
-----------------------------------------------------------------------------
\* A date and a clock are taken as a time exactly when both are real.
LEMMA StampIs ==
    ASSUME NEW p \in Nat \X Nat \X Nat, p[1] > 1970, NEW c, NEW h \in Nat, NEW m \in Nat, c = <<h, m>>
    PROVE  Numbers!SingaporeTimestamp(p, c) =
              IF Numbers!RealDate(p) /\ h < 24 /\ m < 60
              THEN Numbers!Midnight(Numbers!Number(p)) + 3600 * h + 60 * m ELSE None
<1>1. PICK n \in Nat : n = Numbers!Number(p)
  BY DateIsADay
<1>2. PICK i : i = Numbers!Midnight(n) + h * 3600 + m * 60
  OBVIOUS
<1>3. c[1] = h /\ c[2] = m
  OBVIOUS
<1>4. Numbers!SingaporeTimestamp(p, c) =
         IF /\ Numbers!Parts(Numbers!LocalDay(i)) = p
            /\ <<Numbers!LocalClock(i) \div 3600, (Numbers!LocalClock(i) % 3600) \div 60>> = c
         THEN i ELSE None
  BY <1>1, <1>2, <1>3 DEF Numbers!SingaporeTimestamp
<1>5. Numbers!IsDate(p) <=> Numbers!RealDate(p)
  BY DatesAreReal
<1>6. Numbers!Midnight(n) = n * 86400 - 28800
  BY DEF Numbers!Midnight, Numbers!DaySeconds, Numbers!Offset
<1>7. i \in Int /\ i = Numbers!Midnight(n) + 3600 * h + 60 * m
  BY <1>2, <1>6
<1>8. PICK x \in Nat : x = Numbers!LocalClock(i) /\ x < 86400
  <2>1. (i + 28800) % 86400 >= 0 /\ (i + 28800) % 86400 < 86400 /\ (i + 28800) % 86400 \in Int
    BY <1>7
  <2> QED BY <2>1 DEF Numbers!LocalClock, Numbers!DaySeconds, Numbers!Offset
<1>9. CASE Numbers!RealDate(p) /\ h < 24 /\ m < 60
  <2>1. PICK s \in Nat : s = 3600 * h + 60 * m
    OBVIOUS
  <2>2. s < 86400 /\ i = Numbers!Midnight(n) + s
    <3>1. Numbers!Midnight(n) \in Int
      BY <1>6
    <3> QED BY <1>7, <1>9, <2>1, <3>1
  <2>3. Numbers!LocalDay(i) = n /\ Numbers!LocalClock(i) = s
    BY <2>2, ClockOfDay
  <2>4. s \div 3600 = h /\ (s % 3600) \div 60 = m
    BY <1>9, <2>1
  <2>5. Numbers!Parts(n) = p
    BY <1>1, <1>5, <1>9 DEF Numbers!IsDate
  <2> QED BY <1>1, <1>4, <1>7, <1>9, <2>3, <2>4, <2>5
<1>10. CASE ~(Numbers!RealDate(p) /\ h < 24 /\ m < 60)
  <2>1. ASSUME Numbers!Parts(Numbers!LocalDay(i)) = p,
               <<Numbers!LocalClock(i) \div 3600, (Numbers!LocalClock(i) % 3600) \div 60>> = c
        PROVE  FALSE
    <3>1. x \div 3600 = h /\ (x % 3600) \div 60 = m
      BY <1>8, <2>1
    <3>2. h < 24 /\ m < 60
      BY <1>8, <3>1
    <3>3. PICK s \in Nat : s = 3600 * h + 60 * m
      OBVIOUS
    <3>4. s < 86400 /\ i = Numbers!Midnight(n) + s
      <4>1. Numbers!Midnight(n) \in Int
        BY <1>6
      <4> QED BY <1>7, <3>2, <3>3, <4>1
    <3>5. Numbers!LocalDay(i) = n
      BY <3>4, ClockOfDay
    <3> QED BY <1>1, <1>5, <1>10, <2>1, <3>2, <3>5 DEF Numbers!IsDate
  <2> QED BY <1>4, <1>10, <2>1
<1> QED BY <1>1, <1>7, <1>9, <1>10

\* An expense is booked at the time that was said.
LEMMA TimesStay ==
    ASSUME NEW received_ \in Numbers!Instants, NEW date \in Dates, NEW clock \in Clocks, NEW second \in {0, 59},
           Numbers!ResolveExpenseTimestamp(received_, date, clock, second)
    PROVE  Numbers!TimesAreAsSaid'
<1>1. PICK r : r = reply'
  OBVIOUS
<1>2. PICK a : a = Numbers!ResolveExplicit(received_, date, clock, second)
  OBVIOUS
<1>3. /\ r.received = received_ /\ r.date = date /\ r.clock = clock /\ r.second = second /\ r.answer = a
      /\ clock = None => second = 0
  BY <1>1, <1>2 DEF Numbers!ResolveExpenseTimestamp
<1>4. date \in Nat \X Nat \X Nat /\ date[1] > 1970 /\ (clock = None \/ clock \in Nat \X Nat)
  BY NumbersAssumption DEF NumbersAssumption
<1>5. PICK s \in Nat : s < 86400 /\ Numbers!LocalClock(received_) = s /\ received_ \in Int
  BY InstantIs
<1>6. PICK h \in Nat, m \in Nat :
        /\ IF clock = None THEN h = s \div 3600 /\ m = (s % 3600) \div 60 ELSE clock = <<h, m>>
        /\ (IF clock = None THEN <<s \div 3600, (s % 3600) \div 60>> ELSE clock) = <<h, m>>
  <2>1. CASE clock = None
    BY <1>5, <2>1
  <2>2. CASE clock # None
    <3>1. PICK h \in Nat, m \in Nat : clock = <<h, m>>
      BY <1>4, <2>2
    <3> QED BY <2>2, <3>1
  <2> QED BY <2>1, <2>2
<1>7. PICK real \in BOOLEAN : real <=> Numbers!RealDate(date) /\ h < 24 /\ m < 60
  OBVIOUS
<1>8. PICK n \in Nat : n = Numbers!Number(date)
  BY <1>4, DateIsADay
<1>9. PICK i : i = Numbers!Midnight(n) + 3600 * h + 60 * m
  OBVIOUS
<1>10. Numbers!Midnight(n) \in Int /\ i \in Int /\ i # None
  <2>1. Numbers!Midnight(n) \in Int
    BY DEF Numbers!Midnight, Numbers!DaySeconds, Numbers!Offset
  <2> QED BY <1>9, <2>1, NumbersAssumption DEF NumbersAssumption
<1>11. PICK said : said = <<h, m>>
  OBVIOUS
<1>12. Numbers!SingaporeTimestamp(date, said) = IF real THEN i ELSE None
  BY <1>4, <1>7, <1>8, <1>9, <1>11, StampIs
<1>13. a = IF ~real \/ i + second > received_ + 300 THEN None ELSE i + second
  <2>1. Numbers!FutureTolerance = 300
    BY DEF Numbers!FutureTolerance
  <2>2. (IF clock = None THEN <<s \div 3600, (s % 3600) \div 60>> ELSE clock) = said
    BY <1>6, <1>11
  <2> QED BY <1>2, <1>5, <1>10, <1>12, <2>1, <2>2 DEF Numbers!ResolveExplicit
<1>14. PICK minutes \in Nat :
         /\ minutes = IF clock = None THEN s \div 60 ELSE 60 * clock[1] + clock[2]
         /\ minutes = 60 * h + m
  BY <1>5, <1>6
<1>15. i + second \in Int /\ i + second # None /\ i + second = Numbers!Midnight(n) + 60 * minutes + second
  BY <1>9, <1>10, <1>14, NumbersAssumption DEF NumbersAssumption
<1>16. ASSUME real
       PROVE  Numbers!LocalDay(i + second) = n /\ Numbers!LocalClock(i + second) = 60 * minutes + second
  <2>1. PICK k \in Nat : k = 60 * minutes + second /\ k < 86400
    BY <1>7, <1>14, <1>16
  <2>2. i + second = Numbers!Midnight(n) + k
    BY <1>10, <1>15, <2>1
  <2> QED BY <2>1, <2>2, ClockOfDay
<1>17. Numbers!RealDate(date) => Numbers!Parts(n) = date
  <2>1. Numbers!IsDate(date) <=> Numbers!RealDate(date)
    BY <1>4, DatesAreReal
  <2> QED BY <1>8, <2>1 DEF Numbers!IsDate
<1>18. real <=> /\ Numbers!RealDate(date)
                /\ clock # None => clock[1] \in 0 .. 23 /\ clock[2] \in 0 .. 59
  <2>1. CASE clock = None
    <3>1. h < 24 /\ m < 60
      BY <1>5, <1>6, <2>1
    <3> QED BY <1>7, <2>1, <3>1
  <2>2. CASE clock # None
    <3>1. clock[1] = h /\ clock[2] = m
      BY <1>6, <2>2
    <3> QED BY <1>7, <2>2, <3>1
  <2> QED BY <2>1, <2>2
<1>19. IF a # None
       THEN /\ real /\ Numbers!Parts(Numbers!LocalDay(a)) = date
            /\ Numbers!LocalClock(a) = 60 * minutes + second
            /\ a <= received_ + 300
       ELSE real => Numbers!Midnight(Numbers!Number(date)) + 60 * minutes + second > received_ + 300
  <2>1. CASE ~real
    BY <1>13, <2>1
  <2>2. CASE real /\ i + second > received_ + 300
    BY <1>8, <1>13, <1>15, <2>2
  <2>3. CASE real /\ ~(i + second > received_ + 300)
    <3>1. a = i + second
      BY <1>13, <2>3
    <3>2. i + second <= received_ + 300
      BY <1>5, <1>15, <2>3
    <3> QED BY <1>7, <1>15, <1>16, <1>17, <2>3, <3>1, <3>2
  <2> QED BY <1>7, <2>1, <2>2, <2>3
<1>20. minutes = IF r.clock = None THEN Numbers!LocalClock(r.received) \div 60
                 ELSE 60 * r.clock[1] + r.clock[2]
  BY <1>3, <1>5, <1>14
<1>21. real <=> /\ Numbers!RealDate(r.date)
                /\ r.clock # None => r.clock[1] \in 0 .. 23 /\ r.clock[2] \in 0 .. 59
  BY <1>3, <1>18
<1>22. Numbers!FutureTolerance = 300
  BY DEF Numbers!FutureTolerance
<1>23. IF r.answer # None
       THEN /\ real /\ Numbers!Parts(Numbers!LocalDay(r.answer)) = r.date
            /\ Numbers!LocalClock(r.answer) = 60 * minutes + r.second
            /\ r.answer <= r.received + Numbers!FutureTolerance
       ELSE real => Numbers!Midnight(Numbers!Number(r.date)) + 60 * minutes + r.second
                      > r.received + Numbers!FutureTolerance
  BY <1>3, <1>19, <1>22
<1> QED BY <1>1, <1>20, <1>21, <1>23 DEF Numbers!TimesAreAsSaid
-----------------------------------------------------------------------------
\* Division.
LEMMA QuotientIs ==
    ASSUME NEW x \in Int, NEW b \in Int, b > 0
    PROVE  /\ x \div b \in Int /\ x % b \in Int /\ x % b >= 0 /\ x % b < b
           /\ x = b * (x \div b) + (x % b)
  OBVIOUS

\* A product does not decrease with its factor.
LEMMA ProductGrows ==
    ASSUME NEW a \in Int, NEW b \in Int, NEW c \in Int, c > 0
    PROVE  a * c < b * c <=> a < b
  OBVIOUS
\* The nearest whole number to a fraction, which may be extended.
Rounded(c, w1, w2) == (2 * (c * w1) + (c * w2)) \div (2 * (c * w2))
NearestTo(a, w1, w2) == a \in Int /\ 2 * a * w2 <= 2 * w1 + w2 /\ 2 * w1 + w2 < 2 * (a + 1) * w2

LEMMA NearestIs ==
    ASSUME NEW w1 \in Int, NEW w2 \in Int, w2 > 0, NEW c, c = 1 \/ c = 100
    PROVE  NearestTo(Rounded(c, w1, w2), w1, w2)
<1>0. PICK a : a = Rounded(c, w1, w2)
  OBVIOUS
<1>1. PICK x \in Int, b \in Int : x = 2 * (c * w1) + (c * w2) /\ b = 2 * (c * w2) /\ b > 0
  OBVIOUS
<1>2. a = x \div b
  BY <1>0, <1>1 DEF Rounded
<1>3. a \in Int /\ b * a <= x /\ x < b * a + b
  <2>1. b > 0
    BY <1>1
  <2>2. x \div b \in Int /\ x % b >= 0 /\ x % b < b /\ x = b * (x \div b) + (x % b) /\ x % b \in Int
    BY ONLY <2>1, QuotientIs
  <2>3. PICK q \in Int, r \in Int : q = x \div b /\ r = x % b /\ r >= 0 /\ r < b /\ x = b * q + r
    BY <2>2
  <2> QED BY <1>2, <2>3
<1>4. PICK k \in Int : k = a * w2
  BY <1>3
<1>5. b * a = 2 * (c * k)
  BY <1>1, <1>3, <1>4
<1>6. 2 * a * w2 = 2 * k /\ 2 * (a + 1) * w2 = 2 * k + 2 * w2
  BY <1>3, <1>4
<1>7. 2 * k <= 2 * w1 + w2 /\ 2 * w1 + w2 < 2 * k + 2 * w2
  <2>1. CASE c = 1
    BY <1>1, <1>3, <1>5, <2>1
  <2>2. CASE c = 100
    BY <1>1, <1>3, <1>5, <2>2
  <2> QED BY <2>1, <2>2
<1> QED BY <1>0, <1>3, <1>6, <1>7 DEF NearestTo

\* The rates of a conversion are the worth of its currencies.
LEMMA RatesAreTheWorth ==
    ASSUME NEW v \in Nat, NEW table \in Prices, NEW from \in DOMAIN table.price, NEW to \in DOMAIN table.price,
           from # to, Numbers!Quoted(table, from), Numbers!Quoted(table, to),
           NEW w, minor = v, w = Numbers!Worth([from |-> from, to |-> to, table |-> table, amount |-> 0])
    PROVE  \E c \in {1, 100}, w1 \in Int, w2 \in Int :
              /\ w2 > 0 /\ w[1] = w1 /\ w[2] = w2
              /\ Numbers!ConvertCurrencyAmount(v, from, to, table)
                   = Rounded(c, w1, w2)
<1>1. PICK price, bank : price = table.price /\ bank = table.bank
  OBVIOUS
<1>2. /\ bank \in BOOLEAN /\ from \in DOMAIN price /\ to \in DOMAIN price
      /\ \A c \in DOMAIN price : price[c] # None => price[c] \in Fraction
  BY <1>1, NumbersAssumption DEF NumbersAssumption
<1>3. PICK f, t : f = Numbers!RateFor(table, from) /\ t = Numbers!RateFor(table, to)
  OBVIOUS
<1>4. Numbers!ConvertCurrencyAmount(v, from, to, table)
         = (2 * (v * t[1] * f[2]) + t[2] * f[1]) \div (2 * (t[2] * f[1]))
  BY <1>3 DEF Numbers!ConvertCurrencyAmount
<1>5. PICK x, y : /\ x = (IF bank THEN IF from = "CNY" THEN <<100, 1>> ELSE price[from] ELSE price[to])
                  /\ y = (IF bank THEN IF to = "CNY" THEN <<100, 1>> ELSE price[to] ELSE price[from])
  OBVIOUS
<1>6. w = <<v * x[1] * y[2], x[2] * y[1]>>
  BY <1>1, <1>5 DEF Numbers!Worth
<1>7. \E c \in {1, 100}, w1 \in Int, w2 \in Int :
        /\ w2 > 0 /\ w1 = v * x[1] * y[2] /\ w2 = x[2] * y[1]
        /\ v * t[1] * f[2] = c * w1 /\ t[2] * f[1] = c * w2
  <2>1. CASE bank /\ from = "CNY"
    <3>1. price[to] \in Fraction
      BY <1>1, <1>2, <2>1 DEF Numbers!Quoted
    <3>2. PICK q1 \in Nat, q2 \in Nat : price[to] = <<q1, q2>> /\ q1 > 0 /\ q2 > 0
      BY <3>1 DEF Fraction
    <3>3. f = <<1, 1>> /\ t = <<100 * q2, q1>> /\ x = <<100, 1>> /\ y = <<q1, q2>>
      BY <1>1, <1>3, <1>5, <2>1, <3>2 DEF Numbers!RateFor
    <3>4. /\ v * (100 * q2) * 1 = 1 * (v * 100 * q2) /\ q1 * 1 = 1 * (1 * q1) /\ 1 * q1 > 0
          /\ v * 100 * q2 \in Int /\ 1 * q1 \in Int
      BY <3>2
    <3>5. /\ f[1] = 1 /\ f[2] = 1 /\ t[1] = 100 * q2 /\ t[2] = q1
          /\ x[1] = 100 /\ x[2] = 1 /\ y[1] = q1 /\ y[2] = q2
      BY <3>3
    <3> QED BY <3>4, <3>5
  <2>2. CASE bank /\ to = "CNY"
    <3>1. price[from] \in Fraction
      BY <1>1, <1>2, <2>2 DEF Numbers!Quoted
    <3>2. PICK p1 \in Nat, p2 \in Nat : price[from] = <<p1, p2>> /\ p1 > 0 /\ p2 > 0
      BY <3>1 DEF Fraction
    <3>3. f = <<100 * p2, p1>> /\ t = <<1, 1>> /\ x = <<p1, p2>> /\ y = <<100, 1>>
      BY <1>1, <1>3, <1>5, <2>2, <3>2 DEF Numbers!RateFor
    <3>4. /\ v * 1 * p1 = 1 * (v * p1 * 1) /\ 1 * (100 * p2) = 1 * (p2 * 100) /\ p2 * 100 > 0
          /\ v * p1 * 1 \in Int /\ p2 * 100 \in Int
      BY <3>2
    <3>5. /\ f[1] = 100 * p2 /\ f[2] = p1 /\ t[1] = 1 /\ t[2] = 1
          /\ x[1] = p1 /\ x[2] = p2 /\ y[1] = 100 /\ y[2] = 1
      BY <3>3
    <3> QED BY <3>4, <3>5
  <2>3. CASE bank /\ from # "CNY" /\ to # "CNY"
    <3>1. price[from] \in Fraction /\ price[to] \in Fraction
      BY <1>1, <1>2, <2>3 DEF Numbers!Quoted
    <3>2. PICK p1 \in Nat, p2 \in Nat, q1 \in Nat, q2 \in Nat :
             /\ price[from] = <<p1, p2>> /\ p1 > 0 /\ p2 > 0
             /\ price[to] = <<q1, q2>> /\ q1 > 0 /\ q2 > 0
      BY <3>1 DEF Fraction
    <3>3. f = <<100 * p2, p1>> /\ t = <<100 * q2, q1>> /\ x = <<p1, p2>> /\ y = <<q1, q2>>
      BY <1>1, <1>3, <1>5, <2>3, <3>2 DEF Numbers!RateFor
    <3>4. /\ v * (100 * q2) * p1 = 100 * (v * p1 * q2) /\ q1 * (100 * p2) = 100 * (p2 * q1) /\ p2 * q1 > 0
          /\ v * p1 * q2 \in Int /\ p2 * q1 \in Int
      BY <3>2
    <3>5. /\ f[1] = 100 * p2 /\ f[2] = p1 /\ t[1] = 100 * q2 /\ t[2] = q1
          /\ x[1] = p1 /\ x[2] = p2 /\ y[1] = q1 /\ y[2] = q2
      BY <3>3
    <3> QED BY <3>4, <3>5
  <2>4. CASE ~bank
    <3>1. price[from] \in Fraction /\ price[to] \in Fraction
      BY <1>1, <1>2, <2>4 DEF Numbers!Quoted
    <3>2. PICK p1 \in Nat, p2 \in Nat, q1 \in Nat, q2 \in Nat :
             /\ price[from] = <<p1, p2>> /\ p1 > 0 /\ p2 > 0
             /\ price[to] = <<q1, q2>> /\ q1 > 0 /\ q2 > 0
      BY <3>1 DEF Fraction
    <3>3. f = <<p1, p2>> /\ t = <<q1, q2>> /\ x = <<q1, q2>> /\ y = <<p1, p2>>
      BY <1>1, <1>3, <1>5, <2>4, <3>2 DEF Numbers!RateFor
    <3>4. /\ v * q1 * p2 = 1 * (v * q1 * p2) /\ q2 * p1 = 1 * (q2 * p1) /\ q2 * p1 > 0
          /\ v * q1 * p2 \in Int /\ q2 * p1 \in Int
      BY <3>2
    <3>5. /\ f[1] = p1 /\ f[2] = p2 /\ t[1] = q1 /\ t[2] = q2
          /\ x[1] = q1 /\ x[2] = q2 /\ y[1] = p1 /\ y[2] = p2
      BY <3>3
    <3> QED BY <3>4, <3>5
  <2> QED BY <1>2, <2>1, <2>2, <2>3, <2>4
<1>8. PICK c \in {1, 100}, w1 \in Int, w2 \in Int :
        /\ w2 > 0 /\ w1 = v * x[1] * y[2] /\ w2 = x[2] * y[1]
        /\ v * t[1] * f[2] = c * w1 /\ t[2] * f[1] = c * w2
  BY <1>7
<1>9. w[1] = w1 /\ w[2] = w2
  BY <1>6, <1>8
<1>10. Numbers!ConvertCurrencyAmount(v, from, to, table) = Rounded(c, w1, w2)
  BY <1>4, <1>8 DEF Rounded
<1> QED BY <1>8, <1>9, <1>10

\* A conversion is the nearest hundredth.
LEMMA ConvertIsNearest ==
    ASSUME minor \in Nat, NEW table \in Prices, NEW from \in DOMAIN table.price, NEW to \in DOMAIN table.price,
           Numbers!Convert(from, to, table)
    PROVE  Numbers!ConversionsAreNearest'
<1>1. PICK v \in Nat : v = minor /\ minor' = v
  BY DEF Numbers!Convert
<1>2. PICK a : a = Numbers!ConvertCurrencyAmount(v, from, to, table)
  OBVIOUS
<1>3. converted' = [from |-> from, to |-> to, table |-> table, amount |-> a]
  BY <1>1, <1>2 DEF Numbers!Convert
<1>4. CASE from = to
  <2>1. a = v
    BY <1>2, <1>4 DEF Numbers!ConvertCurrencyAmount
  <2> QED BY <1>1, <1>3, <1>4, <2>1 DEF Numbers!ConversionsAreNearest
<1>5. CASE from # to /\ Numbers!Quoted(table, from) /\ Numbers!Quoted(table, to)
  <2>1. PICK w : w = Numbers!Worth([from |-> from, to |-> to, table |-> table, amount |-> 0])
    OBVIOUS
  <2>2. PICK c \in {1, 100}, w1 \in Int, w2 \in Int :
              /\ w2 > 0 /\ w[1] = w1 /\ w[2] = w2
              /\ a = Rounded(c, w1, w2)
    BY <1>1, <1>2, <1>5, <2>1, RatesAreTheWorth
  <2>3. a \in Int /\ 2 * a * w2 <= 2 * w1 + w2 /\ 2 * w1 + w2 < 2 * (a + 1) * w2
    <3>1. w1 \in Int /\ w2 \in Int /\ w2 > 0 /\ (c = 1 \/ c = 100)
      BY <2>2
    <3>2. NearestTo(Rounded(c, w1, w2), w1, w2)
      BY ONLY <3>1, NearestIs
    <3> QED BY <2>2, <3>2 DEF NearestTo
  <2>4. a # None
    BY <2>3, NumbersAssumption DEF NumbersAssumption
  <2>5. Numbers!Worth(converted)' = w
    BY <1>1, <1>3, <2>1 DEF Numbers!Worth
  <2> QED BY <1>3, <1>5, <2>2, <2>3, <2>4, <2>5 DEF Numbers!ConversionsAreNearest
<1>6. CASE from # to /\ ~(Numbers!Quoted(table, from) /\ Numbers!Quoted(table, to))
  <2>1. a = None
    BY <1>2, <1>6 DEF Numbers!ConvertCurrencyAmount
  <2>2. \E c \in {from, to} : ~(table.bank /\ c = "CNY") /\ table.price[c] = None
    BY <1>6 DEF Numbers!Quoted
  <2> QED BY <1>3, <1>6, <2>1, <2>2 DEF Numbers!ConversionsAreNearest
<1> QED BY <1>4, <1>5, <1>6

-----------------------------------------------------------------------------
(* Products and sums over finite sets.                                     *)

Pick(s) == CHOOSE x \in s : TRUE
ProductOn(f, S) == CHOOSE g : g = [s \in SUBSET S |-> IF s = {} THEN 1 ELSE f[Pick(s)] * g[s \ {Pick(s)}]]
TotalOn(f, S) == CHOOSE g : g = [s \in SUBSET S |-> IF s = {} THEN 0 ELSE f[Pick(s)] + g[s \ {Pick(s)}]]

\* The folds of the community modules, as the recursion they stand for.
LEMMA ProductDef == ASSUME NEW S, NEW f PROVE Numbers!Product(f, S) = ProductOn(f, S)[S]
BY DEF Numbers!Product, Numbers!FoldFunctionOnSet, Numbers!MapThenFoldSet, ProductOn, Pick

LEMMA TotalDef == ASSUME NEW S, NEW f PROVE Numbers!Total(f, S) = TotalOn(f, S)[S]
BY DEF Numbers!Total, Numbers!SumFunctionOnSet, Numbers!FoldFunctionOnSet, Numbers!MapThenFoldSet, TotalOn, Pick

\* Induction, with the set of the numbers for which a statement holds.
LEMMA Counting ==
    ASSUME NEW Q, 0 \in Q, \A n \in Nat : n \in Q => n + 1 \in Q
    PROVE  \A n \in Nat : n \in Q
<1>1. SUFFICES ASSUME NEW m \in Nat, m \notin Q PROVE FALSE
  OBVIOUS
<1>2. PICK T : T = {n \in Nat : n \notin Q}
  OBVIOUS
<1>3. T \subseteq Nat /\ T # {}
  BY <1>1, <1>2
<1>4. PICK x \in T : \A y \in T : ~(<<y, x>> \in OpToRel(<, Nat))
  BY <1>3, NatLessThanWellFounded, WFMin
<1>5. x \in Nat /\ x \notin Q /\ x # 0
  BY <1>2, <1>4
<1>6. PICK y \in Nat : y + 1 = x
  BY <1>5
<1>7. y \notin Q
  BY <1>5, <1>6
<1>8. y \in T
  BY <1>2, <1>7
<1>9. <<y, x>> \in Nat \X Nat /\ <<y, x>>[1] < <<y, x>>[2]
  BY <1>5, <1>6
<1> QED BY <1>4, <1>8, <1>9 DEF OpToRel

\* A finite set without one of its members.
LEMMA Smaller ==
    ASSUME NEW s, IsFiniteSet(s), NEW x \in s
    PROVE  /\ IsFiniteSet(s \ {x}) /\ Cardinality(s) \in Nat
           /\ Cardinality(s \ {x}) \in Nat /\ Cardinality(s) = Cardinality(s \ {x}) + 1
<1>1. IsFiniteSet(s \ {x}) /\ Cardinality(s \ {x}) = Cardinality(s) - 1
  BY FS_RemoveElement
<1>2. Cardinality(s) \in Nat /\ Cardinality(s \ {x}) \in Nat
  BY <1>1, FS_CardinalityType
<1> QED BY <1>1, <1>2

-----------------------------------------------------------------------------
\* A fold takes the members of a set one after the other.
Operation(op) == /\ op \in [Int \X Int -> Int]
                 /\ \A a, b \in Int : op[<<a, b>>] = op[<<b, a>>]
                 /\ \A a, b, c \in Int : op[<<a, op[<<b, c>>]>>] = op[<<op[<<a, b>>], c>>]
Folded(op, base, f, g, s) == IF s = {} THEN base ELSE op[<<f[Pick(s)], g[s \ {Pick(s)}]>>]
IsFold(op, base, f, S, g) ==
    /\ g = [s \in SUBSET S |-> g[s]]
    /\ \A s \in SUBSET S : g[s] \in Int /\ g[s] = Folded(op, base, f, g, s)

\* The member a fold takes first.
LEMMA PickIs == ASSUME NEW s, s # {} PROVE Pick(s) \in s
  BY DEF Pick

\* Folds over the subsets of at most n members.
UpTo(S, n) == {s \in SUBSET S : Cardinality(s) <= n}
IsPartFold(op, base, f, S, n, g) ==
    /\ g = [s \in UpTo(S, n) |-> g[s]]
    /\ \A s \in UpTo(S, n) : g[s] \in Int /\ g[s] = Folded(op, base, f, g, s)

\* There is a fold: by induction over the size of the parts it is of.
LEMMA FoldExists ==
    ASSUME NEW op, Operation(op), NEW base \in Int, NEW f, NEW S, IsFiniteSet(S), \A x \in S : f[x] \in Int
    PROVE  \E g : IsFold(op, base, f, S, g)
<1>1. PICK Q : Q = {n \in Nat : \E g : IsPartFold(op, base, f, S, n, g)}
  OBVIOUS
<1>2. \A s \in SUBSET S : IsFiniteSet(s) /\ Cardinality(s) \in Nat /\ Cardinality(s) <= Cardinality(S)
  BY FS_Subset, FS_CardinalityType
<1>3. 0 \in Q
  <2>1. UpTo(S, 0) = {{}}
    <3>1. ASSUME NEW s \in SUBSET S, Cardinality(s) <= 0 PROVE s = {}
      <4>1. Cardinality(s) = 0
        BY <1>2, <3>1
      <4> QED BY <1>2, <4>1, FS_EmptySet
    <3>2. {} \in SUBSET S /\ Cardinality({}) <= 0
      BY FS_EmptySet
    <3> QED BY <3>1, <3>2 DEF UpTo
  <2>2. PICK g : g = [s \in {{}} |-> base]
    OBVIOUS
  <2>3. IsPartFold(op, base, f, S, 0, g)
    BY <2>1, <2>2 DEF IsPartFold, Folded
  <2> QED BY <1>1, <2>3
<1>4. ASSUME NEW n \in Nat, n \in Q PROVE n + 1 \in Q
  <2>1. PICK g : IsPartFold(op, base, f, S, n, g)
    BY <1>1, <1>4
  <2>2. PICK h : h = [s \in UpTo(S, n + 1) |-> Folded(op, base, f, g, s)]
    OBVIOUS
  <2>3. ASSUME NEW s \in UpTo(S, n) PROVE s \in UpTo(S, n + 1) /\ h[s] = g[s]
    <3>1. s \in UpTo(S, n + 1)
      BY <1>2 DEF UpTo
    <3> QED BY <2>1, <2>2, <3>1 DEF IsPartFold
  <2>4. ASSUME NEW s \in UpTo(S, n + 1), s # {}
        PROVE  Pick(s) \in S /\ s \ {Pick(s)} \in UpTo(S, n)
    <3>1. Pick(s) \in s /\ s \in SUBSET S /\ Cardinality(s) <= n + 1
      BY <2>4, PickIs DEF UpTo
    <3>2. Cardinality(s \ {Pick(s)}) \in Nat /\ Cardinality(s) = Cardinality(s \ {Pick(s)}) + 1
      BY <1>2, <3>1, Smaller
    <3> QED BY <3>1, <3>2 DEF UpTo
  <2>5. ASSUME NEW s \in UpTo(S, n + 1) PROVE h[s] \in Int /\ h[s] = Folded(op, base, f, h, s)
    <3>1. CASE s = {}
      BY <2>2, <3>1 DEF Folded
    <3>2. CASE s # {}
      <4>1. PICK r, p : p = Pick(s) /\ r = s \ {Pick(s)}
        OBVIOUS
      <4>2. p \in S /\ r \in UpTo(S, n)
        BY <2>4, <3>2, <4>1
      <4>3. h[r] = g[r] /\ g[r] \in Int /\ f[p] \in Int
        BY <2>1, <2>3, <4>2 DEF IsPartFold
      <4>4. h[s] = op[<<f[p], g[r]>>] /\ Folded(op, base, f, h, s) = op[<<f[p], h[r]>>]
        BY <2>2, <3>2, <4>1 DEF Folded
      <4>5. op[<<f[p], g[r]>>] \in Int
        BY <4>3 DEF Operation
      <4> QED BY <4>3, <4>4, <4>5
    <3> QED BY <3>1, <3>2
  <2>6. h = [s \in UpTo(S, n + 1) |-> h[s]]
    BY <2>2
  <2>7. IsPartFold(op, base, f, S, n + 1, h)
    BY <2>5, <2>6 DEF IsPartFold
  <2> QED BY <1>1, <2>7
<1>5. PICK n \in Nat : n = Cardinality(S)
  BY <1>2
<1>6. n \in Q
  BY <1>3, <1>4, Counting
<1>7. PICK g : IsPartFold(op, base, f, S, n, g)
  BY <1>1, <1>6
<1>8. UpTo(S, n) = SUBSET S
  BY <1>2, <1>5 DEF UpTo
<1> QED BY <1>7, <1>8 DEF IsPartFold, IsFold

\* Folds of functions that agree are the same where both are defined.
LEMMA FoldsAgree ==
    ASSUME NEW op, NEW base, NEW f, NEW S, NEW g, IsFold(op, base, f, S, g), IsFiniteSet(S),
           NEW e, NEW T, NEW h, IsFold(op, base, e, T, h),
           \A x \in S \cap T : f[x] = e[x]
    PROVE  \A s \in SUBSET (S \cap T) : g[s] = h[s]
<1>1. PICK Q : Q = {n \in Nat : \A s \in SUBSET (S \cap T) : Cardinality(s) = n => g[s] = h[s]}
  OBVIOUS
<1>2. \A s \in SUBSET (S \cap T) : IsFiniteSet(s) /\ Cardinality(s) \in Nat
  BY FS_Subset, FS_CardinalityType
<1>3. 0 \in Q
  <2>1. ASSUME NEW s \in SUBSET (S \cap T), Cardinality(s) = 0 PROVE g[s] = h[s]
    <3>1. s = {}
      BY <1>2, <2>1, FS_EmptySet
    <3>2. s \in SUBSET S /\ s \in SUBSET T
      OBVIOUS
    <3> QED BY <3>1, <3>2 DEF IsFold, Folded
  <2> QED BY <1>1, <2>1
<1>4. ASSUME NEW n \in Nat, n \in Q PROVE n + 1 \in Q
  <2>1. ASSUME NEW s \in SUBSET (S \cap T), Cardinality(s) = n + 1 PROVE g[s] = h[s]
    <3>1. s # {}
      BY <2>1, FS_EmptySet
    <3>2. PICK p, r : p = Pick(s) /\ r = s \ {Pick(s)}
      OBVIOUS
    <3>3. p \in s /\ r = s \ {p}
      BY <3>1, <3>2, PickIs
    <3>4. Cardinality(r) = n /\ r \in SUBSET (S \cap T)
      <4>1. IsFiniteSet(s) /\ p \in s
        BY <1>2, <3>3
      <4>2. Cardinality(s \ {p}) \in Nat /\ Cardinality(s) = Cardinality(s \ {p}) + 1
        BY ONLY <4>1, Smaller
      <4> QED BY <2>1, <3>3, <4>2
    <3>5. g[r] = h[r]
      BY <1>1, <1>4, <3>4
    <3>6. f[p] = e[p]
      BY <3>3
    <3>7. s \in SUBSET S /\ s \in SUBSET T
      OBVIOUS
    <3>8. g[s] = Folded(op, base, f, g, s) /\ h[s] = Folded(op, base, e, h, s)
      BY <3>7 DEF IsFold
    <3>9. g[s] = op[<<f[p], g[r]>>] /\ h[s] = op[<<e[p], h[r]>>]
      BY <3>1, <3>2, <3>8 DEF Folded
    <3> QED BY <3>5, <3>6, <3>9
  <2> QED BY <1>1, <2>1
<1>5. \A n \in Nat : n \in Q
  BY <1>3, <1>4, Counting
<1> QED BY <1>1, <1>2, <1>5

\* A member more is one operation more, whichever is taken first.
LEMMA FoldInserts ==
    ASSUME NEW op, Operation(op), NEW base \in Int, NEW f, NEW S, IsFiniteSet(S), \A x \in S : f[x] \in Int,
           NEW g, IsFold(op, base, f, S, g)
    PROVE  \A s \in SUBSET S : \A x \in S : x \notin s => g[s \cup {x}] = op[<<f[x], g[s]>>]
<1>1. PICK Q : Q = {n \in Nat : \A s \in SUBSET S : \A x \in S :
                      Cardinality(s) = n /\ x \notin s => g[s \cup {x}] = op[<<f[x], g[s]>>]}
  OBVIOUS
<1>2. \A s \in SUBSET S : IsFiniteSet(s) /\ Cardinality(s) \in Nat
  BY FS_Subset, FS_CardinalityType
<1>3. ASSUME NEW s \in SUBSET S, NEW x \in S, x \notin s, Pick(s \cup {x}) = x
      PROVE  g[s \cup {x}] = op[<<f[x], g[s]>>]
  <2>1. PICK t : t = s \cup {x} /\ t # {} /\ t \in SUBSET S /\ t \ {x} = s
    BY <1>3
  <2>2. g[t] = Folded(op, base, f, g, t)
    BY <2>1 DEF IsFold
  <2>3. Folded(op, base, f, g, t) = op[<<f[x], g[t \ {x}]>>]
    BY <1>3, <2>1 DEF Folded
  <2> QED BY <2>1, <2>2, <2>3
<1>4. 0 \in Q
  <2>1. ASSUME NEW s \in SUBSET S, NEW x \in S, Cardinality(s) = 0, x \notin s
        PROVE  g[s \cup {x}] = op[<<f[x], g[s]>>]
    <3>1. s = {}
      BY <1>2, <2>1, FS_EmptySet
    <3>2. Pick(s \cup {x}) = x
      <4>1. Pick(s \cup {x}) \in s \cup {x}
        BY PickIs
      <4> QED BY <3>1, <4>1
    <3> QED BY <1>3, <2>1, <3>2
  <2> QED BY <1>1, <2>1
<1>5. ASSUME NEW n \in Nat, n \in Q PROVE n + 1 \in Q
  <2>1. ASSUME NEW s \in SUBSET S, NEW x \in S, Cardinality(s) = n + 1, x \notin s
        PROVE  g[s \cup {x}] = op[<<f[x], g[s]>>]
    <3>1. CASE Pick(s \cup {x}) = x
      BY <1>3, <2>1, <3>1
    <3>2. CASE Pick(s \cup {x}) # x
      <4>1. PICK t, y : t = s \cup {x} /\ y = Pick(t)
        OBVIOUS
      <4>2. y \in s /\ y # x
        <5>1. Pick(t) \in t
          BY <4>1, PickIs
        <5> QED BY <3>2, <4>1, <5>1
      <4>3. PICK r : r = s \ {y}
        OBVIOUS
      <4>4. Cardinality(r) = n /\ r \in SUBSET S /\ x \notin r /\ y \notin r
        <5>1. IsFiniteSet(s) /\ y \in s
          BY <1>2, <4>2
        <5>2. Cardinality(s \ {y}) \in Nat /\ Cardinality(s) = Cardinality(s \ {y}) + 1
          BY ONLY <5>1, Smaller
        <5> QED BY <2>1, <4>3, <5>2
      <4>5. t \ {y} = r \cup {x} /\ s = r \cup {y} /\ t \in SUBSET S /\ t # {}
        BY <2>1, <4>1, <4>2, <4>3
      <4>6. g[r \cup {x}] = op[<<f[x], g[r]>>] /\ g[r \cup {y}] = op[<<f[y], g[r]>>]
        BY <1>1, <1>5, <4>2, <4>4
      <4>7. g[t] = op[<<f[y], g[t \ {y}]>>]
        BY <4>1, <4>5 DEF IsFold, Folded
      <4>8. PICK a \in Int, b \in Int, c \in Int : a = f[y] /\ b = f[x] /\ c = g[r]
        BY <4>2, <4>4 DEF IsFold
      <4>9. g[t] = op[<<a, op[<<b, c>>]>>] /\ g[s] = op[<<a, c>>]
        BY <4>5, <4>6, <4>7, <4>8
      <4>10. op[<<a, op[<<b, c>>]>>] = op[<<b, op[<<a, c>>]>>]
        <5>1. op[<<a, op[<<b, c>>]>>] = op[<<op[<<a, b>>], c>>]
          BY DEF Operation
        <5>2. op[<<b, op[<<a, c>>]>>] = op[<<op[<<b, a>>], c>>]
          BY DEF Operation
        <5>3. op[<<a, b>>] = op[<<b, a>>]
          BY DEF Operation
        <5> QED BY <5>1, <5>2, <5>3
      <4> QED BY <4>1, <4>8, <4>9, <4>10
    <3> QED BY <3>1, <3>2
  <2> QED BY <1>1, <2>1
<1>6. \A n \in Nat : n \in Q
  BY <1>4, <1>5, Counting
<1> QED BY <1>1, <1>2, <1>6

\* What there is to know of such a result: it starts with the base, and takes a
\* member more in with one operation.
Times == [p \in Int \X Int |-> p[1] * p[2]]
Plus == [p \in Int \X Int |-> p[1] + p[2]]

\* Both may be taken in any order.
LEMMA Operations == Operation(Times) /\ Operation(Plus)
<1>1. \A a, b \in Int : /\ Times[<<a, b>>] = a * b /\ a * b \in Int
                        /\ Plus[<<a, b>>] = a + b /\ a + b \in Int
  <2> TAKE a \in Int, b \in Int
  <2>1. <<a, b>> \in Int \X Int /\ <<a, b>>[1] = a /\ <<a, b>>[2] = b
    OBVIOUS
  <2> QED BY <2>1 DEF Times, Plus
<1>2. Times \in [Int \X Int -> Int] /\ Plus \in [Int \X Int -> Int]
  BY DEF Times, Plus
<1>3. \A a, b \in Int : a * b = b * a /\ a + b = b + a
  OBVIOUS
<1>4. \A a, b, c \in Int : a * (b * c) = (a * b) * c /\ a + (b + c) = (a + b) + c
  OBVIOUS
<1> QED BY <1>1, <1>2, <1>3, <1>4 DEF Operation

\* Whatever fits the recursion is the fold.
Follows(op, base, f, S, h) ==
    \A s \in SUBSET S : /\ s = {} => h[s] = base
                        /\ s # {} /\ h[s \ {Pick(s)}] \in Int
                                => h[s] = op[<<f[Pick(s)], h[s \ {Pick(s)}]>>]

LEMMA FoldIsUnique ==
    ASSUME NEW op, Operation(op), NEW base, NEW f, NEW S, IsFiniteSet(S), \A x \in S : f[x] \in Int,
           NEW g, IsFold(op, base, f, S, g), NEW h,
           Follows(op, base, f, S, h)
    PROVE  h[S] = g[S]
<1>1. PICK Q : Q = {n \in Nat : \A s \in SUBSET S : Cardinality(s) = n => h[s] = g[s]}
  OBVIOUS
<1>2. \A s \in SUBSET S : IsFiniteSet(s) /\ Cardinality(s) \in Nat
  BY FS_Subset, FS_CardinalityType
<1>3. 0 \in Q
  <2>1. ASSUME NEW s \in SUBSET S, Cardinality(s) = 0 PROVE h[s] = g[s]
    <3>1. s = {}
      BY <1>2, <2>1, FS_EmptySet
    <3> QED BY <3>1 DEF IsFold, Folded, Follows
  <2> QED BY <1>1, <2>1
<1>4. ASSUME NEW n \in Nat, n \in Q PROVE n + 1 \in Q
  <2>1. ASSUME NEW s \in SUBSET S, Cardinality(s) = n + 1 PROVE h[s] = g[s]
    <3>1. s # {}
      <4>1. Cardinality({}) = 0 /\ n + 1 # 0
        BY FS_EmptySet
      <4> QED BY ONLY <4>1, <2>1
    <3>2. PICK p, r : p = Pick(s) /\ r = s \ {Pick(s)}
      BY ONLY TRUE
    <3>3. p \in s /\ r = s \ {p}
      BY <3>1, <3>2, PickIs
    <3>4. Cardinality(r) = n /\ r \in SUBSET S
      <4>1. IsFiniteSet(s) /\ p \in s
        BY <1>2, <3>3
      <4>2. Cardinality(s \ {p}) \in Nat /\ Cardinality(s) = Cardinality(s \ {p}) + 1
        BY ONLY <4>1, Smaller
      <4> QED BY <2>1, <3>3, <4>2
    <3>5. h[r] = g[r] /\ g[r] \in Int
      BY <1>1, <1>4, <3>4 DEF IsFold
    <3>6. h[s] = op[<<f[p], h[r]>>]
      BY <3>1, <3>2, <3>5 DEF Follows
    <3>7. g[s] = op[<<f[p], g[r]>>]
      BY <3>1, <3>2 DEF IsFold, Folded
    <3> QED BY <3>5, <3>6, <3>7
  <2> QED BY <1>1, <2>1
<1>5. \A n \in Nat : n \in Q
  BY <1>3, <1>4, Counting
<1> QED BY <1>1, <1>2, <1>5

LEMMA TimesIs == \A a, b \in Int : Times[<<a, b>>] = a * b /\ a * b \in Int
<1> TAKE a \in Int, b \in Int
<1>1. <<a, b>> \in Int \X Int /\ <<a, b>>[1] = a /\ <<a, b>>[2] = b
  OBVIOUS
<1> QED BY <1>1 DEF Times

LEMMA PlusIs == \A a, b \in Int : Plus[<<a, b>>] = a + b /\ a + b \in Int
<1> TAKE a \in Int, b \in Int
<1>1. <<a, b>> \in Int \X Int /\ <<a, b>>[1] = a /\ <<a, b>>[2] = b
  OBVIOUS
<1> QED BY <1>1 DEF Plus

\* So a product and a sum are folds.
LEMMA ProductIsFold ==
    ASSUME NEW f, NEW S, IsFiniteSet(S), \A x \in S : f[x] \in Int
    PROVE  \E g : IsFold(Times, 1, f, S, g) /\ Numbers!Product(f, S) = g[S]
<1>1. PICK g : IsFold(Times, 1, f, S, g)
  BY Operations, FoldExists
<1>2. PICK h : h = ProductOn(f, S)
  OBVIOUS
<1>3. g = [s \in SUBSET S |-> IF s = {} THEN 1 ELSE f[Pick(s)] * g[s \ {Pick(s)}]]
  <2>1. ASSUME NEW s \in SUBSET S PROVE g[s] = IF s = {} THEN 1 ELSE f[Pick(s)] * g[s \ {Pick(s)}]
    <3>1. CASE s = {}
      BY <1>1, <3>1 DEF IsFold, Folded
    <3>2. CASE s # {}
      <4>1. Pick(s) \in S /\ s \ {Pick(s)} \in SUBSET S
        BY <3>2, PickIs
      <4>2. f[Pick(s)] \in Int /\ g[s \ {Pick(s)}] \in Int
        BY <1>1, <4>1 DEF IsFold
      <4>3. g[s] = Times[<<f[Pick(s)], g[s \ {Pick(s)}]>>]
        BY <1>1, <3>2 DEF IsFold, Folded
      <4> QED BY <3>2, <4>2, <4>3, TimesIs
    <3> QED BY <3>1, <3>2
  <2>2. g = [s \in SUBSET S |-> g[s]]
    BY <1>1 DEF IsFold
  <2> QED BY <2>1, <2>2
<1>4. h = [s \in SUBSET S |-> IF s = {} THEN 1 ELSE f[Pick(s)] * h[s \ {Pick(s)}]]
  BY <1>2, <1>3 DEF ProductOn
<1>5. ASSUME NEW s \in SUBSET S
      PROVE  /\ s = {} => h[s] = 1
             /\ s # {} /\ h[s \ {Pick(s)}] \in Int => h[s] = Times[<<f[Pick(s)], h[s \ {Pick(s)}]>>]
  <2>1. h[s] = IF s = {} THEN 1 ELSE f[Pick(s)] * h[s \ {Pick(s)}]
    BY <1>4
  <2>2. s # {} => f[Pick(s)] \in Int
    BY PickIs
  <2> QED BY <2>1, <2>2, TimesIs
<1>6. Follows(Times, 1, f, S, h)
  BY <1>5 DEF Follows
<1>8. h[S] = g[S]
  BY <1>1, <1>6, Operations, FoldIsUnique
<1>7. Numbers!Product(f, S) = h[S]
  BY <1>2, ProductDef
<1> QED BY <1>1, <1>8, <1>7

LEMMA TotalIsFold ==
    ASSUME NEW f, NEW S, IsFiniteSet(S), \A x \in S : f[x] \in Int
    PROVE  \E g : IsFold(Plus, 0, f, S, g) /\ Numbers!Total(f, S) = g[S]
<1>1. PICK g : IsFold(Plus, 0, f, S, g)
  BY Operations, FoldExists
<1>2. PICK h : h = TotalOn(f, S)
  OBVIOUS
<1>3. g = [s \in SUBSET S |-> IF s = {} THEN 0 ELSE f[Pick(s)] + g[s \ {Pick(s)}]]
  <2>1. ASSUME NEW s \in SUBSET S PROVE g[s] = IF s = {} THEN 0 ELSE f[Pick(s)] + g[s \ {Pick(s)}]
    <3>1. CASE s = {}
      BY <1>1, <3>1 DEF IsFold, Folded
    <3>2. CASE s # {}
      <4>1. Pick(s) \in S /\ s \ {Pick(s)} \in SUBSET S
        BY <3>2, PickIs
      <4>2. f[Pick(s)] \in Int /\ g[s \ {Pick(s)}] \in Int
        BY <1>1, <4>1 DEF IsFold
      <4>3. g[s] = Plus[<<f[Pick(s)], g[s \ {Pick(s)}]>>]
        BY <1>1, <3>2 DEF IsFold, Folded
      <4> QED BY <3>2, <4>2, <4>3, PlusIs
    <3> QED BY <3>1, <3>2
  <2>2. g = [s \in SUBSET S |-> g[s]]
    BY <1>1 DEF IsFold
  <2> QED BY <2>1, <2>2
<1>4. h = [s \in SUBSET S |-> IF s = {} THEN 0 ELSE f[Pick(s)] + h[s \ {Pick(s)}]]
  BY <1>2, <1>3 DEF TotalOn
<1>5. ASSUME NEW s \in SUBSET S
      PROVE  /\ s = {} => h[s] = 0
             /\ s # {} /\ h[s \ {Pick(s)}] \in Int => h[s] = Plus[<<f[Pick(s)], h[s \ {Pick(s)}]>>]
  <2>1. h[s] = IF s = {} THEN 0 ELSE f[Pick(s)] + h[s \ {Pick(s)}]
    BY <1>4
  <2>2. s # {} => f[Pick(s)] \in Int
    BY PickIs
  <2> QED BY <2>1, <2>2, PlusIs
<1>6. Follows(Plus, 0, f, S, h)
  BY <1>5 DEF Follows
<1>8. h[S] = g[S]
  BY <1>1, <1>6, Operations, FoldIsUnique
<1>7. Numbers!Total(f, S) = h[S]
  BY <1>2, TotalDef
<1> QED BY <1>1, <1>8, <1>7

\* Induction over a finite set, with the set of the parts for which a statement
\* holds.
LEMMA Gathering ==
    ASSUME NEW S, IsFiniteSet(S), NEW Q, {} \in Q,
           \A s \in SUBSET S : \A x \in S : s \in Q /\ x \notin s => s \cup {x} \in Q
    PROVE  S \in Q
<1>1. PICK N : N = {n \in Nat : \A s \in SUBSET S : Cardinality(s) = n => s \in Q}
  OBVIOUS
<1>2. \A s \in SUBSET S : IsFiniteSet(s) /\ Cardinality(s) \in Nat
  BY FS_Subset, FS_CardinalityType
<1>3. 0 \in N
  <2>1. ASSUME NEW s \in SUBSET S, Cardinality(s) = 0 PROVE s = {}
    BY <1>2, <2>1, FS_EmptySet
  <2> QED BY <1>1, <2>1
<1>4. ASSUME NEW n \in Nat, n \in N PROVE n + 1 \in N
  <2>1. ASSUME NEW s \in SUBSET S, Cardinality(s) = n + 1 PROVE s \in Q
    <3>1. s # {}
      <4>1. Cardinality({}) = 0 /\ n + 1 # 0
        BY FS_EmptySet
      <4> QED BY ONLY <4>1, <2>1
    <3>2. PICK x \in s : TRUE
      BY <3>1
    <3>3. IsFiniteSet(s) /\ x \in s
      BY <1>2
    <3>4. Cardinality(s \ {x}) \in Nat /\ Cardinality(s) = Cardinality(s \ {x}) + 1
      BY ONLY <3>3, Smaller
    <3>5. PICK r : r = s \ {x}
      OBVIOUS
    <3>6. Cardinality(r) = n /\ r \in SUBSET S
      BY <2>1, <3>4, <3>5
    <3>7. r \in Q
      BY <1>1, <1>4, <3>6
    <3>8. s = r \cup {x} /\ x \notin r /\ x \in S
      BY <3>5
    <3> QED BY <3>6, <3>7, <3>8
  <2> QED BY <1>1, <2>1
<1>5. \A n \in Nat : n \in N
  BY <1>3, <1>4, Counting
<1> QED BY <1>1, <1>2, <1>5

-----------------------------------------------------------------------------
\* What the proofs use of products and sums.
Whole(f, S) == \A x \in S : f[x] \in Int

\* Of nothing.
LEMMA ProductStarts == ASSUME NEW f PROVE Numbers!Product(f, {}) = 1
<1>1. IsFiniteSet({})
  BY FS_EmptySet
<1>2. PICK g : IsFold(Times, 1, f, {}, g) /\ Numbers!Product(f, {}) = g[{}]
  BY <1>1, ProductIsFold
<1> QED BY <1>2 DEF IsFold, Folded

LEMMA TotalStarts == ASSUME NEW f PROVE Numbers!Total(f, {}) = 0
<1>1. IsFiniteSet({})
  BY FS_EmptySet
<1>2. PICK g : IsFold(Plus, 0, f, {}, g) /\ Numbers!Total(f, {}) = g[{}]
  BY <1>1, TotalIsFold
<1> QED BY <1>2 DEF IsFold, Folded

\* Of the same members.
LEMMA ProductSame ==
    ASSUME NEW S, IsFiniteSet(S), NEW f, NEW e, Whole(f, S), \A x \in S : e[x] = f[x]
    PROVE  Numbers!Product(f, S) \in Int /\ Numbers!Product(e, S) = Numbers!Product(f, S)
<1>1. PICK g : IsFold(Times, 1, f, S, g) /\ Numbers!Product(f, S) = g[S]
  BY ProductIsFold DEF Whole
<1>2. PICK h : IsFold(Times, 1, e, S, h) /\ Numbers!Product(e, S) = h[S]
  BY ProductIsFold DEF Whole
<1>3. \A s \in SUBSET (S \cap S) : g[s] = h[s]
  BY <1>1, <1>2, FoldsAgree
<1> QED BY <1>1, <1>2, <1>3 DEF IsFold

LEMMA TotalSame ==
    ASSUME NEW S, IsFiniteSet(S), NEW f, NEW e, Whole(f, S), \A x \in S : e[x] = f[x]
    PROVE  Numbers!Total(f, S) \in Int /\ Numbers!Total(e, S) = Numbers!Total(f, S)
<1>1. PICK g : IsFold(Plus, 0, f, S, g) /\ Numbers!Total(f, S) = g[S]
  BY TotalIsFold DEF Whole
<1>2. PICK h : IsFold(Plus, 0, e, S, h) /\ Numbers!Total(e, S) = h[S]
  BY TotalIsFold DEF Whole
<1>3. \A s \in SUBSET (S \cap S) : g[s] = h[s]
  BY <1>1, <1>2, FoldsAgree
<1> QED BY <1>1, <1>2, <1>3 DEF IsFold

\* With one member more.
LEMMA ProductGains ==
    ASSUME NEW S, IsFiniteSet(S), NEW x, x \notin S, NEW f, Whole(f, S \cup {x})
    PROVE  /\ Numbers!Product(f, S) \in Int /\ f[x] \in Int
           /\ Numbers!Product(f, S \cup {x}) = f[x] * Numbers!Product(f, S)
<1>1. PICK T : T = S \cup {x}
  OBVIOUS
<1>2. IsFiniteSet(T) /\ S \in SUBSET T /\ S \cap T = S /\ x \in T
  BY <1>1, FS_AddElement
<1>3. PICK g : IsFold(Times, 1, f, T, g) /\ Numbers!Product(f, T) = g[T]
  BY <1>1, <1>2, ProductIsFold DEF Whole
<1>4. PICK h : IsFold(Times, 1, f, S, h) /\ Numbers!Product(f, S) = h[S]
  BY ProductIsFold DEF Whole
<1>5. g[S] = h[S]
  <2>1. \A s \in SUBSET (S \cap T) : h[s] = g[s]
    BY <1>3, <1>4, FoldsAgree
  <2> QED BY <1>2, <2>1
<1>6. \A y \in T : f[y] \in Int
  BY <1>1 DEF Whole
<1>7. \A s \in SUBSET T : \A y \in T : y \notin s => g[s \cup {y}] = Times[<<f[y], g[s]>>]
  BY ONLY <1>2, <1>3, <1>6, Operations, FoldInserts
<1>8. g[T] = Times[<<f[x], g[S]>>]
  BY <1>1, <1>2, <1>7
<1>9. g[S] \in Int /\ f[x] \in Int
  BY <1>2, <1>3, <1>6 DEF IsFold
<1> QED BY <1>1, <1>3, <1>4, <1>5, <1>8, <1>9, TimesIs

LEMMA TotalGains ==
    ASSUME NEW S, IsFiniteSet(S), NEW x, x \notin S, NEW f, Whole(f, S \cup {x})
    PROVE  /\ Numbers!Total(f, S) \in Int /\ f[x] \in Int
           /\ Numbers!Total(f, S \cup {x}) = f[x] + Numbers!Total(f, S)
<1>1. PICK T : T = S \cup {x}
  OBVIOUS
<1>2. IsFiniteSet(T) /\ S \in SUBSET T /\ S \cap T = S /\ x \in T
  BY <1>1, FS_AddElement
<1>3. PICK g : IsFold(Plus, 0, f, T, g) /\ Numbers!Total(f, T) = g[T]
  BY <1>1, <1>2, TotalIsFold DEF Whole
<1>4. PICK h : IsFold(Plus, 0, f, S, h) /\ Numbers!Total(f, S) = h[S]
  BY TotalIsFold DEF Whole
<1>5. g[S] = h[S]
  <2>1. \A s \in SUBSET (S \cap T) : h[s] = g[s]
    BY <1>3, <1>4, FoldsAgree
  <2> QED BY <1>2, <2>1
<1>6. \A y \in T : f[y] \in Int
  BY <1>1 DEF Whole
<1>7. \A s \in SUBSET T : \A y \in T : y \notin s => g[s \cup {y}] = Plus[<<f[y], g[s]>>]
  BY ONLY <1>2, <1>3, <1>6, Operations, FoldInserts
<1>8. g[T] = Plus[<<f[x], g[S]>>]
  BY <1>1, <1>2, <1>7
<1>9. g[S] \in Int /\ f[x] \in Int
  BY <1>2, <1>3, <1>6 DEF IsFold
<1> QED BY <1>1, <1>3, <1>4, <1>5, <1>8, <1>9, PlusIs

\* A product of positive numbers is positive.
LEMMA ProductIsPositive ==
    ASSUME NEW S, IsFiniteSet(S), NEW f, \A x \in S : f[x] \in Int /\ f[x] > 0
    PROVE  Numbers!Product(f, S) \in Int /\ Numbers!Product(f, S) > 0
<1>1. PICK Q : Q = {s \in SUBSET S : Numbers!Product(f, s) > 0}
  OBVIOUS
<1>2. {} \in Q
  BY <1>1, ProductStarts
<1>3. ASSUME NEW s \in SUBSET S, NEW x \in S, s \in Q, x \notin s PROVE s \cup {x} \in Q
  <2>1. IsFiniteSet(s) /\ Whole(f, s \cup {x})
    BY FS_Subset DEF Whole
  <2>2. /\ Numbers!Product(f, s) \in Int /\ f[x] \in Int
        /\ Numbers!Product(f, s \cup {x}) = f[x] * Numbers!Product(f, s)
    BY <1>3, <2>1, ProductGains
  <2>3. Numbers!Product(f, s) > 0 /\ f[x] > 0
    BY <1>1, <1>3
  <2>4. \A a, b \in Int : a > 0 /\ b > 0 => a * b > 0
    OBVIOUS
  <2>5. f[x] * Numbers!Product(f, s) > 0
    BY ONLY <2>2, <2>3, <2>4
  <2>6. s \cup {x} \in SUBSET S
    OBVIOUS
  <2> QED BY <1>1, <2>2, <2>5, <2>6
<1>4. S \in Q
  BY <1>2, <1>3, Gathering
<1>5. Whole(f, S)
  BY DEF Whole
<1>6. Numbers!Product(f, S) \in Int
  BY <1>5, ProductSame
<1> QED BY <1>1, <1>4, <1>6

\* A common factor of the members is one of the sum.
LEMMA TotalScales ==
    ASSUME NEW S, IsFiniteSet(S), NEW f, NEW e, Whole(f, S), NEW k \in Int, \A x \in S : e[x] = k * f[x]
    PROVE  Numbers!Total(e, S) = k * Numbers!Total(f, S)
<1>1. PICK Q : Q = {s \in SUBSET S : Numbers!Total(e, s) = k * Numbers!Total(f, s)}
  OBVIOUS
<1>2. {} \in Q
  BY <1>1, TotalStarts
<1>3. ASSUME NEW s \in SUBSET S, NEW x \in S, s \in Q, x \notin s PROVE s \cup {x} \in Q
  <2>1. IsFiniteSet(s) /\ Whole(f, s \cup {x}) /\ Whole(e, s \cup {x})
    BY FS_Subset DEF Whole
  <2>2. /\ Numbers!Total(f, s) \in Int /\ f[x] \in Int
        /\ Numbers!Total(f, s \cup {x}) = f[x] + Numbers!Total(f, s)
    BY <1>3, <2>1, TotalGains
  <2>3. Numbers!Total(e, s \cup {x}) = e[x] + Numbers!Total(e, s)
    BY <1>3, <2>1, TotalGains
  <2>4. Numbers!Total(e, s) = k * Numbers!Total(f, s) /\ e[x] = k * f[x]
    BY <1>1, <1>3
  <2>5. \A a, b \in Int : k * a + k * b = k * (a + b)
    OBVIOUS
  <2>6. Numbers!Total(e, s \cup {x}) = k * (f[x] + Numbers!Total(f, s))
    BY ONLY <2>2, <2>3, <2>4, <2>5
  <2>7. s \cup {x} \in SUBSET S
    OBVIOUS
  <2> QED BY <1>1, <2>2, <2>6, <2>7
<1>4. S \in Q
  BY <1>2, <1>3, Gathering
<1> QED BY <1>1, <1>4

-----------------------------------------------------------------------------
\* A sum of fractions a[t] / u[t]: its numerator over the product of all u[t].
Combined(a, u, S) == Numbers!Total([t \in S |-> a[t] * Numbers!Product(u, S \ {t})], S)

LEMMA ProductWithout ==
    ASSUME NEW S, IsFiniteSet(S), NEW t, NEW u, Whole(u, S)
    PROVE  Numbers!Product(u, S \ {t}) \in Int
<1>1. IsFiniteSet(S \ {t}) /\ Whole(u, S \ {t})
  BY FS_Subset DEF Whole
<1> QED BY <1>1, ProductSame

\* The empty sum.
LEMMA CombinedStarts == ASSUME NEW a, NEW u PROVE Combined(a, u, {}) = 0
  BY TotalStarts DEF Combined

\* Of the same fractions.
LEMMA CombinedSame ==
    ASSUME NEW S, IsFiniteSet(S), NEW a, NEW u, Whole(a, S), Whole(u, S), NEW b, NEW v,
           \A t \in S : b[t] = a[t] /\ v[t] = u[t]
    PROVE  Combined(a, u, S) \in Int /\ Combined(b, v, S) = Combined(a, u, S)
<1>1. PICK f : f = [t \in S |-> a[t] * Numbers!Product(u, S \ {t})]
  OBVIOUS
<1>2. PICK e : e = [t \in S |-> b[t] * Numbers!Product(v, S \ {t})]
  OBVIOUS
<1>3. ASSUME NEW t \in S PROVE f[t] \in Int /\ e[t] = f[t]
  <2>1. IsFiniteSet(S \ {t}) /\ Whole(u, S \ {t}) /\ \A x \in S \ {t} : v[x] = u[x]
    BY FS_Subset DEF Whole
  <2>2. Numbers!Product(u, S \ {t}) \in Int /\ Numbers!Product(v, S \ {t}) = Numbers!Product(u, S \ {t})
    BY ONLY <2>1, ProductSame
  <2>3. a[t] \in Int /\ b[t] = a[t]
    BY DEF Whole
  <2>4. f[t] = a[t] * Numbers!Product(u, S \ {t}) /\ e[t] = b[t] * Numbers!Product(v, S \ {t})
    BY <1>1, <1>2
  <2> QED BY ONLY <2>2, <2>3, <2>4
<1>4. Whole(f, S) /\ \A t \in S : e[t] = f[t]
  BY <1>3 DEF Whole
<1>5. Numbers!Total(f, S) \in Int /\ Numbers!Total(e, S) = Numbers!Total(f, S)
  BY <1>4, TotalSame
<1> QED BY <1>1, <1>2, <1>5 DEF Combined

\* With one fraction more, as Joined computes it.
LEMMA CombinedGains ==
    ASSUME NEW S, IsFiniteSet(S), NEW x, x \notin S, NEW a, NEW u, Whole(a, S \cup {x}), Whole(u, S \cup {x})
    PROVE  Combined(a, u, S \cup {x}) = Combined(a, u, S) * u[x] + a[x] * Numbers!Product(u, S)
<1>1. PICK T : T = S \cup {x}
  OBVIOUS
<1>2. PICK f : f = [t \in T |-> a[t] * Numbers!Product(u, T \ {t})]
  OBVIOUS
<1>3. PICK e : e = [t \in S |-> a[t] * Numbers!Product(u, S \ {t})]
  OBVIOUS
<1>4. IsFiniteSet(T) /\ Whole(a, T) /\ Whole(u, T) /\ Whole(a, S) /\ Whole(u, S) /\ S \subseteq T /\ x \in T
  BY <1>1, FS_AddElement DEF Whole
<1>5. u[x] \in Int /\ a[x] \in Int /\ Numbers!Product(u, S) \in Int
  <2>1. Numbers!Product(u, S) \in Int
    BY <1>4, ProductSame
  <2> QED BY <1>4, <2>1 DEF Whole
<1>6. f[x] = a[x] * Numbers!Product(u, S) /\ f[x] \in Int
  <2>1. T \ {x} = S
    BY <1>1
  <2> QED BY <1>2, <1>4, <1>5, <2>1
<1>7. ASSUME NEW t \in S PROVE e[t] \in Int /\ f[t] = u[x] * e[t]
  <2>1. IsFiniteSet(S \ {t}) /\ x \notin S \ {t} /\ Whole(u, (S \ {t}) \cup {x}) /\ T \ {t} = (S \ {t}) \cup {x}
    BY <1>1, <1>4, FS_Subset DEF Whole
  <2>2. /\ Numbers!Product(u, S \ {t}) \in Int
        /\ Numbers!Product(u, (S \ {t}) \cup {x}) = u[x] * Numbers!Product(u, S \ {t})
    BY ONLY <2>1, ProductGains
  <2>3. a[t] \in Int
    BY <1>4 DEF Whole
  <2>4. f[t] = a[t] * Numbers!Product(u, (S \ {t}) \cup {x}) /\ e[t] = a[t] * Numbers!Product(u, S \ {t})
    BY <1>2, <1>3, <1>4, <2>1
  <2>5. \A i, j, k \in Int : i * (j * k) = j * (i * k) /\ i * k \in Int
    OBVIOUS
  <2> QED BY ONLY <1>5, <2>2, <2>3, <2>4, <2>5
<1>8. Whole(e, S) /\ \A t \in S : f[t] = u[x] * e[t]
  BY <1>7 DEF Whole
<1>9. Whole(f, S \cup {x})
  <2>1. \A i, j \in Int : i * j \in Int
    OBVIOUS
  <2>2. \A t \in S : f[t] \in Int
    BY <1>5, <1>7, <2>1
  <2> QED BY <1>6, <2>2 DEF Whole
<1>10. Numbers!Total(f, S \cup {x}) = f[x] + Numbers!Total(f, S)
  BY ONLY <1>9, IsFiniteSet(S), x \notin S, TotalGains
<1>11. Numbers!Total(f, S) = u[x] * Numbers!Total(e, S)
  BY <1>5, <1>8, TotalScales
<1>12. Numbers!Total(e, S) \in Int
  BY <1>8, TotalSame
<1>13. Combined(a, u, S \cup {x}) = Numbers!Total(f, S \cup {x}) /\ Combined(a, u, S) = Numbers!Total(e, S)
  BY <1>1, <1>2, <1>3 DEF Combined
<1> QED BY ONLY <1>5, <1>6, <1>10, <1>11, <1>12, <1>13

-----------------------------------------------------------------------------
(* Expressions.                                                            *)

Ops == {"+", "-", "*", "/"}
IsExpression(e, k) ==
    /\ k \in Nat /\ k > 0 /\ Len(e) = 2 * k - 1 /\ e \in Seq(Operands \cup Ops)
    /\ \A i \in 1 .. k : e[2 * i - 1] \in Int

\* What the loop appends.
Extends(e, k, op, v, f) ==
    /\ \A i \in 1 .. k : f[2 * i - 1] = e[2 * i - 1] /\ (i > 1 => f[2 * i - 2] = e[2 * i - 2])
    /\ f[2 * (k + 1) - 2] = op /\ f[2 * (k + 1) - 1] = v

\* An expression begins with an operand.
LEMMA FirstIs ==
    ASSUME NEW v \in Operands
    PROVE  IsExpression(<<v>>, 1) /\ <<v>>[1] = v /\ v \in Int
<1>1. v \in Int
  BY NumbersAssumption DEF NumbersAssumption
<1>2. <<v>> \in Seq(Operands \cup Ops) /\ Len(<<v>>) = 1 /\ <<v>>[1] = v
  OBVIOUS
<1>3. ASSUME NEW i \in 1 .. 1 PROVE <<v>>[2 * i - 1] \in Int
  <2>1. i = 1 /\ 2 * i - 1 = 1
    OBVIOUS
  <2> QED BY <1>1, <1>2, <2>1
<1> QED BY <1>1, <1>2, <1>3 DEF IsExpression

\* And grows by an operator and an operand.
LEMMA NextIs ==
    ASSUME NEW e, NEW k, IsExpression(e, k), NEW op \in Ops, NEW v \in Operands
    PROVE  /\ IsExpression(e \o <<op, v>>, k + 1) /\ Extends(e, k, op, v, e \o <<op, v>>)
           /\ v \in Int
<1>1. v \in Int
  BY NumbersAssumption DEF NumbersAssumption
<1>2. PICK f : f = e \o <<op, v>>
  OBVIOUS
<1>3. k \in Nat /\ k > 0 /\ Len(e) = 2 * k - 1 /\ e \in Seq(Operands \cup Ops)
  BY DEF IsExpression
<1>4. <<op, v>> \in Seq(Operands \cup Ops) /\ Len(<<op, v>>) = 2 /\ <<op, v>>[1] = op /\ <<op, v>>[2] = v
  OBVIOUS
<1>5. PICK X, T : X = Operands \cup Ops /\ T = <<op, v>> /\ T \in Seq(X) /\ e \in Seq(X) /\ f = e \o T
  BY <1>2, <1>3, <1>4
<1>6. /\ f \in Seq(X) /\ Len(f) = Len(e) + Len(T)
      /\ \A j \in 1 .. Len(e) + Len(T) : f[j] = IF j <= Len(e) THEN e[j] ELSE T[j - Len(e)]
  BY ONLY <1>5, ConcatProperties
<1>7. Len(T) = 2 /\ T[1] = op /\ T[2] = v /\ Len(e) \in Nat
  BY <1>3, <1>4, <1>5
<1>13. Len(f) = 2 * (k + 1) - 1 /\ f \in Seq(Operands \cup Ops)
  BY <1>3, <1>5, <1>6, <1>7
<1>8. ASSUME NEW i \in 1 .. k PROVE f[2 * i - 1] = e[2 * i - 1] /\ (i > 1 => f[2 * i - 2] = e[2 * i - 2])
  <2>1. 2 * i - 1 \in 1 .. Len(e) /\ (i > 1 => 2 * i - 2 \in 1 .. Len(e))
    BY <1>3
  <2>2. \A j \in 1 .. Len(e) : j \in 1 .. Len(e) + Len(T) /\ j <= Len(e)
    BY <1>7
  <2> QED BY <1>6, <2>1, <2>2
<1>9. f[2 * (k + 1) - 2] = op /\ f[2 * (k + 1) - 1] = v
  <2>1. 2 * (k + 1) - 2 = Len(e) + 1 /\ 2 * (k + 1) - 1 = Len(e) + 2
    BY <1>3
  <2>2. /\ Len(e) + 1 \in 1 .. Len(e) + Len(T) /\ ~(Len(e) + 1 <= Len(e)) /\ Len(e) + 1 - Len(e) = 1
        /\ Len(e) + 2 \in 1 .. Len(e) + Len(T) /\ ~(Len(e) + 2 <= Len(e)) /\ Len(e) + 2 - Len(e) = 2
    BY <1>7
  <2> QED BY <1>6, <1>7, <2>1, <2>2
<1>10. Extends(e, k, op, v, f)
  BY <1>8, <1>9 DEF Extends
<1>11. ASSUME NEW i \in 1 .. k + 1 PROVE f[2 * i - 1] \in Int
  <2>1. CASE i = k + 1
    BY <1>1, <1>9, <2>1
  <2>2. CASE i # k + 1
    <3>1. i \in 1 .. k
      BY <1>3, <2>2
    <3> QED BY <1>8, <3>1 DEF IsExpression
  <2> QED BY <2>1, <2>2
<1>12. IsExpression(f, k + 1)
  BY <1>3, <1>13, <1>11 DEF IsExpression
<1> QED BY <1>1, <1>2, <1>10, <1>12

-----------------------------------------------------------------------------
\* The terms of an expression.
LEMMA NumberedIs == ASSUME NEW e, NEW k, IsExpression(e, k) PROVE Numbers!Numbered(e) = 1 .. k
<1>1. k \in Nat /\ Len(e) = 2 * k - 1
  BY DEF IsExpression
<1>2. (2 * k - 1 + 1) \div 2 = k
  BY <1>1
<1> QED BY <1>1, <1>2 DEF Numbers!Numbered

\* The terms begin at some of the numbers, one of them at the first.
LEMMA StartsAre ==
    ASSUME NEW e, NEW k, IsExpression(e, k)
    PROVE  /\ Numbers!Starts(e) \subseteq 1 .. k /\ 1 \in Numbers!Starts(e)
           /\ IsFiniteSet(Numbers!Starts(e)) /\ k \in Nat
<1>1. Numbers!Numbered(e) = 1 .. k /\ k \in Nat /\ k > 0
  BY NumberedIs DEF IsExpression
<1>2. IsFiniteSet(1 .. k)
  BY <1>1, FS_Interval
<1>3. Numbers!Starts(e) \subseteq 1 .. k
  BY <1>1 DEF Numbers!Starts
<1>4. 1 \in Numbers!Starts(e)
  BY <1>1 DEF Numbers!Starts
<1> QED BY <1>1, <1>2, <1>3, <1>4, FS_Subset

\* An operand belongs to the last term that has begun.
LEMMA InTerm ==
    ASSUME NEW e, NEW k, IsExpression(e, k), NEW t \in Numbers!Starts(e), NEW i
    PROVE  i \in Numbers!TermOf(e, t) <=>
                i \in 1 .. k /\ t <= i /\ \A s \in Numbers!Starts(e) : ~(t < s /\ s <= i)
<1>1. Numbers!Numbered(e) = 1 .. k /\ k \in Nat /\ Numbers!Starts(e) \subseteq 1 .. k
  BY NumberedIs, StartsAre
<1>2. PICK B : B = Numbers!Starts(e) /\ B \subseteq 1 .. k /\ t \in B
  BY <1>1
<1>3. i \in Numbers!TermOf(e, t) <=> i \in 1 .. k /\ t <= i /\ B \cap (t + 1) .. i = {}
  BY <1>1, <1>2 DEF Numbers!TermOf
<1>4. ASSUME i \in 1 .. k PROVE B \cap (t + 1) .. i = {} <=> \A s \in B : ~(t < s /\ s <= i)
  <2>1. \A s \in B : s \in Int /\ t \in Int /\ i \in Int
    BY <1>2, <1>4
  <2>2. \A s \in B : s \in (t + 1) .. i <=> (t < s /\ s <= i)
    BY <2>1
  <2> QED BY <2>2
<1> QED BY <1>2, <1>3, <1>4

\* The factors of the terms.
Up(e) == [i \in Numbers!Numbered(e) |-> IF Numbers!Divides(e, i) THEN 100 ELSE e[2 * i - 1]]
Down(e) == [i \in Numbers!Numbered(e) |-> IF Numbers!Divides(e, i) THEN e[2 * i - 1] ELSE 100]

\* The factors are whole numbers.
LEMMA FactorsAreWhole ==
    ASSUME NEW e, NEW k, IsExpression(e, k)
    PROVE  \A i \in 1 .. k : Up(e)[i] \in Int /\ Down(e)[i] \in Int
<1>1. Numbers!Numbered(e) = 1 .. k
  BY NumberedIs
<1>2. \A i \in 1 .. k : e[2 * i - 1] \in Int
  BY DEF IsExpression
<1> QED BY <1>1, <1>2 DEF Up, Down

\* A new operand leaves the factors before it as they are.
LEMMA FactorsStay ==
    ASSUME NEW e, NEW k, IsExpression(e, k), NEW op, NEW v, NEW f, IsExpression(f, k + 1), Extends(e, k, op, v, f)
    PROVE  /\ \A i \in 1 .. k : Up(f)[i] = Up(e)[i] /\ Down(f)[i] = Down(e)[i]
           /\ Up(f)[k + 1] = (IF op = "/" THEN 100 ELSE v)
           /\ Down(f)[k + 1] = (IF op = "/" THEN v ELSE 100)
<1>1. Numbers!Numbered(e) = 1 .. k /\ Numbers!Numbered(f) = 1 .. (k + 1) /\ k \in Nat /\ k > 0
  BY NumberedIs DEF IsExpression
<1>2. ASSUME NEW i \in 1 .. k PROVE Up(f)[i] = Up(e)[i] /\ Down(f)[i] = Down(e)[i]
  <2>1. f[2 * i - 1] = e[2 * i - 1] /\ (Numbers!Divides(f, i) <=> Numbers!Divides(e, i))
    BY DEF Extends, Numbers!Divides
  <2>2. i \in 1 .. (k + 1)
    BY <1>1
  <2> QED BY <1>1, <2>1, <2>2 DEF Up, Down
<1>3. f[2 * (k + 1) - 1] = v /\ (Numbers!Divides(f, k + 1) <=> op = "/") /\ k + 1 \in 1 .. (k + 1)
  BY <1>1 DEF Extends, Numbers!Divides
<1> QED BY <1>1, <1>2, <1>3 DEF Up, Down

\* What spoils an expression: an operand that is unreadable, or a division by zero.
LEMMA DefinedIs ==
    ASSUME NEW e, NEW k, IsExpression(e, k), NEW op, NEW v, NEW f, IsExpression(f, k + 1), Extends(e, k, op, v, f)
    PROVE  Numbers!Defined(f) <=> Numbers!Defined(e) /\ Numbers!Readable(v) /\ ~(op = "/" /\ v = 0)
<1>1. Numbers!Numbered(e) = 1 .. k /\ Numbers!Numbered(f) = 1 .. (k + 1) /\ k \in Nat /\ k > 0
  BY NumberedIs DEF IsExpression
<1>2. \A i \in 1 .. k : /\ f[2 * i - 1] = e[2 * i - 1]
                        /\ Numbers!Divides(f, i) <=> Numbers!Divides(e, i)
  BY DEF Extends, Numbers!Divides
<1>3. f[2 * (k + 1) - 1] = v /\ (Numbers!Divides(f, k + 1) <=> op = "/")
  BY <1>1 DEF Extends, Numbers!Divides
<1>4. \A i : i \in 1 .. (k + 1) <=> i \in 1 .. k \/ i = k + 1
  BY <1>1
<1> QED BY <1>1, <1>2, <1>3, <1>4 DEF Numbers!Defined

\* A sign begins a term.
LEMMA StartsStay ==
    ASSUME NEW e, NEW k, IsExpression(e, k), NEW op, NEW v, NEW f, IsExpression(f, k + 1), Extends(e, k, op, v, f)
    PROVE  /\ Numbers!Starts(f) = Numbers!Starts(e) \cup (IF Numbers!Additive(op) THEN {k + 1} ELSE {})
           /\ \A t \in Numbers!Starts(e) : Numbers!Signed(f)[t] = Numbers!Signed(e)[t]
           /\ Numbers!Additive(op) => Numbers!Signed(f)[k + 1] = IF op = "-" THEN -1 ELSE 1
<1>1. Numbers!Numbered(e) = 1 .. k /\ Numbers!Numbered(f) = 1 .. (k + 1) /\ k \in Nat /\ k > 0
  BY NumberedIs DEF IsExpression
<1>2. \A i \in 1 .. k : i > 1 => f[2 * i - 2] = e[2 * i - 2]
  BY DEF Extends
<1>3. f[2 * (k + 1) - 2] = op /\ k + 1 # 1
  BY <1>1 DEF Extends
<1>4. \A i : i \in 1 .. (k + 1) <=> i \in 1 .. k \/ i = k + 1
  BY <1>1
<1>5. \A i : i \in Numbers!Starts(f) <=> i \in Numbers!Starts(e) \/ (i = k + 1 /\ Numbers!Additive(op))
  <2>1. \A i \in 1 .. k : i # 1 => i > 1
    OBVIOUS
  <2>2. k + 1 \notin 1 .. k
    BY <1>1
  <2> QED BY <1>1, <1>2, <1>3, <1>4, <2>1, <2>2 DEF Numbers!Starts
<1>6. Numbers!Starts(f) = Numbers!Starts(e) \cup (IF Numbers!Additive(op) THEN {k + 1} ELSE {})
  BY <1>5
<1>7. ASSUME NEW t \in Numbers!Starts(e) PROVE Numbers!Signed(f)[t] = Numbers!Signed(e)[t]
  <2>1. t \in Numbers!Starts(f) /\ t \in 1 .. k
    BY <1>1, <1>5 DEF Numbers!Starts
  <2>2. t > 1 => f[2 * t - 2] = e[2 * t - 2]
    BY <1>2, <2>1
  <2> QED BY <2>1, <2>2 DEF Numbers!Signed
<1>8. ASSUME Numbers!Additive(op) PROVE Numbers!Signed(f)[k + 1] = IF op = "-" THEN -1 ELSE 1
  <2>1. k + 1 \in Numbers!Starts(f) /\ k + 1 > 1
    BY <1>1, <1>5, <1>8
  <2> QED BY <1>3, <2>1 DEF Numbers!Signed
<1> QED BY <1>6, <1>7, <1>8

\* The term that is being read is the one that begins last.
IsLast(e, l) == l \in Numbers!Starts(e) /\ \A t \in Numbers!Starts(e) : t <= l

\* A sign leaves all terms as they are; another operator adds to the last one.
LEMMA TermsStay ==
    ASSUME NEW e, NEW k, IsExpression(e, k), NEW op, NEW v, NEW f, IsExpression(f, k + 1), Extends(e, k, op, v, f),
           NEW l, IsLast(e, l)
    PROVE  /\ Numbers!Additive(op) => /\ \A t \in Numbers!Starts(e) : Numbers!TermOf(f, t) = Numbers!TermOf(e, t)
                                      /\ Numbers!TermOf(f, k + 1) = {k + 1}
           /\ ~Numbers!Additive(op) =>
                 /\ \A t \in Numbers!Starts(e) \ {l} : Numbers!TermOf(f, t) = Numbers!TermOf(e, t)
                 /\ Numbers!TermOf(f, l) = Numbers!TermOf(e, l) \cup {k + 1}
<1>1. PICK B, C : B = Numbers!Starts(e) /\ C = Numbers!Starts(f)
  OBVIOUS
<1>2. B \subseteq 1 .. k /\ k \in Nat /\ l \in B /\ \A t \in B : t <= l
  BY <1>1, StartsAre DEF IsLast
<1>3. C = B \cup (IF Numbers!Additive(op) THEN {k + 1} ELSE {})
  BY <1>1, StartsStay
<1>4. \A t \in B : \A i : i \in Numbers!TermOf(e, t) <=> i \in 1 .. k /\ t <= i /\ \A s \in B : ~(t < s /\ s <= i)
  BY <1>1, InTerm
<1>5. \A t \in C : \A i : i \in Numbers!TermOf(f, t) <=> i \in 1 .. (k + 1) /\ t <= i /\ \A s \in C : ~(t < s /\ s <= i)
  BY <1>1, InTerm
<1>6. \A t \in B : t \in C /\ t \in Nat /\ t <= k
  BY <1>2, <1>3
<1>7. \A i : i \in 1 .. (k + 1) <=> i \in 1 .. k \/ i = k + 1
  BY <1>2
<1>8. ASSUME Numbers!Additive(op), NEW t \in B PROVE Numbers!TermOf(f, t) = Numbers!TermOf(e, t)
  <2>1. k + 1 \in C /\ C = B \cup {k + 1}
    BY <1>3, <1>8
  <2>2. k + 1 \notin Numbers!TermOf(f, t)
    BY <1>2, <1>5, <1>6, <2>1
  <2>3. ASSUME NEW i \in 1 .. k PROVE i \in Numbers!TermOf(f, t) <=> i \in Numbers!TermOf(e, t)
    <3>1. ~(k + 1 <= i)
      BY <1>2
    <3>2. (\A s \in C : ~(t < s /\ s <= i)) <=> (\A s \in B : ~(t < s /\ s <= i))
      BY <2>1, <3>1
    <3> QED BY <1>4, <1>5, <1>6, <1>7, <3>2
  <2> QED BY <1>4, <1>5, <1>6, <1>7, <2>2, <2>3
<1>9. ASSUME Numbers!Additive(op) PROVE Numbers!TermOf(f, k + 1) = {k + 1}
  <2>1. k + 1 \in C
    BY <1>3, <1>9
  <2>2. \A i : i \in Numbers!TermOf(f, k + 1) => i = k + 1
    BY <1>2, <1>5, <1>7, <2>1
  <2>3. \A s \in C : ~(k + 1 < s)
    BY <1>2, <1>3
  <2>4. k + 1 \in Numbers!TermOf(f, k + 1)
    BY <1>2, <1>5, <1>7, <2>1, <2>3
  <2> QED BY <2>2, <2>4
<1>10. ASSUME ~Numbers!Additive(op) PROVE C = B
  BY <1>3, <1>10
<1>11. ASSUME ~Numbers!Additive(op), NEW t \in B \ {l} PROVE Numbers!TermOf(f, t) = Numbers!TermOf(e, t)
  <2>1. t < l /\ l <= k + 1 /\ l \in B
    BY <1>2, <1>6
  <2>2. k + 1 \notin Numbers!TermOf(f, t)
    BY <1>5, <1>10, <1>11, <2>1
  <2> QED BY <1>4, <1>5, <1>7, <1>10, <1>11, <2>2
<1>12. ASSUME ~Numbers!Additive(op) PROVE Numbers!TermOf(f, l) = Numbers!TermOf(e, l) \cup {k + 1}
  <2>1. \A s \in B : ~(l < s)
    BY <1>2, <1>6
  <2>4. C = B /\ l \in C /\ k + 1 \in 1 .. (k + 1) /\ l <= k + 1
    BY <1>2, <1>6, <1>10, <1>12
  <2>2. k + 1 \in Numbers!TermOf(f, l)
    BY ONLY <1>5, <2>1, <2>4
  <2>3. \A i \in 1 .. k : i \in Numbers!TermOf(f, l) <=> i \in Numbers!TermOf(e, l)
    BY <1>2, <1>4, <1>5, <1>7, <1>10, <1>12
  <2> QED BY <1>2, <1>4, <1>5, <1>7, <1>10, <1>12, <2>2, <2>3
<1> QED BY <1>1, <1>8, <1>9, <1>11, <1>12

-----------------------------------------------------------------------------
\* The terms as fractions.
LEMMA TermIs ==
    ASSUME NEW e, NEW k, IsExpression(e, k), NEW t \in Numbers!Starts(e)
    PROVE  /\ IsFiniteSet(Numbers!TermOf(e, t)) /\ Numbers!TermOf(e, t) \subseteq 1 .. k
           /\ Whole(Up(e), Numbers!TermOf(e, t)) /\ Whole(Down(e), Numbers!TermOf(e, t))
           /\ Numbers!Over(e)[t] = Numbers!Product(Up(e), Numbers!TermOf(e, t)) /\ Numbers!Over(e)[t] \in Int
           /\ Numbers!Under(e)[t] = Numbers!Product(Down(e), Numbers!TermOf(e, t)) /\ Numbers!Under(e)[t] \in Int
           /\ Numbers!Signed(e)[t] \in Int
<1>1. \A i : i \in Numbers!TermOf(e, t) => i \in 1 .. k
  BY InTerm
<1>2. Numbers!TermOf(e, t) \subseteq 1 .. k /\ k \in Nat
  BY <1>1 DEF IsExpression
<1>3. IsFiniteSet(Numbers!TermOf(e, t))
  BY <1>2, FS_Interval, FS_Subset
<1>4. \A i \in 1 .. k : Up(e)[i] \in Int /\ Down(e)[i] \in Int
  BY FactorsAreWhole
<1>5. Whole(Up(e), Numbers!TermOf(e, t)) /\ Whole(Down(e), Numbers!TermOf(e, t))
  BY <1>2, <1>4 DEF Whole
<1>6. /\ Numbers!Product(Up(e), Numbers!TermOf(e, t)) \in Int
      /\ Numbers!Product(Down(e), Numbers!TermOf(e, t)) \in Int
  BY <1>3, <1>5, ProductSame
<1>7. /\ Numbers!Over(e)[t] = Numbers!Product(Up(e), Numbers!TermOf(e, t))
      /\ Numbers!Under(e)[t] = Numbers!Product(Down(e), Numbers!TermOf(e, t))
  BY DEF Numbers!Over, Numbers!Under, Up, Down
<1>8. Numbers!Signed(e)[t] \in Int
  BY DEF Numbers!Signed
<1> QED BY <1>2, <1>3, <1>5, <1>6, <1>7, <1>8

\* What a term is divided by is positive.
LEMMA UnderIsPositive ==
    ASSUME NEW e, NEW k, IsExpression(e, k), Numbers!Defined(e), NEW t \in Numbers!Starts(e)
    PROVE  Numbers!Under(e)[t] \in Int /\ Numbers!Under(e)[t] > 0
<1>1. Numbers!Numbered(e) = 1 .. k
  BY NumberedIs
<1>2. ASSUME NEW i \in 1 .. k PROVE Down(e)[i] \in Int /\ Down(e)[i] > 0
  <2>1. Down(e)[i] = IF Numbers!Divides(e, i) THEN e[2 * i - 1] ELSE 100
    BY <1>1 DEF Down
  <2>2. Numbers!Readable(e[2 * i - 1]) /\ ~(Numbers!Divides(e, i) /\ e[2 * i - 1] = 0)
    BY <1>1 DEF Numbers!Defined
  <2>3. e[2 * i - 1] \in Int /\ e[2 * i - 1] >= 0
    BY <2>2, NumbersAssumption DEF Numbers!Readable, NumbersAssumption
  <2> QED BY <2>1, <2>2, <2>3
<1>3. /\ IsFiniteSet(Numbers!TermOf(e, t)) /\ Numbers!TermOf(e, t) \subseteq 1 .. k
      /\ Numbers!Under(e)[t] = Numbers!Product(Down(e), Numbers!TermOf(e, t))
  BY TermIs
<1>4. \A i \in Numbers!TermOf(e, t) : Down(e)[i] \in Int /\ Down(e)[i] > 0
  BY <1>2, <1>3
<1> QED BY <1>3, <1>4, ProductIsPositive

\* Of one member.
LEMMA ProductOfOne == ASSUME NEW f, NEW x, f[x] \in Int PROVE Numbers!Product(f, {x}) = f[x]
<1>1. IsFiniteSet({}) /\ x \notin {} /\ {} \cup {x} = {x} /\ Whole(f, {} \cup {x})
  BY FS_EmptySet DEF Whole
<1>2. Numbers!Product(f, {} \cup {x}) = f[x] * Numbers!Product(f, {})
  BY <1>1, ProductGains
<1>3. Numbers!Product(f, {}) = 1
  BY ProductStarts
<1> QED BY <1>1, <1>2, <1>3

\* And so do the values of the terms.
LEMMA TermsContinue ==
    ASSUME NEW e, NEW k, IsExpression(e, k), NEW op, NEW v \in Int, NEW f, IsExpression(f, k + 1), Extends(e, k, op, v, f),
           NEW l, IsLast(e, l)
    PROVE  /\ Numbers!Additive(op) =>
                 /\ \A t \in Numbers!Starts(e) : /\ Numbers!Over(f)[t] = Numbers!Over(e)[t]
                                                 /\ Numbers!Under(f)[t] = Numbers!Under(e)[t]
                 /\ Numbers!Over(f)[k + 1] = v /\ Numbers!Under(f)[k + 1] = 100
           /\ ~Numbers!Additive(op) =>
                 /\ \A t \in Numbers!Starts(e) \ {l} : /\ Numbers!Over(f)[t] = Numbers!Over(e)[t]
                                                       /\ Numbers!Under(f)[t] = Numbers!Under(e)[t]
                 /\ Numbers!Over(f)[l] = (IF op = "/" THEN 100 ELSE v) * Numbers!Over(e)[l]
                 /\ Numbers!Under(f)[l] = (IF op = "/" THEN v ELSE 100) * Numbers!Under(e)[l]
<1>1. /\ \A i \in 1 .. k : Up(f)[i] = Up(e)[i] /\ Down(f)[i] = Down(e)[i]
      /\ Up(f)[k + 1] = (IF op = "/" THEN 100 ELSE v)
      /\ Down(f)[k + 1] = (IF op = "/" THEN v ELSE 100)
  BY FactorsStay
<1>2. /\ Numbers!Starts(f) = Numbers!Starts(e) \cup (IF Numbers!Additive(op) THEN {k + 1} ELSE {})
      /\ k \in Nat
  BY StartsStay DEF IsExpression
<1>3. ASSUME NEW t \in Numbers!Starts(e), Numbers!TermOf(f, t) = Numbers!TermOf(e, t)
      PROVE  Numbers!Over(f)[t] = Numbers!Over(e)[t] /\ Numbers!Under(f)[t] = Numbers!Under(e)[t]
  <2>1. PICK T : T = Numbers!TermOf(e, t) /\ T = Numbers!TermOf(f, t)
    BY <1>3
  <2>2. /\ IsFiniteSet(T) /\ T \subseteq 1 .. k /\ Whole(Up(e), T) /\ Whole(Down(e), T)
        /\ Numbers!Over(e)[t] = Numbers!Product(Up(e), T)
        /\ Numbers!Under(e)[t] = Numbers!Product(Down(e), T)
    BY <2>1, TermIs
  <2>3. t \in Numbers!Starts(f)
    BY <1>2
  <2>4. Numbers!Over(f)[t] = Numbers!Product(Up(f), T) /\ Numbers!Under(f)[t] = Numbers!Product(Down(f), T)
    BY <2>1, <2>3, TermIs
  <2>5. \A i \in T : Up(f)[i] = Up(e)[i] /\ Down(f)[i] = Down(e)[i]
    BY <1>1, <2>2
  <2>6. Numbers!Product(Up(f), T) = Numbers!Product(Up(e), T)
    BY ONLY <2>2, <2>5, ProductSame
  <2>7. Numbers!Product(Down(f), T) = Numbers!Product(Down(e), T)
    BY ONLY <2>2, <2>5, ProductSame
  <2> QED BY <2>2, <2>4, <2>6, <2>7
<1>4. /\ Numbers!Additive(op) => /\ \A t \in Numbers!Starts(e) : Numbers!TermOf(f, t) = Numbers!TermOf(e, t)
                                 /\ Numbers!TermOf(f, k + 1) = {k + 1}
      /\ ~Numbers!Additive(op) =>
            /\ \A t \in Numbers!Starts(e) \ {l} : Numbers!TermOf(f, t) = Numbers!TermOf(e, t)
            /\ Numbers!TermOf(f, l) = Numbers!TermOf(e, l) \cup {k + 1}
  BY TermsStay
<1>5. ASSUME Numbers!Additive(op) PROVE Numbers!Over(f)[k + 1] = v /\ Numbers!Under(f)[k + 1] = 100
  <2>1. op # "/"
    BY <1>5 DEF Numbers!Additive
  <2>2. Up(f)[k + 1] = v /\ Down(f)[k + 1] = 100
    BY <1>1, <2>1
  <2>3. k + 1 \in Numbers!Starts(f) /\ Numbers!TermOf(f, k + 1) = {k + 1}
    BY <1>2, <1>4, <1>5
  <2>4. /\ Numbers!Over(f)[k + 1] = Numbers!Product(Up(f), {k + 1})
        /\ Numbers!Under(f)[k + 1] = Numbers!Product(Down(f), {k + 1})
    BY <2>3, TermIs
  <2>5. PICK g, h, j : g = Up(f) /\ h = Down(f) /\ j = k + 1
    OBVIOUS
  <2>6. g[j] = v /\ g[j] \in Int /\ h[j] = 100 /\ h[j] \in Int
    BY <2>2, <2>5
  <2>7. Numbers!Product(g, {j}) = g[j]
    <3>1. g[j] \in Int
      BY ONLY <2>6
    <3> QED BY ONLY <3>1, ProductOfOne
  <2>8. Numbers!Product(h, {j}) = h[j]
    <3>1. h[j] \in Int
      BY ONLY <2>6
    <3> QED BY ONLY <3>1, ProductOfOne
  <2> QED BY <2>4, <2>5, <2>6, <2>7, <2>8
<1>6. ASSUME ~Numbers!Additive(op)
      PROVE  /\ Numbers!Over(f)[l] = (IF op = "/" THEN 100 ELSE v) * Numbers!Over(e)[l]
             /\ Numbers!Under(f)[l] = (IF op = "/" THEN v ELSE 100) * Numbers!Under(e)[l]
  <2>1. PICK T : T = Numbers!TermOf(e, l) /\ Numbers!TermOf(f, l) = T \cup {k + 1}
    BY <1>4, <1>6
  <2>2. l \in Numbers!Starts(e) /\ l \in Numbers!Starts(f)
    BY <1>2 DEF IsLast
  <2>3. /\ IsFiniteSet(T) /\ T \subseteq 1 .. k /\ Whole(Up(e), T) /\ Whole(Down(e), T)
        /\ Numbers!Over(e)[l] = Numbers!Product(Up(e), T)
        /\ Numbers!Under(e)[l] = Numbers!Product(Down(e), T)
    BY <2>1, <2>2, TermIs
  <2>4. /\ Whole(Up(f), T \cup {k + 1}) /\ Whole(Down(f), T \cup {k + 1})
        /\ Numbers!Over(f)[l] = Numbers!Product(Up(f), T \cup {k + 1})
        /\ Numbers!Under(f)[l] = Numbers!Product(Down(f), T \cup {k + 1})
    BY <2>1, <2>2, TermIs
  <2>5. k + 1 \notin T
    BY <1>2, <2>3
  <2>6. Numbers!Product(Up(f), T \cup {k + 1}) = Up(f)[k + 1] * Numbers!Product(Up(f), T)
    BY ONLY <2>3, <2>4, <2>5, ProductGains
  <2>7. Numbers!Product(Down(f), T \cup {k + 1}) = Down(f)[k + 1] * Numbers!Product(Down(f), T)
    BY ONLY <2>3, <2>4, <2>5, ProductGains
  <2>8. \A i \in T : Up(f)[i] = Up(e)[i] /\ Down(f)[i] = Down(e)[i]
    BY <1>1, <2>3
  <2>9. Numbers!Product(Up(f), T) = Numbers!Product(Up(e), T)
    BY ONLY <2>3, <2>8, ProductSame
  <2>10. Numbers!Product(Down(f), T) = Numbers!Product(Down(e), T)
    BY ONLY <2>3, <2>8, ProductSame
  <2> QED BY ONLY <1>1, <2>3, <2>4, <2>6, <2>7, <2>9, <2>10
<1> QED BY <1>3, <1>4, <1>5, <1>6

-----------------------------------------------------------------------------
\* What the accumulators hold: the term that is being read, and the sum of those
\* before it.
Terms(e) == [t \in Numbers!Starts(e) |-> Numbers!Signed(e)[t] * Numbers!Over(e)[t]]
Sums == [n : Int, d : Int, sn : Int, sd : Int, sign : Int]
Reads(e, s, l) ==
    /\ IsLast(e, l) /\ s \in Sums
    /\ s.n = Numbers!Over(e)[l] /\ s.d = Numbers!Under(e)[l] /\ s.sign = Numbers!Signed(e)[l]
    /\ s.sn = Combined(Terms(e), Numbers!Under(e), Numbers!Starts(e) \ {l})
    /\ s.sd = Numbers!Product(Numbers!Under(e), Numbers!Starts(e) \ {l})

\* The fractions of the terms are of whole numbers.
LEMMA TermsAreWhole ==
    ASSUME NEW e, NEW k, IsExpression(e, k)
    PROVE  /\ Whole(Terms(e), Numbers!Starts(e)) /\ Whole(Numbers!Under(e), Numbers!Starts(e))
           /\ IsFiniteSet(Numbers!Starts(e))
<1>1. ASSUME NEW t \in Numbers!Starts(e) PROVE Terms(e)[t] \in Int /\ Numbers!Under(e)[t] \in Int
  <2>1. Numbers!Over(e)[t] \in Int /\ Numbers!Under(e)[t] \in Int /\ Numbers!Signed(e)[t] \in Int
    BY TermIs
  <2>2. Terms(e)[t] = Numbers!Signed(e)[t] * Numbers!Over(e)[t]
    BY DEF Terms
  <2> QED BY ONLY <2>1, <2>2
<1> QED BY <1>1, StartsAre DEF Whole

\* Their sum is the numerator of the expression.
LEMMA NumeratorIs ==
    ASSUME NEW e
    PROVE  Numbers!Numerator(e) = Combined(Terms(e), Numbers!Under(e), Numbers!Starts(e))
<1>1. PICK S : S = Numbers!Starts(e)
  OBVIOUS
<1>2. \A t \in S : Terms(e)[t] = Numbers!Signed(e)[t] * Numbers!Over(e)[t]
  BY <1>1 DEF Terms
<1>3. [t \in S |-> Terms(e)[t] * Numbers!Product(Numbers!Under(e), S \ {t})]
      = [t \in S |-> Numbers!Signed(e)[t] * Numbers!Over(e)[t] * Numbers!Product(Numbers!Under(e), S \ {t})]
  BY <1>2
<1> QED BY <1>1, <1>3 DEF Numbers!Numerator, Combined

\* The accumulators, joined, are the value of the expression.
LEMMA JoinedIs ==
    ASSUME NEW e, NEW k, IsExpression(e, k), NEW s, NEW l, Reads(e, s, l)
    PROVE  /\ Numbers!Joined(s).n = Numbers!Numerator(e) /\ Numbers!Joined(s).d = Numbers!Denominator(e)
           /\ Numbers!Numerator(e) \in Int /\ Numbers!Denominator(e) \in Int
<1>1. PICK S, R, a, u : S = Numbers!Starts(e) /\ R = S \ {l} /\ a = Terms(e) /\ u = Numbers!Under(e)
  OBVIOUS
<1>2. l \in S /\ Whole(a, S) /\ Whole(u, S) /\ IsFiniteSet(S)
  BY <1>1, TermsAreWhole DEF Reads, IsLast
<1>3. S = R \cup {l} /\ l \notin R /\ IsFiniteSet(R) /\ Whole(a, R \cup {l}) /\ Whole(u, R \cup {l})
  <2>1. S = R \cup {l} /\ R \subseteq S
    BY <1>1, <1>2
  <2> QED BY <1>1, <1>2, <2>1, FS_Subset
<1>4. Combined(a, u, R \cup {l}) = Combined(a, u, R) * u[l] + a[l] * Numbers!Product(u, R)
  BY ONLY <1>3, CombinedGains
<1>5. Numbers!Product(u, R \cup {l}) = u[l] * Numbers!Product(u, R)
  BY ONLY <1>3, ProductGains
<1>6. Numbers!Numerator(e) = Combined(a, u, R \cup {l}) /\ Numbers!Denominator(e) = Numbers!Product(u, R \cup {l})
  BY <1>1, <1>3, NumeratorIs DEF Numbers!Denominator
<1>7. /\ s.n \in Int /\ s.d \in Int /\ s.sn \in Int /\ s.sd \in Int /\ s.sign \in Int
      /\ s.d = u[l] /\ s.sn = Combined(a, u, R) /\ s.sd = Numbers!Product(u, R)
      /\ s.n = Numbers!Over(e)[l] /\ s.sign = Numbers!Signed(e)[l]
  BY <1>1 DEF Reads, Sums
<1>8. a[l] = s.sign * s.n
  BY <1>1, <1>2, <1>7 DEF Terms
<1>9. Numbers!Joined(s).n = s.sn * s.d + s.sign * s.n * s.sd /\ Numbers!Joined(s).d = s.sd * s.d
  BY DEF Numbers!Joined
<1>10. PICK n \in Int, d \in Int, sn \in Int, sd \in Int, sign \in Int :
          n = s.n /\ d = s.d /\ sn = s.sn /\ sd = s.sd /\ sign = s.sign
  BY <1>7
<1>11. Numbers!Numerator(e) = sn * d + (sign * n) * sd /\ Numbers!Denominator(e) = d * sd
  BY <1>4, <1>5, <1>6, <1>7, <1>8, <1>10
<1>12. Numbers!Joined(s).n = sn * d + sign * n * sd /\ Numbers!Joined(s).d = sd * d
  BY <1>9, <1>10
<1>13. sd * d = d * sd /\ d * sd \in Int /\ sn * d + sign * n * sd \in Int
  OBVIOUS
<1> QED BY ONLY <1>11, <1>12, <1>13

\* The accumulators after the first operand.
LEMMA FirstReads ==
    ASSUME NEW v \in Operands
    PROVE  Reads(<<v>>, Numbers!FirstOperand(v), 1)
<1>1. PICK e : e = <<v>>
  OBVIOUS
<1>2. IsExpression(e, 1) /\ e[1] = v /\ v \in Int
  BY <1>1, FirstIs
<1>3. \A i : i \in 1 .. 1 <=> i = 1
  OBVIOUS
<1>4. Numbers!Numbered(e) = 1 .. 1
  BY <1>2, NumberedIs
<1>5. Numbers!Starts(e) = {1}
  BY <1>3, <1>4 DEF Numbers!Starts
<1>6. Numbers!TermOf(e, 1) = {1}
  <2>1. \A i : i \in Numbers!TermOf(e, 1) <=> i \in 1 .. 1 /\ 1 <= i /\ \A s \in Numbers!Starts(e) : ~(1 < s /\ s <= i)
    BY <1>2, <1>5, InTerm
  <2>2. ~(1 < 1)
    OBVIOUS
  <2> QED BY <1>3, <1>5, <2>1, <2>2
<1>7. Up(e)[1] = v /\ Down(e)[1] = 100
  <2>1. ~Numbers!Divides(e, 1)
    BY DEF Numbers!Divides
  <2>2. 2 * 1 - 1 = 1
    OBVIOUS
  <2> QED BY <1>2, <1>3, <1>4, <2>1, <2>2 DEF Up, Down
<1>8. Numbers!Over(e)[1] = v /\ Numbers!Under(e)[1] = 100
  <2>1. PICK g, h : g = Up(e) /\ h = Down(e)
    OBVIOUS
  <2>2. Numbers!Over(e)[1] = Numbers!Product(g, {1}) /\ Numbers!Under(e)[1] = Numbers!Product(h, {1})
    BY <1>2, <1>5, <1>6, <2>1, TermIs
  <2>3. Numbers!Product(g, {1}) = g[1]
    <3>1. g[1] \in Int
      BY <1>2, <1>7, <2>1
    <3> QED BY ONLY <3>1, ProductOfOne
  <2>4. Numbers!Product(h, {1}) = h[1]
    <3>1. h[1] \in Int
      BY <1>7, <2>1
    <3> QED BY ONLY <3>1, ProductOfOne
  <2> QED BY <1>7, <2>1, <2>2, <2>3, <2>4
<1>9. Numbers!Signed(e)[1] = 1
  BY <1>5 DEF Numbers!Signed
<1>10. IsLast(e, 1)
  BY <1>5 DEF IsLast
<1>11. Numbers!Starts(e) \ {1} = {}
  BY <1>5
<1>12. PICK s : s = Numbers!FirstOperand(v)
  OBVIOUS
<1>13. s \in Sums /\ s.n = v /\ s.d = 100 /\ s.sn = 0 /\ s.sd = 1 /\ s.sign = 1
  BY <1>2, <1>12 DEF Numbers!FirstOperand, Sums
<1>14. Combined(Terms(e), Numbers!Under(e), {}) = 0 /\ Numbers!Product(Numbers!Under(e), {}) = 1
  BY CombinedStarts, ProductStarts
<1> QED BY <1>1, <1>8, <1>9, <1>10, <1>11, <1>12, <1>13, <1>14 DEF Reads

\* A product joins the sum when the next term begins.
LEMMA NextTermReads ==
    ASSUME NEW e, NEW k, IsExpression(e, k), NEW op, NEW v \in Int, NEW f, IsExpression(f, k + 1), Extends(e, k, op, v, f),
           NEW s, NEW l, Reads(e, s, l), Numbers!Additive(op)
    PROVE  Reads(f, Numbers!Fold(s, op, v), k + 1)
<1>1. PICK S : S = Numbers!Starts(e)
  OBVIOUS
<1>2. S \subseteq 1 .. k /\ k \in Nat /\ IsLast(e, l)
  BY <1>1, StartsAre DEF Reads
<1>3. /\ Numbers!Starts(f) = S \cup {k + 1}
      /\ \A t \in S : Numbers!Signed(f)[t] = Numbers!Signed(e)[t]
      /\ Numbers!Signed(f)[k + 1] = IF op = "-" THEN -1 ELSE 1
  BY <1>1, StartsStay
<1>4. /\ \A t \in S : Numbers!Over(f)[t] = Numbers!Over(e)[t] /\ Numbers!Under(f)[t] = Numbers!Under(e)[t]
      /\ Numbers!Over(f)[k + 1] = v /\ Numbers!Under(f)[k + 1] = 100
  BY <1>1, <1>2, TermsContinue
<1>5. Numbers!Starts(f) \ {k + 1} = S /\ IsLast(f, k + 1)
  <2>1. k + 1 \notin S /\ (\A t \in S : t <= k + 1) /\ k + 1 <= k + 1
    BY <1>2
  <2>2. Numbers!Starts(f) = S \cup {k + 1}
    BY <1>3
  <2>3. Numbers!Starts(f) \ {k + 1} = S
    BY ONLY <2>1, <2>2
  <2>4. \A t \in S \cup {k + 1} : t <= k + 1
    BY ONLY <2>1
  <2> QED BY ONLY <2>2, <2>3, <2>4 DEF IsLast
<1>6. PICK a, u, b, w : a = Terms(e) /\ u = Numbers!Under(e) /\ b = Terms(f) /\ w = Numbers!Under(f)
  OBVIOUS
<1>7. Whole(a, S) /\ Whole(u, S) /\ IsFiniteSet(S)
  BY <1>1, <1>6, TermsAreWhole
<1>8. \A t \in S : b[t] = a[t] /\ w[t] = u[t]
  BY <1>1, <1>3, <1>4, <1>6 DEF Terms
<1>9. Combined(b, w, S) = Combined(a, u, S)
  BY ONLY <1>7, <1>8, CombinedSame
<1>10. Numbers!Product(w, S) = Numbers!Product(u, S)
  BY ONLY <1>7, <1>8, ProductSame
<1>11. /\ Numbers!Joined(s).n = Numbers!Numerator(e) /\ Numbers!Joined(s).d = Numbers!Denominator(e)
       /\ Numbers!Numerator(e) \in Int /\ Numbers!Denominator(e) \in Int
  BY JoinedIs
<1>12. Numbers!Numerator(e) = Combined(a, u, S) /\ Numbers!Denominator(e) = Numbers!Product(u, S)
  BY <1>1, <1>6, NumeratorIs DEF Numbers!Denominator
<1>13. PICK n, d : n = Numbers!Joined(s).n /\ d = Numbers!Joined(s).d
  OBVIOUS
<1>14. PICK r : r = Numbers!Fold(s, op, v)
  OBVIOUS
<1>15. r = [n |-> v, d |-> 100, sn |-> n, sd |-> d, sign |-> IF op = "+" THEN 1 ELSE -1]
  <2>1. op # "/" /\ op # "*"
    BY DEF Numbers!Additive
  <2> QED BY <1>13, <1>14, <2>1 DEF Numbers!Fold
<1>16. n \in Int /\ d \in Int /\ n = Combined(b, w, S) /\ d = Numbers!Product(w, S)
  BY <1>9, <1>10, <1>11, <1>12, <1>13
<1>17. (IF op = "+" THEN 1 ELSE -1) = (IF op = "-" THEN -1 ELSE 1)
  BY DEF Numbers!Additive
<1>18. r \in Sums /\ r.n = v /\ r.d = 100 /\ r.sn = n /\ r.sd = d /\ r.sign = IF op = "-" THEN -1 ELSE 1
  BY <1>15, <1>16, <1>17 DEF Sums
<1> QED BY <1>3, <1>4, <1>5, <1>6, <1>14, <1>16, <1>18 DEF Reads

\* A factor or a divisor belongs to the term that is being read.
LEMMA NextFactorReads ==
    ASSUME NEW e, NEW k, IsExpression(e, k), NEW op \in {"*", "/"}, NEW v \in Int, NEW f, IsExpression(f, k + 1),
           Extends(e, k, op, v, f), NEW s, NEW l, Reads(e, s, l), ~(op = "/" /\ v = 0)
    PROVE  Reads(f, Numbers!Fold(s, op, v), l)
<1>1. PICK S, R : S = Numbers!Starts(e) /\ R = S \ {l}
  OBVIOUS
<1>2. IsLast(e, l) /\ l \in S
  BY <1>1 DEF Reads, IsLast
<1>3. ~Numbers!Additive(op)
  BY DEF Numbers!Additive
<1>4. /\ Numbers!Starts(f) = S /\ \A t \in S : Numbers!Signed(f)[t] = Numbers!Signed(e)[t]
  BY <1>1, <1>3, StartsStay
<1>5. /\ \A t \in R : Numbers!Over(f)[t] = Numbers!Over(e)[t] /\ Numbers!Under(f)[t] = Numbers!Under(e)[t]
      /\ Numbers!Over(f)[l] = (IF op = "/" THEN 100 ELSE v) * Numbers!Over(e)[l]
      /\ Numbers!Under(f)[l] = (IF op = "/" THEN v ELSE 100) * Numbers!Under(e)[l]
  BY <1>1, <1>2, <1>3, TermsContinue
<1>6. IsLast(f, l)
  BY <1>1, <1>2, <1>4 DEF IsLast
<1>7. PICK a, u, b, w : a = Terms(e) /\ u = Numbers!Under(e) /\ b = Terms(f) /\ w = Numbers!Under(f)
  OBVIOUS
<1>8. Whole(a, R) /\ Whole(u, R) /\ IsFiniteSet(R)
  <2>1. Whole(a, S) /\ Whole(u, S) /\ IsFiniteSet(S) /\ R \subseteq S
    BY <1>1, <1>7, TermsAreWhole
  <2> QED BY <2>1, FS_Subset DEF Whole
<1>9. \A t \in R : b[t] = a[t] /\ w[t] = u[t]
  BY <1>1, <1>4, <1>5, <1>7 DEF Terms
<1>10. Combined(b, w, R) = Combined(a, u, R)
  BY ONLY <1>8, <1>9, CombinedSame
<1>11. Numbers!Product(w, R) = Numbers!Product(u, R)
  BY ONLY <1>8, <1>9, ProductSame
<1>12. PICK x, y : x = (IF op = "/" THEN 100 ELSE v) /\ y = (IF op = "/" THEN v ELSE 100)
  OBVIOUS
<1>13. PICK r : r = Numbers!Fold(s, op, v)
  OBVIOUS
<1>14. r = [s EXCEPT !.n = @ * x, !.d = @ * y]
  <2>1. CASE op = "/"
    <3>1. r = [s EXCEPT !.n = @ * 100, !.d = @ * v]
      BY <1>3, <1>13, <2>1 DEF Numbers!Fold
    <3> QED BY <1>12, <2>1, <3>1
  <2>2. CASE op = "*"
    <3>1. r = [s EXCEPT !.n = @ * v, !.d = @ * 100]
      BY <1>3, <1>13, <2>2 DEF Numbers!Fold
    <3> QED BY <1>12, <2>2, <3>1
  <2> QED BY <2>1, <2>2
<1>15. /\ s \in Sums /\ x \in Int /\ y \in Int /\ s.n \in Int /\ s.d \in Int
  BY <1>12 DEF Reads, Sums
<1>16. r.n = x * s.n /\ r.d = y * s.d /\ r.sn = s.sn /\ r.sd = s.sd /\ r.sign = s.sign /\ r \in Sums
  <2>1. PICK z, y2 : z = s.n * x /\ y2 = s.d * y
    OBVIOUS
  <2>2. z \in Int /\ y2 \in Int /\ z = x * s.n /\ y2 = y * s.d
    BY <1>15, <2>1
  <2>3. r = [s EXCEPT !.n = z, !.d = y2]
    BY <1>14, <2>1
  <2>4. /\ r.n = z /\ r.d = y2 /\ r.sn = s.sn /\ r.sd = s.sd /\ r.sign = s.sign
        /\ r \in [n : Int, d : Int, sn : Int, sd : Int, sign : Int]
    <3>1. s \in [n : Int, d : Int, sn : Int, sd : Int, sign : Int]
      BY <1>15 DEF Sums
    <3> QED BY ONLY <2>2, <2>3, <3>1
  <2> QED BY <2>2, <2>4 DEF Sums
<1>17. /\ s.n = Numbers!Over(e)[l] /\ s.d = u[l] /\ s.sign = Numbers!Signed(e)[l]
       /\ s.sn = Combined(a, u, R) /\ s.sd = Numbers!Product(u, R)
  BY <1>1, <1>7 DEF Reads
<1>18. r.n = Numbers!Over(f)[l] /\ r.d = w[l] /\ r.sign = Numbers!Signed(f)[l]
  BY <1>2, <1>4, <1>5, <1>7, <1>12, <1>16, <1>17
<1>19. r.sn = Combined(b, w, R) /\ r.sd = Numbers!Product(w, R)
  BY <1>10, <1>11, <1>16, <1>17
<1> QED BY <1>1, <1>4, <1>6, <1>7, <1>13, <1>16, <1>18, <1>19 DEF Reads

-----------------------------------------------------------------------------
\* One quotient and one remainder.
LEMMA EuclideanIsUnique ==
    ASSUME NEW d \in Int, d > 0, NEW q \in Int, NEW r \in Int, r >= 0, r < d, NEW i \in Int, i * d = d * q + r
    PROVE  r = 0 /\ q = i
<1>1. PICK z \in Int : z = i - q
  OBVIOUS
<1>2. z * d = r
  <2>1. (i - q) * d = i * d - d * q
    OBVIOUS
  <2>2. i * d \in Int /\ d * q \in Int
    OBVIOUS
  <2> QED BY <1>1, <2>1, <2>2
<1>3. z = 0
  <2>1. ASSUME z >= 1 PROVE FALSE
    <3>1. z * d >= d
      BY <2>1
    <3> QED BY <1>2, <3>1
  <2>2. ASSUME z <= -1 PROVE FALSE
    <3>1. z * d <= -d
      BY <2>2
    <3> QED BY <1>2, <3>1
  <2> QED BY <2>1, <2>2
<1> QED BY <1>1, <1>2, <1>3

\* The amount of such accumulators is the value of the expression.
LEMMA AmountIsExact ==
    ASSUME NEW e, NEW k, IsExpression(e, k), NEW s, NEW l, Reads(e, s, l), Numbers!Defined(e), s # None,
           NEW m, m = Numbers!AmountOf(s)
    PROVE  IF m # None THEN m \in Numbers!Values(e) ELSE Numbers!Values(e) = {}
<1>1. PICK n \in Int, d \in Int : n = Numbers!Numerator(e) /\ d = Numbers!Denominator(e)
  BY JoinedIs
<1>2. Numbers!Joined(s).n = n /\ Numbers!Joined(s).d = d
  BY <1>1, JoinedIs
<1>3. d > 0
  <2>1. \A t \in Numbers!Starts(e) : Numbers!Under(e)[t] \in Int /\ Numbers!Under(e)[t] > 0
    BY UnderIsPositive
  <2>2. IsFiniteSet(Numbers!Starts(e))
    BY StartsAre
  <2> QED BY <1>1, <2>1, <2>2, ProductIsPositive DEF Numbers!Denominator
<1>4. PICK x \in Int : x = n * 100
  OBVIOUS
<1>5. /\ x \div d \in Int /\ x % d \in Int /\ x % d >= 0 /\ x % d < d /\ x = d * (x \div d) + (x % d)
  BY <1>3, QuotientIs
<1>6. PICK q \in Int, r \in Int : q = x \div d /\ r = x % d /\ r >= 0 /\ r < d /\ x = d * q + r
  BY <1>5
<1>7. m = IF r = 0 /\ q \in 1 .. MaxMinor THEN q ELSE None
  BY <1>2, <1>4, <1>6 DEF Numbers!AmountOf
<1>8. \A i \in 1 .. MaxMinor : i \in Numbers!Values(e) <=> i * d = x
  <2>1. n * 100 = 100 * n
    OBVIOUS
  <2> QED BY <1>1, <1>4, <2>1 DEF Numbers!Values
<1>9. ASSUME NEW i \in Int, i * d = x PROVE r = 0 /\ q = i
  BY <1>3, <1>6, <1>9, EuclideanIsUnique
<1>10. CASE r = 0 /\ q \in 1 .. MaxMinor
  <2>1. m = q /\ q * d = x /\ m # None
    <3>1. q # None
      BY NumbersAssumption DEF NumbersAssumption
    <3>2. d * q + 0 = q * d
      BY <1>3
    <3> QED BY <1>6, <1>7, <1>10, <3>1, <3>2
  <2> QED BY <1>8, <1>10, <2>1
<1>11. CASE ~(r = 0 /\ q \in 1 .. MaxMinor)
  <2>1. m = None
    BY <1>7, <1>11
  <2>2. \A i \in 1 .. MaxMinor : i \in Int
    OBVIOUS
  <2>3. Numbers!Values(e) \subseteq 1 .. MaxMinor
    BY DEF Numbers!Values
  <2> QED BY <1>8, <1>9, <1>11, <2>1, <2>2, <2>3
<1> QED BY <1>10, <1>11

-----------------------------------------------------------------------------
(* The invariant.                                                          *)

\* The loop has read the expression up to here: the accumulators hold its last
\* term and the sum of those before, unless a part of it was refused.
ReadInv ==
    IF expression = <<>>
    THEN sums = None /\ minor = None
    ELSE \E k : /\ IsExpression(expression, k)
                /\ IF sums = None THEN ~Numbers!Defined(expression) /\ minor = None
                   ELSE /\ Numbers!Defined(expression) /\ \E l : Reads(expression, sums, l)
                        /\ minor = Numbers!AmountOf(sums)

NumbersInv ==
    /\ ReadInv
    /\ expression = <<>> => converted = None
    /\ minor \in {None} \cup 1 .. MaxMinor
    /\ Numbers!ConversionsAreNearest
    /\ Numbers!RangesAreWhole
    /\ Numbers!TimesAreAsSaid

\* Before anything is read.
LEMMA NumbersStart == MCInit => NumbersInv
BY DEF MCInit, Numbers!NumbersInit, NumbersInv, ReadInv, Numbers!ConversionsAreNearest, Numbers!RangesAreWhole,
       Numbers!TimesAreAsSaid

\* An amount is one that can be paid.
LEMMA AmountRange == ASSUME NEW s PROVE Numbers!AmountOf(s) \in {None} \cup 1 .. MaxMinor
  BY DEF Numbers!AmountOf

\* The relation between the accumulators and the expression makes the amount exact.
LEMMA AmountsAre == ASSUME NumbersInv PROVE Numbers!AmountsAreExact
<1>1. SUFFICES ASSUME expression # <<>>
      PROVE  IF minor # None THEN minor \in Numbers!Values(expression) ELSE Numbers!Values(expression) = {}
  BY DEF Numbers!AmountsAreExact
<1>2. PICK k : /\ IsExpression(expression, k)
               /\ IF sums = None THEN ~Numbers!Defined(expression) /\ minor = None
                  ELSE /\ Numbers!Defined(expression) /\ \E l : Reads(expression, sums, l)
                       /\ minor = Numbers!AmountOf(sums)
  BY <1>1 DEF NumbersInv, ReadInv
<1>3. CASE sums = None
  BY <1>2, <1>3 DEF Numbers!Values
<1>4. CASE sums # None
  <2>1. PICK l : Reads(expression, sums, l)
    BY <1>2, <1>4
  <2>2. IsExpression(expression, k) /\ Numbers!Defined(expression) /\ minor = Numbers!AmountOf(sums)
    BY <1>2, <1>4
  <2> QED BY ONLY <1>4, <2>1, <2>2, AmountIsExact
<1> QED BY <1>3, <1>4

\* What is not touched stays right.
LEMMA ConversionStays ==
    ASSUME converted' = converted, minor' = minor \/ converted = None, Numbers!ConversionsAreNearest
    PROVE  Numbers!ConversionsAreNearest'
BY DEF Numbers!ConversionsAreNearest, Numbers!Worth

\* Nor what was answered.
LEMMA ReplyStays ==
    ASSUME reply' = reply, Numbers!RangesAreWhole, Numbers!TimesAreAsSaid
    PROVE  Numbers!RangesAreWhole' /\ Numbers!TimesAreAsSaid'
BY DEF Numbers!RangesAreWhole, Numbers!TimesAreAsSaid

\* The first operand.
LEMMA ReadFirstStays == ASSUME NumbersInv, NEW v \in Operands, Numbers!ReadFirst(v) PROVE NumbersInv'
<1>1. IsExpression(<<v>>, 1) /\ <<v>>[1] = v /\ v \in Int
  BY FirstIs
<1>2. Numbers!Defined(<<v>>) <=> Numbers!Readable(v)
  <2>1. Numbers!Numbered(<<v>>) = 1 .. 1
    BY <1>1, NumberedIs
  <2>2. (\A i : i \in 1 .. 1 <=> i = 1) /\ 2 * 1 - 1 = 1 /\ ~Numbers!Divides(<<v>>, 1)
    BY DEF Numbers!Divides
  <2> QED BY <1>1, <2>1, <2>2 DEF Numbers!Defined
<1>3. PICK e, s : e = <<v>> /\ s = Numbers!FirstOperand(v)
  OBVIOUS
<1>4. Reads(e, s, 1) /\ e # <<>>
  BY <1>3, FirstReads
<1>5. s # None
  BY <1>4, NumbersAssumption DEF Reads, Sums, NumbersAssumption
<1>6. /\ expression' = e /\ sums' = IF Numbers!Readable(v) THEN s ELSE None
      /\ minor' = IF Numbers!Readable(v) THEN Numbers!AmountOf(s) ELSE None
      /\ converted' = converted /\ reply' = reply /\ expression = <<>>
  BY <1>3 DEF Numbers!ReadFirst
<1>7. ReadInv'
  <2>1. CASE Numbers!Readable(v)
    BY <1>1, <1>2, <1>3, <1>4, <1>5, <1>6, <2>1 DEF ReadInv
  <2>2. CASE ~Numbers!Readable(v)
    BY <1>1, <1>2, <1>3, <1>4, <1>6, <2>2 DEF ReadInv
  <2> QED BY <2>1, <2>2
<1>8. minor' \in {None} \cup 1 .. MaxMinor
  BY <1>6, AmountRange
<1>9. converted = None
  BY <1>6 DEF NumbersInv
<1>10. Numbers!ConversionsAreNearest' /\ Numbers!RangesAreWhole' /\ Numbers!TimesAreAsSaid'
  BY <1>6, <1>9, ConversionStays, ReplyStays DEF NumbersInv
<1> QED BY <1>4, <1>6, <1>7, <1>8, <1>10 DEF NumbersInv

\* An operator and an operand.
LEMMA ReadNextStays == ASSUME NumbersInv, NEW op \in Ops, NEW v \in Operands, Numbers!ReadNext(op, v) PROVE NumbersInv'
<1>1. expression # <<>> /\ converted = None /\ converted' = converted /\ reply' = reply
  BY DEF Numbers!ReadNext
<1>2. PICK k : /\ IsExpression(expression, k)
               /\ IF sums = None THEN ~Numbers!Defined(expression) /\ minor = None
                  ELSE /\ Numbers!Defined(expression) /\ \E l : Reads(expression, sums, l)
                       /\ minor = Numbers!AmountOf(sums)
  BY <1>1 DEF NumbersInv, ReadInv
<1>3. PICK e, s, f, r : /\ e = expression /\ s = sums /\ f = e \o <<op, v>>
                        /\ r = IF s = None \/ ~Numbers!Readable(v) THEN None ELSE Numbers!Fold(s, op, v)
  OBVIOUS
<1>4. expression' = f /\ sums' = r /\ minor' = IF r = None THEN None ELSE Numbers!AmountOf(r)
  BY <1>3 DEF Numbers!ReadNext
<1>5. IsExpression(e, k) /\ IsExpression(f, k + 1) /\ Extends(e, k, op, v, f) /\ v \in Int
  BY <1>2, <1>3, NextIs
<1>6. Numbers!Defined(f) <=> Numbers!Defined(e) /\ Numbers!Readable(v) /\ ~(op = "/" /\ v = 0)
  BY ONLY <1>5, DefinedIs
<1>7. f # <<>>
  <2>1. Len(f) = 2 * (k + 1) - 1 /\ k \in Nat
    BY <1>5 DEF IsExpression
  <2>2. Len(f) # 0
    BY <2>1
  <2> QED BY <2>2
<1>8. ASSUME s = None \/ ~Numbers!Readable(v) \/ (op = "/" /\ v = 0) PROVE ReadInv'
  <2>1. r = None
    <3>1. CASE s = None \/ ~Numbers!Readable(v)
      BY <1>3, <3>1
    <3>2. CASE s # None /\ Numbers!Readable(v) /\ op = "/" /\ v = 0
      <4>1. ~Numbers!Additive(op)
        BY <3>2 DEF Numbers!Additive
      <4> QED BY <1>3, <3>2, <4>1 DEF Numbers!Fold
    <3> QED BY <1>8, <3>1, <3>2
  <2>2. ~Numbers!Defined(f)
    BY <1>2, <1>3, <1>6, <1>8
  <2> QED BY <1>4, <1>5, <1>7, <2>1, <2>2 DEF ReadInv
<1>9. ASSUME s # None, Numbers!Readable(v), ~(op = "/" /\ v = 0) PROVE ReadInv'
  <2>1. PICK l : Reads(e, s, l)
    BY <1>2, <1>3, <1>9
  <2>2. \E m : Reads(f, Numbers!Fold(s, op, v), m)
    <3>1. CASE Numbers!Additive(op)
      <4>1. Reads(f, Numbers!Fold(s, op, v), k + 1)
        BY ONLY <1>5, <2>1, <3>1, NextTermReads
      <4> QED BY <4>1
    <3>2. CASE ~Numbers!Additive(op)
      <4>1. op \in {"*", "/"}
        BY <3>2 DEF Numbers!Additive, Ops
      <4>2. ~(op = "/" /\ v = 0)
        BY <1>9
      <4>3. Reads(f, Numbers!Fold(s, op, v), l)
        BY ONLY <1>5, <2>1, <4>1, <4>2, NextFactorReads
      <4> QED BY <4>3
    <3> QED BY <3>1, <3>2
  <2>3. r = Numbers!Fold(s, op, v)
    BY <1>3, <1>9
  <2>4. r # None
    BY <2>2, <2>3, NumbersAssumption DEF Reads, Sums, NumbersAssumption
  <2>5. Numbers!Defined(f)
    BY <1>2, <1>3, <1>6, <1>9
  <2> QED BY <1>4, <1>5, <1>7, <2>2, <2>3, <2>4, <2>5 DEF ReadInv
<1>10. ReadInv'
  BY <1>8, <1>9
<1>11. minor' \in {None} \cup 1 .. MaxMinor
  BY <1>4, AmountRange
<1>12. Numbers!ConversionsAreNearest' /\ Numbers!RangesAreWhole' /\ Numbers!TimesAreAsSaid'
  BY <1>1, ConversionStays, ReplyStays DEF NumbersInv
<1> QED BY <1>4, <1>7, <1>10, <1>11, <1>12 DEF NumbersInv

\* A conversion.
LEMMA ConvertStays ==
    ASSUME NumbersInv, NEW table \in Prices, NEW from \in DOMAIN table.price, NEW to \in DOMAIN table.price,
           Numbers!Convert(from, to, table)
    PROVE  NumbersInv'
<1>1. /\ expression' = expression /\ sums' = sums /\ minor' = minor /\ reply' = reply
      /\ minor # None
  BY DEF Numbers!Convert
<1>2. minor \in Nat /\ expression # <<>>
  <2>1. minor \in 1 .. MaxMinor
    BY <1>1 DEF NumbersInv
  <2>2. minor \in Nat
    BY <2>1, NumbersAssumption DEF NumbersAssumption
  <2> QED BY <1>1, <2>2 DEF NumbersInv, ReadInv
<1>3. Numbers!ConversionsAreNearest'
  BY <1>2, ConvertIsNearest
<1>4. Numbers!RangesAreWhole' /\ Numbers!TimesAreAsSaid'
  BY <1>1, ReplyStays DEF NumbersInv
<1>5. ReadInv'
  BY <1>1 DEF NumbersInv, ReadInv
<1> QED BY <1>1, <1>2, <1>3, <1>4, <1>5 DEF NumbersInv

\* An answer about a period or a time leaves the amounts alone.
LEMMA AmountsStay ==
    ASSUME NumbersInv, UNCHANGED <<expression, sums, minor, converted>>,
           Numbers!RangesAreWhole', Numbers!TimesAreAsSaid'
    PROVE  NumbersInv'
<1>1. ReadInv' /\ Numbers!ConversionsAreNearest'
  BY ConversionStays DEF NumbersInv, ReadInv
<1> QED BY <1>1 DEF NumbersInv

\* The answers.
LEMMA AnswersStay ==
    ASSUME NumbersInv, NEW period \in Numbers!Periods, NEW i \in Numbers!Instants, Numbers!ResolveRange(period, i)
    PROVE  NumbersInv'
<1>1. UNCHANGED <<expression, sums, minor, converted>> /\ reply'.kind = period
  BY DEF Numbers!ResolveRange
<1>2. Numbers!RangesAreWhole'
  BY PeriodsAreWhole
<1>3. Numbers!TimesAreAsSaid'
  <2>1. period # "explicit"
    BY DEF Numbers!Periods
  <2> QED BY <1>1, <2>1 DEF Numbers!TimesAreAsSaid
<1> QED BY <1>1, <1>2, <1>3, AmountsStay

LEMMA CustomAnswersStay ==
    ASSUME NumbersInv, NEW p \in Dates, NEW q \in Dates, Numbers!ResolveCustomRange(p, q)
    PROVE  NumbersInv'
<1>1. UNCHANGED <<expression, sums, minor, converted>> /\ reply'.kind = "custom"
  BY DEF Numbers!ResolveCustomRange
<1>2. Numbers!RangesAreWhole'
  BY CustomRangesAreWhole
<1>3. Numbers!TimesAreAsSaid'
  BY <1>1 DEF Numbers!TimesAreAsSaid
<1> QED BY <1>1, <1>2, <1>3, AmountsStay

LEMMA TimeAnswersStay ==
    ASSUME NumbersInv, NEW i \in Numbers!Instants, NEW date \in Dates, NEW clock \in Clocks, NEW second \in {0, 59},
           Numbers!ResolveExpenseTimestamp(i, date, clock, second)
    PROVE  NumbersInv'
<1>1. UNCHANGED <<expression, sums, minor, converted>> /\ reply'.kind = "explicit"
  BY DEF Numbers!ResolveExpenseTimestamp
<1>2. Numbers!TimesAreAsSaid'
  BY TimesStay
<1>3. Numbers!RangesAreWhole'
  BY <1>1 DEF Numbers!RangesAreWhole
<1> QED BY <1>1, <1>2, <1>3, AmountsStay

\* Every step keeps the invariant.
LEMMA NumbersStep == NumbersInv /\ [MCNext]_<<vars, qvars, nvars, cast>> => NumbersInv'
<1> SUFFICES ASSUME NumbersInv, [MCNext]_<<vars, qvars, nvars, cast>> PROVE NumbersInv'
  OBVIOUS
<1>1. CASE UNCHANGED nvars
  <2>1. UNCHANGED <<expression, sums, minor, converted>> /\ reply' = reply
    BY <1>1 DEF nvars
  <2>2. Numbers!RangesAreWhole' /\ Numbers!TimesAreAsSaid'
    BY <2>1, ReplyStays DEF NumbersInv
  <2> QED BY <2>1, <2>2, AmountsStay
<1>2. CASE Numbers!NumbersNext
  <2>1. ASSUME NEW v \in Operands, Numbers!ReadFirst(v) PROVE NumbersInv'
    BY <2>1, ReadFirstStays
  <2>2. ASSUME NEW op \in Ops, NEW v \in Operands, Numbers!ReadNext(op, v) PROVE NumbersInv'
    BY <2>2, ReadNextStays
  <2>3. ASSUME NEW t \in Prices, NEW from \in DOMAIN t.price, NEW to \in DOMAIN t.price, Numbers!Convert(from, to, t)
        PROVE  NumbersInv'
    BY <2>3, ConvertStays
  <2>4. ASSUME NEW p \in Numbers!Periods, NEW i \in Numbers!Instants, Numbers!ResolveRange(p, i) PROVE NumbersInv'
    BY <2>4, AnswersStay
  <2>5. ASSUME NEW p \in Dates, NEW q \in Dates, Numbers!ResolveCustomRange(p, q) PROVE NumbersInv'
    BY <2>5, CustomAnswersStay
  <2>6. ASSUME NEW i \in Numbers!Instants, NEW date \in Dates, NEW clock \in Clocks, NEW second \in {0, 59},
               Numbers!ResolveExpenseTimestamp(i, date, clock, second)
        PROVE  NumbersInv'
    BY <2>6, TimeAnswersStay
  <2> QED BY <1>2, <2>1, <2>2, <2>3, <2>4, <2>5, <2>6 DEF Numbers!NumbersNext, Ops
<1>3. UNCHANGED nvars \/ Numbers!NumbersNext
  BY DEF MCNext
<1> QED BY <1>1, <1>2, <1>3

\* What is booked and what is counted are the numbers that were meant: for any
\* operands, any quotes, and any days, dates and clocks.
THEOREM NumbersStayRight == MCSpec => []NumbersAreRight
<1>1. MCInit => NumbersInv
  BY NumbersStart
<1>2. NumbersInv /\ [MCNext]_<<vars, qvars, nvars, cast>> => NumbersInv'
  BY NumbersStep
<1>3. NumbersInv => NumbersAreRight
  BY AmountsAre DEF NumbersInv, NumbersAreRight, Numbers!NumbersAreRight
<1> QED BY <1>1, <1>2, <1>3, PTL DEF MCSpec
=============================================================================
