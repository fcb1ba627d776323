--------------------------- MODULE AdventureProofs ---------------------------
(***************************************************************************)
(* Proofs about the clock of the game and about the missions of the        *)
(* fleets, two state machines that share no variable.                      *)
(*                                                                         *)
(* The clock, for any length of a day, any years to the victory of the     *)
(* Kohr-Ah and anything the player asks for: the list of events stays in   *)
(* order and misses none, the chains of events go on in time, and the list *)
(* implements a countdown of days.                                         *)
(*                                                                         *)
(* The missions, for any days that three and six months may have, any      *)
(* marches and any prey of the Kohr-Ah, in any order of conversations and  *)
(* days: each is at some point of its course, its losses are those the     *)
(* story tells, and those who are to meet do.                              *)
(***************************************************************************)
EXTENDS GameClock, Missions, FiniteSetTheorems, FunctionTheorems, SequenceTheorems, WellFoundedInduction, TLAPS

-----------------------------------------------------------------------------
(* The calendar: DayNumber numbers the dates one after the other.          *)

(* The days of all years up to March of a year of DayNumber                *)
YearDays(y) == 365 * y + y \div 4 - y \div 100 + y \div 400

LEMMA Quarters ==
  ASSUME NEW y \in Nat, NEW k \in {4, 100, 400}
  PROVE  /\ y \div k \in Nat
         /\ (y + 1) \div k = IF (y + 1) % k = 0 THEN y \div k + 1 ELSE y \div k
<1>1. CASE k = 4
  BY <1>1
<1>2. CASE k = 100
  BY <1>2
<1>3. CASE k = 400
  BY <1>3
<1> QED
  BY <1>1, <1>2, <1>3

LEMMA LeapAgain ==
  ASSUME NEW y \in Nat
  PROVE  IsLeapYear(y + 4800) <=> IsLeapYear(y)
BY DEF IsLeapYear

LEMMA YearStep ==
  ASSUME NEW y \in Nat
  PROVE  /\ YearDays(y) \in Nat
         /\ YearDays(y + 1) = YearDays(y) + IF IsLeapYear(y + 1) THEN 366 ELSE 365
<1>1. /\ y \div 4 \in Nat /\ y \div 100 \in Nat /\ y \div 400 \in Nat
      /\ (y + 1) \div 4 = IF (y + 1) % 4 = 0 THEN y \div 4 + 1 ELSE y \div 4
      /\ (y + 1) \div 100 = IF (y + 1) % 100 = 0 THEN y \div 100 + 1 ELSE y \div 100
      /\ (y + 1) \div 400 = IF (y + 1) % 400 = 0 THEN y \div 400 + 1 ELSE y \div 400
  BY Quarters
<1>2. (y + 1) % 400 = 0 => (y + 1) % 100 = 0
  OBVIOUS
<1>3. (y + 1) % 100 = 0 => (y + 1) % 4 = 0
  OBVIOUS
<1>4. y \div 100 <= y
  OBVIOUS
<1> QED
  BY <1>1, <1>2, <1>3, <1>4 DEF YearDays, IsLeapYear

(* Dates as numbers: a month of DayNumber, whose year begins in March      *)
MonthDays(m) == 
  CASE m = 1 -> 306 [] m = 2 -> 337 [] m = 3 -> 0 [] m = 4 -> 31 [] m = 5 -> 61
    [] m = 6 -> 92 [] m = 7 -> 122 [] m = 8 -> 153 [] m = 9 -> 184 [] m = 10 -> 214
    [] m = 11 -> 245 [] m = 12 -> 275

YearOf(y, m) == IF m <= 2 THEN y + 4799 ELSE y + 4800

LEMMA NumberParts ==
  ASSUME NEW y \in Nat, NEW m \in 1 .. 12, NEW n \in Nat
  PROVE  DayNumber(<<y, m, n>>) = n + MonthDays(m) + YearDays(YearOf(y, m))
<1>1. DayNumber(<<y, m, n>>) =
        LET a == (14 - m) \div 12
            z == y + 4800 - a
            k == m + 12 * a - 3
        IN  n + (153 * k + 2) \div 5 + 365 * z + z \div 4 - z \div 100 + z \div 400
  BY DEF DayNumber
<1>2. CASE m \in {1, 2}
  <2>1. (14 - m) \div 12 = 1
    BY <1>2
  <2>2. (153 * (m + 12 * 1 - 3) + 2) \div 5 = MonthDays(m)
    BY <1>2 DEF MonthDays
  <2> QED
    BY <1>1, <1>2, <2>1, <2>2 DEF YearDays, YearOf
<1>3. CASE m \in 3 .. 12
  <2>1. (14 - m) \div 12 = 0
    BY <1>3
  <2>2. (153 * (m + 12 * 0 - 3) + 2) \div 5 = MonthDays(m)
    BY <1>3 DEF MonthDays
  <2>3. y + 4800 - 0 = YearOf(y, m) /\ YearOf(y, m) \in Nat
    BY <1>3 DEF YearOf
  <2>4. DayNumber(<<y, m, n>>) =
          n + MonthDays(m) + 365 * YearOf(y, m) + YearOf(y, m) \div 4
            - YearOf(y, m) \div 100 + YearOf(y, m) \div 400
    BY <1>1, <2>1, <2>2, <2>3
  <2>5. MonthDays(m) \in Nat
    BY DEF MonthDays
  <2> HIDE DEF MonthDays
  <2> QED
    BY <2>3, <2>4, <2>5 DEF YearDays
<1> QED
  BY <1>2, <1>3

LEMMA DaysParts ==
  ASSUME NEW d \in Days
  PROVE  /\ d = <<d[1], d[2], d[3]>>
         /\ d[1] \in Nat /\ d[2] \in 1 .. 12 /\ d[3] \in Nat \ {0}
BY DEF Days

LEMMA MonthLengths ==
  ASSUME NEW y \in Nat, NEW m \in 1 .. 12
  PROVE  /\ DaysInMonth(m, y) \in 28 .. 31
         /\ MonthDays(m) \in Nat /\ YearDays(YearOf(y, m)) \in Nat
         /\ m < 12 =>
              MonthDays(m + 1) + YearDays(YearOf(y, m + 1)) =
                MonthDays(m) + YearDays(YearOf(y, m)) + DaysInMonth(m, y)
         /\ m = 12 =>
              MonthDays(1) + YearDays(YearOf(y + 1, 1)) =
                MonthDays(m) + YearDays(YearOf(y, m)) + DaysInMonth(m, y)
<1>1. DaysInMonth(m, y) \in 28 .. 31
  BY DEF DaysInMonth
<1>2. MonthDays(m) \in Nat
  BY DEF MonthDays
<1>3. YearOf(y, m) \in Nat /\ YearDays(YearOf(y, m)) \in Nat
  BY YearStep DEF YearOf
<1>4. CASE m = 2
  <2>1. y + 4799 \in Nat /\ (y + 4799) + 1 = y + 4800
    OBVIOUS
  <2>2. YearDays(y + 4800) = YearDays(y + 4799) + IF IsLeapYear(y + 4800) THEN 366 ELSE 365
    BY <2>1, YearStep
  <2>3. YearDays(y + 4799) \in Nat
    BY <2>1, YearStep
  <2>4. YearDays(y + 4800) = YearDays(y + 4799) + 337 + DaysInMonth(2, y) - 0
    BY <2>2, <2>3, LeapAgain DEF DaysInMonth
  <2>5. MonthDays(3) = 0 /\ MonthDays(2) = 337 /\ YearOf(y, 3) = y + 4800 /\ YearOf(y, 2) = y + 4799
    BY DEF MonthDays, YearOf
  <2> QED
    BY <1>1, <1>2, <1>3, <1>4, <2>3, <2>4, <2>5
<1>5. CASE m \in 1 .. 11 \ {2}
  <2>1. YearOf(y, m + 1) = YearOf(y, m)
    BY <1>5 DEF YearOf
  <2>2. MonthDays(m + 1) = MonthDays(m) + DaysInMonth(m, y)
    BY <1>5 DEF MonthDays, DaysInMonth
  <2> QED
    BY <1>1, <1>2, <1>3, <1>5, <2>1, <2>2
<1>6. CASE m = 12
  <2>1. YearOf(y + 1, 1) = YearOf(y, 12)
    BY DEF YearOf
  <2>2. MonthDays(1) = MonthDays(12) + DaysInMonth(12, y)
    BY DEF MonthDays, DaysInMonth
  <2> QED
    BY <1>1, <1>2, <1>3, <1>6, <2>1, <2>2
<1> QED
  BY <1>4, <1>5, <1>6

LEMMA NumberIs ==
  ASSUME NEW d \in Days
  PROVE  /\ DayNumber(d) = d[3] + MonthDays(d[2]) + YearDays(YearOf(d[1], d[2]))
         /\ DayNumber(d) \in Nat
<1>1. /\ d = <<d[1], d[2], d[3]>>
      /\ d[1] \in Nat /\ d[2] \in 1 .. 12 /\ d[3] \in Nat
  BY DaysParts
<1>2. DayNumber(<<d[1], d[2], d[3]>>) =
        d[3] + MonthDays(d[2]) + YearDays(YearOf(d[1], d[2]))
  BY <1>1, NumberParts
<1>3. MonthDays(d[2]) \in Nat /\ YearDays(YearOf(d[1], d[2])) \in Nat
  BY <1>1, MonthLengths
<1> QED
  BY <1>1, <1>2, <1>3

LEMMA MonthOffSame ==
  ASSUME NEW d \in Days, d \notin Dates
  PROVE  /\ MonthOff(d) \in Days /\ MonthOff(d)[3] < d[3]
         /\ DayNumber(MonthOff(d)) = DayNumber(d)
<1> DEFINE y == d[1]  m == d[2]  n == d[3]  len == DaysInMonth(m, y)
<1>1. y \in Nat /\ m \in 1 .. 12 /\ n \in Nat \ {0}
  BY DaysParts
<1>2. len \in 28 .. 31 /\ n > len
  <2>1. len \in 28 .. 31
    BY <1>1, MonthLengths
  <2> QED
    BY <1>1, <2>1 DEF Dates
<1>3. /\ MonthDays(m) \in Nat /\ YearDays(YearOf(y, m)) \in Nat
      /\ m < 12 =>
           MonthDays(m + 1) + YearDays(YearOf(y, m + 1)) =
             MonthDays(m) + YearDays(YearOf(y, m)) + len
      /\ m = 12 =>
           MonthDays(1) + YearDays(YearOf(y + 1, 1)) =
             MonthDays(m) + YearDays(YearOf(y, m)) + len
  BY <1>1, MonthLengths
<1>4. DayNumber(d) = n + MonthDays(m) + YearDays(YearOf(y, m))
  BY NumberIs
<1>5. CASE m = 12
  <2>1. MonthOff(d) = <<y + 1, 1, n - len>>
    BY <1>5 DEF MonthOff
  <2> HIDE DEF y, m, n, len
  <2>2. n - len \in Nat \ {0} /\ n - len < n /\ y + 1 \in Nat
    BY <1>1, <1>2
  <2>3. DayNumber(<<y + 1, 1, n - len>>) =
          n - len + MonthDays(1) + YearDays(YearOf(y + 1, 1))
    BY <2>2, NumberParts
  <2>4. MonthDays(1) \in Nat /\ YearDays(YearOf(y + 1, 1)) \in Nat
    BY <2>2, MonthLengths
  <2>5. DayNumber(<<y + 1, 1, n - len>>) = DayNumber(d)
    BY <1>1, <1>2, <1>3, <1>4, <1>5, <2>3, <2>4
  <2>6. <<y + 1, 1, n - len>> \in Days /\ <<y + 1, 1, n - len>>[3] = n - len
    BY <2>2 DEF Days
  <2> QED
    BY <2>1, <2>2, <2>5, <2>6 DEF n
<1>6. CASE m # 12
  <2>1. MonthOff(d) = <<y, m + 1, n - len>>
    BY <1>6 DEF MonthOff
  <2> HIDE DEF y, m, n, len
  <2>2. n - len \in Nat \ {0} /\ n - len < n /\ m + 1 \in 1 .. 12 /\ m < 12
    BY <1>1, <1>2, <1>6
  <2>3. DayNumber(<<y, m + 1, n - len>>) =
          n - len + MonthDays(m + 1) + YearDays(YearOf(y, m + 1))
    BY <1>1, <2>2, NumberParts
  <2>4. MonthDays(m + 1) \in Nat /\ YearDays(YearOf(y, m + 1)) \in Nat
    BY <1>1, <2>2, MonthLengths
  <2>5. DayNumber(<<y, m + 1, n - len>>) = DayNumber(d)
    BY <1>1, <1>2, <1>3, <1>4, <2>2, <2>3, <2>4
  <2>6. <<y, m + 1, n - len>> \in Days /\ <<y, m + 1, n - len>>[3] = n - len
    BY <1>1, <2>2 DEF Days
  <2> QED
    BY <2>1, <2>2, <2>5, <2>6 DEF n
<1> QED
  BY <1>5, <1>6

(* Years, and within a year months, come in order.                         *)
LEMMA YearsGrow ==
  ASSUME NEW y \in Nat, NEW z \in Nat, y <= z
  PROVE  YearDays(y) <= YearDays(z)
<1>1. /\ y \div 4 \in Nat /\ z \div 4 \in Nat /\ y \div 4 <= z \div 4
      /\ y \div 400 \in Nat /\ z \div 400 \in Nat /\ y \div 400 <= z \div 400
  OBVIOUS
<1>2. y \div 100 \in Nat /\ z \div 100 \in Nat /\ z \div 100 - y \div 100 <= z - y
  OBVIOUS
<1> QED
  BY <1>1, <1>2 DEF YearDays

LEMMA MonthsGrow ==
  ASSUME NEW y \in Nat, NEW m \in 1 .. 12, NEW z \in Nat, NEW k \in 1 .. 12,
         y < z \/ (y = z /\ m < k)
  PROVE  MonthDays(m) + YearDays(YearOf(y, m)) + DaysInMonth(m, y)
           <= MonthDays(k) + YearDays(YearOf(z, k))
<1> DEFINE b == YearOf(y, m)  c == YearOf(z, k)
<1>1. /\ b \in Nat /\ c \in Nat /\ YearDays(b) \in Nat /\ YearDays(c) \in Nat
      /\ YearDays(b + 1) \in Nat
      /\ YearDays(b + 1) = YearDays(b) + 365 \/ YearDays(b + 1) = YearDays(b) + 366
  <2>1. b \in Nat /\ c \in Nat /\ b + 1 \in Nat
    BY DEF YearOf
  <2> QED
    BY <2>1, YearStep
<1>3. MonthDays(m) \in Nat /\ MonthDays(k) \in Nat /\ DaysInMonth(m, y) \in Nat
  <2>1. MonthDays(m) \in Nat /\ MonthDays(k) \in Nat
    BY DEF MonthDays
  <2>2. DaysInMonth(m, y) \in Nat
    BY DEF DaysInMonth
  <2> QED
    BY <2>1, <2>2
<1>2. MonthDays(m) + DaysInMonth(m, y) + YearDays(b) <= YearDays(b + 1)
  <2>1. CASE m = 2
    <3>1. /\ MonthDays(3) + YearDays(YearOf(y, 3)) =
               MonthDays(2) + YearDays(YearOf(y, 2)) + DaysInMonth(2, y)
          /\ DaysInMonth(2, y) \in 28 .. 31
      BY MonthLengths
    <3>2. YearOf(y, 3) = YearOf(y, 2) + 1 /\ MonthDays(3) = 0 /\ MonthDays(2) = 337
      BY DEF YearOf, MonthDays
    <3> QED
      BY <1>1, <2>1, <3>1, <3>2
  <2>2. CASE m # 2
    <3>1. MonthDays(m) + DaysInMonth(m, y) \in 0 .. 337
      BY <2>2 DEF MonthDays, DaysInMonth
    <3> QED
      BY <1>1, <1>3, <3>1
  <2> QED
    BY <2>1, <2>2
<1>4. CASE b < c
  <2>1. YearDays(b + 1) <= YearDays(c)
    BY <1>1, <1>4, YearsGrow
  <2> QED
    BY <1>1, <1>2, <1>3, <2>1
<1>5. CASE b = c
  <2>1. MonthDays(m) + DaysInMonth(m, y) <= MonthDays(k)
    <3>1. CASE y = z
      BY <1>5, <3>1 DEF MonthDays, DaysInMonth, YearOf
    <3>2. CASE y < z
      BY <1>5, <3>2 DEF MonthDays, DaysInMonth, YearOf
    <3> QED
      BY <3>1, <3>2
  <2> QED
    BY <1>1, <1>3, <1>5, <2>1
<1>6. b <= c
  BY DEF YearOf
<1> QED
  BY <1>1, <1>4, <1>5, <1>6

LEMMA DateParts ==
  ASSUME NEW d \in Dates
  PROVE  /\ d \in Days /\ d = <<d[1], d[2], d[3]>>
         /\ d[1] \in Nat /\ d[2] \in 1 .. 12 /\ d[3] \in 1 .. 31
         /\ d[3] <= DaysInMonth(d[2], d[1]) /\ DaysInMonth(d[2], d[1]) \in 28 .. 31
         /\ DayNumber(d) \in Nat
<1>1. d \in Days /\ d[3] <= DaysInMonth(d[2], d[1])
  BY DEF Dates
<1>2. /\ d = <<d[1], d[2], d[3]>>
      /\ d[1] \in Nat /\ d[2] \in 1 .. 12 /\ d[3] \in Nat \ {0}
  BY <1>1, DaysParts
<1>3. DaysInMonth(d[2], d[1]) \in 28 .. 31
  BY <1>2, MonthLengths
<1>4. DayNumber(d) \in Nat
  BY <1>1, NumberIs
<1> QED
  BY <1>1, <1>2, <1>3, <1>4

LEMMA NumbersInOrder ==
  ASSUME NEW d \in Dates, NEW e \in Dates
  PROVE  Before(d, e) => DayNumber(d) < DayNumber(e)
<1> SUFFICES ASSUME Before(d, e)
             PROVE  DayNumber(d) < DayNumber(e)
  OBVIOUS
<1>1. /\ d \in Days /\ d[1] \in Nat /\ d[2] \in 1 .. 12 /\ d[3] \in 1 .. 31
      /\ d[3] <= DaysInMonth(d[2], d[1]) /\ DaysInMonth(d[2], d[1]) \in 28 .. 31
      /\ e \in Days /\ e[1] \in Nat /\ e[2] \in 1 .. 12 /\ e[3] \in 1 .. 31
  BY DateParts
<1>2. /\ DayNumber(d) = d[3] + MonthDays(d[2]) + YearDays(YearOf(d[1], d[2]))
      /\ DayNumber(e) = e[3] + MonthDays(e[2]) + YearDays(YearOf(e[1], e[2]))
  BY <1>1, NumberIs
<1>3. /\ MonthDays(d[2]) \in Nat /\ YearDays(YearOf(d[1], d[2])) \in Nat
      /\ MonthDays(e[2]) \in Nat /\ YearDays(YearOf(e[1], e[2])) \in Nat
  BY <1>1, MonthLengths
<1>4. CASE d[1] = e[1] /\ d[2] = e[2] /\ d[3] < e[3]
  <2>1. YearOf(d[1], d[2]) = YearOf(e[1], e[2]) /\ MonthDays(d[2]) = MonthDays(e[2])
    BY <1>4
  <2> HIDE DEF Before
  <2> QED
    BY <1>1, <1>2, <1>3, <1>4, <2>1
<1>5. CASE d[1] < e[1] \/ (d[1] = e[1] /\ d[2] < e[2])
  <2>1. MonthDays(d[2]) + YearDays(YearOf(d[1], d[2])) + DaysInMonth(d[2], d[1])
           <= MonthDays(e[2]) + YearDays(YearOf(e[1], e[2]))
    BY <1>1, <1>5, MonthsGrow
  <2> QED
    BY <1>1, <1>2, <1>3, <2>1
<1> QED
  BY <1>1, <1>4, <1>5 DEF Before

LEMMA DatesInOrder ==
  ASSUME NEW d \in Dates, NEW e \in Dates
  PROVE  /\ Before(d, e) <=> DayNumber(d) < DayNumber(e)
         /\ d = e <=> DayNumber(d) = DayNumber(e)
<1>1. /\ d = <<d[1], d[2], d[3]>> /\ d[1] \in Nat /\ d[2] \in 1 .. 12 /\ d[3] \in 1 .. 31
      /\ e = <<e[1], e[2], e[3]>> /\ e[1] \in Nat /\ e[2] \in 1 .. 12 /\ e[3] \in 1 .. 31
      /\ DayNumber(d) \in Nat /\ DayNumber(e) \in Nat
  BY DateParts
<1>2. Before(d, e) \/ Before(e, d) \/ d = e
  <2>1. ~Before(d, e) /\ ~Before(e, d) => d[1] = e[1] /\ d[2] = e[2] /\ d[3] = e[3]
    BY <1>1 DEF Before
  <2> QED
    BY <1>1, <2>1
<1>3. /\ Before(d, e) => DayNumber(d) < DayNumber(e)
      /\ Before(e, d) => DayNumber(e) < DayNumber(d)
  BY NumbersInOrder
<1> QED
  BY <1>1, <1>2, <1>3

(* A recursive function is the CHOICE of one that satisfies its equation;  *)
(* one that does takes each day to the date of the same number.            *)
LEMMA SmallestDay ==
  ASSUME NEW S, S \subseteq Days, S # {}
  PROVE  \E d \in S : \A e \in S : ~(e[3] < d[3])
<1> DEFINE T == {d[3] : d \in S}
<1>1. T \subseteq Nat /\ T # {}
  BY DaysParts
<1>2. \E n \in T : \A k \in T : ~(<<k, n>> \in OpToRel(<, Nat))
  BY <1>1, NatLessThanWellFounded, WFMin
<1>3. PICK n \in T : \A k \in T : ~(<<k, n>> \in OpToRel(<, Nat))
  BY <1>2
<1>4. \A k \in T : ~(k < n)
  BY <1>1, <1>3 DEF OpToRel
<1> QED
  BY <1>4

LEMMA HasDate == \A d \in Days : \E e \in Dates : DayNumber(e) = DayNumber(d)
<1> DEFINE S == {d \in Days : \A e \in Dates : DayNumber(e) # DayNumber(d)}
<1>1. SUFFICES ASSUME S # {} PROVE FALSE
  OBVIOUS
<1>2. PICK d \in S : \A e \in S : ~(e[3] < d[3])
  BY <1>1, SmallestDay
<1>3. d \notin Dates /\ d \in Days
  BY <1>2
<1>4. /\ MonthOff(d) \in Days /\ MonthOff(d)[3] < d[3]
      /\ DayNumber(MonthOff(d)) = DayNumber(d)
  BY <1>3, MonthOffSame
<1>5. MonthOff(d) \in S
  BY <1>2, <1>4
<1> QED
  BY <1>2, <1>4, <1>5

LEMMA CarriedIs ==
  Carried = [d \in Days |-> IF d \in Dates THEN d ELSE Carried[MonthOff(d)]]
<1> DEFINE P(f) == f = [d \in Days |-> IF d \in Dates THEN d ELSE f[MonthOff(d)]]
           g == [d \in Days |-> CHOOSE e \in Dates : DayNumber(e) = DayNumber(d)]
<1>1. P(g)
  <2>1. ASSUME NEW d \in Days, d \in Dates PROVE g[d] = d
    <3>1. \A e \in Dates : DayNumber(e) = DayNumber(d) => e = d
      BY <2>1, DatesInOrder
    <3> QED
      BY <2>1, <3>1
  <2>2. ASSUME NEW d \in Days, d \notin Dates PROVE g[d] = g[MonthOff(d)]
    <3>1. MonthOff(d) \in Days /\ DayNumber(MonthOff(d)) = DayNumber(d)
      BY <2>2, MonthOffSame
    <3> QED
      BY <2>2, <3>1
  <2>3. \A d \in Days : g[d] = IF d \in Dates THEN d ELSE g[MonthOff(d)]
    BY <2>1, <2>2
  <2> QED
    BY <2>3
<1>2. P(CHOOSE f : P(f))
  <2> HIDE DEF P, g
  <2> QED
    BY <1>1
<1>3. Carried = CHOOSE f : P(f)
  BY DEF Carried
<1>4. P(Carried)
  BY <1>2, <1>3
<1> QED
  BY <1>4

(* Whatever the day, the loop of ValidateEvent ends with the date that     *)
(* comes that many days after.                                             *)
LEMMA CarriedDate ==
  \A d \in Days : Carried[d] \in Dates /\ DayNumber(Carried[d]) = DayNumber(d)
<1> DEFINE S == {d \in Days : ~(Carried[d] \in Dates /\ DayNumber(Carried[d]) = DayNumber(d))}
<1>1. SUFFICES ASSUME S # {} PROVE FALSE
  OBVIOUS
<1>2. PICK d \in S : \A e \in S : ~(e[3] < d[3])
  BY <1>1, SmallestDay
<1>3. \A e \in Days : Carried[e] = IF e \in Dates THEN e ELSE Carried[MonthOff(e)]
  BY CarriedIs
<1>4. d \notin Dates /\ d \in Days
  BY <1>2, <1>3
<1>5. /\ MonthOff(d) \in Days /\ MonthOff(d)[3] < d[3]
      /\ DayNumber(MonthOff(d)) = DayNumber(d)
  BY <1>4, MonthOffSame
<1>6. MonthOff(d) \notin S
  BY <1>2, <1>5
<1>7. Carried[d] = Carried[MonthOff(d)]
  BY <1>3, <1>4
<1> QED
  BY <1>2, <1>5, <1>6, <1>7

LEMMA NextDayIs ==
  ASSUME NEW d \in Dates
  PROVE  NextDay(d) \in Dates /\ DayNumber(NextDay(d)) = DayNumber(d) + 1
<1> DEFINE y == d[1]  m == d[2]  n == d[3]  len == DaysInMonth(m, y)
<1>1. /\ y \in Nat /\ m \in 1 .. 12 /\ n \in 1 .. 31 /\ n <= len /\ len \in 28 .. 31
      /\ d \in Days
  BY DateParts
<1>2. /\ MonthDays(m) \in Nat /\ YearDays(YearOf(y, m)) \in Nat
      /\ m < 12 =>
           MonthDays(m + 1) + YearDays(YearOf(y, m + 1)) =
             MonthDays(m) + YearDays(YearOf(y, m)) + len
      /\ m = 12 =>
           MonthDays(1) + YearDays(YearOf(y + 1, 1)) =
             MonthDays(m) + YearDays(YearOf(y, m)) + len
  BY <1>1, MonthLengths
<1>3. DayNumber(d) = n + MonthDays(m) + YearDays(YearOf(y, m))
  BY <1>1, NumberIs
<1>4. NextDay(d) = IF n < len THEN <<y, m, n + 1>>
                   ELSE IF m < 12 THEN <<y, m + 1, 1>> ELSE <<y + 1, 1, 1>>
  BY DEF NextDay
<1> HIDE DEF y, m, n
<1>5. CASE n < len
  <2>1. <<y, m, n + 1>> \in Days
    BY <1>1 DEF Days
  <2>2. DayNumber(<<y, m, n + 1>>) = n + 1 + MonthDays(m) + YearDays(YearOf(y, m))
    BY <1>1, NumberParts
  <2>3. <<y, m, n + 1>> \in Dates
    BY <1>1, <1>5, <2>1 DEF Dates
  <2> QED
    BY <1>1, <1>2, <1>3, <1>4, <1>5, <2>2, <2>3
<1>6. CASE n = len /\ m < 12
  <2>1. m + 1 \in 1 .. 12
    BY <1>1, <1>6
  <2>2. MonthDays(m + 1) \in Nat /\ YearDays(YearOf(y, m + 1)) \in Nat
        /\ DaysInMonth(m + 1, y) \in 28 .. 31
    BY <1>1, <2>1, MonthLengths
  <2>3. DayNumber(<<y, m + 1, 1>>) = 1 + MonthDays(m + 1) + YearDays(YearOf(y, m + 1))
    BY <1>1, <2>1, NumberParts
  <2>4. <<y, m + 1, 1>> \in Dates
    BY <1>1, <2>1, <2>2 DEF Days, Dates
  <2>5. NextDay(d) = <<y, m + 1, 1>>
    BY <1>1, <1>4, <1>6
  <2> QED
    BY <1>1, <1>2, <1>3, <1>6, <2>2, <2>3, <2>4, <2>5
<1>7. CASE n = len /\ m = 12
  <2>1. y + 1 \in Nat
    BY <1>1
  <2>2. MonthDays(1) \in Nat /\ YearDays(YearOf(y + 1, 1)) \in Nat
        /\ DaysInMonth(1, y + 1) \in 28 .. 31
    BY <2>1, MonthLengths
  <2>3. DayNumber(<<y + 1, 1, 1>>) = 1 + MonthDays(1) + YearDays(YearOf(y + 1, 1))
    BY <2>1, NumberParts
  <2>4. <<y + 1, 1, 1>> \in Dates
    BY <2>1, <2>2 DEF Days, Dates
  <2>5. NextDay(d) = <<y + 1, 1, 1>>
    BY <1>1, <1>4, <1>7
  <2> QED
    BY <1>1, <1>2, <1>3, <1>7, <2>2, <2>3, <2>4, <2>5
<1> QED
  BY <1>1, <1>5, <1>6, <1>7

(* A year of DayNumber is as long as one of the calendar.                  *)
LEMMA YearsLater ==
  ASSUME NEW y \in Nat, NEW n \in Nat
  PROVE  /\ YearDays(y + n) \in Nat
         /\ YearDays(y + n) - YearDays(y) \in 365 * n .. 366 * n
<1> DEFINE S == {k \in Nat : ~(YearDays(y + k) - YearDays(y) \in 365 * k .. 366 * k)}
<1>1. \A k \in Nat : YearDays(y + k) \in Nat
  BY YearStep
<1>2. ASSUME S # {} PROVE FALSE
  <2>0. S \subseteq Nat
    OBVIOUS
  <2>1. \E k \in S : \A l \in S : ~(<<l, k>> \in OpToRel(<, Nat))
    <3> HIDE DEF S
    <3> QED
      BY <1>2, <2>0, NatLessThanWellFounded, WFMin
  <2>2. PICK k \in S : \A l \in S : ~(<<l, k>> \in OpToRel(<, Nat))
    BY <2>1
  <2>3. \A l \in S : ~(l < k)
    BY <2>2 DEF OpToRel
  <2>4. k \in Nat /\ k # 0
    <3>1. y + 0 = y /\ YearDays(y) \in Nat
      BY YearStep
    <3>2. YearDays(y + 0) - YearDays(y) = 0
      BY <3>1
    <3>3. 0 \notin S
      BY <3>2
    <3> QED
      BY <3>3
  <2>5. k - 1 \in Nat /\ (y + (k - 1)) + 1 = y + k /\ y + (k - 1) \in Nat
    BY <2>4
  <2>6. YearDays(y + (k - 1)) - YearDays(y) \in 365 * (k - 1) .. 366 * (k - 1)
    BY <2>3, <2>5
  <2>7. /\ YearDays(y + k) = YearDays(y + (k - 1)) + 365
           \/ YearDays(y + k) = YearDays(y + (k - 1)) + 366
        /\ YearDays(y + (k - 1)) \in Nat
    BY <2>5, YearStep
  <2>8. YearDays(y) \in Nat
    BY YearStep
  <2>9. YearDays(y + k) - YearDays(y) \in 365 * k .. 366 * k
    BY <2>4, <2>6, <2>7, <2>8
  <2> QED
    BY <2>9
<1> QED
  BY <1>1, <1>2

(* A call has months alone, or days and years.                             *)
LEMMA LaterKinds ==
  ASSUME date \in Dates
  PROVE  /\ date[1] \in Nat /\ date[2] \in 1 .. 12 /\ date[3] \in 1 .. 31
         /\ DayNumber(date) =
              date[3] + MonthDays(date[2]) + YearDays(YearOf(date[1], date[2]))
         /\ \A days \in Nat, years \in Nat :
              /\ Later(0, days, years) \in Dates
              /\ DayNumber(Later(0, days, years)) =
                   date[3] + days + MonthDays(date[2])
                     + YearDays(YearOf(date[1] + years, date[2]))
         /\ \A k \in {2, 3, 6} :
              LET z == IF date[2] + k <= 12 THEN date[1] ELSE date[1] + 1
                  l == IF date[2] + k <= 12 THEN date[2] + k ELSE date[2] + k - 12
              IN  /\ Later(k, 0, 0) \in Dates
                  /\ DayNumber(Later(k, 0, 0)) =
                       date[3] + MonthDays(l) + YearDays(YearOf(z, l))
<1>1. date[1] \in Nat /\ date[2] \in 1 .. 12 /\ date[3] \in 1 .. 31 /\ date \in Days
  BY DateParts
<1>2. DayNumber(date) = date[3] + MonthDays(date[2]) + YearDays(YearOf(date[1], date[2]))
  BY <1>1, NumberIs
<1>3. ASSUME NEW y \in Nat, NEW m \in 1 .. 12, NEW n \in Nat \ {0}
      PROVE  /\ Carried[<<y, m, n>>] \in Dates
             /\ DayNumber(Carried[<<y, m, n>>]) = n + MonthDays(m) + YearDays(YearOf(y, m))
  <2>1. <<y, m, n>> \in Days
    BY DEF Days
  <2> QED
    BY <2>1, CarriedDate, NumberParts
<1>4. \A n \in 0 .. 17 : /\ n \div 12 = IF n < 12 THEN 0 ELSE 1
                         /\ n % 12 = IF n < 12 THEN n ELSE n - 12
  OBVIOUS
<1>5. ASSUME NEW days \in Nat, NEW years \in Nat
      PROVE  /\ Later(0, days, years) \in Dates
             /\ DayNumber(Later(0, days, years)) =
                  date[3] + days + MonthDays(date[2])
                    + YearDays(YearOf(date[1] + years, date[2]))
  <2>1. date[2] - 1 + 0 \in 0 .. 17 /\ date[2] - 1 + 0 < 12 /\ (date[2] - 1 + 0) + 1 = date[2]
    BY <1>1
  <2>2. /\ date[1] + years + (date[2] - 1 + 0) \div 12 = date[1] + years
        /\ ((date[2] - 1 + 0) % 12) + 1 = date[2]
    BY <1>1, <1>4, <2>1
  <2>3. Later(0, days, years) = Carried[<<date[1] + years, date[2], date[3] + days>>]
    BY <2>2 DEF Later
  <2>4. date[1] + years \in Nat /\ date[3] + days \in Nat \ {0}
    BY <1>1
  <2> QED
    BY <1>1, <1>3, <2>3, <2>4
<1>6. ASSUME NEW k \in {2, 3, 6}
      PROVE  LET z == IF date[2] + k <= 12 THEN date[1] ELSE date[1] + 1
                 l == IF date[2] + k <= 12 THEN date[2] + k ELSE date[2] + k - 12
             IN  /\ Later(k, 0, 0) \in Dates
                 /\ DayNumber(Later(k, 0, 0)) =
                      date[3] + MonthDays(l) + YearDays(YearOf(z, l))
  <2> DEFINE z == IF date[2] + k <= 12 THEN date[1] ELSE date[1] + 1
             l == IF date[2] + k <= 12 THEN date[2] + k ELSE date[2] + k - 12
             n == date[2] - 1 + k
  <2>1. n \in 0 .. 17 /\ (n < 12 <=> date[2] + k <= 12)
    BY <1>1
  <2>2. date[1] + 0 + n \div 12 = z /\ (n % 12) + 1 = l /\ date[3] + 0 = date[3]
    <3>1. /\ n \div 12 = IF n < 12 THEN 0 ELSE 1
          /\ n % 12 = IF n < 12 THEN n ELSE n - 12
      BY <1>4, <2>1
    <3> QED
      BY <1>1, <2>1, <3>1
  <2>3. Later(k, 0, 0) = Carried[<<z, l, date[3]>>]
    BY <2>2 DEF Later
  <2>4. z \in Nat /\ l \in 1 .. 12 /\ date[3] \in Nat \ {0}
    BY <1>1
  <2> HIDE DEF z, l, n
  <2>5. /\ Later(k, 0, 0) \in Dates
        /\ DayNumber(Later(k, 0, 0)) = date[3] + MonthDays(l) + YearDays(YearOf(z, l))
    BY <1>3, <2>3, <2>4
  <2> QED
    BY <2>5 DEF z, l
<1> QED
  BY <1>1, <1>2, <1>5, <1>6

LEMMA DaysLater ==
  ASSUME date \in Dates, NEW days \in Nat
  PROVE  /\ Later(0, days, 0) \in Dates
         /\ DayNumber(Later(0, days, 0)) = DayNumber(date) + days
<1>1. date[1] \in Nat /\ date[2] \in 1 .. 12 /\ date[3] \in 1 .. 31
  BY LaterKinds
<1>2. /\ Later(0, days, 0) \in Dates
      /\ DayNumber(Later(0, days, 0)) =
           date[3] + days + MonthDays(date[2]) + YearDays(YearOf(date[1] + 0, date[2]))
  BY LaterKinds
<1>3. DayNumber(date) = date[3] + MonthDays(date[2]) + YearDays(YearOf(date[1], date[2]))
  BY LaterKinds
<1>4. MonthDays(date[2]) \in Nat /\ YearDays(YearOf(date[1], date[2])) \in Nat
  BY <1>1, MonthLengths
<1>5. YearOf(date[1] + 0, date[2]) = YearOf(date[1], date[2])
  BY <1>1
<1> QED
  BY <1>1, <1>2, <1>3, <1>4, <1>5

LEMMA YearLater ==
  ASSUME date \in Dates
  PROVE  /\ Later(0, 0, 1) \in Dates
         /\ DayNumber(Later(0, 0, 1)) - DayNumber(date) \in {365, 366}
<1> DEFINE y == date[1]  m == date[2]
<1>1. y \in Nat /\ m \in 1 .. 12 /\ date[3] \in 1 .. 31
  BY LaterKinds
<1>2. /\ Later(0, 0, 1) \in Dates
      /\ DayNumber(Later(0, 0, 1)) =
           date[3] + 0 + MonthDays(m) + YearDays(YearOf(y + 1, m))
  BY LaterKinds
<1>3. DayNumber(date) = date[3] + MonthDays(m) + YearDays(YearOf(y, m))
  BY LaterKinds
<1>4. MonthDays(m) \in Nat /\ YearDays(YearOf(y, m)) \in Nat
  BY <1>1, MonthLengths
<1>5. YearOf(y + 1, m) = YearOf(y, m) + 1 /\ YearOf(y, m) \in Nat
  BY <1>1 DEF YearOf
<1>6. \/ YearDays(YearOf(y + 1, m)) = YearDays(YearOf(y, m)) + 365
      \/ YearDays(YearOf(y + 1, m)) = YearDays(YearOf(y, m)) + 366
  BY <1>5, YearStep
<1> QED
  BY <1>1, <1>2, <1>3, <1>4, <1>6

LEMMA MonthsLater ==
  ASSUME date \in Dates
  PROVE  /\ Later(2, 0, 0) \in Dates
         /\ DayNumber(Later(2, 0, 0)) - DayNumber(date) \in 59 .. 62
         /\ Later(3, 0, 0) \in Dates
         /\ DayNumber(Later(3, 0, 0)) - DayNumber(date) \in 89 .. 92
         /\ Later(6, 0, 0) \in Dates
         /\ DayNumber(Later(6, 0, 0)) - DayNumber(date) \in 181 .. 184
<1> DEFINE y == date[1]  m == date[2]
           z(k) == IF m + k <= 12 THEN y ELSE y + 1
           l(k) == IF m + k <= 12 THEN m + k ELSE m + k - 12
<1>1. y \in Nat /\ m \in 1 .. 12 /\ date[3] \in 1 .. 31
  BY LaterKinds
<1>2. DayNumber(date) = date[3] + MonthDays(m) + YearDays(YearOf(y, m))
  BY LaterKinds
<1>3. ASSUME NEW k \in {2, 3, 6}
      PROVE  /\ Later(k, 0, 0) \in Dates
             /\ DayNumber(Later(k, 0, 0)) - DayNumber(date) \in
                  (IF k = 2 THEN 59 ELSE IF k = 3 THEN 89 ELSE 181) ..
                  (IF k = 2 THEN 62 ELSE IF k = 3 THEN 92 ELSE 184)
  <2>1. /\ Later(k, 0, 0) \in Dates
        /\ DayNumber(Later(k, 0, 0)) =
             date[3] + MonthDays(l(k)) + YearDays(YearOf(z(k), l(k)))
    BY LaterKinds
  <2>2. z(k) \in Nat /\ l(k) \in 1 .. 12
    BY <1>1
  <2>3. /\ YearOf(y, m) \in Nat
        /\ YearOf(z(k), l(k)) \in {YearOf(y, m), YearOf(y, m) + 1}
    BY <1>1 DEF YearOf
  <2>4. /\ YearDays(YearOf(y, m)) \in Nat
        /\ \/ YearDays(YearOf(y, m) + 1) = YearDays(YearOf(y, m)) + 365
           \/ YearDays(YearOf(y, m) + 1) = YearDays(YearOf(y, m)) + 366
    BY <2>3, YearStep
  <2>5. MonthDays(m) \in Nat /\ MonthDays(l(k)) \in Nat
    BY <1>1, <2>2, MonthLengths
  <2>6. IF YearOf(z(k), l(k)) = YearOf(y, m)
        THEN MonthDays(l(k)) - MonthDays(m) \in
               (IF k = 2 THEN 59 ELSE IF k = 3 THEN 89 ELSE 181) ..
               (IF k = 2 THEN 62 ELSE IF k = 3 THEN 92 ELSE 184)
        ELSE MonthDays(l(k)) - MonthDays(m) + 365 \in
               (IF k = 2 THEN 59 ELSE IF k = 3 THEN 89 ELSE 181) ..
               (IF k = 2 THEN 61 ELSE IF k = 3 THEN 91 ELSE 183)
    BY <1>1 DEF YearOf, MonthDays
  <2> HIDE DEF y, m, z, l
  <2> QED
    BY <1>1, <1>2, <2>1, <2>3, <2>4, <2>5, <2>6
<1> QED
  BY <1>3

-----------------------------------------------------------------------------
(* The list of events.                                                     *)

Entries == Dates \X Events

Sorted(q) ==
  \A i, j \in 1 .. Len(q) : i < j => DayNumber(q[i][1]) <= DayNumber(q[j][1])

OneEach(q) == \A i, j \in 1 .. Len(q) : q[i][2] = q[j][2] => i = j

Listed(q) == q \in Seq(Entries) /\ Sorted(q) /\ OneEach(q)

EntriesOf(q) == {q[i] : i \in 1 .. Len(q)}

Waits(q, e) == \E x \in EntriesOf(q) : x[2] = e

(* The result r of inserting x into q behind the first n entries           *)
InsertedAt(r, q, x, n) ==
  /\ r \in Seq(Entries) /\ Len(r) = Len(q) + 1
  /\ \A i \in 1 .. Len(q) + 1 :
       r[i] = IF i <= n THEN q[i] ELSE IF i = n + 1 THEN x ELSE q[i - 1]
  /\ \A i \in 1 .. n : DayNumber(q[i][1]) <= DayNumber(x[1])
  /\ \A i \in n + 1 .. Len(q) : DayNumber(x[1]) < DayNumber(q[i][1])

LEMMA EntryParts ==
  ASSUME NEW x \in Entries
  PROVE  /\ x = <<x[1], x[2]>> /\ x[1] \in Dates /\ x[2] \in Events
         /\ DayNumber(x[1]) \in Nat
BY DateParts DEF Entries

(* The entries that are not later are the first ones of a sorted list.     *)
LEMMA Prefix ==
  ASSUME NEW k \in Nat, NEW S \in SUBSET (1 .. k),
         \A i, j \in 1 .. k : i < j /\ j \in S => i \in S
  PROVE  S = 1 .. Cardinality(S) /\ Cardinality(S) \in 0 .. k
<1> DEFINE T == {i \in 1 .. k + 1 : i \notin S}
<1>1. T \subseteq Nat /\ T # {}
  <2>1. k + 1 \in T
    OBVIOUS
  <2> QED
    BY <2>1
<1>2. PICK m \in T : \A i \in T : ~(<<i, m>> \in OpToRel(<, Nat))
  <2> HIDE DEF T
  <2> QED
    BY <1>1, NatLessThanWellFounded, WFMin
<1>3. m \in 1 .. k + 1 /\ \A i \in T : ~(i < m)
  <2>1. m \in 1 .. k + 1
    OBVIOUS
  <2> HIDE DEF T
  <2>2. \A i \in T : ~(i < m)
    BY <1>1, <1>2 DEF OpToRel
  <2> QED
    BY <2>1, <2>2
<1>4. S = 1 .. m - 1
  <2>1. ASSUME NEW i \in 1 .. m - 1 PROVE i \in S
    BY <1>3, <2>1
  <2>2. ASSUME NEW i \in S PROVE i \in 1 .. m - 1
    <3>1. m \notin S
      BY <1>2
    <3>2. i \in 1 .. k /\ i # m
      BY <3>1
    <3>3. ~(m < i)
      BY <1>3, <3>1, <3>2
    <3> QED
      BY <1>3, <3>2, <3>3
  <2> QED
    BY <2>1, <2>2
<1>5. Cardinality(1 .. m - 1) = m - 1
  <2>1. m - 1 \in Int /\ 1 \in Int
    BY <1>3
  <2>2. Cardinality(1 .. m - 1) = IF 1 > m - 1 THEN 0 ELSE m - 1 - 1 + 1
    BY <2>1, FS_Interval
  <2> QED
    BY <1>3, <2>2
<1> QED
  BY <1>3, <1>4, <1>5

LEMMA InsertedIs ==
  ASSUME NEW q \in Seq(Entries), Sorted(q), NEW when \in Dates, NEW e \in Events
  PROVE  \E n \in 0 .. Len(q) : InsertedAt(Inserted(q, when, e), q, <<when, e>>, n)
<1> DEFINE S == {i \in 1 .. Len(q) : ~Before(when, q[i][1])}
           n == Cardinality(S)
           x == <<when, e>>
           l == SubSeq(q, 1, n)
           r == SubSeq(q, n + 1, Len(q))
<1>1. Len(q) \in Nat /\ \A i \in 1 .. Len(q) : q[i] \in Entries
  OBVIOUS
<1>2. \A i \in 1 .. Len(q) : i \in S <=> DayNumber(q[i][1]) <= DayNumber(when)
  <2> SUFFICES ASSUME NEW i \in 1 .. Len(q)
               PROVE  i \in S <=> DayNumber(q[i][1]) <= DayNumber(when)
    OBVIOUS
  <2>1. q[i][1] \in Dates /\ DayNumber(q[i][1]) \in Nat /\ DayNumber(when) \in Nat
    BY <1>1, EntryParts, DateParts
  <2>2. Before(when, q[i][1]) <=> DayNumber(when) < DayNumber(q[i][1])
    BY <2>1, DatesInOrder
  <2> QED
    BY <2>1, <2>2
<1>3. \A i, j \in 1 .. Len(q) : i < j /\ j \in S => i \in S
  <2> SUFFICES ASSUME NEW i \in 1 .. Len(q), NEW j \in 1 .. Len(q), i < j, j \in S
               PROVE  i \in S
    OBVIOUS
  <2>1. DayNumber(q[i][1]) <= DayNumber(q[j][1]) /\ DayNumber(q[j][1]) <= DayNumber(when)
    BY <1>2 DEF Sorted
  <2>2. DayNumber(q[i][1]) \in Nat /\ DayNumber(q[j][1]) \in Nat /\ DayNumber(when) \in Nat
    BY <1>1, EntryParts, DateParts
  <2>3. DayNumber(q[i][1]) <= DayNumber(when)
    BY <2>1, <2>2
  <2> QED
    BY <1>2, <2>3
<1>4. S = 1 .. n /\ n \in 0 .. Len(q)
  <2> HIDE DEF S
  <2>1. S \in SUBSET (1 .. Len(q))
    BY DEF S
  <2> QED
    BY <1>1, <1>3, <2>1, Prefix
<1>5. Inserted(q, when, e) = l \o <<x>> \o r
  BY DEF Inserted
<1> HIDE DEF S, n
<1>6. /\ l \in Seq(Entries) /\ Len(l) = n /\ \A i \in 1 .. n : l[i] = q[i]
      /\ r \in Seq(Entries) /\ Len(r) = Len(q) - n
      /\ \A i \in 1 .. Len(q) - n : r[i] = q[n + i]
      /\ <<x>> \in Seq(Entries) /\ Len(<<x>>) = 1 /\ <<x>>[1] = x
  <2>1. x \in Entries
    BY DEF Entries
  <2>2. l \in Seq(Entries) /\ Len(l) = n /\ \A i \in 1 .. n : l[i] = q[i]
    BY <1>1, <1>4
  <2>3. /\ r \in Seq(Entries) /\ Len(r) = Len(q) - n
        /\ \A i \in 1 .. Len(q) - n : r[i] = q[n + i]
    BY <1>1, <1>4
  <2>4. <<x>> \in Seq(Entries) /\ Len(<<x>>) = 1 /\ <<x>>[1] = x
    BY <2>1
  <2> QED
    BY <2>2, <2>3, <2>4
<1> HIDE DEF l, r, x
<1>7. /\ l \o <<x>> \in Seq(Entries) /\ Len(l \o <<x>>) = n + 1
      /\ \A i \in 1 .. n + 1 : (l \o <<x>>)[i] = IF i <= n THEN q[i] ELSE x
  BY <1>4, <1>6
<1>8. /\ l \o <<x>> \o r \in Seq(Entries) /\ Len(l \o <<x>> \o r) = Len(q) + 1
      /\ \A i \in 1 .. Len(q) + 1 :
           (l \o <<x>> \o r)[i] =
              IF i <= n THEN q[i] ELSE IF i = n + 1 THEN x ELSE q[i - 1]
  <2> DEFINE m == l \o <<x>>
  <2>1. /\ m \in Seq(Entries) /\ Len(m) = n + 1
        /\ \A i \in 1 .. n + 1 : m[i] = IF i <= n THEN q[i] ELSE x
    BY <1>7
  <2> HIDE DEF m
  <2>0. r \in Seq(Entries)
    BY <1>6
  <2>2. /\ m \o r \in Seq(Entries) /\ Len(m \o r) = Len(m) + Len(r)
        /\ \A i \in 1 .. Len(m) + Len(r) :
             (m \o r)[i] = IF i <= Len(m) THEN m[i] ELSE r[i - Len(m)]
    BY <2>0, <2>1, ConcatProperties
  <2>3. Len(m) + Len(r) = Len(q) + 1
    BY <1>1, <1>4, <1>6, <2>1
  <2>4. ASSUME NEW i \in 1 .. Len(q) + 1
        PROVE  (m \o r)[i] =
                 IF i <= n THEN q[i] ELSE IF i = n + 1 THEN x ELSE q[i - 1]
    <3>1. CASE i <= n + 1
      BY <1>4, <2>1, <2>2, <2>3, <3>1
    <3>2. CASE ~(i <= n + 1)
      <4>1. (m \o r)[i] = r[i - (n + 1)] /\ i - (n + 1) \in 1 .. Len(q) - n
            /\ n + (i - (n + 1)) = i - 1 /\ ~(i <= n) /\ i # n + 1
        BY <1>1, <1>4, <2>1, <2>2, <2>3, <3>2
      <4> QED
        BY <1>6, <4>1
    <3> QED
      BY <3>1, <3>2
  <2> QED
    BY <2>2, <2>3, <2>4 DEF m
<1>9. /\ \A i \in 1 .. n : DayNumber(q[i][1]) <= DayNumber(x[1])
      /\ \A i \in n + 1 .. Len(q) : DayNumber(x[1]) < DayNumber(q[i][1])
  <2>1. x[1] = when /\ DayNumber(when) \in Nat
    BY DateParts DEF x
  <2>2. \A i \in 1 .. n : i \in 1 .. Len(q) /\ i \in S
    BY <1>1, <1>4
  <2>3. \A i \in n + 1 .. Len(q) : i \in 1 .. Len(q) /\ i \notin S
    BY <1>1, <1>4
  <2>4. \A i \in 1 .. Len(q) : DayNumber(q[i][1]) \in Nat
    BY <1>1, EntryParts
  <2> QED
    BY <1>2, <2>1, <2>2, <2>3, <2>4
<1>10. InsertedAt(Inserted(q, when, e), q, x, n)
  BY <1>5, <1>8, <1>9 DEF InsertedAt
<1> QED
  BY <1>4, <1>10 DEF x

LEMMA ListParts ==
  ASSUME NEW q, Listed(q)
  PROVE  /\ Len(q) \in Nat /\ \A i \in 1 .. Len(q) : q[i] \in Entries
         /\ EntriesOf(q) \subseteq Entries
         /\ \A x, y \in EntriesOf(q) : x[2] = y[2] => x = y
<1>1. q \in Seq(Entries) /\ OneEach(q)
  BY DEF Listed
<1> QED
  BY <1>1 DEF OneEach, EntriesOf

LEMMA Grows ==
  ASSUME NEW q, Listed(q), NEW when \in Dates, NEW e \in Events, ~Waits(q, e)
  PROVE  LET r == Inserted(q, when, e)
         IN  /\ Listed(r) /\ EntriesOf(r) = EntriesOf(q) \cup {<<when, e>>}
             /\ \E n \in 0 .. Len(q) : InsertedAt(r, q, <<when, e>>, n)
<1> DEFINE r == Inserted(q, when, e)
           x == <<when, e>>
<1>1. q \in Seq(Entries) /\ Sorted(q) /\ OneEach(q) /\ Len(q) \in Nat
  BY DEF Listed
<1>2. PICK n \in 0 .. Len(q) : InsertedAt(r, q, x, n)
  BY <1>1, InsertedIs
<1> HIDE DEF r
<1>3. /\ r \in Seq(Entries) /\ Len(r) = Len(q) + 1
      /\ \A i \in 1 .. Len(q) + 1 :
           r[i] = IF i <= n THEN q[i] ELSE IF i = n + 1 THEN x ELSE q[i - 1]
      /\ \A i \in 1 .. n : DayNumber(q[i][1]) <= DayNumber(x[1])
      /\ \A i \in n + 1 .. Len(q) : DayNumber(x[1]) < DayNumber(q[i][1])
  BY <1>2 DEF InsertedAt
<1> DEFINE At(i) == IF i <= n THEN i ELSE i - 1
<1>4. \A i \in 1 .. Len(q) + 1 : i # n + 1 => At(i) \in 1 .. Len(q) /\ r[i] = q[At(i)]
  BY <1>1, <1>3
<1>5. \A i, j \in 1 .. Len(q) + 1 :
        i # n + 1 /\ j # n + 1 => (At(i) = At(j) => i = j) /\ (i < j => At(i) < At(j))
  BY <1>1
<1>6. n + 1 \in 1 .. Len(q) + 1 /\ r[n + 1] = x
  BY <1>1, <1>3
<1>7. x[1] = when /\ x[2] = e /\ DayNumber(when) \in Nat
      /\ \A i \in 1 .. Len(q) : DayNumber(q[i][1]) \in Nat /\ q[i][2] # e
  <2>1. \A i \in 1 .. Len(q) : q[i] \in EntriesOf(q) /\ q[i] \in Entries
    BY <1>1 DEF EntriesOf
  <2> QED
    BY <2>1, EntryParts, DateParts DEF Waits
<1> HIDE DEF x
<1>8. Sorted(r)
  <2> SUFFICES ASSUME NEW i \in 1 .. Len(q) + 1, NEW j \in 1 .. Len(q) + 1, i < j
               PROVE  DayNumber(r[i][1]) <= DayNumber(r[j][1])
    BY <1>3 DEF Sorted
  <2>1. CASE i # n + 1 /\ j # n + 1
    <3>1. At(i) \in 1 .. Len(q) /\ At(j) \in 1 .. Len(q) /\ At(i) < At(j)
      BY <1>4, <1>5, <2>1
    <3> HIDE DEF At
    <3>2. DayNumber(q[At(i)][1]) <= DayNumber(q[At(j)][1])
      BY <1>1, <3>1 DEF Sorted
    <3> QED
      BY <1>4, <2>1, <3>2
  <2>2. CASE i = n + 1
    <3>1. j - 1 \in n + 1 .. Len(q) /\ r[j] = q[j - 1]
      BY <1>1, <1>3, <2>2
    <3> QED
      BY <1>1, <1>3, <1>6, <1>7, <2>2, <3>1
  <2>3. CASE j = n + 1
    <3>1. i \in 1 .. n /\ r[i] = q[i]
      BY <1>1, <1>3, <2>3
    <3> QED
      BY <1>3, <1>6, <2>3, <3>1
  <2> QED
    BY <2>1, <2>2, <2>3
<1>9. OneEach(r)
  <2> SUFFICES ASSUME NEW i \in 1 .. Len(q) + 1, NEW j \in 1 .. Len(q) + 1, r[i][2] = r[j][2]
               PROVE  i = j
    BY <1>3 DEF OneEach
  <2>1. CASE i # n + 1 /\ j # n + 1
    <3>1. /\ At(i) \in 1 .. Len(q) /\ At(j) \in 1 .. Len(q)
          /\ r[i] = q[At(i)] /\ r[j] = q[At(j)]
      BY <1>4, <2>1
    <3>2. At(i) = At(j)
      <4> HIDE DEF At
      <4> QED
        BY <1>1, <3>1 DEF OneEach
    <3> QED
      BY <1>5, <2>1, <3>2
  <2>2. CASE i = n + 1 /\ j # n + 1
    <3>1. At(j) \in 1 .. Len(q) /\ r[j] = q[At(j)]
      BY <1>4, <2>2
    <3> HIDE DEF At
    <3> QED
      BY <1>6, <1>7, <2>2, <3>1
  <2>3. CASE j = n + 1 /\ i # n + 1
    <3>1. At(i) \in 1 .. Len(q) /\ r[i] = q[At(i)]
      BY <1>4, <2>3
    <3> HIDE DEF At
    <3> QED
      BY <1>6, <1>7, <2>3, <3>1
  <2> QED
    BY <2>1, <2>2, <2>3
<1>10. EntriesOf(r) = EntriesOf(q) \cup {x}
  <2>1. ASSUME NEW i \in 1 .. Len(r) PROVE r[i] \in EntriesOf(q) \cup {x}
    BY <1>3, <1>4, <1>6 DEF EntriesOf
  <2>2. ASSUME NEW i \in 1 .. Len(q) PROVE \E j \in 1 .. Len(r) : r[j] = q[i]
    <3>1. CASE i <= n
      BY <1>1, <1>3, <3>1
    <3>2. CASE ~(i <= n)
      <4>1. i + 1 \in 1 .. Len(r) /\ ~(i + 1 <= n) /\ i + 1 # n + 1 /\ (i + 1) - 1 = i
        BY <1>1, <1>3, <3>2
      <4>2. r[i + 1] = q[i]
        BY <1>3, <4>1
      <4> QED
        BY <4>1, <4>2
    <3> QED
      BY <3>1, <3>2
  <2>3. \E j \in 1 .. Len(r) : r[j] = x
    BY <1>3, <1>6
  <2> QED
    BY <2>1, <2>2, <2>3 DEF EntriesOf
<1> QED
  BY <1>2, <1>3, <1>8, <1>9, <1>10 DEF Listed, r, x

LEMMA Shrinks ==
  ASSUME NEW q, Listed(q), q # <<>>
  PROVE  /\ Head(q) \in EntriesOf(q)
         /\ \A x \in EntriesOf(q) : DayNumber(Head(q)[1]) <= DayNumber(x[1])
         /\ Listed(Tail(q)) /\ EntriesOf(Tail(q)) = EntriesOf(q) \ {Head(q)}
         /\ ~Waits(Tail(q), Head(q)[2])
<1> DEFINE t == Tail(q)
<1>1. q \in Seq(Entries) /\ Sorted(q) /\ OneEach(q) /\ Len(q) \in Nat \ {0} /\ Head(q) = q[1]
  BY DEF Listed
<1>2. /\ t \in Seq(Entries) /\ Len(t) = Len(q) - 1
      /\ \A i \in 1 .. Len(t) : t[i] = q[i + 1]
  BY <1>1
<1> HIDE DEF t
<1>3. \A i \in 1 .. Len(t) : i + 1 \in 1 .. Len(q) /\ i + 1 # 1
  BY <1>1, <1>2
<1>4. Sorted(t)
  <2> SUFFICES ASSUME NEW i \in 1 .. Len(t), NEW j \in 1 .. Len(t), i < j
               PROVE  DayNumber(t[i][1]) <= DayNumber(t[j][1])
    BY DEF Sorted
  <2>1. i + 1 \in 1 .. Len(q) /\ j + 1 \in 1 .. Len(q) /\ i + 1 < j + 1
    BY <1>3
  <2> QED
    BY <1>1, <1>2, <2>1 DEF Sorted
<1>5. OneEach(t)
  <2> SUFFICES ASSUME NEW i \in 1 .. Len(t), NEW j \in 1 .. Len(t), t[i][2] = t[j][2]
               PROVE  i = j
    BY DEF OneEach
  <2>1. i + 1 \in 1 .. Len(q) /\ j + 1 \in 1 .. Len(q) /\ q[i + 1][2] = q[j + 1][2]
    BY <1>2, <1>3
  <2>2. i + 1 = j + 1
    BY <1>1, <2>1 DEF OneEach
  <2> QED
    BY <2>2
<1>6. \A i \in 1 .. Len(t) : t[i][2] # Head(q)[2]
  BY <1>1, <1>2, <1>3 DEF OneEach
<1>7. EntriesOf(t) = EntriesOf(q) \ {Head(q)}
  <2>1. ASSUME NEW i \in 1 .. Len(t) PROVE t[i] \in EntriesOf(q) /\ t[i] # Head(q)
    BY <1>2, <1>3, <1>6 DEF EntriesOf
  <2>2. ASSUME NEW i \in 1 .. Len(q), q[i] # Head(q) PROVE \E j \in 1 .. Len(t) : t[j] = q[i]
    <3>1. i # 1
      BY <1>1, <2>2
    <3>2. i - 1 \in 1 .. Len(t) /\ (i - 1) + 1 = i
      BY <1>1, <1>2, <3>1
    <3> QED
      BY <1>2, <3>2
  <2> QED
    BY <2>1, <2>2 DEF EntriesOf
<1>8. Head(q) \in EntriesOf(q)
  BY <1>1 DEF EntriesOf
<1>9. \A x \in EntriesOf(q) : DayNumber(Head(q)[1]) <= DayNumber(x[1])
  <2> SUFFICES ASSUME NEW i \in 1 .. Len(q)
               PROVE  DayNumber(q[1][1]) <= DayNumber(q[i][1])
    BY <1>1 DEF EntriesOf
  <2>1. CASE i = 1
    <3>1. DayNumber(q[1][1]) \in Nat
      BY <1>1, EntryParts
    <3> QED
      BY <2>1, <3>1
  <2>2. CASE i # 1
    <3>1. 1 \in 1 .. Len(q) /\ 1 < i
      BY <1>1, <2>2
    <3> QED
      BY <1>1, <3>1 DEF Sorted
  <2> QED
    BY <2>1, <2>2
<1>10. ~Waits(t, Head(q)[2])
  BY <1>6 DEF Waits, EntriesOf
<1> QED
  BY <1>2, <1>4, <1>5, <1>7, <1>8, <1>9, <1>10 DEF Listed, t

(* There is room in the table: it has more entries than there are events.  *)
LEMMA TableSuffices ==
  ASSUME NEW q, Listed(q)
  PROVE  Len(q) < NumEvents - 1
<1> DEFINE f == <<"ARILOU_ENTRANCE", "ARILOU_EXIT", "HYPERSPACE_ENCOUNTER",
                  "KOHR_AH_VICTORIOUS", "KOHR_AH_GENOCIDE", "ZOQFOT_DISTRESS",
                  "ZOQFOT_DEATH", "SHOFIXTI_RETURN", "SPATHI_SHIELD",
                  "ARILOU_UMGAH_CHECK", "SLYLANDRO_RAMP_UP", "SLYLANDRO_RAMP_DOWN">>
           g == [i \in 1 .. Len(q) |-> q[i][2]]
<1>1. f \in Surjection(1 .. 12, Events)
  <2>1. f \in [1 .. 12 -> Events]
    BY DEF Events
  <2>2. ASSUME NEW e \in Events PROVE \E i \in 1 .. 12 : f[i] = e
    BY DEF Events
  <2> HIDE DEF f
  <2> QED
    BY <2>1, <2>2 DEF Surjection
<1> HIDE DEF f
<1>2. IsFiniteSet(1 .. 12) /\ Cardinality(1 .. 12) = 12
  <2>1. 1 \in Int /\ 12 \in Int
    OBVIOUS
  <2>2. /\ IsFiniteSet(1 .. 12)
        /\ Cardinality(1 .. 12) = IF 1 > 12 THEN 0 ELSE 12 - 1 + 1
    BY <2>1, FS_Interval
  <2> QED
    BY <2>2
<1>3. IsFiniteSet(Events) /\ Cardinality(Events) <= 12 /\ Cardinality(Events) \in Nat
  BY <1>1, <1>2, FS_Surjection, FS_CardinalityType
<1>4. /\ q \in Seq(Entries) /\ OneEach(q) /\ Len(q) \in Nat
      /\ \A i \in 1 .. Len(q) : q[i][2] \in Events
  BY ListParts, EntryParts DEF Listed
<1>5. g \in Injection(1 .. Len(q), Events)
  <2>1. g \in [1 .. Len(q) -> Events]
    BY <1>4
  <2>2. \A i, j \in 1 .. Len(q) : g[i] = g[j] => i = j
    BY <1>4 DEF OneEach
  <2> HIDE DEF g
  <2> QED
    BY <2>1, <2>2, Fun_IsInj
<1> HIDE DEF g
<1>6. Cardinality(1 .. Len(q)) <= Cardinality(Events)
  BY <1>3, <1>5, FS_Injection
<1>7. Cardinality(1 .. Len(q)) = Len(q)
  <2>1. 1 \in Int /\ Len(q) \in Int
    BY <1>4
  <2>2. Cardinality(1 .. Len(q)) = IF 1 > Len(q) THEN 0 ELSE Len(q) - 1 + 1
    BY <2>1, FS_Interval
  <2> QED
    BY <1>4, <2>2
<1> QED
  BY <1>3, <1>4, <1>6, <1>7 DEF NumEvents

(* The daily event comes after all others of its date.                     *)
DailyLast(q) ==
  \A i, j \in 1 .. Len(q) :
    q[i][2] = "HYPERSPACE_ENCOUNTER" /\ q[j][1] = q[i][1] => j <= i

LEMMA DailyShrinks ==
  ASSUME NEW q, Listed(q), q # <<>>, DailyLast(q)
  PROVE  DailyLast(Tail(q))
<1> DEFINE t == Tail(q)
<1>1. q \in Seq(Entries) /\ Len(q) \in Nat \ {0}
  BY DEF Listed
<1>2. Len(t) = Len(q) - 1 /\ \A i \in 1 .. Len(t) : t[i] = q[i + 1]
  BY <1>1
<1> HIDE DEF t
<1>3. ASSUME NEW i \in 1 .. Len(t), NEW j \in 1 .. Len(t),
             t[i][2] = "HYPERSPACE_ENCOUNTER", t[j][1] = t[i][1]
      PROVE  j <= i
  <2>1. i + 1 \in 1 .. Len(q) /\ j + 1 \in 1 .. Len(q)
    BY <1>1, <1>2
  <2>2. j + 1 <= i + 1
    BY <1>2, <1>3, <2>1 DEF DailyLast
  <2> QED
    BY <2>2
<1> QED
  BY <1>3 DEF DailyLast, t

(* An event goes to the end of its date; the daily one stays the last if   *)
(* the others are asked for other dates.                                   *)
LEMMA DailyGrows ==
  ASSUME NEW q, Listed(q), NEW when \in Dates, NEW e \in Events, ~Waits(q, e),
         DailyLast(q),
         e # "HYPERSPACE_ENCOUNTER" =>
           \A x \in EntriesOf(q) : x[2] = "HYPERSPACE_ENCOUNTER" => x[1] # when
  PROVE  DailyLast(Inserted(q, when, e))
<1> DEFINE r == Inserted(q, when, e)
           x == <<when, e>>
<1>1. PICK n \in 0 .. Len(q) : InsertedAt(r, q, x, n)
  BY Grows
<1> HIDE DEF r
<1>2. /\ Len(r) = Len(q) + 1
      /\ \A i \in 1 .. Len(q) + 1 :
           r[i] = IF i <= n THEN q[i] ELSE IF i = n + 1 THEN x ELSE q[i - 1]
      /\ \A i \in n + 1 .. Len(q) : DayNumber(x[1]) < DayNumber(q[i][1])
  BY <1>1 DEF InsertedAt
<1>3. /\ Len(q) \in Nat /\ x[1] = when /\ x[2] = e /\ DayNumber(when) \in Nat
      /\ \A i \in 1 .. Len(q) : q[i] \in EntriesOf(q) /\ q[i][2] # e
      /\ \A i \in 1 .. Len(q) : DayNumber(q[i][1]) \in Nat
  BY ListParts, EntryParts, DateParts DEF Waits, EntriesOf
<1> HIDE DEF x
<1> DEFINE At(i) == IF i <= n THEN i ELSE i - 1
<1>4. \A i \in 1 .. Len(q) + 1 : i # n + 1 => At(i) \in 1 .. Len(q) /\ r[i] = q[At(i)]
  BY <1>2, <1>3
<1>5. \A i, j \in 1 .. Len(q) + 1 :
        i # n + 1 /\ j # n + 1 /\ At(j) <= At(i) => j <= i
  BY <1>3
<1>6. n + 1 \in 1 .. Len(q) + 1 /\ r[n + 1] = x
  BY <1>2, <1>3
<1>7. ASSUME NEW i \in 1 .. Len(q) + 1, NEW j \in 1 .. Len(q) + 1,
             r[i][2] = "HYPERSPACE_ENCOUNTER", r[j][1] = r[i][1]
      PROVE  j <= i
  <2>1. CASE i # n + 1 /\ j # n + 1
    <3>1. /\ At(i) \in 1 .. Len(q) /\ At(j) \in 1 .. Len(q)
          /\ r[i] = q[At(i)] /\ r[j] = q[At(j)]
      BY <1>4, <2>1
    <3>2. At(j) <= At(i)
      <4> HIDE DEF At
      <4> QED
        BY <1>7, <3>1 DEF DailyLast
    <3> QED
      BY <1>5, <2>1, <3>2
  <2>2. CASE i = n + 1 /\ j # n + 1
    <3>1. CASE j <= n
      BY <2>2, <3>1
    <3>2. CASE ~(j <= n)
      <4>1. j - 1 \in n + 1 .. Len(q) /\ r[j] = q[j - 1]
        BY <1>2, <1>3, <2>2, <3>2
      <4>2. DayNumber(x[1]) < DayNumber(q[j - 1][1]) /\ j - 1 \in 1 .. Len(q)
        BY <1>2, <1>3, <4>1
      <4>3. q[j - 1][1] = when
        BY <1>3, <1>6, <1>7, <2>2, <4>1
      <4> QED
        BY <1>3, <4>2, <4>3
    <3> QED
      BY <3>1, <3>2
  <2>3. CASE j = n + 1 /\ i # n + 1
    <3>1. At(i) \in 1 .. Len(q) /\ r[i] = q[At(i)]
      BY <1>4, <2>3
    <3> HIDE DEF At
    <3>2. e # "HYPERSPACE_ENCOUNTER"
      BY <1>3, <1>7, <3>1
    <3>3. q[At(i)] \in EntriesOf(q) /\ q[At(i)][1] # when
      BY <1>3, <1>7, <3>1, <3>2
    <3> QED
      BY <1>3, <1>6, <1>7, <2>3, <3>1, <3>3
  <2>4. CASE j = n + 1 /\ i = n + 1
    BY <2>4
  <2> QED
    BY <2>1, <2>2, <2>3, <2>4
<1> QED
  BY <1>2, <1>7 DEF DailyLast, r

(* What is due is at the head.                                             *)
LEMMA DueIs ==
  ASSUME NEW q, Listed(q), NEW d \in Dates,
         \A x \in EntriesOf(q) : DayNumber(d) <= DayNumber(x[1])
  PROVE  /\ Due(q, d) => q # <<>> /\ Head(q)[1] = d
         /\ ~Due(q, d) => \A x \in EntriesOf(q) : DayNumber(d) < DayNumber(x[1])
<1>1. Due(q, d) => q # <<>> /\ Head(q)[1] = d
  BY DEF Due
<1>2. ASSUME ~Due(q, d), NEW x \in EntriesOf(q)
      PROVE  DayNumber(d) < DayNumber(x[1])
  <2>1. q # <<>> /\ x \in Entries
    BY <1>2, ListParts DEF EntriesOf
  <2>2. /\ Head(q) \in Entries /\ DayNumber(d) <= DayNumber(Head(q)[1])
        /\ DayNumber(Head(q)[1]) <= DayNumber(x[1])
    BY <2>1, Shrinks, ListParts
  <2>3. Head(q)[1] \in Dates /\ Head(q)[1] # d
    BY <1>2, <2>1, <2>2, EntryParts DEF Due
  <2>4. DayNumber(Head(q)[1]) # DayNumber(d)
    BY <2>3, DatesInOrder
  <2>5. DayNumber(Head(q)[1]) \in Nat /\ DayNumber(d) \in Nat /\ DayNumber(x[1]) \in Nat
    BY <2>1, <2>2, EntryParts, DateParts
  <2> QED
    BY <2>2, <2>4, <2>5
<1> QED
  BY <1>1, <1>2

-----------------------------------------------------------------------------
(* What the handlers ask for.                                              *)

LEMMA NextMonthIs ==
  ASSUME date \in Dates
  PROVE  /\ The17thOfNextMonth =
              IF date[2] = 12 THEN <<date[1] + 1, 1, 17>> ELSE <<date[1], date[2] + 1, 17>>
         /\ The17thOfNextMonth \in Dates
         /\ date[3] = 20 => DayNumber(The17thOfNextMonth) - DayNumber(date) \in 25 .. 28
<1> DEFINE y == date[1]  m == date[2]  len == DaysInMonth(m, y)
<1>1. /\ date \in Days /\ y \in Nat /\ m \in 1 .. 12 /\ len \in 28 .. 31
      /\ DayNumber(date) = date[3] + MonthDays(m) + YearDays(YearOf(y, m))
  BY DateParts, NumberIs
<1>2. /\ MonthDays(m) \in Nat /\ YearDays(YearOf(y, m)) \in Nat
      /\ m < 12 => MonthDays(m + 1) + YearDays(YearOf(y, m + 1)) =
                     MonthDays(m) + YearDays(YearOf(y, m)) + len
      /\ m = 12 => MonthDays(1) + YearDays(YearOf(y + 1, 1)) =
                     MonthDays(m) + YearDays(YearOf(y, m)) + len
  BY <1>1, MonthLengths
<1>3. \A n \in 1 .. 12 : n % 12 = IF n = 12 THEN 0 ELSE n
  OBVIOUS
<1>4. The17thOfNextMonth = IF m = 12 THEN <<y + 1, 1, 17>> ELSE <<y, m + 1, 17>>
  BY <1>1, <1>3 DEF The17thOfNextMonth
<1> HIDE DEF y, m
<1>5. CASE m < 12
  <2>1. m + 1 \in 1 .. 12 /\ The17thOfNextMonth = <<y, m + 1, 17>>
    BY <1>1, <1>4, <1>5
  <2>2. /\ DaysInMonth(m + 1, y) \in 28 .. 31
        /\ MonthDays(m + 1) \in Nat /\ YearDays(YearOf(y, m + 1)) \in Nat
    BY <1>1, <2>1, MonthLengths
  <2>3. The17thOfNextMonth \in Dates
    BY <1>1, <2>1, <2>2 DEF Days, Dates
  <2>4. DayNumber(The17thOfNextMonth) = 17 + MonthDays(m + 1) + YearDays(YearOf(y, m + 1))
    BY <1>1, <2>1, NumberParts
  <2> QED
    BY <1>1, <1>2, <1>4, <1>5, <2>2, <2>3, <2>4 DEF y, m
<1>6. CASE m = 12
  <2>1. The17thOfNextMonth = <<y + 1, 1, 17>> /\ y + 1 \in Nat
    BY <1>1, <1>4, <1>6
  <2>2. /\ DaysInMonth(1, y + 1) \in 28 .. 31
        /\ MonthDays(1) \in Nat /\ YearDays(YearOf(y + 1, 1)) \in Nat
    BY <1>1, <2>1, MonthLengths
  <2>3. The17thOfNextMonth \in Dates
    BY <1>1, <2>1, <2>2 DEF Days, Dates
  <2>4. DayNumber(The17thOfNextMonth) = 17 + MonthDays(1) + YearDays(YearOf(y + 1, 1))
    BY <1>1, <2>1, NumberParts
  <2> QED
    BY <1>1, <1>2, <1>4, <1>6, <2>2, <2>3, <2>4 DEF y, m
<1> QED
  BY <1>1, <1>5, <1>6

(* The 17th and the 20th are days of each month.                           *)
LEMMA StayIs ==
  ASSUME date \in Dates
  PROVE  /\ \A n \in 1 .. 28 : <<date[1], date[2], n>> \in Dates
         /\ date[3] = 17 => Later(0, 3, 0) = <<date[1], date[2], 20>>
<1>1. /\ date[1] \in Nat /\ date[2] \in 1 .. 12 /\ date = <<date[1], date[2], date[3]>>
      /\ DaysInMonth(date[2], date[1]) \in 28 .. 31 /\ date \in Days
  BY DateParts
<1>2. \A n \in 1 .. 28 : <<date[1], date[2], n>> \in Dates
  BY <1>1 DEF Days, Dates
<1>3. ASSUME date[3] = 17 PROVE Later(0, 3, 0) = <<date[1], date[2], 20>>
  <2>1. Later(0, 3, 0) \in Dates /\ DayNumber(Later(0, 3, 0)) = DayNumber(date) + 3
    BY DaysLater
  <2>2. /\ DayNumber(date) = 17 + MonthDays(date[2]) + YearDays(YearOf(date[1], date[2]))
        /\ MonthDays(date[2]) \in Nat /\ YearDays(YearOf(date[1], date[2])) \in Nat
    BY <1>1, <1>3, NumberIs, MonthLengths
  <2>3. DayNumber(<<date[1], date[2], 20>>) =
          20 + MonthDays(date[2]) + YearDays(YearOf(date[1], date[2]))
    BY <1>1, NumberParts
  <2>4. <<date[1], date[2], 20>> \in Dates
    BY <1>2
  <2>5. DayNumber(Later(0, 3, 0)) = DayNumber(<<date[1], date[2], 20>>)
    BY <2>1, <2>2, <2>3
  <2> QED
    BY <2>1, <2>4, <2>5, DatesInOrder
<1> QED
  BY <1>2, <1>3

LEMMA DelayIs ==
  /\ Delay["HYPERSPACE_ENCOUNTER"] = {1}
  /\ Delay["ARILOU_ENTRANCE"] = 25 .. 28
  /\ Delay["ARILOU_EXIT"] = {3}
  /\ Delay["KOHR_AH_VICTORIOUS"] = 365 * YearsToVictory .. 366 * YearsToVictory
  /\ Delay["KOHR_AH_GENOCIDE"] = {7, 365, 366}
  /\ Delay["ZOQFOT_DISTRESS"] = {7} \cup 89 .. 92
  /\ Delay["ZOQFOT_DEATH"] = {7} \cup 181 .. 184
  /\ Delay["SPATHI_SHIELD"] = {7} \cup 181 .. 184
  /\ Delay["SHOFIXTI_RETURN"] = 59 .. 62
  /\ Delay["ARILOU_UMGAH_CHECK"] = {10}
  /\ Delay["SLYLANDRO_RAMP_UP"] = {182}
  /\ Delay["SLYLANDRO_RAMP_DOWN"] = {23}
BY DEF Delay, Events

LEMMA FollowUps ==
  /\ FollowUp("HYPERSPACE_ENCOUNTER") = <<Later(0, 1, 0), "HYPERSPACE_ENCOUNTER">>
  /\ FollowUp("ARILOU_ENTRANCE") = <<Later(0, 3, 0), "ARILOU_EXIT">>
  /\ FollowUp("ARILOU_EXIT") = <<The17thOfNextMonth, "ARILOU_ENTRANCE">>
  /\ FollowUp("SLYLANDRO_RAMP_UP") =
       IF ~story.destruct /\ story.ramp < 4
       THEN <<Later(0, 182, 0), "SLYLANDRO_RAMP_UP">> ELSE Nothing
  /\ FollowUp("SLYLANDRO_RAMP_DOWN") =
       IF story.ramp # 1 THEN <<Later(0, 23, 0), "SLYLANDRO_RAMP_DOWN">> ELSE Nothing
  /\ FollowUp("KOHR_AH_VICTORIOUS") \in
       {<<Later(0, 0, 1), "KOHR_AH_GENOCIDE">>, Postponed("KOHR_AH_GENOCIDE"), Nothing}
  /\ FollowUp("KOHR_AH_GENOCIDE") \in {Postponed("KOHR_AH_GENOCIDE"), Nothing}
  /\ FollowUp("ZOQFOT_DISTRESS") = IF place = "zoqfot" THEN Postponed("ZOQFOT_DISTRESS")
                                   ELSE <<Later(6, 0, 0), "ZOQFOT_DEATH">>
  /\ FollowUp("ZOQFOT_DEATH") =
       IF place = "zoqfot" THEN Postponed("ZOQFOT_DEATH") ELSE Nothing
  /\ FollowUp("SPATHI_SHIELD") =
       IF place = "spathi" THEN Postponed("SPATHI_SHIELD") ELSE Nothing
  /\ FollowUp("SHOFIXTI_RETURN") = Nothing
  /\ FollowUp("ARILOU_UMGAH_CHECK") = Nothing
<1> USE DEF FollowUp
<1>1. FollowUp("HYPERSPACE_ENCOUNTER") = <<Later(0, 1, 0), "HYPERSPACE_ENCOUNTER">>
  OBVIOUS
<1>2. FollowUp("ARILOU_ENTRANCE") = <<Later(0, 3, 0), "ARILOU_EXIT">>
  OBVIOUS
<1>3. FollowUp("ARILOU_EXIT") = <<The17thOfNextMonth, "ARILOU_ENTRANCE">>
  OBVIOUS
<1>4. FollowUp("SLYLANDRO_RAMP_UP") =
        IF ~story.destruct /\ story.ramp < 4
        THEN <<Later(0, 182, 0), "SLYLANDRO_RAMP_UP">> ELSE Nothing
  OBVIOUS
<1>5. FollowUp("SLYLANDRO_RAMP_DOWN") =
        IF story.ramp # 1 THEN <<Later(0, 23, 0), "SLYLANDRO_RAMP_DOWN">> ELSE Nothing
  OBVIOUS
<1>6. FollowUp("KOHR_AH_VICTORIOUS") \in
        {<<Later(0, 0, 1), "KOHR_AH_GENOCIDE">>, Postponed("KOHR_AH_GENOCIDE"), Nothing}
  OBVIOUS
<1>7. FollowUp("KOHR_AH_GENOCIDE") \in {Postponed("KOHR_AH_GENOCIDE"), Nothing}
  OBVIOUS
<1>8. FollowUp("ZOQFOT_DISTRESS") = IF place = "zoqfot" THEN Postponed("ZOQFOT_DISTRESS")
                                    ELSE <<Later(6, 0, 0), "ZOQFOT_DEATH">>
  OBVIOUS
<1>9. FollowUp("ZOQFOT_DEATH") =
        IF place = "zoqfot" THEN Postponed("ZOQFOT_DEATH") ELSE Nothing
  OBVIOUS
<1>10. FollowUp("SPATHI_SHIELD") =
         IF place = "spathi" THEN Postponed("SPATHI_SHIELD") ELSE Nothing
  OBVIOUS
<1>11. FollowUp("SHOFIXTI_RETURN") = Nothing /\ FollowUp("ARILOU_UMGAH_CHECK") = Nothing
  OBVIOUS
<1> HIDE DEF FollowUp
<1> QED
  BY <1>1, <1>2, <1>3, <1>4, <1>5, <1>6, <1>7, <1>8, <1>9, <1>10, <1>11

(* What an event asks for is a date, as many days on as the countdown      *)
(* allows, and three or more but for the daily event.                      *)
AskedIn(w, f) ==
  /\ w \in Dates /\ f \in Events
  /\ DayNumber(w) - DayNumber(date) \in Delay[f]
  /\ IF f = "HYPERSPACE_ENCOUNTER" THEN DayNumber(w) = DayNumber(date) + 1
     ELSE DayNumber(w) >= DayNumber(date) + 3

LEMMA AskedDays ==
  ASSUME date \in Dates, NEW days \in Nat, NEW f \in Events, days \in Delay[f],
         IF f = "HYPERSPACE_ENCOUNTER" THEN days = 1 ELSE days >= 3
  PROVE  AskedIn(Later(0, days, 0), f)
<1>1. Later(0, days, 0) \in Dates /\ DayNumber(Later(0, days, 0)) = DayNumber(date) + days
  BY DaysLater
<1>2. DayNumber(date) \in Nat
  BY DateParts
<1> QED
  BY <1>1, <1>2 DEF AskedIn

LEMMA FollowUpIs ==
  ASSUME date \in Dates, NEW e \in Events, e = "ARILOU_EXIT" => date[3] = 20
  PROVE  FollowUp(e) = Nothing \/
         \E w, f : FollowUp(e) = <<w, f>> /\ AskedIn(w, f)
<1>1. AskedIn(Later(0, 1, 0), "HYPERSPACE_ENCOUNTER")
  BY AskedDays, DelayIs DEF Events
<1>2. AskedIn(Later(0, 3, 0), "ARILOU_EXIT")
  BY AskedDays, DelayIs DEF Events
<1>3. AskedIn(Later(0, 182, 0), "SLYLANDRO_RAMP_UP")
  BY AskedDays, DelayIs DEF Events
<1>4. AskedIn(Later(0, 23, 0), "SLYLANDRO_RAMP_DOWN")
  BY AskedDays, DelayIs DEF Events
<1>5. \A f \in {"KOHR_AH_GENOCIDE", "ZOQFOT_DISTRESS", "ZOQFOT_DEATH", "SPATHI_SHIELD"} :
        Postponed(f) = <<Later(0, 7, 0), f>> /\ AskedIn(Later(0, 7, 0), f)
  BY AskedDays, DelayIs DEF Events, Postponed
<1>6. DayNumber(date) \in Nat /\ \A w \in Dates : DayNumber(w) \in Nat
  BY DateParts
<1>7. AskedIn(Later(0, 0, 1), "KOHR_AH_GENOCIDE")
  BY <1>6, YearLater, DelayIs DEF Events, AskedIn
<1>8. AskedIn(Later(6, 0, 0), "ZOQFOT_DEATH")
  BY <1>6, MonthsLater, DelayIs DEF Events, AskedIn
<1>9. date[3] = 20 => AskedIn(The17thOfNextMonth, "ARILOU_ENTRANCE")
  BY <1>6, NextMonthIs, DelayIs DEF Events, AskedIn
<1> QED
  <2> USE FollowUps
  <2>1. CASE e \in {"HYPERSPACE_ENCOUNTER", "ARILOU_ENTRANCE", "ARILOU_EXIT"}
    BY <1>1, <1>2, <1>9, <2>1
  <2>2. CASE e \in {"SLYLANDRO_RAMP_UP", "SLYLANDRO_RAMP_DOWN"}
    BY <1>3, <1>4, <2>2
  <2>3. CASE e \in {"KOHR_AH_VICTORIOUS", "KOHR_AH_GENOCIDE"}
    BY <1>5, <1>7, <2>3
  <2>4. CASE e \in {"ZOQFOT_DISTRESS", "ZOQFOT_DEATH", "SPATHI_SHIELD"}
    BY <1>5, <1>8, <2>4
  <2>5. CASE e \in {"SHOFIXTI_RETURN", "ARILOU_UMGAH_CHECK"}
    BY <2>5
  <2> QED
    BY <2>1, <2>2, <2>3, <2>4, <2>5 DEF Events

-----------------------------------------------------------------------------
(* The invariant.                                                          *)

Kinds(q) == {x[2] : x \in EntriesOf(q)}

(* Where the player has not been yet, the clock stands still.              *)
ClockOK ==
  /\ date \in Dates
  /\ frames \in [left : Nat, inDay : {0, FramesInHyperspace, FramesInSystem}]
  /\ todo \in [days : 0 .. LostDays, events : BOOLEAN]
  /\ place \in {"start", "hyperspace"} \cup Systems
  /\ IF place = "start" THEN frames.inDay = 0 /\ todo.days = 0
     ELSE frames.left \in 1 .. frames.inDay

(* The list q is in order on day d, and the daily event is the next day's  *)
(* once the other events of the day are done.                              *)
ListOK(q, d, now) ==
  /\ Listed(q) /\ DailyLast(q)
  /\ \A x \in EntriesOf(q) : DayNumber(d) <= DayNumber(x[1])
  /\ now <=> Due(q, d)
  /\ \E x \in EntriesOf(q) :
       /\ x[2] = "HYPERSPACE_ENCOUNTER"
       /\ DayNumber(x[1]) = DayNumber(d) + IF now THEN 0 ELSE 1

Stories ==
  [gate : {"opening", "closing"}, ramp : 0 .. 4, destruct : BOOLEAN,
   utwig : BOOLEAN, frenzy : BOOLEAN, shielded : BOOLEAN,
   zoqfot : {"peace", "distress", "dead"},
   asked : SUBSET (Events \cup {"days", "utwig"})]

(* The kinds k of event that are waiting in a story s                      *)
StoryOK(k, s) ==
  /\ s \in Stories
  /\ "ARILOU_ENTRANCE" \in k <=> "ARILOU_EXIT" \notin k
  /\ ~({"KOHR_AH_VICTORIOUS", "KOHR_AH_GENOCIDE"} \subseteq k)
  /\ s.frenzy \/ "KOHR_AH_VICTORIOUS" \in k \/ "KOHR_AH_GENOCIDE" \in k
  /\ ~({"ZOQFOT_DISTRESS", "ZOQFOT_DEATH"} \subseteq k)
  /\ "ZOQFOT_DEATH" \in k => "ZOQFOT_DISTRESS" \in s.asked
  /\ s.zoqfot = "distress" => "ZOQFOT_DEATH" \in k
  /\ \A e \in {"ZOQFOT_DISTRESS", "SHOFIXTI_RETURN", "SPATHI_SHIELD",
               "ARILOU_UMGAH_CHECK", "SLYLANDRO_RAMP_DOWN"} :
       e \in k => e \in s.asked
  /\ IF s.destruct THEN s.ramp = 0 \/ "SLYLANDRO_RAMP_DOWN" \in k
     ELSE s.ramp # 0 /\ ("SLYLANDRO_RAMP_UP" \in k \/ s.ramp = 4)
  /\ "SLYLANDRO_RAMP_DOWN" \in k => s.destruct /\ s.ramp # 0

(* The next visit of the Arilou, and how long they stay                    *)
GateOK ==
  \A x \in EntriesOf(queue) :
    /\ x[2] = "ARILOU_ENTRANCE" =>
         /\ story.gate = "closing"
         /\ \/ x[1] = <<date[1], date[2], 17>> /\ date[3] <= 17
            \/ /\ x[1] = The17thOfNextMonth
               /\ date[3] >= 20 \/ (date[1] = StartYear /\ date[2] = 2)
    /\ x[2] = "ARILOU_EXIT" =>
         /\ story.gate = "opening"
         /\ x[1] = <<date[1], date[2], 20>> /\ date[3] \in 17 .. 20

ClockInvariant ==
  /\ ClockOK
  /\ ListOK(queue, date, todo.events)
  /\ StoryOK(Kinds(queue), story)
  /\ GateOK

(* An event that is handled leaves the list, and what it asks for waits.   *)
KindOf(next) == IF next = Nothing THEN {} ELSE {next[2]}

LEMMA KindsOf ==
  /\ KindOf(Nothing) = {}
  /\ \A w, f : KindOf(<<w, f>>) = {f} /\ <<w, f>> # Nothing /\ <<w, f>>[2] = f
  /\ \A f : KindOf(Postponed(f)) = {f} /\ Postponed(f) # Nothing /\ Postponed(f)[2] = f
<1>1. \A w, f : <<w, f>> # <<>> /\ <<w, f>>[2] = f
  OBVIOUS
<1> QED
  BY <1>1 DEF KindOf, Nothing, Postponed

LEMMA StoryKept ==
  ASSUME NEW k \in SUBSET Events, StoryOK(k, story), NEW e \in k
  PROVE  /\ StoryOK((k \ {e}) \cup KindOf(FollowUp(e)), Changed(e))
         /\ FollowUp(e) # Nothing => FollowUp(e)[2] \notin k \ {e}
<1>1. CASE e \in {"HYPERSPACE_ENCOUNTER", "SHOFIXTI_RETURN", "ARILOU_UMGAH_CHECK"}
  <2>1. Changed(e) = story
    BY <1>1 DEF Changed
  <2>2. \/ e = "HYPERSPACE_ENCOUNTER" /\ KindOf(FollowUp(e)) = {e} /\ FollowUp(e)[2] = e
        \/ e # "HYPERSPACE_ENCOUNTER" /\ KindOf(FollowUp(e)) = {} /\ FollowUp(e) = Nothing
    BY <1>1, FollowUps, KindsOf
  <2> QED
    BY <1>1, <2>1, <2>2 DEF StoryOK
<1>2. CASE e = "ARILOU_ENTRANCE"
  <2>1. Changed(e) = [story EXCEPT !.gate = "opening"]
    BY <1>2 DEF Changed
  <2>2. KindOf(FollowUp(e)) = {"ARILOU_EXIT"} /\ FollowUp(e)[2] = "ARILOU_EXIT"
    BY <1>2, FollowUps, KindsOf
  <2> QED
    BY <1>2, <2>1, <2>2 DEF StoryOK, Stories
<1>3. CASE e = "ARILOU_EXIT"
  <2>1. Changed(e) = [story EXCEPT !.gate = "closing"]
    BY <1>3 DEF Changed
  <2>2. KindOf(FollowUp(e)) = {"ARILOU_ENTRANCE"} /\ FollowUp(e)[2] = "ARILOU_ENTRANCE"
    BY <1>3, FollowUps, KindsOf
  <2> QED
    BY <1>3, <2>1, <2>2 DEF StoryOK, Stories
<1>4. CASE e = "SLYLANDRO_RAMP_UP"
  <2>1. CASE ~story.destruct /\ story.ramp < 4
    <3>1. Changed(e) = [story EXCEPT !.ramp = @ + 1]
      BY <1>4, <2>1 DEF Changed
    <3>2. KindOf(FollowUp(e)) = {e} /\ FollowUp(e)[2] = e
      BY <1>4, <2>1, FollowUps, KindsOf
    <3> QED
      BY <1>4, <2>1, <3>1, <3>2 DEF StoryOK, Stories
  <2>2. CASE ~(~story.destruct /\ story.ramp < 4)
    <3>1. Changed(e) = story
      BY <1>4, <2>2 DEF Changed
    <3>2. KindOf(FollowUp(e)) = {} /\ FollowUp(e) = Nothing
      BY <1>4, <2>2, FollowUps, KindsOf
    <3> QED
      BY <1>4, <2>2, <3>1, <3>2 DEF StoryOK, Stories
  <2> QED
    BY <2>1, <2>2
<1>5. CASE e = "SLYLANDRO_RAMP_DOWN"
  <2>1. story.ramp \in 1 .. 4 /\ story.destruct
    BY <1>5 DEF StoryOK, Stories
  <2>2. Changed(e) = [story EXCEPT !.ramp = story.ramp - 1]
    <3>1. Changed(e) = [story EXCEPT !.ramp = (@ - 1) % 8]
      BY <1>5 DEF Changed
    <3>2. (story.ramp - 1) % 8 = story.ramp - 1
      BY <2>1
    <3> QED
      BY <3>1, <3>2
  <2>3. IF story.ramp # 1 THEN KindOf(FollowUp(e)) = {e} /\ FollowUp(e)[2] = e
        ELSE KindOf(FollowUp(e)) = {} /\ FollowUp(e) = Nothing
    BY <1>5, FollowUps, KindsOf
  <2> QED
    BY <1>5, <2>1, <2>2, <2>3 DEF StoryOK, Stories
<1>6. CASE e \in {"KOHR_AH_VICTORIOUS", "KOHR_AH_GENOCIDE"}
  <2>1. CASE FollowUp(e) = Nothing
    <3>1. Changed(e) = [story EXCEPT !.frenzy = TRUE]
      BY <1>6, <2>1 DEF Changed
    <3>2. KindOf(FollowUp(e)) = {}
      BY <2>1, KindsOf
    <3> QED
      BY <1>6, <2>1, <3>1, <3>2 DEF StoryOK, Stories
  <2>2. CASE FollowUp(e) # Nothing
    <3>1. Changed(e) = story
      BY <1>6, <2>2 DEF Changed
    <3>2. KindOf(FollowUp(e)) = {"KOHR_AH_GENOCIDE"} /\ FollowUp(e)[2] = "KOHR_AH_GENOCIDE"
      BY <1>6, <2>2, FollowUps, KindsOf
    <3> QED
      BY <1>6, <2>2, <3>1, <3>2 DEF StoryOK, Stories
  <2> QED
    BY <2>1, <2>2
<1>7. CASE e = "ZOQFOT_DISTRESS"
  <2>1. CASE place = "zoqfot"
    <3>1. Changed(e) = story
      BY <1>7, <2>1 DEF Changed
    <3>2. KindOf(FollowUp(e)) = {e} /\ FollowUp(e)[2] = e
      BY <1>7, <2>1, FollowUps, KindsOf
    <3> QED
      BY <1>7, <3>1, <3>2 DEF StoryOK, Stories
  <2>2. CASE place # "zoqfot"
    <3>1. Changed(e) = [story EXCEPT !.zoqfot = "distress"]
      BY <1>7, <2>2 DEF Changed
    <3>2. KindOf(FollowUp(e)) = {"ZOQFOT_DEATH"} /\ FollowUp(e)[2] = "ZOQFOT_DEATH"
      BY <1>7, <2>2, FollowUps, KindsOf
    <3> QED
      BY <1>7, <3>1, <3>2 DEF StoryOK, Stories
  <2> QED
    BY <2>1, <2>2
<1>8. CASE e = "ZOQFOT_DEATH"
  <2>1. CASE place = "zoqfot"
    <3>1. Changed(e) = story
      BY <1>8, <2>1 DEF Changed
    <3>2. KindOf(FollowUp(e)) = {e} /\ FollowUp(e)[2] = e
      BY <1>8, <2>1, FollowUps, KindsOf
    <3> QED
      BY <1>8, <3>1, <3>2 DEF StoryOK, Stories
  <2>2. CASE place # "zoqfot"
    <3>1. Changed(e) = IF story.zoqfot = "distress" THEN [story EXCEPT !.zoqfot = "dead"]
                       ELSE story
      BY <1>8, <2>2 DEF Changed
    <3>2. KindOf(FollowUp(e)) = {} /\ FollowUp(e) = Nothing
      BY <1>8, <2>2, FollowUps, KindsOf
    <3> QED
      BY <1>8, <3>1, <3>2 DEF StoryOK, Stories
  <2> QED
    BY <2>1, <2>2
<1>9. CASE e = "SPATHI_SHIELD"
  <2>1. IF place = "spathi" THEN KindOf(FollowUp(e)) = {e} /\ FollowUp(e)[2] = e
        ELSE KindOf(FollowUp(e)) = {} /\ FollowUp(e) = Nothing
    BY <1>9, FollowUps, KindsOf
  <2>2. CASE place = "spathi"
    <3>1. Changed(e) = story
      BY <1>9, <2>2 DEF Changed
    <3> QED
      BY <1>9, <2>1, <2>2, <3>1 DEF StoryOK
  <2>3. CASE place # "spathi"
    <3>1. Changed(e) = [story EXCEPT !.shielded = TRUE]
      BY <1>9, <2>3 DEF Changed
    <3> QED
      BY <1>9, <2>1, <2>3, <3>1 DEF StoryOK, Stories
  <2> QED
    BY <2>2, <2>3
<1> QED
  BY <1>1, <1>2, <1>3, <1>4, <1>5, <1>6, <1>7, <1>8, <1>9 DEF Events

-----------------------------------------------------------------------------
(* What the steps do to the list.                                          *)

LEMMA DueThen ==
  ASSUME NEW q, Listed(q), NEW d \in Dates,
         \A x \in EntriesOf(q) : DayNumber(d) <= DayNumber(x[1])
  PROVE  Due(q, d) <=> \E x \in EntriesOf(q) : DayNumber(x[1]) = DayNumber(d)
<1>1. ASSUME Due(q, d) PROVE \E x \in EntriesOf(q) : DayNumber(x[1]) = DayNumber(d)
  <2>1. q # <<>> /\ Head(q)[1] = d
    BY <1>1 DEF Due
  <2> QED
    BY <2>1, Shrinks
<1>2. ASSUME ~Due(q, d), NEW x \in EntriesOf(q) PROVE DayNumber(x[1]) # DayNumber(d)
  <2>1. DayNumber(d) < DayNumber(x[1])
    BY <1>2, DueIs
  <2>2. DayNumber(d) \in Nat /\ DayNumber(x[1]) \in Nat
    BY ListParts, EntryParts, DateParts
  <2> QED
    BY <2>1, <2>2
<1> QED
  BY <1>1, <1>2

LEMMA KindsAre ==
  ASSUME NEW q, Listed(q)
  PROVE  Kinds(q) \in SUBSET Events /\ \A e : e \in Kinds(q) <=> Waits(q, e)
BY ListParts, EntryParts DEF Kinds, Waits

(* An event is added as asked: it is not of the past and there is room.    *)
LEMMA AddedIs ==
  ASSUME date \in Dates, NEW q, Listed(q), NEW w, NEW f, AskedIn(w, f), ~Waits(q, f),
         DailyLast(q),
         \A x \in EntriesOf(q) : /\ DayNumber(date) <= DayNumber(x[1])
                                 /\ x[2] = "HYPERSPACE_ENCOUNTER" =>
                                      DayNumber(x[1]) <= DayNumber(date) + 1,
         NEW inUse \in {0, 1}
  PROVE  LET r == Added(q, w, f, inUse)
         IN  /\ Listed(r) /\ DailyLast(r) /\ EntriesOf(r) = EntriesOf(q) \cup {<<w, f>>}
             /\ Kinds(r) = Kinds(q) \cup {f}
             /\ \A x \in EntriesOf(r) : DayNumber(date) <= DayNumber(x[1])
<1>1. /\ w \in Dates /\ f \in Events /\ DayNumber(w) \in Nat /\ DayNumber(date) \in Nat
      /\ DayNumber(date) + 1 <= DayNumber(w)
      /\ f # "HYPERSPACE_ENCOUNTER" => DayNumber(date) + 3 <= DayNumber(w)
  <2>1. w \in Dates /\ DayNumber(w) \in Nat /\ DayNumber(date) \in Nat
    BY DateParts DEF AskedIn
  <2> QED
    BY <2>1 DEF AskedIn
<1>2. ~Before(w, date)
  BY <1>1, DatesInOrder
<1>3. Len(q) + inUse < NumEvents
  <2>1. Len(q) < NumEvents - 1 /\ Len(q) \in Nat
    BY TableSuffices, ListParts
  <2> QED
    BY <2>1 DEF NumEvents
<1>4. Added(q, w, f, inUse) = Inserted(q, w, f)
  <2>1. ~(Len(q) + inUse >= NumEvents)
    BY <1>3, ListParts DEF NumEvents
  <2> QED
    BY <1>2, <2>1 DEF Added
<1> DEFINE r == Inserted(q, w, f)
<1>5. Listed(r) /\ EntriesOf(r) = EntriesOf(q) \cup {<<w, f>>}
  BY <1>1, Grows
<1>6. f # "HYPERSPACE_ENCOUNTER" =>
        \A x \in EntriesOf(q) : x[2] = "HYPERSPACE_ENCOUNTER" => x[1] # w
  <2>1. \A x \in EntriesOf(q) : DayNumber(x[1]) \in Nat
    BY ListParts, EntryParts
  <2> QED
    BY <1>1, <2>1
<1>7. DailyLast(r)
  BY <1>1, <1>6, DailyGrows
<1>8. Kinds(r) = Kinds(q) \cup {f}
  <2> HIDE DEF r
  <2>1. <<w, f>>[2] = f
    OBVIOUS
  <2>2. ASSUME NEW e PROVE e \in Kinds(r) <=> e \in Kinds(q) \/ e = f
    BY <1>5, <2>1 DEF Kinds
  <2> QED
    BY <2>2
<1>9. \A x \in EntriesOf(r) : DayNumber(date) <= DayNumber(x[1])
  <2>1. <<w, f>>[1] = w /\ DayNumber(date) <= DayNumber(w)
    BY <1>1
  <2> HIDE DEF r
  <2> QED
    BY <1>5, <2>1
<1> QED
  BY <1>4, <1>5, <1>7, <1>8, <1>9

LEMMA ListAsked ==
  ASSUME date \in Dates, NEW q, ListOK(q, date, FALSE), NEW w, NEW f, AskedIn(w, f),
         f \notin Kinds(q)
  PROVE  LET r == Added(q, w, f, 0)
         IN  /\ ListOK(r, date, FALSE)
             /\ \A x : x \in EntriesOf(r) <=> x \in EntriesOf(q) \/ x = <<w, f>>
             /\ \A e : e \in Kinds(r) <=> e \in Kinds(q) \/ e = f
<1> DEFINE r == Added(q, w, f, 0)
<1>1. /\ Listed(q) /\ DailyLast(q) /\ ~Due(q, date)
      /\ \A x \in EntriesOf(q) : DayNumber(date) <= DayNumber(x[1])
  BY DEF ListOK
<1>2. PICK h \in EntriesOf(q) : /\ h[2] = "HYPERSPACE_ENCOUNTER"
                                /\ DayNumber(h[1]) = DayNumber(date) + 1
  BY DEF ListOK
<1>3. /\ \A x \in EntriesOf(q) : DayNumber(x[1]) \in Nat
      /\ \A x, y \in EntriesOf(q) : x[2] = y[2] => x = y
      /\ DayNumber(date) \in Nat
  BY <1>1, ListParts, EntryParts, DateParts
<1>4. /\ Listed(r) /\ DailyLast(r) /\ EntriesOf(r) = EntriesOf(q) \cup {<<w, f>>}
      /\ Kinds(r) = Kinds(q) \cup {f}
      /\ \A x \in EntriesOf(r) : DayNumber(date) <= DayNumber(x[1])
  <2>1. \A x \in EntriesOf(q) : /\ DayNumber(date) <= DayNumber(x[1])
                                /\ x[2] = "HYPERSPACE_ENCOUNTER" =>
                                     DayNumber(x[1]) <= DayNumber(date) + 1
    BY <1>1, <1>2, <1>3
  <2>2. ~Waits(q, f)
    BY <1>1, KindsAre
  <2> QED
    BY <1>1, <2>1, <2>2, AddedIs
<1> HIDE DEF r
<1>5. ~Due(r, date)
  <2>1. \A x \in EntriesOf(q) : DayNumber(x[1]) # DayNumber(date)
    BY <1>1, DueThen
  <2>2. <<w, f>>[1] = w /\ DayNumber(w) # DayNumber(date)
    <3>1. DayNumber(w) \in Nat /\ DayNumber(w) >= DayNumber(date) + 1
      BY <1>3, DateParts DEF AskedIn
    <3> QED
      BY <1>3, <3>1
  <2>3. \A x \in EntriesOf(r) : DayNumber(x[1]) # DayNumber(date)
    BY <1>4, <2>1, <2>2
  <2> QED
    BY <1>4, <2>3, DueThen
<1>6. ListOK(r, date, FALSE)
  BY <1>2, <1>4, <1>5 DEF ListOK
<1>7. /\ \A x : x \in EntriesOf(r) <=> x \in EntriesOf(q) \/ x = <<w, f>>
      /\ \A e : e \in Kinds(r) <=> e \in Kinds(q) \/ e = f
  BY <1>4
<1> QED
  BY <1>6, <1>7 DEF r

LEMMA ListNextDay ==
  ASSUME NEW d \in Dates, NEW q, ListOK(q, d, FALSE)
  PROVE  ListOK(q, NextDay(d), Due(q, NextDay(d)))
<1>1. /\ Listed(q) /\ DailyLast(q) /\ ~Due(q, d)
      /\ \A x \in EntriesOf(q) : DayNumber(d) <= DayNumber(x[1])
  BY DEF ListOK
<1>2. PICK h \in EntriesOf(q) : /\ h[2] = "HYPERSPACE_ENCOUNTER"
                                /\ DayNumber(h[1]) = DayNumber(d) + 1
  BY DEF ListOK
<1>3. /\ \A x \in EntriesOf(q) : DayNumber(x[1]) \in Nat
      /\ DayNumber(d) \in Nat
      /\ NextDay(d) \in Dates /\ DayNumber(NextDay(d)) = DayNumber(d) + 1
  BY <1>1, ListParts, EntryParts, DateParts, NextDayIs
<1>4. \A x \in EntriesOf(q) : DayNumber(x[1]) # DayNumber(d)
  BY <1>1, DueThen
<1>5. \A x \in EntriesOf(q) : DayNumber(NextDay(d)) <= DayNumber(x[1])
  BY <1>1, <1>3, <1>4
<1>6. Due(q, NextDay(d))
  BY <1>1, <1>2, <1>3, <1>5, DueThen
<1>7. DayNumber(h[1]) = DayNumber(NextDay(d)) + 0
  BY <1>2, <1>3
<1> QED
  BY <1>1, <1>2, <1>5, <1>6, <1>7 DEF ListOK

(* The daily event is the last of its day: the list is done with the day   *)
(* when it is handled, and not before.                                     *)
LEMMA ListHandled ==
  ASSUME date \in Dates, ListOK(queue, date, TRUE), StoryOK(Kinds(queue), story),
         Head(queue)[2] = "ARILOU_EXIT" => date[3] = 20
  PROVE  LET h == Head(queue)
             e == h[2]
             t == Tail(queue)
             next == FollowUp(e)
             r == IF next = Nothing THEN t ELSE Added(t, next[1], next[2], 1)
         IN  /\ h \in EntriesOf(queue) /\ h \in Entries /\ h[1] = date
             /\ e \in Kinds(queue) /\ Listed(t) /\ EntriesOf(t) = EntriesOf(queue) \ {h}
             /\ ~Waits(t, e)
             /\ next # Nothing => /\ next = <<next[1], next[2]>>
                                  /\ AskedIn(next[1], next[2])
                                  /\ ~Waits(t, next[2])
             /\ ListOK(r, date, Due(r, date))
             /\ EntriesOf(r) = EntriesOf(t) \cup (IF next = Nothing THEN {} ELSE {next})
             /\ Kinds(r) = (Kinds(queue) \ {e}) \cup KindOf(next)
<1> DEFINE h == Head(queue)
           e == h[2]
           t == Tail(queue)
           next == FollowUp(e)
           r == IF next = Nothing THEN t ELSE Added(t, next[1], next[2], 1)
<1>1. /\ Listed(queue) /\ DailyLast(queue) /\ queue # <<>> /\ h[1] = date
      /\ \A x \in EntriesOf(queue) : DayNumber(date) <= DayNumber(x[1])
  BY DEF ListOK, Due
<1>2. /\ h \in EntriesOf(queue) /\ Listed(t) /\ EntriesOf(t) = EntriesOf(queue) \ {h}
      /\ ~Waits(t, e) /\ DailyLast(t)
  BY <1>1, Shrinks, DailyShrinks
<1>3. /\ h \in Entries /\ e \in Events /\ e \in Kinds(queue)
      /\ \A x \in EntriesOf(queue) : DayNumber(x[1]) \in Nat
      /\ \A x, y \in EntriesOf(queue) : x[2] = y[2] => x = y
      /\ DayNumber(date) \in Nat
  BY <1>1, <1>2, ListParts, EntryParts, DateParts DEF Kinds
<1>4. PICK y \in EntriesOf(queue) : /\ y[2] = "HYPERSPACE_ENCOUNTER"
                                    /\ DayNumber(y[1]) = DayNumber(date)
  <2>1. PICK y \in EntriesOf(queue) : /\ y[2] = "HYPERSPACE_ENCOUNTER"
                                      /\ DayNumber(y[1]) = DayNumber(date) + IF TRUE THEN 0 ELSE 1
    BY DEF ListOK
  <2> QED
    BY <1>3, <2>1
<1>5. Kinds(t) = Kinds(queue) \ {e}
  <2>1. ASSUME NEW x \in EntriesOf(queue), x # h PROVE x[2] # e
    BY <1>2, <1>3, <2>1
  <2> HIDE DEF h, t
  <2> QED
    BY <1>2, <2>1 DEF Kinds
<1>6. next # Nothing => /\ next = <<next[1], next[2]>> /\ AskedIn(next[1], next[2])
                        /\ next[2] \notin Kinds(t)
  <2>1. ASSUME next # Nothing PROVE next = <<next[1], next[2]>> /\ AskedIn(next[1], next[2])
    <3> HIDE DEF e
    <3>1. PICK w, f : next = <<w, f>> /\ AskedIn(w, f)
      BY <1>3, <2>1, FollowUpIs DEF e
    <3> QED
      BY <3>1
  <2>2. next # Nothing => next[2] \notin Kinds(queue) \ {e}
    BY <1>1, <1>3, KindsAre, StoryKept
  <2> QED
    BY <1>5, <2>1, <2>2
<1> HIDE DEF e, t, next
<1>7. /\ Listed(r) /\ DailyLast(r)
      /\ EntriesOf(r) = EntriesOf(t) \cup (IF next = Nothing THEN {} ELSE {next})
      /\ Kinds(r) = (Kinds(queue) \ {e}) \cup KindOf(next)
      /\ \A x \in EntriesOf(r) : DayNumber(date) <= DayNumber(x[1])
  <2>1. CASE next = Nothing
    BY <1>1, <1>2, <1>5, <2>1 DEF KindOf
  <2>2. CASE next # Nothing
    <3>1. \A x \in EntriesOf(t) : /\ DayNumber(date) <= DayNumber(x[1])
                                  /\ x[2] = "HYPERSPACE_ENCOUNTER" =>
                                       DayNumber(x[1]) <= DayNumber(date) + 1
      BY <1>1, <1>2, <1>3, <1>4
    <3>2. ~Waits(t, next[2])
      BY <1>2, <1>6, <2>2, KindsAre
    <3> DEFINE a == Added(t, next[1], next[2], 1)
    <3>3. /\ Listed(a) /\ DailyLast(a) /\ EntriesOf(a) = EntriesOf(t) \cup {<<next[1], next[2]>>}
          /\ Kinds(a) = Kinds(t) \cup {next[2]}
          /\ \A x \in EntriesOf(a) : DayNumber(date) <= DayNumber(x[1])
      BY <1>2, <1>6, <2>2, <3>1, <3>2, AddedIs
    <3>4. r = a
      BY <2>2
    <3> HIDE DEF r, a
    <3> QED
      BY <1>5, <1>6, <2>2, <3>3, <3>4 DEF KindOf
  <2> QED
    BY <2>1, <2>2
<1> HIDE DEF r
<1>8. \A x \in EntriesOf(r) : DayNumber(x[1]) \in Nat
  BY <1>7, ListParts, EntryParts
<1>9. ASSUME e = "HYPERSPACE_ENCOUNTER" PROVE ListOK(r, date, Due(r, date))
  <2>1. next = <<Later(0, 1, 0), "HYPERSPACE_ENCOUNTER">> /\ next # Nothing
    BY <1>9, FollowUps, KindsOf DEF next
  <2>2. next \in EntriesOf(r) /\ next[2] = "HYPERSPACE_ENCOUNTER"
        /\ DayNumber(next[1]) = DayNumber(date) + 1
    BY <1>6, <1>7, <2>1 DEF AskedIn
  <2>3. \A x \in EntriesOf(t) : DayNumber(x[1]) # DayNumber(date)
    <3> SUFFICES ASSUME NEW i \in 1 .. Len(queue), queue[i] # h,
                        DayNumber(queue[i][1]) = DayNumber(date)
                 PROVE  FALSE
      BY <1>2 DEF EntriesOf
    <3>1. queue[i] \in EntriesOf(queue) /\ queue[i] \in Entries
      BY <1>1, ListParts DEF EntriesOf
    <3>2. queue[i][1] = date
      BY <3>1, EntryParts, DatesInOrder
    <3>3. queue \in Seq(Entries) /\ h = queue[1] /\ 1 \in 1 .. Len(queue)
      BY <1>1 DEF Listed
    <3>4. i <= 1
      BY <1>1, <1>9, <3>2, <3>3 DEF DailyLast, e
    <3> QED
      BY <3>3, <3>4
  <2>4. ~Due(r, date)
    <3>1. \A x \in EntriesOf(r) : DayNumber(x[1]) # DayNumber(date)
      BY <1>3, <1>7, <2>2, <2>3
    <3> QED
      BY <1>7, <3>1, DueThen
  <2> QED
    BY <1>7, <2>2, <2>4 DEF ListOK
<1>10. ASSUME e # "HYPERSPACE_ENCOUNTER" PROVE ListOK(r, date, Due(r, date))
  <2>1. y \in EntriesOf(r)
    BY <1>2, <1>4, <1>7, <1>10 DEF e
  <2>2. Due(r, date)
    BY <1>4, <1>7, <2>1, DueThen
  <2>3. DayNumber(y[1]) = DayNumber(date) + IF Due(r, date) THEN 0 ELSE 1
    BY <1>3, <1>4, <2>2
  <2> QED
    BY <1>4, <1>7, <2>1, <2>3 DEF ListOK
<1>11. ListOK(r, date, Due(r, date))
  BY <1>9, <1>10
<1>12. next # Nothing => ~Waits(t, next[2])
  BY <1>2, <1>6, KindsAre
<1> QED
  BY <1>1, <1>2, <1>3, <1>6, <1>7, <1>11, <1>12 DEF e, t, next, r

-----------------------------------------------------------------------------
(* What the steps do to the gate of the Arilou.                            *)

LEMMA GateNextDay ==
  ASSUME date \in Dates, ListOK(queue, date, FALSE), GateOK,
         date' = NextDay(date), UNCHANGED <<queue, story>>
  PROVE  GateOK'
<1> DEFINE y == date[1]  m == date[2]  n == date[3]  len == DaysInMonth(m, y)
<1>1. /\ date = <<y, m, n>> /\ y \in Nat /\ m \in 1 .. 12 /\ n \in 1 .. 31
      /\ n <= len /\ len \in 28 .. 31
  BY DateParts
<1>2. /\ n < len => date' = <<y, m, n + 1>>
      /\ ~(n < len) => date' = IF m < 12 THEN <<y, m + 1, 1>> ELSE <<y + 1, 1, 1>>
  BY DEF NextDay
<1>3. The17thOfNextMonth = IF m = 12 THEN <<y + 1, 1, 17>> ELSE <<y, m + 1, 17>>
  BY NextMonthIs
<1>4. ASSUME NEW x \in EntriesOf(queue) PROVE x[1] # date
  <2>1. /\ Listed(queue) /\ ~Due(queue, date)
        /\ \A z \in EntriesOf(queue) : DayNumber(date) <= DayNumber(z[1])
    BY DEF ListOK
  <2>2. DayNumber(x[1]) # DayNumber(date)
    BY <2>1, DueThen
  <2> QED
    BY <2>2
<1>5. EntriesOf(queue)' = EntriesOf(queue)
  BY DEF EntriesOf
<1> SUFFICES ASSUME NEW x \in EntriesOf(queue)
             PROVE  /\ x[2] = "ARILOU_ENTRANCE" =>
                         /\ story.gate = "closing"
                         /\ \/ x[1] = <<date'[1], date'[2], 17>> /\ date'[3] <= 17
                            \/ /\ x[1] = The17thOfNextMonth'
                               /\ date'[3] >= 20 \/ (date'[1] = StartYear /\ date'[2] = 2)
                    /\ x[2] = "ARILOU_EXIT" =>
                         /\ story.gate = "opening"
                         /\ x[1] = <<date'[1], date'[2], 20>> /\ date'[3] \in 17 .. 20
  BY <1>5 DEF GateOK
<1>6. ASSUME x[2] = "ARILOU_ENTRANCE"
      PROVE  \/ x[1] = <<date'[1], date'[2], 17>> /\ date'[3] <= 17
             \/ /\ x[1] = The17thOfNextMonth'
                /\ date'[3] >= 20 \/ (date'[1] = StartYear /\ date'[2] = 2)
  <2>1. \/ x[1] = <<y, m, 17>> /\ n <= 17
        \/ x[1] = The17thOfNextMonth /\ (n >= 20 \/ (y = StartYear /\ m = 2))
    BY <1>6 DEF GateOK
  <2> HIDE DEF len
  <2>2. CASE x[1] = <<y, m, 17>> /\ n <= 17
    <3>1. n # 17
      BY <1>1, <1>4, <2>2
    <3>2. date' = <<y, m, n + 1>> /\ n + 1 <= 17
      BY <1>1, <1>2, <2>2, <3>1
    <3> QED
      BY <2>2, <3>2
  <2>3. CASE /\ x[1] = The17thOfNextMonth
             /\ n >= 20 \/ (y = StartYear /\ m = 2)
             /\ n < len
    <3>1. date' = <<y, m, n + 1>>
      BY <1>2, <2>3
    <3>2. The17thOfNextMonth' = The17thOfNextMonth
      BY <3>1 DEF The17thOfNextMonth
    <3> QED
      BY <1>1, <2>3, <3>1, <3>2
  <2>4. CASE x[1] = The17thOfNextMonth /\ ~(n < len)
    <3>1. x[1] = <<date'[1], date'[2], 17>> /\ date'[3] = 1
      BY <1>1, <1>2, <1>3, <2>4
    <3> QED
      BY <3>1
  <2> QED
    BY <2>1, <2>2, <2>3, <2>4
<1>7. ASSUME x[2] = "ARILOU_EXIT"
      PROVE  x[1] = <<date'[1], date'[2], 20>> /\ date'[3] \in 17 .. 20
  <2>1. x[1] = <<y, m, 20>> /\ n \in 17 .. 20
    BY <1>7 DEF GateOK
  <2>2. n # 20
    BY <1>1, <1>4, <2>1
  <2> HIDE DEF len
  <2>3. date' = <<y, m, n + 1>> /\ n + 1 \in 17 .. 20
    BY <1>1, <1>2, <2>1, <2>2
  <2> QED
    BY <2>1, <2>3
<1>8. /\ x[2] = "ARILOU_ENTRANCE" => story.gate = "closing"
      /\ x[2] = "ARILOU_EXIT" => story.gate = "opening"
  BY DEF GateOK
<1> QED
  BY <1>6, <1>7, <1>8

(* The gate opens on the 17th and closes on the 20th.                      *)
LEMMA GateDays ==
  ASSUME date \in Dates, GateOK, NEW h \in EntriesOf(queue), h[1] = date
  PROVE  /\ h[2] = "ARILOU_ENTRANCE" => date[3] = 17
         /\ h[2] = "ARILOU_EXIT" => date[3] = 20
BY NextMonthIs DEF GateOK

LEMMA GateHandled ==
  ASSUME date \in Dates, ListOK(queue, date, TRUE), StoryOK(Kinds(queue), story),
         GateOK, date' = date, story' = Changed(Head(queue)[2]),
         queue' = IF FollowUp(Head(queue)[2]) = Nothing THEN Tail(queue)
                  ELSE Added(Tail(queue), FollowUp(Head(queue)[2])[1],
                             FollowUp(Head(queue)[2])[2], 1)
  PROVE  GateOK'
<1> DEFINE h == Head(queue)  e == h[2]  t == Tail(queue)  next == FollowUp(e)
<1>1. h \in EntriesOf(queue) /\ h[1] = date
  <2>1. Listed(queue) /\ queue # <<>> /\ h[1] = date
    BY DEF ListOK, Due
  <2> QED
    BY <2>1, Shrinks
<1>2. /\ e = "ARILOU_ENTRANCE" => date[3] = 17
      /\ e = "ARILOU_EXIT" => date[3] = 20
  BY <1>1, GateDays
<1>3. /\ e \in Kinds(queue) /\ EntriesOf(t) = EntriesOf(queue) \ {h} /\ ~Waits(t, e)
      /\ EntriesOf(queue)' = EntriesOf(t) \cup (IF next = Nothing THEN {} ELSE {next})
      /\ h \in Entries
  <2> HIDE DEF h
  <2>1. EntriesOf(queue)' = EntriesOf(queue')
    BY DEF EntriesOf
  <2> QED
    BY <1>2, <2>1, ListHandled DEF h
<1>4. e \in Events /\ story \in Stories
  BY <1>3, EntryParts DEF StoryOK
<1> HIDE DEF h, t
<1>5. /\ The17thOfNextMonth' = The17thOfNextMonth
      /\ \A x \in EntriesOf(t) : x \in EntriesOf(queue) /\ x[2] # e /\ x[2] \in Kinds(queue)
  BY <1>3 DEF The17thOfNextMonth, Waits, Kinds
<1>6. CASE e \notin {"ARILOU_ENTRANCE", "ARILOU_EXIT"}
  <2>1. next # Nothing => next[2] \notin {"ARILOU_ENTRANCE", "ARILOU_EXIT"}
    <3> HIDE DEF e
    <3>1. KindOf(next) \cap {"ARILOU_ENTRANCE", "ARILOU_EXIT"} = {}
      <4> USE FollowUps, KindsOf
      <4>1. CASE e \in {"HYPERSPACE_ENCOUNTER", "SLYLANDRO_RAMP_UP", "SLYLANDRO_RAMP_DOWN",
                        "SHOFIXTI_RETURN", "ARILOU_UMGAH_CHECK"}
        BY <4>1
      <4>2. CASE e \in {"KOHR_AH_VICTORIOUS", "KOHR_AH_GENOCIDE"}
        BY <4>2
      <4>3. CASE e \in {"ZOQFOT_DISTRESS", "ZOQFOT_DEATH", "SPATHI_SHIELD"}
        BY <4>3
      <4> QED
        BY <1>4, <1>6, <4>1, <4>2, <4>3 DEF Events
    <3> QED
      BY <3>1 DEF KindOf
  <2>2. Changed(e).gate = story.gate
    <3> HIDE DEF e, next
    <3> QED
      BY <1>4, <1>6 DEF Changed, Stories
  <2>3. ASSUME NEW x \in EntriesOf(queue)', x[2] \in {"ARILOU_ENTRANCE", "ARILOU_EXIT"}
        PROVE  x \in EntriesOf(queue)
    BY <1>3, <1>5, <2>1, <2>3
  <2>4. story'.gate = story.gate
    BY <2>2 DEF h
  <2> HIDE DEF e, next
  <2> QED
    BY <1>5, <2>3, <2>4 DEF GateOK
<1>7. CASE e = "ARILOU_ENTRANCE"
  <2>1. next = <<Later(0, 3, 0), "ARILOU_EXIT">> /\ next # Nothing
    BY <1>7, FollowUps, KindsOf
  <2>2. next[1] = <<date[1], date[2], 20>> /\ next[2] = "ARILOU_EXIT"
    <3>1. Later(0, 3, 0) = <<date[1], date[2], 20>>
      BY <1>2, <1>7, StayIs
    <3> QED
      BY <2>1, <3>1
  <2>3. story'.gate = "opening"
    <3>1. Changed(e).gate = "opening"
      BY <1>4, <1>7 DEF Changed, Stories
    <3> QED
      BY <3>1 DEF h
  <2>4. "ARILOU_EXIT" \notin Kinds(queue)
    BY <1>3, <1>7 DEF StoryOK
  <2>5. ASSUME NEW x \in EntriesOf(queue)'
        PROVE  /\ x[2] # "ARILOU_ENTRANCE"
               /\ x[2] = "ARILOU_EXIT" => x = next
    BY <1>3, <1>5, <1>7, <2>2, <2>4
  <2>6. date'[3] = 17 /\ date' = date
    BY <1>2, <1>7
  <2> HIDE DEF e, next
  <2> QED
    BY <2>2, <2>3, <2>5, <2>6 DEF GateOK
<1>8. CASE e = "ARILOU_EXIT"
  <2>1. next = <<The17thOfNextMonth, "ARILOU_ENTRANCE">> /\ next # Nothing
    BY <1>8, FollowUps, KindsOf
  <2>2. next[1] = The17thOfNextMonth /\ next[2] = "ARILOU_ENTRANCE"
    BY <2>1
  <2>3. story'.gate = "closing"
    <3>1. Changed(e).gate = "closing"
      BY <1>4, <1>8 DEF Changed, Stories
    <3> QED
      BY <3>1 DEF h
  <2>4. "ARILOU_ENTRANCE" \notin Kinds(queue)
    BY <1>3, <1>8 DEF StoryOK
  <2>5. ASSUME NEW x \in EntriesOf(queue)'
        PROVE  /\ x[2] # "ARILOU_EXIT"
               /\ x[2] = "ARILOU_ENTRANCE" => x = next
    BY <1>3, <1>5, <1>8, <2>2, <2>4
  <2>6. date'[3] = 20 /\ date' = date
    BY <1>2, <1>8
  <2> HIDE DEF e, next
  <2> QED
    BY <1>5, <2>2, <2>3, <2>5, <2>6 DEF GateOK
<1> QED
  BY <1>6, <1>7, <1>8

-----------------------------------------------------------------------------
(* The invariant is kept.                                                  *)

(* What is left of a day when the frames get longer or shorter             *)
LEMMA RescaledIs ==
  ASSUME ClockOK, NEW frame \in Nat \ {0},
         frame \in {FramesInHyperspace, FramesInSystem}
  PROVE  /\ Rescaled(frame) \in [left : Nat, inDay : {0, FramesInHyperspace, FramesInSystem}]
         /\ Rescaled(frame).left \in 1 .. Rescaled(frame).inDay
<1> DEFINE l == frames.left  k == frames.inDay
<1>1. l \in Nat /\ k \in Nat /\ (k # 0 => l \in 1 .. k)
  BY ClockAssumption DEF ClockOK
<1>2. Rescaled(frame) =
        [inDay |-> frame,
         left |-> IF k = 0 THEN frame ELSE IF l <= 0 THEN 0
                  ELSE LET n == (l * frame) \div k IN IF n = 0 THEN 1 ELSE n]
  BY DEF Rescaled
<1> HIDE DEF l, k
<1>3. CASE k = 0
  BY <1>2, <1>3
<1>4. CASE k # 0
  <2> DEFINE n == (l * frame) \div k
  <2>1. l \in 1 .. k /\ k \in Nat \ {0}
    BY <1>1, <1>4
  <2>2. l * frame \in Nat /\ l * frame <= k * frame
    <3>1. k - l \in Nat /\ (k - l) * frame \in Nat
      BY <2>1
    <3>2. l * frame \in Nat /\ k * frame \in Nat
      BY <2>1
    <3>3. (k - l) * frame = k * frame - l * frame
      BY <2>1
    <3> QED
      BY <3>1, <3>2, <3>3
  <2>3. n \in Nat /\ n <= frame
    <3>1. \A a \in Nat, b \in Nat \ {0} : a \div b \in Nat /\ b * (a \div b) <= a
      OBVIOUS
    <3>2. n \in Nat /\ k * n <= l * frame
      BY <2>1, <2>2, <3>1
    <3> HIDE DEF n
    <3>3. ASSUME n > frame PROVE FALSE
      <4>1. n - frame \in Nat \ {0} /\ k * (n - frame) >= 1
        BY <2>1, <3>2, <3>3
      <4>2. k * (n - frame) = k * n - k * frame
        BY <2>1, <3>2
      <4>3. k * n \in Nat /\ k * frame \in Nat
        BY <2>1, <3>2
      <4> QED
        BY <2>2, <3>2, <4>1, <4>2, <4>3
    <3> QED
      BY <3>2, <3>3
  <2>4. Rescaled(frame) = [inDay |-> frame, left |-> IF n = 0 THEN 1 ELSE n]
    BY <1>2, <1>4, <2>1
  <2> HIDE DEF n
  <2> QED
    BY <2>3, <2>4
<1> QED
  BY <1>3, <1>4

LEMMA TalkDelays ==
  ASSUME date \in Dates
  PROVE  /\ AskedIn(Later(2, 0, 0), "SHOFIXTI_RETURN")
         /\ AskedIn(Later(3, 0, 0), "ZOQFOT_DISTRESS")
         /\ AskedIn(Later(6, 0, 0), "SPATHI_SHIELD")
         /\ AskedIn(Later(0, 10, 0), "ARILOU_UMGAH_CHECK")
         /\ AskedIn(Later(0, 23, 0), "SLYLANDRO_RAMP_DOWN")
<1>1. DayNumber(date) \in Nat /\ \A w \in Dates : DayNumber(w) \in Nat
  BY DateParts
<1>2. /\ AskedIn(Later(2, 0, 0), "SHOFIXTI_RETURN")
      /\ AskedIn(Later(3, 0, 0), "ZOQFOT_DISTRESS")
      /\ AskedIn(Later(6, 0, 0), "SPATHI_SHIELD")
  <2>1. AskedIn(Later(2, 0, 0), "SHOFIXTI_RETURN")
    BY <1>1, MonthsLater, DelayIs DEF Events, AskedIn
  <2>2. AskedIn(Later(3, 0, 0), "ZOQFOT_DISTRESS")
    BY <1>1, MonthsLater, DelayIs DEF Events, AskedIn
  <2>3. AskedIn(Later(6, 0, 0), "SPATHI_SHIELD")
    BY <1>1, MonthsLater, DelayIs DEF Events, AskedIn
  <2> QED
    BY <2>1, <2>2, <2>3
<1>3. AskedIn(Later(0, 10, 0), "ARILOU_UMGAH_CHECK")
  BY AskedDays, DelayIs DEF Events
<1>4. AskedIn(Later(0, 23, 0), "SLYLANDRO_RAMP_DOWN")
  BY AskedDays, DelayIs DEF Events
<1> QED
  BY <1>2, <1>3, <1>4

(* The conversations ask for an event once, and not while it is waiting.   *)
TalkEvents == {"SHOFIXTI_RETURN", "ZOQFOT_DISTRESS", "SPATHI_SHIELD", "ARILOU_UMGAH_CHECK"}

LEMMA TalkIs ==
  ASSUME ClockInvariant, Talk
  PROVE  \E f \in TalkEvents :
           /\ \E w : AskedIn(w, f) /\ queue' = Added(queue, w, f, 0)
           /\ f \notin story.asked /\ story' = Asked(f) /\ f \notin Kinds(queue)
<1>1. date \in Dates /\ StoryOK(Kinds(queue), story)
  BY DEF ClockInvariant, ClockOK
<1>2. ASSUME NEW f \in TalkEvents, NEW months, NEW days, Delayed(f, months, days)
      PROVE  /\ queue' = Added(queue, Later(months, days, 0), f, 0)
             /\ f \notin story.asked /\ story' = Asked(f) /\ f \notin Kinds(queue)
  BY <1>1, <1>2 DEF Delayed, MayAsk, StoryOK, TalkEvents
<1>3. CASE Delayed("SHOFIXTI_RETURN", 2, 0)
  BY <1>1, <1>2, <1>3, TalkDelays DEF TalkEvents
<1>4. CASE Delayed("ZOQFOT_DISTRESS", 3, 0)
  BY <1>1, <1>2, <1>4, TalkDelays DEF TalkEvents
<1>5. CASE Delayed("SPATHI_SHIELD", 6, 0)
  BY <1>1, <1>2, <1>5, TalkDelays DEF TalkEvents
<1>6. CASE Delayed("ARILOU_UMGAH_CHECK", 0, 10)
  BY <1>1, <1>2, <1>6, TalkDelays DEF TalkEvents
<1> QED
  BY <1>3, <1>4, <1>5, <1>6 DEF Talk

LEMMA StoryAsked ==
  ASSUME NEW k \in SUBSET Events, StoryOK(k, story)
  PROVE  /\ \A f \in TalkEvents : f \notin story.asked => StoryOK(k \cup {f}, Asked(f))
         /\ "SLYLANDRO_RAMP_DOWN" \notin story.asked =>
              StoryOK(IF story.ramp = 0 THEN k ELSE k \cup {"SLYLANDRO_RAMP_DOWN"},
                      [Asked("SLYLANDRO_RAMP_DOWN") EXCEPT !.destruct = TRUE])
<1>1. \A f \in Events \cup {"days", "utwig"} :
        /\ Asked(f) = [story EXCEPT !.asked = @ \cup {f}] /\ Asked(f) \in Stories
        /\ Asked(f).asked = story.asked \cup {f}
        /\ \A l \in DOMAIN story \ {"asked"} : Asked(f)[l] = story[l]
  BY DEF StoryOK, Stories, Asked
<1>2. TalkEvents \cup {"SLYLANDRO_RAMP_DOWN"} \subseteq Events
  BY DEF TalkEvents, Events
<1>3. DOMAIN story = {"gate", "ramp", "destruct", "utwig", "frenzy", "shielded", "zoqfot", "asked"}
  BY DEF StoryOK, Stories
<1>4. ASSUME NEW f \in TalkEvents, f \notin story.asked
      PROVE  StoryOK(k \cup {f}, Asked(f))
  <2> DEFINE s == Asked(f)
  <2>1. /\ s \in Stories /\ s.asked = story.asked \cup {f}
        /\ s.frenzy = story.frenzy /\ s.zoqfot = story.zoqfot
        /\ s.destruct = story.destruct /\ s.ramp = story.ramp
    BY <1>1, <1>2, <1>3
  <2> HIDE DEF s
  <2>2. StoryOK(k \cup {f}, s)
    BY <1>4, <2>1 DEF StoryOK, TalkEvents
  <2> QED
    BY <2>2 DEF s
<1>5. ASSUME "SLYLANDRO_RAMP_DOWN" \notin story.asked
      PROVE  StoryOK(IF story.ramp = 0 THEN k ELSE k \cup {"SLYLANDRO_RAMP_DOWN"},
                     [Asked("SLYLANDRO_RAMP_DOWN") EXCEPT !.destruct = TRUE])
  <2> DEFINE s == [Asked("SLYLANDRO_RAMP_DOWN") EXCEPT !.destruct = TRUE]
  <2>1. /\ s \in Stories /\ s.asked = story.asked \cup {"SLYLANDRO_RAMP_DOWN"}
        /\ s.frenzy = story.frenzy /\ s.zoqfot = story.zoqfot
        /\ s.destruct /\ s.ramp = story.ramp
    <3> DEFINE a == Asked("SLYLANDRO_RAMP_DOWN")
    <3>1. /\ a \in Stories /\ a.asked = story.asked \cup {"SLYLANDRO_RAMP_DOWN"}
          /\ a.frenzy = story.frenzy /\ a.zoqfot = story.zoqfot /\ a.ramp = story.ramp
      BY <1>1, <1>2, <1>3
    <3> HIDE DEF a
    <3>2. s = [a EXCEPT !.destruct = TRUE]
      BY DEF a
    <3> HIDE DEF s
    <3> QED
      BY <3>1, <3>2 DEF Stories
  <2> HIDE DEF s
  <2>2. StoryOK(IF story.ramp = 0 THEN k ELSE k \cup {"SLYLANDRO_RAMP_DOWN"}, s)
    BY <1>5, <2>1 DEF StoryOK
  <2> QED
    BY <2>2 DEF s
<1> QED
  BY <1>4, <1>5

LEMMA AskingKeeps ==
  ASSUME ClockInvariant, Talk \/ LearnDestructCode
  PROVE  ClockInvariant'
<1>1. /\ ClockOK /\ date \in Dates /\ ~todo.events
      /\ UNCHANGED <<date, frames, todo, place>>
      /\ ListOK(queue, date, FALSE) /\ StoryOK(Kinds(queue), story) /\ GateOK
      /\ Kinds(queue) \in SUBSET Events
  <2>1. ~todo.events /\ UNCHANGED <<date, frames, todo, place>>
    BY DEF Talk, LearnDestructCode, Delayed, MayAsk, Playing, Busy
  <2>2. ListOK(queue, date, FALSE)
    BY <2>1 DEF ClockInvariant, ListOK
  <2>3. Kinds(queue) \in SUBSET Events
    BY <2>2, KindsAre DEF ListOK
  <2> QED
    BY <2>1, <2>2, <2>3 DEF ClockInvariant, ClockOK
<1>2. /\ ListOK(queue', date, FALSE)
      /\ StoryOK(Kinds(queue'), story')
      /\ \A x \in EntriesOf(queue') :
           x \in EntriesOf(queue) \/ x[2] \notin {"ARILOU_ENTRANCE", "ARILOU_EXIT"}
      /\ story'.gate = story.gate
  <2>1. CASE Talk
    <3>1. PICK f \in TalkEvents :
            /\ \E w : AskedIn(w, f) /\ queue' = Added(queue, w, f, 0)
            /\ f \notin story.asked /\ story' = Asked(f) /\ f \notin Kinds(queue)
      BY <2>1, TalkIs
    <3>2. PICK w : AskedIn(w, f) /\ queue' = Added(queue, w, f, 0)
      BY <3>1
    <3>3. /\ ListOK(queue', date, FALSE) /\ EntriesOf(queue') = EntriesOf(queue) \cup {<<w, f>>}
          /\ Kinds(queue') = Kinds(queue) \cup {f}
      <4> DEFINE r == Added(queue, w, f, 0)
      <4>1. /\ ListOK(r, date, FALSE) /\ EntriesOf(r) = EntriesOf(queue) \cup {<<w, f>>}
            /\ Kinds(r) = Kinds(queue) \cup {f}
        BY <1>1, <3>1, <3>2, ListAsked
      <4> HIDE DEF r
      <4>2. queue' = r
        BY <3>2 DEF r
      <4> QED
        BY <4>1, <4>2
    <3>4. StoryOK(Kinds(queue'), story')
      BY <1>1, <3>1, <3>3, StoryAsked
    <3>5. f \notin {"ARILOU_ENTRANCE", "ARILOU_EXIT"} /\ <<w, f>>[2] = f
      BY DEF TalkEvents
    <3>6. story'.gate = story.gate
      BY <1>1, <3>1 DEF StoryOK, Stories, Asked
    <3> QED
      BY <3>3, <3>4, <3>5, <3>6
  <2>2. CASE LearnDestructCode
    <3> DEFINE f == "SLYLANDRO_RAMP_DOWN"  w == Later(0, 23, 0)
    <3>1. /\ f \notin story.asked
          /\ story' = [Asked(f) EXCEPT !.destruct = TRUE]
          /\ queue' = IF story.ramp = 0 THEN queue ELSE Added(queue, w, f, 0)
      BY <2>2 DEF LearnDestructCode, MayAsk
    <3>2. f \notin Kinds(queue) /\ AskedIn(w, f)
      BY <1>1, <3>1, TalkDelays DEF StoryOK
    <3>3. /\ ListOK(queue', date, FALSE)
          /\ EntriesOf(queue') \subseteq EntriesOf(queue) \cup {<<w, f>>}
          /\ Kinds(queue') = IF story.ramp = 0 THEN Kinds(queue) ELSE Kinds(queue) \cup {f}
      <4>1. CASE story.ramp = 0
        BY <1>1, <3>1, <4>1
      <4>2. CASE story.ramp # 0
        <5> DEFINE r == Added(queue, w, f, 0)
        <5>1. queue' = r
          BY <3>1, <4>2
        <5> HIDE DEF f, w
        <5>2. /\ ListOK(r, date, FALSE) /\ EntriesOf(r) = EntriesOf(queue) \cup {<<w, f>>}
              /\ Kinds(r) = Kinds(queue) \cup {f}
          BY <1>1, <3>2, ListAsked
        <5> HIDE DEF r
        <5> QED
          BY <4>2, <5>1, <5>2
      <4> QED
        BY <4>1, <4>2
    <3>4. StoryOK(Kinds(queue'), story')
      BY <1>1, <3>1, <3>3, StoryAsked
    <3>5. f \notin {"ARILOU_ENTRANCE", "ARILOU_EXIT"} /\ <<w, f>>[2] = f
      OBVIOUS
    <3>6. story'.gate = story.gate
      BY <1>1, <3>1 DEF StoryOK, Stories, Asked
    <3> HIDE DEF f, w
    <3> QED
      BY <3>3, <3>4, <3>5, <3>6
  <2> QED
    BY <2>1, <2>2
<1>3. ClockOK'
  BY <1>1 DEF ClockOK
<1>4. EntriesOf(queue)' = EntriesOf(queue') /\ Kinds(queue)' = Kinds(queue')
  BY DEF EntriesOf, Kinds
<1>5. GateOK'
  <2>1. The17thOfNextMonth' = The17thOfNextMonth
    BY <1>1 DEF The17thOfNextMonth
  <2> QED
    BY <1>1, <1>2, <1>4, <2>1 DEF GateOK
<1>6. ListOK(queue, date, todo.events)'
  <2>1. ListOK(queue', date', todo.events')
    BY <1>1, <1>2 DEF ListOK
  <2> QED
    BY <2>1 DEF ListOK, Listed, Sorted, OneEach, DailyLast, EntriesOf, Due
<1> QED
  BY <1>2, <1>3, <1>4, <1>5, <1>6 DEF ClockInvariant

LEMMA HandlingKeeps ==
  ASSUME ClockInvariant, HandleEvent
  PROVE  ClockInvariant'
<1> DEFINE h == Head(queue)  e == h[2]  next == FollowUp(e)
           r == IF next = Nothing THEN Tail(queue)
                ELSE Added(Tail(queue), next[1], next[2], 1)
<1>1. /\ ClockOK /\ date \in Dates /\ UNCHANGED <<date, frames, place>>
      /\ todo.events /\ todo' = [todo EXCEPT !.events = Due(queue', date)]
      /\ story' = Changed(e) /\ queue' = r
      /\ StoryOK(Kinds(queue), story) /\ GateOK
      /\ todo \in [days : 0 .. LostDays, events : BOOLEAN]
  BY DEF HandleEvent, ClockInvariant, ClockOK
<1>2. ListOK(queue, date, TRUE)
  BY <1>1 DEF ClockInvariant, ListOK
<1>3. h[1] = date /\ h \in EntriesOf(queue) /\ Listed(queue)
  <2>1. Listed(queue) /\ queue # <<>> /\ h[1] = date
    BY <1>2 DEF ListOK, Due
  <2> QED
    BY <2>1, Shrinks
<1>4. e = "ARILOU_EXIT" => date[3] = 20
  BY <1>1, <1>3, GateDays
<1>5. /\ ListOK(r, date, Due(r, date)) /\ e \in Kinds(queue)
      /\ Kinds(r) = (Kinds(queue) \ {e}) \cup KindOf(next)
  BY <1>1, <1>2, <1>4, ListHandled
<1>6. StoryOK(Kinds(r), story')
  <2>1. Kinds(queue) \in SUBSET Events
    BY <1>3, KindsAre
  <2>2. StoryOK((Kinds(queue) \ {e}) \cup KindOf(next), Changed(e))
    BY <1>1, <1>5, <2>1, StoryKept
  <2> HIDE DEF r, e, next
  <2> QED
    BY <1>1, <1>5, <2>2
<1>7. GateOK'
  BY <1>1, <1>2, GateHandled
<1> HIDE DEF r
<1>8. ListOK(queue, date, todo.events)'
  <2>1. todo'.events = Due(r, date)
    BY <1>1
  <2>2. ListOK(queue', date', todo'.events)
    BY <1>1, <1>5, <2>1
  <2> QED
    BY <2>2 DEF ListOK, Listed, Sorted, OneEach, DailyLast, EntriesOf, Due
<1>9. ClockOK'
  <2>1. todo' \in [days : 0 .. LostDays, events : BOOLEAN] /\ todo'.days = todo.days
    <3>1. Due(queue', date) \in BOOLEAN
      BY DEF Due
    <3> QED
      BY <1>1, <3>1
  <2> QED
    BY <1>1, <2>1 DEF ClockOK
<1>10. StoryOK(Kinds(queue), story)'
  <2>1. Kinds(queue)' = Kinds(r)
    BY <1>1 DEF Kinds, EntriesOf
  <2> QED
    BY <1>6, <2>1 DEF StoryOK
<1> QED
  BY <1>7, <1>8, <1>9, <1>10 DEF ClockInvariant

(* A new day                                                               *)
LEMMA DayKeeps ==
  ASSUME ClockInvariant, ~todo.events, date' = NextDay(date),
         todo'.events = Due(queue, NextDay(date)), UNCHANGED <<queue, story>>, ClockOK'
  PROVE  ClockInvariant'
<1>1. /\ date \in Dates /\ ListOK(queue, date, FALSE)
      /\ StoryOK(Kinds(queue), story) /\ GateOK
  BY DEF ClockInvariant, ClockOK, ListOK
<1>2. ListOK(queue, NextDay(date), Due(queue, NextDay(date)))
  BY <1>1, ListNextDay
<1>3. GateOK'
  BY <1>1, GateNextDay
<1>4. ListOK(queue, date, todo.events)'
  <2>1. ListOK(queue', date', todo'.events)
    BY <1>2
  <2> QED
    BY <2>1 DEF ListOK, Listed, Sorted, OneEach, DailyLast, EntriesOf, Due
<1>5. StoryOK(Kinds(queue), story)'
  <2>1. Kinds(queue)' = Kinds(queue)
    BY DEF Kinds, EntriesOf
  <2> QED
    BY <1>1, <2>1 DEF StoryOK
<1> QED
  BY <1>3, <1>4, <1>5 DEF ClockInvariant

(* Steps that leave the date and the list, and of the story what the list  *)
(* depends on                                                              *)
LEMMA RestKeeps ==
  ASSUME ClockInvariant, UNCHANGED <<date, queue>>, todo'.events = todo.events, ClockOK',
         StoryOK(Kinds(queue), story'), story'.gate = story.gate
  PROVE  ClockInvariant'
<1>1. ListOK(queue, date, todo.events) /\ GateOK
  BY DEF ClockInvariant
<1>2. ListOK(queue, date, todo.events)'
  <2>1. ListOK(queue', date', todo'.events)
    BY <1>1
  <2> QED
    BY <2>1 DEF ListOK, Listed, Sorted, OneEach, DailyLast, EntriesOf, Due
<1>3. EntriesOf(queue)' = EntriesOf(queue) /\ Kinds(queue)' = Kinds(queue)
  BY DEF EntriesOf, Kinds
<1>4. StoryOK(Kinds(queue), story)'
  BY <1>3 DEF StoryOK
<1>5. GateOK'
  <2>1. The17thOfNextMonth' = The17thOfNextMonth
    BY DEF The17thOfNextMonth
  <2> QED
    BY <1>1, <1>3, <2>1 DEF GateOK
<1> QED
  BY <1>2, <1>4, <1>5 DEF ClockInvariant

LEMMA InvariantStep == ClockInvariant /\ [Next]_vars => ClockInvariant'
<1> SUFFICES ASSUME ClockInvariant, [Next]_vars PROVE ClockInvariant'
  OBVIOUS
<1>1. /\ ClockOK /\ date \in Dates /\ StoryOK(Kinds(queue), story) /\ story \in Stories
      /\ frames \in [left : Nat, inDay : {0, FramesInHyperspace, FramesInSystem}]
      /\ todo \in [days : 0 .. LostDays, events : BOOLEAN]
      /\ NextDay(date) \in Dates
  BY NextDayIs DEF ClockInvariant, ClockOK, StoryOK
<1>2. ASSUME NEW p \in {"hyperspace"} \cup Systems, Enter(p) PROVE ClockInvariant'
  <2> DEFINE frame == IF p = "hyperspace" THEN FramesInHyperspace ELSE FramesInSystem
  <2>1. frame \in Nat \ {0} /\ frame \in {FramesInHyperspace, FramesInSystem}
    BY ClockAssumption
  <2>2. /\ place' = p /\ p # "start" /\ p \in {"start", "hyperspace"} \cup Systems
        /\ frames' = Rescaled(frame) /\ UNCHANGED <<date, queue, todo, story>>
    BY <1>2, ClockAssumption DEF Enter
  <2> HIDE DEF frame
  <2>3. /\ frames' \in [left : Nat, inDay : {0, FramesInHyperspace, FramesInSystem}]
        /\ frames'.left \in 1 .. frames'.inDay
    BY <1>1, <2>1, <2>2, RescaledIs
  <2>4. ClockOK'
    BY <1>1, <2>2, <2>3 DEF ClockOK
  <2> QED
    BY <1>1, <2>2, <2>4, RestKeeps
<1>3. CASE Tick
  <2>1. /\ place # "start" /\ ~todo.events /\ UNCHANGED <<queue, place, story>>
        /\ frames.left \in 1 .. frames.inDay /\ frames.inDay \in Nat
    BY <1>1, <1>3, ClockAssumption DEF Tick, Playing, Busy, ClockOK
  <2>2. CASE frames.left > 1
    <3>1. frames' = [frames EXCEPT !.left = @ - 1] /\ UNCHANGED <<date, todo>>
      BY <1>3, <2>2 DEF Tick
    <3>2. ClockOK'
      <4>1. /\ frames' \in [left : Nat, inDay : {0, FramesInHyperspace, FramesInSystem}]
            /\ frames'.left \in 1 .. frames'.inDay
        BY <1>1, <2>1, <2>2, <3>1
      <4> QED
        BY <1>1, <2>1, <3>1, <4>1 DEF ClockOK
    <3> QED
      BY <1>1, <2>1, <3>1, <3>2, RestKeeps
  <2>3. CASE ~(frames.left > 1)
    <3>1. /\ frames' = [frames EXCEPT !.left = frames.inDay] /\ date' = NextDay(date)
          /\ todo' = [todo EXCEPT !.events = Due(queue, NextDay(date))]
      BY <1>3, <2>3 DEF Tick
    <3>2. Due(queue, NextDay(date)) \in BOOLEAN
      BY DEF Due
    <3>3. ClockOK'
      <4>1. /\ frames' \in [left : Nat, inDay : {0, FramesInHyperspace, FramesInSystem}]
            /\ frames'.left \in 1 .. frames'.inDay
        BY <1>1, <2>1, <3>1
      <4>2. todo' \in [days : 0 .. LostDays, events : BOOLEAN]
        BY <1>1, <3>1, <3>2
      <4> QED
        BY <1>1, <2>1, <3>1, <4>1, <4>2 DEF ClockOK
    <3>4. todo'.events = Due(queue, NextDay(date))
      BY <1>1, <3>1
    <3> QED
      BY <2>1, <3>1, <3>3, <3>4, DayKeeps
  <2> QED
    BY <2>2, <2>3
<1>4. CASE LoseDays
  <2>1. /\ place \in Systems /\ place # "start"
        /\ story' = Asked("days") /\ todo' = [todo EXCEPT !.days = LostDays]
        /\ UNCHANGED <<date, frames, queue, place>>
    BY <1>4, ClockAssumption DEF LoseDays
  <2>2. todo' \in [days : 0 .. LostDays, events : BOOLEAN] /\ todo'.events = todo.events
    BY <1>1, <2>1, ClockAssumption
  <2>3. ClockOK'
    BY <1>1, <2>1, <2>2 DEF ClockOK
  <2>4. StoryOK(Kinds(queue), story') /\ story'.gate = story.gate
    BY <1>1, <2>1 DEF StoryOK, Stories, Asked
  <2> QED
    BY <2>1, <2>2, <2>3, <2>4, RestKeeps
<1>5. CASE MoveDay
  <2>1. /\ todo.days > 0 /\ ~todo.events /\ date' = NextDay(date)
        /\ todo' = [days |-> todo.days - 1, events |-> Due(queue, NextDay(date))]
        /\ frames' = [frames EXCEPT !.left = frames.inDay]
        /\ UNCHANGED <<queue, place, story>>
    BY <1>5 DEF MoveDay
  <2>2. Due(queue, NextDay(date)) \in BOOLEAN
    BY DEF Due
  <2>3. place # "start" /\ frames.left \in 1 .. frames.inDay /\ frames.inDay \in Nat
    BY <1>1, <2>1, ClockAssumption DEF ClockOK
  <2>4. /\ frames' \in [left : Nat, inDay : {0, FramesInHyperspace, FramesInSystem}]
        /\ frames'.left \in 1 .. frames'.inDay
    BY <1>1, <2>1, <2>3
  <2>5. todo' \in [days : 0 .. LostDays, events : BOOLEAN]
        /\ todo'.events = Due(queue, NextDay(date))
    BY <1>1, <2>1, <2>2, ClockAssumption
  <2>6. ClockOK'
    BY <1>1, <2>1, <2>3, <2>4, <2>5 DEF ClockOK
  <2> QED
    BY <2>1, <2>5, <2>6, DayKeeps
<1>6. CASE HandleEvent
  BY <1>6, HandlingKeeps
<1>7. CASE Talk \/ LearnDestructCode
  BY <1>7, AskingKeeps
<1>8. CASE Help
  <2>1. /\ UNCHANGED <<date, frames, queue, todo, place>>
        /\ \/ story' = [Asked("utwig") EXCEPT !.utwig = TRUE]
           \/ story' = [story EXCEPT !.zoqfot = "peace"]
    BY <1>8 DEF Help
  <2>2. ClockOK'
    BY <1>1, <2>1 DEF ClockOK
  <2>3. StoryOK(Kinds(queue), story') /\ story'.gate = story.gate
    <3>1. CASE story' = [story EXCEPT !.zoqfot = "peace"]
      BY <1>1, <3>1 DEF StoryOK, Stories
    <3>2. CASE story' = [Asked("utwig") EXCEPT !.utwig = TRUE]
      BY <1>1, <3>2 DEF StoryOK, Stories, Asked
    <3> QED
      BY <2>1, <3>1, <3>2
  <2> QED
    BY <2>1, <2>2, <2>3, RestKeeps
<1>9. CASE UNCHANGED vars
  <2>1. ClockOK' /\ UNCHANGED <<date, queue, todo, story>>
    BY <1>1, <1>9 DEF vars, ClockOK
  <2> QED
    BY <1>1, <2>1, RestKeeps
<1> QED
  BY <1>2, <1>3, <1>4, <1>5, <1>6, <1>7, <1>8, <1>9 DEF Next

(* The first events of a game, in the order of their days                  *)
LEMMA FirstDays ==
  LET n(d) == DayNumber(d)
      today == <<StartYear, 2, 17>>
  IN  /\ {<<StartYear, 2, 17>>, <<StartYear, 2, 18>>, <<StartYear, 3, 17>>,
          <<StartYear, 8, 18>>, <<StartYear + YearsToVictory, 2, 17>>} \subseteq Dates
      /\ n(today) \in Nat
      /\ n(<<StartYear, 2, 18>>) = n(today) + 1
      /\ n(<<StartYear, 3, 17>>) = n(today) + 28
      /\ n(<<StartYear, 8, 18>>) = n(today) + 182
      /\ n(<<StartYear + YearsToVictory, 2, 17>>) - n(today)
           \in 365 * YearsToVictory .. 366 * YearsToVictory
<1> DEFINE Y == StartYear + YearsToVictory
<1>1. StartYear = 2155 /\ YearsToVictory \in Nat \ {0} /\ Y \in Nat
  BY ClockAssumption DEF StartYear
<1>3. /\ MonthDays(2) = 337 /\ MonthDays(3) = 0 /\ MonthDays(8) = 153
      /\ YearOf(2155, 2) = 6954 /\ YearOf(2155, 3) = 6955 /\ YearOf(2155, 8) = 6955
      /\ YearOf(Y, 2) = 6954 + YearsToVictory
  BY <1>1 DEF MonthDays, YearOf
<1>4. YearDays(6955) = YearDays(6954) + 365 /\ YearDays(6954) \in Nat
  <2>1. ~IsLeapYear(6955)
    BY DEF IsLeapYear
  <2>2. 6954 \in Nat /\ 6954 + 1 = 6955
    OBVIOUS
  <2> QED
    BY <2>1, <2>2, YearStep
<1>5. /\ YearDays(6954 + YearsToVictory) \in Nat
      /\ YearDays(6954 + YearsToVictory) - YearDays(6954)
           \in 365 * YearsToVictory .. 366 * YearsToVictory
  BY <1>1, YearsLater
<1> HIDE DEF Y
<1>6. {<<2155, 2, 17>>, <<2155, 2, 18>>, <<2155, 3, 17>>, <<2155, 8, 18>>, <<Y, 2, 17>>}
        \subseteq Dates
  <2>1. /\ DaysInMonth(2, 2155) \in 28 .. 29 /\ DaysInMonth(3, 2155) = 31
        /\ DaysInMonth(8, 2155) = 31 /\ DaysInMonth(2, Y) \in 28 .. 29
    BY DEF DaysInMonth
  <2>2. /\ <<2155, 2, 17>> \in Days /\ <<2155, 2, 18>> \in Days /\ <<2155, 3, 17>> \in Days
        /\ <<2155, 8, 18>> \in Days /\ <<Y, 2, 17>> \in Days
    BY <1>1 DEF Days
  <2>3. /\ <<2155, 2, 17>> \in Dates /\ <<2155, 2, 18>> \in Dates /\ <<2155, 3, 17>> \in Dates
        /\ <<2155, 8, 18>> \in Dates /\ <<Y, 2, 17>> \in Dates
    BY <2>1, <2>2 DEF Dates
  <2> QED
    BY <2>3
<1>7. DayNumber(<<2155, 2, 17>>) = 17 + 337 + YearDays(6954)
  <2>1. DayNumber(<<2155, 2, 17>>) = 17 + MonthDays(2) + YearDays(YearOf(2155, 2))
    BY <1>1, NumberParts
  <2> QED
    BY <1>3, <2>1
<1>8. DayNumber(<<2155, 2, 18>>) = 18 + 337 + YearDays(6954)
  <2>1. DayNumber(<<2155, 2, 18>>) = 18 + MonthDays(2) + YearDays(YearOf(2155, 2))
    BY <1>1, NumberParts
  <2> QED
    BY <1>3, <2>1
<1>9. DayNumber(<<2155, 3, 17>>) = 17 + 0 + YearDays(6955)
  <2>1. DayNumber(<<2155, 3, 17>>) = 17 + MonthDays(3) + YearDays(YearOf(2155, 3))
    BY <1>1, NumberParts
  <2> QED
    BY <1>3, <2>1
<1>10. DayNumber(<<2155, 8, 18>>) = 18 + 153 + YearDays(6955)
  <2>1. DayNumber(<<2155, 8, 18>>) = 18 + MonthDays(8) + YearDays(YearOf(2155, 8))
    BY <1>1, NumberParts
  <2> QED
    BY <1>3, <2>1
<1>11. DayNumber(<<Y, 2, 17>>) = 17 + 337 + YearDays(6954 + YearsToVictory)
  <2>1. DayNumber(<<Y, 2, 17>>) = 17 + MonthDays(2) + YearDays(YearOf(Y, 2))
    BY <1>1, NumberParts
  <2> QED
    BY <1>3, <2>1
<1> HIDE DEF YearDays
<1>12. /\ DayNumber(<<2155, 2, 17>>) \in Nat
       /\ DayNumber(<<2155, 2, 18>>) = DayNumber(<<2155, 2, 17>>) + 1
       /\ DayNumber(<<2155, 3, 17>>) = DayNumber(<<2155, 2, 17>>) + 28
       /\ DayNumber(<<2155, 8, 18>>) = DayNumber(<<2155, 2, 17>>) + 182
  BY <1>4, <1>7, <1>8, <1>9, <1>10
<1>13. DayNumber(<<Y, 2, 17>>) - DayNumber(<<2155, 2, 17>>)
         = YearDays(6954 + YearsToVictory) - YearDays(6954)
  BY <1>4, <1>5, <1>7, <1>11
<1> QED
  BY <1>1, <1>5, <1>6, <1>12, <1>13 DEF Y

LEMMA InvariantInit == Init => ClockInvariant
<1> SUFFICES ASSUME Init PROVE ClockInvariant
  OBVIOUS
<1> DEFINE n(d) == DayNumber(d)
           a == <<<<StartYear, 2, 18>>, "HYPERSPACE_ENCOUNTER">>
           b == <<<<StartYear, 3, 17>>, "ARILOU_ENTRANCE">>
           c == <<<<StartYear, 8, 18>>, "SLYLANDRO_RAMP_UP">>
           d == <<<<StartYear + YearsToVictory, 2, 17>>, "KOHR_AH_VICTORIOUS">>
<1>1. /\ date = <<StartYear, 2, 17>> /\ queue = <<a, b, c, d>>
      /\ a[2] = "HYPERSPACE_ENCOUNTER" /\ b[2] = "ARILOU_ENTRANCE"
      /\ c[2] = "SLYLANDRO_RAMP_UP" /\ d[2] = "KOHR_AH_VICTORIOUS"
      /\ a[1] = <<StartYear, 2, 18>> /\ b[1] = <<StartYear, 3, 17>>
  BY DEF Init
<1>2. /\ a \in Entries /\ b \in Entries /\ c \in Entries /\ d \in Entries /\ date \in Dates
      /\ n(date) \in Nat /\ n(a[1]) = n(date) + 1 /\ n(b[1]) = n(date) + 28
      /\ n(c[1]) = n(date) + 182 /\ n(d[1]) \in Nat /\ n(d[1]) >= n(date) + 365
  <2>1. a \in Entries /\ b \in Entries /\ c \in Entries /\ d \in Entries /\ date \in Dates
    BY <1>1, FirstDays DEF Entries, Events
  <2>2. /\ n(date) \in Nat /\ n(a[1]) = n(date) + 1 /\ n(b[1]) = n(date) + 28
        /\ n(c[1]) = n(date) + 182
        /\ n(d[1]) - n(date) \in 365 * YearsToVictory .. 366 * YearsToVictory
    BY <1>1, FirstDays
  <2>3. n(d[1]) \in Nat
    BY <2>1, EntryParts
  <2>4. 365 * YearsToVictory >= 365 /\ 365 * YearsToVictory \in Nat
    BY ClockAssumption
  <2> HIDE DEF n, d
  <2> QED
    BY <2>1, <2>2, <2>3, <2>4
<1> HIDE DEF a, b, c, d
<1>3. /\ queue \in Seq(Entries) /\ Len(queue) = 4 /\ queue # <<>> /\ Head(queue) = a
      /\ queue[1] = a /\ queue[2] = b /\ queue[3] = c /\ queue[4] = d
  BY <1>1, <1>2
<1>4. 1 .. Len(queue) = {1, 2, 3, 4}
  BY <1>3
<1>5. EntriesOf(queue) = {a, b, c, d}
  BY <1>3, <1>4 DEF EntriesOf
<1>6. Listed(queue)
  <2>1. Sorted(queue)
    BY <1>2, <1>3, <1>4 DEF Sorted
  <2>2. OneEach(queue)
    BY <1>1, <1>3, <1>4 DEF OneEach
  <2> QED
    BY <1>3, <2>1, <2>2 DEF Listed
<1>7. DailyLast(queue)
  <2>1. a[1] # b[1] /\ a[1] # c[1] /\ a[1] # d[1]
    BY <1>2
  <2> QED
    BY <1>1, <1>3, <1>4, <2>1 DEF DailyLast
<1>8. ListOK(queue, date, todo.events)
  <2>1. ~todo.events
    BY DEF Init
  <2>2. ~Due(queue, date)
    BY <1>2, <1>3 DEF Due
  <2> QED
    BY <1>1, <1>2, <1>5, <1>6, <1>7, <2>1, <2>2 DEF ListOK
<1>9. Kinds(queue) = {"HYPERSPACE_ENCOUNTER", "ARILOU_ENTRANCE", "SLYLANDRO_RAMP_UP",
                      "KOHR_AH_VICTORIOUS"}
  BY <1>1, <1>5 DEF Kinds
<1>10. StoryOK(Kinds(queue), story)
  <2>1. /\ story.frenzy = FALSE /\ story.zoqfot = "peace" /\ story.destruct = FALSE
        /\ story.ramp = 1 /\ story.asked = {}
    BY DEF Init
  <2>2. story \in Stories
    BY DEF Init, Stories
  <2> QED
    BY <1>9, <2>1, <2>2 DEF StoryOK
<1>11. GateOK
  <2>1. The17thOfNextMonth = <<StartYear, 3, 17>> /\ date[1] = StartYear /\ date[2] = 2
    BY <1>1, <1>2, NextMonthIs
  <2>2. \A x \in EntriesOf(queue) : /\ x[2] # "ARILOU_EXIT"
                                    /\ x[2] = "ARILOU_ENTRANCE" => x = b
    BY <1>1, <1>5
  <2>3. story.gate = "closing"
    BY DEF Init
  <2> QED
    BY <1>1, <2>1, <2>2, <2>3 DEF GateOK
<1>12. ClockOK
  BY <1>2, ClockAssumption DEF Init, ClockOK
<1> QED
  BY <1>8, <1>10, <1>11, <1>12 DEF ClockInvariant

(* Whatever the player does, the invariant holds.                          *)
THEOREM ClockInvariantHolds == Spec => []ClockInvariant
<1>1. Init => ClockInvariant
  BY InvariantInit
<1>2. ClockInvariant /\ [Next]_vars => ClockInvariant'
  BY InvariantStep
<1> QED
  BY <1>1, <1>2, PTL DEF Spec

LEMMA PendingIs ==
  ASSUME NEW e, Listed(queue)
  PROVE  /\ Pending(e) # {} <=> e \in Kinds(queue)
         /\ \A i \in Pending(e) : Pending(e) = {i} /\ i \in 1 .. Len(queue)
                                  /\ queue[i] \in EntriesOf(queue) /\ queue[i][2] = e
         /\ Cardinality(Pending(e)) <= 1
<1>1. Pending(e) # {} <=> e \in Kinds(queue)
  BY DEF Pending, Kinds, EntriesOf
<1>2. \A i \in Pending(e) : Pending(e) = {i} /\ i \in 1 .. Len(queue)
                            /\ queue[i] \in EntriesOf(queue) /\ queue[i][2] = e
  BY DEF Pending, EntriesOf, Listed, OneEach
<1>3. Cardinality(Pending(e)) <= 1
  <2>1. CASE Pending(e) = {}
    BY <2>1, FS_EmptySet
  <2>2. ASSUME NEW i \in Pending(e) PROVE Cardinality(Pending(e)) = 1
    BY <1>2, <2>2, FS_Singleton
  <2> QED
    BY <2>1, <2>2
<1> QED
  BY <1>1, <1>2, <1>3

(* The list of events is complete, in order and within its table.          *)
THEOREM ListStaysInOrder == Spec => []ListInOrder
<1>1. ClockInvariant => ListInOrder
  <2> SUFFICES ASSUME ClockInvariant PROVE ListInOrder
    OBVIOUS
  <2>1. /\ ClockOK /\ StoryOK(Kinds(queue), story) /\ Listed(queue) /\ DailyLast(queue)
        /\ \A x \in EntriesOf(queue) : DayNumber(date) <= DayNumber(x[1])
        /\ todo.events <=> Due(queue, date)
        /\ date \in Dates
    BY DEF ClockInvariant, ClockOK, ListOK
  <2>2. \A i \in 1 .. Len(queue) : queue[i] \in EntriesOf(queue) /\ queue[i] \in Entries
    BY <2>1, ListParts DEF EntriesOf
  <2>3. \A i \in 1 .. Len(queue) : /\ queue[i][1] \in Dates /\ queue[i][2] \in Events
                                   /\ DayNumber(queue[i][1]) \in Nat
    BY <2>2, EntryParts
  <2>4. TypeOK
    <3>1. place # "start" => frames.left \in 1 .. frames.inDay
      BY <2>1 DEF ClockOK
    <3> QED
      BY <2>1, <2>3, <3>1 DEF TypeOK, ClockOK, StoryOK, Stories
  <2>5. NothingMissed
    <3>1. ASSUME NEW i \in 1 .. Len(queue), NEW j \in 1 .. Len(queue), i < j
          PROVE  ~Before(queue[j][1], queue[i][1])
      <4>1. DayNumber(queue[i][1]) <= DayNumber(queue[j][1])
        BY <2>1, <3>1 DEF Listed, Sorted
      <4> QED
        BY <2>3, <4>1, DatesInOrder
    <3>2. ASSUME NEW i \in 1 .. Len(queue)
          PROVE  ~Before(queue[i][1], date) /\ (todo.events \/ queue[i][1] # date)
      <4>1. ~Before(queue[i][1], date)
        <5>1. DayNumber(date) <= DayNumber(queue[i][1]) /\ DayNumber(date) \in Nat
          BY <2>1, <2>2, DateParts
        <5> QED
          BY <2>1, <2>3, <5>1, DatesInOrder
      <4>2. todo.events \/ queue[i][1] # date
        BY <2>1, <2>2, DueThen
      <4> QED
        BY <4>1, <4>2
    <3> QED
      BY <3>1, <3>2 DEF NothingMissed
  <2>6. AtMostOneEach
    BY <2>1, PendingIs DEF AtMostOneEach
  <2>7. DailyEventLast
    BY <2>1 DEF DailyLast, DailyEventLast
  <2> QED
    BY <2>4, <2>5, <2>6, <2>7 DEF ListInOrder
<1> QED
  BY <1>1, ClockInvariantHolds, PTL

(* No chain of events ends early, and the gate opens and closes each month *)
(* on its days.                                                            *)
THEOREM ChainsStayInTime == Spec => []ChainsInTime
<1>1. ClockInvariant => ChainsInTime
  <2> SUFFICES ASSUME ClockInvariant PROVE ChainsInTime
    OBVIOUS
  <2>1. /\ date \in Dates /\ StoryOK(Kinds(queue), story) /\ GateOK /\ Listed(queue)
        /\ \A x \in EntriesOf(queue) : DayNumber(date) <= DayNumber(x[1])
        /\ todo.events <=> Due(queue, date)
    BY DEF ClockInvariant, ClockOK, ListOK
  <2>2. "HYPERSPACE_ENCOUNTER" \in Kinds(queue)
    BY DEF ClockInvariant, ListOK, Kinds
  <2>3. ChainsGoOn
    <3>1. \A e : Pending(e) # {} <=> e \in Kinds(queue)
      BY <2>1, PendingIs
    <3> HIDE DEF Kinds
    <3> QED
      BY <2>1, <2>2, <3>1 DEF ChainsGoOn, StoryOK
  <2>4. GateOpensMonthly
    <3> SUFFICES ASSUME ~todo.events, Before(<<StartYear, 3, 16>>, date)
                 PROVE  story.gate = "opening" <=> date[3] \in 17 .. 19
      BY DEF GateOpensMonthly
    <3>1. /\ date = <<date[1], date[2], date[3]>> /\ date[1] \in Nat
          /\ date[2] \in 1 .. 12 /\ date[3] \in 1 .. 31
      BY <2>1, DateParts
    <3>2. ~(date[1] = StartYear /\ date[2] = 2)
      BY <3>1 DEF Before, StartYear
    <3>3. \A x \in EntriesOf(queue) : x[1] # date
      BY <2>1, DueThen
    <3>4. CASE "ARILOU_ENTRANCE" \in Kinds(queue)
      <4>1. PICK x \in EntriesOf(queue) : x[2] = "ARILOU_ENTRANCE"
        BY <3>4 DEF Kinds
      <4>2. /\ story.gate = "closing"
            /\ \/ x[1] = <<date[1], date[2], 17>> /\ date[3] <= 17
               \/ date[3] >= 20
        BY <2>1, <3>2, <4>1 DEF GateOK
      <4>3. ~(date[3] \in 17 .. 19)
        BY <3>1, <3>3, <4>2
      <4> QED
        BY <4>2, <4>3
    <3>5. CASE "ARILOU_EXIT" \in Kinds(queue)
      <4>1. PICK x \in EntriesOf(queue) : x[2] = "ARILOU_EXIT"
        BY <3>5 DEF Kinds
      <4>2. /\ story.gate = "opening"
            /\ x[1] = <<date[1], date[2], 20>> /\ date[3] \in 17 .. 20
        BY <2>1, <4>1 DEF GateOK
      <4>3. date[3] \in 17 .. 19
        BY <3>1, <3>3, <4>2
      <4> QED
        BY <4>2, <4>3
    <3> QED
      BY <2>1, <3>4, <3>5 DEF StoryOK
  <2> QED
    BY <2>3, <2>4 DEF ChainsInTime
<1> QED
  BY <1>1, ClockInvariantHolds, PTL

-----------------------------------------------------------------------------
(* The list is a countdown of days.                                        *)

(* The days to go of the events in a list q on day d                       *)
Togo(q, d) ==
  [e \in Events |->
     IF {i \in 1 .. Len(q) : q[i][2] = e} = {} THEN -1
     ELSE DayNumber(q[CHOOSE i \in {j \in 1 .. Len(q) : q[j][2] = e} : TRUE][1])
            - DayNumber(d)]

LEMMA TogoIs ==
  ASSUME NEW q, Listed(q), NEW d \in Dates
  PROVE  /\ Togo(q, d) \in [Events -> Int] /\ DOMAIN Togo(q, d) = Events
         /\ \A e \in Events : e \notin Kinds(q) => Togo(q, d)[e] = -1
         /\ \A x \in EntriesOf(q) : /\ x[2] \in Events
                                    /\ Togo(q, d)[x[2]] = DayNumber(x[1]) - DayNumber(d)
<1> DEFINE P(e) == {i \in 1 .. Len(q) : q[i][2] = e}
           c(e) == CHOOSE i \in P(e) : TRUE
<1>1. /\ DayNumber(d) \in Nat
      /\ \A i \in 1 .. Len(q) : DayNumber(q[i][1]) \in Nat
      /\ \A i \in 1 .. Len(q) : q[i] \in EntriesOf(q)
      /\ \A x \in EntriesOf(q) : x[2] \in Events
      /\ \A x, z \in EntriesOf(q) : x[2] = z[2] => x = z
  BY ListParts, EntryParts, DateParts DEF EntriesOf
<1>2. \A e : P(e) # {} => c(e) \in P(e)
  OBVIOUS
<1>3. \A e \in Events : Togo(q, d)[e] =
        IF P(e) = {} THEN -1 ELSE DayNumber(q[c(e)][1]) - DayNumber(d)
  BY DEF Togo
<1> HIDE DEF c
<1>4. ASSUME NEW e \in Events PROVE Togo(q, d)[e] \in Int
  <2>1. CASE P(e) = {}
    BY <1>3, <2>1
  <2>2. CASE P(e) # {}
    <3>1. c(e) \in 1 .. Len(q)
      BY <1>2, <2>2
    <3> QED
      BY <1>1, <1>3, <2>2, <3>1
  <2> QED
    BY <2>1, <2>2
<1>5. Togo(q, d) \in [Events -> Int] /\ DOMAIN Togo(q, d) = Events
  <2>1. Togo(q, d) = [e \in Events |-> Togo(q, d)[e]]
    BY DEF Togo
  <2> HIDE DEF P
  <2> QED
    BY <1>4, <2>1
<1>6. ASSUME NEW e \in Events, e \notin Kinds(q) PROVE Togo(q, d)[e] = -1
  <2>1. P(e) = {}
    BY <1>6 DEF Kinds, EntriesOf
  <2> QED
    BY <1>3, <2>1
<1>7. ASSUME NEW x \in EntriesOf(q)
      PROVE  Togo(q, d)[x[2]] = DayNumber(x[1]) - DayNumber(d)
  <2>1. P(x[2]) # {}
    BY DEF EntriesOf
  <2>2. c(x[2]) \in 1 .. Len(q) /\ q[c(x[2])][2] = x[2]
    BY <1>2, <2>1
  <2>3. q[c(x[2])] = x
    BY <1>1, <2>2
  <2>4. Togo(q, d)[x[2]] = DayNumber(q[c(x[2])][1]) - DayNumber(d)
    BY <1>1, <1>3, <2>1
  <2> QED
    BY <2>3, <2>4
<1> HIDE DEF P
<1>8. \A e \in Events : e \notin Kinds(q) => Togo(q, d)[e] = -1
  BY <1>6
<1>9. \A x \in EntriesOf(q) : x[2] \in Events /\ Togo(q, d)[x[2]] = DayNumber(x[1]) - DayNumber(d)
  BY <1>1, <1>7
<1> QED
  BY <1>5, <1>8, <1>9

LEMMA TogoAsk ==
  ASSUME NEW q, Listed(q), NEW r, Listed(r), NEW d \in Dates,
         NEW w \in Dates, NEW f \in Events, f \notin Kinds(q),
         DayNumber(w) - DayNumber(d) \in Delay[f],
         \A x : x \in EntriesOf(r) <=> x \in EntriesOf(q) \/ x = <<w, f>>
  PROVE  Abstract!Ask(Togo(q, d), Togo(r, d))
<1> DEFINE a == Togo(q, d)  b == Togo(r, d)
<1>1. /\ a \in [Events -> Int] /\ DOMAIN a = Events
      /\ \A e \in Events : e \notin Kinds(q) => a[e] = -1
      /\ \A x \in EntriesOf(q) : x[2] \in Events /\ a[x[2]] = DayNumber(x[1]) - DayNumber(d)
  BY TogoIs
<1>2. /\ b \in [Events -> Int] /\ DOMAIN b = Events
      /\ \A e \in Events : e \notin Kinds(r) => b[e] = -1
      /\ \A x \in EntriesOf(r) : x[2] \in Events /\ b[x[2]] = DayNumber(x[1]) - DayNumber(d)
  BY TogoIs
<1> HIDE DEF a, b
<1>3. a[f] = -1
  BY <1>1
<1>4. b[f] = DayNumber(w) - DayNumber(d)
  <2>1. <<w, f>> \in EntriesOf(r) /\ <<w, f>>[1] = w /\ <<w, f>>[2] = f
    OBVIOUS
  <2> QED
    BY <1>2, <2>1
<1>5. ASSUME NEW e \in Events, e # f PROVE b[e] = a[e]
  <2>1. CASE e \in Kinds(q)
    <3>1. PICK x \in EntriesOf(q) : x[2] = e
      BY <2>1 DEF Kinds
    <3> QED
      BY <1>1, <1>2, <3>1
  <2>2. CASE e \notin Kinds(q)
    <3>1. e \notin Kinds(r)
      <4> SUFFICES ASSUME NEW x \in EntriesOf(r), x[2] = e PROVE FALSE
        BY DEF Kinds
      <4>1. x \in EntriesOf(q)
        BY <1>5
      <4> QED
        BY <2>2, <4>1 DEF Kinds
    <3> QED
      BY <1>1, <1>2, <2>2, <3>1
  <2> QED
    BY <2>1, <2>2
<1>6. b = [a EXCEPT ![f] = b[f]]
  BY <1>1, <1>2, <1>5
<1>7. Abstract!Ask(a, b)
  BY <1>3, <1>4, <1>6 DEF Abstract!Ask, Abstract!Never, Abstract!AskedFor
<1> QED
  BY <1>7 DEF a, b

LEMMA TogoDone ==
  ASSUME NEW q, Listed(q), NEW t, Listed(t), NEW d \in Dates,
         NEW h \in EntriesOf(q), h[1] = d, EntriesOf(t) = EntriesOf(q) \ {h},
         ~Waits(t, h[2])
  PROVE  /\ h[2] \in Events /\ Togo(q, d)[h[2]] = 0
         /\ Togo(t, d) = Abstract!AskedFor(Togo(q, d), h[2], Abstract!Never)
<1> DEFINE a == Togo(q, d)  b == Togo(t, d)
<1>1. /\ a \in [Events -> Int] /\ DOMAIN a = Events
      /\ \A e \in Events : e \notin Kinds(q) => a[e] = -1
      /\ \A x \in EntriesOf(q) : x[2] \in Events /\ a[x[2]] = DayNumber(x[1]) - DayNumber(d)
  BY TogoIs
<1>2. /\ b \in [Events -> Int] /\ DOMAIN b = Events
      /\ \A e \in Events : e \notin Kinds(t) => b[e] = -1
      /\ \A x \in EntriesOf(t) : x[2] \in Events /\ b[x[2]] = DayNumber(x[1]) - DayNumber(d)
  BY TogoIs
<1> HIDE DEF a, b
<1>3. h[2] \in Events /\ a[h[2]] = 0
  <2>1. DayNumber(d) \in Nat
    BY DateParts
  <2> QED
    BY <1>1, <2>1
<1>4. b[h[2]] = -1
  BY <1>2, <1>3, KindsAre
<1>5. ASSUME NEW e \in Events, e # h[2] PROVE b[e] = a[e]
  <2>1. CASE e \in Kinds(q)
    <3>1. PICK x \in EntriesOf(q) : x[2] = e
      BY <2>1 DEF Kinds
    <3>2. x \in EntriesOf(t)
      BY <1>5, <3>1
    <3> QED
      BY <1>1, <1>2, <3>1, <3>2
  <2>2. CASE e \notin Kinds(q)
    <3>1. e \notin Kinds(t)
      BY <2>2 DEF Kinds
    <3> QED
      BY <1>1, <1>2, <2>2, <3>1
  <2> QED
    BY <2>1, <2>2
<1>6. b = [a EXCEPT ![h[2]] = -1]
  BY <1>1, <1>2, <1>4, <1>5
<1> QED
  BY <1>3, <1>6 DEF a, b, Abstract!AskedFor, Abstract!Never

LEMMA TogoDay ==
  ASSUME NEW q, NEW d \in Dates, ListOK(q, d, FALSE)
  PROVE  Abstract!Day(Togo(q, d), Togo(q, NextDay(d)))
<1> DEFINE a == Togo(q, d)  b == Togo(q, NextDay(d))
<1>1. /\ Listed(q) /\ ~Due(q, d)
      /\ \A x \in EntriesOf(q) : DayNumber(d) <= DayNumber(x[1])
  BY DEF ListOK
<1>2. /\ \A x \in EntriesOf(q) : DayNumber(x[1]) \in Nat
      /\ DayNumber(d) \in Nat
      /\ NextDay(d) \in Dates /\ DayNumber(NextDay(d)) = DayNumber(d) + 1
      /\ \A x \in EntriesOf(q) : DayNumber(x[1]) # DayNumber(d)
  BY <1>1, ListParts, EntryParts, DateParts, NextDayIs, DueThen
<1>3. /\ a \in [Events -> Int] /\ DOMAIN a = Events
      /\ \A e \in Events : e \notin Kinds(q) => a[e] = -1
      /\ \A x \in EntriesOf(q) : x[2] \in Events /\ a[x[2]] = DayNumber(x[1]) - DayNumber(d)
  BY <1>1, TogoIs
<1>4. /\ b \in [Events -> Int] /\ DOMAIN b = Events
      /\ \A e \in Events : e \notin Kinds(q) => b[e] = -1
      /\ \A x \in EntriesOf(q) : b[x[2]] = DayNumber(x[1]) - DayNumber(NextDay(d))
  BY <1>1, <1>2, TogoIs
<1> HIDE DEF a, b
<1>5. ASSUME NEW e \in Events
      PROVE  a[e] # 0 /\ b[e] = IF a[e] = -1 THEN -1 ELSE a[e] - 1
  <2>1. CASE e \in Kinds(q)
    <3>1. PICK x \in EntriesOf(q) : x[2] = e
      BY <2>1 DEF Kinds
    <3>2. a[e] = DayNumber(x[1]) - DayNumber(d) /\ b[e] = DayNumber(x[1]) - (DayNumber(d) + 1)
      BY <1>2, <1>3, <1>4, <3>1
    <3>3. DayNumber(x[1]) \in Nat /\ DayNumber(d) <= DayNumber(x[1]) /\ DayNumber(x[1]) # DayNumber(d)
      BY <1>1, <1>2
    <3> QED
      BY <1>2, <3>2, <3>3
  <2>2. CASE e \notin Kinds(q)
    BY <1>3, <1>4, <2>2
  <2> QED
    BY <2>1, <2>2
<1>6. b = [e \in Events |-> IF a[e] = -1 THEN -1 ELSE a[e] - 1]
  BY <1>4, <1>5
<1>7. Abstract!Day(a, b)
  BY <1>5, <1>6 DEF Abstract!Day, Abstract!Never
<1> QED
  BY <1>7 DEF a, b

(* The days to go, as the list is mapped to the countdown                  *)
TogoNow ==
  [e \in Events |->
     IF Pending(e) = {} THEN -1
     ELSE DayNumber(queue[CHOOSE i \in Pending(e) : TRUE][1]) - DayNumber(date)]

LEMMA TogoNowIs == TogoNow = Togo(queue, date) /\ TogoNow' = Togo(queue', date')
<1>1. TogoNow = Togo(queue, date)
  BY DEF TogoNow, Togo, Pending
<1>2. TogoNow' = Togo(queue', date')
  BY DEF TogoNow, Togo, Pending
<1> QED
  BY <1>1, <1>2

LEMMA TogoInit ==
  ASSUME Init
  PROVE  Togo(queue, date) \in
           {f \in [Events -> {Abstract!Never} \cup UNION {Delay[e] : e \in Events}] :
              \A e \in Events : f[e] \in {Abstract!Never} \cup Delay[e]}
<1> DEFINE n(d) == DayNumber(d)
           a == <<<<StartYear, 2, 18>>, "HYPERSPACE_ENCOUNTER">>
           b == <<<<StartYear, 3, 17>>, "ARILOU_ENTRANCE">>
           c == <<<<StartYear, 8, 18>>, "SLYLANDRO_RAMP_UP">>
           d == <<<<StartYear + YearsToVictory, 2, 17>>, "KOHR_AH_VICTORIOUS">>
           g == Togo(queue, date)
<1>1. Listed(queue) /\ date \in Dates
  BY InvariantInit DEF ClockInvariant, ClockOK, ListOK
<1>2. /\ g \in [Events -> Int] /\ DOMAIN g = Events
      /\ \A e \in Events : e \notin Kinds(queue) => g[e] = -1
      /\ \A x \in EntriesOf(queue) : x[2] \in Events /\ g[x[2]] = n(x[1]) - n(date)
  BY <1>1, TogoIs
<1>3. EntriesOf(queue) = {a, b, c, d} /\ date = <<StartYear, 2, 17>>
  <2>1. queue = <<a, b, c, d>> /\ date = <<StartYear, 2, 17>>
    BY DEF Init
  <2> HIDE DEF a, b, c, d
  <2>2. /\ 1 .. Len(queue) = {1, 2, 3, 4}
        /\ queue[1] = a /\ queue[2] = b /\ queue[3] = c /\ queue[4] = d
    BY <2>1
  <2> QED
    BY <2>1, <2>2 DEF EntriesOf
<1>4. /\ n(a[1]) - n(date) = 1 /\ n(b[1]) - n(date) = 28 /\ n(c[1]) - n(date) = 182
      /\ n(d[1]) - n(date) \in 365 * YearsToVictory .. 366 * YearsToVictory
      /\ a[2] = "HYPERSPACE_ENCOUNTER" /\ b[2] = "ARILOU_ENTRANCE"
      /\ c[2] = "SLYLANDRO_RAMP_UP" /\ d[2] = "KOHR_AH_VICTORIOUS"
  BY <1>3, FirstDays
<1> HIDE DEF a, b, c, d, g, n
<1>5. \A x \in EntriesOf(queue) : g[x[2]] \in Delay[x[2]]
  <2>1. g[a[2]] \in Delay[a[2]] /\ g[b[2]] \in Delay[b[2]]
    BY <1>2, <1>3, <1>4, DelayIs
  <2>2. g[c[2]] \in Delay[c[2]] /\ g[d[2]] \in Delay[d[2]]
    BY <1>2, <1>3, <1>4, DelayIs
  <2> QED
    BY <1>3, <2>1, <2>2
<1>6. \A e \in Events : g[e] \in {-1} \cup Delay[e]
  BY <1>2, <1>5 DEF Kinds
<1>7. g \in [Events -> {-1} \cup UNION {Delay[e] : e \in Events}]
  BY <1>2, <1>6
<1> QED
  BY <1>6, <1>7 DEF Abstract!Never, g

(* Each step of the clock is one of the countdown.                         *)
LEMMA TogoStep ==
  ASSUME ClockInvariant, ClockInvariant', [Next]_vars
  PROVE  LET now == Togo(queue, date)
             next == Togo(queue', date')
         IN  \/ Abstract!Ask(now, next) \/ Abstract!Happen(now, next)
             \/ Abstract!Day(now, next) \/ next = now
<1>1. /\ date \in Dates /\ ListOK(queue, date, todo.events) /\ Listed(queue)
      /\ StoryOK(Kinds(queue), story) /\ GateOK
  BY DEF ClockInvariant, ClockOK, ListOK
<1>2. Listed(queue')
  BY DEF ClockInvariant, ListOK, Listed, Sorted, OneEach
<1>3. CASE UNCHANGED <<date, queue>>
  BY <1>3
<1>4. CASE ~todo.events /\ date' = NextDay(date) /\ queue' = queue
  <2>1. ListOK(queue, date, FALSE)
    BY <1>1, <1>4 DEF ListOK
  <2> QED
    BY <1>1, <1>4, <2>1, TogoDay
<1>5. CASE Talk \/ LearnDestructCode
  <2>1. /\ date' = date /\ ListOK(queue, date, FALSE)
        /\ Kinds(queue) \in SUBSET Events
    <3>1. date' = date /\ ~todo.events
      BY <1>5 DEF Talk, LearnDestructCode, Delayed, MayAsk, Playing, Busy
    <3> QED
      BY <1>1, <3>1, KindsAre DEF ListOK
  <2>2. ASSUME NEW w, NEW f, AskedIn(w, f), f \notin Kinds(queue),
               queue' = Added(queue, w, f, 0)
        PROVE  Abstract!Ask(Togo(queue, date), Togo(queue', date'))
    <3> DEFINE r == Added(queue, w, f, 0)
    <3>1. \A x : x \in EntriesOf(r) <=> x \in EntriesOf(queue) \/ x = <<w, f>>
      BY <1>1, <2>1, <2>2, ListAsked
    <3> HIDE DEF r
    <3>2. queue' = r
      BY <2>2 DEF r
    <3>3. w \in Dates /\ f \in Events /\ DayNumber(w) - DayNumber(date) \in Delay[f]
      BY <2>2 DEF AskedIn
    <3>4. Abstract!Ask(Togo(queue, date), Togo(r, date))
      BY <1>1, <1>2, <2>2, <3>1, <3>2, <3>3, TogoAsk
    <3> QED
      BY <2>1, <3>2, <3>4
  <2>3. CASE Talk
    <3>1. PICK f \in TalkEvents :
            /\ \E w : AskedIn(w, f) /\ queue' = Added(queue, w, f, 0)
            /\ f \notin Kinds(queue)
      BY <2>3, TalkIs
    <3> QED
      BY <2>2, <3>1
  <2>4. CASE LearnDestructCode
    <3>1. CASE story.ramp = 0
      BY <2>1, <2>4, <3>1 DEF LearnDestructCode
    <3>2. CASE story.ramp # 0
      <4>1. /\ queue' = Added(queue, Later(0, 23, 0), "SLYLANDRO_RAMP_DOWN", 0)
            /\ "SLYLANDRO_RAMP_DOWN" \notin story.asked
        BY <2>4, <3>2 DEF LearnDestructCode, MayAsk
      <4>2. /\ "SLYLANDRO_RAMP_DOWN" \notin Kinds(queue)
            /\ AskedIn(Later(0, 23, 0), "SLYLANDRO_RAMP_DOWN")
        BY <1>1, <4>1, TalkDelays DEF StoryOK
      <4> QED
        BY <2>2, <4>1, <4>2
    <3> QED
      BY <3>1, <3>2
  <2> QED
    BY <1>5, <2>3, <2>4
<1>6. CASE HandleEvent
  <2> DEFINE h == Head(queue)  e == h[2]  t == Tail(queue)  next == FollowUp(e)
             r == IF next = Nothing THEN t ELSE Added(t, next[1], next[2], 1)
             now == Togo(queue, date)
             rest == Abstract!AskedFor(now, e, Abstract!Never)
  <2>1. queue' = r /\ date' = date /\ ListOK(queue, date, TRUE)
    BY <1>1, <1>6 DEF HandleEvent, ListOK
  <2>2. h[1] = date /\ h \in EntriesOf(queue)
    <3>1. queue # <<>> /\ h[1] = date
      BY <2>1 DEF ListOK, Due
    <3> QED
      BY <1>1, <3>1, Shrinks
  <2>3. e = "ARILOU_EXIT" => date[3] = 20
    BY <1>1, <2>2, GateDays
  <2>4. /\ Listed(t) /\ EntriesOf(t) = EntriesOf(queue) \ {h} /\ ~Waits(t, e)
        /\ next # Nothing => /\ next = <<next[1], next[2]>>
                             /\ AskedIn(next[1], next[2])
                             /\ ~Waits(t, next[2])
        /\ EntriesOf(r) = EntriesOf(t) \cup (IF next = Nothing THEN {} ELSE {next})
    BY <1>1, <2>1, <2>3, ListHandled
  <2>5. e \in Events /\ now[e] = 0 /\ Togo(t, date) = rest
    BY <1>1, <2>2, <2>4, TogoDone
  <2> HIDE DEF e, next, now
  <2>6. Togo(r, date) = rest \/ Abstract!Ask(rest, Togo(r, date))
    <3>1. CASE next = Nothing
      BY <2>5, <3>1
    <3>2. CASE next # Nothing
      <4>1. \A x : x \in EntriesOf(r) <=> x \in EntriesOf(t) \/ x = <<next[1], next[2]>>
        <5> HIDE DEF r, t
        <5> QED
          BY <2>4, <3>2
      <4>2. /\ next[1] \in Dates /\ next[2] \in Events /\ next[2] \notin Kinds(t)
            /\ DayNumber(next[1]) - DayNumber(date) \in Delay[next[2]]
        BY <2>4, <3>2, KindsAre DEF AskedIn
      <4>3. Listed(r)
        BY <1>2, <2>1
      <4> HIDE DEF r, t
      <4>4. Abstract!Ask(Togo(t, date), Togo(r, date))
        BY <1>1, <2>4, <4>1, <4>2, <4>3, TogoAsk
      <4> QED
        BY <2>5, <4>4
    <3> QED
      BY <3>1, <3>2
  <2> HIDE DEF r
  <2>7. Abstract!Happen(now, Togo(r, date))
    BY <2>5, <2>6 DEF Abstract!Happen
  <2> QED
    BY <2>1, <2>7 DEF now
<1>7. CASE Tick \/ MoveDay
  <2>1. \/ UNCHANGED <<date, queue>>
        \/ ~todo.events /\ date' = NextDay(date) /\ queue' = queue
    BY <1>7 DEF Tick, MoveDay, Playing, Busy
  <2> QED
    BY <1>3, <1>4, <2>1
<1>8. CASE UNCHANGED vars \/ (\E p \in {"hyperspace"} \cup Systems : Enter(p)) \/ LoseDays \/ Help
  <2>1. UNCHANGED <<date, queue>>
    BY <1>8 DEF vars, Enter, LoseDays, Help
  <2> QED
    BY <1>3, <2>1
<1> QED
  BY <1>5, <1>6, <1>7, <1>8 DEF Next

(* Each event happens as many days after it was asked for as was said, and *)
(* none is passed over.                                                    *)
THEOREM ClockIsCountdown == Spec => ImplementsCountdown
<1>1. Init => Abstract!Init
  <2> SUFFICES ASSUME Init PROVE Abstract!Init
    OBVIOUS
  <2>1. TogoNow \in
          {f \in [Events -> {Abstract!Never} \cup UNION {Delay[e] : e \in Events}] :
             \A e \in Events : f[e] \in {Abstract!Never} \cup Delay[e]}
    BY TogoNowIs, TogoInit
  <2> QED
    BY <2>1 DEF Abstract!Init, TogoNow
<1>2. ClockInvariant /\ ClockInvariant' /\ [Next]_vars => [Abstract!Next]_TogoNow
  <2> SUFFICES ASSUME ClockInvariant, ClockInvariant', [Next]_vars
               PROVE  Abstract!Next \/ TogoNow' = TogoNow
    OBVIOUS
  <2>1. \/ Abstract!Ask(TogoNow, TogoNow') \/ Abstract!Happen(TogoNow, TogoNow')
        \/ Abstract!Day(TogoNow, TogoNow') \/ TogoNow' = TogoNow
    BY TogoNowIs, TogoStep
  <2>2. CASE TogoNow' = TogoNow
    BY <2>2
  <2>3. CASE \/ Abstract!Ask(TogoNow, TogoNow') \/ Abstract!Happen(TogoNow, TogoNow')
             \/ Abstract!Day(TogoNow, TogoNow')
    BY <2>3 DEF Abstract!Next, TogoNow
  <2> QED
    BY <2>1, <2>2, <2>3
<1> QED
  BY <1>1, <1>2, ClockInvariantHolds, PTL DEF Spec, ImplementsCountdown, Abstract!Spec, TogoNow

-----------------------------------------------------------------------------
(* The types of the fleets, the states of the missions and a game          *)

Bytes   == 0 .. 255
Ships   == 0 .. 484
Growths == -128 .. 127
Dests   == Places \cup {"none"}
Funcs   == Missions \cup {"none"}
Delays    == 0 .. 366

Fleets ==
  [loc : Places, dest : Dests, days : Bytes, func : Funcs, strength : Ships,
   growth : Growths, fract : Bytes, err : Bytes]

Phrases == {"ally", "idea", "praise", "kill", "attack", "implant"}

PkunkStates  == 0 .. 7
ThraddStates == 0 .. 5
UtwigStates  == 0 .. 6
Reasons      == 0 .. 2

States ==
  [pkunk : PkunkStates, moving : BOOLEAN, reasons : Reasons, thradd : ThraddStates,
   utwig : UtwigStates, fight : BOOLEAN, frenzy : BOOLEAN, over : BOOLEAN,
   said : SUBSET Phrases]

Games == [fleet : [Races -> Fleets], event : [Missions -> Delays], state : States]

(* A fleet that has not been sent anywhere; the Kohr-Ah may have come.     *)
Quiet(g, r) ==
  g.fleet[r] = Home(r) \/ g.fleet[r] = [Home(r) EXCEPT !.strength = 0]

(* The fleets of a mission                                                 *)
Sent(p) ==
  CASE p = "pkunk" -> {"pkunk"} [] p = "thradd" -> {"thradd", "ilwrath"}
    [] p = "utwig" -> {"utwig", "supox"} [] p = "mycon" -> {"mycon"}
    [] p = "kohrah" -> {"mycon", "kohrah"}

(* What the mission of this game has nothing to do with                    *)
Aside(g, p) ==
  /\ \A r \in Races \ Sent(p) : Quiet(g, r)
  /\ p # "pkunk" => g.state.pkunk = 0
  /\ p # "thradd" => g.state.thradd = 0 /\ ~g.state.fight /\ "kill" \notin g.state.said
  /\ p # "utwig" => g.state.utwig = 0
  /\ p # "kohrah" => ~g.state.frenzy /\ ~g.state.over
  /\ \A m \in Missions :
       g.event[m] # 0 => (m = p /\ p # "thradd") \/ (p = "kohrah" /\ m = "mycon")

(* A fleet that neither grows nor shrinks                                  *)
Stays(f, strength, err) ==
  f.strength = strength /\ f.err = err /\ f.growth = 0 /\ f.fract = 0

(* A fleet that was of some strength and has lost ships for k days         *)
Fought(f, strength, growth, fract, k) ==
  /\ f.growth = 0 - growth /\ f.fract = fract
  /\ 256 * f.strength + f.err = 256 * strength + 127 - (256 * growth + fract) * k

Bound(f, dest, func) == f.dest = dest /\ f.func = func

(* The Pkunk are at home, on their way to the Yehat or back, at home again *)
(* until they leave, or absorbed; they were turned once for each two       *)
(* changes of the state.  A way begins with d days.                        *)
PkunkHome(g) ==
  /\ g.fleet["pkunk"] = Home("pkunk") /\ g.state.pkunk = 0
  /\ g.state.reasons = 0 /\ ~g.state.moving
  /\ "ally" \notin g.state.said => g.event["pkunk"] = 0

PkunkAway(g, d) ==
  LET f == g.fleet["pkunk"]
      n == g.state.pkunk
  IN  /\ Stays(f, 120, 127) /\ f.days \in 1 .. d
      /\ "ally" \in g.state.said /\ g.event["pkunk"] = 0 /\ g.state.moving
      /\ \/ n \in {1, 3, 5} /\ Bound(f, "yehat", "pkunk") /\ n = 2 * g.state.reasons + 1
         \/ n \in {2, 4} /\ Bound(f, "pkunk", "pkunk") /\ n = 2 * g.state.reasons

PkunkBack(g) ==
  LET f == g.fleet["pkunk"]
      n == g.state.pkunk
  IN  /\ Stays(f, 120, 127) /\ f.days = 0 /\ f.loc = "pkunk"
      /\ "ally" \in g.state.said /\ ~g.state.moving
      /\ n \in {2, 4} /\ n = 2 * g.state.reasons

Gone(g, r) == g.fleet[r].strength = 0

PkunkPlot(g, d) ==
  \/ PkunkHome(g) \/ PkunkAway(g, d)
  \/ PkunkBack(g) /\ g.event["pkunk"] > 0
  \/ Gone(g, "pkunk")

(* The Mycon are at home, on their way to Organon, there for 14 days, or   *)
(* on their way home.  Of the fight j days are yet to be felt.             *)
MyconHome(g) ==
  /\ g.fleet["mycon"] = Home("mycon") /\ g.event["mycon"] = 0
  /\ "implant" \notin g.state.said

MyconAway(g) ==
  LET f == g.fleet["mycon"]
  IN  /\ Bound(f, "organon", "mycon") /\ f.days \in 1 .. 30 /\ f.loc # "organon"
      /\ Stays(f, 194, 127)
      /\ g.event["mycon"] = 0 /\ "implant" \in g.state.said

MyconFight(g, j) ==
  LET f == g.fleet["mycon"]
  IN  /\ f.dest = "organon" /\ f.days = 0
      /\ g.event["mycon"] \in 1 .. 14 - j /\ "implant" \in g.state.said
      /\ Fought(f, 194, 6, 237, 14 - g.event["mycon"] - j)

MyconBack(g) ==
  LET f == g.fleet["mycon"]
  IN  /\ Bound(f, "mycon", "none") /\ f.days \in 0 .. 30 /\ Stays(f, 104, 118)
      /\ g.event["mycon"] = 0 /\ "implant" \in g.state.said

MyconPlot(g, j) ==
  \/ MyconHome(g) \/ MyconAway(g) \/ MyconFight(g, j) \/ MyconBack(g)
  \/ Gone(g, "mycon")

(* The Kohr-Ah leave on the first day and never rest until all is over.    *)
KohrahPlot(g) ==
  LET f == g.fleet["kohrah"]
  IN  /\ Stays(f, 484, 127)
      /\ \/ /\ f = Home("kohrah") /\ g.event["kohrah"] = 1 /\ g.event["mycon"] = 0
            /\ ~g.state.frenzy /\ ~g.state.over
         \/ /\ f.func = "kohrah" /\ f.dest # "none"
            /\ g.event["kohrah"] = 0 /\ g.state.frenzy
            /\ (f.days > 0 \/ g.state.over)

(* The Utwig and the Supox are at home, on their way to the Kohr-Ah or     *)
(* from there, there for two times 80 days, or at home again.  Of a day of *)
(* the fight ks and ku are yet to be felt, of one of a way ds and du are   *)
(* over.                                                                   *)
UtwigHome(g) ==
  /\ g.fleet["utwig"] = Home("utwig") /\ g.fleet["supox"] = Home("supox")
  /\ g.state.utwig = 0 /\ g.event["utwig"] = 0 /\ "attack" \notin g.state.said

UtwigAway(g, ds, du) ==
  LET f == g.fleet["utwig"]
      s == g.fleet["supox"]
      to == IF g.state.utwig = 1 THEN "front3" ELSE "utwig"
  IN  /\ g.state.utwig \in {1, 5} /\ g.event["utwig"] = 0 /\ "attack" \in g.state.said
      /\ s.days + ds = f.days + du /\ f.days + du \in 1 .. 21 /\ f.days > 0
      /\ Bound(f, to, "utwig") /\ Bound(s, to, "none")
      /\ g.state.utwig = 1 => Stays(f, 120, 127) /\ Stays(s, 60, 127)
      /\ g.state.utwig = 5 => Stays(f, 60, 223) /\ Stays(s, 30, 175)

UtwigFight(g, ks, ku) ==
  LET k == (IF g.state.utwig = 2 THEN 80 ELSE 160) - g.event["utwig"]
  IN  /\ g.state.utwig \in {2, 4} /\ g.event["utwig"] \in 1 .. 80
      /\ "attack" \in g.state.said
      /\ g.fleet["utwig"].days = 0 /\ g.fleet["supox"].days = 0
      /\ Fought(g.fleet["utwig"], 120, 0, 96, k - ku)
      /\ Fought(g.fleet["supox"], 60, 0, 48, k - ks)

UtwigBack(g) ==
  /\ g.state.utwig = 6 /\ g.event["utwig"] = 0 /\ "attack" \in g.state.said
  /\ g.fleet["utwig"].days = 0 /\ g.fleet["supox"].days = 0
  /\ Stays(g.fleet["utwig"], 60, 223) /\ Stays(g.fleet["supox"], 30, 175)

UtwigPlot(g, ds, du, ks, ku) ==
  UtwigHome(g) \/ UtwigAway(g, ds, du) \/ UtwigFight(g, ks, ku) \/ UtwigBack(g)

(* The Thraddash before the battle: at home, on their way to the Kohr-Ah,  *)
(* there for 14 days, on their way home, or at home again.                 *)
ThraddAlone(g) ==
  LET f == g.fleet["thradd"]
      n == g.state.thradd
  IN  \/ n = 0 /\ f = Home("thradd") /\ "idea" \notin g.state.said
      \/ /\ "idea" \in g.state.said
         /\ \/ /\ n = 1 /\ Bound(f, "front2", "thradd") /\ f.days \in 1 .. 14
               /\ Stays(f, 150, 127)
            \/ /\ n = 2 /\ Bound(f, "front2", "thradd") /\ f.days \in 1 .. 14
               /\ Fought(f, 150, 5, 91, 14 - f.days)
            \/ /\ n = 3 /\ Bound(f, "thradd", "thradd") /\ f.days \in 1 .. 14
               /\ Stays(f, 75, 133)
            \/ n \in {4, 5} /\ f.days = 0 /\ Stays(f, 75, 133)

(* And during it: on their way home first, or bound for the battle, to be  *)
(* there d days after the Ilwrath at most.                                 *)
ThraddCalled(g, d) ==
  LET f == g.fleet["thradd"]
      n == g.state.thradd
  IN  /\ f.growth <= 0 /\ f.strength <= 150
      /\ \/ Gone(g, "thradd")
         \/ /\ ~Gone(g, "ilwrath") /\ n = 3
            /\ Bound(f, "thradd", "thradd") /\ f.days \in 1 .. 14
         \/ /\ ~Gone(g, "ilwrath") /\ n \in {0, 4, 5}
            /\ Bound(f, "battle", "none") /\ f.days <= g.fleet["ilwrath"].days + d

(* The Ilwrath before the battle, and during it                            *)
IlwrathAlone(g) ==
  LET f == g.fleet["ilwrath"]
  IN  \/ f = Home("ilwrath") /\ "kill" \notin g.state.said
      \/ /\ "kill" \in g.state.said /\ Stays(f, 256, 127)
         /\ Bound(f, "front", "ilwrath") /\ f.days \in 1 .. 90
         /\ f.loc \in {"ilwrath", "away"}

IlwrathFight(g) ==
  LET f == g.fleet["ilwrath"]
  IN  /\ "kill" \in g.state.said
      /\ \/ Gone(g, "ilwrath")
         \/ /\ Bound(f, "battle", "ilwrath") /\ f.days \in 1 .. 127
            /\ f.loc \in {"front", "away"} /\ f.strength = 2 + 2 * f.days
            /\ f.growth = -2 /\ f.fract = 0 /\ f.err = 127

ThraddPlot(g, d) ==
  IF g.state.fight THEN ThraddCalled(g, d) /\ IlwrathFight(g)
  ELSE ThraddAlone(g) /\ IlwrathAlone(g)

OnCourse(g, p) ==
  /\ p = "pkunk" => PkunkPlot(g, 181)
  /\ p = "utwig" => UtwigPlot(g, 0, 0, 0, 0)
  /\ p \in {"mycon", "kohrah"} => MyconPlot(g, 0)
  /\ p = "kohrah" => KohrahPlot(g)
  /\ p = "thradd" => ThraddPlot(g, 2)

(* The inductive invariant: every mission is at some point of its course,  *)
(* on a day at its beginning.                                              *)
MissionsInv ==
  /\ plot \in Plots /\ Game \in Games
  /\ Aside(Game, plot) /\ OnCourse(Game, plot)
-----------------------------------------------------------------------------
(* One fleet of a game is replaced.                                        *)
Put(g, r, f) == [g EXCEPT !.fleet[r] = f]

LEMMA StateParts ==
  ASSUME NEW s \in States
  PROVE  /\ s.pkunk \in 0 .. 7 /\ s.thradd \in 0 .. 5 /\ s.utwig \in 0 .. 6
         /\ s.reasons \in 0 .. 2 /\ s.said \subseteq Phrases
         /\ s.moving \in BOOLEAN /\ s.fight \in BOOLEAN
         /\ s.frenzy \in BOOLEAN /\ s.over \in BOOLEAN
BY DEF States, PkunkStates, ThraddStates, UtwigStates, Reasons

LEMMA GameParts ==
  ASSUME NEW g \in Games
  PROVE  /\ g.fleet \in [Races -> Fleets] /\ g.event \in [Missions -> Delays]
         /\ g.state \in States
BY DEF Games

LEMMA FleetParts ==
  ASSUME NEW f \in Fleets
  PROVE  /\ f.loc \in Places /\ f.dest \in Places \cup {"none"} /\ f.days \in 0 .. 255
         /\ f.func \in Missions \cup {"none"} /\ f.strength \in 0 .. 484
         /\ f.growth \in -128 .. 127 /\ f.fract \in 0 .. 255 /\ f.err \in 0 .. 255
BY DEF Fleets, Bytes, Ships, Growths, Dests, Funcs

LEMMA HomeIs ==
  ASSUME NEW r \in Races
  PROVE  /\ Home(r) \in Fleets /\ [Home(r) EXCEPT !.strength = 0] \in Fleets
         /\ Home(r).loc = r /\ Home(r).dest = "none" /\ Home(r).days = 0
         /\ Home(r).func = "none" /\ Home(r).strength = Strength[r]
         /\ Home(r).growth = 0 /\ Home(r).fract = 0 /\ Home(r).err = 127
<1>1. Strength[r] \in 0 .. 484
  BY DEF Strength, Races
<1>2. r \in Places
  BY DEF Places
<1> QED
  BY <1>1, <1>2 DEF Home, Fleets, Bytes, Ships, Growths, Dests, Funcs

LEMMA PutIs ==
  ASSUME NEW g \in Games, NEW r \in Races, NEW f \in Fleets
  PROVE  /\ Put(g, r, f) \in Games /\ Put(g, r, f).fleet[r] = f
         /\ \A q \in Races : q # r => Put(g, r, f).fleet[q] = g.fleet[q]
         /\ Put(g, r, f).event = g.event /\ Put(g, r, f).state = g.state
BY DEF Put, Games

(* Numbers of a byte                                                       *)
LEMMA ByteIs ==
  ASSUME NEW n \in Int
  PROVE  /\ n \in 0 .. 255 => n % 256 = n
         /\ n \in -256 .. -1 => n % 256 = n + 256
OBVIOUS

(* SetRaceDest                                                             *)
LEMMA SetRaceDestIs ==
  ASSUME NEW g \in Games, NEW r \in Races, NEW dest \in Places,
         NEW days \in Bytes, NEW func \in Funcs,
         NEW h, h = SetRaceDest(g, r, dest, days, func)
  PROVE  /\ h \in Games /\ h.event = g.event /\ h.state = g.state
         /\ \A q \in Races : q # r => h.fleet[q] = g.fleet[q]
         /\ h.fleet[r].loc = g.fleet[r].loc /\ h.fleet[r].dest = dest
         /\ h.fleet[r].days = days /\ h.fleet[r].func = func
         /\ h.fleet[r].strength = g.fleet[r].strength
         /\ h.fleet[r].growth = g.fleet[r].growth
         /\ h.fleet[r].fract = g.fleet[r].fract /\ h.fleet[r].err = g.fleet[r].err
<1> DEFINE f == g.fleet[r]
           e == [f EXCEPT !.dest = dest, !.days = days, !.func = func]
<1>1. f \in Fleets
  BY GameParts
<1>2. days % 256 = days
  BY ByteIs DEF Bytes
<1>3. e \in Fleets
  <2>1. dest \in Dests
    BY DEF Dests
  <2> HIDE DEF f
  <2> QED
    BY <1>1, <2>1 DEF Fleets
<1>4. /\ e.loc = f.loc /\ e.dest = dest /\ e.days = days /\ e.func = func
      /\ e.strength = f.strength /\ e.growth = f.growth
      /\ e.fract = f.fract /\ e.err = f.err
  BY <1>1 DEF Fleets
<1>5. h = Put(g, r, e)
  BY <1>2 DEF SetRaceDest, Put
<1> HIDE DEF e
<1> QED
  BY <1>3, <1>4, <1>5, PutIs

(* A day of growth                                                         *)
LEMMA StrongerType ==
  ASSUME NEW f \in Fleets, f.growth <= 0
  PROVE  /\ Stronger(f) \in Fleets /\ Stronger(f).strength <= f.strength
         /\ Stronger(f).loc = f.loc /\ Stronger(f).dest = f.dest
         /\ Stronger(f).days = f.days /\ Stronger(f).func = f.func
         /\ Stronger(f).growth = f.growth /\ Stronger(f).fract = f.fract
<1> DEFINE delta == IF f.err <= f.fract THEN f.growth - 1 ELSE f.growth
           s == IF f.strength + delta <= 0 THEN 0 ELSE f.strength + delta
           e == (f.err - f.fract) % 256
<1>1. Stronger(f) = [f EXCEPT !.strength = s, !.err = e]
  BY FleetParts DEF Stronger, Fleets
<1>0. /\ f.strength \in 0 .. 484 /\ f.growth \in -128 .. 127
      /\ f.fract \in 0 .. 255 /\ f.err \in 0 .. 255
  BY FleetParts
<1>2. delta \in Int /\ delta <= 0
  BY <1>0
<1>3. s \in Ships /\ s <= f.strength
  <2> DEFINE x == f.strength
  <2>1. x \in 0 .. 484
    BY <1>0
  <2> HIDE DEF delta, x
  <2>2. (IF x + delta <= 0 THEN 0 ELSE x + delta) \in 0 .. 484
        /\ (IF x + delta <= 0 THEN 0 ELSE x + delta) <= x
    BY <1>2, <2>1
  <2> QED
    BY <2>2 DEF x, Ships
<1>4. e \in Bytes
  <2> DEFINE x == f.err
             y == f.fract
             d == x - y
  <2>0. x \in 0 .. 255 /\ y \in 0 .. 255
    BY <1>0
  <2>1. d \in Int
    <3> HIDE DEF x, y
    <3> QED
      BY <2>0
  <2> HIDE DEF d
  <2>2. d % 256 \in 0 .. 255
    BY <2>1, SMT
  <2> QED
    BY <2>2 DEF d, Bytes
<1> HIDE DEF s, e
<1> QED
  BY <1>1, <1>3, <1>4 DEF Fleets

LEMMA StrongerIs ==
  ASSUME NEW f \in Fleets
  PROVE  /\ Stronger(f).err = (f.err - f.fract) % 256
         /\ Stronger(f).strength =
              LET delta == IF f.err <= f.fract THEN f.growth - 1 ELSE f.growth
              IN  IF f.strength + delta <= 0 THEN 0 ELSE f.strength + delta
BY DEF Stronger, Fleets

LEMMA StrongerStays ==
  ASSUME NEW f \in Fleets, f.growth = 0, f.fract = 0, f.err # 0, f.strength # 0
  PROVE  Stronger(f).strength = f.strength /\ Stronger(f).err = f.err
<1>1. f.err \in 0 .. 255 /\ f.strength \in 0 .. 484
  BY FleetParts
<1>2. (f.err - 0) % 256 = f.err
  BY <1>1, ByteIs
<1> QED
  BY <1>1, <1>2, StrongerIs

(* Strength and err together shrink by the same share of ships every day.  *)
LEMMA StrongerFought ==
  ASSUME NEW f \in Fleets, f.growth <= 0, f.err # 0, f.err # f.fract,
         f.strength + f.growth > 1
  PROVE  256 * Stronger(f).strength + Stronger(f).err
           = 256 * f.strength + f.err + 256 * f.growth - f.fract
<1> DEFINE x == f.strength
           y == f.err
           a == f.growth
           b == f.fract
           z == IF y <= b THEN x + (a - 1) ELSE x + a
<1>2. /\ x \in 0 .. 484 /\ y \in 1 .. 255 /\ y # b /\ x + a > 1
      /\ a \in -128 .. 0 /\ b \in 0 .. 255
  BY FleetParts
<1>4. Stronger(f).err = (y - b) % 256
  BY StrongerIs
<1>3. Stronger(f).strength = z
  <2>1. Stronger(f).strength =
          LET delta == IF y <= b THEN a - 1 ELSE a
          IN  IF x + delta <= 0 THEN 0 ELSE x + delta
    BY StrongerIs
  <2> HIDE DEF x, y, a, b
  <2>2. ~(x + (a - 1) <= 0) /\ ~(x + a <= 0)
    BY <1>2
  <2> QED
    BY <2>1, <2>2
<1> HIDE DEF x, y, a, b
<1>7. 256 * z + ((y - b) % 256) = 256 * x + y + 256 * a - b
  <2>1. CASE y <= b
    <3>1. (y - b) % 256 = y - b + 256
      BY <1>2, <2>1, ByteIs
    <3> QED
      BY <1>2, <2>1, <3>1
  <2>2. CASE y > b
    <3>1. (y - b) % 256 = y - b
      BY <1>2, <2>2, ByteIs
    <3> QED
      BY <1>2, <2>2, <3>1
  <2> QED
    BY <1>2, <2>1, <2>2
<1> HIDE DEF z
<1> QED
  BY <1>3, <1>4, <1>7 DEF x, y, a, b

(* A day on the way                                                        *)
LEMMA MovedIs ==
  ASSUME NEW f \in Fleets, f.days > 0, f.dest \in Places
  PROVE  /\ Moved(f) \in Fleets /\ Moved(f).days = f.days - 1
         /\ Moved(f).loc = (IF f.dest = f.loc \/ f.days = 1 THEN f.dest ELSE "away")
         /\ Moved(f).dest = f.dest /\ Moved(f).func = f.func
         /\ Moved(f).strength = f.strength /\ Moved(f).growth = f.growth
         /\ Moved(f).fract = f.fract /\ Moved(f).err = f.err
<1> DEFINE l == IF f.dest = f.loc \/ f.days = 1 THEN f.dest ELSE "away"
           n == f.days - 1
<1>1. n \in Bytes
  BY FleetParts DEF Bytes
<1>2. "away" \in Places
  BY DEF Places
<1>3. l \in Places
  BY <1>2
<1>4. Moved(f) = [f EXCEPT !.days = n, !.loc = l]
  BY DEF Moved, Fleets
<1> HIDE DEF n, l
<1>5. /\ Moved(f) \in Fleets /\ Moved(f).days = n /\ Moved(f).loc = l
      /\ Moved(f).dest = f.dest /\ Moved(f).func = f.func
      /\ Moved(f).strength = f.strength /\ Moved(f).growth = f.growth
      /\ Moved(f).fract = f.fract /\ Moved(f).err = f.err
  BY <1>1, <1>3, <1>4 DEF Fleets
<1> QED
  BY <1>5 DEF n, l
-----------------------------------------------------------------------------
(* A day: the events, then each fleet in its turn                          *)

LEMMA GrownIs ==
  ASSUME NEW g \in Games, NEW r \in Races, NEW w \in Grown(g, r)
  PROVE  LET f == g.fleet[r]
             s == Stronger(f)
             m == Moved(s)
         IN  \/ Idle(f) /\ w = g
             \/ /\ ~Idle(f) /\ (s.strength = 0 \/ s.days = 0)
                /\ w = Put(g, r, s)
             \/ /\ ~Idle(f) /\ s.strength # 0 /\ s.days # 0
                /\ (s.days # 1 \/ s.func = "none")
                /\ w = Put(g, r, m)
             \/ /\ ~Idle(f) /\ s.strength # 0 /\ s.days = 1 /\ s.func # "none"
                /\ w \in Handle(Put(g, r, m), s.func)
<1> DEFINE f == g.fleet[r]
           s == Stronger(f)
           m == Moved(s)
<1>1. CASE Idle(f)
  BY <1>1 DEF Grown
<1>2. CASE ~Idle(f)
  <2>1. w \in Arrived(g, r, s)
    BY <1>2 DEF Grown
  <2> HIDE DEF s
  <2>2. CASE s.strength = 0 \/ s.days = 0
    <3>1. w = Put(g, r, s)
      BY <2>1, <2>2 DEF Arrived, Put
    <3> QED
      BY <1>2, <2>2, <3>1 DEF s
  <2>3. CASE ~(s.strength = 0 \/ s.days = 0)
    <3>1. w \in IF s.days = 1 /\ s.func # "none"
                THEN Handle(Put(g, r, m), s.func) ELSE {Put(g, r, m)}
      BY <2>1, <2>3 DEF Arrived, Put
    <3> HIDE DEF m
    <3>2. CASE s.days = 1 /\ s.func # "none"
      BY <1>2, <2>3, <3>1, <3>2 DEF s, m
    <3>3. CASE ~(s.days = 1 /\ s.func # "none")
      BY <1>2, <2>3, <3>1, <3>3 DEF s, m
    <3> QED
      BY <3>2, <3>3
  <2> QED
    BY <2>2, <2>3
<1> QED
  BY <1>1, <1>2

LEMMA QuietGrown ==
  ASSUME NEW g \in Games, NEW r \in Races, Quiet(g, r), NEW w \in Grown(g, r)
  PROVE  w = g
<1>1. g.fleet[r] = Home(r) => Idle(g.fleet[r])
  BY DEF Idle, Home
<1>2. g.fleet[r] = [Home(r) EXCEPT !.strength = 0] => Idle(g.fleet[r])
  BY DEF Idle, Home
<1>3. Idle(g.fleet[r])
  BY <1>1, <1>2 DEF Quiet
<1> QED
  BY <1>3 DEF Grown

(* The turns of check_race_growth                                          *)
IsGrowing(a, games, n) ==
  a = [i \in 0 .. n |->
        IF i = 0 THEN games ELSE UNION {Grown(g, Order[i]) : g \in a[i - 1]}]

LEMMA GrowingOn ==
  ASSUME NEW games, NEW n \in Nat, NEW a, IsGrowing(a, games, n)
  PROVE  \E b : IsGrowing(b, games, n + 1)
<1> DEFINE Turn(i, x) == UNION {Grown(g, Order[i]) : g \in x}
           b == [i \in 0 .. n + 1 |-> IF i = n + 1 THEN Turn(n + 1, a[n]) ELSE a[i]]
<1>1. a = [i \in 0 .. n |-> IF i = 0 THEN games ELSE Turn(i, a[i - 1])]
  BY DEF IsGrowing
<1> HIDE DEF Turn
<1>2. \A i \in 0 .. n : a[i] = IF i = 0 THEN games ELSE Turn(i, a[i - 1])
  BY <1>1
<1>3. \A i \in 0 .. n : b[i] = a[i]
  OBVIOUS
<1>4. ASSUME NEW i \in 0 .. n + 1
      PROVE  b[i] = IF i = 0 THEN games ELSE Turn(i, b[i - 1])
  <2>1. CASE i = n + 1
    <3>1. n \in 0 .. n /\ i # 0 /\ i - 1 = n
      BY <2>1
    <3>2. b[n] = a[n]
      BY <1>3, <3>1
    <3>3. b[i] = Turn(n + 1, a[n])
      BY <2>1
    <3> HIDE DEF b
    <3>4. b[i] = Turn(i, b[i - 1])
      BY <2>1, <3>1, <3>2, <3>3
    <3> QED
      BY <3>1, <3>4
  <2>2. CASE i # n + 1
    <3>1. i \in 0 .. n /\ (i # 0 => i - 1 \in 0 .. n)
      BY <2>2
    <3>2. b[i] = a[i] /\ (i # 0 => b[i - 1] = a[i - 1])
      BY <1>3, <3>1
    <3> HIDE DEF b
    <3> QED
      BY <1>2, <3>1, <3>2
  <2> QED
    BY <2>1, <2>2
<1>5. b = [i \in 0 .. n + 1 |-> IF i = 0 THEN games ELSE Turn(i, b[i - 1])]
  <2> DEFINE c == [i \in 0 .. n + 1 |-> IF i = 0 THEN games ELSE Turn(i, b[i - 1])]
  <2>1. \A i \in 0 .. n + 1 : b[i] = c[i]
    BY <1>4
  <2> QED
    BY <2>1
<1>6. IsGrowing(b, games, n + 1)
  <2> HIDE DEF b
  <2> QED
    BY <1>5 DEF IsGrowing, Turn
<1> QED
  BY <1>6

LEMMA GrowingExists ==
  ASSUME NEW games
  PROVE  \E a : IsGrowing(a, games, 8)
<1>0. \E a : IsGrowing(a, games, 0)
  <2> DEFINE a == [i \in 0 .. 0 |-> games]
             Turn(i, x) == UNION {Grown(g, Order[i]) : g \in x}
  <2>1. \A i \in 0 .. 0 : i = 0
    OBVIOUS
  <2> HIDE DEF Turn
  <2>2. a = [i \in 0 .. 0 |-> IF i = 0 THEN games ELSE Turn(i, a[i - 1])]
    BY <2>1, Zenon
  <2>3. IsGrowing(a, games, 0)
    <3> HIDE DEF a
    <3> QED
      BY <2>2 DEF IsGrowing, Turn
  <2> QED
    BY <2>3
<1>1. \A n \in Nat : (\E a : IsGrowing(a, games, n)) => \E a : IsGrowing(a, games, n + 1)
  BY GrowingOn
<1>2. /\ 0 + 1 = 1 /\ 1 + 1 = 2 /\ 2 + 1 = 3 /\ 3 + 1 = 4
      /\ 4 + 1 = 5 /\ 5 + 1 = 6 /\ 6 + 1 = 7 /\ 7 + 1 = 8
  OBVIOUS
<1>3. \E a : IsGrowing(a, games, 1)
  BY <1>0, <1>1, <1>2
<1>4. \E a : IsGrowing(a, games, 2)
  BY <1>1, <1>2, <1>3
<1>5. \E a : IsGrowing(a, games, 3)
  BY <1>1, <1>2, <1>4
<1>6. \E a : IsGrowing(a, games, 4)
  BY <1>1, <1>2, <1>5
<1>7. \E a : IsGrowing(a, games, 5)
  BY <1>1, <1>2, <1>6
<1>8. \E a : IsGrowing(a, games, 6)
  BY <1>1, <1>2, <1>7
<1>9. \E a : IsGrowing(a, games, 7)
  BY <1>1, <1>2, <1>8
<1> QED
  BY <1>1, <1>2, <1>9

LEMMA AllGrownIs ==
  ASSUME NEW games, NEW w \in AllGrown(games)
  PROVE  \E h0 \in games :
         \E h1 \in Grown(h0, "pkunk") :
         \E h2 \in Grown(h1, "supox") :
         \E h3 \in Grown(h2, "thradd") :
         \E h4 \in Grown(h3, "utwig") :
         \E h5 \in Grown(h4, "druuge") :
         \E h6 \in Grown(h5, "ilwrath") :
         \E h7 \in Grown(h6, "mycon") : w \in Grown(h7, "kohrah")
<1> DEFINE a == CHOOSE b : IsGrowing(b, games, 8)
<1>1. IsGrowing(a, games, 8)
  BY GrowingExists
<1>2. w \in a[8]
  <2>1. Len(Order) = 8
    BY DEF Order
  <2> QED
    BY <2>1 DEF AllGrown, IsGrowing
<1> HIDE DEF a
<1>3. \A i \in 0 .. 8 : a[i] = IF i = 0 THEN games
                               ELSE UNION {Grown(g, Order[i]) : g \in a[i - 1]}
  BY <1>1 DEF IsGrowing
<1>4. /\ Order[1] = "pkunk" /\ Order[2] = "supox" /\ Order[3] = "thradd"
      /\ Order[4] = "utwig" /\ Order[5] = "druuge" /\ Order[6] = "ilwrath"
      /\ Order[7] = "mycon" /\ Order[8] = "kohrah"
  BY DEF Order
<1>5. \A i \in 1 .. 8 : \A x \in a[i] : \E y \in a[i - 1] : x \in Grown(y, Order[i])
  <2> SUFFICES ASSUME NEW i \in 1 .. 8, NEW x \in a[i]
               PROVE  \E y \in a[i - 1] : x \in Grown(y, Order[i])
    OBVIOUS
  <2>1. a[i] = UNION {Grown(g, Order[i]) : g \in a[i - 1]}
    BY <1>3
  <2> QED
    BY <2>1
<1>6. a[0] = games
  BY <1>3
<1>7. PICK h7 \in a[7] : w \in Grown(h7, "kohrah")
  BY <1>2, <1>4, <1>5
<1>8. PICK h6 \in a[6] : h7 \in Grown(h6, "mycon")
  BY <1>4, <1>5
<1>9. PICK h5 \in a[5] : h6 \in Grown(h5, "ilwrath")
  BY <1>4, <1>5
<1>10. PICK h4 \in a[4] : h5 \in Grown(h4, "druuge")
  BY <1>4, <1>5
<1>11. PICK h3 \in a[3] : h4 \in Grown(h3, "utwig")
  BY <1>4, <1>5
<1>12. PICK h2 \in a[2] : h3 \in Grown(h2, "thradd")
  BY <1>4, <1>5
<1>13. PICK h1 \in a[1] : h2 \in Grown(h1, "supox")
  BY <1>4, <1>5
<1>14. PICK h0 \in games : h1 \in Grown(h0, "pkunk")
  BY <1>4, <1>5, <1>6
<1> QED
  BY <1>7, <1>8, <1>9, <1>10, <1>11, <1>12, <1>13, <1>14

(* The game at the beginning of a day: every event is a day nearer.        *)
Begun ==
  [Game EXCEPT !.event = [m \in Missions |-> IF event[m] = 0 THEN 0 ELSE event[m] - 1]]

LEMMA BegunIs ==
  ASSUME Game \in Games
  PROVE  /\ Begun \in Games /\ Begun.fleet = fleet /\ Begun.state = state
         /\ \A m \in Missions :
              Begun.event[m] = IF event[m] = 0 THEN 0 ELSE event[m] - 1
<1>1. /\ fleet \in [Races -> Fleets] /\ event \in [Missions -> Delays]
      /\ state \in States
  BY DEF Game, Games
<1>2. \A m \in Missions : event[m] \in Delays
                             /\ event[m] \in 0 .. 366 /\ (event[m] # 0 => event[m] - 1 \in Delays)
  BY <1>1 DEF Delays
<1>3. [m \in Missions |-> IF event[m] = 0 THEN 0 ELSE event[m] - 1]
        \in [Missions -> Delays]
  <2>1. 0 \in Delays
    BY DEF Delays
  <2> QED
    BY <1>2, <2>1
<1> QED
  BY <1>1, <1>3 DEF Begun, Game, Games

LEMMA HappenedIs ==
  ASSUME NEW m0 \in Missions, \A m \in Missions : event[m] = 1 => m = m0,
         NEW h \in Happened({Game})
  PROVE  /\ event[m0] # 1 => h = Begun
         /\ event[m0] = 1 => h \in Handle(Begun, m0)
<1> DEFINE due == {m \in Missions : event[m] = 1}
           begun == {[g EXCEPT !.event =
                        [m \in Missions |-> IF event[m] = 0 THEN 0 ELSE event[m] - 1]] :
                       g \in {Game}}
<1>1. h \in IF due = {} THEN begun
            ELSE UNION {Handle(g, CHOOSE m \in due : TRUE) : g \in begun}
  BY DEF Happened
<1>2. begun = {Begun}
  BY DEF Begun
<1>3. event[m0] # 1 => due = {}
  OBVIOUS
<1>4. event[m0] = 1 => due = {m0} /\ (CHOOSE m \in due : TRUE) = m0
  OBVIOUS
<1> HIDE DEF due, begun
<1> QED
  BY <1>1, <1>2, <1>3, <1>4
-----------------------------------------------------------------------------
(* What a step of one mission leaves alone                                 *)
Else(g, h, p) ==
  /\ h \in Games
  /\ \A r \in Races \ Sent(p) : h.fleet[r] = g.fleet[r]
  /\ p # "pkunk" => h.state.pkunk = g.state.pkunk
  /\ p # "thradd" => h.state.thradd = g.state.thradd /\ h.state.fight = g.state.fight
  /\ p # "utwig" => h.state.utwig = g.state.utwig
  /\ h.state.said = g.state.said
  /\ h.state.frenzy = g.state.frenzy /\ h.state.over = g.state.over
  /\ \A m \in Missions : m # p \/ p = "thradd" => h.event[m] = g.event[m]

Courses == {"pkunk", "thradd", "utwig", "mycon"}

LEMMA ElseAside ==
  ASSUME NEW p \in Courses, NEW g, NEW h, Aside(g, p), Else(g, h, p)
  PROVE  Aside(h, p)
<1>1. \A r \in Races \ Sent(p) : Quiet(h, r)
  BY DEF Aside, Else, Quiet
<1>2. \A m \in Missions : h.event[m] # 0 => m = p /\ p # "thradd"
  BY DEF Aside, Else, Courses
<1> QED
  BY <1>1, <1>2 DEF Aside, Else, Courses

LEMMA ElseTrans ==
  ASSUME NEW p, NEW g, NEW h, NEW w, Else(g, h, p), Else(h, w, p)
  PROVE  Else(g, w, p)
BY DEF Else

LEMMA PutElse ==
  ASSUME NEW p \in Courses, NEW g \in Games, NEW r \in Sent(p), r \in Races, NEW f \in Fleets
  PROVE  Else(g, Put(g, r, f), p)
BY PutIs DEF Else

LEMMA SentIs ==
  /\ Sent("pkunk") = {"pkunk"} /\ Sent("thradd") = {"thradd", "ilwrath"}
  /\ Sent("utwig") = {"utwig", "supox"} /\ Sent("mycon") = {"mycon"}
  /\ Sent("kohrah") = {"mycon", "kohrah"}
BY DEF Sent

(* pkunk_mission: a fleet sets out or turns.                               *)
LEMMA PkunkSent ==
  ASSUME NEW g \in Games, NEW w \in PkunkMission(g),
         ~Gone(g, "pkunk"), g.fleet["pkunk"].days \in 0 .. 182,
         g.state.pkunk # 0 => g.fleet["pkunk"].days # 0
                              \/ /\ ~Odd(g.state.pkunk) /\ ~g.state.moving
                                 /\ g.fleet["pkunk"].loc = "pkunk"
  PROVE  /\ Else(g, w, "pkunk") /\ w.event = g.event
         /\ Bound(w.fleet["pkunk"], IF Odd(g.state.pkunk) THEN "pkunk" ELSE "yehat", "pkunk")
         /\ w.fleet["pkunk"].days = 182 - g.fleet["pkunk"].days
         /\ w.state.pkunk = (g.state.pkunk + 1) % 8 /\ w.state.moving
         /\ w.state.reasons = g.state.reasons
         /\ \A s, e : Stays(g.fleet["pkunk"], s, e) => Stays(w.fleet["pkunk"], s, e)
<1> DEFINE f == g.fleet["pkunk"]
           n == g.state.pkunk
           dest == IF Odd(n) THEN "pkunk" ELSE "yehat"
           d == 182 - f.days
           x == SetRaceDest(g, "pkunk", dest, d, "pkunk")
           k == (n + 1) % 8
<1>1. w = [x EXCEPT !.state.pkunk = (@ + 1) % 8, !.state.moving = TRUE]
  BY DEF PkunkMission, Gone
<1>2. /\ "pkunk" \in Races /\ dest \in Places /\ d \in Bytes
      /\ "pkunk" \in Funcs
  BY DEF Races, Places, Missions, Bytes, Funcs
<1>3. /\ x \in Games /\ x.event = g.event /\ x.state = g.state
      /\ \A q \in Races : q # "pkunk" => x.fleet[q] = g.fleet[q]
      /\ x.fleet["pkunk"].dest = dest /\ x.fleet["pkunk"].func = "pkunk"
      /\ x.fleet["pkunk"].days = d
      /\ x.fleet["pkunk"].strength = f.strength /\ x.fleet["pkunk"].growth = f.growth
      /\ x.fleet["pkunk"].fract = f.fract /\ x.fleet["pkunk"].err = f.err
  <2>1. x = SetRaceDest(g, "pkunk", dest, d, "pkunk")
    OBVIOUS
  <2> HIDE DEF dest, d, x
  <2> QED
    BY <1>2, <2>1, SetRaceDestIs
<1> HIDE DEF x
<1>4. g.state \in States /\ n \in 0 .. 7
  BY GameParts, StateParts
<1>5. k \in PkunkStates
  <2> HIDE DEF n
  <2> QED
    BY <1>4 DEF PkunkStates
<1>6. w = [x EXCEPT !.state = [x.state EXCEPT !.pkunk = k, !.moving = TRUE]]
  BY <1>1, <1>3, <1>4 DEF Games, States
<1> HIDE DEF k
<1>7. [g.state EXCEPT !.pkunk = k, !.moving = TRUE] \in States
  BY <1>4, <1>5 DEF States
<1>8. /\ w \in Games /\ w.fleet = x.fleet /\ w.event = x.event
      /\ w.state = [g.state EXCEPT !.pkunk = k, !.moving = TRUE]
  BY <1>3, <1>6, <1>7 DEF Games
<1>9. /\ w.state.pkunk = k /\ w.state.moving = TRUE /\ w.state.reasons = g.state.reasons
      /\ w.state.thradd = g.state.thradd /\ w.state.utwig = g.state.utwig
      /\ w.state.fight = g.state.fight /\ w.state.frenzy = g.state.frenzy
      /\ w.state.over = g.state.over /\ w.state.said = g.state.said
  BY <1>4, <1>8 DEF States
<1>10. Else(g, w, "pkunk")
  BY <1>3, <1>8, <1>9, SentIs DEF Else
<1> QED
  BY <1>3, <1>8, <1>9, <1>10 DEF k, Stays, Bound

(* Fleets that are no more                                                 *)
LEMMA DestroyedIs ==
  ASSUME NEW g \in Games, NEW races, NEW h, h = Destroyed(g, races)
  PROVE  /\ h \in Games /\ h.event = g.event /\ h.state = g.state
         /\ \A r \in Races : r \in races => h.fleet[r] = [g.fleet[r] EXCEPT !.strength = 0]
         /\ \A r \in Races : r \notin races => h.fleet[r] = g.fleet[r]
         /\ \A r \in Races : r \in races => Gone(h, r)
<1> DEFINE fl == [r \in Races |->
     IF r \in races THEN [g.fleet[r] EXCEPT !.strength = 0] ELSE g.fleet[r]]
<1>1. h = [g EXCEPT !.fleet = fl]
  BY DEF Destroyed
<1>2. 0 \in Ships
  BY DEF Ships
<1>3. \A r \in Races : g.fleet[r] \in Fleets
  BY GameParts
<1>4. \A f \in Fleets : [f EXCEPT !.strength = 0] \in Fleets /\ [f EXCEPT !.strength = 0].strength = 0
  BY <1>2 DEF Fleets
<1>5. fl \in [Races -> Fleets]
  BY <1>3, <1>4
<1>6. \A r \in Races : fl[r] = IF r \in races THEN [g.fleet[r] EXCEPT !.strength = 0] ELSE g.fleet[r]
  OBVIOUS
<1> HIDE DEF fl
<1>7. h \in Games /\ h.event = g.event /\ h.state = g.state /\ h.fleet = fl
  BY <1>1, <1>5 DEF Games
<1> QED
  BY <1>3, <1>4, <1>6, <1>7 DEF Gone

(* Fields of the GAME_STATEs                                               *)
LEMMA StateMoving ==
  ASSUME NEW s \in States, NEW b \in BOOLEAN, NEW z, z = [s EXCEPT !.moving = b]
  PROVE  /\ z \in States /\ z.moving = b /\ z.pkunk = s.pkunk
         /\ z.reasons = s.reasons /\ z.thradd = s.thradd
         /\ z.utwig = s.utwig /\ z.fight = s.fight
         /\ z.frenzy = s.frenzy /\ z.over = s.over
         /\ z.said = s.said
BY DEF States

LEMMA StateFight ==
  ASSUME NEW s \in States, NEW b \in BOOLEAN, NEW z, z = [s EXCEPT !.fight = b]
  PROVE  /\ z \in States /\ z.fight = b /\ z.pkunk = s.pkunk
         /\ z.reasons = s.reasons /\ z.thradd = s.thradd
         /\ z.utwig = s.utwig /\ z.moving = s.moving
         /\ z.frenzy = s.frenzy /\ z.over = s.over
         /\ z.said = s.said
BY DEF States

LEMMA StateFrenzy ==
  ASSUME NEW s \in States, NEW b \in BOOLEAN, NEW z, z = [s EXCEPT !.frenzy = b]
  PROVE  /\ z \in States /\ z.frenzy = b /\ z.pkunk = s.pkunk
         /\ z.reasons = s.reasons /\ z.thradd = s.thradd
         /\ z.utwig = s.utwig /\ z.moving = s.moving
         /\ z.fight = s.fight /\ z.over = s.over
         /\ z.said = s.said
BY DEF States

LEMMA StateOver ==
  ASSUME NEW s \in States, NEW b \in BOOLEAN, NEW z, z = [s EXCEPT !.over = b]
  PROVE  /\ z \in States /\ z.over = b /\ z.pkunk = s.pkunk
         /\ z.reasons = s.reasons /\ z.thradd = s.thradd
         /\ z.utwig = s.utwig /\ z.moving = s.moving
         /\ z.fight = s.fight /\ z.frenzy = s.frenzy
         /\ z.said = s.said
BY DEF States

LEMMA StateThradd ==
  ASSUME NEW s \in States, NEW n \in ThraddStates, NEW z, z = [s EXCEPT !.thradd = n]
  PROVE  /\ z \in States /\ z.thradd = n /\ z.pkunk = s.pkunk
         /\ z.reasons = s.reasons /\ z.over = s.over
         /\ z.utwig = s.utwig /\ z.moving = s.moving
         /\ z.fight = s.fight /\ z.frenzy = s.frenzy
         /\ z.said = s.said
BY DEF States

LEMMA StateUtwig ==
  ASSUME NEW s \in States, NEW n \in UtwigStates, NEW z, z = [s EXCEPT !.utwig = n]
  PROVE  /\ z \in States /\ z.utwig = n /\ z.pkunk = s.pkunk
         /\ z.reasons = s.reasons /\ z.over = s.over
         /\ z.thradd = s.thradd /\ z.moving = s.moving
         /\ z.fight = s.fight /\ z.frenzy = s.frenzy
         /\ z.said = s.said
BY DEF States

LEMMA StateReasons ==
  ASSUME NEW s \in States, NEW n \in Reasons, NEW z, z = [s EXCEPT !.reasons = n]
  PROVE  /\ z \in States /\ z.reasons = n /\ z.pkunk = s.pkunk
         /\ z.utwig = s.utwig /\ z.over = s.over
         /\ z.thradd = s.thradd /\ z.moving = s.moving
         /\ z.fight = s.fight /\ z.frenzy = s.frenzy
         /\ z.said = s.said
BY DEF States

(* What is said                                                            *)
LEMMA StateSaid ==
  ASSUME NEW s \in States, NEW t \in Phrases, NEW z, z = [s EXCEPT !.said = @ \cup {t}]
  PROVE  /\ z \in States /\ z.said = s.said \cup {t} /\ z.pkunk = s.pkunk
         /\ z.utwig = s.utwig /\ z.over = s.over
         /\ z.thradd = s.thradd /\ z.moving = s.moving
         /\ z.fight = s.fight /\ z.frenzy = s.frenzy
         /\ z.reasons = s.reasons
<1>1. s.said \cup {t} \in SUBSET Phrases
  BY DEF States
<1> QED
  BY <1>1 DEF States

Told(g, t) == [g EXCEPT !.state.said = @ \cup {t}]

LEMMA SaidIs ==
  ASSUME NEW g \in Games, NEW t \in Phrases, NEW h, h = Told(g, t)
  PROVE  /\ h \in Games /\ h.fleet = g.fleet /\ h.event = g.event
         /\ h.state.said = g.state.said \cup {t} /\ h.state.pkunk = g.state.pkunk
         /\ h.state.utwig = g.state.utwig /\ h.state.over = g.state.over
         /\ h.state.thradd = g.state.thradd /\ h.state.moving = g.state.moving
         /\ h.state.fight = g.state.fight /\ h.state.frenzy = g.state.frenzy
         /\ h.state.reasons = g.state.reasons
<1> DEFINE z == [g.state EXCEPT !.said = @ \cup {t}]
<1>1. h = [g EXCEPT !.state = z]
  BY DEF Told, Games, States
<1>2. g.state \in States
  BY GameParts
<1>3. /\ z \in States /\ z.said = g.state.said \cup {t} /\ z.pkunk = g.state.pkunk
      /\ z.utwig = g.state.utwig /\ z.over = g.state.over
      /\ z.thradd = g.state.thradd /\ z.moving = g.state.moving
      /\ z.fight = g.state.fight /\ z.frenzy = g.state.frenzy
      /\ z.reasons = g.state.reasons
  BY <1>2, StateSaid
<1> HIDE DEF z
<1> QED
  BY <1>1, <1>3 DEF Games

SetEvent(g, m, n) == [g EXCEPT !.event[m] = n]

LEMMA EventIs ==
  ASSUME NEW g \in Games, NEW m \in Missions, NEW n \in Delays,
         NEW h, h = SetEvent(g, m, n)
  PROVE  /\ h \in Games /\ h.fleet = g.fleet /\ h.state = g.state /\ h.event[m] = n
         /\ \A q \in Missions : q # m => h.event[q] = g.event[q]
<1> DEFINE e == [g.event EXCEPT ![m] = n]
<1>1. h = [g EXCEPT !.event = e]
  BY DEF SetEvent, Games
<1>2. /\ e \in [Missions -> Delays] /\ e[m] = n
      /\ \A q \in Missions : q # m => e[q] = g.event[q]
  BY DEF Games
<1> HIDE DEF e
<1> QED
  BY <1>1, <1>2 DEF Games

(* pkunk_mission: a fleet arrives.                                         *)
LEMMA PkunkArrives ==
  ASSUME NEW g \in Games, NEW w \in PkunkMission(g), MissionsAssumption,
         ~Gone(g, "pkunk"), g.fleet["pkunk"].days = 0, g.state.pkunk # 0,
         Odd(g.state.pkunk) \/ (g.fleet["pkunk"].loc = "pkunk" /\ g.state.moving)
  PROVE  /\ Else(g, w, "pkunk")
         /\ \/ Gone(w, "pkunk")
            \/ /\ w.fleet = g.fleet /\ ~Odd(g.state.pkunk)
               /\ w.event["pkunk"] > 0 /\ ~w.state.moving
               /\ w.state.pkunk = g.state.pkunk /\ w.state.reasons = g.state.reasons
<1> DEFINE f == g.fleet["pkunk"]
           n == g.state.pkunk
           x == Destroyed(g, {"pkunk"})
           k == (n + 1) % 8
<1>1. g.state \in States /\ n \in 0 .. 7
  BY GameParts, StateParts
<1>2. "pkunk" \in Races
  BY DEF Races
<1>3. CASE Odd(n) \/ f.loc = "yehat"
  <2>1. w = [x EXCEPT !.state.pkunk = (@ + 1) % 8]
    BY <1>3 DEF PkunkMission, Gone
  <2>2. /\ x \in Games /\ x.event = g.event /\ x.state = g.state
        /\ Gone(x, "pkunk") /\ \A r \in Races : r # "pkunk" => x.fleet[r] = g.fleet[r]
    BY <1>2, DestroyedIs
  <2> HIDE DEF x
  <2>3. k \in PkunkStates
    <3> HIDE DEF n
    <3> QED
      BY <1>1 DEF PkunkStates
  <2>4. w = [x EXCEPT !.state = [g.state EXCEPT !.pkunk = k]]
    BY <2>1, <2>2, <1>1 DEF Games, States
  <2> HIDE DEF k
  <2>5. [g.state EXCEPT !.pkunk = k] \in States
    BY <1>1, <2>3 DEF States
  <2>6. /\ w \in Games /\ w.fleet = x.fleet /\ w.event = x.event
        /\ w.state = [g.state EXCEPT !.pkunk = k]
    BY <2>2, <2>4, <2>5 DEF Games
  <2>7. Else(g, w, "pkunk")
    BY <1>1, <2>2, <2>6, SentIs DEF Else, States
  <2> QED
    BY <2>2, <2>6, <2>7 DEF Gone
<1>4. CASE ~(Odd(n) \/ f.loc = "yehat")
  <2>1. PICK days \in Months3 : w = [g EXCEPT !.state.moving = FALSE, !.event["pkunk"] = days]
    BY <1>4 DEF PkunkMission, Gone
  <2>2. days \in 1 .. 366 /\ days \in Delays
    BY DEF MissionsAssumption, Delays
  <2> DEFINE st == [g.state EXCEPT !.moving = FALSE]
             y == [g EXCEPT !.state = st]
  <2>3. w = SetEvent(y, "pkunk", days)
    BY <2>1 DEF SetEvent, Games
  <2>4. /\ st \in States /\ st.moving = FALSE /\ st.pkunk = n
        /\ st.reasons = g.state.reasons /\ st.thradd = g.state.thradd
        /\ st.utwig = g.state.utwig /\ st.fight = g.state.fight
        /\ st.frenzy = g.state.frenzy /\ st.over = g.state.over
        /\ st.said = g.state.said
    BY <1>1, StateMoving
  <2> HIDE DEF st
  <2>5. y \in Games /\ y.fleet = g.fleet /\ y.event = g.event /\ y.state = st
    BY <2>4 DEF Games
  <2> HIDE DEF y
  <2>6. /\ w \in Games /\ w.fleet = g.fleet /\ w.state = st /\ w.event["pkunk"] = days
        /\ \A m \in Missions : m # "pkunk" => w.event[m] = g.event[m]
    <3>1. "pkunk" \in Missions
      BY DEF Missions
    <3> QED
      BY <2>2, <2>3, <2>5, <3>1, EventIs
  <2>8. Else(g, w, "pkunk")
    BY <2>4, <2>6 DEF Else
  <2> QED
    BY <1>4, <2>2, <2>4, <2>6, <2>8
<1> QED
  BY <1>3, <1>4

(* A story that goes on by itself: only the fleets of its mission count.   *)
LEMMA AsideGrown ==
  ASSUME NEW p, NEW g \in Games, Aside(g, p), NEW r \in Races \ Sent(p),
         NEW w \in Grown(g, r)
  PROVE  w = g
BY QuietGrown DEF Aside

-----------------------------------------------------------------------------
(* The Pkunk                                                               *)

LEMMA OddIs == Odd(1) /\ Odd(3) /\ Odd(5) /\ ~Odd(0) /\ ~Odd(2) /\ ~Odd(4)
BY DEF Odd

LEMMA PkunkGrown ==
  ASSUME MissionsAssumption, NEW g \in Games, PkunkPlot(g, 182),
         NEW w \in Grown(g, "pkunk")
  PROVE  Else(g, w, "pkunk") /\ PkunkPlot(w, 181)
<1> DEFINE f == g.fleet["pkunk"]
           n == g.state.pkunk
           s == Stronger(f)
           m == Moved(s)
<1>0. /\ "pkunk" \in Races /\ "pkunk" \in Sent("pkunk") /\ "pkunk" \in Courses
      /\ f \in Fleets /\ "pkunk" # "none"
  BY GameParts, SentIs DEF Races, Courses
<1>r. Else(g, g, "pkunk")
  BY DEF Else
<1>1. CASE PkunkHome(g)
  <2>1. Quiet(g, "pkunk")
    BY <1>1 DEF PkunkHome, Quiet
  <2>2. w = g
    BY <1>0, <2>1, QuietGrown
  <2> QED
    BY <1>1, <1>r, <2>2 DEF PkunkPlot
<1>2. CASE Gone(g, "pkunk") \/ (PkunkBack(g) /\ g.event["pkunk"] > 0)
  <2>1. Idle(f)
    BY <1>2 DEF Idle, Gone, PkunkBack, Stays
  <2>2. w = g
    BY <2>1 DEF Grown
  <2> QED
    BY <1>2, <1>r, <2>2 DEF PkunkPlot
<1>3. CASE PkunkAway(g, 182)
  <2>1. /\ Stays(f, 120, 127) /\ f.days \in 1 .. 182
        /\ "ally" \in g.state.said /\ g.event["pkunk"] = 0 /\ g.state.moving
        /\ f.func = "pkunk"
        /\ \/ n \in {1, 3, 5} /\ f.dest = "yehat" /\ n = 2 * g.state.reasons + 1
           \/ n \in {2, 4} /\ f.dest = "pkunk" /\ n = 2 * g.state.reasons
    BY <1>3 DEF PkunkAway, Bound
  <2>2. /\ s \in Fleets /\ Stays(s, 120, 127) /\ s.days = f.days
        /\ s.func = f.func /\ s.dest = f.dest
    BY <1>0, <2>1, StrongerType, StrongerStays DEF Stays
  <2>3. ~Idle(f)
    BY <2>1 DEF Idle, Stays
  <2> HIDE DEF s
  <2>4. /\ m \in Fleets /\ m.days = s.days - 1 /\ Stays(m, 120, 127)
        /\ m.func = "pkunk" /\ m.dest = s.dest
        /\ s.days = 1 => m.loc = s.dest
    <3>1. s.dest \in Places
      BY <2>1, <2>2 DEF Places, Races
    <3> QED
      BY <2>1, <2>2, <3>1, MovedIs DEF Stays
  <2> HIDE DEF m
  <2>5. \/ s.days # 1 /\ w = Put(g, "pkunk", m)
        \/ s.days = 1 /\ w \in PkunkMission(Put(g, "pkunk", m))
    BY <1>0, <2>1, <2>2, <2>3, GrownIs DEF s, m, Stays, Handle
  <2>6. /\ Put(g, "pkunk", m) \in Games /\ Put(g, "pkunk", m).fleet["pkunk"] = m
        /\ Put(g, "pkunk", m).event = g.event /\ Put(g, "pkunk", m).state = g.state
        /\ Else(g, Put(g, "pkunk", m), "pkunk")
    BY <1>0, <2>4, PutIs, PutElse
  <2>7. CASE s.days # 1 /\ w = Put(g, "pkunk", m)
    <3>1. m.days \in 1 .. 181
      BY <2>1, <2>2, <2>4, <2>7
    <3>2. PkunkAway(w, 181)
      <4>1. w.fleet["pkunk"] = m /\ w.state = g.state /\ w.event = g.event
        BY <2>6, <2>7
      <4>2. Bound(m, f.dest, "pkunk")
        BY <2>2, <2>4 DEF Bound
      <4>3. \/ n \in {1, 3, 5} /\ Bound(m, "yehat", "pkunk") /\ n = 2 * g.state.reasons + 1
            \/ n \in {2, 4} /\ Bound(m, "pkunk", "pkunk") /\ n = 2 * g.state.reasons
        BY <2>1, <4>2
      <4> HIDE DEF f, n
      <4> QED
        BY <2>1, <2>4, <3>1, <4>1, <4>3 DEF PkunkAway, n
    <3> QED
      BY <2>6, <2>7, <3>2 DEF PkunkPlot
  <2>8. CASE s.days = 1 /\ w \in PkunkMission(Put(g, "pkunk", m))
    <3> DEFINE h == Put(g, "pkunk", m)
    <3>1. /\ h \in Games /\ ~Gone(h, "pkunk") /\ h.fleet["pkunk"].days = 0
          /\ h.state.pkunk # 0
          /\ Odd(h.state.pkunk) \/ (h.fleet["pkunk"].loc = "pkunk" /\ h.state.moving)
      BY <2>1, <2>2, <2>4, <2>6, <2>8, OddIs DEF Stays, Gone
    <3>2. w \in PkunkMission(h)
      BY <2>8
    <3> HIDE DEF h
    <3>3. /\ Else(h, w, "pkunk")
          /\ \/ Gone(w, "pkunk")
             \/ /\ w.fleet = h.fleet /\ ~Odd(h.state.pkunk)
                /\ w.event["pkunk"] > 0 /\ ~w.state.moving
                /\ w.state.pkunk = h.state.pkunk /\ w.state.reasons = h.state.reasons
      BY <3>1, <3>2, PkunkArrives
    <3>4. Else(g, w, "pkunk")
      BY <2>6, <3>3, ElseTrans DEF h
    <3>5. CASE Gone(w, "pkunk")
      BY <3>4, <3>5 DEF PkunkPlot
    <3>6. CASE ~Gone(w, "pkunk")
      <4>1. /\ w.fleet["pkunk"] = m /\ w.state.pkunk = n /\ ~Odd(n)
            /\ w.state.reasons = g.state.reasons /\ w.event["pkunk"] > 0
            /\ ~w.state.moving /\ w.state.said = g.state.said
        BY <2>6, <3>3, <3>4, <3>6 DEF h, Else
      <4>2. n \in {2, 4} /\ s.dest = "pkunk" /\ n = 2 * g.state.reasons
        BY <2>1, <2>2, <4>1, OddIs
      <4>3. PkunkBack(w)
        BY <2>1, <2>4, <2>8, <4>1, <4>2 DEF PkunkBack
      <4> QED
        BY <3>4, <4>1, <4>3 DEF PkunkPlot
    <3> QED
      BY <3>5, <3>6
  <2> QED
    BY <2>5, <2>7, <2>8
<1> QED
  BY <1>1, <1>2, <1>3 DEF PkunkPlot

(* The event of a day, if the mission has one                              *)
LEMMA StoryEvent ==
  ASSUME NEW p \in Missions, MissionsInv, Aside(Game, p), p # "kohrah",
         NEW h \in Happened({Game})
  PROVE  /\ event[p] # 1 => h = Begun
         /\ event[p] = 1 => h \in Handle(Begun, p)
<1>1. \A m \in Missions : event[m] = 1 => m = p
  BY DEF Aside, Game
<1> QED
  BY <1>1, HappenedIs

LEMMA BegunAside ==
  ASSUME NEW p, Game \in Games, Aside(Game, p)
  PROVE  Aside(Begun, p)
<1>1. /\ Begun.fleet = Game.fleet /\ Begun.state = Game.state
      /\ \A m \in Missions : Begun.event[m] # 0 => Game.event[m] # 0
  BY BegunIs DEF Game
<1> QED
  BY <1>1 DEF Aside, Quiet

LEMMA PkunkEvent ==
  ASSUME MissionsInv, plot = "pkunk", NEW h \in Happened({Game})
  PROVE  h \in Games /\ Aside(h, "pkunk") /\ PkunkPlot(h, 182)
<1>0. /\ Game \in Games /\ Aside(Game, "pkunk") /\ PkunkPlot(Game, 181)
      /\ "pkunk" \in Missions /\ "pkunk" \in Courses
  BY DEF MissionsInv, OnCourse, Missions, Courses
<1>1. /\ event["pkunk"] # 1 => h = Begun
      /\ event["pkunk"] = 1 => h \in PkunkMission(Begun)
  BY <1>0, StoryEvent DEF Handle
<1>2. /\ Begun \in Games /\ Begun.fleet = fleet /\ Begun.state = state
      /\ Begun.event["pkunk"] = IF event["pkunk"] = 0 THEN 0 ELSE event["pkunk"] - 1
      /\ Aside(Begun, "pkunk")
  BY <1>0, BegunIs, BegunAside
<1>3. /\ Game.fleet = fleet /\ Game.event = event /\ Game.state = state
  BY DEF Game
<1>4. event["pkunk"] \in Delays /\ event["pkunk"] \in 0 .. 366
  BY <1>0, <1>3, GameParts DEF Delays
<1>5. CASE Gone(Game, "pkunk")
  <2>1. Gone(Begun, "pkunk") /\ h = Begun
    BY <1>1, <1>2, <1>3, <1>5 DEF Gone, PkunkMission
  <2> QED
    BY <1>2, <2>1 DEF PkunkPlot
<1>6. CASE event["pkunk"] # 1 /\ ~Gone(Game, "pkunk")
  <2>1. PkunkHome(Game) => PkunkHome(Begun)
    BY <1>2, <1>3 DEF PkunkHome
  <2>2. PkunkAway(Game, 181) => PkunkAway(Begun, 182)
    BY <1>2, <1>3 DEF PkunkAway
  <2>3. /\ PkunkBack(Game) => PkunkBack(Begun)
        /\ Game.event["pkunk"] > 0 => Begun.event["pkunk"] > 0
    BY <1>2, <1>3, <1>4, <1>6 DEF PkunkBack
  <2> QED
    BY <1>0, <1>1, <1>2, <1>6, <2>1, <2>2, <2>3 DEF PkunkPlot
<1>7. CASE event["pkunk"] = 1 /\ ~Gone(Game, "pkunk")
  <2>1. PkunkHome(Game) \/ PkunkBack(Game)
    BY <1>0, <1>3, <1>7 DEF PkunkPlot, PkunkAway
  <2>2. /\ Stays(fleet["pkunk"], 120, 127) /\ fleet["pkunk"].days = 0
        /\ fleet["pkunk"].loc = "pkunk" /\ ~state.moving /\ "ally" \in state.said
        /\ state.pkunk \in {0, 2, 4} /\ state.pkunk = 2 * state.reasons
    <3>1. /\ Home("pkunk").loc = "pkunk" /\ Home("pkunk").days = 0
          /\ Stays(Home("pkunk"), 120, 127)
      BY HomeIs DEF Stays, Strength, Races
    <3> QED
      BY <1>3, <1>7, <2>1, <3>1 DEF PkunkHome, PkunkBack
  <2>3. h \in PkunkMission(Begun)
    BY <1>1, <1>7
  <2>4. ~Odd(state.pkunk)
    BY <2>2, OddIs
  <2>5. ~Gone(Begun, "pkunk")
    BY <1>2, <1>3, <1>7 DEF Gone
  <2>6. /\ Else(Begun, h, "pkunk") /\ h.event = Begun.event
        /\ Bound(h.fleet["pkunk"], "yehat", "pkunk")
        /\ h.fleet["pkunk"].days = 182
        /\ h.state.pkunk = (state.pkunk + 1) % 8 /\ h.state.moving
        /\ h.state.reasons = state.reasons
        /\ Stays(h.fleet["pkunk"], 120, 127)
    BY <1>2, <2>2, <2>3, <2>4, <2>5, PkunkSent
  <2>7. (state.pkunk + 1) % 8 = state.pkunk + 1
    BY <2>2
  <2>8. h.state.said = state.said
    BY <1>2, <2>6 DEF Else
  <2>9. PkunkAway(h, 182)
    <3>1. h.state.pkunk \in {1, 3, 5} /\ h.state.pkunk = 2 * h.state.reasons + 1
      BY <2>2, <2>6, <2>7
    <3> QED
      BY <1>2, <1>7, <2>2, <2>6, <2>8, <3>1 DEF PkunkAway
  <2>10. Aside(h, "pkunk") /\ h \in Games
    BY <1>0, <1>2, <2>6, ElseAside DEF Else
  <2> QED
    BY <2>9, <2>10 DEF PkunkPlot
<1> QED
  BY <1>5, <1>6, <1>7

LEMMA PkunkDay ==
  ASSUME MissionsAssumption, MissionsInv, plot = "pkunk", NEW w \in Passed(Game)
  PROVE  w \in Games /\ Aside(w, "pkunk") /\ OnCourse(w, "pkunk")
<1>1. PICK h0 \in Happened({Game}) :
         \E h1 \in Grown(h0, "pkunk") :
         \E h2 \in Grown(h1, "supox") :
         \E h3 \in Grown(h2, "thradd") :
         \E h4 \in Grown(h3, "utwig") :
         \E h5 \in Grown(h4, "druuge") :
         \E h6 \in Grown(h5, "ilwrath") :
         \E h7 \in Grown(h6, "mycon") : w \in Grown(h7, "kohrah")
  BY AllGrownIs DEF Passed
<1>2. PICK h1 \in Grown(h0, "pkunk") :
         \E h2 \in Grown(h1, "supox") :
         \E h3 \in Grown(h2, "thradd") :
         \E h4 \in Grown(h3, "utwig") :
         \E h5 \in Grown(h4, "druuge") :
         \E h6 \in Grown(h5, "ilwrath") :
         \E h7 \in Grown(h6, "mycon") : w \in Grown(h7, "kohrah")
  BY <1>1
<1>3. h0 \in Games /\ Aside(h0, "pkunk") /\ PkunkPlot(h0, 182)
  BY PkunkEvent
<1>4. Else(h0, h1, "pkunk") /\ PkunkPlot(h1, 181)
  BY <1>2, <1>3, PkunkGrown
<1>5. h1 \in Games /\ Aside(h1, "pkunk")
  BY <1>3, <1>4, ElseAside DEF Else, Courses
<1>6. {"supox", "thradd", "utwig", "druuge", "ilwrath", "mycon", "kohrah"}
        \subseteq Races \ Sent("pkunk")
  BY SentIs DEF Races
<1>7. \A r \in Races \ Sent("pkunk") : \A x \in Grown(h1, r) : x = h1
  BY <1>5, AsideGrown
<1>8. w = h1
  BY <1>2, <1>6, <1>7
<1> QED
  BY <1>4, <1>5, <1>8 DEF OnCourse

(* The game goes on as one of some games.                                  *)
LEMMA GameGoesOn ==
  ASSUME MissionsInv, plot' = plot, NEW games, Becomes(games),
         \A g \in games : g \in Games /\ Aside(g, plot) /\ OnCourse(g, plot)
  PROVE  MissionsInv'
<1>1. PICK g \in games : fleet' = g.fleet /\ event' = g.event /\ state' = g.state
  BY DEF Becomes
<1>2. Game' = g
  <2>1. g \in Games
    OBVIOUS
  <2>2. g = [fleet |-> g.fleet, event |-> g.event, state |-> g.state]
    BY <2>1 DEF Games
  <2> QED
    BY <1>1, <2>2 DEF Game
<1>3. plot \in Plots
  BY DEF MissionsInv
<1> QED
  BY <1>2, <1>3 DEF MissionsInv

(* Something else is said.                                                 *)
LEMMA ToldAside ==
  ASSUME NEW p, NEW g \in Games, Aside(g, p), NEW t \in Phrases, t # "kill" \/ p = "thradd"
  PROVE  Aside(Told(g, t), p)
<1>1. /\ Told(g, t).fleet = g.fleet /\ Told(g, t).event = g.event
      /\ Told(g, t).state.said = g.state.said \cup {t}
      /\ Told(g, t).state.pkunk = g.state.pkunk /\ Told(g, t).state.utwig = g.state.utwig
      /\ Told(g, t).state.over = g.state.over /\ Told(g, t).state.thradd = g.state.thradd
      /\ Told(g, t).state.fight = g.state.fight /\ Told(g, t).state.frenzy = g.state.frenzy
  BY SaidIs
<1> QED
  BY <1>1 DEF Aside, Quiet

LEMMA SaysIs ==
  ASSUME NEW what, NEW games, Says(what, games), MissionsInv,
         \A g \in games : /\ Told(g, what) \in Games /\ Aside(Told(g, what), plot)
                          /\ OnCourse(Told(g, what), plot)
  PROVE  MissionsInv'
<1>1. Becomes({[g EXCEPT !.state.said = @ \cup {what}] : g \in games}) /\ plot' = plot
  BY DEF Says
<1>2. \A g : Told(g, what) = [g EXCEPT !.state.said = @ \cup {what}]
  BY DEF Told
<1>3. {[g EXCEPT !.state.said = @ \cup {what}] : g \in games} = {Told(g, what) : g \in games}
  BY DEF Told
<1>4. Becomes({Told(g, what) : g \in games})
  BY <1>1, <1>3
<1> QED
  BY <1>1, <1>4, GameGoesOn

LEMMA PkunkAllied ==
  ASSUME MissionsAssumption, MissionsInv, AllyPkunk
  PROVE  MissionsInv'
<1>1. /\ plot = "pkunk" /\ ~Gone(Game, "pkunk") /\ "ally" \notin state.said
      /\ Says("ally", {[Game EXCEPT !.event["pkunk"] = days] : days \in Months6})
  BY DEF AllyPkunk, Alive, Gone, Game, Says
<1>2. /\ Game \in Games /\ Aside(Game, "pkunk") /\ PkunkPlot(Game, 181)
      /\ "ally" \in Phrases /\ "pkunk" \in Missions
  BY <1>1 DEF MissionsInv, OnCourse, Phrases, Missions
<1>3. PkunkHome(Game)
  <2>1. Game.state = state
    BY DEF Game
  <2> QED
    BY <1>1, <1>2, <2>1 DEF PkunkPlot, PkunkAway, PkunkBack
<1>4. ASSUME NEW days \in Months6
      PROVE  LET h == Told(SetEvent(Game, "pkunk", days), "ally")
             IN  h \in Games /\ Aside(h, "pkunk") /\ OnCourse(h, "pkunk")
  <2> DEFINE x == SetEvent(Game, "pkunk", days)
             h == Told(x, "ally")
  <2>1. days \in Delays
    BY DEF MissionsAssumption, Delays
  <2>2. /\ x \in Games /\ x.fleet = Game.fleet /\ x.state = Game.state
        /\ \A q \in Missions : q # "pkunk" => x.event[q] = Game.event[q]
    BY <1>2, <2>1, EventIs
  <2>3. Aside(x, "pkunk")
    BY <1>2, <2>2 DEF Aside, Quiet
  <2> HIDE DEF x
  <2>4. h \in Games /\ Aside(h, "pkunk")
    BY <1>2, <2>2, <2>3, ToldAside, SaidIs
  <2>5. /\ h.fleet = x.fleet /\ h.state.said = x.state.said \cup {"ally"}
        /\ h.state.pkunk = x.state.pkunk /\ h.state.reasons = x.state.reasons
        /\ h.state.moving = x.state.moving
    BY <1>2, <2>2, SaidIs
  <2> HIDE DEF h
  <2>6. PkunkHome(h)
    BY <1>3, <2>2, <2>5 DEF PkunkHome
  <2>7. OnCourse(h, "pkunk")
    BY <2>6 DEF OnCourse, PkunkPlot
  <2> QED
    BY <2>4, <2>7 DEF h, x
<1>5. {[Game EXCEPT !.event["pkunk"] = days] : days \in Months6}
        = {SetEvent(Game, "pkunk", days) : days \in Months6}
  BY DEF SetEvent
<1>6. Says("ally", {SetEvent(Game, "pkunk", days) : days \in Months6})
  BY <1>1, <1>5
<1>7. \A g \in {SetEvent(Game, "pkunk", days) : days \in Months6} :
         /\ Told(g, "ally") \in Games /\ Aside(Told(g, "ally"), plot)
         /\ OnCourse(Told(g, "ally"), plot)
  BY <1>1, <1>4
<1> QED
  BY <1>6, <1>7, SaysIs

LEMMA PkunkTurned ==
  ASSUME MissionsAssumption, MissionsInv, TurnPkunk
  PROVE  MissionsInv'
<1>1. /\ plot = "pkunk" /\ plot' = plot /\ ~Gone(Game, "pkunk")
      /\ Odd(Game.state.pkunk) /\ Game.state.reasons < 2
      /\ Becomes({[g EXCEPT !.state.reasons = @ + 1] : g \in PkunkMission(Game)})
  BY DEF TurnPkunk, Alive, Gone, Game
<1>2. Game \in Games /\ Aside(Game, "pkunk") /\ PkunkPlot(Game, 181)
  BY <1>1 DEF MissionsInv, OnCourse
<1>3. /\ PkunkAway(Game, 181) /\ Game.state.pkunk \in {1, 3, 5}
      /\ Bound(Game.fleet["pkunk"], "yehat", "pkunk")
      /\ Game.state.pkunk = 2 * Game.state.reasons + 1
  BY <1>1, <1>2, OddIs DEF PkunkPlot, PkunkHome, PkunkAway, PkunkBack
<1>4. /\ Stays(Game.fleet["pkunk"], 120, 127) /\ Game.fleet["pkunk"].days \in 1 .. 181
      /\ "ally" \in Game.state.said /\ Game.event["pkunk"] = 0
  BY <1>3 DEF PkunkAway
<1>5. ASSUME NEW g \in PkunkMission(Game),
             NEW h, h = [g EXCEPT !.state.reasons = @ + 1]
      PROVE  h \in Games /\ Aside(h, "pkunk") /\ OnCourse(h, "pkunk")
  <2>1. /\ Else(Game, g, "pkunk") /\ g.event = Game.event
        /\ Bound(g.fleet["pkunk"], "pkunk", "pkunk")
        /\ g.fleet["pkunk"].days = 182 - Game.fleet["pkunk"].days
        /\ g.state.pkunk = (Game.state.pkunk + 1) % 8 /\ g.state.moving
        /\ g.state.reasons = Game.state.reasons
        /\ Stays(g.fleet["pkunk"], 120, 127)
    <3>1. Game.fleet["pkunk"].days \in 0 .. 182 /\ Game.fleet["pkunk"].days # 0
      BY <1>4
    <3> QED
      BY <1>1, <1>2, <1>4, <3>1, PkunkSent
  <2>2. /\ g \in Games /\ g.state \in States /\ g.state.said = Game.state.said
        /\ Aside(g, "pkunk")
    BY <1>2, <2>1, ElseAside, GameParts DEF Else, Courses
  <2> DEFINE r == g.state.reasons + 1
             z == [g.state EXCEPT !.reasons = r]
  <2>3. r \in Reasons /\ r = Game.state.reasons + 1
    <3>1. Game.state.reasons \in 0 .. 2
      BY <1>2, GameParts, StateParts
    <3> QED
      BY <1>1, <2>1, <3>1 DEF Reasons
  <2>4. h = [g EXCEPT !.state = z]
    BY <1>5, <2>2 DEF Games, States
  <2> HIDE DEF r
  <2>5. /\ z \in States /\ z.reasons = r /\ z.pkunk = g.state.pkunk
        /\ z.utwig = g.state.utwig /\ z.over = g.state.over
        /\ z.thradd = g.state.thradd /\ z.moving = g.state.moving
        /\ z.fight = g.state.fight /\ z.frenzy = g.state.frenzy
        /\ z.said = g.state.said
    BY <2>2, <2>3, StateReasons
  <2> HIDE DEF z
  <2>6. h \in Games /\ h.fleet = g.fleet /\ h.event = g.event /\ h.state = z
    BY <2>2, <2>4, <2>5 DEF Games
  <2>7. Aside(h, "pkunk")
    BY <2>2, <2>5, <2>6 DEF Aside, Quiet
  <2>8. PkunkAway(h, 181)
    <3>1. h.fleet["pkunk"].days \in 1 .. 181
      <4>1. \A d \in 1 .. 181 : 182 - d \in 1 .. 181
        OBVIOUS
      <4>2. h.fleet["pkunk"].days = 182 - Game.fleet["pkunk"].days
        BY <2>1, <2>6
      <4> QED
        BY <1>4, <4>1, <4>2
    <3>2. h.state.pkunk \in {2, 4} /\ h.state.pkunk = 2 * h.state.reasons
      BY <1>1, <1>2, <1>3, <2>1, <2>3, <2>5, <2>6, GameParts, StateParts
    <3>3. /\ Bound(h.fleet["pkunk"], "pkunk", "pkunk")
          /\ Stays(h.fleet["pkunk"], 120, 127)
      BY <2>1, <2>6
    <3>4. "ally" \in h.state.said /\ h.event["pkunk"] = 0
      BY <1>4, <2>1, <2>2, <2>5, <2>6
    <3>5. h.state.moving
      BY <2>1, <2>5, <2>6
    <3> QED
      BY <3>1, <3>2, <3>3, <3>4, <3>5 DEF PkunkAway
  <2> QED
    BY <2>6, <2>7, <2>8 DEF OnCourse, PkunkPlot
<1>6. \A g \in {[g EXCEPT !.state.reasons = @ + 1] : g \in PkunkMission(Game)} :
         g \in Games /\ Aside(g, plot) /\ OnCourse(g, plot)
  BY <1>1, <1>5
<1> QED
  BY <1>1, <1>6, GameGoesOn

-----------------------------------------------------------------------------
(* The losses of a fleet                                                   *)

LEMMA SteadyIs ==
  ASSUME NEW f \in Fleets, NEW e, e = Steady(f)
  PROVE  /\ e \in Fleets /\ e.loc = f.loc /\ e.dest = f.dest /\ e.days = f.days
         /\ e.func = f.func /\ e.strength = f.strength /\ e.err = f.err
         /\ e.growth = 0 /\ e.fract = 0
<1>1. 0 \in Growths /\ 0 \in Bytes
  BY DEF Growths, Bytes
<1> QED
  BY <1>1 DEF Steady, Fleets

LEMMA LosingIs ==
  ASSUME NEW f \in Fleets, NEW loss, NEW days, NEW a \in Growths, NEW b \in Bytes,
         a = -(loss \div days), b = ((loss % days) * 256) \div days,
         NEW e, e = Losing(f, loss, days)
  PROVE  /\ e \in Fleets /\ e.loc = f.loc /\ e.dest = f.dest /\ e.days = f.days
         /\ e.func = f.func /\ e.strength = f.strength /\ e.err = f.err
         /\ e.growth = a /\ e.fract = b
<1>1. e = [f EXCEPT !.growth = a, !.fract = b]
  BY DEF Losing
<1> QED
  BY <1>1 DEF Fleets

LEMMA ResetIs ==
  ASSUME NEW f \in Fleets, NEW e, e = Reset(f)
  PROVE  /\ e \in Fleets /\ e.loc = f.loc /\ e.dest = f.dest /\ e.days = f.days
         /\ e.func = f.func /\ e.strength = f.strength /\ e.err = 127
         /\ e.growth = f.growth /\ e.fract = f.fract
<1>1. 127 \in Bytes
  BY DEF Bytes
<1> QED
  BY <1>1 DEF Reset, Fleets

-----------------------------------------------------------------------------
(* The Mycon                                                               *)

LEMMA MyconLoses ==
  ASSUME NEW f \in Fleets, Stays(f, 194, 127), NEW e, e = Reset(Losing(f, f.strength \div 2, 14))
  PROVE  /\ e \in Fleets /\ e.loc = f.loc /\ e.dest = f.dest /\ e.days = f.days
         /\ e.func = f.func /\ Fought(e, 194, 6, 237, 0)
<1> DEFINE x == Losing(f, f.strength \div 2, 14)
           a == -((f.strength \div 2) \div 14)
           b == (((f.strength \div 2) % 14) * 256) \div 14
<1>1. f.strength \div 2 = 97
  BY DEF Stays
<1>2. a = -6 /\ b = 237
  <2>1. 97 \div 14 = 6 /\ 97 % 14 = 13 /\ (13 * 256) \div 14 = 237
    OBVIOUS
  <2> QED
    BY <1>1, <2>1
<1>3. a \in Growths /\ b \in Bytes
  BY <1>2 DEF Growths, Bytes
<1>4. /\ x \in Fleets /\ x.loc = f.loc /\ x.dest = f.dest /\ x.days = f.days
      /\ x.func = f.func /\ x.strength = f.strength /\ x.err = f.err
      /\ x.growth = a /\ x.fract = b
  BY <1>3, LosingIs
<1> HIDE DEF x
<1>5. /\ e \in Fleets /\ e.loc = x.loc /\ e.dest = x.dest /\ e.days = x.days
      /\ e.func = x.func /\ e.strength = x.strength /\ e.err = 127
      /\ e.growth = x.growth /\ e.fract = x.fract
  <2>1. e = Reset(x)
    BY DEF x
  <2> QED
    BY <1>4, <2>1, ResetIs
<1>6. Fought(e, 194, 6, 237, 0)
  BY <1>2, <1>4, <1>5 DEF Fought, Stays
<1> QED
  BY <1>4, <1>5, <1>6

(* mycon_mission                                                           *)
LEMMA MyconMissionIs ==
  ASSUME NEW g \in Games, ~Gone(g, "mycon"), NEW w, w = MyconMission(g),
         \/ g.fleet["mycon"].growth # 0 \/ g.fleet["mycon"].loc # "organon"
         \/ Stays(g.fleet["mycon"], 194, 127)
  PROVE  LET f == g.fleet["mycon"]
             e == w.fleet["mycon"]
         IN  /\ Else(g, w, "mycon")
             /\ f.growth # 0 =>
                  /\ Bound(e, "mycon", "none") /\ e.days = 30
                  /\ Stays(e, f.strength, f.err) /\ w.event = g.event
             /\ f.growth = 0 /\ f.loc # "organon" =>
                  /\ Bound(e, "organon", "mycon") /\ e.days = 30 /\ e.loc = f.loc
                  /\ \A s, x : Stays(f, s, x) => Stays(e, s, x)
                  /\ w.event = g.event
             /\ f.growth = 0 /\ f.loc = "organon" =>
                  /\ e.dest = f.dest /\ e.days = f.days /\ Fought(e, 194, 6, 237, 0)
                  /\ w.event["mycon"] = 14
<1> DEFINE f == g.fleet["mycon"]
<1>0. /\ "mycon" \in Races /\ "mycon" \in Sent("mycon") /\ "mycon" \in Courses
      /\ f \in Fleets /\ f.strength # 0 /\ "mycon" \in Missions
      /\ "mycon" \in Places /\ "organon" \in Places
      /\ "mycon" \in Funcs /\ "none" \in Funcs /\ 30 \in Bytes /\ 14 \in Delays
  BY GameParts, SentIs DEF Races, Courses, Gone, Missions, Places, Funcs, Bytes, Delays
<1>1. CASE f.growth # 0
  <2> DEFINE e == Steady(f)
             x == Put(g, "mycon", e)
  <2>1. w = SetRaceDest(x, "mycon", "mycon", 30, "none")
    BY <1>0, <1>1 DEF MyconMission, Put
  <2>2. e \in Fleets /\ Stays(e, f.strength, f.err)
    BY <1>0, SteadyIs DEF Stays
  <2> HIDE DEF e
  <2>3. /\ x \in Games /\ x.fleet["mycon"] = e /\ x.event = g.event /\ x.state = g.state
        /\ Else(g, x, "mycon")
    BY <1>0, <2>2, PutIs, PutElse
  <2> HIDE DEF x
  <2>4. /\ w \in Games /\ w.event = x.event /\ w.state = x.state
        /\ \A q \in Races : q # "mycon" => w.fleet[q] = x.fleet[q]
        /\ Bound(w.fleet["mycon"], "mycon", "none") /\ w.fleet["mycon"].days = 30
        /\ Stays(w.fleet["mycon"], f.strength, f.err)
    BY <1>0, <2>1, <2>2, <2>3, SetRaceDestIs DEF Bound, Stays
  <2>5. Else(x, w, "mycon")
    BY <2>4, SentIs DEF Else
  <2>6. Else(g, w, "mycon")
    BY <2>3, <2>5, ElseTrans
  <2> QED
    BY <1>1, <2>3, <2>4, <2>6
<1>2. CASE f.growth = 0 /\ f.loc # "organon"
  <2>1. w = SetRaceDest(g, "mycon", "organon", 30, "mycon")
    BY <1>0, <1>2 DEF MyconMission
  <2>2. /\ w \in Games /\ w.event = g.event /\ w.state = g.state
        /\ \A q \in Races : q # "mycon" => w.fleet[q] = g.fleet[q]
        /\ Bound(w.fleet["mycon"], "organon", "mycon") /\ w.fleet["mycon"].days = 30
        /\ w.fleet["mycon"].loc = f.loc
        /\ \A s, x : Stays(f, s, x) => Stays(w.fleet["mycon"], s, x)
    BY <1>0, <2>1, SetRaceDestIs DEF Bound, Stays
  <2>3. Else(g, w, "mycon")
    BY <2>2, SentIs DEF Else
  <2> QED
    BY <1>2, <2>2, <2>3
<1>3. CASE f.growth = 0 /\ f.loc = "organon"
  <2> DEFINE e == Reset(Losing(f, f.strength \div 2, 14))
             x == SetEvent(g, "mycon", 14)
  <2>1. w = Put(x, "mycon", e)
    BY <1>0, <1>3 DEF MyconMission, Put, SetEvent
  <2>2. /\ x \in Games /\ x.fleet = g.fleet /\ x.state = g.state /\ x.event["mycon"] = 14
        /\ \A q \in Missions : q # "mycon" => x.event[q] = g.event[q]
    BY <1>0, EventIs
  <2>3. Else(g, x, "mycon")
    BY <2>2 DEF Else
  <2> HIDE DEF x
  <2>4. /\ e \in Fleets /\ e.dest = f.dest /\ e.days = f.days
        /\ Fought(e, 194, 6, 237, 0)
    BY <1>0, <1>3, MyconLoses
  <2> HIDE DEF e
  <2>5. /\ w \in Games /\ w.fleet["mycon"] = e /\ w.event = x.event
        /\ Else(x, w, "mycon")
    BY <1>0, <2>1, <2>2, <2>4, PutIs, PutElse
  <2>6. Else(g, w, "mycon")
    BY <2>3, <2>5, ElseTrans
  <2> QED
    BY <1>3, <2>2, <2>4, <2>5, <2>6
<1> QED
  BY <1>1, <1>2, <1>3

LEMMA MyconGrown ==
  ASSUME NEW g \in Games, MyconPlot(g, 1), NEW w \in Grown(g, "mycon")
  PROVE  Else(g, w, "mycon") /\ MyconPlot(w, 0)
<1> DEFINE f == g.fleet["mycon"]
           s == Stronger(f)
           m == Moved(s)
<1>0. /\ "mycon" \in Races /\ "mycon" \in Sent("mycon") /\ "mycon" \in Courses
      /\ f \in Fleets /\ "mycon" # "none"
  BY GameParts, SentIs DEF Races, Courses
<1>r. Else(g, g, "mycon")
  BY DEF Else
<1>1. CASE MyconHome(g)
  <2>1. Quiet(g, "mycon")
    BY <1>1 DEF MyconHome, Quiet
  <2>2. w = g
    BY <1>0, <2>1, QuietGrown
  <2> QED
    BY <1>1, <1>r, <2>2 DEF MyconPlot
<1>2. CASE Gone(g, "mycon")
  <2>1. Idle(f)
    BY <1>2 DEF Idle, Gone
  <2>2. w = g
    BY <2>1 DEF Grown
  <2> QED
    BY <1>2, <1>r, <2>2 DEF MyconPlot
<1>3. CASE MyconBack(g) /\ f.days = 0
  <2>1. Idle(f)
    BY <1>3 DEF Idle, MyconBack, Stays
  <2>2. w = g
    BY <2>1 DEF Grown
  <2> QED
    BY <1>3, <1>r, <2>2 DEF MyconPlot
<1>4. CASE MyconBack(g) /\ f.days # 0
  <2>1. /\ f.dest = "mycon" /\ f.func = "none" /\ f.days \in 1 .. 30
        /\ Stays(f, 104, 118) /\ g.event["mycon"] = 0 /\ "implant" \in g.state.said
    BY <1>4 DEF MyconBack, Bound
  <2>2. /\ s \in Fleets /\ Stays(s, 104, 118) /\ s.days = f.days
        /\ s.func = f.func /\ s.dest = f.dest
    BY <1>0, <2>1, StrongerType, StrongerStays DEF Stays
  <2>3. ~Idle(f)
    BY <2>1 DEF Idle, Stays
  <2> HIDE DEF s
  <2>4. /\ m \in Fleets /\ m.days = s.days - 1 /\ Stays(m, 104, 118)
        /\ Bound(m, "mycon", "none")
    <3>1. s.dest \in Places
      BY <2>1, <2>2 DEF Places, Races
    <3> QED
      BY <2>1, <2>2, <3>1, MovedIs DEF Stays, Bound
  <2> HIDE DEF m
  <2>5. w = Put(g, "mycon", m)
    BY <1>0, <2>1, <2>2, <2>3, GrownIs DEF s, m, Stays
  <2>6. /\ w.fleet["mycon"] = m /\ w.event = g.event /\ w.state = g.state
        /\ Else(g, w, "mycon")
    BY <1>0, <2>4, <2>5, PutIs, PutElse
  <2>7. m.days \in 0 .. 30
    BY <2>1, <2>2, <2>4
  <2>8. MyconBack(w)
    BY <2>1, <2>4, <2>6, <2>7 DEF MyconBack
  <2> QED
    BY <2>6, <2>8 DEF MyconPlot
<1>5. CASE MyconFight(g, 1)
  <2> DEFINE e == g.event["mycon"]
  <2>1. /\ f.dest = "organon" /\ f.days = 0 /\ e \in 1 .. 13
        /\ "implant" \in g.state.said /\ Fought(f, 194, 6, 237, 14 - e - 1)
    BY <1>5 DEF MyconFight
  <2>2. f.strength \in 0 .. 484 /\ f.err \in 0 .. 255
    BY <1>0, FleetParts
  <2> HIDE DEF e
  <2>3. /\ f.growth = -6 /\ f.fract = 237
        /\ 256 * f.strength + f.err = 49791 - 1773 * (13 - e)
    BY <2>1 DEF Fought
  <2>4. f.err # 0 /\ f.err # 237 /\ f.strength - 6 > 1
    <3> DEFINE x == f.strength
               y == f.err
               k == 13 - e
    <3>1. k \in 0 .. 12 /\ x \in 0 .. 484 /\ y \in 0 .. 255
      BY <2>1, <2>2
    <3>2. 256 * x + y = 49791 - 1773 * k
      BY <2>3
    <3> HIDE DEF x, y, k
    <3>3. y # 0 /\ y # 237 /\ x - 6 > 1
      BY <3>1, <3>2
    <3> QED
      BY <3>3 DEF x, y
  <2>5. /\ s \in Fleets /\ s.days = 0 /\ s.dest = "organon" /\ s.growth = -6
        /\ s.fract = 237
        /\ 256 * s.strength + s.err = 256 * f.strength + f.err + 256 * (-6) - 237
    <3>1. f.strength + f.growth > 1
      BY <2>2, <2>3, <2>4
    <3> QED
      BY <1>0, <2>1, <2>3, <2>4, <3>1, StrongerType, StrongerFought
  <2>6. ~Idle(f)
    BY <2>2, <2>3, <2>4 DEF Idle
  <2>7. s \in Fleets /\ w = Put(g, "mycon", s)
    BY <1>0, <2>5, <2>6, GrownIs
  <2> HIDE DEF s
  <2>8. /\ w.fleet["mycon"] = s /\ w.event = g.event /\ w.state = g.state
        /\ Else(g, w, "mycon")
    BY <1>0, <2>7, PutIs, PutElse
  <2>9. Fought(s, 194, 6, 237, 14 - e - 0)
    <3>1. 256 * s.strength + s.err = 49791 - 1773 * (14 - e)
      BY <2>1, <2>3, <2>5, FleetParts
    <3> QED
      BY <2>1, <2>5, <3>1 DEF Fought
  <2>10. MyconFight(w, 0)
    BY <2>1, <2>5, <2>8, <2>9 DEF MyconFight, e
  <2> QED
    BY <2>8, <2>10 DEF MyconPlot
<1>6. CASE MyconAway(g)
  <2>1. /\ f.dest = "organon" /\ f.func = "mycon" /\ f.days \in 1 .. 30
        /\ f.loc # "organon" /\ Stays(f, 194, 127) /\ g.event["mycon"] = 0
        /\ "implant" \in g.state.said
    BY <1>6 DEF MyconAway, Bound
  <2>2. /\ s \in Fleets /\ Stays(s, 194, 127) /\ s.days = f.days
        /\ s.func = f.func /\ s.dest = f.dest /\ s.loc = f.loc
    BY <1>0, <2>1, StrongerType, StrongerStays DEF Stays
  <2>3. ~Idle(f)
    BY <2>1 DEF Idle, Stays
  <2> HIDE DEF s
  <2>4. /\ m \in Fleets /\ m.days = s.days - 1 /\ Stays(m, 194, 127)
        /\ Bound(m, "organon", "mycon")
        /\ s.days = 1 => m.loc = "organon"
        /\ s.days # 1 => m.loc # "organon"
    <3>1. s.dest \in Places
      BY <2>1, <2>2 DEF Places
    <3> QED
      BY <2>1, <2>2, <3>1, MovedIs DEF Stays, Bound
  <2> HIDE DEF m
  <2> DEFINE h == Put(g, "mycon", m)
  <2>5. \/ s.days # 1 /\ w = h
        \/ s.days = 1 /\ w = MyconMission(h)
    BY <1>0, <2>1, <2>2, <2>3, GrownIs DEF s, m, Stays, Handle
  <2>6. /\ h \in Games /\ h.fleet["mycon"] = m /\ h.event = g.event
        /\ h.state = g.state /\ Else(g, h, "mycon")
    BY <1>0, <2>4, PutIs, PutElse
  <2> HIDE DEF h
  <2>7. CASE s.days # 1 /\ w = h
    <3>1. m.days \in 1 .. 30
      BY <2>1, <2>2, <2>4, <2>7
    <3>2. MyconAway(w)
      BY <2>1, <2>4, <2>6, <2>7, <3>1 DEF MyconAway
    <3> QED
      BY <2>6, <2>7, <3>2 DEF MyconPlot
  <2>8. CASE s.days = 1 /\ w = MyconMission(h)
    <3>1. ~Gone(h, "mycon") /\ Stays(h.fleet["mycon"], 194, 127)
      BY <2>4, <2>6 DEF Gone, Stays
    <3>2. h.fleet["mycon"].growth = 0 /\ h.fleet["mycon"].loc = "organon"
      BY <2>4, <2>6, <2>8 DEF Stays
    <3>3. /\ Else(h, w, "mycon")
          /\ w.fleet["mycon"].dest = m.dest /\ w.fleet["mycon"].days = m.days
          /\ Fought(w.fleet["mycon"], 194, 6, 237, 0) /\ w.event["mycon"] = 14
      BY <2>6, <2>8, <3>1, <3>2, MyconMissionIs
    <3>4. Else(g, w, "mycon") /\ w.state.said = g.state.said
      BY <2>6, <3>3, ElseTrans DEF Else
    <3>5. Fought(w.fleet["mycon"], 194, 6, 237, 14 - w.event["mycon"] - 0)
      BY <3>3 DEF Fought
    <3>6. w.event["mycon"] \in 1 .. 14 - 0
      BY <3>3
    <3>7. w.fleet["mycon"].days = 0
      <4>1. m.days = 0
        BY <2>4, <2>8
      <4> QED
        BY <3>3, <4>1
    <3>8. MyconFight(w, 0)
      BY <2>1, <2>4, <3>3, <3>4, <3>5, <3>6, <3>7 DEF MyconFight, Bound
    <3> QED
      BY <3>4, <3>8 DEF MyconPlot
  <2> QED
    BY <2>5, <2>7, <2>8
<1> QED
  BY <1>1, <1>2, <1>3, <1>4, <1>5, <1>6 DEF MyconPlot

(* A day of the fight passes, or it ends.                                  *)
LEMMA MyconLater ==
  ASSUME NEW g \in Games, MyconPlot(g, 0), NEW h \in Games,
         h.fleet["mycon"] = g.fleet["mycon"], h.state.said = g.state.said,
         h.event["mycon"] = (IF g.event["mycon"] = 0 THEN 0 ELSE g.event["mycon"] - 1)
  PROVE  /\ g.event["mycon"] # 1 => MyconPlot(h, 1)
         /\ g.event["mycon"] = 1 =>
              MyconPlot(MyconMission(h), 1) /\ Else(h, MyconMission(h), "mycon")
<1> DEFINE f == g.fleet["mycon"]
           e == g.event["mycon"]
<1>0. f \in Fleets /\ f.strength \in 0 .. 484 /\ f.err \in 0 .. 255
  <2>1. "mycon" \in Races
    BY DEF Races
  <2> QED
    BY <2>1, GameParts, FleetParts
<1>1. CASE Gone(g, "mycon")
  <2>1. Gone(h, "mycon")
    BY <1>1 DEF Gone
  <2>2. MyconMission(h) = h
    BY <2>1 DEF MyconMission, Gone
  <2>3. Else(h, h, "mycon")
    BY DEF Else
  <2> QED
    BY <2>1, <2>2, <2>3 DEF MyconPlot
<1>2. CASE ~Gone(g, "mycon") /\ e = 0
  <2>1. MyconHome(g) \/ MyconAway(g) \/ MyconBack(g)
    BY <1>2 DEF MyconPlot, MyconFight
  <2>2. MyconHome(h) \/ MyconAway(h) \/ MyconBack(h)
    BY <1>2, <2>1 DEF MyconHome, MyconAway, MyconBack
  <2> QED
    BY <1>2, <2>2 DEF MyconPlot
<1>3. CASE ~Gone(g, "mycon") /\ e # 0
  <2>1. MyconFight(g, 0)
    BY <1>3 DEF MyconPlot, MyconHome, MyconAway, MyconBack
  <2>2. /\ f.dest = "organon" /\ f.days = 0 /\ e \in 1 .. 14
        /\ "implant" \in g.state.said /\ Fought(f, 194, 6, 237, 14 - e - 0)
    BY <2>1 DEF MyconFight
  <2> HIDE DEF f, e
  <2>3. CASE e # 1
    <3>1. h.event["mycon"] = e - 1 /\ e - 1 \in 1 .. 14 - 1
      BY <1>3, <2>2, <2>3 DEF e
    <3>2. 14 - (e - 1) - 1 = 14 - e - 0
      BY <2>2
    <3>3. h.fleet["mycon"] = f
      BY DEF f
    <3>4. MyconFight(h, 1)
      BY <2>2, <3>1, <3>2, <3>3 DEF MyconFight
    <3> QED
      BY <2>3, <3>4 DEF MyconPlot, e
  <2>4. CASE e = 1
    <3> DEFINE w == MyconMission(h)
    <3>1. /\ f.growth = -6 /\ f.fract = 237
          /\ 256 * f.strength + f.err = 26742
      BY <2>2, <2>4 DEF Fought
    <3>2. f.strength = 104 /\ f.err = 118
      <4> DEFINE x == f.strength
                 y == f.err
      <4>1. x \in 0 .. 484 /\ y \in 0 .. 255 /\ 256 * x + y = 26742
        BY <1>0, <3>1 DEF f
      <4> HIDE DEF x, y
      <4>2. x = 104 /\ y = 118
        BY <4>1
      <4> QED
        BY <4>2 DEF x, y
    <3>3. h.fleet["mycon"] = f /\ ~Gone(h, "mycon") /\ f.growth # 0
      BY <1>3, <3>1 DEF Gone, f
    <3>4. /\ Else(h, w, "mycon") /\ Bound(w.fleet["mycon"], "mycon", "none")
          /\ w.fleet["mycon"].days = 30 /\ Stays(w.fleet["mycon"], 104, 118)
          /\ w.event = h.event
      BY <3>2, <3>3, MyconMissionIs
    <3> HIDE DEF w
    <3>5. w.event["mycon"] = 0 /\ "implant" \in w.state.said
      BY <2>2, <2>4, <3>4 DEF Else, e
    <3>6. MyconBack(w)
      BY <3>4, <3>5 DEF MyconBack
    <3> QED
      BY <2>4, <3>4, <3>6 DEF MyconPlot, w, e
  <2> QED
    BY <2>3, <2>4
<1> QED
  BY <1>1, <1>2, <1>3

LEMMA MyconDay ==
  ASSUME MissionsInv, plot = "mycon", NEW w \in Passed(Game)
  PROVE  w \in Games /\ Aside(w, "mycon") /\ OnCourse(w, "mycon")
<1>0. /\ Game \in Games /\ Aside(Game, "mycon") /\ MyconPlot(Game, 0)
      /\ "mycon" \in Missions /\ "mycon" \in Courses
      /\ Game.fleet = fleet /\ Game.event = event /\ Game.state = state
  BY DEF MissionsInv, OnCourse, Missions, Courses, Game
<1>1. PICK h \in Happened({Game}) :
         \E h1 \in Grown(h, "pkunk") :
         \E h2 \in Grown(h1, "supox") :
         \E h3 \in Grown(h2, "thradd") :
         \E h4 \in Grown(h3, "utwig") :
         \E h5 \in Grown(h4, "druuge") :
         \E h6 \in Grown(h5, "ilwrath") :
         \E h7 \in Grown(h6, "mycon") : w \in Grown(h7, "kohrah")
  BY AllGrownIs DEF Passed
<1>2. /\ event["mycon"] # 1 => h = Begun
      /\ event["mycon"] = 1 => h = MyconMission(Begun)
  BY <1>0, StoryEvent DEF Handle
<1>3. /\ Begun \in Games /\ Begun.fleet = fleet /\ Begun.state = state
      /\ Begun.event["mycon"] = (IF event["mycon"] = 0 THEN 0 ELSE event["mycon"] - 1)
      /\ Aside(Begun, "mycon")
  BY <1>0, BegunIs, BegunAside
<1>4. h \in Games /\ Aside(h, "mycon") /\ MyconPlot(h, 1)
  <2>1. /\ event["mycon"] # 1 => MyconPlot(Begun, 1)
        /\ event["mycon"] = 1 =>
             MyconPlot(MyconMission(Begun), 1) /\ Else(Begun, MyconMission(Begun), "mycon")
    BY <1>0, <1>3, MyconLater
  <2> QED
    BY <1>0, <1>2, <1>3, <2>1, ElseAside DEF Else
<1>5. {"pkunk", "supox", "thradd", "utwig", "druuge", "ilwrath", "kohrah"}
        \subseteq Races \ Sent("mycon")
  BY SentIs DEF Races
<1>6. \A r \in Races \ Sent("mycon") : \A x \in Grown(h, r) : x = h
  BY <1>4, AsideGrown
<1>7. PICK h7 \in Grown(h, "mycon") : w \in Grown(h7, "kohrah")
  BY <1>1, <1>5, <1>6
<1>8. Else(h, h7, "mycon") /\ MyconPlot(h7, 0)
  BY <1>4, MyconGrown
<1>9. h7 \in Games /\ Aside(h7, "mycon")
  BY <1>0, <1>4, <1>8, ElseAside DEF Else
<1>10. w = h7
  BY <1>5, <1>7, <1>9, AsideGrown
<1> QED
  BY <1>8, <1>9, <1>10 DEF OnCourse

(* The conversation sends them to Organon.                                 *)
LEMMA MyconTold ==
  ASSUME NEW g \in Games, MyconPlot(g, 0), ~Gone(g, "mycon"), "implant" \notin g.state.said
  PROVE  LET w == MyconMission(g)
             h == Told(w, "implant")
         IN  Else(g, w, "mycon") /\ h \in Games /\ h.event = g.event /\ MyconPlot(h, 0)
<1> DEFINE w == MyconMission(g)
           h == Told(w, "implant")
<1>1. g.fleet["mycon"] = Home("mycon") /\ g.event["mycon"] = 0
  BY DEF MyconPlot, MyconHome, MyconAway, MyconFight, MyconBack
<1>2. /\ Home("mycon").loc = "mycon" /\ Home("mycon").growth = 0
      /\ Stays(Home("mycon"), 194, 127)
  BY HomeIs DEF Races, Stays, Strength
<1>3. /\ Else(g, w, "mycon") /\ w.event = g.event
      /\ Bound(w.fleet["mycon"], "organon", "mycon") /\ w.fleet["mycon"].days = 30
      /\ w.fleet["mycon"].loc = "mycon" /\ Stays(w.fleet["mycon"], 194, 127)
  BY <1>1, <1>2, MyconMissionIs
<1>4. w \in Games /\ "implant" \in Phrases
  BY <1>3 DEF Else, Phrases
<1> HIDE DEF w
<1>5. /\ h \in Games /\ h.fleet = w.fleet /\ h.event = w.event
      /\ "implant" \in h.state.said
  BY <1>4, SaidIs
<1> HIDE DEF h
<1>6. MyconAway(h)
  BY <1>1, <1>3, <1>5 DEF MyconAway
<1> QED
  BY <1>3, <1>5, <1>6 DEF MyconPlot, w, h

-----------------------------------------------------------------------------
(* The Kohr-Ah                                                             *)

(* The fleets of others stay as they are, or are destroyed.                *)
Spared(g, w) ==
  \A r \in Races \ {"kohrah"} :
     w.fleet[r] = g.fleet[r] \/ w.fleet[r] = [g.fleet[r] EXCEPT !.strength = 0]

(* black_urquan_genocide                                                   *)
LEMMA GenocideIs ==
  ASSUME MissionsAssumption, NEW g \in Games, NEW w \in Genocide(g)
  PROVE  LET f == g.fleet["kohrah"]
             e == w.fleet["kohrah"]
         IN  /\ w \in Games /\ w.event = g.event /\ Spared(g, w)
             /\ w.state.pkunk = g.state.pkunk /\ w.state.thradd = g.state.thradd
             /\ w.state.utwig = g.state.utwig /\ w.state.fight = g.state.fight
             /\ w.state.said = g.state.said
             /\ \A s, x : Stays(f, s, x) => Stays(e, s, x)
             /\ \/ /\ f.loc = "sol" /\ e = f /\ w.state.over
                   /\ w.state.frenzy = g.state.frenzy
                \/ e.func = "kohrah" /\ e.dest # "none" /\ e.days > 0 /\ w.state.frenzy
<1> DEFINE here == g.fleet["kohrah"].loc
           victims == Victims(g, here)
           nearest == IF "druuge" \in victims THEN {"druuge"} ELSE victims
           seen == IF "druuge" \in victims
                   THEN Prey \cap {"pkunk", "supox", "thradd", "utwig"} ELSE Prey
           dead == {r \in seen : g.fleet[r].loc = here}
           h == Destroyed(g, dead)
           spot(r) == IF g.fleet[r].loc = "away" THEN "nowhere" ELSE g.fleet[r].loc
           dests == IF victims = {} THEN {"sol"} ELSE {spot(r) : r \in nearest}
           f == g.fleet["kohrah"]
           e == w.fleet["kohrah"]
<1> DEFINE Ends == {[h EXCEPT !.state.over = TRUE]}
           Goes == {[SetRaceDest(h, "kohrah", dest, days, "kohrah") EXCEPT !.state.frenzy = TRUE] :
                      dest \in dests, days \in Marches}
<1>0. Genocide(g) = IF victims = {} /\ here = "sol" THEN Ends ELSE Goes
  BY DEF Genocide
<1> HIDE DEF Ends, Goes, victims
<1>1. w \in IF victims = {} /\ here = "sol" THEN Ends ELSE Goes
  BY <1>0
<1>2. victims \subseteq Prey /\ seen \subseteq Prey /\ nearest \subseteq Prey
  BY DEF Victims, victims
<1>3. /\ dead \subseteq Prey /\ "kohrah" \notin Prey /\ "kohrah" \in Races
      /\ Prey \subseteq Races
  BY <1>2 DEF MissionsAssumption, Races
<1>4. /\ h \in Games /\ h.event = g.event /\ h.state = g.state
      /\ Spared(g, h) /\ h.fleet["kohrah"] = f
  BY <1>3, DestroyedIs DEF Spared
<1>5. dests \subseteq Places
  <2>1. \A r \in Prey : g.fleet[r].loc \in Places
    BY <1>3, GameParts, FleetParts
  <2>2. "nowhere" \in Places /\ "sol" \in Places
    BY DEF Places
  <2> HIDE DEF victims
  <2> QED
    BY <1>2, <2>1, <2>2
<1>6. g.state \in States
  BY GameParts
<1> HIDE DEF h, dests
<1>7. CASE victims = {} /\ here = "sol"
  <2> DEFINE yes == TRUE
             z == [g.state EXCEPT !.over = yes]
  <2>1. w = [h EXCEPT !.state = z]
    BY <1>1, <1>4, <1>7 DEF Games, States, Ends
  <2>y. yes \in BOOLEAN
    OBVIOUS
  <2> HIDE DEF yes
  <2>2. /\ z \in States /\ z.over = yes /\ z.pkunk = g.state.pkunk
        /\ z.utwig = g.state.utwig /\ z.frenzy = g.state.frenzy
        /\ z.thradd = g.state.thradd /\ z.fight = g.state.fight /\ z.said = g.state.said
    BY <1>6, <2>y, StateOver
  <2> HIDE DEF z
  <2>3. w \in Games /\ w.fleet = h.fleet /\ w.event = h.event /\ w.state = z
    BY <1>4, <2>1, <2>2 DEF Games
  <2>4. w.state.over
    BY <2>2, <2>3 DEF yes
  <2>5. Spared(g, w) /\ e = f
    BY <1>4, <2>3 DEF Spared
  <2> QED
    BY <1>4, <1>7, <2>2, <2>3, <2>4, <2>5
<1>8. CASE ~(victims = {} /\ here = "sol")
  <2>1. PICK dest \in dests, days \in Marches :
          w = [SetRaceDest(h, "kohrah", dest, days, "kohrah") EXCEPT !.state.frenzy = TRUE]
    BY <1>1, <1>8 DEF Goes
  <2>2. dest \in Places /\ days \in Bytes /\ days \in 1 .. 255 /\ "kohrah" \in Funcs
    BY <1>5 DEF MissionsAssumption, Bytes, Funcs, Missions
  <2> DEFINE x == SetRaceDest(h, "kohrah", dest, days, "kohrah")
             yes == TRUE
             z == [g.state EXCEPT !.frenzy = yes]
  <2>3. /\ x \in Games /\ x.event = g.event /\ x.state = g.state
        /\ \A q \in Races : q # "kohrah" => x.fleet[q] = h.fleet[q]
        /\ x.fleet["kohrah"].days = days /\ x.fleet["kohrah"].func = "kohrah"
        /\ x.fleet["kohrah"].dest = dest
        /\ \A s, y : Stays(f, s, y) => Stays(x.fleet["kohrah"], s, y)
    <3>1. h \in Games /\ "kohrah" \in Races
      BY <1>3, <1>4
    <3>2. /\ x \in Games /\ x.event = h.event /\ x.state = h.state
          /\ \A q \in Races : q # "kohrah" => x.fleet[q] = h.fleet[q]
          /\ x.fleet["kohrah"].days = days /\ x.fleet["kohrah"].func = "kohrah"
          /\ x.fleet["kohrah"].dest = dest
          /\ x.fleet["kohrah"].strength = h.fleet["kohrah"].strength
          /\ x.fleet["kohrah"].growth = h.fleet["kohrah"].growth
          /\ x.fleet["kohrah"].fract = h.fleet["kohrah"].fract
          /\ x.fleet["kohrah"].err = h.fleet["kohrah"].err
      BY <2>2, <3>1, SetRaceDestIs
    <3> HIDE DEF x
    <3>3. h.fleet["kohrah"] = f /\ h.event = g.event /\ h.state = g.state
      BY <1>3, <1>4
    <3> HIDE DEF f, h
    <3>4. \A s, y : Stays(f, s, y) => Stays(x.fleet["kohrah"], s, y)
      BY <3>2, <3>3 DEF Stays
    <3> QED
      BY <3>2, <3>3, <3>4
  <2>4. w = [x EXCEPT !.state.frenzy = TRUE]
    BY <2>1
  <2> HIDE DEF x
  <2>5. w = [x EXCEPT !.state = z]
    BY <2>3, <2>4 DEF Games, States
  <2>y. yes \in BOOLEAN
    OBVIOUS
  <2> HIDE DEF yes
  <2>6. /\ z \in States /\ z.frenzy = yes /\ z.pkunk = g.state.pkunk
        /\ z.utwig = g.state.utwig /\ z.over = g.state.over
        /\ z.thradd = g.state.thradd /\ z.fight = g.state.fight /\ z.said = g.state.said
    BY <1>6, <2>y, StateFrenzy
  <2> HIDE DEF z
  <2>7. w \in Games /\ w.fleet = x.fleet /\ w.event = x.event /\ w.state = z
    BY <2>3, <2>5, <2>6 DEF Games
  <2>8. w.state.frenzy
    BY <2>6, <2>7 DEF yes
  <2>9. Spared(g, w)
    BY <1>4, <2>3, <2>7 DEF Spared
  <2>10. "none" \notin Places
    BY DEF Places, Races
  <2>11. e.func = "kohrah" /\ e.dest # "none" /\ e.days > 0
    BY <2>2, <2>3, <2>7, <2>10
  <2> QED
    BY <2>3, <2>6, <2>7, <2>8, <2>9, <2>11
<1> QED
  BY <1>7, <1>8

(* What the Kohr-Ah do to the others, and what the Mycon do beside them    *)
LEMMA SparedAside ==
  ASSUME MissionsAssumption, NEW g \in Games, Aside(g, "kohrah"), NEW w \in Games,
         Spared(g, w), w.event = g.event,
         w.state.pkunk = g.state.pkunk, w.state.thradd = g.state.thradd,
         w.state.utwig = g.state.utwig, w.state.fight = g.state.fight,
         w.state.said = g.state.said
  PROVE  Aside(w, "kohrah")
<1>1. ASSUME NEW r \in Races \ Sent("kohrah")
      PROVE  Quiet(w, r)
  <2>1. Quiet(g, r) /\ r # "kohrah"
    BY SentIs DEF Aside
  <2>2. w.fleet[r] = g.fleet[r] \/ w.fleet[r] = [g.fleet[r] EXCEPT !.strength = 0]
    BY <2>1 DEF Spared
  <2>3. [Home(r) EXCEPT !.strength = 0] = [[Home(r) EXCEPT !.strength = 0] EXCEPT !.strength = 0]
    BY DEF Home
  <2> QED
    BY <2>1, <2>2, <2>3 DEF Quiet
<1> QED
  BY <1>1 DEF Aside

LEMMA SparedMycon ==
  ASSUME NEW g \in Games, NEW j, MyconPlot(g, j), NEW w \in Games, Spared(g, w),
         w.event = g.event, w.state.said = g.state.said
  PROVE  MyconPlot(w, j)
<1>0. "mycon" \in Races \ {"kohrah"} /\ g.fleet["mycon"] \in Fleets
  BY GameParts DEF Races
<1>1. CASE w.fleet["mycon"] = g.fleet["mycon"]
  BY <1>1 DEF MyconPlot, MyconHome, MyconAway, MyconFight, MyconBack, Gone
<1>2. CASE w.fleet["mycon"] = [g.fleet["mycon"] EXCEPT !.strength = 0]
  <2>1. Gone(w, "mycon")
    BY <1>0, <1>2 DEF Gone, Fleets
  <2> QED
    BY <2>1 DEF MyconPlot
<1> QED
  BY <1>0, <1>1, <1>2 DEF Spared

LEMMA ElseKohrah ==
  ASSUME NEW g, NEW h, Aside(g, "kohrah"), Else(g, h, "mycon")
  PROVE  /\ Aside(h, "kohrah") /\ h.fleet["kohrah"] = g.fleet["kohrah"]
         /\ h.event["kohrah"] = g.event["kohrah"]
         /\ h.state.frenzy = g.state.frenzy /\ h.state.over = g.state.over
<1>1. /\ Sent("mycon") = {"mycon"} /\ Sent("kohrah") = {"mycon", "kohrah"}
      /\ "kohrah" \in Races \ Sent("mycon") /\ "kohrah" \in Missions
  BY SentIs DEF Races, Missions
<1>2. \A r \in Races \ Sent("kohrah") : Quiet(h, r)
  BY <1>1 DEF Aside, Else, Quiet
<1>3. \A m \in Missions : h.event[m] # 0 => m = "kohrah" \/ m = "mycon"
  BY DEF Aside, Else
<1>4. /\ h.fleet["kohrah"] = g.fleet["kohrah"]
      /\ h.event["kohrah"] = g.event["kohrah"]
      /\ h.state.frenzy = g.state.frenzy /\ h.state.over = g.state.over
  BY <1>1 DEF Else
<1> QED
  BY <1>2, <1>3, <1>4 DEF Aside, Else

(* The Kohr-Ah are on a march.                                             *)
Marching(g) ==
  /\ Stays(g.fleet["kohrah"], 484, 127) /\ g.fleet["kohrah"].func = "kohrah"
  /\ g.fleet["kohrah"].dest # "none" /\ g.fleet["kohrah"].days > 0
  /\ g.event["kohrah"] = 0 /\ g.state.frenzy

LEMMA KohrahArrives ==
  ASSUME MissionsAssumption, NEW g \in Games, Aside(g, "kohrah"), MyconPlot(g, 0),
         Stays(g.fleet["kohrah"], 484, 127), g.event["kohrah"] = 0,
         g.state.frenzy, g.fleet["kohrah"].func = "kohrah",
         g.fleet["kohrah"].dest # "none", NEW w \in Genocide(g)
  PROVE  w \in Games /\ Aside(w, "kohrah") /\ MyconPlot(w, 0) /\ KohrahPlot(w)
<1> DEFINE f == g.fleet["kohrah"]
           e == w.fleet["kohrah"]
<1>1. /\ w \in Games /\ w.event = g.event /\ Spared(g, w)
      /\ w.state.pkunk = g.state.pkunk /\ w.state.thradd = g.state.thradd
      /\ w.state.utwig = g.state.utwig /\ w.state.fight = g.state.fight
      /\ w.state.said = g.state.said /\ Stays(e, 484, 127)
  BY GenocideIs
<1>2. \/ e = f /\ w.state.over /\ w.state.frenzy = g.state.frenzy
      \/ e.func = "kohrah" /\ e.dest # "none" /\ e.days > 0 /\ w.state.frenzy
  BY GenocideIs
<1>3. Aside(w, "kohrah") /\ MyconPlot(w, 0)
  BY <1>1, SparedAside, SparedMycon
<1>4. e.func = "kohrah" /\ e.dest # "none" /\ w.state.frenzy /\ (e.days > 0 \/ w.state.over)
  BY <1>2
<1>5. KohrahPlot(w)
  BY <1>1, <1>4 DEF KohrahPlot
<1> QED
  BY <1>1, <1>3, <1>5

LEMMA KohrahGrown ==
  ASSUME MissionsAssumption, NEW g \in Games, Aside(g, "kohrah"), MyconPlot(g, 0),
         Marching(g), NEW w \in Grown(g, "kohrah")
  PROVE  w \in Games /\ Aside(w, "kohrah") /\ MyconPlot(w, 0) /\ KohrahPlot(w)
<1> DEFINE f == g.fleet["kohrah"]
           s == Stronger(f)
           m == Moved(s)
           h == Put(g, "kohrah", m)
<1>0. "kohrah" \in Races /\ f \in Fleets /\ "kohrah" # "none"
  BY GameParts DEF Races
<1>1. /\ Stays(f, 484, 127) /\ f.func = "kohrah" /\ f.days > 0 /\ f.dest # "none"
      /\ g.event["kohrah"] = 0 /\ g.state.frenzy
  BY DEF Marching
<1>2. ~Idle(f)
  BY <1>1 DEF Idle, Stays
<1>3. /\ s \in Fleets /\ Stays(s, 484, 127) /\ s.days = f.days
      /\ s.func = f.func /\ s.dest = f.dest
  BY <1>0, <1>1, StrongerType, StrongerStays DEF Stays
<1> HIDE DEF s
<1>4. /\ m \in Fleets /\ m.days = s.days - 1 /\ Stays(m, 484, 127)
      /\ m.func = "kohrah" /\ m.dest = f.dest
  <2>1. s.dest \in Places
    BY <1>1, <1>3, FleetParts
  <2> QED
    BY <1>1, <1>3, <2>1, MovedIs DEF Stays
<1> HIDE DEF m
<1>5. \/ s.days # 1 /\ w = h
      \/ s.days = 1 /\ w \in Genocide(h)
  BY <1>0, <1>1, <1>2, <1>3, GrownIs DEF s, m, Stays, Handle
<1>6. /\ h \in Games /\ h.fleet["kohrah"] = m /\ h.event = g.event
      /\ h.state = g.state /\ Spared(g, h)
  BY <1>0, <1>4, PutIs DEF Spared
<1> HIDE DEF h
<1>7. Aside(h, "kohrah") /\ MyconPlot(h, 0)
  BY <1>6, SparedAside, SparedMycon
<1>8. CASE s.days # 1 /\ w = h
  <2>1. m.days > 0
    <3>1. s.days \in 0 .. 255 /\ s.days # 0
      BY <1>1, <1>3, FleetParts
    <3> QED
      BY <1>4, <1>8, <3>1
  <2>2. KohrahPlot(h)
    BY <1>1, <1>4, <1>6, <2>1 DEF KohrahPlot
  <2> QED
    BY <1>6, <1>7, <1>8, <2>2
<1>9. CASE s.days = 1 /\ w \in Genocide(h)
  <2>1. /\ Stays(h.fleet["kohrah"], 484, 127) /\ h.event["kohrah"] = 0
        /\ h.state.frenzy /\ h.fleet["kohrah"].func = "kohrah"
        /\ h.fleet["kohrah"].dest # "none"
    BY <1>1, <1>4, <1>6
  <2> QED
    BY <1>6, <1>7, <1>9, <2>1, KohrahArrives
<1> QED
  BY <1>5, <1>8, <1>9

(* The first day, and the later ones                                       *)
LEMMA KohrahEvent ==
  ASSUME MissionsAssumption, MissionsInv, plot = "kohrah", ~state.over,
         NEW h \in Happened({Game})
  PROVE  h \in Games /\ Aside(h, "kohrah") /\ MyconPlot(h, 1) /\ Marching(h)
<1>0. /\ Game \in Games /\ Aside(Game, "kohrah") /\ MyconPlot(Game, 0)
      /\ KohrahPlot(Game) /\ "kohrah" \in Missions /\ "mycon" \in Missions
      /\ Game.fleet = fleet /\ Game.event = event /\ Game.state = state
  BY DEF MissionsInv, OnCourse, Missions, Game
<1>1. /\ Begun \in Games /\ Begun.fleet = fleet /\ Begun.state = state
      /\ Begun.event["mycon"] = (IF event["mycon"] = 0 THEN 0 ELSE event["mycon"] - 1)
      /\ Begun.event["kohrah"] = (IF event["kohrah"] = 0 THEN 0 ELSE event["kohrah"] - 1)
      /\ Aside(Begun, "kohrah")
  BY <1>0, BegunIs, BegunAside
<1>2. \A q \in Missions : event[q] # 0 => q = "kohrah" \/ q = "mycon"
  BY <1>0 DEF Aside
<1>3. /\ event["mycon"] # 1 => MyconPlot(Begun, 1)
      /\ event["mycon"] = 1 =>
           MyconPlot(MyconMission(Begun), 1) /\ Else(Begun, MyconMission(Begun), "mycon")
  BY <1>0, <1>1, MyconLater
<1>4. CASE event["kohrah"] = 1
  <2>1. event["mycon"] = 0 /\ Stays(Begun.fleet["kohrah"], 484, 127)
        /\ fleet["kohrah"] = Home("kohrah")
    BY <1>0, <1>1, <1>4 DEF KohrahPlot
  <2>2. \A q \in Missions : event[q] = 1 => q = "kohrah"
    BY <1>2, <2>1
  <2>3. h \in Genocide(Begun)
    BY <1>0, <1>4, <2>2, HappenedIs DEF Handle
  <2>4. /\ h \in Games /\ h.event = Begun.event /\ Spared(Begun, h)
        /\ h.state.pkunk = Begun.state.pkunk /\ h.state.thradd = Begun.state.thradd
        /\ h.state.utwig = Begun.state.utwig /\ h.state.fight = Begun.state.fight
        /\ h.state.said = Begun.state.said /\ Stays(h.fleet["kohrah"], 484, 127)
    BY <1>1, <2>1, <2>3, GenocideIs
  <2>5. Home("kohrah").loc # "sol"
    BY HomeIs DEF Races
  <2>6. /\ h.fleet["kohrah"].func = "kohrah" /\ h.fleet["kohrah"].dest # "none"
        /\ h.fleet["kohrah"].days > 0 /\ h.state.frenzy
    BY <1>1, <2>1, <2>3, <2>5, GenocideIs
  <2>7. Aside(h, "kohrah") /\ MyconPlot(h, 1)
    BY <1>1, <1>3, <2>1, <2>4, SparedAside, SparedMycon
  <2> QED
    BY <1>1, <1>4, <2>4, <2>6, <2>7 DEF Marching
<1>5. CASE event["kohrah"] # 1
  <2>1. Marching(Begun)
    BY <1>0, <1>1, <1>5 DEF KohrahPlot, Marching
  <2>2. \A q \in Missions : event[q] = 1 => q = "mycon"
    BY <1>2, <1>5
  <2>3. /\ event["mycon"] # 1 => h = Begun
        /\ event["mycon"] = 1 => h = MyconMission(Begun)
    BY <1>0, <2>2, HappenedIs DEF Handle
  <2>4. CASE event["mycon"] # 1
    BY <1>1, <1>3, <2>1, <2>3, <2>4
  <2>5. CASE event["mycon"] = 1
    <3>1. Else(Begun, h, "mycon") /\ MyconPlot(h, 1)
      BY <1>3, <2>3, <2>5
    <3>2. Aside(h, "kohrah") /\ Marching(h)
      BY <1>1, <2>1, <3>1, ElseKohrah DEF Marching
    <3> QED
      BY <3>1, <3>2 DEF Else
  <2> QED
    BY <2>4, <2>5
<1> QED
  BY <1>4, <1>5

LEMMA KohrahDay ==
  ASSUME MissionsAssumption, MissionsInv, plot = "kohrah", ~state.over,
         NEW w \in Passed(Game)
  PROVE  w \in Games /\ Aside(w, "kohrah") /\ OnCourse(w, "kohrah")
<1>1. PICK h \in Happened({Game}) :
         \E h1 \in Grown(h, "pkunk") :
         \E h2 \in Grown(h1, "supox") :
         \E h3 \in Grown(h2, "thradd") :
         \E h4 \in Grown(h3, "utwig") :
         \E h5 \in Grown(h4, "druuge") :
         \E h6 \in Grown(h5, "ilwrath") :
         \E h7 \in Grown(h6, "mycon") : w \in Grown(h7, "kohrah")
  BY AllGrownIs DEF Passed
<1>2. h \in Games /\ Aside(h, "kohrah") /\ MyconPlot(h, 1) /\ Marching(h)
  BY KohrahEvent
<1>3. {"pkunk", "supox", "thradd", "utwig", "druuge", "ilwrath"}
        \subseteq Races \ Sent("kohrah")
  BY SentIs DEF Races
<1>4. \A r \in Races \ Sent("kohrah") : \A x \in Grown(h, r) : x = h
  BY <1>2, AsideGrown
<1>5. PICK h7 \in Grown(h, "mycon") : w \in Grown(h7, "kohrah")
  BY <1>1, <1>3, <1>4
<1>6. Else(h, h7, "mycon") /\ MyconPlot(h7, 0)
  BY <1>2, MyconGrown
<1>7. h7 \in Games /\ Aside(h7, "kohrah") /\ Marching(h7)
  <2>1. h7 \in Games
    BY <1>6 DEF Else
  <2>2. /\ Aside(h7, "kohrah") /\ h7.fleet["kohrah"] = h.fleet["kohrah"]
        /\ h7.event["kohrah"] = h.event["kohrah"]
        /\ h7.state.frenzy = h.state.frenzy
    BY <1>2, <1>6, ElseKohrah
  <2>3. Marching(h7)
    BY <1>2, <2>2 DEF Marching
  <2> QED
    BY <2>1, <2>2, <2>3
<1>8. w \in Games /\ Aside(w, "kohrah") /\ MyconPlot(w, 0) /\ KohrahPlot(w)
  BY <1>5, <1>6, <1>7, KohrahGrown
<1> QED
  BY <1>8 DEF OnCourse

(* TrickMycon in a game of either mission                                  *)
LEMMA MyconSent ==
  ASSUME MissionsAssumption, MissionsInv, SendMycon
  PROVE  MissionsInv'
<1>1. /\ plot \in {"mycon", "kohrah"} /\ ~Gone(Game, "mycon")
      /\ "implant" \notin Game.state.said /\ ~Game.state.over
      /\ Says("implant", {MyconMission(Game)})
  BY DEF SendMycon, Alive, Says, Game, Gone
<1>2. /\ Game \in Games /\ Aside(Game, plot) /\ MyconPlot(Game, 0)
      /\ plot = "kohrah" => KohrahPlot(Game)
  BY <1>1 DEF MissionsInv, OnCourse
<1> DEFINE x == MyconMission(Game)
           h == Told(x, "implant")
<1>3. Else(Game, x, "mycon") /\ h \in Games /\ h.event = Game.event /\ MyconPlot(h, 0)
  BY <1>1, <1>2, MyconTold
<1>4. x \in Games /\ "implant" \in Phrases /\ "mycon" \in Courses
  BY <1>3 DEF Else, Phrases, Courses
<1> HIDE DEF x
<1>5. /\ h.fleet = x.fleet /\ h.state.frenzy = x.state.frenzy /\ h.state.over = x.state.over
  BY <1>4, SaidIs
<1>6. CASE plot = "mycon"
  <2>1. Aside(x, "mycon")
    BY <1>2, <1>3, <1>4, <1>6, ElseAside
  <2>2. Aside(h, "mycon")
    BY <1>4, <2>1, ToldAside
  <2>3. OnCourse(h, "mycon")
    BY <1>3 DEF OnCourse
  <2> QED
    BY <1>1, <1>3, <1>6, <2>2, <2>3, SaysIs DEF x
<1>7. CASE plot = "kohrah"
  <2>1. /\ Aside(x, "kohrah") /\ x.fleet["kohrah"] = Game.fleet["kohrah"]
        /\ x.state.frenzy = Game.state.frenzy /\ x.state.over = Game.state.over
    BY <1>2, <1>3, <1>7, ElseKohrah
  <2>2. Aside(h, "kohrah")
    BY <1>4, <2>1, ToldAside
  <2> HIDE DEF h
  <2>3. KohrahPlot(h)
    BY <1>2, <1>3, <1>5, <1>7, <2>1 DEF KohrahPlot
  <2>4. OnCourse(h, "kohrah")
    BY <1>3, <2>3 DEF OnCourse
  <2> QED
    BY <1>1, <1>3, <1>7, <2>2, <2>4, SaysIs DEF x, h
<1> QED
  BY <1>1, <1>6, <1>7

-----------------------------------------------------------------------------
(* The Utwig and the Supox                                                 *)

SetUtwig(g, n) == [g EXCEPT !.state.utwig = n]

LEMMA SetUtwigIs ==
  ASSUME NEW g \in Games, NEW n \in UtwigStates, NEW h, h = SetUtwig(g, n)
  PROVE  /\ h \in Games /\ h.fleet = g.fleet /\ h.event = g.event /\ h.state.utwig = n
         /\ h.state.said = g.state.said /\ Else(g, h, "utwig")
<1> DEFINE z == [g.state EXCEPT !.utwig = n]
<1>1. h = [g EXCEPT !.state = z]
  BY DEF SetUtwig, Games, States
<1>2. g.state \in States
  BY GameParts
<1>3. /\ z \in States /\ z.utwig = n /\ z.pkunk = g.state.pkunk
      /\ z.thradd = g.state.thradd /\ z.over = g.state.over
      /\ z.fight = g.state.fight /\ z.frenzy = g.state.frenzy /\ z.said = g.state.said
  BY <1>2, StateUtwig
<1> HIDE DEF z
<1>4. h \in Games /\ h.fleet = g.fleet /\ h.event = g.event /\ h.state = z
  BY <1>1, <1>3 DEF Games
<1> QED
  BY <1>3, <1>4 DEF Else

(* Both fleets                                                             *)
LEMMA UtwigPutIs ==
  ASSUME NEW g \in Games, NEW u \in Fleets, NEW s \in Fleets,
         NEW w, w = Put(Put(g, "utwig", u), "supox", s)
  PROVE  /\ w \in Games /\ w.fleet["utwig"] = u /\ w.fleet["supox"] = s
         /\ w.event = g.event /\ w.state = g.state /\ Else(g, w, "utwig")
<1>1. /\ "utwig" \in Races /\ "supox" \in Races /\ "utwig" \in Sent("utwig")
      /\ "supox" \in Sent("utwig") /\ "utwig" \in Courses /\ "utwig" # "supox"
  BY SentIs DEF Races, Courses
<1> DEFINE x == Put(g, "utwig", u)
<1>2. /\ x \in Games /\ x.fleet["utwig"] = u /\ x.event = g.event
      /\ x.state = g.state /\ Else(g, x, "utwig")
  BY <1>1, PutIs, PutElse
<1> HIDE DEF x
<1>3. /\ w \in Games /\ w.fleet["utwig"] = u /\ w.fleet["supox"] = s
      /\ w.event = x.event /\ w.state = x.state /\ Else(x, w, "utwig")
  <2>1. w = Put(x, "supox", s)
    BY DEF x
  <2> QED
    BY <1>1, <1>2, <2>1, PutIs, PutElse
<1> QED
  BY <1>2, <1>3, ElseTrans

LEMMA UtwigSentIs ==
  ASSUME NEW g \in Games, NEW to \in Places,
         NEW w, w = SetRaceDest(SetRaceDest(g, "utwig", to, 21, "utwig"), "supox", to, 21, "none")
  PROVE  /\ w \in Games /\ w.event = g.event /\ w.state = g.state /\ Else(g, w, "utwig")
         /\ Bound(w.fleet["utwig"], to, "utwig") /\ w.fleet["utwig"].days = 21
         /\ Bound(w.fleet["supox"], to, "none") /\ w.fleet["supox"].days = 21
         /\ \A x, y : Stays(g.fleet["utwig"], x, y) => Stays(w.fleet["utwig"], x, y)
         /\ \A x, y : Stays(g.fleet["supox"], x, y) => Stays(w.fleet["supox"], x, y)
<1>1. /\ "utwig" \in Races /\ "supox" \in Races /\ "utwig" # "supox"
      /\ 21 \in Bytes /\ "utwig" \in Funcs /\ "none" \in Funcs
      /\ Sent("utwig") = {"utwig", "supox"}
  BY SentIs DEF Races, Bytes, Funcs, Missions
<1> DEFINE h == SetRaceDest(g, "utwig", to, 21, "utwig")
<1>2. /\ h \in Games /\ h.event = g.event /\ h.state = g.state
      /\ \A q \in Races : q # "utwig" => h.fleet[q] = g.fleet[q]
      /\ Bound(h.fleet["utwig"], to, "utwig") /\ h.fleet["utwig"].days = 21
      /\ \A x, y : Stays(g.fleet["utwig"], x, y) => Stays(h.fleet["utwig"], x, y)
  BY <1>1, SetRaceDestIs DEF Bound, Stays
<1> HIDE DEF h
<1>3. /\ w \in Games /\ w.event = h.event /\ w.state = h.state
      /\ \A q \in Races : q # "supox" => w.fleet[q] = h.fleet[q]
      /\ Bound(w.fleet["supox"], to, "none") /\ w.fleet["supox"].days = 21
      /\ \A x, y : Stays(h.fleet["supox"], x, y) => Stays(w.fleet["supox"], x, y)
  <2>1. w = SetRaceDest(h, "supox", to, 21, "none")
    BY DEF h
  <2> QED
    BY <1>1, <1>2, <2>1, SetRaceDestIs DEF Bound, Stays
<1>4. Else(g, w, "utwig")
  BY <1>1, <1>2, <1>3 DEF Else
<1> QED
  BY <1>1, <1>2, <1>3, <1>4

(* The call of the first day sends them out.                               *)
LEMMA UtwigLeaves ==
  ASSUME NEW g \in Games, UtwigHome(g), NEW w, w = UtwigMission(g)
  PROVE  /\ Else(g, w, "utwig") /\ w.event = g.event
         /\ \A h : h.fleet = w.fleet /\ h.event = w.event /\ h.state.utwig = w.state.utwig
                   /\ "attack" \in h.state.said => UtwigAway(h, 0, 0)
<1> DEFINE x == SetRaceDest(SetRaceDest(g, "utwig", "front3", 21, "utwig"), "supox", "front3", 21, "none")
<1>1. /\ g.fleet["utwig"] = Home("utwig") /\ g.fleet["supox"] = Home("supox")
      /\ g.state.utwig = 0 /\ g.event["utwig"] = 0
  BY DEF UtwigHome
<1>2. /\ Stays(g.fleet["utwig"], 120, 127) /\ Stays(g.fleet["supox"], 60, 127)
  BY <1>1, HomeIs DEF Races, Stays, Strength
<1>3. w = SetUtwig(x, 1)
  BY <1>1, <1>2 DEF UtwigMission, SetUtwig, Stays
<1>4. /\ x \in Games /\ x.event = g.event /\ x.state = g.state /\ Else(g, x, "utwig")
      /\ Bound(x.fleet["utwig"], "front3", "utwig") /\ x.fleet["utwig"].days = 21
      /\ Bound(x.fleet["supox"], "front3", "none") /\ x.fleet["supox"].days = 21
      /\ Stays(x.fleet["utwig"], 120, 127) /\ Stays(x.fleet["supox"], 60, 127)
  <2>1. "front3" \in Places
    BY DEF Places
  <2> QED
    BY <1>2, <2>1, UtwigSentIs
<1> HIDE DEF x
<1>5. /\ w.fleet = x.fleet /\ w.event = x.event /\ w.state.utwig = 1 /\ Else(x, w, "utwig")
  <2>1. 1 \in UtwigStates
    BY DEF UtwigStates
  <2> QED
    BY <1>3, <1>4, <2>1, SetUtwigIs
<1>6. Else(g, w, "utwig")
  BY <1>4, <1>5, ElseTrans
<1>7. ASSUME NEW h, h.fleet = w.fleet, h.event = w.event, h.state.utwig = w.state.utwig,
             "attack" \in h.state.said
      PROVE  UtwigAway(h, 0, 0)
  BY <1>1, <1>4, <1>5, <1>7 DEF UtwigAway
<1> QED
  BY <1>4, <1>5, <1>6, <1>7

(* They arrive, and fight.                                                 *)
LEMMA UtwigLoses ==
  ASSUME NEW f \in Fleets, Stays(f, 120, 127), NEW e, e = Reset(Losing(f, f.strength \div 2, 160))
  PROVE  e \in Fleets /\ e.days = f.days /\ Fought(e, 120, 0, 96, 0)
<1> DEFINE x == Losing(f, f.strength \div 2, 160)
           a == -((f.strength \div 2) \div 160)
           b == (((f.strength \div 2) % 160) * 256) \div 160
<1>1. f.strength \div 2 = 60
  BY DEF Stays
<1>2. a = 0 /\ b = 96
  <2>1. 60 \div 160 = 0 /\ 60 % 160 = 60 /\ (60 * 256) \div 160 = 96
    OBVIOUS
  <2> QED
    BY <1>1, <2>1
<1>3. a \in Growths /\ b \in Bytes
  BY <1>2 DEF Growths, Bytes
<1>4. /\ x \in Fleets /\ x.days = f.days /\ x.strength = f.strength
      /\ x.growth = a /\ x.fract = b
  BY <1>3, LosingIs
<1> HIDE DEF x
<1>5. /\ e \in Fleets /\ e.days = x.days /\ e.strength = x.strength /\ e.err = 127
      /\ e.growth = x.growth /\ e.fract = x.fract
  <2>1. e = Reset(x)
    BY DEF x
  <2> QED
    BY <1>4, <2>1, ResetIs
<1>6. Fought(e, 120, 0, 96, 0)
  BY <1>2, <1>4, <1>5 DEF Fought, Stays
<1> QED
  BY <1>4, <1>5, <1>6

LEMMA SupoxLoses ==
  ASSUME NEW f \in Fleets, Stays(f, 60, 127), NEW e, e = Reset(Losing(f, f.strength \div 2, 160))
  PROVE  e \in Fleets /\ e.days = f.days /\ Fought(e, 60, 0, 48, 0)
<1> DEFINE x == Losing(f, f.strength \div 2, 160)
           a == -((f.strength \div 2) \div 160)
           b == (((f.strength \div 2) % 160) * 256) \div 160
<1>1. f.strength \div 2 = 30
  BY DEF Stays
<1>2. a = 0 /\ b = 48
  <2>1. 30 \div 160 = 0 /\ 30 % 160 = 30 /\ (30 * 256) \div 160 = 48
    OBVIOUS
  <2> QED
    BY <1>1, <2>1
<1>3. a \in Growths /\ b \in Bytes
  BY <1>2 DEF Growths, Bytes
<1>4. /\ x \in Fleets /\ x.days = f.days /\ x.strength = f.strength
      /\ x.growth = a /\ x.fract = b
  BY <1>3, LosingIs
<1> HIDE DEF x
<1>5. /\ e \in Fleets /\ e.days = x.days /\ e.strength = x.strength /\ e.err = 127
      /\ e.growth = x.growth /\ e.fract = x.fract
  <2>1. e = Reset(x)
    BY DEF x
  <2> QED
    BY <1>4, <2>1, ResetIs
<1>6. Fought(e, 60, 0, 48, 0)
  BY <1>2, <1>4, <1>5 DEF Fought, Stays
<1> QED
  BY <1>4, <1>5, <1>6

(* utwig_supox_mission when they arrive, and at the end of each 80 days    *)
LEMMA UtwigArrives ==
  ASSUME NEW g \in Games, NEW w, w = UtwigMission(g),
         g.state.utwig \in {1, 5}, g.event["utwig"] = 0, "attack" \in g.state.said,
         g.fleet["utwig"].days = 0, g.fleet["supox"].days = 0,
         g.state.utwig = 1 => Stays(g.fleet["utwig"], 120, 127)
                              /\ Stays(g.fleet["supox"], 60, 127),
         g.state.utwig = 5 => Stays(g.fleet["utwig"], 60, 223)
                              /\ Stays(g.fleet["supox"], 30, 175)
  PROVE  Else(g, w, "utwig") /\ (UtwigFight(w, 0, 0) \/ UtwigBack(w))
<1> DEFINE f == g.fleet["utwig"]
           s == g.fleet["supox"]
<1>0. /\ "utwig" \in Races /\ "supox" \in Races /\ "utwig" \in Missions
      /\ f \in Fleets /\ s \in Fleets
  BY GameParts DEF Races, Missions
<1>1. CASE g.state.utwig = 5
  <2>1. w = SetUtwig(g, 6)
    <3>1. (5 + 1) % 8 = 6
      OBVIOUS
    <3> QED
      BY <1>1, <3>1 DEF UtwigMission, SetUtwig
  <2>2. /\ w.fleet = g.fleet /\ w.event = g.event /\ w.state.utwig = 6
        /\ Else(g, w, "utwig")
    <3>1. 6 \in UtwigStates
      BY DEF UtwigStates
    <3> QED
      BY <2>1, <3>1, SetUtwigIs
  <2>3. UtwigBack(w)
    BY <1>1, <2>2 DEF UtwigBack, Else
  <2> QED
    BY <2>2, <2>3
<1>2. CASE g.state.utwig = 1
  <2> DEFINE a == Reset(Losing(f, f.strength \div 2, 160))
             b == Reset(Losing(s, s.strength \div 2, 160))
             v == SetEvent(g, "utwig", 80)
             x == Put(Put(v, "utwig", a), "supox", b)
  <2>1. Stays(f, 120, 127) /\ Stays(s, 60, 127)
    BY <1>2
  <2>2. /\ a \in Fleets /\ a.days = f.days /\ Fought(a, 120, 0, 96, 0)
        /\ b \in Fleets /\ b.days = s.days /\ Fought(b, 60, 0, 48, 0)
    BY <1>0, <2>1, UtwigLoses, SupoxLoses
  <2>3. w = SetUtwig(x, 2)
    <3>1. f.strength # 0 /\ s.strength \div 2 # 0
      BY <2>1 DEF Stays
    <3> QED
      BY <1>2, <3>1 DEF UtwigMission, SetUtwig, Put, SetEvent
  <2> HIDE DEF a, b
  <2>4. v \in Games /\ v.event["utwig"] = 80 /\ v.state = g.state /\ Else(g, v, "utwig")
    <3>1. 80 \in Delays
      BY DEF Delays
    <3> QED
      BY <1>0, <3>1, EventIs DEF Else
  <2> HIDE DEF v
  <2>5. /\ x \in Games /\ x.fleet["utwig"] = a /\ x.fleet["supox"] = b
        /\ x.event = v.event /\ Else(v, x, "utwig")
    BY <2>2, <2>4, UtwigPutIs
  <2> HIDE DEF x
  <2>6. /\ w.fleet = x.fleet /\ w.event = x.event /\ w.state.utwig = 2
        /\ Else(x, w, "utwig")
    <3>1. 2 \in UtwigStates
      BY DEF UtwigStates
    <3> QED
      BY <2>3, <2>5, <3>1, SetUtwigIs
  <2>7. Else(g, w, "utwig")
    BY <2>4, <2>5, <2>6, ElseTrans
  <2>8. UtwigFight(w, 0, 0)
    <3>1. w.event["utwig"] = 80 /\ "attack" \in w.state.said
      BY <2>4, <2>5, <2>6, <2>7 DEF Else
    <3>2. (IF w.state.utwig = 2 THEN 80 ELSE 160) - w.event["utwig"] - 0 = 0
      BY <2>6, <3>1
    <3> QED
      BY <2>2, <2>5, <2>6, <3>1, <3>2 DEF UtwigFight
  <2> QED
    BY <2>7, <2>8
<1> QED
  BY <1>1, <1>2

LEMMA UtwigGoesOn ==
  ASSUME NEW g \in Games, g.state.utwig = 2, g.fleet["utwig"].strength # 0,
         NEW w, w = UtwigMission(g)
  PROVE  /\ Else(g, w, "utwig") /\ w.fleet = g.fleet
         /\ w.event["utwig"] = 80 /\ w.state.utwig = 4
<1> DEFINE v == SetEvent(g, "utwig", 80)
<1>1. w = SetUtwig(v, 4)
  BY DEF UtwigMission, SetUtwig, SetEvent
<1>2. /\ v \in Games /\ v.event["utwig"] = 80 /\ v.fleet = g.fleet /\ Else(g, v, "utwig")
  <2>1. 80 \in Delays /\ "utwig" \in Missions
    BY DEF Delays, Missions
  <2> QED
    BY <2>1, EventIs DEF Else
<1> HIDE DEF v
<1>3. /\ w.fleet = v.fleet /\ w.event = v.event /\ w.state.utwig = 4
      /\ Else(v, w, "utwig")
  <2>1. 4 \in UtwigStates
    BY DEF UtwigStates
  <2> QED
    BY <1>1, <1>2, <2>1, SetUtwigIs
<1> QED
  BY <1>2, <1>3, ElseTrans

LEMMA UtwigReturns ==
  ASSUME NEW g \in Games, g.state.utwig = 4, NEW w, w = UtwigMission(g),
         g.event["utwig"] = 0, "attack" \in g.state.said,
         g.fleet["utwig"].strength = 60, g.fleet["utwig"].err = 223,
         g.fleet["supox"].strength = 30, g.fleet["supox"].err = 175
  PROVE  Else(g, w, "utwig") /\ UtwigAway(w, 0, 0)
<1> DEFINE f == g.fleet["utwig"]
           s == g.fleet["supox"]
           a == Steady(f)
           b == Steady(s)
           x == Put(Put(g, "utwig", a), "supox", b)
           y == SetRaceDest(SetRaceDest(x, "utwig", "utwig", 21, "utwig"), "supox", "utwig", 21, "none")
<1>0. "utwig" \in Races /\ "supox" \in Races /\ f \in Fleets /\ s \in Fleets
  BY GameParts DEF Races
<1>1. w = SetUtwig(y, 5)
  <2>1. y.state.utwig + 1 = 5
    BY DEF SetRaceDest, Put
  <2> QED
    BY <2>1 DEF UtwigMission, SetUtwig, Put
<1>2. a \in Fleets /\ b \in Fleets /\ Stays(a, 60, 223) /\ Stays(b, 30, 175)
  BY <1>0, SteadyIs DEF Stays
<1> HIDE DEF a, b
<1>3. /\ x \in Games /\ x.fleet["utwig"] = a /\ x.fleet["supox"] = b
      /\ x.event = g.event /\ x.state = g.state /\ Else(g, x, "utwig")
  BY <1>2, UtwigPutIs
<1> HIDE DEF x
<1>4. /\ y \in Games /\ y.event = x.event /\ y.state = x.state /\ Else(x, y, "utwig")
      /\ Bound(y.fleet["utwig"], "utwig", "utwig") /\ y.fleet["utwig"].days = 21
      /\ Bound(y.fleet["supox"], "utwig", "none") /\ y.fleet["supox"].days = 21
      /\ Stays(y.fleet["utwig"], 60, 223) /\ Stays(y.fleet["supox"], 30, 175)
  <2> DEFINE to == "utwig"
  <2>1. to \in Places
    BY DEF Places, Races
  <2>2. Stays(x.fleet["utwig"], 60, 223) /\ Stays(x.fleet["supox"], 30, 175)
    BY <1>2, <1>3
  <2>3. y = SetRaceDest(SetRaceDest(x, "utwig", to, 21, "utwig"), "supox", to, 21, "none")
    OBVIOUS
  <2> HIDE DEF y, to
  <2>4. /\ y \in Games /\ y.event = x.event /\ y.state = x.state /\ Else(x, y, "utwig")
    BY <1>3, <2>1, <2>3, UtwigSentIs
  <2>5. /\ Bound(y.fleet["utwig"], to, "utwig") /\ y.fleet["utwig"].days = 21
        /\ Bound(y.fleet["supox"], to, "none") /\ y.fleet["supox"].days = 21
    BY <1>3, <2>1, <2>3, UtwigSentIs
  <2>6. Stays(y.fleet["utwig"], 60, 223)
    BY <1>3, <2>1, <2>2, <2>3, UtwigSentIs
  <2>7. Stays(y.fleet["supox"], 30, 175)
    BY <1>3, <2>1, <2>2, <2>3, UtwigSentIs
  <2> QED
    BY <2>4, <2>5, <2>6, <2>7 DEF to
<1> HIDE DEF y
<1>5. /\ w.fleet = y.fleet /\ w.event = y.event /\ w.state.utwig = 5
      /\ w.state.said = y.state.said /\ Else(y, w, "utwig")
  <2>1. 5 \in UtwigStates
    BY DEF UtwigStates
  <2> QED
    BY <1>1, <1>4, <2>1, SetUtwigIs
<1>6. Else(g, w, "utwig")
  BY <1>3, <1>4, <1>5, ElseTrans
<1>7. UtwigAway(w, 0, 0)
  BY <1>3, <1>4, <1>5 DEF UtwigAway
<1> QED
  BY <1>6, <1>7

(* The event of a day of the fight                                         *)
LEMMA UtwigLater ==
  ASSUME NEW g \in Games, UtwigPlot(g, 0, 0, 0, 0), NEW h \in Games,
         h.fleet = g.fleet, h.state = g.state,
         h.event["utwig"] = (IF g.event["utwig"] = 0 THEN 0 ELSE g.event["utwig"] - 1)
  PROVE  /\ g.event["utwig"] # 1 => UtwigPlot(h, 0, 0, 1, 1)
         /\ g.event["utwig"] = 1 =>
              UtwigPlot(UtwigMission(h), 0, 0, 1, 1) /\ Else(h, UtwigMission(h), "utwig")
<1> DEFINE f == g.fleet["utwig"]
           s == g.fleet["supox"]
           e == g.event["utwig"]
           n == g.state.utwig
<1>0. /\ f.strength \in 0 .. 484 /\ f.err \in 0 .. 255
      /\ s.strength \in 0 .. 484 /\ s.err \in 0 .. 255
  <2>1. "utwig" \in Races /\ "supox" \in Races
    BY DEF Races
  <2> QED
    BY <2>1, GameParts, FleetParts
<1>1. CASE e = 0
  <2>1. UtwigHome(g) \/ UtwigAway(g, 0, 0) \/ UtwigBack(g)
    BY <1>1 DEF UtwigPlot, UtwigFight
  <2>2. UtwigHome(h) \/ UtwigAway(h, 0, 0) \/ UtwigBack(h)
    BY <1>1, <2>1 DEF UtwigHome, UtwigAway, UtwigBack
  <2> QED
    BY <1>1, <2>2 DEF UtwigPlot
<1>2. CASE e # 0
  <2>1. UtwigFight(g, 0, 0)
    BY <1>2 DEF UtwigPlot, UtwigHome, UtwigAway, UtwigBack
  <2> DEFINE k == (IF n = 2 THEN 80 ELSE 160) - e
  <2>2. /\ n \in {2, 4} /\ e \in 1 .. 80 /\ "attack" \in g.state.said
        /\ f.days = 0 /\ s.days = 0
        /\ Fought(f, 120, 0, 96, k - 0) /\ Fought(s, 60, 0, 48, k - 0)
    BY <2>1 DEF UtwigFight
  <2>3. CASE e # 1
    <3> DEFINE l == (IF n = 2 THEN 80 ELSE 160) - (e - 1)
    <3>1. h.event["utwig"] = e - 1 /\ e - 1 \in 1 .. 80 /\ l - 1 = k - 0
      BY <2>2, <2>3
    <3>2. (IF h.state.utwig = 2 THEN 80 ELSE 160) - h.event["utwig"] = l
      BY <3>1
    <3> HIDE DEF k, l
    <3>3. UtwigFight(h, 1, 1)
      BY <2>2, <3>1, <3>2 DEF UtwigFight
    <3> QED
      BY <2>3, <3>3 DEF UtwigPlot
  <2>4. CASE e = 1
    <3> DEFINE w == UtwigMission(h)
    <3>1. CASE n = 2
      <4>1. f.strength # 0
        <5> DEFINE x == f.strength
                   y == f.err
        <5>1. x \in 0 .. 484 /\ y \in 0 .. 255 /\ 256 * x + y = 30847 - 96 * 79
          BY <1>0, <2>2, <2>4, <3>1 DEF Fought
        <5> HIDE DEF x, y
        <5>2. x # 0
          BY <5>1
        <5> QED
          BY <5>2 DEF x
      <4>2. /\ Else(h, w, "utwig") /\ w.fleet = h.fleet
            /\ w.event["utwig"] = 80 /\ w.state.utwig = 4
        BY <3>1, <4>1, UtwigGoesOn
      <4> HIDE DEF w
      <4>3. (IF w.state.utwig = 2 THEN 80 ELSE 160) - w.event["utwig"] = 80
        BY <4>2
      <4>4. k - 0 = 79 /\ 80 - 1 = 79
        BY <2>4, <3>1
      <4>5. UtwigFight(w, 1, 1)
        BY <2>2, <4>2, <4>3, <4>4 DEF UtwigFight, Else
      <4> QED
        BY <2>4, <4>2, <4>5 DEF UtwigPlot, w
    <3>2. CASE n = 4
      <4>1. k - 0 = 159
        BY <2>4, <3>2
      <4>2. f.strength = 60 /\ f.err = 223
        <5> DEFINE x == f.strength
                   y == f.err
        <5>1. x \in 0 .. 484 /\ y \in 0 .. 255 /\ 256 * x + y = 30847 - 96 * 159
          BY <1>0, <2>2, <4>1 DEF Fought
        <5> HIDE DEF x, y
        <5>2. x = 60 /\ y = 223
          BY <5>1
        <5> QED
          BY <5>2 DEF x, y
      <4>3. s.strength = 30 /\ s.err = 175
        <5> DEFINE x == s.strength
                   y == s.err
        <5>1. x \in 0 .. 484 /\ y \in 0 .. 255 /\ 256 * x + y = 15487 - 48 * 159
          BY <1>0, <2>2, <4>1 DEF Fought
        <5> HIDE DEF x, y
        <5>2. x = 30 /\ y = 175
          BY <5>1
        <5> QED
          BY <5>2 DEF x, y
      <4>4. Else(h, w, "utwig") /\ UtwigAway(w, 0, 0)
        BY <2>2, <2>4, <3>2, <4>2, <4>3, UtwigReturns
      <4> QED
        BY <2>4, <4>4 DEF UtwigPlot
    <3> QED
      BY <2>2, <3>1, <3>2
  <2> QED
    BY <2>3, <2>4
<1> QED
  BY <1>1, <1>2

(* A day of the Supox                                                      *)
LEMMA SupoxGrown ==
  ASSUME NEW g \in Games, UtwigPlot(g, 0, 0, 1, 1), NEW w \in Grown(g, "supox")
  PROVE  Else(g, w, "utwig") /\ UtwigPlot(w, 1, 0, 0, 1)
<1> DEFINE f == g.fleet["supox"]
           s == Stronger(f)
           m == Moved(s)
<1>0. /\ "supox" \in Races /\ "supox" \in Sent("utwig") /\ "utwig" \in Courses
      /\ "utwig" \in Races /\ f \in Fleets /\ "supox" # "utwig"
  BY GameParts, SentIs DEF Races, Courses
<1>r. Else(g, g, "utwig")
  BY DEF Else
<1>1. CASE UtwigHome(g) \/ UtwigBack(g)
  <2>1. Idle(f)
    BY <1>1, HomeIs DEF Idle, UtwigHome, UtwigBack, Stays, Races
  <2>2. w = g
    BY <2>1 DEF Grown
  <2> QED
    BY <1>1, <1>r, <2>2 DEF UtwigPlot
<1>2. CASE UtwigFight(g, 1, 1)
  <2> DEFINE k == (IF g.state.utwig = 2 THEN 80 ELSE 160) - g.event["utwig"]
  <2>1. /\ g.state.utwig \in {2, 4} /\ g.event["utwig"] \in 1 .. 80
        /\ "attack" \in g.state.said /\ f.days = 0 /\ g.fleet["utwig"].days = 0
        /\ Fought(f, 60, 0, 48, k - 1) /\ Fought(g.fleet["utwig"], 120, 0, 96, k - 1)
        /\ k \in 0 .. 160
    BY <1>2 DEF UtwigFight
  <2> HIDE DEF k
  <2>2. /\ f.growth = 0 /\ f.fract = 48
        /\ 256 * f.strength + f.err = 15487 - 48 * (k - 1)
    <3> DEFINE x == f.strength
               y == f.err
    <3>1. /\ f.growth = 0 - 0 /\ f.fract = 48
          /\ 256 * x + y = 256 * 60 + 127 - (256 * 0 + 48) * (k - 1)
      BY <2>1 DEF Fought
    <3>2. x \in 0 .. 484 /\ y \in 0 .. 255 /\ k \in 0 .. 160
      BY <1>0, <2>1, FleetParts
    <3> HIDE DEF x, y
    <3>3. 256 * x + y = 15487 - 48 * (k - 1)
      BY <3>1, <3>2
    <3>4. f.growth = 0 /\ f.fract = 48
      BY <3>1
    <3> QED
      BY <3>3, <3>4 DEF x, y
  <2>3. f.err # 0 /\ f.err # 48 /\ f.strength > 1
    <3> DEFINE x == f.strength
               y == f.err
    <3>1. /\ x \in 0 .. 484 /\ y \in 0 .. 255
          /\ 256 * x + y = 15487 - 48 * (k - 1)
      BY <1>0, <2>2, FleetParts
    <3> HIDE DEF x, y
    <3>2. y # 0 /\ y # 48 /\ x > 1
      BY <2>1, <3>1
    <3> QED
      BY <3>2 DEF x, y
  <2>4. /\ s \in Fleets /\ s.days = 0 /\ s.growth = 0 /\ s.fract = 48
        /\ 256 * s.strength + s.err = 256 * f.strength + f.err + 256 * 0 - 48
    <3>1. f.strength + f.growth > 1
      <4> DEFINE x == f.strength
      <4>1. x \in 0 .. 484 /\ x > 1
        BY <1>0, <2>3, FleetParts
      <4> HIDE DEF x
      <4>2. x + 0 > 1
        BY <4>1
      <4> QED
        BY <2>2, <4>2 DEF x
    <3> QED
      BY <1>0, <2>1, <2>2, <2>3, <3>1, StrongerType, StrongerFought
  <2>5. ~Idle(f)
    BY <2>2, <2>3 DEF Idle
  <2>6. w = Put(g, "supox", s)
    BY <1>0, <2>4, <2>5, GrownIs
  <2> HIDE DEF s
  <2>7. /\ w.fleet["supox"] = s /\ w.fleet["utwig"] = g.fleet["utwig"]
        /\ w.event = g.event /\ w.state = g.state /\ Else(g, w, "utwig")
    BY <1>0, <2>4, <2>6, PutIs, PutElse
  <2>8. Fought(s, 60, 0, 48, k - 0)
    <3>1. 256 * s.strength + s.err = 15487 - 48 * k
      BY <2>1, <2>2, <2>4, FleetParts
    <3> DEFINE x == s.strength
               y == s.err
    <3>2. x \in 0 .. 484 /\ y \in 0 .. 255 /\ k \in 0 .. 160
      BY <2>1, <2>4, FleetParts
    <3>3. 256 * x + y = 15487 - 48 * k
      BY <3>1
    <3> HIDE DEF x, y
    <3>4. 256 * x + y = 256 * 60 + 127 - (256 * 0 + 48) * (k - 0)
      BY <3>2, <3>3
    <3>5. s.growth = 0 - 0 /\ s.fract = 48
      BY <2>4
    <3> QED
      BY <3>4, <3>5 DEF Fought, x, y
  <2>9. UtwigFight(w, 0, 1)
    BY <2>1, <2>4, <2>7, <2>8 DEF UtwigFight, k
  <2> QED
    BY <2>7, <2>9 DEF UtwigPlot
<1>3. CASE UtwigAway(g, 0, 0)
  <2> DEFINE u == g.fleet["utwig"]
             n == g.state.utwig
             to == IF n = 1 THEN "front3" ELSE "utwig"
  <2>1. /\ n \in {1, 5} /\ g.event["utwig"] = 0 /\ "attack" \in g.state.said
        /\ f.days = u.days /\ u.days \in 1 .. 21
        /\ Bound(u, to, "utwig") /\ f.dest = to /\ f.func = "none"
        /\ n = 1 => Stays(u, 120, 127) /\ Stays(f, 60, 127)
        /\ n = 5 => Stays(u, 60, 223) /\ Stays(f, 30, 175)
    <3>1. "utwig" \in Races
      BY <1>0
    <3>2. u.days \in 0 .. 255 /\ f.days \in 0 .. 255
      BY <1>0, GameParts, FleetParts
    <3>3. f.days + 0 = f.days /\ u.days + 0 = u.days
      BY <3>2
    <3> QED
      BY <1>3, <3>3 DEF UtwigAway, Bound
  <2>2. /\ s \in Fleets /\ s.days = f.days /\ s.func = "none" /\ s.dest = to
        /\ n = 1 => Stays(s, 60, 127)
        /\ n = 5 => Stays(s, 30, 175)
        /\ s.strength # 0
    BY <1>0, <2>1, StrongerType, StrongerStays DEF Stays
  <2>3. ~Idle(f)
    BY <2>1 DEF Idle, Stays
  <2> HIDE DEF s
  <2>4. /\ m \in Fleets /\ m.days = s.days - 1 /\ Bound(m, to, "none")
        /\ n = 1 => Stays(m, 60, 127)
        /\ n = 5 => Stays(m, 30, 175)
    <3>1. s.dest \in Places /\ s.days > 0
      BY <2>1, <2>2 DEF Places, Races
    <3> QED
      BY <2>1, <2>2, <3>1, MovedIs DEF Stays, Bound
  <2> HIDE DEF m
  <2>5. w = Put(g, "supox", m)
    BY <1>0, <2>1, <2>2, <2>3, GrownIs DEF s, m
  <2>6. /\ w.fleet["supox"] = m /\ w.fleet["utwig"] = u
        /\ w.event = g.event /\ w.state = g.state /\ Else(g, w, "utwig")
    BY <1>0, <2>4, <2>5, PutIs, PutElse
  <2>7. m.days + 1 = u.days + 0 /\ u.days + 0 \in 1 .. 21 /\ u.days > 0
    BY <2>1, <2>2, <2>4
  <2> HIDE DEF u
  <2>8. UtwigAway(w, 1, 0)
    BY <2>1, <2>4, <2>6, <2>7 DEF UtwigAway
  <2> QED
    BY <2>6, <2>8 DEF UtwigPlot
<1> QED
  BY <1>1, <1>2, <1>3 DEF UtwigPlot

(* And of the Utwig                                                        *)
LEMMA UtwigGrown ==
  ASSUME NEW g \in Games, UtwigPlot(g, 1, 0, 0, 1), NEW w \in Grown(g, "utwig")
  PROVE  Else(g, w, "utwig") /\ UtwigPlot(w, 0, 0, 0, 0)
<1> DEFINE f == g.fleet["utwig"]
           s == Stronger(f)
           m == Moved(s)
<1>0. /\ "supox" \in Races /\ "utwig" \in Sent("utwig") /\ "utwig" \in Courses
      /\ "utwig" \in Races /\ f \in Fleets /\ "supox" # "utwig" /\ "utwig" # "none"
  BY GameParts, SentIs DEF Races, Courses
<1>r. Else(g, g, "utwig")
  BY DEF Else
<1>1. CASE UtwigHome(g) \/ UtwigBack(g)
  <2>1. Idle(f)
    BY <1>1, HomeIs DEF Idle, UtwigHome, UtwigBack, Stays, Races
  <2>2. w = g
    BY <2>1 DEF Grown
  <2> QED
    BY <1>1, <1>r, <2>2 DEF UtwigPlot
<1>2. CASE UtwigFight(g, 0, 1)
  <2> DEFINE k == (IF g.state.utwig = 2 THEN 80 ELSE 160) - g.event["utwig"]
  <2>1. /\ g.state.utwig \in {2, 4} /\ g.event["utwig"] \in 1 .. 80
        /\ "attack" \in g.state.said /\ f.days = 0 /\ g.fleet["supox"].days = 0
        /\ Fought(f, 120, 0, 96, k - 1) /\ Fought(g.fleet["supox"], 60, 0, 48, k - 0)
        /\ k \in 0 .. 160
    BY <1>2 DEF UtwigFight
  <2> HIDE DEF k
  <2>2. /\ f.growth = 0 /\ f.fract = 96
        /\ 256 * f.strength + f.err = 30847 - 96 * (k - 1)
    <3> DEFINE x == f.strength
               y == f.err
    <3>1. /\ f.growth = 0 - 0 /\ f.fract = 96
          /\ 256 * x + y = 256 * 120 + 127 - (256 * 0 + 96) * (k - 1)
      BY <2>1 DEF Fought
    <3>2. x \in 0 .. 484 /\ y \in 0 .. 255 /\ k \in 0 .. 160
      BY <1>0, <2>1, FleetParts
    <3> HIDE DEF x, y
    <3>3. 256 * x + y = 30847 - 96 * (k - 1)
      BY <3>1, <3>2
    <3>4. f.growth = 0 /\ f.fract = 96
      BY <3>1
    <3> QED
      BY <3>3, <3>4 DEF x, y
  <2>3. f.err # 0 /\ f.err # 96 /\ f.strength > 1
    <3> DEFINE x == f.strength
               y == f.err
    <3>1. /\ x \in 0 .. 484 /\ y \in 0 .. 255
          /\ 256 * x + y = 30847 - 96 * (k - 1)
      BY <1>0, <2>2, FleetParts
    <3> HIDE DEF x, y
    <3> DEFINE z == 15423 - 48 * (k - 1) - 128 * x
    <3>k. k \in 0 .. 160
      BY <2>1
    <3>3. z \in Int /\ y = 2 * z + 1
      BY <3>k, <3>1
    <3> HIDE DEF z
    <3>4. y # 0 /\ y # 96
      BY <3>3
    <3>5. x > 1
      BY <2>1, <3>1
    <3>2. y # 0 /\ y # 96 /\ x > 1
      BY <3>4, <3>5
    <3> QED
      BY <3>2 DEF x, y
  <2>4. /\ s \in Fleets /\ s.days = 0 /\ s.growth = 0 /\ s.fract = 96
        /\ 256 * s.strength + s.err = 256 * f.strength + f.err + 256 * 0 - 96
    <3>1. f.strength + f.growth > 1
      <4> DEFINE x == f.strength
      <4>1. x \in 0 .. 484 /\ x > 1
        BY <1>0, <2>3, FleetParts
      <4> HIDE DEF x
      <4>2. x + 0 > 1
        BY <4>1
      <4> QED
        BY <2>2, <4>2 DEF x
    <3> QED
      BY <1>0, <2>1, <2>2, <2>3, <3>1, StrongerType, StrongerFought
  <2>5. ~Idle(f)
    BY <2>2, <2>3 DEF Idle
  <2>6. w = Put(g, "utwig", s)
    BY <1>0, <2>4, <2>5, GrownIs
  <2> HIDE DEF s
  <2>7. /\ w.fleet["utwig"] = s /\ w.fleet["supox"] = g.fleet["supox"]
        /\ w.event = g.event /\ w.state = g.state /\ Else(g, w, "utwig")
    BY <1>0, <2>4, <2>6, PutIs, PutElse
  <2>8. Fought(s, 120, 0, 96, k - 0)
    <3>1. 256 * s.strength + s.err = 30847 - 96 * k
      BY <2>1, <2>2, <2>4, FleetParts
    <3> DEFINE x == s.strength
               y == s.err
    <3>2. x \in 0 .. 484 /\ y \in 0 .. 255 /\ k \in 0 .. 160
      BY <2>1, <2>4, FleetParts
    <3>3. 256 * x + y = 30847 - 96 * k
      BY <3>1
    <3> HIDE DEF x, y
    <3>4. 256 * x + y = 256 * 120 + 127 - (256 * 0 + 96) * (k - 0)
      BY <3>2, <3>3
    <3>5. s.growth = 0 - 0 /\ s.fract = 96
      BY <2>4
    <3> QED
      BY <3>4, <3>5 DEF Fought, x, y
  <2>9. UtwigFight(w, 0, 0)
    BY <2>1, <2>4, <2>7, <2>8 DEF UtwigFight, k
  <2> QED
    BY <2>7, <2>9 DEF UtwigPlot
<1>3. CASE UtwigAway(g, 1, 0)
  <2> DEFINE v == g.fleet["supox"]
             n == g.state.utwig
             to == IF n = 1 THEN "front3" ELSE "utwig"
             h == Put(g, "utwig", m)
  <2>1. /\ n \in {1, 5} /\ g.event["utwig"] = 0 /\ "attack" \in g.state.said
        /\ v.days = f.days - 1 /\ f.days \in 1 .. 21
        /\ Bound(v, to, "none") /\ f.dest = to /\ f.func = "utwig"
        /\ n = 1 => Stays(f, 120, 127) /\ Stays(v, 60, 127)
        /\ n = 5 => Stays(f, 60, 223) /\ Stays(v, 30, 175)
    <3>2. f.days \in 0 .. 255 /\ v.days \in 0 .. 255
      BY <1>0, GameParts, FleetParts
    <3>3. f.days + 0 = f.days
      BY <3>2
    <3>4. v.days + 1 = f.days => v.days = f.days - 1
      BY <3>2
    <3> QED
      BY <1>3, <3>3, <3>4 DEF UtwigAway, Bound
  <2>2. /\ s \in Fleets /\ s.days = f.days /\ s.func = "utwig" /\ s.dest = to
        /\ n = 1 => Stays(s, 120, 127)
        /\ n = 5 => Stays(s, 60, 223)
        /\ s.strength # 0
    BY <1>0, <2>1, StrongerType, StrongerStays DEF Stays
  <2>3. ~Idle(f)
    BY <2>1 DEF Idle, Stays
  <2> HIDE DEF s
  <2>4. /\ m \in Fleets /\ m.days = s.days - 1 /\ Bound(m, to, "utwig")
        /\ n = 1 => Stays(m, 120, 127)
        /\ n = 5 => Stays(m, 60, 223)
    <3>1. s.dest \in Places /\ s.days > 0
      BY <2>1, <2>2 DEF Places, Races
    <3> QED
      BY <2>1, <2>2, <3>1, MovedIs DEF Stays, Bound
  <2> HIDE DEF m
  <2>5. \/ s.days # 1 /\ w = h
        \/ s.days = 1 /\ w = UtwigMission(h)
    BY <1>0, <2>1, <2>2, <2>3, GrownIs DEF s, m, Handle
  <2>6. /\ h \in Games /\ h.fleet["utwig"] = m /\ h.fleet["supox"] = v
        /\ h.event = g.event /\ h.state = g.state /\ Else(g, h, "utwig")
    BY <1>0, <2>4, PutIs, PutElse
  <2> HIDE DEF h
  <2>7. CASE s.days # 1 /\ w = h
    <3>1. v.days + 0 = m.days + 0 /\ m.days + 0 \in 1 .. 21 /\ m.days > 0
      BY <2>1, <2>2, <2>4, <2>7
    <3> HIDE DEF v
    <3>2. UtwigAway(w, 0, 0)
      BY <2>1, <2>4, <2>6, <2>7, <3>1 DEF UtwigAway
    <3> QED
      BY <2>6, <2>7, <3>2 DEF UtwigPlot
  <2>8. CASE s.days = 1 /\ w = UtwigMission(h)
    <3>1. m.days = 0 /\ v.days = 0
      BY <2>1, <2>2, <2>4, <2>8
    <3> HIDE DEF v
    <3>2. Else(h, w, "utwig") /\ (UtwigFight(w, 0, 0) \/ UtwigBack(w))
      BY <2>1, <2>4, <2>6, <2>8, <3>1, UtwigArrives
    <3> QED
      BY <2>6, <3>2, ElseTrans DEF UtwigPlot
  <2> QED
    BY <2>5, <2>7, <2>8
<1> QED
  BY <1>1, <1>2, <1>3 DEF UtwigPlot

LEMMA UtwigDay ==
  ASSUME MissionsInv, plot = "utwig", NEW w \in Passed(Game)
  PROVE  w \in Games /\ Aside(w, "utwig") /\ OnCourse(w, "utwig")
<1>0. /\ Game \in Games /\ Aside(Game, "utwig") /\ UtwigPlot(Game, 0, 0, 0, 0)
      /\ "utwig" \in Missions /\ "utwig" \in Courses
      /\ Game.fleet = fleet /\ Game.event = event /\ Game.state = state
  BY DEF MissionsInv, OnCourse, Missions, Courses, Game
<1>1. PICK h \in Happened({Game}) :
         \E h1 \in Grown(h, "pkunk") :
         \E h2 \in Grown(h1, "supox") :
         \E h3 \in Grown(h2, "thradd") :
         \E h4 \in Grown(h3, "utwig") :
         \E h5 \in Grown(h4, "druuge") :
         \E h6 \in Grown(h5, "ilwrath") :
         \E h7 \in Grown(h6, "mycon") : w \in Grown(h7, "kohrah")
  BY AllGrownIs DEF Passed
<1>2. /\ event["utwig"] # 1 => h = Begun
      /\ event["utwig"] = 1 => h = UtwigMission(Begun)
  BY <1>0, StoryEvent DEF Handle
<1>3. /\ Begun \in Games /\ Begun.fleet = fleet /\ Begun.state = state
      /\ Begun.event["utwig"] = (IF event["utwig"] = 0 THEN 0 ELSE event["utwig"] - 1)
      /\ Aside(Begun, "utwig")
  BY <1>0, BegunIs, BegunAside
<1>4. h \in Games /\ Aside(h, "utwig") /\ UtwigPlot(h, 0, 0, 1, 1)
  <2>1. /\ event["utwig"] # 1 => UtwigPlot(Begun, 0, 0, 1, 1)
        /\ event["utwig"] = 1 =>
             UtwigPlot(UtwigMission(Begun), 0, 0, 1, 1) /\ Else(Begun, UtwigMission(Begun), "utwig")
    BY <1>0, <1>3, UtwigLater
  <2> QED
    BY <1>0, <1>2, <1>3, <2>1, ElseAside DEF Else
<1>5. {"pkunk", "thradd", "druuge", "ilwrath", "mycon", "kohrah"}
        \subseteq Races \ Sent("utwig")
  BY SentIs DEF Races
<1>6. \A x \in Grown(h, "pkunk") : x = h
  BY <1>4, <1>5, AsideGrown
<1>7. PICK h2 \in Grown(h, "supox") :
         \E h3 \in Grown(h2, "thradd") :
         \E h4 \in Grown(h3, "utwig") :
         \E h5 \in Grown(h4, "druuge") :
         \E h6 \in Grown(h5, "ilwrath") :
         \E h7 \in Grown(h6, "mycon") : w \in Grown(h7, "kohrah")
  BY <1>1, <1>6
<1>8. Else(h, h2, "utwig") /\ UtwigPlot(h2, 1, 0, 0, 1)
  BY <1>4, SupoxGrown
<1>9. h2 \in Games /\ Aside(h2, "utwig")
  BY <1>0, <1>4, <1>8, ElseAside DEF Else
<1>10. \A x \in Grown(h2, "thradd") : x = h2
  BY <1>5, <1>9, AsideGrown
<1>11. PICK h4 \in Grown(h2, "utwig") :
         \E h5 \in Grown(h4, "druuge") :
         \E h6 \in Grown(h5, "ilwrath") :
         \E h7 \in Grown(h6, "mycon") : w \in Grown(h7, "kohrah")
  BY <1>7, <1>10
<1>12. Else(h2, h4, "utwig") /\ UtwigPlot(h4, 0, 0, 0, 0)
  BY <1>8, <1>9, UtwigGrown
<1>13. h4 \in Games /\ Aside(h4, "utwig")
  BY <1>0, <1>9, <1>12, ElseAside DEF Else
<1>14. \A r \in Races \ Sent("utwig") : \A x \in Grown(h4, r) : x = h4
  BY <1>13, AsideGrown
<1>15. w = h4
  BY <1>5, <1>11, <1>14
<1> QED
  BY <1>12, <1>13, <1>15 DEF OnCourse

LEMMA UtwigTold ==
  ASSUME MissionsInv, SendUtwig
  PROVE  MissionsInv'
<1>1. /\ plot = "utwig" /\ "attack" \notin Game.state.said
      /\ Says("attack", {UtwigMission(Game)})
  BY DEF SendUtwig, Says, Game
<1>2. Game \in Games /\ Aside(Game, "utwig") /\ UtwigPlot(Game, 0, 0, 0, 0)
  BY <1>1 DEF MissionsInv, OnCourse
<1> DEFINE x == UtwigMission(Game)
           h == Told(x, "attack")
<1>3. UtwigHome(Game)
  BY <1>1, <1>2 DEF UtwigPlot, UtwigAway, UtwigFight, UtwigBack
<1>4. /\ Else(Game, x, "utwig")
      /\ \A g : g.fleet = x.fleet /\ g.event = x.event /\ g.state.utwig = x.state.utwig
                /\ "attack" \in g.state.said => UtwigAway(g, 0, 0)
  BY <1>2, <1>3, UtwigLeaves
<1>5. x \in Games /\ Aside(x, "utwig") /\ "attack" \in Phrases
  BY <1>2, <1>4, ElseAside DEF Else, Courses, Phrases
<1> HIDE DEF x
<1>6. /\ h \in Games /\ Aside(h, "utwig") /\ h.fleet = x.fleet /\ h.event = x.event
      /\ h.state.utwig = x.state.utwig /\ "attack" \in h.state.said
  BY <1>5, ToldAside, SaidIs
<1> HIDE DEF h
<1>7. UtwigAway(h, 0, 0)
  BY <1>4, <1>6
<1>8. OnCourse(h, "utwig")
  BY <1>7 DEF OnCourse, UtwigPlot
<1> QED
  BY <1>1, <1>6, <1>8, SaysIs DEF x, h

-----------------------------------------------------------------------------
(* The Thraddash and the Ilwrath                                           *)

SetThradd(g, n) == [g EXCEPT !.state.thradd = n]

LEMMA SetThraddIs ==
  ASSUME NEW g \in Games, NEW n \in ThraddStates, NEW h, h = SetThradd(g, n)
  PROVE  /\ h \in Games /\ h.fleet = g.fleet /\ h.event = g.event /\ h.state.thradd = n
         /\ h.state.fight = g.state.fight /\ h.state.said = g.state.said
         /\ Else(g, h, "thradd")
<1> DEFINE z == [g.state EXCEPT !.thradd = n]
<1>1. h = [g EXCEPT !.state = z]
  BY DEF SetThradd, Games, States
<1>2. g.state \in States
  BY GameParts
<1>3. /\ z \in States /\ z.thradd = n /\ z.pkunk = g.state.pkunk
      /\ z.utwig = g.state.utwig /\ z.over = g.state.over
      /\ z.fight = g.state.fight /\ z.frenzy = g.state.frenzy /\ z.said = g.state.said
  BY <1>2, StateThradd
<1> HIDE DEF z
<1>4. h \in Games /\ h.fleet = g.fleet /\ h.event = g.event /\ h.state = z
  BY <1>1, <1>3 DEF Games
<1> QED
  BY <1>3, <1>4 DEF Else

SetFight(g, b) == [g EXCEPT !.state.fight = b]

LEMMA SetFightIs ==
  ASSUME NEW g \in Games, NEW b \in BOOLEAN, NEW h, h = SetFight(g, b)
  PROVE  /\ h \in Games /\ h.fleet = g.fleet /\ h.event = g.event /\ h.state.fight = b
         /\ h.state.thradd = g.state.thradd /\ h.state.said = g.state.said
         /\ Else(g, h, "thradd")
<1> DEFINE z == [g.state EXCEPT !.fight = b]
<1>1. h = [g EXCEPT !.state = z]
  BY DEF SetFight, Games, States
<1>2. g.state \in States
  BY GameParts
<1>3. /\ z \in States /\ z.fight = b /\ z.pkunk = g.state.pkunk
      /\ z.utwig = g.state.utwig /\ z.over = g.state.over
      /\ z.thradd = g.state.thradd /\ z.frenzy = g.state.frenzy /\ z.said = g.state.said
  BY <1>2, StateFight
<1> HIDE DEF z
<1>4. h \in Games /\ h.fleet = g.fleet /\ h.event = g.event /\ h.state = z
  BY <1>1, <1>3 DEF Games
<1> QED
  BY <1>3, <1>4 DEF Else

(* A fleet is sent somewhere and nothing else.                             *)
LEMMA DestElse ==
  ASSUME NEW g \in Games, NEW r \in {"thradd", "ilwrath"}, NEW to \in Places,
         NEW days \in Bytes, NEW func \in Funcs,
         NEW h, h = SetRaceDest(g, r, to, days, func)
  PROVE  Else(g, h, "thradd")
<1>1. r \in Races /\ Sent("thradd") = {"thradd", "ilwrath"}
  BY SentIs DEF Races
<1>2. /\ h \in Games /\ h.event = g.event /\ h.state = g.state
      /\ \A q \in Races : q # r => h.fleet[q] = g.fleet[q]
  BY <1>1, SetRaceDestIs
<1> QED
  BY <1>1, <1>2 DEF Else

(* The Thraddash go on to the next part of their mission.                  *)
LEMMA ThraddSentIs ==
  ASSUME NEW g \in Games, NEW e \in Fleets, NEW to \in Places, NEW n \in ThraddStates,
         NEW w, w = SetThradd(SetRaceDest(Put(g, "thradd", e), "thradd", to, 14, "thradd"), n)
  PROVE  /\ Else(g, w, "thradd") /\ w.fleet["ilwrath"] = g.fleet["ilwrath"]
         /\ w.state.fight = g.state.fight /\ w.state.thradd = n
         /\ Bound(w.fleet["thradd"], to, "thradd") /\ w.fleet["thradd"].days = 14
         /\ w.fleet["thradd"].strength = e.strength /\ w.fleet["thradd"].err = e.err
         /\ w.fleet["thradd"].growth = e.growth /\ w.fleet["thradd"].fract = e.fract
<1> DEFINE x == Put(g, "thradd", e)
           y == SetRaceDest(x, "thradd", to, 14, "thradd")
<1>0. /\ "thradd" \in Races /\ "ilwrath" \in Races /\ "thradd" \in Sent("thradd")
      /\ "thradd" \in Courses /\ 14 \in Bytes /\ "thradd" \in Funcs /\ "thradd" # "ilwrath"
  BY SentIs DEF Races, Courses, Bytes, Funcs, Missions
<1>1. /\ x \in Games /\ x.fleet["thradd"] = e /\ x.event = g.event /\ x.state = g.state
      /\ x.fleet["ilwrath"] = g.fleet["ilwrath"] /\ Else(g, x, "thradd")
  BY <1>0, PutIs, PutElse
<1> HIDE DEF x
<1>2. /\ y \in Games /\ y.state = x.state /\ y.fleet["ilwrath"] = x.fleet["ilwrath"]
      /\ Bound(y.fleet["thradd"], to, "thradd") /\ y.fleet["thradd"].days = 14
      /\ y.fleet["thradd"].strength = e.strength /\ y.fleet["thradd"].err = e.err
      /\ y.fleet["thradd"].growth = e.growth /\ y.fleet["thradd"].fract = e.fract
  BY <1>0, <1>1, SetRaceDestIs DEF Bound
<1>3. Else(x, y, "thradd")
  BY <1>0, <1>1, DestElse
<1>4. w = SetThradd(y, n)
  BY DEF x
<1> HIDE DEF y
<1>5. /\ w.fleet = y.fleet /\ w.state.thradd = n /\ w.state.fight = y.state.fight
      /\ Else(y, w, "thradd")
  BY <1>2, <1>4, SetThraddIs
<1>6. Else(g, w, "thradd")
  BY <1>1, <1>3, <1>5, ElseTrans
<1> QED
  BY <1>1, <1>2, <1>5, <1>6

LEMMA ThraddLoses ==
  ASSUME NEW f \in Fleets, Stays(f, 150, 127), NEW e, e = Reset(Losing(f, f.strength \div 2, 14))
  PROVE  e \in Fleets /\ Fought(e, 150, 5, 91, 0)
<1> DEFINE x == Losing(f, f.strength \div 2, 14)
           a == -((f.strength \div 2) \div 14)
           b == (((f.strength \div 2) % 14) * 256) \div 14
<1>1. f.strength \div 2 = 75
  BY DEF Stays
<1>2. a = -5 /\ b = 91
  <2>1. 75 \div 14 = 5 /\ 75 % 14 = 5 /\ (5 * 256) \div 14 = 91
    OBVIOUS
  <2> QED
    BY <1>1, <2>1
<1>3. a \in Growths /\ b \in Bytes
  BY <1>2 DEF Growths, Bytes
<1>4. /\ x \in Fleets /\ x.strength = f.strength /\ x.growth = a /\ x.fract = b
  BY <1>3, LosingIs
<1> HIDE DEF x
<1>5. /\ e \in Fleets /\ e.strength = x.strength /\ e.err = 127
      /\ e.growth = x.growth /\ e.fract = x.fract
  <2>1. e = Reset(x)
    BY DEF x
  <2> QED
    BY <1>4, <2>1, ResetIs
<1>6. Fought(e, 150, 5, 91, 0)
  BY <1>2, <1>4, <1>5 DEF Fought, Stays
<1> QED
  BY <1>5, <1>6

(* thradd_mission, before the battle                                       *)
LEMMA ThraddMissionIs ==
  ASSUME NEW g \in Games, ~g.state.fight, g.fleet["thradd"].strength # 0,
         NEW w, w = ThraddMission(g)
  PROVE  LET f == g.fleet["thradd"]
             e == w.fleet["thradd"]
         IN  /\ g.state.thradd = 0 /\ Stays(f, 150, 127) =>
                  /\ Else(g, w, "thradd") /\ w.fleet["ilwrath"] = g.fleet["ilwrath"]
                  /\ ~w.state.fight /\ w.state.thradd = 1
                  /\ Bound(e, "front2", "thradd") /\ e.days = 14 /\ Stays(e, 150, 127)
             /\ g.state.thradd = 1 /\ Stays(f, 150, 127) =>
                  /\ Else(g, w, "thradd") /\ w.fleet["ilwrath"] = g.fleet["ilwrath"]
                  /\ ~w.state.fight /\ w.state.thradd = 2
                  /\ Bound(e, "front2", "thradd") /\ e.days = 14 /\ Fought(e, 150, 5, 91, 0)
             /\ g.state.thradd = 2 /\ f.strength = 75 /\ f.err = 133 =>
                  /\ Else(g, w, "thradd") /\ w.fleet["ilwrath"] = g.fleet["ilwrath"]
                  /\ ~w.state.fight /\ w.state.thradd = 3
                  /\ Bound(e, "thradd", "thradd") /\ e.days = 14 /\ Stays(e, 75, 133)
             /\ g.state.thradd = 3 =>
                  /\ Else(g, w, "thradd") /\ w.fleet = g.fleet
                  /\ ~w.state.fight /\ w.state.thradd = 4
<1> DEFINE f == g.fleet["thradd"]
           e == w.fleet["thradd"]
           n == g.state.thradd
           W(x, to) == SetRaceDest(Put(g, "thradd", x), "thradd", to, 14, "thradd")
<1>0. /\ "thradd" \in Races /\ f \in Fleets /\ "front2" \in Places /\ "thradd" \in Places
      /\ n \in 0 .. 5 /\ n \in Int
      /\ 1 \in ThraddStates /\ 2 \in ThraddStates /\ 3 \in ThraddStates /\ 4 \in ThraddStates
  BY GameParts, StateParts DEF Races, Places, ThraddStates
<1>1. CASE n = 0 /\ Stays(f, 150, 127)
  <2>1. w = Notified(SetThradd(W(f, "front2"), 1))
    <3>1. W(f, "front2").state.thradd = 0
      BY <1>0, <1>1, PutIs DEF SetRaceDest, Games
    <3>2. (0 + 1) % 8 = 1
      OBVIOUS
    <3> QED
      BY <1>1, <3>1, <3>2 DEF ThraddMission, SetThradd, Put
  <2> DEFINE z == SetThradd(W(f, "front2"), 1)
  <2>2. /\ Else(g, z, "thradd") /\ z.fleet["ilwrath"] = g.fleet["ilwrath"]
        /\ ~z.state.fight /\ z.state.thradd = 1
        /\ Bound(z.fleet["thradd"], "front2", "thradd") /\ z.fleet["thradd"].days = 14
        /\ Stays(z.fleet["thradd"], 150, 127)
    BY <1>0, <1>1, ThraddSentIs DEF Stays
  <2> HIDE DEF z
  <2>3. w = z
    BY <2>1, <2>2 DEF Notified, z
  <2> QED
    BY <1>1, <2>2, <2>3
<1>2. CASE n = 1 /\ Stays(f, 150, 127)
  <2> DEFINE x == Reset(Losing(f, f.strength \div 2, 14))
             z == SetThradd(W(x, "front2"), 2)
  <2>0. x \in Fleets /\ Fought(x, 150, 5, 91, 0)
    BY <1>0, <1>2, ThraddLoses
  <2>1. w = Notified(z)
    <3> HIDE DEF x
    <3>1. W(x, "front2").state.thradd = 1
      BY <1>0, <1>2, <2>0, PutIs DEF SetRaceDest, Games
    <3>2. (1 + 1) % 8 = 2
      OBVIOUS
    <3> QED
      BY <1>2, <3>1, <3>2 DEF ThraddMission, SetThradd, Put, x
  <2> HIDE DEF x
  <2>2. /\ Else(g, z, "thradd") /\ z.fleet["ilwrath"] = g.fleet["ilwrath"]
        /\ ~z.state.fight /\ z.state.thradd = 2
        /\ Bound(z.fleet["thradd"], "front2", "thradd") /\ z.fleet["thradd"].days = 14
        /\ Fought(z.fleet["thradd"], 150, 5, 91, 0)
    BY <1>0, <1>2, <2>0, ThraddSentIs DEF Fought
  <2> HIDE DEF z
  <2>3. w = z
    BY <2>1, <2>2 DEF Notified
  <2> QED
    BY <1>2, <2>2, <2>3
<1>3. CASE n = 2 /\ f.strength = 75 /\ f.err = 133
  <2> DEFINE x == Steady(f)
             z == SetThradd(W(x, "thradd"), 3)
  <2>0. x \in Fleets /\ Stays(x, 75, 133)
    BY <1>0, <1>3, SteadyIs DEF Stays
  <2>1. w = Notified(z)
    <3> HIDE DEF x
    <3>1. W(x, "thradd").state.thradd = 2
      BY <1>0, <1>3, <2>0, PutIs DEF SetRaceDest, Games
    <3>2. (2 + 1) % 8 = 3
      OBVIOUS
    <3> QED
      BY <1>3, <3>1, <3>2 DEF ThraddMission, SetThradd, Put, x
  <2> HIDE DEF x
  <2>2. /\ Else(g, z, "thradd") /\ z.fleet["ilwrath"] = g.fleet["ilwrath"]
        /\ ~z.state.fight /\ z.state.thradd = 3
        /\ Bound(z.fleet["thradd"], "thradd", "thradd") /\ z.fleet["thradd"].days = 14
        /\ Stays(z.fleet["thradd"], 75, 133)
    BY <1>0, <1>3, <2>0, ThraddSentIs DEF Stays
  <2> HIDE DEF z
  <2>3. w = z
    BY <2>1, <2>2 DEF Notified
  <2> QED
    BY <1>3, <2>2, <2>3
<1>4. CASE n = 3
  <2> DEFINE z == SetThradd(g, 4)
  <2>1. w = Notified(z)
    <3>1. (3 + 1) % 8 = 4
      OBVIOUS
    <3> QED
      BY <1>4, <3>1 DEF ThraddMission, SetThradd
  <2>2. /\ Else(g, z, "thradd") /\ z.fleet = g.fleet
        /\ ~z.state.fight /\ z.state.thradd = 4
    BY <1>0, SetThraddIs
  <2> HIDE DEF z
  <2>3. w = z
    BY <2>1, <2>2 DEF Notified
  <2> QED
    BY <1>4, <2>2, <2>3
<1> QED
  BY <1>1, <1>2, <1>3, <1>4

(* The Thraddash are called back, or to the battle.                        *)
LEMMA RecalledIs ==
  ASSUME NEW g \in Games, g.state.fight, g.fleet["ilwrath"].days <= 127,
         NEW w, w = Recalled(g)
  PROVE  LET f == g.fleet["thradd"]
             e == w.fleet["thradd"]
         IN  /\ Else(g, w, "thradd") /\ w.fleet["ilwrath"] = g.fleet["ilwrath"]
             /\ w.state.fight /\ e.growth = f.growth /\ e.strength = f.strength
             /\ g.state.thradd = 3 => w = g
             /\ g.state.thradd \in {1, 2} =>
                  w.state.thradd = 3 /\ Bound(e, "thradd", "thradd") /\ e.days = 10
             /\ g.state.thradd \in {0, 4, 5} =>
                  /\ w.state.thradd = g.state.thradd /\ Bound(e, "battle", "none")
                  /\ e.days = g.fleet["ilwrath"].days + 1
<1> DEFINE n == g.state.thradd
           d == g.fleet["ilwrath"].days
<1>0. /\ "thradd" \in Races /\ "ilwrath" \in Races /\ "thradd" # "ilwrath"
      /\ "thradd" \in Places /\ "battle" \in Places
      /\ "thradd" \in Funcs /\ "none" \in Funcs
  BY DEF Races, Places, Funcs, Missions
<1>1. n \in 0 .. 5 /\ d \in 0 .. 255
  BY <1>0, GameParts, StateParts, FleetParts
<1>2. d + 1 \in Bytes /\ 10 \in Bytes /\ 3 \in ThraddStates
  BY <1>1 DEF Bytes, ThraddStates
<1>3. CASE n = 3
  <2>1. w = g
    BY <1>3 DEF Recalled
  <2> QED
    BY <1>3, <2>1 DEF Else
<1>4. CASE n \in {0, 4, 5}
  <2>1. w = SetRaceDest(g, "thradd", "battle", d + 1, "none")
    BY <1>4 DEF Recalled
  <2>2. Else(g, w, "thradd")
    BY <1>0, <1>2, <2>1, DestElse
  <2> HIDE DEF d
  <2>3. /\ w.state = g.state /\ w.fleet["ilwrath"] = g.fleet["ilwrath"]
        /\ w.fleet["thradd"].dest = "battle" /\ w.fleet["thradd"].days = d + 1
        /\ w.fleet["thradd"].func = "none"
        /\ w.fleet["thradd"].strength = g.fleet["thradd"].strength
        /\ w.fleet["thradd"].growth = g.fleet["thradd"].growth
    BY <1>0, <1>2, <2>1, SetRaceDestIs
  <2> QED
    BY <1>4, <2>2, <2>3 DEF Bound, d
<1>5. CASE n \in {1, 2}
  <2> DEFINE x == SetRaceDest(g, "thradd", "thradd", 10, "thradd")
  <2>1. w = SetThradd(x, 3)
    BY <1>5 DEF Recalled, SetThradd
  <2>2. Else(g, x, "thradd")
    BY <1>0, <1>2, DestElse
  <2>3. /\ x \in Games /\ x.state = g.state /\ x.fleet["ilwrath"] = g.fleet["ilwrath"]
        /\ x.fleet["thradd"].dest = "thradd" /\ x.fleet["thradd"].days = 10
        /\ x.fleet["thradd"].func = "thradd"
        /\ x.fleet["thradd"].strength = g.fleet["thradd"].strength
        /\ x.fleet["thradd"].growth = g.fleet["thradd"].growth
    BY <1>0, <1>2, SetRaceDestIs
  <2> HIDE DEF x
  <2>4. /\ w.fleet = x.fleet /\ w.state.thradd = 3 /\ w.state.fight = x.state.fight
        /\ Else(x, w, "thradd")
    BY <1>2, <2>1, <2>3, SetThraddIs
  <2>5. Else(g, w, "thradd")
    BY <2>2, <2>4, ElseTrans
  <2> QED
    BY <1>5, <2>3, <2>4, <2>5 DEF Bound
<1> QED
  BY <1>1, <1>3, <1>4, <1>5

(* The two races engage.                                                   *)
Engaged(g) ==
  [SetRaceDest(g, "ilwrath", "battle", 127, "ilwrath")
    EXCEPT !.state.fight = TRUE,
           !.fleet["ilwrath"] = Losing(@, g.fleet["ilwrath"].strength, 128),
           !.fleet["thradd"] = Losing(@, @.strength, 128)]

LEMMA ThraddEngaged ==
  ASSUME NEW f \in Fleets, f.strength <= 150, NEW e, e = Losing(f, f.strength, 128)
  PROVE  /\ e \in Fleets /\ e.growth <= 0 /\ e.strength = f.strength
         /\ e.dest = f.dest /\ e.days = f.days /\ e.func = f.func /\ e.loc = f.loc
<1> DEFINE s == f.strength
           q == s \div 128
           r == s % 128
           a == -q
           b == (r * 256) \div 128
<1>1. s \in 0 .. 150
  BY FleetParts
<1> HIDE DEF s
<1>2. q \in 0 .. 1 /\ r \in 0 .. 127
  BY <1>1
<1> HIDE DEF q, r
<1>3. b = 2 * r
  BY <1>2
<1>4. a \in -1 .. 0 /\ b \in 0 .. 255
  BY <1>2, <1>3
<1>5. a \in Growths /\ b \in Bytes
  BY <1>4 DEF Growths, Bytes
<1>6. a = -(f.strength \div 128) /\ b = ((f.strength % 128) * 256) \div 128
  BY DEF s, q, r
<1>7. e.growth = a /\ e \in Fleets /\ e.strength = f.strength
      /\ e.dest = f.dest /\ e.days = f.days /\ e.func = f.func /\ e.loc = f.loc
  BY <1>5, <1>6, LosingIs
<1> QED
  BY <1>4, <1>7

LEMMA IlwrathEngaged ==
  ASSUME NEW f \in Fleets, f.strength = 256, f.err = 127, NEW e, e = Losing(f, 256, 128)
  PROVE  /\ e \in Fleets /\ e.growth = -2 /\ e.fract = 0 /\ e.err = 127 /\ e.strength = 256
         /\ e.dest = f.dest /\ e.days = f.days /\ e.func = f.func /\ e.loc = f.loc
<1> DEFINE a == -(256 \div 128)
           b == ((256 % 128) * 256) \div 128
<1>1. a = -2 /\ b = 0
  <2>1. 256 \div 128 = 2 /\ 256 % 128 = 0 /\ (0 * 256) \div 128 = 0
    OBVIOUS
  <2> QED
    BY <2>1
<1>2. a \in Growths /\ b \in Bytes
  BY <1>1 DEF Growths, Bytes
<1> QED
  BY <1>1, <1>2, LosingIs

LEMMA EngagedIs ==
  ASSUME NEW g \in Games, Stays(g.fleet["ilwrath"], 256, 127),
         g.fleet["thradd"].strength <= 150, NEW w, w = Engaged(g)
  PROVE  LET f == w.fleet["ilwrath"]
             t == w.fleet["thradd"]
             u == g.fleet["thradd"]
         IN  /\ Else(g, w, "thradd") /\ w.state.fight /\ w.state.thradd = g.state.thradd
             /\ Bound(f, "battle", "ilwrath") /\ f.days = 127
             /\ f.loc = g.fleet["ilwrath"].loc /\ f.strength = 256
             /\ f.growth = -2 /\ f.fract = 0 /\ f.err = 127
             /\ t.growth <= 0 /\ t.strength = u.strength /\ t.dest = u.dest
             /\ t.days = u.days /\ t.func = u.func
<1> DEFINE x == SetRaceDest(g, "ilwrath", "battle", 127, "ilwrath")
           yes == TRUE
           y == SetFight(x, yes)
           a == Losing(y.fleet["ilwrath"], 256, 128)
           v == Put(y, "ilwrath", a)
           b == Losing(v.fleet["thradd"], v.fleet["thradd"].strength, 128)
<1>0. /\ "thradd" \in Races /\ "ilwrath" \in Races /\ "thradd" # "ilwrath"
      /\ "thradd" \in Sent("thradd") /\ "ilwrath" \in Sent("thradd") /\ "thradd" \in Courses
      /\ "battle" \in Places /\ "ilwrath" \in Funcs /\ 127 \in Bytes /\ yes \in BOOLEAN
  BY SentIs DEF Races, Places, Funcs, Missions, Bytes, Courses
<1>1. /\ x \in Games /\ x.state = g.state /\ x.fleet["thradd"] = g.fleet["thradd"]
      /\ Bound(x.fleet["ilwrath"], "battle", "ilwrath") /\ x.fleet["ilwrath"].days = 127
      /\ x.fleet["ilwrath"].loc = g.fleet["ilwrath"].loc
      /\ x.fleet["ilwrath"].strength = 256 /\ x.fleet["ilwrath"].err = 127
  BY <1>0, SetRaceDestIs DEF Bound, Stays
<1>2. Else(g, x, "thradd")
  BY <1>0, DestElse
<1>s. g.fleet["ilwrath"].strength = 256
  BY DEF Stays
<1>3. w = Put(v, "thradd", b)
  <2>1. x \in [fleet : [Races -> Fleets], event : [Missions -> Delays], state : States]
    BY <1>1 DEF Games
  <2> HIDE DEF x
  <2>2. w = [x EXCEPT !.state.fight = TRUE,
           !.fleet["ilwrath"] = Losing(@, 256, 128),
           !.fleet["thradd"] = Losing(@, @.strength, 128)]
    BY <1>s DEF Engaged, x
  <2> QED
    BY <1>0, <2>1, <2>2 DEF Put, SetFight, States
<1> HIDE DEF x, yes
<1>4. /\ y \in Games /\ y.fleet = x.fleet /\ y.state.fight = yes
      /\ y.state.thradd = x.state.thradd /\ Else(x, y, "thradd")
  BY <1>0, <1>1, SetFightIs
<1>5. y.fleet["ilwrath"] \in Fleets
  BY <1>0, <1>4, GameParts
<1> HIDE DEF y
<1>6. /\ a \in Fleets /\ a.growth = -2 /\ a.fract = 0 /\ a.err = 127 /\ a.strength = 256
      /\ a.dest = y.fleet["ilwrath"].dest /\ a.days = y.fleet["ilwrath"].days
      /\ a.func = y.fleet["ilwrath"].func /\ a.loc = y.fleet["ilwrath"].loc
  BY <1>1, <1>4, <1>5, IlwrathEngaged
<1> HIDE DEF a
<1>7. /\ v \in Games /\ v.fleet["ilwrath"] = a /\ v.fleet["thradd"] = y.fleet["thradd"]
      /\ v.state = y.state /\ Else(y, v, "thradd")
  BY <1>0, <1>4, <1>6, PutIs, PutElse
<1> HIDE DEF v
<1>8. v.fleet["thradd"] \in Fleets
  BY <1>0, <1>7, GameParts
<1>9. /\ b \in Fleets /\ b.growth <= 0 /\ b.strength = v.fleet["thradd"].strength
      /\ b.dest = v.fleet["thradd"].dest /\ b.days = v.fleet["thradd"].days
      /\ b.func = v.fleet["thradd"].func
  BY <1>1, <1>4, <1>7, <1>8, ThraddEngaged
<1> HIDE DEF b
<1>10. /\ w.fleet["thradd"] = b /\ w.fleet["ilwrath"] = a
       /\ w.state = v.state /\ Else(v, w, "thradd")
  BY <1>0, <1>3, <1>7, <1>9, PutIs, PutElse
<1>11. Else(g, w, "thradd")
  <2>1. Else(g, y, "thradd")
    BY <1>2, <1>4, ElseTrans
  <2>2. Else(g, v, "thradd")
    BY <1>7, <2>1, ElseTrans
  <2> QED
    BY <1>10, <2>2, ElseTrans
<1> QED
  BY <1>1, <1>4, <1>6, <1>7, <1>9, <1>10, <1>11 DEF Bound, yes

(* ilwrath_mission: the fleet sets out.                                    *)
LEMMA IlwrathLeaves ==
  ASSUME NEW g \in Games, ~g.state.fight, g.fleet["ilwrath"] = Home("ilwrath"),
         NEW w, w = IlwrathMission(g)
  PROVE  /\ Else(g, w, "thradd") /\ w.state = g.state
         /\ w.fleet["thradd"] = g.fleet["thradd"]
         /\ Bound(w.fleet["ilwrath"], "front", "ilwrath") /\ w.fleet["ilwrath"].days = 90
         /\ w.fleet["ilwrath"].loc = "ilwrath" /\ Stays(w.fleet["ilwrath"], 256, 127)
<1>0. /\ "thradd" \in Races /\ "ilwrath" \in Races /\ "thradd" # "ilwrath"
      /\ "front" \in Places /\ "ilwrath" \in Funcs /\ 90 \in Bytes /\ "ilwrath" # "battle"
  BY DEF Races, Places, Funcs, Missions, Bytes
<1>1. /\ Home("ilwrath").loc = "ilwrath" /\ Home("ilwrath").dest = "none"
      /\ Home("ilwrath").strength = 256 /\ Home("ilwrath").growth = 0
      /\ Home("ilwrath").fract = 0 /\ Home("ilwrath").err = 127
  BY HomeIs DEF Races, Strength
<1>2. w = SetRaceDest(g, "ilwrath", "front", 90, "ilwrath")
  BY <1>0, <1>1 DEF IlwrathMission
<1>3. Else(g, w, "thradd")
  BY <1>0, <1>2, DestElse
<1> QED
  BY <1>0, <1>1, <1>2, <1>3, SetRaceDestIs DEF Bound, Stays

(* It arrives at the front, and the battle begins.                         *)
LEMMA IlwrathEngages ==
  ASSUME NEW g \in Games, ~g.state.fight, ThraddAlone(g), "kill" \in g.state.said,
         Stays(g.fleet["ilwrath"], 256, 127), g.fleet["ilwrath"].dest = "front",
         g.fleet["ilwrath"].loc = "front", g.fleet["ilwrath"].days = 0,
         NEW w, w = IlwrathMission(g)
  PROVE  Else(g, w, "thradd") /\ ThraddPlot(w, 2)
<1> DEFINE x == Engaged(g)
           t == g.fleet["thradd"]
           n == g.state.thradd
<1>0. t \in Fleets /\ t.strength \in 0 .. 484 /\ t.err \in 0 .. 255 /\ t.days \in 0 .. 255
  BY GameParts, FleetParts DEF Races
<1>1. /\ t.strength \in 1 .. 150
      /\ n \in {0, 1, 2, 3, 4, 5}
      /\ n = 3 => Bound(t, "thradd", "thradd") /\ t.days \in 1 .. 14
  <2>1. CASE n = 0 /\ t = Home("thradd")
    BY <2>1, HomeIs DEF Races, Strength
  <2>2. CASE n = 1 /\ Stays(t, 150, 127)
    BY <2>2 DEF Stays
  <2>3. CASE n = 2 /\ t.days \in 1 .. 14 /\ Fought(t, 150, 5, 91, 14 - t.days)
    <3> DEFINE a == t.strength
               b == t.err
               k == 14 - t.days
    <3>1. a \in 0 .. 484 /\ b \in 0 .. 255 /\ k \in 0 .. 13 /\ 256 * a + b = 38527 - 1371 * k
      BY <1>0, <2>3 DEF Fought
    <3> HIDE DEF a, b, k
    <3>2. a \in 1 .. 150
      BY <3>1
    <3> QED
      BY <2>3, <3>2 DEF a
  <2>4. CASE n = 3 /\ Bound(t, "thradd", "thradd") /\ t.days \in 1 .. 14 /\ Stays(t, 75, 133)
    BY <2>4 DEF Stays
  <2>5. CASE n \in {4, 5} /\ Stays(t, 75, 133)
    BY <2>5 DEF Stays
  <2> QED
    BY <2>1, <2>2, <2>3, <2>4, <2>5 DEF ThraddAlone
<1>2. w = Recalled(x)
  BY DEF IlwrathMission, Engaged, Stays
<1>3. /\ Else(g, x, "thradd") /\ x.state.fight /\ x.state.thradd = n
      /\ Bound(x.fleet["ilwrath"], "battle", "ilwrath") /\ x.fleet["ilwrath"].days = 127
      /\ x.fleet["ilwrath"].loc = "front" /\ x.fleet["ilwrath"].strength = 256
      /\ x.fleet["ilwrath"].growth = -2 /\ x.fleet["ilwrath"].fract = 0
      /\ x.fleet["ilwrath"].err = 127
      /\ x.fleet["thradd"].growth <= 0 /\ x.fleet["thradd"].strength = t.strength
      /\ x.fleet["thradd"].dest = t.dest /\ x.fleet["thradd"].days = t.days
      /\ x.fleet["thradd"].func = t.func
  BY <1>1, EngagedIs
<1>4. x \in Games /\ x.state.said = g.state.said
  BY <1>3 DEF Else
<1> HIDE DEF x
<1>5. /\ Else(x, w, "thradd") /\ w.fleet["ilwrath"] = x.fleet["ilwrath"]
      /\ w.state.fight /\ w.fleet["thradd"].growth <= 0
      /\ w.fleet["thradd"].strength = t.strength
      /\ n = 3 => w = x
      /\ n \in {1, 2} => w.state.thradd = 3 /\ Bound(w.fleet["thradd"], "thradd", "thradd")
                         /\ w.fleet["thradd"].days = 10
      /\ n \in {0, 4, 5} => /\ w.state.thradd = n /\ Bound(w.fleet["thradd"], "battle", "none")
                            /\ w.fleet["thradd"].days = 128
  BY <1>2, <1>3, <1>4, RecalledIs
<1>6. ~Gone(w, "ilwrath") /\ w.fleet["ilwrath"].days = 127
  BY <1>3, <1>5 DEF Gone
<1>7. ThraddCalled(w, 2)
  <2>1. CASE n = 3
    <3>1. w.state.thradd = 3 /\ Bound(w.fleet["thradd"], "thradd", "thradd")
          /\ w.fleet["thradd"].days \in 1 .. 14
      BY <1>1, <1>3, <1>5, <2>1 DEF Bound
    <3> QED
      BY <1>1, <1>5, <1>6, <3>1 DEF ThraddCalled
  <2>2. CASE n \in {1, 2}
    BY <1>1, <1>5, <1>6, <2>2 DEF ThraddCalled
  <2>3. CASE n \in {0, 4, 5}
    BY <1>1, <1>5, <1>6, <2>3 DEF ThraddCalled
  <2> QED
    BY <1>1, <2>1, <2>2, <2>3
<1>8. IlwrathFight(w)
  <2>1. w.state.said = g.state.said
    BY <1>4, <1>5 DEF Else
  <2>2. 256 = 2 + 2 * 127 /\ 127 \in 1 .. 127
    OBVIOUS
  <2> QED
    BY <1>3, <1>5, <2>1, <2>2 DEF IlwrathFight
<1>9. Else(g, w, "thradd")
  BY <1>3, <1>5, ElseTrans
<1> QED
  BY <1>5, <1>7, <1>8, <1>9 DEF ThraddPlot

(* It arrives where the battle ends, for both.                             *)
LEMMA BattleEnds ==
  ASSUME NEW g \in Games, g.state.fight, "kill" \in g.state.said,
         g.fleet["ilwrath"].loc = "battle", g.fleet["thradd"].growth <= 0,
         NEW w, w = IlwrathMission(g)
  PROVE  Else(g, w, "thradd") /\ ThraddPlot(w, 2)
<1>1. w = Destroyed(g, {"ilwrath", "thradd"})
  BY DEF IlwrathMission
<1>2. "ilwrath" \in Races /\ "thradd" \in Races /\ Sent("thradd") = {"thradd", "ilwrath"}
  BY SentIs DEF Races
<1>3. /\ w \in Games /\ w.event = g.event /\ w.state = g.state
      /\ w.fleet["thradd"] = [g.fleet["thradd"] EXCEPT !.strength = 0]
      /\ \A r \in Races : r \notin Sent("thradd") => w.fleet[r] = g.fleet[r]
      /\ Gone(w, "thradd") /\ Gone(w, "ilwrath")
  BY <1>1, <1>2, DestroyedIs
<1>4. g.fleet["thradd"] \in Fleets
  BY <1>2, GameParts
<1>5. w.fleet["thradd"].growth = g.fleet["thradd"].growth
  BY <1>3, <1>4 DEF Fleets
<1>6. ThraddCalled(w, 2)
  BY <1>3, <1>5 DEF ThraddCalled, Gone
<1>7. IlwrathFight(w)
  BY <1>3 DEF IlwrathFight
<1> QED
  BY <1>3, <1>6, <1>7 DEF ThraddPlot, Else

(* The Thraddash are home, and the Ilwrath are told of it.                 *)
LEMMA ThraddReturn ==
  ASSUME NEW g \in Games, g.state.fight, g.state.thradd = 3, IlwrathFight(g),
         ~Gone(g, "ilwrath"), g.fleet["thradd"].growth <= 0,
         g.fleet["thradd"].strength <= 150,
         NEW w, w = ThraddMission(g)
  PROVE  Else(g, w, "thradd") /\ ThraddPlot(w, 1)
<1> DEFINE x == SetThradd(g, 4)
           d == g.fleet["ilwrath"].days
<1>0. 4 \in ThraddStates /\ "ilwrath" \in Races /\ "thradd" \in Races
  BY DEF ThraddStates, Races
<1>1. /\ x \in Games /\ x.fleet = g.fleet /\ x.state.thradd = 4 /\ x.state.fight
      /\ x.state.said = g.state.said /\ Else(g, x, "thradd")
  BY <1>0, SetThraddIs
<1>2. /\ Bound(g.fleet["ilwrath"], "battle", "ilwrath") /\ d \in 1 .. 127
      /\ g.fleet["ilwrath"].loc \in {"front", "away"} /\ g.fleet["ilwrath"].strength # 0
  BY DEF IlwrathFight, Gone
<1>3. w = IlwrathMission(x)
  <2>1. (3 + 1) % 8 = 4
    OBVIOUS
  <2>2. w = Notified(x)
    BY <2>1 DEF ThraddMission, SetThradd
  <2> QED
    BY <1>1, <2>2 DEF Notified
<1> HIDE DEF x
<1>4. w = Recalled(x)
  <2>1. d # 0
    BY <1>2
  <2> QED
    BY <1>1, <1>2, <1>3, <2>1 DEF IlwrathMission
<1>5. d <= 127
  BY <1>2
<1>6. /\ Else(x, w, "thradd") /\ w.fleet["ilwrath"] = x.fleet["ilwrath"] /\ w.state.fight
      /\ w.fleet["thradd"].growth <= 0 /\ w.fleet["thradd"].strength <= 150
      /\ w.state.thradd = 4 /\ Bound(w.fleet["thradd"], "battle", "none")
      /\ w.fleet["thradd"].days = d + 1
  BY <1>1, <1>4, <1>5, RecalledIs
<1>7. ThraddCalled(w, 1)
  <2>1. ~Gone(w, "ilwrath") /\ w.fleet["ilwrath"].days = d
    BY <1>1, <1>6 DEF Gone
  <2>2. d + 1 <= d + 1
    BY <1>2
  <2> QED
    BY <1>6, <2>1, <2>2 DEF ThraddCalled
<1>8. IlwrathFight(w)
  <2>1. w.state.said = g.state.said
    BY <1>1, <1>6 DEF Else
  <2> QED
    BY <1>1, <1>6, <2>1 DEF IlwrathFight, Gone
<1>9. Else(g, w, "thradd")
  BY <1>1, <1>6, ElseTrans
<1> QED
  BY <1>6, <1>7, <1>8, <1>9 DEF ThraddPlot

(* A day of the Thraddash, before the battle                               *)
LEMMA ThraddGrown ==
  ASSUME NEW g \in Games, ~g.state.fight, ThraddAlone(g), NEW w \in Grown(g, "thradd")
  PROVE  /\ Else(g, w, "thradd") /\ w.fleet["ilwrath"] = g.fleet["ilwrath"]
         /\ ~w.state.fight /\ ThraddAlone(w)
<1> DEFINE f == g.fleet["thradd"]
           n == g.state.thradd
           s == Stronger(f)
           m == Moved(s)
           h == Put(g, "thradd", m)
<1>0. /\ "thradd" \in Races /\ "thradd" \in Sent("thradd") /\ "thradd" \in Courses
      /\ f \in Fleets /\ "thradd" # "none" /\ "front2" \in Places /\ "thradd" \in Places
      /\ "ilwrath" \in Races /\ "ilwrath" # "thradd"
  BY GameParts, SentIs DEF Races, Courses, Places
<1>r. Else(g, g, "thradd")
  BY DEF Else
<1>1. CASE n = 0 /\ f = Home("thradd")
  <2>1. w = g
    BY <1>0, <1>1, QuietGrown DEF Quiet
  <2> QED
    BY <1>r, <2>1
<1>2. CASE n \in {4, 5} /\ f.days = 0 /\ Stays(f, 75, 133)
  <2>1. Idle(f)
    BY <1>2 DEF Idle, Stays
  <2>2. w = g
    BY <2>1 DEF Grown
  <2> QED
    BY <1>r, <2>2
<1>3. CASE /\ n \in {1, 2, 3} /\ f.func = "thradd" /\ f.days \in 1 .. 14
           /\ "idea" \in g.state.said
  <2>1. f.dest \in {"front2", "thradd"} /\ (n = 3 <=> f.dest = "thradd")
    BY <1>3, HomeIs DEF ThraddAlone, Bound
  <2>2. /\ s \in Fleets /\ s.strength \in Ships /\ s.days = f.days /\ s.dest = f.dest
        /\ s.func = f.func /\ s.growth = f.growth /\ s.fract = f.fract
        /\ n = 1 => Stays(s, 150, 127)
        /\ n = 3 => Stays(s, 75, 133)
        /\ n = 2 => Fought(s, 150, 5, 91, 15 - f.days)
        /\ s.strength # 0
    <3>1. CASE n = 1
      <4>1. Stays(f, 150, 127)
        BY <1>3, <3>1 DEF ThraddAlone
      <4>2. Stays(s, 150, 127)
        BY <1>0, <4>1, StrongerType, StrongerStays DEF Stays
      <4> QED
        BY <1>0, <3>1, <4>1, <4>2, StrongerType DEF Stays, Fleets
    <3>2. CASE n = 3
      <4>1. Stays(f, 75, 133)
        BY <1>3, <3>2 DEF ThraddAlone
      <4>2. Stays(s, 75, 133)
        BY <1>0, <4>1, StrongerType, StrongerStays DEF Stays
      <4> QED
        BY <1>0, <3>2, <4>1, <4>2, StrongerType DEF Stays, Fleets
    <3>3. CASE n = 2
      <4> DEFINE x == f.strength
                 y == f.err
                 k == 14 - f.days
      <4>1. x \in 0 .. 484 /\ y \in 0 .. 255 /\ k \in 0 .. 13
        BY <1>0, <1>3, FleetParts
      <4>2. /\ f.growth = -5 /\ f.fract = 91 /\ 256 * x + y = 38527 - 1371 * k
        BY <1>3, <3>3 DEF ThraddAlone, Fought
      <4> HIDE DEF x, y, k
      <4>3. y # 0 /\ y # 91 /\ x - 5 > 1
        BY <4>1, <4>2
      <4>4. /\ s \in Fleets /\ s.strength <= f.strength /\ s.days = f.days
            /\ s.dest = f.dest /\ s.func = f.func /\ s.growth = f.growth /\ s.fract = f.fract
        <5>1. f.growth <= 0
          BY <4>2
        <5> QED
          BY <1>0, <5>1, StrongerType
      <4>5. 256 * s.strength + s.err = 256 * f.strength + f.err + 256 * (-5) - 91
        <5>1. f.growth <= 0 /\ f.err # 0 /\ f.err # f.fract /\ f.strength + f.growth > 1
          BY <4>1, <4>2, <4>3 DEF x, y
        <5> QED
          BY <1>0, <4>2, <5>1, StrongerFought
      <4> DEFINE a == s.strength
                 b == s.err
      <4>6. a \in 0 .. 484 /\ b \in 0 .. 255
        BY <4>4, FleetParts
      <4>7. 256 * a + b = 38527 - 1371 * (k + 1)
        <5>1. 256 * a + b = 256 * x + y + 256 * (-5) - 91
          BY <4>5 DEF x, y
        <5> HIDE DEF a, b
        <5> QED
          <6>1. 1371 * (k + 1) = 1371 * k + 1371
            BY <4>1
          <6>2. 256 * x + y = 38527 - 1371 * k
            BY <4>2
          <6> QED
            BY <4>1, <4>6, <5>1, <6>1, <6>2
      <4>8. a # 0
        <5> HIDE DEF a, b
        <5> QED
          BY <4>1, <4>6, <4>7
      <4>9. Fought(s, 150, 5, 91, 15 - f.days)
        <5>1. k + 1 = 15 - f.days
          BY <1>3 DEF k
        <5>2. 256 * a + b = 256 * 150 + 127 - (256 * 5 + 91) * (15 - f.days)
          BY <4>1, <4>7, <5>1
        <5> QED
          BY <4>2, <4>4, <5>2 DEF Fought
      <4> QED
        BY <3>3, <4>4, <4>8, <4>9 DEF Fleets
    <3> QED
      BY <1>3, <3>1, <3>2, <3>3
  <2>3. ~Idle(f)
    <3>1. f.strength # 0
      <4>1. f.growth <= 0
        <5>1. s.growth \in {0, 0 - 5}
          BY <1>3, <2>2 DEF Stays, Fought
        <5> QED
          BY <2>2, <5>1
      <4>2. s.strength <= f.strength
        BY <1>0, <4>1, StrongerType
      <4>3. s.strength \in 0 .. 484 /\ s.strength # 0
        BY <2>2 DEF Ships
      <4> QED
        BY <4>2, <4>3
    <3> QED
      BY <1>3, <3>1 DEF Idle
  <2> HIDE DEF s
  <2>4. /\ m \in Fleets /\ m.days = f.days - 1 /\ m.dest = f.dest /\ m.func = "thradd"
        /\ m.strength = s.strength /\ m.growth = s.growth /\ m.fract = s.fract
        /\ m.err = s.err
    <3>1. s.dest \in Places /\ s.days > 0
      BY <1>0, <1>3, <2>1, <2>2
    <3> QED
      BY <1>3, <2>2, <3>1, MovedIs
  <2>5. /\ n = 1 => Stays(m, 150, 127)
        /\ n = 3 => Stays(m, 75, 133)
        /\ n = 2 => Fought(m, 150, 5, 91, 15 - f.days)
    BY <2>2, <2>4 DEF Stays, Fought
  <2> HIDE DEF m
  <2>6. \/ f.days # 1 /\ w = h
        \/ f.days = 1 /\ w = ThraddMission(h)
    <3>1. s.days # 0 /\ s.func = "thradd" /\ s.days = f.days
      BY <1>3, <2>2
    <3>2. \/ s.days # 1 /\ w = h
          \/ s.days = 1 /\ w \in Handle(h, "thradd")
      BY <1>0, <2>2, <2>3, <3>1, GrownIs DEF s, m
    <3> QED
      BY <3>1, <3>2 DEF Handle
  <2>7. /\ h \in Games /\ h.fleet["thradd"] = m /\ h.state = g.state
        /\ h.fleet["ilwrath"] = g.fleet["ilwrath"] /\ Else(g, h, "thradd")
    BY <1>0, <2>4, PutIs, PutElse
  <2> HIDE DEF h
  <2>8. CASE f.days # 1
    <3>1. m.days \in 1 .. 14 /\ 14 - m.days = 15 - f.days
      BY <1>3, <2>4, <2>8
    <3>2. w = h
      BY <2>6, <2>8
    <3>3. ThraddAlone(h)
      <4>1. n = 2 => Fought(m, 150, 5, 91, 14 - m.days)
        BY <2>5, <3>1
      <4> QED
        BY <1>3, <2>1, <2>4, <2>5, <2>7, <3>1, <4>1 DEF ThraddAlone, Bound
    <3> QED
      BY <2>7, <3>2, <3>3
  <2>9. CASE f.days = 1
    <3> DEFINE t == w.fleet["thradd"]
    <3>1. w = ThraddMission(h) /\ m.days = 0
      BY <2>4, <2>6, <2>9
    <3>2. ~h.state.fight /\ h.fleet["thradd"].strength # 0 /\ h.state.thradd = n
      BY <2>2, <2>4, <2>7
    <3>3. CASE n = 1
      <4>1. /\ Else(h, w, "thradd") /\ w.fleet["ilwrath"] = h.fleet["ilwrath"]
            /\ ~w.state.fight /\ w.state.thradd = 2
            /\ Bound(t, "front2", "thradd") /\ t.days = 14 /\ Fought(t, 150, 5, 91, 0)
        BY <2>5, <2>7, <3>1, <3>2, <3>3, ThraddMissionIs
      <4>2. 14 - 14 = 0 /\ 14 \in 1 .. 14
        OBVIOUS
      <4>3. w.state.said = g.state.said
        BY <2>7, <4>1 DEF Else
      <4>4. ThraddAlone(w)
        BY <1>3, <4>1, <4>2, <4>3 DEF ThraddAlone
      <4> QED
        BY <2>7, <4>1, <4>4, ElseTrans
    <3>4. CASE n = 2
      <4>0. m.strength = 75 /\ m.err = 133
        <5> DEFINE a == m.strength
                   b == m.err
        <5>1. a \in 0 .. 484 /\ b \in 0 .. 255 /\ 256 * a + b = 19333
          BY <2>4, <2>5, <2>9, <3>4, FleetParts DEF Fought
        <5> HIDE DEF a, b
        <5>2. a = 75 /\ b = 133
          BY <5>1
        <5> QED
          BY <5>2 DEF a, b
      <4>1. /\ Else(h, w, "thradd") /\ w.fleet["ilwrath"] = h.fleet["ilwrath"]
            /\ ~w.state.fight /\ w.state.thradd = 3
            /\ Bound(t, "thradd", "thradd") /\ t.days = 14 /\ Stays(t, 75, 133)
        BY <2>7, <3>1, <3>2, <3>4, <4>0, ThraddMissionIs
      <4>2. 14 \in 1 .. 14
        OBVIOUS
      <4>3. w.state.said = g.state.said
        BY <2>7, <4>1 DEF Else
      <4>4. ThraddAlone(w)
        BY <1>3, <4>1, <4>2, <4>3 DEF ThraddAlone
      <4> QED
        BY <2>7, <4>1, <4>4, ElseTrans
    <3>5. CASE n = 3
      <4>1. Else(h, w, "thradd") /\ w.fleet = h.fleet /\ ~w.state.fight /\ w.state.thradd = 4
        BY <2>7, <3>1, <3>2, <3>5, ThraddMissionIs
      <4>3. w.state.said = g.state.said
        BY <2>7, <4>1 DEF Else
      <4>4. ThraddAlone(w)
        BY <1>3, <2>5, <2>7, <3>1, <3>5, <4>1, <4>3 DEF ThraddAlone
      <4> QED
        BY <2>7, <4>1, <4>4, ElseTrans
    <3> QED
      BY <1>3, <3>3, <3>4, <3>5
  <2> QED
    BY <2>8, <2>9
<1> QED
  BY <1>1, <1>2, <1>3 DEF ThraddAlone, Bound

(* A day of the Thraddash, during it                                       *)
LEMMA CalledGrown ==
  ASSUME NEW g \in Games, g.state.fight, ThraddCalled(g, 2), IlwrathFight(g),
         NEW w \in Grown(g, "thradd")
  PROVE  Else(g, w, "thradd") /\ ThraddPlot(w, 1)
<1> DEFINE f == g.fleet["thradd"]
           d == g.fleet["ilwrath"].days
           n == g.state.thradd
           s == Stronger(f)
           m == Moved(s)
           h == Put(g, "thradd", m)
<1>0. /\ "thradd" \in Races /\ "thradd" \in Sent("thradd") /\ "thradd" \in Courses
      /\ f \in Fleets /\ "thradd" # "none" /\ "battle" \in Places /\ "thradd" \in Places
      /\ "ilwrath" \in Races /\ "ilwrath" # "thradd" /\ f.growth <= 0 /\ f.strength <= 150
  BY GameParts, SentIs DEF Races, Courses, Places, ThraddCalled
<1>d. d \in 0 .. 255 /\ f.days \in 0 .. 255
  BY <1>0, GameParts, FleetParts
<1>r. Else(g, g, "thradd")
  BY DEF Else
<1>1. CASE Gone(g, "thradd")
  <2>1. w = g
    BY <1>1 DEF Grown, Idle, Gone
  <2>2. ThraddCalled(g, 1)
    BY <1>1 DEF ThraddCalled
  <2> QED
    BY <1>r, <2>1, <2>2 DEF ThraddPlot
<1>2. CASE ~Gone(g, "thradd")
  <2>1. /\ ~Gone(g, "ilwrath")
        /\ \/ n = 3 /\ Bound(f, "thradd", "thradd") /\ f.days \in 1 .. 14
           \/ n \in {0, 4, 5} /\ Bound(f, "battle", "none") /\ f.days <= d + 2
    BY <1>2 DEF ThraddCalled
  <2>2. /\ s \in Fleets /\ s.strength \in Ships /\ s.strength <= 150 /\ s.days = f.days
        /\ s.dest = f.dest /\ s.func = f.func /\ s.growth = f.growth
    <3>1. s \in Fleets /\ s.strength <= f.strength /\ s.days = f.days
          /\ s.dest = f.dest /\ s.func = f.func /\ s.growth = f.growth
      BY <1>0, StrongerType
    <3>2. s.strength \in 0 .. 484 /\ f.strength \in 0 .. 484
      BY <1>0, <3>1, FleetParts
    <3>3. s.strength <= 150
      <4> DEFINE a == s.strength
                 b == f.strength
      <4>1. a \in 0 .. 484 /\ b \in 0 .. 484 /\ a <= b /\ b <= 150
        BY <1>0, <3>1, <3>2
      <4> HIDE DEF a, b
      <4>2. a <= 150
        BY <4>1
      <4> QED
        BY <4>2 DEF a
    <3> QED
      BY <3>1, <3>2, <3>3 DEF Ships
  <2>3. CASE w = g /\ f.days = 0
    <3>1. n \in {0, 4, 5} /\ Bound(f, "battle", "none") /\ f.days <= d + 1
      BY <1>d, <2>1, <2>3
    <3>2. ThraddCalled(g, 1)
      BY <1>0, <2>1, <3>1 DEF ThraddCalled
    <3> QED
      BY <1>r, <2>3, <3>2 DEF ThraddPlot
  <2>4. CASE w = Put(g, "thradd", s) /\ (s.strength = 0 \/ s.days = 0)
    <3> HIDE DEF s
    <3>1. /\ w.fleet["thradd"] = s /\ w.fleet["ilwrath"] = g.fleet["ilwrath"]
          /\ w.state = g.state /\ Else(g, w, "thradd")
      BY <1>0, <2>2, <2>4, PutIs, PutElse
    <3>2. IlwrathFight(w)
      BY <3>1 DEF IlwrathFight, Gone
    <3>3. ThraddCalled(w, 1)
      <4>1. CASE s.strength = 0
        BY <1>0, <2>2, <3>1, <4>1 DEF ThraddCalled, Gone
      <4>2. CASE s.days = 0
        <5>1. n \in {0, 4, 5} /\ Bound(s, "battle", "none") /\ s.days <= d + 1
          BY <1>d, <2>1, <2>2, <4>2 DEF Bound
        <5> QED
          BY <1>0, <2>1, <2>2, <3>1, <5>1 DEF ThraddCalled, Gone
      <4> QED
        BY <2>4, <4>1, <4>2
    <3> QED
      BY <3>1, <3>2, <3>3 DEF ThraddPlot
  <2>5. CASE /\ ~Idle(f) /\ s.strength # 0 /\ s.days # 0
             /\ \/ (s.days # 1 \/ s.func = "none") /\ w = h
                \/ s.days = 1 /\ s.func # "none" /\ w \in Handle(h, s.func)
    <3> HIDE DEF s
    <3>1. /\ m \in Fleets /\ m.days = f.days - 1 /\ m.dest = f.dest /\ m.func = f.func
          /\ m.strength = s.strength /\ m.growth = f.growth
      <4>1. s.dest \in Places /\ s.days > 0
        BY <1>0, <1>d, <2>1, <2>2, <2>5 DEF Bound
      <4> QED
        BY <2>2, <4>1, MovedIs
    <3> HIDE DEF m
    <3>2. /\ h \in Games /\ h.fleet["thradd"] = m /\ h.state = g.state
          /\ h.fleet["ilwrath"] = g.fleet["ilwrath"] /\ Else(g, h, "thradd")
      BY <1>0, <3>1, PutIs, PutElse
    <3> HIDE DEF h
    <3>3. IlwrathFight(h) /\ ~Gone(h, "ilwrath")
      BY <2>1, <3>2 DEF IlwrathFight, Gone
    <3>4. CASE w = h /\ (s.days # 1 \/ s.func = "none")
      <4>1. CASE n = 3
        <5>1. Bound(m, "thradd", "thradd") /\ m.days \in 1 .. 14
          BY <1>0, <2>1, <2>2, <3>1, <3>4, <4>1 DEF Bound
        <5>2. ThraddCalled(h, 1)
          BY <1>0, <2>2, <3>1, <3>2, <3>3, <4>1, <5>1 DEF ThraddCalled
        <5> QED
          BY <3>2, <3>3, <3>4, <5>2 DEF ThraddPlot
      <4>2. CASE n \in {0, 4, 5}
        <5>1. Bound(m, "battle", "none") /\ m.days <= d + 1
          <6>1. f.days <= d + 2 /\ Bound(f, "battle", "none")
            BY <2>1, <4>2
          <6>2. f.days - 1 <= d + 1
            <7> DEFINE k == f.days
            <7>1. k <= d + 2 /\ k \in 0 .. 255 /\ d \in 0 .. 255
              BY <1>d, <6>1
            <7> HIDE DEF k, d
            <7>2. k - 1 <= d + 1
              BY <7>1
            <7> QED
              BY <7>2 DEF k
          <6> QED
            BY <3>1, <6>1, <6>2 DEF Bound
        <5>2. ThraddCalled(h, 1)
          BY <1>0, <2>2, <3>1, <3>2, <3>3, <4>2, <5>1 DEF ThraddCalled
        <5> QED
          BY <3>2, <3>3, <3>4, <5>2 DEF ThraddPlot
      <4> QED
        BY <2>1, <4>1, <4>2
    <3>5. CASE s.days = 1 /\ s.func # "none" /\ w \in Handle(h, s.func)
      <4>1. n = 3 /\ s.func = "thradd"
        BY <2>1, <2>2, <3>5 DEF Bound
      <4>2. w = ThraddMission(h)
        BY <3>5, <4>1 DEF Handle
      <4>3. Else(h, w, "thradd") /\ ThraddPlot(w, 1)
        BY <1>0, <2>2, <3>1, <3>2, <3>3, <4>1, <4>2, ThraddReturn
      <4> QED
        BY <3>2, <4>3, ElseTrans
    <3> QED
      BY <2>5, <3>4, <3>5
  <2> QED
    <3>1. \/ Idle(f) /\ w = g
          \/ w = Put(g, "thradd", s) /\ (s.strength = 0 \/ s.days = 0)
          \/ /\ ~Idle(f) /\ s.strength # 0 /\ s.days # 0
             /\ \/ (s.days # 1 \/ s.func = "none") /\ w = h
                \/ s.days = 1 /\ s.func # "none" /\ w \in Handle(h, s.func)
      BY <1>0, GrownIs
    <3>2. Idle(f) => f.days = 0
      BY <1>2 DEF Idle, Gone
    <3> QED
      BY <2>3, <2>4, <2>5, <3>1, <3>2
<1> QED
  BY <1>1, <1>2

(* A day of the Ilwrath                                                    *)
LEMMA IlwrathComes ==
  ASSUME NEW g \in Games, ~g.state.fight, ThraddAlone(g), IlwrathAlone(g),
         NEW w \in Grown(g, "ilwrath")
  PROVE  Else(g, w, "thradd") /\ ThraddPlot(w, 2)
<1> DEFINE f == g.fleet["ilwrath"]
           s == Stronger(f)
           m == Moved(s)
           h == Put(g, "ilwrath", m)
<1>0. /\ "ilwrath" \in Races /\ "ilwrath" \in Sent("thradd") /\ "thradd" \in Courses
      /\ f \in Fleets /\ "ilwrath" # "none" /\ "front" \in Places
      /\ "thradd" \in Races /\ "ilwrath" # "thradd"
      /\ "front" # "ilwrath" /\ "front" # "away"
  BY GameParts, SentIs DEF Races, Courses, Places
<1>1. CASE f = Home("ilwrath")
  <2>1. w = g
    BY <1>0, <1>1, QuietGrown DEF Quiet
  <2> QED
    BY <2>1 DEF ThraddPlot, Else
<1>2. CASE /\ "kill" \in g.state.said /\ Stays(f, 256, 127)
           /\ Bound(f, "front", "ilwrath") /\ f.days \in 1 .. 90
           /\ f.loc \in {"ilwrath", "away"}
  <2>1. /\ s \in Fleets /\ Stays(s, 256, 127) /\ s.days = f.days
        /\ s.func = "ilwrath" /\ s.dest = "front" /\ s.loc = f.loc
    BY <1>0, <1>2, StrongerType, StrongerStays DEF Stays, Bound
  <2>2. ~Idle(f)
    BY <1>2 DEF Idle, Stays
  <2> HIDE DEF s
  <2>3. /\ m \in Fleets /\ m.days = f.days - 1 /\ Stays(m, 256, 127)
        /\ Bound(m, "front", "ilwrath")
        /\ m.loc = IF f.days = 1 THEN "front" ELSE "away"
    <3>1. s.dest \in Places /\ s.days > 0
      BY <1>0, <1>2, <2>1
    <3> QED
      BY <1>0, <1>2, <2>1, <3>1, MovedIs DEF Stays, Bound
  <2> HIDE DEF m
  <2>4. \/ f.days # 1 /\ w = h
        \/ f.days = 1 /\ w = IlwrathMission(h)
    <3>1. s.days # 0 /\ s.strength # 0 /\ s.func = "ilwrath" /\ s.days = f.days
      BY <1>2, <2>1 DEF Stays
    <3>2. \/ s.days # 1 /\ w = h
          \/ s.days = 1 /\ w \in Handle(h, "ilwrath")
      BY <1>0, <2>2, <3>1, GrownIs DEF s, m
    <3> QED
      BY <3>1, <3>2 DEF Handle
  <2>5. /\ h \in Games /\ h.fleet["ilwrath"] = m /\ h.state = g.state
        /\ h.fleet["thradd"] = g.fleet["thradd"] /\ Else(g, h, "thradd")
    BY <1>0, <2>3, PutIs, PutElse
  <2> HIDE DEF h
  <2>6. ThraddAlone(h)
    BY <2>5 DEF ThraddAlone
  <2>7. CASE f.days # 1
    <3>1. m.days \in 1 .. 90 /\ m.loc = "away"
      BY <1>2, <2>3, <2>7
    <3>2. IlwrathAlone(h)
      BY <1>2, <2>3, <2>5, <3>1 DEF IlwrathAlone
    <3> QED
      BY <2>4, <2>5, <2>6, <2>7, <3>2 DEF ThraddPlot
  <2>8. CASE f.days = 1
    <3>1. m.days = 0 /\ m.loc = "front"
      BY <2>3, <2>8
    <3>2. Else(h, w, "thradd") /\ ThraddPlot(w, 2)
      BY <1>2, <2>3, <2>4, <2>5, <2>6, <2>8, <3>1, IlwrathEngages DEF Bound
    <3> QED
      BY <2>5, <3>2, ElseTrans
  <2> QED
    BY <2>7, <2>8
<1> QED
  BY <1>1, <1>2 DEF IlwrathAlone

LEMMA IlwrathFights ==
  ASSUME NEW g \in Games, g.state.fight, ThraddCalled(g, 1), IlwrathFight(g),
         NEW w \in Grown(g, "ilwrath")
  PROVE  Else(g, w, "thradd") /\ ThraddPlot(w, 2)
<1> DEFINE f == g.fleet["ilwrath"]
           t == g.fleet["thradd"]
           s == Stronger(f)
           m == Moved(s)
           h == Put(g, "ilwrath", m)
<1>0. /\ "ilwrath" \in Races /\ "ilwrath" \in Sent("thradd") /\ "thradd" \in Courses
      /\ f \in Fleets /\ "ilwrath" # "none" /\ "battle" \in Places
      /\ "thradd" \in Races /\ "ilwrath" # "thradd"
      /\ "battle" # "away" /\ "battle" # "front"
  BY GameParts, SentIs DEF Races, Courses, Places
<1>d. f.days \in 0 .. 255 /\ t.days \in 0 .. 255
  BY <1>0, GameParts, FleetParts
<1>1. CASE Gone(g, "ilwrath")
  <2>1. w = g
    BY <1>1 DEF Grown, Idle, Gone
  <2>2. ThraddCalled(g, 2)
    BY <1>1 DEF ThraddCalled
  <2> QED
    BY <2>1, <2>2 DEF ThraddPlot, Else
<1>2. CASE ~Gone(g, "ilwrath")
  <2>1. /\ "kill" \in g.state.said /\ Bound(f, "battle", "ilwrath") /\ f.days \in 1 .. 127
        /\ f.loc \in {"front", "away"} /\ f.strength = 2 + 2 * f.days
        /\ f.growth = -2 /\ f.fract = 0 /\ f.err = 127
    BY <1>2 DEF IlwrathFight
  <2>2. /\ s \in Fleets /\ s.strength = 2 * f.days /\ s.days = f.days
        /\ s.func = "ilwrath" /\ s.dest = "battle" /\ s.loc = f.loc
        /\ s.growth = -2 /\ s.fract = 0 /\ s.err = 127
    <3>1. f.growth <= 0
      BY <2>1
    <3>2. /\ s \in Fleets /\ s.days = f.days /\ s.func = f.func /\ s.dest = f.dest
          /\ s.loc = f.loc /\ s.growth = f.growth /\ s.fract = f.fract
      BY <1>0, <3>1, StrongerType
    <3>3. s.strength = 2 * f.days
      <4>1. ~(f.err <= f.fract)
        BY <2>1
      <4>2. s.strength = IF f.strength + f.growth <= 0 THEN 0 ELSE f.strength + f.growth
        BY <1>0, <4>1, StrongerIs
      <4> QED
        BY <2>1, <4>2
    <3>4. s.err = 127
      <4>1. s.err = (f.err - f.fract) % 256
        BY <1>0, StrongerIs
      <4>2. f.err - f.fract = 127
        BY <2>1
      <4>3. 127 % 256 = 127
        OBVIOUS
      <4> QED
        BY <4>1, <4>2, <4>3
    <3> QED
      BY <2>1, <3>2, <3>3, <3>4 DEF Bound
  <2>3. ~Idle(f)
    BY <2>1 DEF Idle
  <2> HIDE DEF s
  <2>4. /\ m \in Fleets /\ m.days = f.days - 1 /\ m.strength = 2 * f.days
        /\ m.growth = -2 /\ m.fract = 0 /\ m.err = 127
        /\ Bound(m, "battle", "ilwrath")
        /\ m.loc = IF f.days = 1 THEN "battle" ELSE "away"
    <3>1. s.dest \in Places /\ s.days > 0
      BY <1>0, <2>1, <2>2
    <3>2. s.dest # s.loc
      BY <1>0, <2>1, <2>2
    <3> QED
      BY <2>2, <3>1, <3>2, MovedIs DEF Bound
  <2> HIDE DEF m
  <2>5. \/ f.days # 1 /\ w = h
        \/ f.days = 1 /\ w = IlwrathMission(h)
    <3>1. s.days # 0 /\ s.strength # 0 /\ s.func = "ilwrath" /\ s.days = f.days
      BY <2>1, <2>2
    <3>2. \/ s.days # 1 /\ w = h
          \/ s.days = 1 /\ w \in Handle(h, "ilwrath")
      BY <1>0, <2>3, <3>1, GrownIs DEF s, m
    <3> QED
      BY <3>1, <3>2 DEF Handle
  <2>6. /\ h \in Games /\ h.fleet["ilwrath"] = m /\ h.state = g.state
        /\ h.fleet["thradd"] = t /\ Else(g, h, "thradd")
    BY <1>0, <2>4, PutIs, PutElse
  <2> HIDE DEF h
  <2>7. CASE f.days # 1
    <3>1. /\ m.days \in 1 .. 127 /\ m.loc = "away" /\ m.strength = 2 + 2 * m.days
          /\ m.days + 2 = f.days + 1 /\ m.strength # 0
      BY <2>1, <2>4, <2>7
    <3>2. IlwrathFight(h)
      BY <2>1, <2>4, <2>6, <3>1 DEF IlwrathFight
    <3>3. ~Gone(h, "ilwrath")
      BY <2>6, <3>1 DEF Gone
    <3>4. t.growth <= 0 /\ t.strength <= 150
      BY DEF ThraddCalled
    <3>5. CASE Gone(g, "thradd")
      <4>1. ThraddCalled(h, 2)
        BY <2>6, <3>4, <3>5 DEF ThraddCalled, Gone
      <4> QED
        BY <2>5, <2>6, <2>7, <3>2, <4>1 DEF ThraddPlot
    <3>6. CASE ~Gone(g, "thradd")
      <4>1. \/ /\ g.state.thradd = 3 /\ Bound(t, "thradd", "thradd") /\ t.days \in 1 .. 14
            \/ /\ g.state.thradd \in {0, 4, 5}
               /\ Bound(t, "battle", "none") /\ t.days <= f.days + 1
        BY <3>6 DEF ThraddCalled
      <4>2. ThraddCalled(h, 2)
        BY <2>6, <3>1, <3>3, <3>4, <4>1 DEF ThraddCalled
      <4> QED
        BY <2>5, <2>6, <2>7, <3>2, <4>2 DEF ThraddPlot
    <3> QED
      BY <3>5, <3>6
  <2>8. CASE f.days = 1
    <3>1. m.loc = "battle" /\ w = IlwrathMission(h)
      BY <2>4, <2>5, <2>8
    <3>2. t.growth <= 0
      BY DEF ThraddCalled
    <3>3. Else(h, w, "thradd") /\ ThraddPlot(w, 2)
      BY <2>1, <2>6, <3>1, <3>2, BattleEnds
    <3> QED
      BY <2>6, <3>3, ElseTrans
  <2> QED
    BY <2>7, <2>8
<1> QED
  BY <1>1, <1>2

(* The plot depends on little.                                             *)
LEMMA ThraddSame ==
  ASSUME NEW g, NEW h, NEW d, h.fleet = g.fleet, h.state = g.state, ThraddPlot(g, d)
  PROVE  ThraddPlot(h, d)
BY DEF ThraddPlot, ThraddAlone, ThraddCalled, IlwrathAlone, IlwrathFight, Gone

LEMMA ThraddTurn ==
  ASSUME NEW g \in Games, ThraddPlot(g, 2), NEW w \in Grown(g, "thradd")
  PROVE  Else(g, w, "thradd") /\ ThraddPlot(w, 1)
<1>1. CASE g.state.fight
  BY <1>1, CalledGrown DEF ThraddPlot
<1>2. CASE ~g.state.fight
  <2>1. /\ Else(g, w, "thradd") /\ w.fleet["ilwrath"] = g.fleet["ilwrath"]
        /\ ~w.state.fight /\ ThraddAlone(w)
    BY <1>2, ThraddGrown DEF ThraddPlot
  <2>2. IlwrathAlone(w)
    BY <1>2, <2>1 DEF ThraddPlot, IlwrathAlone, Else
  <2> QED
    BY <2>1, <2>2 DEF ThraddPlot
<1> QED
  BY <1>1, <1>2

LEMMA IlwrathTurn ==
  ASSUME NEW g \in Games, ThraddPlot(g, 1), NEW w \in Grown(g, "ilwrath")
  PROVE  Else(g, w, "thradd") /\ ThraddPlot(w, 2)
BY IlwrathComes, IlwrathFights DEF ThraddPlot

LEMMA ThraddDay ==
  ASSUME MissionsInv, plot = "thradd", NEW w \in Passed(Game)
  PROVE  w \in Games /\ Aside(w, "thradd") /\ OnCourse(w, "thradd")
<1>0. /\ Game \in Games /\ Aside(Game, "thradd") /\ ThraddPlot(Game, 2)
      /\ "thradd" \in Missions /\ "thradd" \in Courses
      /\ Game.fleet = fleet /\ Game.event = event /\ Game.state = state
  BY DEF MissionsInv, OnCourse, Missions, Courses, Game
<1>1. PICK h \in Happened({Game}) :
         \E h1 \in Grown(h, "pkunk") :
         \E h2 \in Grown(h1, "supox") :
         \E h3 \in Grown(h2, "thradd") :
         \E h4 \in Grown(h3, "utwig") :
         \E h5 \in Grown(h4, "druuge") :
         \E h6 \in Grown(h5, "ilwrath") :
         \E h7 \in Grown(h6, "mycon") : w \in Grown(h7, "kohrah")
  BY AllGrownIs DEF Passed
<1>2. \A m \in Missions : event[m] = 0
  BY <1>0 DEF Aside
<1>3. h = Begun
  BY <1>0, <1>2, StoryEvent
<1>4. h \in Games /\ Aside(h, "thradd") /\ ThraddPlot(h, 2)
  BY <1>0, <1>3, BegunIs, BegunAside, ThraddSame
<1>5. {"pkunk", "supox", "utwig", "druuge", "mycon", "kohrah"}
        \subseteq Races \ Sent("thradd")
  BY SentIs DEF Races
<1>6. \A r \in Races \ Sent("thradd") : \A x \in Grown(h, r) : x = h
  BY <1>4, AsideGrown
<1>7. PICK h3 \in Grown(h, "thradd") :
         \E h4 \in Grown(h3, "utwig") :
         \E h5 \in Grown(h4, "druuge") :
         \E h6 \in Grown(h5, "ilwrath") :
         \E h7 \in Grown(h6, "mycon") : w \in Grown(h7, "kohrah")
  <2>1. \A x \in Grown(h, "pkunk") : x = h
    BY <1>5, <1>6
  <2>2. \A x \in Grown(h, "supox") : x = h
    BY <1>5, <1>6
  <2> QED
    BY <1>1, <2>1, <2>2
<1>8. Else(h, h3, "thradd") /\ ThraddPlot(h3, 1)
  BY <1>4, <1>7, ThraddTurn
<1>9. h3 \in Games /\ Aside(h3, "thradd")
  BY <1>0, <1>4, <1>8, ElseAside DEF Else
<1>10. \A r \in Races \ Sent("thradd") : \A x \in Grown(h3, r) : x = h3
  BY <1>9, AsideGrown
<1>11. PICK h6 \in Grown(h3, "ilwrath") :
         \E h7 \in Grown(h6, "mycon") : w \in Grown(h7, "kohrah")
  <2>1. \A x \in Grown(h3, "utwig") : x = h3
    BY <1>5, <1>10
  <2>2. \A x \in Grown(h3, "druuge") : x = h3
    BY <1>5, <1>10
  <2> QED
    BY <1>7, <2>1, <2>2
<1>12. Else(h3, h6, "thradd") /\ ThraddPlot(h6, 2)
  BY <1>8, <1>9, <1>11, IlwrathTurn
<1>13. h6 \in Games /\ Aside(h6, "thradd")
  BY <1>0, <1>9, <1>12, ElseAside DEF Else
<1>14. \A r \in Races \ Sent("thradd") : \A x \in Grown(h6, r) : x = h6
  BY <1>13, AsideGrown
<1>15. w = h6
  <2>1. \A x \in Grown(h6, "mycon") : x = h6
    BY <1>5, <1>14
  <2>2. \A x \in Grown(h6, "kohrah") : x = h6
    BY <1>5, <1>14
  <2> QED
    BY <1>11, <2>1, <2>2
<1> QED
  BY <1>12, <1>13, <1>15 DEF OnCourse

(* The conversations                                                       *)
LEMMA ThraddTold ==
  ASSUME MissionsInv, SendThradd
  PROVE  MissionsInv'
<1>1. /\ plot = "thradd" /\ "idea" \notin Game.state.said /\ ~Game.state.fight
      /\ Says("idea", {ThraddMission(Game)})
  BY DEF SendThradd, Says, Game
<1>2. Game \in Games /\ Aside(Game, "thradd") /\ ThraddPlot(Game, 2)
  BY <1>1 DEF MissionsInv, OnCourse
<1> DEFINE x == ThraddMission(Game)
           h == Told(x, "idea")
<1>3. /\ Game.state.thradd = 0 /\ Game.fleet["thradd"] = Home("thradd")
      /\ IlwrathAlone(Game)
  BY <1>1, <1>2 DEF ThraddPlot, ThraddAlone
<1>4. Stays(Game.fleet["thradd"], 150, 127) /\ Game.fleet["thradd"].strength # 0
  BY <1>3, HomeIs DEF Races, Strength, Stays
<1>5. /\ Else(Game, x, "thradd") /\ x.fleet["ilwrath"] = Game.fleet["ilwrath"]
      /\ ~x.state.fight /\ x.state.thradd = 1
      /\ Bound(x.fleet["thradd"], "front2", "thradd") /\ x.fleet["thradd"].days = 14
      /\ Stays(x.fleet["thradd"], 150, 127)
  BY <1>1, <1>2, <1>3, <1>4, ThraddMissionIs
<1>6. x \in Games /\ Aside(x, "thradd") /\ "idea" \in Phrases /\ "idea" # "kill"
      /\ x.state.said = Game.state.said
  BY <1>2, <1>5, ElseAside DEF Else, Courses, Phrases
<1> HIDE DEF x
<1>7. /\ h \in Games /\ Aside(h, "thradd") /\ h.fleet = x.fleet
      /\ h.state.thradd = 1 /\ ~h.state.fight /\ h.state.said = Game.state.said \cup {"idea"}
  BY <1>5, <1>6, ToldAside, SaidIs
<1> HIDE DEF h
<1>8. ThraddAlone(h)
  BY <1>5, <1>7 DEF ThraddAlone
<1>9. IlwrathAlone(h)
  BY <1>3, <1>5, <1>6, <1>7 DEF IlwrathAlone
<1>10. OnCourse(h, "thradd")
  BY <1>7, <1>8, <1>9 DEF OnCourse, ThraddPlot
<1> QED
  BY <1>1, <1>7, <1>10, SaysIs DEF x, h

LEMMA ThraddPraised ==
  ASSUME MissionsInv, PraiseThradd
  PROVE  MissionsInv'
<1> DEFINE x == SetThradd(Game, 5)
           h == Told(x, "praise")
<1>1. /\ plot = "thradd" /\ ~Game.state.fight /\ Game.state.thradd = 4
      /\ Says("praise", {x})
  BY DEF PraiseThradd, Says, Game, SetThradd
<1>2. Game \in Games /\ Aside(Game, "thradd") /\ ThraddPlot(Game, 2)
  BY <1>1 DEF MissionsInv, OnCourse
<1>3. 5 \in ThraddStates
  BY DEF ThraddStates
<1>4. /\ Else(Game, x, "thradd") /\ x.fleet = Game.fleet
      /\ ~x.state.fight /\ x.state.thradd = 5 /\ x.state.said = Game.state.said
  BY <1>1, <1>2, <1>3, SetThraddIs
<1>5. x \in Games /\ Aside(x, "thradd") /\ "praise" \in Phrases /\ "praise" # "kill"
  BY <1>2, <1>4, ElseAside DEF Else, Courses, Phrases
<1> HIDE DEF x
<1>6. /\ h \in Games /\ Aside(h, "thradd") /\ h.fleet = x.fleet
      /\ h.state.thradd = 5 /\ ~h.state.fight
      /\ h.state.said = Game.state.said \cup {"praise"}
  BY <1>4, <1>5, ToldAside, SaidIs
<1> HIDE DEF h
<1>7. ThraddAlone(h)
  BY <1>1, <1>2, <1>4, <1>6 DEF ThraddAlone, ThraddPlot
<1>8. IlwrathAlone(h)
  BY <1>1, <1>2, <1>4, <1>6 DEF IlwrathAlone, ThraddPlot
<1>9. OnCourse(h, "thradd")
  BY <1>6, <1>7, <1>8 DEF OnCourse, ThraddPlot
<1> QED
  BY <1>1, <1>6, <1>9, SaysIs DEF h

LEMMA IlwrathTold ==
  ASSUME MissionsInv, SendIlwrath
  PROVE  MissionsInv'
<1>1. /\ plot = "thradd" /\ "kill" \notin Game.state.said
      /\ Says("kill", {IlwrathMission(Game)})
  BY DEF SendIlwrath, Says, Game
<1>2. Game \in Games /\ Aside(Game, "thradd") /\ ThraddPlot(Game, 2)
  BY <1>1 DEF MissionsInv, OnCourse
<1> DEFINE x == IlwrathMission(Game)
           h == Told(x, "kill")
<1>3. /\ ~Game.state.fight /\ Game.fleet["ilwrath"] = Home("ilwrath") /\ ThraddAlone(Game)
  BY <1>1, <1>2 DEF ThraddPlot, IlwrathAlone, IlwrathFight
<1>4. /\ Else(Game, x, "thradd") /\ x.state = Game.state
      /\ x.fleet["thradd"] = Game.fleet["thradd"]
      /\ Bound(x.fleet["ilwrath"], "front", "ilwrath") /\ x.fleet["ilwrath"].days = 90
      /\ x.fleet["ilwrath"].loc = "ilwrath" /\ Stays(x.fleet["ilwrath"], 256, 127)
  BY <1>2, <1>3, IlwrathLeaves
<1>5. x \in Games /\ Aside(x, "thradd") /\ "kill" \in Phrases
  BY <1>2, <1>4, ElseAside DEF Else, Courses, Phrases
<1> HIDE DEF x
<1>6. /\ h \in Games /\ Aside(h, "thradd") /\ h.fleet = x.fleet
      /\ h.state.thradd = Game.state.thradd /\ ~h.state.fight
      /\ h.state.said = Game.state.said \cup {"kill"}
  BY <1>3, <1>4, <1>5, ToldAside, SaidIs
<1> HIDE DEF h
<1>7. ThraddAlone(h)
  BY <1>3, <1>4, <1>6 DEF ThraddAlone
<1>8. IlwrathAlone(h)
  BY <1>4, <1>6 DEF IlwrathAlone
<1>9. OnCourse(h, "thradd")
  BY <1>6, <1>7, <1>8 DEF OnCourse, ThraddPlot
<1> QED
  BY <1>1, <1>6, <1>9, SaysIs DEF x, h

-----------------------------------------------------------------------------
(* Every game: where it begins, a day of it, a conversation                *)

LEMMA QuietIs ==
  ASSUME NEW g, NEW r \in Races, Quiet(g, r)
  PROVE  g.fleet[r].growth = 0 /\ g.fleet[r].dest = "none"
<1> DEFINE z == [Home(r) EXCEPT !.strength = 0]
<1>1. Home(r) \in Fleets /\ Home(r).growth = 0 /\ Home(r).dest = "none"
  BY HomeIs
<1>2. z.growth = 0 /\ z.dest = "none"
  BY <1>1 DEF Fleets
<1> QED
  BY <1>1, <1>2 DEF Quiet

LEMMA MissionsBegin ==
  ASSUME MissionsAssumption, InitMissions
  PROVE  MissionsInv
<1>1. plot \in Plots /\ plot \in {"pkunk", "thradd", "utwig", "mycon", "kohrah"}
  BY DEF InitMissions, MissionsAssumption
<1>2. \A r \in Races : fleet[r] = Home(r)
  BY DEF InitMissions
<1>3. fleet \in [Races -> Fleets]
  BY HomeIs DEF InitMissions
<1>4. 0 \in Delays /\ 1 \in Delays
  BY DEF Delays
<1>5. event \in [Missions -> Delays]
  BY <1>4 DEF InitMissions
<1>6. /\ "pkunk" \in Missions /\ "thradd" \in Missions /\ "utwig" \in Missions
      /\ "mycon" \in Missions /\ "kohrah" \in Missions
  BY DEF Missions
<1>7. \A m \in Missions : event[m] = IF m = "kohrah" /\ plot = "kohrah" THEN 1 ELSE 0
  BY DEF InitMissions
<1>8. /\ 0 \in PkunkStates /\ 0 \in Reasons /\ 0 \in ThraddStates /\ 0 \in UtwigStates
  BY DEF PkunkStates, Reasons, ThraddStates, UtwigStates
<1>9. /\ state \in States /\ state.pkunk = 0 /\ ~state.moving /\ state.reasons = 0
      /\ state.thradd = 0 /\ state.utwig = 0 /\ ~state.fight /\ ~state.frenzy
      /\ ~state.over /\ state.said = {}
  BY <1>8 DEF InitMissions, States
<1>10. Game.fleet = fleet /\ Game.event = event /\ Game.state = state
  BY DEF Game
<1>11. Game \in Games
  BY <1>3, <1>5, <1>9 DEF Game, Games
<1>12. Aside(Game, plot)
  BY <1>2, <1>7, <1>9, <1>10 DEF Aside, Quiet
<1>13. /\ "pkunk" \in Races /\ "thradd" \in Races /\ "ilwrath" \in Races /\ "utwig" \in Races
       /\ "supox" \in Races /\ "mycon" \in Races /\ "kohrah" \in Races
  BY DEF Races
<1>14. OnCourse(Game, plot)
  <2>1. plot = "pkunk" => PkunkPlot(Game, 181)
    BY <1>2, <1>6, <1>7, <1>9, <1>10, <1>13 DEF PkunkPlot, PkunkHome
  <2>2. plot = "utwig" => UtwigPlot(Game, 0, 0, 0, 0)
    BY <1>2, <1>6, <1>7, <1>9, <1>10, <1>13 DEF UtwigPlot, UtwigHome
  <2>3. MyconPlot(Game, 0)
    BY <1>2, <1>6, <1>7, <1>9, <1>10, <1>13 DEF MyconPlot, MyconHome
  <2>4. plot = "thradd" => ThraddPlot(Game, 2)
    BY <1>2, <1>9, <1>10, <1>13 DEF ThraddPlot, ThraddAlone, IlwrathAlone
  <2>5. plot = "kohrah" => KohrahPlot(Game)
    <3>1. Stays(Home("kohrah"), 484, 127)
      <4>1. Strength["kohrah"] = 484
        BY <1>13 DEF Strength
      <4> QED
        BY <4>1 DEF Stays, Home
    <3> QED
      BY <1>2, <1>6, <1>7, <1>9, <1>10, <1>13, <3>1 DEF KohrahPlot
  <2> QED
    BY <2>1, <2>2, <2>3, <2>4, <2>5 DEF OnCourse
<1> QED
  BY <1>1, <1>11, <1>12, <1>14 DEF MissionsInv

LEMMA MissionsDay ==
  ASSUME MissionsAssumption, MissionsInv, MissionDay
  PROVE  MissionsInv'
<1>1. /\ ~state.over /\ plot' = plot /\ Becomes(Passed(Game))
      /\ plot \in {"pkunk", "thradd", "utwig", "mycon", "kohrah"}
  BY DEF MissionDay, MissionsInv, MissionsAssumption
<1>2. \A w \in Passed(Game) : w \in Games /\ Aside(w, plot) /\ OnCourse(w, plot)
  <2> TAKE w \in Passed(Game)
  <2>1. CASE plot = "pkunk"
    BY <2>1, PkunkDay
  <2>2. CASE plot = "thradd"
    BY <2>2, ThraddDay
  <2>3. CASE plot = "utwig"
    BY <2>3, UtwigDay
  <2>4. CASE plot = "mycon"
    BY <2>4, MyconDay
  <2>5. CASE plot = "kohrah"
    BY <1>1, <2>5, KohrahDay
  <2> QED
    BY <1>1, <2>1, <2>2, <2>3, <2>4, <2>5
<1> QED
  BY <1>1, <1>2, GameGoesOn

LEMMA MissionsStep ==
  ASSUME MissionsAssumption, MissionsInv, [NextMissions]_missionVars
  PROVE  MissionsInv'
<1>1. CASE MissionDay
  BY <1>1, MissionsDay
<1>2. CASE AllyPkunk
  BY <1>2, PkunkAllied
<1>3. CASE TurnPkunk
  BY <1>3, PkunkTurned
<1>4. CASE SendThradd
  BY <1>4, ThraddTold
<1>5. CASE PraiseThradd
  BY <1>5, ThraddPraised
<1>6. CASE SendIlwrath
  BY <1>6, IlwrathTold
<1>7. CASE SendUtwig
  BY <1>7, UtwigTold
<1>8. CASE SendMycon
  BY <1>8, MyconSent
<1>9. CASE UNCHANGED missionVars
  <2>1. Game' = Game /\ plot' = plot
    BY <1>9 DEF Game, missionVars
  <2> QED
    BY <2>1 DEF MissionsInv
<1> QED
  BY <1>1, <1>2, <1>3, <1>4, <1>5, <1>6, <1>7, <1>8, <1>9 DEF NextMissions, MissionTalk

(* Every day and every conversation leaves each fleet, event and state of  *)
(* a mission at a place of its course, and the other races alone: the      *)
(* functions of EventHandler and check_race_growth.                        *)
THEOREM MissionsInvariant ==
  MissionsSpec => []MissionsInv
<1>1. InitMissions => MissionsInv
  BY MissionsAssumption, MissionsBegin
<1>2. MissionsInv /\ [NextMissions]_missionVars => MissionsInv'
  BY MissionsAssumption, MissionsStep
<1> QED
  BY <1>1, <1>2, PTL DEF MissionsSpec

LEMMA MissionsTyped ==
  ASSUME MissionsInv
  PROVE  MissionsTypeOK
<1>1. Game \in Games /\ Game.fleet = fleet /\ Game.event = event /\ Game.state = state
  BY DEF MissionsInv, Game
<1>2. fleet \in [Races -> Fleets] /\ event \in [Missions -> Delays] /\ state \in States
  BY <1>1, GameParts
<1>3. state.pkunk \in 0 .. 7 /\ state.thradd \in 0 .. 5 /\ state.utwig \in 0 .. 6
  BY <1>2, StateParts
<1> QED
  BY <1>2, <1>3 DEF MissionsTypeOK, Fleets, Dests, Bytes, Funcs, Ships, Growths, Delays

LEMMA MissionsMove ==
  ASSUME MissionsInv
  PROVE  NoMissionStuck
<1>0. /\ Game \in Games /\ Game.fleet = fleet /\ Game.event = event /\ Game.state = state
      /\ Aside(Game, plot) /\ OnCourse(Game, plot)
  BY DEF MissionsInv, Game
<1>1. Alive("pkunk") /\ state.pkunk > 0 => UnderWay("pkunk") \/ event["pkunk"] > 0
  <2> SUFFICES ASSUME fleet["pkunk"].strength > 0, state.pkunk > 0
               PROVE  UnderWay("pkunk") \/ event["pkunk"] > 0
    BY DEF Alive
  <2>1. plot = "pkunk"
    BY <1>0 DEF Aside
  <2>2. PkunkAway(Game, 181) \/ Game.event["pkunk"] > 0
    BY <1>0, <2>1 DEF OnCourse, PkunkPlot, PkunkHome, Gone
  <2> QED
    BY <1>0, <2>2 DEF PkunkAway, UnderWay, Bound
<1>2. Alive("thradd") /\ state.thradd \in 1 .. 3 => UnderWay("thradd")
  <2> SUFFICES ASSUME fleet["thradd"].strength > 0, state.thradd \in 1 .. 3
               PROVE  UnderWay("thradd")
    BY DEF Alive
  <2>1. ThraddPlot(Game, 2)
    BY <1>0 DEF Aside, OnCourse
  <2>2. CASE state.fight
    BY <1>0, <2>1, <2>2 DEF ThraddPlot, ThraddCalled, Gone, Bound, UnderWay
  <2>3. CASE ~state.fight
    BY <1>0, <2>1, <2>3 DEF ThraddPlot, ThraddAlone, Bound, UnderWay
  <2> QED
    BY <2>2, <2>3
<1>3. Alive("ilwrath") /\ "kill" \in state.said => UnderWay("ilwrath")
  <2> SUFFICES ASSUME fleet["ilwrath"].strength > 0, "kill" \in state.said
               PROVE  UnderWay("ilwrath")
    BY DEF Alive
  <2>1. ThraddPlot(Game, 2)
    BY <1>0 DEF Aside, OnCourse
  <2>2. CASE state.fight
    BY <1>0, <2>1, <2>2 DEF ThraddPlot, IlwrathFight, Gone, Bound, UnderWay
  <2>3. CASE ~state.fight
    BY <1>0, <2>1, <2>3 DEF ThraddPlot, IlwrathAlone, Bound, UnderWay
  <2> QED
    BY <2>2, <2>3
<1>4. Alive("utwig") /\ state.utwig \in 1 .. 5 => UnderWay("utwig") \/ event["utwig"] > 0
  <2> SUFFICES ASSUME state.utwig \in 1 .. 5
               PROVE  UnderWay("utwig") \/ event["utwig"] > 0
    OBVIOUS
  <2>1. UtwigPlot(Game, 0, 0, 0, 0)
    BY <1>0 DEF Aside, OnCourse
  <2>2. UtwigAway(Game, 0, 0) \/ UtwigFight(Game, 0, 0)
    BY <1>0, <2>1 DEF UtwigPlot, UtwigHome, UtwigBack
  <2> QED
    BY <1>0, <2>2 DEF UtwigAway, UtwigFight, Bound, UnderWay
<1>5. Alive("mycon") /\ fleet["mycon"].growth # 0 => event["mycon"] > 0
  <2> SUFFICES ASSUME fleet["mycon"].strength > 0, fleet["mycon"].growth # 0
               PROVE  event["mycon"] > 0
    BY DEF Alive
  <2>1. "mycon" \in Races
    BY DEF Races
  <2>2. "mycon" \in Sent(plot)
    BY <1>0, <2>1, QuietIs DEF Aside
  <2>3. MyconPlot(Game, 0)
    <3>1. plot \in {"pkunk", "thradd", "utwig", "mycon", "kohrah"}
      BY MissionsAssumption DEF MissionsInv, MissionsAssumption
    <3>2. plot \in {"mycon", "kohrah"}
      BY <2>2, <3>1, SentIs
    <3> QED
      BY <1>0, <3>2 DEF OnCourse
  <2>4. Home("mycon").growth = 0
    BY <2>1, HomeIs
  <2>5. MyconFight(Game, 0)
    BY <1>0, <2>3, <2>4 DEF MyconPlot, MyconHome, MyconAway, MyconBack, Gone, Stays
  <2> QED
    BY <1>0, <2>5 DEF MyconFight
<1>6. state.frenzy => UnderWay("kohrah") \/ state.over
  <2> SUFFICES ASSUME state.frenzy
               PROVE  UnderWay("kohrah") \/ state.over
    OBVIOUS
  <2>1. KohrahPlot(Game)
    BY <1>0 DEF Aside, OnCourse
  <2> QED
    BY <1>0, <2>1 DEF KohrahPlot, UnderWay
<1> QED
  BY <1>1, <1>2, <1>3, <1>4, <1>5, <1>6 DEF NoMissionStuck

LEMMA MissionsCost ==
  ASSUME MissionsInv
  PROVE  HalfIsLost
<1>0. /\ Game \in Games /\ Game.fleet = fleet /\ Game.event = event /\ Game.state = state
      /\ Aside(Game, plot) /\ OnCourse(Game, plot)
  BY DEF MissionsInv, Game
<1>1. state.thradd \in {3, 4, 5} /\ ~state.fight /\ Alive("thradd") =>
        fleet["thradd"].strength \in 74 .. 76
  BY <1>0 DEF Aside, OnCourse, ThraddPlot, ThraddAlone, Stays
<1>2. state.utwig \in {5, 6} =>
        fleet["utwig"].strength = 60 /\ fleet["supox"].strength = 30
  <2> SUFFICES ASSUME state.utwig \in {5, 6}
               PROVE  fleet["utwig"].strength = 60 /\ fleet["supox"].strength = 30
    OBVIOUS
  <2>1. UtwigPlot(Game, 0, 0, 0, 0)
    BY <1>0 DEF Aside, OnCourse
  <2>2. UtwigAway(Game, 0, 0) \/ UtwigBack(Game)
    BY <1>0, <2>1 DEF UtwigPlot, UtwigHome, UtwigFight
  <2> QED
    BY <1>0, <2>2 DEF UtwigAway, UtwigBack, Stays
<1>3. fleet["mycon"].dest = "mycon" /\ Alive("mycon") => fleet["mycon"].strength = 104
  <2> SUFFICES ASSUME fleet["mycon"].dest = "mycon", fleet["mycon"].strength > 0
               PROVE  fleet["mycon"].strength = 104
    BY DEF Alive
  <2>1. "mycon" \in Races
    BY DEF Races
  <2>2. "mycon" \in Sent(plot)
    BY <1>0, <2>1, QuietIs DEF Aside
  <2>3. MyconPlot(Game, 0)
    <3>1. plot \in {"pkunk", "thradd", "utwig", "mycon", "kohrah"}
      BY MissionsAssumption DEF MissionsInv, MissionsAssumption
    <3>2. plot \in {"mycon", "kohrah"}
      BY <2>2, <3>1, SentIs
    <3> QED
      BY <1>0, <3>2 DEF OnCourse
  <2>4. Home("mycon").dest = "none"
    BY <2>1, HomeIs
  <2>5. MyconBack(Game)
    BY <1>0, <2>3, <2>4 DEF MyconPlot, MyconHome, MyconAway, MyconFight, Gone, Bound
  <2> QED
    BY <1>0, <2>5 DEF MyconBack, Stays
<1> QED
  BY <1>1, <1>2, <1>3 DEF HalfIsLost

LEMMA BattleMeets ==
  ASSUME MissionsInv
  PROVE  Rendezvous
<1>0. /\ Game.fleet = fleet /\ Game.state = state /\ Game \in Games
      /\ Aside(Game, plot) /\ OnCourse(Game, plot)
  BY DEF MissionsInv, Game
<1> SUFFICES ASSUME state.fight, fleet["ilwrath"].strength > 0, fleet["thradd"].strength > 0
             PROVE  LET f == fleet["thradd"]
                    IN  /\ state.thradd \in {1, 2, 3} => f.dest = "thradd" /\ f.days <= 14
                        /\ state.thradd \notin {1, 2, 3} =>
                              f.dest = "battle" /\ f.days <= fleet["ilwrath"].days + 2
  BY DEF Rendezvous, Alive
<1>1. ThraddCalled(Game, 2)
  BY <1>0 DEF Aside, OnCourse, ThraddPlot
<1> QED
  BY <1>0, <1>1 DEF ThraddCalled, Gone, Bound

(* While the Ilwrath fight, the Thraddash are on their way home or to the  *)
(* battle, there two days after the Ilwrath at most: ilwrath_mission and   *)
(* thradd_mission, which call each other.                                  *)
THEOREM RendezvousKept ==
  MissionsSpec => []Rendezvous
<1>1. MissionsInv => Rendezvous
  BY BattleMeets
<1> QED
  BY <1>1, MissionsInvariant, PTL

-----------------------------------------------------------------------------
(* The end of black_urquan_genocide: nobody else is alive, and those who   *)
(* stand where the Kohr-Ah are have just been destroyed.                   *)
LEMMA GenocideEnds ==
  ASSUME MissionsAssumption, NEW g \in Games, ~g.state.over,
         NEW w \in Genocide(g), w.state.over
  PROVE  g.fleet["kohrah"].loc = "sol" /\ \A r \in Prey : w.fleet[r].strength = 0
<1> DEFINE here == g.fleet["kohrah"].loc
           victims == Victims(g, here)
           nearest == IF "druuge" \in victims THEN {"druuge"} ELSE victims
           seen == IF "druuge" \in victims
                   THEN Prey \cap {"pkunk", "supox", "thradd", "utwig"} ELSE Prey
           dead == {r \in seen : g.fleet[r].loc = here}
           h == Destroyed(g, dead)
           spot(r) == IF g.fleet[r].loc = "away" THEN "nowhere" ELSE g.fleet[r].loc
           dests == IF victims = {} THEN {"sol"} ELSE {spot(r) : r \in nearest}
           Ends == {[h EXCEPT !.state.over = TRUE]}
           Goes == {[SetRaceDest(h, "kohrah", dest, days, "kohrah") EXCEPT !.state.frenzy = TRUE] :
                      dest \in dests, days \in Marches}
<1>0. Genocide(g) = IF victims = {} /\ here = "sol" THEN Ends ELSE Goes
  BY DEF Genocide
<1>1. Prey \subseteq Races
  BY DEF MissionsAssumption, Races
<1>2. /\ h \in Games /\ h.state = g.state
      /\ \A r \in Races : r \in dead => Gone(h, r)
      /\ \A r \in Races : r \notin dead => h.fleet[r] = g.fleet[r]
  BY DestroyedIs
<1>3. ~h.state.over /\ h.state \in States
  BY <1>2, GameParts
<1>4. ASSUME victims = {}
      PROVE  \A r \in Prey : h.fleet[r].strength = 0
  <2>1. TAKE r \in Prey
  <2>2. r \in Races /\ seen = Prey
    BY <1>1, <1>4
  <2>3. CASE g.fleet[r].loc = here
    BY <1>2, <2>2, <2>3 DEF Gone
  <2>4. CASE g.fleet[r].loc # here
    <3>1. ~(g.fleet[r].strength > 0)
      BY <1>4, <2>4 DEF Victims
    <3>2. g.fleet[r].strength \in 0 .. 484
      BY <2>2, GameParts, FleetParts
    <3>3. h.fleet[r] = g.fleet[r]
      BY <1>2, <2>2, <2>4
    <3> QED
      BY <3>1, <3>2, <3>3
  <2> QED
    BY <2>3, <2>4
<1>5. ASSUME w \in Goes
      PROVE  FALSE
  <2> HIDE DEF h, dests
  <2>1. PICK dest \in dests, days \in Marches :
          w = [SetRaceDest(h, "kohrah", dest, days, "kohrah") EXCEPT !.state.frenzy = TRUE]
    BY <1>5
  <2>2. w.state.over = h.state.over
    BY <1>2, <1>3, <2>1 DEF SetRaceDest, Games, States
  <2> QED
    BY <1>3, <2>2
<1>6. victims = {} /\ here = "sol" /\ w \in Ends
  <2> HIDE DEF Ends, Goes, victims
  <2> QED
    BY <1>0, <1>5
<1>7. w.fleet = h.fleet
  <2> HIDE DEF h
  <2> QED
    BY <1>2, <1>6 DEF Games
<1> QED
  BY <1>4, <1>6, <1>7

(* Nobody wins before the turn of the Kohr-Ah, the last of a day.          *)
LEMMA KohrahEventOn ==
  ASSUME MissionsAssumption, MissionsInv, plot = "kohrah", ~state.over,
         NEW h \in Happened({Game})
  PROVE  ~h.state.over
<1>0. /\ Game \in Games /\ Aside(Game, "kohrah") /\ MyconPlot(Game, 0)
      /\ KohrahPlot(Game) /\ "kohrah" \in Missions /\ "mycon" \in Missions
      /\ Game.fleet = fleet /\ Game.event = event /\ Game.state = state
  BY DEF MissionsInv, OnCourse, Missions, Game
<1>1. /\ Begun \in Games /\ Begun.fleet = fleet /\ Begun.state = state
      /\ Begun.event["mycon"] = (IF event["mycon"] = 0 THEN 0 ELSE event["mycon"] - 1)
  BY <1>0, BegunIs
<1>2. \A q \in Missions : event[q] # 0 => q = "kohrah" \/ q = "mycon"
  BY <1>0 DEF Aside
<1>3. CASE event["kohrah"] = 1
  <2>1. event["mycon"] = 0 /\ fleet["kohrah"] = Home("kohrah")
    BY <1>0, <1>3 DEF KohrahPlot
  <2>2. \A q \in Missions : event[q] = 1 => q = "kohrah"
    BY <1>2, <2>1
  <2>3. h \in Genocide(Begun)
    BY <1>0, <1>3, <2>2, HappenedIs DEF Handle
  <2>4. Begun.fleet["kohrah"].loc # "sol"
    BY <1>1, <2>1, HomeIs DEF Races
  <2> QED
    BY <1>1, <2>3, <2>4, GenocideEnds
<1>4. CASE event["kohrah"] # 1
  <2>1. \A q \in Missions : event[q] = 1 => q = "mycon"
    BY <1>2, <1>4
  <2>2. /\ event["mycon"] # 1 => h = Begun
        /\ event["mycon"] = 1 => h = MyconMission(Begun)
    BY <1>0, <2>1, HappenedIs DEF Handle
  <2>3. event["mycon"] = 1 => Else(Begun, MyconMission(Begun), "mycon")
    BY <1>0, <1>1, MyconLater
  <2> QED
    BY <1>1, <2>2, <2>3 DEF Else
<1> QED
  BY <1>3, <1>4

(* They win in a turn that brings them to Sol.                             *)
LEMMA KohrahTurnEnds ==
  ASSUME MissionsAssumption, NEW g \in Games, Marching(g), ~g.state.over,
         NEW w \in Grown(g, "kohrah"), w.state.over
  PROVE  \A r \in Prey : w.fleet[r].strength = 0
<1> DEFINE f == g.fleet["kohrah"]
           s == Stronger(f)
           m == Moved(s)
           h == Put(g, "kohrah", m)
<1>0. "kohrah" \in Races /\ f \in Fleets /\ "kohrah" # "none"
  BY GameParts DEF Races
<1>1. /\ Stays(f, 484, 127) /\ f.func = "kohrah" /\ f.days > 0 /\ f.dest # "none"
  BY DEF Marching
<1>2. ~Idle(f)
  BY <1>1 DEF Idle, Stays
<1>3. /\ s \in Fleets /\ Stays(s, 484, 127) /\ s.days = f.days
      /\ s.func = f.func /\ s.dest = f.dest
  BY <1>0, <1>1, StrongerType, StrongerStays DEF Stays
<1> HIDE DEF s
<1>4. m \in Fleets
  <2>1. s.dest \in Places
    BY <1>1, <1>3, FleetParts
  <2> QED
    BY <1>1, <1>3, <2>1, MovedIs DEF Stays
<1> HIDE DEF m
<1>5. w = h \/ w \in Genocide(h)
  BY <1>0, <1>1, <1>2, <1>3, GrownIs DEF s, m, Stays, Handle
<1>6. h \in Games /\ h.state = g.state
  BY <1>0, <1>4, PutIs
<1> HIDE DEF h
<1> QED
  BY <1>5, <1>6, GenocideEnds

LEMMA KohrahDayEnds ==
  ASSUME MissionsAssumption, MissionsInv, plot = "kohrah", ~state.over,
         NEW w \in Passed(Game), w.state.over
  PROVE  \A r \in Prey : w.fleet[r].strength = 0
<1>1. PICK h \in Happened({Game}) :
         \E h1 \in Grown(h, "pkunk") :
         \E h2 \in Grown(h1, "supox") :
         \E h3 \in Grown(h2, "thradd") :
         \E h4 \in Grown(h3, "utwig") :
         \E h5 \in Grown(h4, "druuge") :
         \E h6 \in Grown(h5, "ilwrath") :
         \E h7 \in Grown(h6, "mycon") : w \in Grown(h7, "kohrah")
  BY AllGrownIs DEF Passed
<1>2. /\ h \in Games /\ Aside(h, "kohrah") /\ MyconPlot(h, 1) /\ Marching(h)
      /\ ~h.state.over
  BY KohrahEvent, KohrahEventOn
<1>3. {"pkunk", "supox", "thradd", "utwig", "druuge", "ilwrath"}
        \subseteq Races \ Sent("kohrah")
  BY SentIs DEF Races
<1>4. \A r \in Races \ Sent("kohrah") : \A x \in Grown(h, r) : x = h
  BY <1>2, AsideGrown
<1>5. PICK h7 \in Grown(h, "mycon") : w \in Grown(h7, "kohrah")
  BY <1>1, <1>3, <1>4
<1>6. Else(h, h7, "mycon")
  BY <1>2, MyconGrown
<1>7. h7 \in Games /\ Marching(h7) /\ ~h7.state.over
  <2>1. h7 \in Games
    BY <1>6 DEF Else
  <2>2. /\ h7.fleet["kohrah"] = h.fleet["kohrah"]
        /\ h7.event["kohrah"] = h.event["kohrah"]
        /\ h7.state.frenzy = h.state.frenzy /\ h7.state.over = h.state.over
    BY <1>2, <1>6, ElseKohrah
  <2> QED
    BY <1>2, <2>1, <2>2 DEF Marching
<1> QED
  BY <1>5, <1>7, KohrahTurnEnds

(* What is said leaves the victory as it is.                               *)
LEMMA SaidOn ==
  ASSUME NEW t \in Phrases, NEW g \in Games, g.state.over = FALSE, Says(t, {g})
  PROVE  ~state'.over
<1>1. state' = Told(g, t).state
  BY DEF Says, Becomes, Told
<1> QED
  BY <1>1, SaidIs

LEMMA LastOneGoneStep ==
  ASSUME MissionsAssumption, MissionsInv, LastOneGone, [NextMissions]_missionVars
  PROVE  LastOneGone'
<1>0. /\ Game.fleet = fleet /\ Game.state = state /\ Game \in Games
      /\ Aside(Game, plot) /\ OnCourse(Game, plot)
  BY DEF MissionsInv, Game
<1>1. MissionsInv' /\ plot' = plot
  <2>1. MissionsInv'
    BY MissionsStep
  <2>2. plot' = plot
    BY DEF NextMissions, MissionTalk, MissionDay, AllyPkunk, TurnPkunk, SendThradd,
           PraiseThradd, SendIlwrath, SendUtwig, SendMycon, Says, missionVars
  <2> QED
    BY <2>1, <2>2
<1> SUFFICES ASSUME state'.over
             PROVE  \A r \in Prey : fleet'[r].strength = 0
  BY DEF LastOneGone, Alive
<1>2. plot = "kohrah"
  <2>1. Aside(Game', plot') /\ Game'.state = state'
    BY <1>1 DEF MissionsInv, Game
  <2> QED
    BY <1>1, <2>1 DEF Aside
<1>3. CASE MissionDay
  <2>1. PICK w \in Passed(Game) : fleet' = w.fleet /\ state' = w.state
    BY <1>3 DEF MissionDay, Becomes
  <2>2. ~state.over
    BY <1>3 DEF MissionDay
  <2> QED
    BY <1>2, <2>1, <2>2, KohrahDayEnds
<1>4. CASE SendMycon
  <2>1. /\ Says("implant", {MyconMission(Game)}) /\ ~Game.state.over
        /\ ~Gone(Game, "mycon") /\ "implant" \notin Game.state.said
    BY <1>0, <1>4 DEF SendMycon, Says, Alive, Gone
  <2>2. Else(Game, MyconMission(Game), "mycon")
    BY <1>0, <1>2, <2>1, MyconTold DEF OnCourse
  <2>3. /\ MyconMission(Game) \in Games /\ MyconMission(Game).state.over = FALSE
        /\ "implant" \in Phrases
    <3>1. Game.state.over \in BOOLEAN
      BY <1>0, GameParts, StateParts
    <3> QED
      BY <2>1, <2>2, <3>1 DEF Else, Phrases
  <2> HIDE DEF MyconMission
  <2> QED
    BY <2>1, <2>3, SaidOn
<1>5. CASE UNCHANGED missionVars
  <2>1. fleet' = fleet /\ state' = state
    BY <1>5 DEF missionVars
  <2>2. fleet \in [Races -> Fleets] /\ Prey \subseteq Races
    BY <1>0, GameParts DEF MissionsAssumption, Races
  <2>3. \A r \in Prey : fleet[r].strength \in 0 .. 484
    BY <2>2, FleetParts
  <2>4. \A r \in Prey : ~(fleet[r].strength > 0)
    BY <2>1 DEF LastOneGone, Alive
  <2> QED
    BY <2>1, <2>3, <2>4
<1> QED
  BY <1>2, <1>3, <1>4, <1>5 DEF NextMissions, MissionTalk, AllyPkunk, TurnPkunk,
     SendThradd, PraiseThradd, SendIlwrath, SendUtwig

(* The Kohr-Ah have won only when none of their prey is left, wherever the *)
(* Mycon have been sent meanwhile and whatever ends a search:              *)
(* black_urquan_genocide.                                                  *)
THEOREM LastOneIsGone ==
  MissionsSpec => []LastOneGone
<1>1. InitMissions => LastOneGone
  BY DEF InitMissions, LastOneGone
<1>2. MissionsInv /\ LastOneGone /\ [NextMissions]_missionVars => LastOneGone'
  BY MissionsAssumption, LastOneGoneStep
<1> QED
  BY <1>1, <1>2, MissionsInvariant, PTL DEF MissionsSpec

(* A mission that has begun always has a fleet or an event that takes it   *)
(* on, costs half of the ships and does not end early: the functions of    *)
(* gameev.c, the losses that check_race_growth spreads over days, and all  *)
(* that is said.                                                           *)
THEOREM MissionsCarryOn ==
  MissionsSpec => []MissionsGoOn
<1>1. MissionsInv /\ LastOneGone => MissionsGoOn
  BY MissionsTyped, MissionsMove, MissionsCost DEF MissionsGoOn
<1> QED
  BY <1>1, MissionsInvariant, LastOneIsGone, PTL

=============================================================================
