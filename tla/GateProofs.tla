----------------------------- MODULE GateProofs -----------------------------
(***************************************************************************)
(* Proofs about Gate, for any issues, any suppression files and entries in *)
(* any order, any baseline and any behaviour of the clock: what a report   *)
(* says follows from the inputs it was made from.  And about Calendar:     *)
(* `today_iso` (src/src/suppress.rs) gives the date of every day from the  *)
(* epoch on, not only of the days a run can look at.                       *)
(***************************************************************************)
EXTENDS Gate, WellFoundedInduction, TLAPS

(* The calendar.  The quotients of the algorithm become numbers with       *)
(* linear bounds, one division at a time.                                  *)

(* A day of a year that begins in March, and its month: five months have   *)
(* 153 days.                                                               *)

LEMMA MonthBounds ==
  ASSUME NEW doy \in Int, 0 <= doy, doy <= 365,
         NEW mp \in Int, 153 * mp <= 5 * doy + 2, 5 * doy + 2 <= 153 * mp + 152,
         NEW t \in Int, 5 * t <= 153 * mp + 2, 153 * mp + 2 <= 5 * t + 4
  PROVE  \/ mp = 0 /\ t = 0 /\ doy <= 30
         \/ mp = 1 /\ t = 31 /\ 31 <= doy /\ doy <= 60
         \/ mp = 2 /\ t = 61 /\ 61 <= doy /\ doy <= 91
         \/ mp = 3 /\ t = 92 /\ 92 <= doy /\ doy <= 121
         \/ mp = 4 /\ t = 122 /\ 122 <= doy /\ doy <= 152
         \/ mp = 5 /\ t = 153 /\ 153 <= doy /\ doy <= 183
         \/ mp = 6 /\ t = 184 /\ 184 <= doy /\ doy <= 213
         \/ mp = 7 /\ t = 214 /\ 214 <= doy /\ doy <= 244
         \/ mp = 8 /\ t = 245 /\ 245 <= doy /\ doy <= 274
         \/ mp = 9 /\ t = 275 /\ 275 <= doy /\ doy <= 305
         \/ mp = 10 /\ t = 306 /\ 306 <= doy /\ doy <= 336
         \/ mp = 11 /\ t = 337 /\ 337 <= doy /\ doy <= 365
BY SMTT(60)

(* The leap years until a year are those before it and itself. *)
LEMMA LeapStep ==
  ASSUME NEW Y \in Int
  PROVE  LeapYearsUntil(Y) = LeapYearsUntil(Y - 1) + (IF LeapYear(Y) THEN 1 ELSE 0)
<1> DEFINE Z == Y - 1
<1>1. /\ (Y \div 4) \in Int /\ 4 * (Y \div 4) <= Y /\ Y <= 4 * (Y \div 4) + 3
      /\ (Y \div 100) \in Int /\ 100 * (Y \div 100) <= Y /\ Y <= 100 * (Y \div 100) + 99
      /\ (Y \div 400) \in Int /\ 400 * (Y \div 400) <= Y /\ Y <= 400 * (Y \div 400) + 399
      /\ Y % 4 = Y - 4 * (Y \div 4) /\ Y % 100 = Y - 100 * (Y \div 100)
      /\ Y % 400 = Y - 400 * (Y \div 400)
  OBVIOUS
<1>2. Z \in Int /\ Z = Y - 1
  OBVIOUS
<1> HIDE DEF Z
<1>3. /\ (Z \div 4) \in Int /\ 4 * (Z \div 4) <= Z /\ Z <= 4 * (Z \div 4) + 3
      /\ (Z \div 100) \in Int /\ 100 * (Z \div 100) <= Z /\ Z <= 100 * (Z \div 100) + 99
      /\ (Z \div 400) \in Int /\ 400 * (Z \div 400) <= Z /\ Z <= 400 * (Z \div 400) + 399
  BY <1>2
<1>4. LeapYearsUntil(Y) = LeapYearsUntil(Z) + (IF LeapYear(Y) THEN 1 ELSE 0)
  BY <1>1, <1>2, <1>3, SMTT(60) DEF LeapYearsUntil, LeapYear
<1> QED BY <1>2, <1>4

(* The lengths of the months. *)
LEMMA MonthLengths ==
  ASSUME NEW year \in Int
  PROVE  /\ DaysInMonth(year, 1) = 31 /\ DaysInMonth(year, 3) = 31 /\ DaysInMonth(year, 4) = 30
         /\ DaysInMonth(year, 5) = 31 /\ DaysInMonth(year, 6) = 30 /\ DaysInMonth(year, 7) = 31
         /\ DaysInMonth(year, 8) = 31 /\ DaysInMonth(year, 9) = 30 /\ DaysInMonth(year, 10) = 31
         /\ DaysInMonth(year, 11) = 30 /\ DaysInMonth(year, 12) = 31
         /\ DaysInMonth(year, 2) = IF LeapYear(year) THEN 29 ELSE 28
BY DEF DaysInMonth, DaysBefore

(* From March on, the leap day of the year has passed. *)
LEMMA FromMarch ==
  ASSUME NEW Y \in Int, NEW m \in 3..12, NEW d \in Int
  PROVE  DayNumber(<<Y, m, d>>)
           = (365 * (Y - 1970) + (LeapYearsUntil(Y) - LeapYearsUntil(1969))) + DaysBefore[m] + (d - 1)
<1>1. LeapYearsUntil(Y) \in Int /\ LeapYearsUntil(Y - 1) \in Int /\ LeapYearsUntil(1969) \in Int
  BY DEF LeapYearsUntil
<1>2. DaysBefore[m] \in Int
  BY DEF DaysBefore
<1>3. DayNumber(<<Y, m, d>>)
        = (365 * ((Y - 1) - 1969) + (LeapYearsUntil(Y - 1) - LeapYearsUntil(1969)))
            + (DaysBefore[m] + (IF LeapYear(Y) THEN 1 ELSE 0)) + (d - 1)
  BY DEF DayNumber
<1> QED BY <1>1, <1>2, <1>3, LeapStep

(* In January and February it is the year before that counts. *)
LEMMA UntilMarch ==
  ASSUME NEW Y \in Int, NEW m \in 1..2, NEW d \in Int
  PROVE  DayNumber(<<Y + 1, m, d>>)
           = (365 * (Y - 1969) + (LeapYearsUntil(Y) - LeapYearsUntil(1969))) + DaysBefore[m] + (d - 1)
<1>1. LeapYearsUntil(Y) \in Int /\ LeapYearsUntil(1969) \in Int
  BY DEF LeapYearsUntil
<1>2. DaysBefore[m] \in Int
  BY DEF DaysBefore
<1>3. (Y + 1) - 1 = Y
  OBVIOUS
<1> QED BY <1>1, <1>2, <1>3 DEF DayNumber

(* The date today_iso computes for the n-th day after the epoch exists and *)
(* is the n-th day of the calendar after 1970-01-01.                       *)
THEOREM CivilDateIsTheDay ==
  ASSUME NEW n \in Nat
  PROVE  IsDay(CivilDate(n), n)
<1> DEFINE shifted == n + 719468
           era == shifted \div 146097
           doe == shifted - era * 146097
           y == YearOfEra(doe)
           doy == doe - ((365 * y + (y \div 4)) - (y \div 100))
           mp == (5 * doy + 2) \div 153
           t == (153 * mp + 2) \div 5
           Y == y + era * 400
           m == IF mp < 10 THEN mp + 3 ELSE mp - 9
           d == (doy - t) + 1
<1>1. CivilDate(n) = <<IF m <= 2 THEN Y + 1 ELSE Y, m, d>>
  BY DEF CivilDate, Era
<1>2. era \in Int /\ doe \in Int /\ 0 <= doe /\ doe <= 146096
  <2>1. shifted \in Int
    OBVIOUS
  <2> HIDE DEF shifted
  <2> QED BY <2>1
<1>3. /\ y \in Int /\ y >= 0 /\ y <= 399 /\ doy \in Int /\ 0 <= doy /\ doy <= 365
      /\ doy = 365 => y = 4 * (y \div 4) + 3 /\ (y = 399 \/ y <= 100 * (y \div 100) + 98)
  <2> HIDE DEF doe
  <2> DEFINE a == doe \div 1460
             b == doe \div 36524
             c == doe \div 146096
             N == ((doe - a) + b) - c
  <2>1. /\ a \in Int /\ 1460 * a <= doe /\ doe <= 1460 * a + 1459
        /\ b \in Int /\ 36524 * b <= doe /\ doe <= 36524 * b + 36523
        /\ c \in Int /\ 146096 * c <= doe /\ doe <= 146096 * c + 146095
    BY <1>2
  <2>2. y = N \div 365
    BY <1>2, <2>1 DEF YearOfEra
  <2> HIDE DEF a, b, c, y
  <2>3. N \in Int
    BY <1>2, <2>1
  <2> HIDE DEF N
  <2>4. y \in Int /\ 365 * y <= N /\ N <= 365 * y + 364
    BY <2>2, <2>3
  <2>5. /\ (y \div 4) \in Int /\ 4 * (y \div 4) <= y /\ y <= 4 * (y \div 4) + 3
        /\ (y \div 100) \in Int /\ 100 * (y \div 100) <= y /\ y <= 100 * (y \div 100) + 99
    BY <2>4
  <2>6. doy \in Int /\ doy = doe - ((365 * y + (y \div 4)) - (y \div 100))
    BY <1>2, <2>4, <2>5
  <2>7. N = ((doe - a) + b) - c
    BY DEF N
  <2> HIDE DEF doy
  <2> QED BY <1>2, <2>1, <2>4, <2>5, <2>6, <2>7, SMTT(60)
<1> HIDE DEF y
<1>4. /\ (y \div 4) \in Int /\ (y \div 100) \in Int /\ Y \in Int
      /\ doe = doy + ((365 * y + (y \div 4)) - (y \div 100))
      /\ n = (doe + 146097 * era) - 719468
  BY <1>2, <1>3
<1> HIDE DEF doy, doe, era
<1>5. /\ mp \in Int /\ 153 * mp <= 5 * doy + 2 /\ 5 * doy + 2 <= 153 * mp + 152
      /\ t \in Int /\ 5 * t <= 153 * mp + 2 /\ 153 * mp + 2 <= 5 * t + 4
  <2>1. 5 * doy + 2 \in Int
    BY <1>3
  <2>2. mp \in Int /\ 153 * mp <= 5 * doy + 2 /\ 5 * doy + 2 <= 153 * mp + 152
    BY <2>1
  <2> HIDE DEF mp
  <2>3. 153 * mp + 2 \in Int
    BY <2>2
  <2> QED BY <2>2, <2>3
<1> HIDE DEF mp, t
<1>6. \/ mp = 0 /\ t = 0 /\ doy <= 30
      \/ mp = 1 /\ t = 31 /\ 31 <= doy /\ doy <= 60
      \/ mp = 2 /\ t = 61 /\ 61 <= doy /\ doy <= 91
      \/ mp = 3 /\ t = 92 /\ 92 <= doy /\ doy <= 121
      \/ mp = 4 /\ t = 122 /\ 122 <= doy /\ doy <= 152
      \/ mp = 5 /\ t = 153 /\ 153 <= doy /\ doy <= 183
      \/ mp = 6 /\ t = 184 /\ 184 <= doy /\ doy <= 213
      \/ mp = 7 /\ t = 214 /\ 214 <= doy /\ doy <= 244
      \/ mp = 8 /\ t = 245 /\ 245 <= doy /\ doy <= 274
      \/ mp = 9 /\ t = 275 /\ 275 <= doy /\ doy <= 305
      \/ mp = 10 /\ t = 306 /\ 306 <= doy /\ doy <= 336
      \/ mp = 11 /\ t = 337 /\ 337 <= doy /\ doy <= 365
  BY <1>3, <1>5, MonthBounds
<1>7. /\ LeapYearsUntil(Y) = ((y \div 4) - (y \div 100)) + 97 * era
      /\ LeapYear(Y + 1) <=> y = 4 * (y \div 4) + 3 /\ (y = 399 \/ y <= 100 * (y \div 100) + 98)
  <2> DEFINE p == y \div 4
             q == y \div 100
             Z == Y + 1
  <2>1. Y \in Int /\ Y = y + 400 * era
    BY <1>2, <1>3
  <2>2. /\ p \in Int /\ 4 * p <= y /\ y <= 4 * p + 3
        /\ q \in Int /\ 100 * q <= y /\ y <= 100 * q + 99
    BY <1>3
  <2> HIDE DEF Y, p, q
  <2>3. (Y \div 4) = p + 100 * era /\ (Y \div 100) = q + 4 * era /\ (Y \div 400) = era
    <3>1. /\ (Y \div 4) \in Int /\ 4 * (Y \div 4) <= Y /\ Y <= 4 * (Y \div 4) + 3
          /\ (Y \div 100) \in Int /\ 100 * (Y \div 100) <= Y /\ Y <= 100 * (Y \div 100) + 99
          /\ (Y \div 400) \in Int /\ 400 * (Y \div 400) <= Y /\ Y <= 400 * (Y \div 400) + 399
      BY <2>1
    <3> QED BY <1>2, <1>3, <2>1, <2>2, <3>1
  <2>4. LeapYearsUntil(Y) = (p - q) + 97 * era
    BY <1>2, <2>2, <2>3 DEF LeapYearsUntil
  <2>5. Z \in Int /\ Z = y + 400 * era + 1
    BY <2>1, <1>2, <1>3
  <2> HIDE DEF Z
  <2>6. /\ Z % 4 = 0 <=> y = 4 * p + 3
        /\ Z % 100 = 0 <=> y = 100 * q + 99
        /\ Z % 400 = 0 <=> y = 399
    BY <1>2, <1>3, <2>2, <2>5
  <2>7. LeapYear(Z) <=> y = 4 * p + 3 /\ (y = 399 \/ y <= 100 * q + 98)
    BY <1>3, <2>2, <2>6 DEF LeapYear
  <2> QED BY <2>4, <2>7 DEF p, q, Z
<1>8. LeapYearsUntil(1969) = 477
  BY DEF LeapYearsUntil
<1>9. Y = y + 400 * era
  BY <1>2, <1>3
<1>10. Y \in Int
  BY <1>2, <1>3, <1>9
<1> HIDE DEF Y
<1>11. CASE mp <= 9
  <2>1. m \in 3..12 /\ d \in Int /\ CivilDate(n) = <<Y, m, d>>
    BY <1>1, <1>3, <1>5, <1>6, <1>11
  <2>2. d \in 1..DaysInMonth(Y, m)
    BY <1>3, <1>4, <1>6, <1>11, MonthLengths
  <2>3. DayNumber(<<Y, m, d>>) = n
    <3>1. DaysBefore[m] = t + 59
      BY <1>6, <1>11 DEF DaysBefore
    <3> QED BY <1>2, <1>3, <1>4, <1>5, <1>7, <1>8, <1>9, <2>1, <3>1, FromMarch
  <2> QED BY <1>10, <2>1, <2>2, <2>3 DEF IsDay, IsDate
<1>12. CASE mp >= 10
  <2>1. m \in 1..2 /\ d \in Int /\ CivilDate(n) = <<Y + 1, m, d>>
    BY <1>1, <1>3, <1>5, <1>6, <1>12
  <2>2. d \in 1..DaysInMonth(Y + 1, m)
    BY <1>3, <1>4, <1>6, <1>7, <1>12, MonthLengths
  <2>3. DayNumber(<<Y + 1, m, d>>) = n
    <3>1. DaysBefore[m] = t - 306
      BY <1>6, <1>12 DEF DaysBefore
    <3> QED BY <1>2, <1>3, <1>4, <1>5, <1>7, <1>8, <1>9, <2>1, <3>1, UntilMarch
  <2> QED BY <2>1, <2>2, <2>3, <1>10 DEF IsDay, IsDate
<1> QED BY <1>5, <1>11, <1>12

(* The leap years up to a later year are not fewer. *)
LEMMA LeapMonotone ==
  ASSUME NEW Y \in Int, NEW Z \in Int, Y <= Z
  PROVE  LeapYearsUntil(Y) <= LeapYearsUntil(Z)
<1>1. /\ (Y \div 4) \in Int /\ 4 * (Y \div 4) <= Y /\ Y <= 4 * (Y \div 4) + 3
      /\ (Y \div 100) \in Int /\ 100 * (Y \div 100) <= Y /\ Y <= 100 * (Y \div 100) + 99
      /\ (Y \div 400) \in Int /\ 400 * (Y \div 400) <= Y /\ Y <= 400 * (Y \div 400) + 399
  OBVIOUS
<1>2. /\ (Z \div 4) \in Int /\ 4 * (Z \div 4) <= Z /\ Z <= 4 * (Z \div 4) + 3
      /\ (Z \div 100) \in Int /\ 100 * (Z \div 100) <= Z /\ Z <= 100 * (Z \div 100) + 99
      /\ (Z \div 400) \in Int /\ 400 * (Z \div 400) <= Z /\ Z <= 400 * (Z \div 400) + 399
  OBVIOUS
<1>3. (Y \div 100) = 4 * (Y \div 400) \/ (Y \div 100) = 4 * (Y \div 400) + 1
        \/ (Y \div 100) = 4 * (Y \div 400) + 2 \/ (Y \div 100) = 4 * (Y \div 400) + 3
  BY <1>1
<1>4. (Z \div 100) = 4 * (Z \div 400) \/ (Z \div 100) = 4 * (Z \div 400) + 1
        \/ (Z \div 100) = 4 * (Z \div 400) + 2 \/ (Z \div 100) = 4 * (Z \div 400) + 3
  BY <1>2
<1> QED BY <1>1, <1>2, <1>3, <1>4, SMTT(60) DEF LeapYearsUntil

(* How far into its year a day is. *)
LEMMA DayWithinYear ==
  ASSUME NEW date, IsDate(date)
  PROVE  /\ LeapYearsUntil(date[1] - 1) \in Int /\ LeapYearsUntil(date[1]) \in Int
         /\ DayNumber(date) \in Int
         /\ DayNumber(date) >= 365 * (date[1] - 1970) + LeapYearsUntil(date[1] - 1) - 477
         /\ DayNumber(date) < 365 * (date[1] - 1969) + LeapYearsUntil(date[1]) - 477
<1> DEFINE y == date[1]
           m == date[2]
           d == date[3]
           leap == IF LeapYear(y) THEN 1 ELSE 0
<1>1. y \in Int /\ m \in 1..12 /\ d \in Int /\ d >= 1 /\ d <= DaysInMonth(y, m)
  BY MonthLengths DEF IsDate
<1>2. LeapYearsUntil(y - 1) \in Int /\ LeapYearsUntil(y) = LeapYearsUntil(y - 1) + leap
  <2>1. y \in Int /\ y - 1 \in Int
    BY <1>1
  <2> HIDE DEF y
  <2>2. LeapYearsUntil(y - 1) \in Int
    BY <2>1 DEF LeapYearsUntil
  <2> QED BY <2>1, <2>2, LeapStep
<1>3. LeapYearsUntil(1969) = 477
  BY DEF LeapYearsUntil
<1>4. DayNumber(date)
        = (365 * ((y - 1) - 1969) + (LeapYearsUntil(y - 1) - LeapYearsUntil(1969)))
            + (DaysBefore[m] + (IF m > 2 /\ LeapYear(y) THEN 1 ELSE 0)) + (d - 1)
  BY DEF DayNumber
<1> HIDE DEF y, m, d
<1>5. /\ DaysBefore[m] \in Int /\ DaysBefore[m] >= 0
      /\ (DaysBefore[m] + (IF m > 2 /\ LeapYear(y) THEN 1 ELSE 0)) + (d - 1) <= 364 + leap
  BY <1>1 DEF DaysBefore, DaysInMonth
<1>6. /\ DayNumber(date) \in Int
      /\ DayNumber(date) >= 365 * (y - 1970) + LeapYearsUntil(y - 1) - 477
      /\ DayNumber(date) < 365 * (y - 1969) + LeapYearsUntil(y) - 477
  BY <1>1, <1>2, <1>3, <1>4, <1>5
<1> QED BY <1>1, <1>2, <1>6 DEF y

(* Of two days of the calendar the earlier one, in the order of their      *)
(* strings, has the smaller number.                                        *)
LEMMA EarlierCountsLess ==
  ASSUME NEW e, NEW f, IsDate(e), IsDate(f), Earlier(e, f)
  PROVE  DayNumber(e) < DayNumber(f)
<1>1. /\ e[1] \in Int /\ e[2] \in 1..12 /\ e[3] \in Int /\ e[3] >= 1
      /\ f[1] \in Int /\ f[2] \in 1..12 /\ f[3] \in Int /\ f[3] >= 1
      /\ e[3] <= DaysInMonth(e[1], e[2])
  BY MonthLengths DEF IsDate
<1>2. CASE e[1] < f[1]
  <2>1. LeapYearsUntil(e[1]) <= LeapYearsUntil(f[1] - 1)
    BY <1>1, <1>2, LeapMonotone
  <2> QED BY <1>1, <1>2, <2>1, DayWithinYear
<1>3. CASE e[1] = f[1]
  <2> DEFINE base == 365 * ((e[1] - 1) - 1969) + (LeapYearsUntil(e[1] - 1) - LeapYearsUntil(1969))
             leap == LeapYear(e[1])
  <2>1. base \in Int
    <3>1. LeapYearsUntil(e[1] - 1) \in Int /\ LeapYearsUntil(1969) \in Int
      BY <1>1, DayWithinYear DEF LeapYearsUntil
    <3> QED BY <1>1, <3>1
  <2>2. /\ DayNumber(e) = base + (DaysBefore[e[2]] + (IF e[2] > 2 /\ leap THEN 1 ELSE 0)) + (e[3] - 1)
        /\ DayNumber(f) = base + (DaysBefore[f[2]] + (IF f[2] > 2 /\ leap THEN 1 ELSE 0)) + (f[3] - 1)
    BY <1>3 DEF DayNumber
  <2> HIDE DEF base
  <2>3. e[2] < f[2] \/ (e[2] = f[2] /\ e[3] < f[3])
    BY <1>1, <1>3 DEF Earlier
  <2>4. CASE e[2] = f[2] /\ e[3] < f[3]
    <3>1. DaysBefore[e[2]] \in Int
      BY <1>1 DEF DaysBefore
    <3> QED BY <1>1, <2>1, <2>2, <2>4, <3>1
  <2>5. CASE e[2] < f[2]
    <3>1. /\ DaysBefore[e[2]] \in Int /\ DaysBefore[f[2]] \in Int /\ DaysBefore[e[2] + 1] \in Int
          /\ DaysBefore[e[2] + 1] <= DaysBefore[f[2]]
      BY <1>1, <2>5 DEF DaysBefore
    <3>2. e[3] <= (DaysBefore[e[2] + 1] - DaysBefore[e[2]]) + (IF e[2] = 2 /\ leap THEN 1 ELSE 0)
      BY <1>1 DEF DaysInMonth
    <3> QED BY <1>1, <2>1, <2>2, <2>5, <3>1, <3>2
  <2> QED BY <2>3, <2>4, <2>5
<1> QED BY <1>1, <1>2, <1>3 DEF Earlier

(* A later day never has an earlier date, so an entry that has expired     *)
(* stays expired.                                                          *)
THEOREM DatesFollowDays ==
  ASSUME NEW m \in Nat, NEW n \in Nat, m <= n
  PROVE  ~Earlier(CivilDate(n), CivilDate(m))
<1>1. \A k \in Nat : IsDate(CivilDate(k)) /\ DayNumber(CivilDate(k)) = k
  BY CivilDateIsTheDay DEF IsDay
<1>2. ASSUME Earlier(CivilDate(n), CivilDate(m)) PROVE FALSE
  BY <1>1, <1>2, EarlierCountsLess
<1> QED BY <1>2

-----------------------------------------------------------------------------
(* Reports. *)

NoMarks == [suppressed |-> {}, applied |-> 0, expired |-> {}]

StateTypes ==
  /\ code \subseteq Issues
  /\ day \in Nat /\ clock \in {day, NoClock}
  /\ suppress \in SuppressFiles \union {NotGiven, Malformed}

(* A report is the outcome of the inputs that it remembers, and these were *)
(* sound.                                                                  *)
Explained ==
  HasReport =>
    /\ LastFile \in SuppressFiles \union {NotGiven}
    /\ last.clock \in Nat \union {NoClock}
    /\ last.findings = {i \in last.inputs[1] : PathOf[i] \in last.inputs[2]}
    /\ last.marks = IF LastFile = NotGiven THEN NoMarks
                      ELSE ApplySuppressions(LastFile, LastToday, last.findings)
    /\ last.exit = IF HasUnsuppressedNew(last.findings, last.marks.suppressed, LastBaseline)
                     THEN 1 ELSE 0

IInv == StateTypes /\ Explained

LEMMA InitIInv == Init => IInv
<1> SUFFICES ASSUME Init PROVE IInv
  OBVIOUS
<1>1. StateTypes
  BY ConstantsAssumption DEF Init, StateTypes
<1>2. ~HasReport
  BY DEF Init, NoScan, HasReport
<1> QED BY <1>1, <1>2 DEF IInv, Explained

LEMMA ScanKeeps ==
  ASSUME StateTypes, NEW scanned, Scan(scanned)
  PROVE  Explained'
<1> DEFINE findings == {i \in code : PathOf[i] \in scanned}
           marks == IF suppress = NotGiven THEN NoMarks
                      ELSE ApplySuppressions(suppress, TodayIso(clock), findings)
<1>1. /\ last'.exit = IF HasUnsuppressedNew(findings, marks.suppressed, baseline) THEN 1 ELSE 0
      /\ last'.inputs = <<code, scanned, suppress, baseline>>
      /\ last'.clock = clock /\ last'.findings = findings /\ last'.marks = marks
  BY DEF Scan, Outcome, NoMarks
<1>2. suppress \in SuppressFiles \union {NotGiven}
  BY DEF Scan, InputsBroken, StateTypes
<1>3. /\ LastFile' = suppress /\ LastBaseline' = baseline /\ LastToday' = TodayIso(clock)
      /\ last'.inputs[1] = code /\ last'.inputs[2] = scanned
  BY <1>1 DEF LastFile, LastBaseline, LastToday
<1>4. clock \in Nat \union {NoClock}
  BY DEF StateTypes
<1> HIDE DEF findings, marks
<1>5. /\ last'.findings = {i \in last'.inputs[1] : PathOf[i] \in last'.inputs[2]}
  BY <1>1, <1>3 DEF findings
<1>6. last'.marks = IF LastFile' = NotGiven THEN NoMarks
                      ELSE ApplySuppressions(LastFile', LastToday', last'.findings)
  BY <1>1, <1>3 DEF marks
<1>7. last'.exit = IF HasUnsuppressedNew(last'.findings, last'.marks.suppressed, LastBaseline')
                     THEN 1 ELSE 0
  BY <1>1, <1>3
<1> QED BY <1>1, <1>2, <1>3, <1>4, <1>5, <1>6, <1>7
        DEF Explained, ApplySuppressions, Suppress, HasUnsuppressedNew, Matches

LEMMA NextIInv == IInv /\ [Next]_vars => IInv'
<1> SUFFICES ASSUME IInv, [Next]_vars PROVE IInv'
  OBVIOUS
<1> USE DEF IInv, StateTypes
<1>1. ASSUME NEW scanned, Scan(scanned) PROVE IInv'
  BY <1>1, ScanKeeps DEF Scan
<1>2. CASE ScanRefused
  <2>1. ~HasReport'
    BY <1>2 DEF ScanRefused, HasReport
  <2> QED BY <1>2, <2>1 DEF ScanRefused, Explained
<1>3. ASSUME UNCHANGED last PROVE Explained'
  BY <1>3 DEF Explained, HasReport, LastFile, LastBaseline, LastToday
<1>4. CASE SaveBaseline
  BY <1>3, <1>4 DEF SaveBaseline
<1>5. CASE Commit
  BY <1>3, <1>5 DEF Commit
<1>6. CASE EditSuppressions
  BY <1>3, <1>6 DEF EditSuppressions
<1>7. CASE BreakBaseline
  BY <1>3, <1>7 DEF BreakBaseline
<1>8. CASE NextDay
  BY <1>3, <1>8 DEF NextDay, NoClock
<1>9. CASE ClockFails
  BY <1>3, <1>9 DEF ClockFails, NoClock
<1>10. CASE UNCHANGED vars
  BY <1>3, <1>10 DEF vars
<1> QED BY <1>1, <1>2, <1>4, <1>5, <1>6, <1>7, <1>8, <1>9, <1>10 DEF Next

(* A set of positions in a file has a first one. *)
LEMMA FirstOf ==
  ASSUME NEW S \in SUBSET Nat, S # {}
  PROVE  \E k \in S : \A l \in S : k <= l
<1>1. PICK k \in S : \A l \in S : ~(<<l, k>> \in OpToRel(<, Nat))
  BY NatLessThanWellFounded, WFMin
<1>2. ASSUME NEW l \in S PROVE k <= l
  <2>1. k \in Nat /\ l \in Nat
    OBVIOUS
  <2>2. ~(l < k)
    BY <1>1, <2>1 DEF OpToRel
  <2> QED BY <2>1, <2>2
<1> QED BY <1>2

(* An entry that comes first may stop the loop, but no live match is lost  *)
(* by that.                                                                *)
LEMMA LiveMatchFound ==
  ASSUME NEW file \in SuppressFiles, NEW today, NEW issue
  PROVE  Suppress(file, today, issue).by = {} <=>
           \A k \in DOMAIN file : Matches(file[k], issue) => Earlier(file[k].expires, today)
<1> DEFINE matching == {k \in DOMAIN file : Matches(file[k], issue)}
           live == {k \in matching : ~Earlier(file[k].expires, today)}
           seen == {k \in matching : \A l \in live : k <= l}
<1>1. Suppress(file, today, issue).by = seen \intersect live
  BY DEF Suppress
<1>2. DOMAIN file \subseteq Nat
  BY ConstantsAssumption
<1>3. live # {} => \E k \in live : \A l \in live : k <= l
  BY <1>2, FirstOf
<1>4. seen \intersect live = {} <=> live = {}
  BY <1>3
<1> QED BY <1>1, <1>4

LEMMA MarksAre ==
  ASSUME NEW file, NEW today, NEW findings
  PROVE  LET marks == ApplySuppressions(file, today, findings)
         IN  /\ marks.suppressed = {i \in findings : Suppress(file, today, i).by # {}}
             /\ marks.expired = UNION {Suppress(file, today, i).expired : i \in findings}
<1> DEFINE each == [i \in findings |-> Suppress(file, today, i)]
<1>1. /\ ApplySuppressions(file, today, findings).suppressed = {i \in findings : each[i].by # {}}
      /\ ApplySuppressions(file, today, findings).expired
           = UNION {each[i].expired : i \in findings}
  BY DEF ApplySuppressions
<1>2. \A i \in findings : each[i] = Suppress(file, today, i)
  OBVIOUS
<1> HIDE DEF each
<1>3. {each[i].expired : i \in findings} = {Suppress(file, today, i).expired : i \in findings}
  BY <1>2
<1>4. {i \in findings : each[i].by # {}} = {i \in findings : Suppress(file, today, i).by # {}}
  BY <1>2
<1> QED BY <1>1, <1>3, <1>4

-----------------------------------------------------------------------------
(* Whatever the entries of the suppression file are, however they overlap  *)
(* and expire, the exit code is exact.                                     *)
LEMMA ExplainedIsExact == Explained => GateIsExact
<1> SUFFICES ASSUME Explained, HasReport
             PROVE  last.exit = 1 <=>
                      \E i \in last.findings :
                        ~Accepted(i) /\ (LastBaseline = NotGiven \/ i \notin LastBaseline)
  BY DEF GateIsExact
<1>1. ASSUME NEW i \in last.findings PROVE i \notin last.marks.suppressed <=> ~Accepted(i)
  <2>1. CASE LastFile = NotGiven
    BY <2>1 DEF Explained, NoMarks, Accepted
  <2>2. CASE LastFile # NotGiven
    <3>1. LastFile \in SuppressFiles
      BY <2>2 DEF Explained
    <3>2. last.marks.suppressed = {j \in last.findings : Suppress(LastFile, LastToday, j).by # {}}
      BY <2>2, MarksAre DEF Explained
    <3> QED BY <2>2, <3>1, <3>2, LiveMatchFound DEF Accepted
  <2> QED BY <2>1, <2>2
<1>2. last.exit = 1 <=> HasUnsuppressedNew(last.findings, last.marks.suppressed, LastBaseline)
  BY DEF Explained
<1> QED BY <1>1, <1>2 DEF HasUnsuppressedNew

THEOREM ExitCodesAreExact == Spec => []GateIsExact
<1>1. IInv => GateIsExact
  BY ExplainedIsExact DEF IInv
<1> QED BY InitIInv, NextIInv, <1>1, PTL DEF Spec

(* No entry that names an unsuppressed finding has lapsed in silence.      *)
THEOREM LapsedAreListed == Spec => []LapsedEntriesListed
<1>1. IInv => LapsedEntriesListed
  <2> SUFFICES ASSUME IInv, HasReport, LastFile # NotGiven,
                      NEW i \in last.findings \ last.marks.suppressed,
                      NEW k \in DOMAIN LastFile, Matches(LastFile[k], i)
               PROVE  <<LastFile[k].rule_id, LastFile[k].path>> \in last.marks.expired
    BY DEF LapsedEntriesListed
  <2> DEFINE one == Suppress(LastFile, LastToday, i)
  <2>1. /\ LastFile \in SuppressFiles
        /\ last.marks.suppressed = {j \in last.findings : Suppress(LastFile, LastToday, j).by # {}}
        /\ last.marks.expired = UNION {Suppress(LastFile, LastToday, j).expired : j \in last.findings}
    BY MarksAre DEF IInv, Explained
  <2>2. one.by = {}
    BY <2>1
  <2>3. \A l \in DOMAIN LastFile :
          Matches(LastFile[l], i) => Earlier(LastFile[l].expires, LastToday)
    BY <2>1, <2>2, LiveMatchFound
  <2>4. <<LastFile[k].rule_id, LastFile[k].path>> \in one.expired
    BY <2>3 DEF Suppress
  <2> QED BY <2>1, <2>4
<1> QED BY InitIInv, NextIInv, <1>1, PTL DEF Spec

-----------------------------------------------------------------------------
LEMMA EarlierThanLater ==
  ASSUME NEW d, NEW e, NEW f, Earlier(d, e), ~Earlier(f, e),
         d[1] \in Int, d[2] \in Int, d[3] \in Int, e[1] \in Int, e[2] \in Int, e[3] \in Int,
         f[1] \in Int, f[2] \in Int, f[3] \in Int
  PROVE  Earlier(d, f)
BY DEF Earlier

(* Today is a date, and never goes back while the clock does not.          *)
LEMMA TodayFollowsClock ==
  ASSUME NEW m \in Nat \union {NoClock}, NEW n \in Nat \union {NoClock}, m <= n
  PROVE  /\ ~Earlier(TodayIso(n), TodayIso(m))
         /\ \A j \in 1..3 : TodayIso(m)[j] \in Int /\ TodayIso(n)[j] \in Int
<1> DEFINE p == IF m < 0 THEN 0 ELSE m
           q == IF n < 0 THEN 0 ELSE n
<1>1. p \in Nat /\ q \in Nat /\ p <= q
  BY DEF NoClock
<1>2. TodayIso(m) = CivilDate(p) /\ TodayIso(n) = CivilDate(q)
  BY DEF TodayIso
<1> HIDE DEF p, q
<1>3. ASSUME NEW t \in Nat
      PROVE  CivilDate(t)[1] \in Int /\ CivilDate(t)[2] \in Int /\ CivilDate(t)[3] \in Int
  BY CivilDateIsTheDay DEF IsDay, IsDate
<1> QED BY <1>1, <1>2, <1>3, DatesFollowDays

LEMMA ExpiryIsDate ==
  ASSUME NEW file \in SuppressFiles, NEW k \in DOMAIN file
  PROVE  /\ file[k].expires[1] \in Int /\ file[k].expires[2] \in Int
         /\ file[k].expires[3] \in Int
<1>1. file \in Seq(Entry)
  BY ConstantsAssumption
<1>2. file[k] \in Entry
  BY <1>1
<1>3. file[k].expires \in Expiries
  BY <1>2 DEF Entry
<1> QED BY <1>3, ConstantsAssumption

(* A later clock, the same tree, files and options: what gated still gates. *)
THEOREM RedStaysRed == Spec => TimeNeverTurnsGreen
<1>1. ASSUME IInv, IInv',
             last.exit = 1, HasReport', last'.inputs = last.inputs, last.clock <= last'.clock
      PROVE  last'.exit = 1
  <2>1. HasReport /\ GateIsExact /\ GateIsExact'
    <3>1. HasReport
      BY <1>1 DEF HasReport
    <3>2. GateIsExact
      BY <1>1, ExplainedIsExact DEF IInv
    <3>3. Explained' => GateIsExact'
      BY ExplainedIsExact, PTL
    <3> QED BY <1>1, <3>1, <3>2, <3>3 DEF IInv
  <2>2. /\ LastFile' = LastFile /\ LastBaseline' = LastBaseline
        /\ last'.findings = last.findings
    BY <1>1, <2>1 DEF IInv, Explained, LastFile, LastBaseline
  <2>3. PICK i \in last.findings :
          ~Accepted(i) /\ (LastBaseline = NotGiven \/ i \notin LastBaseline)
    BY <1>1, <2>1 DEF GateIsExact
  <2>4. ~(Accepted(i)')
    <3>1. SUFFICES ASSUME LastFile # NotGiven, NEW k \in DOMAIN LastFile,
                          Matches(LastFile[k], i)
                   PROVE  Earlier(LastFile[k].expires, LastToday')
      BY <2>2 DEF Accepted, Matches
    <3>2. LastFile \in SuppressFiles
      BY <1>1, <2>1, <3>1 DEF IInv, Explained
    <3>3. Earlier(LastFile[k].expires, LastToday)
      BY <2>3, <3>1 DEF Accepted
    <3>4. /\ last.clock \in Nat \union {NoClock} /\ last'.clock \in Nat \union {NoClock}
      BY <1>1, <2>1 DEF IInv, Explained
    <3>5. /\ ~Earlier(LastToday', LastToday)
          /\ \A j \in 1..3 : LastToday[j] \in Int /\ LastToday'[j] \in Int
      BY <1>1, <3>4, TodayFollowsClock DEF LastToday
    <3> QED BY <3>2, <3>3, <3>5, ExpiryIsDate, EarlierThanLater
  <2>5. i \in last'.findings /\ (LastBaseline' = NotGiven \/ i \notin LastBaseline')
    BY <2>2, <2>3
  <2> QED BY <1>1, <2>1, <2>4, <2>5 DEF GateIsExact
<1>2. IInv /\ IInv' =>
        [last.exit = 1 /\ HasReport' /\ last'.inputs = last.inputs /\ last.clock <= last'.clock
           => (last.exit = 1)']_last
  BY <1>1
<1> QED BY InitIInv, NextIInv, <1>2, PTL DEF Spec, TimeNeverTurnsGreen

=============================================================================
