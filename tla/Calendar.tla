------------------------------ MODULE Calendar ------------------------------
(***************************************************************************)
(* Dates as src/src/suppress.rs computes and compares them: `today_iso`    *)
(* turns the days since the epoch into a civil date by hand, and           *)
(* `valid_expiry` says which dates an entry may have.  A zero-padded       *)
(* YYYY-MM-DD is a triple, and the order of such strings is the order of   *)
(* the triples.                                                            *)
(***************************************************************************)
EXTENDS Integers

Era == 146097   \* days in 400 years

(* Bug: the 400-year correction is left out, as if every century were a    *)
(* common year.                                                            *)
YearOfEraNoEra(day_of_era) ==
  ((day_of_era - (day_of_era \div 1460)) + (day_of_era \div 36524)) \div 365

YearOfEra(day_of_era) ==
  (((day_of_era - (day_of_era \div 1460)) + (day_of_era \div 36524)) - (day_of_era \div 146096)) \div 365

(* The arithmetic of today_iso.  `days` comes from an unsigned number, so  *)
(* its branch for days before the year 0 is never taken.                   *)
CivilDate(days) ==
  LET shifted == days + 719468
      era == shifted \div Era
      day_of_era == shifted - era * Era
      year_of_era == YearOfEra(day_of_era)
      day_of_year == day_of_era - ((365 * year_of_era + (year_of_era \div 4)) - (year_of_era \div 100))
      month_prime == (5 * day_of_year + 2) \div 153
      day == (day_of_year - ((153 * month_prime + 2) \div 5)) + 1
      month == IF month_prime < 10 THEN month_prime + 3 ELSE month_prime - 9
      year == year_of_era + era * 400
  IN  <<IF month <= 2 THEN year + 1 ELSE year, month, day>>

(* duration_since fails for a clock before the epoch: day zero. *)
TodayIso(clock) == CivilDate(IF clock < 0 THEN 0 ELSE clock)

(* valid_expiry: Feb 30 passes. *)
Dates == (0..9999) \X (1..12) \X (1..31)

(* expires < today, as strings of four digits and more for the year: the   *)
(* same as for the numbers until the year 10000.                           *)
Earlier(d, e) ==
  \/ d[1] < e[1]
  \/ d[1] = e[1] /\ d[2] < e[2]
  \/ d[1] = e[1] /\ d[2] = e[2] /\ d[3] < e[3]

-----------------------------------------------------------------------------
(* The calendar itself: the days of a date, counted from 1970-01-01. *)

LeapYear(year) == (year % 4 = 0 /\ year % 100 # 0) \/ year % 400 = 0

DaysBefore == <<0, 31, 59, 90, 120, 151, 181, 212, 243, 273, 304, 334, 365>>

DaysInMonth(year, month) ==
  (DaysBefore[month + 1] - DaysBefore[month]) + (IF month = 2 /\ LeapYear(year) THEN 1 ELSE 0)

LeapYearsUntil(year) == ((year \div 4) - (year \div 100)) + (year \div 400)

DayNumber(date) ==
  LET before == date[1] - 1
  IN  (365 * (before - 1969) + (LeapYearsUntil(before) - LeapYearsUntil(1969)))
        + (DaysBefore[date[2]] + (IF date[2] > 2 /\ LeapYear(date[1]) THEN 1 ELSE 0))
        + (date[3] - 1)

(* `date` is a day of the calendar ... *)
IsDate(date) ==
  date[1] \in Int /\ date[2] \in 1..12 /\ date[3] \in 1..DaysInMonth(date[1], date[2])

(* ... and it is the day `days`. *)
IsDay(date, days) == IsDate(date) /\ DayNumber(date) = days

=============================================================================
