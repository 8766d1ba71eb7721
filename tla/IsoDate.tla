------------------------------ MODULE IsoDate ------------------------------
(* Dates from a clock (util/date.cpp).  Time is counted in minutes from the
   beginning of 1970, whose fractions isoDate() splits off in the same way.    *)
EXTENDS Integers, SequencesExt

CONSTANT Years  \* the years considered

ASSUME YearsAssumption ==
  /\ Years \subseteq Nat /\ \A y \in Years : y >= 1970
  /\ \E last \in Years : \A y \in Years : y <= last

VARIABLE epoch  \* the time

(* Mutant of isLeapYear: every fourth year. *)
everyFourth(year) == year % 4 = 0

isLeapYear(year) == \/ year % 400 = 0
                    \/ year % 100 # 0 /\ year % 4 = 0

YearLength(year) == IF isLeapYear(year) THEN 366 ELSE 365
MonthLength(year, month) ==
  CASE month = 2 -> IF isLeapYear(year) THEN 29 ELSE 28
    [] month \in {4, 6, 9, 11} -> 30
    [] OTHER -> 31

(* The days before a year, as the loop over the years adds them up, and before
   a month of a year.                                                         *)
DaysBefore[year \in 1970..(Max(Years) + 1)] ==
  IF year = 1970 THEN 0 ELSE DaysBefore[year - 1] + YearLength(year - 1)
DaysBeforeMonth(year) ==
  LET before[m \in 1..13] == IF m = 1 THEN 0 ELSE before[m - 1] + MonthLength(year, m - 1)
  IN before

(* Year and month are the first that the days left do not fill. *)
isoDate ==
  LET days == epoch \div 1440
      year == CHOOSE y \in 1970..Max(Years) : DaysBefore[y] <= days /\ days < DaysBefore[y + 1]
      rest == days - DaysBefore[year]
      before == DaysBeforeMonth(year)
      month == CHOOSE m \in 1..12 : before[m] <= rest /\ rest < before[m + 1]
  IN [year |-> year, month |-> month, day |-> rest - before[month] + 1,
      hour |-> (epoch \div 60) % 24, minute |-> epoch % 60]

(* The clock, at the first and the last minute of each day. *)
EpochOf(year) == 1440 * DaysBefore[year]
ClockInit == \E year \in Years : epoch = EpochOf(year)

Tick ==
  /\ epoch' = epoch + (IF epoch % 1440 = 0 THEN 1439 ELSE 1)
  /\ \E year \in Years : EpochOf(year) <= epoch' /\ epoch' < EpochOf(year + 1)

ClockSpec == ClockInit /\ [][Tick]_epoch

-----------------------------------------------------------------------------
(* The number of days from the beginning of 1970 to a date of the Gregorian
   calendar, by counting its leap days.                                       *)
DayNumber(year, month, day) ==
  365 * (year - 1970) + ((year - 1969) \div 4) - ((year - 1901) \div 100)
    + ((year - 1601) \div 400) + ((367 * month - 362) \div 12)
    + (CASE month <= 2 -> 0
         [] month > 2 /\ (year % 400 = 0 \/ (year % 4 = 0 /\ year % 100 # 0)) -> -1
         [] OTHER -> -2)
    + day - 1

(* Every minute of a day has the date of the calendar, across the ends of months,
   leap days and centuries: the dates are real ones, and no two days share one. *)
DatesExact ==
  LET date == isoDate
  IN /\ DayNumber(date.year, date.month, date.day) = epoch \div 1440
     /\ date.day \in 1..MonthLength(date.year, date.month)
     /\ 60 * date.hour + date.minute = epoch % 1440
=============================================================================
