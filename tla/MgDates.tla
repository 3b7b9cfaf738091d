------------------------------ MODULE MgDates ------------------------------
(***************************************************************************)
(* parse_date_string of server/mongoose.c, day by day: which day is meant  *)
(* by a date, and which one the function computes.  It is called with the  *)
(* If-Modified-Since header of a request.                                  *)
(***************************************************************************)
EXTENDS Integers

CONSTANTS FirstYear,  \* the first day is its 1st of January
          LastYear    \* bound

DatesAssumption == FirstYear \in Nat /\ LastYear \in Nat /\ FirstYear > 1970

VARIABLES year, month, day,  \* a date
          number             \* of the day, from the 1st of January 1970
vars == <<year, month, day, number>>

IsLeap(y) == y % 4 = 0 /\ (y % 100 # 0 \/ y % 400 = 0)
DaysIn(y, m) ==
  CASE m = 2 -> IF IsLeap(y) THEN 29 ELSE 28
    [] m \in {4, 6, 9, 11} -> 30
    [] OTHER -> 31

\* Mutant: the years divisible by 400 are not counted back in.
NumLeapYearsShort(y) == y \div 4 - y \div 100

NumLeapYears(y) == y \div 4 - y \div 100 + y \div 400

DaysBeforeMonth == <<0, 31, 59, 90, 120, 151, 181, 212, 243, 273, 304, 334>>

\* Its seconds are the product of an int: the last day whose seconds all fit is this one.
LastDay == 2147483647 \div 86400 - 1

\* the days that may be the result; any, when the product does not fit
Parsed(y, m, d) ==
  LET days == (y - 1970) * 365 + DaysBeforeMonth[m] + (d - 1)
                + (NumLeapYears(y) - NumLeapYears(1970)) IN
  IF days <= LastDay THEN {days} ELSE -(LastDay + 2) .. LastDay + 1

Init == /\ year = FirstYear /\ month = 1 /\ day = 1
        /\ number = 365 * (FirstYear - 1970) + (FirstYear - 1969) \div 4

NextDay ==
  /\ year <= LastYear /\ number' = number + 1
  /\ \/ /\ day < DaysIn(year, month)
        /\ day' = day + 1 /\ UNCHANGED <<month, year>>
     \/ /\ day = DaysIn(year, month) /\ month < 12
        /\ day' = 1 /\ month' = month + 1 /\ UNCHANGED year
     \/ /\ day = 31 /\ month = 12
        /\ day' = 1 /\ month' = 1 /\ year' = year + 1

Next == NextDay
Spec == Init /\ [][Next]_vars

-----------------------------------------------------------------------------

\* Every date gives the day it means, but for January and February of a leap year,
\* which give the day after: the leap day of the year is counted from its first
\* day on.  From 2038 on nothing is known of the result (mongoose.c:1872-1899).
DatesButLeapYears ==
  year < 2038 =>
    Parsed(year, month, day) = {number + (IF IsLeap(year) /\ month <= 2 THEN 1 ELSE 0)}

=============================================================================
