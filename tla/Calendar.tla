------------------------------ MODULE Calendar ------------------------------
(* The dates that RuntimeManager::create puts into a status: days_to_ymd   *)
(* of src/runtime/mod.rs, in integer arithmetic (no value comes near 2^64).*)
EXTENDS Integers

Era == 146097   \* the days of 400 years

(* The day of an era that begins on the first of March.                    *)
doe(days) == (days + 719468) % Era

(* Mutant: every fourth year of a century is a leap year, the last too.    *)
yoe_julian(days) == (doe(days) - doe(days) \div 1460) \div 365

yoe(days) == LET n == doe(days) IN
  (n - n \div 1460 + n \div 36524 - n \div 146096) \div 365

doy(days) == doe(days) - (365 * yoe(days) + yoe(days) \div 4 - yoe(days) \div 100)

days_to_ymd(days) ==
  LET mp == (5 * doy(days) + 2) \div 153
      y == yoe(days) + ((days + 719468) \div Era) * 400
      m == IF mp < 10 THEN mp + 3 ELSE mp - 9
  IN <<IF m <= 2 THEN y + 1 ELSE y, m, doy(days) - (153 * mp + 2) \div 5 + 1>>

-----------------------------------------------------------------------------
(* The reference: the Gregorian calendar, one day after the other.         *)

Epoch == <<1970, 1, 1>>

IsLeap(y) == y % 4 = 0 /\ (y % 100 # 0 \/ y % 400 = 0)

DaysOfMonth(y, m) ==
  CASE m = 2 -> IF IsLeap(y) THEN 29 ELSE 28
    [] m \in {4, 6, 9, 11} -> 30
    [] OTHER -> 31

NextDate(date) ==
  LET y == date[1]  m == date[2]  d == date[3] IN
  CASE d < DaysOfMonth(y, m) -> <<y, m, d + 1>>
    [] d = DaysOfMonth(y, m) /\ m < 12 -> <<y, m + 1, 1>>
    [] OTHER -> <<y + 1, 1, 1>>
=============================================================================
