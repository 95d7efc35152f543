---------------------------------- MODULE Calendar ----------------------------------
(***************************************************************************)
(* Dates as the code computes with them (src/dates.rs, src/reports.rs,      *)
(* src/month_end.rs).  A date is the number yyyymmdd, which compares as the *)
(* string yyyy-mm-dd does.  A fiscal year end is the number mmdd.           *)
(***************************************************************************)
EXTENDS Integers

YMD(y, m, d) == 10000 * y + 100 * m + d

YearOf(date) == date \div 10000

MonthOf(date) == (date \div 100) % 100

DayOf(date) == date % 100

IsLeap(y) == (y % 4 = 0 /\ y % 100 # 0) \/ y % 400 = 0

DaysInMonth(y, m) ==
  CASE m \in {1, 3, 5, 7, 8, 10, 12} -> 31
    [] m \in {4, 6, 9, 11}           -> 30
    [] OTHER                         -> IF IsLeap(y) THEN 29 ELSE 28

\* calendar_ok.
IsDate(date) ==
  MonthOf(date) \in 1 .. 12 /\ DayOf(date) \in 1 .. DaysInMonth(YearOf(date), MonthOf(date))

\* Days up to a date, from the first of January of the year 1 (chrono's day count).
DayNumber(date) ==
  LET y == YearOf(date)
      m == MonthOf(date)
      before == <<0, 31, 59, 90, 120, 151, 181, 212, 243, 273, 304, 334>>[m]
  IN  365 * (y - 1) + (y - 1) \div 4 - (y - 1) \div 100 + (y - 1) \div 400
        + before + (IF m > 2 /\ IsLeap(y) THEN 1 ELSE 0) + DayOf(date)

\* The month n months on from month m of year y, as 12 * year + month - 1.
MonthIndex(y, m, n) == 12 * y + (m - 1) + n

\* add_months: the day is clamped to the last of the month.
AddMonths(date, n) ==
  LET i == MonthIndex(YearOf(date), MonthOf(date), n)
      last == DaysInMonth(i \div 12, (i % 12) + 1)
  IN  YMD(i \div 12, (i % 12) + 1, IF DayOf(date) < last THEN DayOf(date) ELSE last)

\* next_day.  The caller passes a day that its own year may not have.
NextDay(y, m, d) ==
  CASE d + 1 <= DaysInMonth(y, m)              -> YMD(y, m, d + 1)
    [] d + 1 > DaysInMonth(y, m) /\ m < 12     -> YMD(y, m + 1, 1)
    [] OTHER                                   -> YMD(y + 1, 1, 1)

MonthEnd(y, m) == YMD(y, m, DaysInMonth(y, m))

\* month_bounds: the first and the last day of month m.
MonthBounds(y, m) == <<YMD(y, m, 1), MonthEnd(y, m)>>

\* fiscal_year_window: the day after the previous year's end, to this year's end.
FiscalYearWindow(fye, year) ==
  IF fye = 1231 THEN <<YMD(year, 1, 1), YMD(year, 12, 31)>>
                ELSE <<NextDay(year - 1, fye \div 100, fye % 100), 10000 * year + fye>>

Within(date, window) == window[1] <= date /\ date <= window[2]

==================================================================================
