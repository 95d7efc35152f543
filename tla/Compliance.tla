--------------------------------- MODULE Compliance ---------------------------------
(***************************************************************************)
(* The compliance calendar (src/compliance.rs): which filings fall due      *)
(* when, by the rules of 31 jurisdictions, which were recorded as filed,    *)
(* and what `compliance status --year' shows.                               *)
(*                                                                         *)
(* A filing type is [type, rule, shape]; a period of it is <<year, n>> with *)
(* n = 0 when the shape is a whole year.                                    *)
(***************************************************************************)
EXTENDS Calendar, FiniteSetsExt, TLC

CONSTANTS
  FilingTypes,     \* compliance.filingTypes of all profiles together
  FiscalYearEnds,  \* the fiscal year ends a company may have, as mmdd
  Years,           \* bound: the years looked at
  Days             \* bound: the days on which somebody looks

VARIABLES
  today,    \* Utc::now()
  fye,      \* company.fiscal_year_end
  filings,  \* (type, period) rows of the filings table
  returns   \* periods of vat_returns marked filed

complianceVars == <<today, fye, filings, returns>>

ComplianceTypeOK ==
  /\ today \in Days
  /\ fye \in FiscalYearEnds
  /\ filings \subseteq {t.type : t \in FilingTypes} \X (Years \X (0 .. 12))
  /\ returns \subseteq Years \X (0 .. 12)

ComplianceInit ==
  /\ today = Min(Days)
  /\ fye \in FiscalYearEnds
  /\ filings = {}
  /\ returns = {}

----------------------------------------------------------------------------------
(* Deadline rules.                                                         *)

\* quarter_deadline.
QuarterDeadline(y, q) ==
  IF q = 4 THEN YMD(y + 1, 1, 31) ELSE YMD(y, 3 * q + 1, <<30, 31, 31>>[q])

\* quarter_deadline_on_offset.
QuarterOnOffset(y, q, offset, day) ==
  LET m == 3 * q + offset
  IN  YMD(IF m > 12 THEN y + 1 ELSE y, ((m - 1) % 12) + 1, day)

\* day_of_next_month.
DayOfNextMonth(y, m, day) == IF m = 12 THEN YMD(y + 1, 1, day) ELSE YMD(y, m + 1, day)

\* fy_month_offset: the month n months after the month the fiscal year ends in.
FyMonthOffset(y, n) == MonthIndex(y, fye \div 100, n)

\* months_after_fy_end: the last day of that month.
MonthsAfterFyEnd(y, n) == MonthEnd(FyMonthOffset(y, n) \div 12, (FyMonthOffset(y, n) % 12) + 1)

FyDay(y, n, day) == YMD(FyMonthOffset(y, n) \div 12, (FyMonthOffset(y, n) % 12) + 1, day)

\* The rules by their form, with their parameters.
QuarterOffsets ==
  "lu-quarterly" :> <<1, 15>> @@ "be-quarterly" :> <<1, 25>> @@ "de-ustva-quarterly" :> <<1, 10>> @@
  "dk-quarterly" :> <<3, 1>> @@ "fi-quarterly" :> <<2, 12>> @@ "at-uva-quarterly" :> <<2, 15>> @@
  "it-liquidazione-quarterly" :> <<2, 16>> @@ "pt-dp-quarterly" :> <<2, 20>> @@
  "mt-vat-quarterly" :> <<2, 15>> @@ "cy-vat-quarterly" :> <<2, 10>>

MonthDays ==
  "lu-monthly" :> 15 @@ "be-vat-monthly" :> 20 @@ "bg-vat-monthly" :> 14 @@ "hr-vat-monthly" :> 20 @@
  "si-vat-monthly" :> 20 @@ "ee-vat-monthly" :> 20 @@ "lv-vat-monthly" :> 20 @@
  "lt-vat-monthly" :> 25 @@ "cz-vat-monthly" :> 25 @@ "sk-vat-monthly" :> 25 @@
  "gr-vat-monthly" :> 26 @@ "pl-vat-monthly" :> 25 @@ "hu-vat-monthly" :> 20 @@
  "ro-vat-monthly" :> 25 @@ "xk-vat-monthly" :> 20

MonthsAfter ==
  "nl-13-months" :> 13 @@ "lu-7-months" :> 7 @@ "gb-9-months" :> 9 @@ "gb-ct600" :> 12 @@
  "be-7-months" :> 7 @@ "de-12-months" :> 12 @@ "dk-5-months" :> 5 @@ "fi-8-months" :> 8 @@
  "no-7-months" :> 7 @@ "se-7-months" :> 7 @@ "ie-9-months" :> 9 @@ "it-bilancio" :> 5 @@
  "es-7-months" :> 7 @@ "bg-annual-accounts" :> 6 @@ "bg-cit" :> 6 @@ "hr-annual-accounts" :> 4 @@
  "hr-cit" :> 4 @@ "si-annual-accounts" :> 8 @@ "ee-annual-accounts" :> 6 @@
  "lv-annual-accounts" :> 7 @@ "lt-annual-accounts" :> 4 @@ "mt-annual-accounts" :> 10 @@
  "mt-cit" :> 9 @@ "cy-annual-accounts" :> 10 @@ "cz-annual-accounts" :> 6 @@ "cz-cit" :> 3 @@
  "sk-annual-accounts" :> 6 @@ "gr-annual-accounts" :> 10 @@ "pl-annual-accounts" :> 6 @@
  "hu-annual-accounts" :> 5 @@ "hu-cit" :> 5 @@ "ro-annual-accounts" :> 5

\* <<years on, mmdd>>.
FixedDays ==
  "lu-annual" :> <<1, 301>> @@ "de-annual-vat" :> <<1, 731>> @@ "at-annual-vat" :> <<1, 630>> @@
  "it-dichiarazione-iva" :> <<1, 430>> @@ "es-390" :> <<1, 130>> @@ "pt-irc" :> <<1, 531>> @@
  "pt-ies" :> <<1, 715>> @@ "si-ddpo" :> <<1, 331>> @@ "lt-cit" :> <<1, 1001>> @@
  "cy-td4" :> <<2, 131>> @@ "sk-cit" :> <<1, 331>> @@ "gr-cit" :> <<1, 630>> @@
  "pl-cit" :> <<1, 331>> @@ "ro-cit" :> <<1, 625>> @@ "xk-annual-accounts" :> <<1, 331>> @@
  "xk-cit" :> <<1, 331>>

FyDays == "es-200" :> <<7, 25>> @@ "us-1120" :> <<4, 15>>

TwoMonthly ==
  "no-bimonthly" :> <<410, 610, 831, 1010, 1210, 10210>> @@
  "ie-bimonthly" :> <<323, 523, 723, 923, 1123, 10123>>

\* compute_deadline for period <<y, n>>.
Deadline(rule, y, n) ==
  CASE rule \in {"nl-quarterly", "us-941"} -> QuarterDeadline(y, n)
    [] rule \in DOMAIN QuarterOffsets ->
         QuarterOnOffset(y, n, QuarterOffsets[rule][1], QuarterOffsets[rule][2])
    [] rule = "se-quarterly" -> QuarterOnOffset(y, n, 2, IF n = 2 THEN 17 ELSE 12)
    [] rule = "es-303-quarterly" -> QuarterOnOffset(y, n, 1, IF n = 4 THEN 30 ELSE 20)
    [] rule \in DOMAIN MonthDays   -> DayOfNextMonth(y, n, MonthDays[rule])
    [] rule \in DOMAIN TwoMonthly  -> 10000 * y + TwoMonthly[rule][n]
    [] rule \in DOMAIN MonthsAfter -> MonthsAfterFyEnd(y, MonthsAfter[rule])
    [] rule \in DOMAIN FixedDays   -> 10000 * (y + FixedDays[rule][1]) + FixedDays[rule][2]
    [] rule \in DOMAIN FyDays      -> FyDay(y, FyDays[rule][1], FyDays[rule][2])

----------------------------------------------------------------------------------

Periods(shape) ==
  CASE shape = "YYYY-Qn" -> 1 .. 4
    [] shape = "YYYY-MM" -> 1 .. 12
    [] shape = "YYYY-Pn" -> 1 .. 6
    [] OTHER             -> {0}

\* is_filed.
IsFiled(t, period) == IF t.type = "OB" THEN period \in returns ELSE <<t.type, period>> \in filings

Due(t, period) == Deadline(t.rule, period[1], period[2])

Obligation(t, period) ==
  [type |-> t.type, period |-> period, deadline |-> Due(t, period),
   status |-> IF IsFiled(t, period) THEN "filed" ELSE IF Due(t, period) < today THEN "overdue" ELSE "open"]

\* The last period of the year before, which falls due in the year that is shown.
FinalPeriod(shape) == CASE shape = "YYYY-Qn" -> 4 [] shape = "YYYY-MM" -> 12 [] OTHER -> 6

\* Faulty: without the last period of the year before.
ShownAlone(t, y) == {<<y, n>> : n \in IF t.shape = "YYYY-MM" THEN 1 .. 11 ELSE Periods(t.shape)}

\* The periods of a type in the view of year y: a monthly December is left to the
\* next year's view, and last year's accounts are shown until they are filed.
Shown(t, y) ==
  IF t.shape = "YYYY"
    THEN {<<y, 0>>} \cup {p \in {<<y - 1, 0>>} : ~IsFiled(t, p) /\ Due(t, p) < Due(t, <<y, 0>>)}
    ELSE LET own == IF t.shape = "YYYY-MM" THEN 1 .. 11 ELSE Periods(t.shape)
         IN  {<<y, n>> : n \in own}
               \cup {p \in {<<y - 1, FinalPeriod(t.shape)>>} : Due(t, p) >= YMD(y, 1, 1)}

\* compliance_status.
Status(y) == UNION {{Obligation(t, p) : p \in Shown(t, y)} : t \in FilingTypes}

----------------------------------------------------------------------------------

\* compliance mark: OB is refused (INVALID_TYPE), a second mark only moves the date.
MarkFiled(t, period) ==
  /\ t.type # "OB"
  /\ filings' = filings \cup {<<t.type, period>>}
  /\ UNCHANGED <<today, fye, returns>>

\* vat readout --mark-filed (src/vat.rs).
MarkReturn(period) ==
  /\ returns' = returns \cup {period}
  /\ UNCHANGED <<today, fye, filings>>

Tomorrow(d) ==
  /\ d > today
  /\ today' = d
  /\ UNCHANGED <<fye, filings, returns>>

FilingOf(types) ==
  \/ \E t \in types, y \in Years : \E n \in Periods(t.shape) : MarkFiled(t, <<y, n>>)
  \/ \E t \in types, y \in Years, q \in 1 .. 4 : t.type = "OB" /\ MarkReturn(<<y, q>>)

----------------------------------------------------------------------------------
(* Properties.                                                             *)

\* The last day of a period.
PeriodEnd(shape, y, n) ==
  CASE shape = "YYYY-Qn" -> MonthEnd(y, 3 * n)
    [] shape = "YYYY-MM" -> MonthEnd(y, n)
    [] shape = "YYYY-Pn" -> MonthEnd(y, 2 * n)
    [] OTHER             -> 10000 * y + fye

(***************************************************************************)
(* No obligation is hidden: one that is overdue is shown as overdue in the  *)
(* view of its own year or of the next one, and a filed one is not.  Every  *)
(* deadline lies after the end of its period, and later periods fall due    *)
(* later.                                                                   *)
(***************************************************************************)
OverdueIsShown ==
  \A t \in FilingTypes, y \in Years : \A n \in Periods(t.shape) :
    LET deadline == Deadline(t.rule, y, n)
    IN  /\ deadline < today /\ ~IsFiled(t, <<y, n>>) =>
             /\ \E v \in {y, y + 1} : <<y, n>> \in Shown(t, v)
             /\ Obligation(t, <<y, n>>).status = "overdue"
        /\ deadline > PeriodEnd(t.shape, y, n)
        /\ IsDate(deadline)
        /\ n > 1 => Deadline(t.rule, y, n - 1) < deadline
        /\ n <= 1 => Deadline(t.rule, y - 1, Max(Periods(t.shape))) < deadline

==================================================================================
