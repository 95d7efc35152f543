-------------------------------- MODULE MCOverlap --------------------------------
(***************************************************************************)
(* Two runs over a two-month depreciation with a remainder (template 1)    *)
(* and an accrual that reverses its previous entry until an end date       *)
(* (template 2).  All posting lists are balanced.                          *)
(***************************************************************************)
EXTENDS Overlap

CONSTANTS monthly, remainder, accrual, back

MCTotal(l) == 0

MCLegs(l) == 2

MCNeg(l) == IF l = accrual THEN back ELSE IF l = back THEN accrual ELSE l

MCRuns(t) == IF t = 1 THEN 2 ELSE 0

MCStart(t) == 20231115

MCEnd(t) == IF t = 2 THEN 20240120 ELSE 0

MCMonths(t) == 1

MCDay(t) == IF t = 1 THEN 28 ELSE 15

MCDays == <<20231231, 20240216>>

MCReversing(t) == t = 2

MCInvoicing(t) == FALSE

MCSplits(t) == t = 1

MCNormal(t) == IF t = 1 THEN monthly ELSE accrual

MCFinal(t) == remainder

\* The plans are not looked at.
Seen == <<books, templates, usable, day, runner, clerk, crashes, changes, revived, other, shared>>

==================================================================================
