------------------------------- MODULE MCRecurring -------------------------------
(***************************************************************************)
(* Recurring on a two-month depreciation with a remainder (template 1), an *)
(* accrual that reverses its previous entry until an end date (template    *)
(* 2), a quarterly subscription invoiced once (template 3), and a template *)
(* that would first run after its end.  All posting lists are balanced.    *)
(***************************************************************************)
EXTENDS Recurring

CONSTANTS monthly, remainder, accrual, back

MCTotal(l) == 0

MCLegs(l) == 2

MCNeg(l) == IF l = accrual THEN back ELSE IF l = back THEN accrual ELSE l

MCRuns(t) == CASE t = 1 -> 2 [] t = 3 -> 1 [] OTHER -> 0

\* Started on the 20th, the subscription first runs on the 15th a quarter later.
MCStart(t) == IF t = 3 THEN 20231020 ELSE 20231115

MCEnd(t) == CASE t = 2 -> 20240120 [] t = 4 -> 20231120 [] OTHER -> 0

MCMonths(t) == IF t = 3 THEN 3 ELSE 1

MCDay(t) == CASE t = 1 -> 28 [] t = 4 -> 1 [] OTHER -> 15

MCDays == <<20231231, 20240216>>

MCReversing(t) == t = 2

MCInvoicing(t) == t = 3

MCSplits(t) == t = 1

MCNormal(t) == IF t = 1 THEN monthly ELSE accrual

MCFinal(t) == remainder

==================================================================================
