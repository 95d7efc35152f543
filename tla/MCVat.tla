---------------------------------- MODULE MCVat ----------------------------------
(***************************************************************************)
(* Vat with the NL codes.  A sale at 21% whose VAT rounds up, two equal    *)
(* sales in one entry, a purchase at 9%, a shifted purchase and private    *)
(* use.                                                                    *)
(***************************************************************************)
EXTENDS Vat

AccountsMC == {"8000", "4000", "1300", "1500", "2500", "2510", "2511", "4700", "1010"}

TypeMC(a) ==
  CASE a = "8000" -> "income"
    [] a \in {"4000", "4700"} -> "expense"
    [] a \in {"2500", "2510", "2511"} -> "liability"
    [] OTHER -> "asset"

SettlementMC == <<"2510", "2511">>

RateMC(c) == CASE c = "21" -> 2100 [] c = "9" -> 900 [] OTHER -> 0

KindMC(c) ==
  CASE c \in {"21", "9"} -> "standard" [] c = "RE" -> "reverse" [] c = "P" -> "private" [] OTHER -> "margin"

EuMC(c) == c = "RE"

CodesMC == {"21", "9", "RE", "P", "M"}

S(a, x, c) == [account |-> a, amount |-> x, code |-> c]

Sale == <<S("8000", -3, "21"), S("1300", 4, "-")>>

TwoEqualSales == <<S("8000", -3, "21"), S("8000", -3, "21"), S("1300", 8, "-")>>

PurchaseAndPrivateUse == <<S("4000", 17, "9"), S("4000", 3, "P"), S("1300", -20, "-")>>

ShiftedPurchase == <<S("4000", 5, "RE"), S("1300", -5, "-")>>

Margin == <<S("8000", -3, "M"), S("1300", 3, "-")>>

Bounds(lists, periods, posts, bookers, reporters, filers, settlers, mortal, taken, reversals, max) ==
  [lists |-> lists, periods |-> periods, posts |-> posts, bookers |-> bookers, reporters |-> reporters,
   filers |-> filers, settlers |-> settlers, mortal |-> mortal, taken |-> taken, reversals |-> reversals, entries |-> max]

\* Two processes book in two periods while one of them files returns.
BookScenario ==
  Bounds({Sale, TwoEqualSales, PurchaseAndPrivateUse, ShiftedPurchase, Margin}, {1, 2},
         BOOLEAN, {1, 2}, {2}, {}, {}, {1}, {}, TRUE, 2)

\* Two processes file the position while somebody takes the default code.
FileScenario == Bounds({PurchaseAndPrivateUse}, {1}, {TRUE}, {1}, {}, {1, 2}, {}, {2}, {1}, FALSE, 3)

\* One files, two settle.
SettleScenario == Bounds({Sale}, {1}, {TRUE}, {1}, {}, {1}, {1, 2}, {2}, {}, TRUE, 5)

ScenariosMC == {BookScenario, FileScenario, SettleScenario}

LineMC(t) == -1

\* What ReadoutMatches (VatProofs.tla) asks of the scenarios.
ASSUME ScenariosAssumption == BooksElsewhere

==================================================================================
