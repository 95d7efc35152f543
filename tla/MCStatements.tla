------------------------------- MODULE MCStatements -------------------------------
(***************************************************************************)
(* Statements on a fiscal year that ends in March: turnover, other income,  *)
(* income on an account without a taxonomy code, and one expense.  A barter *)
(* earns and spends one cent, so a year of barters has no result.           *)
(***************************************************************************)
EXTENDS Statements

CONSTANTS sales, other, odd, expense, cash, loan, shop

TaxonomyMC(a) ==
  CASE a = sales   -> "WOMZ.80"
    [] a = other   -> "WOVB.82"
    [] a = expense -> "WBED.42"
    [] a = cash    -> "BLIM.10"
    [] a = loan    -> "BLAS.08"
    [] a = Equity  -> "BEIV.05"
    [] OTHER       -> "none"

Line(from, to) == [a \in Accounts |-> CASE a = from -> -1 [] a = to -> 1 [] OTHER -> 0]

Sale == Line(sales, cash)

Barter == Line(sales, expense)

Loan == Line(loan, cash)

LscPnlMC == {[accounts |-> {sales, other}, sign |-> 1], [accounts |-> {expense}, sign |-> -1]}

LscActivaMC == {[accounts |-> {cash}, sign |-> 1]}

LscPassivaMC == {[accounts |-> {Equity}, sign |-> 1]}

\* A close cut off anywhere, and undone.
CloseScenario ==
  [days |-> {20230630}, centers |-> {NoCenter}, bookings |-> {Sale, Barter}, entries |-> 5, reading |-> FALSE]

\* A balance sheet read while a year is booked and closed.
SheetScenario ==
  [days |-> {20230630, 20240331}, centers |-> {NoCenter}, bookings |-> {Sale, Loan}, entries |-> 3, reading |-> TRUE]

\* Every kind of account, in two months and on two cost centers.
PartsScenario ==
  [days |-> {20230401, 20240229}, centers |-> {shop, NoCenter},
   bookings |-> {Line(other, expense), Line(odd, cash)}, entries |-> 3, reading |-> FALSE]

ScenariosMC == {CloseScenario, SheetScenario, PartsScenario}

\* The chart is one the promise is made of.
ASSUME KindsAgreeMC == KindsAgree

BookingsMC == UNION {s.bookings : s \in ScenariosMC}

==================================================================================
