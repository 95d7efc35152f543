------------------------------- MODULE MCPayments -------------------------------
(***************************************************************************)
(* Payments with two payables to be collected.                             *)
(***************************************************************************)
EXTENDS Payments, TLC

CONSTANTS w1, w2

MCKind(p) == "direct_debit"

\* A sheet of one payment, and one with a row that is none.
MCSheets == {<<TRUE>>, <<TRUE, FALSE>>}

MCOrders == {<<1>>, <<0, 2>>}

\* What is handed out matters to no step, and to no property once not clean.
Seen ==
  <<tables, clean, IF clean THEN files ELSE << >>,
    [w \in Workers |-> IF clean THEN work[w] ELSE [work[w] EXCEPT !.pays = << >>]]>>

Symmetry == Permutations({w1, w2})

==================================================================================
