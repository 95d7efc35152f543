------------------------------- MODULE MCInvoices -------------------------------
(***************************************************************************)
(* Invoices with two processes that may die.                               *)
(***************************************************************************)
EXTENDS Invoices, TLC

CONSTANTS w1, w2

Symmetry == Permutations({w1, w2})

==================================================================================
