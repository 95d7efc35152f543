---------------------------------- MODULE Sums -----------------------------------
(***************************************************************************)
(* Sums of integers over a finite set, as SQL's SUM and the loops of the   *)
(* code compute them.                                                      *)
(***************************************************************************)
EXTENDS Integers, FiniteSetsExt

SumOf(f) == SumFunction(f)

==================================================================================
