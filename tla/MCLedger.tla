--------------------------------- MODULE MCLedger ---------------------------------
(***************************************************************************)
(* Ledger on two processes, one account, one invoice and three entries.   *)
(* Posting lists: a balanced one and its negation, the empty one, one      *)
(* whose sum (8, with Modulus 8 for 2^64) is zero only in an i64, and its  *)
(* negation.                                                               *)
(***************************************************************************)
EXTENDS Ledger, TLC

CONSTANTS balanced, contra, empty, wraps, unwraps

MCTotal(l) == CASE l = wraps -> 8 [] l = unwraps -> -8 [] OTHER -> 0

MCLegs(l) == IF l = empty THEN 0 ELSE 2

MCNeg(l) == CASE l = balanced -> contra [] l = contra -> balanced
              [] l = wraps -> unwraps [] l = unwraps -> wraps [] l = empty -> empty

MCTouches(l) == IF l = empty THEN {} ELSE Accounts

\* No step asks anything of the invoices.
Seen == <<entries, active, audit, pc, arg, fresh, stripped>>

\* A list and its negation play the same part.
Symmetry ==
  {f @@ g @@ h : f \in Permutations(Procs), g \in Permutations({balanced, contra}),
                 h \in Permutations({wraps, unwraps})}

==================================================================================
