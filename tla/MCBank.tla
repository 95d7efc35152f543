--------------------------------- MODULE MCBank ---------------------------------
(***************************************************************************)
(* Bank with two lines of the same amount, and an invoice each could pay   *)
(* besides one it pays with an exchange difference.                        *)
(***************************************************************************)
EXTENDS Bank, TLC

CONSTANTS w1, w2

MCHashes == {1, 2}

MCAmount(h) == 4

MCStatements == {<<1>>, <<1, 2, 1>>}

MCOwed == <<4, 5>>

\* Whether a reopened line is also troubled matters to no property, nor
\* does which command by hand reconciled a line.
Seen == <<lines, entries, open, work, reopened, troubled \ reopened,
          {<<r.line, r.type, r.target, r.by = "auto">> : r \in recon}>>

Symmetry == Permutations({w1, w2})

==================================================================================
