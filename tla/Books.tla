---------------------------------- MODULE Books ----------------------------------
(***************************************************************************)
(* What the journal promises, and nothing of how it is kept.               *)
(*                                                                         *)
(* A journal is a list of entries.  An entry is entered as a draft, a      *)
(* draft may still be edited, posting it is final, and the only way to     *)
(* take a posted entry back is one contra-entry that negates it.  This is  *)
(* the lifecycle the README states under "Entry lifecycle", with the one   *)
(* hole the triggers leave in it: MoveRows.  Ledger.tla is shown to        *)
(* implement it.                                                           *)
(***************************************************************************)
EXTENDS Integers, Sequences

CONSTANTS
  PostingLists,   \* the posting lists an entry may carry
  Total(_),       \* the sum in cents of a posting list
  Legs(_),        \* the number of its postings
  Neg(_)          \* the list with every amount negated

VARIABLE books    \* the journal: entry i is books[i]

Balanced(l) == Legs(l) >= 2 /\ Total(l) = 0

Row(state, l, from) == [state |-> state, postings |-> l, reversedFrom |-> from]

Init == books = << >>

\* A new draft, with whatever postings.
Enter(l) == books' = Append(books, Row("draft", l, 0))

\* A draft is work in progress.
Edit(i, l) ==
  /\ books[i].state = "draft"
  /\ books' = [books EXCEPT ![i].postings = l]

\* Only a balanced draft is posted.
Post(i) ==
  /\ books[i].state = "draft"
  /\ Balanced(books[i].postings)
  /\ books' = [books EXCEPT ![i].state = "posted"]

\* A posted entry is reversed once, by an entry posted with it.
Reverse(i) ==
  /\ books[i].state = "posted"
  /\ \A r \in DOMAIN books : books[r].reversedFrom # i
  /\ books' = Append(books, Row("posted", Neg(books[i].postings), i))

\* What no command does and no trigger stops: by SQL, rows of a posted entry are
\* given to a draft.
MoveRows(i, d, l, m) ==
  /\ books[i].state = "posted" /\ books[d].state = "draft"
  /\ Legs(l) < Legs(books[i].postings)
  /\ Legs(l) + Legs(m) = Legs(books[i].postings) + Legs(books[d].postings)
  /\ books' = [books EXCEPT ![i].postings = l, ![d].postings = m]

Next ==
  \/ \E l \in PostingLists : Enter(l)
  \/ \E i \in DOMAIN books : \/ \E l \in PostingLists : Edit(i, l)
                             \/ Post(i)
                             \/ Reverse(i)
                             \/ \E d \in DOMAIN books, l, m \in PostingLists : MoveRows(i, d, l, m)

Spec == Init /\ [][Next]_books

==================================================================================
