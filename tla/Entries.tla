--------------------------------- MODULE Entries ---------------------------------
(***************************************************************************)
(* The journal tables (journal_entries and postings) with the triggers     *)
(* that guard them, and the statements the engine runs on them.  Each      *)
(* component that books entries extends this module.                       *)
(*                                                                         *)
(* A posting list is opaque: the engine and the triggers tell two lists    *)
(* apart by their sum, their length and the accounts they touch.           *)
(***************************************************************************)
EXTENDS Integers, Sequences

CONSTANTS
  PostingLists,   \* the posting lists that occur (no posting has amount zero)
  Total(_),       \* SUM(amount_cents), exact as SQLite computes it
  Legs(_),        \* COUNT(*)
  Neg(_),         \* the INSERT ... SELECT -amount_cents of a reversal
  Sources,        \* journal_entries.source
  Refs,           \* journal_entries.source_ref, NoRef for NULL
  NoRef,
  MaxEntries      \* bound: entries a run may insert

(***************************************************************************)
(* Negating every amount negates the sum and keeps the number of postings. *)
(***************************************************************************)
ASSUME PostingListsAssumption ==
  \A l \in PostingLists : /\ Total(l) \in Int
                          /\ Legs(l) \in Nat
                          /\ Neg(l) \in PostingLists
                          /\ Total(Neg(l)) = -Total(l)
                          /\ Legs(Neg(l)) = Legs(l)

ASSUME EntriesAssumption ==
  MaxEntries \in Nat /\ NoRef \in Refs /\ "reversal" \in Sources

VARIABLE entries  \* rows in id order: AUTOINCREMENT and no DELETE, so id = index

EntryRow == [state : {"draft", "posted"}, postings : PostingLists,
             source : Sources, ref : Refs, reversedFrom : Nat]

Ids == DOMAIN entries

LastId == Len(entries)

IsDraft(i) == entries[i].state = "draft"

IsPosted(i) == entries[i].state = "posted"

\* What trg_entries_post_requires_balance demands of the row becoming posted.
Balanced(l) == Legs(l) >= 2 /\ Total(l) = 0

\* COUNT(*) WHERE reversed_from_id = i AND state = 'posted' is positive.
HasReversal(i) == \E r \in Ids : entries[r].reversedFrom = i /\ IsPosted(r)

----------------------------------------------------------------------------------
(* Statements.  One that a trigger refuses is not enabled. *)

\* INSERT INTO journal_entries (state 'draft') and its postings.
InsertDraft(l, source, ref) ==
  /\ LastId < MaxEntries
  /\ entries' = Append(entries, [state |-> "draft", postings |-> l, source |-> source,
                                 ref |-> ref, reversedFrom |-> 0])

\* Faulty: without trg_entries_post_requires_balance.
MayMarkUnbalanced(i) == IsDraft(i)

\* Faulty: without trg_entries_posted_immutable.
MayMarkAgain(i) == Balanced(entries[i].postings)

\* UPDATE journal_entries SET state = 'posted': a posted row is immutable, and
\* an unbalanced one is refused.
MayMarkPosted(i) == IsDraft(i) /\ Balanced(entries[i].postings)

MarkPosted(i) ==
  /\ MayMarkPosted(i)
  /\ entries' = [entries EXCEPT ![i].state = "posted"]

\* Faulty: the link to the original is left out.
InsertUnlinked(i) ==
  /\ LastId < MaxEntries
  /\ entries' = Append(entries, [state |-> "posted", postings |-> Neg(entries[i].postings),
                                 source |-> "reversal", ref |-> NoRef, reversedFrom |-> 0])

\* The contra-entry: inserted as a draft, given the negated postings and posted,
\* in one transaction.
InsertReversal(i) ==
  /\ LastId < MaxEntries
  /\ Balanced(Neg(entries[i].postings))
  /\ entries' = Append(entries, [state |-> "posted", postings |-> Neg(entries[i].postings),
                                 source |-> "reversal", ref |-> NoRef, reversedFrom |-> i])

==================================================================================
