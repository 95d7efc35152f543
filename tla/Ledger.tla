---------------------------------- MODULE Ledger ----------------------------------
(***************************************************************************)
(* The posting engine (src/entries.rs) run by several processes on one     *)
(* SQLite file.                                                            *)
(*                                                                         *)
(* A command reads the row it works on, then opens a deferred transaction. *)
(* In WAL mode the first read of the transaction fixes its snapshot, and   *)
(* its first write is refused (SQLITE_BUSY_SNAPSHOT) once anybody has      *)
(* committed since; the writes and the COMMIT happen under the one write   *)
(* lock, so they are one step.  `fresh' holds the processes whose open     *)
(* transaction still reads the last commit: every commit empties it.       *)
(* A process may die between any two steps; its transaction rolls back.    *)
(***************************************************************************)
EXTENDS Entries

CONSTANTS
  Procs,         \* processes: command-line runs, MCP servers
  Accounts,
  Touches(_),    \* the accounts a posting list books on
  Modulus,       \* 2^64: the engine adds cents in an i64 that wraps
  Invoices,
  None           \* the argument of an idle process

Manual == "manual"

ASSUME LedgerAssumption ==
  /\ Manual \in Sources
  /\ Modulus \in Nat \ {0}
  /\ \A l \in PostingLists : Touches(l) \subseteq Accounts
  /\ \A l \in PostingLists : Touches(Neg(l)) = Touches(l)

VARIABLES
  active,        \* accounts.active = 1
  invoices,      \* invoices.entry_id (0: none) and invoices.status
  audit,         \* audit_log, as rows of an action and its entry ids
  pc, arg,       \* where each process is, and what it works on
  fresh,
  stripped       \* history: entries that lost a posting row by SQL after they were posted

tables == <<entries, active, invoices, audit>>

vars == <<entries, active, invoices, audit, pc, arg, fresh, stripped>>

InvoiceStatus == {"draft", "sent", "paid", "void"}

AuditRow == [action : {"entry.create", "entry.post", "entry.reverse"}, ids : Seq(Nat)]

Where == {"idle", "create", "post", "post_tx", "reverse", "reverse_tx",
          "deactivate", "reactivate"}

InTx == {"post_tx", "reverse_tx"}

TablesOK ==
  /\ entries \in Seq(EntryRow)
  /\ active \subseteq Accounts
  /\ invoices \in [Invoices -> [entry : Nat, status : InvoiceStatus]]
  /\ audit \in Seq(AuditRow)

\* What a process at a given place works on.
ArgOK(where, what) ==
  /\ where = "idle" => what = None
  /\ where = "create" => what \in PostingLists
  /\ where \in {"post", "reverse"} \cup InTx => what \in Ids
  /\ where \in {"deactivate", "reactivate"} => what \in Accounts

ProcsOK ==
  /\ pc \in [Procs -> Where]
  /\ arg = [p \in Procs |-> arg[p]]
  /\ \A p \in Procs : ArgOK(pc[p], arg[p])
  /\ fresh \subseteq {p \in Procs : pc[p] \in InTx}

TypeOK == TablesOK /\ ProcsOK /\ stripped \subseteq {i \in Ids : IsPosted(i)}

Init ==
  /\ entries = << >>
  /\ active = Accounts
  /\ invoices = [v \in Invoices |-> [entry |-> 0, status |-> "draft"]]
  /\ audit = << >>
  /\ pc = [p \in Procs |-> "idle"]
  /\ arg = [p \in Procs |-> None]
  /\ fresh = {}
  /\ stripped = {}

----------------------------------------------------------------------------------
(* Steps of a process. *)

Goto(p, where, what) ==
  /\ pc' = [pc EXCEPT ![p] = where]
  /\ arg' = [arg EXCEPT ![p] = what]

\* The command ends: it returned, or failed and its transaction rolled back.
Done(p) == Goto(p, "idle", None)

Abort(p) ==
  /\ Done(p)
  /\ fresh' = fresh \ {p}
  /\ UNCHANGED tables

\* A write transaction commits: every other open snapshot is stale from here on.
Commit(p) == Done(p) /\ fresh' = {}

Record(action, ids) == audit' = Append(audit, [action |-> action, ids |-> ids])

Postable(i) == Touches(entries[i].postings) \subseteq active

(***************************************************************************)
(* create_entry: the checks run before the transaction opens.              *)
(***************************************************************************)
CreateCheck(p, l) ==
  /\ pc[p] = "idle"
  /\ Legs(l) >= 2
  /\ Touches(l) \subseteq active
  /\ Total(l) % Modulus = 0
  /\ Goto(p, "create", l)
  /\ UNCHANGED <<tables, fresh>>

CreateWrite(p) ==
  /\ pc[p] = "create"
  /\ InsertDraft(arg[p], Manual, NoRef)
  /\ Record("entry.create", <<LastId + 1>>)
  /\ Commit(p)
  /\ UNCHANGED <<active, invoices>>

(***************************************************************************)
(* post_entry: the state is read before the transaction, the accounts in   *)
(* it, and the triggers judge the UPDATE.                                  *)
(***************************************************************************)
PostCheck(p, i) ==
  /\ pc[p] = "idle"
  /\ IsDraft(i)
  /\ Goto(p, "post", i)
  /\ UNCHANGED <<tables, fresh>>

PostSnapshot(p) ==
  /\ pc[p] = "post"
  /\ Postable(arg[p])
  /\ Goto(p, "post_tx", arg[p])
  /\ fresh' = fresh \cup {p}
  /\ UNCHANGED tables

PostInactive(p) ==
  /\ pc[p] = "post"
  /\ ~Postable(arg[p])
  /\ Abort(p)

\* Faulty: the accounts were read outside the transaction.
PostWriteStale(p) ==
  /\ pc[p] = "post_tx"
  /\ MarkPosted(arg[p])
  /\ Record("entry.post", <<arg[p]>>)
  /\ Commit(p)
  /\ UNCHANGED <<active, invoices>>

PostWrite(p) ==
  /\ pc[p] = "post_tx"
  /\ p \in fresh
  /\ MarkPosted(arg[p])
  /\ Record("entry.post", <<arg[p]>>)
  /\ Commit(p)
  /\ UNCHANGED <<active, invoices>>

\* SQLITE_BUSY_SNAPSHOT, or a trigger raised.
PostRefused(p) ==
  /\ pc[p] = "post_tx"
  /\ p \notin fresh \/ ~MayMarkPosted(arg[p])
  /\ Abort(p)

(***************************************************************************)
(* reverse_entry: the count of posted reversals is read before the         *)
(* transaction and again in it.  No account is checked.  The invoice the   *)
(* entry booked becomes void with it.                                      *)
(***************************************************************************)
ReverseCheck(p, i) ==
  /\ pc[p] = "idle"
  /\ IsPosted(i)
  /\ ~HasReversal(i)
  /\ Goto(p, "reverse", i)
  /\ UNCHANGED <<tables, fresh>>

\* Faulty: without the count inside the transaction.
ReverseSnapshotUnchecked(p) ==
  /\ pc[p] = "reverse"
  /\ Goto(p, "reverse_tx", arg[p])
  /\ fresh' = fresh \cup {p}
  /\ UNCHANGED tables

ReverseSnapshot(p) ==
  /\ pc[p] = "reverse"
  /\ ~HasReversal(arg[p])
  /\ Goto(p, "reverse_tx", arg[p])
  /\ fresh' = fresh \cup {p}
  /\ UNCHANGED tables

ReverseTwice(p) ==
  /\ pc[p] = "reverse"
  /\ HasReversal(arg[p])
  /\ Abort(p)

VoidInvoices(i) ==
  invoices' = [v \in Invoices |->
                 IF invoices[v].entry = i THEN [invoices[v] EXCEPT !.status = "void"]
                                          ELSE invoices[v]]

ReverseWrite(p) ==
  /\ pc[p] = "reverse_tx"
  /\ p \in fresh
  /\ InsertReversal(arg[p])
  /\ VoidInvoices(arg[p])
  /\ Record("entry.reverse", <<LastId + 1, arg[p]>>)
  /\ Commit(p)
  /\ UNCHANGED active

\* SQLITE_BUSY_SNAPSHOT, or the contra-entry of an entry that lost a row does not balance.
ReverseRefused(p) ==
  /\ pc[p] = "reverse_tx"
  /\ p \notin fresh \/ ~Balanced(Neg(entries[arg[p]].postings))
  /\ Abort(p)

(***************************************************************************)
(* deactivate_account and reactivate_account: a read, then an autocommit   *)
(* UPDATE that does not look again.                                        *)
(***************************************************************************)
DeactivateCheck(p, a) ==
  /\ pc[p] = "idle"
  /\ a \in active
  /\ Goto(p, "deactivate", a)
  /\ UNCHANGED <<tables, fresh>>

DeactivateWrite(p) ==
  /\ pc[p] = "deactivate"
  /\ active' = active \ {arg[p]}
  /\ Commit(p)
  /\ UNCHANGED <<entries, invoices, audit>>

ReactivateCheck(p, a) ==
  /\ pc[p] = "idle"
  /\ a \notin active
  /\ Goto(p, "reactivate", a)
  /\ UNCHANGED <<tables, fresh>>

ReactivateWrite(p) ==
  /\ pc[p] = "reactivate"
  /\ active' = active \cup {arg[p]}
  /\ Commit(p)
  /\ UNCHANGED <<entries, invoices, audit>>

\* The process is killed.
Crash(p) ==
  /\ pc[p] # "idle"
  /\ Abort(p)

----------------------------------------------------------------------------------
(* SQL on postings, which the README allows for drafts, and finalize_invoice. *)

\* Faulty: without the triggers on postings.
RawEditAny(i, l) ==
  /\ entries' = [entries EXCEPT ![i].postings = l]
  /\ fresh' = {}
  /\ UNCHANGED <<active, invoices, audit, pc, arg, stripped>>

(***************************************************************************)
(* INSERT, DELETE, and an UPDATE that leaves entry_id alone: the triggers  *)
(* let them change the postings of a draft and of nothing else.            *)
(***************************************************************************)
RawEdit(i, l) ==
  /\ IsDraft(i)
  /\ entries' = [entries EXCEPT ![i].postings = l]
  /\ fresh' = {}
  /\ UNCHANGED <<active, invoices, audit, pc, arg, stripped>>

(***************************************************************************)
(* UPDATE postings SET entry_id = d: trg_postings_entry_draft_update looks *)
(* at the entry the row goes to, not at the one it leaves.  Entry i keeps  *)
(* the list l, draft d has the list m.  (Between drafts it is two edits.)  *)
(***************************************************************************)
MoveRows(i, d, l, m) ==
  /\ IsPosted(i) /\ IsDraft(d)
  /\ Legs(l) < Legs(entries[i].postings)
  /\ Legs(l) + Legs(m) = Legs(entries[i].postings) + Legs(entries[d].postings)
  /\ entries' = [entries EXCEPT ![i].postings = l, ![d].postings = m]
  /\ stripped' = stripped \cup {i}
  /\ fresh' = {}
  /\ UNCHANGED <<active, invoices, audit, pc, arg>>

\* The last write of finalize_invoice, an autocommit UPDATE that asks nothing of the
\* invoice: a posted entry becomes its booking.
LinkInvoice(v, i) ==
  /\ IsPosted(i)
  /\ invoices' = [invoices EXCEPT ![v] = [entry |-> i, status |-> "sent"]]
  /\ fresh' = {}
  /\ UNCHANGED <<entries, active, audit, pc, arg, stripped>>

Step(p) ==
  \/ \E l \in PostingLists : CreateCheck(p, l)
  \/ CreateWrite(p)
  \/ \E i \in Ids : PostCheck(p, i) \/ ReverseCheck(p, i)
  \/ PostSnapshot(p) \/ PostInactive(p) \/ PostWrite(p) \/ PostRefused(p)
  \/ ReverseSnapshot(p) \/ ReverseTwice(p) \/ ReverseWrite(p) \/ ReverseRefused(p)
  \/ \E a \in Accounts : DeactivateCheck(p, a) \/ ReactivateCheck(p, a)
  \/ DeactivateWrite(p) \/ ReactivateWrite(p)
  \/ Crash(p)

Next ==
  \/ \E p \in Procs : Step(p) /\ UNCHANGED stripped
  \/ \E i \in Ids : \/ \E l \in PostingLists : RawEdit(i, l)
                    \/ \E d \in Ids, l, m \in PostingLists : MoveRows(i, d, l, m)
                    \/ \E v \in Invoices : LinkInvoice(v, i)

Spec == Init /\ [][Next]_vars

----------------------------------------------------------------------------------
(* Properties. *)

(***************************************************************************)
(* No posted entry is unbalanced or one-legged, whatever happened to it    *)
(* while it was a draft: README, "an unbalanced posted entry is            *)
(* impossible".  The engine checks the list it is handed; an edited draft  *)
(* and a sum that wrapped are left to the trigger.  Excepted are entries   *)
(* an SQL UPDATE took a row of after they were posted (`stripped'): the    *)
(* trigger on UPDATE asks for the state of the entry the row goes to only. *)
(***************************************************************************)
PostedBalanced ==
  \A i \in Ids \ stripped : IsPosted(i) => Balanced(entries[i].postings)

(***************************************************************************)
(* However many processes reverse the same entry at once, it is reversed   *)
(* at most once, by the exact negation of postings it still has, unless an *)
(* SQL UPDATE took a row of the one or the other (`stripped').             *)
(***************************************************************************)
ReversedOnce ==
  \A r, s \in Ids :
    entries[r].reversedFrom # 0 /\ entries[r].reversedFrom = entries[s].reversedFrom => r = s

ReversalNegates ==
  \A r \in Ids :
    LET i == entries[r].reversedFrom IN
    i # 0 => /\ i < r /\ IsPosted(i) /\ IsPosted(r)
             /\ {i, r} \cap stripped = {} => entries[r].postings = Neg(entries[i].postings)

(***************************************************************************)
(* What the freshness of a snapshot buys: as long as nobody committed, a   *)
(* transaction's reads still hold when it writes.  This is what makes      *)
(* ReversedOnce inductive.                                                 *)
(***************************************************************************)
SnapshotHolds ==
  /\ \A p \in Procs : pc[p] \in {"reverse", "reverse_tx"} => IsPosted(arg[p])
  /\ \A p \in fresh : /\ pc[p] = "post_tx" => Postable(arg[p])
                      /\ pc[p] = "reverse_tx" => ~HasReversal(arg[p])

(***************************************************************************)
(* The audit log and the journal tell the same story at every moment: a    *)
(* crash or a refused transaction never leaves an entry without its row or *)
(* a row without its entry.                                                *)
(***************************************************************************)
RowsOf(action, i) == {k \in DOMAIN audit : audit[k].action = action /\ audit[k].ids[1] = i}

ExactlyOne(S) == \E x \in S : S = {x}

AuditTellsJournal ==
  /\ \A k \in DOMAIN audit : audit[k].ids[1] \in Ids
  /\ \A i \in Ids :
       /\ IF entries[i].reversedFrom = 0
            THEN ExactlyOne(RowsOf("entry.create", i)) /\ RowsOf("entry.reverse", i) = {}
            ELSE ExactlyOne(RowsOf("entry.reverse", i)) /\ RowsOf("entry.create", i) = {}
       /\ IF IsPosted(i) /\ entries[i].reversedFrom = 0
            THEN ExactlyOne(RowsOf("entry.post", i))
            ELSE RowsOf("entry.post", i) = {}

(***************************************************************************)
(* No entry disappears, and a posted entry never changes again             *)
(* (trg_entries_posted_immutable, the trg_postings triggers), but for what *)
(* MoveRows' UPDATE does: it can only lose posting rows, and what lost one *)
(* is in `stripped' from then on.  (Statements on journal_entries other    *)
(* than UPDATE, which no trigger guards, are not modelled.)                *)
(***************************************************************************)
LosesRows(i) ==
  /\ entries'[i] = [entries[i] EXCEPT !.postings = entries'[i].postings]
  /\ Legs(entries'[i].postings) < Legs(entries[i].postings)

PostedIsFinal ==
  [][/\ Len(entries) <= Len(entries')
     /\ \A i \in Ids :
          IsPosted(i) => entries'[i] = entries[i] \/ (LosesRows(i) /\ i \in stripped')]_vars

(***************************************************************************)
(* post_entry never posts to an account that is inactive at that moment,   *)
(* although it reads the accounts in an earlier step than it writes.       *)
(***************************************************************************)
PostsToActiveAccounts ==
  [][\A i \in Ids : IsDraft(i) /\ entries'[i].state = "posted" => Postable(i)]_vars

(***************************************************************************)
(* The engine implements the lifecycle of Books, the hole it leaves for    *)
(* SQL included.                                                           *)
(***************************************************************************)
BookRow(e) == [state |-> e.state, postings |-> e.postings, reversedFrom |-> e.reversedFrom]

Journal == INSTANCE Books WITH books <- [i \in Ids |-> BookRow(entries[i])]

ImplementsBooks == Journal!Spec

==================================================================================
