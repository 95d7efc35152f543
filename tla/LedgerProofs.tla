------------------------------- MODULE LedgerProofs -------------------------------
(***************************************************************************)
(* Proofs about Ledger, for every number of processes, accounts, posting   *)
(* lists and entries; about Store, the files beside the books, for any     *)
(* number of processes, documents, backups and passphrases; and about      *)
(* Gate, who may do all that, for every set of processes, actors, roles    *)
(* and commands and for every bound.                                       *)
(***************************************************************************)
EXTENDS Ledger, Store, Gate, SequenceTheorems, FiniteSetTheorems, TLAPS

(***************************************************************************)
(* The five ways a step can change the journal and its audit log.          *)
(***************************************************************************)
Creates(l) ==
  /\ InsertDraft(l, Manual, NoRef)
  /\ Record("entry.create", <<LastId + 1>>)

Posts(i) ==
  /\ MarkPosted(i)
  /\ Record("entry.post", <<i>>)

Reverses(i) ==
  /\ IsPosted(i)
  /\ ~HasReversal(i)
  /\ InsertReversal(i)
  /\ Record("entry.reverse", <<LastId + 1, i>>)

Edits(i, l) ==
  /\ IsDraft(i)
  /\ entries' = [entries EXCEPT ![i].postings = l]
  /\ audit' = audit

Strips(i, d, l, m) ==
  /\ IsPosted(i) /\ IsDraft(d)
  /\ Legs(l) < Legs(entries[i].postings)
  /\ Legs(l) + Legs(m) = Legs(entries[i].postings) + Legs(entries[d].postings)
  /\ entries' = [entries EXCEPT ![i].postings = l, ![d].postings = m]
  /\ audit' = audit
  /\ stripped' = stripped \cup {i}

LEMMA RowTypes ==
  /\ \A l \in PostingLists :
       [state |-> "draft", postings |-> l, source |-> Manual, ref |-> NoRef,
        reversedFrom |-> 0] \in EntryRow
  /\ \A i \in Nat, l \in PostingLists :
       [state |-> "posted", postings |-> Neg(l), source |-> "reversal", ref |-> NoRef,
        reversedFrom |-> i] \in EntryRow
  BY PostingListsAssumption, EntriesAssumption, LedgerAssumption DEF EntryRow

THEOREM InitTypeOK == Init => TypeOK
  BY DEF Init, Ids, IsPosted, TypeOK, TablesOK, ProcsOK, ArgOK, Where, InTx, InvoiceStatus, EntryRow, AuditRow

----------------------------------------------------------------------------------
(* Type correctness. *)

LEMMA IdsLemma ==
  ASSUME TablesOK
  PROVE  Ids = 1..LastId /\ LastId \in Nat /\ \A i \in Ids : entries[i] \in EntryRow
  BY DEF TablesOK, Ids, LastId

\* What an UPDATE that moves rows leaves of the journal, index by index.
LEMMA AfterStrip ==
  ASSUME TablesOK, NEW i \in Ids, NEW d \in Ids, NEW l \in PostingLists, NEW m \in PostingLists,
         Strips(i, d, l, m)
  PROVE  /\ Ids' = Ids /\ i # d /\ entries' \in Seq(EntryRow)
         /\ \A k \in Ids \ {i, d} : entries'[k] = entries[k]
         /\ entries'[i] = [entries[i] EXCEPT !.postings = l]
         /\ entries'[d] = [entries[d] EXCEPT !.postings = m]
         /\ LosesRows(i)
         /\ \A k \in Ids : /\ entries'[k].state = entries[k].state
                           /\ entries'[k].reversedFrom = entries[k].reversedFrom
  <1>1. /\ entries \in [Ids -> EntryRow] /\ Ids = 1 .. LastId /\ LastId \in Nat
        /\ entries[i] \in EntryRow /\ entries[d] \in EntryRow
    BY IdsLemma DEF TablesOK, Ids
  <1>2. i # d
    BY <1>1 DEF Strips, IsPosted, IsDraft
  <1> DEFINE a == [entries[i] EXCEPT !.postings = l]
             b == [entries[d] EXCEPT !.postings = m]
  <1>3. /\ a \in EntryRow /\ a.state = entries[i].state /\ a.reversedFrom = entries[i].reversedFrom
        /\ b \in EntryRow /\ b.state = entries[d].state /\ b.reversedFrom = entries[d].reversedFrom
        /\ a.postings = l
    BY <1>1 DEF EntryRow
  <1>4. entries' = [[entries EXCEPT ![i] = a] EXCEPT ![d] = b]
    BY <1>1, <1>2 DEF Strips
  <1> HIDE DEF a, b
  <1>5. /\ DOMAIN entries' = Ids /\ entries' \in [Ids -> EntryRow]
        /\ \A k \in Ids \ {i, d} : entries'[k] = entries[k]
        /\ entries'[i] = a /\ entries'[d] = b
    BY <1>1, <1>2, <1>3, <1>4
  <1>6. entries' \in Seq(EntryRow) /\ Ids' = Ids
    BY <1>1, <1>5 DEF Ids
  <1>7. \A k \in Ids : /\ entries'[k].state = entries[k].state
                      /\ entries'[k].reversedFrom = entries[k].reversedFrom
    BY <1>3, <1>5
  <1>8. LosesRows(i)
    <2>1. entries'[i] = a /\ entries'[i].postings = l /\ Legs(l) < Legs(entries[i].postings)
      BY <1>3, <1>5 DEF Strips
    <2>2. entries'[i] = [entries[i] EXCEPT !.postings = l]
      BY <2>1 DEF a
    <2>3. entries'[i] = [entries[i] EXCEPT !.postings = entries'[i].postings]
      BY <2>1, <2>2
    <2>4. QED
      BY <2>1, <2>3 DEF LosesRows
  <1>9. QED
    BY <1>2, <1>5, <1>6, <1>7, <1>8 DEF a, b

\* Of the posted entries, it changes the one it strips.
LEMMA StripsOne ==
  ASSUME TablesOK, NEW i \in Ids, NEW d \in Ids, NEW l \in PostingLists, NEW m \in PostingLists,
         Strips(i, d, l, m)
  PROVE  /\ \A k \in Ids :
              k # i /\ (IsPosted(k) \/ entries'[k].state = "posted") => entries'[k] = entries[k]
         /\ LosesRows(i)
  <1>1. entries[d].state = "draft" /\ entries'[d].state = "draft"
    BY AfterStrip DEF Strips, IsDraft
  <1>2. \A k \in Ids \ {i, d} : entries'[k] = entries[k]
    BY AfterStrip
  <1>3. LosesRows(i)
    BY AfterStrip
  <1>4. QED
    BY <1>1, <1>2, <1>3 DEF IsPosted

\* A process that goes where it may go, with its snapshot fresh only in a transaction.
LEMMA ProcessTypes ==
  ASSUME ProcsOK, NEW p \in Procs, NEW where \in Where, NEW what,
         Goto(p, where, what), ArgOK(where, what), Ids \subseteq Ids',
         \/ fresh' \subseteq fresh \ {p}
         \/ where \in InTx /\ fresh' = fresh \cup {p}
  PROVE  ProcsOK'
  <1>1. \A q \in Procs : q # p => pc'[q] = pc[q] /\ arg'[q] = arg[q]
    BY DEF Goto, ProcsOK
  <1>2. pc'[p] = where /\ arg'[p] = what
    BY DEF Goto, ProcsOK
  <1>3. \A q \in Procs : ArgOK(pc[q], arg[q])
    BY DEF ProcsOK
  <1>4. (\A q \in Procs : ArgOK(pc[q], arg[q]))'
    BY <1>1, <1>2, <1>3 DEF ArgOK
  <1>5. arg' = [q \in Procs |-> arg'[q]] /\ pc' \in [Procs -> Where]
    BY DEF Goto, ProcsOK
  <1>6. fresh' \subseteq {q \in Procs : pc'[q] \in InTx}
    BY <1>1, <1>2 DEF ProcsOK
  <1>7. QED
    BY <1>4, <1>5, <1>6 DEF ProcsOK

LEMMA TableTypes ==
  ASSUME TablesOK
  PROVE  /\ \A l \in PostingLists : Creates(l) => entries' \in Seq(EntryRow) /\ audit' \in Seq(AuditRow)
         /\ \A i \in Ids : Posts(i) => entries' \in Seq(EntryRow) /\ audit' \in Seq(AuditRow)
         /\ \A i \in Ids : InsertReversal(i) => entries' \in Seq(EntryRow)
         /\ \A i \in Ids : Record("entry.reverse", <<LastId + 1, i>>) => audit' \in Seq(AuditRow)
         /\ \A i \in Ids, l \in PostingLists : Edits(i, l) => entries' \in Seq(EntryRow)
  <1>1. ASSUME NEW l \in PostingLists, Creates(l)
        PROVE  entries' \in Seq(EntryRow) /\ audit' \in Seq(AuditRow)
    BY <1>1, RowTypes, IdsLemma DEF Creates, InsertDraft, Record, TablesOK, AuditRow
  <1>2. ASSUME NEW i \in Ids, Posts(i)
        PROVE  entries' \in Seq(EntryRow) /\ audit' \in Seq(AuditRow)
    <2>1. [entries[i] EXCEPT !.state = "posted"] \in EntryRow
      BY IdsLemma DEF EntryRow
    <2>2. entries' = [entries EXCEPT ![i] = [entries[i] EXCEPT !.state = "posted"]]
      BY <1>2 DEF Posts, MarkPosted
    <2>3. entries' \in Seq(EntryRow)
      BY <2>1, <2>2, IdsLemma DEF TablesOK, Ids
    <2>4. QED
      BY <1>2, <2>3, IdsLemma DEF Posts, Record, TablesOK, AuditRow
  <1>3. ASSUME NEW i \in Ids, InsertReversal(i)
        PROVE  entries' \in Seq(EntryRow)
    <2>1. entries[i].postings \in PostingLists /\ i \in Nat
      BY IdsLemma DEF EntryRow
    <2>2. QED
      BY <1>3, <2>1, RowTypes DEF InsertReversal, TablesOK
  <1>4. ASSUME NEW i \in Ids, Record("entry.reverse", <<LastId + 1, i>>)
        PROVE  audit' \in Seq(AuditRow)
    BY <1>4, IdsLemma DEF Record, TablesOK, AuditRow
  <1>5. ASSUME NEW i \in Ids, NEW l \in PostingLists, Edits(i, l)
        PROVE  entries' \in Seq(EntryRow)
    <2>1. [entries[i] EXCEPT !.postings = l] \in EntryRow
      BY IdsLemma DEF EntryRow
    <2>2. entries' = [entries EXCEPT ![i] = [entries[i] EXCEPT !.postings = l]]
      BY <1>5 DEF Edits
    <2>3. QED
      BY <2>1, <2>2, IdsLemma DEF TablesOK, Ids
  <1>6. QED
    BY <1>1, <1>2, <1>3, <1>4, <1>5

\* A step of p leaves p where it may be.
LEMMA StepProcsOK ==
  ASSUME TypeOK, NEW p \in Procs, Step(p), Ids \subseteq Ids'
  PROVE  ProcsOK'
  <1> USE DEF TypeOK
  <1>0. pc[p] = "idle" => p \notin fresh
    BY DEF ProcsOK, InTx
  <1>1. ASSUME NEW l \in PostingLists, CreateCheck(p, l)
        PROVE  ProcsOK'
    BY <1>0, <1>1, ProcessTypes DEF CreateCheck, ArgOK, Where, InTx
  <1>2. ASSUME NEW i \in Ids, PostCheck(p, i) \/ ReverseCheck(p, i)
        PROVE  ProcsOK'
    BY <1>0, <1>2, ProcessTypes DEF PostCheck, ReverseCheck, ArgOK, Where, InTx
  <1>3. ASSUME NEW a \in Accounts, DeactivateCheck(p, a) \/ ReactivateCheck(p, a)
        PROVE  ProcsOK'
    BY <1>0, <1>3, ProcessTypes DEF DeactivateCheck, ReactivateCheck, ArgOK, Where, InTx
  <1>4. CASE PostSnapshot(p) \/ ReverseSnapshot(p)
    <2>1. arg[p] \in Ids
      BY <1>4 DEF PostSnapshot, ReverseSnapshot, ProcsOK, ArgOK
    <2>2. QED
      BY <1>4, <2>1, ProcessTypes DEF PostSnapshot, ReverseSnapshot, ArgOK, Where, InTx
  <1>5. ASSUME Done(p), fresh' \subseteq fresh \ {p}
        PROVE  ProcsOK'
    BY <1>5, ProcessTypes DEF Done, ArgOK, Where, InTx
  <1>6. CASE PostInactive(p) \/ PostRefused(p) \/ ReverseTwice(p) \/ ReverseRefused(p) \/ Crash(p)
    BY <1>5, <1>6 DEF PostInactive, PostRefused, ReverseTwice, ReverseRefused, Crash, Abort
  <1>7. CASE \/ CreateWrite(p) \/ PostWrite(p) \/ ReverseWrite(p)
             \/ DeactivateWrite(p) \/ ReactivateWrite(p)
    BY <1>5, <1>7 DEF CreateWrite, PostWrite, ReverseWrite, DeactivateWrite, ReactivateWrite, Commit
  <1>8. QED
    BY <1>1, <1>2, <1>3, <1>4, <1>6, <1>7 DEF Step

LEMMA StepTypeOK ==
  ASSUME TypeOK, NEW p \in Procs, Step(p)
  PROVE  TablesOK' /\ ProcsOK'
  <1> USE DEF TypeOK
  <1> SUFFICES TablesOK' /\ Ids \subseteq Ids'
    BY StepProcsOK
  <1>1. CASE CreateWrite(p)
    <2>1. arg[p] \in PostingLists /\ Creates(arg[p])
      BY <1>1 DEF CreateWrite, Creates, ProcsOK, ArgOK
    <2>2. Ids \subseteq Ids'
      BY <2>1, TableTypes, IdsLemma DEF Creates, InsertDraft, TablesOK, Ids
    <2>3. QED
      BY <1>1, <2>1, <2>2, TableTypes DEF CreateWrite, TablesOK
  <1>2. CASE PostWrite(p)
    <2>1. arg[p] \in Ids /\ Posts(arg[p])
      BY <1>2 DEF PostWrite, Posts, ProcsOK, ArgOK, InTx
    <2>2. Ids' = Ids
      BY <2>1 DEF Posts, MarkPosted, Ids
    <2>3. QED
      BY <1>2, <2>1, <2>2, TableTypes DEF PostWrite, TablesOK
  <1>3. CASE ReverseWrite(p)
    <2>1. arg[p] \in Ids
      BY <1>3 DEF ReverseWrite, ProcsOK, ArgOK, InTx
    <2>2. entries' \in Seq(EntryRow) /\ audit' \in Seq(AuditRow)
      BY <1>3, <2>1, TableTypes DEF ReverseWrite
    <2>3. Ids \subseteq Ids'
      BY <1>3, <2>1, IdsLemma DEF ReverseWrite, InsertReversal, TablesOK, Ids
    <2>4. invoices' \in [Invoices -> [entry : Nat, status : InvoiceStatus]]
      BY <1>3 DEF ReverseWrite, VoidInvoices, TablesOK, InvoiceStatus
    <2>5. QED
      BY <1>3, <2>2, <2>3, <2>4 DEF ReverseWrite, TablesOK
  <1>4. CASE DeactivateWrite(p) \/ ReactivateWrite(p)
    BY <1>4 DEF DeactivateWrite, ReactivateWrite, TablesOK, ProcsOK, ArgOK, Ids
  <1>5. CASE UNCHANGED tables
    BY <1>5 DEF tables, TablesOK, Ids
  <1>6. QED
    BY <1>1, <1>2, <1>3, <1>4, <1>5
    DEF Step, Abort, CreateCheck, PostCheck, ReverseCheck, PostSnapshot, PostInactive, PostRefused,
        ReverseSnapshot, ReverseTwice, ReverseRefused, DeactivateCheck, ReactivateCheck, Crash

\* A command only inserts rows or posts one.
LEMMA StepPosted ==
  ASSUME TypeOK, NEW p \in Procs, Step(p)
  PROVE  \A i \in Ids : IsPosted(i) => i \in Ids' /\ IsPosted(i)'
  <1>1. CASE PostWrite(p)
    <2>1. arg[p] \in Ids
      BY <1>1 DEF PostWrite, TypeOK, ProcsOK, ArgOK, InTx
    <2>2. QED
      BY <1>1, <2>1, IdsLemma DEF PostWrite, MarkPosted, MayMarkPosted, IsPosted, IsDraft, TypeOK, TablesOK, Ids
  <1>2. CASE CreateWrite(p)
    BY <1>2, IdsLemma DEF CreateWrite, InsertDraft, IsPosted, TypeOK, TablesOK, Ids, LastId
  <1>3. CASE ReverseWrite(p)
    BY <1>3, IdsLemma DEF ReverseWrite, InsertReversal, IsPosted, TypeOK, TablesOK, Ids, LastId
  <1>4. CASE UNCHANGED entries
    BY <1>4 DEF IsPosted, Ids
  <1>5. QED
    BY <1>1, <1>2, <1>3, <1>4
    DEF Step, Abort, CreateCheck, PostCheck, ReverseCheck, PostSnapshot, PostInactive, PostRefused,
        ReverseSnapshot, ReverseTwice, ReverseRefused, DeactivateCheck, ReactivateCheck,
        DeactivateWrite, ReactivateWrite, Crash, tables

\* A posted entry stays one, so those that lost a row still are.
LEMMA NextTypeOK == TypeOK /\ [Next]_vars => TypeOK'
  <1> SUFFICES ASSUME TypeOK, [Next]_vars
               PROVE  TypeOK'
    OBVIOUS
  <1>1. ASSUME NEW p \in Procs, Step(p), UNCHANGED stripped
        PROVE  TypeOK'
    <2>1. \A i \in Ids : IsPosted(i) => i \in Ids' /\ IsPosted(i)'
      BY <1>1, StepPosted
    <2>2. QED
      BY <1>1, <2>1, StepTypeOK DEF TypeOK
  <1>2. ASSUME NEW i \in Ids, NEW l \in PostingLists, RawEdit(i, l)
        PROVE  TypeOK'
    <2>1. Edits(i, l)
      BY <1>2 DEF RawEdit, Edits
    <2>2. Ids' = Ids
      BY <2>1 DEF Edits, Ids
    <2>3. TablesOK' /\ ProcsOK'
      BY <1>2, <2>1, <2>2, TableTypes DEF RawEdit, TypeOK, TablesOK, ProcsOK, ArgOK
    <2>4. \A k \in Ids : IsPosted(k) => IsPosted(k)'
      BY <2>1, IdsLemma DEF Edits, IsPosted, IsDraft, TypeOK, TablesOK, Ids
    <2>5. QED
      BY <1>2, <2>2, <2>3, <2>4 DEF RawEdit, TypeOK
  <1>3. ASSUME NEW i \in Ids, NEW d \in Ids, NEW l \in PostingLists, NEW m \in PostingLists,
               MoveRows(i, d, l, m)
        PROVE  TypeOK'
    <2>1. Strips(i, d, l, m)
      BY <1>3 DEF MoveRows, Strips
    <2>2. Ids' = Ids /\ entries' \in Seq(EntryRow) /\ \A k \in Ids : IsPosted(k)' = IsPosted(k)
      BY <2>1, AfterStrip DEF TypeOK, IsPosted
    <2>3. TablesOK' /\ ProcsOK'
      BY <1>3, <2>2 DEF MoveRows, TypeOK, TablesOK, ProcsOK, ArgOK
    <2>4. QED
      BY <2>1, <2>2, <2>3 DEF Strips, TypeOK
  <1>4. ASSUME NEW i \in Ids, NEW v \in Invoices, LinkInvoice(v, i)
        PROVE  TypeOK'
    <2>1. i \in Nat
      BY IdsLemma DEF TypeOK
    <2>2. invoices' \in [Invoices -> [entry : Nat, status : InvoiceStatus]]
      BY <1>4, <2>1 DEF LinkInvoice, TypeOK, TablesOK, InvoiceStatus
    <2>3. QED
      BY <1>4, <2>2 DEF LinkInvoice, TypeOK, TablesOK, ProcsOK, ArgOK, Ids, IsPosted
  <1>5. CASE UNCHANGED vars
    BY <1>5 DEF vars, TypeOK, TablesOK, ProcsOK, ArgOK, Ids, IsPosted
  <1>6. QED
    BY <1>1, <1>2, <1>3, <1>4, <1>5 DEF Next

(***************************************************************************)
(* Every row, argument and snapshot keeps its type: in particular a        *)
(* process in a transaction works on an entry that exists.                 *)
(***************************************************************************)
THEOREM TypeCorrect == Spec => []TypeOK
  BY InitTypeOK, NextTypeOK, PTL DEF Spec

----------------------------------------------------------------------------------
(* The journal's safety. *)

\* Every step changes the journal in one of the five ways, or not at all.
PlainStep ==
  \/ \E l \in PostingLists : Creates(l)
  \/ \E i \in Ids : Posts(i) /\ Postable(i)
  \/ \E i \in Ids : Reverses(i)
  \/ \E i \in Ids, l \in PostingLists : Edits(i, l)
  \/ UNCHANGED <<entries, audit>>

JournalStep ==
  \/ PlainStep /\ UNCHANGED stripped
  \/ \E i, d \in Ids, l, m \in PostingLists : Strips(i, d, l, m)

LEMMA JournalSteps ==
  ASSUME TypeOK, SnapshotHolds, [Next]_vars
  PROVE  JournalStep /\ (UNCHANGED entries \/ fresh' = {})
  <1> USE DEF TypeOK, PlainStep
  <1>1. ASSUME NEW p \in Procs, CreateWrite(p)
        PROVE  PlainStep /\ fresh' = {}
    BY <1>1 DEF CreateWrite, Creates, Commit, ProcsOK, ArgOK
  <1>2. ASSUME NEW p \in Procs, PostWrite(p)
        PROVE  PlainStep /\ fresh' = {}
    <2>1. arg[p] \in Ids /\ Postable(arg[p])
      BY <1>2 DEF PostWrite, ProcsOK, ArgOK, InTx, SnapshotHolds
    <2>2. Posts(arg[p])
      BY <1>2 DEF PostWrite, Posts
    <2>3. QED
      BY <1>2, <2>1, <2>2 DEF PostWrite, Commit
  <1>3. ASSUME NEW p \in Procs, ReverseWrite(p)
        PROVE  PlainStep /\ fresh' = {}
    <2>1. arg[p] \in Ids /\ IsPosted(arg[p]) /\ ~HasReversal(arg[p])
      BY <1>3 DEF ReverseWrite, ProcsOK, ArgOK, InTx, SnapshotHolds
    <2>2. Reverses(arg[p])
      BY <1>3, <2>1 DEF ReverseWrite, Reverses
    <2>3. QED
      BY <1>3, <2>1, <2>2 DEF ReverseWrite, Commit
  <1>4. ASSUME NEW i \in Ids, NEW l \in PostingLists, RawEdit(i, l)
        PROVE  PlainStep /\ fresh' = {}
    BY <1>4 DEF RawEdit, Edits
  <1>5. ASSUME NEW i \in Ids, NEW d \in Ids, NEW l \in PostingLists, NEW m \in PostingLists,
               MoveRows(i, d, l, m)
        PROVE  JournalStep /\ fresh' = {}
    <2>1. Strips(i, d, l, m)
      BY <1>5 DEF MoveRows, Strips
    <2>2. QED
      BY <1>5, <2>1 DEF MoveRows, JournalStep
  <1>6. ASSUME NEW p \in Procs, Step(p)
        PROVE  PlainStep /\ (UNCHANGED entries \/ fresh' = {})
    <2>1. CASE UNCHANGED <<entries, audit>>
      BY <2>1
    <2>2. QED
      BY <1>1, <1>2, <1>3, <1>6, <2>1
      DEF Step, Abort, CreateCheck, PostCheck, ReverseCheck, PostSnapshot, PostInactive,
          PostRefused, ReverseSnapshot, ReverseTwice, ReverseRefused, DeactivateCheck,
          ReactivateCheck, DeactivateWrite, ReactivateWrite, Crash, tables
  <1>7. CASE UNCHANGED <<entries, audit, stripped>>
    BY <1>7 DEF JournalStep
  <1>8. QED
    BY <1>4, <1>5, <1>6, <1>7 DEF Next, RawEdit, LinkInvoice, JournalStep, vars

\* What a statement leaves of the rows, index by index.
LEMMA AppendRow ==
  ASSUME TypeOK, NEW row, entries' = Append(entries, row)
  PROVE  /\ Ids' = Ids \cup {LastId + 1} /\ LastId + 1 \notin Ids
         /\ \A k \in Ids : entries'[k] = entries[k]
         /\ entries'[LastId + 1] = row
  BY IdsLemma DEF TypeOK, TablesOK, Ids, LastId

LEMMA UpdateRow ==
  ASSUME TypeOK, NEW i \in Ids, NEW row, entries' = [entries EXCEPT ![i] = row]
  PROVE  /\ Ids' = Ids
         /\ \A k \in Ids \ {i} : entries'[k] = entries[k]
         /\ entries'[i] = row
  BY IdsLemma DEF TypeOK, TablesOK, Ids, LastId

LEMMA AfterCreate ==
  ASSUME TypeOK, NEW l \in PostingLists, Creates(l)
  PROVE  /\ Ids' = Ids \cup {LastId + 1} /\ LastId + 1 \notin Ids
         /\ \A k \in Ids : entries'[k] = entries[k]
         /\ entries'[LastId + 1].state = "draft"
         /\ entries'[LastId + 1].reversedFrom = 0
  <1> DEFINE row == [state |-> "draft", postings |-> l, source |-> Manual, ref |-> NoRef,
                     reversedFrom |-> 0]
  <1>1. entries' = Append(entries, row)
    BY DEF Creates, InsertDraft
  <1>2. row.state = "draft" /\ row.reversedFrom = 0
    OBVIOUS
  <1> HIDE DEF row
  <1>3. QED
    BY <1>1, <1>2, AppendRow

LEMMA AfterPost ==
  ASSUME TypeOK, NEW i \in Ids, Posts(i)
  PROVE  /\ Ids' = Ids
         /\ \A k \in Ids \ {i} : entries'[k] = entries[k]
         /\ IsDraft(i) /\ Balanced(entries[i].postings)
         /\ entries'[i] = [entries[i] EXCEPT !.state = "posted"]
         /\ entries'[i].state = "posted"
         /\ entries'[i].postings = entries[i].postings
         /\ entries'[i].reversedFrom = entries[i].reversedFrom
  <1>1. entries[i] \in EntryRow
    BY IdsLemma DEF TypeOK
  <1> DEFINE row == [entries[i] EXCEPT !.state = "posted"]
  <1>2. entries' = [entries EXCEPT ![i] = row]
    BY DEF Posts, MarkPosted
  <1>3. /\ row.state = "posted" /\ row.postings = entries[i].postings
        /\ row.reversedFrom = entries[i].reversedFrom
    BY <1>1 DEF EntryRow
  <1> HIDE DEF row
  <1>4. Ids' = Ids /\ entries'[i] = row /\ \A k \in Ids \ {i} : entries'[k] = entries[k]
    BY <1>2, UpdateRow
  <1>5. QED
    BY <1>3, <1>4 DEF row, Posts, MarkPosted, MayMarkPosted

LEMMA AfterReverse ==
  ASSUME TypeOK, NEW i \in Ids, Reverses(i)
  PROVE  /\ Ids' = Ids \cup {LastId + 1} /\ LastId + 1 \notin Ids
         /\ \A k \in Ids : entries'[k] = entries[k]
         /\ IsPosted(i) /\ ~HasReversal(i) /\ i < LastId + 1
         /\ Balanced(Neg(entries[i].postings))
         /\ entries'[LastId + 1].state = "posted"
         /\ entries'[LastId + 1].postings = Neg(entries[i].postings)
         /\ entries'[LastId + 1].reversedFrom = i
  <1> DEFINE row == [state |-> "posted", postings |-> Neg(entries[i].postings),
                     source |-> "reversal", ref |-> NoRef, reversedFrom |-> i]
  <1>1. entries' = Append(entries, row)
    BY DEF Reverses, InsertReversal
  <1>2. row.state = "posted" /\ row.postings = Neg(entries[i].postings) /\ row.reversedFrom = i
    OBVIOUS
  <1>3. i < LastId + 1
    BY IdsLemma DEF TypeOK
  <1> HIDE DEF row
  <1>4. QED
    BY <1>1, <1>2, <1>3, AppendRow DEF Reverses, InsertReversal

LEMMA AfterEdit ==
  ASSUME TypeOK, NEW i \in Ids, NEW l \in PostingLists, Edits(i, l)
  PROVE  /\ Ids' = Ids
         /\ \A k \in Ids \ {i} : entries'[k] = entries[k]
         /\ IsDraft(i)
         /\ entries'[i].state = "draft"
         /\ entries'[i].reversedFrom = entries[i].reversedFrom
  <1>1. entries[i] \in EntryRow
    BY IdsLemma DEF TypeOK
  <1> DEFINE row == [entries[i] EXCEPT !.postings = l]
  <1>2. entries' = [entries EXCEPT ![i] = row]
    BY DEF Edits
  <1>3. row.state = "draft" /\ row.reversedFrom = entries[i].reversedFrom
    BY <1>1 DEF EntryRow, Edits, IsDraft
  <1> HIDE DEF row
  <1>4. Ids' = Ids /\ entries'[i] = row /\ \A k \in Ids \ {i} : entries'[k] = entries[k]
    BY <1>2, UpdateRow
  <1>5. QED
    BY <1>3, <1>4 DEF Edits

LEMMA PostedBalancedStep ==
  ASSUME TypeOK, PostedBalanced, JournalStep
  PROVE  PostedBalanced'
  <1> SUFFICES ASSUME NEW k \in Ids' \ stripped', entries'[k].state = "posted"
               PROVE  Balanced(entries'[k].postings)
    BY DEF PostedBalanced, IsPosted, Balanced
  <1>a. CASE \E i, d \in Ids, l, m \in PostingLists : Strips(i, d, l, m)
    <2>1. PICK i \in Ids, d \in Ids, l \in PostingLists, m \in PostingLists : Strips(i, d, l, m)
      BY <1>a
    <2>2. k \in Ids \ stripped /\ k # i
      BY <2>1, AfterStrip DEF TypeOK, Strips
    <2>3. entries'[k] = entries[k]
      BY <2>1, <2>2, StripsOne DEF TypeOK
    <2>4. QED
      BY <2>2, <2>3 DEF PostedBalanced, IsPosted
  <1> SUFFICES ASSUME PlainStep, UNCHANGED stripped
               PROVE  Balanced(entries'[k].postings)
    BY <1>a DEF JournalStep
  <1>0. \A i \in Ids \ stripped : entries[i].state = "posted" => Balanced(entries[i].postings)
    BY DEF PostedBalanced, IsPosted
  <1>9. LastId + 1 \notin Ids
    BY IdsLemma DEF TypeOK
  <1>1. ASSUME NEW l \in PostingLists, Creates(l)
        PROVE  Balanced(entries'[k].postings)
    BY <1>0, <1>1, AfterCreate
  <1>2. ASSUME NEW i \in Ids, Posts(i)
        PROVE  Balanced(entries'[k].postings)
    BY <1>0, <1>2, AfterPost
  <1>3. ASSUME NEW i \in Ids, Reverses(i)
        PROVE  Balanced(entries'[k].postings)
    BY <1>0, <1>3, AfterReverse
  <1>4. ASSUME NEW i \in Ids, NEW l \in PostingLists, Edits(i, l)
        PROVE  Balanced(entries'[k].postings)
    BY <1>0, <1>4, AfterEdit
  <1>5. CASE UNCHANGED <<entries, audit>>
    BY <1>0, <1>5 DEF Ids
  <1>6. QED
    BY <1>1, <1>2, <1>3, <1>4, <1>5 DEF PlainStep

\* Reversals point at earlier entries.
LEMMA ReversedIds ==
  ASSUME TypeOK, ReversalNegates
  PROVE  \A r \in Ids : entries[r].reversedFrom # 0 => entries[r].reversedFrom \in Ids
  BY IdsLemma DEF TypeOK, ReversalNegates, EntryRow

LEMMA ReversalStep ==
  ASSUME TypeOK, ReversedOnce, ReversalNegates, JournalStep
  PROVE  ReversedOnce' /\ ReversalNegates'
  <1> USE DEF ReversedOnce, ReversalNegates, IsPosted
  <1>0. stripped \subseteq Ids /\ LastId + 1 \notin stripped
    BY IdsLemma DEF TypeOK
  <1>1. ASSUME NEW l \in PostingLists, Creates(l), UNCHANGED stripped
        PROVE  ReversedOnce' /\ ReversalNegates'
    BY <1>1, AfterCreate, ReversedIds
  <1>2. ASSUME NEW i \in Ids, Posts(i), UNCHANGED stripped
        PROVE  ReversedOnce' /\ ReversalNegates'
    <2>1. /\ Ids' = Ids
          /\ \A k \in Ids : /\ entries'[k].reversedFrom = entries[k].reversedFrom
                            /\ entries'[k].postings = entries[k].postings
                            /\ entries[k].state = "posted" => entries'[k].state = "posted"
      BY <1>2, AfterPost
    <2>2. QED
      BY <1>2, <2>1, ReversedIds
  <1>3. ASSUME NEW i \in Ids, Reverses(i), UNCHANGED stripped
        PROVE  ReversedOnce' /\ ReversalNegates'
    <2>1. i # 0 /\ \A r \in Ids : entries[r].reversedFrom # i
      BY <1>3, AfterReverse, IdsLemma DEF TypeOK, HasReversal
    <2>2. QED
      BY <1>3, <2>1, AfterReverse, ReversedIds
  <1>4. ASSUME NEW i \in Ids, NEW l \in PostingLists, Edits(i, l), UNCHANGED stripped
        PROVE  ReversedOnce' /\ ReversalNegates'
    BY <1>4, AfterEdit, ReversedIds DEF IsDraft
  <1>5. CASE UNCHANGED <<entries, audit, stripped>>
    BY <1>5 DEF Ids
  <1>6. ASSUME NEW i \in Ids, NEW d \in Ids, NEW l \in PostingLists, NEW m \in PostingLists,
               Strips(i, d, l, m)
        PROVE  ReversedOnce' /\ ReversalNegates'
    <2>1. /\ Ids' = Ids /\ stripped' = stripped \cup {i}
          /\ \A k \in Ids : /\ entries'[k].reversedFrom = entries[k].reversedFrom
                            /\ entries'[k].state = entries[k].state
      BY <1>6, AfterStrip DEF TypeOK, Strips
    <2>3. \A k \in Ids : k # i /\ entries[k].state = "posted" => entries'[k] = entries[k]
      BY <1>6, StripsOne DEF TypeOK, IsPosted
    <2>4. QED
      BY <2>1, <2>3, ReversedIds
  <1>7. QED
    BY <1>1, <1>2, <1>3, <1>4, <1>5, <1>6 DEF JournalStep, PlainStep

\* A snapshot stays true until somebody commits, and then nobody's is fresh.
LEMMA SnapshotStep ==
  ASSUME TypeOK, SnapshotHolds, [Next]_vars
  PROVE  SnapshotHolds'
  <1>1. \A i \in Ids : i \in Ids' /\ (entries[i].state = "posted" => entries'[i].state = "posted")
    <2>1. JournalStep
      BY JournalSteps
    <2>2. QED
      BY <2>1, AfterCreate, AfterPost, AfterReverse, AfterEdit, AfterStrip
      DEF JournalStep, PlainStep, IsDraft, Ids, TypeOK
  <1>2. fresh' = {} \/ UNCHANGED <<entries, active>>
    BY JournalSteps
    DEF Next, Step, Abort, CreateCheck, CreateWrite, PostCheck, ReverseCheck, PostSnapshot,
        PostInactive, PostWrite, PostRefused, ReverseSnapshot, ReverseTwice, ReverseWrite,
        ReverseRefused, DeactivateCheck, ReactivateCheck, DeactivateWrite, ReactivateWrite, Crash,
        RawEdit, MoveRows, LinkInvoice, Commit, tables, vars
  <1>3. \A q \in Procs :
          \/ pc'[q] = pc[q] /\ arg'[q] = arg[q] /\ (q \in fresh' => q \in fresh)
          \/ pc'[q] \notin {"post_tx", "reverse", "reverse_tx"}
          \/ pc'[q] = "post_tx" /\ Postable(arg'[q]) /\ UNCHANGED <<entries, active>>
          \/ pc'[q] = "reverse" /\ IsPosted(arg'[q]) /\ arg'[q] \in Ids
          \/ pc[q] = "reverse" /\ pc'[q] = "reverse_tx" /\ arg'[q] = arg[q]
             /\ ~HasReversal(arg'[q]) /\ UNCHANGED <<entries, active>>
    <2>1. ASSUME NEW p \in Procs, NEW where \in Where, NEW what, Goto(p, where, what)
          PROVE  /\ pc'[p] = where /\ arg'[p] = what
                 /\ \A q \in Procs \ {p} : pc'[q] = pc[q] /\ arg'[q] = arg[q]
      BY <2>1 DEF Goto, TypeOK, ProcsOK
    <2>2. ASSUME NEW p \in Procs, Step(p)
          PROVE  \A q \in Procs \ {p} : pc'[q] = pc[q] /\ arg'[q] = arg[q] /\ (q \in fresh' => q \in fresh)
      BY <2>1, <2>2
      DEF Step, Abort, Done, CreateCheck, CreateWrite, PostCheck, ReverseCheck, PostSnapshot,
          PostInactive, PostWrite, PostRefused, ReverseSnapshot, ReverseTwice, ReverseWrite,
          ReverseRefused, DeactivateCheck, ReactivateCheck, DeactivateWrite, ReactivateWrite, Crash,
          Commit, Where
    <2>3. ASSUME NEW p \in Procs, Done(p)
          PROVE  pc'[p] = "idle"
      BY <2>1, <2>3 DEF Done, Where
    <2>4. ASSUME NEW p \in Procs, Step(p)
          PROVE  \/ pc'[p] \notin {"post_tx", "reverse", "reverse_tx"}
                 \/ pc'[p] = "post_tx" /\ Postable(arg'[p]) /\ UNCHANGED <<entries, active>>
                 \/ pc'[p] = "reverse" /\ IsPosted(arg'[p]) /\ arg'[p] \in Ids
                 \/ pc[p] = "reverse" /\ pc'[p] = "reverse_tx" /\ arg'[p] = arg[p]
                    /\ ~HasReversal(arg'[p]) /\ UNCHANGED <<entries, active>>
      <3>1. CASE PostSnapshot(p)
        BY <2>1, <3>1 DEF PostSnapshot, Where, tables
      <3>2. CASE ReverseSnapshot(p)
        BY <2>1, <3>2 DEF ReverseSnapshot, Where, tables
      <3>3. ASSUME NEW i \in Ids, ReverseCheck(p, i)
            PROVE  pc'[p] = "reverse" /\ IsPosted(arg'[p]) /\ arg'[p] \in Ids
        BY <2>1, <3>3 DEF ReverseCheck, Where
      <3>4. CASE \/ \E l \in PostingLists : CreateCheck(p, l)
                 \/ \E i \in Ids : PostCheck(p, i)
                 \/ \E a \in Accounts : DeactivateCheck(p, a) \/ ReactivateCheck(p, a)
        BY <2>1, <3>4 DEF CreateCheck, PostCheck, DeactivateCheck, ReactivateCheck, Where
      <3>5. QED
        BY <2>3, <2>4, <3>1, <3>2, <3>3, <3>4
        DEF Step, Abort, CreateWrite, PostInactive, PostWrite, PostRefused, ReverseTwice, ReverseWrite,
            ReverseRefused, DeactivateWrite, ReactivateWrite, Crash, Commit
    <2>5. QED
      BY <2>2, <2>4 DEF Next, RawEdit, MoveRows, LinkInvoice, vars
  <1>4. \A q \in Procs : pc'[q] \in {"reverse", "reverse_tx"} => entries'[arg'[q]].state = "posted"
    <2>1. \A q \in Procs : pc[q] \in {"reverse", "reverse_tx"}
                           => arg[q] \in Ids /\ entries[arg[q]].state = "posted"
      BY DEF TypeOK, ProcsOK, ArgOK, InTx, SnapshotHolds, IsPosted
    <2>2. QED
      BY <1>1, <1>3, <2>1 DEF IsPosted
  <1>5. ASSUME NEW q \in fresh'
        PROVE  /\ pc'[q] = "post_tx" => Postable(arg[q])'
               /\ pc'[q] = "reverse_tx" => ~HasReversal(arg[q])'
    <2>1. UNCHANGED <<entries, active>> /\ q \in Procs
      BY <1>2, <1>5, NextTypeOK DEF TypeOK, ProcsOK
    <2>2. q \in fresh => /\ pc[q] = "post_tx" => Postable(arg[q])
                         /\ pc[q] = "reverse_tx" => ~HasReversal(arg[q])
      BY DEF SnapshotHolds
    <2>3. QED
      BY <1>3, <1>5, <2>1, <2>2 DEF Postable, HasReversal, IsPosted, Ids
  <1>6. QED
    BY <1>4, <1>5 DEF SnapshotHolds, IsPosted
\* A new audit row belongs to its action and first entry id, and to no other.
LEMMA AuditAppend ==
  ASSUME TypeOK, NEW action, NEW ids, Record(action, ids)
  PROVE  /\ Len(audit) + 1 \notin DOMAIN audit
         /\ DOMAIN audit' = DOMAIN audit \cup {Len(audit) + 1}
         /\ \A k \in DOMAIN audit : audit'[k] = audit[k]
         /\ audit'[Len(audit) + 1].ids = ids
         /\ \A a, n : a # action \/ n # ids[1] => RowsOf(a, n)' = RowsOf(a, n)
         /\ RowsOf(action, ids[1])' = RowsOf(action, ids[1]) \cup {Len(audit) + 1}
  <1> DEFINE row == [action |-> action, ids |-> ids]
  <1>1. audit' = Append(audit, row)
    BY DEF Record
  <1>2. /\ Len(audit) + 1 \notin DOMAIN audit
        /\ DOMAIN audit' = DOMAIN audit \cup {Len(audit) + 1}
        /\ \A k \in DOMAIN audit : audit'[k] = audit[k]
        /\ audit'[Len(audit) + 1] = row
    BY <1>1 DEF TypeOK, TablesOK
  <1>3. row.action = action /\ row.ids = ids
    OBVIOUS
  <1> HIDE DEF row
  <1>4. QED
    BY <1>2, <1>3 DEF RowsOf

\* The audit rows of one entry are as its row demands.
AuditOf(i) ==
  /\ IF entries[i].reversedFrom = 0
       THEN ExactlyOne(RowsOf("entry.create", i)) /\ RowsOf("entry.reverse", i) = {}
       ELSE ExactlyOne(RowsOf("entry.reverse", i)) /\ RowsOf("entry.create", i) = {}
  /\ IF IsPosted(i) /\ entries[i].reversedFrom = 0
       THEN ExactlyOne(RowsOf("entry.post", i))
       ELSE RowsOf("entry.post", i) = {}

LEMMA AuditStep ==
  ASSUME TypeOK, AuditTellsJournal, JournalStep
  PROVE  AuditTellsJournal'
  <1>0. /\ \A k \in DOMAIN audit : audit[k].ids[1] \in Ids
        /\ \A i \in Ids : AuditOf(i)
        /\ \A a : RowsOf(a, LastId + 1) = {}
    <2>1. \A k \in DOMAIN audit : audit[k].ids[1] \in Ids
      BY DEF AuditTellsJournal
    <2>2. LastId + 1 \notin Ids
      BY IdsLemma DEF TypeOK
    <2>3. QED
      BY <2>1, <2>2 DEF AuditTellsJournal, AuditOf, RowsOf
  <1> SUFFICES /\ \A k \in DOMAIN audit' : audit'[k].ids[1] \in Ids'
               /\ \A k \in Ids' : AuditOf(k)'
    BY DEF AuditTellsJournal, AuditOf, RowsOf, ExactlyOne, IsPosted
  <1>1. ASSUME NEW l \in PostingLists, Creates(l)
        PROVE  /\ \A k \in DOMAIN audit' : audit'[k].ids[1] \in Ids'
               /\ \A k \in Ids' : AuditOf(k)'
    <2>1. Record("entry.create", <<LastId + 1>>)
      BY <1>1 DEF Creates
    <2>2. \A k \in DOMAIN audit' : audit'[k].ids[1] \in Ids'
      BY <1>0, <1>1, <2>1, AfterCreate, AuditAppend
    <2>3. \A k \in Ids : AuditOf(k)'
      BY <1>0, <1>1, <2>1, AfterCreate, AuditAppend DEF AuditOf, ExactlyOne, IsPosted
    <2>4. \A k \in Ids' \ Ids : AuditOf(k)'
      <3> SUFFICES ASSUME NEW k \in Ids' \ Ids
                   PROVE  AuditOf(k)'
        OBVIOUS
      <3>1. k = LastId + 1
        BY <1>1, AfterCreate
      <3>2. /\ RowsOf("entry.create", k)' = {Len(audit) + 1}
            /\ RowsOf("entry.reverse", k)' = {}
            /\ RowsOf("entry.post", k)' = {}
        BY <1>0, <2>1, <3>1, AuditAppend
      <3>3. QED
        BY <1>1, <2>1, <3>1, <3>2, AfterCreate DEF AuditOf, ExactlyOne, IsPosted
    <2>5. QED
      BY <1>1, <2>2, <2>3, <2>4, AfterCreate
  <1>2. ASSUME NEW i \in Ids, Posts(i)
        PROVE  /\ \A k \in DOMAIN audit' : audit'[k].ids[1] \in Ids'
               /\ \A k \in Ids' : AuditOf(k)'
    <2>0. /\ Ids' = Ids /\ IsDraft(i)
          /\ \A k \in Ids \ {i} : entries'[k].state = entries[k].state
          /\ entries'[i].state = "posted"
          /\ \A k \in Ids : entries'[k].reversedFrom = entries[k].reversedFrom
      BY <1>2, AfterPost
    <2>1. Record("entry.post", <<i>>) /\ <<i>>[1] = i
      BY <1>2 DEF Posts
    <2>2. \A k \in DOMAIN audit' : audit'[k].ids[1] \in Ids'
      BY <1>0, <2>0, <2>1, AuditAppend
    <2>3. \A k \in Ids : AuditOf(k)'
      BY <1>0, <2>0, <2>1, AuditAppend DEF AuditOf, ExactlyOne, IsPosted, IsDraft
    <2>4. QED
      BY <1>2, <2>2, <2>3, AfterPost
  <1>3. ASSUME NEW i \in Ids, Reverses(i)
        PROVE  /\ \A k \in DOMAIN audit' : audit'[k].ids[1] \in Ids'
               /\ \A k \in Ids' : AuditOf(k)'
    <2> DEFINE ids == <<LastId + 1, i>>
    <2>1. Record("entry.reverse", ids) /\ ids[1] = LastId + 1 /\ i # 0
      BY <1>3, IdsLemma DEF Reverses, TypeOK
    <2> HIDE DEF ids
    <2>2. \A k \in DOMAIN audit' : audit'[k].ids[1] \in Ids'
      BY <1>0, <1>3, <2>1, AfterReverse, AuditAppend
    <2>3. \A k \in Ids : AuditOf(k)'
      BY <1>0, <1>3, <2>1, AfterReverse, AuditAppend DEF AuditOf, ExactlyOne, IsPosted
    <2>4. \A k \in Ids' \ Ids : AuditOf(k)'
      <3> SUFFICES ASSUME NEW k \in Ids' \ Ids
                   PROVE  AuditOf(k)'
        OBVIOUS
      <3>1. k = LastId + 1
        BY <1>3, AfterReverse
      <3>2. /\ RowsOf("entry.reverse", k)' = {Len(audit) + 1}
            /\ RowsOf("entry.create", k)' = {}
            /\ RowsOf("entry.post", k)' = {}
        BY <1>0, <2>1, <3>1, AuditAppend
      <3>3. QED
        BY <1>3, <2>1, <3>1, <3>2, AfterReverse DEF AuditOf, ExactlyOne, IsPosted
    <2>5. QED
      BY <1>3, <2>2, <2>3, <2>4, AfterReverse
  <1>4. ASSUME NEW i \in Ids, NEW l \in PostingLists, Edits(i, l)
        PROVE  /\ \A k \in DOMAIN audit' : audit'[k].ids[1] \in Ids'
               /\ \A k \in Ids' : AuditOf(k)'
    <2>1. audit' = audit
      BY <1>4 DEF Edits
    <2>2. QED
      BY <1>0, <1>4, <2>1, AfterEdit DEF AuditOf, RowsOf, ExactlyOne, IsPosted, IsDraft
  <1>5. CASE UNCHANGED <<entries, audit>>
    BY <1>0, <1>5 DEF AuditOf, RowsOf, ExactlyOne, IsPosted, Ids
  <1>6. ASSUME NEW i \in Ids, NEW d \in Ids, NEW l \in PostingLists, NEW m \in PostingLists,
               Strips(i, d, l, m)
        PROVE  /\ \A k \in DOMAIN audit' : audit'[k].ids[1] \in Ids'
               /\ \A k \in Ids' : AuditOf(k)'
    <2>1. /\ audit' = audit /\ Ids' = Ids
          /\ \A k \in Ids : /\ entries'[k].state = entries[k].state
                            /\ entries'[k].reversedFrom = entries[k].reversedFrom
      BY <1>6, AfterStrip DEF TypeOK, Strips
    <2>2. QED
      BY <1>0, <2>1 DEF AuditOf, RowsOf, ExactlyOne, IsPosted
  <1>7. QED
    BY <1>1, <1>2, <1>3, <1>4, <1>5, <1>6 DEF JournalStep, PlainStep

----------------------------------------------------------------------------------
(* The theorems. *)

IInv == /\ TypeOK
        /\ SnapshotHolds
        /\ PostedBalanced
        /\ ReversedOnce
        /\ ReversalNegates
        /\ AuditTellsJournal

LEMMA InitIInv == Init => IInv
  <1> SUFFICES ASSUME Init
               PROVE  IInv
    OBVIOUS
  <1>1. Ids = {} /\ DOMAIN audit = {} /\ fresh = {} /\ \A p \in Procs : pc[p] = "idle"
    BY DEF Init, Ids
  <1>2. QED
    BY <1>1, InitTypeOK
    DEF IInv, SnapshotHolds, PostedBalanced, ReversedOnce, ReversalNegates, AuditTellsJournal

LEMMA NextIInv == IInv /\ [Next]_vars => IInv'
  BY NextTypeOK, JournalSteps, SnapshotStep, PostedBalancedStep, ReversalStep, AuditStep DEF IInv

THEOREM InductiveInvariant == Spec => []IInv
  BY InitIInv, NextIInv, PTL DEF Spec

(***************************************************************************)
(* No posted entry is ever unbalanced, whoever edited its draft, unless an *)
(* SQL UPDATE took a row of it afterwards.                                 *)
(***************************************************************************)
THEOREM BooksBalance == Spec => []PostedBalanced
  <1>1. IInv => PostedBalanced
    BY DEF IInv
  <1>2. QED
    BY <1>1, InductiveInvariant, PTL

(***************************************************************************)
(* An entry is reversed at most once, however many processes race to       *)
(* reverse it, as the second one's snapshot is stale; and exactly, unless  *)
(* SQL took a row of it or of its reversal.                                *)
(***************************************************************************)
THEOREM ReversalsAreSafe == Spec => [](ReversedOnce /\ ReversalNegates)
  <1>1. IInv => ReversedOnce /\ ReversalNegates
    BY DEF IInv
  <1>2. QED
    BY <1>1, InductiveInvariant, PTL

(***************************************************************************)
(* Each entry has its creating audit row, and its posting row exactly when *)
(* it is posted, whatever died in between.                                 *)
(***************************************************************************)
THEOREM AuditIsComplete == Spec => []AuditTellsJournal
  <1>1. IInv => AuditTellsJournal
    BY DEF IInv
  <1>2. QED
    BY <1>1, InductiveInvariant, PTL

(***************************************************************************)
(* No row disappears, and a posted one never changes, except that SQL may  *)
(* take rows of it away to a draft: then it is among the stripped.         *)
(***************************************************************************)
THEOREM PostedRowsAreFinal == Spec => PostedIsFinal
  <1>1. ASSUME IInv, [Next]_vars
        PROVE  /\ Len(entries) <= Len(entries')
               /\ \A i \in Ids :
                    IsPosted(i) => entries'[i] = entries[i] \/ (LosesRows(i) /\ i \in stripped')
    <2>1. JournalStep /\ TypeOK /\ TypeOK'
      BY <1>1, JournalSteps, NextTypeOK DEF IInv
    <2>2. ASSUME PlainStep
          PROVE  Ids \subseteq Ids' /\ \A i \in Ids : IsPosted(i) => entries'[i] = entries[i]
      BY <2>1, <2>2, AfterCreate, AfterPost, AfterReverse, AfterEdit DEF PlainStep, IsPosted, IsDraft, Ids
    <2>3. ASSUME NEW i \in Ids, NEW d \in Ids, NEW l \in PostingLists, NEW m \in PostingLists,
                 Strips(i, d, l, m)
          PROVE  /\ Ids \subseteq Ids'
                 /\ \A k \in Ids :
                      IsPosted(k) => entries'[k] = entries[k] \/ (LosesRows(k) /\ k \in stripped')
      <3>1. \A k \in Ids : k # i /\ IsPosted(k) => entries'[k] = entries[k]
        BY <2>1, <2>3, StripsOne DEF TypeOK
      <3>2. LosesRows(i) /\ Ids' = Ids
        BY <2>1, <2>3, StripsOne, AfterStrip DEF TypeOK
      <3>3. i \in stripped'
        BY <2>3 DEF Strips
      <3>4. QED
        BY <3>1, <3>2, <3>3
    <2>4. Ids \subseteq Ids'
      BY <2>1, <2>2, <2>3 DEF JournalStep
    <2>5. Len(entries) <= Len(entries')
      BY <2>1, <2>4 DEF TypeOK, TablesOK, Ids
    <2>6. QED
      BY <2>1, <2>2, <2>3, <2>5 DEF JournalStep
  <1>2. QED
    BY <1>1, InductiveInvariant, PTL DEF Spec, PostedIsFinal

(***************************************************************************)
(* A draft is only ever posted to accounts that are active at that moment. *)
(***************************************************************************)
THEOREM PostingsHitActiveAccounts == Spec => PostsToActiveAccounts
  <1>1. ASSUME IInv, [Next]_vars
        PROVE  \A i \in Ids : IsDraft(i) /\ entries'[i].state = "posted" => Postable(i)
    <2>1. JournalStep /\ TypeOK
      BY <1>1, JournalSteps DEF IInv
    <2>2. QED
      BY <2>1, AfterCreate, AfterPost, AfterReverse, AfterEdit, AfterStrip
      DEF JournalStep, PlainStep, IsDraft, TypeOK
  <1>2. QED
    BY <1>1, InductiveInvariant, PTL DEF Spec, PostsToActiveAccounts

----------------------------------------------------------------------------------
(* The engine implements Books. *)

Mapped == [i \in Ids |-> BookRow(entries[i])]

LEMMA MappedSeq ==
  ASSUME TypeOK
  PROVE  /\ DOMAIN Mapped = Ids /\ Mapped \in Seq({BookRow(e) : e \in EntryRow})
         /\ Len(Mapped) = LastId
         /\ \A i \in Ids : Mapped[i] = BookRow(entries[i])
  BY IdsLemma DEF Mapped, TypeOK

LEMMA MappedAppend ==
  ASSUME TypeOK, NEW row \in EntryRow, entries' = Append(entries, row)
  PROVE  Mapped' = Append(Mapped, BookRow(row))
  <1> DEFINE BookRows == {BookRow(e) : e \in EntryRow}
             longer == Append(Mapped, BookRow(row))
  <1>1. /\ Ids' = 1..(LastId + 1) /\ Ids = 1..LastId /\ LastId \in Nat
        /\ \A k \in Ids : entries'[k] = entries[k] /\ entries[k] \in EntryRow
        /\ entries'[LastId + 1] = row
        /\ \A i \in 1..(LastId + 1) : i \in Ids \/ i = LastId + 1
    BY IdsLemma DEF TypeOK, TablesOK, Ids, LastId
  <1>2. Mapped' = [i \in 1..(LastId + 1) |-> BookRow(entries'[i])]
    BY <1>1 DEF Mapped, BookRow
  <1>3. Mapped' \in Seq(BookRows) /\ Len(Mapped') = LastId + 1
    <2>1. \A i \in 1..(LastId + 1) : entries'[i] \in EntryRow
      BY <1>1
    <2>2. \A i \in 1..(LastId + 1) : BookRow(entries'[i]) \in BookRows
      BY <2>1
    <2> HIDE DEF BookRows
    <2>3. Mapped' \in [1..(LastId + 1) -> BookRows]
      BY <1>2, <2>2
    <2>4. Mapped' \in Seq(BookRows)
      BY <1>1, <2>3
    <2>5. DOMAIN Mapped' = 1..(LastId + 1)
      BY <1>2
    <2>6. QED
      BY <1>1, <2>4, <2>5, LenProperties
  <1>4. Mapped \in Seq(BookRows) /\ Len(Mapped) = LastId /\ BookRow(row) \in BookRows
    BY MappedSeq
  <1>5. /\ longer \in Seq(BookRows) /\ Len(longer) = LastId + 1
        /\ \A i \in 1..LastId : longer[i] = Mapped[i]
        /\ longer[LastId + 1] = BookRow(row)
    <2> HIDE DEF BookRows
    <2>1. QED
      BY <1>4, AppendProperties
  <1> HIDE DEF longer
  <1>6. \A i \in 1..(LastId + 1) : Mapped'[i] = longer[i]
    <2>1. \A i \in 1..(LastId + 1) : Mapped'[i] = BookRow(entries'[i])
      BY <1>2
    <2>2. \A i \in 1..LastId : Mapped[i] = BookRow(entries[i])
      BY <1>1, MappedSeq
    <2>3. QED
      BY <1>1, <1>5, <2>1, <2>2
  <1> HIDE DEF BookRows
  <1>7. Mapped' = longer
    BY <1>3, <1>5, <1>6, SeqEqual
  <1>8. QED
    BY <1>7 DEF longer

LEMMA MappedUpdate ==
  ASSUME TypeOK, NEW i \in Ids, NEW row, entries' = [entries EXCEPT ![i] = row]
  PROVE  Mapped' = [Mapped EXCEPT ![i] = BookRow(row)]
  <1>1. Ids' = Ids /\ entries'[i] = row /\ \A k \in Ids \ {i} : entries'[k] = entries[k]
    BY UpdateRow
  <1>2. Mapped' = [k \in Ids |-> BookRow(entries'[k])]
    BY <1>1 DEF Mapped, BookRow
  <1>3. BookRow(entries'[i]) = BookRow(row)
        /\ \A k \in Ids \ {i} : BookRow(entries'[k]) = BookRow(entries[k])
    BY <1>1
  <1>4. Mapped' = [k \in Ids |-> IF k = i THEN BookRow(row) ELSE BookRow(entries[k])]
    BY <1>2, <1>3
  <1>5. [Mapped EXCEPT ![i] = BookRow(row)]
          = [k \in Ids |-> IF k = i THEN BookRow(row) ELSE BookRow(entries[k])]
    BY DEF Mapped
  <1>6. QED
    BY <1>4, <1>5

LEMMA InitMaps == Init => Journal!Init
  BY DEF Init, Journal!Init, Ids

LEMMA StepMaps ==
  ASSUME TypeOK, ReversalNegates, JournalStep
  PROVE  [Journal!Next]_Mapped
  <1>0. \A i \in Ids : /\ entries[i] \in EntryRow /\ Mapped[i] = BookRow(entries[i])
                       /\ Mapped[i].state = entries[i].state
                       /\ Mapped[i].postings = entries[i].postings
                       /\ Mapped[i].reversedFrom = entries[i].reversedFrom
    BY IdsLemma, MappedSeq DEF TypeOK, BookRow
  <1>1. ASSUME NEW l \in PostingLists, Creates(l)
        PROVE  \E m \in PostingLists : Journal!Enter(m)
    <2> DEFINE row == [state |-> "draft", postings |-> l, source |-> Manual, ref |-> NoRef,
                       reversedFrom |-> 0]
    <2>1. Mapped' = Append(Mapped, BookRow(row))
      BY <1>1, MappedAppend, RowTypes DEF Creates, InsertDraft
    <2>2. BookRow(row) = Journal!Row("draft", l, 0)
      BY DEF BookRow, Journal!Row
    <2>3. QED
      BY <2>1, <2>2 DEF Journal!Enter, Mapped
  <1>2. ASSUME NEW i \in Ids, Posts(i)
        PROVE  Journal!Post(i)
    <2> DEFINE row == [entries[i] EXCEPT !.state = "posted"]
    <2>1. Mapped' = [Mapped EXCEPT ![i] = BookRow(row)]
      BY <1>2, MappedUpdate DEF Posts, MarkPosted
    <2>2. BookRow(row) = [Mapped[i] EXCEPT !.state = "posted"]
      <3>1. /\ row.state = "posted" /\ row.postings = entries[i].postings
            /\ row.reversedFrom = entries[i].reversedFrom
        BY <1>0 DEF EntryRow
      <3>2. Mapped[i] = [state |-> entries[i].state, postings |-> entries[i].postings,
                         reversedFrom |-> entries[i].reversedFrom]
        BY <1>0 DEF BookRow
      <3> HIDE DEF row
      <3>3. BookRow(row) = [state |-> "posted", postings |-> entries[i].postings,
                             reversedFrom |-> entries[i].reversedFrom]
        BY <3>1 DEF BookRow
      <3>4. QED
        BY <3>2, <3>3
    <2>3. Mapped[i].state = "draft" /\ Balanced(Mapped[i].postings)
      BY <1>0, <1>2, AfterPost DEF IsDraft
    <2>4. Mapped' = [Mapped EXCEPT ![i].state = "posted"]
      BY <2>1, <2>2
    <2>5. QED
      BY <2>3, <2>4 DEF Journal!Post, Journal!Balanced, Balanced, Mapped
  <1>3. ASSUME NEW i \in Ids, Reverses(i)
        PROVE  Journal!Reverse(i)
    <2> DEFINE row == [state |-> "posted", postings |-> Neg(entries[i].postings),
                       source |-> "reversal", ref |-> NoRef, reversedFrom |-> i]
    <2>1. row \in EntryRow
      BY <1>0, RowTypes, IdsLemma DEF EntryRow, TypeOK
    <2>2. Mapped' = Append(Mapped, BookRow(row))
      BY <1>3, <2>1, MappedAppend DEF Reverses, InsertReversal
    <2>3. BookRow(row) = Journal!Row("posted", Neg(Mapped[i].postings), i)
      BY <1>0 DEF BookRow, Journal!Row
    <2>4. \A r \in Ids : Mapped[r].reversedFrom # i
      BY <1>0, <1>3, AfterReverse, IdsLemma DEF TypeOK, HasReversal, ReversalNegates
    <2>5. Mapped[i].state = "posted"
      BY <1>0, <1>3 DEF Reverses, IsPosted
    <2>6. QED
      BY <2>2, <2>3, <2>4, <2>5, MappedSeq DEF Journal!Reverse, Mapped
  <1>4. ASSUME NEW i \in Ids, NEW l \in PostingLists, Edits(i, l)
        PROVE  Journal!Edit(i, l)
    <2> DEFINE row == [entries[i] EXCEPT !.postings = l]
    <2>1. Mapped' = [Mapped EXCEPT ![i] = BookRow(row)]
      BY <1>4, MappedUpdate DEF Edits
    <2>2. BookRow(row) = [Mapped[i] EXCEPT !.postings = l]
      <3>1. row.state = entries[i].state /\ row.postings = l /\ row.reversedFrom = entries[i].reversedFrom
        BY <1>0 DEF EntryRow
      <3>2. Mapped[i] = [state |-> entries[i].state, postings |-> entries[i].postings,
                         reversedFrom |-> entries[i].reversedFrom]
        BY <1>0 DEF BookRow
      <3> HIDE DEF row
      <3>3. BookRow(row) = [state |-> entries[i].state, postings |-> l,
                             reversedFrom |-> entries[i].reversedFrom]
        BY <3>1 DEF BookRow
      <3>4. QED
        BY <3>2, <3>3
    <2>3. Mapped[i].state = "draft"
      BY <1>0, <1>4 DEF Edits, IsDraft
    <2>4. QED
      BY <2>1, <2>2, <2>3 DEF Journal!Edit, Mapped
  <1>5. CASE UNCHANGED <<entries, audit>>
    BY <1>5 DEF Mapped, Ids, BookRow
  <1>6. DOMAIN Mapped = Ids
    BY MappedSeq
  <1>7. ASSUME NEW i \in Ids, NEW d \in Ids, NEW l \in PostingLists, NEW m \in PostingLists,
               Strips(i, d, l, m)
        PROVE  Journal!MoveRows(i, d, l, m)
    <2>1. /\ Ids' = Ids /\ i # d
          /\ \A k \in Ids \ {i, d} : entries'[k] = entries[k]
          /\ entries'[i] = [entries[i] EXCEPT !.postings = l]
          /\ entries'[d] = [entries[d] EXCEPT !.postings = m]
      BY <1>7, AfterStrip DEF TypeOK
    <2>2. ASSUME NEW k \in Ids, NEW n, entries'[k] = [entries[k] EXCEPT !.postings = n]
          PROVE  BookRow(entries'[k]) = [Mapped[k] EXCEPT !.postings = n]
      <3>1. /\ entries'[k].state = entries[k].state /\ entries'[k].postings = n
            /\ entries'[k].reversedFrom = entries[k].reversedFrom
        BY <1>0, <2>2 DEF EntryRow
      <3>2. Mapped[k] = [state |-> entries[k].state, postings |-> entries[k].postings,
                         reversedFrom |-> entries[k].reversedFrom]
        BY <1>0 DEF BookRow
      <3>3. QED
        BY <3>1, <3>2 DEF BookRow
    <2>3. BookRow(entries'[i]) = [Mapped[i] EXCEPT !.postings = l]
      BY <2>1, <2>2
    <2>4. BookRow(entries'[d]) = [Mapped[d] EXCEPT !.postings = m]
      BY <2>1, <2>2
    <2>5. Mapped' = [k \in Ids |-> BookRow(entries'[k])]
      BY <2>1 DEF Mapped, BookRow
    <2>6. \A k \in Ids \ {i, d} : BookRow(entries'[k]) = Mapped[k]
      BY <1>0, <2>1
    <2>7. Mapped' = [Mapped EXCEPT ![i].postings = l, ![d].postings = m]
      <3> DEFINE a == [Mapped[i] EXCEPT !.postings = l]
                 b == [Mapped[d] EXCEPT !.postings = m]
      <3>1. [Mapped EXCEPT ![i].postings = l, ![d].postings = m] = [[Mapped EXCEPT ![i] = a] EXCEPT ![d] = b]
        BY <2>1
      <3>2. BookRow(entries'[i]) = a /\ BookRow(entries'[d]) = b
        BY <2>3, <2>4
      <3> HIDE DEF a, b
      <3>3. [[Mapped EXCEPT ![i] = a] EXCEPT ![d] = b]
              = [k \in Ids |-> IF k = d THEN b ELSE IF k = i THEN a ELSE Mapped[k]]
        BY <2>1 DEF Mapped
      <3>4. Mapped' = [k \in Ids |-> IF k = d THEN b ELSE IF k = i THEN a ELSE Mapped[k]]
        BY <2>1, <2>5, <2>6, <3>2
      <3>5. QED
        BY <3>1, <3>3, <3>4
    <2>8. QED
      BY <1>0, <1>7, <2>7 DEF Strips, IsPosted, IsDraft, Journal!MoveRows, Mapped
  <1>8. QED
    BY <1>1, <1>2, <1>3, <1>4, <1>5, <1>6, <1>7 DEF JournalStep, PlainStep, Journal!Next, Mapped

(***************************************************************************)
(* Every behaviour of the engine, SQL on the postings included, is one the *)
(* lifecycle of Books allows.                                              *)
(***************************************************************************)
THEOREM Refinement == Spec => ImplementsBooks
  <1>1. ASSUME IInv, [Next]_vars
        PROVE  [Journal!Next]_Mapped
    BY <1>1, JournalSteps, StepMaps DEF IInv
  <1>2. QED
    BY <1>1, InitMaps, InductiveInvariant, PTL DEF Spec, ImplementsBooks, Journal!Spec, Mapped

----------------------------------------------------------------------------------
(* Store. *)

(***************************************************************************)
(* The inductive invariant.  First types: contents are tables of numbered  *)
(* rows, backups are what was taken, and a WAL is left only by the dead.   *)
(***************************************************************************)
AttachmentRow == [id : Nat, ref : Owners, document : Documents, mode : {"db", "file"}]

Table == [rows : SUBSET AttachmentRow, last : Nat]

Numbered(t) ==
  \A r \in t.rows : r.id <= t.last /\ \A s \in t.rows : r.id = s.id => r = s

Good(c) == c \in Content /\ Numbered(c["attachments"])

BackupRow == [content : Content, taken : Content, key : Keys]

JobRow ==
  [at : {"free", "copy", "insert", "delete", "unlink", "record", "overwrite", "fill", "restored", "close", "prune"},
   ref : Owners \cup {0}, document : Documents \cup {"none"}, mode : {"none", "db", "file"},
   id : Nat, keep : Keeps \cup {0}, content : Content \cup {<< >>}, taken : Content \cup {<< >>}]

JobOK(k) ==
  /\ k.at = "free" => k = Free
  /\ k.at \in {"copy", "insert"} => k.ref \in Owners /\ k.document \in Documents /\ k.mode \in {"db", "file"}
  /\ k.at = "copy" => k.mode = "file"
  /\ k.at \in {"overwrite", "fill"} => Good(k.content) /\ k.content = k.taken

PastRow ==
  [shared : SUBSET Documents, torn : SUBSET Documents, died : BOOLEAN, half : BOOLEAN, copied : Nat, scope : Scopes]

Types ==
  /\ main \in Content /\ DOMAIN wal \subseteq Pages /\ Good(Visible)
  /\ copies \subseteq Documents
  /\ backups \in Seq(BackupRow)
  /\ \A k \in DOMAIN backups : Good(backups[k].content) /\ backups[k].content = backups[k].taken
  /\ command \in [Commands -> JobRow]
  /\ \A p \in Commands : JobOK(command[p])
  /\ past \in PastRow
  /\ Open = {} /\ ~past.died => DOMAIN wal = {}

(***************************************************************************)
(* Then the copies.  A document is as it should be, or some process has it *)
(* half done, and no two processes have it in hand, unless it is excused.  *)
(***************************************************************************)
Excused == past.shared \cup past.torn

Kept(d) == d \in copies <=> d \in InFileMode(Attached)

HalfDone(p, d) ==
  /\ d = command[p].document
  /\ command[p].at = "unlink" \/ (command[p].at = "insert" /\ command[p].mode = "file")

CopiesOK ==
  /\ \A p, q \in Commands : p # q => Handled(p) \cap Handled(q) \subseteq past.torn
  /\ \A d \in Documents \ Excused : Kept(d) \/ \E p \in Commands : HalfDone(p, d)
  /\ \A p \in Commands : command[p].at = "insert" /\ command[p].mode = "file"
       => command[p].document \in copies \cup Excused
  /\ \A p \in Commands : command[p].at = "delete" /\ command[p].document \notin Excused
       => \A row \in Attached : row.id = command[p].id /\ row.document = command[p].document
            => row.mode = command[p].mode

StoreIInv == Types /\ CopiesOK

----------------------------------------------------------------------------------
(* Types. *)

LEMMA ContentFacts ==
  ASSUME NEW c
  PROVE  c \in Content <=> /\ c = [page \in Pages |-> c[page]]
                           /\ c["attachments"] \in Table /\ c["rest"] \in Nat
  <1>1. CASE c \in Content
    BY <1>1 DEF Content, Pages, Table, AttachmentRow
  <1>2. ASSUME c = [page \in Pages |-> c[page]], c["attachments"] \in Table, c["rest"] \in Nat
        PROVE  c \in Content
    BY <1>2 DEF Content, Pages, Table, AttachmentRow
  <1>3. QED
    BY <1>1, <1>2

OthersKept(p) == \A q \in Commands : q # p => command'[q] = command[q]

LEMMA JobStep ==
  ASSUME Types, NEW p \in Commands, NEW k \in JobRow, JobOK(k), command' = [command EXCEPT ![p] = k]
  PROVE  /\ command' \in [Commands -> JobRow] /\ \A q \in Commands : JobOK(command'[q])
         /\ command'[p] = k /\ OthersKept(p)
  BY DEF Types, OthersKept

\* Going on to a step that asks nothing of what is in hand.
LEMMA GoesStep ==
  ASSUME Types, NEW p \in Commands, NEW step \in {"insert", "unlink", "record", "fill", "restored", "close", "prune"},
         Goes(p, step), step = "insert" => Does(p, "copy"), step = "fill" => Does(p, "overwrite")
  PROVE  /\ command' \in [Commands -> JobRow] /\ \A q \in Commands : JobOK(command'[q])
         /\ command'[p].at = step /\ OthersKept(p)
         /\ command'[p].document = command[p].document /\ command'[p].mode = command[p].mode
         /\ command'[p].keep = command[p].keep
  <1>1. PICK j \in JobRow : j = command[p] /\ JobOK(j)
    BY DEF Types
  <1>2. PICK k : k = [j EXCEPT !.at = step]
    OBVIOUS
  <1>3. /\ k \in JobRow /\ k.at = step /\ k.ref = j.ref /\ k.document = j.document /\ k.mode = j.mode
        /\ k.keep = j.keep /\ k.content = j.content /\ k.taken = j.taken
    BY <1>2 DEF JobRow
  <1>4. JobOK(k)
    BY <1>1, <1>3 DEF JobOK, Does
  <1>5. command' = [command EXCEPT ![p] = k]
    BY <1>1, <1>2 DEF Goes
  <1>6. QED
    BY <1>1, <1>3, <1>4, <1>5, JobStep

LEMMA FreeFacts ==
  /\ Free \in JobRow /\ JobOK(Free) /\ Free.at = "free" /\ Free.document = "none" /\ Free.mode = "none"
  /\ Free.keep = 0
  BY DEF Free, JobRow, JobOK

\* With somebody having the database open nothing is asked of the WAL.
LEMMA SomebodyOpen ==
  ASSUME Types, command' \in [Commands -> JobRow], NEW p \in Commands,
         command'[p].at \notin {"free", "overwrite", "fill", "prune"}
  PROVE  Open' # {}
  BY DEF Open

LEMMA Writing ==
  ASSUME Types, NEW page \in Pages, NEW c, Write(page, c), main' = main,
         page = "attachments" => c \in Table /\ Numbered(c),
         page = "rest" => c \in Nat
  PROVE  /\ DOMAIN wal' \subseteq Pages /\ Good(Visible')
         /\ page = "attachments" => Attached' = c.rows
         /\ page = "rest" => Attached' = Attached
  <1>1. /\ Visible["attachments"] \in Table /\ Visible["rest"] \in Nat /\ Numbered(Visible["attachments"])
        /\ Pages = {"attachments", "rest"} /\ DOMAIN wal \subseteq Pages
    BY ContentFacts DEF Types, Good, Pages
  <1>2. wal' = [x \in DOMAIN wal \cup {page} |-> IF x = page THEN c ELSE wal[x]]
    BY DEF Write
  <1>3. DOMAIN wal' \subseteq Pages
    BY <1>1, <1>2
  <1>4. \A x \in Pages : Visible'[x] = IF x \in DOMAIN wal' THEN wal'[x] ELSE main'[x]
    BY DEF Visible
  <1>5. \A x \in Pages : Visible[x] = IF x \in DOMAIN wal THEN wal[x] ELSE main[x]
    BY DEF Visible
  <1>6. Visible' = [x \in Pages |-> IF x = page THEN c ELSE Visible[x]]
    <2>1. Visible' = [x \in Pages |-> IF x \in DOMAIN wal' THEN wal'[x] ELSE main'[x]]
      BY DEF Visible
    <2>2. \A x \in Pages : Visible'[x] = IF x = page THEN c ELSE Visible[x]
      BY <1>2, <1>4, <1>5
    <2>3. QED
      BY <2>1, <2>2
  <1>7. PICK v : v = Visible' /\ v = [x \in Pages |-> v[x]]
    BY <1>6
  <1>8. v["attachments"] \in Table /\ v["rest"] \in Nat /\ Numbered(v["attachments"])
    BY <1>1, <1>6, <1>7
  <1>9. Good(v)
    BY <1>7, <1>8, ContentFacts DEF Good
  <1>10. QED
    BY <1>1, <1>3, <1>6, <1>7, <1>9 DEF Attached


----------------------------------------------------------------------------------
(* The copies.  Most steps take nothing in hand and touch only what the    *)
(* process has in hand already.                                            *)

LEMMA Moves ==
  ASSUME Types, CopiesOK, NEW p \in Commands, OthersKept(p),
         Handled(p)' \subseteq Handled(p),
         past.torn \subseteq past'.torn, past.shared \subseteq past'.shared,
         \A d \in Documents \ Excused' : Kept(d) => Kept(d)' \/ HalfDone(p, d)',
         \A d \in Documents \ Excused' : HalfDone(p, d) => Kept(d)' \/ HalfDone(p, d)',
         copies \ copies' \subseteq Handled(p),
         \A row \in Attached' : row \in Attached \/ row.document \in Excused' \cup Handled(p),
         command'[p].at = "insert" /\ command'[p].mode = "file"
           => command'[p].document \in copies' \cup Excused',
         command'[p].at # "delete"
  PROVE  CopiesOK'
  <1>1. Excused \subseteq Excused'
    BY DEF Excused
  <1>2. \A q \in Commands \ {p} : /\ command'[q] = command[q] /\ Handled(q)' = Handled(q)
                                  /\ \A d : HalfDone(q, d)' <=> HalfDone(q, d)
    BY DEF OthersKept, Handled, HalfDone
  <1>3. \A q \in Commands \ {p} : Handled(p) \cap Handled(q) \subseteq past.torn
    BY DEF CopiesOK
  <1>4. ASSUME NEW q \in Commands, NEW r \in Commands, q # r
        PROVE  Handled(q)' \cap Handled(r)' \subseteq past'.torn
    <2>1. Handled(q) \cap Handled(r) \subseteq past.torn
      BY <1>4 DEF CopiesOK
    <2>2. Handled(q)' \subseteq Handled(q) /\ Handled(r)' \subseteq Handled(r)
      BY <1>2
    <2>3. QED
      BY <2>1, <2>2
  <1>5. ASSUME NEW d \in Documents \ Excused'
        PROVE  Kept(d)' \/ \E q \in Commands : HalfDone(q, d)'
    <2>1. Kept(d) \/ \E q \in Commands : HalfDone(q, d)
      BY <1>1, <1>5 DEF CopiesOK
    <2>2. CASE Kept(d)
      BY <1>5, <2>2
    <2>3. CASE HalfDone(p, d)
      BY <1>5, <2>3
    <2>4. ASSUME NEW q \in Commands \ {p}, HalfDone(q, d)
          PROVE  HalfDone(q, d)'
      BY <1>2, <2>4
    <2>5. QED
      BY <2>1, <2>2, <2>3, <2>4
  <1>6. ASSUME NEW q \in Commands, command'[q].at = "insert", command'[q].mode = "file"
        PROVE  command'[q].document \in copies' \cup Excused'
    <2>1. CASE q = p
      BY <1>6, <2>1
    <2>2. CASE q # p
      <3>1. command'[q] = command[q] /\ JobOK(command[q])
        BY <1>2, <2>2 DEF Types
      <3>2. command[q].document \in Documents /\ command[q].document \in copies \cup Excused
        BY <1>6, <3>1 DEF JobOK, CopiesOK
      <3>3. command[q].document \in Handled(q)
        BY <3>2 DEF Handled
      <3>4. command[q].document \in copies \ copies' => command[q].document \in Excused'
        BY <1>1, <1>3, <2>2, <3>3 DEF Excused
      <3>5. QED
        BY <1>1, <3>1, <3>2, <3>4
    <2>3. QED
      BY <2>1, <2>2
  <1>7. ASSUME NEW q \in Commands, command'[q].at = "delete", command'[q].document \notin Excused',
               NEW row \in Attached', row.id = command'[q].id, row.document = command'[q].document
        PROVE  row.mode = command'[q].mode
    <2>1. q # p /\ command'[q] = command[q]
      BY <1>2, <1>7
    <2>2. row \in Attached \/ row.document \in Handled(p)
      BY <1>7
    <2>3. row.document \in Handled(p) => row.document \in Handled(q)
      BY <1>7, <2>1 DEF Handled
    <2>4. row \in Attached
      BY <1>1, <1>3, <1>7, <2>1, <2>2, <2>3 DEF Excused
    <2>5. QED
      BY <1>1, <1>7, <2>1, <2>4 DEF CopiesOK
  <1>8. QED
    BY <1>4, <1>5, <1>6, <1>7 DEF CopiesOK

\* Taking a document in hand.
LEMMA Takes ==
  ASSUME Types, CopiesOK, NEW p \in Commands, Does(p, "free"), UNCHANGED <<main, wal, copies>>,
         NEW k \in JobRow, command' = [command EXCEPT ![p] = k],
         k.document \in Documents, past' = [past EXCEPT !.torn = Torn(p, k.document)],
         k.at = "insert" => k.mode = "db", k.at # "unlink",
         k.at = "delete" => \A row \in Attached : row.id = k.id => row.mode = k.mode
  PROVE  CopiesOK'
  <1>1. /\ Attached' = Attached /\ copies' = copies
        /\ \A d : Kept(d)' <=> Kept(d)
    BY DEF Attached, Visible, Kept
  <1>2. /\ past' \in PastRow /\ past'.shared = past.shared /\ past'.torn = Torn(p, k.document)
        /\ past.torn \subseteq past'.torn
    BY DEF Types, PastRow, Torn
  <1>3. Excused \subseteq Excused'
    BY <1>2 DEF Excused
  <1>4. command'[p] = k /\ \A q \in Commands \ {p} : command'[q] = command[q]
    BY DEF Types
  <1>5. ASSUME NEW q \in Commands \ {p} PROVE Handled(q)' = Handled(q)
    BY <1>4 DEF Handled
  <1>6. ASSUME NEW q \in Commands, NEW d PROVE HalfDone(q, d) => HalfDone(q, d)'
    BY <1>4 DEF HalfDone, Does
  <1>7. Handled(p)' = {k.document}
    BY <1>4 DEF Handled
  <1>8. ASSUME NEW q \in Commands \ {p} PROVE Handled(p)' \cap Handled(q)' \subseteq past'.torn
    <2>1. k.document \in Handled(q) => k.document \in past'.torn
      BY <1>2 DEF Torn
    <2>2. QED
      BY <1>5, <1>7, <2>1
  <1>9. ASSUME NEW q \in Commands, NEW r \in Commands, q # r
        PROVE  Handled(q)' \cap Handled(r)' \subseteq past'.torn
    <2>1. CASE q = p
      BY <1>8, <1>9, <2>1
    <2>2. CASE r = p
      BY <1>8, <1>9, <2>2
    <2>3. CASE q # p /\ r # p
      <3>1. Handled(q) \cap Handled(r) \subseteq past.torn
        BY <1>9 DEF CopiesOK
      <3>2. QED
        BY <1>2, <1>5, <2>3, <3>1
    <2>4. QED
      BY <2>1, <2>2, <2>3
  <1>10. ASSUME NEW d \in Documents \ Excused'
         PROVE  Kept(d)' \/ \E q \in Commands : HalfDone(q, d)'
    <2>1. Kept(d) \/ \E q \in Commands : HalfDone(q, d)
      BY <1>3 DEF CopiesOK
    <2>2. QED
      BY <1>1, <1>6, <2>1
  <1>11. ASSUME NEW q \in Commands, command'[q].at = "insert", command'[q].mode = "file"
         PROVE  command'[q].document \in copies' \cup Excused'
    <2>1. q # p
      BY <1>4, <1>11
    <2>2. command[q].document \in copies \cup Excused
      BY <1>4, <1>11, <2>1 DEF CopiesOK
    <2>3. QED
      BY <1>1, <1>3, <1>4, <2>1, <2>2
  <1>12. ASSUME NEW q \in Commands, command'[q].at = "delete", command'[q].document \notin Excused',
                NEW row \in Attached', row.id = command'[q].id, row.document = command'[q].document
         PROVE  row.mode = command'[q].mode
    <2>1. CASE q = p
      BY <1>1, <1>4, <1>12, <2>1
    <2>2. CASE q # p
      BY <1>1, <1>3, <1>4, <1>12, <2>2 DEF CopiesOK
    <2>3. QED
      BY <2>1, <2>2
  <1>13. QED
    BY <1>9, <1>10, <1>11, <1>12 DEF CopiesOK


----------------------------------------------------------------------------------
(* Action by action. *)

BackupsOK ==
  /\ backups \in Seq(BackupRow)
  /\ \A k \in DOMAIN backups : Good(backups[k].content) /\ backups[k].content = backups[k].taken

\* Steps that leave the database alone.
LEMMA StillTyped ==
  ASSUME Types, UNCHANGED <<main, wal>>, copies' \subseteq Documents, BackupsOK', past' \in PastRow,
         command' \in [Commands -> JobRow], \A q \in Commands : JobOK(command'[q]),
         Open' = {} /\ ~past'.died => Open = {} /\ ~past.died
  PROVE  Types' /\ Visible' = Visible /\ Attached' = Attached /\ \A d : copies' = copies => (Kept(d)' <=> Kept(d))
  <1>1. Visible' = Visible /\ Attached' = Attached
    BY DEF Attached, Visible
  <1>2. Good(Visible')
    BY <1>1 DEF Types
  <1>3. \A q \in Commands : JobOK(command'[q])
    OBVIOUS
  <1>4. Types'
    BY <1>2, <1>3 DEF Types, BackupsOK
  <1>5. QED
    BY <1>1, <1>4 DEF Kept

LEMMA TornType ==
  ASSUME Types, NEW p, NEW document \in Documents
  PROVE  Torn(p, document) \subseteq Documents /\ past.torn \subseteq Torn(p, document)
  BY DEF Types, PastRow, Torn

LEMMA AddStep ==
  ASSUME StoreIInv, NEW p \in Commands, NEW ref \in Owners, NEW document \in Documents, NEW mode \in {"db", "file"},
         Add(p, ref, document, mode)
  PROVE  StoreIInv'
  <1>1. Types /\ CopiesOK /\ Does(p, "free") /\ UNCHANGED <<main, wal, copies, backups>>
    BY DEF StoreIInv, Add
  <1>2. PICK k : k = [Free EXCEPT !.at = IF mode = "file" THEN "copy" ELSE "insert",
                                  !.ref = ref, !.document = document, !.mode = mode]
    OBVIOUS
  <1>3. /\ k \in JobRow /\ k.at = IF mode = "file" THEN "copy" ELSE "insert"
        /\ k.ref = ref /\ k.document = document /\ k.mode = mode
    BY <1>2, FreeFacts DEF JobRow
  <1>4. JobOK(k)
    BY <1>3 DEF JobOK
  <1>5. command' = [command EXCEPT ![p] = k] /\ past' = [past EXCEPT !.torn = Torn(p, k.document)]
    BY <1>2, <1>3 DEF Add
  <1>6. /\ command' \in [Commands -> JobRow] /\ \A q \in Commands : JobOK(command'[q])
        /\ command'[p] = k
    BY <1>1, <1>3, <1>4, <1>5, JobStep
  <1>7. past' \in PastRow
    BY <1>1, <1>3, <1>5, TornType DEF Types, PastRow
  <1>8. Open' # {}
    BY <1>1, <1>3, <1>6, SomebodyOpen
  <1>9. BackupsOK' /\ copies' \subseteq Documents
    BY <1>1 DEF Types, BackupsOK
  <1>10. Types'
    BY <1>1, <1>6, <1>7, <1>8, <1>9, StillTyped
  <1>11. CopiesOK'
    BY <1>1, <1>3, <1>5, Takes
  <1>12. QED
    BY <1>10, <1>11 DEF StoreIInv

LEMMA DetachStep ==
  ASSUME StoreIInv, NEW p \in Commands, NEW row \in Attached, Detach(p, row)
  PROVE  StoreIInv'
  <1>1. Types /\ CopiesOK /\ Does(p, "free") /\ UNCHANGED <<main, wal, copies, backups>>
    BY DEF StoreIInv, Detach
  <1>2. /\ row \in AttachmentRow /\ \A s \in Attached : s.id = row.id => s = row
    BY <1>1, ContentFacts DEF Types, Good, Numbered, Attached, Table
  <1>3. PICK k : k = [Free EXCEPT !.at = "delete", !.id = row.id, !.document = row.document, !.mode = row.mode]
    OBVIOUS
  <1>4. row.id \in Nat /\ row.document \in Documents /\ row.mode \in {"db", "file"}
    BY <1>2 DEF AttachmentRow
  <1>5. /\ k \in JobRow /\ k.at = "delete" /\ k.id = row.id /\ k.document = row.document /\ k.mode = row.mode
    BY <1>3, <1>4, FreeFacts DEF JobRow
  <1>6. JobOK(k)
    BY <1>5 DEF JobOK
  <1>7. command' = [command EXCEPT ![p] = k] /\ past' = [past EXCEPT !.torn = Torn(p, k.document)]
    BY <1>3, <1>5 DEF Detach
  <1>8. /\ command' \in [Commands -> JobRow] /\ \A q \in Commands : JobOK(command'[q])
        /\ command'[p] = k
    BY <1>1, <1>5, <1>6, <1>7, JobStep
  <1>9. past' \in PastRow
    BY <1>1, <1>4, <1>5, <1>7, TornType DEF Types, PastRow
  <1>10. Open' # {}
    BY <1>1, <1>5, <1>8, SomebodyOpen
  <1>11. BackupsOK' /\ copies' \subseteq Documents
    BY <1>1 DEF Types, BackupsOK
  <1>12. Types'
    BY <1>1, <1>8, <1>9, <1>10, <1>11, StillTyped
  <1>13. \A s \in Attached : s.id = k.id => s.mode = k.mode
    BY <1>2, <1>5
  <1>14. CopiesOK'
    BY <1>1, <1>4, <1>5, <1>7, <1>13, Takes
  <1>15. QED
    BY <1>12, <1>14 DEF StoreIInv

LEMMA CopyStep ==
  ASSUME StoreIInv, NEW p \in Commands, Copy(p)
  PROVE  StoreIInv'
  <1>1. /\ Types /\ CopiesOK /\ Does(p, "copy") /\ UNCHANGED <<main, wal, backups, past>>
        /\ copies' = copies \cup {command[p].document} /\ Goes(p, "insert")
    BY DEF StoreIInv, Copy
  <1>2. /\ command' \in [Commands -> JobRow] /\ \A q \in Commands : JobOK(command'[q])
        /\ command'[p].at = "insert" /\ OthersKept(p)
        /\ command'[p].document = command[p].document /\ command'[p].mode = command[p].mode
    BY <1>1, GoesStep
  <1>3. command[p].document \in Documents /\ command[p].mode = "file"
    BY <1>1 DEF Types, JobOK, Does
  <1>4. Open' # {}
    BY <1>1, <1>2, SomebodyOpen
  <1>5. BackupsOK' /\ copies' \subseteq Documents /\ past' \in PastRow
    BY <1>1, <1>3 DEF Types, BackupsOK
  <1>6. Types' /\ Attached' = Attached
    BY <1>1, <1>2, <1>4, <1>5, StillTyped
  <1>7. Handled(p)' \subseteq Handled(p) /\ Excused' = Excused
    BY <1>1, <1>2 DEF Handled, Excused
  <1>8. ~\E d : HalfDone(p, d)
    BY <1>1 DEF HalfDone, Does
  <1>9. ASSUME NEW d, Kept(d) PROVE Kept(d)' \/ HalfDone(p, d)'
    <2>1. CASE d = command[p].document
      BY <1>2, <1>3, <2>1 DEF HalfDone
    <2>2. CASE d # command[p].document
      BY <1>1, <1>6, <1>9, <2>2 DEF Kept
    <2>3. QED
      BY <2>1, <2>2
  <1>10. CopiesOK'
    BY <1>1, <1>2, <1>6, <1>7, <1>8, <1>9, Moves
  <1>11. QED
    BY <1>6, <1>10 DEF StoreIInv

LEMMA UnlinkStep ==
  ASSUME StoreIInv, NEW p \in Commands, Unlink(p)
  PROVE  StoreIInv'
  <1>1. /\ Types /\ CopiesOK /\ Does(p, "unlink") /\ UNCHANGED <<main, wal, backups>>
        /\ copies' = copies \ {command[p].document} /\ Goes(p, "record")
        /\ past' = [past EXCEPT !.shared = @ \cup ({command[p].document} \cap InFileMode(Attached))]
    BY DEF StoreIInv, Unlink, Unlinked
  <1>2. /\ command' \in [Commands -> JobRow] /\ \A q \in Commands : JobOK(command'[q])
        /\ command'[p].at = "record" /\ OthersKept(p)
        /\ command'[p].document = command[p].document
    BY <1>1, GoesStep
  <1>3. Open' # {}
    BY <1>1, <1>2, SomebodyOpen
  <1>4. InFileMode(Attached) \subseteq Documents
    BY <1>1, ContentFacts DEF Types, Good, Attached, Table, AttachmentRow, InFileMode
  <1>5. /\ past' \in PastRow /\ past'.torn = past.torn
        /\ past'.shared = past.shared \cup ({command[p].document} \cap InFileMode(Attached))
    BY <1>1, <1>4 DEF Types, PastRow
  <1>6. BackupsOK' /\ copies' \subseteq Documents
    BY <1>1 DEF Types, BackupsOK
  <1>7. Types' /\ Attached' = Attached
    BY <1>1, <1>2, <1>3, <1>5, <1>6, StillTyped
  <1>8. Handled(p)' \subseteq Handled(p)
    BY <1>2 DEF Handled
  <1>9. copies \ copies' \subseteq Handled(p)
    BY <1>1 DEF Types, Handled
  <1>10. ASSUME NEW d \in Documents \ Excused', Kept(d) \/ HalfDone(p, d)
         PROVE  Kept(d)'
    <2>1. CASE d = command[p].document
      <3>1. d \notin InFileMode(Attached) /\ d \notin copies'
        BY <1>1, <1>5, <2>1 DEF Excused
      <3>2. QED
        BY <1>7, <3>1 DEF Kept
    <2>2. CASE d # command[p].document
      BY <1>1, <1>7, <1>10, <2>2 DEF Kept, HalfDone
    <2>3. QED
      BY <2>1, <2>2
  <1>11. past.torn \subseteq past'.torn /\ past.shared \subseteq past'.shared
    BY <1>5
  <1>12. CopiesOK'
    BY <1>1, <1>2, <1>7, <1>8, <1>9, <1>10, <1>11, Moves
  <1>13. QED
    BY <1>7, <1>12 DEF StoreIInv


\* Steps that commit a page.
LEMMA WroteTyped ==
  ASSUME Types, NEW page \in Pages, NEW c, Write(page, c), main' = main,
         page = "attachments" => c \in Table /\ Numbered(c),
         page = "rest" => c \in Nat,
         copies' = copies, backups' = backups, past' \in PastRow,
         command' \in [Commands -> JobRow], \A q \in Commands : JobOK(command'[q]), Open' # {}
  PROVE  /\ Types'
         /\ page = "attachments" => Attached' = c.rows
         /\ page = "rest" => Attached' = Attached /\ \A d : Kept(d)' <=> Kept(d)
  <1>1. /\ DOMAIN wal' \subseteq Pages /\ Good(Visible')
        /\ page = "attachments" => Attached' = c.rows
        /\ page = "rest" => Attached' = Attached
    BY Writing
  <1>2. \A q \in Commands : JobOK(command'[q])
    OBVIOUS
  <1>3. Types'
    BY <1>1, <1>2 DEF Types
  <1>4. QED
    BY <1>1, <1>3 DEF Kept

LEMMA InsertStep ==
  ASSUME StoreIInv, NEW p \in Commands, Insert(p)
  PROVE  StoreIInv'
  <1>1. Types /\ CopiesOK /\ Does(p, "insert") /\ Goes(p, "record") /\ UNCHANGED <<main, copies, backups, past>>
    BY DEF StoreIInv, Insert
  <1>2. /\ command' \in [Commands -> JobRow] /\ \A q \in Commands : JobOK(command'[q])
        /\ command'[p].at = "record" /\ OthersKept(p)
        /\ command'[p].document = command[p].document
    BY <1>1, GoesStep
  <1>3. PICK last : last = Visible["attachments"].last
    OBVIOUS
  <1>4. Visible["attachments"] \in Table /\ Numbered(Visible["attachments"])
    BY <1>1, ContentFacts DEF Types, Good
  <1>5. last \in Nat /\ Attached \subseteq AttachmentRow /\ \A r \in Attached : r.id <= last
    BY <1>3, <1>4 DEF Table, Numbered, Attached
  <1>6. \A r, s \in Attached : r.id = s.id => r = s
    BY <1>4 DEF Numbered, Attached
  <1>7. PICK row : row = [id |-> last + 1, ref |-> command[p].ref, document |-> command[p].document,
                          mode |-> command[p].mode]
    OBVIOUS
  <1>8. command[p].ref \in Owners /\ command[p].document \in Documents /\ command[p].mode \in {"db", "file"}
    BY <1>1 DEF Types, JobOK, Does
  <1>9. row \in AttachmentRow /\ row.id = last + 1
    BY <1>5, <1>7, <1>8 DEF AttachmentRow
  <1>10. PICK c : c = [rows |-> Attached \cup {row}, last |-> last + 1]
    OBVIOUS
  <1>11. c \in Table /\ c.rows = Attached \cup {row} /\ c.last = last + 1
    BY <1>5, <1>9, <1>10 DEF Table
  <1>12. Numbered(c)
    <2>1. \A r \in Attached : r.id # row.id /\ r.id <= last + 1
      BY <1>5, <1>9 DEF AttachmentRow
    <2>2. row.id <= c.last
      BY <1>5, <1>9, <1>11
    <2>3. ASSUME NEW r \in c.rows PROVE r.id <= c.last /\ \A s \in c.rows : r.id = s.id => r = s
      BY <1>6, <1>11, <2>1, <2>2
    <2>4. QED
      BY <2>3 DEF Numbered
  <1>13. Write("attachments", c)
    BY <1>3, <1>7, <1>10 DEF Insert
  <1>14. Open' # {} /\ past' \in PastRow
    BY <1>1, <1>2, SomebodyOpen DEF Types
  <1>15. Types' /\ Attached' = Attached \cup {row}
    BY <1>1, <1>2, <1>11, <1>12, <1>13, <1>14, WroteTyped DEF Pages
  <1>16. Handled(p)' = Handled(p) /\ Excused' = Excused
    BY <1>1, <1>2 DEF Handled, Excused
  <1>17. row.document = command[p].document /\ row.mode = command[p].mode /\ row.document \in Handled(p)
    BY <1>7, <1>8 DEF Handled
  <1>18. ASSUME NEW d \in Documents \ Excused', Kept(d) \/ HalfDone(p, d)
         PROVE  Kept(d)'
    <2>1. CASE d = row.document /\ row.mode = "file"
      <3>1. d \in copies
        BY <1>1, <1>16, <1>17, <1>18, <2>1 DEF CopiesOK, Does
      <3>2. d \in InFileMode(Attached')
        BY <1>15, <2>1 DEF InFileMode
      <3>3. QED
        BY <1>1, <3>1, <3>2 DEF Kept
    <2>2. CASE ~(d = row.document /\ row.mode = "file")
      <3>1. ~HalfDone(p, d)
        BY <1>1, <1>17, <2>2 DEF HalfDone, Does
      <3>2. d \in InFileMode(Attached') <=> d \in InFileMode(Attached)
        BY <1>15, <2>2 DEF InFileMode
      <3>3. QED
        BY <1>1, <1>18, <3>1, <3>2 DEF Kept
    <2>3. QED
      BY <2>1, <2>2
  <1>19. \A r \in Attached' : r \in Attached \/ r.document \in Handled(p)
    BY <1>15, <1>17
  <1>20. CopiesOK'
    BY <1>1, <1>2, <1>16, <1>18, <1>19, Moves
  <1>21. QED
    BY <1>15, <1>20 DEF StoreIInv

LEMMA DeleteStep ==
  ASSUME StoreIInv, NEW p \in Commands, Delete(p)
  PROVE  StoreIInv'
  <1>1. PICK gone : gone = {row \in Attached : row.id = command[p].id}
    OBVIOUS
  <1>2. PICK step : step = IF command[p].mode = "file" THEN "unlink" ELSE "record"
    OBVIOUS
  <1>3. /\ Types /\ CopiesOK /\ Does(p, "delete") /\ Goes(p, step) /\ UNCHANGED <<main, copies, backups>>
        /\ past' = [past EXCEPT !.torn = @ \cup ({row.document : row \in gone} \ {command[p].document})]
    BY <1>1, <1>2 DEF StoreIInv, Delete
  <1>4. /\ command' \in [Commands -> JobRow] /\ \A q \in Commands : JobOK(command'[q])
        /\ command'[p].at = step /\ OthersKept(p)
        /\ command'[p].document = command[p].document
    BY <1>2, <1>3, GoesStep
  <1>5. PICK last : last = Visible["attachments"].last
    OBVIOUS
  <1>6. Visible["attachments"] \in Table /\ Numbered(Visible["attachments"])
    BY <1>3, ContentFacts DEF Types, Good
  <1>7. last \in Nat /\ Attached \subseteq AttachmentRow
    BY <1>5, <1>6 DEF Table, Attached
  <1>8. PICK c : c = [rows |-> Attached \ gone, last |-> last]
    OBVIOUS
  <1>9. c \in Table /\ c.rows = Attached \ gone /\ c.last = last
    BY <1>7, <1>8 DEF Table
  <1>10. Numbered(c)
    BY <1>5, <1>6, <1>9 DEF Numbered, Attached
  <1>11. Write("attachments", c)
    BY <1>1, <1>5, <1>8 DEF Delete
  <1>12. {row.document : row \in gone} \subseteq Documents
    BY <1>1, <1>7 DEF AttachmentRow
  <1>13. /\ past' \in PastRow /\ past'.shared = past.shared
         /\ past'.torn = past.torn \cup ({row.document : row \in gone} \ {command[p].document})
    BY <1>3, <1>12 DEF Types, PastRow
  <1>14. Open' # {}
    BY <1>2, <1>3, <1>4, SomebodyOpen
  <1>15. Types' /\ Attached' = Attached \ gone
    BY <1>3, <1>4, <1>9, <1>10, <1>11, <1>13, <1>14, WroteTyped DEF Pages
  <1>16. Handled(p)' = Handled(p) /\ past.torn \subseteq Excused' /\ Excused \subseteq Excused'
    BY <1>4, <1>13 DEF Handled, Excused
  <1>17. ASSUME NEW d \in Documents \ Excused', Kept(d)
         PROVE  Kept(d)' \/ HalfDone(p, d)'
    <2>1. CASE d = command[p].document /\ command[p].mode = "file"
      BY <1>2, <1>4, <2>1 DEF HalfDone
    <2>2. CASE d = command[p].document /\ command[p].mode # "file"
      <3>1. \A row \in gone : row.document = d => row.mode # "file"
        BY <1>1, <1>3, <1>16, <1>17, <2>2 DEF CopiesOK, Does
      <3>2. d \in InFileMode(Attached') <=> d \in InFileMode(Attached)
        BY <1>15, <3>1 DEF InFileMode
      <3>3. QED
        BY <1>3, <1>17, <3>2 DEF Kept
    <2>3. CASE d # command[p].document
      <3>1. \A row \in gone : row.document # d
        BY <1>13, <1>17, <2>3 DEF Excused
      <3>2. d \in InFileMode(Attached') <=> d \in InFileMode(Attached)
        BY <1>15, <3>1 DEF InFileMode
      <3>3. QED
        BY <1>3, <1>17, <3>2 DEF Kept
    <2>4. QED
      BY <2>1, <2>2, <2>3
  <1>18. \A d : ~HalfDone(p, d)
    BY <1>3 DEF HalfDone, Does
  <1>19. /\ \A r \in Attached' : r \in Attached
         /\ command'[p].at \notin {"insert", "delete"} /\ copies \ copies' = {}
    BY <1>2, <1>3, <1>4, <1>15
  <1>20. CopiesOK'
    BY <1>3, <1>4, <1>13, <1>16, <1>17, <1>18, <1>19, Moves
  <1>21. QED
    BY <1>15, <1>20 DEF StoreIInv

\* A commit to the rest of the books, by a command that has nothing half done.
LEMMA RestStep ==
  ASSUME StoreIInv, NEW p \in Commands, command[p].at \notin {"insert", "unlink"},
         Write("rest", NewRest), Goes(p, "close"), UNCHANGED <<main, copies, backups, past>>
  PROVE  StoreIInv'
  <1>1. Types /\ CopiesOK
    BY DEF StoreIInv
  <1>2. /\ command' \in [Commands -> JobRow] /\ \A q \in Commands : JobOK(command'[q])
        /\ command'[p].at = "close" /\ OthersKept(p)
        /\ command'[p].document = command[p].document
    BY <1>1, GoesStep
  <1>3. NewRest \in Nat
    <2>1. PICK n : n = past.scope.contents
      OBVIOUS
    <2>2. n \in Nat \ {0}
      BY <1>1, <2>1, StoreAssumption DEF Types, PastRow
    <2>3. PICK m : m = Visible["rest"]
      OBVIOUS
    <2>4. m \in Nat
      BY <1>1, <2>3, ContentFacts DEF Types, Good
    <2>5. NewRest = (m + 1) % n
      BY <2>1, <2>3 DEF NewRest
    <2>6. QED
      BY <2>2, <2>4, <2>5
  <1>4. Open' # {} /\ past' \in PastRow
    BY <1>1, <1>2, SomebodyOpen DEF Types
  <1>5. Types' /\ Attached' = Attached /\ \A d : Kept(d)' <=> Kept(d)
    BY <1>1, <1>2, <1>3, <1>4, WroteTyped DEF Pages
  <1>6. /\ Handled(p)' = Handled(p) /\ \A d : ~HalfDone(p, d)
        /\ past' = past /\ copies' = copies
    BY <1>2 DEF Handled, HalfDone
  <1>7. CopiesOK'
    BY <1>1, <1>2, <1>5, <1>6, Moves
  <1>8. QED
    BY <1>5, <1>7 DEF StoreIInv


LEMMA RecordStep ==
  ASSUME StoreIInv, NEW p \in Commands, RecordBackup(p)
  PROVE  StoreIInv'
  BY RestStep DEF RecordBackup, Does

LEMMA BookStep ==
  ASSUME StoreIInv, NEW p \in Commands, Book(p)
  PROVE  StoreIInv'
  BY RestStep DEF Book, Does, Goes

\* Steps that leave the database and the copies alone and let go of documents.
LEMMA LetsGo ==
  ASSUME Types, CopiesOK, NEW p \in Commands, UNCHANGED <<main, wal, copies>>, BackupsOK', past' \in PastRow,
         NEW k \in JobRow, JobOK(k), command' = [command EXCEPT ![p] = k],
         k.document = "none", k.at # "insert", k.at # "delete",
         past.torn \subseteq past'.torn, past.shared \subseteq past'.shared,
         \A d \in Documents \ Excused' : ~HalfDone(p, d),
         Open' = {} /\ ~past'.died => Open = {} /\ ~past.died
  PROVE  StoreIInv'
  <1>1. /\ command' \in [Commands -> JobRow] /\ \A q \in Commands : JobOK(command'[q])
        /\ command'[p] = k /\ OthersKept(p)
    BY JobStep
  <1>2. copies' \subseteq Documents /\ copies' = copies
    BY DEF Types
  <1>3. Types' /\ Attached' = Attached /\ \A d : Kept(d)' <=> Kept(d)
    BY <1>1, <1>2, StillTyped
  <1>4. Handled(p)' = {}
    BY <1>1, StoreAssumption DEF Handled
  <1>5. Handled(p)' \subseteq Handled(p) /\ copies \ copies' = {} /\ command'[p].at \notin {"insert", "delete"}
    BY <1>1, <1>2, <1>4
  <1>6. CopiesOK'
    BY <1>1, <1>3, <1>5, Moves
  <1>7. QED
    BY <1>3, <1>6 DEF StoreIInv

LEMMA FreeHasNothing ==
  ASSUME NEW p, Does(p, "free") \/ Does(p, "prune") \/ Does(p, "close") \/ Does(p, "overwrite")
  PROVE  \A d : ~HalfDone(p, d)
  BY DEF Does, HalfDone

LEMMA CopiedOnce ==
  ASSUME Types, past' = [past EXCEPT !.copied = @ + 1]
  PROVE  past' \in PastRow /\ past'.torn = past.torn /\ past'.shared = past.shared /\ past'.died = past.died
  <1>1. PICK q \in PastRow : q = past
    BY DEF Types
  <1>2. PICK n \in Nat : n = q.copied + 1
    BY DEF PastRow
  <1>3. past' = [q EXCEPT !.copied = n]
    BY <1>1, <1>2
  <1>4. QED
    BY <1>1, <1>3 DEF PastRow

LEMMA BackupStep ==
  ASSUME StoreIInv, NEW p \in Commands, NEW key \in Keys, NEW keep \in Keeps, Backup(p, key, keep)
  PROVE  StoreIInv'
  <1>1. /\ Types /\ CopiesOK /\ Does(p, "free") /\ UNCHANGED <<main, wal, copies>>
        /\ past' = [past EXCEPT !.copied = @ + 1]
    BY DEF StoreIInv, Backup
  <1>2. PICK v : v = Visible
    OBVIOUS
  <1>3. Good(v) /\ v \in Content
    BY <1>1, <1>2 DEF Types, Good
  <1>4. PICK b : b = [content |-> v, taken |-> v, key |-> key]
    OBVIOUS
  <1>5. b \in BackupRow /\ b.content = v /\ b.taken = v
    BY <1>3, <1>4 DEF BackupRow
  <1>6. backups' = Append(backups, b)
    BY <1>2, <1>4 DEF Backup, Sealed, Snapshot
  <1>7. PICK bs \in Seq(BackupRow) : bs = backups
    BY <1>1 DEF Types
  <1>8. PICK bn \in Seq(BackupRow) : bn = backups' /\ DOMAIN bn = 1..Len(bs) + 1
                                     /\ bn[Len(bs) + 1] = b /\ \A i \in 1..Len(bs) : bn[i] = bs[i]
    <2>1. PICK bn : bn = Append(bs, b)
      OBVIOUS
    <2>2. /\ bn \in Seq(BackupRow) /\ Len(bn) = Len(bs) + 1 /\ bn[Len(bs) + 1] = b
          /\ \A i \in 1..Len(bs) : bn[i] = bs[i]
      BY <1>5, <1>7, <2>1
    <2>3. DOMAIN bn = 1..Len(bs) + 1
      BY <2>2
    <2>4. QED
      BY <1>6, <1>7, <2>1, <2>2, <2>3
  <1>9. \A i \in DOMAIN bs : Good(bs[i].content) /\ bs[i].content = bs[i].taken
    BY <1>1, <1>7 DEF Types
  <1>10. BackupsOK'
    <2>1. ASSUME NEW i \in DOMAIN bn PROVE Good(bn[i].content) /\ bn[i].content = bn[i].taken
      <3>1. CASE i \in 1..Len(bs)
        BY <1>7, <1>8, <1>9, <3>1
      <3>2. CASE i = Len(bs) + 1
        <4>1. bn[i] = b
          BY <1>8, <3>2
        <4>2. QED
          BY <1>3, <1>5, <4>1
      <3>3. QED
        BY <1>7, <1>8, <3>1, <3>2
    <2>2. QED
      BY <1>8, <2>1 DEF BackupsOK
  <1>11. PICK k : k = [Free EXCEPT !.at = "record", !.keep = keep]
    OBVIOUS
  <1>12. k \in JobRow /\ k.at = "record" /\ k.document = "none"
    BY <1>11, FreeFacts DEF JobRow
  <1>13. JobOK(k)
    BY <1>12 DEF JobOK
  <1>14. command' = [command EXCEPT ![p] = k]
    BY <1>11 DEF Backup
  <1>15. past' \in PastRow /\ past'.torn = past.torn /\ past'.shared = past.shared /\ past'.died = past.died
    BY <1>1, CopiedOnce
  <1>16. Open' # {}
    <2>1. command' \in [Commands -> JobRow] /\ command'[p] = k
      BY <1>1, <1>12, <1>13, <1>14, JobStep
    <2>2. QED
      BY <1>1, <1>12, <2>1, SomebodyOpen
  <1>17. QED
    BY <1>1, <1>10, <1>12, <1>13, <1>14, <1>15, <1>16, FreeHasNothing, LetsGo

LEMMA PruneStep ==
  ASSUME StoreIInv, NEW p \in Commands, Prune(p)
  PROVE  StoreIInv'
  <1>1. /\ Types /\ CopiesOK /\ Does(p, "prune") /\ UNCHANGED <<main, wal, copies, past>>
        /\ command' = [command EXCEPT ![p] = Free]
    BY DEF StoreIInv, Prune
  <1>2. PICK keep : keep = command[p].keep
    OBVIOUS
  <1>3. keep \in Nat
    <2>1. command[p] \in JobRow
      BY <1>1 DEF Types
    <2>2. keep \in Keeps \cup {0}
      BY <1>2, <2>1 DEF JobRow
    <2>3. Keeps \subseteq Nat
      BY StoreAssumption, Zenon
    <2>4. QED
      BY <2>2, <2>3
  <1>4. PICK bs \in Seq(BackupRow) : bs = backups
    BY <1>1 DEF Types
  <1>5. \A i \in DOMAIN bs : Good(bs[i].content) /\ bs[i].content = bs[i].taken
    BY <1>1, <1>4 DEF Types
  <1>6. BackupsOK'
    <2>1. CASE Len(bs) < keep
      BY <1>1, <1>2, <1>4, <2>1 DEF Prune, Panics, Types, BackupsOK
    <2>2. CASE ~(Len(bs) < keep)
      <3>1. PICK first, size : first = Len(bs) - keep + 1 /\ size = Len(bs)
        OBVIOUS
      <3>2. size \in Nat /\ first \in 1..size + 1 /\ DOMAIN bs = 1..size
        BY <1>3, <1>4, <2>2, <3>1
      <3>3. PICK bn : bn = SubSeq(bs, first, size)
        OBVIOUS
      <3>4. backups' = bn
        BY <1>2, <1>4, <2>2, <3>1, <3>3 DEF Prune, Panics, Pruned
      <3>5. \A i \in first..size : bs[i] \in BackupRow
        BY <1>4, <3>2
      <3>6. first \in Int /\ size \in Int
        BY <3>2
      <3>7. /\ bn \in Seq(BackupRow) /\ Len(bn) = IF first <= size THEN size - first + 1 ELSE 0
            /\ \A i \in 1..size - first + 1 : bn[i] = bs[first + i - 1]
        BY <3>3, <3>5, <3>6, SubSeqProperties
      <3>8. DOMAIN bn = 1..size - first + 1
        BY <3>2, <3>7
      <3>9. ASSUME NEW i \in DOMAIN bn PROVE Good(bn[i].content) /\ bn[i].content = bn[i].taken
        <4>1. bn[i] = bs[first + i - 1] /\ first + i - 1 \in 1..size
          BY <3>2, <3>7, <3>8, <3>9
        <4>2. QED
          BY <1>5, <3>2, <4>1
      <3>10. QED
        BY <3>4, <3>7, <3>9 DEF BackupsOK
    <2>3. QED
      BY <2>1, <2>2
  <1>7. Open' = {} => Open = {}
    BY <1>1 DEF Open, Types, Does
  <1>8. past' = past /\ past' \in PastRow
    BY <1>1 DEF Types
  <1>9. Free.at # "insert" /\ Free.at # "delete"
    BY FreeFacts
  <1>10. QED
    BY <1>1, <1>6, <1>7, <1>8, <1>9, FreeFacts, FreeHasNothing, LetsGo

LEMMA RestoreStep ==
  ASSUME StoreIInv, NEW p \in Commands, NEW k \in DOMAIN backups, NEW key \in Keys, Restore(p, k, key)
  PROVE  StoreIInv'
  <1>1. /\ Types /\ CopiesOK /\ Does(p, "free") /\ UNCHANGED <<main, wal, copies, backups>>
        /\ past' = [past EXCEPT !.copied = @ + 1]
    BY DEF StoreIInv, Restore
  <1>2. PICK b \in BackupRow : b = backups[k] /\ Good(b.content) /\ b.content = b.taken
    BY <1>1 DEF Types
  <1>3. PICK j : j = [Free EXCEPT !.at = "overwrite", !.content = b.content, !.taken = b.taken]
    OBVIOUS
  <1>4. /\ j \in JobRow /\ j.at = "overwrite" /\ j.document = "none"
        /\ j.content = b.content /\ j.taken = b.taken
    BY <1>2, <1>3, FreeFacts DEF JobRow, BackupRow
  <1>5. JobOK(j)
    BY <1>2, <1>4 DEF JobOK
  <1>6. command' = [command EXCEPT ![p] = j]
    BY <1>2, <1>3 DEF Restore
  <1>7. Open' = Open
    BY <1>1, <1>4, <1>6 DEF Open, Types, Does
  <1>8. past' \in PastRow /\ past'.torn = past.torn /\ past'.shared = past.shared /\ past'.died = past.died
    BY <1>1, CopiedOnce
  <1>9. BackupsOK'
    BY <1>1 DEF Types, BackupsOK
  <1>10. QED
    BY <1>1, <1>4, <1>5, <1>6, <1>7, <1>8, <1>9, FreeHasNothing, LetsGo

LEMMA KillStep ==
  ASSUME StoreIInv, NEW p \in Commands, Kill(p)
  PROVE  StoreIInv'
  <1>1. /\ Types /\ CopiesOK /\ UNCHANGED <<main, wal, copies, backups>>
        /\ command' = [command EXCEPT ![p] = Free]
        /\ past' = [past EXCEPT !.died = @ \/ p \in Open, !.half = @ \/ Does(p, "fill"), !.torn = @ \cup Handled(p)]
    BY DEF StoreIInv, Kill
  <1>2. /\ past' \in PastRow /\ past'.torn = past.torn \cup Handled(p) /\ past'.shared = past.shared
        /\ past'.died <=> past.died \/ p \in Open
    BY <1>1 DEF Types, PastRow, Handled
  <1>3. \A d \in Documents \ Excused' : ~HalfDone(p, d)
    BY <1>2 DEF Excused, Handled, HalfDone
  <1>4. BackupsOK'
    BY <1>1 DEF Types, BackupsOK
  <1>5. Free.at # "insert" /\ Free.at # "delete"
    BY FreeFacts
  <1>6. Open' = {} /\ ~past'.died => Open = {} /\ ~past.died
    <2>1. \A q \in Commands \ {p} : command'[q] = command[q]
      BY <1>1 DEF Types
    <2>2. Open \ {p} \subseteq Open'
      BY <2>1 DEF Open
    <2>3. QED
      BY <1>2, <2>2
  <1>7. QED
    BY <1>1, <1>2, <1>3, <1>4, <1>5, <1>6, FreeFacts, LetsGo

LEMMA TruncateStep ==
  ASSUME StoreIInv, NEW p \in Commands, Truncate(p)
  PROVE  StoreIInv'
  <1>1. /\ Types /\ CopiesOK /\ Does(p, "overwrite") /\ UNCHANGED <<main, wal, copies, backups, past>>
        /\ Goes(p, "fill")
    BY DEF StoreIInv, Truncate
  <1>2. /\ command' \in [Commands -> JobRow] /\ \A q \in Commands : JobOK(command'[q])
        /\ command'[p].at = "fill" /\ OthersKept(p)
        /\ command'[p].document = command[p].document
    BY <1>1, GoesStep
  <1>3. Open' = Open
    BY <1>1, <1>2 DEF Open, Does, OthersKept
  <1>4. BackupsOK' /\ copies' \subseteq Documents /\ past' \in PastRow
    BY <1>1 DEF Types, BackupsOK
  <1>5. Types' /\ Attached' = Attached /\ \A d : Kept(d)' <=> Kept(d)
    BY <1>1, <1>2, <1>3, <1>4, StillTyped
  <1>6. Handled(p)' = Handled(p) /\ Excused' = Excused /\ \A d : ~HalfDone(p, d)
    BY <1>1, <1>2 DEF Handled, Excused, HalfDone, Does
  <1>7. CopiesOK'
    BY <1>1, <1>2, <1>5, <1>6, Moves
  <1>8. QED
    BY <1>5, <1>7 DEF StoreIInv

LEMMA OverwriteStep ==
  ASSUME StoreIInv, NEW p \in Commands, Overwrite(p)
  PROVE  StoreIInv'
  <1>1. PICK c, after : c = command[p].content /\ after = c["attachments"].rows
    OBVIOUS
  <1>2. PICK differ : differ = {row.document : row \in (Attached \ after) \cup (after \ Attached)}
    OBVIOUS
  <1>3. /\ Types /\ CopiesOK /\ Does(p, "fill") /\ main' = c /\ UNCHANGED <<wal, copies, backups>>
        /\ Goes(p, "restored") /\ past' = [past EXCEPT !.torn = @ \cup differ, !.half = FALSE]
    BY <1>1, <1>2 DEF StoreIInv, Overwrite
  <1>4. /\ command' \in [Commands -> JobRow] /\ \A q \in Commands : JobOK(command'[q])
        /\ command'[p].at = "restored" /\ OthersKept(p)
        /\ command'[p].document = command[p].document
    BY <1>3, GoesStep
  <1>5. Good(c)
    BY <1>1, <1>3 DEF Types, JobOK, Does
  <1>6. /\ c \in Content /\ c["attachments"] \in Table /\ Numbered(c["attachments"]) /\ c["rest"] \in Nat
        /\ Visible["attachments"] \in Table /\ Numbered(Visible["attachments"]) /\ Visible["rest"] \in Nat
    BY <1>3, <1>5, ContentFacts DEF Types, Good
  <1>7. Visible' = [x \in Pages |-> IF x \in DOMAIN wal THEN wal[x] ELSE c[x]]
    BY <1>3 DEF Visible
  <1>8. Visible = [x \in Pages |-> IF x \in DOMAIN wal THEN wal[x] ELSE main[x]]
    BY DEF Visible
  <1>9. \A x \in Pages : Visible'[x] = Visible[x] \/ Visible'[x] = c[x]
    BY <1>7, <1>8
  <1>10. PICK v : v = Visible' /\ v = [x \in Pages |-> v[x]]
    BY <1>7
  <1>11. v["attachments"] \in Table /\ v["rest"] \in Nat /\ Numbered(v["attachments"])
    BY <1>6, <1>9, <1>10 DEF Pages
  <1>12. Good(v)
    BY <1>10, <1>11, ContentFacts DEF Good
  <1>13. Attached' = Attached \/ Attached' = after
    <2>1. Attached' = v["attachments"].rows
      BY <1>10 DEF Attached
    <2>2. v["attachments"] = Visible["attachments"] \/ v["attachments"] = c["attachments"]
      BY <1>9, <1>10 DEF Pages
    <2>3. QED
      BY <1>1, <2>1, <2>2 DEF Attached
  <1>14. differ \subseteq Documents
    <2>1. Attached \subseteq AttachmentRow /\ after \subseteq AttachmentRow
      BY <1>1, <1>6 DEF Attached, Table
    <2>2. QED
      BY <1>2, <2>1 DEF AttachmentRow
  <1>15. past' \in PastRow /\ past'.shared = past.shared /\ past'.torn = past.torn \cup differ
    BY <1>3, <1>14 DEF Types, PastRow
  <1>16. Open' # {}
    BY <1>3, <1>4, SomebodyOpen
  <1>17. Types'
    <2>1. \A q \in Commands : JobOK(command'[q])
      BY <1>4
    <2>2. Good(Visible')
      BY <1>10, <1>12
    <2>3. /\ main' \in Content /\ DOMAIN wal' \subseteq Pages /\ copies' \subseteq Documents
          /\ backups' \in Seq(BackupRow)
          /\ \A k \in DOMAIN backups' : Good(backups'[k].content) /\ backups'[k].content = backups'[k].taken
      BY <1>3, <1>6 DEF Types
    <2>4. QED
      BY <1>4, <1>15, <1>16, <2>1, <2>2, <2>3 DEF Types
  <1>18. Handled(p)' = Handled(p) /\ \A d : ~HalfDone(p, d)
    BY <1>3, <1>4 DEF Handled, HalfDone, Does
  <1>19. \A row \in Attached' : row \in Attached \/ row.document \in Excused'
    BY <1>2, <1>13, <1>15 DEF Excused
  <1>20. ASSUME NEW d \in Documents \ Excused', Kept(d)
         PROVE  Kept(d)'
    <2>1. \A row \in (Attached \ after) \cup (after \ Attached) : row.document # d
      BY <1>2, <1>15, <1>20 DEF Excused
    <2>2. d \in InFileMode(Attached') <=> d \in InFileMode(Attached)
      BY <1>13, <2>1 DEF InFileMode
    <2>3. QED
      BY <1>3, <1>20, <2>2 DEF Kept
  <1>21. CopiesOK'
    BY <1>3, <1>4, <1>15, <1>18, <1>19, <1>20, Moves
  <1>22. QED
    BY <1>17, <1>21 DEF StoreIInv

LEMMA CloseStep ==
  ASSUME StoreIInv, NEW p \in Commands, Close(p)
  PROVE  StoreIInv'
  <1>1. Types /\ CopiesOK /\ Does(p, "close") /\ UNCHANGED <<copies, backups>>
    BY DEF StoreIInv, Close
  <1>2. PICK j \in JobRow : j = command[p] /\ j.at = "close"
    BY <1>1 DEF Types, Does
  <1>3. PICK k : k = IF j.keep > 0 THEN [j EXCEPT !.at = "prune"] ELSE Free
    OBVIOUS
  <1>4. /\ k \in JobRow /\ k.at \in {"prune", "free"} /\ k.document \in {j.document, "none"}
    <2>1. CASE j.keep > 0
      <3>1. PICK m : m = [j EXCEPT !.at = "prune"]
        OBVIOUS
      <3>2. m \in JobRow /\ m.at = "prune" /\ m.document = j.document
        BY <3>1 DEF JobRow
      <3>3. QED
        BY <1>3, <2>1, <3>1, <3>2
    <2>2. CASE ~(j.keep > 0)
      BY <1>3, <2>2, FreeFacts
    <2>3. QED
      BY <2>1, <2>2
  <1>5. JobOK(k)
    <2>1. k.at = "free" => k = Free
      BY <1>3, <1>4, FreeFacts DEF JobRow
    <2>2. QED
      BY <1>4, <2>1 DEF JobOK
  <1>6. command' = [command EXCEPT ![p] = k]
    BY <1>2, <1>3 DEF Close
  <1>7. /\ command' \in [Commands -> JobRow] /\ \A q \in Commands : JobOK(command'[q])
        /\ command'[p] = k /\ OthersKept(p)
    BY <1>1, <1>4, <1>5, <1>6, JobStep
  <1>8. /\ past' \in PastRow /\ past'.shared = past.shared /\ past'.torn = past.torn
        /\ main' \in Content /\ DOMAIN wal' \subseteq Pages /\ Visible' = Visible
        /\ Open' = {} /\ ~past'.died => DOMAIN wal' = {}
    <2>1. CASE Open = {p}
      <3>1. main' = Visible /\ wal' = << >> /\ past' = [past EXCEPT !.died = FALSE]
        BY <2>1 DEF Close
      <3>2. DOMAIN wal' = {}
        BY <3>1
      <3>3. Visible' = [x \in Pages |-> main'[x]]
        BY <3>2 DEF Visible
      <3>4. PICK v : v = Visible
        OBVIOUS
      <3>5. v \in Content /\ v = [x \in Pages |-> v[x]]
        BY <1>1, <3>4, ContentFacts DEF Types, Good
      <3>6. Visible' = v
        BY <3>1, <3>3, <3>4, <3>5
      <3>7. past' \in PastRow /\ past'.shared = past.shared /\ past'.torn = past.torn
        BY <1>1, <3>1 DEF Types, PastRow
      <3>8. QED
        BY <3>1, <3>2, <3>4, <3>5, <3>6, <3>7
    <2>2. CASE Open # {p}
      <3>1. UNCHANGED <<main, wal, past>>
        BY <2>2 DEF Close
      <3>2. p \in Open
        BY <1>1 DEF Open, Does
      <3>3. PICK q \in Open : q # p
        BY <2>2, <3>2
      <3>4. q \in Open'
        BY <1>7, <3>3 DEF Open, OthersKept
      <3>5. Visible' = Visible
        BY <3>1 DEF Visible
      <3>6. QED
        BY <1>1, <3>1, <3>4, <3>5 DEF Types
    <2>3. QED
      BY <2>1, <2>2
  <1>9. Attached' = Attached /\ \A d : Kept(d)' <=> Kept(d)
    BY <1>1, <1>8 DEF Attached, Kept
  <1>10. Types'
    <2>1. \A q \in Commands : JobOK(command'[q])
      BY <1>7
    <2>2. Good(Visible')
      BY <1>1, <1>8 DEF Types
    <2>3. /\ copies' \subseteq Documents /\ backups' \in Seq(BackupRow)
          /\ \A i \in DOMAIN backups' : Good(backups'[i].content) /\ backups'[i].content = backups'[i].taken
      BY <1>1 DEF Types
    <2>4. QED
      BY <1>7, <1>8, <2>1, <2>2, <2>3 DEF Types
  <1>11. Handled(p)' \subseteq Handled(p)
    <2>1. command'[p].document = command[p].document \/ command'[p].document = "none"
      BY <1>2, <1>4, <1>7
    <2>2. QED
      BY <2>1, StoreAssumption DEF Handled
  <1>12. /\ \A d : ~HalfDone(p, d)
         /\ command'[p].at \notin {"insert", "delete"} /\ copies \ copies' = {} /\ Excused' = Excused
    BY <1>1, <1>4, <1>7, <1>8, FreeHasNothing DEF Excused
  <1>13. CopiesOK'
    BY <1>1, <1>7, <1>8, <1>9, <1>11, <1>12, Moves
  <1>14. QED
    BY <1>10, <1>13 DEF StoreIInv

----------------------------------------------------------------------------------
(* The invariant. *)

LEMMA InitStoreIInv == StoreInit => StoreIInv
  <1> SUFFICES ASSUME StoreInit PROVE StoreIInv
    OBVIOUS
  <1>1. PICK scope \in Scopes : past = [shared |-> {}, torn |-> {}, died |-> FALSE, half |-> FALSE,
                                        copied |-> 0, scope |-> scope]
    BY DEF StoreInit
  <1>2. past \in PastRow
    BY <1>1 DEF PastRow
  <1>3. PICK t : t = [rows |-> {}, last |-> 0]
    OBVIOUS
  <1>4. t \in Table /\ Numbered(t) /\ t.rows = {}
    BY <1>3 DEF Table, Numbered
  <1>5. main = [page \in Pages |-> IF page = "rest" THEN 0 ELSE t] /\ wal = << >>
    BY <1>3 DEF StoreInit
  <1>6. DOMAIN wal = {}
    BY <1>5
  <1>7. Visible = main
    BY <1>5, <1>6 DEF Visible
  <1>8. Good(main) /\ main \in Content
    <2>1. main["attachments"] = t /\ main["rest"] = 0 /\ main = [page \in Pages |-> main[page]]
      BY <1>5 DEF Pages
    <2>2. QED
      BY <1>4, <2>1, ContentFacts DEF Good
  <1>9. Attached = {}
    BY <1>4, <1>5, <1>7 DEF Attached, Pages
  <1>10. command = [p \in Commands |-> Free] /\ copies = {} /\ backups = << >>
    BY DEF StoreInit
  <1>11. Types
    <2>1. command \in [Commands -> JobRow] /\ \A p \in Commands : JobOK(command[p])
      BY <1>10, FreeFacts
    <2>2. backups \in Seq(BackupRow) /\ DOMAIN backups = {}
      BY <1>10
    <2>3. QED
      BY <1>2, <1>6, <1>7, <1>8, <1>10, <2>1, <2>2 DEF Types
  <1>12. \A p \in Commands : Handled(p) = {} /\ command[p].at = "free"
    BY <1>10, FreeFacts, StoreAssumption DEF Handled
  <1>13. \A d : Kept(d)
    BY <1>9, <1>10 DEF Kept, InFileMode
  <1>14. CopiesOK
    BY <1>12, <1>13 DEF CopiesOK
  <1>15. QED
    BY <1>11, <1>14 DEF StoreIInv

LEMMA StutterIInv ==
  ASSUME StoreIInv, UNCHANGED storeVars
  PROVE  StoreIInv'
  <1>1. Types /\ CopiesOK /\ UNCHANGED <<main, wal, copies, backups, command, past>>
    BY DEF StoreIInv, storeVars
  <1>2. Open' = Open
    BY <1>1 DEF Open
  <1>3. BackupsOK' /\ copies' \subseteq Documents
    BY <1>1 DEF Types, BackupsOK
  <1>4. past' \in PastRow /\ command' \in [Commands -> JobRow] /\ \A q \in Commands : JobOK(command'[q])
    BY <1>1 DEF Types
  <1>5. Types' /\ Attached' = Attached /\ \A d : Kept(d)' <=> Kept(d)
    BY <1>1, <1>2, <1>3, <1>4, StillTyped
  <1>6. /\ Excused' = Excused
        /\ \A p \in Commands : Handled(p)' = Handled(p) /\ \A d : HalfDone(p, d)' <=> HalfDone(p, d)
    BY <1>1 DEF Excused, Handled, HalfDone
  <1>7. CopiesOK'
    BY <1>1, <1>5, <1>6 DEF CopiesOK
  <1>8. QED
    BY <1>5, <1>7 DEF StoreIInv

LEMMA NextStoreIInv ==
  ASSUME StoreIInv, StoreNext
  PROVE  StoreIInv'
  <1>1. PICK p \in past.scope.users : Run(p)
    BY DEF StoreNext
  <1>2. p \in Commands
    <2>1. past.scope \in Scopes
      BY DEF StoreIInv, Types, PastRow
    <2>2. past.scope.users \cup past.scope.mortal \subseteq Commands
      BY <2>1, StoreAssumption, Zenon
    <2>3. QED
      BY <2>2
  <1>3. CASE \E ref \in Owners, document \in Documents, mode \in {"db", "file"} : Add(p, ref, document, mode)
    BY <1>2, <1>3, AddStep
  <1>4. CASE \E row \in Attached : Detach(p, row)
    BY <1>2, <1>4, DetachStep
  <1>5. CASE Copy(p) \/ Insert(p) \/ Delete(p) \/ Unlink(p)
    BY <1>2, <1>5, CopyStep, InsertStep, DeleteStep, UnlinkStep
  <1>6. CASE \E key \in Keys, keep \in Keeps : Backup(p, key, keep)
    BY <1>2, <1>6, BackupStep
  <1>7. CASE \E k \in DOMAIN backups, key \in Keys : Restore(p, k, key)
    BY <1>2, <1>7, RestoreStep
  <1>8. CASE Truncate(p) \/ Overwrite(p) \/ Prune(p) \/ RecordBackup(p)
    BY <1>2, <1>8, TruncateStep, OverwriteStep, PruneStep, RecordStep
  <1>9. CASE Close(p) \/ Book(p) \/ Kill(p)
    BY <1>2, <1>9, CloseStep, BookStep, KillStep
  <1>10. QED
    BY <1>1, <1>3, <1>4, <1>5, <1>6, <1>7, <1>8, <1>9 DEF Run

LEMMA Invariance == StoreSpec => []StoreIInv
  <1>1. StoreIInv /\ [StoreNext]_storeVars => StoreIInv'
    BY NextStoreIInv, StutterIInv
  <1>2. QED
    BY InitStoreIInv, <1>1, PTL DEF StoreSpec


----------------------------------------------------------------------------------
(***************************************************************************)
(* Types: the books' tables, the WAL's pages, the backups and what each    *)
(* process is doing stay well formed, whatever dies or is restored.        *)
(***************************************************************************)
THEOREM StoreTypeCorrect == StoreSpec => []StoreTypeOK
  <1>1. StoreIInv => StoreTypeOK
    BY DEF StoreIInv, Types, Good, StoreTypeOK, BackupRow, JobRow, PastRow, JobOK, Does
  <1>2. QED
    BY Invariance, <1>1, PTL

(***************************************************************************)
(* A document stored as a file has a copy exactly as long as some row      *)
(* points to it, unless it is excused: attach add and remove, at any       *)
(* number of processes (src/attachments.rs).                               *)
(***************************************************************************)
THEOREM CopiesStayWithRows == StoreSpec => []CopiesKept
  <1>1. StoreIInv => CopiesKept
    <2> SUFFICES ASSUME StoreIInv, NEW d \in Settled
                 PROVE  Kept(d)
      BY DEF CopiesKept, Kept
    <2>1. d \in Documents \ Excused /\ \A p \in Commands : d \notin Handled(p)
      BY DEF Settled, Excused
    <2>2. \A p \in Commands : ~HalfDone(p, d)
      BY <2>1 DEF HalfDone, Handled
    <2>3. QED
      BY <2>1, <2>2 DEF StoreIInv, CopiesOK
  <1>2. QED
    BY Invariance, <1>1, PTL

(***************************************************************************)
(* A restore brings back what was taken, when nobody else has the database *)
(* open or restores too and nobody died since the WAL was removed: only    *)
(* then is the WAL gone for certain (restore, src/backup.rs).              *)
(***************************************************************************)
THEOREM RestoresBringBack == StoreSpec => RestoredAsTaken
  <1>1. ASSUME StoreIInv, [StoreNext]_storeVars, NEW p \in Commands, Overwrite(p), Alone(p)
        PROVE  Visible' = command[p].taken
    <2>1. Types /\ Does(p, "fill") /\ main' = command[p].content /\ wal' = wal
      BY <1>1 DEF StoreIInv, Overwrite
    <2>2. Open = {}
      BY <1>1, <2>1 DEF Alone, Open, Does
    <2>3. DOMAIN wal = {}
      BY <1>1, <2>1, <2>2 DEF Types, Alone
    <2>4. PICK c : c = command[p].content /\ c = command[p].taken /\ Good(c)
      BY <2>1 DEF Types, JobOK, Does
    <2>5. c = [page \in Pages |-> c[page]]
      BY <2>4, ContentFacts DEF Good
    <2>6. Visible' = [page \in Pages |-> c[page]]
      BY <2>1, <2>3, <2>4 DEF Visible
    <2>7. QED
      BY <2>4, <2>5, <2>6
  <1>2. StoreIInv /\ [StoreNext]_storeVars
          => [\A p \in Commands : Overwrite(p) /\ Alone(p) => Visible' = command[p].taken]_storeVars
    BY <1>1
  <1>3. QED
    BY Invariance, <1>2, PTL DEF StoreSpec, RestoredAsTaken

----------------------------------------------------------------------------------
(***************************************************************************)
(* Gate: type correctness needs to know what every process holds.          *)
(***************************************************************************)
Places == {"idle", "verify", "remember", "authorise", "run", "enrol", "imply", "own", "unrole",
          "mint", "spend"}

EnvelopeRow == [at : Places, surface : {"cli", "mcp", "server"}, actor : Actors \cup {Nobody},
           cmd : Command \cup {[verb |-> "none"]}, bundle : Nat, enforce : BOOLEAN,
           verified : BOOLEAN, key : Nat, token : Nat, read : Seq(BOOLEAN)]

\* A bundle in hand is one of those signed, for this actor and this command;
\* a token in hand one of those made.
EnvelopeOK(j, bundles, made, keys) ==
  /\ j \in EnvelopeRow
  /\ j.at # "idle" => j.actor \in Actors
  /\ j.at \notin {"idle", "mint"} => j.cmd \in Command
  /\ j.at = "unrole" => j.cmd.verb = "ungrant"
  /\ j.at = "enrol" => j.key \in 1..keys
  /\ j.verified \/ j.at \in {"verify", "remember"} => j.bundle # 0
  /\ j.bundle # 0 => /\ j.bundle \in DOMAIN bundles
                     /\ bundles[j.bundle].actor = j.actor
                     /\ bundles[j.bundle].cmd = j.cmd
  /\ Len(j.read) <= made
  /\ j.token \in 0..made
  /\ j.at = "spend" => j.token \in DOMAIN j.read

WorkOK ==
  /\ work \in [Workers -> EnvelopeRow]
  /\ \A w \in Workers : EnvelopeOK(work[w], signed, Len(spent), bounds.keys)

\* What TypeOK leaves out.
StateOK ==
  /\ bounds \in Scenarios
  /\ enforce \in BOOLEAN /\ authz \in BOOLEAN
  /\ file \in [Actors -> Nat] /\ session \in [Actors -> Nat]
  /\ clock \in 0..bounds.ticks
  /\ \A b \in DOMAIN signed : signed[b].ts <= clock + Skew
  /\ ran \in Seq(Nat) /\ spent \in Seq(Nat)

GateTypes == GateTypeOK /\ StateOK /\ WorkOK

----------------------------------------------------------------------------------
(* What the four safety properties need, each as long as nothing of its own *)
(* kind was troubled.                                                       *)

\* A process that holds a bundle no verification has consumed yet.
Verifying(w, b) == work[w].at \in {"verify", "remember"} /\ work[w].bundle = b

Verified(w, b) == work[w].verified /\ work[w].bundle = b

Remembered(b) == \E n \in nonces : n.bundle = b

\* A bundle signed with nobody to ask for its key.
Unchecked(b) == <<"unchecked", b>> \in troubled

\* It is under verification once, or it is remembered or too old or was never
\* to be verified; and it ran, or a process still has it, but not both.
BundleOnce(b) ==
  /\ \A w, v \in Workers : Verifying(w, b) /\ Verifying(v, b) => w = v
  /\ \A w, v \in Workers : Verified(w, b) /\ Verified(v, b) => w = v
  /\ ran[b] <= 1
  /\ ran[b] = 1 => \A w \in Workers : ~Verified(w, b)
  /\ \A w \in Workers : Verifying(w, b) /\ At(w, "remember") =>
       ran[b] = 0 /\ \A v \in Workers : ~Verified(v, b)
  /\ (ran[b] = 1 \/ \E w \in Workers : Verified(w, b)) =>
       Remembered(b) \/ signed[b].ts < clock - Window \/ Unchecked(b)
  /\ Unchecked(b) => b \notin sent /\ \A w \in Workers : ~Verifying(w, b)

BundlesOnce ==
  /\ \A b : Unchecked(b) => b \in DOMAIN signed
  /\ \A n \in nonces : signed[n.bundle].ts <= n.at + Window
  /\ \A b \in DOMAIN signed : <<"bundle", b>> \notin troubled => BundleOnce(b)

\* The key that signed a bundle has a row of its actor.
KeyKnown(b) == \E i \in KeyRows(signed[b].actor) : registry[i].key = signed[b].key

Vouched(b) == KeyKnown(b) \/ Unchecked(b)

Provable ==
  /\ \A w \in Workers : work[w].verified \/ At(w, "remember") => Vouched(work[w].bundle)
  /\ \A r \in auditLog : r.checked =>
       /\ Vouched(r.bundle)
       /\ r.actor = signed[r.bundle].actor
       /\ r.cmd = signed[r.bundle].cmd

Enrolling(w, a) == At(w, "enrol") /\ work[w].actor = a

ActorOnce(a) ==
  /\ \A i, j \in ActiveKeys(a) : i = j
  /\ \A w, v \in Workers : Enrolling(w, a) /\ Enrolling(v, a) => w = v
  /\ \A w \in Workers : Enrolling(w, a) => ActiveKeys(a) = {}

\* A token in hand was spent and has not enrolled anybody.
Redeeming(w, t) == ~At(w, "spend") /\ work[w].token = t

TokensOnce ==
  /\ Len(tokens) = Len(spent)
  /\ \A w, v \in Workers : work[w].at \in TokenStep /\ work[v].at \in TokenStep => w = v
  /\ \A w \in Workers : work[w].at \in TokenStep => work[w].read = tokens
  /\ \A w \in Workers : At(w, "spend") => ~tokens[work[w].token]
  /\ \A t \in DOMAIN tokens :
       /\ spent[t] <= 1
       /\ \A w, v \in Workers : Redeeming(w, t) /\ Redeeming(v, t) => w = v
       /\ \A w \in Workers : Redeeming(w, t) => tokens[t] /\ spent[t] = 0
       /\ ~tokens[t] => spent[t] = 0

ActorsOnce == \A a \in Actors : <<"actor", a>> \notin troubled => ActorOnce(a)

TokensKept == <<"tokens", 0>> \notin troubled => TokensOnce

Dismissing(w) == At(w, "unrole") /\ work[w].cmd.role = "owner"

\* An owner is dismissed while there is another.
OwnersStay ==
  <<"owners", 0>> \notin troubled =>
    /\ authz => OwnerActors # {} \/ \E w \in Workers : work[w].at \in {"imply", "own"}
    /\ \A w, v \in Workers : Dismissing(w) /\ Dismissing(v) => w = v
    /\ \A w \in Workers : Dismissing(w) => OwnerActors \ {work[w].cmd.target} # {}

----------------------------------------------------------------------------------
(* Type correctness. *)

LEMMA ScenarioTypes ==
  ASSUME bounds \in Scenarios
  PROVE  /\ bounds.enrolled \subseteq bounds.actors /\ bounds.actors \subseteq Actors
         /\ bounds.local \subseteq Command /\ bounds.posted \subseteq Command
         /\ bounds.keys \in Nat /\ bounds.signed \in Nat /\ bounds.ticks \in Nat /\ bounds.tokens \in Nat
         /\ Window \in Nat /\ Retention \in Nat /\ Skew \in 0..Window
         /\ Cardinality(bounds.enrolled) <= (IF bounds.keys = 0 THEN 0 ELSE 1)
         /\ Nobody \notin Actors /\ TokenActor \in Actors /\ "owner" \in Roles
  BY GateAssumption DEF ScenarioOK

\* What only ever grows.
Grows ==
  /\ \A b \in DOMAIN signed : b \in DOMAIN signed' /\ signed'[b] = signed[b]
  /\ Len(spent) <= Len(spent')
  /\ bounds' = bounds

LEMMA WorkStep ==
  ASSUME WorkOK, Grows, spent \in Seq(Nat), spent' \in Seq(Nat), NEW w \in Workers, NEW j,
         work' = [work EXCEPT ![w] = j],
         EnvelopeOK(j, signed', Len(spent'), bounds'.keys)
  PROVE  WorkOK'
  <1>1. ASSUME NEW v \in Workers
        PROVE  EnvelopeOK(work'[v], signed', Len(spent'), bounds'.keys)
    <2>1. CASE v = w
      BY <2>1 DEF WorkOK
    <2>2. CASE v # w
      <3>1. work'[v] = work[v] /\ EnvelopeOK(work[v], signed, Len(spent), bounds.keys)
        BY <2>2 DEF WorkOK
      <3>2. Len(spent) \in Nat /\ Len(spent') \in Nat
        OBVIOUS
      <3>3. QED
        BY <3>1, <3>2 DEF EnvelopeOK, Grows, EnvelopeRow
    <2>3. QED
      BY <2>1, <2>2
  <1>2. work' \in [Workers -> EnvelopeRow]
    BY DEF WorkOK, EnvelopeOK
  <1>3. QED
    BY <1>1, <1>2 DEF WorkOK

\* The process without a command.
LEMMA IdleOK ==
  ASSUME NEW bundles, NEW made \in Nat, NEW keys
  PROVE  EnvelopeOK(Idle, bundles, made, keys)
  <1>1. << >> \in Seq(BOOLEAN) /\ Len(<< >>) = 0
    OBVIOUS
  <1>2. Idle \in EnvelopeRow
    BY <1>1 DEF Idle, EnvelopeRow, Places
  <1>3. QED
    BY <1>1, <1>2 DEF EnvelopeOK, Idle

LEMMA FinishTypes ==
  ASSUME WorkOK, Grows, spent \in Seq(Nat), spent' \in Seq(Nat), NEW w \in Workers, Finish(w)
  PROVE  WorkOK'
  <1>1. EnvelopeOK(Idle, signed', Len(spent'), bounds'.keys)
    BY IdleOK
  <1>2. QED
    BY <1>1, WorkStep DEF Finish

LEMMA GoTypes ==
  ASSUME WorkOK, Grows, spent \in Seq(Nat), spent' \in Seq(Nat), NEW w \in Workers,
         work[w].at \notin {"idle", "mint"},
         NEW where \in {"remember", "authorise", "run", "imply", "own", "unrole"}, Go(w, where),
         where = "remember" => At(w, "verify"),
         where = "unrole" => work[w].cmd.verb = "ungrant"
  PROVE  WorkOK'
  <1> DEFINE j == [work[w] EXCEPT !.at = where]
  <1>1. work[w] \in EnvelopeRow /\ EnvelopeOK(work[w], signed, Len(spent), bounds.keys)
    BY DEF WorkOK
  <1>2. j \in EnvelopeRow
    BY <1>1 DEF EnvelopeRow, Places
  <1>3. /\ j.at = where /\ j.actor = work[w].actor /\ j.cmd = work[w].cmd /\ j.key = work[w].key
        /\ j.verified = work[w].verified /\ j.bundle = work[w].bundle /\ j.read = work[w].read
        /\ j.token = work[w].token
    BY <1>1 DEF EnvelopeRow
  <1>4. Len(spent) \in Nat /\ Len(spent') \in Nat
    OBVIOUS
  <1>5. EnvelopeOK(j, signed', Len(spent'), bounds'.keys)
    BY <1>1, <1>2, <1>3, <1>4 DEF EnvelopeOK, Grows, At, EnvelopeRow
  <1>6. work' = [work EXCEPT ![w] = j]
    BY DEF Go
  <1>7. QED
    BY <1>5, <1>6, WorkStep

LEMMA RecordTypes ==
  ASSUME GateTypes, NEW w \in Workers, RecordSigned(w)
  PROVE  /\ ran' \in Seq(Nat) /\ DOMAIN ran' = DOMAIN ran
         /\ \A r \in auditLog' : r.bundle \in DOMAIN signed
  <1>1. EnvelopeOK(work[w], signed, Len(spent), bounds.keys) /\ ran \in Seq(Nat) /\ DOMAIN ran = DOMAIN signed
    BY DEF GateTypes, WorkOK, StateOK, GateTypeOK
  <1>2. CASE work[w].verified
    <2>1. work[w].bundle \in DOMAIN ran
      BY <1>1, <1>2 DEF EnvelopeOK
    <2>2. ran' = [ran EXCEPT ![work[w].bundle] = @ + 1]
      BY <1>2 DEF RecordSigned
    <2>3. ran' \in Seq(Nat) /\ DOMAIN ran' = DOMAIN ran
      BY <1>1, <2>1, <2>2
    <2>4. \A r \in auditLog' : r \in auditLog \/ r.bundle = work[w].bundle
      BY DEF RecordSigned
    <2>5. QED
      BY <1>1, <2>1, <2>3, <2>4 DEF GateTypes, GateTypeOK
  <1>3. CASE ~work[w].verified
    <2>1. ran' = ran
      BY <1>3 DEF RecordSigned
    <2>2. \A r \in auditLog' : r \in auditLog \/ (r.bundle = work[w].bundle /\ work[w].bundle # 0)
      BY <1>3 DEF RecordSigned
    <2>3. QED
      BY <1>1, <2>1, <2>2 DEF GateTypes, GateTypeOK, EnvelopeOK
  <1>4. QED
    BY <1>2, <1>3

\* A step that changes nothing but what processes do.
LEMMA StateKept ==
  ASSUME GateTypeOK, StateOK,
         UNCHANGED <<database, auditLog, file, session, nonces, tokens, signed, sent, clock, ran, spent, bounds>>
  PROVE  GateTypeOK' /\ StateOK'
  BY DEF GateTypeOK, StateOK, database, KeyRow, Bundle

\* A step that records its command and changes roles and settings.
LEMMA StateRecorded ==
  ASSUME GateTypeOK, StateOK, ran' \in Seq(Nat), DOMAIN ran' = DOMAIN ran,
         \A r \in auditLog' : r.bundle \in DOMAIN signed, base' \in {"none", "empty", "company"},
         roles' \subseteq Actors \X Roles, enforce' \in BOOLEAN, authz' \in BOOLEAN,
         UNCHANGED <<registry, file, session, nonces, tokens, signed, sent, clock, spent, bounds>>
  PROVE  GateTypeOK' /\ StateOK'
  BY DEF GateTypeOK, StateOK, KeyRow, Bundle

LEMMA GrowsKept ==
  ASSUME UNCHANGED <<signed, spent, bounds>>, spent \in Seq(Nat)
  PROVE  Grows /\ spent' \in Seq(Nat)
  <1>1. Len(spent) \in Nat
    OBVIOUS
  <1>2. QED
    BY <1>1 DEF Grows

\* One more signature.
LEMMA SignTypes ==
  ASSUME GateTypeOK, StateOK, NEW a \in bounds.actors, NEW c \in bounds.local \cup bounds.posted,
         NEW k \in 0..bounds.keys, NEW ts \in 0..(clock + Skew), Sign(a, c, k, ts),
         ran' = Append(ran, 0),
         sent' = sent \/ sent' = sent \cup {Len(signed) + 1},
         UNCHANGED <<database, auditLog, file, session, nonces, tokens, clock, spent, bounds>>
  PROVE  GateTypeOK' /\ StateOK' /\ Grows /\ spent' \in Seq(Nat)
  <1> DEFINE row == [actor |-> a, cmd |-> c, key |-> k, ts |-> ts]
  <1>0. clock \in 0..bounds.ticks /\ Skew \in Nat /\ bounds.ticks \in Nat
    BY ScenarioTypes DEF StateOK
  <1>1. row \in Bundle
    BY <1>0 DEF Bundle
  <1>2. signed' = Append(signed, row) /\ signed \in Seq(Bundle)
    BY DEF Sign, GateTypeOK
  <1>3. /\ signed' \in Seq(Bundle) /\ Len(signed') = Len(signed) + 1
        /\ \A b \in DOMAIN signed : b \in DOMAIN signed' /\ signed'[b] = signed[b]
        /\ signed'[Len(signed) + 1] = row /\ DOMAIN signed' = DOMAIN signed \cup {Len(signed) + 1}
    BY <1>1, <1>2
  <1>4. ran' \in Seq(Nat) /\ DOMAIN ran' = DOMAIN signed'
    <2>1. ran \in Seq(Nat) /\ Len(ran) = Len(signed)
      BY DEF GateTypeOK, StateOK
    <2>2. QED
      BY <1>2, <2>1
  <1>5. \A b \in DOMAIN signed' : signed'[b].ts <= clock + Skew
    BY <1>0, <1>3 DEF StateOK
  <1>6. Bundle' = Bundle /\ KeyRow' = KeyRow
    BY DEF Bundle, KeyRow
  <1>7. GateTypeOK'
    BY <1>3, <1>4, <1>6 DEF GateTypeOK, database
  <1>8. StateOK'
    BY <1>3, <1>4, <1>5 DEF StateOK, database
  <1>9. Grows
    <2>1. Len(spent) \in Nat
      BY DEF StateOK
    <2>2. QED
      BY <1>3, <2>1 DEF Grows
  <1>10. QED
    BY <1>7, <1>8, <1>9 DEF StateOK

\* What a process takes up when it was idle.
LEMMA BeginTypes ==
  ASSUME WorkOK, Grows, spent \in Seq(Nat), spent' \in Seq(Nat), NEW w \in Workers, NEW j,
         Begin(w, j), EnvelopeOK(j, signed', Len(spent'), bounds'.keys)
  PROVE  WorkOK'
  BY WorkStep DEF Begin

LEMMA JobTypes ==
  ASSUME NEW at \in Places, NEW surface \in {"cli", "mcp", "server"}, NEW a \in Actors,
         NEW c \in Command \cup {[verb |-> "none"]}, enforce \in BOOLEAN
  PROVE  /\ Job(at, surface, a, c) \in EnvelopeRow
         /\ Job(at, surface, a, c).at = at /\ Job(at, surface, a, c).actor = a
         /\ Job(at, surface, a, c).cmd = c
         /\ Job(at, surface, a, c).bundle = 0 /\ Job(at, surface, a, c).token = 0
         /\ Job(at, surface, a, c).read = << >> /\ ~Job(at, surface, a, c).verified
  <1>1. << >> \in Seq(BOOLEAN)
    OBVIOUS
  <1>2. QED
    BY <1>1 DEF Job, Idle, EnvelopeRow

\* The key a command is signed with is one of the actor's.
LEMMA MaterialTypes ==
  ASSUME GateTypeOK, StateOK, NEW a \in bounds.actors
  PROVE  /\ Material(a) > 0 => Material(a) \in 0..bounds.keys
         /\ RemoteMaterial(a) \in 0..bounds.keys
  <1>1. a \in Actors /\ bounds.keys \in Nat
    BY ScenarioTypes DEF StateOK
  <1>2. file[a] \in 0..bounds.keys /\ session[a] \in 0..file[a]
    BY <1>1 DEF GateTypeOK
  <1>3. QED
    BY <1>1, <1>2 DEF Material, RemoteMaterial

LEMMA SignedHereTypes ==
  ASSUME GateTypes, NEW w \in Workers, NEW surface \in {"cli", "mcp"}, NEW a \in bounds.actors,
         NEW c \in bounds.local, SignedHere(w, surface, a, c)
  PROVE  GateTypes'
  <1>1. a \in Actors /\ c \in Command /\ c \in bounds.local \cup bounds.posted /\ Skew \in Nat
    BY ScenarioTypes DEF GateTypes, StateOK
  <1>2. Material(a) \in 0..bounds.keys
    BY MaterialTypes DEF GateTypes, SignedHere
  <1>3. clock \in 0..(clock + Skew)
    BY <1>1, ScenarioTypes DEF GateTypes, StateOK
  <1>4. GateTypeOK' /\ StateOK' /\ Grows /\ spent' \in Seq(Nat)
    BY <1>1, <1>2, <1>3, SignTypes DEF SignedHere, GateTypes
  <1> DEFINE j == [Job("verify", surface, a, c) EXCEPT !.bundle = Len(signed) + 1]
  <1>5. Len(signed) \in Nat /\ signed \in Seq(Bundle) /\ Len(spent') \in Nat
    BY <1>4 DEF GateTypes, GateTypeOK
  <1>6. /\ j \in EnvelopeRow /\ j.at = "verify" /\ j.actor = a /\ j.cmd = c /\ j.bundle = Len(signed) + 1
        /\ j.token = 0 /\ j.read = << >> /\ ~j.verified
    <2>1. PICK k : k = Job("verify", surface, a, c)
      OBVIOUS
    <2>2. j = [k EXCEPT !.bundle = Len(signed) + 1]
      BY <2>1
    <2>3. /\ k \in EnvelopeRow /\ k.at = "verify" /\ k.actor = a /\ k.cmd = c /\ k.token = 0
          /\ k.read = << >> /\ ~k.verified
      BY <1>1, <2>1, JobTypes DEF GateTypes, StateOK, Places
    <2> HIDE DEF j
    <2>4. QED
      BY <1>5, <2>2, <2>3, SMTT(30) DEF EnvelopeRow
  <1>7. /\ Len(signed) + 1 \in DOMAIN signed'
        /\ signed'[Len(signed) + 1].actor = a /\ signed'[Len(signed) + 1].cmd = c
    BY <1>5 DEF SignedHere, Sign
  <1>8. EnvelopeOK(j, signed', Len(spent'), bounds'.keys)
    BY <1>1, <1>5, <1>6, <1>7 DEF EnvelopeOK
  <1>9. Begin(w, j)
    BY DEF SignedHere
  <1>10. WorkOK'
    BY <1>4, <1>8, <1>9, BeginTypes DEF GateTypes, StateOK
  <1>11. QED
    BY <1>4, <1>10 DEF GateTypes

LEMMA SignUncheckedTypes ==
  ASSUME GateTypes, NEW w \in Workers, NEW a \in bounds.actors,
         NEW c \in bounds.local, SignUnchecked(w, a, c)
  PROVE  GateTypes'
  <1>1. a \in Actors /\ c \in Command /\ c \in bounds.local \cup bounds.posted /\ Skew \in Nat
    BY ScenarioTypes DEF GateTypes, StateOK
  <1>2. Material(a) \in 0..bounds.keys
    BY MaterialTypes DEF GateTypes, SignUnchecked
  <1>3. clock \in 0..(clock + Skew)
    BY <1>1, ScenarioTypes DEF GateTypes, StateOK
  <1>4. GateTypeOK' /\ StateOK' /\ Grows /\ spent' \in Seq(Nat)
    BY <1>1, <1>2, <1>3, SignTypes DEF SignUnchecked, GateTypes
  <1> DEFINE j == [Job("run", "cli", a, c) EXCEPT !.bundle = Len(signed) + 1, !.verified = TRUE]
  <1>5. Len(signed) \in Nat /\ signed \in Seq(Bundle) /\ Len(spent') \in Nat
    BY <1>4 DEF GateTypes, GateTypeOK
  <1>6. /\ j \in EnvelopeRow /\ j.at = "run" /\ j.actor = a /\ j.cmd = c /\ j.bundle = Len(signed) + 1
        /\ j.token = 0 /\ j.read = << >>
    <2>1. PICK k : k = Job("run", "cli", a, c)
      OBVIOUS
    <2>2. j = [k EXCEPT !.bundle = Len(signed) + 1, !.verified = TRUE]
      BY <2>1
    <2>3. /\ k \in EnvelopeRow /\ k.at = "run" /\ k.actor = a /\ k.cmd = c /\ k.token = 0
          /\ k.read = << >>
      BY <1>1, <2>1, JobTypes DEF GateTypes, StateOK, Places
    <2> HIDE DEF j
    <2>4. PICK i : i = [k EXCEPT !.bundle = Len(signed) + 1]
      OBVIOUS
    <2>5. /\ i \in EnvelopeRow /\ i.at = "run" /\ i.actor = a /\ i.cmd = c /\ i.bundle = Len(signed) + 1
          /\ i.token = 0 /\ i.read = << >>
      BY <1>5, <2>3, <2>4, SMTT(30) DEF EnvelopeRow
    <2>6. j = [i EXCEPT !.verified = TRUE]
      BY <2>2, <2>3, <2>4 DEF EnvelopeRow
    <2>7. j \in EnvelopeRow
      BY <2>5, <2>6 DEF EnvelopeRow
    <2>8. /\ j.at = i.at /\ j.actor = i.actor /\ j.cmd = i.cmd /\ j.bundle = i.bundle
          /\ j.token = i.token /\ j.read = i.read
      BY <2>5, <2>6 DEF EnvelopeRow
    <2>9. QED
      BY <2>5, <2>7, <2>8
  <1>7. /\ Len(signed) + 1 \in DOMAIN signed'
        /\ signed'[Len(signed) + 1].actor = a /\ signed'[Len(signed) + 1].cmd = c
    BY <1>5 DEF SignUnchecked, Sign
  <1>8. EnvelopeOK(j, signed', Len(spent'), bounds'.keys)
    BY <1>1, <1>5, <1>6, <1>7 DEF EnvelopeOK
  <1>9. Begin(w, j)
    BY DEF SignUnchecked
  <1>10. WorkOK'
    BY <1>4, <1>8, <1>9, BeginTypes DEF GateTypes, StateOK
  <1>11. QED
    BY <1>4, <1>10 DEF GateTypes

LEMMA RunUnsignedTypes ==
  ASSUME GateTypes, NEW w \in Workers, NEW surface \in {"cli", "mcp"}, NEW a \in bounds.actors,
         NEW c \in bounds.local, RunUnsigned(w, surface, a, c)
  PROVE  GateTypes'
  <1>1. GateTypeOK' /\ StateOK'
    BY StateKept DEF RunUnsigned, GateTypes
  <1>2. Grows /\ spent' \in Seq(Nat)
    BY GrowsKept DEF RunUnsigned, GateTypes, StateOK
  <1>3. PICK at \in {"authorise", "run"} : Begin(w, Job(at, surface, a, c))
    BY DEF RunUnsigned
  <1>4. a \in Actors /\ c \in Command /\ Len(spent') \in Nat
    BY <1>2, ScenarioTypes DEF GateTypes, StateOK
  <1>5. EnvelopeOK(Job(at, surface, a, c), signed', Len(spent'), bounds'.keys)
    BY <1>4, JobTypes DEF EnvelopeOK, GateTypes, StateOK, Places
  <1>6. QED
    BY <1>1, <1>2, <1>3, <1>5, BeginTypes DEF GateTypes, StateOK

LEMMA PostEnvelopeTypes ==
  ASSUME GateTypes, NEW a \in bounds.actors, NEW c \in bounds.posted, PostEnvelope(a, c)
  PROVE  GateTypes' /\ Grows
  <1>1. Skew \in Nat /\ clock \in Nat
    BY ScenarioTypes DEF GateTypes, StateOK
  <1>2. PICK s \in 0..Skew : Sign(a, c, RemoteMaterial(a), clock + s)
    BY DEF PostEnvelope
  <1>3. clock + s \in 0..(clock + Skew)
    BY <1>1
  <1>4. GateTypeOK' /\ StateOK' /\ Grows /\ spent' \in Seq(Nat)
    BY <1>2, <1>3, MaterialTypes, SignTypes DEF PostEnvelope, Post, GateTypes
  <1>5. WorkOK'
    <2>1. Len(spent) = Len(spent') /\ work' = work
      BY DEF PostEnvelope
    <2>2. \A v \in Workers : EnvelopeOK(work[v], signed', Len(spent'), bounds'.keys)
      BY <1>4, <2>1 DEF GateTypes, WorkOK, EnvelopeOK, Grows
    <2>3. QED
      BY <2>1, <2>2 DEF GateTypes, WorkOK
  <1>6. QED
    BY <1>4, <1>5 DEF GateTypes

LEMMA DeliverTypes ==
  ASSUME GateTypes, NEW w \in Workers, NEW b \in sent, Deliver(w, b)
  PROVE  GateTypes'
  <1>1. GateTypeOK' /\ StateOK'
    BY StateKept DEF Deliver, GateTypes
  <1>2. Grows /\ spent' \in Seq(Nat)
    BY GrowsKept DEF Deliver, GateTypes, StateOK
  <1>3. b \in DOMAIN signed /\ signed[b] \in Bundle /\ b \in Nat \ {0}
    BY DEF GateTypes, GateTypeOK
  <1>4. signed[b].actor \in Actors /\ signed[b].cmd \in Command
    BY <1>3, ScenarioTypes DEF GateTypes, StateOK, Bundle
  <1>5. PICK at \in {"run", "verify"} :
          Begin(w, [Job(at, "server", signed[b].actor, signed[b].cmd) EXCEPT !.bundle = b])
    BY DEF Deliver
  <1> DEFINE j == [Job(at, "server", signed[b].actor, signed[b].cmd) EXCEPT !.bundle = b]
  <1>6. /\ j \in EnvelopeRow /\ j.at = at /\ j.actor = signed[b].actor /\ j.cmd = signed[b].cmd /\ j.bundle = b
        /\ j.token = 0 /\ j.read = << >> /\ ~j.verified
    <2>1. PICK k : k = Job(at, "server", signed[b].actor, signed[b].cmd)
      OBVIOUS
    <2>2. j = [k EXCEPT !.bundle = b]
      BY <2>1
    <2>3. /\ k \in EnvelopeRow /\ k.at = at /\ k.actor = signed[b].actor /\ k.cmd = signed[b].cmd
          /\ k.token = 0 /\ k.read = << >> /\ ~k.verified
      BY <1>4, <2>1, JobTypes DEF GateTypes, StateOK, Places
    <2> HIDE DEF j
    <2>4. QED
      BY <1>3, <2>2, <2>3 DEF EnvelopeRow
  <1>7. EnvelopeOK(j, signed', Len(spent'), bounds'.keys)
    <2>1. signed' = signed /\ Len(spent') \in Nat
      BY <1>2 DEF Deliver
    <2>2. QED
      BY <1>3, <1>4, <1>6, <2>1 DEF EnvelopeOK
  <1>8. QED
    BY <1>1, <1>2, <1>5, <1>7, BeginTypes DEF GateTypes, StateOK

LEMMA GateStepTypes ==
  ASSUME GateTypes, NEW w \in Workers
  PROVE  /\ VerifyBundle(w) => GateTypes'
         /\ RememberNonce(w) => GateTypes'
         /\ Authorise(w) => GateTypes'
  <1>1. ASSUME VerifyBundle(w) PROVE GateTypes'
    <2>1. GateTypeOK' /\ StateOK' /\ Grows /\ spent' \in Seq(Nat)
      BY <1>1, StateKept, GrowsKept DEF VerifyBundle, GateTypes, StateOK
    <2>2. Go(w, "remember") \/ Go(w, "authorise") \/ Finish(w)
      BY <1>1 DEF VerifyBundle
    <2>3. At(w, "verify") /\ work[w].at = "verify"
      BY <1>1 DEF VerifyBundle, At
    <2>4. QED
      BY <2>1, <2>2, <2>3, GoTypes, FinishTypes DEF GateTypes, StateOK
  <1>2. ASSUME RememberNonce(w) PROVE GateTypes'
    <2>1. Grows /\ spent' \in Seq(Nat)
      BY <1>2, GrowsKept DEF RememberNonce, GateTypes, StateOK
    <2>2. EnvelopeOK(work[w], signed, Len(spent), bounds.keys) /\ work[w].at = "remember" /\ clock \in 0..clock
      BY <1>2, ScenarioTypes DEF RememberNonce, At, GateTypes, WorkOK, StateOK
    <2>3. GateTypeOK' /\ StateOK'
      <3>1. work[w].bundle \in DOMAIN signed
        BY <2>2 DEF EnvelopeOK
      <3>2. \A n \in nonces' : n \in nonces \/ (n.bundle = work[w].bundle /\ n.at = clock)
        BY <1>2 DEF RememberNonce, KeptNonces
      <3>3. \A n \in nonces' : n.bundle \in DOMAIN signed /\ n.at \in 0..clock
        BY <2>2, <3>1, <3>2 DEF GateTypes, GateTypeOK
      <3>4. QED
        BY <1>2, <3>3 DEF RememberNonce, GateTypes, GateTypeOK, StateOK, database, KeyRow, Bundle
    <2> DEFINE j == [work[w] EXCEPT !.at = "authorise", !.verified = TRUE]
    <2>4. work' = [work EXCEPT ![w] = j]
      BY <1>2 DEF RememberNonce
    <2>5. /\ j \in EnvelopeRow /\ j.at = "authorise" /\ j.actor = work[w].actor /\ j.cmd = work[w].cmd
          /\ j.bundle = work[w].bundle /\ j.token = work[w].token /\ j.read = work[w].read
      BY <2>2 DEF EnvelopeOK, EnvelopeRow, Places
    <2>6. signed' = signed /\ bounds' = bounds /\ spent' = spent
      BY <1>2 DEF RememberNonce
    <2>7. EnvelopeOK(j, signed', Len(spent'), bounds'.keys)
      BY <2>2, <2>5, <2>6 DEF EnvelopeOK
    <2>8. WorkOK'
      BY <2>1, <2>4, <2>7, WorkStep DEF GateTypes, StateOK
    <2>9. QED
      BY <2>3, <2>8 DEF GateTypes
  <1>3. ASSUME Authorise(w) PROVE GateTypes'
    <2>1. GateTypeOK' /\ StateOK' /\ Grows /\ spent' \in Seq(Nat)
      BY <1>3, StateKept, GrowsKept DEF Authorise, GateTypes, StateOK
    <2>2. Go(w, "run") \/ Finish(w)
      BY <1>3 DEF Authorise
    <2>3. work[w].at = "authorise"
      BY <1>3 DEF Authorise, At
    <2>4. QED
      BY <2>1, <2>2, <2>3, GoTypes, FinishTypes DEF GateTypes, StateOK
  <1>4. QED
    BY <1>1, <1>2, <1>3

\* A command that runs is one a scenario may hold.
LEMMA CommandTypes ==
  ASSUME GateTypes, NEW w \in Workers, work[w].at \notin {"idle", "mint"}
  PROVE  /\ work[w].actor \in Actors
         /\ work[w].cmd \in Command
         /\ work[w].cmd.verb \in {"grant", "ungrant"} =>
              work[w].cmd.target \in Actors /\ work[w].cmd.role \in Roles
         /\ work[w].cmd.target \in Actors \cup {Nobody}
  BY DEF GateTypes, WorkOK, EnvelopeOK, Command

LEMMA RevokeTypes ==
  ASSUME GateTypes, NEW who, Revoke(who)
  PROVE  /\ registry' \in Seq(KeyRow) /\ Len(registry') = Len(registry)
         /\ \A i \in DOMAIN registry : registry'[i].actor = registry[i].actor
                                       /\ registry'[i].key = registry[i].key
  <1>1. PICK i \in ActorKey(who) : registry' = [registry EXCEPT ![i].revoked = TRUE]
    BY DEF Revoke
  <1>2. i \in DOMAIN registry /\ registry \in Seq(KeyRow) /\ registry[i] \in KeyRow
    BY DEF ActorKey, ActiveKeys, GateTypes, GateTypeOK
  <1>3. [registry[i] EXCEPT !.revoked = TRUE] \in KeyRow
    BY <1>2 DEF KeyRow
  <1>4. registry' = [registry EXCEPT ![i] = [registry[i] EXCEPT !.revoked = TRUE]]
    BY <1>1
  <1>5. registry' \in Seq(KeyRow) /\ Len(registry') = Len(registry)
    BY <1>2, <1>3, <1>4
  <1>6. \A k \in DOMAIN registry : registry[k] \in KeyRow
    BY <1>2
  <1>7. QED
    BY <1>2, <1>4, <1>5, <1>6 DEF KeyRow

LEMMA EnrolTypes ==
  ASSUME GateTypes, NEW w \in Workers, Enrol(w)
  PROVE  GateTypes'
  <1> DEFINE a == work[w].actor
             k == work[w].key
  <1>1. EnvelopeOK(work[w], signed, Len(spent), bounds.keys) /\ a \in Actors /\ k \in 1..bounds.keys
    BY DEF Enrol, At, GateTypes, WorkOK, EnvelopeOK
  <1>2. CASE \E i \in KeyRows(a) : registry[i].key = k
    <2>1. GateTypeOK' /\ StateOK' /\ Grows /\ spent' \in Seq(Nat)
      BY <1>2, StateKept, GrowsKept DEF Enrol, GateTypes, StateOK, database
    <2>2. QED
      BY <2>1, FinishTypes DEF Enrol, GateTypes, StateOK
  <1>3. CASE ~ \E i \in KeyRows(a) : registry[i].key = k
    <2>1. registry' = Append(registry, [actor |-> a, key |-> k, revoked |-> FALSE])
      BY <1>3 DEF Enrol, Enrolled
    <2>2. [actor |-> a, key |-> k, revoked |-> FALSE] \in KeyRow
      BY <1>1 DEF KeyRow
    <2>3. registry' \in Seq(KeyRow) /\ Len(registry') = Len(registry) + 1
      BY <2>1, <2>2 DEF GateTypes, GateTypeOK
    <2>4. /\ \A i \in DOMAIN registry : registry'[i] = registry[i]
          /\ registry'[Len(registry) + 1].actor = a /\ registry'[Len(registry) + 1].key = k
      BY <2>1 DEF GateTypes, GateTypeOK
    <2>5. \A i, j \in DOMAIN registry' :
            registry'[i].actor = registry'[j].actor /\ registry'[i].key = registry'[j].key => i = j
      <3>1. \A i \in DOMAIN registry' : i \in DOMAIN registry \/ i = Len(registry) + 1
        BY <2>3 DEF GateTypes, GateTypeOK
      <3>2. \A i \in DOMAIN registry : registry[i].actor # a \/ registry[i].key # k
        BY <1>3 DEF KeyRows
      <3>3. QED
        BY <2>4, <3>1, <3>2 DEF GateTypes, GateTypeOK
    <2>6. spent' \in Seq(Nat) /\ Len(spent') = Len(spent)
      <3>1. CASE work[w].token = 0
        BY <1>3, <3>1 DEF Enrol, GateTypes, StateOK
      <3>2. CASE work[w].token # 0
        <4>1. work[w].token \in DOMAIN spent /\ spent \in Seq(Nat)
          BY <1>1, <3>2 DEF EnvelopeOK, GateTypes, StateOK
        <4>2. spent' = [spent EXCEPT ![work[w].token] = @ + 1]
          BY <1>3, <3>2 DEF Enrol
        <4>3. QED
          BY <4>1, <4>2
      <3>3. QED
        BY <3>1, <3>2
    <2>7. ran' \in Seq(Nat) /\ DOMAIN ran' = DOMAIN ran /\ \A r \in auditLog' : r.bundle \in DOMAIN signed
      BY <1>3, RecordTypes DEF Enrol
    <2>8. UNCHANGED <<base, roles, enforce, authz, file, session, nonces, tokens, signed, sent, clock, bounds>>
      BY DEF Enrol
    <2>9. KeyRow' = KeyRow /\ Bundle' = Bundle
      BY <2>8 DEF KeyRow, Bundle
    <2>10. GateTypeOK'
      BY <2>3, <2>5, <2>6, <2>7, <2>8, <2>9 DEF GateTypes, GateTypeOK
    <2>11. StateOK'
      BY <2>6, <2>7, <2>8 DEF GateTypes, StateOK
    <2>12. Grows
      <3>1. Len(spent) \in Nat
        BY DEF GateTypes, StateOK
      <3>2. QED
        BY <2>6, <2>8, <3>1 DEF Grows
    <2>13. WorkOK'
      BY <2>6, <2>12, FinishTypes DEF Enrol, GateTypes, StateOK
    <2>14. QED
      BY <2>10, <2>11, <2>13 DEF GateTypes
  <1>4. QED
    BY <1>2, <1>3

LEMMA RevokeKeyTypes ==
  ASSUME GateTypes, NEW w \in Workers, RevokeKey(w)
  PROVE  GateTypes'
  <1>1. Grows /\ spent' \in Seq(Nat) /\ Finish(w)
    BY GrowsKept DEF RevokeKey, GateTypes, StateOK
  <1>2. WorkOK'
    BY <1>1, FinishTypes DEF GateTypes, StateOK
  <1>3. CASE \E who : Revoke(who) /\ RecordSigned(w)
    <2>1. PICK who : Revoke(who) /\ RecordSigned(w)
      BY <1>3
    <2>2. /\ registry' \in Seq(KeyRow) /\ DOMAIN registry' = DOMAIN registry
          /\ \A i \in DOMAIN registry : registry'[i].actor = registry[i].actor
                                        /\ registry'[i].key = registry[i].key
      BY <2>1, RevokeTypes DEF GateTypes, GateTypeOK
    <2>3. ran' \in Seq(Nat) /\ DOMAIN ran' = DOMAIN ran /\ \A r \in auditLog' : r.bundle \in DOMAIN signed
      BY <2>1, RecordTypes
    <2>4. UNCHANGED <<base, roles, enforce, authz, file, session, nonces, tokens, signed, sent, clock, spent, bounds>>
      BY DEF RevokeKey
    <2>5. KeyRow' = KeyRow /\ Bundle' = Bundle
      BY <2>4 DEF KeyRow, Bundle
    <2>6. GateTypeOK'
      BY <2>2, <2>3, <2>4, <2>5 DEF GateTypes, GateTypeOK
    <2>7. QED
      BY <1>2, <2>3, <2>4, <2>6 DEF GateTypes, StateOK
  <1>4. CASE UNCHANGED <<registry, auditLog, ran>>
    BY <1>2, <1>4, StateKept DEF RevokeKey, GateTypes, database
  <1>5. QED
    BY <1>3, <1>4 DEF RevokeKey

\* The handlers that change a role or a setting, or only look.
LEMMA HandlerTypes ==
  ASSUME GateTypes, NEW w \in Workers
  PROVE  /\ BookEntry(w) => GateTypes'
         /\ Register(w) => GateTypes'
         /\ SetEnforce(w) => GateTypes'
         /\ AuthzOn(w) => GateTypes'
         /\ ImplyEnforce(w) => GateTypes'
         /\ OwnFlipper(w) => GateTypes'
         /\ AuthzOff(w) => GateTypes'
         /\ GrantRole(w) => GateTypes'
         /\ RevokeRole(w) => GateTypes'
         /\ DeleteRole(w) => GateTypes'
         /\ NoDatabase(w) => GateTypes'
         /\ InitCompany(w) => GateTypes'
  <1>0. /\ roles \subseteq Actors \X Roles /\ enforce \in BOOLEAN /\ authz \in BOOLEAN
        /\ base \in {"none", "empty", "company"}
    BY DEF GateTypes, GateTypeOK, StateOK
  <1>1. ASSUME BookEntry(w) PROVE GateTypes'
    BY <1>0, <1>1, GrowsKept, FinishTypes, RecordTypes, StateRecorded DEF BookEntry, GateTypes, StateOK, database
  <1>2. ASSUME Register(w) PROVE GateTypes'
    <2>1. GateTypeOK' /\ StateOK' /\ Grows /\ spent' \in Seq(Nat)
      BY <1>2, StateKept, GrowsKept DEF Register, GateTypes, StateOK
    <2>2. CASE Finish(w)
      BY <2>1, <2>2, FinishTypes DEF GateTypes, StateOK
    <2>3. CASE ~Finish(w)
      <3> DEFINE a == work[w].actor
                 j == [work[w] EXCEPT !.at = "enrol", !.key = file[a]]
      <3>1. file[a] # 0 /\ work' = [work EXCEPT ![w] = j]
        <4>1. file[a] # 0 /\ work' = [work EXCEPT ![w].at = "enrol", ![w].key = file[a]]
          BY <1>2, <2>3 DEF Register
        <4>2. work \in [Workers -> EnvelopeRow]
          BY DEF GateTypes, WorkOK
        <4> DEFINE n == file[a]
        <4>3. work' = [work EXCEPT ![w].at = "enrol", ![w].key = n]
          BY <4>1
        <4> HIDE DEF n
        <4>4. work' = [work EXCEPT ![w] = [work[w] EXCEPT !.at = "enrol", !.key = n]]
          BY <4>2, <4>3 DEF EnvelopeRow
        <4>5. QED
          BY <4>1, <4>4 DEF n
      <3>2. EnvelopeOK(work[w], signed, Len(spent), bounds.keys) /\ a \in Actors /\ work[w].at = "run"
        BY <1>2, CommandTypes DEF Register, Performs, At, GateTypes, WorkOK
      <3>3. file[a] \in 1..bounds.keys /\ file[a] \in Nat
        <4>1. file[a] # 0
          BY <3>1
        <4>2. file[a] \in 0..bounds.keys /\ bounds.keys \in Nat
          BY <3>2, ScenarioTypes DEF GateTypes, GateTypeOK, StateOK
        <4>3. QED
          BY <4>1, <4>2
      <3>4. /\ j \in EnvelopeRow /\ j.at = "enrol" /\ j.actor = a /\ j.cmd = work[w].cmd /\ j.key = file[a]
            /\ j.verified = work[w].verified /\ j.bundle = work[w].bundle
            /\ j.token = work[w].token /\ j.read = work[w].read
        <4>1. work[w] \in EnvelopeRow
          BY <3>2 DEF EnvelopeOK
        <4> DEFINE n == file[a]
        <4>2. n \in Nat /\ j = [work[w] EXCEPT !.at = "enrol", !.key = n] /\ n = file[a]
          BY <3>3
        <4> HIDE DEF j, n
        <4>3. /\ j \in EnvelopeRow /\ j.at = "enrol" /\ j.actor = work[w].actor /\ j.cmd = work[w].cmd
              /\ j.key = n /\ j.verified = work[w].verified /\ j.bundle = work[w].bundle
              /\ j.token = work[w].token /\ j.read = work[w].read
          BY <4>1, <4>2 DEF EnvelopeRow, Places
        <4>4. QED
          BY <4>2, <4>3
      <3>5. signed' = signed /\ bounds' = bounds /\ spent' = spent
        BY <1>2 DEF Register
      <3>6. EnvelopeOK(j, signed', Len(spent'), bounds'.keys)
        BY <3>2, <3>3, <3>4, <3>5 DEF EnvelopeOK
      <3>7. WorkOK'
        BY <2>1, <3>1, <3>6, WorkStep DEF GateTypes, StateOK
      <3>8. QED
        BY <2>1, <3>7 DEF GateTypes
    <2>4. QED
      BY <2>2, <2>3
  <1>3. ASSUME SetEnforce(w) PROVE GateTypes'
    BY <1>0, <1>3, GrowsKept, FinishTypes, RecordTypes, StateRecorded DEF SetEnforce, GateTypes, StateOK
  <1>4. ASSUME AuthzOn(w) PROVE GateTypes'
    <2>1. GateTypeOK' /\ StateOK'
      BY <1>4, StateRecorded DEF AuthzOn, GateTypes, GateTypeOK, StateOK
    <2>2. work[w].at = "run"
      BY <1>4 DEF AuthzOn, Performs, At
    <2>3. QED
      BY <1>4, <2>1, <2>2, GrowsKept, GoTypes DEF AuthzOn, GateTypes, StateOK
  <1>5. ASSUME ImplyEnforce(w) PROVE GateTypes'
    <2>1. GateTypeOK' /\ StateOK'
      BY <1>5, StateRecorded DEF ImplyEnforce, GateTypes, GateTypeOK, StateOK
    <2>2. work[w].at = "imply"
      BY <1>5 DEF ImplyEnforce, At
    <2>3. QED
      BY <1>5, <2>1, <2>2, GrowsKept, GoTypes DEF ImplyEnforce, GateTypes, StateOK
  <1>6. ASSUME OwnFlipper(w) PROVE GateTypes'
    <2>1. roles' \subseteq Actors \X Roles
      BY <1>0, <1>6, CommandTypes, GateAssumption DEF OwnFlipper, Grant, At
    <2>2. QED
      BY <1>0, <1>6, <2>1, GrowsKept, FinishTypes, RecordTypes, StateRecorded
      DEF OwnFlipper, GateTypes, StateOK
  <1>7. ASSUME AuthzOff(w) PROVE GateTypes'
    BY <1>0, <1>7, GrowsKept, FinishTypes, RecordTypes, StateRecorded DEF AuthzOff, GateTypes, StateOK
  <1>8. ASSUME GrantRole(w) PROVE GateTypes'
    <2>1. roles' \subseteq Actors \X Roles
      BY <1>0, <1>8, CommandTypes DEF GrantRole, Grant, Performs, At
    <2>2. QED
      BY <1>0, <1>8, <2>1, GrowsKept, FinishTypes, RecordTypes, StateRecorded
      DEF GrantRole, GateTypes, StateOK
  <1>9. ASSUME RevokeRole(w) PROVE GateTypes'
    <2>1. GateTypeOK' /\ StateOK' /\ Grows /\ spent' \in Seq(Nat)
      BY <1>9, StateKept, GrowsKept DEF RevokeRole, GateTypes, StateOK
    <2>2. work[w].at = "run" /\ work[w].cmd.verb = "ungrant" /\ (Finish(w) \/ Go(w, "unrole"))
      BY <1>9 DEF RevokeRole, Performs, At
    <2>3. QED
      BY <2>1, <2>2, FinishTypes, GoTypes DEF GateTypes, StateOK
  <1>10. ASSUME DeleteRole(w) PROVE GateTypes'
    <2>1. roles' \subseteq Actors \X Roles
      BY <1>0, <1>10 DEF DeleteRole
    <2>2. QED
      BY <1>0, <1>10, <2>1, GrowsKept, FinishTypes, RecordTypes, StateRecorded
      DEF DeleteRole, GateTypes, StateOK
  <1>11. ASSUME NoDatabase(w) PROVE GateTypes'
    BY <1>0, <1>11, StateKept, GrowsKept, FinishTypes DEF NoDatabase, GateTypes, StateOK
  <1>12. ASSUME InitCompany(w) PROVE GateTypes'
    <2>1. base' \in {"none", "empty", "company"} /\ (UNCHANGED <<auditLog, ran>> \/ RecordSigned(w))
      BY <1>0, <1>12 DEF InitCompany
    <2>2. ran' \in Seq(Nat) /\ DOMAIN ran' = DOMAIN ran /\ \A r \in auditLog' : r.bundle \in DOMAIN signed
      BY <2>1, RecordTypes DEF GateTypes, StateOK, GateTypeOK
    <2>3. GateTypeOK' /\ StateOK'
      BY <1>0, <1>12, <2>1, <2>2, StateRecorded DEF InitCompany, GateTypes
    <2>4. QED
      BY <1>12, <2>3, GrowsKept, FinishTypes DEF InitCompany, GateTypes, StateOK
  <1>13. QED
    BY <1>1, <1>2, <1>3, <1>4, <1>5, <1>6, <1>7, <1>8, <1>9, <1>10, <1>11, <1>12

\* The enrolment tokens.
LEMMA TokenStepTypes ==
  ASSUME GateTypes, NEW w \in Workers
  PROVE  /\ MintToken(w) => GateTypes'
         /\ WriteMinted(w) => GateTypes'
         /\ SpendToken(w) => GateTypes'
         /\ \A t \in DOMAIN tokens : RedeemToken(w, t) => GateTypes'
  <1>0. /\ tokens \in Seq(BOOLEAN) /\ spent \in Seq(Nat) /\ Len(tokens) <= Len(spent)
        /\ Len(spent) \in Nat /\ TokenActor \in Actors /\ enforce \in BOOLEAN
    BY GateAssumption DEF GateTypes, GateTypeOK, StateOK
  <1>1. ASSUME MintToken(w) PROVE GateTypes'
    <2>1. GateTypeOK' /\ StateOK' /\ Grows /\ spent' \in Seq(Nat)
      BY <1>1, StateKept, GrowsKept DEF MintToken, GateTypes, StateOK
    <2> DEFINE k == Job("mint", "server", TokenActor, [verb |-> "none"])
               j == [k EXCEPT !.read = tokens]
    <2>2. Begin(w, j) /\ signed' = signed /\ spent' = spent /\ bounds' = bounds
      BY <1>1 DEF MintToken
    <2>3. /\ k \in EnvelopeRow /\ k.at = "mint" /\ k.actor = TokenActor /\ k.bundle = 0
          /\ k.token = 0 /\ ~k.verified
      BY <1>0, JobTypes DEF Places
    <2> HIDE DEF k
    <2>4. /\ j \in EnvelopeRow /\ j.at = "mint" /\ j.actor = TokenActor /\ j.bundle = 0
          /\ j.token = 0 /\ ~j.verified /\ j.read = tokens
      BY <1>0, <2>3 DEF EnvelopeRow
    <2>5. EnvelopeOK(j, signed', Len(spent'), bounds'.keys)
      BY <1>0, <2>2, <2>4 DEF EnvelopeOK
    <2>6. QED
      BY <1>0, <2>1, <2>2, <2>5, BeginTypes DEF GateTypes
  <1>2. ASSUME WriteMinted(w) PROVE GateTypes'
    <2>1. EnvelopeOK(work[w], signed, Len(spent), bounds.keys)
      BY DEF GateTypes, WorkOK
    <2>2. /\ work[w].read \in Seq(BOOLEAN) /\ Len(work[w].read) <= Len(spent)
          /\ tokens' = Append(work[w].read, FALSE)
      BY <1>2, <2>1 DEF WriteMinted, EnvelopeOK, EnvelopeRow
    <2>3. tokens' \in Seq(BOOLEAN) /\ Len(tokens') = Len(work[w].read) + 1
      BY <2>2
    <2>4. spent' \in Seq(Nat) /\ Len(tokens') <= Len(spent') /\ Len(spent) <= Len(spent')
      <3>1. CASE Len(tokens') > Len(spent)
        BY <1>0, <1>2, <2>2, <2>3, <3>1 DEF WriteMinted
      <3>2. CASE ~(Len(tokens') > Len(spent))
        BY <1>0, <1>2, <2>3, <3>2 DEF WriteMinted
      <3>3. QED
        BY <3>1, <3>2
    <2>5. UNCHANGED <<database, auditLog, file, session, nonces, signed, sent, clock, ran, bounds>>
      BY <1>2 DEF WriteMinted
    <2>6. GateTypeOK' /\ StateOK'
      BY <2>3, <2>4, <2>5 DEF GateTypes, GateTypeOK, StateOK, database, KeyRow, Bundle
    <2>7. Grows
      BY <2>4, <2>5 DEF Grows
    <2>8. QED
      BY <1>0, <1>2, <2>4, <2>6, <2>7, FinishTypes DEF WriteMinted, GateTypes
  <1>3. ASSUME SpendToken(w) PROVE GateTypes'
    <2>1. EnvelopeOK(work[w], signed, Len(spent), bounds.keys) /\ work[w].at = "spend"
      BY <1>3 DEF GateTypes, WorkOK, SpendToken, At
    <2>2. /\ work[w].read \in Seq(BOOLEAN) /\ Len(work[w].read) <= Len(spent)
          /\ work[w].token \in DOMAIN work[w].read
          /\ tokens' = [work[w].read EXCEPT ![work[w].token] = TRUE]
      BY <1>3, <2>1 DEF SpendToken, Used, EnvelopeOK, EnvelopeRow
    <2>3. tokens' \in Seq(BOOLEAN) /\ Len(tokens') = Len(work[w].read)
      BY <2>2
    <2>4. UNCHANGED <<database, auditLog, file, session, nonces, signed, sent, clock, ran, spent, bounds>>
      BY <1>3 DEF SpendToken
    <2>5. GateTypeOK' /\ StateOK'
      BY <1>0, <2>2, <2>3, <2>4 DEF GateTypes, GateTypeOK, StateOK, database, KeyRow, Bundle
    <2> DEFINE j == [work[w] EXCEPT !.at = "run", !.read = << >>]
    <2>6. work' = [work EXCEPT ![w] = j]
      BY <1>3 DEF SpendToken
    <2>7. work[w] \in EnvelopeRow /\ << >> \in Seq(BOOLEAN) /\ Len(<< >>) = 0
      BY <2>1 DEF EnvelopeOK
    <2>8. /\ j \in EnvelopeRow /\ j.at = "run" /\ j.actor = work[w].actor /\ j.cmd = work[w].cmd
          /\ j.bundle = work[w].bundle /\ j.token = work[w].token /\ j.read = << >>
          /\ j.verified = work[w].verified
      BY <2>7 DEF EnvelopeRow, Places
    <2>9. EnvelopeOK(j, signed', Len(spent'), bounds'.keys)
      BY <1>0, <2>1, <2>4, <2>7, <2>8 DEF EnvelopeOK
    <2>10. Grows
      BY <1>0, <2>4, GrowsKept
    <2>11. QED
      BY <1>0, <2>4, <2>5, <2>6, <2>9, <2>10, WorkStep DEF GateTypes
  <1>4. ASSUME NEW t \in DOMAIN tokens, RedeemToken(w, t) PROVE GateTypes'
    <2>1. GateTypeOK' /\ StateOK' /\ Grows /\ spent' \in Seq(Nat)
      BY <1>4, StateKept, GrowsKept DEF RedeemToken, GateTypes, StateOK
    <2> DEFINE c == [verb |-> "register", target |-> Nobody, role |-> "none"]
               k == Job("spend", "server", TokenActor, c)
               j == [k EXCEPT !.read = tokens, !.token = t]
    <2>2. Begin(w, j) /\ signed' = signed /\ spent' = spent /\ bounds' = bounds
      BY <1>4 DEF RedeemToken
    <2>3. c \in Command
      BY DEF Command
    <2>4. /\ k \in EnvelopeRow /\ k.at = "spend" /\ k.actor = TokenActor /\ k.cmd = c /\ k.bundle = 0
          /\ ~k.verified
      BY <1>0, <2>3, JobTypes DEF Places
    <2>5. t \in Nat /\ t \in DOMAIN tokens /\ t <= Len(spent)
      BY <1>0
    <2> HIDE DEF k, c
    <2>6. /\ j \in EnvelopeRow /\ j.at = "spend" /\ j.actor = TokenActor /\ j.cmd = c /\ j.bundle = 0
          /\ j.token = t /\ ~j.verified /\ j.read = tokens
      BY <1>0, <2>4, <2>5 DEF EnvelopeRow
    <2> HIDE DEF j
    <2>7. EnvelopeOK(j, signed', Len(spent'), bounds'.keys)
      BY <1>0, <2>2, <2>3, <2>5, <2>6 DEF EnvelopeOK
    <2>8. QED
      BY <1>0, <2>1, <2>2, <2>7, BeginTypes DEF GateTypes
  <1>5. QED
    BY <1>1, <1>2, <1>3, <1>4

LEMMA MachineTypes ==
  ASSUME GateTypes
  PROVE  /\ \A a \in bounds.actors : Keygen(a) \/ Unlock(a) \/ Lock(a) => GateTypes'
         /\ Tick => GateTypes'
         /\ OpenEmpty => GateTypes'
         /\ \A w \in Workers : Die(w) => GateTypes'
  <1>0. spent \in Seq(Nat) /\ clock \in Nat /\ bounds.keys \in Nat /\ bounds.ticks \in Nat /\ Skew \in Nat
    BY ScenarioTypes DEF GateTypes, StateOK
  <1>1. ASSUME UNCHANGED <<signed, spent, bounds, work>> PROVE WorkOK'
    BY <1>1 DEF GateTypes, WorkOK
  <1>2. ASSUME NEW a \in bounds.actors, Keygen(a) \/ Unlock(a) \/ Lock(a) PROVE GateTypes'
    <2>1. WorkOK'
      BY <1>1, <1>2 DEF Keygen, Unlock, Lock
    <2>2. UNCHANGED <<database, auditLog, nonces, tokens, signed, sent, clock, ran, spent, bounds>>
      BY <1>2 DEF Keygen, Unlock, Lock
    <2>3. a \in Actors
      BY ScenarioTypes DEF GateTypes, StateOK
    <2>4. /\ file \in [Actors -> Nat] /\ session \in [Actors -> Nat]
          /\ \A b \in Actors : session[b] \in 0..file[b] /\ file[b] \in 0..bounds.keys
      BY DEF GateTypes, StateOK, GateTypeOK
    <2>5. /\ file' \in [Actors -> Nat] /\ session' \in [Actors -> Nat]
          /\ \A b \in Actors : session'[b] \in 0..file'[b] /\ file'[b] \in 0..bounds.keys
      <3>1. CASE Keygen(a)
        BY <1>0, <2>3, <2>4, <3>1 DEF Keygen
      <3>2. CASE Unlock(a)
        BY <1>0, <2>3, <2>4, <3>2 DEF Unlock
      <3>3. CASE Lock(a)
        BY <1>0, <2>3, <2>4, <3>3 DEF Lock
      <3>4. QED
        BY <1>2, <3>1, <3>2, <3>3
    <2>6. KeyRow' = KeyRow /\ Bundle' = Bundle
      BY <2>2 DEF KeyRow, Bundle
    <2>7. GateTypeOK'
      BY <2>2, <2>5, <2>6 DEF GateTypes, GateTypeOK, database
    <2>8. StateOK'
      BY <2>2, <2>5 DEF GateTypes, StateOK, database
    <2>9. QED
      BY <2>1, <2>7, <2>8 DEF GateTypes
  <1>3. ASSUME Tick PROVE GateTypes'
    <2>1. WorkOK'
      BY <1>1, <1>3 DEF Tick
    <2>2. UNCHANGED <<database, auditLog, file, session, nonces, tokens, signed, sent, ran, spent, bounds>>
      BY <1>3 DEF Tick
    <2>3. clock' \in 0..bounds.ticks /\ clock' = clock + 1
      BY <1>0, <1>3 DEF Tick
    <2>4. KeyRow' = KeyRow /\ Bundle' = Bundle
      BY <2>2 DEF KeyRow, Bundle
    <2>5. \A n \in nonces : n.at \in 0..clock'
      BY <1>0, <2>3 DEF GateTypes, GateTypeOK
    <2>6. GateTypeOK'
      BY <2>2, <2>4, <2>5 DEF GateTypes, GateTypeOK, database
    <2>7. \A b \in DOMAIN signed : signed[b].ts <= clock' + Skew
      <3>1. \A b \in DOMAIN signed : signed[b] \in Bundle
        BY DEF GateTypes, GateTypeOK
      <3>2. QED
        BY <1>0, <2>3, <3>1 DEF GateTypes, StateOK, Bundle
    <2>8. StateOK'
      BY <2>2, <2>3, <2>7 DEF GateTypes, StateOK, database
    <2>9. QED
      BY <2>1, <2>6, <2>8 DEF GateTypes
  <1>4. ASSUME NEW w \in Workers, Die(w) PROVE GateTypes'
    BY <1>0, <1>4, StateKept, GrowsKept, FinishTypes DEF Die, GateTypes
  <1>5. ASSUME OpenEmpty PROVE GateTypes'
    <2>1. WorkOK'
      BY <1>1, <1>5 DEF OpenEmpty
    <2>2. GateTypeOK' /\ StateOK'
      BY <1>5, StateRecorded DEF OpenEmpty, GateTypes, GateTypeOK, StateOK
    <2>3. QED
      BY <2>1, <2>2 DEF GateTypes
  <1>6. QED
    BY <1>2, <1>3, <1>4, <1>5

\* A step of the next-state relation, by what it is a step of.
LEMMA NextTypes ==
  ASSUME GateTypes, GateNext
  PROVE  GateTypes'
  <1>1. ASSUME NEW w \in Workers, NEW a \in bounds.actors, NEW c \in bounds.local,
               NEW surface \in {"cli", "mcp"}, RunUnsigned(w, surface, a, c)
        PROVE  GateTypes'
    BY <1>1, RunUnsignedTypes
  <1>2. ASSUME NEW w \in Workers, NEW a \in bounds.actors, NEW c \in bounds.local,
               SignCommand(w, a, c) \/ SignToolCall(w, a, c) \/ SignUnchecked(w, a, c)
        PROVE  GateTypes'
    BY <1>2, SignedHereTypes, SignUncheckedTypes DEF SignCommand, SignToolCall
  <1>3. ASSUME NEW a \in bounds.actors, NEW c \in bounds.posted, PostEnvelope(a, c)
        PROVE  GateTypes'
    BY <1>3, PostEnvelopeTypes
  <1>4. ASSUME NEW w \in Workers, NEW b \in sent, Deliver(w, b)
        PROVE  GateTypes'
    BY <1>4, DeliverTypes
  <1>5. ASSUME NEW w \in Workers, VerifyBundle(w) \/ RememberNonce(w) \/ Authorise(w)
        PROVE  GateTypes'
    BY <1>5, GateStepTypes
  <1>6. ASSUME NEW w \in Workers,
               \/ BookEntry(w) \/ Register(w) \/ SetEnforce(w) \/ AuthzOn(w) \/ ImplyEnforce(w)
               \/ OwnFlipper(w) \/ AuthzOff(w) \/ GrantRole(w) \/ RevokeRole(w) \/ DeleteRole(w)
               \/ NoDatabase(w) \/ InitCompany(w)
        PROVE  GateTypes'
    BY <1>6, HandlerTypes
  <1>7. ASSUME NEW w \in Workers, Enrol(w) \/ RevokeKey(w)
        PROVE  GateTypes'
    BY <1>7, EnrolTypes, RevokeKeyTypes
  <1>8. ASSUME NEW w \in Workers,
               MintToken(w) \/ WriteMinted(w) \/ SpendToken(w) \/ \E t \in DOMAIN tokens : RedeemToken(w, t)
        PROVE  GateTypes'
    BY <1>8, TokenStepTypes
  <1>9. CASE \/ Tick \/ OpenEmpty
             \/ \E a \in bounds.actors : Keygen(a) \/ Unlock(a) \/ Lock(a)
             \/ \E w \in Workers : Die(w)
    BY <1>9, MachineTypes
  <1>10. QED
    BY <1>1, <1>2, <1>3, <1>4, <1>5, <1>6, <1>7, <1>8, <1>9 DEF GateNext

LEMMA InitTypes == GateInit => GateTypes
  <1> SUFFICES ASSUME GateInit PROVE GateTypes
    OBVIOUS
  <1> DEFINE N == Cardinality(bounds.enrolled)
             first == CHOOSE a \in bounds.enrolled : TRUE
  <1>1. bounds \in Scenarios
    BY DEF GateInit
  <1>2. IsFiniteSet(bounds.enrolled)
    <2>1. bounds.enrolled \subseteq Actors /\ IsFiniteSet(Actors)
      BY <1>1, ScenarioTypes, GateAssumption
    <2>2. QED
      BY <2>1, FS_Subset
  <1>3. N \in Nat /\ N <= 1 /\ (N = 1 => bounds.enrolled # {} /\ bounds.keys >= 1) /\ bounds.keys \in Nat
    <2>1. N \in Nat /\ (N = 0 <=> bounds.enrolled = {})
      BY <1>2, FS_EmptySet, FS_CardinalityType
    <2>2. QED
      BY <1>1, <2>1, ScenarioTypes
  <1>4. N = 1 => first \in Actors
    BY <1>1, <1>3, ScenarioTypes
  <1>5. registry = [i \in 1..N |-> [actor |-> first, key |-> 1, revoked |-> FALSE]]
    BY DEF GateInit
  <1> HIDE DEF N, first
  <1>6. registry \in Seq(KeyRow) /\ DOMAIN registry = 1..N
    <2>1. N = 1 => [actor |-> first, key |-> 1, revoked |-> FALSE] \in KeyRow
      BY <1>3, <1>4 DEF KeyRow
    <2>2. \A i \in 1..N : N = 1
      BY <1>3
    <2>3. \A i \in 1..N : registry[i] \in KeyRow
      BY <1>5, <2>1, <2>2
    <2>4. registry \in [1..N -> KeyRow]
      BY <1>5, <2>3
    <2>5. registry \in UNION {[1..n -> KeyRow] : n \in Nat}
      BY <1>3, <2>4
    <2>6. QED
      BY <2>4, <2>5, SeqDef
  <1>7. \A a \in Actors : file[a] \in 0..bounds.keys
    <2>1. \A a \in bounds.enrolled : bounds.keys >= 1
      <3>1. bounds.enrolled # {} => Cardinality(bounds.enrolled) # 0
        BY <1>2, FS_EmptySet
      <3>2. QED
        BY <1>1, <1>3, <3>1, ScenarioTypes DEF N
    <2>2. QED
      BY <1>3, <2>1 DEF GateInit
  <1>8. GateTypeOK
    <2>1. \A i, j \in DOMAIN registry : i = j
      BY <1>3, <1>6
    <2>2. base \in {"none", "empty", "company"}
      BY DEF GateInit
    <2>3. QED
      BY <1>6, <1>7, <2>1, <2>2 DEF GateInit, GateTypeOK
  <1>9. StateOK
    <2>1. file \in [Actors -> Nat] /\ session \in [Actors -> Nat]
      BY DEF GateInit
    <2>2. signed = << >> /\ ran = << >> /\ spent = << >> /\ clock = 0 /\ ~enforce /\ ~authz
      BY DEF GateInit
    <2>3. bounds.ticks \in Nat /\ ran \in Seq(Nat) /\ spent \in Seq(Nat) /\ DOMAIN signed = {}
      BY <1>1, <2>2, ScenarioTypes
    <2>4. enforce \in BOOLEAN /\ authz \in BOOLEAN
      BY DEF GateInit
    <2>5. QED
      BY <1>1, <2>1, <2>2, <2>3, <2>4 DEF StateOK
  <1>10. WorkOK
    <2>1. EnvelopeOK(Idle, signed, Len(spent), bounds.keys)
      <3>1. Len(spent) \in Nat
        BY <1>9 DEF StateOK
      <3>2. QED
        BY <3>1, IdleOK
    <2>2. work = [w \in Workers |-> Idle]
      BY DEF GateInit
    <2>3. Idle \in EnvelopeRow
      BY <2>1 DEF EnvelopeOK
    <2>4. QED
      BY <2>1, <2>2, <2>3 DEF WorkOK
  <1>11. QED
    BY <1>8, <1>9, <1>10 DEF GateTypes

LEMMA TypesStutter ==
  ASSUME GateTypes, UNCHANGED gateVars
  PROVE  GateTypes'
  BY DEF GateTypes, GateTypeOK, StateOK, WorkOK, EnvelopeOK, gateVars, database, KeyRow, Bundle

\* The registry, the trail, the nonces and the tokens keep their types, an
\* actor's key keeps its one row, and a process holds what was signed.
THEOREM GateTypeCorrect == GateSpec => []GateTypeOK
  <1>1. GateTypes /\ [GateNext]_gateVars => GateTypes'
    BY NextTypes, TypesStutter
  <1>2. GateTypes => GateTypeOK
    BY DEF GateTypes
  <1>3. QED
    BY <1>1, <1>2, InitTypes, PTL DEF GateSpec

----------------------------------------------------------------------------------
(* What a step of a process does to its job. *)

OtherJobsKept(w) == \A v \in Workers : v # w => work'[v] = work[v]

SameJob(w) ==
  /\ work'[w].actor = work[w].actor /\ work'[w].cmd = work[w].cmd
  /\ work'[w].bundle = work[w].bundle /\ work'[w].verified = work[w].verified
  /\ work'[w].token = work[w].token /\ work'[w].key = work[w].key /\ work'[w].read = work[w].read

LEMMA Finishes ==
  ASSUME GateTypes, NEW w \in Workers, Finish(w)
  PROVE  /\ OtherJobsKept(w)
         /\ work'[w].at = "idle" /\ work'[w].bundle = 0 /\ ~work'[w].verified /\ work'[w].token = 0
  BY DEF GateTypes, WorkOK, Finish, OtherJobsKept, Idle

LEMMA StepGoes ==
  ASSUME GateTypes, NEW w \in Workers, NEW where, Go(w, where)
  PROVE  OtherJobsKept(w) /\ work'[w].at = where /\ SameJob(w)
  <1>1. work \in [Workers -> EnvelopeRow] /\ work[w] \in EnvelopeRow
    BY DEF GateTypes, WorkOK
  <1>2. QED
    BY <1>1 DEF Go, OtherJobsKept, SameJob, EnvelopeRow

LEMMA Begins ==
  ASSUME GateTypes, NEW w \in Workers, NEW j, Begin(w, j)
  PROVE  OtherJobsKept(w) /\ work'[w] = j /\ work[w].at = "idle"
  BY DEF GateTypes, WorkOK, Begin, OtherJobsKept, At

LEMMA RegisterGoes ==
  ASSUME GateTypes, NEW w \in Workers, Register(w)
  PROVE  \/ Finish(w) /\ troubled' = troubled
         \/ /\ OtherJobsKept(w) /\ work'[w].at = "enrol"
            /\ work'[w].actor = work[w].actor /\ work'[w].cmd = work[w].cmd
            /\ work'[w].bundle = work[w].bundle /\ work'[w].verified = work[w].verified
            /\ work'[w].token = work[w].token
            /\ ActiveKeys(work[w].actor) = {}
            /\ (\E v \in Others(w, {"enrol"}) : work[v].actor = work[w].actor) =>
                 <<"actor", work[w].actor>> \in troubled'
  <1> DEFINE n == file[work[w].actor]
  <1>1. work \in [Workers -> EnvelopeRow] /\ work[w] \in EnvelopeRow
    BY DEF GateTypes, WorkOK
  <1>2. CASE n = 0 \/ ActiveKeys(work[w].actor) # {}
    BY <1>2 DEF Register
  <1>3. CASE ~(n = 0 \/ ActiveKeys(work[w].actor) # {})
    <2>1. work' = [work EXCEPT ![w].at = "enrol", ![w].key = n]
      BY <1>3 DEF Register
    <2> HIDE DEF n
    <2>2. /\ OtherJobsKept(w) /\ work'[w].at = "enrol"
          /\ work'[w].actor = work[w].actor /\ work'[w].cmd = work[w].cmd
          /\ work'[w].bundle = work[w].bundle /\ work'[w].verified = work[w].verified
          /\ work'[w].token = work[w].token
      BY <1>1, <2>1 DEF OtherJobsKept, EnvelopeRow
    <2>3. (\E v \in Others(w, {"enrol"}) : work[v].actor = work[w].actor) =>
            <<"actor", work[w].actor>> \in troubled'
      BY <1>3 DEF Register, n
    <2>4. QED
      BY <1>3, <2>2, <2>3
  <1>4. QED
    BY <1>2, <1>3

LEMMA RememberGoes ==
  ASSUME GateTypes, NEW w \in Workers, RememberNonce(w)
  PROVE  /\ OtherJobsKept(w) /\ work[w].at = "remember" /\ work'[w].at = "authorise"
         /\ work'[w].actor = work[w].actor /\ work'[w].cmd = work[w].cmd
         /\ work'[w].bundle = work[w].bundle /\ work'[w].verified
         /\ work'[w].token = work[w].token
  <1>1. work \in [Workers -> EnvelopeRow] /\ work[w] \in EnvelopeRow
    BY DEF GateTypes, WorkOK
  <1>2. QED
    BY <1>1 DEF RememberNonce, At, OtherJobsKept, EnvelopeRow

LEMMA SpendGoes ==
  ASSUME GateTypes, NEW w \in Workers, SpendToken(w)
  PROVE  /\ OtherJobsKept(w) /\ work[w].at = "spend" /\ work'[w].at = "run"
         /\ work'[w].actor = work[w].actor /\ work'[w].cmd = work[w].cmd
         /\ work'[w].bundle = work[w].bundle /\ work'[w].verified = work[w].verified
         /\ work'[w].token = work[w].token
  <1>1. work \in [Workers -> EnvelopeRow] /\ work[w] \in EnvelopeRow
    BY DEF GateTypes, WorkOK
  <1>2. QED
    BY <1>1 DEF SpendToken, At, OtherJobsKept, EnvelopeRow

\* What a job has that was only made up.
LEMMA NewJobs ==
  ASSUME GateTypes, NEW w \in Workers
  PROVE  /\ \A a \in bounds.actors, c \in bounds.local, s \in {"cli", "mcp"} :
              /\ SignedHere(w, s, a, c) =>
                   /\ OtherJobsKept(w) /\ work[w].at = "idle" /\ work'[w].at = "verify"
                   /\ work'[w].bundle = Len(signed) + 1 /\ ~work'[w].verified /\ work'[w].token = 0
              /\ SignUnchecked(w, a, c) =>
                   /\ OtherJobsKept(w) /\ work[w].at = "idle" /\ work'[w].at = "run"
                   /\ work'[w].bundle = Len(signed) + 1 /\ work'[w].verified /\ work'[w].token = 0
              /\ RunUnsigned(w, s, a, c) =>
                   /\ OtherJobsKept(w) /\ work[w].at = "idle" /\ work'[w].at \in {"authorise", "run"}
                   /\ work'[w].bundle = 0 /\ ~work'[w].verified /\ work'[w].token = 0
         /\ \A b \in sent : Deliver(w, b) =>
              /\ OtherJobsKept(w) /\ work[w].at = "idle" /\ work'[w].at \in {"verify", "run"}
              /\ work'[w].bundle = b /\ ~work'[w].verified /\ work'[w].token = 0
         /\ MintToken(w) =>
              /\ OtherJobsKept(w) /\ work[w].at = "idle" /\ work'[w].at = "mint" /\ work'[w].read = tokens
              /\ work'[w].bundle = 0 /\ ~work'[w].verified /\ work'[w].token = 0
         /\ \A t \in DOMAIN tokens : RedeemToken(w, t) =>
              /\ OtherJobsKept(w) /\ work[w].at = "idle" /\ work'[w].at = "spend" /\ work'[w].read = tokens
              /\ work'[w].bundle = 0 /\ ~work'[w].verified /\ work'[w].token = t
  <1>0. /\ enforce \in BOOLEAN /\ TokenActor \in Actors /\ tokens \in Seq(BOOLEAN) /\ signed \in Seq(Bundle)
        /\ Len(signed) + 1 \in Nat /\ bounds.actors \subseteq Actors /\ bounds.local \subseteq Command
        /\ \A b \in sent : b \in Nat /\ signed[b].actor \in Actors /\ signed[b].cmd \in Command
    <2>1. /\ enforce \in BOOLEAN /\ TokenActor \in Actors /\ tokens \in Seq(BOOLEAN) /\ signed \in Seq(Bundle)
          /\ bounds.actors \subseteq Actors /\ bounds.local \subseteq Command /\ bounds.posted \subseteq Command
      BY ScenarioTypes DEF GateTypes, GateTypeOK, StateOK
    <2>2. \A b \in sent : b \in Nat /\ signed[b] \in Bundle
      BY <2>1 DEF GateTypes, GateTypeOK
    <2>3. QED
      BY <2>1, <2>2 DEF Bundle
  <1>1. ASSUME NEW a \in bounds.actors, NEW c \in bounds.local, NEW s \in {"cli", "mcp"},
               SignedHere(w, s, a, c)
        PROVE  /\ OtherJobsKept(w) /\ work[w].at = "idle" /\ work'[w].at = "verify"
               /\ work'[w].bundle = Len(signed) + 1 /\ ~work'[w].verified /\ work'[w].token = 0
    <2>1. PICK k, j : Begin(w, j) /\ j = [k EXCEPT !.bundle = Len(signed) + 1] /\ k = Job("verify", s, a, c)
      BY <1>1 DEF SignedHere
    <2>2. "verify" \in Places /\ a \in Actors /\ c \in Command /\ << >> \in Seq(BOOLEAN)
      BY <1>0 DEF Places
    <2>3. k \in EnvelopeRow /\ k.at = "verify" /\ k.bundle = 0 /\ k.token = 0 /\ k.read = << >> /\ ~k.verified
      BY <1>0, <2>1, <2>2, JobTypes
    <2>4. j.at = "verify" /\ ~j.verified /\ j.bundle = Len(signed) + 1 /\ j.token = 0
      BY <1>0, <2>1, <2>2, <2>3 DEF EnvelopeRow
    <2>5. QED
      BY <2>1, <2>4, Begins
  <1>2. ASSUME NEW a \in bounds.actors, NEW c \in bounds.local, NEW s \in {"cli", "mcp"},
               RunUnsigned(w, s, a, c)
        PROVE  /\ OtherJobsKept(w) /\ work[w].at = "idle" /\ work'[w].at \in {"authorise", "run"}
               /\ work'[w].bundle = 0 /\ ~work'[w].verified /\ work'[w].token = 0
    <2>1. PICK at \in {"authorise", "run"} : Begin(w, Job(at, s, a, c))
      BY <1>2 DEF RunUnsigned
    <2>2. PICK j : Begin(w, j) /\ j = Job(at, s, a, c)
      BY <2>1
    <2>3. at \in Places /\ a \in Actors /\ c \in Command
      BY <1>0 DEF Places
    <2>4. j.at = at /\ j.bundle = 0 /\ j.token = 0 /\ ~j.verified
      BY <1>0, <2>2, <2>3, JobTypes
    <2>5. QED
      BY <2>2, <2>4, Begins
  <1>3. ASSUME NEW b \in sent, Deliver(w, b)
        PROVE  /\ OtherJobsKept(w) /\ work[w].at = "idle" /\ work'[w].at \in {"verify", "run"}
               /\ work'[w].bundle = b /\ ~work'[w].verified /\ work'[w].token = 0
    <2>1. PICK at \in {"run", "verify"} :
            Begin(w, [Job(at, "server", signed[b].actor, signed[b].cmd) EXCEPT !.bundle = b])
      BY <1>3 DEF Deliver
    <2>2. PICK k, j : Begin(w, j) /\ j = [k EXCEPT !.bundle = b] /\ k = Job(at, "server", signed[b].actor, signed[b].cmd)
      BY <2>1
    <2>3. at \in Places /\ << >> \in Seq(BOOLEAN)
      BY DEF Places
    <2>4. k \in EnvelopeRow /\ k.at = at /\ k.bundle = 0 /\ k.token = 0 /\ k.read = << >> /\ ~k.verified
      BY <1>0, <2>2, <2>3, JobTypes
    <2>5. j.at = at /\ j.bundle = b /\ j.token = 0 /\ ~j.verified
      BY <1>0, <2>2, <2>3, <2>4 DEF EnvelopeRow
    <2>6. QED
      BY <2>2, <2>5, Begins
  <1>4. ASSUME MintToken(w)
        PROVE  /\ OtherJobsKept(w) /\ work[w].at = "idle" /\ work'[w].at = "mint" /\ work'[w].read = tokens
               /\ work'[w].bundle = 0 /\ ~work'[w].verified /\ work'[w].token = 0
    <2>1. PICK k, j : Begin(w, j) /\ j = [k EXCEPT !.read = tokens] /\ k = Job("mint", "server", TokenActor, [verb |-> "none"])
      BY <1>4 DEF MintToken
    <2>2. "mint" \in Places /\ 0 \in Nat
      BY DEF Places
    <2>3. k \in EnvelopeRow /\ k.at = "mint" /\ k.bundle = 0 /\ k.token = 0 /\ k.read = << >> /\ ~k.verified
      BY <1>0, <2>1, <2>2, JobTypes
    <2>4. j.at = "mint" /\ j.bundle = 0 /\ j.token = 0 /\ ~j.verified /\ j.read = tokens
      BY <1>0, <2>1, <2>2, <2>3 DEF EnvelopeRow
    <2>5. QED
      BY <2>1, <2>4, Begins
  <1>5. ASSUME NEW t \in DOMAIN tokens, RedeemToken(w, t)
        PROVE  /\ OtherJobsKept(w) /\ work[w].at = "idle" /\ work'[w].at = "spend" /\ work'[w].read = tokens
               /\ work'[w].bundle = 0 /\ ~work'[w].verified /\ work'[w].token = t
    <2> DEFINE c == [verb |-> "register", target |-> Nobody, role |-> "none"]
    <2>1. PICK k, j : Begin(w, j) /\ j = [k EXCEPT !.read = tokens, !.token = t] /\ k = Job("spend", "server", TokenActor, c)
      BY <1>5 DEF RedeemToken
    <2>2. "spend" \in Places /\ t \in Nat /\ c \in Command
      <3>1. c \in Command
        BY DEF Command
      <3> HIDE DEF c
      <3>2. QED
        BY <1>0, <3>1 DEF Places
    <2> HIDE DEF c
    <2>3. k \in EnvelopeRow /\ k.at = "spend" /\ k.bundle = 0 /\ k.token = 0 /\ k.read = << >> /\ ~k.verified
      BY <1>0, <2>1, <2>2, JobTypes
    <2>4. j.at = "spend" /\ j.bundle = 0 /\ j.token = t /\ ~j.verified /\ j.read = tokens
      BY <1>0, <2>1, <2>2, <2>3 DEF EnvelopeRow
    <2>5. QED
      BY <2>1, <2>4, Begins
  <1>6. ASSUME NEW a \in bounds.actors, NEW c \in bounds.local, SignUnchecked(w, a, c)
        PROVE  /\ OtherJobsKept(w) /\ work[w].at = "idle" /\ work'[w].at = "run"
               /\ work'[w].bundle = Len(signed) + 1 /\ work'[w].verified /\ work'[w].token = 0
    <2>1. PICK k, j : /\ Begin(w, j) /\ k = Job("run", "cli", a, c)
                      /\ j = [k EXCEPT !.bundle = Len(signed) + 1, !.verified = TRUE]
      BY <1>6 DEF SignUnchecked
    <2>2. "run" \in Places /\ a \in Actors /\ c \in Command
      BY <1>0 DEF Places
    <2>3. k \in EnvelopeRow /\ k.at = "run" /\ k.token = 0
      BY <1>0, <2>1, <2>2, JobTypes
    <2>4. j.at = "run" /\ j.verified /\ j.bundle = Len(signed) + 1 /\ j.token = 0
      BY <1>0, <2>1, <2>3 DEF EnvelopeRow
    <2>5. QED
      BY <2>1, <2>4, Begins
  <1>7. QED
    BY <1>1, <1>2, <1>3, <1>4, <1>5, <1>6

LEMMA NextCases ==
  ASSUME GateNext
  PROVE  \/ \E w \in Workers, a \in bounds.actors, c \in bounds.local, s \in {"cli", "mcp"} :
              RunUnsigned(w, s, a, c) \/ SignedHere(w, s, a, c) \/ SignUnchecked(w, a, c)
         \/ \E a \in bounds.actors, c \in bounds.posted : PostEnvelope(a, c)
         \/ \E w \in Workers, b \in sent : Deliver(w, b)
         \/ \E w \in Workers : VerifyBundle(w) \/ RememberNonce(w) \/ Authorise(w)
         \/ \E w \in Workers : \/ BookEntry(w) \/ SetEnforce(w) \/ AuthzOff(w) \/ GrantRole(w) \/ RevokeKey(w)
                              \/ Register(w) \/ Enrol(w) \/ AuthzOn(w) \/ ImplyEnforce(w)
                              \/ OwnFlipper(w) \/ RevokeRole(w) \/ DeleteRole(w)
                              \/ NoDatabase(w) \/ InitCompany(w)
         \/ \E w \in Workers : \/ MintToken(w) \/ WriteMinted(w) \/ SpendToken(w)
                              \/ \E t \in DOMAIN tokens : RedeemToken(w, t)
         \/ Tick \/ OpenEmpty \/ \E a \in bounds.actors : Keygen(a) \/ Unlock(a) \/ Lock(a)
         \/ \E w \in Workers : Die(w)
  <1>1. ASSUME NEW w \in Workers, NEW a \in bounds.actors, NEW c \in bounds.local,
               SignCommand(w, a, c) \/ SignToolCall(w, a, c)
        PROVE  \E s \in {"cli", "mcp"} : SignedHere(w, s, a, c)
    BY <1>1 DEF SignCommand, SignToolCall
  <1>2. QED
    BY <1>1 DEF GateNext

----------------------------------------------------------------------------------
(* An owner remains. *)

\* A step after which nobody else is dismissed and nobody else is at the switch.
LEMMA OwnersQuiet ==
  ASSUME OwnersStay, roles \subseteq roles', authz' => authz, troubled \subseteq troubled',
         \A v \in Workers : Dismissing(v)' => Dismissing(v) /\ work'[v].cmd = work[v].cmd,
         \A v \in Workers : work[v].at \in {"imply", "own"} =>
           work'[v].at \in {"imply", "own"} \/ <<"owners", 0>> \in troubled'
  PROVE  OwnersStay'
  <1>1. OwnerActors \subseteq OwnerActors'
    BY DEF OwnerActors
  <1>2. ASSUME <<"owners", 0>> \notin troubled' PROVE <<"owners", 0>> \notin troubled
    BY <1>2
  <1>3. ASSUME <<"owners", 0>> \notin troubled', authz'
        PROVE  OwnerActors' # {} \/ \E w \in Workers : work'[w].at \in {"imply", "own"}
    BY <1>1, <1>2, <1>3 DEF OwnersStay
  <1>4. ASSUME <<"owners", 0>> \notin troubled', NEW w \in Workers, NEW v \in Workers,
               Dismissing(w)', Dismissing(v)'
        PROVE  w = v
    BY <1>2, <1>4 DEF OwnersStay
  <1>5. ASSUME <<"owners", 0>> \notin troubled', NEW w \in Workers, Dismissing(w)'
        PROVE  OwnerActors' \ {work'[w].cmd.target} # {}
    BY <1>1, <1>2, <1>5 DEF OwnersStay
  <1>6. QED
    BY <1>3, <1>4, <1>5 DEF OwnersStay

\* ... of a process that was not at the switch and does not dismiss.
LEMMA OwnersQuietStep ==
  ASSUME OwnersStay, roles \subseteq roles', authz' => authz, troubled \subseteq troubled',
         NEW w \in Workers, OtherJobsKept(w), work'[w].at # "unrole",
         work[w].at \in {"imply", "own"} =>
           work'[w].at \in {"imply", "own"} \/ <<"owners", 0>> \in troubled'
  PROVE  OwnersStay'
  <1>1. \A v \in Workers : Dismissing(v)' => Dismissing(v) /\ work'[v].cmd = work[v].cmd
    BY DEF Dismissing, At, OtherJobsKept
  <1>2. \A v \in Workers : work[v].at \in {"imply", "own"} =>
          work'[v].at \in {"imply", "own"} \/ <<"owners", 0>> \in troubled'
    BY DEF OtherJobsKept
  <1>3. QED
    BY <1>1, <1>2, OwnersQuiet

\* An owner who is not the only one leaves another behind.
LEMMA AnotherOwner ==
  ASSUME NEW a, ~LastOwner("owner")
  PROVE  OwnerActors \ {a} # {}
  <1> SUFFICES ASSUME OwnerActors \ {a} = {} PROVE FALSE
    OBVIOUS
  <1>1. OwnerActors \subseteq {a}
    OBVIOUS
  <1>2. IsFiniteSet({a}) /\ Cardinality({a}) = 1
    BY FS_Singleton
  <1>3. Cardinality(OwnerActors) <= 1
    BY <1>1, <1>2, FS_Subset
  <1>4. QED
    BY <1>3 DEF LastOwner

LEMMA NextOwnersStay ==
  ASSUME GateTypes, OwnersStay, GateNext
  PROVE  OwnersStay'
  <1>1. ASSUME NEW w \in Workers, NEW a \in bounds.actors, NEW c \in bounds.local,
               NEW s \in {"cli", "mcp"},
               RunUnsigned(w, s, a, c) \/ SignedHere(w, s, a, c) \/ SignUnchecked(w, a, c)
        PROVE  OwnersStay'
    <2>1. /\ OtherJobsKept(w) /\ work[w].at = "idle"
          /\ work'[w].at \in {"authorise", "run", "verify"}
      BY <1>1, NewJobs
    <2>2. roles' = roles /\ authz' = authz /\ troubled \subseteq troubled'
      BY <1>1 DEF RunUnsigned, SignedHere, SignUnchecked, database
    <2>3. QED
      BY <2>1, <2>2, OwnersQuietStep
  <1>2. ASSUME NEW a \in bounds.actors, NEW c \in bounds.posted, PostEnvelope(a, c)
        PROVE  OwnersStay'
    BY <1>2 DEF PostEnvelope, database, OwnersStay, OwnerActors, Dismissing, At
  <1>3. ASSUME NEW w \in Workers, NEW b \in sent, Deliver(w, b)
        PROVE  OwnersStay'
    <2>1. OtherJobsKept(w) /\ work[w].at = "idle" /\ work'[w].at \in {"verify", "run"}
      BY <1>3, NewJobs
    <2>2. roles' = roles /\ authz' = authz /\ troubled \subseteq troubled'
      BY <1>3 DEF Deliver, database
    <2>3. QED
      BY <2>1, <2>2, OwnersQuietStep
  <1>4. ASSUME NEW w \in Workers, VerifyBundle(w) \/ RememberNonce(w) \/ Authorise(w)
        PROVE  OwnersStay'
    <2>1. /\ OtherJobsKept(w) /\ work[w].at \in {"verify", "remember", "authorise"}
          /\ work'[w].at \in {"remember", "authorise", "run", "idle"}
      BY <1>4, StepGoes, Finishes, RememberGoes DEF VerifyBundle, Authorise, At
    <2>2. roles' = roles /\ authz' = authz /\ troubled' = troubled
      BY <1>4 DEF VerifyBundle, RememberNonce, Authorise, database
    <2>3. QED
      BY <2>1, <2>2, OwnersQuietStep
  <1>5. ASSUME NEW w \in Workers,
               \/ BookEntry(w) \/ SetEnforce(w) \/ AuthzOff(w) \/ GrantRole(w) \/ RevokeKey(w) \/ Enrol(w)
               \/ NoDatabase(w) \/ InitCompany(w)
        PROVE  OwnersStay'
    <2>1. Finish(w) /\ work[w].at \in {"run", "enrol"}
      BY <1>5 DEF BookEntry, SetEnforce, AuthzOff, GrantRole, RevokeKey, Enrol, NoDatabase, InitCompany, Performs, At
    <2>2. OtherJobsKept(w) /\ work'[w].at = "idle"
      BY <2>1, Finishes
    <2>3. roles \subseteq roles' /\ troubled' = troubled /\ (authz' = authz \/ authz' = FALSE)
      BY <1>5 DEF BookEntry, SetEnforce, AuthzOff, GrantRole, Grant, RevokeKey, Enrol, NoDatabase, InitCompany,
                  database
    <2>4. authz' => authz
      BY <2>3
    <2>5. QED
      BY <2>1, <2>2, <2>3, <2>4, OwnersQuietStep
  <1>6. ASSUME NEW w \in Workers, Register(w)
        PROVE  OwnersStay'
    <2>1. OtherJobsKept(w) /\ work[w].at = "run" /\ work'[w].at \in {"idle", "enrol"}
      BY <1>6, RegisterGoes, Finishes DEF Register, Performs, At
    <2>2. roles' = roles /\ authz' = authz /\ troubled \subseteq troubled'
      BY <1>6 DEF Register, database
    <2>3. QED
      BY <2>1, <2>2, OwnersQuietStep
  <1>7. ASSUME NEW w \in Workers, AuthzOn(w)
        PROVE  OwnersStay'
    <2>1. OtherJobsKept(w) /\ work'[w].at = "imply"
      BY <1>7, StepGoes DEF AuthzOn
    <2>2. roles' = roles /\ troubled' = troubled
      BY <1>7 DEF AuthzOn
    <2>3. \A v \in Workers : Dismissing(v)' => Dismissing(v) /\ work'[v].cmd = work[v].cmd
      BY <2>1 DEF Dismissing, At, OtherJobsKept
    <2>4. OwnerActors' = OwnerActors
      BY <2>2 DEF OwnerActors
    <2>5. QED
      BY <2>1, <2>2, <2>3, <2>4 DEF OwnersStay
  <1>8. ASSUME NEW w \in Workers, ImplyEnforce(w)
        PROVE  OwnersStay'
    <2>1. OtherJobsKept(w) /\ work'[w].at = "own"
      BY <1>8, StepGoes DEF ImplyEnforce
    <2>2. roles' = roles /\ authz' = authz /\ troubled' = troubled
      BY <1>8 DEF ImplyEnforce
    <2>3. QED
      BY <2>1, <2>2, OwnersQuietStep
  <1>9. ASSUME NEW w \in Workers, OwnFlipper(w)
        PROVE  OwnersStay'
    <2>1. OtherJobsKept(w) /\ work'[w].at = "idle"
      BY <1>9, Finishes DEF OwnFlipper
    <2>2. troubled' = troubled /\ OwnerActors \subseteq OwnerActors' /\ work[w].actor \in OwnerActors'
      BY <1>9, CommandTypes DEF OwnFlipper, Grant, OwnerActors, At
    <2>3. \A v \in Workers : Dismissing(v)' => Dismissing(v) /\ work'[v].cmd = work[v].cmd
      BY <2>1 DEF Dismissing, At, OtherJobsKept
    <2>4. QED
      BY <2>2, <2>3 DEF OwnersStay
  <1>10. ASSUME NEW w \in Workers, RevokeRole(w)
         PROVE  OwnersStay'
    <2>1. roles' = roles /\ authz' = authz /\ troubled \subseteq troubled' /\ work[w].at = "run"
      BY <1>10 DEF RevokeRole, database, Performs, At
    <2>2. CASE Finish(w)
      <3>1. OtherJobsKept(w) /\ work'[w].at = "idle"
        BY <2>2, Finishes
      <3>2. QED
        BY <2>1, <3>1, OwnersQuietStep
    <2>3. CASE ~Finish(w)
      <3>1. /\ Go(w, "unrole") /\ ~LastOwner(work[w].cmd.role)
            /\ (\E v \in Others(w, {"unrole"}) : work[w].cmd.role = "owner" /\ work[v].cmd.role = "owner")
                 => <<"owners", 0>> \in troubled'
        BY <1>10, <2>3 DEF RevokeRole
      <3>2. OtherJobsKept(w) /\ work'[w].at = "unrole" /\ work'[w].cmd = work[w].cmd
        BY <3>1, StepGoes DEF SameJob
      <3>3. OwnerActors' = OwnerActors
        BY <2>1 DEF OwnerActors
      <3>4. \A v \in Workers : v # w /\ Dismissing(v)' => Dismissing(v) /\ work'[v].cmd = work[v].cmd
        BY <3>2 DEF Dismissing, At, OtherJobsKept
      <3>5. ASSUME <<"owners", 0>> \notin troubled', Dismissing(w)', NEW v \in Workers, Dismissing(v)'
            PROVE  v = w
        BY <3>1, <3>2, <3>4, <3>5 DEF Others, Dismissing, At
      <3>6. Dismissing(w)' => OwnerActors' \ {work'[w].cmd.target} # {}
        BY <3>1, <3>2, <3>3, AnotherOwner DEF Dismissing
      <3>7. authz' /\ <<"owners", 0>> \notin troubled' =>
              OwnerActors' # {} \/ \E v \in Workers : work'[v].at \in {"imply", "own"}
        BY <2>1, <3>2, <3>3 DEF OwnersStay, OtherJobsKept
      <3>8. <<"owners", 0>> \notin troubled' => <<"owners", 0>> \notin troubled
        BY <2>1
      <3>9. QED
        BY <3>3, <3>4, <3>5, <3>6, <3>7, <3>8 DEF OwnersStay
    <2>4. QED
      BY <2>2, <2>3
  <1>11. ASSUME NEW w \in Workers, DeleteRole(w)
         PROVE  OwnersStay'
    <2>1. /\ OtherJobsKept(w) /\ work'[w].at = "idle" /\ work[w].at = "unrole"
          /\ authz' = authz /\ troubled' = troubled
      BY <1>11, Finishes DEF DeleteRole, At
    <2>2. CASE work[w].cmd.role = "owner"
      <3>1. OwnerActors' = OwnerActors \ {work[w].cmd.target}
        BY <1>11, <2>2 DEF DeleteRole, OwnerActors
      <3>2. Dismissing(w)
        BY <2>1, <2>2 DEF Dismissing, At
      <3>3. \A v \in Workers : Dismissing(v)' => v # w /\ Dismissing(v)
        BY <2>1 DEF Dismissing, At, OtherJobsKept
      <3>4. QED
        BY <2>1, <3>1, <3>2, <3>3 DEF OwnersStay
    <2>3. CASE work[w].cmd.role # "owner"
      <3>1. OwnerActors' = OwnerActors
        BY <1>11, <2>3 DEF DeleteRole, OwnerActors
      <3>2. \A v \in Workers : Dismissing(v)' => Dismissing(v) /\ work'[v].cmd = work[v].cmd
        BY <2>1 DEF Dismissing, At, OtherJobsKept
      <3>3. \A v \in Workers : work[v].at \in {"imply", "own"} => work'[v].at \in {"imply", "own"}
        BY <2>1 DEF OtherJobsKept
      <3>4. QED
        BY <2>1, <3>1, <3>2, <3>3 DEF OwnersStay
    <2>4. QED
      BY <2>2, <2>3
  <1>12. ASSUME NEW w \in Workers,
                MintToken(w) \/ WriteMinted(w) \/ SpendToken(w) \/ \E t \in DOMAIN tokens : RedeemToken(w, t)
         PROVE  OwnersStay'
    <2>1. /\ OtherJobsKept(w) /\ work[w].at \in {"idle", "mint", "spend"}
          /\ work'[w].at \in {"idle", "mint", "spend", "run"}
      BY <1>12, NewJobs, SpendGoes, Finishes DEF WriteMinted, At
    <2>2. roles' = roles /\ authz' = authz /\ troubled \subseteq troubled'
      BY <1>12 DEF MintToken, WriteMinted, SpendToken, RedeemToken, database
    <2>3. QED
      BY <2>1, <2>2, OwnersQuietStep
  <1>13. CASE Tick \/ OpenEmpty \/ \E a \in bounds.actors : Keygen(a) \/ Unlock(a) \/ Lock(a)
    <2>1. roles' = roles /\ authz' = authz /\ work' = work /\ troubled' = troubled
      BY <1>13 DEF Tick, OpenEmpty, Keygen, Unlock, Lock, database
    <2>2. QED
      BY <2>1, OwnersQuiet DEF Dismissing, At
  <1>14. ASSUME NEW w \in Workers, Die(w)
         PROVE  OwnersStay'
    <2>1. OtherJobsKept(w) /\ work'[w].at = "idle"
      BY <1>14, Finishes DEF Die
    <2>2. roles' = roles /\ authz' = authz /\ troubled \subseteq troubled'
      BY <1>14 DEF Die, database
    <2>3. work[w].at \in {"imply", "own"} => <<"owners", 0>> \in troubled'
      BY <1>14 DEF Die
    <2>4. QED
      BY <2>1, <2>2, <2>3, OwnersQuietStep
  <1>15. QED
    BY <1>1, <1>2, <1>3, <1>4, <1>5, <1>6, <1>7, <1>8, <1>9, <1>10, <1>11, <1>12, <1>13, <1>14,
       NextCases

LEMMA OwnersStutter ==
  ASSUME OwnersStay, UNCHANGED gateVars
  PROVE  OwnersStay'
  <1>1. roles' = roles /\ authz' = authz /\ work' = work /\ troubled' = troubled
    BY DEF gateVars, database
  <1>2. QED
    BY <1>1, OwnersQuiet DEF Dismissing, At

\* An owner may turn the roles off again.
LEMMA OwnersCan ==
  ASSUME GateTypes, OwnersStay
  PROVE  OwnerRemains
  <1> DEFINE off == [verb |-> "authz off", target |-> Nobody, role |-> "none"]
  <1>1. \A a \in OwnerActors : a \in Actors /\ "owner" \in RolesOf(a)
    BY GateAssumption DEF OwnerActors, RolesOf
  <1>2. \A a \in OwnerActors : a \in WhoCan(off)
    BY <1>1 DEF WhoCan, Can, CanAct
  <1>3. QED
    BY <1>2 DEF OwnersStay, OwnerRemains

\* While roles decide, who-can names somebody who may turn them off again,
\* unless two owners were revoked at once or a process died turning them on.
THEOREM OwnerAlwaysRemains == GateSpec => []OwnerRemains
  <1>1. GateInit => OwnersStay
    BY DEF GateInit, OwnersStay, Dismissing, At, Idle
  <1>2. GateTypes /\ OwnersStay /\ [GateNext]_gateVars => (GateTypes /\ OwnersStay)'
    BY NextTypes, TypesStutter, NextOwnersStay, OwnersStutter
  <1>3. GateTypes /\ OwnersStay => OwnerRemains
    BY OwnersCan
  <1>4. QED
    BY <1>1, <1>2, <1>3, InitTypes, PTL DEF GateSpec

----------------------------------------------------------------------------------
(* The trail stays provable. *)

\* A row of the registry is revoked but never goes or changes its key.
RowsKept ==
  \A i \in DOMAIN registry :
    i \in DOMAIN registry' /\ registry'[i].actor = registry[i].actor /\ registry'[i].key = registry[i].key

SignedKept == \A b \in DOMAIN signed : b \in DOMAIN signed' /\ signed'[b] = signed[b]

\* A new row of the trail is about the job of some process.
AuditKept ==
  \A r \in auditLog' :
    \/ r \in auditLog
    \/ \E w \in Workers : /\ r.bundle = work[w].bundle /\ r.actor = work[w].actor
                          /\ r.cmd = work[w].cmd /\ r.checked = work[w].verified

LEMMA Records ==
  ASSUME NEW w \in Workers, RecordSigned(w)
  PROVE  AuditKept
  BY DEF RecordSigned, AuditKept

LEMMA ProvableStep ==
  ASSUME GateTypes, Provable, RowsKept, SignedKept, AuditKept, troubled \subseteq troubled',
         \A v \in Workers : work'[v].verified \/ work'[v].at = "remember" =>
           \/ /\ work'[v].bundle = work[v].bundle /\ work[v].bundle \in DOMAIN signed
              /\ Vouched(work[v].bundle)
           \/ <<"unchecked", work'[v].bundle>> \in troubled'
  PROVE  Provable'
  <1>1. ASSUME NEW b \in DOMAIN signed, Vouched(b)
        PROVE  Vouched(b)'
    BY <1>1 DEF Vouched, Unchecked, KeyKnown, KeyRows, RowsKept, SignedKept
  <1>2. ASSUME NEW v \in Workers, work'[v].verified \/ work'[v].at = "remember"
        PROVE  Vouched(work[v].bundle)'
    <2>1. PICK b : b = work'[v].bundle
      OBVIOUS
    <2>2. Vouched(b)' \/ Unchecked(b)'
      BY <1>1, <1>2, <2>1 DEF Unchecked
    <2>3. QED
      BY <2>1, <2>2 DEF Vouched, KeyKnown, KeyRows, Unchecked
  <1>3. ASSUME NEW r \in auditLog', r.checked
        PROVE  /\ r.bundle \in DOMAIN signed /\ Vouched(r.bundle)
               /\ r.actor = signed[r.bundle].actor /\ r.cmd = signed[r.bundle].cmd
    <2>1. CASE r \in auditLog
      BY <1>3, <2>1 DEF Provable, GateTypes, GateTypeOK
    <2>2. ASSUME NEW w \in Workers, r.bundle = work[w].bundle, r.actor = work[w].actor,
                 r.cmd = work[w].cmd, work[w].verified
          PROVE  /\ r.bundle \in DOMAIN signed /\ Vouched(r.bundle)
                 /\ r.actor = signed[r.bundle].actor /\ r.cmd = signed[r.bundle].cmd
      <3>1. EnvelopeOK(work[w], signed, Len(spent), bounds.keys)
        BY DEF GateTypes, WorkOK
      <3>2. Vouched(r.bundle)
        <4>1. Vouched(work[w].bundle)
          BY <2>2 DEF Provable
        <4>2. QED
          BY <2>2, <4>1
      <3>3. QED
        BY <2>2, <3>1, <3>2 DEF EnvelopeOK
    <2>3. QED
      BY <1>3, <2>1, <2>2 DEF AuditKept
  <1>4. \A r \in auditLog' : r.checked =>
          /\ Vouched(r.bundle)'
          /\ r.actor = signed'[r.bundle].actor /\ r.cmd = signed'[r.bundle].cmd
    BY <1>1, <1>3 DEF SignedKept
  <1>5. QED
    BY <1>2, <1>4 DEF Provable, At

\* A process that verifies nothing has no other bundle verified afterwards.
LEMMA ProvableQuiet ==
  ASSUME GateTypes, Provable, NEW w \in Workers, OtherJobsKept(w), work'[w].at # "remember",
         \/ work'[w].verified => work[w].verified /\ work'[w].bundle = work[w].bundle
         \/ <<"unchecked", work'[w].bundle>> \in troubled'
  PROVE  \A v \in Workers : work'[v].verified \/ work'[v].at = "remember" =>
           \/ /\ work'[v].bundle = work[v].bundle /\ work[v].bundle \in DOMAIN signed
              /\ Vouched(work[v].bundle)
           \/ <<"unchecked", work'[v].bundle>> \in troubled'
  <1>1. \A v \in Workers : work[v].verified \/ work[v].at = "remember" => work[v].bundle \in DOMAIN signed
    BY DEF GateTypes, WorkOK, EnvelopeOK
  <1>2. \A v \in Workers : work[v].verified \/ work[v].at = "remember" => Vouched(work[v].bundle)
    BY DEF Provable, At
  <1>3. QED
    BY <1>1, <1>2 DEF OtherJobsKept

LEMMA NextProvable ==
  ASSUME GateTypes, Provable, GateNext
  PROVE  Provable'
  <1>a. registry' = registry => RowsKept
    BY DEF RowsKept
  <1>b. signed' = signed => SignedKept
    BY DEF SignedKept
  <1>c. auditLog' = auditLog => AuditKept
    BY DEF AuditKept
  <1>1. ASSUME NEW w \in Workers, NEW a \in bounds.actors, NEW c \in bounds.local,
               NEW s \in {"cli", "mcp"}, 
               RunUnsigned(w, s, a, c) \/ SignedHere(w, s, a, c) \/ SignUnchecked(w, a, c)
        PROVE  Provable'
    <2>1. /\ OtherJobsKept(w) /\ work'[w].at # "remember"
          /\ ~work'[w].verified \/ <<"unchecked", work'[w].bundle>> \in troubled'
      <3>1. CASE RunUnsigned(w, s, a, c) \/ SignedHere(w, s, a, c)
        BY <3>1, NewJobs
      <3>2. CASE SignUnchecked(w, a, c)
        <4>1. OtherJobsKept(w) /\ work'[w].at = "run" /\ work'[w].bundle = Len(signed) + 1
          BY <3>2, NewJobs
        <4>2. <<"unchecked", Len(signed) + 1>> \in troubled'
          BY <3>2 DEF SignUnchecked
        <4>3. QED
          BY <4>1, <4>2
      <3>3. QED
        BY <1>1, <3>1, <3>2
    <2>2. registry' = registry /\ auditLog' = auditLog /\ troubled \subseteq troubled'
      BY <1>1 DEF RunUnsigned, SignedHere, SignUnchecked, database
    <2>3. SignedKept
      <3>1. CASE RunUnsigned(w, s, a, c)
        BY <1>b, <3>1 DEF RunUnsigned
      <3>2. CASE SignedHere(w, s, a, c)
        BY <3>2 DEF SignedHere, Sign, SignedKept, GateTypes, GateTypeOK
      <3>3. CASE SignUnchecked(w, a, c)
        BY <3>3 DEF SignUnchecked, Sign, SignedKept, GateTypes, GateTypeOK
      <3>4. QED
        BY <1>1, <3>1, <3>2, <3>3
    <2>4. QED
      BY <1>a, <1>c, <2>1, <2>2, <2>3, ProvableQuiet, ProvableStep
  <1>2. ASSUME NEW a \in bounds.actors, NEW c \in bounds.posted, PostEnvelope(a, c)
        PROVE  Provable'
    <2>1. registry' = registry /\ auditLog' = auditLog /\ work' = work /\ troubled' = troubled
      BY <1>2 DEF PostEnvelope, database
    <2>2. SignedKept
      BY <1>2 DEF PostEnvelope, Sign, SignedKept, GateTypes, GateTypeOK
    <2>3. \A v \in Workers : work[v].verified \/ work[v].at = "remember" =>
            work[v].bundle \in DOMAIN signed /\ Vouched(work[v].bundle)
      BY DEF GateTypes, WorkOK, EnvelopeOK, Provable, At
    <2>4. QED
      BY <1>a, <1>c, <2>1, <2>2, <2>3, ProvableStep
  <1>3. ASSUME NEW w \in Workers, NEW b \in sent, Deliver(w, b)
        PROVE  Provable'
    <2>1. OtherJobsKept(w) /\ work'[w].at # "remember" /\ ~work'[w].verified
      BY <1>3, NewJobs
    <2>2. registry' = registry /\ auditLog' = auditLog /\ signed' = signed /\ troubled \subseteq troubled'
      BY <1>3 DEF Deliver, database
    <2>3. QED
      BY <1>a, <1>b, <1>c, <2>1, <2>2, ProvableQuiet, ProvableStep
  <1>4. ASSUME NEW w \in Workers, VerifyBundle(w)
        PROVE  Provable'
    <2>1. registry' = registry /\ auditLog' = auditLog /\ signed' = signed /\ troubled \subseteq troubled'
      BY <1>4 DEF VerifyBundle, database
    <2>2. CASE Go(w, "remember") /\ Confirmed(work[w].bundle, ActorKey(work[w].actor))
      <3>1. /\ work[w].bundle \in DOMAIN signed /\ signed[work[w].bundle].actor = work[w].actor
        BY <1>4 DEF VerifyBundle, At, GateTypes, WorkOK, EnvelopeOK
      <3>2. Vouched(work[w].bundle)
        BY <2>2, <3>1 DEF Confirmed, ActorKey, ActiveKeys, KeyKnown, KeyRows, Vouched
      <3>3. OtherJobsKept(w) /\ work'[w].bundle = work[w].bundle
        BY <2>2, StepGoes DEF SameJob
      <3>4. \A v \in Workers : work[v].verified \/ work[v].at = "remember" =>
              work[v].bundle \in DOMAIN signed /\ Vouched(work[v].bundle)
        BY DEF GateTypes, WorkOK, EnvelopeOK, Provable, At
      <3>5. QED
        BY <1>a, <1>b, <1>c, <2>1, <3>1, <3>2, <3>3, <3>4, ProvableStep DEF OtherJobsKept
    <2>3. CASE Go(w, "authorise") \/ Finish(w)
      <3>1. /\ OtherJobsKept(w) /\ work'[w].at # "remember"
            /\ work'[w].verified => work[w].verified /\ work'[w].bundle = work[w].bundle
        BY <2>3, StepGoes, Finishes DEF SameJob
      <3>2. QED
        BY <1>a, <1>b, <1>c, <2>1, <3>1, ProvableQuiet, ProvableStep
    <2>4. QED
      BY <1>4, <2>2, <2>3 DEF VerifyBundle
  <1>5. ASSUME NEW w \in Workers, RememberNonce(w)
        PROVE  Provable'
    <2>1. registry' = registry /\ auditLog' = auditLog /\ signed' = signed /\ troubled \subseteq troubled'
      BY <1>5 DEF RememberNonce, database
    <2>2. OtherJobsKept(w) /\ work[w].at = "remember" /\ work'[w].bundle = work[w].bundle
      BY <1>5, RememberGoes
    <2>3. \A v \in Workers : work[v].verified \/ work[v].at = "remember" =>
            work[v].bundle \in DOMAIN signed /\ Vouched(work[v].bundle)
      BY DEF GateTypes, WorkOK, EnvelopeOK, Provable, At
    <2>4. QED
      BY <1>a, <1>b, <1>c, <2>1, <2>2, <2>3, ProvableStep DEF OtherJobsKept
  <1>6. ASSUME NEW w \in Workers,
               \/ Authorise(w) \/ RevokeRole(w) \/ AuthzOn(w) \/ ImplyEnforce(w) \/ Die(w) \/ WriteMinted(w)
               \/ NoDatabase(w)
        PROVE  Provable'
    <2>1. /\ Finish(w) \/ Go(w, "run") \/ Go(w, "unrole") \/ Go(w, "imply") \/ Go(w, "own")
          /\ registry' = registry /\ auditLog' = auditLog /\ signed' = signed /\ troubled \subseteq troubled'
      BY <1>6 DEF Authorise, RevokeRole, AuthzOn, ImplyEnforce, Die, WriteMinted, NoDatabase, database
    <2>2. /\ OtherJobsKept(w) /\ work'[w].at # "remember"
          /\ work'[w].verified => work[w].verified /\ work'[w].bundle = work[w].bundle
      BY <2>1, StepGoes, Finishes DEF SameJob
    <2>3. QED
      BY <1>a, <1>b, <1>c, <2>1, <2>2, ProvableQuiet, ProvableStep
  <1>7. ASSUME NEW w \in Workers,
               \/ BookEntry(w) \/ SetEnforce(w) \/ AuthzOff(w) \/ GrantRole(w) \/ OwnFlipper(w)
               \/ DeleteRole(w)
        PROVE  Provable'
    <2>1. Finish(w) /\ RecordSigned(w) /\ registry' = registry /\ signed' = signed /\ troubled' = troubled
      BY <1>7 DEF BookEntry, SetEnforce, AuthzOff, GrantRole, OwnFlipper, DeleteRole, database
    <2>2. OtherJobsKept(w) /\ work'[w].at # "remember" /\ ~work'[w].verified
      BY <2>1, Finishes
    <2>3. QED
      BY <1>a, <1>b, <2>1, <2>2, Records, ProvableQuiet, ProvableStep
  <1>8. ASSUME NEW w \in Workers, Register(w)
        PROVE  Provable'
    <2>1. /\ OtherJobsKept(w) /\ work'[w].at # "remember"
          /\ work'[w].verified => work[w].verified /\ work'[w].bundle = work[w].bundle
      BY <1>8, RegisterGoes, Finishes
    <2>2. registry' = registry /\ auditLog' = auditLog /\ signed' = signed /\ troubled \subseteq troubled'
      BY <1>8 DEF Register, database
    <2>3. QED
      BY <1>a, <1>b, <1>c, <2>1, <2>2, ProvableQuiet, ProvableStep
  <1>9. ASSUME NEW w \in Workers, Enrol(w) \/ RevokeKey(w)
        PROVE  Provable'
    <2>1. Finish(w) /\ signed' = signed /\ troubled' = troubled
      BY <1>9 DEF Enrol, RevokeKey
    <2>2. OtherJobsKept(w) /\ work'[w].at # "remember" /\ ~work'[w].verified
      BY <2>1, Finishes
    <2>3. AuditKept
      BY <1>9, <1>c, Records DEF Enrol, RevokeKey
    <2>4. RowsKept
      <3>1. CASE registry' = registry
        BY <1>a, <3>1
      <3>2. CASE Enrol(w) /\ registry' = Enrolled(work[w].actor, work[w].key)
        BY <3>2 DEF Enrolled, RowsKept, GateTypes, GateTypeOK
      <3>3. CASE \E who : Revoke(who)
        BY <3>3, RevokeTypes DEF RowsKept, GateTypes, GateTypeOK
      <3>4. QED
        BY <1>9, <3>1, <3>2, <3>3 DEF Enrol, RevokeKey
    <2>5. QED
      BY <1>b, <2>1, <2>2, <2>3, <2>4, ProvableQuiet, ProvableStep
  <1>10. ASSUME NEW w \in Workers,
                MintToken(w) \/ SpendToken(w) \/ \E t \in DOMAIN tokens : RedeemToken(w, t)
         PROVE  Provable'
    <2>1. /\ OtherJobsKept(w) /\ work'[w].at # "remember"
          /\ work'[w].verified => work[w].verified /\ work'[w].bundle = work[w].bundle
      BY <1>10, NewJobs, SpendGoes
    <2>2. registry' = registry /\ auditLog' = auditLog /\ signed' = signed /\ troubled \subseteq troubled'
      BY <1>10 DEF MintToken, SpendToken, RedeemToken, database
    <2>3. QED
      BY <1>a, <1>b, <1>c, <2>1, <2>2, ProvableQuiet, ProvableStep
  <1>11. CASE Tick \/ OpenEmpty \/ \E a \in bounds.actors : Keygen(a) \/ Unlock(a) \/ Lock(a)
    <2>1. registry' = registry /\ auditLog' = auditLog /\ signed' = signed /\ work' = work /\ troubled' = troubled
      BY <1>11 DEF Tick, OpenEmpty, Keygen, Unlock, Lock, database
    <2>2. \A v \in Workers : work[v].verified \/ work[v].at = "remember" =>
            work[v].bundle \in DOMAIN signed /\ Vouched(work[v].bundle)
      BY DEF GateTypes, WorkOK, EnvelopeOK, Provable, At
    <2>3. QED
      BY <1>a, <1>b, <1>c, <2>1, <2>2, ProvableStep
  <1>12. ASSUME NEW w \in Workers, InitCompany(w)
         PROVE  Provable'
    <2>1. Finish(w) /\ registry' = registry /\ signed' = signed /\ troubled' = troubled
      BY <1>12 DEF InitCompany
    <2>2. OtherJobsKept(w) /\ work'[w].at # "remember" /\ ~work'[w].verified
      BY <2>1, Finishes
    <2>3. AuditKept
      BY <1>12, <1>c, Records DEF InitCompany
    <2>4. QED
      BY <1>a, <1>b, <2>1, <2>2, <2>3, ProvableQuiet, ProvableStep
  <1>13. QED
    BY <1>1, <1>2, <1>3, <1>4, <1>5, <1>6, <1>7, <1>8, <1>9, <1>10, <1>11, <1>12, NextCases

LEMMA ProvableStutter ==
  ASSUME Provable, UNCHANGED gateVars
  PROVE  Provable'
  BY DEF Provable, Vouched, Unchecked, KeyKnown, KeyRows, At, gateVars, database

\* Such a row is ok, or its key was revoked, or nobody was there to ask for it.
LEMMA ProvableVerifies ==
  ASSUME Provable
  PROVE  TrailVerifies
  <1>1. ASSUME NEW r \in auditLog, r.checked
        PROVE  \/ Classify(r) \in {"ok", "revoked"}
               \/ Classify(r) = "unknown-key" /\ Unchecked(r.bundle)
    <2>1. Vouched(r.bundle) /\ r.actor = signed[r.bundle].actor /\ r.cmd = signed[r.bundle].cmd
      BY <1>1 DEF Provable
    <2>2. Classify(r) \in {"ok", "revoked", "unknown-key"}
      BY <2>1 DEF Classify, Digest
    <2>3. KeyKnown(r.bundle) => Classify(r) # "unknown-key"
      BY <2>1 DEF Classify, Digest, KeyKnown
    <2>4. QED
      BY <2>1, <2>2, <2>3 DEF Vouched
  <1>2. QED
    BY <1>1 DEF TrailVerifies, Trail, Unchecked

\* What the gate verified is ok for ever, or revoked, however keys are rotated;
\* a command signed with no database to ask for its key may be of an unknown one.
THEOREM TrailAlwaysVerifies == GateSpec => []TrailVerifies
  <1>1. GateInit => Provable
    BY DEF GateInit, Provable, At, Idle
  <1>2. GateTypes /\ Provable /\ [GateNext]_gateVars => (GateTypes /\ Provable)'
    BY NextTypes, TypesStutter, NextProvable, ProvableStutter
  <1>3. Provable => TrailVerifies
    BY ProvableVerifies
  <1>4. QED
    BY <1>1, <1>2, <1>3, InitTypes, PTL DEF GateSpec

----------------------------------------------------------------------------------
(* An actor has one active key. *)

\* A step that enrols nobody and leaves no key active that was not.
LEMMA ActorsQuiet ==
  ASSUME ActorsOnce, troubled \subseteq troubled',
         \A a \in Actors : ActiveKeys(a)' \subseteq ActiveKeys(a),
         \A v \in Workers : At(v, "enrol")' => At(v, "enrol") /\ work'[v].actor = work[v].actor
  PROVE  ActorsOnce'
  <1> SUFFICES ASSUME NEW a \in Actors, <<"actor", a>> \notin troubled'
               PROVE  ActorOnce(a)'
    BY DEF ActorsOnce
  <1>1. ActorOnce(a)
    BY DEF ActorsOnce
  <1>2. \A v \in Workers : Enrolling(v, a)' => Enrolling(v, a)
    BY DEF Enrolling, At
  <1>3. QED
    BY <1>1, <1>2 DEF ActorOnce

LEMMA ActorsQuietStep ==
  ASSUME ActorsOnce, troubled \subseteq troubled',
         \A a \in Actors : ActiveKeys(a)' \subseteq ActiveKeys(a),
         NEW w \in Workers, OtherJobsKept(w), work'[w].at # "enrol"
  PROVE  ActorsOnce'
  <1>1. \A v \in Workers : At(v, "enrol")' => At(v, "enrol") /\ work'[v].actor = work[v].actor
    BY DEF At, OtherJobsKept
  <1>2. QED
    BY <1>1, ActorsQuiet

LEMMA ActiveSame ==
  ASSUME registry' = registry
  PROVE  \A a \in Actors : ActiveKeys(a)' = ActiveKeys(a)
  BY DEF ActiveKeys

LEMMA RegisterActors ==
  ASSUME GateTypes, ActorsOnce, NEW w \in Workers, Register(w)
  PROVE  ActorsOnce'
  <1>1. registry' = registry /\ troubled \subseteq troubled'
    BY DEF Register, database
  <1>2. CASE Finish(w)
    <2>1. OtherJobsKept(w) /\ work'[w].at # "enrol"
      BY <1>2, Finishes
    <2>2. QED
      BY <1>1, <2>1, ActiveSame, ActorsQuietStep
  <1>3. CASE ~Finish(w)
    <2> DEFINE x == work[w].actor
    <2>1. /\ OtherJobsKept(w) /\ work'[w].at = "enrol" /\ work'[w].actor = x /\ ActiveKeys(x) = {}
          /\ (\E v \in Others(w, {"enrol"}) : work[v].actor = x) => <<"actor", x>> \in troubled'
      BY <1>3, RegisterGoes
    <2> SUFFICES ASSUME NEW a \in Actors, <<"actor", a>> \notin troubled'
                 PROVE  ActorOnce(a)'
      BY DEF ActorsOnce
    <2>2. ActorOnce(a) /\ ActiveKeys(a)' = ActiveKeys(a)
      BY <1>1, ActiveSame DEF ActorsOnce
    <2>3. \A v \in Workers : v # w => (Enrolling(v, a)' <=> Enrolling(v, a))
      BY <2>1 DEF Enrolling, At, OtherJobsKept
    <2>4. Enrolling(w, a)' => a = x
      BY <2>1 DEF Enrolling
    <2>5. a = x => \A v \in Workers : v # w => ~Enrolling(v, a)
      BY <2>1 DEF Others, Enrolling, At
    <2>6. QED
      BY <2>1, <2>2, <2>3, <2>4, <2>5 DEF ActorOnce
  <1>4. QED
    BY <1>2, <1>3

LEMMA EnrolActors ==
  ASSUME GateTypes, ActorsOnce, NEW w \in Workers, Enrol(w)
  PROVE  ActorsOnce'
  <1> DEFINE x == work[w].actor
  <1>1. Finish(w) /\ troubled' = troubled /\ At(w, "enrol")
    BY DEF Enrol
  <1>2. OtherJobsKept(w) /\ work'[w].at = "idle"
    BY <1>1, Finishes
  <1>3. CASE registry' = registry
    BY <1>1, <1>2, <1>3, ActiveSame, ActorsQuietStep
  <1>4. CASE registry' = Append(registry, [actor |-> x, key |-> work[w].key, revoked |-> FALSE])
    <2> SUFFICES ASSUME NEW a \in Actors, <<"actor", a>> \notin troubled
                 PROVE  ActorOnce(a)'
      BY <1>1 DEF ActorsOnce
    <2>1. ActorOnce(a)
      BY DEF ActorsOnce
    <2>2. \A v \in Workers : Enrolling(v, a)' => v # w /\ Enrolling(v, a)
      BY <1>2 DEF Enrolling, At, OtherJobsKept
    <2>3. registry \in Seq(KeyRow)
      BY DEF GateTypes, GateTypeOK
    <2>4. ActiveKeys(a)' = ActiveKeys(a) \cup (IF a = x THEN {Len(registry) + 1} ELSE {})
      BY <1>4, <2>3 DEF ActiveKeys
    <2>5. a = x => ActiveKeys(a) = {} /\ \A v \in Workers : ~Enrolling(v, a)'
      BY <1>1, <2>1, <2>2 DEF ActorOnce, Enrolling
    <2>6. QED
      BY <2>1, <2>2, <2>4, <2>5 DEF ActorOnce
  <1>5. QED
    BY <1>3, <1>4 DEF Enrol, Enrolled

LEMMA NextActorsOnce ==
  ASSUME GateTypes, ActorsOnce, GateNext
  PROVE  ActorsOnce'
  <1>1. ASSUME NEW w \in Workers, NEW a \in bounds.actors, NEW c \in bounds.local,
               NEW s \in {"cli", "mcp"},
               RunUnsigned(w, s, a, c) \/ SignedHere(w, s, a, c) \/ SignUnchecked(w, a, c)
        PROVE  ActorsOnce'
    <2>1. OtherJobsKept(w) /\ work'[w].at # "enrol"
      BY <1>1, NewJobs
    <2>2. registry' = registry /\ troubled \subseteq troubled'
      BY <1>1 DEF RunUnsigned, SignedHere, SignUnchecked, database
    <2>3. QED
      BY <2>1, <2>2, ActiveSame, ActorsQuietStep
  <1>2. ASSUME NEW w \in Workers, NEW b \in sent, Deliver(w, b)
        PROVE  ActorsOnce'
    <2>1. OtherJobsKept(w) /\ work'[w].at # "enrol"
      BY <1>2, NewJobs
    <2>2. registry' = registry /\ troubled \subseteq troubled'
      BY <1>2 DEF Deliver, database
    <2>3. QED
      BY <2>1, <2>2, ActiveSame, ActorsQuietStep
  <1>3. ASSUME NEW w \in Workers, VerifyBundle(w) \/ RememberNonce(w) \/ Authorise(w)
        PROVE  ActorsOnce'
    <2>1. OtherJobsKept(w) /\ work'[w].at # "enrol"
      BY <1>3, StepGoes, Finishes, RememberGoes DEF VerifyBundle, Authorise
    <2>2. registry' = registry /\ troubled' = troubled
      BY <1>3 DEF VerifyBundle, RememberNonce, Authorise, database
    <2>3. QED
      BY <2>1, <2>2, ActiveSame, ActorsQuietStep
  <1>4. ASSUME NEW w \in Workers,
               \/ BookEntry(w) \/ SetEnforce(w) \/ AuthzOff(w) \/ GrantRole(w) \/ OwnFlipper(w)
               \/ DeleteRole(w) \/ WriteMinted(w) \/ Die(w) \/ NoDatabase(w) \/ InitCompany(w)
        PROVE  ActorsOnce'
    <2>1. Finish(w) /\ registry' = registry /\ troubled \subseteq troubled'
      BY <1>4 DEF BookEntry, SetEnforce, AuthzOff, GrantRole, OwnFlipper, DeleteRole, WriteMinted, Die,
                  NoDatabase, InitCompany, database
    <2>2. OtherJobsKept(w) /\ work'[w].at # "enrol"
      BY <2>1, Finishes
    <2>3. QED
      BY <2>1, <2>2, ActiveSame, ActorsQuietStep
  <1>5. ASSUME NEW w \in Workers, AuthzOn(w) \/ ImplyEnforce(w) \/ RevokeRole(w)
        PROVE  ActorsOnce'
    <2>1. /\ Finish(w) \/ Go(w, "imply") \/ Go(w, "own") \/ Go(w, "unrole")
          /\ registry' = registry /\ troubled \subseteq troubled'
      BY <1>5 DEF AuthzOn, ImplyEnforce, RevokeRole, database
    <2>2. OtherJobsKept(w) /\ work'[w].at # "enrol"
      BY <2>1, StepGoes, Finishes
    <2>3. QED
      BY <2>1, <2>2, ActiveSame, ActorsQuietStep
  <1>6. ASSUME NEW w \in Workers, RevokeKey(w)
        PROVE  ActorsOnce'
    <2>1. Finish(w) /\ troubled' = troubled
      BY <1>6 DEF RevokeKey
    <2>2. OtherJobsKept(w) /\ work'[w].at # "enrol"
      BY <2>1, Finishes
    <2>3. ASSUME NEW who, Revoke(who)
          PROVE  \A a \in Actors : ActiveKeys(a)' \subseteq ActiveKeys(a)
      <3>1. PICK i \in ActorKey(who) : registry' = [registry EXCEPT ![i].revoked = TRUE]
        BY <2>3 DEF Revoke
      <3>2. registry \in Seq(KeyRow) /\ i \in DOMAIN registry /\ registry[i] \in KeyRow
        BY DEF ActorKey, ActiveKeys, GateTypes, GateTypeOK
      <3>3. DOMAIN registry' = DOMAIN registry /\ registry'[i].revoked
        BY <3>1, <3>2 DEF KeyRow
      <3>4. \A k \in DOMAIN registry : k # i => registry'[k] = registry[k]
        BY <3>1, <3>2
      <3>5. QED
        BY <3>3, <3>4 DEF ActiveKeys
    <2>4. \A a \in Actors : ActiveKeys(a)' \subseteq ActiveKeys(a)
      BY <1>6, <2>3, ActiveSame DEF RevokeKey
    <2>5. QED
      BY <2>1, <2>2, <2>4, ActorsQuietStep
  <1>7. ASSUME NEW w \in Workers,
               MintToken(w) \/ SpendToken(w) \/ \E t \in DOMAIN tokens : RedeemToken(w, t)
        PROVE  ActorsOnce'
    <2>1. OtherJobsKept(w) /\ work'[w].at # "enrol"
      BY <1>7, NewJobs, SpendGoes
    <2>2. registry' = registry /\ troubled \subseteq troubled'
      BY <1>7 DEF MintToken, SpendToken, RedeemToken, database
    <2>3. QED
      BY <2>1, <2>2, ActiveSame, ActorsQuietStep
  <1>8. CASE \/ \E a \in bounds.actors, c \in bounds.posted : PostEnvelope(a, c)
             \/ Tick \/ OpenEmpty
             \/ \E a \in bounds.actors : Keygen(a) \/ Unlock(a) \/ Lock(a)
    <2>1. registry' = registry /\ work' = work /\ troubled' = troubled
      BY <1>8 DEF PostEnvelope, Tick, OpenEmpty, Keygen, Unlock, Lock, database
    <2>2. QED
      BY <2>1, ActiveSame, ActorsQuiet DEF At
  <1>9. QED
    BY <1>1, <1>2, <1>3, <1>4, <1>5, <1>6, <1>7, <1>8, RegisterActors, EnrolActors, NextCases

----------------------------------------------------------------------------------
(* A token enrols once. *)

LEMMA TokensQuiet ==
  ASSUME TokensKept, tokens' = tokens, spent' = spent, troubled \subseteq troubled',
         \A v \in Workers : work'[v].at \in TokenStep =>
           /\ work'[v].at = work[v].at /\ work'[v].read = work[v].read /\ work'[v].token = work[v].token,
         \A v \in Workers, t \in DOMAIN tokens : Redeeming(v, t)' => Redeeming(v, t)
  PROVE  TokensKept'
  <1> SUFFICES ASSUME <<"tokens", 0>> \notin troubled' PROVE TokensOnce'
    BY DEF TokensKept
  <1>1. TokensOnce
    BY DEF TokensKept
  <1>2. Len(tokens') = Len(spent')
    BY <1>1 DEF TokensOnce
  <1>3. \A w, v \in Workers : work'[w].at \in TokenStep /\ work'[v].at \in TokenStep => w = v
    BY <1>1 DEF TokensOnce
  <1>4. \A w \in Workers : work'[w].at \in TokenStep => work'[w].read = tokens'
    BY <1>1 DEF TokensOnce
  <1>5. \A w \in Workers : work'[w].at = "spend" => ~tokens'[work'[w].token]
    BY <1>1 DEF TokensOnce, TokenStep, At
  <1>6. \A t \in DOMAIN tokens' :
          /\ spent'[t] <= 1
          /\ \A w, v \in Workers : Redeeming(w, t)' /\ Redeeming(v, t)' => w = v
          /\ \A w \in Workers : Redeeming(w, t)' => tokens'[t] /\ spent'[t] = 0
          /\ ~tokens'[t] => spent'[t] = 0
    BY <1>1 DEF TokensOnce
  <1>7. QED
    BY <1>2, <1>3, <1>4, <1>5, <1>6 DEF TokensOnce, At

\* ... of a process that keeps the token it has spent, or has none.
LEMMA TokensQuietStep ==
  ASSUME GateTypes, TokensKept, tokens' = tokens, spent' = spent, troubled \subseteq troubled',
         NEW w \in Workers, OtherJobsKept(w), work'[w].at \notin TokenStep,
         \/ work'[w].token = 0
         \/ work'[w].token = work[w].token /\ work[w].at # "spend"
  PROVE  TokensKept'
  <1>1. \A v \in Workers : work'[v].at \in TokenStep =>
          /\ work'[v].at = work[v].at /\ work'[v].read = work[v].read /\ work'[v].token = work[v].token
    BY DEF OtherJobsKept
  <1>2. \A t \in DOMAIN tokens : t # 0
    BY DEF GateTypes, GateTypeOK
  <1>3. \A v \in Workers, t \in DOMAIN tokens : Redeeming(v, t)' => Redeeming(v, t)
    BY <1>2 DEF Redeeming, At, OtherJobsKept
  <1>4. QED
    BY <1>1, <1>3, TokensQuiet

\* Taking the token file up.
LEMMA TokensRead ==
  ASSUME GateTypes, TokensKept, tokens' = tokens, spent' = spent, NEW w \in Workers,
         troubled' = troubled \cup MeetsToken(w),
         OtherJobsKept(w), work'[w].read = tokens,
         \/ work'[w].at = "mint" /\ work'[w].token = 0
         \/ work'[w].at = "spend" /\ work'[w].token \in DOMAIN tokens /\ ~tokens[work'[w].token]
  PROVE  TokensKept'
  <1> SUFFICES ASSUME <<"tokens", 0>> \notin troubled' PROVE TokensOnce'
    BY DEF TokensKept
  <1>1. TokensOnce
    BY DEF TokensKept
  <1>2. \A v \in Workers : v # w => work[v].at \notin TokenStep /\ work'[v] = work[v]
    BY DEF MeetsToken, Others, OtherJobsKept
  <1>3. \A t \in DOMAIN tokens : t # 0
    BY DEF GateTypes, GateTypeOK
  <1>4. \A v \in Workers, t \in DOMAIN tokens : Redeeming(v, t)' => Redeeming(v, t)
    BY <1>2, <1>3 DEF Redeeming, At
  <1>5. \A v \in Workers : work'[v].at \in TokenStep => v = w
    BY <1>2
  <1>6. work'[w].at = "spend" => ~tokens'[work'[w].token]
    OBVIOUS
  <1>7. \A t \in DOMAIN tokens' :
          /\ spent'[t] <= 1
          /\ \A u, v \in Workers : Redeeming(u, t)' /\ Redeeming(v, t)' => u = v
          /\ \A v \in Workers : Redeeming(v, t)' => tokens'[t] /\ spent'[t] = 0
          /\ ~tokens'[t] => spent'[t] = 0
    BY <1>1, <1>4 DEF TokensOnce
  <1>8. Len(tokens') = Len(spent')
    BY <1>1 DEF TokensOnce
  <1>9. \A v \in Workers : At(v, "spend")' => ~tokens'[work'[v].token]
    BY <1>5, <1>6 DEF At, TokenStep
  <1>10. QED
    BY <1>5, <1>7, <1>8, <1>9 DEF TokensOnce

LEMMA TokensWritten ==
  ASSUME GateTypes, TokensKept, NEW w \in Workers, WriteMinted(w)
  PROVE  TokensKept'
  <1> SUFFICES ASSUME <<"tokens", 0>> \notin troubled PROVE TokensOnce'
    BY DEF TokensKept, WriteMinted
  <1>1. TokensOnce /\ work[w].at = "mint" /\ work[w].read = tokens
    BY DEF TokensKept, TokensOnce, TokenStep, WriteMinted, At
  <1>2. tokens \in Seq(BOOLEAN) /\ spent \in Seq(Nat) /\ Len(tokens) = Len(spent) /\ Len(spent) \in Nat
    BY <1>1 DEF GateTypes, GateTypeOK, StateOK, TokensOnce
  <1>3. tokens' = Append(tokens, FALSE) /\ Len(tokens') = Len(tokens) + 1
    BY <1>1, <1>2 DEF WriteMinted
  <1>4. spent' = Append(spent, 0)
    BY <1>2, <1>3 DEF WriteMinted
  <1>5. OtherJobsKept(w) /\ work'[w].at = "idle" /\ work'[w].token = 0
    BY Finishes DEF WriteMinted
  <1>6. \A v \in Workers : work'[v].at \notin TokenStep
    BY <1>1, <1>5 DEF TokensOnce, TokenStep, OtherJobsKept
  <1>7. \A v \in Workers : work'[v].token \in 0..Len(tokens) /\ (work'[v].token # 0 => work'[v] = work[v])
    BY <1>2, <1>5 DEF GateTypes, WorkOK, EnvelopeOK, OtherJobsKept
  <1>8. \A t \in DOMAIN tokens' : t \in DOMAIN tokens \/ (t = Len(tokens) + 1 /\ t \notin DOMAIN tokens)
    BY <1>2, <1>3
  <1>9. \A t \in DOMAIN tokens : tokens'[t] = tokens[t] /\ spent'[t] = spent[t] /\ t # 0
    <2>1. \A t \in DOMAIN tokens : t \in DOMAIN spent /\ t # 0
      BY <1>2
    <2>2. \A t \in DOMAIN tokens : tokens'[t] = tokens[t]
      <3>1. tokens \in Seq(BOOLEAN) /\ tokens' = Append(tokens, FALSE) /\ DOMAIN tokens = 1..Len(tokens)
        BY <1>2, <1>3
      <3>2. FALSE \in BOOLEAN
        OBVIOUS
      <3>3. \A t \in 1..Len(tokens) : Append(tokens, FALSE)[t] = tokens[t]
        BY <3>1, <3>2, AppendProperties
      <3>4. QED
        BY <3>1, <3>3, Zenon
    <2>3. \A t \in DOMAIN spent : spent'[t] = spent[t]
      <3>1. spent \in Seq(Nat) /\ spent' = Append(spent, 0)
        BY <1>2, <1>4
      <3>2. QED
        BY <3>1, AppendProperties
    <2>4. QED
      BY <2>1, <2>2, <2>3
  <1>10. ASSUME NEW t \in DOMAIN tokens'
         PROVE  /\ spent'[t] <= 1
                /\ \A u, v \in Workers : Redeeming(u, t)' /\ Redeeming(v, t)' => u = v
                /\ \A v \in Workers : Redeeming(v, t)' => tokens'[t] /\ spent'[t] = 0
                /\ ~tokens'[t] => spent'[t] = 0
    <2>1. CASE t \in DOMAIN tokens
      <3>1. \A v \in Workers : Redeeming(v, t)' => Redeeming(v, t)
        <4>1. \A v \in Workers : Redeeming(v, t)' => work'[v] = work[v]
          BY <1>7, <1>9, <2>1 DEF Redeeming
        <4>2. QED
          BY <4>1 DEF Redeeming, At
      <3>2. QED
        BY <1>1, <1>9, <2>1, <3>1 DEF TokensOnce
    <2>2. CASE t = Len(tokens) + 1
      <3>1. \A v \in Workers : ~Redeeming(v, t)'
        BY <1>2, <1>7, <2>2 DEF Redeeming
      <3>2. spent'[t] = 0
        BY <1>2, <1>4, <2>2
      <3>3. QED
        BY <3>1, <3>2
    <2>3. QED
      BY <1>8, <2>1, <2>2
  <1>11. Len(tokens') = Len(spent')
    BY <1>2, <1>3, <1>4
  <1>12. QED
    BY <1>6, <1>10, <1>11 DEF TokensOnce, At, TokenStep

LEMMA TokensSpent ==
  ASSUME GateTypes, TokensKept, NEW w \in Workers, SpendToken(w)
  PROVE  TokensKept'
  <1> SUFFICES ASSUME <<"tokens", 0>> \notin troubled PROVE TokensOnce'
    BY DEF TokensKept, SpendToken
  <1> DEFINE x == work[w].token
  <1>1. TokensOnce /\ work[w].at = "spend" /\ work[w].read = tokens /\ ~tokens[x]
    BY DEF TokensKept, TokensOnce, TokenStep, SpendToken, At
  <1>2. tokens \in Seq(BOOLEAN) /\ spent \in Seq(Nat) /\ x \in DOMAIN tokens /\ spent' = spent
    BY <1>1 DEF GateTypes, GateTypeOK, StateOK, WorkOK, EnvelopeOK, SpendToken
  <1>3. tokens' = [tokens EXCEPT ![x] = TRUE]
    BY <1>1 DEF SpendToken, Used
  <1>4. OtherJobsKept(w) /\ work'[w].at = "run" /\ work'[w].token = x
    BY SpendGoes
  <1>5. \A v \in Workers : work'[v].at \notin TokenStep
    BY <1>1, <1>4 DEF TokensOnce, TokenStep, OtherJobsKept
  <1>6. Len(tokens') = Len(tokens) /\ DOMAIN tokens' = DOMAIN tokens
    BY <1>2, <1>3
  <1>7. \A t \in DOMAIN tokens : tokens'[t] = (IF t = x THEN TRUE ELSE tokens[t])
    BY <1>2, <1>3
  <1>8. \A v \in Workers : ~Redeeming(v, x)
    BY <1>1, <1>2 DEF TokensOnce
  <1>9. \A v \in Workers, t \in DOMAIN tokens : Redeeming(v, t)' => Redeeming(v, t) \/ (v = w /\ t = x)
    BY <1>4 DEF Redeeming, At, OtherJobsKept
  <1>10. ASSUME NEW t \in DOMAIN tokens'
         PROVE  /\ spent'[t] <= 1
                /\ \A u, v \in Workers : Redeeming(u, t)' /\ Redeeming(v, t)' => u = v
                /\ \A v \in Workers : Redeeming(v, t)' => tokens'[t] /\ spent'[t] = 0
                /\ ~tokens'[t] => spent'[t] = 0
    <2>1. CASE t = x
      <3>1. spent[t] = 0 /\ \A v \in Workers : Redeeming(v, t)' => v = w
        BY <1>1, <1>2, <1>8, <1>9, <2>1 DEF TokensOnce
      <3>2. tokens'[t] = TRUE /\ spent'[t] = 0
        BY <1>2, <1>7, <2>1, <3>1
      <3>3. QED
        BY <3>1, <3>2
    <2>2. CASE t # x
      <3>1. \A v \in Workers : Redeeming(v, t)' => Redeeming(v, t)
        BY <1>6, <1>9, <2>2
      <3>2. QED
        BY <1>1, <1>2, <1>6, <1>7, <2>2, <3>1 DEF TokensOnce
    <2>3. QED
      BY <2>1, <2>2
  <1>11. QED
    BY <1>1, <1>2, <1>5, <1>6, <1>10 DEF TokensOnce, At, TokenStep

LEMMA TokensEnrol ==
  ASSUME GateTypes, TokensKept, NEW w \in Workers, Enrol(w)
  PROVE  TokensKept'
  <1>0. PICK x : x = work[w].token
    OBVIOUS
  <1>1. OtherJobsKept(w) /\ work'[w].at = "idle" /\ work'[w].token = 0 /\ work[w].at = "enrol"
    BY Finishes DEF Enrol, At
  <1>2. tokens' = tokens /\ troubled' = troubled
    BY DEF Enrol
  <1>3. CASE spent' = spent
    BY <1>1, <1>2, <1>3, TokensQuietStep DEF TokenStep
  <1>4. CASE x # 0 /\ spent' = [spent EXCEPT ![x] = @ + 1]
    <2> SUFFICES ASSUME <<"tokens", 0>> \notin troubled PROVE TokensOnce'
      BY <1>2 DEF TokensKept
    <2>1. TokensOnce /\ spent \in Seq(Nat) /\ tokens \in Seq(BOOLEAN) /\ Len(tokens) = Len(spent)
      BY DEF TokensKept, TokensOnce, GateTypes, GateTypeOK, StateOK
    <2>2. x \in DOMAIN tokens /\ x \in DOMAIN spent
      BY <1>0, <1>4, <2>1 DEF GateTypes, WorkOK, EnvelopeOK
    <2>3. Redeeming(w, x)
      BY <1>0, <1>1 DEF Redeeming, At
    <2>4. spent[x] = 0 /\ tokens[x]
      BY <2>1, <2>2, <2>3 DEF TokensOnce
    <2>5. Len(spent') = Len(spent) /\ \A t \in DOMAIN tokens : spent'[t] = (IF t = x THEN 1 ELSE spent[t])
      BY <1>4, <2>1, <2>2, <2>4
    <2>6. \A v \in Workers, t \in DOMAIN tokens : Redeeming(v, t)' => Redeeming(v, t) /\ v # w
      <3>1. \A t \in DOMAIN tokens : t # 0
        BY <2>1
      <3>2. QED
        BY <1>1, <3>1 DEF Redeeming, At, OtherJobsKept
    <2>7. \A v \in Workers : ~Redeeming(v, x)'
      <3>1. \A v \in Workers : Redeeming(v, x) => v = w
        BY <2>1, <2>2, <2>3 DEF TokensOnce
      <3>2. QED
        BY <2>2, <2>6, <3>1
    <2>8. \A v \in Workers : work'[v].at \in TokenStep => work'[v] = work[v]
      BY <1>1 DEF OtherJobsKept, TokenStep
    <2>9. ASSUME NEW t \in DOMAIN tokens
          PROVE  /\ spent'[t] <= 1
                 /\ \A u, v \in Workers : Redeeming(u, t)' /\ Redeeming(v, t)' => u = v
                 /\ \A v \in Workers : Redeeming(v, t)' => tokens[t] /\ spent'[t] = 0
                 /\ ~tokens[t] => spent'[t] = 0
      <3>1. CASE t = x
        <4>1. spent'[t] = 1
          BY <2>5, <3>1
        <4>2. QED
          BY <2>4, <2>7, <3>1, <4>1
      <3>2. CASE t # x
        <4>1. spent'[t] = spent[t]
          BY <2>5, <3>2
        <4>2. \A v \in Workers : Redeeming(v, t)' => Redeeming(v, t)
          BY <2>6
        <4>3. /\ spent[t] <= 1
              /\ \A u, v \in Workers : Redeeming(u, t) /\ Redeeming(v, t) => u = v
              /\ \A v \in Workers : Redeeming(v, t) => tokens[t] /\ spent[t] = 0
              /\ ~tokens[t] => spent[t] = 0
          BY <2>1 DEF TokensOnce
        <4>4. QED
          BY <4>1, <4>2, <4>3
      <3>3. QED
        BY <3>1, <3>2
    <2>10. /\ \A u, v \in Workers : work'[u].at \in TokenStep /\ work'[v].at \in TokenStep => u = v
           /\ \A v \in Workers : work'[v].at \in TokenStep => work'[v].read = tokens
           /\ \A v \in Workers : work'[v].at = "spend" => ~tokens[work'[v].token]
      BY <2>1, <2>8 DEF TokensOnce, TokenStep, At
    <2>11. QED
      BY <1>2, <2>1, <2>5, <2>9, <2>10 DEF TokensOnce, At
  <1>5. QED
    BY <1>0, <1>3, <1>4 DEF Enrol

LEMMA NextTokensKept ==
  ASSUME GateTypes, TokensKept, GateNext
  PROVE  TokensKept'
  <1>1. ASSUME NEW w \in Workers, NEW a \in bounds.actors, NEW c \in bounds.local,
               NEW s \in {"cli", "mcp"},
               RunUnsigned(w, s, a, c) \/ SignedHere(w, s, a, c) \/ SignUnchecked(w, a, c)
        PROVE  TokensKept'
    <2>1. OtherJobsKept(w) /\ work'[w].at \notin TokenStep /\ work'[w].token = 0
      BY <1>1, NewJobs DEF TokenStep
    <2>2. tokens' = tokens /\ spent' = spent /\ troubled \subseteq troubled'
      BY <1>1 DEF RunUnsigned, SignedHere, SignUnchecked
    <2>3. QED
      BY <2>1, <2>2, TokensQuietStep
  <1>2. ASSUME NEW w \in Workers, NEW b \in sent, Deliver(w, b)
        PROVE  TokensKept'
    <2>1. OtherJobsKept(w) /\ work'[w].at \notin TokenStep /\ work'[w].token = 0
      BY <1>2, NewJobs DEF TokenStep
    <2>2. tokens' = tokens /\ spent' = spent /\ troubled \subseteq troubled'
      BY <1>2 DEF Deliver
    <2>3. QED
      BY <2>1, <2>2, TokensQuietStep
  <1>3. ASSUME NEW w \in Workers,
               \/ VerifyBundle(w) \/ RememberNonce(w) \/ Authorise(w)
               \/ AuthzOn(w) \/ ImplyEnforce(w) \/ RevokeRole(w) \/ Register(w)
        PROVE  TokensKept'
    <2>1. tokens' = tokens /\ spent' = spent /\ troubled \subseteq troubled' /\ work[w].at # "spend"
      BY <1>3 DEF VerifyBundle, RememberNonce, Authorise, AuthzOn, ImplyEnforce, RevokeRole, Register, Performs, At
    <2>2. CASE Finish(w)
      <3>1. OtherJobsKept(w) /\ work'[w].at \notin TokenStep /\ work'[w].token = 0
        BY <2>2, Finishes DEF TokenStep
      <3>2. QED
        BY <2>1, <3>1, TokensQuietStep
    <2>3. CASE ~Finish(w)
      <3>1. OtherJobsKept(w) /\ work'[w].at \notin TokenStep /\ work'[w].token = work[w].token
        <4>1. CASE RememberNonce(w) \/ Register(w)
          BY <2>3, <4>1, RememberGoes, RegisterGoes DEF TokenStep
        <4>2. CASE ~(RememberNonce(w) \/ Register(w))
          <5>1. PICK where \in {"remember", "authorise", "run", "imply", "own", "unrole"} : Go(w, where)
            BY <1>3, <2>3, <4>2 DEF VerifyBundle, Authorise, AuthzOn, ImplyEnforce, RevokeRole
          <5>2. QED
            BY <5>1, StepGoes DEF SameJob, TokenStep
        <4>3. QED
          BY <4>1, <4>2
      <3>2. QED
        BY <2>1, <3>1, TokensQuietStep
    <2>4. QED
      BY <2>2, <2>3
  <1>4. ASSUME NEW w \in Workers,
               \/ BookEntry(w) \/ SetEnforce(w) \/ AuthzOff(w) \/ GrantRole(w) \/ OwnFlipper(w)
               \/ DeleteRole(w) \/ RevokeKey(w) \/ Die(w) \/ NoDatabase(w) \/ InitCompany(w)
        PROVE  TokensKept'
    <2>1. Finish(w) /\ tokens' = tokens /\ spent' = spent /\ troubled \subseteq troubled'
      BY <1>4 DEF BookEntry, SetEnforce, AuthzOff, GrantRole, OwnFlipper, DeleteRole, RevokeKey, Die,
                  NoDatabase, InitCompany
    <2>2. OtherJobsKept(w) /\ work'[w].at \notin TokenStep /\ work'[w].token = 0
      BY <2>1, Finishes DEF TokenStep
    <2>3. QED
      BY <2>1, <2>2, TokensQuietStep
  <1>5. ASSUME NEW w \in Workers, MintToken(w)
        PROVE  TokensKept'
    <2>1. /\ tokens' = tokens /\ spent' = spent /\ troubled' = troubled \cup MeetsToken(w)
      BY <1>5 DEF MintToken
    <2>2. QED
      BY <1>5, <2>1, NewJobs, TokensRead
  <1>6. ASSUME NEW w \in Workers, NEW t \in DOMAIN tokens, RedeemToken(w, t)
        PROVE  TokensKept'
    <2>1. /\ tokens' = tokens /\ spent' = spent /\ troubled' = troubled \cup MeetsToken(w)
          /\ ~tokens[t]
      BY <1>6 DEF RedeemToken
    <2>2. QED
      BY <1>6, <2>1, NewJobs, TokensRead
  <1>7. CASE \/ \E a \in bounds.actors, c \in bounds.posted : PostEnvelope(a, c)
             \/ Tick \/ OpenEmpty
             \/ \E a \in bounds.actors : Keygen(a) \/ Unlock(a) \/ Lock(a)
    <2>1. tokens' = tokens /\ spent' = spent /\ work' = work /\ troubled' = troubled
      BY <1>7 DEF PostEnvelope, Tick, OpenEmpty, Keygen, Unlock, Lock
    <2>2. QED
      BY <2>1, TokensQuiet DEF Redeeming, At
  <1>8. QED
    BY <1>1, <1>2, <1>3, <1>4, <1>5, <1>6, <1>7, TokensWritten, TokensSpent, TokensEnrol, NextCases

----------------------------------------------------------------------------------
(* A signature runs one command. *)

\* Nobody is asked for less than before, but for what is signed now.
CheckedAlike ==
  /\ troubled \subseteq troubled'
  /\ \A b \in DOMAIN signed : b \in sent' => b \in sent
  /\ \A b : Unchecked(b)' => Unchecked(b) \/ b \in DOMAIN signed' \ DOMAIN signed

LEMMA CheckedKept ==
  ASSUME sent' = sent, troubled' = troubled
  PROVE  CheckedAlike
  BY DEF CheckedAlike, Unchecked

\* What the invariant says of a bundle stays true while processes only give it
\* up and it is forgotten no sooner than it is too old.
LEMMA BundleQuiet ==
  ASSUME GateTypes, NEW b \in DOMAIN signed, BundleOnce(b),
         signed'[b] = signed[b], ran'[b] = ran[b], clock <= clock', clock' \in Nat, CheckedAlike,
         Remembered(b) => Remembered(b)' \/ signed[b].ts < clock' - Window,
         \A v \in Workers : Verifying(v, b)' => Verifying(v, b) /\ (At(v, "remember")' => At(v, "remember")),
         \A v \in Workers : Verified(v, b)' => Verified(v, b)
  PROVE  BundleOnce(b)'
  <1>1. clock \in Nat /\ Window \in Nat /\ signed[b].ts \in Nat
    <2>1. signed[b] \in Bundle /\ bounds.ticks \in Nat /\ Window \in Nat /\ Skew \in Nat
      BY ScenarioTypes DEF GateTypes, GateTypeOK, StateOK
    <2>2. QED
      BY <2>1 DEF GateTypes, StateOK, Bundle
  <1>2. ran'[b] = 1 \/ (\E w \in Workers : Verified(w, b)') =>
          Remembered(b)' \/ signed'[b].ts < clock' - Window \/ Unchecked(b)'
    <2>1. ran'[b] = 1 \/ (\E w \in Workers : Verified(w, b)') =>
            Remembered(b) \/ signed[b].ts < clock - Window \/ Unchecked(b)
      BY DEF BundleOnce
    <2>2. signed[b].ts < clock - Window => signed[b].ts < clock' - Window
      BY <1>1
    <2>3. Unchecked(b) => Unchecked(b)'
      BY DEF CheckedAlike, Unchecked
    <2>4. QED
      BY <2>1, <2>2, <2>3
  <1>3. \A w, v \in Workers : Verifying(w, b)' /\ Verifying(v, b)' => w = v
    BY DEF BundleOnce
  <1>4. \A w, v \in Workers : Verified(w, b)' /\ Verified(v, b)' => w = v
    BY DEF BundleOnce
  <1>5. ran'[b] <= 1 /\ (ran'[b] = 1 => \A w \in Workers : ~Verified(w, b)')
    BY DEF BundleOnce
  <1>6. \A w \in Workers : Verifying(w, b)' /\ At(w, "remember")' =>
          ran'[b] = 0 /\ \A v \in Workers : ~Verified(v, b)'
    BY DEF BundleOnce
  <1>7. Unchecked(b)' => b \notin sent' /\ \A w \in Workers : ~Verifying(w, b)'
    BY DEF BundleOnce, CheckedAlike
  <1>8. QED
    BY <1>2, <1>3, <1>4, <1>5, <1>6, <1>7 DEF BundleOnce

\* ... which is what most steps do.
LEMMA BundlesQuiet ==
  ASSUME GateTypes, BundlesOnce, signed' = signed, ran' = ran, nonces' = nonces,
         clock <= clock', clock' \in Nat, CheckedAlike,
         \A v \in Workers : work'[v].at \in {"verify", "remember"} =>
           work'[v].at = work[v].at /\ work'[v].bundle = work[v].bundle,
         \A v \in Workers : work'[v].verified => work[v].verified /\ work'[v].bundle = work[v].bundle
  PROVE  BundlesOnce'
  <1>1. ASSUME NEW b \in DOMAIN signed, <<"bundle", b>> \notin troubled'
        PROVE  BundleOnce(b)'
    <2>1. BundleOnce(b)
      BY <1>1 DEF BundlesOnce, CheckedAlike
    <2>2. \A v \in Workers : Verifying(v, b)' => Verifying(v, b) /\ (At(v, "remember")' => At(v, "remember"))
      BY DEF Verifying, At
    <2>3. \A v \in Workers : Verified(v, b)' => Verified(v, b)
      BY DEF Verified
    <2>4. Remembered(b) => Remembered(b)'
      BY DEF Remembered
    <2>5. QED
      BY <2>1, <2>2, <2>3, <2>4, BundleQuiet
  <1>2. QED
    BY <1>1 DEF BundlesOnce, CheckedAlike

LEMMA BundlesQuietStep ==
  ASSUME GateTypes, BundlesOnce, signed' = signed, ran' = ran, nonces' = nonces, clock' = clock,
         CheckedAlike,
         NEW w \in Workers, OtherJobsKept(w), work'[w].at \notin {"verify", "remember"},
         work'[w].verified => work[w].verified /\ work'[w].bundle = work[w].bundle
  PROVE  BundlesOnce'
  <1>1. clock' \in Nat /\ clock <= clock'
    BY ScenarioTypes DEF GateTypes, StateOK
  <1>2. \A v \in Workers : work'[v].at \in {"verify", "remember"} =>
          work'[v].at = work[v].at /\ work'[v].bundle = work[v].bundle
    BY DEF OtherJobsKept
  <1>3. \A v \in Workers : work'[v].verified => work[v].verified /\ work'[v].bundle = work[v].bundle
    BY DEF OtherJobsKept
  <1>4. QED
    BY <1>1, <1>2, <1>3, BundlesQuiet

LEMMA RanTypes ==
  ASSUME GateTypes, NEW b \in DOMAIN signed
  PROVE  ran[b] \in Nat
  <1>1. ran \in Seq(Nat) /\ DOMAIN ran = DOMAIN signed
    BY DEF GateTypes, GateTypeOK, StateOK
  <1>2. b \in DOMAIN ran
    BY <1>1
  <1>3. ran \in [1..Len(ran) -> Nat] /\ DOMAIN ran = 1..Len(ran)
    BY <1>1
  <1>4. QED
    BY <1>2, <1>3

LEMMA NotRun ==
  ASSUME NEW n, n = 0
  PROVE  n <= 1 /\ n # 1
  OBVIOUS

\* A new signature is nobody's but its process's, which verifies it, unless there
\* is nobody to ask.
LEMMA BundlesSigned ==
  ASSUME GateTypes, BundlesOnce, ran' = Append(ran, 0), nonces' = nonces, clock' = clock,
         CheckedAlike, signed \in Seq(Bundle), NEW row, signed' = Append(signed, row),
         \A v \in Workers : work'[v] = work[v] \/ (/\ work'[v].bundle = Len(signed) + 1
                                                   /\ work'[v].at = (IF work'[v].verified THEN "run" ELSE "verify")
                                                   /\ (work'[v].verified <=> <<"unchecked", Len(signed) + 1>> \in troubled')),
         <<"unchecked", Len(signed) + 1>> \in troubled' => Len(signed) + 1 \notin sent',
         \A v, u \in Workers : work'[v] # work[v] /\ work'[u] # work[u] => v = u
  PROVE  BundlesOnce'
  <1> DEFINE new == Len(signed) + 1
  <1>1. /\ DOMAIN signed' = DOMAIN signed \cup {new} /\ new \notin DOMAIN signed /\ new # 0
        /\ \A b \in DOMAIN signed : signed'[b] = signed[b] /\ b # new
    OBVIOUS
  <1>2. ran \in Seq(Nat) /\ DOMAIN ran = DOMAIN signed /\ Len(ran) = Len(signed)
    BY DEF GateTypes, GateTypeOK, StateOK
  <1>3. ran'[new] = 0 /\ \A b \in DOMAIN signed : ran'[b] = ran[b]
    BY <1>2
  <1>4. clock' \in Nat /\ clock <= clock'
    BY ScenarioTypes DEF GateTypes, StateOK
  <1>5. \A n \in nonces' : signed'[n.bundle].ts <= n.at + Window
    BY <1>1 DEF BundlesOnce, GateTypes, GateTypeOK
  <1>6. \A v \in Workers : work[v].verified \/ work[v].at \in {"verify", "remember"} => work[v].bundle # new
    BY <1>1 DEF GateTypes, WorkOK, EnvelopeOK
  <1> HIDE DEF new
  <1>7. ASSUME NEW b \in DOMAIN signed, <<"bundle", b>> \notin troubled'
        PROVE  BundleOnce(b)'
    <2>1. BundleOnce(b)
      BY <1>7 DEF BundlesOnce, CheckedAlike
    <2>2. \A v \in Workers : Verifying(v, b)' => Verifying(v, b) /\ (At(v, "remember")' => At(v, "remember"))
      BY <1>1 DEF Verifying, At, new
    <2>3. \A v \in Workers : Verified(v, b)' => Verified(v, b)
      BY <1>1 DEF Verified, new
    <2>4. Remembered(b) => Remembered(b)'
      BY DEF Remembered
    <2>5. QED
      BY <1>1, <1>3, <1>4, <2>1, <2>2, <2>3, <2>4, BundleQuiet
  <1>8. PICK b : b = new
    OBVIOUS
  <1>9. BundleOnce(b)'
    <2>1. \A v \in Workers : Verified(v, b)' => work'[v] # work[v] /\ Unchecked(b)'
      BY <1>6, <1>8 DEF Verified, new, Unchecked
    <2>2. \A v \in Workers : Verifying(v, b)' => work'[v] # work[v]
      BY <1>6, <1>8 DEF Verifying
    <2>3. \A v \in Workers : Verifying(v, b)' => ~At(v, "remember")'
      BY <2>2 DEF Verifying, At
    <2>4. ran'[b] = 0
      BY <1>3, <1>8
    <2>5. \A v, u \in Workers : Verifying(v, b)' /\ Verifying(u, b)' => v = u
      BY <2>2
    <2>6. \A w, v \in Workers : Verified(w, b)' /\ Verified(v, b)' => w = v
      BY <2>1
    <2>7. \A w \in Workers : Verifying(w, b)' /\ At(w, "remember")' => FALSE
      BY <2>3
    <2>8. ran'[b] <= 1 /\ ran'[b] # 1
      BY <2>4, NotRun, Zenon
    <2>9. (\E w \in Workers : Verified(w, b)') => Unchecked(b)'
      BY <2>1
    <2>10. Unchecked(b)' => b \notin sent'
      BY <1>8 DEF new, Unchecked
    <2>11. Unchecked(b)' => \A w \in Workers : ~Verifying(w, b)'
      BY <1>8, <2>2 DEF Verifying, new, Unchecked
    <2>12. QED
      BY <2>5, <2>6, <2>7, <2>8, <2>9, <2>10, <2>11 DEF BundleOnce
  <1>10. \A c \in DOMAIN signed' : c \in DOMAIN signed \/ c = b
    BY <1>1, <1>8
  <1>11. \A c : Unchecked(c)' => c \in DOMAIN signed'
    BY <1>1 DEF BundlesOnce, CheckedAlike
  <1>12. QED
    BY <1>5, <1>7, <1>9, <1>10, <1>11 DEF BundlesOnce

LEMMA BundlesDelivered ==
  ASSUME GateTypes, BundlesOnce, NEW w \in Workers, NEW d \in sent, Deliver(w, d)
  PROVE  BundlesOnce'
  <1>1. /\ OtherJobsKept(w) /\ work[w].at = "idle" /\ work'[w].at \in {"verify", "run"}
        /\ work'[w].bundle = d /\ ~work'[w].verified
    BY NewJobs
  <1>2. /\ signed' = signed /\ ran' = ran /\ nonces' = nonces /\ clock' = clock
        /\ troubled \subseteq troubled'
        /\ <<"bundle", d>> \notin troubled' => \A v \in Workers : v # w => ~Verifying(v, d)
        /\ sent' = sent /\ \A b : Unchecked(b)' <=> Unchecked(b)
    BY DEF Deliver, Others, Verifying, Unchecked
  <1>3. clock' \in Nat /\ clock <= clock'
    BY <1>2, ScenarioTypes DEF GateTypes, StateOK
  <1>4. ASSUME NEW b \in DOMAIN signed, <<"bundle", b>> \notin troubled'
        PROVE  BundleOnce(b)'
    <2>1. BundleOnce(b)
      BY <1>2, <1>4 DEF BundlesOnce
    <2>2. \A v \in Workers : v # w => (Verifying(v, b)' <=> Verifying(v, b)) /\ (Verified(v, b)' <=> Verified(v, b))
                                      /\ (At(v, "remember")' <=> At(v, "remember"))
      BY <1>1 DEF OtherJobsKept, Verifying, Verified, At
    <2>3. ~Verified(w, b)' /\ ~At(w, "remember")' /\ (Verifying(w, b)' => b = d)
      BY <1>1 DEF Verified, Verifying, At
    <2>4. \A v \in Workers : Verifying(w, b)' /\ Verifying(v, b)' => v = w
      BY <1>2, <1>4, <2>2, <2>3
    <2>5. \A v \in Workers : Verified(v, b)' => Verified(v, b)
      BY <2>2, <2>3
    <2>6. ran'[b] = ran[b] /\ signed'[b] = signed[b] /\ (Remembered(b)' <=> Remembered(b)) /\ clock' = clock
      BY <1>2 DEF Remembered
    <2>7. \A v \in Workers : Verifying(v, b)' /\ At(v, "remember")' => Verifying(v, b) /\ At(v, "remember")
      BY <2>2, <2>3
    <2>8. \A v, u \in Workers : Verifying(v, b)' /\ Verifying(u, b)' => v = u
      BY <2>1, <2>2, <2>4 DEF BundleOnce
    <2>9. Unchecked(b)' => b \notin sent' /\ \A v \in Workers : ~Verifying(v, b)'
      BY <1>2, <2>1, <2>2, <2>3 DEF BundleOnce
    <2>10. QED
      BY <1>2, <2>1, <2>5, <2>6, <2>7, <2>8, <2>9 DEF BundleOnce
  <1>5. QED
    BY <1>2, <1>4 DEF BundlesOnce

LEMMA BundlesConfirmed ==
  ASSUME GateTypes, BundlesOnce, NEW w \in Workers, VerifyBundle(w)
  PROVE  BundlesOnce'
  <1>1. /\ signed' = signed /\ ran' = ran /\ nonces' = nonces /\ clock' = clock /\ troubled' = troubled
        /\ work[w].at = "verify" /\ sent' = sent /\ CheckedAlike
    BY CheckedKept DEF VerifyBundle, At
  <1>2. CASE Go(w, "authorise") \/ Finish(w)
    <2>1. /\ OtherJobsKept(w) /\ work'[w].at \notin {"verify", "remember"}
          /\ work'[w].verified => work[w].verified /\ work'[w].bundle = work[w].bundle
      BY <1>2, StepGoes, Finishes DEF SameJob
    <2>2. QED
      BY <1>1, <2>1, BundlesQuietStep
  <1>3. CASE Go(w, "remember") /\ Confirmed(work[w].bundle, ActorKey(work[w].actor))
    <2>1. /\ OtherJobsKept(w) /\ work'[w].at = "remember" /\ work'[w].bundle = work[w].bundle
          /\ work'[w].verified = work[w].verified
      BY <1>3, StepGoes DEF SameJob
    <2>2. PICK d : d = work[w].bundle
      OBVIOUS
    <2>3. d \in DOMAIN signed /\ signed[d] \in Bundle
      BY <1>1, <2>2 DEF GateTypes, WorkOK, EnvelopeOK, GateTypeOK
    <2>4. ~Stale(d) /\ ~Remembered(d)
      BY <1>3, <2>2 DEF Confirmed, NonceUsed, Remembered
    <2>5. ~(signed[d].ts < clock - Window)
      BY <2>4 DEF Stale
    <2>6. ASSUME NEW b \in DOMAIN signed, <<"bundle", b>> \notin troubled
          PROVE  BundleOnce(b)'
      <3>1. BundleOnce(b)
        BY <2>6 DEF BundlesOnce
      <3>2. \A v \in Workers : /\ Verifying(v, b)' <=> Verifying(v, b)
                               /\ Verified(v, b)' <=> Verified(v, b)
        BY <1>1, <2>1 DEF Verifying, Verified, OtherJobsKept
      <3>3. \A v \in Workers : v # w => (At(v, "remember")' <=> At(v, "remember"))
        BY <2>1 DEF At, OtherJobsKept
      <3>4. Verifying(w, b) => b = d
        BY <2>2 DEF Verifying
      <3>5. b = d => ran[b] = 0 /\ \A v \in Workers : ~Verified(v, b)
        <4>1. b = d => ran[b] # 1 /\ \A v \in Workers : ~Verified(v, b)
          BY <1>1, <2>2, <2>4, <2>5, <3>1 DEF BundleOnce, Verifying
        <4>2. ran[b] \in Nat
          BY <2>6, RanTypes
        <4>3. QED
          BY <3>1, <4>1, <4>2 DEF BundleOnce
      <3>6. signed'[b] = signed[b] /\ ran'[b] = ran[b] /\ clock' = clock /\ (Remembered(b)' <=> Remembered(b))
        BY <1>1 DEF Remembered
      <3>7. \A v \in Workers : Verifying(v, b)' /\ At(v, "remember")' =>
              ran[b] = 0 /\ \A u \in Workers : ~Verified(u, b)
        BY <3>1, <3>2, <3>3, <3>4, <3>5 DEF BundleOnce
      <3>8. Unchecked(b)' <=> Unchecked(b)
        BY <1>1 DEF Unchecked
      <3>9. QED
        BY <1>1, <3>1, <3>2, <3>6, <3>7, <3>8 DEF BundleOnce
    <2>7. QED
      BY <1>1, <2>6 DEF BundlesOnce, Unchecked
  <1>4. QED
    BY <1>2, <1>3 DEF VerifyBundle

\* A nonce that is dropped belongs to a bundle that is too old by then.
LEMMA BundlesRemembered ==
  ASSUME GateTypes, BundlesOnce, NEW w \in Workers, RememberNonce(w)
  PROVE  BundlesOnce'
  <1>1. /\ OtherJobsKept(w) /\ work[w].at = "remember" /\ work'[w].at = "authorise"
        /\ work'[w].bundle = work[w].bundle
    BY RememberGoes
  <1>2. PICK d : d = work[w].bundle
    OBVIOUS
  <1>3. /\ signed' = signed /\ ran' = ran /\ clock' = clock /\ troubled' = troubled /\ sent' = sent
        /\ nonces' = KeptNonces \cup {[bundle |-> d, at |-> clock]}
    BY <1>2 DEF RememberNonce
  <1>4. d \in DOMAIN signed
    BY <1>1, <1>2 DEF GateTypes, WorkOK, EnvelopeOK
  <1>5. /\ clock \in Nat /\ Window \in Nat /\ Skew \in 0..Window /\ Retention >= 2 * Window /\ Retention \in Nat
        /\ \A b \in DOMAIN signed : signed[b].ts \in Nat /\ signed[b].ts <= clock + Skew
    <2>1. \A b \in DOMAIN signed : signed[b] \in Bundle
      BY DEF GateTypes, GateTypeOK
    <2>2. bounds.ticks \in Nat /\ Skew \in 0..Window /\ Window \in Nat
      BY ScenarioTypes DEF GateTypes, StateOK
    <2>3. QED
      BY <2>1, <2>2, GateAssumption DEF GateTypes, StateOK, Bundle
  <1>6. \A n \in nonces : n.bundle \in DOMAIN signed /\ n.at \in Nat /\ signed[n.bundle].ts <= n.at + Window
    BY <1>5 DEF GateTypes, GateTypeOK, BundlesOnce
  <1>7. \A n \in nonces' : signed[n.bundle].ts <= n.at + Window
    BY <1>3, <1>4, <1>5, <1>6 DEF KeptNonces
  <1>8. \A n \in nonces : n \notin nonces' => signed[n.bundle].ts < clock - Window
    BY <1>3, <1>5, <1>6 DEF KeptNonces
  <1>9. ASSUME NEW b \in DOMAIN signed, <<"bundle", b>> \notin troubled
        PROVE  BundleOnce(b)'
    <2>1. BundleOnce(b)
      BY <1>9 DEF BundlesOnce
    <2>2. \A v \in Workers : v # w => /\ Verifying(v, b)' <=> Verifying(v, b)
                                      /\ Verified(v, b)' <=> Verified(v, b)
                                      /\ At(v, "remember")' <=> At(v, "remember")
      BY <1>1 DEF Verifying, Verified, At, OtherJobsKept
    <2>3. ~Verifying(w, b)' /\ (Verified(w, b)' => b = d)
      BY <1>1, <1>2 DEF Verifying, Verified
    <2>4. CASE b # d
      <3>1. \A v \in Workers : Verifying(v, b)' => Verifying(v, b) /\ (At(v, "remember")' => At(v, "remember"))
        BY <2>2, <2>3
      <3>2. \A v \in Workers : Verified(v, b)' => Verified(v, b)
        BY <2>2, <2>3, <2>4
      <3>3. Remembered(b) => Remembered(b)' \/ signed[b].ts < clock' - Window
        BY <1>3, <1>8 DEF Remembered
      <3>4. clock <= clock' /\ clock' \in Nat
        BY <1>3, <1>5
      <3>5. QED
        BY <1>3, <2>1, <3>1, <3>2, <3>3, <3>4, CheckedKept, BundleQuiet
    <2>5. CASE b = d
      <3>1. Verifying(w, b) /\ At(w, "remember")
        BY <1>1, <1>2, <2>5 DEF Verifying, At
      <3>2. ran[b] = 0 /\ \A v \in Workers : ~Verified(v, b)
        BY <2>1, <3>1 DEF BundleOnce
      <3>3. \A v \in Workers : Verifying(v, b) => v = w
        BY <2>1, <3>1 DEF BundleOnce
      <3>4. \A v \in Workers : ~Verifying(v, b)'
        BY <2>2, <2>3, <3>3
      <3>5. \A v \in Workers : Verified(v, b)' => v = w
        BY <2>2, <3>2
      <3>6. Remembered(b)' /\ ran'[b] = 0
        <4>1. [bundle |-> d, at |-> clock] \in nonces' /\ [bundle |-> d, at |-> clock].bundle = b
          BY <1>3, <2>5
        <4>2. QED
          BY <1>3, <3>2, <4>1 DEF Remembered
      <3>7. ~Unchecked(b)'
        BY <1>3, <2>1, <3>1 DEF BundleOnce, Unchecked
      <3>8. QED
        BY <3>4, <3>5, <3>6, <3>7 DEF BundleOnce
    <2>6. QED
      BY <2>4, <2>5
  <1>10. QED
    BY <1>3, <1>7, <1>9 DEF BundlesOnce, Unchecked

LEMMA BundlesRun ==
  ASSUME GateTypes, BundlesOnce, NEW w \in Workers, RecordSigned(w), Finish(w), work[w].at \notin {"verify", "remember"},
         signed' = signed, nonces' = nonces, clock' = clock, troubled' = troubled, sent' = sent
  PROVE  BundlesOnce'
  <1>1. OtherJobsKept(w) /\ work'[w].at = "idle" /\ ~work'[w].verified /\ CheckedAlike
    BY Finishes, CheckedKept
  <1>2. CASE ~work[w].verified
    <2>1. ran' = ran
      BY <1>2 DEF RecordSigned
    <2>2. QED
      BY <1>1, <2>1, BundlesQuietStep
  <1>3. CASE work[w].verified
    <2>1. PICK d : d = work[w].bundle
      OBVIOUS
    <2>2. d \in DOMAIN ran /\ ran \in Seq(Nat) /\ DOMAIN ran = DOMAIN signed
      BY <1>3, <2>1 DEF GateTypes, GateTypeOK, StateOK, WorkOK, EnvelopeOK
    <2>3. ran' = [ran EXCEPT ![d] = @ + 1]
      BY <1>3, <2>1 DEF RecordSigned
    <2>4. ASSUME NEW b \in DOMAIN signed, <<"bundle", b>> \notin troubled
          PROVE  BundleOnce(b)'
      <3>1. BundleOnce(b) /\ ran[b] \in Nat
        BY <2>2, <2>4 DEF BundlesOnce
      <3>2. \A v \in Workers : /\ Verifying(v, b)' => Verifying(v, b) /\ (At(v, "remember")' => At(v, "remember"))
                               /\ Verified(v, b)' => Verified(v, b) /\ v # w
        BY <1>1 DEF Verifying, Verified, At, OtherJobsKept
      <3>3. CASE b # d
        <4>1. ran'[b] = ran[b]
          BY <2>2, <2>3, <3>3
        <4>2. clock' \in Nat /\ clock <= clock'
          BY ScenarioTypes DEF GateTypes, StateOK
        <4>3. Remembered(b) => Remembered(b)'
          BY DEF Remembered
        <4>4. QED
          BY <1>1, <3>1, <3>2, <4>1, <4>2, <4>3, BundleQuiet
      <3>4. CASE b = d
        <4>1. Verified(w, b)
          BY <1>3, <2>1, <3>4 DEF Verified
        <4>2. ran[b] = 0 /\ \A v \in Workers : Verified(v, b) => v = w
          BY <3>1, <4>1 DEF BundleOnce
        <4>3. ran'[b] = 1
          BY <2>2, <2>3, <3>4, <4>2
        <4>4. \A v \in Workers : ~Verified(v, b)'
          BY <3>2, <4>2
        <4>5. \A v \in Workers : ~(Verifying(v, b)' /\ At(v, "remember")')
          BY <3>1, <3>2, <4>1 DEF BundleOnce
        <4>6. /\ Remembered(b)' \/ signed'[b].ts < clock' - Window \/ Unchecked(b)'
              /\ Unchecked(b)' => b \notin sent' /\ \A v \in Workers : ~Verifying(v, b)'
          BY <3>1, <3>2, <4>1 DEF BundleOnce, Remembered, Unchecked
        <4>7. \A v, u \in Workers : Verifying(v, b)' /\ Verifying(u, b)' => v = u
          BY <3>1, <3>2 DEF BundleOnce
        <4>8. QED
          BY <4>3, <4>4, <4>5, <4>6, <4>7 DEF BundleOnce
      <3>5. QED
        BY <3>3, <3>4
    <2>5. QED
      BY <2>4 DEF BundlesOnce, Unchecked
  <1>4. QED
    BY <1>2, <1>3

\* The envelope posted now is none of those signed before.
LEMMA NothingNew ==
  ASSUME GateTypes, ~Unchecked(Len(signed) + 1), sent' = sent \cup {Len(signed) + 1}, troubled' = troubled
  PROVE  CheckedAlike /\ <<"unchecked", Len(signed) + 1>> \notin troubled'
  <1>1. Len(signed) + 1 \notin DOMAIN signed
    BY DEF GateTypes, GateTypeOK
  <1>2. QED
    BY <1>1 DEF CheckedAlike, Unchecked

LEMMA NextBundlesOnce ==
  ASSUME GateTypes, BundlesOnce, GateNext
  PROVE  BundlesOnce'
  <1>0. signed \in Seq(Bundle) /\ clock \in Nat /\ sent \subseteq DOMAIN signed /\ ~Unchecked(Len(signed) + 1)
    <2>1. signed \in Seq(Bundle) /\ clock \in Nat /\ sent \subseteq DOMAIN signed
      BY ScenarioTypes DEF GateTypes, GateTypeOK, StateOK
    <2>2. QED
      BY <2>1 DEF BundlesOnce
  <1>1. ASSUME NEW w \in Workers, NEW a \in bounds.actors, NEW c \in bounds.local,
               NEW s \in {"cli", "mcp"}, SignedHere(w, s, a, c)
        PROVE  BundlesOnce'
    <2>1. /\ OtherJobsKept(w) /\ work'[w].at = "verify" /\ work'[w].bundle = Len(signed) + 1
          /\ ~work'[w].verified
      BY <1>1, NewJobs
    <2>2. PICK row : signed' = Append(signed, row)
      BY <1>1 DEF SignedHere, Sign
    <2>a. CheckedAlike
      BY <1>1, CheckedKept DEF SignedHere
    <2>3. ran' = Append(ran, 0) /\ nonces' = nonces /\ clock' = clock /\ CheckedAlike /\ <<"unchecked", Len(signed) + 1>> \notin troubled'
      BY <1>0, <1>1, <2>a DEF SignedHere, Unchecked
    <2>4. \A v \in Workers : work'[v] # work[v] => v = w
      BY <2>1 DEF OtherJobsKept
    <2>5. \A v \in Workers : work'[v] = work[v] \/ (/\ work'[v].bundle = Len(signed) + 1
                                                   /\ work'[v].at = (IF work'[v].verified THEN "run" ELSE "verify")
                                                   /\ (work'[v].verified <=> <<"unchecked", Len(signed) + 1>> \in troubled'))
      BY <2>1, <2>3, <2>4
    <2>6. \A v, u \in Workers : work'[v] # work[v] /\ work'[u] # work[u] => v = u
      BY <2>4
    <2>7. QED
      BY <1>0, <2>2, <2>3, <2>5, <2>6, BundlesSigned
  <1>2. ASSUME NEW a \in bounds.actors, NEW c \in bounds.posted, PostEnvelope(a, c)
        PROVE  BundlesOnce'
    <2>1. PICK row : signed' = Append(signed, row)
      BY <1>2 DEF PostEnvelope, Sign
    <2>2. /\ ran' = Append(ran, 0) /\ nonces' = nonces /\ clock' = clock /\ troubled' = troubled /\ work' = work
          /\ sent' = sent \cup {Len(signed) + 1}
      BY <1>2 DEF PostEnvelope, Post
    <2>3. CheckedAlike /\ <<"unchecked", Len(signed) + 1>> \notin troubled'
      BY <1>0, <2>2, NothingNew
    <2>4. QED
      BY <1>0, <2>1, <2>2, <2>3, BundlesSigned
  <1>3. ASSUME NEW w \in Workers, NEW a \in bounds.actors, NEW c \in bounds.local,
               NEW s \in {"cli", "mcp"}, RunUnsigned(w, s, a, c)
        PROVE  BundlesOnce'
    <2>1. OtherJobsKept(w) /\ work'[w].at \notin {"verify", "remember"} /\ ~work'[w].verified
      BY <1>3, NewJobs
    <2>2. signed' = signed /\ ran' = ran /\ nonces' = nonces /\ clock' = clock /\ CheckedAlike
      BY <1>3, CheckedKept DEF RunUnsigned
    <2>3. QED
      BY <2>1, <2>2, BundlesQuietStep
  <1>4. ASSUME NEW w \in Workers,
               \/ Authorise(w) \/ AuthzOn(w) \/ ImplyEnforce(w) \/ RevokeRole(w) \/ Register(w)
               \/ Die(w) \/ WriteMinted(w) \/ NoDatabase(w)
        PROVE  BundlesOnce'
    <2>1. /\ signed' = signed /\ ran' = ran /\ nonces' = nonces /\ clock' = clock
          /\ CheckedAlike
      <3>1. /\ signed' = signed /\ ran' = ran /\ nonces' = nonces /\ clock' = clock /\ sent' = sent
            /\ troubled \subseteq troubled'
        BY <1>4 DEF Authorise, AuthzOn, ImplyEnforce, RevokeRole, Register, Die, WriteMinted, NoDatabase
      <3>2. \A b : Unchecked(b)' => Unchecked(b)
        <4>1. CASE UNCHANGED troubled
          BY <4>1 DEF Unchecked
        <4>2. CASE Register(w)
          BY <4>2 DEF Register, Unchecked
        <4>3. CASE RevokeRole(w)
          BY <4>3 DEF RevokeRole, Unchecked
        <4>4. CASE Die(w)
          BY <4>4 DEF Die, Unchecked
        <4>5. QED
          BY <1>4, <4>1, <4>2, <4>3, <4>4 DEF Authorise, AuthzOn, ImplyEnforce, WriteMinted, NoDatabase
      <3>3. QED
        BY <3>1, <3>2 DEF CheckedAlike
    <2>2. CASE Finish(w)
      <3>1. OtherJobsKept(w) /\ work'[w].at \notin {"verify", "remember"} /\ ~work'[w].verified
        BY <2>2, Finishes
      <3>2. QED
        BY <2>1, <3>1, BundlesQuietStep
    <2>3. CASE Register(w) /\ ~Finish(w)
      <3>1. /\ OtherJobsKept(w) /\ work'[w].at \notin {"verify", "remember"}
            /\ work'[w].verified = work[w].verified /\ work'[w].bundle = work[w].bundle
        BY <2>3, RegisterGoes
      <3>2. QED
        BY <2>1, <3>1, BundlesQuietStep
    <2>4. CASE ~Register(w) /\ ~Finish(w)
      <3>1. PICK where \in {"run", "imply", "own", "unrole"} : Go(w, where)
        BY <1>4, <2>4 DEF Authorise, AuthzOn, ImplyEnforce, RevokeRole, Die, WriteMinted, NoDatabase
      <3>2. /\ OtherJobsKept(w) /\ work'[w].at \notin {"verify", "remember"}
            /\ work'[w].verified = work[w].verified /\ work'[w].bundle = work[w].bundle
        BY <3>1, StepGoes DEF SameJob
      <3>3. QED
        BY <2>1, <3>2, BundlesQuietStep
    <2>5. QED
      BY <2>2, <2>3, <2>4
  <1>5. ASSUME NEW w \in Workers,
               \/ BookEntry(w) \/ SetEnforce(w) \/ AuthzOff(w) \/ GrantRole(w) \/ OwnFlipper(w)
               \/ DeleteRole(w)
        PROVE  BundlesOnce'
    <2>1. /\ RecordSigned(w) /\ Finish(w) /\ work[w].at \notin {"verify", "remember"}
          /\ signed' = signed /\ nonces' = nonces /\ clock' = clock /\ troubled' = troubled /\ sent' = sent
      BY <1>5 DEF BookEntry, SetEnforce, AuthzOff, GrantRole, OwnFlipper, DeleteRole, Performs, At
    <2>2. QED
      BY <2>1, BundlesRun
  <1>6. ASSUME NEW w \in Workers, Enrol(w) \/ RevokeKey(w) \/ InitCompany(w)
        PROVE  BundlesOnce'
    <2>1. /\ Finish(w) /\ work[w].at \notin {"verify", "remember"} /\ (RecordSigned(w) \/ ran' = ran)
          /\ signed' = signed /\ nonces' = nonces /\ clock' = clock /\ troubled' = troubled /\ sent' = sent
      BY <1>6 DEF Enrol, RevokeKey, InitCompany, Performs, At
    <2>2. OtherJobsKept(w) /\ work'[w].at \notin {"verify", "remember"} /\ ~work'[w].verified /\ CheckedAlike
      BY <2>1, Finishes, CheckedKept
    <2>3. QED
      BY <2>1, <2>2, BundlesRun, BundlesQuietStep
  <1>7. ASSUME NEW w \in Workers,
               MintToken(w) \/ SpendToken(w) \/ \E t \in DOMAIN tokens : RedeemToken(w, t)
        PROVE  BundlesOnce'
    <2>1. /\ OtherJobsKept(w) /\ work'[w].at \notin {"verify", "remember"}
          /\ work'[w].verified => work[w].verified /\ work'[w].bundle = work[w].bundle
      BY <1>7, NewJobs, SpendGoes
    <2>2. /\ signed' = signed /\ ran' = ran /\ nonces' = nonces /\ clock' = clock
          /\ CheckedAlike
      BY <1>7 DEF MintToken, SpendToken, RedeemToken, MeetsToken, CheckedAlike, Unchecked
    <2>3. QED
      BY <2>1, <2>2, BundlesQuietStep
  <1>8. CASE Tick \/ OpenEmpty \/ \E a \in bounds.actors : Keygen(a) \/ Unlock(a) \/ Lock(a)
    <2>1. /\ signed' = signed /\ ran' = ran /\ nonces' = nonces /\ (clock' = clock \/ clock' = clock + 1)
          /\ CheckedAlike /\ work' = work
      BY <1>8, CheckedKept DEF Tick, OpenEmpty, Keygen, Unlock, Lock
    <2>2. clock <= clock' /\ clock' \in Nat
      BY <1>0, <2>1
    <2>3. QED
      BY <2>1, <2>2, BundlesQuiet
  <1>9. ASSUME NEW w \in Workers, NEW a \in bounds.actors, NEW c \in bounds.local,
               NEW s \in {"cli", "mcp"}, SignUnchecked(w, a, c)
        PROVE  BundlesOnce'
    <2>1. /\ OtherJobsKept(w) /\ work'[w].at = "run" /\ work'[w].bundle = Len(signed) + 1
          /\ work'[w].verified
      BY <1>9, NewJobs
    <2>2. PICK row : signed' = Append(signed, row)
      BY <1>9 DEF SignUnchecked, Sign
    <2>3. /\ ran' = Append(ran, 0) /\ nonces' = nonces /\ clock' = clock /\ sent' = sent
          /\ troubled' = troubled \cup {<<"unchecked", Len(signed) + 1>>}
      BY <1>9 DEF SignUnchecked
    <2>4. DOMAIN signed' = DOMAIN signed \cup {Len(signed) + 1} /\ Len(signed) + 1 \notin DOMAIN signed
      BY <1>0, <2>2
    <2>5. CheckedAlike /\ <<"unchecked", Len(signed) + 1>> \in troubled' /\ Len(signed) + 1 \notin sent'
      <3>1. <<"unchecked", Len(signed) + 1>> \in troubled' /\ Len(signed) + 1 \notin sent'
        BY <1>0, <2>3, <2>4
      <3>2. ASSUME NEW b, <<"unchecked", b>> \in troubled', b # Len(signed) + 1
            PROVE  <<"unchecked", b>> \in troubled
        BY <2>3, <3>2
      <3>3. QED
        BY <2>3, <2>4, <3>1, <3>2 DEF CheckedAlike, Unchecked
    <2>6. \A v \in Workers : work'[v] # work[v] => v = w
      BY <2>1 DEF OtherJobsKept
    <2>7. \A v \in Workers : work'[v] = work[v] \/ (/\ work'[v].bundle = Len(signed) + 1
                                                   /\ work'[v].at = (IF work'[v].verified THEN "run" ELSE "verify")
                                                   /\ (work'[v].verified <=> <<"unchecked", Len(signed) + 1>> \in troubled'))
      BY <2>1, <2>5, <2>6
    <2>8. \A v, u \in Workers : work'[v] # work[v] /\ work'[u] # work[u] => v = u
      BY <2>6
    <2>9. QED
      BY <1>0, <2>2, <2>3, <2>5, <2>7, <2>8, BundlesSigned
  <1>10. QED
    BY <1>1, <1>2, <1>3, <1>4, <1>5, <1>6, <1>7, <1>8, <1>9,
       BundlesDelivered, BundlesConfirmed, BundlesRemembered, NextCases

LEMMA BundlesStutter ==
  ASSUME GateTypes, BundlesOnce, UNCHANGED gateVars
  PROVE  BundlesOnce'
  <1>1. /\ signed' = signed /\ ran' = ran /\ nonces' = nonces /\ clock' = clock
        /\ CheckedAlike /\ work' = work /\ clock \in Nat
    BY ScenarioTypes, CheckedKept DEF gateVars, GateTypes, StateOK
  <1>2. QED
    BY <1>1, BundlesQuiet

\* A signature runs one command, however often and late its envelope arrives,
\* unless two copies were under verification at once.
THEOREM EverySignatureRunsOnce == GateSpec => []RunsOnce
  <1>1. GateInit => BundlesOnce
    BY DEF GateInit, BundlesOnce, Unchecked
  <1>2. GateTypes /\ BundlesOnce /\ [GateNext]_gateVars => (GateTypes /\ BundlesOnce)'
    BY NextTypes, TypesStutter, NextBundlesOnce, BundlesStutter
  <1>3. GateTypes /\ BundlesOnce => RunsOnce
    BY DEF GateTypes, GateTypeOK, BundlesOnce, BundleOnce, RunsOnce
  <1>4. QED
    BY <1>1, <1>2, <1>3, InitTypes, PTL DEF GateSpec

----------------------------------------------------------------------------------

LEMMA EnrolmentsStutter ==
  ASSUME ActorsOnce, TokensKept, UNCHANGED gateVars
  PROVE  ActorsOnce' /\ TokensKept'
  <1>1. /\ registry' = registry /\ tokens' = tokens /\ spent' = spent
        /\ troubled' = troubled /\ work' = work
    BY DEF gateVars, database
  <1>2. ActorsOnce'
    BY <1>1, ActiveSame, ActorsQuiet DEF At
  <1>3. TokensKept'
    BY <1>1, TokensQuiet DEF Redeeming, At
  <1>4. QED
    BY <1>2, <1>3

LEMMA InitEnrolments ==
  ASSUME GateInit
  PROVE  ActorsOnce /\ TokensKept
  <1>1. ASSUME NEW a \in Actors PROVE ActorOnce(a)
    <2>1. \A w \in Workers : ~Enrolling(w, a)
      BY DEF GateInit, Enrolling, At, Idle
    <2>2. \A i, j \in DOMAIN registry : i = j
      <3>1. bounds \in Scenarios
        BY DEF GateInit
      <3>2. IsFiniteSet(bounds.enrolled)
        BY <3>1, ScenarioTypes, GateAssumption, FS_Subset
      <3>3. Cardinality(bounds.enrolled) \in Nat /\ Cardinality(bounds.enrolled) <= 1
        BY <3>1, <3>2, ScenarioTypes, FS_CardinalityType
      <3>4. DOMAIN registry = 1..Cardinality(bounds.enrolled)
        BY DEF GateInit
      <3>5. QED
        BY <3>3, <3>4
    <2>3. QED
      BY <2>1, <2>2 DEF ActorOnce, ActiveKeys
  <1>2. TokensOnce
    <2>1. tokens = << >> /\ spent = << >> /\ \A w \in Workers : work[w].at = "idle"
      BY DEF GateInit, Idle
    <2>2. QED
      BY <2>1 DEF TokensOnce, TokenStep, At
  <1>3. QED
    BY <1>1, <1>2 DEF ActorsOnce, TokensKept

LEMMA EnrolmentsMeanOnce ==
  ASSUME GateTypes, ActorsOnce, TokensKept
  PROVE  EnrolledOnce
  <1>1. ASSUME NEW a \in Actors, <<"actor", a>> \notin troubled
        PROVE  Cardinality(ActiveKeys(a)) <= 1
    <2>1. \A i, j \in ActiveKeys(a) : i = j
      BY <1>1 DEF ActorsOnce, ActorOnce
    <2>2. CASE ActiveKeys(a) = {}
      BY <2>2, FS_EmptySet
    <2>3. CASE ActiveKeys(a) # {}
      <3>1. PICK i : i \in ActiveKeys(a)
        BY <2>3
      <3>2. ActiveKeys(a) = {i}
        BY <2>1, <3>1
      <3>3. Cardinality({i}) = 1
        BY FS_Singleton
      <3>4. QED
        BY <3>2, <3>3
    <2>4. QED
      BY <2>2, <2>3
  <1>2. ASSUME <<"tokens", 0>> \notin troubled, NEW t \in DOMAIN spent
        PROVE  spent[t] <= 1
    <2>1. t \in DOMAIN tokens
      BY <1>2 DEF TokensKept, TokensOnce, GateTypes, GateTypeOK, StateOK
    <2>2. QED
      BY <1>2, <2>1 DEF TokensKept, TokensOnce
  <1>3. QED
    BY <1>1, <1>2 DEF EnrolledOnce

\* An actor has one active key and a token enrols one, unless two enrolments of
\* the actor, or two uses of the token file, overlapped.
THEOREM EverybodyEnrolledOnce == GateSpec => []EnrolledOnce
  <1> DEFINE Inv == GateTypes /\ ActorsOnce /\ TokensKept
  <1>1. GateInit => Inv
    BY InitTypes, InitEnrolments
  <1>2. Inv /\ [GateNext]_gateVars => Inv'
    BY NextTypes, TypesStutter, NextActorsOnce, NextTokensKept, EnrolmentsStutter
  <1>3. Inv => EnrolledOnce
    BY EnrolmentsMeanOnce
  <1>4. QED
    BY <1>1, <1>2, <1>3, PTL DEF GateSpec

==================================================================================
