----------------------------- MODULE StatementsProofs -----------------------------
(***************************************************************************)
(* Proofs about YearEnd and Statements, for any chart of accounts, any     *)
(* bookings, any number of entries and any taxonomy; and about Payments,   *)
(* for any number of processes, payables, batches, lines and mandates.     *)
(***************************************************************************)
EXTENDS Statements, Payments, SumTheorems, FunctionTheorems, FiniteSetTheorems, SequenceTheorems,
        WellFoundedInduction, TLAPS

----------------------------------------------------------------------------------
(* YearEnd: types. *)

LEMMA AccountsAre ==
  /\ IsFiniteSet(Accounts) /\ IsFiniteSet(Flow) /\ Flow \in SUBSET Accounts
  /\ Result \in Accounts /\ Equity \in Accounts
  BY YearEndAssumption, FS_Subset DEF Accounts, Passiva

LEMMA SumIsInt ==
  /\ \A l \in Amounts : SumOf(l) \in Int
  /\ \A n \in [Flow -> Int] : SumOf(n) \in Int
  BY AccountsAre, SumTyped DEF Amounts

LEMMA IdsFinite ==
  ASSUME NEW S, entries \in Seq(S)
  PROVE  IsFiniteSet(Ids) /\ Ids = 1 .. Len(entries) /\ Len(entries) \in Nat
  <1>1. Ids = 1 .. Len(entries) /\ Len(entries) \in Nat
    BY DEF Ids
  <1>2. QED
    BY <1>1, FS_Interval

LEMMA RowsAre ==
  ASSUME entries \in Seq(EntryRow)
  PROVE  \A i \in Ids : entries[i] \in EntryRow
  BY DEF Ids

LEMMA AmountTyped ==
  ASSUME entries \in Seq(EntryRow), NEW S \in SUBSET Ids, NEW a \in Accounts
  PROVE  IsFiniteSet(S) /\ AmountOn(a, S) \in Int
  <1> DEFINE f == [i \in S |-> entries[i].postings[a]]
  <1>1. IsFiniteSet(S)
    BY IdsFinite, FS_Subset
  <1>2. \A i \in S : entries[i].postings \in Amounts
    BY RowsAre DEF EntryRow
  <1>3. f \in [S -> Int]
    BY <1>2 DEF Amounts
  <1> HIDE DEF f
  <1>4. SumOf(f) \in Int
    BY <1>1, <1>3, SumTyped
  <1>5. QED
    BY <1>1, <1>4 DEF f, AmountOn

LEMMA NetsTyped ==
  ASSUME entries \in Seq(EntryRow)
  PROVE  [a \in Flow |-> Net(a)] \in [Flow -> Int]
  <1>1. \A a \in Flow : Net(a) \in Int
    BY AmountTyped, AccountsAre DEF Net
  <1>2. QED
    BY <1>1

LEMMA PostingsTyped ==
  ASSUME NEW p \in Closers, nets \in [Closers -> [Flow -> Int]]
  PROVE  Profit(p) \in Int /\ ClosingPostings(p) \in Amounts /\ AppropriationPostings(p) \in Amounts
  <1>1. nets[p] \in [Flow -> Int] /\ SumOf(nets[p]) \in Int
    BY SumIsInt
  <1>2. Profit(p) \in Int
    BY <1>1 DEF Profit
  <1>3. QED
    BY <1>1, <1>2 DEF ClosingPostings, AppropriationPostings, Amounts

\* What a command leaves of the rows that were there.
RowsKept ==
  /\ Ids \subseteq DOMAIN entries' /\ Len(entries) <= Len(entries')
  /\ \A i \in Ids : /\ entries'[i] \in EntryRow
                    /\ entries'[i].source = entries[i].source
                    /\ entries'[i].postings = entries[i].postings
                    /\ entries'[i].reversedFrom = entries[i].reversedFrom

LEMMA InsertTypes ==
  ASSUME entries \in Seq(EntryRow), NEW e \in EntryRow, entries' = Append(entries, e)
  PROVE  /\ entries' \in Seq(EntryRow) /\ RowsKept
         /\ Len(entries') = Len(entries) + 1 /\ DOMAIN entries' = Ids \cup {Len(entries) + 1}
         /\ Len(entries) + 1 \notin Ids
         /\ entries'[Len(entries) + 1] = e /\ \A i \in Ids : entries'[i] = entries[i]
  <1>1. Len(entries) \in Nat /\ Ids = 1 .. Len(entries)
    BY DEF Ids
  <1>2. /\ entries' \in Seq(EntryRow) /\ Len(entries') = Len(entries) + 1
        /\ entries'[Len(entries) + 1] = e /\ \A i \in 1 .. Len(entries) : entries'[i] = entries[i]
    OBVIOUS
  <1>3. DOMAIN entries' = 1 .. Len(entries) + 1
    BY <1>2
  <1>4. QED
    BY <1>1, <1>2, <1>3, RowsAre DEF RowsKept

LEMMA MarkTypes ==
  ASSUME entries \in Seq(EntryRow), NEW j \in Ids, MarkPosted(j)
  PROVE  /\ entries' \in Seq(EntryRow) /\ RowsKept /\ DOMAIN entries' = Ids /\ Len(entries') = Len(entries)
         /\ \A i \in Ids : entries'[i].state = IF i = j THEN "posted" ELSE entries[i].state
         /\ IsDraft(j) /\ SumOf(entries[j].postings) = 0
  <1>1. entries' = [entries EXCEPT ![j].state = "posted"] /\ IsDraft(j) /\ SumOf(entries[j].postings) = 0
    BY DEF MarkPosted, MayMarkPosted, Balanced
  <1>2. Len(entries) \in Nat /\ Ids = 1 .. Len(entries)
    BY DEF Ids
  <1>3. \A i \in Ids : entries[i] \in EntryRow
    BY RowsAre
  <1>4. \A i \in Ids : entries'[i] = IF i = j THEN [entries[i] EXCEPT !.state = "posted"] ELSE entries[i]
    BY <1>1 DEF Ids
  <1>5. \A i \in Ids : /\ entries'[i] \in EntryRow
                       /\ entries'[i].source = entries[i].source
                       /\ entries'[i].postings = entries[i].postings
                       /\ entries'[i].reversedFrom = entries[i].reversedFrom
                       /\ entries'[i].state = IF i = j THEN "posted" ELSE entries[i].state
    <2> SUFFICES ASSUME NEW i \in Ids
                 PROVE  /\ entries'[i] \in EntryRow
                        /\ entries'[i].source = entries[i].source
                        /\ entries'[i].postings = entries[i].postings
                        /\ entries'[i].reversedFrom = entries[i].reversedFrom
                        /\ entries'[i].state = IF i = j THEN "posted" ELSE entries[i].state
      OBVIOUS
    <2>1. PICK row \in EntryRow : row = entries[i]
      BY <1>3
    <2>2. CASE i = j
      <3>1. entries'[i] = [row EXCEPT !.state = "posted"]
        BY <1>4, <2>1, <2>2
      <3>2. QED
        BY <2>1, <2>2, <3>1 DEF EntryRow
    <2>3. CASE i # j
      <3>1. entries'[i] = row
        BY <1>4, <2>1, <2>3
      <3>2. QED
        BY <2>1, <2>3, <3>1
    <2>4. QED
      BY <2>2, <2>3
  <1>6. DOMAIN entries' = Ids /\ Len(entries') = Len(entries)
    BY <1>1, <1>2 DEF Ids
  <1>7. entries' \in Seq(EntryRow)
    <2>1. entries' = [i \in 1 .. Len(entries) |-> entries'[i]]
      BY <1>1, <1>2 DEF Ids
    <2>2. QED
      BY <1>2, <1>5, <2>1
  <1>8. QED
    BY <1>1, <1>5, <1>6, <1>7 DEF RowsKept


LEMMA DraftIs ==
  ASSUME NEW l \in Amounts, NEW source \in {"manual", "closing", "reversal"}, NEW ref \in {"fy", NoRef},
         InsertDraft(l, source, ref)
  PROVE  \E e \in EntryRow : /\ entries' = Append(entries, e)
                             /\ e.state = "draft" /\ e.postings = l /\ e.source = source /\ e.reversedFrom = 0
  BY DEF InsertDraft, EntryRow

LEMMA NegatedTyped ==
  ASSUME NEW l \in Amounts
  PROVE  Negated(l) \in Amounts /\ \A a \in Accounts : Negated(l)[a] = -l[a]
  BY DEF Negated, Amounts

LEMMA ReversalIs ==
  ASSUME entries \in Seq(EntryRow), NEW j \in Ids, InsertReversal(j)
  PROVE  \E e \in EntryRow : /\ entries' = Append(entries, e)
                             /\ e.state = "posted" /\ e.postings = Negated(entries[j].postings)
                             /\ e.source = "reversal" /\ e.reversedFrom = j /\ SumOf(e.postings) = 0
  <1>1. entries[j].postings \in Amounts /\ j \in Nat
    BY RowsAre, IdsFinite DEF EntryRow
  <1>2. Negated(entries[j].postings) \in Amounts
    BY <1>1, NegatedTyped
  <1>3. QED
    BY <1>1, <1>2, SMTT(30) DEF InsertReversal, EntryRow, Balanced

\* What any step does to the journal.
Inserts(source) ==
  \E e \in EntryRow : /\ entries' = Append(entries, e) /\ e.source = source
                      /\ e.reversedFrom \in {0} \cup Ids
                      /\ source = "reversal" => e.reversedFrom \in Ids
                      /\ e.state = "posted" => SumOf(e.postings) = 0

Commands ==
  \/ UNCHANGED entries
  \/ Inserts("manual")
  \/ Inserts("reversal")
  \/ \E j \in Ids : MarkPosted(j)

Closes(p) ==
  \/ Stands(p, "create") /\ Create(p, ClosingPostings(p), "post")
  \/ Stands(p, "create_2") /\ Create(p, AppropriationPostings(p), "post_2")

LEMMA BookInserts ==
  ASSUME NEW l \in Amounts, NEW source \in {"manual", "closing"}, NEW ref \in {"fy", NoRef},
         InsertDraft(l, source, ref)
  PROVE  Inserts(source)
  <1>1. PICK e \in EntryRow : /\ entries' = Append(entries, e)
                              /\ e.state = "draft" /\ e.source = source /\ e.reversedFrom = 0
    BY DraftIs
  <1>2. QED
    BY <1>1 DEF Inserts

LEMMA ReverseInserts ==
  ASSUME entries \in Seq(EntryRow), NEW j \in Ids, InsertReversal(j)
  PROVE  Inserts("reversal")
  <1>1. PICK e \in EntryRow : /\ entries' = Append(entries, e)
                              /\ e.source = "reversal" /\ e.reversedFrom = j /\ SumOf(e.postings) = 0
    BY ReversalIs
  <1>2. QED
    BY <1>1 DEF Inserts

\* Where each step of a closer leads.
CloserSteps(p) ==
  \/ CheckDrafts(p) \/ CheckOpen(p) \/ ReadNets(p) \/ GiveUp(p)
  \/ EnsureResultAccount(p) \/ CreateClosing(p) \/ PostClosing(p)
  \/ CreateAppropriation(p) \/ PostAppropriation(p) \/ Stop(p)

LEMMA StepIs ==
  ASSUME CloseTypeOK, [CloseNext]_closeVars
  PROVE  \/ Commands /\ (\E p \in Closers : CloserSteps(p) /\ ~Closes(p))
         \/ Commands /\ UNCHANGED <<pc, nets, own, hasResult>>
         \/ \E p \in Closers : Closes(p)
  <1>0. entries \in Seq(EntryRow)
    BY DEF CloseTypeOK
  <1>1. CASE UNCHANGED closeVars
    BY <1>1 DEF closeVars, Commands
  <1>2. ASSUME NEW l \in Bookings, Book(l)
        PROVE  Commands /\ UNCHANGED <<pc, nets, own, hasResult>>
    <2>1. l \in Amounts
      BY YearEndAssumption
    <2>2. Inserts("manual")
      BY <1>2, <2>1, BookInserts DEF Book
    <2>3. QED
      BY <1>2, <2>2 DEF Book, Others, Commands
  <1>3. ASSUME NEW j \in Ids, Post(j) \/ Reverse(j)
        PROVE  Commands /\ UNCHANGED <<pc, nets, own, hasResult>>
    <2>1. CASE Post(j)
      BY <2>1 DEF Post, Others, Commands
    <2>2. CASE Reverse(j)
      BY <1>0, <2>2, ReverseInserts DEF Reverse, Others, Commands
    <2>3. QED
      BY <1>3, <2>1, <2>2
  <1>4. ASSUME NEW p \in Closers, CloserSteps(p), ~Closes(p)
        PROVE  Commands
    <2>1. CASE CheckDrafts(p) \/ CheckOpen(p) \/ ReadNets(p) \/ GiveUp(p) \/ EnsureResultAccount(p) \/ Stop(p)
      BY <2>1 DEF CheckDrafts, CheckOpen, ReadNets, GiveUp, EnsureResultAccount, Stop, Commands
    <2>2. CASE CreateClosing(p) \/ CreateAppropriation(p)
      BY <1>4, <2>2 DEF CreateClosing, CreateAppropriation, Closes
    <2>3. CASE PostClosing(p) \/ PostAppropriation(p)
      <3>1. MarkPosted(own[p]) /\ pc[p] \in {"post", "post_2"}
        BY <2>3 DEF PostClosing, PostAppropriation, Stands
      <3>2. own[p] \in {0} \cup Ids /\ IsDraft(own[p])
        BY <3>1 DEF CloseTypeOK, MarkPosted, MayMarkPosted
      <3>3. own[p] \in Ids
        BY <3>1, <3>2 DEF CloseTypeOK
      <3>4. QED
        BY <3>1, <3>3 DEF Commands
    <2>4. QED
      BY <1>4, <2>1, <2>2, <2>3 DEF CloserSteps
  <1>5. QED
    BY <1>1, <1>2, <1>3, <1>4 DEF CloseNext, CloserSteps


\* A command keeps the rows, and adds one at most.
LEMMA CommandTypes ==
  ASSUME entries \in Seq(EntryRow), Commands
  PROVE  entries' \in Seq(EntryRow) /\ RowsKept
  <1>1. CASE UNCHANGED entries
    BY <1>1, RowsAre DEF RowsKept, Ids
  <1>2. CASE Inserts("manual") \/ Inserts("reversal")
    BY <1>2, InsertTypes DEF Inserts
  <1>3. CASE \E j \in Ids : MarkPosted(j)
    BY <1>3, MarkTypes
  <1>4. QED
    BY <1>1, <1>2, <1>3 DEF Commands

LEMMA CreateInserts ==
  ASSUME CloseTypeOK, NEW p \in Closers, NEW l \in Amounts, NEW next, Create(p, l, next)
  PROVE  /\ Inserts("closing") /\ entries' \in Seq(EntryRow) /\ RowsKept
         /\ DOMAIN entries' = Ids \cup {Len(entries) + 1} /\ Len(entries) + 1 \notin Ids
         /\ \A i \in Ids : entries'[i] = entries[i]
         /\ entries'[Len(entries) + 1].source = "closing" /\ entries'[Len(entries) + 1].postings = l
         /\ entries'[Len(entries) + 1].reversedFrom = 0
  <1>1. entries \in Seq(EntryRow) /\ InsertDraft(l, "closing", "fy")
    BY DEF CloseTypeOK, Create
  <1>2. PICK e \in EntryRow : /\ entries' = Append(entries, e)
                              /\ e.postings = l /\ e.source = "closing" /\ e.reversedFrom = 0
    BY <1>1, DraftIs
  <1>3. QED
    BY <1>1, <1>2, BookInserts, InsertTypes

\* What the closers hold, as the journal only grows.
LEMMA HeldTypes ==
  ASSUME CloseTypeOK, entries' \in Seq(EntryRow), RowsKept, NEW p \in Closers
  PROVE  /\ own[p] \in {0} \cup DOMAIN entries'
         /\ pc[p] \in {"post", "create_2", "post_2"} =>
              own[p] \in DOMAIN entries' /\ entries'[own[p]].source = "closing"
  BY DEF CloseTypeOK, RowsKept, IsClosing

\* The part of CloseTypeOK about one closer.
CloserOK(p) ==
  /\ pc[p] \in Steps /\ nets[p] \in [Flow -> Int] /\ own[p] \in {0} \cup Ids
  /\ pc[p] \in {"idle", "drafts", "open"} => nets[p] = NoNets /\ own[p] = 0
  /\ pc[p] \in {"post", "create_2", "post_2"} => own[p] \in Ids /\ IsClosing(own[p])

TypesWhole ==
  /\ entries \in Seq(EntryRow) /\ hasResult \in BOOLEAN
  /\ pc = [p \in Closers |-> pc[p]] /\ nets = [p \in Closers |-> nets[p]]
  /\ own = [p \in Closers |-> own[p]]
  /\ \A p \in Closers : CloserOK(p)

LEMMA TypesAre == CloseTypeOK <=> TypesWhole
  BY DEF CloseTypeOK, CloserOK, TypesWhole

\* Every step writes the state of one closer, wholly.
Sets(p, s, n, o) ==
  pc' = [pc EXCEPT ![p] = s] /\ nets' = [nets EXCEPT ![p] = n] /\ own' = [own EXCEPT ![p] = o]

Fits(s, n, o) ==
  /\ s \in Steps /\ n \in [Flow -> Int] /\ o \in {0} \cup DOMAIN entries'
  /\ s \in {"idle", "drafts", "open"} => n = NoNets /\ o = 0
  /\ s \in {"post", "create_2", "post_2"} => o \in DOMAIN entries' /\ entries'[o].source = "closing"

LEMMA CloserStepTypes ==
  ASSUME CloseTypeOK, NEW p \in Closers, CloserSteps(p), entries' \in Seq(EntryRow), RowsKept
  PROVE  (\E s, n, o : Sets(p, s, n, o) /\ Fits(s, n, o)) /\ hasResult' \in BOOLEAN
  <1>1. /\ CloserOK(p) /\ pc = [pc EXCEPT ![p] = pc[p]]
        /\ nets = [nets EXCEPT ![p] = nets[p]] /\ own = [own EXCEPT ![p] = own[p]]
        /\ own[p] \in {0} \cup DOMAIN entries' /\ NoNets \in [Flow -> Int] /\ hasResult \in BOOLEAN
    <2>1. own[p] \in {0} \cup DOMAIN entries'
      BY HeldTypes
    <2>2. CloserOK(p)
      BY TypesAre DEF TypesWhole
    <2>3. QED
      BY <2>1, <2>2 DEF CloseTypeOK, NoNets
  <1>2. CASE CheckDrafts(p) \/ CheckOpen(p)
    <2>1. PICK s \in {"drafts", "open"} : GoesTo(p, s) /\ UNCHANGED <<hasResult, nets, own>> /\ pc[p] \in {"idle", "drafts"}
      BY <1>2 DEF CheckDrafts, CheckOpen, Stands
    <2>2. Sets(p, s, nets[p], own[p])
      BY <1>1, <2>1 DEF Sets, GoesTo
    <2>3. Fits(s, nets[p], own[p])
      BY <1>1, <2>1 DEF Fits, CloserOK, Steps
    <2>4. QED
      BY <1>1, <2>1, <2>2, <2>3
  <1>3. CASE ReadNets(p)
    <2> DEFINE n == [a \in Flow |-> Net(a)]
    <2>1. n \in [Flow -> Int]
      BY NetsTyped DEF CloseTypeOK
    <2>2. pc' = [pc EXCEPT ![p] = "account"] /\ nets' = [nets EXCEPT ![p] = n] /\ own' = own /\ hasResult' = hasResult
      BY <1>3 DEF ReadNets, GoesTo
    <2> HIDE DEF n
    <2>3. Sets(p, "account", n, own[p])
      BY <1>1, <2>2 DEF Sets
    <2>4. Fits("account", n, own[p])
      BY <1>1, <2>1 DEF Fits, Steps
    <2>5. QED
      BY <1>1, <2>2, <2>3, <2>4
  <1>4. CASE Rests(p) /\ UNCHANGED hasResult
    <2>1. Sets(p, "idle", NoNets, 0)
      BY <1>4 DEF Sets, Rests, GoesTo
    <2>2. Fits("idle", NoNets, 0)
      BY <1>1 DEF Fits, Steps
    <2>3. QED
      BY <1>1, <1>4, <2>1, <2>2
  <1>5. CASE EnsureResultAccount(p)
    <2>1. GoesTo(p, "create") /\ UNCHANGED <<nets, own>> /\ hasResult' \in BOOLEAN
      BY <1>1, <1>5 DEF EnsureResultAccount
    <2>2. Sets(p, "create", nets[p], own[p])
      BY <1>1, <2>1 DEF Sets, GoesTo
    <2>3. Fits("create", nets[p], own[p])
      BY <1>1 DEF Fits, CloserOK, Steps
    <2>4. QED
      BY <2>1, <2>2, <2>3
  <1>6. CASE PostClosing(p) /\ GoesTo(p, "create_2") /\ UNCHANGED <<nets, own>>
    <2>1. own[p] \in DOMAIN entries' /\ entries'[own[p]].source = "closing" /\ UNCHANGED hasResult
      BY <1>6, HeldTypes DEF PostClosing, Stands
    <2>2. Sets(p, "create_2", nets[p], own[p])
      BY <1>1, <1>6 DEF Sets, GoesTo
    <2>3. Fits("create_2", nets[p], own[p])
      BY <1>1, <2>1 DEF Fits, CloserOK, Steps
    <2>4. QED
      BY <1>1, <2>1, <2>2, <2>3
  <1>7. ASSUME NEW l \in Amounts, NEW s \in {"post", "post_2"}, Create(p, l, s)
        PROVE  (\E r, n, o : Sets(p, r, n, o) /\ Fits(r, n, o)) /\ hasResult' \in BOOLEAN
    <2>1. /\ Len(entries) + 1 \in DOMAIN entries' /\ entries'[Len(entries) + 1].source = "closing"
          /\ own' = [own EXCEPT ![p] = Len(entries) + 1]
          /\ pc' = [pc EXCEPT ![p] = s] /\ nets' = nets /\ hasResult' = hasResult
      BY <1>7, CreateInserts DEF Create, LastId, GoesTo
    <2>2. Sets(p, s, nets[p], Len(entries) + 1)
      BY <1>1, <2>1 DEF Sets
    <2>3. Fits(s, nets[p], Len(entries) + 1)
      BY <1>1, <2>1 DEF Fits, CloserOK, Steps
    <2>4. QED
      BY <1>1, <2>1, <2>2, <2>3
  <1>8. CASE CreateClosing(p) \/ CreateAppropriation(p)
    <2>1. ClosingPostings(p) \in Amounts /\ AppropriationPostings(p) \in Amounts
      BY PostingsTyped DEF CloseTypeOK
    <2>2. QED
      BY <1>7, <1>8, <2>1 DEF CreateClosing, CreateAppropriation
  <1>9. GiveUp(p) \/ Stop(p) \/ PostAppropriation(p) => Rests(p) /\ UNCHANGED hasResult
    BY DEF GiveUp, Stop, PostAppropriation
  <1>10. PostClosing(p) => \/ PostClosing(p) /\ GoesTo(p, "create_2") /\ UNCHANGED <<nets, own>>
                           \/ Rests(p) /\ UNCHANGED hasResult
    BY DEF PostClosing
  <1>11. QED
    BY <1>2, <1>3, <1>4, <1>5, <1>6, <1>8, <1>9, <1>10 DEF CloserSteps

LEMMA NextTypes == CloseTypeOK /\ [CloseNext]_closeVars => CloseTypeOK'
  <1> SUFFICES ASSUME CloseTypeOK, [CloseNext]_closeVars
               PROVE  CloseTypeOK'
    OBVIOUS
  <1>0. entries \in Seq(EntryRow)
    BY DEF CloseTypeOK
  <1>1. ASSUME NEW p \in Closers, CloserSteps(p), entries' \in Seq(EntryRow), RowsKept
        PROVE  CloseTypeOK'
    <2>1. PICK s, n, o : Sets(p, s, n, o) /\ Fits(s, n, o)
      BY <1>1, CloserStepTypes
    <2>2. hasResult' \in BOOLEAN
      BY <1>1, CloserStepTypes
    <2>3. ASSUME NEW q \in Closers
          PROVE  CloserOK(q)'
      <3>1. /\ own[q] \in {0} \cup DOMAIN entries'
            /\ pc[q] \in {"post", "create_2", "post_2"} =>
                 own[q] \in DOMAIN entries' /\ entries'[own[q]].source = "closing"
        BY <1>1, HeldTypes
      <3>2. CASE q = p
        BY <2>1, <3>2 DEF Sets, Fits, CloserOK, CloseTypeOK, Ids, IsClosing, NoNets
      <3>3. CASE q # p
        BY <2>1, <3>1, <3>3 DEF Sets, CloserOK, CloseTypeOK, Ids, IsClosing, NoNets
      <3>4. QED
        BY <3>2, <3>3
    <2>4. /\ pc' = [q \in Closers |-> pc'[q]] /\ nets' = [q \in Closers |-> nets'[q]]
          /\ own' = [q \in Closers |-> own'[q]]
      BY <2>1 DEF Sets, CloseTypeOK
    <2>5. TypesWhole'
      BY <1>1, <2>2, <2>3, <2>4 DEF TypesWhole
    <2>6. QED
      BY <2>5, TypesAre, PTL
  <1>2. CASE Commands /\ UNCHANGED <<pc, nets, own, hasResult>>
    <2>1. entries' \in Seq(EntryRow) /\ RowsKept
      BY <1>0, <1>2, CommandTypes
    <2>2. \A q \in Closers : /\ own[q] \in {0} \cup DOMAIN entries'
                             /\ pc[q] \in {"post", "create_2", "post_2"} =>
                                  own[q] \in DOMAIN entries' /\ entries'[own[q]].source = "closing"
      BY <2>1, HeldTypes
    <2>3. QED
      BY <1>2, <2>1, <2>2 DEF CloseTypeOK, Ids, IsClosing
  <1>3. CASE \E p \in Closers : Closes(p)
    <2>1. PICK p \in Closers : Closes(p)
      BY <1>3
    <2>2. ClosingPostings(p) \in Amounts /\ AppropriationPostings(p) \in Amounts
      BY PostingsTyped DEF CloseTypeOK
    <2>3. CloserSteps(p)
      BY <2>1 DEF Closes, CloserSteps, CreateClosing, CreateAppropriation
    <2>4. entries' \in Seq(EntryRow) /\ RowsKept
      BY <2>1, <2>2, CreateInserts DEF Closes
    <2>5. QED
      BY <1>1, <2>3, <2>4
  <1>4. QED
    BY <1>0, <1>1, <1>2, <1>3, StepIs, CommandTypes


LEMMA InitTypes == CloseInit => CloseTypeOK
  <1> SUFFICES ASSUME CloseInit
               PROVE  CloseTypeOK
    OBVIOUS
  <1>1. NoNets \in [Flow -> Int]
    BY DEF NoNets
  <1>2. \A p \in Closers : CloserOK(p)
    BY <1>1 DEF CloseInit, CloserOK, Steps
  <1>3. entries \in Seq(EntryRow)
    BY DEF CloseInit
  <1>4. TypesWhole
    BY <1>2, <1>3 DEF CloseInit, TypesWhole
  <1>5. QED
    BY <1>4, TypesAre

\* Reports read the journal and change none of it.
LEMMA StepOfYear == [AllNext]_allVars => [CloseNext]_closeVars
  BY DEF AllNext, Command, ReadRows, ReadResult, EndReport, Reads, allVars

\* Every variable of the year-end close keeps its type.
THEOREM CloseTypeCorrect == CloseSpec => []CloseTypeOK
  BY InitTypes, NextTypes, PTL DEF CloseSpec

----------------------------------------------------------------------------------
(* A year is closed once, by one closer at a time. *)

OneCloser == \A p, q \in Closers : p = q

Standing(i) == IsClosing(i) /\ IsLive(i)

\* While a closer is at work no other close stands than the one it made.
CloseOK(p) ==
  /\ pc[p] \in {"open", "account", "create"} => \A i \in Ids : ~Standing(i)
  /\ pc[p] \in {"post", "create_2"} =>
       /\ entries[own[p]].postings = ClosingPostings(p)
       /\ \A i \in Ids : Standing(i) => i = own[p]

ClosesOK ==
  /\ \A r \in Ids : entries[r].reversedFrom \in 0 .. Len(entries)
  /\ OneLiveClose /\ LivePairCancels
  /\ \A p \in Closers : CloseOK(p)

YearIInv == CloseTypeOK /\ ClosesOK

\* No close stands afterwards that did not stand before.
StandingKept ==
  \A i \in DOMAIN entries' : Standing(i)' => i \in Ids /\ Standing(i) /\ entries'[i].postings = entries[i].postings

LinksOK == \A r \in Ids : entries[r].reversedFrom \in 0 .. Len(entries)

LEMMA RowsStand ==
  ASSUME entries \in Seq(EntryRow), RowsKept
  PROVE  \A i \in Ids : Standing(i)' => Standing(i)
  BY DEF RowsKept, Standing, IsClosing, IsLive, Ids

LEMMA InsertLinks ==
  ASSUME entries \in Seq(EntryRow), LinksOK, NEW source, Inserts(source)
  PROVE  LinksOK'
  <1>1. PICK e \in EntryRow : /\ entries' = Append(entries, e)
                              /\ e.reversedFrom \in {0} \cup Ids
    BY DEF Inserts
  <1>2. /\ Len(entries') = Len(entries) + 1 /\ DOMAIN entries' = Ids \cup {Len(entries) + 1}
        /\ entries'[Len(entries) + 1] = e /\ \A i \in Ids : entries'[i] = entries[i]
    BY <1>1, InsertTypes
  <1>3. Len(entries) \in Nat /\ Ids = 1 .. Len(entries)
    BY IdsFinite
  <1>4. \A r \in DOMAIN entries' : entries'[r].reversedFrom \in 0 .. Len(entries')
    BY <1>1, <1>2, <1>3 DEF LinksOK
  <1>5. QED
    BY <1>4 DEF LinksOK, Ids

LEMMA CommandLinks ==
  ASSUME entries \in Seq(EntryRow), LinksOK, Commands
  PROVE  LinksOK' /\ StandingKept
  <1>0. entries' \in Seq(EntryRow) /\ RowsKept
    BY CommandTypes
  <1>1. \A i \in Ids : Standing(i)' => Standing(i) /\ entries'[i].postings = entries[i].postings
    BY <1>0, RowsStand DEF RowsKept
  <1>2. CASE UNCHANGED entries
    BY <1>1, <1>2 DEF LinksOK, StandingKept, Ids
  <1>3. CASE Inserts("manual") \/ Inserts("reversal")
    <2>1. PICK e \in EntryRow : entries' = Append(entries, e) /\ e.source \in {"manual", "reversal"}
      BY <1>3 DEF Inserts
    <2>2. /\ DOMAIN entries' = Ids \cup {Len(entries) + 1}
          /\ entries'[Len(entries) + 1] = e
      BY <2>1, InsertTypes
    <2>3. StandingKept
      <3>1. ASSUME NEW i \in DOMAIN entries', Standing(i)'
            PROVE  i \in Ids
        <4>1. CASE i = Len(entries) + 1
          BY <2>1, <2>2, <3>1, <4>1 DEF Standing, IsClosing
        <4>2. QED
          BY <2>2, <4>1
      <3>2. QED
        BY <1>1, <3>1 DEF StandingKept
    <2>4. QED
      BY <1>3, <2>3, InsertLinks
  <1>4. CASE \E j \in Ids : MarkPosted(j)
    <2>1. DOMAIN entries' = Ids /\ Len(entries') = Len(entries)
      BY <1>4, MarkTypes
    <2>2. QED
      BY <1>0, <1>1, <2>1 DEF LinksOK, StandingKept, RowsKept, Ids
  <1>5. QED
    BY <1>2, <1>3, <1>4 DEF Commands


LEMMA StandingNew ==
  ASSUME CloseTypeOK, LinksOK, NEW p \in Closers, NEW l \in Amounts, NEW next, Create(p, l, next)
  PROVE  /\ LinksOK' /\ DOMAIN entries' = Ids \cup {LastId + 1} /\ LastId + 1 \notin Ids
         /\ entries'[LastId + 1].postings = l
         /\ \A i \in Ids : entries'[i] = entries[i] /\ (Standing(i)' => Standing(i))
         /\ own' = [own EXCEPT ![p] = LastId + 1] /\ pc' = [pc EXCEPT ![p] = next] /\ nets' = nets
  <1>1. entries \in Seq(EntryRow)
    BY DEF CloseTypeOK
  <1>2. LinksOK'
    BY <1>1, CreateInserts, InsertLinks
  <1>3. \A i \in Ids : Standing(i)' => Standing(i)
    BY <1>1, CreateInserts, RowsStand
  <1>4. QED
    BY <1>2, <1>3, CreateInserts DEF LastId, Create, GoesTo

\* A step that makes no close: what stands is what stood.
LEMMA KeptCloses ==
  ASSUME YearIInv, StandingKept
  PROVE  OneLiveClose' /\ LivePairCancels'
  <1>1. \A i \in DOMAIN entries' : Standing(i)' => /\ i \in Ids /\ Standing(i)
                                                   /\ entries'[i].postings = entries[i].postings
    BY DEF StandingKept
  <1>2. OneLiveClose'
    BY <1>1 DEF YearIInv, ClosesOK, OneLiveClose, IsFlattening, Standing, Ids
  <1>3. LivePairCancels'
    <2> SUFFICES ASSUME NEW i \in DOMAIN entries', NEW j \in DOMAIN entries',
                        IsFlattening(i)', IsAppropriation(j)', IsLive(i)', IsLive(j)'
                 PROVE  /\ \A a \in Assets \cup Liabilities \cup {Result} :
                             entries'[i].postings[a] + entries'[j].postings[a] = 0
                        /\ entries'[j].postings[Equity] = -SumOf([a \in Flow |-> entries'[i].postings[a]])
      BY DEF LivePairCancels, Ids
    <2>1. Standing(i)' /\ Standing(j)'
      BY DEF Standing, IsFlattening, IsAppropriation
    <2>2. /\ i \in Ids /\ j \in Ids /\ Standing(i) /\ Standing(j)
          /\ entries'[i].postings = entries[i].postings /\ entries'[j].postings = entries[j].postings
      BY <1>1, <2>1
    <2>3. IsFlattening(i) /\ IsAppropriation(j) /\ IsLive(i) /\ IsLive(j)
      BY <2>2 DEF Standing, IsFlattening, IsAppropriation
    <2>4. /\ \A a \in Assets \cup Liabilities \cup {Result} : entries[i].postings[a] + entries[j].postings[a] = 0
          /\ entries[j].postings[Equity] = -SumOf([a \in Flow |-> entries[i].postings[a]])
      BY <2>2, <2>3 DEF YearIInv, ClosesOK, LivePairCancels
    <2>5. QED
      BY <2>2, <2>4
  <1>4. QED
    BY <1>2, <1>3


LEMMA CloserLeads ==
  ASSUME CloseTypeOK, NEW p \in Closers, CloserSteps(p), ~Closes(p)
  PROVE  /\ pc'[p] \in {"open", "account", "create"} =>
              \/ pc[p] \in {"open", "account", "create"}
              \/ \A i \in Ids : ~Standing(i)
         /\ pc'[p] \in {"post", "create_2"} =>
              pc[p] \in {"post", "create_2"} /\ nets'[p] = nets[p] /\ own'[p] = own[p]
  <1>1. pc \in [Closers -> Steps] /\ pc[p] \in Steps
    BY DEF CloseTypeOK
  <1>2. CASE CheckDrafts(p)
    BY <1>1, <1>2 DEF CheckDrafts, GoesTo
  <1>3. CASE CheckOpen(p)
    BY <1>1, <1>3 DEF CheckOpen, GoesTo, IsYearClosed, Standing
  <1>4. CASE ReadNets(p)
    BY <1>1, <1>4 DEF ReadNets, GoesTo, Stands
  <1>5. CASE GiveUp(p) \/ Stop(p) \/ PostAppropriation(p)
    <2>1. Rests(p)
      BY <1>5 DEF GiveUp, Stop, PostAppropriation
    <2>2. QED
      BY <1>1, <2>1 DEF Rests, GoesTo
  <1>6. CASE EnsureResultAccount(p)
    BY <1>1, <1>6 DEF EnsureResultAccount, GoesTo, Stands
  <1>7. CASE PostClosing(p)
    <2>1. CASE Rests(p)
      BY <1>1, <2>1 DEF Rests, GoesTo
    <2>2. CASE GoesTo(p, "create_2") /\ UNCHANGED <<nets, own>>
      BY <1>1, <1>7, <2>2 DEF PostClosing, GoesTo, Stands
    <2>3. QED
      BY <1>7, <2>1, <2>2 DEF PostClosing
  <1>8. CASE CreateClosing(p) \/ CreateAppropriation(p)
    BY <1>8 DEF CreateClosing, CreateAppropriation, Closes
  <1>9. QED
    BY <1>2, <1>3, <1>4, <1>5, <1>6, <1>7, <1>8 DEF CloserSteps

LEMMA SamePostings ==
  ASSUME NEW p \in Closers, nets'[p] = nets[p]
  PROVE  ClosingPostings(p)' = ClosingPostings(p)
  BY DEF ClosingPostings, Profit

LEMMA KeptClosers ==
  ASSUME YearIInv, StandingKept, RowsKept, NEW p \in Closers,
         \/ pc'[p] = pc[p] /\ nets'[p] = nets[p] /\ own'[p] = own[p]
         \/ CloserSteps(p) /\ ~Closes(p)
  PROVE  CloseOK(p)'
  <1>1. CloseTypeOK /\ CloseOK(p)
    BY DEF YearIInv, ClosesOK
  <1>2. \A i \in DOMAIN entries' : Standing(i)' => i \in Ids /\ Standing(i)
    BY DEF StandingKept
  <1>3. /\ pc'[p] \in {"open", "account", "create"} =>
             \/ pc[p] \in {"open", "account", "create"}
             \/ \A i \in Ids : ~Standing(i)
        /\ pc'[p] \in {"post", "create_2"} =>
             pc[p] \in {"post", "create_2"} /\ nets'[p] = nets[p] /\ own'[p] = own[p]
    <2>1. CASE pc'[p] = pc[p] /\ nets'[p] = nets[p] /\ own'[p] = own[p]
      BY <2>1
    <2>2. CASE CloserSteps(p) /\ ~Closes(p)
      BY <1>1, <2>2, CloserLeads
    <2>3. QED
      BY <2>1, <2>2
  <1>4. ASSUME pc'[p] \in {"open", "account", "create"}
        PROVE  \A i \in DOMAIN entries' : ~Standing(i)'
    BY <1>1, <1>2, <1>3, <1>4 DEF CloseOK
  <1>5. ASSUME pc'[p] \in {"post", "create_2"}
        PROVE  /\ entries'[own'[p]].postings = ClosingPostings(p)'
               /\ \A i \in DOMAIN entries' : Standing(i)' => i = own'[p]
    <2>1. pc[p] \in {"post", "create_2"} /\ nets'[p] = nets[p] /\ own'[p] = own[p]
      BY <1>3, <1>5
    <2>2. ClosingPostings(p)' = ClosingPostings(p)
      BY <2>1, SamePostings
    <2>3. own[p] \in Ids /\ entries[own[p]].postings = ClosingPostings(p)
      BY <1>1, <2>1 DEF CloseTypeOK, CloseOK
    <2>4. entries'[own[p]].postings = entries[own[p]].postings
      BY <2>3 DEF RowsKept
    <2>5. \A i \in Ids : Standing(i) => i = own[p]
      BY <1>1, <2>1 DEF CloseOK
    <2>6. QED
      BY <1>2, <2>1, <2>2, <2>3, <2>4, <2>5
  <1>6. QED
    BY <1>4, <1>5 DEF CloseOK, Ids

\* The entry that empties the accounts is made when no other close stands.
LEMMA ClosingKeeps ==
  ASSUME OneCloser, YearIInv, NEW p \in Closers, Stands(p, "create"), Create(p, ClosingPostings(p), "post")
  PROVE  OneLiveClose' /\ LivePairCancels' /\ \A q \in Closers : CloseOK(q)'
  <1>1. CloseTypeOK /\ LinksOK /\ CloseOK(p)
    BY DEF YearIInv, ClosesOK, LinksOK
  <1>2. ClosingPostings(p) \in Amounts
    BY <1>1, PostingsTyped DEF CloseTypeOK
  <1>3. PICK n, l : n = LastId + 1 /\ l = ClosingPostings(p)
    OBVIOUS
  <1>4. /\ DOMAIN entries' = Ids \cup {n} /\ n \notin Ids
        /\ entries'[n].postings = l
        /\ \A i \in Ids : Standing(i)' => Standing(i)
        /\ own' = [own EXCEPT ![p] = n] /\ pc' = [pc EXCEPT ![p] = "post"] /\ nets' = nets
    BY <1>1, <1>2, <1>3, StandingNew
  <1>5. \A i \in Ids : ~Standing(i)
    BY <1>1 DEF CloseOK, Stands
  <1>6. \A i \in DOMAIN entries' : Standing(i)' => i = n
    BY <1>4, <1>5
  <1>7. OneLiveClose'
    BY <1>6 DEF OneLiveClose, IsFlattening, Standing, Ids
  <1>8. LivePairCancels'
    <2>1. \A i, j \in DOMAIN entries' :
            ~(IsFlattening(i)' /\ IsAppropriation(j)' /\ IsLive(i)' /\ IsLive(j)')
      BY <1>6 DEF IsFlattening, IsAppropriation, Standing
    <2>2. QED
      BY <2>1 DEF LivePairCancels, Ids
  <1>9. own'[p] = n /\ pc'[p] = "post" /\ ClosingPostings(p)' = l
    BY <1>1, <1>3, <1>4, SamePostings DEF CloseTypeOK
  <1>10. CloseOK(p)'
    BY <1>4, <1>6, <1>9 DEF CloseOK, Ids
  <1>11. QED
    BY <1>7, <1>8, <1>10 DEF OneCloser

\* The appropriation belongs to the closing entry that stands, if it still stands.
LEMMA AppropriationKeeps ==
  ASSUME OneCloser, YearIInv, NEW p \in Closers, Stands(p, "create_2"),
         Create(p, AppropriationPostings(p), "post_2")
  PROVE  OneLiveClose' /\ LivePairCancels' /\ \A q \in Closers : CloseOK(q)'
  <1>1. CloseTypeOK /\ LinksOK /\ CloseOK(p) /\ nets[p] \in [Flow -> Int]
    BY DEF YearIInv, ClosesOK, LinksOK, CloseTypeOK
  <1>2. AppropriationPostings(p) \in Amounts /\ Profit(p) \in Int
    BY <1>1, PostingsTyped DEF CloseTypeOK
  <1>3. PICK n, k, l, m : /\ n = LastId + 1 /\ k = own[p]
                          /\ l = ClosingPostings(p) /\ m = AppropriationPostings(p)
    OBVIOUS
  <1>4. /\ DOMAIN entries' = Ids \cup {n} /\ n \notin Ids
        /\ entries'[n].postings = m
        /\ \A i \in Ids : entries'[i] = entries[i] /\ (Standing(i)' => Standing(i))
        /\ own' = [own EXCEPT ![p] = n] /\ pc' = [pc EXCEPT ![p] = "post_2"] /\ nets' = nets
    BY <1>1, <1>2, <1>3, StandingNew
  <1>5. k \in Ids /\ entries[k].postings = l /\ \A i \in Ids : Standing(i) => i = k
    BY <1>1, <1>3 DEF CloseOK, Stands, CloseTypeOK
  <1>6. \A i \in DOMAIN entries' : Standing(i)' => i = k \/ i = n
    BY <1>4, <1>5
  <1>7. \A a \in Flow : m[a] = 0
    <2>1. \A a \in Flow : a \in Accounts /\ a # Result /\ a # Equity
      BY YearEndAssumption DEF Accounts, Passiva
    <2>2. QED
      BY <1>3, <2>1 DEF AppropriationPostings
  <1>8. ~IsFlattening(n)'
    BY <1>4, <1>7 DEF IsFlattening
  <1>9. OneLiveClose'
    BY <1>6, <1>8 DEF OneLiveClose, IsFlattening, Standing, Ids
  <1>10. \A i, j \in DOMAIN entries' :
           IsFlattening(i)' /\ IsAppropriation(j)' /\ IsLive(i)' /\ IsLive(j)' => i = k /\ j = n
    BY <1>6, <1>8 DEF IsFlattening, IsAppropriation, Standing
  <1>11. \A a \in Assets \cup Liabilities \cup {Result} : l[a] + m[a] = 0
    <2>1. \A a \in Assets \cup Liabilities : a \in Accounts /\ a \notin Flow /\ a # Result /\ a # Equity
      BY YearEndAssumption DEF Accounts, Passiva
    <2>2. Result \in Accounts /\ Result \notin Flow /\ Result # Equity
      BY YearEndAssumption DEF Accounts, Passiva
    <2>3. \A a \in Assets \cup Liabilities : l[a] = 0 /\ m[a] = 0
      BY <1>3, <2>1 DEF ClosingPostings, AppropriationPostings
    <2>4. l[Result] = -Profit(p) /\ m[Result] = Profit(p)
      BY <1>3, <2>2 DEF ClosingPostings, AppropriationPostings
    <2>5. QED
      BY <1>2, <2>3, <2>4
  <1>12. m[Equity] = -SumOf([a \in Flow |-> l[a]])
    <2>1. Equity \in Accounts /\ Equity \notin Flow /\ Result # Equity
      BY YearEndAssumption DEF Accounts, Passiva
    <2>2. m[Equity] = -Profit(p)
      BY <1>3, <2>1 DEF AppropriationPostings
    <2> DEFINE f == [a \in Flow |-> l[a]]
    <2>3. \A a \in Flow : a \in Accounts /\ l[a] = -nets[p][a]
      <3>1. \A a \in Flow : a \in Accounts /\ a # Result
        BY YearEndAssumption DEF Accounts, Passiva
      <3>2. QED
        BY <1>3, <3>1 DEF ClosingPostings
    <2>4. f \in [Flow -> Int] /\ \A a \in Flow : f[a] = -nets[p][a]
      BY <1>1, <2>3
    <2> HIDE DEF f
    <2>5. SumOf(f) = -SumOf(nets[p])
      BY <1>1, <2>4, AccountsAre, SumOpposite
    <2>6. QED
      BY <2>2, <2>5 DEF Profit, f
  <1>13. LivePairCancels'
    <2>1. entries'[k].postings = l
      BY <1>4, <1>5
    <2>2. QED
      BY <1>4, <1>10, <1>11, <1>12, <2>1 DEF LivePairCancels, Ids
  <1>14. pc'[p] = "post_2"
    BY <1>1, <1>4 DEF CloseTypeOK
  <1>15. CloseOK(p)'
    BY <1>14 DEF CloseOK
  <1>16. QED
    BY <1>9, <1>13, <1>15 DEF OneCloser

LEMMA NextYear == OneCloser /\ YearIInv /\ [CloseNext]_closeVars => YearIInv'
  <1> SUFFICES ASSUME OneCloser, YearIInv, [CloseNext]_closeVars
               PROVE  YearIInv'
    OBVIOUS
  <1>1. CloseTypeOK' /\ CloseTypeOK /\ LinksOK /\ entries \in Seq(EntryRow)
    BY NextTypes DEF YearIInv, ClosesOK, LinksOK, CloseTypeOK
  <1>2. CASE Commands /\ \A p \in Closers : \/ pc'[p] = pc[p] /\ nets'[p] = nets[p] /\ own'[p] = own[p]
                                            \/ CloserSteps(p) /\ ~Closes(p)
    <2>1. RowsKept /\ LinksOK' /\ StandingKept
      BY <1>1, <1>2, CommandTypes, CommandLinks
    <2>2. OneLiveClose' /\ LivePairCancels'
      BY <2>1, KeptCloses
    <2>3. \A p \in Closers : CloseOK(p)'
      BY <1>2, <2>1, KeptClosers
    <2>4. QED
      BY <1>1, <2>1, <2>2, <2>3 DEF YearIInv, ClosesOK, LinksOK
  <1>3. ASSUME NEW p \in Closers, Closes(p)
        PROVE  YearIInv'
    <2>1. OneLiveClose' /\ LivePairCancels' /\ \A q \in Closers : CloseOK(q)'
      BY <1>3, ClosingKeeps, AppropriationKeeps DEF Closes
    <2>2. LinksOK'
      <3>1. ClosingPostings(p) \in Amounts /\ AppropriationPostings(p) \in Amounts
        BY <1>1, PostingsTyped DEF CloseTypeOK
      <3>2. QED
        BY <1>1, <1>3, <3>1, StandingNew DEF Closes
    <2>3. QED
      BY <1>1, <2>1, <2>2 DEF YearIInv, ClosesOK, LinksOK
  <1>4. Commands /\ UNCHANGED <<pc, nets, own, hasResult>> =>
          \A p \in Closers : pc'[p] = pc[p] /\ nets'[p] = nets[p] /\ own'[p] = own[p]
    OBVIOUS
  <1>5. ASSUME NEW p \in Closers, CloserSteps(p), ~Closes(p)
        PROVE  \A q \in Closers : CloserSteps(q) /\ ~Closes(q)
    BY <1>5 DEF OneCloser
  <1>6. QED
    BY <1>1, <1>2, <1>3, <1>4, <1>5, StepIs

LEMMA InitYear == CloseInit => YearIInv
  BY InitTypes DEF CloseInit, YearIInv, ClosesOK, CloseOK, OneLiveClose, LivePairCancels, Ids

\* A posted entry is not the undoing of a close when no entry is.
LEMMA FlowSurvives == FlowSurvivesClose
  <1> SUFFICES ASSUME \A i \in Ids : ~IsUndoneClose(i), NEW a \in Flow
               PROVE  Net(a) = OrdinaryNet(a)
    BY DEF FlowSurvivesClose
  <1>1. {i \in Ids : IsPosted(i) /\ ~IsClosing(i)}
      = {i \in Ids : IsPosted(i) /\ ~IsClosing(i) /\ ~IsUndoneClose(i)}
    OBVIOUS
  <1>2. QED
    BY <1>1 DEF Net, OrdinaryNet

LEMMA YearInvariance == OneCloser /\ AllSpec => []YearIInv
  <1> SUFFICES ASSUME OneCloser
               PROVE  AllSpec => []YearIInv
    OBVIOUS
  <1>1. AllInit => YearIInv
    BY InitYear DEF AllInit
  <1>2. YearIInv /\ [AllNext]_allVars => YearIInv'
    BY NextYear, StepOfYear
  <1>3. QED
    BY <1>1, <1>2, PTL DEF AllSpec

LEMMA IsClosedOnce == YearIInv => ClosedOnce
  BY FlowSurvives DEF YearIInv, ClosesOK, ClosedOnce


\* A year is closed once and its result carried once, whatever the chart of
\* accounts and the bookings, wherever a close is cut off and whoever posts,
\* reverses and books meanwhile, as long as one process at a time closes
\* (year_end_close, is_year_closed).
THEOREM YearClosedOnce == OneCloser /\ AllSpec => []ClosedOnce
  BY YearInvariance, IsClosedOnce, PTL


----------------------------------------------------------------------------------
(* Statements: types. *)

FactRow == [date : bounds.days \cup {Window[2]}, center : bounds.centers \cup {NoCenter}]

SheetRow == [step : {"none", "rows", "done"}, asOf : {0} \cup bounds.days,
             rows : [Accounts -> Int], result : Int, moved : BOOLEAN]

BooksTyped ==
  /\ CloseTypeOK /\ bounds \in Scenarios
  /\ facts \in Seq(FactRow) /\ Len(facts) = Len(entries)

\* What is posted balances.
PostedBalances == \A i \in Ids : IsPosted(i) => SumOf(entries[i].postings) = 0

\* A sheet shows the journal it was read from.
SheetRight ==
  /\ sheet \in SheetRow
  /\ sheet.step = "rows" /\ ~sheet.moved => sheet.rows = NetPerAccount(sheet.asOf)
  /\ sheet.step = "done" /\ ~sheet.moved =>
       /\ SumOf(sheet.rows) = 0
       /\ sheet.result = -SumOf([a \in Flow |-> sheet.rows[a]])

SheetIInv == BooksTyped /\ PostedBalances /\ SheetRight

LEMMA AnyStep ==
  ASSUME CloseTypeOK, [CloseNext]_closeVars
  PROVE  UNCHANGED entries \/ (\E source : Inserts(source)) \/ (\E j \in Ids : MarkPosted(j))
  <1>1. ASSUME NEW p \in Closers, Closes(p)
        PROVE  Inserts("closing")
    <2>1. ClosingPostings(p) \in Amounts /\ AppropriationPostings(p) \in Amounts
      BY PostingsTyped DEF CloseTypeOK
    <2>2. QED
      BY <1>1, <2>1, CreateInserts DEF Closes
  <1>2. QED
    BY <1>1, StepIs DEF Commands

\* Posted rows stay as they are, and a row becomes posted only when it balances.
LEMMA PostedStays ==
  ASSUME CloseTypeOK, [CloseNext]_closeVars
  PROVE  /\ entries' \in Seq(EntryRow) /\ RowsKept
         /\ Len(entries') = Len(entries) \/ Len(entries') = Len(entries) + 1
         /\ \A i \in Ids : IsPosted(i) => entries'[i].state = "posted"
         /\ PostedBalances => PostedBalances'
  <1>0. entries \in Seq(EntryRow)
    BY DEF CloseTypeOK
  <1>1. CASE UNCHANGED entries
    BY <1>0, <1>1, RowsAre DEF RowsKept, Ids, IsPosted, PostedBalances
  <1>2. ASSUME NEW source, Inserts(source)
        PROVE  /\ entries' \in Seq(EntryRow) /\ RowsKept /\ Len(entries') = Len(entries) + 1
               /\ \A i \in Ids : IsPosted(i) => entries'[i].state = "posted"
               /\ PostedBalances => PostedBalances'
    <2>1. PICK e \in EntryRow : entries' = Append(entries, e) /\ (e.state = "posted" => SumOf(e.postings) = 0)
      BY <1>2 DEF Inserts
    <2>2. /\ entries' \in Seq(EntryRow) /\ RowsKept
          /\ Len(entries') = Len(entries) + 1 /\ DOMAIN entries' = Ids \cup {Len(entries) + 1}
          /\ entries'[Len(entries) + 1] = e /\ \A i \in Ids : entries'[i] = entries[i]
      BY <1>0, <2>1, InsertTypes
    <2>3. PostedBalances => PostedBalances'
      BY <2>1, <2>2 DEF PostedBalances, IsPosted, Ids
    <2>4. QED
      BY <2>2, <2>3 DEF IsPosted
  <1>3. ASSUME NEW j \in Ids, MarkPosted(j)
        PROVE  /\ entries' \in Seq(EntryRow) /\ RowsKept /\ Len(entries') = Len(entries)
               /\ \A i \in Ids : IsPosted(i) => entries'[i].state = "posted"
               /\ PostedBalances => PostedBalances'
    <2>1. /\ entries' \in Seq(EntryRow) /\ RowsKept /\ DOMAIN entries' = Ids /\ Len(entries') = Len(entries)
          /\ \A i \in Ids : entries'[i].state = IF i = j THEN "posted" ELSE entries[i].state
          /\ SumOf(entries[j].postings) = 0
      BY <1>0, <1>3, MarkTypes
    <2>2. PostedBalances => PostedBalances'
      BY <2>1 DEF PostedBalances, IsPosted, Ids, RowsKept
    <2>3. QED
      BY <2>1, <2>2 DEF IsPosted
  <1>4. QED
    BY <1>1, <1>2, <1>3, AnyStep

LEMMA FactTyped ==
  ASSUME BooksTyped, NEW e \in EntryRow, e.source = "reversal" => e.reversedFrom \in Ids, NEW f \in FactOf(e)
  PROVE  f \in FactRow
  <1>1. \A i \in Ids : facts[i] \in FactRow
    BY DEF BooksTyped, Ids
  <1>2. QED
    BY <1>1 DEF FactOf, FactRow


\* The journal and what is noted of its entries, after a command.
LEMMA CommandFacts ==
  ASSUME BooksTyped, Command
  PROVE  /\ BooksTyped' /\ bounds' = bounds
         /\ \A i \in Ids : facts'[i] = facts[i]
  <1>0. /\ CloseTypeOK /\ [CloseNext]_closeVars /\ facts \in Seq(FactRow) /\ Len(facts) = Len(entries)
        /\ entries \in Seq(EntryRow) /\ bounds' = bounds /\ bounds \in Scenarios
    BY DEF BooksTyped, Command, CloseTypeOK
  <1>1. CloseTypeOK' /\ Ids = 1 .. Len(entries) /\ Len(entries) \in Nat
    BY <1>0, NextTypes, IdsFinite
  <1>2. CASE Len(entries') = Len(entries)
    <2>1. facts' = facts
      BY <1>2 DEF Command
    <2>2. QED
      BY <1>0, <1>1, <1>2, <2>1 DEF BooksTyped, FactRow
  <1>3. CASE Len(entries') # Len(entries)
    <2>1. \E source : Inserts(source)
      <3>1. UNCHANGED entries => Len(entries') = Len(entries)
        OBVIOUS
      <3>2. (\E j \in Ids : MarkPosted(j)) => Len(entries') = Len(entries)
        BY <1>0, MarkTypes
      <3>3. QED
        BY <1>0, <1>3, <3>1, <3>2, AnyStep
    <2>2. PICK e \in EntryRow : /\ entries' = Append(entries, e)
                                /\ e.source = "reversal" => e.reversedFrom \in Ids
      BY <2>1 DEF Inserts
    <2>3. Len(entries') = Len(entries) + 1 /\ entries'[Len(entries')] = e
      BY <1>0, <2>2, InsertTypes
    <2>4. PICK f \in FactOf(e) : facts' = Append(facts, f)
      BY <1>3, <2>3 DEF Command
    <2>5. f \in FactRow
      BY <2>2, <2>4, FactTyped
    <2>6. /\ facts' \in Seq(FactRow) /\ Len(facts') = Len(facts) + 1
          /\ \A i \in 1 .. Len(facts) : facts'[i] = facts[i]
      BY <1>0, <2>4, <2>5
    <2>7. QED
      BY <1>0, <1>1, <2>3, <2>6 DEF BooksTyped, FactRow
  <1>4. QED
    BY <1>2, <1>3

\* A command that does not move a sheet leaves what it would show.
LEMMA SheetStays ==
  ASSUME BooksTyped, Command, NEW d, ~Moves(d)
  PROVE  NetPerAccount(d)' = NetPerAccount(d)
  <1>0. CloseTypeOK /\ [CloseNext]_closeVars /\ \A i \in Ids : entries[i] \in EntryRow
    BY RowsAre DEF BooksTyped, Command, CloseTypeOK
  <1>1. /\ RowsKept /\ \A i \in Ids : IsPosted(i) => entries'[i].state = "posted"
        /\ \A i \in Ids : facts'[i] = facts[i]
    BY <1>0, PostedStays, CommandFacts
  <1>2. ASSUME NEW i \in DOMAIN entries', entries'[i].state = "posted", Within(facts'[i].date, UpTo(d))
        PROVE  i \in PostedUpTo(d)
    <2>1. facts'[i].date <= d
      BY <1>2 DEF Within, UpTo
    <2>2. i \in Ids /\ ~IsDraft(i)
      BY <1>2, <2>1 DEF Moves
    <2>3. IsPosted(i)
      BY <1>0, <2>2 DEF EntryRow, IsDraft, IsPosted
    <2>4. QED
      BY <1>1, <1>2, <2>2, <2>3 DEF PostedUpTo, PostedIn
  <1>3. ASSUME NEW i \in PostedUpTo(d)
        PROVE  i \in DOMAIN entries' /\ entries'[i].state = "posted" /\ Within(facts'[i].date, UpTo(d))
    BY <1>1 DEF PostedUpTo, PostedIn, RowsKept
  <1>4. PostedUpTo(d)' = PostedUpTo(d)
    BY <1>2, <1>3 DEF PostedUpTo, PostedIn, Ids, IsPosted, UpTo, Within
  <1>5. \A i \in PostedUpTo(d) : entries'[i].postings = entries[i].postings
    BY <1>1 DEF RowsKept, PostedUpTo, PostedIn
  <1>6. \A a \in Accounts : AmountOn(a, PostedUpTo(d))' = AmountOn(a, PostedUpTo(d))
    BY <1>4, <1>5 DEF AmountOn
  <1>7. QED
    BY <1>6 DEF NetPerAccount

LEMMA PostedInIds ==
  ASSUME NEW window
  PROVE  PostedIn(window) \in SUBSET Ids /\ \A i \in PostedIn(window) : IsPosted(i)
  BY DEF PostedIn

\* What balances entry by entry balances account by account.
LEMMA NetsBalance ==
  ASSUME entries \in Seq(EntryRow), PostedBalances, NEW S \in SUBSET Ids, \A i \in S : IsPosted(i),
         NEW net, net = [a \in Accounts |-> AmountOn(a, S)]
  PROVE  net \in [Accounts -> Int] /\ SumOf(net) = 0
  <1> DEFINE F == [i \in S |-> entries[i].postings]
             row == [i \in S |-> SumOf(entries[i].postings)]
  <1>1. IsFiniteSet(S) /\ IsFiniteSet(Accounts)
    BY AccountsAre, IdsFinite, FS_Subset
  <1>2. \A i \in S : entries[i].postings \in Amounts
    BY RowsAre DEF EntryRow
  <1>3. F \in Table(S, Accounts) /\ \A i \in S : row[i] = SumOf(F[i])
    BY <1>2 DEF Amounts, Table
  <1>4. row \in [S -> Int] /\ \A i \in S : row[i] = 0
    BY DEF PostedBalances
  <1>5. net \in [Accounts -> Int]
    BY AmountTyped
  <1>6. ASSUME NEW a \in Accounts
        PROVE  net[a] = SumOf(Column(F, S, a))
    <2>1. Column(F, S, a) = [i \in S |-> entries[i].postings[a]]
      BY DEF Column
    <2>2. QED
      BY <2>1 DEF AmountOn
  <1> HIDE DEF F, row
  <1>7. SumOf(row) = SumOf(net)
    BY <1>1, <1>3, <1>4, <1>5, <1>6, SumSwap
  <1>8. SumOf(row) = 0
    BY <1>1, <1>4, SumZero
  <1>9. QED
    BY <1>5, <1>7, <1>8


----------------------------------------------------------------------------------
(* Sections and lines: what a report is cut into adds up to what it is cut from. *)

LEMMA FewAreFinite ==
  ASSUME NEW a, NEW b, NEW c, NEW d, NEW e, NEW f, NEW g
  PROVE  IsFiniteSet({a, b, c, d, e, f, g})
  <1>1. /\ IsFiniteSet({a}) /\ IsFiniteSet({b}) /\ IsFiniteSet({c}) /\ IsFiniteSet({d})
        /\ IsFiniteSet({e}) /\ IsFiniteSet({f}) /\ IsFiniteSet({g})
    BY FS_Singleton
  <1>2. IsFiniteSet({a} \cup {b}) /\ IsFiniteSet({c} \cup {d}) /\ IsFiniteSet({e} \cup {f})
    BY <1>1, FS_Union
  <1>3. IsFiniteSet(({a} \cup {b}) \cup ({c} \cup {d})) /\ IsFiniteSet(({e} \cup {f}) \cup {g})
    BY <1>1, <1>2, FS_Union
  <1>4. IsFiniteSet((({a} \cup {b}) \cup ({c} \cup {d})) \cup (({e} \cup {f}) \cup {g}))
    BY <1>3, FS_Union
  <1>5. {a, b, c, d, e, f, g} = (({a} \cup {b}) \cup ({c} \cup {d})) \cup (({e} \cup {f}) \cup {g})
    OBVIOUS
  <1>6. QED
    BY <1>4, <1>5

LEMMA GroupsFinite ==
  /\ IsFiniteSet(AssetGroups) /\ IsFiniteSet(PassivaGroups) /\ IsFiniteSet(PnlGroups)
  /\ IsFiniteSet(ActivaLines) /\ IsFiniteSet(PnlLines)
  /\ \A groups \in {AssetGroups, PassivaGroups, PnlGroups, ActivaLines, PnlLines} : "Overig" \notin groups
  <1>1. IsFiniteSet(AssetGroups)
    <2>1. IsFiniteSet({"BMVA.02", "BFVA.03", "BVRD.30", "BVOR.11", "BLIM.10", "BLIM.10", "BLIM.10"})
      BY FewAreFinite
    <2>2. AssetGroups = {"BMVA.02", "BFVA.03", "BVRD.30", "BVOR.11", "BLIM.10", "BLIM.10", "BLIM.10"}
      BY DEF AssetGroups
    <2>3. QED
      BY <2>1, <2>2
  <1>2. IsFiniteSet(PassivaGroups)
    <2>1. IsFiniteSet({"BEIV.05", "BVRZ.07", "BLAS.08", "BSCH.12", "BSCH.12", "BSCH.12", "BSCH.12"})
      BY FewAreFinite
    <2>2. PassivaGroups = {"BEIV.05", "BVRZ.07", "BLAS.08", "BSCH.12", "BSCH.12", "BSCH.12", "BSCH.12"}
      BY DEF PassivaGroups
    <2>3. QED
      BY <2>1, <2>2
  <1>3. IsFiniteSet(PnlGroups)
    BY FewAreFinite DEF PnlGroups
  <1>4. IsFiniteSet(ActivaLines)
    <2>1. IsFiniteSet({"BMVA.02", "BIVA.04", "BFVA.03", "BVRD.30", "BVOR.11", "BLIM.10", "BLIM.10"})
      BY FewAreFinite
    <2>2. ActivaLines = {"BMVA.02", "BIVA.04", "BFVA.03", "BVRD.30", "BVOR.11", "BLIM.10", "BLIM.10"}
      BY DEF ActivaLines
    <2>3. QED
      BY <2>1, <2>2
  <1>5. IsFiniteSet(PnlLines)
    BY FewAreFinite DEF PnlLines
  <1>6. QED
    BY <1>1, <1>2, <1>3, <1>4, <1>5 DEF AssetGroups, PassivaGroups, PnlGroups, ActivaLines, PnlLines

\* A total per code and one for the other accounts: each account is in one.
LEMMA SectionsTotal ==
  ASSUME NEW groups, IsFiniteSet(groups), "Overig" \notin groups,
         NEW D, IsFiniteSet(D), NEW accounts \in SUBSET D, NEW amounts \in [D -> Int]
  PROVE  /\ Sectionize(groups, accounts, amounts) \in [groups \cup {"Overig"} -> Int]
         /\ TotalOf(Sectionize(groups, accounts, amounts)) = Part(amounts, accounts)
  <1> DEFINE K == groups \cup {"Overig"}
             f == [a \in accounts |-> amounts[a]]
             key == [a \in accounts |-> IF Taxonomy(a) \in groups THEN Taxonomy(a) ELSE "Overig"]
             totals == Sectionize(groups, accounts, amounts)
             of(k) == {a \in accounts : IF k = "Overig" THEN Taxonomy(a) \notin groups ELSE Taxonomy(a) = k}
  <1>1. IsFiniteSet(K) /\ IsFiniteSet(accounts) /\ f \in [accounts -> Int] /\ key \in [accounts -> K]
    BY FS_AddElement, FS_Subset
  <1>2. ASSUME NEW k \in K
        PROVE  totals[k] = Part(f, {a \in accounts : key[a] = k})
    <2>1. of(k) = {a \in accounts : key[a] = k}
      OBVIOUS
    <2>2. totals[k] = SumOf([a \in of(k) |-> amounts[a]])
      BY DEF Sectionize
    <2>3. [a \in of(k) |-> amounts[a]] = [a \in of(k) |-> f[a]]
      OBVIOUS
    <2> HIDE DEF totals, of, key, f
    <2>4. QED
      BY <2>1, <2>2, <2>3 DEF Part
  <1>3. DOMAIN totals = K /\ totals = [k \in K |-> totals[k]]
    BY DEF Sectionize
  <1>4. SumOf(f) = Part(amounts, accounts)
    BY DEF Part
  <1> HIDE DEF totals, key, f, K
  <1>5. totals \in [K -> Int] /\ SumOf(totals) = SumOf(f)
    BY <1>1, <1>2, <1>3, SumSorted
  <1>6. QED
    BY <1>4, <1>5 DEF TotalOf, totals, K

LEMMA LinesTotal ==
  ASSUME NEW G, IsFiniteSet(G), NEW sections \in [G -> Int],
         NEW ruled, IsFiniteSet(ruled), "Overig" \notin ruled
  PROVE  /\ ByLines(sections, ruled) \in [ruled \cup {"Overig"} -> Int]
         /\ TotalOf(ByLines(sections, ruled)) = TotalOf(sections)
  <1> DEFINE K == ruled \cup {"Overig"}
             key == [g \in G |-> IF g \in ruled THEN g ELSE "Overig"]
             totals == ByLines(sections, ruled)
             of(k) == {g \in DOMAIN sections : IF k = "Overig" THEN g \notin ruled ELSE g = k}
  <1>1. IsFiniteSet(K) /\ key \in [G -> K] /\ DOMAIN sections = G
    BY FS_AddElement
  <1>2. ASSUME NEW k \in K
        PROVE  totals[k] = Part(sections, {g \in G : key[g] = k})
    <2>1. of(k) = {g \in G : key[g] = k}
      OBVIOUS
    <2>2. totals[k] = SumOf([g \in of(k) |-> sections[g]])
      BY DEF ByLines
    <2> HIDE DEF totals, of, key
    <2>3. QED
      BY <2>1, <2>2 DEF Part
  <1>3. DOMAIN totals = K /\ totals = [k \in K |-> totals[k]]
    BY DEF ByLines
  <1> HIDE DEF totals, key, K
  <1>4. totals \in [K -> Int] /\ SumOf(totals) = SumOf(sections)
    BY <1>1, <1>2, <1>3, SumSorted
  <1>5. QED
    BY <1>4 DEF TotalOf, totals, K

\* The lines of a form share no account.
Disjoint(ruled) == IsFiniteSet(ruled) /\ \A l, m \in ruled : l # m => l.accounts \cap m.accounts = {}

LEMMA PrefixesTotal ==
  ASSUME NEW ruled, Disjoint(ruled),
         NEW D, IsFiniteSet(D), NEW accounts \in SUBSET D, NEW amounts \in [D -> Int]
  PROVE  /\ ByPrefixes(ruled, accounts, amounts) \in [ruled \cup {Autres} -> Int]
         /\ TotalOf(ByPrefixes(ruled, accounts, amounts)) = Part(amounts, accounts)
  <1> DEFINE K == ruled \cup {Autres}
             known == UNION {l.accounts : l \in ruled}
             f == [a \in accounts |-> amounts[a]]
             line(a) == CHOOSE l \in ruled : a \in l.accounts
             key == [a \in accounts |-> IF a \in known THEN line(a) ELSE Autres]
             totals == ByPrefixes(ruled, accounts, amounts)
             of(k) == IF k = Autres THEN accounts \ known ELSE k.accounts \cap accounts
  <1>0. \A a \in known : line(a) \in ruled /\ a \in line(a).accounts
    OBVIOUS
  <1>1. IsFiniteSet(K) /\ IsFiniteSet(accounts) /\ f \in [accounts -> Int] /\ key \in [accounts -> K]
    <2>1. IsFiniteSet(K) /\ IsFiniteSet(accounts) /\ f \in [accounts -> Int]
      BY FS_AddElement, FS_Subset DEF Disjoint
    <2> HIDE DEF line, known
    <2>2. key \in [accounts -> K]
      BY <1>0
    <2>3. QED
      BY <2>1, <2>2
  <1>2. ASSUME NEW k \in K
        PROVE  totals[k] = Part(f, {a \in accounts : key[a] = k})
    <2>0. \A a \in known : line(a) # Autres
      BY <1>0 DEF Autres
    <2>1. of(k) = {a \in accounts : key[a] = k}
      <3>1. CASE k = Autres
        <4> HIDE DEF line, known
        <4>1. QED
          BY <2>0, <3>1
      <3>2. CASE k # Autres
        <4>1. k \in ruled
          BY <3>2
        <4>2. \A a \in accounts : a \in k.accounts => a \in known /\ line(a) = k
          <5>1. \A a \in accounts : a \in k.accounts => a \in known
            BY <4>1
          <5> HIDE DEF line, known
          <5>2. QED
            BY <1>0, <4>1, <5>1 DEF Disjoint
        <4> HIDE DEF line, known
        <4>3. QED
          BY <1>0, <3>2, <4>2
      <3>3. QED
        BY <3>1, <3>2
    <2>2. totals[k] = SumOf([a \in of(k) |-> amounts[a]])
      BY DEF ByPrefixes
    <2>3. of(k) \in SUBSET accounts /\ [a \in of(k) |-> amounts[a]] = [a \in of(k) |-> f[a]]
      <3>1. of(k) \in SUBSET accounts
        OBVIOUS
      <3> HIDE DEF of
      <3>2. QED
        BY <3>1
    <2> HIDE DEF totals, of, key, f
    <2>4. QED
      BY <2>1, <2>2, <2>3 DEF Part
  <1>3. DOMAIN totals = K /\ totals = [k \in K |-> totals[k]]
    BY DEF ByPrefixes
  <1>4. SumOf(f) = Part(amounts, accounts)
    BY DEF Part
  <1> HIDE DEF totals, key, f, K
  <1>5. totals \in [K -> Int] /\ SumOf(totals) = SumOf(f)
    BY <1>1, <1>2, <1>3, SumSorted
  <1>6. QED
    BY <1>4, <1>5 DEF TotalOf, totals, K

\* One line raised.
LEMMA RaisedTotal ==
  ASSUME NEW K, IsFiniteSet(K), NEW ruled \in [K -> Int], NEW k \in K, NEW x \in Int
  PROVE  TotalOf([ruled EXCEPT ![k] = @ + x]) = TotalOf(ruled) + x
  <1> DEFINE more == [l \in K |-> IF l = k THEN x ELSE 0]
             both == [ruled EXCEPT ![k] = @ + x]
  <1>1. more \in [K -> Int] /\ both \in [K -> Int] /\ more[k] = x
    OBVIOUS
  <1>2. \A l \in K : both[l] = ruled[l] + more[l]
    OBVIOUS
  <1>3. \A l \in K : l # k => more[l] = 0
    OBVIOUS
  <1> HIDE DEF more, both
  <1>4. SumOf(more) = x
    BY <1>1, <1>3, SumOne
  <1>5. SumOf(both) = SumOf(ruled) + SumOf(more)
    BY <1>1, <1>2, SumPlus
  <1>6. QED
    BY <1>4, <1>5 DEF TotalOf, both


----------------------------------------------------------------------------------
(* The balance sheet balances. *)

\* The accounts of a chart, by kind.
LEMMA RowsSplit ==
  ASSUME NEW rows \in [Accounts -> Int]
  PROVE  /\ SumOf(rows) = Part(rows, Flow) + Part(rows, Assets) + Part(rows, Passiva)
         /\ Part(rows, Flow) \in Int /\ Part(rows, Assets) \in Int /\ Part(rows, Passiva) \in Int
  <1> DEFINE A == Flow \cup Assets
  <1>1. /\ IsFiniteSet(Accounts) /\ Flow \in SUBSET Accounts /\ Assets \in SUBSET Accounts
        /\ Passiva \in SUBSET Accounts /\ A \in SUBSET Accounts /\ A \cup Passiva = Accounts
        /\ Flow \cap Assets = {} /\ A \cap Passiva = {}
    BY YearEndAssumption DEF Accounts
  <1>2. Part(rows, Flow \cup Assets) = Part(rows, Flow) + Part(rows, Assets)
    BY <1>1, SumJoin
  <1>3. Part(rows, A \cup Passiva) = Part(rows, A) + Part(rows, Passiva)
    <2> HIDE DEF A
    <2>1. QED
      BY <1>1, SumJoin
  <1>4. Part(rows, Accounts) = SumOf(rows)
    BY PartAll
  <1>5. Part(rows, Flow) \in Int /\ Part(rows, Assets) \in Int /\ Part(rows, Passiva) \in Int
    BY <1>1, PartIs
  <1>6. QED
    BY <1>1, <1>2, <1>3, <1>4, <1>5

LEMMA OppositePart ==
  ASSUME NEW D, IsFiniteSet(D), NEW rows \in [D -> Int], NEW s \in SUBSET D
  PROVE  Opposite(rows) \in [D -> Int] /\ Part(Opposite(rows), s) = -Part(rows, s)
  <1> DEFINE f == [x \in s |-> rows[x]]
             h == [x \in s |-> Opposite(rows)[x]]
  <1>1. Opposite(rows) \in [D -> Int] /\ \A x \in D : Opposite(rows)[x] = -rows[x]
    BY DEF Opposite
  <1>2. IsFiniteSet(s) /\ f \in [s -> Int] /\ h \in [s -> Int] /\ \A x \in s : h[x] = -f[x]
    BY <1>1, FS_Subset
  <1> HIDE DEF f, h
  <1>3. SumOf(h) = -SumOf(f)
    BY <1>2, SumOpposite
  <1>4. QED
    BY <1>1, <1>3 DEF f, h, Part

\* Any rows that add up to nothing make a sheet that balances, in every form.
LEMMA FormsBalance ==
  ASSUME NEW rows \in [Accounts -> Int], SumOf(rows) = 0,
         NEW result, result = -SumOf([a \in Flow |-> rows[a]])
  PROVE  /\ TotalOf(ActivaSections(rows)) = TotalOf(PassivaSections(rows)) + result
         /\ TotalOf(StatutoryActiva(ActivaSections(rows)))
              = TotalOf(StatutoryPassiva(PassivaSections(rows), result))
         /\ TotalOf(LscActivaLines(rows)) = TotalOf(LscPassivaLines(rows)) + result
  <1>0. /\ IsFiniteSet(Accounts) /\ Assets \in SUBSET Accounts /\ Passiva \in SUBSET Accounts
    BY YearEndAssumption DEF Accounts
  <1>1. PICK f, a, p : /\ f = Part(rows, Flow) /\ a = Part(rows, Assets) /\ p = Part(rows, Passiva)
                       /\ f \in Int /\ a \in Int /\ p \in Int
    BY RowsSplit
  <1>2. f + a + p = 0 /\ result = -f /\ a = -p + result /\ result \in Int
    <2>1. f + a + p = 0
      BY <1>1, RowsSplit
    <2>2. result = -f
      BY <1>1 DEF Part
    <2>3. QED
      BY <1>1, <2>1, <2>2
  <1>3. Opposite(rows) \in [Accounts -> Int] /\ Part(Opposite(rows), Passiva) = -p
    BY <1>0, <1>1, OppositePart
  <1>4. PICK act : act = ActivaSections(rows)
    OBVIOUS
  <1>5. PICK pas : pas = PassivaSections(rows)
    OBVIOUS
  <1>6. act \in [AssetGroups \cup {"Overig"} -> Int] /\ TotalOf(act) = a
    BY <1>0, <1>1, <1>4, GroupsFinite, SectionsTotal DEF ActivaSections
  <1>7. pas \in [PassivaGroups \cup {"Overig"} -> Int] /\ TotalOf(pas) = -p
    BY <1>0, <1>3, <1>5, GroupsFinite, SectionsTotal DEF PassivaSections
  <1>8. TotalOf(StatutoryActiva(act)) = a
    <2>1. IsFiniteSet(AssetGroups \cup {"Overig"})
      BY GroupsFinite, FS_AddElement
    <2>2. QED
      BY <1>6, <2>1, GroupsFinite, LinesTotal DEF StatutoryActiva
  <1>9. TotalOf(StatutoryPassiva(pas, result)) = -p + result
    <2>1. IsFiniteSet(PassivaGroups \cup {"Overig"})
      BY GroupsFinite, FS_AddElement
    <2>2. PICK ruled : ruled = ByLines(pas, PassivaGroups)
      OBVIOUS
    <2>3. ruled \in [PassivaGroups \cup {"Overig"} -> Int] /\ TotalOf(ruled) = -p
      BY <1>7, <2>1, <2>2, GroupsFinite, LinesTotal
    <2>4. "BEIV.05" \in PassivaGroups \cup {"Overig"}
      BY DEF PassivaGroups
    <2>5. TotalOf([ruled EXCEPT !["BEIV.05"] = @ + result]) = TotalOf(ruled) + result
      <3>1. PICK K, k : K = PassivaGroups \cup {"Overig"} /\ k = "BEIV.05"
        OBVIOUS
      <3>2. IsFiniteSet(K) /\ ruled \in [K -> Int] /\ k \in K /\ result \in Int
        BY <1>2, <2>1, <2>3, <2>4, <3>1
      <3>3. TotalOf([ruled EXCEPT ![k] = @ + result]) = TotalOf(ruled) + result
        BY <3>2, RaisedTotal
      <3>4. QED
        BY <3>1, <3>3
    <2>6. QED
      BY <2>2, <2>3, <2>5 DEF StatutoryPassiva
  <1>10. Disjoint(LscActiva) /\ Disjoint(LscPassiva)
    BY StatementsAssumption DEF Disjoint
  <1>11. TotalOf(LscActivaLines(rows)) = a
    BY <1>0, <1>1, <1>10, PrefixesTotal DEF LscActivaLines
  <1>12. TotalOf(LscPassivaLines(rows)) = -p
    BY <1>0, <1>3, <1>10, PrefixesTotal DEF LscPassivaLines
  <1>13. QED
    BY <1>2, <1>4, <1>5, <1>6, <1>7, <1>8, <1>9, <1>11, <1>12

LEMMA SheetFits == SheetIInv => SheetBalances
  <1> SUFFICES ASSUME SheetIInv, sheet.step = "done", ~sheet.moved
               PROVE  SheetBalances
    BY DEF SheetBalances
  <1>1. /\ sheet.rows \in [Accounts -> Int] /\ SumOf(sheet.rows) = 0
        /\ sheet.result = -SumOf([a \in Flow |-> sheet.rows[a]])
    BY DEF SheetIInv, SheetRight, SheetRow
  <1>2. PICK rows, result : rows = sheet.rows /\ result = sheet.result
    OBVIOUS
  <1>3. /\ TotalOf(ActivaSections(rows)) = TotalOf(PassivaSections(rows)) + result
        /\ TotalOf(StatutoryActiva(ActivaSections(rows)))
             = TotalOf(StatutoryPassiva(PassivaSections(rows), result))
        /\ TotalOf(LscActivaLines(rows)) = TotalOf(LscPassivaLines(rows)) + result
    BY <1>1, <1>2, FormsBalance
  <1>4. QED
    BY <1>2, <1>3 DEF SheetBalances

LEMMA InitSheet == AllInit => SheetIInv
  <1> SUFFICES ASSUME AllInit
               PROVE  SheetIInv
    OBVIOUS
  <1>1. BooksTyped
    BY InitTypes DEF AllInit, CloseInit, BooksTyped
  <1>2. PostedBalances
    BY DEF AllInit, CloseInit, PostedBalances, Ids
  <1>3. SheetRight
    BY DEF AllInit, NoSheet, SheetRight, SheetRow
  <1>4. QED
    BY <1>1, <1>2, <1>3 DEF SheetIInv

LEMMA CommandSheet ==
  ASSUME SheetIInv, Command
  PROVE  SheetIInv'
  <1>0. BooksTyped /\ PostedBalances /\ SheetRight /\ CloseTypeOK /\ [CloseNext]_closeVars
    BY DEF SheetIInv, BooksTyped, Command
  <1>1. BooksTyped' /\ bounds' = bounds
    BY <1>0, CommandFacts
  <1>2. PostedBalances'
    BY <1>0, PostedStays
  <1>3. PICK m \in BOOLEAN : m = (sheet.moved \/ (sheet.step = "rows" /\ Moves(sheet.asOf)))
    OBVIOUS
  <1>4. /\ sheet' \in SheetRow /\ sheet'.step = sheet.step /\ sheet'.asOf = sheet.asOf
        /\ sheet'.rows = sheet.rows /\ sheet'.result = sheet.result /\ sheet'.moved = m
    <2>1. sheet \in SheetRow /\ sheet' = [sheet EXCEPT !.moved = m]
      BY <1>0, <1>3 DEF SheetRight, Command
    <2>2. QED
      BY <2>1 DEF SheetRow
  <1>5. SheetRow' = SheetRow
    BY <1>1 DEF SheetRow
  <1>6. ASSUME sheet'.step = "rows", ~sheet'.moved
        PROVE  sheet'.rows = NetPerAccount(sheet.asOf)'
    <2>1. ~sheet.moved /\ ~Moves(sheet.asOf) /\ sheet.step = "rows"
      BY <1>3, <1>4, <1>6
    <2>2. PICK d : d = sheet.asOf
      OBVIOUS
    <2>3. sheet.rows = NetPerAccount(d)
      BY <1>0, <2>1, <2>2 DEF SheetRight
    <2>4. NetPerAccount(d)' = NetPerAccount(d)
      BY <1>0, <2>1, <2>2, SheetStays
    <2>5. QED
      BY <1>4, <2>2, <2>3, <2>4
  <1>7. sheet'.step = "done" /\ ~sheet'.moved =>
          /\ SumOf(sheet'.rows) = 0
          /\ sheet'.result = -SumOf([a \in Flow |-> sheet'.rows[a]])
    BY <1>0, <1>3, <1>4 DEF SheetRight
  <1>8. SheetRight'
    BY <1>4, <1>5, <1>6, <1>7 DEF SheetRight
  <1>9. QED
    BY <1>1, <1>2, <1>8 DEF SheetIInv


\* A reader leaves the journal alone.
LEMMA ReadsKeep ==
  ASSUME BooksTyped, PostedBalances, UNCHANGED <<closeVars, facts, bounds>>
  PROVE  BooksTyped' /\ PostedBalances' /\ SheetRow' = SheetRow
  BY DEF BooksTyped, PostedBalances, closeVars, CloseTypeOK, EntryRow, FactRow, SheetRow, Ids, IsPosted, IsClosing

LEMMA NetsSheet ==
  ASSUME BooksTyped, PostedBalances, NEW d, NEW rows, rows = NetPerAccount(d)
  PROVE  rows \in [Accounts -> Int] /\ SumOf(rows) = 0
  <1>1. /\ entries \in Seq(EntryRow) /\ PostedUpTo(d) \in SUBSET Ids
        /\ \A i \in PostedUpTo(d) : IsPosted(i)
    BY PostedInIds DEF BooksTyped, CloseTypeOK, PostedUpTo
  <1>2. rows = [a \in Accounts |-> AmountOn(a, PostedUpTo(d))]
    BY DEF NetPerAccount
  <1>3. QED
    BY <1>1, <1>2, NetsBalance

LEMMA ReadRowsSheet ==
  ASSUME SheetIInv, NEW d \in bounds.days, ReadRows(d)
  PROVE  SheetIInv'
  <1>1. UNCHANGED <<closeVars, facts, bounds>>
    BY DEF ReadRows, Reads
  <1>2. BooksTyped' /\ PostedBalances' /\ SheetRow' = SheetRow
    BY <1>1, ReadsKeep DEF SheetIInv
  <1>3. PICK rows : rows = NetPerAccount(d)
    OBVIOUS
  <1>4. rows \in [Accounts -> Int]
    BY <1>3, NetsSheet DEF SheetIInv
  <1>5. sheet' = [step |-> "rows", asOf |-> d, rows |-> rows, result |-> 0, moved |-> FALSE]
    BY <1>3 DEF ReadRows, Reads
  <1>6. sheet' \in SheetRow
    BY <1>4, <1>5 DEF SheetRow
  <1>7. NetPerAccount(d)' = NetPerAccount(d)
    BY <1>1 DEF NetPerAccount, AmountOn, PostedUpTo, PostedIn, IsPosted, Ids, closeVars
  <1>8. SheetRight'
    BY <1>2, <1>3, <1>5, <1>6, <1>7 DEF SheetRight
  <1>9. QED
    BY <1>2, <1>8 DEF SheetIInv

LEMMA ReadResultSheet ==
  ASSUME SheetIInv, ReadResult
  PROVE  SheetIInv'
  <1>1. UNCHANGED <<closeVars, facts, bounds>> /\ sheet.step = "rows"
    BY DEF ReadResult, Reads
  <1>2. BooksTyped' /\ PostedBalances' /\ SheetRow' = SheetRow
    BY <1>1, ReadsKeep DEF SheetIInv
  <1>3. PICK rows, result : /\ rows = NetPerAccount(sheet.asOf)
                            /\ result = -SumOf([a \in Flow |-> rows[a]])
    OBVIOUS
  <1>4. rows \in [Accounts -> Int] /\ SumOf(rows) = 0
    BY <1>3, NetsSheet DEF SheetIInv
  <1>5. result \in Int
    <2>1. [a \in Flow |-> rows[a]] \in [Flow -> Int]
      BY <1>4, AccountsAre
    <2>2. SumOf([a \in Flow |-> rows[a]]) \in Int
      BY <2>1, AccountsAre, SumTyped
    <2>3. QED
      BY <1>3, <2>2
  <1>6. sheet' = [sheet EXCEPT !.step = "done", !.result = result]
    BY <1>3 DEF ReadResult, Reads
  <1>7. /\ sheet' \in SheetRow /\ sheet'.step = "done" /\ sheet'.result = result
        /\ sheet'.rows = sheet.rows /\ sheet'.moved = sheet.moved
    BY <1>5, <1>6 DEF SheetRow, SheetIInv, SheetRight
  <1>8. ~sheet.moved => sheet.rows = rows
    BY <1>1, <1>3 DEF SheetIInv, SheetRight
  <1>9. SheetRight'
    BY <1>2, <1>3, <1>4, <1>7, <1>8 DEF SheetRight
  <1>10. QED
    BY <1>2, <1>9 DEF SheetIInv

LEMMA EndReportSheet ==
  ASSUME SheetIInv, EndReport
  PROVE  SheetIInv'
  <1>1. UNCHANGED <<closeVars, facts, bounds>> /\ sheet' = NoSheet
    BY DEF EndReport, Reads
  <1>2. BooksTyped' /\ PostedBalances' /\ SheetRow' = SheetRow
    BY <1>1, ReadsKeep DEF SheetIInv
  <1>3. SheetRight'
    BY <1>1, <1>2 DEF SheetRight, SheetRow, NoSheet
  <1>4. QED
    BY <1>2, <1>3 DEF SheetIInv

LEMMA StutterSheet ==
  ASSUME SheetIInv, UNCHANGED allVars
  PROVE  SheetIInv'
  <1>1. UNCHANGED <<closeVars, facts, bounds>> /\ sheet' = sheet
    BY DEF allVars
  <1>2. BooksTyped' /\ PostedBalances' /\ SheetRow' = SheetRow
    BY <1>1, ReadsKeep DEF SheetIInv
  <1>3. \A d : NetPerAccount(d)' = NetPerAccount(d)
    BY <1>1 DEF NetPerAccount, AmountOn, PostedUpTo, PostedIn, IsPosted, Ids, closeVars
  <1>4. SheetRight'
    BY <1>1, <1>2, <1>3 DEF SheetRight, SheetIInv
  <1>5. QED
    BY <1>2, <1>4 DEF SheetIInv

LEMMA SheetInvariance == AllSpec => []SheetIInv
  <1>1. SheetIInv /\ [AllNext]_allVars => SheetIInv'
    BY CommandSheet, ReadRowsSheet, ReadResultSheet, EndReportSheet, StutterSheet DEF AllNext
  <1>2. QED
    BY <1>1, InitSheet, PTL DEF AllSpec

\* Every variable of the reports keeps its type, and every entry its date.
THEOREM StatementsTypeCorrect == AllSpec => []StatementsTypeOK
  <1>1. SheetIInv => StatementsTypeOK
    <2> SUFFICES ASSUME SheetIInv
                 PROVE  StatementsTypeOK
      OBVIOUS
    <2>1. BooksTyped /\ sheet \in SheetRow
      BY DEF SheetIInv, SheetRight
    <2>2. Within(Window[2], Window) /\ \A d \in bounds.days : Within(d, Window)
      BY <2>1, DaysAssumption DEF BooksTyped, Within
    <2>3. \A i \in Ids : facts[i] \in FactRow
      BY <2>1 DEF BooksTyped, Ids
    <2>4. \A i \in Ids : facts[i].center \in bounds.centers \cup {NoCenter} /\ Within(facts[i].date, Window)
      BY <2>2, <2>3 DEF FactRow
    <2>5. QED
      BY <2>1, <2>4 DEF StatementsTypeOK, BooksTyped, SheetRow
  <1>2. QED
    BY <1>1, SheetInvariance, PTL

\* A balance sheet no command came between balances, on any day, for any chart
\* of accounts, any taxonomy and any bookings, before, during and after a close,
\* and so do the annual accounts in the Dutch and the Luxembourg form (balans,
\* sectionize, group_by_statutory_lines, group_by_prefix_lines).
THEOREM SheetsBalance == AllSpec => []SheetBalances
  BY SheetInvariance, SheetFits, PTL

----------------------------------------------------------------------------------
(***************************************************************************)
(* Payments: the inductive invariant.  First the types of what the         *)
(* processes hold.                                                         *)
(***************************************************************************)
JobRow == [at : {"idle", "pay", "batch", "line", "link", "export", "release", "del_lines", "del_batch"},
           batch : Nat, plan : Seq(Item), id : Nat, pays : Read]

PayableRow == [status : {"unpaid", "in_batch", "paid"}, line : Nat]

BatchRow == [status : {"draft", "exported", "deleted"}, total : Nat]

LineRow == [batch : Nat, payable : 0 .. MaxPayables, mandate : Nat, seq : {"none", "FRST", "RCUR"}]

FileRow == [batch : Nat, pays : Read]

Writing(k) == k.at \in {"batch", "line", "link"}

JobOK(k) ==
  /\ k.at = "idle" => k = Idle
  /\ k.at \in {"line", "link", "export", "release", "del_lines", "del_batch"} => k.batch \in Batches
  /\ Writing(k) => k.plan # << >>
  /\ Writing(k) => \A i \in DOMAIN k.plan : k.plan[i].mandate # 0 => k.plan[i].mandate \in Mandates
  /\ k.at = "link" => k.id \in Lines /\ (Live(k.id) => lines[k.id].payable = Head(k.plan).payable)

Types ==
  /\ payables \in Seq(PayableRow) /\ batches \in Seq(BatchRow) /\ lines \in Seq(LineRow)
  /\ mandates \in Seq(BOOLEAN) /\ files \in Seq(FileRow) /\ clean \in BOOLEAN
  /\ work \in [Workers -> JobRow]
  /\ Len(lines) <= MaxLines
  /\ \A l \in Lines :
       /\ Live(l) => lines[l].batch \in Batches /\ batches[lines[l].batch].status # "deleted"
       /\ lines[l].mandate # 0 => lines[l].mandate \in Mandates /\ mandates[lines[l].mandate]
  /\ \A f \in DOMAIN files : files[f].batch \in Batches
  /\ \A w \in Workers : JobOK(work[w])

\* An unpaid payable is in no batch.
Unlinked == \A p \in Payables : payables[p].status = "unpaid" => payables[p].line = 0

(***************************************************************************)
(* Then what holds as long as one command at a time is at work, k: with    *)
(* the exceptions of what it has written so far.                           *)
(***************************************************************************)
LinesLinked(k) ==
  \A l \in Lines : Live(l) /\ lines[l].payable # 0 =>
    \/ lines[l].payable \in Payables /\ payables[lines[l].payable].line = l
    \/ k.at = "link" /\ k.id = l
    \/ k.at = "del_lines" /\ k.batch = lines[l].batch

HalfWritten(k, b) == k.at \in {"line", "link", "del_batch"} /\ k.batch = b

BatchesFull(k) ==
  \A b \in Batches : batches[b].status # "deleted" /\ ~HalfWritten(k, b)
    => Cardinality(LinesOf(b)) = batches[b].total

FilesWhole ==
  /\ \A f \in DOMAIN files :
       /\ batches[files[f].batch].status = "exported"
       /\ DOMAIN files[f].pays = LinesOf(files[f].batch)
       /\ \A l \in DOMAIN files[f].pays : files[f].pays[l] = lines[l].payable
  /\ \A f, g \in DOMAIN files : files[f].batch = files[g].batch => f = g

\* The mandate has been collected under.
Collects(m) == \E j \in Lines : Live(j) /\ lines[j].mandate = m

PlanHolds(k) ==
  Writing(k) =>
    /\ \A i \in DOMAIN k.plan :
         /\ k.plan[i].payable # 0 => /\ k.plan[i].payable \in Payables
                                     /\ payables[k.plan[i].payable].status = "unpaid"
         /\ k.plan[i].mandate # 0 => mandates[k.plan[i].mandate]
         /\ k.plan[i].seq = "RCUR" => Collects(k.plan[i].mandate)
    /\ \A i, j \in DOMAIN k.plan : k.plan[i].payable = k.plan[j].payable /\ k.plan[i].payable # 0 => i = j

BatchHolds(k) ==
  /\ k.at \in {"line", "link", "export", "release", "del_lines", "del_batch"} => batches[k.batch].status = "draft"
  /\ k.at = "line" => Cardinality(LinesOf(k.batch)) + Len(k.plan) = batches[k.batch].total
  /\ k.at = "link" => /\ Cardinality(LinesOf(k.batch)) + Len(k.plan) = batches[k.batch].total + 1
                      /\ Live(k.id) /\ lines[k.id].batch = k.batch
  /\ k.at = "export" => k.pays = PaymentsOf(k.batch)
  /\ k.at = "del_lines" => NotReferred(k.batch)
  /\ k.at = "del_batch" => LinesOf(k.batch) = {}

Tidy(k) == LinesLinked(k) /\ BatchesFull(k) /\ FilesWhole /\ PlanHolds(k) /\ BatchHolds(k)

CleanOK ==
  /\ \A w \in Workers : ~At(w, "idle") => Tidy(work[w]) /\ \A v \in Workers : v # w => At(v, "idle")
  /\ (\A w \in Workers : At(w, "idle")) => Tidy(Idle)

IInv ==
  /\ Types
  /\ Unlinked /\ LinksLead
  /\ clean => CleanOK

----------------------------------------------------------------------------------
(* Types and jobs. *)

OthersKept(w) == \A v \in Workers : v # w => work'[v] = work[v]

LEMMA AppendFacts ==
  ASSUME NEW S, NEW s \in Seq(S), NEW m \in S, NEW t, t = Append(s, m)
  PROVE  /\ t \in Seq(S) /\ Len(t) = Len(s) + 1 /\ Len(s) \in Nat
         /\ DOMAIN t = DOMAIN s \cup {Len(s) + 1} /\ Len(s) + 1 \notin DOMAIN s
         /\ \A j \in DOMAIN s : t[j] = s[j]
         /\ t[Len(s) + 1] = m
  <1>1. DOMAIN s = 1 .. Len(s) /\ Len(s) \in Nat
    BY LenProperties
  <1>2. t \in Seq(S) /\ Len(t) = Len(s) + 1 /\ (\A j \in 1 .. Len(s) : t[j] = s[j]) /\ t[Len(s) + 1] = m
    BY AppendProperties
  <1>3. DOMAIN t = 1 .. Len(t)
    BY <1>2, LenProperties
  <1>4. DOMAIN t = DOMAIN s \cup {Len(s) + 1} /\ Len(s) + 1 \notin DOMAIN s
    BY <1>1, <1>2, <1>3
  <1>5. QED
    BY <1>1, <1>2, <1>4

LEMMA IdleFacts ==
  /\ Idle \in JobRow /\ Idle.at = "idle" /\ Idle.plan = << >> /\ Idle.batch = 0 /\ ~Writing(Idle)
  /\ JobOK(Idle) /\ JobOK(Idle)'
  <1>1. << >> \in Seq(Item) /\ << >> \in Seq(0 .. MaxPayables)
    BY EmptySeq
  <1>2. << >> \in Read
    <2>1. << >> \in [1 .. 0 -> 0 .. MaxPayables]
      BY <1>1
    <2>2. 1 .. 0 \subseteq 1 .. MaxLines
      OBVIOUS
    <2>3. QED
      BY <2>1, <2>2 DEF Read
  <1>3. Idle \in JobRow /\ Idle.at = "idle" /\ Idle.plan = << >> /\ Idle.batch = 0
    BY <1>1, <1>2 DEF Idle, JobRow
  <1>4. QED
    BY <1>3 DEF JobOK, Writing

LEMMA TypeFacts ==
  ASSUME Types
  PROVE  /\ Payables = 1 .. Len(payables) /\ Len(payables) \in Nat
         /\ Batches = 1 .. Len(batches) /\ Len(batches) \in Nat
         /\ Lines = 1 .. Len(lines) /\ Len(lines) \in Nat
         /\ Mandates = 1 .. Len(mandates) /\ Len(mandates) \in Nat
         /\ \A p \in Payables : payables[p] \in PayableRow
         /\ \A b \in Batches : batches[b] \in BatchRow
         /\ \A l \in Lines : lines[l] \in LineRow
         /\ \A m \in Mandates : mandates[m] \in BOOLEAN
         /\ \A w \in Workers : work[w] \in JobRow /\ JobOK(work[w])
         /\ {MaxPayables, MaxBatches, MaxLines, MaxMandates} \subseteq Nat
  <1>1. Payables = 1 .. Len(payables) /\ Len(payables) \in Nat /\ \A p \in Payables : payables[p] \in PayableRow
    BY DEF Types, Payables
  <1>2. Batches = 1 .. Len(batches) /\ Len(batches) \in Nat /\ \A b \in Batches : batches[b] \in BatchRow
    BY DEF Types, Batches
  <1>3. Lines = 1 .. Len(lines) /\ Len(lines) \in Nat /\ \A l \in Lines : lines[l] \in LineRow
    BY DEF Types, Lines
  <1>4. Mandates = 1 .. Len(mandates) /\ Len(mandates) \in Nat /\ \A m \in Mandates : mandates[m] \in BOOLEAN
    BY DEF Types, Mandates
  <1>5. \A w \in Workers : work[w] \in JobRow /\ JobOK(work[w])
    BY DEF Types
  <1>6. QED
    BY <1>1, <1>2, <1>3, <1>4, <1>5, PaymentsAssumption

\* What is written remains, or becomes nothing.
Grows ==
  /\ Batches \subseteq Batches' /\ Mandates \subseteq Mandates'
  /\ \A l \in Lines : l \in Lines' /\ (Live(l)' => Live(l) /\ lines'[l].payable = lines[l].payable)

LEMMA JobsKept ==
  ASSUME Grows, NEW k \in JobRow, JobOK(k)
  PROVE  JobOK(k)'
  BY DEF Grows, JobOK

LEMMA TypesWork ==
  ASSUME Types, Grows, NEW w \in Workers, NEW k \in JobRow,
         work' = [work EXCEPT ![w] = k], JobOK(k)'
  PROVE  /\ work' \in [Workers -> JobRow] /\ \A v \in Workers : JobOK(work[v])'
         /\ work'[w] = k /\ OthersKept(w)
  <1>1. work \in [Workers -> JobRow] /\ \A v \in Workers : JobOK(work[v])
    BY DEF Types
  <1>2. work' \in [Workers -> JobRow] /\ work'[w] = k /\ OthersKept(w)
    BY <1>1 DEF OthersKept
  <1>3. ASSUME NEW v \in Workers PROVE JobOK(work[v])'
    <2>1. CASE v = w
      BY <1>2, <2>1
    <2>2. CASE v # w
      <3>1. PICK j \in JobRow : j = work[v] /\ JobOK(j)
        BY <1>1
      <3>2. JobOK(j)'
        BY <3>1, JobsKept
      <3>3. work'[v] = j
        BY <1>2, <2>2, <3>1 DEF OthersKept
      <3>4. QED
        BY <3>2, <3>3
    <2>3. QED
      BY <2>1, <2>2
  <1>4. QED
    BY <1>2, <1>3

\* With the tables as they are only the jobs change.
LEMMA TypesSame ==
  ASSUME Types, UNCHANGED <<tables, files>>, clean' \in BOOLEAN, NEW w \in Workers, NEW k \in JobRow,
         work' = [work EXCEPT ![w] = k], JobOK(k)
  PROVE  Types'
  <1>1. Grows /\ JobOK(k)'
    BY DEF Grows, tables, Batches, Mandates, Lines, Live, JobOK
  <1>2. /\ work' \in [Workers -> JobRow] /\ \A v \in Workers : JobOK(work[v])'
    BY <1>1, TypesWork
  <1>3. QED
    BY <1>2 DEF Types, tables, Batches, Mandates, Lines, Live

LEMMA LinksKept ==
  ASSUME LinksLead, payables' = payables,
         \A p \in Payables : payables[p].line # 0 =>
           /\ payables[p].line \in Lines' /\ Live(payables[p].line)'
           /\ lines'[payables[p].line].payable = lines[payables[p].line].payable
  PROVE  LinksLead'
  BY DEF LinksLead, Payables

----------------------------------------------------------------------------------
(* How cleanliness is carried over. *)

LEMMA CleanAtOnce ==
  ASSUME IInv, AtOnce, Tidy(Idle) => Tidy(Idle)'
  PROVE  clean' => CleanOK'
  <1> SUFFICES ASSUME clean' PROVE CleanOK'
    OBVIOUS
  <1>1. clean /\ \A w \in Workers : At(w, "idle")
    BY DEF AtOnce, Observe
  <1>2. Tidy(Idle)'
    BY <1>1 DEF IInv, CleanOK
  <1>3. \A w \in Workers : At(w, "idle")'
    BY <1>1 DEF AtOnce, At
  <1>4. QED
    BY <1>2, <1>3 DEF CleanOK

LEMMA CleanStart ==
  ASSUME IInv, NEW w \in Workers, NEW k \in JobRow, work' = [work EXCEPT ![w] = k], k.at # "idle",
         clean' => clean /\ \A v \in Workers : At(v, "idle"),
         clean' /\ Tidy(Idle) => Tidy(k)'
  PROVE  clean' => CleanOK'
  <1> SUFFICES ASSUME clean' PROVE CleanOK'
    OBVIOUS
  <1>1. clean /\ \A v \in Workers : At(v, "idle")
    OBVIOUS
  <1>2. Tidy(k)'
    BY <1>1 DEF IInv, CleanOK
  <1>3. work \in [Workers -> JobRow]
    BY DEF IInv, Types
  <1>4. work'[w] = k /\ \A v \in Workers : v # w => At(v, "idle")'
    BY <1>1, <1>3 DEF At
  <1>5. \A v \in Workers : ~At(v, "idle")' => v = w
    BY <1>4
  <1>6. Tidy(work[w])'
    BY <1>2, <1>4
  <1>7. ~At(w, "idle")'
    BY <1>4 DEF At
  <1>8. QED
    BY <1>4, <1>5, <1>6, <1>7 DEF CleanOK

LEMMA CleanGo ==
  ASSUME IInv, NEW w \in Workers, ~At(w, "idle"), NEW k \in JobRow, Go(w, k), k.at = "idle" => k = Idle,
         clean /\ Tidy(work[w]) => Tidy(k)'
  PROVE  clean' => CleanOK'
  <1> SUFFICES ASSUME clean' PROVE CleanOK'
    OBVIOUS
  <1>1. clean
    BY DEF Go
  <1>2. Tidy(work[w]) /\ \A v \in Workers : v # w => At(v, "idle")
    BY <1>1 DEF IInv, CleanOK
  <1>3. Tidy(k)'
    BY <1>1, <1>2
  <1>4. work \in [Workers -> JobRow]
    BY DEF IInv, Types
  <1>5. work'[w] = k /\ \A v \in Workers : v # w => At(v, "idle")'
    BY <1>2, <1>4 DEF At, Go
  <1>6. Tidy(work[w])'
    BY <1>3, <1>5
  <1>7. \A v \in Workers : ~At(v, "idle")' => v = w
    BY <1>5
  <1>8. At(w, "idle")' => Tidy(Idle)'
    BY <1>3, <1>5 DEF At
  <1>9. QED
    BY <1>5, <1>6, <1>7, <1>8 DEF CleanOK

----------------------------------------------------------------------------------
(* What Tidy leaves alone. *)

\* Steps that keep the batches, the files, and what the lines hold.
LEMMA FilesKept ==
  ASSUME FilesWhole, files' = files, Types,
         \A f \in DOMAIN files :
           /\ batches'[files[f].batch].status = batches[files[f].batch].status
           /\ LinesOf(files[f].batch)' = LinesOf(files[f].batch)
           /\ \A l \in LinesOf(files[f].batch) : lines'[l].payable = lines[l].payable
  PROVE  FilesWhole'
  BY DEF FilesWhole

LEMMA SameLines ==
  ASSUME Lines' = Lines, \A l \in Lines : lines'[l].batch = lines[l].batch
  PROVE  \A b : LinesOf(b)' = LinesOf(b)
  BY DEF LinesOf

LEMMA FullKept ==
  ASSUME NEW j, NEW k, BatchesFull(j),
         \A b \in Batches' : batches'[b].status # "deleted" /\ ~HalfWritten(k, b) =>
           /\ b \in Batches /\ batches[b].status # "deleted" /\ ~HalfWritten(j, b)
           /\ batches'[b].total = batches[b].total
           /\ LinesOf(b)' = LinesOf(b)
  PROVE  BatchesFull(k)'
  BY DEF BatchesFull, HalfWritten

----------------------------------------------------------------------------------
(* Payables and mandates. *)

LEMMA AddingPayable ==
  ASSUME IInv, AddPayable
  PROVE  IInv'
  <1>0. Types /\ Unlinked /\ LinksLead
    BY DEF IInv
  <1>1. PICK m : m = [status |-> "unpaid", line |-> 0]
    OBVIOUS
  <1>2. m \in PayableRow /\ m.line = 0 /\ m.status = "unpaid"
    BY <1>1 DEF PayableRow
  <1>3. payables \in Seq(PayableRow) /\ payables' = Append(payables, m)
    BY <1>0, <1>1 DEF Types, AddPayable
  <1>4. /\ payables' \in Seq(PayableRow)
        /\ Payables' = Payables \cup {Len(payables) + 1} /\ Len(payables) + 1 \notin Payables
        /\ \A p \in Payables : payables'[p] = payables[p]
        /\ payables'[Len(payables) + 1] = m
    BY <1>2, <1>3, AppendFacts DEF Payables
  <1>5. UNCHANGED <<batches, lines, mandates, files, work>> /\ clean' \in BOOLEAN
    BY <1>0 DEF AddPayable, AtOnce, Observe, Types
  <1>6. Types'
    BY <1>0, <1>4, <1>5 DEF Types, Batches, Lines, Mandates, Live, JobOK
  <1>7. Unlinked'
    BY <1>0, <1>2, <1>4 DEF Unlinked
  <1>8. LinksLead'
    BY <1>0, <1>2, <1>4, <1>5 DEF LinksLead, Lines, Live
  <1>9. ASSUME Tidy(Idle) PROVE Tidy(Idle)'
    <2>1. LinesLinked(Idle)'
      BY <1>4, <1>5, <1>9 DEF Tidy, LinesLinked, Lines, Live
    <2>2. BatchesFull(Idle)' /\ FilesWhole'
      BY <1>5, <1>9 DEF Tidy, BatchesFull, FilesWhole, Batches, LinesOf, Lines, HalfWritten
    <2>3. PlanHolds(Idle)' /\ BatchHolds(Idle)'
      BY IdleFacts DEF PlanHolds, BatchHolds, Writing
    <2>4. QED
      BY <2>1, <2>2, <2>3 DEF Tidy
  <1>10. clean' => CleanOK'
    BY <1>9, CleanAtOnce DEF AddPayable
  <1>11. QED
    BY <1>6, <1>7, <1>8, <1>10 DEF IInv

LEMMA AddingMandate ==
  ASSUME IInv, AddMandate
  PROVE  IInv'
  <1>0. Types /\ Unlinked /\ LinksLead
    BY DEF IInv
  <1>3. mandates \in Seq(BOOLEAN) /\ mandates' = Append(mandates, TRUE)
    BY <1>0 DEF Types, AddMandate
  <1>4. /\ mandates' \in Seq(BOOLEAN)
        /\ Mandates \subseteq Mandates'
        /\ \A m \in Mandates : mandates'[m] = mandates[m]
    <2>1. PICK S, s, yes, t : S = BOOLEAN /\ s = mandates /\ yes = TRUE /\ t = Append(s, yes)
      OBVIOUS
    <2>2. s \in Seq(S) /\ yes \in S
      BY <1>3, <2>1
    <2>3. t = Append(s, yes)
      BY <2>1
    <2>4. /\ t \in Seq(S)
          /\ DOMAIN t = DOMAIN s \cup {Len(s) + 1}
          /\ \A m \in DOMAIN s : t[m] = s[m]
      BY <2>2, <2>3, AppendFacts
    <2>5. t = mandates'
      BY <1>3, <2>1
    <2>6. QED
      BY <2>1, <2>4, <2>5 DEF Mandates
  <1>5. UNCHANGED <<payables, batches, lines, files, work>> /\ clean' \in BOOLEAN
    BY <1>0 DEF AddMandate, AtOnce, Observe, Types
  <1>6. Types'
    <2>1. \A w \in Workers : JobOK(work[w])'
      <3>1. Grows
        BY <1>4, <1>5 DEF Grows, Batches, Lines, Live
      <3>2. ASSUME NEW w \in Workers PROVE JobOK(work[w])'
        <4>1. PICK k \in JobRow : k = work[w] /\ JobOK(k)
          BY <1>0 DEF Types
        <4>2. JobOK(k)'
          BY <3>1, <4>1, JobsKept
        <4>3. work'[w] = k
          BY <1>5, <4>1
        <4>4. QED
          BY <4>2, <4>3
      <3>3. QED
        BY <3>2
    <2>2. QED
      BY <1>0, <1>4, <1>5, <2>1 DEF Types, Batches, Lines, Live
  <1>7. Unlinked' /\ LinksLead'
    BY <1>0, <1>5 DEF Unlinked, LinksLead, Payables, Lines, Live
  <1>9. ASSUME Tidy(Idle) PROVE Tidy(Idle)'
    <2>1. LinesLinked(Idle)'
      BY <1>5, <1>9 DEF Tidy, LinesLinked, Lines, Live, Payables
    <2>2. BatchesFull(Idle)' /\ FilesWhole'
      BY <1>5, <1>9 DEF Tidy, BatchesFull, FilesWhole, Batches, LinesOf, Lines, HalfWritten
    <2>3. PlanHolds(Idle)' /\ BatchHolds(Idle)'
      BY IdleFacts DEF PlanHolds, BatchHolds, Writing
    <2>4. QED
      BY <2>1, <2>2, <2>3 DEF Tidy
  <1>10. clean' => CleanOK'
    BY <1>9, CleanAtOnce DEF AddMandate
  <1>11. QED
    BY <1>6, <1>7, <1>10 DEF IInv

LEMMA RemovingMandate ==
  ASSUME IInv, NEW m \in Mandates, RemoveMandate(m)
  PROVE  IInv'
  <1>0. Types /\ Unlinked /\ LinksLead
    BY DEF IInv
  <1>1. UNCHANGED <<payables, batches, files, work>> /\ clean' \in BOOLEAN
    BY <1>0 DEF RemoveMandate, AtOnce, Observe, Types
  <1>2. /\ mandates' \in Seq(BOOLEAN) /\ Mandates' = Mandates
        /\ \A n \in Mandates : n # m => mandates'[n] = mandates[n]
    <2>1. mandates \in Seq(BOOLEAN) /\ mandates' = [mandates EXCEPT ![m] = FALSE]
      BY <1>0 DEF Types, RemoveMandate
    <2>2. QED
      BY <2>1, ExceptSeq DEF Mandates
  <1>3. /\ Lines' = Lines /\ lines' \in Seq(LineRow) /\ Len(lines') = Len(lines)
        /\ \A l \in Lines : /\ lines'[l].batch = lines[l].batch /\ lines'[l].payable = lines[l].payable
                            /\ lines'[l].mandate = IF lines[l].mandate = m THEN 0 ELSE lines[l].mandate
    <2>1. /\ Lines = 1 .. Len(lines) /\ Len(lines) \in Nat
          /\ \A l \in Lines : lines[l] \in LineRow
      BY <1>0, TypeFacts
    <2>2. lines' = [l \in Lines |-> IF lines[l].mandate = m THEN [lines[l] EXCEPT !.mandate = 0] ELSE lines[l]]
      BY DEF RemoveMandate
    <2>3. \A l \in Lines : lines'[l] \in LineRow
      BY <2>1, <2>2 DEF LineRow
    <2>4. lines' \in [1 .. Len(lines) -> LineRow]
      BY <2>1, <2>2, <2>3
    <2>5. lines' \in Seq(LineRow) /\ Len(lines') = Len(lines)
      BY <2>1, <2>4, IsASeq, LenProperties
    <2>6. Lines' = Lines
      BY <2>1, <2>4 DEF Lines
    <2>7. QED
      BY <2>1, <2>2, <2>5, <2>6 DEF LineRow
  <1>4. \A l \in Lines : Live(l)' = Live(l)
    BY <1>3 DEF Live
  <1>5. Grows
    BY <1>1, <1>2, <1>3, <1>4 DEF Grows, Batches
  <1>6. \A w \in Workers : JobOK(work[w])'
    <2>1. ASSUME NEW w \in Workers PROVE JobOK(work[w])'
      <3>1. PICK k \in JobRow : k = work[w] /\ JobOK(k)
        BY <1>0 DEF Types
      <3>2. JobOK(k)'
        BY <1>5, <3>1, JobsKept
      <3>3. work'[w] = k
        BY <1>1, <3>1
      <3>4. QED
        BY <3>2, <3>3
    <2>2. QED
      BY <2>1
  <1>7. \A l \in Lines' :
          /\ Live(l)' => lines'[l].batch \in Batches' /\ batches'[lines'[l].batch].status # "deleted"
          /\ lines'[l].mandate # 0 => lines'[l].mandate \in Mandates' /\ mandates'[lines'[l].mandate]
    BY <1>0, <1>1, <1>2, <1>3, <1>4 DEF Types, Batches
  <1>8. Types'
    BY <1>0, <1>1, <1>2, <1>3, <1>6, <1>7 DEF Types, Batches
  <1>9. Unlinked'
    BY <1>0, <1>1 DEF Unlinked, Payables
  <1>10. LinksLead'
    BY <1>0, <1>1, <1>3, <1>4 DEF LinksLead, Payables
  <1>11. ASSUME Tidy(Idle) PROVE Tidy(Idle)'
    <2>1. LinesLinked(Idle)'
      BY <1>1, <1>3, <1>4, <1>11 DEF Tidy, LinesLinked, Payables
    <2>2. \A b : LinesOf(b)' = LinesOf(b)
      BY <1>3, SameLines
    <2>3. BatchesFull(Idle)'
      BY <1>1, <2>2, <1>11, FullKept DEF Tidy, Batches
    <2>4. FilesWhole'
      <3>1. \A b : \A l \in LinesOf(b) : lines'[l].payable = lines[l].payable
        BY <1>3 DEF LinesOf
      <3>2. QED
        BY <1>0, <1>1, <1>11, <2>2, <3>1, FilesKept DEF Tidy
    <2>5. PlanHolds(Idle)' /\ BatchHolds(Idle)'
      BY IdleFacts DEF PlanHolds, BatchHolds, Writing
    <2>6. QED
      BY <2>1, <2>3, <2>4, <2>5 DEF Tidy
  <1>12. clean' => CleanOK'
    BY <1>11, CleanAtOnce DEF RemoveMandate
  <1>13. QED
    BY <1>8, <1>9, <1>10, <1>12 DEF IInv

----------------------------------------------------------------------------------
(* Commands start, and stop without a change to the tables. *)

LEMMA TidySame ==
  ASSUME UNCHANGED <<tables, files>>, NEW k, Tidy(k)
  PROVE  Tidy(k)'
  <1>1. UNCHANGED <<payables, batches, lines, mandates, files>>
    BY DEF tables
  <1>2. LinesLinked(k)' /\ BatchesFull(k)' /\ FilesWhole'
    BY <1>1 DEF Tidy, LinesLinked, BatchesFull, FilesWhole, HalfWritten, Lines, Live, LinesOf, Batches, Payables
  <1>3. PlanHolds(k)'
    BY <1>1 DEF Tidy, PlanHolds, Writing, Collects, Lines, Live, Payables
  <1>4. BatchHolds(k)'
    BY <1>1 DEF Tidy, BatchHolds, LinesOf, Lines, Live, PaymentsOf, NotReferred, Payables
  <1>5. QED
    BY <1>2, <1>3, <1>4 DEF Tidy

LEMMA TidyFresh ==
  ASSUME Tidy(Idle), NEW k, PlanHolds(k), BatchHolds(k)
  PROVE  Tidy(k)
  BY IdleFacts DEF Tidy, LinesLinked, BatchesFull, HalfWritten

LEMMA SameInvariants ==
  ASSUME Unlinked, LinksLead, UNCHANGED <<tables, files>>
  PROVE  Unlinked' /\ LinksLead'
  BY DEF Unlinked, LinksLead, tables, Payables, Lines, Live

LEMMA Starting ==
  ASSUME IInv, NEW w \in Workers, NEW fair, NEW k \in JobRow, Start(w, k, fair), UNCHANGED <<tables, files>>,
         k.at # "idle", JobOK(k), clean' /\ Tidy(Idle) => Tidy(k)
  PROVE  IInv'
  <1>1. Types /\ Unlinked /\ LinksLead
    BY DEF IInv
  <1>2. work' = [work EXCEPT ![w] = k] /\ clean' \in BOOLEAN
    BY <1>1 DEF Start, Observe, Types
  <1>3. Types'
    BY <1>1, <1>2, TypesSame
  <1>4. clean' => clean /\ \A v \in Workers : At(v, "idle")
    BY DEF Start, Observe
  <1>5. clean' /\ Tidy(Idle) => Tidy(k)'
    BY TidySame
  <1>6. clean' => CleanOK'
    BY <1>2, <1>4, <1>5, CleanStart
  <1>7. Unlinked' /\ LinksLead'
    BY <1>1, SameInvariants
  <1>8. QED
    BY <1>3, <1>6, <1>7 DEF IInv

LEMMA Stopping ==
  ASSUME IInv, NEW w \in Workers, CreateFails(w) \/ DeleteFails(w) \/ Crash(w)
  PROVE  IInv'
  <1>1. Types /\ Unlinked /\ LinksLead
    BY DEF IInv
  <1>2. /\ work' = [work EXCEPT ![w] = Idle] /\ clean' \in BOOLEAN /\ ~At(w, "idle")
        /\ UNCHANGED <<tables, files>>
    BY <1>1 DEF CreateFails, DeleteFails, Crash, Done, Go, Types, At
  <1>3. Types'
    BY <1>1, <1>2, TypesSame, IdleFacts
  <1>4. Unlinked' /\ LinksLead'
    BY <1>1, <1>2, SameInvariants
  <1>5. CASE Crash(w)
    <2>1. ~clean'
      BY <1>5 DEF Crash
    <2>2. QED
      BY <1>3, <1>4, <2>1 DEF IInv
  <1>6. CASE CreateFails(w) \/ DeleteFails(w)
    <2>1. ASSUME clean PROVE FALSE
      <3>1. PICK k \in JobRow : k = work[w] /\ Tidy(k) /\ JobOK(k)
        BY <1>1, <1>2, <2>1, TypeFacts DEF IInv, CleanOK
      <3>2. CASE k.at = "line" /\ ~LineRefs(w)
        <4>1. PlanHolds(k) /\ BatchHolds(k) /\ Writing(k) /\ k.plan # << >> /\ k.plan \in Seq(Item)
          BY <3>1, <3>2 DEF Tidy, JobOK, Writing, JobRow
        <4>2. 1 \in DOMAIN k.plan /\ Head(k.plan) = k.plan[1]
          BY <4>1
        <4>3. batches[k.batch].status = "draft"
          BY <3>2, <4>1 DEF BatchHolds
        <4>4. k.plan[1].mandate # 0 => mandates[k.plan[1].mandate]
          BY <4>1, <4>2 DEF PlanHolds
        <4>5. QED
          BY <3>1, <3>2, <4>2, <4>3, <4>4 DEF LineRefs
      <3>3. CASE k.at = "link" /\ ~LinkRef(work[w].id)
        BY <3>1, <3>3 DEF Tidy, BatchHolds, LinkRef
      <3>4. CASE k.at \in {"del_lines", "del_batch"} /\ ~NotReferred(work[w].batch)
        BY <3>1, <3>4 DEF Tidy, BatchHolds, NotReferred
      <3>5. QED
        BY <1>6, <3>1, <3>2, <3>3, <3>4 DEF CreateFails, DeleteFails, At
    <2>2. clean' = clean
      BY <1>6 DEF CreateFails, DeleteFails, Done, Go
    <2>3. QED
      BY <1>3, <1>4, <2>1, <2>2 DEF IInv
  <1>7. QED
    BY <1>5, <1>6

LEMMA ListIsSeq ==
  ASSUME NEW S, NEW n \in Nat, NEW s \in [1 .. n -> S]
  PROVE  s \in Seq(S)
  OBVIOUS

LEMMA PlanFacts ==
  ASSUME NEW order \in Seq(0 .. MaxPayables), order # << >>, NEW m \in Nat
  PROVE  /\ Plan(order, m) \in Seq(Item) /\ Plan(order, m) # << >>
         /\ DOMAIN Plan(order, m) = DOMAIN order
         /\ \A i \in DOMAIN order : /\ Plan(order, m)[i].payable = order[i]
                                    /\ Plan(order, m)[i].mandate = m
                                    /\ m = 0 => Plan(order, m)[i].seq = "none"
                                    /\ m # 0 => Plan(order, m)[i].seq = MandateSeq(m)
  <1>1. DOMAIN order = 1 .. Len(order) /\ Len(order) \in Nat /\ \A i \in DOMAIN order : order[i] \in 0 .. MaxPayables
    BY LenProperties, ElementOfSeq
  <1>2. Len(order) # 0
    BY EmptySeq
  <1>3. PICK seq : seq = IF m = 0 THEN "none" ELSE MandateSeq(m)
    OBVIOUS
  <1>4. seq \in {"none", "FRST", "RCUR"}
    BY <1>3 DEF MandateSeq
  <1>5. PICK plan : plan = [i \in DOMAIN order |-> [payable |-> order[i], mandate |-> m, seq |-> seq]]
    OBVIOUS
  <1>6. plan = Plan(order, m)
    BY <1>3, <1>5 DEF Plan
  <1>7. \A i \in DOMAIN order : plan[i] \in Item
    BY <1>1, <1>4, <1>5 DEF Item
  <1>8. plan \in [1 .. Len(order) -> Item]
    BY <1>1, <1>5, <1>7
  <1>9. plan \in Seq(Item) /\ DOMAIN plan = 1 .. Len(order)
    BY <1>1, <1>8, IsASeq
  <1>10. plan # << >>
    BY <1>1, <1>2, <1>9, EmptySeq, LenProperties
  <1>11. \A i \in DOMAIN order : plan[i].payable = order[i] /\ plan[i].mandate = m /\ plan[i].seq = seq
    BY <1>5
  <1>12. QED
    BY <1>1, <1>3, <1>6, <1>9, <1>10, <1>11

LEMMA PayChecking ==
  ASSUME IInv, NEW w \in Workers, NEW p \in Payables, PayCheck(w, p)
  PROVE  IInv'
  <1>1. Types /\ p \in Nat
    BY TypeFacts DEF IInv
  <1>2. PICK i \in JobRow : i = Idle /\ i.at = "idle"
    BY IdleFacts
  <1>3. PICK k : k = [i EXCEPT !.at = "pay", !.id = p]
    OBVIOUS
  <1>4. k \in JobRow /\ k.at = "pay"
    BY <1>1, <1>3 DEF JobRow
  <1>5. JobOK(k) /\ PlanHolds(k) /\ BatchHolds(k)
    BY <1>4 DEF JobOK, PlanHolds, BatchHolds, Writing
  <1>6. Start(w, k, TRUE) /\ UNCHANGED <<tables, files>>
    BY <1>2, <1>3 DEF PayCheck
  <1>7. Tidy(Idle) => Tidy(k)
    BY <1>5, TidyFresh
  <1>8. k.at # "idle"
    BY <1>4
  <1>9. QED
    BY <1>4, <1>5, <1>6, <1>7, <1>8, Starting

LEMMA DeleteChecking ==
  ASSUME IInv, NEW w \in Workers, NEW b \in Batches, DeleteCheck(w, b)
  PROVE  IInv'
  <1>1. Types /\ b \in Nat
    BY TypeFacts DEF IInv
  <1>2. PICK i \in JobRow : i = Idle /\ i.at = "idle"
    BY IdleFacts
  <1>3. PICK k : k = [i EXCEPT !.at = "release", !.batch = b]
    OBVIOUS
  <1>4. k \in JobRow /\ k.at = "release" /\ k.batch = b
    BY <1>1, <1>3 DEF JobRow
  <1>5. JobOK(k) /\ PlanHolds(k) /\ BatchHolds(k)
    BY <1>4 DEF JobOK, PlanHolds, BatchHolds, Writing, DeleteCheck
  <1>6. Start(w, k, TRUE) /\ UNCHANGED <<tables, files>>
    BY <1>2, <1>3 DEF DeleteCheck
  <1>7. Tidy(Idle) => Tidy(k)
    BY <1>5, TidyFresh
  <1>8. k.at # "idle"
    BY <1>4
  <1>9. QED
    BY <1>4, <1>5, <1>6, <1>7, <1>8, Starting

LEMMA PaymentsRead ==
  ASSUME Types, NEW b
  PROVE  PaymentsOf(b) \in Read
  <1>1. LinesOf(b) \subseteq 1 .. MaxLines
    BY TypeFacts DEF LinesOf, Types
  <1>2. \A l \in LinesOf(b) : lines[l].payable \in 0 .. MaxPayables
    BY TypeFacts DEF LinesOf, LineRow
  <1>3. PaymentsOf(b) \in [LinesOf(b) -> 0 .. MaxPayables]
    BY <1>2 DEF PaymentsOf
  <1>4. QED
    BY <1>1, <1>3 DEF Read

LEMMA ExportChecking ==
  ASSUME IInv, NEW w \in Workers, NEW b \in Batches, ExportCheck(w, b)
  PROVE  IInv'
  <1>1. Types /\ b \in Nat
    BY TypeFacts DEF IInv
  <1>2. PICK i \in JobRow : i = Idle /\ i.at = "idle"
    BY IdleFacts
  <1>3. PICK pays \in Read : pays = PaymentsOf(b)
    BY <1>1, PaymentsRead
  <1>4. PICK k : k = [i EXCEPT !.at = "export", !.batch = b, !.pays = pays]
    OBVIOUS
  <1>5. k \in JobRow /\ k.at = "export" /\ k.batch = b /\ k.pays = pays
    BY <1>1, <1>4 DEF JobRow
  <1>6. JobOK(k) /\ PlanHolds(k)
    BY <1>5 DEF JobOK, PlanHolds, Writing
  <1>7. BatchHolds(k)
    BY <1>3, <1>5 DEF BatchHolds, ExportCheck
  <1>8. Start(w, k, TRUE) /\ UNCHANGED <<tables, files>>
    BY <1>2, <1>3, <1>4 DEF ExportCheck
  <1>9. Tidy(Idle) => Tidy(k)
    BY <1>6, <1>7, TidyFresh
  <1>10. k.at # "idle"
    BY <1>5
  <1>11. QED
    BY <1>5, <1>6, <1>8, <1>9, <1>10, Starting

\* A creation from a list of payables and rows.
LEMMA Planning ==
  ASSUME IInv, NEW w \in Workers, NEW order \in Seq(0 .. MaxPayables), order # << >>,
         NEW m \in Nat, m # 0 => m \in Mandates /\ mandates[m],
         \A i \in DOMAIN order : order[i] # 0 => order[i] \in Payables /\ payables[order[i]].status = "unpaid",
         NEW fair, fair => NamesOnce(order),
         Start(w, [Idle EXCEPT !.at = "batch", !.plan = Plan(order, m)], fair), UNCHANGED <<tables, files>>
  PROVE  IInv'
  <1>1. Types
    BY DEF IInv
  <1>2. PICK i \in JobRow : i = Idle /\ i.at = "idle"
    BY IdleFacts
  <1>3. PICK plan : plan = Plan(order, m)
    OBVIOUS
  <1>4. /\ plan \in Seq(Item) /\ plan # << >> /\ DOMAIN plan = DOMAIN order
        /\ \A j \in DOMAIN plan : /\ plan[j].payable = order[j] /\ plan[j].mandate = m
                                  /\ m = 0 => plan[j].seq = "none"
                                  /\ m # 0 => plan[j].seq = MandateSeq(m)
    BY <1>3, PlanFacts
  <1>5. PICK k : k = [i EXCEPT !.at = "batch", !.plan = plan]
    OBVIOUS
  <1>6. k \in JobRow /\ k.at = "batch" /\ k.plan = plan
    BY <1>4, <1>5 DEF JobRow
  <1>7. Start(w, k, fair)
    BY <1>2, <1>3, <1>5
  <1>8. JobOK(k) /\ BatchHolds(k)
    BY <1>4, <1>6 DEF JobOK, BatchHolds, Writing
  <1>9. MandateSeq(m) = "RCUR" => Collects(m)
    BY DEF MandateSeq, Collects
  <1>10. ASSUME clean' PROVE PlanHolds(k)
    <2>1. NamesOnce(order)
      BY <1>10 DEF Start, Observe
    <2>2. \A j \in DOMAIN plan :
            /\ plan[j].payable # 0 => plan[j].payable \in Payables /\ payables[plan[j].payable].status = "unpaid"
            /\ plan[j].mandate # 0 => mandates[plan[j].mandate]
            /\ plan[j].seq = "RCUR" => Collects(plan[j].mandate)
      BY <1>4, <1>9
    <2>3. \A j, l \in DOMAIN plan : plan[j].payable = plan[l].payable /\ plan[j].payable # 0 => j = l
      BY <1>4, <2>1 DEF NamesOnce
    <2>4. QED
      BY <1>6, <2>2, <2>3 DEF PlanHolds
  <1>11. clean' /\ Tidy(Idle) => Tidy(k)
    BY <1>8, <1>10, TidyFresh
  <1>12. k.at # "idle"
    BY <1>6
  <1>13. QED
    BY <1>6, <1>7, <1>8, <1>11, <1>12, Starting

LEMMA CreateChecking ==
  ASSUME IInv, NEW w \in Workers, NEW order \in Orders, NEW kind \in {"transfer", "direct_debit"},
         CreateCheck(w, order, kind)
  PROVE  IInv'
  <1>1. order \in Seq(0 .. MaxPayables) /\ order # << >>
    BY PaymentsAssumption
  <1>2. \A i \in DOMAIN order : order[i] # 0 => order[i] \in Payables /\ payables[order[i]].status = "unpaid"
    BY DEF CreateCheck, Eligible
  <1>3. PICK m \in Collected(kind) : Start(w, [Idle EXCEPT !.at = "batch", !.plan = Plan(order, m)], NamesOnce(order))
    BY DEF CreateCheck
  <1>4. m \in Nat
    BY TypeFacts DEF Collected, IInv
  <1>9. m # 0 => m \in Mandates /\ mandates[m]
    BY DEF Collected, LatestMandate
  <1>5. UNCHANGED <<tables, files>>
    BY DEF CreateCheck
  <1>6. PICK fair : fair = NamesOnce(order)
    OBVIOUS
  <1>7. fair => NamesOnce(order)
    BY <1>6
  <1>10. Start(w, [Idle EXCEPT !.at = "batch", !.plan = Plan(order, m)], fair)
    BY <1>3, <1>6
  <1>8. QED
    BY <1>1, <1>2, <1>4, <1>5, <1>7, <1>9, <1>10, Planning

LEMMA ReadingRows ==
  ASSUME IInv, NEW w \in Workers, NEW rows \in Sheets, CreateFromRows(w, rows)
  PROVE  IInv'
  <1>1. rows \in Seq(BOOLEAN) /\ rows # << >>
    BY PaymentsAssumption DEF CreateFromRows, Readable
  <1>2. DOMAIN rows = 1 .. Len(rows) /\ Len(rows) \in Nat /\ Len(rows) # 0
    BY <1>1, EmptySeq, LenProperties
  <1>3. PICK order : order = [i \in DOMAIN rows |-> 0]
    OBVIOUS
  <1>4. MaxPayables \in Nat
    BY PaymentsAssumption
  <1>5. order \in Seq(0 .. MaxPayables) /\ order # << >> /\ \A i \in DOMAIN order : order[i] = 0
    <2>6. PICK n \in Nat : n # 0 /\ order = [i \in 1 .. n |-> 0]
      BY <1>2, <1>3
    <2>1. order \in [1 .. n -> 0 .. MaxPayables]
      BY <2>6, <1>4
    <2>2. order \in Seq(0 .. MaxPayables)
      BY <2>1, ListIsSeq
    <2>4. order # << >>
      BY <2>2, <2>6, EmptySeq, LenProperties
    <2>5. QED
      BY <1>3, <2>2, <2>4
  <1>6. Start(w, [Idle EXCEPT !.at = "batch", !.plan = Plan(order, 0)], TRUE) /\ UNCHANGED <<tables, files>>
    BY <1>3 DEF CreateFromRows
  <1>7. NamesOnce(order)
    BY <1>5 DEF NamesOnce
  <1>8. QED
    BY <1>5, <1>6, <1>7, Planning

----------------------------------------------------------------------------------
(* What a command writes. *)

LEMMA PayWriting ==
  ASSUME IInv, NEW w \in Workers, PayWrite(w)
  PROVE  IInv'
  <1>1. Types /\ Unlinked /\ LinksLead
    BY DEF IInv
  <1>2. PICK k \in JobRow : k = work[w] /\ k.at = "pay" /\ JobOK(k)
    BY <1>1, TypeFacts DEF PayWrite, At
  <1>3. /\ UNCHANGED <<batches, lines, mandates, files>> /\ Go(w, Idle) /\ clean' \in BOOLEAN
        /\ ~At(w, "idle") /\ work' = [work EXCEPT ![w] = Idle]
    BY <1>1, <1>2 DEF PayWrite, Done, Go, Types, At
  <1>4. /\ payables' \in Seq(PayableRow) /\ Payables' = Payables
        /\ \A p \in Payables : payables'[p].line = payables[p].line
                               /\ payables'[p].status \in {payables[p].status, "paid"}
    <2>1. /\ payables' = [payables EXCEPT ![k.id].status = "paid"]
          /\ Payables = 1 .. Len(payables) /\ Len(payables) \in Nat
          /\ \A p \in Payables : payables[p] \in PayableRow
          /\ payables \in Seq(PayableRow)
      BY <1>1, <1>2, TypeFacts DEF PayWrite, Types
    <2>2. Payables' = Payables /\ \A p \in Payables : /\ payables'[p] \in PayableRow
                                                      /\ payables'[p].line = payables[p].line
                                                      /\ payables'[p].status \in {payables[p].status, "paid"}
      BY <2>1 DEF Payables, PayableRow
    <2>3. PICK n \in Nat : n = Len(payables) /\ Payables = 1 .. n
      BY <2>1
    <2>4. payables' \in [1 .. n -> PayableRow]
      BY <2>1, <2>2, <2>3 DEF Payables
    <2>5. QED
      BY <2>2, <2>4, ListIsSeq
  <1>5. Grows
    BY <1>3 DEF Grows, Batches, Mandates, Lines, Live
  <1>6. Types'
    <2>1. work' \in [Workers -> JobRow] /\ \A v \in Workers : JobOK(work[v])'
      BY <1>1, <1>3, <1>5, IdleFacts, TypesWork
    <2>2. QED
      BY <1>1, <1>3, <1>4, <2>1 DEF Types, Batches, Lines, Mandates, Live
  <1>7. Unlinked' /\ LinksLead'
    BY <1>1, <1>3, <1>4 DEF Unlinked, LinksLead, Lines, Live
  <1>8. ASSUME Tidy(k) PROVE Tidy(Idle)'
    <2>1. LinesLinked(Idle)'
      BY <1>2, <1>3, <1>4, <1>8 DEF Tidy, LinesLinked, Lines, Live
    <2>2. BatchesFull(Idle)' /\ FilesWhole'
      BY <1>2, <1>3, <1>8, IdleFacts DEF Tidy, BatchesFull, FilesWhole, HalfWritten, Batches, LinesOf, Lines
    <2>3. PlanHolds(Idle)' /\ BatchHolds(Idle)'
      BY IdleFacts DEF PlanHolds, BatchHolds, Writing
    <2>4. QED
      BY <2>1, <2>2, <2>3 DEF Tidy
  <1>9. clean' => CleanOK'
    BY <1>2, <1>3, <1>8, IdleFacts, CleanGo
  <1>10. QED
    BY <1>6, <1>7, <1>9 DEF IInv

LEMMA BatchInserting ==
  ASSUME IInv, NEW w \in Workers, InsertBatch(w)
  PROVE  IInv'
  <1>1. Types /\ Unlinked /\ LinksLead
    BY DEF IInv
  <1>2. PICK k \in JobRow : k = work[w] /\ k.at = "batch" /\ JobOK(k)
    BY <1>1, TypeFacts DEF InsertBatch, At
  <1>3. /\ UNCHANGED <<payables, lines, mandates, files>> /\ clean' \in BOOLEAN /\ ~At(w, "idle")
    BY <1>1, <1>2 DEF InsertBatch, Go, Types, At
  <1>4. PICK n \in Nat \ {0} : n = Len(batches) + 1 /\ Batches = 1 .. (n - 1)
    BY <1>1, TypeFacts
  <1>5. PICK t \in Nat : t = Len(k.plan)
    BY DEF JobRow
  <1>6. PICK row : row = [status |-> "draft", total |-> t]
    OBVIOUS
  <1>7. row \in BatchRow /\ row.status = "draft" /\ row.total = t
    BY <1>6 DEF BatchRow
  <1>8. /\ batches' \in Seq(BatchRow)
        /\ Batches' = Batches \cup {n} /\ n \notin Batches
        /\ \A b \in Batches : batches'[b] = batches[b]
        /\ batches'[n] = row
    <2>1. batches \in Seq(BatchRow) /\ batches' = Append(batches, row)
      BY <1>1, <1>2, <1>5, <1>6 DEF Types, InsertBatch
    <2>2. QED
      BY <1>4, <1>7, <2>1, AppendFacts DEF Batches
  <1>9. PICK j : j = [k EXCEPT !.at = "line", !.batch = n]
    OBVIOUS
  <1>10. j \in JobRow /\ j.at = "line" /\ j.batch = n /\ j.plan = k.plan
    BY <1>9 DEF JobRow
  <1>11. Go(w, j) /\ work' = [work EXCEPT ![w] = j]
    BY <1>2, <1>4, <1>9 DEF InsertBatch, Go
  <1>12. Grows
    BY <1>3, <1>8 DEF Grows, Mandates, Lines, Live
  <1>13. JobOK(j)'
    BY <1>2, <1>3, <1>8, <1>10 DEF JobOK, Writing, Mandates
  <1>14. Types'
    <2>1. work' \in [Workers -> JobRow] /\ \A v \in Workers : JobOK(work[v])'
      BY <1>1, <1>10, <1>11, <1>12, <1>13, TypesWork
    <2>2. QED
      BY <1>1, <1>3, <1>8, <2>1 DEF Types, Lines, Mandates, Live
  <1>15. Unlinked' /\ LinksLead'
    BY <1>1, <1>3 DEF Unlinked, LinksLead, Payables, Lines, Live
  <1>16. ASSUME Tidy(k) PROVE Tidy(j)'
    <2>1. \A b : LinesOf(b)' = LinesOf(b)
      BY <1>3 DEF LinesOf, Lines
    <2>2. LinesOf(n) = {}
      BY <1>1, <1>8, <1>4 DEF LinesOf, Types, Live
    <2>3. LinesLinked(j)'
      BY <1>2, <1>3, <1>16 DEF Tidy, LinesLinked, Lines, Live, Payables
    <2>4. BatchesFull(j)'
      BY <1>2, <1>8, <1>10, <1>16, <2>1 DEF Tidy, BatchesFull, HalfWritten
    <2>5. FilesWhole'
      BY <1>1, <1>3, <1>8, <1>16, <2>1 DEF Tidy, FilesWhole, Types
    <2>6. PlanHolds(j)'
      BY <1>2, <1>3, <1>10, <1>16 DEF Tidy, PlanHolds, Writing, Collects, Lines, Live, Payables
    <2>7. Cardinality(LinesOf(n)) = 0
      BY <2>2, FS_EmptySet
    <2>8. BatchHolds(j)'
      <3>1. Cardinality(LinesOf(n))' = 0
        BY <2>1, <2>7
      <3>2. QED
        BY <1>5, <1>7, <1>8, <1>10, <3>1 DEF BatchHolds
    <2>9. QED
      BY <2>3, <2>4, <2>5, <2>6, <2>8 DEF Tidy
  <1>17. clean' => CleanOK'
    <2>1. j.at = "idle" => j = Idle
      BY <1>10
    <2>2. QED
      BY <1>2, <1>3, <1>10, <1>11, <1>16, <2>1, CleanGo
  <1>18. QED
    BY <1>14, <1>15, <1>17 DEF IInv

\* What a creation goes on with after a payment.
GoesOn(k, j) ==
  \/ Len(k.plan) = 1 /\ j = Idle
  \/ /\ j.at = "line" /\ j.batch = k.batch /\ j.plan # << >> /\ Len(j.plan) = Len(k.plan) - 1
     /\ \A i \in DOMAIN j.plan : i \in Nat \ {0} /\ i + 1 \in DOMAIN k.plan /\ j.plan[i] = k.plan[i + 1]

LEMMA NextLineDoes ==
  ASSUME NEW w \in Workers, NEW k \in JobRow, k = work[w], k.plan # << >>, NextLine(w)
  PROVE  \E j \in JobRow : Go(w, j) /\ GoesOn(k, j)
  <1>1. k.plan \in Seq(Item) /\ Len(k.plan) \in Nat /\ DOMAIN k.plan = 1 .. Len(k.plan)
    BY DEF JobRow
  <1>2. CASE Len(k.plan) = 1
    BY <1>2, IdleFacts DEF NextLine, Done, GoesOn
  <1>3. CASE Len(k.plan) # 1
    <2>1. PICK rest : rest = Tail(k.plan)
      OBVIOUS
    <2>2. /\ rest \in Seq(Item) /\ Len(rest) = Len(k.plan) - 1
          /\ \A i \in 1 .. Len(rest) : rest[i] = k.plan[i + 1]
      BY <1>1, <2>1, HeadTailProperties
    <2>3. DOMAIN rest = 1 .. Len(rest) /\ Len(rest) \in Nat
      BY <2>2, LenProperties
    <2>4. Len(rest) # 0
      BY <1>1, <1>3, <2>2
    <2>5. rest # << >>
      BY <2>4, EmptySeq
    <2>6. \A i \in DOMAIN rest : i \in Nat \ {0} /\ i + 1 \in DOMAIN k.plan
      BY <1>1, <2>2, <2>3
    <2>7. PICK j : j = [k EXCEPT !.at = "line", !.plan = rest, !.id = 0]
      OBVIOUS
    <2>8. j \in JobRow /\ j.at = "line" /\ j.batch = k.batch /\ j.plan = rest
      BY <2>2, <2>7 DEF JobRow
    <2>9. Go(w, j)
      BY <1>3, <2>1, <2>7 DEF NextLine
    <2>10. GoesOn(k, j)
      BY <2>2, <2>3, <2>5, <2>6, <2>8 DEF GoesOn
    <2>11. QED
      BY <2>8, <2>9, <2>10
  <1>4. QED
    BY <1>2, <1>3

LEMMA LinesFinite ==
  ASSUME Types, NEW b
  PROVE  IsFiniteSet(LinesOf(b)) /\ Cardinality(LinesOf(b)) \in Nat
  <1>1. IsFiniteSet(Lines)
    BY TypeFacts, FS_Interval
  <1>2. LinesOf(b) \in SUBSET Lines
    BY DEF LinesOf
  <1>3. QED
    BY <1>1, <1>2, FS_Subset, FS_CardinalityType

LEMMA GoesOnOK ==
  ASSUME NEW k \in JobRow, NEW j \in JobRow, GoesOn(k, j), JobOK(k), Grows, k.at \in {"line", "link"}
  PROVE  JobOK(j)' /\ (j.at = "idle" => j = Idle)
  <1>1. CASE j = Idle
    BY <1>1, IdleFacts
  <1>2. CASE j # Idle
    <2>1. /\ j.at = "line" /\ j.batch = k.batch /\ j.plan # << >>
          /\ \A i \in DOMAIN j.plan : i + 1 \in DOMAIN k.plan /\ j.plan[i] = k.plan[i + 1]
      BY <1>2 DEF GoesOn
    <2>2. k.batch \in Batches /\ \A i \in DOMAIN k.plan : k.plan[i].mandate # 0 => k.plan[i].mandate \in Mandates
      BY DEF JobOK, Writing
    <2>3. \A i \in DOMAIN j.plan : j.plan[i].mandate # 0 => j.plan[i].mandate \in Mandates
      BY <2>1, <2>2
    <2>4. QED
      BY <2>1, <2>2, <2>3 DEF JobOK, Grows
  <1>3. QED
    BY <1>1, <1>2

\* The rest of a plan is as good as the plan.
LEMMA RestHolds ==
  ASSUME NEW k \in JobRow, NEW j \in JobRow, GoesOn(k, j), PlanHolds(k), k.at \in {"line", "link"}
  PROVE  PlanHolds(j)
  <1>1. CASE j = Idle
    BY <1>1, IdleFacts DEF PlanHolds
  <1>2. CASE j # Idle
    <2>1. \A i \in DOMAIN j.plan : i \in Nat \ {0} /\ i + 1 \in DOMAIN k.plan /\ j.plan[i] = k.plan[i + 1]
      BY <1>2 DEF GoesOn
    <2>2. Writing(k)
      BY DEF Writing
    <2>3. /\ \A i \in DOMAIN k.plan :
                /\ k.plan[i].payable # 0 => /\ k.plan[i].payable \in Payables
                                            /\ payables[k.plan[i].payable].status = "unpaid"
                /\ k.plan[i].mandate # 0 => mandates[k.plan[i].mandate]
                /\ k.plan[i].seq = "RCUR" => Collects(k.plan[i].mandate)
          /\ \A i, l \in DOMAIN k.plan : k.plan[i].payable = k.plan[l].payable /\ k.plan[i].payable # 0 => i = l
      BY <2>2 DEF PlanHolds
    <2>4. \A i \in DOMAIN j.plan :
                /\ j.plan[i].payable # 0 => /\ j.plan[i].payable \in Payables
                                            /\ payables[j.plan[i].payable].status = "unpaid"
                /\ j.plan[i].mandate # 0 => mandates[j.plan[i].mandate]
                /\ j.plan[i].seq = "RCUR" => Collects(j.plan[i].mandate)
      BY <2>1, <2>3
    <2>5. \A i, l \in DOMAIN j.plan : j.plan[i].payable = j.plan[l].payable /\ j.plan[i].payable # 0 => i = l
      <3>1. SUFFICES ASSUME NEW i \in DOMAIN j.plan, NEW l \in DOMAIN j.plan,
                            j.plan[i].payable = j.plan[l].payable, j.plan[i].payable # 0
                     PROVE  i = l
        OBVIOUS
      <3>5. PICK a \in DOMAIN k.plan, b \in DOMAIN k.plan :
              a = i + 1 /\ b = l + 1 /\ j.plan[i] = k.plan[a] /\ j.plan[l] = k.plan[b]
        BY <2>1
      <3>6. a = b
        BY <2>3, <3>1, <3>5
      <3>2. i + 1 = l + 1
        BY <3>5, <3>6
      <3>3. i \in Nat /\ l \in Nat
        BY <2>1
      <3>4. QED
        BY <3>2, <3>3
    <2>6. QED
      BY <2>4, <2>5 DEF PlanHolds
  <1>3. QED
    BY <1>1, <1>2

\* The line that is written.
Inserted(k, n) ==
  /\ n = Len(lines) + 1 /\ n \in Nat \ {0} /\ n \notin Lines
  /\ Lines' = Lines \cup {n} /\ lines' \in Seq(LineRow) /\ Len(lines') = n
  /\ \A l \in Lines : lines'[l] = lines[l]
  /\ lines'[n].batch = k.batch /\ k.batch # 0 /\ lines'[n].payable = k.plan[1].payable
  /\ lines'[n].mandate = k.plan[1].mandate /\ lines'[n].seq = k.plan[1].seq
  /\ UNCHANGED <<payables, batches, mandates, files>>

LEMMA InsertWrites ==
  ASSUME Types, NEW w \in Workers, InsertLine(w)
  PROVE  \E k \in JobRow, n \in Nat :
           /\ k = work[w] /\ k.at = "line" /\ JobOK(k) /\ 1 \in DOMAIN k.plan /\ k.plan # << >>
           /\ Inserted(k, n) /\ n <= MaxLines
           /\ k.plan[1].payable = 0 => NextLine(w)
           /\ k.plan[1].payable # 0 => Go(w, [k EXCEPT !.at = "link", !.id = n])
           /\ batches[k.batch].status # "deleted"
           /\ k.plan[1].mandate # 0 => mandates[k.plan[1].mandate]
  <1>1. PICK k \in JobRow : k = work[w] /\ k.at = "line" /\ JobOK(k)
    BY TypeFacts DEF InsertLine, At
  <1>2. k.plan \in Seq(Item) /\ k.plan # << >> /\ k.batch \in Batches
    BY <1>1 DEF JobOK, Writing, JobRow
  <1>3. PICK item \in Item : item = Head(k.plan) /\ item = k.plan[1] /\ 1 \in DOMAIN k.plan
    BY <1>2
  <1>4. PICK n \in Nat \ {0} : n = Len(lines) + 1
    BY TypeFacts
  <1>5. PICK row : row = [batch |-> k.batch, payable |-> item.payable, mandate |-> item.mandate, seq |-> item.seq]
    OBVIOUS
  <1>6. /\ row \in LineRow /\ row.batch = k.batch /\ row.payable = item.payable
        /\ row.mandate = item.mandate /\ row.seq = item.seq
    BY <1>5 DEF LineRow, Item, JobRow
  <1>7. lines \in Seq(LineRow) /\ lines' = Append(lines, row)
    BY <1>1, <1>3, <1>5 DEF Types, InsertLine
  <1>8. /\ lines' \in Seq(LineRow) /\ Len(lines') = n
        /\ Lines' = Lines \cup {n} /\ n \notin Lines
        /\ \A l \in Lines : lines'[l] = lines[l]
        /\ lines'[n] = row
    BY <1>4, <1>6, <1>7, AppendFacts DEF Lines
  <1>9. k.batch # 0
    BY <1>2, TypeFacts
  <1>10. Inserted(k, n)
    BY <1>3, <1>4, <1>6, <1>8, <1>9 DEF Inserted, InsertLine
  <1>11. n <= MaxLines
    BY <1>4, TypeFacts DEF InsertLine
  <1>12. /\ k.plan[1].payable = 0 => NextLine(w)
         /\ k.plan[1].payable # 0 => Go(w, [k EXCEPT !.at = "link", !.id = n])
    BY <1>1, <1>3, <1>4 DEF InsertLine
  <1>13. /\ batches[k.batch].status # "deleted"
         /\ k.plan[1].mandate # 0 => mandates[k.plan[1].mandate]
    BY <1>1, <1>3 DEF InsertLine, LineRefs
  <1>14. QED
    BY <1>1, <1>2, <1>3, <1>10, <1>11, <1>12, <1>13

LEMMA InsertedLines ==
  ASSUME Types, NEW k \in JobRow, NEW n \in Nat, Inserted(k, n)
  PROVE  /\ LinesOf(k.batch)' = LinesOf(k.batch) \cup {n}
         /\ Cardinality(LinesOf(k.batch))' = Cardinality(LinesOf(k.batch)) + 1
         /\ \A b : b # k.batch => LinesOf(b)' = LinesOf(b)
         /\ \A l \in Lines : Live(l)' = Live(l)
         /\ Live(n)' /\ Grows
  <1>1. LinesOf(k.batch)' = LinesOf(k.batch) \cup {n} /\ n \notin LinesOf(k.batch)
    BY DEF Inserted, LinesOf
  <1>2. Cardinality(LinesOf(k.batch) \cup {n}) = Cardinality(LinesOf(k.batch)) + 1
    BY <1>1, LinesFinite, FS_AddElement
  <1>3. \A b : b # k.batch => LinesOf(b)' = LinesOf(b)
    BY DEF Inserted, LinesOf
  <1>4. (\A l \in Lines : Live(l)' = Live(l)) /\ Live(n)'
    BY DEF Inserted, Live
  <1>5. Grows
    BY <1>4 DEF Inserted, Grows, Batches, Mandates
  <1>6. Cardinality(LinesOf(k.batch))' = Cardinality(LinesOf(k.batch) \cup {n})
    BY <1>1
  <1>7. QED
    BY <1>1, <1>2, <1>3, <1>4, <1>5, <1>6

\* The job after a line: the next one, or the link of its payable.
AfterInsert(k, n, j) ==
  \/ k.plan[1].payable = 0 /\ GoesOn(k, j)
  \/ /\ k.plan[1].payable # 0 /\ j.at = "link" /\ j.id = n /\ j.batch = k.batch /\ j.plan = k.plan

LEMMA InsertingLine ==
  ASSUME IInv, NEW w \in Workers, InsertLine(w)
  PROVE  IInv'
  <1>1. Types /\ Unlinked /\ LinksLead
    BY DEF IInv
  <1>2. PICK k \in JobRow, n \in Nat :
          /\ k = work[w] /\ k.at = "line" /\ JobOK(k) /\ 1 \in DOMAIN k.plan /\ k.plan # << >>
          /\ Inserted(k, n) /\ n <= MaxLines
          /\ k.plan[1].payable = 0 => NextLine(w)
          /\ k.plan[1].payable # 0 => Go(w, [k EXCEPT !.at = "link", !.id = n])
          /\ batches[k.batch].status # "deleted"
          /\ k.plan[1].mandate # 0 => mandates[k.plan[1].mandate]
    BY <1>1, InsertWrites
  <1>3. /\ LinesOf(k.batch)' = LinesOf(k.batch) \cup {n}
        /\ Cardinality(LinesOf(k.batch))' = Cardinality(LinesOf(k.batch)) + 1
        /\ \A b : b # k.batch => LinesOf(b)' = LinesOf(b)
        /\ \A l \in Lines : Live(l)' = Live(l)
        /\ Live(n)' /\ Grows
    BY <1>1, <1>2, InsertedLines
  <1>4. /\ Lines' = Lines \cup {n} /\ n \notin Lines /\ \A l \in Lines : lines'[l] = lines[l]
        /\ UNCHANGED <<payables, batches, mandates, files>>
        /\ lines'[n].batch = k.batch /\ lines'[n].payable = k.plan[1].payable
        /\ lines'[n].mandate = k.plan[1].mandate
        /\ lines' \in Seq(LineRow) /\ Len(lines') = n
    BY <1>2 DEF Inserted
  <1>5. PICK j \in JobRow : Go(w, j) /\ AfterInsert(k, n, j)
    <2>1. CASE k.plan[1].payable = 0
      BY <1>2, <2>1, NextLineDoes DEF AfterInsert
    <2>2. CASE k.plan[1].payable # 0
      <3>1. PICK j : j = [k EXCEPT !.at = "link", !.id = n]
        OBVIOUS
      <3>2. j \in JobRow /\ j.at = "link" /\ j.id = n /\ j.batch = k.batch /\ j.plan = k.plan
        BY <3>1 DEF JobRow
      <3>3. Go(w, j)
        BY <1>2, <2>2, <3>1
      <3>4. QED
        BY <2>2, <3>2, <3>3 DEF AfterInsert
    <2>3. QED
      BY <2>1, <2>2
  <1>6. Head(k.plan) = k.plan[1]
    BY <1>2 DEF JobRow
  <1>7. JobOK(j)' /\ (j.at = "idle" => j = Idle)
    <2>1. CASE GoesOn(k, j)
      BY <1>2, <1>3, <2>1, GoesOnOK
    <2>2. CASE ~GoesOn(k, j)
      <3>1. j.at = "link" /\ j.id = n /\ j.batch = k.batch /\ j.plan = k.plan
        BY <1>5, <2>2 DEF AfterInsert
      <3>2. k.batch \in Batches /\ \A i \in DOMAIN k.plan : k.plan[i].mandate # 0 => k.plan[i].mandate \in Mandates
        BY <1>2 DEF JobOK, Writing
      <3>3. QED
        BY <1>2, <1>3, <1>4, <1>6, <3>1, <3>2 DEF JobOK, Grows
    <2>3. QED
      BY <2>1, <2>2
  <1>8. work' = [work EXCEPT ![w] = j] /\ clean' = clean
    BY <1>5 DEF Go
  <1>9. Types'
    <2>1. work' \in [Workers -> JobRow] /\ \A v \in Workers : JobOK(work[v])'
      BY <1>1, <1>3, <1>7, <1>8, TypesWork
    <2>2. k.batch \in Batches /\ (k.plan[1].mandate # 0 => k.plan[1].mandate \in Mandates)
      BY <1>2 DEF JobOK, Writing
    <2>3. \A l \in Lines' :
            /\ Live(l)' => lines'[l].batch \in Batches' /\ batches'[lines'[l].batch].status # "deleted"
            /\ lines'[l].mandate # 0 => lines'[l].mandate \in Mandates' /\ mandates'[lines'[l].mandate]
      <3>1. ASSUME NEW l \in Lines
            PROVE  /\ Live(l)' => lines'[l].batch \in Batches' /\ batches'[lines'[l].batch].status # "deleted"
                   /\ lines'[l].mandate # 0 => lines'[l].mandate \in Mandates' /\ mandates'[lines'[l].mandate]
        BY <1>1, <1>3, <1>4 DEF Types, Batches, Mandates
      <3>2. /\ Live(n)' => lines'[n].batch \in Batches' /\ batches'[lines'[n].batch].status # "deleted"
            /\ lines'[n].mandate # 0 => lines'[n].mandate \in Mandates' /\ mandates'[lines'[n].mandate]
        BY <1>2, <1>4, <2>2 DEF Batches, Mandates
      <3>3. QED
        BY <1>4, <3>1, <3>2
    <2>4. QED
      BY <1>1, <1>2, <1>4, <1>8, <2>1, <2>3 DEF Types, Batches, Mandates
  <1>10. Unlinked'
    BY <1>1, <1>4 DEF Unlinked, Payables
  <1>11. LinksLead'
    BY <1>1, <1>3, <1>4 DEF LinksLead, Payables
  <1>12. ASSUME Tidy(k) PROVE Tidy(j)'
    <2>1. batches[k.batch].status = "draft" /\ Cardinality(LinesOf(k.batch)) + Len(k.plan) = batches[k.batch].total
      BY <1>2, <1>12 DEF Tidy, BatchHolds
    <2>2. PICK t \in Nat, c \in Nat, p \in Nat :
            /\ t = batches[k.batch].total /\ c = Cardinality(LinesOf(k.batch)) /\ p = Len(k.plan) /\ c + p = t
            /\ batches'[k.batch].total = t /\ Cardinality(LinesOf(k.batch))' = c + 1
            /\ batches'[k.batch].status = "draft"
      <3>1. k.batch \in Batches
        BY <1>2 DEF JobOK
      <3>2. batches[k.batch].total \in Nat /\ Cardinality(LinesOf(k.batch)) \in Nat /\ Len(k.plan) \in Nat
        BY <1>1, <3>1, TypeFacts, LinesFinite DEF BatchRow, JobRow
      <3>3. QED
        BY <1>3, <1>4, <2>1, <3>2
    <2>3. LinesLinked(j)'
      <3>1. LinesLinked(k)
        BY <1>12 DEF Tidy
      <3>2. \A l \in Lines : Live(l)' /\ lines'[l].payable # 0 =>
              lines'[l].payable \in Payables' /\ payables'[lines'[l].payable].line = l
        BY <1>2, <1>3, <1>4, <3>1 DEF LinesLinked, Payables
      <3>3. lines'[n].payable # 0 => j.at = "link" /\ j.id = n
        BY <1>4, <1>5 DEF AfterInsert
      <3>4. QED
        BY <1>4, <3>2, <3>3 DEF LinesLinked
    <2>4. BatchesFull(j)'
      <3>1. BatchesFull(k)
        BY <1>12 DEF Tidy
      <3>2. ASSUME NEW b \in Batches', batches'[b].status # "deleted", ~HalfWritten(j, b)
            PROVE  Cardinality(LinesOf(b))' = batches'[b].total
        <4>1. CASE b # k.batch
          BY <1>3, <1>4, <3>1, <3>2, <4>1 DEF BatchesFull, HalfWritten, Batches
        <4>2. CASE b = k.batch
          <5>1. GoesOn(k, j) /\ j.at # "line"
            BY <1>5, <3>2, <4>2, IdleFacts DEF AfterInsert, HalfWritten, GoesOn
          <5>2. p = 1
            BY <2>2, <5>1 DEF GoesOn
          <5>3. QED
            BY <2>2, <4>2, <5>2
        <4>3. QED
          BY <4>1, <4>2
      <3>3. QED
        BY <3>2 DEF BatchesFull, HalfWritten
    <2>5. FilesWhole'
      <3>1. FilesWhole
        BY <1>12 DEF Tidy
      <3>2. \A f \in DOMAIN files : files[f].batch # k.batch
        BY <2>1, <3>1 DEF FilesWhole
      <3>3. \A f \in DOMAIN files : \A l \in LinesOf(files[f].batch) : lines'[l].payable = lines[l].payable
        BY <1>4 DEF LinesOf
      <3>4. QED
        BY <1>1, <1>3, <1>4, <3>1, <3>2, <3>3, FilesKept
    <2>6. PlanHolds(j)'
      <3>1. PlanHolds(j)
        <4>1. PlanHolds(k)
          BY <1>12 DEF Tidy
        <4>2. CASE GoesOn(k, j)
          BY <1>2, <4>1, <4>2, RestHolds
        <4>3. CASE ~GoesOn(k, j)
          BY <1>2, <1>5, <4>1, <4>3, SMTT(30) DEF AfterInsert, PlanHolds, Writing
        <4>4. QED
          BY <4>2, <4>3
      <3>2. \A m : Collects(m) => Collects(m)'
        BY <1>3, <1>4 DEF Collects
      <3>3. QED
        BY <1>4, <3>1, <3>2 DEF PlanHolds, Payables
    <2>7. BatchHolds(j)'
      <3>1. CASE j.at = "link" /\ j.id = n /\ j.batch = k.batch /\ j.plan = k.plan
        <4>1. batches'[j.batch].status = "draft" /\ batches'[j.batch].total = t
          BY <2>2, <3>1
        <4>2. Live(j.id)'
          BY <1>3, <3>1
        <4>3. LinesOf(j.batch)' = LinesOf(k.batch)'
          BY <3>1
        <4>4. Cardinality(LinesOf(j.batch))' = c + 1
          BY <2>2, <4>3
        <4>5. Len(j.plan) = p
          BY <2>2, <3>1
        <4>6. Cardinality(LinesOf(j.batch))' + Len(j.plan) = batches'[j.batch].total + 1
          <5>1. c + p = t
            BY <2>2
          <5>2. c + 1 + p = t + 1
            BY <5>1
          <5>3. QED
            BY <4>1, <4>4, <4>5, <5>2
        <4>7. lines'[j.id].batch = j.batch
          BY <1>4, <3>1
        <4>8. QED
          BY <3>1, <4>1, <4>2, <4>6, <4>7 DEF BatchHolds
      <3>2. CASE GoesOn(k, j)
        <4>1. CASE j = Idle
          BY <4>1, IdleFacts DEF BatchHolds
        <4>2. CASE j.at = "line" /\ j.batch = k.batch /\ Len(j.plan) = p - 1
          BY <2>2, <4>2 DEF BatchHolds
        <4>3. QED
          BY <2>2, <3>2, <4>1, <4>2 DEF GoesOn
      <3>3. QED
        BY <1>5, <3>1, <3>2 DEF AfterInsert
    <2>8. QED
      BY <2>3, <2>4, <2>5, <2>6, <2>7 DEF Tidy
  <1>13. clean' => CleanOK'
    <2>1. ~At(w, "idle")
      BY <1>2 DEF At
    <2>2. QED
      BY <1>2, <1>5, <1>7, <1>12, <2>1, CleanGo
  <1>14. QED
    BY <1>9, <1>10, <1>11, <1>13 DEF IInv

LEMMA Linking ==
  ASSUME IInv, NEW w \in Workers, LinkPayable(w)
  PROVE  IInv'
  <1>1. Types /\ Unlinked /\ LinksLead
    BY DEF IInv
  <1>2. PICK k \in JobRow : k = work[w] /\ k.at = "link" /\ JobOK(k)
    BY <1>1, TypeFacts DEF LinkPayable, At
  <1>3. /\ k.plan # << >> /\ k.plan \in Seq(Item) /\ k.id \in Lines /\ Live(k.id)
        /\ lines[k.id].payable = Head(k.plan).payable
    BY <1>2 DEF JobOK, Writing, LinkPayable, LinkRef, JobRow
  <1>4. 1 \in DOMAIN k.plan /\ Head(k.plan) = k.plan[1]
    BY <1>3
  <1>5. PICK p : p = k.plan[1].payable /\ lines[k.id].payable = p
    BY <1>3, <1>4
  <1>6. UNCHANGED <<batches, lines, mandates, files>>
    BY DEF LinkPayable
  <1>7. k.id \in Nat \ {0}
    BY <1>1, <1>3, TypeFacts
  <1>8. PICK row : row = [status |-> "in_batch", line |-> k.id]
    OBVIOUS
  <1>9. row \in PayableRow /\ row.status = "in_batch" /\ row.line = k.id
    BY <1>7, <1>8 DEF PayableRow
  <1>10. payables' = [payables EXCEPT ![p] = row]
    BY <1>2, <1>4, <1>5, <1>8 DEF LinkPayable
  <1>11. /\ payables' \in Seq(PayableRow) /\ Payables' = Payables
         /\ \A q \in Payables : payables'[q] = IF q = p THEN row ELSE payables[q]
    <2>1. /\ Payables = 1 .. Len(payables) /\ Len(payables) \in Nat
          /\ \A q \in Payables : payables[q] \in PayableRow
          /\ payables \in Seq(PayableRow)
      BY <1>1, TypeFacts DEF Types
    <2>2. PICK n \in Nat : n = Len(payables) /\ Payables = 1 .. n
      BY <2>1
    <2>3. /\ Payables' = Payables
          /\ \A q \in Payables : payables'[q] = IF q = p THEN row ELSE payables[q]
      BY <1>10, <2>1 DEF Payables
    <2>4. payables' \in [1 .. n -> PayableRow]
      BY <1>9, <1>10, <2>1, <2>2 DEF Payables
    <2>5. QED
      BY <2>3, <2>4, ListIsSeq
  <1>12. PICK j \in JobRow : Go(w, j) /\ GoesOn(k, j)
    BY <1>2, <1>3, NextLineDoes DEF LinkPayable
  <1>13. Grows
    BY <1>6 DEF Grows, Batches, Mandates, Lines, Live
  <1>14. JobOK(j)' /\ (j.at = "idle" => j = Idle)
    BY <1>2, <1>12, <1>13, GoesOnOK
  <1>15. work' = [work EXCEPT ![w] = j] /\ clean' = clean
    BY <1>12 DEF Go
  <1>16. Types'
    <2>1. work' \in [Workers -> JobRow] /\ \A v \in Workers : JobOK(work[v])'
      BY <1>1, <1>13, <1>14, <1>15, TypesWork
    <2>2. QED
      BY <1>1, <1>6, <1>11, <1>15, <2>1 DEF Types, Batches, Lines, Mandates, Live
  <1>17. Unlinked'
    BY <1>1, <1>9, <1>11 DEF Unlinked
  <1>18. LinksLead'
    <2>1. ASSUME NEW q \in Payables, q = p
          PROVE  payables'[q].line = k.id /\ k.id # 0 /\ lines[k.id].payable = q
      BY <1>5, <1>7, <1>9, <1>11, <2>1
    <2>2. QED
      BY <1>1, <1>3, <1>6, <1>11, <2>1 DEF LinksLead, Lines, Live
  <1>19. ASSUME Tidy(k) PROVE Tidy(j)'
    <2>0. LinesLinked(k) /\ BatchesFull(k) /\ FilesWhole /\ PlanHolds(k) /\ BatchHolds(k)
      BY <1>19 DEF Tidy
    <2>1. p # 0 => p \in Payables /\ payables[p].status = "unpaid" /\ payables[p].line = 0
      BY <1>1, <1>2, <1>4, <1>5, <2>0 DEF PlanHolds, Writing, Unlinked
    <2>2. PICK t \in Nat, c \in Nat, s \in Nat :
            /\ t = batches[k.batch].total /\ c = Cardinality(LinesOf(k.batch)) /\ s = Len(k.plan)
            /\ c + s = t + 1 /\ batches[k.batch].status = "draft"
      <3>1. k.batch \in Batches
        BY <1>2 DEF JobOK
      <3>2. batches[k.batch].total \in Nat /\ Cardinality(LinesOf(k.batch)) \in Nat /\ Len(k.plan) \in Nat
        BY <1>1, <1>3, <3>1, TypeFacts, LinesFinite, SMTT(30) DEF BatchRow
      <3>3. QED
        BY <1>2, <2>0, <3>2 DEF BatchHolds
    <2>3. LinesLinked(j)'
      <3>1. ASSUME NEW l \in Lines, Live(l), lines[l].payable # 0
            PROVE  lines[l].payable \in Payables /\ payables'[lines[l].payable].line = l
        <4>1. CASE l = k.id
          BY <1>5, <1>9, <1>11, <2>1, <3>1, <4>1
        <4>2. CASE l # k.id
          <5>1. lines[l].payable \in Payables /\ payables[lines[l].payable].line = l
            BY <1>2, <2>0, <3>1, <4>2 DEF LinesLinked
          <5>2. l # 0
            BY <1>1, <3>1, TypeFacts
          <5>3. lines[l].payable # p
            BY <2>1, <3>1, <5>1, <5>2
          <5>4. QED
            BY <1>11, <5>1, <5>3
        <4>3. QED
          BY <4>1, <4>2
      <3>2. QED
        BY <1>6, <1>11, <3>1 DEF LinesLinked, Lines, Live
    <2>4. BatchesFull(j)'
      <3>1. ASSUME NEW b \in Batches, batches[b].status # "deleted", ~HalfWritten(j, b)
            PROVE  Cardinality(LinesOf(b)) = batches[b].total
        <4>1. CASE b # k.batch
          BY <2>0, <3>1, <4>1 DEF BatchesFull, HalfWritten
        <4>2. CASE b = k.batch
          <5>1. j.at # "line"
            BY <1>12, <3>1, <4>2, IdleFacts DEF HalfWritten, GoesOn
          <5>2. s = 1
            BY <1>12, <2>2, <5>1 DEF GoesOn
          <5>3. c = t
            BY <2>2, <5>2
          <5>4. QED
            BY <2>2, <4>2, <5>3
        <4>3. QED
          BY <4>1, <4>2
      <3>2. QED
        BY <1>6, <3>1 DEF BatchesFull, HalfWritten, Batches, LinesOf, Lines
    <2>5. FilesWhole'
      BY <1>6, <2>0 DEF FilesWhole, LinesOf, Lines
    <2>6. PlanHolds(j)'
      <3>1. PlanHolds(j)
        BY <1>2, <1>12, <2>0, RestHolds
      <3>2. ASSUME Writing(j), NEW i \in DOMAIN j.plan, j.plan[i].payable # 0 PROVE j.plan[i].payable # p
        <4>1. i \in Nat \ {0} /\ i + 1 \in DOMAIN k.plan /\ j.plan[i] = k.plan[i + 1]
          BY <1>12, <3>2, IdleFacts DEF GoesOn
        <4>2. i + 1 # 1
          BY <4>1
        <4>3. QED
          BY <1>2, <1>4, <1>5, <2>0, <3>2, <4>1, <4>2 DEF PlanHolds, Writing
      <3>3. ASSUME Writing(j), NEW i \in DOMAIN j.plan, j.plan[i].payable # 0
            PROVE  j.plan[i].payable \in Payables' /\ payables'[j.plan[i].payable].status = "unpaid"
        <4>1. j.plan[i].payable \in Payables /\ payables[j.plan[i].payable].status = "unpaid"
          BY <3>1, <3>3 DEF PlanHolds
        <4>2. j.plan[i].payable # p
          BY <3>2, <3>3
        <4>3. QED
          BY <1>11, <4>1, <4>2
      <3>4. \A m : Collects(m) => Collects(m)'
        BY <1>6 DEF Collects, Lines, Live
      <3>5. QED
        BY <1>6, <3>1, <3>3, <3>4 DEF PlanHolds
    <2>7. BatchHolds(j)'
      <3>1. CASE j = Idle
        BY <3>1, IdleFacts DEF BatchHolds
      <3>2. CASE j.at = "line" /\ j.batch = k.batch /\ Len(j.plan) = s - 1
        <4>1. c + (s - 1) = t
          BY <2>2
        <4>2. Cardinality(LinesOf(j.batch)) = c /\ batches[j.batch].total = t /\ batches[j.batch].status = "draft"
          BY <2>2, <3>2
        <4>3. Cardinality(LinesOf(j.batch)) + Len(j.plan) = batches[j.batch].total
          BY <3>2, <4>1, <4>2
        <4>4. Cardinality(LinesOf(j.batch))' = Cardinality(LinesOf(j.batch)) /\ batches' = batches
          BY <1>6 DEF LinesOf, Lines
        <4>5. QED
          BY <3>2, <4>2, <4>3, <4>4 DEF BatchHolds
      <3>3. QED
        BY <1>12, <2>2, <3>1, <3>2 DEF GoesOn
    <2>8. QED
      BY <2>3, <2>4, <2>5, <2>6, <2>7 DEF Tidy
  <1>20. clean' => CleanOK'
    <2>1. ~At(w, "idle")
      BY <1>2 DEF At
    <2>2. QED
      BY <1>2, <1>12, <1>14, <1>19, <2>1, CleanGo
  <1>21. QED
    BY <1>16, <1>17, <1>18, <1>20 DEF IInv

LEMMA ExportWriting ==
  ASSUME IInv, NEW w \in Workers, ExportWrite(w)
  PROVE  IInv'
  <1>1. Types /\ Unlinked /\ LinksLead
    BY DEF IInv
  <1>2. PICK k \in JobRow : k = work[w] /\ k.at = "export" /\ JobOK(k)
    BY <1>1, TypeFacts DEF ExportWrite, At
  <1>3. /\ UNCHANGED <<payables, lines, mandates>> /\ Go(w, Idle) /\ clean' = clean /\ ~At(w, "idle")
        /\ work' = [work EXCEPT ![w] = Idle]
    BY <1>2 DEF ExportWrite, Done, Go, At
  <1>4. k.batch \in Batches
    BY <1>2 DEF JobOK
  <1>5. /\ batches' \in Seq(BatchRow) /\ Batches' = Batches
        /\ \A b \in Batches : /\ batches'[b].total = batches[b].total
                              /\ b # k.batch => batches'[b].status = batches[b].status
        /\ batches'[k.batch].status = IF batches[k.batch].status = "deleted" THEN "deleted" ELSE "exported"
    <2>1. /\ Batches = 1 .. Len(batches) /\ Len(batches) \in Nat
          /\ \A b \in Batches : batches[b] \in BatchRow
          /\ batches \in Seq(BatchRow)
      BY <1>1, TypeFacts DEF Types
    <2>2. PICK st : st = IF batches[k.batch].status = "deleted" THEN "deleted" ELSE "exported"
      OBVIOUS
    <2>3. batches' = [batches EXCEPT ![k.batch].status = st]
      BY <1>2, <2>2 DEF ExportWrite
    <2>4. st \in {"draft", "exported", "deleted"}
      BY <2>2
    <2>5. PICK n \in Nat : n = Len(batches) /\ Batches = 1 .. n
      BY <2>1
    <2>6. \A b \in Batches : batches'[b] \in BatchRow /\ batches'[b].total = batches[b].total
                             /\ batches'[b].status = IF b = k.batch THEN st ELSE batches[b].status
      BY <2>1, <2>3, <2>4 DEF BatchRow, Batches
    <2>7. batches' \in [1 .. n -> BatchRow]
      BY <2>1, <2>3, <2>5, <2>6 DEF Batches
    <2>8. Batches' = Batches
      BY <2>3 DEF Batches
    <2>9. QED
      BY <1>4, <2>2, <2>6, <2>7, <2>8, ListIsSeq
  <1>6. PICK row : row = [batch |-> k.batch, pays |-> k.pays]
    OBVIOUS
  <1>7. row \in FileRow /\ row.batch = k.batch /\ row.pays = k.pays
    BY <1>6 DEF FileRow, JobRow
  <1>8. PICK n : n = Len(files) + 1
    OBVIOUS
  <1>9. /\ files' \in Seq(FileRow)
        /\ DOMAIN files' = DOMAIN files \cup {n} /\ n \notin DOMAIN files
        /\ \A f \in DOMAIN files : files'[f] = files[f]
        /\ files'[n] = row
    <2>1. files \in Seq(FileRow) /\ files' = Append(files, row)
      BY <1>1, <1>2, <1>6 DEF Types, ExportWrite
    <2>2. QED
      BY <1>7, <1>8, <2>1, AppendFacts
  <1>10. Grows
    BY <1>3, <1>5 DEF Grows, Mandates, Lines, Live
  <1>11. Types'
    <2>1. work' \in [Workers -> JobRow] /\ \A v \in Workers : JobOK(work[v])'
      BY <1>1, <1>3, <1>10, IdleFacts, TypesWork
    <2>2. \A f \in DOMAIN files' : files'[f].batch \in Batches'
      BY <1>1, <1>4, <1>5, <1>7, <1>9 DEF Types
    <2>3. \A l \in Lines : Live(l) => lines[l].batch \in Batches /\ batches'[lines[l].batch].status # "deleted"
      BY <1>1, <1>5 DEF Types
    <2>4. QED
      BY <1>1, <1>3, <1>5, <1>9, <2>1, <2>2, <2>3 DEF Types, Lines, Mandates, Live
  <1>12. Unlinked' /\ LinksLead'
    BY <1>1, <1>3 DEF Unlinked, LinksLead, Payables, Lines, Live
  <1>13. ASSUME Tidy(k) PROVE Tidy(Idle)'
    <2>0. LinesLinked(k) /\ BatchesFull(k) /\ FilesWhole
      BY <1>13 DEF Tidy
    <2>1. batches[k.batch].status = "draft" /\ k.pays = PaymentsOf(k.batch)
      BY <1>2, <1>13 DEF Tidy, BatchHolds
    <2>2. \A b : LinesOf(b)' = LinesOf(b)
      BY <1>3 DEF LinesOf, Lines
    <2>3. LinesLinked(Idle)'
      BY <1>2, <1>3, <2>0 DEF LinesLinked, Lines, Live, Payables
    <2>4. BatchesFull(Idle)'
      <3>1. \A b \in Batches' : batches'[b].status # "deleted" =>
              /\ b \in Batches /\ batches[b].status # "deleted" /\ ~HalfWritten(k, b)
              /\ batches'[b].total = batches[b].total /\ LinesOf(b)' = LinesOf(b)
        BY <1>2, <1>5, <2>1, <2>2 DEF HalfWritten
      <3>2. QED
        BY <2>0, <3>1, FullKept
    <2>5. FilesWhole'
      <3>1. \A f \in DOMAIN files : files[f].batch # k.batch /\ files[f].batch \in Batches
        BY <1>1, <2>0, <2>1 DEF FilesWhole, Types
      <3>2. ASSUME NEW f \in DOMAIN files
            PROVE  /\ batches'[files'[f].batch].status = "exported"
                   /\ DOMAIN files'[f].pays = LinesOf(files'[f].batch)
                   /\ \A l \in DOMAIN files'[f].pays : files'[f].pays[l] = lines'[l].payable
        BY <1>3, <1>5, <1>9, <2>0, <3>1 DEF FilesWhole
      <3>3. /\ batches'[files'[n].batch].status = "exported"
            /\ DOMAIN files'[n].pays = LinesOf(files'[n].batch)
            /\ \A l \in DOMAIN files'[n].pays : files'[n].pays[l] = lines'[l].payable
        <4>1. files'[n].batch = k.batch /\ files'[n].pays = PaymentsOf(k.batch)
          BY <1>7, <1>9, <2>1
        <4>2. DOMAIN PaymentsOf(k.batch) = LinesOf(k.batch)
              /\ \A l \in LinesOf(k.batch) : PaymentsOf(k.batch)[l] = lines[l].payable
          BY DEF PaymentsOf
        <4>4. batches'[k.batch].status = "exported"
          BY <1>5, <2>1
        <4>5. QED
          BY <1>3, <4>1, <4>2, <4>4
      <3>4. \A f, g \in DOMAIN files' : files'[f].batch = files'[g].batch => f = g
        BY <1>7, <1>9, <2>0, <3>1 DEF FilesWhole
      <3>5. \A f \in DOMAIN files' :
              /\ batches'[files'[f].batch].status = "exported"
              /\ DOMAIN files'[f].pays = LinesOf(files'[f].batch)
              /\ \A l \in DOMAIN files'[f].pays : files'[f].pays[l] = lines'[l].payable
        BY <1>9, <3>2, <3>3
      <3>6. QED
        BY <1>3, <3>4, <3>5 DEF FilesWhole, LinesOf, Lines
    <2>6. PlanHolds(Idle)' /\ BatchHolds(Idle)'
      BY IdleFacts DEF PlanHolds, BatchHolds, Writing
    <2>7. QED
      BY <2>3, <2>4, <2>5, <2>6 DEF Tidy
  <1>14. clean' => CleanOK'
    BY <1>2, <1>3, <1>13, IdleFacts, CleanGo
  <1>15. QED
    BY <1>11, <1>12, <1>14 DEF IInv

LEMMA Releasing ==
  ASSUME IInv, NEW w \in Workers, Release(w)
  PROVE  IInv'
  <1>1. Types /\ Unlinked /\ LinksLead
    BY DEF IInv
  <1>2. PICK k \in JobRow : k = work[w] /\ k.at = "release" /\ JobOK(k)
    BY <1>1, TypeFacts DEF Release, At
  <1>3. UNCHANGED <<batches, lines, mandates, files>> /\ ~At(w, "idle")
    BY <1>2 DEF Release, At
  <1>4. PICK j : j = [k EXCEPT !.at = "del_lines"]
    OBVIOUS
  <1>5. j \in JobRow /\ j.at = "del_lines" /\ j.batch = k.batch
    BY <1>4 DEF JobRow
  <1>6. Go(w, j) /\ work' = [work EXCEPT ![w] = j] /\ clean' = clean
    BY <1>2, <1>4 DEF Release, Goto, Go
  <1>7. PICK free : free = [status |-> "unpaid", line |-> 0]
    OBVIOUS
  <1>8. free \in PayableRow /\ free.status = "unpaid" /\ free.line = 0
    BY <1>7 DEF PayableRow
  <1>9. /\ payables' \in Seq(PayableRow) /\ Payables' = Payables
        /\ \A p \in Payables : payables'[p] = IF payables[p].line \in LinesOf(k.batch) THEN free ELSE payables[p]
    <2>1. /\ Payables = 1 .. Len(payables) /\ Len(payables) \in Nat
          /\ \A p \in Payables : payables[p] \in PayableRow
      BY <1>1, TypeFacts
    <2>2. payables' = [p \in Payables |-> IF payables[p].line \in LinesOf(k.batch) THEN free ELSE payables[p]]
      BY <1>2, <1>7 DEF Release
    <2>3. PICK n \in Nat : n = Len(payables) /\ Payables = 1 .. n
      BY <2>1
    <2>4. payables' \in [1 .. n -> PayableRow]
      BY <1>8, <2>1, <2>2, <2>3
    <2>5. payables' \in Seq(PayableRow)
      BY <2>4, ListIsSeq
    <2>6. Payables' = Payables
      BY <2>2 DEF Payables
    <2>7. QED
      BY <2>2, <2>5, <2>6
  <1>10. Grows
    BY <1>3 DEF Grows, Batches, Mandates, Lines, Live
  <1>11. JobOK(j)'
    BY <1>2, <1>3, <1>5 DEF JobOK, Writing, Batches
  <1>12. Types'
    <2>1. work' \in [Workers -> JobRow] /\ \A v \in Workers : JobOK(work[v])'
      BY <1>1, <1>5, <1>6, <1>10, <1>11, TypesWork
    <2>2. QED
      BY <1>1, <1>3, <1>6, <1>9, <2>1 DEF Types, Batches, Lines, Mandates, Live
  <1>13. Unlinked'
    BY <1>1, <1>8, <1>9 DEF Unlinked
  <1>14. LinksLead'
    BY <1>1, <1>3, <1>8, <1>9 DEF LinksLead, Lines, Live
  <1>15. ASSUME Tidy(k) PROVE Tidy(j)'
    <2>0. LinesLinked(k) /\ BatchesFull(k) /\ FilesWhole /\ batches[k.batch].status = "draft"
      BY <1>2, <1>15 DEF Tidy, BatchHolds
    <2>1. LinesLinked(j)'
      <3>1. ASSUME NEW l \in Lines, Live(l), lines[l].payable # 0, lines[l].batch # k.batch
            PROVE  lines[l].payable \in Payables /\ payables'[lines[l].payable].line = l
        <4>1. lines[l].payable \in Payables /\ payables[lines[l].payable].line = l
          BY <1>2, <2>0, <3>1 DEF LinesLinked
        <4>2. l \notin LinesOf(k.batch)
          BY <3>1 DEF LinesOf
        <4>3. QED
          BY <1>9, <4>1, <4>2
      <3>2. QED
        BY <1>3, <1>5, <1>9, <3>1 DEF LinesLinked, Lines, Live
    <2>2. BatchesFull(j)' /\ FilesWhole'
      BY <1>2, <1>3, <1>5, <2>0 DEF BatchesFull, FilesWhole, HalfWritten, Batches, LinesOf, Lines
    <2>3. PlanHolds(j)'
      BY <1>5 DEF PlanHolds, Writing
    <2>4. BatchHolds(j)'
      <3>1. LinesOf(k.batch)' = LinesOf(k.batch) /\ 0 \notin LinesOf(k.batch)
        BY <1>1, <1>3, TypeFacts DEF LinesOf, Lines
      <3>2. NotReferred(k.batch)'
        BY <1>8, <1>9, <3>1 DEF NotReferred
      <3>3. NotReferred(j.batch)'
        BY <1>5, <3>2
      <3>4. batches'[j.batch].status = "draft"
        BY <1>3, <1>5, <2>0
      <3>5. QED
        BY <1>5, <3>3, <3>4 DEF BatchHolds
    <2>5. QED
      BY <2>1, <2>2, <2>3, <2>4 DEF Tidy
  <1>16. clean' => CleanOK'
    <2>1. j.at = "idle" => j = Idle
      BY <1>5
    <2>2. QED
      BY <1>2, <1>3, <1>5, <1>6, <1>15, <2>1, CleanGo
  <1>17. QED
    BY <1>12, <1>13, <1>14, <1>16 DEF IInv

LEMMA WithoutWrites ==
  ASSUME Types, NEW b \in Batches, lines' = Without(b)
  PROVE  /\ lines' \in Seq(LineRow) /\ Lines' = Lines /\ Len(lines') = Len(lines)
         /\ LinesOf(b)' = {} /\ \A c \in Batches : c # b => LinesOf(c)' = LinesOf(c)
         /\ \A l \in Lines : l \notin LinesOf(b) => lines'[l] = lines[l]
         /\ \A l \in LinesOf(b) : ~Live(l)' /\ lines'[l].mandate = 0
  <1>1. /\ Lines = 1 .. Len(lines) /\ Len(lines) \in Nat
        /\ \A l \in Lines : lines[l] \in LineRow
        /\ MaxPayables \in Nat /\ Batches = 1 .. Len(batches)
    BY TypeFacts
  <1>2. PICK none : none = NoLine
    OBVIOUS
  <1>3. none \in LineRow /\ none.batch = 0 /\ none.mandate = 0
    BY <1>1, <1>2 DEF NoLine, LineRow
  <1>4. lines' = [l \in Lines |-> IF l \in LinesOf(b) THEN none ELSE lines[l]]
    BY <1>2 DEF Without
  <1>5. PICK n \in Nat : n = Len(lines) /\ Lines = 1 .. n
    BY <1>1
  <1>6. lines' \in [1 .. n -> LineRow]
    BY <1>1, <1>3, <1>4, <1>5
  <1>7. lines' \in Seq(LineRow) /\ Lines' = Lines /\ Len(lines') = Len(lines)
    BY <1>4, <1>5, <1>6, ListIsSeq, LenProperties DEF Lines
  <1>8. b # 0 /\ \A c \in Batches : c # 0
    BY <1>1
  <1>9. LinesOf(b)' = {}
    BY <1>3, <1>4, <1>7, <1>8 DEF LinesOf
  <1>10. \A c \in Batches : c # b => LinesOf(c)' = LinesOf(c)
    BY <1>3, <1>4, <1>7, <1>8 DEF LinesOf
  <1>11. \A l \in LinesOf(b) : l \in Lines
    BY DEF LinesOf
  <1>12. QED
    BY <1>3, <1>4, <1>7, <1>9, <1>10, <1>11 DEF Live


\* What both deletions do to the lines.
LEMMA Emptying ==
  ASSUME Types, LinksLead, NEW b \in Batches, lines' = Without(b), NotReferred(b),
         UNCHANGED <<payables, mandates, files>>, Batches' = Batches
  PROVE  /\ Grows /\ LinksLead'
         /\ \A l \in Lines : Live(l)' => Live(l) /\ lines[l].batch # b /\ lines'[l] = lines[l]
         /\ \A l \in Lines' : lines'[l].mandate # 0 => lines'[l].mandate \in Mandates /\ mandates[lines'[l].mandate]
  <1>1. /\ Lines' = Lines
        /\ \A l \in Lines : l \notin LinesOf(b) => lines'[l] = lines[l]
        /\ \A l \in LinesOf(b) : ~Live(l)' /\ lines'[l].mandate = 0
    BY WithoutWrites
  <1>2. \A l \in Lines : Live(l)' => Live(l) /\ lines[l].batch # b /\ lines'[l] = lines[l]
    BY <1>1 DEF LinesOf, Live
  <1>3. Grows
    BY <1>1, <1>2 DEF Grows, Mandates
  <1>4. \A l \in Lines' : lines'[l].mandate # 0 => lines'[l].mandate \in Mandates /\ mandates[lines'[l].mandate]
    BY <1>1 DEF Types
  <1>5. ASSUME NEW p \in Payables, payables[p].line # 0
        PROVE  /\ payables[p].line \in Lines' /\ Live(payables[p].line)'
               /\ lines'[payables[p].line].payable = lines[payables[p].line].payable
    <2>1. payables[p].line \in Lines /\ Live(payables[p].line) /\ payables[p].line \notin LinesOf(b)
      BY <1>5 DEF LinksLead, NotReferred
    <2>2. QED
      BY <1>1, <2>1 DEF Live
  <1>6. LinksLead'
    BY <1>5, LinksKept
  <1>7. QED
    BY <1>2, <1>3, <1>4, <1>6

LEMMA DeletingLines ==
  ASSUME IInv, NEW w \in Workers, DeleteLines(w)
  PROVE  IInv'
  <1>1. Types /\ Unlinked /\ LinksLead
    BY DEF IInv
  <1>2. PICK k \in JobRow : k = work[w] /\ k.at = "del_lines" /\ JobOK(k)
    BY <1>1, TypeFacts DEF DeleteLines, At
  <1>3. PICK b \in Batches : b = k.batch
    BY <1>2 DEF JobOK
  <1>4. /\ lines' = Without(b) /\ NotReferred(b) /\ ~At(w, "idle")
        /\ UNCHANGED <<payables, batches, mandates, files>>
    BY <1>2, <1>3 DEF DeleteLines, At
  <1>5. PICK j : j = [k EXCEPT !.at = "del_batch"]
    OBVIOUS
  <1>6. j \in JobRow /\ j.at = "del_batch" /\ j.batch = b
    BY <1>3, <1>5 DEF JobRow
  <1>7. Go(w, j) /\ work' = [work EXCEPT ![w] = j] /\ clean' = clean
    BY <1>2, <1>5 DEF DeleteLines, Goto, Go
  <1>8. Batches' = Batches /\ Mandates' = Mandates
    BY <1>4 DEF Batches, Mandates
  <1>9. /\ Grows /\ LinksLead'
        /\ \A l \in Lines : Live(l)' => Live(l) /\ lines[l].batch # b /\ lines'[l] = lines[l]
        /\ \A l \in Lines' : lines'[l].mandate # 0 => lines'[l].mandate \in Mandates /\ mandates[lines'[l].mandate]
    BY <1>1, <1>4, <1>8, Emptying
  <1>10. /\ lines' \in Seq(LineRow) /\ Lines' = Lines /\ Len(lines') = Len(lines)
         /\ LinesOf(b)' = {} /\ \A c \in Batches : c # b => LinesOf(c)' = LinesOf(c)
    BY <1>1, <1>4, WithoutWrites
  <1>11. Types'
    <2>1. JobOK(j)'
      BY <1>6, <1>8 DEF JobOK, Writing
    <2>2. work' \in [Workers -> JobRow] /\ \A v \in Workers : JobOK(work[v])'
      BY <1>1, <1>6, <1>7, <1>9, <2>1, TypesWork
    <2>3. \A l \in Lines' : Live(l)' => lines'[l].batch \in Batches' /\ batches'[lines'[l].batch].status # "deleted"
      BY <1>1, <1>4, <1>8, <1>9, <1>10 DEF Types
    <2>4. QED
      BY <1>1, <1>4, <1>7, <1>8, <1>9, <1>10, <2>2, <2>3 DEF Types
  <1>12. Unlinked'
    BY <1>1, <1>4 DEF Unlinked, Payables
  <1>13. ASSUME Tidy(k) PROVE Tidy(j)'
    <2>0. LinesLinked(k) /\ BatchesFull(k) /\ FilesWhole /\ batches[b].status = "draft"
      BY <1>2, <1>3, <1>13 DEF Tidy, BatchHolds
    <2>1. LinesLinked(j)'
      <3>1. \A l \in Lines : Live(l)' /\ lines'[l].payable # 0 =>
              lines'[l].payable \in Payables /\ payables[lines'[l].payable].line = l
        BY <1>2, <1>3, <1>9, <2>0 DEF LinesLinked
      <3>2. QED
        BY <1>4, <1>10, <3>1 DEF LinesLinked, Payables
    <2>2. BatchesFull(j)'
      <3>1. \A c \in Batches' : batches'[c].status # "deleted" /\ ~HalfWritten(j, c) =>
              /\ c \in Batches /\ batches[c].status # "deleted" /\ ~HalfWritten(k, c)
              /\ batches'[c].total = batches[c].total /\ LinesOf(c)' = LinesOf(c)
        BY <1>2, <1>4, <1>6, <1>8, <1>10 DEF HalfWritten
      <3>2. QED
        BY <2>0, <3>1, FullKept
    <2>3. FilesWhole'
      <3>1. \A f \in DOMAIN files : files[f].batch \in Batches /\ files[f].batch # b
        BY <1>1, <2>0 DEF FilesWhole, Types
      <3>2. \A f \in DOMAIN files : \A l \in LinesOf(files[f].batch) : lines'[l].payable = lines[l].payable
        BY <1>1, <1>4, <3>1, WithoutWrites DEF LinesOf
      <3>3. QED
        BY <1>1, <1>4, <1>10, <2>0, <3>1, <3>2, FilesKept
    <2>4. PlanHolds(j)'
      BY <1>6 DEF PlanHolds, Writing
    <2>5. BatchHolds(j)'
      <3>1. LinesOf(j.batch)' = {} /\ batches'[j.batch].status = "draft"
        BY <1>4, <1>6, <1>10, <2>0
      <3>2. QED
        BY <1>6, <3>1 DEF BatchHolds
    <2>6. QED
      BY <2>1, <2>2, <2>3, <2>4, <2>5 DEF Tidy
  <1>14. clean' => CleanOK'
    <2>1. j.at = "idle" => j = Idle
      BY <1>6
    <2>2. QED
      BY <1>2, <1>4, <1>6, <1>7, <1>13, <2>1, CleanGo
  <1>15. QED
    BY <1>9, <1>11, <1>12, <1>14 DEF IInv

LEMMA DeletingBatch ==
  ASSUME IInv, NEW w \in Workers, DeleteBatch(w)
  PROVE  IInv'
  <1>1. Types /\ Unlinked /\ LinksLead
    BY DEF IInv
  <1>2. PICK k \in JobRow : k = work[w] /\ k.at = "del_batch" /\ JobOK(k)
    BY <1>1, TypeFacts DEF DeleteBatch, At
  <1>3. PICK b \in Batches : b = k.batch
    BY <1>2 DEF JobOK
  <1>4. /\ lines' = Without(b) /\ NotReferred(b) /\ ~At(w, "idle")
        /\ UNCHANGED <<payables, mandates, files>>
        /\ batches' = [batches EXCEPT ![b].status = "deleted"]
        /\ Go(w, Idle) /\ work' = [work EXCEPT ![w] = Idle] /\ clean' = clean
    BY <1>2, <1>3 DEF DeleteBatch, At, Done, Go
  <1>5. /\ batches' \in Seq(BatchRow) /\ Batches' = Batches
        /\ \A c \in Batches : c # b => batches'[c] = batches[c]
        /\ batches'[b].status = "deleted"
    <2>1. Batches = 1 .. Len(batches) /\ Len(batches) \in Nat /\ \A c \in Batches : batches[c] \in BatchRow
      BY <1>1, TypeFacts
    <2>2. PICK n \in Nat : n = Len(batches) /\ Batches = 1 .. n
      BY <2>1
    <2>3. Batches' = Batches
      BY <1>4 DEF Batches
    <2>4. \A c \in Batches : /\ c # b => batches'[c] = batches[c]
                             /\ c = b => batches'[c] \in BatchRow /\ batches'[c].status = "deleted"
      BY <1>4, <2>1 DEF BatchRow, Batches
    <2>5. \A c \in Batches : batches'[c] \in BatchRow
      BY <2>1, <2>4
    <2>6. batches' \in [1 .. n -> BatchRow]
      BY <1>4, <2>2, <2>5 DEF Batches
    <2>7. QED
      BY <2>3, <2>4, <2>6, ListIsSeq
  <1>6. Mandates' = Mandates
    BY <1>4 DEF Mandates
  <1>7. /\ Grows /\ LinksLead'
        /\ \A l \in Lines : Live(l)' => Live(l) /\ lines[l].batch # b /\ lines'[l] = lines[l]
        /\ \A l \in Lines' : lines'[l].mandate # 0 => lines'[l].mandate \in Mandates /\ mandates[lines'[l].mandate]
    BY <1>1, <1>4, <1>5, Emptying
  <1>8. /\ lines' \in Seq(LineRow) /\ Lines' = Lines /\ Len(lines') = Len(lines)
        /\ \A c \in Batches : c # b => LinesOf(c)' = LinesOf(c)
    BY <1>1, <1>4, WithoutWrites
  <1>9. Types'
    <2>1. work' \in [Workers -> JobRow] /\ \A v \in Workers : JobOK(work[v])'
      BY <1>1, <1>4, <1>7, IdleFacts, TypesWork
    <2>2. \A l \in Lines' : Live(l)' => lines'[l].batch \in Batches' /\ batches'[lines'[l].batch].status # "deleted"
      <3>1. ASSUME NEW l \in Lines, Live(l)'
            PROVE  lines'[l].batch \in Batches' /\ batches'[lines'[l].batch].status # "deleted"
        <4>1. Live(l) /\ lines[l].batch # b /\ lines'[l] = lines[l]
          BY <1>7, <3>1
        <4>2. lines[l].batch \in Batches /\ batches[lines[l].batch].status # "deleted"
          BY <1>1, <4>1 DEF Types
        <4>3. QED
          BY <1>5, <4>1, <4>2
      <3>2. QED
        BY <1>8, <3>1
    <2>3. QED
      BY <1>1, <1>4, <1>5, <1>6, <1>7, <1>8, <2>1, <2>2 DEF Types
  <1>10. Unlinked'
    BY <1>1, <1>4 DEF Unlinked, Payables
  <1>11. ASSUME Tidy(k) PROVE Tidy(Idle)'
    <2>0. LinesLinked(k) /\ BatchesFull(k) /\ FilesWhole /\ batches[b].status = "draft"
      BY <1>2, <1>3, <1>11 DEF Tidy, BatchHolds
    <2>1. LinesLinked(Idle)'
      <3>1. \A l \in Lines : Live(l)' /\ lines'[l].payable # 0 =>
              lines'[l].payable \in Payables /\ payables[lines'[l].payable].line = l
        BY <1>2, <1>7, <2>0 DEF LinesLinked
      <3>2. QED
        BY <1>4, <1>8, <3>1 DEF LinesLinked, Payables
    <2>2. BatchesFull(Idle)'
      <3>1. \A c \in Batches' : batches'[c].status # "deleted" /\ ~HalfWritten(Idle, c) =>
              /\ c \in Batches /\ batches[c].status # "deleted" /\ ~HalfWritten(k, c)
              /\ batches'[c].total = batches[c].total /\ LinesOf(c)' = LinesOf(c)
        BY <1>3, <1>5, <1>8 DEF HalfWritten
      <3>2. QED
        BY <2>0, <3>1, FullKept
    <2>3. FilesWhole'
      <3>1. \A f \in DOMAIN files : files[f].batch \in Batches /\ files[f].batch # b
        BY <1>1, <2>0 DEF FilesWhole, Types
      <3>2. \A f \in DOMAIN files : \A l \in LinesOf(files[f].batch) : lines'[l].payable = lines[l].payable
        BY <1>1, <1>4, <3>1, WithoutWrites DEF LinesOf
      <3>3. QED
        BY <1>1, <1>4, <1>5, <1>8, <2>0, <3>1, <3>2, FilesKept
    <2>4. PlanHolds(Idle)' /\ BatchHolds(Idle)'
      BY IdleFacts DEF PlanHolds, BatchHolds, Writing
    <2>5. QED
      BY <2>1, <2>2, <2>3, <2>4 DEF Tidy
  <1>12. clean' => CleanOK'
    BY <1>2, <1>4, <1>11, IdleFacts, CleanGo
  <1>13. QED
    BY <1>7, <1>9, <1>10, <1>12 DEF IInv

----------------------------------------------------------------------------------
(* The invariant. *)

LEMMA InitIInv == Init => IInv
  <1> SUFFICES ASSUME Init PROVE IInv
    OBVIOUS
  <1>1. << >> \in Seq(PayableRow) /\ << >> \in Seq(BatchRow) /\ << >> \in Seq(LineRow)
        /\ << >> \in Seq(BOOLEAN) /\ << >> \in Seq(FileRow)
    BY EmptySeq
  <1>2. DOMAIN << >> = {} /\ Len(<< >>) = 0
    BY EmptySeq
  <1>3. Payables = {} /\ Batches = {} /\ Lines = {} /\ Mandates = {} /\ DOMAIN files = {}
    BY <1>2 DEF Init, Payables, Batches, Lines, Mandates
  <1>4. work \in [Workers -> JobRow] /\ \A w \in Workers : work[w] = Idle
    BY IdleFacts DEF Init
  <1>5. MaxLines \in Nat
    BY PaymentsAssumption
  <1>6. Types
    BY <1>1, <1>2, <1>3, <1>4, <1>5, IdleFacts DEF Init, Types
  <1>7. Unlinked /\ LinksLead
    BY <1>3 DEF Unlinked, LinksLead
  <1>8. Tidy(Idle)
    BY <1>3, IdleFacts DEF Tidy, LinesLinked, BatchesFull, FilesWhole, PlanHolds, BatchHolds
  <1>9. CleanOK
    BY <1>4, <1>8, IdleFacts DEF CleanOK, At
  <1>10. QED
    BY <1>6, <1>7, <1>9 DEF IInv

LEMMA StutterIInv == IInv /\ UNCHANGED vars => IInv'
  <1> SUFFICES ASSUME IInv, UNCHANGED vars PROVE IInv'
    OBVIOUS
  <1>1. UNCHANGED <<tables, files>> /\ UNCHANGED <<payables, batches, lines, mandates, files, work, clean>>
    BY DEF vars, tables
  <1>2. Types /\ Unlinked /\ LinksLead
    BY DEF IInv
  <1>3. Types'
    <2>1. Grows
      BY <1>1 DEF Grows, Batches, Mandates, Lines, Live
    <2>2. \A w \in Workers : work[w] \in JobRow /\ JobOK(work[w])
      BY <1>2, TypeFacts
    <2>3. ASSUME NEW w \in Workers PROVE JobOK(work[w])'
      <3>1. PICK k \in JobRow : k = work[w] /\ JobOK(k)
        BY <2>2
      <3>2. JobOK(k)' /\ work'[w] = k
        BY <1>1, <2>1, <3>1, JobsKept
      <3>3. QED
        BY <3>2
    <2>4. QED
      BY <1>1, <1>2, <2>3 DEF Types, Batches, Lines, Mandates, Live
  <1>4. Unlinked' /\ LinksLead'
    BY <1>1, <1>2, SameInvariants
  <1>5. ASSUME clean' PROVE CleanOK'
    <2>1. CleanOK
      BY <1>1, <1>5 DEF IInv
    <2>2. ASSUME NEW w \in Workers, ~At(w, "idle")'
          PROVE  Tidy(work[w])' /\ \A v \in Workers : v # w => At(v, "idle")'
      <3>1. PICK k : k = work[w] /\ Tidy(k) /\ k = work'[w]
        BY <1>1, <2>1, <2>2 DEF CleanOK, At
      <3>2. Tidy(k)'
        BY <1>1, <3>1, TidySame
      <3>3. QED
        BY <1>1, <2>1, <2>2, <3>1, <3>2 DEF CleanOK, At
    <2>3. (\A w \in Workers : At(w, "idle"))' => Tidy(Idle)'
      BY <1>1, <2>1, TidySame DEF CleanOK, At
    <2>4. QED
      BY <2>2, <2>3 DEF CleanOK
  <1>6. QED
    BY <1>3, <1>4, <1>5 DEF IInv

LEMMA NextIInv == IInv /\ [Next]_vars => IInv'
  <1> SUFFICES ASSUME IInv, [Next]_vars PROVE IInv'
    OBVIOUS
  <1>1. CASE AddPayable
    BY <1>1, AddingPayable
  <1>2. CASE AddMandate
    BY <1>2, AddingMandate
  <1>3. CASE \E m \in Mandates : RemoveMandate(m)
    BY <1>3, RemovingMandate
  <1>4. CASE \E w \in Workers : Step(w)
    <2>1. PICK w \in Workers : Step(w)
      BY <1>4
    <2>2. CASE \E p \in Payables : PayCheck(w, p)
      BY <2>2, PayChecking
    <2>3. CASE \E order \in Orders : \E kind \in {"transfer", "direct_debit"} : CreateCheck(w, order, kind)
      BY <2>3, CreateChecking
    <2>4. CASE \E rows \in Sheets : CreateFromRows(w, rows)
      BY <2>4, ReadingRows
    <2>5. CASE \E b \in Batches : ExportCheck(w, b) \/ DeleteCheck(w, b)
      BY <2>5, ExportChecking, DeleteChecking
    <2>6. CASE PayWrite(w)
      BY <2>6, PayWriting
    <2>7. CASE InsertBatch(w)
      BY <2>7, BatchInserting
    <2>8. CASE InsertLine(w)
      BY <2>8, InsertingLine
    <2>9. CASE LinkPayable(w)
      BY <2>9, Linking
    <2>10. CASE ExportWrite(w)
      BY <2>10, ExportWriting
    <2>11. CASE Release(w)
      BY <2>11, Releasing
    <2>12. CASE DeleteLines(w)
      BY <2>12, DeletingLines
    <2>13. CASE DeleteBatch(w)
      BY <2>13, DeletingBatch
    <2>14. CASE CreateFails(w) \/ DeleteFails(w) \/ Crash(w)
      BY <2>14, Stopping
    <2>15. QED
      BY <2>1, <2>2, <2>3, <2>4, <2>5, <2>6, <2>7, <2>8, <2>9, <2>10, <2>11, <2>12, <2>13, <2>14 DEF Step
  <1>5. CASE UNCHANGED vars
    BY <1>5, StutterIInv
  <1>6. QED
    BY <1>1, <1>2, <1>3, <1>4, <1>5 DEF Next

LEMMA Invariance == Spec => []IInv
  BY InitIInv, NextIInv, PTL DEF Spec

----------------------------------------------------------------------------------
(* The theorems. *)

(***************************************************************************)
(* Every reachable state is of its type: in particular, a line's batch and *)
(* mandate exist, as the foreign keys want.                                *)
(***************************************************************************)
THEOREM TypeCorrect == Spec => []TypeOK
  <1>1. IInv => TypeOK
    <2> SUFFICES ASSUME IInv PROVE TypeOK
      OBVIOUS
    <2>1. Types
      BY DEF IInv
    <2>2. files \in Seq([batch : Batches, pays : Read])
      <3>1. \A f \in DOMAIN files : files[f] \in FileRow /\ files[f].batch \in Batches
        BY <2>1, ElementOfSeq, LenProperties DEF Types
      <3>2. \A f \in DOMAIN files : files[f] \in [batch : Batches, pays : Read]
        BY <3>1 DEF FileRow
      <3>3. PICK n \in Nat : n = Len(files) /\ DOMAIN files = 1 .. n /\ files = [f \in 1 .. n |-> files[f]]
        BY <2>1, LenProperties DEF Types
      <3>4. files \in [1 .. n -> [batch : Batches, pays : Read]]
        BY <3>2, <3>3
      <3>5. QED
        BY <3>4, ListIsSeq
    <2>3. ASSUME NEW w \in Workers
          PROVE  /\ work[w].at \in {"idle", "pay", "batch", "line", "link", "export",
                                    "release", "del_lines", "del_batch"}
                 /\ work[w].plan \in Seq(Item) /\ work[w].pays \in Read
                 /\ work[w].at = "idle" => work[w] = Idle
                 /\ work[w].at \in {"line", "link", "export", "release", "del_lines", "del_batch"}
                      => work[w].batch \in Batches
      <3>1. PICK k \in JobRow : k = work[w] /\ JobOK(k)
        BY <2>1, TypeFacts
      <3>2. QED
        BY <3>1 DEF JobRow, JobOK
    <2>4. \A l \in Lines : /\ lines[l].batch # 0 => batches[lines[l].batch].status # "deleted"
                           /\ lines[l].mandate # 0 => mandates[lines[l].mandate]
      BY <2>1 DEF Types, Live
    <2>5. QED
      BY <2>1, <2>2, <2>3, <2>4 DEF TypeOK, Types, PayableRow, BatchRow, LineRow
  <1>2. QED
    BY <1>1, Invariance, PTL

LEMMA AtRest == IInv /\ clean => \E k : Tidy(k)
  BY DEF IInv, CleanOK

(***************************************************************************)
(* Commands that run one after the other to their end, none naming a       *)
(* payable twice, hand no payable to the bank twice: the lines of an       *)
(* exported batch are the lines their payables are linked to.              *)
(***************************************************************************)
THEOREM HandsOnce == Spec => []HandedOnce
  <1>1. IInv => HandedOnce
    <2> SUFFICES ASSUME IInv, clean, NEW p \in Payables PROVE Cardinality(Handings(p)) <= 1
      BY DEF HandedOnce
    <2>1. PICK k : Tidy(k)
      BY AtRest
    <2>2. LinesLinked(k) /\ FilesWhole /\ BatchHolds(k)
      BY <2>1 DEF Tidy
    <2>3. Types /\ p # 0
      BY TypeFacts DEF IInv
    <2>4. ASSUME NEW f \in DOMAIN files, NEW l \in DOMAIN files[f].pays, files[f].pays[l] = p
          PROVE  payables[p].line = l /\ lines[l].batch = files[f].batch
      <3>1. batches[files[f].batch].status = "exported" /\ l \in LinesOf(files[f].batch) /\ lines[l].payable = p
        BY <2>2, <2>4 DEF FilesWhole
      <3>2. l \in Lines /\ lines[l].batch = files[f].batch /\ Live(l)
        BY <2>3, <3>1, TypeFacts, SMTT(30) DEF LinesOf, Types, Live
      <3>3. ~(k.at = "del_lines" /\ k.batch = lines[l].batch)
        BY <2>2, <3>1, <3>2 DEF BatchHolds
      <3>4. ~(k.at = "link" /\ k.id = l)
        BY <2>2, <3>1, <3>2 DEF BatchHolds
      <3>5. QED
        BY <2>2, <2>3, <3>1, <3>2, <3>3, <3>4 DEF LinesLinked
    <2>5. ASSUME NEW x \in Handings(p), NEW y \in Handings(p) PROVE x = y
      <3>1. PICK f, l : f \in DOMAIN files /\ x = <<f, l>> /\ l \in DOMAIN files[f].pays /\ files[f].pays[l] = p
        BY DEF Handings
      <3>2. PICK g, i : g \in DOMAIN files /\ y = <<g, i>> /\ i \in DOMAIN files[g].pays /\ files[g].pays[i] = p
        BY DEF Handings
      <3>3. l = i /\ files[f].batch = files[g].batch
        BY <2>4, <3>1, <3>2
      <3>4. f = g
        BY <2>2, <3>1, <3>2, <3>3 DEF FilesWhole
      <3>5. QED
        BY <3>1, <3>2, <3>3, <3>4
    <2>6. CASE Handings(p) = {}
      BY <2>6, FS_EmptySet
    <2>7. CASE Handings(p) # {}
      <3>1. PICK x : Handings(p) = {x}
        BY <2>5, <2>7
      <3>2. Cardinality({x}) = 1
        BY FS_Singleton
      <3>3. QED
        BY <3>1, <3>2
    <2>8. QED
      BY <2>6, <2>7
  <1>2. QED
    BY <1>1, Invariance, PTL

(***************************************************************************)
(* Links lead to the lines that pay, whatever happens; and after commands  *)
(* as above a file has every payment of its batch, and a batch at rest has *)
(* all of its lines.                                                       *)
(***************************************************************************)
THEOREM BatchesAreWhole == Spec => []BatchesWhole
  <1>1. IInv => BatchesWhole
    <2> SUFFICES ASSUME IInv PROVE BatchesWhole
      OBVIOUS
    <2>1. LinksLead /\ Types
      BY DEF IInv
    <2>2. ASSUME clean, NEW f \in DOMAIN files
          PROVE  Cardinality(DOMAIN files[f].pays) = batches[files[f].batch].total
      <3>1. PICK k : Tidy(k)
        BY <2>2, AtRest
      <3>2. BatchesFull(k) /\ FilesWhole /\ BatchHolds(k)
        BY <3>1 DEF Tidy
      <3>3. batches[files[f].batch].status = "exported" /\ DOMAIN files[f].pays = LinesOf(files[f].batch)
        BY <3>2 DEF FilesWhole
      <3>4. files[f].batch \in Batches
        BY <2>1 DEF Types
      <3>5. ~HalfWritten(k, files[f].batch)
        BY <3>2, <3>3 DEF HalfWritten, BatchHolds
      <3>6. QED
        BY <3>2, <3>3, <3>4, <3>5 DEF BatchesFull
    <2>3. ASSUME clean, \A w \in Workers : At(w, "idle")
          PROVE  \A b \in Batches : batches[b].status # "deleted" => Cardinality(LinesOf(b)) = batches[b].total
      <3>1. BatchesFull(Idle)
        BY <2>3 DEF IInv, CleanOK, Tidy
      <3>2. QED
        BY <3>1, IdleFacts DEF BatchesFull, HalfWritten
    <2>4. QED
      BY <2>1, <2>2, <2>3 DEF BatchesWhole
  <1>2. QED
    BY <1>1, Invariance, PTL

LEMMA OnlyInsertAdds ==
  ASSUME IInv, [Next]_vars, NEW l \in Lines', l \notin Lines
  PROVE  \E w \in Workers : InsertLine(w)
  <1>1. ASSUME lines' = lines PROVE FALSE
    BY <1>1 DEF Lines
  <1>2. ASSUME NEW b, lines' = Without(b) PROVE FALSE
    BY <1>2 DEF Lines, Without
  <1>3. ASSUME NEW m, RemoveMandate(m) PROVE FALSE
    BY <1>3 DEF Lines, RemoveMandate
  <1>4. ~AddPayable /\ ~AddMandate /\ ~UNCHANGED vars
    BY <1>1 DEF AddPayable, AddMandate, vars
  <1>5. PICK w \in Workers : Step(w)
    BY <1>3, <1>4 DEF Next
  <1>6. /\ \A p \in Payables : ~PayCheck(w, p)
        /\ \A order \in Orders, kind \in {"transfer", "direct_debit"} : ~CreateCheck(w, order, kind)
        /\ \A rows \in Sheets : ~CreateFromRows(w, rows)
        /\ \A b \in Batches : ~ExportCheck(w, b) /\ ~DeleteCheck(w, b)
        /\ ~CreateFails(w) /\ ~DeleteFails(w) /\ ~Crash(w)
    BY <1>1 DEF PayCheck, CreateCheck, CreateFromRows, ExportCheck, DeleteCheck, CreateFails, DeleteFails,
                Crash, tables
  <1>7. ~PayWrite(w) /\ ~InsertBatch(w) /\ ~LinkPayable(w) /\ ~ExportWrite(w) /\ ~Release(w)
    BY <1>1 DEF PayWrite, InsertBatch, LinkPayable, ExportWrite, Release
  <1>8. ~DeleteLines(w) /\ ~DeleteBatch(w)
    BY <1>2 DEF DeleteLines, DeleteBatch
  <1>9. QED
    BY <1>5, <1>6, <1>7, <1>8 DEF Step

(***************************************************************************)
(* After commands as above a line marked RCUR is written only where        *)
(* another line already collects under the same mandate.                   *)
(***************************************************************************)
THEOREM CollectsInOrder == Spec => RecurringFollowsFirst
  <1>1. ASSUME IInv, [Next]_vars
        PROVE  [\A l \in DOMAIN lines' \ Lines :
                  clean /\ lines'[l].seq = "RCUR"
                    => \E j \in Lines : Live(j) /\ lines[j].mandate = lines'[l].mandate]_vars
    <2> SUFFICES ASSUME NEW l \in DOMAIN lines' \ Lines, clean, lines'[l].seq = "RCUR"
                 PROVE  \E j \in Lines : Live(j) /\ lines[j].mandate = lines'[l].mandate
      OBVIOUS
    <2>1. PICK w \in Workers : InsertLine(w)
      BY <1>1, OnlyInsertAdds DEF Lines
    <2>2. Types
      BY <1>1 DEF IInv
    <2>3. PICK k \in JobRow, n \in Nat : k = work[w] /\ k.at = "line" /\ 1 \in DOMAIN k.plan /\ Inserted(k, n)
      BY <2>1, <2>2, InsertWrites
    <2>4. l = n /\ lines'[n].mandate = k.plan[1].mandate /\ lines'[n].seq = k.plan[1].seq
      BY <2>3 DEF Inserted, Lines
    <2>5. PlanHolds(k)
      BY <1>1, <2>3 DEF IInv, CleanOK, At, Tidy
    <2>6. Collects(k.plan[1].mandate)
      BY <2>3, <2>4, <2>5 DEF PlanHolds, Writing
    <2>7. QED
      BY <2>4, <2>6 DEF Collects
  <1>2. QED
    BY <1>1, Invariance, PTL DEF Spec, RecurringFollowsFirst

----------------------------------------------------------------------------------
(* Days, months and years. *)

LEMMA MonthLasts ==
  ASSUME NEW y, NEW m
  PROVE  DaysInMonth(y, m) \in 28 .. 31
  BY DEF DaysInMonth

\* A date is its year, month and day.
LEMMA DateIs ==
  ASSUME NEW t \in Nat, IsDate(t)
  PROVE  /\ YearOf(t) \in Nat /\ MonthOf(t) \in 1 .. 12 /\ DayOf(t) \in 1 .. 31
         /\ DayOf(t) <= DaysInMonth(YearOf(t), MonthOf(t))
         /\ t = 10000 * YearOf(t) + 100 * MonthOf(t) + DayOf(t)
  <1>1. PICK h, d : h = t \div 100 /\ d = t % 100
    OBVIOUS
  <1>2. h \in Nat /\ d \in 0 .. 99 /\ t = 100 * h + d
    BY <1>1
  <1>3. PICK y, m : y = h \div 100 /\ m = h % 100
    OBVIOUS
  <1>4. y \in Nat /\ m \in 0 .. 99 /\ h = 100 * y + m
    BY <1>2, <1>3
  <1>5. DayOf(t) = d /\ MonthOf(t) = m
    BY <1>1, <1>3 DEF DayOf, MonthOf
  <1>6. YearOf(t) = y
    <2>1. PICK r : r = 100 * m + d
      OBVIOUS
    <2>2. r \in 0 .. 9999
      BY <1>2, <1>4, <2>1
    <2>3. t = 10000 * y + r
      BY <1>2, <1>4, <2>1
    <2>4. t \div 10000 = y
      BY ONLY <1>4, <2>2, <2>3
    <2>5. QED
      BY <2>4 DEF YearOf
  <1>7. m \in 1 .. 12 /\ d \in 1 .. DaysInMonth(y, m)
    BY <1>5, <1>6 DEF IsDate
  <1>8. DaysInMonth(y, m) \in 28 .. 31
    BY MonthLasts
  <1>9. PICK last \in 28 .. 31 : last = DaysInMonth(y, m)
    BY <1>8
  <1>10. d \in 1 .. 31 /\ d <= last
    BY <1>7, <1>9
  <1>11. t = 10000 * y + 100 * m + d
    BY <1>2, <1>4
  <1>12. QED
    BY <1>4, <1>5, <1>6, <1>7, <1>9, <1>10, <1>11

\* A date is in one month.
LEMMA MonthIs ==
  ASSUME NEW t \in Nat, IsDate(t), NEW y \in Int, NEW m \in 1 .. 12
  PROVE  Within(t, MonthBounds(y, m)) <=> y = YearOf(t) /\ m = MonthOf(t)
  <1>0. PICK a, b, d : a = YearOf(t) /\ b = MonthOf(t) /\ d = DayOf(t)
    OBVIOUS
  <1>1. /\ a \in Nat /\ b \in 1 .. 12 /\ d \in 1 .. 31 /\ d <= DaysInMonth(a, b)
        /\ t = 10000 * a + 100 * b + d
    BY <1>0, DateIs
  <1>2. PICK last \in 28 .. 31 : last = DaysInMonth(y, m)
    BY MonthLasts
  <1>3. Within(t, MonthBounds(y, m)) <=> 10000 * y + 100 * m + 1 <= t /\ t <= 10000 * y + 100 * m + last
    BY <1>2 DEF Within, MonthBounds, MonthEnd, YMD
  <1>4. CASE y = a /\ m = b
    <2>1. d <= last
      BY <1>1, <1>2, <1>4
    <2>2. 10000 * y + 100 * m + 1 <= t /\ t <= 10000 * y + 100 * m + last
      BY <1>1, <1>2, <1>4, <2>1
    <2>3. QED
      BY <1>0, <1>3, <1>4, <2>2
  <1>5. CASE ~(y = a /\ m = b)
    <2>1. ASSUME 10000 * y + 100 * m + 1 <= t, t <= 10000 * y + 100 * m + last
          PROVE  FALSE
      <3>1. y = a
        BY <1>1, <2>1
      <3>2. m = b
        BY <1>1, <2>1, <3>1
      <3>3. QED
        BY <1>5, <3>1, <3>2
    <2>2. QED
      BY <1>0, <1>3, <1>5, <2>1
  <1>6. QED
    BY <1>0, <1>1, <1>4, <1>5

\* The fiscal year lies in two calendar years.
LEMMA WindowIs ==
  /\ Window[1] \in Int /\ Window[2] \in Int
  /\ 10000 * (Year - 1) + 100 <= Window[1] /\ Window[2] < 10000 * Year + 10000
  <1>1. Year \in Nat \ {0} /\ Fye \in 101 .. 1231 /\ Window \in Int \X Int
    BY DaysAssumption
  <1>2. PICK m, d : m = Fye \div 100 /\ d = Fye % 100
    OBVIOUS
  <1>3. m \in 1 .. 12 /\ d \in 0 .. 99
    BY <1>1, <1>2
  <1>4. CASE Fye = 1231
    BY <1>1, <1>4 DEF Window, FiscalYearWindow, YMD
  <1>5. CASE Fye # 1231
    <2>1. Window = <<NextDay(Year - 1, m, d), 10000 * Year + Fye>>
      BY <1>2, <1>5 DEF Window, FiscalYearWindow
    <2>2. \/ NextDay(Year - 1, m, d) = YMD(Year - 1, m, d + 1)
          \/ m < 12 /\ NextDay(Year - 1, m, d) = YMD(Year - 1, m + 1, 1)
          \/ NextDay(Year - 1, m, d) = YMD(Year - 1 + 1, 1, 1)
      BY <1>1, <1>3, MonthLasts DEF NextDay
    <2>3. NextDay(Year - 1, m, d) >= 10000 * (Year - 1) + 100
      BY <1>1, <1>3, <2>2 DEF YMD
    <2>4. QED
      BY <1>1, <2>1, <2>3
  <1>6. QED
    BY <1>4, <1>5

\* Every entry has a date of the fiscal year.
LEMMA FactsDated ==
  ASSUME BooksTyped, NEW i \in Ids
  PROVE  /\ facts[i].date \in Nat /\ IsDate(facts[i].date) /\ Within(facts[i].date, Window)
         /\ YearOf(facts[i].date) \in Year - 1 .. Year
  <1>1. facts[i] \in FactRow /\ bounds \in Scenarios
    BY DEF BooksTyped, Ids
  <1>2. PICK t : t = facts[i].date
    OBVIOUS
  <1>3. t \in Int /\ IsDate(t) /\ Within(t, Window)
    <2>1. t \in bounds.days \/ t = Window[2]
      BY <1>1, <1>2 DEF FactRow
    <2>2. CASE t \in bounds.days
      BY <1>1, <2>2, DaysAssumption
    <2>3. CASE t = Window[2]
      BY <2>3, DaysAssumption, WindowIs DEF Within
    <2>4. QED
      BY <2>1, <2>2, <2>3
  <1>4. Window[1] <= t /\ t <= Window[2]
    BY <1>3 DEF Within
  <1>5. t \in Nat /\ 10000 * (Year - 1) + 100 <= t /\ t < 10000 * Year + 10000
    BY <1>3, <1>4, WindowIs, DaysAssumption
  <1>6. YearOf(t) \in Year - 1 .. Year
    <2>0. PICK y, m, d : y = YearOf(t) /\ m = MonthOf(t) /\ d = DayOf(t)
      OBVIOUS
    <2>1. y \in Nat /\ m \in 1 .. 12 /\ d \in 1 .. 31 /\ t = 10000 * y + 100 * m + d
      BY <1>3, <1>5, <2>0, DateIs
    <2>2. Year \in Nat \ {0}
      BY DaysAssumption
    <2>3. QED
      BY <1>5, <2>0, <2>1, <2>2
  <1>7. QED
    BY <1>2, <1>3, <1>5, <1>6


----------------------------------------------------------------------------------
(* What a set of entries earned. *)

\* What the result changes by an entry.
Earned == [i \in Ids |-> IF IsClosing(i) THEN 0 ELSE -SumOf([a \in Flow |-> entries[i].postings[a]])]

LEMMA OppositeSum ==
  ASSUME NEW S, IsFiniteSet(S), NEW f \in [S -> Int]
  PROVE  SumOf([x \in S |-> -f[x]]) = -SumOf(f) /\ SumOf(f) \in Int
  <1>1. PICK h : h = [x \in S |-> -f[x]]
    OBVIOUS
  <1>2. h \in [S -> Int] /\ \A x \in S : h[x] = -f[x]
    BY <1>1
  <1>3. SumOf(h) = -SumOf(f)
    BY <1>2, SumOpposite
  <1>4. QED
    BY <1>1, <1>3, SumTyped

LEMMA ShownIs ==
  ASSUME NEW rows \in [Flow -> Int]
  PROVE  /\ Shown(rows) \in [Flow -> Int]
         /\ \A a \in Income : Shown(rows)[a] = -rows[a]
         /\ \A a \in Flow \ Income : Shown(rows)[a] = rows[a]
  BY StatementsAssumption DEF Shown

LEMMA ResultIs ==
  ASSUME NEW rows \in [Flow -> Int]
  PROVE  ResultOf(rows) = -SumOf(rows) /\ ResultOf(rows) \in Int
  <1> DEFINE costs == Flow \ Income
  <1>1. /\ IsFiniteSet(Flow) /\ Income \in SUBSET Flow /\ costs \in SUBSET Flow
        /\ Income \cap costs = {} /\ Income \cup costs = Flow
    BY AccountsAre, StatementsAssumption
  <1>2. IsFiniteSet(Income) /\ IsFiniteSet(costs)
    BY <1>1, FS_Subset
  <1>3. PICK f, g : f = [a \in Income |-> rows[a]] /\ g = [a \in costs |-> rows[a]]
    OBVIOUS
  <1>4. f \in [Income -> Int] /\ g \in [costs -> Int]
    BY <1>1, <1>3
  <1>5. [a \in Income |-> Shown(rows)[a]] = [a \in Income |-> -f[a]]
    BY <1>3, ShownIs
  <1>6. [a \in Flow \ Income |-> Shown(rows)[a]] = g
    BY <1>3, ShownIs
  <1> HIDE DEF costs
  <1>7. SumOf([a \in Income |-> -f[a]]) = -SumOf(f) /\ SumOf(f) \in Int /\ SumOf(g) \in Int
    BY <1>2, <1>4, OppositeSum
  <1>8. Part(rows, Income \cup costs) = Part(rows, Income) + Part(rows, costs)
    BY <1>1, SumJoin
  <1>9. SumOf(rows) = SumOf(f) + SumOf(g)
    BY <1>1, <1>3, <1>8, PartAll DEF Part
  <1>10. ResultOf(rows) = -SumOf(f) - SumOf(g)
    BY <1>5, <1>6, <1>7 DEF ResultOf
  <1>11. QED
    BY <1>7, <1>9, <1>10

LEMMA PostingsInt ==
  ASSUME BooksTyped, NEW i \in Ids
  PROVE  /\ entries[i].postings \in [Accounts -> Int]
         /\ [a \in Flow |-> entries[i].postings[a]] \in [Flow -> Int]
         /\ SumOf([a \in Flow |-> entries[i].postings[a]]) \in Int
  <1>1. entries \in Seq(EntryRow)
    BY DEF BooksTyped, CloseTypeOK
  <1>2. entries[i].postings \in [Accounts -> Int]
    BY <1>1, RowsAre DEF EntryRow, Amounts
  <1>3. PICK f : f = [a \in Flow |-> entries[i].postings[a]]
    OBVIOUS
  <1>4. f \in [Flow -> Int]
    BY <1>2, <1>3, AccountsAre
  <1>5. SumOf(f) \in Int
    BY <1>4, AccountsAre, SumTyped
  <1>6. QED
    BY <1>2, <1>3, <1>4, <1>5

LEMMA EarnedTyped ==
  ASSUME BooksTyped
  PROVE  Earned \in [Ids -> Int] /\ IsFiniteSet(Ids)
  <1>1. IsFiniteSet(Ids)
    BY IdsFinite DEF BooksTyped, CloseTypeOK
  <1>2. \A i \in Ids : (IF IsClosing(i) THEN 0 ELSE -SumOf([a \in Flow |-> entries[i].postings[a]])) \in Int
    BY PostingsInt
  <1>3. QED
    BY <1>1, <1>2 DEF Earned

\* Rows of accounts, and the rows of the journal they sum over.
LEMMA FlowSwap ==
  ASSUME BooksTyped, NEW T \in SUBSET Ids, NEW rows, rows = [a \in Flow |-> AmountOn(a, T)]
  PROVE  /\ rows \in [Flow -> Int]
         /\ SumOf(rows) = SumOf([i \in T |-> SumOf([a \in Flow |-> entries[i].postings[a]])])
  <1>0. PICK F, row : /\ F = [i \in T |-> [a \in Flow |-> entries[i].postings[a]]]
                      /\ row = [i \in T |-> SumOf([a \in Flow |-> entries[i].postings[a]])]
    OBVIOUS
  <1>1. IsFiniteSet(T) /\ IsFiniteSet(Flow)
    BY AccountsAre, EarnedTyped, FS_Subset
  <1>2. F \in Table(T, Flow)
    BY <1>0, PostingsInt DEF Table
  <1>3. row \in [T -> Int] /\ \A i \in T : row[i] = SumOf(F[i])
    BY <1>0, PostingsInt
  <1>4. rows \in [Flow -> Int]
    BY AmountTyped, AccountsAre DEF BooksTyped, CloseTypeOK
  <1>5. ASSUME NEW a \in Flow
        PROVE  rows[a] = SumOf(Column(F, T, a))
    <2>1. Column(F, T, a) = [i \in T |-> entries[i].postings[a]]
      BY <1>0 DEF Column
    <2>2. QED
      BY <2>1 DEF AmountOn
  <1>6. SumOf(row) = SumOf(rows)
    BY <1>1, <1>2, <1>3, <1>4, <1>5, SumSwap
  <1>7. QED
    BY <1>0, <1>4, <1>6

LEMMA EarnedIs ==
  ASSUME BooksTyped, NEW S \in SUBSET Ids
  PROVE  /\ FlowOf(S) \in [Flow -> Int] /\ Part(Earned, S) \in Int
         /\ ResultOf(FlowOf(S)) = Part(Earned, S)
         /\ -SumOf(FlowOf(S)) = Part(Earned, S)
  <1> DEFINE T == {i \in S : ~IsClosing(i)}
  <1>0. PICK row, back : /\ row = [i \in T |-> SumOf([a \in Flow |-> entries[i].postings[a]])]
                         /\ back = [i \in S |-> Earned[i]]
    OBVIOUS
  <1>1. T \in SUBSET S /\ T \in SUBSET Ids /\ \A i \in S \ T : IsClosing(i)
    OBVIOUS
  <1>2. \A i \in T : ~IsClosing(i)
    OBVIOUS
  <1>3. FlowOf(S) = [a \in Flow |-> AmountOn(a, T)]
    BY DEF FlowOf
  <1> HIDE DEF T
  <1>4. FlowOf(S) \in [Flow -> Int] /\ SumOf(FlowOf(S)) = SumOf(row)
    BY <1>0, <1>1, <1>3, FlowSwap
  <1>5. IsFiniteSet(S) /\ IsFiniteSet(T) /\ Earned \in [Ids -> Int] /\ IsFiniteSet(Ids)
    BY <1>1, EarnedTyped, FS_Subset
  <1>6. row \in [T -> Int]
    BY <1>0, <1>1, PostingsInt
  <1>7. back \in [S -> Int] /\ \A i \in S \ T : back[i] = 0
    BY <1>0, <1>1, <1>5 DEF Earned
  <1>8. SumOf(back) = Part(back, T)
    BY <1>1, <1>5, <1>7, SumWhere
  <1>9. [i \in T |-> back[i]] = [i \in T |-> -row[i]]
    BY <1>0, <1>1, <1>2 DEF Earned
  <1>10. Part(back, T) = -SumOf(row) /\ SumOf(row) \in Int
    BY <1>5, <1>6, <1>9, OppositeSum DEF Part
  <1>11. Part(Earned, S) = SumOf(back)
    BY <1>0 DEF Part
  <1>12. QED
    BY <1>4, <1>8, <1>10, <1>11, ResultIs

\* The rows of a report are entries of the journal.
LEMMA PnlIs ==
  ASSUME BooksTyped, NEW window
  PROVE  Pnl(window) = Part(Earned, PostedIn(window)) /\ Pnl(window) \in Int
  BY PostedInIds, EarnedIs DEF Pnl

\* All entries are of the year.
LEMMA YearIsAll ==
  ASSUME BooksTyped
  PROVE  PostedIn(Window) = {i \in Ids : IsPosted(i)}
  BY FactsDated DEF PostedIn

LEMMA StatusAgrees ==
  ASSUME BooksTyped
  PROVE  YearEndStatus.result = Pnl(Window)
  <1>1. [a \in Flow |-> Net(a)] = FlowOf(PostedIn(Window))
    <2>1. {i \in PostedIn(Window) : ~IsClosing(i)} = {i \in Ids : IsPosted(i) /\ ~IsClosing(i)}
      BY YearIsAll
    <2>2. QED
      BY <2>1 DEF Net, FlowOf
  <1>2. PICK rows : rows = FlowOf(PostedIn(Window))
    OBVIOUS
  <1>3. YearEndStatus.result = -SumOf(rows)
    BY <1>1, <1>2 DEF YearEndStatus
  <1>4. QED
    BY <1>2, <1>3, PnlIs, PostedInIds, EarnedIs


----------------------------------------------------------------------------------
(* Months and cost centers. *)

LEMMA MonthsFinite == IsFiniteSet(FiscalMonths) /\ FiscalMonths \subseteq (Year - 1 .. Year) \X (1 .. 12)
  <1>1. Year \in Int /\ Year - 1 \in Int
    BY DaysAssumption
  <1>2. IsFiniteSet(Year - 1 .. Year) /\ IsFiniteSet(1 .. 12)
    <2>1. PICK y, z : y = Year - 1 /\ z = Year
      OBVIOUS
    <2>2. y \in Int /\ z \in Int
      BY <1>1, <2>1
    <2>3. IsFiniteSet(y .. z)
      BY ONLY <2>2, FS_Interval
    <2>4. IsFiniteSet(1 .. 12)
      <3>1. PICK a \in Int, b \in Int : a = 1 /\ b = 12
        OBVIOUS
      <3>2. IsFiniteSet(a .. b)
        BY ONLY <3>1, FS_Interval
      <3>3. QED
        BY <3>1, <3>2
    <2>5. QED
      BY <2>1, <2>3, <2>4
  <1>3. IsFiniteSet((Year - 1 .. Year) \X (1 .. 12))
    BY <1>2, FS_Product
  <1>4. FiscalMonths \subseteq (Year - 1 .. Year) \X (1 .. 12)
    BY DEF FiscalMonths
  <1>5. QED
    BY <1>3, <1>4, FS_Subset

\* The month an entry is dated in.
MonthFor(i) == <<YearOf(facts[i].date), MonthOf(facts[i].date)>>

LEMMA MonthFits ==
  ASSUME BooksTyped, NEW i \in Ids
  PROVE  /\ MonthFor(i) \in FiscalMonths
         /\ \A ym \in FiscalMonths : Within(facts[i].date, MonthBounds(ym[1], ym[2])) <=> ym = MonthFor(i)
  <1>1. PICK t : t = facts[i].date
    OBVIOUS
  <1>2. /\ t \in Nat /\ IsDate(t) /\ Within(t, Window) /\ YearOf(t) \in Year - 1 .. Year
    BY <1>1, FactsDated
  <1>3. MonthOf(t) \in 1 .. 12
    BY <1>2, DateIs
  <1>4. Year \in Nat
    BY DaysAssumption
  <1>5. ASSUME NEW y \in Year - 1 .. Year, NEW m \in 1 .. 12
        PROVE  Within(t, MonthBounds(y, m)) <=> <<y, m>> = MonthFor(i)
    <2>1. y \in Int
      BY <1>4
    <2>2. Within(t, MonthBounds(y, m)) <=> y = YearOf(t) /\ m = MonthOf(t)
      BY <1>2, <2>1, MonthIs
    <2>3. QED
      BY <1>1, <2>2 DEF MonthFor
  <1>6. MonthFor(i) \in FiscalMonths
    <2>1. PICK y \in Year - 1 .. Year, m \in 1 .. 12 : y = YearOf(t) /\ m = MonthOf(t)
      BY <1>2, <1>3
    <2>2. Within(t, MonthBounds(y, m)) /\ MonthFor(i) = <<y, m>>
      BY <1>1, <1>5, <2>1 DEF MonthFor
    <2>3. YMD(y, m, 1) <= t /\ t <= MonthEnd(y, m) /\ Window[1] <= t /\ t <= Window[2]
      BY <1>2, <2>2 DEF Within, MonthBounds
    <2>4. YMD(y, m, 1) \in Int /\ MonthEnd(y, m) \in Int /\ Window[1] \in Int /\ Window[2] \in Int
      BY <1>4, WindowIs, MonthLasts DEF YMD, MonthEnd
    <2>5. MonthEnd(y, m) >= Window[1] /\ YMD(y, m, 1) <= Window[2]
      BY <1>2, <2>3, <2>4
    <2>6. QED
      BY <2>2, <2>5 DEF FiscalMonths
  <1>7. ASSUME NEW ym \in FiscalMonths
        PROVE  Within(facts[i].date, MonthBounds(ym[1], ym[2])) <=> ym = MonthFor(i)
    <2>1. ym \in (Year - 1 .. Year) \X (1 .. 12)
      BY MonthsFinite
    <2>2. ym[1] \in Year - 1 .. Year /\ ym[2] \in 1 .. 12 /\ ym = <<ym[1], ym[2]>>
      BY <2>1
    <2>3. QED
      BY <1>1, <1>5, <2>2
  <1>8. QED
    BY <1>6, <1>7

\* The months of the year, and what each of them shows.
CloseOf(ym) == MonthClose(ym[1], ym[2])

LEMMA CloseShows ==
  ASSUME BooksTyped, NEW ym \in FiscalMonths
  PROVE  /\ CloseOf(ym).month = MonthBounds(ym[1], ym[2])
         /\ CloseOf(ym).drafts = {i \in Ids : IsDraft(i) /\ ym = MonthFor(i)}
         /\ CloseOf(ym).profit = Part(Earned, {i \in PostedIn(Window) : ym = MonthFor(i)})
  <1>1. \A i \in Ids : Within(facts[i].date, MonthBounds(ym[1], ym[2])) <=> ym = MonthFor(i)
    BY MonthFits
  <1>2. PICK month : month = MonthBounds(ym[1], ym[2])
    OBVIOUS
  <1>3. PostedIn(month) = {i \in PostedIn(Window) : ym = MonthFor(i)}
    BY <1>1, <1>2, YearIsAll DEF PostedIn
  <1>4. PICK net : net = [a \in Accounts |-> AmountOn(a, {i \in PostedIn(month) : ~IsClosing(i)})]
    OBVIOUS
  <1>5. PICK rows : rows = FlowOf(PostedIn(month))
    OBVIOUS
  <1>6. [a \in Flow |-> -net[a]] = [a \in Flow |-> -rows[a]]
    BY <1>4, <1>5, AccountsAre DEF FlowOf
  <1>7. rows \in [Flow -> Int] /\ -SumOf(rows) = Part(Earned, PostedIn(month))
    BY <1>5, PostedInIds, EarnedIs
  <1>8. CloseOf(ym).profit = SumOf([a \in Flow |-> -net[a]])
    BY <1>2, <1>4 DEF CloseOf, MonthClose
  <1>9. SumOf([a \in Flow |-> -rows[a]]) = -SumOf(rows)
    BY <1>7, AccountsAre, OppositeSum
  <1>10. CloseOf(ym).profit = Part(Earned, PostedIn(month))
    BY <1>6, <1>7, <1>8, <1>9
  <1>11. /\ CloseOf(ym).month = MonthBounds(ym[1], ym[2])
         /\ CloseOf(ym).drafts = {i \in Ids : IsDraft(i) /\ Within(facts[i].date, MonthBounds(ym[1], ym[2]))}
    BY DEF CloseOf, MonthClose
  <1>12. QED
    BY <1>1, <1>3, <1>10, <1>11

\* Two months are not shown alike.
LEMMA ClosesDiffer ==
  ASSUME NEW x \in FiscalMonths, NEW y \in FiscalMonths, CloseOf(x).month = CloseOf(y).month
  PROVE  x = y
  <1>1. Year \in Nat /\ x \in (Year - 1 .. Year) \X (1 .. 12) /\ y \in (Year - 1 .. Year) \X (1 .. 12)
    BY DaysAssumption, MonthsFinite
  <1>2. PICK a, b, c, d : x = <<a, b>> /\ y = <<c, d>>
    BY <1>1
  <1>3. a \in Int /\ b \in 1 .. 12 /\ c \in Int /\ d \in 1 .. 12
    BY <1>1, <1>2
  <1>4. YMD(a, b, 1) = YMD(c, d, 1)
    <2>1. CloseOf(x).month = MonthBounds(a, b) /\ CloseOf(y).month = MonthBounds(c, d)
      BY <1>2 DEF CloseOf, MonthClose
    <2>2. \A u, v : MonthBounds(u, v)[1] = YMD(u, v, 1)
      BY DEF MonthBounds
    <2>3. MonthBounds(a, b) = MonthBounds(c, d)
      BY <2>1
    <2>4. YMD(a, b, 1) = MonthBounds(a, b)[1] /\ YMD(c, d, 1) = MonthBounds(c, d)[1]
      BY <2>2
    <2>5. QED
      BY <2>3, <2>4
  <1>5. 10000 * a + 100 * b = 10000 * c + 100 * d
    BY <1>3, <1>4 DEF YMD
  <1>6. a = c
    BY <1>3, <1>5
  <1>7. b = d
    BY <1>3, <1>5, <1>6
  <1>8. QED
    BY <1>2, <1>6, <1>7

Closes12 == {MonthClose(ym[1], ym[2]) : ym \in FiscalMonths}

LEMMA ClosesAre ==
  /\ Closes12 = {CloseOf(ym) : ym \in FiscalMonths} /\ IsFiniteSet(Closes12)
  <1>1. Closes12 = {CloseOf(ym) : ym \in FiscalMonths}
    BY DEF Closes12, CloseOf
  <1>2. PICK f : f = [ym \in FiscalMonths |-> CloseOf(ym)]
    OBVIOUS
  <1>3. IsFiniteSet({f[ym] : ym \in FiscalMonths})
    BY MonthsFinite, FiniteImage
  <1>4. {f[ym] : ym \in FiscalMonths} = {CloseOf(ym) : ym \in FiscalMonths}
    BY <1>2
  <1>5. QED
    BY <1>1, <1>3, <1>4

LEMMA MonthsAdd ==
  ASSUME BooksTyped
  PROVE  SumOf([c \in Closes12 |-> c.profit]) = Pnl(Window)
  <1>1. PICK S, f, key, totals : /\ S = PostedIn(Window) /\ f = [i \in S |-> Earned[i]]
                                 /\ key = [i \in S |-> CloseOf(MonthFor(i))]
                                 /\ totals = [c \in Closes12 |-> c.profit]
    OBVIOUS
  <1>2. S \in SUBSET Ids /\ IsFiniteSet(S) /\ f \in [S -> Int]
    BY <1>1, PostedInIds, EarnedTyped, FS_Subset
  <1>3. key \in [S -> Closes12]
    BY <1>1, <1>2, ClosesAre, MonthFits
  <1>4. ASSUME NEW c \in Closes12
        PROVE  totals[c] = Part(f, {i \in S : key[i] = c})
    <2>1. PICK ym \in FiscalMonths : c = CloseOf(ym)
      BY ClosesAre
    <2>2. \A i \in S : key[i] = c <=> ym = MonthFor(i)
      <3> SUFFICES ASSUME NEW i \in S, key[i] = c
                   PROVE  ym = MonthFor(i)
        BY <1>1, <2>1
      <3>1. MonthFor(i) \in FiscalMonths /\ CloseOf(MonthFor(i)) = CloseOf(ym)
        BY <1>1, <1>2, <2>1, MonthFits
      <3>2. QED
        BY <3>1, ClosesDiffer
    <2>3. {i \in S : key[i] = c} = {i \in PostedIn(Window) : ym = MonthFor(i)}
      BY <1>1, <2>2
    <2>4. PICK T : T = {i \in S : key[i] = c}
      OBVIOUS
    <2>5. c.profit = Part(Earned, T)
      BY <2>1, <2>3, <2>4, CloseShows
    <2>6. [i \in T |-> Earned[i]] = [i \in T |-> f[i]]
      BY <1>1, <2>4
    <2>7. QED
      BY <1>1, <2>4, <2>5, <2>6 DEF Part
  <1>5. DOMAIN totals = Closes12 /\ totals = [c \in Closes12 |-> totals[c]]
    BY <1>1
  <1>6. SumOf(totals) = SumOf(f)
    BY <1>2, <1>3, <1>4, <1>5, ClosesAre, SumSorted
  <1>7. QED
    BY <1>1, <1>6, PnlIs DEF Part

LEMMA DraftsAreListed ==
  ASSUME BooksTyped
  PROVE  UNION {c.drafts : c \in Closes12} = {i \in Ids : IsDraft(i)}
  <1>1. ASSUME NEW c \in Closes12
        PROVE  c.drafts \subseteq {i \in Ids : IsDraft(i)}
    BY <1>1, ClosesAre, CloseShows
  <1>2. ASSUME NEW i \in Ids, IsDraft(i)
        PROVE  \E c \in Closes12 : i \in c.drafts
    <2>1. MonthFor(i) \in FiscalMonths
      BY MonthFits
    <2>2. CloseOf(MonthFor(i)) \in Closes12 /\ i \in CloseOf(MonthFor(i)).drafts
      BY <1>2, <2>1, ClosesAre, CloseShows
    <2>3. QED
      BY <2>2
  <1>3. QED
    BY <1>1, <1>2

\* The debit and the credit side of nets that balance are equal.
LEMMA SidesEqual ==
  ASSUME NEW D, IsFiniteSet(D), NEW net \in [D -> Int]
  PROVE  /\ SumOf([a \in D |-> Positive(net[a])]) \in Int
         /\ SumOf([a \in D |-> Positive(-net[a])]) \in Int
         /\ SumOf([a \in D |-> Positive(net[a])]) = SumOf(net) + SumOf([a \in D |-> Positive(-net[a])])
  <1>1. PICK f, g : f = [a \in D |-> Positive(net[a])] /\ g = [a \in D |-> Positive(-net[a])]
    OBVIOUS
  <1>2. f \in [D -> Int] /\ g \in [D -> Int]
    BY <1>1 DEF Positive
  <1>3. \A a \in D : f[a] = net[a] + g[a]
    BY <1>1 DEF Positive
  <1>4. SumOf(f) = SumOf(net) + SumOf(g) /\ SumOf(f) \in Int /\ SumOf(g) \in Int
    BY <1>2, <1>3, SumPlus, SumTyped
  <1>5. QED
    BY <1>1, <1>4

LEMMA MonthsBalance ==
  ASSUME BooksTyped, PostedBalances, NEW c \in Closes12
  PROVE  c.debit = c.credit
  <1>1. PICK ym \in FiscalMonths : c = MonthClose(ym[1], ym[2])
    BY DEF Closes12
  <1>2. PICK T : T = {i \in PostedIn(MonthBounds(ym[1], ym[2])) : ~IsClosing(i)}
    OBVIOUS
  <1>3. PICK net : net = [a \in Accounts |-> AmountOn(a, T)]
    OBVIOUS
  <1>4. T \in SUBSET Ids /\ \A i \in T : IsPosted(i)
    BY <1>2, PostedInIds
  <1>5. net \in [Accounts -> Int] /\ SumOf(net) = 0
    BY <1>3, <1>4, NetsBalance DEF BooksTyped, CloseTypeOK
  <1>6. /\ c.debit = SumOf([a \in Accounts |-> Positive(net[a])])
        /\ c.credit = SumOf([a \in Accounts |-> Positive(-net[a])])
    BY <1>1, <1>2, <1>3 DEF MonthClose
  <1>7. QED
    BY <1>5, <1>6, AccountsAre, SidesEqual

\* The centers of a year, and what each of them earned.
LEMMA CentersAdd ==
  ASSUME BooksTyped, NEW results,
         results = {<<c, CostCenters(Window)[c]>> : c \in DOMAIN CostCenters(Window)}
  PROVE  SumOf([r \in results |-> r[2]]) = Pnl(Window)
  <1>1. PICK S, f, C, all : /\ S = PostedIn(Window) /\ f = [i \in S |-> Earned[i]]
                            /\ C = CentersIn(S) /\ all = CostCenters(Window)
    OBVIOUS
  <1>2. S \in SUBSET Ids /\ IsFiniteSet(S) /\ f \in [S -> Int]
    BY <1>1, PostedInIds, EarnedTyped, FS_Subset
  <1>3. /\ all = [c \in C |-> ResultOf(FlowOf({i \in S : facts[i].center = c}))]
        /\ C = {facts[i].center : i \in S}
    BY <1>1 DEF CostCenters, CentersIn
  <1>4. ASSUME NEW c \in C
        PROVE  all[c] = Part(f, {i \in S : facts[i].center = c})
    <2>1. PICK T : T = {i \in S : facts[i].center = c}
      OBVIOUS
    <2>2. T \in SUBSET S /\ T \in SUBSET Ids
      BY <1>2, <2>1
    <2>3. all[c] = Part(Earned, T)
      BY <1>3, <2>1, <2>2, EarnedIs
    <2>4. [i \in T |-> Earned[i]] = [i \in T |-> f[i]]
      BY <1>1, <2>2
    <2>5. QED
      BY <2>1, <2>3, <2>4 DEF Part
  <1>5. results = {<<c, all[c]>> : c \in C}
    BY <1>1, <1>3
  <1>6. PICK key, totals : /\ key = [i \in S |-> <<facts[i].center, all[facts[i].center]>>]
                           /\ totals = [r \in results |-> r[2]]
    OBVIOUS
  <1>7. IsFiniteSet(results)
    <2>1. PICK g : g = [i \in S |-> <<facts[i].center, all[facts[i].center]>>]
      OBVIOUS
    <2>2. IsFiniteSet({g[i] : i \in S})
      BY <1>2, FiniteImage
    <2>3. {g[i] : i \in S} = results
      <3>1. ASSUME NEW r \in results
            PROVE  \E i \in S : r = g[i]
        <4>1. PICK c \in C : r = <<c, all[c]>>
          BY <1>5
        <4>2. PICK i \in S : c = facts[i].center
          BY <1>3
        <4>3. QED
          BY <2>1, <4>1, <4>2
      <3>2. ASSUME NEW i \in S
            PROVE  g[i] \in results
        <4>1. PICK c : c = facts[i].center
          OBVIOUS
        <4>2. c \in C /\ g[i] = <<c, all[c]>>
          BY <1>3, <2>1, <4>1
        <4>3. QED
          BY <1>5, <4>2
      <3>3. QED
        BY <3>1, <3>2
    <2>4. QED
      BY <2>2, <2>3
  <1>8. key \in [S -> results]
    BY <1>3, <1>5, <1>6
  <1>9. ASSUME NEW r \in results
        PROVE  totals[r] = Part(f, {i \in S : key[i] = r})
    <2>1. PICK c \in C : r = <<c, all[c]>>
      BY <1>5
    <2>2. {i \in S : key[i] = r} = {i \in S : facts[i].center = c}
      BY <1>6, <2>1
    <2>3. QED
      BY <1>4, <1>6, <2>1, <2>2
  <1>10. DOMAIN totals = results /\ totals = [r \in results |-> totals[r]]
    BY <1>6
  <1>11. SumOf(totals) = SumOf(f)
    BY ONLY <1>2, <1>7, <1>8, <1>9, <1>10, SumSorted
  <1>12. QED
    BY <1>1, <1>6, <1>11, PnlIs DEF Part

\* A table of entries: its debits and its credits are equal.
LEMMA TableBalances ==
  ASSUME BooksTyped, PostedBalances, NEW S \in SUBSET Ids, \A i \in S : IsPosted(i)
  PROVE  SumOf([i \in S |-> SumOf([a \in Accounts |-> Positive(1 * entries[i].postings[a])])])
           = SumOf([i \in S |-> SumOf([a \in Accounts |-> Positive((-1) * entries[i].postings[a])])])
  <1>1. ASSUME NEW i \in S
        PROVE  SumOf([a \in Accounts |-> Positive(1 * entries[i].postings[a])])
                 = SumOf([a \in Accounts |-> Positive((-1) * entries[i].postings[a])])
    <2>1. PICK l : l = entries[i].postings
      OBVIOUS
    <2>2. l \in [Accounts -> Int] /\ SumOf(l) = 0
      BY <2>1, PostingsInt DEF PostedBalances
    <2>3. /\ [a \in Accounts |-> Positive(1 * l[a])] = [a \in Accounts |-> Positive(l[a])]
          /\ [a \in Accounts |-> Positive((-1) * l[a])] = [a \in Accounts |-> Positive(-l[a])]
      <3>1. \A a \in Accounts : 1 * l[a] = l[a] /\ (-1) * l[a] = -l[a]
        BY <2>2
      <3>2. QED
        BY <3>1
    <2>4. SumOf([a \in Accounts |-> Positive(l[a])]) = SumOf([a \in Accounts |-> Positive(-l[a])])
      <3>1. PICK f, g : /\ f = SumOf([a \in Accounts |-> Positive(l[a])])
                        /\ g = SumOf([a \in Accounts |-> Positive(-l[a])])
        OBVIOUS
      <3>2. g \in Int /\ f = SumOf(l) + g
        BY <2>2, <3>1, AccountsAre, SidesEqual
      <3>3. f = g
        BY <2>2, <3>2
      <3>4. QED
        BY <3>1, <3>3
    <2>5. QED
      BY <2>1, <2>3, <2>4
  <1>2. [i \in S |-> SumOf([a \in Accounts |-> Positive(1 * entries[i].postings[a])])]
          = [i \in S |-> SumOf([a \in Accounts |-> Positive((-1) * entries[i].postings[a])])]
    BY <1>1
  <1>3. QED
    BY <1>2

LEMMA BalancesAgree ==
  ASSUME BooksTyped, PostedBalances
  PROVE  /\ TrialBalance(Window)[1] = TrialBalance(Window)[2]
         /\ \A y : FaiaEntries(y).debit = FaiaEntries(y).credit
  <1>1. \A window : SumOf([i \in PostedIn(window) |-> SumOf([a \in Accounts |-> Positive(1 * entries[i].postings[a])])])
           = SumOf([i \in PostedIn(window) |-> SumOf([a \in Accounts |-> Positive((-1) * entries[i].postings[a])])])
    BY PostedInIds, TableBalances
  <1>2. TrialBalance(Window)[1] = TrialBalance(Window)[2]
    BY <1>1 DEF TrialBalance
  <1>3. ASSUME NEW y
        PROVE  FaiaEntries(y).debit = FaiaEntries(y).credit
    BY <1>1 DEF FaiaEntries
  <1>4. QED
    BY <1>2, <1>3


----------------------------------------------------------------------------------
(* The annual accounts. *)

LEMMA SumThree ==
  ASSUME NEW S, IsFiniteSet(S), NEW f \in [S -> Int], NEW x \in S, NEW y \in S, NEW z \in S,
         x # y, x # z, y # z, NEW rest, rest = S \ {x, y, z}
  PROVE  SumOf(f) = f[x] + f[y] + f[z] + SumOf([s \in rest |-> f[s]])
  <1>1. /\ rest \in SUBSET S /\ x \notin rest
        /\ rest \cup {x} \in SUBSET S /\ y \notin rest \cup {x}
        /\ (rest \cup {x}) \cup {y} \in SUBSET S /\ z \notin (rest \cup {x}) \cup {y}
        /\ ((rest \cup {x}) \cup {y}) \cup {z} = S
    OBVIOUS
  <1>2. PICK A, B : A = rest \cup {x} /\ B = A \cup {y}
    OBVIOUS
  <1>3. A \in SUBSET S /\ y \notin A /\ B \in SUBSET S /\ z \notin B /\ B \cup {z} = S
    BY <1>1, <1>2
  <1>4. Part(f, A) = f[x] + Part(f, rest) /\ Part(f, B) = f[y] + Part(f, A)
    BY <1>1, <1>2, <1>3, PartMore
  <1>5. Part(f, S) = f[z] + Part(f, B)
    BY <1>3, PartMore
  <1>6. Part(f, S) = SumOf(f) /\ Part(f, rest) \in Int
    BY <1>1, PartAll, PartIs
  <1>7. f[x] \in Int /\ f[y] \in Int /\ f[z] \in Int
    OBVIOUS
  <1>8. SumOf(f) = f[x] + f[y] + f[z] + Part(f, rest)
    BY <1>4, <1>5, <1>6, <1>7
  <1>9. QED
    BY <1>8 DEF Part

PnlSectionKeys == PnlGroups \cup {"Overig"}

LineKeys == PnlLines \cup {"Overig"}

LEMMA KeysAre ==
  /\ IsFiniteSet(PnlSectionKeys) /\ IsFiniteSet(LineKeys)
  /\ RevenueLines \subseteq PnlGroups /\ RevenueLines \subseteq PnlLines /\ "Overig" \notin RevenueLines
  <1>1. IsFiniteSet(PnlSectionKeys) /\ IsFiniteSet(LineKeys)
    BY GroupsFinite, FS_AddElement DEF PnlSectionKeys, LineKeys
  <1>2. QED
    BY <1>1 DEF RevenueLines, PnlGroups, PnlLines

LEMMA KleinLines ==
  ASSUME NEW rows \in [Flow -> Int]
  PROVE  /\ PnlSections(rows) \in [PnlSectionKeys -> Int]
         /\ ByLines(PnlSections(rows), PnlLines) \in [LineKeys -> Int]
  <1>1. Shown(rows) \in [Flow -> Int] /\ IsFiniteSet(Flow)
    BY ShownIs, AccountsAre
  <1>2. PICK sections : sections = PnlSections(rows)
    OBVIOUS
  <1>3. sections \in [PnlSectionKeys -> Int]
    BY <1>1, <1>2, GroupsFinite, SectionsTotal DEF PnlSections, PnlSectionKeys
  <1>4. ByLines(sections, PnlLines) \in [LineKeys -> Int]
    BY <1>3, GroupsFinite, KeysAre, LinesTotal DEF LineKeys
  <1>5. QED
    BY <1>2, <1>3, <1>4

\* The aggregates and the lines.
LEMMA KleinAdds ==
  ASSUME NEW rows \in [Flow -> Int], NEW klein, klein = Klein(rows)
  PROVE  klein.omzet + klein.overige - klein.inkoop - klein.kosten = StatutoryResult(rows)
  <1>1. PICK ruled, signed, rest : /\ ruled = ByLines(PnlSections(rows), PnlLines)
                                   /\ signed = [l \in LineKeys |-> IF l \in RevenueLines THEN ruled[l] ELSE -ruled[l]]
                                   /\ rest = LineKeys \ {"WOMZ.80", "WOVB.82", "WKPR.70"}
    OBVIOUS
  <1>2. ruled \in [LineKeys -> Int] /\ signed \in [LineKeys -> Int] /\ DOMAIN ruled = LineKeys
    BY <1>1, KleinLines
  <1>3. StatutoryResult(rows) = SumOf(signed)
    BY <1>1, <1>2 DEF StatutoryResult
  <1>4. "WOMZ.80" \in LineKeys /\ "WOVB.82" \in LineKeys /\ "WKPR.70" \in LineKeys
    BY DEF LineKeys, PnlLines
  <1>5. SumOf(signed) = signed["WOMZ.80"] + signed["WOVB.82"] + signed["WKPR.70"] + SumOf([l \in rest |-> signed[l]])
    <2>1. PICK x, y, z : x = "WOMZ.80" /\ y = "WOVB.82" /\ z = "WKPR.70"
      OBVIOUS
    <2>2. x \in LineKeys /\ y \in LineKeys /\ z \in LineKeys /\ x # y /\ x # z /\ y # z /\ rest = LineKeys \ {x, y, z}
      BY <1>1, <1>4, <2>1
    <2>3. SumOf(signed) = signed[x] + signed[y] + signed[z] + SumOf([l \in rest |-> signed[l]])
      BY <1>2, <2>2, KeysAre, SumThree
    <2>4. QED
      BY <2>1, <2>3
  <1>6. /\ signed["WOMZ.80"] = ruled["WOMZ.80"] /\ signed["WOVB.82"] = ruled["WOVB.82"]
        /\ signed["WKPR.70"] = -ruled["WKPR.70"]
    BY <1>1, <1>4 DEF RevenueLines
  <1>7. PICK costs : costs = [l \in rest |-> ruled[l]]
    OBVIOUS
  <1>8. costs \in [rest -> Int] /\ IsFiniteSet(rest)
    BY <1>1, <1>2, <1>7, KeysAre, FS_Subset
  <1>9. [l \in rest |-> signed[l]] = [l \in rest |-> -costs[l]]
    BY <1>1, <1>7 DEF RevenueLines
  <1>10. SumOf([l \in rest |-> signed[l]]) = -SumOf(costs) /\ SumOf(costs) \in Int
    BY <1>8, <1>9, OppositeSum
  <1>11. /\ klein.omzet = ruled["WOMZ.80"] /\ klein.overige = ruled["WOVB.82"]
         /\ klein.inkoop = ruled["WKPR.70"] /\ klein.kosten = SumOf(costs)
    BY <1>1, <1>2, <1>7 DEF Klein
  <1>12. ruled["WOMZ.80"] \in Int /\ ruled["WOVB.82"] \in Int /\ ruled["WKPR.70"] \in Int
    BY <1>2, <1>4
  <1>13. QED
    BY <1>3, <1>5, <1>6, <1>10, <1>11, <1>12

\* What a line or a section shows with its sign.
Signed(amounts, k) == IF k \in RevenueLines THEN amounts[k] ELSE -amounts[k]

LEMMA SignedLines ==
  ASSUME NEW sections \in [PnlSectionKeys -> Int],
         NEW h, h = [g \in PnlSectionKeys |-> Signed(sections, g)],
         NEW ruled, ruled = ByLines(sections, PnlLines),
         NEW signed, signed = [l \in LineKeys |-> Signed(ruled, l)]
  PROVE  signed = ByLines(h, PnlLines)
  <1> DEFINE of(l) == {g \in PnlSectionKeys : IF l = "Overig" THEN g \notin PnlLines ELSE g = l}
  <1>1. h \in [PnlSectionKeys -> Int] /\ DOMAIN h = PnlSectionKeys /\ DOMAIN sections = PnlSectionKeys
    BY DEF Signed
  <1>2. ruled = [l \in LineKeys |-> SumOf([g \in of(l) |-> sections[g]])]
    BY <1>1 DEF ByLines, LineKeys
  <1>3. ByLines(h, PnlLines) = [l \in LineKeys |-> SumOf([g \in of(l) |-> h[g]])]
    BY <1>1 DEF ByLines, LineKeys
  <1>4. ASSUME NEW l \in LineKeys
        PROVE  signed[l] = SumOf([g \in of(l) |-> h[g]])
    <2>1. of(l) \in SUBSET PnlSectionKeys /\ IsFiniteSet(of(l))
      BY KeysAre, FS_Subset
    <2>2. \A g \in of(l) : g \in RevenueLines <=> l \in RevenueLines
      BY KeysAre
    <2>3. PICK T, f : T = of(l) /\ f = [g \in T |-> sections[g]]
      OBVIOUS
    <2> HIDE DEF of
    <2>4. f \in [T -> Int] /\ IsFiniteSet(T)
      BY <2>1, <2>3
    <2>5. ruled[l] = SumOf(f)
      BY <1>2, <2>3
    <2>6. CASE l \in RevenueLines
      <3>1. [g \in T |-> h[g]] = f
        BY <2>1, <2>2, <2>3, <2>6 DEF Signed
      <3>2. signed[l] = ruled[l]
        BY <2>6 DEF Signed
      <3>3. QED
        BY <2>3, <2>5, <3>1, <3>2
    <2>7. CASE l \notin RevenueLines
      <3>1. [g \in T |-> h[g]] = [g \in T |-> -f[g]]
        BY <2>1, <2>2, <2>3, <2>7 DEF Signed
      <3>2. signed[l] = -ruled[l]
        BY <2>7 DEF Signed
      <3>3. SumOf([g \in T |-> -f[g]]) = -SumOf(f)
        BY <2>4, OppositeSum
      <3>4. QED
        BY <2>3, <2>5, <3>1, <3>2, <3>3
    <2>8. QED
      BY <2>6, <2>7
  <1> HIDE DEF of
  <1>5. QED
    BY <1>3, <1>4

\* Amounts by the line they come on.
ByKind(amounts) == [a \in Flow |-> IF Taxonomy(a) \in RevenueLines THEN amounts[a] ELSE -amounts[a]]

LEMMA SignedSections ==
  ASSUME NEW amounts \in [Flow -> Int], NEW sections, sections = Sectionize(PnlGroups, Flow, amounts),
         NEW h, h = [g \in PnlSectionKeys |-> Signed(sections, g)],
         NEW byKind, byKind = ByKind(amounts)
  PROVE  h = Sectionize(PnlGroups, Flow, byKind)
  <1> DEFINE of(g) == {a \in Flow : IF g = "Overig" THEN Taxonomy(a) \notin PnlGroups ELSE Taxonomy(a) = g}
  <1>1. /\ sections = [g \in PnlSectionKeys |-> SumOf([a \in of(g) |-> amounts[a]])]
        /\ Sectionize(PnlGroups, Flow, byKind) = [g \in PnlSectionKeys |-> SumOf([a \in of(g) |-> byKind[a]])]
    BY DEF Sectionize, PnlSectionKeys
  <1>2. ASSUME NEW g \in PnlSectionKeys
        PROVE  h[g] = SumOf([a \in of(g) |-> byKind[a]])
    <2>1. of(g) \in SUBSET Flow /\ IsFiniteSet(of(g))
      BY AccountsAre, FS_Subset
    <2>2. \A a \in of(g) : Taxonomy(a) \in RevenueLines <=> g \in RevenueLines
      BY KeysAre
    <2>3. PICK T, f : T = of(g) /\ f = [a \in T |-> amounts[a]]
      OBVIOUS
    <2> HIDE DEF of
    <2>4. f \in [T -> Int] /\ IsFiniteSet(T)
      BY <2>1, <2>3
    <2>5. sections[g] = SumOf(f)
      BY <1>1, <2>3
    <2>6. CASE g \in RevenueLines
      <3>1. [a \in T |-> byKind[a]] = f
        BY <2>1, <2>2, <2>3, <2>6 DEF ByKind
      <3>2. h[g] = sections[g]
        BY <2>6 DEF Signed
      <3>3. QED
        BY <2>3, <2>5, <3>1, <3>2
    <2>7. CASE g \notin RevenueLines
      <3>1. [a \in T |-> byKind[a]] = [a \in T |-> -f[a]]
        BY <2>1, <2>2, <2>3, <2>7 DEF ByKind
      <3>2. h[g] = -sections[g]
        BY <2>7 DEF Signed
      <3>3. SumOf([a \in T |-> -f[a]]) = -SumOf(f)
        BY <2>4, OppositeSum
      <3>4. QED
        BY <2>3, <2>5, <3>1, <3>2, <3>3
    <2>8. QED
      BY <2>6, <2>7
  <1> HIDE DEF of
  <1>3. QED
    BY <1>1, <1>2

\* The Dutch form shows the result, unless turnover is on an account it does not know.
LEMMA KleinResult ==
  ASSUME KindsAgree, NEW rows \in [Flow -> Int],
         \A a \in Income : Taxonomy(a) \in PnlLines \/ rows[a] = 0
  PROVE  StatutoryResult(rows) = ResultOf(rows)
  <1>1. PICK amounts, sections, h, byKind, ruled, signed :
          /\ amounts = Shown(rows) /\ sections = Sectionize(PnlGroups, Flow, amounts)
          /\ h = [g \in PnlSectionKeys |-> Signed(sections, g)]
          /\ byKind = ByKind(amounts)
          /\ ruled = ByLines(sections, PnlLines) /\ signed = [l \in LineKeys |-> Signed(ruled, l)]
    OBVIOUS
  <1>2. amounts \in [Flow -> Int] /\ sections = PnlSections(rows) /\ sections \in [PnlSectionKeys -> Int]
        /\ ruled \in [LineKeys -> Int]
    BY <1>1, ShownIs, KleinLines DEF PnlSections
  <1>3. h = Sectionize(PnlGroups, Flow, byKind) /\ signed = ByLines(h, PnlLines)
    <2>1. h = Sectionize(PnlGroups, Flow, byKind)
      BY ONLY <1>1, <1>2, SignedSections
    <2>2. signed = ByLines(h, PnlLines)
      BY <1>1, <1>2, SignedLines
    <2>3. QED
      BY <2>1, <2>2
  <1>4. byKind \in [Flow -> Int] /\ h \in [PnlSectionKeys -> Int]
    BY <1>1, <1>2 DEF Signed, ByKind
  <1>5. SumOf(signed) = SumOf(h)
    BY <1>3, <1>4, GroupsFinite, KeysAre, LinesTotal DEF TotalOf
  <1>6. SumOf(h) = SumOf(byKind)
    <2>1. IsFiniteSet(Flow) /\ Flow \in SUBSET Flow /\ IsFiniteSet(PnlGroups) /\ "Overig" \notin PnlGroups
      BY AccountsAre, GroupsFinite
    <2>2. TotalOf(Sectionize(PnlGroups, Flow, byKind)) = Part(byKind, Flow)
      <3>1. PICK D, A, G : D = Flow /\ A = Flow /\ G = PnlGroups
        OBVIOUS
      <3>2. IsFiniteSet(D) /\ A \in SUBSET D /\ IsFiniteSet(G) /\ "Overig" \notin G /\ byKind \in [D -> Int]
        BY <1>4, <2>1, <3>1
      <3>3. TotalOf(Sectionize(G, A, byKind)) = Part(byKind, A)
        BY ONLY <3>2, SectionsTotal
      <3>4. QED
        BY <3>1, <3>3
    <2>3. QED
      BY <1>3, <1>4, <2>2, PartAll DEF TotalOf
  <1>7. byKind = [a \in Flow |-> -rows[a]]
    <2>1. ASSUME NEW a \in Flow
          PROVE  byKind[a] = -rows[a]
      <3>1. rows[a] \in Int /\ byKind[a] = IF Taxonomy(a) \in RevenueLines THEN amounts[a] ELSE -amounts[a]
        BY <1>1 DEF ByKind
      <3>2. CASE a \in Income
        <4>1. amounts[a] = -rows[a] /\ (Taxonomy(a) \in PnlLines => Taxonomy(a) \in RevenueLines)
          BY <1>1, <3>2, ShownIs DEF KindsAgree
        <4>2. QED
          BY <3>1, <3>2, <4>1
      <3>3. CASE a \notin Income
        <4>1. amounts[a] = rows[a] /\ Taxonomy(a) \notin RevenueLines
          BY <1>1, <3>3, ShownIs, KeysAre DEF KindsAgree
        <4>2. QED
          BY <3>1, <4>1
      <3>4. QED
        BY <3>2, <3>3
    <2>2. QED
      BY <1>1, <2>1 DEF ByKind
  <1>8. SumOf(byKind) = -SumOf(rows)
    BY <1>7, AccountsAre, OppositeSum
  <1>9. StatutoryResult(rows) = SumOf(signed)
    <2>1. DOMAIN ruled = LineKeys
      BY <1>2
    <2>2. ruled = ByLines(PnlSections(rows), PnlLines)
      BY <1>1, <1>2
    <2>3. signed = [l \in DOMAIN ruled |-> IF l \in RevenueLines THEN ruled[l] ELSE -ruled[l]]
      BY <1>1, <2>1 DEF Signed
    <2>4. QED
      BY <2>2, <2>3 DEF StatutoryResult
  <1>10. QED
    BY <1>5, <1>6, <1>8, <1>9, ResultIs

\* The Luxembourg form shows the result.
LEMMA LscShows ==
  ASSUME KindsAgree, NEW rows \in [Flow -> Int]
  PROVE  LscResult(rows) = ResultOf(rows)
  <1>1. PICK shown, opp, ruled, net : /\ shown = Shown(rows) /\ opp = Opposite(rows)
                                      /\ ruled = ByPrefixes(LscPnl, Flow, shown)
                                      /\ net = ByPrefixes(LscPnl, Flow, opp)
    OBVIOUS
  <1>2. IsFiniteSet(Flow) /\ Flow \in SUBSET Flow /\ Disjoint(LscPnl)
    BY AccountsAre, StatementsAssumption DEF Disjoint
  <1>3. shown \in [Flow -> Int] /\ opp \in [Flow -> Int] /\ Part(opp, Flow) = -Part(rows, Flow)
    BY <1>1, <1>2, ShownIs, OppositePart
  <1>4. net \in [LscPnl \cup {Autres} -> Int] /\ TotalOf(net) = Part(opp, Flow)
    BY <1>1, <1>2, <1>3, PrefixesTotal
  <1>5. Autres \notin LscPnl
    BY StatementsAssumption DEF Autres
  <1>6. ASSUME NEW l \in LscPnl
        PROVE  l.sign * ruled[l] = net[l]
    <2>1. l # Autres /\ l.accounts \subseteq Flow /\ l.sign \in {1, -1}
      BY <1>5, StatementsAssumption
    <2>2. PICK T, f, g : T = l.accounts \cap Flow /\ f = [a \in T |-> shown[a]] /\ g = [a \in T |-> opp[a]]
      OBVIOUS
    <2>3. T \subseteq Flow /\ IsFiniteSet(T) /\ f \in [T -> Int] /\ g \in [T -> Int]
      BY <1>2, <1>3, <2>2, FS_Subset
    <2>4. ruled[l] = SumOf(f) /\ net[l] = SumOf(g)
      BY <1>1, <2>1, <2>2 DEF ByPrefixes
    <2>5. ASSUME NEW a \in T
          PROVE  g[a] = l.sign * f[a]
      <3>1. a \in Flow /\ l.sign = (IF a \in Income THEN 1 ELSE -1) /\ rows[a] \in Int
        BY <2>2 DEF KindsAgree
      <3>2. f[a] = (IF a \in Income THEN -rows[a] ELSE rows[a]) /\ g[a] = -rows[a]
        BY <1>1, <2>2, <3>1 DEF Shown, Opposite
      <3>3. QED
        BY <3>1, <3>2
    <2>6. l.sign \in Int
      BY <2>1
    <2>7. SumOf(g) = l.sign * SumOf(f)
      <3>1. PICK c : c = l.sign
        OBVIOUS
      <3>2. SumOf(g) = c * SumOf(f)
        BY <2>3, <2>5, <2>6, <3>1, SumScaled
      <3>3. QED
        BY <3>1, <3>2
    <2>8. QED
      BY <2>4, <2>7
  <1>7. PICK signed : signed = [l \in LscPnl |-> l.sign * ruled[l]]
    OBVIOUS
  <1>8. (LscPnl \cup {Autres}) \ {Autres} = LscPnl
    BY <1>5
  <1>9. signed = [l \in LscPnl |-> net[l]]
    BY <1>6, <1>7
  <1>10. SumOf(net) = net[Autres] + SumOf(signed)
    <2>1. PICK K, x : K = LscPnl \cup {Autres} /\ x = Autres
      OBVIOUS
    <2>2. IsFiniteSet(K) /\ x \in K /\ net \in [K -> Int] /\ K \ {x} = LscPnl
      BY <1>2, <1>4, <1>8, <2>1, FS_AddElement DEF Disjoint
    <2>3. SumOf(net) = net[x] + SumOf([l \in K \ {x} |-> net[l]])
      BY <2>2, SumLess
    <2>4. QED
      BY <1>9, <2>1, <2>2, <2>3
  <1>11. net[Autres] \in Int /\ SumOf(signed) \in Int
    <2>1. signed \in [LscPnl -> Int]
      BY <1>4, <1>9
    <2>2. QED
      BY <1>2, <1>4, <2>1, SumTyped DEF Disjoint
  <1>12. LscResult(rows) = SumOf(signed) + net[Autres]
    BY <1>1, <1>7 DEF LscResult
  <1>13. QED
    BY <1>3, <1>4, <1>10, <1>11, <1>12, ResultIs, PartAll DEF TotalOf

LEMMA StatutoryFits ==
  ASSUME KindsAgree, BooksTyped, PostedBalances
  PROVE  StatutoryAgrees
  <1>1. PICK rows, klein : rows = FlowOf(PostedIn(Window)) /\ klein = Klein(rows)
    OBVIOUS
  <1>2. rows \in [Flow -> Int] /\ Pnl(Window) = ResultOf(rows)
    BY <1>1, PostedInIds, EarnedIs DEF Pnl
  <1>3. LscResult(rows) = ResultOf(rows)
    BY <1>2, LscShows
  <1>4. klein.omzet + klein.overige - klein.inkoop - klein.kosten = StatutoryResult(rows)
    BY <1>1, <1>2, KleinAdds
  <1>5. (\A a \in Income : Taxonomy(a) \in PnlLines \/ rows[a] = 0) => StatutoryResult(rows) = ResultOf(rows)
    BY <1>2, KleinResult
  <1>6. QED
    BY <1>1, <1>2, <1>3, <1>4, <1>5, StatusAgrees, BalancesAgree DEF StatutoryAgrees


----------------------------------------------------------------------------------
(* Audit files: an entry laid out as bookings of one account against another. *)

\* k and the number before it.
Follows(f, n, k, i) == n \in Nat /\ f \in [1 .. n -> Int] /\ k \in 1 .. n /\ i = k - 1

LEMMA PartStep ==
  ASSUME NEW f, NEW n, NEW k, NEW i, Follows(f, n, k, i)
  PROVE  /\ Part(f, 1 .. k) = f[k] + Part(f, 1 .. i)
         /\ Part(f, 1 .. i) \in Int /\ f[k] \in Int
  <1>0. n \in Nat /\ f \in [1 .. n -> Int] /\ k \in 1 .. n /\ i = k - 1
    BY DEF Follows
  <1>1. i \in Nat /\ k \in Nat /\ k = i + 1 /\ k <= n
    BY <1>0
  <1>2. (1 .. i) \in SUBSET (1 .. n) /\ k \notin 1 .. i
    <2>1. n \in Nat /\ \A x \in 1 .. i : x \in 1 .. n /\ x # k
      BY <1>0, <1>1
    <2>2. QED
      BY <2>1
  <1>3. (1 .. i) \cup {k} = 1 .. k
    BY <1>1
  <1>4. IsFiniteSet(1 .. n)
    BY <1>0, FS_Interval
  <1>5. PICK S, s, x : S = 1 .. n /\ s = 1 .. i /\ x = k
    OBVIOUS
  <1>6. IsFiniteSet(S) /\ f \in [S -> Int] /\ s \in SUBSET S /\ x \in S /\ x \notin s
    BY <1>0, <1>2, <1>4, <1>5
  <1>7. Part(f, s \cup {x}) = f[x] + Part(f, s)
    BY ONLY <1>6, PartMore
  <1>8. Part(f, s) \in Int /\ f[x] \in Int
    BY ONLY <1>6, PartIs
  <1>9. QED
    BY <1>3, <1>5, <1>7, <1>8

LEMMA Telescopes ==
  ASSUME NEW m, m \in Nat, NEW v, v \in [0 .. m -> Int], NEW d, d \in [1 .. m -> Int],
         \A k \in 1 .. m : d[k] = v[k] - v[k - 1]
  PROVE  SumOf(d) = v[m] - v[0]
  <1> DEFINE W == {k \in 0 .. m : Part(d, 1 .. k) # v[k] - v[0]}
  <1>1. IsFiniteSet(1 .. m)
    BY FS_Interval
  <1>2. W = {}
    <2> SUFFICES ASSUME W # {}
                 PROVE  FALSE
      OBVIOUS
    <2>1. W \in SUBSET Nat
      OBVIOUS
    <2>2. PICK k : k \in W /\ \A i \in W : k <= i
      <3> HIDE DEF W
      <3>1. QED
        BY <2>1, LeastNumber
    <2>3. k \in 0 .. m /\ Part(d, 1 .. k) # v[k] - v[0]
      BY <2>2
    <2>4. k # 0
      <3>1. Part(d, 1 .. 0) = 0
        <4>1. 1 .. 0 = {}
          OBVIOUS
        <4>2. QED
          BY <4>1, PartEmpty
      <3>2. v[0] \in Int
        OBVIOUS
      <3>3. QED
        BY <2>3, <3>1, <3>2
    <2>5. PICK i : i = k - 1
      OBVIOUS
    <2>6. i \in 0 .. m /\ k \in 1 .. m /\ i \notin W
      BY <2>2, <2>3, <2>4, <2>5
    <2>7. Part(d, 1 .. i) = v[i] - v[0]
      BY <2>6
    <2>10. d[k] = v[k] - v[i] /\ v[k] \in Int /\ v[i] \in Int /\ v[0] \in Int
      BY <2>5, <2>6
    <2>11. Part(d, 1 .. k) = d[k] + Part(d, 1 .. i)
      <3> HIDE DEF W
      <3>1. Follows(d, m, k, i)
        BY <2>5, <2>6 DEF Follows
      <3>2. /\ Part(d, 1 .. k) = d[k] + Part(d, 1 .. i)
            /\ Part(d, 1 .. i) \in Int /\ d[k] \in Int
        BY ONLY <3>1, PartStep
      <3>3. QED
        BY <3>2
    <2>12. QED
      BY <2>3, <2>7, <2>10, <2>11
  <1>3. Part(d, 1 .. m) = v[m] - v[0]
    <2>1. m \in 0 .. m
      OBVIOUS
    <2>2. m \notin W
      <3> HIDE DEF W
      <3>1. QED
        BY <1>2
    <2>3. QED
      BY <2>1, <2>2
  <1>4. QED
    BY <1>3, PartAll

Lesser(x, y) == IF x <= y THEN x ELSE y

Greater(x, y) == IF x >= y THEN x ELSE y

LEMMA TwoOf ==
  ASSUME NEW x \in Int, NEW y \in Int
  PROVE  Min({x, y}) = Lesser(x, y) /\ Max({x, y}) = Greater(x, y)
  <1>1. Lesser(x, y) \in {x, y} /\ \A z \in {x, y} : Lesser(x, y) <= z
    BY DEF Lesser
  <1>2. Greater(x, y) \in {x, y} /\ \A z \in {x, y} : Greater(x, y) >= z
    BY DEF Greater
  <1>3. Min({x, y}) \in {x, y} /\ \A z \in {x, y} : Min({x, y}) <= z
    BY <1>1 DEF Min
  <1>4. Max({x, y}) \in {x, y} /\ \A z \in {x, y} : Max({x, y}) >= z
    BY <1>2 DEF Max
  <1>5. PICK a, b : a = Min({x, y}) /\ b = Max({x, y})
    OBVIOUS
  <1>6. (a = x \/ a = y) /\ a <= x /\ a <= y /\ (b = x \/ b = y) /\ b >= x /\ b >= y
    BY <1>3, <1>4, <1>5
  <1>7. a = Lesser(x, y) /\ b = Greater(x, y)
    BY <1>6 DEF Lesser, Greater
  <1>8. QED
    BY <1>5, <1>7

\* A stretch of a line cut at the ends of others: its pieces add up to it.
Overlaid(m, c, lo, hi, piece, K) ==
  /\ m \in Nat /\ c \in [0 .. m -> Int] /\ \A k \in 1 .. m : c[k - 1] <= c[k]
  /\ lo \in Int /\ hi \in Int /\ lo <= hi /\ c[0] <= lo /\ hi <= c[m]
  /\ piece \in [1 .. m -> Int]
  /\ \A k \in 1 .. m : piece[k] = Lesser(hi, c[k]) - Greater(lo, c[k - 1])
  /\ K = {k \in 1 .. m : piece[k] > 0}

LEMMA Overlays ==
  ASSUME NEW m, NEW c, NEW lo, NEW hi, NEW piece, NEW K, Overlaid(m, c, lo, hi, piece, K)
  PROVE  Part(piece, K) = hi - lo
  <1>0. /\ m \in Nat /\ c \in [0 .. m -> Int] /\ \A k \in 1 .. m : c[k - 1] <= c[k]
        /\ lo \in Int /\ hi \in Int /\ lo <= hi /\ c[0] <= lo /\ hi <= c[m]
        /\ piece \in [1 .. m -> Int]
        /\ \A k \in 1 .. m : piece[k] = Lesser(hi, c[k]) - Greater(lo, c[k - 1])
        /\ K = {k \in 1 .. m : piece[k] > 0}
    BY DEF Overlaid
  <1> DEFINE clamp(x) == IF x < lo THEN lo ELSE IF x > hi THEN hi ELSE x
  <1>1. PICK v, d : v = [k \in 0 .. m |-> clamp(c[k])] /\ d = [k \in 1 .. m |-> Positive(piece[k])]
    OBVIOUS
  <1>2. v \in [0 .. m -> Int] /\ d \in [1 .. m -> Int]
    BY <1>0, <1>1 DEF Positive
  <1>3. ASSUME NEW k \in 1 .. m
        PROVE  d[k] = v[k] - v[k - 1]
    <2>0. k - 1 \in 0 .. m /\ k \in 0 .. m
      BY <1>0
    <2>1. PICK x \in Int, y \in Int : x = c[k - 1] /\ y = c[k]
      BY <1>0, <2>0
    <2>2. x <= y /\ piece[k] = Lesser(hi, y) - Greater(lo, x)
      BY <1>0, <2>1
    <2>3. d[k] = Positive(piece[k]) /\ v[k] = clamp(y) /\ v[k - 1] = clamp(x)
      BY <1>0, <1>1, <2>0, <2>1
    <2>4. Positive(Lesser(hi, y) - Greater(lo, x)) = clamp(y) - clamp(x)
      BY <1>0, <2>1, <2>2 DEF Positive, Lesser, Greater
    <2>5. QED
      BY <2>2, <2>3, <2>4
  <1>4. v[0] = lo /\ v[m] = hi
    BY <1>0, <1>1
  <1>5. SumOf(d) = hi - lo
    BY <1>0, <1>2, <1>3, <1>4, Telescopes
  <1>6. IsFiniteSet(1 .. m) /\ K \in SUBSET (1 .. m)
    BY <1>0, FS_Interval
  <1>7. \A k \in (1 .. m) \ K : d[k] = 0
    BY <1>0, <1>1 DEF Positive
  <1>8. SumOf(d) = Part(d, K)
    BY <1>2, <1>6, <1>7, SumWhere
  <1>9. [k \in K |-> d[k]] = [k \in K |-> piece[k]]
    BY <1>0, <1>1, <1>6 DEF Positive
  <1>10. QED
    BY <1>5, <1>8, <1>9 DEF Part

LEMMA SameCardinality == \A T : Seqs!Cardinality(T) = Cardinality(T)
  BY DEF Cardinality, Seqs!Cardinality

\* The legs in some order: each of them once.
LEMMA ListIs ==
  ASSUME NEW S, IsFiniteSet(S), NEW side, side = Seqs!SetToSeq(S), NEW n, n = Cardinality(S)
  PROVE  /\ n \in Nat /\ side \in [1 .. n -> S]
         /\ \A i, j \in 1 .. n : side[i] = side[j] => i = j
         /\ \A a \in S : \E j \in 1 .. n : side[j] = a
  <1>1. n \in Nat /\ ExistsBijection(1 .. n, S)
    BY FS_CardinalityType
  <1>2. PICK g : g \in Bijection(1 .. n, S)
    BY <1>1 DEF ExistsBijection
  <1>3. g \in [1 .. n -> S] /\ \A i, j \in 1 .. n : g[i] = g[j] => i = j
    BY <1>2 DEF Bijection, Injection, IsInjective
  <1>4. Seqs!IsInjective(g)
    BY <1>3 DEF Seqs!IsInjective
  <1>5. side \in [1 .. n -> S] /\ Seqs!IsInjective(side)
    <2>1. \E f \in [1 .. Cardinality(S) -> S] : Seqs!IsInjective(f)
      BY <1>3, <1>4
    <2>2. side = CHOOSE f \in [1 .. Cardinality(S) -> S] : Seqs!IsInjective(f)
      BY SameCardinality DEF Seqs!SetToSeq
    <2>3. QED
      BY <2>1, <2>2
  <1>6. \A i, j \in 1 .. n : side[i] = side[j] => i = j
    BY <1>5 DEF Seqs!IsInjective
  <1>7. side \in Injection(1 .. n, S)
    BY <1>5, <1>6 DEF Injection, IsInjective
  <1>8. IsFiniteSet(1 .. n) /\ Cardinality(1 .. n) = n
    BY <1>1, FS_Interval
  <1>9. side \in Surjection(1 .. n, S)
    BY <1>7, <1>8, FS_Injection
  <1>10. \A a \in S : \E j \in 1 .. n : side[j] = a
    BY <1>9 DEF Surjection
  <1>11. QED
    BY <1>1, <1>5, <1>6, <1>10

Size(x) == IF x > 0 THEN x ELSE -x

\* Where the leg k of a side ends.
EndAt(l, side, k) == SumOf([j \in 1 .. k |-> IF l[side[j]] > 0 THEN l[side[j]] ELSE -l[side[j]]])

\* The n legs of a side are the accounts of S, one after another.
Laid(l, side, S, n) ==
  /\ n \in Nat /\ DOMAIN side = 1 .. n /\ \A j \in 1 .. n : side[j] \in S
  /\ \A i, j \in 1 .. n : side[i] = side[j] => i = j
  /\ \A a \in S : \E j \in 1 .. n : side[j] = a
  /\ EndAt(l, side, 0) = 0
  /\ \A k \in 0 .. n : EndAt(l, side, k) \in Int /\ 0 <= EndAt(l, side, k) /\ EndAt(l, side, k) <= EndAt(l, side, n)
  /\ \A k \in 1 .. n : EndAt(l, side, k) = EndAt(l, side, k - 1) + Size(l[side[k]])
  /\ EndAt(l, side, n) = SumOf([a \in S |-> Size(l[a])])
  /\ \A a \in S : Size(l[a]) \in Int /\ Size(l[a]) > 0

LEMMA SideIs ==
  ASSUME NEW l \in [Accounts -> Int], NEW S \in SUBSET Accounts, \A a \in S : l[a] # 0,
         NEW side, side = Seqs!SetToSeq(S), NEW n, n = Cardinality(S)
  PROVE  Laid(l, side, S, n)
  <1>1. IsFiniteSet(S)
    BY AccountsAre, FS_Subset
  <1>2. /\ n \in Nat /\ side \in [1 .. n -> S]
        /\ \A i, j \in 1 .. n : side[i] = side[j] => i = j
        /\ \A a \in S : \E j \in 1 .. n : side[j] = a
    BY <1>1, ListIs
  <1>3. PICK w, f : w = [j \in 1 .. n |-> Size(l[side[j]])] /\ f = [a \in S |-> Size(l[a])]
    OBVIOUS
  <1>4. \A a \in S : Size(l[a]) \in Int /\ Size(l[a]) > 0
    BY DEF Size
  <1>5. w \in [1 .. n -> Int] /\ f \in [S -> Int] /\ \A j \in 1 .. n : w[j] > 0 /\ w[j] = f[side[j]]
    BY <1>2, <1>3, <1>4
  <1>6. IsFiniteSet(1 .. n)
    BY <1>2, FS_Interval
  <1>7. ASSUME NEW k \in 0 .. n
        PROVE  EndAt(l, side, k) = Part(w, 1 .. k) /\ (1 .. k) \in SUBSET (1 .. n)
    <2>1. (1 .. k) \in SUBSET (1 .. n)
      BY <1>2
    <2>2. [j \in 1 .. k |-> IF l[side[j]] > 0 THEN l[side[j]] ELSE -l[side[j]]] = [j \in 1 .. k |-> w[j]]
      BY <1>3, <2>1 DEF Size
    <2>3. QED
      BY <2>1, <2>2 DEF EndAt, Part
  <1>8. SumOf(w) = SumOf(f)
    <2>1. Renames(side, w, f, 1 .. n, S)
      BY <1>1, <1>2, <1>5, <1>6 DEF Renames
    <2>2. QED
      BY <2>1, SumRenamed
  <1>9. EndAt(l, side, n) = SumOf(w)
    BY <1>2, <1>5, <1>7, PartAll
  <1>10. ASSUME NEW k \in 0 .. n
         PROVE  EndAt(l, side, k) \in Int /\ 0 <= EndAt(l, side, k) /\ EndAt(l, side, k) <= EndAt(l, side, n)
    <2>1. PICK T, U : T = 1 .. n /\ U = 1 .. k
      OBVIOUS
    <2>2. IsFiniteSet(T) /\ w \in [T -> Int] /\ U \in SUBSET T /\ \A x \in T : w[x] > 0
      BY <1>5, <1>6, <1>7, <2>1
    <2>3. Part(w, U) \in Int /\ Part(w, U) >= 0 /\ Part(w, U) <= SumOf(w)
      BY <2>2, PartIs, PartPositive, PartBelow
    <2>4. SumOf(w) \in Int
      BY <2>2, SumTyped
    <2>5. QED
      BY <1>7, <1>9, <2>1, <2>3, <2>4
  <1>11. EndAt(l, side, 0) = 0
    <2>1. 1 .. 0 = {} /\ 0 \in 0 .. n
      BY <1>2
    <2>2. QED
      BY <1>7, <2>1, PartEmpty
  <1>12. ASSUME NEW k \in 1 .. n
         PROVE  EndAt(l, side, k) = EndAt(l, side, k - 1) + Size(l[side[k]])
    <2>1. PICK i : i = k - 1
      OBVIOUS
    <2>2. i \in 0 .. n /\ k \in 0 .. n
      BY <1>2, <2>1
    <2>3. Part(w, 1 .. k) = w[k] + Part(w, 1 .. i) /\ Part(w, 1 .. i) \in Int /\ w[k] \in Int
      <3>1. Follows(w, n, k, i)
        BY <1>2, <1>5, <2>1 DEF Follows
      <3>2. QED
        BY <3>1, PartStep
    <2>4. EndAt(l, side, k) = Part(w, 1 .. k) /\ EndAt(l, side, i) = Part(w, 1 .. i)
      BY <1>7, <2>2
    <2>5. QED
      BY <1>3, <2>1, <2>3, <2>4
  <1>13. QED
    BY <1>2, <1>3, <1>4, <1>8, <1>9, <1>10, <1>11, <1>12 DEF Laid


\* Rebooking.
Debits(l) == Seqs!SetToSeq({a \in Accounts : 1 * l[a] > 0})

Credits(l) == Seqs!SetToSeq({a \in Accounts : (-1) * l[a] > 0})

PieceAt(l, j, k) ==
  Min({EndAt(l, Debits(l), j), EndAt(l, Credits(l), k)})
    - Max({EndAt(l, Debits(l), j - 1), EndAt(l, Credits(l), k - 1)})

BookedAt(l, j, k) == [rekening |-> Debits(l)[j], tegenrekening |-> Credits(l)[k], bedrag |-> PieceAt(l, j, k)]

LEMMA BoekingenAre ==
  ASSUME NEW l
  PROVE  Boekingen(l) = {BookedAt(l, x[1], x[2]) :
                           x \in {x \in (DOMAIN Debits(l)) \X (DOMAIN Credits(l)) : PieceAt(l, x[1], x[2]) > 0}}
  BY DEF Boekingen, Debits, Credits, PieceAt, BookedAt, EndAt

Owed(l) == {a \in Accounts : l[a] > 0}

Owing(l) == {a \in Accounts : l[a] < 0}

\* The two sides of an entry that balances are as long.
LEMMA SidesMeet ==
  ASSUME NEW l \in [Accounts -> Int], SumOf(l) = 0
  PROVE  \E n, m : /\ Laid(l, Debits(l), Owed(l), n) /\ Laid(l, Credits(l), Owing(l), m)
                   /\ EndAt(l, Debits(l), n) = EndAt(l, Credits(l), m)
  <1>1. {a \in Accounts : 1 * l[a] > 0} = Owed(l) /\ {a \in Accounts : (-1) * l[a] > 0} = Owing(l)
    BY DEF Owed, Owing
  <1>2. PICK P, N : P = Owed(l) /\ N = Owing(l)
    OBVIOUS
  <1>3. Debits(l) = Seqs!SetToSeq(P) /\ Credits(l) = Seqs!SetToSeq(N)
    BY <1>1, <1>2 DEF Debits, Credits
  <1>4. /\ P \in SUBSET Accounts /\ N \in SUBSET Accounts /\ P \cap N = {}
        /\ (\A a \in P : l[a] > 0) /\ (\A a \in N : l[a] < 0)
        /\ \A a \in Accounts \ (P \cup N) : l[a] = 0
    BY <1>2 DEF Owed, Owing
  <1>5. PICK n, m : n = Cardinality(P) /\ m = Cardinality(N)
    OBVIOUS
  <1>6. (\A a \in P : l[a] # 0) /\ (\A a \in N : l[a] # 0)
    BY <1>4
  <1>7. Laid(l, Debits(l), P, n) /\ Laid(l, Credits(l), N, m)
    BY <1>3, <1>4, <1>5, <1>6, SideIs
  <1>8. EndAt(l, Debits(l), n) = SumOf([a \in P |-> Size(l[a])]) /\ EndAt(l, Credits(l), m) = SumOf([a \in N |-> Size(l[a])])
    BY <1>7 DEF Laid
  <1>9. [a \in P |-> Size(l[a])] = [a \in P |-> l[a]]
    BY <1>4 DEF Size
  <1>10. PICK f : f = [a \in N |-> l[a]]
    OBVIOUS
  <1>11. f \in [N -> Int] /\ IsFiniteSet(N)
    BY <1>4, <1>10, AccountsAre, FS_Subset
  <1>12. [a \in N |-> Size(l[a])] = [a \in N |-> -f[a]]
    BY <1>4, <1>10 DEF Size
  <1>13. SumOf([a \in N |-> -f[a]]) = -SumOf(f) /\ SumOf(f) \in Int
    BY <1>11, OppositeSum
  <1>14. IsFiniteSet(Accounts) /\ P \cup N \in SUBSET Accounts
    BY <1>4, AccountsAre
  <1>15. SumOf(l) = Part(l, P \cup N)
    BY <1>4, <1>14, SumWhere
  <1>16. Part(l, P \cup N) = Part(l, P) + Part(l, N) /\ Part(l, P) \in Int
    BY <1>4, <1>14, SumJoin, PartIs
  <1>17. EndAt(l, Debits(l), n) = Part(l, P) /\ EndAt(l, Credits(l), m) = -Part(l, N) /\ Part(l, N) \in Int
    BY <1>8, <1>9, <1>10, <1>12, <1>13 DEF Part
  <1>18. EndAt(l, Debits(l), n) = EndAt(l, Credits(l), m)
    BY <1>15, <1>16, <1>17
  <1>19. QED
    BY <1>2, <1>7, <1>18

\* The bookings of one account are the pieces its leg is cut into.
Pieces(m, piece, K, R, g) ==
  /\ m \in Nat /\ piece \in [1 .. m -> Int] /\ K = {k \in 1 .. m : piece[k] > 0}
  /\ R = {g[k] : k \in K} /\ (\A k \in K : g[k].bedrag = piece[k])
  /\ \A i, j \in K : g[i] = g[j] => i = j

LEMMA PiecesOfLeg ==
  ASSUME NEW m, NEW piece, NEW K, NEW R, NEW g, Pieces(m, piece, K, R, g)
  PROVE  SumOf([b \in R |-> b.bedrag]) = Part(piece, K)
  <1>0. /\ m \in Nat /\ piece \in [1 .. m -> Int] /\ K = {k \in 1 .. m : piece[k] > 0}
        /\ R = {g[k] : k \in K} /\ (\A k \in K : g[k].bedrag = piece[k])
        /\ \A i, j \in K : g[i] = g[j] => i = j
    BY DEF Pieces
  <1>1. IsFiniteSet(1 .. m) /\ K \in SUBSET (1 .. m)
    BY <1>0, FS_Interval
  <1>2. IsFiniteSet(K) /\ IsFiniteSet(R)
    <2>1. IsFiniteSet(K)
      BY <1>1, FS_Subset
    <2>2. IsFiniteSet({g[k] : k \in K})
      BY ONLY <2>1, FiniteImage
    <2>3. QED
      BY <1>0, <2>1, <2>2
  <1>3. PICK h, f, q : h = [k \in K |-> piece[k]] /\ f = [b \in R |-> b.bedrag] /\ q = [k \in K |-> g[k]]
    OBVIOUS
  <1>4. h \in [K -> Int] /\ q \in [K -> R]
    BY <1>0, <1>1, <1>3
  <1>5. f \in [R -> Int]
    BY <1>0, <1>1, <1>3
  <1>6. (\A k \in K : h[k] = f[q[k]]) /\ (\A i, j \in K : q[i] = q[j] => i = j) /\ (\A b \in R : \E k \in K : q[k] = b)
    BY <1>0, <1>3
  <1>7. Renames(q, h, f, K, R)
    BY <1>2, <1>4, <1>5, <1>6 DEF Renames
  <1>8. SumOf(h) = SumOf(f)
    BY <1>7, SumRenamed
  <1>9. QED
    BY <1>3, <1>8 DEF Part

Ends(l, side, n, c) ==
  /\ n \in Nat /\ c \in [0 .. n -> Int] /\ c[0] = 0
  /\ \A k \in 1 .. n : c[k - 1] <= c[k] /\ c[k] = c[k - 1] + Size(l[side[k]]) /\ Size(l[side[k]]) \in Int
  /\ \A k \in 0 .. n : 0 <= c[k] /\ c[k] <= c[n] /\ c[k] = EndAt(l, side, k)

LEMMA EndsAre ==
  ASSUME NEW l, NEW side, NEW S, NEW n, Laid(l, side, S, n)
  PROVE  \E c : Ends(l, side, n, c)
  <1>0. PICK c : c = [k \in 0 .. n |-> EndAt(l, side, k)]
    OBVIOUS
  <1>1. n \in Nat /\ c \in [0 .. n -> Int] /\ c[0] = 0
    BY <1>0 DEF Laid
  <1>2. \A k \in 0 .. n : c[k] = EndAt(l, side, k)
    BY <1>0
  <1>3. \A k \in 0 .. n : 0 <= c[k] /\ c[k] <= c[n]
    BY <1>1, <1>2 DEF Laid
  <1>4. ASSUME NEW k \in 1 .. n
        PROVE  c[k - 1] <= c[k] /\ c[k] = c[k - 1] + Size(l[side[k]]) /\ Size(l[side[k]]) \in Int
    <2>1. k \in 0 .. n /\ k - 1 \in 0 .. n
      BY <1>1
    <2>2. c[k] = c[k - 1] + Size(l[side[k]]) /\ side[k] \in S
      BY <1>2, <2>1 DEF Laid
    <2>3. Size(l[side[k]]) \in Int /\ Size(l[side[k]]) > 0
      BY <2>2 DEF Laid
    <2>4. c[k] \in Int /\ c[k - 1] \in Int
      BY <1>1, <2>1
    <2>5. QED
      BY <2>2, <2>3, <2>4
  <1>5. QED
    BY <1>1, <1>2, <1>3, <1>4 DEF Ends


\* What is debited: the leg of an account is cut by the legs of the other side.
LEMMA DebitsRebooked ==
  ASSUME NEW l, NEW P, NEW N, NEW n, NEW m,
         Laid(l, Debits(l), P, n), Laid(l, Credits(l), N, m), EndAt(l, Debits(l), n) = EndAt(l, Credits(l), m),
         NEW a, NEW R, R = {b \in Boekingen(l) : b.rekening = a}
  PROVE  SumOf([b \in R |-> b.bedrag]) = IF a \in P THEN Size(l[a]) ELSE 0
  <1>1. PICK D, C : D = Debits(l) /\ C = Credits(l)
    OBVIOUS
  <1>0. PICK u, c : Ends(l, D, n, u) /\ Ends(l, C, m, c)
    BY <1>1, EndsAre
  <1>2. /\ DOMAIN D = 1 .. n /\ DOMAIN C = 1 .. m /\ \A j \in 1 .. n : D[j] \in P
        /\ \A i, j \in 1 .. n : D[i] = D[j] => i = j
        /\ \A i, j \in 1 .. m : C[i] = C[j] => i = j
        /\ \A x \in P : \E j \in 1 .. n : D[j] = x
    BY <1>1 DEF Laid
  <1>3. Boekingen(l) = {BookedAt(l, x[1], x[2]) : x \in {x \in (1 .. n) \X (1 .. m) : PieceAt(l, x[1], x[2]) > 0}}
    BY <1>1, <1>2, BoekingenAre
  <1>4. \A j, k : BookedAt(l, j, k).rekening = D[j] /\ BookedAt(l, j, k).tegenrekening = C[k]
                  /\ BookedAt(l, j, k).bedrag = PieceAt(l, j, k)
    BY <1>1 DEF BookedAt
  <1>5. CASE a \notin P
    <2>1. R = {}
      BY <1>2, <1>3, <1>4, <1>5
    <2>2. SumOf([b \in R |-> b.bedrag]) = 0
      BY <2>1, SumEmpty
    <2>3. QED
      BY <1>5, <2>2
  <1>6. CASE a \in P
    <2>1. PICK j : j \in 1 .. n /\ D[j] = a
      BY <1>2, <1>6
    <2>2. PICK piece, K, g : /\ piece = [k \in 1 .. m |-> PieceAt(l, j, k)] /\ K = {k \in 1 .. m : piece[k] > 0}
                             /\ g = [k \in K |-> BookedAt(l, j, k)]
      OBVIOUS
    <2>3. R = {g[k] : k \in K}
      <3>1. ASSUME NEW b \in R
            PROVE  \E k \in K : b = g[k]
        <4>1. PICK x \in (1 .. n) \X (1 .. m) : PieceAt(l, x[1], x[2]) > 0 /\ b = BookedAt(l, x[1], x[2])
          BY <1>3
        <4>2. x[1] \in 1 .. n /\ x[2] \in 1 .. m /\ D[x[1]] = a
          BY <1>4, <4>1
        <4>3. x[1] = j
          BY <1>2, <2>1, <4>2
        <4>4. x[2] \in K /\ b = g[x[2]]
          BY <2>2, <4>1, <4>2, <4>3
        <4>5. QED
          BY <4>4
      <3>2. ASSUME NEW k \in K
            PROVE  g[k] \in R
        <4>1. k \in 1 .. m /\ PieceAt(l, j, k) > 0 /\ g[k] = BookedAt(l, j, k)
          BY <2>2
        <4>2. <<j, k>> \in {x \in (1 .. n) \X (1 .. m) : PieceAt(l, x[1], x[2]) > 0}
          BY <2>1, <4>1
        <4>3. BookedAt(l, j, k) \in Boekingen(l)
          BY <1>3, <4>2
        <4>4. QED
          BY <1>4, <2>1, <4>1, <4>3
      <3>3. QED
        BY <3>1, <3>2
    <2>4. /\ n \in Nat /\ u \in [0 .. n -> Int] /\ u[0] = 0
          /\ \A k \in 1 .. n : u[k - 1] <= u[k] /\ u[k] = u[k - 1] + Size(l[D[k]]) /\ Size(l[D[k]]) \in Int
          /\ \A k \in 0 .. n : 0 <= u[k] /\ u[k] <= u[n] /\ u[k] = EndAt(l, D, k)
      BY <1>0 DEF Ends
    <2>5. /\ m \in Nat /\ c \in [0 .. m -> Int] /\ c[0] = 0
          /\ \A k \in 1 .. m : c[k - 1] <= c[k] /\ c[k] = c[k - 1] + Size(l[C[k]]) /\ Size(l[C[k]]) \in Int
          /\ \A k \in 0 .. m : 0 <= c[k] /\ c[k] <= c[m] /\ c[k] = EndAt(l, C, k)
      BY <1>0 DEF Ends
    <2>6. PICK lo, hi : lo = u[j - 1] /\ hi = u[j]
      OBVIOUS
    <2>7. j \in 0 .. n /\ j - 1 \in 0 .. n /\ n \in 0 .. n /\ m \in 0 .. m
      BY <2>1, <2>4, <2>5
    <2>8. /\ lo \in Int /\ hi \in Int /\ lo <= hi /\ hi = lo + Size(l[a]) /\ Size(l[a]) \in Int
          /\ 0 <= lo /\ hi <= u[n] /\ lo = EndAt(l, D, j - 1) /\ hi = EndAt(l, D, j)
      BY <2>1, <2>4, <2>6, <2>7
    <2>9. u[n] = c[m]
      BY <1>1, <2>4, <2>5, <2>7
    <2>10. ASSUME NEW k \in 1 .. m
           PROVE  piece[k] \in Int /\ piece[k] = Lesser(hi, c[k]) - Greater(lo, c[k - 1])
      <3>1. k \in 0 .. m /\ k - 1 \in 0 .. m
        BY <2>5
      <3>2. PICK x, y : x = c[k - 1] /\ y = c[k]
        OBVIOUS
      <3>3. x \in Int /\ y \in Int /\ x = EndAt(l, C, k - 1) /\ y = EndAt(l, C, k)
        BY <2>5, <3>1, <3>2
      <3>4. piece[k] = Min({hi, y}) - Max({lo, x})
        BY <1>1, <2>2, <2>8, <3>3 DEF PieceAt
      <3>5. Min({hi, y}) = Lesser(hi, y) /\ Max({lo, x}) = Greater(lo, x)
        BY <2>8, <3>3, TwoOf
      <3>6. Lesser(hi, y) \in Int /\ Greater(lo, x) \in Int
        BY <2>8, <3>3 DEF Lesser, Greater
      <3>7. QED
        BY <3>2, <3>4, <3>5, <3>6
    <2>11. piece \in [1 .. m -> Int]
      BY <2>2, <2>10
    <2>12. Part(piece, K) = hi - lo
      <3>1. c[0] <= lo /\ hi <= c[m]
        BY <2>5, <2>8, <2>9
      <3>2. Overlaid(m, c, lo, hi, piece, K)
        BY <2>2, <2>5, <2>8, <2>10, <2>11, <3>1 DEF Overlaid
      <3>3. QED
        BY <3>2, Overlays
    <2>13. SumOf([b \in R |-> b.bedrag]) = Part(piece, K)
      <3>1. \A k \in K : g[k].bedrag = piece[k]
        BY <1>4, <2>2
      <3>2. \A k, i \in K : g[k] = g[i] => k = i
        BY <1>2, <1>4, <2>2
      <3>3. Pieces(m, piece, K, R, g)
        BY <2>2, <2>3, <2>5, <2>11, <3>1, <3>2 DEF Pieces
      <3>4. QED
        BY <3>3, PiecesOfLeg
    <2>14. QED
      BY <1>6, <2>8, <2>12, <2>13
  <1>7. QED
    BY <1>5, <1>6


\* What is credited: the same from the other side.
LEMMA CreditsRebooked ==
  ASSUME NEW l, NEW P, NEW N, NEW n, NEW m,
         Laid(l, Debits(l), P, n), Laid(l, Credits(l), N, m), EndAt(l, Debits(l), n) = EndAt(l, Credits(l), m),
         NEW a, NEW R, R = {b \in Boekingen(l) : b.tegenrekening = a}
  PROVE  SumOf([b \in R |-> b.bedrag]) = IF a \in N THEN Size(l[a]) ELSE 0
  <1>1. PICK D, C : D = Debits(l) /\ C = Credits(l)
    OBVIOUS
  <1>0. PICK u, c : Ends(l, D, n, u) /\ Ends(l, C, m, c)
    BY <1>1, EndsAre
  <1>2. /\ DOMAIN D = 1 .. n /\ DOMAIN C = 1 .. m /\ \A k \in 1 .. m : C[k] \in N
        /\ \A i, j \in 1 .. n : D[i] = D[j] => i = j
        /\ \A i, j \in 1 .. m : C[i] = C[j] => i = j
        /\ \A x \in N : \E k \in 1 .. m : C[k] = x
    BY <1>1 DEF Laid
  <1>3. Boekingen(l) = {BookedAt(l, x[1], x[2]) : x \in {x \in (1 .. n) \X (1 .. m) : PieceAt(l, x[1], x[2]) > 0}}
    BY <1>1, <1>2, BoekingenAre
  <1>4. \A j, k : BookedAt(l, j, k).rekening = D[j] /\ BookedAt(l, j, k).tegenrekening = C[k]
                  /\ BookedAt(l, j, k).bedrag = PieceAt(l, j, k)
    BY <1>1 DEF BookedAt
  <1>5. CASE a \notin N
    <2>1. R = {}
      BY <1>2, <1>3, <1>4, <1>5
    <2>2. SumOf([b \in R |-> b.bedrag]) = 0
      BY <2>1, SumEmpty
    <2>3. QED
      BY <1>5, <2>2
  <1>6. CASE a \in N
    <2>1. PICK k : k \in 1 .. m /\ C[k] = a
      BY <1>2, <1>6
    <2>2. PICK piece, K, g : /\ piece = [j \in 1 .. n |-> PieceAt(l, j, k)] /\ K = {j \in 1 .. n : piece[j] > 0}
                             /\ g = [j \in K |-> BookedAt(l, j, k)]
      OBVIOUS
    <2>3. R = {g[j] : j \in K}
      <3>1. ASSUME NEW b \in R
            PROVE  \E j \in K : b = g[j]
        <4>1. PICK x \in (1 .. n) \X (1 .. m) : PieceAt(l, x[1], x[2]) > 0 /\ b = BookedAt(l, x[1], x[2])
          BY <1>3
        <4>2. x[1] \in 1 .. n /\ x[2] \in 1 .. m /\ C[x[2]] = a
          BY <1>4, <4>1
        <4>3. x[2] = k
          BY <1>2, <2>1, <4>2
        <4>4. x[1] \in K /\ b = g[x[1]]
          BY <2>2, <4>1, <4>2, <4>3
        <4>5. QED
          BY <4>4
      <3>2. ASSUME NEW j \in K
            PROVE  g[j] \in R
        <4>1. j \in 1 .. n /\ PieceAt(l, j, k) > 0 /\ g[j] = BookedAt(l, j, k)
          BY <2>2
        <4>2. <<j, k>> \in {x \in (1 .. n) \X (1 .. m) : PieceAt(l, x[1], x[2]) > 0}
          BY <2>1, <4>1
        <4>3. BookedAt(l, j, k) \in Boekingen(l)
          BY <1>3, <4>2
        <4>4. QED
          BY <1>4, <2>1, <4>1, <4>3
      <3>3. QED
        BY <3>1, <3>2
    <2>4. /\ n \in Nat /\ u \in [0 .. n -> Int] /\ u[0] = 0
          /\ \A j \in 1 .. n : u[j - 1] <= u[j] /\ u[j] = u[j - 1] + Size(l[D[j]]) /\ Size(l[D[j]]) \in Int
          /\ \A j \in 0 .. n : 0 <= u[j] /\ u[j] <= u[n] /\ u[j] = EndAt(l, D, j)
      BY <1>0 DEF Ends
    <2>5. /\ m \in Nat /\ c \in [0 .. m -> Int] /\ c[0] = 0
          /\ \A j \in 1 .. m : c[j - 1] <= c[j] /\ c[j] = c[j - 1] + Size(l[C[j]]) /\ Size(l[C[j]]) \in Int
          /\ \A j \in 0 .. m : 0 <= c[j] /\ c[j] <= c[m] /\ c[j] = EndAt(l, C, j)
      BY <1>0 DEF Ends
    <2>6. PICK lo, hi : lo = c[k - 1] /\ hi = c[k]
      OBVIOUS
    <2>7. k \in 0 .. m /\ k - 1 \in 0 .. m /\ n \in 0 .. n /\ m \in 0 .. m
      BY <2>1, <2>4, <2>5
    <2>8. /\ lo \in Int /\ hi \in Int /\ lo <= hi /\ hi = lo + Size(l[a]) /\ Size(l[a]) \in Int
          /\ 0 <= lo /\ hi <= c[m] /\ lo = EndAt(l, C, k - 1) /\ hi = EndAt(l, C, k)
      BY <2>1, <2>5, <2>6, <2>7
    <2>9. u[n] = c[m]
      BY <1>1, <2>4, <2>5, <2>7
    <2>10. ASSUME NEW j \in 1 .. n
           PROVE  piece[j] \in Int /\ piece[j] = Lesser(hi, u[j]) - Greater(lo, u[j - 1])
      <3>1. j \in 0 .. n /\ j - 1 \in 0 .. n
        BY <2>4
      <3>2. PICK x, y : x = u[j - 1] /\ y = u[j]
        OBVIOUS
      <3>3. x \in Int /\ y \in Int /\ x = EndAt(l, D, j - 1) /\ y = EndAt(l, D, j)
        BY <2>4, <3>1, <3>2
      <3>4. piece[j] = Min({y, hi}) - Max({x, lo})
        BY <1>1, <2>2, <2>8, <3>3 DEF PieceAt
      <3>5. Min({y, hi}) = Lesser(y, hi) /\ Max({x, lo}) = Greater(x, lo)
        BY <2>8, <3>3, TwoOf
      <3>6. Lesser(hi, y) \in Int /\ Greater(lo, x) \in Int /\ Lesser(y, hi) = Lesser(hi, y) /\ Greater(x, lo) = Greater(lo, x)
        BY <2>8, <3>3 DEF Lesser, Greater
      <3>7. QED
        BY <3>2, <3>4, <3>5, <3>6
    <2>11. piece \in [1 .. n -> Int]
      BY <2>2, <2>10
    <2>12. Part(piece, K) = hi - lo
      <3>1. u[0] <= lo /\ hi <= u[n]
        BY <2>4, <2>8, <2>9
      <3>2. Overlaid(n, u, lo, hi, piece, K)
        BY <2>2, <2>4, <2>8, <2>10, <2>11, <3>1 DEF Overlaid
      <3>3. QED
        BY <3>2, Overlays
    <2>13. SumOf([b \in R |-> b.bedrag]) = Part(piece, K)
      <3>1. \A j \in K : g[j].bedrag = piece[j]
        BY <1>4, <2>2
      <3>2. \A j, i \in K : g[j] = g[i] => j = i
        BY <1>2, <1>4, <2>2
      <3>3. Pieces(n, piece, K, R, g)
        BY <2>2, <2>3, <2>4, <2>11, <3>1, <3>2 DEF Pieces
      <3>4. QED
        BY <3>3, PiecesOfLeg
    <2>14. QED
      BY <1>6, <2>8, <2>12, <2>13
  <1>7. QED
    BY <1>5, <1>6

\* An entry that balances, rebooked: every account has its own amount.
LEMMA Rebooks ==
  ASSUME NEW l \in [Accounts -> Int], SumOf(l) = 0, NEW a \in Accounts
  PROVE  Rebooked(Boekingen(l), a) = l[a]
  <1>1. PICK n, m : /\ Laid(l, Debits(l), Owed(l), n) /\ Laid(l, Credits(l), Owing(l), m)
                    /\ EndAt(l, Debits(l), n) = EndAt(l, Credits(l), m)
    BY SidesMeet
  <1>2. PICK R, Q, P, N : /\ R = {b \in Boekingen(l) : b.rekening = a} /\ Q = {b \in Boekingen(l) : b.tegenrekening = a}
                          /\ P = Owed(l) /\ N = Owing(l)
    OBVIOUS
  <1>3. SumOf([b \in R |-> b.bedrag]) = IF a \in P THEN Size(l[a]) ELSE 0
    BY <1>1, <1>2, DebitsRebooked
  <1>4. SumOf([b \in Q |-> b.bedrag]) = IF a \in N THEN Size(l[a]) ELSE 0
    BY <1>1, <1>2, CreditsRebooked
  <1>5. (a \in P <=> l[a] > 0) /\ (a \in N <=> l[a] < 0) /\ l[a] \in Int
    BY <1>2 DEF Owed, Owing
  <1>6. Rebooked(Boekingen(l), a) = SumOf([b \in R |-> b.bedrag]) - SumOf([b \in Q |-> b.bedrag])
    BY <1>2 DEF Rebooked
  <1>7. QED
    BY <1>3, <1>4, <1>5, <1>6 DEF Size


LEMMA XafHolds ==
  ASSUME BooksTyped, PostedBalances, NEW a \in Accounts, NEW xaf, xaf = XafFile(Window)
  PROVE  SumOf([i \in DOMAIN xaf |-> Rebooked(xaf[i], a)]) = AmountOn(a, PostedIn(Window))
  <1>1. PICK S, T, f : /\ S = PostedIn(Window) /\ T = {i \in S : LegsOf(entries[i].postings) > 0}
                       /\ f = [i \in S |-> entries[i].postings[a]]
    OBVIOUS
  <1>2. S \in SUBSET Ids /\ IsFiniteSet(S) /\ T \in SUBSET S
    BY <1>1, PostedInIds, EarnedTyped, FS_Subset
  <1>3. f \in [S -> Int]
    BY <1>1, <1>2, PostingsInt
  <1>4. DOMAIN xaf = T /\ \A i \in T : xaf[i] = Boekingen(entries[i].postings)
    BY <1>1 DEF XafFile
  <1>5. ASSUME NEW i \in T
        PROVE  Rebooked(xaf[i], a) = f[i]
    <2>1. i \in Ids /\ IsPosted(i) /\ i \in S
      BY <1>1, <1>2 DEF PostedIn
    <2>2. PICK l : l = entries[i].postings
      OBVIOUS
    <2>3. l \in [Accounts -> Int] /\ SumOf(l) = 0
      BY <2>1, <2>2, PostingsInt DEF PostedBalances
    <2>4. Rebooked(Boekingen(l), a) = l[a]
      BY <2>3, Rebooks
    <2>5. QED
      BY <1>1, <1>4, <2>1, <2>2, <2>4
  <1>6. ASSUME NEW i \in S \ T
        PROVE  f[i] = 0
    <2>1. PICK l : l = entries[i].postings
      OBVIOUS
    <2>2. PICK Q : Q = {x \in Accounts : l[x] # 0}
      OBVIOUS
    <2>3. ~(Cardinality(Q) > 0)
      BY <1>1, <1>6, <2>1, <2>2 DEF LegsOf
    <2>4. IsFiniteSet(Q)
      BY <2>2, AccountsAre, FS_Subset
    <2>5. Cardinality(Q) \in Nat
      BY <2>4, FS_CardinalityType
    <2>6. Cardinality(Q) = 0
      BY <2>3, <2>5
    <2>7. Q = {}
      BY <2>4, <2>6, FS_EmptySet
    <2>8. QED
      BY <1>1, <1>6, <2>1, <2>2, <2>7
  <1>7. SumOf(f) = Part(f, T)
    BY <1>2, <1>3, <1>6, SumWhere
  <1>8. [i \in DOMAIN xaf |-> Rebooked(xaf[i], a)] = [i \in T |-> f[i]]
    BY <1>4, <1>5
  <1>9. AmountOn(a, PostedIn(Window)) = SumOf(f)
    BY <1>1 DEF AmountOn
  <1>10. QED
    BY <1>7, <1>8, <1>9 DEF Part

\* The years of a FAIA file follow one another.
LEMMA YearsFollow ==
  ASSUME BooksTyped, NEW y \in {Year - 1, Year}
  PROVE  /\ PostedUpTo(CalendarYear(y)[1] - 1) \cup PostedIn(CalendarYear(y)) = PostedUpTo(CalendarYear(y)[2])
         /\ PostedUpTo(CalendarYear(y)[1] - 1) \cap PostedIn(CalendarYear(y)) = {}
         /\ PostedUpTo(CalendarYear(Year)[1] - 1) = PostedUpTo(CalendarYear(Year - 1)[2])
  <1>1. Year \in Nat \ {0} /\ y \in Int
    BY DaysAssumption
  <1>2. CalendarYear(y)[1] = 10000 * y + 101 /\ CalendarYear(y)[2] = 10000 * y + 1231
    BY <1>1 DEF CalendarYear, YMD
  <1>3. CalendarYear(Year)[1] = 10000 * Year + 101 /\ CalendarYear(Year - 1)[2] = 10000 * (Year - 1) + 1231
    BY <1>1 DEF CalendarYear, YMD
  <1>4. ASSUME NEW i \in Ids
        PROVE  /\ Within(facts[i].date, UpTo(CalendarYear(y)[1] - 1)) \/ Within(facts[i].date, CalendarYear(y))
                    <=> Within(facts[i].date, UpTo(CalendarYear(y)[2]))
               /\ ~(Within(facts[i].date, UpTo(CalendarYear(y)[1] - 1)) /\ Within(facts[i].date, CalendarYear(y)))
               /\ Within(facts[i].date, UpTo(CalendarYear(Year)[1] - 1))
                    <=> Within(facts[i].date, UpTo(CalendarYear(Year - 1)[2]))
    <2>1. PICK t : t = facts[i].date
      OBVIOUS
    <2>2. t \in Nat /\ IsDate(t)
      BY <2>1, FactsDated
    <2>3. Within(t, CalendarYear(y)) <=> 10000 * y + 101 <= t /\ t <= 10000 * y + 1231
      BY <1>2 DEF Within
    <2>4. Within(t, UpTo(CalendarYear(y)[1] - 1)) <=> t <= 10000 * y + 100
      BY <1>1, <1>2, <2>2 DEF Within, UpTo
    <2>5. Within(t, UpTo(CalendarYear(y)[2])) <=> t <= 10000 * y + 1231
      BY <1>1, <1>2, <2>2 DEF Within, UpTo
    <2>6. Within(t, UpTo(CalendarYear(Year)[1] - 1)) <=> t <= 10000 * Year + 100
      BY <1>1, <1>3, <2>2 DEF Within, UpTo
    <2>7. Within(t, UpTo(CalendarYear(Year - 1)[2])) <=> t <= 10000 * (Year - 1) + 1231
      BY <1>1, <1>3, <2>2 DEF Within, UpTo
    <2>8. t <= 10000 * Year + 100 <=> t <= 10000 * (Year - 1) + 1231
      <3>1. PICK p, m, d : p = YearOf(t) /\ m = MonthOf(t) /\ d = DayOf(t)
        OBVIOUS
      <3>2. p \in Nat /\ m \in 1 .. 12 /\ d \in 1 .. 31 /\ t = 10000 * p + 100 * m + d
        BY <2>2, <3>1, DateIs
      <3>3. ASSUME t <= 10000 * Year + 100
            PROVE  t <= 10000 * (Year - 1) + 1231
        <4>1. p <= Year - 1
          BY <1>1, <3>2, <3>3
        <4>2. QED
          BY <1>1, <3>2, <4>1
      <3>4. QED
        BY <1>1, <2>2, <3>3
    <2>9. (t <= 10000 * y + 100 \/ (10000 * y + 101 <= t /\ t <= 10000 * y + 1231)) <=> t <= 10000 * y + 1231
      BY <1>1, <2>2
    <2>10. ~(t <= 10000 * y + 100 /\ 10000 * y + 101 <= t)
      BY <1>1, <2>2
    <2>11. QED
      BY <2>1, <2>3, <2>4, <2>5, <2>6, <2>7, <2>8, <2>9, <2>10
  <1>5. QED
    BY <1>4 DEF PostedUpTo, PostedIn

LEMMA FaiaHolds ==
  ASSUME BooksTyped, NEW a \in Accounts, NEW y \in {Year - 1, Year}
  PROVE  /\ FaiaAccount(a, y).opening + AmountOn(a, FaiaEntries(y).lines) = FaiaAccount(a, y).closing
         /\ FaiaAccount(a, Year).opening = FaiaAccount(a, Year - 1).closing
  <1>1. PICK before, during, upto : /\ before = PostedUpTo(CalendarYear(y)[1] - 1)
                                    /\ during = PostedIn(CalendarYear(y))
                                    /\ upto = PostedUpTo(CalendarYear(y)[2])
    OBVIOUS
  <1>2. before \cup during = upto /\ before \cap during = {}
        /\ PostedUpTo(CalendarYear(Year)[1] - 1) = PostedUpTo(CalendarYear(Year - 1)[2])
    BY <1>1, YearsFollow
  <1>3. before \in SUBSET Ids /\ during \in SUBSET Ids
    BY <1>1 DEF PostedUpTo, PostedIn
  <1>4. PICK w : w = [i \in Ids |-> entries[i].postings[a]]
    OBVIOUS
  <1>5. IsFiniteSet(Ids) /\ w \in [Ids -> Int]
    BY <1>4, PostingsInt, EarnedTyped
  <1>6. ASSUME NEW S \in SUBSET Ids
        PROVE  AmountOn(a, S) = Part(w, S)
    <2>1. [i \in S |-> entries[i].postings[a]] = [i \in S |-> w[i]]
      BY <1>4
    <2>2. QED
      BY <2>1 DEF AmountOn, Part
  <1>7. Part(w, before \cup during) = Part(w, before) + Part(w, during)
    BY <1>2, <1>3, <1>5, SumJoin
  <1>8. AmountOn(a, before) + AmountOn(a, during) = AmountOn(a, upto)
    BY <1>2, <1>3, <1>6, <1>7
  <1>9. FaiaAccount(a, y).opening = AmountOn(a, before) /\ FaiaAccount(a, y).closing = AmountOn(a, upto)
    BY <1>1 DEF FaiaAccount
  <1>10. FaiaEntries(y).lines = during
    BY <1>1 DEF FaiaEntries
  <1>11. FaiaAccount(a, Year).opening = FaiaAccount(a, Year - 1).closing
    BY <1>2 DEF FaiaAccount
  <1>12. QED
    BY <1>8, <1>9, <1>10, <1>11

LEMMA AuditFilesFit ==
  ASSUME BooksTyped, PostedBalances
  PROVE  AuditFilesAgree
  <1>1. PICK xaf : xaf = XafFile(Window)
    OBVIOUS
  <1>2. ASSUME NEW a \in Accounts
        PROVE  /\ SumOf([i \in DOMAIN xaf |-> Rebooked(xaf[i], a)]) = AmountOn(a, PostedIn(Window))
               /\ \A y \in {Year - 1, Year} :
                    FaiaAccount(a, y).opening + AmountOn(a, FaiaEntries(y).lines) = FaiaAccount(a, y).closing
               /\ FaiaAccount(a, Year).opening = FaiaAccount(a, Year - 1).closing
    BY <1>1, XafHolds, FaiaHolds
  <1>3. \A y \in {Year - 1, Year} : FaiaEntries(y).debit = FaiaEntries(y).credit
    BY BalancesAgree
  <1>4. QED
    BY <1>1, <1>2, <1>3 DEF AuditFilesAgree

LEMMA PartsFit == SheetIInv /\ KindsAgree => PartsAddUp
  <1> SUFFICES ASSUME SheetIInv, KindsAgree
               PROVE  PartsAddUp
    OBVIOUS
  <1>1. BooksTyped /\ PostedBalances
    BY DEF SheetIInv
  <1>2. StatutoryAgrees /\ AuditFilesAgree
    BY <1>1, StatutoryFits, AuditFilesFit
  <1>3. PICK closes, results : /\ closes = Closes12
                               /\ results = {<<c, CostCenters(Window)[c]>> : c \in DOMAIN CostCenters(Window)}
    OBVIOUS
  <1>4. SumOf([c \in closes |-> c.profit]) = Pnl(Window)
    BY <1>1, <1>3, MonthsAdd
  <1>5. SumOf([r \in results |-> r[2]]) = Pnl(Window)
    BY <1>1, <1>3, CentersAdd
  <1>6. UNION {c.drafts : c \in closes} = {i \in Ids : IsDraft(i)}
    BY <1>1, <1>3, DraftsAreListed
  <1>7. \A c \in closes : c.debit = c.credit
    BY <1>1, <1>3, MonthsBalance
  <1>8. closes = {MonthClose(ym[1], ym[2]) : ym \in FiscalMonths}
    BY <1>3 DEF Closes12
  <1>9. QED
    BY <1>2, <1>3, <1>4, <1>5, <1>6, <1>7, <1>8 DEF PartsAddUp

(***************************************************************************)
(* The parts of a report add up to it and the reports to one another, the  *)
(* audit files with them: a month and a cost center each show their share  *)
(* of the year's result, the statutory forms fold the same accounts, a     *)
(* re-imported XAF file books what the journal holds and a FAIA file leads *)
(* from its opening to its closing balances (reports.rs, export.rs,        *)
(* year_end.rs), whatever was booked, closed and reversed before.          *)
(***************************************************************************)
THEOREM OneResultEverywhere == KindsAgree /\ AllSpec => []PartsAddUp
  <1> SUFFICES ASSUME KindsAgree
               PROVE  AllSpec => []PartsAddUp
    OBVIOUS
  <1>1. SheetIInv => PartsAddUp
    BY PartsFit
  <1>2. QED
    BY <1>1, SheetInvariance, PTL

==================================================================================
