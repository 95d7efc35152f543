------------------------------ MODULE InvoicesProofs ------------------------------
(***************************************************************************)
(* Proofs about Invoices, for any number of processes, invoices, lines and *)
(* attempts.                                                               *)
(***************************************************************************)
EXTENDS Invoices, SequenceTheorems, FiniteSetTheorems, WellFoundedInduction,
        TLAPS

(***************************************************************************)
(* The inductive invariant.  First what holds of every invoice, whoever    *)
(* works on it.                                                            *)
(***************************************************************************)
JobRow == [at : {"idle", "insert", "lines", "number", "create", "post", "update", "pay"},
           inv : Nat, todo : Nat, credits : Nat, gross : Int, paid : Nat, number : Nat,
           entry : Nat, attempts : 0 .. MaxAttempts]

JobsOK ==
  /\ work \in [Workers -> JobRow]
  /\ \A w \in Workers :
       /\ work[w].inv \in {0} \cup Invoices /\ work[w].credits \in {0} \cup Invoices
       /\ At(w, "insert") \/ At(w, "lines") => work[w].credits # 0 \/ work[w].todo > 0

Types == TypeOK /\ JobsOK

BookedFor(e, i) == entries[e].source = "invoice" /\ entries[e].ref = i

\* An entry is made for one invoice, and only a posted one is reversed.
Linked ==
  /\ \A r \in Ids : entries[r].reversedFrom # 0 =>
       /\ IsPosted(r)
       /\ entries[r].reversedFrom \in Ids /\ IsPosted(entries[r].reversedFrom)
  /\ \A i \in Invoices : invoices[i].entry # 0 =>
       BookedFor(invoices[i].entry, i) /\ IsPosted(invoices[i].entry)
  /\ \A w \in Workers : At(w, "post") => BookedFor(work[w].entry, work[w].inv)
  /\ \A w \in Workers : At(w, "update") =>
       BookedFor(work[w].entry, work[w].inv) /\ IsPosted(work[w].entry)

(***************************************************************************)
(* Then what holds of an invoice no two commands ever worked on at once.   *)
(***************************************************************************)
Solo(i) == \A w, v \in Workers : work[w].inv = i /\ work[v].inv = i => w = v

\* A credit note of n lines is as long as its original, which is final.
AsLongAs(n, original) ==
  original \in Alone =>
    /\ invoices[original].type = "sales"
    /\ invoices[original].status # "draft"
    /\ Gross(original) = n

RowOK(i) ==
  /\ invoices[i].status = "draft" =>
       invoices[i].number = 0 /\ invoices[i].entry = 0 /\ invoices[i].paid = 0
  /\ invoices[i].status # "draft" =>
       /\ invoices[i].entry # 0
       /\ entries[invoices[i].entry].postings = Booked(i)
  /\ invoices[i].paid <= Gross(i)
  /\ invoices[i].status = "paid" => invoices[i].paid = Gross(i)
  /\ invoices[i].status = "sent" => invoices[i].paid < Gross(i)
  /\ invoices[i].status \in {"sent", "paid"} => ~HasReversal(invoices[i].entry)
  /\ invoices[i].status = "void" => HasReversal(invoices[i].entry)
  /\ invoices[i].type = "credit" => AsLongAs(Gross(i), invoices[i].creditFor)

\* The process that works on it.
JobOK(w, i) ==
  /\ At(w, "lines") =>
       /\ invoices[i].status = "draft" /\ invoices[i].type = "sales"
       /\ AsLongAs(Gross(i) + work[w].todo, work[w].credits)
  /\ work[w].at \in {"number", "create", "post", "update"} =>
       /\ invoices[i].status = "draft"
       /\ work[w].gross = Booked(i) /\ Gross(i) > 0
  /\ At(w, "post") => IsDraft(work[w].entry)
  /\ work[w].at \in {"post", "update"} =>
       entries[work[w].entry].postings = work[w].gross /\ ~HasReversal(work[w].entry)
  /\ At(w, "pay") =>
       /\ invoices[i].status = "sent"
       /\ work[w].gross = Gross(i) /\ work[w].paid = invoices[i].paid
       /\ work[w].todo + work[w].paid <= work[w].gross

AloneOK ==
  /\ \A i \in Alone : Solo(i) /\ RowOK(i)
  /\ \A w \in Workers : work[w].inv \in Alone => JobOK(w, work[w].inv)
  /\ \A w \in Workers : At(w, "insert") => AsLongAs(work[w].todo, work[w].credits)

\* The numbers, as long as no invoice was worked on twice at once.
NumbersOK ==
  overlapped = {} =>
    /\ \E n \in Nat : Numbers = 1 .. n
    /\ \A i, j \in Invoices : invoices[i].number = invoices[j].number /\ i # j => invoices[i].number = 0
    /\ \A w \in Workers : work[w].at \in {"create", "post", "update"} => work[w].number \in 1 .. NextNumber

----------------------------------------------------------------------------------
(* What the steps do to the work, the invoices and the journal. *)

OthersKept(w) == \A v \in Workers : v # w => work'[v] = work[v]

LEMMA Bounds ==
  MaxAttempts \in Nat /\ MaxInvoices \in Nat /\ MaxLines \in Nat /\ MaxEntries \in Nat
  BY InvoicesAssumption

LEMMA RowTypes ==
  /\ \A l \in Int, i \in Nat :
       [state |-> "draft", postings |-> l, source |-> "invoice", ref |-> i, reversedFrom |-> 0] \in EntryRow
  /\ \A l \in Int, i \in Nat :
       [state |-> "posted", postings |-> -l, source |-> "reversal", ref |-> 0, reversedFrom |-> i] \in EntryRow
  /\ Idle \in JobRow /\ Idle.at = "idle" /\ Idle.inv = 0 /\ Idle.credits = 0
  BY Bounds DEF EntryRow, Idle, JobRow

LEMMA TypeFacts ==
  ASSUME Types
  PROVE  /\ Ids = 1..LastId /\ LastId \in Nat /\ \A e \in Ids : entries[e] \in EntryRow
         /\ Invoices = 1..Len(invoices) /\ Len(invoices) \in Nat
         /\ \A i \in Invoices : invoices[i] \in InvoiceRow /\ i # 0
         /\ \A i \in Invoices : Gross(i) \in Nat /\ Booked(i) \in Int
         /\ \A w \in Workers : work[w] \in JobRow
  <1>1. invoices \in Seq(InvoiceRow) /\ entries \in Seq(EntryRow) /\ work \in [Workers -> JobRow]
    BY DEF Types, TypeOK, JobsOK
  <1>2. Ids = 1..LastId /\ LastId \in Nat /\ \A e \in Ids : entries[e] \in EntryRow
    BY <1>1 DEF Ids, LastId
  <1>3. Invoices = 1..Len(invoices) /\ Len(invoices) \in Nat
    BY <1>1 DEF Invoices
  <1>4. \A i \in Invoices : invoices[i] \in InvoiceRow /\ i # 0
    BY <1>1, <1>3
  <1>5. \A i \in Invoices : Gross(i) \in Nat
    BY <1>4 DEF Gross, InvoiceRow
  <1>6. \A i \in Invoices : Booked(i) \in Int
    BY <1>5 DEF Booked
  <1>7. QED
    BY <1>1, <1>2, <1>3, <1>4, <1>5, <1>6

LEMMA GoDoes ==
  ASSUME Types, NEW w \in Workers, NEW job, Go(w, job)
  PROVE  /\ work'[w] = job /\ OthersKept(w) /\ overlapped' = overlapped
         /\ job \in JobRow => work' \in [Workers -> JobRow]
  BY DEF Go, OthersKept, Types, JobsOK

LEMMA StartDoes ==
  ASSUME Types, NEW w \in Workers, NEW job, NEW i, job.inv = i, Start(w, job)
  PROVE  /\ work'[w] = job /\ OthersKept(w) /\ At(w, "idle") /\ work[w].inv = 0
         /\ overlapped' = IF i # 0 /\ Busy(i) THEN overlapped \cup {i} ELSE overlapped
         /\ job \in JobRow => work' \in [Workers -> JobRow]
  BY DEF Start, Touch, OthersKept, Types, JobsOK, TypeOK, At

----------------------------------------------------------------------------------
(* Type correctness. *)

LEMMA TypesOfJobs ==
  ASSUME Types, NEW w \in Workers, OthersKept(w), work' \in [Workers -> JobRow],
         Invoices \subseteq Invoices', Ids \subseteq Ids',
         work'[w].inv \in {0} \cup Invoices', work'[w].credits \in {0} \cup Invoices',
         At(w, "insert")' \/ At(w, "lines")' => work'[w].credits # 0 \/ work'[w].todo > 0,
         work'[w].at \in {"idle", "insert"} <=> work'[w].inv = 0,
         work'[w].at \in {"post", "update"} => work'[w].entry \in Ids'
  PROVE  /\ JobsOK'
         /\ \A v \in Workers :
              /\ work'[v].at \in {"idle", "insert", "lines", "number", "create", "post", "update", "pay"}
              /\ work'[v].at \in {"idle", "insert"} <=> work'[v].inv = 0
              /\ work'[v].at \in {"post", "update"} => work'[v].entry \in Ids'
              /\ work'[v].attempts \in 0 .. MaxAttempts
  <1>1. JobsOK'
    BY DEF Types, JobsOK, OthersKept, At
  <1>2. ASSUME NEW v \in Workers
        PROVE  /\ work'[v].at \in {"idle", "insert", "lines", "number", "create", "post", "update", "pay"}
               /\ work'[v].at \in {"idle", "insert"} <=> work'[v].inv = 0
               /\ work'[v].at \in {"post", "update"} => work'[v].entry \in Ids'
               /\ work'[v].attempts \in 0 .. MaxAttempts
    <2>1. work'[v] \in JobRow
      OBVIOUS
    <2>2. QED
      BY <2>1 DEF JobRow, OthersKept, Types, TypeOK
  <1>3. QED
    BY <1>1, <1>2

LEMMA TypesOfTables ==
  ASSUME Types, NEW w \in Workers, OthersKept(w), work' \in [Workers -> JobRow],
         invoices' \in Seq(InvoiceRow), entries' \in Seq(EntryRow), overlapped' \subseteq Invoices',
         \A i \in Invoices' : invoices'[i].entry \in {0} \cup Ids' /\ invoices'[i].creditFor \in {0} \cup Invoices',
         Invoices \subseteq Invoices', Ids \subseteq Ids',
         work'[w].inv \in {0} \cup Invoices', work'[w].credits \in {0} \cup Invoices',
         At(w, "insert")' \/ At(w, "lines")' => work'[w].credits # 0 \/ work'[w].todo > 0,
         work'[w].at \in {"idle", "insert"} <=> work'[w].inv = 0,
         work'[w].at \in {"post", "update"} => work'[w].entry \in Ids'
  PROVE  Types'
  BY TypesOfJobs DEF Types, TypeOK

LEMMA TypesStutter == ASSUME Types, UNCHANGED vars PROVE Types'
  BY DEF Types, TypeOK, JobsOK, vars, Invoices, Ids, At

LEMMA InitTypes == ASSUME Init PROVE Types
  BY RowTypes, Bounds DEF Init, Types, TypeOK, JobsOK, Invoices, Ids, Idle, At

\* Steps that change only what a process is doing.
LEMMA TypesWork ==
  ASSUME Types, NEW w \in Workers, UNCHANGED <<invoices, entries>>, OthersKept(w),
         work' \in [Workers -> JobRow], overlapped' \subseteq (overlapped \cup {work'[w].inv}) \ {0},
         work'[w].inv \in {0} \cup Invoices, work'[w].credits \in {0} \cup Invoices,
         At(w, "insert")' \/ At(w, "lines")' => work'[w].credits # 0 \/ work'[w].todo > 0,
         work'[w].at \in {"idle", "insert"} <=> work'[w].inv = 0,
         work'[w].at \in {"post", "update"} => work'[w].entry \in Ids
  PROVE  Types'
  <1>1. Invoices' = Invoices /\ Ids' = Ids
    BY DEF Invoices, Ids
  <1>2. QED
    BY <1>1, TypesOfTables DEF Types, TypeOK


----------------------------------------------------------------------------------
(* What each step writes. *)

\* Beginning a command.
LEMMA StartWrites ==
  ASSUME Types, NEW w \in Workers
  PROVE  /\ \A n \in 1 .. MaxLines : Create(w, n) =>
              /\ OthersKept(w) /\ work' \in [Workers -> JobRow] /\ overlapped' = overlapped
              /\ At(w, "insert")' /\ work'[w].inv = 0 /\ work'[w].credits = 0 /\ work'[w].todo = n
         /\ \A i \in Invoices : Credit(w, i) =>
              /\ OthersKept(w) /\ work' \in [Workers -> JobRow] /\ overlapped' = overlapped
              /\ At(w, "insert")' /\ work'[w].inv = 0 /\ work'[w].credits = i /\ work'[w].todo = Gross(i)
         /\ \A i \in Invoices : Finalize(w, i) =>
              /\ OthersKept(w) /\ work' \in [Workers -> JobRow]
              /\ overlapped' = IF Busy(i) THEN overlapped \cup {i} ELSE overlapped
              /\ At(w, "number")' /\ work'[w].inv = i /\ work'[w].credits = 0 /\ work'[w].gross = Booked(i)
         /\ \A i \in Invoices, a \in 1 .. MaxLines : Pay(w, i, a) =>
              /\ OthersKept(w) /\ work' \in [Workers -> JobRow]
              /\ overlapped' = IF Busy(i) THEN overlapped \cup {i} ELSE overlapped
              /\ At(w, "pay")' /\ work'[w].inv = i /\ work'[w].credits = 0 /\ work'[w].todo = a
              /\ work'[w].gross = Gross(i) /\ work'[w].paid = invoices[i].paid
  <1>1. ASSUME NEW n \in 1 .. MaxLines, Create(w, n)
        PROVE  /\ OthersKept(w) /\ work' \in [Workers -> JobRow] /\ overlapped' = overlapped
               /\ At(w, "insert")' /\ work'[w].inv = 0 /\ work'[w].credits = 0 /\ work'[w].todo = n
    <2>1. PICK k, j : k = Idle /\ j = [k EXCEPT !.at = "insert", !.todo = n]
      OBVIOUS
    <2> k \in JobRow /\ k.inv = 0 /\ k.credits = 0 /\ n \in Nat
      BY <2>1, RowTypes, Bounds
    <2>2. j \in JobRow /\ j.at = "insert" /\ j.inv = 0 /\ j.credits = 0 /\ j.todo = n
      BY <2>1 DEF JobRow
    <2>3. Start(w, j)
      BY <1>1, <2>1 DEF Create
    <2>4. QED
      BY <2>1, <2>2, <2>3, StartDoes DEF At
  <1>2. ASSUME NEW i \in Invoices, Credit(w, i)
        PROVE  /\ OthersKept(w) /\ work' \in [Workers -> JobRow] /\ overlapped' = overlapped
               /\ At(w, "insert")' /\ work'[w].inv = 0 /\ work'[w].credits = i /\ work'[w].todo = Gross(i)
    <2>1. PICK k, n, j : k = Idle /\ n = Gross(i) /\ j = [k EXCEPT !.at = "insert", !.todo = n, !.credits = i]
      OBVIOUS
    <2> k \in JobRow /\ k.inv = 0 /\ n \in Nat /\ i \in Nat
      BY <2>1, RowTypes, TypeFacts
    <2>2. j \in JobRow /\ j.at = "insert" /\ j.inv = 0 /\ j.credits = i /\ j.todo = n
      BY <2>1 DEF JobRow
    <2>3. Start(w, j)
      BY <1>2, <2>1 DEF Credit
    <2>4. QED
      BY <2>1, <2>2, <2>3, StartDoes DEF At
  <1>3. ASSUME NEW i \in Invoices, Finalize(w, i)
        PROVE  /\ OthersKept(w) /\ work' \in [Workers -> JobRow]
               /\ overlapped' = IF Busy(i) THEN overlapped \cup {i} ELSE overlapped
               /\ At(w, "number")' /\ work'[w].inv = i /\ work'[w].credits = 0 /\ work'[w].gross = Booked(i)
    <2>1. PICK k, n, j : k = Idle /\ n = Booked(i) /\ j = [k EXCEPT !.at = "number", !.inv = i, !.gross = n]
      OBVIOUS
    <2> k \in JobRow /\ k.credits = 0 /\ n \in Int /\ i \in Nat
      BY <2>1, RowTypes, TypeFacts
    <2>2. j \in JobRow /\ j.at = "number" /\ j.inv = i /\ j.credits = 0 /\ j.gross = n
      BY <2>1 DEF JobRow
    <2>3. Start(w, j)
      BY <1>3, <2>1 DEF Finalize
    <2>4. i # 0
      BY TypeFacts
    <2>5. QED
      BY <2>1, <2>2, <2>3, <2>4, StartDoes DEF At
  <1>4. ASSUME NEW i \in Invoices, NEW a \in 1 .. MaxLines, Pay(w, i, a)
        PROVE  /\ OthersKept(w) /\ work' \in [Workers -> JobRow]
               /\ overlapped' = IF Busy(i) THEN overlapped \cup {i} ELSE overlapped
               /\ At(w, "pay")' /\ work'[w].inv = i /\ work'[w].credits = 0 /\ work'[w].todo = a
               /\ work'[w].gross = Gross(i) /\ work'[w].paid = invoices[i].paid
    <2>1. PICK k, n, m, j : /\ k = Idle /\ n = Gross(i) /\ m = invoices[i].paid
                            /\ j = [k EXCEPT !.at = "pay", !.inv = i, !.todo = a, !.gross = n, !.paid = m]
      OBVIOUS
    <2>2. m \in Nat
      BY <2>1, TypeFacts DEF InvoiceRow
    <2> k \in JobRow /\ k.credits = 0 /\ n \in Int /\ i \in Nat /\ a \in Nat
      BY <2>1, RowTypes, TypeFacts, Bounds
    <2> m \in Nat
      BY <2>2
    <2>3. j \in JobRow
      BY <2>1 DEF JobRow
    <2>7. j.at = "pay" /\ j.inv = i /\ j.credits = 0 /\ j.todo = a /\ j.gross = n /\ j.paid = m
      BY <2>1 DEF JobRow
    <2>4. Start(w, j)
      BY <1>4, <2>1 DEF Pay
    <2>5. i # 0
      BY TypeFacts
    <2>6. QED
      BY <2>1, <2>3, <2>4, <2>5, <2>7, StartDoes DEF At
  <1>5. QED
    BY <1>1, <1>2, <1>3, <1>4

\* A process that goes on has the same invoice, one that stops has none.
Continues(w) ==
  /\ work'[w].inv = work[w].inv /\ work'[w].credits = work[w].credits
  /\ work'[w].gross = work[w].gross

Stops(w) == work'[w] = Idle

LEMMA NumberWrites ==
  ASSUME Types, NEW w \in Workers
  PROVE  /\ TakeNumber(w) =>
              /\ OthersKept(w)
              /\ NextNumber \in Nat => work' \in [Workers -> JobRow]
              /\ overlapped' = overlapped
              /\ At(w, "create")' /\ Continues(w) /\ work'[w].number = NextNumber
         /\ Collide(w) =>
              /\ OthersKept(w) /\ work' \in [Workers -> JobRow] /\ overlapped' = overlapped
              /\ Stops(w) \/ (At(w, "number")' /\ Continues(w))
         /\ CreateEntry(w) =>
              /\ OthersKept(w) /\ work' \in [Workers -> JobRow] /\ overlapped' = overlapped
              /\ At(w, "post")' /\ Continues(w) /\ work'[w].number = work[w].number
              /\ work'[w].entry = LastId + 1
         /\ PostEntry(w) =>
              /\ OthersKept(w) /\ work' \in [Workers -> JobRow] /\ overlapped' = overlapped
              /\ At(w, "update")' /\ Continues(w) /\ work'[w].number = work[w].number
              /\ work'[w].entry = work[w].entry
  <1> USE DEF Continues
  <1>1. ASSUME TakeNumber(w)
        PROVE  /\ OthersKept(w) /\ (NextNumber \in Nat => work' \in [Workers -> JobRow])
               /\ overlapped' = overlapped
               /\ At(w, "create")' /\ Continues(w) /\ work'[w].number = NextNumber
    <2>1. PICK k, n, j : k = work[w] /\ n = NextNumber /\ j = [k EXCEPT !.at = "create", !.number = n]
      OBVIOUS
    <2>2. k \in JobRow
      BY <2>1, TypeFacts
    <2>3. /\ n \in Nat => j \in JobRow
          /\ j.at = "create" /\ j.inv = k.inv /\ j.credits = k.credits /\ j.gross = k.gross /\ j.number = n
      BY <2>1, <2>2 DEF JobRow
    <2>4. Go(w, j)
      BY <1>1, <2>1 DEF TakeNumber
    <2>5. QED
      BY <2>1, <2>3, <2>4, GoDoes DEF At
  <1>2. ASSUME Collide(w)
        PROVE  /\ OthersKept(w) /\ work' \in [Workers -> JobRow] /\ overlapped' = overlapped
               /\ Stops(w) \/ (At(w, "number")' /\ Continues(w))
    <2>1. CASE work[w].attempts < MaxAttempts
      <3>1. PICK k, n, j : /\ k = work[w] /\ n = k.attempts + 1
                           /\ j = [k EXCEPT !.at = "number", !.number = 0, !.entry = 0, !.attempts = n]
        OBVIOUS
      <3> k \in JobRow
        BY <3>1, TypeFacts
      <3>2. n \in 0 .. MaxAttempts
        BY <2>1, <3>1, Bounds DEF JobRow
      <3>3. j \in JobRow /\ j.at = "number" /\ j.inv = k.inv /\ j.credits = k.credits /\ j.gross = k.gross
        BY <3>1, <3>2 DEF JobRow
      <3>4. Go(w, j)
        BY <1>2, <2>1, <3>1 DEF Collide
      <3>5. QED
        BY <3>1, <3>3, <3>4, GoDoes DEF At
    <2>2. CASE ~(work[w].attempts < MaxAttempts)
      <3>1. Go(w, Idle)
        BY <1>2, <2>2 DEF Collide
      <3>2. QED
        BY <3>1, RowTypes, GoDoes DEF Stops
    <2>3. QED
      BY <2>1, <2>2
  <1>3. ASSUME CreateEntry(w)
        PROVE  /\ OthersKept(w) /\ work' \in [Workers -> JobRow] /\ overlapped' = overlapped
               /\ At(w, "post")' /\ Continues(w) /\ work'[w].number = work[w].number
               /\ work'[w].entry = LastId + 1
    <2>1. PICK k, n, j : k = work[w] /\ n = NewEntryId /\ j = [k EXCEPT !.at = "post", !.entry = n]
      OBVIOUS
    <2>2. k \in JobRow /\ n = LastId + 1 /\ n \in Nat
      BY <2>1, TypeFacts DEF NewEntryId
    <2>3. /\ j \in JobRow /\ j.at = "post" /\ j.inv = k.inv /\ j.credits = k.credits /\ j.gross = k.gross
          /\ j.number = k.number /\ j.entry = n
      BY <2>1, <2>2 DEF JobRow
    <2>4. Go(w, j)
      BY <1>3, <2>1 DEF CreateEntry
    <2>5. QED
      BY <2>1, <2>2, <2>3, <2>4, GoDoes DEF At
  <1>4. ASSUME PostEntry(w)
        PROVE  /\ OthersKept(w) /\ work' \in [Workers -> JobRow] /\ overlapped' = overlapped
               /\ At(w, "update")' /\ Continues(w) /\ work'[w].number = work[w].number
               /\ work'[w].entry = work[w].entry
    <2>1. PICK k, j : k = work[w] /\ j = [k EXCEPT !.at = "update"]
      OBVIOUS
    <2>2. k \in JobRow
      BY <2>1, TypeFacts
    <2>3. /\ j \in JobRow /\ j.at = "update" /\ j.inv = k.inv /\ j.credits = k.credits /\ j.gross = k.gross
          /\ j.number = k.number /\ j.entry = k.entry
      BY <2>1, <2>2 DEF JobRow
    <2>4. Go(w, j)
      BY <1>4, <2>1 DEF PostEntry
    <2>5. QED
      BY <2>1, <2>3, <2>4, GoDoes DEF At
  <1>5. QED
    BY <1>1, <1>2, <1>3, <1>4


RowsKept(j) == Invoices' = Invoices /\ \A i \in Invoices : i # j => invoices'[i] = invoices[i]

LEMMA RowDoes ==
  ASSUME Types, NEW j \in Invoices, NEW row \in InvoiceRow, invoices' = [invoices EXCEPT ![j] = row]
  PROVE  invoices' \in Seq(InvoiceRow) /\ RowsKept(j) /\ invoices'[j] = row
  BY DEF Types, TypeOK, Invoices, RowsKept

\* What the process that inserts lines, finalizes or pays works on.
LEMMA WorksOn ==
  ASSUME Types, NEW w \in Workers, work[w].at \notin {"idle", "insert"}
  PROVE  work[w].inv \in Invoices /\ invoices[work[w].inv] \in InvoiceRow /\ work[w] \in JobRow
  <1>1. work[w].inv # 0
    BY DEF Types, TypeOK
  <1>2. work[w].inv \in Invoices
    BY <1>1 DEF Types, JobsOK
  <1>3. QED
    BY <1>2, TypeFacts

LEMMA InsertInvoiceWrites ==
  ASSUME Types, NEW w \in Workers, InsertInvoice(w)
  PROVE  /\ OthersKept(w) /\ work' \in [Workers -> JobRow] /\ overlapped' = overlapped
         /\ At(w, "lines")' /\ work'[w].inv = Len(invoices) + 1
         /\ work'[w].credits = work[w].credits /\ work'[w].todo = work[w].todo
         /\ invoices' \in Seq(InvoiceRow) /\ Invoices' = Invoices \cup {Len(invoices) + 1}
         /\ Len(invoices) + 1 \notin Invoices /\ \A i \in Invoices : invoices'[i] = invoices[i]
         /\ invoices'[Len(invoices) + 1] =
              [type |-> "sales", status |-> "draft", number |-> 0, entry |-> 0,
               lines |-> 0, paid |-> 0, creditFor |-> 0]
  <1>1. PICK row : row = [type |-> "sales", status |-> "draft", number |-> 0, entry |-> 0,
                          lines |-> 0, paid |-> 0, creditFor |-> 0]
    OBVIOUS
  <1>2. row \in InvoiceRow
    BY <1>1 DEF InvoiceRow
  <1>3. invoices \in Seq(InvoiceRow) /\ invoices' = Append(invoices, row)
    BY <1>1 DEF InsertInvoice, Types, TypeOK
  <1>4. /\ invoices' \in Seq(InvoiceRow) /\ Invoices' = Invoices \cup {Len(invoices) + 1}
        /\ Len(invoices) + 1 \notin Invoices /\ \A i \in Invoices : invoices'[i] = invoices[i]
        /\ invoices'[Len(invoices) + 1] = row
    BY <1>2, <1>3 DEF Invoices
  <1>5. PICK k, n, j : k = work[w] /\ n = Len(invoices) + 1 /\ j = [k EXCEPT !.at = "lines", !.inv = n]
    OBVIOUS
  <1>6. k \in JobRow /\ n \in Nat
    BY <1>5, TypeFacts
  <1>7. /\ j \in JobRow /\ j.at = "lines" /\ j.inv = n /\ j.credits = k.credits /\ j.todo = k.todo
    BY <1>5, <1>6 DEF JobRow
  <1>8. Go(w, j)
    BY <1>5 DEF InsertInvoice
  <1>9. /\ OthersKept(w) /\ work' \in [Workers -> JobRow] /\ overlapped' = overlapped
        /\ At(w, "lines")' /\ work'[w].inv = Len(invoices) + 1
        /\ work'[w].credits = work[w].credits /\ work'[w].todo = work[w].todo
    BY <1>5, <1>7, <1>8, GoDoes DEF At
  <1>10. QED
    BY <1>1, <1>4, <1>9

LEMMA InsertLineWrites ==
  ASSUME Types, NEW w \in Workers, InsertLine(w), NEW i, i = work[w].inv
  PROVE  /\ OthersKept(w) /\ work' \in [Workers -> JobRow] /\ overlapped' = overlapped
         /\ \/ Stops(w)
            \/ /\ At(w, "lines")' /\ Continues(w) /\ work'[w].todo = work[w].todo - 1
               /\ work'[w].credits # 0 \/ work'[w].todo > 0
         /\ i \in Invoices /\ invoices' \in Seq(InvoiceRow) /\ RowsKept(i)
         /\ invoices'[i].lines = Gross(i) + 1
         /\ invoices'[i].type = invoices[i].type /\ invoices'[i].status = invoices[i].status
         /\ invoices'[i].number = invoices[i].number /\ invoices'[i].entry = invoices[i].entry
         /\ invoices'[i].paid = invoices[i].paid /\ invoices'[i].creditFor = invoices[i].creditFor
  <1>1. i \in Invoices /\ invoices[i] \in InvoiceRow /\ work[w] \in JobRow
    BY WorksOn DEF InsertLine, At
  <1>2. PICK old, row : old = invoices[i] /\ row = [old EXCEPT !.lines = @ + 1]
    OBVIOUS
  <1>3. /\ row \in InvoiceRow /\ row.lines = old.lines + 1 /\ row.type = old.type /\ row.status = old.status
        /\ row.number = old.number /\ row.entry = old.entry /\ row.paid = old.paid
        /\ row.creditFor = old.creditFor
    BY <1>1, <1>2 DEF InvoiceRow
  <1>4. invoices' = [invoices EXCEPT ![i] = row]
    BY <1>2 DEF InsertLine
  <1>5. invoices' \in Seq(InvoiceRow) /\ RowsKept(i) /\ invoices'[i] = row
    BY <1>1, <1>3, <1>4, RowDoes
  <1>6. CASE work[w].todo = 1 /\ work[w].credits = 0
    <2>1. Go(w, Idle)
      BY <1>6 DEF InsertLine
    <2>2. OthersKept(w) /\ work' \in [Workers -> JobRow] /\ overlapped' = overlapped /\ Stops(w)
      BY <2>1, GoDoes, RowTypes DEF Stops
    <2>3. QED
      BY <1>1, <1>2, <1>3, <1>5, <2>2 DEF Gross
  <1>7. CASE ~(work[w].todo = 1 /\ work[w].credits = 0)
    <2>1. PICK k, n, j : k = work[w] /\ n = k.todo - 1 /\ j = [k EXCEPT !.todo = n]
      OBVIOUS
    <2> k \in JobRow
      BY <1>1, <2>1
    <2>2. n \in Nat
      BY <2>1 DEF JobRow, InsertLine
    <2>3. /\ j \in JobRow /\ j.at = k.at /\ j.inv = k.inv /\ j.credits = k.credits /\ j.gross = k.gross
          /\ j.todo = n
      BY <2>1, <2>2 DEF JobRow
    <2>4. Go(w, j)
      BY <1>7, <2>1 DEF InsertLine
    <2>5. OthersKept(w) /\ work' \in [Workers -> JobRow] /\ overlapped' = overlapped /\ work'[w] = j
      BY <2>3, <2>4, GoDoes
    <2>6. work'[w].credits # 0 \/ work'[w].todo > 0
      BY <1>7, <2>1, <2>2, <2>3, <2>5 DEF InsertLine, JobRow
    <2>7. At(w, "lines")' /\ Continues(w) /\ work'[w].todo = work[w].todo - 1
      BY <2>1, <2>3, <2>5 DEF At, Continues, InsertLine
    <2>8. QED
      BY <1>1, <1>2, <1>3, <1>5, <2>5, <2>6, <2>7 DEF Gross
  <1>8. QED
    BY <1>6, <1>7

LEMMA MakeCreditWrites ==
  ASSUME Types, NEW w \in Workers, MakeCredit(w), NEW i, i = work[w].inv
  PROVE  /\ OthersKept(w) /\ work' \in [Workers -> JobRow] /\ overlapped' = overlapped /\ Stops(w)
         /\ i \in Invoices /\ invoices' \in Seq(InvoiceRow) /\ RowsKept(i)
         /\ invoices'[i].type = "credit" /\ invoices'[i].creditFor = work[w].credits
         /\ invoices'[i].lines = Gross(i) /\ invoices'[i].status = invoices[i].status
         /\ invoices'[i].number = invoices[i].number /\ invoices'[i].entry = invoices[i].entry
         /\ invoices'[i].paid = invoices[i].paid
  <1>1. i \in Invoices /\ invoices[i] \in InvoiceRow /\ work[w] \in JobRow
    BY WorksOn DEF MakeCredit, At
  <1>2. PICK old, c, row : /\ old = invoices[i] /\ c = work[w].credits
                           /\ row = [old EXCEPT !.type = "credit", !.creditFor = c]
    OBVIOUS
  <1> c \in Nat
    BY <1>1, <1>2 DEF JobRow
  <1>3. /\ row \in InvoiceRow /\ row.type = "credit" /\ row.creditFor = c
        /\ row.lines = old.lines /\ row.status = old.status
        /\ row.number = old.number /\ row.entry = old.entry /\ row.paid = old.paid
    BY <1>1, <1>2 DEF InvoiceRow
  <1>4. invoices' = [invoices EXCEPT ![i] = row]
    BY <1>1, <1>2 DEF MakeCredit
  <1>5. invoices' \in Seq(InvoiceRow) /\ RowsKept(i) /\ invoices'[i] = row
    BY <1>1, <1>3, <1>4, RowDoes
  <1>6. OthersKept(w) /\ work' \in [Workers -> JobRow] /\ overlapped' = overlapped /\ Stops(w)
    BY GoDoes, RowTypes DEF MakeCredit, Stops
  <1>7. QED
    BY <1>1, <1>2, <1>3, <1>5, <1>6 DEF Gross

LEMMA MarkSentWrites ==
  ASSUME Types, NEW w \in Workers, MarkSent(w), NEW i, i = work[w].inv
  PROVE  /\ OthersKept(w) /\ work' \in [Workers -> JobRow] /\ overlapped' = overlapped /\ Stops(w)
         /\ i \in Invoices /\ invoices' \in Seq(InvoiceRow) /\ RowsKept(i)
         /\ invoices'[i].number = work[w].number /\ invoices'[i].entry = work[w].entry
         /\ invoices'[i].status = "sent"
         /\ invoices'[i].lines = Gross(i) /\ invoices'[i].type = invoices[i].type
         /\ invoices'[i].paid = invoices[i].paid /\ invoices'[i].creditFor = invoices[i].creditFor
  <1>1. i \in Invoices /\ invoices[i] \in InvoiceRow /\ work[w] \in JobRow
    BY WorksOn DEF MarkSent, At
  <1>2. PICK old, n, e, row : /\ old = invoices[i] /\ n = work[w].number /\ e = work[w].entry
                              /\ row = [old EXCEPT !.number = n, !.status = "sent", !.entry = e]
    OBVIOUS
  <1> n \in Nat /\ e \in Nat
    BY <1>1, <1>2 DEF JobRow
  <1>3. /\ row \in InvoiceRow /\ row.number = n /\ row.entry = e /\ row.status = "sent"
        /\ row.lines = old.lines /\ row.type = old.type /\ row.paid = old.paid /\ row.creditFor = old.creditFor
    BY <1>1, <1>2 DEF InvoiceRow
  <1>4. invoices' = [invoices EXCEPT ![i] = row]
    BY <1>1, <1>2 DEF MarkSent
  <1>5. invoices' \in Seq(InvoiceRow) /\ RowsKept(i) /\ invoices'[i] = row
    BY <1>1, <1>3, <1>4, RowDoes
  <1>6. OthersKept(w) /\ work' \in [Workers -> JobRow] /\ overlapped' = overlapped /\ Stops(w)
    BY GoDoes, RowTypes DEF MarkSent, Stops
  <1>7. QED
    BY <1>1, <1>2, <1>3, <1>5, <1>6 DEF Gross

LEMMA RecordPaymentWrites ==
  ASSUME Types, NEW w \in Workers, RecordPayment(w), NEW i, i = work[w].inv
  PROVE  /\ OthersKept(w) /\ work' \in [Workers -> JobRow] /\ overlapped' = overlapped /\ Stops(w)
         /\ i \in Invoices /\ invoices' \in Seq(InvoiceRow) /\ RowsKept(i)
         /\ invoices'[i].paid = invoices[i].paid + work[w].todo
         /\ invoices'[i].status = IF work[w].paid + work[w].todo >= work[w].gross
                                    THEN "paid" ELSE invoices[i].status
         /\ invoices'[i].number = invoices[i].number /\ invoices'[i].entry = invoices[i].entry
         /\ invoices'[i].lines = Gross(i) /\ invoices'[i].type = invoices[i].type
         /\ invoices'[i].creditFor = invoices[i].creditFor
  <1>1. i \in Invoices /\ invoices[i] \in InvoiceRow /\ work[w] \in JobRow
    BY WorksOn DEF RecordPayment, At
  <1>2. PICK old, p, s, row : /\ old = invoices[i] /\ p = old.paid + work[w].todo
                              /\ s = (IF work[w].paid + work[w].todo >= work[w].gross
                                        THEN "paid" ELSE old.status)
                              /\ row = [old EXCEPT !.paid = p, !.status = s]
    OBVIOUS
  <1> p \in Nat /\ s \in {"draft", "sent", "paid", "void"}
    BY <1>1, <1>2 DEF JobRow, InvoiceRow
  <1>3. /\ row \in InvoiceRow /\ row.paid = p /\ row.status = s /\ row.number = old.number
        /\ row.entry = old.entry /\ row.lines = old.lines /\ row.type = old.type /\ row.creditFor = old.creditFor
    BY <1>1, <1>2 DEF InvoiceRow
  <1>4. invoices' = [invoices EXCEPT ![i] = row]
    BY <1>1, <1>2 DEF RecordPayment
  <1>5. invoices' \in Seq(InvoiceRow) /\ RowsKept(i) /\ invoices'[i] = row
    BY <1>1, <1>3, <1>4, RowDoes
  <1>6. OthersKept(w) /\ work' \in [Workers -> JobRow] /\ overlapped' = overlapped /\ Stops(w)
    BY GoDoes, RowTypes DEF RecordPayment, Stops
  <1>7. QED
    BY <1>1, <1>2, <1>3, <1>5, <1>6 DEF Gross


\* The journal only grows, and what is posted stays.
JournalKept ==
  \A e \in Ids :
    /\ e \in Ids'
    /\ entries'[e].postings = entries[e].postings /\ entries'[e].source = entries[e].source
    /\ entries'[e].ref = entries[e].ref /\ entries'[e].reversedFrom = entries[e].reversedFrom
    /\ IsPosted(e) => IsPosted(e)'

LEMMA CreateEntryWrites ==
  ASSUME Types, NEW w \in Workers, CreateEntry(w), NEW e, e = LastId + 1
  PROVE  /\ entries' \in Seq(EntryRow) /\ Ids' = Ids \cup {e} /\ e \notin Ids /\ JournalKept
         /\ \A f \in Ids : entries'[f] = entries[f]
         /\ entries'[e].state = "draft" /\ entries'[e].postings = work[w].gross
         /\ entries'[e].source = "invoice" /\ entries'[e].ref = work[w].inv /\ entries'[e].reversedFrom = 0
  <1>1. PICK g, i, row : /\ g = work[w].gross /\ i = work[w].inv
                         /\ row = [state |-> "draft", postings |-> g, source |-> "invoice",
                                   ref |-> i, reversedFrom |-> 0]
    OBVIOUS
  <1>2. g \in Int /\ i \in Nat
    BY <1>1, TypeFacts DEF JobRow
  <1>3. row \in EntryRow
    BY <1>1, <1>2, RowTypes
  <1>4. entries \in Seq(EntryRow) /\ entries' = Append(entries, row)
    BY <1>1 DEF CreateEntry, InsertDraft, Types, TypeOK
  <1>5. /\ entries' \in Seq(EntryRow) /\ Ids' = Ids \cup {e} /\ e \notin Ids
        /\ \A f \in Ids : entries'[f] = entries[f]
        /\ entries'[e] = row
    BY <1>3, <1>4 DEF Ids, LastId
  <1>6. JournalKept
    BY <1>5 DEF JournalKept, IsPosted
  <1>7. QED
    BY <1>1, <1>5, <1>6

LEMMA PostEntryWrites ==
  ASSUME Types, NEW w \in Workers, PostEntry(w), NEW e, e = work[w].entry
  PROVE  /\ entries' \in Seq(EntryRow) /\ Ids' = Ids /\ e \in Ids /\ JournalKept
         /\ \A f \in Ids : f # e => entries'[f] = entries[f]
         /\ IsDraft(e) /\ IsPosted(e)'
  <1>1. e \in Ids /\ entries[e] \in EntryRow
    BY TypeFacts DEF PostEntry, At, Types, TypeOK
  <1>2. PICK old, row : old = entries[e] /\ row = [old EXCEPT !.state = "posted"]
    OBVIOUS
  <1>3. /\ row \in EntryRow /\ row.state = "posted" /\ row.postings = old.postings /\ row.source = old.source
        /\ row.ref = old.ref /\ row.reversedFrom = old.reversedFrom
    BY <1>1, <1>2 DEF EntryRow
  <1>4. entries \in Seq(EntryRow) /\ entries' = [entries EXCEPT ![e] = row]
    BY <1>2 DEF PostEntry, MarkPosted, Types, TypeOK
  <1>5. /\ entries' \in Seq(EntryRow) /\ Ids' = Ids
        /\ \A f \in Ids : f # e => entries'[f] = entries[f]
        /\ entries'[e] = row
    BY <1>1, <1>3, <1>4 DEF Ids
  <1>6. IsDraft(e)
    BY DEF PostEntry, MarkPosted, MayMarkPosted
  <1>7. JournalKept
    BY <1>2, <1>3, <1>5 DEF JournalKept, IsPosted
  <1>8. QED
    BY <1>1, <1>3, <1>5, <1>6, <1>7 DEF IsPosted

LEMMA ReverseWrites ==
  ASSUME Types, NEW e \in Ids, Reverse(e), NEW r, r = LastId + 1
  PROVE  /\ entries' \in Seq(EntryRow) /\ Ids' = Ids \cup {r} /\ r \notin Ids /\ JournalKept
         /\ \A f \in Ids : entries'[f] = entries[f]
         /\ IsPosted(r)' /\ entries'[r].source = "reversal" /\ entries'[r].ref = 0
         /\ entries'[r].reversedFrom = e /\ IsPosted(e) /\ ~HasReversal(e)
         /\ invoices' \in Seq(InvoiceRow) /\ Invoices' = Invoices
         /\ \A i \in Invoices : invoices[i].entry # e => invoices'[i] = invoices[i]
         /\ \A i \in Invoices : invoices[i].entry = e =>
              /\ invoices'[i].status = "void"
              /\ invoices'[i].number = invoices[i].number /\ invoices'[i].entry = invoices[i].entry
              /\ invoices'[i].lines = Gross(i) /\ invoices'[i].type = invoices[i].type
              /\ invoices'[i].paid = invoices[i].paid
              /\ invoices'[i].creditFor = invoices[i].creditFor
  <1>1. entries[e] \in EntryRow /\ e \in Nat
    BY TypeFacts
  <1>2. PICK p, row : /\ p = entries[e].postings
                      /\ row = [state |-> "posted", postings |-> -p, source |-> "reversal",
                                ref |-> 0, reversedFrom |-> e]
    OBVIOUS
  <1>3. row \in EntryRow
    BY <1>1, <1>2, RowTypes DEF EntryRow
  <1>4. entries \in Seq(EntryRow) /\ entries' = Append(entries, row)
    BY <1>2 DEF Reverse, InsertReversal, Minus, Types, TypeOK
  <1>5. /\ entries' \in Seq(EntryRow) /\ Ids' = Ids \cup {r} /\ r \notin Ids
        /\ \A f \in Ids : entries'[f] = entries[f]
        /\ entries'[r] = row
    BY <1>3, <1>4 DEF Ids, LastId
  <1>6. JournalKept
    BY <1>5 DEF JournalKept, IsPosted
  <1>7. invoices' = VoidInvoice(e) /\ IsPosted(e) /\ ~HasReversal(e)
    BY DEF Reverse
  <1>8. Invoices' = Invoices /\ \A i \in Invoices : invoices[i].entry # e => invoices'[i] = invoices[i]
    BY <1>7 DEF VoidInvoice, Invoices
  <1>9. ASSUME NEW i \in Invoices, invoices[i].entry = e
        PROVE  /\ invoices'[i] \in InvoiceRow
               /\ invoices'[i].status = "void"
               /\ invoices'[i].number = invoices[i].number /\ invoices'[i].entry = invoices[i].entry
               /\ invoices'[i].lines = Gross(i) /\ invoices'[i].type = invoices[i].type
               /\ invoices'[i].paid = invoices[i].paid
               /\ invoices'[i].creditFor = invoices[i].creditFor
    <2>1. PICK old, new : old = invoices[i] /\ new = [old EXCEPT !.status = "void"]
      OBVIOUS
    <2>2. old \in InvoiceRow
      BY <2>1, TypeFacts
    <2>3. /\ new \in InvoiceRow /\ new.status = "void" /\ new.number = old.number /\ new.entry = old.entry
          /\ new.lines = old.lines /\ new.type = old.type /\ new.paid = old.paid
          /\ new.creditFor = old.creditFor
      BY <2>1, <2>2 DEF InvoiceRow
    <2>4. invoices'[i] = new
      BY <1>7, <1>9, <2>1 DEF VoidInvoice
    <2>5. QED
      BY <2>1, <2>3, <2>4 DEF Gross
  <1>10. invoices' \in Seq(InvoiceRow)
    <2>1. Invoices = 1..Len(invoices) /\ Len(invoices) \in Nat
      BY TypeFacts
    <2>2. \A i \in Invoices : invoices'[i] \in InvoiceRow
      BY <1>8, <1>9, TypeFacts
    <2>3. invoices' = [i \in 1..Len(invoices) |-> invoices'[i]]
      BY <1>7, <2>1 DEF VoidInvoice
    <2>4. invoices' \in [1..Len(invoices) -> InvoiceRow]
      BY <2>1, <2>2, <2>3
    <2>5. QED
      BY <2>1, <2>4, SeqDef
  <1>11. QED
    BY <1>2, <1>5, <1>6, <1>7, <1>8, <1>9, <1>10 DEF IsPosted


----------------------------------------------------------------------------------
(* The highest number. *)

LEMMA LeastNat ==
  ASSUME NEW S \in SUBSET Nat, S # {}
  PROVE  \E m \in S : \A k \in S : m <= k
  <1>1. PICK R : R = OpToRel(<, Nat)
    OBVIOUS
  <1>2. IsWellFoundedOn(R, Nat)
    BY <1>1, NatLessThanWellFounded
  <1>3. PICK m \in S : \A k \in S : ~(<<k, m>> \in R)
    BY <1>2, WFMin
  <1>4. \A k, l \in Nat : k < l => <<k, l>> \in OpToRel(<, Nat)
    BY DEF OpToRel
  <1>5. \A k \in S : ~(k < m)
    BY <1>1, <1>3, <1>4
  <1>6. QED
    BY <1>5

\* Some bound holds for the first k rows, by the least k for which none does.
LEMMA NumbersBounded ==
  ASSUME Types
  PROVE  \E m \in Nat : \A i \in Invoices : invoices[i].number <= m
  <1> DEFINE Bounded(k) == \E m \in Nat : \A i \in 1 .. k : invoices[i].number <= m
             Wrong == {k \in 0 .. Len(invoices) : ~Bounded(k)}
  <1>1. Invoices = 1 .. Len(invoices) /\ Len(invoices) \in Nat
    BY TypeFacts
  <1>2. \A i \in Invoices : invoices[i].number \in Nat
    BY TypeFacts DEF InvoiceRow
  <1>3. Wrong = {}
    <2>1. SUFFICES ASSUME Wrong # {} PROVE FALSE
      OBVIOUS
    <2>2. Wrong \in SUBSET Nat
      BY <1>1
    <2> HIDE DEF Wrong
    <2>3. PICK k \in Wrong : \A l \in Wrong : k <= l
      BY <2>1, <2>2, LeastNat
    <2> USE DEF Wrong
    <2>4. k # 0
      BY <2>3
    <2>5. k \in Invoices /\ ~Bounded(k) /\ Bounded(k - 1)
      <3> HIDE DEF Bounded
      <3>1. k \in 0 .. Len(invoices) /\ ~Bounded(k)
        BY <2>3
      <3>2. k \in Invoices /\ k - 1 \in 0 .. Len(invoices) /\ k - 1 < k
        BY <1>1, <2>4, <3>1
      <3>3. k - 1 \notin Wrong
        BY <2>3, <3>2
      <3>4. QED
        BY <3>1, <3>2, <3>3
    <2>6. PICK m \in Nat : \A i \in 1 .. (k - 1) : invoices[i].number <= m
      BY <2>5
    <2>7. PICK n \in Nat : n >= m /\ n >= invoices[k].number
      <3>1. invoices[k].number \in Nat
        BY <1>2, <2>5
      <3>2. m + invoices[k].number \in Nat /\ m + invoices[k].number >= m
              /\ m + invoices[k].number >= invoices[k].number
        BY <3>1
      <3>3. QED
        BY <3>2
    <2>8. \A i \in 1 .. k : invoices[i].number <= n
      <3>1. TAKE i \in 1 .. k
      <3>2. i \in Invoices
        BY <1>1, <2>5
      <3> HIDE DEF Bounded, Wrong
      <3>3. PICK x \in Nat : x = invoices[i].number
        BY <1>2, <3>2
      <3>4. i \in 1 .. (k - 1) \/ i = k
        BY <1>1, <2>5
      <3>5. x <= m \/ x = invoices[k].number
        BY <2>6, <3>3, <3>4
      <3>6. x <= n
        BY <2>7, <3>3, <3>5
      <3>7. QED
        BY <3>3, <3>6
    <2>9. QED
      BY <2>5, <2>8
  <1>4. Bounded(Len(invoices))
    <2>1. Len(invoices) \in 0 .. Len(invoices)
      BY <1>1
    <2> HIDE DEF Bounded
    <2>2. QED
      BY <1>3, <2>1
  <1>5. QED
    BY <1>1, <1>4

LEMMA NumberFacts ==
  ASSUME Types
  PROVE  /\ Numbers \subseteq Nat \ {0}
         /\ NextNumber \in Nat \ {0}
         /\ \A n \in Numbers : n < NextNumber
         /\ NextNumber - 1 \in Numbers \cup {0}
  <1> DEFINE S == Numbers \cup {0}
             Above == {m \in Nat : \A n \in S : n <= m}
  <1>1. S \subseteq Nat
    BY TypeFacts DEF Numbers, InvoiceRow
  <1>2. Above # {}
    <2>1. PICK m \in Nat : \A i \in Invoices : invoices[i].number <= m
      BY NumbersBounded
    <2>2. m \in Above
      BY <2>1 DEF Numbers
    <2>3. QED
      BY <2>2
  <1>3. PICK m \in Above : \A k \in Above : m <= k
    <2>1. Above \in SUBSET Nat
      OBVIOUS
    <2> HIDE DEF Above
    <2>2. QED
      BY <1>2, <2>1, LeastNat
  <1>4. m \in S
    <2>1. SUFFICES ASSUME m \notin S PROVE FALSE
      OBVIOUS
    <2>2. m # 0 /\ m - 1 \in Nat
      BY <2>1
    <2>3. m - 1 \in Above
      BY <1>1, <2>1, <2>2
    <2>4. QED
      BY <1>3, <2>2, <2>3
  <1>5. \A x \in S : (\A y \in S : x >= y) => x = m
    BY <1>1, <1>3, <1>4
  <1>6. \A y \in S : m >= y
    BY <1>1, <1>3
  <1>7. Max(S) = m
    <2> HIDE DEF S, Above
    <2>1. QED
      BY <1>4, <1>5, <1>6 DEF Max
  <1>8. NextNumber = m + 1
    BY <1>7 DEF NextNumber
  <1>9. NextNumber - 1 = m
    BY <1>8
  <1>10. \A n \in Numbers : n < NextNumber
    <2>1. \A n \in S : n \in Nat /\ n <= m
      BY <1>1, <1>6
    <2>2. QED
      BY <1>8, <2>1
  <1>11. Numbers \subseteq Nat \ {0}
    BY <1>1 DEF Numbers
  <1>12. QED
    BY <1>4, <1>8, <1>9, <1>10, <1>11


----------------------------------------------------------------------------------
(* Type correctness of every step. *)

LEMMA TypesOfRows ==
  ASSUME Types, NEW w \in Workers, OthersKept(w), work' \in [Workers -> JobRow], overlapped' = overlapped,
         entries' = entries, NEW j \in Invoices, invoices' \in Seq(InvoiceRow), RowsKept(j),
         invoices'[j].entry \in {0} \cup Ids, invoices'[j].creditFor \in {0} \cup Invoices,
         Stops(w) \/ (/\ Continues(w) /\ At(w, "lines")' /\ At(w, "lines")
                      /\ work'[w].credits # 0 \/ work'[w].todo > 0)
  PROVE  Types'
  <1>1. Invoices' = Invoices /\ Ids' = Ids
    BY DEF Ids, RowsKept
  <1>2. work'[w].inv \in {0} \cup Invoices /\ work'[w].credits \in {0} \cup Invoices
    BY RowTypes DEF Stops, Continues, Types, JobsOK
  <1>3. work'[w].at \in {"idle", "lines"} /\ (work'[w].at = "idle" <=> work'[w].inv = 0)
    BY RowTypes DEF Stops, Continues, At, Types, TypeOK
  <1>4. At(w, "insert")' \/ At(w, "lines")' => work'[w].credits # 0 \/ work'[w].todo > 0
    BY RowTypes DEF Stops, At
  <1>5. \A i \in Invoices : invoices'[i].entry \in {0} \cup Ids /\ invoices'[i].creditFor \in {0} \cup Invoices
    BY DEF RowsKept, Types, TypeOK
  <1>6. overlapped \subseteq Invoices
    BY DEF Types, TypeOK
  <1>7. entries' \in Seq(EntryRow)
    BY DEF Types, TypeOK
  <1>8. QED
    BY <1>1, <1>2, <1>3, <1>4, <1>5, <1>6, <1>7, TypesOfTables

LEMMA TypesOfEntries ==
  ASSUME Types, NEW w \in Workers, CreateEntry(w) \/ PostEntry(w)
  PROVE  Types'
  <1>1. invoices' = invoices /\ Invoices' = Invoices
    BY DEF CreateEntry, PostEntry, Invoices
  <1>2. entries' \in Seq(EntryRow) /\ Ids \subseteq Ids' /\ work[w].inv # 0
    <2>1. CASE CreateEntry(w)
      BY <2>1, CreateEntryWrites DEF CreateEntry, At, Types, TypeOK
    <2>2. CASE PostEntry(w)
      BY <2>2, PostEntryWrites DEF PostEntry, At, Types, TypeOK
    <2>3. QED
      BY <2>1, <2>2
  <1>3. /\ OthersKept(w) /\ work' \in [Workers -> JobRow] /\ overlapped' = overlapped
        /\ work'[w].at \in {"post", "update"} /\ Continues(w)
    BY NumberWrites DEF At
  <1>4. work'[w].entry \in Ids'
    <2>1. CASE CreateEntry(w)
      BY <2>1, CreateEntryWrites, NumberWrites
    <2>2. CASE PostEntry(w)
      BY <2>2, PostEntryWrites, NumberWrites
    <2>3. QED
      BY <2>1, <2>2
  <1>5. work'[w].inv \in {0} \cup Invoices /\ work'[w].credits \in {0} \cup Invoices
    BY <1>3 DEF Continues, Types, JobsOK
  <1>6. work'[w].inv # 0
    BY <1>2, <1>3 DEF Continues
  <1>7. \A i \in Invoices : invoices[i].entry \in {0} \cup Ids /\ invoices[i].creditFor \in {0} \cup Invoices
    BY DEF Types, TypeOK
  <1>8. invoices \in Seq(InvoiceRow) /\ overlapped \subseteq Invoices
    BY DEF Types, TypeOK
  <1>9. ~At(w, "insert")' /\ ~At(w, "lines")'
    BY <1>3 DEF At
  <1>10. QED
    BY <1>1, <1>2, <1>3, <1>4, <1>5, <1>6, <1>7, <1>8, <1>9, TypesOfTables

LEMMA TypesOfStart ==
  ASSUME Types, NEW w \in Workers, NEW i \in Invoices \cup {0}, NEW n \in 1 .. MaxLines,
         \/ Create(w, n)
         \/ i # 0 /\ (Credit(w, i) \/ Finalize(w, i) \/ Pay(w, i, n))
  PROVE  Types'
  <1>1. UNCHANGED <<invoices, entries>>
    BY DEF Create, Credit, Finalize, Pay
  <1>2. n > 0 /\ overlapped \subseteq Invoices /\ 0 \notin Invoices
    BY Bounds, TypeFacts DEF Types, TypeOK
  <1>3. CASE Create(w, n)
    BY <1>1, <1>2, <1>3, StartWrites, TypesWork DEF At
  <1>4. CASE i # 0 /\ Credit(w, i)
    BY <1>1, <1>2, <1>4, StartWrites, TypesWork DEF At
  <1>5. CASE i # 0 /\ Finalize(w, i)
    BY <1>1, <1>2, <1>5, StartWrites, TypesWork DEF At
  <1>6. CASE i # 0 /\ Pay(w, i, n)
    BY <1>1, <1>2, <1>6, StartWrites, TypesWork DEF At
  <1>7. QED
    BY <1>3, <1>4, <1>5, <1>6

LEMMA TypesOfWork ==
  ASSUME Types, NEW w \in Workers, TakeNumber(w) \/ Collide(w) \/ Crash(w)
  PROVE  Types'
  <1>1. UNCHANGED <<invoices, entries>>
    BY DEF TakeNumber, Collide, Crash
  <1>2. overlapped \subseteq Invoices /\ 0 \notin Invoices
    BY TypeFacts DEF Types, TypeOK
  <1>3. OthersKept(w) /\ work' \in [Workers -> JobRow] /\ overlapped' = overlapped
    <2>1. CASE TakeNumber(w)
      BY <2>1, NumberWrites, NumberFacts
    <2>2. CASE Collide(w)
      BY <2>2, NumberWrites
    <2>3. CASE Crash(w)
      BY <2>3, GoDoes, RowTypes DEF Crash
    <2>4. QED
      BY <2>1, <2>2, <2>3
  <1>4. Stops(w) \/ (Continues(w) /\ work'[w].at \in {"number", "create"} /\ work[w].inv # 0)
    <2>1. CASE TakeNumber(w)
      BY <2>1, NumberWrites, WorksOn, TypeFacts DEF At, TakeNumber
    <2>2. CASE Collide(w)
      BY <2>2, NumberWrites, WorksOn, TypeFacts DEF At, Collide
    <2>3. CASE Crash(w)
      BY <2>3, GoDoes, RowTypes DEF Crash, Stops
    <2>4. QED
      BY <2>1, <2>2, <2>3
  <1>5. work'[w].inv \in {0} \cup Invoices /\ work'[w].credits \in {0} \cup Invoices
    BY <1>4, RowTypes DEF Stops, Continues, Types, JobsOK
  <1>6. work'[w].at \in {"idle", "insert"} <=> work'[w].inv = 0
    BY <1>4, RowTypes DEF Stops, Continues
  <1>7. work'[w].at \notin {"insert", "lines", "post", "update"}
    BY <1>4, RowTypes DEF Stops
  <1>8. QED
    BY <1>1, <1>2, <1>3, <1>5, <1>6, <1>7, TypesWork DEF At

LEMMA TypesOfInsert ==
  ASSUME Types, NEW w \in Workers, InsertInvoice(w)
  PROVE  Types'
  <1>1. PICK n : n = Len(invoices) + 1
    OBVIOUS
  <1>2. /\ OthersKept(w) /\ work' \in [Workers -> JobRow] /\ overlapped' = overlapped
        /\ At(w, "lines")' /\ work'[w].inv = n /\ entries' = entries
        /\ work'[w].credits = work[w].credits /\ work'[w].todo = work[w].todo
        /\ invoices' \in Seq(InvoiceRow) /\ Invoices' = Invoices \cup {n}
        /\ \A i \in Invoices : invoices'[i] = invoices[i]
    BY <1>1, InsertInvoiceWrites DEF InsertInvoice
  <1>9. invoices'[n].entry = 0 /\ invoices'[n].creditFor = 0
    BY <1>1, InsertInvoiceWrites
  <1>3. Ids' = Ids /\ entries' \in Seq(EntryRow) /\ n # 0
    BY <1>1, <1>2, TypeFacts DEF Ids, Types, TypeOK
  <1>4. \A i \in Invoices' : invoices'[i].entry \in {0} \cup Ids' /\ invoices'[i].creditFor \in {0} \cup Invoices'
    BY <1>2, <1>3, <1>9 DEF Types, TypeOK
  <1>5. work[w].credits \in {0} \cup Invoices /\ (work[w].credits # 0 \/ work[w].todo > 0)
    BY DEF InsertInvoice, Types, JobsOK
  <1>6. overlapped \subseteq Invoices
    BY DEF Types, TypeOK
  <1>7. work'[w].at = "lines"
    BY <1>2 DEF At
  <1>8. QED
    BY <1>2, <1>3, <1>4, <1>5, <1>6, <1>7, TypesOfTables

LEMMA TypesOfUpdates ==
  ASSUME Types, NEW w \in Workers, InsertLine(w) \/ MakeCredit(w) \/ MarkSent(w) \/ RecordPayment(w)
  PROVE  Types'
  <1>1. PICK i : i = work[w].inv
    OBVIOUS
  <1>2. entries' = entries
    BY DEF InsertLine, MakeCredit, MarkSent, RecordPayment
  <1>3. \A k \in Invoices : invoices[k].entry \in {0} \cup Ids /\ invoices[k].creditFor \in {0} \cup Invoices
    BY DEF Types, TypeOK
  <1>4. CASE InsertLine(w)
    <2>1. At(w, "lines")
      BY <1>4 DEF InsertLine
    <2>2. QED
      BY <1>1, <1>2, <1>3, <1>4, <2>1, InsertLineWrites, TypesOfRows
  <1>5. CASE MakeCredit(w)
    <2>1. work[w].credits \in {0} \cup Invoices
      BY DEF Types, JobsOK
    <2>2. QED
      BY <1>1, <1>2, <1>3, <1>5, <2>1, MakeCreditWrites, TypesOfRows
  <1>6. CASE MarkSent(w)
    <2>1. work[w].entry \in Ids
      BY <1>6 DEF MarkSent, At, Types, TypeOK
    <2>2. QED
      BY <1>1, <1>2, <1>3, <1>6, <2>1, MarkSentWrites, TypesOfRows
  <1>7. CASE RecordPayment(w)
    BY <1>1, <1>2, <1>3, <1>7, RecordPaymentWrites, TypesOfRows
  <1>8. QED
    BY <1>4, <1>5, <1>6, <1>7

LEMMA TypesOfReverse ==
  ASSUME Types, NEW e \in Ids, Reverse(e)
  PROVE  Types'
  <1>1. /\ entries' \in Seq(EntryRow) /\ Ids \subseteq Ids' /\ invoices' \in Seq(InvoiceRow)
        /\ Invoices' = Invoices
    BY ReverseWrites
  <1>2. \A i \in Invoices : invoices'[i].entry = invoices[i].entry /\ invoices'[i].creditFor = invoices[i].creditFor
    BY ReverseWrites
  <1>3. overlapped' \subseteq Invoices
    <2>1. overlapped \subseteq Invoices /\ \A w \in Workers : work[w].inv \in {0} \cup Invoices
      BY DEF Types, TypeOK, JobsOK
    <2>2. QED
      BY <2>1 DEF Reverse, Touch, Busy
  <1>4. work' = work
    BY DEF Reverse
  <1>5. JobsOK'
    BY <1>1, <1>4 DEF Types, JobsOK, At
  <1>6. TypeOK'
    BY <1>1, <1>2, <1>3, <1>4 DEF Types, TypeOK
  <1>7. QED
    BY <1>5, <1>6 DEF Types

LEMMA NextTypes ==
  ASSUME Types, Next
  PROVE  Types'
  <1>1. ASSUME NEW w \in Workers, Step(w)
        PROVE  Types'
    <2>1. CASE \E n \in 1 .. MaxLines : Create(w, n)
      BY <2>1, TypesOfStart
    <2>2. CASE \E i \in Invoices : Credit(w, i) \/ Finalize(w, i) \/ \E a \in 1 .. MaxLines : Pay(w, i, a)
      <3>1. \A i \in Invoices : i # 0
        BY TypeFacts
      <3>2. ASSUME NEW i \in Invoices, Credit(w, i) \/ Finalize(w, i)
            PROVE  Types'
        <4>1. i # 0 /\ UNCHANGED <<invoices, entries>> /\ overlapped \subseteq Invoices /\ 0 \notin Invoices
          BY <3>1, <3>2 DEF Credit, Finalize, Types, TypeOK
        <4>2. CASE Credit(w, i)
          BY <4>1, <4>2, StartWrites, TypesWork DEF At
        <4>3. CASE Finalize(w, i)
          BY <4>1, <4>3, StartWrites, TypesWork DEF At
        <4>4. QED
          BY <3>2, <4>2, <4>3
      <3>3. QED
        BY <2>2, <3>1, <3>2, TypesOfStart
    <2>3. QED
      BY <1>1, <2>1, <2>2, TypesOfInsert, TypesOfUpdates, TypesOfWork, TypesOfEntries DEF Step
  <1>2. QED
    BY <1>1, TypesOfReverse DEF Next

\* Every variable keeps its type, and a process works on an invoice there is.
THEOREM TypeCorrect == Spec => []TypeOK
  <1>1. Init => Types
    BY InitTypes
  <1>2. Types /\ [Next]_vars => Types'
    BY NextTypes, TypesStutter
  <1>3. Types => TypeOK
    BY DEF Types
  <1>4. QED
    BY <1>1, <1>2, <1>3, PTL DEF Spec


----------------------------------------------------------------------------------
(* Entries and invoices stay linked. *)

LEMMA LinkedWork ==
  ASSUME Types, Types', Linked, entries' = entries, NEW w \in Workers, OthersKept(w),
         work'[w].at \notin {"post", "update"},
         \A i \in Invoices' :
            \/ invoices'[i].entry = 0
            \/ i \in Invoices /\ invoices'[i].entry = invoices[i].entry
            \/ BookedFor(invoices'[i].entry, i) /\ IsPosted(invoices'[i].entry)
  PROVE  Linked'
  <1>1. Ids' = Ids /\ \A e : (IsPosted(e)' <=> IsPosted(e)) /\ \A i : (BookedFor(e, i)' <=> BookedFor(e, i))
    BY DEF Ids, IsPosted, BookedFor
  <1>2. \A v \in Workers : At(v, "post")' \/ At(v, "update")' => work'[v] = work[v]
    BY DEF OthersKept, At
  <1>3. \A v \in Workers : At(v, "post")' => BookedFor(work'[v].entry, work'[v].inv)
    BY <1>2 DEF Linked, At
  <1>4. \A v \in Workers : At(v, "update")' =>
          BookedFor(work'[v].entry, work'[v].inv) /\ IsPosted(work'[v].entry)
    BY <1>2 DEF Linked, At
  <1>5. \A i \in Invoices' : invoices'[i].entry # 0 =>
          BookedFor(invoices'[i].entry, i) /\ IsPosted(invoices'[i].entry)
    BY DEF Linked
  <1>6. \A r \in Ids' : entries'[r].reversedFrom # 0 =>
          IsPosted(r)' /\ entries'[r].reversedFrom \in Ids' /\ IsPosted(entries[r].reversedFrom)'
    BY <1>1 DEF Linked
  <1>7. QED
    BY <1>3, <1>4, <1>5, <1>6 DEF Linked, BookedFor, IsPosted

LEMMA LinkedCreate ==
  ASSUME Types, Types', Linked, NEW w \in Workers, CreateEntry(w)
  PROVE  Linked'
  <1>1. PICK e : e = LastId + 1
    OBVIOUS
  <1>2. /\ Ids' = Ids \cup {e} /\ e \notin Ids /\ \A f \in Ids : entries'[f] = entries[f]
        /\ entries'[e].source = "invoice" /\ entries'[e].ref = work[w].inv /\ entries'[e].reversedFrom = 0
    BY <1>1, CreateEntryWrites
  <1>3. OthersKept(w) /\ At(w, "post")' /\ work'[w].inv = work[w].inv /\ work'[w].entry = e
    BY <1>1, NumberWrites DEF Continues
  <1>4. invoices' = invoices /\ Invoices' = Invoices
    BY DEF CreateEntry, Invoices
  <1>5. \A r \in Ids : entries[r].reversedFrom # 0 =>
          IsPosted(r) /\ entries[r].reversedFrom \in Ids /\ IsPosted(entries[r].reversedFrom)
    BY DEF Linked
  <1>6. \A r \in Ids' : entries'[r].reversedFrom # 0 =>
          IsPosted(r)' /\ entries'[r].reversedFrom \in Ids' /\ IsPosted(entries[r].reversedFrom)'
    BY <1>2, <1>5 DEF IsPosted
  <1>7. \A i \in Invoices : invoices[i].entry # 0 => invoices[i].entry \in Ids
    BY DEF Types, TypeOK
  <1>8. \A i \in Invoices : invoices[i].entry # 0 =>
          BookedFor(invoices[i].entry, i)' /\ IsPosted(invoices[i].entry)'
    BY <1>2, <1>4, <1>7 DEF Linked, BookedFor, IsPosted
  <1>9. \A v \in Workers : At(v, "post")' => BookedFor(work[v].entry, work[v].inv)'
    <2>1. ASSUME NEW v \in Workers, At(v, "post")', v # w
          PROVE  BookedFor(work[v].entry, work[v].inv)'
      <3>1. work'[v] = work[v] /\ At(v, "post")
        BY <1>3, <2>1 DEF OthersKept, At
      <3>2. work[v].entry \in Ids /\ BookedFor(work[v].entry, work[v].inv)
        BY <3>1 DEF Types, TypeOK, At, Linked
      <3>3. QED
        BY <1>2, <3>1, <3>2 DEF BookedFor
    <2>2. BookedFor(work[w].entry, work[w].inv)'
      BY <1>2, <1>3 DEF BookedFor
    <2>3. QED
      BY <2>1, <2>2
  <1>10. \A v \in Workers : At(v, "update")' =>
           BookedFor(work[v].entry, work[v].inv)' /\ IsPosted(work[v].entry)'
    <2>1. ASSUME NEW v \in Workers, At(v, "update")'
          PROVE  BookedFor(work[v].entry, work[v].inv)' /\ IsPosted(work[v].entry)'
      <3>1. work'[v] = work[v] /\ At(v, "update")
        BY <1>3, <2>1 DEF OthersKept, At
      <3>2. work[v].entry \in Ids /\ BookedFor(work[v].entry, work[v].inv) /\ IsPosted(work[v].entry)
        BY <3>1 DEF Types, TypeOK, At, Linked
      <3>3. QED
        BY <1>2, <3>1, <3>2 DEF BookedFor, IsPosted
    <2>2. QED
      BY <2>1
  <1>11. QED
    BY <1>4, <1>6, <1>8, <1>9, <1>10 DEF Linked

LEMMA LinkedPost ==
  ASSUME Types, Types', Linked, NEW w \in Workers, PostEntry(w)
  PROVE  Linked'
  <1>1. PICK e : e = work[w].entry
    OBVIOUS
  <1>2. JournalKept /\ Ids' = Ids /\ e \in Ids /\ IsPosted(e)'
    BY <1>1, PostEntryWrites
  <1>3. /\ OthersKept(w) /\ At(w, "update")' /\ work'[w].inv = work[w].inv /\ work'[w].entry = e
        /\ At(w, "post")
    BY <1>1, NumberWrites DEF Continues, PostEntry
  <1>4. invoices' = invoices /\ Invoices' = Invoices
    BY DEF PostEntry, Invoices
  <1>5. \A f \in Ids : \A i : BookedFor(f, i) => BookedFor(f, i)'
    BY <1>2 DEF JournalKept, BookedFor
  <1>6. \A f \in Ids : IsPosted(f) => IsPosted(f)'
    BY <1>2 DEF JournalKept
  <1>7. \A r \in Ids' : entries'[r].reversedFrom # 0 =>
          IsPosted(r)' /\ entries'[r].reversedFrom \in Ids' /\ IsPosted(entries[r].reversedFrom)'
    <2>1. \A r \in Ids : entries'[r].reversedFrom = entries[r].reversedFrom
      BY <1>2 DEF JournalKept
    <2>2. \A r \in Ids : entries[r].reversedFrom # 0 =>
            IsPosted(r) /\ entries[r].reversedFrom \in Ids /\ IsPosted(entries[r].reversedFrom)
      BY DEF Linked
    <2>3. QED
      BY <1>2, <1>6, <2>1, <2>2 DEF IsPosted
  <1>8. \A i \in Invoices : invoices[i].entry # 0 =>
          BookedFor(invoices[i].entry, i)' /\ IsPosted(invoices[i].entry)'
    <2>1. \A i \in Invoices : invoices[i].entry # 0 => invoices[i].entry \in Ids
      BY DEF Types, TypeOK
    <2>2. QED
      BY <1>2, <1>4, <2>1 DEF Linked, JournalKept, BookedFor, IsPosted
  <1>9. ASSUME NEW v \in Workers, At(v, "post")' \/ At(v, "update")'
        PROVE  BookedFor(work[v].entry, work[v].inv)' /\ (At(v, "update")' => IsPosted(work[v].entry)')
    <2>1. CASE v = w
      <3>1. BookedFor(e, work[w].inv)
        BY <1>1, <1>3 DEF Linked
      <3>2. QED
        BY <1>2, <1>3, <2>1, <3>1 DEF JournalKept, BookedFor, IsPosted
    <2>2. CASE v # w
      <3>1. work'[v] = work[v] /\ (At(v, "post") \/ At(v, "update")) /\ (At(v, "update")' => At(v, "update"))
        BY <1>3, <1>9, <2>2 DEF OthersKept, At
      <3>2. /\ work[v].entry \in Ids /\ BookedFor(work[v].entry, work[v].inv)
            /\ At(v, "update") => IsPosted(work[v].entry)
        BY <3>1 DEF Types, TypeOK, At, Linked
      <3>3. QED
        BY <1>2, <3>1, <3>2 DEF JournalKept, BookedFor, IsPosted
    <2>3. QED
      BY <2>1, <2>2
  <1>10. QED
    BY <1>4, <1>7, <1>8, <1>9 DEF Linked

LEMMA LinkedReverse ==
  ASSUME Types, Types', Linked, NEW e \in Ids, Reverse(e)
  PROVE  Linked'
  <1>1. PICK n : n = LastId + 1
    OBVIOUS
  <1>2. /\ Ids' = Ids \cup {n} /\ n \notin Ids /\ \A f \in Ids : entries'[f] = entries[f]
        /\ IsPosted(n)' /\ entries'[n].reversedFrom = e /\ IsPosted(e) /\ Invoices' = Invoices
    BY <1>1, ReverseWrites
  <1>3. \A i \in Invoices : invoices'[i].entry = invoices[i].entry
    BY ReverseWrites
  <1>4. work' = work
    BY DEF Reverse
  <1>5. \A r \in Ids : entries[r].reversedFrom # 0 =>
          IsPosted(r) /\ entries[r].reversedFrom \in Ids /\ IsPosted(entries[r].reversedFrom)
    BY DEF Linked
  <1>6. \A r \in Ids' : entries'[r].reversedFrom # 0 =>
          IsPosted(r)' /\ entries'[r].reversedFrom \in Ids' /\ IsPosted(entries[r].reversedFrom)'
    BY <1>2, <1>5 DEF IsPosted
  <1>7. \A i \in Invoices : invoices[i].entry # 0 => invoices[i].entry \in Ids
    BY DEF Types, TypeOK
  <1>8. \A i \in Invoices : invoices'[i].entry # 0 =>
          BookedFor(invoices[i].entry, i)' /\ IsPosted(invoices[i].entry)'
    BY <1>2, <1>3, <1>7 DEF Linked, BookedFor, IsPosted
  <1>9. ASSUME NEW v \in Workers, At(v, "post") \/ At(v, "update")
        PROVE  BookedFor(work[v].entry, work[v].inv)' /\ (At(v, "update") => IsPosted(work[v].entry)')
    <2>1. /\ work[v].entry \in Ids /\ BookedFor(work[v].entry, work[v].inv)
          /\ At(v, "update") => IsPosted(work[v].entry)
      BY <1>9 DEF Types, TypeOK, At, Linked
    <2>2. QED
      BY <1>2, <1>4, <2>1 DEF BookedFor, IsPosted
  <1>10. \A v \in Workers : (At(v, "post")' => At(v, "post")) /\ (At(v, "update")' => At(v, "update"))
    BY <1>4 DEF At
  <1>11. QED
    BY <1>2, <1>6, <1>8, <1>9, <1>10 DEF Linked


----------------------------------------------------------------------------------
(* Invoices that no two commands worked on at once. *)

\* An invoice that was finalized keeps its lines and its type.
Final ==
  \A o \in Invoices : o \in Alone /\ o \in Alone' /\ invoices[o].status # "draft" =>
    /\ invoices'[o].status # "draft"
    /\ invoices'[o].type = invoices[o].type
    /\ invoices'[o].lines = invoices[o].lines

\* What a step leaves alone.
Grows ==
  /\ Types /\ Types' /\ Linked
  /\ overlapped \subseteq overlapped' /\ Invoices \subseteq Invoices' /\ JournalKept /\ Final

LEMMA JournalStays ==
  ASSUME entries' = entries
  PROVE  /\ JournalKept /\ Ids' = Ids
         /\ \A e : (HasReversal(e)' <=> HasReversal(e)) /\ (IsDraft(e)' <=> IsDraft(e))
  BY DEF JournalKept, Ids, IsPosted, IsDraft, HasReversal

LEMMA AloneFacts ==
  ASSUME Grows
  PROVE  \A i \in Invoices : i \in Alone' => i \in Alone
  BY DEF Grows, Alone

LEMMA AsLongKept ==
  ASSUME Grows, NEW n, NEW o \in {0} \cup Invoices, AsLongAs(n, o)
  PROVE  AsLongAs(n, o)'
  <1>1. CASE o \in Alone'
    <2>1. o \in Invoices
      BY <1>1, TypeFacts DEF Grows, Alone, Invoices, Types, TypeOK
    <2>2. o \in Alone
      BY <1>1, <2>1, AloneFacts
    <2>3. QED
      BY <1>1, <2>1, <2>2 DEF AsLongAs, Grows, Final, Gross
  <1>2. CASE o \notin Alone'
    BY <1>2 DEF AsLongAs
  <1>3. QED
    BY <1>1, <1>2

LEMMA RowKept ==
  ASSUME Grows, NEW i \in Invoices, RowOK(i), invoices'[i] = invoices[i],
         invoices[i].entry \in Ids => (HasReversal(invoices[i].entry)' <=> HasReversal(invoices[i].entry))
  PROVE  RowOK(i)'
  <1>1. PICK row, e : row = invoices[i] /\ e = invoices[i].entry
    OBVIOUS
  <1>2. row = invoices'[i] /\ e = invoices'[i].entry /\ e \in {0} \cup Ids /\ row.creditFor \in {0} \cup Invoices
    BY <1>1 DEF Grows, Types, TypeOK
  <1>3. Gross(i)' = Gross(i) /\ Booked(i)' = Booked(i)
    BY DEF Gross, Booked
  <1>4. e \in Ids => entries'[e].postings = entries[e].postings
    BY DEF Grows, JournalKept
  <1>5. row.type = "credit" => AsLongAs(row.lines, row.creditFor)'
    BY <1>1, <1>2, AsLongKept DEF RowOK, Gross
  <1>6. invoices'[i].type = "credit" => AsLongAs(Gross(i), invoices[i].creditFor)'
    BY <1>1, <1>2, <1>5 DEF Gross
  <1>7. /\ invoices'[i].status = "draft" =>
             invoices'[i].number = 0 /\ invoices'[i].entry = 0 /\ invoices'[i].paid = 0
        /\ invoices'[i].paid <= Gross(i)'
        /\ invoices'[i].status = "paid" => invoices'[i].paid = Gross(i)'
        /\ invoices'[i].status = "sent" => invoices'[i].paid < Gross(i)'
        /\ invoices'[i].status # "draft" => e # 0
    BY <1>1, <1>3 DEF RowOK
  <1>8. invoices'[i].status # "draft" => entries'[e].postings = Booked(i)'
    BY <1>1, <1>2, <1>3, <1>4 DEF RowOK
  <1>9. /\ invoices'[i].status \in {"sent", "paid"} => ~HasReversal(e)'
        /\ invoices'[i].status = "void" => HasReversal(e)'
    BY <1>1, <1>2 DEF RowOK
  <1>10. QED
    BY <1>2, <1>6, <1>7, <1>8, <1>9 DEF RowOK

LEMMA JobKept ==
  ASSUME Grows, NEW w \in Workers, NEW i \in Invoices, i = work[w].inv, JobOK(w, i),
         invoices'[i] = invoices[i], work'[w] = work[w],
         At(w, "post") => (IsDraft(work[w].entry)' <=> IsDraft(work[w].entry)),
         At(w, "post") \/ At(w, "update") =>
           (HasReversal(work[w].entry)' <=> HasReversal(work[w].entry))
  PROVE  JobOK(w, i)'
  <1>1. PICK j, e : j = work[w] /\ e = work[w].entry
    OBVIOUS
  <1>2. j = work'[w] /\ e = work'[w].entry /\ j.credits \in {0} \cup Invoices
    BY <1>1 DEF Grows, Types, JobsOK
  <1>3. Gross(i)' = Gross(i) /\ Booked(i)' = Booked(i)
    BY DEF Gross, Booked
  <1>4. PICK n : n = Gross(i) + j.todo
    OBVIOUS
  <1>5. At(w, "lines")' => AsLongAs(n, j.credits)'
    BY <1>1, <1>2, <1>4, AsLongKept DEF JobOK, At
  <1>6. At(w, "lines")' => AsLongAs(Gross(i) + work[w].todo, work[w].credits)'
    BY <1>2, <1>3, <1>4, <1>5
  <1>7. At(w, "lines")' => invoices'[i].status = "draft" /\ invoices'[i].type = "sales"
    BY DEF JobOK, At
  <1>8. work'[w].at \in {"number", "create", "post", "update"} =>
          invoices'[i].status = "draft" /\ work'[w].gross = Booked(i)' /\ Gross(i)' > 0
    BY <1>3 DEF JobOK
  <1>9. At(w, "post")' => IsDraft(e)'
    BY <1>1 DEF JobOK, At
  <1>10. work'[w].at \in {"post", "update"} => entries'[e].postings = work'[w].gross /\ ~HasReversal(e)'
    <2>1. work[w].at \in {"post", "update"} => e \in Ids
      BY <1>1 DEF Grows, Types, TypeOK
    <2>2. e \in Ids => entries'[e].postings = entries[e].postings
      BY DEF Grows, JournalKept
    <2>3. QED
      BY <1>1, <2>1, <2>2 DEF JobOK, At
  <1>11. At(w, "pay")' =>
           /\ invoices'[i].status = "sent"
           /\ work'[w].gross = Gross(i)' /\ work'[w].paid = invoices'[i].paid
           /\ work'[w].todo + work'[w].paid <= work'[w].gross
    BY <1>3 DEF JobOK, At
  <1>12. QED
    BY <1>2, <1>6, <1>7, <1>8, <1>9, <1>10, <1>11 DEF JobOK

\* Nobody joins a process that works on an invoice alone.
LEMMA SoloKept ==
  ASSUME Grows, AloneOK, NEW w \in Workers, OthersKept(w),
         \/ work'[w].inv \in {0, work[w].inv}
         \/ ~Busy(work'[w].inv) \/ work'[w].inv \in overlapped'
  PROVE  \A i \in Alone' : Solo(i)'
  <1>1. TAKE i \in Alone'
  <1>2. i # 0
    BY TypeFacts DEF Grows, Types, TypeOK, Alone, Invoices
  <1>3. \A v, u \in Workers : work[v].inv = i /\ work[u].inv = i => v = u
    <2>1. CASE i \in Invoices
      BY <2>1, AloneFacts DEF AloneOK, Solo
    <2>2. CASE i \notin Invoices
      BY <1>2, <2>2 DEF Grows, Types, JobsOK
    <2>3. QED
      BY <2>1, <2>2
  <1>4. i \notin overlapped'
    BY DEF Alone
  <1>5. QED
    BY <1>2, <1>3, <1>4 DEF Solo, OthersKept, Busy

\* What all the steps of one process have in common.
LEMMA AloneStep ==
  ASSUME Grows, AloneOK, NEW w \in Workers, OthersKept(w),
         \/ work'[w].inv \in {0, work[w].inv}
         \/ ~Busy(work'[w].inv) \/ work'[w].inv \in overlapped',
         NEW j \in {0} \cup Invoices', j \in Invoices => j = work[w].inv,
         \A i \in Invoices : i # j => invoices'[i] = invoices[i],
         Invoices' \subseteq Invoices \cup {j},
         \A e \in Ids : HasReversal(e)' <=> HasReversal(e),
         \A v \in Workers : v # w /\ At(v, "post") /\ work[v].inv \in Alone' =>
           (IsDraft(work[v].entry)' <=> IsDraft(work[v].entry)),
         j \in Alone' => RowOK(j)',
         work'[w].inv \in Alone' => JobOK(w, work[w].inv)',
         At(w, "insert")' => AsLongAs(work[w].todo, work[w].credits)'
  PROVE  AloneOK'
  <1>1. \A i \in Alone' : Solo(i)'
    BY SoloKept
  <1>2. ASSUME NEW i \in Alone' PROVE RowOK(i)'
    <2>1. CASE i = j
      BY <2>1
    <2>2. CASE i # j
      <3>1. i \in Invoices /\ i \in Alone
        BY <2>2, AloneFacts DEF Alone
      <3>2. RowOK(i) /\ invoices'[i] = invoices[i]
        BY <2>2, <3>1 DEF AloneOK
      <3>3. QED
        BY <3>1, <3>2, RowKept
    <2>3. QED
      BY <2>1, <2>2
  <1>3. ASSUME NEW v \in Workers, work'[v].inv \in Alone' PROVE JobOK(v, work[v].inv)'
    <2>1. CASE v = w
      BY <1>3, <2>1
    <2>2. CASE v # w
      <3>1. PICK i : i = work[v].inv
        OBVIOUS
      <3>2. work'[v] = work[v] /\ i = work'[v].inv /\ i \in Alone'
        BY <1>3, <2>2, <3>1 DEF OthersKept
      <3>3. i # 0 /\ i \in Invoices
        BY <3>1, <3>2, TypeFacts DEF Grows, Types, TypeOK, JobsOK, Alone, Invoices
      <3>4. i \in Alone
        BY <3>2, <3>3, AloneFacts
      <3>5. i # j
        BY <2>2, <3>1, <3>3, <3>4 DEF AloneOK, Solo
      <3>6. invoices'[i] = invoices[i] /\ JobOK(v, i)
        BY <3>1, <3>3, <3>4, <3>5 DEF AloneOK
      <3>7. At(v, "post") \/ At(v, "update") => work[v].entry \in Ids
        BY DEF Grows, Types, TypeOK, At
      <3>8. JobOK(v, i)'
        BY <2>2, <3>1, <3>2, <3>3, <3>6, <3>7, JobKept
      <3>9. QED
        BY <3>2, <3>8
    <2>3. QED
      BY <2>1, <2>2
  <1>4. ASSUME NEW v \in Workers, At(v, "insert")'
        PROVE  AsLongAs(work[v].todo, work[v].credits)'
    <2>1. CASE v = w
      BY <1>4, <2>1
    <2>2. CASE v # w
      <3>1. PICK n, o : n = work[v].todo /\ o = work[v].credits
        OBVIOUS
      <3>2. n = work'[v].todo /\ o = work'[v].credits /\ At(v, "insert")
        BY <1>4, <2>2, <3>1 DEF OthersKept, At
      <3>3. AsLongAs(n, o) /\ o \in {0} \cup Invoices
        BY <3>1, <3>2 DEF AloneOK, Grows, Types, JobsOK
      <3>4. AsLongAs(n, o)'
        BY <3>3, AsLongKept
      <3>5. QED
        BY <3>2, <3>4
    <2>3. QED
      BY <2>1, <2>2
  <1>5. QED
    BY <1>1, <1>2, <1>3, <1>4 DEF AloneOK


LEMMA UnchangedGrows ==
  ASSUME Types, Types', Linked, UNCHANGED <<invoices, entries>>, overlapped \subseteq overlapped'
  PROVE  /\ Grows /\ Invoices' = Invoices
         /\ \A i \in Invoices : Gross(i)' = Gross(i) /\ Booked(i)' = Booked(i)
  BY JournalStays DEF Grows, Final, Invoices, Gross, Booked

\* Steps that change only what a process is doing.
LEMMA AloneJob ==
  ASSUME Types, Types', Linked, AloneOK, UNCHANGED <<invoices, entries>>, overlapped \subseteq overlapped',
         NEW w \in Workers, OthersKept(w),
         \/ work'[w].inv \in {0, work[w].inv}
         \/ ~Busy(work'[w].inv) \/ work'[w].inv \in overlapped',
         work'[w].inv \in Alone' => JobOK(w, work[w].inv)',
         At(w, "insert")' => AsLongAs(work[w].todo, work[w].credits)'
  PROVE  AloneOK'
  <1>1. Grows /\ Invoices' = Invoices
    BY UnchangedGrows
  <1>2. 0 \notin Invoices
    BY TypeFacts
  <1>3. /\ \A i \in Invoices : invoices'[i] = invoices[i]
        /\ \A e : (HasReversal(e)' <=> HasReversal(e)) /\ (IsDraft(e)' <=> IsDraft(e))
    BY JournalStays
  <1>4. 0 \notin Alone'
    BY <1>1, <1>2 DEF Alone
  <1>5. PICK j : j = 0
    OBVIOUS
  <1>6. /\ j \in {0} \cup Invoices' /\ (j \in Invoices => j = work[w].inv)
        /\ \A i \in Invoices : i # j => invoices'[i] = invoices[i]
        /\ Invoices' \subseteq Invoices \cup {j}
    BY <1>1, <1>2, <1>3, <1>5
  <1>7. j \in Alone' => RowOK(j)'
    BY <1>4, <1>5
  <1>8. \A v \in Workers : v # w /\ At(v, "post") /\ work[v].inv \in Alone' =>
          (IsDraft(work[v].entry)' <=> IsDraft(work[v].entry))
    BY <1>3 DEF IsDraft, OthersKept
  <1>9. \A e \in Ids : HasReversal(e)' <=> HasReversal(e)
    BY <1>3
  <1>10. QED
    BY <1>1, <1>6, <1>7, <1>8, <1>9, AloneStep

LEMMA BeginAlone ==
  ASSUME Types, Types', Linked, AloneOK, NEW w \in Workers, NEW i \in Invoices,
         Credit(w, i) \/ Finalize(w, i) \/ \E n \in 1 .. MaxLines : Pay(w, i, n)
  PROVE  AloneOK'
  <1>1. UNCHANGED <<invoices, entries>>
    BY DEF Credit, Finalize, Pay
  <1>2. 0 \notin Invoices /\ 0 \notin Alone' /\ Invoices' = Invoices
    BY <1>1, TypeFacts DEF Alone, Invoices
  <1>3. CASE Credit(w, i)
    <2>1. /\ OthersKept(w) /\ overlapped' = overlapped /\ work'[w].inv = 0 /\ work'[w].credits = i
          /\ work'[w].todo = Gross(i)
      BY <1>3, StartWrites
    <2>2. AsLongAs(work[w].todo, work[w].credits)'
      BY <1>1, <1>2, <1>3, <2>1 DEF AsLongAs, Credit, Gross
    <2>3. QED
      BY <1>1, <1>2, <2>1, <2>2, AloneJob
  <1>4. CASE Finalize(w, i)
    <2>1. /\ OthersKept(w) /\ work'[w].inv = i /\ At(w, "number")' /\ work'[w].gross = Booked(i)
          /\ overlapped' = IF Busy(i) THEN overlapped \cup {i} ELSE overlapped
      BY <1>4, StartWrites
    <2>2. JobOK(w, i)'
      BY <1>1, <1>4, <2>1 DEF JobOK, At, Finalize, Gross, Booked
    <2>3. /\ work'[w].inv \in Alone' => JobOK(w, work[w].inv)'
          /\ ~At(w, "insert")'
      BY <2>1, <2>2 DEF At
    <2>4. overlapped \subseteq overlapped' /\ (~Busy(i) \/ i \in overlapped')
      BY <2>1
    <2>5. QED
      BY <1>1, <2>1, <2>3, <2>4, AloneJob
  <1>5. ASSUME NEW n \in 1 .. MaxLines, Pay(w, i, n) PROVE AloneOK'
    <2>1. /\ OthersKept(w) /\ work'[w].inv = i /\ At(w, "pay")' /\ work'[w].todo = n
          /\ work'[w].gross = Gross(i) /\ work'[w].paid = invoices[i].paid
          /\ overlapped' = IF Busy(i) THEN overlapped \cup {i} ELSE overlapped
      BY <1>5, StartWrites
    <2>2. JobOK(w, i)'
      <3>1. n + invoices[i].paid <= Gross(i) /\ invoices[i].status = "sent"
        <4>1. invoices[i].paid \in Nat /\ Gross(i) \in Nat
          BY TypeFacts DEF InvoiceRow
        <4>2. n \in Nat
          BY <1>5, Bounds
        <4>3. n <= Gross(i) - invoices[i].paid /\ invoices[i].status = "sent"
          BY <1>5 DEF Pay, Within, Payable
        <4>4. QED
          BY <4>1, <4>2, <4>3
      <3>2. QED
        BY <1>1, <2>1, <3>1 DEF JobOK, At, Gross
    <2>3. /\ work'[w].inv \in Alone' => JobOK(w, work[w].inv)'
          /\ ~At(w, "insert")'
      BY <2>1, <2>2 DEF At
    <2>4. overlapped \subseteq overlapped' /\ (~Busy(i) \/ i \in overlapped')
      BY <2>1
    <2>5. QED
      BY <1>1, <2>1, <2>3, <2>4, AloneJob
  <1>6. QED
    BY <1>3, <1>4, <1>5

LEMMA StartAlone ==
  ASSUME Types, Types', Linked, AloneOK, NEW w \in Workers, NEW n \in 1 .. MaxLines, Create(w, n)
  PROVE  AloneOK'
  <1>1. UNCHANGED <<invoices, entries>>
    BY DEF Create
  <1>2. 0 \notin Alone'
    BY <1>1, TypeFacts DEF Alone, Invoices
  <1>3. OthersKept(w) /\ overlapped' = overlapped /\ work'[w].inv = 0 /\ work'[w].credits = 0
    BY StartWrites
  <1>4. AsLongAs(work[w].todo, work[w].credits)'
    BY <1>2, <1>3 DEF AsLongAs
  <1>5. QED
    BY <1>1, <1>2, <1>3, <1>4, AloneJob

LEMMA WorkAlone ==
  ASSUME Types, Types', Linked, AloneOK, NEW w \in Workers, TakeNumber(w) \/ Collide(w) \/ Crash(w)
  PROVE  AloneOK'
  <1>1. UNCHANGED <<invoices, entries>>
    BY DEF TakeNumber, Collide, Crash
  <1>2. 0 \notin Alone' /\ Alone' \subseteq Invoices
    BY <1>1, TypeFacts DEF Alone, Invoices
  <1>3. OthersKept(w) /\ overlapped' = overlapped
    <2>1. CASE TakeNumber(w) \/ Collide(w)
      BY <2>1, NumberWrites
    <2>2. CASE Crash(w)
      BY <2>2, GoDoes DEF Crash
    <2>3. QED
      BY <2>1, <2>2
  <1>4. \/ Stops(w)
        \/ /\ Continues(w) /\ work'[w].at \in {"number", "create"} /\ work[w].at \in {"number", "update"}
    <2>1. CASE TakeNumber(w)
      BY <2>1, NumberWrites DEF At, TakeNumber
    <2>2. CASE Collide(w)
      BY <2>2, NumberWrites DEF At, Collide
    <2>3. CASE Crash(w)
      BY <2>3, GoDoes, RowTypes DEF Crash, Stops
    <2>4. QED
      BY <2>1, <2>2, <2>3
  <1>5. CASE Stops(w)
    BY <1>1, <1>2, <1>3, <1>5, RowTypes, AloneJob DEF Stops, At
  <1>6. CASE Continues(w) /\ work'[w].at \in {"number", "create"} /\ work[w].at \in {"number", "update"}
    <2>1. PICK i : i = work[w].inv
      OBVIOUS
    <2>2. i = work'[w].inv
      BY <1>6, <2>1 DEF Continues
    <2>3. ASSUME i \in Alone' PROVE JobOK(w, i)'
      <3>1. JobOK(w, i)
        BY <1>1, <1>3, <2>1, <2>3 DEF AloneOK, Alone, Invoices
      <3>2. invoices[i].status = "draft" /\ work[w].gross = Booked(i) /\ Gross(i) > 0
        BY <1>6, <3>1 DEF JobOK
      <3>3. QED
        BY <1>1, <1>6, <3>2 DEF JobOK, At, Continues, Booked, Gross
    <2>4. ~At(w, "insert")'
      BY <1>6 DEF At
    <2>5. work'[w].inv \in Alone' => JobOK(w, work[w].inv)'
      BY <2>2, <2>3
    <2>6. QED
      BY <1>1, <1>3, <2>1, <2>2, <2>4, <2>5, AloneJob
  <1>7. QED
    BY <1>4, <1>5, <1>6

LEMMA InsertAlone ==
  ASSUME Types, Types', Linked, AloneOK, NEW w \in Workers, InsertInvoice(w)
  PROVE  AloneOK'
  <1>1. PICK n : n = Len(invoices) + 1
    OBVIOUS
  <1>2. /\ OthersKept(w) /\ overlapped' = overlapped /\ At(w, "lines")' /\ work'[w].inv = n
        /\ work'[w].credits = work[w].credits /\ work'[w].todo = work[w].todo
        /\ Invoices' = Invoices \cup {n} /\ n \notin Invoices /\ n # 0
        /\ \A i \in Invoices : invoices'[i] = invoices[i]
    BY <1>1, InsertInvoiceWrites, TypeFacts
  <1>3. /\ invoices'[n].type = "sales" /\ invoices'[n].status = "draft" /\ invoices'[n].number = 0
        /\ invoices'[n].entry = 0 /\ invoices'[n].lines = 0 /\ invoices'[n].paid = 0
    BY <1>1, InsertInvoiceWrites
  <1>4. entries' = entries /\ At(w, "insert")
    BY DEF InsertInvoice
  <1>5. Grows
    BY <1>2, <1>4, JournalStays DEF Grows, Final
  <1>6. ~Busy(n)
    BY <1>2 DEF Busy, Types, JobsOK
  <1>7. RowOK(n)'
    BY <1>3 DEF RowOK, Gross
  <1>8. JobOK(w, n)'
    <2>1. PICK m, o : m = work[w].todo /\ o = work[w].credits /\ o \in {0} \cup Invoices /\ m \in Nat
      BY TypeFacts DEF Types, JobsOK, JobRow
    <2>2. AsLongAs(m, o)
      BY <1>4, <2>1 DEF AloneOK
    <2>3. AsLongAs(m, o)'
      BY <1>5, <2>1, <2>2, AsLongKept
    <2>4. Gross(n)' + work'[w].todo = m
      BY <1>2, <1>3, <2>1 DEF Gross
    <2>5. AsLongAs(Gross(n) + work[w].todo, work[w].credits)'
      BY <1>2, <2>1, <2>3, <2>4
    <2>6. work'[w].at = "lines"
      BY <1>2 DEF At
    <2>7. QED
      BY <1>3, <2>5, <2>6 DEF JobOK, At
  <1>9. work'[w].inv \in Alone' => JobOK(w, work[w].inv)'
    BY <1>2, <1>8
  <1>10. ~At(w, "insert")'
    BY <1>2 DEF At
  <1>11. \A e : (HasReversal(e)' <=> HasReversal(e)) /\ (IsDraft(e)' <=> IsDraft(e))
    BY <1>4, JournalStays
  <1>12. /\ n \in {0} \cup Invoices' /\ (n \in Invoices => n = work[w].inv)
         /\ \A i \in Invoices : i # n => invoices'[i] = invoices[i]
         /\ Invoices' \subseteq Invoices \cup {n}
    BY <1>2
  <1>13. n \in Alone' => RowOK(n)'
    BY <1>7
  <1>14. \A v \in Workers : v # w /\ At(v, "post") /\ work[v].inv \in Alone' =>
           (IsDraft(work[v].entry)' <=> IsDraft(work[v].entry))
    BY <1>2, <1>4 DEF IsDraft, OthersKept
  <1>15. \A e \in Ids : HasReversal(e)' <=> HasReversal(e)
    BY <1>11
  <1>16. ~Busy(work'[w].inv)
    BY <1>2, <1>6
  <1>17. QED
    BY <1>2, <1>5, <1>9, <1>10, <1>12, <1>13, <1>14, <1>15, <1>16, AloneStep


\* Steps that write the invoice the process works on.
LEMMA AloneUpdate ==
  ASSUME Types, Types', Linked, AloneOK, NEW w \in Workers, OthersKept(w),
         overlapped' = overlapped, entries' = entries,
         NEW j \in Invoices, j = work[w].inv, RowsKept(j),
         work'[w].inv \in {0, j}, work'[w].at # "insert",
         j \in Alone => /\ invoices[j].status = "draft" \/ (/\ invoices'[j].status # "draft"
                                                            /\ invoices'[j].type = invoices[j].type
                                                            /\ invoices'[j].lines = invoices[j].lines)
                        /\ Grows => RowOK(j)' /\ (work'[w].inv = j => JobOK(w, j)')
  PROVE  AloneOK'
  <1>1. /\ Invoices' = Invoices /\ Alone' = Alone
        /\ \A i \in Invoices : i # j => invoices'[i] = invoices[i]
    BY DEF RowsKept, Alone
  <1>2. Final
    BY <1>1 DEF Final
  <1>3. Grows
    BY <1>1, <1>2, JournalStays DEF Grows
  <1>4. j \in Alone' => RowOK(j)'
    BY <1>1, <1>3
  <1>5. 0 \notin Alone'
    BY <1>1, TypeFacts DEF Alone
  <1>6. work'[w].inv \in Alone' => JobOK(w, work[w].inv)'
    BY <1>1, <1>3, <1>5
  <1>7. \A v \in Workers : v # w /\ At(v, "post") /\ work[v].inv \in Alone' =>
          (IsDraft(work[v].entry)' <=> IsDraft(work[v].entry))
    BY DEF IsDraft, OthersKept
  <1>8. \A e \in Ids : HasReversal(e)' <=> HasReversal(e)
    BY JournalStays
  <1>9. ~At(w, "insert")'
    BY DEF At
  <1>10. /\ j \in {0} \cup Invoices' /\ (j \in Invoices => j = work[w].inv)
         /\ Invoices' \subseteq Invoices \cup {j}
    BY <1>1
  <1>11. QED
    BY <1>1, <1>3, <1>4, <1>6, <1>7, <1>8, <1>9, <1>10, AloneStep

LEMMA LineAlone ==
  ASSUME Types, Types', Linked, AloneOK, NEW w \in Workers, InsertLine(w)
  PROVE  AloneOK'
  <1>1. PICK i : i = work[w].inv
    OBVIOUS
  <1>2. /\ OthersKept(w) /\ overlapped' = overlapped
        /\ \/ Stops(w)
           \/ /\ At(w, "lines")' /\ Continues(w) /\ work'[w].todo = work[w].todo - 1
              /\ work'[w].credits # 0 \/ work'[w].todo > 0
        /\ i \in Invoices /\ RowsKept(i)
        /\ invoices'[i].lines = Gross(i) + 1
        /\ invoices'[i].type = invoices[i].type /\ invoices'[i].status = invoices[i].status
        /\ invoices'[i].number = invoices[i].number /\ invoices'[i].entry = invoices[i].entry
        /\ invoices'[i].paid = invoices[i].paid /\ invoices'[i].creditFor = invoices[i].creditFor
    BY <1>1, InsertLineWrites
  <1>3. entries' = entries /\ At(w, "lines")
    BY DEF InsertLine
  <1>4. ASSUME i \in Alone
        PROVE  /\ invoices[i].status = "draft"
               /\ Grows => RowOK(i)' /\ (work'[w].inv = i => JobOK(w, i)')
    <2>1. JobOK(w, i) /\ RowOK(i)
      BY <1>1, <1>4 DEF AloneOK
    <2>2. invoices[i].status = "draft" /\ invoices[i].type = "sales"
      BY <1>3, <2>1 DEF JobOK
    <2>3. Gross(i) \in Nat /\ invoices[i].paid = 0 /\ invoices[i].number = 0 /\ invoices[i].entry = 0
      BY <1>2, <2>1, <2>2, TypeFacts DEF RowOK
    <2>4. RowOK(i)'
      BY <1>2, <2>2, <2>3 DEF RowOK, Gross
    <2>5. ASSUME Grows, work'[w].inv = i PROVE JobOK(w, i)'
      <3>1. At(w, "lines")' /\ Continues(w) /\ work'[w].todo = work[w].todo - 1
        BY <1>2, <2>5, RowTypes, TypeFacts DEF Stops
      <3>9. Gross(i) + work[w].todo \in Nat
        <4>1. work[w].todo \in Nat
          BY TypeFacts DEF JobRow
        <4>2. QED
          BY <2>3, <4>1
      <3>2. PICK n, o : n \in Nat /\ n = Gross(i) + work[w].todo /\ o = work[w].credits
        BY <3>9
      <3>3. AsLongAs(n, o) /\ o \in {0} \cup Invoices
        BY <1>3, <2>1, <3>2 DEF JobOK, Types, JobsOK
      <3>4. AsLongAs(n, o)'
        BY <2>5, <3>3, AsLongKept
      <3>5. Gross(i)' + work'[w].todo = n /\ work'[w].credits = o
        <4>1. work[w].todo \in Nat
          BY TypeFacts DEF JobRow
        <4>2. QED
          BY <1>2, <2>3, <3>1, <3>2, <4>1 DEF Gross, Continues
      <3>6. AsLongAs(Gross(i) + work[w].todo, work[w].credits)'
        BY <3>4, <3>5
      <3>7. work'[w].at = "lines"
        BY <3>1 DEF At
      <3>8. QED
        BY <1>2, <2>2, <3>6, <3>7 DEF JobOK, At
    <2>6. QED
      BY <2>2, <2>4, <2>5
  <1>5. work'[w].inv \in {0, i} /\ work'[w].at # "insert"
    BY <1>1, <1>2, RowTypes DEF Stops, Continues, At
  <1>6. QED
    BY <1>1, <1>2, <1>3, <1>4, <1>5, AloneUpdate

LEMMA CreditAlone ==
  ASSUME Types, Types', Linked, AloneOK, NEW w \in Workers, MakeCredit(w)
  PROVE  AloneOK'
  <1>1. PICK i : i = work[w].inv
    OBVIOUS
  <1>2. /\ OthersKept(w) /\ overlapped' = overlapped /\ Stops(w) /\ i \in Invoices /\ RowsKept(i)
        /\ invoices'[i].type = "credit" /\ invoices'[i].creditFor = work[w].credits
        /\ invoices'[i].lines = Gross(i) /\ invoices'[i].status = invoices[i].status
        /\ invoices'[i].number = invoices[i].number /\ invoices'[i].entry = invoices[i].entry
        /\ invoices'[i].paid = invoices[i].paid
    BY <1>1, MakeCreditWrites
  <1>3. entries' = entries /\ At(w, "lines") /\ work[w].todo = 0
    BY DEF MakeCredit
  <1>4. work'[w].inv = 0 /\ work'[w].at # "insert" /\ i # 0
    BY <1>2, RowTypes, TypeFacts DEF Stops
  <1>5. ASSUME i \in Alone
        PROVE  invoices[i].status = "draft" /\ (Grows => RowOK(i)')
    <2>1. JobOK(w, i) /\ RowOK(i)
      BY <1>1, <1>5 DEF AloneOK
    <2>2. invoices[i].status = "draft"
      BY <1>3, <2>1 DEF JobOK
    <2>3. Gross(i) \in Nat /\ invoices[i].paid = 0 /\ invoices[i].number = 0 /\ invoices[i].entry = 0
      BY <1>2, <2>1, <2>2, TypeFacts DEF RowOK
    <2>4. ASSUME Grows PROVE RowOK(i)'
      <3>1. PICK n, o : n \in Nat /\ n = Gross(i) /\ o = work[w].credits
        BY <2>3
      <3>2. AsLongAs(n, o) /\ o \in {0} \cup Invoices
        BY <1>3, <2>1, <3>1 DEF JobOK, Types, JobsOK
      <3>3. AsLongAs(n, o)'
        BY <2>4, <3>2, AsLongKept
      <3>4. Gross(i)' = n /\ invoices'[i].creditFor = o
        BY <1>2, <3>1 DEF Gross
      <3>5. AsLongAs(Gross(i), invoices[i].creditFor)'
        BY <3>3, <3>4
      <3>6. QED
        BY <1>2, <2>2, <2>3, <3>5 DEF RowOK, Gross
    <2>5. QED
      BY <2>2, <2>4
  <1>6. QED
    BY <1>1, <1>2, <1>3, <1>4, <1>5, AloneUpdate

LEMMA SentAlone ==
  ASSUME Types, Types', Linked, AloneOK, NEW w \in Workers, MarkSent(w)
  PROVE  AloneOK'
  <1>1. PICK i, e : i = work[w].inv /\ e = work[w].entry
    OBVIOUS
  <1>2. /\ OthersKept(w) /\ overlapped' = overlapped /\ Stops(w) /\ i \in Invoices /\ RowsKept(i)
        /\ invoices'[i].entry = e /\ invoices'[i].status = "sent"
        /\ invoices'[i].lines = Gross(i) /\ invoices'[i].type = invoices[i].type
        /\ invoices'[i].paid = invoices[i].paid /\ invoices'[i].creditFor = invoices[i].creditFor
    BY <1>1, MarkSentWrites
  <1>3. entries' = entries /\ work[w].at = "update"
    BY DEF MarkSent, At
  <1>4. work'[w].inv = 0 /\ work'[w].at # "insert" /\ i # 0
    BY <1>2, RowTypes, TypeFacts DEF Stops
  <1>5. e \in Ids /\ e # 0
    BY <1>1, <1>3, TypeFacts DEF Types, TypeOK
  <1>6. ASSUME i \in Alone
        PROVE  invoices[i].status = "draft" /\ (Grows => RowOK(i)')
    <2>1. JobOK(w, i) /\ RowOK(i)
      BY <1>1, <1>6 DEF AloneOK
    <2>2. invoices[i].status = "draft" /\ Gross(i) > 0 /\ entries[e].postings = Booked(i) /\ ~HasReversal(e)
      BY <1>1, <1>3, <2>1 DEF JobOK
    <2>3. Gross(i) \in Nat /\ invoices[i].paid = 0
      BY <1>2, <2>1, <2>2, TypeFacts DEF RowOK
    <2>4. ASSUME Grows PROVE RowOK(i)'
      <3>1. Gross(i)' = Gross(i) /\ Booked(i)' = Booked(i)
        BY <1>2 DEF Gross, Booked
      <3>2. invoices'[i].type = "credit" => AsLongAs(Gross(i), invoices[i].creditFor)'
        <4>1. PICK n, o : n = Gross(i) /\ o = invoices[i].creditFor
          OBVIOUS
        <4>2. o \in {0} \cup Invoices /\ (invoices[i].type = "credit" => AsLongAs(n, o))
          BY <1>2, <2>1, <4>1 DEF RowOK, Types, TypeOK
        <4>3. invoices[i].type = "credit" => AsLongAs(n, o)'
          BY <2>4, <4>2, AsLongKept
        <4>4. n = Gross(i)' /\ o = invoices'[i].creditFor
          BY <1>2, <3>1, <4>1
        <4>5. QED
          BY <1>2, <4>3, <4>4
      <3>3. entries'[e].postings = Booked(i)' /\ ~HasReversal(e)'
        BY <1>3, <2>2, <3>1, JournalStays
      <3>4. QED
        BY <1>2, <1>5, <2>2, <2>3, <3>1, <3>2, <3>3 DEF RowOK
    <2>5. QED
      BY <2>2, <2>4
  <1>7. QED
    BY <1>1, <1>2, <1>3, <1>4, <1>6, AloneUpdate

LEMMA PaymentAlone ==
  ASSUME Types, Types', Linked, AloneOK, NEW w \in Workers, RecordPayment(w)
  PROVE  AloneOK'
  <1>1. PICK i : i = work[w].inv
    OBVIOUS
  <1>2. /\ OthersKept(w) /\ overlapped' = overlapped /\ Stops(w) /\ i \in Invoices /\ RowsKept(i)
        /\ invoices'[i].paid = invoices[i].paid + work[w].todo
        /\ invoices'[i].status = IF work[w].paid + work[w].todo >= work[w].gross
                                   THEN "paid" ELSE invoices[i].status
        /\ invoices'[i].number = invoices[i].number /\ invoices'[i].entry = invoices[i].entry
        /\ invoices'[i].lines = Gross(i) /\ invoices'[i].type = invoices[i].type
        /\ invoices'[i].creditFor = invoices[i].creditFor
    BY <1>1, RecordPaymentWrites
  <1>3. entries' = entries /\ work[w].at = "pay"
    BY DEF RecordPayment, At
  <1>4. work'[w].inv = 0 /\ work'[w].at # "insert" /\ i # 0
    BY <1>2, RowTypes, TypeFacts DEF Stops
  <1>5. ASSUME i \in Alone
        PROVE  /\ invoices'[i].status # "draft" /\ invoices'[i].lines = invoices[i].lines
               /\ Grows => RowOK(i)'
    <2>1. JobOK(w, i) /\ RowOK(i)
      BY <1>1, <1>5 DEF AloneOK
    <2>2. /\ invoices[i].status = "sent" /\ work[w].gross = Gross(i) /\ work[w].paid = invoices[i].paid
          /\ work[w].todo + work[w].paid <= work[w].gross
      BY <1>3, <2>1 DEF JobOK, At
    <2>3. Gross(i) \in Nat /\ invoices[i].paid \in Nat /\ work[w].todo \in Nat
      BY <1>2, TypeFacts DEF InvoiceRow, JobRow
    <2>4. Gross(i)' = Gross(i) /\ Booked(i)' = Booked(i)
      BY <1>2 DEF Gross, Booked
    <2>5. /\ invoices'[i].status \in {"sent", "paid"}
          /\ invoices'[i].paid <= Gross(i)'
          /\ invoices'[i].status = "paid" => invoices'[i].paid = Gross(i)'
          /\ invoices'[i].status = "sent" => invoices'[i].paid < Gross(i)'
      BY <1>2, <2>2, <2>3, <2>4
    <2>6. ASSUME Grows PROVE RowOK(i)'
      <3>1. PICK e : e = invoices[i].entry
        OBVIOUS
      <3>2. e # 0 /\ entries[e].postings = Booked(i) /\ ~HasReversal(e)
        BY <2>1, <2>2, <3>1 DEF RowOK
      <3>3. entries'[e].postings = Booked(i)' /\ ~HasReversal(e)'
        BY <1>3, <2>4, <3>2, JournalStays
      <3>4. invoices'[i].type = "credit" => AsLongAs(Gross(i), invoices[i].creditFor)'
        <4>1. PICK n, o : n = Gross(i) /\ o = invoices[i].creditFor
          OBVIOUS
        <4>2. o \in {0} \cup Invoices /\ (invoices[i].type = "credit" => AsLongAs(n, o))
          BY <1>2, <2>1, <4>1 DEF RowOK, Types, TypeOK
        <4>3. invoices[i].type = "credit" => AsLongAs(n, o)'
          BY <2>6, <4>2, AsLongKept
        <4>4. n = Gross(i)' /\ o = invoices'[i].creditFor
          BY <1>2, <2>4, <4>1
        <4>5. QED
          BY <1>2, <4>3, <4>4
      <3>5. e = invoices'[i].entry
        BY <1>2, <3>1
      <3>6. QED
        BY <2>5, <3>2, <3>3, <3>4, <3>5 DEF RowOK
    <2>7. QED
      BY <1>2, <2>5, <2>6 DEF Gross
  <1>6. QED
    BY <1>1, <1>2, <1>3, <1>4, <1>5, AloneUpdate


\* Steps of a finalization on the journal.
LEMMA AloneEntry ==
  ASSUME Types, Types', Linked, AloneOK, NEW w \in Workers, OthersKept(w), Continues(w),
         overlapped' = overlapped, invoices' = invoices, JournalKept,
         work'[w].at \in {"post", "update"}, work[w].at \in {"create", "post"},
         \A f \in Ids : HasReversal(f)' <=> HasReversal(f),
         \A v \in Workers : v # w /\ At(v, "post") /\ work[v].inv \in Alone' =>
           (IsDraft(work[v].entry)' <=> IsDraft(work[v].entry)),
         NEW e, e = work'[w].entry, At(w, "post")' => IsDraft(e)',
         \/ entries'[e].postings = work[w].gross
         \/ work[w].at = "post" /\ entries'[e].postings = entries[work[w].entry].postings,
         ~HasReversal(e)' \/ (e = work[w].entry /\ work[w].at = "post")
  PROVE  AloneOK'
  <1>1. /\ Invoices' = Invoices /\ Alone' = Alone
        /\ \A i \in Invoices : Gross(i)' = Gross(i) /\ Booked(i)' = Booked(i)
    BY DEF Invoices, Alone, Gross, Booked
  <1>2. Grows
    BY <1>1 DEF Grows, Final
  <1>3. 0 \notin Alone' /\ 0 \notin Invoices
    BY <1>1, TypeFacts DEF Alone
  <1>4. PICK i : i = work[w].inv
    OBVIOUS
  <1>5. i = work'[w].inv /\ work'[w].gross = work[w].gross
    BY <1>4 DEF Continues
  <1>6. ASSUME i \in Alone' PROVE JobOK(w, i)'
    <2>1. JobOK(w, i) /\ i \in Invoices
      BY <1>1, <1>4, <1>6 DEF AloneOK, Alone
    <2>2. /\ invoices[i].status = "draft" /\ work[w].gross = Booked(i) /\ Gross(i) > 0
          /\ At(w, "post") =>
               entries[work[w].entry].postings = work[w].gross /\ ~HasReversal(work[w].entry)
      BY <2>1 DEF JobOK, At
    <2>3. entries'[e].postings = work'[w].gross
      BY <1>5, <2>2 DEF At
    <2>4. ~HasReversal(e)'
      <3>1. CASE e = work[w].entry /\ work[w].at = "post"
        <4>1. e \in Ids /\ ~HasReversal(e)
          BY <2>2, <3>1 DEF At, Types, TypeOK
        <4>2. QED
          BY <4>1
      <3>2. QED
        BY <3>1
    <2>5. work'[w].at \notin {"lines", "pay"} /\ (work'[w].at = "post" => IsDraft(e)')
      BY DEF At
    <2>6. work'[w].gross = Booked(i)' /\ Gross(i)' > 0 /\ invoices'[i].status = "draft"
      BY <1>1, <1>5, <2>1, <2>2
    <2>7. QED
      BY <2>3, <2>4, <2>5, <2>6 DEF JobOK, At
  <1>7. work'[w].inv \in Alone' => JobOK(w, work[w].inv)'
    BY <1>5, <1>6
  <1>8. PICK j : j = 0
    OBVIOUS
  <1>9. /\ j \in {0} \cup Invoices' /\ (j \in Invoices => j = work[w].inv)
        /\ \A k \in Invoices : k # j => invoices'[k] = invoices[k]
        /\ Invoices' \subseteq Invoices \cup {j}
    BY <1>1, <1>3, <1>8
  <1>10. j \in Alone' => RowOK(j)'
    BY <1>3, <1>8
  <1>11. ~At(w, "insert")' /\ work'[w].inv \in {0, work[w].inv}
    BY <1>4, <1>5 DEF At
  <1>12. QED
    BY <1>2, <1>7, <1>9, <1>10, <1>11, AloneStep

LEMMA CreateEntryAlone ==
  ASSUME Types, Types', Linked, AloneOK, NEW w \in Workers, CreateEntry(w)
  PROVE  AloneOK'
  <1>1. PICK e : e = LastId + 1
    OBVIOUS
  <1>2. /\ Ids' = Ids \cup {e} /\ e \notin Ids /\ JournalKept
        /\ \A f \in Ids : entries'[f] = entries[f]
        /\ entries'[e].state = "draft" /\ entries'[e].postings = work[w].gross
        /\ entries'[e].reversedFrom = 0
    BY <1>1, CreateEntryWrites
  <1>3. /\ OthersKept(w) /\ overlapped' = overlapped /\ work'[w].at = "post" /\ Continues(w)
        /\ work'[w].entry = e
    BY <1>1, NumberWrites DEF At
  <1>4. invoices' = invoices /\ work[w].at = "create"
    BY DEF CreateEntry, At
  <1>5. \A f \in Ids : HasReversal(f)' <=> HasReversal(f)
    BY <1>2 DEF HasReversal, IsPosted
  <1>6. ~HasReversal(e)'
    <2>1. \A r \in Ids : entries[r].reversedFrom # e
      BY <1>1, <1>2, TypeFacts DEF Linked
    <2>2. e # 0
      BY <1>1, TypeFacts
    <2>3. QED
      BY <1>2, <2>1, <2>2 DEF HasReversal
  <1>7. ASSUME NEW v \in Workers, v # w, At(v, "post")
        PROVE  IsDraft(work[v].entry)' <=> IsDraft(work[v].entry)
    <2>1. work[v].entry \in Ids /\ work'[v] = work[v]
      BY <1>3, <1>7 DEF OthersKept, At, Types, TypeOK
    <2>2. QED
      BY <1>2, <2>1 DEF IsDraft
  <1>8. IsDraft(e)'
    BY <1>2 DEF IsDraft
  <1>9. work'[w].at \in {"post", "update"} /\ work[w].at \in {"create", "post"} /\ e = work'[w].entry
    BY <1>3, <1>4
  <1>10. entries'[e].postings = work[w].gross
    BY <1>2
  <1>11. \A v \in Workers : v # w /\ At(v, "post") /\ work[v].inv \in Alone' =>
           (IsDraft(work[v].entry)' <=> IsDraft(work[v].entry))
    BY <1>7
  <1>12. OthersKept(w) /\ Continues(w) /\ overlapped' = overlapped /\ JournalKept /\ invoices' = invoices
    BY <1>2, <1>3, <1>4
  <1>13. \/ entries'[e].postings = work[w].gross
         \/ work[w].at = "post" /\ entries'[e].postings = entries[work[w].entry].postings
    BY <1>10
  <1>14. At(w, "post")' => IsDraft(e)'
    BY <1>8
  <1>15. ~HasReversal(e)' \/ (e = work[w].entry /\ work[w].at = "post")
    BY <1>6
  <1>16. QED
    BY <1>5, <1>9, <1>11, <1>12, <1>13, <1>14, <1>15, AloneEntry

LEMMA PostEntryAlone ==
  ASSUME Types, Types', Linked, AloneOK, NEW w \in Workers, PostEntry(w)
  PROVE  AloneOK'
  <1>1. PICK e, i : e = work[w].entry /\ i = work[w].inv
    OBVIOUS
  <1>2. /\ Ids' = Ids /\ e \in Ids /\ JournalKept
        /\ \A f \in Ids : f # e => entries'[f] = entries[f]
        /\ IsDraft(e) /\ IsPosted(e)'
    BY <1>1, PostEntryWrites
  <1>3. /\ OthersKept(w) /\ overlapped' = overlapped /\ work'[w].at = "update" /\ Continues(w)
        /\ work'[w].entry = e
    BY <1>1, NumberWrites DEF At
  <1>4. invoices' = invoices /\ work[w].at = "post"
    BY DEF PostEntry, At
  <1>5. entries[e].reversedFrom = 0 /\ entries'[e].reversedFrom = 0
    BY <1>2 DEF Linked, IsPosted, IsDraft, JournalKept
  <1>6. ASSUME NEW f \in Ids PROVE HasReversal(f)' <=> HasReversal(f)
    <2>1. f # 0
      BY TypeFacts
    <2>2. \A r \in Ids : entries[r].reversedFrom = f \/ entries'[r].reversedFrom = f =>
            r # e /\ entries'[r] = entries[r]
      BY <1>2, <1>5, <2>1
    <2>3. QED
      BY <1>2, <2>2 DEF HasReversal, IsPosted
  <1>7. ASSUME NEW v \in Workers, v # w, At(v, "post"), work[v].inv \in Alone'
        PROVE  IsDraft(work[v].entry)' <=> IsDraft(work[v].entry)
    <2>1. work[v].entry \in Ids /\ work'[v] = work[v] /\ BookedFor(work[v].entry, work[v].inv)
      BY <1>3, <1>7 DEF OthersKept, At, Types, TypeOK, Linked
    <2>2. BookedFor(e, i)
      BY <1>1, <1>4 DEF Linked, At
    <2>3. Alone' = Alone
      BY <1>3, <1>4 DEF Alone, Invoices
    <2>4. work[v].inv # i
      BY <1>1, <1>7, <2>3 DEF AloneOK, Solo
    <2>5. work[v].entry # e
      BY <2>1, <2>2, <2>4 DEF BookedFor
    <2>6. QED
      BY <1>2, <2>1, <2>5 DEF IsDraft
  <1>8. /\ work'[w].at \in {"post", "update"} /\ work[w].at \in {"create", "post"} /\ e = work'[w].entry
        /\ ~At(w, "post")' /\ e = work[w].entry
        /\ work[w].at = "post" /\ entries'[e].postings = entries[work[w].entry].postings
    BY <1>1, <1>2, <1>3, <1>4 DEF At, JournalKept
  <1>9. QED
    BY <1>2, <1>3, <1>4, <1>6, <1>7, <1>8, AloneEntry

LEMMA ReverseAlone ==
  ASSUME Types, Types', Linked, AloneOK, NEW e \in Ids, Reverse(e)
  PROVE  AloneOK'
  <1>1. PICK n, i : n = LastId + 1 /\ i = entries[e].ref
    OBVIOUS
  <1>2. /\ Ids' = Ids \cup {n} /\ n \notin Ids /\ JournalKept
        /\ \A f \in Ids : entries'[f] = entries[f]
        /\ IsPosted(n)' /\ entries'[n].reversedFrom = e /\ Invoices' = Invoices
    BY <1>1, ReverseWrites
  <1>3. /\ \A k \in Invoices : invoices[k].entry # e => invoices'[k] = invoices[k]
        /\ \A k \in Invoices : invoices[k].entry = e =>
              /\ invoices'[k].status = "void"
              /\ invoices'[k].number = invoices[k].number /\ invoices'[k].entry = invoices[k].entry
              /\ invoices'[k].lines = Gross(k) /\ invoices'[k].type = invoices[k].type
              /\ invoices'[k].paid = invoices[k].paid
              /\ invoices'[k].creditFor = invoices[k].creditFor
    BY ReverseWrites
  <1>4. /\ work' = work /\ overlapped \subseteq overlapped'
        /\ i # 0 /\ Busy(i) => i \in overlapped'
    BY <1>1 DEF Reverse, Touch
  <1>5. e # 0 /\ 0 \notin Invoices
    BY TypeFacts
  <1>6. Final
    BY <1>3 DEF Final, Gross
  <1>7. Grows
    BY <1>2, <1>4, <1>6 DEF Grows
  <1>8. HasReversal(e)' /\ \A f \in Ids : f # e => (HasReversal(f)' <=> HasReversal(f))
    BY <1>2 DEF HasReversal, IsPosted
  <1>9. \A f \in Ids : IsDraft(f)' <=> IsDraft(f)
    BY <1>2 DEF IsDraft
  <1>10. ASSUME NEW k \in Alone' PROVE Solo(k)' /\ RowOK(k)'
    <2>1. k \in Alone /\ k \in Invoices
      BY <1>2, <1>4, <1>10 DEF Alone
    <2>2. Solo(k) /\ RowOK(k)
      BY <2>1 DEF AloneOK
    <2>3. Solo(k)'
      BY <1>4, <2>2 DEF Solo
    <2>4. CASE invoices[k].entry # e
      <3>1. PICK f : f = invoices[k].entry
        OBVIOUS
      <3>2. invoices'[k] = invoices[k] /\ f = invoices'[k].entry
        BY <1>3, <2>1, <2>4, <3>1
      <3>3. f \in Ids => (HasReversal(f)' <=> HasReversal(f))
        BY <1>8, <2>4, <3>1
      <3>4. invoices[k].entry \in Ids => (HasReversal(invoices[k].entry)' <=> HasReversal(invoices[k].entry))
        BY <3>1, <3>2, <3>3
      <3>5. RowOK(k)'
        BY <1>7, <2>1, <2>2, <3>2, <3>4, RowKept
      <3>6. QED
        BY <2>3, <3>5
    <2>5. CASE invoices[k].entry = e
      <3>1. Gross(k)' = Gross(k) /\ Booked(k)' = Booked(k)
        BY <1>3, <2>1, <2>5 DEF Gross, Booked
      <3>2. invoices[k].status # "draft" /\ entries'[e].postings = Booked(k)'
        BY <1>2, <1>5, <2>2, <2>5, <3>1 DEF RowOK
      <3>3. invoices'[k].type = "credit" => AsLongAs(Gross(k), invoices[k].creditFor)'
        <4>1. PICK m, o : m = Gross(k) /\ o = invoices[k].creditFor
          OBVIOUS
        <4>2. o \in {0} \cup Invoices /\ (invoices[k].type = "credit" => AsLongAs(m, o))
          BY <2>1, <2>2, <4>1 DEF RowOK, Types, TypeOK
        <4>3. invoices[k].type = "credit" => AsLongAs(m, o)'
          BY <1>7, <4>2, AsLongKept
        <4>4. m = Gross(k)' /\ o = invoices'[k].creditFor /\ invoices'[k].type = invoices[k].type
          BY <1>3, <2>1, <2>5, <3>1, <4>1
        <4>5. QED
          BY <4>3, <4>4
      <3>4. invoices'[k].paid <= Gross(k)'
        BY <1>3, <2>1, <2>2, <2>5, <3>1 DEF RowOK
      <3>5. invoices'[k].status = "void" /\ invoices'[k].entry = e
        BY <1>3, <2>1, <2>5
      <3>6. RowOK(k)'
        BY <1>5, <1>8, <3>2, <3>3, <3>4, <3>5 DEF RowOK
      <3>7. QED
        BY <2>3, <3>6
    <2>6. QED
      BY <2>3, <2>4, <2>5
  <1>11. ASSUME NEW v \in Workers, work'[v].inv \in Alone' PROVE JobOK(v, work[v].inv)'
    <2>1. PICK k : k = work[v].inv
      OBVIOUS
    <2>2. k = work'[v].inv /\ k \in Alone /\ k \in Invoices /\ JobOK(v, k)
      BY <1>2, <1>4, <1>11, <2>1 DEF Alone, AloneOK
    <2>3. k # i
      <3>1. Busy(k) /\ k # 0
        BY <1>5, <2>1, <2>2 DEF Busy
      <3>2. k \notin overlapped'
        BY <1>11, <2>2 DEF Alone
      <3>3. QED
        BY <1>4, <3>1, <3>2
    <2>4. At(v, "post") \/ At(v, "update") => work[v].entry \in Ids /\ work[v].entry # e
      BY <1>1, <2>1, <2>3 DEF Types, TypeOK, At, Linked, BookedFor
    <2>5. invoices[k].entry # e
      BY <1>1, <1>5, <2>2, <2>3 DEF Linked, BookedFor
    <2>6. invoices'[k] = invoices[k] /\ work'[v] = work[v]
      BY <1>3, <1>4, <2>2, <2>5
    <2>7. JobOK(v, k)'
      BY <1>7, <1>8, <1>9, <2>1, <2>2, <2>4, <2>6, JobKept
    <2>8. QED
      BY <2>2, <2>7
  <1>12. ASSUME NEW v \in Workers, At(v, "insert")'
         PROVE  AsLongAs(work[v].todo, work[v].credits)'
    <2>1. PICK m, o : m = work[v].todo /\ o = work[v].credits
      OBVIOUS
    <2>2. m = work'[v].todo /\ o = work'[v].credits /\ At(v, "insert")
      BY <1>4, <1>12, <2>1 DEF At
    <2>3. AsLongAs(m, o) /\ o \in {0} \cup Invoices
      BY <2>1, <2>2 DEF AloneOK, Types, JobsOK
    <2>4. AsLongAs(m, o)'
      BY <1>7, <2>3, AsLongKept
    <2>5. QED
      BY <2>2, <2>4
  <1>13. QED
    BY <1>10, <1>11, <1>12 DEF AloneOK


----------------------------------------------------------------------------------
(* The inductive invariant. *)

IInv == Types /\ Linked /\ AloneOK

LEMMA InitIInv == ASSUME Init PROVE IInv
  <1>1. Types
    BY InitTypes
  <1>2. Invoices = {} /\ Ids = {} /\ \A w \in Workers : work[w].at = "idle" /\ work[w].inv = 0
    BY DEF Init, Invoices, Ids, Idle
  <1>3. Linked /\ AloneOK
    BY <1>2 DEF Linked, AloneOK, Alone, At
  <1>4. QED
    BY <1>1, <1>3 DEF IInv

LEMMA StutterIInv == ASSUME IInv, UNCHANGED vars PROVE IInv'
  <1>1. Types'
    BY TypesStutter DEF IInv
  <1>2. Linked'
    BY DEF IInv, Linked, vars, Ids, Invoices, IsPosted, BookedFor, At
  <1>3. AloneOK'
    BY DEF IInv, AloneOK, vars, Alone, Ids, Invoices, IsPosted, IsDraft, HasReversal, At, Solo, RowOK, JobOK,
           AsLongAs, Gross, Booked
  <1>4. QED
    BY <1>1, <1>2, <1>3 DEF IInv

LEMMA StepLinked ==
  ASSUME Types, Types', Linked, NEW w \in Workers, Step(w)
  PROVE  Linked'
  <1>1. CASE UNCHANGED <<invoices, entries>> /\ OthersKept(w) /\ work'[w].at \notin {"post", "update"}
    BY <1>1, LinkedWork DEF Invoices
  <1>2. CASE \E n \in 1 .. MaxLines : Create(w, n)
    BY <1>1, <1>2, StartWrites DEF Create, At
  <1>3. CASE \E i \in Invoices : Credit(w, i) \/ Finalize(w, i) \/ \E a \in 1 .. MaxLines : Pay(w, i, a)
    <2>1. PICK i \in Invoices : Credit(w, i) \/ Finalize(w, i) \/ \E a \in 1 .. MaxLines : Pay(w, i, a)
      BY <1>3
    <2>2. CASE Credit(w, i) \/ Finalize(w, i)
      BY <1>1, <2>2, StartWrites DEF Credit, Finalize, At
    <2>3. CASE \E a \in 1 .. MaxLines : Pay(w, i, a)
      BY <1>1, <2>3, StartWrites DEF Pay, At
    <2>4. QED
      BY <2>1, <2>2, <2>3
  <1>4. CASE TakeNumber(w)
    BY <1>1, <1>4, NumberWrites DEF TakeNumber, At
  <1>5. CASE Collide(w)
    BY <1>1, <1>5, NumberWrites, RowTypes DEF Collide, At, Stops
  <1>6. CASE Crash(w)
    BY <1>1, <1>6, GoDoes, RowTypes DEF Crash, At
  <1>7. CASE InsertInvoice(w)
    <2>1. PICK n : n = Len(invoices) + 1
      OBVIOUS
    <2>2. /\ OthersKept(w) /\ At(w, "lines")' /\ Invoices' = Invoices \cup {n}
          /\ \A i \in Invoices : invoices'[i] = invoices[i]
      BY <1>7, <2>1, InsertInvoiceWrites
    <2>3. invoices'[n].entry = 0
      BY <1>7, <2>1, InsertInvoiceWrites
    <2>4. entries' = entries
      BY <1>7 DEF InsertInvoice
    <2>5. work'[w].at \notin {"post", "update"}
      BY <2>2 DEF At
    <2>6. \A i \in Invoices' : invoices'[i].entry = 0 \/ (i \in Invoices /\ invoices'[i].entry = invoices[i].entry)
      <3>1. TAKE i \in Invoices'
      <3>2. i = n \/ i \in Invoices
        BY <2>2
      <3>3. QED
        BY <2>2, <2>3, <3>2
    <2>7. QED
      BY <2>2, <2>4, <2>5, <2>6, LinkedWork
  <1>8. CASE InsertLine(w) \/ MakeCredit(w) \/ MarkSent(w) \/ RecordPayment(w)
    <2>1. PICK i : i = work[w].inv
      OBVIOUS
    <2>2. entries' = entries
      BY <1>8 DEF InsertLine, MakeCredit, MarkSent, RecordPayment
    <2>3. OthersKept(w) /\ work'[w].at \notin {"post", "update"} /\ RowsKept(i) /\ i \in Invoices
      <3>1. OthersKept(w) /\ RowsKept(i) /\ i \in Invoices /\ (Stops(w) \/ At(w, "lines")')
        BY <1>8, <2>1, InsertLineWrites, MakeCreditWrites, MarkSentWrites, RecordPaymentWrites
      <3>2. QED
        BY <3>1, RowTypes DEF Stops, At
    <2>4. \/ invoices'[i].entry = invoices[i].entry
          \/ BookedFor(invoices'[i].entry, i) /\ IsPosted(invoices'[i].entry)
      <3>1. CASE MarkSent(w)
        <4>1. At(w, "update") /\ invoices'[i].entry = work[w].entry
          <5>1. At(w, "update")
            BY <3>1 DEF MarkSent
          <5>2. QED
            BY <2>1, <3>1, <5>1, MarkSentWrites
        <4>2. QED
          BY <2>1, <4>1 DEF Linked
      <3>2. CASE InsertLine(w) \/ MakeCredit(w) \/ RecordPayment(w)
        BY <2>1, <3>2, InsertLineWrites, MakeCreditWrites, RecordPaymentWrites
      <3>3. QED
        BY <1>8, <3>1, <3>2
    <2>5. \A k \in Invoices' :
             \/ k \in Invoices /\ invoices'[k].entry = invoices[k].entry
             \/ BookedFor(invoices'[k].entry, k) /\ IsPosted(invoices'[k].entry)
      BY <2>3, <2>4 DEF RowsKept
    <2>6. QED
      BY <2>2, <2>3, <2>5, LinkedWork
  <1>9. QED
    BY <1>2, <1>3, <1>4, <1>5, <1>6, <1>7, <1>8, LinkedCreate, LinkedPost DEF Step

LEMMA StepAlone ==
  ASSUME Types, Types', Linked, AloneOK, NEW w \in Workers, Step(w)
  PROVE  AloneOK'
  <1>1. CASE \E n \in 1 .. MaxLines : Create(w, n)
    BY <1>1, StartAlone
  <1>2. CASE \E i \in Invoices : Credit(w, i) \/ Finalize(w, i) \/ \E a \in 1 .. MaxLines : Pay(w, i, a)
    BY <1>2, BeginAlone
  <1>3. QED
    BY <1>1, <1>2, WorkAlone, InsertAlone, LineAlone, CreditAlone, SentAlone, PaymentAlone,
       CreateEntryAlone, PostEntryAlone DEF Step

LEMMA NextIInv == ASSUME IInv, Next PROVE IInv'
  <1>1. Types' /\ Types /\ Linked /\ AloneOK
    BY NextTypes DEF IInv
  <1>2. ASSUME NEW w \in Workers, Step(w) PROVE IInv'
    BY <1>1, <1>2, StepLinked, StepAlone DEF IInv
  <1>3. ASSUME NEW e \in Ids, Reverse(e) PROVE IInv'
    BY <1>1, <1>3, LinkedReverse, ReverseAlone DEF IInv
  <1>4. QED
    BY <1>2, <1>3 DEF Next

LEMMA Invariance == Spec => []IInv
  <1>1. Init => IInv
    BY InitIInv
  <1>2. IInv /\ [Next]_vars => IInv'
    BY NextIInv, StutterIInv
  <1>3. QED
    BY <1>1, <1>2, PTL DEF Spec

\* An invoice is never paid beyond its amount, and it is paid exactly when
\* nothing is open.
THEOREM NeverOverpaid == Spec => []PaidIsCovered
  <1>1. IInv => PaidIsCovered
    BY DEF IInv, AloneOK, RowOK, PaidIsCovered
  <1>2. QED
    BY <1>1, Invariance, PTL

LEMMA BookedWhenSent ==
  ASSUME IInv
  PROVE  SentIsBooked
  <1>1. SUFFICES ASSUME NEW i \in Alone
                 PROVE  /\ invoices[i].status \in {"sent", "paid"} => IsLiveFor(invoices[i].entry, i)
                        /\ invoices[i].status = "void" => HasReversal(invoices[i].entry)
                        /\ CreditUndoes(i)
    BY DEF SentIsBooked
  <1>2. RowOK(i) /\ i \in Invoices
    BY DEF IInv, AloneOK, Alone
  <1>3. invoices[i].entry # 0 => BookedFor(invoices[i].entry, i) /\ IsPosted(invoices[i].entry)
    BY <1>2 DEF IInv, Linked
  <1>4. invoices[i].status \in {"sent", "paid"} => IsLiveFor(invoices[i].entry, i)
    BY <1>2, <1>3 DEF RowOK, IsLiveFor, BookedFor
  <1>5. invoices[i].status = "void" => HasReversal(invoices[i].entry)
    BY <1>2 DEF RowOK
  <1>6. ASSUME invoices[i].type = "credit", invoices[i].entry # 0, invoices[i].creditFor \in Alone
        PROVE  entries[invoices[i].entry].postings = -entries[invoices[invoices[i].creditFor].entry].postings
    <2>1. PICK o : o = invoices[i].creditFor
      OBVIOUS
    <2>2. RowOK(o) /\ invoices[o].type = "sales" /\ invoices[o].status # "draft" /\ Gross(o) = Gross(i)
      BY <1>2, <1>6, <2>1 DEF IInv, AloneOK, RowOK, AsLongAs
    <2>3. entries[invoices[o].entry].postings = Gross(i)
      BY <2>2 DEF RowOK, Booked
    <2>4. invoices[i].status # "draft"
      BY <1>2, <1>6 DEF RowOK
    <2>5. entries[invoices[i].entry].postings = -Gross(i)
      BY <1>2, <1>6, <2>4 DEF RowOK, Booked
    <2>6. QED
      BY <2>1, <2>3, <2>5
  <1>7. QED
    BY <1>4, <1>5, <1>6 DEF CreditUndoes

\* An invoice that is sent or paid has its own posted entry that nobody
\* reversed, one whose entry was reversed is void and never comes back, and a
\* finalized credit note takes back exactly what its invoice booked.
THEOREM ReceivableIsBooked == Spec => []SentIsBooked
  <1>1. IInv => SentIsBooked
    BY BookedWhenSent
  <1>2. QED
    BY <1>1, Invariance, PTL


----------------------------------------------------------------------------------
(* The numbers of a year. *)

Numbered == {"create", "post", "update"}

\* A maximum of an interval, whatever the state.
LEMMA HighestOfInterval ==
  ASSUME NEW n \in Nat
  PROVE  Max((1 .. n) \cup {0}) = n
  <1> DEFINE S == (1 .. n) \cup {0}
  <1>1. n \in S /\ \A y \in S : n >= y
    OBVIOUS
  <1>2. \A x \in S : (\A y \in S : x >= y) => x = n
    OBVIOUS
  <1> HIDE DEF S
  <1>3. Max(S) = n
    BY <1>1, <1>2 DEF Max
  <1>4. QED
    BY <1>3 DEF S

LEMMA NumbersSame ==
  ASSUME Types, Types', NumbersOK, overlapped \subseteq overlapped', Invoices \subseteq Invoices',
         \A i \in Invoices : invoices'[i].number = invoices[i].number,
         \A i \in Invoices' : i \in Invoices \/ invoices'[i].number = 0,
         \A v \in Workers : work'[v].at \in Numbered =>
            \/ work'[v].number = NextNumber
            \/ work[v].at \in Numbered /\ work'[v].number = work[v].number
  PROVE  NumbersOK'
  <1>1. SUFFICES ASSUME overlapped' = {}
                 PROVE  /\ \E n \in Nat : Numbers' = 1 .. n
                        /\ \A i, j \in Invoices' :
                             invoices'[i].number = invoices'[j].number /\ i # j => invoices'[i].number = 0
                        /\ \A w \in Workers : work'[w].at \in Numbered => work'[w].number \in 1 .. NextNumber'
    BY DEF NumbersOK, Numbered
  <1>2. overlapped = {}
    BY <1>1
  <1>3. Numbers' = Numbers
    <2>1. \A k \in Numbers' : k \in Numbers
      BY DEF Numbers
    <2>2. \A k \in Numbers : k \in Numbers'
      BY DEF Numbers
    <2>3. QED
      BY <2>1, <2>2
  <1>4. PICK n \in Nat : Numbers = 1 .. n
    BY <1>2 DEF NumbersOK
  <1>5. NextNumber = n + 1
    BY <1>4, HighestOfInterval DEF NextNumber
  <1>6. NextNumber' = n + 1
    BY <1>3, <1>5 DEF NextNumber
  <1>7. ASSUME NEW i \in Invoices', NEW j \in Invoices', invoices'[i].number = invoices'[j].number, i # j
        PROVE  invoices'[i].number = 0
    BY <1>2, <1>7 DEF NumbersOK
  <1>8. ASSUME NEW w \in Workers, work'[w].at \in Numbered
        PROVE  work'[w].number \in 1 .. (n + 1)
    <2>1. work[w].at \in Numbered => work[w].number \in 1 .. (n + 1)
      BY <1>2, <1>5 DEF NumbersOK, Numbered
    <2>2. QED
      BY <1>5, <1>8, <2>1
  <1>9. QED
    BY <1>3, <1>4, <1>6, <1>7, <1>8

\* The number is one more than the highest, or another invoice has it.
LEMMA NumbersSent ==
  ASSUME IInv, Types', NumbersOK, NEW w \in Workers, MarkSent(w)
  PROVE  NumbersOK'
  <1>1. PICK i, k : i = work[w].inv /\ k = work[w].number
    OBVIOUS
  <1>2. /\ OthersKept(w) /\ overlapped' = overlapped /\ Stops(w) /\ i \in Invoices /\ RowsKept(i)
        /\ invoices'[i].number = k
    BY <1>1, MarkSentWrites DEF IInv
  <1>3. Types /\ AloneOK /\ At(w, "update") /\ ~Taken(w)
    BY DEF IInv, MarkSent
  <1>4. SUFFICES ASSUME overlapped = {}
                 PROVE  /\ \E m \in Nat : Numbers' = 1 .. m
                        /\ \A j, l \in Invoices :
                             invoices'[j].number = invoices'[l].number /\ j # l => invoices'[j].number = 0
                        /\ \A v \in Workers : work'[v].at \in Numbered => work'[v].number \in 1 .. NextNumber'
    BY <1>2 DEF NumbersOK, Numbered, RowsKept
  <1>5. PICK n \in Nat : Numbers = 1 .. n
    BY <1>4 DEF NumbersOK
  <1>6. NextNumber = n + 1
    BY <1>5, HighestOfInterval DEF NextNumber
  <1>7. k \in 1 .. (n + 1)
    BY <1>1, <1>3, <1>4, <1>6 DEF NumbersOK, At
  <1>8. invoices[i].number = 0
    <2>1. JobOK(w, i) /\ RowOK(i)
      BY <1>1, <1>2, <1>3, <1>4 DEF AloneOK, Alone
    <2>2. QED
      BY <1>3, <2>1 DEF JobOK, RowOK, At
  <1>9. \A j \in Invoices : j # i => invoices[j].number # k
    BY <1>1, <1>3 DEF Taken
  <1>10. k \notin Numbers
    BY <1>7, <1>8, <1>9 DEF Numbers
  <1>11. k = n + 1
    BY <1>5, <1>7, <1>10
  <1>12. Numbers' = Numbers \cup {k}
    <2>1. \A x \in Numbers' : x \in Numbers \cup {k}
      BY <1>2 DEF Numbers, RowsKept
    <2>2. k \in Numbers'
      BY <1>2, <1>7 DEF Numbers, RowsKept
    <2>3. ASSUME NEW x \in Numbers PROVE x \in Numbers'
      <3>1. PICK j \in Invoices : x = invoices[j].number /\ x # 0
        BY <2>3 DEF Numbers
      <3>2. j # i /\ j \in Invoices' /\ invoices'[j].number = x
        BY <1>2, <1>8, <3>1 DEF RowsKept
      <3>3. QED
        BY <3>1, <3>2 DEF Numbers
    <2>4. QED
      BY <2>1, <2>2, <2>3
  <1>13. Numbers' = 1 .. (n + 1) /\ n + 1 \in Nat
    BY <1>5, <1>11, <1>12
  <1>14. NextNumber' = n + 2
    <2>1. PICK m \in Nat : m = n + 1
      BY <1>13
    <2>2. Numbers' = 1 .. m
      BY <1>13, <2>1
    <2>3. NextNumber' = m + 1
      BY <2>2, HighestOfInterval DEF NextNumber
    <2>4. QED
      BY <2>1, <2>3
  <1>15. ASSUME NEW j \in Invoices, NEW l \in Invoices, invoices'[j].number = invoices'[l].number, j # l
         PROVE  invoices'[j].number = 0
    BY <1>2, <1>4, <1>9, <1>15 DEF NumbersOK, RowsKept
  <1>16. ASSUME NEW v \in Workers, work'[v].at \in Numbered
         PROVE  work'[v].number \in 1 .. (n + 2)
    <2>1. v # w
      BY <1>2, <1>16, RowTypes DEF Stops, Numbered
    <2>2. work'[v] = work[v]
      BY <1>2, <2>1 DEF OthersKept
    <2>3. work[v].number \in 1 .. (n + 1)
      BY <1>4, <1>6, <1>16, <2>2 DEF NumbersOK, Numbered
    <2>4. QED
      BY <2>2, <2>3
  <1>17. QED
    BY <1>13, <1>14, <1>15, <1>16


LEMMA InitNumbers == ASSUME Init PROVE NumbersOK
  <1>1. Numbers = {} /\ Invoices = {} /\ \A w \in Workers : work[w].at = "idle"
    BY DEF Init, Numbers, Invoices, Idle
  <1>2. Numbers = 1 .. 0 /\ 0 \in Nat
    BY <1>1
  <1>3. QED
    BY <1>1, <1>2 DEF NumbersOK

LEMMA StutterNumbers == ASSUME NumbersOK, UNCHANGED vars PROVE NumbersOK'
  BY DEF NumbersOK, vars, Numbers, NextNumber, Invoices

\* A step of one process that leaves the numbers of the invoices alone.
LEMMA NumbersQuiet ==
  ASSUME Types, Types', NumbersOK, NEW w \in Workers, OthersKept(w), overlapped \subseteq overlapped',
         Invoices \subseteq Invoices', \A i \in Invoices : invoices'[i].number = invoices[i].number,
         \A i \in Invoices' : i \in Invoices \/ invoices'[i].number = 0,
         \/ work'[w].at \notin Numbered
         \/ work'[w].number = NextNumber
         \/ work[w].at \in Numbered /\ work'[w].number = work[w].number
  PROVE  NumbersOK'
  <1>1. \A v \in Workers : work'[v].at \in Numbered =>
            \/ work'[v].number = NextNumber
            \/ work[v].at \in Numbered /\ work'[v].number = work[v].number
    BY DEF OthersKept
  <1>2. QED
    BY <1>1, NumbersSame

LEMMA StepNumbers ==
  ASSUME IInv, Types', NumbersOK, NEW w \in Workers, Step(w)
  PROVE  NumbersOK'
  <1> Types
    BY DEF IInv
  <1> USE DEF Numbered
  <1>1. CASE UNCHANGED invoices /\ overlapped \subseteq overlapped' /\ OthersKept(w) /\
             \/ work'[w].at \notin Numbered
             \/ work'[w].number = NextNumber
             \/ work[w].at \in Numbered /\ work'[w].number = work[w].number
    BY <1>1, NumbersQuiet DEF Invoices
  <1>2. CASE \E n \in 1 .. MaxLines : Create(w, n)
    BY <1>1, <1>2, StartWrites DEF Create, At
  <1>3. CASE \E i \in Invoices : Credit(w, i) \/ Finalize(w, i) \/ \E a \in 1 .. MaxLines : Pay(w, i, a)
    <2>1. PICK i \in Invoices : Credit(w, i) \/ Finalize(w, i) \/ \E a \in 1 .. MaxLines : Pay(w, i, a)
      BY <1>3
    <2>2. CASE Credit(w, i) \/ Finalize(w, i)
      BY <1>1, <2>2, StartWrites DEF Credit, Finalize, At
    <2>3. CASE \E a \in 1 .. MaxLines : Pay(w, i, a)
      BY <1>1, <2>3, StartWrites DEF Pay, At
    <2>4. QED
      BY <2>1, <2>2, <2>3
  <1>4. CASE TakeNumber(w) \/ CreateEntry(w) \/ PostEntry(w) \/ Collide(w)
    <2>1. OthersKept(w) /\ overlapped' = overlapped
      BY <1>4, NumberWrites
    <2>2. \/ work'[w].at \notin Numbered
          \/ work'[w].number = NextNumber
          \/ work[w].at \in Numbered /\ work'[w].number = work[w].number
      <3>1. CASE TakeNumber(w)
        BY <3>1, NumberWrites
      <3>2. CASE CreateEntry(w)
        BY <3>2, NumberWrites DEF CreateEntry, At
      <3>3. CASE PostEntry(w)
        BY <3>3, NumberWrites DEF PostEntry, At
      <3>4. CASE Collide(w)
        BY <3>4, NumberWrites, RowTypes DEF Stops, At
      <3>5. QED
        BY <1>4, <3>1, <3>2, <3>3, <3>4
    <2>3. invoices' = invoices
      BY <1>4 DEF TakeNumber, CreateEntry, PostEntry, Collide
    <2>4. QED
      BY <1>1, <2>1, <2>2, <2>3
  <1>5. CASE Crash(w)
    BY <1>1, <1>5, GoDoes, RowTypes DEF Crash
  <1>6. CASE InsertInvoice(w)
    <2>1. PICK n : n = Len(invoices) + 1
      OBVIOUS
    <2>2. /\ OthersKept(w) /\ At(w, "lines")' /\ Invoices' = Invoices \cup {n} /\ overlapped' = overlapped
          /\ \A i \in Invoices : invoices'[i] = invoices[i]
      BY <1>6, <2>1, InsertInvoiceWrites
    <2>3. invoices'[n].number = 0
      BY <1>6, <2>1, InsertInvoiceWrites
    <2>4. \A i \in Invoices' : i \in Invoices \/ invoices'[i].number = 0
      BY <2>2, <2>3
    <2>5. work'[w].at \notin Numbered
      BY <2>2 DEF At
    <2>6. QED
      BY <2>2, <2>4, <2>5, NumbersQuiet
  <1>7. CASE InsertLine(w) \/ MakeCredit(w) \/ RecordPayment(w)
    <2>1. PICK i : i = work[w].inv
      OBVIOUS
    <2>2. /\ OthersKept(w) /\ overlapped' = overlapped /\ i \in Invoices /\ RowsKept(i)
          /\ Stops(w) \/ At(w, "lines")'
          /\ invoices'[i].number = invoices[i].number
      BY <1>7, <2>1, InsertLineWrites, MakeCreditWrites, RecordPaymentWrites
    <2>3. work'[w].at \notin Numbered
      BY <2>2, RowTypes DEF Stops, At
    <2>4. Invoices' = Invoices /\ \A k \in Invoices : invoices'[k].number = invoices[k].number
      BY <2>2 DEF RowsKept
    <2>5. QED
      BY <2>2, <2>3, <2>4, NumbersQuiet
  <1>8. QED
    BY <1>2, <1>3, <1>4, <1>5, <1>6, <1>7, NumbersSent DEF Step

LEMMA NextNumbers == ASSUME IInv, NumbersOK, Next PROVE NumbersOK'
  <1>1. Types'
    BY NextIInv DEF IInv
  <1>2. ASSUME NEW e \in Ids, Reverse(e) PROVE NumbersOK'
    <2>1. Types
      BY DEF IInv
    <2>2. Invoices' = Invoices /\ \A i \in Invoices : invoices'[i].number = invoices[i].number
      BY <1>2, <2>1, ReverseWrites
    <2>3. work' = work /\ overlapped \subseteq overlapped'
      BY <1>2 DEF Reverse, Touch
    <2>4. QED
      BY <1>1, <2>1, <2>2, <2>3, NumbersSame
  <1>3. QED
    BY <1>1, <1>2, StepNumbers DEF Next

\* The numbers of a year are 1 to n, each given once, whatever processes
\* collide or die, unless two commands worked on one invoice at once.
THEOREM NumbersHaveNoGap == Spec => []NumbersGapFree
  <1>1. Init => IInv /\ NumbersOK
    BY InitIInv, InitNumbers
  <1>2. IInv /\ NumbersOK /\ [Next]_vars => (IInv /\ NumbersOK)'
    BY NextIInv, StutterIInv, NextNumbers, StutterNumbers
  <1>3. NumbersOK => NumbersGapFree
    <2>1. SUFFICES ASSUME NumbersOK, overlapped = {}
                   PROVE  /\ Numbers = 1 .. Cardinality(Numbers)
                          /\ \A i, j \in Invoices :
                               invoices[i].number = invoices[j].number /\ i # j => invoices[i].number = 0
      BY DEF NumbersGapFree
    <2>2. PICK n \in Nat : Numbers = 1 .. n
      BY <2>1 DEF NumbersOK
    <2>3. Cardinality(1 .. n) = n
      BY FS_Interval
    <2>4. QED
      BY <2>1, <2>2, <2>3 DEF NumbersOK
  <1>4. QED
    BY <1>1, <1>2, <1>3, PTL DEF Spec

==================================================================================
