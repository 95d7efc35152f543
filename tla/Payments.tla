--------------------------------- MODULE Payments ---------------------------------
(***************************************************************************)
(* Payables, SEPA batches and their export (src/payments.rs).  No command  *)
(* here uses a transaction: each reads, decides, and writes row by row, so *)
(* two processes interleave between any two statements and a death leaves  *)
(* what was written so far.  What keeps the tables together meanwhile are  *)
(* the foreign keys of migrations 010, 015 and 017.                        *)
(*                                                                         *)
(* Amounts are left out: a line pays one payable, and the total of a batch *)
(* is the number of payments it was meant to hold.                         *)
(***************************************************************************)
EXTENDS Integers, Sequences, FiniteSets

CONSTANTS
  Workers,       \* processes that run a payments command
  Orders,        \* what a batch is asked for: payables by id, and rows of --lines (0)
  Kind(_),       \* payables.payment_method by id: transfer or direct_debit
  Sheets,        \* CSV files: per row whether it is a payment
  MaxPayables, MaxBatches, MaxLines, MaxMandates   \* bounds

ASSUME PaymentsAssumption ==
  /\ {MaxPayables, MaxBatches, MaxLines, MaxMandates} \subseteq Nat
  /\ Orders \subseteq Seq(0 .. MaxPayables) \ {<< >>}
  /\ \A p \in 1 .. MaxPayables : Kind(p) \in {"transfer", "direct_debit"}
  /\ Sheets \subseteq Seq(BOOLEAN)

VARIABLES
  payables,   \* rows in id order: status and batch_line_id (0: NULL)
  batches,    \* rows in id order: status ("deleted" for a deleted row) and total
  lines,      \* rows in id order: batch (0: deleted), payable (0: none), mandate (0: NULL),
              \* mandate_seq
  mandates,   \* rows in id order: TRUE unless removed; one contact and one reference
  files,      \* the SEPA files handed out: batch and payments
  work,       \* what each process is doing
  clean       \* history: no command was killed, overlapped another or named a payable twice

tables == <<payables, batches, lines, mandates>>

vars == <<payables, batches, lines, mandates, files, work, clean>>

Payables == DOMAIN payables
Batches == DOMAIN batches
Lines == DOMAIN lines
Mandates == DOMAIN mandates

\* pays: what was read for a file, by the id of the line.
Idle == [at |-> "idle", batch |-> 0, plan |-> << >>, id |-> 0, pays |-> << >>]

\* One payment of a batch to be written.
Item == [payable : 0 .. MaxPayables, mandate : Nat, seq : {"none", "FRST", "RCUR"}]

Read == UNION {[S -> 0 .. MaxPayables] : S \in SUBSET (1 .. MaxLines)}

TypeOK ==
  /\ payables \in Seq([status : {"unpaid", "in_batch", "paid"}, line : Nat])
  /\ batches \in Seq([status : {"draft", "exported", "deleted"}, total : Nat])
  /\ lines \in Seq([batch : Nat, payable : 0 .. MaxPayables, mandate : Nat, seq : {"none", "FRST", "RCUR"}])
  /\ mandates \in Seq(BOOLEAN)
  /\ \A l \in Lines : /\ lines[l].batch # 0 => batches[lines[l].batch].status # "deleted"
                      /\ lines[l].mandate # 0 => mandates[lines[l].mandate]
  /\ files \in Seq([batch : Batches, pays : Read])
  /\ \A w \in Workers :
       /\ work[w].at \in {"idle", "pay", "batch", "line", "link", "export",
                          "release", "del_lines", "del_batch"}
       /\ work[w].plan \in Seq(Item) /\ work[w].pays \in Read
       /\ work[w].at = "idle" => work[w] = Idle
       /\ work[w].at \in {"line", "link", "export", "release", "del_lines", "del_batch"}
            => work[w].batch \in Batches
  /\ clean \in BOOLEAN

Init ==
  /\ payables = << >> /\ batches = << >> /\ lines = << >> /\ mandates = << >>
  /\ files = << >>
  /\ work = [w \in Workers |-> Idle]
  /\ clean = TRUE

----------------------------------------------------------------------------------
(* A command starts, proceeds and ends. *)

At(w, where) == work[w].at = where

Observe(fair) == clean' = (clean /\ fair /\ \A v \in Workers : At(v, "idle"))

Start(w, job, fair) ==
  /\ At(w, "idle")
  /\ work' = [work EXCEPT ![w] = job]
  /\ Observe(fair)

\* A command of one statement.
AtOnce == UNCHANGED work /\ Observe(TRUE)

Go(w, job) == work' = [work EXCEPT ![w] = job] /\ UNCHANGED clean

Goto(w, where) == Go(w, [work[w] EXCEPT !.at = where])

Done(w) == Go(w, Idle)

----------------------------------------------------------------------------------
(* Payables and mandates. *)

\* A payable of a new invoice.
AddPayable ==
  /\ Len(payables) < MaxPayables
  /\ payables' = Append(payables, [status |-> "unpaid", line |-> 0])
  /\ AtOnce
  /\ UNCHANGED <<batches, lines, mandates, files>>

\* mark_payable_paid, which the bank statement is meant to confirm.
PayCheck(w, p) ==
  /\ payables[p].status # "paid"
  /\ Start(w, [Idle EXCEPT !.at = "pay", !.id = p], TRUE)
  /\ UNCHANGED <<tables, files>>

PayWrite(w) ==
  /\ At(w, "pay")
  /\ payables' = [payables EXCEPT ![work[w].id].status = "paid"]
  /\ Done(w)
  /\ UNCHANGED <<batches, lines, mandates, files>>

\* MANDATE_DUPLICATE, and UNIQUE(contact_id, mandate_ref), refuse a second one.
AddMandate ==
  /\ Len(mandates) < MaxMandates
  /\ \A m \in Mandates : ~mandates[m]
  /\ mandates' = Append(mandates, TRUE)
  /\ AtOnce
  /\ UNCHANGED <<payables, batches, lines, files>>

\* ON DELETE SET NULL.
RemoveMandate(m) ==
  /\ mandates[m]
  /\ mandates' = [mandates EXCEPT ![m] = FALSE]
  /\ lines' = [l \in Lines |-> IF lines[l].mandate = m THEN [lines[l] EXCEPT !.mandate = 0] ELSE lines[l]]
  /\ AtOnce
  /\ UNCHANGED <<payables, batches, files>>

LatestMandate(m) == mandates[m] /\ \A n \in Mandates : mandates[n] => n <= m

----------------------------------------------------------------------------------
(* create_payment_batch: every payable is validated, then batch, lines and *)
(* payables are written one by one.                                        *)

Live(l) == lines[l].batch # 0

\* Faulty: counts by the mandate's reference, as before migration 017.
MandateSeqByRef(m) == IF \E l \in Lines : Live(l) /\ lines[l].seq # "none" THEN "RCUR" ELSE "FRST"

\* COUNT(*) of the lines of the mandate.
MandateSeq(m) == IF \E l \in Lines : Live(l) /\ lines[l].mandate = m THEN "RCUR" ELSE "FRST"

\* The mandate a batch collects under (0: it is a transfer).
Collected(kind) == IF kind = "transfer" THEN {0} ELSE {m \in Mandates : LatestMandate(m)}

Plan(order, m) ==
  [k \in DOMAIN order |->
     [payable |-> order[k], mandate |-> m, seq |-> IF m = 0 THEN "none" ELSE MandateSeq(m)]]

\* Faulty: payables that are in a batch are taken too.
EligibleUnlessPaid(p, kind) ==
  p # 0 => p \in Payables /\ payables[p].status # "paid" /\ Kind(p) = kind

Eligible(p, kind) ==
  p # 0 => p \in Payables /\ payables[p].status = "unpaid" /\ Kind(p) = kind

NamesOnce(order) == \A j, k \in DOMAIN order : order[j] = order[k] /\ order[j] # 0 => j = k

CreateCheck(w, order, kind) ==
  /\ \A k \in DOMAIN order : Eligible(order[k], kind)
  /\ \E m \in Collected(kind) :
       Start(w, [Idle EXCEPT !.at = "batch", !.plan = Plan(order, m)], NamesOnce(order))
  /\ UNCHANGED <<tables, files>>

\* create_payment_batch_from_csv: rows that name a beneficiary and an amount and
\* no payable.  One row that cannot be read refuses them all.
Readable(rows) == rows # << >> /\ \A k \in DOMAIN rows : rows[k]

CreateFromRows(w, rows) ==
  /\ Readable(rows)
  /\ Start(w, [Idle EXCEPT !.at = "batch", !.plan = Plan([k \in DOMAIN rows |-> 0], 0)], TRUE)
  /\ UNCHANGED <<tables, files>>

InsertBatch(w) ==
  /\ At(w, "batch")
  /\ Len(batches) < MaxBatches
  /\ batches' = Append(batches, [status |-> "draft", total |-> Len(work[w].plan)])
  /\ Go(w, [work[w] EXCEPT !.at = "line", !.batch = Len(batches) + 1])
  /\ UNCHANGED <<payables, lines, mandates, files>>

\* The batch and the mandate of a line must exist.
LineRefs(w) ==
  LET item == Head(work[w].plan)
  IN  /\ batches[work[w].batch].status # "deleted"
      /\ item.mandate # 0 => mandates[item.mandate]

NextLine(w) ==
  IF Len(work[w].plan) = 1
    THEN Done(w)
    ELSE Go(w, [work[w] EXCEPT !.at = "line", !.plan = Tail(@), !.id = 0])

InsertLine(w) ==
  /\ At(w, "line")
  /\ Len(lines) < MaxLines
  /\ LineRefs(w)
  /\ LET item == Head(work[w].plan)
     IN  lines' = Append(lines, [batch |-> work[w].batch, payable |-> item.payable,
                                 mandate |-> item.mandate, seq |-> item.seq])
  /\ IF Head(work[w].plan).payable = 0
       THEN NextLine(w)
       ELSE Go(w, [work[w] EXCEPT !.at = "link", !.id = Len(lines) + 1])
  /\ UNCHANGED <<payables, batches, mandates, files>>

\* The foreign key of payables.batch_line_id.
LinkRef(l) == Live(l)

\* The status is overwritten, whatever it is by now.
LinkPayable(w) ==
  /\ At(w, "link")
  /\ LinkRef(work[w].id)
  /\ payables' = [payables EXCEPT ![Head(work[w].plan).payable] = [status |-> "in_batch", line |-> work[w].id]]
  /\ NextLine(w)
  /\ UNCHANGED <<batches, lines, mandates, files>>

\* A foreign key refuses the statement; the command fails where it is.
CreateFails(w) ==
  /\ \/ At(w, "line") /\ ~LineRefs(w)
     \/ At(w, "link") /\ ~LinkRef(work[w].id)
  /\ Done(w)
  /\ UNCHANGED <<tables, files>>

----------------------------------------------------------------------------------
(* export_payment_batch: the batch and its lines are read, and the UPDATE  *)
(* does not look at the status again.                                      *)

LinesOf(b) == {l \in Lines : lines[l].batch = b}

PaymentsOf(b) == [l \in LinesOf(b) |-> lines[l].payable]

ExportCheck(w, b) ==
  /\ batches[b].status = "draft"
  /\ Start(w, [Idle EXCEPT !.at = "export", !.batch = b, !.pays = PaymentsOf(b)], TRUE)
  /\ UNCHANGED <<tables, files>>

\* An UPDATE of a batch deleted meanwhile changes no row, and succeeds.
ExportWrite(w) ==
  /\ At(w, "export")
  /\ batches' = [batches EXCEPT ![work[w].batch].status = IF @ = "deleted" THEN @ ELSE "exported"]
  /\ files' = Append(files, [batch |-> work[w].batch, pays |-> work[w].pays])
  /\ Done(w)
  /\ UNCHANGED <<payables, lines, mandates>>

----------------------------------------------------------------------------------
(* delete_payment_batch: payables, lines and batch in three statements.    *)

DeleteCheck(w, b) ==
  /\ batches[b].status = "draft"
  /\ Start(w, [Idle EXCEPT !.at = "release", !.batch = b], TRUE)
  /\ UNCHANGED <<tables, files>>

Release(w) ==
  /\ At(w, "release")
  /\ payables' = [p \in Payables |->
                    IF payables[p].line \in LinesOf(work[w].batch)
                      THEN [status |-> "unpaid", line |-> 0]
                      ELSE payables[p]]
  /\ Goto(w, "del_lines")
  /\ UNCHANGED <<batches, lines, mandates, files>>

\* The same foreign key from the other side.
NotReferred(b) == \A p \in Payables : payables[p].line \notin LinesOf(b)

NoLine == [batch |-> 0, payable |-> 0, mandate |-> 0, seq |-> "none"]

\* Faulty: the lines of every batch are deleted.
WithoutAny(b) == [l \in Lines |-> NoLine]

Without(b) == [l \in Lines |-> IF l \in LinesOf(b) THEN NoLine ELSE lines[l]]

DeleteLines(w) ==
  /\ At(w, "del_lines")
  /\ NotReferred(work[w].batch)
  /\ lines' = Without(work[w].batch)
  /\ Goto(w, "del_batch")
  /\ UNCHANGED <<payables, batches, mandates, files>>

\* ON DELETE CASCADE takes the lines written since.
DeleteBatch(w) ==
  /\ At(w, "del_batch")
  /\ NotReferred(work[w].batch)
  /\ lines' = Without(work[w].batch)
  /\ batches' = [batches EXCEPT ![work[w].batch].status = "deleted"]
  /\ Done(w)
  /\ UNCHANGED <<payables, mandates, files>>

DeleteFails(w) ==
  /\ At(w, "del_lines") \/ At(w, "del_batch")
  /\ ~NotReferred(work[w].batch)
  /\ Done(w)
  /\ UNCHANGED <<tables, files>>

----------------------------------------------------------------------------------

Crash(w) ==
  /\ ~At(w, "idle")
  /\ work' = [work EXCEPT ![w] = Idle]
  /\ clean' = FALSE
  /\ UNCHANGED <<tables, files>>

Step(w) ==
  \/ \E p \in Payables : PayCheck(w, p)
  \/ \E order \in Orders : \E kind \in {"transfer", "direct_debit"} : CreateCheck(w, order, kind)
  \/ \E rows \in Sheets : CreateFromRows(w, rows)
  \/ \E b \in Batches : ExportCheck(w, b) \/ DeleteCheck(w, b)
  \/ PayWrite(w)
  \/ InsertBatch(w) \/ InsertLine(w) \/ LinkPayable(w) \/ CreateFails(w)
  \/ ExportWrite(w)
  \/ Release(w) \/ DeleteLines(w) \/ DeleteBatch(w) \/ DeleteFails(w)
  \/ Crash(w)

Next ==
  \/ AddPayable \/ AddMandate
  \/ \E m \in Mandates : RemoveMandate(m)
  \/ \E w \in Workers : Step(w)

Spec == Init /\ [][Next]_vars

----------------------------------------------------------------------------------
(* Properties. *)

(***************************************************************************)
(* Part of BatchesWhole.  Whatever interleaves or dies, a payable's link   *)
(* leads to a line that exists and pays it, and a payable in a batch has   *)
(* one.                                                                    *)
(***************************************************************************)
LinksLead ==
  \A p \in Payables :
    /\ payables[p].status = "in_batch" => payables[p].line # 0
    /\ payables[p].line # 0 => /\ payables[p].line \in Lines
                               /\ Live(payables[p].line)
                               /\ lines[payables[p].line].payable = p

\* The lines of the files that pay a payable.
Handings(p) ==
  UNION {{<<f, l>> : l \in {x \in DOMAIN files[f].pays : files[f].pays[x] = p}} : f \in DOMAIN files}

(***************************************************************************)
(* Commands that run one after the other to their end, none naming a       *)
(* payable twice, hand no payable to the bank twice (the guard README      *)
(* describes for `batch export').                                          *)
(***************************************************************************)
HandedOnce == clean => \A p \in Payables : Cardinality(Handings(p)) <= 1

(***************************************************************************)
(* Batches and payables agree: LinksLead always, and after commands as     *)
(* above a file carries every payment of its batch and a draft at rest     *)
(* holds what it was made for.                                             *)
(***************************************************************************)
BatchesWhole ==
  /\ LinksLead
  /\ clean =>
    /\ \A f \in DOMAIN files : Cardinality(DOMAIN files[f].pays) = batches[files[f].batch].total
    /\ (\A w \in Workers : At(w, "idle")) =>
         \A b \in Batches : batches[b].status # "deleted"
                              => Cardinality(LinesOf(b)) = batches[b].total

(***************************************************************************)
(* Under the same condition a recurring collection follows an earlier one  *)
(* under the very mandate (migration 017: a mandate removed and added      *)
(* again starts anew).                                                     *)
(***************************************************************************)
RecurringFollowsFirst ==
  [][\A l \in DOMAIN lines' \ Lines :
       clean /\ lines'[l].seq = "RCUR"
         => \E j \in Lines : Live(j) /\ lines[j].mandate = lines'[l].mandate]_vars

==================================================================================
