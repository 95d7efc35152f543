--------------------------------- MODULE Invoices ---------------------------------
(***************************************************************************)
(* Sales invoices and credit notes (src/invoice.rs).  Creating and         *)
(* finalizing are sequences of autocommitted statements; only creating an  *)
(* entry, posting it, and recording a payment are transactions.  Several   *)
(* processes interleave between the statements, and a process may die.     *)
(*                                                                         *)
(* A line is one unit of money without discount and VAT, so the gross      *)
(* amount of an invoice is the number of its lines.  The invoices are of   *)
(* one year.  A posting list is what it puts on the debtors account; its   *)
(* other leg is the revenue.                                               *)
(***************************************************************************)
EXTENDS Integers, Sequences, FiniteSetsExt

CONSTANTS
  Workers,       \* processes that run an invoice command
  Mortal,        \* those of them that may die
  MaxAttempts,   \* collisions finalize_invoice retries after (5)
  MaxInvoices, MaxLines, MaxEntries   \* bounds

ASSUME InvoicesAssumption ==
  /\ {MaxAttempts, MaxInvoices, MaxLines, MaxEntries} \subseteq Nat
  /\ Mortal \subseteq Workers

VARIABLES
  invoices,   \* rows in id order
  entries,    \* the journal; ref is the invoice an entry was made for
  work,       \* what each process is doing
  overlapped  \* history: invoices that two commands worked on at once

vars == <<invoices, entries, work, overlapped>>

NoLegs(l) == 0

TwoLegs(l) == IF l = 0 THEN 0 ELSE 2

Minus(l) == -l

INSTANCE Entries WITH
  PostingLists <- Int, Total <- NoLegs, Legs <- TwoLegs, Neg <- Minus,
  Sources <- {"invoice", "reversal"}, Refs <- Nat, NoRef <- 0

InvoiceRow == [type : {"sales", "credit"}, status : {"draft", "sent", "paid", "void"},
               number : Nat, entry : Nat, lines : Nat, paid : Nat, creditFor : Nat]

Invoices == DOMAIN invoices

\* `todo' counts lines to insert, or is the amount of a payment; `gross' and
\* `paid' are as the command read them.
Idle == [at |-> "idle", inv |-> 0, todo |-> 0, credits |-> 0, gross |-> 0, paid |-> 0,
         number |-> 0, entry |-> 0, attempts |-> 0]

TypeOK ==
  /\ invoices \in Seq(InvoiceRow)
  /\ entries \in Seq(EntryRow)
  /\ \A i \in Invoices : invoices[i].entry \in {0} \cup Ids /\ invoices[i].creditFor \in {0} \cup Invoices
  /\ \A w \in Workers :
       /\ work[w].at \in {"idle", "insert", "lines", "number", "create", "post", "update", "pay"}
       /\ work[w].at \in {"idle", "insert"} <=> work[w].inv = 0
       /\ work[w].at \in {"post", "update"} => work[w].entry \in Ids
       /\ work[w].attempts \in 0 .. MaxAttempts
  /\ overlapped \subseteq Invoices

Init ==
  /\ invoices = << >>
  /\ entries = << >>
  /\ work = [w \in Workers |-> Idle]
  /\ overlapped = {}

----------------------------------------------------------------------------------

At(w, where) == work[w].at = where

Busy(i) == \E w \in Workers : work[w].inv = i

\* A command begins to work on invoice i, or on none.
Touch(i) == overlapped' = IF i # 0 /\ Busy(i) THEN overlapped \cup {i} ELSE overlapped

Go(w, job) == work' = [work EXCEPT ![w] = job] /\ UNCHANGED overlapped

Start(w, job) ==
  /\ At(w, "idle")
  /\ work' = [work EXCEPT ![w] = job]
  /\ Touch(job.inv)

Gross(i) == invoices[i].lines

----------------------------------------------------------------------------------
(* create_invoice and credit_invoice: the row, its lines one by one, and   *)
(* for a credit note an UPDATE that makes it one.                          *)

Create(w, n) ==
  /\ Start(w, [Idle EXCEPT !.at = "insert", !.todo = n])
  /\ UNCHANGED <<invoices, entries>>

\* The lines are those of the original as read here.
Credit(w, i) ==
  /\ invoices[i].type = "sales"
  /\ invoices[i].status \in {"sent", "paid"}
  /\ Start(w, [Idle EXCEPT !.at = "insert", !.todo = Gross(i), !.credits = i])
  /\ UNCHANGED <<invoices, entries>>

InsertInvoice(w) ==
  /\ At(w, "insert")
  /\ Len(invoices) < MaxInvoices
  /\ invoices' = Append(invoices, [type |-> "sales", status |-> "draft", number |-> 0, entry |-> 0,
                                   lines |-> 0, paid |-> 0, creditFor |-> 0])
  /\ Go(w, [work[w] EXCEPT !.at = "lines", !.inv = Len(invoices) + 1])
  /\ UNCHANGED entries

InsertLine(w) ==
  /\ At(w, "lines")
  /\ work[w].todo > 0
  /\ invoices' = [invoices EXCEPT ![work[w].inv].lines = @ + 1]
  /\ Go(w, IF work[w].todo = 1 /\ work[w].credits = 0 THEN Idle ELSE [work[w] EXCEPT !.todo = @ - 1])
  /\ UNCHANGED entries

MakeCredit(w) ==
  /\ At(w, "lines")
  /\ work[w].todo = 0
  /\ invoices' = [invoices EXCEPT ![work[w].inv].type = "credit",
                                  ![work[w].inv].creditFor = work[w].credits]
  /\ Go(w, Idle)
  /\ UNCHANGED entries

----------------------------------------------------------------------------------
(* finalize_invoice: nothing ties the number to the entry.                 *)

\* build_invoice_postings: a credit note has the opposite sign.
Booked(i) == IF invoices[i].type = "credit" THEN -Gross(i) ELSE Gross(i)

\* Without lines create_entry refuses the postings, before anything is written.
Finalize(w, i) ==
  /\ invoices[i].status = "draft"
  /\ Gross(i) > 0
  /\ Start(w, [Idle EXCEPT !.at = "number", !.inv = i, !.gross = Booked(i)])
  /\ UNCHANGED <<invoices, entries>>

Numbers == {invoices[i].number : i \in Invoices} \ {0}

\* next_invoice_number: MAX + 1.
NextNumber == Max(Numbers \cup {0}) + 1

TakeNumber(w) ==
  /\ At(w, "number")
  /\ Go(w, [work[w] EXCEPT !.at = "create", !.number = NextNumber])
  /\ UNCHANGED <<invoices, entries>>

NewEntryId == LastId + 1

CreateEntry(w) ==
  /\ At(w, "create")
  /\ InsertDraft(work[w].gross, "invoice", work[w].inv)
  /\ Go(w, [work[w] EXCEPT !.at = "post", !.entry = NewEntryId])
  /\ UNCHANGED invoices

PostEntry(w) ==
  /\ At(w, "post")
  /\ MarkPosted(work[w].entry)
  /\ Go(w, [work[w] EXCEPT !.at = "update"])
  /\ UNCHANGED invoices

\* Faulty: without UNIQUE.
NeverTaken(w) == FALSE

\* UNIQUE: another invoice has the number.
Taken(w) == \E i \in Invoices \ {work[w].inv} : invoices[i].number = work[w].number

\* The row is overwritten whatever its status is by now.
MarkSent(w) ==
  /\ At(w, "update")
  /\ ~Taken(w)
  /\ invoices' = [invoices EXCEPT ![work[w].inv].number = work[w].number,
                                  ![work[w].inv].status = "sent",
                                  ![work[w].inv].entry = work[w].entry]
  /\ Go(w, Idle)
  /\ UNCHANGED entries

\* From the number on again; the entry of this attempt stays posted.
Collide(w) ==
  /\ At(w, "update")
  /\ Taken(w)
  /\ Go(w, IF work[w].attempts < MaxAttempts
             THEN [work[w] EXCEPT !.at = "number", !.number = 0, !.entry = 0, !.attempts = @ + 1]
             ELSE Idle)
  /\ UNCHANGED <<invoices, entries>>

----------------------------------------------------------------------------------
(* mark_paid: checked outside the transaction that records the payment.    *)

\* Faulty: any positive amount is accepted.
WithinLax(i, amount) == amount > 0

\* INVALID_AMOUNT, OVERPAYMENT.
Within(i, amount) == amount > 0 /\ amount <= Gross(i) - invoices[i].paid

\* Faulty: everything but a draft can be paid.
PayableLax(i) == invoices[i].type = "sales" /\ invoices[i].status # "draft"

\* CREDIT_NOT_PAYABLE, NOT_PAYABLE.
Payable(i) == invoices[i].type = "sales" /\ invoices[i].status = "sent"

Pay(w, i, amount) ==
  /\ Payable(i)
  /\ Within(i, amount)
  /\ Start(w, [Idle EXCEPT !.at = "pay", !.inv = i, !.todo = amount,
                              !.gross = Gross(i), !.paid = invoices[i].paid])
  /\ UNCHANGED <<invoices, entries>>

RecordPayment(w) ==
  /\ At(w, "pay")
  /\ invoices' = [invoices EXCEPT
       ![work[w].inv].paid = @ + work[w].todo,
       ![work[w].inv].status = IF work[w].paid + work[w].todo >= work[w].gross THEN "paid" ELSE @]
  /\ Go(w, Idle)
  /\ UNCHANGED entries

----------------------------------------------------------------------------------

\* The UPDATE of reverse_entry.
VoidInvoice(e) ==
  [i \in Invoices |-> IF invoices[i].entry = e THEN [invoices[i] EXCEPT !.status = "void"]
                                               ELSE invoices[i]]

\* reverse_entry of another command, one transaction (Ledger.tla).
Reverse(e) ==
  /\ IsPosted(e)
  /\ ~HasReversal(e)
  /\ InsertReversal(e)
  /\ invoices' = VoidInvoice(e)
  /\ Touch(entries[e].ref)
  /\ UNCHANGED work

Crash(w) ==
  /\ w \in Mortal
  /\ ~At(w, "idle")
  /\ Go(w, Idle)
  /\ UNCHANGED <<invoices, entries>>

Step(w) ==
  \/ \E n \in 1 .. MaxLines : Create(w, n)
  \/ \E i \in Invoices : Credit(w, i) \/ Finalize(w, i) \/ \E a \in 1 .. MaxLines : Pay(w, i, a)
  \/ InsertInvoice(w) \/ InsertLine(w) \/ MakeCredit(w)
  \/ TakeNumber(w) \/ CreateEntry(w) \/ PostEntry(w) \/ MarkSent(w) \/ Collide(w)
  \/ RecordPayment(w)
  \/ Crash(w)

Next ==
  \/ \E w \in Workers : Step(w)
  \/ \E e \in Ids : Reverse(e)

Spec == Init /\ [][Next]_vars

----------------------------------------------------------------------------------
(* Properties.  They are about invoices that no two commands ever worked   *)
(* on at once; everything else, collisions between different invoices and  *)
(* deaths included, may happen.                                            *)

Alone == Invoices \ overlapped

IsLiveFor(e, i) ==
  entries[e].source = "invoice" /\ entries[e].ref = i /\ IsPosted(e) /\ ~HasReversal(e)

(***************************************************************************)
(* The numbers of a year are 1 to n, each given once (README, `invoice     *)
(* finalize': "the sequential number (YYYY-NNNN)").                        *)
(***************************************************************************)
NumbersGapFree ==
  overlapped = {} =>
    /\ Numbers = 1 .. Cardinality(Numbers)
    /\ \A i, j \in Invoices : invoices[i].number = invoices[j].number /\ i # j => invoices[i].number = 0

(***************************************************************************)
(* An invoice is never paid beyond its amount, and it is `paid' exactly    *)
(* when nothing is open.                                                   *)
(***************************************************************************)
PaidIsCovered ==
  \A i \in Alone :
    /\ invoices[i].paid <= Gross(i)
    /\ invoices[i].status = "paid" => invoices[i].paid = Gross(i)
    /\ invoices[i].status = "sent" => invoices[i].paid < Gross(i)

(***************************************************************************)
(* A receivable is in the ledger: an invoice that is sent or paid has its  *)
(* own posted entry that nobody reversed, one whose entry was reversed is  *)
(* void and never comes back, and a finalized credit note takes back       *)
(* exactly what its invoice booked.                                        *)
(***************************************************************************)
CreditUndoes(i) ==
  invoices[i].type = "credit" /\ invoices[i].entry # 0 /\ invoices[i].creditFor \in Alone
    => entries[invoices[i].entry].postings = -entries[invoices[invoices[i].creditFor].entry].postings

SentIsBooked ==
  \A i \in Alone :
    /\ invoices[i].status \in {"sent", "paid"} => IsLiveFor(invoices[i].entry, i)
    /\ invoices[i].status = "void" => HasReversal(invoices[i].entry)
    /\ CreditUndoes(i)

==================================================================================
