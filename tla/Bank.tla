----------------------------------- MODULE Bank -----------------------------------
(***************************************************************************)
(* Bank lines and their reconciliation (src/bank.rs, and payment_from_bank *)
(* of src/invoice.rs).  Matching reads without a transaction and writes in *)
(* one; booking a line takes three commits.  Several processes match, book *)
(* and link at the same time.                                              *)
(*                                                                         *)
(* There is one bank account, and all dates lie within the match window;   *)
(* the order of the dates, and so which of several candidates is the       *)
(* nearest, is left open.  A posting list is what it puts on the bank's    *)
(* ledger account.  Finalized invoices are given; how they come about and  *)
(* are paid by hand is in Invoices.tla.                                    *)
(***************************************************************************)
EXTENDS Integers, Sequences, FiniteSets

CONSTANTS
  Workers,      \* processes that run a bank command
  Mortal,       \* those of them that may die
  Hashes,       \* the lines of the statements, told apart by bank_transactions.hash
  Amount(_),    \* cents of a line
  Statements,   \* what a file holds: sequences of hashes
  Owed,         \* the open amounts of the sales invoices, in due order
  Tolerance,    \* largest exchange difference a payment may have
  Manual,       \* the amounts of entries booked by hand
  ByHand,       \* bound: the lines whose state a person sets
  MaxEntries    \* bound

ASSUME BankAssumption ==
  /\ Mortal \subseteq Workers
  /\ Statements \subseteq Seq(Hashes)
  /\ \A h \in Hashes : Amount(h) \in Int \ {0}
  /\ Owed \in Seq(Nat \ {0})
  /\ Tolerance \in Nat
  /\ Manual \subseteq Int \ {0}
  /\ ByHand \subseteq Hashes

VARIABLES
  lines,      \* bank_transactions in id order: hash and state
  entries,    \* the journal; ref is the line an entry was made from
  open,       \* invoices with status 'sent'
  recon,      \* reconciliations; `by' tells which command
  work,       \* what each process is doing
  reopened,   \* history: lines whose state was set by hand after they were matched
  troubled    \* history: lines that two commands worked on at once, or whose booking died

vars == <<lines, entries, open, recon, work, reopened, troubled>>

NoLegs(l) == 0

TwoLegs(l) == 2

Minus(l) == -l

INSTANCE Entries WITH
  PostingLists <- Int, Total <- NoLegs, Legs <- TwoLegs, Neg <- Minus,
  Sources <- {"manual", "bank", "reversal"}, Refs <- Nat, NoRef <- 0

Lines == DOMAIN lines

AmountOf(i) == Amount(lines[i].hash)

\* The matches auto_match found, by the kind of their target.
LinkRow == [line : Nat, entry : Nat]
PayRow == [line : Nat, invoice : Nat]

Idle == [at |-> "idle", line |-> 0, entry |-> 0, queue |-> {}, links |-> {}, pays |-> << >>]

\* The lines a command works on: the line of `book' or `link', those automatic
\* matching has yet to look at, and those it matched.
LinesOf(job) ==
  ({job.line} \ {0}) \cup job.queue \cup {m.line : m \in job.links}
    \cup {job.pays[k].line : k \in DOMAIN job.pays}

TypeOK ==
  /\ lines \in Seq([hash : Hashes, state : {"unmatched", "matched", "ignored"}])
  /\ entries \in Seq(EntryRow)
  /\ open \subseteq DOMAIN Owed
  /\ \A r \in recon : /\ r.line \in Lines
                      /\ r.by \in {"post", "link", "auto"}
                      /\ IF r.type = "entry" THEN r.target \in Ids ELSE r.target \in DOMAIN Owed \ open
  /\ \A w \in Workers :
       /\ work[w].at \in {"idle", "create", "post", "mark", "link", "auto"}
       /\ work[w].links \subseteq LinkRow /\ work[w].pays \in Seq(PayRow)
       /\ LinesOf(work[w]) \subseteq Lines
       /\ work[w].at \in {"post", "mark", "link"} => work[w].entry \in Ids
  /\ reopened \subseteq Lines /\ troubled \subseteq Lines

Init ==
  /\ lines = << >>
  /\ entries = << >>
  /\ open = DOMAIN Owed
  /\ recon = {}
  /\ work = [w \in Workers |-> Idle]
  /\ reopened = {} /\ troubled = {}

----------------------------------------------------------------------------------

At(w, where) == work[w].at = where

\* Of the lines in S, those a command is working on.
Contended(S) == S \cap UNION {LinesOf(work[w]) : w \in Workers}

Start(w, job) ==
  /\ At(w, "idle")
  /\ work' = [work EXCEPT ![w] = job]
  /\ troubled' = troubled \cup Contended(LinesOf(job))
  /\ UNCHANGED reopened

Go(w, job) == work' = [work EXCEPT ![w] = job] /\ UNCHANGED <<reopened, troubled>>

Reconciled(e) == \E r \in recon : r.type = "entry" /\ r.target = e

\* INSERT INTO reconciliations: UNIQUE(bank_tx_id, target_type, target_id).
IsNewPair(i, type, t) == \A r \in recon : ~(r.line = i /\ r.type = type /\ r.target = t)

Reconcile(i, e, by) ==
  /\ IsNewPair(i, "entry", e)
  /\ recon' = recon \cup {[line |-> i, type |-> "entry", target |-> e, by |-> by]}
  /\ lines' = [lines EXCEPT ![i].state = "matched"]

----------------------------------------------------------------------------------
(* import_transactions: one transaction; a line that is known, or came     *)
(* earlier in the file, is skipped.                                        *)

NewLines(file) ==
  {k \in DOMAIN file : /\ \A i \in Lines : lines[i].hash # file[k]
                       /\ \A j \in 1 .. (k - 1) : file[j] # file[k]}

Import(file) ==
  /\ \E new \in [1 .. Cardinality(NewLines(file)) -> NewLines(file)] :
       /\ \A j, k \in DOMAIN new : j < k => new[j] < new[k]
       /\ lines' = lines \o [k \in DOMAIN new |-> [hash |-> file[new[k]], state |-> "unmatched"]]
  /\ UNCHANGED <<entries, open, recon, work, reopened, troubled>>

\* set_transaction_state: from any state to any.
SetState(i, state) ==
  /\ lines[i].hash \in ByHand
  /\ lines[i].state # state
  /\ lines' = [lines EXCEPT ![i].state = state]
  /\ reopened' = IF lines[i].state = "matched" THEN reopened \cup {i} ELSE reopened
  /\ troubled' = troubled \cup Contended({i})
  /\ UNCHANGED <<entries, open, recon, work>>

----------------------------------------------------------------------------------
(* post_from_transaction: create the entry, post it, reconcile the line.   *)

\* Faulty: a matched line is booked again.
MayBookAny(i) == lines[i].state # "ignored"

\* ALREADY_MATCHED.
MayBook(i) == lines[i].state = "unmatched"

BookLine(w, i) ==
  /\ MayBook(i)
  /\ Start(w, [Idle EXCEPT !.at = "create", !.line = i])
  /\ UNCHANGED <<lines, entries, open, recon>>

CreateEntry(w) ==
  /\ At(w, "create")
  /\ InsertDraft(AmountOf(work[w].line), "bank", work[w].line)
  /\ Go(w, [work[w] EXCEPT !.at = "post", !.entry = LastId + 1])
  /\ UNCHANGED <<lines, open, recon>>

PostEntry(w) ==
  /\ At(w, "post")
  /\ MarkPosted(work[w].entry)
  /\ Go(w, [work[w] EXCEPT !.at = "mark"])
  /\ UNCHANGED <<lines, open, recon>>

MarkMatched(w) ==
  /\ At(w, "mark")
  /\ Reconcile(work[w].line, work[w].entry, "post")
  /\ Go(w, Idle)
  /\ UNCHANGED <<entries, open>>

----------------------------------------------------------------------------------
(* link_transaction. *)

Link(w, i, e) ==
  /\ lines[i].state = "unmatched"
  /\ IsPosted(e)
  /\ Start(w, [Idle EXCEPT !.at = "link", !.line = i, !.entry = e])
  /\ UNCHANGED <<lines, entries, open, recon>>

WriteLink(w) ==
  /\ At(w, "link")
  /\ Reconcile(work[w].line, work[w].entry, "link")
  /\ Go(w, Idle)
  /\ UNCHANGED <<entries, open>>

\* The pair exists: the transaction of `mark' or `link' rolls back.
PairFails(w) ==
  /\ At(w, "mark") \/ At(w, "link")
  /\ ~IsNewPair(work[w].line, "entry", work[w].entry)
  /\ Go(w, Idle)
  /\ UNCHANGED <<lines, entries, open, recon>>

----------------------------------------------------------------------------------
(* auto_match: line by line, an entry with the same amount, else the       *)
(* invoice that comes nearest; then all matches in one transaction.        *)

Unmatched == {i \in Lines : lines[i].state = "unmatched"}

AutoMatch(w) ==
  /\ Unmatched # {}
  /\ Start(w, [Idle EXCEPT !.at = "auto", !.queue = Unmatched])
  /\ UNCHANGED <<lines, entries, open, recon>>

UsedEntries(w) == {m.entry : m \in work[w].links}

UsedInvoices(w) == {work[w].pays[k].invoice : k \in DOMAIN work[w].pays}

Candidates(w, i) ==
  {e \in Ids : IsPosted(e) /\ entries[e].postings = AmountOf(i) /\ ~Reconciled(e)} \ UsedEntries(w)

Distance(v, i) == IF AmountOf(i) > Owed[v] THEN AmountOf(i) - Owed[v] ELSE Owed[v] - AmountOf(i)

\* Invoices within the tolerance, and of those the nearest, in due order.
Nearest(w, i) ==
  LET near == {v \in open \ UsedInvoices(w) : AmountOf(i) > 0 /\ Distance(v, i) <= Tolerance}
  IN  {v \in near : \A u \in near : Distance(v, i) < Distance(u, i)
                                      \/ (Distance(v, i) = Distance(u, i) /\ v <= u)}

\* The lines are taken by their dates.
MatchLine(w) ==
  /\ At(w, "auto")
  /\ \E i \in work[w].queue :
       LET rest == [work[w] EXCEPT !.queue = @ \ {i}]
       IN  \/ \E e \in Candidates(w, i) :
                Go(w, [rest EXCEPT !.links = @ \cup {[line |-> i, entry |-> e]}])
           \/ /\ Candidates(w, i) = {}
              /\ \E v \in Nearest(w, i) :
                   Go(w, [rest EXCEPT !.pays = Append(@, [line |-> i, invoice |-> v])])
           \/ Candidates(w, i) = {} /\ Nearest(w, i) = {} /\ Go(w, rest)
  /\ UNCHANGED <<lines, entries, open, recon>>

\* Faulty: payment_from_bank trusts what was read when the match was found.
StillPaysTrusting(m) == TRUE

\* What payment_from_bank and mark_paid check again, in the transaction.
StillPays(m) == lines[m.line].state = "unmatched" /\ m.invoice \in open /\ Distance(m.invoice, m.line) <= Tolerance

Applies(job) ==
  /\ \A m \in job.links : IsNewPair(m.line, "entry", m.entry)
  /\ \A k \in DOMAIN job.pays : StillPays(job.pays[k])

\* mark_paid settles the invoice in full.
StillOpen(pays) == open \ {pays[k].invoice : k \in DOMAIN pays}

\* The entries of the payments, in the order of the matches.
PaymentEntries(pays) ==
  [k \in DOMAIN pays |-> [state |-> "posted", postings |-> AmountOf(pays[k].line),
                          source |-> "bank", ref |-> pays[k].line, reversedFrom |-> 0]]

MatchRows(job) ==
  {[line |-> m.line, type |-> "entry", target |-> m.entry, by |-> "auto"] : m \in job.links}
    \cup {[line |-> job.pays[k].line, type |-> "invoice", target |-> job.pays[k].invoice, by |-> "auto"] :
             k \in DOMAIN job.pays}

ApplyMatches(w) ==
  /\ At(w, "auto")
  /\ work[w].queue = {} /\ LinesOf(work[w]) # {}
  /\ LastId + Len(work[w].pays) <= MaxEntries
  /\ Applies(work[w])
  /\ entries' = entries \o PaymentEntries(work[w].pays)
  /\ open' = StillOpen(work[w].pays)
  /\ recon' = recon \cup MatchRows(work[w])
  /\ lines' = [i \in Lines |-> IF i \in LinesOf(work[w]) THEN [lines[i] EXCEPT !.state = "matched"]
                                                           ELSE lines[i]]
  /\ Go(w, Idle)

\* Nothing was found, or one match no longer applies and all are rolled back.
AutoEnds(w) ==
  /\ At(w, "auto")
  /\ work[w].queue = {}
  /\ LinesOf(work[w]) = {} \/ ~Applies(work[w])
  /\ Go(w, Idle)
  /\ UNCHANGED <<lines, entries, open, recon>>

----------------------------------------------------------------------------------
(* Other commands on the journal, one transaction each (Ledger.tla). *)

Others == UNCHANGED <<lines, open, recon, work, reopened, troubled>>

\* entry add --post.
Book(amount) ==
  /\ LastId < MaxEntries
  /\ entries' = Append(entries, [state |-> "posted", postings |-> amount, source |-> "manual",
                                 ref |-> 0, reversedFrom |-> 0])
  /\ Others

ReverseEntry(e) == IsPosted(e) /\ ~HasReversal(e) /\ InsertReversal(e) /\ Others

Crash(w) ==
  /\ w \in Mortal
  /\ ~At(w, "idle")
  /\ work' = [work EXCEPT ![w] = Idle]
  /\ troubled' = troubled \cup ({work[w].line} \ {0})
  /\ UNCHANGED <<lines, entries, open, recon, reopened>>

Step(w) ==
  \/ \E i \in Lines : BookLine(w, i) \/ \E e \in Ids : Link(w, i, e)
  \/ CreateEntry(w) \/ PostEntry(w) \/ MarkMatched(w)
  \/ WriteLink(w) \/ PairFails(w)
  \/ AutoMatch(w) \/ MatchLine(w) \/ ApplyMatches(w) \/ AutoEnds(w)
  \/ Crash(w)

Next ==
  \/ \E w \in Workers : Step(w)
  \/ \E file \in Statements : Import(file)
  \/ \E i \in Lines : \E state \in {"unmatched", "ignored"} : SetState(i, state)
  \/ \E amount \in Manual : Book(amount)
  \/ \E e \in Ids : ReverseEntry(e)

Spec == Init /\ [][Next]_vars

----------------------------------------------------------------------------------
(* Properties. *)

(***************************************************************************)
(* However many processes match at once, an invoice is settled by one bank *)
(* line, and a line settles one invoice unless it was reopened by hand:    *)
(* payment_from_bank looks again inside the transaction.                   *)
(***************************************************************************)
PaysOnce ==
  \A r, q \in {x \in recon : x.type = "invoice"} :
    r.target = q.target \/ (r.line = q.line /\ r.line \notin reopened) => r = q

Calm == Lines \ (troubled \cup reopened)

(***************************************************************************)
(* A line that one command at a time worked on, to its end, is reconciled  *)
(* once when it is matched and not at all before, and its money is booked  *)
(* by at most one entry made from it.  Automatic matching never reconciles *)
(* two such lines with the same entry (the test                            *)
(* two_same_amount_transactions_match_two_distinct_entries).  Excepted is  *)
(* the entry of a payment: a line that paid an invoice is reconciled with  *)
(* the invoice, so the entry it was booked by looks free to the next line  *)
(* of that amount.                                                         *)
(***************************************************************************)
ClaimedOnce ==
  \A r, q \in {x \in recon : x.type = "entry" /\ x.by = "auto" /\ x.line \in Calm} :
    r.target = q.target => r = q

MatchedOnce ==
  /\ \A i \in Calm :
       /\ Cardinality({r \in recon : r.line = i}) = IF lines[i].state = "matched" THEN 1 ELSE 0
       /\ Cardinality({e \in Ids : entries[e].source = "bank" /\ entries[e].ref = i}) <= 1
  /\ ClaimedOnce

==================================================================================
