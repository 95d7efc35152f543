---------------------------------- MODULE Trade ----------------------------------
(***************************************************************************)
(* The reports on invoices and payables (src/reports.rs: aging, sales, ICP; *)
(* src/invoice.rs: get_invoice, list_invoices) beside the journal the       *)
(* invoices are booked in, on the days of the compliance calendar.          *)
(*                                                                         *)
(* How an invoice is created, numbered and finalized step by step is in     *)
(* Invoices.tla; here a command is one step and an invoice has its lines,   *)
(* discounts, VAT and dates.  The journal holds the legs of the invoices'   *)
(* entries, of their payments and of what reverses either; the bank leg of a *)
(* payment is left out, and so are entries made by hand on these accounts,  *)
(* which belong to no contact and no invoice.                               *)
(***************************************************************************)
EXTENDS Totals, Compliance, Rates

CONSTANTS
  Contacts,
  Details(_),    \* what is filled in of a contact: name, address, city, vat_id, ...
  Payables,      \* [contact, date, due, amount] of inbound invoices
  Scenarios      \* bounds: how many invoices, credits, payables and filings, and of what
                 \* (an invoice is paid by hand in two parts at most)

ASSUME TradeAssumption ==
  /\ \A c \in Contacts : Details(c) \subseteq {"name", "address", "city", "vat_id"}
  /\ \A b \in Scenarios : b.lines \subseteq Seq(InvoiceLine) /\ b.discounts \subseteq Discount
                         /\ b.fxDays \subseteq Nat

VARIABLES
  invoices,   \* rows in id order
  payables,   \* payables by their status
  journal,    \* the posted entries of the invoices, [invoice, kind, turn, contact, date, legs];
              \* what reverses an entry is of its kind and takes the next turn
  bounds      \* the scenario this behaviour is in

allVars == <<invoices, payables, journal, bounds, today, fye, filings, returns, rates, foreign, setByHand>>

trade == <<invoices, payables, journal, bounds>>

Numbers == DOMAIN invoices

TradeTypeOK ==
  /\ \A i \in Numbers :
       /\ invoices[i].type \in {"sales", "credit"}
       /\ invoices[i].status \in {"draft", "sent", "paid", "void"}
       /\ IsDate(invoices[i].date) /\ IsDate(invoices[i].due)
       /\ invoices[i].paid \in Nat /\ invoices[i].byHand \in 0 .. invoices[i].paid
  /\ payables \in [Payables -> {"none", "unpaid", "in_batch", "paid"}]
  /\ \A e \in journal : /\ e.invoice \in Numbers /\ e.contact \in Contacts /\ IsDate(e.date)
                         /\ e.kind \in {"invoice", "payment"} /\ e.turn \in 0 .. bounds.reversals
  /\ ComplianceTypeOK
  /\ RatesTypeOK

TradeInit ==
  /\ invoices = << >>
  /\ payables = [p \in Payables |-> "none"]
  /\ journal = {}
  /\ bounds \in Scenarios
  /\ ComplianceInit
  /\ RatesInit
  /\ fye \in bounds.fyes

----------------------------------------------------------------------------------
(* The invoices and their entries.                                         *)

\* compute_invoice_totals and build_invoice_postings.  A row carries them: no
\* command changes the lines or the discount of an invoice, only its type.
Sums(lines, d, type) ==
  LET groups == DiscountedNets(lines, d)
      reverse == {g \in DOMAIN groups : lines[g].code = "RE"}
  IN  [net |-> Net(lines, d), vat |-> Vat(lines, d), gross |-> Gross(lines, d),
       reverse |-> IF reverse = {} THEN 0 ELSE groups[Min(reverse)],   \* the first such group
       reverses |-> Cardinality(reverse),
       legs |-> Postings(lines, d, type = "credit")]

GrossOf(i) == invoices[i].sums.gross

Outstanding(i) == GrossOf(i) - invoices[i].paid

\* The status get_invoice derives: sent, and due before today.
IsOverdue(i) == invoices[i].status = "sent" /\ invoices[i].due < today

\* list_invoices --status: the database knows the stored status, and the
\* overdue ones are picked out of all of them afterwards.
Listed(status) ==
  {i \in Numbers : IF status = "overdue" THEN IsOverdue(i) ELSE invoices[i].status = status}

\* create_invoice: date + days, as chrono adds them.
DueDate(date, days) ==
  CHOOSE d \in {YMD(y, m, k) : y \in {YearOf(date), YearOf(date) + 1}, m \in 1 .. 12, k \in 1 .. 31} :
    IsDate(d) /\ DayNumber(d) = DayNumber(date) + days

Create(c, date, lines, d, days) ==
  /\ Cardinality({i \in Numbers : invoices[i].type = "sales"}) < bounds.invoices
  /\ date <= today
  /\ invoices' = Append(invoices,
       [type |-> "sales", status |-> "draft", contact |-> c, date |-> date, due |-> DueDate(date, days),
        lines |-> lines, discount |-> d, sums |-> Sums(lines, d, "sales"), paid |-> 0, byHand |-> 0])
  /\ UNCHANGED <<payables, journal>>

\* credit_invoice: the same lines and discount.
Credit(i) ==
  /\ Cardinality({j \in Numbers : invoices[j].type = "credit"}) < bounds.credits
  /\ invoices[i].type = "sales"
  /\ invoices[i].status \in {"sent", "paid"}
  /\ invoices' = Append(invoices,
       [invoices[i] EXCEPT !.type = "credit", !.status = "draft", !.date = today,
                           !.sums = Sums(invoices[i].lines, invoices[i].discount, "credit"),
                           !.paid = 0, !.byHand = 0])
  /\ UNCHANGED <<payables, journal>>

Book(i, kind, date, legs) ==
  journal' = journal \cup {[invoice |-> i, kind |-> kind, turn |-> 0, contact |-> invoices[i].contact,
                            date |-> date, legs |-> legs]}

BookedLegs(i) == invoices[i].sums.legs

\* An entry that does not balance or has a leg of zero is refused.
Bookable(legs) ==
  /\ SumOf([l \in legs |-> l.amount]) = 0
  /\ \A l \in legs : l.amount # 0
  /\ Cardinality(legs) >= 2

HasVatId(c) == "vat_id" \in Details(c)

\* validate_compliance: the supplier's details, the customer's, and the
\* customer's VAT id when a line is reverse-charged.
SupplierComplete(company) ==
  /\ {"name", "registration_id", "address", "postal_code", "city"} \subseteq company
  /\ "vat_module" \in company => "tax_id" \in company

Compliant(i) ==
  /\ SupplierComplete(bounds.company)
  /\ {"name", "address", "city"} \subseteq Details(invoices[i].contact)
  /\ (\E n \in DOMAIN invoices[i].lines : invoices[i].lines[n].code \in {"R", "RE"})
       => HasVatId(invoices[i].contact)

Finalize(i) ==
  /\ invoices[i].status = "draft"
  /\ Compliant(i)
  /\ Bookable(BookedLegs(i))
  /\ invoices' = [invoices EXCEPT ![i].status = "sent"]
  /\ Book(i, "invoice", invoices[i].date, BookedLegs(i))
  /\ UNCHANGED payables

\* payment_from_bank: settles the invoice in full and books it.
PayFromBank(i) ==
  /\ invoices[i].type = "sales"
  /\ invoices[i].status = "sent"
  /\ Outstanding(i) > 0
  /\ invoices' = [invoices EXCEPT ![i].paid = GrossOf(i), ![i].status = "paid"]
  /\ Book(i, "payment", today, {[account |-> "debtors", group |-> 0, code |-> "none", amount |-> -Outstanding(i), vat |-> 0]})
  /\ UNCHANGED payables

\* mark_paid by hand: a payment row and no entry.
MarkPaid(i, amount) ==
  /\ invoices[i].type = "sales"
  /\ invoices[i].status = "sent"
  /\ amount > 0
  /\ amount <= Outstanding(i)
  /\ invoices' = [invoices EXCEPT ![i].paid = @ + amount, ![i].byHand = @ + amount,
                                  ![i].status = IF invoices[i].paid + amount >= GrossOf(i) THEN "paid" ELSE @]
  /\ UNCHANGED <<payables, journal>>

\* The entry of which invoices.entry_id tells.
IsOwn(e, i) == e.invoice = i /\ e.kind = "invoice" /\ e.turn = 0

\* reverse_entry on any of them, once: the same date, negated amounts.  The
\* invoice is void if the entry is its own; when it is the payment's, or itself
\* a reversal, the invoice stays what it was.
ReverseEntry(e) ==
  /\ e.turn < bounds.reversals
  /\ \A r \in journal : ~(r.invoice = e.invoice /\ r.kind = e.kind /\ r.turn = e.turn + 1)
  /\ invoices' = [i \in Numbers |-> IF IsOwn(e, i) THEN [invoices[i] EXCEPT !.status = "void"] ELSE invoices[i]]
  /\ journal' = journal \cup {[e EXCEPT !.turn = @ + 1,
                                        !.legs = {[l EXCEPT !.amount = -l.amount, !.vat = -l.vat] : l \in e.legs}]}
  /\ UNCHANGED payables

\* A payable is added, batched and paid (Payments.tla).
MovePayable(p, from, to) ==
  /\ payables[p] = from
  /\ to = "unpaid" => p.date <= today /\ Cardinality({q \in Payables : payables[q] # "none"}) < bounds.payables
  /\ payables' = [payables EXCEPT ![p] = to]
  /\ UNCHANGED <<invoices, journal>>

----------------------------------------------------------------------------------
(* Aging.                                                                  *)

Buckets == 0 .. 4   \* current, d30, d60, d90, d90plus

DaysPast(due) == NonNegative(DayNumber(today) - DayNumber(due))

\* bucket_label.
Bucket(due) ==
  LET days == DaysPast(due)
  IN  CASE days = 0 -> 0 [] days \in 1 .. 30 -> 1 [] days \in 31 .. 60 -> 2
        [] days \in 61 .. 90 -> 3 [] OTHER -> 4

OldestFirst(S) ==
  LET older(i) == {j \in S : \/ invoices[j].date < invoices[i].date
                             \/ invoices[j].date = invoices[i].date /\ j < i}
  IN  [n \in 1 .. Cardinality(S) |-> CHOOSE i \in S : Cardinality(older(i)) = n - 1]

\* The open sales invoices of a contact, by date.
Items(c) ==
  OldestFirst({i \in Numbers : /\ invoices[i].type = "sales"
                           /\ invoices[i].contact = c
                           /\ invoices[i].status = "sent"
                           /\ invoices[i].date <= today
                           /\ Outstanding(i) > 0})

\* Faulty: credit notes in draft count, and so do void ones.
AnyCredits(c) == {i \in Numbers : invoices[i].type = "credit" /\ invoices[i].contact = c /\ GrossOf(i) > 0}

\* The credit notes that offset a contact's debt.
Credits(c) ==
  {i \in Numbers : /\ invoices[i].type = "credit"
               /\ invoices[i].contact = c
               /\ invoices[i].status \notin {"draft", "void"}
               /\ invoices[i].date <= today
               /\ GrossOf(i) > 0}

CreditTotal(c) == MapThenSumSet(GrossOf, Credits(c))

\* What the n-th of a row of amounts keeps when `off' is taken off from its start.
Kept(amounts, off, n) ==
  LET before == MapThenSumSet(LAMBDA k : amounts[k], 1 .. n - 1)
  IN  amounts[n] - Least(amounts[n], NonNegative(off - before))

\* outstanding_cents of each item, the oldest invoices offset first.
ItemAmounts(c) ==
  LET open == [n \in DOMAIN Items(c) |-> Outstanding(Items(c)[n])]
  IN  [n \in DOMAIN open |-> Kept(open, CreditTotal(c), n)]

\* The buckets, the oldest debt offset first: that is from d90plus down.
BucketAmounts(c) ==
  LET items == Items(c)
      filled == [k \in 1 .. 5 |->
                   MapThenSumSet(LAMBDA n : IF Bucket(invoices[items[n]].due) = 5 - k
                                              THEN Outstanding(items[n]) ELSE 0, DOMAIN items)]
  IN  [b \in Buckets |-> Kept(filled, CreditTotal(c), 5 - b)]

Debt(c) == SumOf(BucketAmounts(c))

\* creditors_aging: what is in a batch is shown beside the buckets.
Owed(c) == {p \in Payables : p.contact = c /\ payables[p] \in {"unpaid", "in_batch"} /\ p.date <= today}

InBatch(c) == MapThenSumSet(LAMBDA p : p.amount, {p \in Owed(c) : payables[p] = "in_batch"})

CreditorBuckets(c) ==
  [b \in Buckets |-> MapThenSumSet(LAMBDA p : p.amount,
                                   {p \in Owed(c) : payables[p] = "unpaid" /\ Bucket(p.due) = b})]

CreditorTotal(c) == MapThenSumSet(LAMBDA p : p.amount, Owed(c))

\* contact_statement up to today: invoices and their payments, credit notes,
\* and every payable recorded, as debit less credit.
Stated(c) ==
  {i \in Numbers : /\ invoices[i].contact = c
               /\ invoices[i].status \notin {"draft", "void"}
               /\ invoices[i].date <= today}

StatementRows(c) ==
  {[kind |-> invoices[i].type, id |-> i,
    amount |-> IF invoices[i].type = "credit" THEN -GrossOf(i) ELSE GrossOf(i)] : i \in Stated(c)}
  \cup {[kind |-> "payment", id |-> i,
         amount |-> IF invoices[i].type = "credit" THEN invoices[i].paid ELSE -invoices[i].paid] :
           i \in {j \in Stated(c) : invoices[j].paid # 0}}
  \cup {[kind |-> "payable", id |-> p, amount |-> -p.amount] :
           p \in {q \in Payables : q.contact = c /\ payables[q] # "none" /\ q.date <= today}}

StatementBalance(c) == MapThenSumSet(LAMBDA r : r.amount, StatementRows(c))

----------------------------------------------------------------------------------
(* Sales and ICP.                                                          *)

Sold(year) ==
  {i \in Numbers : /\ invoices[i].type = "sales"
               /\ invoices[i].status \notin {"draft", "void"}
               /\ Within(invoices[i].date, FiscalYearWindow(fye, year))}

SalesByContact(year) ==
  [c \in {invoices[i].contact : i \in Sold(year)} |->
     LET own == {i \in Sold(year) : invoices[i].contact = c}
     IN  [count |-> Cardinality(own),
          net   |-> MapThenSumSet(LAMBDA i : invoices[i].sums.net, own),
          vat   |-> MapThenSumSet(LAMBDA i : invoices[i].sums.vat, own),
          gross |-> MapThenSumSet(GrossOf, own)]]

\* By item: after the discounts of the lines, before that of the whole.
SalesByItem(year) ==
  LET soldLines == UNION {{<<i, j>> : j \in DOMAIN invoices[i].lines} : i \in Sold(year)}
      item(l) == invoices[l[1]].lines[l[2]].item
  IN  [k \in {item(l) : l \in soldLines} |->
         LET own == {l \in soldLines : item(l) = k}
         IN  [count |-> Cardinality(own),
              net   |-> MapThenSumSet(LAMBDA l : LineNet(invoices[l[1]].lines[l[2]]), own)]]

QuarterWindow(y, q) == <<YMD(y, 3 * q - 2, 1), MonthEnd(y, 3 * q)>>

SignedReverse(i) == IF invoices[i].type = "credit" THEN -invoices[i].sums.reverse ELSE invoices[i].sums.reverse

Supplies(y, q) ==
  {i \in Numbers : /\ invoices[i].status \in {"sent", "paid"}
               /\ Within(invoices[i].date, QuarterWindow(y, q))
               /\ invoices[i].sums.reverse # 0}

\* icp_readout per customer, refused when one of them has no VAT id.
Icp(y, q) ==
  [c \in {invoices[i].contact : i \in Supplies(y, q)} |->
     MapThenSumSet(SignedReverse, {i \in Supplies(y, q) : invoices[i].contact = c})]

IcpRefused(y, q) == \E c \in DOMAIN Icp(y, q) : ~HasVatId(c)

----------------------------------------------------------------------------------

Trading ==
  \/ \E c \in bounds.contacts, date \in bounds.days, lines \in bounds.lines, d \in bounds.discounts,
        days \in bounds.terms : Create(c, date, lines, d, days)
  \/ \E i \in Numbers : Credit(i) \/ Finalize(i) \/ PayFromBank(i)
  \/ \E e \in journal : ReverseEntry(e)
  \/ \E i \in Numbers : MarkPaid(i, IF invoices[i].paid = 0 THEN 1 ELSE Outstanding(i))
  \/ \E p \in Payables : \/ MovePayable(p, "none", "unpaid")
                         \/ MovePayable(p, "unpaid", "in_batch")
                         \/ MovePayable(p, "in_batch", "paid")

Exchanging ==
  \/ Cardinality(foreign) < bounds.foreign
       /\ \E d \in bounds.fxDays, l \in bounds.fxAmounts :
            BookForeign(d, l) \/ \E r \in bounds.fxRates : BookForeignAt(d, l, r)
  \/ ~setByHand /\ \E d \in bounds.fxDays, r \in bounds.fxRates : SetRate(d, r)

TradeNext ==
  \/ Trading /\ UNCHANGED <<bounds, complianceVars, ratesVars>>
  \/ FilingOf(bounds.filed) /\ Cardinality(filings) + Cardinality(returns) < bounds.filings
       /\ UNCHANGED <<trade, ratesVars>>
  \/ \E d \in bounds.days : Tomorrow(d) /\ UNCHANGED <<trade, ratesVars>>
  \/ Exchanging /\ UNCHANGED <<trade, complianceVars>>

TradeSpec == TradeInit /\ [][TradeNext]_allVars

----------------------------------------------------------------------------------
(* Properties.                                                             *)

\* The entries the invoices tell of.  A payment's entry that was reversed leaves
\* its invoice paid, and the reversal of a reversal leaves it void: what the
\* journal says of these is on no report.
Told == {e \in journal : e.turn <= (IF e.kind = "invoice" THEN 1 ELSE 0)}

LedgerOf(c, account) ==
  MapThenSumSet(LAMBDA e : MapThenSumSet(LAMBDA l : IF l.account = account THEN l.amount ELSE 0,
                                         e.legs),
                {e \in Told : e.contact = c})

\* What the sums are stated of: a line may take away from others of its group,
\* but none of the groups is below nothing.
NoGroupBelowZero ==
  \A b \in Scenarios : \A lines \in b.lines : \A i \in DOMAIN lines : GroupNet(lines, i) >= 0

(***************************************************************************)
(* The division to the cent: what is divided comes back, whatever the       *)
(* lines, rates and discounts, as long as the discount is one and no group  *)
(* of lines is below nothing.  The stored VAT of the lines, the breakdown   *)
(* per rate and the booked entry all add up to the same invoice.  And       *)
(* amounts in another currency are divided by one rate a day.               *)
(***************************************************************************)
IsDiscount(d) == d.value >= 0 /\ (d.type = "pct" => d.value <= 10000)

InvoicesAddUp ==
  \A i \in {j \in Numbers : invoices[j].status = "draft"} :
    LET lines == invoices[i].lines
        d == invoices[i].discount
        byRate == Breakdown(lines, d)
    IN  /\ SumOf([l \in BookedLegs(i) |-> l.amount]) = 0
        /\ SumOf([r \in DOMAIN byRate |-> byRate[r].vat]) = invoices[i].sums.vat
        /\ IsDiscount(d) =>
             /\ invoices[i].sums.net = NetBefore(lines) - HeaderDiscount(lines, d)
             /\ SumOf(LineVats(lines, d)) = invoices[i].sums.vat
             /\ \A g \in Groups(lines) : DiscountedNets(lines, d)[g] \in 0 .. GroupNet(lines, g)

TotalsAddUp == InvoicesAddUp /\ OneRateADay

PaidByHand(c) == MapThenSumSet(LAMBDA i : invoices[i].byHand, {i \in Numbers : invoices[i].contact = c})

\* The debtors list, its items and its buckets, and the debtors account.  Of a
\* contact with invoices of less than nothing, or with paid ones that were
\* reversed, which are on no list, there is no such promise.
AgingMatchesLedger ==
  \A c \in Contacts :
    /\ SumOf(ItemAmounts(c)) = Debt(c)
    /\ (\A i \in {j \in Numbers : invoices[j].contact = c} :
          /\ invoices[i].status # "draft" => GrossOf(i) > 0
          /\ invoices[i].status = "void" => invoices[i].paid = 0)
         => Debt(c) = NonNegative(LedgerOf(c, "debtors") - PaidByHand(c))
    /\ CreditorTotal(c) = InBatch(c) + SumOf(CreditorBuckets(c))
    /\ {i \in Listed("overdue") : invoices[i].contact = c /\ invoices[i].type = "sales" /\ Outstanding(i) > 0}
         = {Items(c)[n] : n \in {k \in DOMAIN Items(c) : Bucket(invoices[Items(c)[k]].due) > 0}}

Recorded(c) ==
  MapThenSumSet(LAMBDA p : p.amount, {p \in Payables : p.contact = c /\ payables[p] # "none"})

\* The statement sent to a contact and the debtors account.  It has the
\* purchases too, and no paid invoice that was reversed.
StatementMatchesLedger ==
  \A c \in Contacts :
    (\A i \in Numbers : invoices[i].contact = c /\ invoices[i].status = "void" => invoices[i].paid = 0)
      => StatementBalance(c) = LedgerOf(c, "debtors") - PaidByHand(c) - Recorded(c)

ReverseCharged(c, window) ==
  -MapThenSumSet(LAMBDA e : MapThenSumSet(LAMBDA l : IF l.code = "RE" THEN l.amount ELSE 0, e.legs),
                 {e \in Told : e.contact = c /\ Within(e.date, window)})

\* The ICP listing and field 2a of the VAT return.  The listing takes the first
\* group of reverse-charge lines of an invoice, so this is about invoices with
\* one such group.
IcpMatchesReturn ==
  (\A i \in Numbers : invoices[i].sums.reverses <= 1) =>
    \A y \in Years, q \in 1 .. 4 : ~IcpRefused(y, q) /\ \A c \in Contacts :
      (IF c \in DOMAIN Icp(y, q) THEN Icp(y, q)[c] ELSE 0) = ReverseCharged(c, QuarterWindow(y, q))

BookedIn(account, year) ==
  MapThenSumSet(LAMBDA e : MapThenSumSet(LAMBDA l : IF l.account = account THEN l.amount ELSE 0,
                                         e.legs),
                {e \in Told : /\ invoices[e.invoice].type = "sales"
                             /\ Within(e.date, FiscalYearWindow(fye, year))})

\* The sales report and the VAT and revenue accounts of that fiscal year, and by
\* item the same before the discounts on the whole.
SalesMatchBooks ==
  \A y \in Years :
    LET byContact == SalesByContact(y)
        byItem == SalesByItem(y)
        header(i) == HeaderDiscount(invoices[i].lines, invoices[i].discount)
    IN  (\A i \in Numbers : IsDiscount(invoices[i].discount)) =>
          /\ MapThenSumSet(LAMBDA c : byContact[c].vat, DOMAIN byContact) = -BookedIn("vat", y)
          /\ MapThenSumSet(LAMBDA c : byContact[c].net, DOMAIN byContact)
               = -BookedIn("8000", y) - BookedIn("8010", y)
          /\ MapThenSumSet(LAMBDA c : byContact[c].net, DOMAIN byContact)
               = MapThenSumSet(LAMBDA k : byItem[k].net, DOMAIN byItem) - MapThenSumSet(header, Sold(y))

(***************************************************************************)
(* The reports, each recomputed from the invoices, say what the postings    *)
(* say.  What the debtors list says a contact owes is what the account      *)
(* says, less what was marked paid by hand and not booked, and nothing for  *)
(* a contact that has money to get back; the statement of a contact ends in *)
(* the same account; the ICP listing is the VAT return's field 2a (README,  *)
(* `report icp') and is not refused for a customer without a VAT id; the    *)
(* sales report is what the journal has of that year's sales invoices,      *)
(* reversed ones gone.                                                      *)
(*                                                                         *)
(* Four things the reports do not hear of, and the property excepts: the    *)
(* reversal of a payment's entry (the invoice stays paid and the account    *)
(* has it open again), the reversal of a reversal, an invoice reversed      *)
(* after it was paid, and entries made by hand on these accounts.  Nor is   *)
(* there a promise for invoices of less than nothing or with two groups     *)
(* of reverse-charge lines.                                                 *)
(***************************************************************************)
ReportsMatchLedger ==
  AgingMatchesLedger /\ StatementMatchesLedger /\ IcpMatchesReturn /\ SalesMatchBooks

==================================================================================
