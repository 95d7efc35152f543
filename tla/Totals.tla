---------------------------------- MODULE Totals ----------------------------------
(***************************************************************************)
(* The amounts of an invoice (src/invoice.rs, compute_invoice_totals): line *)
(* discounts, the discount on the whole, VAT per group of lines, and how    *)
(* both are divided over groups and lines to the cent; and the postings     *)
(* that book an invoice.  Everything is in cents and basis points.  The     *)
(* code divides in floating point; here the quotients are exact.            *)
(***************************************************************************)
EXTENDS Sequences, Sums

NoDiscount == [type |-> "none", value |-> 0]

Percent(bp) == [type |-> "pct", value |-> bp]

Fixed(cents) == [type |-> "amount", value |-> cents]

Least(a, b) == IF a < b THEN a ELSE b

NonNegative(x) == IF x < 0 THEN 0 ELSE x

Abs(x) == IF x < 0 THEN -x ELSE x

\* (x * bp / 10000).round(): half away from zero.
Share(x, bp) ==
  LET half == (2 * Abs(x) * Abs(bp) + 10000) \div 20000
  IN  IF (x < 0) # (bp < 0) THEN -half ELSE half

\* x / n with the fraction cut off, toward zero.
Truncated(x, n) == IF x < 0 THEN -((-x) \div n) ELSE x \div n

----------------------------------------------------------------------------------
(* Dividing an amount over weights, functions on a set of line numbers.    *)

\* allocate_largest_remainder: cut off, then one cent each to the largest
\* remainders, earlier indices first.  What a negative total lacks is not handed out.
Allocate(total, w) ==
  IF total = 0 \/ SumOf(w) <= 0 THEN [i \in DOMAIN w |-> 0]
  ELSE LET cut  == [i \in DOMAIN w |-> Truncated(w[i] * total, SumOf(w))]
           left == [i \in DOMAIN w |-> w[i] * total - cut[i] * SumOf(w)]
           rank(i) == Cardinality({j \in DOMAIN w : left[j] > left[i] \/ (left[j] = left[i] /\ j < i)})
       IN  [i \in DOMAIN w |-> IF rank(i) < total - SumOf(cut) THEN cut[i] + 1 ELSE cut[i]]

----------------------------------------------------------------------------------
(* Lines are a sequence.                                                    *)

Discount == [type : {"none", "pct", "amount"}, value : Int]

InvoiceLine == [item : STRING, amount : Int, discount : Discount, code : STRING, gl : STRING, rate : Nat]

LineDiscount(l) ==
  CASE l.discount.type = "pct"    -> Share(l.amount, l.discount.value)
    [] l.discount.type = "amount" -> Least(l.discount.value, l.amount)
    [] OTHER                      -> 0

LineNet(l) == l.amount - LineDiscount(l)

NetBefore(lines) == SumOf([i \in DOMAIN lines |-> LineNet(lines[i])])

HeaderDiscount(lines, d) ==
  CASE d.type = "pct"    -> Share(NetBefore(lines), d.value)
    [] d.type = "amount" -> Least(d.value, NetBefore(lines))
    [] OTHER             -> 0

SameGroup(k, l) == k.code = l.code /\ k.rate = l.rate /\ k.gl = l.gl

\* The lines of the group that line i begins.
Members(lines, i) == {j \in DOMAIN lines : SameGroup(lines[i], lines[j])}

GroupNet(lines, i) == SumOf([j \in Members(lines, i) |-> LineNet(lines[j])])

\* A group is known by its first line; groups that net to nothing are dropped.
Groups(lines) ==
  {i \in DOMAIN lines : i = Min(Members(lines, i)) /\ GroupNet(lines, i) # 0}

\* g["discountedNet"] of each group.
DiscountedNets(lines, d) ==
  LET alloc == Allocate(HeaderDiscount(lines, d),
                        [i \in Groups(lines) |-> NonNegative(GroupNet(lines, i))])
  IN  [i \in Groups(lines) |-> GroupNet(lines, i) - alloc[i]]

\* g["vat"] of each group.
GroupVats(lines, d) ==
  LET net == DiscountedNets(lines, d)
  IN  [i \in Groups(lines) |-> Share(Abs(net[i]), lines[i].rate)]

\* ln["vatAmount"]: the VAT of its group divided over its lines.
LineVats(lines, d) ==
  LET vat == GroupVats(lines, d)
      share == [i \in Groups(lines) |->
                  Allocate(vat[i], [j \in Members(lines, i) |-> NonNegative(LineNet(lines[j]))])]
  IN  [j \in DOMAIN lines |->
         SumOf([i \in Groups(lines) |-> IF j \in Members(lines, i) THEN share[i][j] ELSE 0])]

Net(lines, d) == SumOf(DiscountedNets(lines, d))

Vat(lines, d) == SumOf(GroupVats(lines, d))

Gross(lines, d) == Net(lines, d) + Vat(lines, d)

\* The per-rate breakdown, of the groups with VAT.
Breakdown(lines, d) ==
  LET vat == GroupVats(lines, d)
      net == DiscountedNets(lines, d)
      taxed == {i \in Groups(lines) : vat[i] # 0}
  IN  [r \in {lines[i].rate : i \in taxed} |->
         [base |-> SumOf([i \in {k \in taxed : lines[k].rate = r} |-> net[i]]),
          vat  |-> SumOf([i \in {k \in taxed : lines[k].rate = r} |-> vat[i]])]]

----------------------------------------------------------------------------------
(* build_invoice_postings.                                                 *)

\* Faulty: a discounted group is booked with its full amount.
UndiscountedLegs(lines, d, sign) ==
  {[account |-> lines[i].gl, group |-> i, code |-> lines[i].code,
    amount |-> sign * GroupNet(lines, i), vat |-> sign * GroupVats(lines, d)[i]] :
     i \in {g \in Groups(lines) : DiscountedNets(lines, d)[g] # 0}}

\* One leg per group that still has a net, with the VAT it reports.
GroupLegs(lines, d, sign) ==
  {[account |-> lines[i].gl, group |-> i, code |-> lines[i].code,
    amount |-> sign * DiscountedNets(lines, d)[i], vat |-> sign * GroupVats(lines, d)[i]] :
     i \in {g \in Groups(lines) : DiscountedNets(lines, d)[g] # 0}}

VatLeg(lines, d, sign) ==
  IF Vat(lines, d) > 0
    THEN {[account |-> "vat", group |-> 0, code |-> "none", amount |-> sign * Vat(lines, d), vat |-> 0]}
    ELSE {}

Sign(credit) == IF credit THEN 1 ELSE -1

DebtorsLeg(lines, d, credit) ==
  [account |-> "debtors", group |-> 0, code |-> "none",
   amount |-> -Sign(credit) * Gross(lines, d), vat |-> 0]

Postings(lines, d, credit) ==
  GroupLegs(lines, d, Sign(credit)) \cup VatLeg(lines, d, Sign(credit)) \cup {DebtorsLeg(lines, d, credit)}

==================================================================================
