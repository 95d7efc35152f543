-------------------------------- MODULE Statements --------------------------------
(***************************************************************************)
(* The reports on the journal (src/reports.rs: trial balance, balance       *)
(* sheet, P&L, cost centers, annual accounts; src/month_end.rs) while a     *)
(* year is booked, closed and reopened (YearEnd.tla).  Every report is one  *)
(* SELECT, except the balance sheet, which is two: a reader takes its rows  *)
(* and then its result, and other commands commit in between.               *)
(*                                                                         *)
(* An entry of YearEnd has a date and a cost center besides; its postings   *)
(* to income and expense accounts carry the center.                         *)
(***************************************************************************)
EXTENDS YearEnd, Calendar

CONSTANTS
  Income,          \* the income accounts, the rest of Flow are expenses
  Taxonomy(_),     \* accounts.taxonomy_code, "none" for NULL
  LscPnl,          \* the lines of the lu-lsc P&L, [accounts, sign]
  LscActiva, LscPassiva,   \* and of its balance sheet
  Year, Fye,       \* the fiscal year and company.fiscal_year_end
  NoCenter,
  Scenarios        \* bounds: [days, centers, bookings, entries, reading]

ASSUME StatementsAssumption ==
  /\ Income \subseteq Flow
  /\ \A l \in LscPnl : l.accounts \subseteq Flow /\ l.sign \in {1, -1}
  /\ \A lines \in {LscPnl, LscActiva, LscPassiva} :
       /\ IsFiniteSet(lines)
       /\ \A l, m \in lines : l # m => l.accounts \cap m.accounts = {}

VARIABLES
  facts,    \* [date, center] of each entry
  sheet,    \* the balance sheet being made
  bounds    \* the scenario this behaviour is in

Seqs == INSTANCE SequencesExt

allVars == <<closeVars, facts, sheet, bounds>>

Window == FiscalYearWindow(Fye, Year)

\* Entries are booked, and closed, within the year, and on days there are.
ASSUME DaysAssumption ==
  /\ Year \in Nat \ {0} /\ Fye \in 101 .. 1231
  /\ Window \in Int \X Int /\ Window[1] <= Window[2] /\ IsDate(Window[2])
  /\ \A s \in Scenarios : \A d \in s.days : d \in Int /\ IsDate(d) /\ Within(d, Window)

NoSheet == [step |-> "none", asOf |-> 0, rows |-> [a \in Accounts |-> 0], result |-> 0, moved |-> FALSE]

----------------------------------------------------------------------------------
(* The rows a report sums over.                                            *)

PostedIn(window) == {i \in Ids : IsPosted(i) /\ Within(facts[i].date, window)}

UpTo(date) == <<0, date>>

PostedUpTo(date) == PostedIn(UpTo(date))

\* net_per_account, closing entries included.
NetPerAccount(asOf) == [a \in Accounts |-> AmountOn(a, PostedUpTo(asOf))]

\* The rows of pnl, closing entries left out.
FlowOf(S) == [a \in Flow |-> AmountOn(a, {i \in S : ~IsClosing(i)})]

Positive(x) == IF x > 0 THEN x ELSE 0

\* trial_balance: <<total debit, total credit>>.
TrialBalance(window) ==
  LET side(s) == SumOf([i \in PostedIn(window) |-> SumOf([a \in Accounts |-> Positive(s * entries[i].postings[a])])])
  IN  <<side(1), side(-1)>>

----------------------------------------------------------------------------------
(* Sections and lines.                                                     *)

AssetGroups == {"BMVA.02", "BFVA.03", "BVRD.30", "BVOR.11", "BLIM.10"}

PassivaGroups == {"BEIV.05", "BVRZ.07", "BLAS.08", "BSCH.12"}

PnlGroups == {"WOMZ.80", "WOVB.82", "WKPR.70", "WPER.40", "WAFS.41", "WBED.42", "WFBE.84"}

\* sectionize and sectionize_pnl: a total per known taxonomy code, and one for
\* all others.  The amounts are signed by the kind of account.
Sectionize(groups, accounts, amounts) ==
  [g \in groups \cup {"Overig"} |->
     SumOf([a \in {a \in accounts : IF g = "Overig" THEN Taxonomy(a) \notin groups ELSE Taxonomy(a) = g} |-> amounts[a]])]

TotalOf(sections) == SumOf(sections)

ActivaSections(rows) == Sectionize(AssetGroups, Assets, rows)

Opposite(rows) == [a \in DOMAIN rows |-> -rows[a]]

PassivaSections(rows) == Sectionize(PassivaGroups, Passiva, Opposite(rows))

\* Amounts as a P&L shows them: what an income account earned, an expense account cost.
Shown(rows) == [a \in Flow |-> IF a \in Income THEN -rows[a] ELSE rows[a]]

PnlSections(rows) == Sectionize(PnlGroups, Flow, Shown(rows))

\* revenue - costs.
ResultOf(rows) ==
  SumOf([a \in Income |-> Shown(rows)[a]]) - SumOf([a \in Flow \ Income |-> Shown(rows)[a]])

Pnl(window) == ResultOf(FlowOf(PostedIn(window)))

----------------------------------------------------------------------------------
(* The annual accounts.                                                    *)

ActivaLines == {"BMVA.02", "BIVA.04", "BFVA.03", "BVRD.30", "BVOR.11", "BLIM.10"}

PnlLines == {"WOMZ.80", "WOVB.82", "WKPR.70", "WBED.42", "WAFS.41", "WFBE.84", "WBEL.60"}

\* group_by_statutory_lines: sections without a line of their own go to "Overig".
ByLines(sections, lines) ==
  [l \in lines \cup {"Overig"} |->
     SumOf([g \in {g \in DOMAIN sections : IF l = "Overig" THEN g \notin lines ELSE g = l} |-> sections[g]])]

\* Faulty: the result is not folded in.
PassivaUnfolded(sections, result) == ByLines(sections, PassivaGroups)

\* The undistributed result is folded into the equity line.
StatutoryPassiva(sections, result) ==
  [ByLines(sections, PassivaGroups) EXCEPT !["BEIV.05"] = @ + result]

StatutoryActiva(sections) == ByLines(sections, ActivaLines)

RevenueLines == {"WOMZ.80", "WOVB.82"}

\* The klein P&L: every line that is not revenue is a cost.
StatutoryResult(rows) ==
  LET lines == ByLines(PnlSections(rows), PnlLines)
  IN  SumOf([l \in DOMAIN lines |-> IF l \in RevenueLines THEN lines[l] ELSE -lines[l]])

\* Its aggregates; purchases are not counted again among the costs.
Klein(rows) ==
  LET lines == ByLines(PnlSections(rows), PnlLines)
  IN  [omzet   |-> lines["WOMZ.80"],
       overige |-> lines["WOVB.82"],
       inkoop  |-> lines["WKPR.70"],
       kosten  |-> SumOf([l \in DOMAIN lines \ {"WOMZ.80", "WOVB.82", "WKPR.70"} |-> lines[l]])]

\* group_by_prefix_lines: a line sums the accounts with one of its prefixes, and
\* "Autres" those with no known prefix.
Autres == [accounts |-> {}, sign |-> 0]

ByPrefixes(lines, accounts, amounts) ==
  LET known == UNION {l.accounts : l \in lines}
  IN  [l \in lines \cup {Autres} |->
         SumOf([a \in IF l = Autres THEN accounts \ known ELSE l.accounts \cap accounts |-> amounts[a]])]

LscActivaLines(rows) == ByPrefixes(LscActiva, Assets, rows)

LscPassivaLines(rows) == ByPrefixes(LscPassiva, Passiva, Opposite(rows))

\* The lu-lsc P&L: a line counts by its sign, "Autres" is netted by the kind of
\* each of its accounts.
LscResult(rows) ==
  LET lines == ByPrefixes(LscPnl, Flow, Shown(rows))
      net == ByPrefixes(LscPnl, Flow, Opposite(rows))[Autres]
  IN  SumOf([l \in LscPnl |-> l.sign * lines[l]]) + net

----------------------------------------------------------------------------------
(* Cost centers and months.                                                *)

\* Faulty: postings without a center are left out.
CentersNamed(S) == {facts[i].center : i \in S} \ {NoCenter}

\* The centers postings were made on, NoCenter ("Unassigned") among them.
CentersIn(S) == {facts[i].center : i \in S}

\* cost_center_report: revenue - costs per center.
CostCenters(window) ==
  LET S == PostedIn(window)
  IN  [c \in CentersIn(S) |-> ResultOf(FlowOf({i \in S : facts[i].center = c}))]

\* month_end: the drafts of the month, and its debit, credit and profit over all
\* accounts, closing entries left out.
MonthClose(y, m) ==
  LET month == MonthBounds(y, m)
      net == [a \in Accounts |-> AmountOn(a, {i \in PostedIn(month) : ~IsClosing(i)})]
  IN  [month  |-> month,
       drafts |-> {i \in Ids : IsDraft(i) /\ Within(facts[i].date, month)},
       debit  |-> SumOf([a \in Accounts |-> Positive(net[a])]),
       credit |-> SumOf([a \in Accounts |-> Positive(-net[a])]),
       profit |-> SumOf([a \in Flow |-> -net[a]])]

\* The months the fiscal year lies in.
FiscalMonths == {ym \in (Year - 1 .. Year) \X (1 .. 12) :
                   MonthEnd(ym[1], ym[2]) >= Window[1] /\ YMD(ym[1], ym[2], 1) <= Window[2]}

----------------------------------------------------------------------------------
(* Audit files and the year's status (src/export.rs, src/year_end.rs).      *)

\* to_boekingen: the debit legs and the credit legs of an entry are laid beside
\* one another and cut where one of them ends; a piece is a debit of one account
\* against a credit of another.
Boekingen(l) ==
  LET legs(s) == Seqs!SetToSeq({a \in Accounts : s * l[a] > 0})
      debits == legs(1)
      credits == legs(-1)
      end(side, k) == SumOf([j \in 1 .. k |-> IF l[side[j]] > 0 THEN l[side[j]] ELSE -l[side[j]]])
      piece(j, k) == Min({end(debits, j), end(credits, k)}) - Max({end(debits, j - 1), end(credits, k - 1)})
  IN  {[rekening |-> debits[jk[1]], tegenrekening |-> credits[jk[2]], bedrag |-> piece(jk[1], jk[2])] :
         jk \in {x \in (DOMAIN debits) \X (DOMAIN credits) : piece(x[1], x[2]) > 0}}

\* build_xaf_40: the posted entries of the fiscal year, closing entries included.
XafFile(window) == [i \in {j \in PostedIn(window) : LegsOf(entries[j].postings) > 0} |-> Boekingen(entries[i].postings)]

\* What an importer of that entry books.
Rebooked(boekingen, a) ==
  SumOf([b \in {b \in boekingen : b.rekening = a} |-> b.bedrag])
    - SumOf([b \in {b \in boekingen : b.tegenrekening = a} |-> b.bedrag])

CalendarYear(y) == <<YMD(y, 1, 1), YMD(y, 12, 31)>>

\* build_faia_b: the balances of an account at both ends of the calendar year.
FaiaAccount(a, y) ==
  [opening |-> AmountOn(a, PostedUpTo(CalendarYear(y)[1] - 1)),
   closing |-> AmountOn(a, PostedUpTo(CalendarYear(y)[2]))]

\* Its transactions, one line per posting, with their totals.
FaiaEntries(y) ==
  LET S == PostedIn(CalendarYear(y))
      total(s) == SumOf([i \in S |-> SumOf([a \in Accounts |-> Positive(s * entries[i].postings[a])])])
  IN  [lines |-> S, debit |-> total(1), credit |-> total(-1)]

\* year_end_status: a closing entry makes the year closed, reversed or not.
YearEndStatus ==
  [closed |-> \E i \in Ids : IsClosing(i),
   result |-> -SumOf([a \in Flow |-> Net(a)])]

----------------------------------------------------------------------------------

AllInit ==
  /\ CloseInit
  /\ facts = << >>
  /\ sheet = NoSheet
  /\ bounds \in Scenarios

StatementsTypeOK ==
  /\ CloseTypeOK
  /\ Len(facts) = Len(entries)
  /\ \A i \in Ids : facts[i].center \in bounds.centers \cup {NoCenter} /\ Within(facts[i].date, Window)
  /\ sheet.step \in {"none", "rows", "done"}

\* The date and center of the entry a step inserts: a close is dated on the last
\* day of the year, a reversal copies its original.
FactOf(e) ==
  CASE e.source = "closing"  -> {[date |-> Window[2], center |-> NoCenter]}
    [] e.source = "reversal" -> {facts[e.reversedFrom]}
    [] OTHER                 -> [date : bounds.days, center : bounds.centers]

\* A command changes what a sheet half read would have shown.
Moves(asOf) == \E i \in DOMAIN entries' : /\ entries'[i].state = "posted"
                                          /\ facts'[i].date <= asOf
                                          /\ i \notin Ids \/ IsDraft(i)

Command ==
  /\ CloseNext
  /\ Len(entries') <= bounds.entries
  /\ \A i \in DOMAIN entries' : entries'[i].source = "manual" => entries'[i].postings \in bounds.bookings
  /\ IF Len(entries') = Len(entries) THEN facts' = facts
     ELSE \E f \in FactOf(entries'[Len(entries')]) : facts' = Append(facts, f)
  /\ sheet' = [sheet EXCEPT !.moved = @ \/ (sheet.step = "rows" /\ Moves(sheet.asOf))]
  /\ UNCHANGED bounds

Reads(s) == sheet' = s /\ UNCHANGED <<closeVars, facts, bounds>>

\* balans: the rows of the accounts.
ReadRows(asOf) ==
  /\ bounds.reading
  /\ sheet.step = "none"
  /\ Reads([step |-> "rows", asOf |-> asOf, rows |-> NetPerAccount(asOf), result |-> 0, moved |-> FALSE])

\* balans: the result, closing entries included.
ReadResult ==
  /\ sheet.step = "rows"
  /\ Reads([sheet EXCEPT !.step = "done", !.result = -SumOf([a \in Flow |-> NetPerAccount(sheet.asOf)[a]])])

EndReport ==
  /\ sheet.step = "done"
  /\ Reads(NoSheet)

AllNext ==
  \/ Command
  \/ \E d \in bounds.days : ReadRows(d)
  \/ ReadResult
  \/ EndReport

AllSpec == AllInit /\ [][AllNext]_allVars

----------------------------------------------------------------------------------
(* Properties.                                                             *)

(***************************************************************************)
(* A balance sheet balances on any day, before, during and after a close,   *)
(* and so do the annual accounts made of it: README, "assets = liabilities  *)
(* + equity + result".  A sheet whose two reads a command came between has  *)
(* no such promise.                                                         *)
(***************************************************************************)
SheetBalances ==
  sheet.step = "done" /\ ~sheet.moved =>
    LET activa == ActivaSections(sheet.rows)
        passiva == PassivaSections(sheet.rows)
    IN  /\ TotalOf(activa) = TotalOf(passiva) + sheet.result
        /\ TotalOf(StatutoryActiva(activa)) = TotalOf(StatutoryPassiva(passiva, sheet.result))
        /\ TotalOf(LscActivaLines(sheet.rows)) = TotalOf(LscPassivaLines(sheet.rows)) + sheet.result

\* An income account without a known taxonomy code ends in "Overig", which the
\* Dutch form counts as costs: of books with turnover on one there is no promise.
StatutoryAgrees ==
  LET rows == FlowOf(PostedIn(Window))
      klein == Klein(rows)
  IN  /\ LscResult(rows) = Pnl(Window)
      /\ YearEndStatus.result = Pnl(Window)
      /\ klein.omzet + klein.overige - klein.inkoop - klein.kosten = StatutoryResult(rows)
      /\ (\A a \in Income : Taxonomy(a) \in PnlLines \/ rows[a] = 0) => StatutoryResult(rows) = Pnl(Window)
      /\ TrialBalance(Window)[1] = TrialBalance(Window)[2]

\* Re-importing the Dutch file moves every account by what the year moved it; the
\* Luxembourg file leads from its opening to its closing balances, and one year
\* opens where the year before closed.
AuditFilesAgree ==
  LET xaf == XafFile(Window)
  IN  /\ \A a \in Accounts :
           /\ SumOf([i \in DOMAIN xaf |-> Rebooked(xaf[i], a)]) = AmountOn(a, PostedIn(Window))
           /\ \A y \in {Year - 1, Year} :
                FaiaAccount(a, y).opening + AmountOn(a, FaiaEntries(y).lines) = FaiaAccount(a, y).closing
           /\ FaiaAccount(a, Year).opening = FaiaAccount(a, Year - 1).closing
      /\ \A y \in {Year - 1, Year} : FaiaEntries(y).debit = FaiaEntries(y).credit

\* The account a statutory line sums is of the line's kind.
KindsAgree ==
  /\ \A a \in Flow : Taxonomy(a) \in PnlLines => (a \in Income <=> Taxonomy(a) \in RevenueLines)
  /\ \A l \in LscPnl : \A a \in l.accounts : l.sign = IF a \in Income THEN 1 ELSE -1

(***************************************************************************)
(* One result everywhere.  The annual accounts report what the P&L         *)
(* reports, in the Dutch and the Luxembourg form; the profits of the       *)
(* months and the results of the cost centers both add up to it, closing   *)
(* the year does not change it (README, "the year's flow stays visible     *)
(* after closing"), every draft of the year is in the list of one month,   *)
(* and the audit files hold the year's bookings whole.  It is stated of     *)
(* the moments nobody closes: a close that dies leaves every journal a      *)
(* close passes through.                                                   *)
(***************************************************************************)
PartsAddUp ==
  (\A p \in Closers : pc[p] = "idle") =>
  LET closes == {MonthClose(ym[1], ym[2]) : ym \in FiscalMonths}
      results == {<<c, CostCenters(Window)[c]>> : c \in DOMAIN CostCenters(Window)}
  IN  /\ StatutoryAgrees
      /\ AuditFilesAgree
      /\ SumOf([c \in closes |-> c.profit]) = Pnl(Window)
      /\ SumOf([r \in results |-> r[2]]) = Pnl(Window)
      /\ UNION {c.drafts : c \in closes} = {i \in Ids : IsDraft(i)}
      /\ \A c \in closes : c.debit = c.credit

==================================================================================
