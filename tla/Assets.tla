---------------------------------- MODULE Assets ----------------------------------
(***************************************************************************)
(* The fixed asset module (src/assets.rs): schemes, the register, monthly  *)
(* depreciation and disposal.  A run and a disposal read what they need    *)
(* first and write in one transaction later, and so does a pause and a     *)
(* resumption; several processes do so.                                    *)
(*                                                                         *)
(* A month is a number.  A date is two a month: 2m is the first day of     *)
(* month m and 2m + 1 a later one, which is all the module asks of a day.  *)
(* Names, serials and the warnings of `assets add' are left out, and so is *)
(* a reversal by hand of an entry the module booked.                       *)
(***************************************************************************)
EXTENDS Sequences, Sums

CONSTANTS
  Workers,         \* processes that run an assets command
  Scheme(_),       \* depreciation_schemes by name: method, life_months, residual_bp
  SchemeNames,     \* names that occur
  Requests,        \* what assets are added with
  NoOverride,      \* no --residual
  AccountType(_),  \* accounts.type of a code
  Accounts,        \* the chart
  Pausable,        \* bound: assets a person pauses and resumes
  Closable,        \* accounts a person deactivates and reactivates
  Targets,         \* periods a run is asked for
  DisposalDates,
  Proceeds,        \* cents a disposed asset fetches
  MaxAssets,       \* bound
  MaxEntries       \* bound

ASSUME AssetsAssumption ==
  /\ {"bank", "result"} \cup Closable \subseteq Accounts
  /\ Targets \subseteq Nat /\ DisposalDates \subseteq Nat /\ Proceeds \subseteq Nat
  /\ MaxAssets \in Nat
  /\ \A s \in SchemeNames : Scheme(s).life_months \in Int /\ Scheme(s).residual_bp \in Int
  /\ \A q \in Requests :
       /\ q.scheme \in SchemeNames
       /\ {q.purchase, q.start, q.recognition} \subseteq Nat \ {0}
       /\ {q.price, q.recognised} \subseteq Int
       /\ q.residual = NoOverride \/ q.residual \in Int
       /\ {q.asset, q.expense} \subseteq Accounts
       /\ q.cum = "none" \/ q.cum \in Accounts

VARIABLES
  schemes,    \* names in depreciation_schemes
  assets,     \* the register in id order
  runs,       \* asset_depreciation_runs
  entries,    \* the journal; ref is the asset an entry is about
  inactive,   \* accounts with active = 0
  work,       \* what each process is doing
  troubled    \* history: assets two commands worked on at once

vars == <<schemes, assets, runs, entries, inactive, work, troubled>>

Posting == [account : Accounts, amount : Int \ {0}]

Sum(l) == SumOf([k \in DOMAIN l |-> l[k].amount])

Negated(l) == [k \in DOMAIN l |-> [l[k] EXCEPT !.amount = -@]]

INSTANCE Entries WITH
  PostingLists <- Seq(Posting), Total <- Sum, Legs <- Len, Neg <- Negated,
  Sources <- {"assets", "reversal"}, Refs <- Nat, NoRef <- 0

----------------------------------------------------------------------------------
(* What a request comes to. *)

Round(x, y) == (2 * x + y) \div (2 * y)

Month(date) == date \div 2

\* The override, else the scheme's share of the price.
Residual(q) ==
  IF q.residual # NoOverride THEN q.residual ELSE Round(Scheme(q.scheme).residual_bp * q.price, 10000)

\* first_run_period: the month of the later date if that is its first day,
\* else the next.
FirstPeriod(q) == (Max({q.recognition, q.start}) + 1) \div 2

Elapsed(q) == Max({0, Month(q.recognition) - Month(q.start)})

\* What is left to depreciate when the module takes the asset over.
Depreciable(q) == q.price - Residual(q) - q.recognised

MonthsLeft(q) == Max({1, Scheme(q.scheme).life_months - Elapsed(q)})

\* The amount of a month, of what remains and the months it must last.  (An
\* exact half of the declining rate may round either way in binary.)
Monthly(q, remaining, months) ==
  LET linear == Round(remaining, months)
      declining == IF Scheme(q.scheme).method = "degressief" THEN Round(2 * remaining, MonthsLeft(q)) ELSE 0
      amount == Max({linear, declining})
  IN  IF amount = 0 THEN remaining ELSE Min({amount, remaining})

\* Faulty: every month is rounded from the start, the last one included.
RemainsRounded(q) ==
  [k \in 0..MonthsLeft(q) |-> Depreciable(q) - k * Round(Depreciable(q), MonthsLeft(q))]

\* What remains after k months; the last month takes all of it.
Remains(q) ==
  LET remains[k \in 0..MonthsLeft(q)] ==
        IF k = 0 THEN Depreciable(q)
                 ELSE remains[k - 1] - Monthly(q, remains[k - 1], MonthsLeft(q) - k + 1)
  IN  remains

\* schedule_depreciation, up to and including period asOf.
Schedule(q, asOf) ==
  LET remains == Remains(q)
      months == {k \in 1..MonthsLeft(q) : FirstPeriod(q) + k - 1 <= asOf /\ remains[k - 1] > 0}
  IN  {[period |-> FirstPeriod(q) + k - 1, amount |-> remains[k - 1] - remains[k]] : k \in months}

\* Where the depreciation goes: NULL means the asset account itself.
CumAccount(q) == IF q.cum = "none" THEN q.asset ELSE q.cum

----------------------------------------------------------------------------------

AssetIds == DOMAIN assets

Idle == [at |-> "idle", asset |-> 0, plan |-> {}, date |-> 0, postings |-> << >>, proceeds |-> 0]

AssetsOf(job) == ({job.asset} \ {0}) \cup {d.asset : d \in job.plan}

TypeOK ==
  /\ schemes \subseteq SchemeNames
  /\ assets \in Seq([q : Requests, disposed : Nat, disposalEntry : Nat,
                     status : {"active", "paused", "fully_depreciated", "disposed"}])
  /\ \A a \in AssetIds : /\ assets[a].q.scheme \in schemes
                         /\ assets[a].status = "disposed" => assets[a].disposalEntry \in Ids
  /\ \A r \in runs : r.asset \in AssetIds /\ r.amount > 0 /\ r.entry \in Ids
  /\ \A r, s \in runs : r.asset = s.asset /\ r.period = s.period => r = s
  /\ entries \in Seq(EntryRow)
  /\ inactive \subseteq Closable
  /\ \A w \in Workers : work[w].at \in {"idle", "run", "dispose", "pause", "resume"} /\ AssetsOf(work[w]) \subseteq AssetIds
  /\ troubled \subseteq AssetIds

Init ==
  /\ schemes = {} /\ assets = << >> /\ runs = {} /\ entries = << >> /\ inactive = {}
  /\ work = [w \in Workers |-> Idle]
  /\ troubled = {}

At(w, where) == work[w].at = where

Start(w, job) ==
  /\ At(w, "idle")
  /\ work' = [work EXCEPT ![w] = job]
  /\ troubled' = troubled \cup (AssetsOf(job) \cap UNION {AssetsOf(work[v]) : v \in Workers})

Finish(w) == work' = [work EXCEPT ![w] = Idle] /\ UNCHANGED troubled

Booked(a) == {r \in runs : r.asset = a}

Amounts(S) == SumOf([r \in S |-> r.amount])

\* Faulty: the month itself is left out.
DepBeforePeriod(a, period) == Amounts({r \in Booked(a) : r.period < period})

\* module_dep_to_period.
DepToPeriod(a, period) == Amounts({r \in Booked(a) : r.period <= period})

\* create_entry refuses an inactive account.
AllActive(l) == \A k \in DOMAIN l : l[k].account \notin inactive

\* An entry created and posted.
Entry(l, a) == [state |-> "posted", postings |-> l, source |-> "assets", ref |-> a, reversedFrom |-> 0]

----------------------------------------------------------------------------------
(* Schemes and assets. *)

CreateScheme(s) ==
  /\ s \notin schemes
  /\ Scheme(s).life_months \in 1..600 /\ Scheme(s).residual_bp \in 0..10000
  /\ schemes' = schemes \cup {s}
  /\ UNCHANGED <<assets, runs, entries, inactive, work, troubled>>

\* An existing scheme, a new one from inline parameters, or the default one.
SchemeResolves(q) ==
  \/ q.by = "id" /\ q.scheme \in schemes
  \/ q.by = "inline" /\ q.scheme \notin schemes
  \/ q.by = "default"

\* The checks of create_asset.
Admissible(q) ==
  /\ q.start >= q.purchase /\ q.recognition >= q.purchase
  /\ q.price > 0 /\ q.recognised >= 0
  /\ Residual(q) \in 0..(q.price - 1)
  /\ AccountType(q.asset) = "asset" /\ AccountType(q.expense) = "expense"
  /\ AccountType(CumAccount(q)) = "asset"
  /\ Depreciable(q) >= 0

\* fully_depreciated at recognition: no life left, or nothing to depreciate.
InitialStatus(q) ==
  IF Scheme(q.scheme).life_months <= Elapsed(q) \/ Depreciable(q) = 0 THEN "fully_depreciated" ELSE "active"

AddAsset(q) ==
  /\ Len(assets) < MaxAssets
  /\ SchemeResolves(q) /\ Admissible(q)
  /\ schemes' = schemes \cup {q.scheme}
  /\ assets' = Append(assets, [q |-> q, disposed |-> 0, disposalEntry |-> 0, status |-> InitialStatus(q)])
  /\ UNCHANGED <<runs, entries, inactive, work, troubled>>

\* The scheme is committed first: a refused asset, or a death, leaves it.
RefuseAsset(q) ==
  /\ SchemeResolves(q)
  /\ schemes' = schemes \cup {q.scheme}
  /\ UNCHANGED <<assets, runs, entries, inactive, work, troubled>>

\* pause_asset and resume_asset look at the status first ...
ReadStatus(w, a, from, command) ==
  /\ assets[a].status = from
  /\ Start(w, [Idle EXCEPT !.at = command, !.asset = a])
  /\ UNCHANGED <<schemes, assets, runs, entries, inactive>>

PauseAsset(w, a) == ReadStatus(w, a, "active", "pause")

ResumeAsset(w, a) == ReadStatus(w, a, "paused", "resume")

\* ... and write over whatever it has become: UPDATE ... WHERE id = ?1.
WriteStatus(w) ==
  /\ At(w, "pause") \/ At(w, "resume")
  /\ assets' = [assets EXCEPT ![work[w].asset].status = IF At(w, "pause") THEN "paused" ELSE "active"]
  /\ Finish(w)
  /\ UNCHANGED <<schemes, runs, entries, inactive>>

----------------------------------------------------------------------------------
(* run_due. *)

\* The months of the schedules up to the target that have no run yet.
Plan(target) ==
  UNION {{[asset |-> a, period |-> m.period, amount |-> m.amount] :
            m \in {n \in Schedule(assets[a].q, target) : \A r \in Booked(a) : r.period # n.period}} :
         a \in {b \in AssetIds : assets[b].status = "active" /\ Depreciable(assets[b].q) > 0}}

Before(d, e) == d.asset < e.asset \/ (d.asset = e.asset /\ d.period < e.period)

Position(d, plan) == Cardinality({e \in plan : Before(e, d)}) + 1

Nth(k, plan) == CHOOSE d \in plan : Position(d, plan) = k

DepreciationPostings(d) ==
  << [account |-> assets[d.asset].q.expense, amount |-> d.amount],
     [account |-> CumAccount(assets[d.asset].q), amount |-> -d.amount] >>

RunDue(w, target) ==
  /\ Plan(target) # {}
  /\ Start(w, [Idle EXCEPT !.at = "run", !.plan = Plan(target)])
  /\ UNCHANGED <<schemes, assets, runs, entries, inactive>>

\* UNIQUE (asset_id, period).
NoneBooked(plan) == \A d \in plan : \A r \in Booked(d.asset) : r.period # d.period

\* Whether the runs up to the last one planned reach the residual.
Complete(a, plan) ==
  LET last == Max({d.period : d \in {e \in plan : e.asset = a}})
      total == assets[a].q.recognised + DepToPeriod(a, last) + Amounts({d \in plan : d.asset = a})
  IN  total >= assets[a].q.price - Residual(assets[a].q)

\* UPDATE assets SET status = 'fully_depreciated' ... AND status = 'active'.
Completes(row, a, plan) ==
  IF row.status = "active" /\ a \in {d.asset : d \in plan} /\ Complete(a, plan)
    THEN [row EXCEPT !.status = "fully_depreciated"] ELSE row

BookRuns(w) ==
  LET plan == work[w].plan
  IN  /\ At(w, "run")
      /\ LastId + Cardinality(plan) <= MaxEntries
      /\ NoneBooked(plan)
      /\ \A d \in plan : AllActive(DepreciationPostings(d))
      /\ entries' = entries \o [k \in 1..Cardinality(plan) |-> Entry(DepreciationPostings(Nth(k, plan)), Nth(k, plan).asset)]
      /\ runs' = runs \cup {[asset |-> d.asset, period |-> d.period, amount |-> d.amount,
                             entry |-> LastId + Position(d, plan)] : d \in plan}
      /\ assets' = [a \in AssetIds |-> Completes(assets[a], a, plan)]
      /\ Finish(w)
      /\ UNCHANGED <<schemes, inactive>>

----------------------------------------------------------------------------------
(* dispose_asset. *)

\* Faulty: the run of the month of disposal counts as well.
TakenOffLate(a, date) == assets[a].q.recognised + DepToPeriod(a, Month(date))

\* Depreciation up to the month before.
TakenOff(a, date) == assets[a].q.recognised + DepToPeriod(a, Month(date) - 1)

\* Proceeds, accumulated depreciation, cost and the result that is left.
DisposalPostings(a, date, proceeds) ==
  LET q == assets[a].q
      result == proceeds - (q.price - TakenOff(a, date))
      Leg(account, amount) == IF amount = 0 THEN << >> ELSE << [account |-> account, amount |-> amount] >>
  IN  Leg("bank", proceeds) \o Leg(CumAccount(q), TakenOff(a, date))
        \o Leg(q.asset, -q.price) \o Leg("result", -result)

\* ALREADY_DISPOSED.
MayDispose(a) == assets[a].status # "disposed"

DisposeAsset(w, a, date, proceeds) ==
  /\ MayDispose(a)
  /\ date >= assets[a].q.recognition
  /\ Start(w, [Idle EXCEPT !.at = "dispose", !.asset = a, !.date = date, !.proceeds = proceeds,
                           !.postings = DisposalPostings(a, date, proceeds)])
  /\ UNCHANGED <<schemes, assets, runs, entries, inactive>>

\* The entry and the status in one transaction.
BookDisposal(w) ==
  LET job == work[w]
  IN  /\ At(w, "dispose")
      /\ LastId < MaxEntries
      /\ AllActive(job.postings)
      /\ entries' = Append(entries, Entry(job.postings, job.asset))
      /\ assets' = [assets EXCEPT ![job.asset].status = "disposed", ![job.asset].disposed = job.date,
                                  ![job.asset].disposalEntry = LastId + 1]
      /\ Finish(w)
      /\ UNCHANGED <<schemes, runs, inactive>>

\* A refused statement (UNIQUE, an inactive account, a busy database) rolls
\* the transaction back; so does a death.
Abandon(w) ==
  /\ ~At(w, "idle")
  /\ Finish(w)
  /\ UNCHANGED <<schemes, assets, runs, entries, inactive>>

\* account deactivate and activate.
DeactivateAccount(code) ==
  /\ inactive' = inactive \cup {code}
  /\ UNCHANGED <<schemes, assets, runs, entries, work, troubled>>

ReactivateAccount(code) ==
  /\ inactive' = inactive \ {code}
  /\ UNCHANGED <<schemes, assets, runs, entries, work, troubled>>

Step(w) ==
  \/ \E target \in Targets : RunDue(w, target)
  \/ \E a \in AssetIds : \E date \in DisposalDates : \E proceeds \in Proceeds : DisposeAsset(w, a, date, proceeds)
  \/ \E a \in AssetIds \cap Pausable : PauseAsset(w, a) \/ ResumeAsset(w, a)
  \/ BookRuns(w) \/ BookDisposal(w) \/ WriteStatus(w) \/ Abandon(w)

Next ==
  \/ \E w \in Workers : Step(w)
  \/ \E s \in SchemeNames : CreateScheme(s)
  \/ \E q \in Requests : AddAsset(q) \/ RefuseAsset(q)
  \/ \E code \in Closable : DeactivateAccount(code) \/ ReactivateAccount(code)

Spec == Init /\ [][Next]_vars

----------------------------------------------------------------------------------
(* register: what the activastaat says of an asset as of a month. *)

TotalDep(a, asOf) == assets[a].q.recognised + DepToPeriod(a, asOf)

BookValue(a, asOf) == Max({0, assets[a].q.price - TotalDep(a, asOf)})

Remaining(a, asOf) == Max({0, assets[a].q.price - Residual(assets[a].q) - TotalDep(a, asOf)})

\* The periods without a run up to the next month; the earliest is next_run_period.
NextRun(a, asOf) ==
  LET unbooked == {m.period : m \in Schedule(assets[a].q, asOf + 1)} \ {r.period : r \in Booked(a)}
  IN  {p \in unbooked : \A o \in unbooked : p <= o}

Register(asOf) ==
  {[asset |-> a, status |-> assets[a].status, book |-> BookValue(a, asOf),
    remaining |-> Remaining(a, asOf), next |-> NextRun(a, asOf)] : a \in AssetIds}

----------------------------------------------------------------------------------
(* Properties. *)

LastPeriod(a) == Max({0} \cup {r.period : r \in Booked(a)})

EntriesOf(a) == {e \in Ids : entries[e].ref = a}

\* What the entries in S put on the accounts in A.
OnAccounts(S, A) ==
  LET on(p) == IF p.account \in A THEN p.amount ELSE 0
  IN  SumOf([e \in S |-> SumOf([k \in DOMAIN entries[e].postings |-> on(entries[e].postings[k])])])

(***************************************************************************)
(* Whatever is paused, resumed, deactivated, run late, twice or by two     *)
(* processes at once, the runs of an asset are an unbroken beginning of    *)
(* its schedule, and an asset is complete when the last cent above the     *)
(* residual is depreciated and not before (the test                        *)
(* schedule_linear_60m_is_cents_exact_and_remainder_adjusted, for the      *)
(* register instead of the function).                                      *)
(***************************************************************************)
RunsFollowSchedule ==
  \A a \in AssetIds :
    LET q == assets[a].q
        last == LastPeriod(a)
    IN  /\ {[period |-> r.period, amount |-> r.amount] : r \in Booked(a)} = Schedule(q, last)
        /\ Booked(a) # {} /\ assets[a].status = "fully_depreciated" => BookValue(a, last) = Residual(q)
        /\ NextRun(a, FirstPeriod(q) + MonthsLeft(q)) = {} /\ Booked(a) # {}
             => Amounts(Booked(a)) = Depreciable(q)

(***************************************************************************)
(* As of every month, the register shows of an asset that is not disposed  *)
(* of the cost less what the ledger holds against it, and the month it     *)
(* names next is one that a run up to then books.                          *)
(***************************************************************************)
RegisterMatchesLedger ==
  \A asOf \in Targets : \A row \in Register(asOf) :
    LET q == assets[row.asset].q
        booked == {r.entry : r \in {s \in Booked(row.asset) : s.period <= asOf}}
    IN  /\ row.status # "disposed"
             => row.book = q.price - q.recognised + OnAccounts(booked, {q.asset, CumAccount(q)})
        /\ row.status = "active" => \A p \in row.next : \E d \in Plan(asOf + 1) : d.asset = row.asset /\ d.period = p
        /\ row.remaining = 0 => row.next = {}

(***************************************************************************)
(* Disposal takes the asset off the books: when no other command worked on *)
(* it meanwhile, its cost is gone and of its depreciation only the runs of *)
(* the month of disposal and later are left, no run is booked after it,    *)
(* and it stays disposed.  (Of an asset kept on the account that takes the *)
(* proceeds or the result nothing of the cost could be said.)  Excepted is *)
(* an asset two commands worked on at once: a second run, a second         *)
(* disposal, or a pause or resumption that writes its status over the      *)
(* disposal, after which the asset depreciates on.                         *)
(***************************************************************************)
DisposalClears ==
  \A a \in AssetIds \ troubled :
    LET q == assets[a].q
        late == {r \in Booked(a) : r.period >= Month(assets[a].disposed)}
    IN  /\ assets[a].disposalEntry \in Ids => assets[a].status = "disposed"
        /\ assets[a].status = "disposed" =>
             /\ {q.asset, CumAccount(q)} \cap {"bank", "result"} = {} =>
                  OnAccounts(EntriesOf(a), {q.asset, CumAccount(q)}) = -(q.price - q.recognised) - Amounts(late)
             /\ \A r \in Booked(a) : r.entry < assets[a].disposalEntry

==================================================================================
