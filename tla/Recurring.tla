--------------------------------- MODULE Recurring ---------------------------------
(***************************************************************************)
(* Recurring templates (src/recurring.rs): a run books every period that   *)
(* is due, template after template, with no transaction around a period.   *)
(* One process runs what is due, another adds, pauses and resumes          *)
(* templates, accounts are switched off and on, and either process may     *)
(* die between two statements.  Nothing keeps a second run away: two runs  *)
(* at once are those of Overlap.tla, and what is said here of one run      *)
(* holds while no two overlap, unless the comment says otherwise.          *)
(*                                                                         *)
(* Dates are those of Calendar.tla.  A run is dated with the day on which  *)
(* it starts and ends before the next of the days runs are started on.     *)
(***************************************************************************)
EXTENDS Entries, Calendar, SequencesExt

CONSTANTS
  Templates,      \* 1..n, the ids
  Start(_), End(_),  \* start_date and end_date, 0 for NULL
  Months(_), Day(_), \* the frequency in months, and day_of_period
  Runs(_),        \* recurring_templates.runs, 0 for NULL
  Reversing(_),   \* reverse_previous
  Invoicing(_),   \* kind = 'invoice'
  Splits(_),      \* built by depreciation add: has a final posting set
  Normal(_), Final(_),  \* the posting lists of a template
  Closable,       \* bound: templates whose accounts are switched off and on
  LoopCap,        \* 120: periods one run books of one template
  Days,           \* bound: the days runs are started on, in order
  MaxCrashes,     \* bound: crashes of the runner
  MaxChanges      \* bound: accounts deactivated and statuses changed

ASSUME RecurringAssumption ==
  /\ IsFiniteSet(Templates) /\ Templates = 1 .. Cardinality(Templates)
  /\ \A t \in Templates : Months(t) \in {1, 3, 12} /\ {Start(t), End(t), Day(t)} \subseteq Nat
  /\ Closable \subseteq Templates /\ "recurring" \in Sources
  /\ LoopCap \in Nat \ {0} /\ MaxCrashes \in Nat /\ MaxChanges \in Nat
  /\ Days \in Seq(Nat) /\ Days # << >>
  /\ \A j, k \in DOMAIN Days : j < k => Days[j] < Days[k]
  /\ \A t \in Templates : /\ {Normal(t), Final(t)} \subseteq PostingLists
                          /\ Runs(t) \in Nat
                          /\ t \in Refs
                          /\ Splits(t) => Runs(t) > 1 /\ ~Reversing(t) /\ ~Invoicing(t)

VARIABLES
  periods,     \* the date of an entry
  drafts,      \* draft invoices generated: <<template, date>>
  templates,
  usable,      \* templates whose accounts, or catalogue items, are all active
  day,         \* the place of today in Days
  runner,      \* the process in run_due
  clerk,       \* the process in create_template or set_template_status
  crashes, changes,
  plan,        \* history: what a preview showed when the run began, and the
               \* templates whose status was written since
  revived      \* history: completed templates a status was written over

books == <<entries, periods, drafts>>
history == <<plan, revived>>

vars == <<books, templates, usable, day, runner, clerk, crashes, changes, history>>

today == Days[day]

Template == [status : {"none", "active", "paused", "completed"}, next : Nat, last : Nat,
             done : Nat, final : BOOLEAN]

\* A template as the runner read it: `stored' is the column of the final posting
\* set, `final' whether the row handed on has it.
Row == [id : Templates, status : {"active", "paused", "completed"}, next : Nat, last : Nat,
        done : Nat, stored : BOOLEAN, final : BOOLEAN]

Resting == [at |-> "idle", rows |-> << >>, turns |-> 0, entry |-> 0]

Away == [op |-> "none", id |-> 0]

NoPlan == [runs |-> {}, changed |-> {}]

TypeOK ==
  /\ entries \in Seq(EntryRow)
  /\ periods \in Seq(Nat) /\ Len(periods) = Len(entries)
  /\ drafts \in Seq(Templates \X Nat)
  /\ templates \in [Templates -> Template]
  /\ usable \subseteq Templates
  /\ day \in DOMAIN Days
  /\ runner.at \in {"idle", "reverse", "create", "post", "advance", "reread"}
  /\ runner.rows \in Seq(Row)
  /\ runner.at = "idle" <=> runner = Resting
  /\ runner.at = "post" => IsDraft(runner.entry)
  /\ clerk.op \in {"none", "final", "active", "paused"}
  /\ clerk.op # "none" => templates[clerk.id].status # "none"
  /\ crashes \in 0 .. MaxCrashes /\ changes \in 0 .. MaxChanges
  /\ plan.runs \subseteq Templates \X Nat
  /\ plan.changed \cup revived \subseteq Templates

Init ==
  /\ entries = << >> /\ periods = << >> /\ drafts = << >>
  /\ templates = [t \in Templates |-> [status |-> "none", next |-> 0, last |-> 0,
                                       done |-> 0, final |-> FALSE]]
  /\ usable = Templates
  /\ day = 1
  /\ runner = Resting
  /\ clerk = Away
  /\ crashes = 0 /\ changes = 0
  /\ plan = NoPlan /\ revived = {}

----------------------------------------------------------------------------------
(* The schedule of a template. *)

AddPeriod(date, months, dayOfPeriod) ==
  LET i == MonthIndex(YearOf(date), MonthOf(date), months)
  IN  YMD(i \div 12, (i % 12) + 1, dayOfPeriod)

\* next_run_date at first: the day of the period in the start's month, or one
\* period later.
FirstRun(t) ==
  LET first == YMD(YearOf(Start(t)), MonthOf(Start(t)), Day(t))
  IN  IF DayOf(Start(t)) > Day(t) THEN AddPeriod(first, Months(t), Day(t)) ELSE first

\* A template ends with its last run, or before the one past its end date.
Completes(t, done, next) ==
  \/ Runs(t) # 0 /\ done >= Runs(t)
  \/ End(t) # 0 /\ next > End(t)

\* validate_postings: active accounts, two legs or more, sum zero.
ValidPostings(t) == t \in usable /\ Balanced(Normal(t))

\* The other checks of create_template.  A subscription's items must be active.
ValidTemplate(t) ==
  /\ Day(t) \in 1 .. 28 /\ IsDate(Start(t))
  /\ End(t) # 0 => IsDate(End(t)) /\ Start(t) <= End(t) /\ FirstRun(t) <= End(t)
  /\ IF Invoicing(t) THEN t \in usable ELSE ValidPostings(t)

----------------------------------------------------------------------------------
(* run_due: the due rows are read once, then worked off one by one. *)

IsDue(row, date) == row.status = "active" /\ row.next <= date

RowOf(t) ==
  [id |-> t, status |-> templates[t].status, next |-> templates[t].next, last |-> templates[t].last,
   done |-> templates[t].done, stored |-> templates[t].final, final |-> templates[t].final]

Due == {t \in Templates : IsDue(templates[t], today)}

\* ORDER BY next_run_date, id.
Before(s, t) ==
  templates[s].next < templates[t].next \/ (templates[s].next = templates[t].next /\ s < t)

DueInOrder(ids) == \A j, k \in DOMAIN ids : j < k => Before(ids[j], ids[k])

\* The rows of the first SELECT, whose closure drops the column of the final
\* posting set.
DueRows(ids) == [k \in DOMAIN ids |-> [RowOf(ids[k]) EXCEPT !.final = FALSE]]

Current == Head(runner.rows)

At(where) == runner.at = where

Goto(where) == runner' = [runner EXCEPT !.at = where]

\* Turn to a period of the first row.
Begin(rows, turns) ==
  [Resting EXCEPT !.at = IF Reversing(rows[1].id) /\ rows[1].last # 0 THEN "reverse" ELSE "create",
                  !.rows = rows, !.turns = turns]

\* Leave the current template and turn to the next, if any.
Skip == runner' = IF Len(runner.rows) = 1 THEN Resting ELSE Begin(Tail(runner.rows), 0)

\* Faulty: the preview does not look at the end date.
PreviewPastEnd(row) ==
  LET date(k) == AddPeriod(row.next, k * Months(row.id), Day(row.id))
  IN  {<<row.id, date(k)>> : k \in {j \in 0 .. LoopCap - 1 :
         /\ date(j) <= today
         /\ j = 0 \/ Runs(row.id) = 0 \/ row.done + j < Runs(row.id)}}

\* recurring preview, and a run with --dry-run: the template is advanced on paper.
Preview(row) ==
  LET date(k) == AddPeriod(row.next, k * Months(row.id), Day(row.id))
  IN  {<<row.id, date(k)>> : k \in {j \in 0 .. LoopCap - 1 :
         /\ date(j) <= today
         /\ j = 0 \/ ~Completes(row.id, row.done + j, date(j))}}

RunDue ==
  /\ At("idle")
  /\ Due # {}
  /\ \E ids \in [1 .. Cardinality(Due) -> Due] :
       /\ DueInOrder(ids)
       /\ runner' = Begin(DueRows(ids), 0)
       /\ plan' = [runs |-> UNION {Preview(DueRows(ids)[k]) : k \in DOMAIN ids}, changed |-> {}]
  /\ UNCHANGED <<books, templates>>

(***************************************************************************)
(* run_template_once.  An ALREADY_REVERSED of the reversal is ignored.     *)
(***************************************************************************)
ReversePrevious ==
  /\ At("reverse")
  /\ IF HasReversal(Current.last)
       THEN UNCHANGED <<entries, periods>>
       ELSE InsertReversal(Current.last) /\ periods' = Append(periods, periods[Current.last])
  /\ Goto("create")
  /\ UNCHANGED <<drafts, templates>>

IsFinal(row) == row.final /\ Runs(row.id) # 0 /\ row.done + 1 >= Runs(row.id)

CreateEntry ==
  /\ At("create")
  /\ ~Invoicing(Current.id)
  /\ Current.id \in usable
  /\ InsertDraft(IF IsFinal(Current) THEN Final(Current.id) ELSE Normal(Current.id),
                 "recurring", Current.id)
  /\ periods' = Append(periods, Current.next)
  /\ runner' = [runner EXCEPT !.at = "post", !.entry = LastId + 1]
  /\ UNCHANGED <<drafts, templates>>

PostEntry ==
  /\ At("post")
  /\ Current.id \in usable
  /\ MarkPosted(runner.entry)
  /\ Goto("advance")
  /\ UNCHANGED <<periods, drafts, templates>>

CreateInvoice ==
  /\ At("create")
  /\ Invoicing(Current.id)
  /\ drafts' = Append(drafts, <<Current.id, Current.next>>)
  /\ runner' = [runner EXCEPT !.at = "advance", !.entry = 0]
  /\ UNCHANGED <<entries, periods, templates>>

\* Faulty: an error ends the whole run.
FailAll ==
  /\ At("create") \/ At("post")
  /\ ~Invoicing(Current.id)
  /\ Current.id \notin usable
  /\ runner' = Resting
  /\ UNCHANGED <<books, templates>>

\* ACCOUNT_INACTIVE: the template is reported and skipped.
Fail ==
  /\ At("create") \/ At("post")
  /\ ~Invoicing(Current.id)
  /\ Current.id \notin usable
  /\ Skip
  /\ UNCHANGED <<books, templates>>

\* Faulty: the schedule jumps to the run's date.
AdvanceToDate ==
  /\ At("advance")
  /\ LET t == Current.id
         done == Current.done + 1
     IN  templates' = [templates EXCEPT ![t] =
           [@ EXCEPT !.next = AddPeriod(today, Months(t), Day(t)), !.last = runner.entry, !.done = done,
                     !.status = IF Completes(t, done, today) THEN "completed" ELSE Current.status]]
  /\ Goto("reread")
  /\ UNCHANGED books

\* The template is written back from the row that was read, its status included.
Advance ==
  /\ At("advance")
  /\ LET t == Current.id
         done == Current.done + 1
         next == AddPeriod(Current.next, Months(t), Day(t))
     IN  templates' = [templates EXCEPT ![t] =
           [@ EXCEPT !.next = next, !.last = runner.entry, !.done = done,
                     !.status = IF Completes(t, done, next) THEN "completed" ELSE Current.status]]
  /\ Goto("reread")
  /\ UNCHANGED books

\* Go on with the template as `row' has it, while it is due and the cap allows.
Continue(row) ==
  IF IsDue(row, today) /\ runner.turns + 1 < LoopCap
    THEN runner' = Begin(<<row>> \o Tail(runner.rows), runner.turns + 1)
    ELSE Skip

\* Faulty: the loop goes on with the row it started from.
KeepRow == At("reread") /\ Continue(Current) /\ UNCHANGED <<books, templates>>

\* get_template: this row has the final posting set.
Reread == At("reread") /\ Continue(RowOf(Current.id)) /\ UNCHANGED <<books, templates>>

Crash ==
  /\ ~At("idle")
  /\ crashes < MaxCrashes
  /\ crashes' = crashes + 1
  /\ runner' = Resting
  /\ plan' = NoPlan
  /\ UNCHANGED <<books, templates, usable, day, clerk, changes, revived>>

Run ==
  /\ \/ RunDue
     \/ /\ \/ ReversePrevious \/ CreateEntry \/ PostEntry \/ CreateInvoice \/ Fail
           \/ Advance \/ Reread
        /\ plan' = IF runner' = Resting THEN NoPlan ELSE plan
  /\ UNCHANGED <<usable, day, clerk, crashes, changes, revived>>

----------------------------------------------------------------------------------
(* The clerk: create_template and set_template_status. *)

\* Ids are given out in the order of adding.
Add(t) ==
  /\ clerk = Away
  /\ \A s \in Templates : templates[s].status = "none" <=> s >= t
  /\ ValidTemplate(t)
  /\ templates' = [templates EXCEPT ![t].status = "active", ![t].next = FirstRun(t)]
  /\ clerk' = IF Splits(t) THEN [op |-> "final", id |-> t] ELSE Away

\* depreciation add writes the final posting set in a second statement.
AddFinal(t) ==
  /\ clerk = [op |-> "final", id |-> t]
  /\ templates' = [templates EXCEPT ![t].final = TRUE]
  /\ clerk' = Away

CheckStatus(t, to) ==
  /\ clerk = Away
  /\ templates[t].status \in {"active", "paused"}
  /\ changes < MaxChanges
  /\ changes' = changes + 1
  /\ clerk' = [op |-> to, id |-> t]
  /\ UNCHANGED templates

WriteStatus(t) ==
  /\ clerk.op \in {"active", "paused"}
  /\ clerk.id = t
  /\ templates' = [templates EXCEPT ![t].status = clerk.op]
  /\ clerk' = Away
  /\ plan' = IF At("idle") THEN plan ELSE [plan EXCEPT !.changed = @ \cup {t}]
  /\ revived' = IF templates[t].status = "completed" THEN revived \cup {t} ELSE revived

\* Dying between a check and its write is as good as not checking.
ClerkDies ==
  /\ clerk.op = "final"
  /\ clerk' = Away
  /\ UNCHANGED templates

Manage ==
  /\ \/ /\ \/ \E t \in Templates : Add(t) \/ AddFinal(t)
           \/ ClerkDies
        /\ UNCHANGED <<changes, history>>
     \/ \E t \in Templates : WriteStatus(t) /\ UNCHANGED changes
     \/ \E t \in Templates, to \in {"active", "paused"} : CheckStatus(t, to) /\ UNCHANGED history
  /\ UNCHANGED <<books, usable, day, runner, crashes>>

\* account deactivate and account reactivate.
Switch ==
  /\ \/ /\ changes < MaxChanges
        /\ changes' = changes + 1
        /\ \E t \in usable \cap Closable : usable' = usable \ {t}
     \/ /\ \E t \in Templates \ usable : usable' = usable \cup {t}
        /\ UNCHANGED changes
  /\ UNCHANGED <<books, templates, day, runner, clerk, crashes, history>>

\* No run spans two of the days.
Tick ==
  /\ day < Len(Days)
  /\ At("idle")
  /\ day' = day + 1
  /\ UNCHANGED <<books, templates, usable, runner, clerk, crashes, changes, history>>

Next == Run \/ Crash \/ Manage \/ Switch \/ Tick

Spec == Init /\ [][Next]_vars

\* Whoever schedules the runs (cron, an agent) starts one whenever some template
\* is due, and a run that is not killed proceeds.
FairSpec == Spec /\ WF_vars(Run)

----------------------------------------------------------------------------------
(* Properties. *)

\* The entries a template generated for a period.
Generated(t, k) == {i \in Ids : entries[i].source = "recurring" /\ entries[i].ref = t /\ periods[i] = k}

Posted(S) == {i \in S : IsPosted(i)}

DraftsOf(t, k) == {d \in DOMAIN drafts : drafts[d] = <<t, k>>}

\* The period being booked is generated and the template not yet advanced.
InFlight(t) == IF At("advance") /\ Current.id = t THEN 1 ELSE 0

\* The dates a template stands for, read off the calendar: its day in every month,
\* quarter or year counted from the month it starts in.
Grid(t) ==
  LET month(d) == MonthIndex(YearOf(d), MonthOf(d), 0)
      dates == {YMD(y, m, Day(t)) : y \in YearOf(Start(t)) .. YearOf(today) + 1, m \in 1 .. 12}
  IN  {d \in dates : d >= Start(t) /\ (month(d) - month(Start(t))) % Months(t) = 0}

Booked(t, d) == IF Invoicing(t) THEN DraftsOf(t, d) # {} ELSE Posted(Generated(t, d)) # {}

(***************************************************************************)
(* Missed periods are caught up one by one: of the dates a template stands *)
(* for none before its next_run_date is without its posted entry or draft  *)
(* invoice, whatever crashed, failed, was paused or resumed meanwhile; and *)
(* nothing is booked on another date, or past its end, unless it was       *)
(* completed while somebody resumed it.                                    *)
(***************************************************************************)
NoPeriodSkipped ==
  \A t \in {u \in Templates : templates[u].status # "none"} :
    /\ \A d \in Grid(t) : d < templates[t].next => Booked(t, d)
    /\ \A i \in Ids : entries[i].source = "recurring" /\ entries[i].ref = t =>
         /\ periods[i] \in Grid(t)
         /\ End(t) = 0 \/ periods[i] <= End(t) \/ t \in revived

\* The entries posted, or invoices drafted, for a template.
Times(t) ==
  IF Invoicing(t)
    THEN Cardinality({d \in DOMAIN drafts : drafts[d][1] = t})
    ELSE Cardinality({i \in Ids : IsPosted(i) /\ entries[i].source = "recurring" /\ entries[i].ref = t})

\* The bookings of a template beyond its runs.
Excess(t) == Times(t) - templates[t].done - InFlight(t)

(***************************************************************************)
(* README calls a run idempotent.  What the code gives while no two runs   *)
(* overlap is: a period is booked twice only when a run was killed between *)
(* posting its entry and advancing the template, once for each time that   *)
(* happens.  Overlapping runs book twice with nobody killed (Overlap.tla). *)
(***************************************************************************)
TwiceOnlyByCrash ==
  /\ \A t \in Templates : Excess(t) >= 0
  /\ MapThenSumSet(Excess, Templates) <= crashes

(***************************************************************************)
(* What a preview shows is what a run then does: a run books nothing that  *)
(* the preview of its first moment did not list, and leaves no template    *)
(* before all that was listed of it is booked, unless it failed; a         *)
(* template whose status is written meanwhile is excepted (README,         *)
(* "--dry-run").                                                           *)
(***************************************************************************)
PreviewTellsRun ==
  ~At("idle") =>
    LET t == Current.id
        left == ~IsDue(templates[t], today) \/ runner.turns + 1 >= LoopCap
    IN  /\ ~At("reread") => <<t, Current.next>> \in plan.runs \/ t \in plan.changed
        /\ At("reread") /\ left /\ t \notin plan.changed =>
             \A p \in plan.runs : p[1] = t => p[2] < templates[t].next

(***************************************************************************)
(* A due template is caught up with in the end, unless it is paused or an  *)
(* account of its own is inactive: another template's failure or a crash   *)
(* does not keep it waiting (README: "a failing template is reported and   *)
(* skipped, others still run", "the next run simply catches up").          *)
(***************************************************************************)
CatchesUp ==
  \A t \in Templates :
    []<>(IsDue(templates[t], today) => (~Invoicing(t) /\ t \notin usable))

==================================================================================
