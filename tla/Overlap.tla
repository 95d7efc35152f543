---------------------------------- MODULE Overlap ----------------------------------
(***************************************************************************)
(* Two `recurring run's at once (src/recurring.rs): run_due takes no lock, *)
(* so both may read a template before either has advanced it, book the     *)
(* same period, and write the template back one over the other.  The clerk *)
(* and the books are those of Recurring, which has the first runner; the   *)
(* second is an instance of it.  Both run with the date of the same day.   *)
(***************************************************************************)
EXTENDS Recurring

VARIABLES
  other,       \* the second process in run_due
  otherPlan,   \* history: `plan' of the second run
  shared       \* history: templates two runs had in hand at once

second == <<other, otherPlan>>

Second == INSTANCE Recurring WITH runner <- other, plan <- otherPlan

\* The templates a run has read and not yet left.
InHand(run) == {run.rows[k].id : k \in DOMAIN run.rows}

Init2 == Init /\ other = Resting /\ otherPlan = NoPlan /\ shared = {}

Meet == shared' = shared \cup (InHand(runner') \cap InHand(other'))

FirstRuns == (Run \/ Crash) /\ UNCHANGED second /\ Meet

SecondRuns == (Second!Run \/ Second!Crash) /\ UNCHANGED <<runner, plan>> /\ Meet

\* The clerk, while all accounts stay active.
Clerk == Manage /\ UNCHANGED <<second, shared>>

\* Neither run spans two of the days.
NewDay == Second!At("idle") /\ Tick /\ UNCHANGED <<second, shared>>

Next2 == FirstRuns \/ SecondRuns \/ Clerk \/ NewDay

Spec2 == Init2 /\ [][Next2]_<<vars, second, shared>>

\* The bookings of a template beyond its runs.
Beyond(t) == Times(t) - templates[t].done - InFlight(t) - Second!InFlight(t)

\* Neither run had the template in hand together with the other: it has no
\* runs on record that were not booked, and is booked beyond them once for
\* each run killed between posting the period and advancing the template.
TwiceOnlyIfShared ==
  /\ \A t \in Templates \ shared : Beyond(t) >= 0
  /\ MapThenSumSet(Beyond, Templates \ shared) <= crashes

(***************************************************************************)
(* However two runs overlap and one is killed (run_due, which takes no     *)
(* lock and writes back what it has read): no period of any template is    *)
(* missed or booked off its date, although one run may set a template back *)
(* to a period that the other has booked; and a period is booked twice     *)
(* only by a kill or for a template that both runs had in hand at once.    *)
(***************************************************************************)
PeriodsSurviveOverlap == NoPeriodSkipped /\ TwiceOnlyIfShared

==================================================================================
