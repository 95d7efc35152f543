---------------------------------- MODULE YearEnd ----------------------------------
(***************************************************************************)
(* Closing a fiscal year (src/year_end.rs) while the books stay open: the  *)
(* close reads the year with one statement after another, then creates and *)
(* posts a closing entry and an appropriation entry in four transactions   *)
(* of their own.  Between any two of them other commands book, post and    *)
(* reverse, and the process may die.  Only entries dated in the year are   *)
(* modelled.                                                               *)
(*                                                                         *)
(* A posting list is a function from accounts to cents: this module's      *)
(* properties are about what ends up on which account.                     *)
(***************************************************************************)
EXTENDS Sequences, Sums

CONSTANTS
  Flow,          \* income and expense accounts
  Assets,        \* asset accounts
  Liabilities,   \* liability and equity accounts but the two that follow
  Result,        \* the result account, 9900 in the NL profile
  Equity,        \* the account the result is carried to
  Bookings,      \* the posting lists of ordinary entries
  Closers,       \* processes that run year-end close
  NoRef,
  MaxEntries     \* bound: entries of the year

VARIABLES entries, hasResult, pc, nets, own

closeVars == <<entries, hasResult, pc, nets, own>>

Passiva == Liabilities \cup {Result, Equity}

Accounts == Flow \cup Assets \cup Passiva

Amounts == [Accounts -> Int]

\* An account is of one kind.
ASSUME YearEndAssumption ==
  /\ IsFiniteSet(Accounts)
  /\ Flow \cap Assets = {} /\ Flow \cap Passiva = {} /\ Assets \cap Passiva = {}
  /\ Result \notin Liabilities /\ Equity \notin Liabilities /\ Result # Equity
  /\ Bookings \subseteq Amounts

LegsOf(l) == Cardinality({a \in Accounts : l[a] # 0})

Negated(l) == [a \in Accounts |-> -l[a]]

INSTANCE Entries WITH
  PostingLists <- Amounts, Total <- SumOf, Legs <- LegsOf, Neg <- Negated,
  Sources <- {"manual", "closing", "reversal"}, Refs <- {"fy", NoRef}

Steps == {"idle", "drafts", "open", "account", "create", "post", "create_2", "post_2"}

NoNets == [a \in Flow |-> 0]

IsClosing(i) == entries[i].source = "closing"

CloseTypeOK ==
  /\ entries \in Seq(EntryRow)
  /\ hasResult \in BOOLEAN
  /\ pc \in [Closers -> Steps]
  /\ nets \in [Closers -> [Flow -> Int]]
  /\ own \in [Closers -> {0} \cup Ids]
  /\ \A p \in Closers : /\ pc[p] \in {"idle", "drafts", "open"} => nets[p] = NoNets /\ own[p] = 0
                        /\ pc[p] \in {"post", "create_2", "post_2"} => own[p] \in Ids /\ IsClosing(own[p])

CloseInit ==
  /\ entries = << >>
  /\ hasResult = FALSE
  /\ pc = [p \in Closers |-> "idle"]
  /\ nets = [p \in Closers |-> NoNets]
  /\ own = [p \in Closers |-> 0]

----------------------------------------------------------------------------------
(* Reading the year. *)

\* NOT EXISTS (an entry with reversed_from_id = i).
IsLive(i) == \A r \in Ids : entries[r].reversedFrom # i

AmountOn(a, S) == SumOf([i \in S |-> entries[i].postings[a]])

\* result_accounts: posted and source != 'closing'.
Net(a) == AmountOn(a, {i \in Ids : IsPosted(i) /\ ~IsClosing(i)})

\* Faulty: a posted reversal of any entry of the year counts as an undo.
IsYearClosedLax == \E i \in Ids : IsClosing(i) /\ \A r \in Ids : entries[r].reversedFrom = 0

IsYearClosed == \E i \in Ids : IsClosing(i) /\ IsLive(i)

----------------------------------------------------------------------------------
(* year_end_close, statement by statement. *)

Stands(p, where) == pc[p] = where

GoesTo(p, where) == pc' = [pc EXCEPT ![p] = where]

Rests(p) ==
  /\ GoesTo(p, "idle")
  /\ nets' = [nets EXCEPT ![p] = NoNets]
  /\ own' = [own EXCEPT ![p] = 0]

\* INCOMPLETE_YEAR is the early return when this is not enabled.
CheckDrafts(p) ==
  /\ Stands(p, "idle")
  /\ \A i \in Ids : ~IsDraft(i)
  /\ GoesTo(p, "drafts")
  /\ UNCHANGED <<entries, hasResult, nets, own>>

CheckOpen(p) ==
  /\ Stands(p, "drafts")
  /\ ~IsYearClosed
  /\ GoesTo(p, "open")
  /\ UNCHANGED <<entries, hasResult, nets, own>>

ReadNets(p) ==
  /\ Stands(p, "open")
  /\ \E a \in Flow : Net(a) # 0
  /\ nets' = [nets EXCEPT ![p] = [a \in Flow |-> Net(a)]]
  /\ GoesTo(p, "account")
  /\ UNCHANGED <<entries, hasResult, own>>

\* ALREADY_CLOSED or EMPTY_YEAR.
GiveUp(p) ==
  /\ \/ Stands(p, "drafts") /\ IsYearClosed
     \/ Stands(p, "open") /\ \A a \in Flow : Net(a) = 0
  /\ Rests(p)
  /\ UNCHANGED <<entries, hasResult>>

\* The year's profit, from the nets the process read.
Profit(p) == -SumOf(nets[p])

\* The result account is created on demand.
EnsureResultAccount(p) ==
  /\ Stands(p, "account")
  /\ hasResult' = (hasResult \/ Profit(p) # 0)
  /\ GoesTo(p, "create")
  /\ UNCHANGED <<entries, nets, own>>

ClosingPostings(p) ==
  [a \in Accounts |-> CASE a \in Flow -> -nets[p][a] [] a = Result -> -Profit(p) [] OTHER -> 0]

AppropriationPostings(p) ==
  [a \in Accounts |-> CASE a = Result -> Profit(p) [] a = Equity -> -Profit(p) [] OTHER -> 0]

Create(p, l, next) ==
  /\ InsertDraft(l, "closing", "fy")
  /\ own' = [own EXCEPT ![p] = LastId + 1]
  /\ GoesTo(p, next)
  /\ UNCHANGED <<hasResult, nets>>

CreateClosing(p) == Stands(p, "create") /\ Create(p, ClosingPostings(p), "post")

PostClosing(p) ==
  /\ Stands(p, "post")
  /\ MarkPosted(own[p])
  /\ IF Profit(p) # 0 THEN GoesTo(p, "create_2") /\ UNCHANGED <<nets, own>> ELSE Rests(p)
  /\ UNCHANGED hasResult

CreateAppropriation(p) == Stands(p, "create_2") /\ Create(p, AppropriationPostings(p), "post_2")

PostAppropriation(p) ==
  /\ Stands(p, "post_2")
  /\ MarkPosted(own[p])
  /\ Rests(p)
  /\ UNCHANGED hasResult

\* The process dies, or a create or post returns an error (ALREADY_POSTED, an
\* inactive account): nothing it committed is undone.
Stop(p) ==
  /\ pc[p] \notin {"idle", "drafts", "open"}
  /\ Rests(p)
  /\ UNCHANGED <<entries, hasResult>>

----------------------------------------------------------------------------------
(* Other commands, each one transaction (Ledger.tla). *)

Others == UNCHANGED <<hasResult, pc, nets, own>>

Book(l) == InsertDraft(l, "manual", NoRef) /\ Others

Post(i) == MarkPosted(i) /\ Others

Reverse(i) == IsPosted(i) /\ ~HasReversal(i) /\ InsertReversal(i) /\ Others

CloseNext ==
  \/ \E p \in Closers : \/ CheckDrafts(p) \/ CheckOpen(p) \/ ReadNets(p) \/ GiveUp(p)
                        \/ EnsureResultAccount(p) \/ CreateClosing(p) \/ PostClosing(p)
                        \/ CreateAppropriation(p) \/ PostAppropriation(p) \/ Stop(p)
  \/ \E l \in Bookings : Book(l)
  \/ \E i \in Ids : Post(i) \/ Reverse(i)

CloseSpec == CloseInit /\ [][CloseNext]_closeVars

----------------------------------------------------------------------------------
(* Properties. *)

\* The entry that empties the income and expense accounts, and the one that
\* carries the result to equity.
IsFlattening(i) == IsClosing(i) /\ \E a \in Flow : entries[i].postings[a] # 0

IsAppropriation(i) == IsClosing(i) /\ ~IsFlattening(i)

\* What an account earned or cost by the entries that are not a close nor the
\* undoing of one.
IsUndoneClose(i) == entries[i].reversedFrom # 0 /\ IsClosing(entries[i].reversedFrom)

OrdinaryNet(a) == AmountOn(a, {i \in Ids : IsPosted(i) /\ ~IsClosing(i) /\ ~IsUndoneClose(i)})

OneLiveClose ==
  \A i, j \in Ids : IsFlattening(i) /\ IsFlattening(j) /\ IsLive(i) /\ IsLive(j) => i = j

LivePairCancels ==
  \A i, j \in Ids :
    IsFlattening(i) /\ IsAppropriation(j) /\ IsLive(i) /\ IsLive(j) =>
      /\ \A a \in Assets \cup Liabilities \cup {Result} : entries[i].postings[a] + entries[j].postings[a] = 0
      /\ entries[j].postings[Equity] = -SumOf([a \in Flow |-> entries[i].postings[a]])

FlowSurvivesClose ==
  (\A i \in Ids : ~IsUndoneClose(i)) => \A a \in Flow : Net(a) = OrdinaryNet(a)

(***************************************************************************)
(* One process at a time closes a year once: wherever a close was cut off, *)
(* whoever posted its left-over draft or reversed half of it, a second     *)
(* closing entry is never created beside one that still stands.  A closing *)
(* entry and an appropriation that both stand belong together: they move   *)
(* the year's result to equity and leave nothing anywhere else.  And the   *)
(* result a close reads is the year's: a close, whole or half, never       *)
(* changes what a later one reads, as long as no closing entry was         *)
(* reversed.                                                               *)
(***************************************************************************)
ClosedOnce == OneLiveClose /\ LivePairCancels /\ FlowSurvivesClose

==================================================================================
