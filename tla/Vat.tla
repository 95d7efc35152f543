----------------------------------- MODULE Vat -----------------------------------
(***************************************************************************)
(* The VAT module (src/vat.rs) of the NL profile: enabling it, booking     *)
(* with VAT codes, the return of a period, moving the position to the      *)
(* settlement account (vat file) and paying it (vat settle).  None of      *)
(* booking, filing and settling is one transaction, so other commands run  *)
(* between their statements, and a process may die there.                  *)
(*                                                                         *)
(* Amounts are cents; a date is the period it lies in.  The layout of the  *)
(* description texts, and the kleineondernemersregeling, under which the   *)
(* module cannot be enabled at all, are left out.                          *)
(***************************************************************************)
EXTENDS Sequences, Sums

CONSTANTS
  Workers,          \* processes that run a vat command
  AccountType(_),   \* accounts.type of a code
  Accounts,         \* codes that occur
  Input, Output,    \* the clearing accounts, 1500 and 2500
  Settlement,       \* the numeric successors of the default settlement account, in order
  Difference, Bank,
  Rate(_),          \* vat_codes.rate_bp
  Kind(_),          \* vat_codes.type
  EuReverse(_),     \* vat_codes.eu_reverse
  Codes,
  NoCode,           \* no @VATCODE
  ReverseRate,      \* reverseChargeEffectiveRateBp
  MaxDifference,    \* cents a payment may differ from the liability (500)
  Periods,
  Today,            \* the period filings and settlements are dated in
  LineAmount(_),    \* bank_transactions.amount_cents
  Lines,            \* bank transactions
  MaxEntries,       \* bound
  Scenarios         \* bounds, one of which a behaviour keeps to

ASSUME VatAssumption ==
  /\ {Input, Output, Difference, Bank} \subseteq Accounts /\ Input # Output
  /\ Settlement \in Seq(Accounts \ {Input, Output, Difference, Bank})
  /\ \A j, k \in DOMAIN Settlement : Settlement[j] = Settlement[k] => j = k
  /\ NoCode \notin Codes /\ \A c \in Codes : Rate(c) \in Nat
  /\ \A c \in Codes : /\ Kind(c) \in {"standard", "exempt", "reverse", "margin", "private"}
                      /\ Kind(c) = "exempt" => Rate(c) = 0
  /\ ReverseRate \in Nat /\ MaxDifference \in Nat /\ MaxEntries \in Nat
  /\ Today \in Periods
  /\ 0 \notin Lines /\ \A t \in Lines : LineAmount(t) \in Int
  /\ \A s \in Scenarios :
       /\ s.lists \subseteq Seq([account : Accounts, amount : Int, code : Codes \cup {NoCode}])
       /\ s.periods \subseteq Periods /\ s.posts \subseteq BOOLEAN /\ s.taken \subseteq DOMAIN Settlement

VARIABLES
  enabled,    \* company.vat_module
  chart,      \* who holds a settlement code: nobody, VAT or another account
  entries,    \* the journal; ref is the command an entry comes from
  returns,    \* vat_returns: the fields filed for a period
  matched,    \* bank transactions in state 'matched'
  work,       \* what each process is doing
  loose,      \* history: entries with VAT legs whose codes are not all set
  stale,      \* history: processes whose reads another command overtook
  crossed,    \* history: lines that two commands worked on or one left half-way
  bounds      \* the scenario: what is booked (lists of [account, amount, code]),
              \* when and with or without --post, who books, files returns,
              \* moves the position, settles and may die, which codes others
              \* take, whether others reverse, and the number of entries

vars == <<enabled, chart, entries, returns, matched, work, loose, stale, crossed, bounds>>

None == [account |-> Input, amount |-> 0, code |-> NoCode, vat |-> 0]

Sum(l) == SumOf([k \in DOMAIN l.legs |-> l.legs[k].amount])

LegCount(l) == Len(l.legs)

\* Faulty: the VAT amounts are copied.
NegatedAmounts(l) ==
  [l EXCEPT !.legs = [k \in DOMAIN l.legs |-> [l.legs[k] EXCEPT !.amount = -@]]]

Negated(l) ==
  [l EXCEPT !.legs = [k \in DOMAIN l.legs |-> [l.legs[k] EXCEPT !.amount = -@, !.vat = -@]]]

Commands == {<<"book", 0>>, <<"file", 0>>, <<"reverse", 0>>} \cup ({"settle"} \X Lines)

INSTANCE Entries WITH
  PostingLists <- [period : Periods,
                   legs : Seq([account : Accounts, amount : Int, code : Codes \cup {NoCode}, vat : Int])],
  Total <- Sum, Legs <- LegCount, Neg <- Negated,
  Sources <- {"manual", "reversal"}, Refs <- Commands, NoRef <- <<"reverse", 0>>

----------------------------------------------------------------------------------
(* expand_vat_postings. *)

Abs(x) == IF x < 0 THEN -x ELSE x

Sign(x) == IF x < 0 THEN -1 ELSE IF x > 0 THEN 1 ELSE 0

Percentage(rate, x) == (2 * rate * Abs(x) + 10000) \div 20000

Effective(code) == IF Kind(code) \in {"reverse", "private"} THEN ReverseRate ELSE Rate(code)

VatOf(s) ==
  IF Kind(s.code) = "private" THEN -Percentage(Effective(s.code), s.amount)
                              ELSE Percentage(Effective(s.code), s.amount) * Sign(s.amount)

ClearingOf(s) ==
  IF AccountType(s.account) = "income" \/ Kind(s.code) = "private" THEN Output ELSE Input

Tagged(l) == {k \in DOMAIN l : l[k].code # NoCode}

\* VAT_MARGIN_NOT_SUPPORTED.
Expandable(l) == \A k \in Tagged(l) : Kind(l[k].code) # "margin"

HasLeg(s) == s.code # NoCode /\ Kind(s.code) # "reverse" /\ VatOf(s) # 0

\* The largest untagged leg, the first of equals.
Absorber(l) ==
  {k \in DOMAIN l : /\ l[k].code = NoCode
                    /\ \A j \in DOMAIN l \ Tagged(l) :
                         Abs(l[j].amount) <= Abs(l[k].amount) /\ (Abs(l[j].amount) = Abs(l[k].amount) => k <= j)}

\* The rows at the places in S, in order.  (SelectSeq is defined by recursion.)
Picked(l, S) == [n \in 1 .. Cardinality(S) |-> l[CHOOSE k \in S : Cardinality({j \in S : j <= k}) = n]]

\* The postings as create_entry gets them: no codes yet; what the VAT legs
\* leave unbalanced goes to one untagged leg.
Expand(l) ==
  LET owed == Picked(l, {k \in DOMAIN l : HasLeg(l[k])})
      user == [k \in DOMAIN l |-> [account |-> l[k].account, amount |-> l[k].amount, code |-> NoCode, vat |-> 0]]
      vat == [k \in DOMAIN owed |-> [account |-> ClearingOf(owed[k]), amount |-> VatOf(owed[k]),
                                     code |-> NoCode, vat |-> 0]]
      all == user \o vat
      sum == SumOf([k \in DOMAIN all |-> all[k].amount])
  IN  [k \in DOMAIN all |-> IF k \in Absorber(l) THEN [all[k] EXCEPT !.amount = @ - sum] ELSE all[k]]

----------------------------------------------------------------------------------
(* ob_readout. *)

Clearing == {Input, Output}

\* The posted postings of the period with a code.
Reported(p) ==
  {r \in UNION {{<<i, k>> : k \in DOMAIN entries[i].postings.legs} :
                  i \in {i \in Ids : IsPosted(i) /\ entries[i].postings.period = p}} :
     LET leg == entries[r[1]].postings.legs[r[2]]
     IN  leg.code # NoCode /\ leg.account \notin Clearing}

LegAt(r) == entries[r[1]].postings.legs[r[2]]

RateColumn(code) == IF Rate(code) = 2100 THEN "a" ELSE IF Rate(code) = 900 THEN "b" ELSE "c"

\* The field the base of a posting is reported in.
BaseField(leg) ==
  LET income == AccountType(leg.account) = "income"
  IN  CASE Kind(leg.code) \in {"standard", "exempt"} -> <<IF income THEN 1 ELSE 3, RateColumn(leg.code)>>
        [] Kind(leg.code) = "private" -> <<1, "d">>
        [] Kind(leg.code) = "reverse" /\ income -> IF EuReverse(leg.code) THEN <<2, "a">> ELSE <<1, "c">>
        [] Kind(leg.code) = "reverse" /\ AccountType(leg.account) = "expense" ->
             <<3, IF EuReverse(leg.code) THEN "b" ELSE "a">>
        [] OTHER -> <<0, "-">>

Base(leg) ==
  CASE Kind(leg.code) = "private" -> Abs(leg.amount)
    [] AccountType(leg.account) = "income" -> -leg.amount
    [] OTHER -> leg.amount

\* 5a: VAT due on supplies and private use.
Owed(leg) ==
  IF Kind(leg.code) = "private" \/ (Kind(leg.code) = "standard" /\ AccountType(leg.account) = "income")
    THEN -leg.vat ELSE 0

\* 4a and 4b: VAT shifted to the company as a buyer.
Shifted(leg) == IF Kind(leg.code) = "reverse" /\ AccountType(leg.account) = "expense" THEN leg.vat ELSE 0

\* 5b: VAT to be deducted.
Deducted(leg) ==
  IF Kind(leg.code) = "standard" /\ AccountType(leg.account) # "income" THEN leg.vat ELSE Shifted(leg)

Fields == {<<1, "a">>, <<1, "b">>, <<1, "c">>, <<1, "d">>, <<2, "a">>, <<3, "a">>, <<3, "b">>, <<3, "c">>, <<5, "d">>}

Readout(p) ==
  [f \in Fields |->
     IF f = <<5, "d">>
       THEN SumOf([r \in Reported(p) |-> Owed(LegAt(r)) + Shifted(LegAt(r)) - Deducted(LegAt(r))])
       ELSE SumOf([r \in {r \in Reported(p) : BaseField(LegAt(r)) = f} |-> Base(LegAt(r))])]

\* account_balance.
Balance(S, T) ==
  LET on(leg) == IF leg.account \in S THEN leg.amount ELSE 0
      legs(i) == entries[i].postings.legs
  IN  SumOf([i \in {i \in T : IsPosted(i)} |-> SumOf([k \in DOMAIN legs(i) |-> on(legs(i)[k])])])

----------------------------------------------------------------------------------

NoReturn == [f \in Fields |-> 0]

Idle == [at |-> "idle", entry |-> 0, specs |-> << >>, next |-> 1, post |-> FALSE, period |-> Today,
         fields |-> NoReturn, account |-> Input, input |-> 0, output |-> 0, line |-> 0]

Readers == {"file_output", "file_account", "file_create", "file_post",
            "settle_read", "settle_create", "settle_post", "settle_mark"}

Settling == {"settle_read", "settle_create", "settle_post", "settle_mark"}

TypeOK ==
  /\ enabled \in BOOLEAN
  /\ chart \in [DOMAIN Settlement -> {"free", "vat", "other"}]
  /\ entries \in Seq(EntryRow)
  /\ DOMAIN returns \subseteq Periods
  /\ matched \subseteq Lines
  /\ \A w \in Workers :
       /\ work[w].at \in Readers \cup {"idle", "tag", "post", "store"}
       /\ work[w].at \in {"tag", "post", "file_post", "settle_post", "settle_mark"} => work[w].entry \in Ids
       /\ work[w].at = "settle_mark" => IsPosted(work[w].entry)
       /\ (work[w].at \in Settling) = (work[w].line # 0)
  /\ loose \subseteq Ids /\ stale \subseteq Workers /\ crossed \subseteq Lines
  /\ ~enabled => entries = << >>

Init ==
  /\ enabled = FALSE
  /\ chart = [k \in DOMAIN Settlement |-> "free"]
  /\ entries = << >>
  /\ returns = << >>
  /\ matched = {}
  /\ work = [w \in Workers |-> Idle]
  /\ loose = {} /\ stale = {} /\ crossed = {}
  /\ bounds \in Scenarios

At(w, where) == work[w].at = where

Go(w, job) == work' = [work EXCEPT ![w] = job]

\* What the others have read is out of date.
Overtakes(others) == stale' = stale \cup {v \in others : work[v].at \in Readers}

Start(w, job) ==
  /\ At(w, "idle") /\ enabled
  /\ Go(w, job)
  /\ stale' = stale \ {w}

\* One transaction: the flag, the clearing accounts and the codes.
EnableVatModule ==
  /\ ~enabled
  /\ enabled' = TRUE
  /\ UNCHANGED <<chart, entries, returns, matched, work, loose, stale, crossed, bounds>>

----------------------------------------------------------------------------------
(* book_vat_entry: the entry, then the code of each tagged posting by an   *)
(* UPDATE of its own, then the posting of the entry.                       *)

BookVatEntry(w, l, p, post) ==
  /\ Expandable(l)
  /\ LastId < bounds.entries /\ InsertDraft([period |-> p, legs |-> Expand(l)], "manual", <<"book", 0>>)
  /\ Start(w, [Idle EXCEPT !.at = "tag", !.entry = LastId + 1, !.post = post,
                           !.specs = Picked(l, Tagged(l))])
  /\ loose' = loose \cup {LastId + 1}
  /\ UNCHANGED <<enabled, chart, returns, matched, crossed, bounds>>

\* The postings with the account and the amount of a spec.
Candidates(i, s) ==
  {k \in DOMAIN entries[i].postings.legs : /\ entries[i].postings.legs[k].account = s.account
                                           /\ entries[i].postings.legs[k].amount = s.amount}

\* The first of them gets the code; a draft only, by the trigger on postings.
Tag(i, s) ==
  [entries EXCEPT ![i].postings.legs[Min(Candidates(i, s))] = [@ EXCEPT !.code = s.code, !.vat = VatOf(s)]]

CodesSet(l) == Cardinality({k \in DOMAIN l.legs : l.legs[k].code # NoCode})

TagPosting(w) ==
  LET i == work[w].entry
      s == work[w].specs[work[w].next]
  IN  /\ At(w, "tag") /\ work[w].next <= Len(work[w].specs)
      /\ IsDraft(i)
      /\ entries' = Tag(i, s)
      /\ Go(w, [work[w] EXCEPT !.next = @ + 1])
      /\ UNCHANGED <<enabled, chart, returns, matched, loose, stale, crossed, bounds>>

\* Two equal specs set one code.
EndTagging(w) ==
  LET i == work[w].entry
  IN  /\ At(w, "tag") /\ work[w].next = Len(work[w].specs) + 1
      /\ loose' = IF CodesSet(entries[i].postings) = Len(work[w].specs) THEN loose \ {i} ELSE loose
      /\ Go(w, IF work[w].post THEN [Idle EXCEPT !.at = "post", !.entry = i] ELSE Idle)
      /\ UNCHANGED <<enabled, chart, entries, returns, matched, stale, crossed, bounds>>

PostBooked(w) ==
  /\ At(w, "post")
  /\ MarkPosted(work[w].entry)
  /\ Go(w, Idle) /\ Overtakes(Workers \ {w})
  /\ UNCHANGED <<enabled, chart, returns, matched, loose, crossed, bounds>>

----------------------------------------------------------------------------------
(* mark_filed: the readout, and its storing. *)

ReadReturn(w, p) ==
  /\ Start(w, [Idle EXCEPT !.at = "store", !.period = p, !.fields = Readout(p)])
  /\ UNCHANGED <<enabled, chart, entries, returns, matched, loose, crossed, bounds>>

\* INSERT ... ON CONFLICT(type, period) DO UPDATE.
StoreReturn(w) ==
  /\ At(w, "store")
  /\ returns' = [p \in DOMAIN returns \cup {work[w].period} |->
                   IF p = work[w].period THEN work[w].fields ELSE returns[p]]
  /\ Go(w, Idle)
  /\ UNCHANGED <<enabled, chart, entries, matched, loose, stale, crossed, bounds>>

----------------------------------------------------------------------------------
(* vat_file. *)

ReadInput(w) ==
  /\ Start(w, [Idle EXCEPT !.at = "file_output", !.input = Balance({Input}, Ids)])
  /\ UNCHANGED <<enabled, chart, entries, returns, matched, loose, crossed, bounds>>

\* resolve_vat_settlement_account, from the k-th code on; 0: VAT_ACCOUNT_COLLISION.
Resolve(k) == Min({j \in DOMAIN Settlement : j >= k /\ chart[j] # "other"} \cup {Len(Settlement) + 1})

\* VAT_NOTHING_TO_FILE when nothing is outstanding.
ReadOutput(w) ==
  LET output == Balance({Output}, Ids)
  IN  /\ At(w, "file_output")
      /\ Go(w, IF output + work[w].input = 0 \/ Resolve(1) > Len(Settlement) THEN Idle
               ELSE [work[w] EXCEPT !.at = "file_account", !.output = output, !.account = Settlement[Resolve(1)]])
      /\ UNCHANGED <<enabled, chart, entries, returns, matched, loose, stale, crossed, bounds>>

CodeIndex(a) == CHOOSE k \in DOMAIN Settlement : Settlement[k] = a

\* ensure_vat_settlement_account resolves once more, but the postings keep the
\* account of the first time.
EnsureAccount(w) ==
  LET k == Resolve(CodeIndex(work[w].account))
  IN  /\ At(w, "file_account") /\ k <= Len(Settlement)
      /\ chart' = [chart EXCEPT ![k] = "vat"]
      /\ Go(w, [work[w] EXCEPT !.at = "file_create"])
      /\ UNCHANGED <<enabled, entries, returns, matched, loose, stale, crossed, bounds>>

\* A posting of nothing is left out.
Leg(a, x) == IF x = 0 THEN << >> ELSE <<[account |-> a, amount |-> x, code |-> NoCode, vat |-> 0]>>

\* Faulty: only what is due is moved.
FilingOutput(job) == Leg(Output, -job.output) \o Leg(job.account, job.output)

Filing(job) ==
  Leg(Output, -job.output) \o Leg(Input, -job.input) \o Leg(job.account, job.output + job.input)

CreateFiling(w) ==
  /\ At(w, "file_create")
  /\ LastId < bounds.entries /\ InsertDraft([period |-> Today, legs |-> Filing(work[w])], "manual", <<"file", 0>>)
  /\ Go(w, [work[w] EXCEPT !.at = "file_post", !.entry = LastId + 1])
  /\ UNCHANGED <<enabled, chart, returns, matched, loose, stale, crossed, bounds>>

PostFiling(w) ==
  /\ At(w, "file_post")
  /\ MarkPosted(work[w].entry)
  /\ Go(w, Idle) /\ Overtakes(Workers \ {w})
  /\ UNCHANGED <<enabled, chart, returns, matched, loose, crossed, bounds>>

----------------------------------------------------------------------------------
(* vat settle. *)

Works(t) == \E v \in Workers : work[v].line = t

\* ALREADY_MATCHED.
Unmatched(t) == t \notin matched

\* --account: only a code that VAT holds has a balance here (VAT_SETTLE_NOTHING).
CheckLine(w, t, k) ==
  /\ Unmatched(t)
  /\ chart[k] = "vat"
  /\ Start(w, [Idle EXCEPT !.at = "settle_read", !.line = t, !.account = Settlement[k]])
  /\ crossed' = IF Works(t) THEN crossed \cup {t} ELSE crossed
  /\ UNCHANGED <<enabled, chart, entries, returns, matched, loose, bounds>>

\* VAT_SETTLE_NOTHING, VAT_SETTLE_DIRECTION, VAT_SETTLE_DIFFERENCE_TOO_LARGE.
Settles(balance, amount) ==
  /\ balance # 0
  /\ Sign(amount) = Sign(balance)
  /\ Abs(Abs(amount) - Abs(balance)) <= MaxDifference

ReadBalance(w) ==
  LET balance == Balance({work[w].account}, Ids)
  IN  /\ At(w, "settle_read")
      /\ Go(w, IF Settles(balance, LineAmount(work[w].line))
                 THEN [work[w] EXCEPT !.at = "settle_create", !.input = balance] ELSE Idle)
      /\ UNCHANGED <<enabled, chart, entries, returns, matched, loose, stale, crossed, bounds>>

\* The whole balance is taken off; what the line does not pay is a difference.
SettlementLegs(job) ==
  Leg(job.account, -job.input) \o Leg(Bank, LineAmount(job.line))
    \o Leg(Difference, job.input - LineAmount(job.line))

CreateSettlement(w) ==
  /\ At(w, "settle_create")
  /\ LastId < bounds.entries /\ InsertDraft([period |-> Today, legs |-> SettlementLegs(work[w])], "manual", <<"settle", work[w].line>>)
  /\ Go(w, [work[w] EXCEPT !.at = "settle_post", !.entry = LastId + 1])
  /\ UNCHANGED <<enabled, chart, returns, matched, loose, stale, crossed, bounds>>

PostSettlement(w) ==
  /\ At(w, "settle_post")
  /\ MarkPosted(work[w].entry)
  /\ Go(w, [work[w] EXCEPT !.at = "settle_mark"]) /\ Overtakes(Workers \ {w})
  /\ UNCHANGED <<enabled, chart, returns, matched, loose, crossed, bounds>>

\* Faulty: the state of the line is not written.
MarkNothing(w) ==
  /\ At(w, "settle_mark")
  /\ Go(w, Idle)
  /\ UNCHANGED <<enabled, chart, entries, returns, matched, loose, stale, crossed, bounds>>

\* An error here is ignored, which is as if the process died.
MarkLine(w) ==
  /\ At(w, "settle_mark")
  /\ matched' = matched \cup {work[w].line}
  /\ Go(w, Idle)
  /\ UNCHANGED <<enabled, chart, entries, returns, loose, stale, crossed, bounds>>

----------------------------------------------------------------------------------

\* A statement fails (its entry was posted meanwhile, or does not balance), or
\* the process dies: nothing committed is undone.
Refused(w) ==
  \/ At(w, "tag") /\ work[w].next <= Len(work[w].specs) /\ IsPosted(work[w].entry)
  \/ work[w].at \in {"post", "file_post", "settle_post"} /\ ~MayMarkPosted(work[w].entry)
  \/ At(w, "file_account") /\ Resolve(CodeIndex(work[w].account)) > Len(Settlement)

Stop(w) ==
  /\ Refused(w) \/ (w \in bounds.mortal /\ ~At(w, "idle"))
  /\ crossed' = IF work[w].at \in {"settle_post", "settle_mark"} THEN crossed \cup {work[w].line} ELSE crossed
  /\ Go(w, Idle)
  /\ UNCHANGED <<enabled, chart, entries, returns, matched, loose, stale, bounds>>

\* entry post and entry reverse of other commands (Ledger.tla).
Post(i) ==
  /\ MarkPosted(i)
  /\ Overtakes(Workers)
  /\ crossed' = crossed \cup {t \in Lines : entries[i].ref = <<"settle", t>>}
  /\ UNCHANGED <<enabled, chart, returns, matched, work, loose, bounds>>

Reverse(i) ==
  /\ IsPosted(i) /\ ~HasReversal(i)
  /\ LastId < bounds.entries /\ InsertReversal(i)
  /\ Overtakes(Workers)
  /\ UNCHANGED <<enabled, chart, returns, matched, work, loose, crossed, bounds>>

\* account create: somebody takes a free code.
TakeCode(k) ==
  /\ chart[k] = "free"
  /\ chart' = [chart EXCEPT ![k] = "other"]
  /\ Overtakes(Workers)
  /\ UNCHANGED <<enabled, entries, returns, matched, work, loose, crossed, bounds>>

\* bank link (Bank.tla).
MatchLine(t) ==
  /\ t \notin matched
  /\ matched' = matched \cup {t}
  /\ crossed' = IF Works(t) THEN crossed \cup {t} ELSE crossed
  /\ UNCHANGED <<enabled, chart, entries, returns, work, loose, stale, bounds>>

Step(w) ==
  \/ w \in bounds.bookers /\ \E l \in bounds.lists, p \in bounds.periods, post \in bounds.posts : BookVatEntry(w, l, p, post)
  \/ TagPosting(w) \/ EndTagging(w) \/ PostBooked(w)
  \/ w \in bounds.reporters /\ \E p \in bounds.periods : ReadReturn(w, p)
  \/ StoreReturn(w)
  \/ w \in bounds.filers /\ ReadInput(w)
  \/ \/ ReadOutput(w) \/ EnsureAccount(w) \/ CreateFiling(w) \/ PostFiling(w)
  \/ w \in bounds.settlers /\ \E t \in Lines, k \in DOMAIN Settlement : CheckLine(w, t, k)
  \/ ReadBalance(w) \/ CreateSettlement(w) \/ PostSettlement(w) \/ MarkLine(w)
  \/ Stop(w)

Next ==
  \/ EnableVatModule
  \/ \E w \in Workers : Step(w)
  \/ \E i \in Ids : Post(i) \/ (bounds.reversals /\ Reverse(i))
  \/ \E k \in bounds.taken : TakeCode(k)
  \/ bounds.settlers # {} /\ \E t \in Lines : MatchLine(t)

Spec == Init /\ [][Next]_vars

----------------------------------------------------------------------------------
(* Properties. *)

\* A filing, the undoing of one, and so on.
IsFiling(i) ==
  \E k \in DOMAIN entries[i].postings.legs, j \in DOMAIN Settlement :
    entries[i].postings.legs[k].account = Settlement[j]

SettlementCodes == {Settlement[j] : j \in DOMAIN Settlement}

Elsewhere(l) == \A k \in DOMAIN l : l[k].account \notin Clearing \cup SettlementCodes

\* Nobody books the VAT accounts themselves with the module's command.
BooksElsewhere == \A s \in Scenarios : \A l \in s.lists : Elsewhere(l)

(***************************************************************************)
(* What a return says is owed is what the period's bookings put on the     *)
(* clearing accounts: the codes and the VAT legs of an entry agree, also   *)
(* after reversals, unless an entry was posted before all its codes were   *)
(* set.                                                                    *)
(***************************************************************************)
ReadoutMatchesBooks ==
  (\A i \in loose : IsDraft(i)) =>
    \A p \in Periods :
      Readout(p)[<<5, "d">>] =
        -Balance(Clearing, {i \in Ids : entries[i].postings.period = p /\ ~IsFiling(i)})

(***************************************************************************)
(* A filing that no other command overtook empties the clearing accounts   *)
(* on an account that is VAT's own, and a settlement empties the account   *)
(* it settles (README: `vat file' "clears 1500/2500, moves the exact-cents *)
(* net"; `vat settle' "cancels the af-te-dragen balance").                 *)
(***************************************************************************)
PositionCleared ==
  [][\A w \in Workers :
       /\ At(w, "file_post") /\ w \notin stale /\ work'[w] = Idle /\ entries # entries' =>
            Balance(Clearing, Ids)' = 0 /\ chart[CodeIndex(work[w].account)] = "vat"
       /\ At(w, "settle_post") /\ w \notin stale /\ work'[w].at = "settle_mark" =>
            Balance({work[w].account}, Ids)' = 0]_vars

SettledBy(t) == {i \in Ids : entries[i].ref = <<"settle", t>> /\ IsPosted(i)}

(***************************************************************************)
(* A bank line pays VAT once, and no other command can use it then, when   *)
(* its settlement was not left half-way and no other command worked on the *)
(* line.                                                                   *)
(***************************************************************************)
LineSettledOnce ==
  \A t \in Lines \ crossed :
    /\ Cardinality(SettledBy(t)) <= 1
    /\ SettledBy(t) # {} => t \in matched \/ \E w \in Workers : At(w, "settle_mark") /\ work[w].line = t

==================================================================================
