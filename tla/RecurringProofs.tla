------------------------------ MODULE RecurringProofs ------------------------------
(***************************************************************************)
(* Proofs about Recurring, for any number of templates, any schedules, any *)
(* days runs are started on and any number of crashes and changes.         *)
(***************************************************************************)
EXTENDS Recurring, SumTheorems, SequenceTheorems, FiniteSetTheorems, WellFoundedInduction,
        TLAPS

----------------------------------------------------------------------------------
(* The calendar of a template: month j is the j-th since the year 0.       *)

DateAt(t, j) == YMD(j \div 12, (j % 12) + 1, Day(t))

FirstMonth(t) == MonthIndex(YearOf(Start(t)), MonthOf(Start(t)), 0)

\* Month j is one the template stands for.
Scheduled(t, j) ==
  /\ DateAt(t, j) >= Start(t)
  /\ (j - FirstMonth(t)) % Months(t) = 0

\* What create_template has checked.
Sound(t) == Day(t) \in 1 .. 28 /\ IsDate(Start(t))

LEMMA MonthParts ==
  ASSUME NEW j \in Nat
  PROVE  /\ j \div 12 \in Nat /\ j % 12 \in 0 .. 11
         /\ j = 12 * (j \div 12) + (j % 12)
  OBVIOUS

LEMMA DateParts ==
  ASSUME NEW y \in Nat, NEW m \in 1 .. 12, NEW d \in 1 .. 28
  PROVE  /\ YMD(y, m, d) \in Nat
         /\ YearOf(YMD(y, m, d)) = y /\ MonthOf(YMD(y, m, d)) = m /\ DayOf(YMD(y, m, d)) = d
  <1> DEFINE n == 10000 * y + 100 * m + d
             h == 100 * y + m
  <1>1. n \in Nat /\ h \in Nat /\ n = 100 * h + d
    OBVIOUS
  <1>2. n \div 10000 = y
    OBVIOUS
  <1> HIDE DEF n
  <1>3. n \div 100 = h /\ n % 100 = d
    <2> HIDE DEF h
    <2>1. QED
      BY <1>1
  <1>4. h % 100 = m
    OBVIOUS
  <1>5. YMD(y, m, d) = n
    BY DEF YMD, n
  <1> HIDE DEF h
  <1>6. QED
    BY <1>1, <1>2, <1>3, <1>4, <1>5 DEF YearOf, MonthOf, DayOf

LEMMA DateAtParts ==
  ASSUME NEW t \in Templates, Sound(t), NEW j \in Nat
  PROVE  /\ DateAt(t, j) \in Nat
         /\ YearOf(DateAt(t, j)) = j \div 12
         /\ MonthOf(DateAt(t, j)) = (j % 12) + 1
         /\ DayOf(DateAt(t, j)) = Day(t)
         /\ MonthIndex(YearOf(DateAt(t, j)), MonthOf(DateAt(t, j)), 0) = j
  <1>1. j \div 12 \in Nat /\ (j % 12) + 1 \in 1 .. 12
    BY MonthParts
  <1>2. /\ DateAt(t, j) \in Nat
        /\ YearOf(DateAt(t, j)) = j \div 12
        /\ MonthOf(DateAt(t, j)) = (j % 12) + 1
        /\ DayOf(DateAt(t, j)) = Day(t)
    BY <1>1, DateParts DEF DateAt, Sound
  <1>3. QED
    BY <1>2, MonthParts DEF MonthIndex

LEMMA DatesGrow ==
  ASSUME NEW t \in Templates, Sound(t), NEW j \in Nat, NEW k \in Nat
  PROVE  (j < k <=> DateAt(t, j) < DateAt(t, k)) /\ (j = k <=> DateAt(t, j) = DateAt(t, k))
  <1> DEFINE a == j \div 12
             b == j % 12
             c == k \div 12
             e == k % 12
             d == Day(t)
  <1>1. /\ a \in Nat /\ b \in 0 .. 11 /\ j = 12 * a + b
        /\ c \in Nat /\ e \in 0 .. 11 /\ k = 12 * c + e
    BY MonthParts
  <1>2. d \in 1 .. 28
    BY DEF Sound
  <1>3. DateAt(t, j) = 10000 * a + 100 * (b + 1) + d /\ DateAt(t, k) = 10000 * c + 100 * (e + 1) + d
    BY DEF DateAt, YMD
  <1> HIDE DEF a, b, c, d, e
  <1>4. QED
    BY <1>1, <1>2, <1>3

LEMMA NextDate ==
  ASSUME NEW t \in Templates, Sound(t), NEW j \in Nat, NEW n \in Nat
  PROVE  AddPeriod(DateAt(t, j), n, Day(t)) = DateAt(t, j + n)
  <1>1. MonthIndex(YearOf(DateAt(t, j)), MonthOf(DateAt(t, j)), n) = j + n
    <2>1. MonthIndex(YearOf(DateAt(t, j)), MonthOf(DateAt(t, j)), 0) = j
      BY DateAtParts
    <2>2. YearOf(DateAt(t, j)) \in Nat /\ MonthOf(DateAt(t, j)) \in Nat
      BY DateAtParts, MonthParts
    <2>3. QED
      BY <2>1, <2>2 DEF MonthIndex
  <1>2. QED
    BY <1>1 DEF AddPeriod, DateAt

LEMMA StartParts ==
  ASSUME NEW t \in Templates, Sound(t)
  PROVE  /\ Start(t) \in Nat /\ FirstMonth(t) \in Nat
         /\ YearOf(Start(t)) = FirstMonth(t) \div 12
         /\ MonthOf(Start(t)) = (FirstMonth(t) % 12) + 1
         /\ DayOf(Start(t)) \in 1 .. 31
         /\ Start(t) = YMD(YearOf(Start(t)), MonthOf(Start(t)), DayOf(Start(t)))
  <1>1. Start(t) \in Nat
    BY RecurringAssumption
  <1> DEFINE s == Start(t)
  <1>2. YearOf(s) \in Nat /\ MonthOf(s) \in 1 .. 12
    BY <1>1 DEF Sound, IsDate, YearOf
  <1>3. DayOf(s) \in 1 .. 31
    BY DEF Sound, IsDate, DaysInMonth
  <1>4. s = YMD(YearOf(s), MonthOf(s), DayOf(s))
    BY <1>1 DEF YMD, YearOf, MonthOf, DayOf
  <1>5. FirstMonth(t) = 12 * YearOf(s) + (MonthOf(s) - 1)
    BY <1>2 DEF FirstMonth, MonthIndex
  <1> HIDE DEF s
  <1>6. FirstMonth(t) \in Nat /\ FirstMonth(t) \div 12 = YearOf(s) /\ FirstMonth(t) % 12 = MonthOf(s) - 1
    BY <1>2, <1>5
  <1>7. QED
    BY <1>1, <1>2, <1>3, <1>4, <1>6 DEF s

\* No date before the first month, and none in it when the start is past the day.
LEMMA ScheduledFrom ==
  ASSUME NEW t \in Templates, Sound(t), NEW j \in Nat
  PROVE  DateAt(t, j) >= Start(t) <=>
           \/ j > FirstMonth(t)
           \/ j = FirstMonth(t) /\ DayOf(Start(t)) <= Day(t)
  <1> DEFINE f == FirstMonth(t)
             a == j \div 12
             b == j % 12
             c == f \div 12
             e == f % 12
             d == Day(t)
             s == DayOf(Start(t))
  <1>1. f \in Nat /\ s \in 1 .. 31 /\ d \in 1 .. 28
    BY StartParts DEF Sound
  <1>2. /\ a \in Nat /\ b \in 0 .. 11 /\ j = 12 * a + b
        /\ c \in Nat /\ e \in 0 .. 11 /\ f = 12 * c + e
    BY <1>1, MonthParts
  <1>3. DateAt(t, j) = 10000 * a + 100 * (b + 1) + d
    BY DEF DateAt, YMD
  <1>4. Start(t) = 10000 * c + 100 * (e + 1) + s
    BY StartParts DEF YMD
  <1> HIDE DEF f, a, b, c, d, e, s
  <1>5. DateAt(t, j) >= Start(t) <=> j > f \/ (j = f /\ s <= d)
    BY <1>1, <1>2, <1>3, <1>4
  <1>6. QED
    BY <1>5 DEF f, s, d

LEMMA MonthsAre == \A t \in Templates : Months(t) = 1 \/ Months(t) = 3 \/ Months(t) = 12
  BY RecurringAssumption

\* The dates of a template are its first and every one a whole number of periods on.
LEMMA ScheduledSteps ==
  ASSUME NEW t \in Templates, Sound(t), NEW j \in Nat, Scheduled(t, j)
  PROVE  /\ \A n \in Nat : Scheduled(t, j + n * Months(t))
         /\ \A k \in Nat : Scheduled(t, k) /\ j < k => j + Months(t) <= k
  <1>1. j >= FirstMonth(t) /\ FirstMonth(t) \in Nat
    BY ScheduledFrom, StartParts DEF Scheduled
  <1>2. ASSUME NEW n \in Nat
        PROVE  Scheduled(t, j + n * Months(t))
    <2> DEFINE k == j + n * Months(t)
    <2>1. k \in Nat /\ k >= j
      BY MonthsAre
    <2>2. (k - FirstMonth(t)) % Months(t) = 0
      <3>1. (j - FirstMonth(t)) % Months(t) = 0
        BY DEF Scheduled
      <3>2. CASE Months(t) = 1
        BY <1>1, <3>1, <3>2
      <3>3. CASE Months(t) = 3
        BY <1>1, <3>1, <3>3
      <3>4. CASE Months(t) = 12
        BY <1>1, <3>1, <3>4
      <3>5. QED
        BY <3>2, <3>3, <3>4, MonthsAre
    <2> HIDE DEF k
    <2>3. DateAt(t, k) >= Start(t)
      BY <2>1, ScheduledFrom, StartParts DEF Scheduled
    <2>4. Scheduled(t, k)
      BY <2>2, <2>3 DEF Scheduled
    <2>5. QED
      BY <2>4 DEF k
  <1>3. ASSUME NEW k \in Nat, Scheduled(t, k), j < k
        PROVE  j + Months(t) <= k
    <2>1. (j - FirstMonth(t)) % Months(t) = 0 /\ (k - FirstMonth(t)) % Months(t) = 0
      BY <1>3 DEF Scheduled
    <2>2. CASE Months(t) = 1
      BY <1>3, <2>2
    <2>3. CASE Months(t) = 3
      BY <1>1, <1>3, <2>1, <2>3
    <2>4. CASE Months(t) = 12
      BY <1>1, <1>3, <2>1, <2>4
    <2>5. QED
      BY <2>2, <2>3, <2>4, MonthsAre
  <1>4. QED
    BY <1>2, <1>3

\* FirstRun is the first of them.
LEMMA FirstIsScheduled ==
  ASSUME NEW t \in Templates, Sound(t)
  PROVE  \E j \in Nat : /\ FirstRun(t) = DateAt(t, j) /\ Scheduled(t, j)
                        /\ \A k \in Nat : Scheduled(t, k) => j <= k
  <1> DEFINE f == FirstMonth(t)
  <1>1. f \in Nat /\ DayOf(Start(t)) \in 1 .. 31 /\ Day(t) \in 1 .. 28
    BY StartParts DEF Sound
  <1>2. YMD(YearOf(Start(t)), MonthOf(Start(t)), Day(t)) = DateAt(t, f)
    BY StartParts DEF DateAt
  <1>3. CASE DayOf(Start(t)) > Day(t)
    <2> DEFINE j == f + Months(t)
    <2>1. j \in Nat /\ j > f
      BY <1>1, MonthsAre
    <2>2. FirstRun(t) = DateAt(t, j)
      <3>1. Months(t) \in Nat
        BY MonthsAre
      <3>2. QED
        BY <1>1, <1>2, <1>3, <3>1, NextDate DEF FirstRun
    <2>3. Scheduled(t, j)
      <3>1. (j - f) % Months(t) = 0
        BY <1>1, MonthsAre
      <3>2. QED
        BY <1>1, <2>1, <3>1, ScheduledFrom DEF Scheduled
    <2>4. ASSUME NEW k \in Nat, Scheduled(t, k)
          PROVE  j <= k
      <3>1. k > f
        BY <1>1, <1>3, <2>4, ScheduledFrom DEF Scheduled
      <3>2. (k - f) % Months(t) = 0
        BY <2>4 DEF Scheduled
      <3>3. QED
        BY <1>1, <3>1, <3>2, MonthsAre
    <2>5. QED
      BY <2>1, <2>2, <2>3, <2>4
  <1>4. CASE ~(DayOf(Start(t)) > Day(t))
    <2>1. FirstRun(t) = DateAt(t, f)
      BY <1>2, <1>4 DEF FirstRun
    <2>2. Scheduled(t, f)
      <3>1. (f - f) % Months(t) = 0
        BY <1>1, MonthsAre
      <3>2. QED
        BY <1>1, <1>4, <3>1, ScheduledFrom DEF Scheduled
    <2>3. \A k \in Nat : Scheduled(t, k) => f <= k
      BY <1>1, ScheduledFrom DEF Scheduled
    <2>4. QED
      BY <1>1, <2>1, <2>2, <2>3
  <1>5. QED
    BY <1>3, <1>4

\* Grid, read off the calendar, holds these dates up to the end of next year.
LEMMA GridIsScheduled ==
  ASSUME NEW t \in Templates, Sound(t), today \in Nat
  PROVE  /\ \A d \in Grid(t) : \E j \in Nat : Scheduled(t, j) /\ d = DateAt(t, j)
         /\ \A j \in Nat : Scheduled(t, j) /\ DateAt(t, j) <= today => DateAt(t, j) \in Grid(t)
  <1>1. /\ YearOf(Start(t)) \in Nat /\ FirstMonth(t) \in Nat
        /\ YearOf(Start(t)) = FirstMonth(t) \div 12
    BY StartParts, MonthParts
  <1>2. ASSUME NEW d \in Grid(t)
        PROVE  \E j \in Nat : Scheduled(t, j) /\ d = DateAt(t, j)
    <2>1. PICK y \in YearOf(Start(t)) .. YearOf(today) + 1, m \in 1 .. 12 : d = YMD(y, m, Day(t))
      BY DEF Grid
    <2> DEFINE j == 12 * y + (m - 1)
    <2>2. y \in Nat /\ j \in Nat /\ j \div 12 = y /\ j % 12 = m - 1
      BY <1>1
    <2>3. d = DateAt(t, j)
      BY <2>1, <2>2 DEF DateAt
    <2>4. MonthIndex(YearOf(d), MonthOf(d), 0) = j
      BY <2>2, <2>3, DateAtParts
    <2>5. Scheduled(t, j)
      BY <2>3, <2>4 DEF Grid, Scheduled, FirstMonth
    <2>6. QED
      BY <2>2, <2>3, <2>5
  <1>3. ASSUME NEW j \in Nat, Scheduled(t, j), DateAt(t, j) <= today
        PROVE  DateAt(t, j) \in Grid(t)
    <2> DEFINE d == DateAt(t, j)
               y == j \div 12
               m == (j % 12) + 1
    <2>1. y \in Nat /\ m \in 1 .. 12 /\ d = YMD(y, m, Day(t))
      BY MonthParts DEF DateAt
    <2>2. /\ d \in Nat /\ YearOf(d) = y
          /\ MonthIndex(YearOf(d), MonthOf(d), 0) = j
      BY DateAtParts
    <2>3. y >= YearOf(Start(t))
      <3>1. j >= FirstMonth(t)
        BY <1>1, <1>3, ScheduledFrom DEF Scheduled
      <3>2. QED
        BY <1>1, <3>1
    <2>4. YearOf(today) \in Nat /\ y <= YearOf(today)
      <3>1. d \div 10000 <= today \div 10000 /\ today \div 10000 \in Nat
        BY <1>3, <2>2
      <3>2. QED
        BY <2>2, <3>1 DEF YearOf
    <2>5. d >= Start(t) /\ (MonthIndex(YearOf(d), MonthOf(d), 0) - FirstMonth(t)) % Months(t) = 0
      BY <1>3, <2>2 DEF Scheduled
    <2>6. y \in YearOf(Start(t)) .. YearOf(today) + 1
      BY <1>1, <2>1, <2>3, <2>4
    <2> HIDE DEF y, m
    <2>7. QED
      BY <2>1, <2>5, <2>6 DEF Grid, FirstMonth
  <1>4. QED
    BY <1>2, <1>3


----------------------------------------------------------------------------------
(* The inductive invariant. *)

RunnerRow == [at : {"idle", "reverse", "create", "post", "advance", "reread"},
              rows : Seq(Row), turns : Nat, entry : Nat]

ClerkRow == [op : {"none", "final", "active", "paused"}, id : Nat]

PlanRow == [runs : SUBSET (Templates \X Nat), changed : SUBSET Templates]

Types ==
  /\ TypeOK
  /\ runner \in RunnerRow /\ (~At("idle") => runner.rows # << >>)
  /\ clerk \in ClerkRow /\ (clerk.op # "none" => clerk.id \in Templates)
  /\ plan \in PlanRow

Listed(t) == templates[t].status # "none"

OnSchedule(t, date) == \E j \in Nat : Scheduled(t, j) /\ date = DateAt(t, j)

WithinEnd(t, date) == End(t) = 0 \/ date <= End(t) \/ t \in revived

\* Entry i was generated by template t.
Of(i, t) == entries[i].source = "recurring" /\ entries[i].ref = t

\* A template stands at one of its dates, with all the earlier ones booked.
TemplateOK(t) ==
  /\ Listed(t) =>
       /\ Sound(t)
       /\ OnSchedule(t, templates[t].next)
       /\ \A j \in Nat : Scheduled(t, j) /\ DateAt(t, j) < templates[t].next => Booked(t, DateAt(t, j))
  /\ templates[t].last <= Len(entries)
  /\ templates[t].status \in {"active", "paused"} => WithinEnd(t, templates[t].next)

JournalOK ==
  \A i \in Ids, t \in Templates : Of(i, t) =>
    Listed(t) /\ OnSchedule(t, periods[i]) /\ periods[i] <= today /\ WithinEnd(t, periods[i])

\* The rows the runner holds are those of the tables, but for the one it has just
\* advanced.
RowOK(row) ==
  /\ row.status = "active"
  /\ row.next = templates[row.id].next /\ row.done = templates[row.id].done
  /\ row.next <= today /\ WithinEnd(row.id, row.next)

RowsOK ==
  LET rows == runner.rows
  IN  /\ \A k \in DOMAIN rows : Listed(rows[k].id) /\ rows[k].last <= Len(entries)
      /\ \A k \in DOMAIN rows : k # 1 \/ ~At("reread") => RowOK(rows[k])
      /\ \A j, k \in DOMAIN rows : rows[j].id = rows[k].id => j = k

\* The period the runner has in hand.
HeadOK ==
  /\ At("reverse") => Current.last # 0
  /\ At("post") => /\ ~Invoicing(Current.id)
                   /\ runner.entry \in Ids
                   /\ Of(runner.entry, Current.id)
                   /\ periods[runner.entry] = Current.next
  /\ At("advance") => /\ Booked(Current.id, Current.next)
                      /\ runner.entry <= Len(entries)

IInv == Types /\ (\A t \in Templates : TemplateOK(t)) /\ JournalOK /\ RowsOK /\ HeadOK

----------------------------------------------------------------------------------
(* Rows and runners. *)

LEMMA IdsAreNumbers == Templates \subseteq Nat
  <1>1. Templates = 1 .. Cardinality(Templates)
    BY RecurringAssumption
  <1>2. Cardinality(Templates) \in Nat
    BY RecurringAssumption, FS_CardinalityType
  <1>3. QED
    BY <1>1, <1>2

LEMMA TodayIs ==
  ASSUME day \in DOMAIN Days
  PROVE  today \in Nat
  BY RecurringAssumption DEF today

LEMMA BeginIs ==
  ASSUME NEW rows \in Seq(Row), rows # << >>, NEW turns \in Nat, NEW b, Begin(rows, turns) = b
  PROVE  /\ b \in RunnerRow /\ b.rows = rows /\ b.turns = turns /\ b.entry = 0
         /\ b.at \in {"reverse", "create"} /\ (b.at = "reverse" => rows[1].last # 0)
  BY DEF Begin, Resting, RunnerRow

LEMMA TailIs ==
  ASSUME NEW rows \in Seq(Row), rows # << >>
  PROVE  /\ Len(rows) \in Nat \ {0} /\ DOMAIN rows = 1 .. Len(rows)
         /\ Head(rows) = rows[1] /\ rows[1] \in Row /\ 1 \in DOMAIN rows
         /\ Tail(rows) \in Seq(Row) /\ DOMAIN Tail(rows) = 1 .. Len(rows) - 1
         /\ \A k \in 1 .. Len(rows) - 1 : Tail(rows)[k] = rows[k + 1]
         /\ Len(rows) # 1 => Tail(rows) # << >>
  <1>1. Len(rows) \in Nat \ {0} /\ DOMAIN rows = 1 .. Len(rows)
    OBVIOUS
  <1>2. Head(rows) = rows[1] /\ rows[1] \in Row /\ 1 \in DOMAIN rows
    BY <1>1
  <1>3. /\ Tail(rows) \in Seq(Row) /\ Len(Tail(rows)) = Len(rows) - 1
        /\ \A k \in 1 .. Len(rows) - 1 : Tail(rows)[k] = rows[k + 1]
    BY HeadTailProperties
  <1>4. DOMAIN Tail(rows) = 1 .. Len(rows) - 1
    BY <1>1, <1>3
  <1>5. ASSUME Tail(rows) = << >>
        PROVE  Len(rows) = 1
    <2>1. Len(rows) - 1 = 0
      BY <1>3, <1>5
    <2>2. PICK n \in Nat : n = Len(rows)
      BY <1>1
    <2>3. n - 1 = 0
      BY <2>1, <2>2
    <2>4. n = 1
      BY <2>3
    <2>5. QED
      BY <2>2, <2>4
  <1>6. QED
    BY <1>1, <1>2, <1>3, <1>4, <1>5

LEMMA HeldRows ==
  ASSUME Types, ~At("idle")
  PROVE  /\ runner.rows \in Seq(Row) /\ runner.rows # << >>
         /\ Current = runner.rows[1] /\ Current \in Row /\ Current.id \in Templates
         /\ 1 \in DOMAIN runner.rows
  <1>1. runner.rows \in Seq(Row) /\ runner.rows # << >>
    BY DEF Types, RunnerRow
  <1>2. Current = runner.rows[1] /\ Current \in Row /\ 1 \in DOMAIN runner.rows
    BY <1>1, TailIs DEF Current
  <1>3. QED
    BY <1>1, <1>2 DEF Row

LEMMA RowOfTypes ==
  ASSUME NEW t \in Templates, Types, Listed(t)
  PROVE  RowOf(t) \in Row /\ [RowOf(t) EXCEPT !.final = FALSE] \in Row
  <1>1. templates[t] \in Template
    BY DEF Types, TypeOK
  <1>2. templates[t].status \in {"active", "paused", "completed"}
    BY <1>1 DEF Listed, Template
  <1>3. QED
    BY <1>1, <1>2 DEF RowOf, Row, Template

\* The rows of the SELECT: each due template once.
LEMMA DueRowsAre ==
  ASSUME Types, Due # {}, NEW ids \in [1 .. Cardinality(Due) -> Due], DueInOrder(ids)
  PROVE  /\ DueRows(ids) \in Seq(Row) /\ DueRows(ids) # << >>
         /\ DOMAIN DueRows(ids) = DOMAIN ids
         /\ \A k \in DOMAIN ids :
              /\ ids[k] \in Due
              /\ DueRows(ids)[k] = [RowOf(ids[k]) EXCEPT !.final = FALSE]
         /\ \A j, k \in DOMAIN ids : ids[j] = ids[k] => j = k
  <1>1. IsFiniteSet(Due) /\ Due \subseteq Templates
    BY RecurringAssumption, FS_Subset DEF Due
  <1>2. Cardinality(Due) \in Nat \ {0}
    BY <1>1, FS_CardinalityType, FS_EmptySet
  <1>3. DOMAIN ids = 1 .. Cardinality(Due) /\ DOMAIN DueRows(ids) = 1 .. Cardinality(Due)
    BY DEF DueRows
  <1>4. \A k \in DOMAIN ids : ids[k] \in Due /\ DueRows(ids)[k] = [RowOf(ids[k]) EXCEPT !.final = FALSE]
    BY <1>3 DEF DueRows
  <1>5. \A k \in DOMAIN ids : DueRows(ids)[k] \in Row
    <2> TAKE k \in DOMAIN ids
    <2>1. ids[k] \in Templates /\ Listed(ids[k])
      BY <1>1, <1>4 DEF Due, IsDue, Listed
    <2>2. QED
      BY <1>4, <2>1, RowOfTypes
  <1>6. DueRows(ids) \in Seq(Row) /\ DueRows(ids) # << >>
    <2>1. DueRows(ids) \in [1 .. Cardinality(Due) -> Row]
      BY <1>3, <1>5 DEF DueRows
    <2>2. QED
      BY <1>2, <2>1
  <1>7. ASSUME NEW j \in DOMAIN ids, NEW k \in DOMAIN ids, ids[j] = ids[k], j < k
        PROVE  FALSE
    <2>1. Before(ids[j], ids[j])
      BY <1>7 DEF DueInOrder
    <2>2. ids[j] \in Templates
      BY <1>1, <1>4
    <2>3. templates[ids[j]].next \in Nat
      BY <2>2 DEF Types, TypeOK, Template
    <2>4. ids[j] \in Nat
      BY <2>2, IdsAreNumbers, Zenon
    <2>5. QED
      BY <2>1, <2>3, <2>4 DEF Before
  <1>8. \A j, k \in DOMAIN ids : ids[j] = ids[k] => j = k
    BY <1>2, <1>3, <1>7
  <1>9. QED
    BY <1>3, <1>4, <1>6, <1>8


----------------------------------------------------------------------------------
(* The journal only grows: what is booked stays booked. *)

BooksOK ==
  /\ entries \in Seq(EntryRow)
  /\ periods \in Seq(Nat) /\ Len(periods) = Len(entries)
  /\ drafts \in Seq(Templates \X Nat)

Later ==
  /\ Len(entries) <= Len(entries')
  /\ \A i \in Ids : /\ i \in Ids' /\ (IsPosted(i) => IsPosted(i)')
                    /\ entries'[i].source = entries[i].source
                    /\ entries'[i].ref = entries[i].ref
                    /\ periods'[i] = periods[i]
  /\ \A d \in DOMAIN drafts : d \in DOMAIN drafts' /\ drafts'[d] = drafts[d]

LEMMA BookedStays ==
  ASSUME Later, NEW t, NEW d, Booked(t, d)
  PROVE  Booked(t, d)'
  <1>1. CASE Invoicing(t)
    <2>1. PICK e \in DOMAIN drafts : drafts[e] = <<t, d>>
      BY <1>1 DEF Booked, DraftsOf
    <2>2. e \in DOMAIN drafts' /\ drafts'[e] = <<t, d>>
      BY <2>1 DEF Later
    <2>3. QED
      BY <1>1, <2>2 DEF Booked, DraftsOf
  <1>2. CASE ~Invoicing(t)
    <2>1. PICK i \in Ids : IsPosted(i) /\ entries[i].source = "recurring" /\ entries[i].ref = t /\ periods[i] = d
      BY <1>2 DEF Booked, Posted, Generated
    <2>2. /\ i \in Ids' /\ IsPosted(i)' /\ entries'[i].source = "recurring" /\ entries'[i].ref = t
          /\ periods'[i] = d
      BY <2>1 DEF Later
    <2>3. QED
      BY <1>2, <2>2 DEF Booked, Posted, Generated
  <1>3. QED
    BY <1>1, <1>2

LEMMA Indices ==
  ASSUME BooksOK
  PROVE  /\ Ids = 1 .. Len(entries) /\ Len(entries) \in Nat
         /\ DOMAIN periods = Ids /\ DOMAIN drafts = 1 .. Len(drafts)
         /\ \A i \in Ids : entries[i] \in EntryRow /\ periods[i] \in Nat
  BY DEF BooksOK, Ids

LEMMA NothingBooked ==
  ASSUME BooksOK, UNCHANGED books
  PROVE  BooksOK' /\ Later /\ Ids' = Ids
  BY DEF BooksOK, Later, books, Ids, IsPosted

LEMMA ReversalBooked ==
  ASSUME BooksOK, NEW i \in Ids, InsertReversal(i),
         periods' = Append(periods, periods[i]), UNCHANGED drafts
  PROVE  /\ BooksOK' /\ Later
         /\ \A r \in Ids' : r \in Ids \/ entries'[r].source # "recurring"
  <1> DEFINE new == [state |-> "posted", postings |-> Neg(entries[i].postings),
                     source |-> "reversal", ref |-> NoRef, reversedFrom |-> i]
  <1>1. entries[i].postings \in PostingLists /\ i \in Nat /\ periods[i] \in Nat
    BY Indices DEF EntryRow
  <1>2. new \in EntryRow
    BY <1>1, PostingListsAssumption, EntriesAssumption DEF EntryRow
  <1>3. entries' = Append(entries, new) /\ new.source = "reversal"
    BY DEF InsertReversal
  <1> HIDE DEF new
  <1>4. BooksOK'
    BY <1>1, <1>2, <1>3 DEF BooksOK
  <1>5. \A r \in Ids : entries'[r] = entries[r] /\ periods'[r] = periods[r] /\ r \in Ids'
    BY <1>2, <1>3 DEF BooksOK, Ids
  <1>6. \A r \in Ids' : r \in Ids \/ entries'[r] = new
    BY <1>2, <1>3 DEF BooksOK, Ids
  <1>7. Len(entries) <= Len(entries')
    BY <1>2, <1>3 DEF BooksOK
  <1>8. QED
    BY <1>3, <1>4, <1>5, <1>6, <1>7 DEF Later, IsPosted

LEMMA DraftBooked ==
  ASSUME BooksOK, NEW l \in PostingLists, NEW t \in Templates, NEW date \in Nat,
         InsertDraft(l, "recurring", t), periods' = Append(periods, date), UNCHANGED drafts,
         NEW n, n = LastId + 1
  PROVE  /\ BooksOK' /\ Later
         /\ n \in Ids' /\ IsDraft(n)' /\ Of(n, t)' /\ periods'[n] = date
         /\ \A r \in Ids' : r \in Ids \/ r = n
  <1> DEFINE new == [state |-> "draft", postings |-> l, source |-> "recurring", ref |-> t,
                     reversedFrom |-> 0]
  <1>1. t \in Refs /\ "recurring" \in Sources
    BY RecurringAssumption
  <1>2. new \in EntryRow
    BY <1>1 DEF EntryRow
  <1>3. /\ entries' = Append(entries, new)
        /\ new.source = "recurring" /\ new.ref = t /\ new.state = "draft"
    BY DEF InsertDraft
  <1> HIDE DEF new
  <1>4. BooksOK'
    BY <1>2, <1>3 DEF BooksOK
  <1>5. \A r \in Ids : entries'[r] = entries[r] /\ periods'[r] = periods[r] /\ r \in Ids'
    BY <1>2, <1>3 DEF BooksOK, Ids
  <1>6. \A r \in Ids' : r \in Ids \/ r = Len(entries) + 1
    BY <1>2, <1>3 DEF BooksOK, Ids
  <1>7. /\ Len(entries) <= Len(entries') /\ Len(entries) + 1 \in Ids'
        /\ entries'[Len(entries) + 1] = new /\ periods'[Len(entries) + 1] = date
    BY <1>2, <1>3 DEF BooksOK, Ids
  <1>8. Later
    BY <1>5, <1>7 DEF Later, IsPosted
  <1>9. n = Len(entries) + 1
    BY DEF LastId
  <1>10. QED
    BY <1>3, <1>4, <1>6, <1>7, <1>8, <1>9 DEF IsDraft, Of

LEMMA PostingBooked ==
  ASSUME BooksOK, NEW i \in Ids, MarkPosted(i), UNCHANGED <<periods, drafts>>
  PROVE  BooksOK' /\ Later /\ Ids' = Ids /\ IsPosted(i)'
  <1> DEFINE new == [entries[i] EXCEPT !.state = "posted"]
  <1>1. /\ new \in EntryRow /\ new.state = "posted" /\ new.source = entries[i].source
        /\ new.ref = entries[i].ref
    BY Indices DEF EntryRow
  <1>2. entries' = [entries EXCEPT ![i] = new]
    BY DEF MarkPosted
  <1> HIDE DEF new
  <1>3. /\ entries' \in Seq(EntryRow) /\ Len(entries') = Len(entries) /\ Ids' = Ids
        /\ entries'[i] = new
        /\ \A r \in Ids : r # i => entries'[r] = entries[r]
    BY <1>1, <1>2 DEF BooksOK, Ids
  <1>4. BooksOK'
    BY <1>3 DEF BooksOK
  <1>5. \A r \in Ids : IsPosted(r) => IsPosted(r)'
    BY <1>1, <1>3 DEF IsPosted
  <1>6. \A r \in Ids : entries'[r].source = entries[r].source /\ entries'[r].ref = entries[r].ref
    BY <1>1, <1>3
  <1>7. Len(entries) <= Len(entries')
    BY <1>3, Indices
  <1>8. QED
    BY <1>1, <1>3, <1>4, <1>5, <1>6, <1>7 DEF Later, IsPosted

LEMMA InvoiceBooked ==
  ASSUME BooksOK, NEW t \in Templates, NEW date \in Nat, drafts' = Append(drafts, <<t, date>>),
         UNCHANGED <<entries, periods>>
  PROVE  /\ BooksOK' /\ Later /\ Ids' = Ids
         /\ Invoicing(t) => Booked(t, date)'
  <1>1. /\ drafts' \in Seq(Templates \X Nat)
        /\ Len(drafts) + 1 \in DOMAIN drafts' /\ drafts'[Len(drafts) + 1] = <<t, date>>
        /\ \A d \in DOMAIN drafts : d \in DOMAIN drafts' /\ drafts'[d] = drafts[d]
    BY DEF BooksOK
  <1>2. BooksOK' /\ Ids' = Ids
    BY <1>1 DEF BooksOK, Ids
  <1>3. Later
    BY <1>1, <1>2, Indices DEF Later, IsPosted
  <1>4. Invoicing(t) => Booked(t, date)'
    BY <1>1 DEF Booked, DraftsOf
  <1>5. QED
    BY <1>2, <1>3, <1>4


----------------------------------------------------------------------------------
(* What a step leaves alone stays in order. *)

\* A template, once added, stays, and only an advance moves it.
Settled(t) ==
  Listed(t) => Listed(t)' /\ templates'[t].next = templates[t].next /\ templates'[t].done = templates[t].done

LEMMA RunTypes ==
  ASSUME Types, BooksOK', templates' \in [Templates -> Template],
         \A t \in Templates : Listed(t) => Listed(t)',
         runner' \in RunnerRow, runner'.at # "idle" => runner'.rows # << >>,
         runner'.at = "idle" => runner' = Resting,
         runner'.at = "post" => entries'[runner'.entry].state = "draft",
         plan' \in PlanRow,
         UNCHANGED <<usable, day, clerk, crashes, changes, revived>>
  PROVE  Types'
  <1>1. /\ entries' \in Seq(EntryRow)
        /\ periods' \in Seq(Nat) /\ Len(periods') = Len(entries')
        /\ drafts' \in Seq(Templates \X Nat)
    BY DEF BooksOK
  <1>2. usable' \subseteq Templates /\ day' \in DOMAIN Days
    BY DEF Types, TypeOK
  <1>3. /\ runner'.at \in {"idle", "reverse", "create", "post", "advance", "reread"}
        /\ runner'.rows \in Seq(Row)
        /\ (runner'.at = "idle" <=> runner' = Resting)
    BY DEF RunnerRow, Resting
  <1>4. /\ clerk' \in ClerkRow /\ (clerk'.op # "none" => clerk'.id \in Templates)
        /\ (clerk'.op # "none" => templates'[clerk'.id].status # "none")
    BY DEF Types, TypeOK, Listed
  <1>5. crashes' \in 0 .. MaxCrashes /\ changes' \in 0 .. MaxChanges
    BY DEF Types, TypeOK
  <1>6. plan'.runs \subseteq Templates \X Nat /\ plan'.changed \cup revived' \subseteq Templates
    BY DEF Types, TypeOK, PlanRow
  <1>7. clerk'.op \in {"none", "final", "active", "paused"}
    BY <1>4 DEF ClerkRow
  <1>8. TypeOK'
    BY <1>1, <1>2, <1>3, <1>4, <1>5, <1>6, <1>7 DEF TypeOK, IsDraft
  <1>9. QED
    BY <1>4, <1>8 DEF Types, At

LEMMA TemplateStays ==
  ASSUME NEW t \in Templates, TemplateOK(t), Later, BooksOK, BooksOK', templates[t] \in Template,
         templates'[t] = templates[t], revived \subseteq revived'
  PROVE  TemplateOK(t)'
  <1>1. Listed(t)' <=> Listed(t)
    BY DEF Listed
  <1>2. ASSUME Listed(t)
        PROVE  /\ OnSchedule(t, templates'[t].next)
               /\ \A j \in Nat : Scheduled(t, j) /\ DateAt(t, j) < templates'[t].next => Booked(t, DateAt(t, j))'
    <2>1. OnSchedule(t, templates[t].next)
      BY <1>2 DEF TemplateOK
    <2>2. ASSUME NEW j \in Nat, Scheduled(t, j), DateAt(t, j) < templates[t].next
          PROVE  Booked(t, DateAt(t, j))'
      <3>1. PICK d : d = DateAt(t, j)
        OBVIOUS
      <3>2. Booked(t, d)
        BY <1>2, <2>2, <3>1 DEF TemplateOK
      <3>3. Booked(t, d)'
        BY <3>2, BookedStays
      <3>4. QED
        BY <3>1, <3>3
    <2>3. QED
      BY <2>1, <2>2
  <1>3. templates'[t].last <= Len(entries')
    <2>1. templates[t].last <= Len(entries) /\ Len(entries) <= Len(entries') /\ templates[t].last \in Nat
      BY DEF TemplateOK, Later, Template
    <2>2. Len(entries) \in Nat /\ Len(entries') \in Nat
      BY DEF BooksOK
    <2>3. QED
      BY <2>1, <2>2
  <1>4. templates'[t].status \in {"active", "paused"} => WithinEnd(t, templates[t].next)'
    BY DEF TemplateOK, WithinEnd
  <1>5. Listed(t) => Sound(t)
    BY DEF TemplateOK
  <1>6. QED
    BY <1>1, <1>2, <1>3, <1>4, <1>5 DEF TemplateOK

LEMMA JournalStays ==
  ASSUME JournalOK, Later, BooksOK, BooksOK', today \in Nat, today' \in Nat, today <= today',
         revived \subseteq revived',
         \A t \in Templates : Listed(t) => Listed(t)',
         \A i \in Ids', t \in Templates : i \notin Ids /\ Of(i, t)' =>
           /\ Listed(t)' /\ OnSchedule(t, periods'[i]) /\ periods'[i] <= today'
           /\ WithinEnd(t, periods[i])'
  PROVE  JournalOK'
  <1> SUFFICES ASSUME NEW i \in Ids', NEW t \in Templates, Of(i, t)'
               PROVE  /\ Listed(t)' /\ OnSchedule(t, periods'[i]) /\ periods'[i] <= today'
                      /\ WithinEnd(t, periods[i])'
    BY DEF JournalOK
  <1>1. CASE i \notin Ids
    BY <1>1
  <1>2. CASE i \in Ids
    <2>1. Of(i, t) /\ periods'[i] = periods[i]
      BY <1>2 DEF Later, Of
    <2>2. /\ Listed(t) /\ OnSchedule(t, periods[i]) /\ periods[i] <= today
          /\ WithinEnd(t, periods[i])
      BY <1>2, <2>1 DEF JournalOK
    <2>3. periods[i] \in Nat
      BY <1>2, Indices
    <2>4. periods'[i] <= today'
      BY <2>1, <2>2, <2>3
    <2>5. WithinEnd(t, periods[i])'
      BY <2>1, <2>2 DEF WithinEnd
    <2>6. QED
      BY <2>1, <2>2, <2>4, <2>5
  <1>3. QED
    BY <1>1, <1>2

LEMMA RowStays ==
  ASSUME NEW row \in Row, RowOK(row), Listed(row.id), Settled(row.id), UNCHANGED day,
         revived \subseteq revived'
  PROVE  RowOK(row)'
  <1>1. WithinEnd(row.id, row.next)'
    BY DEF RowOK, WithinEnd
  <1>2. row.next = templates'[row.id].next /\ row.done = templates'[row.id].done
    BY DEF RowOK, Settled
  <1>3. row.next <= today'
    BY DEF RowOK, today
  <1>4. QED
    BY <1>1, <1>2, <1>3 DEF RowOK

\* The rows that the runner keeps: all, or all but the first.
LEMMA RowsStay ==
  ASSUME NEW rows, rows = runner.rows, Types, RowsOK, ~At("idle"), Len(entries) <= Len(entries'), BooksOK, BooksOK',
         UNCHANGED day, revived \subseteq revived',
         \A k \in DOMAIN rows : k # 1 => Settled(rows[k].id),
         \A t \in Templates : Listed(t) => Listed(t)',
         \/ /\ runner'.rows = rows
            /\ runner'.at = "reread" \/ (~At("reread") /\ Settled(rows[1].id))
         \/ runner'.rows = Tail(rows)
  PROVE  RowsOK'
  <1>1. rows \in Seq(Row) /\ rows # << >>
    BY HeldRows
  <1>2. /\ \A k \in DOMAIN rows : rows[k] \in Row /\ Listed(rows[k].id) /\ rows[k].last <= Len(entries)
        /\ \A k \in DOMAIN rows : k # 1 \/ ~At("reread") => RowOK(rows[k])
        /\ \A j, k \in DOMAIN rows : rows[j].id = rows[k].id => j = k
    BY <1>1 DEF RowsOK
  <1>3. \A k \in DOMAIN rows : Listed(rows[k].id)' /\ rows[k].last <= Len(entries')
    <2> TAKE k \in DOMAIN rows
    <2>1. rows[k].id \in Templates /\ rows[k].last \in Nat
      BY <1>2 DEF Row
    <2>2. Listed(rows[k].id)'
      BY <1>2, <2>1
    <2>3. Len(entries) \in Nat /\ Len(entries') \in Nat
      BY DEF BooksOK
    <2>4. QED
      BY <1>2, <2>1, <2>2, <2>3
  <1>4. \A k \in DOMAIN rows : k # 1 \/ (~At("reread") /\ Settled(rows[1].id)) => RowOK(rows[k])'
    <2> SUFFICES ASSUME NEW k \in DOMAIN rows, k # 1 \/ (~At("reread") /\ Settled(rows[1].id))
                 PROVE  RowOK(rows[k])'
      OBVIOUS
    <2>1. PICK row \in Row : row = rows[k]
      BY <1>2
    <2>2. RowOK(row) /\ Listed(row.id) /\ Settled(row.id)
      BY <1>2, <2>1
    <2>3. RowOK(row)'
      BY <2>2, RowStays
    <2>4. QED
      BY <2>1, <2>3 DEF RowOK, WithinEnd
  <1>5. CASE /\ runner'.rows = rows
             /\ runner'.at = "reread" \/ (~At("reread") /\ Settled(rows[1].id))
    BY <1>2, <1>3, <1>4, <1>5 DEF RowsOK, At
  <1>6. CASE runner'.rows = Tail(rows)
    <2>1. /\ DOMAIN runner'.rows = 1 .. Len(rows) - 1 /\ Len(rows) \in Nat \ {0}
          /\ DOMAIN rows = 1 .. Len(rows)
          /\ \A k \in 1 .. Len(rows) - 1 : runner'.rows[k] = rows[k + 1]
      BY <1>1, <1>6, TailIs
    <2>2. \A k \in DOMAIN runner'.rows :
            k + 1 \in DOMAIN rows /\ k + 1 # 1 /\ runner'.rows[k] = rows[k + 1]
      BY <2>1
    <2>3. \A j, k \in DOMAIN runner'.rows : runner'.rows[j].id = runner'.rows[k].id => j = k
      <3> SUFFICES ASSUME NEW j \in DOMAIN runner'.rows, NEW k \in DOMAIN runner'.rows,
                          runner'.rows[j].id = runner'.rows[k].id
                   PROVE  j = k
        OBVIOUS
      <3>1. j + 1 = k + 1
        BY <1>2, <2>2
      <3>2. QED
        BY <2>1, <3>1
    <2>4. \A k \in DOMAIN runner'.rows :
            /\ Listed(runner.rows[k].id)' /\ runner'.rows[k].last <= Len(entries')
            /\ RowOK(runner.rows[k])'
      <3> TAKE k \in DOMAIN runner'.rows
      <3>1. PICK row \in Row : row = rows[k + 1]
        BY <1>2, <2>2
      <3>2. Listed(row.id)' /\ row.last <= Len(entries') /\ RowOK(row)'
        BY <1>3, <1>4, <2>2, <3>1
      <3>3. runner'.rows[k] = row
        BY <2>2, <3>1
      <3>4. QED
        BY <3>2, <3>3
    <2>5. QED
      BY <2>3, <2>4 DEF RowsOK
  <1>7. QED
    BY <1>5, <1>6


----------------------------------------------------------------------------------
(* The runner's steps, but for an advance. *)

RunFrame ==
  /\ plan' \in PlanRow
  /\ UNCHANGED <<usable, day, clerk, crashes, changes, revived>>

LEMMA BooksTyped == Types => BooksOK
  BY DEF Types, TypeOK, BooksOK

LEMMA BooksStep ==
  ASSUME IInv, BooksOK', Later, RunFrame, UNCHANGED templates,
         \A i \in Ids', t \in Templates : i \notin Ids /\ Of(i, t)' =>
           /\ Listed(t)' /\ OnSchedule(t, periods'[i]) /\ periods'[i] <= today'
           /\ WithinEnd(t, periods[i])',
         runner' \in RunnerRow, runner'.at # "idle" => runner'.rows # << >>,
         runner'.at = "idle" => runner' = Resting,
         runner'.at = "post" => entries'[runner'.entry].state = "draft",
         RowsOK', HeadOK'
  PROVE  IInv'
  <1>1. Types /\ JournalOK /\ BooksOK /\ \A t \in Templates : TemplateOK(t)
    BY BooksTyped DEF IInv
  <1>2. /\ templates \in [Templates -> Template] /\ today \in Nat
        /\ UNCHANGED <<usable, day, clerk, crashes, changes, revived>> /\ plan' \in PlanRow
    BY <1>1, TodayIs DEF Types, TypeOK, RunFrame
  <1>3. \A t \in Templates : Listed(t) => Listed(t)'
    BY DEF Listed
  <1>4. Types'
    BY <1>1, <1>2, <1>3, RunTypes
  <1>5. \A t \in Templates : TemplateOK(t)'
    BY <1>1, <1>2, TemplateStays
  <1>6. JournalOK'
    <2>1. today' = today
      BY <1>2 DEF today
    <2>2. today' \in Nat /\ today <= today'
      BY <1>2, <2>1
    <2>3. QED
      BY <1>1, <1>2, <1>3, <2>2, JournalStays
  <1>7. QED
    BY <1>4, <1>5, <1>6 DEF IInv

LEMMA RunnerStep ==
  ASSUME IInv, ~At("idle"), NEW rows, rows = runner.rows, BooksOK', Later, RunFrame,
         UNCHANGED templates,
         \A i \in Ids', t \in Templates : i \notin Ids /\ Of(i, t)' =>
           /\ Listed(t)' /\ OnSchedule(t, periods'[i]) /\ periods'[i] <= today'
           /\ WithinEnd(t, periods[i])',
         runner' \in RunnerRow, runner'.at # "idle" => runner'.rows # << >>,
         runner'.at = "idle" => runner' = Resting,
         runner'.at = "post" => entries'[runner'.entry].state = "draft",
         \/ runner'.rows = rows /\ (At("reread") => runner'.at = "reread")
         \/ runner'.rows = Tail(rows),
         HeadOK'
  PROVE  IInv'
  <1>1. Types /\ RowsOK /\ BooksOK /\ UNCHANGED <<day, revived>>
    BY BooksTyped DEF IInv, RunFrame
  <1>2. \A t : (Listed(t) => Listed(t)') /\ Settled(t)
    BY DEF Listed, Settled
  <1>3. Len(entries) <= Len(entries')
    BY DEF Later
  <1>4. RowsOK'
    BY <1>1, <1>2, <1>3, RowsStay
  <1>5. QED
    BY <1>4, BooksStep

LEMMA GotoIs ==
  ASSUME Types, NEW rows, rows = runner.rows,
         NEW where \in {"reverse", "create", "post", "advance", "reread"}, Goto(where),
         ~At("idle")
  PROVE  /\ runner' \in RunnerRow /\ runner'.at = where /\ runner'.rows = rows
         /\ runner'.turns = runner.turns /\ runner'.entry = runner.entry
         /\ runner'.rows # << >>
  <1>1. runner \in RunnerRow /\ runner.rows # << >>
    BY DEF Types
  <1>2. runner' = [runner EXCEPT !.at = where]
    BY DEF Goto
  <1>3. QED
    BY <1>1, <1>2 DEF RunnerRow

LEMMA SkipIs ==
  ASSUME Types, ~At("idle"), NEW rows, rows = runner.rows, Skip
  PROVE  /\ runner' \in RunnerRow /\ runner'.rows = Tail(rows)
         /\ runner'.at # "idle" => runner'.rows # << >>
         /\ runner'.at = "idle" => runner' = Resting
         /\ runner'.at \in {"idle", "reverse", "create"}
         /\ runner'.at = "reverse" => runner'.rows[1].last # 0
         /\ runner'.at # "idle" => runner'.turns = 0
         /\ HeadOK'
  <1>1. rows \in Seq(Row) /\ rows # << >>
    BY HeldRows
  <1>2. CASE Len(rows) = 1
    <2>1. runner' = Resting
      BY <1>2 DEF Skip
    <2>2. Tail(rows) = << >>
      <3>1. Tail(rows) \in Seq(Row) /\ Len(Tail(rows)) = 0
        BY <1>1, <1>2, HeadTailProperties
      <3>2. QED
        BY <3>1, EmptySeq
    <2>3. Resting \in RunnerRow /\ Resting.rows = << >> /\ Resting.at = "idle"
      BY DEF Resting, RunnerRow
    <2>4. HeadOK'
      BY <2>1, <2>3 DEF HeadOK, At
    <2>5. QED
      BY <2>1, <2>2, <2>3, <2>4
  <1>3. CASE Len(rows) # 1
    <2>1. Tail(rows) \in Seq(Row) /\ Tail(rows) # << >>
      BY <1>1, <1>3, TailIs
    <2>2. runner' = Begin(Tail(rows), 0)
      BY <1>3 DEF Skip
    <2>3. /\ runner' \in RunnerRow /\ runner'.rows = Tail(rows) /\ runner'.turns = 0
          /\ runner'.at \in {"reverse", "create"}
          /\ runner'.at = "reverse" => runner'.rows[1].last # 0
      <3>1. PICK b : b = runner'
        OBVIOUS
      <3>2. PICK tail \in Seq(Row) : tail = Tail(rows) /\ tail # << >>
        BY <2>1
      <3>3. Begin(tail, 0) = b /\ 0 \in Nat
        BY <2>2, <3>1, <3>2
      <3>4. /\ b \in RunnerRow /\ b.rows = tail /\ b.turns = 0
            /\ b.at \in {"reverse", "create"} /\ (b.at = "reverse" => tail[1].last # 0)
        BY <3>2, <3>3 DEF Begin, Resting, RunnerRow
      <3>5. QED
        BY <3>1, <3>2, <3>4
    <2>4. Head(runner'.rows) = runner'.rows[1]
      BY <2>1, <2>3
    <2>5. HeadOK'
      BY <2>3, <2>4 DEF HeadOK, At, Current
    <2>6. QED
      BY <2>1, <2>3, <2>5
  <1>4. QED
    BY <1>2, <1>3

\* What the runner has in hand.
LEMMA HeadIs ==
  ASSUME IInv, ~At("idle")
  PROVE  /\ Current \in Row /\ Current.id \in Templates /\ Listed(Current.id)
         /\ Current.last \in Nat /\ Current.last <= Len(entries)
         /\ Current = runner.rows[1] /\ runner.rows \in Seq(Row) /\ runner.rows # << >>
         /\ ~At("reread") => RowOK(Current) /\ OnSchedule(Current.id, Current.next)
  <1>1. /\ Current = runner.rows[1] /\ Current \in Row /\ Current.id \in Templates
        /\ runner.rows \in Seq(Row) /\ runner.rows # << >> /\ 1 \in DOMAIN runner.rows
    BY HeldRows DEF IInv
  <1>2. Listed(Current.id) /\ Current.last <= Len(entries) /\ (~At("reread") => RowOK(Current))
    BY <1>1 DEF IInv, RowsOK
  <1>3. Current.last \in Nat
    BY <1>1 DEF Row
  <1>4. ~At("reread") => OnSchedule(Current.id, Current.next)
    <2>1. OnSchedule(Current.id, templates[Current.id].next)
      BY <1>1, <1>2 DEF IInv, TemplateOK
    <2>2. QED
      BY <1>2, <2>1 DEF RowOK
  <1>5. QED
    BY <1>1, <1>2, <1>3, <1>4

LEMMA ReversePreviousKeeps ==
  ASSUME IInv, RunFrame, ReversePrevious
  PROVE  IInv'
  <1>1. Types /\ BooksOK /\ ~At("idle") /\ runner.at = "reverse"
    BY BooksTyped DEF IInv, ReversePrevious, At
  <1>2. PICK last : last = Current.last
    OBVIOUS
  <1>3. last \in Ids
    <2>1. last \in Nat /\ last <= Len(entries)
      BY <1>1, <1>2, HeadIs
    <2>2. last # 0
      BY <1>1, <1>2 DEF IInv, HeadOK, At
    <2>3. QED
      BY <1>1, <2>1, <2>2, Indices
  <1>4. PICK rows : rows = runner.rows
    OBVIOUS
  <1>5. /\ runner' \in RunnerRow /\ runner'.at = "create" /\ runner'.rows = rows
        /\ runner'.rows # << >>
    <2>1. Goto("create")
      BY DEF ReversePrevious
    <2>2. QED
      BY <1>1, <1>4, <2>1, GotoIs
  <1>6. HeadOK'
    BY <1>5 DEF HeadOK, At
  <1>7. /\ BooksOK' /\ Later
        /\ \A r \in Ids' : r \in Ids \/ entries'[r].source # "recurring"
    <2>1. CASE HasReversal(Current.last)
      <3>1. UNCHANGED books
        BY <2>1 DEF ReversePrevious, books
      <3>2. QED
        BY <1>1, <3>1, NothingBooked
    <2>2. CASE ~HasReversal(Current.last)
      <3>1. InsertReversal(last) /\ periods' = Append(periods, periods[last]) /\ UNCHANGED drafts
        BY <1>2, <2>2 DEF ReversePrevious
      <3>2. QED
        BY <1>1, <1>3, <3>1, ReversalBooked
    <2>3. QED
      BY <2>1, <2>2
  <1>8. \A i \in Ids', t \in Templates : ~(i \notin Ids /\ Of(i, t)')
    BY <1>7 DEF Of
  <1>9. UNCHANGED templates /\ ~At("reread") /\ runner'.at # "idle" /\ runner'.at # "post"
    BY <1>1, <1>5 DEF ReversePrevious, At
  <1>10. QED
    BY <1>1, <1>4, <1>5, <1>6, <1>7, <1>8, <1>9, RunnerStep

LEMMA CreateEntryKeeps ==
  ASSUME IInv, RunFrame, CreateEntry
  PROVE  IInv'
  <1>1. /\ Types /\ BooksOK /\ ~At("idle") /\ ~At("reread") /\ runner.at = "create"
        /\ ~Invoicing(Current.id) /\ UNCHANGED <<templates, drafts>>
    BY BooksTyped DEF IInv, CreateEntry, At
  <1>2. PICK row \in Row : row = Current
    BY <1>1, HeadIs
  <1>3. row.id \in Templates /\ row.next \in Nat /\ Listed(row.id) /\ RowOK(row) /\ OnSchedule(row.id, row.next)
    BY <1>1, <1>2, HeadIs DEF Row
  <1>4. PICK rows, n : rows = runner.rows /\ n = LastId + 1
    OBVIOUS
  <1>5. PICK l \in PostingLists : InsertDraft(l, "recurring", row.id)
    <2>1. Final(row.id) \in PostingLists /\ Normal(row.id) \in PostingLists
      BY <1>3, RecurringAssumption
    <2>2. QED
      BY <1>2, <2>1 DEF CreateEntry
  <1>6. periods' = Append(periods, row.next)
    BY <1>2 DEF CreateEntry
  <1>7. /\ BooksOK' /\ Later
        /\ n \in Ids' /\ IsDraft(n)' /\ Of(n, row.id)' /\ periods'[n] = row.next
        /\ \A r \in Ids' : r \in Ids \/ r = n
    <2>1. PICK t \in Templates, date \in Nat : t = row.id /\ date = row.next
      BY <1>3
    <2>2. InsertDraft(l, "recurring", t) /\ periods' = Append(periods, date) /\ UNCHANGED drafts
      BY <1>1, <1>5, <1>6, <2>1
    <2>3. /\ BooksOK' /\ Later
          /\ n \in Ids' /\ IsDraft(n)' /\ Of(n, t)' /\ periods'[n] = date
          /\ \A r \in Ids' : r \in Ids \/ r = n
      BY <1>1, <1>4, <2>2, DraftBooked
    <2>4. QED
      BY <2>1, <2>3
  <1>8. n \in Nat
    BY <1>1, <1>4, Indices DEF LastId
  <1>9. /\ runner' \in RunnerRow /\ runner'.at = "post" /\ runner'.rows = rows /\ runner'.entry = n
        /\ runner'.rows # << >>
    <2>1. runner \in RunnerRow /\ runner.rows # << >>
      BY <1>1 DEF Types
    <2>2. runner' = [runner EXCEPT !.at = "post", !.entry = n]
      BY <1>4 DEF CreateEntry
    <2>3. QED
      BY <1>4, <1>8, <2>1, <2>2 DEF RunnerRow
  <1>10. Current' = row
    BY <1>2, <1>4, <1>9 DEF Current
  <1>11. HeadOK'
    BY <1>1, <1>2, <1>7, <1>9, <1>10 DEF HeadOK, At
  <1>12. \A i \in Ids', t \in Templates : i \notin Ids /\ Of(i, t)' =>
           /\ Listed(t)' /\ OnSchedule(t, periods'[i]) /\ periods'[i] <= today'
           /\ WithinEnd(t, periods[i])'
    <2> SUFFICES ASSUME NEW i \in Ids', NEW t \in Templates, i \notin Ids, Of(i, t)'
                 PROVE  /\ Listed(t)' /\ OnSchedule(t, periods'[i]) /\ periods'[i] <= today'
                        /\ WithinEnd(t, periods[i])'
      OBVIOUS
    <2>1. i = n /\ t = row.id /\ periods'[i] = row.next
      BY <1>7 DEF Of
    <2>2. Listed(t)'
      BY <1>1, <1>3, <2>1 DEF Listed
    <2>3. row.next <= today'
      BY <1>3 DEF RowOK, today, RunFrame
    <2>4. WithinEnd(t, periods[i])'
      BY <1>3, <2>1 DEF RowOK, WithinEnd, RunFrame
    <2>5. QED
      BY <1>3, <2>1, <2>2, <2>3, <2>4
  <1>13. entries'[runner'.entry].state = "draft"
    BY <1>7, <1>9 DEF IsDraft
  <1>14. QED
    BY <1>1, <1>4, <1>7, <1>9, <1>11, <1>12, <1>13, RunnerStep

LEMMA PostEntryKeeps ==
  ASSUME IInv, RunFrame, PostEntry
  PROVE  IInv'
  <1>1. /\ Types /\ BooksOK /\ ~At("idle") /\ runner.at = "post"
        /\ UNCHANGED <<templates, periods, drafts>>
    BY BooksTyped DEF IInv, PostEntry, At
  <1>2. PICK row \in Row : row = Current
    BY <1>1, HeadIs
  <1>3. PICK rows, n : rows = runner.rows /\ n = runner.entry
    OBVIOUS
  <1>4. /\ ~Invoicing(row.id) /\ n \in Ids /\ Of(n, row.id) /\ periods[n] = row.next
    BY <1>1, <1>2, <1>3 DEF IInv, HeadOK, At
  <1>5. MarkPosted(n)
    BY <1>3 DEF PostEntry
  <1>6. BooksOK' /\ Later /\ Ids' = Ids /\ IsPosted(n)'
    BY <1>1, <1>4, <1>5, PostingBooked
  <1>7. /\ runner' \in RunnerRow /\ runner'.at = "advance" /\ runner'.rows = rows
        /\ runner'.entry = n /\ runner'.rows # << >>
    <2>1. Goto("advance")
      BY DEF PostEntry
    <2>2. QED
      BY <1>1, <1>3, <2>1, GotoIs
  <1>8. Current' = row
    BY <1>2, <1>3, <1>7 DEF Current
  <1>9. Booked(row.id, row.next)'
    <2>1. n \in Ids' /\ Of(n, row.id)' /\ periods'[n] = row.next
      BY <1>4, <1>6 DEF Later, Of
    <2>2. QED
      BY <1>4, <1>6, <2>1 DEF Booked, Posted, Generated, Of
  <1>10. n <= Len(entries')
    <2>1. Ids' = 1 .. Len(entries') /\ Len(entries') \in Nat
      BY <1>6 DEF BooksOK, Ids
    <2>2. QED
      BY <1>4, <1>6, <2>1
  <1>11. HeadOK'
    BY <1>7, <1>8, <1>9, <1>10 DEF HeadOK, At
  <1>12. ~At("reread") /\ runner'.at # "idle" /\ runner'.at # "post" /\ UNCHANGED templates
    BY <1>1, <1>7 DEF At
  <1>13. \A i \in Ids', t \in Templates : ~(i \notin Ids /\ Of(i, t)')
    BY <1>6
  <1>14. QED
    BY <1>1, <1>3, <1>6, <1>7, <1>11, <1>12, <1>13, RunnerStep

LEMMA CreateInvoiceKeeps ==
  ASSUME IInv, RunFrame, CreateInvoice
  PROVE  IInv'
  <1>1. /\ Types /\ BooksOK /\ ~At("idle") /\ runner.at = "create"
        /\ Invoicing(Current.id) /\ UNCHANGED <<templates, entries, periods>>
    BY BooksTyped DEF IInv, CreateInvoice, At
  <1>2. PICK row \in Row : row = Current
    BY <1>1, HeadIs
  <1>3. row.id \in Templates /\ row.next \in Nat
    BY <1>1, <1>2, HeadIs DEF Row
  <1>4. PICK rows : rows = runner.rows
    OBVIOUS
  <1>5. drafts' = Append(drafts, <<row.id, row.next>>)
    BY <1>2 DEF CreateInvoice
  <1>6. BooksOK' /\ Later /\ Ids' = Ids /\ Booked(row.id, row.next)'
    BY <1>1, <1>2, <1>3, <1>5, InvoiceBooked
  <1>7. /\ runner' \in RunnerRow /\ runner'.at = "advance" /\ runner'.rows = rows
        /\ runner'.entry = 0 /\ runner'.rows # << >>
    <2>1. runner \in RunnerRow /\ runner.rows # << >>
      BY <1>1 DEF Types
    <2>2. runner' = [runner EXCEPT !.at = "advance", !.entry = 0]
      BY DEF CreateInvoice
    <2>3. QED
      BY <1>4, <2>1, <2>2 DEF RunnerRow
  <1>8. Current' = row
    BY <1>2, <1>4, <1>7 DEF Current
  <1>9. 0 <= Len(entries')
    BY <1>6, Indices
  <1>10. HeadOK'
    BY <1>6, <1>7, <1>8, <1>9 DEF HeadOK, At
  <1>11. ~At("reread") /\ runner'.at # "idle" /\ runner'.at # "post" /\ UNCHANGED templates
    BY <1>1, <1>7 DEF At
  <1>12. \A i \in Ids', t \in Templates : ~(i \notin Ids /\ Of(i, t)')
    BY <1>6
  <1>13. QED
    BY <1>1, <1>4, <1>6, <1>7, <1>10, <1>11, <1>12, RunnerStep

LEMMA FailKeeps ==
  ASSUME IInv, RunFrame, Fail
  PROVE  IInv'
  <1>1. Types /\ BooksOK /\ ~At("idle") /\ UNCHANGED templates /\ UNCHANGED books /\ Skip
    BY BooksTyped DEF IInv, Fail, At
  <1>2. BooksOK' /\ Later /\ Ids' = Ids
    BY <1>1, NothingBooked
  <1>3. PICK rows : rows = runner.rows
    OBVIOUS
  <1>4. QED
    BY <1>1, <1>2, <1>3, SkipIs, RunnerStep


\* The next round of the loop.
LEMMA RereadKeeps ==
  ASSUME IInv, RunFrame, Reread
  PROVE  IInv'
  <1>1. /\ Types /\ BooksOK /\ ~At("idle") /\ UNCHANGED templates /\ UNCHANGED books
        /\ Continue(RowOf(Current.id)) /\ UNCHANGED <<day, revived>>
    BY BooksTyped DEF IInv, Reread, At, RunFrame
  <1>2. BooksOK' /\ Later /\ Ids' = Ids
    BY <1>1, NothingBooked
  <1>3. PICK rows, t : rows = runner.rows /\ t = Current.id
    OBVIOUS
  <1>4. CASE Skip
    BY <1>1, <1>2, <1>3, <1>4, SkipIs, RunnerStep
  <1>5. CASE ~Skip
    <2>1. PICK row : row = RowOf(t)
      OBVIOUS
    <2>2. rows \in Seq(Row) /\ rows # << >> /\ t \in Templates /\ Listed(t) /\ t = rows[1].id
      BY <1>1, <1>3, HeadIs
    <2>3. row \in Row
      BY <1>1, <2>1, <2>2, RowOfTypes
    <2>4. PICK new : new = <<row>> \o Tail(rows)
      OBVIOUS
    <2>5. IsDue(row, today) /\ runner' = Begin(new, runner.turns + 1)
      BY <1>1, <1>3, <1>5, <2>1, <2>4 DEF Continue
    <2>6. /\ new \in Seq(Row) /\ new # << >> /\ new[1] = row /\ Len(new) = Len(rows)
          /\ DOMAIN new = DOMAIN rows /\ \A k \in DOMAIN rows : k # 1 => new[k] = rows[k]
      <3>1. /\ Len(rows) \in Nat \ {0} /\ DOMAIN rows = 1 .. Len(rows)
            /\ Tail(rows) \in Seq(Row) /\ Len(Tail(rows)) = Len(rows) - 1
            /\ \A k \in 1 .. Len(rows) - 1 : Tail(rows)[k] = rows[k + 1]
        BY <2>2, HeadTailProperties
      <3>2. PICK tail \in Seq(Row) : tail = Tail(rows)
        BY <3>1
      <3>3. new \in Seq(Row) /\ Len(new) = Len(rows) /\ new[1] = row
        BY <2>3, <2>4, <3>1, <3>2
      <3>4. \A k \in DOMAIN rows : k # 1 => new[k] = rows[k]
        <4> SUFFICES ASSUME NEW k \in 1 .. Len(rows), k # 1
                     PROVE  new[k] = rows[k]
          BY <3>1
        <4>1. new[k] = tail[k - 1]
          BY <2>3, <2>4, <3>1, <3>2
        <4>2. tail[k - 1] = rows[k]
          BY <3>1, <3>2
        <4>3. QED
          BY <4>1, <4>2
      <3>5. DOMAIN new = DOMAIN rows
        BY <3>1, <3>3
      <3>6. new # << >>
        BY <3>1, <3>5
      <3>7. QED
        BY <3>3, <3>4, <3>5, <3>6
    <2>7. runner.turns + 1 \in Nat
      BY <1>1 DEF Types, RunnerRow
    <2>8. /\ runner' \in RunnerRow /\ runner'.rows = new /\ runner'.at \in {"reverse", "create"}
          /\ runner'.at = "reverse" => new[1].last # 0
      BY <2>5, <2>6, <2>7 DEF Begin, Resting, RunnerRow
    <2>9. HeadOK'
      <3>1. Current' = new[1]
        BY <2>6, <2>8 DEF Current
      <3>2. QED
        BY <2>8, <3>1 DEF HeadOK, At
    <2>10. /\ row.id = t /\ row.status = templates[t].status /\ row.next = templates[t].next
           /\ row.done = templates[t].done /\ row.last = templates[t].last
      BY <2>1 DEF RowOf
    <2>11. RowOK(row)' /\ Listed(row.id)' /\ row.last <= Len(entries')
      <3>1. TemplateOK(t)
        BY <2>2 DEF IInv
      <3>2. row.status = "active" /\ row.next <= today'
        BY <1>1, <2>5 DEF IsDue, today
      <3>3. WithinEnd(t, row.next)
        BY <2>10, <3>1, <3>2 DEF TemplateOK
      <3>4. WithinEnd(row.id, row.next)'
        BY <1>1, <2>10, <3>3 DEF WithinEnd
      <3>5. Listed(row.id)' /\ row.last <= Len(entries')
        BY <1>1, <2>2, <2>10, <3>1 DEF Listed, TemplateOK, books
      <3>6. QED
        BY <1>1, <2>10, <3>2, <3>4, <3>5 DEF RowOK
    <2>12. /\ \A k \in DOMAIN rows : k # 1 => RowOK(rows[k])' /\ Listed(rows[k].id)' /\ rows[k].last <= Len(entries')
           /\ \A j, k \in DOMAIN rows : rows[j].id = rows[k].id => j = k
      <3>1. RowsOK
        BY DEF IInv
      <3>2. /\ \A k \in DOMAIN rows : Listed(rows[k].id) /\ rows[k].last <= Len(entries)
            /\ \A k \in DOMAIN rows : k # 1 => RowOK(rows[k])
            /\ \A j, k \in DOMAIN rows : rows[j].id = rows[k].id => j = k
        BY <1>3, <3>1 DEF RowsOK
      <3>3. ASSUME NEW k \in DOMAIN rows, k # 1
            PROVE  RowOK(rows[k])' /\ Listed(rows[k].id)' /\ rows[k].last <= Len(entries')
        <4>1. RowOK(rows[k])'
          BY <1>1, <3>2, <3>3 DEF RowOK, WithinEnd, today
        <4>2. Listed(rows[k].id)' /\ rows[k].last <= Len(entries')
          BY <1>1, <3>2 DEF Listed, books
        <4>3. QED
          BY <4>1, <4>2
      <3>4. QED
        BY <3>2, <3>3
    <2>13. \A k \in DOMAIN new : RowOK(new[k])' /\ Listed(new[k].id)' /\ new[k].last <= Len(entries')
      BY <2>6, <2>11, <2>12
    <2>14. \A j, k \in DOMAIN new : new[j].id = new[k].id => j = k
      <3>1. \A k \in DOMAIN new : new[k].id = rows[k].id
        BY <2>2, <2>6, <2>10
      <3>2. QED
        BY <2>6, <2>12, <3>1
    <2>15. RowsOK'
      BY <2>8, <2>13, <2>14 DEF RowsOK
    <2>16. /\ runner'.at # "idle" /\ runner'.at # "post" /\ runner'.rows # << >>
           /\ \A i \in Ids', u \in Templates : ~(i \notin Ids /\ Of(i, u)')
      BY <1>2, <2>6, <2>8
    <2>17. QED
      BY <1>1, <1>2, <2>8, <2>9, <2>15, <2>16, BooksStep
  <1>6. QED
    BY <1>4, <1>5


\* What a preview lists of a template that stands at month j.
LEMMA PreviewIs ==
  ASSUME NEW row \in Row, NEW t \in Templates, t = row.id, Sound(t), NEW j \in Nat,
         row.next = DateAt(t, j), NEW p
  PROVE  p \in Preview(row) <=>
           \E k \in 0 .. LoopCap - 1 :
             /\ p = <<t, DateAt(t, j + k * Months(t))>>
             /\ DateAt(t, j + k * Months(t)) <= today
             /\ k = 0 \/ ~Completes(t, row.done + k, DateAt(t, j + k * Months(t)))
  <1> DEFINE date(k) == AddPeriod(row.next, k * Months(row.id), Day(row.id))
  <1>1. \A k \in 0 .. LoopCap - 1 : date(k) = DateAt(t, j + k * Months(t))
    <2> TAKE k \in 0 .. LoopCap - 1
    <2>1. k * Months(t) \in Nat
      BY MonthsAre
    <2>2. QED
      BY <2>1, NextDate
  <1>2. p \in Preview(row) <=>
          \E k \in 0 .. LoopCap - 1 :
            /\ p = <<t, date(k)>>
            /\ date(k) <= today
            /\ k = 0 \/ ~Completes(t, row.done + k, date(k))
    BY DEF Preview
  <1> HIDE DEF date
  <1>3. QED
    BY <1>1, <1>2

LEMMA PreviewTypes ==
  ASSUME NEW row \in Row, Sound(row.id), OnSchedule(row.id, row.next)
  PROVE  Preview(row) \subseteq Templates \X Nat
  <1> SUFFICES ASSUME NEW p \in Preview(row)
               PROVE  p \in Templates \X Nat
    OBVIOUS
  <1>1. PICK t \in Templates : t = row.id
    BY DEF Row
  <1>2. PICK j \in Nat : row.next = DateAt(t, j)
    BY <1>1 DEF OnSchedule
  <1>3. PICK k \in 0 .. LoopCap - 1 : p = <<t, DateAt(t, j + k * Months(t))>>
    BY <1>1, <1>2, PreviewIs
  <1>4. j + k * Months(t) \in Nat
    BY <1>3, MonthsAre
  <1>5. DateAt(t, j + k * Months(t)) \in Nat
    BY <1>1, <1>4, DateAtParts
  <1>6. QED
    BY <1>3, <1>5

LEMMA RunDueKeeps ==
  ASSUME IInv, UNCHANGED <<usable, day, clerk, crashes, changes, revived>>, RunDue
  PROVE  IInv'
  <1>1. /\ Types /\ BooksOK /\ UNCHANGED templates /\ UNCHANGED books
        /\ \A t \in Templates : TemplateOK(t)
    BY BooksTyped DEF IInv, RunDue
  <1>2. BooksOK' /\ Later /\ Ids' = Ids
    BY <1>1, NothingBooked
  <1>3. PICK ids \in [1 .. Cardinality(Due) -> Due] :
          /\ DueInOrder(ids)
          /\ runner' = Begin(DueRows(ids), 0)
          /\ plan' = [runs |-> UNION {Preview(DueRows(ids)[k]) : k \in DOMAIN ids}, changed |-> {}]
    BY DEF RunDue
  <1>4. PICK rows : rows = DueRows(ids)
    OBVIOUS
  <1>5. /\ rows \in Seq(Row) /\ rows # << >> /\ DOMAIN rows = DOMAIN ids
        /\ \A k \in DOMAIN ids : ids[k] \in Due /\ rows[k] = [RowOf(ids[k]) EXCEPT !.final = FALSE]
        /\ \A j, k \in DOMAIN ids : ids[j] = ids[k] => j = k
    <2>1. Due # {}
      BY DEF RunDue
    <2>2. QED
      BY <1>1, <1>3, <1>4, <2>1, DueRowsAre
  <1>6. \A k \in DOMAIN rows :
          LET t == ids[k]
              row == rows[k]
          IN  /\ t \in Templates /\ Listed(t) /\ IsDue(templates[t], today)
              /\ row \in Row /\ row.id = t /\ row.status = "active"
              /\ row.next = templates[t].next /\ row.done = templates[t].done
              /\ row.last = templates[t].last
    <2> TAKE k \in DOMAIN rows
    <2>1. ids[k] \in Templates /\ IsDue(templates[ids[k]], today) /\ Listed(ids[k])
      BY <1>5 DEF Due, IsDue, Listed
    <2>2. rows[k] \in Row
      <3>1. rows \in Seq(Row)
        BY <1>5
      <3>2. QED
        BY <3>1
    <2>3. rows[k] = [RowOf(ids[k]) EXCEPT !.final = FALSE]
      BY <1>5
    <2>4. /\ rows[k].id = ids[k] /\ rows[k].status = templates[ids[k]].status
          /\ rows[k].next = templates[ids[k]].next /\ rows[k].done = templates[ids[k]].done
          /\ rows[k].last = templates[ids[k]].last
      BY <2>3 DEF RowOf
    <2>5. QED
      BY <2>1, <2>2, <2>4 DEF IsDue
  <1>7. \A k \in DOMAIN rows : RowOK(rows[k]) /\ rows[k].last <= Len(entries) /\ Listed(rows[k].id)
    <2> TAKE k \in DOMAIN rows
    <2>1. PICK t \in Templates : t = ids[k] /\ Listed(t) /\ IsDue(templates[t], today) /\ TemplateOK(t)
      BY <1>1, <1>6
    <2>2. WithinEnd(t, templates[t].next) /\ templates[t].last <= Len(entries)
      BY <2>1 DEF IsDue, TemplateOK
    <2>3. QED
      BY <1>6, <2>1, <2>2 DEF RowOK, IsDue
  <1>8. /\ runner' \in RunnerRow /\ runner'.rows = rows /\ runner'.at \in {"reverse", "create"}
        /\ runner'.at = "reverse" => rows[1].last # 0
    BY <1>3, <1>4, <1>5 DEF Begin, Resting, RunnerRow
  <1>9. HeadOK'
    <2>1. Current' = rows[1]
      BY <1>5, <1>8 DEF Current
    <2>2. QED
      BY <1>8, <2>1 DEF HeadOK, At
  <1>10. RowsOK'
    <2>1. \A k \in DOMAIN rows : RowOK(rows[k])' /\ rows[k].last <= Len(entries') /\ Listed(rows[k].id)'
      <3> TAKE k \in DOMAIN rows
      <3>1. RowOK(rows[k])'
        BY <1>1, <1>7 DEF RowOK, WithinEnd, today
      <3>2. rows[k].last <= Len(entries') /\ Listed(rows[k].id)'
        BY <1>1, <1>7 DEF Listed, books
      <3>3. QED
        BY <3>1, <3>2
    <2>2. \A j, k \in DOMAIN rows : rows[j].id = rows[k].id => j = k
      BY <1>5, <1>6
    <2>3. QED
      BY <1>8, <2>1, <2>2 DEF RowsOK
  <1>11. plan' \in PlanRow
    <2>1. \A k \in DOMAIN ids : Preview(rows[k]) \subseteq Templates \X Nat
      <3> TAKE k \in DOMAIN ids
      <3>1. /\ rows[k] \in Row /\ rows[k].id \in Templates /\ Listed(rows[k].id)
            /\ rows[k].next = templates[rows[k].id].next
        BY <1>5, <1>6
      <3>2. Sound(rows[k].id) /\ OnSchedule(rows[k].id, rows[k].next)
        BY <1>1, <3>1 DEF TemplateOK
      <3>3. QED
        BY <3>1, <3>2, PreviewTypes
    <2>2. UNION {Preview(rows[k]) : k \in DOMAIN ids} \subseteq Templates \X Nat
      BY <2>1
    <2>3. QED
      BY <1>3, <1>4, <2>2 DEF PlanRow
  <1>12. RunFrame
    BY <1>11 DEF RunFrame
  <1>13. /\ runner'.at # "idle" /\ runner'.at # "post" /\ runner'.rows # << >>
         /\ \A i \in Ids', u \in Templates : ~(i \notin Ids /\ Of(i, u)')
    BY <1>2, <1>5, <1>8
  <1>14. QED
    BY <1>1, <1>2, <1>8, <1>9, <1>10, <1>12, <1>13, BooksStep

LEMMA CrashKeeps ==
  ASSUME IInv, Crash
  PROVE  IInv'
  <1>1. /\ Types /\ BooksOK /\ UNCHANGED <<books, templates, usable, day, clerk, changes, revived>>
        /\ runner' = Resting /\ plan' = NoPlan
    BY BooksTyped DEF IInv, Crash
  <1>2. BooksOK' /\ Later /\ Ids' = Ids
    BY <1>1, NothingBooked
  <1>3. runner' \in RunnerRow /\ runner'.at = "idle" /\ runner'.rows = << >> /\ plan' \in PlanRow
    BY <1>1 DEF Resting, RunnerRow, NoPlan, PlanRow
  <1>4. HeadOK' /\ RowsOK'
    BY <1>3 DEF HeadOK, RowsOK, At
  <1>5. Types'
    <2>1. crashes' \in 0 .. MaxCrashes
      <3>1. crashes \in 0 .. MaxCrashes /\ crashes' = crashes + 1 /\ crashes < MaxCrashes
        BY <1>1 DEF Types, TypeOK, Crash
      <3>2. MaxCrashes \in Nat
        BY RecurringAssumption
      <3>3. QED
        BY <3>1, <3>2
    <2>2. TypeOK'
      <3>1. TypeOK
        BY <1>1 DEF Types
      <3>2. plan'.runs \subseteq Templates \X Nat /\ plan'.changed = {}
        BY <1>1 DEF NoPlan
      <3>3. runner'.at = "idle" /\ runner' = Resting /\ runner'.rows \in Seq(Row)
        BY <1>1, <1>3
      <3>4. QED
        BY <1>1, <2>1, <3>1, <3>2, <3>3 DEF TypeOK, books
    <2>3. clerk' \in ClerkRow /\ (clerk'.op # "none" => clerk'.id \in Templates)
      BY <1>1 DEF Types
    <2>4. QED
      BY <1>3, <2>2, <2>3 DEF Types, At
  <1>6. \A t \in Templates : TemplateOK(t)'
    <2>1. templates \in [Templates -> Template]
      BY <1>1 DEF Types, TypeOK
    <2>2. \A t \in Templates : TemplateOK(t)
      BY DEF IInv
    <2>3. QED
      BY <1>1, <1>2, <2>1, <2>2, TemplateStays
  <1>7. JournalOK'
    <2>1. today \in Nat /\ today' = today
      BY <1>1, TodayIs DEF Types, TypeOK, today
    <2>2. today' \in Nat /\ today <= today' /\ JournalOK
      BY <2>1 DEF IInv
    <2>3. \A i \in Ids', t \in Templates : ~(i \notin Ids /\ Of(i, t)')
      BY <1>2
    <2>4. \A t \in Templates : Listed(t) => Listed(t)'
      BY <1>1 DEF Listed
    <2>5. QED
      BY <1>1, <1>2, <2>1, <2>2, <2>3, <2>4, JournalStays
  <1>8. QED
    BY <1>4, <1>5, <1>6, <1>7 DEF IInv


\* The row is written back one period on, with the status it was read with.
LEMMA AdvanceKeeps ==
  ASSUME IInv, RunFrame, Advance
  PROVE  IInv'
  <1>1. /\ Types /\ BooksOK /\ ~At("idle") /\ ~At("reread") /\ runner.at = "advance"
        /\ UNCHANGED books /\ UNCHANGED <<usable, day, clerk, crashes, changes, revived>>
    BY BooksTyped DEF IInv, Advance, At, RunFrame
  <1>2. BooksOK' /\ Later /\ Ids' = Ids
    BY <1>1, NothingBooked
  <1>3. PICK rows, t, row, done, next, entry :
          /\ rows = runner.rows /\ row = Current /\ t = row.id /\ entry = runner.entry
          /\ done = row.done + 1 /\ next = AddPeriod(row.next, Months(t), Day(t))
    OBVIOUS
  <1>4. /\ rows \in Seq(Row) /\ row \in Row /\ t \in Templates /\ Listed(t) /\ row = rows[1]
        /\ RowOK(row) /\ TemplateOK(t)
    BY <1>1, <1>3, HeadIs DEF IInv
  <1>5. PICK status : status = IF Completes(t, done, next) THEN "completed" ELSE "active"
    OBVIOUS
  <1>6. templates' = [templates EXCEPT ![t] = [@ EXCEPT !.next = next, !.last = entry, !.done = done,
                                                        !.status = status]]
    BY <1>3, <1>4, <1>5 DEF Advance, RowOK
  <1>7. PICK old \in Template : old = templates[t]
    BY <1>1, <1>4 DEF Types, TypeOK
  <1>8. PICK j \in Nat : Scheduled(t, j) /\ row.next = DateAt(t, j)
    BY <1>1, <1>3, HeadIs DEF OnSchedule
  <1>9. Sound(t) /\ Months(t) \in Nat
    BY <1>4, MonthsAre DEF TemplateOK
  <1>10. next = DateAt(t, j + Months(t)) /\ j + Months(t) \in Nat /\ next \in Nat
    <2>1. next = DateAt(t, j + Months(t)) /\ j + Months(t) \in Nat
      <3>1. AddPeriod(DateAt(t, j), Months(t), Day(t)) = DateAt(t, j + Months(t))
        BY <1>4, <1>8, <1>9, NextDate
      <3>2. j + Months(t) \in Nat
        BY <1>9
      <3>3. QED
        BY <1>3, <1>8, <3>1, <3>2
    <2>2. QED
      BY <1>4, <1>9, <2>1, DateAtParts
  <1>11. entry \in Nat /\ entry <= Len(entries) /\ Booked(t, row.next)
    BY <1>1, <1>3 DEF IInv, HeadOK, At, Types, RunnerRow
  <1>12. PICK new \in Template : /\ new = [old EXCEPT !.next = next, !.last = entry, !.done = done,
                                                      !.status = status]
                                 /\ new.next = next /\ new.last = entry /\ new.done = done
                                 /\ new.status = status
    <2>1. done \in Nat
      BY <1>3, <1>4 DEF Row
    <2>2. status \in {"none", "active", "paused", "completed"}
      BY <1>5
    <2>3. PICK new : new = [old EXCEPT !.next = next, !.last = entry, !.done = done, !.status = status]
      OBVIOUS
    <2>4. new \in Template
      BY <1>7, <1>10, <1>11, <2>1, <2>2, <2>3 DEF Template
    <2>5. new.next = next /\ new.last = entry /\ new.done = done /\ new.status = status
      BY <1>7, <2>3 DEF Template
    <2>6. QED
      BY <2>3, <2>4, <2>5
  <1>13. /\ templates' \in [Templates -> Template] /\ templates'[t] = new
         /\ \A u \in Templates : u # t => templates'[u] = templates[u]
    <2>1. templates \in [Templates -> Template]
      BY <1>1 DEF Types, TypeOK
    <2>2. templates' = [templates EXCEPT ![t] = new]
      BY <1>6, <1>7, <1>12
    <2>3. QED
      BY <1>4, <2>1, <2>2
  <1>14. \A u \in Templates : (Listed(u) => Listed(u)') /\ (u # t => Settled(u))
    <2> TAKE u \in Templates
    <2>1. CASE u = t
      BY <1>5, <1>12, <1>13, <2>1 DEF Listed
    <2>2. CASE u # t
      BY <1>13, <2>2 DEF Listed, Settled
    <2>3. QED
      BY <2>1, <2>2
  <1>15. /\ runner' \in RunnerRow /\ runner'.at = "reread" /\ runner'.rows = rows
         /\ runner'.rows # << >>
    <2>1. Goto("reread")
      BY DEF Advance
    <2>2. QED
      BY <1>1, <1>3, <2>1, GotoIs
  <1>16. Types'
    <2>1. runner'.at # "idle" /\ runner'.at # "post" /\ plan' \in PlanRow
      BY <1>15 DEF RunFrame
    <2>2. QED
      BY <1>1, <1>2, <1>13, <1>14, <1>15, <2>1, RunTypes
  <1>17. TemplateOK(t)'
    <2>1. OnSchedule(t, templates'[t].next)
      <3>1. Scheduled(t, j + 1 * Months(t))
        BY <1>4, <1>8, <1>9, ScheduledSteps
      <3>2. 1 * Months(t) = Months(t)
        BY <1>9
      <3>3. QED
        BY <1>10, <1>12, <1>13, <3>1, <3>2 DEF OnSchedule
    <2>2. ASSUME NEW k \in Nat, Scheduled(t, k), DateAt(t, k) < next
          PROVE  Booked(t, DateAt(t, k))'
      <3>1. k < j + Months(t)
        BY <1>4, <1>9, <1>10, <2>2, DatesGrow
      <3>2. ~(j < k)
        BY <1>4, <1>8, <1>9, <2>2, <3>1, ScheduledSteps
      <3>3. PICK d : d = DateAt(t, k)
        OBVIOUS
      <3>4. CASE k = j
        <4>1. Booked(t, d)
          BY <1>8, <1>11, <3>3, <3>4
        <4>2. QED
          BY <1>2, <3>3, <4>1, BookedStays
      <3>5. CASE k < j
        <4>1. DateAt(t, k) < DateAt(t, j)
          BY <1>4, <1>9, <3>5, DatesGrow
        <4>2. Booked(t, d)
          BY <1>3, <1>4, <1>8, <2>2, <3>3, <4>1 DEF TemplateOK, RowOK
        <4>3. QED
          BY <1>2, <3>3, <4>2, BookedStays
      <3>6. QED
        BY <3>2, <3>4, <3>5
    <2>3. templates'[t].last <= Len(entries')
      BY <1>1, <1>11, <1>12, <1>13 DEF books
    <2>4. templates'[t].status \in {"active", "paused"} => WithinEnd(t, templates[t].next)'
      <3> SUFFICES ASSUME templates'[t].status \in {"active", "paused"}
                   PROVE  End(t) = 0 \/ next <= End(t)
        BY <1>12, <1>13 DEF WithinEnd
      <3>1. ~Completes(t, done, next)
        BY <1>5, <1>12, <1>13
      <3>2. End(t) = 0 \/ ~(next > End(t))
        BY <3>1 DEF Completes
      <3>3. End(t) \in Nat
        BY <1>4, RecurringAssumption
      <3>4. QED
        BY <1>10, <3>2, <3>3
    <2>5. QED
      BY <1>9, <1>12, <1>13, <2>1, <2>2, <2>3, <2>4 DEF TemplateOK
  <1>18. \A u \in Templates : TemplateOK(u)'
    <2> TAKE u \in Templates
    <2>1. CASE u = t
      BY <1>17, <2>1
    <2>2. CASE u # t
      <3>1. templates[u] \in Template /\ TemplateOK(u) /\ templates'[u] = templates[u]
        BY <1>1, <1>13, <2>2 DEF IInv, Types, TypeOK
      <3>2. QED
        BY <1>1, <1>2, <3>1, TemplateStays
    <2>3. QED
      BY <2>1, <2>2
  <1>19. JournalOK'
    <2>1. today \in Nat /\ today' = today
      BY <1>1, TodayIs DEF Types, TypeOK, today
    <2>2. today' \in Nat /\ today <= today' /\ JournalOK
      BY <2>1 DEF IInv
    <2>3. \A i \in Ids', u \in Templates : ~(i \notin Ids /\ Of(i, u)')
      BY <1>2
    <2>4. QED
      BY <1>1, <1>2, <1>14, <2>1, <2>2, <2>3, JournalStays
  <1>20. RowsOK'
    <2>1. \A k \in DOMAIN rows : k # 1 => Settled(rows[k].id)
      <3>1. \A k \in DOMAIN rows : rows[k].id \in Templates
        <4>1. \A k \in DOMAIN rows : rows[k] \in Row
          BY <1>4
        <4>2. QED
          BY <4>1 DEF Row
      <3>2. \A k \in DOMAIN rows : rows[k].id = rows[1].id => k = 1
        <4>1. 1 \in DOMAIN rows
          BY <1>4, <1>15
        <4>2. QED
          BY <1>3, <4>1 DEF IInv, RowsOK
      <3>3. QED
        BY <1>3, <1>4, <1>14, <3>1, <3>2
    <2>2. Len(entries) <= Len(entries') /\ RowsOK
      BY <1>2 DEF Later, IInv
    <2>3. QED
      BY <1>1, <1>2, <1>3, <1>14, <1>15, <2>1, <2>2, RowsStay
  <1>21. HeadOK'
    BY <1>15 DEF HeadOK, At
  <1>22. QED
    BY <1>16, <1>18, <1>19, <1>20, <1>21 DEF IInv


----------------------------------------------------------------------------------
(* The clerk, the accounts and the days. *)

LEMMA OutsideStep ==
  ASSUME IInv, UNCHANGED <<books, runner, crashes>>,
         day' \in DOMAIN Days, ~At("idle") => day' = day, today <= today',
         templates' \in [Templates -> Template],
         \A t \in Templates : (Listed(t) => Listed(t)') /\ Settled(t) /\ TemplateOK(t)',
         revived \subseteq revived', revived' \subseteq Templates, usable' \subseteq Templates,
         clerk' \in ClerkRow, clerk'.op # "none" => clerk'.id \in Templates /\ Listed(clerk.id)',
         plan' \in PlanRow, changes' \in 0 .. MaxChanges
  PROVE  IInv'
  <1>1. Types /\ BooksOK /\ RowsOK /\ JournalOK /\ HeadOK
    BY BooksTyped DEF IInv
  <1>2. BooksOK' /\ Later /\ Ids' = Ids
    BY <1>1, NothingBooked
  <1>3. Types'
    <2>1. /\ entries' \in Seq(EntryRow)
          /\ periods' \in Seq(Nat) /\ Len(periods') = Len(entries')
          /\ drafts' \in Seq(Templates \X Nat)
      BY <1>2 DEF BooksOK
    <2>2. /\ runner'.at \in {"idle", "reverse", "create", "post", "advance", "reread"}
          /\ runner'.rows \in Seq(Row)
          /\ (runner'.at = "idle" <=> runner' = Resting)
          /\ (runner'.at = "post" => entries'[runner'.entry].state = "draft")
      BY <1>1 DEF Types, TypeOK, IsDraft, books
    <2>3. /\ clerk'.op \in {"none", "final", "active", "paused"}
          /\ (clerk'.op # "none" => templates'[clerk'.id].status # "none")
      BY DEF ClerkRow, Listed
    <2>4. crashes' \in 0 .. MaxCrashes
      BY <1>1 DEF Types, TypeOK
    <2>5. plan'.runs \subseteq Templates \X Nat /\ plan'.changed \cup revived' \subseteq Templates
      BY DEF PlanRow
    <2>6. TypeOK'
      BY <2>1, <2>2, <2>3, <2>4, <2>5 DEF TypeOK, IsDraft
    <2>7. runner' \in RunnerRow /\ (runner'.at # "idle" => runner'.rows # << >>)
      BY <1>1 DEF Types, At
    <2>8. QED
      BY <2>6, <2>7 DEF Types, At
  <1>4. JournalOK'
    <2>1. today \in Nat
      BY <1>1, TodayIs DEF Types, TypeOK
    <2>2. today' \in Nat
      BY RecurringAssumption DEF today
    <2>3. \A i \in Ids', t \in Templates : ~(i \notin Ids /\ Of(i, t)')
      BY <1>2
    <2>4. QED
      BY <1>1, <1>2, <2>1, <2>2, <2>3, JournalStays
  <1>5. RowsOK'
    <2>1. CASE At("idle")
      <3>1. runner'.rows = << >>
        BY <1>1, <2>1 DEF Types, TypeOK, At, Resting
      <3>2. QED
        BY <3>1 DEF RowsOK
    <2>2. CASE ~At("idle")
      <3>1. PICK rows : rows = runner.rows
        OBVIOUS
      <3>2. rows \in Seq(Row) /\ 1 \in DOMAIN rows
        BY <1>1, <2>2, <3>1, HeldRows
      <3>3. \A k \in DOMAIN rows : rows[k].id \in Templates
        <4>1. \A k \in DOMAIN rows : rows[k] \in Row
          BY <3>2
        <4>2. QED
          BY <4>1 DEF Row
      <3>4. \A k \in DOMAIN rows : Settled(rows[k].id)
        BY <3>3
      <3>5. runner'.rows = rows /\ (runner'.at = "reread" \/ (~At("reread") /\ Settled(rows[1].id)))
        BY <3>1, <3>2, <3>4 DEF At
      <3>6. Len(entries) <= Len(entries') /\ UNCHANGED day
        BY <1>2, <2>2 DEF Later
      <3>7. QED
        BY <1>1, <1>2, <2>2, <3>1, <3>4, <3>5, <3>6, RowsStay
    <2>3. QED
      BY <2>1, <2>2
  <1>6. HeadOK'
    BY <1>1 DEF HeadOK, At, Current, Ids, Of, Booked, DraftsOf, Posted, Generated, IsPosted, books
  <1>7. QED
    BY <1>3, <1>4, <1>5, <1>6 DEF IInv

\* What holds of the templates when none is written.
LEMMA TemplatesStay ==
  ASSUME IInv, UNCHANGED <<books, templates>>, revived \subseteq revived'
  PROVE  /\ templates' \in [Templates -> Template]
         /\ \A t \in Templates : (Listed(t) => Listed(t)') /\ Settled(t) /\ TemplateOK(t)'
  <1>1. Types /\ BooksOK /\ templates \in [Templates -> Template]
    BY BooksTyped DEF IInv, Types, TypeOK
  <1>2. BooksOK' /\ Later
    BY <1>1, NothingBooked
  <1>3. \A t \in Templates : TemplateOK(t)'
    <2> TAKE t \in Templates
    <2>1. TemplateOK(t) /\ templates[t] \in Template /\ templates'[t] = templates[t]
      BY <1>1 DEF IInv
    <2>2. QED
      BY <1>1, <1>2, <2>1, TemplateStays
  <1>4. QED
    BY <1>1, <1>3 DEF Listed, Settled

\* And when that of one is, which stays at its date or was not there.
LEMMA OneTemplate ==
  ASSUME IInv, UNCHANGED books, revived \subseteq revived', NEW t \in Templates, NEW new \in Template,
         templates' = [templates EXCEPT ![t] = new], TemplateOK(t)', new.status # "none",
         Listed(t) => new.next = templates[t].next /\ new.done = templates[t].done
  PROVE  /\ templates' \in [Templates -> Template]
         /\ \A u \in Templates : (Listed(u) => Listed(u)') /\ Settled(u) /\ TemplateOK(u)'
  <1>1. Types /\ BooksOK /\ templates \in [Templates -> Template]
    BY BooksTyped DEF IInv, Types, TypeOK
  <1>2. BooksOK' /\ Later
    BY <1>1, NothingBooked
  <1>3. /\ templates' \in [Templates -> Template] /\ templates'[t] = new
        /\ \A u \in Templates : u # t => templates'[u] = templates[u]
    BY <1>1
  <1>4. \A u \in Templates : TemplateOK(u)'
    <2> TAKE u \in Templates
    <2>1. CASE u = t
      BY <2>1
    <2>2. CASE u # t
      <3>1. TemplateOK(u) /\ templates[u] \in Template /\ templates'[u] = templates[u]
        BY <1>1, <1>3, <2>2 DEF IInv
      <3>2. QED
        BY <1>1, <1>2, <3>1, TemplateStays
    <2>3. QED
      BY <2>1, <2>2
  <1>5. \A u \in Templates : (Listed(u) => Listed(u)') /\ Settled(u)
    <2> TAKE u \in Templates
    <2>1. CASE u = t
      BY <1>3, <2>1 DEF Listed, Settled
    <2>2. CASE u # t
      BY <1>3, <2>2 DEF Listed, Settled
    <2>3. QED
      BY <2>1, <2>2
  <1>6. QED
    BY <1>3, <1>4, <1>5

\* Of the template written, all but the status and the column of final postings.
LEMMA SameSchedule ==
  ASSUME IInv, UNCHANGED books, revived \subseteq revived', NEW t \in Templates, NEW new \in Template,
         templates' = [templates EXCEPT ![t] = new],
         Listed(t), new.next = templates[t].next, new.last = templates[t].last,
         new.status \in {"active", "paused"} => WithinEnd(t, templates[t].next)'
  PROVE  TemplateOK(t)'
  <1>1. Types /\ BooksOK /\ TemplateOK(t) /\ templates \in [Templates -> Template]
    BY BooksTyped DEF IInv, Types, TypeOK
  <1>2. BooksOK' /\ Later
    BY <1>1, NothingBooked
  <1>3. templates'[t] = new
    BY <1>1
  <1>4. \A j \in Nat : Scheduled(t, j) /\ DateAt(t, j) < templates'[t].next => Booked(t, DateAt(t, j))'
    <2> SUFFICES ASSUME NEW j \in Nat, Scheduled(t, j), DateAt(t, j) < templates[t].next
                 PROVE  Booked(t, DateAt(t, j))'
      BY <1>3
    <2>1. PICK d : d = DateAt(t, j)
      OBVIOUS
    <2>2. Booked(t, d)
      BY <1>1, <2>1 DEF TemplateOK
    <2>3. QED
      BY <1>2, <2>1, <2>2, BookedStays
  <1>5. templates'[t].last <= Len(entries')
    BY <1>1, <1>3 DEF TemplateOK, books
  <1>6. Sound(t) /\ OnSchedule(t, templates'[t].next)
    BY <1>1, <1>3 DEF TemplateOK
  <1>7. QED
    BY <1>3, <1>4, <1>5, <1>6 DEF TemplateOK


LEMMA AddKeeps ==
  ASSUME IInv, NEW t \in Templates, Add(t), UNCHANGED <<books, usable, day, runner, crashes, changes, history>>
  PROVE  IInv'
  <1>1. /\ Types /\ BooksOK /\ JournalOK /\ TemplateOK(t) /\ templates \in [Templates -> Template]
        /\ plan \in PlanRow /\ revived \subseteq Templates /\ usable \subseteq Templates
        /\ changes \in 0 .. MaxChanges /\ day \in DOMAIN Days
    BY BooksTyped DEF IInv, Types, TypeOK
  <1>2. today \in Nat /\ UNCHANGED <<plan, revived>>
    BY <1>1, TodayIs DEF history
  <1>3. ~Listed(t) /\ ValidTemplate(t)
    <2>1. t \in Nat
      BY IdsAreNumbers, Zenon
    <2>2. templates[t].status = "none" <=> t >= t
      BY DEF Add
    <2>3. QED
      BY <2>1, <2>2 DEF Listed, Add
  <1>4. PICK first : first = FirstRun(t)
    OBVIOUS
  <1>5. Sound(t) /\ (End(t) = 0 \/ first <= End(t))
    BY <1>3, <1>4 DEF ValidTemplate, Sound
  <1>6. PICK j \in Nat : /\ first = DateAt(t, j) /\ Scheduled(t, j)
                         /\ \A k \in Nat : Scheduled(t, k) => j <= k
    BY <1>4, <1>5, FirstIsScheduled
  <1>7. first \in Nat
    BY <1>5, <1>6, DateAtParts
  <1>8. PICK old \in Template : old = templates[t]
    BY <1>1
  <1>9. PICK new : new = [old EXCEPT !.status = "active", !.next = first]
    OBVIOUS
  <1>10. new \in Template /\ new.status = "active" /\ new.next = first /\ new.last = old.last
    BY <1>7, <1>8, <1>9 DEF Template
  <1>11. templates' = [templates EXCEPT ![t] = new]
    BY <1>1, <1>4, <1>8, <1>9 DEF Add, Template
  <1>12. templates'[t] = new
    BY <1>1, <1>11
  <1>13. TemplateOK(t)'
    <2>1. \A k \in Nat : ~(Scheduled(t, k) /\ DateAt(t, k) < first)
      <3> SUFFICES ASSUME NEW k \in Nat, Scheduled(t, k), DateAt(t, k) < first
                   PROVE  FALSE
        OBVIOUS
      <3>1. k < j
        BY <1>5, <1>6, DatesGrow
      <3>2. QED
        BY <1>6, <3>1
    <2>2. OnSchedule(t, first)
      BY <1>6 DEF OnSchedule
    <2>3. old.last <= Len(entries')
      BY <1>1, <1>8 DEF TemplateOK, books
    <2>4. WithinEnd(t, templates[t].next)'
      BY <1>5, <1>10, <1>12 DEF WithinEnd
    <2>5. QED
      BY <1>5, <1>10, <1>12, <2>1, <2>2, <2>3, <2>4 DEF TemplateOK
  <1>14. /\ templates' \in [Templates -> Template]
         /\ \A u \in Templates : (Listed(u) => Listed(u)') /\ Settled(u) /\ TemplateOK(u)'
    BY <1>2, <1>3, <1>10, <1>11, <1>13, OneTemplate
  <1>15. clerk' \in ClerkRow /\ (clerk'.op # "none" => clerk'.id \in Templates /\ Listed(clerk.id)')
    <2>1. t \in Nat
      BY IdsAreNumbers, Zenon
    <2>2. CASE Splits(t)
      BY <1>10, <1>12, <2>1, <2>2 DEF Add, ClerkRow, Listed
    <2>3. CASE ~Splits(t)
      BY <2>3 DEF Add, Away, ClerkRow
    <2>4. QED
      BY <2>2, <2>3
  <1>16. today' = today /\ today <= today'
    BY <1>2 DEF today
  <1>17. QED
    BY <1>1, <1>2, <1>14, <1>15, <1>16, OutsideStep

LEMMA AddFinalKeeps ==
  ASSUME IInv, NEW t \in Templates, AddFinal(t),
         UNCHANGED <<books, usable, day, runner, crashes, changes, history>>
  PROVE  IInv'
  <1>1. /\ Types /\ TemplateOK(t) /\ templates \in [Templates -> Template]
        /\ plan \in PlanRow /\ revived \subseteq Templates /\ usable \subseteq Templates
        /\ changes \in 0 .. MaxChanges /\ day \in DOMAIN Days
    BY DEF IInv, Types, TypeOK
  <1>2. today \in Nat /\ UNCHANGED <<plan, revived>>
    BY <1>1, TodayIs DEF history
  <1>3. Listed(t)
    BY <1>1 DEF Types, TypeOK, AddFinal, Listed
  <1>4. PICK old \in Template : old = templates[t]
    BY <1>1
  <1>5. PICK new : new = [old EXCEPT !.final = TRUE]
    OBVIOUS
  <1>6. /\ new \in Template /\ new.status = old.status /\ new.next = old.next
        /\ new.last = old.last /\ new.done = old.done
    BY <1>4, <1>5 DEF Template
  <1>7. templates' = [templates EXCEPT ![t] = new]
    BY <1>4, <1>5 DEF AddFinal
  <1>8. templates'[t] = new
    BY <1>1, <1>7
  <1>9. TemplateOK(t)'
    <2>1. new.status \in {"active", "paused"} => WithinEnd(t, templates[t].next)'
      BY <1>1, <1>2, <1>4, <1>6, <1>8 DEF TemplateOK, WithinEnd
    <2>2. QED
      BY <1>2, <1>3, <1>4, <1>6, <1>7, <2>1, SameSchedule
  <1>10. /\ templates' \in [Templates -> Template]
         /\ \A u \in Templates : (Listed(u) => Listed(u)') /\ Settled(u) /\ TemplateOK(u)'
    <2>1. new.status # "none"
      BY <1>3, <1>4, <1>6 DEF Listed
    <2>2. QED
      BY <1>2, <1>4, <1>6, <1>7, <1>9, <2>1, OneTemplate
  <1>11. clerk' \in ClerkRow /\ clerk'.op = "none"
    BY DEF AddFinal, Away, ClerkRow
  <1>12. today' = today /\ today <= today'
    BY <1>2 DEF today
  <1>13. QED
    BY <1>1, <1>2, <1>10, <1>11, <1>12, OutsideStep

LEMMA WriteStatusKeeps ==
  ASSUME IInv, NEW t \in Templates, WriteStatus(t),
         UNCHANGED <<books, usable, day, runner, crashes, changes>>
  PROVE  IInv'
  <1>1. /\ Types /\ TemplateOK(t) /\ templates \in [Templates -> Template]
        /\ plan \in PlanRow /\ revived \subseteq Templates /\ usable \subseteq Templates
        /\ changes \in 0 .. MaxChanges /\ day \in DOMAIN Days
    BY DEF IInv, Types, TypeOK
  <1>2. today \in Nat
    BY <1>1, TodayIs
  <1>3. Listed(t) /\ clerk.op \in {"active", "paused"}
    BY <1>1 DEF Types, TypeOK, WriteStatus, Listed
  <1>4. PICK old \in Template, to \in {"active", "paused"} : old = templates[t] /\ to = clerk.op
    BY <1>1, <1>3
  <1>5. PICK new : new = [old EXCEPT !.status = to]
    OBVIOUS
  <1>6. /\ new \in Template /\ new.status = to /\ new.next = old.next
        /\ new.last = old.last /\ new.done = old.done
    BY <1>4, <1>5 DEF Template
  <1>7. templates' = [templates EXCEPT ![t] = new]
    BY <1>4, <1>5 DEF WriteStatus
  <1>8. templates'[t] = new
    BY <1>1, <1>7
  <1>9. /\ revived \subseteq revived' /\ revived' \subseteq Templates
        /\ old.status = "completed" => t \in revived'
    BY <1>1, <1>4 DEF WriteStatus
  <1>10. TemplateOK(t)'
    <2>1. WithinEnd(t, templates[t].next)'
      <3>1. CASE old.status = "completed"
        BY <1>9, <3>1 DEF WithinEnd
      <3>2. CASE old.status # "completed"
        <4>1. old.status \in {"active", "paused"}
          BY <1>3, <1>4, <3>2 DEF Listed, Template
        <4>2. WithinEnd(t, templates[t].next)
          BY <1>1, <1>4, <4>1 DEF TemplateOK
        <4>3. templates'[t].next = templates[t].next
          BY <1>4, <1>6, <1>8
        <4>4. QED
          BY <1>9, <4>2, <4>3 DEF WithinEnd
      <3>3. QED
        BY <3>1, <3>2
    <2>2. QED
      BY <1>3, <1>4, <1>6, <1>7, <1>9, <2>1, SameSchedule
  <1>11. /\ templates' \in [Templates -> Template]
         /\ \A u \in Templates : (Listed(u) => Listed(u)') /\ Settled(u) /\ TemplateOK(u)'
    <2>1. new.status # "none"
      BY <1>4, <1>6
    <2>2. QED
      BY <1>4, <1>6, <1>7, <1>9, <1>10, <2>1, OneTemplate
  <1>12. clerk' \in ClerkRow /\ clerk'.op = "none"
    BY DEF WriteStatus, Away, ClerkRow
  <1>13. plan' \in PlanRow
    BY <1>1 DEF WriteStatus, PlanRow
  <1>14. today' = today /\ today <= today'
    BY <1>2 DEF today
  <1>15. QED
    BY <1>1, <1>9, <1>11, <1>12, <1>13, <1>14, OutsideStep

LEMMA ClerkKeeps ==
  ASSUME IInv, UNCHANGED <<books, usable, day, runner, crashes, history>>,
         \/ ClerkDies /\ UNCHANGED changes
         \/ \E t \in Templates, to \in {"active", "paused"} : CheckStatus(t, to)
  PROVE  IInv'
  <1>1. /\ Types /\ plan \in PlanRow /\ revived \subseteq Templates /\ usable \subseteq Templates
        /\ changes \in 0 .. MaxChanges /\ day \in DOMAIN Days
    BY DEF IInv, Types, TypeOK
  <1>2. today \in Nat /\ today' = today /\ today <= today' /\ UNCHANGED <<plan, revived>>
    BY <1>1, TodayIs DEF history, today
  <1>3. /\ UNCHANGED templates /\ clerk' \in ClerkRow /\ changes' \in 0 .. MaxChanges
        /\ clerk'.op # "none" => clerk'.id \in Templates /\ Listed(clerk.id)'
    <2>1. CASE ClerkDies /\ UNCHANGED changes
      BY <1>1, <2>1 DEF ClerkDies, Away, ClerkRow
    <2>2. ASSUME NEW t \in Templates, NEW to \in {"active", "paused"}, CheckStatus(t, to)
          PROVE  /\ UNCHANGED templates /\ clerk' \in ClerkRow /\ changes' \in 0 .. MaxChanges
                 /\ clerk'.op # "none" => clerk'.id \in Templates /\ Listed(clerk.id)'
      <3>1. t \in Nat
        BY IdsAreNumbers, Zenon
      <3>2. clerk' = [op |-> to, id |-> t] /\ UNCHANGED templates
        BY <2>2 DEF CheckStatus
      <3>3. clerk' \in ClerkRow /\ clerk'.id = t
        BY <3>1, <3>2 DEF ClerkRow
      <3>4. Listed(clerk.id)'
        BY <2>2, <3>2, <3>3 DEF CheckStatus, Listed
      <3>5. changes' \in 0 .. MaxChanges
        <4>1. MaxChanges \in Nat
          BY RecurringAssumption
        <4>2. QED
          BY <1>1, <2>2, <4>1 DEF CheckStatus
      <3>6. QED
        BY <3>2, <3>3, <3>4, <3>5
    <2>3. QED
      BY <2>1, <2>2
  <1>4. /\ templates' \in [Templates -> Template]
        /\ \A u \in Templates : (Listed(u) => Listed(u)') /\ Settled(u) /\ TemplateOK(u)'
    BY <1>2, <1>3, TemplatesStay
  <1>5. QED
    BY <1>1, <1>2, <1>3, <1>4, OutsideStep

LEMMA SwitchKeeps ==
  ASSUME IInv, Switch \/ Tick
  PROVE  IInv'
  <1>1. /\ Types /\ plan \in PlanRow /\ revived \subseteq Templates /\ usable \subseteq Templates
        /\ changes \in 0 .. MaxChanges /\ day \in DOMAIN Days /\ clerk \in ClerkRow
        /\ clerk.op # "none" => clerk.id \in Templates /\ Listed(clerk.id)
    BY DEF IInv, Types, TypeOK, Listed
  <1>2. today \in Nat
    BY <1>1, TodayIs
  <1>3. UNCHANGED <<books, templates, runner, clerk, crashes, plan, revived>>
    BY DEF Switch, Tick, history
  <1>4. /\ templates' \in [Templates -> Template]
        /\ \A u \in Templates : (Listed(u) => Listed(u)') /\ Settled(u) /\ TemplateOK(u)'
    BY <1>3, TemplatesStay
  <1>5. clerk' \in ClerkRow /\ (clerk'.op # "none" => clerk'.id \in Templates /\ Listed(clerk.id)')
    BY <1>1, <1>3 DEF Listed
  <1>6. CASE Switch
    <2>1. UNCHANGED day /\ usable' \subseteq Templates
      BY <1>1, <1>6, RecurringAssumption DEF Switch
    <2>2. changes' \in 0 .. MaxChanges
      <3>1. MaxChanges \in Nat
        BY RecurringAssumption
      <3>2. QED
        BY <1>1, <1>6, <3>1 DEF Switch
    <2>3. today' = today /\ today <= today'
      BY <1>2, <2>1 DEF today
    <2>4. QED
      BY <1>1, <1>3, <1>4, <1>5, <2>1, <2>2, <2>3, OutsideStep
  <1>7. CASE Tick
    <2>1. At("idle") /\ day' = day + 1 /\ day < Len(Days) /\ UNCHANGED <<usable, changes>>
      BY <1>7 DEF Tick
    <2>2. day' \in DOMAIN Days /\ Days[day] < Days[day'] /\ Days[day'] \in Nat
      <3>1. DOMAIN Days = 1 .. Len(Days) /\ Len(Days) \in Nat /\ Days \in Seq(Nat)
        BY RecurringAssumption
      <3>2. day' \in DOMAIN Days /\ day < day'
        BY <1>1, <2>1, <3>1
      <3>3. Days[day] < Days[day']
        BY <1>1, <3>2, RecurringAssumption
      <3>4. QED
        BY <3>1, <3>2, <3>3
    <2>3. today <= today'
      BY <1>2, <2>2 DEF today
    <2>4. QED
      BY <1>1, <1>3, <1>4, <1>5, <2>1, <2>2, <2>3, OutsideStep
  <1>8. QED
    BY <1>6, <1>7


----------------------------------------------------------------------------------
(* The theorems. *)

LEMMA InitIInv == Init => IInv
  <1> SUFFICES ASSUME Init
               PROVE  IInv
    OBVIOUS
  <1>1. /\ entries = << >> /\ periods = << >> /\ drafts = << >> /\ usable = Templates /\ day = 1
        /\ runner = Resting /\ clerk = Away /\ crashes = 0 /\ changes = 0
        /\ plan = NoPlan /\ revived = {}
        /\ templates = [t \in Templates |-> [status |-> "none", next |-> 0, last |-> 0,
                                             done |-> 0, final |-> FALSE]]
    BY DEF Init
  <1>2. BooksOK
    BY <1>1 DEF BooksOK
  <1>3. \A t \in Templates : templates[t] \in Template /\ templates[t].status = "none" /\ templates[t].last = 0
    BY <1>1 DEF Template
  <1>4. templates \in [Templates -> Template]
    BY <1>1 DEF Template
  <1>5. runner \in RunnerRow /\ runner.at = "idle" /\ runner.rows = << >>
    BY <1>1 DEF RunnerRow, Resting
  <1>6. clerk \in ClerkRow /\ clerk.op = "none"
    BY <1>1 DEF ClerkRow, Away
  <1>7. plan \in PlanRow
    BY <1>1 DEF PlanRow, NoPlan
  <1>8. TypeOK
    <2>1. /\ entries \in Seq(EntryRow) /\ periods \in Seq(Nat) /\ Len(periods) = Len(entries)
          /\ drafts \in Seq(Templates \X Nat)
      BY <1>2 DEF BooksOK
    <2>2. day \in DOMAIN Days
      BY <1>1, RecurringAssumption
    <2>3. crashes \in 0 .. MaxCrashes /\ changes \in 0 .. MaxChanges
      BY <1>1, RecurringAssumption
    <2>4. runner.at = "idle" /\ runner = Resting /\ runner.rows \in Seq(Row)
      BY <1>1, <1>5
    <2>5. plan.runs \subseteq Templates \X Nat /\ plan.changed \cup revived \subseteq Templates
      BY <1>1 DEF NoPlan
    <2>6. usable \subseteq Templates
      BY <1>1
    <2>7. QED
      BY <1>4, <1>6, <2>1, <2>2, <2>3, <2>4, <2>5, <2>6 DEF TypeOK
  <1>9. Types
    BY <1>5, <1>6, <1>7, <1>8 DEF Types, At
  <1>10. \A t \in Templates : TemplateOK(t)
    BY <1>1, <1>3 DEF TemplateOK, Listed
  <1>11. JournalOK
    BY <1>1 DEF JournalOK, Ids
  <1>12. RowsOK /\ HeadOK
    BY <1>5 DEF RowsOK, HeadOK, At
  <1>13. QED
    BY <1>9, <1>10, <1>11, <1>12 DEF IInv

LEMMA RunKeeps ==
  ASSUME IInv, Run
  PROVE  IInv'
  <1>1. UNCHANGED <<usable, day, clerk, crashes, changes, revived>>
    BY DEF Run
  <1>2. CASE RunDue
    BY <1>1, <1>2, RunDueKeeps
  <1>3. CASE /\ \/ ReversePrevious \/ CreateEntry \/ PostEntry \/ CreateInvoice \/ Fail
                \/ Advance \/ Reread
             /\ plan' = IF runner' = Resting THEN NoPlan ELSE plan
    <2>1. plan' \in PlanRow
      BY <1>3 DEF IInv, Types, PlanRow, NoPlan
    <2>2. RunFrame
      BY <1>1, <2>1 DEF RunFrame
    <2>3. CASE ReversePrevious
      BY <2>2, <2>3, ReversePreviousKeeps
    <2>4. CASE CreateEntry
      BY <2>2, <2>4, CreateEntryKeeps
    <2>5. CASE PostEntry
      BY <2>2, <2>5, PostEntryKeeps
    <2>6. CASE CreateInvoice
      BY <2>2, <2>6, CreateInvoiceKeeps
    <2>7. CASE Fail
      BY <2>2, <2>7, FailKeeps
    <2>8. CASE Advance
      BY <2>2, <2>8, AdvanceKeeps
    <2>9. CASE Reread
      BY <2>2, <2>9, RereadKeeps
    <2>10. QED
      BY <1>3, <2>3, <2>4, <2>5, <2>6, <2>7, <2>8, <2>9
  <1>4. QED
    BY <1>2, <1>3 DEF Run

LEMMA NextIInv == IInv /\ [Next]_vars => IInv'
  <1> SUFFICES ASSUME IInv, [Next]_vars
               PROVE  IInv'
    OBVIOUS
  <1>1. CASE Run
    BY <1>1, RunKeeps
  <1>2. CASE Crash
    BY <1>2, CrashKeeps
  <1>3. CASE Manage
    <2>1. UNCHANGED <<books, usable, day, runner, crashes>>
      BY <1>3 DEF Manage
    <2>2. ASSUME NEW t \in Templates, Add(t) \/ AddFinal(t), UNCHANGED <<changes, history>>
          PROVE  IInv'
      BY <2>1, <2>2, AddKeeps, AddFinalKeeps
    <2>3. ASSUME NEW t \in Templates, WriteStatus(t), UNCHANGED changes
          PROVE  IInv'
      BY <2>1, <2>3, WriteStatusKeeps
    <2>4. ASSUME ClerkDies, UNCHANGED <<changes, history>>
          PROVE  IInv'
      BY <2>1, <2>4, ClerkKeeps
    <2>5. ASSUME NEW t \in Templates, NEW to \in {"active", "paused"}, CheckStatus(t, to), UNCHANGED history
          PROVE  IInv'
      BY <2>1, <2>5, ClerkKeeps
    <2>6. QED
      BY <1>3, <2>2, <2>3, <2>4, <2>5 DEF Manage
  <1>4. CASE Switch \/ Tick
    BY <1>4, SwitchKeeps
  <1>5. CASE UNCHANGED vars
    <2>1. UNCHANGED <<books, templates, usable, day, runner, clerk, crashes, changes, history>>
      BY <1>5 DEF vars
    <2>2. /\ plan \in PlanRow /\ revived \subseteq Templates /\ usable \subseteq Templates
          /\ changes \in 0 .. MaxChanges /\ day \in DOMAIN Days /\ clerk \in ClerkRow
          /\ clerk.op # "none" => clerk.id \in Templates /\ Listed(clerk.id)
      BY DEF IInv, Types, TypeOK, Listed
    <2>3. today \in Nat /\ today' = today /\ today <= today'
      BY <2>1, <2>2, TodayIs DEF today
    <2>4. /\ templates' \in [Templates -> Template]
          /\ \A u \in Templates : (Listed(u) => Listed(u)') /\ Settled(u) /\ TemplateOK(u)'
      BY <2>1, TemplatesStay DEF history
    <2>5. clerk'.op # "none" => clerk'.id \in Templates /\ Listed(clerk.id)'
      BY <2>1, <2>2 DEF Listed
    <2>6. QED
      BY <2>1, <2>2, <2>3, <2>4, <2>5, OutsideStep DEF history
  <1>6. QED
    BY <1>1, <1>2, <1>3, <1>4, <1>5 DEF Next

LEMMA Invariance == Spec => []IInv
  <1>1. Init => IInv
    BY InitIInv
  <1>2. IInv /\ [Next]_vars => IInv'
    BY NextIInv
  <1>3. QED
    BY <1>1, <1>2, PTL DEF Spec

\* Every reachable state is well typed: what the runner read of a template, the
\* entry it has in hand and the clerk's template are always of the tables.
THEOREM TypeCorrect == Spec => []TypeOK
  <1>1. IInv => TypeOK
    BY DEF IInv, Types
  <1>2. QED
    BY <1>1, Invariance, PTL

LEMMA NoneSkipped == IInv => NoPeriodSkipped
  <1> SUFFICES ASSUME IInv, NEW t \in Templates, Listed(t)
               PROVE  /\ \A d \in Grid(t) : d < templates[t].next => Booked(t, d)
                      /\ \A i \in Ids : Of(i, t) => periods[i] \in Grid(t) /\ WithinEnd(t, periods[i])
    BY DEF NoPeriodSkipped, Listed, Of, WithinEnd
  <1>1. TemplateOK(t) /\ Sound(t) /\ today \in Nat
    BY TodayIs DEF IInv, Types, TypeOK, TemplateOK
  <1>2. ASSUME NEW d \in Grid(t), d < templates[t].next
        PROVE  Booked(t, d)
    <2>1. PICK j \in Nat : Scheduled(t, j) /\ d = DateAt(t, j)
      BY <1>1, GridIsScheduled
    <2>2. QED
      BY <1>1, <1>2, <2>1 DEF TemplateOK
  <1>3. ASSUME NEW i \in Ids, Of(i, t)
        PROVE  periods[i] \in Grid(t) /\ WithinEnd(t, periods[i])
    <2>1. OnSchedule(t, periods[i]) /\ periods[i] <= today /\ WithinEnd(t, periods[i])
      BY <1>3 DEF IInv, JournalOK
    <2>2. PICK j \in Nat : Scheduled(t, j) /\ periods[i] = DateAt(t, j)
      BY <2>1 DEF OnSchedule
    <2>3. QED
      BY <1>1, <2>1, <2>2, GridIsScheduled
  <1>4. QED
    BY <1>2, <1>3

\* Of the dates a template stands for, none before its next one is left unbooked,
\* and nothing is booked off its dates or past its end, whatever crashes, fails, is
\* paused or resumed between two statements of run_due.
THEOREM PeriodsNotSkipped == Spec => []NoPeriodSkipped
  <1>1. IInv => NoPeriodSkipped
    BY NoneSkipped
  <1>2. QED
    BY <1>1, Invariance, PTL


----------------------------------------------------------------------------------
(* What a run does, against what a preview of its first moment showed. *)

\* The plan of a template that stood at month j, with `done' runs behind it.
PlanIs(t, j, done) ==
  \A d \in Nat : <<t, d>> \in plan.runs <=>
    \E k \in 0 .. LoopCap - 1 :
      /\ d = DateAt(t, j + k * Months(t))
      /\ d <= today
      /\ k = 0 \/ ~Completes(t, done + k, d)

RowPlan(row) == \E j \in Nat : row.next = DateAt(row.id, j) /\ PlanIs(row.id, j, row.done)

\* The template in hand has come `turns' periods of its plan.
HeadPlan(row, turns) ==
  \E j, done \in Nat :
    /\ PlanIs(row.id, j, done)
    /\ row.next = DateAt(row.id, j + turns * Months(row.id)) /\ row.done = done + turns
    /\ turns # 0 => row.id \in plan.changed \/ ~Completes(row.id, row.done, row.next)

\* Written back, it stands one period on and is completed when its plan ends there.
Advanced(row) ==
  /\ templates[row.id].next = AddPeriod(row.next, Months(row.id), Day(row.id))
  /\ templates[row.id].done = row.done + 1
  /\ row.id \in plan.changed
     \/ templates[row.id].status =
          IF Completes(row.id, row.done + 1, templates[row.id].next) THEN "completed" ELSE "active"

PlanOK ==
  ~At("idle") =>
    /\ runner.turns \in 0 .. LoopCap - 1
    /\ \A k \in DOMAIN runner.rows : k # 1 => RowPlan(runner.rows[k])
    /\ HeadPlan(Current, runner.turns)
    /\ At("reread") => Advanced(Current)

LEMMA Multiples ==
  ASSUME NEW t \in Templates, NEW n \in Nat
  PROVE  /\ Months(t) \in Nat /\ n * Months(t) \in Nat
         /\ 0 * Months(t) = 0
         /\ (n + 1) * Months(t) = n * Months(t) + Months(t)
         /\ \A m \in Nat : m <= n => m * Months(t) <= n * Months(t)
  <1>1. CASE Months(t) = 1
    BY <1>1
  <1>2. CASE Months(t) = 3
    BY <1>2
  <1>3. CASE Months(t) = 12
    BY <1>3
  <1>4. QED
    BY <1>1, <1>2, <1>3, MonthsAre

LEMMA PlanStays ==
  ASSUME UNCHANGED day, plan'.runs = plan.runs, NEW t, NEW j, NEW done, PlanIs(t, j, done)
  PROVE  PlanIs(t, j, done)'
  BY DEF PlanIs, today

LEMMA RowPlanStays ==
  ASSUME UNCHANGED day, plan'.runs = plan.runs, NEW row, RowPlan(row)
  PROVE  RowPlan(row)'
  BY PlanStays DEF RowPlan

LEMMA HeadPlanStays ==
  ASSUME UNCHANGED day, plan'.runs = plan.runs, plan.changed \subseteq plan'.changed,
         NEW row, NEW turns, HeadPlan(row, turns)
  PROVE  HeadPlan(row, turns)'
  BY PlanStays DEF HeadPlan

\* A row the run has not come to yet is at the beginning of its plan.
LEMMA FirstTurn ==
  ASSUME NEW row \in Row, RowPlan(row)
  PROVE  HeadPlan(row, 0)
  <1>1. row.id \in Templates /\ row.done \in Nat
    BY DEF Row
  <1>2. PICK j \in Nat : row.next = DateAt(row.id, j) /\ PlanIs(row.id, j, row.done)
    BY DEF RowPlan
  <1>3. j + 0 * Months(row.id) = j /\ row.done + 0 = row.done
    <2>1. 0 * Months(row.id) = 0
      BY <1>1, Multiples
    <2>2. QED
      BY <1>1, <1>2, <2>1
  <1>4. QED
    BY <1>1, <1>2, <1>3 DEF HeadPlan

\* The runner goes on with the same rows.
LEMMA SamePlan ==
  ASSUME IInv, PlanOK, ~At("idle"), ~At("reread"), UNCHANGED <<day, plan>>,
         NEW rows, rows = runner.rows, runner'.rows = rows, runner'.turns = runner.turns,
         runner'.at # "reread"
  PROVE  PlanOK'
  <1>1. PICK row : row = Current
    OBVIOUS
  <1>2. Current' = row
    BY <1>1 DEF Current
  <1>3. HeadPlan(row, runner.turns)
    BY <1>1 DEF PlanOK
  <1>4. PICK turns : turns = runner.turns
    OBVIOUS
  <1>5. HeadPlan(row, turns)'
    BY <1>3, <1>4, HeadPlanStays
  <1>6. \A k \in DOMAIN rows : k # 1 => RowPlan(rows[k])'
    BY RowPlanStays DEF PlanOK
  <1>7. turns \in 0 .. LoopCap - 1
    BY <1>4 DEF PlanOK
  <1>8. QED
    BY <1>2, <1>4, <1>5, <1>6, <1>7 DEF PlanOK, At

\* The runner turns to the next row, or is through.
LEMMA SkipPlan ==
  ASSUME IInv, PlanOK, ~At("idle"), UNCHANGED day, Skip,
         plan' = IF runner' = Resting THEN NoPlan ELSE plan
  PROVE  PlanOK'
  <1> SUFFICES ASSUME runner'.at # "idle"
               PROVE  PlanOK'
    BY DEF PlanOK, At
  <1>1. PICK rows : rows = runner.rows
    OBVIOUS
  <1>2. Types
    BY DEF IInv
  <1>3. /\ runner'.rows = Tail(rows) /\ runner'.rows # << >> /\ runner'.turns = 0
        /\ runner'.at \in {"idle", "reverse", "create"}
    BY <1>1, <1>2, SkipIs
  <1>4. UNCHANGED plan
    BY DEF Resting
  <1>5. rows \in Seq(Row) /\ rows # << >>
    BY <1>1, <1>2, HeldRows
  <1>6. PICK tail \in Seq(Row) : tail = Tail(rows) /\ tail # << >>
    BY <1>3, <1>5, TailIs
  <1>7. /\ DOMAIN tail = 1 .. Len(rows) - 1 /\ DOMAIN rows = 1 .. Len(rows) /\ Len(rows) \in Nat
        /\ \A k \in DOMAIN tail : tail[k] = rows[k + 1]
    BY <1>5, <1>6, TailIs
  <1>8. \A k \in DOMAIN tail : tail[k] \in Row /\ RowPlan(tail[k])
    <2> TAKE k \in DOMAIN tail
    <2>1. k + 1 \in DOMAIN rows /\ k + 1 # 1
      BY <1>7
    <2>2. RowPlan(rows[k + 1])
      BY <1>1, <2>1 DEF PlanOK
    <2>3. tail[k] \in Row
      BY <1>6
    <2>4. QED
      BY <1>7, <2>2, <2>3
  <1>9. \A k \in DOMAIN tail : RowPlan(tail[k])'
    BY <1>4, <1>8, RowPlanStays
  <1>10. Head(tail) = tail[1] /\ 1 \in DOMAIN tail
    BY <1>6, TailIs
  <1>11. PICK row \in Row : row = tail[1] /\ RowPlan(row)
    BY <1>8, <1>10
  <1>12. HeadPlan(row, 0)'
    BY <1>4, <1>11, FirstTurn, HeadPlanStays
  <1>13. Current' = row
    BY <1>3, <1>6, <1>10, <1>11 DEF Current
  <1>14. 0 \in 0 .. LoopCap - 1
    BY RecurringAssumption
  <1>15. QED
    BY <1>3, <1>6, <1>9, <1>12, <1>13, <1>14 DEF PlanOK, At

LEMMA AdvancePlan ==
  ASSUME IInv, PlanOK, Advance, UNCHANGED <<day, plan>>
  PROVE  PlanOK'
  <1>1. /\ Types /\ ~At("idle") /\ ~At("reread") /\ templates \in [Templates -> Template]
    BY DEF IInv, Types, TypeOK, Advance, At
  <1>2. PICK rows, row, t, turns, next :
          /\ rows = runner.rows /\ row = Current /\ t = row.id /\ turns = runner.turns
          /\ next = AddPeriod(row.next, Months(t), Day(t))
    OBVIOUS
  <1>3. t \in Templates /\ row.status = "active"
    BY <1>1, <1>2, HeadIs DEF RowOK
  <1>4. /\ runner'.at = "reread" /\ runner'.rows = rows /\ runner'.turns = turns
    <2>1. Goto("reread")
      BY DEF Advance
    <2>2. QED
      BY <1>1, <1>2, <2>1, GotoIs
  <1>5. Current' = row
    BY <1>2, <1>4 DEF Current
  <1>6. PICK new :
          /\ templates' = [templates EXCEPT ![t] = new]
          /\ new = [templates[t] EXCEPT !.next = next, !.last = runner.entry, !.done = row.done + 1,
                       !.status = IF Completes(t, row.done + 1, next) THEN "completed" ELSE row.status]
    BY <1>2 DEF Advance
  <1>7. templates'[t] = new
    BY <1>1, <1>3, <1>6
  <1>8. /\ new.next = next /\ new.done = row.done + 1
        /\ new.status = IF Completes(t, row.done + 1, next) THEN "completed" ELSE "active"
    <2>1. PICK old \in Template : old = templates[t]
      BY <1>1, <1>3
    <2>2. QED
      BY <1>3, <1>6, <2>1 DEF Template
  <1>9. Advanced(row)'
    BY <1>2, <1>7, <1>8 DEF Advanced
  <1>10. HeadPlan(row, turns)'
    BY <1>1, <1>2, HeadPlanStays DEF PlanOK
  <1>11. \A k \in DOMAIN rows : k # 1 => RowPlan(rows[k])'
    BY <1>1, <1>2, RowPlanStays DEF PlanOK
  <1>12. turns \in 0 .. LoopCap - 1
    BY <1>1, <1>2 DEF PlanOK
  <1>13. QED
    BY <1>4, <1>5, <1>9, <1>10, <1>11, <1>12 DEF PlanOK


\* The next round starts where the plan goes on.
LEMMA NextTurn ==
  ASSUME NEW row \in Row, NEW turns \in Nat, Sound(row.id), HeadPlan(row, turns), Advanced(row),
         NEW next \in Row, next.id = row.id, next.next = templates[row.id].next,
         next.done = templates[row.id].done, templates[row.id].status = "active"
  PROVE  HeadPlan(next, turns + 1)
  <1>1. PICK t \in Templates : t = row.id
    BY DEF Row
  <1>2. PICK j \in Nat, done \in Nat :
          /\ PlanIs(t, j, done)
          /\ row.next = DateAt(t, j + turns * Months(t)) /\ row.done = done + turns
    BY <1>1 DEF HeadPlan
  <1>3. /\ turns * Months(t) \in Nat /\ Months(t) \in Nat
        /\ (turns + 1) * Months(t) = turns * Months(t) + Months(t)
    <2>1. \A n \in Nat : /\ n * Months(t) \in Nat /\ Months(t) \in Nat
                         /\ (n + 1) * Months(t) = n * Months(t) + Months(t)
      BY Multiples
    <2>2. QED
      BY <2>1
  <1>4. AddPeriod(row.next, Months(t), Day(t)) = DateAt(t, j + (turns + 1) * Months(t))
    <2>1. PICK i \in Nat : i = j + turns * Months(t)
      BY <1>2, <1>3
    <2>2. AddPeriod(DateAt(t, i), Months(t), Day(t)) = DateAt(t, i + Months(t))
      BY <1>1, <1>3, <2>1, NextDate
    <2>3. i + Months(t) = j + (turns + 1) * Months(t)
      BY <1>2, <1>3, <2>1
    <2>4. QED
      BY <1>2, <2>1, <2>2, <2>3
  <1>5. /\ next.next = DateAt(t, j + (turns + 1) * Months(t))
        /\ next.done = done + (turns + 1)
        /\ t \in plan.changed \/ ~Completes(t, next.done, next.next)
    <2>1. next.next = DateAt(t, j + (turns + 1) * Months(t))
      BY <1>1, <1>4 DEF Advanced
    <2>2. next.done = row.done + 1
      BY DEF Advanced
    <2>3. t \in plan.changed \/ ~Completes(t, next.done, next.next)
      BY <1>1, <2>2 DEF Advanced
    <2>4. QED
      BY <1>2, <2>1, <2>2, <2>3
  <1>6. QED
    BY <1>1, <1>2, <1>5 DEF HeadPlan

LEMMA RereadPlan ==
  ASSUME IInv, IInv', PlanOK, Reread, UNCHANGED day, plan' = IF runner' = Resting THEN NoPlan ELSE plan
  PROVE  PlanOK'
  <1>1. /\ Types /\ ~At("idle") /\ At("reread") /\ Continue(RowOf(Current.id)) /\ UNCHANGED templates
    BY DEF IInv, Reread, At
  <1>2. CASE Skip
    BY <1>1, <1>2, SkipPlan
  <1>3. CASE ~Skip
    <2>1. PICK rows, row, turns : rows = runner.rows /\ row = Current /\ turns = runner.turns
      OBVIOUS
    <2>2. PICK t, new : t = row.id /\ new = RowOf(t)
      OBVIOUS
    <2>3. /\ rows \in Seq(Row) /\ rows # << >> /\ row \in Row /\ row = rows[1]
          /\ t \in Templates /\ Listed(t)
      BY <1>1, <2>1, <2>2, HeadIs
    <2>4. new \in Row
      BY <1>1, <2>2, <2>3, RowOfTypes
    <2>5. /\ new.id = t /\ new.status = templates[t].status /\ new.next = templates[t].next
          /\ new.done = templates[t].done
      BY <2>2 DEF RowOf
    <2>6. PICK tail \in Seq(Row) : tail = Tail(rows)
      BY <2>3, TailIs
    <2>7. PICK all \in Seq(Row) : all = <<new>> \o tail
      <3>1. <<new>> \in Seq(Row)
        BY <2>4
      <3>2. QED
        BY <2>6, <3>1, ConcatProperties
    <2>8. /\ IsDue(new, today) /\ turns + 1 < LoopCap
          /\ runner' = Begin(all, turns + 1)
      BY <1>1, <1>3, <2>1, <2>2, <2>6, <2>7 DEF Continue
    <2>9. runner'.at \in {"reverse", "create"} /\ runner'.rows = all /\ runner'.turns = turns + 1
      BY <2>8 DEF Begin, Resting
    <2>10. UNCHANGED plan
      BY <2>9 DEF Resting
    <2>11. /\ Len(all) = Len(rows) /\ DOMAIN all = DOMAIN rows /\ all[1] = new /\ Head(all) = new
           /\ \A k \in DOMAIN rows : k # 1 => all[k] = rows[k]
      <3>1. /\ Len(rows) \in Nat \ {0} /\ DOMAIN rows = 1 .. Len(rows)
            /\ Len(tail) = Len(rows) - 1
            /\ \A k \in 1 .. Len(rows) - 1 : tail[k] = rows[k + 1]
        BY <2>3, <2>6, HeadTailProperties
      <3>2. Len(all) = Len(rows) /\ all[1] = new
        <4>1. <<new>> \in Seq(Row) /\ Len(<<new>>) = 1 /\ <<new>>[1] = new
          BY <2>4
        <4>2. Len(all) = 1 + Len(tail) /\ all[1] = new
          BY <2>6, <2>7, <3>1, <4>1, ConcatProperties
        <4>3. QED
          BY <3>1, <4>2
      <3>3. DOMAIN all = DOMAIN rows /\ Head(all) = new
        BY <3>1, <3>2
      <3>4. \A k \in DOMAIN rows : k # 1 => all[k] = rows[k]
        <4> SUFFICES ASSUME NEW k \in 1 .. Len(rows), k # 1
                     PROVE  all[k] = rows[k]
          BY <3>1
        <4>1. all[k] = tail[k - 1]
          BY <2>4, <2>7, <3>1
        <4>2. tail[k - 1] = rows[k]
          BY <3>1
        <4>3. QED
          BY <4>1, <4>2
      <3>5. QED
        BY <3>2, <3>3, <3>4
    <2>12. HeadPlan(new, turns + 1)
      <3>1. turns \in Nat /\ HeadPlan(row, turns) /\ Advanced(row)
        BY <1>1, <2>1 DEF PlanOK, Types, RunnerRow
      <3>2. Sound(t) /\ templates[t].status = "active"
        BY <2>3, <2>5, <2>8 DEF IInv, TemplateOK, IsDue
      <3>3. QED
        BY <2>2, <2>3, <2>4, <2>5, <3>1, <3>2, NextTurn
    <2>13. PICK n : n = turns + 1
      OBVIOUS
    <2>14. HeadPlan(new, n)'
      BY <2>10, <2>12, <2>13, HeadPlanStays
    <2>15. \A k \in DOMAIN all : k # 1 => RowPlan(all[k])'
      <3>1. \A k \in DOMAIN rows : k # 1 => RowPlan(rows[k])'
        BY <1>1, <2>1, <2>10, RowPlanStays DEF PlanOK
      <3>2. QED
        BY <2>11, <3>1
    <2>16. n \in 0 .. LoopCap - 1
      <3>1. turns \in 0 .. LoopCap - 1 /\ LoopCap \in Nat
        BY <1>1, <2>1, RecurringAssumption DEF PlanOK
      <3>2. QED
        BY <2>8, <2>13, <3>1
    <2>17. Current' = new
      BY <2>9, <2>11 DEF Current
    <2>18. QED
      BY <2>9, <2>13, <2>14, <2>15, <2>16, <2>17 DEF PlanOK, At
  <1>4. QED
    BY <1>2, <1>3

LEMMA RunDuePlan ==
  ASSUME IInv, RunDue, UNCHANGED day
  PROVE  PlanOK'
  <1>1. Types /\ \A t \in Templates : TemplateOK(t)
    BY DEF IInv
  <1>2. PICK ids \in [1 .. Cardinality(Due) -> Due] :
          /\ DueInOrder(ids)
          /\ runner' = Begin(DueRows(ids), 0)
          /\ plan' = [runs |-> UNION {Preview(DueRows(ids)[k]) : k \in DOMAIN ids}, changed |-> {}]
    BY DEF RunDue
  <1>3. PICK rows : rows = DueRows(ids)
    OBVIOUS
  <1>4. /\ rows \in Seq(Row) /\ rows # << >> /\ DOMAIN rows = DOMAIN ids
        /\ \A k \in DOMAIN ids : ids[k] \in Due /\ rows[k] = [RowOf(ids[k]) EXCEPT !.final = FALSE]
        /\ \A j, k \in DOMAIN ids : ids[j] = ids[k] => j = k
    <2>1. Due # {}
      BY DEF RunDue
    <2>2. QED
      BY <1>1, <1>2, <1>3, <2>1, DueRowsAre
  <1>5. \A k \in DOMAIN rows : rows[k] \in Row
    <2>1. rows \in Seq(Row)
      BY <1>4
    <2>2. QED
      BY <2>1
  <1>6. \A k \in DOMAIN rows :
          /\ rows[k].id = ids[k] /\ ids[k] \in Templates /\ Sound(ids[k])
          /\ OnSchedule(ids[k], rows[k].next)
    <2> TAKE k \in DOMAIN rows
    <2>1. ids[k] \in Templates /\ Listed(ids[k])
      BY <1>4 DEF Due, IsDue, Listed
    <2>2. rows[k] = [RowOf(ids[k]) EXCEPT !.final = FALSE]
      BY <1>4
    <2>3. rows[k].id = ids[k] /\ rows[k].next = templates[ids[k]].next
      BY <2>2 DEF RowOf
    <2>4. Sound(ids[k]) /\ OnSchedule(ids[k], templates[ids[k]].next)
      BY <1>1, <2>1 DEF TemplateOK
    <2>5. QED
      BY <2>1, <2>3, <2>4
  <1>7. plan'.runs = UNION {Preview(rows[k]) : k \in DOMAIN rows}
    BY <1>2, <1>3, <1>4
  <1>8. \A k \in DOMAIN rows : RowPlan(rows[k])'
    <2> TAKE k \in DOMAIN rows
    <2>1. PICK row \in Row, t \in Templates : row = rows[k] /\ t = row.id /\ Sound(t) /\ OnSchedule(t, row.next)
      BY <1>5, <1>6
    <2>2. PICK j \in Nat : row.next = DateAt(t, j)
      BY <2>1 DEF OnSchedule
    <2>3. PICK done : done = row.done
      OBVIOUS
    <2>4. ASSUME NEW d \in Nat
          PROVE  <<t, d>> \in plan'.runs <=> <<t, d>> \in Preview(row)
      <3>1. ASSUME NEW l \in DOMAIN rows, <<t, d>> \in Preview(rows[l])
            PROVE  l = k
        <4>1. PICK other \in Row, u \in Templates :
                other = rows[l] /\ u = other.id /\ Sound(u) /\ OnSchedule(u, other.next)
          BY <1>5, <1>6
        <4>2. PICK i \in Nat : other.next = DateAt(u, i)
          BY <4>1 DEF OnSchedule
        <4>3. \E n \in 0 .. LoopCap - 1 : <<t, d>> = <<u, DateAt(u, i + n * Months(u))>>
          BY <3>1, <4>1, <4>2, PreviewIs
        <4>4. t = u
          BY <4>3
        <4>5. QED
          BY <1>4, <1>6, <2>1, <4>1, <4>4
      <3>2. QED
        BY <1>7, <2>1, <3>1
    <2>5. ASSUME NEW d \in Nat
          PROVE  <<t, d>> \in Preview(row) <=>
                   \E n \in 0 .. LoopCap - 1 :
                     /\ d = DateAt(t, j + n * Months(t))
                     /\ d <= today
                     /\ n = 0 \/ ~Completes(t, done + n, d)
      <3>1. <<t, d>> \in Preview(row) <=>
              \E n \in 0 .. LoopCap - 1 :
                /\ <<t, d>> = <<t, DateAt(t, j + n * Months(t))>>
                /\ DateAt(t, j + n * Months(t)) <= today
                /\ n = 0 \/ ~Completes(t, done + n, DateAt(t, j + n * Months(t)))
        BY <2>1, <2>2, <2>3, PreviewIs
      <3>2. \A n : <<t, d>> = <<t, DateAt(t, j + n * Months(t))>> <=> d = DateAt(t, j + n * Months(t))
        OBVIOUS
      <3>3. QED
        BY <3>1, <3>2
    <2>6. PlanIs(t, j, done)'
      BY <2>4, <2>5 DEF PlanIs, today
    <2>7. RowPlan(row)'
      BY <2>1, <2>2, <2>3, <2>6 DEF RowPlan
    <2>8. QED
      BY <2>1, <2>7
  <1>9. runner'.at \in {"reverse", "create"} /\ runner'.rows = rows /\ runner'.turns = 0
    BY <1>2, <1>3 DEF Begin, Resting
  <1>10. Head(rows) = rows[1] /\ 1 \in DOMAIN rows
    BY <1>4, TailIs
  <1>11. PICK row \in Row : row = rows[1]
    BY <1>5, <1>10
  <1>12. RowPlan(row)'
    BY <1>8, <1>10, <1>11
  <1>13. HeadPlan(row, 0)'
    BY <1>12, FirstTurn, PTL
  <1>14. Current' = row
    BY <1>9, <1>10, <1>11 DEF Current
  <1>15. 0 \in 0 .. LoopCap - 1
    BY RecurringAssumption
  <1>16. QED
    BY <1>8, <1>9, <1>13, <1>14, <1>15 DEF PlanOK, At


\* What others do meanwhile: a status they write counts as changed.
LEMMA OutsidePlan ==
  ASSUME IInv, PlanOK, UNCHANGED runner, ~At("idle") => UNCHANGED day,
         plan'.runs = plan.runs, plan.changed \subseteq plan'.changed,
         \A t \in Templates : Listed(t) =>
           /\ templates'[t].next = templates[t].next /\ templates'[t].done = templates[t].done
           /\ ~At("idle") => t \in plan'.changed \/ templates'[t].status = templates[t].status
  PROVE  PlanOK'
  <1> SUFFICES ASSUME ~At("idle")
               PROVE  PlanOK'
    BY DEF PlanOK, At
  <1>1. PICK rows, row, turns : rows = runner.rows /\ row = Current /\ turns = runner.turns
    OBVIOUS
  <1>2. row.id \in Templates /\ Listed(row.id)
    BY <1>1, HeadIs
  <1>3. Current' = row /\ runner'.rows = rows /\ runner'.turns = turns
    BY <1>1 DEF Current
  <1>4. HeadPlan(row, turns)'
    BY <1>1, HeadPlanStays DEF PlanOK
  <1>5. \A k \in DOMAIN rows : k # 1 => RowPlan(rows[k])'
    BY <1>1, RowPlanStays DEF PlanOK
  <1>6. runner'.at = "reread" => Advanced(row)'
    <2> SUFFICES ASSUME At("reread")
                 PROVE  Advanced(row)'
      BY DEF At
    <2>1. Advanced(row)
      BY <1>1 DEF PlanOK
    <2>2. /\ templates'[row.id].next = templates[row.id].next
          /\ templates'[row.id].done = templates[row.id].done
          /\ row.id \in plan'.changed \/ templates'[row.id].status = templates[row.id].status
      BY <1>2
    <2>3. row.id \in plan'.changed
          \/ templates'[row.id].status =
               IF Completes(row.id, row.done + 1, templates'[row.id].next) THEN "completed" ELSE "active"
      BY <2>1, <2>2 DEF Advanced
    <2>4. QED
      BY <2>1, <2>2, <2>3 DEF Advanced
  <1>7. turns \in 0 .. LoopCap - 1
    BY <1>1 DEF PlanOK
  <1>8. QED
    BY <1>3, <1>4, <1>5, <1>6, <1>7 DEF PlanOK, At

LEMMA ManagePlan ==
  ASSUME IInv, PlanOK, Manage
  PROVE  PlanOK'
  <1>1. UNCHANGED <<books, usable, day, runner, crashes>>
    BY DEF Manage
  <1>2. /\ Types /\ templates \in [Templates -> Template] /\ plan \in PlanRow
    BY DEF IInv, Types, TypeOK
  <1>3. ASSUME NEW t \in Templates, Add(t) \/ AddFinal(t), UNCHANGED history
        PROVE  PlanOK'
    <2>1. ASSUME NEW u \in Templates, Listed(u)
          PROVE  /\ templates'[u].next = templates[u].next /\ templates'[u].done = templates[u].done
                 /\ templates'[u].status = templates[u].status
      <3>1. CASE u = t
        <4>1. PICK old \in Template : old = templates[t]
          BY <1>2
        <4>2. ~Add(t)
          <5>1. t \in Nat
            BY IdsAreNumbers, Zenon
          <5>2. t >= t
            BY <5>1
          <5>3. templates[t].status # "none"
            BY <2>1, <3>1 DEF Listed
          <5>4. QED
            BY <5>2, <5>3 DEF Add
        <4>3. templates' = [templates EXCEPT ![t] = [old EXCEPT !.final = TRUE]]
          BY <1>3, <4>1, <4>2 DEF AddFinal
        <4>4. templates'[t] = [old EXCEPT !.final = TRUE]
          BY <1>2, <4>3
        <4>5. QED
          BY <3>1, <4>1, <4>4 DEF Template
      <3>2. CASE u # t
        BY <1>2, <1>3, <3>2 DEF Add, AddFinal
      <3>3. QED
        BY <3>1, <3>2
    <2>2. UNCHANGED plan
      BY <1>3 DEF history
    <2>3. QED
      BY <1>1, <2>1, <2>2, OutsidePlan
  <1>4. ASSUME NEW t \in Templates, WriteStatus(t)
        PROVE  PlanOK'
    <2>1. PICK to : to = clerk.op
      OBVIOUS
    <2>2. ASSUME NEW u \in Templates
          PROVE  /\ templates'[u].next = templates[u].next /\ templates'[u].done = templates[u].done
                 /\ u = t \/ templates'[u].status = templates[u].status
      <3>1. CASE u = t
        <4>1. PICK old \in Template : old = templates[t]
          BY <1>2
        <4>2. templates' = [templates EXCEPT ![t] = [old EXCEPT !.status = to]]
          BY <1>4, <2>1, <4>1 DEF WriteStatus
        <4>3. templates'[t] = [old EXCEPT !.status = to]
          BY <1>2, <4>2
        <4>4. QED
          BY <3>1, <4>1, <4>3 DEF Template
      <3>2. CASE u # t
        BY <1>2, <1>4, <3>2 DEF WriteStatus
      <3>3. QED
        BY <3>1, <3>2
    <2>3. /\ plan'.runs = plan.runs /\ plan.changed \subseteq plan'.changed
          /\ ~At("idle") => t \in plan'.changed
      BY <1>2, <1>4 DEF WriteStatus, PlanRow
    <2>4. QED
      BY <1>1, <2>2, <2>3, OutsidePlan
  <1>5. ASSUME UNCHANGED <<templates, history>>
        PROVE  PlanOK'
    BY <1>1, <1>5, OutsidePlan DEF history
  <1>6. QED
    BY <1>3, <1>4, <1>5 DEF Manage, ClerkDies, CheckStatus

LEMMA RunPlan ==
  ASSUME IInv, IInv', PlanOK, Run
  PROVE  PlanOK'
  <1>1. UNCHANGED day
    BY DEF Run
  <1>2. CASE RunDue
    BY <1>1, <1>2, RunDuePlan
  <1>3. CASE /\ \/ ReversePrevious \/ CreateEntry \/ PostEntry \/ CreateInvoice \/ Fail
                \/ Advance \/ Reread
             /\ plan' = IF runner' = Resting THEN NoPlan ELSE plan
    <2>1. PICK rows : rows = runner.rows
      OBVIOUS
    <2>2. Types /\ runner \in RunnerRow
      BY DEF IInv, Types
    <2>3. CASE ReversePrevious \/ PostEntry \/ CreateEntry \/ CreateInvoice
      <3>1. ~At("idle") /\ ~At("reread")
        BY <2>3 DEF ReversePrevious, PostEntry, CreateEntry, CreateInvoice, At
      <3>2. /\ runner'.at \in {"create", "post", "advance"} /\ runner'.rows = rows
            /\ runner'.turns = runner.turns
        BY <2>1, <2>2, <2>3 DEF ReversePrevious, PostEntry, CreateEntry, CreateInvoice, Goto, RunnerRow
      <3>3. UNCHANGED plan
        BY <1>3, <3>2 DEF Resting
      <3>4. runner'.at # "reread"
        BY <3>2
      <3>5. QED
        BY <1>1, <2>1, <3>1, <3>2, <3>3, <3>4, SamePlan
    <2>4. CASE Fail
      <3>1. ~At("idle") /\ Skip
        BY <2>4 DEF Fail, At
      <3>2. QED
        BY <1>1, <1>3, <3>1, SkipPlan
    <2>5. CASE Advance
      <3>1. runner'.at = "reread"
        BY <2>2, <2>5 DEF Advance, Goto, RunnerRow
      <3>2. UNCHANGED plan
        BY <1>3, <3>1 DEF Resting
      <3>3. QED
        BY <1>1, <2>5, <3>2, AdvancePlan
    <2>6. CASE Reread
      BY <1>1, <1>3, <2>6, RereadPlan
    <2>7. QED
      BY <1>3, <2>3, <2>4, <2>5, <2>6
  <1>4. QED
    BY <1>2, <1>3 DEF Run

LEMMA NextPlanOK == IInv /\ IInv' /\ PlanOK /\ [Next]_vars => PlanOK'
  <1> SUFFICES ASSUME IInv, IInv', PlanOK, [Next]_vars
               PROVE  PlanOK'
    OBVIOUS
  <1>1. CASE Run
    BY <1>1, RunPlan
  <1>2. CASE Crash
    BY <1>2 DEF Crash, Resting, PlanOK, At
  <1>3. CASE Manage
    BY <1>3, ManagePlan
  <1>4. CASE Switch
    BY <1>4, OutsidePlan DEF Switch, history
  <1>5. CASE Tick
    BY <1>5 DEF Tick, PlanOK, At
  <1>6. CASE UNCHANGED vars
    BY <1>6, OutsidePlan DEF vars, history
  <1>7. QED
    BY <1>1, <1>2, <1>3, <1>4, <1>5, <1>6 DEF Next

\* A template that has ended stays ended.
LEMMA EndedStays ==
  ASSUME NEW t \in Templates, NEW m \in Nat, NEW n \in Nat, m <= n, NEW d \in Nat, NEW e \in Nat, d <= e,
         Completes(t, m, d)
  PROVE  Completes(t, n, e)
  <1>1. Runs(t) \in Nat /\ End(t) \in Nat
    BY RecurringAssumption
  <1>2. QED
    BY <1>1 DEF Completes

LEMMA AsPreviewed == IInv /\ PlanOK => PreviewTellsRun
  <1> SUFFICES ASSUME IInv, PlanOK, ~At("idle")
               PROVE  PreviewTellsRun
    BY DEF PreviewTellsRun
  <1>1. PICK row, t, turns : row = Current /\ t = row.id /\ turns = runner.turns
    OBVIOUS
  <1>2. /\ row \in Row /\ t \in Templates /\ Listed(t) /\ Sound(t) /\ templates[t] \in Template
        /\ (~At("reread") => RowOK(row)) /\ today \in Nat
    BY <1>1, HeadIs, TodayIs DEF IInv, TemplateOK, Types, TypeOK
  <1>3. PICK j \in Nat, done \in Nat :
          /\ PlanIs(t, j, done)
          /\ row.next = DateAt(t, j + turns * Months(t)) /\ row.done = done + turns
          /\ turns # 0 => t \in plan.changed \/ ~Completes(t, row.done, row.next)
    BY <1>1 DEF PlanOK, HeadPlan
  <1>4. turns \in 0 .. LoopCap - 1 /\ turns \in Nat /\ LoopCap \in Nat
    BY <1>1, RecurringAssumption DEF PlanOK
  <1>5. ASSUME ~At("reread")
        PROVE  <<t, row.next>> \in plan.runs \/ t \in plan.changed
    <2>1. row.next \in Nat /\ row.next <= today
      BY <1>2, <1>5 DEF Row, RowOK
    <2>2. QED
      BY <1>3, <1>4, <2>1 DEF PlanIs
  <1>6. ASSUME At("reread"), ~IsDue(templates[t], today) \/ turns + 1 >= LoopCap, t \notin plan.changed,
               NEW p \in plan.runs, p[1] = t
        PROVE  p[2] < templates[t].next
    <2>1. PICK d \in Nat : p = <<t, d>>
      BY <1>6 DEF IInv, Types, PlanRow
    <2>2. PICK k \in 0 .. LoopCap - 1 :
            /\ d = DateAt(t, j + k * Months(t))
            /\ d <= today
            /\ k = 0 \/ ~Completes(t, done + k, d)
      BY <1>3, <1>6, <2>1 DEF PlanIs
    <2>3. Advanced(row)
      BY <1>1, <1>6 DEF PlanOK
    <2>4. PICK next \in Nat : next = templates[t].next
      BY <1>2 DEF Template
    <2>5. next = DateAt(t, j + (turns + 1) * Months(t))
      <3>1. /\ turns * Months(t) \in Nat /\ Months(t) \in Nat
            /\ (turns + 1) * Months(t) = turns * Months(t) + Months(t)
        <4>1. \A n \in Nat : /\ n * Months(t) \in Nat /\ Months(t) \in Nat
                             /\ (n + 1) * Months(t) = n * Months(t) + Months(t)
          BY <1>2, Multiples
        <4>2. QED
          BY <1>4, <4>1
      <3>2. PICK i \in Nat : i = j + turns * Months(t)
        BY <1>3, <3>1
      <3>3. AddPeriod(DateAt(t, i), Months(t), Day(t)) = DateAt(t, i + Months(t))
        BY <1>2, <3>1, <3>2, NextDate
      <3>4. i + Months(t) = j + (turns + 1) * Months(t)
        BY <1>3, <3>1, <3>2
      <3>5. next = AddPeriod(row.next, Months(t), Day(t))
        BY <1>1, <2>3, <2>4 DEF Advanced
      <3>6. QED
        BY <1>3, <3>2, <3>3, <3>4, <3>5
    <2>6. PICK e \in Nat, f \in Nat : e = j + k * Months(t) /\ f = j + (turns + 1) * Months(t)
      <3>1. k * Months(t) \in Nat /\ (turns + 1) * Months(t) \in Nat
        <4>1. k \in Nat /\ turns + 1 \in Nat
          BY <1>4, <2>2
        <4>2. \A n \in Nat : n * Months(t) \in Nat
          BY <1>2, Multiples
        <4>3. QED
          BY <4>1, <4>2
      <3>2. QED
        BY <1>3, <3>1
    <2>7. CASE k <= turns
      <3>1. k * Months(t) <= turns * Months(t) /\ turns * Months(t) \in Nat /\ k * Months(t) \in Nat
        <4>1. k \in Nat
          BY <1>4, <2>2
        <4>2. \A n \in Nat : n * Months(t) \in Nat
          BY <1>2, Multiples
        <4>3. \A m \in Nat : m <= turns => m * Months(t) <= turns * Months(t)
          BY <1>2, <1>4, Multiples
        <4>4. QED
          BY <1>4, <2>7, <4>1, <4>2, <4>3
      <3>2. (turns + 1) * Months(t) = turns * Months(t) + Months(t) /\ Months(t) \in Nat /\ Months(t) # 0
        <4>1. \A n \in Nat : (n + 1) * Months(t) = n * Months(t) + Months(t)
          BY <1>2, Multiples
        <4>2. Months(t) \in Nat /\ Months(t) # 0
          BY <1>2, MonthsAre
        <4>3. QED
          BY <1>4, <4>1, <4>2
      <3>3. e < f
        BY <1>3, <2>6, <3>1, <3>2
      <3>4. d < next
        BY <1>2, <2>2, <2>5, <2>6, <3>3, DatesGrow
      <3>5. QED
        BY <2>1, <2>4, <3>4
    <2>8. CASE ~(k <= turns)
      <3>1. k >= turns + 1 /\ ~(turns + 1 >= LoopCap) /\ k # 0 /\ k \in Nat
        BY <1>4, <2>2, <2>8
      <3>2. (turns + 1) * Months(t) <= k * Months(t)
        <4>1. \A n \in Nat : \A m \in Nat : m <= n => m * Months(t) <= n * Months(t)
          BY <1>2, Multiples
        <4>2. turns + 1 \in Nat /\ turns + 1 <= k
          BY <1>4, <3>1
        <4>3. QED
          BY <3>1, <4>1, <4>2
      <3>3. f <= e
        <4>1. k * Months(t) \in Nat /\ (turns + 1) * Months(t) \in Nat
          <5>1. \A n \in Nat : n * Months(t) \in Nat
            BY <1>2, Multiples
          <5>2. k \in Nat /\ turns + 1 \in Nat
            BY <1>4, <3>1
          <5>3. QED
            BY <5>1, <5>2
        <4>2. QED
          BY <1>3, <2>6, <3>2, <4>1
      <3>4. next <= d
        <4>1. f < e \/ f = e
          BY <2>6, <3>3
        <4>2. DateAt(t, f) < DateAt(t, e) \/ DateAt(t, f) = DateAt(t, e)
          BY <1>2, <2>6, <4>1, DatesGrow
        <4>3. QED
          BY <2>1, <2>2, <2>4, <2>5, <2>6, <4>2
      <3>5. templates[t].status # "active"
        BY <1>2, <1>6, <2>1, <2>2, <2>4, <3>1, <3>4 DEF IsDue
      <3>6. Completes(t, row.done + 1, next)
        BY <1>1, <1>6, <2>3, <2>4, <3>5 DEF Advanced
      <3>7. row.done + 1 \in Nat /\ done + k \in Nat /\ row.done + 1 <= done + k
        BY <1>3, <1>4, <3>1
      <3>8. Completes(t, done + k, d)
        BY <1>2, <2>1, <2>4, <3>4, <3>6, <3>7, EndedStays
      <3>9. QED
        BY <2>2, <3>1, <3>8
    <2>9. QED
      BY <2>7, <2>8
  <1>7. QED
    BY <1>1, <1>5, <1>6 DEF PreviewTellsRun

\* What --dry-run shows at the first moment of a run is what the run then does: it
\* books nothing else, and leaves no template before all that was listed of it is
\* booked, unless it failed or its status was written meanwhile.
THEOREM RunDoesAsPreviewed == Spec => []PreviewTellsRun
  <1>1. Init => PlanOK
    BY DEF Init, PlanOK, At, Resting
  <1>2. IInv /\ IInv' /\ PlanOK /\ [Next]_vars => PlanOK'
    BY NextPlanOK
  <1>3. IInv /\ PlanOK => PreviewTellsRun
    BY AsPreviewed
  <1>4. QED
    BY <1>1, <1>2, <1>3, Invariance, PTL DEF Spec


----------------------------------------------------------------------------------
(* The excesses of the templates add up. *)

\* A sum grows by no more than the one term that grows.
LEMMA AddsGrow ==
  ASSUME NEW S, IsFiniteSet(S), NEW f \in [S -> Int], NEW h \in [S -> Int], NEW c, NEW b \in Nat,
         \A x \in S : h[x] <= f[x] + (IF x = c THEN b ELSE 0),
         NEW F, Adds(F, f, S), NEW H, Adds(H, h, S)
  PROVE  H[S] <= F[S] + b
  <1> DEFINE room(s) == IF c \in s THEN b ELSE 0
             W == {s \in SUBSET S : ~(H[s] <= F[s] + room(s))}
  <1>1. ASSUME NEW s \in W, s # {}, s \ {Pick(s)} \notin W
        PROVE  FALSE
    <2>1. PICK x, r : x = Pick(s) /\ r = s \ {x}
      OBVIOUS
    <2>2. x \in s /\ x \in S /\ r \in SUBSET S
      BY <1>1, <2>1, PickIs
    <2>3. H[s] = h[x] + H[r] /\ F[s] = f[x] + F[r]
      <3>1. \A t \in SUBSET S : t # {} => /\ F[t] = f[Pick(t)] + F[t \ {Pick(t)}]
                                         /\ H[t] = h[Pick(t)] + H[t \ {Pick(t)}]
        BY AddsAt
      <3>2. s \in SUBSET S
        BY <1>1
      <3>3. QED
        BY <1>1, <2>1, <3>1, <3>2
    <2>4. /\ H[r] \in Int /\ F[r] \in Int /\ h[x] \in Int /\ f[x] \in Int
          /\ H[s] \in Int /\ F[s] \in Int
      BY <2>2, AddsTyped
    <2>5. H[r] <= F[r] + room(r)
      BY <1>1, <2>1, <2>2
    <2>6. CASE x = c
      <3>1. room(r) = 0 /\ room(s) = b
        BY <2>1, <2>2, <2>6
      <3>2. h[x] <= f[x] + b
        BY <2>2, <2>6
      <3>3. H[s] <= F[s] + room(s)
        BY <2>3, <2>4, <2>5, <3>1, <3>2
      <3>4. QED
        BY <1>1, <3>3
    <2>7. CASE x # c
      <3>1. room(r) = room(s) /\ room(s) \in Nat
        BY <2>1, <2>7
      <3>2. h[x] <= f[x]
        BY <2>2, <2>4, <2>7
      <3> HIDE DEF room
      <3>3. H[s] <= F[s] + room(s)
        BY <2>3, <2>4, <2>5, <3>1, <3>2
      <3>4. QED
        BY <1>1, <3>3
    <2>8. QED
      BY <2>6, <2>7
  <1>2. W = {}
    <2> SUFFICES ASSUME W # {}
                 PROVE  FALSE
      OBVIOUS
    <2>1. W \in SUBSET SUBSET S
      OBVIOUS
    <2>2. PICK s \in W : s = {} \/ s \ {Pick(s)} \notin W
      <3> HIDE DEF W
      <3>1. QED
        BY <2>1, LeastSet
    <2>3. s # {}
      <3>1. F[{}] = 0 /\ H[{}] = 0 /\ room({}) = 0
        BY AddsAt
      <3>2. ~(H[s] <= F[s] + room(s))
        BY <2>2
      <3> HIDE DEF room
      <3>3. ~(s = {})
        BY <3>1, <3>2
      <3>4. QED
        BY <3>3
    <2>4. QED
      BY <1>1, <2>2, <2>3
  <1>3. S \in SUBSET S /\ F[S] \in Int /\ H[S] \in Int
    BY AddsTyped
  <1>4. H[S] <= F[S] + room(S)
    BY <1>2, <1>3
  <1>5. QED
    BY <1>3, <1>4

\* A sum of zeros is zero.
(* What was booked more than once. *)

Ex == [t \in Templates |-> Excess(t)]

LEMMA ExcessSumIs == \E g : Adds(g, Ex, Templates) /\ MapThenSumSet(Excess, Templates) = g[Templates]
  <1> DEFINE P(g) == g = [s \in SUBSET Templates |->
                            IF s = {} THEN 0 ELSE Excess(Pick(s)) + g[s \ {Pick(s)}]]
  <1>1. MapThenSumSet(Excess, Templates) = (CHOOSE g : P(g))[Templates]
    BY DEF MapThenSumSet, MapThenFoldSet, Pick
  <1>2. ASSUME NEW g
        PROVE  P(g) <=> Adds(g, Ex, Templates)
    <2>1. \A s \in SUBSET Templates : (IF s = {} THEN 0 ELSE Excess(Pick(s)) + g[s \ {Pick(s)}])
                                    = (IF s = {} THEN 0 ELSE Ex[Pick(s)] + g[s \ {Pick(s)}])
      <3> TAKE s \in SUBSET Templates
      <3>1. s # {} => Pick(s) \in Templates
        BY PickIs
      <3>2. s # {} => Ex[Pick(s)] = Excess(Pick(s))
        BY <3>1 DEF Ex
      <3>3. QED
        BY <3>2
    <2>2. [s \in SUBSET Templates |-> IF s = {} THEN 0 ELSE Excess(Pick(s)) + g[s \ {Pick(s)}]]
        = [s \in SUBSET Templates |-> IF s = {} THEN 0 ELSE Ex[Pick(s)] + g[s \ {Pick(s)}]]
      BY <2>1, Zenon
    <2>3. QED
      BY <2>2 DEF Adds
  <1>3. \E g : P(g)
    <2>1. \E g : Adds(g, Ex, Templates)
      BY RecurringAssumption, AddsExists
    <2> HIDE DEF P
    <2>2. QED
      BY <1>2, <2>1
  <1> HIDE DEF P
  <1>4. P(CHOOSE g : P(g))
    BY <1>3
  <1>5. QED
    BY <1>1, <1>2, <1>4


\* The bookings Times counts.
Counted(t) ==
  IF Invoicing(t) THEN {d \in DOMAIN drafts : drafts[d][1] = t}
                  ELSE {i \in Ids : IsPosted(i) /\ Of(i, t)}

LEMMA TimesIs ==
  ASSUME NEW t
  PROVE  Times(t) = Cardinality(Counted(t))
  BY DEF Times, Counted, Of

LEMMA CountedIs ==
  ASSUME BooksOK, NEW t
  PROVE  IsFiniteSet(Counted(t)) /\ Times(t) \in Nat
  <1>1. Len(drafts) \in Nat /\ Len(entries) \in Nat
    BY DEF BooksOK
  <1>2. IsFiniteSet(1 .. Len(drafts)) /\ IsFiniteSet(1 .. Len(entries))
    BY <1>1, FS_Interval
  <1>3. Counted(t) \subseteq 1 .. Len(drafts) \/ Counted(t) \subseteq 1 .. Len(entries)
    BY Indices DEF Counted
  <1>4. IsFiniteSet(Counted(t))
    BY <1>2, <1>3, FS_Subset
  <1>5. QED
    BY <1>4, FS_CardinalityType, TimesIs

LEMMA ExcessTyped ==
  ASSUME Types
  PROVE  Ex \in [Templates -> Int]
  <1>1. BooksOK
    BY BooksTyped
  <1>2. \A t \in Templates : Excess(t) \in Int
    <2> TAKE t \in Templates
    <2>1. Times(t) \in Nat
      BY <1>1, CountedIs
    <2>2. templates[t].done \in Nat
      BY DEF Types, TypeOK, Template
    <2>3. InFlight(t) \in Nat
      BY DEF InFlight
    <2>4. QED
      BY <2>1, <2>2, <2>3 DEF Excess
  <1>3. QED
    BY <1>2 DEF Ex

\* Nothing that counts is booked.
LEMMA SameTimes ==
  ASSUME Later, UNCHANGED drafts, NEW t,
         \A i \in Ids' : IsPosted(i)' /\ Of(i, t)' => i \in Ids /\ IsPosted(i)
  PROVE  Times(t)' = Times(t)
  <1>1. CASE Invoicing(t)
    BY <1>1 DEF Times
  <1>2. CASE ~Invoicing(t)
    <2>1. \A i \in Ids : i \in Ids' /\ (IsPosted(i) => IsPosted(i)') /\ (Of(i, t) <=> Of(i, t)')
      BY DEF Later, Of
    <2>2. {i \in Ids : IsPosted(i) /\ Of(i, t)} = {i \in Ids' : IsPosted(i)' /\ Of(i, t)'}
      BY <2>1
    <2>3. QED
      BY <1>2, <2>2 DEF Times, Of
  <1>3. QED
    BY <1>1, <1>2

\* One booking that counts is added.
LEMMA OneMore ==
  ASSUME NEW S, IsFiniteSet(S), NEW x, x \notin S, NEW T, T = S \cup {x}
  PROVE  Cardinality(T) = Cardinality(S) + 1
  BY FS_AddElement

LEMMA UnchangedTimes ==
  ASSUME BooksOK, UNCHANGED books, NEW t
  PROVE  Times(t)' = Times(t)
  <1>1. Later /\ Ids' = Ids /\ UNCHANGED <<entries, drafts>>
    BY NothingBooked DEF books
  <1>2. \A i \in Ids' : IsPosted(i)' => i \in Ids /\ IsPosted(i)
    BY <1>1 DEF IsPosted
  <1>3. QED
    BY <1>1, <1>2, SameTimes

\* A step that books nothing that counts, and neither begins nor ends the time
\* between a booking and its advance.
LEMMA SameExcess ==
  ASSUME NEW t, Times(t)' = Times(t), UNCHANGED templates,
         UNCHANGED runner \/ (~At("advance") /\ ~At("advance")')
  PROVE  Excess(t)' = Excess(t)
  <1>1. InFlight(t)' = InFlight(t)
    BY DEF InFlight, At, Current
  <1>2. QED
    BY <1>1 DEF Excess

LEMMA ReversePreviousExcess ==
  ASSUME IInv, ReversePrevious, NEW t \in Templates
  PROVE  Excess(t)' = Excess(t)
  <1>1. Types /\ BooksOK /\ ~At("idle") /\ runner.at = "reverse"
    BY BooksTyped DEF IInv, ReversePrevious, At
  <1>2. Times(t)' = Times(t)
    <2>1. CASE HasReversal(Current.last)
      <3>1. UNCHANGED books
        BY <2>1 DEF ReversePrevious, books
      <3>2. QED
        BY <1>1, <3>1, UnchangedTimes
    <2>2. CASE ~HasReversal(Current.last)
      <3>1. PICK last : last = Current.last
        OBVIOUS
      <3>2. last \in Ids
        <4>1. last \in Nat /\ last <= Len(entries)
          BY <1>1, <3>1, HeadIs
        <4>2. last # 0
          BY <1>1, <3>1 DEF IInv, HeadOK, At
        <4>3. QED
          BY <1>1, <4>1, <4>2, Indices
      <3>3. InsertReversal(last) /\ periods' = Append(periods, periods[last]) /\ UNCHANGED drafts
        BY <2>2, <3>1 DEF ReversePrevious
      <3>4. Later /\ \A r \in Ids' : r \in Ids \/ entries'[r].source # "recurring"
        BY <1>1, <3>2, <3>3, ReversalBooked
      <3>5. \A r \in Ids : entries'[r] = entries[r]
        BY <1>1, <3>3 DEF InsertReversal, BooksOK, Ids
      <3>6. \A i \in Ids' : IsPosted(i)' /\ Of(i, t)' => i \in Ids /\ IsPosted(i)
        BY <3>4, <3>5 DEF IsPosted, Of
      <3>7. QED
        BY <3>3, <3>4, <3>6, SameTimes
    <2>3. QED
      BY <2>1, <2>2
  <1>3. UNCHANGED templates /\ ~At("advance") /\ ~At("advance")'
    <2>1. PICK rows : rows = runner.rows
      OBVIOUS
    <2>2. Goto("create") /\ UNCHANGED templates
      BY DEF ReversePrevious
    <2>3. runner'.at = "create"
      BY <1>1, <2>1, <2>2, GotoIs
    <2>4. QED
      BY <1>1, <2>2, <2>3 DEF At
  <1>4. QED
    BY <1>2, <1>3, SameExcess

LEMMA CreateEntryExcess ==
  ASSUME IInv, CreateEntry, NEW t \in Templates
  PROVE  Excess(t)' = Excess(t)
  <1>1. /\ Types /\ BooksOK /\ ~At("idle") /\ ~At("reread") /\ runner.at = "create"
        /\ UNCHANGED <<templates, drafts>>
    BY BooksTyped DEF IInv, CreateEntry, At
  <1>2. PICK row \in Row : row = Current
    BY <1>1, HeadIs
  <1>3. PICK u \in Templates, date \in Nat, n \in Nat : u = row.id /\ date = row.next /\ n = LastId + 1
    BY <1>1 DEF Row, BooksOK, LastId
  <1>4. PICK l \in PostingLists : InsertDraft(l, "recurring", u)
    <2>1. Final(u) \in PostingLists /\ Normal(u) \in PostingLists
      BY RecurringAssumption
    <2>2. QED
      BY <1>2, <1>3, <2>1 DEF CreateEntry
  <1>5. periods' = Append(periods, date)
    BY <1>2, <1>3 DEF CreateEntry
  <1>6. Later /\ IsDraft(n)' /\ \A r \in Ids' : r \in Ids \/ r = n
    BY <1>1, <1>3, <1>4, <1>5, DraftBooked
  <1>7. \A r \in Ids : entries'[r] = entries[r]
    BY <1>1, <1>4 DEF InsertDraft, BooksOK, Ids
  <1>8. \A i \in Ids' : IsPosted(i)' => i \in Ids /\ IsPosted(i)
    BY <1>6, <1>7 DEF IsPosted, IsDraft
  <1>9. Times(t)' = Times(t)
    BY <1>1, <1>6, <1>8, SameTimes
  <1>10. runner'.at = "post"
    BY <1>1 DEF CreateEntry, Types, RunnerRow
  <1>11. QED
    BY <1>1, <1>9, <1>10, SameExcess DEF At


\* A booking opens the time in flight, and the advance closes it.
LEMMA PostEntryExcess ==
  ASSUME IInv, PostEntry, NEW t \in Templates
  PROVE  Excess(t)' = Excess(t)
  <1>1. /\ Types /\ BooksOK /\ ~At("idle") /\ runner.at = "post"
        /\ UNCHANGED <<templates, periods, drafts>>
    BY BooksTyped DEF IInv, PostEntry, At
  <1>2. PICK row, n, rows : row = Current /\ n = runner.entry /\ rows = runner.rows
    OBVIOUS
  <1>3. ~Invoicing(row.id) /\ n \in Ids /\ Of(n, row.id) /\ MarkPosted(n)
    BY <1>1, <1>2 DEF IInv, HeadOK, At, PostEntry
  <1>4. Later /\ Ids' = Ids /\ IsPosted(n)' /\ ~IsPosted(n)
    <2>1. Later /\ Ids' = Ids /\ IsPosted(n)'
      BY <1>1, <1>3, PostingBooked
    <2>2. IsDraft(n)
      BY <1>3 DEF MarkPosted, MayMarkPosted
    <2>3. QED
      BY <2>1, <2>2 DEF IsDraft, IsPosted
  <1>5. \A r \in Ids : r # n => entries'[r] = entries[r]
    BY <1>1, <1>3 DEF MarkPosted, Ids, BooksOK
  <1>6. runner'.at = "advance" /\ Current' = row
    <2>1. Goto("advance")
      BY DEF PostEntry
    <2>2. runner'.at = "advance" /\ runner'.rows = rows
      BY <1>1, <1>2, <2>1, GotoIs
    <2>3. QED
      BY <1>2, <2>2 DEF Current
  <1>7. CASE t # row.id
    <2>1. \A i \in Ids' : IsPosted(i)' /\ Of(i, t)' => i \in Ids /\ IsPosted(i)
      <3>1. ~Of(n, t)'
        BY <1>3, <1>4, <1>7 DEF Of, Later
      <3>2. \A i \in Ids : i # n => (IsPosted(i)' => IsPosted(i))
        BY <1>5 DEF IsPosted
      <3>3. QED
        BY <1>4, <3>1, <3>2
    <2>2. Times(t)' = Times(t)
      BY <1>1, <1>4, <2>1, SameTimes
    <2>3. InFlight(t) = 0 /\ InFlight(t)' = 0
      BY <1>1, <1>6, <1>7 DEF InFlight, At
    <2>4. QED
      BY <1>1, <2>2, <2>3 DEF Excess
  <1>8. CASE t = row.id
    <2>1. PICK S, T : S = Counted(t) /\ T = Counted(t)'
      OBVIOUS
    <2>2. IsFiniteSet(S) /\ Times(t) \in Nat
      BY <1>1, <2>1, CountedIs
    <2>3. n \notin S
      BY <1>3, <1>4, <1>8, <2>1 DEF Counted
    <2>4. T = S \cup {n}
      <3>1. \A i \in Ids : /\ Of(i, t)' <=> Of(i, t)
                           /\ i # n => (IsPosted(i)' <=> IsPosted(i))
        BY <1>4, <1>5 DEF Later, Of, IsPosted
      <3>2. S = {i \in Ids : IsPosted(i) /\ Of(i, t)}
        BY <1>3, <1>8, <2>1 DEF Counted
      <3>3. T = {i \in Ids' : IsPosted(i)' /\ Of(i, t)'}
        BY <1>3, <1>8, <2>1 DEF Counted
      <3>4. Of(n, t)' /\ n \in Ids
        BY <1>3, <1>8, <3>1
      <3>5. QED
        BY <1>4, <3>1, <3>2, <3>3, <3>4
    <2>5. Cardinality(T) = Cardinality(S) + 1
      BY <2>2, <2>3, <2>4, OneMore
    <2>6. Times(t) = Cardinality(S) /\ Times(t)' = Cardinality(T)
      BY <2>1, TimesIs DEF Times, Counted, Of
    <2>7. Times(t)' = Times(t) + 1
      BY <2>5, <2>6
    <2>8. InFlight(t) = 0 /\ InFlight(t)' = 1
      BY <1>1, <1>6, <1>8 DEF InFlight, At
    <2>9. templates[t].done \in Nat
      BY <1>1 DEF Types, TypeOK, Template
    <2>10. QED
      BY <1>1, <2>2, <2>7, <2>8, <2>9 DEF Excess
  <1>9. QED
    BY <1>7, <1>8

LEMMA CreateInvoiceExcess ==
  ASSUME IInv, CreateInvoice, NEW t \in Templates
  PROVE  Excess(t)' = Excess(t)
  <1>1. /\ Types /\ BooksOK /\ ~At("idle") /\ ~At("reread") /\ runner.at = "create"
        /\ Invoicing(Current.id) /\ UNCHANGED <<templates, entries, periods>>
    BY BooksTyped DEF IInv, CreateInvoice, At
  <1>2. PICK row \in Row : row = Current
    BY <1>1, HeadIs
  <1>3. PICK u \in Templates, date \in Nat, n \in Nat : u = row.id /\ date = row.next /\ n = Len(drafts) + 1
    BY <1>1 DEF Row, BooksOK
  <1>4. Invoicing(u) /\ drafts' = Append(drafts, <<u, date>>)
    BY <1>1, <1>2, <1>3 DEF CreateInvoice
  <1>5. drafts \in Seq(Templates \X Nat)
    BY <1>1 DEF BooksOK
  <1>6. /\ n \notin DOMAIN drafts /\ DOMAIN drafts' = DOMAIN drafts \cup {n}
        /\ drafts'[n] = <<u, date>>
        /\ \A d \in DOMAIN drafts : drafts'[d] = drafts[d]
    BY <1>3, <1>4, <1>5
  <1>7. runner'.at = "advance" /\ Current' = row
    <2>1. runner \in RunnerRow
      BY <1>1 DEF Types
    <2>2. runner'.at = "advance" /\ runner'.rows = runner.rows
      BY <2>1 DEF CreateInvoice, RunnerRow
    <2>3. QED
      BY <1>2, <2>2 DEF Current
  <1>8. CASE t # u
    <2>1. PICK S, T : S = Counted(t) /\ T = Counted(t)'
      OBVIOUS
    <2>2. S = T
      <3>1. CASE Invoicing(t)
        <4>1. S = {d \in DOMAIN drafts : drafts[d][1] = t}
          BY <2>1, <3>1 DEF Counted
        <4>2. T = {d \in DOMAIN drafts' : drafts'[d][1] = t}
          BY <2>1, <3>1 DEF Counted
        <4>3. drafts'[n][1] # t
          BY <1>6, <1>8
        <4>4. QED
          BY <1>6, <4>1, <4>2, <4>3
      <3>2. CASE ~Invoicing(t)
        BY <1>1, <2>1, <3>2 DEF Counted, Ids, IsPosted, Of
      <3>3. QED
        BY <3>1, <3>2
    <2>3. Times(t) = Cardinality(S) /\ Times(t)' = Cardinality(T)
      BY <2>1 DEF Times, Counted, Of
    <2>4. InFlight(t) = 0 /\ InFlight(t)' = 0
      BY <1>1, <1>3, <1>7, <1>8 DEF InFlight, At
    <2>5. QED
      BY <1>1, <2>2, <2>3, <2>4 DEF Excess
  <1>9. CASE t = u
    <2>1. PICK S, T : S = Counted(t) /\ T = Counted(t)'
      OBVIOUS
    <2>2. IsFiniteSet(S) /\ Times(t) \in Nat
      BY <1>1, <2>1, CountedIs
    <2>3. S = {d \in DOMAIN drafts : drafts[d][1] = t} /\ T = {d \in DOMAIN drafts' : drafts'[d][1] = t}
      BY <1>4, <1>9, <2>1 DEF Counted
    <2>4. n \notin S /\ T = S \cup {n}
      <3>1. drafts'[n][1] = t
        BY <1>6, <1>9
      <3>2. QED
        BY <1>6, <2>3, <3>1
    <2>5. Cardinality(T) = Cardinality(S) + 1
      BY <2>2, <2>4, OneMore
    <2>6. Times(t) = Cardinality(S) /\ Times(t)' = Cardinality(T)
      BY <2>1 DEF Times, Counted, Of
    <2>7. InFlight(t) = 0 /\ InFlight(t)' = 1
      BY <1>1, <1>3, <1>7, <1>9 DEF InFlight, At
    <2>8. templates[t].done \in Nat
      BY <1>1 DEF Types, TypeOK, Template
    <2>9. QED
      BY <1>1, <2>2, <2>5, <2>6, <2>7, <2>8 DEF Excess
  <1>10. QED
    BY <1>8, <1>9

LEMMA AdvanceExcess ==
  ASSUME IInv, Advance, NEW t \in Templates
  PROVE  Excess(t)' = Excess(t)
  <1>1. /\ Types /\ BooksOK /\ ~At("idle") /\ ~At("reread") /\ runner.at = "advance"
        /\ UNCHANGED books
    BY BooksTyped DEF IInv, Advance, At
  <1>2. PICK row \in Row, rows \in Seq(Row) : row = Current /\ rows = runner.rows
    BY <1>1, HeadIs
  <1>3. PICK u \in Templates : u = row.id
    BY DEF Row
  <1>4. row.done = templates[u].done /\ templates \in [Templates -> Template]
    BY <1>1, <1>2, <1>3, HeadIs DEF RowOK, Types, TypeOK
  <1>5. /\ templates'[u].done = templates[u].done + 1
        /\ t # u => templates'[t].done = templates[t].done
    <2>1. PICK next, last, done, status : templates' = [templates EXCEPT ![u] =
            [@ EXCEPT !.next = next, !.last = last, !.done = done, !.status = status]] /\ done = row.done + 1
      BY <1>2, <1>3 DEF Advance
    <2>2. QED
      BY <1>4, <2>1 DEF Template
  <1>6. runner'.at = "reread"
    <2>1. Goto("reread")
      BY DEF Advance
    <2>2. QED
      BY <1>1, <1>2, <2>1, GotoIs
  <1>7. /\ InFlight(t) = IF t = u THEN 1 ELSE 0
        /\ InFlight(t)' = 0
    BY <1>1, <1>2, <1>3, <1>6 DEF InFlight, At
  <1>8. Times(t)' = Times(t) /\ Times(t) \in Nat
    BY <1>1, UnchangedTimes, CountedIs
  <1>9. templates[t].done \in Nat
    BY <1>4 DEF Template
  <1>10. CASE t = u
    BY <1>5, <1>7, <1>8, <1>9, <1>10 DEF Excess
  <1>11. CASE t # u
    BY <1>5, <1>7, <1>8, <1>11 DEF Excess
  <1>12. QED
    BY <1>10, <1>11


LEMMA TurnIs ==
  ASSUME NEW rows, NEW turns
  PROVE  Begin(rows, turns).at \in {"reverse", "create"}
  BY DEF Begin, Resting

\* A step that only turns to another period or template.
LEMMA TurnExcess ==
  ASSUME Types, ~At("advance"), UNCHANGED books, UNCHANGED templates,
         \/ runner' = Resting
         \/ \E rows, turns : runner' = Begin(rows, turns),
         NEW t \in Templates
  PROVE  Excess(t)' = Excess(t)
  <1>1. BooksOK
    BY BooksTyped
  <1>2. Times(t)' = Times(t)
    BY <1>1, UnchangedTimes
  <1>3. ~At("advance")'
    <2>1. CASE runner' = Resting
      BY <2>1 DEF Resting, At
    <2>2. CASE \E rows, turns : runner' = Begin(rows, turns)
      <3>1. PICK rows, turns : runner' = Begin(rows, turns)
        BY <2>2
      <3>2. PICK b : b = runner'
        OBVIOUS
      <3>3. Begin(rows, turns).at \in {"reverse", "create"}
        BY TurnIs
      <3>4. runner'.at \in {"reverse", "create"}
        BY <3>1, <3>3
      <3>5. QED
        BY <3>4 DEF At
    <2>3. QED
      BY <2>1, <2>2
  <1>4. QED
    BY <1>2, <1>3, SameExcess

LEMMA RunExcess ==
  ASSUME IInv, Run, NEW t \in Templates
  PROVE  Excess(t)' = Excess(t)
  <1>1. Types
    BY DEF IInv
  <1>2. CASE ReversePrevious
    BY <1>2, ReversePreviousExcess
  <1>3. CASE CreateEntry
    BY <1>3, CreateEntryExcess
  <1>4. CASE PostEntry
    BY <1>4, PostEntryExcess
  <1>5. CASE CreateInvoice
    BY <1>5, CreateInvoiceExcess
  <1>6. CASE Advance
    BY <1>6, AdvanceExcess
  <1>7. CASE Fail
    <2>1. ~At("advance") /\ UNCHANGED books /\ UNCHANGED templates /\ Skip
      BY <1>7 DEF Fail, At
    <2>2. \/ runner' = Resting
          \/ \E rows, turns : runner' = Begin(rows, turns)
      BY <2>1 DEF Skip
    <2>3. QED
      BY <1>1, <2>1, <2>2, TurnExcess
  <1>8. CASE Reread
    <2>1. ~At("advance") /\ UNCHANGED books /\ UNCHANGED templates /\ Continue(RowOf(Current.id))
      BY <1>8 DEF Reread, At
    <2>2. \/ runner' = Resting
          \/ \E rows, turns : runner' = Begin(rows, turns)
      BY <2>1 DEF Continue, Skip
    <2>3. QED
      BY <1>1, <2>1, <2>2, TurnExcess
  <1>9. CASE RunDue
    <2>1. ~At("advance") /\ UNCHANGED books /\ UNCHANGED templates
      BY <1>9 DEF RunDue, At
    <2>2. \E rows, turns : runner' = Begin(rows, turns)
      BY <1>9 DEF RunDue
    <2>3. QED
      BY <1>1, <2>1, <2>2, TurnExcess
  <1>10. QED
    BY <1>2, <1>3, <1>4, <1>5, <1>6, <1>7, <1>8, <1>9 DEF Run

\* A crash in flight leaves one booking more than the template knows of.
LEMMA CrashExcess ==
  ASSUME IInv, Crash, NEW c, c = Current.id
  PROVE  /\ crashes' = crashes + 1 /\ crashes \in Nat
         /\ \A t \in Templates : Excess(t) <= Excess(t)' /\ Excess(t)' <= Excess(t) + IF t = c THEN 1 ELSE 0
  <1>1. /\ Types /\ BooksOK /\ UNCHANGED books /\ UNCHANGED templates
        /\ runner' = Resting /\ crashes' = crashes + 1
    BY BooksTyped DEF IInv, Crash
  <1>2. crashes \in Nat
    <2>1. MaxCrashes \in Nat
      BY RecurringAssumption
    <2>2. QED
      BY <1>1, <2>1 DEF Types, TypeOK
  <1>3. ASSUME NEW t \in Templates
        PROVE  Excess(t) <= Excess(t)' /\ Excess(t)' <= Excess(t) + IF t = c THEN 1 ELSE 0
    <2>1. Times(t)' = Times(t) /\ Times(t) \in Nat
      BY <1>1, UnchangedTimes, CountedIs
    <2>2. templates[t].done \in Nat /\ templates'[t].done = templates[t].done
      BY <1>1 DEF Types, TypeOK, Template
    <2>3. InFlight(t)' = 0
      BY <1>1 DEF InFlight, At, Resting
    <2>4. InFlight(t) = 0 \/ (InFlight(t) = 1 /\ t = c)
      BY DEF InFlight
    <2>5. QED
      BY <2>1, <2>2, <2>3, <2>4 DEF Excess
  <1>4. QED
    BY <1>1, <1>2, <1>3

LEMMA OthersExcess ==
  ASSUME IInv, Manage \/ Switch \/ Tick, NEW t \in Templates
  PROVE  Excess(t)' = Excess(t) /\ crashes' = crashes
  <1>1. Types /\ BooksOK /\ UNCHANGED books /\ UNCHANGED runner /\ UNCHANGED crashes
    BY BooksTyped DEF IInv, Manage, Switch, Tick
  <1>2. templates'[t].done = templates[t].done
    <2>1. templates \in [Templates -> Template]
      BY <1>1 DEF Types, TypeOK
    <2>2. CASE Switch \/ Tick
      BY <2>2 DEF Switch, Tick
    <2>3. CASE Manage
      <3>1. ASSUME NEW s \in Templates, Add(s)
            PROVE  templates'[t].done = templates[t].done
        BY <2>1, <3>1 DEF Add, Template
      <3>2. ASSUME NEW s \in Templates, AddFinal(s)
            PROVE  templates'[t].done = templates[t].done
        BY <2>1, <3>2 DEF AddFinal, Template
      <3>3. ASSUME NEW s \in Templates, WriteStatus(s)
            PROVE  templates'[t].done = templates[t].done
        BY <2>1, <3>3 DEF WriteStatus, Template
      <3>4. ASSUME NEW s \in Templates, NEW to \in {"active", "paused"}, CheckStatus(s, to)
            PROVE  templates'[t].done = templates[t].done
        BY <3>4 DEF CheckStatus
      <3>5. CASE ClerkDies
        BY <3>5 DEF ClerkDies
      <3>6. QED
        BY <2>3, <3>1, <3>2, <3>3, <3>4, <3>5 DEF Manage
    <2>4. QED
      BY <2>2, <2>3
  <1>3. Times(t)' = Times(t)
    BY <1>1, UnchangedTimes
  <1>4. InFlight(t)' = InFlight(t)
    BY <1>1 DEF InFlight, At, Current
  <1>5. QED
    BY <1>1, <1>2, <1>3, <1>4 DEF Excess


\* The sum over all templates.
Surplus == MapThenSumSet(Excess, Templates)

LEMMA SurplusIs == \E g : Adds(g, Ex, Templates) /\ Surplus = g[Templates]
  BY ExcessSumIs DEF Surplus

LEMMA SurplusIsThen == (\E g : Adds(g, Ex, Templates) /\ Surplus = g[Templates])'
  BY SurplusIs, PTL

LEMMA SurplusGrows ==
  ASSUME Types, Types', NEW c, NEW b \in Nat,
         \A t \in Templates : Excess(t)' <= Excess(t) + IF t = c THEN b ELSE 0
  PROVE  Surplus \in Int /\ Surplus' \in Int /\ Surplus' <= Surplus + b
  <1>1. PICK F : Adds(F, Ex, Templates) /\ Surplus = F[Templates]
    BY SurplusIs
  <1>2. PICK H : Adds(H, Ex', Templates) /\ Surplus' = H[Templates]
    BY SurplusIsThen DEF Adds
  <1>3. Ex \in [Templates -> Int]
    BY ExcessTyped
  <1>4. (Types => Ex \in [Templates -> Int])'
    BY ExcessTyped, PTL
  <1>5. Ex' \in [Templates -> Int]
    BY <1>4
  <1>6. PICK f, h : f = Ex /\ h = Ex'
    OBVIOUS
  <1>7. \A x \in Templates : h[x] <= f[x] + (IF x = c THEN b ELSE 0)
    BY <1>6 DEF Ex
  <1>8. IsFiniteSet(Templates) /\ f \in [Templates -> Int] /\ h \in [Templates -> Int]
    BY <1>3, <1>5, <1>6, RecurringAssumption
  <1>9. Adds(F, f, Templates) /\ Adds(H, h, Templates)
    BY <1>1, <1>2, <1>6
  <1>10. H[Templates] <= F[Templates] + b
    BY <1>7, <1>8, <1>9, AddsGrow
  <1>11. Templates \in SUBSET Templates
    OBVIOUS
  <1>12. H[Templates] \in Int /\ F[Templates] \in Int
    BY <1>8, <1>9, <1>11, AddsTyped
  <1>13. QED
    BY <1>1, <1>2, <1>10, <1>12

LEMMA InitTwice == Init => TwiceOnlyByCrash
  <1> SUFFICES ASSUME Init
               PROVE  TwiceOnlyByCrash
    OBVIOUS
  <1>1. \A t \in Templates : Excess(t) = 0
    <2> TAKE t \in Templates
    <2>1. Counted(t) = {}
      BY DEF Init, Counted, Ids
    <2>2. Times(t) = 0
      BY <2>1, TimesIs, FS_EmptySet
    <2>3. templates[t].done = 0 /\ InFlight(t) = 0
      BY DEF Init, InFlight, At, Resting
    <2>4. QED
      BY <2>2, <2>3 DEF Excess
  <1>2. PICK F : Adds(F, Ex, Templates) /\ Surplus = F[Templates]
    BY SurplusIs
  <1>3. PICK f : f = Ex
    OBVIOUS
  <1>4. f \in [Templates -> Int] /\ (\A x \in Templates : f[x] = 0) /\ Adds(F, f, Templates)
    BY <1>1, <1>2, <1>3 DEF Ex
  <1>5. F[Templates] = 0
    BY <1>4, AddsZero, RecurringAssumption
  <1>6. QED
    BY <1>1, <1>2, <1>5 DEF TwiceOnlyByCrash, Surplus, Init

LEMMA NextTwice == IInv /\ IInv' /\ TwiceOnlyByCrash /\ [Next]_vars => TwiceOnlyByCrash'
  <1> SUFFICES ASSUME IInv, IInv', TwiceOnlyByCrash, [Next]_vars
               PROVE  TwiceOnlyByCrash'
    OBVIOUS
  <1>1. Types /\ Types' /\ (\A t \in Templates : Excess(t) \in Int /\ Excess(t)' \in Int)
    <2>1. Types /\ Types'
      BY DEF IInv
    <2>2. Ex \in [Templates -> Int] /\ (Types => Ex \in [Templates -> Int])'
      BY <2>1, ExcessTyped, PTL
    <2>3. QED
      BY <2>1, <2>2 DEF Ex
  <1>2. (\A t \in Templates : Excess(t) >= 0) /\ Surplus <= crashes
    BY DEF TwiceOnlyByCrash, Surplus
  <1>3. crashes \in Int
    BY <1>1, RecurringAssumption DEF Types, TypeOK
  <1>4. CASE Crash
    <2>1. PICK c : c = Current.id
      OBVIOUS
    <2>2. /\ crashes' = crashes + 1
          /\ \A t \in Templates : Excess(t) <= Excess(t)' /\ Excess(t)' <= Excess(t) + IF t = c THEN 1 ELSE 0
      BY <1>4, <2>1, CrashExcess
    <2>3. Surplus \in Int /\ Surplus' \in Int /\ Surplus' <= Surplus + 1
      BY <1>1, <2>2, SurplusGrows
    <2>4. Surplus' <= crashes'
      BY <1>2, <1>3, <2>2, <2>3
    <2>5. \A t \in Templates : Excess(t)' >= 0
      BY <1>1, <1>2, <2>2
    <2>6. QED
      BY <2>4, <2>5 DEF TwiceOnlyByCrash, Surplus
  <1>5. CASE ~Crash
    <2>1. crashes' = crashes /\ \A t \in Templates : Excess(t)' = Excess(t)
      <3>1. CASE Run
        <4>1. crashes' = crashes
          BY <3>1 DEF Run
        <4>2. QED
          BY <3>1, <4>1, RunExcess
      <3>2. CASE Manage \/ Switch \/ Tick
        <4>1. crashes' = crashes
          BY <3>2 DEF Manage, Switch, Tick
        <4>2. QED
          BY <3>2, <4>1, OthersExcess
      <3>3. CASE UNCHANGED vars
        <4>1. UNCHANGED books /\ UNCHANGED templates /\ UNCHANGED runner /\ crashes' = crashes
          BY <3>3 DEF vars
        <4>2. BooksOK
          BY <1>1, BooksTyped
        <4>3. \A t \in Templates : Times(t)' = Times(t)
          BY <4>1, <4>2, UnchangedTimes
        <4>4. QED
          BY <4>1, <4>3, SameExcess
      <3>4. QED
        BY <1>5, <3>1, <3>2, <3>3 DEF Next
    <2>2. \A t \in Templates : Excess(t)' <= Excess(t) + IF t = 0 THEN 0 ELSE 0
      BY <1>1, <2>1
    <2>3. Surplus \in Int /\ Surplus' \in Int /\ Surplus' <= Surplus + 0
      BY <1>1, <2>2, SurplusGrows
    <2>4. Surplus' <= crashes'
      BY <1>2, <1>3, <2>1, <2>3
    <2>5. QED
      BY <1>2, <2>1, <2>4 DEF TwiceOnlyByCrash, Surplus
  <1>6. QED
    BY <1>4, <1>5

\* While no two runs overlap (Recurring has one runner; two are those of Overlap) a
\* period is booked twice only when a run was killed between booking it and writing
\* the template back, and no more often than runs were killed.
THEOREM BookedTwiceOnlyByCrash == Spec => []TwiceOnlyByCrash
  <1>1. Init => TwiceOnlyByCrash
    BY InitTwice
  <1>2. IInv /\ IInv' /\ TwiceOnlyByCrash /\ [Next]_vars => TwiceOnlyByCrash'
    BY NextTwice
  <1>3. QED
    BY <1>1, <1>2, Invariance, PTL DEF Spec


====================================================================================
