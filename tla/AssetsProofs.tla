------------------------------- MODULE AssetsProofs -------------------------------
(***************************************************************************)
(* Proofs about Assets, for any schemes, requests, accounts, processes and *)
(* bounds; in the second part, about the amounts of Trade, for any lines,  *)
(* discounts, rates and days; and, in the third, about Imports, for any    *)
(* files, importers and scenarios.                                         *)
(***************************************************************************)
EXTENDS Assets, Trade, Imports, SumTheorems, SequenceTheorems, FiniteSetTheorems,
        WellFoundedInduction, TLAPS

----------------------------------------------------------------------------------
(* The schedule. *)

LEMMA MaxTwo ==
  ASSUME NEW a \in Int, NEW b \in Int
  PROVE  Max({a, b}) = IF a >= b THEN a ELSE b
  <1>1. \E x \in {a, b} : \A y \in {a, b} : x >= y
    OBVIOUS
  <1>2. QED
    BY <1>1 DEF Max

LEMMA MinTwo ==
  ASSUME NEW a \in Int, NEW b \in Int
  PROVE  Min({a, b}) = IF a <= b THEN a ELSE b
  <1>1. \E x \in {a, b} : \A y \in {a, b} : x <= y
    OBVIOUS
  <1>2. QED
    BY <1>1 DEF Min

LEMMA RoundIs ==
  ASSUME NEW x \in Nat, NEW y \in Nat \ {0}
  PROVE  Round(x, y) \in Nat /\ Round(x, 1) = x
  <1>1. (2 * x + y) \div (2 * y) \in Nat
    OBVIOUS
  <1>2. (2 * x + 1) \div (2 * 1) = x
    OBVIOUS
  <1>3. QED
    BY <1>1, <1>2 DEF Round

\* What the module takes over: nothing is left, or something for at least a month.
Sound(q) ==
  /\ FirstPeriod(q) \in Nat \ {0} /\ MonthsLeft(q) \in Nat \ {0}
  /\ {Residual(q), Depreciable(q), q.price, q.recognised} \subseteq Nat

LEMMA RequestIsSound ==
  ASSUME NEW q \in Requests, Admissible(q)
  PROVE  Sound(q)
  <1>1. q.scheme \in SchemeNames /\ {q.purchase, q.start, q.recognition} \subseteq Nat \ {0} /\ {q.price, q.recognised} \subseteq Int
    BY AssetsAssumption
  <1>2. Scheme(q.scheme).life_months \in Int
    BY <1>1, AssetsAssumption
  <1>3. q.recognition \in Nat \ {0} /\ q.start \in Nat \ {0} /\ q.price \in Int /\ q.recognised \in Int
    BY <1>1
  <1>4. Month(q.recognition) \in Int /\ Month(q.start) \in Int
    BY <1>3 DEF Month
  <1>5. Elapsed(q) \in Int
    <2>1. PICK n \in Int : n = Month(q.recognition) - Month(q.start)
      BY <1>4
    <2>2. Elapsed(q) = Max({0, n})
      BY <2>1 DEF Elapsed
    <2>3. Max({0, n}) = IF 0 >= n THEN 0 ELSE n
      BY MaxTwo
    <2>4. QED
      BY <2>2, <2>3
  <1>6. MonthsLeft(q) \in Nat \ {0}
    <2>1. PICK n \in Int : n = Scheme(q.scheme).life_months - Elapsed(q)
      BY <1>2, <1>5
    <2>2. MonthsLeft(q) = Max({1, n})
      BY <2>1 DEF MonthsLeft
    <2>3. Max({1, n}) = IF 1 >= n THEN 1 ELSE n
      BY MaxTwo
    <2>4. QED
      BY <2>2, <2>3
  <1>7. FirstPeriod(q) \in Nat \ {0}
    <2>1. PICK n \in Nat \ {0} : n = Max({q.recognition, q.start})
      <3>1. Max({q.recognition, q.start}) = IF q.recognition >= q.start THEN q.recognition ELSE q.start
        BY <1>3, MaxTwo
      <3>2. QED
        BY <1>3, <3>1
    <2>2. (n + 1) \div 2 \in Nat \ {0}
      OBVIOUS
    <2>3. QED
      BY <2>1, <2>2 DEF FirstPeriod
  <1>8. q.price > 0 /\ q.recognised >= 0 /\ Residual(q) \in 0..(q.price - 1) /\ Depreciable(q) >= 0
    BY DEF Admissible
  <1>9. Residual(q) \in Nat /\ Depreciable(q) \in Nat
    BY <1>3, <1>8 DEF Depreciable
  <1>10. QED
    BY <1>3, <1>6, <1>7, <1>8, <1>9 DEF Sound

LEMMA MonthlyIs ==
  ASSUME NEW q, Sound(q), NEW remaining \in Nat, NEW months \in Nat \ {0}
  PROVE  /\ Monthly(q, remaining, months) \in 0..remaining
         /\ remaining > 0 => Monthly(q, remaining, months) > 0
         /\ Monthly(q, remaining, 1) = remaining
  <1> DEFINE declining == IF Scheme(q.scheme).method = "degressief" THEN Round(2 * remaining, MonthsLeft(q)) ELSE 0
             pays(x) == IF x = 0 THEN remaining ELSE Min({x, remaining})
  <1>1. declining \in Nat
    BY RoundIs DEF Sound
  <1> HIDE DEF declining
  <1>2. \A m \in Nat \ {0} : Monthly(q, remaining, m) = pays(Max({Round(remaining, m), declining}))
    BY DEF Monthly, declining
  <1>3. ASSUME NEW m \in Nat \ {0}
        PROVE  Max({Round(remaining, m), declining}) \in Nat /\ Max({Round(remaining, m), declining}) >= Round(remaining, m)
    <2>1. PICK a \in Nat, b \in Nat : a = Round(remaining, m) /\ b = declining
      BY <1>1, RoundIs
    <2>2. Max({a, b}) = IF a >= b THEN a ELSE b
      BY MaxTwo
    <2>3. QED
      BY <2>1, <2>2
  <1>4. ASSUME NEW x \in Nat
        PROVE  pays(x) \in 0..remaining /\ (remaining > 0 => pays(x) > 0) /\ (x >= remaining => pays(x) = remaining)
    BY MinTwo
  <1> HIDE DEF pays
  <1>5. PICK x \in Nat : x = Max({Round(remaining, months), declining})
    BY <1>3
  <1>6. PICK y \in Nat : y = Max({Round(remaining, 1), declining}) /\ y >= remaining
    BY <1>3, RoundIs
  <1>7. QED
    BY <1>2, <1>4, <1>5, <1>6

\* What remains is defined month by month, so there is such a function.
Follows(g, q, n) ==
  g = [k \in 0..n |-> IF k = 0 THEN Depreciable(q) ELSE g[k - 1] - Monthly(q, g[k - 1], MonthsLeft(q) - k + 1)]

LEMMA RemainsExists ==
  ASSUME NEW q, NEW N \in Nat
  PROVE  \E g : Follows(g, q, N)
  <1> DEFINE W == {n \in Nat : ~(\E g : Follows(g, q, n))}
  <1> SUFFICES ASSUME W # {}
               PROVE  FALSE
    OBVIOUS
  <1>1. W \in SUBSET Nat
    OBVIOUS
  <1>2. PICK n \in W : \A m \in W : n <= m
    <2> HIDE DEF W
    <2>1. QED
      BY <1>1, LeastNumber
  <1>3. n \in Nat /\ ~(\E g : Follows(g, q, n))
    BY <1>2
  <1>4. n # 0
    <2> DEFINE g == [k \in 0..0 |-> Depreciable(q)]
    <2>1. \A k \in 0..0 : k = 0
      OBVIOUS
    <2>2. g = [k \in 0..0 |-> IF k = 0 THEN Depreciable(q) ELSE g[k - 1] - Monthly(q, g[k - 1], MonthsLeft(q) - k + 1)]
      BY <2>1
    <2>3. Follows(g, q, 0)
      BY <2>2 DEF Follows
    <2> HIDE DEF g
    <2>4. QED
      BY <1>3, <2>3
  <1>5. n - 1 \in Nat /\ n - 1 \notin W
    BY <1>2, <1>3, <1>4
  <1>6. PICK h : Follows(h, q, n - 1)
    BY <1>5
  <1> DEFINE next(f, k) == f[k - 1] - Monthly(q, f[k - 1], MonthsLeft(q) - k + 1)
             g == [k \in 0..n |-> IF k = 0 THEN Depreciable(q) ELSE next(h, k)]
  <1>7. \A k \in 0..n - 1 : h[k] = g[k]
    <2>1. \A k \in 0..n - 1 : h[k] = IF k = 0 THEN Depreciable(q) ELSE next(h, k)
      BY <1>6 DEF Follows
    <2>2. \A k \in 0..n - 1 : k \in 0..n
      BY <1>3
    <2> HIDE DEF next
    <2>3. QED
      BY <2>1, <2>2
  <1>8. \A k \in 0..n : (IF k = 0 THEN Depreciable(q) ELSE next(h, k)) = (IF k = 0 THEN Depreciable(q) ELSE next(g, k))
    <2> SUFFICES ASSUME NEW k \in 0..n, k # 0
                 PROVE  next(h, k) = next(g, k)
      OBVIOUS
    <2>1. k - 1 \in 0..n - 1
      BY <1>3
    <2>2. h[k - 1] = g[k - 1]
      BY <1>7, <2>1
    <2> HIDE DEF g
    <2>3. QED
      BY <2>2
  <1>9. Follows(g, q, n)
    <2> HIDE DEF next
    <2>1. g = [k \in 0..n |-> IF k = 0 THEN Depreciable(q) ELSE next(h, k)]
      OBVIOUS
    <2> HIDE DEF g
    <2>2. g = [k \in 0..n |-> IF k = 0 THEN Depreciable(q) ELSE next(g, k)]
      BY <1>8, <2>1
    <2>3. QED
      BY <2>2 DEF Follows, next
  <1> HIDE DEF g
  <1>10. QED
    BY <1>3, <1>9

LEMMA RemainsAt ==
  ASSUME NEW q, Sound(q)
  PROVE  /\ Remains(q)[0] = Depreciable(q)
         /\ \A k \in 1..MonthsLeft(q) :
              Remains(q)[k] = Remains(q)[k - 1] - Monthly(q, Remains(q)[k - 1], MonthsLeft(q) - k + 1)
  <1>1. PICK N \in Nat : N = MonthsLeft(q)
    BY DEF Sound
  <1>2. Remains(q) = CHOOSE g : Follows(g, q, N)
    BY <1>1 DEF Remains, Follows
  <1>3. Follows(Remains(q), q, N)
    BY <1>2, RemainsExists
  <1>4. \A k \in 0..N : Remains(q)[k] = IF k = 0 THEN Depreciable(q)
                                       ELSE Remains(q)[k - 1] - Monthly(q, Remains(q)[k - 1], MonthsLeft(q) - k + 1)
    BY <1>3 DEF Follows
  <1>5. 0 \in 0..N /\ \A k \in 1..N : k \in 0..N /\ k # 0
    OBVIOUS
  <1>6. QED
    BY <1>1, <1>4, <1>5

\* It falls to nothing in the last month, and every month while there is something.
LEMMA RemainsFalls ==
  ASSUME NEW q, Sound(q)
  PROVE  /\ \A k \in 0..MonthsLeft(q) : Remains(q)[k] \in Nat
         /\ \A k \in 1..MonthsLeft(q) : /\ Remains(q)[k] <= Remains(q)[k - 1]
                                        /\ Remains(q)[k - 1] > 0 => Remains(q)[k] < Remains(q)[k - 1]
         /\ Remains(q)[MonthsLeft(q)] = 0
  <1>1. PICK N, f, D : /\ N = MonthsLeft(q) /\ f = Remains(q) /\ D = Depreciable(q)
                       /\ N \in Nat \ {0} /\ D \in Nat
    BY DEF Sound
  <1>2. /\ f[0] = D
        /\ \A k \in 1..N : f[k] = f[k - 1] - Monthly(q, f[k - 1], N - k + 1)
    BY <1>1, RemainsAt
  <1>3. \A r \in Nat, m \in Nat \ {0} :
           /\ Monthly(q, r, m) \in 0..r
           /\ r > 0 => Monthly(q, r, m) > 0
           /\ Monthly(q, r, 1) = r
    BY MonthlyIs
  <1>4. ASSUME NEW k \in 1..N, f[k - 1] \in Nat
        PROVE  /\ f[k] \in Nat /\ f[k] <= f[k - 1]
               /\ f[k - 1] > 0 => f[k] < f[k - 1]
               /\ k = N => f[k] = 0
    <2>1. PICK r \in Nat, m \in Nat \ {0} : r = f[k - 1] /\ m = N - k + 1
      BY <1>1, <1>4
    <2>2. f[k] = r - Monthly(q, r, m)
      BY <1>2, <2>1
    <2>3. /\ Monthly(q, r, m) \in 0..r
          /\ r > 0 => Monthly(q, r, m) > 0
          /\ Monthly(q, r, 1) = r
      BY <1>3
    <2>4. k = N => m = 1
      BY <2>1
    <2>5. QED
      BY <2>1, <2>2, <2>3, <2>4
  <1> DEFINE W == {k \in Nat : k <= N /\ f[k] \notin Nat}
  <1>5. W = {}
    <2> SUFFICES ASSUME W # {}
                 PROVE  FALSE
      OBVIOUS
    <2>1. W \in SUBSET Nat
      OBVIOUS
    <2>2. PICK k \in W : \A l \in W : k <= l
      <3> HIDE DEF W
      <3>1. QED
        BY <2>1, LeastNumber
    <2>3. k \in Nat /\ k <= N /\ f[k] \notin Nat
      BY <2>2
    <2>4. k # 0
      BY <1>1, <1>2, <2>3
    <2>5. k \in 1..N /\ k - 1 \in Nat /\ k - 1 <= N /\ k - 1 \notin W
      BY <1>1, <2>2, <2>3, <2>4
    <2>6. f[k - 1] \in Nat
      BY <2>5
    <2>7. QED
      BY <1>4, <2>3, <2>5, <2>6
  <1>6. \A k \in 0..N : f[k] \in Nat
    BY <1>5
  <1>7. \A k \in 1..N : k - 1 \in 0..N
    BY <1>1
  <1>8. N \in 1..N
    BY <1>1
  <1>9. QED
    BY <1>1, <1>4, <1>6, <1>7, <1>8

\* The whole schedule, and the row of its k-th month.
Full(q) == Schedule(q, FirstPeriod(q) + MonthsLeft(q))

MonthRow(q, k) == [period |-> FirstPeriod(q) + k - 1, amount |-> Remains(q)[k - 1] - Remains(q)[k]]

Months(q) == {k \in 1..MonthsLeft(q) : Remains(q)[k - 1] > 0}

LEMMA FullIs ==
  ASSUME NEW q, Sound(q)
  PROVE  Full(q) = {MonthRow(q, k) : k \in Months(q)}
  <1>1. FirstPeriod(q) \in Nat /\ MonthsLeft(q) \in Nat
    BY DEF Sound
  <1>2. \A k \in 1..MonthsLeft(q) : FirstPeriod(q) + k - 1 <= FirstPeriod(q) + MonthsLeft(q)
    BY <1>1
  <1>3. {k \in 1..MonthsLeft(q) : FirstPeriod(q) + k - 1 <= FirstPeriod(q) + MonthsLeft(q) /\ Remains(q)[k - 1] > 0}
      = Months(q)
    BY <1>2 DEF Months
  <1>4. QED
    BY <1>3 DEF Full, Schedule, MonthRow

LEMMA ScheduleIs ==
  ASSUME NEW q, Sound(q), NEW asOf
  PROVE  Schedule(q, asOf) = {m \in Full(q) : m.period <= asOf}
  <1>1. Schedule(q, asOf) = {MonthRow(q, k) : k \in {k \in 1..MonthsLeft(q) : FirstPeriod(q) + k - 1 <= asOf /\ Remains(q)[k - 1] > 0}}
    BY DEF Schedule, MonthRow
  <1>2. \A k : MonthRow(q, k).period = FirstPeriod(q) + k - 1
    BY DEF MonthRow
  <1>3. QED
    BY <1>1, <1>2, FullIs DEF Months

\* A period has one row, of an amount.
LEMMA FullRows ==
  ASSUME NEW q, Sound(q)
  PROVE  /\ IsFiniteSet(Full(q))
         /\ \A m \in Full(q) : /\ m = [period |-> m.period, amount |-> m.amount]
                               /\ m.period \in Nat /\ m.period >= FirstPeriod(q)
                               /\ m.period < FirstPeriod(q) + MonthsLeft(q)
                               /\ m.amount \in Nat \ {0}
         /\ \A m, n \in Full(q) : m.period = n.period => m = n
         /\ Full(q) # {} => Depreciable(q) > 0
  <1>1. FirstPeriod(q) \in Nat /\ MonthsLeft(q) \in Nat \ {0} /\ Depreciable(q) \in Nat
    BY DEF Sound
  <1>2. Months(q) \subseteq 1..MonthsLeft(q)
    BY DEF Months
  <1>3. IsFiniteSet(Months(q))
    <2>1. IsFiniteSet(1..MonthsLeft(q))
      BY <1>1, FS_Interval
    <2>2. QED
      BY <1>2, <2>1, FS_Subset
  <1>4. IsFiniteSet(Full(q))
    <2> DEFINE f == [k \in Months(q) |-> MonthRow(q, k)]
    <2>1. Full(q) = {f[k] : k \in Months(q)}
      BY FullIs
    <2>2. IsFiniteSet({f[k] : k \in Months(q)})
      BY <1>3, FiniteImage
    <2>3. QED
      BY <2>1, <2>2
  <1>5. ASSUME NEW k \in Months(q)
        PROVE  /\ MonthRow(q, k) = [period |-> MonthRow(q, k).period, amount |-> MonthRow(q, k).amount]
               /\ MonthRow(q, k).period = FirstPeriod(q) + k - 1
               /\ k \in 1..MonthsLeft(q)
               /\ MonthRow(q, k).amount \in Nat \ {0}
    <2>1. k \in 1..MonthsLeft(q) /\ k \in 0..MonthsLeft(q) /\ k - 1 \in 0..MonthsLeft(q) /\ Remains(q)[k - 1] > 0
      BY <1>1 DEF Months
    <2>2. Remains(q)[k] \in Nat /\ Remains(q)[k - 1] \in Nat /\ Remains(q)[k] < Remains(q)[k - 1]
      BY <2>1, RemainsFalls
    <2>3. QED
      BY <2>1, <2>2 DEF MonthRow
  <1>6. \A m \in Full(q) : \E k \in Months(q) : m = MonthRow(q, k)
    BY FullIs
  <1>7. \A m, n \in Full(q) : m.period = n.period => m = n
    <2> SUFFICES ASSUME NEW m \in Full(q), NEW n \in Full(q), m.period = n.period
                 PROVE  m = n
      OBVIOUS
    <2>1. PICK j \in Months(q) : m = MonthRow(q, j)
      BY <1>6
    <2>2. PICK k \in Months(q) : n = MonthRow(q, k)
      BY <1>6
    <2>3. j = k
      BY <1>1, <1>5, <2>1, <2>2
    <2>4. QED
      BY <2>1, <2>2, <2>3
  <1>8. ASSUME NEW m \in Full(q)
        PROVE  /\ m = [period |-> m.period, amount |-> m.amount]
               /\ m.period \in Nat /\ m.period >= FirstPeriod(q)
               /\ m.period < FirstPeriod(q) + MonthsLeft(q)
               /\ m.amount \in Nat \ {0}
    <2>1. PICK k \in Months(q) : m = MonthRow(q, k)
      BY <1>6
    <2>2. QED
      BY <1>1, <1>5, <2>1
  <1>9. ASSUME NEW k \in Months(q)
        PROVE  Depreciable(q) > 0
    <2> DEFINE V == {l \in Nat : l <= MonthsLeft(q) /\ ~(Remains(q)[l] <= Depreciable(q))}
    <2>1. V = {}
      <3> SUFFICES ASSUME V # {}
                   PROVE  FALSE
        OBVIOUS
      <3>1. V \in SUBSET Nat
        OBVIOUS
      <3>2. PICK l \in V : \A j \in V : l <= j
        <4> HIDE DEF V
        <4>1. QED
          BY <3>1, LeastNumber
      <3>3. l \in Nat /\ l <= MonthsLeft(q) /\ ~(Remains(q)[l] <= Depreciable(q))
        BY <3>2
      <3>4. l # 0
        BY <1>1, <3>3, RemainsAt
      <3>5. l \in 1..MonthsLeft(q) /\ l \in 0..MonthsLeft(q) /\ l - 1 \in 0..MonthsLeft(q) /\ l - 1 \notin V
        BY <1>1, <3>2, <3>3, <3>4
      <3>6. Remains(q)[l - 1] <= Depreciable(q)
        BY <3>5
      <3>7. Remains(q)[l] <= Remains(q)[l - 1] /\ Remains(q)[l] \in Nat /\ Remains(q)[l - 1] \in Nat
        BY <3>5, RemainsFalls
      <3>8. QED
        BY <1>1, <3>3, <3>6, <3>7
    <2>2. k - 1 \in 0..MonthsLeft(q) /\ Remains(q)[k - 1] > 0
      BY <1>1 DEF Months
    <2>3. Remains(q)[k - 1] <= Depreciable(q) /\ Remains(q)[k - 1] \in Nat
      BY <2>1, <2>2, RemainsFalls
    <2>4. QED
      BY <1>1, <2>2, <2>3
  <1>10. Full(q) # {} => Depreciable(q) > 0
    BY <1>6, <1>9
  <1>11. QED
    BY <1>4, <1>7, <1>8, <1>10

\* The sum of the amounts of rows of any kind that have one.
AmountsOf(S) == [r \in S |-> r.amount]

LEMMA AmountsAre ==
  ASSUME NEW S, IsFiniteSet(S), \A r \in S : r.amount \in Int
  PROVE  /\ AmountsOf(S) \in [S -> Int]
         /\ Amounts(S) = SumOf(AmountsOf(S)) /\ Amounts(S) \in Int
         /\ \A T \in SUBSET S : Amounts(T) = Part(AmountsOf(S), T)
  <1>1. AmountsOf(S) \in [S -> Int]
    BY DEF AmountsOf
  <1>2. \A T \in SUBSET S : [r \in T |-> r.amount] = [r \in T |-> AmountsOf(S)[r]]
    BY DEF AmountsOf
  <1>3. \A T \in SUBSET S : Amounts(T) = Part(AmountsOf(S), T)
    BY <1>2 DEF Amounts, Part
  <1>4. Amounts(S) = SumOf(AmountsOf(S))
    BY DEF Amounts, AmountsOf
  <1>5. QED
    BY <1>1, <1>3, <1>4, SumTyped

LEMMA AmountsJoin ==
  ASSUME NEW S, NEW T, IsFiniteSet(S), IsFiniteSet(T), S \cap T = {}, \A r \in S \cup T : r.amount \in Int
  PROVE  Amounts(S \cup T) = Amounts(S) + Amounts(T)
  <1>1. PICK U : U = S \cup T
    OBVIOUS
  <1>2. IsFiniteSet(U) /\ S \in SUBSET U /\ T \in SUBSET U
    BY <1>1, FS_Union
  <1>3. AmountsOf(U) \in [U -> Int] /\ \A V \in SUBSET U : Amounts(V) = Part(AmountsOf(U), V)
    BY <1>1, <1>2, AmountsAre
  <1>4. Part(AmountsOf(U), S \cup T) = Part(AmountsOf(U), S) + Part(AmountsOf(U), T)
    BY <1>2, <1>3, SumJoin
  <1>5. QED
    BY <1>1, <1>2, <1>3, <1>4

LEMMA AmountsEmpty == Amounts({}) = 0
  BY SumEmpty DEF Amounts

LEMMA AmountsOne ==
  ASSUME NEW r, r.amount \in Int
  PROVE  Amounts({r}) = r.amount
  <1>1. IsFiniteSet({r}) /\ IsFiniteSet({})
    BY FS_Singleton, FS_EmptySet
  <1>2. AmountsOf({r}) \in [{r} -> Int] /\ Amounts({r}) = SumOf(AmountsOf({r})) /\ AmountsOf({r})[r] = r.amount
    BY <1>1, AmountsAre DEF AmountsOf
  <1>3. PICK S : S = {r}
    OBVIOUS
  <1>4. SumOf(AmountsOf(S)) = AmountsOf(S)[r] + SumOf([y \in S \ {r} |-> AmountsOf(S)[y]])
    BY <1>1, <1>2, <1>3, SumLess
  <1>5. [y \in S \ {r} |-> AmountsOf(S)[y]] \in [{} -> Int]
    BY <1>3
  <1>6. SumOf([y \in S \ {r} |-> AmountsOf(S)[y]]) = 0
    BY <1>5, SumEmpty
  <1>7. QED
    BY <1>2, <1>3, <1>4, <1>6

\* Of positive amounts a part is less than the whole.
LEMMA AmountsBelow ==
  ASSUME NEW S, IsFiniteSet(S), \A r \in S : r.amount \in Nat \ {0}, NEW T \in SUBSET S
  PROVE  Amounts(T) \in Nat /\ Amounts(T) <= Amounts(S) /\ (Amounts(T) = Amounts(S) => T = S)
  <1>1. /\ AmountsOf(S) \in [S -> Int] /\ Amounts(S) = SumOf(AmountsOf(S)) /\ Amounts(T) = Part(AmountsOf(S), T)
        /\ \A r \in S : AmountsOf(S)[r] > 0
    BY AmountsAre DEF AmountsOf
  <1>2. Part(AmountsOf(S), T) >= 0 /\ Part(AmountsOf(S), T) \in Int
    BY <1>1, PartPositive, PartIs
  <1>3. Part(AmountsOf(S), T) <= SumOf(AmountsOf(S)) /\ (Part(AmountsOf(S), T) = SumOf(AmountsOf(S)) => T = S)
    BY <1>1, PartBelow
  <1>4. QED
    BY <1>1, <1>2, <1>3

\* The months add up to what there was to depreciate.
LEMMA FullAdds ==
  ASSUME NEW q, Sound(q)
  PROVE  Amounts(Full(q)) = Depreciable(q)
  <1>1. PICK N, f, F, D : /\ N = MonthsLeft(q) /\ f = Remains(q) /\ F = FirstPeriod(q) /\ D = Depreciable(q)
                          /\ N \in Nat \ {0} /\ F \in Nat /\ D \in Nat
    BY DEF Sound
  <1> DEFINE upTo(n) == {m \in Full(q) : m.period < F + n}
             W == {n \in Nat : n <= N /\ Amounts(upTo(n)) # D - f[n]}
  <1>2. /\ IsFiniteSet(Full(q))
        /\ \A m \in Full(q) : m.period \in Nat /\ m.period >= F /\ m.period < F + N /\ m.amount \in Nat \ {0}
    BY <1>1, FullRows
  <1>3. /\ \A k \in 0..N : f[k] \in Nat
        /\ \A k \in 1..N : f[k] <= f[k - 1]
        /\ f[N] = 0 /\ f[0] = D
    BY <1>1, RemainsFalls, RemainsAt
  <1>4. 0 \notin W
    <2>1. upTo(0) = {}
      BY <1>1, <1>2
    <2>2. D - f[0] = 0
      BY <1>1, <1>3
    <2>3. QED
      BY <2>1, <2>2, AmountsEmpty
  <1>5. ASSUME NEW n \in 1..N, n - 1 \notin W
        PROVE  n \notin W
    <2>1. n - 1 \in Nat /\ n - 1 <= N /\ n \in 0..N /\ n - 1 \in 0..N
      BY <1>1
    <2>2. Amounts(upTo(n - 1)) = D - f[n - 1]
      BY <1>5, <2>1
    <2>3. f[n] \in Nat /\ f[n - 1] \in Nat /\ f[n] <= f[n - 1]
      BY <1>3, <2>1
    <2> DEFINE last == {m \in Full(q) : m.period = F + n - 1}
    <2>4. upTo(n) = upTo(n - 1) \cup last /\ upTo(n - 1) \cap last = {}
      BY <1>1, <1>2
    <2>5. Amounts(last) = f[n - 1] - f[n]
      <3>1. MonthRow(q, n) = [period |-> F + n - 1, amount |-> f[n - 1] - f[n]]
        BY <1>1 DEF MonthRow
      <3>2. CASE f[n - 1] > 0
        <4>1. MonthRow(q, n) \in last
          <5>1. n \in Months(q)
            BY <1>1, <3>2 DEF Months
          <5>2. MonthRow(q, n) \in Full(q)
            BY <5>1, FullIs
          <5>3. QED
            BY <3>1, <5>2
        <4>2. last = {MonthRow(q, n)}
          BY <4>1, FullRows
        <4>3. Amounts({MonthRow(q, n)}) = f[n - 1] - f[n]
          BY <2>3, <3>1, AmountsOne
        <4>4. QED
          BY <4>2, <4>3
      <3>3. CASE f[n - 1] = 0
        <4>1. \A m \in Full(q) : m.period # F + n - 1
          <5> SUFFICES ASSUME NEW m \in Full(q), m.period = F + n - 1
                       PROVE  FALSE
            OBVIOUS
          <5>1. PICK k \in Months(q) : m = MonthRow(q, k)
            BY FullIs
          <5>2. k \in 1..N /\ f[k - 1] > 0 /\ m.period = F + k - 1
            BY <1>1, <5>1 DEF Months, MonthRow
          <5>3. k = n
            BY <1>1, <5>2
          <5>4. QED
            BY <3>3, <5>2, <5>3
        <4>2. last = {}
          BY <4>1
        <4>3. f[n - 1] - f[n] = 0
          BY <2>3, <3>3
        <4>4. QED
          BY <4>2, <4>3, AmountsEmpty
      <3>4. QED
        BY <2>3, <3>2, <3>3
    <2>6. Amounts(upTo(n)) = Amounts(upTo(n - 1)) + Amounts(last)
      <3>1. upTo(n - 1) \in SUBSET Full(q) /\ last \in SUBSET Full(q)
        OBVIOUS
      <3>2. IsFiniteSet(upTo(n - 1)) /\ IsFiniteSet(last)
        BY <1>2, <3>1, FS_Subset
      <3>3. \A m \in upTo(n - 1) \cup last : m.amount \in Int
        BY <1>2
      <3> HIDE DEF upTo, last
      <3>4. QED
        BY <2>4, <3>2, <3>3, AmountsJoin
    <2> HIDE DEF upTo, last
    <2>7. Amounts(upTo(n)) = D - f[n]
      BY <1>1, <2>2, <2>3, <2>5, <2>6
    <2>8. QED
      BY <2>7
  <1>6. W = {}
    <2> SUFFICES ASSUME W # {}
                 PROVE  FALSE
      OBVIOUS
    <2>1. W \in SUBSET Nat
      OBVIOUS
    <2>2. \A n \in W : n \in Nat /\ n <= N
      OBVIOUS
    <2> HIDE DEF W
    <2>3. PICK n \in W : \A l \in W : n <= l
      BY <2>1, LeastNumber
    <2>4. n # 0 /\ n \in Nat /\ n <= N
      BY <1>4, <2>2, <2>3
    <2>5. n \in 1..N /\ n - 1 \in Nat
      BY <1>1, <2>4
    <2>6. n - 1 \notin W
      BY <2>3, <2>5
    <2>7. QED
      BY <1>5, <2>3, <2>5, <2>6
  <1>7. Amounts(upTo(N)) = D - f[N]
    BY <1>1, <1>6
  <1>8. upTo(N) = Full(q)
    BY <1>2
  <1>9. QED
    BY <1>1, <1>3, <1>7, <1>8

\* The rows of a schedule that rows of any kind stand for.
Rows(S) == {[period |-> r.period, amount |-> r.amount] : r \in S}

\* Rows of S are months of the schedule of q, and no two the same month.
MonthsOf(S, q) ==
  /\ IsFiniteSet(S)
  /\ \A r \in S : [period |-> r.period, amount |-> r.amount] \in Full(q)
  /\ \A r, s \in S : r.period = s.period => r = s

LEMMA RowsTyped ==
  ASSUME NEW q, Sound(q), NEW r, [period |-> r.period, amount |-> r.amount] \in Full(q)
  PROVE  /\ r.period \in Nat \ {0} /\ r.amount \in Nat \ {0}
         /\ r.period >= FirstPeriod(q) /\ r.period < FirstPeriod(q) + MonthsLeft(q)
  <1>1. PICK m \in Full(q) : m = [period |-> r.period, amount |-> r.amount]
    OBVIOUS
  <1>2. m.period = r.period /\ m.amount = r.amount
    BY <1>1
  <1>3. m.period \in Nat /\ m.amount \in Nat \ {0} /\ m.period >= FirstPeriod(q) /\ m.period < FirstPeriod(q) + MonthsLeft(q)
    BY FullRows
  <1>4. FirstPeriod(q) \in Nat \ {0}
    BY DEF Sound
  <1>5. QED
    BY <1>2, <1>3, <1>4

\* Such rows add up to no more than the schedule, and to all of it only when
\* no month is missing.
LEMMA RowsAdd ==
  ASSUME NEW q, Sound(q), NEW S, MonthsOf(S, q)
  PROVE  /\ Rows(S) \in SUBSET Full(q)
         /\ Amounts(S) = Amounts(Rows(S))
         /\ Amounts(S) \in Nat /\ Amounts(S) <= Depreciable(q)
         /\ (Amounts(S) = Depreciable(q)) <=> (Rows(S) = Full(q))
  <1>1. IsFiniteSet(S) /\ \A r \in S : r.amount \in Nat \ {0}
    BY RowsTyped DEF MonthsOf
  <1>2. Rows(S) \in SUBSET Full(q)
    BY DEF Rows, MonthsOf
  <1>3. IsFiniteSet(Full(q)) /\ (\A m \in Full(q) : m.amount \in Nat \ {0})
    BY FullRows
  <1>4. IsFiniteSet(Rows(S)) /\ (\A m \in Rows(S) : m.amount \in Nat \ {0})
    BY <1>2, <1>3, FS_Subset
  <1>5. Amounts(S) = Amounts(Rows(S))
    <2> DEFINE g == [r \in S |-> [period |-> r.period, amount |-> r.amount]]
    <2>1. g \in [S -> Rows(S)] /\ (\A t \in Rows(S) : \E r \in S : g[r] = t)
      BY DEF Rows
    <2>2. \A r, s \in S : g[r] = g[s] => r = s
      <3> SUFFICES ASSUME NEW r \in S, NEW s \in S, g[r] = g[s]
                   PROVE  r = s
        OBVIOUS
      <3>1. g[r].period = r.period /\ g[s].period = s.period
        OBVIOUS
      <3>2. QED
        BY <3>1 DEF MonthsOf
    <2>3. AmountsOf(S) \in [S -> Int] /\ Amounts(S) = SumOf(AmountsOf(S))
      BY <1>1, AmountsAre
    <2>4. AmountsOf(Rows(S)) \in [Rows(S) -> Int] /\ Amounts(Rows(S)) = SumOf(AmountsOf(Rows(S)))
      BY <1>4, AmountsAre
    <2>5. \A r \in S : AmountsOf(S)[r] = AmountsOf(Rows(S))[g[r]]
      BY <2>1 DEF AmountsOf
    <2> HIDE DEF g
    <2>6. SumOf(AmountsOf(S)) = SumOf(AmountsOf(Rows(S)))
      <3>1. Renames(g, AmountsOf(S), AmountsOf(Rows(S)), S, Rows(S))
        BY <1>1, <1>4, <2>1, <2>2, <2>3, <2>4, <2>5 DEF Renames
      <3>2. QED
        BY <3>1, SumRenamed
    <2>7. QED
      BY <2>3, <2>4, <2>6
  <1>6. Amounts(Full(q)) = Depreciable(q)
    BY FullAdds
  <1>7. /\ Amounts(Rows(S)) \in Nat /\ Amounts(Rows(S)) <= Amounts(Full(q))
        /\ Amounts(Rows(S)) = Amounts(Full(q)) => Rows(S) = Full(q)
    BY <1>2, <1>3, AmountsBelow
  <1>8. QED
    BY <1>2, <1>5, <1>6, <1>7

LEMMA MonthsPart ==
  ASSUME NEW q, NEW S, MonthsOf(S, q), NEW T \in SUBSET S
  PROVE  MonthsOf(T, q)
  <1>1. IsFiniteSet(T)
    BY FS_Subset DEF MonthsOf
  <1>2. QED
    BY <1>1 DEF MonthsOf

\* What the rows of a part and of the rest come to.
LEMMA MonthsSplit ==
  ASSUME NEW q, Sound(q), NEW S, MonthsOf(S, q), NEW T \in SUBSET S
  PROVE  Amounts(S) = Amounts(T) + Amounts(S \ T) /\ Amounts(T) \in Nat /\ Amounts(S \ T) \in Nat
  <1>1. PICK U : U = S \ T
    OBVIOUS
  <1>2. U \in SUBSET S /\ T \cap U = {} /\ T \cup U = S
    BY <1>1
  <1>3. MonthsOf(T, q) /\ MonthsOf(U, q)
    BY <1>2, MonthsPart
  <1>4. IsFiniteSet(T) /\ IsFiniteSet(U) /\ \A r \in T \cup U : r.amount \in Int
    <2>1. \A r \in S : r.amount \in Nat \ {0}
      BY RowsTyped DEF MonthsOf
    <2>2. QED
      BY <1>2, <1>3, <2>1 DEF MonthsOf
  <1>5. Amounts(T \cup U) = Amounts(T) + Amounts(U)
    BY <1>2, <1>4, AmountsJoin
  <1>6. QED
    BY <1>1, <1>2, <1>3, <1>5, RowsAdd

----------------------------------------------------------------------------------
(* The order in which a plan is booked. *)

\* Rows that have an asset and a month each, no two of them the same.
Ordered(plan) ==
  /\ IsFiniteSet(plan)
  /\ \A d \in plan : d.asset \in Nat /\ d.period \in Nat
  /\ \A d, e \in plan : d.asset = e.asset /\ d.period = e.period => d = e

Earlier(d, plan) == {e \in plan : Before(e, d)}

\* Every row has a position of its own, and every position a row.
LEMMA PositionIs ==
  ASSUME NEW plan, Ordered(plan)
  PROVE  /\ Cardinality(plan) \in Nat
         /\ \A d \in plan : Position(d, plan) \in 1..Cardinality(plan)
         /\ \A d, e \in plan : Position(d, plan) = Position(e, plan) => d = e
         /\ \A k \in 1..Cardinality(plan) : Nth(k, plan) \in plan /\ Position(Nth(k, plan), plan) = k
  <1>1. IsFiniteSet(plan) /\ Cardinality(plan) \in Nat
    BY FS_CardinalityType DEF Ordered
  <1>2. \A d : Position(d, plan) = Cardinality(Earlier(d, plan)) + 1 /\ Earlier(d, plan) \in SUBSET plan
    BY DEF Position, Earlier
  <1>3. ASSUME NEW d \in plan
        PROVE  /\ IsFiniteSet(Earlier(d, plan)) /\ Cardinality(Earlier(d, plan)) \in Nat
               /\ Cardinality(Earlier(d, plan)) < Cardinality(plan)
    <2>1. d \notin Earlier(d, plan)
      BY DEF Earlier, Before, Ordered
    <2>2. /\ IsFiniteSet(Earlier(d, plan)) /\ Cardinality(Earlier(d, plan)) <= Cardinality(plan)
          /\ Cardinality(plan) = Cardinality(Earlier(d, plan)) => plan = Earlier(d, plan)
      BY <1>1, <1>2, FS_Subset
    <2>3. Cardinality(Earlier(d, plan)) \in Nat
      BY <2>2, FS_CardinalityType
    <2>4. QED
      BY <1>1, <2>1, <2>2, <2>3
  <1>4. ASSUME NEW d \in plan, NEW e \in plan, Before(d, e)
        PROVE  Cardinality(Earlier(d, plan)) < Cardinality(Earlier(e, plan))
    <2>1. d \in Earlier(e, plan) /\ d \notin Earlier(d, plan)
      BY <1>4 DEF Earlier, Before, Ordered
    <2>2. Earlier(d, plan) \in SUBSET Earlier(e, plan)
      BY <1>4 DEF Earlier, Before, Ordered
    <2>3. /\ Cardinality(Earlier(d, plan)) <= Cardinality(Earlier(e, plan))
          /\ Cardinality(Earlier(e, plan)) = Cardinality(Earlier(d, plan)) => Earlier(e, plan) = Earlier(d, plan)
      BY <1>3, <2>2, FS_Subset
    <2>4. QED
      BY <1>3, <2>1, <2>3
  <1>5. \A d \in plan : Position(d, plan) \in 1..Cardinality(plan)
    BY <1>1, <1>2, <1>3
  <1>6. \A d, e \in plan : Position(d, plan) = Position(e, plan) => d = e
    <2> SUFFICES ASSUME NEW d \in plan, NEW e \in plan, Position(d, plan) = Position(e, plan)
                 PROVE  d = e
      OBVIOUS
    <2>1. Cardinality(Earlier(d, plan)) = Cardinality(Earlier(e, plan))
      BY <1>2, <1>3
    <2>2. ~Before(d, e) /\ ~Before(e, d)
      BY <1>3, <1>4, <2>1
    <2>3. d.asset = e.asset /\ d.period = e.period
      BY <2>2 DEF Before, Ordered
    <2>4. QED
      BY <2>3 DEF Ordered
  <1>7. \A k \in 1..Cardinality(plan) : \E d \in plan : Position(d, plan) = k
    <2> DEFINE f == [d \in plan |-> Position(d, plan)]
    <2>1. f \in Injection(plan, 1..Cardinality(plan))
      BY <1>5, <1>6 DEF Injection, IsInjective
    <2>2. IsFiniteSet(1..Cardinality(plan)) /\ Cardinality(1..Cardinality(plan)) = Cardinality(plan)
      BY <1>1, FS_Interval
    <2> HIDE DEF f
    <2>3. f \in Surjection(plan, 1..Cardinality(plan))
      BY <2>1, <2>2, FS_Injection
    <2>4. QED
      BY <2>3 DEF f, Surjection
  <1>8. \A k \in 1..Cardinality(plan) : Nth(k, plan) \in plan /\ Position(Nth(k, plan), plan) = k
    <2> SUFFICES ASSUME NEW k \in 1..Cardinality(plan)
                 PROVE  Nth(k, plan) \in plan /\ Position(Nth(k, plan), plan) = k
      OBVIOUS
    <2>1. \E d : d \in plan /\ Position(d, plan) = k
      BY <1>7
    <2>2. QED
      BY <2>1 DEF Nth
  <1>9. QED
    BY <1>1, <1>5, <1>6, <1>8

----------------------------------------------------------------------------------
(* What posting lists put on a set of accounts. *)

\* What a posting puts on the accounts in A.
On(p, A) == IF p.account \in A THEN p.amount ELSE 0

OnOf(l, A) == [k \in DOMAIN l |-> On(l[k], A)]

ListOn(l, A) == SumOf(OnOf(l, A))

LEMMA OnTyped ==
  ASSUME NEW l \in Seq(Posting), NEW A
  PROVE  /\ DOMAIN l = 1..Len(l) /\ Len(l) \in Nat /\ IsFiniteSet(DOMAIN l)
         /\ OnOf(l, A) \in [DOMAIN l -> Int]
         /\ ListOn(l, A) \in Int
  <1>1. DOMAIN l = 1..Len(l) /\ Len(l) \in Nat
    OBVIOUS
  <1>2. IsFiniteSet(DOMAIN l)
    BY <1>1, FS_Interval
  <1>3. \A k \in DOMAIN l : l[k] \in Posting
    OBVIOUS
  <1>4. OnOf(l, A) \in [DOMAIN l -> Int]
    BY <1>3 DEF OnOf, On, Posting
  <1>5. QED
    BY <1>1, <1>2, <1>4, SumTyped DEF ListOn

LEMMA OnEmpty ==
  ASSUME NEW A
  PROVE  ListOn(<< >>, A) = 0
  <1>1. OnOf(<< >>, A) \in [{} -> Int]
    BY DEF OnOf
  <1>2. QED
    BY <1>1, SumEmpty DEF ListOn

LEMMA OnOne ==
  ASSUME NEW p \in Posting, NEW A
  PROVE  ListOn(<<p>>, A) = On(p, A)
  <1>1. PICK l : l = <<p>>
    OBVIOUS
  <1>2. l \in Seq(Posting) /\ DOMAIN l = {1} /\ l[1] = p
    BY <1>1
  <1>3. OnOf(l, A) \in [{1} -> Int] /\ IsFiniteSet({1}) /\ OnOf(l, A)[1] = On(p, A) /\ On(p, A) \in Int
    <2>1. OnOf(l, A) \in [DOMAIN l -> Int] /\ IsFiniteSet(DOMAIN l)
      BY <1>2, OnTyped
    <2>2. OnOf(l, A)[1] = On(p, A)
      BY <1>2 DEF OnOf
    <2>3. On(p, A) \in Int
      BY DEF On, Posting
    <2>4. QED
      BY <1>2, <2>1, <2>2, <2>3
  <1>4. SumOf(OnOf(l, A)) = OnOf(l, A)[1] + SumOf([y \in {1} \ {1} |-> OnOf(l, A)[y]])
    BY <1>3, SumLess
  <1>5. [y \in {1} \ {1} |-> OnOf(l, A)[y]] \in [{} -> Int]
    OBVIOUS
  <1>6. SumOf([y \in {1} \ {1} |-> OnOf(l, A)[y]]) = 0
    BY <1>5, SumEmpty
  <1>7. QED
    BY <1>1, <1>3, <1>4, <1>6 DEF ListOn

\* Of two lists one after the other the sum of what either puts there.
LEMMA OnConcat ==
  ASSUME NEW l \in Seq(Posting), NEW m \in Seq(Posting), NEW A
  PROVE  ListOn(l \o m, A) = ListOn(l, A) + ListOn(m, A)
  <1>1. /\ DOMAIN l = 1..Len(l) /\ Len(l) \in Nat /\ OnOf(l, A) \in [DOMAIN l -> Int]
        /\ DOMAIN m = 1..Len(m) /\ Len(m) \in Nat /\ OnOf(m, A) \in [DOMAIN m -> Int]
    BY OnTyped
  <1>2. /\ OnOf(l, A) \in Seq(Int) /\ Len(OnOf(l, A)) = Len(l)
        /\ OnOf(m, A) \in Seq(Int) /\ Len(OnOf(m, A)) = Len(m)
    <2>1. \A n \in Nat : \A f \in [1..n -> Int] : f \in Seq(Int) /\ Len(f) = n
      OBVIOUS
    <2>2. QED
      BY <1>1, <2>1
  <1>3. PICK f, g : f = OnOf(l, A) /\ g = OnOf(m, A)
    OBVIOUS
  <1>4. OnOf(l \o m, A) = f \o g
    <2>1. \A k \in 1..(Len(l) + Len(m)) : On((l \o m)[k], A) = (f \o g)[k]
      <3> SUFFICES ASSUME NEW k \in 1..(Len(l) + Len(m))
                   PROVE  On((l \o m)[k], A) = (f \o g)[k]
        OBVIOUS
      <3>1. CASE k <= Len(l)
        <4>1. (l \o m)[k] = l[k] /\ (f \o g)[k] = f[k] /\ k \in DOMAIN l
          BY <1>1, <1>2, <1>3, <3>1
        <4>2. QED
          BY <1>3, <4>1 DEF OnOf
      <3>2. CASE ~(k <= Len(l))
        <4>1. (l \o m)[k] = m[k - Len(l)] /\ (f \o g)[k] = g[k - Len(l)] /\ k - Len(l) \in DOMAIN m
          BY <1>1, <1>2, <1>3, <3>2
        <4>2. QED
          BY <1>3, <4>1 DEF OnOf
      <3>3. QED
        BY <3>1, <3>2
    <2>2. DOMAIN (l \o m) = 1..(Len(l) + Len(m))
      BY <1>1
    <2>3. f \o g = [k \in 1..(Len(l) + Len(m)) |-> (f \o g)[k]]
      <3>1. f \in Seq(Int) /\ g \in Seq(Int) /\ Len(f) = Len(l) /\ Len(g) = Len(m)
        BY <1>2, <1>3
      <3>2. PICK c \in Seq(Int) : c = f \o g /\ Len(c) = Len(l) + Len(m)
        <4>1. f \o g \in Seq(Int)
          BY <3>1
        <4>2. Len(f \o g) = Len(f) + Len(g)
          <5>1. f \in Seq(Int) /\ g \in Seq(Int)
            BY <3>1
          <5> HIDE <3>1
          <5>2. QED
            BY <5>1, ConcatProperties, Zenon
        <4>3. QED
          BY <3>1, <4>1, <4>2
      <3>3. c = [k \in 1..Len(c) |-> c[k]]
        OBVIOUS
      <3>4. QED
        BY <3>2, <3>3
    <2>4. QED
      BY <2>1, <2>2, <2>3 DEF OnOf
  <1>5. QED
    BY <1>2, <1>3, <1>4, SumConcat DEF ListOn

\* Of two postings.
LEMMA OnTwo ==
  ASSUME NEW p \in Posting, NEW r \in Posting, NEW A
  PROVE  ListOn(<<p, r>>, A) = On(p, A) + On(r, A)
  <1>1. <<p>> \in Seq(Posting) /\ <<r>> \in Seq(Posting) /\ <<p, r>> = <<p>> \o <<r>>
    <2>1. <<p>> \in Seq(Posting) /\ <<r>> \in Seq(Posting)
      OBVIOUS
    <2>2. <<p, r>> = Append(<<p>>, r)
      OBVIOUS
    <2>3. QED
      BY <2>1, <2>2, AppendIsConcat
  <1>2. PICK l, m : l = <<p>> /\ m = <<r>>
    OBVIOUS
  <1>3. l \in Seq(Posting) /\ m \in Seq(Posting) /\ <<p, r>> = l \o m
    BY <1>1, <1>2
  <1>4. ListOn(l \o m, A) = ListOn(l, A) + ListOn(m, A)
    BY <1>3, OnConcat
  <1>5. ListOn(l, A) = On(p, A) /\ ListOn(m, A) = On(r, A)
    BY <1>2, OnOne
  <1>6. QED
    BY <1>3, <1>4, <1>5

\* A leg of a disposal: none of nothing.
DisposalLeg(account, amount) ==
  IF amount = 0 THEN << >> ELSE << [account |-> account, amount |-> amount] >>

LEMMA LegOn ==
  ASSUME NEW account \in Accounts, NEW amount \in Int, NEW A
  PROVE  /\ DisposalLeg(account, amount) \in Seq(Posting)
         /\ ListOn(DisposalLeg(account, amount), A) = IF account \in A THEN amount ELSE 0
  <1>1. CASE amount = 0
    <2>1. DisposalLeg(account, amount) = << >>
      BY <1>1 DEF DisposalLeg
    <2>2. << >> \in Seq(Posting)
      OBVIOUS
    <2>3. QED
      BY <1>1, <2>1, <2>2, OnEmpty
  <1>2. CASE amount # 0
    <2>1. PICK p \in Posting : p = [account |-> account, amount |-> amount]
      BY <1>2 DEF Posting
    <2>2. DisposalLeg(account, amount) = <<p>>
      BY <1>2, <2>1 DEF DisposalLeg
    <2>3. <<p>> \in Seq(Posting)
      OBVIOUS
    <2>4. ListOn(<<p>>, A) = On(p, A)
      BY OnOne
    <2>5. On(p, A) = IF account \in A THEN amount ELSE 0
      BY <2>1 DEF On
    <2>6. QED
      BY <2>2, <2>3, <2>4, <2>5
  <1>3. QED
    BY <1>1, <1>2

LEMMA FourLists ==
  ASSUME NEW l \in Seq(Posting), NEW m \in Seq(Posting), NEW n \in Seq(Posting), NEW o \in Seq(Posting), NEW A
  PROVE  /\ l \o m \o n \o o \in Seq(Posting)
         /\ ListOn(l \o m \o n \o o, A) = ListOn(l, A) + ListOn(m, A) + ListOn(n, A) + ListOn(o, A)
  <1>1. PICK x \in Seq(Posting) : x = l \o m
    BY ConcatProperties
  <1>2. PICK y \in Seq(Posting) : y = x \o n
    BY ConcatProperties
  <1>3. y \o o \in Seq(Posting) /\ l \o m \o n \o o = y \o o
    BY <1>1, <1>2
  <1>4. ListOn(x, A) = ListOn(l, A) + ListOn(m, A)
    BY <1>1, OnConcat
  <1>5. ListOn(y, A) = ListOn(x, A) + ListOn(n, A)
    BY <1>2, OnConcat
  <1>6. ListOn(y \o o, A) = ListOn(y, A) + ListOn(o, A)
    BY OnConcat
  <1>7. QED
    BY <1>3, <1>4, <1>5, <1>6

DisposalList(asset, cum, proceeds, off, cost, rest) ==
  DisposalLeg("bank", proceeds) \o DisposalLeg(cum, off) \o DisposalLeg(asset, cost) \o DisposalLeg("result", rest)

\* The postings of a disposal, of what was taken off before.
PostingsOf(q, off, proceeds) ==
  DisposalList(q.asset, CumAccount(q), proceeds, off, -q.price, -(proceeds - (q.price - off)))

\* What a disposal of an asset kept on A puts there, whatever the proceeds.
LEMMA DisposalOn ==
  ASSUME NEW asset \in Accounts, NEW cum \in Accounts,
         NEW proceeds \in Int, NEW off \in Int, NEW cost \in Int, NEW rest \in Int
  PROVE  /\ DisposalList(asset, cum, proceeds, off, cost, rest) \in Seq(Posting)
         /\ "bank" \notin {asset, cum} /\ "result" \notin {asset, cum} =>
              ListOn(DisposalList(asset, cum, proceeds, off, cost, rest), {asset, cum}) = off + cost
  <1>0. PICK A : A = {asset, cum}
    OBVIOUS
  <1>1. "bank" \in Accounts /\ "result" \in Accounts
    BY AssetsAssumption
  <1>2. PICK b \in Seq(Posting) : b = DisposalLeg("bank", proceeds) /\ ListOn(b, A) = IF "bank" \in A THEN proceeds ELSE 0
    BY <1>1, LegOn
  <1>3. PICK c \in Seq(Posting) : c = DisposalLeg(cum, off) /\ ListOn(c, A) = IF cum \in A THEN off ELSE 0
    BY LegOn
  <1>4. PICK d \in Seq(Posting) : d = DisposalLeg(asset, cost) /\ ListOn(d, A) = IF asset \in A THEN cost ELSE 0
    BY LegOn
  <1>5. PICK e \in Seq(Posting) : e = DisposalLeg("result", rest) /\ ListOn(e, A) = IF "result" \in A THEN rest ELSE 0
    BY <1>1, LegOn
  <1>6. /\ b \o c \o d \o e \in Seq(Posting)
        /\ ListOn(b \o c \o d \o e, A) = ListOn(b, A) + ListOn(c, A) + ListOn(d, A) + ListOn(e, A)
    BY FourLists
  <1>7. ASSUME "bank" \notin A, "result" \notin A
        PROVE  ListOn(b \o c \o d \o e, A) = off + cost
    <2>1. "bank" \notin A /\ "result" \notin A /\ asset \in A /\ cum \in A
      BY <1>0, <1>7
    <2>2. ListOn(b, A) = 0 /\ ListOn(c, A) = off /\ ListOn(d, A) = cost /\ ListOn(e, A) = 0
      BY <1>2, <1>3, <1>4, <1>5, <2>1
    <2>3. QED
      BY <1>6, <2>2
  <1>8. QED
    BY <1>0, <1>2, <1>3, <1>4, <1>5, <1>6, <1>7 DEF DisposalList

----------------------------------------------------------------------------------
(* The inductive invariant. *)

AssetRow == [q : Requests, disposed : Nat, disposalEntry : Nat,
             status : {"active", "paused", "fully_depreciated", "disposed"}]

\* Only admissible requests are registered, and an asset that is not disposed
\* names no entry, unless two commands worked on it at once.
RegisterOK ==
  /\ schemes \subseteq SchemeNames
  /\ assets \in Seq(AssetRow)
  /\ \A a \in AssetIds :
       /\ Admissible(assets[a].q) /\ assets[a].q.scheme \in schemes
       /\ IF assets[a].status = "disposed" THEN assets[a].disposalEntry \in Ids ELSE assets[a].disposalEntry = 0 \/ a \in troubled
  /\ entries \in Seq(EntryRow) /\ \A e \in Ids : entries[e].ref \in AssetIds
  /\ inactive \subseteq Closable
  /\ troubled \subseteq AssetIds

\* The row is a month of the schedule of its asset.
OfSchedule(d) == d.asset \in AssetIds /\ [period |-> d.period, amount |-> d.amount] \in Full(assets[d.asset].q)

RunsOK ==
  /\ IsFiniteSet(runs)
  /\ \A r \in runs : OfSchedule(r) /\ r.entry \in Ids
  /\ \A r, s \in runs : r.asset = s.asset /\ r.period = s.period => r = s

PlanOK(plan) ==
  /\ IsFiniteSet(plan)
  /\ \A d \in plan : OfSchedule(d) /\ d = [asset |-> d.asset, period |-> d.period, amount |-> d.amount]

JobOK(job) ==
  \/ job = Idle
  \/ job.at = "run" /\ job.asset = 0 /\ PlanOK(job.plan)
  \/ /\ job.at = "dispose" /\ job.plan = {}
     /\ job.asset \in AssetIds /\ job.date \in Nat /\ job.postings \in Seq(Posting)
  \/ job.at \in {"pause", "resume"} /\ job.plan = {} /\ job.asset \in AssetIds

JobsOK ==
  /\ work = [w \in Workers |-> work[w]]
  /\ \A w \in Workers : JobOK(work[w])

BookedAt(a, period) == \E r \in runs : r.asset = a /\ r.period = period

\* Before a month that is booked no month of the schedule is missing ...
UnbrokenOK ==
  \A r \in runs : \A m \in Full(assets[r.asset].q) : m.period <= r.period => BookedAt(r.asset, m.period)

\* ... and before one that is planned none is but those of the plan.
PlansOK ==
  \A w \in Workers : \A d \in work[w].plan : \A m \in Full(assets[d.asset].q) :
    m.period <= d.period =>
      BookedAt(d.asset, m.period) \/ \E e \in work[w].plan : e.asset = d.asset /\ e.period = m.period

\* An asset that the runs completed has all of its schedule booked; one that
\* is complete from the start is never planned.
WholeOK ==
  /\ \A a \in AssetIds :
       assets[a].status = "fully_depreciated" /\ Booked(a) # {} => \A m \in Full(assets[a].q) : BookedAt(a, m.period)
  /\ \A w \in Workers : \A d \in work[w].plan :
       assets[d.asset].status = "fully_depreciated" => Booked(d.asset) # {}

\* Every run has its entry.
JournalOK ==
  /\ \A r \in runs : entries[r.entry] = Entry(DepreciationPostings(r), r.asset)
  /\ \A r, s \in runs : r.entry = s.entry => r = s

\* Who works on an asset that no two commands worked on at once works alone:
\* what it read still holds, and the journal has the runs and the disposal.
Alone(a) ==
  /\ \A v, w \in Workers : a \in AssetsOf(work[v]) /\ a \in AssetsOf(work[w]) => v = w
  /\ assets[a].status = "disposed" => \A w \in Workers : a \notin AssetsOf(work[w])

ReadOK(a) ==
  \A w \in Workers : work[w].at = "dispose" /\ work[w].asset = a =>
    \E p \in Proceeds : work[w].postings = DisposalPostings(a, work[w].date, p)

BooksOK(a) ==
  /\ assets[a].status # "disposed" => EntriesOf(a) = {r.entry : r \in Booked(a)}
  /\ assets[a].status = "disposed" =>
       /\ EntriesOf(a) = {r.entry : r \in Booked(a)} \cup {assets[a].disposalEntry}
       /\ \E p \in Proceeds :
            entries[assets[a].disposalEntry] = Entry(DisposalPostings(a, assets[a].disposed, p), a)
       /\ \A r \in Booked(a) : r.entry < assets[a].disposalEntry

UndisturbedOK == \A a \in AssetIds \ troubled : Alone(a) /\ ReadOK(a) /\ BooksOK(a)

IInv ==
  /\ RegisterOK /\ RunsOK /\ JobsOK
  /\ UnbrokenOK /\ PlansOK /\ WholeOK
  /\ JournalOK /\ UndisturbedOK

----------------------------------------------------------------------------------
(* What the invariant says of one asset, one plan and one posting list. *)

LEMMA AssetIs ==
  ASSUME RegisterOK, NEW a \in AssetIds
  PROVE  /\ assets[a] \in AssetRow /\ a \in Nat \ {0}
         /\ Sound(assets[a].q)
         /\ {assets[a].q.asset, assets[a].q.expense, CumAccount(assets[a].q)} \subseteq Accounts
         /\ assets[a].q.expense \notin {assets[a].q.asset, CumAccount(assets[a].q)}
  <1>1. assets[a] \in AssetRow /\ a \in Nat \ {0}
    BY DEF RegisterOK, AssetIds
  <1>2. PICK q \in Requests : q = assets[a].q /\ Admissible(q)
    BY <1>1 DEF RegisterOK, AssetRow
  <1>3. {q.asset, q.expense} \subseteq Accounts /\ (q.cum = "none" \/ q.cum \in Accounts)
    BY AssetsAssumption
  <1>4. CumAccount(q) \in Accounts
    BY <1>3 DEF CumAccount
  <1>5. q.expense \notin {q.asset, CumAccount(q)}
    BY <1>2 DEF Admissible
  <1>6. QED
    BY <1>1, <1>2, <1>3, <1>4, <1>5, RequestIsSound

LEMMA BookedIs ==
  ASSUME RegisterOK, RunsOK, NEW a \in AssetIds, NEW T \in SUBSET Booked(a)
  PROVE  MonthsOf(T, assets[a].q)
  <1>1. T \in SUBSET runs /\ (\A r \in T : r.asset = a)
    BY DEF Booked
  <1>2. IsFiniteSet(T)
    BY <1>1, FS_Subset DEF RunsOK
  <1>3. QED
    BY <1>1, <1>2 DEF MonthsOf, RunsOK, OfSchedule

\* What was depreciated up to a month, and what is left of it in the end.
LEMMA DepIs ==
  ASSUME RegisterOK, RunsOK, NEW a \in AssetIds, NEW p
  PROVE  DepToPeriod(a, p) \in Nat /\ DepToPeriod(a, p) <= Depreciable(assets[a].q)
  <1>1. MonthsOf({r \in Booked(a) : r.period <= p}, assets[a].q)
    BY BookedIs
  <1>2. Sound(assets[a].q)
    BY AssetIs
  <1>3. QED
    BY <1>1, <1>2, RowsAdd DEF DepToPeriod

LEMMA PlanIs ==
  ASSUME RegisterOK, NEW plan, PlanOK(plan)
  PROVE  /\ Ordered(plan)
         /\ \A a \in AssetIds : MonthsOf({d \in plan : d.asset = a}, assets[a].q)
  <1>1. ASSUME NEW d \in plan
        PROVE  d.asset \in AssetIds /\ d.asset \in Nat /\ d.period \in Nat
    <2>1. d.asset \in AssetIds /\ [period |-> d.period, amount |-> d.amount] \in Full(assets[d.asset].q)
      BY DEF PlanOK, OfSchedule
    <2>2. Sound(assets[d.asset].q) /\ d.asset \in Nat
      BY <2>1, AssetIs
    <2>3. QED
      BY <2>1, <2>2, RowsTyped
  <1>2. ASSUME NEW d \in plan, NEW e \in plan, d.asset = e.asset, d.period = e.period
        PROVE  d = e
    <2>1. PICK q : q = assets[d.asset].q /\ Sound(q)
      BY <1>1, AssetIs
    <2>2. PICK m \in Full(q) : m = [period |-> d.period, amount |-> d.amount]
      BY <2>1 DEF PlanOK, OfSchedule
    <2>3. PICK n \in Full(q) : n = [period |-> e.period, amount |-> e.amount]
      BY <1>2, <2>1 DEF PlanOK, OfSchedule
    <2>4. m.period = d.period /\ n.period = e.period /\ m.amount = d.amount /\ n.amount = e.amount
      BY <2>2, <2>3
    <2>5. m = n
      BY <1>2, <2>1, <2>4, FullRows
    <2>6. d.amount = e.amount
      BY <2>4, <2>5
    <2>7. QED
      BY <1>2, <2>6 DEF PlanOK
  <1>3. IsFiniteSet(plan)
    BY DEF PlanOK
  <1>4. Ordered(plan)
    BY <1>1, <1>2, <1>3 DEF Ordered
  <1>5. ASSUME NEW a \in AssetIds
        PROVE  MonthsOf({d \in plan : d.asset = a}, assets[a].q)
    <2>1. IsFiniteSet({d \in plan : d.asset = a})
      BY <1>3, FS_Subset
    <2>2. \A d \in plan : d.asset = a => [period |-> d.period, amount |-> d.amount] \in Full(assets[a].q)
      BY DEF PlanOK, OfSchedule
    <2>3. \A d, e \in plan : d.asset = a /\ e.asset = a /\ d.period = e.period => d = e
      BY <1>2
    <2>4. QED
      BY <2>1, <2>2, <2>3 DEF MonthsOf
  <1>6. QED
    BY <1>4, <1>5

LEMMA DepreciationIs ==
  ASSUME RegisterOK, NEW d, OfSchedule(d)
  PROVE  /\ DepreciationPostings(d) \in Seq(Posting)
         /\ ListOn(DepreciationPostings(d), {assets[d.asset].q.asset, CumAccount(assets[d.asset].q)}) = -d.amount
  <1>1. PICK q, A : q = assets[d.asset].q /\ A = {q.asset, CumAccount(q)}
    OBVIOUS
  <1>2. Sound(q) /\ {q.expense, CumAccount(q)} \subseteq Accounts /\ q.expense \notin A /\ CumAccount(q) \in A
    BY <1>1, AssetIs DEF OfSchedule
  <1>3. d.amount \in Nat \ {0}
    BY <1>1, <1>2, RowsTyped DEF OfSchedule
  <1>4. PICK p \in Posting, r \in Posting : /\ p = [account |-> q.expense, amount |-> d.amount]
                                            /\ r = [account |-> CumAccount(q), amount |-> -d.amount]
    <2>1. d.amount \in Int \ {0} /\ -d.amount \in Int \ {0}
      BY <1>3
    <2>2. [account |-> q.expense, amount |-> d.amount] \in Posting
      BY <1>2, <2>1 DEF Posting
    <2>3. [account |-> CumAccount(q), amount |-> -d.amount] \in Posting
      BY <1>2, <2>1 DEF Posting
    <2>4. QED
      BY <2>2, <2>3
  <1>5. DepreciationPostings(d) = <<p, r>> /\ <<p, r>> \in Seq(Posting)
    BY <1>1, <1>4 DEF DepreciationPostings
  <1>6. ListOn(<<p, r>>, A) = On(p, A) + On(r, A)
    BY OnTwo
  <1>7. On(p, A) = 0 /\ On(r, A) = -d.amount
    BY <1>2, <1>4 DEF On
  <1>8. QED
    BY <1>1, <1>3, <1>5, <1>6, <1>7

LEMMA DisposalIs ==
  ASSUME RegisterOK, RunsOK, NEW a \in AssetIds, NEW date, NEW p \in Proceeds
  PROVE  /\ DisposalPostings(a, date, p) \in Seq(Posting)
         /\ {assets[a].q.asset, CumAccount(assets[a].q)} \cap {"bank", "result"} = {} =>
              ListOn(DisposalPostings(a, date, p), {assets[a].q.asset, CumAccount(assets[a].q)})
                = assets[a].q.recognised + DepToPeriod(a, Month(date) - 1) - assets[a].q.price
  <1>1. PICK q, off, A : q = assets[a].q /\ off = TakenOff(a, date) /\ A = {q.asset, CumAccount(q)}
    OBVIOUS
  <1>2. q.price \in Int /\ q.recognised \in Int /\ q.asset \in Accounts /\ CumAccount(q) \in Accounts
    BY <1>1, AssetIs DEF Sound
  <1>3. off = q.recognised + DepToPeriod(a, Month(date) - 1) /\ off \in Int
    <2>1. DepToPeriod(a, Month(date) - 1) \in Nat
      BY DepIs
    <2>2. QED
      BY <1>1, <1>2, <2>1 DEF TakenOff
  <1>4. p \in Int
    BY AssetsAssumption
  <1>5. PICK rest \in Int : rest = p - (q.price - off)
    BY <1>2, <1>3, <1>4
  <1>6. DisposalPostings(a, date, p)
          = DisposalLeg("bank", p) \o DisposalLeg(CumAccount(q), off) \o DisposalLeg(q.asset, -q.price) \o DisposalLeg("result", -rest)
    BY <1>1, <1>5 DEF DisposalPostings, DisposalLeg
  <1>7. /\ DisposalPostings(a, date, p) \in Seq(Posting)
        /\ A \cap {"bank", "result"} = {} => ListOn(DisposalPostings(a, date, p), A) = off - q.price
    <2>1. -q.price \in Int /\ -rest \in Int
      BY <1>2
    <2>2. PICK x \in Int, o \in Int, cost \in Int, left \in Int : x = p /\ o = off /\ cost = -q.price /\ left = -rest
      BY <1>3, <1>4, <2>1
    <2>3. PICK asset \in Accounts, cum \in Accounts : asset = q.asset /\ cum = CumAccount(q)
      BY <1>2
    <2>4. PICK l : l = DisposalList(asset, cum, x, o, cost, left)
      OBVIOUS
    <2>5. /\ l \in Seq(Posting)
          /\ "bank" \notin {asset, cum} /\ "result" \notin {asset, cum} => ListOn(l, {asset, cum}) = o + cost
      BY <2>4, DisposalOn
    <2>6. l = DisposalPostings(a, date, p) /\ A = {asset, cum} /\ o + cost = off - q.price
      BY <1>1, <1>2, <1>3, <1>6, <2>2, <2>3, <2>4 DEF DisposalList
    <2>7. QED
      BY <2>5, <2>6
  <1>8. QED
    <2>1. PICK dep \in Int : dep = DepToPeriod(a, Month(date) - 1)
      BY DepIs
    <2>2. off - q.price = q.recognised + dep - q.price
      BY <1>2, <1>3, <2>1
    <2>3. QED
      BY <1>1, <1>7, <2>1, <2>2

----------------------------------------------------------------------------------
(* The invariant holds at the start, and every step keeps it. *)

LEMMA InitIInv ==
  ASSUME Init
  PROVE  IInv
  <1>1. AssetIds = {} /\ Ids = {}
    BY DEF Init, AssetIds, Ids
  <1>2. RegisterOK
    BY <1>1 DEF Init, RegisterOK
  <1>3. RunsOK /\ UnbrokenOK /\ JournalOK
    BY FS_EmptySet DEF Init, RunsOK, UnbrokenOK, JournalOK
  <1>4. \A w \in Workers : work[w] = Idle
    BY DEF Init
  <1>5. JobsOK
    BY <1>4 DEF Init, JobsOK, JobOK
  <1>6. PlansOK /\ WholeOK
    BY <1>1, <1>4 DEF PlansOK, WholeOK, Idle
  <1>7. UndisturbedOK
    BY <1>1 DEF UndisturbedOK
  <1>8. QED
    BY <1>2, <1>3, <1>5, <1>6, <1>7 DEF IInv

\* The register keeps what was asked for.
KeepsRequests ==
  /\ AssetIds \subseteq AssetIds'
  /\ \A a \in AssetIds : assets'[a].q = assets[a].q

LEMMA OfScheduleKept ==
  ASSUME KeepsRequests, NEW d, OfSchedule(d)
  PROVE  OfSchedule(d)'
  BY DEF KeepsRequests, OfSchedule, AssetIds

LEMMA PlanKept ==
  ASSUME KeepsRequests, NEW plan, PlanOK(plan)
  PROVE  PlanOK(plan)'
  BY OfScheduleKept DEF PlanOK

LEMMA JobKept ==
  ASSUME KeepsRequests, NEW job, JobOK(job)
  PROVE  JobOK(job)'
  <1>1. job.asset \in AssetIds => job.asset \in AssetIds'
    BY DEF KeepsRequests
  <1>2. PlanOK(job.plan) => PlanOK(job.plan)'
    <2>1. PICK plan : plan = job.plan
      OBVIOUS
    <2>2. PlanOK(plan) => PlanOK(plan)'
      BY PlanKept
    <2>3. QED
      BY <2>1, <2>2 DEF PlanOK, OfSchedule
  <1>3. QED
    BY <1>1, <1>2 DEF JobOK

\* While an asset has the same runs a disposal of it is booked in the same way.
LEMMA DisposalKept ==
  ASSUME KeepsRequests, NEW a \in AssetIds, Booked(a)' = Booked(a), NEW date, NEW p
  PROVE  DisposalPostings(a, date, p)' = DisposalPostings(a, date, p)
  <1>1. assets'[a].q = assets[a].q
    BY DEF KeepsRequests
  <1>2. TakenOff(a, date)' = TakenOff(a, date)
    BY <1>1 DEF TakenOff, DepToPeriod
  <1>3. QED
    BY <1>1, <1>2 DEF DisposalPostings

\* ... so what a command read still holds ...
LEMMA ReadKept ==
  ASSUME KeepsRequests, NEW a \in AssetIds, Booked(a)' = Booked(a), work' = work, ReadOK(a)
  PROVE  ReadOK(a)'
  <1>1. \A w \in Workers : work'[w].at = "dispose" /\ work'[w].asset = a =>
          \E p \in Proceeds : work'[w].postings = DisposalPostings(a, work[w].date, p)
    BY DEF ReadOK
  <1>2. ASSUME NEW w \in Workers, NEW p \in Proceeds
        PROVE  DisposalPostings(a, work[w].date, p)' = DisposalPostings(a, work[w].date, p)
    <2>1. PICK date : date = work[w].date
      OBVIOUS
    <2>2. DisposalPostings(a, date, p)' = DisposalPostings(a, date, p)
      BY DisposalKept
    <2>3. date = work'[w].date
      BY <2>1
    <2>4. DisposalPostings(a, work[w].date, p)' = PostingsOf(assets'[a].q, TakenOff(a, work[w].date)', p)
      BY DEF DisposalPostings, PostingsOf, DisposalList, DisposalLeg
    <2>5. DisposalPostings(a, date, p)' = PostingsOf(assets'[a].q, TakenOff(a, date)', p)
      BY DEF DisposalPostings, PostingsOf, DisposalList, DisposalLeg
    <2>6. TakenOff(a, work[w].date)' = TakenOff(a, date)'
      BY <2>3 DEF TakenOff
    <2>7. QED
      BY <2>1, <2>2, <2>4, <2>5, <2>6
  <1>3. QED
    BY <1>1, <1>2 DEF ReadOK

\* ... and so does what the journal says of it.
LEMMA BooksKept ==
  ASSUME KeepsRequests, NEW a \in AssetIds, Booked(a)' = Booked(a), EntriesOf(a)' = EntriesOf(a),
         BooksOK(a), RegisterOK,
         (assets'[a].status = "disposed") = (assets[a].status = "disposed"),
         assets'[a].disposed = assets[a].disposed, assets'[a].disposalEntry = assets[a].disposalEntry,
         \A e \in Ids : entries'[e] = entries[e]
  PROVE  BooksOK(a)'
  <1>1. CASE assets[a].status # "disposed"
    BY <1>1 DEF BooksOK
  <1>2. CASE assets[a].status = "disposed"
    <2>1. PICK e, date : e = assets[a].disposalEntry /\ date = assets[a].disposed
      OBVIOUS
    <2>2. e \in Ids /\ e = assets'[a].disposalEntry /\ date = assets'[a].disposed
      BY <1>2, <2>1 DEF RegisterOK
    <2>3. PICK p \in Proceeds : entries[e] = Entry(DisposalPostings(a, date, p), a)
      BY <1>2, <2>1 DEF BooksOK
    <2>4. DisposalPostings(a, date, p)' = DisposalPostings(a, date, p)
      BY DisposalKept
    <2>5. entries'[e] = Entry(DisposalPostings(a, date, p), a)'
      BY <2>2, <2>3, <2>4 DEF Entry
    <2>6. EntriesOf(a) = {r.entry : r \in Booked(a)} \cup {e} /\ \A r \in Booked(a) : r.entry < e
      BY <1>2, <2>1 DEF BooksOK
    <2>7. EntriesOf(a)' = {r.entry : r \in Booked(a)'} \cup {e} /\ \A r \in Booked(a)' : r.entry < e
      BY <2>6
    <2>8. QED
      BY <1>2, <2>2, <2>5, <2>7 DEF BooksOK
  <1>3. QED
    BY <1>1, <1>2

\* Schemes, accounts and refused assets.
LEMMA FrameIInv ==
  ASSUME IInv, UNCHANGED <<assets, runs, entries, work, troubled>>,
         schemes \subseteq schemes', schemes' \subseteq SchemeNames, inactive' \subseteq Closable
  PROVE  IInv'
  <1>1. RegisterOK'
    BY DEF IInv, RegisterOK, AssetIds, Ids
  <1>2. RunsOK'
    BY DEF IInv, RunsOK, OfSchedule, AssetIds, Ids
  <1>3. JobsOK'
    BY DEF IInv, JobsOK, JobOK, PlanOK, OfSchedule, AssetIds
  <1>4. UnbrokenOK' /\ PlansOK'
    BY DEF IInv, UnbrokenOK, PlansOK, BookedAt
  <1>5. WholeOK'
    BY DEF IInv, WholeOK, BookedAt, Booked, AssetIds
  <1>6. JournalOK'
    BY DEF IInv, JournalOK, DepreciationPostings
  <1>7. UndisturbedOK'
    <2>1. KeepsRequests
      BY DEF KeepsRequests, AssetIds
    <2>2. \A a : Booked(a)' = Booked(a) /\ EntriesOf(a)' = EntriesOf(a)
      BY DEF Booked, EntriesOf, Ids
    <2>3. ASSUME NEW a \in AssetIds \ troubled
          PROVE  Alone(a)' /\ ReadOK(a)' /\ BooksOK(a)'
      <3>1. RegisterOK /\ Alone(a) /\ ReadOK(a) /\ BooksOK(a)
        BY DEF IInv, UndisturbedOK
      <3>2. Alone(a)'
        BY <3>1 DEF Alone
      <3>3. ReadOK(a)'
        BY <2>1, <2>2, <3>1, ReadKept
      <3>4. /\ (assets'[a].status = "disposed") = (assets[a].status = "disposed")
            /\ assets'[a].disposed = assets[a].disposed /\ assets'[a].disposalEntry = assets[a].disposalEntry
            /\ \A e \in Ids : entries'[e] = entries[e]
        OBVIOUS
      <3>5. BooksOK(a)'
        BY <2>1, <2>2, <3>1, <3>4, BooksKept
      <3>6. QED
        BY <3>2, <3>3, <3>5
    <2>4. QED
      BY <2>3 DEF UndisturbedOK, AssetIds
  <1>8. QED
    BY <1>1, <1>2, <1>3, <1>4, <1>5, <1>6, <1>7 DEF IInv

LEMMA JobIs ==
  ASSUME NEW job, JobOK(job)
  PROVE  /\ PlanOK(job.plan) /\ (\A d \in job.plan : d.asset \in AssetIds /\ OfSchedule(d))
         /\ AssetsOf(job) \subseteq AssetIds
         /\ job.at \in {"idle", "run", "dispose", "pause", "resume"}
         /\ job.at # "run" => job.plan = {}
         /\ job.at \in {"idle", "run"} => job.asset = 0
         /\ job.at \in {"pause", "resume"} => job.asset \in AssetIds
         /\ job.at = "idle" => job = Idle
         /\ job.at = "dispose" => job.asset \in AssetIds /\ job.date \in Nat /\ job.postings \in Seq(Posting)
  <1>1. CASE job = Idle
    <2>1. PlanOK({})
      BY FS_EmptySet DEF PlanOK
    <2>2. job.at = "idle" /\ job.plan = {} /\ job.asset = 0
      BY <1>1 DEF Idle
    <2>3. QED
      BY <1>1, <2>1, <2>2 DEF AssetsOf
  <1>2. CASE job.at = "run" /\ job.asset = 0 /\ PlanOK(job.plan)
    <2>1. \A d \in job.plan : d.asset \in AssetIds /\ OfSchedule(d)
      BY <1>2 DEF PlanOK, OfSchedule
    <2>2. QED
      BY <1>2, <2>1 DEF AssetsOf
  <1>3. CASE /\ job.at = "dispose" /\ job.plan = {}
             /\ job.asset \in AssetIds /\ job.date \in Nat /\ job.postings \in Seq(Posting)
    <2>1. PlanOK({})
      BY FS_EmptySet DEF PlanOK
    <2>2. QED
      BY <1>3, <2>1 DEF AssetsOf
  <1>4. CASE job.at \in {"pause", "resume"} /\ job.plan = {} /\ job.asset \in AssetIds
    <2>1. PlanOK({})
      BY FS_EmptySet DEF PlanOK
    <2>2. QED
      BY <1>4, <2>1 DEF AssetsOf
  <1>5. QED
    BY <1>1, <1>2, <1>3, <1>4 DEF JobOK

\* An asset that is added: nothing is booked.
LEMMA RegisteredIInv ==
  ASSUME IInv, UNCHANGED <<runs, entries, work, troubled>>, KeepsRequests, RegisterOK',
         \A a \in AssetIds : /\ assets'[a].status = "fully_depreciated" => assets[a].status = "fully_depreciated"
                             /\ (assets'[a].status = "disposed") = (assets[a].status = "disposed")
                             /\ assets'[a].disposed = assets[a].disposed
                             /\ assets'[a].disposalEntry = assets[a].disposalEntry,
         \A a \in AssetIds' \ AssetIds : assets'[a].status # "disposed"
  PROVE  IInv'
  <1>1. \A r \in runs : OfSchedule(r) /\ r.asset \in AssetIds
    BY DEF IInv, RunsOK, OfSchedule
  <1>2. \A w \in Workers : JobOK(work[w])
    BY DEF IInv, JobsOK
  <1>3. \A w \in Workers : \A d \in work[w].plan : d.asset \in AssetIds
    BY <1>2, JobIs
  <1>4. \A w \in Workers : AssetsOf(work[w]) \subseteq AssetIds
    BY <1>2, JobIs
  <1>5. RunsOK'
    <2>1. \A r \in runs : OfSchedule(r)'
      BY <1>1, OfScheduleKept
    <2>2. QED
      BY <2>1 DEF IInv, RunsOK, Ids
  <1>6. JobsOK'
    <2>1. \A w \in Workers : JobOK(work[w])'
      <3>1. PICK jobs : jobs = work
        OBVIOUS
      <3>2. \A w \in Workers : JobOK(jobs[w])'
        BY <1>2, <3>1, JobKept
      <3>3. QED
        BY <3>1, <3>2 DEF JobOK, PlanOK, OfSchedule
    <2>2. QED
      BY <2>1 DEF IInv, JobsOK
  <1>7. UnbrokenOK'
    BY <1>1 DEF IInv, UnbrokenOK, BookedAt, KeepsRequests
  <1>8. PlansOK'
    BY <1>3 DEF IInv, PlansOK, BookedAt, KeepsRequests
  <1>9. WholeOK'
    <2>1. ASSUME NEW a \in AssetIds', assets'[a].status = "fully_depreciated", Booked(a)' # {}
          PROVE  \A m \in Full(assets'[a].q) : BookedAt(a, m.period)'
      <3>1. Booked(a) # {}
        BY <2>1 DEF Booked
      <3>2. a \in AssetIds
        BY <1>1, <3>1 DEF Booked
      <3>3. QED
        BY <2>1, <3>1, <3>2 DEF IInv, WholeOK, BookedAt, KeepsRequests
    <2>2. ASSUME NEW w \in Workers, NEW d \in work[w].plan, assets'[d.asset].status = "fully_depreciated"
          PROVE  Booked(d.asset)' # {}
      BY <1>3, <2>2 DEF IInv, WholeOK, Booked
    <2>3. QED
      BY <2>1, <2>2 DEF WholeOK
  <1>10. JournalOK'
    BY <1>1 DEF IInv, JournalOK, DepreciationPostings, KeepsRequests, Entry
  <1>11. UndisturbedOK'
    <2>1. \A a : Booked(a)' = Booked(a) /\ EntriesOf(a)' = EntriesOf(a)
      BY DEF Booked, EntriesOf, Ids
    <2>2. ASSUME NEW a \in AssetIds \ troubled
          PROVE  Alone(a)' /\ ReadOK(a)' /\ BooksOK(a)'
      <3>1. RegisterOK /\ Alone(a) /\ ReadOK(a) /\ BooksOK(a)
        BY DEF IInv, UndisturbedOK
      <3>2. Alone(a)'
        BY <3>1 DEF Alone
      <3>3. ReadOK(a)'
        BY <2>1, <3>1, ReadKept
      <3>4. \A e \in Ids : entries'[e] = entries[e]
        OBVIOUS
      <3>5. BooksOK(a)'
        BY <2>1, <3>1, <3>4, BooksKept
      <3>6. QED
        BY <3>2, <3>3, <3>5
    <2>3. ASSUME NEW a \in AssetIds' \ AssetIds
          PROVE  Alone(a)' /\ ReadOK(a)' /\ BooksOK(a)'
      <3>1. assets'[a].status # "disposed" /\ \A w \in Workers : a \notin AssetsOf(work[w])
        BY <1>4
      <3>2. Alone(a)'
        BY <3>1 DEF Alone
      <3>3. ReadOK(a)'
        <4>1. a # 0
          BY DEF RegisterOK, AssetIds
        <4>2. \A w \in Workers : work[w].asset # a
          BY <3>1, <4>1 DEF AssetsOf
        <4>3. QED
          BY <4>2 DEF ReadOK
      <3>4. BooksOK(a)'
        <4>1. Booked(a) = {}
          BY <1>1 DEF Booked
        <4>2. EntriesOf(a) = {}
          BY DEF IInv, RegisterOK, EntriesOf
        <4>3. QED
          BY <2>1, <3>1, <4>1, <4>2 DEF BooksOK
      <3>5. QED
        BY <3>2, <3>3, <3>4
    <2>4. QED
      BY <2>2, <2>3 DEF UndisturbedOK
  <1>12. QED
    BY <1>5, <1>6, <1>7, <1>8, <1>9, <1>10, <1>11 DEF IInv

\* What a job must be for the invariant to survive that a process takes it up.
Fits(w, job) ==
  /\ JobOK(job)
  /\ \A d \in job.plan : \A m \in Full(assets[d.asset].q) :
       m.period <= d.period =>
         BookedAt(d.asset, m.period) \/ \E e \in job.plan : e.asset = d.asset /\ e.period = m.period
  /\ \A d \in job.plan : assets[d.asset].status = "fully_depreciated" => Booked(d.asset) # {}
  /\ \A a \in AssetsOf(job) \ troubled' :
       assets[a].status # "disposed" /\ \A v \in Workers \ {w} : a \notin AssetsOf(work[v])
  /\ job.at = "dispose" => \E p \in Proceeds : job.postings = DisposalPostings(job.asset, job.date, p)

LEMMA WorkIInv ==
  ASSUME IInv, UNCHANGED <<schemes, assets, runs, entries, inactive>>, NEW w \in Workers, NEW job,
         work' = [work EXCEPT ![w] = job], troubled \subseteq troubled', troubled' \subseteq AssetIds, Fits(w, job)
  PROVE  IInv'
  <1>1. work' = [v \in Workers |-> work'[v]] /\ work'[w] = job /\ \A v \in Workers \ {w} : work'[v] = work[v]
    BY DEF IInv, JobsOK
  <1>2. RegisterOK'
    BY DEF IInv, RegisterOK, AssetIds, Ids
  <1>3. RunsOK'
    BY DEF IInv, RunsOK, OfSchedule, AssetIds, Ids
  <1>4. JobsOK'
    <2>1. \A v \in Workers : JobOK(work'[v])
      BY <1>1 DEF IInv, JobsOK, Fits
    <2>2. PICK jobs : jobs = work'
      OBVIOUS
    <2>3. KeepsRequests
      BY DEF KeepsRequests, AssetIds
    <2>4. \A v \in Workers : JobOK(jobs[v])'
      BY <2>1, <2>2, <2>3, JobKept
    <2>5. \A v \in Workers : JobOK(work[v])'
      BY <2>2, <2>4 DEF JobOK, PlanOK, OfSchedule
    <2>6. QED
      BY <1>1, <2>5 DEF JobsOK
  <1>5. UnbrokenOK'
    BY DEF IInv, UnbrokenOK, BookedAt
  <1>6. PlansOK'
    <2>1. ASSUME NEW v \in Workers, NEW d \in work'[v].plan, NEW m \in Full(assets[d.asset].q), m.period <= d.period
          PROVE  BookedAt(d.asset, m.period) \/ \E e \in work'[v].plan : e.asset = d.asset /\ e.period = m.period
      BY <1>1, <2>1 DEF IInv, PlansOK, Fits
    <2>2. QED
      BY <2>1 DEF PlansOK, BookedAt
  <1>7. WholeOK'
    BY <1>1 DEF IInv, WholeOK, BookedAt, Booked, AssetIds, Fits
  <1>8. JournalOK'
    BY DEF IInv, JournalOK, DepreciationPostings
  <1>9. UndisturbedOK'
    <2>1. KeepsRequests /\ \A a : Booked(a)' = Booked(a) /\ EntriesOf(a)' = EntriesOf(a)
      BY DEF Booked, EntriesOf, Ids, KeepsRequests, AssetIds
    <2>2. ASSUME NEW a \in AssetIds \ troubled'
          PROVE  Alone(a)' /\ ReadOK(a)' /\ BooksOK(a)'
      <3>1. RegisterOK /\ Alone(a) /\ ReadOK(a) /\ BooksOK(a)
        BY DEF IInv, UndisturbedOK
      <3>2. Alone(a)'
        BY <1>1, <3>1 DEF Alone, Fits
      <3>3. ReadOK(a)'
        <4>1. ASSUME NEW v \in Workers, work'[v].at = "dispose", work'[v].asset = a
              PROVE  \E p \in Proceeds : work'[v].postings = DisposalPostings(a, work'[v].date, p)
          BY <1>1, <3>1, <4>1 DEF ReadOK, Fits
        <4>2. ASSUME NEW v \in Workers, NEW p \in Proceeds
              PROVE  DisposalPostings(a, work[v].date, p)' = DisposalPostings(a, work'[v].date, p)
          <5>1. TakenOff(a, work[v].date)' = TakenOff(a, work'[v].date)
            BY DEF TakenOff, DepToPeriod, Booked
          <5>2. DisposalPostings(a, work[v].date, p)' = PostingsOf(assets'[a].q, TakenOff(a, work[v].date)', p)
            BY DEF DisposalPostings, PostingsOf, DisposalList, DisposalLeg
          <5>3. DisposalPostings(a, work'[v].date, p) = PostingsOf(assets[a].q, TakenOff(a, work'[v].date), p)
            BY DEF DisposalPostings, PostingsOf, DisposalList, DisposalLeg
          <5>4. QED
            BY <5>1, <5>2, <5>3
        <4>3. QED
          BY <4>1, <4>2 DEF ReadOK
      <3>4. /\ (assets'[a].status = "disposed") = (assets[a].status = "disposed")
            /\ assets'[a].disposed = assets[a].disposed /\ assets'[a].disposalEntry = assets[a].disposalEntry
            /\ \A e \in Ids : entries'[e] = entries[e]
        OBVIOUS
      <3>5. BooksOK(a)'
        BY <2>1, <3>1, <3>4, BooksKept
      <3>6. QED
        BY <3>2, <3>3, <3>5
    <2>3. QED
      BY <2>2 DEF UndisturbedOK, AssetIds
  <1>10. QED
    BY <1>2, <1>3, <1>4, <1>5, <1>6, <1>7, <1>8, <1>9 DEF IInv

LEMMA AbandonIInv ==
  ASSUME IInv, NEW w \in Workers, Abandon(w)
  PROVE  IInv'
  <1>1. Fits(w, Idle)
    <2>1. Idle.plan = {} /\ Idle.at = "idle" /\ Idle.asset = 0
      BY DEF Idle
    <2>2. AssetsOf(Idle) = {}
      BY <2>1 DEF AssetsOf
    <2>3. JobOK(Idle)
      BY DEF JobOK
    <2>4. QED
      BY <2>1, <2>2, <2>3 DEF Fits
  <1>2. work' = [work EXCEPT ![w] = Idle] /\ troubled' = troubled /\ UNCHANGED <<schemes, assets, runs, entries, inactive>>
    BY DEF Abandon, Finish
  <1>3. troubled \subseteq troubled' /\ troubled' \subseteq AssetIds
    BY <1>2 DEF IInv, RegisterOK
  <1>4. QED
    BY <1>1, <1>2, <1>3, WorkIInv

\* A job that is taken up; an asset another process works on becomes troubled.
LEMMA StartIInv ==
  ASSUME IInv, NEW w \in Workers, NEW job, Start(w, job), UNCHANGED <<schemes, assets, runs, entries, inactive>>,
         JobOK(job),
         \A d \in job.plan : \A m \in Full(assets[d.asset].q) :
           m.period <= d.period =>
             BookedAt(d.asset, m.period) \/ \E e \in job.plan : e.asset = d.asset /\ e.period = m.period,
         \A a \in AssetsOf(job) : assets[a].status # "disposed",
         \A d \in job.plan : assets[d.asset].status # "fully_depreciated",
         job.at = "dispose" => \E p \in Proceeds : job.postings = DisposalPostings(job.asset, job.date, p)
  PROVE  IInv'
  <1>1. /\ work' = [work EXCEPT ![w] = job]
        /\ troubled' = troubled \cup (AssetsOf(job) \cap UNION {AssetsOf(work[v]) : v \in Workers})
    BY DEF Start
  <1>2. AssetsOf(job) \subseteq AssetIds
    BY JobIs
  <1>3. troubled \subseteq troubled' /\ troubled' \subseteq AssetIds
    BY <1>1, <1>2 DEF IInv, RegisterOK
  <1>4. \A a \in AssetsOf(job) \ troubled' : \A v \in Workers : a \notin AssetsOf(work[v])
    BY <1>1
  <1>5. Fits(w, job)
    BY <1>4 DEF Fits
  <1>6. QED
    BY <1>1, <1>3, <1>5, WorkIInv

LEMMA DisposeIInv ==
  ASSUME IInv, NEW w \in Workers, NEW a \in AssetIds, NEW date \in DisposalDates, NEW proceeds \in Proceeds,
         DisposeAsset(w, a, date, proceeds)
  PROVE  IInv'
  <1>1. PICK job : job = [Idle EXCEPT !.at = "dispose", !.asset = a, !.date = date, !.proceeds = proceeds,
                                      !.postings = DisposalPostings(a, date, proceeds)]
    OBVIOUS
  <1>2. /\ job.at = "dispose" /\ job.asset = a /\ job.plan = {} /\ job.date = date
        /\ job.postings = DisposalPostings(a, date, proceeds)
    BY <1>1 DEF Idle
  <1>3. DisposalPostings(a, date, proceeds) \in Seq(Posting) /\ date \in Nat /\ a # 0
    BY DisposalIs, AssetIs, AssetsAssumption DEF IInv
  <1>4. JobOK(job)
    BY <1>2, <1>3 DEF JobOK
  <1>5. AssetsOf(job) = {a} /\ assets[a].status # "disposed"
    BY <1>2, <1>3 DEF AssetsOf, DisposeAsset, MayDispose
  <1>6. Start(w, job) /\ UNCHANGED <<schemes, assets, runs, entries, inactive>>
    BY <1>1 DEF DisposeAsset
  <1>7. QED
    BY <1>2, <1>4, <1>5, <1>6, StartIInv

\* What is planned.
LEMMA PlanHas ==
  ASSUME NEW target, NEW d
  PROVE  (d \in Plan(target)) <=>
           \E a \in AssetIds : /\ assets[a].status = "active" /\ Depreciable(assets[a].q) > 0
                               /\ \E n \in Schedule(assets[a].q, target) :
                                    /\ \A r \in Booked(a) : r.period # n.period
                                    /\ d = [asset |-> a, period |-> n.period, amount |-> n.amount]
  BY DEF Plan

LEMMA PlanFinite ==
  ASSUME RegisterOK, NEW target
  PROVE  IsFiniteSet(Plan(target))
  <1> DEFINE S == {b \in AssetIds : assets[b].status = "active" /\ Depreciable(assets[b].q) > 0}
             due(a) == {n \in Schedule(assets[a].q, target) : \A r \in Booked(a) : r.period # n.period}
             rowsOf(a) == {[asset |-> a, period |-> m.period, amount |-> m.amount] : m \in due(a)}
             f == [a \in S |-> rowsOf(a)]
  <1>1. IsFiniteSet(S)
    <2>1. IsFiniteSet(AssetIds)
      <3>1. AssetIds = 1..Len(assets) /\ Len(assets) \in Nat
        BY DEF RegisterOK, AssetIds
      <3>2. QED
        BY <3>1, FS_Interval
    <2>2. S \in SUBSET AssetIds
      OBVIOUS
    <2> HIDE DEF S
    <2>3. QED
      BY <2>1, <2>2, FS_Subset
  <1>2. ASSUME NEW a \in S
        PROVE  IsFiniteSet(f[a])
    <2>1. PICK q : q = assets[a].q /\ Sound(q)
      BY AssetIs
    <2>2. due(a) \in SUBSET Full(q)
      BY <2>1, ScheduleIs
    <2> DEFINE g == [m \in due(a) |-> [asset |-> a, period |-> m.period, amount |-> m.amount]]
    <2>3. f[a] = {g[m] : m \in due(a)}
      OBVIOUS
    <2>4. IsFiniteSet(Full(q))
      BY <2>1, FullRows
    <2>5. IsFiniteSet(due(a))
      <3> HIDE DEF due
      <3>1. QED
        BY <2>2, <2>4, FS_Subset
    <2>6. IsFiniteSet({g[m] : m \in due(a)})
      <3> HIDE DEF due, g
      <3>1. QED
        BY <2>5, FiniteImage
    <2>7. QED
      BY <2>3, <2>6
  <1>3. Plan(target) = UNION {f[a] : a \in S}
    <2>1. Plan(target) = UNION {rowsOf(a) : a \in S}
      BY DEF Plan
    <2> HIDE DEF rowsOf, S
    <2>2. \A a \in S : f[a] = rowsOf(a)
      OBVIOUS
    <2> HIDE DEF f
    <2>3. UNION {f[a] : a \in S} = UNION {rowsOf(a) : a \in S}
      BY <2>2
    <2>4. QED
      BY <2>1, <2>3
  <1>4. IsFiniteSet(UNION {f[a] : a \in S})
    <2> HIDE DEF S, f
    <2>1. QED
      BY <1>1, <1>2, FiniteUnion
  <1>5. QED
    BY <1>3, <1>4

LEMMA RunDueIInv ==
  ASSUME IInv, NEW w \in Workers, NEW target \in Targets, RunDue(w, target)
  PROVE  IInv'
  <1>1. PICK plan, job : plan = Plan(target) /\ job = [Idle EXCEPT !.at = "run", !.plan = plan]
    OBVIOUS
  <1>2. job.at = "run" /\ job.asset = 0 /\ job.plan = plan
    BY <1>1 DEF Idle
  <1>3. RegisterOK /\ IsFiniteSet(plan)
    BY <1>1, PlanFinite DEF IInv
  <1>4. ASSUME NEW d \in plan
        PROVE  /\ OfSchedule(d) /\ d = [asset |-> d.asset, period |-> d.period, amount |-> d.amount]
               /\ assets[d.asset].status = "active"
               /\ \A m \in Full(assets[d.asset].q) :
                    m.period <= d.period =>
                      BookedAt(d.asset, m.period) \/ \E e \in plan : e.asset = d.asset /\ e.period = m.period
    <2>1. PICK a \in AssetIds : /\ assets[a].status = "active" /\ Depreciable(assets[a].q) > 0
                                /\ \E n \in Schedule(assets[a].q, target) :
                                     /\ \A r \in Booked(a) : r.period # n.period
                                     /\ d = [asset |-> a, period |-> n.period, amount |-> n.amount]
      BY <1>1, PlanHas
    <2>2. PICK n \in Schedule(assets[a].q, target) : d = [asset |-> a, period |-> n.period, amount |-> n.amount]
      BY <2>1
    <2>3. PICK q : q = assets[a].q /\ Sound(q)
      BY <1>3, AssetIs
    <2>4. /\ d.asset = a /\ d.period = n.period /\ d.amount = n.amount
          /\ d = [asset |-> d.asset, period |-> d.period, amount |-> d.amount]
      BY <2>2
    <2>5. n \in Full(q) /\ n.period <= target
      BY <2>2, <2>3, ScheduleIs
    <2>6. n = [period |-> n.period, amount |-> n.amount]
      BY <2>3, <2>5, FullRows
    <2>7. OfSchedule(d)
      BY <2>3, <2>4, <2>5, <2>6 DEF OfSchedule
    <2>8. ASSUME NEW m \in Full(q), m.period <= n.period, ~BookedAt(a, m.period)
          PROVE  \E e \in plan : e.asset = a /\ e.period = m.period
      <3>1. m.period \in Nat /\ n.period \in Nat /\ target \in Nat
        BY <2>3, <2>5, FullRows, AssetsAssumption
      <3>2. m.period <= target
        BY <2>5, <2>8, <3>1
      <3>3. m \in Schedule(q, target)
        BY <2>3, <3>2, ScheduleIs
      <3>4. PICK e : e = [asset |-> a, period |-> m.period, amount |-> m.amount]
        OBVIOUS
      <3>5. \A r \in Booked(a) : r.period # m.period
        BY <2>8 DEF BookedAt, Booked
      <3>6. e \in plan
        BY <1>1, <2>1, <2>3, <3>3, <3>4, <3>5, PlanHas
      <3>7. QED
        BY <3>4, <3>6
    <2>9. QED
      BY <2>1, <2>3, <2>4, <2>7, <2>8
  <1>5. JobOK(job)
    BY <1>2, <1>3, <1>4 DEF JobOK, PlanOK
  <1>6. \A a \in AssetsOf(job) : assets[a].status # "disposed"
    BY <1>2, <1>4 DEF AssetsOf
  <1>7. Start(w, job) /\ UNCHANGED <<schemes, assets, runs, entries, inactive>>
    BY <1>1 DEF RunDue
  <1>8. QED
    BY <1>2, <1>4, <1>5, <1>6, <1>7, StartIInv

\* What the booking of a disposal changes.
LEMMA BookDisposalIs ==
  ASSUME IInv, NEW w \in Workers, BookDisposal(w), NEW job, job = work[w], NEW n, n = LastId + 1
  PROVE  /\ job.asset \in AssetIds /\ job.plan = {} /\ job.at = "dispose" /\ job.date \in Nat
         /\ AssetIds' = AssetIds /\ n \notin Ids /\ Ids' = Ids \cup {n} /\ n \in Nat \ {0} /\ (\A e \in Ids : e < n)
         /\ entries' \in Seq(EntryRow) /\ (\A e \in Ids : entries'[e] = entries[e])
         /\ entries'[n] = Entry(job.postings, job.asset)
         /\ assets' \in Seq(AssetRow)
         /\ \A b \in AssetIds : /\ assets'[b].q = assets[b].q
                                /\ b # job.asset => assets'[b] = assets[b]
         /\ assets'[job.asset].status = "disposed" /\ assets'[job.asset].disposed = job.date
         /\ assets'[job.asset].disposalEntry = n
         /\ work' = [work EXCEPT ![w] = Idle] /\ UNCHANGED <<schemes, runs, inactive, troubled>>
  <1>1. /\ job.at = "dispose"
        /\ entries' = Append(entries, Entry(job.postings, job.asset))
        /\ assets' = [assets EXCEPT ![job.asset].status = "disposed", ![job.asset].disposed = job.date,
                                    ![job.asset].disposalEntry = n]
        /\ work' = [work EXCEPT ![w] = Idle] /\ UNCHANGED <<schemes, runs, inactive, troubled>>
    BY DEF BookDisposal, At, Finish
  <1>2. JobOK(job) /\ RegisterOK
    BY DEF IInv, JobsOK
  <1>3. job.plan = {} /\ job.asset \in AssetIds /\ job.date \in Nat /\ job.postings \in Seq(Posting)
    BY <1>1, <1>2, JobIs
  <1>4. PICK a, date, L : a = job.asset /\ date = job.date /\ L = Len(entries)
    OBVIOUS
  <1>5. L \in Nat /\ Ids = 1..L /\ n = L + 1
    BY <1>2, <1>4 DEF RegisterOK, Ids, LastId
  <1>6. a \in Nat
    BY <1>2, <1>3, <1>4, AssetIs
  <1>7. Entry(job.postings, job.asset) \in EntryRow
    BY <1>3, <1>4, <1>6 DEF Entry, EntryRow
  <1>8. /\ entries' \in Seq(EntryRow) /\ Len(entries') = L + 1
        /\ (\A e \in 1..L : entries'[e] = entries[e]) /\ entries'[L + 1] = Entry(job.postings, job.asset)
    <2>1. entries \in Seq(EntryRow)
      BY <1>2 DEF RegisterOK
    <2>2. PICK x \in EntryRow : x = Entry(job.postings, job.asset)
      BY <1>7
    <2>3. /\ Append(entries, x) \in Seq(EntryRow) /\ Len(Append(entries, x)) = Len(entries) + 1
          /\ (\A e \in 1..Len(entries) : Append(entries, x)[e] = entries[e]) /\ Append(entries, x)[Len(entries) + 1] = x
      BY <2>1, AppendProperties
    <2>4. QED
      BY <1>1, <1>4, <2>2, <2>3
  <1>9. Ids' = 1..(L + 1)
    BY <1>5, <1>8 DEF Ids
  <1>10. /\ n \notin Ids /\ Ids' = Ids \cup {n} /\ n \in Nat \ {0} /\ (\A e \in Ids : e < n)
         /\ (\A e \in Ids : entries'[e] = entries[e]) /\ entries'[n] = Entry(job.postings, job.asset)
    BY <1>5, <1>8, <1>9
  <1>11. /\ AssetIds' = AssetIds /\ assets' \in Seq(AssetRow)
         /\ \A b \in AssetIds : /\ assets'[b].q = assets[b].q
                                /\ b # a => assets'[b] = assets[b]
         /\ assets'[a].status = "disposed" /\ assets'[a].disposed = date /\ assets'[a].disposalEntry = n
    <2>1. assets \in Seq(AssetRow) /\ assets[a] \in AssetRow /\ a \in AssetIds
      BY <1>2, <1>3, <1>4, AssetIs DEF RegisterOK
    <2>2. PICK row : row = [q |-> assets[a].q, disposed |-> date, disposalEntry |-> n, status |-> "disposed"]
      OBVIOUS
    <2>3. row \in AssetRow
      BY <1>3, <1>4, <1>10, <2>1, <2>2 DEF AssetRow
    <2>4. assets' = [assets EXCEPT ![a] = [assets[a] EXCEPT !.status = "disposed", !.disposed = date, !.disposalEntry = n]]
      BY <1>1, <1>4, <2>1 DEF AssetIds
    <2>5. [assets[a] EXCEPT !.status = "disposed", !.disposed = date, !.disposalEntry = n] = row
      <3>1. PICK r \in AssetRow : r = assets[a]
        BY <2>1
      <3>2. r = [q |-> r.q, disposed |-> r.disposed, disposalEntry |-> r.disposalEntry, status |-> r.status]
        BY DEF AssetRow
      <3>3. [r EXCEPT !.status = "disposed", !.disposed = date, !.disposalEntry = n]
              = [q |-> r.q, disposed |-> date, disposalEntry |-> n, status |-> "disposed"]
        <4>1. PICK x, y, z, u : x = r.q /\ y = r.disposed /\ z = r.disposalEntry /\ u = r.status
          OBVIOUS
        <4>2. PICK s : s = [q |-> x, disposed |-> y, disposalEntry |-> z, status |-> "disposed"]
          OBVIOUS
        <4>3. PICK t : t = [q |-> x, disposed |-> date, disposalEntry |-> z, status |-> "disposed"]
          OBVIOUS
        <4>4. [r EXCEPT !.status = "disposed"] = s
          BY <3>2, <4>1, <4>2
        <4>5. [s EXCEPT !.disposed = date] = t
          BY <4>2, <4>3
        <4>6. [t EXCEPT !.disposalEntry = n] = [q |-> x, disposed |-> date, disposalEntry |-> n, status |-> "disposed"]
          BY <4>3
        <4>7. QED
          BY <4>1, <4>4, <4>5, <4>6
      <3>4. QED
        BY <2>2, <3>1, <3>3
    <2>6. assets' = [assets EXCEPT ![a] = row]
      BY <2>4, <2>5
    <2>7. assets' \in Seq(AssetRow) /\ DOMAIN assets' = DOMAIN assets /\ assets'[a] = row /\ \A b \in AssetIds : b # a => assets'[b] = assets[b]
      BY <2>1, <2>3, <2>6 DEF AssetIds
    <2>8. QED
      BY <2>2, <2>7 DEF AssetIds
  <1>12. QED
    BY <1>1, <1>3, <1>4, <1>8, <1>10, <1>11

LEMMA BookDisposalIInv ==
  ASSUME IInv, NEW w \in Workers, BookDisposal(w)
  PROVE  IInv'
  <1>0. PICK job, n : job = work[w] /\ n = LastId + 1
    OBVIOUS
  <1>1. PICK a : job = work[w] /\ n = LastId + 1 /\ a = job.asset
    BY <1>0
  <1>2. /\ a \in AssetIds /\ job.plan = {} /\ job.at = "dispose" /\ job.date \in Nat
        /\ AssetIds' = AssetIds /\ n \notin Ids /\ Ids' = Ids \cup {n} /\ n \in Nat \ {0} /\ (\A e \in Ids : e < n)
        /\ entries' \in Seq(EntryRow) /\ (\A e \in Ids : entries'[e] = entries[e])
        /\ entries'[n] = Entry(job.postings, a)
        /\ assets' \in Seq(AssetRow)
        /\ \A b \in AssetIds : /\ assets'[b].q = assets[b].q
                               /\ b # a => assets'[b] = assets[b]
        /\ assets'[a].status = "disposed" /\ assets'[a].disposed = job.date
        /\ assets'[a].disposalEntry = n
        /\ work' = [work EXCEPT ![w] = Idle] /\ UNCHANGED <<schemes, runs, inactive, troubled>>
    <2>1. /\ job.asset \in AssetIds /\ job.plan = {} /\ job.at = "dispose" /\ job.date \in Nat
          /\ AssetIds' = AssetIds /\ n \notin Ids /\ Ids' = Ids \cup {n} /\ n \in Nat \ {0} /\ (\A e \in Ids : e < n)
          /\ entries' \in Seq(EntryRow) /\ (\A e \in Ids : entries'[e] = entries[e])
          /\ entries'[n] = Entry(job.postings, job.asset)
          /\ assets' \in Seq(AssetRow)
          /\ \A b \in AssetIds : /\ assets'[b].q = assets[b].q
                                 /\ b # job.asset => assets'[b] = assets[b]
          /\ assets'[job.asset].status = "disposed" /\ assets'[job.asset].disposed = job.date
          /\ assets'[job.asset].disposalEntry = n
          /\ work' = [work EXCEPT ![w] = Idle] /\ UNCHANGED <<schemes, runs, inactive, troubled>>
      BY <1>0, BookDisposalIs, SMTT(30)
    <2>2. QED
      BY <1>1, <2>1
  <1>3. RegisterOK /\ (\A r \in runs : OfSchedule(r) /\ r.asset \in AssetIds /\ r.entry \in Ids)
    BY DEF IInv, RunsOK, OfSchedule
  <1>4. KeepsRequests
    BY <1>2 DEF KeepsRequests
  <1>5. work' = [v \in Workers |-> work'[v]] /\ work'[w] = Idle /\ \A v \in Workers \ {w} : work'[v] = work[v]
    BY <1>2 DEF IInv, JobsOK
  <1>6. Idle.plan = {} /\ Idle.at = "idle" /\ Idle.asset = 0 /\ AssetsOf(Idle) = {}
    BY DEF Idle, AssetsOf
  <1>7. RegisterOK'
    <2>1. \A b \in AssetIds :
            /\ Admissible(assets[b].q) /\ assets[b].q.scheme \in schemes
            /\ IF assets[b].status = "disposed" THEN assets[b].disposalEntry \in Ids ELSE assets[b].disposalEntry = 0 \/ b \in troubled
      BY <1>3 DEF RegisterOK
    <2>2. \A b \in AssetIds :
            /\ Admissible(assets'[b].q) /\ assets'[b].q.scheme \in schemes
            /\ IF assets'[b].status = "disposed" THEN assets'[b].disposalEntry \in Ids' ELSE assets'[b].disposalEntry = 0 \/ b \in troubled
      BY <1>2, <2>1
    <2>3. \A e \in Ids' : entries'[e].ref \in AssetIds
      <3>1. entries'[n].ref = a
        BY <1>2 DEF Entry
      <3>2. \A e \in Ids : entries[e].ref \in AssetIds
        BY <1>3 DEF RegisterOK
      <3>3. QED
        BY <1>2, <3>1, <3>2
    <2>4. QED
      BY <1>2, <1>3, <2>2, <2>3 DEF RegisterOK
  <1>8. RunsOK'
    <2>1. \A r \in runs : OfSchedule(r)'
      BY <1>3, <1>4, OfScheduleKept
    <2>2. QED
      BY <1>2, <2>1 DEF IInv, RunsOK
  <1>9. JobsOK'
    <2>1. \A v \in Workers : JobOK(work'[v])
      BY <1>5 DEF IInv, JobsOK, JobOK
    <2>2. PICK jobs : jobs = work'
      OBVIOUS
    <2>3. \A v \in Workers : JobOK(jobs[v])'
      BY <1>4, <2>1, <2>2, JobKept
    <2>4. \A v \in Workers : JobOK(work[v])'
      BY <2>2, <2>3 DEF JobOK, PlanOK, OfSchedule
    <2>5. QED
      BY <1>5, <2>4 DEF JobsOK
  <1>10. UnbrokenOK'
    BY <1>2, <1>3 DEF IInv, UnbrokenOK, BookedAt
  <1>11. \A v \in Workers : \A d \in work'[v].plan : v # w /\ d \in work[v].plan /\ d.asset \in AssetIds
    BY <1>5, <1>6, JobIs DEF IInv, JobsOK
  <1>12. PlansOK'
    <2>1. ASSUME NEW v \in Workers, NEW d \in work'[v].plan, NEW m \in Full(assets'[d.asset].q), m.period <= d.period
          PROVE  BookedAt(d.asset, m.period) \/ \E e \in work'[v].plan : e.asset = d.asset /\ e.period = m.period
      BY <1>2, <1>5, <1>11, <2>1, SMTT(30) DEF IInv, PlansOK
    <2>2. QED
      BY <1>2, <2>1 DEF PlansOK, BookedAt
  <1>13. WholeOK'
    <2>1. ASSUME NEW b \in AssetIds, assets'[b].status = "fully_depreciated"
          PROVE  assets[b].status = "fully_depreciated" /\ assets'[b].q = assets[b].q
      BY <1>2, <2>1
    <2>2. \A b : Booked(b)' = Booked(b)
      BY <1>2 DEF Booked
    <2>3. \A b \in AssetIds : assets'[b].status = "fully_depreciated" /\ Booked(b)' # {}
                                => \A m \in Full(assets'[b].q) : BookedAt(b, m.period)'
      BY <1>2, <2>1, <2>2 DEF IInv, WholeOK, BookedAt
    <2>4. \A v \in Workers : \A d \in work'[v].plan : assets'[d.asset].status = "fully_depreciated" => Booked(d.asset)' # {}
      BY <1>11, <2>1, <2>2 DEF IInv, WholeOK
    <2>5. QED
      BY <1>2, <2>3, <2>4 DEF WholeOK, Booked
  <1>14. JournalOK'
    BY <1>2, <1>3 DEF IInv, JournalOK, DepreciationPostings, Entry
  <1>15. UndisturbedOK'
    <2>1. \A b : Booked(b)' = Booked(b)
      BY <1>2 DEF Booked
    <2>2. \A b \in AssetIds : b # a => EntriesOf(b)' = EntriesOf(b)
      <3>1. entries'[n].ref = a
        BY <1>2 DEF Entry
      <3>2. QED
        BY <1>2, <3>1 DEF EntriesOf
    <2>3. a # 0 /\ a \in AssetsOf(work[w])
      BY <1>1, <1>2, <1>3, AssetIs DEF AssetsOf
    <2>4. ASSUME NEW b \in AssetIds \ troubled
          PROVE  Alone(b)' /\ ReadOK(b)' /\ BooksOK(b)'
      <3>1. Alone(b) /\ ReadOK(b) /\ BooksOK(b)
        BY DEF IInv, UndisturbedOK
      <3>2. Alone(b)'
        BY <1>2, <1>5, <1>6, <2>3, <3>1 DEF Alone
      <3>3. ReadOK(b)'
        <4>1. \A v \in Workers : work'[v].at = "dispose" => v # w /\ work'[v] = work[v]
          BY <1>5, <1>6
        <4>2. ASSUME NEW v \in Workers, work'[v].at = "dispose", work'[v].asset = b
              PROVE  \E p \in Proceeds : work'[v].postings = DisposalPostings(b, work[v].date, p)'
          <5>1. PICK date : date = work[v].date /\ work'[v] = work[v]
            BY <4>1, <4>2
          <5>2. PICK p \in Proceeds : work[v].postings = DisposalPostings(b, date, p)
            BY <3>1, <4>2, <5>1 DEF ReadOK
          <5>3. DisposalPostings(b, date, p)' = DisposalPostings(b, date, p)
            BY <1>4, <2>1, DisposalKept
          <5>4. TakenOff(b, work[v].date)' = TakenOff(b, date)'
            BY <5>1 DEF TakenOff
          <5>5. DisposalPostings(b, work[v].date, p)' = DisposalPostings(b, date, p)'
            BY <5>4 DEF DisposalPostings
          <5>6. QED
            BY <5>1, <5>2, <5>3, <5>5
        <4>3. QED
          BY <4>2 DEF ReadOK
      <3>4. BooksOK(b)'
        <4>1. CASE b # a
          <5>1. /\ (assets'[b].status = "disposed") = (assets[b].status = "disposed")
                /\ assets'[b].disposed = assets[b].disposed /\ assets'[b].disposalEntry = assets[b].disposalEntry
            BY <1>2, <4>1
          <5>2. EntriesOf(b)' = EntriesOf(b)
            BY <2>2, <4>1
          <5>3. QED
            BY <1>2, <1>3, <1>4, <2>1, <3>1, <5>1, <5>2, BooksKept
        <4>2. CASE b = a
          <5>1. assets[a].status # "disposed"
            BY <2>3, <3>1, <4>2 DEF Alone
          <5>2. EntriesOf(a) = {r.entry : r \in Booked(a)}
            BY <3>1, <4>2, <5>1 DEF BooksOK
          <5>3. EntriesOf(a)' = EntriesOf(a) \cup {n}
            <6>1. entries'[n].ref = a
              BY <1>2 DEF Entry
            <6>2. QED
              BY <1>2, <6>1 DEF EntriesOf
          <5>4. PICK date : date = job.date
            OBVIOUS
          <5>5. PICK p \in Proceeds : job.postings = DisposalPostings(a, date, p)
            BY <1>1, <1>2, <3>1, <4>2, <5>4 DEF ReadOK
          <5>6. DisposalPostings(a, date, p)' = DisposalPostings(a, date, p)
            BY <1>2, <1>4, <2>1, DisposalKept
          <5>7. entries'[n] = Entry(DisposalPostings(a, date, p), a)'
            BY <1>2, <5>5, <5>6 DEF Entry
          <5>8. \A r \in Booked(a) : r.entry < n
            BY <1>2, <1>3 DEF Booked
          <5>9. assets'[a].status = "disposed" /\ assets'[a].disposed = date /\ assets'[a].disposalEntry = n
            BY <1>2, <5>4
          <5>10. \E x \in Proceeds : entries'[n] = Entry(DisposalPostings(a, date, x), a)'
            BY <5>7
          <5>11. BooksOK(a)'
            BY <2>1, <5>2, <5>3, <5>8, <5>9, <5>10 DEF BooksOK
          <5>12. QED
            BY <4>2, <5>11
        <4>3. QED
          BY <4>1, <4>2
      <3>5. QED
        BY <3>2, <3>3, <3>4
    <2>5. QED
      BY <1>2, <2>4 DEF UndisturbedOK
  <1>16. QED
    BY <1>7, <1>8, <1>9, <1>10, <1>12, <1>13, <1>14, <1>15 DEF IInv

LEMMA CompletesIs ==
  ASSUME NEW row \in AssetRow, NEW a, NEW plan
  PROVE  LET new == Completes(row, a, plan)
         IN  /\ new \in AssetRow
             /\ new.q = row.q /\ new.disposed = row.disposed /\ new.disposalEntry = row.disposalEntry
             /\ \/ new.status = row.status
                \/ /\ row.status = "active" /\ new.status = "fully_depreciated"
                   /\ Complete(a, plan) /\ \E d \in plan : d.asset = a
  <1>1. CASE row.status = "active" /\ a \in {d.asset : d \in plan} /\ Complete(a, plan)
    <2>1. Completes(row, a, plan) = [row EXCEPT !.status = "fully_depreciated"]
      BY <1>1 DEF Completes
    <2>2. PICK new : new = [row EXCEPT !.status = "fully_depreciated"]
      OBVIOUS
    <2>3. /\ new \in AssetRow /\ new.status = "fully_depreciated"
          /\ new.q = row.q /\ new.disposed = row.disposed /\ new.disposalEntry = row.disposalEntry
      BY <2>2 DEF AssetRow
    <2>4. \E d \in plan : d.asset = a
      BY <1>1
    <2>5. QED
      BY <1>1, <2>1, <2>2, <2>3, <2>4
  <1>2. CASE ~(row.status = "active" /\ a \in {d.asset : d \in plan} /\ Complete(a, plan))
    <2>1. Completes(row, a, plan) = row
      BY <1>2 DEF Completes
    <2>2. QED
      BY <2>1
  <1>3. QED
    BY <1>1, <1>2

\* What the booking of a plan changes.
RunOf(d, plan, L) == [asset |-> d.asset, period |-> d.period, amount |-> d.amount, entry |-> L + Position(d, plan)]

BooksPlan(w, plan, L, N) ==
  /\ L \in Nat /\ N \in Nat /\ Ids = 1..L /\ Ids' = 1..(L + N)
  /\ PlanOK(plan) /\ Ordered(plan) /\ NoneBooked(plan) /\ At(w, "run")
  /\ entries' \in Seq(EntryRow) /\ \A e \in Ids : entries'[e] = entries[e]
  /\ \A d \in plan : /\ Position(d, plan) \in 1..N
                     /\ entries'[L + Position(d, plan)] = Entry(DepreciationPostings(d), d.asset)
  /\ \A k \in 1..N : \E d \in plan : Position(d, plan) = k
  /\ runs' = runs \cup {RunOf(d, plan, L) : d \in plan}
  /\ AssetIds' = AssetIds /\ assets' \in Seq(AssetRow)
  /\ \A a \in AssetIds : assets'[a] = Completes(assets[a], a, plan)
  /\ work' = [work EXCEPT ![w] = Idle] /\ UNCHANGED <<schemes, inactive, troubled>>

LEMMA BookRunsIs ==
  ASSUME IInv, NEW w \in Workers, BookRuns(w), NEW plan, plan = work[w].plan,
         NEW L, L = LastId, NEW N, N = Cardinality(plan)
  PROVE  BooksPlan(w, plan, L, N)
  <1>1. /\ At(w, "run") /\ NoneBooked(plan)
        /\ entries' = entries \o [k \in 1..N |-> Entry(DepreciationPostings(Nth(k, plan)), Nth(k, plan).asset)]
        /\ runs' = runs \cup {RunOf(d, plan, L) : d \in plan}
        /\ assets' = [a \in AssetIds |-> Completes(assets[a], a, plan)]
        /\ work' = [work EXCEPT ![w] = Idle] /\ UNCHANGED <<schemes, inactive, troubled>>
    BY DEF BookRuns, Finish, RunOf
  <1>2. RegisterOK /\ JobOK(work[w])
    BY DEF IInv, JobsOK
  <1>3. PlanOK(plan) /\ Ordered(plan)
    <2>1. PlanOK(work[w].plan)
      BY <1>2, JobIs
    <2>2. PlanOK(plan)
      BY <2>1
    <2>3. QED
      BY <1>2, <2>2, PlanIs
  <1>4. L \in Nat /\ Ids = 1..L /\ L = Len(entries) /\ entries \in Seq(EntryRow)
    BY <1>2 DEF RegisterOK, Ids, LastId
  <1>5. /\ N \in Nat /\ \A d \in plan : Position(d, plan) \in 1..N
        /\ \A d, e \in plan : Position(d, plan) = Position(e, plan) => d = e
        /\ \A k \in 1..N : Nth(k, plan) \in plan /\ Position(Nth(k, plan), plan) = k
    BY <1>3, PositionIs
  <1>6. ASSUME NEW d \in plan
        PROVE  Entry(DepreciationPostings(d), d.asset) \in EntryRow
    <2>1. OfSchedule(d)
      BY <1>3 DEF PlanOK
    <2>2. DepreciationPostings(d) \in Seq(Posting)
      BY <1>2, <2>1, DepreciationIs
    <2>3. d.asset \in Nat
      BY <1>3 DEF Ordered
    <2>4. QED
      BY <2>2, <2>3 DEF Entry, EntryRow
  <1>7. PICK new : new = [k \in 1..N |-> Entry(DepreciationPostings(Nth(k, plan)), Nth(k, plan).asset)]
    OBVIOUS
  <1>8. new \in Seq(EntryRow) /\ Len(new) = N
    <2>1. \A k \in 1..N : Entry(DepreciationPostings(Nth(k, plan)), Nth(k, plan).asset) \in EntryRow
      BY <1>5, <1>6
    <2>2. new \in [1..N -> EntryRow]
      BY <1>7, <2>1
    <2>3. QED
      BY <1>5, <2>2
  <1>9. /\ entries' \in Seq(EntryRow) /\ Len(entries') = L + N
        /\ \A e \in 1..(L + N) : entries'[e] = IF e <= L THEN entries[e] ELSE new[e - L]
    <2>1. PICK old : old = entries
      OBVIOUS
    <2>2. old \in Seq(EntryRow) /\ entries' = old \o new
      BY <1>1, <1>4, <1>7, <2>1
    <2>3. /\ old \o new \in Seq(EntryRow) /\ Len(old \o new) = Len(old) + Len(new)
          /\ \A e \in 1..(Len(old) + Len(new)) : (old \o new)[e] = IF e <= Len(old) THEN old[e] ELSE new[e - Len(old)]
      BY <1>8, <2>2, ConcatProperties
    <2>4. Len(old) = L /\ Len(new) = N
      BY <1>4, <1>8, <2>1
    <2>5. QED
      BY <2>1, <2>2, <2>3, <2>4
  <1>10. Ids' = 1..(L + N)
    BY <1>9 DEF Ids
  <1>11. \A e \in Ids : entries'[e] = entries[e]
    BY <1>4, <1>5, <1>9
  <1>12. ASSUME NEW d \in plan
         PROVE  entries'[L + Position(d, plan)] = Entry(DepreciationPostings(d), d.asset)
    <2>1. PICK k \in 1..N : k = Position(d, plan)
      BY <1>5
    <2>2. Nth(k, plan) = d
      BY <1>5, <2>1
    <2>3. new[k] = Entry(DepreciationPostings(d), d.asset)
      BY <1>7, <2>2
    <2>4. L + k \in 1..(L + N) /\ ~(L + k <= L) /\ (L + k) - L = k
      BY <1>4, <1>5, <2>1
    <2>5. entries'[L + k] = new[k]
      BY <1>9, <2>4
    <2>6. QED
      BY <2>1, <2>3, <2>5
  <1>13. AssetIds' = AssetIds /\ assets' \in Seq(AssetRow) /\ \A a \in AssetIds : assets'[a] = Completes(assets[a], a, plan)
    <2>1. \A a \in AssetIds : Completes(assets[a], a, plan) \in AssetRow
      BY <1>2, AssetIs, CompletesIs
    <2>2. AssetIds = 1..Len(assets) /\ Len(assets) \in Nat
      BY <1>2 DEF RegisterOK, AssetIds
    <2>3. assets' \in [1..Len(assets) -> AssetRow]
      BY <1>1, <2>1, <2>2
    <2>4. PICK n \in Nat : n = Len(assets) /\ assets' \in [1..n -> AssetRow]
      BY <2>2, <2>3
    <2>5. assets' \in Seq(AssetRow) /\ DOMAIN assets' = 1..n
      BY <2>4
    <2>6. QED
      BY <1>1, <2>2, <2>4, <2>5 DEF AssetIds
  <1>14. \A k \in 1..N : \E d \in plan : Position(d, plan) = k
    BY <1>5
  <1>15. QED
    BY <1>1, <1>3, <1>4, <1>5, <1>9, <1>10, <1>11, <1>12, <1>13, <1>14 DEF BooksPlan

\* Runs that reach the residual leave no month of the schedule out.
LEMMA CompleteIs ==
  ASSUME RegisterOK, RunsOK, NEW plan, PlanOK(plan), NoneBooked(plan), NEW a \in AssetIds, Complete(a, plan),
         NEW m \in Full(assets[a].q)
  PROVE  BookedAt(a, m.period) \/ \E d \in plan : d.asset = a /\ d.period = m.period
  <1>1. PICK q : q = assets[a].q /\ Sound(q)
    BY AssetIs
  <1>2. PICK last : last = Max({d.period : d \in {e \in plan : e.asset = a}})
    OBVIOUS
  <1>3. PICK T, P, U : T = {r \in Booked(a) : r.period <= last} /\ P = {d \in plan : d.asset = a} /\ U = T \cup P
    OBVIOUS
  <1>4. MonthsOf(T, q) /\ MonthsOf(P, q)
    BY <1>1, <1>3, BookedIs, PlanIs
  <1>5. \A r \in T, d \in P : r.period # d.period
    BY <1>3 DEF NoneBooked
  <1>6. T \cap P = {}
    BY <1>5
  <1>7. MonthsOf(U, q)
    <2>1. IsFiniteSet(U)
      BY <1>3, <1>4, FS_Union DEF MonthsOf
    <2>2. QED
      BY <1>3, <1>4, <1>5, <2>1 DEF MonthsOf
  <1>8. Amounts(U) = Amounts(T) + Amounts(P)
    <2>1. \A r \in T \cup P : r.amount \in Int
      <3>1. \A r \in T \cup P : [period |-> r.period, amount |-> r.amount] \in Full(q)
        BY <1>4 DEF MonthsOf
      <3>2. ASSUME NEW r \in T \cup P
            PROVE  r.amount \in Int
        <4>1. [period |-> r.period, amount |-> r.amount] \in Full(q)
          BY <3>1
        <4>2. r.amount \in Nat \ {0}
          BY <1>1, <4>1, RowsTyped
        <4>3. QED
          BY <4>2
      <3>3. QED
        BY <3>2
    <2>2. IsFiniteSet(T) /\ IsFiniteSet(P)
      BY <1>4 DEF MonthsOf
    <2>3. QED
      BY <1>3, <1>6, <2>1, <2>2, AmountsJoin
  <1>9. q.recognised + DepToPeriod(a, last) + Amounts(P) >= q.price - Residual(q)
    BY <1>1, <1>2, <1>3 DEF Complete
  <1>10. DepToPeriod(a, last) = Amounts(T)
    BY <1>3 DEF DepToPeriod
  <1>11. Amounts(U) >= Depreciable(q)
    <2>1. PICK x \in Int, y \in Int, z \in Int, v \in Int, u \in Int :
            x = Amounts(T) /\ y = Amounts(P) /\ z = q.price /\ v = q.recognised /\ u = Residual(q)
      BY <1>1, <1>4, RowsAdd DEF Sound
    <2>2. v + x + y >= z - u
      BY <1>9, <1>10, <2>1
    <2>3. Depreciable(q) = z - u - v
      BY <2>1 DEF Depreciable
    <2>4. QED
      BY <1>8, <2>1, <2>2, <2>3
  <1>12. Rows(U) = Full(q)
    <2>1. Amounts(U) <= Depreciable(q) /\ Amounts(U) \in Nat /\ (Amounts(U) = Depreciable(q) <=> Rows(U) = Full(q))
      BY <1>1, <1>7, RowsAdd
    <2>2. Depreciable(q) \in Nat
      BY <1>1 DEF Sound
    <2>3. QED
      BY <1>11, <2>1, <2>2
  <1>13. PICK r \in U : m = [period |-> r.period, amount |-> r.amount]
    BY <1>1, <1>12 DEF Rows
  <1>14. m.period = r.period
    BY <1>13
  <1>15. QED
    BY <1>3, <1>14 DEF BookedAt, Booked

LEMMA BookRunsIInv ==
  ASSUME IInv, NEW w \in Workers, BookRuns(w)
  PROVE  IInv'
  <1>1. PICK plan, L, N : plan = work[w].plan /\ L = LastId /\ N = Cardinality(plan)
    OBVIOUS
  <1>0. BooksPlan(w, plan, L, N)
    BY <1>1, BookRunsIs
  <1>2. /\ L \in Nat /\ N \in Nat /\ Ids = 1..L /\ Ids' = 1..(L + N)
        /\ PlanOK(plan) /\ Ordered(plan) /\ NoneBooked(plan) /\ At(w, "run")
        /\ entries' \in Seq(EntryRow) /\ \A e \in Ids : entries'[e] = entries[e]
        /\ \A d \in plan : /\ Position(d, plan) \in 1..N
                           /\ entries'[L + Position(d, plan)] = Entry(DepreciationPostings(d), d.asset)
        /\ \A k \in 1..N : \E d \in plan : Position(d, plan) = k
        /\ runs' = runs \cup {RunOf(d, plan, L) : d \in plan}
        /\ AssetIds' = AssetIds /\ assets' \in Seq(AssetRow)
        /\ \A a \in AssetIds : assets'[a] = Completes(assets[a], a, plan)
        /\ work' = [work EXCEPT ![w] = Idle] /\ UNCHANGED <<schemes, inactive, troubled>>
    BY <1>0 DEF BooksPlan
  <1>3. RegisterOK /\ RunsOK /\ (\A r \in runs : OfSchedule(r) /\ r.asset \in AssetIds /\ r.entry \in Ids)
    BY DEF IInv, RunsOK, OfSchedule
  <1>4. \A a \in AssetIds :
          /\ assets'[a].q = assets[a].q
          /\ assets'[a].disposed = assets[a].disposed /\ assets'[a].disposalEntry = assets[a].disposalEntry
          /\ \/ assets'[a].status = assets[a].status
             \/ /\ assets[a].status = "active" /\ assets'[a].status = "fully_depreciated"
                /\ Complete(a, plan) /\ \E d \in plan : d.asset = a
    <2>1. \A a \in AssetIds : assets[a] \in AssetRow
      BY <1>3, AssetIs
    <2>2. QED
      BY <1>2, <2>1, CompletesIs
  <1>5. KeepsRequests
    BY <1>2, <1>4 DEF KeepsRequests
  <1>6. work' = [v \in Workers |-> work'[v]] /\ work'[w] = Idle /\ \A v \in Workers \ {w} : work'[v] = work[v]
    BY <1>2 DEF IInv, JobsOK
  <1>7. Idle.plan = {} /\ Idle.at = "idle" /\ Idle.asset = 0 /\ AssetsOf(Idle) = {}
    BY DEF Idle, AssetsOf
  <1>8. \A d : /\ RunOf(d, plan, L).asset = d.asset /\ RunOf(d, plan, L).period = d.period
               /\ RunOf(d, plan, L).amount = d.amount /\ RunOf(d, plan, L).entry = L + Position(d, plan)
    BY DEF RunOf
  <1>9. \A d \in plan : d.asset \in AssetIds /\ OfSchedule(d) /\ L + Position(d, plan) \in Ids' \ Ids
    <2>1. \A d \in plan : d.asset \in AssetIds /\ OfSchedule(d)
      BY <1>2 DEF PlanOK, OfSchedule
    <2>2. \A k \in 1..N : L + k \in Ids' \ Ids
      BY <1>2
    <2>3. QED
      BY <1>2, <2>1, <2>2
  <1>10. \A d, e \in plan : Position(d, plan) = Position(e, plan) => d = e
    BY <1>2, PositionIs
  <1>11. \A a, p : BookedAt(a, p)' <=> (BookedAt(a, p) \/ \E d \in plan : d.asset = a /\ d.period = p)
    <2>1. runs' = runs \cup {RunOf(d, plan, L) : d \in plan}
      BY <1>2
    <2>2. \A d : RunOf(d, plan, L).asset = d.asset /\ RunOf(d, plan, L).period = d.period
      BY <1>8
    <2>3. QED
      BY ONLY <2>1, <2>2 DEF BookedAt
  <1>12. RegisterOK'
    <2>1. \A b \in AssetIds :
            /\ Admissible(assets[b].q) /\ assets[b].q.scheme \in schemes
            /\ IF assets[b].status = "disposed" THEN assets[b].disposalEntry \in Ids ELSE assets[b].disposalEntry = 0 \/ b \in troubled
      BY <1>3 DEF RegisterOK
    <2>2. Ids \subseteq Ids'
      BY <1>2
    <2>3. \A b \in AssetIds :
            /\ Admissible(assets'[b].q) /\ assets'[b].q.scheme \in schemes
            /\ IF assets'[b].status = "disposed" THEN assets'[b].disposalEntry \in Ids' ELSE assets'[b].disposalEntry = 0 \/ b \in troubled
      BY <1>4, <2>1, <2>2
    <2>4. \A e \in Ids' : entries'[e].ref \in AssetIds
      <3>1. ASSUME NEW e \in Ids' \ Ids
            PROVE  entries'[e].ref \in AssetIds
        <4>1. e - L \in 1..N /\ e = L + (e - L)
          BY <1>2
        <4>2. PICK d \in plan : Position(d, plan) = e - L
          BY <1>2, <4>1
        <4>3. entries'[e] = Entry(DepreciationPostings(d), d.asset)
          BY <1>2, <4>1, <4>2
        <4>4. QED
          BY <1>9, <4>3 DEF Entry
      <3>2. \A e \in Ids : entries[e].ref \in AssetIds
        BY <1>3 DEF RegisterOK
      <3>3. QED
        BY <1>2, <3>1, <3>2
    <2>5. QED
      BY <1>2, <1>3, <2>3, <2>4 DEF RegisterOK
  <1>13. RunsOK'
    <2>1. IsFiniteSet(runs')
      <3> DEFINE f == [d \in plan |-> RunOf(d, plan, L)]
      <3>1. {RunOf(d, plan, L) : d \in plan} = {f[d] : d \in plan}
        OBVIOUS
      <3>2. IsFiniteSet(plan) /\ IsFiniteSet(runs)
        BY <1>2, <1>3 DEF PlanOK, RunsOK
      <3> HIDE DEF f
      <3>3. IsFiniteSet({f[d] : d \in plan})
        BY <3>2, FiniteImage
      <3>4. QED
        BY <1>2, <3>1, <3>2, <3>3, FS_Union
    <2>2. \A d \in plan : OfSchedule(d)'
      BY <1>5, <1>9, OfScheduleKept
    <2>3. \A r \in runs : OfSchedule(r)'
      BY <1>3, <1>5, OfScheduleKept
    <2>4. \A d \in plan : OfSchedule(RunOf(d, plan, L))'
      BY <1>8, <2>2 DEF OfSchedule
    <2>5. \A r \in runs' : OfSchedule(r)'
      BY <1>2, <2>3, <2>4
    <2>6. \A r \in runs' : r.entry \in Ids'
      BY <1>2, <1>3, <1>8, <1>9
    <2>7. \A r, s \in runs' : r.asset = s.asset /\ r.period = s.period => r = s
      <3>1. \A r, s \in runs : r.asset = s.asset /\ r.period = s.period => r = s
        BY <1>3 DEF RunsOK
      <3>2. \A r \in runs, d \in plan : ~(r.asset = d.asset /\ r.period = d.period)
        BY <1>2 DEF NoneBooked, Booked
      <3>3. \A d, e \in plan : d.asset = e.asset /\ d.period = e.period => d = e
        BY <1>2 DEF Ordered
      <3>4. QED
        BY <1>2, <1>8, <3>1, <3>2, <3>3
    <2>8. QED
      BY <2>1, <2>5, <2>6, <2>7 DEF RunsOK
  <1>14. JobsOK'
    <2>1. \A v \in Workers : JobOK(work'[v])
      BY <1>6 DEF IInv, JobsOK, JobOK
    <2>2. PICK jobs : jobs = work'
      OBVIOUS
    <2>3. \A v \in Workers : JobOK(jobs[v])'
      BY <1>5, <2>1, <2>2, JobKept
    <2>4. \A v \in Workers : JobOK(work[v])'
      BY <2>2, <2>3 DEF JobOK, PlanOK, OfSchedule
    <2>5. QED
      BY <1>6, <2>4 DEF JobsOK
  <1>15. \A v \in Workers : \A d \in work'[v].plan : v # w /\ work'[v] = work[v] /\ d \in work[v].plan /\ d.asset \in AssetIds
    BY <1>6, <1>7, JobIs DEF IInv, JobsOK
  <1>16. UnbrokenOK'
    <2>1. ASSUME NEW r \in runs, NEW m \in Full(assets'[r.asset].q), m.period <= r.period
          PROVE  BookedAt(r.asset, m.period)'
      BY <1>3, <1>4, <1>11, <2>1 DEF IInv, UnbrokenOK
    <2>2. ASSUME NEW d \in plan, NEW m \in Full(assets'[d.asset].q), m.period <= d.period
          PROVE  BookedAt(d.asset, m.period)'
      BY <1>1, <1>4, <1>9, <1>11, <2>2 DEF IInv, PlansOK
    <2>3. ASSUME NEW r \in runs', NEW m \in Full(assets'[r.asset].q), m.period <= r.period
          PROVE  BookedAt(r.asset, m.period)'
      <3>1. CASE r \in runs
        BY <2>1, <2>3, <3>1
      <3>2. CASE \E d \in plan : r = RunOf(d, plan, L)
        <4>1. PICK d \in plan : r = RunOf(d, plan, L)
          BY <3>2
        <4>2. r.asset = d.asset /\ r.period = d.period
          BY <1>8, <4>1
        <4>3. BookedAt(d.asset, m.period)'
          BY <2>2, <2>3, <4>2
        <4>4. QED
          BY <4>2, <4>3
      <3>3. QED
        BY <1>2, <3>1, <3>2
    <2>4. QED
      BY <2>3 DEF UnbrokenOK, BookedAt
  <1>17. PlansOK'
    <2>1. ASSUME NEW v \in Workers, NEW d \in work'[v].plan, NEW m \in Full(assets'[d.asset].q), m.period <= d.period
          PROVE  BookedAt(d.asset, m.period)' \/ \E e \in work'[v].plan : e.asset = d.asset /\ e.period = m.period
      BY <1>4, <1>11, <1>15, <2>1 DEF IInv, PlansOK
    <2>2. QED
      BY <2>1 DEF PlansOK, BookedAt
  <1>18. \A a : Booked(a) \subseteq Booked(a)'
    BY <1>2 DEF Booked
  <1>19. \A d \in plan : Booked(d.asset)' # {}
    <2>1. \A d \in plan : RunOf(d, plan, L) \in Booked(d.asset)'
      BY <1>2, <1>8 DEF Booked
    <2>2. QED
      BY <2>1
  <1>20. WholeOK'
    <2>1. ASSUME NEW a \in AssetIds, assets'[a].status = "fully_depreciated", Booked(a)' # {},
                 NEW m \in Full(assets'[a].q)
          PROVE  BookedAt(a, m.period)'
      <3>1. CASE assets[a].status = "fully_depreciated" /\ Booked(a) # {}
        BY <1>4, <1>11, <2>1, <3>1 DEF IInv, WholeOK
      <3>2. CASE assets[a].status = "fully_depreciated" /\ Booked(a) = {}
        <4>1. PICK r \in Booked(a)' : TRUE
          BY <2>1
        <4>2. r \notin runs /\ r \in runs' /\ r.asset = a
          BY <3>2, <4>1 DEF Booked
        <4>3. PICK d \in plan : r = RunOf(d, plan, L)
          BY <1>2, <4>2
        <4>4. d.asset = a
          BY <1>8, <4>2, <4>3
        <4>5. Booked(a) # {}
          BY <1>1, <3>2, <4>4 DEF IInv, WholeOK
        <4>6. QED
          BY <3>2, <4>5
      <3>3. CASE assets[a].status # "fully_depreciated"
        <4>1. Complete(a, plan)
          BY <1>4, <2>1, <3>3
        <4>2. m \in Full(assets[a].q)
          BY <1>4, <2>1
        <4>3. BookedAt(a, m.period) \/ \E d \in plan : d.asset = a /\ d.period = m.period
          BY <1>2, <1>3, <4>1, <4>2, CompleteIs
        <4>4. QED
          BY <1>11, <4>3
      <3>4. QED
        BY <3>1, <3>2, <3>3
    <2>2. ASSUME NEW v \in Workers, NEW d \in work'[v].plan, assets'[d.asset].status = "fully_depreciated"
          PROVE  Booked(d.asset)' # {}
      <3>1. v # w /\ d \in work[v].plan /\ d.asset \in AssetIds
        BY <1>15
      <3>2. CASE assets[d.asset].status = "fully_depreciated"
        BY <1>18, <3>1, <3>2 DEF IInv, WholeOK
      <3>3. CASE assets[d.asset].status # "fully_depreciated"
        <4>1. PICK e \in plan : e.asset = d.asset
          BY <1>4, <2>2, <3>1, <3>3
        <4>2. Booked(e.asset)' # {}
          BY <1>19
        <4>3. QED
          BY <4>1, <4>2 DEF Booked
      <3>4. QED
        BY <3>2, <3>3
    <2>3. QED
      BY <1>2, <2>1, <2>2 DEF WholeOK, BookedAt, Booked


  <1>21. JournalOK'
    <2>1. \A r \in runs : entries'[r.entry] = Entry(DepreciationPostings(r), r.asset)'
      BY <1>2, <1>3, <1>4 DEF IInv, JournalOK, DepreciationPostings, Entry
    <2>2. \A d \in plan : entries'[L + Position(d, plan)] = Entry(DepreciationPostings(RunOf(d, plan, L)), RunOf(d, plan, L).asset)'
      BY <1>2, <1>4, <1>8, <1>9 DEF DepreciationPostings, Entry
    <2>3. ASSUME NEW r \in runs'
          PROVE  entries'[r.entry] = Entry(DepreciationPostings(r), r.asset)'
      <3>1. CASE r \in runs
        BY <2>1, <3>1
      <3>2. CASE \E d \in plan : r = RunOf(d, plan, L)
        <4>1. PICK d \in plan : r = RunOf(d, plan, L)
          BY <3>2
        <4>2. r.entry = L + Position(d, plan)
          BY <1>8, <4>1
        <4>3. QED
          BY <2>2, <4>1, <4>2
      <3>3. QED
        BY <1>2, <3>1, <3>2
    <2>4. \A r, s \in runs' : r.entry = s.entry => r = s
      <3>1. \A r, s \in runs : r.entry = s.entry => r = s
        BY DEF IInv, JournalOK
      <3>2. \A r \in runs, d \in plan : r.entry # L + Position(d, plan)
        BY <1>3, <1>9
      <3>3. ASSUME NEW d \in plan, NEW e \in plan, L + Position(d, plan) = L + Position(e, plan)
            PROVE  d = e
        <4>1. Position(d, plan) \in Nat /\ Position(e, plan) \in Nat
          BY <1>2
        <4>2. Position(d, plan) = Position(e, plan)
          BY <1>2, <3>3, <4>1
        <4>3. QED
          BY <1>10, <4>2
      <3>4. QED
        BY <1>2, <1>8, <3>1, <3>2, <3>3
    <2>5. QED
      BY <2>3, <2>4 DEF JournalOK
  <1>22. UndisturbedOK'
    <2>1. \A e \in Ids' \ Ids : \E d \in plan : e = L + Position(d, plan) /\ entries'[e].ref = d.asset
      <3>1. ASSUME NEW e \in Ids' \ Ids
            PROVE  \E d \in plan : e = L + Position(d, plan) /\ entries'[e].ref = d.asset
        <4>1. e - L \in 1..N /\ e = L + (e - L)
          BY <1>2
        <4>2. PICK d \in plan : Position(d, plan) = e - L
          BY <1>2, <4>1
        <4>3. entries'[e] = Entry(DepreciationPostings(d), d.asset) /\ e = L + Position(d, plan)
          BY <1>2, <4>1, <4>2
        <4>4. QED
          BY <4>3 DEF Entry
      <3>2. QED
        BY <3>1
    <2>2. ASSUME NEW d \in plan
          PROVE  entries'[L + Position(d, plan)].ref = d.asset
      <3>1. entries'[L + Position(d, plan)] = Entry(DepreciationPostings(d), d.asset)
        BY <1>2
      <3>2. QED
        BY <3>1 DEF Entry
    <2>3. \A d \in plan : d.asset \in AssetsOf(work[w])
      BY <1>1 DEF AssetsOf
    <2>4. ASSUME NEW a \in AssetIds, \A d \in plan : d.asset # a
          PROVE  Booked(a)' = Booked(a) /\ EntriesOf(a)' = EntriesOf(a)
      <3>1. Booked(a)' = Booked(a)
        <4>1. runs' = runs \cup {RunOf(d, plan, L) : d \in plan}
          BY <1>2
        <4>2. \A d \in plan : RunOf(d, plan, L).asset # a
          BY <1>8, <2>4
        <4>3. QED
          BY <4>1, <4>2 DEF Booked
      <3>2. \A e \in Ids' \ Ids : entries'[e].ref # a
        BY <2>1, <2>4
      <3>3. Ids \subseteq Ids'
        BY <1>2
      <3>4. EntriesOf(a)' = EntriesOf(a)
        BY <1>2, <3>2, <3>3 DEF EntriesOf
      <3>5. QED
        BY <3>1, <3>4
    <2>5. ASSUME NEW a \in AssetIds \ troubled
          PROVE  Alone(a)' /\ ReadOK(a)' /\ BooksOK(a)'
      <3>1. Alone(a) /\ ReadOK(a) /\ BooksOK(a)
        BY DEF IInv, UndisturbedOK
      <3>2. (assets'[a].status = "disposed") <=> (assets[a].status = "disposed")
        BY <1>4
      <3>3. Alone(a)'
        BY <1>6, <1>7, <3>1, <3>2 DEF Alone
      <3>4. ReadOK(a)'
        <4>1. \A v \in Workers : work'[v].at = "dispose" => v # w /\ work'[v] = work[v]
          BY <1>6, <1>7
        <4>2. ASSUME NEW v \in Workers, work'[v].at = "dispose", work'[v].asset = a
              PROVE  \E p \in Proceeds : work'[v].postings = DisposalPostings(a, work[v].date, p)'
          <5>1. PICK date : date = work[v].date /\ work'[v] = work[v] /\ v # w
            BY <4>1, <4>2
          <5>2. PICK p \in Proceeds : work[v].postings = DisposalPostings(a, date, p)
            BY <3>1, <4>2, <5>1 DEF ReadOK
          <5>3. a \in AssetsOf(work[v])
            <6>1. a # 0
              BY <1>3, AssetIs
            <6>2. QED
              BY <4>2, <5>1, <6>1 DEF AssetsOf
          <5>4. \A d \in plan : d.asset # a
            BY <2>3, <3>1, <5>1, <5>3 DEF Alone
          <5>5. DisposalPostings(a, date, p)' = DisposalPostings(a, date, p)
            BY <1>5, <2>4, <5>4, DisposalKept
          <5>6. TakenOff(a, work[v].date)' = TakenOff(a, date)'
            BY <5>1 DEF TakenOff
          <5>7. DisposalPostings(a, work[v].date, p)' = DisposalPostings(a, date, p)'
            BY <5>6 DEF DisposalPostings
          <5>8. QED
            BY <5>1, <5>2, <5>5, <5>7
        <4>3. QED
          BY <4>2 DEF ReadOK
      <3>5. BooksOK(a)'
        <4>1. CASE \A d \in plan : d.asset # a
          <5>1. Booked(a)' = Booked(a) /\ EntriesOf(a)' = EntriesOf(a)
            BY <2>4, <4>1
          <5>2. assets'[a].disposed = assets[a].disposed /\ assets'[a].disposalEntry = assets[a].disposalEntry
            BY <1>4
          <5>3. QED
            BY <1>2, <1>3, <1>5, <3>1, <3>2, <5>1, <5>2, BooksKept
        <4>2. CASE \E d \in plan : d.asset = a
          <5>1. assets[a].status # "disposed"
            BY <2>3, <3>1, <4>2 DEF Alone
          <5>2. EntriesOf(a) = {r.entry : r \in Booked(a)}
            BY <3>1, <5>1 DEF BooksOK
          <5>3. \A e : e \in EntriesOf(a)' <=> (e \in EntriesOf(a) \/ \E d \in plan : d.asset = a /\ e = L + Position(d, plan))
            <6>1. \A e : e \in EntriesOf(a)' <=> (e \in Ids' /\ entries'[e].ref = a)
              BY DEF EntriesOf
            <6>2. \A e \in Ids : e \in Ids' /\ (e \in EntriesOf(a) <=> entries'[e].ref = a)
              BY <1>2 DEF EntriesOf
            <6>3. \A e : e \in EntriesOf(a) => e \in Ids
              BY DEF EntriesOf
            <6>4. QED
              BY <1>9, <2>1, <2>2, <6>1, <6>2, <6>3
          <5>4. \A e : (\E r \in Booked(a)' : e = r.entry) <=>
                         ((\E r \in Booked(a) : e = r.entry) \/ \E d \in plan : d.asset = a /\ e = L + Position(d, plan))
            <6>1. \A r : r \in Booked(a)' <=> (r \in Booked(a) \/ \E d \in plan : d.asset = a /\ r = RunOf(d, plan, L))
              BY <1>2, <1>8 DEF Booked
            <6>2. QED
              BY <1>8, <6>1
          <5>5. EntriesOf(a)' = {r.entry : r \in Booked(a)'}
            BY <5>2, <5>3, <5>4
          <5>6. QED
            BY <3>2, <5>1, <5>5 DEF BooksOK
        <4>3. QED
          BY <4>1, <4>2
      <3>6. QED
        BY <3>3, <3>4, <3>5
    <2>6. QED
      BY <1>2, <2>5 DEF UndisturbedOK
  <1>23. QED
    BY <1>12, <1>13, <1>14, <1>16, <1>17, <1>20, <1>21, <1>22 DEF IInv

LEMMA AddAssetIInv ==
  ASSUME IInv, NEW q \in Requests, AddAsset(q)
  PROVE  IInv'
  <1>1. PICK row : row = [q |-> q, disposed |-> 0, disposalEntry |-> 0, status |-> InitialStatus(q)]
    OBVIOUS
  <1>2. /\ Admissible(q) /\ schemes' = schemes \cup {q.scheme} /\ assets' = Append(assets, row)
        /\ UNCHANGED <<runs, entries, inactive, work, troubled>>
    BY <1>1 DEF AddAsset
  <1>3. row \in AssetRow /\ row.q = q /\ row.status # "disposed" /\ row.disposalEntry = 0
    BY <1>1 DEF AssetRow, InitialStatus
  <1>4. RegisterOK
    BY DEF IInv
  <1>5. PICK n : n = Len(assets)
    OBVIOUS
  <1>6. assets \in Seq(AssetRow) /\ n \in Nat /\ AssetIds = 1..n
    BY <1>4, <1>5 DEF RegisterOK, AssetIds
  <1>7. /\ assets' \in Seq(AssetRow) /\ Len(assets') = n + 1
        /\ (\A a \in AssetIds : assets'[a] = assets[a]) /\ assets'[n + 1] = row
    BY <1>2, <1>3, <1>5, <1>6, AppendProperties
  <1>8. AssetIds' = AssetIds \cup {n + 1} /\ n + 1 \notin AssetIds
    BY <1>6, <1>7 DEF AssetIds
  <1>9. KeepsRequests
    BY <1>7, <1>8 DEF KeepsRequests
  <1>10. q.scheme \in SchemeNames
    BY AssetsAssumption
  <1>11. RegisterOK'
    <2>1. \A a \in AssetIds :
            /\ Admissible(assets[a].q) /\ assets[a].q.scheme \in schemes
            /\ IF assets[a].status = "disposed" THEN assets[a].disposalEntry \in Ids ELSE assets[a].disposalEntry = 0 \/ a \in troubled
      BY <1>4 DEF RegisterOK
    <2>2. Ids' = Ids
      BY <1>2 DEF Ids
    <2>3. \A a \in AssetIds' :
            /\ Admissible(assets'[a].q) /\ assets'[a].q.scheme \in schemes'
            /\ IF assets'[a].status = "disposed" THEN assets'[a].disposalEntry \in Ids' ELSE assets'[a].disposalEntry = 0 \/ a \in troubled
      <3>1. ASSUME NEW a \in AssetIds
            PROVE  /\ Admissible(assets'[a].q) /\ assets'[a].q.scheme \in schemes'
                   /\ IF assets'[a].status = "disposed" THEN assets'[a].disposalEntry \in Ids' ELSE assets'[a].disposalEntry = 0 \/ a \in troubled
        BY <1>2, <1>7, <2>1, <2>2
      <3>2. /\ Admissible(assets'[n + 1].q) /\ assets'[n + 1].q.scheme \in schemes'
            /\ IF assets'[n + 1].status = "disposed" THEN assets'[n + 1].disposalEntry \in Ids' ELSE assets'[n + 1].disposalEntry = 0
        BY <1>2, <1>3, <1>7
      <3>3. QED
        BY <1>8, <3>1, <3>2
    <2>4. QED
      BY <1>2, <1>4, <1>7, <1>8, <1>10, <2>2, <2>3 DEF RegisterOK
  <1>12. QED
    BY <1>2, <1>3, <1>7, <1>8, <1>9, <1>11, RegisteredIInv

LEMMA ReadStatusIInv ==
  ASSUME IInv, NEW w \in Workers, NEW a \in AssetIds,
         NEW from \in {"active", "paused"}, NEW command \in {"pause", "resume"}, ReadStatus(w, a, from, command)
  PROVE  IInv'
  <1>1. PICK job : job = [Idle EXCEPT !.at = command, !.asset = a]
    OBVIOUS
  <1>2. job.at = command /\ job.asset = a /\ job.plan = {}
    BY <1>1 DEF Idle
  <1>3. a # 0
    BY AssetIs DEF IInv
  <1>4. JobOK(job)
    BY <1>2 DEF JobOK
  <1>5. AssetsOf(job) = {a} /\ assets[a].status # "disposed"
    BY <1>2, <1>3 DEF AssetsOf, ReadStatus
  <1>6. Start(w, job) /\ UNCHANGED <<schemes, assets, runs, entries, inactive>>
    BY <1>1 DEF ReadStatus
  <1>7. QED
    BY <1>2, <1>4, <1>5, <1>6, StartIInv

\* The status is written over what the asset has become: one that nobody else
\* worked on is not disposed, and of the others nothing is asked.
LEMMA WriteStatusIInv ==
  ASSUME IInv, NEW w \in Workers, WriteStatus(w)
  PROVE  IInv'
  <1>1. PICK a, to : a = work[w].asset /\ to = (IF At(w, "pause") THEN "paused" ELSE "active")
    OBVIOUS
  <1>2. /\ work[w].at \in {"pause", "resume"} /\ to \in {"active", "paused"}
        /\ assets' = [assets EXCEPT ![a].status = to]
        /\ work' = [work EXCEPT ![w] = Idle] /\ UNCHANGED <<schemes, runs, entries, inactive, troubled>>
    BY <1>1 DEF WriteStatus, At, Finish
  <1>3. RegisterOK /\ (\A v \in Workers : JobOK(work[v]))
    BY DEF IInv, JobsOK
  <1>4. a \in AssetIds /\ a \in AssetsOf(work[w])
    <2>1. JobOK(work[w])
      BY <1>3
    <2>2. a \in AssetIds
      BY <1>1, <1>2, <2>1, JobIs
    <2>3. QED
      BY <1>1, <1>3, <2>2, AssetIs DEF AssetsOf
  <1>5. assets \in Seq(AssetRow) /\ assets[a] \in AssetRow
    BY <1>3, <1>4, AssetIs DEF RegisterOK
  <1>6. PICK row : row = [assets[a] EXCEPT !.status = to]
    OBVIOUS
  <1>7. /\ row \in AssetRow /\ row.status = to
        /\ row.q = assets[a].q /\ row.disposed = assets[a].disposed /\ row.disposalEntry = assets[a].disposalEntry
    BY <1>2, <1>5, <1>6 DEF AssetRow
  <1>8. assets' = [assets EXCEPT ![a] = row]
    BY <1>2, <1>4, <1>5, <1>6 DEF AssetIds
  <1>9. assets' \in Seq(AssetRow) /\ AssetIds' = AssetIds /\ assets'[a] = row /\ \A b \in AssetIds : b # a => assets'[b] = assets[b]
    BY <1>4, <1>5, <1>7, <1>8 DEF AssetIds
  <1>10. \A b \in AssetIds : /\ assets'[b].q = assets[b].q
                             /\ assets'[b].status = "fully_depreciated" => assets[b].status = "fully_depreciated"
                             /\ assets'[b].disposed = assets[b].disposed
                             /\ assets'[b].disposalEntry = assets[b].disposalEntry
    BY <1>2, <1>7, <1>9
  <1>11. \A b \in AssetIds \ troubled : (assets'[b].status = "disposed") = (assets[b].status = "disposed")
    <2>1. a \notin troubled => assets[a].status # "disposed"
      BY <1>4 DEF IInv, UndisturbedOK, Alone
    <2>2. assets'[a].status # "disposed"
      BY <1>2, <1>7, <1>9
    <2>3. QED
      BY <1>9, <2>1, <2>2
  <1>12. KeepsRequests
    BY <1>9, <1>10 DEF KeepsRequests
  <1>13. work' = [v \in Workers |-> work'[v]] /\ work'[w] = Idle /\ \A v \in Workers \ {w} : work'[v] = work[v]
    BY <1>2 DEF IInv, JobsOK
  <1>14. Idle.plan = {} /\ Idle.at = "idle" /\ Idle.asset = 0 /\ AssetsOf(Idle) = {}
    BY DEF Idle, AssetsOf
  <1>15. \A r \in runs : OfSchedule(r) /\ r.asset \in AssetIds /\ r.entry \in Ids
    BY DEF IInv, RunsOK, OfSchedule
  <1>16. Ids' = Ids
    BY <1>2 DEF Ids
  <1>17. RegisterOK'
    <2>1. \A b \in AssetIds :
            /\ Admissible(assets[b].q) /\ assets[b].q.scheme \in schemes
            /\ IF assets[b].status = "disposed" THEN assets[b].disposalEntry \in Ids ELSE assets[b].disposalEntry = 0 \/ b \in troubled
      BY <1>3 DEF RegisterOK
    <2>2. ASSUME NEW b \in AssetIds
          PROVE  IF assets'[b].status = "disposed" THEN assets'[b].disposalEntry \in Ids' ELSE assets'[b].disposalEntry = 0 \/ b \in troubled
      <3>1. CASE b = a
        <4>1. assets'[a].status # "disposed" /\ assets'[a].disposalEntry = assets[a].disposalEntry
          BY <1>2, <1>7, <1>9
        <4>2. a \notin troubled => assets[a].status # "disposed"
          BY <1>4 DEF IInv, UndisturbedOK, Alone
        <4>3. QED
          BY <1>4, <2>1, <3>1, <4>1, <4>2
      <3>2. CASE b # a
        BY <1>9, <1>16, <2>1, <3>2
      <3>3. QED
        BY <3>1, <3>2
    <2>3. \A b \in AssetIds : Admissible(assets'[b].q) /\ assets'[b].q.scheme \in schemes
      BY <1>10, <2>1
    <2>4. QED
      BY <1>2, <1>3, <1>9, <1>16, <2>2, <2>3 DEF RegisterOK
  <1>18. RunsOK'
    <2>1. \A r \in runs : OfSchedule(r)'
      BY <1>12, <1>15, OfScheduleKept
    <2>2. QED
      BY <1>2, <1>16, <2>1 DEF IInv, RunsOK
  <1>19. JobsOK'
    <2>1. \A v \in Workers : JobOK(work'[v])
      BY <1>3, <1>13 DEF JobOK
    <2>2. PICK jobs : jobs = work'
      OBVIOUS
    <2>3. \A v \in Workers : JobOK(jobs[v])'
      BY <1>12, <2>1, <2>2, JobKept
    <2>4. \A v \in Workers : JobOK(work[v])'
      BY <2>2, <2>3 DEF JobOK, PlanOK, OfSchedule
    <2>5. QED
      BY <1>13, <2>4 DEF JobsOK
  <1>20. UnbrokenOK'
    BY <1>2, <1>10, <1>15 DEF IInv, UnbrokenOK, BookedAt
  <1>21. \A v \in Workers : \A d \in work'[v].plan : v # w /\ d \in work[v].plan /\ d.asset \in AssetIds
    BY <1>3, <1>13, <1>14, JobIs
  <1>22. PlansOK'
    <2>1. ASSUME NEW v \in Workers, NEW d \in work'[v].plan, NEW m \in Full(assets'[d.asset].q), m.period <= d.period
          PROVE  BookedAt(d.asset, m.period) \/ \E e \in work'[v].plan : e.asset = d.asset /\ e.period = m.period
      BY <1>10, <1>13, <1>21, <2>1, SMTT(30) DEF IInv, PlansOK
    <2>2. QED
      BY <1>2, <2>1 DEF PlansOK, BookedAt
  <1>23. \A b : Booked(b)' = Booked(b) /\ EntriesOf(b)' = EntriesOf(b)
    BY <1>2, <1>16 DEF Booked, EntriesOf
  <1>24. WholeOK'
    <2>1. \A b \in AssetIds : assets'[b].status = "fully_depreciated" /\ Booked(b)' # {}
                                => \A m \in Full(assets'[b].q) : BookedAt(b, m.period)'
      BY <1>2, <1>10, <1>23 DEF IInv, WholeOK, BookedAt
    <2>2. \A v \in Workers : \A d \in work'[v].plan : assets'[d.asset].status = "fully_depreciated" => Booked(d.asset)' # {}
      BY <1>10, <1>21, <1>23 DEF IInv, WholeOK
    <2>3. QED
      BY <1>9, <2>1, <2>2 DEF WholeOK, Booked
  <1>25. JournalOK'
    BY <1>2, <1>10, <1>15 DEF IInv, JournalOK, DepreciationPostings, Entry
  <1>26. UndisturbedOK'
    <2>1. ASSUME NEW b \in AssetIds \ troubled
          PROVE  Alone(b)' /\ ReadOK(b)' /\ BooksOK(b)'
      <3>1. Alone(b) /\ ReadOK(b) /\ BooksOK(b)
        BY DEF IInv, UndisturbedOK
      <3>2. (assets'[b].status = "disposed") = (assets[b].status = "disposed")
        BY <1>11
      <3>3. Alone(b)'
        BY <1>13, <1>14, <3>1, <3>2 DEF Alone
      <3>4. ReadOK(b)'
        <4>1. \A v \in Workers : work'[v].at = "dispose" => v # w /\ work'[v] = work[v]
          BY <1>13, <1>14
        <4>2. ASSUME NEW v \in Workers, work'[v].at = "dispose", work'[v].asset = b
              PROVE  \E p \in Proceeds : work'[v].postings = DisposalPostings(b, work[v].date, p)'
          <5>1. PICK date : date = work[v].date /\ work'[v] = work[v]
            BY <4>1, <4>2
          <5>2. PICK p \in Proceeds : work[v].postings = DisposalPostings(b, date, p)
            BY <3>1, <4>2, <5>1 DEF ReadOK
          <5>3. DisposalPostings(b, date, p)' = DisposalPostings(b, date, p)
            BY <1>12, <1>23, DisposalKept
          <5>4. TakenOff(b, work[v].date)' = TakenOff(b, date)'
            BY <5>1 DEF TakenOff
          <5>5. DisposalPostings(b, work[v].date, p)' = DisposalPostings(b, date, p)'
            BY <5>4 DEF DisposalPostings
          <5>6. QED
            BY <5>1, <5>2, <5>3, <5>5
        <4>3. QED
          BY <4>2 DEF ReadOK
      <3>5. \A e \in Ids : entries'[e] = entries[e]
        BY <1>2
      <3>6. BooksOK(b)'
        BY <1>3, <1>10, <1>12, <1>23, <3>1, <3>2, <3>5, BooksKept
      <3>7. QED
        BY <3>3, <3>4, <3>6
    <2>2. QED
      BY <1>2, <1>9, <2>1 DEF UndisturbedOK
  <1>27. QED
    BY <1>17, <1>18, <1>19, <1>20, <1>22, <1>24, <1>25, <1>26 DEF IInv


(* Every step keeps the invariant: one case for every action. *)

LEMMA NextIInv ==
  ASSUME IInv, [Next]_vars
  PROVE  IInv'
<1>1. schemes \subseteq SchemeNames /\ inactive \subseteq Closable
  BY DEF IInv, RegisterOK
<1>2. CASE \E w \in Workers : Step(w)
  <2>1. PICK w \in Workers : Step(w)
    BY <1>2
  <2>2. CASE \E target \in Targets : RunDue(w, target)
    BY <2>2, RunDueIInv
  <2>3. CASE \E a \in AssetIds : \E date \in DisposalDates : \E proceeds \in Proceeds : DisposeAsset(w, a, date, proceeds)
    BY <2>3, DisposeIInv
  <2>4. CASE BookRuns(w)
    BY <2>4, BookRunsIInv
  <2>5. CASE BookDisposal(w)
    BY <2>5, BookDisposalIInv
  <2>6. CASE Abandon(w)
    BY <2>6, AbandonIInv
  <2>7. CASE \E a \in AssetIds \cap Pausable : PauseAsset(w, a) \/ ResumeAsset(w, a)
    <3>1. PICK a \in AssetIds : PauseAsset(w, a) \/ ResumeAsset(w, a)
      BY <2>7
    <3>2. CASE PauseAsset(w, a)
      BY <3>2, ReadStatusIInv DEF PauseAsset
    <3>3. CASE ResumeAsset(w, a)
      BY <3>3, ReadStatusIInv DEF ResumeAsset
    <3>4. QED
      BY <3>1, <3>2, <3>3
  <2>8. CASE WriteStatus(w)
    BY <2>8, WriteStatusIInv
  <2>9. QED
    BY <2>1, <2>2, <2>3, <2>4, <2>5, <2>6, <2>7, <2>8 DEF Step
<1>3. CASE \E s \in SchemeNames : CreateScheme(s)
  BY <1>1, <1>3, FrameIInv DEF CreateScheme
<1>4. CASE \E q \in Requests : AddAsset(q)
  BY <1>4, AddAssetIInv
<1>5. CASE \E q \in Requests : RefuseAsset(q)
  BY <1>1, <1>5, FrameIInv, AssetsAssumption DEF RefuseAsset
<1>6. CASE \E code \in Closable : DeactivateAccount(code)
  BY <1>1, <1>6, FrameIInv DEF DeactivateAccount
<1>7. CASE \E code \in Closable : ReactivateAccount(code)
  BY <1>1, <1>7, FrameIInv DEF ReactivateAccount
<1>8. CASE UNCHANGED vars
  BY <1>1, <1>8, FrameIInv DEF vars
<1>9. QED
  BY <1>2, <1>3, <1>4, <1>5, <1>6, <1>7, <1>8 DEF Next

LEMMA SpecIInv == Spec => []IInv
<1>1. Init => IInv
  BY InitIInv
<1>2. IInv /\ [Next]_vars => IInv'
  BY NextIInv
<1>3. QED
  BY <1>1, <1>2, PTL DEF Spec

LEMMA IInvTypeOK ==
  ASSUME IInv
  PROVE  TypeOK
<1>1. RegisterOK /\ RunsOK /\ JobsOK
  BY DEF IInv
<1>2. /\ schemes \subseteq SchemeNames /\ inactive \subseteq Closable /\ troubled \subseteq AssetIds
      /\ assets \in Seq(AssetRow) /\ entries \in Seq(EntryRow)
      /\ \A a \in AssetIds : assets[a].q.scheme \in schemes
  BY <1>1 DEF RegisterOK
<1>3. \A a \in AssetIds : assets[a].status = "disposed" => assets[a].disposalEntry \in Ids
  BY <1>1 DEF RegisterOK
<1>4. \A r \in runs : r.asset \in AssetIds /\ r.amount > 0 /\ r.entry \in Ids
  <2>1. ASSUME NEW r \in runs
        PROVE  r.asset \in AssetIds /\ r.amount > 0 /\ r.entry \in Ids
    <3>1. r.asset \in AssetIds /\ r.entry \in Ids /\ [period |-> r.period, amount |-> r.amount] \in Full(assets[r.asset].q)
      BY <1>1 DEF RunsOK, OfSchedule
    <3>2. Sound(assets[r.asset].q)
      BY <1>1, <3>1, AssetIs
    <3>3. r.amount \in Nat \ {0}
      BY <3>1, <3>2, RowsTyped
    <3>4. QED
      BY <3>1, <3>3
  <2>2. QED
    BY <2>1
<1>5. \A r, s \in runs : r.asset = s.asset /\ r.period = s.period => r = s
  BY <1>1 DEF RunsOK
<1>6. \A w \in Workers : work[w].at \in {"idle", "run", "dispose", "pause", "resume"} /\ AssetsOf(work[w]) \subseteq AssetIds
  BY <1>1, JobIs DEF JobsOK
<1>7. QED
  BY <1>2, <1>3, <1>4, <1>5, <1>6 DEF TypeOK, AssetRow

(***************************************************************************)
(* The register, the runs, the journal and the pending commands keep their *)
(* types: a disposed asset names the entry that disposes of it, which is   *)
(* in the journal, a run has a positive amount and one entry, and a        *)
(* month of an asset is booked once (src/assets.rs, UNIQUE(asset_id,       *)
(* period)).                                                               *)
(***************************************************************************)
THEOREM TypeCorrect == Spec => []TypeOK
<1>1. IInv => TypeOK
  BY IInvTypeOK
<1>2. QED
  BY SpecIInv, <1>1, PTL


----------------------------------------------------------------------------------
(* The runs of an asset against its schedule. *)

LEMMA MaxIs ==
  ASSUME NEW S \in SUBSET Nat, IsFiniteSet(S), S # {}
  PROVE  Max(S) \in S /\ \A x \in S : x <= Max(S)
<1> DEFINE Tops(s) == {x \in s : \A y \in s : y <= x}
           W == {s \in SUBSET S : s = {} \/ Tops(s) # {}}
<1>1. {} \in W
  OBVIOUS
<1>2. ASSUME NEW s \in SUBSET S, NEW x \in S \ s, s \in W
      PROVE  s \cup {x} \in W
  <2>1. CASE s = {}
    <3>1. x \in Tops(s \cup {x})
      BY <2>1
    <3>2. QED
      BY <3>1
  <2>2. CASE s # {}
    <3>1. PICK t \in s : \A y \in s : y <= t
      BY <1>2, <2>2
    <3>2. t \in Nat /\ x \in Nat /\ \A y \in s : y \in Nat
      BY <3>1
    <3>3. CASE x >= t
      <4>1. x \in Tops(s \cup {x})
        BY <3>1, <3>2, <3>3
      <4>2. QED
        BY <4>1
    <3>4. CASE ~(x >= t)
      <4>1. t \in Tops(s \cup {x})
        BY <3>1, <3>2, <3>4
      <4>2. QED
        BY <4>1
    <3>5. QED
      BY <3>3, <3>4
  <2>3. QED
    BY <2>1, <2>2
<1>3. \A s \in SUBSET S : \A x \in S \ s : s \in W => s \cup {x} \in W
  BY <1>2
<1>4. S \in W
  <2> HIDE DEF W
  <2>1. QED
    BY <1>1, <1>3, Grown
<1>5. PICK t \in S : \A y \in S : y <= t
  BY <1>4
<1>6. \A y \in S : t >= y
  BY <1>5
<1>7. Max(S) \in S /\ \A y \in S : Max(S) >= y
  BY <1>6 DEF Max
<1>8. QED
  BY <1>7

LEMMA LastIs ==
  ASSUME RegisterOK, RunsOK, NEW a \in AssetIds
  PROVE  /\ LastPeriod(a) \in Nat
         /\ \A r \in Booked(a) : r.period \in Nat \ {0} /\ r.period <= LastPeriod(a)
         /\ Booked(a) # {} => \E r \in Booked(a) : r.period = LastPeriod(a)
         /\ Booked(a) = {} => LastPeriod(a) = 0
<1> DEFINE P == {r.period : r \in Booked(a)}
           f == [r \in Booked(a) |-> r.period]
<1>1. MonthsOf(Booked(a), assets[a].q) /\ Sound(assets[a].q)
  BY BookedIs, AssetIs
<1>2. IsFiniteSet(Booked(a)) /\ \A r \in Booked(a) : [period |-> r.period, amount |-> r.amount] \in Full(assets[a].q)
  BY <1>1 DEF MonthsOf
<1>3. \A r \in Booked(a) : r.period \in Nat \ {0}
  BY <1>1, <1>2, RowsTyped
<1>4. IsFiniteSet(P)
  <2>1. IsFiniteSet({f[r] : r \in Booked(a)})
    BY <1>2, FiniteImage
  <2>2. {f[r] : r \in Booked(a)} = P
    OBVIOUS
  <2>3. QED
    BY <2>1, <2>2
<1>5. IsFiniteSet({0} \cup P)
  BY <1>4, FS_Singleton, FS_Union
<1>6. {0} \cup P \in SUBSET Nat /\ {0} \cup P # {}
  BY <1>3
<1>7. LastPeriod(a) \in {0} \cup P /\ \A x \in {0} \cup P : x <= LastPeriod(a)
  <2>1. LastPeriod(a) = Max({0} \cup P)
    BY DEF LastPeriod
  <2> HIDE DEF P
  <2>2. QED
    BY <1>5, <1>6, <2>1, MaxIs
<1>8. \A r \in Booked(a) : r.period <= LastPeriod(a)
  BY <1>7
<1>9. LastPeriod(a) \in Nat
  BY <1>3, <1>7
<1>10. QED
  <2>1. ASSUME Booked(a) # {}
        PROVE  \E r \in Booked(a) : r.period = LastPeriod(a)
    <3>1. PICK r \in Booked(a) : TRUE
      BY <2>1
    <3>2. r.period \in Nat /\ r.period > 0 /\ r.period <= LastPeriod(a)
      BY <1>3, <1>8
    <3>3. LastPeriod(a) # 0
      BY <1>9, <3>2
    <3>4. QED
      BY <1>7, <3>3
  <2>2. QED
    BY <1>3, <1>7, <1>8, <1>9, <2>1

(* The runs of an asset are the months of its schedule up to the last one. *)
LEMMA RunsAre ==
  ASSUME RegisterOK, RunsOK, UnbrokenOK, NEW a \in AssetIds
  PROVE  Rows(Booked(a)) = {m \in Full(assets[a].q) : m.period <= LastPeriod(a)}
<1>1. Sound(assets[a].q) /\ MonthsOf(Booked(a), assets[a].q)
  BY AssetIs, BookedIs
<1>2. \A m \in Full(assets[a].q) : m.period \in Nat /\ m.period >= FirstPeriod(assets[a].q)
  BY <1>1, FullRows
<1>3. \A r \in Booked(a) : [period |-> r.period, amount |-> r.amount] \in Full(assets[a].q) /\ r.period <= LastPeriod(a)
  BY <1>1, LastIs DEF MonthsOf
<1>4. ASSUME NEW m \in Full(assets[a].q), m.period <= LastPeriod(a)
      PROVE  m \in Rows(Booked(a))
  <2>1. FirstPeriod(assets[a].q) \in Nat \ {0}
    BY <1>1 DEF Sound
  <2>2. Booked(a) # {}
    <3>1. m.period > 0 /\ m.period \in Nat
      BY <1>2, <2>1
    <3>2. LastPeriod(a) # 0
      BY <1>4, <3>1
    <3>3. QED
      BY <3>2, LastIs
  <2>3. PICK r \in Booked(a) : r.period = LastPeriod(a)
    BY <2>2, LastIs
  <2>4. r \in runs /\ r.asset = a
    BY DEF Booked
  <2>5. BookedAt(a, m.period)
    BY <1>4, <2>3, <2>4 DEF UnbrokenOK
  <2>6. PICK s \in Booked(a) : s.period = m.period
    BY <2>5 DEF BookedAt, Booked
  <2>7. [period |-> s.period, amount |-> s.amount] = m
    <3>1. [period |-> s.period, amount |-> s.amount] \in Full(assets[a].q)
      BY <1>3
    <3>2. [period |-> s.period, amount |-> s.amount].period = m.period
      BY <2>6
    <3>3. QED
      BY <1>1, <3>1, <3>2, FullRows
  <2>8. QED
    BY <2>7 DEF Rows
<1>5. Rows(Booked(a)) \subseteq {m \in Full(assets[a].q) : m.period <= LastPeriod(a)}
  BY <1>3 DEF Rows
<1>6. QED
  BY <1>4, <1>5

(* An asset with every month booked has taken off all there was. *)
LEMMA AllBooked ==
  ASSUME RegisterOK, RunsOK, NEW a \in AssetIds, \A m \in Full(assets[a].q) : BookedAt(a, m.period)
  PROVE  Rows(Booked(a)) = Full(assets[a].q) /\ Amounts(Booked(a)) = Depreciable(assets[a].q)
<1>1. Sound(assets[a].q) /\ MonthsOf(Booked(a), assets[a].q)
  BY AssetIs, BookedIs
<1>2. \A r \in Booked(a) : [period |-> r.period, amount |-> r.amount] \in Full(assets[a].q)
  BY <1>1 DEF MonthsOf
<1>3. ASSUME NEW m \in Full(assets[a].q)
      PROVE  m \in Rows(Booked(a))
  <2>1. PICK s \in Booked(a) : s.period = m.period
    BY <1>3 DEF BookedAt, Booked
  <2>2. [period |-> s.period, amount |-> s.amount] \in Full(assets[a].q)
    BY <1>2
  <2>3. [period |-> s.period, amount |-> s.amount].period = m.period
    BY <2>1
  <2>4. [period |-> s.period, amount |-> s.amount] = m
    BY <1>1, <2>2, <2>3, FullRows
  <2>5. QED
    BY <2>4 DEF Rows
<1>4. Rows(Booked(a)) = Full(assets[a].q)
  BY <1>2, <1>3 DEF Rows
<1>5. QED
  BY <1>1, <1>4, RowsAdd

LEMMA DepAtLast ==
  ASSUME RegisterOK, RunsOK, NEW a \in AssetIds
  PROVE  DepToPeriod(a, LastPeriod(a)) = Amounts(Booked(a))
<1>1. {r \in Booked(a) : r.period <= LastPeriod(a)} = Booked(a)
  BY LastIs
<1>2. QED
  BY <1>1 DEF DepToPeriod

LEMMA BookValueIs ==
  ASSUME RegisterOK, RunsOK, NEW a \in AssetIds, NEW p
  PROVE  /\ assets[a].q.price \in Nat /\ assets[a].q.recognised \in Nat /\ Residual(assets[a].q) \in Nat
         /\ Depreciable(assets[a].q) \in Nat /\ DepToPeriod(a, p) \in Nat
         /\ Depreciable(assets[a].q) = assets[a].q.price - Residual(assets[a].q) - assets[a].q.recognised
         /\ BookValue(a, p) = assets[a].q.price - (assets[a].q.recognised + DepToPeriod(a, p))
         /\ Remaining(a, p) = Depreciable(assets[a].q) - DepToPeriod(a, p)
<1>1. PICK price \in Nat, recognised \in Nat, residual \in Nat, left \in Nat :
        /\ price = assets[a].q.price /\ recognised = assets[a].q.recognised
        /\ residual = Residual(assets[a].q) /\ left = Depreciable(assets[a].q)
  BY AssetIs DEF Sound
<1>2. PICK dep \in Nat : dep = DepToPeriod(a, p) /\ dep <= left
  BY <1>1, DepIs
<1>3. left = price - residual - recognised
  BY <1>1 DEF Depreciable
<1>4. BookValue(a, p) = Max({0, price - (recognised + dep)})
  BY <1>1, <1>2 DEF BookValue, TotalDep
<1>5. Remaining(a, p) = Max({0, price - residual - (recognised + dep)})
  BY <1>1, <1>2 DEF Remaining, TotalDep
<1>6. price - (recognised + dep) \in Int /\ price - residual - (recognised + dep) \in Int
  BY <1>1, <1>2
<1>7. BookValue(a, p) = price - (recognised + dep)
  <2>1. price - (recognised + dep) >= 0
    BY <1>1, <1>2, <1>3
  <2>2. Max({0, price - (recognised + dep)}) = IF 0 >= price - (recognised + dep) THEN 0 ELSE price - (recognised + dep)
    BY <1>6, MaxTwo
  <2>3. QED
    BY <1>4, <1>6, <2>1, <2>2
<1>8. Remaining(a, p) = left - dep
  <2>1. price - residual - (recognised + dep) = left - dep /\ left - dep >= 0 /\ left - dep \in Int
    BY <1>1, <1>2, <1>3
  <2>2. Max({0, left - dep}) = IF 0 >= left - dep THEN 0 ELSE left - dep
    BY <2>1, MaxTwo
  <2>3. QED
    BY <1>5, <2>1, <2>2
<1>9. QED
  BY <1>1, <1>2, <1>3, <1>7, <1>8

(* The whole schedule lies before the month after its last. *)
LEMMA ScheduleFull ==
  ASSUME NEW q, Sound(q), NEW asOf \in Nat, asOf >= FirstPeriod(q) + MonthsLeft(q)
  PROVE  Schedule(q, asOf) = Full(q)
<1>1. FirstPeriod(q) \in Nat /\ MonthsLeft(q) \in Nat
  BY DEF Sound
<1>2. \A m \in Full(q) : m.period <= asOf
  <2>1. ASSUME NEW m \in Full(q)
        PROVE  m.period <= asOf
    <3>1. m.period \in Nat /\ m.period < FirstPeriod(q) + MonthsLeft(q)
      BY FullRows
    <3>2. QED
      BY <1>1, <3>1
  <2>2. QED
    BY <2>1
<1>3. QED
  BY <1>2, ScheduleIs

(* When the register names no next month, every month has a run. *)
LEMMA NoNextRun ==
  ASSUME RegisterOK, NEW a \in AssetIds, NEW asOf, NextRun(a, asOf) = {},
         NEW m \in Schedule(assets[a].q, asOf + 1)
  PROVE  BookedAt(a, m.period)
<1> DEFINE unbooked == {n.period : n \in Schedule(assets[a].q, asOf + 1)} \ {r.period : r \in Booked(a)}
<1>1. Sound(assets[a].q)
  BY AssetIs
<1>2. unbooked \in SUBSET Nat
  BY <1>1, ScheduleIs, FullRows
<1>3. NextRun(a, asOf) = {p \in unbooked : \A o \in unbooked : p <= o}
  BY DEF NextRun
<1>4. unbooked = {}
  <2> HIDE DEF unbooked
  <2>1. QED
    BY <1>2, <1>3, LeastNumber
<1>5. QED
  BY <1>4 DEF BookedAt, Booked

LEMMA IInvRunsFollowSchedule ==
  ASSUME IInv
  PROVE  RunsFollowSchedule
<1>1. RegisterOK /\ RunsOK /\ UnbrokenOK /\ WholeOK
  BY DEF IInv
<1>2. ASSUME NEW a \in AssetIds, NEW q, q = assets[a].q, NEW last, last = LastPeriod(a)
      PROVE  /\ {[period |-> r.period, amount |-> r.amount] : r \in Booked(a)} = Schedule(q, last)
             /\ Booked(a) # {} /\ assets[a].status = "fully_depreciated" => BookValue(a, last) = Residual(q)
             /\ NextRun(a, FirstPeriod(q) + MonthsLeft(q)) = {} /\ Booked(a) # {}
                  => Amounts(Booked(a)) = Depreciable(q)
  <2>1. Sound(q)
    BY <1>1, <1>2, AssetIs
  <2>2. Rows(Booked(a)) = Schedule(q, last)
    BY <1>1, <1>2, <2>1, RunsAre, ScheduleIs
  <2>3. ASSUME Booked(a) # {}, assets[a].status = "fully_depreciated"
        PROVE  BookValue(a, last) = Residual(q)
    <3>1. \A m \in Full(q) : BookedAt(a, m.period)
      BY <1>1, <1>2, <2>3 DEF WholeOK
    <3>2. DepToPeriod(a, last) = Depreciable(q)
      BY <1>1, <1>2, <3>1, AllBooked, DepAtLast
    <3>3. /\ q.price \in Nat /\ q.recognised \in Nat /\ Residual(q) \in Nat /\ Depreciable(q) \in Nat
          /\ Depreciable(q) = q.price - Residual(q) - q.recognised
          /\ BookValue(a, last) = q.price - (q.recognised + DepToPeriod(a, last))
      BY <1>1, <1>2, BookValueIs
    <3>4. QED
      BY <3>2, <3>3
  <2>4. ASSUME NextRun(a, FirstPeriod(q) + MonthsLeft(q)) = {}, Booked(a) # {}
        PROVE  Amounts(Booked(a)) = Depreciable(q)
    <3>1. FirstPeriod(q) \in Nat /\ MonthsLeft(q) \in Nat
      BY <2>1 DEF Sound
    <3>2. FirstPeriod(q) + MonthsLeft(q) + 1 \in Nat
          /\ FirstPeriod(q) + MonthsLeft(q) + 1 >= FirstPeriod(q) + MonthsLeft(q)
      BY <3>1
    <3>3. Schedule(q, FirstPeriod(q) + MonthsLeft(q) + 1) = Full(q)
      BY <2>1, <3>2, ScheduleFull
    <3>4. \A m \in Full(q) : BookedAt(a, m.period)
      BY <1>1, <1>2, <2>4, <3>3, NoNextRun
    <3>5. QED
      BY <1>1, <1>2, <3>4, AllBooked
  <2>5. QED
    BY <2>2, <2>3, <2>4 DEF Rows
<1>3. QED
  BY <1>2 DEF RunsFollowSchedule

(***************************************************************************)
(* Whatever is paused, resumed, deactivated, run late, twice or by several *)
(* processes at once, for any number of assets, schemes, methods, lives    *)
(* and amounts: the runs of an asset are an unbroken beginning of its      *)
(* schedule, a complete asset stands at its residual, and an asset with no *)
(* month left has depreciated exactly what there was (run_due,             *)
(* schedule_depreciation, src/assets.rs).                                  *)
(***************************************************************************)
THEOREM RunsAreTheSchedule == Spec => []RunsFollowSchedule
<1>1. IInv => RunsFollowSchedule
  BY IInvRunsFollowSchedule
<1>2. QED
  BY SpecIInv, <1>1, PTL


----------------------------------------------------------------------------------
(* What the runs of an asset put on its accounts. *)

LEMMA SumNegated ==
  ASSUME NEW S, IsFiniteSet(S), NEW f \in [S -> Int], NEW h \in [S -> Int], \A x \in S : h[x] = -f[x]
  PROVE  SumOf(h) = -SumOf(f)
<1> DEFINE W == {s \in SUBSET S : Part(h, s) = -Part(f, s)}
<1>1. {} \in W
  BY PartEmpty
<1>2. ASSUME NEW s \in SUBSET S, NEW x \in S \ s, s \in W
      PROVE  s \cup {x} \in W
  <2>1. PICK m \in Int, n \in Int : m = Part(f, s) /\ n = Part(h, s)
    BY PartIs
  <2>2. PICK v \in Int : v = f[x]
    OBVIOUS
  <2>3. h[x] = -v
    BY <2>2
  <2>4. Part(f, s \cup {x}) = v + m
    BY <2>1, <2>2, PartMore
  <2>5. Part(h, s \cup {x}) = -v + n
    BY <2>1, <2>3, PartMore
  <2>6. n = -m
    BY <1>2, <2>1
  <2>7. -v + n = -(v + m)
    BY <2>6
  <2>8. QED
    BY <2>4, <2>5, <2>7
<1>3. \A s \in SUBSET S : \A x \in S \ s : s \in W => s \cup {x} \in W
  BY <1>2
<1>4. S \in W
  <2> HIDE DEF W
  <2>1. QED
    BY <1>1, <1>3, Grown
<1>5. QED
  BY <1>4, PartAll

\* What every entry of S puts on the accounts in A.
PutOn(S, A) == [e \in S |-> ListOn(entries[e].postings, A)]

LEMMA OnAccountsIs ==
  ASSUME RegisterOK, NEW S \in SUBSET Ids, IsFiniteSet(S), NEW A
  PROVE  /\ OnAccounts(S, A) = SumOf(PutOn(S, A))
         /\ PutOn(S, A) \in [S -> Int]
<1>1. OnAccounts(S, A) = SumOf(PutOn(S, A))
  BY DEF OnAccounts, PutOn, ListOn, OnOf, On
<1>2. \A e \in S : entries[e].postings \in Seq(Posting)
  <2>1. \A e \in Ids : entries[e] \in EntryRow
    BY DEF RegisterOK, Ids
  <2>2. QED
    BY <2>1 DEF EntryRow
<1>3. \A e \in S : ListOn(entries[e].postings, A) \in Int
  BY <1>2, OnTyped
<1>4. QED
  BY <1>1, <1>3 DEF PutOn

LEMMA RunsOn ==
  ASSUME RegisterOK, RunsOK, JournalOK, NEW a \in AssetIds, NEW T \in SUBSET Booked(a)
  PROVE  /\ IsFiniteSet({r.entry : r \in T}) /\ {r.entry : r \in T} \subseteq Ids
         /\ OnAccounts({r.entry : r \in T}, {assets[a].q.asset, CumAccount(assets[a].q)}) = -Amounts(T)
<1> DEFINE A == {assets[a].q.asset, CumAccount(assets[a].q)}
           g == [r \in T |-> r.entry]
           E == {r.entry : r \in T}
           h == [r \in T |-> PutOn(E, A)[r.entry]]
<1>1. IsFiniteSet(T) /\ \A r \in T : r \in runs /\ r.asset = a
  BY BookedIs DEF MonthsOf, Booked
<1>2. \A r \in T : r.amount \in Int
  <2>1. Sound(assets[a].q) /\ MonthsOf(T, assets[a].q)
    BY AssetIs, BookedIs
  <2>2. \A r \in T : [period |-> r.period, amount |-> r.amount] \in Full(assets[a].q)
    BY <2>1 DEF MonthsOf
  <2>3. ASSUME NEW r \in T
        PROVE  r.amount \in Int
    <3>1. r.amount \in Nat \ {0}
      BY <2>1, <2>2, RowsTyped
    <3>2. QED
      BY <3>1
  <2>4. QED
    BY <2>3
<1>3. IsFiniteSet(E)
  <2>1. IsFiniteSet({g[r] : r \in T})
    BY <1>1, FiniteImage
  <2>2. {g[r] : r \in T} = E
    OBVIOUS
  <2>3. QED
    BY <2>1, <2>2
<1>4. E \subseteq Ids
  BY <1>1 DEF RunsOK
<1>5. OnAccounts(E, A) = SumOf(PutOn(E, A)) /\ PutOn(E, A) \in [E -> Int]
  <2> HIDE DEF E, A
  <2>1. QED
    BY <1>3, <1>4, OnAccountsIs
<1>6. \A r \in T : h[r] = -AmountsOf(T)[r]
  <2>1. ASSUME NEW r \in T
        PROVE  h[r] = -AmountsOf(T)[r]
    <3>1. entries[r.entry] = Entry(DepreciationPostings(r), r.asset) /\ OfSchedule(r)
      BY <1>1 DEF JournalOK, RunsOK
    <3>2. entries[r.entry].postings = DepreciationPostings(r)
      BY <3>1 DEF Entry
    <3>3. ListOn(DepreciationPostings(r), A) = -r.amount
      BY <1>1, <3>1, DepreciationIs
    <3>4. h[r] = ListOn(entries[r.entry].postings, A)
      BY DEF PutOn
    <3>5. AmountsOf(T)[r] = r.amount
      BY DEF AmountsOf
    <3>6. QED
      BY <3>2, <3>3, <3>4, <3>5
  <2>2. QED
    BY <2>1
<1>7. SumOf(h) = SumOf(PutOn(E, A))
  <2>1. h \in [T -> Int]
    BY <1>5
  <2>2. g \in [T -> E]
    OBVIOUS
  <2>3. \A x \in T : h[x] = PutOn(E, A)[g[x]]
    OBVIOUS
  <2>4. \A x, y \in T : g[x] = g[y] => x = y
    BY <1>1 DEF JournalOK
  <2>5. \A t \in E : \E x \in T : g[x] = t
    OBVIOUS
  <2> HIDE DEF g, h, E, A
  <2>6. QED
    <3>1. Renames(g, h, PutOn(E, A), T, E)
      BY <1>1, <1>3, <1>5, <2>1, <2>2, <2>3, <2>4, <2>5 DEF Renames
    <3>2. QED
      BY <3>1, SumRenamed
<1>8. SumOf(h) = -SumOf(AmountsOf(T))
  <2>1. AmountsOf(T) \in [T -> Int]
    BY <1>1, <1>2, AmountsAre
  <2>2. h \in [T -> Int]
    BY <1>5
  <2> HIDE DEF h
  <2>3. QED
    BY <1>1, <1>6, <2>1, <2>2, SumNegated
<1>9. Amounts(T) = SumOf(AmountsOf(T))
  BY <1>1, <1>2, AmountsAre
<1>10. QED
  BY <1>3, <1>4, <1>5, <1>7, <1>8, <1>9

\* The entries of the runs of an asset up to a month.
EntriesUpTo(a, asOf) == {r.entry : r \in {s \in Booked(a) : s.period <= asOf}}

LEMMA IInvRegisterMatchesLedger ==
  ASSUME IInv
  PROVE  RegisterMatchesLedger
<1>1. RegisterOK /\ RunsOK /\ JournalOK
  BY DEF IInv
<1>2. ASSUME NEW asOf \in Targets, NEW a \in AssetIds, NEW q, q = assets[a].q,
             NEW ofAsset, ofAsset = EntriesUpTo(a, asOf)
      PROVE  /\ BookValue(a, asOf) = q.price - q.recognised + OnAccounts(ofAsset, {q.asset, CumAccount(q)})
             /\ assets[a].status = "active" =>
                  \A p \in NextRun(a, asOf) : \E d \in Plan(asOf + 1) : d.asset = a /\ d.period = p
             /\ Remaining(a, asOf) = 0 => NextRun(a, asOf) = {}
  <2> DEFINE T == {s \in Booked(a) : s.period <= asOf}
             unbooked == {m.period : m \in Schedule(q, asOf + 1)} \ {r.period : r \in Booked(a)}
  <2>1. OnAccounts(ofAsset, {q.asset, CumAccount(q)}) = -Amounts(T)
    BY <1>1, <1>2, RunsOn DEF EntriesUpTo
  <2>2. Amounts(T) = DepToPeriod(a, asOf)
    BY DEF DepToPeriod
  <2>3. BookValue(a, asOf) = q.price - q.recognised + OnAccounts(ofAsset, {q.asset, CumAccount(q)})
    <3>1. PICK price \in Nat, recognised \in Nat, dep \in Nat :
            /\ price = q.price /\ recognised = q.recognised /\ dep = DepToPeriod(a, asOf)
            /\ BookValue(a, asOf) = price - (recognised + dep)
      BY <1>1, <1>2, BookValueIs
    <3>2. price - (recognised + dep) = price - recognised + (-dep)
      BY <3>1
    <3>3. QED
      BY <2>1, <2>2, <3>1, <3>2
  <2>4. Sound(q) /\ MonthsOf(T, q)
    BY <1>1, <1>2, AssetIs, BookedIs
  <2>5. NextRun(a, asOf) \subseteq unbooked
    BY <1>2 DEF NextRun
  <2>6. ASSUME assets[a].status = "active", NEW p \in NextRun(a, asOf)
        PROVE  \E d \in Plan(asOf + 1) : d.asset = a /\ d.period = p
    <3>1. PICK n \in Schedule(q, asOf + 1) : n.period = p /\ \A r \in Booked(a) : r.period # n.period
      BY <2>5, <2>6
    <3>2. n \in Full(q)
      BY <2>4, <3>1, ScheduleIs
    <3>3. Depreciable(q) > 0
      BY <2>4, <3>2, FullRows
    <3>4. PICK d : d = [asset |-> a, period |-> n.period, amount |-> n.amount]
      OBVIOUS
    <3>5. d \in Plan(asOf + 1)
      BY <1>2, <2>6, <3>1, <3>3, <3>4, PlanHas
    <3>6. QED
      BY <3>1, <3>4, <3>5
  <2>7. ASSUME Remaining(a, asOf) = 0
        PROVE  NextRun(a, asOf) = {}
    <3>1. Amounts(T) = Depreciable(q)
      <4>1. PICK left \in Nat, dep \in Nat : left = Depreciable(q) /\ dep = DepToPeriod(a, asOf) /\ Remaining(a, asOf) = left - dep
        BY <1>1, <1>2, BookValueIs
      <4>2. left = dep
        BY <2>7, <4>1
      <4>3. QED
        BY <2>2, <4>1, <4>2
    <3>2. Rows(T) = Full(q)
      BY <2>4, <3>1, RowsAdd
    <3>3. ASSUME NEW m \in Schedule(q, asOf + 1)
          PROVE  \E r \in Booked(a) : r.period = m.period
      <4>1. m \in Full(q)
        BY <2>4, ScheduleIs
      <4>2. PICK r \in T : m = [period |-> r.period, amount |-> r.amount]
        BY <3>2, <4>1 DEF Rows
      <4>3. QED
        BY <4>2
    <3>4. unbooked = {}
      BY <3>3
    <3>5. QED
      BY <2>5, <3>4
  <2>8. QED
    BY <2>3, <2>6, <2>7
<1>3. ASSUME NEW asOf \in Targets, NEW row \in Register(asOf)
      PROVE  LET q == assets[row.asset].q
                 ofAsset == {r.entry : r \in {s \in Booked(row.asset) : s.period <= asOf}}
             IN  /\ row.status # "disposed"
                      => row.book = q.price - q.recognised + OnAccounts(ofAsset, {q.asset, CumAccount(q)})
                 /\ row.status = "active" => \A p \in row.next : \E d \in Plan(asOf + 1) : d.asset = row.asset /\ d.period = p
                 /\ row.remaining = 0 => row.next = {}
  <2>1. PICK a \in AssetIds : row = [asset |-> a, status |-> assets[a].status, book |-> BookValue(a, asOf),
                                     remaining |-> Remaining(a, asOf), next |-> NextRun(a, asOf)]
    BY DEF Register
  <2>2. row.asset = a /\ row.status = assets[a].status /\ row.book = BookValue(a, asOf)
        /\ row.remaining = Remaining(a, asOf) /\ row.next = NextRun(a, asOf)
    BY <2>1
  <2>3. PICK q, ofAsset : q = assets[a].q /\ ofAsset = EntriesUpTo(a, asOf)
    OBVIOUS
  <2>4. /\ BookValue(a, asOf) = q.price - q.recognised + OnAccounts(ofAsset, {q.asset, CumAccount(q)})
        /\ assets[a].status = "active" =>
             \A p \in NextRun(a, asOf) : \E d \in Plan(asOf + 1) : d.asset = a /\ d.period = p
        /\ Remaining(a, asOf) = 0 => NextRun(a, asOf) = {}
    BY <1>2, <2>3
  <2>5. /\ row.status # "disposed" => row.book = q.price - q.recognised + OnAccounts(ofAsset, {q.asset, CumAccount(q)})
        /\ row.status = "active" => \A p \in row.next : \E d \in Plan(asOf + 1) : d.asset = row.asset /\ d.period = p
        /\ row.remaining = 0 => row.next = {}
    BY <2>2, <2>4
  <2>6. QED
    BY <2>2, <2>3, <2>5 DEF EntriesUpTo
<1>4. QED
  BY <1>3 DEF RegisterMatchesLedger

(***************************************************************************)
(* As of every month asked for, for any number of assets and processes:    *)
(* the register shows of an asset that is not disposed of its cost less    *)
(* what the postings of its runs hold against it, the month named next is  *)
(* one that a run up to then books, and with nothing remaining no month is *)
(* named (register and module_dep_to_period, src/assets.rs).               *)
(***************************************************************************)
THEOREM RegisterIsTheLedger == Spec => []RegisterMatchesLedger
<1>1. IInv => RegisterMatchesLedger
  BY IInvRegisterMatchesLedger
<1>2. QED
  BY SpecIInv, <1>1, PTL


----------------------------------------------------------------------------------
(* What a disposal leaves. *)

LEMMA IInvDisposalClears ==
  ASSUME IInv
  PROVE  DisposalClears
<1>1. RegisterOK /\ RunsOK /\ JournalOK /\ UndisturbedOK
  BY DEF IInv
<1>2. ASSUME NEW a \in AssetIds \ troubled, assets[a].status = "disposed"
      PROVE  /\ {assets[a].q.asset, CumAccount(assets[a].q)} \cap {"bank", "result"} = {} =>
                  OnAccounts(EntriesOf(a), {assets[a].q.asset, CumAccount(assets[a].q)})
                    = -(assets[a].q.price - assets[a].q.recognised)
                        - Amounts({r \in Booked(a) : r.period >= Month(assets[a].disposed)})
             /\ \A r \in Booked(a) : r.entry < assets[a].disposalEntry
  <2>1. BooksOK(a)
    BY <1>1 DEF UndisturbedOK
  <2>2. PICK A, E, d, date :
          /\ A = {assets[a].q.asset, CumAccount(assets[a].q)} /\ E = {r.entry : r \in Booked(a)}
          /\ d = assets[a].disposalEntry /\ date = assets[a].disposed
    OBVIOUS
  <2>3. EntriesOf(a) = E \cup {d} /\ \A r \in Booked(a) : r.entry < d
    BY <1>2, <2>1, <2>2 DEF BooksOK
  <2>4. PICK p \in Proceeds : entries[d] = Entry(DisposalPostings(a, date, p), a)
    BY <1>2, <2>1, <2>2 DEF BooksOK
  <2>5. d \in Ids /\ d \notin E
    <3>1. d \in Ids
      BY <1>1, <1>2, <2>2 DEF RegisterOK
    <3>2. Ids \subseteq Nat
      BY <1>1 DEF RegisterOK, Ids
    <3>3. QED
      BY <2>2, <2>3, <3>1, <3>2
  <2>6. Sound(assets[a].q) /\ MonthsOf(Booked(a), assets[a].q) /\ date \in Nat
    <3>1. assets[a] \in AssetRow
      BY <1>1, AssetIs
    <3>2. QED
      BY <1>1, <2>2, <3>1, AssetIs, BookedIs DEF AssetRow
  <2>7. IsFiniteSet(E) /\ E \subseteq Ids /\ OnAccounts(E, A) = -Amounts(Booked(a))
    BY <1>1, <2>2, RunsOn
  <2>8. OnAccounts(E \cup {d}, A) = ListOn(entries[d].postings, A) + OnAccounts(E, A)
    <3> DEFINE S == E \cup {d}
    <3>1. IsFiniteSet(S) /\ S \in SUBSET Ids
      BY <2>5, <2>7, FS_Singleton, FS_Union
    <3>2. OnAccounts(S, A) = SumOf(PutOn(S, A)) /\ PutOn(S, A) \in [S -> Int]
      <4> HIDE DEF S
      <4>1. QED
        BY <1>1, <3>1, OnAccountsIs
    <3>3. OnAccounts(E, A) = SumOf(PutOn(E, A))
      BY <1>1, <2>7, OnAccountsIs
    <3>4. SumOf(PutOn(S, A)) = PutOn(S, A)[d] + SumOf([y \in S \ {d} |-> PutOn(S, A)[y]])
      <4>1. d \in S
        OBVIOUS
      <4> HIDE DEF S
      <4>2. QED
        BY <3>1, <3>2, <4>1, SumLess
    <3>5. [y \in S \ {d} |-> PutOn(S, A)[y]] = PutOn(E, A)
      <4>1. S \ {d} = E
        BY <2>5
      <4>2. QED
        BY <4>1 DEF PutOn
    <3>6. PutOn(S, A)[d] = ListOn(entries[d].postings, A)
      BY DEF PutOn
    <3>7. QED
      BY <3>2, <3>3, <3>4, <3>5, <3>6
  <2>9. Month(date) \in Nat
    BY <2>6 DEF Month
  <2>10. PICK T : T = {r \in Booked(a) : r.period <= Month(date) - 1}
    OBVIOUS
  <2>11. Booked(a) \ T = {r \in Booked(a) : r.period >= Month(date)}
    <3>1. \A r \in Booked(a) : r.period \in Nat
      BY <1>1, LastIs
    <3>2. QED
      BY <2>9, <2>10, <3>1
  <2>12. PICK m \in Nat, n \in Nat : m = Amounts(T) /\ n = Amounts(Booked(a) \ T) /\ Amounts(Booked(a)) = m + n
    <3>1. T \in SUBSET Booked(a)
      BY <2>10
    <3>2. QED
      BY <2>6, <3>1, MonthsSplit
  <2>13. DepToPeriod(a, Month(date) - 1) = m
    BY <2>10, <2>12 DEF DepToPeriod
  <2>14. PICK price \in Nat, recognised \in Nat : price = assets[a].q.price /\ recognised = assets[a].q.recognised
    BY <2>6 DEF Sound
  <2>15. ASSUME A \cap {"bank", "result"} = {}
         PROVE  OnAccounts(EntriesOf(a), A) = -(price - recognised) - n
    <3>1. ListOn(DisposalPostings(a, date, p), A)
            = assets[a].q.recognised + DepToPeriod(a, Month(date) - 1) - assets[a].q.price
      BY <1>1, <2>2, <2>15, DisposalIs
    <3>2. assets[a].q.recognised + DepToPeriod(a, Month(date) - 1) - assets[a].q.price = recognised + m - price
      BY <2>13, <2>14
    <3>3. entries[d].postings = DisposalPostings(a, date, p)
      BY <2>4 DEF Entry
    <3>4. ListOn(entries[d].postings, A) = recognised + m - price
      BY <3>1, <3>2, <3>3
    <3>5. OnAccounts(EntriesOf(a), A) = recognised + m - price + (-(m + n))
      BY <2>3, <2>7, <2>8, <2>12, <3>4
    <3>6. recognised + m - price + (-(m + n)) = -(price - recognised) - n
      BY <2>12, <2>14
    <3>7. QED
      BY <3>5, <3>6
  <2>16. QED
    BY <2>2, <2>3, <2>11, <2>12, <2>14, <2>15
<1>3. ASSUME NEW a \in AssetIds \ troubled, assets[a].disposalEntry \in Ids
      PROVE  assets[a].status = "disposed"
  <2>1. 0 \notin Ids
    BY <1>1 DEF RegisterOK, Ids
  <2>2. QED
    BY <1>1, <1>3, <2>1 DEF RegisterOK
<1>4. QED
  BY <1>2, <1>3 DEF DisposalClears

(***************************************************************************)
(* Disposal takes an asset off the books, for any asset, date, proceeds    *)
(* and number of processes: when no other command worked on it meanwhile,  *)
(* the disposal entry and the runs together leave on its accounts minus    *)
(* its cost not yet recognised less the runs of the month of disposal and  *)
(* later, no run is booked after the disposal, and the asset stays         *)
(* disposed (dispose_asset, src/assets.rs).  An asset two commands worked  *)
(* on at once is excepted: pause_asset and resume_asset write over what a  *)
(* disposal wrote since they looked.                                       *)
(***************************************************************************)
THEOREM DisposalTakesOff == Spec => []DisposalClears
<1>1. IInv => DisposalClears
  BY IInvDisposalClears
<1>2. QED
  BY SpecIInv, <1>1, PTL

----------------------------------------------------------------------------------
(* The amounts of invoices (Totals), the rates (Rates) and Trade.  First    *)
(* dividing an amount over weights.                                        *)

\* The places of S by `left', the largest first, and of equals the smaller number.
Above(left, S, i) == {j \in S : left[j] > left[i] \/ (left[j] = left[i] /\ j < i)}

RankOf(left, S) == [i \in S |-> Cardinality(Above(left, S, i))]

LEMMA BeforeIs ==
  ASSUME NEW S \in SUBSET Nat, IsFiniteSet(S), NEW left \in [S -> Int], NEW i \in S
  PROVE  /\ IsFiniteSet(Above(left, S, i)) /\ Cardinality(Above(left, S, i)) \in Nat
         /\ Cardinality(Above(left, S, i)) < Cardinality(S)
  <1>1. Above(left, S, i) \subseteq S /\ i \notin Above(left, S, i)
    BY DEF Above
  <1>2. /\ IsFiniteSet(Above(left, S, i)) /\ Cardinality(Above(left, S, i)) <= Cardinality(S)
        /\ (Cardinality(Above(left, S, i)) = Cardinality(S) => Above(left, S, i) = S)
    BY <1>1, FS_Subset
  <1>3. Cardinality(Above(left, S, i)) \in Nat /\ Cardinality(S) \in Nat
    BY <1>2, FS_CardinalityType
  <1>4. QED
    BY <1>1, <1>2, <1>3

LEMMA BeforeGrows ==
  ASSUME NEW S \in SUBSET Nat, IsFiniteSet(S), NEW left \in [S -> Int], NEW i \in S, NEW j \in S,
         i \in Above(left, S, j)
  PROVE  RankOf(left, S)[i] < RankOf(left, S)[j]
  <1>1. PICK A, B : A = Above(left, S, i) /\ B = Above(left, S, j)
    OBVIOUS
  <1>2. \A k \in S : left[k] \in Int /\ k \in Nat
    OBVIOUS
  <1>3. A \subseteq B
    <2> SUFFICES ASSUME NEW k \in A
                 PROVE  k \in B
      OBVIOUS
    <2>1. k \in S /\ (left[k] > left[i] \/ (left[k] = left[i] /\ k < i))
      BY <1>1 DEF Above
    <2>2. left[i] > left[j] \/ (left[i] = left[j] /\ i < j)
      BY DEF Above
    <2>3. left[k] \in Int /\ left[i] \in Int /\ left[j] \in Int /\ k \in Nat /\ i \in Nat /\ j \in Nat
      BY <1>2, <2>1
    <2>4. left[k] > left[j] \/ (left[k] = left[j] /\ k < j)
      BY <2>1, <2>2, <2>3
    <2>5. QED
      BY <1>1, <2>1, <2>4 DEF Above
  <1>4. i \in B /\ i \notin A
    BY <1>1, <1>2 DEF Above
  <1>5. IsFiniteSet(B) /\ Cardinality(B) \in Nat /\ Cardinality(A) \in Nat
    BY <1>1, BeforeIs
  <1>6. Cardinality(A) <= Cardinality(B) /\ (Cardinality(A) = Cardinality(B) => A = B)
    BY <1>3, <1>5, FS_Subset
  <1>7. Cardinality(A) < Cardinality(B)
    BY <1>4, <1>5, <1>6
  <1>8. QED
    BY <1>1, <1>7 DEF RankOf

\* As many have a rank below e as e says.
LEMMA RanksBelow ==
  ASSUME NEW S \in SUBSET Nat, IsFiniteSet(S), NEW left \in [S -> Int], NEW e \in Nat, e <= Cardinality(S),
         NEW T, T = {i \in S : RankOf(left, S)[i] < e}
  PROVE  IsFiniteSet(T) /\ Cardinality(T) = e
  <1>1. PICK n \in Nat : n = Cardinality(S)
    BY FS_CardinalityType
  <1>2. PICK rank : rank = RankOf(left, S)
    OBVIOUS
  <1>3. PICK R : R = 0 .. n - 1
    OBVIOUS
  <1>4. rank \in [S -> R]
    <2>1. \A i \in S : Cardinality(Above(left, S, i)) \in R
      BY <1>1, <1>3, BeforeIs
    <2>2. QED
      BY <1>2, <2>1 DEF RankOf
  <1>5. \A i, j \in S : rank[i] = rank[j] => i = j
    <2> SUFFICES ASSUME NEW i \in S, NEW j \in S, rank[i] = rank[j], i # j
                 PROVE  FALSE
      OBVIOUS
    <2>1. left[i] \in Int /\ left[j] \in Int /\ i \in Nat /\ j \in Nat
      OBVIOUS
    <2>2. i \in Above(left, S, j) \/ j \in Above(left, S, i)
      BY <2>1 DEF Above
    <2>3. rank[i] \in Int /\ rank[j] \in Int
      BY <1>3, <1>4
    <2>4. QED
      BY <1>2, <2>2, <2>3, BeforeGrows
  <1>6. IsFiniteSet(R) /\ Cardinality(R) = n
    <2>1. 0 \in Int /\ n - 1 \in Int
      OBVIOUS
    <2>2. IsFiniteSet(0 .. n - 1)
      BY <2>1, FS_Interval
    <2>3. Cardinality(0 .. n - 1) = IF 0 > n - 1 THEN 0 ELSE (n - 1) - 0 + 1
      BY <2>1, FS_Interval
    <2>4. (IF 0 > n - 1 THEN 0 ELSE (n - 1) - 0 + 1) = n
      OBVIOUS
    <2>5. QED
      BY <1>3, <2>2, <2>3, <2>4
  <1>7. rank \in Injection(S, R)
    BY <1>4, <1>5 DEF Injection, IsInjective
  <1>8. rank \in Surjection(S, R)
    BY <1>1, <1>6, <1>7, FS_Injection
  <1>9. \A r \in R : \E i \in S : rank[i] = r
    BY <1>8 DEF Surjection
  <1>10. PICK E : E = {r \in R : r < e}
    OBVIOUS
  <1>11. E = 0 .. e - 1
    <2>1. \A r : r \in 0 .. e - 1 <=> r \in 0 .. n - 1 /\ r < e
      BY <1>1
    <2>2. QED
      BY <1>3, <1>10, <2>1
  <1>12. IsFiniteSet(E) /\ Cardinality(E) = e
    <2>1. 0 \in Int /\ e - 1 \in Int
      OBVIOUS
    <2>2. IsFiniteSet(0 .. e - 1)
      BY <2>1, FS_Interval
    <2>3. Cardinality(0 .. e - 1) = IF 0 > e - 1 THEN 0 ELSE (e - 1) - 0 + 1
      BY <2>1, FS_Interval
    <2>4. (IF 0 > e - 1 THEN 0 ELSE (e - 1) - 0 + 1) = e
      OBVIOUS
    <2>5. QED
      BY <1>11, <2>2, <2>3, <2>4
  <1>13. PICK g : g = [i \in T |-> rank[i]]
    OBVIOUS
  <1>14. g \in Bijection(T, E)
    <2>1. g \in [T -> E]
      BY <1>2, <1>4, <1>10, <1>13
    <2>2. \A i, j \in T : g[i] = g[j] => i = j
      BY <1>5, <1>13
    <2>3. \A r \in E : \E i \in T : g[i] = r
      <3> SUFFICES ASSUME NEW r \in E
                   PROVE  \E i \in T : g[i] = r
        OBVIOUS
      <3>1. PICK i \in S : rank[i] = r
        BY <1>9, <1>10
      <3>2. i \in T
        BY <1>2, <1>10, <3>1
      <3>3. QED
        BY <1>13, <3>1, <3>2
    <2>4. g \in Injection(T, E)
      BY <2>1, <2>2 DEF Injection, IsInjective
    <2>5. g \in Surjection(T, E)
      BY <2>1, <2>3 DEF Surjection
    <2>6. QED
      BY <2>4, <2>5 DEF Bijection
  <1>15. IsFiniteSet(T)
    <2>1. T \subseteq S
      OBVIOUS
    <2>2. QED
      BY <2>1, FS_Subset
  <1>16. Cardinality(T) = Cardinality(E)
    BY <1>14, <1>15, FS_Bijection DEF ExistsBijection
  <1>17. QED
    BY <1>12, <1>15, <1>16

Cut(total, w) == [i \in DOMAIN w |-> Truncated(w[i] * total, SumOf(w))]

Left(total, w) == [i \in DOMAIN w |-> w[i] * total - Cut(total, w)[i] * SumOf(w)]

\* The cents the cutting off has lost.
Lost(total, w) == total - SumOf(Cut(total, w))

LEMMA AllocateIs ==
  ASSUME NEW S, NEW w \in [S -> Nat], NEW total, total # 0, ~(SumOf(w) <= 0)
  PROVE  Allocate(total, w) =
           [i \in S |-> IF RankOf(Left(total, w), S)[i] < Lost(total, w) THEN Cut(total, w)[i] + 1 ELSE Cut(total, w)[i]]
  BY DEF Allocate, RankOf, Above, Left, Cut, Lost

LEMMA DivideIs ==
  ASSUME NEW a \in Nat, NEW b \in Nat, b > 0
  PROVE  Truncated(a, b) \in Nat /\ 0 <= a - Truncated(a, b) * b /\ a - Truncated(a, b) * b <= b - 1
  <1>1. Truncated(a, b) = a \div b
    BY DEF Truncated
  <1>2. a \div b \in Nat /\ (a \div b) * b <= a /\ a < (a \div b) * b + b
    OBVIOUS
  <1>3. PICK q \in Nat : q = a \div b /\ q * b <= a /\ a < q * b + b
    BY <1>2
  <1>4. 0 <= a - q * b /\ a - q * b <= b - 1
    BY <1>3
  <1>5. QED
    BY <1>1, <1>3, <1>4

LEMMA LeftIs ==
  ASSUME NEW S, IsFiniteSet(S), NEW w \in [S -> Nat], NEW total \in Nat,
         NEW W \in Nat, W = SumOf(w), W > 0
  PROVE  /\ Cut(total, w) \in [S -> Nat] /\ Left(total, w) \in [S -> Int]
         /\ Lost(total, w) \in Nat /\ Lost(total, w) <= Cardinality(S)
  <1>1. PICK cut, left : cut = Cut(total, w) /\ left = Left(total, w)
    OBVIOUS
  <1>2. ASSUME NEW i \in S
        PROVE  /\ cut[i] \in Nat /\ left[i] = w[i] * total - cut[i] * W
               /\ left[i] \in Int /\ 0 <= left[i] /\ left[i] <= W - 1
    <2>1. PICK x \in Nat : x = w[i]
      OBVIOUS
    <2>2. PICK a \in Nat : a = x * total
      OBVIOUS
    <2>3. cut[i] = Truncated(a, W)
      BY <1>1, <2>1, <2>2 DEF Cut
    <2>4. Truncated(a, W) \in Nat /\ 0 <= a - Truncated(a, W) * W /\ a - Truncated(a, W) * W <= W - 1
      BY <2>2, DivideIs
    <2>5. left[i] = w[i] * total - cut[i] * W
      BY <1>1 DEF Left
    <2>6. PICK q \in Nat : q = cut[i] /\ 0 <= a - q * W /\ a - q * W <= W - 1
      BY <2>3, <2>4
    <2>7. left[i] = a - q * W
      BY <2>1, <2>2, <2>5, <2>6
    <2>8. QED
      BY <2>5, <2>6, <2>7
  <1>3. cut \in [S -> Nat] /\ left \in [S -> Int]
    BY <1>1, <1>2 DEF Cut, Left
  <1>4. PICK spread, lumps : spread = [i \in S |-> w[i] * total] /\ lumps = [i \in S |-> -(cut[i] * W)]
    OBVIOUS
  <1>0. PICK m \in Int : m = -W
    OBVIOUS
  <1>5. ASSUME NEW i \in S
        PROVE  /\ spread[i] \in Int /\ spread[i] = total * w[i]
               /\ lumps[i] \in Int /\ lumps[i] = m * cut[i] /\ left[i] = spread[i] + lumps[i]
    <2>1. PICK x \in Nat, q \in Nat : x = w[i] /\ q = cut[i]
      BY <1>2
    <2>2. x * total = total * x /\ -(q * W) = m * q /\ x * total - q * W = x * total + -(q * W)
      BY <1>0
    <2>3. spread[i] = x * total /\ lumps[i] = -(q * W) /\ left[i] = x * total - q * W
      BY <1>2, <1>4, <2>1
    <2>4. QED
      BY <2>1, <2>2, <2>3
  <1>6. spread \in [S -> Int] /\ lumps \in [S -> Int] /\ w \in [S -> Int] /\ cut \in [S -> Int]
    BY <1>3, <1>4, <1>5
  <1>7. SumOf(spread) = total * W
    <2>1. total \in Int
      OBVIOUS
    <2>2. SumOf(spread) = total * SumOf(w)
      BY <1>5, <1>6, <2>1, SumScaled
    <2>3. QED
      BY <2>2
  <1>8. PICK C \in Int : C = SumOf(cut)
    BY <1>6, SumTyped
  <1>9. SumOf(lumps) = m * C
    <2>1. \A i \in S : lumps[i] = m * cut[i]
      BY <1>5
    <2>2. SumOf(lumps) = m * SumOf(cut)
      BY <1>6, <2>1, SumScaled
    <2>3. QED
      BY <1>8, <2>2
  <1>10. SumOf(left) = total * W + m * C
    <2>1. SumOf(left) = SumOf(spread) + SumOf(lumps)
      BY <1>3, <1>5, <1>6, SumPlus
    <2>2. QED
      BY <1>7, <1>9, <2>1
  <1>11. PICK n \in Nat : n = Cardinality(S)
    BY FS_CardinalityType
  <1>12. 0 <= SumOf(left) /\ SumOf(left) <= (W - 1) * n
    <2>1. W - 1 \in Int /\ \A i \in S : 0 <= left[i] /\ left[i] <= W - 1
      BY <1>2
    <2>2. QED
      BY <1>3, <1>11, <2>1, SumBetween
  <1>13. PICK e \in Int : e = total - C
    OBVIOUS
  <1>14. total * W + m * C = W * e
    BY <1>0, <1>13
  <1>15. 0 <= W * e /\ W * e <= (W - 1) * n
    BY <1>10, <1>12, <1>14
  <1>16. e >= 0 /\ e <= n
    BY <1>15
  <1>17. Lost(total, w) = e
    BY <1>1, <1>8, <1>13 DEF Lost
  <1>18. QED
    BY <1>1, <1>3, <1>11, <1>16, <1>17

\* One more for each element of T.
LEMMA OnesAdded ==
  ASSUME NEW S, IsFiniteSet(S), NEW cut \in [S -> Nat], NEW T \in SUBSET S,
         NEW shares, shares = [i \in S |-> IF i \in T THEN cut[i] + 1 ELSE cut[i]]
  PROVE  shares \in [S -> Nat] /\ SumOf(shares) = SumOf(cut) + Cardinality(T)
  <1>1. PICK one : one = [i \in S |-> IF i \in T THEN 1 ELSE 0]
    OBVIOUS
  <1>2. ASSUME NEW i \in S
        PROVE  shares[i] = cut[i] + one[i] /\ shares[i] \in Nat
    <2>1. PICK q \in Nat : q = cut[i]
      OBVIOUS
    <2>2. CASE i \in T
      <3>1. shares[i] = q + 1 /\ one[i] = 1
        BY <1>1, <2>1, <2>2
      <3>2. QED
        BY <2>1, <3>1
    <2>3. CASE i \notin T
      <3>1. shares[i] = q /\ one[i] = 0
        BY <1>1, <2>1, <2>3
      <3>2. q + 0 = q
        OBVIOUS
      <3>3. QED
        BY <2>1, <3>1, <3>2
    <2>4. QED
      BY <2>2, <2>3
  <1>3. shares \in [S -> Nat] /\ shares \in [S -> Int] /\ cut \in [S -> Int] /\ one \in [S -> Int]
    BY <1>1, <1>2
  <1>4. SumOf(shares) = SumOf(cut) + SumOf(one)
    <2>1. \A i \in S : shares[i] = cut[i] + one[i]
      BY <1>2
    <2>2. QED
      BY <1>3, <2>1, SumPlus
  <1>5. SumOf(one) = Cardinality(T)
    <2>1. \A i \in S : one[i] = IF i \in T THEN 1 ELSE 0
      BY <1>1
    <2>2. QED
      BY <1>3, <2>1, SumCount
  <1>6. QED
    BY <1>3, <1>4, <1>5

\* What is divided comes back when as many places get a cent more as were lost.
LEMMA RankedAddsUp ==
  ASSUME NEW S, IsFiniteSet(S), NEW w \in [S -> Nat], NEW W \in Nat, W = SumOf(w), W > 0,
         NEW total \in Nat, total # 0,
         NEW T \in SUBSET S, \A i \in S : i \in T <=> RankOf(Left(total, w), S)[i] < Lost(total, w),
         Cardinality(T) = Lost(total, w)
  PROVE  Allocate(total, w) \in [S -> Nat] /\ SumOf(Allocate(total, w)) = total
  <1>1. PICK cut, left, e : cut = Cut(total, w) /\ left = Left(total, w) /\ e = Lost(total, w)
    OBVIOUS
  <1>2. cut \in [S -> Nat] /\ left \in [S -> Int] /\ e \in Nat /\ e <= Cardinality(S)
    BY <1>1, LeftIs
  <1>3. T \in SUBSET S
    OBVIOUS
  <1>4. ~(SumOf(w) <= 0)
    OBVIOUS
  <1>5. PICK shares : shares = Allocate(total, w)
    OBVIOUS
  <1>6. shares = [i \in S |-> IF i \in T THEN cut[i] + 1 ELSE cut[i]]
    <2>1. Allocate(total, w) =
            [i \in S |-> IF RankOf(Left(total, w), S)[i] < Lost(total, w) THEN Cut(total, w)[i] + 1 ELSE Cut(total, w)[i]]
      BY <1>4, AllocateIs
    <2>2. shares = [i \in S |-> IF RankOf(left, S)[i] < e THEN cut[i] + 1 ELSE cut[i]]
      BY <1>1, <1>5, <2>1
    <2>3. \A i \in S : i \in T <=> RankOf(left, S)[i] < e
      BY <1>1
    <2>4. QED
      BY <2>2, <2>3
  <1>7. shares \in [S -> Nat] /\ SumOf(shares) = SumOf(cut) + Cardinality(T)
    BY <1>2, <1>3, <1>6, OnesAdded
  <1>8. SumOf(cut) \in Int /\ e = total - SumOf(cut)
    <2>1. cut \in [S -> Int]
      BY <1>2
    <2>2. SumOf(cut) \in Int
      BY <2>1, SumTyped
    <2>3. QED
      BY <1>1, <2>2 DEF Lost
  <1>9. SumOf(shares) = total
    BY <1>1, <1>2, <1>7, <1>8
  <1>10. QED
    BY <1>5, <1>7, <1>9

\* What allocate_largest_remainder divides over lines or groups comes back, to
\* the cent, whatever the amount and the weights, as long as one is positive.
THEOREM AllocateAddsUp ==
  ASSUME NEW S, S \subseteq Nat, IsFiniteSet(S), NEW w \in [S -> Nat], SumOf(w) > 0, NEW total \in Nat
  PROVE  Allocate(total, w) \in [S -> Nat] /\ SumOf(Allocate(total, w)) = total
  <1>1. PICK W \in Nat : W = SumOf(w) /\ W > 0
    <2>1. w \in [S -> Int]
      OBVIOUS
    <2>2. SumOf(w) \in Int
      BY <2>1, SumTyped
    <2>3. QED
      BY <2>2
  <1>2. CASE total = 0
    <2>1. PICK z : z = [i \in S |-> 0]
      OBVIOUS
    <2>2. Allocate(total, w) = z
      BY <1>2, <2>1 DEF Allocate
    <2>3. z \in [S -> Int] /\ z \in [S -> Nat] /\ \A i \in S : z[i] = 0
      BY <2>1
    <2>4. SumOf(z) = 0
      BY <2>3, SumZero
    <2>5. QED
      BY <1>2, <2>2, <2>3, <2>4
  <1>3. CASE total # 0
    <2>1. /\ Left(total, w) \in [S -> Int] /\ Lost(total, w) \in Nat
          /\ Lost(total, w) <= Cardinality(S)
      BY <1>1, LeftIs
    <2>2. PICK T : T = {i \in S : RankOf(Left(total, w), S)[i] < Lost(total, w)}
      OBVIOUS
    <2>3. Cardinality(T) = Lost(total, w)
      <3>1. S \in SUBSET Nat
        OBVIOUS
      <3>2. QED
        BY <2>1, <2>2, <3>1, RanksBelow
    <2>4. T \in SUBSET S /\ \A i \in S : i \in T <=> RankOf(Left(total, w), S)[i] < Lost(total, w)
      BY <2>2
    <2>5. QED
      BY <1>1, <1>3, <2>3, <2>4, RankedAddsUp
  <1>4. QED
    BY <1>2, <1>3

LEMMA ShareIs ==
  ASSUME NEW x \in Int, NEW bp \in Int
  PROVE  Share(x, bp) \in Int
  <1>1. PICK a \in Int, b \in Int : a = Abs(x) /\ b = Abs(bp)
    BY DEF Abs
  <1>2. PICK c \in Int : c = 2 * a * b + 10000
    OBVIOUS
  <1>3. PICK half \in Int : half = c \div 20000
    OBVIOUS
  <1>4. Share(x, bp) = IF (x < 0) # (bp < 0) THEN -half ELSE half
    BY <1>1, <1>2, <1>3 DEF Share
  <1>5. QED
    BY <1>4

\* A share is not below nothing, and no more than the whole when it is a part of it.
LEMMA ShareBounds ==
  ASSUME NEW x \in Nat, NEW bp \in Nat
  PROVE  Share(x, bp) \in Nat /\ (bp <= 10000 => Share(x, bp) <= x)
  <1>1. Abs(x) = x /\ Abs(bp) = bp
    BY DEF Abs
  <1>2. PICK p \in Nat : p = x * bp
    OBVIOUS
  <1>3. 2 * x * bp + 10000 = 2 * p + 10000
    BY <1>2
  <1>4. PICK half \in Nat : half = (2 * p + 10000) \div 20000 /\ half * 20000 <= 2 * p + 10000
    OBVIOUS
  <1>5. Share(x, bp) = half
    <2>1. ~(x < 0) /\ ~(bp < 0)
      OBVIOUS
    <2>2. QED
      BY <1>1, <1>3, <1>4, <2>1 DEF Share
  <1>6. ASSUME bp <= 10000
        PROVE  half <= x
    <2>1. p <= x * 10000
      BY <1>2, <1>6
    <2>2. QED
      BY <1>4, <2>1
  <1>7. QED
    BY <1>5, <1>6

LEMMA LineNetIs ==
  ASSUME NEW l \in InvoiceLine
  PROVE  LineNet(l) \in Int /\ l.rate \in Nat
  <1>0. PICK d : d = l.discount
    OBVIOUS
  <1>1. PICK a \in Int, v \in Int : a = l.amount /\ v = d.value /\ d = l.discount
    BY <1>0 DEF InvoiceLine, Discount
  <1>2. Share(a, v) \in Int /\ Least(v, a) \in Int
    BY ShareIs DEF Least
  <1>3. LineDiscount(l) = CASE d.type = "pct" -> Share(a, v) [] d.type = "amount" -> Least(v, a) [] OTHER -> 0
    BY <1>1 DEF LineDiscount
  <1>4. LineDiscount(l) \in Int
    <2>1. CASE d.type = "pct"
      BY <1>2, <1>3, <2>1
    <2>2. CASE d.type = "amount"
      BY <1>2, <1>3, <2>2
    <2>3. CASE d.type # "pct" /\ d.type # "amount"
      BY <1>3, <2>3
    <2>4. QED
      BY <2>1, <2>2, <2>3
  <1>5. QED
    BY <1>1, <1>4 DEF LineNet, InvoiceLine

----------------------------------------------------------------------------------
(* The groups of the lines. *)

Nets(lines) == [j \in DOMAIN lines |-> LineNet(lines[j])]

First(lines) == [j \in DOMAIN lines |-> Min(Members(lines, j))]

Lines(lines) == lines \in Seq(InvoiceLine)

LEMMA LinesAre ==
  ASSUME NEW lines, Lines(lines)
  PROVE  /\ DOMAIN lines \in SUBSET Nat /\ IsFiniteSet(DOMAIN lines) /\ 0 \notin DOMAIN lines
         /\ Nets(lines) \in [DOMAIN lines -> Int] /\ First(lines) = [j \in DOMAIN lines |-> First(lines)[j]]
         /\ \A i \in DOMAIN lines : lines[i].rate \in Nat
  <1>1. PICK n \in Nat : DOMAIN lines = 1 .. n
    BY DEF Lines
  <1>2. IsFiniteSet(1 .. n)
    BY FS_Interval
  <1>3. \A i \in DOMAIN lines : lines[i] \in InvoiceLine
    BY DEF Lines
  <1>4. \A i \in DOMAIN lines : LineNet(lines[i]) \in Int /\ lines[i].rate \in Nat
    BY <1>3, LineNetIs
  <1>5. Nets(lines) \in [DOMAIN lines -> Int]
    BY <1>4 DEF Nets
  <1>6. QED
    BY <1>1, <1>2, <1>4, <1>5 DEF First

LEMMA MembersAre ==
  ASSUME NEW lines, Lines(lines), NEW i \in DOMAIN lines
  PROVE  /\ Members(lines, i) \in SUBSET DOMAIN lines /\ i \in Members(lines, i)
         /\ First(lines)[i] \in Members(lines, i)
         /\ \A j \in DOMAIN lines : j \in Members(lines, i) => Members(lines, j) = Members(lines, i)
         /\ \A j \in DOMAIN lines : j \in Members(lines, i) <=> First(lines)[j] = First(lines)[i]
  <1>1. PICK S : S = DOMAIN lines
    OBVIOUS
  <1>2. \A j \in S : Members(lines, j) \in SUBSET S /\ j \in Members(lines, j)
    BY <1>1 DEF Members, SameGroup
  <1>3. \A j, k \in S : j \in Members(lines, k) => Members(lines, j) = Members(lines, k)
    BY <1>1 DEF Members, SameGroup
  <1>4. \A j \in S : First(lines)[j] \in Members(lines, j)
    <2> SUFFICES ASSUME NEW j \in S
                 PROVE  First(lines)[j] \in Members(lines, j)
      OBVIOUS
    <2>1. PICK M : M = Members(lines, j)
      OBVIOUS
    <2>2. M \in SUBSET Nat /\ M # {}
      BY <1>1, <1>2, <2>1, LinesAre
    <2>3. PICK k \in M : \A l \in M : k <= l
      BY <2>2, LeastNumber
    <2>4. Min(M) \in M
      BY <2>3 DEF Min
    <2>5. QED
      BY <1>1, <2>1, <2>4 DEF First
  <1>5. \A j, k \in S : Members(lines, j) = Members(lines, k) => First(lines)[j] = First(lines)[k]
    BY <1>1 DEF First
  <1>6. \A j, k \in S : First(lines)[j] = First(lines)[k] => j \in Members(lines, k)
    <2> SUFFICES ASSUME NEW j \in S, NEW k \in S, First(lines)[j] = First(lines)[k]
                 PROVE  j \in Members(lines, k)
      OBVIOUS
    <2>1. PICK m : m = First(lines)[j]
      OBVIOUS
    <2>2. m \in Members(lines, j) /\ m \in Members(lines, k) /\ m \in S
      BY <1>2, <1>4, <2>1
    <2>3. Members(lines, j) = Members(lines, k)
      BY <1>3, <2>2
    <2>4. QED
      BY <1>2, <2>3
  <1>7. QED
    BY <1>1, <1>2, <1>3, <1>4, <1>5, <1>6

LEMMA GroupsAre ==
  ASSUME NEW lines, Lines(lines)
  PROVE  /\ Groups(lines) \in SUBSET DOMAIN lines /\ IsFiniteSet(Groups(lines))
         /\ \A i \in DOMAIN lines : i \in Groups(lines) <=> First(lines)[i] = i /\ GroupNet(lines, i) # 0
         /\ \A i \in DOMAIN lines : GroupNet(lines, i) = Part(Nets(lines), Members(lines, i))
         /\ \A i \in DOMAIN lines : GroupNet(lines, i) \in Int /\ IsFiniteSet(Members(lines, i))
  <1>1. IsFiniteSet(DOMAIN lines) /\ Nets(lines) \in [DOMAIN lines -> Int]
    BY LinesAre
  <1>2. Groups(lines) \in SUBSET DOMAIN lines
    BY DEF Groups
  <1>3. IsFiniteSet(Groups(lines))
    BY <1>1, <1>2, FS_Subset
  <1>4. \A i \in DOMAIN lines : i \in Groups(lines) <=> First(lines)[i] = i /\ GroupNet(lines, i) # 0
    BY DEF Groups, First
  <1>5. ASSUME NEW i \in DOMAIN lines
        PROVE  /\ GroupNet(lines, i) = Part(Nets(lines), Members(lines, i))
               /\ GroupNet(lines, i) \in Int /\ IsFiniteSet(Members(lines, i))
    <2>1. Members(lines, i) \in SUBSET DOMAIN lines
      BY MembersAre
    <2>2. [j \in Members(lines, i) |-> Nets(lines)[j]] = [j \in Members(lines, i) |-> LineNet(lines[j])]
      BY <2>1 DEF Nets
    <2>3. GroupNet(lines, i) = Part(Nets(lines), Members(lines, i))
      BY <2>2 DEF GroupNet, Part
    <2>4. Part(Nets(lines), Members(lines, i)) \in Int /\ IsFiniteSet(Members(lines, i))
      BY <1>1, <2>1, PartIs
    <2>5. QED
      BY <2>3, <2>4
  <1>6. QED
    BY <1>2, <1>3, <1>4, <1>5

\* What the groups net to is what the lines net to.
LEMMA NetByGroup ==
  ASSUME NEW lines, Lines(lines), NEW net, net = [i \in Groups(lines) |-> GroupNet(lines, i)]
  PROVE  net \in [Groups(lines) -> Int] /\ SumOf(net) = NetBefore(lines) /\ NetBefore(lines) \in Int
  <1>1. PICK S, f, key : S = DOMAIN lines /\ f = Nets(lines) /\ key = First(lines)
    OBVIOUS
  <1>2. IsFiniteSet(S) /\ f \in [S -> Int]
    BY <1>1, LinesAre
  <1>3. key \in [S -> S]
    <2>1. \A j \in S : key[j] \in S
      BY <1>1, MembersAre
    <2>2. key = [j \in S |-> key[j]]
      BY <1>1, LinesAre
    <2>3. QED
      BY <2>1, <2>2
  <1>4. PICK totals \in [S -> Int] :
          SumOf(totals) = SumOf(f) /\ \A k \in S : totals[k] = Part(f, {x \in S : key[x] = k})
    BY <1>2, <1>3, KeySums
  <1>6. ASSUME NEW k \in S
        PROVE  totals[k] = IF k \in Groups(lines) THEN GroupNet(lines, k) ELSE 0
    <2>1. totals[k] = Part(f, {x \in S : key[x] = k})
      BY <1>4
    <2>2. CASE key[k] = k
      <3>1. {x \in S : key[x] = k} = Members(lines, k)
        <4>1. \A x \in S : x \in Members(lines, k) <=> key[x] = key[k]
          BY <1>1, MembersAre
        <4>2. Members(lines, k) \in SUBSET S
          BY <1>1, MembersAre
        <4>3. QED
          BY <2>2, <4>1, <4>2
      <3>2. totals[k] = GroupNet(lines, k)
        BY <1>1, <2>1, <3>1, GroupsAre
      <3>3. k \in Groups(lines) <=> GroupNet(lines, k) # 0
        BY <1>1, <2>2, GroupsAre
      <3>4. QED
        BY <3>2, <3>3
    <2>3. CASE key[k] # k
      <3>1. \A x \in S : key[x] # k
        <4> SUFFICES ASSUME NEW x \in S, key[x] = k
                     PROVE  FALSE
          OBVIOUS
        <4>1. k \in Members(lines, x)
          BY <1>1, MembersAre
        <4>2. key[k] = key[x]
          BY <1>1, <4>1, MembersAre
        <4>3. QED
          BY <2>3, <4>2
      <3>2. {x \in S : key[x] = k} = {}
        BY <3>1
      <3>3. totals[k] = 0
        BY <2>1, <3>2, PartEmpty
      <3>4. k \notin Groups(lines)
        BY <1>1, <2>3, GroupsAre
      <3>5. QED
        BY <3>3, <3>4
    <2>4. QED
      BY <2>2, <2>3
  <1>7. Groups(lines) \in SUBSET S
    BY <1>1, GroupsAre
  <1>8. SumOf(totals) = Part(totals, Groups(lines))
    BY <1>2, <1>4, <1>6, <1>7, SumWhere
  <1>9. [i \in Groups(lines) |-> totals[i]] = net
    BY <1>6, <1>7
  <1>10. SumOf(f) = NetBefore(lines)
    BY <1>1 DEF Nets, NetBefore
  <1>11. SumOf(f) \in Int
    BY <1>2, SumTyped
  <1>12. net \in [Groups(lines) -> Int]
    BY <1>1, <1>7, GroupsAre
  <1>13. QED
    BY <1>4, <1>8, <1>9, <1>10, <1>11, <1>12 DEF Part

LEMMA AllocateTyped ==
  ASSUME NEW S, IsFiniteSet(S), NEW w \in [S -> Nat], NEW total \in Int
  PROVE  Allocate(total, w) \in [S -> Int]
  <1>1. PICK W \in Int : W = SumOf(w)
    <2>1. w \in [S -> Int]
      OBVIOUS
    <2>2. QED
      BY <2>1, SumTyped
  <1>2. CASE total = 0 \/ W <= 0
    <2>1. Allocate(total, w) = [i \in S |-> 0]
      BY <1>1, <1>2 DEF Allocate
    <2>2. QED
      BY <2>1
  <1>3. CASE total # 0 /\ ~(W <= 0)
    <2>1. \A i \in S : Cut(total, w)[i] \in Int
      <3> SUFFICES ASSUME NEW i \in S
                   PROVE  Cut(total, w)[i] \in Int
        OBVIOUS
      <3>1. PICK x \in Int : x = w[i] * total
        OBVIOUS
      <3>2. x \div W \in Int /\ (-x) \div W \in Int
        BY <1>3
      <3>3. Truncated(x, W) \in Int
        BY <3>2 DEF Truncated
      <3>4. Cut(total, w)[i] = Truncated(x, W)
        BY <1>1, <3>1 DEF Cut
      <3>5. QED
        BY <3>3, <3>4
    <2>2. Allocate(total, w) =
            [i \in S |-> IF RankOf(Left(total, w), S)[i] < Lost(total, w) THEN Cut(total, w)[i] + 1 ELSE Cut(total, w)[i]]
      BY <1>1, <1>3, AllocateIs
    <2>3. PICK cut : cut = Cut(total, w) /\ \A i \in S : cut[i] \in Int
      BY <2>1
    <2>4. \A i \in S : cut[i] + 1 \in Int
      BY <2>3
    <2>5. QED
      BY <2>2, <2>3, <2>4
  <1>4. QED
    BY <1>2, <1>3

\* As much as there is, or less, gives none more than its weight.
LEMMA AllocateBelow ==
  ASSUME NEW S, S \subseteq Nat, IsFiniteSet(S), NEW w \in [S -> Nat], \A i \in S : w[i] > 0,
         NEW total \in Nat, total <= SumOf(w), NEW i \in S
  PROVE  Allocate(total, w)[i] <= w[i]
  <1>1. PICK W \in Int : W = SumOf(w)
    <2>1. w \in [S -> Int]
      OBVIOUS
    <2>2. QED
      BY <2>1, SumTyped
  <1>2. CASE total = 0 \/ W <= 0
    <2>1. Allocate(total, w) = [j \in S |-> 0]
      BY <1>1, <1>2 DEF Allocate
    <2>2. QED
      BY <2>1
  <1>3. CASE total # 0 /\ ~(W <= 0)
    <2>1. PICK cut, left, e : cut = Cut(total, w) /\ left = Left(total, w) /\ e = Lost(total, w)
      OBVIOUS
    <2>2. cut \in [S -> Nat] /\ left \in [S -> Int] /\ e \in Nat
      <3>1. W \in Nat /\ W > 0
        BY <1>3
      <3>2. QED
        BY <1>1, <2>1, <3>1, LeftIs
    <2>3. Allocate(total, w)[i] = IF RankOf(left, S)[i] < e THEN cut[i] + 1 ELSE cut[i]
      <3>1. Allocate(total, w) =
              [j \in S |-> IF RankOf(Left(total, w), S)[j] < Lost(total, w) THEN Cut(total, w)[j] + 1 ELSE Cut(total, w)[j]]
        BY <1>1, <1>3, AllocateIs
      <3>2. QED
        BY <2>1, <3>1
    <2>4. ASSUME NEW j \in S
          PROVE  cut[j] <= w[j] /\ (total < W => cut[j] + 1 <= w[j]) /\ (total = W => cut[j] = w[j])
      <3>1. PICK x \in Nat, q \in Nat : x = w[j] /\ q = cut[j] /\ x > 0
        BY <2>2
      <3>2. PICK a \in Nat : a = x * total
        OBVIOUS
      <3>3. cut[j] = Truncated(a, W)
        BY <1>1, <2>1, <3>1, <3>2 DEF Cut
      <3>4. 0 <= a - q * W /\ a - q * W <= W - 1
        <4>1. W \in Nat /\ W > 0
          BY <1>3
        <4>2. 0 <= a - Truncated(a, W) * W /\ a - Truncated(a, W) * W <= W - 1
          BY <4>1, DivideIs
        <4>3. QED
          BY <3>1, <3>3, <4>2
      <3>5. total < W => q * W < x * W
        <4> SUFFICES ASSUME total < W
                     PROVE  q * W < x * W
          OBVIOUS
        <4>1. x * total < x * W
          BY <3>1
        <4>2. QED
          BY <3>2, <3>4, <4>1
      <3>6. total = W => q * W <= x * W /\ x * W < (q + 1) * W
        BY <3>2, <3>4
      <3>7. W > 0 /\ (total < W \/ total = W)
        BY <1>1, <1>3
      <3>8. CASE total < W
        <4>1. q < x
          BY <3>5, <3>7, <3>8
        <4>2. QED
          BY <3>1, <3>8, <4>1
      <3>9. CASE total = W
        <4>1. q <= x /\ x < q + 1
          BY <3>6, <3>7, <3>9
        <4>2. QED
          BY <3>1, <3>9, <4>1
      <3>10. QED
        BY <3>7, <3>8, <3>9
    <2>5. CASE total < W
      <3>1. PICK x \in Nat, q \in Nat : x = w[i] /\ q = cut[i] /\ q + 1 <= x
        BY <2>2, <2>4, <2>5
      <3>2. QED
        BY <2>3, <3>1
    <2>6. CASE total = W
      <3>1. cut = w
        <4>1. \A j \in S : cut[j] = w[j]
          BY <2>4, <2>6
        <4>2. cut = [j \in S |-> cut[j]] /\ w = [j \in S |-> w[j]]
          BY <2>2
        <4>3. QED
          BY <4>1, <4>2
      <3>2. e = total - SumOf(cut)
        BY <2>1 DEF Lost
      <3>3. e = 0
        BY <1>1, <2>6, <3>1, <3>2
      <3>4. S \in SUBSET Nat
        OBVIOUS
      <3>5. RankOf(left, S)[i] \in Nat
        BY <2>2, <3>4, BeforeIs DEF RankOf
      <3>6. Allocate(total, w)[i] = cut[i]
        BY <2>3, <3>3, <3>5
      <3>7. QED
        BY <3>1, <3>6
    <2>7. QED
      BY <1>1, <2>5, <2>6
  <1>4. QED
    BY <1>2, <1>3

----------------------------------------------------------------------------------
(* The discount on the whole. *)

LEMMA HeaderIs ==
  ASSUME NEW lines, Lines(lines), NEW d \in Discount
  PROVE  /\ HeaderDiscount(lines, d) \in Int
         /\ IsDiscount(d) /\ NetBefore(lines) >= 0 =>
              0 <= HeaderDiscount(lines, d) /\ HeaderDiscount(lines, d) <= NetBefore(lines)
  <1>0. PICK h : h = HeaderDiscount(lines, d)
    OBVIOUS
  <1>1. PICK n \in Int, v \in Int : n = NetBefore(lines) /\ v = d.value /\ h = HeaderDiscount(lines, d)
    BY <1>0, NetByGroup DEF Discount
  <1>2. h = CASE d.type = "pct" -> Share(n, v) [] d.type = "amount" -> Least(v, n) [] OTHER -> 0
    BY <1>1 DEF HeaderDiscount
  <1>3. CASE d.type = "pct"
    <2>1. h = Share(n, v)
      BY <1>2, <1>3
    <2>2. h \in Int
      BY <2>1, ShareIs
    <2>3. ASSUME IsDiscount(d), n >= 0
          PROVE  0 <= h /\ h <= n
      <3>1. v \in Nat /\ v <= 10000 /\ n \in Nat
        BY <1>1, <1>3, <2>3 DEF IsDiscount
      <3>2. QED
        BY <2>1, <3>1, ShareBounds
    <2>4. QED
      BY <1>1, <2>2, <2>3
  <1>4. CASE d.type = "amount"
    <2>1. h = Least(v, n)
      BY <1>2, <1>4
    <2>2. IsDiscount(d) => v >= 0
      BY <1>1 DEF IsDiscount
    <2>3. QED
      BY <1>1, <2>1, <2>2 DEF Least
  <1>5. CASE d.type # "pct" /\ d.type # "amount"
    <2>1. h = 0
      BY <1>2, <1>5
    <2>2. QED
      BY <1>1, <2>1
  <1>6. QED
    BY <1>3, <1>4, <1>5

Weights(lines) == [i \in Groups(lines) |-> NonNegative(GroupNet(lines, i))]

LEMMA WeightsAre ==
  ASSUME NEW lines, Lines(lines)
  PROVE  Weights(lines) \in [Groups(lines) -> Nat]
  <1>1. \A i \in Groups(lines) : GroupNet(lines, i) \in Int
    BY GroupsAre
  <1>2. \A x \in Int : NonNegative(x) \in Nat
    BY DEF NonNegative
  <1>3. QED
    BY <1>1, <1>2 DEF Weights

LEMMA DiscountedIs ==
  ASSUME NEW lines, Lines(lines), NEW d \in Discount
  PROVE  /\ DiscountedNets(lines, d) \in [Groups(lines) -> Int]
         /\ \A i \in Groups(lines) :
              DiscountedNets(lines, d)[i] = GroupNet(lines, i) - Allocate(HeaderDiscount(lines, d), Weights(lines))[i]
  <1>1. PICK alloc : alloc = Allocate(HeaderDiscount(lines, d), Weights(lines))
    OBVIOUS
  <1>2. alloc \in [Groups(lines) -> Int]
    <2>1. HeaderDiscount(lines, d) \in Int
      BY HeaderIs
    <2>2. IsFiniteSet(Groups(lines)) /\ Weights(lines) \in [Groups(lines) -> Nat]
      BY GroupsAre, WeightsAre
    <2>3. QED
      BY <1>1, <2>1, <2>2, AllocateTyped
  <1>3. DiscountedNets(lines, d) = [i \in Groups(lines) |-> GroupNet(lines, i) - alloc[i]]
    BY <1>1 DEF DiscountedNets, Weights
  <1>4. \A i \in Groups(lines) : GroupNet(lines, i) \in Int
    BY GroupsAre
  <1>5. QED
    BY <1>1, <1>2, <1>3, <1>4

NoneBelowZero(lines) == \A i \in DOMAIN lines : GroupNet(lines, i) >= 0

LEMMA DiscountedAddUp ==
  ASSUME NEW lines, Lines(lines), NEW d \in Discount, NoneBelowZero(lines), IsDiscount(d)
  PROVE  /\ Net(lines, d) = NetBefore(lines) - HeaderDiscount(lines, d)
         /\ \A g \in Groups(lines) : DiscountedNets(lines, d)[g] \in 0 .. GroupNet(lines, g)
  <1>1. PICK G, w, net : /\ G = Groups(lines) /\ w = Weights(lines)
                         /\ net = [i \in Groups(lines) |-> GroupNet(lines, i)]
    OBVIOUS
  <1>2. G \subseteq Nat /\ IsFiniteSet(G)
    BY <1>1, GroupsAre, LinesAre
  <1>3. net \in [G -> Int] /\ SumOf(net) = NetBefore(lines) /\ NetBefore(lines) \in Int
    BY <1>1, NetByGroup
  <1>4. \A i \in G : net[i] \in Int /\ net[i] > 0 /\ w[i] = net[i] /\ net[i] = GroupNet(lines, i)
    <2> SUFFICES ASSUME NEW i \in G
                 PROVE  net[i] \in Int /\ net[i] > 0 /\ w[i] = net[i] /\ net[i] = GroupNet(lines, i)
      OBVIOUS
    <2>1. PICK x \in Int : x = GroupNet(lines, i)
      BY <1>1, GroupsAre
    <2>2. i \in DOMAIN lines /\ x # 0
      BY <1>1, <2>1, GroupsAre
    <2>3. x >= 0
      BY <2>1, <2>2 DEF NoneBelowZero
    <2>4. w[i] = NonNegative(x) /\ net[i] = x
      BY <1>1, <2>1 DEF Weights
    <2>5. NonNegative(x) = x
      BY <2>3 DEF NonNegative
    <2>6. QED
      BY <2>1, <2>2, <2>3, <2>4, <2>5
  <1>5. w \in [G -> Nat] /\ w \in [G -> Int]
    BY <1>1, WeightsAre
  <1>6. w = net
    <2>1. w = [i \in G |-> w[i]] /\ net = [i \in G |-> net[i]]
      BY <1>3, <1>5
    <2>2. QED
      BY <1>4, <2>1
  <1>7. PICK n \in Nat : n = SumOf(w) /\ n = NetBefore(lines)
    <2>1. \A i \in G : w[i] >= 0
      BY <1>4
    <2>2. SumOf(w) \in Nat
      BY <1>2, <1>5, <2>1, SumNat
    <2>3. QED
      BY <1>3, <1>6, <2>2
  <1>8. PICK h \in Nat : h = HeaderDiscount(lines, d) /\ h <= n
    <2>1. HeaderDiscount(lines, d) \in Int
      BY HeaderIs
    <2>2. 0 <= HeaderDiscount(lines, d) /\ HeaderDiscount(lines, d) <= NetBefore(lines)
      BY <1>7, HeaderIs
    <2>3. QED
      BY <1>7, <2>1, <2>2
  <1>9. PICK alloc : alloc = Allocate(h, w)
    OBVIOUS
  <1>10. alloc \in [G -> Nat] /\ SumOf(alloc) = h
    <2>1. CASE n > 0
      <3>1. SumOf(w) > 0
        BY <1>7, <2>1
      <3>2. Allocate(h, w) \in [G -> Nat] /\ SumOf(Allocate(h, w)) = h
        BY <1>2, <1>5, <3>1, AllocateAddsUp
      <3>3. QED
        BY <1>9, <3>2
    <2>2. CASE n = 0
      <3>1. h = 0
        BY <1>8, <2>2
      <3>2. alloc = [i \in G |-> 0]
        BY <1>5, <1>9, <3>1 DEF Allocate
      <3>3. alloc \in [G -> Int] /\ alloc \in [G -> Nat] /\ \A i \in G : alloc[i] = 0
        BY <3>2
      <3>4. SumOf(alloc) = 0
        BY <1>2, <3>3, SumZero
      <3>5. QED
        BY <3>1, <3>3, <3>4
    <2>3. QED
      BY <1>7, <2>1, <2>2
  <1>11. \A i \in G : alloc[i] <= w[i]
    <2> SUFFICES ASSUME NEW i \in G
                 PROVE  alloc[i] <= w[i]
      OBVIOUS
    <2>1. \A j \in G : w[j] > 0
      BY <1>4
    <2>2. h <= SumOf(w)
      BY <1>7, <1>8
    <2>3. Allocate(h, w)[i] <= w[i]
      BY <1>2, <1>5, <2>1, <2>2, AllocateBelow
    <2>4. QED
      BY <1>9, <2>3
  <1>12. PICK disc : disc = DiscountedNets(lines, d)
    OBVIOUS
  <1>13. disc \in [G -> Int] /\ \A i \in G : disc[i] = net[i] - alloc[i]
    <2>1. disc \in [G -> Int] /\ \A i \in G : disc[i] = GroupNet(lines, i) - Allocate(HeaderDiscount(lines, d), Weights(lines))[i]
      BY <1>1, <1>12, DiscountedIs
    <2>2. QED
      BY <1>1, <1>4, <1>8, <1>9, <2>1
  <1>14. PICK a \in Int : a = SumOf(disc)
    BY <1>2, <1>13, SumTyped
  <1>15. SumOf(net) = SumOf(disc) + SumOf(alloc)
    <2>1. alloc \in [G -> Int]
      BY <1>10
    <2>2. \A i \in G : net[i] = disc[i] + alloc[i]
      <3> SUFFICES ASSUME NEW i \in G
                   PROVE  net[i] = disc[i] + alloc[i]
        OBVIOUS
      <3>1. PICK x \in Int, y \in Int : x = net[i] /\ y = alloc[i]
        BY <1>3, <2>1
      <3>2. disc[i] = x - y
        BY <1>13, <3>1
      <3>3. QED
        BY <3>1, <3>2
    <2>3. IsFiniteSet(G) /\ net \in [G -> Int] /\ disc \in [G -> Int]
      BY <1>2, <1>3, <1>13
    <2>4. QED
      BY <2>1, <2>2, <2>3, SumPlus
  <1>16. Net(lines, d) = NetBefore(lines) - HeaderDiscount(lines, d)
    <2>1. Net(lines, d) = a
      BY <1>12, <1>14 DEF Net
    <2>2. n = a + h
      BY <1>3, <1>7, <1>10, <1>14, <1>15
    <2>3. QED
      BY <1>7, <1>8, <2>1, <2>2
  <1>17. ASSUME NEW g \in G
         PROVE  disc[g] \in 0 .. GroupNet(lines, g)
    <2>1. PICK x \in Int, y \in Nat : x = net[g] /\ y = alloc[g] /\ y <= x
      BY <1>3, <1>4, <1>10, <1>11
    <2>2. disc[g] = x - y /\ GroupNet(lines, g) = x
      BY <1>4, <1>13, <2>1
    <2>3. x - y \in 0 .. x
      BY <2>1
    <2>4. QED
      BY <2>2, <2>3
  <1>18. QED
    BY <1>1, <1>12, <1>16, <1>17

----------------------------------------------------------------------------------
(* The VAT. *)

LEMMA VatsAre ==
  ASSUME NEW lines, Lines(lines), NEW d \in Discount
  PROVE  GroupVats(lines, d) \in [Groups(lines) -> Nat] /\ Vat(lines, d) \in Nat
  <1>1. PICK G, disc, vat : G = Groups(lines) /\ disc = DiscountedNets(lines, d) /\ vat = GroupVats(lines, d)
    OBVIOUS
  <1>2. IsFiniteSet(G) /\ disc \in [G -> Int]
    BY <1>1, GroupsAre, DiscountedIs
  <1>3. vat = [i \in G |-> Share(Abs(disc[i]), lines[i].rate)]
    BY <1>1 DEF GroupVats
  <1>4. ASSUME NEW i \in G
        PROVE  Share(Abs(disc[i]), lines[i].rate) \in Nat
    <2>1. PICK r \in Nat : r = lines[i].rate
      BY <1>1, GroupsAre, LinesAre
    <2>2. Abs(disc[i]) \in Nat
      BY <1>2 DEF Abs
    <2>3. QED
      BY <2>1, <2>2, ShareBounds
  <1>5. vat \in [G -> Nat] /\ vat \in [G -> Int] /\ \A i \in G : vat[i] >= 0
    BY <1>3, <1>4
  <1>6. SumOf(vat) \in Nat
    BY <1>2, <1>5, SumNat
  <1>7. QED
    BY <1>1, <1>5, <1>6 DEF Vat

LineWeights(lines, i) == [j \in Members(lines, i) |-> NonNegative(LineNet(lines[j]))]

\* A group above nothing has lines to give its VAT to.
LEMMA LineWeightsAre ==
  ASSUME NEW lines, Lines(lines), NEW i \in DOMAIN lines, GroupNet(lines, i) > 0
  PROVE  LineWeights(lines, i) \in [Members(lines, i) -> Nat] /\ SumOf(LineWeights(lines, i)) > 0
  <1>1. PICK M, net, w : /\ M = Members(lines, i) /\ w = LineWeights(lines, i)
                         /\ net = [j \in Members(lines, i) |-> LineNet(lines[j])]
    OBVIOUS
  <1>2. IsFiniteSet(M) /\ M \in SUBSET DOMAIN lines
    BY <1>1, GroupsAre, MembersAre
  <1>3. ASSUME NEW j \in M
        PROVE  net[j] \in Int /\ w[j] \in Nat /\ net[j] <= w[j]
    <2>1. PICK x \in Int : x = LineNet(lines[j])
      <3>1. Nets(lines) \in [DOMAIN lines -> Int]
        BY LinesAre
      <3>2. QED
        BY <1>2, <3>1 DEF Nets
    <2>2. net[j] = x /\ w[j] = NonNegative(x)
      BY <1>1, <2>1 DEF LineWeights
    <2>3. NonNegative(x) \in Nat /\ x <= NonNegative(x)
      BY DEF NonNegative
    <2>4. QED
      BY <2>2, <2>3
  <1>4. net \in [M -> Int] /\ w \in [M -> Nat]
    BY <1>1, <1>3 DEF LineWeights
  <1>5. w \in [M -> Int] /\ \A j \in M : net[j] <= w[j]
    BY <1>3, <1>4
  <1>6. SumOf(net) <= SumOf(w) /\ SumOf(w) \in Int
    BY <1>2, <1>4, <1>5, SumAtLeast, SumTyped
  <1>7. SumOf(net) \in Int /\ SumOf(net) > 0
    <2>1. SumOf(net) = GroupNet(lines, i)
      BY <1>1 DEF GroupNet
    <2>2. QED
      BY <2>1, GroupsAre
  <1>8. QED
    BY <1>1, <1>4, <1>6, <1>7

\* The VAT of the lines is the VAT of the invoice.
LEMMA LineVatsAddUp ==
  ASSUME NEW lines, Lines(lines), NEW d \in Discount, NoneBelowZero(lines)
  PROVE  SumOf(LineVats(lines, d)) = Vat(lines, d)
  <1>1. PICK S, G, vat, share :
          /\ S = DOMAIN lines /\ G = Groups(lines) /\ vat = GroupVats(lines, d)
          /\ share = [i \in Groups(lines) |-> Allocate(GroupVats(lines, d)[i], LineWeights(lines, i))]
    OBVIOUS
  <1>2. IsFiniteSet(S) /\ IsFiniteSet(G) /\ G \in SUBSET S /\ S \in SUBSET Nat
    BY <1>1, LinesAre, GroupsAre
  <1>3. vat \in [G -> Nat] /\ vat \in [G -> Int]
    BY <1>1, VatsAre
  <1>4. ASSUME NEW i \in G
        PROVE  /\ share[i] \in [Members(lines, i) -> Nat] /\ SumOf(share[i]) = vat[i]
               /\ Members(lines, i) \in SUBSET S
    <2>1. i \in DOMAIN lines /\ Members(lines, i) \in SUBSET S
      BY <1>1, <1>2, MembersAre
    <2>2. PICK x \in Int : x = GroupNet(lines, i)
      BY <2>1, GroupsAre
    <2>3. x > 0
      <3>1. x # 0
        BY <1>1, <2>1, <2>2, GroupsAre
      <3>2. x >= 0
        BY <2>1, <2>2 DEF NoneBelowZero
      <3>3. QED
        BY <3>1, <3>2
    <2>4. PICK w, M : w = LineWeights(lines, i) /\ M = Members(lines, i)
      OBVIOUS
    <2>5. w \in [M -> Nat] /\ SumOf(w) > 0
      BY <2>1, <2>2, <2>3, <2>4, LineWeightsAre
    <2>6. M \subseteq Nat /\ IsFiniteSet(M)
      BY <1>1, <1>2, <2>1, <2>4, GroupsAre
    <2>7. PICK v \in Nat : v = vat[i]
      BY <1>3
    <2>8. Allocate(v, w) \in [M -> Nat] /\ SumOf(Allocate(v, w)) = v
      BY <2>5, <2>6, AllocateAddsUp
    <2>9. share[i] = Allocate(v, w)
      BY <1>1, <2>4, <2>7
    <2>10. QED
      BY <2>1, <2>4, <2>7, <2>8, <2>9
  <1>5. PICK F : F = [i \in G |-> [j \in S |-> IF j \in Members(lines, i) THEN share[i][j] ELSE 0]]
    OBVIOUS
  <1>6. ASSUME NEW i \in G
        PROVE  F[i] \in [S -> Int] /\ SumOf(F[i]) = vat[i]
    <2>1. PICK M, f, s : M = Members(lines, i) /\ f = F[i] /\ s = share[i]
      OBVIOUS
    <2>2. s \in [M -> Nat] /\ SumOf(s) = vat[i] /\ M \in SUBSET S
      BY <1>4, <2>1
    <2>3. f = [j \in S |-> IF j \in M THEN s[j] ELSE 0]
      BY <1>5, <2>1
    <2>4. f \in [S -> Int] /\ \A j \in S \ M : f[j] = 0
      BY <2>2, <2>3
    <2>5. SumOf(f) = Part(f, M)
      BY <1>2, <2>2, <2>4, SumWhere
    <2>6. [j \in M |-> f[j]] = s
      BY <2>2, <2>3
    <2>7. SumOf(f) = SumOf(s)
      BY <2>5, <2>6 DEF Part
    <2>8. QED
      BY <2>1, <2>2, <2>4, <2>7
  <1>7. F \in Table(G, S)
    <2>1. F = [i \in G |-> F[i]]
      BY <1>5
    <2>2. QED
      BY <1>6, <2>1 DEF Table
  <1>8. PICK col : col = LineVats(lines, d)
    OBVIOUS
  <1>9. col = [j \in S |-> SumOf([i \in G |-> IF j \in Members(lines, i) THEN share[i][j] ELSE 0])]
    BY <1>1, <1>8 DEF LineVats, LineWeights
  <1>10. ASSUME NEW j \in S
         PROVE  col[j] = SumOf(Column(F, G, j)) /\ col[j] \in Int
    <2>1. Column(F, G, j) = [i \in G |-> IF j \in Members(lines, i) THEN share[i][j] ELSE 0]
      BY <1>5 DEF Column
    <2>2. Column(F, G, j) \in [G -> Int]
      BY <1>6 DEF Column
    <2>3. SumOf(Column(F, G, j)) \in Int
      BY <1>2, <2>2, SumTyped
    <2>4. QED
      BY <1>9, <2>1, <2>3
  <1>11. col \in [S -> Int]
    BY <1>9, <1>10
  <1>12. SumOf(vat) = SumOf(col)
    <2>1. \A i \in G : vat[i] = SumOf(F[i])
      BY <1>6
    <2>2. \A j \in S : col[j] = SumOf(Column(F, G, j))
      BY <1>10
    <2>3. IsFiniteSet(G) /\ IsFiniteSet(S) /\ vat \in [G -> Int]
      BY <1>2, <1>3
    <2>4. QED
      BY <1>7, <1>11, <2>1, <2>2, <2>3, SumSwap
  <1>13. QED
    BY <1>1, <1>8, <1>12 DEF Vat

\* What the rates break the VAT down in is the VAT of the invoice.
LEMMA BreakdownAddsUp ==
  ASSUME NEW lines, Lines(lines), NEW d \in Discount, NEW by, by = Breakdown(lines, d)
  PROVE  SumOf([r \in DOMAIN by |-> by[r].vat]) = Vat(lines, d)
  <1>1. PICK G, vat, taxed, rate :
          /\ G = Groups(lines) /\ vat = GroupVats(lines, d)
          /\ taxed = {i \in Groups(lines) : GroupVats(lines, d)[i] # 0}
          /\ rate = [i \in G |-> lines[i].rate]
    OBVIOUS
  <1>2. IsFiniteSet(G) /\ vat \in [G -> Int] /\ taxed \in SUBSET G /\ \A i \in G \ taxed : vat[i] = 0
    BY <1>1, GroupsAre, VatsAre
  <1>3. IsFiniteSet(taxed)
    BY <1>2, FS_Subset
  <1>4. PICK K, key, f : K = {rate[i] : i \in taxed} /\ key = [i \in taxed |-> rate[i]] /\ f = [i \in taxed |-> vat[i]]
    OBVIOUS
  <1>5. IsFiniteSet(K)
    BY <1>3, <1>4, FiniteImage
  <1>6. key \in [taxed -> K] /\ f \in [taxed -> Int]
    BY <1>2, <1>4
  <1>7. PICK totals : totals = [r \in DOMAIN by |-> by[r].vat]
    OBVIOUS
  <1>8. totals = [r \in K |-> SumOf([i \in {k \in taxed : rate[k] = r} |-> vat[i]])]
    <2>1. K = {lines[i].rate : i \in taxed}
      BY <1>1, <1>2, <1>4
    <2>2. \A r : {k \in taxed : rate[k] = r} = {k \in taxed : lines[k].rate = r}
      BY <1>1, <1>2
    <2>3. DOMAIN by = {lines[i].rate : i \in taxed}
      BY <1>1 DEF Breakdown
    <2>4. \A r \in DOMAIN by : by[r].vat = SumOf([i \in {k \in taxed : lines[k].rate = r} |-> vat[i]])
      BY <1>1 DEF Breakdown
    <2>5. QED
      BY <1>7, <2>1, <2>2, <2>3, <2>4
  <1>9. DOMAIN totals = K /\ totals = [r \in K |-> totals[r]]
    BY <1>8
  <1>10. \A r \in K : totals[r] = Part(f, {x \in taxed : key[x] = r})
    <2> SUFFICES ASSUME NEW r \in K
                 PROVE  totals[r] = Part(f, {x \in taxed : key[x] = r})
      OBVIOUS
    <2>1. PICK T : T = {k \in taxed : rate[k] = r}
      OBVIOUS
    <2>2. T = {x \in taxed : key[x] = r}
      BY <1>4, <2>1
    <2>3. [i \in T |-> vat[i]] = [i \in T |-> f[i]]
      BY <1>4, <2>1
    <2>4. totals[r] = SumOf([i \in T |-> vat[i]])
      BY <1>8, <2>1
    <2>5. QED
      BY <2>2, <2>3, <2>4 DEF Part
  <1>11. SumOf(totals) = SumOf(f)
    BY <1>3, <1>5, <1>6, <1>9, <1>10, SumSorted
  <1>12. SumOf(vat) = Part(vat, taxed)
    BY <1>2, SumWhere
  <1>13. Part(vat, taxed) = SumOf(f)
    BY <1>4 DEF Part
  <1>14. QED
    BY <1>1, <1>7, <1>11, <1>12, <1>13 DEF Vat

\* The legs of the groups carry the net.
LEMMA GroupLegsAre ==
  ASSUME NEW lines, Lines(lines), NEW d \in Discount, NEW sign \in Int,
         NEW legs, legs = GroupLegs(lines, d, sign), NEW amounts, amounts = [l \in legs |-> l.amount]
  PROVE  /\ IsFiniteSet(legs) /\ amounts \in [legs -> Int] /\ SumOf(amounts) = sign * Net(lines, d)
         /\ Net(lines, d) \in Int /\ \A l \in legs : l.group # 0
  <1>1. PICK G, disc, D :
          /\ G = Groups(lines) /\ disc = DiscountedNets(lines, d)
          /\ D = {g \in Groups(lines) : DiscountedNets(lines, d)[g] # 0}
    OBVIOUS
  <1>2. IsFiniteSet(G) /\ disc \in [G -> Int] /\ D \in SUBSET G /\ \A g \in G \ D : disc[g] = 0
    BY <1>1, GroupsAre, DiscountedIs
  <1>3. 0 \notin D
    BY <1>1, GroupsAre, LinesAre
  <1>4. IsFiniteSet(D)
    BY <1>2, FS_Subset
  <1>5. PICK leg : leg = [i \in D |-> [account |-> lines[i].gl, group |-> i, code |-> lines[i].code,
                                       amount |-> sign * disc[i], vat |-> sign * GroupVats(lines, d)[i]]]
    OBVIOUS
  <1>6. legs = {leg[i] : i \in D}
    BY <1>1, <1>5 DEF GroupLegs
  <1>7. ASSUME NEW i \in D
        PROVE  leg[i].group = i /\ leg[i].amount = sign * disc[i] /\ sign * disc[i] \in Int
    <2>1. leg[i].group = i /\ leg[i].amount = sign * disc[i]
      BY <1>5
    <2>2. PICK x \in Int : x = disc[i]
      BY <1>2
    <2>3. sign * x \in Int
      OBVIOUS
    <2>4. QED
      BY <2>1, <2>2, <2>3
  <1>8. IsFiniteSet(legs)
    BY <1>4, <1>6, FiniteImage
  <1>9. amounts \in [legs -> Int]
    <2>1. \A l \in legs : l.amount \in Int
      BY <1>6, <1>7
    <2>2. QED
      BY <2>1
  <1>10. PICK h, f : h = [i \in D |-> sign * disc[i]] /\ f = [i \in D |-> disc[i]]
    OBVIOUS
  <1>11. h \in [D -> Int] /\ f \in [D -> Int] /\ \A i \in D : h[i] = sign * f[i]
    BY <1>2, <1>7, <1>10
  <1>12. leg \in [D -> legs]
    <2>1. leg = [i \in D |-> leg[i]]
      BY <1>5
    <2>2. QED
      BY <1>6, <2>1
  <1>13. Renames(leg, h, amounts, D, legs)
    <2>1. \A i \in D : h[i] = amounts[leg[i]]
      BY <1>7, <1>10, <1>12
    <2>2. \A i, j \in D : leg[i] = leg[j] => i = j
      <3> SUFFICES ASSUME NEW i \in D, NEW j \in D, leg[i] = leg[j]
                   PROVE  i = j
        OBVIOUS
      <3>1. leg[i].group = i /\ leg[j].group = j
        BY <1>7
      <3>2. QED
        BY <3>1
    <2>3. \A l \in legs : \E i \in D : leg[i] = l
      BY <1>6
    <2>4. QED
      BY <1>4, <1>8, <1>9, <1>11, <1>12, <2>1, <2>2, <2>3 DEF Renames
  <1>14. SumOf(h) = SumOf(amounts)
    BY <1>13, SumRenamed
  <1>15. SumOf(h) = sign * SumOf(f)
    BY <1>4, <1>11, SumScaled
  <1>16. SumOf(f) = Net(lines, d)
    <2>1. SumOf(disc) = Part(disc, D)
      BY <1>2, SumWhere
    <2>2. QED
      BY <1>1, <1>10, <2>1 DEF Part, Net
  <1>17. SumOf(f) \in Int
    BY <1>4, <1>11, SumTyped
  <1>18. \A l \in legs : l.group # 0
    BY <1>3, <1>6, <1>7
  <1>19. QED
    BY <1>8, <1>9, <1>14, <1>15, <1>16, <1>17, <1>18

\* The entry of an invoice balances, whatever its lines and its discount.
LEMMA PostingsBalance ==
  ASSUME NEW lines, Lines(lines), NEW d \in Discount, NEW credit \in BOOLEAN,
         NEW legs, legs = Postings(lines, d, credit)
  PROVE  SumOf([l \in legs |-> l.amount]) = 0
  <1>1. PICK s \in Int : s = Sign(credit)
    BY DEF Sign
  <1>2. PICK A, V, debtors : /\ A = GroupLegs(lines, d, s) /\ V = VatLeg(lines, d, s)
                             /\ debtors = DebtorsLeg(lines, d, credit)
    OBVIOUS
  <1>3. legs = A \cup V \cup {debtors}
    BY <1>1, <1>2 DEF Postings
  <1>4. PICK n \in Int, v \in Nat : n = Net(lines, d) /\ v = Vat(lines, d)
    BY GroupLegsAre, VatsAre
  <1>5. PICK f : f = [l \in legs |-> l.amount]
    OBVIOUS
  <1>6. /\ IsFiniteSet(A) /\ [l \in A |-> l.amount] \in [A -> Int] /\ SumOf([l \in A |-> l.amount]) = s * n
        /\ \A l \in A : l.group # 0
    BY <1>2, <1>4, GroupLegsAre
  <1>7. PICK tax : tax = [account |-> "vat", group |-> 0, code |-> "none", amount |-> s * v, vat |-> 0]
    OBVIOUS
  <1>8. V = IF v > 0 THEN {tax} ELSE {}
    BY <1>2, <1>4, <1>7 DEF VatLeg
  <1>9. debtors = [account |-> "debtors", group |-> 0, code |-> "none", amount |-> -s * (n + v), vat |-> 0]
    BY <1>1, <1>2, <1>4 DEF DebtorsLeg, Gross
  <1>10. /\ tax.group = 0 /\ debtors.group = 0 /\ tax # debtors
         /\ tax.amount = s * v /\ debtors.amount = -s * (n + v)
         /\ s * v \in Int /\ -s * (n + v) \in Int
    <2>1. tax.account = "vat" /\ debtors.account = "debtors" /\ "vat" # "debtors"
      BY <1>7, <1>9
    <2>2. tax # debtors
      BY <2>1
    <2>3. s * v \in Int /\ -s * (n + v) \in Int
      OBVIOUS
    <2>4. QED
      BY <1>7, <1>9, <2>2, <2>3
  <1>11. tax \notin A /\ debtors \notin A
    BY <1>6, <1>10
  <1>12. IsFiniteSet(V) /\ IsFiniteSet(legs)
    <2>1. IsFiniteSet({}) /\ IsFiniteSet({tax}) /\ IsFiniteSet({debtors})
      BY FS_EmptySet, FS_Singleton
    <2>2. IsFiniteSet(V)
      BY <1>8, <2>1
    <2>3. IsFiniteSet(A \cup V)
      BY <1>6, <2>2, FS_Union
    <2>4. QED
      BY <1>3, <2>1, <2>2, <2>3, FS_Union
  <1>13. f \in [legs -> Int]
    <2>1. \A l \in A : l.amount \in Int
      <3> SUFFICES ASSUME NEW l \in A
                   PROVE  l.amount \in Int
        OBVIOUS
      <3>1. PICK g : g = [k \in A |-> k.amount]
        OBVIOUS
      <3>2. g \in [A -> Int] /\ g[l] = l.amount
        BY <1>6, <3>1
      <3>3. QED
        BY <3>2
    <2>2. \A l \in V : l.amount \in Int
      BY <1>8, <1>10
    <2>3. debtors.amount \in Int
      BY <1>10
    <2>4. \A l \in legs : l.amount \in Int
      BY <1>3, <2>1, <2>2, <2>3
    <2>5. QED
      BY <1>5, <2>4
  <1>14. Part(f, A) = s * n
    <2>1. [l \in A |-> f[l]] = [l \in A |-> l.amount]
      BY <1>3, <1>5
    <2>2. QED
      BY <1>6, <2>1 DEF Part
  <1>15. Part(f, V) = s * v
    <2>1. CASE v > 0
      <3>1. V = {tax} /\ tax \in legs
        BY <1>3, <1>8, <2>1
      <3>2. Part(f, {tax}) = f[tax]
        BY <1>12, <1>13, <3>1, PartSingle
      <3>3. f[tax] = s * v
        BY <1>5, <1>10, <3>1
      <3>4. QED
        BY <3>1, <3>2, <3>3
    <2>2. CASE v = 0
      <3>1. V = {} /\ s * v = 0
        BY <1>8, <2>2
      <3>2. QED
        BY <3>1, PartEmpty
    <2>3. QED
      BY <2>1, <2>2
  <1>16. Part(f, {debtors}) = -s * (n + v)
    <2>1. debtors \in legs
      BY <1>3
    <2>2. Part(f, {debtors}) = f[debtors]
      BY <1>12, <1>13, <2>1, PartSingle
    <2>3. QED
      BY <1>5, <1>10, <2>1, <2>2
  <1>17. Part(f, A \cup V) = s * n + s * v
    <2>1. A \in SUBSET legs /\ V \in SUBSET legs /\ A \cap V = {}
      BY <1>3, <1>8, <1>11
    <2>2. Part(f, A \cup V) = Part(f, A) + Part(f, V)
      BY <1>12, <1>13, <2>1, SumJoin
    <2>3. QED
      BY <1>14, <1>15, <2>2
  <1>18. Part(f, legs) = (s * n + s * v) + -s * (n + v)
    <2>1. PICK B, E : B = A \cup V /\ E = {debtors}
      OBVIOUS
    <2>2. B \in SUBSET legs /\ E \in SUBSET legs /\ B \cap E = {} /\ legs = B \cup E
      BY <1>3, <1>8, <1>10, <1>11, <2>1
    <2>3. Part(f, B \cup E) = Part(f, B) + Part(f, E)
      BY <1>12, <1>13, <2>2, SumJoin
    <2>4. QED
      BY <1>16, <1>17, <2>1, <2>2, <2>3
  <1>19. (s * n + s * v) + -s * (n + v) = 0
    OBVIOUS
  <1>20. Part(f, legs) = SumOf(f)
    BY <1>13, PartAll
  <1>21. QED
    BY <1>5, <1>18, <1>19, <1>20

UpTo(D, date) == {x \in D : x <= date}

\* A rate fetched for a day before all that are stored disturbs no day that has one.
LEMMA FetchedIsApart ==
  ASSUME NEW r, DOMAIN r \in SUBSET Nat, IsFiniteSet(DOMAIN r), NEW date \in Nat, UpTo(DOMAIN r, date) = {},
         NEW seen \in Nat, seen <= date, NEW v, 
         NEW new, new = [d \in DOMAIN r \cup {seen} |-> IF d = seen THEN v ELSE r[d]]
  PROVE  /\ DOMAIN new = DOMAIN r \cup {seen}
         /\ UpTo(DOMAIN new, date) = {seen} /\ new[Max(UpTo(DOMAIN new, date))] = v
         /\ \A k \in Nat : UpTo(DOMAIN r, k) # {} =>
              /\ UpTo(DOMAIN new, k) # {}
              /\ new[Max(UpTo(DOMAIN new, k))] = r[Max(UpTo(DOMAIN r, k))]
  <1>1. PICK D : D = DOMAIN r
    OBVIOUS
  <1>2. D \in SUBSET Nat /\ IsFiniteSet(D) /\ \A x \in D : ~(x <= date)
    BY <1>1 DEF UpTo
  <1>3. DOMAIN new = D \cup {seen}
    BY <1>1
  <1>4. seen \notin D
    BY <1>2
  <1>5. new[seen] = v /\ \A x \in D : new[x] = r[x]
    BY <1>1, <1>4
  <1>6. UpTo(D \cup {seen}, date) = {seen}
    BY <1>2 DEF UpTo
  <1>7. Max({seen}) = seen
    <2>1. {seen} \in SUBSET Nat /\ IsFiniteSet({seen}) /\ {seen} # {}
      BY FS_Singleton
    <2>2. Max({seen}) \in {seen}
      BY <2>1, Greatest
    <2>3. QED
      BY <2>2
  <1>8. ASSUME NEW k \in Nat, UpTo(D, k) # {}
        PROVE  /\ UpTo(D \cup {seen}, k) # {}
               /\ new[Max(UpTo(D \cup {seen}, k))] = r[Max(UpTo(D, k))]
    <2>1. PICK A, B : A = UpTo(D, k) /\ B = UpTo(D \cup {seen}, k)
      OBVIOUS
    <2>2. A \in SUBSET D /\ A # {} /\ A \subseteq B /\ B \subseteq A \cup {seen}
      BY <1>8, <2>1 DEF UpTo
    <2>3. A \in SUBSET Nat /\ B \in SUBSET Nat
      BY <1>2, <2>2
    <2>4. IsFiniteSet(A) /\ IsFiniteSet(B)
      <3>1. IsFiniteSet(A)
        BY <1>2, <2>2, FS_Subset
      <3>2. IsFiniteSet(A \cup {seen})
        BY <3>1, FS_AddElement
      <3>3. QED
        BY <2>2, <3>1, <3>2, FS_Subset
    <2>5. PICK m : m = Max(A) /\ m \in A /\ \A x \in A : x <= m
      BY <2>2, <2>3, <2>4, Greatest
    <2>6. PICK n : n = Max(B) /\ n \in B /\ \A x \in B : x <= n
      <3>1. B # {}
        BY <2>2
      <3>2. QED
        BY <2>3, <2>4, <3>1, Greatest
    <2>7. m \in Nat /\ n \in Nat /\ m \in D /\ ~(m <= date)
      BY <1>2, <2>2, <2>3, <2>5, <2>6
    <2>8. m <= n
      BY <2>2, <2>5, <2>6
    <2>9. n # seen
      BY <2>7, <2>8
    <2>10. n \in A
      BY <2>2, <2>6, <2>9
    <2>11. n <= m
      BY <2>5, <2>10
    <2>12. n = m
      BY <2>7, <2>8, <2>11
    <2>13. new[m] = r[m]
      BY <1>5, <2>7
    <2>14. B # {}
      BY <2>2
    <2>15. QED
      BY <2>1, <2>5, <2>6, <2>12, <2>13, <2>14
  <1>9. QED
    BY <1>1, <1>3, <1>5, <1>6, <1>7, <1>8

----------------------------------------------------------------------------------
(* The inductive invariant of the rates: every entry that names no rate has *)
(* the one that is found for its day, and there is one.                     *)

RatesAreStored ==
  ~setByHand => \A e \in foreign : e.auto =>
    /\ e.date \in Nat /\ UpTo(DOMAIN rates, e.date) # {}
    /\ rates[Max(UpTo(DOMAIN rates, e.date))] = e.rate

StoredDays == DOMAIN rates \in SUBSET Nat /\ IsFiniteSet(DOMAIN rates)

RatesRight == StoredDays /\ RatesAreStored

LEMMA RatesRightInit == RatesInit => RatesRight
  <1> SUFFICES ASSUME RatesInit
               PROVE  RatesRight
    OBVIOUS
  <1>1. DOMAIN rates = {} /\ foreign = {}
    BY DEF RatesInit
  <1>2. QED
    BY <1>1, FS_EmptySet DEF RatesRight, StoredDays, RatesAreStored

LEMMA RatesGiveOne == RatesRight => OneRateADay
  <1> SUFFICES ASSUME RatesRight
               PROVE  OneRateADay
    OBVIOUS
  <1>1. \A date : Known(date) = UpTo(DOMAIN rates, date)
    BY DEF Known, UpTo
  <1>2. ASSUME ~setByHand, NEW e \in foreign, e.auto
        PROVE  Resolvable(e.date) /\ Resolved(e.date) = e.rate
    <2>1. Known(e.date) # {} /\ rates[Max(Known(e.date))] = e.rate
      BY <1>1, <1>2 DEF RatesRight, RatesAreStored
    <2>2. QED
      BY <2>1 DEF Resolvable, Resolved
  <1>3. ASSUME ~setByHand, NEW e \in foreign, NEW f \in foreign, e.auto, f.auto, e.date = f.date
        PROVE  e.rate = f.rate
    <2>1. Resolved(e.date) = e.rate /\ Resolved(f.date) = f.rate
      BY <1>2, <1>3
    <2>2. QED
      BY <1>3, <2>1
  <1>4. QED
    BY <1>2, <1>3 DEF OneRateADay

\* An observation is of a day up to the one asked for.
LEMMA ObservedIs ==
  ASSUME NEW date \in Nat, Observations(date) # {}
  PROVE  Max(Observations(date)) \in Nat /\ Max(Observations(date)) <= date
  <1>1. PICK S : S = Observations(date)
    OBVIOUS
  <1>2. S \in SUBSET DOMAIN Published /\ \A x \in S : x <= date
    BY <1>1 DEF Observations
  <1>3. S \in SUBSET Nat /\ IsFiniteSet(S)
    BY <1>2, RatesAssumption, FS_Subset
  <1>4. Max(S) \in S
    BY <1>1, <1>3, Greatest
  <1>5. QED
    BY <1>1, <1>2, <1>3, <1>4

LEMMA BookForeignKeeps ==
  ASSUME RatesRight, NEW date \in Nat, NEW amounts, BookForeign(date, amounts)
  PROVE  RatesRight'
  <1>1. \A k : Known(k) = UpTo(DOMAIN rates, k)
    BY DEF Known, UpTo
  <1>2. PICK rate, eur :
          /\ rate = Resolved(date)
          /\ foreign' \subseteq foreign \cup {[date |-> date, auto |-> TRUE, rate |-> rate,
                                               amounts |-> amounts, eur |-> eur]}
    BY DEF BookForeign, BookAt
  <1>3. setByHand' = setByHand /\ rates' = AfterResolving(date) /\ Resolvable(date)
    BY DEF BookForeign
  <1>4. StoredDays /\ RatesAreStored
    BY DEF RatesRight
  <1>5. CASE UpTo(DOMAIN rates, date) # {}
    <2>1. rates' = rates /\ rate = rates[Max(UpTo(DOMAIN rates, date))]
      BY <1>1, <1>2, <1>3, <1>5 DEF AfterResolving, Resolved
    <2>2. StoredDays'
      BY <1>4, <2>1 DEF StoredDays
    <2>3. ASSUME ~setByHand', NEW e \in foreign', e.auto
          PROVE  /\ e.date \in Nat /\ UpTo(DOMAIN rates', e.date) # {}
                 /\ rates'[Max(UpTo(DOMAIN rates', e.date))] = e.rate
      <3>1. CASE e \in foreign
        BY <1>3, <1>4, <2>1, <2>3, <3>1 DEF RatesAreStored
      <3>2. CASE e \notin foreign
        <4>1. e.date = date /\ e.rate = rate
          BY <1>2, <2>3, <3>2
        <4>2. QED
          BY <1>5, <2>1, <4>1
      <3>3. QED
        BY <3>1, <3>2
    <2>4. QED
      BY <2>2, <2>3 DEF RatesRight, RatesAreStored
  <1>6. CASE UpTo(DOMAIN rates, date) = {}
    <2>1. PICK seen : seen = Max(Observations(date))
      OBVIOUS
    <2>2. seen \in Nat /\ seen <= date
      <3>1. Observations(date) # {}
        BY <1>1, <1>3, <1>6 DEF Resolvable
      <3>2. QED
        BY <2>1, <3>1, ObservedIs
    <2>3. PICK old, new, v : old = rates /\ new = rates' /\ v = Published[seen]
      OBVIOUS
    <2>4. new = [d \in DOMAIN old \cup {seen} |-> IF d = seen THEN v ELSE old[d]] /\ rate = v
      BY <1>1, <1>2, <1>3, <1>6, <2>1, <2>3 DEF AfterResolving, Resolved, Stored
    <2>5. DOMAIN old \in SUBSET Nat /\ IsFiniteSet(DOMAIN old) /\ UpTo(DOMAIN old, date) = {}
      BY <1>4, <1>6, <2>3 DEF StoredDays
    <2>6. /\ DOMAIN new = DOMAIN old \cup {seen}
          /\ UpTo(DOMAIN new, date) = {seen} /\ new[Max(UpTo(DOMAIN new, date))] = v
          /\ \A k \in Nat : UpTo(DOMAIN old, k) # {} =>
               /\ UpTo(DOMAIN new, k) # {}
               /\ new[Max(UpTo(DOMAIN new, k))] = old[Max(UpTo(DOMAIN old, k))]
      BY <2>2, <2>4, <2>5, FetchedIsApart
    <2>7. StoredDays'
      <3>1. DOMAIN new \in SUBSET Nat /\ IsFiniteSet(DOMAIN new)
        BY <2>2, <2>5, <2>6, FS_AddElement
      <3>2. QED
        BY <2>3, <3>1 DEF StoredDays
    <2>8. ASSUME ~setByHand', NEW e \in foreign', e.auto
          PROVE  /\ e.date \in Nat /\ UpTo(DOMAIN new, e.date) # {}
                 /\ new[Max(UpTo(DOMAIN new, e.date))] = e.rate
      <3>1. CASE e \in foreign
        <4>1. /\ e.date \in Nat /\ UpTo(DOMAIN old, e.date) # {}
              /\ old[Max(UpTo(DOMAIN old, e.date))] = e.rate
          BY <1>3, <1>4, <2>3, <2>8, <3>1 DEF RatesAreStored
        <4>2. QED
          BY <2>6, <4>1
      <3>2. CASE e \notin foreign
        <4>1. e.date = date /\ e.rate = v
          BY <1>2, <2>4, <2>8, <3>2
        <4>2. QED
          BY <2>6, <4>1
      <3>3. QED
        BY <3>1, <3>2
    <2>9. RatesAreStored'
      BY <2>3, <2>8 DEF RatesAreStored
    <2>10. QED
      BY <2>7, <2>9 DEF RatesRight
  <1>7. QED
    BY <1>5, <1>6

LEMMA BookForeignAtKeeps ==
  ASSUME RatesRight, NEW date, NEW amounts, NEW rate, BookForeignAt(date, amounts, rate)
  PROVE  RatesRight'
  <1>1. rates' = rates /\ setByHand' = setByHand
    BY DEF BookForeignAt
  <1>2. \A e \in foreign' : e \in foreign \/ ~e.auto
    BY DEF BookForeignAt, BookAt
  <1>3. StoredDays /\ RatesAreStored
    BY DEF RatesRight
  <1>4. StoredDays'
    BY <1>1, <1>3 DEF StoredDays
  <1>5. RatesAreStored'
    BY <1>1, <1>2, <1>3 DEF RatesAreStored
  <1>6. QED
    BY <1>4, <1>5 DEF RatesRight

LEMMA SetRateKeeps ==
  ASSUME RatesRight, NEW date \in Nat, NEW rate, SetRate(date, rate)
  PROVE  RatesRight'
  <1>1. setByHand' = TRUE /\ DOMAIN rates' = DOMAIN rates \cup {date}
    BY DEF SetRate, Stored
  <1>2. StoredDays'
    BY <1>1, FS_AddElement DEF RatesRight, StoredDays
  <1>3. QED
    BY <1>1, <1>2 DEF RatesRight, RatesAreStored

----------------------------------------------------------------------------------
(* The inductive invariant of the invoices: a row carries the sums of its   *)
(* own lines and discount, and both are of the scenario.                    *)

RowRight(r) ==
  /\ {"type", "lines", "discount", "sums"} \subseteq DOMAIN r
  /\ r.lines \in bounds.lines /\ r.discount \in bounds.discounts /\ r.type \in {"sales", "credit"}
  /\ r.sums = Sums(r.lines, r.discount, r.type)

RowsListed == \E n \in Nat : DOMAIN invoices = 1 .. n /\ invoices = [i \in 1 .. n |-> invoices[i]]

RowsRight == RowsListed /\ bounds \in Scenarios /\ \A i \in Numbers : RowRight(invoices[i])

TradeInv == RatesRight /\ RowsRight

\* A row of the invariant adds up.
LEMMA RowAddsUp ==
  ASSUME NoGroupBelowZero, RowsRight
  PROVE  InvoicesAddUp
  <1> SUFFICES ASSUME NEW i \in Numbers, NEW lines, lines = invoices[i].lines, NEW d, d = invoices[i].discount
               PROVE  LET by == Breakdown(lines, d)
                      IN  /\ SumOf([l \in BookedLegs(i) |-> l.amount]) = 0
                          /\ SumOf([r \in DOMAIN by |-> by[r].vat]) = invoices[i].sums.vat
                          /\ IsDiscount(d) =>
                               /\ invoices[i].sums.net = NetBefore(lines) - HeaderDiscount(lines, d)
                               /\ SumOf(LineVats(lines, d)) = invoices[i].sums.vat
                               /\ \A g \in Groups(lines) : DiscountedNets(lines, d)[g] \in 0 .. GroupNet(lines, g)
    BY DEF InvoicesAddUp
  <1>1. PICK type : type = invoices[i].type
    OBVIOUS
  <1>2. lines \in bounds.lines /\ d \in bounds.discounts /\ invoices[i].sums = Sums(lines, d, type)
    BY <1>1 DEF RowsRight, RowRight
  <1>3. bounds \in Scenarios
    BY DEF RowsRight
  <1>4. Lines(lines) /\ d \in Discount
    BY <1>2, <1>3, TradeAssumption DEF Lines
  <1>5. NoneBelowZero(lines)
    BY <1>2, <1>3 DEF NoGroupBelowZero, NoneBelowZero
  <1>6. /\ invoices[i].sums.net = Net(lines, d) /\ invoices[i].sums.vat = Vat(lines, d)
        /\ invoices[i].sums.legs = Postings(lines, d, type = "credit")
    BY <1>2 DEF Sums
  <1>7. SumOf([l \in BookedLegs(i) |-> l.amount]) = 0
    <2>1. PICK credit \in BOOLEAN : credit = (type = "credit")
      OBVIOUS
    <2>2. BookedLegs(i) = Postings(lines, d, credit)
      BY <1>6, <2>1 DEF BookedLegs
    <2>3. QED
      BY <1>4, <2>2, PostingsBalance
  <1>8. \A by : by = Breakdown(lines, d) => SumOf([r \in DOMAIN by |-> by[r].vat]) = Vat(lines, d)
    BY <1>4, BreakdownAddsUp
  <1>9. SumOf(LineVats(lines, d)) = Vat(lines, d)
    BY <1>4, <1>5, LineVatsAddUp
  <1>10. IsDiscount(d) =>
           /\ Net(lines, d) = NetBefore(lines) - HeaderDiscount(lines, d)
           /\ \A g \in Groups(lines) : DiscountedNets(lines, d)[g] \in 0 .. GroupNet(lines, g)
    BY <1>4, <1>5, DiscountedAddUp
  <1>11. QED
    BY <1>6, <1>7, <1>8, <1>9, <1>10

LEMMA TradeInvInit == TradeInit => TradeInv
  <1> SUFFICES ASSUME TradeInit
               PROVE  TradeInv
    OBVIOUS
  <1>1. RatesRight
    BY RatesRightInit DEF TradeInit
  <1>2. invoices = << >> /\ bounds \in Scenarios
    BY DEF TradeInit
  <1>3. DOMAIN invoices = 1 .. 0 /\ invoices = [i \in 1 .. 0 |-> invoices[i]]
    BY <1>2
  <1>4. RowsListed /\ Numbers = {}
    BY <1>3 DEF RowsListed, Numbers
  <1>5. QED
    BY <1>1, <1>2, <1>4 DEF TradeInv, RowsRight

\* A row is added.
LEMMA RowAdded ==
  ASSUME RowsRight, NEW r, invoices' = Append(invoices, r), bounds' = bounds, RowRight(r)
  PROVE  RowsRight'
  <1>1. PICK n \in Nat : DOMAIN invoices = 1 .. n /\ invoices = [i \in 1 .. n |-> invoices[i]]
    BY DEF RowsRight, RowsListed
  <1>2. PICK X : X = {invoices[i] : i \in 1 .. n} \cup {r}
    OBVIOUS
  <1>3. invoices \in Seq(X) /\ r \in X /\ Len(invoices) = n
    BY <1>1, <1>2
  <1>4. /\ DOMAIN invoices' = 1 .. n + 1
        /\ \A i \in 1 .. n : invoices'[i] = invoices[i]
        /\ invoices'[n + 1] = r /\ invoices' \in Seq(X)
    BY <1>3
  <1>5. invoices' = [i \in 1 .. n + 1 |-> invoices'[i]] /\ n + 1 \in Nat
    <2>1. PICK s : s = invoices'
      OBVIOUS
    <2>2. s \in Seq(X) /\ DOMAIN s = 1 .. n + 1
      BY <1>4, <2>1
    <2>3. s \in [1 .. Len(s) -> X] /\ DOMAIN s = 1 .. Len(s)
      BY <2>2
    <2>4. s = [i \in DOMAIN s |-> s[i]]
      BY <2>3
    <2>5. QED
      BY <2>1, <2>2, <2>4
  <1>6. ASSUME NEW i \in Numbers'
        PROVE  RowRight(invoices'[i])
    <2>1. i \in 1 .. n \/ i = n + 1
      BY <1>4 DEF Numbers
    <2>2. CASE i \in 1 .. n
      <3>1. invoices'[i] = invoices[i] /\ i \in Numbers
        BY <1>1, <1>4, <2>2 DEF Numbers
      <3>2. QED
        BY <3>1 DEF RowsRight
    <2>3. CASE i = n + 1
      BY <1>4, <2>3
    <2>4. QED
      BY <2>1, <2>2, <2>3
  <1>7. \A q : RowRight(q) => RowRight(q)'
    BY DEF RowRight
  <1>8. RowsListed'
    BY <1>4, <1>5 DEF RowsListed
  <1>9. QED
    BY <1>6, <1>7, <1>8 DEF RowsRight, Numbers

\* A row is changed in what the invariant does not speak of.
LEMMA RowChanged ==
  ASSUME RowsRight, NEW i \in Numbers, NEW r, invoices' = [invoices EXCEPT ![i] = r], bounds' = bounds,
         RowRight(r)
  PROVE  RowsRight'
  <1>1. PICK n \in Nat : DOMAIN invoices = 1 .. n /\ invoices = [j \in 1 .. n |-> invoices[j]]
    BY DEF RowsRight, RowsListed
  <1>2. DOMAIN invoices' = 1 .. n /\ invoices' = [j \in 1 .. n |-> IF j = i THEN r ELSE invoices[j]]
    BY <1>1
  <1>3. invoices' = [j \in 1 .. n |-> invoices'[j]]
    BY <1>2
  <1>4. ASSUME NEW j \in Numbers'
        PROVE  RowRight(invoices'[j])
    <2>1. j \in Numbers /\ invoices'[j] = IF j = i THEN r ELSE invoices[j]
      BY <1>1, <1>2 DEF Numbers
    <2>2. QED
      BY <2>1 DEF RowsRight
  <1>5. \A q : RowRight(q) => RowRight(q)'
    BY DEF RowRight
  <1>6. RowsListed'
    BY <1>2, <1>3 DEF RowsListed
  <1>7. QED
    BY <1>4, <1>5, <1>6 DEF RowsRight

\* Every row stays one, whichever changed.
LEMMA RowsMapped ==
  ASSUME RowsRight, NEW f, invoices' = f, f = [i \in Numbers |-> f[i]], bounds' = bounds,
         \A i \in Numbers : RowRight(f[i])
  PROVE  RowsRight'
  <1>1. PICK n \in Nat : DOMAIN invoices = 1 .. n /\ invoices = [j \in 1 .. n |-> invoices[j]]
    BY DEF RowsRight, RowsListed
  <1>2. DOMAIN invoices' = 1 .. n /\ invoices' = [j \in 1 .. n |-> invoices'[j]]
    <2>1. DOMAIN f = 1 .. n /\ f = [j \in 1 .. n |-> f[j]]
      BY <1>1 DEF Numbers
    <2>2. QED
      BY <2>1
  <1>3. \A j \in Numbers' : RowRight(invoices'[j])
    BY <1>1, <1>2 DEF Numbers
  <1>4. \A q : RowRight(q) => RowRight(q)'
    BY DEF RowRight
  <1>5. RowsListed'
    BY <1>2 DEF RowsListed
  <1>6. QED
    BY <1>3, <1>4, <1>5 DEF RowsRight

LEMMA TradingKeeps ==
  ASSUME RowsRight, Trading, bounds' = bounds
  PROVE  RowsRight'
  <1>0. \A i \in Numbers : RowRight(invoices[i])
    BY DEF RowsRight
  <1>1. ASSUME NEW c \in bounds.contacts, NEW date \in bounds.days, NEW lines \in bounds.lines,
               NEW d \in bounds.discounts, NEW days \in bounds.terms, Create(c, date, lines, d, days)
        PROVE  RowsRight'
    <2>1. PICK r : /\ r = [type |-> "sales", status |-> "draft", contact |-> c, date |-> date, due |-> DueDate(date, days),
                           lines |-> lines, discount |-> d, sums |-> Sums(lines, d, "sales"), paid |-> 0, byHand |-> 0]
                   /\ invoices' = Append(invoices, r)
      BY <1>1 DEF Create
    <2>2. RowRight(r)
      BY <2>1 DEF RowRight
    <2>3. QED
      BY <2>1, <2>2, RowAdded
  <1>2. ASSUME NEW i \in Numbers, Credit(i)
        PROVE  RowsRight'
    <2>1. PICK old : old = invoices[i] /\ RowRight(old)
      BY <1>0
    <2>2. PICK r : /\ r = [old EXCEPT !.type = "credit", !.status = "draft", !.date = today,
                                      !.sums = Sums(old.lines, old.discount, "credit"), !.paid = 0, !.byHand = 0]
                   /\ invoices' = Append(invoices, r)
      BY <1>2, <2>1 DEF Credit
    <2>3. RowRight(r)
      BY <2>1, <2>2 DEF RowRight
    <2>4. QED
      BY <2>2, <2>3, RowAdded
  <1>3. ASSUME NEW i \in Numbers, Finalize(i)
        PROVE  RowsRight'
    <2>1. PICK old : old = invoices[i] /\ RowRight(old)
      BY <1>0
    <2>2. PICK r : r = [old EXCEPT !.status = "sent"] /\ invoices' = [invoices EXCEPT ![i] = r]
      BY <1>3, <2>1 DEF Finalize
    <2>3. RowRight(r)
      BY <2>1, <2>2 DEF RowRight
    <2>4. QED
      BY <2>2, <2>3, RowChanged
  <1>4. ASSUME NEW i \in Numbers, PayFromBank(i)
        PROVE  RowsRight'
    <2>1. PICK old, g : old = invoices[i] /\ RowRight(old) /\ g = GrossOf(i)
      BY <1>0
    <2>2. PICK r : r = [old EXCEPT !.paid = g, !.status = "paid"] /\ invoices' = [invoices EXCEPT ![i] = r]
      BY <1>4, <2>1 DEF PayFromBank
    <2>3. RowRight(r)
      BY <2>1, <2>2 DEF RowRight
    <2>4. QED
      BY <2>2, <2>3, RowChanged
  <1>5. ASSUME NEW e \in journal, ReverseEntry(e)
        PROVE  RowsRight'
    <2>1. PICK f : f = [i \in Numbers |-> IF IsOwn(e, i) THEN [invoices[i] EXCEPT !.status = "void"] ELSE invoices[i]]
      OBVIOUS
    <2>2. ASSUME NEW i \in Numbers
          PROVE  RowRight(f[i])
      <3>1. PICK old : old = invoices[i] /\ RowRight(old)
        BY <1>0
      <3>2. PICK r : r = [old EXCEPT !.status = "void"]
        OBVIOUS
      <3>3. RowRight(r)
        BY <3>1, <3>2 DEF RowRight
      <3>4. f[i] = r \/ f[i] = old
        BY <2>1, <3>1, <3>2
      <3>5. QED
        BY <3>1, <3>3, <3>4
    <2>3. invoices' = f /\ f = [i \in Numbers |-> f[i]]
      BY <1>5, <2>1 DEF ReverseEntry
    <2>4. QED
      BY <2>2, <2>3, RowsMapped
  <1>6. ASSUME NEW i \in Numbers, NEW amount, MarkPaid(i, amount)
        PROVE  RowsRight'
    <2>1. PICK old, paid, hand, status :
            /\ old = invoices[i] /\ RowRight(old) /\ paid = old.paid + amount /\ hand = old.byHand + amount
            /\ status = IF invoices[i].paid + amount >= GrossOf(i) THEN "paid" ELSE old.status
      BY <1>0
    <2>2. PICK r : /\ r = [old EXCEPT !.paid = paid, !.byHand = hand, !.status = status]
                   /\ invoices' = [invoices EXCEPT ![i] = r]
      BY <1>6, <2>1 DEF MarkPaid
    <2>3. RowRight(r)
      BY <2>1, <2>2 DEF RowRight
    <2>4. QED
      BY <2>2, <2>3, RowChanged
  <1>7. ASSUME NEW p \in Payables, NEW from, NEW to, MovePayable(p, from, to)
        PROVE  RowsRight'
    <2>1. invoices' = invoices
      BY <1>7 DEF MovePayable
    <2>2. QED
      BY <2>1 DEF RowsRight, RowsListed, Numbers, RowRight
  <1>8. QED
    BY <1>1, <1>2, <1>3, <1>4, <1>5, <1>6, <1>7 DEF Trading

LEMMA TradeInvNext == TradeInv /\ [TradeNext]_allVars => TradeInv'
  <1> SUFFICES ASSUME TradeInv, [TradeNext]_allVars
               PROVE  TradeInv'
    OBVIOUS
  <1>1. RatesRight /\ RowsRight
    BY DEF TradeInv
  <1>2. UNCHANGED trade => RowsRight'
    <2> SUFFICES ASSUME UNCHANGED trade
                 PROVE  RowsRight'
      OBVIOUS
    <2>1. invoices' = invoices /\ bounds' = bounds
      BY DEF trade
    <2>2. QED
      BY <1>1, <2>1 DEF RowsRight, RowsListed, Numbers, RowRight
  <1>3. UNCHANGED ratesVars => RatesRight'
    BY <1>1 DEF ratesVars, RatesRight, StoredDays, RatesAreStored
  <1>4. CASE Trading /\ UNCHANGED <<bounds, complianceVars, ratesVars>>
    <2>1. RowsRight'
      BY <1>1, <1>4, TradingKeeps
    <2>2. QED
      BY <1>3, <1>4, <2>1 DEF TradeInv
  <1>5. CASE Exchanging /\ UNCHANGED <<trade, complianceVars>>
    <2>1. bounds.fxDays \subseteq Nat
      BY <1>1, TradeAssumption DEF RowsRight
    <2>2. ASSUME NEW d \in bounds.fxDays, NEW l \in bounds.fxAmounts, BookForeign(d, l)
          PROVE  RatesRight'
      <3>1. d \in Nat
        BY <2>1
      <3>2. QED
        BY <1>1, <2>2, <3>1, BookForeignKeeps
    <2>3. ASSUME NEW d \in bounds.fxDays, NEW l \in bounds.fxAmounts, NEW r \in bounds.fxRates,
                 BookForeignAt(d, l, r)
          PROVE  RatesRight'
      BY <1>1, <2>3, BookForeignAtKeeps
    <2>4. ASSUME NEW d \in bounds.fxDays, NEW r \in bounds.fxRates, SetRate(d, r)
          PROVE  RatesRight'
      <3>1. d \in Nat
        BY <2>1
      <3>2. QED
        BY <1>1, <2>4, <3>1, SetRateKeeps
    <2>5. RatesRight'
      BY <1>5, <2>2, <2>3, <2>4 DEF Exchanging
    <2>6. QED
      BY <1>2, <1>5, <2>5 DEF TradeInv
  <1>6. CASE UNCHANGED <<trade, ratesVars>>
    BY <1>2, <1>3, <1>6 DEF TradeInv
  <1>7. CASE UNCHANGED allVars
    <2>1. UNCHANGED <<trade, ratesVars>>
      BY <1>7 DEF allVars, trade, ratesVars
    <2>2. QED
      BY <1>6, <2>1
  <1>8. QED
    BY <1>4, <1>5, <1>6, <1>7 DEF TradeNext

(***************************************************************************)
(* The amounts of every invoice add up to the cent, whatever its lines and  *)
(* rates, as long as none of its groups is below nothing; and a day has one *)
(* rate, in whatever order days are asked for.                              *)
(***************************************************************************)
THEOREM AmountsAddUp == NoGroupBelowZero /\ TradeSpec => []TotalsAddUp
  <1> SUFFICES ASSUME NoGroupBelowZero
               PROVE  TradeSpec => []TotalsAddUp
    OBVIOUS
  <1>1. TradeInit => TradeInv
    BY TradeInvInit
  <1>2. TradeInv /\ [TradeNext]_allVars => TradeInv'
    BY TradeInvNext
  <1>3. TradeInv => TotalsAddUp
    BY RowAddsUp, RatesGiveOne DEF TradeInv, TotalsAddUp
  <1>4. QED
    BY <1>1, <1>2, <1>3, PTL DEF TradeSpec

----------------------------------------------------------------------------------
(* Third part: what the importers book, once.                              *)

RowOf(P, R) == [state : {"draft", "posted"}, postings : P, source : {"import", "xaf", "manual", "reversal"},
                ref : R, reversedFrom : Nat]

ImportOf(D, A, X) == [at : {"idle", "work", "rename", "role", "assign", "post"}, file : Files \cup {NoFile}, rows : X,
                      docs : Seq(D), parties : Seq(A), refs : X, own : X, held : X, turn : X]

\* The tables are lists, whatever is in them.
TablesListed ==
  /\ \E P, R : booked \in Seq(RowOf(P, R))
  /\ \E A : contacts \in Seq(A)
  /\ \E A : inbound \in Seq(A)

HistoryListed == \E X : history \in [done : X, broken : X, overlapped : X, manual : X, left : X, starts : X]

ImportsListed ==
  /\ DOMAIN imports = Importers /\ imports = [w \in Importers |-> imports[w]]
  /\ \A w \in Importers : \E D, A, X : imports[w] \in ImportOf(D, A, X)

Busy(r) == r.at # "idle"

DocKey(r, d) == RefOf(r.file, r.docs[d].ref)

NameKey(name) == <<"name", Lower(name)>>

AllNames == UNION {NamesIn(f) : f \in Files}

\* What an import still has to write is of its file, and different things: but
\* for an audit file, which notes the numbers it wrote.
Listing(r) ==
  /\ r.file \in Files
  /\ ~IsBookings(r.file) => r.docs = << >>
  /\ r.at = "post" => r.docs # << >>
  /\ \A d \in DOMAIN r.docs : DocKey(r, d) \in KeysOf(r.file)
  /\ r.file.kind = "journal" => \A d, e \in DOMAIN r.docs : r.docs[d].ref = r.docs[e].ref => d = e
  /\ r.file.kind = "opening" => Len(r.docs) <= 1
  /\ \A k \in DOMAIN r.parties : r.parties[k].name \in AllNames /\ NameKey(r.parties[k].name) \in KeysOf(r.file)
  /\ \A j, k \in DOMAIN r.parties : Lower(r.parties[j].name) = Lower(r.parties[k].name) => j = k

\* What has the key of a document is none that counts.
NoneThere(r, d) ==
  \A i \in Journal!Ids : Imported(i) /\ booked[i].ref = DocKey(r, d) => r.file.kind = "opening" /\ ~Unreversed(i)

Writing(r, d) == r.at = "post" /\ DocKey(r, d) = DocKey(r, 1)

\* What an import found missing is still missing, unless another worked on it.
DocsMissing(r) ==
  \A d \in DOMAIN r.docs : Overlapped(DocKey(r, d)) \/ DocKey(r, d) \in r.refs \/ Writing(r, d) \/ NoneThere(r, d)

PartiesMissing(r) ==
  \A k \in DOMAIN r.parties :
    Overlapped(NameKey(r.parties[k].name)) \/ \A c \in DOMAIN contacts : Lower(contacts[c].name) # Lower(r.parties[k].name)

PayableMissing(r) ==
  r.file.kind = "invoice" /\ r.refs = {} =>
    Overlapped(<<"payable", PayableKey(r.file)>>) \/ PayableKey(r.file) \notin PayableKeys

RightAt(w) ==
  Busy(imports[w]) =>
    /\ Listing(imports[w])
    /\ DocsMissing(imports[w]) /\ PartiesMissing(imports[w]) /\ PayableMissing(imports[w])

ImportsRight == \A w \in Importers : RightAt(w)

\* Two imports of one thing at once are on record.
OverlapsKnown ==
  \A v, w \in Importers : v # w /\ Busy(imports[v]) /\ Busy(imports[w]) =>
    KeysOf(imports[v].file) \cap KeysOf(imports[w].file) \subseteq history.overlapped

TablesRight ==
  /\ \A i \in Journal!Ids : Imported(i) => (booked[i].source = "xaf" <=> booked[i].ref[1] = "xaf")
  /\ \A c \in DOMAIN contacts : contacts[c].name \in AllNames
  /\ \A p \in DOMAIN inbound : inbound[p].key = <<SupplierKey(inbound[p].supplier), inbound[p].ref>>

EntriesOnce ==
  \A i, j \in Journal!Ids : Imported(i) /\ Imported(j) /\ booked[i].ref = booked[j].ref /\ i # j =>
    Overlapped(booked[i].ref) \/ (booked[i].ref[1] = "opening" /\ ~(Unreversed(i) /\ Unreversed(j)))

ContactsOnce ==
  \A j, k \in DOMAIN contacts : Lower(contacts[j].name) = Lower(contacts[k].name) /\ j # k =>
    Overlapped(NameKey(contacts[j].name))

PayablesOnce ==
  \A j, k \in DOMAIN inbound : inbound[j].key = inbound[k].key /\ j # k => Overlapped(<<"payable", inbound[j].key>>)

ImportIInv ==
  /\ TablesListed /\ HistoryListed /\ ImportsListed
  /\ ImportsRight /\ OverlapsKnown
  /\ TablesRight /\ EntriesOnce /\ ContactsOnce /\ PayablesOnce

\* What is taken in order is everything, each once.
LEMMA InOrderIs ==
  ASSUME NEW S, S \subseteq Nat, IsFiniteSet(S)
  PROVE  /\ Cardinality(S) \in Nat
         /\ InOrder(S) \in [1 .. Cardinality(S) -> S]
         /\ \A j, k \in 1 .. Cardinality(S) : InOrder(S)[j] = InOrder(S)[k] => j = k
  <1>1. PICK n \in Nat : n = Cardinality(S)
    BY FS_CardinalityType
  <1>2. PICK flat \in [S -> Int] : \A i \in S : flat[i] = 0
    <2>1. [i \in S |-> 0] \in [S -> Int]
      OBVIOUS
    <2>2. QED
      BY <2>1
  <1>3. \A i \in S : RankOf(flat, S)[i] = Cardinality({j \in S : j < i})
    <2> SUFFICES ASSUME NEW i \in S
                 PROVE  RankOf(flat, S)[i] = Cardinality({j \in S : j < i})
      OBVIOUS
    <2>1. ASSUME NEW j
          PROVE  j \in Above(flat, S, i) <=> j \in {k \in S : k < i}
      <3>1. j \in S => flat[j] = 0
        BY <1>2
      <3>2. flat[i] = 0 /\ i \in Nat
        BY <1>2
      <3>3. j \in Above(flat, S, i) <=> j \in S /\ (flat[j] > flat[i] \/ (flat[j] = flat[i] /\ j < i))
        BY DEF Above
      <3>4. QED
        BY <3>1, <3>2, <3>3
    <2>2. Above(flat, S, i) = {j \in S : j < i}
      BY <2>1
    <2>3. QED
      BY <2>2 DEF RankOf
  <1>4. ASSUME NEW k \in 1 .. n
        PROVE  \E i \in S : Cardinality({j \in S : j < i}) = k - 1
    <2>1. PICK T : T = {i \in S : RankOf(flat, S)[i] < k}
      OBVIOUS
    <2>2. PICK U : U = {i \in S : RankOf(flat, S)[i] < k - 1}
      OBVIOUS
    <2>3. k \in Nat /\ k - 1 \in Nat /\ k <= n /\ k - 1 <= n
      OBVIOUS
    <2>4. Cardinality(T) = k
      BY <1>1, <1>2, <2>1, <2>3, RanksBelow
    <2>5. Cardinality(U) = k - 1
      BY <1>1, <1>2, <2>2, <2>3, RanksBelow
    <2>6. PICK i \in S : i \in T /\ i \notin U
      <3>1. U \subseteq T
        <4> SUFFICES ASSUME NEW i \in U
                     PROVE  i \in T
          OBVIOUS
        <4>1. i \in S /\ RankOf(flat, S)[i] < k - 1
          BY <2>2
        <4>2. RankOf(flat, S)[i] \in Int
          BY <1>2, <4>1, BeforeIs DEF RankOf
        <4>3. QED
          BY <2>1, <2>3, <4>1, <4>2
      <3>2. T # U
        BY <2>3, <2>4, <2>5
      <3>3. QED
        BY <2>1, <3>1, <3>2
    <2>7. RankOf(flat, S)[i] \in Int
      BY <1>2, BeforeIs DEF RankOf
    <2>8. RankOf(flat, S)[i] = k - 1
      BY <2>1, <2>2, <2>3, <2>6, <2>7
    <2>9. QED
      BY <1>3, <2>6, <2>8
  <1>5. \A k \in 1 .. n : InOrder(S)[k] \in S /\ Cardinality({j \in S : j < InOrder(S)[k]}) = k - 1
    <2> SUFFICES ASSUME NEW k \in 1 .. n
                 PROVE  InOrder(S)[k] \in S /\ Cardinality({j \in S : j < InOrder(S)[k]}) = k - 1
      OBVIOUS
    <2>1. InOrder(S)[k] = CHOOSE i \in S : Cardinality({j \in S : j < i}) = k - 1
      BY <1>1 DEF InOrder
    <2>2. QED
      BY <1>4, <2>1
  <1>6. InOrder(S) \in [1 .. n -> S]
    <2>1. InOrder(S) = [k \in 1 .. n |-> InOrder(S)[k]]
      BY <1>1 DEF InOrder
    <2>2. QED
      BY <1>5, <2>1
  <1>7. \A j, k \in 1 .. n : InOrder(S)[j] = InOrder(S)[k] => j = k
    <2> SUFFICES ASSUME NEW j \in 1 .. n, NEW k \in 1 .. n, InOrder(S)[j] = InOrder(S)[k]
                 PROVE  j = k
      OBVIOUS
    <2>1. j - 1 = k - 1
      BY <1>5
    <2>2. QED
      BY <2>1
  <1>8. QED
    BY <1>1, <1>6, <1>7

LEMMA FileIs ==
  ASSUME NEW f \in Files
  PROVE  /\ f.kind \in {"opening", "journal", "xaf", "audit", "accounts", "contacts", "invoice"}
         /\ Len(f.items) \in Nat /\ DOMAIN f.items = 1 .. Len(f.items) /\ IsFiniteSet(DOMAIN f.items)
         /\ DOMAIN f.items \subseteq Nat
         /\ f.kind = "opening" => Len(f.items) = 1
  <1>1. /\ f.kind \in {"opening", "journal", "xaf", "audit", "accounts", "contacts", "invoice"}
        /\ f.items \in Seq([ref : RefNames, date : Dates, bookings : Seq(Booking)])
        /\ f.kind = "opening" => Len(f.items) = 1
    BY FilesAssumption
  <1>2. PICK R : R = [ref : RefNames, date : Dates, bookings : Seq(Booking)]
    OBVIOUS
  <1>3. Len(f.items) \in Nat /\ DOMAIN f.items = 1 .. Len(f.items)
    BY <1>1, <1>2
  <1>4. IsFiniteSet(1 .. Len(f.items))
    BY <1>3, FS_Interval
  <1>5. QED
    BY <1>1, <1>3, <1>4

\* The documents of a file have keys of the file; those of a journal differ, and
\* a file of opening balances has one.
LEMMA DocsAre ==
  ASSUME NEW f \in Files, IsBookings(f)
  PROVE  /\ \E D : Docs(f) \in Seq(D)
         /\ \A d \in DOMAIN Docs(f) : RefOf(f, Docs(f)[d].ref) \in KeysOf(f)
         /\ f.kind = "journal" => \A d, e \in DOMAIN Docs(f) : Docs(f)[d].ref = Docs(f)[e].ref => d = e
         /\ f.kind = "opening" => Len(Docs(f)) <= 1
  <1>1. PICK S : S = IF f.kind = "journal" THEN Firsts(f.items) ELSE DOMAIN f.items
    OBVIOUS
  <1>2. S \subseteq DOMAIN f.items /\ S \subseteq Nat /\ IsFiniteSet(S)
    <2>1. S \subseteq DOMAIN f.items
      BY <1>1 DEF Firsts
    <2>2. QED
      BY <2>1, FileIs, FS_Subset
  <1>3. PICK n, starts : n = Cardinality(S) /\ starts = InOrder(S)
    OBVIOUS
  <1>4. /\ n \in Nat /\ starts \in [1 .. n -> S]
        /\ \A j, k \in 1 .. n : starts[j] = starts[k] => j = k
    BY <1>2, <1>3, InOrderIs
  <1>5. /\ DOMAIN Docs(f) = 1 .. n /\ Docs(f) = [d \in 1 .. n |-> Docs(f)[d]]
        /\ \A d \in 1 .. n : Docs(f)[d].ref = f.items[starts[d]].ref
    <2>1. DOMAIN starts = 1 .. n
      BY <1>4
    <2>2. QED
      BY <1>1, <1>3, <2>1 DEF Docs
  <1>6. Docs(f) \in Seq({Docs(f)[d] : d \in 1 .. n})
    <2>1. PICK D : D = {Docs(f)[d] : d \in 1 .. n}
      OBVIOUS
    <2>2. Docs(f) \in [1 .. n -> D]
      BY <1>5, <2>1
    <2>3. QED
      BY <1>4, <2>1, <2>2, SeqDef
  <1>7. \A d \in DOMAIN Docs(f) : RefOf(f, Docs(f)[d].ref) \in KeysOf(f)
    <2>1. KeysOf(f) = {RefOf(f, f.items[k].ref) : k \in DOMAIN f.items}
      BY DEF KeysOf, IsBookings, IsXaf
    <2>2. \A d \in 1 .. n : starts[d] \in DOMAIN f.items
      BY <1>2, <1>4
    <2>3. QED
      BY <1>5, <2>1, <2>2
  <1>8. ASSUME f.kind = "journal", NEW d \in DOMAIN Docs(f), NEW e \in DOMAIN Docs(f),
               Docs(f)[d].ref = Docs(f)[e].ref
        PROVE  d = e
    <2>1. PICK j \in S, k \in S : j = starts[d] /\ k = starts[e]
      BY <1>4, <1>5
    <2>2. f.items[j].ref = f.items[k].ref
      BY <1>5, <1>8, <2>1
    <2>3. j \in Nat /\ k \in Nat /\ j >= 1 /\ k >= 1
      BY <1>2, FileIs
    <2>4. j = k
      BY <1>1, <1>8, <2>1, <2>2, <2>3 DEF Firsts
    <2>5. QED
      BY <1>4, <1>5, <2>1, <2>4
  <1>9. ASSUME f.kind = "opening"
        PROVE  Len(Docs(f)) <= 1
    <2>1. S = {1}
      BY <1>1, <1>9, FileIs
    <2>2. n = 1
      BY <1>3, <2>1, FS_Singleton
    <2>3. Len(Docs(f)) = n
      BY <1>4, <1>5, <1>6
    <2>4. QED
      BY <2>2, <2>3
  <1>10. QED
    BY <1>6, <1>7, <1>8, <1>9

\* New parties are of the file, differ in name, and no contact has their names.
LEMMA FreshAre ==
  ASSUME NEW f \in Files, f.kind = "contacts"
  PROVE  /\ \E A : Fresh(f) \in Seq(A)
         /\ \A k \in DOMAIN Fresh(f) : /\ Fresh(f)[k].name \in NamesIn(f)
                                       /\ NameKey(Fresh(f)[k].name) \in KeysOf(f)
                                       /\ Lower(Fresh(f)[k].name) \notin NameKeys
         /\ \A j, k \in DOMAIN Fresh(f) : Lower(Fresh(f)[j].name) = Lower(Fresh(f)[k].name) => j = k
  <1>1. PICK S : S = {k \in DOMAIN f.parties :
                        /\ Lower(f.parties[k].name) \notin NameKeys
                        /\ \A j \in 1..k - 1 : Lower(f.parties[j].name) # Lower(f.parties[k].name)}
    OBVIOUS
  <1>2. S \subseteq DOMAIN f.parties /\ S \subseteq Nat /\ IsFiniteSet(S)
    <2>1. DOMAIN f.parties = 1 .. Len(f.parties)
      BY FilesAssumption
    <2>2. IsFiniteSet(1 .. Len(f.parties)) /\ 1 .. Len(f.parties) \subseteq Nat
      BY FilesAssumption, FS_Interval
    <2>3. S \subseteq DOMAIN f.parties
      BY <1>1
    <2>4. QED
      BY <2>1, <2>2, <2>3, FS_Subset
  <1>3. PICK n, order : n = Cardinality(S) /\ order = InOrder(S)
    OBVIOUS
  <1>4. /\ n \in Nat /\ order \in [1 .. n -> S]
        /\ \A j, k \in 1 .. n : order[j] = order[k] => j = k
    BY <1>2, <1>3, InOrderIs
  <1>5. Fresh(f) = [k \in 1 .. n |-> f.parties[order[k]]]
    <2>1. DOMAIN order = 1 .. n
      BY <1>4
    <2>2. QED
      BY <1>1, <1>3, <2>1 DEF Fresh
  <1>6. \E A : Fresh(f) \in Seq(A)
    <2>1. PICK A : A = {f.parties[order[k]] : k \in 1 .. n}
      OBVIOUS
    <2>2. Fresh(f) \in [1 .. n -> A]
      BY <1>5, <2>1
    <2>3. Fresh(f) \in Seq(A)
      BY <1>4, <2>2, SeqDef
    <2>4. QED
      BY <2>3
  <1>7. ASSUME NEW k \in DOMAIN Fresh(f)
        PROVE  /\ Fresh(f)[k].name \in NamesIn(f)
               /\ NameKey(Fresh(f)[k].name) \in KeysOf(f)
               /\ Lower(Fresh(f)[k].name) \notin NameKeys
    <2>1. PICK j \in S : j = order[k] /\ Fresh(f)[k] = f.parties[j]
      BY <1>4, <1>5
    <2>2. j \in DOMAIN f.parties /\ Lower(f.parties[j].name) \notin NameKeys
      BY <1>1
    <2>3. KeysOf(f) = {<<"name", Lower(f.parties[i].name)>> : i \in DOMAIN f.parties}
      BY DEF KeysOf
    <2>4. QED
      BY <2>1, <2>2, <2>3 DEF NamesIn, NameKey
  <1>8. ASSUME NEW i \in DOMAIN Fresh(f), NEW k \in DOMAIN Fresh(f),
               Lower(Fresh(f)[i].name) = Lower(Fresh(f)[k].name)
        PROVE  i = k
    <2>1. PICK a \in S, b \in S : a = order[i] /\ b = order[k] /\ Fresh(f)[i] = f.parties[a] /\ Fresh(f)[k] = f.parties[b]
      BY <1>4, <1>5
    <2>2. a \in Nat /\ b \in Nat /\ a >= 1 /\ b >= 1
      BY <1>2, FilesAssumption
    <2>3. a = b
      BY <1>1, <1>8, <2>1, <2>2
    <2>4. QED
      BY <1>4, <1>5, <2>1, <2>3
  <1>9. QED
    BY <1>6, <1>7, <1>8

----------------------------------------------------------------------------------
(* What a step leaves as it is.                                            *)

\* No step of these writes a row that counts.
RowsKept ==
  \A i \in Journal!Ids' : Imported(i)' =>
    /\ i \in Journal!Ids /\ Imported(i)
    /\ booked'[i].ref = booked[i].ref /\ booked'[i].source = booked[i].source
    /\ Unreversed(i)' => Unreversed(i)

NothingWritten ==
  /\ TablesListed' /\ HistoryListed' /\ RowsKept
  /\ contacts' = contacts /\ inbound' = inbound
  /\ history.overlapped \subseteq history'.overlapped

\* Importers go on with their file, or end.
FilesStay ==
  \A v \in Importers : Busy(imports[v])' => Busy(imports[v]) /\ imports'[v].file = imports[v].file

OneMoves(w) ==
  /\ ImportsListed'
  /\ \A v \in Importers : v # w => imports'[v] = imports[v]

LEMMA SameRows ==
  ASSUME TablesListed, UNCHANGED <<booked, contacts, inbound>>
  PROVE  TablesListed' /\ RowsKept
  <1>1. TablesListed'
    BY DEF TablesListed
  <1>2. RowsKept
    BY DEF RowsKept, Journal!Ids, Imported, Unreversed
  <1>3. QED
    BY <1>1, <1>2

LEMMA MarkedRows ==
  ASSUME TablesListed, NEW n, Journal!MarkPosted(n), UNCHANGED <<contacts, inbound>>
  PROVE  TablesListed' /\ RowsKept
  <1>1. PICK P, R : booked \in Seq(RowOf(P, R))
    BY DEF TablesListed
  <1>2. booked' = [booked EXCEPT ![n].state = "posted"]
    BY DEF Journal!MarkPosted
  <1>3. /\ DOMAIN booked = 1 .. Len(booked) /\ Len(booked) \in Nat
        /\ \A i \in DOMAIN booked : booked[i] \in RowOf(P, R)
    BY <1>1
  <1>4. DOMAIN booked' = DOMAIN booked
    BY <1>2
  <1>5. ASSUME NEW i \in DOMAIN booked
        PROVE  /\ booked'[i] \in RowOf(P, R)
               /\ booked'[i].ref = booked[i].ref /\ booked'[i].source = booked[i].source
               /\ booked'[i].reversedFrom = booked[i].reversedFrom
    <2>1. booked[i] \in RowOf(P, R)
      BY <1>3
    <2>2. booked'[i] = IF i = n THEN [booked[i] EXCEPT !.state = "posted"] ELSE booked[i]
      BY <1>2
    <2>3. QED
      BY <2>1, <2>2 DEF RowOf
  <1>6. booked' \in Seq(RowOf(P, R))
    <2>1. booked' = [i \in 1 .. Len(booked) |-> booked'[i]]
      BY <1>2, <1>3
    <2>2. \A i \in 1 .. Len(booked) : booked'[i] \in RowOf(P, R)
      BY <1>3, <1>5
    <2>3. booked' \in [1 .. Len(booked) -> RowOf(P, R)]
      BY <2>1, <2>2
    <2>4. QED
      BY <1>3, <2>3, SeqDef
  <1>7. TablesListed'
    BY <1>6 DEF TablesListed
  <1>8. RowsKept
    BY <1>4, <1>5 DEF RowsKept, Journal!Ids, Imported, Unreversed
  <1>9. QED
    BY <1>7, <1>8

\* A row is appended.
LEMMA RowAppended ==
  ASSUME TablesListed, UNCHANGED <<contacts, inbound>>, NEW e, booked' = Append(booked, e),
         \E p, r : e \in RowOf({p}, {r})
  PROVE  /\ TablesListed'
         /\ Journal!Ids' = Journal!Ids \cup {Len(booked) + 1} /\ Len(booked) + 1 \notin Journal!Ids
         /\ booked'[Len(booked) + 1] = e
         /\ \A i \in Journal!Ids : booked'[i] = booked[i]
         /\ Journal!Ids \subseteq Nat \ {0}
  <1>1. PICK P, R : booked \in Seq(RowOf(P, R))
    BY DEF TablesListed
  <1>2. PICK p, r : e \in RowOf({p}, {r})
    OBVIOUS
  <1>3. PICK W : W = RowOf(P \cup {p}, R \cup {r})
    OBVIOUS
  <1>4. e \in W
    BY <1>2, <1>3 DEF RowOf
  <1>5. RowOf(P, R) \subseteq W
    BY <1>3 DEF RowOf
  <1>6. booked \in Seq(W)
    BY <1>1, <1>5
  <1>7. booked' \in Seq(W)
    BY <1>4, <1>6
  <1>8. TablesListed'
    BY <1>3, <1>7 DEF TablesListed
  <1>9. /\ DOMAIN booked = 1 .. Len(booked) /\ Len(booked) \in Nat
        /\ DOMAIN booked' = 1 .. Len(booked) + 1
        /\ booked'[Len(booked) + 1] = e
        /\ \A i \in 1 .. Len(booked) : booked'[i] = booked[i]
    BY <1>4, <1>6
  <1>10. /\ Journal!Ids' = Journal!Ids \cup {Len(booked) + 1} /\ Len(booked) + 1 \notin Journal!Ids
         /\ Journal!Ids \subseteq Nat \ {0}
    <2>1. PICK n \in Nat : n = Len(booked)
      BY <1>9
    <2>2. 1 .. n + 1 = 1 .. n \cup {n + 1} /\ n + 1 \notin 1 .. n /\ 1 .. n \subseteq Nat \ {0}
      OBVIOUS
    <2>3. DOMAIN booked = 1 .. n /\ DOMAIN booked' = 1 .. n + 1
      BY <1>9, <2>1
    <2>4. QED
      BY <2>1, <2>2, <2>3 DEF Journal!Ids
  <1>11. \A i \in Journal!Ids : booked'[i] = booked[i]
    BY <1>9 DEF Journal!Ids
  <1>12. QED
    BY <1>8, <1>9, <1>10, <1>11

LEMMA ReversedRows ==
  ASSUME TablesListed, NEW n \in Journal!Ids, Journal!InsertReversal(n), UNCHANGED <<contacts, inbound>>
  PROVE  TablesListed' /\ RowsKept
  <1>1. PICK e : e = [state |-> "posted", postings |-> NegatedLegs(booked[n].postings),
                      source |-> "reversal", ref |-> <<"none", "">>, reversedFrom |-> n]
    OBVIOUS
  <1>2. booked' = Append(booked, e)
    BY <1>1 DEF Journal!InsertReversal
  <1>3. n \in Nat
    <2>1. PICK P, R : booked \in Seq(RowOf(P, R))
      BY DEF TablesListed
    <2>2. QED
      BY <2>1 DEF Journal!Ids
  <1>4. PICK p, r : p = e.postings /\ r = e.ref
    OBVIOUS
  <1>5. e \in RowOf({p}, {r})
    BY <1>1, <1>3, <1>4 DEF RowOf
  <1>6. e.source = "reversal" /\ \E q, s : e \in RowOf({q}, {s})
    BY <1>1, <1>5
  <1>7. /\ TablesListed'
        /\ Journal!Ids' = Journal!Ids \cup {Len(booked) + 1}
        /\ booked'[Len(booked) + 1] = e
        /\ \A i \in Journal!Ids : booked'[i] = booked[i]
    BY <1>2, <1>6, RowAppended
  <1>8. RowsKept
    <2> SUFFICES ASSUME NEW i \in Journal!Ids', Imported(i)'
                 PROVE  i \in Journal!Ids
      BY <1>7 DEF RowsKept, Imported, Unreversed
    <2>1. booked'[i].source \in {"import", "xaf"}
      BY DEF Imported
    <2>2. QED
      BY <1>6, <1>7, <2>1
  <1>9. QED
    BY <1>7, <1>8

----------------------------------------------------------------------------------
(* The invariant through such a step.                                      *)

LEMMA MissingStays ==
  ASSUME NothingWritten, NEW w \in Importers, imports'[w] = imports[w], RightAt(w)
  PROVE  RightAt(w)'
  <1> SUFFICES ASSUME Busy(imports[w])'
               PROVE  /\ Listing(imports[w])'
                      /\ DocsMissing(imports[w])' /\ PartiesMissing(imports[w])' /\ PayableMissing(imports[w])'
    BY DEF RightAt
  <1>1. Busy(imports[w])
    BY DEF Busy
  <1>2. /\ Listing(imports[w])
        /\ DocsMissing(imports[w]) /\ PartiesMissing(imports[w]) /\ PayableMissing(imports[w])
    BY <1>1 DEF RightAt
  <1>3. Listing(imports[w])'
    BY <1>2 DEF Listing, DocKey
  <1>4. DocsMissing(imports[w])'
    <2> SUFFICES ASSUME NEW d \in DOMAIN imports[w].docs
                 PROVE  \/ Overlapped(DocKey(imports[w], d))' \/ DocKey(imports[w], d) \in imports[w].refs
                        \/ Writing(imports[w], d) \/ NoneThere(imports[w], d)'
      BY DEF DocsMissing, DocKey, Writing
    <2>1. CASE Overlapped(DocKey(imports[w], d))
      BY <2>1 DEF NothingWritten, Overlapped, DocKey
    <2>2. CASE NoneThere(imports[w], d)
      BY <2>2 DEF NothingWritten, RowsKept, NoneThere, DocKey
    <2>3. QED
      BY <1>2, <2>1, <2>2 DEF DocsMissing
  <1>5. PartiesMissing(imports[w])'
    BY <1>2 DEF PartiesMissing, NothingWritten, Overlapped
  <1>6. PayableMissing(imports[w])'
    BY <1>2 DEF PayableMissing, NothingWritten, Overlapped, PayableKeys
  <1>7. QED
    BY <1>3, <1>4, <1>5, <1>6

LEMMA OnceStays ==
  ASSUME NothingWritten, TablesRight, EntriesOnce, ContactsOnce, PayablesOnce
  PROVE  TablesRight' /\ EntriesOnce' /\ ContactsOnce' /\ PayablesOnce'
  <1>1. TablesRight'
    <2>1. ASSUME NEW i \in Journal!Ids', Imported(i)'
          PROVE  booked'[i].source = "xaf" <=> booked'[i].ref[1] = "xaf"
      BY <2>1 DEF NothingWritten, RowsKept, TablesRight
    <2>2. QED
      BY <2>1 DEF TablesRight, NothingWritten
  <1>2. EntriesOnce'
    <2> SUFFICES ASSUME NEW i \in Journal!Ids', NEW j \in Journal!Ids', Imported(i)', Imported(j)',
                        booked'[i].ref = booked'[j].ref, i # j
                 PROVE  \/ Overlapped(booked[i].ref)'
                        \/ booked'[i].ref[1] = "opening" /\ ~(Unreversed(i)' /\ Unreversed(j)')
      BY DEF EntriesOnce
    <2>1. /\ i \in Journal!Ids /\ j \in Journal!Ids /\ Imported(i) /\ Imported(j)
          /\ booked'[i].ref = booked[i].ref /\ booked'[j].ref = booked[j].ref
          /\ Unreversed(i)' => Unreversed(i)
          /\ Unreversed(j)' => Unreversed(j)
      BY DEF NothingWritten, RowsKept
    <2>2. Overlapped(booked[i].ref) \/ (booked[i].ref[1] = "opening" /\ ~(Unreversed(i) /\ Unreversed(j)))
      BY <2>1 DEF EntriesOnce
    <2>3. Overlapped(booked[i].ref) => Overlapped(booked[i].ref)'
      BY <2>1 DEF NothingWritten, Overlapped
    <2>4. QED
      BY <2>1, <2>2, <2>3
  <1>3. ContactsOnce'
    BY DEF ContactsOnce, NothingWritten, Overlapped
  <1>4. PayablesOnce'
    BY DEF PayablesOnce, NothingWritten, Overlapped
  <1>5. QED
    BY <1>1, <1>2, <1>3, <1>4

LEMMA OverlapsStay ==
  ASSUME OverlapsKnown, FilesStay, history.overlapped \subseteq history'.overlapped
  PROVE  OverlapsKnown'
  <1> SUFFICES ASSUME NEW v \in Importers, NEW w \in Importers, v # w, Busy(imports[v])', Busy(imports[w])'
               PROVE  KeysOf(imports'[v].file) \cap KeysOf(imports'[w].file) \subseteq history'.overlapped
    BY DEF OverlapsKnown
  <1>1. /\ Busy(imports[v]) /\ imports'[v].file = imports[v].file
        /\ Busy(imports[w]) /\ imports'[w].file = imports[w].file
    BY DEF FilesStay
  <1>2. KeysOf(imports[v].file) \cap KeysOf(imports[w].file) \subseteq history.overlapped
    BY <1>1 DEF OverlapsKnown
  <1>3. QED
    BY <1>1, <1>2

\* A step of w that writes nothing.
LEMMA QuietStep ==
  ASSUME ImportIInv, NothingWritten, NEW w \in Importers, OneMoves(w), FilesStay, RightAt(w)'
  PROVE  ImportIInv'
  <1>1. ImportsRight'
    <2> SUFFICES ASSUME NEW v \in Importers, v # w
                 PROVE  RightAt(v)'
      BY DEF ImportsRight
    <2>1. imports'[v] = imports[v] /\ RightAt(v)
      BY DEF OneMoves, ImportIInv, ImportsRight
    <2>2. QED
      BY <2>1, MissingStays
  <1>2. OverlapsKnown'
    BY OverlapsStay DEF ImportIInv, NothingWritten
  <1>3. TablesRight' /\ EntriesOnce' /\ ContactsOnce' /\ PayablesOnce'
    BY OnceStays DEF ImportIInv
  <1>4. QED
    BY <1>1, <1>2, <1>3 DEF ImportIInv, NothingWritten, OneMoves

\* A step by hand.
LEMMA HandStep ==
  ASSUME ImportIInv, NothingWritten, imports' = imports
  PROVE  ImportIInv'
  <1>1. ImportsListed'
    BY DEF ImportIInv, ImportsListed
  <1>2. ImportsRight'
    <2> SUFFICES ASSUME NEW v \in Importers
                 PROVE  RightAt(v)'
      BY DEF ImportsRight
    <2>1. QED
      BY MissingStays DEF ImportIInv, ImportsRight
  <1>3. OverlapsKnown'
    <2>1. FilesStay
      BY DEF FilesStay, Busy
    <2>2. QED
      BY <2>1, OverlapsStay DEF ImportIInv, NothingWritten
  <1>4. TablesRight' /\ EntriesOnce' /\ ContactsOnce' /\ PayablesOnce'
    BY OnceStays DEF ImportIInv
  <1>5. QED
    BY <1>1, <1>2, <1>3, <1>4 DEF ImportIInv, NothingWritten

----------------------------------------------------------------------------------
(* The steps.                                                              *)

\* What is said of finished and broken off files and of roles changes nothing else.
LEMMA HistoryKept ==
  ASSUME HistoryListed,
         \/ history' = history
         \/ \E S : \/ history' = [history EXCEPT !.done = S]
                   \/ history' = [history EXCEPT !.broken = S]
                   \/ history' = [history EXCEPT !.manual = S]
                   \/ history' = [history EXCEPT !.left = S]
                   \/ \E T : history' = [history EXCEPT !.broken = S, !.left = T]
  PROVE  HistoryListed' /\ history'.overlapped = history.overlapped
  <1>1. PICK X : history \in [done : X, broken : X, overlapped : X, manual : X, left : X, starts : X]
    BY DEF HistoryListed
  <1>2. CASE history' = history
    BY <1>1, <1>2 DEF HistoryListed
  <1>3. ASSUME NEW S, \/ history' = [history EXCEPT !.done = S]
                      \/ history' = [history EXCEPT !.broken = S]
                      \/ history' = [history EXCEPT !.manual = S]
        PROVE  HistoryListed' /\ history'.overlapped = history.overlapped
    <2>1. PICK Y : Y = X \cup {S}
      OBVIOUS
    <2>2. history' \in [done : Y, broken : Y, overlapped : Y, manual : Y, left : Y, starts : Y]
      BY <1>1, <1>3, <2>1
    <2>3. history'.overlapped = history.overlapped
      BY <1>1, <1>3
    <2>4. QED
      BY <2>2, <2>3 DEF HistoryListed
  <1>4. ASSUME NEW S, \/ history' = [history EXCEPT !.left = S]
                      \/ \E T : history' = [history EXCEPT !.broken = S, !.left = T]
        PROVE  HistoryListed' /\ history'.overlapped = history.overlapped
    <2>1. PICK Y : Y = X \cup {S, history'.left}
      OBVIOUS
    <2>2. history'.left \in Y /\ history'.broken \in X \cup {S} /\ X \cup {S} \subseteq Y
      BY <1>1, <1>4, <2>1
    <2>3. history' \in [done : Y, broken : Y, overlapped : Y, manual : Y, left : Y, starts : Y]
      BY <1>1, <1>4, <2>1, <2>2
    <2>4. history'.overlapped = history.overlapped
      BY <1>1, <1>4
    <2>5. QED
      BY <2>3, <2>4 DEF HistoryListed
  <1>5. QED
    BY <1>2, <1>3, <1>4

LEMMA ImportIs ==
  ASSUME ImportsListed, NEW w \in Importers
  PROVE  \E D, A, X : imports[w] \in ImportOf(D, A, X)
  BY DEF ImportsListed

LEMMA NoImportIs == (\E D, A, X : NoImport \in ImportOf(D, A, X)) /\ ~Busy(NoImport)
  <1>1. \E X : {<< >>} \cup {{}} \cup {0} \cup {NoRole} = X
    BY Zenon
  <1>2. PICK X : {<< >>} \cup {{}} \cup {0} \cup {NoRole} = X
    BY <1>1
  <1>3. << >> \in X /\ {} \in X /\ 0 \in X /\ NoRole \in X
    BY <1>2, Zenon
  <1>4. << >> \in Seq({})
    OBVIOUS
  <1>5. NoImport \in ImportOf({}, {}, X)
    BY <1>3, <1>4 DEF NoImport, ImportOf
  <1>6. NoImport.at = "idle"
    BY Zenon DEF NoImport
  <1>7. QED
    BY <1>5, <1>6, Zenon DEF Busy

LEMMA MovesTo ==
  ASSUME ImportsListed, NEW w \in Importers, NEW r, imports' = [imports EXCEPT ![w] = r],
         \E D, A, X : r \in ImportOf(D, A, X)
  PROVE  OneMoves(w) /\ imports'[w] = r
  <1>1. /\ DOMAIN imports = Importers /\ imports = [v \in Importers |-> imports[v]]
        /\ \A v \in Importers : \E D, A, X : imports[v] \in ImportOf(D, A, X)
    BY DEF ImportsListed
  <1>2. /\ imports'[w] = r
        /\ \A v \in Importers : v # w => imports'[v] = imports[v]
    BY <1>1
  <1>3. DOMAIN imports' = Importers /\ imports' = [v \in Importers |-> imports'[v]]
    BY <1>1
  <1>4. ASSUME NEW v \in Importers
        PROVE  \E D, A, X : imports'[v] \in ImportOf(D, A, X)
    BY <1>1, <1>2
  <1>5. ImportsListed'
    BY <1>3, <1>4 DEF ImportsListed
  <1>6. QED
    BY <1>2, <1>5 DEF OneMoves

\* The import ends, whatever it did.
LEMMA Ending ==
  ASSUME ImportIInv, NEW w \in Importers, imports' = [imports EXCEPT ![w] = NoImport],
         UNCHANGED <<booked, contacts, inbound>>,
         \E S : \/ history' = [history EXCEPT !.done = S] \/ history' = [history EXCEPT !.broken = S]
                \/ \E T : history' = [history EXCEPT !.broken = S, !.left = T]
  PROVE  ImportIInv'
  <1>1. HistoryListed' /\ history'.overlapped = history.overlapped
    BY HistoryKept DEF ImportIInv
  <1>2. NothingWritten
    BY <1>1, SameRows DEF NothingWritten, ImportIInv
  <1>3. \E D, A, X : NoImport \in ImportOf(D, A, X)
    BY NoImportIs
  <1>4. OneMoves(w) /\ imports'[w] = NoImport
    BY <1>3, MovesTo DEF ImportIInv
  <1>5. ~Busy(imports[w])'
    BY <1>4, NoImportIs DEF Busy
  <1>6. RightAt(w)'
    BY <1>5 DEF RightAt
  <1>7. FilesStay
    BY <1>4, <1>5 DEF FilesStay, OneMoves, Busy
  <1>8. QED
    BY <1>2, <1>4, <1>6, <1>7, QuietStep

\* Where an import is while it works on its chart.
ChartPlaces == {"work", "rename", "role", "assign"}

\* The import goes on to another place, with the same left to write.
LEMMA GoingOn ==
  ASSUME ImportIInv, NEW w \in Importers, UNCHANGED <<booked, contacts, inbound>>,
         HistoryListed' /\ history'.overlapped = history.overlapped,
         imports[w].at \in ChartPlaces, NEW r, imports' = [imports EXCEPT ![w] = r],
         r.at \in ChartPlaces, \E D, A, X : r \in ImportOf(D, A, X),
         r.file = imports[w].file, r.docs = imports[w].docs, r.parties = imports[w].parties, r.refs = imports[w].refs
  PROVE  ImportIInv'
  <1>1. HistoryListed' /\ history'.overlapped = history.overlapped
    OBVIOUS
  <1>2. NothingWritten
    BY <1>1, SameRows DEF NothingWritten, ImportIInv
  <1>3. OneMoves(w) /\ imports'[w] = r
    BY MovesTo DEF ImportIInv
  <1>4. Busy(imports[w])
    BY DEF Busy, ChartPlaces
  <1>5. /\ Listing(imports[w])
        /\ DocsMissing(imports[w]) /\ PartiesMissing(imports[w]) /\ PayableMissing(imports[w])
    BY <1>4 DEF ImportIInv, ImportsRight, RightAt
  <1>6. Listing(r)
    BY <1>5 DEF Listing, DocKey, ChartPlaces
  <1>7. \A d \in DOMAIN r.docs : Overlapped(DocKey(r, d)) \/ DocKey(r, d) \in r.refs \/ NoneThere(r, d)
    BY <1>5 DEF DocsMissing, Writing, DocKey, NoneThere, ChartPlaces
  <1>8. Listing(imports[w])'
    BY <1>3, <1>6 DEF Listing, DocKey
  <1>9. DocsMissing(imports[w])'
    BY <1>3, <1>7 DEF DocsMissing, DocKey, NoneThere, Overlapped, Journal!Ids, Imported, Unreversed
  <1>10. PartiesMissing(imports[w])'
    BY <1>3, <1>5 DEF PartiesMissing, Overlapped
  <1>11. PayableMissing(imports[w])'
    BY <1>3, <1>5 DEF PayableMissing, Overlapped, PayableKeys
  <1>12. RightAt(w)'
    BY <1>8, <1>9, <1>10, <1>11 DEF RightAt
  <1>13. FilesStay
    BY <1>3, <1>4 DEF FilesStay, OneMoves, Busy
  <1>14. QED
    BY <1>2, <1>3, <1>12, <1>13, QuietStep


LEMMA TailIs ==
  ASSUME NEW D, NEW s \in Seq(D), s # << >>
  PROVE  /\ Tail(s) \in Seq(D) /\ Head(s) = s[1] /\ 1 \in DOMAIN s
         /\ Len(s) \in Nat /\ DOMAIN s = 1 .. Len(s) /\ Len(Tail(s)) = Len(s) - 1
         /\ \A k \in DOMAIN Tail(s) : k \in Nat \ {0} /\ k + 1 \in DOMAIN s /\ Tail(s)[k] = s[k + 1]
  OBVIOUS

\* An import moves on in its chart.
RowMoves(w, rows, at, held, turn) ==
  imports' = [imports EXCEPT ![w] = [imports[w] EXCEPT !.rows = rows, !.at = at, !.held = held, !.turn = turn]]

RowStepOf(w) ==
  SyncAccount(w) \/ RenameAccount(w) \/ ClearRole(w) \/ AssignRole(w) \/ AddRow(w)

LEMMA RowStep ==
  ASSUME ImportIInv, NEW w \in Importers, RowStepOf(w)
  PROVE  /\ imports[w].at \in ChartPlaces
         /\ \E rows, held, turn : \E at \in ChartPlaces :
              /\ RowMoves(w, rows, at, held, turn)
              /\ IF at = "work" THEN rows = Tail(imports[w].rows) ELSE rows = imports[w].rows
              /\ at = "rename" => imports[w].rows # << >>
  <1>1. PICK D, A, X : imports[w] \in ImportOf(D, A, X)
    BY ImportIs DEF ImportIInv
  <1>2. PICK old : old = imports[w]
    OBVIOUS
  <1>3. ASSUME NextRow(w)
        PROVE  RowMoves(w, Tail(old.rows), "work", NoRole, 0)
    <2>1. imports' = [imports EXCEPT ![w] = [old EXCEPT !.rows = Tail(old.rows), !.at = "work", !.held = NoRole, !.turn = 0]]
      BY <1>2, <1>3 DEF NextRow
    <2>2. QED
      BY <1>2, <2>1 DEF RowMoves
  <1>4. CASE SyncAccount(w)
    <2>1. old.at = "work" /\ old.rows # << >> /\ (NextRow(w) \/ \E role : BeginRename(w, role))
      BY <1>2, <1>4 DEF SyncAccount, Doing
    <2>2. ASSUME NEW role, BeginRename(w, role)
          PROVE  RowMoves(w, old.rows, "rename", role, old.turn)
      <3>1. [old EXCEPT !.at = "rename", !.held = role]
              = [old EXCEPT !.rows = old.rows, !.at = "rename", !.held = role, !.turn = old.turn]
        BY <1>1, <1>2 DEF ImportOf
      <3>2. imports' = [imports EXCEPT ![w] = [old EXCEPT !.at = "rename", !.held = role]]
        BY <1>2, <2>2 DEF BeginRename
      <3>3. QED
        BY <1>2, <3>1, <3>2 DEF RowMoves
    <2>3. QED
      BY <1>2, <1>3, <2>1, <2>2 DEF ChartPlaces
  <1>5. CASE RenameAccount(w)
    <2>1. old.at = "rename" /\ imports' = [imports EXCEPT ![w] = [old EXCEPT !.at = "role"]]
      BY <1>2, <1>5 DEF RenameAccount, Goto, Doing
    <2>2. [old EXCEPT !.at = "role"]
            = [old EXCEPT !.rows = old.rows, !.at = "role", !.held = old.held, !.turn = old.turn]
      BY <1>1, <1>2 DEF ImportOf
    <2>3. RowMoves(w, old.rows, "role", old.held, old.turn)
      BY <1>2, <2>1, <2>2 DEF RowMoves
    <2>4. QED
      BY <1>2, <2>1, <2>3 DEF ChartPlaces
  <1>6. CASE ClearRole(w)
    <2>1. old.at = "role" /\ imports' = [imports EXCEPT ![w] = [old EXCEPT !.at = "assign", !.turn = 1]]
      BY <1>2, <1>6 DEF ClearRole, Doing
    <2>2. [old EXCEPT !.at = "assign", !.turn = 1]
            = [old EXCEPT !.rows = old.rows, !.at = "assign", !.held = old.held, !.turn = 1]
      BY <1>1, <1>2 DEF ImportOf
    <2>3. RowMoves(w, old.rows, "assign", old.held, 1)
      BY <1>2, <2>1, <2>2 DEF RowMoves
    <2>4. QED
      BY <1>2, <2>1, <2>3 DEF ChartPlaces
  <1>7. CASE AssignRole(w)
    <2>1. /\ old.at = "assign"
          /\ NextRow(w) \/ imports' = [imports EXCEPT ![w] = [old EXCEPT !.turn = old.turn + 1]]
      BY <1>2, <1>7 DEF AssignRole, Doing
    <2>2. [old EXCEPT !.turn = old.turn + 1]
            = [old EXCEPT !.rows = old.rows, !.at = "assign", !.held = old.held, !.turn = old.turn + 1]
      BY <1>1, <1>2, <2>1 DEF ImportOf
    <2>3. NextRow(w) \/ RowMoves(w, old.rows, "assign", old.held, old.turn + 1)
      BY <1>2, <2>1, <2>2 DEF RowMoves
    <2>4. QED
      BY <1>2, <1>3, <2>1, <2>3 DEF ChartPlaces
  <1>8. CASE AddRow(w)
    <2>1. old.at = "work" /\ NextRow(w)
      BY <1>2, <1>8 DEF AddRow, Doing
    <2>2. QED
      BY <1>2, <1>3, <2>1 DEF ChartPlaces
  <1>9. QED
    BY <1>4, <1>5, <1>6, <1>7, <1>8 DEF RowStepOf

LEMMA ChartStep ==
  ASSUME ImportIInv, NEW w \in Importers, RowStepOf(w)
  PROVE  ImportIInv'
  <1>1. imports[w].at \in ChartPlaces
    BY RowStep
  <1>2. PICK rows, held, turn : \E at \in ChartPlaces : RowMoves(w, rows, at, held, turn)
    BY RowStep
  <1>3. PICK at \in ChartPlaces : RowMoves(w, rows, at, held, turn)
    BY <1>2
  <1>4. PICK r : r = [imports[w] EXCEPT !.rows = rows, !.at = at, !.held = held, !.turn = turn]
    OBVIOUS
  <1>5. PICK D, A, X : imports[w] \in ImportOf(D, A, X)
    BY ImportIs DEF ImportIInv
  <1>6. PICK Y : Y = X \cup {rows, held, turn}
    OBVIOUS
  <1>7. at \in {"idle", "work", "rename", "role", "assign", "post"}
    BY DEF ChartPlaces
  <1>8. /\ r \in ImportOf(D, A, Y) /\ r.at = at
        /\ r.file = imports[w].file /\ r.docs = imports[w].docs /\ r.parties = imports[w].parties
        /\ r.refs = imports[w].refs
    BY <1>4, <1>5, <1>6, <1>7 DEF ImportOf
  <1>9. UNCHANGED <<booked, contacts, inbound>>
    BY DEF RowStepOf, SyncAccount, RenameAccount, ClearRole, AssignRole, AddRow
  <1>10. history' = history \/ \E S : history' = [history EXCEPT !.left = S]
    BY DEF RowStepOf, SyncAccount, RenameAccount, ClearRole, AssignRole, AddRow
  <1>11. HistoryListed' /\ history'.overlapped = history.overlapped
    BY <1>10, HistoryKept DEF ImportIInv
  <1>12. imports' = [imports EXCEPT ![w] = r]
    BY <1>3, <1>4 DEF RowMoves
  <1>13. QED
    BY <1>1, <1>8, <1>9, <1>11, <1>12, GoingOn

LEMMA EndStep ==
  ASSUME ImportIInv, NEW w \in Importers, EndImport(w) \/ Fail(w) \/ Die(w)
  PROVE  ImportIInv'
  <1>1. imports' = [imports EXCEPT ![w] = NoImport] /\ UNCHANGED <<booked, contacts, inbound>>
    BY DEF EndImport, Fail, Die
  <1>2. \E S : \/ history' = [history EXCEPT !.done = S] \/ history' = [history EXCEPT !.broken = S]
               \/ \E T : history' = [history EXCEPT !.broken = S, !.left = T]
    <2>1. CASE EndImport(w)
      BY <2>1 DEF EndImport
    <2>2. CASE Fail(w)
      BY <2>2 DEF Fail, Broken
    <2>3. CASE Die(w)
      BY <2>3 DEF Die
    <2>4. QED
      BY <2>1, <2>2, <2>3
  <1>3. QED
    BY <1>1, <1>2, Ending

LEMMA ByHand ==
  ASSUME ImportIInv,
         \/ \E c \in Codes : Toggle(c) \/ \E role : SetRole(c, role)
         \/ \E w \in Importers : CreateMissing(w)
         \/ \E i \in Journal!Ids : PostByHand(i) \/ ReverseByHand(i)
  PROVE  ImportIInv'
  <1>1. CASE (\E c \in Codes : Toggle(c) \/ \E role : SetRole(c, role)) \/ \E w \in Importers : CreateMissing(w)
    <2>1. UNCHANGED <<booked, contacts, inbound, imports>>
      BY <1>1 DEF Toggle, SetRole, CreateMissing
    <2>2. history' = history \/ \E S : history' = [history EXCEPT !.manual = S]
      BY <1>1 DEF Toggle, SetRole, CreateMissing
    <2>3. HistoryListed' /\ history'.overlapped = history.overlapped
      BY <2>2, HistoryKept DEF ImportIInv
    <2>4. NothingWritten
      BY <2>1, <2>3, SameRows DEF NothingWritten, ImportIInv
    <2>5. QED
      BY <2>1, <2>4, HandStep
  <1>2. ASSUME NEW i \in Journal!Ids, PostByHand(i) \/ ReverseByHand(i)
        PROVE  ImportIInv'
    <2>1. UNCHANGED <<contacts, inbound, imports, history>>
      BY <1>2 DEF PostByHand, ReverseByHand
    <2>2. TablesListed' /\ RowsKept
      <3>1. CASE PostByHand(i)
        BY <2>1, <3>1, MarkedRows DEF PostByHand, ImportIInv
      <3>2. CASE ReverseByHand(i)
        BY <2>1, <3>2, ReversedRows DEF ReverseByHand, ImportIInv
      <3>3. QED
        BY <1>2, <3>1, <3>2
    <2>3. HistoryListed' /\ history'.overlapped = history.overlapped
      BY <2>1, HistoryKept DEF ImportIInv
    <2>4. NothingWritten
      BY <2>1, <2>2, <2>3 DEF NothingWritten
    <2>5. QED
      BY <2>1, <2>4, HandStep
  <1>3. QED
    BY <1>1, <1>2

\* The first document is done.
LEMMA DocDone ==
  ASSUME ImportIInv, NEW w \in Importers, NothingWritten, imports[w].at \in {"work", "post"},
         imports[w].docs # << >>,
         NEW r, imports' = [imports EXCEPT ![w] = r], \E D, A, X : r \in ImportOf(D, A, X),
         r.at = "work", r.file = imports[w].file, r.docs = Tail(imports[w].docs), r.parties = imports[w].parties,
         r.refs = IF imports[w].at = "post" THEN RefsNow(w) ELSE imports[w].refs
  PROVE  ImportIInv'
  <1>1. PICK D, A, X : imports[w] \in ImportOf(D, A, X)
    BY ImportIs DEF ImportIInv
  <1>2. PICK docs : docs = imports[w].docs
    OBVIOUS
  <1>3. docs \in Seq(D) /\ docs # << >>
    BY <1>1, <1>2 DEF ImportOf
  <1>4. /\ Head(docs) = docs[1] /\ 1 \in DOMAIN docs
        /\ Len(docs) \in Nat /\ DOMAIN docs = 1 .. Len(docs) /\ Len(Tail(docs)) = Len(docs) - 1
        /\ \A k \in DOMAIN Tail(docs) : k \in Nat \ {0} /\ k + 1 \in DOMAIN docs /\ Tail(docs)[k] = docs[k + 1]
    BY <1>3, TailIs
  <1>5. OneMoves(w) /\ imports'[w] = r
    BY MovesTo DEF ImportIInv
  <1>6. Busy(imports[w])
    BY DEF Busy
  <1>7. /\ Listing(imports[w])
        /\ DocsMissing(imports[w]) /\ PartiesMissing(imports[w]) /\ PayableMissing(imports[w])
    BY <1>6 DEF ImportIInv, ImportsRight, RightAt
  <1>8. \A d \in DOMAIN r.docs : d + 1 \in DOMAIN imports[w].docs /\ DocKey(r, d) = DocKey(imports[w], d + 1)
    BY <1>2, <1>4 DEF DocKey
  <1>9. IsBookings(r.file)
    BY <1>7 DEF Listing
  <1>10. Listing(r)
    <2>1. \A d \in DOMAIN r.docs : DocKey(r, d) \in KeysOf(r.file)
      BY <1>7, <1>8 DEF Listing
    <2>2. ASSUME r.file.kind = "journal", NEW d \in DOMAIN r.docs, NEW e \in DOMAIN r.docs, r.docs[d].ref = r.docs[e].ref
          PROVE  d = e
      <3>1. /\ d \in Nat /\ e \in Nat /\ d + 1 \in DOMAIN docs /\ e + 1 \in DOMAIN docs
            /\ docs[d + 1].ref = docs[e + 1].ref
        BY <1>2, <1>4, <2>2
      <3>2. d + 1 = e + 1
        BY <1>2, <1>7, <2>2, <3>1 DEF Listing
      <3>3. QED
        BY <3>1, <3>2
    <2>3. r.file.kind = "opening" => Len(r.docs) <= 1
      BY <1>2, <1>4, <1>7 DEF Listing
    <2>4. QED
      BY <1>7, <1>9, <2>1, <2>2, <2>3 DEF Listing
  <1>11. ASSUME NEW d \in DOMAIN r.docs
         PROVE  Overlapped(DocKey(r, d)) \/ DocKey(r, d) \in r.refs \/ NoneThere(r, d)
    <2>1. PICK e \in DOMAIN imports[w].docs : e = d + 1 /\ DocKey(r, d) = DocKey(imports[w], e)
      BY <1>8
    <2>2. e # 1
      BY <1>2, <1>4, <2>1
    <2>3. imports[w].refs \subseteq r.refs
      BY DEF RefsNow
    <2>4. CASE Overlapped(DocKey(imports[w], e)) \/ DocKey(imports[w], e) \in imports[w].refs
      BY <2>1, <2>3, <2>4
    <2>5. CASE NoneThere(imports[w], e)
      BY <2>1, <2>5 DEF NoneThere
    <2>6. CASE Writing(imports[w], e)
      <3>1. imports[w].at = "post" /\ DocKey(imports[w], e) = DocKey(imports[w], 1)
        BY <2>6 DEF Writing
      <3>2. CASE IsXaf(imports[w].file)
        BY <1>2, <1>4, <2>1, <3>1, <3>2 DEF RefsNow, DocKey, Doc
      <3>3. CASE imports[w].file.kind = "opening"
        BY <1>2, <1>4, <1>7, <2>1, <2>2, <3>3 DEF Listing
      <3>4. CASE imports[w].file.kind = "journal"
        <4>1. docs[e].ref = docs[1].ref
          BY <1>2, <3>1, <3>4 DEF DocKey, RefOf, IsXaf
        <4>2. e = 1
          BY <1>2, <1>4, <1>7, <3>4, <4>1 DEF Listing
        <4>3. QED
          BY <2>2, <4>2
      <3>5. QED
        BY <1>9, <3>2, <3>3, <3>4 DEF IsBookings
    <2>7. QED
      BY <1>7, <2>4, <2>5, <2>6 DEF DocsMissing
  <1>12. Listing(imports[w])'
    <2>1. imports'[w] = r
      BY <1>5
    <2>2. QED
      BY ONLY <1>10, <2>1 DEF Listing, DocKey
  <1>13. DocsMissing(imports[w])'
    <2> SUFFICES ASSUME NEW d \in DOMAIN r.docs
                 PROVE  Overlapped(DocKey(r, d))' \/ DocKey(r, d) \in r.refs \/ NoneThere(r, d)'
      BY <1>5 DEF DocsMissing, DocKey, NoneThere
    <2>1. Overlapped(DocKey(r, d)) => Overlapped(DocKey(r, d))'
      BY DEF NothingWritten, Overlapped, DocKey
    <2>2. NoneThere(r, d) => NoneThere(r, d)'
      BY DEF NothingWritten, RowsKept, NoneThere, DocKey
    <2>3. QED
      BY <1>11, <2>1, <2>2
  <1>14. PartiesMissing(imports[w])'
    BY <1>5, <1>7 DEF PartiesMissing, NothingWritten, Overlapped
  <1>15. PayableMissing(imports[w])'
    <2>1. r.file.kind # "invoice"
      BY <1>9 DEF IsBookings, IsXaf
    <2>2. QED
      BY <1>5, <2>1 DEF PayableMissing
  <1>16. RightAt(w)'
    BY <1>12, <1>13, <1>14, <1>15 DEF RightAt
  <1>17. FilesStay
    BY <1>5, <1>6 DEF FilesStay, OneMoves, Busy
  <1>18. QED
    BY <1>5, <1>16, <1>17, QuietStep

LEMMA SkipOrPost ==
  ASSUME ImportIInv, NEW w \in Importers, SkipDoc(w) \/ PostDoc(w)
  PROVE  ImportIInv'
  <1>1. PICK D, A, X : imports[w] \in ImportOf(D, A, X)
    BY ImportIs DEF ImportIInv
  <1>2. CASE SkipDoc(w)
    <2>1. PICK r : r = [imports[w] EXCEPT !.docs = Tail(@)]
      OBVIOUS
    <2>2. imports' = [imports EXCEPT ![w] = r]
      BY <1>2, <2>1 DEF SkipDoc
    <2>3. imports[w].at = "work" /\ imports[w].docs # << >> /\ UNCHANGED <<booked, contacts, inbound, history>>
      BY <1>2 DEF SkipDoc, AtDoc, Doing
    <2>4. /\ r \in ImportOf(D, A, X) /\ r.at = "work"
          /\ r.file = imports[w].file /\ r.docs = Tail(imports[w].docs) /\ r.parties = imports[w].parties
          /\ r.refs = imports[w].refs
      BY <1>1, <2>1, <2>3, TailIs DEF ImportOf
    <2>5. NothingWritten
      BY <2>3, SameRows, HistoryKept DEF NothingWritten, ImportIInv
    <2>6. QED
      BY <2>2, <2>3, <2>4, <2>5, DocDone
  <1>3. CASE PostDoc(w)
    <2>1. PICK r : r = [imports[w] EXCEPT !.at = "work", !.docs = Tail(@), !.refs = RefsNow(w), !.own = 0]
      OBVIOUS
    <2>2. imports' = [imports EXCEPT ![w] = r]
      BY <1>3, <2>1 DEF PostDoc
    <2>3. imports[w].at = "post" /\ Journal!MarkPosted(imports[w].own) /\ UNCHANGED <<contacts, inbound, history>>
      BY <1>3 DEF PostDoc, Doing
    <2>4. imports[w].docs # << >>
      BY <2>3 DEF ImportIInv, ImportsRight, RightAt, Busy, Listing
    <2>5. PICK Y : Y = X \cup {RefsNow(w), 0}
      OBVIOUS
    <2>6. /\ r \in ImportOf(D, A, Y) /\ r.at = "work"
          /\ r.file = imports[w].file /\ r.docs = Tail(imports[w].docs) /\ r.parties = imports[w].parties
          /\ r.refs = RefsNow(w)
      BY <1>1, <2>1, <2>4, <2>5, TailIs DEF ImportOf
    <2>7. NothingWritten
      BY <2>3, MarkedRows, HistoryKept DEF NothingWritten, ImportIInv
    <2>8. QED
      BY <2>2, <2>3, <2>4, <2>6, <2>7, DocDone
  <1>4. QED
    BY <1>2, <1>3

\* The first document is written, as a draft.
LEMMA Drafted ==
  ASSUME ImportIInv, NEW w \in Importers, CreateDoc(w)
  PROVE  ImportIInv'
  <1>1. PICK D, A, X : imports[w] \in ImportOf(D, A, X)
    BY ImportIs DEF ImportIInv
  <1>2. PICK f, n : f = imports[w].file /\ n = Len(booked) + 1
    OBVIOUS
  <1>3. /\ imports[w].at = "work" /\ imports[w].docs # << >> /\ ~AlreadyThere(w)
        /\ UNCHANGED <<contacts, inbound, history>>
    BY DEF CreateDoc, AtDoc, Doing
  <1>4. Busy(imports[w])
    BY <1>3 DEF Busy
  <1>5. /\ Listing(imports[w])
        /\ DocsMissing(imports[w]) /\ PartiesMissing(imports[w]) /\ PayableMissing(imports[w])
    BY <1>4 DEF ImportIInv, ImportsRight, RightAt
  <1>6. f \in Files /\ IsBookings(f)
    BY <1>2, <1>3, <1>5 DEF Listing
  <1>7. PICK key : key = DocKey(imports[w], 1)
    OBVIOUS
  <1>8. /\ 1 \in DOMAIN imports[w].docs /\ key \in KeysOf(f)
        /\ key = RefOf(f, Doc(w).ref) /\ key \notin imports[w].refs
    <2>1. imports[w].docs \in Seq(D)
      BY <1>1 DEF ImportOf
    <2>2. 1 \in DOMAIN imports[w].docs /\ Doc(w) = imports[w].docs[1]
      BY <1>3, <2>1, TailIs DEF Doc
    <2>3. QED
      BY <1>2, <1>3, <1>5, <1>7, <2>2 DEF Listing, DocKey, AlreadyThere
  <1>9. Overlapped(key) \/ NoneThere(imports[w], 1)
    BY <1>3, <1>5, <1>7, <1>8 DEF DocsMissing, Writing
  <1>10. key[1] = IF IsXaf(f) THEN "xaf" ELSE f.kind
    BY <1>8 DEF RefOf
  <1>11. PICK e : /\ booked' = Append(booked, e) /\ e.source = SourceOf(f) /\ e.ref = key /\ e.reversedFrom = 0
                  /\ \E p, s : e \in RowOf({p}, {s})
    <2>1. PICK p : p = [date |-> Doc(w).date, legs |-> Doc(w).legs]
      OBVIOUS
    <2>2. Journal!InsertDraft(p, SourceOf(f), key)
      BY <1>2, <1>8, <2>1 DEF CreateDoc
    <2>3. PICK e : e = [state |-> "draft", postings |-> p, source |-> SourceOf(f), ref |-> key, reversedFrom |-> 0]
      OBVIOUS
    <2>4. booked' = Append(booked, e)
      BY <2>2, <2>3 DEF Journal!InsertDraft
    <2>5. e \in RowOf({p}, {key})
      BY <2>3 DEF RowOf, SourceOf
    <2>6. QED
      BY <2>3, <2>4, <2>5
  <1>12. /\ TablesListed'
         /\ Journal!Ids' = Journal!Ids \cup {n} /\ n \notin Journal!Ids
         /\ booked'[n] = e
         /\ \A i \in Journal!Ids : booked'[i] = booked[i]
         /\ Journal!Ids \subseteq Nat \ {0}
    BY <1>2, <1>3, <1>11, RowAppended DEF ImportIInv
  <1>14. HistoryListed' /\ history'.overlapped = history.overlapped
    BY <1>3, HistoryKept DEF ImportIInv
  <1>15. PICK r : r = [imports[w] EXCEPT !.at = "post", !.own = Journal!LastId + 1]
    OBVIOUS
  <1>16. /\ imports' = [imports EXCEPT ![w] = r]
         /\ r.at = "post" /\ r.file = f /\ r.docs = imports[w].docs /\ r.parties = imports[w].parties
         /\ r.refs = imports[w].refs
         /\ \E B, C, Y : r \in ImportOf(B, C, Y)
    <2>1. imports' = [imports EXCEPT ![w] = r]
      BY <1>15 DEF CreateDoc
    <2>2. PICK Y : Y = X \cup {Journal!LastId + 1}
      OBVIOUS
    <2>3. /\ r \in ImportOf(D, A, Y)
          /\ r.at = "post" /\ r.file = f /\ r.docs = imports[w].docs /\ r.parties = imports[w].parties
          /\ r.refs = imports[w].refs
      BY <1>1, <1>2, <1>15, <2>2 DEF ImportOf
    <2>4. QED
      BY <2>1, <2>3
  <1>17. OneMoves(w) /\ imports'[w] = r
    BY <1>16, MovesTo DEF ImportIInv
  \* What other importers miss: this key is theirs only if it is on record.
  <1>18. ASSUME NEW v \in Importers, v # w
         PROVE  RightAt(v)'
    <2> SUFFICES ASSUME Busy(imports[v])
                 PROVE  /\ Listing(imports[v])
                        /\ DocsMissing(imports[v])' /\ PartiesMissing(imports[v]) /\ PayableMissing(imports[v])
      <3>1. imports'[v] = imports[v]
        BY <1>17, <1>18 DEF OneMoves
      <3>2. Listing(imports[v]) => Listing(imports[v])'
        BY ONLY <3>1 DEF Listing, DocKey
      <3>3. PartiesMissing(imports[v]) => PartiesMissing(imports[v])'
        BY <1>3, <1>14, <3>1 DEF PartiesMissing, Overlapped
      <3>4. PayableMissing(imports[v]) => PayableMissing(imports[v])'
        BY <1>3, <1>14, <3>1 DEF PayableMissing, Overlapped, PayableKeys
      <3>5. QED
        BY <3>1, <3>2, <3>3, <3>4 DEF RightAt, Busy
    <2>1. /\ Listing(imports[v])
          /\ DocsMissing(imports[v]) /\ PartiesMissing(imports[v]) /\ PayableMissing(imports[v])
      BY DEF ImportIInv, ImportsRight, RightAt
    <2>2. DocsMissing(imports[v])'
      <3>1. imports'[v] = imports[v]
        BY <1>17, <1>18 DEF OneMoves
      <3> SUFFICES ASSUME NEW d \in DOMAIN imports[v].docs
                   PROVE  \/ Overlapped(DocKey(imports[v], d)) \/ DocKey(imports[v], d) \in imports[v].refs
                          \/ Writing(imports[v], d) \/ NoneThere(imports[v], d)'
        BY <1>14, <3>1 DEF DocsMissing, DocKey, Writing, Overlapped
      <3>2. PICK other : other = DocKey(imports[v], d)
        OBVIOUS
      <3>3. CASE other = key
        <4>0. \A c \in DOMAIN imports[v].docs : DocKey(imports[v], c) \in KeysOf(imports[v].file)
          BY <2>1 DEF Listing
        <4>1. key \in KeysOf(imports[v].file)
          BY <3>2, <3>3, <4>0
        <4>2. Overlapped(key)
          BY <1>2, <1>4, <1>8, <1>18, <4>1 DEF ImportIInv, OverlapsKnown, Overlapped
        <4>3. QED
          BY <3>2, <3>3, <4>2
      <3>4. CASE other # key /\ NoneThere(imports[v], d)
        <4>1. NoneThere(imports[v], d)'
          <5> SUFFICES ASSUME NEW i \in Journal!Ids', Imported(i)', booked'[i].ref = other
                       PROVE  imports[v].file.kind = "opening" /\ ~Unreversed(i)'
            BY <3>1, <3>2 DEF NoneThere, DocKey
          <5>1. i # n
            BY <1>11, <1>12, <3>4
          <5>2. i \in Journal!Ids
            BY <1>12, <5>1
          <5>3. QED
            BY <1>12, <3>2, <3>4, <5>2 DEF NoneThere, Imported, Unreversed
        <4>2. QED
          BY <4>1
      <3>5. QED
        BY <2>1, <3>2, <3>3, <3>4 DEF DocsMissing
    <2>3. QED
      BY <2>1, <2>2
  <1>19. RightAt(w)'
    <2>1. Listing(r)
      <3>1. r.file = imports[w].file
        BY <1>2, <1>16
      <3>2. QED
        BY ONLY <1>3, <1>5, <1>16, <3>1 DEF Listing, DocKey
    <2>2. Listing(imports[w])'
      <3>1. imports'[w] = r
        BY <1>17
      <3>2. QED
        BY ONLY <2>1, <3>1 DEF Listing, DocKey
    <2>3. DocsMissing(imports[w])'
      <3> SUFFICES ASSUME NEW d \in DOMAIN r.docs
                   PROVE  Overlapped(DocKey(r, d)) \/ DocKey(r, d) \in r.refs \/ Writing(r, d) \/ NoneThere(r, d)'
        BY <1>14, <1>17 DEF DocsMissing, DocKey, Writing, Overlapped, NoneThere
      <3>1. /\ d \in DOMAIN imports[w].docs
            /\ DocKey(r, d) = DocKey(imports[w], d) /\ DocKey(r, 1) = key
        BY <1>2, <1>7, <1>16 DEF DocKey
      <3>2. CASE DocKey(r, d) = key
        BY <1>16, <3>1, <3>2 DEF Writing
      <3>3. CASE DocKey(r, d) # key
        <4>1. ~Writing(imports[w], d)
          BY <1>3 DEF Writing
        <4>2. ASSUME NoneThere(imports[w], d)
              PROVE  NoneThere(r, d)'
          <5> SUFFICES ASSUME NEW i \in Journal!Ids', Imported(i)', booked'[i].ref = DocKey(r, d)
                       PROVE  f.kind = "opening" /\ ~Unreversed(i)'
            BY <1>16 DEF NoneThere, DocKey
          <5>1. i # n
            BY <1>11, <1>12, <3>3
          <5>2. i \in Journal!Ids
            BY <1>12, <5>1
          <5>3. QED
            BY <1>2, <1>12, <3>1, <4>2, <5>2 DEF NoneThere, Imported, Unreversed
        <4>3. QED
          BY <1>5, <1>16, <3>1, <4>1, <4>2 DEF DocsMissing
      <3>4. QED
        BY <3>2, <3>3
    <2>4. PartiesMissing(imports[w])'
      BY <1>3, <1>5, <1>14, <1>16, <1>17 DEF PartiesMissing, Overlapped
    <2>5. PayableMissing(imports[w])'
      <3>1. f.kind # "invoice"
        BY <1>6 DEF IsBookings, IsXaf
      <3>2. QED
        BY <1>16, <1>17, <3>1 DEF PayableMissing
    <2>6. QED
      BY <2>2, <2>3, <2>4, <2>5 DEF RightAt
  <1>20. ImportsRight'
    BY <1>18, <1>19 DEF ImportsRight
  <1>21. OverlapsKnown'
    <2>1. FilesStay
      BY <1>2, <1>4, <1>16, <1>17 DEF FilesStay, OneMoves, Busy
    <2>2. QED
      BY <1>14, <2>1, OverlapsStay DEF ImportIInv
  <1>22. TablesRight'
    <2>1. ASSUME NEW i \in Journal!Ids', Imported(i)'
          PROVE  booked'[i].source = "xaf" <=> booked'[i].ref[1] = "xaf"
      <3>1. CASE i \in Journal!Ids
        BY <1>12, <2>1, <3>1 DEF ImportIInv, TablesRight, Imported
      <3>2. CASE i = n
        BY <1>6, <1>10, <1>11, <1>12, <3>2 DEF SourceOf, IsBookings, IsXaf
      <3>3. QED
        BY <1>12, <3>1, <3>2
    <2>2. QED
      BY <1>3, <2>1 DEF TablesRight, ImportIInv
  <1>23. EntriesOnce'
    \* The new row and one that was there.
    <2>1. ASSUME NEW i \in Journal!Ids, Imported(i), booked[i].ref = key
          PROVE  Overlapped(key) \/ (key[1] = "opening" /\ ~Unreversed(i)')
      <3>1. CASE Overlapped(key)
        BY <3>1
      <3>2. CASE NoneThere(imports[w], 1)
        <4>1. f.kind = "opening" /\ ~Unreversed(i)
          BY <1>2, <1>7, <2>1, <3>2 DEF NoneThere
        <4>2. key[1] = "opening"
          BY <1>10, <4>1 DEF IsXaf
        <4>3. QED
          BY <1>12, <2>1, <4>1, <4>2 DEF Unreversed
      <3>3. QED
        BY <1>9, <3>1, <3>2
    <2>2. ASSUME NEW i \in Journal!Ids', NEW j \in Journal!Ids', Imported(i)', Imported(j)',
                 booked'[i].ref = booked'[j].ref, i # j
          PROVE  \/ booked'[i].ref \in history.overlapped
                 \/ booked'[i].ref[1] = "opening" /\ ~(Unreversed(i)' /\ Unreversed(j)')
      <3>1. CASE i \in Journal!Ids /\ j \in Journal!Ids
        <4>1. Imported(i) /\ Imported(j) /\ booked[i].ref = booked[j].ref
          BY <1>12, <2>2, <3>1 DEF Imported
        <4>2. Overlapped(booked[i].ref) \/ (booked[i].ref[1] = "opening" /\ ~(Unreversed(i) /\ Unreversed(j)))
          BY <2>2, <3>1, <4>1 DEF ImportIInv, EntriesOnce
        <4>3. QED
          BY <1>12, <3>1, <4>2 DEF Overlapped, Unreversed
      <3>2. CASE i = n /\ j \in Journal!Ids
        <4>1. booked'[i].ref = key /\ Imported(j) /\ booked[j].ref = key
          BY <1>11, <1>12, <2>2, <3>2 DEF Imported
        <4>2. QED
          BY <2>1, <3>2, <4>1 DEF Overlapped
      <3>3. CASE j = n /\ i \in Journal!Ids
        <4>1. booked'[i].ref = key /\ Imported(i) /\ booked[i].ref = key
          BY <1>11, <1>12, <2>2, <3>3 DEF Imported
        <4>2. QED
          BY <2>1, <3>3, <4>1 DEF Overlapped
      <3>4. QED
        BY <1>12, <2>2, <3>1, <3>2, <3>3
    <2>3. QED
      BY <1>14, <2>2 DEF EntriesOnce, Overlapped
  <1>24. ContactsOnce' /\ PayablesOnce'
    BY <1>3, <1>14 DEF ImportIInv, ContactsOnce, PayablesOnce, Overlapped
  <1>25. QED
    BY <1>12, <1>14, <1>17, <1>20, <1>21, <1>22, <1>23, <1>24 DEF ImportIInv, OneMoves

\* What an import says of the entries is not touched where these stay.
LEMMA DocsStay ==
  ASSUME NEW w \in Importers, NEW r, imports'[w] = r, UNCHANGED booked, history'.overlapped = history.overlapped,
         r.file = imports[w].file, r.docs = imports[w].docs, r.refs = imports[w].refs, r.at = imports[w].at,
         DocsMissing(imports[w])
  PROVE  DocsMissing(imports[w])'
  <1> SUFFICES ASSUME NEW d \in DOMAIN r.docs
               PROVE  Overlapped(DocKey(r, d)) \/ DocKey(r, d) \in r.refs \/ Writing(r, d) \/ NoneThere(r, d)
    BY DEF DocsMissing, DocKey, Writing, Overlapped, NoneThere, Journal!Ids, Imported, Unreversed
  <1>1. Overlapped(DocKey(imports[w], d)) \/ DocKey(imports[w], d) \in imports[w].refs
        \/ Writing(imports[w], d) \/ NoneThere(imports[w], d)
    BY DEF DocsMissing
  <1>2. QED
    BY <1>1 DEF DocKey, Writing, NoneThere

\* The first party becomes a contact.
LEMMA PartyStep ==
  ASSUME ImportIInv, NEW w \in Importers, NextParty(w)
  PROVE  ImportIInv'
  <1>1. PICK D, A, X : imports[w] \in ImportOf(D, A, X)
    BY ImportIs DEF ImportIInv
  <1>2. PICK f, party, n : f = imports[w].file /\ party = Head(imports[w].parties) /\ n = Len(contacts) + 1
    OBVIOUS
  <1>3. /\ imports[w].at = "work" /\ imports[w].parties # << >> /\ contacts' = Append(contacts, party)
        /\ UNCHANGED <<booked, inbound, history>>
    BY <1>2 DEF NextParty, CreateContact, Doing
  <1>4. Busy(imports[w])
    BY <1>3 DEF Busy
  <1>5. /\ Listing(imports[w])
        /\ DocsMissing(imports[w]) /\ PartiesMissing(imports[w]) /\ PayableMissing(imports[w])
    BY <1>4 DEF ImportIInv, ImportsRight, RightAt
  <1>6. PICK parties : parties = imports[w].parties
    OBVIOUS
  <1>7. parties \in Seq(A) /\ parties # << >>
    BY <1>1, <1>3, <1>6 DEF ImportOf
  <1>8. /\ party = parties[1] /\ 1 \in DOMAIN parties /\ Tail(parties) \in Seq(A)
        /\ \A k \in DOMAIN Tail(parties) : k \in Nat \ {0} /\ k + 1 \in DOMAIN parties /\ Tail(parties)[k] = parties[k + 1]
    BY <1>2, <1>6, <1>7, TailIs
  <1>9. party.name \in AllNames /\ NameKey(party.name) \in KeysOf(f)
    BY <1>2, <1>5, <1>6, <1>8 DEF Listing
  <1>10. \/ Overlapped(NameKey(party.name))
         \/ \A c \in DOMAIN contacts : Lower(contacts[c].name) # Lower(party.name)
    BY <1>5, <1>6, <1>8 DEF PartiesMissing
  <1>11. /\ \E B : contacts' \in Seq(B)
         /\ DOMAIN contacts' = DOMAIN contacts \cup {n} /\ n \notin DOMAIN contacts
         /\ contacts'[n] = party
         /\ \A c \in DOMAIN contacts : contacts'[c] = contacts[c]
    <2>1. PICK B : contacts \in Seq(B)
      BY DEF ImportIInv, TablesListed
    <2>2. PICK C : C = B \cup {party}
      OBVIOUS
    <2>3. contacts \in Seq(C) /\ party \in C
      BY <2>1, <2>2
    <2>4. /\ contacts' \in Seq(C) /\ Len(contacts) \in Nat /\ DOMAIN contacts = 1 .. Len(contacts)
          /\ DOMAIN contacts' = 1 .. Len(contacts) + 1
          /\ contacts'[Len(contacts) + 1] = party /\ \A c \in 1 .. Len(contacts) : contacts'[c] = contacts[c]
      BY <1>3, <2>3
    <2>5. PICK m \in Nat : m = Len(contacts)
      BY <2>4
    <2>6. 1 .. m + 1 = 1 .. m \cup {m + 1} /\ m + 1 \notin 1 .. m
      OBVIOUS
    <2>7. DOMAIN contacts = 1 .. m /\ DOMAIN contacts' = 1 .. m + 1 /\ n = m + 1
      BY <1>2, <2>4, <2>5
    <2>8. QED
      BY <2>4, <2>6, <2>7
  <1>12. HistoryListed' /\ history'.overlapped = history.overlapped
    BY <1>3, HistoryKept DEF ImportIInv
  <1>13. PICK r : r = [imports[w] EXCEPT !.parties = Tail(@), !.own = Len(contacts) + 1]
    OBVIOUS
  <1>14. /\ imports' = [imports EXCEPT ![w] = r]
         /\ r.at = "work" /\ r.file = f /\ r.docs = imports[w].docs /\ r.parties = Tail(parties)
         /\ r.refs = imports[w].refs
         /\ \E B, C, Y : r \in ImportOf(B, C, Y)
    <2>1. imports' = [imports EXCEPT ![w] = r]
      BY <1>13 DEF NextParty
    <2>2. PICK Y : Y = X \cup {Len(contacts) + 1}
      OBVIOUS
    <2>3. /\ r \in ImportOf(D, A, Y)
          /\ r.at = "work" /\ r.file = f /\ r.docs = imports[w].docs /\ r.parties = Tail(parties)
          /\ r.refs = imports[w].refs
      BY <1>1, <1>2, <1>3, <1>6, <1>8, <1>13, <2>2 DEF ImportOf
    <2>4. QED
      BY <2>1, <2>3
  <1>15. OneMoves(w) /\ imports'[w] = r
    BY <1>14, MovesTo DEF ImportIInv
  \* Another importer has a party of that name only if that is on record.
  <1>16. ASSUME NEW v \in Importers, v # w
         PROVE  RightAt(v)'
    <2>0. imports'[v] = imports[v]
      BY <1>15, <1>16 DEF OneMoves
    <2> SUFFICES ASSUME Busy(imports[v])
                 PROVE  /\ Listing(imports[v])'
                        /\ DocsMissing(imports[v])' /\ PartiesMissing(imports[v])' /\ PayableMissing(imports[v])'
      BY <2>0 DEF RightAt, Busy
    <2>1. /\ Listing(imports[v])
          /\ DocsMissing(imports[v]) /\ PartiesMissing(imports[v]) /\ PayableMissing(imports[v])
      BY DEF ImportIInv, ImportsRight, RightAt
    <2>2. Listing(imports[v])'
      BY ONLY <2>0, <2>1 DEF Listing, DocKey
    <2>3. DocsMissing(imports[v])'
      BY <1>3, <1>12, <2>0, <2>1, DocsStay
    <2>4. PayableMissing(imports[v])'
      BY <1>3, <1>12, <2>0, <2>1 DEF PayableMissing, Overlapped, PayableKeys
    <2>5. PartiesMissing(imports[v])'
      <3> SUFFICES ASSUME NEW k \in DOMAIN imports[v].parties, ~Overlapped(NameKey(imports[v].parties[k].name)),
                          NEW c \in DOMAIN contacts'
                   PROVE  Lower(contacts'[c].name) # Lower(imports[v].parties[k].name)
        BY <1>12, <2>0 DEF PartiesMissing, Overlapped
      <3>1. PICK name : name = imports[v].parties[k].name
        OBVIOUS
      <3>2. \A e \in DOMAIN contacts : Lower(contacts[e].name) # Lower(name)
        BY <2>1, <3>1 DEF PartiesMissing
      <3>3. NameKey(name) \in KeysOf(imports[v].file)
        BY <2>1, <3>1 DEF Listing
      <3>4. NameKey(name) \notin KeysOf(f)
        BY <1>2, <1>4, <1>16, <3>1, <3>3 DEF ImportIInv, OverlapsKnown, Overlapped
      <3>5. Lower(name) # Lower(party.name)
        BY <1>9, <3>4 DEF NameKey
      <3>6. QED
        BY <1>11, <3>1, <3>2, <3>5
    <2>6. QED
      BY <2>2, <2>3, <2>4, <2>5
  <1>17. RightAt(w)'
    <2>1. Listing(r)
      <3>1. ASSUME NEW k \in DOMAIN r.parties
            PROVE  r.parties[k].name \in AllNames /\ NameKey(r.parties[k].name) \in KeysOf(r.file)
        BY <1>2, <1>5, <1>6, <1>8, <1>14 DEF Listing
      <3>2. ASSUME NEW j \in DOMAIN r.parties, NEW k \in DOMAIN r.parties,
                   Lower(r.parties[j].name) = Lower(r.parties[k].name)
            PROVE  j = k
        <4>1. /\ j \in Nat /\ k \in Nat /\ j + 1 \in DOMAIN parties /\ k + 1 \in DOMAIN parties
              /\ Lower(parties[j + 1].name) = Lower(parties[k + 1].name)
          BY <1>8, <1>14, <3>2
        <4>2. j + 1 = k + 1
          BY <1>5, <1>6, <4>1 DEF Listing
        <4>3. QED
          BY <4>1, <4>2
      <3>3. r.file = imports[w].file /\ r.docs = imports[w].docs /\ r.at = "work"
        BY <1>2, <1>14
      <3>4. QED
        BY ONLY <1>5, <3>1, <3>2, <3>3 DEF Listing, DocKey
    <2>2. imports'[w] = r
      BY <1>15
    <2>3. Listing(imports[w])'
      BY ONLY <2>1, <2>2 DEF Listing, DocKey
    <2>4. DocsMissing(imports[w])'
      BY <1>2, <1>3, <1>5, <1>12, <1>14, <1>15, DocsStay
    <2>5. PayableMissing(imports[w])'
      BY <1>2, <1>3, <1>5, <1>12, <1>14, <1>15 DEF PayableMissing, Overlapped, PayableKeys
    <2>6. PartiesMissing(imports[w])'
      <3> SUFFICES ASSUME NEW k \in DOMAIN r.parties, ~Overlapped(NameKey(r.parties[k].name)),
                          NEW c \in DOMAIN contacts'
                   PROVE  Lower(contacts'[c].name) # Lower(r.parties[k].name)
        BY <1>12, <1>15 DEF PartiesMissing, Overlapped
      <3>1. PICK name : name = r.parties[k].name
        OBVIOUS
      <3>2. /\ k \in Nat \ {0} /\ k + 1 \in DOMAIN parties /\ name = parties[k + 1].name
        BY <1>8, <1>14, <3>1
      <3>3. \A e \in DOMAIN contacts : Lower(contacts[e].name) # Lower(name)
        BY <1>5, <1>6, <3>1, <3>2 DEF PartiesMissing
      <3>4. Lower(name) # Lower(party.name)
        <4>1. k + 1 # 1
          BY <3>2
        <4>2. QED
          BY <1>5, <1>6, <1>8, <3>2, <4>1 DEF Listing
      <3>5. QED
        BY <1>11, <3>1, <3>3, <3>4
    <2>7. QED
      BY <2>3, <2>4, <2>5, <2>6 DEF RightAt
  <1>18. ImportsRight'
    BY <1>16, <1>17 DEF ImportsRight
  <1>19. OverlapsKnown'
    <2>1. FilesStay
      BY <1>2, <1>4, <1>14, <1>15 DEF FilesStay, OneMoves, Busy
    <2>2. QED
      BY <1>12, <2>1, OverlapsStay DEF ImportIInv
  <1>20. TablesRight'
    <2>1. \A i \in Journal!Ids : Imported(i) => (booked[i].source = "xaf" <=> booked[i].ref[1] = "xaf")
      BY DEF ImportIInv, TablesRight
    <2>2. \A c \in DOMAIN contacts' : contacts'[c].name \in AllNames
      BY <1>9, <1>11 DEF ImportIInv, TablesRight
    <2>3. QED
      BY <1>3, <2>1, <2>2 DEF ImportIInv, TablesRight, Journal!Ids, Imported
  <1>21. ContactsOnce'
    <2> SUFFICES ASSUME NEW j \in DOMAIN contacts', NEW k \in DOMAIN contacts', j # k,
                        Lower(contacts'[j].name) = Lower(contacts'[k].name)
                 PROVE  Overlapped(NameKey(contacts'[j].name))
      BY <1>12 DEF ContactsOnce, Overlapped
    <2>1. CASE j \in DOMAIN contacts /\ k \in DOMAIN contacts
      BY <1>11, <2>1 DEF ImportIInv, ContactsOnce
    <2>2. CASE j = n \/ k = n
      BY <1>10, <1>11, <2>2 DEF NameKey
    <2>3. QED
      BY <1>11, <2>1, <2>2
  <1>22. EntriesOnce' /\ PayablesOnce'
    BY <1>3, <1>12 DEF ImportIInv, EntriesOnce, PayablesOnce, Overlapped, Journal!Ids, Imported, Unreversed
  <1>23. TablesListed'
    BY <1>3, <1>11 DEF ImportIInv, TablesListed
  <1>24. QED
    BY <1>12, <1>15, <1>18, <1>19, <1>20, <1>21, <1>22, <1>23 DEF ImportIInv, OneMoves

\* An e-invoice becomes a payable.
LEMMA InvoiceStep ==
  ASSUME ImportIInv, NEW w \in Importers, RegisterInvoice(w)
  PROVE  ImportIInv'
  <1>1. PICK f, key : f = imports[w].file /\ key = PayableKey(f)
    OBVIOUS
  <1>2. /\ imports[w].at = "work" /\ f.kind = "invoice"
        /\ imports' = [imports EXCEPT ![w] = NoImport] /\ UNCHANGED <<booked, contacts>>
        /\ \E S : history' = [history EXCEPT !.done = S]
    BY <1>1 DEF RegisterInvoice, Doing
  <1>3. CASE imports[w].refs # {}
    <2>1. UNCHANGED inbound
      BY <1>3 DEF RegisterInvoice
    <2>2. QED
      BY <1>2, <2>1, Ending
  <1>4. CASE imports[w].refs = {}
    <2>1. PICK p, n : /\ inbound' = Append(inbound, p) /\ n = Len(inbound) + 1
                      /\ p.key = key /\ p.key = <<SupplierKey(p.supplier), p.ref>>
      <3>1. PICK p : p = [contact |-> imports[w].own, supplier |-> Supplier(f), ref |-> f.ref, key |-> key, amount |-> f.amount]
        OBVIOUS
      <3>2. inbound' = Append(inbound, p)
        BY <1>1, <1>4, <3>1 DEF RegisterInvoice
      <3>3. p.key = key /\ p.key = <<SupplierKey(p.supplier), p.ref>>
        BY <1>1, <3>1 DEF PayableKey
      <3>4. QED
        BY <3>2, <3>3
    <2>2. /\ \E B : inbound' \in Seq(B)
          /\ DOMAIN inbound' = DOMAIN inbound \cup {n} /\ n \notin DOMAIN inbound
          /\ inbound'[n] = p
          /\ \A c \in DOMAIN inbound : inbound'[c] = inbound[c]
      <3>1. PICK B : inbound \in Seq(B)
        BY DEF ImportIInv, TablesListed
      <3>2. PICK C : C = B \cup {p}
        OBVIOUS
      <3>3. inbound \in Seq(C) /\ p \in C
        BY <3>1, <3>2
      <3>4. /\ inbound' \in Seq(C) /\ Len(inbound) \in Nat /\ DOMAIN inbound = 1 .. Len(inbound)
            /\ DOMAIN inbound' = 1 .. Len(inbound) + 1
            /\ inbound'[Len(inbound) + 1] = p /\ \A c \in 1 .. Len(inbound) : inbound'[c] = inbound[c]
        BY <2>1, <3>3
      <3>5. PICK m \in Nat : m = Len(inbound)
        BY <3>4
      <3>6. 1 .. m + 1 = 1 .. m \cup {m + 1} /\ m + 1 \notin 1 .. m
        OBVIOUS
      <3>7. DOMAIN inbound = 1 .. m /\ DOMAIN inbound' = 1 .. m + 1 /\ n = m + 1
        BY <2>1, <3>4, <3>5
      <3>8. QED
        BY <3>4, <3>6, <3>7
    <2>3. Busy(imports[w])
      BY <1>2 DEF Busy
    <2>4. PayableMissing(imports[w])
      BY <2>3 DEF ImportIInv, ImportsRight, RightAt
    <2>5. Overlapped(<<"payable", key>>) \/ \A c \in DOMAIN inbound : inbound[c].key # key
      BY <1>1, <1>2, <1>4, <2>4 DEF PayableMissing, PayableKeys
    <2>6. <<"payable", key>> \in KeysOf(f)
      BY <1>1, <1>2 DEF KeysOf
    <2>7. HistoryListed' /\ history'.overlapped = history.overlapped
      BY <1>2, HistoryKept DEF ImportIInv
    <2>8. \E D, A, X : NoImport \in ImportOf(D, A, X)
      BY NoImportIs
    <2>9. OneMoves(w) /\ imports'[w] = NoImport
      BY <1>2, <2>8, MovesTo DEF ImportIInv
    <2>10. ~Busy(imports[w])'
      BY <2>9, NoImportIs DEF Busy
    \* Another importer has that invoice only if that is on record.
    <2>11. ASSUME NEW v \in Importers, v # w
           PROVE  RightAt(v)'
      <3>0. imports'[v] = imports[v]
        BY <2>9, <2>11 DEF OneMoves
      <3> SUFFICES ASSUME Busy(imports[v])
                   PROVE  /\ Listing(imports[v])'
                          /\ DocsMissing(imports[v])' /\ PartiesMissing(imports[v])' /\ PayableMissing(imports[v])'
        BY <3>0 DEF RightAt, Busy
      <3>1. /\ Listing(imports[v])
            /\ DocsMissing(imports[v]) /\ PartiesMissing(imports[v]) /\ PayableMissing(imports[v])
        BY DEF ImportIInv, ImportsRight, RightAt
      <3>2. Listing(imports[v])'
        BY ONLY <3>0, <3>1 DEF Listing, DocKey
      <3>3. DocsMissing(imports[v])'
        BY <1>2, <2>7, <3>0, <3>1, DocsStay
      <3>4. PartiesMissing(imports[v])'
        BY <1>2, <2>7, <3>0, <3>1 DEF PartiesMissing, Overlapped
      <3>5. PayableMissing(imports[v])'
        <4> SUFFICES ASSUME imports[v].file.kind = "invoice", imports[v].refs = {},
                            ~Overlapped(<<"payable", PayableKey(imports[v].file)>>),
                            NEW c \in DOMAIN inbound'
                     PROVE  inbound'[c].key # PayableKey(imports[v].file)
          BY <2>7, <3>0 DEF PayableMissing, PayableKeys, Overlapped
        <4>1. PICK other : other = PayableKey(imports[v].file)
          OBVIOUS
        <4>2. \A e \in DOMAIN inbound : inbound[e].key # other
          BY <3>1, <4>1 DEF PayableMissing, PayableKeys
        <4>3. <<"payable", other>> \in KeysOf(imports[v].file)
          BY <4>1 DEF KeysOf
        <4>4. <<"payable", other>> \notin KeysOf(f)
          BY <1>1, <2>3, <2>11, <4>1, <4>3 DEF ImportIInv, OverlapsKnown, Overlapped
        <4>5. other # key
          BY <2>6, <4>4
        <4>6. QED
          BY <2>1, <2>2, <4>1, <4>2, <4>5
      <3>6. QED
        BY <3>2, <3>3, <3>4, <3>5
    <2>12. ImportsRight'
      BY <2>10, <2>11 DEF ImportsRight, RightAt
    <2>13. OverlapsKnown'
      <3>1. FilesStay
        BY <2>9, <2>10 DEF FilesStay, OneMoves, Busy
      <3>2. QED
        BY <2>7, <3>1, OverlapsStay DEF ImportIInv
    <2>14. TablesRight'
      <3>1. \A i \in Journal!Ids : Imported(i) => (booked[i].source = "xaf" <=> booked[i].ref[1] = "xaf")
        BY DEF ImportIInv, TablesRight
      <3>2. \A c \in DOMAIN inbound' : inbound'[c].key = <<SupplierKey(inbound'[c].supplier), inbound'[c].ref>>
        BY <2>1, <2>2 DEF ImportIInv, TablesRight
      <3>3. QED
        BY <1>2, <3>1, <3>2 DEF ImportIInv, TablesRight, Journal!Ids, Imported
    <2>15. PayablesOnce'
      <3> SUFFICES ASSUME NEW j \in DOMAIN inbound', NEW k \in DOMAIN inbound', j # k,
                          inbound'[j].key = inbound'[k].key
                   PROVE  Overlapped(<<"payable", inbound'[j].key>>)
        BY <2>7 DEF PayablesOnce, Overlapped
      <3>1. CASE j \in DOMAIN inbound /\ k \in DOMAIN inbound
        BY <2>2, <3>1 DEF ImportIInv, PayablesOnce
      <3>2. CASE j = n \/ k = n
        BY <2>1, <2>2, <2>5, <3>2
      <3>3. QED
        BY <2>2, <3>1, <3>2
    <2>16. EntriesOnce' /\ ContactsOnce'
      BY <1>2, <2>7 DEF ImportIInv, EntriesOnce, ContactsOnce, Overlapped, Journal!Ids, Imported, Unreversed
    <2>17. TablesListed'
      BY <1>2, <2>2 DEF ImportIInv, TablesListed
    <2>18. QED
      BY <2>7, <2>9, <2>12, <2>13, <2>14, <2>15, <2>16, <2>17 DEF ImportIInv, OneMoves
  <1>5. QED
    BY <1>3, <1>4

\* No contact has the letters and digits of a supplier's name when none is found.
LEMMA NoContact ==
  ASSUME NEW f, TablesListed, ContactOf(f) = 0, NEW c \in DOMAIN contacts
  PROVE  Plain(contacts[c].name) # Plain(Supplier(f).name)
  <1>1. PICK byVat, byName :
           /\ byVat = {k \in DOMAIN contacts : Supplier(f).vat # NoVat /\ contacts[k].vat = Supplier(f).vat}
           /\ byName = {k \in DOMAIN contacts : Plain(contacts[k].name) = Plain(Supplier(f).name)}
    OBVIOUS
  <1>2. ContactOf(f) = CASE f.contact # 0 -> f.contact
                         [] f.contact = 0 /\ byVat # {} -> Min(byVat)
                         [] f.contact = 0 /\ byVat = {} /\ byName # {} -> Min(byName)
                         [] OTHER -> 0
    BY <1>1 DEF ContactOf
  <1>3. DOMAIN contacts \subseteq Nat \ {0}
    <2>1. PICK B : contacts \in Seq(B)
      BY DEF TablesListed
    <2>2. QED
      BY <2>1
  <1>4. ASSUME NEW S, S \subseteq DOMAIN contacts, S # {}
        PROVE  Min(S) # 0
    <2>1. S \subseteq Nat
      BY <1>3, <1>4
    <2>2. \E x \in S : \A y \in S : x <= y
      BY <1>4, <2>1, LeastNumber
    <2>3. Min(S) \in S
      BY <2>2 DEF Min
    <2>4. QED
      BY <1>3, <1>4, <2>3
  <1>5. byVat # {} => Min(byVat) # 0
    BY <1>1, <1>4
  <1>6. byName # {} => Min(byName) # 0
    BY <1>1, <1>4
  <1>7. byName = {}
    BY <1>2, <1>5, <1>6
  <1>8. QED
    BY <1>1, <1>7

\* Parties that will become contacts are of the file and are not there.
LEMMA ToCreateAre ==
  ASSUME NEW f \in Files, TablesListed, TablesRight
  PROVE  /\ \E A : ToCreate(f) \in Seq(A)
         /\ \A k \in DOMAIN ToCreate(f) :
              /\ ToCreate(f)[k].name \in AllNames /\ NameKey(ToCreate(f)[k].name) \in KeysOf(f)
              /\ \A c \in DOMAIN contacts : Lower(contacts[c].name) # Lower(ToCreate(f)[k].name)
         /\ \A j, k \in DOMAIN ToCreate(f) : Lower(ToCreate(f)[j].name) = Lower(ToCreate(f)[k].name) => j = k
  <1>1. NamesIn(f) \subseteq AllNames
    BY DEF AllNames
  <1>2. CASE f.kind = "contacts"
    <2>1. ToCreate(f) = Fresh(f)
      BY <1>2 DEF ToCreate
    <2>2. /\ \E A : Fresh(f) \in Seq(A)
          /\ \A k \in DOMAIN Fresh(f) : /\ Fresh(f)[k].name \in NamesIn(f)
                                        /\ NameKey(Fresh(f)[k].name) \in KeysOf(f)
                                        /\ Lower(Fresh(f)[k].name) \notin NameKeys
          /\ \A j, k \in DOMAIN Fresh(f) : Lower(Fresh(f)[j].name) = Lower(Fresh(f)[k].name) => j = k
      BY <1>2, FreshAre
    <2>3. \A k \in DOMAIN Fresh(f) : \A c \in DOMAIN contacts : Lower(contacts[c].name) # Lower(Fresh(f)[k].name)
      BY <2>2 DEF NameKeys
    <2>4. QED
      BY <1>1, <2>1, <2>2, <2>3
  <1>3. CASE f.kind = "invoice" /\ ContactOf(f) = 0
    <2>1. PICK party : party = Supplier(f)
      OBVIOUS
    <2>2. ToCreate(f) = <<party>>
      BY <1>3, <2>1 DEF ToCreate
    <2>3. <<party>> \in Seq({party}) /\ DOMAIN <<party>> = {1} /\ <<party>>[1] = party
      OBVIOUS
    <2>4. party.name \in AllNames
      BY <1>1, <2>1 DEF NamesIn
    <2>5. NameKey(party.name) \in KeysOf(f)
      BY <1>3, <2>1 DEF KeysOf, NameKey
    <2>6. ASSUME NEW c \in DOMAIN contacts
          PROVE  Lower(contacts[c].name) # Lower(party.name)
      <3>1. Plain(contacts[c].name) # Plain(party.name)
        BY <1>3, <2>1, NoContact
      <3>2. contacts[c].name \in AllNames
        BY DEF TablesRight
      <3>3. QED
        BY <2>4, <3>1, <3>2, FilesAssumption DEF AllNames
    <2>7. \A k \in DOMAIN ToCreate(f) : k = 1 /\ ToCreate(f)[k] = party
      BY <2>2, <2>3
    <2>8. \E A : ToCreate(f) \in Seq(A)
      BY <2>2, <2>3
    <2>9. QED
      BY <2>4, <2>5, <2>6, <2>7, <2>8
  <1>4. CASE f.kind # "contacts" /\ ~(f.kind = "invoice" /\ ContactOf(f) = 0)
    <2>1. ToCreate(f) = << >>
      BY <1>4 DEF ToCreate
    <2>2. << >> \in Seq({}) /\ DOMAIN << >> = {}
      OBVIOUS
    <2>3. QED
      BY <2>1, <2>2
  <1>5. QED
    BY <1>2, <1>3, <1>4

\* What is missing at the start.
LEMMA DocsFound ==
  ASSUME NEW f \in Files, IsBookings(f), Accepts(f), TablesRight,
         NEW key, key \in KeysOf(f), f.kind # "opening" => key \notin ExistingRefs(f),
         NEW i \in Journal!Ids, Imported(i), booked[i].ref = key
  PROVE  f.kind = "opening" /\ ~Unreversed(i)
  <1>1. key[1] = IF IsXaf(f) THEN "xaf" ELSE f.kind
    <2>1. KeysOf(f) = {RefOf(f, f.items[k].ref) : k \in DOMAIN f.items}
      BY DEF KeysOf, IsBookings, IsXaf
    <2>2. QED
      BY <2>1 DEF RefOf
  <1>2. CASE f.kind = "opening"
    <2>1. ~OpeningTaken
      BY <1>2 DEF Accepts, OpeningAccepted
    <2>2. booked[i].ref[1] = "opening"
      BY <1>1, <1>2 DEF IsXaf
    <2>3. QED
      BY <1>2, <2>1, <2>2 DEF OpeningTaken
  <1>3. CASE f.kind # "opening"
    <2>1. booked[i].source \in {"import", "xaf"} /\ (booked[i].source = "xaf" <=> key[1] = "xaf")
      BY DEF Imported, TablesRight
    <2>2. key[1] = "xaf" <=> IsXaf(f)
      BY <1>1 DEF IsXaf
    <2>3. booked[i].source = SourceOf(f)
      BY <2>1, <2>2 DEF SourceOf
    <2>4. key \in ExistingRefs(f)
      BY <2>3 DEF ExistingRefs
    <2>5. QED
      BY <1>3, <2>4
  <1>4. QED
    BY <1>2, <1>3

\* An import starts.
LEMMA StartStep ==
  ASSUME ImportIInv, NEW w \in Importers, NEW f \in Files, StartImport(w, f)
  PROVE  ImportIInv'
  <1>1. ~Busy(imports[w]) /\ Accepts(f) /\ UNCHANGED <<booked, contacts, inbound>>
    BY DEF StartImport, Doing, Busy
  <1>2. PICK r : r =
       [at |-> "work", file |-> f,
        rows |-> IF IsChart(f) THEN f.rows ELSE << >>,
        docs |-> IF IsBookings(f) THEN Docs(f) ELSE << >>,
        parties |-> ToCreate(f),
        refs |-> CASE f.kind = "invoice" -> PayableKeys \cap {PayableKey(f)}
                   [] f.kind \in {"journal", "xaf", "audit"} -> ExistingRefs(f)
                   [] OTHER -> {},
        own |-> IF f.kind = "invoice" THEN ContactOf(f) ELSE 0,
        held |-> NoRole, turn |-> 0]
    OBVIOUS
  <1>3. imports' = [imports EXCEPT ![w] = r]
    BY <1>2 DEF StartImport
  <1>4. PICK shared : shared = KeysOf(f) \cap UNION {KeysOf(imports[v].file) : v \in {u \in Importers : ~Doing(u, "idle")}}
    OBVIOUS
  <1>5. history' = [history EXCEPT !.starts = @ + 1, !.overlapped = @ \cup shared]
    BY <1>4 DEF StartImport
  <1>6. HistoryListed' /\ history'.overlapped = history.overlapped \cup shared
    <2>1. PICK X : history \in [done : X, broken : X, overlapped : X, manual : X, left : X, starts : X]
      BY DEF ImportIInv, HistoryListed
    <2>2. PICK Y : Y = X \cup {history.starts + 1, history.overlapped \cup shared}
      OBVIOUS
    <2>3. history' \in [done : Y, broken : Y, overlapped : Y, manual : Y, left : Y, starts : Y]
      BY <1>5, <2>1, <2>2
    <2>4. history'.overlapped = history.overlapped \cup shared
      BY <1>5, <2>1
    <2>5. QED
      BY <2>3, <2>4 DEF HistoryListed
  <1>7. NothingWritten
    BY <1>1, <1>6, SameRows DEF NothingWritten, ImportIInv
  <1>8. /\ \E A : ToCreate(f) \in Seq(A)
        /\ \A k \in DOMAIN ToCreate(f) :
             /\ ToCreate(f)[k].name \in AllNames /\ NameKey(ToCreate(f)[k].name) \in KeysOf(f)
             /\ \A c \in DOMAIN contacts : Lower(contacts[c].name) # Lower(ToCreate(f)[k].name)
        /\ \A j, k \in DOMAIN ToCreate(f) : Lower(ToCreate(f)[j].name) = Lower(ToCreate(f)[k].name) => j = k
    BY ToCreateAre DEF ImportIInv
  <1>9. /\ \E D : r.docs \in Seq(D)
        /\ ~IsBookings(f) => r.docs = << >>
        /\ \A d \in DOMAIN r.docs : RefOf(f, r.docs[d].ref) \in KeysOf(f)
        /\ f.kind = "journal" => \A d, e \in DOMAIN r.docs : r.docs[d].ref = r.docs[e].ref => d = e
        /\ f.kind = "opening" => Len(r.docs) <= 1
    <2>1. CASE IsBookings(f)
      <3>1. r.docs = Docs(f)
        BY <1>2, <2>1
      <3>2. QED
        BY <2>1, <3>1, DocsAre
    <2>2. CASE ~IsBookings(f)
      <3>1. r.docs = << >>
        BY <1>2, <2>2
      <3>2. << >> \in Seq({}) /\ DOMAIN << >> = {} /\ Len(<< >>) = 0
        OBVIOUS
      <3>3. QED
        BY <2>2, <3>1, <3>2
    <2>3. QED
      BY <2>1, <2>2
  <1>10. \E D, A, X : r \in ImportOf(D, A, X)
    <2>1. PICK D, A : r.docs \in Seq(D) /\ r.parties \in Seq(A)
      BY <1>2, <1>8, <1>9
    <2>2. PICK X : X = {r.rows, r.refs, r.own, r.held, r.turn}
      OBVIOUS
    <2>3. r \in ImportOf(D, A, X)
      BY <1>2, <2>1, <2>2 DEF ImportOf
    <2>4. QED
      BY <2>3
  <1>11. OneMoves(w) /\ imports'[w] = r
    BY <1>3, <1>10, MovesTo DEF ImportIInv
  <1>12. r.at = "work" /\ r.file = f /\ r.parties = ToCreate(f)
    BY <1>2
  <1>13. Listing(r)
    BY <1>8, <1>9, <1>12 DEF Listing, DocKey
  <1>14. Listing(imports[w])'
    <2>1. imports'[w] = r
      BY <1>11
    <2>2. QED
      BY ONLY <1>13, <2>1 DEF Listing, DocKey
  <1>15. DocsMissing(imports[w])'
    <2> SUFFICES ASSUME NEW d \in DOMAIN r.docs, DocKey(r, d) \notin r.refs
                 PROVE  NoneThere(r, d)
      BY <1>1, <1>11 DEF DocsMissing, DocKey, NoneThere, Journal!Ids, Imported, Unreversed
    <2>1. DocKey(r, d) \in KeysOf(f) /\ IsBookings(f)
      BY <1>9, <1>12 DEF DocKey
    <2>2. f.kind # "opening" => DocKey(r, d) \notin ExistingRefs(f)
      BY <1>2, <2>1 DEF IsBookings, IsXaf
    <2> SUFFICES ASSUME NEW i \in Journal!Ids, Imported(i), booked[i].ref = DocKey(r, d)
                 PROVE  f.kind = "opening" /\ ~Unreversed(i)
      BY <1>12 DEF NoneThere
    <2>3. QED
      BY <1>1, <2>1, <2>2, DocsFound DEF ImportIInv
  <1>16. PartiesMissing(imports[w])'
    BY <1>1, <1>8, <1>11, <1>12 DEF PartiesMissing
  <1>17. PayableMissing(imports[w])'
    <2>1. f.kind = "invoice" => r.refs = PayableKeys \cap {PayableKey(f)}
      BY <1>2
    <2>2. QED
      BY <1>1, <1>11, <1>12, <2>1 DEF PayableMissing, PayableKeys
  <1>18. ImportsRight'
    <2>1. ASSUME NEW v \in Importers, v # w
          PROVE  RightAt(v)'
      <3>1. imports'[v] = imports[v] /\ RightAt(v)
        BY <1>11, <2>1 DEF OneMoves, ImportIInv, ImportsRight
      <3>2. QED
        BY <1>7, <3>1, MissingStays
    <2>2. RightAt(w)'
      BY <1>14, <1>15, <1>16, <1>17 DEF RightAt
    <2>3. QED
      BY <2>1, <2>2 DEF ImportsRight
  <1>19. OverlapsKnown'
    <2>1. ASSUME NEW v \in Importers, v # w, Busy(imports'[v])
          PROVE  KeysOf(f) \cap KeysOf(imports'[v].file) \subseteq history'.overlapped
      <3>1. imports'[v] = imports[v] /\ ~Doing(v, "idle")
        BY <1>11, <2>1 DEF OneMoves, Busy, Doing
      <3>2. KeysOf(f) \cap KeysOf(imports[v].file) \subseteq shared
        BY <1>4, <3>1
      <3>3. QED
        BY <1>6, <3>1, <3>2
    <2>2. ASSUME NEW u \in Importers, NEW v \in Importers, u # v, Busy(imports'[u]), Busy(imports'[v])
          PROVE  KeysOf(imports'[u].file) \cap KeysOf(imports'[v].file) \subseteq history'.overlapped
      <3>1. CASE u = w
        BY <1>11, <1>12, <2>1, <2>2, <3>1
      <3>2. CASE v = w
        BY <1>11, <1>12, <2>1, <2>2, <3>2
      <3>3. CASE u # w /\ v # w
        <4>1. imports'[u] = imports[u] /\ imports'[v] = imports[v]
          BY <1>11, <3>3 DEF OneMoves
        <4>2. KeysOf(imports[u].file) \cap KeysOf(imports[v].file) \subseteq history.overlapped
          BY <2>2, <4>1 DEF ImportIInv, OverlapsKnown
        <4>3. QED
          BY <1>6, <4>1, <4>2
      <3>4. QED
        BY <3>1, <3>2, <3>3
    <2>3. QED
      BY <2>2 DEF OverlapsKnown, Busy
  <1>20. TablesRight' /\ EntriesOnce' /\ ContactsOnce' /\ PayablesOnce'
    BY <1>7, OnceStays DEF ImportIInv
  <1>21. QED
    BY <1>7, <1>11, <1>18, <1>19, <1>20 DEF ImportIInv, NothingWritten, OneMoves

LEMMA ImportStarts ==
  ASSUME ImportInit
  PROVE  ImportIInv
  <1>1. booked = << >> /\ contacts = << >> /\ inbound = << >> /\ imports = [w \in Importers |-> NoImport]
    BY DEF ImportInit
  <1>2. << >> \in Seq({}) /\ DOMAIN << >> = {}
    OBVIOUS
  <1>3. RowOf({}, {}) = {}
    BY DEF RowOf
  <1>4. TablesListed
    BY <1>1, <1>2, <1>3 DEF TablesListed
  <1>5. HistoryListed
    <2>1. PICK X : X = {{}, 0}
      OBVIOUS
    <2>2. history \in [done : X, broken : X, overlapped : X, manual : X, left : X, starts : X]
      BY <2>1 DEF ImportInit
    <2>3. QED
      BY <2>2 DEF HistoryListed
  <1>6. ImportsListed
    BY <1>1, NoImportIs DEF ImportsListed
  <1>7. \A w \in Importers : ~Busy(imports[w])
    BY <1>1, NoImportIs
  <1>8. ImportsRight /\ OverlapsKnown
    BY <1>7 DEF ImportsRight, RightAt, OverlapsKnown
  <1>9. TablesRight /\ EntriesOnce /\ ContactsOnce /\ PayablesOnce
    BY <1>1, <1>2 DEF TablesRight, EntriesOnce, ContactsOnce, PayablesOnce, Journal!Ids
  <1>10. QED
    BY <1>4, <1>5, <1>6, <1>8, <1>9 DEF ImportIInv

LEMMA ImportsGoOn ==
  ASSUME ImportIInv, [ImportNext]_importVars
  PROVE  ImportIInv'
  <1>1. ASSUME NEW w \in Importers, ImportStep(w)
        PROVE  ImportIInv'
    <2>1. ASSUME NEW f \in Files, StartImport(w, f)
          PROVE  ImportIInv'
      BY <2>1, StartStep
    <2>2. CASE RowStepOf(w)
      BY <2>2, ChartStep
    <2>3. CASE SkipDoc(w) \/ PostDoc(w)
      BY <2>3, SkipOrPost
    <2>4. CASE CreateMissing(w)
      BY <2>4, ByHand
    <2>5. CASE CreateDoc(w)
      BY <2>5, Drafted
    <2>6. CASE NextParty(w)
      BY <2>6, PartyStep
    <2>7. CASE RegisterInvoice(w)
      BY <2>7, InvoiceStep
    <2>8. CASE EndImport(w) \/ Fail(w) \/ Die(w)
      BY <2>8, EndStep
    <2>9. QED
      BY <1>1, <2>1, <2>2, <2>3, <2>4, <2>5, <2>6, <2>7, <2>8 DEF ImportStep, RowStepOf
  <1>2. CASE \E c \in Codes : Toggle(c) \/ \E role : SetRole(c, role)
    BY <1>2, ByHand
  <1>3. CASE \E i \in Journal!Ids : PostByHand(i) \/ ReverseByHand(i)
    BY <1>3, ByHand
  <1>4. CASE UNCHANGED importVars
    <2>1. UNCHANGED <<booked, contacts, inbound, imports, history>>
      BY <1>4 DEF importVars
    <2>2. NothingWritten
      BY <2>1, SameRows, HistoryKept DEF NothingWritten, ImportIInv
    <2>3. QED
      BY <2>1, <2>2, HandStep
  <1>5. CASE ImportNext
    <2>1. \/ \E w \in Importers : ImportStep(w)
          \/ \E c \in Codes : Toggle(c) \/ \E role : SetRole(c, role)
          \/ \E i \in Journal!Ids : PostByHand(i) \/ ReverseByHand(i)
      BY <1>5 DEF ImportNext
    <2>2. QED
      BY <1>1, <1>2, <1>3, <2>1
  <1>6. QED
    BY <1>4, <1>5

LEMMA OnceOnly ==
  ASSUME ImportIInv
  PROVE  ImportedOnce
  <1>1. ASSUME NEW j \in DOMAIN inbound, NEW k \in DOMAIN inbound, SameSupplier(j, k),
               inbound[j].ref = inbound[k].ref, j # k
        PROVE  Overlapped(<<"payable", inbound[j].key>>)
    <2>1. SupplierKey(inbound[j].supplier) = SupplierKey(inbound[k].supplier)
      BY <1>1 DEF SameSupplier, SupplierKey
    <2>2. inbound[j].key = inbound[k].key
      BY <1>1, <2>1 DEF ImportIInv, TablesRight
    <2>3. QED
      BY <1>1, <2>2 DEF ImportIInv, PayablesOnce
  <1>2. \A i, j \in Journal!Ids : Imported(i) /\ Imported(j) /\ booked[i].ref = booked[j].ref /\ i # j =>
          Overlapped(booked[i].ref) \/ (booked[i].ref[1] = "opening" /\ ~(Unreversed(i) /\ Unreversed(j)))
    BY DEF ImportIInv, EntriesOnce
  <1>3. \A j, k \in DOMAIN contacts : Lower(contacts[j].name) = Lower(contacts[k].name) /\ j # k =>
          Overlapped(<<"name", Lower(contacts[j].name)>>)
    BY DEF ImportIInv, ContactsOnce, NameKey
  <1>4. QED
    BY <1>1, <1>2, <1>3 DEF ImportedOnce

\* Whatever files are imported, by however many importers, in whatever order,
\* and wherever they break off, nothing is booked, entered or registered twice,
\* but what two importers worked on at once.  What an importer found missing
\* when it started is missing still, or another one that may write it is on
\* record; that is what keeps its own writes from being the second.
THEOREM NothingTwice == ImportSpec => []ImportedOnce
  <1>1. ImportInit => ImportIInv
    BY ImportStarts
  <1>2. ImportIInv /\ [ImportNext]_importVars => ImportIInv'
    BY ImportsGoOn
  <1>3. ImportIInv => ImportedOnce
    BY OnceOnly
  <1>4. QED
    BY <1>1, <1>2, <1>3, PTL DEF ImportSpec

----------------------------------------------------------------------------------
(* The roles of the chart.                                                 *)

AccountOf(X) == [name : X, type : X, rgs : X, active : BOOLEAN, role : X]

\* An account has a role it matches, or one it is excused for.
RoleJustified(code, account, excused) ==
  account.role # NoRole =>
    <<code, account.role>> \in excused \/ MatchesRole(account.type, account.name, account.role)

HeldOnce(ch) == \A c, d \in DOMAIN ch : ch[c].role = ch[d].role /\ ch[c].role # NoRole => c = d

FineChart(ch, excused) ==
  /\ DOMAIN ch \subseteq Codes /\ ch = [c \in DOMAIN ch |-> ch[c]]
  /\ \A c \in DOMAIN ch : (\E X : ch[c] \in AccountOf(X)) /\ RoleJustified(c, ch[c], excused)
  /\ HeldOnce(ch)

\* The least of a set of positions or codes is one of them.
LEMMA LeastIs ==
  ASSUME NEW S, S \subseteq Nat, S # {}
  PROVE  Min(S) \in S
  <1>1. \E x \in S : \A y \in S : x <= y
    BY LeastNumber
  <1>2. QED
    BY <1>1 DEF Min

LEMMA InferRoleIs ==
  ASSUME NEW type, NEW name
  PROVE  InferRole(type, name) # NoRole => MatchesRole(type, name, InferRole(type, name))
  <1>1. PICK M : M = {k \in DOMAIN Roles : MatchesRole(type, name, Roles[k])}
    OBVIOUS
  <1>2. InferRole(type, name) = IF M = {} THEN NoRole ELSE Roles[Min(M)]
    BY <1>1 DEF InferRole
  <1>3. M \subseteq Nat
    <2>1. DOMAIN Roles \subseteq Nat
      BY DEF Roles
    <2>2. QED
      BY <1>1, <2>1
  <1>4. M # {} => Min(M) \in M
    BY <1>3, LeastIs
  <1>5. QED
    BY <1>1, <1>2, <1>4

\* What is excused of the roles that are there stays so.
LEMMA FineLater ==
  ASSUME NEW ch, NEW M, NEW N, FineChart(ch, M),
         \A c \in DOMAIN ch : ch[c].role # NoRole /\ <<c, ch[c].role>> \in M => <<c, ch[c].role>> \in N
  PROVE  FineChart(ch, N)
  BY DEF FineChart, RoleJustified

\* A new account.
LEMMA FineWith ==
  ASSUME NEW ch, NEW M, FineChart(ch, M), NEW code \in Codes, code \notin DOMAIN ch,
         NEW a, NEW X, a \in AccountOf(X), RoleJustified(code, a, M), a.role # NoRole => Holders(ch, a.role) = {}
  PROVE  FineChart([c \in DOMAIN ch \cup {code} |-> IF c = code THEN a ELSE ch[c]], M)
  <1>1. PICK new : new = [c \in DOMAIN ch \cup {code} |-> IF c = code THEN a ELSE ch[c]]
    OBVIOUS
  <1>2. DOMAIN new = DOMAIN ch \cup {code} /\ new[code] = a /\ \A c \in DOMAIN ch : new[c] = ch[c]
    BY <1>1
  <1>3. DOMAIN new \subseteq Codes /\ new = [c \in DOMAIN new |-> new[c]]
    BY <1>1, <1>2 DEF FineChart
  <1>4. \A c \in DOMAIN new : (\E Y : new[c] \in AccountOf(Y)) /\ RoleJustified(c, new[c], M)
    BY <1>2 DEF FineChart
  <1>5. HeldOnce(new)
    <2> SUFFICES ASSUME NEW c \in DOMAIN new, NEW d \in DOMAIN new, new[c].role = new[d].role, new[c].role # NoRole, c # d
                 PROVE  FALSE
      BY DEF HeldOnce
    <2>1. CASE c \in DOMAIN ch /\ d \in DOMAIN ch
      BY <1>2, <2>1 DEF FineChart, HeldOnce
    <2>2. CASE c = code
      <3>1. d \in DOMAIN ch /\ ch[d].role = a.role /\ a.role # NoRole
        BY <1>2, <2>2
      <3>2. QED
        BY <3>1 DEF Holders
    <2>3. CASE d = code
      <3>1. c \in DOMAIN ch /\ ch[c].role = a.role /\ a.role # NoRole
        BY <1>2, <2>3
      <3>2. QED
        BY <3>1 DEF Holders
    <2>4. QED
      BY <1>2, <2>1, <2>2, <2>3
  <1>6. FineChart(new, M)
    BY <1>3, <1>4, <1>5 DEF FineChart
  <1>7. QED
    BY <1>1, <1>6

\* An account changes.
LEMMA FineChanged ==
  ASSUME NEW ch, NEW M, FineChart(ch, M), NEW code \in DOMAIN ch,
         NEW a, NEW X, a \in AccountOf(X), RoleJustified(code, a, M), a.role # NoRole => Holders(ch, a.role) \subseteq {code}
  PROVE  FineChart([ch EXCEPT ![code] = a], M)
  <1>1. PICK new : new = [ch EXCEPT ![code] = a]
    OBVIOUS
  <1>2. ch = [c \in DOMAIN ch |-> ch[c]]
    BY DEF FineChart
  <1>3. DOMAIN new = DOMAIN ch /\ new[code] = a /\ \A c \in DOMAIN ch : c # code => new[c] = ch[c]
    BY <1>1, <1>2
  <1>4. DOMAIN new \subseteq Codes /\ new = [c \in DOMAIN new |-> new[c]]
    BY <1>1, <1>3 DEF FineChart
  <1>5. \A c \in DOMAIN new : (\E Y : new[c] \in AccountOf(Y)) /\ RoleJustified(c, new[c], M)
    BY <1>3 DEF FineChart
  <1>6. HeldOnce(new)
    <2> SUFFICES ASSUME NEW c \in DOMAIN new, NEW d \in DOMAIN new, new[c].role = new[d].role, new[c].role # NoRole, c # d
                 PROVE  FALSE
      BY DEF HeldOnce
    <2>1. CASE c # code /\ d # code
      BY <1>3, <2>1 DEF FineChart, HeldOnce
    <2>2. CASE c = code
      <3>1. d \in DOMAIN ch /\ ch[d].role = a.role /\ a.role # NoRole /\ d # code
        BY <1>3, <2>2
      <3>2. QED
        BY <3>1 DEF Holders
    <2>3. CASE d = code
      <3>1. c \in DOMAIN ch /\ ch[c].role = a.role /\ a.role # NoRole /\ c # code
        BY <1>3, <2>3
      <3>2. QED
        BY <3>1 DEF Holders
    <2>4. QED
      BY <2>1, <2>2, <2>3
  <1>7. FineChart(new, M)
    BY <1>4, <1>5, <1>6 DEF FineChart
  <1>8. QED
    BY <1>1, <1>7

LEMMA FineCreated ==
  ASSUME NEW ch, NEW M, FineChart(ch, M), NEW code \in Codes, code \notin DOMAIN ch, NEW name, NEW type, NEW rgs
  PROVE  FineChart(CreateAccount(ch, code, name, type, rgs), M)
  <1>1. PICK role : role = InferRole(type, name)
    OBVIOUS
  <1>2. PICK a : a = [name |-> name, type |-> type, rgs |-> rgs, active |-> TRUE,
                      role |-> IF Holders(ch, role) = {} THEN role ELSE NoRole]
    OBVIOUS
  <1>3. CreateAccount(ch, code, name, type, rgs) = [c \in DOMAIN ch \cup {code} |-> IF c = code THEN a ELSE ch[c]]
    BY <1>1, <1>2 DEF CreateAccount
  <1>4. a \in AccountOf({name, type, rgs, a.role})
    BY <1>2 DEF AccountOf
  <1>5. RoleJustified(code, a, M)
    BY <1>1, <1>2, InferRoleIs DEF RoleJustified
  <1>6. a.role # NoRole => Holders(ch, a.role) = {}
    BY <1>2
  <1>7. QED
    BY <1>3, <1>4, <1>5, <1>6, FineWith

LEMMA FineRow ==
  ASSUME NEW ch, NEW M, FineChart(ch, M), NEW row, row.code \in Codes
  PROVE  FineChart(ImportRow(ch, row), M)
  BY FineCreated DEF ImportRow

\* An active account of the kind gets the role.
LEMMA FineAssigned ==
  ASSUME NEW ch, NEW M, FineChart(ch, M), NEW role
  PROVE  FineChart(AssignFreeRole(ch, role), M)
  <1>1. PICK S : S = Matching(ch, role)
    OBVIOUS
  <1>2. S \subseteq DOMAIN ch /\ \A c \in S : MatchesRole(ch[c].type, ch[c].name, role)
    BY <1>1 DEF Matching
  <1>3. CASE ~(Holders(ch, role) = {} /\ S # {} /\ ch[Min(S)].role = NoRole)
    <2>1. AssignFreeRole(ch, role) = ch
      BY <1>1, <1>3 DEF AssignFreeRole
    <2>2. QED
      BY <2>1
  <1>4. CASE Holders(ch, role) = {} /\ S # {} /\ ch[Min(S)].role = NoRole
    <2>1. S \subseteq Nat
      BY <1>2, ChartAssumption DEF FineChart
    <2>2. PICK first : first = Min(S)
      OBVIOUS
    <2>3. first \in S
      BY <1>4, <2>1, <2>2, LeastIs
    <2>4. first \in DOMAIN ch
      BY <1>2, <2>3
    <2>5. PICK X : ch[first] \in AccountOf(X)
      BY <2>4 DEF FineChart
    <2>6. PICK a : a = [ch[first] EXCEPT !.role = role]
      OBVIOUS
    <2>7. a \in AccountOf(X \cup {role}) /\ a.role = role /\ a.type = ch[first].type /\ a.name = ch[first].name
      BY <2>5, <2>6 DEF AccountOf
    <2>8. RoleJustified(first, a, M)
      BY <1>2, <2>3, <2>7 DEF RoleJustified
    <2>9. FineChart([ch EXCEPT ![first] = a], M)
      BY <1>4, <2>4, <2>7, <2>8, FineChanged
    <2>10. AssignFreeRole(ch, role) = [ch EXCEPT ![first] = a]
      <3>1. AssignFreeRole(ch, role) = [ch EXCEPT ![first].role = role]
        BY <1>1, <1>4, <2>2 DEF AssignFreeRole
      <3>2. QED
        BY <2>6, <3>1
    <2>11. QED
      BY <2>9, <2>10
  <1>5. QED
    BY <1>3, <1>4

SeededTo(s, ch, profile, n) == s = [k \in 0 .. n |-> IF k = 0 THEN ch ELSE ImportRow(s[k - 1], profile[k])]

LEMMA SeededExists ==
  ASSUME NEW ch, NEW profile
  PROVE  \A n \in Nat : \E s : SeededTo(s, ch, profile, n)
  <1>1. PICK S : S = {n \in Nat : ~ \E s : SeededTo(s, ch, profile, n)}
    OBVIOUS
  <1>2. SUFFICES ASSUME S # {}
                 PROVE  FALSE
    BY <1>1
  <1>3. PICK n \in S : \A m \in S : n <= m
    <2>1. S \subseteq Nat
      BY <1>1
    <2>2. QED
      BY <1>2, <2>1, LeastNumber
  <1>4. n \in Nat /\ ~ \E s : SeededTo(s, ch, profile, n)
    BY <1>1, <1>3
  <1>5. CASE n = 0
    <2>1. PICK s : s = [k \in 0 .. 0 |-> ch]
      OBVIOUS
    <2>2. SeededTo(s, ch, profile, 0)
      BY <2>1 DEF SeededTo
    <2>3. QED
      BY <1>4, <1>5, <2>2
  <1>6. CASE n # 0
    <2>1. PICK m : m = n - 1
      OBVIOUS
    <2>2. m \in Nat /\ n = m + 1
      BY <1>4, <1>6, <2>1
    <2>3. m \notin S
      BY <1>3, <1>4, <2>2
    <2>4. PICK s : SeededTo(s, ch, profile, m)
      BY <1>1, <2>2, <2>3
    <2>5. PICK t : t = [k \in 0 .. m + 1 |-> IF k = m + 1 THEN ImportRow(s[m], profile[m + 1]) ELSE s[k]]
      OBVIOUS
    <2>6. (\A k \in 0 .. m : t[k] = s[k]) /\ t[m + 1] = ImportRow(s[m], profile[m + 1])
      BY <2>2, <2>5
    <2>7. \A k \in 0 .. m : s[k] = IF k = 0 THEN ch ELSE ImportRow(s[k - 1], profile[k])
      BY <2>4 DEF SeededTo
    <2>8. \A k \in 0 .. m + 1 : t[k] = IF k = 0 THEN ch ELSE ImportRow(t[k - 1], profile[k])
      <3> SUFFICES ASSUME NEW k \in 0 .. m + 1
                   PROVE  t[k] = IF k = 0 THEN ch ELSE ImportRow(t[k - 1], profile[k])
        OBVIOUS
      <3>1. CASE k = m + 1
        <4>1. t[k - 1] = s[m] /\ k # 0
          BY <2>2, <2>6, <3>1
        <4>2. QED
          BY <2>6, <3>1, <4>1
      <3>2. CASE k = 0
        BY <2>2, <2>6, <2>7, <3>2
      <3>3. CASE k # 0 /\ k # m + 1
        <4>1. t[k - 1] = s[k - 1] /\ t[k] = s[k] /\ k \in 0 .. m
          BY <2>2, <2>6, <3>3
        <4>2. QED
          BY <2>7, <3>3, <4>1
      <3>4. QED
        BY <3>1, <3>2, <3>3
    <2>9. t = [k \in 0 .. m + 1 |-> IF k = 0 THEN ch ELSE ImportRow(t[k - 1], profile[k])]
      BY <2>5, <2>8
    <2>10. SeededTo(t, ch, profile, n)
      BY <2>2, <2>9 DEF SeededTo
    <2>11. QED
      BY <1>4, <2>10
  <1>7. QED
    BY <1>5, <1>6

\* A chart that is seeded from a profile.
LEMMA FineSeeded ==
  ASSUME NEW ch, NEW M, FineChart(ch, M), NEW profile, IsList(profile)
  PROVE  FineChart(SeedChart(ch, profile), M)
  <1>1. PICK last : last = Len(profile)
    OBVIOUS
  <1>2. last \in Nat /\ DOMAIN profile = 1 .. last
    BY <1>1, LenProperties DEF IsList
  <1>3. PICK s : s = CHOOSE t : SeededTo(t, ch, profile, last)
    OBVIOUS
  <1>4. SeededTo(s, ch, profile, last)
    BY <1>2, <1>3, SeededExists
  <1>5. SeedChart(ch, profile) = s[last]
    BY <1>1, <1>3 DEF SeedChart, SeededTo
  <1>6. s[0] = ch /\ \A k \in 1 .. last : s[k] = ImportRow(s[k - 1], profile[k])
    BY <1>2, <1>4 DEF SeededTo
  <1>7. \A k \in 0 .. last : FineChart(s[k], M)
    <2>1. PICK S : S = {k \in 0 .. last : ~FineChart(s[k], M)}
      OBVIOUS
    <2>2. SUFFICES ASSUME S # {}
                   PROVE  FALSE
      BY <2>1
    <2>3. PICK k \in S : \A j \in S : k <= j
      <3>1. S \subseteq Nat
        BY <1>2, <2>1
      <3>2. QED
        BY <2>2, <3>1, LeastNumber
    <2>4. k \in 0 .. last /\ ~FineChart(s[k], M)
      BY <2>1, <2>3
    <2>5. k # 0
      BY <1>6, <2>4
    <2>6. k \in 1 .. last /\ k - 1 \in 0 .. last /\ ~(k <= k - 1)
      BY <1>2, <2>4, <2>5
    <2>7. FineChart(s[k - 1], M)
      BY <2>1, <2>3, <2>6
    <2>8. profile[k].code \in Codes
      BY <1>2, <2>6 DEF IsList
    <2>9. FineChart(ImportRow(s[k - 1], profile[k]), M)
      BY <2>7, <2>8, FineRow
    <2>10. QED
      BY <1>6, <2>4, <2>6, <2>9
  <1>8. QED
    BY <1>2, <1>5, <1>7

\* What an import has of its chart is still a list of accounts with codes.
RowsIn(r) == IsList(r.rows) /\ (r.at \in {"rename", "role", "assign"} => r.rows # << >>)

RowsKnown == \A w \in Importers : RowsIn(imports[w])

\* The roles an account is excused for: those set by hand and those left behind,
\* and the one an import is about to take away from it.
About(w) == {<<Row(w).code, role>> : role \in Loose(w)}

Excused == (Codes \X (history.manual \cup history.left)) \cup UNION {About(w) : w \in Importers}

ChartIInv == ImportIInv /\ RowsKnown /\ FineChart(chart, Excused)

\* What tells whether the role is right stays.
LEMMA FineTouched ==
  ASSUME NEW ch, NEW M, FineChart(ch, M), NEW code \in DOMAIN ch, NEW a, NEW X, a \in AccountOf(X),
         a.role = ch[code].role, a.name = ch[code].name, a.type = ch[code].type
  PROVE  FineChart([ch EXCEPT ![code] = a], M)
  <1>1. RoleJustified(code, a, M)
    BY DEF FineChart, RoleJustified
  <1>2. a.role # NoRole => Holders(ch, a.role) \subseteq {code}
    BY DEF FineChart, HeldOnce, Holders
  <1>3. QED
    BY <1>1, <1>2, FineChanged

LEMMA RowsAre ==
  ASSUME NEW rows, IsList(rows), rows # << >>
  PROVE  Head(rows).code \in Codes /\ IsList(Tail(rows))
  <1>1. PICK D : D = {rows[k] : k \in DOMAIN rows} /\ rows \in Seq(D)
    BY DEF IsList
  <1>2. /\ Tail(rows) \in Seq(D) /\ Head(rows) = rows[1] /\ 1 \in DOMAIN rows
        /\ \A k \in DOMAIN Tail(rows) : k + 1 \in DOMAIN rows /\ Tail(rows)[k] = rows[k + 1]
    BY <1>1, TailIs
  <1>3. PICK rest : rest = Tail(rows)
    OBVIOUS
  <1>4. PICK E : E = {rest[k] : k \in DOMAIN rest}
    OBVIOUS
  <1>5. rest \in Seq(E)
    <2>1. Len(rest) \in Nat /\ rest \in [1 .. Len(rest) -> D] /\ DOMAIN rest = 1 .. Len(rest)
      BY <1>2, <1>3, LenProperties
    <2>2. rest \in [1 .. Len(rest) -> E]
      BY <1>4, <2>1
    <2>3. QED
      BY <2>1, <2>2, SeqDef
  <1>6. \A k \in DOMAIN rest : rest[k].code \in Codes
    BY <1>2, <1>3 DEF IsList
  <1>7. QED
    BY <1>2, <1>3, <1>4, <1>5, <1>6 DEF IsList

LEMMA NoRows == IsList(<< >>)
  BY DEF IsList

\* One import moves.
LEMMA RowsMove ==
  ASSUME ImportIInv, RowsKnown, NEW w \in Importers, NEW r, imports' = [imports EXCEPT ![w] = r], RowsIn(r)
  PROVE  RowsKnown'
  <1>1. DOMAIN imports = Importers
    BY DEF ImportIInv, ImportsListed
  <1>2. \A v \in Importers : RowsIn(imports'[v])
    <2> SUFFICES ASSUME NEW v \in Importers
                 PROVE  RowsIn(imports'[v])
      OBVIOUS
    <2>1. CASE v = w
      BY <1>1, <2>1
    <2>2. CASE v # w
      BY <1>1, <2>2 DEF RowsKnown
    <2>3. QED
      BY <2>1, <2>2
  <1>3. QED
    BY <1>2 DEF RowsKnown

LEMMA RowsStart ==
  ASSUME ImportIInv, RowsKnown, NEW w \in Importers, NEW f \in Files, StartImport(w, f)
  PROVE  RowsKnown'
  <1>1. PICK r : /\ \E docs, parties, refs, own :
                       r = [at |-> "work", file |-> f, rows |-> IF IsChart(f) THEN f.rows ELSE << >>,
                            docs |-> docs, parties |-> parties, refs |-> refs, own |-> own, held |-> NoRole, turn |-> 0]
                 /\ imports' = [imports EXCEPT ![w] = r]
    BY Zenon DEF StartImport
  <1>2. RowsIn(r)
    BY <1>1, NoRows, FilesAssumption DEF RowsIn
  <1>3. QED
    BY <1>1, <1>2, RowsMove

\* The rest of the rows, or none of them.
LEMMA RowsOn ==
  ASSUME ImportIInv, RowsKnown, NEW w \in Importers,
         \/ RowStepOf(w)
         \/ SkipDoc(w) \/ CreateDoc(w) \/ PostDoc(w) \/ NextParty(w)
         \/ imports' = [imports EXCEPT ![w] = NoImport] \/ imports' = imports
  PROVE  RowsKnown'
  <1>1. PICK D, A, X : imports[w] \in ImportOf(D, A, X)
    BY ImportIs DEF ImportIInv
  <1>2. RowsIn(imports[w])
    BY DEF RowsKnown
  <1>3. CASE RowStepOf(w)
    <2>1. PICK rows, held, turn : \E at \in ChartPlaces :
             /\ RowMoves(w, rows, at, held, turn)
             /\ IF at = "work" THEN rows = Tail(imports[w].rows) ELSE rows = imports[w].rows
             /\ at = "rename" => imports[w].rows # << >>
      BY <1>3, RowStep
    <2>2. PICK at \in ChartPlaces :
             /\ RowMoves(w, rows, at, held, turn)
             /\ IF at = "work" THEN rows = Tail(imports[w].rows) ELSE rows = imports[w].rows
             /\ at = "rename" => imports[w].rows # << >>
      BY <2>1
    <2>3. PICK r : r = [imports[w] EXCEPT !.rows = rows, !.at = at, !.held = held, !.turn = turn]
      OBVIOUS
    <2>4. r.rows = rows /\ r.at = at
      BY <1>1, <2>3 DEF ImportOf
    <2>5. imports' = [imports EXCEPT ![w] = r]
      BY <2>2, <2>3 DEF RowMoves
    <2>6. imports[w].rows # << >>
      <3>1. CASE SyncAccount(w) \/ AddRow(w)
        BY <3>1 DEF SyncAccount, AddRow
      <3>2. CASE RenameAccount(w) \/ ClearRole(w) \/ AssignRole(w)
        BY <1>2, <3>2 DEF RenameAccount, ClearRole, AssignRole, Doing, RowsIn
      <3>3. QED
        BY <1>3, <3>1, <3>2 DEF RowStepOf
    <2>7. RowsIn(r)
      BY <1>2, <2>2, <2>4, <2>6, RowsAre DEF RowsIn
    <2>8. QED
      BY <2>5, <2>7, RowsMove
  <1>5. CASE SkipDoc(w)
    <2>1. PICK r : r = [imports[w] EXCEPT !.docs = Tail(@)]
      OBVIOUS
    <2>2. r.rows = imports[w].rows /\ r.at = imports[w].at
      BY <1>1, <2>1 DEF ImportOf
    <2>3. imports' = [imports EXCEPT ![w] = r]
      BY <1>5, <2>1 DEF SkipDoc
    <2>4. RowsIn(r)
      BY <1>2, <1>5, <2>2, RowsAre DEF RowsIn
    <2>5. QED
      BY <2>3, <2>4, RowsMove
  <1>6. CASE CreateDoc(w)
    <2>1. PICK r : r = [imports[w] EXCEPT !.at = "post", !.own = Journal!LastId + 1]
      OBVIOUS
    <2>2. r.rows = imports[w].rows /\ r.at = "post"
      BY <1>1, <2>1 DEF ImportOf
    <2>3. imports' = [imports EXCEPT ![w] = r]
      BY <1>6, <2>1 DEF CreateDoc
    <2>4. RowsIn(r)
      BY <1>2, <1>6, <2>2, RowsAre DEF RowsIn
    <2>5. QED
      BY <2>3, <2>4, RowsMove
  <1>7. CASE PostDoc(w)
    <2>1. PICK r : r = [imports[w] EXCEPT !.at = "work", !.docs = Tail(@), !.refs = RefsNow(w), !.own = 0]
      OBVIOUS
    <2>2. r.rows = imports[w].rows /\ r.at = "work"
      BY <1>1, <2>1 DEF ImportOf
    <2>3. imports' = [imports EXCEPT ![w] = r]
      BY <1>7, <2>1 DEF PostDoc
    <2>4. RowsIn(r)
      BY <1>2, <1>7, <2>2, RowsAre DEF RowsIn
    <2>5. QED
      BY <2>3, <2>4, RowsMove
  <1>8. CASE NextParty(w)
    <2>1. PICK r : r = [imports[w] EXCEPT !.parties = Tail(@), !.own = Len(contacts) + 1]
      OBVIOUS
    <2>2. r.rows = imports[w].rows /\ r.at = imports[w].at
      BY <1>1, <2>1 DEF ImportOf
    <2>3. imports' = [imports EXCEPT ![w] = r]
      BY <1>8, <2>1 DEF NextParty
    <2>4. RowsIn(r)
      BY <1>2, <1>8, <2>2, RowsAre DEF RowsIn
    <2>5. QED
      BY <2>3, <2>4, RowsMove
  <1>9. CASE imports' = [imports EXCEPT ![w] = NoImport]
    <2>1. RowsIn(NoImport)
      BY NoRows DEF RowsIn, NoImport
    <2>2. QED
      BY <1>9, <2>1, RowsMove
  <1>10. CASE imports' = imports
    BY <1>10 DEF RowsKnown
  <1>11. QED
    BY <1>3, <1>5, <1>6, <1>7, <1>8, <1>9, <1>10

\* What history says of roles only grows.
RolesSaid(S, T) == history'.manual = history.manual \cup S /\ history'.left = history.left \cup T

LEMMA SaidMore ==
  ASSUME HistoryListed, NEW S
  PROVE  /\ history' = [history EXCEPT !.manual = @ \cup S] => RolesSaid(S, {})
         /\ history' = [history EXCEPT !.left = @ \cup S] => RolesSaid({}, S)
         /\ \A T : history' = [history EXCEPT !.broken = T, !.left = @ \cup S] => RolesSaid({}, S)
  BY DEF HistoryListed, RolesSaid

LEMMA SaidNothing ==
  ASSUME HistoryListed,
         \/ history' = history
         \/ \E S, T : \/ history' = [history EXCEPT !.done = S]
                      \/ history' = [history EXCEPT !.broken = S]
                      \/ history' = [history EXCEPT !.starts = S, !.overlapped = T]
  PROVE  RolesSaid({}, {})
  BY DEF HistoryListed, RolesSaid

\* What an import is about to take away is a matter of that import.
LEMMA AboutStays ==
  ASSUME NEW v \in Importers, imports'[v] = imports[v]
  PROVE  About(v)' = About(v)
  BY DEF About, Loose, Row, Unfit, Meant, Doing

LEMMA AboutWhere ==
  ASSUME NEW v \in Importers, imports[v].at # "role"
  PROVE  Loose(v) = {} /\ About(v) = {}
  BY DEF About, Loose, Doing

LEMMA OthersStay ==
  ASSUME ImportsListed, NEW w \in Importers, NEW r, imports' = [imports EXCEPT ![w] = r]
  PROVE  imports'[w] = r /\ \A v \in Importers : v # w => imports'[v] = imports[v]
  BY DEF ImportsListed

\* Every excuse stays, but one import's about what it is to take away, unless
\* that is on record.
LEMMA ExcusesGrow ==
  ASSUME NEW S, NEW T, RolesSaid(S, T), NEW w \in Importers,
         \A v \in Importers : v # w => imports'[v] = imports[v],
         About(w) \subseteq Codes \X T
  PROVE  Excused \subseteq Excused'
  <1>1. Codes \X (history.manual \cup history.left) \subseteq Excused'
    BY DEF RolesSaid, Excused
  <1>2. Codes \X T \subseteq Excused'
    BY DEF RolesSaid, Excused
  <1>3. ASSUME NEW v \in Importers
        PROVE  About(v) \subseteq Excused'
    <2>1. CASE v = w
      BY <1>2, <2>1
    <2>2. CASE v # w
      <3>1. About(v)' = About(v)
        BY <2>2, AboutStays
      <3>2. QED
        BY <3>1 DEF Excused
    <2>3. QED
      BY <2>1, <2>2
  <1>4. QED
    BY <1>1, <1>3 DEF Excused

LEMMA ExcusesKept ==
  ASSUME NEW S, NEW T, RolesSaid(S, T), \A v \in Importers : imports'[v] = imports[v]
  PROVE  Excused \subseteq Excused'
  <1>1. Codes \X (history.manual \cup history.left) \subseteq Excused'
    BY DEF RolesSaid, Excused
  <1>2. ASSUME NEW v \in Importers
        PROVE  About(v) \subseteq Excused'
    <2>1. About(v)' = About(v)
      BY AboutStays
    <2>2. QED
      BY <2>1 DEF Excused
  <1>3. QED
    BY <1>1, <1>2 DEF Excused

\* A chart that stays is as good with more excuses.
LEMMA FineGrows ==
  ASSUME ChartIInv, Excused \subseteq Excused', NEW ch, FineChart(ch, Excused)
  PROVE  FineChart(ch, Excused')
  BY FineLater

\* What importers do to the chart while they are not at a role.
LEMMA FineSynced ==
  ASSUME ChartIInv, NEW w \in Importers, SyncAccount(w) \/ AssignRole(w) \/ AddRow(w) \/ CreateMissing(w)
  PROVE  FineChart(chart', Excused)
  <1>1. FineChart(chart, Excused) /\ RowsIn(imports[w])
    BY DEF ChartIInv, RowsKnown
  <1>2. PICK row : row = Row(w)
    OBVIOUS
  <1>3. CASE SyncAccount(w)
    <2>1. imports[w].rows # << >> /\ row.code \in Codes
      BY <1>1, <1>2, <1>3, RowsAre DEF SyncAccount, Row, RowsIn
    <2>2. CASE row.code \notin DOMAIN chart
      <3>1. \E type : chart' = CreateAccount(chart, row.code, row.name, type, InferRgs(type, row.name))
        BY <1>2, <1>3, <2>2 DEF SyncAccount
      <3>2. QED
        BY <1>1, <2>1, <2>2, <3>1, FineCreated
    <2>3. CASE row.code \in DOMAIN chart
      <3>1. PICK code \in DOMAIN chart : code = row.code
        BY <2>3
      <3>2. PICK rgs : rgs = InferRgs(chart[code].type, chart[code].name)
        OBVIOUS
      <3>3. PICK a : a = [chart[code] EXCEPT !.rgs = rgs]
        OBVIOUS
      <3>4. PICK X : chart[code] \in AccountOf(X)
        BY <1>1 DEF FineChart
      <3>5. /\ a \in AccountOf(X \cup {rgs}) /\ a.role = chart[code].role
            /\ a.name = chart[code].name /\ a.type = chart[code].type
        BY <3>3, <3>4 DEF AccountOf
      <3>6. FineChart([chart EXCEPT ![code] = a], Excused)
        BY <1>1, <3>5, FineTouched
      <3>7. chart' = [chart EXCEPT ![code] = a]
        BY <1>2, <1>3, <2>3, <3>1, <3>2, <3>3 DEF SyncAccount
      <3>8. QED
        BY <3>6, <3>7
    <2>4. QED
      BY <2>2, <2>3
  <1>4. CASE AssignRole(w)
    BY <1>1, <1>4, FineAssigned DEF AssignRole
  <1>5. CASE AddRow(w)
    <2>1. row.code \in Codes
      BY <1>1, <1>2, <1>5, RowsAre DEF AddRow, Row, RowsIn
    <2>2. chart' = ImportRow(chart, row)
      BY <1>2, <1>5 DEF AddRow
    <2>3. QED
      BY <1>1, <2>1, <2>2, FineRow
  <1>6. CASE CreateMissing(w)
    <2>1. \E code \in Codes \ DOMAIN chart : \E type : chart' = CreateAccount(chart, code, "Rekening", type, InferRgs(type, "Rekening"))
      BY <1>6 DEF CreateMissing
    <2>2. QED
      BY <1>1, <2>1, FineCreated
  <1>7. QED
    BY <1>3, <1>4, <1>5, <1>6

\* The account keeps its role under another meaning: if the role does not fit, it
\* is the one that was read and is about to go, or it is on record.
LEMMA FineRenamed ==
  ASSUME ChartIInv, NEW w \in Importers, RenameAccount(w)
  PROVE  FineChart(chart', Excused')
  <1>1. FineChart(chart, Excused) /\ RowsIn(imports[w]) /\ ImportsListed /\ HistoryListed
    BY DEF ChartIInv, RowsKnown, ImportIInv
  <1>2. PICK code, name, type, old : code = Row(w).code /\ name = Row(w).name /\ type = Meant(w) /\ old = imports[w]
    OBVIOUS
  <1>3. old.at = "rename" /\ code \in Codes
    BY <1>1, <1>2, RowsAre DEF RenameAccount, Doing, RowsIn, Row
  <1>4. PICK r : r = [old EXCEPT !.at = "role"]
    OBVIOUS
  <1>5. r.at = "role" /\ r.rows = old.rows /\ r.file = old.file /\ r.held = old.held
    <2>1. PICK D, A, X : old \in ImportOf(D, A, X)
      BY <1>1, <1>2, ImportIs
    <2>2. QED
      BY <1>4, <2>1 DEF ImportOf
  <1>6. imports' = [imports EXCEPT ![w] = r]
    BY <1>2, <1>4 DEF RenameAccount, Goto
  <1>7. imports'[w] = r /\ \A v \in Importers : v # w => imports'[v] = imports[v]
    BY <1>1, <1>6, OthersStay
  <1>8. PICK S : S = {role \in {chart[code].role} : role # old.held /\ Unfit(w, role)}
    OBVIOUS
  <1>9. RolesSaid({}, S)
    BY <1>1, <1>2, <1>8, SaidMore DEF RenameAccount
  <1>10. Excused \subseteq Excused'
    <2>1. About(w) = {}
      BY <1>2, <1>3, AboutWhere
    <2>2. QED
      BY <1>7, <1>9, <2>1, ExcusesGrow
  <1>11. FineChart(chart, Excused')
    BY <1>1, <1>10, FineGrows
  <1>12. \A role : Unfit(w, role) <=> role # NoRole /\ ~MatchesRole(type, name, role)
    BY <1>2 DEF Unfit
  <1>13. \A role : role = old.held /\ Unfit(w, role) => <<code, role>> \in Excused'
    <2> SUFFICES ASSUME NEW role, role = old.held, Unfit(w, role)
                 PROVE  <<code, role>> \in Excused'
      OBVIOUS
    <2>1. Row(w)' = Row(w) /\ Meant(w)' = Meant(w)
      BY <1>2, <1>5, <1>7 DEF Row, Meant
    <2>2. Unfit(w, role)'
      BY <2>1 DEF Unfit
    <2>3. role \in Loose(w)'
      BY <1>5, <1>7, <2>2 DEF Loose, Doing
    <2>4. <<code, role>> \in About(w)'
      BY <1>2, <2>1, <2>3 DEF About
    <2>5. QED
      BY <2>4 DEF Excused
  <1>14. \A role \in S : <<code, role>> \in Excused'
    BY <1>3, <1>9 DEF RolesSaid, Excused
  <1>15. chart' = Renamed(chart, code, name, type)
    BY <1>2 DEF RenameAccount
  <1>16. CASE code \notin DOMAIN chart
    <2>1. chart' = chart
      BY <1>1, <1>15, <1>16 DEF Renamed, FineChart
    <2>2. QED
      BY <1>11, <2>1
  <1>17. CASE code \in DOMAIN chart
    <2>1. PICK a : a = [chart[code] EXCEPT !.name = name, !.type = type, !.rgs = InferRgs(type, name)]
      OBVIOUS
    <2>2. chart' = [chart EXCEPT ![code] = a]
      BY <1>15, <2>1 DEF Renamed
    <2>3. PICK X : chart[code] \in AccountOf(X)
      BY <1>1, <1>17 DEF FineChart
    <2>4. PICK rgs : rgs = InferRgs(type, name)
      OBVIOUS
    <2>5. a \in AccountOf(X \cup {name, type, rgs}) /\ a.role = chart[code].role /\ a.type = type /\ a.name = name
      BY <2>1, <2>3, <2>4 DEF AccountOf
    <2>6. RoleJustified(code, a, Excused')
      <3> SUFFICES ASSUME a.role # NoRole, ~MatchesRole(type, name, a.role)
                   PROVE  <<code, a.role>> \in Excused'
        BY <2>5 DEF RoleJustified
      <3>1. Unfit(w, a.role)
        BY <1>12
      <3>2. CASE a.role = old.held
        BY <1>13, <3>1, <3>2
      <3>3. CASE a.role # old.held
        BY <1>8, <1>14, <2>5, <3>1, <3>3
      <3>4. QED
        BY <3>2, <3>3
    <2>7. a.role # NoRole => Holders(chart, a.role) \subseteq {code}
      <3> SUFFICES ASSUME a.role # NoRole, NEW c \in Holders(chart, a.role)
                   PROVE  c = code
        OBVIOUS
      <3>1. c \in DOMAIN chart /\ chart[c].role = chart[code].role
        BY <2>5 DEF Holders
      <3>2. QED
        BY <1>1, <1>17, <2>5, <3>1 DEF FineChart, HeldOnce
    <2>8. PICK M : M = Excused'
      OBVIOUS
    <2>9. FineChart([chart EXCEPT ![code] = a], M)
      BY <1>11, <1>17, <2>5, <2>6, <2>7, <2>8, FineChanged
    <2>10. QED
      BY <2>2, <2>8, <2>9
  <1>18. QED
    BY <1>16, <1>17

\* The role goes, and with it the excuse.
LEMMA FineCleared ==
  ASSUME ChartIInv, NEW w \in Importers, ClearRole(w)
  PROVE  FineChart(chart', Excused')
  <1>1. FineChart(chart, Excused) /\ RowsIn(imports[w]) /\ ImportsListed /\ HistoryListed
    BY DEF ChartIInv, RowsKnown, ImportIInv
  <1>2. PICK r : r = [imports[w] EXCEPT !.at = "assign", !.turn = 1]
    OBVIOUS
  <1>3. imports' = [imports EXCEPT ![w] = r] /\ history' = history
    BY <1>2 DEF ClearRole
  <1>4. imports'[w] = r /\ \A v \in Importers : v # w => imports'[v] = imports[v]
    BY <1>1, <1>3, OthersStay
  <1>5. RolesSaid({}, {})
    BY <1>1, <1>3, SaidNothing
  <1>6. CASE Loose(w) = {}
    <2>1. About(w) = {}
      BY <1>6 DEF About
    <2>2. Excused \subseteq Excused'
      BY <1>4, <1>5, <2>1, ExcusesGrow
    <2>3. chart' = chart
      BY <1>6 DEF ClearRole
    <2>4. QED
      BY <1>1, <2>2, <2>3, FineGrows
  <1>7. CASE Loose(w) # {}
    <2>1. PICK code : code = Row(w).code
      OBVIOUS
    <2>2. chart' = Unflagged(chart, code)
      BY <1>7, <2>1 DEF ClearRole
    <2>3. /\ FineChart(chart', Excused)
          /\ \A c \in DOMAIN chart' : chart'[c].role # NoRole => c # code
      <3>1. CASE code \notin DOMAIN chart
        <4>1. chart' = chart
          BY <1>1, <2>2, <3>1 DEF Unflagged, FineChart
        <4>2. QED
          BY <1>1, <3>1, <4>1
      <3>2. CASE code \in DOMAIN chart
        <4>1. PICK a : a = [chart[code] EXCEPT !.role = NoRole]
          OBVIOUS
        <4>2. PICK X : chart[code] \in AccountOf(X)
          BY <1>1, <3>2 DEF FineChart
        <4>3. a \in AccountOf(X \cup {NoRole}) /\ a.role = NoRole
          BY <4>1, <4>2 DEF AccountOf
        <4>4. chart' = [chart EXCEPT ![code] = a]
          BY <2>2, <4>1 DEF Unflagged
        <4>5. RoleJustified(code, a, Excused)
          BY <4>3 DEF RoleJustified
        <4>6. FineChart([chart EXCEPT ![code] = a], Excused)
          BY <1>1, <3>2, <4>3, <4>5, FineChanged
        <4>7. chart'[code] = a
          BY <1>1, <3>2, <4>4 DEF FineChart
        <4>8. QED
          BY <4>3, <4>4, <4>6, <4>7
      <3>3. QED
        BY <3>1, <3>2
    <2>4. ASSUME NEW c \in DOMAIN chart', chart'[c].role # NoRole, <<c, chart'[c].role>> \in Excused
          PROVE  <<c, chart'[c].role>> \in Excused'
      <3>1. PICK role : role = chart'[c].role
        OBVIOUS
      <3>2. CASE <<c, role>> \in Codes \X (history.manual \cup history.left)
        BY <1>3, <3>1, <3>2 DEF Excused
      <3>3. ASSUME NEW v \in Importers, <<c, role>> \in About(v)
            PROVE  <<c, role>> \in Excused'
        <4>1. c = Row(v).code
          BY <3>3 DEF About
        <4>2. v # w
          BY <2>1, <2>3, <2>4, <4>1
        <4>3. About(v)' = About(v)
          BY <1>4, <4>2, AboutStays
        <4>4. QED
          BY <3>3, <4>3 DEF Excused
      <3>4. QED
        BY <2>4, <3>1, <3>2, <3>3 DEF Excused
    <2>5. PICK ch, M : ch = chart' /\ M = Excused'
      OBVIOUS
    <2>6. FineChart(ch, Excused) /\ \A c \in DOMAIN ch : ch[c].role # NoRole /\ <<c, ch[c].role>> \in Excused => <<c, ch[c].role>> \in M
      BY <2>3, <2>4, <2>5
    <2>7. FineChart(ch, M)
      BY <2>6, FineLater
    <2>8. QED
      BY <2>5, <2>7
  <1>8. QED
    BY <1>6, <1>7

LEMMA ChartStarts ==
  ASSUME ImportInit
  PROVE  ChartIInv
  <1>1. PICK none : none = [c \in {} |-> 0]
    OBVIOUS
  <1>2. FineChart(none, Excused)
    BY <1>1 DEF FineChart, HeldOnce
  <1>3. chart = SeedChart(none, limits.profile) /\ limits \in ImportScenarios
    BY <1>1 DEF ImportInit
  <1>4. FineChart(chart, Excused)
    BY <1>2, <1>3, FineSeeded, FilesAssumption
  <1>5. RowsKnown
    <2>1. \A w \in Importers : imports[w] = NoImport
      BY DEF ImportInit
    <2>2. QED
      BY <2>1, NoRows DEF RowsKnown, RowsIn, NoImport
  <1>6. QED
    BY <1>4, <1>5, ImportStarts DEF ChartIInv

LEMMA ChartByHand ==
  ASSUME ChartIInv, NEW c \in Codes, NEW role, Toggle(c) \/ SetRole(c, role)
  PROVE  FineChart(chart', Excused')
  <1>1. FineChart(chart, Excused) /\ HistoryListed /\ c \in DOMAIN chart
    BY DEF ChartIInv, ImportIInv, Toggle, SetRole
  <1>2. PICK X : chart[c] \in AccountOf(X)
    BY <1>1 DEF FineChart
  <1>3. imports' = imports
    BY DEF Toggle, SetRole
  <1>4. PICK M : M = Excused'
    OBVIOUS
  <1>5. CASE Toggle(c)
    <2>1. PICK a : a = [chart[c] EXCEPT !.active = ~@]
      OBVIOUS
    <2>2. a \in AccountOf(X) /\ a.role = chart[c].role /\ a.name = chart[c].name /\ a.type = chart[c].type
      BY <1>2, <2>1 DEF AccountOf
    <2>3. chart' = [chart EXCEPT ![c] = a] /\ history' = history
      BY <1>5, <2>1 DEF Toggle
    <2>4. FineChart(chart', Excused)
      BY <1>1, <2>2, <2>3, FineTouched
    <2>5. Excused \subseteq Excused'
      BY <1>1, <1>3, <2>3, SaidNothing, ExcusesKept
    <2>6. QED
      BY <2>4, <2>5, FineGrows
  <1>6. CASE SetRole(c, role)
    <2>1. RolesSaid({chart[c].role, role}, {})
      BY <1>1, <1>6, SaidMore DEF SetRole
    <2>2. Excused \subseteq Excused'
      BY <1>3, <2>1, ExcusesKept
    <2>3. FineChart(chart, M)
      BY <1>1, <1>4, <2>2, FineGrows
    <2>4. PICK a : a = [chart[c] EXCEPT !.role = role]
      OBVIOUS
    <2>5. a \in AccountOf(X \cup {role}) /\ a.role = role
      BY <1>2, <2>4 DEF AccountOf
    <2>6. RoleJustified(c, a, M)
      <3>1. <<c, role>> \in M
        BY <1>4, <2>1 DEF RolesSaid, Excused
      <3>2. QED
        BY <2>5, <3>1 DEF RoleJustified
    <2>7. a.role # NoRole => Holders(chart, a.role) \subseteq {c}
      BY <1>6, <2>5 DEF SetRole, MayHold
    <2>8. chart' = [chart EXCEPT ![c] = a]
      BY <1>6, <2>4 DEF SetRole
    <2>9. FineChart([chart EXCEPT ![c] = a], M)
      BY <1>1, <2>3, <2>5, <2>6, <2>7, FineChanged
    <2>10. QED
      BY <1>4, <2>8, <2>9
  <1>7. QED
    BY <1>5, <1>6

\* One step of an import.
LEMMA ChartImports ==
  ASSUME ChartIInv, NEW w \in Importers, ImportStep(w)
  PROVE  RowsKnown' /\ FineChart(chart', Excused')
  <1>1. ImportIInv /\ RowsKnown /\ FineChart(chart, Excused) /\ HistoryListed /\ ImportsListed
    BY DEF ChartIInv, ImportIInv
  <1>2. ASSUME NEW r, imports' = [imports EXCEPT ![w] = r], imports[w].at # "role", RolesSaid({}, {}),
               FineChart(chart', Excused)
        PROVE  FineChart(chart', Excused')
    <2>1. About(w) = {}
      BY <1>2, AboutWhere
    <2>2. \A v \in Importers : v # w => imports'[v] = imports[v]
      BY <1>1, <1>2, OthersStay
    <2>3. Excused \subseteq Excused'
      BY <1>2, <2>1, <2>2, ExcusesGrow
    <2>4. QED
      BY <1>2, <2>3, FineGrows
  <1>3. ASSUME NEW f \in Files, StartImport(w, f)
        PROVE  RowsKnown' /\ FineChart(chart', Excused')
    <2>1. /\ chart' = chart /\ imports[w].at = "idle"
          /\ \E S, T : history' = [history EXCEPT !.starts = S, !.overlapped = T]
          /\ \E r : imports' = [imports EXCEPT ![w] = r]
      BY <1>3, Zenon DEF StartImport, Doing
    <2>2. RolesSaid({}, {})
      BY <1>1, <2>1, SaidNothing
    <2>3. FineChart(chart', Excused')
      BY <1>1, <1>2, <2>1, <2>2
    <2>4. QED
      BY <1>1, <1>3, <2>3, RowsStart
  <1>4. CASE SyncAccount(w) \/ AssignRole(w) \/ AddRow(w)
    <2>1. FineChart(chart', Excused) /\ history' = history /\ imports[w].at # "role"
      BY <1>4, FineSynced DEF SyncAccount, AssignRole, AddRow, Doing
    <2>2. PICK rows, held, turn : \E at \in ChartPlaces : RowMoves(w, rows, at, held, turn)
      BY <1>1, <1>4, RowStep DEF RowStepOf
    <2>3. \E r : imports' = [imports EXCEPT ![w] = r]
      BY <2>2 DEF RowMoves
    <2>4. RolesSaid({}, {})
      BY <1>1, <2>1, SaidNothing
    <2>5. FineChart(chart', Excused')
      BY <1>2, <2>1, <2>3, <2>4
    <2>6. QED
      BY <1>1, <1>4, <2>5, RowsOn DEF RowStepOf
  <1>5. CASE RenameAccount(w)
    BY <1>1, <1>5, FineRenamed, RowsOn DEF RowStepOf
  <1>6. CASE ClearRole(w)
    BY <1>1, <1>6, FineCleared, RowsOn DEF RowStepOf
  <1>7. CASE CreateMissing(w)
    <2>1. FineChart(chart', Excused) /\ history' = history /\ imports' = imports
      BY <1>7, FineSynced DEF CreateMissing
    <2>2. Excused \subseteq Excused'
      BY <1>1, <2>1, SaidNothing, ExcusesKept
    <2>3. QED
      BY <1>1, <2>1, <2>2, FineGrows, RowsOn
  <1>8. CASE SkipDoc(w) \/ PostDoc(w) \/ CreateDoc(w) \/ NextParty(w)
    <2>1. chart' = chart /\ history' = history /\ imports[w].at # "role" /\ \E r : imports' = [imports EXCEPT ![w] = r]
      BY <1>8 DEF SkipDoc, PostDoc, CreateDoc, NextParty, AtDoc, Doing
    <2>2. RolesSaid({}, {})
      BY <1>1, <2>1, SaidNothing
    <2>3. FineChart(chart', Excused')
      BY <1>1, <1>2, <2>1, <2>2
    <2>4. QED
      BY <1>1, <1>8, <2>3, RowsOn
  <1>9. CASE RegisterInvoice(w) \/ EndImport(w) \/ Fail(w)
    <2>1. chart' = chart /\ imports' = [imports EXCEPT ![w] = NoImport] /\ imports[w].at # "role"
      BY <1>9 DEF RegisterInvoice, EndImport, Fail, AtDoc, Doing
    <2>2. \E S : history' = [history EXCEPT !.done = S] \/ history' = [history EXCEPT !.broken = S]
      BY <1>9 DEF RegisterInvoice, EndImport, Fail, Broken
    <2>3. RolesSaid({}, {})
      BY <1>1, <2>2, SaidNothing
    <2>4. FineChart(chart', Excused')
      BY <1>1, <1>2, <2>1, <2>3
    <2>5. QED
      BY <1>1, <2>1, <2>4, RowsOn
  <1>10. CASE Die(w)
    <2>1. chart' = chart /\ imports' = [imports EXCEPT ![w] = NoImport]
      BY <1>10 DEF Die
    <2>2. RolesSaid({}, Loose(w))
      BY <1>1, <1>10, SaidMore DEF Die
    <2>3. About(w) \subseteq Codes \X Loose(w)
      <3>1. CASE imports[w].at = "role"
        <4>1. Row(w).code \in Codes
          BY <1>1, <3>1, RowsAre DEF RowsKnown, RowsIn, Row
        <4>2. QED
          BY <4>1 DEF About
      <3>2. CASE imports[w].at # "role"
        BY <3>2, AboutWhere
      <3>3. QED
        BY <3>1, <3>2
    <2>4. \A v \in Importers : v # w => imports'[v] = imports[v]
      BY <1>1, <2>1, OthersStay
    <2>5. Excused \subseteq Excused'
      BY <2>2, <2>3, <2>4, ExcusesGrow
    <2>6. QED
      BY <1>1, <2>1, <2>5, FineGrows, RowsOn
  <1>11. QED
    BY <1>3, <1>4, <1>5, <1>6, <1>7, <1>8, <1>9, <1>10 DEF ImportStep

LEMMA ChartGoesOn ==
  ASSUME ChartIInv, [ImportNext]_importVars
  PROVE  ChartIInv'
  <1>1. ImportIInv'
    BY ImportsGoOn DEF ChartIInv
  <1>2. ImportIInv /\ RowsKnown /\ FineChart(chart, Excused) /\ HistoryListed
    BY DEF ChartIInv, ImportIInv
  <1>3. ASSUME NEW w \in Importers, ImportStep(w)
        PROVE  RowsKnown' /\ FineChart(chart', Excused')
    BY <1>3, ChartImports
  <1>4. ASSUME NEW c \in Codes, NEW role, Toggle(c) \/ SetRole(c, role)
        PROVE  RowsKnown' /\ FineChart(chart', Excused')
    <2>1. imports' = imports
      BY <1>4 DEF Toggle, SetRole
    <2>2. RowsKnown'
      BY <1>2, <2>1 DEF RowsKnown
    <2>3. QED
      BY <1>4, <2>2, ChartByHand
  <1>5. ASSUME UNCHANGED <<chart, imports, history>>
        PROVE  RowsKnown' /\ FineChart(chart', Excused')
    <2>1. RowsKnown'
      BY <1>2, <1>5 DEF RowsKnown
    <2>2. Excused \subseteq Excused'
      BY <1>2, <1>5, SaidNothing, ExcusesKept
    <2>3. QED
      BY <1>2, <1>5, <2>1, <2>2, FineGrows
  <1>6. \/ \E w \in Importers : ImportStep(w)
        \/ \E c \in Codes : Toggle(c) \/ \E role : SetRole(c, role)
        \/ UNCHANGED <<chart, imports, history>>
    BY DEF ImportNext, PostByHand, ReverseByHand, importVars
  <1>7. RowsKnown' /\ FineChart(chart', Excused')
    BY <1>3, <1>4, <1>5, <1>6
  <1>8. FineChart(chart, Excused)'
    BY <1>7
  <1>9. QED
    BY <1>1, <1>7, <1>8 DEF ChartIInv

\* What RolesRight excepts.
Exceptions == history.manual \cup history.left \cup UNION {Loose(w) : w \in Importers}

LEMMA RightRoles ==
  ASSUME ChartIInv
  PROVE  RolesRight
  <1>1. FineChart(chart, Excused)
    BY DEF ChartIInv
  <1> SUFFICES ASSUME NEW k \in DOMAIN Roles, NEW default \in Codes,
                      NEW role, role = Roles[k], NEW code, code = ResolveSpecial(chart, role, default)
               PROVE  /\ Cardinality(Holders(chart, role)) <= 1
                      /\ Matching(chart, role) # {} /\ role \notin Exceptions =>
                           MatchesRole(chart[code].type, chart[code].name, role)
    BY DEF RolesRight, Exceptions
  <1>2. role # NoRole
    BY ChartAssumption
  <1>3. DOMAIN chart \subseteq Nat
    BY <1>1, ChartAssumption DEF FineChart
  <1>4. PICK H : H = Holders(chart, role)
    OBVIOUS
  <1>5. H \subseteq DOMAIN chart /\ \A c \in H : chart[c].role = role
    BY <1>4 DEF Holders
  <1>6. Cardinality(H) <= 1
    <2>1. CASE H = {}
      BY <2>1, FS_EmptySet
    <2>2. CASE H # {}
      <3>1. PICK c : c \in H
        BY <2>2
      <3>2. \A d \in H : d = c
        BY <1>1, <1>2, <1>5, <3>1 DEF FineChart, HeldOnce
      <3>3. H = {c}
        BY <3>1, <3>2
      <3>4. Cardinality(H) = 1
        BY <3>3, FS_Singleton
      <3>5. QED
        BY <3>4
    <2>3. QED
      BY <2>1, <2>2
  <1>7. ASSUME Matching(chart, role) # {}, role \notin Exceptions
        PROVE  MatchesRole(chart[code].type, chart[code].name, role)
    <2>1. PICK S : S = Matching(chart, role)
      OBVIOUS
    <2>2. S \subseteq Nat /\ S # {} /\ \A c \in S : MatchesRole(chart[c].type, chart[c].name, role)
      BY <1>3, <1>7, <2>1 DEF Matching
    <2>3. PICK F : F = {c \in H : chart[c].active}
      OBVIOUS
    <2>4. F \subseteq H /\ F \subseteq Nat
      BY <1>3, <1>5, <2>3
    <2>5. PICK fits : fits = (default \in DOMAIN chart /\ MatchesRole(chart[default].type, chart[default].name, role))
      OBVIOUS
    <2>6. code = IF F # {} THEN Min(F) ELSE IF fits \/ S = {} THEN default ELSE Min(S)
      BY <1>4, <2>1, <2>3, <2>5 DEF ResolveSpecial
    <2>7. CASE F # {}
      <3>1. code \in H
        BY <2>4, <2>6, <2>7, LeastIs
      <3>2. code \in DOMAIN chart /\ chart[code].role = role
        BY <1>5, <3>1
      <3>3. <<code, role>> \notin Excused
        BY <1>7 DEF Exceptions, Excused, About
      <3>4. QED
        BY <1>1, <1>2, <3>2, <3>3 DEF FineChart, RoleJustified
    <2>8. CASE F = {} /\ fits
      BY <2>5, <2>6, <2>8
    <2>9. CASE F = {} /\ ~fits
      <3>1. code \in S
        BY <2>2, <2>6, <2>9, LeastIs
      <3>2. QED
        BY <2>2, <3>1
    <2>10. QED
      BY <2>7, <2>8, <2>9
  <1>8. QED
    BY <1>4, <1>6, <1>7

\* Whatever charts are imported, by however many importers, and whatever is
\* switched off or given a role by hand meanwhile, the account the engine posts
\* to is of the kind the role stands for, and no two accounts have one role: but
\* for the roles RolesRight excepts.  An account has a role it matches, or one it
\* is excused for: by hand, left behind, or about to be taken away by an import
\* that renamed it.  The last excuse is of that account alone, and goes with the
\* role.
THEOREM RolesStayRight == ImportSpec => []RolesRight
  <1>1. ImportInit => ChartIInv
    BY ChartStarts
  <1>2. ChartIInv /\ [ImportNext]_importVars => ChartIInv'
    BY ChartGoesOn
  <1>3. ChartIInv => RolesRight
    BY RightRoles
  <1>4. QED
    BY <1>1, <1>2, <1>3, PTL DEF ImportSpec

==================================================================================
