------------------------------- MODULE SumTheorems -------------------------------
(***************************************************************************)
(* The laws of sums over finite sets.  SumOf is a fold, which the library  *)
(* defines by picking one element, adding it to the fold of the others,    *)
(* and so on: that the terms may be taken in any order, and with it the    *)
(* rest, is proved from a least set for which it would fail.               *)
(***************************************************************************)
EXTENDS Sums, Sequences, FiniteSetTheorems, WellFoundedInduction, TLAPS

Pick(s) == CHOOSE x \in s : TRUE

Adds(g, f, S) == g = [s \in SUBSET S |-> IF s = {} THEN 0 ELSE f[Pick(s)] + g[s \ {Pick(s)}]]

LEMMA PickIs ==
  ASSUME NEW s, s # {}
  PROVE  Pick(s) \in s
  BY DEF Pick

LEMMA LeastNumber ==
  ASSUME NEW W \in SUBSET Nat, W # {}
  PROVE  \E k \in W : \A l \in W : k <= l
  <1>1. PICK R : R = OpToRel(<, Nat)
    OBVIOUS
  <1>2. PICK k \in W : \A l \in W : ~(<<l, k>> \in R)
    BY <1>1, NatLessThanWellFounded, WFMin
  <1>3. \A l, m \in Nat : l < m => <<l, m>> \in OpToRel(<, Nat)
    BY DEF OpToRel
  <1>4. \A l \in W : ~(l < k)
    BY <1>1, <1>2, <1>3
  <1>5. QED
    BY <1>4

LEMMA Smaller ==
  ASSUME NEW S, IsFiniteSet(S), NEW s \in SUBSET S, s # {}
  PROVE  /\ s \ {Pick(s)} \in SUBSET S
         /\ Cardinality(s) \in Nat /\ Cardinality(s \ {Pick(s)}) = Cardinality(s) - 1
         /\ Cardinality(s) # 0
  <1>1. IsFiniteSet(s) /\ Pick(s) \in s
    BY FS_Subset, PickIs
  <1>2. Cardinality(s) \in Nat /\ Cardinality(s \ {Pick(s)}) = Cardinality(s) - 1
    BY <1>1, FS_RemoveElement, FS_CardinalityType
  <1>3. Cardinality(s) # 0
    BY <1>1, FS_EmptySet
  <1>4. QED
    BY <1>2, <1>3

\* Of any family of sets one is empty, or no longer of the family without its pick.
LEMMA LeastSet ==
  ASSUME NEW S, IsFiniteSet(S), NEW W \in SUBSET SUBSET S, W # {}
  PROVE  \E s \in W : s = {} \/ s \ {Pick(s)} \notin W
  <1> DEFINE sizes == {Cardinality(s) : s \in W}
  <1>1. \A s \in W : IsFiniteSet(s) /\ Cardinality(s) \in Nat
    BY FS_Subset, FS_CardinalityType
  <1>2. sizes \in SUBSET Nat /\ sizes # {}
    BY <1>1
  <1> HIDE DEF sizes
  <1>3. PICK n \in sizes : \A m \in sizes : n <= m
    BY <1>2, LeastNumber
  <1>4. PICK s \in W : n = Cardinality(s)
    BY <1>3 DEF sizes
  <1>5. ASSUME s # {}, s \ {Pick(s)} \in W
        PROVE  FALSE
    <2>1. n <= Cardinality(s \ {Pick(s)})
      BY <1>3, <1>5 DEF sizes
    <2>2. Cardinality(s) \in Nat /\ Cardinality(s \ {Pick(s)}) = Cardinality(s) - 1
      BY <1>5, Smaller
    <2>3. QED
      BY <1>4, <2>1, <2>2
  <1>6. QED
    BY <1>5

LEMMA AddsAt ==
  ASSUME NEW S, NEW f, NEW g, Adds(g, f, S)
  PROVE  /\ {} \in SUBSET S /\ g[{}] = 0
         /\ \A s \in SUBSET S : s # {} => g[s] = f[Pick(s)] + g[s \ {Pick(s)}]
  <1>1. \A s \in SUBSET S : g[s] = IF s = {} THEN 0 ELSE f[Pick(s)] + g[s \ {Pick(s)}]
    BY DEF Adds
  <1>2. QED
    BY <1>1

LEMMA AddsExists ==
  ASSUME NEW S, IsFiniteSet(S), NEW f
  PROVE  \E g : Adds(g, f, S)
  <1> DEFINE upTo(n) == {s \in SUBSET S : Cardinality(s) <= n}
             part(g, n) == g = [s \in upTo(n) |-> IF s = {} THEN 0 ELSE f[Pick(s)] + g[s \ {Pick(s)}]]
             W == {n \in 0 .. Cardinality(S) : ~(\E g : part(g, n))}
  <1>1. Cardinality(S) \in Nat
    BY FS_CardinalityType
  <1>2. ASSUME NEW n \in Nat, n # 0, NEW h, part(h, n - 1)
        PROVE  \E g : part(g, n)
    <2> DEFINE g == [s \in upTo(n) |-> IF s = {} THEN 0 ELSE f[Pick(s)] + h[s \ {Pick(s)}]]
    <2>1. \A s \in upTo(n) : s # {} => s \ {Pick(s)} \in upTo(n - 1) /\ s \ {Pick(s)} \in upTo(n)
      <3> SUFFICES ASSUME NEW s \in SUBSET S, Cardinality(s) <= n, s # {}
                   PROVE  s \ {Pick(s)} \in upTo(n - 1) /\ s \ {Pick(s)} \in upTo(n)
        OBVIOUS
      <3>1. /\ s \ {Pick(s)} \in SUBSET S
            /\ Cardinality(s) \in Nat /\ Cardinality(s \ {Pick(s)}) = Cardinality(s) - 1
        BY Smaller
      <3>2. QED
        BY <3>1
    <2> HIDE DEF upTo
    <2>2. \A r \in upTo(n - 1) : h[r] = IF r = {} THEN 0 ELSE f[Pick(r)] + h[r \ {Pick(r)}]
      BY <1>2
    <2>3. \A r \in upTo(n) : g[r] = IF r = {} THEN 0 ELSE f[Pick(r)] + h[r \ {Pick(r)}]
      OBVIOUS
    <2>4. \A s \in upTo(n) : s # {} => h[s \ {Pick(s)}] = g[s \ {Pick(s)}]
      BY <2>1, <2>2, <2>3, Zenon
    <2>5. g = [s \in upTo(n) |-> IF s = {} THEN 0 ELSE f[Pick(s)] + g[s \ {Pick(s)}]]
      <3>1. \A s \in upTo(n) : (IF s = {} THEN 0 ELSE f[Pick(s)] + h[s \ {Pick(s)}])
                             = (IF s = {} THEN 0 ELSE f[Pick(s)] + g[s \ {Pick(s)}])
        BY <2>4, Zenon
      <3> HIDE DEF g
      <3>2. g = [s \in upTo(n) |-> IF s = {} THEN 0 ELSE f[Pick(s)] + h[s \ {Pick(s)}]]
        BY DEF g
      <3>3. QED
        BY <3>1, <3>2, Zenon
    <2>6. QED
      BY <2>5
  <1>3. \E g : part(g, 0)
    <2>1. \A s \in upTo(0) : s = {}
      <3> SUFFICES ASSUME NEW s \in SUBSET S, Cardinality(s) <= 0, s # {}
                   PROVE  FALSE
        OBVIOUS
      <3>1. Cardinality(s) \in Nat /\ Cardinality(s) # 0
        BY Smaller
      <3>2. QED
        BY <3>1
    <2> DEFINE g == [s \in upTo(0) |-> 0]
    <2> HIDE DEF upTo
    <2>2. g = [s \in upTo(0) |-> IF s = {} THEN 0 ELSE f[Pick(s)] + g[s \ {Pick(s)}]]
      BY <2>1
    <2>3. QED
      BY <2>2
  <1>4. W = {}
    <2> SUFFICES ASSUME W # {}
                 PROVE  FALSE
      OBVIOUS
    <2> HIDE DEF part
    <2>1. W \in SUBSET Nat
      BY <1>1
    <2>2. PICK n \in W : \A m \in W : n <= m
      <3> HIDE DEF W
      <3>1. QED
        BY <2>1, LeastNumber
    <2>3. n \in 0 .. Cardinality(S) /\ ~(\E g : part(g, n))
      BY <2>2
    <2>4. n # 0
      BY <1>3, <2>3
    <2>5. n - 1 \in 0 .. Cardinality(S) /\ n - 1 \notin W /\ n \in Nat
      BY <1>1, <2>2, <2>3, <2>4
    <2>6. PICK h : part(h, n - 1)
      BY <2>5
    <2>7. \E g : part(g, n)
      BY <1>2, <2>4, <2>5, <2>6
    <2>8. QED
      BY <2>3, <2>7
  <1>5. PICK g : part(g, Cardinality(S))
    <2> HIDE DEF part
    <2>1. QED
      BY <1>1, <1>4
  <1>6. upTo(Cardinality(S)) = SUBSET S
    <2>1. \A s \in SUBSET S : Cardinality(s) <= Cardinality(S)
      BY FS_Subset
    <2>2. QED
      BY <2>1
  <1>7. Adds(g, f, S)
    <2> HIDE DEF upTo
    <2>1. QED
      BY <1>5, <1>6 DEF Adds
  <1>8. QED
    BY <1>7

LEMMA AddsTyped ==
  ASSUME NEW S, IsFiniteSet(S), NEW f \in [S -> Int], NEW g, Adds(g, f, S)
  PROVE  \A s \in SUBSET S : g[s] \in Int
  <1>0. /\ g[{}] = 0
        /\ \A t \in SUBSET S : t # {} => g[t] = f[Pick(t)] + g[t \ {Pick(t)}]
    BY AddsAt
  <1> DEFINE W == {s \in SUBSET S : g[s] \notin Int}
  <1> SUFFICES ASSUME W # {}
               PROVE  FALSE
    OBVIOUS
  <1>1. W \in SUBSET SUBSET S
    OBVIOUS
  <1>2. PICK s \in W : s = {} \/ s \ {Pick(s)} \notin W
    <2> HIDE DEF W
    <2>1. QED
      BY <1>1, LeastSet
  <1>3. s # {}
    <2>1. g[{}] \in Int
      BY <1>0
    <2>2. g[s] \notin Int
      BY <1>2
    <2>3. QED
      BY <2>1, <2>2
  <1>4. s \ {Pick(s)} \in SUBSET S /\ Pick(s) \in S
    BY <1>3, PickIs
  <1>5. g[s \ {Pick(s)}] \in Int /\ f[Pick(s)] \in Int
    BY <1>2, <1>3, <1>4
  <1>6. g[s] = f[Pick(s)] + g[s \ {Pick(s)}]
    BY <1>0, <1>2, <1>3
  <1>7. QED
    BY <1>5, <1>6

\* A sum of zeros is zero.
LEMMA AddsZero ==
  ASSUME NEW S, IsFiniteSet(S), NEW f \in [S -> Int], \A x \in S : f[x] = 0, NEW g, Adds(g, f, S)
  PROVE  g[S] = 0
  <1> DEFINE W == {s \in SUBSET S : g[s] # 0}
  <1> SUFFICES ASSUME W # {}
               PROVE  FALSE
    OBVIOUS
  <1>1. W \in SUBSET SUBSET S
    OBVIOUS
  <1>2. PICK s \in W : s = {} \/ s \ {Pick(s)} \notin W
    <2> HIDE DEF W
    <2>1. QED
      BY <1>1, LeastSet
  <1>3. s # {}
    <2>1. g[{}] = 0
      BY AddsAt
    <2>2. QED
      BY <1>2, <2>1
  <1>4. s \ {Pick(s)} \in SUBSET S /\ Pick(s) \in S
    BY <1>3, PickIs
  <1>5. g[s \ {Pick(s)}] = 0 /\ f[Pick(s)] = 0
    BY <1>2, <1>3, <1>4
  <1>6. g[s] = f[Pick(s)] + g[s \ {Pick(s)}]
    <2>1. \A t \in SUBSET S : t # {} => g[t] = f[Pick(t)] + g[t \ {Pick(t)}]
      BY AddsAt
    <2>2. s \in SUBSET S
      BY <1>2
    <2>3. QED
      BY <1>3, <2>1, <2>2
  <1>7. QED
    BY <1>2, <1>5, <1>6

LEMMA SumIs ==
  ASSUME NEW S, IsFiniteSet(S), NEW f \in [S -> Int]
  PROVE  \E g : Adds(g, f, S) /\ SumOf(f) = g[S]
  <1>1. SumOf(f) = (CHOOSE g : Adds(g, f, S))[S]
    <2>1. DOMAIN f = S
      OBVIOUS
    <2>2. QED
      BY <2>1 DEF SumOf, SumFunction, SumFunctionOnSet, FoldFunctionOnSet, MapThenFoldSet, Pick, Adds
  <1>2. Adds(CHOOSE g : Adds(g, f, S), f, S)
    <2>1. \E g : Adds(g, f, S)
      BY AddsExists
    <2>2. QED
      BY <2>1
  <1>3. QED
    BY <1>1, <1>2

LEMMA SumTyped ==
  ASSUME NEW S, IsFiniteSet(S), NEW f \in [S -> Int]
  PROVE  SumOf(f) \in Int
  BY SumIs, AddsTyped

LEMMA SumEmpty ==
  ASSUME NEW f \in [{} -> Int]
  PROVE  SumOf(f) = 0
  BY SumIs, AddsAt, FS_EmptySet

\* Any element may be taken out, not only the one that is picked.
LEMMA AddsAny ==
  ASSUME NEW S, IsFiniteSet(S), NEW f \in [S -> Int], NEW g, Adds(g, f, S)
  PROVE  \A s \in SUBSET S : \A x \in s : g[s] = f[x] + g[s \ {x}]
  <1> DEFINE W == {s \in SUBSET S : \E x \in s : g[s] # f[x] + g[s \ {x}]}
             sizes == {Cardinality(s) : s \in W}
  <1> SUFFICES ASSUME W # {}
               PROVE  FALSE
    OBVIOUS
  <1>1. \A s \in SUBSET S : IsFiniteSet(s) /\ Cardinality(s) \in Nat
    BY FS_Subset, FS_CardinalityType
  <1>2. sizes \in SUBSET Nat /\ sizes # {}
    BY <1>1
  <1>3. PICK n \in sizes : \A m \in sizes : n <= m
    <2> HIDE DEF sizes
    <2>1. QED
      BY <1>2, LeastNumber
  <1>4. PICK s \in W : n = Cardinality(s)
    BY <1>3
  <1>5. PICK x \in s : g[s] # f[x] + g[s \ {x}]
    BY <1>4
  <1>6. PICK p, r : p = Pick(s) /\ r = s \ {p}
    OBVIOUS
  <1>7. s \in SUBSET S /\ p \in s /\ r \in SUBSET S
    BY <1>4, <1>5, <1>6, PickIs
  <1>8. g[s] = f[p] + g[r]
    <2>1. \A t \in SUBSET S : t # {} => g[t] = f[Pick(t)] + g[t \ {Pick(t)}]
      BY AddsAt
    <2>2. QED
      BY <1>5, <1>6, <1>7, <2>1
  <1>9. p # x
    BY <1>5, <1>6, <1>8
  <1>10. \A t \in SUBSET S : Cardinality(t) < n => \A y \in t : g[t] = f[y] + g[t \ {y}]
    <2> SUFFICES ASSUME NEW t \in SUBSET S, Cardinality(t) < n, t \in W
                 PROVE  FALSE
      OBVIOUS
    <2>1. Cardinality(t) \in sizes /\ Cardinality(t) \in Nat /\ n \in Nat
      BY <1>1, <1>2
    <2>2. n <= Cardinality(t)
      BY <1>3, <2>1
    <2>3. QED
      BY <2>1, <2>2
  <1>11. \A y \in s : s \ {y} \in SUBSET S /\ Cardinality(s \ {y}) < n
    <2> TAKE y \in s
    <2>1. Cardinality(s \ {y}) = Cardinality(s) - 1 /\ Cardinality(s) \in Nat
      BY <1>1, <1>7, FS_RemoveElement
    <2>2. QED
      BY <1>4, <1>7, <2>1
  <1>12. g[r] = f[x] + g[r \ {x}]
    BY <1>5, <1>6, <1>7, <1>9, <1>10, <1>11
  <1>13. g[s \ {x}] = f[p] + g[(s \ {x}) \ {p}]
    BY <1>5, <1>7, <1>9, <1>10, <1>11
  <1>14. r \ {x} = (s \ {x}) \ {p}
    BY <1>6
  <1>15. f[x] \in Int /\ f[p] \in Int /\ g[r \ {x}] \in Int
    BY <1>5, <1>7, AddsTyped
  <1>16. g[s] = f[x] + g[s \ {x}]
    <2>1. PICK a, b, c, d, e : /\ a = f[x] /\ b = f[p] /\ c = g[r \ {x}]
                               /\ d = g[r] /\ e = g[s \ {x}]
      OBVIOUS
    <2>2. e = b + c /\ d = a + c
      BY <1>12, <1>13, <1>14, <2>1
    <2>3. b + d = a + e
      BY <1>15, <2>1, <2>2
    <2>4. QED
      BY <1>8, <2>1, <2>3
  <1>17. QED
    BY <1>5, <1>16

\* Two sums of the same terms agree on every part they share.
LEMMA AddsSame ==
  ASSUME NEW S, IsFiniteSet(S), NEW f, NEW g, Adds(g, f, S),
         NEW s \in SUBSET S, NEW h, NEW k, Adds(k, h, s), \A x \in s : h[x] = f[x]
  PROVE  k[s] = g[s]
  <1> DEFINE V == {t \in SUBSET s : k[t] # g[t]}
  <1>1. \A t \in SUBSET s : t # {} => k[t] = h[Pick(t)] + k[t \ {Pick(t)}]
    BY AddsAt
  <1>2. \A t \in SUBSET S : t # {} => g[t] = f[Pick(t)] + g[t \ {Pick(t)}]
    BY DEF Adds
  <1>3. IsFiniteSet(s)
    BY FS_Subset
  <1>4. V = {}
    <2> SUFFICES ASSUME V # {}
                 PROVE  FALSE
      OBVIOUS
    <2>1. V \in SUBSET SUBSET s
      OBVIOUS
    <2>2. PICK t \in V : t = {} \/ t \ {Pick(t)} \notin V
      <3> HIDE DEF V
      <3>1. QED
        BY <1>3, <2>1, LeastSet
    <2>3. t # {}
      <3>1. k[{}] = 0 /\ g[{}] = 0
        BY AddsAt
      <3>2. QED
        BY <2>2, <3>1
    <2>4. Pick(t) \in t /\ t \in SUBSET s /\ t \in SUBSET S
      BY <2>2, <2>3, PickIs
    <2>5. k[t \ {Pick(t)}] = g[t \ {Pick(t)}]
      BY <2>2, <2>3, <2>4
    <2>6. k[t] = g[t]
      BY <1>1, <1>2, <2>3, <2>4, <2>5
    <2>7. QED
      BY <2>2, <2>6
  <1>5. QED
    BY <1>4

\* The sum of a part.
LEMMA AddsPart ==
  ASSUME NEW S, IsFiniteSet(S), NEW f \in [S -> Int], NEW g, Adds(g, f, S), NEW s \in SUBSET S
  PROVE  SumOf([x \in s |-> f[x]]) = g[s]
  <1> DEFINE h == [x \in s |-> f[x]]
  <1>1. IsFiniteSet(s) /\ h \in [s -> Int] /\ \A x \in s : h[x] = f[x]
    BY FS_Subset
  <1> HIDE DEF h
  <1>2. PICK k : Adds(k, h, s) /\ SumOf(h) = k[s]
    BY <1>1, SumIs
  <1>3. k[s] = g[s]
    BY <1>1, <1>2, AddsSame
  <1>4. QED
    BY <1>2, <1>3 DEF h

\* What the rest of this module uses of sums: one term taken out, ...
LEMMA SumLess ==
  ASSUME NEW S, IsFiniteSet(S), NEW f \in [S -> Int], NEW x \in S
  PROVE  SumOf(f) = f[x] + SumOf([y \in S \ {x} |-> f[y]])
  <1>1. PICK g : Adds(g, f, S) /\ SumOf(f) = g[S]
    BY SumIs
  <1>2. S \in SUBSET S /\ S \ {x} \in SUBSET S
    OBVIOUS
  <1>3. g[S] = f[x] + g[S \ {x}]
    BY <1>1, <1>2, AddsAny
  <1>4. SumOf([y \in S \ {x} |-> f[y]]) = g[S \ {x}]
    BY <1>1, <1>2, AddsPart
  <1>5. QED
    BY <1>1, <1>3, <1>4

\* ... the terms of a part, and one more, ...
Part(f, s) == SumOf([x \in s |-> f[x]])

LEMMA PartAll ==
  ASSUME NEW S, NEW f \in [S -> Int]
  PROVE  Part(f, S) = SumOf(f)
  <1>1. [x \in S |-> f[x]] = f
    OBVIOUS
  <1>2. QED
    BY <1>1 DEF Part

LEMMA PartIs ==
  ASSUME NEW S, IsFiniteSet(S), NEW f \in [S -> Int], NEW s \in SUBSET S
  PROVE  /\ IsFiniteSet(s)
         /\ [x \in s |-> f[x]] \in [s -> Int]
         /\ Part(f, s) \in Int
  <1>1. IsFiniteSet(s) /\ [x \in s |-> f[x]] \in [s -> Int]
    BY FS_Subset
  <1>2. QED
    BY <1>1, SumTyped DEF Part

LEMMA PartEmpty == \A f : Part(f, {}) = 0
  BY SumEmpty DEF Part

LEMMA PartMore ==
  ASSUME NEW S, IsFiniteSet(S), NEW f \in [S -> Int], NEW s \in SUBSET S, NEW x \in S, x \notin s
  PROVE  Part(f, s \cup {x}) = f[x] + Part(f, s)
  <1> DEFINE t == s \cup {x}
             h == [y \in t |-> f[y]]
  <1>1. IsFiniteSet(t) /\ h \in [t -> Int] /\ x \in t /\ h[x] = f[x] /\ t \ {x} = s
    BY FS_Subset
  <1>2. [y \in t \ {x} |-> h[y]] = [y \in s |-> f[y]]
    BY <1>1
  <1> HIDE DEF t, h
  <1>3. SumOf(h) = h[x] + SumOf([y \in t \ {x} |-> h[y]])
    BY <1>1, SumLess
  <1>4. QED
    BY <1>1, <1>2, <1>3 DEF t, h, Part

\* ... and the family of the sets for which a sum is as it should be.
LEMMA Grown ==
  ASSUME NEW S, IsFiniteSet(S), NEW W, {} \in W,
         \A s \in SUBSET S : \A x \in S \ s : s \in W => s \cup {x} \in W
  PROVE  S \in W
  <1> DEFINE V == {s \in SUBSET S : s \notin W}
  <1> SUFFICES ASSUME V # {}
               PROVE  FALSE
    OBVIOUS
  <1>1. V \in SUBSET SUBSET S
    OBVIOUS
  <1>2. PICK s \in V : s = {} \/ s \ {Pick(s)} \notin V
    <2> HIDE DEF V
    <2>1. QED
      BY <1>1, LeastSet
  <1>3. s # {} /\ s \in SUBSET S /\ s \notin W
    BY <1>2
  <1>4. PICK x, r : x = Pick(s) /\ r = s \ {x}
    OBVIOUS
  <1>5. x \in s /\ r \in SUBSET S /\ x \in S \ r /\ s = r \cup {x}
    BY <1>3, <1>4, PickIs
  <1>6. r \in W
    BY <1>2, <1>3, <1>4, <1>5
  <1>7. QED
    BY <1>3, <1>5, <1>6

LEMMA SumZero ==
  ASSUME NEW S, IsFiniteSet(S), NEW f \in [S -> Int], \A x \in S : f[x] = 0
  PROVE  SumOf(f) = 0
  BY SumIs, AddsZero

\* A sum of sums of two terms.
LEMMA SumPlus ==
  ASSUME NEW S, IsFiniteSet(S), NEW f \in [S -> Int], NEW h \in [S -> Int],
         NEW both \in [S -> Int], \A x \in S : both[x] = f[x] + h[x]
  PROVE  SumOf(both) = SumOf(f) + SumOf(h)
  <1> DEFINE W == {s \in SUBSET S : Part(both, s) = Part(f, s) + Part(h, s)}
  <1>1. {} \in W
    BY PartEmpty
  <1>2. ASSUME NEW s \in SUBSET S, NEW x \in S \ s, s \in W
        PROVE  s \cup {x} \in W
    <2>1. PICK a, b, c : a = Part(f, s) /\ b = Part(h, s) /\ c = Part(both, s)
      OBVIOUS
    <2>2. a \in Int /\ b \in Int /\ c = a + b
      BY <1>2, <2>1, PartIs
    <2>3. Part(f, s \cup {x}) = f[x] + a
      BY <2>1, PartMore
    <2>4. Part(h, s \cup {x}) = h[x] + b
      BY <2>1, PartMore
    <2>5. Part(both, s \cup {x}) = both[x] + c
      BY <2>1, PartMore
    <2>6. f[x] \in Int /\ h[x] \in Int /\ both[x] = f[x] + h[x]
      OBVIOUS
    <2>7. both[x] + c = (f[x] + a) + (h[x] + b)
      BY <2>2, <2>6
    <2>8. QED
      BY <2>3, <2>4, <2>5, <2>7
  <1>3. S \in W
    <2> HIDE DEF W
    <2>1. QED
      BY <1>1, <1>2, Grown
  <1>4. QED
    BY <1>3, PartAll

LEMMA SumOpposite ==
  ASSUME NEW S, IsFiniteSet(S), NEW f \in [S -> Int], NEW h \in [S -> Int], \A x \in S : h[x] = -f[x]
  PROVE  SumOf(h) = -SumOf(f)
  <1> DEFINE z == [x \in S |-> 0]
  <1>1. z \in [S -> Int] /\ \A x \in S : z[x] = 0 /\ z[x] = f[x] + h[x]
    OBVIOUS
  <1> HIDE DEF z
  <1>2. SumOf(z) = 0
    BY <1>1, SumZero
  <1>3. SumOf(z) = SumOf(f) + SumOf(h)
    BY <1>1, SumPlus, SMTT(30)
  <1>4. SumOf(f) \in Int /\ SumOf(h) \in Int
    BY SumTyped
  <1>5. QED
    BY <1>2, <1>3, <1>4

\* The sum over two sets that share nothing.
LEMMA SumJoin ==
  ASSUME NEW S, IsFiniteSet(S), NEW f \in [S -> Int],
         NEW A \in SUBSET S, NEW B \in SUBSET S, A \cap B = {}
  PROVE  Part(f, A \cup B) = Part(f, A) + Part(f, B)
  <1> DEFINE W == {s \in SUBSET B : Part(f, A \cup s) = Part(f, A) + Part(f, s)}
  <1>1. {} \in W
    <2>1. Part(f, A) \in Int /\ A \cup {} = A
      BY PartIs
    <2>2. QED
      BY <2>1, PartEmpty
  <1>2. ASSUME NEW s \in SUBSET B, NEW x \in B \ s, s \in W
        PROVE  s \cup {x} \in W
    <2>1. PICK a, b, c : a = Part(f, A) /\ b = Part(f, s) /\ c = Part(f, A \cup s)
      OBVIOUS
    <2>2. a \in Int /\ b \in Int /\ c = a + b /\ f[x] \in Int
      <3>1. s \in SUBSET S
        OBVIOUS
      <3>2. QED
        BY <1>2, <2>1, <3>1, PartIs
    <2>3. s \in SUBSET S /\ A \cup s \in SUBSET S /\ x \in S /\ x \notin s /\ x \notin A \cup s
      OBVIOUS
    <2>4. Part(f, s \cup {x}) = f[x] + b
      BY <2>1, <2>3, PartMore
    <2>5. Part(f, (A \cup s) \cup {x}) = f[x] + c
      <3>1. PICK u : u = A \cup s
        OBVIOUS
      <3>2. Part(f, u \cup {x}) = f[x] + Part(f, u)
        BY <2>3, <3>1, PartMore
      <3>3. QED
        BY <2>1, <3>1, <3>2
    <2>6. (A \cup s) \cup {x} = A \cup (s \cup {x})
      OBVIOUS
    <2>7. f[x] + c = a + (f[x] + b)
      BY <2>2
    <2>8. QED
      BY <2>1, <2>4, <2>5, <2>6, <2>7
  <1>3. IsFiniteSet(B)
    BY FS_Subset
  <1>4. B \in W
    <2> HIDE DEF W
    <2>1. QED
      BY <1>1, <1>2, <1>3, Grown
  <1>5. QED
    BY <1>4

\* Terms outside a part do not count when they are zero.
LEMMA SumWhere ==
  ASSUME NEW S, IsFiniteSet(S), NEW f \in [S -> Int], NEW T \in SUBSET S,
         \A x \in S \ T : f[x] = 0
  PROVE  SumOf(f) = Part(f, T)
  <1> DEFINE R == S \ T
             h == [x \in R |-> f[x]]
  <1>1. R \in SUBSET S /\ T \cap R = {} /\ T \cup R = S
    OBVIOUS
  <1>2. Part(f, R) = 0
    <2>1. IsFiniteSet(R) /\ h \in [R -> Int] /\ \A x \in R : h[x] = 0
      BY FS_Subset
    <2>2. SumOf(h) = 0
      <3> HIDE DEF h, R
      <3>1. QED
        BY <2>1, SumZero
    <2>3. QED
      BY <2>2 DEF Part
  <1> HIDE DEF R
  <1>3. Part(f, S) = Part(f, T) + Part(f, R)
    BY <1>1, SumJoin
  <1>4. Part(f, T) \in Int /\ Part(f, S) = SumOf(f)
    BY PartIs, PartAll
  <1>5. QED
    BY <1>2, <1>3, <1>4

LEMMA SumOne ==
  ASSUME NEW S, IsFiniteSet(S), NEW f \in [S -> Int], NEW x \in S, \A y \in S : y # x => f[y] = 0
  PROVE  SumOf(f) = f[x]
  <1>1. SumOf(f) = Part(f, {x})
    BY SumWhere
  <1>2. Part(f, {} \cup {x}) = f[x] + Part(f, {})
    BY PartMore
  <1>3. {} \cup {x} = {x} /\ f[x] \in Int
    OBVIOUS
  <1>4. QED
    BY <1>1, <1>2, <1>3, PartEmpty

\* The sums of the rows and the sums of the columns of a table add up to the same.
Table(A, B) == [A -> [B -> Int]]

Column(F, A, b) == [a \in A |-> F[a][b]]

LEMMA SumSwap ==
  ASSUME NEW A, NEW B, IsFiniteSet(A), IsFiniteSet(B), NEW F \in Table(A, B),
         NEW row \in [A -> Int], \A a \in A : row[a] = SumOf(F[a]),
         NEW col \in [B -> Int], \A b \in B : col[b] = SumOf(Column(F, A, b))
  PROVE  SumOf(row) = SumOf(col)
  <1> DEFINE cols(s) == [b \in B |-> SumOf([a \in s |-> F[a][b]])]
             W == {s \in SUBSET A : Part(row, s) = SumOf(cols(s))}
             at(b) == [a \in A |-> F[a][b]]
  <1>0. F \in [A -> [B -> Int]]
    BY DEF Table
  <1>1. ASSUME NEW s \in SUBSET A, NEW b \in B
        PROVE  /\ at(b) \in [A -> Int] /\ \A a \in A : at(b)[a] = F[a][b]
               /\ SumOf([a \in s |-> F[a][b]]) = Part(at(b), s)
    <2>1. at(b) \in [A -> Int] /\ \A a \in A : at(b)[a] = F[a][b]
      BY <1>0
    <2>2. [a \in s |-> F[a][b]] = [a \in s |-> at(b)[a]]
      OBVIOUS
    <2> HIDE DEF at
    <2>3. QED
      BY <2>1, <2>2 DEF Part
  <1>2. ASSUME NEW s \in SUBSET A
        PROVE  cols(s) \in [B -> Int] /\ \A b \in B : cols(s)[b] = Part(at(b), s)
    <2>1. \A b \in B : SumOf([a \in s |-> F[a][b]]) = Part(at(b), s) /\ at(b) \in [A -> Int]
      BY <1>1
    <2> HIDE DEF at
    <2>2. \A b \in B : Part(at(b), s) \in Int
      BY <2>1, PartIs
    <2>3. QED
      BY <2>1, <2>2
  <1>3. {} \in W
    <2>1. SumOf(cols({})) = 0
      <3>1. \A b \in B : cols({})[b] = 0
        BY <1>2, PartEmpty
      <3>2. cols({}) \in [B -> Int]
        BY <1>2
      <3> HIDE DEF cols
      <3>3. QED
        BY <3>1, <3>2, SumZero
    <2>2. QED
      BY <2>1, PartEmpty
  <1>4. ASSUME NEW s \in SUBSET A, NEW x \in A \ s, s \in W
        PROVE  s \cup {x} \in W
    <2> DEFINE t == s \cup {x}
    <2>1. t \in SUBSET A
      OBVIOUS
    <2>2. F[x] \in [B -> Int] /\ cols(s) \in [B -> Int] /\ cols(t) \in [B -> Int]
      BY <1>0, <1>2, <2>1
    <2>3. ASSUME NEW b \in B
          PROVE  cols(t)[b] = F[x][b] + cols(s)[b]
      <3>1. cols(t)[b] = Part(at(b), t) /\ cols(s)[b] = Part(at(b), s)
        BY <1>2, <2>1
      <3>2. at(b) \in [A -> Int] /\ at(b)[x] = F[x][b]
        BY <1>1
      <3> HIDE DEF at
      <3>3. Part(at(b), s \cup {x}) = at(b)[x] + Part(at(b), s)
        BY <3>2, PartMore
      <3>4. QED
        BY <3>1, <3>2, <3>3
    <2> HIDE DEF cols
    <2>4. SumOf(cols(t)) = SumOf(F[x]) + SumOf(cols(s))
      <3>1. PICK p, q, r : p = cols(t) /\ q = F[x] /\ r = cols(s)
        OBVIOUS
      <3>2. p \in [B -> Int] /\ q \in [B -> Int] /\ r \in [B -> Int] /\ \A b \in B : p[b] = q[b] + r[b]
        BY <2>2, <2>3, <3>1
      <3>3. SumOf(p) = SumOf(q) + SumOf(r)
        BY <3>2, SumPlus
      <3>4. QED
        BY <3>1, <3>3
    <2>5. Part(row, s \cup {x}) = row[x] + Part(row, s)
      BY PartMore
    <2>6. QED
      BY <1>4, <2>1, <2>4, <2>5
  <1>5. A \in W
    <2> HIDE DEF W
    <2>1. QED
      BY <1>3, <1>4, Grown
  <1>6. cols(A) = col
    BY DEF Column
  <1>7. QED
    <2> HIDE DEF cols
    <2>1. QED
      BY <1>5, <1>6, PartAll

\* Whatever a set is sorted into adds up to the whole.
LEMMA SumSorted ==
  ASSUME NEW S, IsFiniteSet(S), NEW f \in [S -> Int], NEW K, IsFiniteSet(K), NEW key \in [S -> K],
         NEW totals, DOMAIN totals = K, totals = [k \in K |-> totals[k]],
         \A k \in K : totals[k] = Part(f, {x \in S : key[x] = k})
  PROVE  totals \in [K -> Int] /\ SumOf(totals) = SumOf(f)
  <1> DEFINE F == [k \in K |-> [x \in S |-> IF key[x] = k THEN f[x] ELSE 0]]
             of(k) == {x \in S : key[x] = k}
  <1>1. F \in Table(K, S)
    BY DEF Table
  <1>2. \A k \in K : of(k) \in SUBSET S
    OBVIOUS
  <1>3. totals \in [K -> Int]
    <2>1. \A k \in K : totals[k] = Part(f, of(k))
      OBVIOUS
    <2> HIDE DEF of
    <2>2. \A k \in K : totals[k] \in Int
      BY <1>2, <2>1, PartIs
    <2>3. QED
      BY <2>2
  <1>4. ASSUME NEW k \in K
        PROVE  totals[k] = SumOf(F[k])
    <2>1. F[k] \in [S -> Int] /\ (\A x \in S \ of(k) : F[k][x] = 0)
      OBVIOUS
    <2>2. [x \in of(k) |-> F[k][x]] = [x \in of(k) |-> f[x]]
      OBVIOUS
    <2>3. totals[k] = Part(f, of(k))
      OBVIOUS
    <2> HIDE DEF F, of
    <2>4. SumOf(F[k]) = Part(F[k], of(k))
      BY <1>2, <2>1, SumWhere
    <2>5. QED
      BY <2>2, <2>3, <2>4 DEF Part
  <1>5. ASSUME NEW x \in S
        PROVE  f[x] = SumOf(Column(F, K, x))
    <2> DEFINE h == [k \in K |-> F[k][x]]
    <2>1. h \in [K -> Int] /\ key[x] \in K /\ h[key[x]] = f[x] /\ (\A k \in K : k # key[x] => h[k] = 0)
      OBVIOUS
    <2> HIDE DEF h, F
    <2>2. SumOf(h) = h[key[x]]
      BY <2>1, SumOne
    <2>3. QED
      BY <2>1, <2>2 DEF h, Column
  <1> HIDE DEF F
  <1>6. SumOf(totals) = SumOf(f)
    BY <1>1, <1>3, <1>4, <1>5, SumSwap
  <1>7. QED
    BY <1>3, <1>6

\* Sums of positive terms.
LEMMA PartPositive ==
  ASSUME NEW S, IsFiniteSet(S), NEW f \in [S -> Int], \A x \in S : f[x] > 0, NEW T \in SUBSET S
  PROVE  Part(f, T) >= 0 /\ (T # {} => Part(f, T) > 0)
  <1> DEFINE W == {s \in SUBSET T : Part(f, s) >= 0 /\ (s # {} => Part(f, s) > 0)}
  <1>1. {} \in W
    BY PartEmpty
  <1>2. ASSUME NEW s \in SUBSET T, NEW x \in T \ s, s \in W
        PROVE  s \cup {x} \in W
    <2>1. s \in SUBSET S /\ x \in S /\ x \notin s
      OBVIOUS
    <2>2. Part(f, s \cup {x}) = f[x] + Part(f, s) /\ Part(f, s) \in Int /\ f[x] \in Int
      BY <2>1, PartMore, PartIs
    <2>3. Part(f, s) >= 0 /\ f[x] > 0
      BY <1>2, <2>1
    <2>4. QED
      BY <2>2, <2>3
  <1>3. IsFiniteSet(T)
    BY FS_Subset
  <1>4. T \in W
    <2> HIDE DEF W
    <2>1. QED
      BY <1>1, <1>2, <1>3, Grown
  <1>5. QED
    BY <1>4

LEMMA PartBelow ==
  ASSUME NEW S, IsFiniteSet(S), NEW f \in [S -> Int], \A x \in S : f[x] > 0, NEW T \in SUBSET S
  PROVE  Part(f, T) <= SumOf(f) /\ (Part(f, T) = SumOf(f) => T = S)
  <1> DEFINE R == S \ T
  <1>1. R \in SUBSET S /\ T \cap R = {} /\ T \cup R = S /\ (T # S => R # {})
    OBVIOUS
  <1> HIDE DEF R
  <1>2. Part(f, S) = Part(f, T) + Part(f, R)
    BY <1>1, SumJoin
  <1>3. Part(f, S) = SumOf(f) /\ Part(f, T) \in Int /\ Part(f, R) \in Int
    BY <1>1, PartAll, PartIs
  <1>4. Part(f, R) >= 0 /\ (R # {} => Part(f, R) > 0)
    BY <1>1, PartPositive
  <1>5. QED
    BY <1>1, <1>2, <1>3, <1>4

LEMMA FiniteImage ==
  ASSUME NEW S, IsFiniteSet(S), NEW f
  PROVE  IsFiniteSet({f[x] : x \in S})
  <1> DEFINE g == [x \in S |-> f[x]]
  <1>1. g \in Surjection(S, {f[x] : x \in S})
    BY DEF Surjection
  <1>2. QED
    BY <1>1, FS_Surjection

LEMMA FiniteUnion ==
  ASSUME NEW S, IsFiniteSet(S), NEW f, \A x \in S : IsFiniteSet(f[x])
  PROVE  IsFiniteSet(UNION {f[x] : x \in S})
  <1> DEFINE all(s) == UNION {f[x] : x \in s}
             W == {s \in SUBSET S : IsFiniteSet(all(s))}
  <1>1. {} \in W
    <2>1. all({}) = {}
      OBVIOUS
    <2>2. QED
      BY <2>1, FS_EmptySet
  <1>2. ASSUME NEW s \in SUBSET S, NEW x \in S \ s, s \in W
        PROVE  s \cup {x} \in W
    <2>1. all(s \cup {x}) = all(s) \cup f[x]
      OBVIOUS
    <2>2. IsFiniteSet(all(s)) /\ IsFiniteSet(f[x])
      BY <1>2
    <2> HIDE DEF all
    <2>3. IsFiniteSet(all(s) \cup f[x])
      BY <2>2, FS_Union
    <2>4. QED
      BY <2>1, <2>3
  <1>3. S \in W
    <2> HIDE DEF W
    <2>1. QED
      BY <1>1, <1>2, Grown
  <1>4. QED
    BY <1>3

\* The same terms under other names: g names those of T by the elements of S.
Renames(g, h, f, S, T) ==
  /\ IsFiniteSet(S) /\ IsFiniteSet(T)
  /\ h \in [S -> Int] /\ f \in [T -> Int] /\ g \in [S -> T]
  /\ \A x \in S : h[x] = f[g[x]]
  /\ \A x, y \in S : g[x] = g[y] => x = y
  /\ \A t \in T : \E x \in S : g[x] = t

LEMMA SumRenamed ==
  ASSUME NEW S, NEW T, NEW h, NEW f, NEW g, Renames(g, h, f, S, T)
  PROVE  SumOf(h) = SumOf(f)
  <1>0. /\ IsFiniteSet(S) /\ IsFiniteSet(T)
        /\ h \in [S -> Int] /\ f \in [T -> Int] /\ g \in [S -> T]
        /\ \A x \in S : h[x] = f[g[x]]
        /\ \A x, y \in S : g[x] = g[y] => x = y
        /\ \A t \in T : \E x \in S : g[x] = t
    BY DEF Renames
  <1> USE <1>0
  <1> DEFINE im(s) == {g[x] : x \in s}
             W == {s \in SUBSET S : Part(h, s) = Part(f, im(s))}
  <1>1. {} \in W
    <2>1. im({}) = {}
      OBVIOUS
    <2> HIDE DEF im
    <2>2. QED
      BY <2>1, PartEmpty
  <1>2. ASSUME NEW s \in SUBSET S, NEW x \in S \ s, s \in W
        PROVE  s \cup {x} \in W
    <2>1. /\ im(s) \in SUBSET T /\ g[x] \in T /\ g[x] \notin im(s)
          /\ im(s \cup {x}) = im(s) \cup {g[x]} /\ h[x] = f[g[x]]
      OBVIOUS
    <2>2. Part(h, s) = Part(f, im(s))
      BY <1>2
    <2> HIDE DEF im
    <2>3. PICK t, u : t = im(s) /\ u = g[x]
      OBVIOUS
    <2>4. Part(h, s \cup {x}) = h[x] + Part(h, s)
      BY PartMore
    <2>5. Part(f, t \cup {u}) = f[u] + Part(f, t)
      BY <2>1, <2>3, PartMore
    <2>6. QED
      BY <2>1, <2>2, <2>3, <2>4, <2>5
  <1>3. S \in W
    <2> HIDE DEF W
    <2>1. QED
      BY <1>1, <1>2, Grown
  <1>4. im(S) = T
    OBVIOUS
  <1> HIDE DEF im
  <1>5. Part(h, S) = Part(f, T)
    BY <1>3, <1>4
  <1>6. QED
    BY <1>5, PartAll

\* A list of numbers is the sum of its parts.
LEMMA ListTyped ==
  ASSUME NEW l \in Seq(Int)
  PROVE  /\ Len(l) \in Nat /\ DOMAIN l = 1 .. Len(l) /\ IsFiniteSet(DOMAIN l)
         /\ l \in [DOMAIN l -> Int] /\ SumOf(l) \in Int
  <1>1. Len(l) \in Nat /\ DOMAIN l = 1 .. Len(l) /\ l \in [1 .. Len(l) -> Int]
    OBVIOUS
  <1>2. IsFiniteSet(1 .. Len(l))
    BY <1>1, FS_Interval
  <1>3. QED
    BY <1>1, <1>2, SumTyped

LEMMA SumConcat ==
  ASSUME NEW l \in Seq(Int), NEW m \in Seq(Int)
  PROVE  SumOf(l \o m) = SumOf(l) + SumOf(m)
  <1>1. PICK c, L, M : /\ c = l \o m /\ L = Len(l) /\ M = Len(m)
                       /\ L \in Nat /\ M \in Nat
    <2>1. Len(l) \in Nat /\ Len(m) \in Nat
      OBVIOUS
    <2>2. QED
      BY <2>1
  <1>2. /\ c \in Seq(Int) /\ DOMAIN c = 1..(L + M)
        /\ \A k \in 1..L : c[k] = l[k]
        /\ \A k \in 1..M : c[L + k] = m[k]
        /\ DOMAIN l = 1..L /\ DOMAIN m = 1..M
    BY <1>1
  <1> DEFINE first == 1..L
             rest == (L + 1)..(L + M)
  <1>3. first \in SUBSET DOMAIN c /\ rest \in SUBSET DOMAIN c /\ first \cap rest = {} /\ first \cup rest = DOMAIN c
    BY <1>1, <1>2
  <1>4. /\ c \in [DOMAIN c -> Int] /\ IsFiniteSet(DOMAIN c)
        /\ m \in [DOMAIN m -> Int] /\ IsFiniteSet(DOMAIN m)
    BY <1>2, ListTyped
  <1>5. Part(c, DOMAIN c) = Part(c, first) + Part(c, rest)
    <2> HIDE DEF first, rest
    <2>1. PICK D, A, B : D = DOMAIN c /\ A = first /\ B = rest
      OBVIOUS
    <2>2. c \in [D -> Int] /\ IsFiniteSet(D) /\ A \in SUBSET D /\ B \in SUBSET D /\ A \cap B = {} /\ A \cup B = D
      BY <1>3, <1>4, <2>1
    <2>3. Part(c, A \cup B) = Part(c, A) + Part(c, B)
      BY <2>2, SumJoin
    <2>4. QED
      BY <2>1, <2>2, <2>3
  <1>6. Part(c, first) = SumOf(l)
    <2>1. l = [k \in DOMAIN l |-> l[k]]
      OBVIOUS
    <2>2. [k \in first |-> c[k]] = l
      BY <1>2, <2>1
    <2>3. QED
      BY <2>2 DEF Part
  <1>7. Part(c, rest) = SumOf(m)
    <2> DEFINE h == [k \in rest |-> c[k]]
               g == [k \in rest |-> k - L]
    <2>1. h \in [rest -> Int] /\ IsFiniteSet(rest)
      <3> HIDE DEF rest
      <3>1. QED
        BY <1>3, <1>4, PartIs
    <2>2. g \in [rest -> DOMAIN m] /\ (\A x, y \in rest : g[x] = g[y] => x = y)
      BY <1>1, <1>2
    <2>3. \A t \in DOMAIN m : \E x \in rest : g[x] = t
      <3> SUFFICES ASSUME NEW t \in DOMAIN m
                   PROVE  \E x \in rest : g[x] = t
        OBVIOUS
      <3>1. L + t \in rest /\ g[L + t] = t
        BY <1>1, <1>2
      <3>2. QED
        BY <3>1
    <2>4. \A x \in rest : h[x] = m[g[x]]
      <3> SUFFICES ASSUME NEW x \in rest
                   PROVE  h[x] = m[g[x]]
        OBVIOUS
      <3>1. PICK k \in 1..M : x = L + k /\ g[x] = k
        <4>1. x - L \in 1..M /\ x = L + (x - L) /\ g[x] = x - L
          BY <1>1
        <4>2. QED
          BY <4>1
      <3>2. c[x] = m[k]
        BY <1>2, <3>1
      <3>3. QED
        BY <3>1, <3>2
    <2> HIDE DEF h, g, rest
    <2>5. SumOf(h) = SumOf(m)
      <3>1. PICK T, R, j, i : T = DOMAIN m /\ R = rest /\ j = h /\ i = g
        OBVIOUS
      <3>2. IsFiniteSet(T) /\ m \in [T -> Int] /\ IsFiniteSet(R) /\ j \in [R -> Int] /\ i \in [R -> T]
        BY <1>4, <2>1, <2>2, <3>1
      <3>3. \A x \in R : j[x] = m[i[x]]
        BY <2>4, <3>1
      <3>4. \A x, y \in R : i[x] = i[y] => x = y
        BY <2>2, <3>1
      <3>5. \A t \in T : \E x \in R : i[x] = t
        BY <2>3, <3>1
      <3>6. Renames(i, j, m, R, T)
        BY <3>2, <3>3, <3>4, <3>5 DEF Renames
      <3>7. SumOf(j) = SumOf(m)
        BY <3>6, SumRenamed
      <3>8. QED
        BY <3>1, <3>7
    <2>6. QED
      BY <2>5 DEF h, Part
  <1>8. Part(c, DOMAIN c) = SumOf(c)
    BY <1>4, PartAll
  <1>9. QED
    BY <1>1, <1>5, <1>6, <1>7, <1>8

LEMMA SumSingle ==
  ASSUME NEW x \in Int
  PROVE  <<x>> \in Seq(Int) /\ SumOf(<<x>>) = x
  <1>1. PICK l : l = <<x>>
    OBVIOUS
  <1>2. l \in Seq(Int) /\ l \in [{1} -> Int] /\ l[1] = x /\ IsFiniteSet({1})
    BY <1>1, FS_Singleton
  <1>3. SumOf(l) = l[1] + SumOf([y \in {1} \ {1} |-> l[y]])
    BY <1>2, SumLess
  <1>4. [y \in {1} \ {1} |-> l[y]] \in [{} -> Int]
    OBVIOUS
  <1>5. SumOf([y \in {1} \ {1} |-> l[y]]) = 0
    BY <1>4, SumEmpty
  <1>6. QED
    BY <1>1, <1>2, <1>3, <1>5

LEMMA SumNone == << >> \in Seq(Int) /\ SumOf(<< >>) = 0
  <1>1. << >> \in Seq(Int) /\ << >> \in [{} -> Int]
    OBVIOUS
  <1>2. QED
    BY <1>1, SumEmpty

\* A multiple of each.
LEMMA SumScaled ==
  ASSUME NEW S, IsFiniteSet(S), NEW f \in [S -> Int], NEW c \in Int, NEW h \in [S -> Int],
         \A x \in S : h[x] = c * f[x]
  PROVE  SumOf(h) = c * SumOf(f)
  <1> DEFINE W == {s \in SUBSET S : Part(h, s) = c * Part(f, s)}
  <1>1. {} \in W
    <2>1. Part(h, {}) = 0 /\ Part(f, {}) = 0
      BY PartEmpty
    <2>2. QED
      BY <2>1
  <1>2. ASSUME NEW s \in SUBSET S, NEW x \in S \ s, s \in W
        PROVE  s \cup {x} \in W
    <2>1. PICK a \in Int, b \in Int : a = Part(h, s) /\ b = Part(f, s)
      BY PartIs
    <2>2. Part(h, s \cup {x}) = h[x] + a /\ Part(f, s \cup {x}) = f[x] + b
      BY <2>1, PartMore
    <2>3. PICK u \in Int : u = f[x]
      OBVIOUS
    <2>4. a = c * b /\ h[x] = c * u
      BY <1>2, <2>1, <2>3
    <2>5. c * u + c * b = c * (u + b)
      OBVIOUS
    <2>6. QED
      BY <2>2, <2>3, <2>4, <2>5
  <1>3. S \in W
    <2> HIDE DEF W
    <2>1. QED
      BY <1>1, <1>2, Grown
  <1>4. QED
    BY <1>3, PartAll

LEMMA SumBetween ==
  ASSUME NEW S, IsFiniteSet(S), NEW f \in [S -> Int], NEW c \in Int, \A x \in S : 0 <= f[x] /\ f[x] <= c
  PROVE  0 <= SumOf(f) /\ SumOf(f) <= c * Cardinality(S) /\ Cardinality(S) \in Nat
  <1> DEFINE W == {s \in SUBSET S : 0 <= Part(f, s) /\ Part(f, s) <= c * Cardinality(s)}
  <1>1. {} \in W
    <2>1. Part(f, {}) = 0 /\ Cardinality({}) = 0
      BY PartEmpty, FS_EmptySet
    <2>2. QED
      BY <2>1
  <1>2. ASSUME NEW s \in SUBSET S, NEW x \in S \ s, s \in W
        PROVE  s \cup {x} \in W
    <2>1. PICK b \in Int : b = Part(f, s)
      BY PartIs
    <2>2. IsFiniteSet(s)
      BY FS_Subset
    <2>3. PICK n \in Nat : n = Cardinality(s)
      BY <2>2, FS_CardinalityType
    <2>4. Cardinality(s \cup {x}) = n + 1
      BY <2>2, <2>3, FS_AddElement
    <2>5. Part(f, s \cup {x}) = f[x] + b
      BY <2>1, PartMore
    <2>6. PICK u \in Int : u = f[x] /\ 0 <= u /\ u <= c
      OBVIOUS
    <2>7. 0 <= b /\ b <= c * n
      BY <1>2, <2>1, <2>3
    <2>8. 0 <= u + b /\ u + b <= c * (n + 1)
      BY <2>6, <2>7
    <2>9. QED
      BY <2>4, <2>5, <2>6, <2>8
  <1>3. S \in W
    <2> HIDE DEF W
    <2>1. QED
      BY <1>1, <1>2, Grown
  <1>4. QED
    BY <1>3, PartAll, FS_CardinalityType

\* One for each element of T.
LEMMA SumCount ==
  ASSUME NEW S, IsFiniteSet(S), NEW T \in SUBSET S, NEW h \in [S -> Int],
         \A x \in S : h[x] = IF x \in T THEN 1 ELSE 0
  PROVE  SumOf(h) = Cardinality(T)
  <1> DEFINE W == {s \in SUBSET S : Part(h, s) = Cardinality(s \cap T)}
  <1>1. {} \in W
    <2>1. Part(h, {}) = 0 /\ Cardinality({}) = 0 /\ {} \cap T = {}
      BY PartEmpty, FS_EmptySet
    <2>2. QED
      BY <2>1
  <1>2. ASSUME NEW s \in SUBSET S, NEW x \in S \ s, s \in W
        PROVE  s \cup {x} \in W
    <2>1. IsFiniteSet(s \cap T)
      <3>1. s \cap T \subseteq S
        OBVIOUS
      <3>2. QED
        BY <3>1, FS_Subset
    <2>2. PICK n \in Nat : n = Cardinality(s \cap T)
      BY <2>1, FS_CardinalityType
    <2>3. Part(h, s \cup {x}) = h[x] + n
      BY <1>2, <2>2, PartMore
    <2>4. CASE x \in T
      <3>1. (s \cup {x}) \cap T = (s \cap T) \cup {x} /\ x \notin s \cap T
        BY <2>4
      <3>2. Cardinality((s \cap T) \cup {x}) = n + 1
        BY <2>1, <2>2, <3>1, FS_AddElement
      <3>3. h[x] = 1
        BY <2>4
      <3>4. QED
        BY <2>3, <3>1, <3>2, <3>3
    <2>5. CASE x \notin T
      <3>1. (s \cup {x}) \cap T = s \cap T
        BY <2>5
      <3>2. h[x] = 0
        BY <2>5
      <3>3. h[x] + n = n
        BY <2>2, <3>2
      <3>4. QED
        BY <2>2, <2>3, <3>1, <3>3
    <2>6. QED
      BY <2>4, <2>5
  <1>3. S \in W
    <2> HIDE DEF W
    <2>1. QED
      BY <1>1, <1>2, Grown
  <1>4. S \cap T = T
    OBVIOUS
  <1>5. QED
    BY <1>3, <1>4, PartAll

LEMMA KeySums ==
  ASSUME NEW S, IsFiniteSet(S), NEW f \in [S -> Int], NEW key \in [S -> S]
  PROVE  \E totals \in [S -> Int] :
           SumOf(totals) = SumOf(f) /\ \A k \in S : totals[k] = Part(f, {x \in S : key[x] = k})
  <1>1. PICK t : t = [k \in S |-> Part(f, {x \in S : key[x] = k})]
    OBVIOUS
  <1>2. DOMAIN t = S /\ t = [k \in S |-> t[k]] /\ \A k \in S : t[k] = Part(f, {x \in S : key[x] = k})
    BY <1>1
  <1>3. t \in [S -> Int] /\ SumOf(t) = SumOf(f)
    BY <1>2, SumSorted
  <1>4. QED
    BY <1>2, <1>3

\* Of what is not below nothing.
LEMMA SumNat ==
  ASSUME NEW S, IsFiniteSet(S), NEW f \in [S -> Int], \A x \in S : f[x] >= 0
  PROVE  SumOf(f) \in Nat
  <1> DEFINE W == {s \in SUBSET S : Part(f, s) \in Nat}
  <1>1. {} \in W
    BY PartEmpty
  <1>2. ASSUME NEW s \in SUBSET S, NEW x \in S \ s, s \in W
        PROVE  s \cup {x} \in W
    <2>1. PICK a \in Nat : a = Part(f, s)
      BY <1>2
    <2>2. Part(f, s \cup {x}) = f[x] + a
      BY <2>1, PartMore
    <2>3. PICK u \in Nat : u = f[x]
      OBVIOUS
    <2>4. QED
      BY <2>1, <2>2, <2>3
  <1>3. S \in W
    <2> HIDE DEF W
    <2>1. QED
      BY <1>1, <1>2, Grown
  <1>4. QED
    BY <1>3, PartAll

LEMMA SumAtLeast ==
  ASSUME NEW S, IsFiniteSet(S), NEW f \in [S -> Int], NEW h \in [S -> Int], \A x \in S : f[x] <= h[x]
  PROVE  SumOf(f) <= SumOf(h)
  <1>1. PICK more : more = [x \in S |-> h[x] - f[x]]
    OBVIOUS
  <1>2. ASSUME NEW x \in S
        PROVE  more[x] \in Int /\ more[x] >= 0 /\ h[x] = f[x] + more[x]
    <2>1. PICK a \in Int, b \in Int : a = f[x] /\ b = h[x] /\ a <= b
      OBVIOUS
    <2>2. more[x] = b - a
      BY <1>1, <2>1
    <2>3. QED
      BY <2>1, <2>2
  <1>3. more \in [S -> Int]
    BY <1>1, <1>2
  <1>4. SumOf(h) = SumOf(f) + SumOf(more)
    <2>1. \A x \in S : h[x] = f[x] + more[x]
      BY <1>2
    <2>2. QED
      BY <1>3, <2>1, SumPlus
  <1>5. SumOf(more) \in Nat
    <2>1. \A x \in S : more[x] >= 0
      BY <1>2
    <2>2. QED
      BY <1>3, <2>1, SumNat
  <1>6. SumOf(f) \in Int
    BY SumTyped
  <1>7. QED
    BY <1>4, <1>5, <1>6

LEMMA PartSingle ==
  ASSUME NEW S, IsFiniteSet(S), NEW f \in [S -> Int], NEW x \in S
  PROVE  Part(f, {x}) = f[x]
  <1>1. {} \in SUBSET S /\ x \notin {} /\ {} \cup {x} = {x}
    OBVIOUS
  <1>2. Part(f, {} \cup {x}) = f[x] + Part(f, {})
    BY <1>1, PartMore
  <1>3. Part(f, {}) = 0
    BY PartEmpty
  <1>4. PICK a \in Int : a = f[x]
    OBVIOUS
  <1>5. QED
    BY <1>1, <1>2, <1>3, <1>4

\* A finite set of numbers has a greatest.
LEMMA Greatest ==
  ASSUME NEW S \in SUBSET Nat, IsFiniteSet(S), S # {}
  PROVE  Max(S) \in S /\ \A x \in S : x <= Max(S)
  <1> DEFINE W == {s \in SUBSET S : s = {} \/ \E m \in s : \A x \in s : x <= m}
  <1>1. {} \in W
    OBVIOUS
  <1>2. ASSUME NEW s \in SUBSET S, NEW y \in S \ s, s \in W
        PROVE  s \cup {y} \in W
    <2>1. CASE s = {}
      BY <2>1
    <2>2. CASE s # {}
      <3>1. PICK m \in s : \A x \in s : x <= m
        BY <1>2, <2>2
      <3>2. m \in Nat /\ y \in Nat /\ \A x \in s : x \in Nat
        OBVIOUS
      <3>3. CASE m <= y
        <4>1. \A x \in s \cup {y} : x <= y
          BY <3>1, <3>2, <3>3
        <4>2. QED
          BY <4>1
      <3>4. CASE y < m
        <4>1. \A x \in s \cup {y} : x <= m
          BY <3>1, <3>2, <3>4
        <4>2. QED
          BY <3>1, <4>1
      <3>5. QED
        BY <3>2, <3>3, <3>4
    <2>3. QED
      BY <2>1, <2>2
  <1>3. S \in W
    <2> HIDE DEF W
    <2>1. QED
      BY <1>1, <1>2, Grown
  <1>4. PICK m \in S : \A x \in S : x <= m
    BY <1>3
  <1>5. \A x \in S : m >= x
    BY <1>4
  <1>6. Max(S) \in S /\ \A x \in S : Max(S) >= x
    BY <1>5 DEF Max
  <1>7. QED
    BY <1>6

==================================================================================
