-------------------------------- MODULE VatProofs --------------------------------
(***************************************************************************)
(* Proofs about Vat, for any processes, accounts, VAT codes, rates, bank   *)
(* lines, scenarios and bounds.                                            *)
(***************************************************************************)
EXTENDS Vat, SumTheorems, SequenceTheorems, FiniteSetTheorems, TLAPS

----------------------------------------------------------------------------------
(* Rows picked from a list. *)

Rank(S, k) == Cardinality({j \in S : j <= k})

Place(S, n) == CHOOSE k \in S : Rank(S, k) = n

LEMMA PlacesFinite ==
  ASSUME NEW L \in Nat, NEW S \in SUBSET (1 .. L)
  PROVE  /\ IsFiniteSet(S) /\ Cardinality(S) \in Nat
         /\ \A k : IsFiniteSet({j \in S : j <= k}) /\ Rank(S, k) \in Nat
  <1>1. IsFiniteSet(1 .. L)
    BY FS_Interval
  <1>2. \A R \in SUBSET (1 .. L) : IsFiniteSet(R) /\ Cardinality(R) \in Nat
    BY <1>1, FS_Subset, FS_CardinalityType
  <1>3. \A k : {j \in S : j <= k} \in SUBSET (1 .. L)
    OBVIOUS
  <1>4. QED
    BY <1>2, <1>3 DEF Rank

LEMMA RankStep ==
  ASSUME NEW L \in Nat, NEW S \in SUBSET (1 .. L)
  PROVE  /\ Rank(S, 0) = 0 /\ Rank(S, L) = Cardinality(S)
         /\ \A k \in 1 .. L : Rank(S, k) = IF k \in S THEN Rank(S, k - 1) + 1 ELSE Rank(S, k - 1)
  <1>0. \A j \in S : j \in Int /\ 1 <= j /\ j <= L
    OBVIOUS
  <1>1. {j \in S : j <= 0} = {} /\ {j \in S : j <= L} = S
    <2>1. \A j \in S : ~(j <= 0)
      BY <1>0
    <2>2. {j \in S : j <= 0} = {}
      BY <2>1, Zenon
    <2>3. {j \in S : j <= L} = S
      BY <1>0, Zenon
    <2>4. QED
      BY <2>2, <2>3
  <1>2. Rank(S, 0) = 0 /\ Rank(S, L) = Cardinality(S)
    BY <1>1, FS_EmptySet DEF Rank
  <1>3. ASSUME NEW k \in 1 .. L
        PROVE  Rank(S, k) = IF k \in S THEN Rank(S, k - 1) + 1 ELSE Rank(S, k - 1)
    <2>1. PICK A, B : A = {j \in S : j <= k - 1} /\ B = {j \in S : j <= k}
      OBVIOUS
    <2>2. k \notin A /\ B = IF k \in S THEN A \cup {k} ELSE A
      <3>1. \A j : j \in A <=> j \in S /\ j <= k - 1
        BY <2>1
      <3>2. \A j : j \in B <=> j \in S /\ j <= k
        BY <2>1
      <3>3. \A j \in S : j <= k <=> j <= k - 1 \/ j = k
        BY <1>0
      <3>4. ~(k <= k - 1) /\ k <= k
        OBVIOUS
      <3>5. k \notin A
        BY <3>1, <3>4
      <3>6. CASE k \in S
        <4>1. \A j : j \in B <=> j \in A \cup {k}
          BY <3>1, <3>2, <3>3, <3>4, <3>6
        <4>2. B = A \cup {k}
          BY <4>1
        <4>3. QED
          BY <3>5, <3>6, <4>2
      <3>7. CASE k \notin S
        <4>1. \A j : j \in B <=> j \in A
          BY <3>1, <3>2, <3>3, <3>7
        <4>2. B = A
          BY <4>1
        <4>3. QED
          BY <3>5, <3>7, <4>2
      <3>8. QED
        BY <3>6, <3>7
    <2>3. IsFiniteSet(A)
      BY <2>1, PlacesFinite
    <2>4. Cardinality(A \cup {k}) = Cardinality(A) + 1
      BY <2>2, <2>3, FS_AddElement
    <2>5. QED
      BY <2>1, <2>2, <2>4 DEF Rank
  <1>4. QED
    BY <1>2, <1>3

\* Every number up to that of the places is the rank of exactly one of them.
LEMMA PlaceIs ==
  ASSUME NEW L \in Nat, NEW S \in SUBSET (1 .. L), NEW n \in 1 .. Cardinality(S)
  PROVE  Place(S, n) \in S /\ Rank(S, Place(S, n)) = n
  <1>1. /\ Cardinality(S) \in Nat /\ \A k : Rank(S, k) \in Nat
        /\ n \in Nat /\ n >= 1 /\ n <= Cardinality(S)
    <2>1. Cardinality(S) \in Nat /\ \A k : Rank(S, k) \in Nat
      BY PlacesFinite
    <2>2. QED
      BY <2>1
  <1>2. /\ Rank(S, 0) = 0 /\ Rank(S, L) = Cardinality(S)
        /\ \A k \in 1 .. L : Rank(S, k) = IF k \in S THEN Rank(S, k - 1) + 1 ELSE Rank(S, k - 1)
    BY RankStep
  <1> DEFINE W == {k \in 0 .. L : Rank(S, k) >= n}
  <1>3. W \in SUBSET Nat /\ L \in W
    BY <1>1, <1>2
  <1>4. PICK k \in W : \A m \in W : k <= m
    <2> HIDE DEF W
    <2>1. QED
      BY <1>3, LeastNumber
  <1>5. k \in 0 .. L /\ Rank(S, k) >= n
    BY <1>4
  <1>6. k # 0
    <2>1. Rank(S, 0) = 0 /\ ~(0 >= n)
      BY <1>1, <1>2
    <2>2. QED
      BY <1>5, <2>1
  <1>7. k - 1 \in 0 .. L /\ ~(k <= k - 1)
    BY <1>5, <1>6
  <1>8. ~(Rank(S, k - 1) >= n)
    BY <1>4, <1>7
  <1>9. Rank(S, k) = IF k \in S THEN Rank(S, k - 1) + 1 ELSE Rank(S, k - 1)
    <2>1. k \in 1 .. L
      BY <1>5, <1>6
    <2>2. QED
      BY <1>2, <2>1
  <1>10. k \in S /\ Rank(S, k) = n
    <2>1. PICK a \in Nat, b \in Nat : a = Rank(S, k) /\ b = Rank(S, k - 1)
      BY <1>1
    <2>2. a >= n /\ ~(b >= n) /\ a = IF k \in S THEN b + 1 ELSE b
      BY <1>5, <1>8, <1>9, <2>1
    <2>3. QED
      BY <1>1, <2>1, <2>2
  <1>11. QED
    BY <1>10 DEF Place

LEMMA RankGrows ==
  ASSUME NEW L \in Nat, NEW S \in SUBSET (1 .. L), NEW j \in S, NEW k \in S, j < k
  PROVE  Rank(S, j) < Rank(S, k)
  <1>1. PICK A, B : A = {i \in S : i <= j} /\ B = {i \in S : i <= k}
    OBVIOUS
  <1>0. \A i \in S : i \in Int
    OBVIOUS
  <1>2. A \subseteq B \ {k} /\ k \in B
    <2>1. k \in Int /\ j \in Int /\ k <= k /\ ~(k <= j)
      BY <1>0
    <2>2. \A i \in S : i <= j => i <= k
      BY <1>0, <2>1
    <2>3. QED
      BY <1>1, <2>1, <2>2
  <1>3. IsFiniteSet(B) /\ Cardinality(B) \in Nat /\ Cardinality(A) \in Nat
    BY <1>1, PlacesFinite DEF Rank
  <1>4. Cardinality(B \ {k}) = Cardinality(B) - 1 /\ IsFiniteSet(B \ {k})
    BY <1>2, <1>3, FS_RemoveElement
  <1>5. Cardinality(A) <= Cardinality(B \ {k})
    BY <1>2, <1>4, FS_Subset
  <1>6. QED
    BY <1>1, <1>3, <1>4, <1>5 DEF Rank

\* Places in order name the rows of S, each once.
LEMMA PlacesAre ==
  ASSUME NEW L \in Nat, NEW S \in SUBSET (1 .. L)
  PROVE  /\ \A n \in 1 .. Cardinality(S) : Place(S, n) \in S
         /\ \A m, n \in 1 .. Cardinality(S) : Place(S, m) = Place(S, n) => m = n
         /\ \A k \in S : Rank(S, k) \in 1 .. Cardinality(S) /\ Place(S, Rank(S, k)) = k
  <1>1. \A n \in 1 .. Cardinality(S) : Place(S, n) \in S /\ Rank(S, Place(S, n)) = n
    BY PlaceIs
  <1>2. ASSUME NEW k \in S
        PROVE  Rank(S, k) \in 1 .. Cardinality(S) /\ Place(S, Rank(S, k)) = k
    <2>1. PICK r \in Nat : r = Rank(S, k)
      BY PlacesFinite
    <2>2. PICK A : A = {j \in S : j <= k}
      OBVIOUS
    <2>3. A \subseteq S /\ k \in A /\ IsFiniteSet(A) /\ IsFiniteSet(S) /\ Cardinality(A) = r
      BY <2>1, <2>2, PlacesFinite DEF Rank
    <2>4. r <= Cardinality(S) /\ Cardinality(S) \in Nat
      BY <2>3, FS_Subset, PlacesFinite
    <2>5. r # 0
      BY <2>3, FS_EmptySet
    <2>6. r \in 1 .. Cardinality(S)
      BY <2>4, <2>5
    <2>7. PICK p \in S : p = Place(S, r) /\ Rank(S, p) = r
      BY <1>1, <2>6
    <2>8. ~(p < k) /\ ~(k < p)
      <3>1. p < k => Rank(S, p) < Rank(S, k)
        BY RankGrows
      <3>2. k < p => Rank(S, k) < Rank(S, p)
        BY RankGrows
      <3>3. QED
        BY <2>1, <2>7, <3>1, <3>2
    <2>9. QED
      BY <2>1, <2>6, <2>7, <2>8
  <1>3. QED
    BY <1>1, <1>2

LEMMA PickedIs ==
  ASSUME NEW T, NEW l \in Seq(T), NEW S \in SUBSET DOMAIN l
  PROVE  /\ Picked(l, S) \in Seq(T) /\ Len(Picked(l, S)) = Cardinality(S) /\ Cardinality(S) \in Nat
         /\ \A n \in 1 .. Cardinality(S) : Place(S, n) \in S /\ Picked(l, S)[n] = l[Place(S, n)]
  <1>1. Len(l) \in Nat /\ DOMAIN l = 1 .. Len(l) /\ \A k \in DOMAIN l : l[k] \in T
    OBVIOUS
  <1>2. Cardinality(S) \in Nat /\ \A n \in 1 .. Cardinality(S) : Place(S, n) \in S
    BY <1>1, PlacesFinite, PlacesAre
  <1>3. Picked(l, S) = [n \in 1 .. Cardinality(S) |-> l[Place(S, n)]]
    BY DEF Picked, Place, Rank
  <1>4. \A n \in 1 .. Cardinality(S) : l[Place(S, n)] \in T
    BY <1>1, <1>2
  <1>5. QED
    BY <1>2, <1>3, <1>4

----------------------------------------------------------------------------------
(* Postings, and what they put on a set of accounts. *)

Row == [account : Accounts, amount : Int, code : Codes \cup {NoCode}]

LegRow == [account : Accounts, amount : Int, code : Codes \cup {NoCode}, vat : Int]

On(S, leg) == IF leg.account \in S THEN leg.amount ELSE 0

OnOf(S, l) == [k \in DOMAIN l |-> On(S, l[k])]

OnLegs(S, l) == SumOf(OnOf(S, l))

Uncoded(l) == \A k \in DOMAIN l : l[k].code = NoCode

Touches(l, S) == \E k \in DOMAIN l : l[k].account \in S

LEMMA FunctionsAreLists ==
  ASSUME NEW T, NEW n \in Nat, NEW f \in [1 .. n -> T]
  PROVE  f \in Seq(T) /\ Len(f) = n
  OBVIOUS

LEMMA OnTyped ==
  ASSUME NEW l \in Seq(LegRow), NEW S
  PROVE  /\ DOMAIN l = 1 .. Len(l) /\ Len(l) \in Nat
         /\ OnOf(S, l) \in Seq(Int) /\ Len(OnOf(S, l)) = Len(l)
         /\ OnLegs(S, l) \in Int
  <1>1. DOMAIN l = 1 .. Len(l) /\ Len(l) \in Nat /\ \A k \in DOMAIN l : l[k] \in LegRow
    OBVIOUS
  <1>2. OnOf(S, l) \in [1 .. Len(l) -> Int]
    BY <1>1 DEF OnOf, On, LegRow
  <1>3. OnOf(S, l) \in Seq(Int) /\ Len(OnOf(S, l)) = Len(l)
    BY <1>1, <1>2, FunctionsAreLists
  <1>4. QED
    BY <1>1, <1>3, ListTyped DEF OnLegs

\* Of two lists one after the other.
LEMMA JoinedIs ==
  ASSUME NEW T, NEW l \in Seq(T), NEW m \in Seq(T)
  PROVE  /\ Len(l) \in Nat /\ Len(m) \in Nat
         /\ l \o m \in Seq(T) /\ DOMAIN (l \o m) = 1 .. (Len(l) + Len(m))
         /\ \A k \in DOMAIN l : k \in DOMAIN (l \o m) /\ (l \o m)[k] = l[k]
         /\ \A k \in DOMAIN m : Len(l) + k \in DOMAIN (l \o m) /\ (l \o m)[Len(l) + k] = m[k]
         /\ \A k \in DOMAIN (l \o m) : \/ k \in DOMAIN l /\ (l \o m)[k] = l[k]
                                       \/ k - Len(l) \in DOMAIN m /\ (l \o m)[k] = m[k - Len(l)]
  <1>1. Len(l) \in Nat /\ Len(m) \in Nat /\ DOMAIN l = 1 .. Len(l) /\ DOMAIN m = 1 .. Len(m)
    OBVIOUS
  <1>2. l \o m \in Seq(T) /\ DOMAIN (l \o m) = 1 .. (Len(l) + Len(m))
    OBVIOUS
  <1>3. \A k \in DOMAIN l : k \in DOMAIN (l \o m) /\ (l \o m)[k] = l[k]
    BY <1>1, <1>2
  <1>4. \A k \in DOMAIN m : Len(l) + k \in DOMAIN (l \o m) /\ (l \o m)[Len(l) + k] = m[k]
    BY <1>1, <1>2
  <1>5. \A k \in DOMAIN (l \o m) : \/ k \in DOMAIN l /\ (l \o m)[k] = l[k]
                                   \/ k - Len(l) \in DOMAIN m /\ (l \o m)[k] = m[k - Len(l)]
    BY <1>1, <1>2
  <1>6. QED
    BY <1>1, <1>2, <1>3, <1>4, <1>5

LEMMA OnConcat ==
  ASSUME NEW l \in Seq(LegRow), NEW m \in Seq(LegRow), NEW S
  PROVE  OnLegs(S, l \o m) = OnLegs(S, l) + OnLegs(S, m)
  <1>1. PICK c, f, g, h : c = l \o m /\ f = OnOf(S, l) /\ g = OnOf(S, m) /\ h = f \o g
    OBVIOUS
  <1>2. /\ c \in Seq(LegRow) /\ DOMAIN c = 1 .. (Len(l) + Len(m)) /\ Len(l) \in Nat /\ Len(m) \in Nat
        /\ \A k \in DOMAIN c : \/ k \in DOMAIN l /\ c[k] = l[k]
                               \/ k - Len(l) \in DOMAIN m /\ c[k] = m[k - Len(l)]
    BY <1>1, JoinedIs
  <1>3. f \in Seq(Int) /\ g \in Seq(Int) /\ Len(f) = Len(l) /\ Len(g) = Len(m)
    BY <1>1, OnTyped
  <1>4. /\ h \in Seq(Int) /\ DOMAIN h = 1 .. (Len(l) + Len(m))
        /\ \A k \in DOMAIN f : h[k] = f[k]
        /\ \A k \in DOMAIN g : h[Len(l) + k] = g[k]
    <2>1. /\ h \in Seq(Int) /\ DOMAIN h = 1 .. (Len(f) + Len(g))
          /\ \A k \in DOMAIN f : h[k] = f[k]
          /\ \A k \in DOMAIN g : h[Len(f) + k] = g[k]
      <3>1. f \in Seq(Int) /\ g \in Seq(Int)
        BY <1>3
      <3>2. f \o g \in Seq(Int) /\ DOMAIN (f \o g) = 1 .. (Len(f) + Len(g))
        BY <3>1, JoinedIs
      <3>3. \A k \in DOMAIN f : (f \o g)[k] = f[k]
        BY <3>1, JoinedIs
      <3>4. \A k \in DOMAIN g : (f \o g)[Len(f) + k] = g[k]
        BY <3>1, JoinedIs
      <3>5. /\ f \o g \in Seq(Int) /\ DOMAIN (f \o g) = 1 .. (Len(f) + Len(g))
            /\ \A k \in DOMAIN f : (f \o g)[k] = f[k]
            /\ \A k \in DOMAIN g : (f \o g)[Len(f) + k] = g[k]
        BY <3>2, <3>3, <3>4
      <3>6. QED
        BY <1>1, <3>5, Zenon
    <2>2. QED
      BY <1>3, <2>1
  <1>5. \A k \in DOMAIN c : On(S, c[k]) = h[k]
    <2> SUFFICES ASSUME NEW k \in DOMAIN c
                 PROVE  On(S, c[k]) = h[k]
      OBVIOUS
    <2>1. CASE k \in DOMAIN l /\ c[k] = l[k]
      <3>1. f[k] = On(S, l[k]) /\ k \in DOMAIN f
        BY <1>1, <2>1 DEF OnOf
      <3>2. QED
        BY <1>4, <2>1, <3>1
    <2>2. CASE k - Len(l) \in DOMAIN m /\ c[k] = m[k - Len(l)]
      <3>1. g[k - Len(l)] = On(S, m[k - Len(l)]) /\ k - Len(l) \in DOMAIN g
        BY <1>1, <2>2 DEF OnOf
      <3>2. k = Len(l) + (k - Len(l))
        BY <1>2
      <3>3. QED
        BY <1>4, <2>2, <3>1, <3>2
    <2>3. QED
      BY <1>2, <2>1, <2>2
  <1>6. OnOf(S, c) = h
    <2>1. h = [k \in DOMAIN h |-> h[k]]
      BY <1>4
    <2>2. QED
      BY <1>2, <1>4, <1>5, <2>1 DEF OnOf
  <1>7. SumOf(h) = SumOf(f) + SumOf(g)
    BY <1>1, <1>3, SumConcat
  <1>8. QED
    BY <1>1, <1>6, <1>7 DEF OnLegs

LEMMA LegIs ==
  ASSUME NEW a \in Accounts, NEW x \in Int, NEW S
  PROVE  /\ Leg(a, x) \in Seq(LegRow) /\ Uncoded(Leg(a, x))
         /\ OnLegs(S, Leg(a, x)) = IF a \in S THEN x ELSE 0
         /\ x # 0 /\ a \in S => Touches(Leg(a, x), S)
  <1>1. CASE x = 0
    <2>1. Leg(a, x) = << >>
      BY <1>1 DEF Leg
    <2>2. OnOf(S, << >>) = << >>
      BY DEF OnOf
    <2>3. OnLegs(S, << >>) = 0
      BY <2>2, SumNone DEF OnLegs
    <2>4. << >> \in Seq(LegRow) /\ Uncoded(<< >>)
      BY DEF Uncoded
    <2>5. QED
      BY <1>1, <2>1, <2>3, <2>4
  <1>2. CASE x # 0
    <2>1. PICK p \in LegRow : p = [account |-> a, amount |-> x, code |-> NoCode, vat |-> 0]
      <3>1. [account |-> a, amount |-> x, code |-> NoCode, vat |-> 0] \in LegRow
        BY DEF LegRow
      <3>2. QED
        BY <3>1
    <2>2. PICK l : l = <<p>>
      OBVIOUS
    <2>3. Leg(a, x) = l
      BY <1>2, <2>1, <2>2 DEF Leg
    <2>4. l \in Seq(LegRow) /\ DOMAIN l = {1} /\ l[1] = p
      BY <2>2
    <2>5. PICK y \in Int : y = On(S, p) /\ y = IF a \in S THEN x ELSE 0
      BY <2>1 DEF On
    <2>6. OnOf(S, l) = <<y>>
      <3>1. OnOf(S, l) = [k \in {1} |-> y]
        BY <2>4, <2>5 DEF OnOf
      <3>2. {1} = 1 .. 1
        OBVIOUS
      <3>3. <<y>> \in [1 .. 1 -> Int] /\ <<y>>[1] = y
        OBVIOUS
      <3>4. QED
        BY <3>1, <3>2, <3>3
    <2>7. OnLegs(S, l) = y
      BY <2>6, SumSingle DEF OnLegs
    <2>8. Uncoded(l) /\ (a \in S => Touches(l, S))
      BY <2>1, <2>4 DEF Uncoded, Touches
    <2>9. QED
      BY <2>3, <2>4, <2>5, <2>7, <2>8
  <1>3. QED
    BY <1>1, <1>2

LEMMA JoinedSame ==
  ASSUME NEW l \in Seq(LegRow), NEW m \in Seq(LegRow), NEW S
  PROVE  /\ Uncoded(l) /\ Uncoded(m) => Uncoded(l \o m)
         /\ Touches(l, S) \/ Touches(m, S) <=> Touches(l \o m, S)
  <1>1. /\ \A k \in DOMAIN l : k \in DOMAIN (l \o m) /\ (l \o m)[k] = l[k]
        /\ \A k \in DOMAIN m : Len(l) + k \in DOMAIN (l \o m) /\ (l \o m)[Len(l) + k] = m[k]
        /\ \A k \in DOMAIN (l \o m) : \/ k \in DOMAIN l /\ (l \o m)[k] = l[k]
                                      \/ k - Len(l) \in DOMAIN m /\ (l \o m)[k] = m[k - Len(l)]
    BY JoinedIs
  <1>2. ASSUME Uncoded(l), Uncoded(m)
        PROVE  Uncoded(l \o m)
    <2> SUFFICES ASSUME NEW k \in DOMAIN (l \o m)
                 PROVE  (l \o m)[k].code = NoCode
      BY DEF Uncoded
    <2>1. CASE k \in DOMAIN l /\ (l \o m)[k] = l[k]
      BY <1>2, <2>1, Zenon DEF Uncoded
    <2>2. CASE k - Len(l) \in DOMAIN m /\ (l \o m)[k] = m[k - Len(l)]
      BY <1>2, <2>2, Zenon DEF Uncoded
    <2>3. QED
      BY <1>1, <2>1, <2>2, Zenon
  <1>3. Touches(l, S) => Touches(l \o m, S)
    BY <1>1, Zenon DEF Touches
  <1>4. Touches(m, S) => Touches(l \o m, S)
    BY <1>1, Zenon DEF Touches
  <1>5. Touches(l \o m, S) => Touches(l, S) \/ Touches(m, S)
    BY <1>1, Zenon DEF Touches
  <1>6. QED
    BY <1>2, <1>3, <1>4, <1>5

ThreeLegs(a, x, b, y, c, z) == Leg(a, x) \o Leg(b, y) \o Leg(c, z)

LEMMA ThreeLegsAre ==
  ASSUME NEW a \in Accounts, NEW b \in Accounts, NEW c \in Accounts,
         NEW x \in Int, NEW y \in Int, NEW z \in Int, NEW S
  PROVE  /\ ThreeLegs(a, x, b, y, c, z) \in Seq(LegRow) /\ Uncoded(ThreeLegs(a, x, b, y, c, z))
         /\ OnLegs(S, ThreeLegs(a, x, b, y, c, z)) = (IF a \in S THEN x ELSE 0) + (IF b \in S THEN y ELSE 0)
                                                     + (IF c \in S THEN z ELSE 0)
         /\ (x # 0 /\ a \in S) \/ (z # 0 /\ c \in S) => Touches(ThreeLegs(a, x, b, y, c, z), S)
  <1>1. PICK l \in Seq(LegRow), m \in Seq(LegRow), n \in Seq(LegRow) :
          l = Leg(a, x) /\ m = Leg(b, y) /\ n = Leg(c, z)
    BY LegIs
  <1>2. /\ Uncoded(l) /\ Uncoded(m) /\ Uncoded(n)
        /\ OnLegs(S, l) = IF a \in S THEN x ELSE 0
        /\ OnLegs(S, m) = IF b \in S THEN y ELSE 0
        /\ OnLegs(S, n) = IF c \in S THEN z ELSE 0
        /\ x # 0 /\ a \in S => Touches(l, S)
        /\ z # 0 /\ c \in S => Touches(n, S)
    BY <1>1, LegIs
  <1>3. PICK j \in Seq(LegRow) : j = l \o m
    BY JoinedIs
  <1>4. j \o n \in Seq(LegRow) /\ ThreeLegs(a, x, b, y, c, z) = j \o n
    BY <1>1, <1>3, JoinedIs DEF ThreeLegs
  <1>5. Uncoded(j \o n) /\ (Touches(l, S) \/ Touches(n, S) => Touches(j \o n, S))
    BY <1>2, <1>3, JoinedSame
  <1>6. OnLegs(S, j \o n) = OnLegs(S, j) + OnLegs(S, n) /\ OnLegs(S, j) = OnLegs(S, l) + OnLegs(S, m)
    <2>1. OnLegs(S, l \o m) = OnLegs(S, l) + OnLegs(S, m)
      BY OnConcat, Zenon
    <2>2. OnLegs(S, j \o n) = OnLegs(S, j) + OnLegs(S, n)
      BY OnConcat, Zenon
    <2>3. QED
      BY <1>3, <2>1, <2>2
  <1>7. QED
    BY <1>2, <1>4, <1>5, <1>6


LEMMA OnThree ==
  ASSUME NEW a \in Accounts, NEW b \in Accounts, NEW c \in Accounts,
         NEW x \in Int, NEW y \in Int, NEW z \in Int, NEW S
  PROVE  OnLegs(S, ThreeLegs(a, x, b, y, c, z)) =
           (IF a \in S THEN x ELSE 0) + (IF b \in S THEN y ELSE 0) + (IF c \in S THEN z ELSE 0)
  BY ThreeLegsAre

LEMMA ThreeLegsTyped ==
  ASSUME NEW a \in Accounts, NEW b \in Accounts, NEW c \in Accounts,
         NEW x \in Int, NEW y \in Int, NEW z \in Int
  PROVE  ThreeLegs(a, x, b, y, c, z) \in Seq(LegRow)
  BY ThreeLegsAre

----------------------------------------------------------------------------------
(* What is booked, and what a return says. *)

LEMMA PercentageTyped ==
  ASSUME NEW rate \in Nat, NEW x \in Int
  PROVE  Percentage(rate, x) \in Int
  <1>1. PICK a \in Nat : a = Abs(x)
    BY DEF Abs
  <1>2. 2 * rate * a + 10000 \in Int
    OBVIOUS
  <1>3. PICK b \in Int : b = 2 * rate * a + 10000
    BY <1>2
  <1>4. b \div 20000 \in Int
    OBVIOUS
  <1>5. QED
    BY <1>1, <1>3, <1>4 DEF Percentage

LEMMA VatTyped ==
  ASSUME NEW s \in Row, s.code \in Codes
  PROVE  VatOf(s) \in Int
  <1>1. Effective(s.code) \in Nat /\ s.amount \in Int
    BY VatAssumption DEF Effective, Row
  <1>2. PICK p \in Int : p = Percentage(Effective(s.code), s.amount)
    BY <1>1, PercentageTyped
  <1>3. -p \in Int /\ p * Sign(s.amount) \in Int
    <2>1. PICK g \in Int : g = Sign(s.amount)
      BY DEF Sign
    <2>2. p * g \in Int
      OBVIOUS
    <2>3. QED
      BY <2>1, <2>2
  <1>4. QED
    BY <1>2, <1>3 DEF VatOf

UserLegs(l) == [k \in DOMAIN l |-> [account |-> l[k].account, amount |-> l[k].amount, code |-> NoCode, vat |-> 0]]

Paying(l) == {k \in DOMAIN l : HasLeg(l[k])}

VatLeg(s) == [account |-> ClearingOf(s), amount |-> VatOf(s), code |-> NoCode, vat |-> 0]

VatLegs(l) == [n \in DOMAIN Picked(l, Paying(l)) |-> VatLeg(Picked(l, Paying(l))[n])]

AllLegs(l) == UserLegs(l) \o VatLegs(l)

Surplus(l) == SumOf([k \in DOMAIN AllLegs(l) |-> AllLegs(l)[k].amount])

LEMMA ExpandIs ==
  ASSUME NEW l
  PROVE  Expand(l) = [k \in DOMAIN AllLegs(l) |->
                        IF k \in Absorber(l) THEN [AllLegs(l)[k] EXCEPT !.amount = @ - Surplus(l)] ELSE AllLegs(l)[k]]
  BY DEF Expand, AllLegs, UserLegs, VatLegs, VatLeg, Paying, Surplus

LEMMA LegsTyped ==
  ASSUME NEW l \in Seq(Row)
  PROVE  /\ Len(l) \in Nat /\ DOMAIN l = 1 .. Len(l)
         /\ UserLegs(l) \in Seq(LegRow) /\ Len(UserLegs(l)) = Len(l)
         /\ Picked(l, Paying(l)) \in Seq(Row)
         /\ VatLegs(l) \in Seq(LegRow) /\ Len(VatLegs(l)) = Cardinality(Paying(l)) /\ Cardinality(Paying(l)) \in Nat
         /\ AllLegs(l) \in Seq(LegRow) /\ Surplus(l) \in Int
  <1>1. Len(l) \in Nat /\ DOMAIN l = 1 .. Len(l) /\ \A k \in DOMAIN l : l[k] \in Row
    OBVIOUS
  <1>2. UserLegs(l) \in [1 .. Len(l) -> LegRow]
    BY <1>1 DEF UserLegs, Row, LegRow
  <1>3. UserLegs(l) \in Seq(LegRow) /\ Len(UserLegs(l)) = Len(l)
    BY <1>1, <1>2, FunctionsAreLists
  <1>4. Paying(l) \in SUBSET DOMAIN l
    BY DEF Paying
  <1>5. PICK p \in Seq(Row) : /\ p = Picked(l, Paying(l)) /\ Len(p) = Cardinality(Paying(l)) /\ Len(p) \in Nat
                              /\ \A n \in 1 .. Len(p) : \E k \in Paying(l) : p[n] = l[k]
    <2>1. /\ Picked(l, Paying(l)) \in Seq(Row) /\ Len(Picked(l, Paying(l))) = Cardinality(Paying(l))
          /\ Cardinality(Paying(l)) \in Nat
          /\ \A n \in 1 .. Cardinality(Paying(l)) :
               Place(Paying(l), n) \in Paying(l) /\ Picked(l, Paying(l))[n] = l[Place(Paying(l), n)]
      BY <1>4, PickedIs
    <2>2. QED
      BY <2>1
  <1>6. \A n \in 1 .. Len(p) : VatLeg(p[n]) \in LegRow
    <2> SUFFICES ASSUME NEW n \in 1 .. Len(p)
                 PROVE  VatLeg(p[n]) \in LegRow
      OBVIOUS
    <2>1. PICK s \in Row : s = p[n] /\ s.code \in Codes
      <3>1. PICK k \in Paying(l) : p[n] = l[k]
        BY <1>5
      <3>2. l[k] \in Row /\ l[k].code # NoCode
        BY <1>1 DEF Paying, HasLeg
      <3>3. QED
        BY <3>1, <3>2 DEF Row
    <2>2. VatOf(s) \in Int /\ ClearingOf(s) \in Accounts
      BY <2>1, VatTyped, VatAssumption DEF ClearingOf
    <2>3. QED
      BY <2>1, <2>2 DEF VatLeg, LegRow
  <1>7. VatLegs(l) \in [1 .. Len(p) -> LegRow]
    BY <1>5, <1>6 DEF VatLegs
  <1>8. VatLegs(l) \in Seq(LegRow) /\ Len(VatLegs(l)) = Len(p)
    BY <1>5, <1>7, FunctionsAreLists
  <1>9. PICK a \in Seq(LegRow) : a = AllLegs(l)
    BY <1>3, <1>8, JoinedIs DEF AllLegs
  <1>10. Len(a) \in Nat /\ DOMAIN a = 1 .. Len(a) /\ \A k \in DOMAIN a : a[k].amount \in Int
    <2>1. Len(a) \in Nat /\ DOMAIN a = 1 .. Len(a) /\ \A k \in DOMAIN a : a[k] \in LegRow
      OBVIOUS
    <2>2. \A r \in LegRow : r.amount \in Int
      BY DEF LegRow
    <2>3. QED
      BY <2>1, <2>2
  <1>11. [k \in DOMAIN a |-> a[k].amount] \in Seq(Int)
    BY <1>10, FunctionsAreLists
  <1>12. Surplus(l) \in Int
    BY <1>9, <1>11, ListTyped DEF Surplus
  <1>13. QED
    BY <1>1, <1>3, <1>5, <1>8, <1>9, <1>12

LEMMA ExpandTyped ==
  ASSUME NEW l \in Seq(Row)
  PROVE  Expand(l) \in Seq(LegRow)
  <1>1. PICK a \in Seq(LegRow), x \in Int : a = AllLegs(l) /\ x = Surplus(l)
    BY LegsTyped
  <1>2. Len(a) \in Nat /\ DOMAIN a = 1 .. Len(a) /\ \A k \in DOMAIN a : a[k] \in LegRow
    OBVIOUS
  <1>3. \A k \in DOMAIN a : [a[k] EXCEPT !.amount = @ - x] \in LegRow
    <2>1. \A p \in LegRow : [p EXCEPT !.amount = @ - x] \in LegRow
      BY DEF LegRow
    <2>2. QED
      BY <1>2, <2>1
  <1>4. Expand(l) = [k \in DOMAIN a |-> IF k \in Absorber(l) THEN [a[k] EXCEPT !.amount = @ - x] ELSE a[k]]
    BY <1>1, ExpandIs
  <1>5. Expand(l) \in [1 .. Len(a) -> LegRow]
    BY <1>2, <1>3, <1>4
  <1>6. QED
    BY <1>2, <1>5, FunctionsAreLists


LEMMA FieldsTyped ==
  ASSUME NEW leg \in LegRow
  PROVE  /\ Owed(leg) \in Int /\ Shifted(leg) \in Int /\ Deducted(leg) \in Int /\ Base(leg) \in Int
  <1>1. leg.amount \in Int /\ leg.vat \in Int
    BY DEF LegRow
  <1>2. Owed(leg) \in Int /\ Shifted(leg) \in Int
    BY <1>1 DEF Owed, Shifted
  <1>3. Deducted(leg) \in Int
    BY <1>1, <1>2 DEF Deducted
  <1>4. Base(leg) \in Int
    <2>1. Abs(leg.amount) \in Int
      BY <1>1 DEF Abs
    <2>2. QED
      BY <1>1, <2>1 DEF Base
  <1>5. QED
    BY <1>2, <1>3, <1>4

LEMMA EntryIs ==
  ASSUME NEW row \in EntryRow
  PROVE  /\ row.state \in {"draft", "posted"} /\ row.ref \in Commands
         /\ row.postings.legs \in Seq(LegRow) /\ row.postings.period \in Periods
  BY DEF EntryRow, LegRow

LEMMA ReportedIs ==
  ASSUME entries \in Seq(EntryRow), NEW p
  PROVE  /\ IsFiniteSet(Ids) /\ IsFiniteSet(Reported(p))
         /\ \A r \in Reported(p) : LegAt(r) \in LegRow
  <1>1. IsFiniteSet(Ids) /\ \A i \in Ids : entries[i] \in EntryRow
    <2>1. Len(entries) \in Nat /\ DOMAIN entries = 1 .. Len(entries) /\ \A i \in DOMAIN entries : entries[i] \in EntryRow
      OBVIOUS
    <2>2. IsFiniteSet(1 .. Len(entries))
      BY <2>1, FS_Interval
    <2>3. QED
      BY <2>1, <2>2 DEF Ids
  <1>2. PICK T : T = {i \in Ids : IsPosted(i) /\ entries[i].postings.period = p}
    OBVIOUS
  <1>3. T \subseteq Ids /\ IsFiniteSet(T)
    BY <1>1, <1>2, FS_Subset
  <1>4. PICK f : f = [i \in T |-> {<<i, k>> : k \in DOMAIN entries[i].postings.legs}]
    OBVIOUS
  <1>5. ASSUME NEW i \in T
        PROVE  IsFiniteSet(f[i])
    <2>1. PICK l \in Seq(LegRow) : l = entries[i].postings.legs
      BY <1>1, <1>3, EntryIs
    <2>2. IsFiniteSet(DOMAIN l)
      <3>1. Len(l) \in Nat /\ DOMAIN l = 1 .. Len(l)
        OBVIOUS
      <3>2. QED
        BY <3>1, FS_Interval
    <2>3. PICK D, g : D = DOMAIN l /\ g = [k \in D |-> <<i, k>>]
      OBVIOUS
    <2>4. IsFiniteSet({g[k] : k \in D})
      <3>1. IsFiniteSet(D)
        BY <2>2, <2>3
      <3>2. QED
        BY <3>1, FiniteImage, Zenon
    <2>5. f[i] = {g[k] : k \in D}
      BY <1>4, <2>1, <2>3
    <2>6. QED
      BY <2>4, <2>5
  <1>6. IsFiniteSet(UNION {f[i] : i \in T})
    BY <1>3, <1>5, FiniteUnion
  <1>7. PICK U : U = UNION {f[i] : i \in T}
    OBVIOUS
  <1>8. Reported(p) = {r \in U : LegAt(r).code # NoCode /\ LegAt(r).account \notin Clearing}
    BY <1>2, <1>4, <1>7 DEF Reported, LegAt
  <1>9. IsFiniteSet(Reported(p))
    <2>1. Reported(p) \subseteq U
      BY <1>8
    <2>2. QED
      BY <1>6, <1>7, <2>1, FS_Subset
  <1>10. ASSUME NEW r \in Reported(p)
         PROVE  LegAt(r) \in LegRow
    <2>1. PICK i \in T : r \in f[i]
      BY <1>7, <1>8
    <2>2. PICK k \in DOMAIN entries[i].postings.legs : r = <<i, k>>
      BY <1>4, <2>1
    <2>3. PICK l \in Seq(LegRow) : l = entries[i].postings.legs
      BY <1>1, <1>3, EntryIs
    <2>4. LegAt(r) = l[k] /\ k \in DOMAIN l
      BY <2>2, <2>3 DEF LegAt
    <2>5. QED
      BY <2>4
  <1>11. QED
    BY <1>1, <1>9, <1>10

LEMMA ReadoutTyped ==
  ASSUME entries \in Seq(EntryRow), NEW p
  PROVE  Readout(p) \in [Fields -> Int]
  <1>1. PICK R : R = Reported(p) /\ IsFiniteSet(R) /\ \A r \in R : LegAt(r) \in LegRow
    BY ReportedIs
  <1>2. \A r \in R : Owed(LegAt(r)) + Shifted(LegAt(r)) - Deducted(LegAt(r)) \in Int /\ Base(LegAt(r)) \in Int
    BY <1>1, FieldsTyped
  <1>3. SumOf([r \in R |-> Owed(LegAt(r)) + Shifted(LegAt(r)) - Deducted(LegAt(r))]) \in Int
    <2>1. [r \in R |-> Owed(LegAt(r)) + Shifted(LegAt(r)) - Deducted(LegAt(r))] \in [R -> Int]
      BY <1>2
    <2>2. QED
      BY <1>1, <2>1, SumTyped
  <1>4. ASSUME NEW f \in Fields
        PROVE  SumOf([r \in {r \in R : BaseField(LegAt(r)) = f} |-> Base(LegAt(r))]) \in Int
    <2>1. PICK Q : Q = {r \in R : BaseField(LegAt(r)) = f}
      OBVIOUS
    <2>2. Q \subseteq R /\ IsFiniteSet(Q)
      BY <1>1, <2>1, FS_Subset
    <2>3. [r \in Q |-> Base(LegAt(r))] \in [Q -> Int]
      BY <1>2, <2>2
    <2>4. SumOf([r \in Q |-> Base(LegAt(r))]) \in Int
      BY <2>2, <2>3, SumTyped
    <2>5. QED
      BY <2>1, <2>4
  <1>5. QED
    BY <1>1, <1>3, <1>4 DEF Readout

----------------------------------------------------------------------------------
(* The invariant.  Besides its types it says what a process that holds an  *)
(* entry knows about it, and that no two of them hold the same one.        *)

Places == Readers \cup {"idle", "tag", "post", "store"}

Holding == {"tag", "post", "file_post", "settle_post", "settle_mark"}

Moving == {"file_account", "file_create", "file_post"}

TaggedRow == [account : Accounts, amount : Int, code : Codes]

JobRow == [at : Places, entry : Nat, specs : Seq(TaggedRow), next : Nat, post : BOOLEAN, period : Periods,
           fields : [Fields -> Int], account : Accounts, input : Int, output : Int, line : Lines \cup {0}]

Origin(j) ==
  IF j.at \in {"tag", "post"} THEN <<"book", 0>> ELSE IF j.at = "file_post" THEN <<"file", 0>> ELSE <<"settle", j.line>>

JobOK(j) ==
  /\ j \in JobRow
  /\ j.at \in Settling <=> j.line # 0
  /\ j.at = "tag" => j.next \in 1 .. Len(j.specs) + 1
  /\ j.at \in Moving \cup Settling => \E k \in DOMAIN Settlement : j.account = Settlement[k]
  /\ j.at \in Moving => j.input + j.output # 0
  /\ j.at \in {"settle_create", "settle_post"} => j.input # 0

Matching(l, s) == {k \in DOMAIN l : l[k].account = s.account /\ l[k].amount = s.amount}

\* e: the journal.
HoldOK(e, j) ==
  /\ j.at \in Holding => j.entry \in DOMAIN e /\ e[j.entry].ref = Origin(j)
  /\ j.at = "tag" => \A m \in DOMAIN j.specs : Matching(e[j.entry].postings.legs, j.specs[m]) # {}
  /\ j.at = "settle_mark" => e[j.entry].state = "posted"
  /\ j.at = "file_post" => e[j.entry].postings.legs = Filing(j)
  /\ j.at = "settle_post" => e[j.entry].postings.legs = SettlementLegs(j)

Jobs ==
  /\ work \in [Workers -> JobRow]
  /\ \A w \in Workers : JobOK(work[w]) /\ HoldOK(entries, work[w])

Held ==
  \A v, w \in Workers :
    work[v].at \in Holding /\ work[w].at \in Holding /\ work[v].entry = work[w].entry => v = w

Tables ==
  /\ enabled \in BOOLEAN
  /\ chart \in [DOMAIN Settlement -> {"free", "vat", "other"}]
  /\ entries \in Seq(EntryRow)
  /\ DOMAIN returns \subseteq Periods
  /\ matched \subseteq Lines
  /\ loose \subseteq Ids /\ stale \subseteq Workers /\ crossed \subseteq Lines
  /\ bounds \in Scenarios

Off == ~enabled => entries = << >> /\ \A w \in Workers : work[w].at = "idle"

Known == Tables /\ Jobs /\ Held /\ Off

----------------------------------------------------------------------------------
(* Changes of the journal. *)

Booked == <<"book", 0>>

SameAmounts(l, m) ==
  /\ DOMAIN m = DOMAIN l
  /\ \A k \in DOMAIN l : m[k].account = l[k].account /\ m[k].amount = l[k].amount

\* What every step keeps of the entries there are.
Moves(e, f) ==
  \A i \in DOMAIN e :
    /\ i \in DOMAIN f /\ f[i].ref = e[i].ref
    /\ e[i].state = "posted" => f[i] = e[i]
    /\ e[i].ref # Booked => f[i].postings = e[i].postings
    /\ SameAmounts(e[i].postings.legs, f[i].postings.legs)

LEMMA MatchingKept ==
  ASSUME NEW l, NEW m, SameAmounts(l, m), NEW s
  PROVE  Matching(m, s) = Matching(l, s)
  BY DEF SameAmounts, Matching

LEMMA HoldKept ==
  ASSUME NEW e, NEW f, Moves(e, f), NEW j, HoldOK(e, j)
  PROVE  HoldOK(f, j)
  <1>1. CASE j.at \in Holding
    <2>1. PICK i : i = j.entry
      OBVIOUS
    <2>2. i \in DOMAIN e /\ e[i].ref = Origin(j)
      BY <1>1, <2>1 DEF HoldOK
    <2>3. /\ i \in DOMAIN f /\ f[i].ref = e[i].ref
          /\ e[i].state = "posted" => f[i] = e[i]
          /\ e[i].ref # Booked => f[i].postings = e[i].postings
          /\ SameAmounts(e[i].postings.legs, f[i].postings.legs)
      BY <2>2 DEF Moves
    <2>4. j.at \in {"file_post", "settle_post"} => Origin(j) # Booked
      BY DEF Origin, Booked
    <2>5. \A s : Matching(f[i].postings.legs, s) = Matching(e[i].postings.legs, s)
      BY <2>3, MatchingKept
    <2>6. QED
      BY <2>1, <2>2, <2>3, <2>4, <2>5 DEF HoldOK
  <1>2. CASE j.at \notin Holding
    BY <1>2 DEF HoldOK, Holding
  <1>3. QED
    BY <1>1, <1>2

LEMMA MovesNothing ==
  ASSUME NEW e
  PROVE  Moves(e, e)
  BY DEF Moves, SameAmounts

LEMMA AppendMoves ==
  ASSUME NEW e \in Seq(EntryRow), NEW row \in EntryRow
  PROVE  /\ Append(e, row) \in Seq(EntryRow) /\ Moves(e, Append(e, row))
         /\ Len(e) \in Nat /\ Len(e) + 1 \notin DOMAIN e
         /\ DOMAIN Append(e, row) = DOMAIN e \cup {Len(e) + 1}
         /\ Append(e, row)[Len(e) + 1] = row
         /\ \A i \in DOMAIN e : Append(e, row)[i] = e[i]
  <1>1. /\ Append(e, row) \in Seq(EntryRow)
        /\ Len(e) \in Nat /\ Len(e) + 1 \notin DOMAIN e
        /\ DOMAIN Append(e, row) = DOMAIN e \cup {Len(e) + 1}
        /\ Append(e, row)[Len(e) + 1] = row
        /\ \A i \in DOMAIN e : Append(e, row)[i] = e[i]
    OBVIOUS
  <1>2. Moves(e, Append(e, row))
    BY <1>1 DEF Moves, SameAmounts
  <1>3. QED
    BY <1>1, <1>2

Marked(e, i) == [e EXCEPT ![i].state = "posted"]

LEMMA PostMoves ==
  ASSUME NEW e \in Seq(EntryRow), NEW i \in DOMAIN e, e[i].state = "draft"
  PROVE  /\ Marked(e, i) \in Seq(EntryRow) /\ DOMAIN Marked(e, i) = DOMAIN e /\ Moves(e, Marked(e, i))
         /\ Marked(e, i)[i].state = "posted" /\ Marked(e, i)[i].postings = e[i].postings
         /\ Marked(e, i)[i].ref = e[i].ref
         /\ \A k \in DOMAIN e : k # i => Marked(e, i)[k] = e[k]
  <1>1. Len(e) \in Nat /\ DOMAIN e = 1 .. Len(e) /\ \A k \in DOMAIN e : e[k] \in EntryRow
    OBVIOUS
  <1>2. PICK q \in EntryRow : q = [e[i] EXCEPT !.state = "posted"]
    <2>1. PICK r \in EntryRow : r = e[i]
      BY <1>1
    <2>2. [r EXCEPT !.state = "posted"] \in EntryRow
      BY DEF EntryRow
    <2>3. QED
      BY <2>1, <2>2
  <1>3. q.state = "posted" /\ q.postings = e[i].postings /\ q.ref = e[i].ref
    <2>1. PICK r \in EntryRow : r = e[i]
      BY <1>1
    <2>2. q = [r EXCEPT !.state = "posted"]
      BY <1>2, <2>1
    <2>3. QED
      BY <2>1, <2>2 DEF EntryRow
  <1>4. /\ DOMAIN Marked(e, i) = DOMAIN e /\ Marked(e, i)[i] = q
        /\ \A k \in DOMAIN e : k # i => Marked(e, i)[k] = e[k]
    BY <1>2 DEF Marked
  <1>5. Marked(e, i) \in Seq(EntryRow)
    <2>1. Marked(e, i) \in [1 .. Len(e) -> EntryRow]
      BY <1>1, <1>4 DEF Marked
    <2>2. QED
      BY <1>1, <2>1, FunctionsAreLists
  <1>6. Moves(e, Marked(e, i))
    <2> SUFFICES ASSUME NEW k \in DOMAIN e
                 PROVE  /\ k \in DOMAIN Marked(e, i) /\ Marked(e, i)[k].ref = e[k].ref
                        /\ e[k].state = "posted" => Marked(e, i)[k] = e[k]
                        /\ Marked(e, i)[k].postings = e[k].postings
      BY DEF Moves, SameAmounts
    <2>1. CASE k = i
      BY <1>3, <1>4, <2>1
    <2>2. CASE k # i
      BY <1>4, <2>2
    <2>3. QED
      BY <2>1, <2>2
  <1>7. QED
    BY <1>3, <1>4, <1>5, <1>6

Coded(leg, s) == [leg EXCEPT !.code = s.code, !.vat = VatOf(s)]

Written(l, k, s) == [l EXCEPT ![k] = Coded(l[k], s)]

TaggedAt(e, i, k, s) == [e EXCEPT ![i].postings.legs[k] = [@ EXCEPT !.code = s.code, !.vat = VatOf(s)]]

MayTag(e, i, k, s) ==
  /\ e \in Seq(EntryRow) /\ i \in DOMAIN e /\ e[i].state = "draft" /\ e[i].ref = Booked
  /\ k \in DOMAIN e[i].postings.legs /\ s \in TaggedRow

\* The code is written on the posting at k of an entry that is a draft.
LEMMA TagMoves ==
  ASSUME NEW e, NEW i, NEW k, NEW s, MayTag(e, i, k, s)
  PROVE  /\ TaggedAt(e, i, k, s) \in Seq(EntryRow) /\ DOMAIN TaggedAt(e, i, k, s) = DOMAIN e
         /\ Moves(e, TaggedAt(e, i, k, s))
         /\ TaggedAt(e, i, k, s)[i].state = "draft" /\ TaggedAt(e, i, k, s)[i].ref = Booked
         /\ TaggedAt(e, i, k, s)[i].postings.legs = Written(e[i].postings.legs, k, s)
         /\ \A j \in DOMAIN e : j # i => TaggedAt(e, i, k, s)[j] = e[j]
  <1> USE DEF MayTag
  <1>1. Len(e) \in Nat /\ DOMAIN e = 1 .. Len(e) /\ \A j \in DOMAIN e : e[j] \in EntryRow
    OBVIOUS
  <1>2. PICK r \in EntryRow : r = e[i]
    BY <1>1
  <1>3. PICK l \in Seq(LegRow) : l = r.postings.legs
    BY EntryIs
  <1>4. k \in DOMAIN l /\ Len(l) \in Nat /\ DOMAIN l = 1 .. Len(l) /\ \A j \in DOMAIN l : l[j] \in LegRow
    BY <1>2, <1>3
  <1>5. PICK g \in LegRow : g = Coded(l[k], s)
    <2>1. PICK p \in LegRow : p = l[k]
      BY <1>4
    <2>2. PICK c \in Codes, v \in Int : c = s.code /\ v = VatOf(s)
      <3>1. s \in Row /\ s.code \in Codes
        BY DEF TaggedRow, Row
      <3>2. QED
        BY <3>1, VatTyped
    <2>3. [p EXCEPT !.code = c, !.vat = v] \in LegRow
      BY DEF LegRow
    <2>4. QED
      BY <2>1, <2>2, <2>3 DEF Coded
  <1>6. PICK m \in Seq(LegRow) : m = [l EXCEPT ![k] = g]
    <2>1. [l EXCEPT ![k] = g] \in [1 .. Len(l) -> LegRow]
      BY <1>4
    <2>2. QED
      BY <1>4, <2>1, FunctionsAreLists
  <1>7. PICK q \in EntryRow : q = [r EXCEPT !.postings.legs = m]
    <2>1. [r EXCEPT !.postings.legs = m] \in EntryRow
      BY DEF EntryRow, LegRow
    <2>2. QED
      BY <2>1
  <1>8. q.state = "draft" /\ q.ref = Booked /\ q.postings.legs = m
    BY <1>2, <1>7 DEF EntryRow
  <1>9. TaggedAt(e, i, k, s) = [e EXCEPT ![i] = q]
    BY <1>2, <1>3, <1>5, <1>6, <1>7 DEF TaggedAt, Coded
  <1>10. PICK f : f = TaggedAt(e, i, k, s)
    OBVIOUS
  <1>11. DOMAIN f = DOMAIN e /\ f[i] = q /\ \A j \in DOMAIN e : j # i => f[j] = e[j]
    BY <1>9, <1>10
  <1>12. f \in Seq(EntryRow)
    <2>1. f \in [1 .. Len(e) -> EntryRow]
      BY <1>1, <1>9, <1>10
    <2>2. QED
      BY <1>1, <2>1, FunctionsAreLists
  <1>13. Moves(e, f)
    <2> SUFFICES ASSUME NEW j \in DOMAIN e
                 PROVE  /\ j \in DOMAIN f /\ f[j].ref = e[j].ref
                        /\ e[j].state = "posted" => f[j] = e[j]
                        /\ e[j].ref # Booked => f[j].postings = e[j].postings
                        /\ SameAmounts(e[j].postings.legs, f[j].postings.legs)
      BY DEF Moves
    <2>1. CASE j = i
      <3>1. SameAmounts(l, m)
        <4>1. g.account = l[k].account /\ g.amount = l[k].amount
          <5>1. PICK p \in LegRow : p = l[k]
            BY <1>4
          <5>2. QED
            BY <1>5, <5>1 DEF Coded, LegRow
        <4>2. QED
          BY <1>4, <1>6, <4>1 DEF SameAmounts
      <3>2. QED
        BY <1>2, <1>3, <1>8, <1>11, <2>1, <3>1
    <2>2. CASE j # i
      BY <1>11, <2>2 DEF SameAmounts
    <2>3. QED
      BY <2>1, <2>2
  <1>14. m = Written(e[i].postings.legs, k, s)
    BY <1>2, <1>3, <1>5, <1>6 DEF Written
  <1>15. QED
    BY <1>8, <1>10, <1>11, <1>12, <1>13, <1>14

LEMMA MinIs ==
  ASSUME NEW S \in SUBSET Nat, S # {}
  PROVE  Min(S) \in S /\ \A k \in S : Min(S) <= k
  BY LeastNumber DEF Min

----------------------------------------------------------------------------------
(* What a process books. *)

\* A posting with a code is not changed by the VAT legs.
LEMMA ExpandKeeps ==
  ASSUME NEW l \in Seq(Row), NEW k \in Tagged(l)
  PROVE  k \in DOMAIN l /\ k \in DOMAIN Expand(l) /\ k \in Matching(Expand(l), l[k])
  <1>1. PICK u \in Seq(LegRow), v \in Seq(LegRow) : u = UserLegs(l) /\ v = VatLegs(l)
    BY LegsTyped
  <1>2. k \in DOMAIN l /\ l[k].code # NoCode
    BY DEF Tagged
  <1>3. k \in DOMAIN u /\ u[k].account = l[k].account /\ u[k].amount = l[k].amount
    BY <1>1, <1>2 DEF UserLegs
  <1>4. k \in DOMAIN (u \o v) /\ (u \o v)[k] = u[k]
    BY <1>3, JoinedIs
  <1>5. AllLegs(l) = u \o v
    BY <1>1 DEF AllLegs
  <1>6. k \notin Absorber(l)
    BY <1>2 DEF Absorber
  <1>7. k \in DOMAIN Expand(l) /\ Expand(l)[k] = u[k]
    BY <1>4, <1>5, <1>6, ExpandIs
  <1>8. QED
    BY <1>2, <1>3, <1>7 DEF Matching

Specs(l) == Picked(l, Tagged(l))

LEMMA SpecsAre ==
  ASSUME NEW l \in Seq(Row)
  PROVE  /\ Specs(l) \in Seq(TaggedRow) /\ Len(Specs(l)) = Cardinality(Tagged(l)) /\ Len(Specs(l)) \in Nat
         /\ \A m \in DOMAIN Specs(l) : Place(Tagged(l), m) \in Tagged(l) /\ Specs(l)[m] = l[Place(Tagged(l), m)]
         /\ \A m \in DOMAIN Specs(l) : Matching(Expand(l), Specs(l)[m]) # {}
  <1>1. Tagged(l) \in SUBSET DOMAIN l
    BY DEF Tagged
  <1>2. /\ Specs(l) \in Seq(Row) /\ Len(Specs(l)) = Cardinality(Tagged(l)) /\ Cardinality(Tagged(l)) \in Nat
        /\ \A n \in 1 .. Cardinality(Tagged(l)) :
             Place(Tagged(l), n) \in Tagged(l) /\ Specs(l)[n] = l[Place(Tagged(l), n)]
    BY <1>1, PickedIs DEF Specs
  <1>3. PICK p \in Seq(Row) : p = Specs(l) /\ Len(p) = Cardinality(Tagged(l)) /\ Len(p) \in Nat
    BY <1>2
  <1>4. DOMAIN p = 1 .. Len(p)
    OBVIOUS
  <1>5. \A n \in DOMAIN p : Place(Tagged(l), n) \in Tagged(l) /\ p[n] = l[Place(Tagged(l), n)]
    BY <1>2, <1>3, <1>4
  <1>6. \A n \in DOMAIN p : p[n] \in TaggedRow
    <2> SUFFICES ASSUME NEW n \in DOMAIN p
                 PROVE  p[n] \in TaggedRow
      OBVIOUS
    <2>1. PICK k \in Tagged(l) : k = Place(Tagged(l), n) /\ p[n] = l[k]
      BY <1>5
    <2>2. PICK s \in Row : s = l[k] /\ s.code # NoCode
      <3>1. k \in DOMAIN l /\ l[k].code # NoCode /\ \A j \in DOMAIN l : l[j] \in Row
        BY DEF Tagged
      <3>2. QED
        BY <3>1
    <2>3. s \in TaggedRow
      BY <2>2 DEF Row, TaggedRow
    <2>4. QED
      BY <2>1, <2>2, <2>3
  <1>7. p \in Seq(TaggedRow)
    <2>1. p \in [1 .. Len(p) -> TaggedRow]
      BY <1>4, <1>6
    <2>2. QED
      BY <1>3, <2>1, FunctionsAreLists
  <1>8. \A n \in DOMAIN p : Matching(Expand(l), p[n]) # {}
    BY <1>5, ExpandKeeps
  <1>9. QED
    BY <1>3, <1>5, <1>7, <1>8

LEMMA MatchingIs ==
  ASSUME NEW l \in Seq(LegRow), NEW s, Matching(l, s) # {}
  PROVE  /\ Min(Matching(l, s)) \in Matching(l, s) /\ Min(Matching(l, s)) \in DOMAIN l
         /\ l[Min(Matching(l, s))].account = s.account /\ l[Min(Matching(l, s))].amount = s.amount
  <1>1. Matching(l, s) \in SUBSET Nat
    BY DEF Matching
  <1>2. Min(Matching(l, s)) \in Matching(l, s)
    BY <1>1, MinIs
  <1>3. QED
    BY <1>2 DEF Matching

----------------------------------------------------------------------------------
(* Steps. *)

\* A process goes on with a new entry, with the one it held, or with none.
LEMMA WorkStep ==
  ASSUME Jobs, Held, Moves(entries, entries'), NEW w \in Workers, NEW job,
         Go(w, job), JobOK(job), HoldOK(entries', job),
         job.at \in Holding => job.entry \notin Ids \/ (work[w].at \in Holding /\ job.entry = work[w].entry)
  PROVE  Jobs' /\ Held' /\ work'[w] = job /\ \A v \in Workers : v # w => work'[v] = work[v]
  <1>1. work' = [work EXCEPT ![w] = job] /\ work \in [Workers -> JobRow] /\ job \in JobRow
    BY DEF Go, Jobs, JobOK
  <1>2. work'[w] = job /\ work' \in [Workers -> JobRow] /\ \A v \in Workers : v # w => work'[v] = work[v]
    BY <1>1
  <1>3. ASSUME NEW v \in Workers
        PROVE  JobOK(work'[v]) /\ HoldOK(entries', work'[v])
    <2>1. CASE v = w
      BY <1>2, <2>1
    <2>2. CASE v # w
      <3>1. PICK j : j = work[v] /\ JobOK(j) /\ HoldOK(entries, j)
        BY DEF Jobs
      <3>2. HoldOK(entries', j)
        BY <3>1, HoldKept
      <3>3. work'[v] = j
        BY <1>2, <2>2, <3>1
      <3>4. QED
        BY <3>1, <3>2, <3>3
    <2>3. QED
      BY <2>1, <2>2
  <1>4. Jobs'
    <2>1. \A v \in Workers : JobOK(work[v])' /\ HoldOK(entries, work[v])'
      <3> SUFFICES ASSUME NEW v \in Workers
                   PROVE  JobOK(work[v])' /\ HoldOK(entries, work[v])'
        OBVIOUS
      <3>1. JobOK(work'[v]) /\ HoldOK(entries', work'[v])
        BY <1>3
      <3>2. PICK j : j = work'[v]
        OBVIOUS
      <3>3. JobOK(j) /\ HoldOK(entries', j)
        BY <3>1, <3>2
      <3>4. JobOK(work[v])' = JobOK(j)
        BY <3>2 DEF JobOK
      <3>5. HoldOK(entries, work[v])' = HoldOK(entries', j)
        BY <3>2 DEF HoldOK
      <3>6. QED
        BY <3>3, <3>4, <3>5
    <2>2. QED
      BY <1>2, <2>1 DEF Jobs
  <1>5. \A v \in Workers : work[v].at \in Holding => work[v].entry \in Ids
    BY DEF Jobs, HoldOK, Ids
  <1>6. \A u, v \in Workers :
          work'[u].at \in Holding /\ work'[v].at \in Holding /\ work'[u].entry = work'[v].entry => u = v
    <2> SUFFICES ASSUME NEW u \in Workers, NEW v \in Workers, u # v,
                        work'[u].at \in Holding, work'[v].at \in Holding, work'[u].entry = work'[v].entry
                 PROVE  FALSE
      OBVIOUS
    <2>1. CASE u = w
      BY <1>2, <1>5, <2>1 DEF Held
    <2>2. CASE v = w
      BY <1>2, <1>5, <2>2 DEF Held
    <2>3. CASE u # w /\ v # w
      BY <1>2, <2>3 DEF Held
    <2>4. QED
      BY <2>1, <2>2, <2>3
  <1>7. QED
    BY <1>2, <1>4, <1>6 DEF Held

----------------------------------------------------------------------------------
(* Balances of a journal e. *)

PostedIn(e, T) == {i \in T : e[i].state = "posted"}

OnEntries(e, S, T) == [i \in PostedIn(e, T) |-> OnLegs(S, e[i].postings.legs)]

BalanceIn(e, S, T) == SumOf(OnEntries(e, S, T))

LEMMA BalanceIs ==
  ASSUME NEW S, NEW T
  PROVE  Balance(S, T) = BalanceIn(entries, S, T)
  BY DEF Balance, BalanceIn, OnEntries, PostedIn, OnLegs, OnOf, On, IsPosted

LEMMA JournalIs ==
  ASSUME NEW e \in Seq(EntryRow)
  PROVE  /\ IsFiniteSet(DOMAIN e) /\ DOMAIN e \subseteq Nat
         /\ \A i \in DOMAIN e : e[i] \in EntryRow /\ e[i].postings.legs \in Seq(LegRow)
  <1>1. Len(e) \in Nat /\ DOMAIN e = 1 .. Len(e) /\ \A i \in DOMAIN e : e[i] \in EntryRow
    OBVIOUS
  <1>2. IsFiniteSet(1 .. Len(e)) /\ 1 .. Len(e) \subseteq Nat
    BY <1>1, FS_Interval
  <1>3. QED
    BY <1>1, <1>2, EntryIs

LEMMA OnEntriesIs ==
  ASSUME NEW e \in Seq(EntryRow), NEW S, NEW T \in SUBSET DOMAIN e
  PROVE  /\ IsFiniteSet(PostedIn(e, T)) /\ PostedIn(e, T) \subseteq T
         /\ OnEntries(e, S, T) \in [PostedIn(e, T) -> Int]
         /\ BalanceIn(e, S, T) \in Int
  <1>1. IsFiniteSet(PostedIn(e, T)) /\ PostedIn(e, T) \subseteq T
    <2>1. PostedIn(e, T) \subseteq DOMAIN e /\ PostedIn(e, T) \subseteq T
      BY DEF PostedIn
    <2>2. QED
      BY <2>1, JournalIs, FS_Subset
  <1>2. \A i \in PostedIn(e, T) : OnLegs(S, e[i].postings.legs) \in Int
    BY <1>1, JournalIs, OnTyped
  <1>3. OnEntries(e, S, T) \in [PostedIn(e, T) -> Int]
    BY <1>2 DEF OnEntries
  <1>4. QED
    BY <1>1, <1>3, SumTyped DEF BalanceIn

LEMMA BalanceTyped ==
  ASSUME entries \in Seq(EntryRow), NEW S, NEW T \in SUBSET Ids
  PROVE  Balance(S, T) \in Int
  BY BalanceIs, OnEntriesIs DEF Ids

\* Entries that are not posted do not count.
LEMMA BalanceSame ==
  ASSUME NEW e \in Seq(EntryRow), NEW f \in Seq(EntryRow), DOMAIN e \subseteq DOMAIN f,
         \A i \in DOMAIN f : f[i].state = "posted" => i \in DOMAIN e /\ e[i].state = "posted",
         \A i \in DOMAIN e : e[i].state = "posted" => f[i] = e[i],
         NEW S
  PROVE  BalanceIn(f, S, DOMAIN f) = BalanceIn(e, S, DOMAIN e)
  <1>1. PostedIn(f, DOMAIN f) = PostedIn(e, DOMAIN e)
    BY DEF PostedIn
  <1>2. \A i \in PostedIn(e, DOMAIN e) : f[i] = e[i]
    BY DEF PostedIn
  <1>3. OnEntries(f, S, DOMAIN f) = OnEntries(e, S, DOMAIN e)
    BY <1>1, <1>2 DEF OnEntries
  <1>4. QED
    BY <1>3 DEF BalanceIn

\* One that becomes posted does, with what its postings put on the accounts.
LEMMA BalancePosted ==
  ASSUME NEW e \in Seq(EntryRow), NEW i \in DOMAIN e, e[i].state = "draft", NEW S
  PROVE  BalanceIn(Marked(e, i), S, DOMAIN e) = BalanceIn(e, S, DOMAIN e) + OnLegs(S, e[i].postings.legs)
  <1>1. PICK f \in Seq(EntryRow) : /\ f = Marked(e, i) /\ DOMAIN f = DOMAIN e
                                   /\ f[i].state = "posted" /\ f[i].postings = e[i].postings
                                   /\ \A k \in DOMAIN e : k # i => f[k] = e[k]
    BY PostMoves
  <1>2. PICK P, Q : P = PostedIn(f, DOMAIN f) /\ Q = PostedIn(e, DOMAIN e)
    OBVIOUS
  <1>3. i \in P /\ i \notin Q /\ Q = P \ {i}
    BY <1>1, <1>2 DEF PostedIn
  <1>4. PICK g, h : g = OnEntries(f, S, DOMAIN f) /\ h = OnEntries(e, S, DOMAIN e)
    OBVIOUS
  <1>5. IsFiniteSet(P) /\ g \in [P -> Int] /\ SumOf(g) \in Int /\ SumOf(h) \in Int
    BY <1>2, <1>4, OnEntriesIs DEF BalanceIn
  <1>6. g[i] = OnLegs(S, e[i].postings.legs)
    BY <1>1, <1>2, <1>3, <1>4 DEF OnEntries
  <1>7. [k \in P \ {i} |-> g[k]] = h
    <2>1. \A k \in Q : f[k] = e[k] /\ k \in P
      BY <1>1, <1>2, <1>3 DEF PostedIn
    <2>2. \A k \in Q : g[k] = OnLegs(S, e[k].postings.legs)
      BY <1>2, <1>4, <2>1 DEF OnEntries
    <2>3. QED
      BY <1>2, <1>3, <1>4, <2>2 DEF OnEntries
  <1>8. SumOf(g) = g[i] + SumOf([k \in P \ {i} |-> g[k]])
    <2>1. i \in P /\ IsFiniteSet(P) /\ g \in [P -> Int]
      BY <1>3, <1>5
    <2>2. QED
      BY <2>1, SumLess, Zenon
  <1>9. g[i] \in Int
    BY <1>3, <1>5
  <1>10. QED
    BY <1>1, <1>4, <1>5, <1>6, <1>7, <1>8, <1>9 DEF BalanceIn

Adding(h, f, g, S) ==
  /\ IsFiniteSet(S)
  /\ f \in [S -> Int] /\ g \in [S -> Int] /\ h \in [S -> Int]
  /\ \A x \in S : h[x] = f[x] + g[x]

LEMMA SumAdding ==
  ASSUME NEW h, NEW f, NEW g, NEW S, Adding(h, f, g, S)
  PROVE  SumOf(h) = SumOf(f) + SumOf(g)
  <1>1. IsFiniteSet(S) /\ f \in [S -> Int] /\ g \in [S -> Int] /\ h \in [S -> Int]
    BY DEF Adding
  <1>2. \A x \in S : h[x] = f[x] + g[x]
    BY DEF Adding
  <1>3. QED
    BY <1>1, <1>2, SumPlus

LEMMA OnBoth ==
  ASSUME NEW l \in Seq(LegRow), NEW a, NEW b, a # b
  PROVE  OnLegs({a, b}, l) = OnLegs({a}, l) + OnLegs({b}, l)
  <1>1. PICK D, f, g, h : D = DOMAIN l /\ f = OnOf({a}, l) /\ g = OnOf({b}, l) /\ h = OnOf({a, b}, l)
    OBVIOUS
  <1>2. /\ f \in Seq(Int) /\ Len(f) = Len(l) /\ g \in Seq(Int) /\ Len(g) = Len(l)
        /\ h \in Seq(Int) /\ Len(h) = Len(l) /\ D = 1 .. Len(l)
    BY <1>1, OnTyped
  <1>3. f \in [D -> Int] /\ g \in [D -> Int] /\ h \in [D -> Int] /\ IsFiniteSet(D)
    BY <1>2, ListTyped
  <1>4. \A k \in D : h[k] = f[k] + g[k]
    <2> SUFFICES ASSUME NEW k \in D
                 PROVE  h[k] = f[k] + g[k]
      OBVIOUS
    <2>1. h[k] = On({a, b}, l[k]) /\ f[k] = On({a}, l[k]) /\ g[k] = On({b}, l[k])
      BY <1>1 DEF OnOf
    <2>2. f[k] \in Int /\ g[k] \in Int /\ h[k] \in Int
      BY <1>3
    <2>3. QED
      BY <2>1, <2>2 DEF On
  <1>5. Adding(h, f, g, D)
    BY <1>3, <1>4 DEF Adding
  <1>6. QED
    BY <1>1, <1>5, SumAdding DEF OnLegs

LEMMA BalanceBoth ==
  ASSUME NEW e \in Seq(EntryRow), NEW T \in SUBSET DOMAIN e, NEW a, NEW b, a # b
  PROVE  BalanceIn(e, {a, b}, T) = BalanceIn(e, {a}, T) + BalanceIn(e, {b}, T)
  <1>1. PICK P, f, g, h : P = PostedIn(e, T) /\ f = OnEntries(e, {a}, T) /\ g = OnEntries(e, {b}, T)
                          /\ h = OnEntries(e, {a, b}, T)
    OBVIOUS
  <1>2. f \in [P -> Int] /\ g \in [P -> Int] /\ h \in [P -> Int] /\ IsFiniteSet(P) /\ P \subseteq DOMAIN e
    BY <1>1, OnEntriesIs
  <1>3. \A i \in P : h[i] = f[i] + g[i]
    <2> SUFFICES ASSUME NEW i \in P
                 PROVE  h[i] = f[i] + g[i]
      OBVIOUS
    <2>1. e[i].postings.legs \in Seq(LegRow)
      BY <1>2, JournalIs
    <2>2. OnLegs({a, b}, e[i].postings.legs) = OnLegs({a}, e[i].postings.legs) + OnLegs({b}, e[i].postings.legs)
      BY <2>1, OnBoth
    <2>3. QED
      BY <1>1, <2>2 DEF OnEntries
  <1>4. Adding(h, f, g, P)
    BY <1>2, <1>3 DEF Adding
  <1>5. QED
    BY <1>1, <1>4, SumAdding DEF BalanceIn

----------------------------------------------------------------------------------
(* Each action keeps what is known. *)

LEMMA IdleIs ==
  /\ JobOK(Idle) /\ Idle.at = "idle" /\ Idle.line = 0
  /\ \A e : HoldOK(e, Idle)
  <1>1. << >> \in Seq(TaggedRow) /\ NoReturn \in [Fields -> Int]
    BY DEF NoReturn
  <1>2. Input \in Accounts /\ Today \in Periods
    BY VatAssumption
  <1>3. Idle \in JobRow
    BY <1>1, <1>2 DEF Idle, JobRow, Places
  <1>4. Idle.at = "idle" /\ Idle.line = 0
    BY DEF Idle
  <1>5. "idle" \notin Settling \cup Moving \cup Holding /\ "idle" \notin {"tag", "settle_create", "settle_post", "settle_mark", "file_post"}
    BY DEF Settling, Moving, Holding
  <1>6. JobOK(Idle)
    BY <1>3, <1>4, <1>5 DEF JobOK
  <1>7. \A e : HoldOK(e, Idle)
    BY <1>4, <1>5 DEF HoldOK
  <1>8. QED
    BY <1>4, <1>6, <1>7

LEMMA Busy ==
  ASSUME Known, NEW w \in Workers, work[w].at # "idle"
  PROVE  enabled
  BY DEF Known, Off

\* A process steps; what the journal and the other tables do is given.
LEMMA KnownStep ==
  ASSUME Known, Tables', enabled', Moves(entries, entries'), NEW w \in Workers, NEW job,
         Go(w, job), JobOK(job), HoldOK(entries', job),
         job.at \in Holding => job.entry \notin Ids \/ (work[w].at \in Holding /\ job.entry = work[w].entry)
  PROVE  Known'
  <1>1. Jobs' /\ Held'
    BY WorkStep DEF Known
  <1>2. Off'
    BY DEF Off
  <1>3. QED
    BY <1>1, <1>2 DEF Known

\* Another command steps.
LEMMA KnownOther ==
  ASSUME Known, Tables', enabled' = enabled, ~enabled => entries' = entries,
         Moves(entries, entries'), work' = work
  PROVE  Known'
  <1>1. \A w \in Workers : JobOK(work[w])' /\ HoldOK(entries, work[w])'
    <2> SUFFICES ASSUME NEW w \in Workers
                 PROVE  JobOK(work[w])' /\ HoldOK(entries, work[w])'
      OBVIOUS
    <2>1. PICK j : j = work[w] /\ JobOK(j) /\ HoldOK(entries, j)
      BY DEF Known, Jobs
    <2>2. HoldOK(entries', j)
      BY <2>1, HoldKept
    <2>3. JobOK(work[w])' = JobOK(j)
      BY <2>1 DEF JobOK
    <2>4. HoldOK(entries, work[w])' = HoldOK(entries', j)
      BY <2>1 DEF HoldOK
    <2>5. QED
      BY <2>1, <2>2, <2>3, <2>4
  <1>2. Jobs'
    BY <1>1 DEF Known, Jobs
  <1>3. Held'
    BY DEF Known, Held
  <1>4. Off'
    BY DEF Known, Off
  <1>5. QED
    BY <1>2, <1>3, <1>4 DEF Known

LEMMA NothingMoves ==
  ASSUME entries' = entries
  PROVE  Moves(entries, entries')
  BY MovesNothing

LEMMA KnownEnable ==
  ASSUME Known, EnableVatModule
  PROVE  Known'
  <1>1. UNCHANGED <<chart, entries, returns, matched, work, loose, stale, crossed, bounds>> /\ enabled' = TRUE
    BY DEF EnableVatModule
  <1>2. Tables' /\ Held' /\ Off'
    BY <1>1 DEF Known, Tables, Held, Off, Ids
  <1>3. \A w \in Workers : JobOK(work[w])' /\ HoldOK(entries, work[w])'
    BY <1>1 DEF Known, Jobs, JobOK, HoldOK
  <1>4. Jobs'
    BY <1>1, <1>3 DEF Known, Jobs
  <1>5. QED
    BY <1>2, <1>4 DEF Known

\* The row a command inserts.
Draft(l, p, ref) ==
  [state |-> "draft", postings |-> [period |-> p, legs |-> l], source |-> "manual", ref |-> ref, reversedFrom |-> 0]

LEMMA DraftIs ==
  ASSUME NEW l \in Seq(LegRow), NEW p \in Periods, NEW ref \in Commands
  PROVE  /\ Draft(l, p, ref) \in EntryRow
         /\ Draft(l, p, ref).state = "draft" /\ Draft(l, p, ref).ref = ref
         /\ Draft(l, p, ref).postings.legs = l
  BY DEF Draft, EntryRow, LegRow

\* What an insert does.
LEMMA Inserted ==
  ASSUME Known, NEW row \in EntryRow, entries' = Append(entries, row)
  PROVE  /\ entries' \in Seq(EntryRow) /\ Moves(entries, entries')
         /\ LastId \in Nat /\ LastId + 1 \in Nat /\ LastId + 1 \notin Ids
         /\ DOMAIN entries' = Ids \cup {LastId + 1} /\ Ids' = DOMAIN entries'
         /\ entries'[LastId + 1] = row
         /\ \A i \in Ids : entries'[i] = entries[i]
  <1>1. entries \in Seq(EntryRow)
    BY DEF Known, Tables
  <1>2. PICK e \in Seq(EntryRow) : e = entries
    BY <1>1
  <1>3. /\ Append(e, row) \in Seq(EntryRow) /\ Moves(e, Append(e, row))
        /\ Len(e) \in Nat /\ Len(e) + 1 \notin DOMAIN e
        /\ DOMAIN Append(e, row) = DOMAIN e \cup {Len(e) + 1}
        /\ Append(e, row)[Len(e) + 1] = row
        /\ \A i \in DOMAIN e : Append(e, row)[i] = e[i]
    BY AppendMoves
  <1>4. Len(e) + 1 \in Nat
    BY <1>3
  <1>5. QED
    BY <1>2, <1>3, <1>4 DEF Ids, LastId

LEMMA BoundsAre ==
  ASSUME Known
  PROVE  /\ \A l \in bounds.lists : l \in Seq(Row)
         /\ bounds.periods \subseteq Periods /\ bounds.posts \subseteq BOOLEAN /\ bounds.taken \subseteq DOMAIN Settlement
  BY VatAssumption DEF Known, Tables, Row

BookJob(i, l, post) == [Idle EXCEPT !.at = "tag", !.entry = i, !.post = post, !.specs = Specs(l)]

LEMMA BookJobIs ==
  ASSUME NEW i \in Nat, NEW l \in Seq(Row), NEW post \in BOOLEAN
  PROVE  /\ BookJob(i, l, post) \in JobRow
         /\ BookJob(i, l, post).at = "tag" /\ BookJob(i, l, post).entry = i /\ BookJob(i, l, post).line = 0
         /\ BookJob(i, l, post).specs = Specs(l) /\ BookJob(i, l, post).next = 1
  <1>1. PICK q \in JobRow : q = Idle /\ q.line = 0 /\ q.next = 1
    BY IdleIs DEF JobOK, Idle
  <1>2. PICK s \in Seq(TaggedRow) : s = Specs(l)
    BY SpecsAre
  <1>3. "tag" \in Places
    BY DEF Places
  <1>4. BookJob(i, l, post) = [q EXCEPT !.at = "tag", !.entry = i, !.post = post, !.specs = s]
    BY <1>1, <1>2 DEF BookJob
  <1>5. QED
    BY <1>1, <1>2, <1>3, <1>4 DEF JobRow

LEMMA Booking ==
  ASSUME Known, NEW w \in Workers, NEW l \in bounds.lists, NEW p \in bounds.periods, NEW post \in bounds.posts,
         BookVatEntry(w, l, p, post)
  PROVE  /\ l \in Seq(Row) /\ p \in Periods /\ post \in BOOLEAN
         /\ Draft(Expand(l), p, Booked) \in EntryRow
         /\ entries' = Append(entries, Draft(Expand(l), p, Booked))
         /\ Go(w, BookJob(LastId + 1, l, post)) /\ enabled /\ work[w].at = "idle"
         /\ stale' = stale \ {w} /\ loose' = loose \cup {LastId + 1}
         /\ UNCHANGED <<enabled, chart, returns, matched, crossed, bounds>>
  <1>1. l \in Seq(Row) /\ p \in Periods /\ post \in BOOLEAN
    BY BoundsAre
  <1>2. Expand(l) \in Seq(LegRow) /\ Booked \in Commands
    BY <1>1, ExpandTyped DEF Booked, Commands
  <1>3. Draft(Expand(l), p, Booked) \in EntryRow
    BY <1>1, <1>2, DraftIs
  <1>4. entries' = Append(entries, Draft(Expand(l), p, Booked))
    BY DEF BookVatEntry, InsertDraft, Draft, Booked
  <1>5. Go(w, BookJob(LastId + 1, l, post)) /\ enabled /\ work[w].at = "idle" /\ stale' = stale \ {w}
    BY DEF BookVatEntry, Start, At, BookJob, Specs
  <1>6. QED
    BY <1>1, <1>3, <1>4, <1>5 DEF BookVatEntry

LEMMA KnownBook ==
  ASSUME Known, NEW w \in Workers, NEW l \in bounds.lists, NEW p \in bounds.periods, NEW post \in bounds.posts,
         BookVatEntry(w, l, p, post)
  PROVE  Known'
  <1>1. PICK row \in EntryRow : row = Draft(Expand(l), p, Booked) /\ entries' = Append(entries, row)
    BY Booking
  <1>2. /\ entries' \in Seq(EntryRow) /\ Moves(entries, entries')
        /\ LastId + 1 \in Nat /\ LastId + 1 \notin Ids
        /\ DOMAIN entries' = Ids \cup {LastId + 1} /\ Ids' = DOMAIN entries'
        /\ entries'[LastId + 1] = row
    BY <1>1, Inserted
  <1>3. l \in Seq(Row) /\ p \in Periods /\ post \in BOOLEAN /\ Expand(l) \in Seq(LegRow) /\ Booked \in Commands
    <2>1. l \in Seq(Row) /\ p \in Periods /\ post \in BOOLEAN
      BY Booking
    <2>2. QED
      BY <2>1, ExpandTyped DEF Booked, Commands
  <1>4. row.ref = Booked /\ row.postings.legs = Expand(l)
    BY <1>1, <1>3, DraftIs
  <1>5. PICK job \in JobRow : /\ job = BookJob(LastId + 1, l, post)
                              /\ job.at = "tag" /\ job.entry = LastId + 1 /\ job.line = 0
                              /\ job.specs = Specs(l) /\ job.next = 1
    BY <1>2, <1>3, BookJobIs
  <1>6. JobOK(job)
    <2>1. 1 \in 1 .. Len(Specs(l)) + 1
      <3>1. Len(Specs(l)) \in Nat
        BY <1>3, SpecsAre
      <3>2. QED
        BY <3>1
    <2>2. QED
      BY <1>5, <2>1 DEF JobOK, Settling, Moving
  <1>7. HoldOK(entries', job)
    <2>1. \A m \in DOMAIN Specs(l) : Matching(Expand(l), Specs(l)[m]) # {}
      BY <1>3, SpecsAre
    <2>2. Origin(job) = Booked
      BY <1>5 DEF Origin, Booked
    <2>3. QED
      BY <1>2, <1>4, <1>5, <2>1, <2>2 DEF HoldOK
  <1>8. Tables'
    BY <1>2, Booking DEF Known, Tables, Ids
  <1>9. QED
    BY <1>2, <1>5, <1>6, <1>7, <1>8, Booking, KnownStep

LEMMA Tagging ==
  ASSUME Known, NEW w \in Workers, TagPosting(w)
  PROVE  \E i \in Ids, s \in TaggedRow, k \in Nat :
           /\ i = work[w].entry /\ s = work[w].specs[work[w].next] /\ work[w].next \in DOMAIN work[w].specs
           /\ k = Min(Matching(entries[i].postings.legs, s)) /\ k \in DOMAIN entries[i].postings.legs
           /\ Matching(entries[i].postings.legs, s) # {}
           /\ entries[i].state = "draft" /\ entries[i].ref = Booked
           /\ entries' = TaggedAt(entries, i, k, s)
  <1>1. PICK j \in JobRow : j = work[w] /\ JobOK(j) /\ HoldOK(entries, j) /\ j.at = "tag" /\ j.next <= Len(j.specs)
    BY DEF Known, Jobs, TagPosting, At
  <1>2. PICK i \in Ids : i = j.entry /\ entries[i].ref = Booked
    BY <1>1 DEF HoldOK, Holding, Origin, Booked, Ids
  <1>3. PICK c \in Seq(TaggedRow) : c = j.specs
    BY DEF JobRow
  <1>4. j.next \in DOMAIN c
    <2>1. DOMAIN c = 1 .. Len(c) /\ Len(c) \in Nat /\ j.next \in 1 .. Len(c) + 1
      BY <1>1, <1>3 DEF JobOK
    <2>2. QED
      BY <1>1, <1>3, <2>1
  <1>5. PICK s \in TaggedRow : s = c[j.next]
    BY <1>4
  <1>6. PICK l \in Seq(LegRow) : l = entries[i].postings.legs
    BY <1>2, JournalIs DEF Known, Tables, Ids
  <1>7. Matching(l, s) # {}
    BY <1>1, <1>2, <1>3, <1>4, <1>5, <1>6 DEF HoldOK
  <1>8. PICK k \in Nat : k = Min(Matching(l, s)) /\ k \in DOMAIN l
    <2>1. Min(Matching(l, s)) \in DOMAIN l /\ DOMAIN l \subseteq Nat
      BY <1>7, MatchingIs
    <2>2. QED
      BY <2>1
  <1>9. Candidates(i, s) = Matching(l, s)
    BY <1>6 DEF Candidates, Matching
  <1>10. entries[i].state = "draft" /\ entries' = TaggedAt(entries, i, k, s)
    <2>1. IsDraft(i) /\ entries' = Tag(i, s)
      BY <1>1, <1>2, <1>3, <1>5 DEF TagPosting
    <2>2. QED
      BY <1>8, <1>9, <2>1 DEF IsDraft, Tag, TaggedAt
  <1>11. QED
    BY <1>1, <1>2, <1>3, <1>4, <1>5, <1>6, <1>7, <1>8, <1>10

LEMMA KnownTag ==
  ASSUME Known, NEW w \in Workers, TagPosting(w)
  PROVE  Known'
  <1>1. PICK i \in Ids, s \in TaggedRow, k \in Nat :
           /\ i = work[w].entry
           /\ work[w].next \in DOMAIN work[w].specs
           /\ k \in DOMAIN entries[i].postings.legs
           /\ entries[i].state = "draft" /\ entries[i].ref = Booked
           /\ entries' = TaggedAt(entries, i, k, s)
    BY Tagging
  <1>2. PICK e \in Seq(EntryRow) : e = entries
    BY DEF Known, Tables
  <1>3. entries' \in Seq(EntryRow) /\ DOMAIN entries' = DOMAIN entries /\ Moves(entries, entries')
    <2>1. MayTag(e, i, k, s)
      BY <1>1, <1>2 DEF Ids, MayTag
    <2>2. /\ TaggedAt(e, i, k, s) \in Seq(EntryRow) /\ DOMAIN TaggedAt(e, i, k, s) = DOMAIN e
          /\ Moves(e, TaggedAt(e, i, k, s))
      BY <2>1, TagMoves
    <2>3. QED
      BY <1>1, <1>2, <2>2
  <1>4. PICK j \in JobRow : j = work[w] /\ JobOK(j) /\ HoldOK(entries, j) /\ j.at = "tag"
    BY DEF Known, Jobs, TagPosting, At
  <1>5. PICK n \in Nat : n = j.next + 1 /\ n \in 1 .. Len(j.specs) + 1
    <2>1. PICK c \in Seq(TaggedRow) : c = j.specs
      BY DEF JobRow
    <2>2. j.next \in 1 .. Len(c) /\ Len(c) \in Nat
      BY <1>1, <1>4, <2>1
    <2>3. QED
      BY <2>1, <2>2
  <1>6. PICK job \in JobRow : job = [j EXCEPT !.next = n]
    <2>1. [j EXCEPT !.next = n] \in JobRow
      BY DEF JobRow
    <2>2. QED
      BY <2>1
  <1>7. job.at = "tag" /\ job.entry = j.entry /\ job.line = j.line /\ job.specs = j.specs /\ job.next = n
    BY <1>4, <1>6 DEF JobRow
  <1>8. Go(w, job)
    BY <1>4, <1>5, <1>6 DEF TagPosting
  <1>9. JobOK(job)
    BY <1>4, <1>5, <1>7 DEF JobOK, Settling, Moving
  <1>10. HoldOK(entries', job)
    <2>1. HoldOK(entries', j)
      BY <1>3, <1>4, HoldKept
    <2>2. QED
      BY <1>4, <1>7, <2>1 DEF HoldOK, Origin
  <1>11. Tables'
    BY <1>3 DEF Known, Tables, Ids, TagPosting
  <1>12. enabled'
    BY <1>4, Busy DEF TagPosting
  <1>13. QED
    BY <1>3, <1>4, <1>7, <1>8, <1>9, <1>10, <1>11, <1>12, KnownStep DEF Holding

PostJob(i) == [Idle EXCEPT !.at = "post", !.entry = i]

LEMMA PostJobIs ==
  ASSUME NEW i \in Nat
  PROVE  JobOK(PostJob(i)) /\ PostJob(i).at = "post" /\ PostJob(i).entry = i /\ PostJob(i).line = 0
  <1>1. PICK q \in JobRow : q = Idle /\ q.line = 0
    BY IdleIs DEF JobOK
  <1>2. "post" \in Places
    BY DEF Places
  <1>3. PICK job : job = [q EXCEPT !.at = "post", !.entry = i]
    OBVIOUS
  <1>4. job \in JobRow /\ job.at = "post" /\ job.entry = i /\ job.line = 0
    BY <1>1, <1>2, <1>3 DEF JobRow
  <1>5. PostJob(i) = job
    BY <1>1, <1>3 DEF PostJob
  <1>6. QED
    BY <1>4, <1>5 DEF JobOK, Settling, Moving

LEMMA KnownEndTagging ==
  ASSUME Known, NEW w \in Workers, EndTagging(w)
  PROVE  Known'
  <1>1. PICK j \in JobRow : j = work[w] /\ HoldOK(entries, j) /\ j.at = "tag"
    BY DEF Known, Jobs, EndTagging, At
  <1>2. entries' = entries /\ Moves(entries, entries') /\ enabled'
    BY <1>1, Busy, NothingMoves DEF EndTagging
  <1>3. j.entry \in Nat /\ j.entry \in DOMAIN entries' /\ entries'[j.entry].ref = Booked
    BY <1>1, <1>2 DEF HoldOK, Holding, JobRow, Origin, Booked
  <1>4. Tables'
    BY <1>2 DEF Known, Tables, Ids, EndTagging
  <1>5. CASE j.post
    <2>1. PICK job : job = PostJob(j.entry) /\ JobOK(job) /\ job.at = "post" /\ job.entry = j.entry
      BY <1>3, PostJobIs
    <2>2. Go(w, job)
      BY <1>1, <1>5, <2>1 DEF EndTagging, PostJob
    <2>3. HoldOK(entries', job)
      BY <1>3, <2>1 DEF HoldOK, Origin, Booked
    <2>4. QED
      BY <1>1, <1>2, <1>4, <2>1, <2>2, <2>3, KnownStep DEF Holding
  <1>6. CASE ~j.post
    <2>1. PICK job : job = Idle
      OBVIOUS
    <2>2. Go(w, job)
      BY <1>1, <1>6, <2>1 DEF EndTagging
    <2>3. JobOK(job) /\ HoldOK(entries', job) /\ job.at = "idle"
      BY <2>1, IdleIs
    <2>4. QED
      BY <1>2, <1>4, <2>2, <2>3, KnownStep DEF Holding
  <1>7. QED
    BY <1>5, <1>6

\* What posting an entry does.
LEMMA Posted ==
  ASSUME Known, NEW i \in Ids, MarkPosted(i)
  PROVE  /\ entries' = Marked(entries, i) /\ entries' \in Seq(EntryRow) /\ Moves(entries, entries')
         /\ DOMAIN entries' = Ids /\ Ids' = Ids
         /\ entries[i].state = "draft" /\ entries'[i].state = "posted"
         /\ entries'[i].postings = entries[i].postings /\ entries'[i].ref = entries[i].ref
         /\ \A k \in Ids : k # i => entries'[k] = entries[k]
  <1>1. entries[i].state = "draft" /\ entries' = Marked(entries, i)
    BY DEF MarkPosted, MayMarkPosted, IsDraft, Marked
  <1>2. PICK e \in Seq(EntryRow) : e = entries
    BY DEF Known, Tables
  <1>3. /\ Marked(e, i) \in Seq(EntryRow) /\ DOMAIN Marked(e, i) = DOMAIN e /\ Moves(e, Marked(e, i))
        /\ Marked(e, i)[i].state = "posted" /\ Marked(e, i)[i].postings = e[i].postings
        /\ Marked(e, i)[i].ref = e[i].ref
        /\ \A k \in DOMAIN e : k # i => Marked(e, i)[k] = e[k]
    BY <1>1, <1>2, PostMoves DEF Ids
  <1>4. QED
    BY <1>1, <1>2, <1>3 DEF Ids

LEMMA HeldEntry ==
  ASSUME Known, NEW w \in Workers, work[w].at \in Holding
  PROVE  work[w].entry \in Ids /\ entries[work[w].entry].ref = Origin(work[w])
  BY DEF Known, Jobs, HoldOK, Ids

\* A process posts the entry it holds and goes on to another place, or is done.
LEMMA KnownPosts ==
  ASSUME Known, NEW w \in Workers, work[w].at \in Holding, MarkPosted(work[w].entry), NEW job,
         Go(w, job), JobOK(job), HoldOK(entries', job), job.at \in Holding => job.entry = work[w].entry,
         Overtakes(Workers \ {w}), UNCHANGED <<enabled, chart, returns, matched, loose, crossed, bounds>>
  PROVE  Known'
  <1>1. work[w].entry \in Ids
    BY HeldEntry
  <1>2. entries' \in Seq(EntryRow) /\ Moves(entries, entries') /\ DOMAIN entries' = Ids /\ Ids' = Ids
    BY <1>1, Posted
  <1>3. work[w].at # "idle"
    BY DEF Holding
  <1>4. enabled'
    BY <1>3, Busy
  <1>5. stale' \subseteq Workers
    BY DEF Known, Tables, Overtakes
  <1>6. Tables'
    BY <1>2, <1>5 DEF Known, Tables
  <1>7. QED
    BY <1>2, <1>4, <1>6, KnownStep

LEMMA KnownPostBooked ==
  ASSUME Known, NEW w \in Workers, PostBooked(w)
  PROVE  Known'
  <1>1. PICK job : job = Idle /\ JobOK(job) /\ HoldOK(entries', job) /\ job.at = "idle"
    BY IdleIs
  <1>2. QED
    BY <1>1, KnownPosts DEF PostBooked, At, Holding

LEMMA KnownReadReturn ==
  ASSUME Known, NEW w \in Workers, NEW p \in bounds.periods, ReadReturn(w, p)
  PROVE  Known'
  <1>1. PICK q \in JobRow : q = Idle
    BY IdleIs DEF JobOK
  <1>2. PICK r \in [Fields -> Int] : r = Readout(p)
    BY ReadoutTyped DEF Known, Tables
  <1>3. "store" \in Places /\ p \in Periods
    BY BoundsAre DEF Places
  <1>4. PICK job : job = [q EXCEPT !.at = "store", !.period = p, !.fields = r]
    OBVIOUS
  <1>5. job \in JobRow /\ job.at = "store" /\ job.line = 0
    <2>1. q.line = 0
      BY <1>1, IdleIs
    <2>2. QED
      BY <1>1, <1>2, <1>3, <1>4, <2>1 DEF JobRow
  <1>6. Go(w, job) /\ enabled'
    BY <1>1, <1>2, <1>4 DEF ReadReturn, Start
  <1>7. JobOK(job) /\ HoldOK(entries', job) /\ job.at \notin Holding
    BY <1>5 DEF JobOK, HoldOK, Settling, Moving, Holding
  <1>8. entries' = entries /\ Moves(entries, entries')
    BY NothingMoves DEF ReadReturn
  <1>9. Tables'
    BY <1>8 DEF Known, Tables, Ids, ReadReturn, Start
  <1>10. QED
    BY <1>6, <1>7, <1>8, <1>9, KnownStep

\* A process is done, or gives up.
LEMMA KnownIdle ==
  ASSUME Known, NEW w \in Workers, work[w].at # "idle", Go(w, Idle), Tables', UNCHANGED <<enabled, entries>>
  PROVE  Known'
  <1>1. PICK job : job = Idle /\ JobOK(job) /\ HoldOK(entries', job) /\ job.at \notin Holding
    BY IdleIs DEF Holding
  <1>2. Moves(entries, entries') /\ enabled'
    BY NothingMoves, Busy
  <1>3. QED
    BY <1>1, <1>2, KnownStep

LEMMA KnownStoreReturn ==
  ASSUME Known, NEW w \in Workers, StoreReturn(w)
  PROVE  Known'
  <1>1. work[w].at # "idle"
    BY DEF StoreReturn, At
  <1>2. work[w].period \in Periods
    BY DEF Known, Jobs, JobRow
  <1>3. DOMAIN returns' \subseteq Periods
    BY <1>2 DEF Known, Tables, StoreReturn
  <1>4. Tables'
    BY <1>3 DEF Known, Tables, Ids, StoreReturn
  <1>5. QED
    BY <1>1, <1>4, KnownIdle DEF StoreReturn

InputJob(b) == [Idle EXCEPT !.at = "file_output", !.input = b]

LEMMA InputJobIs ==
  ASSUME NEW b \in Int
  PROVE  /\ JobOK(InputJob(b)) /\ InputJob(b).at = "file_output" /\ InputJob(b).input = b /\ InputJob(b).line = 0
         /\ \A e : HoldOK(e, InputJob(b))
  <1>1. PICK q \in JobRow : q = Idle /\ q.line = 0
    BY IdleIs DEF JobOK
  <1>2. "file_output" \in Places
    BY DEF Places, Readers
  <1>3. PICK job : job = [q EXCEPT !.at = "file_output", !.input = b]
    OBVIOUS
  <1>4. job \in JobRow /\ job.at = "file_output" /\ job.input = b /\ job.line = 0
    BY <1>1, <1>2, <1>3 DEF JobRow
  <1>5. InputJob(b) = job
    BY <1>1, <1>3 DEF InputJob
  <1>6. QED
    BY <1>4, <1>5 DEF JobOK, HoldOK, Settling, Moving, Holding

LEMMA KnownReadInput ==
  ASSUME Known, NEW w \in Workers, ReadInput(w)
  PROVE  Known'
  <1>1. PICK b \in Int : b = Balance({Input}, Ids)
    BY BalanceTyped DEF Known, Tables
  <1>2. PICK job : /\ job = InputJob(b) /\ JobOK(job) /\ job.at = "file_output"
                   /\ \A e : HoldOK(e, job)
    BY <1>1, InputJobIs
  <1>3. Go(w, job) /\ enabled'
    BY <1>1, <1>2 DEF ReadInput, Start, InputJob
  <1>4. entries' = entries /\ Moves(entries, entries')
    BY NothingMoves DEF ReadInput
  <1>5. Tables'
    BY <1>4 DEF Known, Tables, Ids, ReadInput, Start
  <1>6. QED
    BY <1>2, <1>3, <1>4, <1>5, KnownStep DEF Holding

LEMMA ResolveIs ==
  ASSUME NEW k \in Nat
  PROVE  /\ Resolve(k) \in Nat /\ Len(Settlement) \in Nat
         /\ Resolve(k) <= Len(Settlement) => Resolve(k) \in DOMAIN Settlement /\ chart[Resolve(k)] # "other"
         /\ k \in DOMAIN Settlement /\ chart[k] # "other" => Resolve(k) = k
  <1>1. PICK D, L : L \in Nat /\ D = DOMAIN Settlement /\ L = Len(Settlement) /\ D = 1 .. L
    BY VatAssumption
  <1>2. PICK R : R = {j \in D : j >= k /\ chart[j] # "other"} \cup {L + 1}
    OBVIOUS
  <1>3. R \in SUBSET Nat /\ R # {}
    BY <1>1, <1>2
  <1>4. Min(R) \in R /\ \A j \in R : Min(R) <= j
    BY <1>3, MinIs
  <1>5. Resolve(k) = Min(R)
    BY <1>1, <1>2 DEF Resolve
  <1>6. PICK m \in Nat : m = Min(R)
    BY <1>3, <1>4
  <1>7. m <= L => m \in D /\ chart[m] # "other"
    BY <1>1, <1>2, <1>4, <1>6
  <1>8. ASSUME k \in D, chart[k] # "other"
        PROVE  m = k
    <2>1. k \in R /\ k <= L
      BY <1>1, <1>2, <1>8
    <2>2. m <= k
      BY <1>4, <1>6, <2>1
    <2>3. m >= k
      BY <1>1, <1>2, <1>4, <1>6, <2>1, <2>2
    <2>4. QED
      BY <2>2, <2>3
  <1>9. QED
    BY <1>1, <1>5, <1>6, <1>7, <1>8

LEMMA SettlementAccounts ==
  \A k \in DOMAIN Settlement : /\ Settlement[k] \in Accounts
                               /\ Settlement[k] \notin {Input, Output, Difference, Bank}
                               /\ CodeIndex(Settlement[k]) = k
  <1>1. \A k \in DOMAIN Settlement : Settlement[k] \in Accounts /\ Settlement[k] \notin {Input, Output, Difference, Bank}
    BY VatAssumption
  <1>2. \A k \in DOMAIN Settlement : CodeIndex(Settlement[k]) = k
    BY VatAssumption DEF CodeIndex
  <1>3. QED
    BY <1>1, <1>2

AtJob(j, place) == [j EXCEPT !.at = place]

HeldJob(j, place, i) == [j EXCEPT !.at = place, !.entry = i]

\* A job goes on in another place with what it has read.
GoesOn(j, k) == k.account = j.account /\ k.input = j.input /\ k.output = j.output /\ k.line = j.line

LEMMA AtJobIs ==
  ASSUME NEW j \in JobRow, NEW place \in Places
  PROVE  AtJob(j, place) \in JobRow /\ AtJob(j, place).at = place /\ AtJob(j, place).entry = j.entry
         /\ GoesOn(j, AtJob(j, place))
  BY DEF AtJob, JobRow, GoesOn

LEMMA HeldJobIs ==
  ASSUME NEW j \in JobRow, NEW place \in Places, NEW i \in Nat
  PROVE  HeldJob(j, place, i) \in JobRow /\ HeldJob(j, place, i).at = place /\ HeldJob(j, place, i).entry = i
         /\ GoesOn(j, HeldJob(j, place, i))
  BY DEF HeldJob, JobRow, GoesOn

LEMMA SameLegs ==
  ASSUME NEW j, NEW k, GoesOn(j, k)
  PROVE  Filing(k) = Filing(j) /\ SettlementLegs(k) = SettlementLegs(j)
  BY DEF GoesOn, Filing, SettlementLegs

LEMMA FilingIs ==
  ASSUME NEW j \in JobRow
  PROVE  Filing(j) \in Seq(LegRow) /\ Filing(j) = ThreeLegs(Output, -j.output, Input, -j.input, j.account, j.output + j.input)
  <1>1. PICK a \in Accounts, x \in Int, y \in Int, z \in Int :
          a = j.account /\ x = -j.output /\ y = -j.input /\ z = j.output + j.input
    BY DEF JobRow
  <1>2. Filing(j) = ThreeLegs(Output, x, Input, y, a, z)
    BY <1>1 DEF Filing, ThreeLegs
  <1>3. Input \in Accounts /\ Output \in Accounts
    BY VatAssumption
  <1>4. ThreeLegs(Output, x, Input, y, a, z) \in Seq(LegRow)
    BY <1>3, ThreeLegsTyped
  <1>5. QED
    BY <1>1, <1>2, <1>4

LEMMA SettlementLegsAre ==
  ASSUME NEW j \in JobRow, j.line \in Lines
  PROVE  /\ SettlementLegs(j) \in Seq(LegRow)
         /\ SettlementLegs(j) = ThreeLegs(j.account, -j.input, Bank, LineAmount(j.line), Difference, j.input - LineAmount(j.line))
  <1>1. LineAmount(j.line) \in Int
    BY VatAssumption
  <1>2. PICK a \in Accounts, x \in Int, y \in Int, z \in Int :
          a = j.account /\ x = -j.input /\ y = LineAmount(j.line) /\ z = j.input - LineAmount(j.line)
    BY <1>1 DEF JobRow
  <1>3. SettlementLegs(j) = ThreeLegs(a, x, Bank, y, Difference, z)
    BY <1>2 DEF SettlementLegs, ThreeLegs
  <1>4. Bank \in Accounts /\ Difference \in Accounts
    BY VatAssumption
  <1>5. ThreeLegs(a, x, Bank, y, Difference, z) \in Seq(LegRow)
    BY <1>4, ThreeLegsTyped
  <1>6. QED
    BY <1>2, <1>3, <1>5

\* The job of a process.
LEMMA JobIs ==
  ASSUME Known, NEW w \in Workers
  PROVE  work[w] \in JobRow /\ JobOK(work[w]) /\ HoldOK(entries, work[w])
  BY DEF Known, Jobs

FileJob(j, output, a) == [j EXCEPT !.at = "file_account", !.output = output, !.account = a]

\* The position is read: the process is done, or goes on with an account of the chain.
LEMMA Reading ==
  ASSUME Known, NEW w \in Workers, ReadOutput(w)
  PROVE  \/ Go(w, Idle)
         \/ \E k \in DOMAIN Settlement, b \in Int, job \in JobRow :
              /\ Go(w, job) /\ job.at = "file_account" /\ b = Balance({Output}, Ids)
              /\ job.output = b /\ job.input = work[w].input /\ job.line = work[w].line
              /\ job.account = Settlement[k] /\ chart[k] # "other" /\ b + job.input # 0
  <1>1. PICK j \in JobRow : j = work[w]
    BY JobIs
  <1>2. PICK b \in Int : b = Balance({Output}, Ids)
    BY BalanceTyped DEF Known, Tables
  <1>3. CASE b + j.input = 0 \/ Resolve(1) > Len(Settlement)
    BY <1>1, <1>2, <1>3 DEF ReadOutput
  <1>4. CASE ~(b + j.input = 0 \/ Resolve(1) > Len(Settlement))
    <2>1. PICK k \in Nat : k = Resolve(1) /\ k \in DOMAIN Settlement /\ chart[k] # "other"
      <3>1. /\ Resolve(1) \in Nat /\ Len(Settlement) \in Nat
            /\ Resolve(1) <= Len(Settlement) => Resolve(1) \in DOMAIN Settlement /\ chart[Resolve(1)] # "other"
        BY ResolveIs
      <3>2. QED
        BY <1>4, <3>1
    <2>2. PICK a \in Accounts : a = Settlement[k]
      BY <2>1, SettlementAccounts
    <2>3. "file_account" \in Places
      BY DEF Places, Readers
    <2>4. PICK job : job = FileJob(j, b, a)
      OBVIOUS
    <2>5. /\ job \in JobRow /\ job.at = "file_account" /\ job.output = b /\ job.input = j.input
          /\ job.line = j.line /\ job.account = a
      BY <2>3, <2>4 DEF FileJob, JobRow
    <2>6. Go(w, job)
      BY <1>1, <1>2, <1>4, <2>1, <2>2, <2>4 DEF ReadOutput, FileJob
    <2>7. b + job.input # 0
      BY <1>4, <2>5
    <2>8. QED
      BY <1>1, <1>2, <2>1, <2>2, <2>5, <2>6, <2>7
  <1>5. QED
    BY <1>3, <1>4

LEMMA KnownReadOutput ==
  ASSUME Known, NEW w \in Workers, ReadOutput(w)
  PROVE  Known'
  <1>1. At(w, "file_output") /\ work[w].at # "idle" /\ UNCHANGED <<enabled, chart, entries, returns, matched, loose, stale, crossed, bounds>>
    BY DEF ReadOutput, At
  <1>2. Tables' /\ Moves(entries, entries') /\ enabled'
    BY <1>1, NothingMoves, Busy DEF Known, Tables, Ids
  <1>3. CASE Go(w, Idle)
    BY <1>1, <1>2, <1>3, KnownIdle
  <1>4. ASSUME NEW k \in DOMAIN Settlement, NEW b \in Int, NEW job \in JobRow,
               Go(w, job), job.at = "file_account", job.output = b, job.line = work[w].line,
               job.account = Settlement[k], b + job.input # 0
        PROVE  Known'
    <2>1. work[w].line = 0
      BY <1>1, JobIs DEF JobOK, At, Settling
    <2>2. job.input + job.output # 0
      <3>1. job.input \in Int
        BY DEF JobRow
      <3>2. QED
        BY <1>4, <3>1
    <2>3. JobOK(job) /\ HoldOK(entries', job) /\ job.at \notin Holding
      BY <1>4, <2>1, <2>2 DEF JobOK, HoldOK, Settling, Moving, Holding
    <2>4. QED
      BY <1>2, <1>4, <2>3, KnownStep
  <1>5. QED
    BY <1>3, <1>4, Reading

LEMMA KnownEnsureAccount ==
  ASSUME Known, NEW w \in Workers, EnsureAccount(w)
  PROVE  Known'
  <1>1. PICK j \in JobRow : j = work[w] /\ JobOK(j) /\ j.at = "file_account"
    BY JobIs DEF EnsureAccount, At
  <1>2. PICK k : k = Resolve(CodeIndex(j.account))
    OBVIOUS
  <1>3. chart' = [chart EXCEPT ![k] = "vat"] /\ Go(w, AtJob(j, "file_create"))
        /\ UNCHANGED <<enabled, entries, returns, matched, loose, stale, crossed, bounds>>
    BY <1>1, <1>2 DEF EnsureAccount, AtJob
  <1>4. Tables'
    BY <1>3 DEF Known, Tables, Ids
  <1>5. Moves(entries, entries') /\ enabled'
    BY <1>1, <1>3, NothingMoves, Busy
  <1>6. PICK job \in JobRow : job = AtJob(j, "file_create") /\ job.at = "file_create" /\ GoesOn(j, job)
    BY AtJobIs DEF Places, Readers
  <1>7. JobOK(job) /\ HoldOK(entries', job) /\ job.at \notin Holding
    BY <1>1, <1>6 DEF JobOK, HoldOK, GoesOn, Settling, Moving, Holding
  <1>8. QED
    BY <1>3, <1>4, <1>5, <1>6, <1>7, KnownStep

LEMMA KnownCreateFiling ==
  ASSUME Known, NEW w \in Workers, CreateFiling(w)
  PROVE  Known'
  <1>1. PICK j \in JobRow : j = work[w] /\ JobOK(j) /\ j.at = "file_create"
    BY JobIs DEF CreateFiling, At
  <1>2. Filing(j) \in Seq(LegRow) /\ <<"file", 0>> \in Commands /\ Today \in Periods
    BY FilingIs, VatAssumption DEF Commands
  <1>3. PICK row \in EntryRow : /\ row = Draft(Filing(j), Today, <<"file", 0>>)
                                /\ row.state = "draft" /\ row.ref = <<"file", 0>> /\ row.postings.legs = Filing(j)
    BY <1>2, DraftIs
  <1>4. entries' = Append(entries, row) /\ UNCHANGED <<enabled, chart, returns, matched, loose, stale, crossed, bounds>>
    BY <1>1, <1>3 DEF CreateFiling, InsertDraft, Draft
  <1>5. PICK n \in Nat : /\ n = LastId + 1 /\ n \notin Ids /\ n \in DOMAIN entries' /\ entries'[n] = row
                         /\ entries' \in Seq(EntryRow) /\ Moves(entries, entries') /\ Ids' = Ids \cup {n}
    BY <1>4, Inserted
  <1>6. PICK job \in JobRow : job = HeldJob(j, "file_post", n) /\ job.at = "file_post" /\ job.entry = n /\ GoesOn(j, job)
    <2>1. "file_post" \in Places
      BY DEF Places, Readers
    <2>2. QED
      BY <2>1, HeldJobIs
  <1>7. Go(w, job)
    BY <1>1, <1>5, <1>6 DEF CreateFiling, HeldJob
  <1>8. JobOK(job)
    BY <1>1, <1>6 DEF JobOK, GoesOn, Settling, Moving
  <1>9. HoldOK(entries', job)
    <2>1. Filing(job) = Filing(j)
      BY <1>6, SameLegs
    <2>2. QED
      BY <1>3, <1>5, <1>6, <2>1 DEF HoldOK, Origin
  <1>10. Tables' /\ enabled'
    BY <1>1, <1>4, <1>5, Busy DEF Known, Tables
  <1>11. QED
    BY <1>5, <1>6, <1>7, <1>8, <1>9, <1>10, KnownStep

LEMMA KnownPostFiling ==
  ASSUME Known, NEW w \in Workers, PostFiling(w)
  PROVE  Known'
  <1>1. PICK job : job = Idle /\ JobOK(job) /\ HoldOK(entries', job) /\ job.at = "idle"
    BY IdleIs
  <1>2. QED
    BY <1>1, KnownPosts DEF PostFiling, At, Holding

LineJob(t, a) == [Idle EXCEPT !.at = "settle_read", !.line = t, !.account = a]

LEMMA LineJobIs ==
  ASSUME NEW t \in Lines, NEW k \in DOMAIN Settlement
  PROVE  /\ JobOK(LineJob(t, Settlement[k])) /\ LineJob(t, Settlement[k]).at = "settle_read"
         /\ LineJob(t, Settlement[k]).line = t
         /\ \A e : HoldOK(e, LineJob(t, Settlement[k]))
  <1>1. PICK q \in JobRow : q = Idle
    BY IdleIs DEF JobOK
  <1>2. PICK a \in Accounts : a = Settlement[k]
    BY SettlementAccounts
  <1>3. "settle_read" \in Places /\ t # 0
    BY VatAssumption DEF Places, Readers
  <1>4. PICK job : job = [q EXCEPT !.at = "settle_read", !.line = t, !.account = a]
    OBVIOUS
  <1>5. job \in JobRow /\ job.at = "settle_read" /\ job.line = t /\ job.account = a
    BY <1>3, <1>4 DEF JobRow
  <1>6. LineJob(t, Settlement[k]) = job
    BY <1>1, <1>2, <1>4 DEF LineJob
  <1>7. QED
    BY <1>2, <1>3, <1>5, <1>6 DEF JobOK, HoldOK, Settling, Moving, Holding

LEMMA KnownCheckLine ==
  ASSUME Known, NEW w \in Workers, NEW t \in Lines, NEW k \in DOMAIN Settlement, CheckLine(w, t, k)
  PROVE  Known'
  <1>1. PICK job : /\ job = LineJob(t, Settlement[k]) /\ JobOK(job) /\ job.at = "settle_read"
                   /\ \A e : HoldOK(e, job)
    BY LineJobIs
  <1>2. Go(w, job) /\ enabled'
    BY <1>1 DEF CheckLine, Start, LineJob
  <1>3. entries' = entries /\ Moves(entries, entries')
    BY NothingMoves DEF CheckLine
  <1>4. crossed' \subseteq Lines
    BY DEF CheckLine, Known, Tables
  <1>5. Tables'
    BY <1>3, <1>4 DEF Known, Tables, Ids, CheckLine, Start
  <1>6. QED
    BY <1>1, <1>2, <1>3, <1>5, KnownStep DEF Holding

BalanceJob(j, b) == [j EXCEPT !.at = "settle_create", !.input = b]

LEMMA BalanceJobIs ==
  ASSUME NEW j \in JobRow, NEW b \in Int
  PROVE  /\ BalanceJob(j, b) \in JobRow /\ BalanceJob(j, b).at = "settle_create" /\ BalanceJob(j, b).input = b
         /\ BalanceJob(j, b).line = j.line /\ BalanceJob(j, b).account = j.account
  BY DEF BalanceJob, JobRow, Places, Readers

LEMMA KnownReadBalance ==
  ASSUME Known, NEW w \in Workers, ReadBalance(w)
  PROVE  Known'
  <1>1. PICK j \in JobRow : j = work[w] /\ JobOK(j) /\ j.at = "settle_read"
    BY JobIs DEF ReadBalance, At
  <1>2. UNCHANGED <<enabled, chart, entries, returns, matched, loose, stale, crossed, bounds>>
    BY DEF ReadBalance
  <1>3. Tables' /\ Moves(entries, entries') /\ enabled'
    BY <1>1, <1>2, NothingMoves, Busy DEF Known, Tables, Ids
  <1>4. PICK b \in Int : b = Balance({j.account}, Ids)
    BY BalanceTyped DEF Known, Tables
  <1>5. CASE Settles(b, LineAmount(j.line))
    <2>1. PICK job \in JobRow : /\ job = BalanceJob(j, b) /\ job.at = "settle_create" /\ job.input = b
                                /\ job.line = j.line /\ job.account = j.account
      BY BalanceJobIs
    <2>2. Go(w, job)
      BY <1>1, <1>4, <1>5, <2>1 DEF ReadBalance, BalanceJob
    <2>3. JobOK(job) /\ HoldOK(entries', job) /\ job.at \notin Holding
      BY <1>1, <1>5, <2>1 DEF JobOK, HoldOK, Settles, Settling, Moving, Holding
    <2>4. QED
      BY <1>3, <2>1, <2>2, <2>3, KnownStep
  <1>6. CASE ~Settles(b, LineAmount(j.line))
    <2>1. Go(w, Idle) /\ work[w].at # "idle"
      BY <1>1, <1>4, <1>6 DEF ReadBalance
    <2>2. QED
      BY <1>2, <1>3, <2>1, KnownIdle
  <1>7. QED
    BY <1>5, <1>6

LEMMA KnownCreateSettlement ==
  ASSUME Known, NEW w \in Workers, CreateSettlement(w)
  PROVE  Known'
  <1>1. PICK j \in JobRow : j = work[w] /\ JobOK(j) /\ j.at = "settle_create"
    BY JobIs DEF CreateSettlement, At
  <1>2. j.line \in Lines
    BY <1>1 DEF JobOK, JobRow, Settling
  <1>3. PICK l \in Seq(LegRow), r \in Commands : l = SettlementLegs(j) /\ r = <<"settle", j.line>>
    BY <1>2, SettlementLegsAre DEF Commands
  <1>4. PICK row \in EntryRow : /\ row = Draft(l, Today, r)
                                /\ row.state = "draft" /\ row.ref = r /\ row.postings.legs = l
    BY VatAssumption, DraftIs
  <1>5. entries' = Append(entries, row) /\ UNCHANGED <<enabled, chart, returns, matched, loose, stale, crossed, bounds>>
    BY <1>1, <1>3, <1>4 DEF CreateSettlement, InsertDraft, Draft
  <1>6. PICK n \in Nat : /\ n = LastId + 1 /\ n \notin Ids /\ n \in DOMAIN entries' /\ entries'[n] = row
                         /\ entries' \in Seq(EntryRow) /\ Moves(entries, entries') /\ Ids' = Ids \cup {n}
    BY <1>5, Inserted
  <1>7. PICK job \in JobRow : job = HeldJob(j, "settle_post", n) /\ job.at = "settle_post" /\ job.entry = n /\ GoesOn(j, job)
    <2>1. "settle_post" \in Places
      BY DEF Places, Readers
    <2>2. QED
      BY <2>1, HeldJobIs
  <1>8. Go(w, job)
    BY <1>1, <1>6, <1>7 DEF CreateSettlement, HeldJob
  <1>9. JobOK(job)
    BY <1>1, <1>7 DEF JobOK, GoesOn, Settling, Moving
  <1>10. HoldOK(entries', job)
    <2>1. SettlementLegs(job) = SettlementLegs(j) /\ job.line = j.line
      BY <1>7, SameLegs DEF GoesOn
    <2>2. QED
      BY <1>3, <1>4, <1>6, <1>7, <2>1 DEF HoldOK, Origin
  <1>11. Tables' /\ enabled'
    BY <1>1, <1>5, <1>6, Busy DEF Known, Tables
  <1>12. QED
    BY <1>6, <1>7, <1>8, <1>9, <1>10, <1>11, KnownStep

LEMMA KnownPostSettlement ==
  ASSUME Known, NEW w \in Workers, PostSettlement(w)
  PROVE  Known'
  <1>1. PICK j \in JobRow : j = work[w] /\ JobOK(j) /\ j.at = "settle_post"
    BY JobIs DEF PostSettlement, At
  <1>2. j.entry \in Ids /\ entries[j.entry].ref = Origin(j)
    BY <1>1, HeldEntry DEF Holding
  <1>3. "settle_mark" \in Places
    BY DEF Places, Readers
  <1>4. PICK job \in JobRow : job = AtJob(j, "settle_mark") /\ job.at = "settle_mark" /\ job.entry = j.entry /\ GoesOn(j, job)
    BY <1>3, AtJobIs
  <1>5. Go(w, job) /\ MarkPosted(j.entry)
    BY <1>1, <1>4 DEF PostSettlement, AtJob
  <1>6. JobOK(job)
    BY <1>1, <1>4 DEF JobOK, GoesOn, Settling, Moving
  <1>7. HoldOK(entries', job)
    <2>1. j.entry \in DOMAIN entries' /\ entries'[j.entry].state = "posted" /\ entries'[j.entry].ref = Origin(j)
      BY <1>2, <1>5, Posted
    <2>2. Origin(job) = Origin(j)
      BY <1>1, <1>4 DEF Origin, GoesOn
    <2>3. QED
      BY <1>4, <2>1, <2>2 DEF HoldOK
  <1>8. work[w].at \in Holding
    BY <1>1 DEF Holding
  <1>9. UNCHANGED <<enabled, chart, returns, matched, loose, crossed, bounds>> /\ Overtakes(Workers \ {w})
    BY DEF PostSettlement
  <1>10. QED
    BY <1>1, <1>4, <1>5, <1>6, <1>7, <1>8, <1>9, KnownPosts

LEMMA KnownMarkLine ==
  ASSUME Known, NEW w \in Workers, MarkLine(w)
  PROVE  Known'
  <1>1. work[w].at = "settle_mark" /\ Go(w, Idle)
        /\ UNCHANGED <<enabled, chart, entries, returns, loose, stale, crossed, bounds>>
    BY DEF MarkLine, At
  <1>2. work[w].line \in Lines
    BY <1>1, JobIs DEF JobOK, JobRow, Settling
  <1>3. Tables'
    BY <1>1, <1>2 DEF Known, Tables, Ids, MarkLine
  <1>4. QED
    BY <1>1, <1>3, KnownIdle

LEMMA KnownStop ==
  ASSUME Known, NEW w \in Workers, Stop(w)
  PROVE  Known'
  <1>1. work[w].at # "idle" /\ Go(w, Idle)
        /\ UNCHANGED <<enabled, chart, entries, returns, matched, loose, stale, bounds>>
    BY DEF Stop, Refused, At
  <1>2. crossed' \subseteq Lines
    <2>1. work[w].at \in {"settle_post", "settle_mark"} => work[w].line \in Lines
      BY JobIs DEF JobOK, JobRow, Settling
    <2>2. QED
      BY <2>1 DEF Known, Tables, Stop
  <1>3. Tables'
    BY <1>1, <1>2 DEF Known, Tables, Ids
  <1>4. QED
    BY <1>1, <1>3, KnownIdle

LEMMA KnownPost ==
  ASSUME Known, NEW i \in Ids, Post(i)
  PROVE  Known'
  <1>1. entries' \in Seq(EntryRow) /\ Moves(entries, entries') /\ Ids' = Ids /\ i \in DOMAIN entries
    BY Posted DEF Post, Ids
  <1>2. stale' \subseteq Workers /\ crossed' \subseteq Lines
    BY DEF Post, Overtakes, Known, Tables
  <1>3. Tables'
    BY <1>1, <1>2 DEF Known, Tables, Post
  <1>4. ~enabled => entries' = entries
    <2>1. << >>[i] = << >>[i] /\ DOMAIN << >> = {}
      OBVIOUS
    <2>2. enabled
      BY <1>1, <2>1 DEF Known, Off
    <2>3. QED
      BY <2>2
  <1>5. QED
    BY <1>1, <1>3, <1>4, KnownOther DEF Post

Opposite(l) == [k \in DOMAIN l |-> [l[k] EXCEPT !.amount = -@, !.vat = -@]]

LEMMA OppositeIs ==
  ASSUME NEW l \in Seq(LegRow)
  PROVE  /\ Opposite(l) \in Seq(LegRow) /\ DOMAIN Opposite(l) = DOMAIN l
         /\ \A k \in DOMAIN l : /\ Opposite(l)[k].account = l[k].account /\ Opposite(l)[k].code = l[k].code
                                /\ Opposite(l)[k].amount = -l[k].amount /\ Opposite(l)[k].vat = -l[k].vat
  <1>1. Len(l) \in Nat /\ DOMAIN l = 1 .. Len(l) /\ \A k \in DOMAIN l : l[k] \in LegRow
    OBVIOUS
  <1>2. \A p \in LegRow : /\ [p EXCEPT !.amount = -@, !.vat = -@] \in LegRow
                          /\ [p EXCEPT !.amount = -@, !.vat = -@].account = p.account
                          /\ [p EXCEPT !.amount = -@, !.vat = -@].code = p.code
                          /\ [p EXCEPT !.amount = -@, !.vat = -@].amount = -p.amount
                          /\ [p EXCEPT !.amount = -@, !.vat = -@].vat = -p.vat
    <2> SUFFICES ASSUME NEW p \in LegRow, NEW q, q = [p EXCEPT !.amount = -@, !.vat = -@]
                 PROVE  q \in LegRow /\ q.account = p.account /\ q.code = p.code /\ q.amount = -p.amount /\ q.vat = -p.vat
      OBVIOUS
    <2>1. -p.amount \in Int /\ -p.vat \in Int
      BY DEF LegRow
    <2>2. q.account = p.account /\ q.code = p.code /\ q.amount = -p.amount /\ q.vat = -p.vat
      BY DEF LegRow
    <2>3. q \in LegRow
      BY <2>1 DEF LegRow
    <2>4. QED
      BY <2>2, <2>3
  <1>3. Opposite(l) \in [1 .. Len(l) -> LegRow]
    BY <1>1, <1>2 DEF Opposite
  <1>4. Opposite(l) \in Seq(LegRow) /\ DOMAIN Opposite(l) = DOMAIN l
    BY <1>1, <1>3, FunctionsAreLists
  <1>5. \A k \in DOMAIN l : /\ Opposite(l)[k].account = l[k].account /\ Opposite(l)[k].code = l[k].code
                            /\ Opposite(l)[k].amount = -l[k].amount /\ Opposite(l)[k].vat = -l[k].vat
    BY <1>1, <1>2 DEF Opposite
  <1>6. QED
    BY <1>4, <1>5

Contra(row, i) ==
  [state |-> "posted", postings |-> Negated(row.postings), source |-> "reversal", ref |-> <<"reverse", 0>>, reversedFrom |-> i]

LEMMA ContraIs ==
  ASSUME NEW row \in EntryRow, NEW i \in Nat
  PROVE  /\ Contra(row, i) \in EntryRow /\ Contra(row, i).ref = <<"reverse", 0>> /\ Contra(row, i).state = "posted"
         /\ Contra(row, i).postings.legs = Opposite(row.postings.legs)
         /\ Contra(row, i).postings.period = row.postings.period
  <1>1. PICK q : q = row.postings /\ q \in [period : Periods, legs : Seq(LegRow)]
    BY DEF EntryRow, LegRow
  <1>2. PICK m \in Seq(LegRow) : m = Opposite(q.legs)
    BY <1>1, OppositeIs
  <1>3. Negated(q) = [q EXCEPT !.legs = m]
    BY <1>2 DEF Negated, Opposite
  <1>4. Negated(q) \in [period : Periods, legs : Seq(LegRow)] /\ Negated(q).legs = m /\ Negated(q).period = q.period
    BY <1>1, <1>3
  <1>5. <<"reverse", 0>> \in Commands
    BY DEF Commands
  <1>6. QED
    BY <1>1, <1>2, <1>4, <1>5 DEF Contra, EntryRow, LegRow

\* What a reversal inserts.
LEMMA Reversing ==
  ASSUME Known, NEW i \in Ids, Reverse(i)
  PROVE  /\ entries[i] \in EntryRow /\ entries[i].state = "posted" /\ i \in Nat
         /\ Contra(entries[i], i) \in EntryRow
         /\ entries' = Append(entries, Contra(entries[i], i))
         /\ enabled
         /\ Overtakes(Workers) /\ UNCHANGED <<enabled, chart, returns, matched, work, loose, crossed, bounds>>
  <1>1. entries[i] \in EntryRow /\ i \in Nat
    BY JournalIs DEF Known, Tables, Ids
  <1>2. Contra(entries[i], i) \in EntryRow
    BY <1>1, ContraIs
  <1>3. entries[i].state = "posted" /\ entries' = Append(entries, Contra(entries[i], i))
    BY DEF Reverse, InsertReversal, IsPosted, Contra
  <1>4. enabled
    <2>1. DOMAIN << >> = {}
      OBVIOUS
    <2>2. QED
      BY <2>1 DEF Known, Off, Ids
  <1>5. QED
    BY <1>1, <1>2, <1>3, <1>4 DEF Reverse

LEMMA KnownReverse ==
  ASSUME Known, NEW i \in Ids, Reverse(i)
  PROVE  Known'
  <1>1. PICK row \in EntryRow : row = Contra(entries[i], i) /\ entries' = Append(entries, row)
    BY Reversing
  <1>2. entries' \in Seq(EntryRow) /\ Moves(entries, entries') /\ Ids' = Ids \cup {LastId + 1}
    BY <1>1, Inserted
  <1>3. stale' \subseteq Workers
    BY Reversing DEF Overtakes, Known, Tables
  <1>4. Tables' /\ enabled' = enabled /\ enabled /\ work' = work
    BY <1>2, <1>3, Reversing DEF Known, Tables
  <1>5. QED
    BY <1>2, <1>4, KnownOther

LEMMA KnownTakeCode ==
  ASSUME Known, NEW k \in bounds.taken, TakeCode(k)
  PROVE  Known'
  <1>1. entries' = entries /\ Moves(entries, entries') /\ stale' \subseteq Workers
    BY NothingMoves DEF TakeCode, Overtakes, Known, Tables
  <1>2. Tables'
    BY <1>1 DEF Known, Tables, TakeCode, Ids
  <1>3. QED
    BY <1>1, <1>2, KnownOther DEF TakeCode

LEMMA KnownMatchLine ==
  ASSUME Known, NEW t \in Lines, MatchLine(t)
  PROVE  Known'
  <1>1. entries' = entries /\ Moves(entries, entries') /\ crossed' \subseteq Lines
    BY NothingMoves DEF MatchLine, Known, Tables
  <1>2. Tables'
    BY <1>1 DEF Known, Tables, MatchLine, Ids
  <1>3. QED
    BY <1>1, <1>2, KnownOther DEF MatchLine

LEMMA KnownStutter ==
  ASSUME Known, UNCHANGED vars
  PROVE  Known'
  <1>1. entries' = entries /\ Moves(entries, entries') /\ work' = work /\ enabled' = enabled
    BY NothingMoves DEF vars
  <1>2. Tables'
    BY DEF vars, Known, Tables, Ids
  <1>3. QED
    BY <1>1, <1>2, KnownOther

LEMMA KnownNext ==
  ASSUME Known, [Next]_vars
  PROVE  Known'
  <1>1. ASSUME NEW w \in Workers, Step(w)
        PROVE  Known'
    BY <1>1, KnownBook, KnownTag, KnownEndTagging, KnownPostBooked, KnownReadReturn, KnownStoreReturn,
       KnownReadInput, KnownReadOutput, KnownEnsureAccount, KnownCreateFiling, KnownPostFiling, KnownCheckLine,
       KnownReadBalance, KnownCreateSettlement, KnownPostSettlement, KnownMarkLine, KnownStop
       DEF Step
  <1>2. QED
    BY <1>1, KnownEnable, KnownPost, KnownReverse, KnownTakeCode, KnownMatchLine, KnownStutter DEF Next

LEMMA KnownInit ==
  ASSUME Init
  PROVE  Known
  <1>1. entries = << >> /\ << >> \in Seq(EntryRow) /\ DOMAIN << >> = {}
    BY DEF Init
  <1>2. Tables
    BY <1>1 DEF Init, Tables, Ids
  <1>3. \A w \in Workers : work[w] = Idle
    BY DEF Init
  <1>4. Jobs /\ Held
    <2>1. JobOK(Idle) /\ HoldOK(entries, Idle) /\ Idle.at = "idle" /\ Idle \in JobRow
      BY IdleIs DEF JobOK
    <2>2. Jobs
      BY <1>3, <2>1 DEF Jobs, Init
    <2>3. Held
      BY <1>3, <2>1 DEF Held, Holding
    <2>4. QED
      BY <2>2, <2>3
  <1>5. Off
    BY <1>1, <1>3, IdleIs DEF Off
  <1>6. QED
    BY <1>2, <1>4, <1>5 DEF Known

LEMMA KnownTypes ==
  ASSUME Known
  PROVE  TypeOK
  <1>1. ASSUME NEW w \in Workers
        PROVE  /\ work[w].at \in Readers \cup {"idle", "tag", "post", "store"}
               /\ work[w].at \in {"tag", "post", "file_post", "settle_post", "settle_mark"} => work[w].entry \in Ids
               /\ work[w].at = "settle_mark" => IsPosted(work[w].entry)
               /\ (work[w].at \in Settling) = (work[w].line # 0)
    <2>1. PICK j \in JobRow : j = work[w] /\ JobOK(j) /\ HoldOK(entries, j)
      BY JobIs
    <2>2. j.at \in Places
      BY DEF JobRow
    <2>3. QED
      BY <2>1, <2>2 DEF JobOK, HoldOK, Holding, Places, IsPosted, Ids
  <1>2. QED
    BY <1>1 DEF Known, Tables, Off, TypeOK

\* The types of the VAT module's state hold in every state, however booking,
\* filing, settling and other commands interleave and wherever a process stops.
THEOREM TypeCorrect == Spec => []TypeOK
  <1>1. Init => Known
    BY KnownInit
  <1>2. Known /\ [Next]_vars => Known'
    BY KnownNext
  <1>3. Known => TypeOK
    BY KnownTypes
  <1>4. QED
    BY <1>1, <1>2, <1>3, PTL DEF Spec

----------------------------------------------------------------------------------
(* A line pays once. *)

SettledIn(e, t) == {i \in DOMAIN e : e[i].ref = <<"settle", t>> /\ e[i].state = "posted"}

LEMMA SettledIs ==
  \A t : SettledBy(t) = SettledIn(entries, t) /\ SettledBy(t)' = SettledIn(entries', t)
  BY DEF SettledBy, SettledIn, Ids, IsPosted

\* A line that is not crossed has one process at most; while it has one it is
\* not matched, and a settlement that is posted is that process's own.
Calm(t) ==
  /\ \A v, w \in Workers : work[v].line = t /\ work[w].line = t => v = w
  /\ \A w \in Workers : work[w].line = t => t \notin matched
  /\ \A i \in SettledBy(t) : t \in matched \/ \E w \in Workers : At(w, "settle_mark") /\ work[w].line = t
  /\ \A i, j \in SettledBy(t) : i = j

Calms == \A t \in Lines \ crossed : Calm(t)

\* No line gets a process or a settlement, and none is left half-way.
LEMMA CalmQuiet ==
  ASSUME Known, Calms, crossed \subseteq crossed', matched' = matched,
         \A t \in Lines \ crossed' : SettledIn(entries', t) \subseteq SettledIn(entries, t),
         \A v \in Workers : work'[v].line \in {work[v].line, 0},
         \A v \in Workers : At(v, "settle_mark") => work'[v] = work[v] \/ work[v].line \in crossed'
  PROVE  Calms'
  <1> SUFFICES ASSUME NEW t \in Lines, t \notin crossed'
               PROVE  Calm(t)'
    BY DEF Calms
  <1>1. Calm(t) /\ t # 0
    BY VatAssumption DEF Calms
  <1>2. \A v \in Workers : work'[v].line = t => work[v].line = t
    BY <1>1
  <1>3. \A v, w \in Workers : work'[v].line = t /\ work'[w].line = t => v = w
    BY <1>1, <1>2 DEF Calm
  <1>4. \A w \in Workers : work'[w].line = t => t \notin matched'
    BY <1>1, <1>2 DEF Calm
  <1>5. SettledIn(entries', t) \subseteq SettledIn(entries, t)
    OBVIOUS
  <1>6. \A i \in SettledIn(entries', t) :
          t \in matched' \/ \E w \in Workers : work'[w].at = "settle_mark" /\ work'[w].line = t
    <2> SUFFICES ASSUME NEW i \in SettledIn(entries', t), t \notin matched'
                 PROVE  \E w \in Workers : work'[w].at = "settle_mark" /\ work'[w].line = t
      OBVIOUS
    <2>1. PICK w \in Workers : At(w, "settle_mark") /\ work[w].line = t
      BY <1>1, <1>5, SettledIs DEF Calm
    <2>2. work'[w] = work[w]
      BY <2>1
    <2>3. QED
      BY <2>1, <2>2 DEF At
  <1>7. \A i, j \in SettledIn(entries', t) : i = j
    BY <1>1, <1>5, SettledIs DEF Calm
  <1>8. QED
    BY <1>3, <1>4, <1>6, <1>7, SettledIs DEF Calm, At

\* What a process that goes on or gives up leaves alone.
LEMMA Gone ==
  ASSUME Known, NEW w \in Workers, NEW job, Go(w, job)
  PROVE  work'[w] = job /\ \A v \in Workers : v # w => work'[v] = work[v]
  BY DEF Go, Known, Jobs

LEMMA CalmStep ==
  ASSUME Known, Calms, NEW w \in Workers, NEW job, Go(w, job), job.line \in {work[w].line, 0},
         work[w].at # "settle_mark", UNCHANGED <<crossed, matched>>,
         \A t \in Lines : SettledIn(entries', t) \subseteq SettledIn(entries, t)
  PROVE  Calms'
  <1>1. work'[w] = job /\ \A v \in Workers : v # w => work'[v] = work[v]
    BY Gone
  <1>2. \A v \in Workers : work'[v].line \in {work[v].line, 0}
    BY <1>1
  <1>3. \A v \in Workers : At(v, "settle_mark") => work'[v] = work[v]
    BY <1>1 DEF At
  <1>4. QED
    BY <1>2, <1>3, CalmQuiet

\* Nothing becomes settled by entries that are not posted or not settlements.
LEMMA SettledAppend ==
  ASSUME Known, NEW row \in EntryRow, entries' = Append(entries, row),
         row.state = "draft" \/ row.ref = <<"reverse", 0>>
  PROVE  \A t \in Lines : SettledIn(entries', t) \subseteq SettledIn(entries, t)
  <1>1. /\ DOMAIN entries' = Ids \cup {LastId + 1} /\ entries'[LastId + 1] = row
        /\ \A i \in Ids : entries'[i] = entries[i]
    BY Inserted
  <1>2. \A t : ~(row.state = "posted" /\ row.ref = <<"settle", t>>)
    OBVIOUS
  <1>3. QED
    BY <1>1, <1>2 DEF SettledIn, Ids

LEMMA SettledMark ==
  ASSUME Known, NEW i \in Ids, MarkPosted(i), NEW t, entries[i].ref # <<"settle", t>>
  PROVE  SettledIn(entries', t) \subseteq SettledIn(entries, t)
  BY Posted DEF SettledIn, Ids

LEMMA SettledTag ==
  ASSUME Known, NEW w \in Workers, TagPosting(w)
  PROVE  \A t \in Lines : SettledIn(entries', t) \subseteq SettledIn(entries, t)
  <1>1. PICK i \in Ids, s \in TaggedRow, k \in Nat : MayTag(entries, i, k, s) /\ entries' = TaggedAt(entries, i, k, s)
    <2>1. \E i \in Ids, s \in TaggedRow, k \in Nat :
            /\ k \in DOMAIN entries[i].postings.legs
            /\ entries[i].state = "draft" /\ entries[i].ref = Booked
            /\ entries' = TaggedAt(entries, i, k, s)
      BY Tagging
    <2>2. QED
      BY <2>1 DEF MayTag, Ids, Known, Tables
  <1>2. PICK e : e = entries
    OBVIOUS
  <1>3. /\ DOMAIN TaggedAt(e, i, k, s) = DOMAIN e /\ TaggedAt(e, i, k, s)[i].state = "draft"
        /\ \A j \in DOMAIN e : j # i => TaggedAt(e, i, k, s)[j] = e[j]
    <2>1. MayTag(e, i, k, s)
      BY <1>1, <1>2
    <2>2. QED
      BY <2>1, TagMoves
  <1>4. QED
    BY <1>1, <1>2, <1>3 DEF SettledIn

\* The steps of a process that do not begin, pay or mark a line.
Plain(w) ==
  \/ \E l \in bounds.lists, p \in bounds.periods, post \in bounds.posts : BookVatEntry(w, l, p, post)
  \/ TagPosting(w) \/ EndTagging(w) \/ PostBooked(w)
  \/ \E p \in bounds.periods : ReadReturn(w, p)
  \/ StoreReturn(w) \/ ReadInput(w) \/ ReadOutput(w) \/ EnsureAccount(w)
  \/ CreateFiling(w) \/ PostFiling(w) \/ ReadBalance(w) \/ CreateSettlement(w)

LEMMA SettledKept ==
  ASSUME entries' = entries
  PROVE  \A t \in Lines : SettledIn(entries', t) \subseteq SettledIn(entries, t)
  OBVIOUS

LEMMA CalmPlain ==
  ASSUME Known, Calms, NEW w \in Workers, Plain(w)
  PROVE  Calms'
  <1>1. PICK j \in JobRow : j = work[w]
    BY JobIs
  <1>2. Idle.line = 0
    BY IdleIs
  <1>3. ASSUME NEW l \in bounds.lists, NEW p \in bounds.periods, NEW post \in bounds.posts, BookVatEntry(w, l, p, post)
        PROVE  Calms'
    <2>1. PICK job : job = BookJob(LastId + 1, l, post) /\ Go(w, job) /\ job.line = 0
      <3>1. Go(w, BookJob(LastId + 1, l, post)) /\ l \in Seq(Row) /\ post \in BOOLEAN
        BY <1>3, Booking
      <3>2. LastId + 1 \in Nat
        BY DEF LastId, Known, Tables
      <3>3. BookJob(LastId + 1, l, post).line = 0
        BY <3>1, <3>2, BookJobIs
      <3>4. QED
        BY <3>1, <3>3
    <2>2. PICK row \in EntryRow : row.state = "draft" /\ entries' = Append(entries, row)
      <3>1. Draft(Expand(l), p, Booked) \in EntryRow /\ entries' = Append(entries, Draft(Expand(l), p, Booked))
        BY <1>3, Booking
      <3>2. QED
        BY <3>1 DEF Draft
    <2>3. \A t \in Lines : SettledIn(entries', t) \subseteq SettledIn(entries, t)
      BY <2>2, SettledAppend
    <2>4. work[w].at # "settle_mark" /\ UNCHANGED <<crossed, matched>>
      BY <1>3, Booking
    <2>5. QED
      BY <2>1, <2>3, <2>4, CalmStep
  <1>4. CASE TagPosting(w)
    <2>1. PICK job : job = [j EXCEPT !.next = @ + 1] /\ Go(w, job) /\ job.line = j.line
      BY <1>1, <1>4 DEF TagPosting, JobRow
    <2>2. work[w].at # "settle_mark" /\ UNCHANGED <<crossed, matched>>
      BY <1>4 DEF TagPosting, At
    <2>3. QED
      BY <1>1, <1>4, <2>1, <2>2, SettledTag, CalmStep
  <1>5. CASE EndTagging(w)
    <2>1. PICK job : Go(w, job) /\ job.line = 0
      <3>1. j.entry \in Nat
        BY DEF JobRow
      <3>2. PostJob(j.entry).line = 0
        BY <3>1, PostJobIs
      <3>3. Go(w, IF j.post THEN PostJob(j.entry) ELSE Idle)
        BY <1>1, <1>5 DEF EndTagging, PostJob
      <3>4. QED
        BY <1>2, <3>2, <3>3
    <2>2. work[w].at # "settle_mark" /\ UNCHANGED <<crossed, matched, entries>>
      BY <1>5 DEF EndTagging, At
    <2>3. QED
      BY <2>1, <2>2, SettledKept, CalmStep
  <1>6. CASE PostBooked(w) \/ PostFiling(w)
    <2>1. PICK job : job = Idle /\ Go(w, job)
      BY <1>6 DEF PostBooked, PostFiling
    <2>2. j.at \in {"post", "file_post"} /\ UNCHANGED <<crossed, matched>> /\ MarkPosted(j.entry)
      BY <1>1, <1>6 DEF PostBooked, PostFiling, At
    <2>3. j.entry \in Ids /\ entries[j.entry].ref = Origin(j)
      BY <1>1, <2>2, HeldEntry DEF Holding
    <2>4. \A t \in Lines : Origin(j) # <<"settle", t>>
      BY <2>2 DEF Origin
    <2>5. \A t \in Lines : SettledIn(entries', t) \subseteq SettledIn(entries, t)
      BY <2>2, <2>3, <2>4, SettledMark
    <2>6. QED
      BY <1>1, <1>2, <2>1, <2>2, <2>5, CalmStep
  <1>7. ASSUME NEW p \in bounds.periods, ReadReturn(w, p)
        PROVE  Calms'
    <2>1. PICK q \in JobRow : q = Idle
      BY IdleIs DEF JobOK
    <2>2. PICK job : job = [q EXCEPT !.at = "store", !.period = p, !.fields = Readout(p)] /\ Go(w, job)
      BY <1>7, <2>1 DEF ReadReturn, Start
    <2>3. job.line = 0
      BY <1>2, <2>1, <2>2 DEF JobRow
    <2>4. work[w].at # "settle_mark" /\ UNCHANGED <<crossed, matched, entries>>
      BY <1>7 DEF ReadReturn, Start, At
    <2>5. QED
      BY <2>2, <2>3, <2>4, SettledKept, CalmStep
  <1>8. CASE StoreReturn(w)
    <2>1. PICK job : job = Idle /\ Go(w, job)
      BY <1>8 DEF StoreReturn
    <2>2. work[w].at # "settle_mark" /\ UNCHANGED <<crossed, matched, entries>>
      BY <1>8 DEF StoreReturn, At
    <2>3. QED
      BY <1>2, <2>1, <2>2, SettledKept, CalmStep
  <1>9. CASE ReadInput(w)
    <2>1. PICK b \in Int : b = Balance({Input}, Ids)
      BY BalanceTyped DEF Known, Tables
    <2>2. PICK job : job = InputJob(b) /\ Go(w, job)
      BY <1>9, <2>1 DEF ReadInput, Start, InputJob
    <2>3. job.line = 0
      BY <2>2, InputJobIs
    <2>4. work[w].at # "settle_mark" /\ UNCHANGED <<crossed, matched, entries>>
      BY <1>9 DEF ReadInput, Start, At
    <2>5. QED
      BY <2>2, <2>3, <2>4, SettledKept, CalmStep
  <1>10. CASE ReadOutput(w)
    <2>1. PICK job : Go(w, job) /\ job.line \in {work[w].line, 0}
      BY <1>2, <1>10, Reading
    <2>2. work[w].at # "settle_mark" /\ UNCHANGED <<crossed, matched, entries>>
      BY <1>10 DEF ReadOutput, At
    <2>3. QED
      BY <2>1, <2>2, SettledKept, CalmStep
  <1>11. CASE EnsureAccount(w)
    <2>1. PICK job : job = [j EXCEPT !.at = "file_create"] /\ Go(w, job)
      BY <1>1, <1>11 DEF EnsureAccount
    <2>2. job.line = j.line
      BY <2>1 DEF JobRow
    <2>3. work[w].at # "settle_mark" /\ UNCHANGED <<crossed, matched, entries>>
      BY <1>11 DEF EnsureAccount, At
    <2>4. QED
      BY <1>1, <2>1, <2>2, <2>3, SettledKept, CalmStep
  <1>12. CASE CreateFiling(w) \/ CreateSettlement(w)
    <2>1. PICK place : place \in {"file_post", "settle_post"} /\ Go(w, [j EXCEPT !.at = place, !.entry = LastId + 1])
      BY <1>1, <1>12 DEF CreateFiling, CreateSettlement
    <2>2. PICK job : job = [j EXCEPT !.at = place, !.entry = LastId + 1] /\ Go(w, job)
      BY <2>1
    <2>3. job.line = j.line
      BY <2>2 DEF JobRow
    <2>4. work[w].at # "settle_mark" /\ UNCHANGED <<crossed, matched>>
      BY <1>12 DEF CreateFiling, CreateSettlement, At
    <2>5. PICK row \in EntryRow : row.state = "draft" /\ entries' = Append(entries, row)
      <3>1. CASE CreateFiling(w)
        <4>1. Filing(j) \in Seq(LegRow) /\ <<"file", 0>> \in Commands /\ Today \in Periods
          BY FilingIs, VatAssumption DEF Commands
        <4>2. Draft(Filing(j), Today, <<"file", 0>>) \in EntryRow /\ Draft(Filing(j), Today, <<"file", 0>>).state = "draft"
          BY <4>1, DraftIs
        <4>3. QED
          BY <1>1, <3>1, <4>2 DEF CreateFiling, InsertDraft, Draft
      <3>2. CASE CreateSettlement(w)
        <4>1. j.line \in Lines
          BY <1>1, <3>2, JobIs DEF CreateSettlement, At, JobOK, JobRow, Settling
        <4>2. PICK l \in Seq(LegRow), r \in Commands : l = SettlementLegs(j) /\ r = <<"settle", j.line>>
          BY <4>1, SettlementLegsAre DEF Commands
        <4>3. Draft(l, Today, r) \in EntryRow /\ Draft(l, Today, r).state = "draft"
          BY VatAssumption, DraftIs
        <4>4. QED
          BY <1>1, <3>2, <4>2, <4>3 DEF CreateSettlement, InsertDraft, Draft
      <3>3. QED
        BY <1>12, <3>1, <3>2
    <2>6. \A t \in Lines : SettledIn(entries', t) \subseteq SettledIn(entries, t)
      BY <2>5, SettledAppend
    <2>7. QED
      BY <1>1, <2>2, <2>3, <2>4, <2>6, CalmStep
  <1>13. CASE ReadBalance(w)
    <2>1. PICK b : b = Balance({j.account}, Ids)
      OBVIOUS
    <2>2. PICK job : job \in {[j EXCEPT !.at = "settle_create", !.input = b], Idle} /\ Go(w, job)
      BY <1>1, <1>13, <2>1 DEF ReadBalance
    <2>3. job.line \in {j.line, 0}
      BY <1>2, <2>2 DEF JobRow
    <2>4. work[w].at # "settle_mark" /\ UNCHANGED <<crossed, matched, entries>>
      BY <1>13 DEF ReadBalance, At
    <2>5. QED
      BY <1>1, <2>2, <2>3, <2>4, SettledKept, CalmStep
  <1>14. QED
    BY <1>3, <1>4, <1>5, <1>6, <1>7, <1>8, <1>9, <1>10, <1>11, <1>12, <1>13 DEF Plain

LEMMA CalmCheckLine ==
  ASSUME Known, Calms, NEW w \in Workers, NEW t \in Lines, NEW k \in DOMAIN Settlement, CheckLine(w, t, k)
  PROVE  Calms'
  <1>1. PICK job : job = LineJob(t, Settlement[k]) /\ Go(w, job) /\ job.line = t /\ job.at = "settle_read"
    <2>1. Go(w, LineJob(t, Settlement[k]))
      BY DEF CheckLine, Start, LineJob
    <2>2. QED
      BY <2>1, LineJobIs
  <1>2. work'[w] = job /\ \A v \in Workers : v # w => work'[v] = work[v]
    BY <1>1, Gone
  <1>3. t \notin matched /\ matched' = matched /\ entries' = entries /\ crossed \subseteq crossed'
        /\ work[w].at = "idle" /\ (t \notin crossed' => ~Works(t))
    BY DEF CheckLine, Unmatched, Start, At
  <1>4. work[w].line = 0
    BY <1>3, JobIs DEF JobOK, Settling
  <1> SUFFICES ASSUME NEW u \in Lines, u \notin crossed'
               PROVE  Calm(u)'
    BY DEF Calms
  <1>5. Calm(u) /\ u # 0
    BY <1>3, VatAssumption DEF Calms
  <1>6. \A v, x \in Workers : work'[v].line = u /\ work'[x].line = u => v = x
    <2>1. CASE u = t
      BY <1>1, <1>2, <1>3, <2>1 DEF Works
    <2>2. CASE u # t
      BY <1>1, <1>2, <1>5, <2>2 DEF Calm
    <2>3. QED
      BY <2>1, <2>2
  <1>7. \A v \in Workers : work'[v].line = u => u \notin matched'
    BY <1>1, <1>2, <1>3, <1>5 DEF Calm
  <1>8. SettledIn(entries', u) = SettledIn(entries, u)
    BY <1>3
  <1>9. \A i \in SettledIn(entries', u) :
          u \in matched' \/ \E v \in Workers : work'[v].at = "settle_mark" /\ work'[v].line = u
    <2> SUFFICES ASSUME NEW i \in SettledIn(entries', u), u \notin matched'
                 PROVE  \E v \in Workers : work'[v].at = "settle_mark" /\ work'[v].line = u
      OBVIOUS
    <2>1. PICK v \in Workers : At(v, "settle_mark") /\ work[v].line = u
      BY <1>3, <1>5, <1>8, SettledIs DEF Calm
    <2>2. v # w
      BY <1>3, <2>1 DEF At
    <2>3. QED
      BY <1>2, <2>1, <2>2 DEF At
  <1>10. \A i, j \in SettledIn(entries', u) : i = j
    BY <1>5, <1>8, SettledIs DEF Calm
  <1>11. QED
    BY <1>6, <1>7, <1>9, <1>10, SettledIs DEF Calm, At

\* The process is the only one on its line, so nothing has settled it before.
LEMMA CalmPostSettlement ==
  ASSUME Known, Calms, NEW w \in Workers, PostSettlement(w)
  PROVE  Calms'
  <1>1. PICK j \in JobRow : j = work[w] /\ j.at = "settle_post" /\ JobOK(j)
    BY JobIs DEF PostSettlement, At
  <1>2. PICK i \in Ids, t \in Lines : i = j.entry /\ t = j.line /\ entries[i].ref = <<"settle", t>>
    <2>1. j.line \in Lines
      BY <1>1 DEF JobOK, JobRow, Settling
    <2>2. j.entry \in Ids /\ entries[j.entry].ref = <<"settle", j.line>>
      BY <1>1, HeldEntry DEF Holding, Origin
    <2>3. QED
      BY <2>1, <2>2
  <1>3. MarkPosted(i) /\ crossed' = crossed /\ matched' = matched
    BY <1>1, <1>2 DEF PostSettlement
  <1>4. PICK job : job = [j EXCEPT !.at = "settle_mark"] /\ Go(w, job) /\ job.line = t /\ job.at = "settle_mark"
    BY <1>1, <1>2 DEF PostSettlement, JobRow
  <1>5. work'[w] = job /\ \A v \in Workers : v # w => work'[v] = work[v]
    BY <1>4, Gone
  <1> SUFFICES ASSUME NEW u \in Lines, u \notin crossed'
               PROVE  Calm(u)'
    BY DEF Calms
  <1>6. Calm(u)
    BY <1>3 DEF Calms
  <1>7. \A v \in Workers : work'[v].line = work[v].line
    BY <1>1, <1>2, <1>4, <1>5
  <1>8. /\ \A v, x \in Workers : work'[v].line = u /\ work'[x].line = u => v = x
        /\ \A v \in Workers : work'[v].line = u => u \notin matched'
    BY <1>3, <1>6, <1>7 DEF Calm
  <1>9. CASE u = t
    <2>1. t \notin matched /\ \A v \in Workers : work[v].line = t => v = w
      BY <1>1, <1>2, <1>6, <1>9 DEF Calm
    <2>2. SettledIn(entries, t) = {}
      BY <1>1, <1>6, <1>9, <2>1, SettledIs DEF Calm, At
    <2>3. SettledIn(entries', t) \subseteq {i}
      BY <1>3, <2>2, Posted DEF SettledIn, Ids
    <2>4. \A m \in SettledIn(entries', t) : \E v \in Workers : work'[v].at = "settle_mark" /\ work'[v].line = t
      BY <1>4, <1>5
    <2>5. \A m, n \in SettledIn(entries', t) : m = n
      BY <2>3
    <2>6. QED
      BY <1>8, <1>9, <2>4, <2>5, SettledIs DEF Calm, At
  <1>10. CASE u # t
    <2>1. SettledIn(entries', u) \subseteq SettledIn(entries, u)
      <3>1. entries[i].ref # <<"settle", u>>
        BY <1>2, <1>10
      <3>2. QED
        BY <1>3, <3>1, SettledMark
    <2>2. \A m \in SettledIn(entries', u) :
            u \in matched' \/ \E v \in Workers : work'[v].at = "settle_mark" /\ work'[v].line = u
      <3> SUFFICES ASSUME NEW m \in SettledIn(entries', u), u \notin matched'
                   PROVE  \E v \in Workers : work'[v].at = "settle_mark" /\ work'[v].line = u
        OBVIOUS
      <3>1. PICK v \in Workers : At(v, "settle_mark") /\ work[v].line = u
        BY <1>3, <1>6, <2>1, SettledIs DEF Calm
      <3>2. v # w
        BY <1>1, <3>1 DEF At
      <3>3. QED
        BY <1>5, <3>1, <3>2 DEF At
    <2>3. \A m, n \in SettledIn(entries', u) : m = n
      BY <1>6, <2>1, SettledIs DEF Calm
    <2>4. QED
      BY <1>8, <2>2, <2>3, SettledIs DEF Calm, At
  <1>11. QED
    BY <1>9, <1>10

LEMMA CalmMarkLine ==
  ASSUME Known, Calms, NEW w \in Workers, MarkLine(w)
  PROVE  Calms'
  <1>1. PICK t \in Lines : t = work[w].line /\ work[w].at = "settle_mark"
    BY JobIs DEF MarkLine, At, JobOK, JobRow, Settling
  <1>2. matched' = matched \cup {t} /\ entries' = entries /\ crossed' = crossed /\ Go(w, Idle)
    BY <1>1 DEF MarkLine
  <1>3. work'[w].line = 0 /\ \A v \in Workers : v # w => work'[v] = work[v]
    BY <1>2, Gone, IdleIs
  <1> SUFFICES ASSUME NEW u \in Lines, u \notin crossed'
               PROVE  Calm(u)'
    BY DEF Calms
  <1>4. Calm(u) /\ u # 0
    BY <1>2, VatAssumption DEF Calms
  <1>5. \A v \in Workers : work'[v].line = u => v # w /\ work[v].line = u
    BY <1>3, <1>4
  <1>6. \A v, x \in Workers : work'[v].line = u /\ work'[x].line = u => v = x
    BY <1>4, <1>5 DEF Calm
  <1>7. \A v \in Workers : work'[v].line = u => u \notin matched'
    <2>1. u = t => \A v \in Workers : ~(work'[v].line = u)
      BY <1>1, <1>4, <1>5 DEF Calm
    <2>2. QED
      BY <1>2, <1>4, <1>5, <2>1 DEF Calm
  <1>8. SettledIn(entries', u) = SettledIn(entries, u)
    BY <1>2
  <1>9. \A i \in SettledIn(entries', u) :
          u \in matched' \/ \E v \in Workers : work'[v].at = "settle_mark" /\ work'[v].line = u
    <2> SUFFICES ASSUME NEW i \in SettledIn(entries', u), u \notin matched'
                 PROVE  \E v \in Workers : work'[v].at = "settle_mark" /\ work'[v].line = u
      OBVIOUS
    <2>1. PICK v \in Workers : At(v, "settle_mark") /\ work[v].line = u
      BY <1>2, <1>4, <1>8, SettledIs DEF Calm
    <2>2. v # w
      BY <1>1, <1>2, <2>1
    <2>3. QED
      BY <1>3, <2>1, <2>2 DEF At
  <1>10. \A i, j \in SettledIn(entries', u) : i = j
    BY <1>4, <1>8, SettledIs DEF Calm
  <1>11. QED
    BY <1>6, <1>7, <1>9, <1>10, SettledIs DEF Calm, At

\* One that dies with a settlement to post or a line to mark leaves it crossed.
LEMMA CalmStop ==
  ASSUME Known, Calms, NEW w \in Workers, Stop(w)
  PROVE  Calms'
  <1>1. Go(w, Idle) /\ matched' = matched /\ entries' = entries /\ crossed \subseteq crossed'
        /\ (work[w].at = "settle_mark" => work[w].line \in crossed')
    BY DEF Stop
  <1>2. work'[w].line = 0 /\ \A v \in Workers : v # w => work'[v] = work[v]
    BY <1>1, Gone, IdleIs
  <1>3. \A v \in Workers : work'[v].line \in {work[v].line, 0}
    BY <1>2
  <1>4. \A v \in Workers : At(v, "settle_mark") => work'[v] = work[v] \/ work[v].line \in crossed'
    BY <1>1, <1>2 DEF At
  <1>5. \A t \in Lines \ crossed' : SettledIn(entries', t) \subseteq SettledIn(entries, t)
    BY <1>1
  <1>6. QED
    BY <1>1, <1>3, <1>4, <1>5, CalmQuiet

LEMMA CalmStill ==
  ASSUME Known, Calms, work' = work, matched' = matched, crossed \subseteq crossed',
         \A t \in Lines \ crossed' : SettledIn(entries', t) \subseteq SettledIn(entries, t)
  PROVE  Calms'
  <1>1. \A v \in Workers : work'[v].line \in {work[v].line, 0}
    OBVIOUS
  <1>2. \A v \in Workers : At(v, "settle_mark") => work'[v] = work[v]
    OBVIOUS
  <1>3. QED
    BY <1>1, <1>2, CalmQuiet

LEMMA CalmOthers ==
  ASSUME Known, Calms
  PROVE  /\ EnableVatModule \/ UNCHANGED vars => Calms'
         /\ \A i \in Ids : Post(i) \/ Reverse(i) => Calms'
         /\ \A k \in bounds.taken : TakeCode(k) => Calms'
         /\ \A t \in Lines : MatchLine(t) => Calms'
  <1>1. ASSUME EnableVatModule \/ UNCHANGED vars
        PROVE  Calms'
    <2>1. work' = work /\ matched' = matched /\ crossed' = crossed /\ entries' = entries
      BY <1>1 DEF EnableVatModule, vars
    <2>2. QED
      BY <2>1, CalmStill
  <1>2. ASSUME NEW i \in Ids, Post(i)
        PROVE  Calms'
    <2>1. MarkPosted(i) /\ work' = work /\ matched' = matched
          /\ crossed' = crossed \cup {t \in Lines : entries[i].ref = <<"settle", t>>}
      BY <1>2 DEF Post
    <2>2. \A t \in Lines \ crossed' : SettledIn(entries', t) \subseteq SettledIn(entries, t)
      BY <2>1, SettledMark
    <2>3. QED
      BY <2>1, <2>2, CalmStill
  <1>3. ASSUME NEW i \in Ids, Reverse(i)
        PROVE  Calms'
    <2>1. PICK row \in EntryRow : row.ref = <<"reverse", 0>> /\ entries' = Append(entries, row)
      <3>1. Contra(entries[i], i) \in EntryRow /\ entries' = Append(entries, Contra(entries[i], i))
        BY <1>3, Reversing
      <3>2. QED
        BY <3>1 DEF Contra
    <2>2. work' = work /\ matched' = matched /\ crossed' = crossed
      BY <1>3, Reversing
    <2>3. \A t \in Lines : SettledIn(entries', t) \subseteq SettledIn(entries, t)
      BY <2>1, SettledAppend
    <2>4. QED
      BY <2>2, <2>3, CalmStill
  <1>4. ASSUME NEW k \in bounds.taken, TakeCode(k)
        PROVE  Calms'
    <2>1. work' = work /\ matched' = matched /\ crossed' = crossed /\ entries' = entries
      BY <1>4 DEF TakeCode
    <2>2. QED
      BY <2>1, CalmStill
  <1>5. ASSUME NEW t \in Lines, MatchLine(t)
        PROVE  Calms'
    <2>1. matched' = matched \cup {t} /\ work' = work /\ entries' = entries /\ crossed \subseteq crossed'
          /\ (t \notin crossed' => ~Works(t))
      BY <1>5 DEF MatchLine
    <2> SUFFICES ASSUME NEW u \in Lines, u \notin crossed'
                 PROVE  Calm(u)'
      BY DEF Calms
    <2>2. Calm(u)
      BY <2>1 DEF Calms
    <2>3. \A v \in Workers : work'[v].line = u => u \notin matched'
      BY <2>1, <2>2 DEF Calm, Works
    <2>4. SettledBy(u)' = SettledBy(u)
      BY <2>1, SettledIs
    <2>5. QED
      BY <2>1, <2>2, <2>3, <2>4 DEF Calm, At
  <1>6. QED
    BY <1>1, <1>2, <1>3, <1>4, <1>5

LEMMA CalmNext ==
  ASSUME Known, Calms, [Next]_vars
  PROVE  Calms'
  <1>1. ASSUME NEW w \in Workers, Step(w)
        PROVE  Calms'
    BY <1>1, CalmPlain, CalmCheckLine, CalmPostSettlement, CalmMarkLine, CalmStop DEF Step, Plain
  <1>2. QED
    BY <1>1, CalmOthers DEF Next

LEMMA CalmInit ==
  ASSUME Init
  PROVE  Calms
  <1>1. \A w \in Workers : work[w].line = 0
    BY IdleIs DEF Init
  <1>2. \A t \in Lines : t # 0 /\ SettledBy(t) = {}
    BY VatAssumption DEF Init, SettledBy, Ids
  <1>3. QED
    BY <1>1, <1>2 DEF Calms, Calm

LEMMA CalmSettles ==
  ASSUME Calms
  PROVE  LineSettledOnce
  <1> SUFFICES ASSUME NEW t \in Lines \ crossed
               PROVE  /\ Cardinality(SettledBy(t)) <= 1
                      /\ SettledBy(t) # {} => t \in matched \/ \E w \in Workers : At(w, "settle_mark") /\ work[w].line = t
    BY DEF LineSettledOnce
  <1>1. Calm(t)
    BY DEF Calms
  <1>2. Cardinality(SettledBy(t)) <= 1
    <2>1. CASE SettledBy(t) = {}
      BY <2>1, FS_EmptySet
    <2>2. CASE SettledBy(t) # {}
      <3>1. PICK i : SettledBy(t) = {i}
        BY <1>1, <2>2 DEF Calm
      <3>2. QED
        BY <3>1, FS_Singleton
    <2>3. QED
      BY <2>1, <2>2
  <1>3. QED
    BY <1>1, <1>2 DEF Calm

\* A bank line pays VAT once, and no other command can use it then, unless its
\* settlement was left half-way or another command worked on the line.
THEOREM PaidOnce == Spec => []LineSettledOnce
  <1>1. Init => Known /\ Calms
    BY KnownInit, CalmInit
  <1>2. Known /\ Calms /\ [Next]_vars => (Known /\ Calms)'
    BY KnownNext, CalmNext
  <1>3. Known /\ Calms => LineSettledOnce
    BY CalmSettles
  <1>4. QED
    BY <1>1, <1>2, <1>3, PTL DEF Spec

----------------------------------------------------------------------------------
(* What nobody overtook is still true. *)

\* c: the codes of the chart.
FreshJob(e, c, j) ==
  /\ j.at \in Moving \cup {"file_output"} => j.input = BalanceIn(e, {Input}, DOMAIN e)
  /\ j.at \in Moving => j.output = BalanceIn(e, {Output}, DOMAIN e)
  /\ j.at = "file_account" => c[CodeIndex(j.account)] # "other"
  /\ j.at \in {"file_create", "file_post"} => c[CodeIndex(j.account)] = "vat"
  /\ j.at \in {"settle_create", "settle_post"} => j.input = BalanceIn(e, {j.account}, DOMAIN e)

Freshs == \A w \in Workers \ stale : FreshJob(entries, chart, work[w])

SameBalances(e, f) == \A S : BalanceIn(f, S, DOMAIN f) = BalanceIn(e, S, DOMAIN e)

\* Codes that are not another's stay so, and VAT's own stay VAT's.
ChartKept(c, d) ==
  \A k \in DOMAIN Settlement : (c[k] # "other" => d[k] # "other") /\ (c[k] = "vat" => d[k] = "vat")

LEMMA FreshKept ==
  ASSUME NEW j, JobOK(j), NEW e, NEW f, NEW c, NEW d, FreshJob(e, c, j), SameBalances(e, f), ChartKept(c, d)
  PROVE  FreshJob(f, d, j)
  <1>1. j.at \in Moving => CodeIndex(j.account) \in DOMAIN Settlement
    BY SettlementAccounts DEF JobOK
  <1>2. "file_account" \in Moving /\ "file_create" \in Moving /\ "file_post" \in Moving
    BY DEF Moving
  <1>3. \A S : BalanceIn(f, S, DOMAIN f) = BalanceIn(e, S, DOMAIN e)
    BY DEF SameBalances
  <1>4. QED
    BY <1>1, <1>2, <1>3 DEF FreshJob, ChartKept

LEMMA FreshElsewhere ==
  ASSUME NEW j, j.at \notin Readers \/ j.at \in {"settle_read", "settle_mark"}, NEW e, NEW c
  PROVE  FreshJob(e, c, j)
  BY DEF FreshJob, Readers, Moving

LEMMA FreshIs ==
  Freshs' <=> \A w \in Workers \ stale' : FreshJob(entries', chart', work'[w])
  BY DEF Freshs, FreshJob

LEMMA FreshStep ==
  ASSUME Known, Freshs, NEW w \in Workers, NEW job, Go(w, job),
         stale \ {w} \subseteq stale', w \notin stale' => FreshJob(entries', chart', job),
         SameBalances(entries, entries'), ChartKept(chart, chart')
  PROVE  Freshs'
  <1>1. work'[w] = job /\ \A v \in Workers : v # w => work'[v] = work[v]
    BY Gone
  <1>2. ASSUME NEW v \in Workers, v \notin stale'
        PROVE  FreshJob(entries', chart', work'[v])
    <2>1. CASE v = w
      BY <1>1, <1>2, <2>1
    <2>2. CASE v # w
      <3>1. PICK j : j = work[v]
        OBVIOUS
      <3>2. JobOK(j) /\ FreshJob(entries, chart, j)
        BY <1>2, <2>2, <3>1, JobIs DEF Freshs
      <3>3. FreshJob(entries', chart', j)
        BY <3>2, FreshKept
      <3>4. QED
        BY <1>1, <2>2, <3>1, <3>3
    <2>3. QED
      BY <2>1, <2>2
  <1>3. QED
    BY <1>2, FreshIs

\* A posting overtakes every other reader.
LEMMA FreshPosts ==
  ASSUME Known, NEW w \in Workers, NEW job, Go(w, job), Overtakes(Workers \ {w}),
         job.at \in {"idle", "settle_mark"}
  PROVE  Freshs'
  <1>1. work'[w] = job /\ \A v \in Workers : v # w => work'[v] = work[v]
    BY Gone
  <1>2. ASSUME NEW v \in Workers, v \notin stale'
        PROVE  FreshJob(entries', chart', work'[v])
    <2>1. PICK j : j = work'[v]
      OBVIOUS
    <2>2. j.at \notin Readers \/ j.at \in {"settle_read", "settle_mark"}
      BY <1>1, <1>2, <2>1 DEF Overtakes, Readers
    <2>3. FreshJob(entries', chart', j)
      BY <2>2, FreshElsewhere
    <2>4. QED
      BY <2>1, <2>3
  <1>3. QED
    BY <1>2, FreshIs

LEMMA FreshOvertaken ==
  ASSUME work' = work, Overtakes(Workers)
  PROVE  Freshs'
  <1>1. ASSUME NEW v \in Workers, v \notin stale'
        PROVE  FreshJob(entries', chart', work'[v])
    <2>1. PICK j : j = work'[v]
      OBVIOUS
    <2>2. j.at \notin Readers
      BY <1>1, <2>1 DEF Overtakes
    <2>3. FreshJob(entries', chart', j)
      BY <2>2, FreshElsewhere
    <2>4. QED
      BY <2>1, <2>3
  <1>2. QED
    BY <1>1, FreshIs

LEMMA NoneChange ==
  /\ entries' = entries => SameBalances(entries, entries')
  /\ chart' = chart => ChartKept(chart, chart')
  BY DEF SameBalances, ChartKept

LEMMA BalancesAppend ==
  ASSUME Known, NEW row \in EntryRow, entries' = Append(entries, row), row.state = "draft"
  PROVE  SameBalances(entries, entries')
  <1>1. PICK e \in Seq(EntryRow), f \in Seq(EntryRow) : e = entries /\ f = entries'
    BY Inserted DEF Known, Tables
  <1>2. /\ DOMAIN entries' = Ids \cup {LastId + 1} /\ entries'[LastId + 1] = row
        /\ \A i \in Ids : entries'[i] = entries[i]
    BY Inserted
  <1>3. /\ DOMAIN e \subseteq DOMAIN f
        /\ \A i \in DOMAIN f : f[i].state = "posted" => i \in DOMAIN e /\ e[i].state = "posted"
        /\ \A i \in DOMAIN e : e[i].state = "posted" => f[i] = e[i]
    BY <1>1, <1>2 DEF Ids
  <1>4. \A S : BalanceIn(f, S, DOMAIN f) = BalanceIn(e, S, DOMAIN e)
    BY <1>3, BalanceSame
  <1>5. QED
    BY <1>1, <1>4 DEF SameBalances

LEMMA BalancesTag ==
  ASSUME Known, NEW w \in Workers, TagPosting(w)
  PROVE  SameBalances(entries, entries')
  <1>1. PICK i \in Ids, s \in TaggedRow, k \in Nat : MayTag(entries, i, k, s) /\ entries' = TaggedAt(entries, i, k, s)
    <2>1. \E i \in Ids, s \in TaggedRow, k \in Nat :
            /\ k \in DOMAIN entries[i].postings.legs
            /\ entries[i].state = "draft" /\ entries[i].ref = Booked
            /\ entries' = TaggedAt(entries, i, k, s)
      BY Tagging
    <2>2. QED
      BY <2>1 DEF MayTag, Ids, Known, Tables
  <1>2. PICK e \in Seq(EntryRow) : e = entries
    BY DEF Known, Tables
  <1>3. PICK f \in Seq(EntryRow) : /\ f = entries'
                                   /\ DOMAIN f = DOMAIN e /\ f[i].state = "draft"
                                   /\ \A j \in DOMAIN e : j # i => f[j] = e[j]
    <2>1. MayTag(e, i, k, s)
      BY <1>1, <1>2
    <2>2. /\ TaggedAt(e, i, k, s) \in Seq(EntryRow)
          /\ DOMAIN TaggedAt(e, i, k, s) = DOMAIN e /\ TaggedAt(e, i, k, s)[i].state = "draft"
          /\ \A j \in DOMAIN e : j # i => TaggedAt(e, i, k, s)[j] = e[j]
      BY <2>1, TagMoves
    <2>3. QED
      BY <1>1, <1>2, <2>2
  <1>4. e[i].state = "draft"
    BY <1>1, <1>2 DEF MayTag
  <1>5. /\ DOMAIN e \subseteq DOMAIN f
        /\ \A j \in DOMAIN f : f[j].state = "posted" => j \in DOMAIN e /\ e[j].state = "posted"
        /\ \A j \in DOMAIN e : e[j].state = "posted" => f[j] = e[j]
    BY <1>3, <1>4
  <1>6. \A S : BalanceIn(f, S, DOMAIN f) = BalanceIn(e, S, DOMAIN e)
    BY <1>5, BalanceSame
  <1>7. QED
    BY <1>2, <1>3, <1>6 DEF SameBalances

\* A process goes on to a place where it has read nothing.
LEMMA FreshAway ==
  ASSUME Known, Freshs, NEW w \in Workers, NEW job, Go(w, job), stale \ {w} \subseteq stale',
         job.at \notin Readers \/ job.at = "settle_read",
         SameBalances(entries, entries'), chart' = chart
  PROVE  Freshs'
  <1>1. FreshJob(entries', chart', job)
    BY FreshElsewhere
  <1>2. QED
    BY <1>1, FreshStep, NoneChange

LEMMA FreshBooking ==
  ASSUME Known, Freshs, NEW w \in Workers
  PROVE  /\ \A l \in bounds.lists, p \in bounds.periods, post \in bounds.posts : BookVatEntry(w, l, p, post) => Freshs'
         /\ TagPosting(w) \/ EndTagging(w) \/ PostBooked(w) => Freshs'
  <1>1. ASSUME NEW l \in bounds.lists, NEW p \in bounds.periods, NEW post \in bounds.posts, BookVatEntry(w, l, p, post)
        PROVE  Freshs'
    <2>1. PICK job : Go(w, job) /\ job.at = "tag"
      <3>1. Go(w, BookJob(LastId + 1, l, post)) /\ l \in Seq(Row) /\ post \in BOOLEAN
        BY <1>1, Booking
      <3>2. LastId + 1 \in Nat
        BY DEF LastId, Known, Tables
      <3>3. BookJob(LastId + 1, l, post).at = "tag"
        BY <3>1, <3>2, BookJobIs
      <3>4. QED
        BY <3>1, <3>3
    <2>2. PICK row \in EntryRow : row.state = "draft" /\ entries' = Append(entries, row)
      <3>1. Draft(Expand(l), p, Booked) \in EntryRow /\ entries' = Append(entries, Draft(Expand(l), p, Booked))
        BY <1>1, Booking
      <3>2. QED
        BY <3>1 DEF Draft
    <2>3. SameBalances(entries, entries')
      BY <2>2, BalancesAppend
    <2>4. stale' = stale \ {w} /\ chart' = chart
      BY <1>1, Booking
    <2>5. QED
      BY <2>1, <2>3, <2>4, FreshAway DEF Readers
  <1>2. CASE TagPosting(w)
    <2>1. PICK j \in JobRow : j = work[w] /\ j.at = "tag"
      BY <1>2, JobIs DEF TagPosting, At
    <2>2. PICK job : job = [j EXCEPT !.next = @ + 1] /\ Go(w, job) /\ job.at = "tag"
      BY <1>2, <2>1 DEF TagPosting, JobRow
    <2>3. SameBalances(entries, entries') /\ stale' = stale /\ chart' = chart
      BY <1>2, BalancesTag DEF TagPosting
    <2>4. QED
      BY <2>2, <2>3, FreshAway DEF Readers
  <1>3. CASE EndTagging(w)
    <2>1. PICK job : Go(w, job) /\ job.at \in {"post", "idle"}
      <3>1. PICK j \in JobRow : j = work[w]
        BY JobIs
      <3>2. j.entry \in Nat
        BY DEF JobRow
      <3>3. PostJob(j.entry).at = "post" /\ Idle.at = "idle"
        BY <3>2, PostJobIs, IdleIs
      <3>4. Go(w, IF j.post THEN PostJob(j.entry) ELSE Idle)
        BY <1>3, <3>1 DEF EndTagging, PostJob
      <3>5. QED
        BY <3>3, <3>4
    <2>2. entries' = entries /\ stale' = stale /\ chart' = chart
      BY <1>3 DEF EndTagging
    <2>3. QED
      BY <2>1, <2>2, FreshAway, NoneChange DEF Readers
  <1>4. CASE PostBooked(w)
    <2>1. PICK job : job = Idle /\ job.at = "idle"
      BY IdleIs
    <2>2. QED
      BY <1>4, <2>1, FreshPosts DEF PostBooked
  <1>5. QED
    BY <1>1, <1>2, <1>3, <1>4

LEMMA FreshReturn ==
  ASSUME Known, Freshs, NEW w \in Workers
  PROVE  /\ \A p \in bounds.periods : ReadReturn(w, p) => Freshs'
         /\ StoreReturn(w) \/ MarkLine(w) \/ Stop(w) => Freshs'
  <1>1. ASSUME NEW p \in bounds.periods, ReadReturn(w, p)
        PROVE  Freshs'
    <2>1. PICK q \in JobRow : q = Idle
      BY IdleIs DEF JobOK
    <2>2. PICK job : job = [q EXCEPT !.at = "store", !.period = p, !.fields = Readout(p)] /\ Go(w, job)
      BY <1>1, <2>1 DEF ReadReturn, Start
    <2>3. job.at = "store"
      BY <2>2 DEF JobRow
    <2>4. entries' = entries /\ stale' = stale \ {w} /\ chart' = chart
      BY <1>1 DEF ReadReturn, Start
    <2>5. QED
      BY <2>2, <2>3, <2>4, FreshAway, NoneChange DEF Readers
  <1>2. ASSUME StoreReturn(w) \/ MarkLine(w) \/ Stop(w)
        PROVE  Freshs'
    <2>1. PICK job : job = Idle /\ job.at = "idle" /\ Go(w, job)
      BY <1>2, IdleIs DEF StoreReturn, MarkLine, Stop
    <2>2. entries' = entries /\ stale' = stale /\ chart' = chart
      BY <1>2 DEF StoreReturn, MarkLine, Stop
    <2>3. QED
      BY <2>1, <2>2, FreshAway, NoneChange DEF Readers
  <1>3. QED
    BY <1>1, <1>2

LEMMA FreshReadInput ==
  ASSUME Known, Freshs, NEW w \in Workers, ReadInput(w)
  PROVE  Freshs'
  <1>1. PICK b \in Int : b = Balance({Input}, Ids) /\ b = BalanceIn(entries, {Input}, DOMAIN entries)
    BY BalanceTyped, BalanceIs DEF Known, Tables, Ids
  <1>2. PICK job : job = InputJob(b) /\ Go(w, job) /\ job.at = "file_output" /\ job.input = b
    BY <1>1, InputJobIs DEF ReadInput, Start, InputJob
  <1>3. entries' = entries /\ stale' = stale \ {w} /\ chart' = chart
    BY DEF ReadInput, Start
  <1>4. FreshJob(entries', chart', job)
    BY <1>1, <1>2, <1>3 DEF FreshJob, Moving
  <1>5. QED
    BY <1>2, <1>3, <1>4, FreshStep, NoneChange

LEMMA FreshReadOutput ==
  ASSUME Known, Freshs, NEW w \in Workers, ReadOutput(w)
  PROVE  Freshs'
  <1>1. entries' = entries /\ stale' = stale /\ chart' = chart /\ work[w].at = "file_output"
    BY DEF ReadOutput, At
  <1>2. CASE Go(w, Idle)
    <2>1. PICK job : job = Idle /\ job.at = "idle" /\ Go(w, job)
      BY <1>2, IdleIs
    <2>2. QED
      BY <1>1, <2>1, FreshAway, NoneChange DEF Readers
  <1>3. ASSUME NEW k \in DOMAIN Settlement, NEW job \in JobRow, Go(w, job), job.at = "file_account",
               job.output = Balance({Output}, Ids), job.input = work[w].input,
               job.account = Settlement[k], chart[k] # "other"
        PROVE  Freshs'
    <2>1. w \notin stale => work[w].input = BalanceIn(entries, {Input}, DOMAIN entries)
      BY <1>1 DEF Freshs, FreshJob
    <2>2. job.output = BalanceIn(entries, {Output}, DOMAIN entries)
      BY <1>3, BalanceIs DEF Ids
    <2>3. CodeIndex(job.account) = k
      BY <1>3, SettlementAccounts
    <2>4. w \notin stale' => FreshJob(entries', chart', job)
      BY <1>1, <1>3, <2>1, <2>2, <2>3 DEF FreshJob, Moving
    <2>5. QED
      BY <1>1, <1>3, <2>4, FreshStep, NoneChange
  <1>4. QED
    BY <1>2, <1>3, Reading

LEMMA FreshEnsureAccount ==
  ASSUME Known, Freshs, NEW w \in Workers, EnsureAccount(w)
  PROVE  Freshs'
  <1>1. PICK j \in JobRow : j = work[w] /\ JobOK(j) /\ j.at = "file_account"
    BY JobIs DEF EnsureAccount, At
  <1>2. PICK c \in DOMAIN Settlement : c = CodeIndex(j.account)
    BY <1>1, SettlementAccounts DEF JobOK, Moving
  <1>3. PICK k : k = Resolve(c)
    OBVIOUS
  <1>4. chart' = [chart EXCEPT ![k] = "vat"] /\ Go(w, AtJob(j, "file_create")) /\ entries' = entries /\ stale' = stale
    BY <1>1, <1>2, <1>3 DEF EnsureAccount, AtJob
  <1>5. PICK job \in JobRow : job = AtJob(j, "file_create") /\ job.at = "file_create" /\ GoesOn(j, job)
    <2>1. "file_create" \in Places
      BY DEF Places, Readers
    <2>2. QED
      BY <2>1, AtJobIs
  <1>6. chart \in [DOMAIN Settlement -> {"free", "vat", "other"}]
    BY DEF Known, Tables
  <1>7. ChartKept(chart, chart')
    BY <1>4, <1>6 DEF ChartKept
  <1>8. w \notin stale => FreshJob(entries, chart, j)
    BY <1>1 DEF Freshs
  <1>9. ASSUME w \notin stale
        PROVE  FreshJob(entries', chart', job)
    <2>1. chart[c] # "other"
      BY <1>1, <1>2, <1>8, <1>9 DEF FreshJob
    <2>2. k = c
      <3>1. c \in Nat
        BY VatAssumption
      <3>2. QED
        BY <1>3, <2>1, <3>1, ResolveIs
    <2>3. chart'[c] = "vat"
      BY <1>4, <1>6, <2>2
    <2>4. QED
      BY <1>1, <1>2, <1>4, <1>5, <1>8, <1>9, <2>3 DEF FreshJob, GoesOn, Moving
  <1>10. QED
    BY <1>4, <1>5, <1>7, <1>9, FreshStep, NoneChange

LEMMA FreshReadBalance ==
  ASSUME Known, Freshs, NEW w \in Workers, ReadBalance(w)
  PROVE  Freshs'
  <1>1. PICK j \in JobRow : j = work[w]
    BY JobIs
  <1>2. entries' = entries /\ stale' = stale /\ chart' = chart
    BY DEF ReadBalance
  <1>3. PICK b \in Int : b = Balance({j.account}, Ids) /\ b = BalanceIn(entries, {j.account}, DOMAIN entries)
    BY BalanceTyped, BalanceIs DEF Known, Tables, Ids
  <1>4. PICK job : job \in {BalanceJob(j, b), Idle} /\ Go(w, job)
    BY <1>1, <1>3 DEF ReadBalance, BalanceJob
  <1>5. CASE job = BalanceJob(j, b)
    <2>1. job.at = "settle_create" /\ job.input = b /\ job.account = j.account
      BY <1>5, BalanceJobIs
    <2>2. FreshJob(entries', chart', job)
      BY <1>2, <1>3, <2>1 DEF FreshJob, Moving
    <2>3. QED
      BY <1>2, <1>4, <2>2, FreshStep, NoneChange
  <1>6. CASE job = Idle
    BY <1>2, <1>4, <1>6, IdleIs, FreshAway, NoneChange DEF Readers
  <1>7. QED
    BY <1>4, <1>5, <1>6

LEMMA FreshCreate ==
  ASSUME Known, Freshs, NEW w \in Workers, CreateFiling(w) \/ CreateSettlement(w)
  PROVE  Freshs'
  <1>1. PICK j \in JobRow : j = work[w] /\ JobOK(j)
    BY JobIs
  <1>2. PICK n \in Nat : n = LastId + 1
    BY DEF LastId, Known, Tables
  <1>3. stale' = stale /\ chart' = chart
    BY DEF CreateFiling, CreateSettlement
  <1>4. w \notin stale => FreshJob(entries, chart, j)
    BY <1>1 DEF Freshs
  <1>5. ASSUME NEW row \in EntryRow, row.state = "draft", entries' = Append(entries, row),
               NEW job, Go(w, job), GoesOn(j, job),
               \/ j.at = "file_create" /\ job.at = "file_post"
               \/ j.at = "settle_create" /\ job.at = "settle_post"
        PROVE  Freshs'
    <2>1. SameBalances(entries, entries')
      BY <1>5, BalancesAppend
    <2>2. ASSUME w \notin stale
          PROVE  FreshJob(entries', chart', job)
      <3>1. FreshJob(entries', chart, j)
        <4>1. ChartKept(chart, chart)
          BY DEF ChartKept
        <4>2. QED
          BY <1>1, <1>4, <2>1, <2>2, <4>1, FreshKept
      <3>2. QED
        BY <1>3, <1>5, <3>1 DEF FreshJob, GoesOn, Moving
    <2>3. QED
      BY <1>3, <1>5, <2>1, <2>2, FreshStep, NoneChange
  <1>6. CASE CreateFiling(w)
    <2>1. PICK row \in EntryRow : row = Draft(Filing(j), Today, <<"file", 0>>) /\ row.state = "draft"
      <3>1. Filing(j) \in Seq(LegRow) /\ <<"file", 0>> \in Commands /\ Today \in Periods
        BY FilingIs, VatAssumption DEF Commands
      <3>2. QED
        BY <3>1, DraftIs
    <2>2. entries' = Append(entries, row) /\ j.at = "file_create"
      BY <1>1, <1>6, <2>1 DEF CreateFiling, InsertDraft, Draft, At
    <2>3. PICK job : job = HeldJob(j, "file_post", n) /\ job.at = "file_post" /\ GoesOn(j, job)
      <3>1. "file_post" \in Places
        BY DEF Places, Readers
      <3>2. QED
        BY <3>1, HeldJobIs
    <2>4. Go(w, job)
      BY <1>1, <1>2, <1>6, <2>3 DEF CreateFiling, HeldJob
    <2>5. QED
      BY <1>5, <2>1, <2>2, <2>3, <2>4
  <1>7. CASE CreateSettlement(w)
    <2>1. j.at = "settle_create"
      BY <1>1, <1>7 DEF CreateSettlement, At
    <2>2. PICK l \in Seq(LegRow), r \in Commands : l = SettlementLegs(j) /\ r = <<"settle", j.line>>
      <3>1. j.line \in Lines
        BY <1>1, <2>1 DEF JobOK, JobRow, Settling
      <3>2. QED
        BY <3>1, SettlementLegsAre DEF Commands
    <2>3. PICK row \in EntryRow : row = Draft(l, Today, r) /\ row.state = "draft"
      BY VatAssumption, DraftIs
    <2>4. entries' = Append(entries, row)
      BY <1>1, <1>7, <2>2, <2>3 DEF CreateSettlement, InsertDraft, Draft
    <2>5. PICK job : job = HeldJob(j, "settle_post", n) /\ job.at = "settle_post" /\ GoesOn(j, job)
      <3>1. "settle_post" \in Places
        BY DEF Places, Readers
      <3>2. QED
        BY <3>1, HeldJobIs
    <2>6. Go(w, job)
      BY <1>1, <1>2, <1>7, <2>5 DEF CreateSettlement, HeldJob
    <2>7. QED
      BY <1>5, <2>1, <2>3, <2>4, <2>5, <2>6
  <1>8. QED
    BY <1>6, <1>7

LEMMA FreshPost ==
  ASSUME Known, NEW w \in Workers, PostFiling(w) \/ PostSettlement(w)
  PROVE  Freshs'
  <1>1. PICK j \in JobRow : j = work[w]
    BY JobIs
  <1>2. Overtakes(Workers \ {w})
    BY DEF PostFiling, PostSettlement
  <1>3. PICK job : Go(w, job) /\ job.at \in {"idle", "settle_mark"}
    <2>1. Idle.at = "idle"
      BY IdleIs
    <2>2. "settle_mark" \in Places
      BY DEF Places, Readers
    <2>3. AtJob(j, "settle_mark").at = "settle_mark"
      BY <2>2, AtJobIs
    <2>4. Go(w, Idle) \/ Go(w, AtJob(j, "settle_mark"))
      BY <1>1 DEF PostFiling, PostSettlement, AtJob
    <2>5. QED
      BY <2>1, <2>3, <2>4
  <1>4. QED
    BY <1>2, <1>3, FreshPosts

LEMMA FreshCheckLine ==
  ASSUME Known, Freshs, NEW w \in Workers, NEW t \in Lines, NEW k \in DOMAIN Settlement, CheckLine(w, t, k)
  PROVE  Freshs'
  <1>1. PICK job : job = LineJob(t, Settlement[k]) /\ job.at = "settle_read"
    BY LineJobIs
  <1>2. Go(w, job) /\ stale' = stale \ {w} /\ entries' = entries /\ chart' = chart
    BY <1>1 DEF CheckLine, Start, LineJob
  <1>3. QED
    BY <1>1, <1>2, FreshAway, NoneChange

LEMMA FreshOthers ==
  ASSUME Known, Freshs
  PROVE  /\ EnableVatModule \/ UNCHANGED vars => Freshs'
         /\ \A i \in Ids : Post(i) \/ Reverse(i) => Freshs'
         /\ \A k \in bounds.taken : TakeCode(k) => Freshs'
         /\ \A t \in Lines : MatchLine(t) => Freshs'
  <1>1. ASSUME UNCHANGED <<work, stale, entries, chart>>
        PROVE  Freshs'
    BY <1>1, FreshIs DEF Freshs
  <1>2. ASSUME work' = work, Overtakes(Workers)
        PROVE  Freshs'
    BY <1>2, FreshOvertaken
  <1>3. QED
    BY <1>1, <1>2 DEF EnableVatModule, vars, Post, Reverse, TakeCode, MatchLine

LEMMA FreshNext ==
  ASSUME Known, Freshs, [Next]_vars
  PROVE  Freshs'
  <1>1. ASSUME NEW w \in Workers, Step(w)
        PROVE  Freshs'
    BY <1>1, FreshBooking, FreshReturn, FreshReadInput, FreshReadOutput, FreshEnsureAccount, FreshCreate,
       FreshPost, FreshCheckLine, FreshReadBalance DEF Step
  <1>2. QED
    BY <1>1, FreshOthers DEF Next

LEMMA FreshInit ==
  ASSUME Init
  PROVE  Freshs
  <1>1. PICK j : j = Idle /\ j.at = "idle"
    BY IdleIs
  <1>2. FreshJob(entries, chart, j)
    BY <1>1, FreshElsewhere DEF Readers
  <1>3. \A w \in Workers : work[w] = j
    BY <1>1 DEF Init
  <1>4. QED
    BY <1>2, <1>3 DEF Freshs


----------------------------------------------------------------------------------
(* What a filing and a settlement leave. *)

LEMMA BalanceNext ==
  /\ Balance(Clearing, Ids)' = BalanceIn(entries', Clearing, DOMAIN entries')
  /\ \A w \in Workers : Balance({work[w].account}, Ids)' = BalanceIn(entries', {work'[w].account}, DOMAIN entries')
  BY DEF Balance, BalanceIn, OnEntries, PostedIn, OnLegs, OnOf, On, IsPosted, Ids, Clearing

\* Of an account on which the posted entry puts the opposite of its balance,
\* nothing is left.
LEMMA BalanceAfter ==
  ASSUME Known, NEW i \in Ids, MarkPosted(i), NEW S
  PROVE  BalanceIn(entries', S, DOMAIN entries') = BalanceIn(entries, S, DOMAIN entries) + OnLegs(S, entries[i].postings.legs)
  <1>1. entries' = Marked(entries, i) /\ DOMAIN entries' = Ids /\ entries[i].state = "draft"
    BY Posted
  <1>2. PICK e \in Seq(EntryRow) : e = entries
    BY DEF Known, Tables
  <1>3. BalanceIn(Marked(e, i), S, DOMAIN e) = BalanceIn(e, S, DOMAIN e) + OnLegs(S, e[i].postings.legs)
    BY <1>1, <1>2, BalancePosted DEF Ids
  <1>4. QED
    BY <1>1, <1>2, <1>3 DEF Ids

LEMMA FilingClears ==
  ASSUME Known, Freshs, NEW w \in Workers, PostFiling(w), w \notin stale
  PROVE  /\ BalanceIn(entries', Clearing, DOMAIN entries') = 0
         /\ chart[CodeIndex(work[w].account)] = "vat"
  <1>1. PICK j \in JobRow : j = work[w] /\ JobOK(j) /\ HoldOK(entries, j) /\ j.at = "file_post"
    BY JobIs DEF PostFiling, At
  <1>2. FreshJob(entries, chart, j)
    BY <1>1 DEF Freshs
  <1>3. PICK i \in Ids : i = j.entry /\ entries[i].postings.legs = Filing(j)
    BY <1>1 DEF HoldOK, Holding, Ids
  <1>4. PICK a \in Accounts, x \in Int, y \in Int : a = j.account /\ x = j.input /\ y = j.output
    BY DEF JobRow
  <1>5. x = BalanceIn(entries, {Input}, DOMAIN entries) /\ y = BalanceIn(entries, {Output}, DOMAIN entries)
    BY <1>1, <1>2, <1>4 DEF FreshJob, Moving
  <1>6. a \notin Clearing /\ Input \in Accounts /\ Output \in Accounts /\ Input # Output
    BY <1>1, <1>4, SettlementAccounts, VatAssumption DEF JobOK, Moving, Clearing
  <1>7. OnLegs(Clearing, Filing(j)) = -y - x
    <2>1. PICK o \in Int, m \in Int, n \in Int : o = -y /\ m = -x /\ n = y + x
      OBVIOUS
    <2>2. Filing(j) = ThreeLegs(Output, o, Input, m, a, n)
      BY <1>4, <2>1, FilingIs
    <2>3. OnLegs(Clearing, ThreeLegs(Output, o, Input, m, a, n)) =
            (IF Output \in Clearing THEN o ELSE 0) + (IF Input \in Clearing THEN m ELSE 0) + (IF a \in Clearing THEN n ELSE 0)
      BY <1>6, OnThree
    <2>4. QED
      BY <1>6, <2>1, <2>2, <2>3 DEF Clearing
  <1>8. BalanceIn(entries, Clearing, DOMAIN entries) = x + y
    <2>1. PICK e \in Seq(EntryRow) : e = entries
      BY DEF Known, Tables
    <2>2. BalanceIn(e, {Input, Output}, DOMAIN e) = BalanceIn(e, {Input}, DOMAIN e) + BalanceIn(e, {Output}, DOMAIN e)
      BY <1>6, BalanceBoth
    <2>3. QED
      BY <1>5, <2>1, <2>2 DEF Clearing
  <1>9. MarkPosted(i)
    BY <1>1, <1>3 DEF PostFiling
  <1>10. BalanceIn(entries', Clearing, DOMAIN entries') = (x + y) + (-y - x)
    BY <1>3, <1>7, <1>8, <1>9, BalanceAfter
  <1>11. QED
    BY <1>1, <1>2, <1>10 DEF FreshJob

LEMMA SettlementClears ==
  ASSUME Known, Freshs, NEW w \in Workers, PostSettlement(w), w \notin stale
  PROVE  BalanceIn(entries', {work'[w].account}, DOMAIN entries') = 0
  <1>1. PICK j \in JobRow : j = work[w] /\ JobOK(j) /\ HoldOK(entries, j) /\ j.at = "settle_post"
    BY JobIs DEF PostSettlement, At
  <1>2. FreshJob(entries, chart, j)
    BY <1>1 DEF Freshs
  <1>3. PICK i \in Ids : i = j.entry /\ entries[i].postings.legs = SettlementLegs(j)
    BY <1>1 DEF HoldOK, Holding, Ids
  <1>4. j.line \in Lines
    BY <1>1 DEF JobOK, JobRow, Settling
  <1>5. PICK a \in Accounts, x \in Int, y \in Int : a = j.account /\ x = j.input /\ y = LineAmount(j.line)
    BY <1>4, VatAssumption DEF JobRow
  <1>6. x = BalanceIn(entries, {a}, DOMAIN entries)
    BY <1>1, <1>2, <1>5 DEF FreshJob
  <1>7. Bank # a /\ Difference # a /\ Bank \in Accounts /\ Difference \in Accounts
    BY <1>1, <1>5, SettlementAccounts, VatAssumption DEF JobOK, Settling
  <1>8. OnLegs({a}, SettlementLegs(j)) = -x
    <2>1. PICK m \in Int, n \in Int : m = -x /\ n = x - y
      OBVIOUS
    <2>2. SettlementLegs(j) = ThreeLegs(a, m, Bank, y, Difference, n)
      BY <1>4, <1>5, <2>1, SettlementLegsAre
    <2>3. OnLegs({a}, ThreeLegs(a, m, Bank, y, Difference, n)) =
            (IF a \in {a} THEN m ELSE 0) + (IF Bank \in {a} THEN y ELSE 0) + (IF Difference \in {a} THEN n ELSE 0)
      BY <1>7, OnThree
    <2>4. QED
      BY <1>7, <2>1, <2>2, <2>3
  <1>9. MarkPosted(i)
    BY <1>1, <1>3 DEF PostSettlement
  <1>10. BalanceIn(entries', {a}, DOMAIN entries') = x + (-x)
    BY <1>3, <1>6, <1>8, <1>9, BalanceAfter
  <1>11. work'[w].account = a
    <2>1. "settle_mark" \in Places
      BY DEF Places, Readers
    <2>2. AtJob(j, "settle_mark").account = j.account
      BY <2>1, AtJobIs DEF GoesOn
    <2>3. Go(w, AtJob(j, "settle_mark"))
      BY <1>1 DEF PostSettlement, AtJob
    <2>4. work'[w] = AtJob(j, "settle_mark")
      BY <2>3, Gone
    <2>5. QED
      BY <1>5, <2>2, <2>4
  <1>12. QED
    BY <1>10, <1>11

\* Only its own step takes a process on.
LEMMA OwnStep ==
  ASSUME Known, NEW w \in Workers, [Next]_vars, work'[w] # work[w]
  PROVE  Step(w)
  <1>1. ASSUME NEW v \in Workers, Step(v), v # w
        PROVE  FALSE
    <2>1. \E job : Go(v, job)
      BY <1>1 DEF Step, BookVatEntry, TagPosting, EndTagging, PostBooked, ReadReturn, StoreReturn, ReadInput,
                  ReadOutput, EnsureAccount, CreateFiling, PostFiling, CheckLine, ReadBalance, CreateSettlement,
                  PostSettlement, MarkLine, Stop, Start
    <2>2. QED
      BY <1>1, <2>1, Gone
  <1>2. Next
    BY DEF vars
  <1>3. ~(\E v \in Workers : Step(v)) => work' = work
    BY <1>2 DEF Next, EnableVatModule, Post, Reverse, TakeCode, MatchLine
  <1>4. QED
    BY <1>1, <1>3


\* A filing that nobody overtook empties the clearing accounts on an account
\* that VAT holds, and such a settlement empties the account it settles.
THEOREM PositionIsCleared == Spec => PositionCleared
  <1>1. Init => Known /\ Freshs
    BY KnownInit, FreshInit
  <1>2. Known /\ Freshs /\ [Next]_vars => (Known /\ Freshs)'
    BY KnownNext, FreshNext
  <1>3. ASSUME Known, Freshs, [Next]_vars
        PROVE  [\A w \in Workers :
                  /\ At(w, "file_post") /\ w \notin stale /\ work'[w] = Idle /\ entries # entries' =>
                       Balance(Clearing, Ids)' = 0 /\ chart[CodeIndex(work[w].account)] = "vat"
                  /\ At(w, "settle_post") /\ w \notin stale /\ work'[w].at = "settle_mark" =>
                       Balance({work[w].account}, Ids)' = 0]_vars
    <2>1. ASSUME NEW w \in Workers, At(w, "file_post"), w \notin stale, work'[w] = Idle, entries # entries'
          PROVE  Balance(Clearing, Ids)' = 0 /\ chart[CodeIndex(work[w].account)] = "vat"
      <3>1. Step(w)
        <4>1. work'[w] # work[w]
          BY <2>1, IdleIs DEF At
        <4>2. QED
          BY <1>3, <4>1, OwnStep
      <3>2. PostFiling(w)
        BY <2>1, <3>1 DEF Step, At, BookVatEntry, TagPosting, EndTagging, PostBooked, ReadReturn, StoreReturn, ReadInput,
                  ReadOutput, EnsureAccount, CreateFiling, CheckLine, ReadBalance, CreateSettlement,
                  PostSettlement, MarkLine, Stop, Start
      <3>3. QED
        BY <1>3, <2>1, <3>2, FilingClears, BalanceNext
    <2>2. ASSUME NEW w \in Workers, At(w, "settle_post"), w \notin stale, work'[w].at = "settle_mark"
          PROVE  Balance({work[w].account}, Ids)' = 0
      <3>1. Step(w)
        <4>1. work'[w] # work[w]
          BY <2>2 DEF At
        <4>2. QED
          BY <1>3, <4>1, OwnStep
      <3>2. PostSettlement(w)
        <4>1. ~Stop(w)
          BY <1>3, <2>2, Gone, IdleIs DEF Stop
        <4>2. QED
          BY <2>2, <3>1, <4>1 DEF Step, At, BookVatEntry, TagPosting, EndTagging, PostBooked, ReadReturn, StoreReturn,
                  ReadInput, ReadOutput, EnsureAccount, CreateFiling, PostFiling, CheckLine, ReadBalance,
                  CreateSettlement, MarkLine, Start
      <3>3. BalanceIn(entries', {work'[w].account}, DOMAIN entries') = 0
        BY <1>3, <2>2, <3>2, SettlementClears
      <3>4. QED
        BY <3>3, BalanceNext
    <2>3. QED
      BY <2>1, <2>2
  <1>4. QED
    BY <1>1, <1>2, <1>3, PTL DEF Spec, PositionCleared

----------------------------------------------------------------------------------
(* The codes of an entry and its VAT legs agree. *)

\* What a posting adds to what a return says is owed.
DueOf(leg) ==
  IF leg.code # NoCode /\ leg.account \notin Clearing THEN Owed(leg) + Shifted(leg) - Deducted(leg) ELSE 0

DuesOf(l) == [k \in DOMAIN l |-> DueOf(l[k])]

DueIn(l) == SumOf(DuesOf(l))

Sound(l) == DueIn(l) = IF Touches(l, SettlementCodes) THEN 0 ELSE -OnLegs(Clearing, l)

\* The VAT that goes with a row.
OnTop(s) == IF HasLeg(s) THEN VatOf(s) ELSE 0

TopsOf(c) == [m \in DOMAIN c |-> OnTop(c[m])]

TopOf(c) == SumOf(TopsOf(c))

LEMMA DueTyped ==
  ASSUME NEW l \in Seq(LegRow)
  PROVE  /\ DOMAIN l = 1 .. Len(l) /\ Len(l) \in Nat
         /\ DuesOf(l) \in [DOMAIN l -> Int] /\ IsFiniteSet(DOMAIN l)
         /\ DueIn(l) \in Int
  <1>1. DOMAIN l = 1 .. Len(l) /\ Len(l) \in Nat /\ \A k \in DOMAIN l : l[k] \in LegRow
    OBVIOUS
  <1>2. \A k \in DOMAIN l : DueOf(l[k]) \in Int
    BY <1>1, FieldsTyped DEF DueOf
  <1>3. DuesOf(l) \in [DOMAIN l -> Int]
    BY <1>2 DEF DuesOf
  <1>4. IsFiniteSet(DOMAIN l)
    BY <1>1, FS_Interval
  <1>5. QED
    BY <1>1, <1>3, <1>4, SumTyped DEF DueIn

LEMMA TopTyped ==
  ASSUME NEW c \in Seq(TaggedRow)
  PROVE  /\ DOMAIN c = 1 .. Len(c) /\ Len(c) \in Nat /\ IsFiniteSet(DOMAIN c)
         /\ TopsOf(c) \in [DOMAIN c -> Int]
         /\ TopOf(c) \in Int
  <1>1. DOMAIN c = 1 .. Len(c) /\ Len(c) \in Nat /\ \A m \in DOMAIN c : c[m] \in TaggedRow
    OBVIOUS
  <1>2. \A m \in DOMAIN c : OnTop(c[m]) \in Int
    <2>1. \A s \in TaggedRow : s \in Row /\ s.code \in Codes
      BY DEF TaggedRow, Row
    <2>2. QED
      BY <1>1, <2>1, VatTyped DEF OnTop
  <1>3. TopsOf(c) \in [DOMAIN c -> Int] /\ IsFiniteSet(DOMAIN c)
    BY <1>1, <1>2, FS_Interval DEF TopsOf
  <1>4. QED
    BY <1>1, <1>3, SumTyped DEF TopOf

\* A posting says what the VAT leg of its row does.
LEMMA CodedDue ==
  ASSUME NEW s \in TaggedRow, Kind(s.code) # "margin", s.account \notin Clearing,
         NEW leg \in LegRow, leg.account = s.account, leg.code = s.code, leg.vat = VatOf(s)
  PROVE  DueOf(leg) = -OnTop(s)
  <1>1. s.code \in Codes /\ s.code # NoCode /\ s \in Row
    BY VatAssumption DEF TaggedRow, Row
  <1>2. PICK v \in Int : v = VatOf(s)
    BY <1>1, VatTyped
  <1>3. DueOf(leg) = Owed(leg) + Shifted(leg) - Deducted(leg)
    BY <1>1 DEF DueOf
  <1>4. PICK kind : kind = Kind(s.code) /\ kind \in {"standard", "exempt", "reverse", "private"}
    BY <1>1, VatAssumption
  <1>5. Kind(leg.code) = kind /\ leg.vat = v
    BY <1>2, <1>4
  <1>6. OnTop(s) = IF kind = "reverse" THEN 0 ELSE v
    BY <1>1, <1>2, <1>4 DEF OnTop, HasLeg
  <1>7. CASE kind = "private"
    BY <1>3, <1>5, <1>6, <1>7 DEF Owed, Shifted, Deducted
  <1>8. CASE kind = "standard"
    BY <1>3, <1>5, <1>6, <1>8 DEF Owed, Shifted, Deducted
  <1>9. CASE kind = "reverse"
    <2>1. PICK z \in Int : z = Shifted(leg)
      BY <1>5 DEF Shifted
    <2>2. Owed(leg) = 0 /\ Deducted(leg) = z
      BY <1>5, <1>9, <2>1 DEF Owed, Deducted
    <2>3. QED
      BY <1>3, <1>6, <1>9, <2>1, <2>2
  <1>10. CASE kind = "exempt"
    <2>1. v = 0
      <3>1. Effective(s.code) = 0
        BY <1>1, <1>4, <1>10, VatAssumption DEF Effective
      <3>2. PICK a \in Nat : a = Abs(s.amount)
        BY DEF Abs, TaggedRow
      <3>3. 2 * 0 * a + 10000 = 10000 /\ 10000 \div 20000 = 0
        BY <3>2
      <3>4. Percentage(Effective(s.code), s.amount) = 0
        BY <3>1, <3>2, <3>3 DEF Percentage
      <3>5. VatOf(s) = 0 * Sign(s.amount)
        BY <1>4, <1>10, <3>4 DEF VatOf
      <3>6. PICK g \in Int : g = Sign(s.amount)
        BY DEF Sign
      <3>7. QED
        BY <1>2, <3>5, <3>6
    <2>2. Owed(leg) = 0 /\ Shifted(leg) = 0
      BY <1>5, <1>10 DEF Owed, Shifted
    <2>3. Deducted(leg) = 0
      BY <1>5, <1>10, <2>2 DEF Deducted
    <2>4. OnTop(s) = 0
      BY <1>6, <2>1
    <2>5. DueOf(leg) = 0
      BY <1>3, <2>2, <2>3
    <2>6. PICK z \in Int : z = OnTop(s) /\ z = 0
      BY <2>4
    <2>7. -z = 0
      <3>1. \A x \in Int : x <= 0 /\ x >= 0 => -x = 0
        OBVIOUS
      <3>2. z <= 0 /\ z >= 0
        BY <2>6
      <3>3. QED
        BY <3>1, <3>2
    <2>8. QED
      BY <2>5, <2>6, <2>7
  <1>11. QED
    BY <1>4, <1>7, <1>8, <1>9, <1>10

----------------------------------------------------------------------------------
(* ... when all codes of a list are set. *)

CodedIn(l) == {k \in DOMAIN l : l[k].code # NoCode}

\* The posting at k has the code of a row it matches.
HasCodeOf(l, k, s) == k = Min(Matching(l, s)) /\ l[k].code = s.code /\ l[k].vat = VatOf(s)

Explained(l, c) ==
  /\ ~Touches(l, SettlementCodes)
  /\ OnLegs(Clearing, l) = TopOf(c)
  /\ \A m \in DOMAIN c : Kind(c[m].code) # "margin" /\ c[m].account \notin Clearing /\ Matching(l, c[m]) # {}
  /\ \A k \in CodedIn(l) : \E m \in DOMAIN c : HasCodeOf(l, k, c[m])

\* f gives each element of A one of B, and each of B to one of A.
OneToOne(f, A, B) ==
  /\ f \in [A -> B]
  /\ \A a, b \in A : f[a] = f[b] => a = b
  /\ \A b \in B : \E a \in A : f[a] = b

\* When as many postings as rows have a code, each row has given one its code.
LEMMA AllCodedIs ==
  ASSUME NEW l \in Seq(LegRow), NEW c \in Seq(TaggedRow), Explained(l, c), Cardinality(CodedIn(l)) = Len(c),
         NEW g, g = [m \in DOMAIN c |-> Min(Matching(l, c[m]))]
  PROVE  OneToOne(g, DOMAIN c, CodedIn(l))
  <1>1. IsFiniteSet(DOMAIN c) /\ Cardinality(DOMAIN c) = Len(c)
    <2>1. DOMAIN c = 1 .. Len(c) /\ Len(c) \in Nat
      OBVIOUS
    <2>2. PICK n \in Nat : n = Len(c)
      BY <2>1
    <2>3. 1 \in Int /\ n \in Int
      OBVIOUS
    <2>4. IsFiniteSet(1 .. n)
      BY <2>3, FS_Interval
    <2>5. Cardinality(1 .. n) = IF 1 > n THEN 0 ELSE n - 1 + 1
      BY <2>3, FS_Interval
    <2>6. QED
      BY <2>1, <2>2, <2>4, <2>5
  <1>2. PICK D, n, T, coded : D = DOMAIN c /\ n = Len(c) /\ T = {g[m] : m \in D} /\ coded = CodedIn(l)
    OBVIOUS
  <1>3. IsFiniteSet(D) /\ Cardinality(D) = n /\ Cardinality(coded) = n /\ DOMAIN g = D
    BY <1>1, <1>2
  <1>4. g \in Surjection(D, T)
    <2>1. g \in [D -> T]
      BY <1>2
    <2>2. QED
      BY <1>2, <2>1 DEF Surjection
  <1>5. IsFiniteSet(T) /\ Cardinality(T) <= n /\ Cardinality(T) \in Nat /\ (Cardinality(T) = n => g \in Injection(D, T))
    BY <1>3, <1>4, FS_Surjection, FS_CardinalityType
  <1>6. coded \subseteq T
    <2> SUFFICES ASSUME NEW k \in CodedIn(l)
                 PROVE  k \in T
      BY <1>2
    <2>1. PICK m \in DOMAIN c : k = Min(Matching(l, c[m]))
      BY DEF Explained, HasCodeOf
    <2>2. QED
      BY <1>2, <2>1
  <1>7. n \in Nat
    BY <1>2
  <1>8. IsFiniteSet(coded) /\ Cardinality(coded) <= Cardinality(T) /\ (Cardinality(coded) = Cardinality(T) => coded = T)
    BY <1>5, <1>6, FS_Subset
  <1>9. Cardinality(T) = n
    BY <1>3, <1>5, <1>7, <1>8
  <1>10. coded = T /\ g \in Injection(D, T)
    BY <1>3, <1>5, <1>8, <1>9
  <1>11. \A a, b \in D : g[a] = g[b] => a = b
    BY <1>10 DEF Injection, IsInjective
  <1>12. g \in [D -> coded]
    BY <1>2, <1>10
  <1>13. \A k \in coded : \E m \in D : g[m] = k
    BY <1>2, <1>10
  <1>14. QED
    BY <1>2, <1>11, <1>12, <1>13 DEF OneToOne

LEMMA AllCodedSound ==
  ASSUME NEW l \in Seq(LegRow), NEW c \in Seq(TaggedRow), Explained(l, c), Cardinality(CodedIn(l)) = Len(c)
  PROVE  Sound(l)
  <1>1. PICK g : g = [m \in DOMAIN c |-> Min(Matching(l, c[m]))]
    OBVIOUS
  <1>2. PICK T, S, d : T = CodedIn(l) /\ S = DOMAIN c /\ d = DuesOf(l)
    OBVIOUS
  <1>3. /\ g \in [S -> T]
        /\ \A m, n \in S : g[m] = g[n] => m = n
        /\ \A k \in T : \E m \in S : g[m] = k
    <2>1. OneToOne(g, DOMAIN c, CodedIn(l))
      BY <1>1, AllCodedIs
    <2>2. QED
      BY <1>2, <2>1 DEF OneToOne
  <1>4. /\ d \in [DOMAIN l -> Int] /\ IsFiniteSet(DOMAIN l) /\ \A k \in DOMAIN l : l[k] \in LegRow
        /\ T \subseteq DOMAIN l /\ \A k \in DOMAIN l \ T : d[k] = 0
    <2>1. \A k \in DOMAIN l \ T : d[k] = 0
      BY <1>2 DEF CodedIn, DuesOf, DueOf
    <2>2. T \subseteq DOMAIN l
      BY <1>2 DEF CodedIn
    <2>3. \A k \in DOMAIN l : l[k] \in LegRow
      OBVIOUS
    <2>4. QED
      BY <1>2, <2>1, <2>2, <2>3, DueTyped
  <1>5. SumOf(d) = Part(d, T)
    BY <1>4, SumWhere
  <1>6. PICK f : f = [k \in T |-> d[k]]
    OBVIOUS
  <1>7. IsFiniteSet(T) /\ f \in [T -> Int] /\ SumOf(f) = Part(d, T)
    <2>1. IsFiniteSet(T)
      BY <1>4, FS_Subset
    <2>2. QED
      BY <1>4, <1>6, <2>1 DEF Part
  <1>8. PICK t : t = TopsOf(c)
    OBVIOUS
  <1>9. t \in [S -> Int] /\ IsFiniteSet(S)
    BY <1>2, <1>8, TopTyped
  <1>10. PICK h : h = [m \in S |-> -t[m]]
    OBVIOUS
  <1>11. h \in [S -> Int] /\ \A m \in S : h[m] = -t[m]
    BY <1>9, <1>10
  <1>12. ASSUME NEW m \in S
         PROVE  h[m] = f[g[m]]
    <2>1. PICK k \in T : k = g[m]
      BY <1>3
    <2>2. PICK n \in S : HasCodeOf(l, k, c[n])
      BY <1>2 DEF Explained
    <2>3. g[n] = k
      BY <1>1, <1>2, <2>2 DEF HasCodeOf
    <2>4. n = m
      BY <1>3, <2>1, <2>3
    <2>5. PICK s \in TaggedRow : s = c[m]
      <3>1. \A i \in DOMAIN c : c[i] \in TaggedRow
        OBVIOUS
      <3>2. QED
        BY <1>2, <3>1
    <2>6. Kind(s.code) # "margin" /\ s.account \notin Clearing /\ Matching(l, s) # {}
      BY <1>2, <2>5 DEF Explained
    <2>7. PICK leg \in LegRow : leg = l[k]
      BY <1>4
    <2>8. leg.code = s.code /\ leg.vat = VatOf(s) /\ leg.account = s.account
      <3>1. k = Min(Matching(l, s)) /\ leg.code = s.code /\ leg.vat = VatOf(s)
        BY <2>2, <2>4, <2>5, <2>7 DEF HasCodeOf
      <3>2. l[k].account = s.account
        BY <2>6, <3>1, MatchingIs
      <3>3. QED
        BY <2>7, <3>1, <3>2
    <2>9. DueOf(leg) = -OnTop(s)
      BY <2>6, <2>8, CodedDue
    <2>10. f[k] = DueOf(leg)
      BY <1>2, <1>4, <1>6, <2>7 DEF DuesOf
    <2>11. t[m] = OnTop(s)
      BY <1>2, <1>8, <2>5 DEF TopsOf
    <2>12. QED
      BY <1>11, <2>1, <2>9, <2>10, <2>11
  <1>13. Renames(g, h, f, S, T)
    BY <1>3, <1>7, <1>9, <1>11, <1>12 DEF Renames
  <1>14. SumOf(h) = SumOf(f)
    BY <1>13, SumRenamed
  <1>15. SumOf(h) = -SumOf(t)
    BY <1>9, <1>11, SumOpposite
  <1>16. QED
    BY <1>2, <1>5, <1>7, <1>8, <1>14, <1>15 DEF Sound, DueIn, Explained, TopOf

\* Setting a code keeps what has been set explained.
LEMMA WrittenExplained ==
  ASSUME NEW l \in Seq(LegRow), NEW c \in Seq(TaggedRow), Explained(l, c), NEW m \in DOMAIN c,
         NEW k, k = Min(Matching(l, c[m]))
  PROVE  Explained(Written(l, k, c[m]), c)
  <1>1. PICK s \in TaggedRow : s = c[m]
    OBVIOUS
  <1>2. Matching(l, s) # {} /\ k \in DOMAIN l
    <2>1. Matching(l, s) # {}
      BY <1>1 DEF Explained
    <2>2. QED
      BY <1>1, <2>1, MatchingIs
  <1>3. PICK n : n = Written(l, k, s)
    OBVIOUS
  <1>4. PICK p \in LegRow : p = l[k]
    <2>1. \A j \in DOMAIN l : l[j] \in LegRow
      OBVIOUS
    <2>2. QED
      BY <1>2, <2>1
  <1>5. PICK q : q = Coded(p, s)
    OBVIOUS
  <1>6. q.code = s.code /\ q.vat = VatOf(s) /\ q.account = p.account /\ q.amount = p.amount
    BY <1>5 DEF Coded, LegRow
  <1>7. DOMAIN n = DOMAIN l /\ n[k] = q /\ \A j \in DOMAIN l : j # k => n[j] = l[j]
    BY <1>2, <1>3, <1>4, <1>5 DEF Written
  <1>8. \A j \in DOMAIN l : n[j].account = l[j].account /\ n[j].amount = l[j].amount
    <2> SUFFICES ASSUME NEW j \in DOMAIN l
                 PROVE  n[j].account = l[j].account /\ n[j].amount = l[j].amount
      OBVIOUS
    <2>1. CASE j = k
      BY <1>4, <1>6, <1>7, <2>1
    <2>2. CASE j # k
      BY <1>7, <2>2
    <2>3. QED
      BY <2>1, <2>2
  <1>9. SameAmounts(l, n)
    BY <1>7, <1>8 DEF SameAmounts
  <1>10. \A r : Matching(n, r) = Matching(l, r)
    BY <1>9, MatchingKept
  <1>11. ~Touches(n, SettlementCodes)
    BY <1>7, <1>8 DEF Explained, Touches
  <1>12. OnLegs(Clearing, n) = OnLegs(Clearing, l)
    <2>1. OnOf(Clearing, n) = OnOf(Clearing, l)
      BY <1>7, <1>8 DEF OnOf, On
    <2>2. QED
      BY <2>1 DEF OnLegs
  <1>13. ASSUME NEW j \in CodedIn(n)
         PROVE  \E i \in DOMAIN c : HasCodeOf(n, j, c[i])
    <2>1. CASE j = k
      <3>1. HasCodeOf(n, j, s)
        BY <1>1, <1>6, <1>7, <1>10, <2>1 DEF HasCodeOf
      <3>2. QED
        BY <1>1, <3>1
    <2>2. CASE j # k
      <3>1. j \in CodedIn(l) /\ n[j] = l[j]
        BY <1>7, <2>2 DEF CodedIn
      <3>2. PICK i \in DOMAIN c : HasCodeOf(l, j, c[i])
        BY <3>1 DEF Explained
      <3>3. HasCodeOf(n, j, c[i])
        BY <1>10, <3>1, <3>2 DEF HasCodeOf
      <3>4. QED
        BY <3>3
    <2>3. QED
      BY <2>1, <2>2
  <1>14. \A i \in DOMAIN c : Kind(c[i].code) # "margin" /\ c[i].account \notin Clearing /\ Matching(n, c[i]) # {}
    BY <1>10 DEF Explained
  <1>15. Explained(n, c)
    BY <1>11, <1>12, <1>13, <1>14 DEF Explained
  <1>16. QED
    BY <1>1, <1>3, <1>15

LEMMA ClearingIs ==
  /\ \A s : ClearingOf(s) \in Clearing
  /\ \A a \in Clearing : a \notin SettlementCodes
  <1>1. \A s : ClearingOf(s) \in Clearing
    BY DEF ClearingOf, Clearing
  <1>2. \A j \in DOMAIN Settlement : Settlement[j] \in Accounts \ {Input, Output, Difference, Bank}
    BY VatAssumption
  <1>3. QED
    BY <1>1, <1>2 DEF Clearing, SettlementCodes

\* The user's rows keep their accounts, the VAT legs follow them.
LEMMA ExpandLegs ==
  ASSUME NEW l \in Seq(Row), NEW n, n = Len(l), NEW c, c = Cardinality(Paying(l))
  PROVE  /\ n \in Nat /\ c \in Nat /\ DOMAIN Expand(l) = 1 .. (n + c)
         /\ \A k \in 1 .. n : Expand(l)[k].account = l[k].account /\ Expand(l)[k].code = NoCode
         /\ \A k \in (n + 1) .. (n + c) :
              k - n \in 1 .. c /\ Expand(l)[k] = VatLeg(l[Place(Paying(l), k - n)])
  <1>1. PICK u \in Seq(LegRow), v \in Seq(LegRow), x \in Int :
          u = UserLegs(l) /\ v = VatLegs(l) /\ x = Surplus(l) /\ Len(u) = n /\ Len(v) = c
    BY LegsTyped
  <1>2. n \in Nat /\ c \in Nat /\ DOMAIN l = 1 .. n /\ DOMAIN u = 1 .. n /\ DOMAIN v = 1 .. c
    <2>1. DOMAIN u = 1 .. Len(u) /\ Len(u) \in Nat /\ DOMAIN v = 1 .. Len(v) /\ Len(v) \in Nat /\ DOMAIN l = 1 .. Len(l)
      OBVIOUS
    <2>2. QED
      BY <1>1, <2>1
  <1>3. PICK a \in Seq(LegRow) : a = AllLegs(l) /\ a = u \o v
    BY <1>1, JoinedIs DEF AllLegs
  <1>4. /\ DOMAIN a = 1 .. (n + c)
        /\ \A k \in 1 .. n : a[k] = u[k]
        /\ \A k \in 1 .. c : a[n + k] = v[k]
    <2>1. DOMAIN (u \o v) = 1 .. (Len(u) + Len(v))
      BY JoinedIs
    <2>2. \A k \in DOMAIN u : (u \o v)[k] = u[k]
      BY JoinedIs
    <2>3. \A k \in DOMAIN v : (u \o v)[Len(u) + k] = v[k]
      BY JoinedIs
    <2>4. QED
      BY <1>1, <1>2, <1>3, <2>1, <2>2, <2>3
  <1>5. PICK e : e = Expand(l)
    OBVIOUS
  <1>6. e = [k \in DOMAIN a |-> IF k \in Absorber(l) THEN [a[k] EXCEPT !.amount = @ - x] ELSE a[k]]
    BY <1>1, <1>3, <1>5, ExpandIs
  <1>7. ASSUME NEW k \in 1 .. n
        PROVE  e[k].account = l[k].account /\ e[k].code = NoCode
    <2>1. PICK p : p = u[k]
      OBVIOUS
    <2>2. p = [account |-> l[k].account, amount |-> l[k].amount, code |-> NoCode, vat |-> 0]
      BY <1>1, <1>2, <2>1 DEF UserLegs
    <2>3. a[k] = p /\ k \in DOMAIN a
      BY <1>2, <1>4, <2>1
    <2>4. e[k] = p \/ e[k] = [p EXCEPT !.amount = @ - x]
      BY <1>6, <2>3
    <2>5. QED
      BY <2>2, <2>4
  <1>8. ASSUME NEW k \in (n + 1) .. (n + c)
        PROVE  k - n \in 1 .. c /\ e[k] = VatLeg(l[Place(Paying(l), k - n)])
    <2>1. k \in Int /\ k >= n + 1 /\ k <= n + c
      BY <1>2
    <2>2. k - n \in 1 .. c /\ k = n + (k - n) /\ k \in 1 .. (n + c) /\ k \notin 1 .. n
      BY <1>2, <2>1
    <2>3. PICK q \in 1 .. c : q = k - n /\ k = n + q /\ k \in 1 .. (n + c) /\ k \notin 1 .. n
      BY <2>2
    <2>4. k \notin Absorber(l)
      BY <1>2, <2>3 DEF Absorber
    <2>5. e[k] = v[q]
      BY <1>4, <1>6, <2>3, <2>4
    <2>6. Paying(l) \in SUBSET DOMAIN l
      BY DEF Paying
    <2>7. PICK p \in Seq(Row) : p = Picked(l, Paying(l)) /\ Len(p) = c /\ p[q] = l[Place(Paying(l), q)]
      BY <2>6, PickedIs
    <2>8. q \in DOMAIN p
      BY <2>7
    <2>9. v[q] = VatLeg(p[q])
      BY <1>1, <2>7, <2>8 DEF VatLegs
    <2>10. QED
      BY <2>3, <2>5, <2>7, <2>9
  <1>9. QED
    BY <1>2, <1>4, <1>5, <1>6, <1>7, <1>8

\* The VAT of the rows is what the rows that get a code ask for ...
TopRows(l) == [k \in Tagged(l) |-> OnTop(l[k])]

LEMMA TopRowsTyped ==
  ASSUME NEW l \in Seq(Row)
  PROVE  /\ Tagged(l) \in SUBSET (1 .. Len(l)) /\ Paying(l) \in SUBSET Tagged(l) /\ Len(l) \in Nat
         /\ IsFiniteSet(Tagged(l)) /\ IsFiniteSet(Paying(l))
         /\ TopRows(l) \in [Tagged(l) -> Int]
         /\ \A k \in Paying(l) : TopRows(l)[k] = VatOf(l[k])
         /\ \A k \in Tagged(l) \ Paying(l) : TopRows(l)[k] = 0
  <1>1. Len(l) \in Nat /\ DOMAIN l = 1 .. Len(l) /\ \A k \in DOMAIN l : l[k] \in Row
    OBVIOUS
  <1>2. Tagged(l) \in SUBSET (1 .. Len(l)) /\ Paying(l) \in SUBSET Tagged(l)
    BY <1>1 DEF Tagged, Paying, HasLeg
  <1>3. IsFiniteSet(1 .. Len(l))
    BY <1>1, FS_Interval
  <1>4. IsFiniteSet(Tagged(l)) /\ IsFiniteSet(Paying(l))
    BY <1>2, <1>3, FS_Subset
  <1>5. \A k \in Tagged(l) : OnTop(l[k]) \in Int
    <2> SUFFICES ASSUME NEW k \in Tagged(l)
                 PROVE  OnTop(l[k]) \in Int
      OBVIOUS
    <2>1. PICK s \in Row : s = l[k] /\ s.code # NoCode
      BY <1>1, <1>2 DEF Tagged
    <2>2. s.code \in Codes
      BY <2>1 DEF Row
    <2>3. VatOf(s) \in Int
      BY <2>2, VatTyped
    <2>4. QED
      BY <2>1, <2>3 DEF OnTop
  <1>6. \A k \in Paying(l) : TopRows(l)[k] = VatOf(l[k])
    BY <1>2 DEF TopRows, OnTop, Paying
  <1>7. \A k \in Tagged(l) \ Paying(l) : TopRows(l)[k] = 0
    BY <1>2 DEF TopRows, OnTop, Paying, Tagged
  <1>8. TopRows(l) \in [Tagged(l) -> Int]
    BY <1>5 DEF TopRows
  <1>9. QED
    BY <1>1, <1>2, <1>4, <1>6, <1>7, <1>8

LEMMA TopOfSpecs ==
  ASSUME NEW l \in Seq(Row)
  PROVE  TopOf(Specs(l)) = SumOf(TopRows(l))
  <1>1. PICK c \in Seq(TaggedRow) : /\ c = Specs(l) /\ Len(c) = Cardinality(Tagged(l))
                                    /\ \A m \in DOMAIN c : c[m] = l[Place(Tagged(l), m)]
    BY SpecsAre
  <1>2. PICK D, T, f, h : D = DOMAIN c /\ T = Tagged(l) /\ f = TopRows(l) /\ h = TopsOf(c)
    OBVIOUS
  <1>3. D = 1 .. Cardinality(T) /\ IsFiniteSet(D) /\ h \in [D -> Int]
    BY <1>1, <1>2, TopTyped
  <1>4. T \in SUBSET (1 .. Len(l)) /\ Len(l) \in Nat /\ IsFiniteSet(T) /\ f \in [T -> Int]
    BY <1>2, TopRowsTyped
  <1>5. PICK g : g = [m \in D |-> Place(T, m)]
    OBVIOUS
  <1>6. g \in [D -> T] /\ \A m, n \in D : g[m] = g[n] => m = n
    <2>1. \A n \in 1 .. Cardinality(T) : Place(T, n) \in T
      BY <1>4, PlacesAre
    <2>2. \A m, n \in 1 .. Cardinality(T) : Place(T, m) = Place(T, n) => m = n
      BY <1>4, PlacesAre
    <2>3. QED
      BY <1>3, <1>5, <2>1, <2>2
  <1>7. ASSUME NEW k \in T
        PROVE  \E m \in D : g[m] = k
    <2>1. PICK r : r = Rank(T, k) /\ r \in 1 .. Cardinality(T) /\ Place(T, r) = k
      BY <1>4, PlacesAre
    <2>2. QED
      BY <1>3, <1>5, <2>1
  <1>8. \A m \in D : h[m] = f[g[m]]
    <2> SUFFICES ASSUME NEW m \in D
                 PROVE  h[m] = f[g[m]]
      OBVIOUS
    <2>1. h[m] = OnTop(c[m])
      BY <1>2 DEF TopsOf
    <2>2. PICK k \in T : k = g[m]
      BY <1>6
    <2>3. c[m] = l[k]
      BY <1>1, <1>2, <1>5, <2>2
    <2>4. f[k] = OnTop(l[k])
      BY <1>2, <2>2 DEF TopRows
    <2>5. QED
      BY <2>1, <2>2, <2>3, <2>4
  <1>9. Renames(g, h, f, D, T)
    BY <1>3, <1>4, <1>6, <1>7, <1>8 DEF Renames
  <1>10. SumOf(h) = SumOf(f)
    BY <1>9, SumRenamed
  <1>11. QED
    BY <1>1, <1>2, <1>10 DEF TopOf

\* ... and what the VAT legs put on the clearing accounts.
LEMMA OnExpanded ==
  ASSUME NEW l \in Seq(Row), Elsewhere(l)
  PROVE  OnLegs(Clearing, Expand(l)) = SumOf(TopRows(l))
  <1>1. PICK n, c, P : n = Len(l) /\ c = Cardinality(P) /\ P = Paying(l)
    OBVIOUS
  <1>2. PICK e \in Seq(LegRow) : e = Expand(l)
    BY ExpandTyped
  <1>3. /\ n \in Nat /\ c \in Nat /\ DOMAIN e = 1 .. (n + c)
        /\ \A k \in 1 .. n : e[k].account = l[k].account
        /\ \A k \in (n + 1) .. (n + c) : k - n \in 1 .. c /\ e[k] = VatLeg(l[Place(P, k - n)])
    BY <1>1, <1>2, ExpandLegs
  <1>4. PICK D, T, f : D = DOMAIN e /\ T = (n + 1) .. (n + c) /\ f = OnOf(Clearing, e)
    OBVIOUS
  <1>5. f \in [D -> Int] /\ IsFiniteSet(D)
    <2>1. f \in Seq(Int) /\ Len(f) = Len(e) /\ D = 1 .. Len(e)
      BY <1>4, OnTyped
    <2>2. QED
      BY <2>1, ListTyped
  <1>6. T \in SUBSET D /\ \A k \in D \ T : f[k] = 0
    <2>1. T \in SUBSET D /\ \A k \in D \ T : k \in 1 .. n
      BY <1>3, <1>4
    <2>2. ASSUME NEW k \in 1 .. n, k \in D
          PROVE  f[k] = 0
      <3>1. e[k].account = l[k].account /\ k \in DOMAIN l
        BY <1>1, <1>3
      <3>2. e[k].account \notin Clearing
        BY <3>1 DEF Elsewhere
      <3>3. QED
        BY <1>4, <2>2, <3>2 DEF OnOf, On
    <2>3. QED
      BY <2>1, <2>2
  <1>7. SumOf(f) = Part(f, T)
    BY <1>5, <1>6, SumWhere
  <1>8. PICK top : top = TopRows(l)
    OBVIOUS
  <1>9. /\ top \in [Tagged(l) -> Int] /\ IsFiniteSet(Tagged(l)) /\ P \in SUBSET Tagged(l) /\ IsFiniteSet(P)
        /\ \A k \in P : top[k] = VatOf(l[k])
        /\ \A k \in Tagged(l) \ P : top[k] = 0
    BY <1>1, <1>8, TopRowsTyped
  <1>10. SumOf(top) = Part(top, P)
    BY <1>9, SumWhere
  <1>11. PICK h, d, g : h = [k \in T |-> f[k]] /\ d = [k \in P |-> top[k]] /\ g = [k \in T |-> Place(P, k - n)]
    OBVIOUS
  <1>12. h \in [T -> Int] /\ d \in [P -> Int] /\ IsFiniteSet(T)
    BY <1>5, <1>6, <1>9, <1>11, FS_Subset
  <1>13. P \in SUBSET (1 .. n)
    BY <1>1, <1>3 DEF Paying
  <1>14. \A k \in T : k - n \in 1 .. c /\ n + (k - n) = k
    BY <1>3, <1>4
  <1>15. g \in [T -> P] /\ \A j, k \in T : g[j] = g[k] => j = k
    <2>1. \A q \in 1 .. c : Place(P, q) \in P
      BY <1>1, <1>3, <1>13, PlacesAre
    <2>2. \A m, q \in 1 .. c : Place(P, m) = Place(P, q) => m = q
      <3>1. n \in Nat /\ P \in SUBSET (1 .. n)
        BY <1>3, <1>13
      <3>2. \A m, q \in 1 .. Cardinality(P) : Place(P, m) = Place(P, q) => m = q
        BY <3>1, PlacesAre
      <3>3. QED
        BY <1>1, <3>2
    <2>3. g \in [T -> P]
      BY <1>11, <1>14, <2>1
    <2>4. ASSUME NEW j \in T, NEW k \in T, g[j] = g[k]
          PROVE  j = k
      <3>1. PICK m \in 1 .. c, q \in 1 .. c : m = j - n /\ q = k - n /\ j = n + m /\ k = n + q
        BY <1>14
      <3>2. Place(P, m) = Place(P, q)
        BY <1>11, <2>4, <3>1
      <3>3. QED
        BY <2>2, <3>1, <3>2
    <2>5. QED
      BY <2>3, <2>4
  <1>16. ASSUME NEW k \in P
         PROVE  \E j \in T : g[j] = k
    <2>1. PICK r : r = Rank(P, k) /\ r \in 1 .. c /\ Place(P, r) = k
      BY <1>1, <1>3, <1>13, PlacesAre
    <2>2. n + r \in T /\ (n + r) - n = r
      BY <1>3, <1>4, <2>1
    <2>3. QED
      BY <1>11, <2>1, <2>2
  <1>17. ASSUME NEW k \in T
         PROVE  h[k] = d[g[k]]
    <2>1. PICK j \in P : j = g[k] /\ j = Place(P, k - n)
      BY <1>11, <1>15
    <2>2. e[k] = VatLeg(l[j]) /\ k \in D
      BY <1>3, <1>4, <1>6, <2>1
    <2>3. e[k].account \in Clearing /\ e[k].amount = VatOf(l[j])
      BY <2>2, ClearingIs DEF VatLeg
    <2>4. h[k] = VatOf(l[j])
      BY <1>4, <1>11, <2>2, <2>3 DEF OnOf, On
    <2>5. QED
      BY <1>9, <1>11, <2>1, <2>4
  <1>18. Renames(g, h, d, T, P)
    BY <1>9, <1>12, <1>15, <1>16, <1>17 DEF Renames
  <1>19. SumOf(h) = SumOf(d)
    BY <1>18, SumRenamed
  <1>20. QED
    BY <1>2, <1>4, <1>7, <1>8, <1>10, <1>11, <1>19 DEF OnLegs, Part

LEMMA BookedExplained ==
  ASSUME NEW l \in Seq(Row), Elsewhere(l), Expandable(l)
  PROVE  Explained(Expand(l), Specs(l))
  <1>1. PICK n, c, e : n = Len(l) /\ c = Cardinality(Paying(l)) /\ e = Expand(l)
    OBVIOUS
  <1>2. /\ n \in Nat /\ c \in Nat /\ DOMAIN e = 1 .. (n + c) /\ DOMAIN l = 1 .. n
        /\ \A k \in 1 .. n : e[k].account = l[k].account /\ e[k].code = NoCode
        /\ \A k \in (n + 1) .. (n + c) : \E s : e[k] = VatLeg(s)
    <2>1. n \in Nat /\ c \in Nat /\ DOMAIN e = 1 .. (n + c) /\ DOMAIN l = 1 .. n
      BY <1>1, ExpandLegs
    <2>2. \A k \in 1 .. n : e[k].account = l[k].account /\ e[k].code = NoCode
      BY <1>1, ExpandLegs
    <2>3. \A k \in (n + 1) .. (n + c) : e[k] = VatLeg(l[Place(Paying(l), k - n)])
      BY <1>1, ExpandLegs
    <2>4. QED
      BY <2>1, <2>2, <2>3
  <1>3. ASSUME NEW k \in DOMAIN e
        PROVE  e[k].account \notin SettlementCodes /\ e[k].code = NoCode
    <2>1. CASE k \in 1 .. n
      BY <1>2, <2>1 DEF Elsewhere
    <2>2. CASE k \in (n + 1) .. (n + c)
      <3>1. PICK s : e[k] = VatLeg(s)
        BY <1>2, <2>2
      <3>2. QED
        BY <3>1, ClearingIs DEF VatLeg
    <2>3. QED
      BY <1>2, <2>1, <2>2
  <1>4. ~Touches(e, SettlementCodes) /\ CodedIn(e) = {}
    BY <1>3 DEF Touches, CodedIn
  <1>5. OnLegs(Clearing, e) = TopOf(Specs(l))
    BY <1>1, OnExpanded, TopOfSpecs
  <1>6. ASSUME NEW m \in DOMAIN Specs(l)
        PROVE  /\ Kind(Specs(l)[m].code) # "margin" /\ Specs(l)[m].account \notin Clearing
               /\ Matching(e, Specs(l)[m]) # {}
    <2>1. PICK k \in Tagged(l) : Specs(l)[m] = l[k]
      BY SpecsAre
    <2>2. Kind(l[k].code) # "margin" /\ l[k].account \notin Clearing
      BY DEF Expandable, Elsewhere, Tagged
    <2>3. Matching(e, Specs(l)[m]) # {}
      BY <1>1, SpecsAre
    <2>4. QED
      BY <2>1, <2>2, <2>3
  <1>7. Explained(e, Specs(l))
    BY <1>4, <1>5, <1>6 DEF Explained
  <1>8. QED
    BY <1>1, <1>7

----------------------------------------------------------------------------------
(* ... of the other entries. *)

\* A filing and a settlement have no codes and touch a settlement account.
LEMMA UncodedSound ==
  ASSUME NEW l \in Seq(LegRow), Uncoded(l), Touches(l, SettlementCodes)
  PROVE  Sound(l)
  <1>1. DuesOf(l) \in [DOMAIN l -> Int] /\ IsFiniteSet(DOMAIN l)
    BY DueTyped
  <1>2. \A k \in DOMAIN l : DuesOf(l)[k] = 0
    BY DEF DuesOf, DueOf, Uncoded
  <1>3. SumOf(DuesOf(l)) = 0
    BY <1>1, <1>2, SumZero
  <1>4. QED
    BY <1>3 DEF Sound, DueIn

LEMMA OppositeSound ==
  ASSUME NEW l \in Seq(LegRow), Sound(l)
  PROVE  Sound(Opposite(l))
  <1>1. PICK m \in Seq(LegRow) : m = Opposite(l)
    BY OppositeIs
  <1>2. /\ DOMAIN m = DOMAIN l
        /\ \A k \in DOMAIN l : /\ m[k].account = l[k].account /\ m[k].code = l[k].code
                               /\ m[k].amount = -l[k].amount /\ m[k].vat = -l[k].vat
    BY <1>1, OppositeIs
  <1>3. PICK D, f, h, a, b : /\ D = DOMAIN l /\ f = DuesOf(l) /\ h = DuesOf(m)
                             /\ a = OnOf(Clearing, l) /\ b = OnOf(Clearing, m)
    OBVIOUS
  <1>4. f \in [D -> Int] /\ h \in [D -> Int] /\ IsFiniteSet(D) /\ \A k \in D : l[k] \in LegRow /\ m[k] \in LegRow
    <2>1. \A k \in D : l[k] \in LegRow /\ m[k] \in LegRow
      BY <1>2, <1>3
    <2>2. QED
      BY <1>2, <1>3, <2>1, DueTyped
  <1>5. a \in [D -> Int] /\ b \in [D -> Int]
    <2>1. a \in Seq(Int) /\ Len(a) = Len(l) /\ b \in Seq(Int) /\ Len(b) = Len(m)
      BY <1>3, OnTyped
    <2>2. D = 1 .. Len(l) /\ D = 1 .. Len(m)
      BY <1>2, <1>3
    <2>3. DOMAIN a = D /\ DOMAIN b = D
      BY <1>2, <1>3 DEF OnOf
    <2>4. QED
      BY <2>1, <2>3, ListTyped
  <1>6. ASSUME NEW k \in D
        PROVE  h[k] = -f[k] /\ b[k] = -a[k]
    <2>1. PICK p \in LegRow, q \in LegRow : p = l[k] /\ q = m[k]
      BY <1>4
    <2>2. q.account = p.account /\ q.code = p.code /\ q.amount = -p.amount /\ q.vat = -p.vat
      BY <1>2, <1>3, <2>1
    <2>3. p.amount \in Int /\ p.vat \in Int
      BY DEF LegRow
    <2>4. PICK o \in Int, s \in Int, d \in Int : o = Owed(p) /\ s = Shifted(p) /\ d = Deducted(p)
      BY FieldsTyped
    <2>5. Owed(q) = -o /\ Shifted(q) = -s
      <3>1. \A x \in Int : -(-x) = x
        OBVIOUS
      <3>2. QED
        BY <2>2, <2>3, <2>4, <3>1 DEF Owed, Shifted
    <2>6. Deducted(q) = -d
      BY <2>2, <2>3, <2>4, <2>5 DEF Deducted
    <2>7. DueOf(q) = -DueOf(p)
      <3>1. -o + -s - -d = -(o + s - d)
        OBVIOUS
      <3>2. QED
        BY <2>2, <2>4, <2>5, <2>6, <3>1 DEF DueOf
    <2>8. On(Clearing, q) = -On(Clearing, p)
      BY <2>2, <2>3 DEF On
    <2>9. QED
      BY <1>2, <1>3, <2>1, <2>7, <2>8 DEF DuesOf, OnOf
  <1>7. SumOf(h) = -SumOf(f)
    <2>1. \A k \in D : h[k] = -f[k]
      BY <1>6
    <2>2. QED
      BY <1>4, <2>1, SumOpposite
  <1>8. SumOf(b) = -SumOf(a)
    <2>1. \A k \in D : b[k] = -a[k]
      BY <1>6
    <2>2. QED
      BY <1>4, <1>5, <2>1, SumOpposite
  <1>9. SumOf(f) \in Int /\ SumOf(a) \in Int
    BY <1>4, <1>5, SumTyped
  <1>10. Touches(m, SettlementCodes) <=> Touches(l, SettlementCodes)
    BY <1>2 DEF Touches
  <1>11. QED
    BY <1>1, <1>3, <1>7, <1>8, <1>9, <1>10 DEF Sound, DueIn, OnLegs

----------------------------------------------------------------------------------
(* The invariant: an entry is sound, or it waits for its codes, or it was  *)
(* made of one that was posted while it waited.                            *)

\* e: the journal; L: the entries that wait.
Vouched(e, L, i) ==
  \/ Sound(e[i].postings.legs)
  \/ \E j \in L : \/ j = i
                  \/ e[j].state = "posted" /\ (Sound(e[j].postings.legs) => Sound(e[i].postings.legs))

TagOK(e, L, j) ==
  j.at = "tag" => j.entry \in L /\ Explained(e[j.entry].postings.legs, j.specs)

Reads ==
  /\ \A w \in Workers : TagOK(entries, loose, work[w])
  /\ \A i \in Ids : Vouched(entries, loose, i)

SamePostings(e, f) ==
  \A i \in DOMAIN e : /\ i \in DOMAIN f /\ f[i].postings = e[i].postings
                      /\ e[i].state = "posted" => f[i].state = "posted"

LEMMA VouchedKept ==
  ASSUME NEW e, NEW f, SamePostings(e, f), NEW L, NEW M, L \subseteq M, L \subseteq DOMAIN e,
         NEW i \in DOMAIN e, Vouched(e, L, i)
  PROVE  Vouched(f, M, i)
  <1>1. \A j \in DOMAIN e : f[j].postings = e[j].postings /\ (e[j].state = "posted" => f[j].state = "posted")
    BY DEF SamePostings
  <1>2. CASE Sound(e[i].postings.legs)
    BY <1>1, <1>2 DEF Vouched
  <1>3. ASSUME NEW j \in L, j = i \/ (e[j].state = "posted" /\ (Sound(e[j].postings.legs) => Sound(e[i].postings.legs)))
        PROVE  Vouched(f, M, i)
    <2>1. j \in M /\ j \in DOMAIN e
      OBVIOUS
    <2>2. j = i \/ (f[j].state = "posted" /\ (Sound(f[j].postings.legs) => Sound(f[i].postings.legs)))
      BY <1>1, <1>3, <2>1
    <2>3. QED
      BY <2>1, <2>2 DEF Vouched
  <1>4. QED
    BY <1>2, <1>3 DEF Vouched

LEMMA TagKept ==
  ASSUME NEW e, NEW f, SamePostings(e, f), NEW L, NEW M, L \subseteq M, L \subseteq DOMAIN e,
         NEW j, TagOK(e, L, j)
  PROVE  TagOK(f, M, j)
  BY DEF TagOK, SamePostings

LEMMA ReadsStep ==
  ASSUME Known, Reads, SamePostings(entries, entries'), loose \subseteq loose',
         \A v \in Workers : work'[v] = work[v] \/ TagOK(entries', loose', work'[v]),
         \A i \in Ids' \ Ids : Vouched(entries', loose', i)
  PROVE  Reads'
  <1>1. loose \subseteq DOMAIN entries
    BY DEF Known, Tables, Ids
  <1>2. \A v \in Workers : TagOK(entries', loose', work'[v])
    <2> SUFFICES ASSUME NEW v \in Workers, work'[v] = work[v]
                 PROVE  TagOK(entries', loose', work'[v])
      OBVIOUS
    <2>1. TagOK(entries, loose, work[v])
      BY DEF Reads
    <2>2. TagOK(entries', loose', work[v])
      BY <1>1, <2>1, TagKept
    <2>3. QED
      BY <2>2
  <1>3. \A i \in Ids' : Vouched(entries', loose', i)
    <2> SUFFICES ASSUME NEW i \in Ids
                 PROVE  Vouched(entries', loose', i)
      OBVIOUS
    <2>1. Vouched(entries, loose, i) /\ i \in DOMAIN entries
      BY DEF Reads, Ids
    <2>2. QED
      BY <1>1, <2>1, VouchedKept
  <1>4. QED
    BY <1>2, <1>3 DEF Reads

\* Nothing is written that a return reads.
LEMMA ReadsStill ==
  ASSUME Known, Reads, entries' = entries, loose' = loose,
         \A v \in Workers : work'[v] = work[v] \/ work'[v].at # "tag"
  PROVE  Reads'
  <1>1. SamePostings(entries, entries') /\ Ids' = Ids
    BY DEF SamePostings, Ids
  <1>2. \A v \in Workers : work'[v] = work[v] \/ TagOK(entries', loose', work'[v])
    BY DEF TagOK
  <1>3. QED
    BY <1>1, <1>2, ReadsStep

LEMMA ReadsGo ==
  ASSUME Known, Reads, entries' = entries, loose' = loose, NEW w \in Workers, NEW job, Go(w, job), job.at # "tag"
  PROVE  Reads'
  BY Gone, ReadsStill

LEMMA ReadsPosted ==
  ASSUME Known, Reads, NEW i \in Ids, MarkPosted(i), loose' = loose,
         \A v \in Workers : work'[v] = work[v] \/ work'[v].at # "tag"
  PROVE  Reads'
  <1>1. /\ DOMAIN entries' = Ids /\ Ids' = Ids
        /\ entries'[i].state = "posted" /\ entries'[i].postings = entries[i].postings
        /\ \A k \in Ids : k # i => entries'[k] = entries[k]
    BY Posted
  <1>2. SamePostings(entries, entries')
    BY <1>1 DEF SamePostings, Ids
  <1>3. \A v \in Workers : work'[v] = work[v] \/ TagOK(entries', loose', work'[v])
    BY DEF TagOK
  <1>4. QED
    BY <1>1, <1>2, <1>3, ReadsStep

LEMMA ReadsInserted ==
  ASSUME Known, Reads, NEW row \in EntryRow, entries' = Append(entries, row), loose \subseteq loose',
         \A v \in Workers : work'[v] = work[v] \/ TagOK(entries', loose', work'[v]),
         Vouched(entries', loose', LastId + 1)
  PROVE  Reads'
  <1>1. /\ DOMAIN entries' = Ids \cup {LastId + 1} /\ Ids' = DOMAIN entries'
        /\ \A i \in Ids : entries'[i] = entries[i]
    BY Inserted
  <1>2. SamePostings(entries, entries')
    BY <1>1 DEF SamePostings, Ids
  <1>3. \A i \in Ids' \ Ids : Vouched(entries', loose', i)
    BY <1>1
  <1>4. QED
    BY <1>2, <1>3, ReadsStep

LEMMA ReadsBook ==
  ASSUME BooksElsewhere, Known, Reads, NEW w \in Workers, NEW l \in bounds.lists, NEW p \in bounds.periods,
         NEW post \in bounds.posts, BookVatEntry(w, l, p, post)
  PROVE  Reads'
  <1>1. PICK row \in EntryRow : row = Draft(Expand(l), p, Booked) /\ entries' = Append(entries, row)
    BY Booking
  <1>2. l \in Seq(Row) /\ p \in Periods /\ post \in BOOLEAN /\ Expand(l) \in Seq(LegRow) /\ Booked \in Commands
    <2>1. l \in Seq(Row) /\ p \in Periods /\ post \in BOOLEAN
      BY Booking
    <2>2. QED
      BY <2>1, ExpandTyped DEF Booked, Commands
  <1>3. row.postings.legs = Expand(l)
    BY <1>1, <1>2, DraftIs
  <1>4. PICK n \in Nat : n = LastId + 1 /\ entries'[n] = row
    BY <1>1, Inserted
  <1>5. PICK job \in JobRow : job = BookJob(n, l, post) /\ job.at = "tag" /\ job.entry = n /\ job.specs = Specs(l)
    BY <1>2, BookJobIs
  <1>6. Go(w, job) /\ loose' = loose \cup {n}
    BY <1>4, <1>5, Booking
  <1>7. Explained(Expand(l), Specs(l))
    <2>1. Elsewhere(l)
      BY DEF BooksElsewhere, Known, Tables
    <2>2. Expandable(l)
      BY DEF BookVatEntry
    <2>3. QED
      BY <1>2, <2>1, <2>2, BookedExplained
  <1>8. TagOK(entries', loose', job)
    BY <1>3, <1>4, <1>5, <1>6, <1>7 DEF TagOK
  <1>9. \A v \in Workers : work'[v] = work[v] \/ TagOK(entries', loose', work'[v])
    <2>1. work'[w] = job /\ \A v \in Workers : v # w => work'[v] = work[v]
      BY <1>6, Gone
    <2>2. QED
      BY <1>8, <2>1
  <1>10. Vouched(entries', loose', LastId + 1)
    BY <1>4, <1>6 DEF Vouched
  <1>11. QED
    BY <1>1, <1>6, <1>9, <1>10, ReadsInserted

LEMMA ReadsTag ==
  ASSUME Known, Reads, NEW w \in Workers, TagPosting(w)
  PROVE  Reads'
  <1>1. PICK j \in JobRow : j = work[w] /\ j.at = "tag"
    BY JobIs DEF TagPosting, At
  <1>2. PICK c \in Seq(TaggedRow) : c = j.specs
    BY DEF JobRow
  <1>3. PICK i \in Ids, s \in TaggedRow, k \in Nat :
          /\ i = j.entry /\ s = c[j.next] /\ j.next \in DOMAIN c
          /\ k = Min(Matching(entries[i].postings.legs, s)) /\ k \in DOMAIN entries[i].postings.legs
          /\ entries[i].state = "draft" /\ entries[i].ref = Booked
          /\ entries' = TaggedAt(entries, i, k, s)
    BY <1>1, <1>2, Tagging
  <1>4. MayTag(entries, i, k, s)
    BY <1>3 DEF MayTag, Known, Tables, Ids
  <1>5. PICK e : e = entries /\ MayTag(e, i, k, s)
    BY <1>4
  <1>6. PICK l \in Seq(LegRow) : l = e[i].postings.legs
    BY <1>5, JournalIs DEF MayTag
  <1>7. /\ DOMAIN entries' = DOMAIN e
        /\ entries'[i].state = "draft" /\ entries'[i].postings.legs = Written(l, k, s)
        /\ \A n \in DOMAIN e : n # i => entries'[n] = e[n]
    <2>1. /\ DOMAIN TaggedAt(e, i, k, s) = DOMAIN e
          /\ TaggedAt(e, i, k, s)[i].state = "draft"
          /\ TaggedAt(e, i, k, s)[i].postings.legs = Written(e[i].postings.legs, k, s)
          /\ \A n \in DOMAIN e : n # i => TaggedAt(e, i, k, s)[n] = e[n]
      BY <1>5, TagMoves
    <2>2. QED
      BY <1>3, <1>5, <1>6, <2>1
  <1>8. i \in loose /\ Explained(l, c)
    <2>1. TagOK(entries, loose, j)
      BY <1>1 DEF Reads
    <2>2. QED
      BY <1>1, <1>2, <1>3, <1>5, <1>6, <2>1 DEF TagOK
  <1>9. Explained(Written(l, k, s), c)
    <2>1. PICK m \in DOMAIN c : m = j.next /\ s = c[m]
      BY <1>3
    <2>2. k = Min(Matching(l, c[m]))
      BY <1>3, <1>5, <1>6, <2>1
    <2>3. Explained(Written(l, k, c[m]), c)
      BY <1>8, <2>2, WrittenExplained
    <2>4. QED
      BY <2>1, <2>3
  <1>10. PICK job : job = [j EXCEPT !.next = @ + 1]
    OBVIOUS
  <1>11. Go(w, job) /\ job.at = "tag" /\ job.entry = i /\ job.specs = c /\ loose' = loose
    BY <1>1, <1>2, <1>3, <1>10 DEF TagPosting, JobRow
  <1>12. work'[w] = job /\ \A v \in Workers : v # w => work'[v] = work[v]
    BY <1>11, Gone
  <1>13. ASSUME NEW v \in Workers
         PROVE  TagOK(entries', loose', work'[v])
    <2>1. CASE v = w
      BY <1>7, <1>8, <1>9, <1>11, <1>12, <2>1 DEF TagOK
    <2>2. CASE v # w
      <3>1. PICK q : q = work[v] /\ work'[v] = q /\ TagOK(entries, loose, q)
        BY <1>12, <2>2 DEF Reads
      <3>2. q.at = "tag" => q.entry # i /\ q.entry \in DOMAIN e
        BY <1>1, <1>3, <1>5, <2>2, <3>1, HeldEntry DEF Known, Held, Holding, Ids
      <3>3. QED
        BY <1>5, <1>7, <1>11, <3>1, <3>2 DEF TagOK
    <2>3. QED
      BY <2>1, <2>2
  <1>14. ASSUME NEW n \in Ids
         PROVE  Vouched(entries', loose', n)
    <2>1. CASE n = i
      BY <1>8, <1>11, <2>1 DEF Vouched
    <2>2. CASE n # i
      <3>1. Vouched(e, loose, n) /\ entries'[n] = e[n]
        BY <1>5, <1>7, <2>2 DEF Reads, Ids
      <3>2. \A q \in loose : q \in DOMAIN e /\ (e[q].state = "posted" => entries'[q] = e[q])
        BY <1>3, <1>5, <1>7 DEF Known, Tables, Ids
      <3>3. CASE Sound(e[n].postings.legs)
        BY <3>1, <3>3 DEF Vouched
      <3>4. ASSUME NEW q \in loose, q = n \/ (e[q].state = "posted" /\ (Sound(e[q].postings.legs) => Sound(e[n].postings.legs)))
            PROVE  Vouched(entries', loose', n)
        <4>1. q = n \/ (entries'[q].state = "posted" /\ (Sound(entries'[q].postings.legs) => Sound(entries'[n].postings.legs)))
          BY <3>1, <3>2, <3>4
        <4>2. QED
          BY <1>11, <4>1 DEF Vouched
      <3>5. QED
        BY <3>1, <3>3, <3>4 DEF Vouched
    <2>3. QED
      BY <2>1, <2>2
  <1>15. Ids' = Ids
    BY <1>5, <1>7 DEF Ids
  <1>16. QED
    BY <1>13, <1>14, <1>15 DEF Reads

LEMMA ReadsEndTagging ==
  ASSUME Known, Reads, NEW w \in Workers, EndTagging(w)
  PROVE  Reads'
  <1>1. PICK j \in JobRow : j = work[w] /\ j.at = "tag"
    BY JobIs DEF EndTagging, At
  <1>2. PICK c \in Seq(TaggedRow), i \in Ids : c = j.specs /\ i = j.entry
    BY <1>1, HeldEntry DEF JobRow, Holding
  <1>3. PICK l \in Seq(LegRow) : l = entries[i].postings.legs
    BY JournalIs DEF Known, Tables, Ids
  <1>4. Explained(l, c)
    BY <1>1, <1>2, <1>3 DEF Reads, TagOK
  <1>5. entries' = entries /\ Ids' = Ids
        /\ loose' = IF Cardinality(CodedIn(l)) = Len(c) THEN loose \ {i} ELSE loose
    BY <1>1, <1>2, <1>3 DEF EndTagging, CodesSet, CodedIn, Ids
  <1>6. PICK job : Go(w, job) /\ job.at # "tag"
    <2>1. PostJob(j.entry).at = "post" /\ Idle.at = "idle"
      <3>1. j.entry \in Nat
        BY DEF JobRow
      <3>2. QED
        BY <3>1, PostJobIs, IdleIs
    <2>2. Go(w, IF j.post THEN PostJob(j.entry) ELSE Idle)
      BY <1>1 DEF EndTagging, PostJob
    <2>3. QED
      BY <2>1, <2>2
  <1>7. work'[w] = job /\ \A v \in Workers : v # w => work'[v] = work[v]
    BY <1>6, Gone
  <1>8. CASE Cardinality(CodedIn(l)) # Len(c)
    BY <1>5, <1>6, <1>8, ReadsGo
  <1>9. CASE Cardinality(CodedIn(l)) = Len(c)
    <2>1. Sound(l) /\ loose' = loose \ {i}
      BY <1>4, <1>5, <1>9, AllCodedSound
    <2>2. ASSUME NEW v \in Workers
          PROVE  TagOK(entries', loose', work'[v])
      <3>1. CASE v = w
        BY <1>6, <1>7, <3>1 DEF TagOK
      <3>2. CASE v # w
        <4>1. work'[v] = work[v] /\ TagOK(entries, loose, work[v])
          BY <1>7, <3>2 DEF Reads
        <4>2. work[v].at = "tag" => work[v].entry # i
          BY <1>1, <1>2, <3>2 DEF Known, Held, Holding
        <4>3. QED
          BY <1>5, <2>1, <4>1, <4>2 DEF TagOK
      <3>3. QED
        BY <3>1, <3>2
    <2>3. ASSUME NEW n \in Ids
          PROVE  Vouched(entries', loose', n)
      <3>1. Vouched(entries, loose, n)
        BY DEF Reads
      <3>2. CASE Sound(entries[n].postings.legs)
        BY <1>5, <3>2 DEF Vouched
      <3>3. ASSUME NEW q \in loose,
                   q = n \/ (entries[q].state = "posted" /\ (Sound(entries[q].postings.legs) => Sound(entries[n].postings.legs)))
            PROVE  Vouched(entries', loose', n)
        <4>1. CASE q = i
          BY <1>3, <1>5, <2>1, <3>3, <4>1 DEF Vouched
        <4>2. CASE q # i
          BY <1>5, <2>1, <3>3, <4>2 DEF Vouched
        <4>3. QED
          BY <4>1, <4>2
      <3>4. QED
        BY <3>1, <3>2, <3>3 DEF Vouched
    <2>4. QED
      BY <1>5, <2>2, <2>3 DEF Reads
  <1>10. QED
    BY <1>8, <1>9

LEMMA ReadsCreate ==
  ASSUME Known, Reads, NEW w \in Workers
  PROVE  CreateFiling(w) \/ CreateSettlement(w) => Reads'
  <1>1. PICK j \in JobRow : j = work[w] /\ JobOK(j)
    BY JobIs
  <1>2. ASSUME NEW l \in Seq(LegRow), NEW ref \in Commands, Sound(l), entries' = Append(entries, Draft(l, Today, ref)),
               loose' = loose, NEW job, Go(w, job), job.at # "tag"
        PROVE  Reads'
    <2>1. PICK row \in EntryRow : row = Draft(l, Today, ref) /\ row.postings.legs = l
      BY VatAssumption, DraftIs
    <2>2. entries' = Append(entries, row)
      BY <1>2, <2>1
    <2>3. entries'[LastId + 1] = row
      BY <2>2, Inserted
    <2>4. Vouched(entries', loose', LastId + 1)
      BY <1>2, <2>1, <2>3 DEF Vouched
    <2>5. \A v \in Workers : work'[v] = work[v] \/ TagOK(entries', loose', work'[v])
      BY <1>2, Gone DEF TagOK
    <2>6. QED
      BY <1>2, <2>2, <2>4, <2>5, ReadsInserted
  <1>3. ASSUME NEW k \in DOMAIN Settlement, j.account = Settlement[k]
        PROVE  j.account \in SettlementCodes /\ j.account \in Accounts
    BY <1>3 DEF SettlementCodes, JobRow
  <1>4. CASE CreateFiling(w)
    <2>1. j.at = "file_create"
      BY <1>1, <1>4 DEF CreateFiling, At
    <2>2. j.account \in SettlementCodes /\ j.input + j.output # 0
      BY <1>1, <1>3, <2>1 DEF JobOK, Moving
    <2>3. PICK a \in Accounts, x \in Int, y \in Int, z \in Int :
            a = j.account /\ x = -j.output /\ y = -j.input /\ z = j.output + j.input /\ z # 0
      BY <2>2 DEF JobRow
    <2>4. PICK l \in Seq(LegRow) : l = Filing(j) /\ l = ThreeLegs(Output, x, Input, y, a, z)
      BY <2>3, FilingIs
    <2>5. Uncoded(l) /\ Touches(l, SettlementCodes)
      <3>1. Input \in Accounts /\ Output \in Accounts /\ a \in SettlementCodes
        BY <2>2, <2>3, VatAssumption
      <3>2. Uncoded(ThreeLegs(Output, x, Input, y, a, z))
        BY <3>1, ThreeLegsAre
      <3>3. z # 0 /\ a \in SettlementCodes => Touches(ThreeLegs(Output, x, Input, y, a, z), SettlementCodes)
        BY <3>1, ThreeLegsAre
      <3>4. QED
        BY <2>3, <2>4, <3>1, <3>2, <3>3
    <2>6. Sound(l)
      BY <2>5, UncodedSound
    <2>7. PICK job : job = HeldJob(j, "file_post", LastId + 1) /\ Go(w, job)
      BY <1>1, <1>4 DEF CreateFiling, HeldJob
    <2>8. job.at = "file_post"
      BY <2>7 DEF HeldJob, JobRow
    <2>9. entries' = Append(entries, Draft(l, Today, <<"file", 0>>)) /\ loose' = loose
      BY <1>1, <1>4, <2>4 DEF CreateFiling, InsertDraft, Draft
    <2>10. <<"file", 0>> \in Commands
      BY DEF Commands
    <2>11. QED
      BY <1>2, <2>6, <2>7, <2>8, <2>9, <2>10
  <1>5. CASE CreateSettlement(w)
    <2>1. j.at = "settle_create"
      BY <1>1, <1>5 DEF CreateSettlement, At
    <2>2. j.account \in SettlementCodes /\ j.input # 0 /\ j.line \in Lines
      BY <1>1, <1>3, <2>1 DEF JobOK, Settling, JobRow
    <2>3. PICK a \in Accounts, x \in Int, y \in Int, z \in Int :
            /\ a = j.account /\ x = -j.input /\ y = LineAmount(j.line) /\ z = j.input - LineAmount(j.line)
            /\ x # 0
      BY <2>2, VatAssumption DEF JobRow
    <2>4. PICK l \in Seq(LegRow) : l = SettlementLegs(j) /\ l = ThreeLegs(a, x, Bank, y, Difference, z)
      BY <2>2, <2>3, SettlementLegsAre
    <2>5. Uncoded(l) /\ Touches(l, SettlementCodes)
      <3>1. Bank \in Accounts /\ Difference \in Accounts /\ a \in SettlementCodes
        BY <2>2, <2>3, VatAssumption
      <3>2. Uncoded(ThreeLegs(a, x, Bank, y, Difference, z))
        BY <3>1, ThreeLegsAre
      <3>3. x # 0 /\ a \in SettlementCodes => Touches(ThreeLegs(a, x, Bank, y, Difference, z), SettlementCodes)
        BY <3>1, ThreeLegsAre
      <3>4. QED
        BY <2>3, <2>4, <3>1, <3>2, <3>3
    <2>6. Sound(l)
      BY <2>5, UncodedSound
    <2>7. PICK job : job = HeldJob(j, "settle_post", LastId + 1) /\ Go(w, job)
      BY <1>1, <1>5 DEF CreateSettlement, HeldJob
    <2>8. job.at = "settle_post"
      BY <2>7 DEF HeldJob, JobRow
    <2>9. PICK ref \in Commands : ref = <<"settle", j.line>>
      BY <2>2 DEF Commands
    <2>10. entries' = Append(entries, Draft(l, Today, ref)) /\ loose' = loose
      BY <1>1, <1>5, <2>4, <2>9 DEF CreateSettlement, InsertDraft, Draft
    <2>11. QED
      BY <1>2, <2>6, <2>7, <2>8, <2>10
  <1>6. QED
    BY <1>4, <1>5

LEMMA ReadsPost ==
  ASSUME Known, Reads, NEW w \in Workers
  PROVE  PostBooked(w) \/ PostFiling(w) \/ PostSettlement(w) => Reads'
  <1>1. PICK j \in JobRow : j = work[w]
    BY JobIs
  <1>2. ASSUME NEW job, Go(w, job), job.at # "tag", j.at \in Holding, MarkPosted(j.entry), loose' = loose
        PROVE  Reads'
    <2>1. \A v \in Workers : work'[v] = work[v] \/ work'[v].at # "tag"
      BY <1>2, Gone
    <2>2. j.entry \in Ids
      BY <1>1, <1>2, HeldEntry
    <2>3. QED
      BY <1>2, <2>1, <2>2, ReadsPosted
  <1>3. PICK i, s : i = Idle /\ i.at # "tag" /\ s = AtJob(j, "settle_mark") /\ s.at # "tag"
    <2>1. AtJob(j, "settle_mark").at = "settle_mark" /\ Idle.at = "idle"
      BY IdleIs DEF AtJob, JobRow
    <2>2. QED
      BY <2>1
  <1>4. CASE PostBooked(w)
    BY <1>1, <1>2, <1>3, <1>4 DEF PostBooked, At, Holding
  <1>5. CASE PostFiling(w)
    BY <1>1, <1>2, <1>3, <1>5 DEF PostFiling, At, Holding
  <1>6. CASE PostSettlement(w)
    <2>1. Go(w, s)
      BY <1>1, <1>3, <1>6 DEF PostSettlement, AtJob
    <2>2. QED
      BY <1>1, <1>2, <1>3, <1>6, <2>1 DEF PostSettlement, At, Holding
  <1>7. QED
    BY <1>4, <1>5, <1>6

\* The steps that read, write a return, mark a line or give up.
LEMMA ReadsQuiet ==
  ASSUME Known, Reads, NEW w \in Workers,
         \/ \E p \in bounds.periods : ReadReturn(w, p)
         \/ StoreReturn(w) \/ ReadInput(w) \/ ReadOutput(w) \/ EnsureAccount(w) \/ ReadBalance(w)
         \/ \E t \in Lines, k \in DOMAIN Settlement : CheckLine(w, t, k)
         \/ MarkLine(w) \/ Stop(w)
  PROVE  Reads'
  <1>1. PICK j \in JobRow : j = work[w]
    BY JobIs
  <1>2. PICK z \in JobRow : z = Idle /\ z.at = "idle"
    BY IdleIs DEF JobOK
  <1>3. ASSUME NEW job, Go(w, job), job.at # "tag", entries' = entries, loose' = loose
        PROVE  Reads'
    BY <1>3, ReadsGo
  <1>4. ASSUME NEW p \in bounds.periods, ReadReturn(w, p)
        PROVE  Reads'
    <2>1. PICK job : job = [z EXCEPT !.at = "store", !.period = p, !.fields = Readout(p)]
      OBVIOUS
    <2>2. job.at = "store"
      BY <1>2, <2>1 DEF JobRow
    <2>3. QED
      BY <1>2, <1>3, <1>4, <2>1, <2>2 DEF ReadReturn, Start
  <1>5. CASE StoreReturn(w) \/ MarkLine(w) \/ Stop(w)
    BY <1>2, <1>3, <1>5 DEF StoreReturn, MarkLine, Stop
  <1>6. CASE ReadInput(w)
    <2>1. PICK job : job = [z EXCEPT !.at = "file_output", !.input = Balance({Input}, Ids)]
      OBVIOUS
    <2>2. job.at = "file_output"
      BY <1>2, <2>1 DEF JobRow
    <2>3. QED
      BY <1>2, <1>3, <1>6, <2>1, <2>2 DEF ReadInput, Start
  <1>7. CASE ReadOutput(w)
    <2>1. entries' = entries /\ loose' = loose
      BY <1>7 DEF ReadOutput
    <2>2. CASE Go(w, z)
      BY <1>2, <1>3, <2>1, <2>2
    <2>3. ASSUME NEW b, NEW a, Go(w, FileJob(j, b, a))
          PROVE  Reads'
      <3>1. FileJob(j, b, a).at = "file_account"
        BY DEF FileJob, JobRow
      <3>2. QED
        BY <1>3, <2>1, <2>3, <3>1
    <2>4. Go(w, z) \/ \E b, a : Go(w, FileJob(j, b, a))
      BY <1>1, <1>2, <1>7 DEF ReadOutput, FileJob
    <2>5. QED
      BY <2>2, <2>3, <2>4
  <1>8. CASE EnsureAccount(w)
    <2>1. PICK job : job = AtJob(j, "file_create")
      OBVIOUS
    <2>2. job.at = "file_create"
      BY <1>1, <2>1 DEF AtJob, JobRow
    <2>3. QED
      BY <1>1, <1>3, <1>8, <2>1, <2>2 DEF EnsureAccount, AtJob
  <1>9. CASE ReadBalance(w)
    <2>1. entries' = entries /\ loose' = loose
      BY <1>9 DEF ReadBalance
    <2>2. CASE Go(w, z)
      BY <1>2, <1>3, <2>1, <2>2
    <2>3. ASSUME NEW b, Go(w, BalanceJob(j, b))
          PROVE  Reads'
      <3>1. BalanceJob(j, b).at = "settle_create"
        BY DEF BalanceJob, JobRow
      <3>2. QED
        BY <1>3, <2>1, <2>3, <3>1
    <2>4. Go(w, z) \/ \E b : Go(w, BalanceJob(j, b))
      BY <1>1, <1>2, <1>9 DEF ReadBalance, BalanceJob
    <2>5. QED
      BY <2>2, <2>3, <2>4
  <1>10. ASSUME NEW t \in Lines, NEW k \in DOMAIN Settlement, CheckLine(w, t, k)
         PROVE  Reads'
    <2>1. PICK job : job = LineJob(t, Settlement[k])
      OBVIOUS
    <2>2. job.at = "settle_read"
      BY <2>1, LineJobIs
    <2>3. QED
      BY <1>3, <1>10, <2>1, <2>2 DEF CheckLine, Start, LineJob
  <1>11. QED
    BY <1>4, <1>5, <1>6, <1>7, <1>8, <1>9, <1>10

LEMMA ReadsReverse ==
  ASSUME Known, Reads, NEW i \in Ids, Reverse(i)
  PROVE  Reads'
  <1>1. PICK row \in EntryRow : row = Contra(entries[i], i) /\ entries' = Append(entries, row) /\ loose' = loose /\ work' = work
    BY Reversing
  <1>2. PICK l \in Seq(LegRow) : l = entries[i].postings.legs
    BY JournalIs DEF Known, Tables, Ids
  <1>3. entries[i].state = "posted" /\ row.postings.legs = Opposite(l)
    BY <1>1, <1>2, Reversing, ContraIs
  <1>4. /\ entries'[LastId + 1] = row
        /\ \A k \in Ids : entries'[k] = entries[k]
    BY <1>1, Inserted
  <1>5. Sound(l) => Sound(Opposite(l))
    BY OppositeSound
  <1>6. loose \subseteq Ids
    BY DEF Known, Tables
  <1>7. Vouched(entries, loose, i)
    BY DEF Reads
  <1>8. Vouched(entries', loose', LastId + 1)
    <2>1. CASE Sound(l)
      BY <1>3, <1>4, <1>5, <2>1 DEF Vouched
    <2>2. ASSUME NEW q \in loose,
                 q = i \/ (entries[q].state = "posted" /\ (Sound(entries[q].postings.legs) => Sound(l)))
          PROVE  Vouched(entries', loose', LastId + 1)
      <3>1. entries[q].state = "posted" /\ (Sound(entries[q].postings.legs) => Sound(l)) /\ entries'[q] = entries[q]
        BY <1>2, <1>3, <1>4, <1>6, <2>2
      <3>2. QED
        BY <1>1, <1>3, <1>4, <1>5, <3>1 DEF Vouched
    <2>3. QED
      BY <1>2, <1>7, <2>1, <2>2 DEF Vouched
  <1>9. QED
    BY <1>1, <1>8, ReadsInserted

LEMMA ReadsNext ==
  ASSUME BooksElsewhere, Known, Reads, [Next]_vars
  PROVE  Reads'
  <1>1. ASSUME NEW w \in Workers, Step(w)
        PROVE  Reads'
    BY <1>1, ReadsBook, ReadsTag, ReadsEndTagging, ReadsCreate, ReadsPost, ReadsQuiet DEF Step
  <1>2. ASSUME NEW i \in Ids, Post(i)
        PROVE  Reads'
    BY <1>2, ReadsPosted DEF Post
  <1>3. ASSUME UNCHANGED <<entries, loose, work>>
        PROVE  Reads'
    BY <1>3, ReadsStill
  <1>4. QED
    BY <1>1, <1>2, <1>3, ReadsReverse DEF Next, EnableVatModule, TakeCode, MatchLine, vars

LEMMA ReadsInit ==
  ASSUME Init
  PROVE  Reads
  <1>1. \A w \in Workers : work[w].at # "tag"
    BY IdleIs DEF Init
  <1>2. Ids = {}
    BY DEF Init, Ids
  <1>3. QED
    BY <1>1, <1>2 DEF Reads, TagOK

----------------------------------------------------------------------------------
(* The sum of a return, entry by entry. *)

OwedAt(r) == Owed(LegAt(r)) + Shifted(LegAt(r)) - Deducted(LegAt(r))

OwedIn(p) == [r \in Reported(p) |-> OwedAt(r)]

Counted(l) == {k \in DOMAIN l : l[k].code # NoCode /\ l[k].account \notin Clearing}

InPeriod(p) == {i \in Ids : IsPosted(i) /\ entries[i].postings.period = p}

LEMMA ReportedAre ==
  ASSUME NEW p
  PROVE  /\ \A i \in InPeriod(p) : \A k \in Counted(entries[i].postings.legs) : <<i, k>> \in Reported(p)
         /\ \A r \in Reported(p) : \E i \in InPeriod(p) : \E k \in Counted(entries[i].postings.legs) : r = <<i, k>>
  <1>1. ASSUME NEW i \in InPeriod(p), NEW k \in Counted(entries[i].postings.legs)
        PROVE  <<i, k>> \in Reported(p)
    <2>1. <<i, k>> \in {<<i, n>> : n \in DOMAIN entries[i].postings.legs}
      BY <1>1 DEF Counted
    <2>2. <<i, k>> \in UNION {{<<j, n>> : n \in DOMAIN entries[j].postings.legs} :
                                j \in {j \in Ids : IsPosted(j) /\ entries[j].postings.period = p}}
      BY <1>1, <2>1 DEF InPeriod
    <2>3. <<i, k>>[1] = i /\ <<i, k>>[2] = k
      OBVIOUS
    <2>4. QED
      BY <1>1, <2>2, <2>3 DEF Reported, Counted
  <1>2. ASSUME NEW r \in Reported(p)
        PROVE  \E i \in InPeriod(p) : \E k \in Counted(entries[i].postings.legs) : r = <<i, k>>
    <2>1. r \in UNION {{<<i, k>> : k \in DOMAIN entries[i].postings.legs} : i \in InPeriod(p)}
      BY <1>2 DEF Reported, InPeriod
    <2>2. PICK i \in InPeriod(p) : \E k \in DOMAIN entries[i].postings.legs : r = <<i, k>>
      BY <2>1
    <2>3. PICK k \in DOMAIN entries[i].postings.legs : r = <<i, k>>
      BY <2>2
    <2>4. r[1] = i /\ r[2] = k
      BY <2>3
    <2>5. entries[r[1]].postings.legs[r[2]].code # NoCode /\ entries[r[1]].postings.legs[r[2]].account \notin Clearing
      BY <1>2 DEF Reported
    <2>6. k \in Counted(entries[i].postings.legs)
      BY <2>3, <2>4, <2>5 DEF Counted
    <2>7. QED
      BY <2>3, <2>6
  <1>3. QED
    BY <1>1, <1>2

LEMMA OwedInTyped ==
  ASSUME entries \in Seq(EntryRow), NEW p
  PROVE  IsFiniteSet(Reported(p)) /\ OwedIn(p) \in [Reported(p) -> Int]
  <1>1. IsFiniteSet(Reported(p)) /\ \A r \in Reported(p) : LegAt(r) \in LegRow
    BY ReportedIs
  <1>2. \A r \in Reported(p) : OwedAt(r) \in Int
    BY <1>1, FieldsTyped DEF OwedAt
  <1>3. QED
    BY <1>1, <1>2 DEF OwedIn

\* What an entry adds is what its postings do.
LEMMA OwedOfEntry ==
  ASSUME entries \in Seq(EntryRow), NEW p, NEW i \in InPeriod(p)
  PROVE  Part(OwedIn(p), {r \in Reported(p) : r[1] = i}) = DueIn(entries[i].postings.legs)
  <1>1. PICK l \in Seq(LegRow) : l = entries[i].postings.legs
    BY JournalIs DEF InPeriod, Ids
  <1>2. PICK D, S : D = OwedIn(p) /\ S = Reported(p)
    OBVIOUS
  <1>3. PICK R, C, d : R = {r \in S : r[1] = i} /\ C = Counted(l) /\ d = DuesOf(l)
    OBVIOUS
  <1>4. D \in [S -> Int] /\ IsFiniteSet(S)
    BY <1>2, OwedInTyped
  <1>5. d \in [DOMAIN l -> Int] /\ IsFiniteSet(DOMAIN l) /\ C \subseteq DOMAIN l
    BY <1>3, DueTyped DEF Counted
  <1>6. SumOf(d) = Part(d, C)
    <2>1. \A k \in DOMAIN l \ C : d[k] = 0
      BY <1>3 DEF Counted, DuesOf, DueOf
    <2>2. QED
      BY <1>5, <2>1, SumWhere
  <1>7. PICK g, h, f : g = [k \in C |-> <<i, k>>] /\ h = [k \in C |-> d[k]] /\ f = [r \in R |-> D[r]]
    OBVIOUS
  <1>8. IsFiniteSet(C) /\ IsFiniteSet(R) /\ R \subseteq S
    <2>1. R \subseteq S
      BY <1>3
    <2>2. QED
      BY <1>4, <1>5, <2>1, FS_Subset
  <1>9. h \in [C -> Int] /\ f \in [R -> Int]
    BY <1>4, <1>5, <1>7, <1>8
  <1>10. g \in [C -> R]
    <2>1. ASSUME NEW k \in C
          PROVE  <<i, k>> \in R
      <3>1. <<i, k>> \in S
        BY <1>1, <1>2, <1>3, ReportedAre
      <3>2. <<i, k>>[1] = i
        OBVIOUS
      <3>3. QED
        BY <1>3, <3>1, <3>2
    <2>2. QED
      BY <1>7, <2>1
  <1>11. \A k, m \in C : g[k] = g[m] => k = m
    BY <1>7
  <1>12. \A r \in R : \E k \in C : g[k] = r
    <2> SUFFICES ASSUME NEW r \in R
                 PROVE  \E k \in C : g[k] = r
      OBVIOUS
    <2>1. r \in Reported(p) /\ r[1] = i
      BY <1>2, <1>3
    <2>2. PICK j \in InPeriod(p) : \E k \in Counted(entries[j].postings.legs) : r = <<j, k>>
      BY <2>1, ReportedAre
    <2>3. PICK k \in Counted(entries[j].postings.legs) : r = <<j, k>>
      BY <2>2
    <2>4. j = i
      BY <2>1, <2>3
    <2>5. k \in C
      BY <1>1, <1>3, <2>3, <2>4
    <2>6. QED
      BY <1>7, <2>3, <2>4, <2>5
  <1>13. ASSUME NEW k \in C
         PROVE  h[k] = f[g[k]]
    <2>1. <<i, k>> \in R /\ g[k] = <<i, k>>
      BY <1>7, <1>10
    <2>2. LegAt(<<i, k>>) = l[k]
      <3>1. <<i, k>>[1] = i /\ <<i, k>>[2] = k
        OBVIOUS
      <3>2. QED
        BY <1>1, <3>1 DEF LegAt
    <2>3. D[<<i, k>>] = Owed(l[k]) + Shifted(l[k]) - Deducted(l[k])
      BY <1>2, <1>8, <2>1, <2>2 DEF OwedIn, OwedAt
    <2>4. d[k] = DueOf(l[k]) /\ l[k].code # NoCode /\ l[k].account \notin Clearing
      BY <1>3 DEF Counted, DuesOf
    <2>5. d[k] = Owed(l[k]) + Shifted(l[k]) - Deducted(l[k])
      BY <2>4 DEF DueOf
    <2>6. h[k] = d[k] /\ f[g[k]] = D[<<i, k>>]
      BY <1>7, <2>1
    <2>7. QED
      BY <2>3, <2>5, <2>6
  <1>14. Renames(g, h, f, C, R)
    BY <1>8, <1>9, <1>10, <1>11, <1>12, <1>13 DEF Renames
  <1>15. SumOf(h) = SumOf(f)
    BY <1>14, SumRenamed
  <1>16. Part(D, R) = SumOf(f) /\ Part(d, C) = SumOf(h)
    BY <1>7 DEF Part
  <1>17. SumOf(d) = Part(D, R)
    BY <1>6, <1>15, <1>16
  <1>18. QED
    BY <1>1, <1>2, <1>3, <1>17 DEF DueIn

DuesIn(p) == [i \in InPeriod(p) |-> DueIn(entries[i].postings.legs)]

LEMMA OwedByEntry ==
  ASSUME entries \in Seq(EntryRow), NEW p
  PROVE  /\ IsFiniteSet(InPeriod(p)) /\ DuesIn(p) \in [InPeriod(p) -> Int]
         /\ SumOf(DuesIn(p)) = SumOf(OwedIn(p))
  <1>1. PICK D, S, K, totals : D = OwedIn(p) /\ S = Reported(p) /\ K = InPeriod(p) /\ totals = DuesIn(p)
    OBVIOUS
  <1>2. D \in [S -> Int] /\ IsFiniteSet(S)
    BY <1>1, OwedInTyped
  <1>3. IsFiniteSet(K)
    <2>1. IsFiniteSet(Ids) /\ InPeriod(p) \subseteq Ids
      BY ReportedIs DEF InPeriod
    <2>2. QED
      BY <1>1, <2>1, FS_Subset
  <1>4. PICK key : key = [r \in S |-> r[1]]
    OBVIOUS
  <1>5. key \in [S -> K]
    <2> SUFFICES ASSUME NEW r \in S
                 PROVE  r[1] \in K
      BY <1>4
    <2>1. PICK i \in InPeriod(p) : \E k \in Counted(entries[i].postings.legs) : r = <<i, k>>
      BY <1>1, ReportedAre
    <2>2. r[1] = i
      BY <2>1
    <2>3. QED
      BY <1>1, <2>1, <2>2
  <1>6. DOMAIN totals = K /\ totals = [i \in K |-> totals[i]]
    BY <1>1 DEF DuesIn
  <1>7. \A i \in K : totals[i] = Part(D, {r \in S : key[r] = i})
    <2> SUFFICES ASSUME NEW i \in K
                 PROVE  totals[i] = Part(D, {r \in S : key[r] = i})
      OBVIOUS
    <2>1. Part(D, {r \in S : r[1] = i}) = DueIn(entries[i].postings.legs)
      BY <1>1, OwedOfEntry
    <2>2. {r \in S : key[r] = i} = {r \in S : r[1] = i}
      BY <1>4
    <2>3. totals[i] = DueIn(entries[i].postings.legs)
      BY <1>1 DEF DuesIn
    <2>4. QED
      BY <2>1, <2>2, <2>3
  <1>8. totals \in [K -> Int] /\ SumOf(totals) = SumOf(D)
    BY <1>2, <1>3, <1>5, <1>6, <1>7, SumSorted
  <1>9. QED
    BY <1>1, <1>3, <1>8

LEMMA FilingTouches ==
  \A i : IsFiling(i) <=> Touches(entries[i].postings.legs, SettlementCodes)
  BY DEF IsFiling, Touches, SettlementCodes

\* When no entry was posted before it had its codes, each that counts is sound.
LEMMA PostedSound ==
  ASSUME Reads, \A i \in loose : IsDraft(i), NEW p, NEW i \in InPeriod(p)
  PROVE  Sound(entries[i].postings.legs)
  <1>1. i \in Ids /\ entries[i].state = "posted"
    BY DEF InPeriod, IsPosted
  <1>2. Vouched(entries, loose, i)
    BY <1>1 DEF Reads
  <1>3. \A j \in loose : entries[j].state # "posted"
    BY DEF IsDraft
  <1>4. QED
    BY <1>1, <1>2, <1>3 DEF Vouched

Bookings(p) == {i \in Ids : entries[i].postings.period = p /\ ~IsFiling(i)}

LEMMA ReadsMatch ==
  ASSUME Known, Reads, \A i \in loose : IsDraft(i), NEW p \in Periods
  PROVE  Readout(p)[<<5, "d">>] = -Balance(Clearing, Bookings(p))
  <1>1. entries \in Seq(EntryRow)
    BY DEF Known, Tables
  <1>2. PICK K, N, totals : K = InPeriod(p) /\ N = PostedIn(entries, Bookings(p)) /\ totals = DuesIn(p)
    OBVIOUS
  <1>3. IsFiniteSet(K) /\ totals \in [K -> Int] /\ SumOf(totals) = SumOf(OwedIn(p))
    BY <1>1, <1>2, OwedByEntry
  <1>4. N \subseteq K /\ N = {i \in K : ~IsFiling(i)}
    BY <1>2 DEF PostedIn, Bookings, InPeriod, IsPosted
  <1>5. \A i \in K : Sound(entries[i].postings.legs) /\ totals[i] = DueIn(entries[i].postings.legs)
    BY <1>2, PostedSound DEF DuesIn
  <1>6. \A i \in K \ N : totals[i] = 0
    BY <1>4, <1>5, FilingTouches DEF Sound
  <1>7. SumOf(totals) = Part(totals, N)
    BY <1>3, <1>4, <1>6, SumWhere
  <1>8. PICK h, f : h = [i \in N |-> totals[i]] /\ f = OnEntries(entries, Clearing, Bookings(p))
    OBVIOUS
  <1>9. IsFiniteSet(N) /\ h \in [N -> Int]
    BY <1>3, <1>4, <1>8, FS_Subset
  <1>10. f \in [N -> Int]
    <2>1. Bookings(p) \subseteq DOMAIN entries
      BY DEF Bookings, Ids
    <2>2. QED
      BY <1>1, <1>2, <1>8, <2>1, OnEntriesIs
  <1>11. \A i \in N : h[i] = -f[i]
    <2> SUFFICES ASSUME NEW i \in N
                 PROVE  h[i] = -f[i]
      OBVIOUS
    <2>1. f[i] = OnLegs(Clearing, entries[i].postings.legs)
      BY <1>2, <1>8 DEF OnEntries
    <2>2. h[i] = DueIn(entries[i].postings.legs)
      BY <1>4, <1>5, <1>8
    <2>3. ~Touches(entries[i].postings.legs, SettlementCodes) /\ Sound(entries[i].postings.legs)
      BY <1>4, <1>5, FilingTouches
    <2>4. QED
      BY <2>1, <2>2, <2>3 DEF Sound
  <1>12. SumOf(h) = -SumOf(f)
    BY <1>9, <1>10, <1>11, SumOpposite
  <1>13. SumOf(f) = Balance(Clearing, Bookings(p))
    BY <1>8, BalanceIs DEF BalanceIn
  <1>14. Part(totals, N) = SumOf(h)
    BY <1>8 DEF Part
  <1>15. Readout(p)[<<5, "d">>] = SumOf(OwedIn(p))
    BY DEF Readout, Fields, OwedIn, OwedAt
  <1>16. QED
    BY <1>3, <1>7, <1>12, <1>13, <1>14, <1>15

LEMMA ReadsShow ==
  ASSUME Known, Reads
  PROVE  ReadoutMatchesBooks
  BY ReadsMatch DEF ReadoutMatchesBooks, Bookings

\* What a return says is owed is what the bookings of the period put on the
\* clearing accounts, however booking, filing, settling and reversing
\* interleave and wherever a process stops, unless an entry was posted before
\* all its codes were set, when nobody books the VAT accounts with the command.
THEOREM ReadoutMatches == BooksElsewhere /\ Spec => []ReadoutMatchesBooks
  <1> SUFFICES ASSUME BooksElsewhere
               PROVE  Spec => []ReadoutMatchesBooks
    OBVIOUS
  <1>1. Init => Known /\ Reads
    BY KnownInit, ReadsInit
  <1>2. Known /\ Reads /\ [Next]_vars => (Known /\ Reads)'
    BY KnownNext, ReadsNext
  <1>3. Known /\ Reads => ReadoutMatchesBooks
    BY ReadsShow
  <1>4. QED
    BY <1>1, <1>2, <1>3, PTL DEF Spec

==================================================================================
