-------------------------- MODULE PlacementProofs --------------------------
(***************************************************************************)
(* Lemmas about the operators of Placement, for every value of its         *)
(* constants: what the ordered sets and sums compute, that the seats picked *)
(* are free and as many as asked for, and that placing, removing, draining  *)
(* and resizing keep the cards divided and within their capacity.           *)
(***************************************************************************)
EXTENDS Placement, FiniteSetTheorems, TLAPS

-----------------------------------------------------------------------------
(* Least elements and iteration. *)

\* Every non-empty set of naturals has a least element.
LEMMA NatLeast ==
    ASSUME NEW T \in SUBSET Nat, T # {}
    PROVE  \E m \in T : \A n \in T : m <= n
<1> DEFINE I == {1..k : k \in T}
           R == StrictSubsetOrdering(Nat)
<1>1. I \subseteq FiniteSubsetsOf(Nat)
  BY FS_Interval DEF FiniteSubsetsOf
<1>2. IsWellFoundedOn(R, FiniteSubsetsOf(Nat))
  BY FS_StrictSubsetOrderingWellFounded
<1>3. I # {}
  OBVIOUS
<1>4. PICK x \in I : \A y \in I : <<y, x>> \notin R
  <2> HIDE DEF I, R
  <2> QED BY <1>1, <1>2, <1>3, WFMin
<1>5. PICK m \in T : x = 1..m
  OBVIOUS
<1>6. ASSUME NEW n \in T, n < m PROVE FALSE
  <2>1. 1..n \in I
    OBVIOUS
  <2>2. 1..n \subseteq 1..m /\ m \in 1..m /\ m \notin 1..n
    BY <1>6
  <2>3. <<1..n, 1..m>> \in R
    BY <2>2 DEF StrictSubsetOrdering
  <2> QED BY <2>1, <2>3, <1>4, <1>5
<1> QED BY <1>6

\* Induction on 0..n: a set that holds 0 and is closed under successor holds n.
LEMMA Climb ==
    ASSUME NEW n \in Nat, NEW G, 0 \in G,
           \A k \in 1..n : k - 1 \in G => k \in G
    PROVE  \A k \in 0..n : k \in G
<1> DEFINE B == {k \in 0..n : k \notin G}
<1>1. SUFFICES ASSUME B # {} PROVE FALSE
  OBVIOUS
<1>2. PICK m \in B : \A k \in B : m <= k
  <2>1. B \in SUBSET Nat
    OBVIOUS
  <2> HIDE DEF B
  <2> QED BY <1>1, <2>1, NatLeast
<1>3. m # 0 /\ m \in 1..n /\ m - 1 \in 0..n
  OBVIOUS
<1>4. m - 1 \notin B
  BY <1>2, <1>3
<1> QED BY <1>3, <1>4

\* A finite non-empty set has a first element in a strict total order.
IsOrder(S, R) ==
    /\ \A x \in S : <<x, x>> \notin R
    /\ \A x, y \in S : x # y => <<x, y>> \in R \/ <<y, x>> \in R
    /\ \A x, y, z \in S : <<x, y>> \in R /\ <<y, z>> \in R => <<x, z>> \in R

LEMMA FirstExists ==
    ASSUME NEW S, IsFiniteSet(S), S # {}, NEW R, IsOrder(S, R)
    PROVE  \E m \in S : \A y \in S \ {m} : <<m, y>> \in R
<1> DEFINE I == {Before(S, x, R) : x \in S}
           W == StrictSubsetOrdering(S)
<1>1. I \subseteq FiniteSubsetsOf(S)
  BY FS_FiniteSubsetsOfFinite DEF Before
<1>2. IsWellFoundedOn(W, FiniteSubsetsOf(S))
  BY FS_StrictSubsetOrderingWellFounded
<1>3. I # {}
  OBVIOUS
<1>4. PICK b \in I : \A y \in I : <<y, b>> \notin W
  <2> HIDE DEF I, W
  <2> QED BY <1>1, <1>2, <1>3, WFMin
<1>5. PICK m \in S : b = Before(S, m, R)
  OBVIOUS
<1>6. ASSUME NEW y \in S, <<y, m>> \in R PROVE FALSE
  <2>1. Before(S, y, R) \subseteq Before(S, m, R)
    BY <1>6 DEF Before, IsOrder
  <2>2. y \in Before(S, m, R) /\ y \notin Before(S, y, R)
    BY <1>6 DEF Before, IsOrder
  <2>3. <<Before(S, y, R), b>> \in W
    BY <2>1, <2>2, <1>5 DEF StrictSubsetOrdering, Before
  <2> QED BY <2>3, <1>4
<1> QED BY <1>6 DEF IsOrder

-----------------------------------------------------------------------------
(* Ordered sets. *)

\* For every k up to its size, a finite ordered set has k elements that come
\* before all its others.
LEMMA PrefixExists ==
    ASSUME NEW S, IsFiniteSet(S), NEW R, IsOrder(S, R)
    PROVE  \A k \in 0..Cardinality(S) :
              \E T \in SUBSET S : Cardinality(T) = k /\ \A x \in T, y \in S \ T : <<x, y>> \in R
<1> DEFINE P(T) == \A x \in T, y \in S \ T : <<x, y>> \in R
           G == {k \in Nat : \E T \in SUBSET S : Cardinality(T) = k /\ P(T)}
<1>0. Cardinality(S) \in Nat
  BY FS_CardinalityType
<1>1. 0 \in G
  BY FS_EmptySet
<1>2. ASSUME NEW k \in 1..Cardinality(S), k - 1 \in G
      PROVE  k \in G
  <2>1. PICK T \in SUBSET S : Cardinality(T) = k - 1 /\ P(T)
    BY <1>2
  <2>2. IsFiniteSet(T) /\ IsFiniteSet(S \ T)
    BY FS_Subset
  <2>3. T # S
    BY <2>1, <1>0
  <2>4. IsOrder(S \ T, R)
    BY DEF IsOrder
  <2>5. PICK m \in S \ T : \A y \in (S \ T) \ {m} : <<m, y>> \in R
    BY <2>2, <2>3, <2>4, FirstExists
  <2>6. Cardinality(T \cup {m}) = k
    <3>1. Cardinality(T \cup {m}) = Cardinality(T) + 1
      BY <2>2, FS_AddElement
    <3> QED BY <3>1, <2>1, <1>0
  <2>7. P(T \cup {m})
    BY <2>1, <2>5
  <2> QED BY <2>6, <2>7
<1>3. \A k \in 0..Cardinality(S) : k \in G
  <2> HIDE DEF G
  <2> QED BY <1>0, <1>1, <1>2, Climb
<1> QED BY <1>3

\* The first k elements: k of them, before all the others.
LEMMA FirstKIsPrefix ==
    ASSUME NEW S, IsFiniteSet(S), NEW R, IsOrder(S, R), NEW k \in 0..Cardinality(S)
    PROVE  /\ FirstK(S, k, R) \subseteq S
           /\ Cardinality(FirstK(S, k, R)) = k
           /\ \A x \in FirstK(S, k, R), y \in S \ FirstK(S, k, R) : <<x, y>> \in R
<1>1. PICK T \in SUBSET S : Cardinality(T) = k /\ \A x \in T, y \in S \ T : <<x, y>> \in R
  BY PrefixExists
<1>2. IsFiniteSet(T) /\ Cardinality(T) \in Nat
  BY FS_Subset, FS_CardinalityType
<1>3. ASSUME NEW x \in T
      PROVE  Cardinality(Before(S, x, R)) < k
  <2>1. Before(S, x, R) \subseteq T \ {x}
    BY <1>1 DEF Before, IsOrder
  <2>2. IsFiniteSet(T \ {x}) /\ Cardinality(T \ {x}) = k - 1
    BY <1>1, <1>2, FS_RemoveElement
  <2>3. Cardinality(Before(S, x, R)) <= k - 1 /\ Cardinality(Before(S, x, R)) \in Nat
    BY <2>1, <2>2, FS_Subset, FS_CardinalityType
  <2> QED BY <2>3, <1>1, <1>2
<1>4. ASSUME NEW x \in S \ T
      PROVE  ~(Cardinality(Before(S, x, R)) < k)
  <2>1. T \subseteq Before(S, x, R)
    BY <1>1 DEF Before
  <2>2. IsFiniteSet(Before(S, x, R))
    BY FS_Subset DEF Before
  <2>3. k <= Cardinality(Before(S, x, R)) /\ Cardinality(Before(S, x, R)) \in Nat
    BY <2>1, <2>2, <1>1, FS_Subset, FS_CardinalityType
  <2> QED BY <2>3, <1>1, <1>2
<1>5. FirstK(S, k, R) = T
  BY <1>3, <1>4 DEF FirstK
<1> QED BY <1>1, <1>5

\* InOrder lists elements of the set: at k the one that k - 1 others are before.
LEMMA InOrderIs ==
    ASSUME NEW S, IsFiniteSet(S), NEW R, IsOrder(S, R), NEW k \in 1..Cardinality(S)
    PROVE  InOrder(S, R)[k] \in S /\ Cardinality(Before(S, InOrder(S, R)[k], R)) = k - 1
<1>0. Cardinality(S) \in Nat /\ k \in 0..Cardinality(S) /\ k - 1 \in 0..Cardinality(S)
  BY FS_CardinalityType
<1> DEFINE A == FirstK(S, k, R)
           B == FirstK(S, k - 1, R)
<1>1. A \subseteq S /\ Cardinality(A) = k /\ B \subseteq S /\ Cardinality(B) = k - 1
  BY <1>0, FirstKIsPrefix
<1>2. IsFiniteSet(A) /\ IsFiniteSet(B)
  BY <1>1, FS_Subset
<1>3. PICK x \in A : x \notin B
  <2>1. SUFFICES ASSUME A \subseteq B PROVE FALSE
    OBVIOUS
  <2>2. Cardinality(A) <= Cardinality(B)
    BY <2>1, <1>2, FS_Subset
  <2> QED BY <2>2, <1>1, <1>0
<1>4. x \in S /\ Cardinality(Before(S, x, R)) \in Nat
  <2>1. IsFiniteSet(Before(S, x, R))
    BY FS_Subset DEF Before
  <2> QED BY <1>1, <2>1, FS_CardinalityType
<1>5. Cardinality(Before(S, x, R)) < k /\ ~(Cardinality(Before(S, x, R)) < k - 1)
  BY <1>3, <1>4 DEF FirstK
<1>6. Cardinality(Before(S, x, R)) = k - 1
  BY <1>4, <1>5, <1>0
<1> QED BY <1>4, <1>6 DEF InOrder

\* The earlier of two elements has fewer before it.
LEMMA FewerBefore ==
    ASSUME NEW S, IsFiniteSet(S), NEW R, IsOrder(S, R), NEW x \in S, NEW y \in S, <<x, y>> \in R
    PROVE  /\ Cardinality(Before(S, x, R)) < Cardinality(Before(S, y, R))
           /\ Cardinality(Before(S, x, R)) \in Nat /\ Cardinality(Before(S, y, R)) \in Nat
<1> DEFINE X == Before(S, x, R)
           Y == Before(S, y, R)
<1>1. X \subseteq Y \ {x} /\ x \in Y /\ Y \subseteq S
  BY DEF Before, IsOrder
<1> HIDE DEF X, Y
<1>2. IsFiniteSet(Y) /\ IsFiniteSet(Y \ {x}) /\ Cardinality(Y \ {x}) = Cardinality(Y) - 1
  BY <1>1, FS_Subset, FS_RemoveElement
<1>3. Cardinality(X) <= Cardinality(Y \ {x}) /\ IsFiniteSet(X)
  BY <1>1, <1>2, FS_Subset
<1>4. Cardinality(X) \in Nat /\ Cardinality(Y) \in Nat
  BY <1>2, <1>3, FS_CardinalityType
<1>5. Cardinality(X) < Cardinality(Y)
  BY <1>2, <1>3, <1>4
<1> QED BY <1>4, <1>5 DEF X, Y

\* InOrder lists in the order, and so nothing twice.
LEMMA InOrderRises ==
    ASSUME NEW S, IsFiniteSet(S), NEW R, IsOrder(S, R),
           NEW i \in 1..Cardinality(S), NEW k \in 1..Cardinality(S), i < k
    PROVE  <<InOrder(S, R)[i], InOrder(S, R)[k]>> \in R /\ InOrder(S, R)[i] # InOrder(S, R)[k]
<1> DEFINE x == InOrder(S, R)[i]
           y == InOrder(S, R)[k]
<1>1. /\ x \in S /\ Cardinality(Before(S, x, R)) = i - 1
      /\ y \in S /\ Cardinality(Before(S, y, R)) = k - 1
  BY InOrderIs
<1>2. Cardinality(S) \in Nat
  BY FS_CardinalityType
<1> HIDE DEF x, y
<1>3. x # y
  BY <1>1, <1>2
<1>4. <<y, x>> \notin R
  <2>1. SUFFICES ASSUME <<y, x>> \in R PROVE FALSE
    OBVIOUS
  <2>2. k - 1 < i - 1
    BY <1>1, <2>1, FewerBefore
  <2> QED BY <1>2, <2>2
<1>5. <<x, y>> \in R
  BY <1>1, <1>3, <1>4 DEF IsOrder
<1> QED BY <1>3, <1>5 DEF x, y

\* ... and leaves nothing out.
LEMMA InOrderReaches ==
    ASSUME NEW S, IsFiniteSet(S), NEW R, IsOrder(S, R), NEW x \in S
    PROVE  \E k \in 1..Cardinality(S) : InOrder(S, R)[k] = x
<1> DEFINE b == Cardinality(Before(S, x, R))
<1>1. b \in Nat /\ b + 1 \in 1..Cardinality(S)
  <2>1. Before(S, x, R) \subseteq S \ {x}
    BY DEF Before, IsOrder
  <2>2. /\ IsFiniteSet(S \ {x}) /\ Cardinality(S \ {x}) = Cardinality(S) - 1
        /\ Cardinality(S) \in Nat
    BY FS_RemoveElement, FS_CardinalityType
  <2>3. b <= Cardinality(S \ {x}) /\ IsFiniteSet(Before(S, x, R))
    BY <2>1, <2>2, FS_Subset
  <2>4. b \in Nat
    BY <2>3, FS_CardinalityType
  <2> HIDE DEF b
  <2> QED BY <2>2, <2>3, <2>4
<1> DEFINE y == InOrder(S, R)[b + 1]
<1>2. y \in S /\ Cardinality(Before(S, y, R)) = b
  <2>1. y \in S /\ Cardinality(Before(S, y, R)) = b + 1 - 1
    <3> HIDE DEF b
    <3> QED BY <1>1, InOrderIs
  <2> HIDE DEF y, b
  <2> QED BY <1>1, <2>1
<1>3. ~(b < b)
  <2> HIDE DEF b
  <2> QED BY <1>1
<1>4. y = x
  <2> HIDE DEF y
  <2>1. <<x, y>> \in R => b < b
    BY <1>2, FewerBefore
  <2>2. <<y, x>> \in R => b < b
    BY <1>2, FewerBefore
  <2> QED BY <1>2, <1>3, <2>1, <2>2 DEF IsOrder
<1> QED BY <1>1, <1>4

\* The n lowest numbers of a finite set that has as many.
LEMMA LowestIs ==
    ASSUME NEW S \in SUBSET Int, IsFiniteSet(S), NEW n \in 0..Cardinality(S)
    PROVE  Lowest(S, n) \subseteq S /\ Cardinality(Lowest(S, n)) = n
<1> DEFINE R == {p \in S \X S : p[1] < p[2]}
<1>1. \A x, y \in S : <<x, y>> \in R <=> x < y
  OBVIOUS
<1>2. Lowest(S, n) = FirstK(S, n, R)
  BY DEF Lowest
<1> HIDE DEF R
<1>3. IsOrder(S, R)
  BY <1>1 DEF IsOrder
<1> QED BY <1>2, <1>3, FirstKIsPrefix

-----------------------------------------------------------------------------
(* Sums. *)

\* The set that SumOf counts.
Stack(w) == UNION {{j} \X (1..w[j]) : j \in DOMAIN w}

LEMMA StackElement ==
    ASSUME NEW w
    PROVE  \A p : p \in Stack(w) <=> \E j \in DOMAIN w : \E i \in 1..w[j] : p = <<j, i>>
BY DEF Stack

LEMMA SumType ==
    ASSUME NEW D, IsFiniteSet(D), NEW w \in [D -> Nat]
    PROVE  IsFiniteSet(Stack(w)) /\ SumOf(w) = Cardinality(Stack(w)) /\ SumOf(w) \in Nat
<1> DEFINE P == {{j} \X (1..w[j]) : j \in D}
           f == [j \in D |-> {j} \X (1..w[j])]
<1>1. f \in Surjection(D, P)
  BY DEF Surjection
<1>2. IsFiniteSet(P)
  <2> HIDE DEF P, f
  <2> QED BY <1>1, FS_Surjection
<1>3. \A q \in P : IsFiniteSet(q)
  <2>1. SUFFICES ASSUME NEW j \in D PROVE IsFiniteSet({j} \X (1..w[j]))
    OBVIOUS
  <2>2. w[j] \in Int
    OBVIOUS
  <2>3. IsFiniteSet({j})
    BY FS_Singleton
  <2>4. IsFiniteSet(1..w[j])
    BY <2>2, FS_Interval
  <2> QED BY <2>3, <2>4, FS_Product
<1>4. IsFiniteSet(UNION P)
  <2> HIDE DEF P
  <2> QED BY <1>2, <1>3, FS_UNION
<1>5. Stack(w) = UNION P
  BY DEF Stack
<1>6. SumOf(w) = Cardinality(Stack(w))
  BY DEF SumOf, Stack
<1> QED BY <1>4, <1>5, <1>6, FS_CardinalityType

\* A sum of fewer and smaller numbers is no larger.
LEMMA SumMonotone ==
    ASSUME NEW D, IsFiniteSet(D), NEW E \in SUBSET D,
           NEW v \in [D -> Nat], NEW w \in [E -> Nat], \A j \in E : w[j] <= v[j]
    PROVE  SumOf(w) <= SumOf(v)
<1>1. Stack(w) \subseteq Stack(v)
  <2>1. SUFFICES ASSUME NEW p \in Stack(w) PROVE p \in Stack(v)
    OBVIOUS
  <2>2. PICK j \in E, i \in Nat : i \in 1..w[j] /\ p = <<j, i>>
    BY StackElement
  <2>3. i \in 1..v[j]
    BY <2>2
  <2> QED BY <2>2, <2>3, StackElement
<1>2. IsFiniteSet(E)
  BY FS_Subset
<1>3. IsFiniteSet(Stack(v)) /\ SumOf(v) = Cardinality(Stack(v)) /\ SumOf(w) = Cardinality(Stack(w))
  BY <1>2, SumType
<1> QED BY <1>1, <1>3, FS_Subset

\* One number more.
LEMMA SumAdd ==
    ASSUME NEW D, IsFiniteSet(D), NEW x, x \notin D,
           NEW w \in [D -> Nat], NEW v \in [D \cup {x} -> Nat], \A j \in D : v[j] = w[j]
    PROVE  SumOf(v) = SumOf(w) + v[x]
<1> DEFINE X == {x} \X (1..v[x])
<1>1. Stack(v) = Stack(w) \cup X
  <2>1. ASSUME NEW p \in Stack(v) PROVE p \in Stack(w) \cup X
    <3>1. PICK j \in D \cup {x}, i \in Nat : i \in 1..v[j] /\ p = <<j, i>>
      BY <2>1, StackElement
    <3>2. CASE j = x
      BY <3>1, <3>2
    <3>3. CASE j \in D
      BY <3>1, <3>3, StackElement
    <3> QED BY <3>1, <3>2, <3>3
  <2>2. Stack(w) \subseteq Stack(v)
    <3>1. SUFFICES ASSUME NEW p \in Stack(w) PROVE p \in Stack(v)
      OBVIOUS
    <3>2. PICK j \in D, i \in Nat : i \in 1..w[j] /\ p = <<j, i>>
      BY StackElement
    <3> QED BY <3>2, StackElement
  <2>3. X \subseteq Stack(v)
    <3>1. SUFFICES ASSUME NEW i \in 1..v[x] PROVE <<x, i>> \in Stack(v)
      OBVIOUS
    <3> QED BY StackElement
  <2> QED BY <2>1, <2>2, <2>3
<1>2. Stack(w) \cap X = {}
  BY StackElement
<1>3. IsFiniteSet(X) /\ Cardinality(X) = v[x]
  <2>1. IsFiniteSet({x}) /\ Cardinality({x}) = 1
    BY FS_Singleton
  <2>2. IsFiniteSet(1..v[x]) /\ Cardinality(1..v[x]) = v[x]
    BY FS_Interval
  <2>3. IsFiniteSet(X) /\ Cardinality(X) = Cardinality({x}) * Cardinality(1..v[x])
    BY ONLY <2>1, <2>2, FS_Product, Zenon
  <2>4. v[x] \in Nat
    OBVIOUS
  <2> QED BY <2>1, <2>2, <2>3, <2>4
<1>4. IsFiniteSet(D \cup {x})
  BY FS_AddElement
<1>5. /\ IsFiniteSet(Stack(w)) /\ SumOf(w) = Cardinality(Stack(w)) /\ SumOf(w) \in Nat
      /\ SumOf(v) = Cardinality(Stack(v))
  BY <1>4, SumType
<1>6. Cardinality(Stack(w) \cup X)
        = Cardinality(Stack(w)) + Cardinality(X) - Cardinality(Stack(w) \cap X)
  <2> HIDE DEF X
  <2> QED BY <1>3, <1>5, FS_Union, Zenon
<1>7. Cardinality(Stack(w) \cap X) = 0
  BY <1>2, FS_EmptySet
<1>8. v[x] \in Nat
  OBVIOUS
<1> HIDE DEF X
<1> QED BY <1>1, <1>3, <1>5, <1>6, <1>7, <1>8

-----------------------------------------------------------------------------
(* Who holds what. *)

LEMMA RunMapFacts ==
    ASSUME NEW run, IsRunMap(run), NEW c \in Cards
    PROVE  /\ IsFiniteSet(DOMAIN run) /\ IsFiniteSet(OnCard(run, c))
           /\ \A j \in OnCard(run, c) : run[j].slots[c] \in Slot
<1>1. IsFiniteSet(DOMAIN run)
  BY FS_Subset, PlacementAssumption DEF IsRunMap
<1>2. IsFiniteSet(OnCard(run, c))
  BY <1>1, FS_Subset DEF OnCard
<1> QED BY <1>1, <1>2 DEF OnCard, IsRunMap, IsPlaced, IsSlotMap

LEMMA UsedType ==
    ASSUME NEW run, IsRunMap(run), NEW c \in Cards
    PROVE  SeatsUsed(run, c) \in Nat /\ MemUsed(run, c) \in Nat
<1> DEFINE D == OnCard(run, c)
           s == [j \in D |-> run[j].slots[c].seats]
           m == [j \in D |-> run[j].slots[c].mem]
<1>1. IsFiniteSet(D) /\ s \in [D -> Nat] /\ m \in [D -> Nat]
  BY RunMapFacts DEF Slot
<1>2. SumOf(s) \in Nat /\ SumOf(m) \in Nat
  <2> HIDE DEF D, s, m
  <2> QED BY <1>1, SumType
<1> QED BY <1>2 DEF SeatsUsed, MemUsed

\* Removing jobs keeps the map a map and frees what they held.
LEMMA WithoutFacts ==
    ASSUME NEW run, IsRunMap(run), NEW V
    PROVE  /\ IsRunMap(Without(run, V))
           /\ \A c \in Cards : /\ OnCard(Without(run, V), c) = OnCard(run, c) \ V
                               /\ SeatsUsed(Without(run, V), c) <= SeatsUsed(run, c)
                               /\ MemUsed(Without(run, V), c) <= MemUsed(run, c)
<1> DEFINE less == Without(run, V)
<1>1. IsRunMap(less)
  BY DEF Without, IsRunMap
<1>2. SUFFICES ASSUME NEW c \in Cards
               PROVE  /\ OnCard(less, c) = OnCard(run, c) \ V
                      /\ SeatsUsed(less, c) <= SeatsUsed(run, c)
                      /\ MemUsed(less, c) <= MemUsed(run, c)
  BY <1>1
<1> DEFINE D == OnCard(run, c)
           E == OnCard(less, c)
           s == [j \in D |-> run[j].slots[c].seats]
           m == [j \in D |-> run[j].slots[c].mem]
           t == [j \in E |-> less[j].slots[c].seats]
           n == [j \in E |-> less[j].slots[c].mem]
<1>3. E = D \ V /\ \A j \in E : less[j] = run[j]
  BY DEF OnCard, Without
<1>4. /\ IsFiniteSet(D) /\ E \in SUBSET D
      /\ s \in [D -> Nat] /\ m \in [D -> Nat] /\ t \in [E -> Nat] /\ n \in [E -> Nat]
  BY <1>1, <1>3, RunMapFacts DEF Slot
<1>5. \A j \in E : t[j] <= s[j] /\ n[j] <= m[j]
  BY <1>3, <1>4
<1>6. SumOf(t) <= SumOf(s) /\ SumOf(n) <= SumOf(m)
  <2> HIDE DEF D, E, s, m, t, n
  <2> QED BY <1>4, <1>5, SumMonotone
<1> QED BY <1>3, <1>6 DEF SeatsUsed, MemUsed

\* What a placement adds to a card.
LEMMA PlaceUsed ==
    ASSUME NEW run, IsRunMap(run), NEW r \in Request, NEW slots, IsSlotMap(slots),
           NEW order \in Nat, NEW c \in Cards
    PROVE  LET new == Place(run, r, slots, order)
               old == Without(run, {r.id})
           IN  /\ IsRunMap(new)
               /\ c \notin DOMAIN slots => /\ SeatsUsed(new, c) = SeatsUsed(old, c)
                                           /\ MemUsed(new, c) = MemUsed(old, c)
               /\ c \in DOMAIN slots => /\ SeatsUsed(new, c) = SeatsUsed(old, c) + slots[c].seats
                                        /\ MemUsed(new, c) = MemUsed(old, c) + slots[c].mem
<1> DEFINE new == Place(run, r, slots, order)
           old == Without(run, {r.id})
           D == OnCard(old, c)
           E == OnCard(new, c)
           s == [j \in D |-> old[j].slots[c].seats]
           m == [j \in D |-> old[j].slots[c].mem]
           t == [j \in E |-> new[j].slots[c].seats]
           n == [j \in E |-> new[j].slots[c].mem]
<1>1. IsRunMap(new)
  BY DEF Place, IsRunMap, IsPlaced, Request
<1>2. IsRunMap(old)
  BY WithoutFacts
<1>3. r.id \notin D /\ \A j \in D : j \in E /\ new[j] = old[j]
  BY DEF OnCard, Without, Place
<1>4. E \ {r.id} = D
  BY DEF OnCard, Without, Place
<1>5. r.id \in E <=> c \in DOMAIN slots
  BY DEF OnCard, Place
<1>6. /\ IsFiniteSet(D) /\ IsFiniteSet(E)
      /\ s \in [D -> Nat] /\ m \in [D -> Nat] /\ t \in [E -> Nat] /\ n \in [E -> Nat]
  BY <1>1, <1>2, RunMapFacts DEF Slot
<1>7. \A j \in D : t[j] = s[j] /\ n[j] = m[j]
  BY <1>3
<1>8. ASSUME c \notin DOMAIN slots
      PROVE  SeatsUsed(new, c) = SeatsUsed(old, c) /\ MemUsed(new, c) = MemUsed(old, c)
  <2>1. E = D
    BY <1>8, <1>4, <1>5
  <2>2. t = s /\ n = m
    BY <2>1, <1>6, <1>7
  <2> QED BY <2>2 DEF SeatsUsed, MemUsed
<1>9. ASSUME c \in DOMAIN slots
      PROVE  /\ SeatsUsed(new, c) = SeatsUsed(old, c) + slots[c].seats
             /\ MemUsed(new, c) = MemUsed(old, c) + slots[c].mem
  <2>1. E = D \cup {r.id}
    BY <1>9, <1>4, <1>5
  <2>2. t[r.id] = slots[c].seats /\ n[r.id] = slots[c].mem
    BY <1>5, <1>9 DEF Place
  <2>3. SumOf(t) = SumOf(s) + t[r.id] /\ SumOf(n) = SumOf(m) + n[r.id]
    <3> HIDE DEF D, E, s, m, t, n
    <3> QED BY <2>1, <1>3, <1>6, <1>7, SumAdd
  <2> QED BY <2>2, <2>3 DEF SeatsUsed, MemUsed
<1> QED BY <1>1, <1>8, <1>9

-----------------------------------------------------------------------------
(* Picking seats. *)

\* No more seats are occupied, by number, than are counted as used.
LEMMA OccupiedBound ==
    ASSUME NEW run, IsRunMap(run), Divided(run), NEW c \in Cards
    PROVE  /\ IsFiniteSet(Occupied(run, c))
           /\ Cardinality(Occupied(run, c)) <= SeatsUsed(run, c)
<1> DEFINE D == OnCard(run, c)
           w == [j \in D |-> run[j].slots[c].seats]
           ids(j) == run[j].slots[c].ids
           g == [j \in D |-> CHOOSE h : h \in Surjection(1..w[j], ids(j))]
           f == [p \in Stack(w) |-> g[p[1]][p[2]]]
<1>1. IsFiniteSet(D) /\ w \in [D -> Nat]
  BY RunMapFacts DEF Slot
<1>2. ASSUME NEW j \in D
      PROVE  g[j] \in Surjection(1..w[j], ids(j))
  <2>1. IsFiniteSet(ids(j))
    <3>1. ids(j) \subseteq 0 .. CardSeats[c] - 1
      BY DEF Divided
    <3>2. IsFiniteSet(0 .. CardSeats[c] - 1)
      BY PlacementAssumption, FS_Interval
    <3> QED BY <3>1, <3>2, FS_Subset
  <2>2. Cardinality(ids(j)) = w[j]
    BY DEF Divided
  <2>3. ExistsBijection(1..Cardinality(ids(j)), ids(j))
    BY <2>1, FS_CardinalityType
  <2>4. \E h : h \in Surjection(1..w[j], ids(j))
    BY <2>2, <2>3 DEF ExistsBijection, Bijection
  <2> QED BY <2>4
<1>3. f \in Surjection(Stack(w), Occupied(run, c))
  <2>1. ASSUME NEW p \in Stack(w)
        PROVE  f[p] \in Occupied(run, c)
    <3>1. PICK j \in D, i \in Nat : i \in 1..w[j] /\ p = <<j, i>>
      BY StackElement
    <3>2. g[j][i] \in ids(j)
      <4>1. g[j] \in Surjection(1..w[j], ids(j))
        BY <1>2
      <4> HIDE DEF g, w, ids
      <4> QED BY <3>1, <4>1 DEF Surjection
    <3> QED BY <3>1, <3>2 DEF Occupied
  <2>2. ASSUME NEW x \in Occupied(run, c)
        PROVE  \E p \in Stack(w) : f[p] = x
    <3>1. PICK j \in D : x \in ids(j)
      BY DEF Occupied
    <3>2. PICK i \in 1..w[j] : g[j][i] = x
      BY <1>2, <3>1 DEF Surjection
    <3>3. <<j, i>> \in Stack(w)
      BY <3>2, StackElement
    <3> QED BY <3>2, <3>3
  <2> HIDE DEF g, w
  <2> QED BY <2>1, <2>2 DEF Surjection
<1>4. IsFiniteSet(Stack(w)) /\ SumOf(w) = Cardinality(Stack(w))
  <2> HIDE DEF w, D
  <2> QED BY <1>1, SumType
<1>5. SeatsUsed(run, c) = SumOf(w)
  BY DEF SeatsUsed
<1> HIDE DEF f
<1> QED BY <1>3, <1>4, <1>5, FS_Surjection

\* If n more seats are within the count, n seats are free by number.
LEMMA EnoughFree ==
    ASSUME NEW run, IsRunMap(run), Divided(run), NEW c \in Cards, NEW n \in Nat,
           SeatsUsed(run, c) + n <= CardSeats[c]
    PROVE  /\ IsFiniteSet(FreeSeats(run, c))
           /\ n <= Cardinality(FreeSeats(run, c))
           /\ Cardinality(FreeSeats(run, c)) \in Nat
<1> DEFINE A == 0 .. CardSeats[c] - 1
           O == Occupied(run, c)
<1>1. CardSeats[c] \in Nat \ {0}
  BY PlacementAssumption
<1>2. IsFiniteSet(A) /\ Cardinality(A) = CardSeats[c]
  <2>1. 0 \in Int /\ CardSeats[c] - 1 \in Int /\ ~(0 > CardSeats[c] - 1)
    BY <1>1
  <2>2. IsFiniteSet(A) /\ Cardinality(A) = CardSeats[c] - 1 - 0 + 1
    BY <2>1, FS_Interval
  <2> QED BY <1>1, <2>2
<1>3. IsFiniteSet(O) /\ Cardinality(O) <= SeatsUsed(run, c)
  BY OccupiedBound
<1>4. IsFiniteSet(A \ O) /\ Cardinality(A \ O) = Cardinality(A) - Cardinality(A \cap O)
  <2> HIDE DEF A, O
  <2> QED BY <1>2, FS_Difference
<1>5. IsFiniteSet(A \cap O) /\ Cardinality(A \cap O) <= Cardinality(O)
  BY <1>3, FS_Subset
<1>6. /\ Cardinality(A \cap O) \in Nat /\ Cardinality(O) \in Nat
      /\ Cardinality(A \ O) \in Nat /\ SeatsUsed(run, c) \in Nat
  BY <1>3, <1>4, <1>5, FS_CardinalityType, UsedType
<1>7. n <= Cardinality(A \ O)
  <2> HIDE DEF A, O
  <2> QED BY <1>1, <1>2, <1>3, <1>4, <1>5, <1>6
<1> QED BY <1>4, <1>6, <1>7 DEF FreeSeats

\* The seats picked are free, and as many as asked for.
LEMMA PickSeatsIs ==
    ASSUME NEW run, IsRunMap(run), Divided(run), NEW c \in Cards, NEW n \in Nat \ {0},
           SeatsUsed(run, c) + n <= CardSeats[c], NEW keep
    PROVE  /\ PickSeats(run, c, n, keep) \subseteq FreeSeats(run, c)
           /\ Cardinality(PickSeats(run, c, n, keep)) = n
<1> DEFINE free == FreeSeats(run, c)
           kept == Lowest(keep \cap free, n)
           starts == {s \in 0 .. CardSeats[c] - n : s .. s + n - 1 \subseteq free}
           first == CHOOSE s \in starts : \A t \in starts : s <= t
           rest == Lowest(free \ kept, n - Cardinality(kept))
<1>0. CardSeats[c] \in Nat /\ free \subseteq Int /\ CardSeats[c] - n \in Int
  BY PlacementAssumption DEF FreeSeats
<1>1. IsFiniteSet(free) /\ n <= Cardinality(free) /\ Cardinality(free) \in Nat
  BY EnoughFree
<1>2. CASE kept = {} /\ starts # {}
  <2>1. first \in starts
    <3>1. starts \in SUBSET Nat
      BY <1>0
    <3>2. \E s \in starts : \A t \in starts : s <= t
      <4> HIDE DEF starts
      <4> QED BY <3>1, <1>2, NatLeast
    <3> HIDE DEF starts
    <3> QED BY <3>2
  <2>2. first \in Int /\ first .. first + n - 1 \subseteq free
    <3> HIDE DEF first, free
    <3> QED BY <2>1, <1>0
  <2>3. Cardinality(first .. first + n - 1) = n
    <3> HIDE DEF first
    <3>1. first \in Int /\ first + n - 1 \in Int /\ ~(first > first + n - 1)
      BY <2>2
    <3>2. Cardinality(first .. first + n - 1) = first + n - 1 - first + 1
      BY <3>1, FS_Interval
    <3> QED BY <3>1, <3>2
  <2>4. PickSeats(run, c, n, keep) = first .. first + n - 1
    BY <1>2 DEF PickSeats
  <2> QED BY <2>2, <2>3, <2>4
<1>3. CASE ~(kept = {} /\ starts # {})
  <2>1. IsFiniteSet(keep \cap free) /\ Cardinality(keep \cap free) \in Nat
    BY <1>1, FS_Subset, FS_CardinalityType
  <2>2. kept \subseteq keep \cap free /\ IsFiniteSet(kept) /\ Cardinality(kept) \in 0..n
    <3>1. CASE n <= Cardinality(keep \cap free)
      BY <3>1, <2>1, <1>0, LowestIs, FS_Subset
    <3>2. CASE ~(n <= Cardinality(keep \cap free))
      <4>1. kept \subseteq keep \cap free
        BY DEF Lowest, FirstK
      <4>2. IsFiniteSet(kept) /\ Cardinality(kept) <= Cardinality(keep \cap free)
            /\ Cardinality(kept) \in Nat
        BY <4>1, <2>1, FS_Subset, FS_CardinalityType
      <4> QED BY <4>1, <4>2, <3>2, <2>1
    <3> QED BY <3>1, <3>2
  <2> DEFINE left == free \ kept
             more == n - Cardinality(kept)
  <2>3. IsFiniteSet(left) /\ Cardinality(left) = Cardinality(free) - Cardinality(kept)
    <3>1. free \cap kept = kept
      BY <2>2
    <3> HIDE DEF free, kept
    <3> QED BY <3>1, <1>1, FS_Difference
  <2>4. more \in 0..Cardinality(left)
    <3> HIDE DEF free, kept
    <3> QED BY <2>2, <2>3, <1>1
  <2>5. rest \subseteq left /\ Cardinality(rest) = more
    <3>1. left \in SUBSET Int
      BY <1>0
    <3> HIDE DEF left, more, kept
    <3>2. Lowest(left, more) \subseteq left /\ Cardinality(Lowest(left, more)) = more
      BY <3>1, <2>3, <2>4, LowestIs
    <3> QED BY <3>2 DEF left, more
  <2>6. Cardinality(kept \cup rest) = Cardinality(kept) + Cardinality(rest)
    <3>1. IsFiniteSet(rest)
      BY <2>3, <2>5, FS_Subset
    <3>2. kept \cap rest = {}
      BY <2>5
    <3>3. Cardinality(kept \cup rest)
            = Cardinality(kept) + Cardinality(rest) - Cardinality(kept \cap rest)
      <4> HIDE DEF kept, rest
      <4> QED BY <2>2, <3>1, FS_Union
    <3>4. Cardinality(kept \cap rest) = 0
      BY <3>2, FS_EmptySet
    <3>5. Cardinality(rest) \in Nat /\ Cardinality(kept) \in Nat
      BY <3>1, <2>2, FS_CardinalityType
    <3> HIDE DEF kept, rest
    <3> QED BY <3>3, <3>4, <3>5
  <2>7. Cardinality(kept \cup rest) = n
    <3> HIDE DEF kept, rest
    <3> QED BY <2>2, <2>5, <2>6 DEF more
  <2>8. PickSeats(run, c, n, keep) = kept \cup rest
    BY <1>3 DEF PickSeats
  <2> QED BY <2>2, <2>5, <2>7, <2>8
<1> QED BY <1>2, <1>3

\* Seats that a job has on the card, and that are free once it is looked through, are
\* kept: it ends up with some of them, or with all of them and more.
LEMMA PickSeatsKeeps ==
    ASSUME NEW run, IsRunMap(run), Divided(run), NEW c \in Cards, NEW n \in Nat \ {0},
           SeatsUsed(run, c) + n <= CardSeats[c],
           NEW keep \in SUBSET FreeSeats(run, c), keep # {}
    PROVE  PickSeats(run, c, n, keep) \subseteq keep \/ keep \subseteq PickSeats(run, c, n, keep)
<1> DEFINE free == FreeSeats(run, c)
           kept == Lowest(keep, n)
           rest == Lowest(free \ kept, n - Cardinality(kept))
<1>1. IsFiniteSet(free) /\ free \subseteq Int
  BY EnoughFree DEF FreeSeats
<1>2. IsFiniteSet(keep) /\ Cardinality(keep) \in Nat /\ keep \subseteq Int
  BY <1>1, FS_Subset, FS_CardinalityType
<1>3. keep \cap free = keep
  OBVIOUS
<1>4. kept # {} => PickSeats(run, c, n, keep) = kept \cup rest
  <2> HIDE DEF free
  <2> QED BY <1>3 DEF PickSeats, free
<1>5. CASE n <= Cardinality(keep)
  <2>1. kept \subseteq keep /\ Cardinality(kept) = n
    BY <1>2, <1>5, LowestIs
  <2>2. kept # {}
    <3>1. Cardinality({}) = 0
      BY FS_EmptySet
    <3> HIDE DEF kept
    <3> QED BY <2>1, <3>1
  <2>3. rest = {}
    <3> DEFINE left == free \ kept
    <3>1. IsFiniteSet(left) /\ left \in SUBSET Int
      BY <1>1, FS_Subset
    <3>2. n - Cardinality(kept) = 0
      <4> HIDE DEF kept
      <4> QED BY <2>1
    <3> HIDE DEF left
    <3>3. Cardinality(left) \in Nat
      BY <3>1, FS_CardinalityType
    <3>4. Lowest(left, 0) \subseteq left /\ Cardinality(Lowest(left, 0)) = 0
      BY <3>1, <3>3, LowestIs
    <3>5. IsFiniteSet(Lowest(left, 0))
      BY <3>1, <3>4, FS_Subset
    <3>6. Lowest(left, 0) = {}
      BY <3>4, <3>5, FS_EmptySet
    <3> QED BY <3>2, <3>6 DEF left
  <2> HIDE DEF kept, rest
  <2> QED BY <1>4, <2>1, <2>2, <2>3
<1>6. CASE ~(n <= Cardinality(keep))
  <2> DEFINE R == {p \in keep \X keep : p[1] < p[2]}
  <2>1. ASSUME NEW x \in keep
        PROVE  Cardinality(Before(keep, x, R)) < n
    <3>1. Before(keep, x, R) \subseteq keep
      BY DEF Before
    <3>2. IsFiniteSet(Before(keep, x, R)) /\ Cardinality(Before(keep, x, R)) <= Cardinality(keep)
      BY <1>2, <3>1, FS_Subset
    <3>3. Cardinality(Before(keep, x, R)) \in Nat
      BY <3>2, FS_CardinalityType
    <3> HIDE DEF R
    <3> QED BY <1>2, <1>6, <3>2, <3>3
  <2>2. kept = keep
    BY <2>1 DEF Lowest, FirstK
  <2> HIDE DEF kept, rest
  <2> QED BY <1>4, <2>2
<1> QED BY <1>5, <1>6

-----------------------------------------------------------------------------
(* Placing. *)

LEMMA NeedType ==
    ASSUME NEW r \in Request, NEW c \in Cards
    PROVE  NeedSeats(r, c) \in 1 .. CardSeats[c] /\ NeedMem(r, c) \in Nat
<1>1. CardSeats[c] \in Nat \ {0} /\ CardMem[c] \in Nat /\ Unit \in Nat \ {0} /\ MinMem \in Nat
  BY PlacementAssumption
<1>2. r.share \in Int /\ r.mem \in Nat
  BY DEF Request
<1>3. NeedSeats(r, c) \in 1 .. CardSeats[c]
  <2>1. r.share * CardSeats[c] + Unit - 1 \in Int
    BY <1>1, <1>2
  <2>2. (r.share * CardSeats[c] + Unit - 1) \div Unit \in Int
    BY <1>1, <2>1
  <2> QED BY <1>1, <2>2 DEF NeedSeats, Seats
<1>4. NeedMem(r, c) \in Nat
  <2>1. (CardMem[c] * NeedSeats(r, c)) \div CardSeats[c] \in Int
    <3>1. CardMem[c] * NeedSeats(r, c) \in Int
      BY <1>1, <1>3
    <3> QED BY <1>1, <3>1
  <2> QED BY <1>1, <1>2, <2>1 DEF NeedMem, DefaultMem
<1> QED BY <1>3, <1>4

\* The invariant of a run map: typed, divided, within capacity, and whole.
Sound(run) ==
    /\ IsRunMap(run)
    /\ Divided(run)
    /\ Bounded(run)
    /\ \A id \in DOMAIN run : run[id].req.id = id /\ Whole(run[id])

\* Nobody uses nothing.
LEMMA EmptyBounded ==
    ASSUME NEW run, DOMAIN run = {}
    PROVE  Bounded(run)
<1>1. SUFFICES ASSUME NEW c \in Cards
               PROVE  SeatsUsed(run, c) = 0 /\ MemUsed(run, c) = 0
  BY PlacementAssumption DEF Bounded
<1>2. OnCard(run, c) = {}
  BY DEF OnCard
<1>3. ASSUME NEW w, DOMAIN w = {} PROVE SumOf(w) = 0
  <2>1. UNION {{j} \X (1..w[j]) : j \in DOMAIN w} = {}
    BY <1>3
  <2> QED BY <2>1, FS_EmptySet DEF SumOf
<1> QED BY <1>2, <1>3 DEF SeatsUsed, MemUsed

LEMMA WithoutSound ==
    ASSUME NEW run, Sound(run), NEW V
    PROVE  Sound(Without(run, V))
<1> DEFINE less == Without(run, V)
<1>1. IsRunMap(run) /\ IsRunMap(less)
  BY WithoutFacts DEF Sound
<1>2. \A j \in DOMAIN less : j \in DOMAIN run /\ less[j] = run[j]
  BY DEF Without
<1>3. \A c \in Cards : OnCard(less, c) = OnCard(run, c) \ V /\ OnCard(less, c) \subseteq DOMAIN less
  BY <1>1, WithoutFacts DEF OnCard
<1>4. Divided(less)
  <2> HIDE DEF less
  <2> QED BY <1>2, <1>3 DEF Divided, Sound
<1>5. Bounded(less)
  <2>1. SUFFICES ASSUME NEW c \in Cards
                 PROVE  SeatsUsed(less, c) <= CardSeats[c] /\ MemUsed(less, c) <= CardMem[c]
    BY DEF Bounded
  <2>2. SeatsUsed(less, c) <= SeatsUsed(run, c) /\ MemUsed(less, c) <= MemUsed(run, c)
    BY <1>1, WithoutFacts
  <2>3. SeatsUsed(run, c) <= CardSeats[c] /\ MemUsed(run, c) <= CardMem[c]
    BY DEF Sound, Bounded
  <2>4. /\ SeatsUsed(less, c) \in Nat /\ MemUsed(less, c) \in Nat
        /\ SeatsUsed(run, c) \in Nat /\ MemUsed(run, c) \in Nat
        /\ CardSeats[c] \in Nat /\ CardMem[c] \in Nat
    BY <1>1, UsedType, PlacementAssumption
  <2> QED BY <2>2, <2>3, <2>4
<1> QED BY <1>1, <1>2, <1>4, <1>5 DEF Sound

\* Slots that are free in a sound map, and fit its cards, may be given to a job.
LEMMA PlaceSound ==
    ASSUME NEW run, Sound(run), NEW r \in Request, NEW order \in Nat,
           NEW slots, IsSlotMap(slots),
           Whole([req |-> r, slots |-> slots, order |-> order]),
           \A c \in DOMAIN slots :
              /\ slots[c].ids \subseteq FreeSeats(Without(run, {r.id}), c)
              /\ Cardinality(slots[c].ids) = slots[c].seats
              /\ SeatsUsed(Without(run, {r.id}), c) + slots[c].seats <= CardSeats[c]
              /\ MemUsed(Without(run, {r.id}), c) + slots[c].mem <= CardMem[c]
    PROVE  Sound(Place(run, r, slots, order))
<1> DEFINE old == Without(run, {r.id})
           new == Place(run, r, slots, order)
<1>1. Sound(old) /\ IsRunMap(run)
  BY WithoutSound DEF Sound
<1>2. IsRunMap(new)
  <2>1. r.id \in Ids
    BY DEF Request
  <2> QED BY <1>1, <2>1 DEF Place, IsRunMap, IsPlaced
<1>3. /\ DOMAIN new = DOMAIN old \cup {r.id} /\ r.id \notin DOMAIN old
      /\ new[r.id] = [req |-> r, slots |-> slots, order |-> order]
      /\ \A j \in DOMAIN old : new[j] = old[j]
  BY DEF Place, Without
<1>4. ASSUME NEW c \in Cards
      PROVE  /\ OnCard(new, c) \ {r.id} = OnCard(old, c) /\ r.id \notin OnCard(old, c)
             /\ r.id \in OnCard(new, c) <=> c \in DOMAIN slots
             /\ OnCard(old, c) \subseteq DOMAIN old
  <2> HIDE DEF new, old
  <2> QED BY <1>3 DEF OnCard
<1>5. Divided(new)
  <2>1. SUFFICES ASSUME NEW c \in Cards, NEW i \in OnCard(new, c)
                 PROVE  /\ new[i].slots[c].ids \subseteq 0 .. CardSeats[c] - 1
                        /\ Cardinality(new[i].slots[c].ids) = new[i].slots[c].seats
                        /\ \A j \in OnCard(new, c) \ {i} :
                              new[i].slots[c].ids \cap new[j].slots[c].ids = {}
    BY DEF Divided
  <2>2. ASSUME NEW k \in OnCard(old, c), c \in DOMAIN slots
        PROVE  slots[c].ids \cap old[k].slots[c].ids = {}
    <3>1. slots[c].ids \subseteq FreeSeats(old, c)
      BY <2>2
    <3>2. old[k].slots[c].ids \subseteq Occupied(old, c)
      BY DEF Occupied
    <3> HIDE DEF old
    <3> QED BY <3>1, <3>2 DEF FreeSeats
  <2>3. CASE i = r.id
    <3>1. c \in DOMAIN slots /\ new[i].slots[c] = slots[c]
      BY <2>3, <1>3, <1>4
    <3>2. new[i].slots[c].ids \subseteq 0 .. CardSeats[c] - 1
      BY <3>1 DEF FreeSeats
    <3>3. ASSUME NEW j \in OnCard(new, c) \ {i}
          PROVE  new[i].slots[c].ids \cap new[j].slots[c].ids = {}
      <4>1. j \in OnCard(old, c) /\ new[j] = old[j]
        BY <2>3, <3>3, <1>3, <1>4
      <4> QED BY <4>1, <3>1, <2>2
    <3> QED BY <3>1, <3>2, <3>3
  <2>4. CASE i # r.id
    <3>1. i \in OnCard(old, c) /\ new[i] = old[i]
      BY <2>4, <1>3, <1>4
    <3>2. /\ old[i].slots[c].ids \subseteq 0 .. CardSeats[c] - 1
          /\ Cardinality(old[i].slots[c].ids) = old[i].slots[c].seats
      BY <3>1, <1>1 DEF Sound, Divided
    <3>3. ASSUME NEW j \in OnCard(new, c) \ {i}
          PROVE  new[i].slots[c].ids \cap new[j].slots[c].ids = {}
      <4>1. CASE j = r.id
        <5>1. c \in DOMAIN slots /\ new[j].slots[c] = slots[c]
          BY <4>1, <3>3, <1>3, <1>4
        <5> QED BY <5>1, <3>1, <2>2
      <4>2. CASE j # r.id
        <5>1. j \in OnCard(old, c) \ {i} /\ new[j] = old[j]
          BY <4>2, <3>3, <1>3, <1>4
        <5>2. old[i].slots[c].ids \cap old[j].slots[c].ids = {}
          BY <5>1, <3>1, <1>1 DEF Sound, Divided
        <5> QED BY <5>1, <5>2, <3>1
      <4> QED BY <4>1, <4>2
    <3> QED BY <3>1, <3>2, <3>3
  <2> QED BY <2>3, <2>4
<1>6. Bounded(new)
  <2>1. SUFFICES ASSUME NEW c \in Cards
                 PROVE  SeatsUsed(new, c) <= CardSeats[c] /\ MemUsed(new, c) <= CardMem[c]
    BY DEF Bounded
  <2>2. CASE c \in DOMAIN slots
    BY <2>2, <1>1, PlaceUsed
  <2>3. CASE c \notin DOMAIN slots
    <3>1. SeatsUsed(new, c) = SeatsUsed(old, c) /\ MemUsed(new, c) = MemUsed(old, c)
      BY <2>3, <1>1, PlaceUsed
    <3> QED BY <3>1, <1>1 DEF Sound, Bounded
  <2> QED BY <2>2, <2>3
<1>7. \A id \in DOMAIN new : new[id].req.id = id /\ Whole(new[id])
  <2> HIDE DEF new, old
  <2> QED BY <1>1, <1>3 DEF Sound
<1> QED BY <1>2, <1>5, <1>6, <1>7 DEF Sound

\* A new slot on a card with room: typed, free, and of the size it says.
LEMMA NewSlotIs ==
    ASSUME NEW run, Sound(run), NEW r \in Request, NEW c \in Cards, Fits(run, r, c), NEW keep
    PROVE  LET sl == NewSlot(run, r, c, keep)
           IN  /\ sl \in Slot
               /\ sl.seats = NeedSeats(r, c) /\ sl.mem = NeedMem(r, c)
               /\ sl.ids \subseteq FreeSeats(run, c)
               /\ Cardinality(sl.ids) = sl.seats
               /\ SeatsUsed(run, c) + sl.seats <= CardSeats[c]
               /\ MemUsed(run, c) + sl.mem <= CardMem[c]
<1> DEFINE n == NeedSeats(r, c)
           ids == PickSeats(run, c, n, keep)
<1>1. CardSeats[c] \in Nat
  BY PlacementAssumption
<1>2. n \in Nat \ {0} /\ NeedMem(r, c) \in Nat
  BY <1>1, NeedType
<1>3. SeatsUsed(run, c) + n <= CardSeats[c] /\ MemUsed(run, c) + NeedMem(r, c) <= CardMem[c]
  BY DEF Fits
<1>4. ids \subseteq FreeSeats(run, c) /\ Cardinality(ids) = n
  <2> HIDE DEF n
  <2> QED BY <1>2, <1>3, PickSeatsIs DEF Sound
<1>5. FreeSeats(run, c) \subseteq Nat
  BY <1>1 DEF FreeSeats
<1> HIDE DEF n, ids
<1> QED BY <1>2, <1>3, <1>4, <1>5 DEF NewSlot, Slot, n, ids

\* What is free with all jobs there is free without some of them.
LEMMA FreeWithout ==
    ASSUME NEW run, IsRunMap(run), NEW V, NEW c \in Cards
    PROVE  FreeSeats(run, c) \subseteq FreeSeats(Without(run, V), c)
<1>1. OnCard(Without(run, V), c) = OnCard(run, c) \ V
  BY WithoutFacts
<1>2. \A j \in OnCard(run, c) \ V : Without(run, V)[j] = run[j]
  BY DEF Without, OnCard
<1>3. Occupied(Without(run, V), c) \subseteq Occupied(run, c)
  BY <1>1, <1>2 DEF Occupied
<1> QED BY <1>3 DEF FreeSeats

\* big has every job of small, with the same placement.
Extends(big, small) ==
    DOMAIN small \subseteq DOMAIN big /\ \A j \in DOMAIN small : big[j] = small[j]

\* More jobs use no less.
LEMMA UsedMonotone ==
    ASSUME NEW big, IsRunMap(big), NEW small, Extends(big, small), NEW c \in Cards
    PROVE  /\ IsRunMap(small)
           /\ SeatsUsed(small, c) <= SeatsUsed(big, c)
           /\ MemUsed(small, c) <= MemUsed(big, c)
<1> DEFINE D == OnCard(big, c)
           E == OnCard(small, c)
           s == [j \in D |-> big[j].slots[c].seats]
           m == [j \in D |-> big[j].slots[c].mem]
           t == [j \in E |-> small[j].slots[c].seats]
           k == [j \in E |-> small[j].slots[c].mem]
<1>1. IsRunMap(small)
  BY DEF Extends, IsRunMap
<1>2. E \subseteq D /\ \A j \in E : small[j] = big[j]
  BY DEF Extends, OnCard
<1>3. IsFiniteSet(D) /\ \A j \in D : big[j].slots[c] \in Slot
  BY RunMapFacts
<1>4. s \in [D -> Nat] /\ m \in [D -> Nat] /\ t \in [E -> Nat] /\ k \in [E -> Nat]
  <2> HIDE DEF D, E
  <2> QED BY <1>2, <1>3 DEF Slot
<1>5. \A j \in E : t[j] <= s[j] /\ k[j] <= m[j]
  <2> HIDE DEF D, E
  <2> QED BY <1>2, <1>3 DEF Slot
<1>6. SumOf(t) <= SumOf(s) /\ SumOf(k) <= SumOf(m)
  <2> HIDE DEF D, E, s, t, m, k
  <2> QED BY <1>2, <1>3, <1>4, <1>5, SumMonotone
<1> QED BY <1>1, <1>6 DEF SeatsUsed, MemUsed

\* A request that has room keeps it when there are fewer jobs.
LEMMA FitMonotone ==
    ASSUME NEW big, IsRunMap(big), NEW small, Extends(big, small),
           NEW down, NEW r \in Request, FitErr(big, down, r) = "none"
    PROVE  FitErr(small, down, r) = "none"
<1> DEFINE B == Candidates(big, down, r)
           S == Candidates(small, down, r)
<1>1. B \subseteq S
  <2>1. SUFFICES ASSUME NEW c \in B PROVE Fits(small, r, c)
    BY DEF Candidates
  <2>2. c \in Cards /\ Fits(big, r, c)
    BY DEF Candidates
  <2>3. /\ IsRunMap(small)
        /\ SeatsUsed(small, c) <= SeatsUsed(big, c) /\ MemUsed(small, c) <= MemUsed(big, c)
    BY <2>2, UsedMonotone
  <2>4. /\ SeatsUsed(small, c) \in Nat /\ SeatsUsed(big, c) \in Nat
        /\ MemUsed(small, c) \in Nat /\ MemUsed(big, c) \in Nat
        /\ NeedSeats(r, c) \in 1 .. CardSeats[c] /\ NeedMem(r, c) \in Nat
        /\ CardSeats[c] \in Nat /\ CardMem[c] \in Nat
    BY <2>2, <2>3, UsedType, NeedType, PlacementAssumption
  <2> QED BY <2>2, <2>3, <2>4 DEF Fits
<1>2. IsFiniteSet(S)
  BY FS_Subset, PlacementAssumption DEF Candidates
<1>3. Cardinality(B) >= Want(r)
  BY DEF FitErr
<1>4. Want(r) \in Int
  BY DEF Want, Request
<1> HIDE DEF B, S
<1>5. Cardinality(B) <= Cardinality(S) /\ IsFiniteSet(B)
  BY <1>1, <1>2, FS_Subset
<1>6. Cardinality(B) \in Nat /\ Cardinality(S) \in Nat
  BY <1>2, <1>5, FS_CardinalityType
<1>7. Cardinality(S) >= Want(r)
  BY <1>3, <1>4, <1>5, <1>6
<1> QED BY <1>7 DEF FitErr, S

\* Best fit orders the candidates.
LEMMA BestFitOrder ==
    ASSUME NEW run, Sound(run), NEW r \in Request, NEW cands \in SUBSET Cards
    PROVE  IsOrder(cands, BestFit(run, r, cands))
<1> DEFINE left(c) == SeatsLeft(run, r, c)
<1>1. \A c \in cands : c \in Nat /\ left(c) \in Int
  <2>1. SUFFICES ASSUME NEW c \in cands PROVE c \in Nat /\ left(c) \in Int
    OBVIOUS
  <2>2. /\ c \in Nat /\ CardSeats[c] \in Nat /\ SeatsUsed(run, c) \in Nat
        /\ NeedSeats(r, c) \in 1 .. CardSeats[c]
    BY PlacementAssumption, UsedType, NeedType DEF Sound
  <2> QED BY <2>2 DEF SeatsLeft
<1>2. \A c, d \in cands : <<c, d>> \in BestFit(run, r, cands)
                            <=> left(c) < left(d) \/ (left(c) = left(d) /\ c < d)
  BY DEF BestFit
<1> HIDE DEF left
<1> QED BY <1>1, <1>2 DEF IsOrder

\* Placing a request where fit() puts it keeps a map sound, even over a placement
\* of the same job.
LEMMA FitSound ==
    ASSUME NEW run, Sound(run), NEW down, NEW r \in Request, NEW order \in Nat,
           FitErr(run, down, r) = "none"
    PROVE  Sound(Place(run, r, FitSlots(run, down, r), order))
<1> DEFINE cands == Candidates(run, down, r)
           best == FirstK(cands, Want(r), BestFit(run, r, cands))
           slots == FitSlots(run, down, r)
           old == Without(run, {r.id})
<1>1. cands \in SUBSET Cards /\ IsFiniteSet(cands)
  <2>1. cands \in SUBSET Cards
    BY DEF Candidates
  <2> QED BY <2>1, FS_Subset, PlacementAssumption
<1>2. Want(r) \in 0..Cardinality(cands)
  <2>1. Cardinality(cands) \in Nat
    BY <1>1, FS_CardinalityType
  <2>2. Cardinality(cands) >= Want(r)
    BY DEF FitErr
  <2>3. Want(r) \in Nat
    BY DEF Want, Request
  <2> QED BY <2>1, <2>2, <2>3
<1>3. IsOrder(cands, BestFit(run, r, cands))
  <2> HIDE DEF cands
  <2> QED BY <1>1, BestFitOrder
<1>4. best \subseteq cands /\ Cardinality(best) = Want(r)
  <2> HIDE DEF cands
  <2> QED BY <1>1, <1>2, <1>3, FirstKIsPrefix
<1>5. slots = [c \in best |-> NewSlot(run, r, c, {})]
  BY DEF FitSlots
<1>6. ASSUME NEW c \in best
      PROVE  /\ slots[c] \in Slot
             /\ slots[c].seats = NeedSeats(r, c) /\ slots[c].mem = NeedMem(r, c)
             /\ slots[c].ids \subseteq FreeSeats(old, c)
             /\ Cardinality(slots[c].ids) = slots[c].seats
             /\ SeatsUsed(old, c) + slots[c].seats <= CardSeats[c]
             /\ MemUsed(old, c) + slots[c].mem <= CardMem[c]
  <2>1. c \in Cards /\ Fits(run, r, c)
    BY <1>4 DEF Candidates
  <2>2. slots[c] = NewSlot(run, r, c, {})
    BY <1>5
  <2>3. /\ slots[c] \in Slot
        /\ slots[c].seats = NeedSeats(r, c) /\ slots[c].mem = NeedMem(r, c)
        /\ slots[c].ids \subseteq FreeSeats(run, c)
        /\ Cardinality(slots[c].ids) = slots[c].seats
        /\ SeatsUsed(run, c) + slots[c].seats <= CardSeats[c]
        /\ MemUsed(run, c) + slots[c].mem <= CardMem[c]
    <3> HIDE DEF slots
    <3> QED BY <2>1, <2>2, NewSlotIs
  <2>4. /\ FreeSeats(run, c) \subseteq FreeSeats(old, c)
        /\ SeatsUsed(old, c) <= SeatsUsed(run, c) /\ MemUsed(old, c) <= MemUsed(run, c)
    BY <2>1, FreeWithout, WithoutFacts DEF Sound
  <2>5. /\ SeatsUsed(old, c) \in Nat /\ SeatsUsed(run, c) \in Nat
        /\ MemUsed(old, c) \in Nat /\ MemUsed(run, c) \in Nat
        /\ CardSeats[c] \in Nat /\ CardMem[c] \in Nat
    BY <2>1, UsedType, WithoutFacts, PlacementAssumption DEF Sound
  <2>6. slots[c].seats \in Nat /\ slots[c].mem \in Nat
    BY <2>3 DEF Slot
  <2> HIDE DEF slots, old
  <2> QED BY <2>3, <2>4, <2>5, <2>6
<1>7. DOMAIN slots = best
  BY <1>5
<1>8. IsSlotMap(slots)
  <2>1. slots = [c \in best |-> slots[c]]
    BY <1>5
  <2> HIDE DEF slots, best, cands
  <2> QED BY <1>1, <1>4, <1>6, <1>7, <2>1 DEF IsSlotMap
<1>9. Whole([req |-> r, slots |-> slots, order |-> order])
  <2> HIDE DEF slots, best, cands
  <2> QED BY <1>4, <1>6, <1>7 DEF Whole
<1> HIDE DEF slots, best, cands
<1>10. Sound(Place(run, r, slots, order))
  BY <1>6, <1>7, <1>8, <1>9, PlaceSound
<1> QED BY <1>10 DEF slots

\* So does a resize.
LEMMA ResizeSound ==
    ASSUME NEW run, Sound(run), NEW id \in DOMAIN run, NEW r \in Request,
           r.id = id, Want(r) = Want(run[id].req), CanResize(run, id, r)
    PROVE  Sound(ResizeJob(run, id, r))
<1> DEFINE old == Without(run, {id})
           mine == DOMAIN run[id].slots
           slots == [c \in mine |-> NewSlot(old, r, c, run[id].slots[c].ids)]
           order == run[id].order
<1>1. Sound(old)
  BY WithoutSound
<1>2. mine \subseteq Cards /\ order \in Nat
  BY DEF Sound, IsRunMap, IsPlaced, IsSlotMap
<1>3. ASSUME NEW c \in mine
      PROVE  /\ slots[c] \in Slot
             /\ slots[c].seats = NeedSeats(r, c) /\ slots[c].mem = NeedMem(r, c)
             /\ slots[c].ids \subseteq FreeSeats(old, c)
             /\ Cardinality(slots[c].ids) = slots[c].seats
             /\ SeatsUsed(old, c) + slots[c].seats <= CardSeats[c]
             /\ MemUsed(old, c) + slots[c].mem <= CardMem[c]
  <2>1. c \in Cards /\ Fits(old, r, c)
    BY <1>2 DEF CanResize
  <2>2. slots[c] = NewSlot(old, r, c, run[id].slots[c].ids)
    OBVIOUS
  <2> HIDE DEF slots, old
  <2> QED BY <1>1, <2>1, <2>2, NewSlotIs
<1>4. IsSlotMap(slots)
  BY <1>2, <1>3 DEF IsSlotMap
<1>5. Whole([req |-> r, slots |-> slots, order |-> order])
  <2>1. Cardinality(mine) = Want(r)
    BY DEF Sound, Whole
  <2> QED BY <2>1, <1>3 DEF Whole
<1>6. Sound(Place(run, r, slots, order))
  <2>1. DOMAIN slots = mine
    OBVIOUS
  <2> HIDE DEF slots, order, mine
  <2> QED BY <1>2, <1>3, <1>4, <1>5, <2>1, PlaceSound
<1> QED BY <1>6 DEF ResizeJob

-----------------------------------------------------------------------------
(* Preemption. *)

\* ignore is the walk through the chosen prefix of the pool, and ends with the victims.
Pruned(run, down, r, chosen, ignore) ==
    /\ IsFiniteSet(chosen) /\ FitErr(Without(run, chosen), down, r) = "none"
    /\ ignore[0] = chosen
    /\ \A k \in 1 .. Cardinality(chosen) :
          LET fewer == ignore[k-1] \ {InOrder(chosen, VictimOrder(run))[k]}
          IN  ignore[k] = IF FitErr(Without(run, fewer), down, r) = "none"
                            THEN fewer ELSE ignore[k-1]
    /\ Victims(run, down, r) = ignore[Cardinality(chosen)]

LEMMA VictimsWalk ==
    ASSUME NEW run, Sound(run), NEW down, NEW r \in Request, Enough(run, down, r) # {}
    PROVE  \E chosen, ignore : chosen \subseteq Pool(run, r) /\ Pruned(run, down, r, chosen, ignore)
<1> DEFINE few == CHOOSE k \in Enough(run, down, r) : \A l \in Enough(run, down, r) : k <= l
           chosen == FirstK(Pool(run, r), few, VictimOrder(run))
           seq == InOrder(chosen, VictimOrder(run))
           n == Cardinality(chosen)
           Fewer(V, k) == LET fewer == V \ {seq[k]}
                          IN  IF FitErr(Without(run, fewer), down, r) = "none" THEN fewer ELSE V
           IsIgnore(f, m) == f = [k \in 0..m |-> IF k = 0 THEN chosen ELSE Fewer(f[k-1], k)]
           ignore == CHOOSE f : IsIgnore(f, n)
<1>1. few \in Enough(run, down, r)
  <2>1. Enough(run, down, r) \in SUBSET Nat
    BY DEF Enough
  <2> QED BY <2>1, NatLeast
<1>2. chosen \subseteq Pool(run, r) /\ FitErr(Without(run, chosen), down, r) = "none"
  BY <1>1 DEF FirstK, Enough
<1>3. IsFiniteSet(chosen) /\ n \in Nat
  <2>1. IsFiniteSet(DOMAIN run)
    BY FS_Subset, PlacementAssumption DEF Sound, IsRunMap
  <2>2. chosen \in SUBSET DOMAIN run
    BY <1>2 DEF Pool
  <2>3. IsFiniteSet(chosen)
    <3> HIDE DEF chosen
    <3> QED BY <2>1, <2>2, FS_Subset
  <2> QED BY <2>3, FS_CardinalityType
<1>4. \E f : IsIgnore(f, n)
  <2> DEFINE G == {m \in Nat : \E f : IsIgnore(f, m)}
  <2>1. 0 \in G
    <3>1. IsIgnore([k \in 0..0 |-> chosen], 0)
      <4> HIDE DEF chosen, Fewer
      <4> QED OBVIOUS
    <3> QED BY <3>1
  <2>2. ASSUME NEW m \in 1..n, m - 1 \in G PROVE m \in G
    <3>1. PICK f : IsIgnore(f, m - 1)
      BY <2>2
    <3> DEFINE g == [k \in 0..m |-> IF k = m THEN Fewer(f[m-1], m) ELSE f[k]]
    <3>2. IsIgnore(g, m)
      <4> HIDE DEF chosen, Fewer, n
      <4> QED BY <1>3, <3>1
    <3>3. m \in Nat
      BY <1>3
    <3> QED BY <3>2, <3>3
  <2>3. \A m \in 0..n : m \in G
    <3> HIDE DEF G, n
    <3> QED BY <1>3, <2>1, <2>2, Climb
  <2>4. n \in G
    <3> HIDE DEF G, n
    <3> QED BY <1>3, <2>3
  <2> HIDE DEF IsIgnore, n
  <2> QED BY <2>4
<1>5. IsIgnore(ignore, n)
  <2> HIDE DEF IsIgnore
  <2> QED BY <1>4
<1>6. Victims(run, down, r) = ignore[n]
  BY DEF Victims
<1>7. ignore[0] = chosen /\ \A k \in 1..n : ignore[k] = Fewer(ignore[k-1], k)
  <2> HIDE DEF n, chosen, ignore, Fewer
  <2> QED BY <1>3, <1>5
<1>8. Pruned(run, down, r, chosen, ignore)
  <2> HIDE DEF chosen, ignore
  <2> QED BY <1>2, <1>3, <1>6, <1>7 DEF Pruned
<1> HIDE DEF chosen, ignore
<1> QED BY <1>2, <1>8

\* Pushing the victims off makes room, and they are of the pool.
LEMMA VictimsMakeRoom ==
    ASSUME NEW run, Sound(run), NEW down, NEW r \in Request, Enough(run, down, r) # {}
    PROVE  /\ Victims(run, down, r) \subseteq Pool(run, r)
           /\ FitErr(Without(run, Victims(run, down, r)), down, r) = "none"
<1>w. PICK chosen, ignore : chosen \subseteq Pool(run, r) /\ Pruned(run, down, r, chosen, ignore)
  BY VictimsWalk
<1>1. /\ chosen \subseteq Pool(run, r) /\ IsFiniteSet(chosen) /\ FitErr(Without(run, chosen), down, r) = "none"
      /\ ignore[0] = chosen
      /\ \A k \in 1 .. Cardinality(chosen) :
            LET fewer == ignore[k-1] \ {InOrder(chosen, VictimOrder(run))[k]}
            IN  ignore[k] = IF FitErr(Without(run, fewer), down, r) = "none"
                              THEN fewer ELSE ignore[k-1]
      /\ Victims(run, down, r) = ignore[Cardinality(chosen)]
  BY <1>w DEF Pruned
<1> DEFINE n == Cardinality(chosen)
           G == {k \in 0..n : /\ ignore[k] \subseteq Pool(run, r)
                              /\ FitErr(Without(run, ignore[k]), down, r) = "none"}
<1>2. n \in Nat
  BY <1>1, FS_CardinalityType
<1>3. 0 \in G
  BY <1>1, <1>2
<1>4. ASSUME NEW k \in 1..n, k - 1 \in G PROVE k \in G
  <2> DEFINE fewer == ignore[k-1] \ {InOrder(chosen, VictimOrder(run))[k]}
  <2>1. ignore[k] = IF FitErr(Without(run, fewer), down, r) = "none" THEN fewer ELSE ignore[k-1]
    BY <1>1
  <2>2. /\ ignore[k-1] \subseteq Pool(run, r) /\ fewer \subseteq ignore[k-1]
        /\ FitErr(Without(run, ignore[k-1]), down, r) = "none"
    BY <1>4
  <2>3. k \in 0..n
    BY <1>2
  <2> HIDE DEF fewer, n
  <2> QED BY <2>1, <2>2, <2>3
<1>5. \A k \in 0..n : k \in G
  <2> HIDE DEF G, n
  <2> QED BY <1>2, <1>3, <1>4, Climb
<1>6. n \in 0..n
  BY <1>2
<1>7. n \in G
  <2> HIDE DEF G, n
  <2> QED BY <1>5, <1>6
<1> QED BY <1>1, <1>7

\* No two placed jobs were admitted with the same order, and none with one to come.
OrdersApart(run, next) ==
    \A i \in DOMAIN run : /\ run[i].order \in 1 .. next
                          /\ \A j \in DOMAIN run : run[i].order = run[j].order => i = j

\* The order in which jobs are pushed off is a strict total one.
LEMMA VictimOrderIs ==
    ASSUME NEW run, IsRunMap(run), NEW next \in Nat, OrdersApart(run, next),
           NEW V \in SUBSET DOMAIN run
    PROVE  IsOrder(V, VictimOrder(run)) /\ IsFiniteSet(V)
<1> DEFINE prio(j) == run[j].req.prio
           order(j) == run[j].order
<1>1. \A j \in V : prio(j) \in Int /\ order(j) \in Int
  <2>1. \A j \in V : run[j].req \in Request /\ run[j].order \in Nat
    BY DEF IsRunMap, IsPlaced
  <2> QED BY <2>1 DEF Request
<1>2. \A i, j \in V : order(i) = order(j) => i = j
  BY DEF OrdersApart
<1>3. \A i, j \in V : <<i, j>> \in VictimOrder(run)
                        <=> prio(i) < prio(j) \/ (prio(i) = prio(j) /\ order(i) > order(j))
  BY DEF VictimOrder
<1>4. IsOrder(V, VictimOrder(run))
  <2> HIDE DEF prio, order
  <2> QED BY <1>1, <1>2, <1>3 DEF IsOrder
<1>5. IsFiniteSet(V)
  BY FS_Subset, PlacementAssumption DEF IsRunMap
<1> QED BY <1>4, <1>5

\* None is pushed off that could have been left: with any one of them back there is
\* no room.
LEMMA VictimsNeeded ==
    ASSUME NEW run, Sound(run), NEW next \in Nat, OrdersApart(run, next), NEW down,
           NEW r \in Request, Enough(run, down, r) # {}, NEW v \in Victims(run, down, r)
    PROVE  FitErr(Without(run, Victims(run, down, r) \ {v}), down, r) # "none"
<1>w. PICK chosen, ignore : chosen \subseteq Pool(run, r) /\ Pruned(run, down, r, chosen, ignore)
  BY VictimsWalk
<1>1. /\ chosen \subseteq Pool(run, r) /\ IsFiniteSet(chosen) /\ FitErr(Without(run, chosen), down, r) = "none"
      /\ ignore[0] = chosen
      /\ \A k \in 1 .. Cardinality(chosen) :
            LET fewer == ignore[k-1] \ {InOrder(chosen, VictimOrder(run))[k]}
            IN  ignore[k] = IF FitErr(Without(run, fewer), down, r) = "none"
                              THEN fewer ELSE ignore[k-1]
      /\ Victims(run, down, r) = ignore[Cardinality(chosen)]
  BY <1>w DEF Pruned
<1> DEFINE n == Cardinality(chosen)
           seq == InOrder(chosen, VictimOrder(run))
<1>2. n \in Nat
  BY <1>1, FS_CardinalityType
\* the walk only takes away
<1>3. \A k \in 0..n : ignore[n] \subseteq ignore[k] /\ ignore[k] \subseteq chosen
  <2>1. \A k \in 1..n : ignore[k] \subseteq ignore[k-1]
    BY <1>1
  <2> DEFINE G == {k \in 0..n : ignore[k] \subseteq chosen}
             H == {k \in 0..n : ignore[n] \subseteq ignore[n - k]}
  <2>2. \A k \in 0..n : k \in G
    <3>1. 0 \in G
      BY <1>1, <1>2
    <3>2. ASSUME NEW k \in 1..n, k - 1 \in G PROVE k \in G
      <4>1. k \in 0..n
        BY <1>2
      <4> QED BY <2>1, <3>2, <4>1
    <3> HIDE DEF G, n
    <3> QED BY <1>2, <3>1, <3>2, Climb
  <2>3. \A k \in 0..n : k \in H
    <3> HIDE DEF n
    <3>1. 0 \in H
      BY <1>2
    <3>2. ASSUME NEW k \in 1..n, k - 1 \in H PROVE k \in H
      <4>1. k \in 0..n /\ n - (k - 1) \in 1..n /\ n - (k - 1) - 1 = n - k
        BY <1>2
      <4>2. ignore[n - (k - 1)] \subseteq ignore[n - k]
        BY <2>1, <4>1
      <4> QED BY <3>2, <4>1, <4>2
    <3> HIDE DEF H
    <3> QED BY <1>2, <3>1, <3>2, Climb
  <2>4. ASSUME NEW k \in 0..n PROVE ignore[n] \subseteq ignore[k] /\ ignore[k] \subseteq chosen
    <3> HIDE DEF n
    <3>1. n - k \in 0..n /\ n - (n - k) = k
      BY <1>2
    <3> QED BY <2>2, <2>3, <3>1
  <2> QED BY <2>4
<1>4. PICK k \in 1..n : seq[k] = v
  <2>1. chosen \in SUBSET DOMAIN run
    BY <1>1 DEF Pool
  <2>2. IsOrder(chosen, VictimOrder(run))
    BY <2>1, VictimOrderIs DEF Sound
  <2>3. v \in chosen
    <3>1. n \in 0..n
      BY <1>2
    <3> HIDE DEF n
    <3> QED BY <1>1, <1>3, <3>1 DEF n
  <2> QED BY <1>1, <2>2, <2>3, InOrderReaches
<1> DEFINE fewer == ignore[k-1] \ {seq[k]}
<1>5. ignore[k] = IF FitErr(Without(run, fewer), down, r) = "none" THEN fewer ELSE ignore[k-1]
  BY <1>1
\* v was passed, and left in
<1>6. FitErr(Without(run, fewer), down, r) # "none"
  <2>1. k \in 0..n
    BY <1>2
  <2>2. v \in ignore[k]
    <3> HIDE DEF n
    <3> QED BY <1>1, <1>3, <2>1 DEF n
  <2> HIDE DEF n, seq
  <2> QED BY <1>4, <1>5, <2>2
<1>7. Victims(run, down, r) \ {v} \subseteq fewer
  <2>1. k - 1 \in 0..n
    BY <1>2
  <2> HIDE DEF n, seq
  <2> QED BY <1>1, <1>3, <1>4, <2>1 DEF n
<1> DEFINE big == Without(run, Victims(run, down, r) \ {v})
           small == Without(run, fewer)
<1>8. Extends(big, small) /\ IsRunMap(big)
  <2>1. IsRunMap(big)
    BY WithoutFacts DEF Sound
  <2>2. Extends(big, small)
    <3> HIDE DEF fewer
    <3> QED BY <1>7 DEF Extends, Without
  <2> QED BY <2>1, <2>2
<1> HIDE DEF big, small, fewer
<1> QED BY <1>6, <1>8, FitMonotone DEF big, small

\* A job waits only if pushing off the whole pool would not have made room.
LEMMA PoolNotEnough ==
    ASSUME NEW run, Sound(run), NEW next \in Nat, OrdersApart(run, next), NEW down,
           NEW r \in Request, FitErr(run, down, r) # "none", Enough(run, down, r) = {}
    PROVE  FitErr(Without(run, Pool(run, r)), down, r) # "none"
<1> DEFINE P == Pool(run, r)
           n == Cardinality(P)
<1>1. P \in SUBSET DOMAIN run
  BY DEF Pool
<1>2. IsOrder(P, VictimOrder(run)) /\ IsFiniteSet(P)
  <2> HIDE DEF P
  <2> QED BY <1>1, VictimOrderIs DEF Sound
<1>3. n \in Nat
  BY <1>2, FS_CardinalityType
<1>4. CASE P = {}
  <2>1. Extends(Without(run, P), run)
    <3> HIDE DEF P
    <3> QED BY <1>4 DEF Extends, Without
  <2>2. IsRunMap(Without(run, P))
    BY WithoutFacts DEF Sound
  <2> DEFINE big == Without(run, P)
  <2> HIDE DEF big
  <2>3. Extends(big, run) /\ IsRunMap(big)
    BY <2>1, <2>2 DEF big
  <2>4. FitErr(big, down, r) # "none"
    BY <2>3, FitMonotone
  <2> QED BY <2>4 DEF big
<1>5. CASE P # {}
  <2>1. n \in 1..n
    <3>1. n # 0
      BY <1>2, <1>5, FS_EmptySet
    <3> HIDE DEF n
    <3> QED BY <1>3, <3>1
  <2>2. FirstK(P, n, VictimOrder(run)) = P
    <3>1. ASSUME NEW x \in P PROVE Cardinality(Before(P, x, VictimOrder(run))) < n
      <4>1. PICK i \in 1..n : InOrder(P, VictimOrder(run))[i] = x
        <5> HIDE DEF P
        <5> QED BY <1>2, InOrderReaches
      <4>2. Cardinality(Before(P, x, VictimOrder(run))) = i - 1
        <5> HIDE DEF P
        <5> QED BY <1>2, <4>1, InOrderIs
      <4> HIDE DEF n, P
      <4> QED BY <1>3, <4>2
    <3> HIDE DEF P, n
    <3> QED BY <3>1 DEF FirstK
  <2> QED BY <2>1, <2>2 DEF Enough
<1> QED BY <1>4, <1>5

-----------------------------------------------------------------------------
(* The queue. *)

\* No job waits twice, and none that is placed.
WaitsApart(run, q) ==
    /\ \A i, k \in DOMAIN q : q[i].id = q[k].id => i = k
    /\ \A i \in DOMAIN q : q[i].id \notin DOMAIN run

\* The sorted queue is the queue in another order, by falling priority.
LEMMA SortedQueueIs ==
    ASSUME NEW q \in Seq(Request)
    PROVE  /\ \A k \in 1 .. Len(q) : SortedQueue(q)[k] \in Request
           /\ \E from \in [1 .. Len(q) -> 1 .. Len(q)] :
                 /\ \A k \in 1 .. Len(q) : SortedQueue(q)[k] = q[from[k]]
                 /\ \A i, k \in 1 .. Len(q) : from[i] = from[k] => i = k
                 /\ \A m \in 1 .. Len(q) : \E k \in 1 .. Len(q) : from[k] = m
           /\ \A i, k \in 1 .. Len(q) : i < k => SortedQueue(q)[i].prio >= SortedQueue(q)[k].prio
<1> DEFINE S == DOMAIN q
           ahead == {p \in S \X S : \/ q[p[1]].prio > q[p[2]].prio
                                    \/ q[p[1]].prio = q[p[2]].prio /\ p[1] < p[2]}
           from == InOrder(S, ahead)
<1>1. S = 1..Len(q) /\ Len(q) \in Nat
  OBVIOUS
<1>2. \A i \in S : q[i] \in Request
  OBVIOUS
<1>p. \A i \in S : q[i].prio \in Int
  <2>1. \A r \in Request : r.prio \in Int
    BY DEF Request
  <2> QED BY <1>2, <2>1
<1>a. \A i, j \in S : <<i, j>> \in ahead
                        <=> q[i].prio > q[j].prio \/ (q[i].prio = q[j].prio /\ i < j)
  OBVIOUS
<1>3. IsOrder(S, ahead)
  <2> DEFINE prio(i) == q[i].prio
  <2>1. \A i \in S : prio(i) \in Int /\ i \in Int
    BY <1>1, <1>p
  <2>2. \A i, j \in S : <<i, j>> \in ahead <=> prio(i) > prio(j) \/ (prio(i) = prio(j) /\ i < j)
    BY <1>a
  <2> HIDE DEF ahead, S, prio
  <2> QED BY <2>1, <2>2 DEF IsOrder
<1>4. IsFiniteSet(S) /\ Cardinality(S) = Len(q)
  <2>1. IsFiniteSet(1..Len(q)) /\ Cardinality(1..Len(q)) = Len(q)
    BY <1>1, FS_Interval
  <2> QED BY <1>1, <2>1
<1>5. from = [k \in 1..Len(q) |-> from[k]]
  <2> HIDE DEF S, ahead
  <2> QED BY <1>4 DEF InOrder
<1>6. \A k \in 1..Len(q) : from[k] \in S
  <2> HIDE DEF S, ahead
  <2> QED BY <1>3, <1>4, InOrderIs
<1>7. from \in [1 .. Len(q) -> 1 .. Len(q)]
  <2> HIDE DEF from
  <2> QED BY <1>1, <1>5, <1>6
<1>8. \A k \in 1 .. Len(q) : SortedQueue(q)[k] = q[from[k]]
  BY <1>1 DEF SortedQueue
<1>9. \A i, k \in 1 .. Len(q) : i < k => <<from[i], from[k]>> \in ahead /\ from[i] # from[k]
  <2> HIDE DEF S, ahead
  <2> QED BY <1>3, <1>4, InOrderRises
<1>10. \A m \in 1 .. Len(q) : \E k \in 1 .. Len(q) : from[k] = m
  <2>1. \A m \in S : \E k \in 1..Cardinality(S) : from[k] = m
    <3> HIDE DEF S, ahead
    <3> QED BY <1>3, <1>4, InOrderReaches
  <2> HIDE DEF S, from
  <2> QED BY <1>1, <1>4, <2>1
<1> HIDE DEF from, ahead
<1>11. \A i, k \in 1 .. Len(q) : from[i] = from[k] => i = k
  <2>1. \A i, k \in 1 .. Len(q) : i < k \/ k < i \/ i = k
    BY <1>1
  <2> QED BY <1>9, <2>1
<1>12. \A i, k \in 1 .. Len(q) : i < k => SortedQueue(q)[i].prio >= SortedQueue(q)[k].prio
  <2>1. SUFFICES ASSUME NEW i \in 1 .. Len(q), NEW k \in 1 .. Len(q), i < k
                 PROVE  q[from[i]].prio >= q[from[k]].prio
    BY <1>8
  <2> DEFINE x == from[i]
             y == from[k]
  <2>2. x \in S /\ y \in S /\ <<x, y>> \in ahead
    BY <1>6, <1>9, <2>1
  <2> HIDE DEF x, y, S
  <2>3. PICK a \in Int, b \in Int : a = q[x].prio /\ b = q[y].prio
    BY <1>p, <2>2
  <2>4. a > b \/ a = b
    BY <1>a, <2>2, <2>3
  <2>5. a >= b
    BY <2>3, <2>4
  <2> QED BY <2>3, <2>5 DEF x, y
<1>13. \A k \in 1 .. Len(q) : SortedQueue(q)[k] \in Request
  BY <1>1, <1>2, <1>6, <1>8
<1>14. \E f \in [1 .. Len(q) -> 1 .. Len(q)] :
          /\ \A k \in 1 .. Len(q) : SortedQueue(q)[k] = q[f[k]]
          /\ \A i, k \in 1 .. Len(q) : f[i] = f[k] => i = k
          /\ \A m \in 1 .. Len(q) : \E k \in 1 .. Len(q) : f[k] = m
  BY <1>7, <1>8, <1>10, <1>11
<1> QED BY <1>12, <1>13, <1>14

\* Draining is a walk through the sorted queue.
LEMMA DrainWalks ==
    ASSUME NEW run, NEW next, NEW q \in Seq(Request), NEW down
    PROVE  \E after :
              /\ after[0] = [run |-> run, next |-> next, rest |-> <<>>, started |-> <<>>]
              /\ \A k \in 1 .. Len(q) : after[k] = DrainOne(after[k-1], down, SortedQueue(q)[k])
              /\ Drain(run, next, q, down) = after[Len(q)]
<1> DEFINE n == Len(q)
           sorted == SortedQueue(q)
           base == [run |-> run, next |-> next, rest |-> <<>>, started |-> <<>>]
           IsAfter(f, m) == f = [k \in 0..m |-> IF k = 0 THEN base
                                                ELSE DrainOne(f[k-1], down, sorted[k])]
           after == CHOOSE f : IsAfter(f, n)
<1>1. n \in Nat
  OBVIOUS
<1>2. \E f : IsAfter(f, n)
  <2> DEFINE G == {m \in Nat : \E f : IsAfter(f, m)}
  <2>1. 0 \in G
    <3>1. IsAfter([k \in 0..0 |-> base], 0)
      <4> HIDE DEF base, sorted
      <4> QED OBVIOUS
    <3> QED BY <3>1
  <2>2. ASSUME NEW m \in 1..n, m - 1 \in G PROVE m \in G
    <3>1. PICK f : IsAfter(f, m - 1)
      BY <2>2
    <3> DEFINE g == [k \in 0..m |-> IF k = m THEN DrainOne(f[m-1], down, sorted[m]) ELSE f[k]]
    <3>2. IsAfter(g, m)
      <4> HIDE DEF base, sorted, n
      <4> QED BY <1>1, <3>1
    <3>3. m \in Nat
      BY <1>1
    <3> QED BY <3>2, <3>3
  <2>3. \A m \in 0..n : m \in G
    <3> HIDE DEF G, n
    <3> QED BY <1>1, <2>1, <2>2, Climb
  <2> QED BY <1>1, <2>3
<1>3. IsAfter(after, n)
  <2> HIDE DEF IsAfter
  <2> QED BY <1>2
<1>4. Drain(run, next, q, down) = after[n]
  BY DEF Drain
<1>5. after[0] = base /\ \A k \in 1..n : after[k] = DrainOne(after[k-1], down, sorted[k])
  <2> HIDE DEF after, base, sorted, n
  <2> QED BY <1>1, <1>3
<1> QED BY <1>4, <1>5

\* The jobs placed after order `next' whose priority is below prio.
Lower(run, next, prio) == {j \in DOMAIN run : run[j].order > next /\ run[j].req.prio < prio}

\* A line of n requests that a drain of run walks through.
IsLine(run, line, n) ==
    /\ \A m \in 1 .. n : line[m] \in Request /\ line[m].id \notin DOMAIN run
    /\ \A l, m \in 1 .. n : line[l].id = line[m].id => l = m
    /\ \A l, m \in 1 .. n : l < m => line[l].prio >= line[m].prio

\* Where a drain of run is after the first k of the line: who was placed keeps what it
\* has, with the orders after next for the newcomers; the newcomers and the rest are the
\* requests walked past; and none of the rest has room, or would have had room but for a
\* newcomer of lower priority.
Drained(run, next, line, down, k, s) ==
    /\ Sound(s.run) /\ Extends(s.run, run)
    /\ s.next \in Nat /\ next <= s.next /\ OrdersApart(s.run, s.next)
    /\ \A j \in DOMAIN s.run \ DOMAIN run :
          s.run[j].order > next /\ \E m \in 1 .. k : s.run[j].req = line[m]
    /\ s.started \in Seq(Ids)
    /\ \A j \in Ids : (\E i \in DOMAIN s.started : s.started[i] = j)
                        <=> j \in DOMAIN s.run \ DOMAIN run
    /\ s.rest \in Seq(Request) /\ WaitsApart(s.run, s.rest)
    /\ \A i \in DOMAIN s.rest : \E m \in 1 .. k : s.rest[i] = line[m]
    /\ \A m \in 1 .. k : line[m].id \in DOMAIN s.run \/ \E i \in DOMAIN s.rest : s.rest[i] = line[m]
    /\ \A i \in DOMAIN s.rest :
          FitErr(Without(s.run, Lower(s.run, next, s.rest[i].prio)), down, s.rest[i]) # "none"

LEMMA DrainOneKeeps ==
    ASSUME NEW run, NEW next \in Nat, OrdersApart(run, next),
           NEW line, NEW n \in Nat, IsLine(run, line, n), NEW down,
           NEW k \in 1 .. n, NEW s, Drained(run, next, line, down, k - 1, s),
           FitErr(s.run, down, line[k]) # "none"
    PROVE  Drained(run, next, line, down, k, DrainOne(s, down, line[k]))
<1> DEFINE r == line[k]
           t == DrainOne(s, down, r)
<1>1. /\ t.run = s.run /\ t.next = s.next /\ t.rest = Append(s.rest, r) /\ t.started = s.started
  BY DEF DrainOne
<1>2. /\ r \in Request /\ r.id \notin DOMAIN run
      /\ s.rest \in Seq(Request) /\ Sound(s.run) /\ IsRunMap(s.run)
  BY DEF IsLine, Drained, Sound
<1>k. 1 .. k - 1 \subseteq 1 .. n /\ k \in 1 .. n /\ 1 .. k = (1 .. k - 1) \cup {k} /\ k \notin 1 .. k - 1
  OBVIOUS
<1>3. r.id \notin DOMAIN s.run
  <2>1. SUFFICES ASSUME r.id \in DOMAIN s.run PROVE FALSE
    OBVIOUS
  <2>2. PICK m \in 1 .. k - 1 : s.run[r.id].req = line[m]
    BY <1>2, <2>1 DEF Drained
  <2>3. line[m].id = r.id
    BY <1>2, <2>1, <2>2 DEF Sound
  <2> QED BY <1>k, <2>3 DEF IsLine
<1>4. \A i \in DOMAIN s.rest : s.rest[i].id # r.id
  <2>1. SUFFICES ASSUME NEW i \in DOMAIN s.rest, s.rest[i].id = r.id PROVE FALSE
    OBVIOUS
  <2>2. PICK m \in 1 .. k - 1 : s.rest[i] = line[m]
    BY DEF Drained
  <2> QED BY <1>k, <2>1, <2>2 DEF IsLine
<1> DEFINE l == Len(s.rest)
<1>5. /\ l \in Nat /\ DOMAIN s.rest = 1 .. l /\ t.rest \in Seq(Request)
      /\ DOMAIN t.rest = (1 .. l) \cup {l + 1} /\ t.rest[l + 1] = r
      /\ \A i \in 1 .. l : t.rest[i] = s.rest[i] /\ i # l + 1
  BY <1>1, <1>2
<1> HIDE DEF l, t, r
<1>6. WaitsApart(t.run, t.rest)
  BY <1>1, <1>3, <1>4, <1>5 DEF Drained, WaitsApart
<1>7. ASSUME NEW i \in DOMAIN t.rest PROVE \E m \in 1 .. k : t.rest[i] = line[m]
  <2>1. CASE i \in 1 .. l
    <3>1. PICK m \in 1 .. k - 1 : s.rest[i] = line[m]
      BY <1>5, <2>1 DEF Drained
    <3> QED BY <1>5, <1>k, <2>1, <3>1
  <2>2. CASE i = l + 1
    BY <1>5, <1>k, <2>2 DEF r
  <2> QED BY <1>5, <2>1, <2>2
<1>8. \A m \in 1 .. k : line[m].id \in DOMAIN t.run \/ \E i \in DOMAIN t.rest : t.rest[i] = line[m]
  BY <1>1, <1>5, <1>k DEF Drained, r
<1>9. \A j \in DOMAIN t.run \ DOMAIN run :
          t.run[j].order > next /\ \E m \in 1 .. k : t.run[j].req = line[m]
  BY <1>1, <1>k DEF Drained
<1>10. ASSUME NEW i \in DOMAIN t.rest
       PROVE  FitErr(Without(t.run, Lower(t.run, next, t.rest[i].prio)), down, t.rest[i]) # "none"
  <2>1. CASE i \in 1 .. l
    BY <1>1, <1>5, <2>1 DEF Drained
  <2>2. CASE i = l + 1
    <3> DEFINE low == Lower(s.run, next, r.prio)
               less == Without(s.run, low)
    <3>1. low = {}
      <4>1. SUFFICES ASSUME NEW j \in DOMAIN s.run, s.run[j].order > next, s.run[j].req.prio < r.prio
                     PROVE  FALSE
        BY DEF Lower
      <4>2. CASE j \in DOMAIN run
        <5>1. run[j].order \in 1 .. next /\ s.run[j] = run[j]
          BY <4>2 DEF OrdersApart, Drained, Extends
        <5> QED BY <4>1, <5>1
      <4>3. CASE j \notin DOMAIN run
        <5>1. PICK m \in 1 .. k - 1 : s.run[j].req = line[m]
          BY <4>3 DEF Drained
        <5>2. line[m] \in Request /\ line[m].prio >= r.prio
          BY <1>k DEF IsLine, r
        <5>3. line[m].prio \in Int /\ r.prio \in Int
          BY <1>2, <5>2 DEF Request
        <5> QED BY <4>1, <5>1, <5>2, <5>3
      <4> QED BY <4>2, <4>3
    <3>2. Extends(less, s.run)
      <4> HIDE DEF low
      <4> QED BY <3>1 DEF Extends, Without
    <3>3. IsRunMap(less)
      BY <1>2, WithoutFacts
    <3>4. FitErr(less, down, r) # "none"
      <4> HIDE DEF less
      <4> QED BY <1>2, <3>2, <3>3, FitMonotone DEF r
    <3> QED BY <1>1, <1>5, <2>2, <3>4
  <2> QED BY <1>5, <2>1, <2>2
<1>11. /\ Sound(t.run) /\ Extends(t.run, run)
       /\ t.next \in Nat /\ next <= t.next /\ OrdersApart(t.run, t.next)
       /\ t.started \in Seq(Ids)
       /\ \A j \in Ids : (\E i \in DOMAIN t.started : t.started[i] = j)
                           <=> j \in DOMAIN t.run \ DOMAIN run
  BY <1>1 DEF Drained
<1>12. t.rest \in Seq(Request)
  BY <1>5
<1>13. Drained(run, next, line, down, k, t)
  BY <1>6, <1>7, <1>8, <1>9, <1>10, <1>11, <1>12 DEF Drained
<1> QED BY <1>13 DEF t, r

LEMMA DrainOnePlaces ==
    ASSUME NEW run, NEW next \in Nat, OrdersApart(run, next),
           NEW line, NEW n \in Nat, IsLine(run, line, n), NEW down,
           NEW k \in 1 .. n, NEW s, Drained(run, next, line, down, k - 1, s),
           FitErr(s.run, down, line[k]) = "none"
    PROVE  Drained(run, next, line, down, k, DrainOne(s, down, line[k]))
<1> DEFINE r == line[k]
           slots == FitSlots(s.run, down, r)
           t == DrainOne(s, down, r)
<1>1. /\ t.run = Place(s.run, r, slots, s.next + 1) /\ t.next = s.next + 1
      /\ t.rest = s.rest /\ t.started = Append(s.started, r.id)
  BY DEF DrainOne
<1>2. /\ r \in Request /\ r.id \in Ids /\ r.id \notin DOMAIN run
      /\ s.rest \in Seq(Request) /\ Sound(s.run) /\ IsRunMap(s.run)
      /\ s.next \in Nat /\ next <= s.next /\ s.started \in Seq(Ids)
  BY DEF IsLine, Drained, Sound, Request
<1>k. 1 .. k - 1 \subseteq 1 .. n /\ k \in 1 .. n /\ 1 .. k = (1 .. k - 1) \cup {k} /\ k \notin 1 .. k - 1
  OBVIOUS
<1>3. r.id \notin DOMAIN s.run
  <2>1. SUFFICES ASSUME r.id \in DOMAIN s.run PROVE FALSE
    OBVIOUS
  <2>2. PICK m \in 1 .. k - 1 : s.run[r.id].req = line[m]
    BY <1>2, <2>1 DEF Drained
  <2>3. line[m].id = r.id
    BY <1>2, <2>1, <2>2 DEF Sound
  <2> QED BY <1>k, <2>3 DEF IsLine
<1>4. \A i \in DOMAIN s.rest : s.rest[i].id # r.id
  <2>1. SUFFICES ASSUME NEW i \in DOMAIN s.rest, s.rest[i].id = r.id PROVE FALSE
    OBVIOUS
  <2>2. PICK m \in 1 .. k - 1 : s.rest[i] = line[m]
    BY DEF Drained
  <2> QED BY <1>k, <2>1, <2>2 DEF IsLine
<1>5. /\ DOMAIN t.run = DOMAIN s.run \cup {r.id}
      /\ t.run[r.id].req = r /\ t.run[r.id].order = s.next + 1
      /\ \A j \in DOMAIN s.run : t.run[j] = s.run[j] /\ j # r.id
  <2> HIDE DEF slots
  <2> QED BY <1>1, <1>3 DEF Place
<1>6. Sound(t.run)
  <2>1. s.next + 1 \in Nat
    BY <1>2
  <2> QED BY <1>1, <1>2, <2>1, FitSound
<1> HIDE DEF t, r, slots
<1>7. Extends(t.run, run)
  BY <1>5 DEF Drained, Extends
<1>8. t.next \in Nat /\ next <= t.next /\ OrdersApart(t.run, t.next)
  <2>1. t.next \in Nat /\ next <= t.next
    BY <1>1, <1>2
  <2>2. \A i \in DOMAIN s.run : s.run[i].order \in 1 .. s.next
    BY DEF Drained, OrdersApart
  <2>3. \A i, j \in DOMAIN s.run : s.run[i].order = s.run[j].order => i = j
    BY DEF Drained, OrdersApart
  <2>4. \A i \in DOMAIN t.run : t.run[i].order \in 1 .. t.next
    BY <1>1, <1>2, <1>5, <2>2
  <2>5. \A i \in DOMAIN s.run : t.run[i].order # s.next + 1
    BY <1>2, <1>5, <2>2
  <2>6. \A i, j \in DOMAIN t.run : t.run[i].order = t.run[j].order => i = j
    BY <1>5, <2>3, <2>5
  <2> QED BY <2>1, <2>4, <2>6 DEF OrdersApart
<1>9. ASSUME NEW j \in DOMAIN t.run \ DOMAIN run
      PROVE  t.run[j].order > next /\ \E m \in 1 .. k : t.run[j].req = line[m]
  <2>1. CASE j = r.id
    BY <1>2, <1>5, <1>k, <2>1 DEF r
  <2>2. CASE j \in DOMAIN s.run
    <3>1. s.run[j].order > next
      BY <2>2 DEF Drained
    <3>2. PICK m \in 1 .. k - 1 : s.run[j].req = line[m]
      BY <2>2 DEF Drained
    <3> QED BY <1>5, <1>k, <2>2, <3>1, <3>2
  <2> QED BY <1>5, <2>1, <2>2
<1>10. t.started \in Seq(Ids)
  BY <1>1, <1>2
<1>11. ASSUME NEW j \in Ids
       PROVE  (\E i \in DOMAIN t.started : t.started[i] = j) <=> j \in DOMAIN t.run \ DOMAIN run
  <2> DEFINE l == Len(s.started)
  <2>1. /\ l \in Nat /\ DOMAIN s.started = 1 .. l
        /\ DOMAIN t.started = (1 .. l) \cup {l + 1} /\ t.started[l + 1] = r.id
        /\ \A i \in 1 .. l : t.started[i] = s.started[i]
    BY <1>1, <1>2, SMTT(30)
  <2>2. (\E i \in DOMAIN s.started : s.started[i] = j) <=> j \in DOMAIN s.run \ DOMAIN run
    BY DEF Drained
  <2>3. (\E i \in DOMAIN t.started : t.started[i] = j)
            <=> j = r.id \/ \E i \in DOMAIN s.started : s.started[i] = j
    BY <2>1
  <2> QED BY <1>2, <1>5, <2>2, <2>3
<1>12. WaitsApart(t.run, t.rest)
  BY <1>1, <1>4, <1>5 DEF Drained, WaitsApart
<1>13. ASSUME NEW i \in DOMAIN t.rest PROVE \E m \in 1 .. k : t.rest[i] = line[m]
  <2>1. PICK m \in 1 .. k - 1 : s.rest[i] = line[m]
    BY <1>1 DEF Drained
  <2> QED BY <1>1, <1>k, <2>1
<1>14. \A m \in 1 .. k : line[m].id \in DOMAIN t.run \/ \E i \in DOMAIN t.rest : t.rest[i] = line[m]
  BY <1>1, <1>5, <1>k DEF Drained, r
<1>15. ASSUME NEW i \in DOMAIN t.rest
       PROVE  FitErr(Without(t.run, Lower(t.run, next, t.rest[i].prio)), down, t.rest[i]) # "none"
  <2> DEFINE p == s.rest[i].prio
             big == Without(t.run, Lower(t.run, next, p))
             small == Without(s.run, Lower(s.run, next, p))
  <2>1. t.rest[i] = s.rest[i] /\ s.rest[i] \in Request
    BY <1>1, <1>2
  <2>2. FitErr(small, down, s.rest[i]) # "none"
    BY <1>1 DEF Drained
  <2>3. Extends(big, small)
    BY <1>5 DEF Extends, Without, Lower
  <2>4. IsRunMap(big)
    BY <1>6, WithoutFacts DEF Sound
  <2>5. FitErr(big, down, s.rest[i]) # "none"
    <3> HIDE DEF big, small
    <3> QED BY <2>1, <2>2, <2>3, <2>4, FitMonotone
  <2> QED BY <2>1, <2>5
<1> QED BY <1>1, <1>2, <1>6, <1>7, <1>8, <1>9, <1>10, <1>11, <1>12, <1>13, <1>14, <1>15
    DEF Drained, t, r

\* What a drain leaves, for any queue of jobs that wait once and are not placed.
LEMMA DrainIs ==
    ASSUME NEW run, Sound(run), NEW next \in Nat, OrdersApart(run, next),
           NEW q \in Seq(Request), WaitsApart(run, q), NEW down
    PROVE  Drained(run, next, q, down, Len(q), Drain(run, next, q, down))
<1> DEFINE n == Len(q)
           sorted == SortedQueue(q)
           base == [run |-> run, next |-> next, rest |-> <<>>, started |-> <<>>]
           d == Drain(run, next, q, down)
<1>1. n \in Nat /\ DOMAIN q = 1 .. n
  OBVIOUS
<1>2. PICK from \in [1 .. n -> 1 .. n] :
        /\ \A k \in 1 .. n : sorted[k] = q[from[k]]
        /\ \A i, k \in 1 .. n : from[i] = from[k] => i = k
        /\ \A m \in 1 .. n : \E k \in 1 .. n : from[k] = m
  BY SortedQueueIs
<1>3. IsLine(run, sorted, n)
  <2>1. \A k \in 1 .. n : sorted[k] \in Request
    BY SortedQueueIs
  <2>2. \A i, k \in 1 .. n : i < k => sorted[i].prio >= sorted[k].prio
    BY SortedQueueIs
  <2> HIDE DEF sorted, n
  <2>3. \A k \in 1 .. n : sorted[k].id \notin DOMAIN run
    BY <1>1, <1>2 DEF WaitsApart
  <2>4. ASSUME NEW l \in 1 .. n, NEW m \in 1 .. n, sorted[l].id = sorted[m].id PROVE l = m
    <3>1. from[l] \in DOMAIN q /\ from[m] \in DOMAIN q /\ q[from[l]].id = q[from[m]].id
      BY <1>1, <1>2, <2>4
    <3>2. from[l] = from[m]
      BY <3>1 DEF WaitsApart
    <3> QED BY <1>2, <3>2
  <2> QED BY <2>1, <2>2, <2>3, <2>4 DEF IsLine
<1>4. PICK after :
        /\ after[0] = base
        /\ \A k \in 1 .. n : after[k] = DrainOne(after[k-1], down, sorted[k])
        /\ d = after[n]
  BY DrainWalks
<1>5. Drained(run, next, sorted, down, n, d)
  <2> DEFINE G == {k \in 0 .. n : Drained(run, next, sorted, down, k, after[k])}
  <2>1. 0 \in G
    <3>1. Drained(run, next, sorted, down, 0, base)
      BY DEF Drained, Extends, WaitsApart
    <3> QED BY <1>1, <1>4, <3>1
  <2>2. ASSUME NEW k \in 1 .. n, k - 1 \in G PROVE k \in G
    <3> DEFINE s == after[k-1]
    <3> HIDE DEF n, sorted
    <3>1. Drained(run, next, sorted, down, k - 1, s)
      BY <2>2
    <3>2. after[k] = DrainOne(s, down, sorted[k])
      BY <1>4
    <3> HIDE DEF s
    <3>3. CASE FitErr(s.run, down, sorted[k]) = "none"
      BY <1>1, <1>3, <3>1, <3>2, <3>3, DrainOnePlaces
    <3>4. CASE FitErr(s.run, down, sorted[k]) # "none"
      BY <1>1, <1>3, <3>1, <3>2, <3>4, DrainOneKeeps
    <3>5. k \in 0 .. n
      BY <1>1
    <3> QED BY <3>3, <3>4, <3>5
  <2>3. \A k \in 0 .. n : k \in G
    <3> HIDE DEF G, n
    <3> QED BY <1>1, <2>1, <2>2, Climb
  <2>4. n \in 0 .. n
    BY <1>1
  <2> HIDE DEF n, d
  <2> QED BY <1>4, <2>3, <2>4
<1> HIDE DEF d, sorted, n
<1>6. ASSUME NEW x PROVE (\E m \in 1 .. n : x = sorted[m]) <=> (\E m \in 1 .. n : x = q[m])
  <2>1. ASSUME NEW m \in 1 .. n, x = sorted[m] PROVE \E i \in 1 .. n : x = q[i]
    <3>1. from[m] \in 1 .. n /\ x = q[from[m]]
      BY <1>2, <2>1
    <3> QED BY <3>1
  <2>2. ASSUME NEW m \in 1 .. n, x = q[m] PROVE \E i \in 1 .. n : x = sorted[i]
    <3>1. PICK i \in 1 .. n : from[i] = m
      BY <1>2
    <3> QED BY <1>2, <2>2, <3>1
  <2> QED BY <2>1, <2>2
<1>7. ASSUME NEW m \in 1 .. n
      PROVE  q[m].id \in DOMAIN d.run \/ \E i \in DOMAIN d.rest : d.rest[i] = q[m]
  <2>1. PICK k \in 1 .. n : q[m] = sorted[k]
    BY <1>6
  <2> QED BY <1>5, <2>1 DEF Drained
<1>8. \A j \in DOMAIN d.run \ DOMAIN run :
          d.run[j].order > next /\ \E m \in 1 .. n : d.run[j].req = q[m]
  BY <1>5, <1>6 DEF Drained
<1>9. \A i \in DOMAIN d.rest : \E m \in 1 .. n : d.rest[i] = q[m]
  BY <1>5, <1>6 DEF Drained
<1>10. Drained(run, next, q, down, n, d)
  BY <1>5, <1>7, <1>8, <1>9 DEF Drained
<1> QED BY <1>10 DEF d, n

\* What Cancelled leaves, for a queue in which nobody waits twice.
LEMMA CancelledIs ==
    ASSUME NEW run, NEW q \in Seq(Request), WaitsApart(run, q), NEW id
    PROVE  /\ Cancelled(q, id) \in Seq(Request) /\ WaitsApart(run, Cancelled(q, id))
           /\ \A x : (\E i \in DOMAIN Cancelled(q, id) : Cancelled(q, id)[i] = x)
                        <=> (\E i \in DOMAIN q : q[i] = x /\ x.id # id)
<1> DEFINE at == CHOOSE i \in DOMAIN q : q[i].id = id /\ \A k \in 1 .. i - 1 : q[k].id # id
           hits == {i \in DOMAIN q : q[i].id = id}
           n == Len(q)
           c == Cancelled(q, id)
<1>1. n \in Nat /\ DOMAIN q = 1 .. n
  OBVIOUS
<1>2. CASE hits # {}
  <2>1. at \in 1 .. n /\ q[at].id = id
    <3>1. hits \in SUBSET Nat
      OBVIOUS
    <3>2. PICK m \in hits : \A i \in hits : m <= i
      BY <1>2, <3>1, NatLeast
    <3>3. \A k \in 1 .. m - 1 : q[k].id # id
      BY <1>1, <3>2
    <3> QED BY <1>1, <3>2, <3>3
  <2>2. c = SubSeq(q, 1, at - 1) \o SubSeq(q, at + 1, n)
    BY <1>2 DEF Cancelled
  <2> HIDE DEF at, n
  <2> DEFINE a == SubSeq(q, 1, at - 1)
             b == SubSeq(q, at + 1, n)
  <2>3. /\ a \in Seq(Request) /\ Len(a) = at - 1 /\ \A i \in 1 .. at - 1 : a[i] = q[i]
        /\ b \in Seq(Request) /\ Len(b) = n - at /\ \A i \in 1 .. n - at : b[i] = q[at + i]
    <3>1. a \in Seq(Request) /\ Len(a) = at - 1 /\ \A i \in 1 .. at - 1 : a[i] = q[i]
      BY <1>1, <2>1 DEF n
    <3>2. b \in Seq(Request) /\ Len(b) = n - at
      <4>1. at \in Int /\ Len(q) \in Int /\ at <= Len(q)
        BY <1>1, <2>1 DEF n
      <4>2. b = SubSeq(q, at + 1, Len(q)) /\ b \in Seq(Request)
        BY <1>1, <2>1 DEF n
      <4>3. Len(SubSeq(q, at + 1, Len(q))) = IF at + 1 <= Len(q) THEN Len(q) - (at + 1) + 1 ELSE 0
        BY <1>1, <2>1 DEF n
      <4>4. Len(SubSeq(q, at + 1, Len(q))) = Len(q) - at
        BY <4>1, <4>3
      <4> QED BY <4>2, <4>4 DEF n
    <3>3. ASSUME NEW i \in 1 .. n - at PROVE b[i] = q[at + i]
      <4>1. b[i] = q[at + 1 + i - 1]
        BY <1>1, <2>1 DEF n
      <4>2. at + 1 + i - 1 = at + i
        BY <1>1, <2>1
      <4> QED BY <4>1, <4>2
    <3> QED BY <3>1, <3>2, <3>3
  <2> HIDE DEF a, b, c
  <2>4. c \in Seq(Request) /\ Len(c) = n - 1
    BY <1>1, <2>1, <2>2, <2>3 DEF a, b
  <2>5. \A i \in 1 .. n - 1 : c[i] = IF i < at THEN q[i] ELSE q[i + 1]
    BY <1>1, <2>1, <2>2, <2>3 DEF a, b
  <2>6. DOMAIN c = 1 .. n - 1
    BY <2>4
  <2>7. WaitsApart(run, c)
    <3>1. \A i \in 1 .. n - 1 : c[i].id \notin DOMAIN run
      BY <1>1, <2>1, <2>5 DEF WaitsApart
    <3>2. ASSUME NEW i \in 1 .. n - 1, NEW k \in 1 .. n - 1, c[i].id = c[k].id PROVE i = k
      <4> DEFINE x == IF i < at THEN i ELSE i + 1
                 y == IF k < at THEN k ELSE k + 1
      <4>1. x \in 1 .. n /\ y \in 1 .. n /\ c[i] = q[x] /\ c[k] = q[y]
        BY <1>1, <2>1, <2>5
      <4>2. x = y
        <5> HIDE DEF x, y
        <5> QED BY <1>1, <3>2, <4>1 DEF WaitsApart
      <4> QED BY <1>1, <2>1, <4>2
    <3> QED BY <2>6, <3>1, <3>2 DEF WaitsApart
  <2>8. ASSUME NEW x, NEW i \in DOMAIN c, c[i] = x PROVE \E k \in DOMAIN q : q[k] = x /\ x.id # id
    <3> DEFINE k == IF i < at THEN i ELSE i + 1
    <3>1. k \in 1 .. n /\ k # at /\ c[i] = q[k]
      BY <1>1, <2>1, <2>5, <2>6
    <3>2. q[k].id # id
      <4> HIDE DEF k
      <4> QED BY <1>1, <2>1, <3>1 DEF WaitsApart
    <3> HIDE DEF k
    <3> QED BY <1>1, <2>8, <3>1, <3>2
  <2>9. ASSUME NEW x, NEW k \in DOMAIN q, q[k] = x, x.id # id PROVE \E i \in DOMAIN c : c[i] = x
    <3> DEFINE i == IF k < at THEN k ELSE k - 1
    <3>1. k # at
      BY <2>1, <2>9
    <3>2. i \in 1 .. n - 1 /\ c[i] = q[k]
      BY <1>1, <2>1, <2>5, <3>1
    <3> HIDE DEF i
    <3> QED BY <2>6, <2>9, <3>2
  <2> QED BY <2>4, <2>7, <2>8, <2>9 DEF c
<1>3. CASE hits = {}
  <2>1. c = q
    BY <1>3 DEF Cancelled
  <2> HIDE DEF c
  <2> QED BY <1>3, <2>1 DEF c
<1> QED BY <1>2, <1>3

-----------------------------------------------------------------------------
(* Orders and waiting jobs, when jobs are placed, removed and put in line. *)

LEMMA PlaceApart ==
    ASSUME NEW run, NEW next \in Nat, OrdersApart(run, next), NEW r, r.id \notin DOMAIN run,
           NEW slots
    PROVE  OrdersApart(Place(run, r, slots, next + 1), next + 1)
<1> DEFINE new == Place(run, r, slots, next + 1)
<1>1. /\ DOMAIN new = DOMAIN run \cup {r.id} /\ new[r.id].order = next + 1
      /\ \A j \in DOMAIN run : new[j].order = run[j].order
  BY DEF Place
<1>2. \A j \in DOMAIN run : run[j].order \in 1 .. next
  BY DEF OrdersApart
<1>3. \A i, j \in DOMAIN run : run[i].order = run[j].order => i = j
  BY DEF OrdersApart
<1> HIDE DEF new
<1>4. \A j \in DOMAIN new : new[j].order \in 1 .. next + 1
  BY <1>1, <1>2
<1>5. \A j \in DOMAIN run : new[j].order # next + 1
  BY <1>1, <1>2
<1>6. \A i, j \in DOMAIN new : new[i].order = new[j].order => i = j
  BY <1>1, <1>3, <1>5
<1> QED BY <1>4, <1>6 DEF OrdersApart, new

LEMMA WithoutApart ==
    ASSUME NEW run, NEW V, NEW next, OrdersApart(run, next)
    PROVE  OrdersApart(Without(run, V), next)
BY DEF OrdersApart, Without

\* One more at the end, and one more in front.
LEMMA AppendApart ==
    ASSUME NEW run, NEW q \in Seq(Request), WaitsApart(run, q), NEW r \in Request,
           r.id \notin DOMAIN run, \A i \in DOMAIN q : q[i].id # r.id
    PROVE  Append(q, r) \in Seq(Request) /\ WaitsApart(run, Append(q, r))
<1> DEFINE n == Len(q)
           a == Append(q, r)
<1>1. /\ n \in Nat /\ DOMAIN q = 1 .. n /\ a \in Seq(Request)
      /\ DOMAIN a = 1 .. n + 1 /\ a[n + 1] = r /\ \A i \in 1 .. n : a[i] = q[i]
  OBVIOUS
<1>2. 1 .. n + 1 = (1 .. n) \cup {n + 1}
  BY <1>1
<1> HIDE DEF n, a
<1>3. WaitsApart(run, a)
  BY <1>1, <1>2 DEF WaitsApart
<1> QED BY <1>1, <1>3 DEF a

LEMMA InFrontApart ==
    ASSUME NEW run, NEW q \in Seq(Request), WaitsApart(run, q), NEW r \in Request,
           r.id \notin DOMAIN run, \A i \in DOMAIN q : q[i].id # r.id
    PROVE  <<r>> \o q \in Seq(Request) /\ WaitsApart(run, <<r>> \o q)
<1> DEFINE n == Len(q)
           a == <<r>> \o q
<1>1. /\ n \in Nat /\ DOMAIN q = 1 .. n /\ a \in Seq(Request)
      /\ DOMAIN a = 1 .. n + 1 /\ a[1] = r /\ \A i \in 2 .. n + 1 : a[i] = q[i - 1]
  OBVIOUS
<1>2. \A i \in 2 .. n + 1 : i - 1 \in 1 .. n
  BY <1>1
<1>3. 1 .. n + 1 = {1} \cup 2 .. n + 1
  BY <1>1
<1> HIDE DEF n, a
<1>4. \A i \in 2 .. n + 1 : a[i].id # r.id /\ a[i].id \notin DOMAIN run
  BY <1>1, <1>2, SMTT(30) DEF WaitsApart
<1>5. ASSUME NEW i \in 2 .. n + 1, NEW k \in 2 .. n + 1, a[i].id = a[k].id PROVE i = k
  <2>0. \A x, y \in 1 .. n : q[x].id = q[y].id => x = y
    BY <1>1 DEF WaitsApart
  <2>1. i - 1 = k - 1
    BY <1>1, <1>2, <1>5, <2>0
  <2> QED BY <1>1, <2>1
<1>6. WaitsApart(run, a)
  BY <1>1, <1>3, <1>4, <1>5 DEF WaitsApart
<1> QED BY <1>1, <1>6 DEF a

=============================================================================
