----------------------------- MODULE ShimProofs -----------------------------
(***************************************************************************)
(* CapHeld and CountExact of Shim, for any number of threads, pointers and   *)
(* places, and any limit.                                                    *)
(*                                                                          *)
(* Both follow from a balance: what is counted is what threads have reserved *)
(* and not yet allocated, and what is on the card and not about to be freed. *)
(* While a block may be lost from a full table, too much is counted, never   *)
(* too little.  That a free releases what was counted is a matter of the     *)
(* table: Mapped says that it has no block twice and none that a thread has  *)
(* in hand, and that the search for a block meets no place that was never in *)
(* use, so that what is remembered is found.                                 *)
(***************************************************************************)
EXTENDS Shim, FiniteSetTheorems, TLAPS

Phases == {"idle", "alloc", "remember", "uncap", "free"}

Types ==
    /\ limit \in Nat /\ used \in Nat
    /\ map \in [Places -> [p : Nat, n : Nat]]
    /\ DOMAIN live \subseteq Ptrs /\ IsFiniteSet(DOMAIN live) /\ live \in [DOMAIN live -> Nat]
    /\ threads \in [Threads -> [pc : Phases, p : Nat, n : Nat]]

\* What a thread has in hand is a block of the driver's that no other has in hand, and its
\* size is the one that it was given.
InHand ==
    /\ \A t \in Threads : threads[t].pc \in {"idle", "alloc"} => threads[t].p = 0
    /\ \A t \in Threads : threads[t].pc \in {"remember", "uncap", "free"} => threads[t].p \in DOMAIN live
    /\ \A t, u \in Threads : t # u /\ threads[t].p # 0 => threads[t].p # threads[u].p
    /\ \A t \in Threads : threads[t].pc = "remember" => threads[t].n = live[threads[t].p]
    /\ \A t \in Threads : threads[t].pc = "uncap" =>
          threads[t].n <= live[threads[t].p] /\ (lost \/ threads[t].n = live[threads[t].p])

\* Looking for p, one comes to place i before any that was never in use.
Reached(p, i) ==
    \E k \in Places : Probe(p, k) = i /\ \A m \in 0 .. k - 1 : map[Probe(p, m)] # Null

Mapped ==
    /\ \A i \in Places : map[i].p # 0 =>
          /\ map[i].p \in DOMAIN live /\ map[i].n = live[map[i].p]
          /\ \A t \in Threads : threads[t].p # map[i].p
          /\ Reached(map[i].p, i)
    /\ \A i, j \in Places : map[i].p # 0 /\ map[i].p = map[j].p => i = j

\* Unless the table was full, a block that nobody has in hand is in it.
Kept ==
    ~lost => \A p \in DOMAIN live : (\A t \in Threads : threads[t].p # p) => \E i \in Places : map[i].p = p

Reserving == {t \in Threads : threads[t].pc = "alloc"}
Pledged == Total([t \in Reserving |-> threads[t].n])
OnCard == Total([p \in DOMAIN live \ Freeing |-> live[p]])

Balance == ~wrapped => used >= Pledged + OnCard /\ (lost \/ used = Pledged + OnCard)

WithinLimit == limit # 0 => used <= limit

ShimInv == Types /\ InHand /\ Mapped /\ Kept /\ Balance /\ WithinLimit

-----------------------------------------------------------------------------
(* Sums. *)

\* The set that Total counts.
Units(f) == UNION {{x} \X (1 .. f[x]) : x \in DOMAIN f}

LEMMA UnitsAre ==
    ASSUME NEW f PROVE \A u : u \in Units(f) <=> \E x \in DOMAIN f : \E i \in 1 .. f[x] : u = <<x, i>>
BY DEF Units

LEMMA UnitsOf ==
    ASSUME NEW x, NEW n \in Nat
    PROVE  IsFiniteSet({x} \X (1 .. n)) /\ Cardinality({x} \X (1 .. n)) = n
<1>1. IsFiniteSet({x}) /\ Cardinality({x}) = 1
  BY FS_Singleton
<1>2. IsFiniteSet(1 .. n) /\ Cardinality(1 .. n) = n
  BY FS_Interval
<1>3. IsFiniteSet({x} \X (1 .. n)) /\ Cardinality({x} \X (1 .. n)) = Cardinality({x}) * Cardinality(1 .. n)
  BY ONLY <1>1, <1>2, FS_Product, Zenon
<1> QED BY <1>1, <1>2, <1>3

LEMMA TotalType ==
    ASSUME NEW D, IsFiniteSet(D), NEW f \in [D -> Nat]
    PROVE  IsFiniteSet(Units(f)) /\ Total(f) = Cardinality(Units(f)) /\ Total(f) \in Nat
<1> DEFINE P == {{x} \X (1 .. f[x]) : x \in D}
           g == [x \in D |-> {x} \X (1 .. f[x])]
<1>1. g \in Surjection(D, P)
  BY DEF Surjection
<1>2. IsFiniteSet(P)
  <2> HIDE DEF P, g
  <2> QED BY <1>1, FS_Surjection
<1>3. \A q \in P : IsFiniteSet(q)
  <2>1. ASSUME NEW x \in D PROVE IsFiniteSet({x} \X (1 .. f[x]))
    BY UnitsOf
  <2> QED BY <2>1
<1>4. IsFiniteSet(UNION P)
  <2> HIDE DEF P
  <2> QED BY <1>2, <1>3, FS_UNION
<1>5. Units(f) = UNION P
  BY DEF Units
<1>6. Total(f) = Cardinality(Units(f))
  BY DEF Total, Units
<1> QED BY <1>4, <1>5, <1>6, FS_CardinalityType

LEMMA TotalAdd ==
    ASSUME NEW D, IsFiniteSet(D), NEW x, x \notin D,
           NEW f \in [D -> Nat], NEW g \in [D \cup {x} -> Nat], \A y \in D : g[y] = f[y]
    PROVE  Total(g) = Total(f) + g[x]
<1> DEFINE X == {x} \X (1 .. g[x])
<1>1. Units(g) = Units(f) \cup X
  <2>1. ASSUME NEW u PROVE u \in Units(g) <=> u \in Units(f) \/ \E i \in 1 .. g[x] : u = <<x, i>>
    BY UnitsAre
  <2>2. \A u : u \in X <=> \E i \in 1 .. g[x] : u = <<x, i>>
    OBVIOUS
  <2> HIDE DEF X
  <2> QED BY <2>1, <2>2
<1>2. Units(f) \cap X = {}
  BY UnitsAre
<1>3. IsFiniteSet(X) /\ Cardinality(X) = g[x] /\ g[x] \in Nat
  BY UnitsOf
<1>4. IsFiniteSet(D \cup {x})
  BY FS_AddElement
<1>5. /\ IsFiniteSet(Units(f)) /\ Total(f) = Cardinality(Units(f)) /\ Total(f) \in Nat
      /\ Total(g) = Cardinality(Units(g))
  BY <1>4, TotalType
<1>6. Cardinality(Units(f) \cup X) = Cardinality(Units(f)) + Cardinality(X) - Cardinality(Units(f) \cap X)
  <2> HIDE DEF X
  <2> QED BY <1>3, <1>5, FS_Union, Zenon
<1>7. Cardinality(Units(f) \cap X) = 0
  BY <1>2, FS_EmptySet
<1> HIDE DEF X
<1> QED BY <1>1, <1>3, <1>5, <1>6, <1>7

LEMMA TotalEmpty == ASSUME NEW f, DOMAIN f = {} PROVE Total(f) = 0
<1>1. Units(f) = {}
  BY UnitsAre
<1> QED BY <1>1, FS_EmptySet DEF Total, Units

\* The sum of f over a part of its domain, and over one element more.
LEMMA PartAdd ==
    ASSUME NEW D, IsFiniteSet(D), NEW x, x \notin D, NEW f, NEW g,
           \A y \in D : f[y] \in Nat /\ g[y] = f[y], g[x] \in Nat
    PROVE  /\ Total([y \in D |-> f[y]]) \in Nat
           /\ Total([y \in D \cup {x} |-> g[y]]) = Total([y \in D |-> f[y]]) + g[x]
<1> DEFINE a == [y \in D |-> f[y]]
           b == [y \in D \cup {x} |-> g[y]]
<1>1. a \in [D -> Nat] /\ b \in [D \cup {x} -> Nat] /\ (\A y \in D : b[y] = a[y]) /\ b[x] = g[x]
  OBVIOUS
<1> HIDE DEF a, b
<1>2. Total(a) \in Nat /\ Total(b) = Total(a) + b[x]
  BY <1>1, TotalType, TotalAdd
<1> QED BY <1>1, <1>2 DEF a, b

-----------------------------------------------------------------------------
(* What a step does to the two sums. *)

\* What a thread that goes on leaves as it is.
OnlyThread(t) == \A u \in Threads \ {t} : threads'[u] = threads[u]

LEMMA GoFacts ==
    ASSUME Types, NEW t \in Threads, NEW pc \in Phases, NEW p \in Nat, NEW n \in Nat, Go(t, pc, p, n)
    PROVE  /\ threads'[t].pc = pc /\ threads'[t].p = p /\ threads'[t].n = n /\ OnlyThread(t)
           /\ threads' \in [Threads -> [pc : Phases, p : Nat, n : Nat]]
<1> DEFINE r == [pc |-> pc, p |-> p, n |-> n]
           R == [pc : Phases, p : Nat, n : Nat]
<1>1. r \in R /\ r.pc = pc /\ r.p = p /\ r.n = n /\ threads' = [threads EXCEPT ![t] = r] /\ threads \in [Threads -> R]
  BY DEF Go, Types
<1> HIDE DEF r, R
<1>2. threads'[t] = r /\ (\A u \in Threads \ {t} : threads'[u] = threads[u]) /\ threads' \in [Threads -> R]
  BY <1>1
<1> QED BY <1>1, <1>2 DEF R, OnlyThread

LEMMA ReservingFinite == IsFiniteSet(Reserving)
  BY ShimAssumption, FS_Subset DEF Reserving

\* A step of t changes what is pledged by what t begins or ceases to reserve.
LEMMA PledgedStep ==
    ASSUME Types, Types', NEW t \in Threads, OnlyThread(t)
    PROVE  /\ Pledged \in Nat /\ Pledged' \in Nat
           /\ t \notin Reserving /\ t \in Reserving' => Pledged' = Pledged + threads'[t].n
           /\ t \in Reserving /\ t \notin Reserving' => Pledged = Pledged' + threads[t].n
           /\ t \notin Reserving /\ t \notin Reserving' => Pledged' = Pledged
<1> DEFINE D == Reserving \ {t}
           s == Total([u \in D |-> threads[u].n])
<1>1. IsFiniteSet(Reserving) /\ IsFiniteSet(D)
  BY ReservingFinite, FS_Subset
<1>2. D = Reserving' \ {t}
  BY DEF Reserving, OnlyThread
<1>3. \A u \in Threads : threads[u].n \in Nat /\ threads'[u].n \in Nat
  BY DEF Types
<1>4. \A u \in D : threads'[u].n = threads[u].n /\ u \in Threads
  BY DEF OnlyThread, Reserving
<1> DEFINE f == [u \in Threads |-> threads[u].n]
           g == [u \in Threads |-> threads'[u].n]
<1>5. t \notin D /\ (\A u \in D : f[u] \in Nat /\ g[u] = f[u]) /\ f[t] \in Nat /\ g[t] \in Nat
  BY <1>3, <1>4
<1> HIDE DEF D
<1>6. [u \in D |-> f[u]] = [u \in D |-> threads[u].n] /\ [u \in D |-> g[u]] = [u \in D |-> threads[u].n]
  BY <1>4
<1>7. \A E \in SUBSET Threads : [u \in E |-> f[u]] = [u \in E |-> threads[u].n] /\ [u \in E |-> g[u]] = [u \in E |-> threads'[u].n]
  OBVIOUS
<1>8. D \cup {t} \in SUBSET Threads
  BY <1>4
<1>9. f[t] = threads[t].n /\ g[t] = threads'[t].n
  OBVIOUS
<1> HIDE DEF f, g
<1>10. s \in Nat /\ Total([u \in D \cup {t} |-> g[u]]) = s + g[t] /\ Total([u \in D \cup {t} |-> f[u]]) = s + f[t]
  <2>1. Total([u \in D |-> f[u]]) \in Nat /\ Total([u \in D \cup {t} |-> g[u]]) = Total([u \in D |-> f[u]]) + g[t]
    BY <1>1, <1>5, PartAdd
  <2>2. Total([u \in D \cup {t} |-> f[u]]) = Total([u \in D |-> f[u]]) + f[t]
    BY <1>1, <1>5, PartAdd
  <2> QED BY <1>6, <2>1, <2>2
<1>11. Pledged = IF t \in Reserving THEN s + threads[t].n ELSE s
  <2>1. CASE t \in Reserving
    <3>1. Reserving = D \cup {t}
      BY <2>1 DEF D
    <3> QED BY <1>7, <1>8, <1>9, <1>10, <2>1, <3>1 DEF Pledged
  <2>2. CASE t \notin Reserving
    <3>1. Reserving = D
      BY <2>2 DEF D
    <3> QED BY <2>2, <3>1 DEF Pledged
  <2> QED BY <2>1, <2>2
<1>12. Pledged' = IF t \in Reserving' THEN s + threads'[t].n ELSE s
  <2>1. Pledged' = Total([u \in Reserving' |-> threads'[u].n])
    BY DEF Pledged
  <2>2. CASE t \in Reserving'
    <3>1. Reserving' = D \cup {t}
      BY <1>2, <2>2
    <3> QED BY <1>7, <1>8, <1>9, <1>10, <2>1, <2>2, <3>1
  <2>3. CASE t \notin Reserving'
    <3>1. Reserving' = D
      BY <1>2, <2>3
    <3>2. [u \in Reserving' |-> threads'[u].n] = [u \in D |-> threads[u].n]
      BY <1>4, <3>1
    <3> QED BY <2>1, <2>3, <3>2
  <2> QED BY <2>2, <2>3
<1> HIDE DEF s
<1> QED BY <1>3, <1>10, <1>11, <1>12

Counted == DOMAIN live \ Freeing

\* A step changes what is on the card by the one block that it adds or takes away.
LEMMA OnCardStep ==
    ASSUME Types, Types', NEW p, \A q \in (Counted \cap Counted') \ {p} : live'[q] = live[q],
           Counted \ {p} = Counted' \ {p}
    PROVE  /\ OnCard \in Nat /\ OnCard' \in Nat
           /\ p \notin Counted /\ p \in Counted' => OnCard' = OnCard + live'[p]
           /\ p \in Counted /\ p \notin Counted' => OnCard = OnCard' + live[p]
           /\ p \in Counted /\ p \in Counted' /\ live'[p] = live[p] => OnCard' = OnCard
           /\ p \notin Counted /\ p \notin Counted' => OnCard' = OnCard
<1> DEFINE D == Counted \ {p}
           s == Total([q \in D |-> live[q]])
<1>1. IsFiniteSet(Counted) /\ IsFiniteSet(D)
  BY FS_Subset DEF Types, Counted
<1>2. D = Counted' \ {p} /\ p \notin D /\ (Counted = D \/ Counted = D \cup {p}) /\ (Counted' = D \/ Counted' = D \cup {p})
  OBVIOUS
<1>3. (\A q \in Counted : live[q] \in Nat) /\ \A q \in Counted' : live'[q] \in Nat
  BY DEF Types, Counted
<1>4. \A q \in D : live'[q] = live[q] /\ live[q] \in Nat
  BY <1>2, <1>3
<1> HIDE DEF D
<1>5. s \in Nat
  <2> DEFINE f == [q \in D |-> live[q]]
  <2>1. f \in [D -> Nat]
    BY <1>4
  <2> HIDE DEF f
  <2>2. Total(f) \in Nat
    BY <1>1, <2>1, TotalType
  <2> QED BY <2>2 DEF f
<1>6. p \in Counted => OnCard = s + live[p]
  <2> SUFFICES ASSUME p \in Counted PROVE OnCard = s + live[p]
    OBVIOUS
  <2>1. Counted = D \cup {p}
    BY <1>2
  <2>2. Total([q \in D \cup {p} |-> live[q]]) = s + live[p]
    BY <1>1, <1>2, <1>3, <1>4, PartAdd
  <2> QED BY <2>1, <2>2 DEF OnCard, Counted
<1>7. p \notin Counted => OnCard = s
  <2>1. p \notin Counted => Counted = D
    BY <1>2
  <2> QED BY <2>1 DEF OnCard, Counted
<1>8. OnCard' = Total([q \in Counted' |-> live'[q]])
  BY DEF OnCard, Counted
<1>9. p \in Counted' => OnCard' = s + live'[p]
  <2> SUFFICES ASSUME p \in Counted' PROVE OnCard' = s + live'[p]
    OBVIOUS
  <2>1. Counted' = D \cup {p}
    BY <1>2
  <2> DEFINE g == live'
             f == live
  <2>2. (\A q \in D : f[q] \in Nat /\ g[q] = f[q]) /\ g[p] \in Nat
    BY <1>3, <1>4
  <2> HIDE DEF f, g
  <2>3. Total([q \in D \cup {p} |-> g[q]]) = Total([q \in D |-> f[q]]) + g[p]
    BY <1>1, <1>2, <2>2, PartAdd
  <2> QED BY <1>8, <2>1, <2>3 DEF f, g
<1>10. p \notin Counted' => OnCard' = s
  <2> SUFFICES ASSUME p \notin Counted' PROVE OnCard' = s
    OBVIOUS
  <2>1. [q \in Counted' |-> live'[q]] = [q \in D |-> live[q]]
    BY <1>2, <1>4
  <2> QED BY <1>8, <2>1
<1> HIDE DEF s
<1> QED BY <1>3, <1>5, <1>6, <1>7, <1>9, <1>10

-----------------------------------------------------------------------------
(* The table. *)

LEMMA NatLeast ==
    ASSUME NEW T \in SUBSET Nat, T # {}
    PROVE  \E m \in T : \A n \in T : m <= n
<1> DEFINE R == OpToRel(<, Nat)
<1>1. IsWellFoundedOn(R, Nat)
  BY NatLessThanWellFounded
<1>2. \A m, n \in Nat : <<n, m>> \in R <=> n < m
  BY DEF OpToRel
<1> HIDE DEF R
<1>3. PICK m \in T : \A n \in T : <<n, m>> \notin R
  BY <1>1, WFMin
<1>4. \A n \in T : ~(n < m)
  BY <1>2, <1>3
<1>5. \A n \in T : m <= n
  BY <1>4
<1> QED BY <1>5

LEMMA ProbePlace == ASSUME NEW p \in Nat, NEW k \in Nat PROVE Probe(p, k) \in Places
<1>1. p + k \in Nat /\ MAP \in Nat \ {0}
  BY ShimAssumption
<1> QED BY <1>1 DEF Probe, Places

\* The search stops at the first place in S, if it meets one.
LEMMA FirstProbeIs ==
    ASSUME NEW p \in Nat, NEW S
    PROVE  /\ FirstProbe(p, S) \in 0 .. MAP
           /\ FirstProbe(p, S) # MAP => FirstProbe(p, S) \in Places /\ Probe(p, FirstProbe(p, S)) \in S
           /\ \A m \in Places : m < FirstProbe(p, S) => Probe(p, m) \notin S
<1> DEFINE T == {k \in 0 .. MAP - 1 : Probe(p, k) \in S} \cup {MAP}
<1>1. T \in SUBSET Nat /\ T # {} /\ MAP \in Nat \ {0}
  BY ShimAssumption
<1>2. Min(T) \in T /\ \A n \in T : Min(T) <= n
  <2>1. PICK m \in T : \A n \in T : m <= n
    <3> HIDE DEF T
    <3> QED BY <1>1, NatLeast
  <2> HIDE DEF T
  <2> QED BY <2>1 DEF Min
<1>3. FirstProbe(p, S) = Min(T)
  BY DEF FirstProbe
<1> DEFINE k == Min(T)
<1> HIDE DEF k
<1>4. k \in T /\ \A n \in T : k <= n
  BY <1>2 DEF k
<1>5. FirstProbe(p, S) = k
  BY <1>3 DEF k
<1>6. k \in 0 .. MAP /\ (k # MAP => k \in Places /\ Probe(p, k) \in S)
  BY <1>1, <1>4 DEF Places
<1>7. ASSUME NEW m \in Places, m < k PROVE Probe(p, m) \notin S
  <2>1. m \in Nat /\ k \in Nat /\ m \in 0 .. MAP - 1
    BY <1>1, <1>6 DEF Places
  <2>2. Probe(p, m) \in S => m \in T
    BY <2>1
  <2> QED BY <1>4, <1>7, <2>1, <2>2
<1> QED BY <1>5, <1>6, <1>7

-----------------------------------------------------------------------------
(* The steps. *)

LEMMA ReachedKept ==
    ASSUME NEW p \in Nat, NEW i \in Places, Reached(p, i), \A j \in Places : map[j] # Null => map'[j] # Null
    PROVE  Reached(p, i)'
<1>1. PICK k \in Places : Probe(p, k) = i /\ \A m \in 0 .. k - 1 : map[Probe(p, m)] # Null
  BY DEF Reached
<1>2. k \in Nat
  BY ShimAssumption DEF Places
<1>3. ASSUME NEW m \in 0 .. k - 1 PROVE map'[Probe(p, m)] # Null
  <2>1. m \in Nat
    BY <1>2
  <2>2. Probe(p, m) \in Places
    BY <2>1, ProbePlace
  <2> QED BY <1>1, <2>2
<1> QED BY <1>1, <1>3 DEF Reached, Probe, Places, Null

\* A step that leaves the table, the driver's blocks and what is in hand.
LEMMA TableKept ==
    ASSUME Types, Mapped, Kept, UNCHANGED <<map, live, lost>>, \A t \in Threads : threads'[t].p = threads[t].p
    PROVE  Mapped' /\ Kept'
<1>1. \A i \in Places : map[i].p \in Nat
  BY DEF Types
<1>2. ASSUME NEW i \in Places, map[i].p # 0 PROVE Reached(map[i].p, i)'
  <2>1. PICK p \in Nat : p = map[i].p
    BY <1>1
  <2>2. Reached(p, i)
    BY <1>2, <2>1 DEF Mapped
  <2>3. Reached(p, i)'
    BY <2>2, ReachedKept
  <2> QED BY <2>1, <2>3
<1>3. Mapped'
  BY <1>2 DEF Mapped
<1>4. Kept'
  BY DEF Kept
<1> QED BY <1>3, <1>4

\* The blocks that are about to be freed.
LEMMA FreeingIs == \A p : p \in Freeing <=> \E u \in Threads : threads[u].pc = "free" /\ threads[u].p = p
  BY DEF Freeing

LEMMA InitShim == Init => ShimInv
<1> SUFFICES ASSUME Init PROVE ShimInv
  OBVIOUS
<1>0. Limits \subseteq Nat /\ MAP \in Nat \ {0} /\ Word \in Nat \ {0}
  BY ShimAssumption
<1>1. DOMAIN live = {} /\ \A t \in Threads : threads[t].pc = "idle" /\ threads[t].p = 0 /\ threads[t].n = 0
  BY DEF Init, Idle
<1>2. \A i \in Places : map[i].p = 0 /\ map[i].n = 0
  BY DEF Init, Null
<1>3. Types
  <2>1. limit \in Nat /\ used \in Nat
    BY <1>0 DEF Init
  <2>2. map \in [Places -> [p : Nat, n : Nat]]
    BY DEF Init, Null
  <2>3. IsFiniteSet(DOMAIN live) /\ DOMAIN live \subseteq Ptrs /\ live \in [DOMAIN live -> Nat]
    BY <1>1, FS_EmptySet DEF Init
  <2>4. threads \in [Threads -> [pc : Phases, p : Nat, n : Nat]]
    BY DEF Init, Idle, Phases
  <2> QED BY <2>1, <2>2, <2>3, <2>4 DEF Types
<1>4. InHand /\ Mapped /\ Kept
  BY <1>1, <1>2 DEF InHand, Mapped, Kept
<1>5. Reserving = {} /\ Freeing = {}
  BY <1>1, FreeingIs DEF Reserving
<1>6. Pledged = 0 /\ OnCard = 0
  <2>1. DOMAIN [t \in Reserving |-> threads[t].n] = {} /\ DOMAIN [p \in DOMAIN live \ Freeing |-> live[p]] = {}
    BY <1>1, <1>5
  <2> QED BY <2>1, TotalEmpty DEF Pledged, OnCard
<1>7. Balance /\ WithinLimit
  BY <1>0, <1>6 DEF Init, Balance, WithinLimit
<1> QED BY <1>3, <1>4, <1>7 DEF ShimInv

\* A step in which the blocks that count stay the same.
LEMMA OnCardSame ==
    ASSUME Types, Types', Counted' = Counted, \A q \in Counted : live'[q] = live[q]
    PROVE  OnCard \in Nat /\ OnCard' = OnCard
<1>1. PICK p : p \notin Counted
  <2>1. DOMAIN live \subseteq Nat \ {0}
    BY ShimAssumption DEF Types
  <2> QED BY <2>1 DEF Counted
<1> QED BY <1>1, OnCardStep

LEMMA ReserveInv == ASSUME ShimInv, NEW t \in Threads, NEW size \in Sizes, Reserve(t, size) PROVE ShimInv'
<1>1. size \in Nat /\ Word \in Nat \ {0} /\ size < Word
  BY ShimAssumption
<1>2. Types /\ used \in Nat /\ threads[t].pc = "idle" /\ threads[t].p = 0
  BY DEF ShimInv, Types, Reserve, InHand
<1>3. /\ used' = (used + size) % Word /\ wrapped' = (wrapped \/ used + size >= Word) /\ Allowed(size)
      /\ Go(t, "alloc", 0, size) /\ UNCHANGED <<limit, map, live, lost>>
  BY DEF Reserve
<1>4. /\ threads'[t].pc = "alloc" /\ threads'[t].p = 0 /\ threads'[t].n = size /\ OnlyThread(t)
      /\ threads' \in [Threads -> [pc : Phases, p : Nat, n : Nat]]
  <2>1. "alloc" \in Phases /\ 0 \in Nat /\ size \in Nat /\ Types /\ Go(t, "alloc", 0, size)
    BY <1>1, <1>2, <1>3 DEF Phases
  <2> QED BY <2>1, GoFacts
<1>5. used' \in Nat /\ (used + size < Word => used' = used + size)
  <2>1. PICK c \in Nat : c = used + size /\ used' = c % Word
    <3>1. used + size \in Nat /\ used' = (used + size) % Word
      BY <1>1, <1>2, <1>3
    <3> QED BY <3>1
  <2>2. c % Word \in Nat /\ (c < Word => c % Word = c)
    BY <1>1
  <2> QED BY <2>1, <2>2
<1>6. Types'
  BY <1>2, <1>3, <1>4, <1>5 DEF Types
<1>7. InHand'
  BY <1>3, <1>4 DEF ShimInv, InHand, OnlyThread
<1>8. Mapped' /\ Kept'
  <2>1. \A u \in Threads : threads'[u].p = threads[u].p
    BY <1>2, <1>4 DEF OnlyThread
  <2> QED BY <1>2, <1>3, <2>1, TableKept DEF ShimInv
<1>9. Pledged \in Nat /\ Pledged' = Pledged + size
  <2>1. t \notin Reserving /\ t \in Reserving'
    BY <1>2, <1>4 DEF Reserving
  <2> QED BY <1>2, <1>4, <1>6, <2>1, PledgedStep
<1>10. OnCard \in Nat /\ OnCard' = OnCard
  <2>1. Freeing' = Freeing
    BY <1>2, <1>4 DEF Freeing, OnlyThread
  <2> QED BY <1>2, <1>3, <1>6, <2>1, OnCardSame DEF Counted
<1>11. Balance'
  <2>1. ASSUME ~wrapped' PROVE used' = used + size /\ ~wrapped
    <3>1. ~wrapped /\ ~(used + size >= Word)
      BY <1>3, <2>1, Zenon
    <3>2. used + size < Word
      BY <1>1, <1>2, <3>1
    <3> QED BY <1>5, <3>1, <3>2
  <2> QED BY <1>1, <1>2, <1>3, <1>9, <1>10, <2>1 DEF ShimInv, Balance
<1>12. WithinLimit'
  BY <1>3 DEF Allowed, WithinLimit
<1> QED BY <1>6, <1>7, <1>8, <1>11, <1>12 DEF ShimInv

LEMMA AllocFailsInv == ASSUME ShimInv, NEW t \in Threads, AllocFails(t) PROVE ShimInv'
<1>1. PICK n \in Nat : n = threads[t].n
  BY DEF ShimInv, Types
<1>2. Types /\ used \in Nat /\ limit \in Nat /\ threads[t].pc = "alloc" /\ threads[t].p = 0
  BY DEF ShimInv, Types, AllocFails, InHand
<1>3. used' = Released(n) /\ Go(t, "idle", 0, 0) /\ UNCHANGED <<limit, map, live, wrapped, lost>>
  BY <1>1 DEF AllocFails
<1>4. /\ threads'[t].pc = "idle" /\ threads'[t].p = 0 /\ OnlyThread(t)
      /\ threads' \in [Threads -> [pc : Phases, p : Nat, n : Nat]]
  BY <1>2, <1>3, GoFacts DEF Phases
<1>5. used' \in Nat /\ used' <= used /\ (n <= used => used' = used - n)
  BY <1>2, <1>3 DEF Released
<1>6. Types'
  BY <1>2, <1>3, <1>4, <1>5 DEF Types
<1>7. InHand'
  BY <1>3, <1>4 DEF ShimInv, InHand, OnlyThread
<1>8. Mapped' /\ Kept'
  <2>1. \A u \in Threads : threads'[u].p = threads[u].p
    BY <1>2, <1>4 DEF OnlyThread
  <2> QED BY <1>2, <1>3, <2>1, TableKept DEF ShimInv
<1>9. Pledged \in Nat /\ Pledged' \in Nat /\ Pledged = Pledged' + n
  <2>1. t \in Reserving /\ t \notin Reserving'
    BY <1>2, <1>4 DEF Reserving
  <2> QED BY <1>1, <1>2, <1>4, <1>6, <2>1, PledgedStep
<1>10. OnCard \in Nat /\ OnCard' = OnCard
  <2>1. Freeing' = Freeing
    BY <1>2, <1>4 DEF Freeing, OnlyThread
  <2> QED BY <1>2, <1>3, <1>6, <2>1, OnCardSame DEF Counted
<1>11. Balance'
  <2> SUFFICES ASSUME ~wrapped PROVE used' >= Pledged' + OnCard' /\ (lost \/ used' = Pledged' + OnCard')
    BY <1>3 DEF Balance
  <2>1. used >= Pledged + OnCard /\ (lost \/ used = Pledged + OnCard)
    BY DEF ShimInv, Balance
  <2>2. n <= used /\ used' = used - n
    BY <1>1, <1>2, <1>5, <1>9, <1>10, <2>1
  <2> QED BY <1>1, <1>2, <1>9, <1>10, <2>1, <2>2
<1>12. WithinLimit'
  BY <1>2, <1>3, <1>5 DEF ShimInv, WithinLimit
<1> QED BY <1>6, <1>7, <1>8, <1>11, <1>12 DEF ShimInv

LEMMA AllocInv == ASSUME ShimInv, NEW t \in Threads, NEW p \in Ptrs, Alloc(t, p) PROVE ShimInv'
<1>1. PICK n \in Nat : n = threads[t].n
  BY DEF ShimInv, Types
<1>2. Types /\ threads[t].pc = "alloc" /\ threads[t].p = 0 /\ p \in Nat /\ p # 0 /\ p \notin DOMAIN live
  BY ShimAssumption DEF ShimInv, Alloc, InHand
<1>3. /\ live' = [q \in DOMAIN live \cup {p} |-> IF q = p THEN n ELSE live[q]]
      /\ Go(t, "remember", p, n) /\ UNCHANGED <<limit, used, map, wrapped, lost>>
  BY <1>1 DEF Alloc
<1>4. /\ threads'[t].pc = "remember" /\ threads'[t].p = p /\ threads'[t].n = n /\ OnlyThread(t)
      /\ threads' \in [Threads -> [pc : Phases, p : Nat, n : Nat]]
  BY <1>2, <1>3, GoFacts DEF Phases
<1>5. DOMAIN live' = DOMAIN live \cup {p} /\ live'[p] = n /\ \A q \in DOMAIN live : live'[q] = live[q]
  BY <1>2, <1>3
<1>6. Types'
  <2>1. IsFiniteSet(DOMAIN live')
    BY <1>2, <1>5, FS_AddElement DEF Types
  <2>2. live' \in [DOMAIN live' -> Nat]
    BY <1>2, <1>3 DEF Types
  <2>3. DOMAIN live' \subseteq Ptrs
    BY <1>2, <1>5 DEF Types
  <2> QED BY <1>2, <1>3, <1>4, <2>1, <2>2, <2>3 DEF Types
<1>7. \A u \in Threads : threads[u].p # p
  <2>1. \A u \in Threads : threads[u].pc \in Phases
    BY <1>2 DEF Types
  <2> QED BY <1>2, <2>1 DEF ShimInv, InHand, Phases
<1>8. InHand'
  BY <1>2, <1>3, <1>4, <1>5, <1>7 DEF ShimInv, InHand, OnlyThread
<1>9. Mapped'
  <2>1. \A i \in Places : map[i].p \in Nat
    BY <1>2 DEF Types
  <2>2. ASSUME NEW i \in Places, map[i].p # 0
        PROVE  /\ map[i].p \in DOMAIN live' /\ map[i].n = live'[map[i].p]
               /\ \A u \in Threads : threads'[u].p # map[i].p
    BY <1>2, <1>4, <1>5, <2>2 DEF ShimInv, Mapped, OnlyThread
  <2>3. ASSUME NEW i \in Places, map[i].p # 0 PROVE Reached(map[i].p, i)'
    <3>1. PICK q \in Nat : q = map[i].p
      BY <2>1
    <3>2. Reached(q, i)
      BY <2>3, <3>1 DEF ShimInv, Mapped
    <3>3. Reached(q, i)'
      BY <1>3, <3>2, ReachedKept
    <3> QED BY <1>3, <3>1, <3>3
  <2> QED BY <1>3, <2>2, <2>3 DEF ShimInv, Mapped
<1>10. Kept'
  <2>1. ASSUME ~lost, NEW q \in DOMAIN live', \A u \in Threads : threads'[u].p # q PROVE \E i \in Places : map[i].p = q
    <3>1. q # p /\ q \in DOMAIN live
      BY <1>4, <1>5, <2>1
    <3>2. q # 0
      BY <1>2, <3>1, ShimAssumption DEF Types
    <3>3. \A u \in Threads : threads[u].p # q
      BY <1>2, <1>4, <2>1, <3>2 DEF OnlyThread
    <3> QED BY <2>1, <3>1, <3>3 DEF ShimInv, Kept
  <2> QED BY <1>3, <2>1 DEF Kept
<1>11. Pledged \in Nat /\ Pledged' \in Nat /\ Pledged = Pledged' + n
  <2>1. t \in Reserving /\ t \notin Reserving'
    BY <1>2, <1>4 DEF Reserving
  <2> QED BY <1>1, <1>2, <1>4, <1>6, <2>1, PledgedStep
<1>12. OnCard \in Nat /\ OnCard' = OnCard + n
  <2>1. Freeing' = Freeing
    BY <1>2, <1>4 DEF Freeing, OnlyThread
  <2>2. p \notin Freeing
    BY <1>7, FreeingIs
  <2>3. p \notin Counted /\ p \in Counted' /\ Counted \ {p} = Counted' \ {p}
    BY <1>2, <1>5, <2>1, <2>2 DEF Counted
  <2>4. \A q \in (Counted \cap Counted') \ {p} : live'[q] = live[q]
    BY <1>5 DEF Counted
  <2> QED BY <1>2, <1>5, <1>6, <2>3, <2>4, OnCardStep
<1>13. Balance'
  BY <1>1, <1>2, <1>3, <1>11, <1>12 DEF ShimInv, Balance, Types
<1>14. WithinLimit'
  BY <1>3 DEF ShimInv, WithinLimit
<1> QED BY <1>6, <1>8, <1>9, <1>10, <1>13, <1>14 DEF ShimInv

LEMMA RememberInv == ASSUME ShimInv, NEW t \in Threads, Remember(t) PROVE ShimInv'
<1>1. PICK p, n, k : p = threads[t].p /\ n = threads[t].n /\ k = FirstProbe(p, {i \in Places : map[i].p = 0})
  OBVIOUS
<1>2. /\ Types /\ threads[t].pc = "remember" /\ p \in Nat /\ n \in Nat /\ p # 0
      /\ p \in DOMAIN live /\ n = live[p] /\ \A u \in Threads \ {t} : threads[u].p # p
  <2>1. Types /\ threads[t].pc = "remember" /\ p \in Nat /\ n \in Nat
    BY <1>1 DEF ShimInv, Types, Remember
  <2>2. p \in DOMAIN live /\ n = live[p]
    BY <1>1, <2>1 DEF ShimInv, InHand
  <2>3. p # 0
    BY <2>1, <2>2, ShimAssumption DEF Types
  <2>4. \A u \in Threads \ {t} : threads[u].p # p
    BY <1>1, <2>3 DEF ShimInv, InHand
  <2> QED BY <2>1, <2>2, <2>3, <2>4
<1>3. /\ map' = (IF k = MAP THEN map ELSE [map EXCEPT ![Probe(p, k)] = [p |-> p, n |-> n]])
      /\ lost' = (lost \/ k = MAP) /\ Go(t, "idle", 0, 0) /\ UNCHANGED <<limit, used, live, wrapped>>
  BY <1>1 DEF Remember
<1>4. /\ threads'[t].pc = "idle" /\ threads'[t].p = 0 /\ OnlyThread(t)
      /\ threads' \in [Threads -> [pc : Phases, p : Nat, n : Nat]]
  BY <1>2, <1>3, GoFacts DEF Phases
<1>5. /\ k # MAP => k \in Places /\ Probe(p, k) \in Places /\ map[Probe(p, k)].p = 0
      /\ \A m \in Places : m < k /\ Probe(p, m) \in Places => map[Probe(p, m)].p # 0
  BY <1>1, <1>2, FirstProbeIs
<1>6. \/ k = MAP /\ map' = map
      \/ /\ k # MAP
         /\ map'[Probe(p, k)].p = p /\ map'[Probe(p, k)].n = n
         /\ \A i \in Places \ {Probe(p, k)} : map'[i] = map[i]
         /\ map' \in [Places -> [p : Nat, n : Nat]]
  <2> DEFINE r == [p |-> p, n |-> n]
             R == [p : Nat, n : Nat]
             x == Probe(p, k)
  <2>1. r \in R /\ r.p = p /\ r.n = n /\ map \in [Places -> R]
    BY <1>2 DEF Types
  <2>2. CASE k # MAP
    <3>1. x \in Places /\ map' = [map EXCEPT ![x] = r]
      BY <1>3, <1>5, <2>2
    <3> HIDE DEF r, R, x
    <3>2. map'[x] = r /\ (\A i \in Places \ {x} : map'[i] = map[i]) /\ map' \in [Places -> R]
      BY <2>1, <3>1
    <3> QED BY <2>1, <2>2, <3>2 DEF x, R
  <2> QED BY <1>3, <2>2
<1>7. Types'
  BY <1>2, <1>3, <1>4, <1>6 DEF Types
<1>8. InHand'
  <2>1. lost => lost'
    BY <1>3
  <2> QED BY <1>3, <1>4, <2>1 DEF ShimInv, InHand, OnlyThread
<1>9. \A i \in Places : map[i].p # p
  BY <1>1, <1>2 DEF ShimInv, Mapped
<1>10. ASSUME NEW i \in Places
       PROVE  /\ map[i].p # 0 => map'[i] = map[i]
              /\ map[i] # Null => map'[i] # Null
              /\ map'[i].p # 0 => map'[i] = map[i] \/ (map'[i].p = p /\ map'[i].n = n /\ k # MAP /\ i = Probe(p, k))
  BY <1>2, <1>5, <1>6 DEF Null
<1>11. ASSUME k # MAP PROVE Reached(p, Probe(p, k))'
  <2>1. k \in Places /\ k \in Nat
    BY <1>5, <1>11, ShimAssumption DEF Places
  <2>2. ASSUME NEW m \in 0 .. k - 1 PROVE map'[Probe(p, m)] # Null
    <3>1. m \in Places /\ m < k /\ m \in Nat
      BY <2>1, ShimAssumption DEF Places
    <3>2. Probe(p, m) \in Places
      BY <1>2, <3>1, ProbePlace
    <3>3. map[Probe(p, m)] # Null
      BY <1>5, <3>1, <3>2 DEF Null
    <3> QED BY <1>10, <3>2, <3>3
  <2> QED BY <2>1, <2>2 DEF Reached, Probe, Places, Null
<1>12. Mapped'
  <2>1. ASSUME NEW i \in Places, map'[i].p # 0
        PROVE  /\ map'[i].p \in DOMAIN live /\ map'[i].n = live[map'[i].p]
               /\ \A u \in Threads : threads'[u].p # map'[i].p
    BY <1>2, <1>4, <1>10, <2>1 DEF ShimInv, Mapped, OnlyThread
  <2>2. ASSUME NEW i \in Places, map'[i].p # 0 PROVE Reached(map[i].p, i)'
    <3>1. CASE map'[i] = map[i]
      <4>1. PICK q \in Nat : q = map[i].p
        BY <1>2 DEF Types
      <4>2. Reached(q, i)
        BY <2>2, <3>1, <4>1 DEF ShimInv, Mapped
      <4>3. Reached(q, i)'
        BY <1>10, <4>2, ReachedKept
      <4> QED BY <3>1, <4>1, <4>3
    <3>2. CASE map'[i].p = p /\ k # MAP /\ i = Probe(p, k)
      BY <1>11, <3>2
    <3> QED BY <1>10, <2>2, <3>1, <3>2
  <2>3. ASSUME NEW i \in Places, NEW j \in Places, map'[i].p # 0, map'[i].p = map'[j].p PROVE i = j
    BY <1>9, <1>10, <2>3 DEF ShimInv, Mapped
  <2> QED BY <1>3, <2>1, <2>2, <2>3 DEF Mapped
<1>13. Kept'
  <2> SUFFICES ASSUME ~lost', NEW q \in DOMAIN live, \A u \in Threads : threads'[u].p # q
               PROVE  \E i \in Places : map'[i].p = q
    BY <1>3 DEF Kept
  <2>1. ~lost /\ k # MAP
    BY <1>3
  <2>2. CASE q = p
    BY <1>5, <1>6, <2>1, <2>2
  <2>3. CASE q # p
    <3>1. \A u \in Threads : threads[u].p # q
      BY <1>1, <1>4, <2>3 DEF OnlyThread
    <3>2. PICK i \in Places : map[i].p = q
      BY <2>1, <3>1 DEF ShimInv, Kept
    <3>3. q # 0
      BY <1>2, ShimAssumption DEF Types
    <3> QED BY <1>10, <3>2, <3>3
  <2> QED BY <2>2, <2>3
<1>14. Pledged' = Pledged /\ OnCard' = OnCard
  <2>1. t \notin Reserving /\ t \notin Reserving'
    BY <1>2, <1>4 DEF Reserving
  <2>2. Freeing' = Freeing
    BY <1>2, <1>4 DEF Freeing, OnlyThread
  <2>3. Pledged' = Pledged
    BY <1>2, <1>4, <1>7, <2>1, PledgedStep
  <2>4. OnCard' = OnCard
    BY <1>2, <1>3, <1>7, <2>2, OnCardSame DEF Counted
  <2> QED BY <2>3, <2>4
<1>15. Balance' /\ WithinLimit'
  <2>1. lost => lost'
    BY <1>3
  <2> QED BY <1>3, <1>14, <2>1 DEF ShimInv, Balance, WithinLimit
<1> QED BY <1>7, <1>8, <1>12, <1>13, <1>15 DEF ShimInv

\* A block that is remembered is found, wherever it is.
LEMMA FoundWhereItIs ==
    ASSUME ShimInv, NEW p \in Nat, p # 0, NEW i \in Places, map[i].p = p, NEW k,
           k = FirstProbe(p, {j \in Places : map[j].p = p \/ map[j] = Null})
    PROVE  k < MAP /\ map[Probe(p, k)].p = p /\ Probe(p, k) = i
<1>1. PICK j \in Places : Probe(p, j) = i /\ \A m \in 0 .. j - 1 : map[Probe(p, m)] # Null
  BY DEF ShimInv, Mapped, Reached
<1>2. MAP \in Nat \ {0} /\ j \in Nat /\ j < MAP
  BY ShimAssumption DEF Places
<1>3. k \in 0 .. MAP /\ (k # MAP => Probe(p, k) \in Places /\ (map[Probe(p, k)].p = p \/ map[Probe(p, k)] = Null))
  BY FirstProbeIs
<1>4. k <= j
  <2>1. j < k => Probe(p, j) \notin {x \in Places : map[x].p = p \/ map[x] = Null}
    BY FirstProbeIs
  <2> QED BY <1>1, <1>2, <1>3, <2>1
<1>5. k < MAP /\ k # MAP /\ k \in Nat
  BY <1>2, <1>3, <1>4
<1>6. map[Probe(p, k)].p = p
  <2>1. CASE k = j
    BY <1>1, <2>1
  <2>2. CASE k # j
    <3>1. k \in 0 .. j - 1
      BY <1>2, <1>4, <1>5, <2>2
    <3> QED BY <1>1, <1>3, <1>5, <3>1
  <2> QED BY <2>1, <2>2
<1>7. Probe(p, k) = i
  BY <1>3, <1>5, <1>6 DEF ShimInv, Mapped
<1> QED BY <1>5, <1>6, <1>7

LEMMA ForgetInv == ASSUME ShimInv, NEW t \in Threads, NEW p \in Ptrs, Forget(t, p) PROVE ShimInv'
<1>0. PICK k : k = FirstProbe(p, {i \in Places : map[i].p = p \/ map[i] = Null})
  OBVIOUS
<1> DEFINE found == k < MAP /\ map[Probe(p, k)].p = p
<1>1. PICK n : n = IF found THEN map[Probe(p, k)].n ELSE 0
  OBVIOUS
<1>2. /\ Types /\ threads[t].pc = "idle" /\ p \in DOMAIN live /\ (\A u \in Threads : threads[u].p # p)
      /\ p \in Nat /\ p # 0 /\ threads[t].p = 0
  BY ShimAssumption DEF ShimInv, Forget, InHand
<1>3. /\ map' = (IF found THEN [map EXCEPT ![Probe(p, k)] = Cleared] ELSE map)
      /\ Go(t, "uncap", p, n) /\ UNCHANGED <<limit, used, live, wrapped, lost>>
  BY <1>0, <1>1 DEF Forget
<1>4. k \in 0 .. MAP /\ (k # MAP => Probe(p, k) \in Places) /\ MAP \in Nat
  BY <1>0, <1>2, FirstProbeIs, ShimAssumption
<1>5. found => Probe(p, k) \in Places /\ n = live[p]
  <2> SUFFICES ASSUME found PROVE Probe(p, k) \in Places /\ n = live[p]
    OBVIOUS
  <2>1. Probe(p, k) \in Places
    BY <1>4
  <2> QED BY <1>1, <1>2, <2>1 DEF ShimInv, Mapped
<1>6. \A i \in Places : map[i].p = p => found /\ i = Probe(p, k)
  BY <1>0, <1>2, FoundWhereItIs
<1>7. live[p] \in Nat
  BY <1>2 DEF Types
<1>8. n \in Nat /\ n <= live[p] /\ (lost \/ n = live[p])
  <2>1. ASSUME ~lost PROVE found
    <3>1. PICK i \in Places : map[i].p = p
      BY <1>2, <2>1 DEF ShimInv, Kept
    <3> QED BY <1>6, <3>1
  <2>2. ~found => n = 0
    BY <1>1
  <2> HIDE DEF found
  <2> QED BY <1>5, <1>7, <2>1, <2>2
<1> HIDE DEF found
<1>9. /\ threads'[t].pc = "uncap" /\ threads'[t].p = p /\ threads'[t].n = n /\ OnlyThread(t)
      /\ threads' \in [Threads -> [pc : Phases, p : Nat, n : Nat]]
  BY <1>2, <1>3, <1>8, GoFacts DEF Phases
<1>10. /\ map' \in [Places -> [p : Nat, n : Nat]]
       /\ \A i \in Places : map'[i] = map[i] \/ map'[i] = Tomb
       /\ \A i \in Places : map[i].p # p => map'[i] = map[i]
       /\ \A i \in Places : map'[i].p # p
  <2>1. Tomb \in [p : Nat, n : Nat] /\ Tomb.p = 0 /\ Cleared = Tomb
    BY DEF Tomb, Cleared
  <2>2. map \in [Places -> [p : Nat, n : Nat]]
    BY <1>2 DEF Types
  <2>3. CASE ~found
    BY <1>3, <1>6, <2>2, <2>3
  <2>4. CASE found
    <3> DEFINE x == Probe(p, k)
    <3>1. x \in Places /\ map' = [map EXCEPT ![x] = Tomb] /\ map[x].p = p
      BY <1>3, <1>5, <2>1, <2>4 DEF found
    <3>2. \A i \in Places : map[i].p = p => i = x
      BY <1>6
    <3> HIDE DEF x
    <3> QED BY <1>2, <2>1, <2>2, <3>1, <3>2
  <2> QED BY <2>3, <2>4
<1>11. Types'
  BY <1>2, <1>3, <1>9, <1>10 DEF Types
<1>12. InHand'
  <2>1. \A u, v \in Threads : u # v /\ threads'[u].p # 0 => threads'[u].p # threads'[v].p
    BY <1>2, <1>9 DEF ShimInv, InHand, OnlyThread
  <2> QED BY <1>2, <1>3, <1>8, <1>9, <2>1 DEF ShimInv, InHand, OnlyThread
<1>13. Tomb # Null /\ Tomb.p = 0
  BY DEF Tomb, Null
<1>14. Mapped'
  <2>1. ASSUME NEW i \in Places, map'[i].p # 0
        PROVE  /\ map'[i] = map[i] /\ map'[i].p \in DOMAIN live /\ map'[i].n = live[map'[i].p]
               /\ \A u \in Threads : threads'[u].p # map'[i].p
    <3>1. map'[i] = map[i] /\ map[i].p # 0 /\ map[i].p # p
      BY <1>10, <1>13, <2>1
    <3> QED BY <1>9, <3>1 DEF ShimInv, Mapped, OnlyThread
  <2>2. ASSUME NEW i \in Places, map'[i].p # 0 PROVE Reached(map[i].p, i)'
    <3>1. PICK q \in Nat : q = map[i].p
      BY <1>2 DEF Types
    <3>2. Reached(q, i)
      BY <2>1, <2>2, <3>1 DEF ShimInv, Mapped
    <3>3. Reached(q, i)'
      BY <1>10, <1>13, <3>2, ReachedKept
    <3> QED BY <2>1, <2>2, <3>1, <3>3
  <2>3. ASSUME NEW i \in Places, NEW j \in Places, map'[i].p # 0, map'[i].p = map'[j].p PROVE i = j
    <3>1. map'[i] = map[i] /\ map'[j] = map[j]
      BY <2>1, <2>3
    <3> QED BY <2>3, <3>1 DEF ShimInv, Mapped
  <2> QED BY <1>3, <2>1, <2>2, <2>3 DEF Mapped
<1>15. Kept'
  <2> SUFFICES ASSUME ~lost, NEW q \in DOMAIN live, \A u \in Threads : threads'[u].p # q
               PROVE  \E i \in Places : map'[i].p = q
    BY <1>3 DEF Kept
  <2>1. q # p /\ q # 0
    BY <1>2, <1>9, ShimAssumption DEF Types
  <2>2. \A u \in Threads : threads[u].p # q
    BY <1>2, <1>9, <2>1 DEF OnlyThread
  <2>3. PICK i \in Places : map[i].p = q
    BY <2>2 DEF ShimInv, Kept
  <2> QED BY <1>10, <2>1, <2>3
<1>16. Pledged' = Pledged /\ OnCard' = OnCard
  <2>1. t \notin Reserving /\ t \notin Reserving'
    BY <1>2, <1>9 DEF Reserving
  <2>2. Freeing' = Freeing
    BY <1>2, <1>9 DEF Freeing, OnlyThread
  <2>3. Pledged' = Pledged
    BY <1>2, <1>9, <1>11, <2>1, PledgedStep
  <2>4. OnCard' = OnCard
    BY <1>2, <1>3, <1>11, <2>2, OnCardSame DEF Counted
  <2> QED BY <2>3, <2>4
<1>17. Balance' /\ WithinLimit'
  BY <1>3, <1>16 DEF ShimInv, Balance, WithinLimit
<1> QED BY <1>11, <1>12, <1>14, <1>15, <1>17 DEF ShimInv

LEMMA UncapInv == ASSUME ShimInv, NEW t \in Threads, Uncap(t) PROVE ShimInv'
<1>1. PICK p, n : p = threads[t].p /\ n = threads[t].n
  OBVIOUS
<1>2. /\ Types /\ used \in Nat /\ limit \in Nat /\ threads[t].pc = "uncap" /\ p \in Nat /\ n \in Nat
      /\ p \in DOMAIN live /\ n <= live[p] /\ (lost \/ n = live[p]) /\ live[p] \in Nat
  <2>1. Types /\ used \in Nat /\ limit \in Nat /\ threads[t].pc = "uncap" /\ p \in Nat /\ n \in Nat
    BY <1>1 DEF ShimInv, Types, Uncap
  <2>2. p \in DOMAIN live /\ n <= live[p] /\ (lost \/ n = live[p])
    BY <1>1, <2>1 DEF ShimInv, InHand
  <2> QED BY <2>1, <2>2 DEF Types
<1>3. used' = Released(n) /\ Go(t, "free", p, 0) /\ UNCHANGED <<limit, map, live, wrapped, lost>>
  BY <1>1 DEF Uncap
<1>4. /\ threads'[t].pc = "free" /\ threads'[t].p = p /\ OnlyThread(t)
      /\ threads' \in [Threads -> [pc : Phases, p : Nat, n : Nat]]
  BY <1>2, <1>3, GoFacts DEF Phases
<1>5. used' \in Nat /\ used' <= used /\ (n <= used => used' = used - n)
  BY <1>2, <1>3 DEF Released
<1>6. Types'
  BY <1>2, <1>3, <1>4, <1>5 DEF Types
<1>7. \A u \in Threads : threads'[u].p = threads[u].p
  BY <1>1, <1>4 DEF OnlyThread
<1>8. InHand'
  BY <1>2, <1>3, <1>4, <1>7 DEF ShimInv, InHand, OnlyThread
<1>9. Mapped' /\ Kept'
  BY <1>2, <1>3, <1>7, TableKept DEF ShimInv
<1>10. Pledged \in Nat /\ Pledged' = Pledged
  <2>1. t \notin Reserving /\ t \notin Reserving'
    BY <1>2, <1>4 DEF Reserving
  <2> QED BY <1>2, <1>4, <1>6, <2>1, PledgedStep
<1>11. OnCard \in Nat /\ OnCard' \in Nat /\ OnCard = OnCard' + live[p]
  <2>1. \A q : q \in Freeing' <=> q \in Freeing \/ q = p
    BY <1>1, <1>2, <1>4 DEF Freeing, OnlyThread
  <2>2. p # 0
    BY <1>2, ShimAssumption DEF Types
  <2>3. p \notin Freeing
    BY <1>1, <1>2, <2>2, FreeingIs DEF ShimInv, InHand
  <2>4. p \in Counted /\ p \notin Counted' /\ Counted \ {p} = Counted' \ {p}
    BY <1>2, <1>3, <2>1, <2>3 DEF Counted
  <2>5. \A q \in (Counted \cap Counted') \ {p} : live'[q] = live[q]
    BY <1>3
  <2> QED BY <1>2, <1>6, <2>4, <2>5, OnCardStep
<1>12. Balance'
  <2> SUFFICES ASSUME ~wrapped PROVE used' >= Pledged' + OnCard' /\ (lost \/ used' = Pledged' + OnCard')
    BY <1>3 DEF Balance
  <2>1. used >= Pledged + OnCard /\ (lost \/ used = Pledged + OnCard)
    BY DEF ShimInv, Balance
  <2>2. n <= used /\ used' = used - n
    BY <1>2, <1>5, <1>10, <1>11, <2>1
  <2> QED BY <1>2, <1>10, <1>11, <2>1, <2>2
<1>13. WithinLimit'
  BY <1>2, <1>3, <1>5 DEF ShimInv, WithinLimit
<1> QED BY <1>6, <1>8, <1>9, <1>12, <1>13 DEF ShimInv

LEMMA FreeInv == ASSUME ShimInv, NEW t \in Threads, Free(t) PROVE ShimInv'
<1>1. PICK p : p = threads[t].p
  OBVIOUS
<1>2. /\ Types /\ threads[t].pc = "free" /\ p \in DOMAIN live /\ p # 0
      /\ \A u \in Threads \ {t} : threads[u].p # p
  <2>1. Types /\ threads[t].pc = "free" /\ p \in DOMAIN live
    BY <1>1 DEF ShimInv, Free, InHand
  <2>2. p # 0
    BY <2>1, ShimAssumption DEF Types
  <2> QED BY <1>1, <2>1, <2>2 DEF ShimInv, InHand
<1>3. /\ live' = [q \in DOMAIN live \ {p} |-> live[q]] /\ Go(t, "idle", 0, 0)
      /\ UNCHANGED <<limit, used, map, wrapped, lost>>
  BY <1>1 DEF Free
<1>4. /\ threads'[t].pc = "idle" /\ threads'[t].p = 0 /\ OnlyThread(t)
      /\ threads' \in [Threads -> [pc : Phases, p : Nat, n : Nat]]
  BY <1>2, <1>3, GoFacts DEF Phases
<1>5. DOMAIN live' = DOMAIN live \ {p} /\ \A q \in DOMAIN live \ {p} : live'[q] = live[q]
  BY <1>3
<1>6. Types'
  <2>1. IsFiniteSet(DOMAIN live')
    BY <1>2, <1>5, FS_Subset DEF Types
  <2>2. live' \in [DOMAIN live' -> Nat]
    BY <1>2, <1>3 DEF Types
  <2>3. DOMAIN live' \subseteq Ptrs
    BY <1>2, <1>5 DEF Types
  <2> QED BY <1>2, <1>3, <1>4, <2>1, <2>2, <2>3 DEF Types
<1>7. InHand'
  <2>1. ASSUME NEW u \in Threads \ {t}
        PROVE  /\ threads'[u] = threads[u]
               /\ threads[u].p \in DOMAIN live => /\ threads[u].p \in DOMAIN live'
                                                /\ live'[threads[u].p] = live[threads[u].p]
    BY <1>2, <1>4, <1>5 DEF OnlyThread
  <2>2. \A u, v \in Threads : u # v /\ threads'[u].p # 0 => threads'[u].p # threads'[v].p
    BY <1>4, <2>1 DEF ShimInv, InHand
  <2>3. ASSUME NEW u \in Threads
        PROVE  /\ threads'[u].pc \in {"idle", "alloc"} => threads'[u].p = 0
               /\ threads'[u].pc \in {"remember", "uncap", "free"} => threads'[u].p \in DOMAIN live'
    BY <1>4, <2>1 DEF ShimInv, InHand
  <2>4. ASSUME NEW u \in Threads
        PROVE  /\ threads'[u].pc = "remember" => threads'[u].n = live'[threads'[u].p]
               /\ threads'[u].pc = "uncap" => /\ threads'[u].n <= live'[threads'[u].p]
                                              /\ (lost' \/ threads'[u].n = live'[threads'[u].p])
    <3>1. CASE u = t
      BY <1>4, <3>1
    <3>2. CASE u # t
      BY <1>3, <2>1, <3>2 DEF ShimInv, InHand
    <3> QED BY <3>1, <3>2
  <2> QED BY <2>2, <2>3, <2>4 DEF InHand
<1>8. Mapped'
  <2>1. ASSUME NEW i \in Places, map[i].p # 0
        PROVE  /\ map[i].p \in DOMAIN live' /\ map[i].n = live'[map[i].p]
               /\ \A u \in Threads : threads'[u].p # map[i].p
    BY <1>1, <1>4, <1>5, <2>1 DEF ShimInv, Mapped, OnlyThread
  <2>2. ASSUME NEW i \in Places, map[i].p # 0 PROVE Reached(map[i].p, i)'
    <3>1. PICK q \in Nat : q = map[i].p
      BY <1>2 DEF Types
    <3>2. Reached(q, i)
      BY <2>2, <3>1 DEF ShimInv, Mapped
    <3>3. Reached(q, i)'
      BY <1>3, <3>2, ReachedKept
    <3> QED BY <1>3, <3>1, <3>3
  <2> QED BY <1>3, <2>1, <2>2 DEF ShimInv, Mapped
<1>9. Kept'
  <2> SUFFICES ASSUME ~lost, NEW q \in DOMAIN live', \A u \in Threads : threads'[u].p # q
               PROVE  \E i \in Places : map[i].p = q
    BY <1>3 DEF Kept
  <2>1. q \in DOMAIN live /\ q # p
    BY <1>5
  <2>2. \A u \in Threads : threads[u].p # q
    BY <1>1, <1>4, <2>1 DEF OnlyThread
  <2> QED BY <2>1, <2>2 DEF ShimInv, Kept
<1>10. Pledged' = Pledged
  <2>1. t \notin Reserving /\ t \notin Reserving'
    BY <1>2, <1>4 DEF Reserving
  <2> QED BY <1>2, <1>4, <1>6, <2>1, PledgedStep
<1>11. OnCard' = OnCard
  <2>1. p \in Freeing /\ \A q : q # p => (q \in Freeing' <=> q \in Freeing)
    BY <1>1, <1>2, <1>4 DEF Freeing, OnlyThread
  <2>2. Counted' = Counted /\ \A q \in Counted : live'[q] = live[q]
    BY <1>5, <2>1 DEF Counted
  <2> QED BY <1>2, <1>6, <2>2, OnCardSame
<1>12. Balance' /\ WithinLimit'
  BY <1>3, <1>10, <1>11 DEF ShimInv, Balance, WithinLimit
<1> QED BY <1>6, <1>7, <1>8, <1>9, <1>12 DEF ShimInv

LEMMA NextShim == ShimInv /\ [Next]_vars => ShimInv'
<1> SUFFICES ASSUME ShimInv, [Next]_vars PROVE ShimInv'
  OBVIOUS
<1>1. CASE UNCHANGED vars
  <2>1. Types' /\ InHand'
    BY <1>1 DEF vars, ShimInv, Types, InHand
  <2>2. Mapped' /\ Kept'
    BY <1>1, TableKept DEF vars, ShimInv
  <2>3. Balance' /\ WithinLimit'
    BY <1>1 DEF vars, ShimInv, Balance, WithinLimit, Pledged, OnCard, Reserving, Freeing
  <2> QED BY <2>1, <2>2, <2>3 DEF ShimInv
<1> QED BY <1>1, ReserveInv, AllocFailsInv, AllocInv, RememberInv, ForgetInv, UncapInv, FreeInv DEF Next

LEMMA ShimAlways == Spec => []ShimInv
  BY InitShim, NextShim, PTL DEF Spec

\* Whatever the threads of a job do and in whatever order, and also when blocks are lost
\* from a full table: unless a sum wrapped around, what the job has on the card, but for
\* blocks about to be freed, is within its limit ("fails an allocation that would cross the
\* cap", gmux_shim.c:6).
THEOREM CapAlwaysHeld == Spec => []CapHeld
<1>1. ShimInv => CapHeld
  <2> SUFFICES ASSUME ShimInv, limit # 0, ~wrapped PROVE OnCard <= limit
    BY DEF CapHeld, OnCard
  <2>1. Pledged \in Nat /\ OnCard \in Nat /\ limit \in Nat /\ used \in Nat
    <3>1. Types
      BY DEF ShimInv
    <3>2. IsFiniteSet(Reserving) /\ IsFiniteSet(Counted)
      BY <3>1, ReservingFinite, FS_Subset DEF Types, Counted
    <3> DEFINE f == [t \in Reserving |-> threads[t].n]
               g == [p \in Counted |-> live[p]]
    <3>3. f \in [Reserving -> Nat] /\ g \in [Counted -> Nat]
      BY <3>1 DEF Types, Reserving, Counted
    <3> HIDE DEF f, g
    <3>4. Total(f) \in Nat /\ Total(g) \in Nat
      BY <3>2, <3>3, TotalType
    <3> QED BY <3>1, <3>4 DEF f, g, Pledged, OnCard, Counted, Types
  <2>2. used >= Pledged + OnCard /\ used <= limit
    BY DEF ShimInv, Balance, WithinLimit
  <2> QED BY <2>1, <2>2
<1> QED BY <1>1, ShimAlways, PTL

\* Whenever no call is under way, what is counted is just what is on the card ("so a free
\* releases what its allocation reserved", gmux_shim.c:124), however pointers collide, are
\* reused and leave marks in the table; unless a sum wrapped or the table was full.
THEOREM CountAlwaysExact == Spec => []CountExact
<1>1. ShimInv => CountExact
  <2> SUFFICES ASSUME ShimInv, \A t \in Threads : threads[t] = Idle, ~wrapped, ~lost PROVE used = Total(live)
    BY DEF CountExact
  <2>1. Reserving = {} /\ Freeing = {}
    BY FreeingIs DEF Reserving, Idle
  <2>2. Pledged = 0
    <3>1. DOMAIN [t \in Reserving |-> threads[t].n] = {}
      BY <2>1
    <3> QED BY <3>1, TotalEmpty DEF Pledged
  <2>3. OnCard = Total(live)
    <3>1. [p \in DOMAIN live \ Freeing |-> live[p]] = live
      BY <2>1 DEF ShimInv, Types
    <3> QED BY <3>1 DEF OnCard
  <2>4. Total(live) \in Nat
    BY TotalType DEF ShimInv, Types
  <2>5. used = Pledged + OnCard
    BY DEF ShimInv, Balance
  <2> QED BY <2>2, <2>3, <2>4, <2>5
<1> QED BY <1>1, ShimAlways, PTL

=============================================================================
