-------------------------- MODULE SchedulerProofs --------------------------
(***************************************************************************)
(* The scheduler, and the two components that rest on its reckoning, for any *)
(* cards, any requests, any resizes and any bounds: its safety invariants,   *)
(* that it implements Owners; that the compute units of its jobs are apart   *)
(* (SeatMask); and that a run goes to the host with the most room (Hosts).   *)
(***************************************************************************)
EXTENDS Scheduler, SeatMask, Hosts, PlacementProofs

\* The inductive invariant: the types, and the placed jobs divide the cards, stay
\* within their capacity and are whole.  Each of the last three needs the others:
\* that n seats are free by number follows from the counts only while every job
\* holds as many seats as it counts, and no seat is held twice.  That a drain moves
\* nobody needs that no placed job waits and none waits twice, and that victims are
\* chosen in a total order needs that no two admission orders are the same.
IInv ==
    /\ TypeOK
    /\ Sound(running)
    /\ OrdersApart(running, next)
    /\ WaitsApart(running, queue)

LEMMA InitIInv == Init => IInv
<1> SUFFICES ASSUME Init PROVE IInv
  OBVIOUS
<1>1. running = <<>> /\ DOMAIN running = {}
  BY DEF Init
<1>2. TypeOK
  BY <1>1 DEF Init, TypeOK, IsRunMap
<1>3. Divided(running)
  BY <1>1 DEF Divided, OnCard
<1>4. Bounded(running)
  BY <1>1, EmptyBounded
<1>5. OrdersApart(running, next) /\ WaitsApart(running, queue)
  BY <1>1 DEF Init, OrdersApart, WaitsApart
<1> QED BY <1>1, <1>2, <1>3, <1>4, <1>5 DEF IInv, Sound, TypeOK

\* One step per action.
LEMMA NextIInv == IInv /\ [Next]_vars => IInv'
<1> SUFFICES ASSUME IInv, [Next]_vars PROVE IInv'
  OBVIOUS
<1> USE SchedulerAssumption
<1> DEFINE Goal == /\ Sound(running') /\ OrdersApart(running', next')
                   /\ queue' \in Seq(Request) /\ WaitsApart(running', queue')
                   /\ next' \in Nat /\ down' \in SUBSET Cards
<1>0. SUFFICES Goal
  BY DEF IInv, TypeOK, Sound
<1>t. /\ Sound(running) /\ IsRunMap(running) /\ OrdersApart(running, next)
      /\ queue \in Seq(Request) /\ WaitsApart(running, queue)
      /\ next \in Nat /\ down \in SUBSET Cards
  BY DEF IInv, TypeOK
<1>1. ASSUME NEW r \in Asks, Admit(r) PROVE Goal
  <2>0. /\ r \in Request /\ r.id \notin DOMAIN running
        /\ \A i \in DOMAIN queue : queue[i].id # r.id
    BY <1>1 DEF Admit, Admissible, Queued
  <2>1. CASE AdmitFree(r)
    <3> DEFINE slots == FitSlots(running, down, r)
    <3>1. /\ FitErr(running, down, r) = "none" /\ running' = Place(running, r, slots, next + 1)
          /\ next' = next + 1 /\ queue' = queue /\ down' = down
      BY <2>1 DEF AdmitFree
    <3>2. next + 1 \in Nat
      BY <1>t
    <3>3. Sound(running')
      BY <1>t, <2>0, <3>1, <3>2, FitSound
    <3> HIDE DEF slots
    <3>4. OrdersApart(running', next')
      BY <1>t, <2>0, <3>1, PlaceApart
    <3>5. WaitsApart(running', queue')
      BY <1>t, <2>0, <3>1 DEF WaitsApart, Place
    <3> QED BY <1>t, <3>1, <3>2, <3>3, <3>4, <3>5
  <2>2. CASE AdmitPreempting(r)
    <3> DEFINE rest == Without(running, Victims(running, down, r))
               slots == FitSlots(rest, down, r)
    <3>1. Sound(rest) /\ FitErr(rest, down, r) = "none"
      BY <1>t, <2>0, <2>2, WithoutSound, VictimsMakeRoom DEF AdmitPreempting
    <3>2. /\ running' = Place(rest, r, slots, next + 1)
          /\ next' = next + 1 /\ queue' = queue /\ down' = down
      BY <2>2 DEF AdmitPreempting
    <3>3. DOMAIN rest \subseteq DOMAIN running /\ OrdersApart(rest, next)
      BY <1>t, WithoutApart DEF Without
    <3>4. next + 1 \in Nat
      BY <1>t
    <3> HIDE DEF rest
    <3>5. Sound(running')
      BY <2>0, <3>1, <3>2, <3>4, FitSound
    <3> HIDE DEF slots
    <3>6. OrdersApart(running', next')
      BY <1>t, <2>0, <3>2, <3>3, PlaceApart
    <3>7. WaitsApart(running', queue')
      BY <1>t, <2>0, <3>2, <3>3 DEF WaitsApart, Place
    <3> QED BY <1>t, <3>2, <3>4, <3>5, <3>6, <3>7
  <2>3. CASE AdmitQueued(r)
    BY <1>t, <2>0, <2>3, AppendApart DEF AdmitQueued
  <2> QED BY <1>1, <2>1, <2>2, <2>3 DEF Admit
<1>2. ASSUME NEW r \in Asks, Requeue(r) PROVE Goal
  <2> DEFINE again == [r EXCEPT !.wait = TRUE]
  <2>1. again \in Request /\ again.id = r.id
    BY DEF Request
  <2>2. r.id \notin DOMAIN running /\ \A i \in DOMAIN queue : queue[i].id # r.id
    BY <1>2 DEF Requeue, Queued
  <2>3. queue' = <<again>> \o queue /\ running' = running /\ next' = next /\ down' = down
    BY <1>2 DEF Requeue
  <2> HIDE DEF again
  <2> QED BY <1>t, <2>1, <2>2, <2>3, InFrontApart
<1>3. ASSUME NEW id \in Ids, Release(id) PROVE Goal
  <2> DEFINE less == Without(running, {id})
             d == Drain(less, next, queue, down)
  <2>1. Sound(less) /\ OrdersApart(less, next) /\ WaitsApart(less, queue)
    BY <1>t, WithoutSound, WithoutApart DEF WaitsApart, Without
  <2>2. Drained(less, next, queue, down, Len(queue), d)
    <3> HIDE DEF less
    <3> QED BY <1>t, <2>1, DrainIs
  <2>3. running' = d.run /\ queue' = d.rest /\ next' = d.next /\ down' = down
    BY <1>3 DEF Release
  <2> HIDE DEF d, less
  <2> QED BY <1>t, <2>2, <2>3 DEF Drained
<1>4. ASSUME NEW id \in Ids, Evict(id) PROVE Goal
  <2>1. running' = Without(running, {id}) /\ queue' = queue /\ next' = next /\ down' = down
    BY <1>4 DEF Evict
  <2>2. WaitsApart(Without(running, {id}), queue)
    BY <1>t DEF WaitsApart, Without
  <2> QED BY <1>t, <2>1, <2>2, WithoutSound, WithoutApart
<1>5. ASSUME NEW id \in Ids, Cancel(id) PROVE Goal
  BY <1>t, <1>5, CancelledIs DEF Cancel
<1>6. ASSUME NEW id \in Ids, NEW z \in Sizes, Resize(id, z[1], z[2]) PROVE Goal
  <2> DEFINE old == running[id].req
             r == Resized(old, z[1], z[2])
  <2>1. /\ id \in DOMAIN running /\ CanResize(running, id, r) /\ running' = ResizeJob(running, id, r)
        /\ queue' = queue /\ next' = next /\ down' = down
    BY <1>6 DEF Resize
  <2>2. old \in Request /\ old.id = id
    BY <1>t, <2>1 DEF Sound, IsRunMap, IsPlaced
  <2>3. r \in Request /\ r.id = old.id /\ Want(r) = Want(old)
    <3>1. z[1] \in Int /\ z[2] \in Nat
      OBVIOUS
    <3> HIDE DEF old
    <3> QED BY <2>2, <3>1 DEF Resized, Request, Want
  <2>4. Sound(ResizeJob(running, id, r))
    <3> HIDE DEF r
    <3> QED BY <1>t, <2>1, <2>2, <2>3, ResizeSound
  <2>5. /\ DOMAIN running' = DOMAIN running
        /\ \A j \in DOMAIN running : running'[j].order = running[j].order
    <3> HIDE DEF r
    <3> QED BY <2>1, <2>2, <2>3 DEF ResizeJob, Place
  <2>6. OrdersApart(running', next') /\ WaitsApart(running', queue')
    BY <1>t, <2>1, <2>5 DEF OrdersApart, WaitsApart
  <2> QED BY <1>t, <2>1, <2>4, <2>6
<1>7. ASSUME NEW c \in Serviced, NEW b \in BOOLEAN, SetDown(c, b) PROVE Goal
  BY <1>t, <1>7 DEF SetDown
<1>8. CASE UNCHANGED vars
  BY <1>t, <1>8 DEF vars
<1> QED BY <1>1, <1>2, <1>3, <1>4, <1>5, <1>6, <1>7, <1>8 DEF Next

\* The inductive invariant holds in every state of every behaviour.
LEMMA SpecIInv == Spec => []IInv
BY InitIInv, NextIInv, PTL DEF Spec

\* Every call leaves the scheduler's state well-typed.
THEOREM TypeCorrect == Spec => []TypeOK
<1>1. IInv => TypeOK
  BY DEF IInv
<1> QED BY <1>1, SpecIInv, PTL

\* For any cards and any calls, no seat is ever held by two jobs, and every job
\* holds exactly as many numbered seats of a card as it was given.
THEOREM SeatsAlwaysDivided == Spec => []SeatsDivided
<1>1. IInv => SeatsDivided
  BY DEF IInv, Sound, SeatsDivided
<1> QED BY <1>1, SpecIInv, PTL

\* For any cards and any calls, no card is given away beyond its seats or memory.
THEOREM NeverOvercommitted == Spec => []WithinCapacity
<1>1. IInv => WithinCapacity
  BY DEF IInv, Sound, WithinCapacity
<1> QED BY <1>1, SpecIInv, PTL

\* For any cards and any calls, a placed job holds all the cards it asked for and
\* on each exactly what its request, as last resized, needs.
THEOREM GangAlwaysWhole == Spec => []GangWhole
<1>1. IInv => GangWhole
  BY DEF IInv, Sound, GangWhole
<1> QED BY <1>1, SpecIInv, PTL

-----------------------------------------------------------------------------
(* What a call may do. *)

\* Whatever runs and asks: Admit pushes off only preemptible jobs of lower priority,
\* none that it could have left, and lets a job wait only when pushing them all off
\* would not have helped.
THEOREM PreemptionAlwaysJustified == Spec => PreemptionJustified
<1> DEFINE Justified ==
             \A r \in Asks : Admit(r) =>
                LET gone == DOMAIN running \ DOMAIN running'
                IN  /\ gone \subseteq Pool(running, r)
                    /\ \A v \in gone : FitErr(Without(running, gone \ {v}), down, r) # "none"
                    /\ queue' # queue =>
                          FitErr(Without(running, Pool(running, r)), down, r) # "none"
<1>1. IInv /\ [Next]_vars => [Justified]_vars
  <2>1. SUFFICES ASSUME IInv, NEW r \in Asks, Admit(r)
                 PROVE  LET gone == DOMAIN running \ DOMAIN running'
                        IN  /\ gone \subseteq Pool(running, r)
                            /\ \A v \in gone : FitErr(Without(running, gone \ {v}), down, r) # "none"
                            /\ queue' # queue =>
                                  FitErr(Without(running, Pool(running, r)), down, r) # "none"
    OBVIOUS
  <2> DEFINE gone == DOMAIN running \ DOMAIN running'
  <2>2. /\ r \in Request /\ r.id \notin DOMAIN running
        /\ Sound(running) /\ next \in Nat /\ OrdersApart(running, next)
    BY <2>1, SchedulerAssumption DEF Admit, Admissible, IInv, TypeOK
  <2>3. CASE AdmitFree(r)
    <3>1. gone = {} /\ queue' = queue
      BY <2>3 DEF AdmitFree, Place
    <3> HIDE DEF gone
    <3> QED BY <3>1 DEF gone
  <2>4. CASE AdmitPreempting(r)
    <3> DEFINE V == Victims(running, down, r)
    <3>1. Enough(running, down, r) # {} /\ queue' = queue
      BY <2>4 DEF AdmitPreempting
    <3>2. V \subseteq Pool(running, r)
      BY <2>2, <3>1, VictimsMakeRoom
    <3>3. gone = V
      <4>1. DOMAIN running' = (DOMAIN running \ V) \cup {r.id}
        BY <2>4 DEF AdmitPreempting, Place, Without
      <4>2. V \subseteq DOMAIN running
        BY <3>2 DEF Pool
      <4> HIDE DEF V
      <4> QED BY <2>2, <4>1, <4>2
    <3>4. \A v \in V : FitErr(Without(running, V \ {v}), down, r) # "none"
      BY <2>2, <3>1, VictimsNeeded
    <3> HIDE DEF V, gone
    <3> QED BY <3>1, <3>2, <3>3, <3>4 DEF gone
  <2>5. CASE AdmitQueued(r)
    <3>1. gone = {}
      BY <2>5 DEF AdmitQueued
    <3>2. FitErr(running, down, r) # "none" /\ Enough(running, down, r) = {}
      BY <2>5 DEF AdmitQueued
    <3>3. FitErr(Without(running, Pool(running, r)), down, r) # "none"
      BY <2>2, <3>2, PoolNotEnough
    <3> HIDE DEF gone
    <3> QED BY <3>1, <3>3 DEF gone
  <2> QED BY <2>1, <2>3, <2>4, <2>5 DEF Admit
<1> QED BY <1>1, SpecIInv, PTL DEF Spec, PreemptionJustified

\* Whatever runs and waits: Release leaves no request waiting that has room, or would
\* have room but for a request of lower priority that the same call started.
THEOREM NeverInverted == Spec => NoInversion
<1> DEFINE NotInverted ==
             \A id \in Ids : Release(id) =>
                \A i \in DOMAIN queue' :
                    LET lower == {j \in DOMAIN running' :
                                    running'[j].order > next /\ running'[j].req.prio < queue'[i].prio}
                    IN  FitErr(Without(running', lower), down, queue'[i]) # "none"
<1>1. IInv /\ [Next]_vars => [NotInverted]_vars
  <2>1. SUFFICES ASSUME IInv, NEW id \in Ids, Release(id), NEW i \in DOMAIN queue'
                 PROVE  FitErr(Without(running', Lower(running', next, queue'[i].prio)),
                               down, queue'[i]) # "none"
    BY DEF Lower
  <2> DEFINE less == Without(running, {id})
             d == Drain(less, next, queue, down)
  <2>2. /\ Sound(running) /\ next \in Nat /\ OrdersApart(running, next)
        /\ queue \in Seq(Request) /\ WaitsApart(running, queue)
    BY <2>1 DEF IInv, TypeOK
  <2>3. Sound(less) /\ OrdersApart(less, next) /\ WaitsApart(less, queue)
    BY <2>2, WithoutSound, WithoutApart DEF WaitsApart, Without
  <2>4. Drained(less, next, queue, down, Len(queue), d)
    <3> HIDE DEF less
    <3> QED BY <2>2, <2>3, DrainIs
  <2>5. running' = d.run /\ queue' = d.rest
    BY <2>1 DEF Release
  <2> HIDE DEF d, less
  <2> QED BY <2>1, <2>4, <2>5 DEF Drained
<1> QED BY <1>1, SpecIInv, PTL DEF Spec, NoInversion

-----------------------------------------------------------------------------
(* The scheduler implements Owners. *)

\* Holds, for any placed jobs.
HoldsOf(run) ==
    [j \in DOMAIN run |-> UNION {{c} \X run[j].slots[c].ids : c \in DOMAIN run[j].slots}]

LEMMA HoldsElement ==
    ASSUME NEW run, NEW j \in DOMAIN run
    PROVE  \A s : s \in HoldsOf(run)[j] <=>
              \E c \in DOMAIN run[j].slots : \E x \in run[j].slots[c].ids : s = <<c, x>>
BY DEF HoldsOf

\* Who is sound owns seats, and nobody else's.
LEMMA HoldsExclusive ==
    ASSUME NEW run, Sound(run)
    PROVE  O!Exclusive(HoldsOf(run))
<1> DEFINE h == HoldsOf(run)
<1>1. DOMAIN h = DOMAIN run /\ DOMAIN run \subseteq Ids
  BY DEF HoldsOf, Sound, IsRunMap
<1>2. ASSUME NEW j \in DOMAIN run, NEW c \in DOMAIN run[j].slots
      PROVE  /\ c \in Cards /\ j \in OnCard(run, c)
             /\ run[j].slots[c].ids \subseteq 0 .. CardSeats[c] - 1 /\ run[j].slots[c].ids # {}
  <2>1. c \in Cards /\ j \in OnCard(run, c) /\ run[j].req \in Request
    BY DEF Sound, IsRunMap, IsPlaced, IsSlotMap, OnCard
  <2>2. /\ run[j].slots[c].ids \subseteq 0 .. CardSeats[c] - 1
        /\ Cardinality(run[j].slots[c].ids) = run[j].slots[c].seats
    BY <2>1 DEF Sound, Divided
  <2>3. run[j].slots[c].seats = NeedSeats(run[j].req, c)
    BY DEF Sound, Whole
  <2>4. run[j].slots[c].seats # 0
    BY <2>1, <2>3, NeedType
  <2>5. run[j].slots[c].ids # {}
    BY <2>2, <2>4, FS_EmptySet
  <2> QED BY <2>1, <2>2, <2>5
<1>3. ASSUME NEW j \in DOMAIN run
      PROVE  h[j] # {} /\ h[j] \subseteq UNION {{c} \X (0 .. CardSeats[c] - 1) : c \in Cards}
  <2>1. DOMAIN run[j].slots # {}
    <3>1. Cardinality(DOMAIN run[j].slots) = Want(run[j].req) /\ run[j].req \in Request
      BY DEF Sound, Whole, IsRunMap, IsPlaced
    <3>2. Want(run[j].req) # 0
      BY <3>1 DEF Want, Request
    <3> QED BY <3>1, <3>2, FS_EmptySet
  <2>2. PICK c \in DOMAIN run[j].slots : TRUE
    BY <2>1
  <2>3. PICK x \in run[j].slots[c].ids : TRUE
    BY <1>2
  <2>4. <<c, x>> \in h[j]
    BY HoldsElement
  <2>5. ASSUME NEW s \in h[j]
        PROVE  s \in UNION {{c1} \X (0 .. CardSeats[c1] - 1) : c1 \in Cards}
    <3>1. PICK c1 \in DOMAIN run[j].slots : \E x1 \in run[j].slots[c1].ids : s = <<c1, x1>>
      BY HoldsElement
    <3>2. PICK x1 \in run[j].slots[c1].ids : s = <<c1, x1>>
      BY <3>1
    <3>3. c1 \in Cards /\ x1 \in 0 .. CardSeats[c1] - 1
      BY <1>2
    <3> QED BY <3>2, <3>3
  <2> QED BY <2>4, <2>5
<1>4. ASSUME NEW i \in DOMAIN run, NEW j \in DOMAIN run, i # j PROVE h[i] \cap h[j] = {}
  <2>1. SUFFICES ASSUME NEW s \in h[i], s \in h[j] PROVE FALSE
    OBVIOUS
  <2>2. PICK c \in DOMAIN run[i].slots : \E x \in run[i].slots[c].ids : s = <<c, x>>
    BY HoldsElement
  <2>3. PICK d \in DOMAIN run[j].slots : \E y \in run[j].slots[d].ids : s = <<d, y>>
    BY <2>1, HoldsElement
  <2>4. c = d /\ s[2] \in run[i].slots[c].ids /\ s[2] \in run[j].slots[c].ids
    BY <2>2, <2>3
  <2>5. c \in Cards /\ i \in OnCard(run, c) /\ j \in OnCard(run, c) \ {i}
    BY <1>2, <1>4, <2>4
  <2>6. run[i].slots[c].ids \cap run[j].slots[c].ids = {}
    BY <2>5 DEF Sound, Divided
  <2> QED BY <2>4, <2>6
<1> HIDE DEF h
<1>5. O!Exclusive(h)
  BY <1>1, <1>3, <1>4 DEF O!Exclusive
<1> QED BY <1>5 DEF h

\* Who keeps a placement keeps the seats.
LEMMA HoldsKept ==
    ASSUME NEW run, NEW new, NEW j \in DOMAIN run, j \in DOMAIN new, new[j] = run[j]
    PROVE  HoldsOf(new)[j] = HoldsOf(run)[j]
BY DEF HoldsOf

\* Resize, on every card, leaves the job some of its seats or adds to them.
LEMMA ResizeKeeps ==
    ASSUME NEW run, Sound(run), NEW id \in DOMAIN run, NEW r \in Request,
           r.id = id, CanResize(run, id, r)
    PROVE  LET new == ResizeJob(run, id, r)
           IN  /\ DOMAIN new = DOMAIN run /\ \A j \in DOMAIN run \ {id} : new[j] = run[j]
               /\ DOMAIN new[id].slots = DOMAIN run[id].slots
               /\ \A c \in DOMAIN run[id].slots :
                     \/ new[id].slots[c].ids \subseteq run[id].slots[c].ids
                     \/ run[id].slots[c].ids \subseteq new[id].slots[c].ids
<1> DEFINE new == ResizeJob(run, id, r)
           old == Without(run, {id})
           slots == [c \in DOMAIN run[id].slots |-> NewSlot(old, r, c, run[id].slots[c].ids)]
<1>1. new = Place(run, r, slots, run[id].order)
  BY DEF ResizeJob
<1>2. /\ DOMAIN new = DOMAIN run /\ \A j \in DOMAIN run \ {id} : new[j] = run[j]
      /\ new[id].slots = slots
  <2> HIDE DEF slots
  <2> QED BY <1>1 DEF Place
<1>3. ASSUME NEW c \in DOMAIN run[id].slots
      PROVE  \/ slots[c].ids \subseteq run[id].slots[c].ids
             \/ run[id].slots[c].ids \subseteq slots[c].ids
  <2> DEFINE keep == run[id].slots[c].ids
             n == NeedSeats(r, c)
  <2>1. c \in Cards /\ id \in OnCard(run, c) /\ run[id].req \in Request
    BY DEF Sound, IsRunMap, IsPlaced, IsSlotMap, OnCard
  <2>2. Sound(old) /\ IsRunMap(old) /\ Divided(old) /\ Fits(old, r, c)
    BY <2>1, WithoutSound DEF Sound, CanResize
  <2>3. n \in Nat \ {0} /\ SeatsUsed(old, c) + n <= CardSeats[c]
    <3>1. CardSeats[c] \in Nat
      BY <2>1, PlacementAssumption
    <3> QED BY <2>1, <2>2, <3>1, NeedType DEF Fits
  <2>4. keep # {}
    <3>1. Cardinality(keep) = NeedSeats(run[id].req, c)
      BY <2>1 DEF Sound, Divided, Whole
    <3>2. NeedSeats(run[id].req, c) # 0
      BY <2>1, NeedType
    <3> QED BY <3>1, <3>2, FS_EmptySet
  <2>5. keep \in SUBSET FreeSeats(old, c)
    <3>1. keep \subseteq 0 .. CardSeats[c] - 1
      BY <2>1 DEF Sound, Divided
    <3>2. ASSUME NEW j \in OnCard(old, c) PROVE keep \cap old[j].slots[c].ids = {}
      <4>1. j \in OnCard(run, c) \ {id} /\ old[j] = run[j]
        BY DEF OnCard, Without
      <4> QED BY <2>1, <4>1 DEF Sound, Divided
    <3> HIDE DEF old, keep
    <3> QED BY <3>1, <3>2 DEF FreeSeats, Occupied
  <2>6. slots[c].ids = PickSeats(old, c, n, keep)
    BY DEF NewSlot
  <2> HIDE DEF old, keep, n, slots
  <2>7. PickSeats(old, c, n, keep) \subseteq keep \/ keep \subseteq PickSeats(old, c, n, keep)
    BY <2>1, <2>2, <2>3, <2>4, <2>5, PickSeatsKeeps
  <2> QED BY <2>6, <2>7 DEF keep
<1> QED BY <1>2, <1>3

\* Every call is a step of Owners, or leaves who owns what as it was.
LEMMA StepOwners == IInv /\ IInv' /\ [Next]_vars => [O!Next]_Holds
<1> SUFFICES ASSUME IInv, IInv', [Next]_vars PROVE [O!Next]_Holds
  OBVIOUS
<1> USE SchedulerAssumption
<1>t. /\ Sound(running) /\ queue \in Seq(Request) /\ WaitsApart(running, queue)
      /\ next \in Nat /\ OrdersApart(running, next)
  BY DEF IInv, TypeOK
<1>h. /\ Holds = HoldsOf(running) /\ Holds' = HoldsOf(running')
      /\ DOMAIN Holds = DOMAIN running /\ DOMAIN Holds' = DOMAIN running'
  BY DEF Holds, HoldsOf
<1>x. O!Exclusive(Holds')
  <2>1. Sound(running')
    BY DEF IInv
  <2> QED BY <1>h, <2>1, HoldsExclusive
<1>k. ASSUME NEW j \in DOMAIN running, j \in DOMAIN running', running'[j] = running[j]
      PROVE  j \in DOMAIN Holds' /\ Holds'[j] = Holds[j]
  BY <1>h, <1>k, HoldsKept
<1>1. ASSUME NEW r \in Asks, Admit(r) PROVE [O!Next]_Holds
  <2>0. r \in Request /\ r.id \in Ids /\ r.id \notin DOMAIN running
    BY <1>1 DEF Admit, Admissible, Request
  <2>1. CASE AdmitFree(r) \/ AdmitPreempting(r)
    <3>1. /\ r.id \in DOMAIN running' /\ DOMAIN running' \subseteq DOMAIN running \cup {r.id}
          /\ \A j \in DOMAIN running' \ {r.id} : running'[j] = running[j]
      <4>1. CASE AdmitFree(r)
        BY <4>1 DEF AdmitFree, Place
      <4>2. CASE AdmitPreempting(r)
        BY <4>2 DEF AdmitPreempting, Place, Without
      <4> QED BY <2>1, <4>1, <4>2
    <3>2. O!Stay(DOMAIN Holds' \ {r.id})
      BY <1>h, <1>k, <3>1 DEF O!Stay
    <3>3. O!Enter(r.id)
      BY <1>h, <2>0, <3>1, <3>2 DEF O!Enter
    <3> QED BY <1>x, <2>0, <3>3 DEF O!Next
  <2>2. CASE AdmitQueued(r)
    BY <2>2 DEF AdmitQueued, Holds
  <2> QED BY <1>1, <2>1, <2>2 DEF Admit
<1>2. ASSUME NEW r \in Asks, Requeue(r) PROVE [O!Next]_Holds
  BY <1>2 DEF Requeue, Holds
<1>3. ASSUME NEW id \in Ids, Release(id) PROVE [O!Next]_Holds
  <2> DEFINE less == Without(running, {id})
             d == Drain(less, next, queue, down)
  <2>1. Sound(less) /\ OrdersApart(less, next) /\ WaitsApart(less, queue)
    BY <1>t, WithoutSound, WithoutApart DEF WaitsApart, Without
  <2>2. Drained(less, next, queue, down, Len(queue), d)
    <3> HIDE DEF less
    <3> QED BY <1>t, <2>1, DrainIs
  <2>3. running' = d.run
    BY <1>3 DEF Release
  <2>4. DOMAIN less = DOMAIN running \ {id} /\ \A j \in DOMAIN less : less[j] = running[j]
    BY DEF Without
  <2> HIDE DEF d, less
  <2>5. \A j \in DOMAIN running \ {id} : j \in DOMAIN running' /\ running'[j] = running[j]
    BY <2>2, <2>3, <2>4 DEF Drained, Extends
  <2>6. ASSUME id \in DOMAIN running PROVE id \notin DOMAIN running'
    <3>1. SUFFICES ASSUME id \in DOMAIN running' PROVE FALSE
      OBVIOUS
    <3>2. PICK m \in 1 .. Len(queue) : d.run[id].req = queue[m]
      BY <2>2, <2>3, <2>4, <3>1 DEF Drained
    <3>3. d.run[id].req.id = id
      BY <2>2, <2>3, <3>1 DEF Drained, Sound
    <3>4. m \in DOMAIN queue
      BY <1>t
    <3> QED BY <1>t, <2>6, <3>2, <3>3, <3>4 DEF WaitsApart
  <2>7. O!Stay(DOMAIN Holds \ {id})
    BY <1>h, <1>k, <2>5 DEF O!Stay
  <2>8. O!Leave(id)
    BY <1>h, <2>6, <2>7 DEF O!Leave
  <2> QED BY <1>x, <2>8 DEF O!Next
<1>4. ASSUME NEW id \in Ids, Evict(id) PROVE [O!Next]_Holds
  <2>1. /\ DOMAIN running' = DOMAIN running \ {id}
        /\ \A j \in DOMAIN running \ {id} : running'[j] = running[j]
    BY <1>4 DEF Evict, Without
  <2>2. O!Stay(DOMAIN Holds \ {id})
    BY <1>h, <1>k, <2>1 DEF O!Stay
  <2>3. O!Leave(id)
    BY <1>h, <2>1, <2>2 DEF O!Leave
  <2> QED BY <1>x, <2>3 DEF O!Next
<1>5. ASSUME NEW id \in Ids, Cancel(id) PROVE [O!Next]_Holds
  BY <1>5 DEF Cancel, Holds
<1>6. ASSUME NEW id \in Ids, NEW z \in Sizes, Resize(id, z[1], z[2]) PROVE [O!Next]_Holds
  <2> DEFINE old == running[id].req
             r == Resized(old, z[1], z[2])
  <2>1. id \in DOMAIN running /\ CanResize(running, id, r) /\ running' = ResizeJob(running, id, r)
    BY <1>6 DEF Resize
  <2>2. old \in Request /\ old.id = id
    BY <1>t, <2>1 DEF Sound, IsRunMap, IsPlaced
  <2>3. r \in Request /\ r.id = id
    <3>1. z[1] \in Int /\ z[2] \in Nat
      OBVIOUS
    <3> HIDE DEF old
    <3> QED BY <2>2, <3>1 DEF Resized, Request
  <2> HIDE DEF r
  <2>4. /\ DOMAIN running' = DOMAIN running /\ \A j \in DOMAIN running \ {id} : running'[j] = running[j]
        /\ DOMAIN running'[id].slots = DOMAIN running[id].slots
        /\ \A c \in DOMAIN running[id].slots :
              \/ running'[id].slots[c].ids \subseteq running[id].slots[c].ids
              \/ running[id].slots[c].ids \subseteq running'[id].slots[c].ids
    BY <1>t, <2>1, <2>3, ResizeKeeps
  <2>5. O!Stay(DOMAIN Holds \ {id})
    BY <1>h, <1>k, <2>4 DEF O!Stay
  <2> DEFINE on(h, c) == {s \in h[id] : s[1] = c}
             slots == running[id].slots
             slots2 == running'[id].slots
  <2>6. ASSUME NEW c \in DOMAIN slots
        PROVE  /\ on(Holds, c) = {c} \X slots[c].ids /\ on(Holds', c) = {c} \X slots2[c].ids
               /\ slots[c].ids # {} /\ slots2[c].ids # {}
    <3>1. on(Holds, c) = {c} \X slots[c].ids
      BY <1>h, <2>1, HoldsElement
    <3>2. id \in DOMAIN running' /\ c \in DOMAIN slots2
      BY <2>1, <2>4
    <3>3. on(Holds', c) = {c} \X slots2[c].ids
      BY <1>h, <3>2, HoldsElement
    <3>4. ASSUME NEW run, Sound(run), id \in DOMAIN run, c \in DOMAIN run[id].slots
          PROVE  run[id].slots[c].ids # {}
      <4>1. c \in Cards /\ id \in OnCard(run, c) /\ run[id].req \in Request
        BY <3>4 DEF Sound, IsRunMap, IsPlaced, IsSlotMap, OnCard
      <4>2. Cardinality(run[id].slots[c].ids) = NeedSeats(run[id].req, c)
        BY <3>4, <4>1 DEF Sound, Divided, Whole
      <4>3. NeedSeats(run[id].req, c) # 0
        BY <4>1, NeedType
      <4> QED BY <4>2, <4>3, FS_EmptySet
    <3>5. Sound(running')
      BY DEF IInv
    <3>6. slots[c].ids # {} /\ slots2[c].ids # {}
      BY <1>t, <2>1, <3>2, <3>4, <3>5
    <3> QED BY <3>1, <3>3, <3>6
  <2>7. ASSUME NEW s \in Holds[id] \cup Holds'[id]
        PROVE  s[1] \in DOMAIN slots
    <3>1. id \in DOMAIN running'
      BY <2>1, <2>4
    <3> QED BY <1>h, <2>1, <2>4, <3>1, HoldsElement
  <2>8. ASSUME NEW s \in Holds[id] \cup Holds'[id]
        PROVE  /\ on(Holds, s[1]) # {} /\ on(Holds', s[1]) # {}
               /\ \/ on(Holds, s[1]) \subseteq on(Holds', s[1])
                  \/ on(Holds', s[1]) \subseteq on(Holds, s[1])
    <3> DEFINE c == s[1]
    <3>1. c \in DOMAIN slots
      BY <2>7
    <3> HIDE DEF c
    <3>2. /\ on(Holds, c) = {c} \X slots[c].ids /\ on(Holds', c) = {c} \X slots2[c].ids
          /\ slots[c].ids # {} /\ slots2[c].ids # {}
      BY <2>6, <3>1
    <3>3. slots2[c].ids \subseteq slots[c].ids \/ slots[c].ids \subseteq slots2[c].ids
      BY <2>4, <3>1
    <3>4. ASSUME NEW A, NEW B, A # {}, B # {}, B \subseteq A \/ A \subseteq B
          PROVE  /\ {c} \X A # {} /\ {c} \X B # {}
                 /\ {c} \X A \subseteq {c} \X B \/ {c} \X B \subseteq {c} \X A
      <4>1. PICK a \in A, b \in B : TRUE
        BY <3>4
      <4>2. <<c, a>> \in {c} \X A /\ <<c, b>> \in {c} \X B
        OBVIOUS
      <4>3. A \subseteq B => {c} \X A \subseteq {c} \X B
        OBVIOUS
      <4>4. B \subseteq A => {c} \X B \subseteq {c} \X A
        OBVIOUS
      <4> QED BY <3>4, <4>2, <4>3, <4>4
    <3> HIDE DEF on, slots, slots2
    <3>5. /\ on(Holds, c) # {} /\ on(Holds', c) # {}
          /\ \/ on(Holds, c) \subseteq on(Holds', c)
             \/ on(Holds', c) \subseteq on(Holds, c)
      BY <3>2, <3>3, <3>4
    <3> QED BY <3>5 DEF c
  <2>9. O!Resize(id)
    BY <1>h, <2>1, <2>4, <2>5, <2>8 DEF O!Resize
  <2> QED BY <1>x, <2>9 DEF O!Next
<1>7. ASSUME NEW c \in Serviced, NEW b \in BOOLEAN, SetDown(c, b) PROVE [O!Next]_Holds
  BY <1>7 DEF SetDown, Holds
<1>8. CASE UNCHANGED vars
  BY <1>8 DEF vars, Holds
<1> QED BY <1>1, <1>2, <1>3, <1>4, <1>5, <1>6, <1>7, <1>8 DEF Next

\* The scheduler implements Owners: for any cards, requests and calls, a seat has one
\* owner, and who is placed keeps just its seats until it is released, evicted, pushed
\* off altogether for one newcomer, or resized in place.
THEOREM ImplementsOwners == Spec => SeatsOwned
<1>1. Init => O!Init
  BY DEF Init, O!Init, Holds
<1>2. IInv /\ IInv' /\ [Next]_vars => [O!Next]_Holds
  BY StepOwners
<1> QED BY <1>1, <1>2, SpecIInv, PTL DEF Spec, SeatsOwned, O!Spec


-----------------------------------------------------------------------------
(* Compute units: division. *)

\* Quotient and remainder tell numbers apart.
LEMMA DivUnique ==
    ASSUME NEW b \in Nat \ {0}, NEW p \in Nat, NEW q \in Nat,
           NEW x \in 0 .. b - 1, NEW y \in 0 .. b - 1, p * b + x = q * b + y
    PROVE  p = q /\ x = y
<1>1. ASSUME NEW m \in Nat, NEW n \in Nat, m < n PROVE m * b + b <= n * b
  BY <1>1
<1>2. ~(p < q) /\ ~(q < p)
  BY <1>1
<1> QED BY <1>2

LEMMA DivIs ==
    ASSUME NEW a \in Nat, NEW b \in Nat \ {0}
    PROVE  /\ a \div b \in Nat /\ a % b \in 0 .. b - 1
           /\ a = (a \div b) * b + (a % b)
OBVIOUS

\* The blocks of n seats on u units: one after the other, none empty.
LEMMA BlockIs ==
    ASSUME NEW n \in Nat \ {0}, NEW u \in Nat, u >= n, NEW i \in 0 .. n - 1
    PROVE  /\ (i * u) \div n \in Nat /\ ((i + 1) * u) \div n \in Nat
           /\ (i * u) \div n < ((i + 1) * u) \div n
           /\ ((i + 1) * u) \div n <= u
<1>1. i * u \in Nat /\ (i + 1) * u \in Nat /\ (i + 1) * u = i * u + u
  OBVIOUS
<1>2. (i + 1) * u <= n * u
  OBVIOUS
<1>3. PICK a \in Nat : a = i * u
  BY <1>1
<1>4. PICK b \in Nat : b = (i + 1) * u
  BY <1>1
<1>5. b >= a + n
  BY <1>1, <1>3, <1>4
<1>6. a \div n < b \div n
  BY <1>5
<1>7. b \div n <= u
  BY <1>2, <1>4
<1> QED BY <1>3, <1>4, <1>6, <1>7

\* Who has the later seat has the later block.
LEMMA BlocksApart ==
    ASSUME NEW n \in Nat \ {0}, NEW u \in Nat, NEW i \in Nat, NEW j \in Nat, i < j
    PROVE  ((i + 1) * u) \div n <= (j * u) \div n
<1>1. PICK a \in Nat : a = (i + 1) * u
  OBVIOUS
<1>2. PICK b \in Nat : b = j * u
  OBVIOUS
<1>3. a <= b
  BY <1>1, <1>2
<1>4. a \div n <= b \div n
  BY <1>3
<1> QED BY <1>1, <1>2, <1>4

-----------------------------------------------------------------------------
(* Compute units: the masks of seats. *)

LEMMA CardFacts ==
    /\ S \in Nat \ {0} /\ S < 200 /\ Card \in Cards
    /\ \A d \in Topologies :
          /\ d.units \in Nat /\ d.chiplets \in Nat /\ d.engines \in Nat /\ d.units >= 2 * S
          /\ ByEngine(d) => Rounds(d) >= S \div d.engines
BY SeatMaskAssumption, PlacementAssumption DEF S

LEMMA BlockMaskIs ==
    ASSUME NEW d \in Topologies, NEW ids \in SUBSET (0 .. S - 1)
    PROVE  BlockMask(d, ids) \subseteq Units(d) /\ (ids # {} => BlockMask(d, ids) # {})
<1> DEFINE block(i) == (i * d.units) \div S .. ((i + 1) * d.units) \div S - 1
<1>1. S \in Nat \ {0} /\ d.units \in Nat /\ d.units >= S
  BY CardFacts
<1>2. ASSUME NEW i \in ids PROVE block(i) \subseteq 0 .. d.units - 1 /\ block(i) # {}
  <2>1. i \in 0 .. S - 1
    OBVIOUS
  <2>2. PICK lo \in Nat : lo = (i * d.units) \div S
    BY <1>1, <2>1, BlockIs
  <2>3. PICK hi \in Nat : hi = ((i + 1) * d.units) \div S
    BY <1>1, <2>1, BlockIs
  <2>4. lo < hi /\ hi <= d.units
    BY <1>1, <2>1, <2>2, <2>3, BlockIs
  <2>5. lo .. hi - 1 \subseteq 0 .. d.units - 1 /\ lo \in lo .. hi - 1
    BY <1>1, <2>4
  <2> QED BY <2>2, <2>3, <2>5
<1>3. BlockMask(d, ids) = UNION {block(i) : i \in ids}
  BY DEF BlockMask
<1> HIDE DEF block
<1>4. BlockMask(d, ids) \subseteq 0 .. d.units - 1
  BY <1>2, <1>3
<1>5. ASSUME NEW i \in ids PROVE BlockMask(d, ids) # {}
  BY <1>2, <1>3
<1> QED BY <1>4, <1>5 DEF Units

LEMMA BlockMaskApart ==
    ASSUME NEW d \in Topologies, NEW A \in SUBSET (0 .. S - 1), NEW B \in SUBSET (0 .. S - 1),
           A \cap B = {}
    PROVE  BlockMask(d, A) \cap BlockMask(d, B) = {}
<1>1. S \in Nat \ {0} /\ d.units \in Nat
  BY CardFacts
<1> DEFINE lo(i) == (i * d.units) \div S
           hi(i) == ((i + 1) * d.units) \div S
<1>2. SUFFICES ASSUME NEW i \in A, NEW j \in B, NEW u, u \in lo(i) .. hi(i) - 1, u \in lo(j) .. hi(j) - 1
               PROVE  FALSE
  BY DEF BlockMask
<1>3. i \in Nat /\ j \in Nat /\ i # j
  BY <1>1
<1>4. lo(i) \in Nat /\ lo(j) \in Nat /\ hi(i) \in Nat /\ hi(j) \in Nat
  <2>1. i * d.units \in Nat /\ j * d.units \in Nat /\ (i + 1) * d.units \in Nat /\ (j + 1) * d.units \in Nat
    BY <1>1, <1>3
  <2> QED BY <1>1, <2>1, DivIs
<1>5. (i < j => hi(i) <= lo(j)) /\ (j < i => hi(j) <= lo(i))
  BY <1>1, <1>3, BlocksApart
<1> HIDE DEF lo, hi
<1> QED BY <1>2, <1>3, <1>4, <1>5

\* The rounds of an engine with g seats for the seats offs of them.
LEMMA RoundsOfIs ==
    ASSUME NEW d, NEW g \in Nat \ {0}, Rounds(d) \in Nat, Rounds(d) >= g, NEW offs \in SUBSET (0 .. g - 1)
    PROVE  /\ RoundsOf(d, offs, g) \subseteq 0 .. Rounds(d) - 1
           /\ offs # {} => RoundsOf(d, offs, g) # {}
           /\ Cardinality(offs) # g => RoundsOf(d, offs, g) \subseteq {r \in Nat : r % g \in offs}
<1>1. PICK R \in Nat : R = Rounds(d)
  OBVIOUS
<1>2. PICK m \in Nat : m = R \div g
  BY DivIs
<1>3. m * g \in Nat /\ m * g <= R /\ m * g >= g
  <2>1. R % g \in 0 .. g - 1 /\ R = m * g + (R % g)
    BY <1>2, DivIs
  <2>2. m # 0
    BY <1>1, <2>1
  <2> QED BY <2>1, <2>2
<1>4. RoundsOf(d, offs, g) = IF Cardinality(offs) = g THEN 0 .. R - 1 ELSE {r \in 0 .. m * g - 1 : r % g \in offs}
  BY <1>1, <1>2 DEF RoundsOf
<1>5. ASSUME NEW o \in offs PROVE o \in 0 .. R - 1 /\ o \in 0 .. m * g - 1 /\ o % g = o
  BY <1>1, <1>3
<1>6. offs # {} => RoundsOf(d, offs, g) # {}
  BY <1>4, <1>5
<1>7. RoundsOf(d, offs, g) \subseteq 0 .. R - 1
  BY <1>3, <1>4
<1>8. Cardinality(offs) # g => RoundsOf(d, offs, g) \subseteq {r \in Nat : r % g \in offs}
  BY <1>3, <1>4
<1> QED BY <1>1, <1>6, <1>7, <1>8

LEMMA RoundsApart ==
    ASSUME NEW d, NEW g \in Nat \ {0}, Rounds(d) \in Nat, Rounds(d) >= g,
           NEW A \in SUBSET (0 .. g - 1), NEW B \in SUBSET (0 .. g - 1), A \cap B = {}
    PROVE  RoundsOf(d, A, g) \cap RoundsOf(d, B, g) = {}
<1>1. ASSUME NEW F \in SUBSET (0 .. g - 1), Cardinality(F) = g PROVE F = 0 .. g - 1
  <2>1. 0 \in Int /\ g - 1 \in Int /\ ~(0 > g - 1)
    OBVIOUS
  <2>2. IsFiniteSet(0 .. g - 1) /\ Cardinality(0 .. g - 1) = g - 1 - 0 + 1
    BY <2>1, FS_Interval
  <2>3. Cardinality(0 .. g - 1) = g
    BY <2>2
  <2> QED BY <1>1, <2>2, <2>3, FS_Subset
<1>2. ASSUME NEW F \in SUBSET (0 .. g - 1), F = {} PROVE RoundsOf(d, F, g) = {}
  <2>1. Cardinality(F) # g
    BY <1>2, FS_EmptySet
  <2> QED BY <1>2, <2>1, RoundsOfIs
<1>3. CASE Cardinality(A) = g
  BY <1>1, <1>2, <1>3
<1>4. CASE Cardinality(B) = g
  BY <1>1, <1>2, <1>4
<1>5. CASE Cardinality(A) # g /\ Cardinality(B) # g
  BY <1>5, RoundsOfIs
<1> QED BY <1>3, <1>4, <1>5

\* An engine's seats that a job has.
Offsets(ids, g, e) == {s % g : s \in {t \in ids : t \div g = e}}

\* A card whose units are dealt to engines.
LEMMA EngineFacts ==
    ASSUME NEW d \in Topologies, ByEngine(d)
    PROVE  LET g == S \div d.engines
           IN  /\ d.engines \in Nat \ {0} /\ d.chiplets \in Nat \ {0}
               /\ g \in Nat \ {0} /\ S = g * d.engines
               /\ Rounds(d) \in Nat /\ Rounds(d) >= g
               /\ (Rounds(d) * d.engines) * d.chiplets <= d.units
<1>1. /\ S \in Nat \ {0} /\ d.units \in Nat /\ d.engines \in Nat \ {0} /\ d.chiplets \in Nat \ {0}
      /\ S % d.engines = 0 /\ S >= d.engines /\ Rounds(d) >= S \div d.engines
  BY CardFacts DEF ByEngine
<1>2. PICK E \in Nat \ {0}, X \in Nat \ {0}, U \in Nat, N \in Nat \ {0} :
        E = d.engines /\ X = d.chiplets /\ U = d.units /\ N = S
  BY <1>1
<1>3. PICK g \in Nat : g = N \div E
  BY DivIs
<1>4. N = g * E /\ g # 0
  <2>1. N = g * E + (N % E)
    BY <1>3, DivIs
  <2>2. N % E = 0
    BY <1>1, <1>2
  <2> QED BY <2>1, <2>2
<1>5. PICK m \in Nat : m = U \div X
  BY DivIs
<1>6. PICK R \in Nat : R = m \div E
  BY DivIs
<1>7. R * E <= m /\ m * X <= U
  <2>1. m = R * E + (m % E) /\ m % E \in 0 .. E - 1
    BY <1>6, DivIs
  <2>2. U = m * X + (U % X) /\ U % X \in 0 .. X - 1
    BY <1>5, DivIs
  <2>3. R * E \in Nat /\ m * X \in Nat
    OBVIOUS
  <2> QED BY <2>1, <2>2, <2>3
<1>8. (R * E) * X <= U
  <2>1. PICK k \in Nat : k = R * E
    OBVIOUS
  <2>2. k * X <= m * X /\ k * X \in Nat /\ m * X \in Nat
    BY <1>7, <2>1
  <2> QED BY <1>7, <2>1, <2>2
<1>9. Rounds(d) = R
  BY <1>2, <1>5, <1>6 DEF Rounds
<1>10. R >= g /\ g \in Nat \ {0}
  BY <1>1, <1>2, <1>3, <1>4, <1>9
<1> QED BY <1>1, <1>2, <1>3, <1>4, <1>8, <1>9, <1>10

\* Which units those of a mask are.
LEMMA EngineMaskElement ==
    ASSUME NEW d \in Topologies, NEW ids
    PROVE  \A u : u \in EngineMask(d, ids) <=>
              \E e \in 0 .. d.engines - 1 : \E x \in 0 .. d.chiplets - 1 :
                 \E r \in RoundsOf(d, Offsets(ids, S \div d.engines, e), S \div d.engines) :
                    u = (r * d.engines + e) * d.chiplets + x
<1> DEFINE g == S \div d.engines
           use(e) == RoundsOf(d, Offsets(ids, g, e), g)
           part(e) == {(r * d.engines + e) * d.chiplets + x : r \in use(e), x \in 0 .. d.chiplets - 1}
<1>1. EngineMask(d, ids) = UNION {part(e) : e \in 0 .. d.engines - 1}
  BY DEF EngineMask, Offsets
<1>2. ASSUME NEW e, NEW u
      PROVE  u \in part(e) <=> \E x \in 0 .. d.chiplets - 1 : \E r \in use(e) :
                                   u = (r * d.engines + e) * d.chiplets + x
  <2> HIDE DEF use
  <2> QED OBVIOUS
<1> HIDE DEF part, use
<1>3. \A u : u \in EngineMask(d, ids) <=> \E e \in 0 .. d.engines - 1 : u \in part(e)
  BY <1>1
<1> QED BY <1>2, <1>3 DEF use

LEMMA OffsetsAre ==
    ASSUME NEW g \in Nat \ {0}, NEW n \in Nat, NEW ids \in SUBSET (0 .. g * n - 1), NEW e \in Nat
    PROVE  /\ Offsets(ids, g, e) \in SUBSET (0 .. g - 1)
           /\ \A o \in Offsets(ids, g, e) : e * g + o \in ids
           /\ \A t \in ids : t \div g \in 0 .. n - 1 /\ t % g \in Offsets(ids, g, t \div g)
<1>1. g * n \in Nat
  OBVIOUS
<1>2. ASSUME NEW t \in ids
      PROVE  /\ t \in Nat /\ t \div g \in Nat /\ t % g \in 0 .. g - 1 /\ t = (t \div g) * g + (t % g)
             /\ t < g * n
  <2>1. t \in Nat /\ t < g * n
    BY <1>1
  <2> QED BY <2>1, DivIs
<1>3. ASSUME NEW t \in ids PROVE t \div g \in 0 .. n - 1
  <2>1. PICK q \in Nat : q = t \div g
    BY <1>2
  <2>2. q * g \in Nat /\ q * g < g * n
    BY <1>1, <1>2, <2>1
  <2>3. q < n
    BY <2>2
  <2> QED BY <2>1, <2>3
<1> QED BY <1>2, <1>3 DEF Offsets

\* The unit with number u of chiplet x, round r, engine e.
LEMMA UnitIs ==
    ASSUME NEW E \in Nat \ {0}, NEW X \in Nat \ {0}, NEW R \in Nat,
           NEW e \in 0 .. E - 1, NEW x \in 0 .. X - 1, NEW r \in 0 .. R - 1
    PROVE  /\ (r * E + e) * X + x \in Nat
           /\ (r * E + e) * X + x < (R * E) * X
<1>1. r * E \in Nat /\ R * E \in Nat /\ r * E + e < R * E
  <2>1. r * E + E <= R * E
    OBVIOUS
  <2> QED BY <2>1
<1>2. PICK k \in Nat : k = r * E + e
  BY <1>1
<1>3. PICK K \in Nat : K = R * E
  BY <1>1
<1>4. k < K
  BY <1>1, <1>2, <1>3
<1>5. k * X + X <= K * X
  BY <1>4
<1>6. k * X + x \in Nat /\ k * X + x < K * X
  BY <1>5
<1> QED BY <1>2, <1>3, <1>6

LEMMA UnitUnique ==
    ASSUME NEW E \in Nat \ {0}, NEW X \in Nat \ {0},
           NEW e \in 0 .. E - 1, NEW x \in 0 .. X - 1, NEW r \in Nat,
           NEW f \in 0 .. E - 1, NEW y \in 0 .. X - 1, NEW q \in Nat,
           (r * E + e) * X + x = (q * E + f) * X + y
    PROVE  e = f /\ r = q
<1>1. PICK k \in Nat : k = r * E + e
  OBVIOUS
<1>2. PICK l \in Nat : l = q * E + f
  OBVIOUS
<1>3. k = l
  BY <1>1, <1>2, DivUnique
<1> QED BY <1>1, <1>2, <1>3, DivUnique

LEMMA EngineMaskIs ==
    ASSUME NEW d \in Topologies, ByEngine(d), NEW ids \in SUBSET (0 .. S - 1)
    PROVE  EngineMask(d, ids) \subseteq Units(d) /\ (ids # {} => EngineMask(d, ids) # {})
<1>1. PICK g \in Nat \ {0}, E \in Nat \ {0}, X \in Nat \ {0} :
        g = S \div d.engines /\ E = d.engines /\ X = d.chiplets /\ S = g * E
  BY EngineFacts
<1>2. PICK R \in Nat : R = Rounds(d) /\ R >= g /\ (R * E) * X <= d.units
  BY <1>1, EngineFacts
<1>s. ids \in SUBSET (0 .. g * E - 1)
  BY <1>1
<1>3. ASSUME NEW e \in 0 .. E - 1 PROVE Offsets(ids, g, e) \in SUBSET (0 .. g - 1)
  <2>1. e \in Nat /\ E \in Nat
    OBVIOUS
  <2> QED BY <1>s, <2>1, OffsetsAre
<1>4. d.units \in Nat /\ (R * E) * X \in Nat
  BY <1>1, CardFacts
<1>5. ASSUME NEW u \in EngineMask(d, ids) PROVE u \in 0 .. d.units - 1
  <2>1. PICK e \in 0 .. E - 1, x \in 0 .. X - 1 :
          \E r \in RoundsOf(d, Offsets(ids, g, e), g) : u = (r * E + e) * X + x
    BY <1>1, EngineMaskElement
  <2>2. PICK r \in RoundsOf(d, Offsets(ids, g, e), g) : u = (r * E + e) * X + x
    BY <2>1
  <2>3. RoundsOf(d, Offsets(ids, g, e), g) \subseteq 0 .. Rounds(d) - 1
    BY <1>2, <1>3, RoundsOfIs
  <2>4. r \in 0 .. R - 1
    BY <1>2, <2>3
  <2>5. u \in Nat /\ u < (R * E) * X
    BY <2>2, <2>4, UnitIs
  <2> QED BY <1>2, <1>4, <2>5
<1>6. ASSUME NEW t \in ids PROVE EngineMask(d, ids) # {}
  <2>1. t \div g \in 0 .. E - 1 /\ t % g \in Offsets(ids, g, t \div g)
    <3>1. 0 \in Nat /\ E \in Nat
      OBVIOUS
    <3> QED BY <1>s, <3>1, OffsetsAre
  <2>2. PICK e \in 0 .. E - 1 : e = t \div g
    BY <2>1
  <2>3. Offsets(ids, g, e) # {}
    BY <2>1, <2>2
  <2>4. RoundsOf(d, Offsets(ids, g, e), g) # {}
    BY <1>2, <1>3, <2>3, RoundsOfIs
  <2>5. PICK r \in RoundsOf(d, Offsets(ids, g, e), g) : TRUE
    BY <2>4
  <2>6. 0 \in 0 .. X - 1
    OBVIOUS
  <2>7. (r * E + e) * X + 0 \in EngineMask(d, ids)
    BY <1>1, <2>6, EngineMaskElement
  <2> QED BY <2>7
<1> QED BY <1>5, <1>6 DEF Units

LEMMA EngineMaskApart ==
    ASSUME NEW d \in Topologies, ByEngine(d),
           NEW A \in SUBSET (0 .. S - 1), NEW B \in SUBSET (0 .. S - 1), A \cap B = {}
    PROVE  EngineMask(d, A) \cap EngineMask(d, B) = {}
<1>1. PICK g \in Nat \ {0}, E \in Nat \ {0}, X \in Nat \ {0} :
        g = S \div d.engines /\ E = d.engines /\ X = d.chiplets /\ S = g * E
  BY EngineFacts
<1>2. Rounds(d) \in Nat /\ Rounds(d) >= g
  BY <1>1, EngineFacts
<1>3. ASSUME NEW ids \in SUBSET (0 .. S - 1), NEW e \in 0 .. E - 1
      PROVE  /\ Offsets(ids, g, e) \in SUBSET (0 .. g - 1)
             /\ \A o \in Offsets(ids, g, e) : e * g + o \in ids
             /\ RoundsOf(d, Offsets(ids, g, e), g) \subseteq Nat
  <2>1. /\ Offsets(ids, g, e) \in SUBSET (0 .. g - 1)
        /\ \A o \in Offsets(ids, g, e) : e * g + o \in ids
    <3>1. ids \in SUBSET (0 .. g * E - 1) /\ e \in Nat
      BY <1>1
    <3> QED BY <3>1, OffsetsAre
  <2>2. RoundsOf(d, Offsets(ids, g, e), g) \subseteq 0 .. Rounds(d) - 1
    BY <1>2, <2>1, RoundsOfIs
  <2> QED BY <1>2, <2>1, <2>2
<1>4. SUFFICES ASSUME NEW u \in EngineMask(d, A), u \in EngineMask(d, B) PROVE FALSE
  OBVIOUS
<1>5. PICK e \in 0 .. E - 1, x \in 0 .. X - 1 :
        \E r \in RoundsOf(d, Offsets(A, g, e), g) : u = (r * E + e) * X + x
  BY <1>1, EngineMaskElement
<1>6. PICK r \in RoundsOf(d, Offsets(A, g, e), g) : u = (r * E + e) * X + x
  BY <1>5
<1>7. PICK f \in 0 .. E - 1, y \in 0 .. X - 1 :
        \E q \in RoundsOf(d, Offsets(B, g, f), g) : u = (q * E + f) * X + y
  BY <1>1, <1>4, EngineMaskElement
<1>8. PICK q \in RoundsOf(d, Offsets(B, g, f), g) : u = (q * E + f) * X + y
  BY <1>7
<1>9. r \in Nat /\ q \in Nat
  BY <1>3
<1>10. e = f /\ r = q
  BY <1>6, <1>8, <1>9, UnitUnique
<1>11. Offsets(A, g, e) \cap Offsets(B, g, e) = {}
  BY <1>3
<1>12. RoundsOf(d, Offsets(A, g, e), g) \cap RoundsOf(d, Offsets(B, g, e), g) = {}
  BY <1>2, <1>3, <1>11, RoundsApart
<1> QED BY <1>10, <1>12

\* A job without all seats is below a hundred percent, and below all units.
LEMMA PercentIs ==
    ASSUME NEW d \in Topologies, NEW n \in 1 .. S - 1
    PROVE  /\ ComputePercent(n) < 100
           /\ (d.units * ComputePercent(n) + 99) \div 100 < d.units
<1>1. S \in Nat \ {0} /\ S < 200 /\ d.units \in Nat /\ d.units >= 2 * S
  BY CardFacts
<1>2. PICK N \in Nat \ {0}, U \in Nat : N = S /\ U = d.units /\ N < 200 /\ U >= 2 * N /\ n <= N - 1
  BY <1>1
<1>3. PICK q \in Nat : q = (200 * n + N) \div (2 * N)
  <2>1. 200 * n + N \in Nat /\ 2 * N \in Nat \ {0}
    OBVIOUS
  <2> QED BY <2>1, DivIs
<1>4. q * (2 * N) <= 200 * n + N
  BY <1>3
<1>5. q * (2 * N) <= 201 * N - 200
  BY <1>2, <1>4
<1>6. q <= 99
  <2>1. SUFFICES ASSUME q >= 100 PROVE FALSE
    OBVIOUS
  <2>2. q * (2 * N) >= 100 * (2 * N)
    BY <2>1
  <2> QED BY <1>2, <1>5, <2>2
<1>7. PICK p \in 1 .. 99 : p = ComputePercent(n) /\ (p = q \/ p = 1)
  BY <1>2, <1>3, <1>6 DEF ComputePercent
<1>8. U * (100 - p) >= 100
  <2>1. CASE p = 1
    BY <1>2, <2>1
  <2>2. CASE U >= 100
    BY <1>7, <2>2
  <2>3. CASE p = q /\ U < 100
    <3>1. N < 50
      BY <1>2, <2>3
    <3>2. PICK w \in Nat : w = 100 - p
      BY <1>7
    <3>3. w * (2 * N) = 200 * N - p * (2 * N)
      BY <3>2
    <3>4. w * (2 * N) >= 200 - N
      BY <1>5, <2>3, <3>3
    <3>5. U * w >= (2 * N) * w
      BY <1>2
    <3> QED BY <3>1, <3>2, <3>4, <3>5
  <2> QED BY <1>7, <2>1, <2>2, <2>3
<1>9. PICK k \in Nat : k = U * p
  OBVIOUS
<1>10. k + 99 < 100 * U
  BY <1>7, <1>8, <1>9
<1>11. (k + 99) \div 100 < U
  BY <1>10
<1> QED BY <1>2, <1>7, <1>9, <1>11

\* The units that go with seats.
SeatsMask(d, ids) == IF ByEngine(d) THEN EngineMask(d, ids) ELSE BlockMask(d, ids)

\* What a job runs on: the units of its seats, or with all seats all units.
LEMMA JobEnvIs ==
    ASSUME NEW d \in Topologies, NEW slot, slot.ids \in SUBSET (0 .. S - 1), slot.ids # {},
           Cardinality(slot.ids) = slot.seats
    PROVE  /\ slot.seats < S => JobEnv(d, slot.ids, ComputePercent(slot.seats)) = SeatsMask(d, slot.ids)
           /\ slot.seats >= S => JobEnv(d, slot.ids, ComputePercent(slot.seats)) = Units(d) /\ slot.ids = 0 .. S - 1
<1>1. PICK ids \in SUBSET (0 .. S - 1) : ids = slot.ids
  OBVIOUS
<1>2. S \in Nat \ {0} /\ IsFiniteSet(0 .. S - 1) /\ Cardinality(0 .. S - 1) = S
  <2>1. S \in Nat \ {0}
    BY CardFacts
  <2>2. 0 \in Int /\ S - 1 \in Int /\ ~(0 > S - 1)
    BY <2>1
  <2>3. IsFiniteSet(0 .. S - 1) /\ Cardinality(0 .. S - 1) = S - 1 - 0 + 1
    BY <2>2, FS_Interval
  <2> QED BY <2>1, <2>3
<1>3. IsFiniteSet(ids) /\ Cardinality(ids) \in Nat /\ Cardinality(ids) <= S
  BY <1>2, FS_Subset, FS_CardinalityType
<1>4. PICK n \in 1 .. S : n = slot.seats /\ n = Cardinality(ids)
  <2>1. Cardinality(ids) # 0
    BY <1>1, <1>3, FS_EmptySet
  <2> QED BY <1>1, <1>2, <1>3, <2>1
<1>5. CASE n < S
  <2>1. n \in 1 .. S - 1
    BY <1>2, <1>5
  <2>2. /\ ComputePercent(n) < 100
        /\ (d.units * ComputePercent(n) + 99) \div 100 < d.units
    BY <2>1, PercentIs
  <2>3. PICK w : w = (d.units * ComputePercent(n) + 99) \div 100
    OBVIOUS
  <2>4. JobEnv(d, slot.ids, ComputePercent(slot.seats)) = SeatCUMask(d, ids, w)
    BY <1>1, <1>4, <2>2, <2>3 DEF JobEnv
  <2>5. ~(w >= d.units) /\ ~(Cardinality(ids) >= S)
    <3>1. d.units \in Nat /\ ComputePercent(n) \in Int
      BY <1>2, CardFacts DEF ComputePercent
    <3>2. PICK k \in Int : k = d.units * ComputePercent(n) + 99
      BY <3>1
    <3>3. w \in Int
      BY <2>3, <3>2
    <3> QED BY <1>2, <1>4, <1>5, <2>2, <2>3, <3>1, <3>3
  <2>6. SeatsMask(d, ids) # {}
    BY <1>1, BlockMaskIs, EngineMaskIs DEF SeatsMask
  <2>7. SeatCUMask(d, ids, w) = SeatsMask(d, ids)
    BY <2>5, <2>6 DEF SeatCUMask, SeatsMask
  <2>8. slot.seats < S /\ ~(slot.seats >= S) /\ JobEnv(d, slot.ids, ComputePercent(slot.seats)) = SeatsMask(d, slot.ids)
    BY <1>1, <1>2, <1>4, <1>5, <2>4, <2>7
  <2> QED BY <2>8
<1>6. CASE ~(n < S)
  <2>1. Cardinality(ids) >= S /\ n >= S
    BY <1>2, <1>4, <1>6
  <2>2. JobEnv(d, slot.ids, ComputePercent(slot.seats)) = Units(d)
    BY <1>1, <2>1 DEF JobEnv, SeatCUMask
  <2>3. ids = 0 .. S - 1
    <3>1. Cardinality(ids) = Cardinality(0 .. S - 1)
      BY <1>2, <1>3, <2>1
    <3> QED BY <1>2, <3>1, FS_Subset
  <2> QED BY <1>1, <1>4, <1>6, <2>2, <2>3
<1> QED BY <1>5, <1>6

LEMMA SeatsMaskIs ==
    ASSUME NEW d \in Topologies, NEW ids \in SUBSET (0 .. S - 1), ids # {}
    PROVE  SeatsMask(d, ids) # {} /\ SeatsMask(d, ids) \subseteq Units(d)
BY BlockMaskIs, EngineMaskIs DEF SeatsMask

LEMMA SeatsMaskApart ==
    ASSUME NEW d \in Topologies, NEW A \in SUBSET (0 .. S - 1), NEW B \in SUBSET (0 .. S - 1),
           A \cap B = {}
    PROVE  SeatsMask(d, A) \cap SeatsMask(d, B) = {}
BY BlockMaskApart, EngineMaskApart DEF SeatsMask

\* Some seats do not have all units, since another seat has some.
LEMMA SeatsMaskPart ==
    ASSUME NEW d \in Topologies, NEW ids \in SUBSET (0 .. S - 1), NEW t \in 0 .. S - 1, t \notin ids
    PROVE  SeatsMask(d, ids) # Units(d)
<1>1. {t} \in SUBSET (0 .. S - 1) /\ {t} # {} /\ ids \cap {t} = {}
  OBVIOUS
<1>2. SeatsMask(d, {t}) # {} /\ SeatsMask(d, {t}) \subseteq Units(d)
  BY <1>1, SeatsMaskIs
<1>3. SeatsMask(d, ids) \cap SeatsMask(d, {t}) = {}
  BY <1>1, SeatsMaskApart
<1> QED BY <1>2, <1>3

-----------------------------------------------------------------------------
(* Compute units: what the processes use. *)

\* The inductive invariant: every job on the card has a mask and, unless its seats have
\* changed since, it is the one for the seats that the scheduler says it has.
MaskInv ==
    /\ dev \in Topologies
    /\ DOMAIN masks = OnCard(running, Card)
    /\ \A j \in DOMAIN masks \ resized : masks[j] = EnvOf(dev, j, running[j].slots[Card])
    /\ \A j \in DOMAIN masks \cap Bursty : masks[j] = Units(dev)

LEMMA MaskInitInv == MaskInit => MaskInv
<1> SUFFICES ASSUME MaskInit PROVE MaskInv
  OBVIOUS
<1>1. running = <<>> /\ masks = <<>> /\ dev \in Topologies
  BY DEF MaskInit, Init
<1>2. DOMAIN masks = {} /\ OnCard(running, Card) = {}
  BY <1>1 DEF OnCard
<1> QED BY <1>1, <1>2 DEF MaskInv

LEMMA MaskNextInv == MaskInv /\ [MaskNext]_maskVars => MaskInv'
<1> SUFFICES ASSUME MaskInv, [MaskNext]_maskVars PROVE MaskInv'
  OBVIOUS
<1>1. CASE MaskNext
  <2> DEFINE on == OnCard(running', Card)
  <2>1. /\ dev' = dev /\ dev \in Topologies
        /\ masks' = [j \in on |-> IF j \in DOMAIN masks THEN masks[j]
                                  ELSE EnvOf(dev, j, running'[j].slots[Card])]
        /\ resized' = {j \in DOMAIN masks \cap on :
                         j \in resized \/ running'[j].slots[Card] # running[j].slots[Card]}
    BY <1>1 DEF MaskNext, StartLocked, MaskInv
  <2> HIDE DEF on
  <2>2. DOMAIN masks' = on
    BY <2>1
  <2>3. ASSUME NEW j \in on, j \notin resized'
        PROVE  masks'[j] = EnvOf(dev', j, running'[j].slots[Card])
    <3>1. CASE j \in DOMAIN masks
      <4>1. j \notin resized /\ running'[j].slots[Card] = running[j].slots[Card]
        BY <2>1, <2>3, <3>1
      <4>2. masks'[j] = masks[j] /\ masks[j] = EnvOf(dev, j, running[j].slots[Card])
        BY <2>1, <2>3, <3>1, <4>1 DEF MaskInv
      <4> QED BY <2>1, <4>1, <4>2
    <3>2. CASE j \notin DOMAIN masks
      BY <2>1, <2>3, <3>2
    <3> QED BY <3>1, <3>2
  <2>4. ASSUME NEW j \in on \cap Bursty PROVE masks'[j] = Units(dev')
    <3>1. CASE j \in DOMAIN masks
      BY <2>1, <2>4, <3>1 DEF MaskInv
    <3>2. CASE j \notin DOMAIN masks
      <4>1. PICK slot : slot = running'[j].slots[Card]
        OBVIOUS
      <4>2. masks'[j] = EnvOf(dev, j, slot)
        BY <2>1, <2>4, <3>2, <4>1
      <4>3. ~(100 < 100)
        OBVIOUS
      <4>4. EnvOf(dev, j, slot) = Units(dev)
        BY <2>4, <4>3 DEF EnvOf, JobEnv, SlotPercent
      <4> QED BY <2>1, <4>2, <4>4
    <3> QED BY <3>1, <3>2
  <2> QED BY <2>1, <2>2, <2>3, <2>4 DEF MaskInv, on
<1>2. CASE UNCHANGED maskVars
  BY <1>2 DEF maskVars, vars, MaskInv, OnCard
<1> QED BY <1>1, <1>2

\* The masks take nothing from the scheduler: every step is one of its steps.
LEMMA MaskSched == MaskSpec => Spec
<1>1. MaskInit => Init
  BY DEF MaskInit
<1>2. [MaskNext]_maskVars => [Next]_vars
  BY DEF MaskNext, maskVars
<1> QED BY <1>1, <1>2, PTL DEF MaskSpec, Spec

LEMMA MasksFollow == Sound(running) /\ MaskInv => MasksApart
<1> SUFFICES ASSUME Sound(running), MaskInv PROVE MasksApart
  OBVIOUS
<1>1. dev \in Topologies /\ Card \in Cards
  BY CardFacts DEF MaskInv
<1>2. PICK d \in Topologies : d = dev
  BY <1>1
<1>3. ASSUME NEW i \in DOMAIN masks \ (resized \cup Bursty)
      PROVE  \E slot :
               /\ slot = running[i].slots[Card]
               /\ slot.ids \in SUBSET (0 .. S - 1) /\ slot.ids # {} /\ Cardinality(slot.ids) = slot.seats
               /\ slot.seats \in Nat
               /\ masks[i] = JobEnv(d, slot.ids, ComputePercent(slot.seats))
  <2>1. i \in OnCard(running, Card) /\ masks[i] = EnvOf(d, i, running[i].slots[Card])
    BY <1>2, <1>3 DEF MaskInv
  <2>2. PICK slot : slot = running[i].slots[Card]
    OBVIOUS
  <2>3. slot.ids \subseteq 0 .. S - 1 /\ Cardinality(slot.ids) = slot.seats
    BY <1>1, <2>1, <2>2 DEF Sound, Divided, S
  <2>4. slot.seats = NeedSeats(running[i].req, Card) /\ running[i].req \in Request
    BY <2>1, <2>2 DEF Sound, Whole, OnCard, IsRunMap, IsPlaced
  <2>5. slot.seats \in Nat \ {0}
    BY <1>1, <2>4, NeedType, PlacementAssumption
  <2>6. slot.ids # {}
    BY <2>3, <2>5, FS_EmptySet
  <2>7. masks[i] = JobEnv(d, slot.ids, ComputePercent(slot.seats))
    BY <1>3, <2>1, <2>2 DEF EnvOf, SlotPercent
  <2> QED BY <2>2, <2>3, <2>5, <2>6, <2>7
<1>4. ASSUME NEW i \in DOMAIN masks \ (resized \cup Bursty)
      PROVE  /\ masks[i] # {} /\ masks[i] \subseteq Units(dev)
             /\ running[i].slots[Card].seats < S => masks[i] # Units(dev)
  <2>1. PICK slot :
          /\ slot = running[i].slots[Card]
          /\ slot.ids \in SUBSET (0 .. S - 1) /\ slot.ids # {} /\ Cardinality(slot.ids) = slot.seats
          /\ slot.seats \in Nat
          /\ masks[i] = JobEnv(d, slot.ids, ComputePercent(slot.seats))
    BY <1>3
  <2>2. S \in Nat
    BY CardFacts
  <2>3. CASE slot.seats < S
    <3>1. masks[i] = SeatsMask(d, slot.ids)
      BY <2>1, <2>3, JobEnvIs
    <3>2. masks[i] # {} /\ masks[i] \subseteq Units(d)
      BY <2>1, <3>1, SeatsMaskIs
    <3>3. PICK t \in 0 .. S - 1 : t \notin slot.ids
      <4>1. SUFFICES ASSUME slot.ids = 0 .. S - 1 PROVE FALSE
        BY <2>1
      <4>2. Cardinality(0 .. S - 1) = S
        <5>1. 0 \in Int /\ S - 1 \in Int /\ ~(0 > S - 1)
          BY CardFacts
        <5>2. Cardinality(0 .. S - 1) = S - 1 - 0 + 1
          BY <5>1, FS_Interval
        <5> QED BY <2>2, <5>2
      <4> QED BY <2>1, <2>2, <2>3, <4>1, <4>2
    <3>4. masks[i] # Units(d)
      BY <2>1, <3>1, <3>3, SeatsMaskPart
    <3> QED BY <1>2, <3>2, <3>4
  <2>4. CASE ~(slot.seats < S)
    <3>1. slot.seats >= S
      BY <2>1, <2>2, <2>4
    <3>2. masks[i] = Units(d)
      BY <2>1, <3>1, JobEnvIs
    <3>3. d.units \in Nat /\ d.units >= 2 * S /\ S \in Nat \ {0}
      BY CardFacts
    <3>4. 0 \in Units(d)
      BY <3>3 DEF Units
    <3> QED BY <1>2, <2>1, <2>4, <3>2, <3>4
  <2> QED BY <2>3, <2>4
<1>5. ASSUME NEW i \in DOMAIN masks \ (resized \cup Bursty), NEW j \in (DOMAIN masks \ (resized \cup Bursty)) \ {i}
      PROVE  masks[i] \cap masks[j] = {}
  <2>1. PICK si :
          /\ si = running[i].slots[Card]
          /\ si.ids \in SUBSET (0 .. S - 1) /\ si.ids # {} /\ Cardinality(si.ids) = si.seats
          /\ si.seats \in Nat
          /\ masks[i] = JobEnv(d, si.ids, ComputePercent(si.seats))
    BY <1>3
  <2>2. j \in DOMAIN masks \ (resized \cup Bursty) /\ j # i
    OBVIOUS
  <2>3. PICK sj :
          /\ sj = running[j].slots[Card]
          /\ sj.ids \in SUBSET (0 .. S - 1) /\ sj.ids # {} /\ Cardinality(sj.ids) = sj.seats
          /\ sj.seats \in Nat
          /\ masks[j] = JobEnv(d, sj.ids, ComputePercent(sj.seats))
    BY <1>3, <2>2
  <2>4. si.ids \cap sj.ids = {}
    <3>1. i \in OnCard(running, Card) /\ j \in OnCard(running, Card) \ {i}
      BY <2>2 DEF MaskInv
    <3>2. running[i].slots[Card].ids \cap running[j].slots[Card].ids = {}
      BY <1>1, <3>1 DEF Sound, Divided
    <3> QED BY <2>1, <2>3, <3>2
  <2>5. S \in Nat
    BY CardFacts
  <2>6. si.seats < S /\ sj.seats < S
    <3>1. ASSUME NEW a, a.ids \in SUBSET (0 .. S - 1), a.ids # {}, Cardinality(a.ids) = a.seats,
                 a.seats \in Nat, NEW B \in SUBSET (0 .. S - 1), B # {}, a.ids \cap B = {}
          PROVE  a.seats < S
      <4>1. SUFFICES ASSUME a.seats >= S PROVE FALSE
        BY <2>5, <3>1
      <4>2. a.ids = 0 .. S - 1
        BY <1>2, <3>1, <4>1, JobEnvIs
      <4> QED BY <3>1, <4>2
    <3>2. sj.ids \cap si.ids = {}
      BY <2>4
    <3>3. si.seats < S
      BY <2>1, <2>3, <2>4, <3>1
    <3>4. sj.seats < S
      BY <2>1, <2>3, <3>1, <3>2
    <3> QED BY <3>3, <3>4
  <2>7. masks[i] = SeatsMask(d, si.ids) /\ masks[j] = SeatsMask(d, sj.ids)
    BY <2>1, <2>3, <2>6, JobEnvIs
  <2> QED BY <2>1, <2>3, <2>4, <2>7, SeatsMaskApart
<1>6. \A i \in DOMAIN masks \cap Bursty : masks[i] = Units(dev)
  BY DEF MaskInv
<1> QED BY <1>4, <1>5, <1>6 DEF MasksApart

\* For any card of at least two units a seat, any engines and chiplets, and any calls of
\* the scheduler, preemption and draining included: jobs that do not burst and have kept the
\* seats they were started with run on units of their own, and of them only one with all seats
\* on all units; a job that bursts runs on all units (scheduler.go:166-170, amd.go:269).
THEOREM MasksAlwaysApart == MaskSpec => []MasksApart
<1>1. MaskSpec => []IInv
  BY MaskSched, SpecIInv, PTL
<1>2. MaskSpec => []MaskInv
  BY MaskInitInv, MaskNextInv, PTL DEF MaskSpec
<1>3. IInv /\ MaskInv => MasksApart
  BY MasksFollow DEF IInv
<1> QED BY <1>1, <1>2, <1>3, PTL

-----------------------------------------------------------------------------
(* Hosts: the file. *)

\* Lists of hosts in which the default, if there is one, is listed.
Conf == {h \in [remotes : SUBSET Names, default : Names \cup {NoName}] :
            h.default \in h.remotes \cup {NoName}}

\* What is in the file, and what any command has in hand, is such a list.
FileInv ==
    /\ file \in Conf \cup {Bad}
    /\ DOMAIN cmds = Commands /\ \A p \in Commands : cmds[p].conf \in Conf
    /\ up \subseteq Names

LEMMA EmptyConf == Empty \in Conf
BY DEF Empty, Conf

LEMMA ChangesKeep ==
    ASSUME NEW h \in Conf, up \subseteq Names
    PROVE  Changes(h) \subseteq Conf
<1>1. /\ h = [remotes |-> h.remotes, default |-> h.default]
      /\ h.remotes \in SUBSET Names /\ h.default \in h.remotes \cup {NoName}
  BY DEF Conf
<1>2. ASSUME NEW name \in Names, NEW b \in BOOLEAN PROVE RemoteAdd(h, name, b) \in Conf
  BY <1>1 DEF RemoteAdd, Conf
<1>3. ASSUME NEW name \in Names PROVE RemoteRm(h, name) \in Conf
  BY <1>1 DEF RemoteRm, Conf
<1>4. ASSUME NEW name \in h.remotes PROVE [h EXCEPT !.default = name] \in Conf
  BY <1>1 DEF Conf
<1> QED BY <1>1, <1>2, <1>3, <1>4 DEF Changes

LEMMA FileNextInv == FileInv /\ [HostsNext]_hostVars => FileInv'
<1> SUFFICES ASSUME FileInv, [HostsNext]_hostVars PROVE FileInv'
  OBVIOUS
<1> USE DEF FileInv
<1>i. IdleCmd.conf \in Conf
  BY EmptyConf DEF IdleCmd
<1>1. ASSUME NEW p \in Commands, Load(p) PROVE FileInv'
  BY <1>1 DEF Load
<1>2. ASSUME NEW p \in Commands, Truncate(p) PROVE FileInv'
  <2>1. PICK h \in Changes(cmds[p].conf) : cmds' = [cmds EXCEPT ![p] = [pc |-> "writing", conf |-> h]]
    BY <1>2 DEF Truncate
  <2>2. h \in Conf
    BY <2>1, ChangesKeep
  <2>3. file' = Empty /\ up' = up
    BY <1>2 DEF Truncate
  <2> QED BY <2>1, <2>2, <2>3, EmptyConf
<1>3. ASSUME NEW p \in Commands, Write(p) PROVE FileInv'
  <2>1. file' \in Conf \cup {Bad}
    BY <1>3 DEF Write
  <2>2. cmds' = [cmds EXCEPT ![p] = IdleCmd] /\ up' = up
    BY <1>3 DEF Write
  <2> QED BY <1>i, <2>1, <2>2
<1>4. ASSUME NEW p \in Commands, Killed(p) PROVE FileInv'
  BY <1>i, <1>4 DEF Killed
<1>5. CASE Mend
  BY <1>5, EmptyConf DEF Mend
<1>6. CASE UNCHANGED <<file, cmds, up>>
  BY <1>6
<1>7. CASE PlaceRemote \/ Exec \/ RunEnd
  BY <1>6, <1>7 DEF PlaceRemote, Exec, RunEnd
<1>8. ASSUME NEW r \in MyAsks, RunLoad(r) PROVE FileInv'
  BY <1>6, <1>8 DEF RunLoad
<1>9. ASSUME NEW r \in MyAsks, NEW n \in Names, RunExplicit(r, n) PROVE FileInv'
  BY <1>6, <1>9 DEF RunExplicit
<1>10. ASSUME NEW n \in Names, Ask(n) PROVE FileInv'
  BY <1>6, <1>10 DEF Ask
<1>11. ASSUME NEW n \in Names, Reach(n) PROVE FileInv'
  BY <1>11 DEF Reach
<1>12. ASSUME NEW n \in Names, NEW r \in LocalAsks, LocalStart(r, n) PROVE FileInv'
  BY <1>6, <1>12 DEF LocalStart
<1>13. ASSUME NEW n \in Names, NEW j \in Ids, LocalEnd(j, n) PROVE FileInv'
  BY <1>6, <1>13 DEF LocalEnd
<1>14. CASE UNCHANGED hostVars
  BY <1>6, <1>14 DEF hostVars
<1> QED BY <1>1, <1>2, <1>3, <1>4, <1>5, <1>7, <1>8, <1>9, <1>10, <1>11, <1>12, <1>13, <1>14
        DEF HostsNext

LEMMA HostsSpecFile == HostsSpec => []FileInv
<1>1. HostsInit => FileInv
  BY EmptyConf DEF HostsInit, FileInv, IdleCmd
<1> QED BY <1>1, FileNextInv, PTL DEF HostsSpec

\* For any hosts and any number of commands that read, change and write the file and may
\* be killed in between: the default is a listed host.
THEOREM DefaultAlwaysListed == HostsSpec => []DefaultListed
<1>1. FileInv => DefaultListed
  BY DEF FileInv, DefaultListed, Conf
<1> QED BY <1>1, HostsSpecFile, PTL

-----------------------------------------------------------------------------
(* Hosts: the client's reckoning. *)

\* For a share of a card the client rounds as the scheduler does.
LEMMA ClientReckons ==
    ASSUME NEW r \in Request, ShareOK(r), NEW c \in Cards
    PROVE  ClientSeats(r, c) = NeedSeats(r, c) /\ ClientMem(r, c) = NeedMem(r, c)
<1>1. PICK N \in Nat \ {0}, U \in Nat \ {0}, a \in Nat :
        N = CardSeats[c] /\ U = Unit /\ a = r.share /\ 1 <= a /\ a <= U
  BY PlacementAssumption DEF Request, ShareOK
<1>2. PICK k \in Nat : k = a * N
  OBVIOUS
<1>3. 1 <= k /\ k <= U * N
  BY <1>1, <1>2
<1>4. PICK q \in Nat : q = (k + U - 1) \div U
  <2>1. k + U - 1 \in Nat
    BY <1>3
  <2> QED BY <2>1, DivIs
<1>5. 1 <= q
  BY <1>3, <1>4
<1>6. q <= N
  <2>1. q * U <= k + U - 1
    BY <1>3, <1>4
  <2>2. q * U <= U * N + U - 1
    BY <1>3, <2>1
  <2>3. SUFFICES ASSUME q >= N + 1 PROVE FALSE
    OBVIOUS
  <2>4. q * U >= (N + 1) * U
    BY <2>3
  <2> QED BY <2>2, <2>4
<1>7. ClientSeats(r, c) = q
  BY <1>1, <1>2, <1>4 DEF ClientSeats
<1>8. NeedSeats(r, c) = q
  BY <1>1, <1>2, <1>4, <1>5, <1>6 DEF NeedSeats, Seats
<1> QED BY <1>7, <1>8 DEF ClientMem, NeedMem

\* What host n says of its cards.
CardsOf(run, n) ==
    [c \in HostCards[n] |-> [seats |-> CardSeats[c] - SeatsUsed(run, c),
                             mem |-> CardMem[c] - MemUsed(run, c)]]

\* The views are those of the hosts as they are.
Fresh(views, run, alive) ==
    \A n \in DOMAIN views : views[n] = IF n \in alive THEN CardsOf(run, n) ELSE <<>>

\* Then the client sees room where the scheduler has it.
LEMMA RoomIs ==
    ASSUME NEW r \in Request, ShareOK(r), NEW run, Sound(run), NEW alive,
           NEW views, Fresh(views, run, alive), DOMAIN views \subseteq Names
    PROVE  /\ \A x \in Room(r, views) : x = <<x[1], x[2]>>
           /\ \A n, c : <<n, c>> \in Room(r, views) <=>
                           n \in DOMAIN views \cap alive /\ c \in Candidates(run, Others(n), r)
           /\ \A n \in DOMAIN views \cap alive : \A c \in Candidates(run, Others(n), r) :
                 Left(r, views, <<n, c>>) = SeatsLeft(run, r, c) /\ c \in HostCards[n] /\ c \in Cards
<1>1. \A x \in Room(r, views) : x = <<x[1], x[2]>>
  BY DEF Room
<1>2. ASSUME NEW n, NEW c
      PROVE  <<n, c>> \in Room(r, views) <=>
               /\ n \in DOMAIN views /\ c \in DOMAIN views[n]
               /\ views[n][c].seats >= ClientSeats(r, c) /\ views[n][c].mem >= ClientMem(r, c)
  BY DEF Room
<1>3. ASSUME NEW n \in DOMAIN views, n \notin alive PROVE DOMAIN views[n] = {}
  BY <1>3 DEF Fresh
<1>4. ASSUME NEW n \in DOMAIN views \cap alive
      PROVE  /\ HostCards[n] \subseteq Cards /\ DOMAIN views[n] = HostCards[n]
             /\ Others(n) = Cards \ HostCards[n]
             /\ \A c \in HostCards[n] : /\ views[n][c].seats = CardSeats[c] - SeatsUsed(run, c)
                                        /\ views[n][c].mem = CardMem[c] - MemUsed(run, c)
  <2>1. HostCards[n] \subseteq Cards
    <3>1. n \in Names
      OBVIOUS
    <3> QED BY <3>1, HostsAssumption
  <2>2. PICK v : v = views[n]
    OBVIOUS
  <2>3. v = CardsOf(run, n)
    BY <2>2 DEF Fresh
  <2>4. DOMAIN v = HostCards[n]
    BY <2>3 DEF CardsOf
  <2>5. ASSUME NEW c \in HostCards[n]
        PROVE  v[c].seats = CardSeats[c] - SeatsUsed(run, c) /\ v[c].mem = CardMem[c] - MemUsed(run, c)
    BY <2>3 DEF CardsOf
  <2>6. Others(n) = Cards \ HostCards[n]
    BY DEF Others
  <2> QED BY <2>1, <2>2, <2>4, <2>5, <2>6
<1>5. ASSUME NEW c \in Cards
      PROVE  /\ CardSeats[c] \in Nat /\ CardMem[c] \in Nat
             /\ SeatsUsed(run, c) \in Nat /\ MemUsed(run, c) \in Nat
             /\ NeedSeats(r, c) \in Nat /\ NeedMem(r, c) \in Nat
             /\ ClientSeats(r, c) = NeedSeats(r, c) /\ ClientMem(r, c) = NeedMem(r, c)
  <2>1. CardSeats[c] \in Nat /\ CardMem[c] \in Nat
    BY PlacementAssumption
  <2>2. SeatsUsed(run, c) \in Nat /\ MemUsed(run, c) \in Nat
    BY UsedType DEF Sound
  <2>3. NeedSeats(r, c) \in Nat /\ NeedMem(r, c) \in Nat
    BY <2>1, NeedType
  <2> QED BY <2>1, <2>2, <2>3, ClientReckons
<1>6. ASSUME NEW n \in DOMAIN views \cap alive, NEW c \in HostCards[n]
      PROVE  views[n][c].seats >= ClientSeats(r, c) /\ views[n][c].mem >= ClientMem(r, c)
               <=> NeedOK(r, c) /\ Fits(run, r, c)
  <2>1. c \in Cards
    BY <1>4
  <2>2. views[n][c].seats = CardSeats[c] - SeatsUsed(run, c) /\ views[n][c].mem = CardMem[c] - MemUsed(run, c)
    BY <1>4
  <2>3. CardSeats[c] - SeatsUsed(run, c) >= NeedSeats(r, c)
          <=> SeatsUsed(run, c) + NeedSeats(r, c) <= CardSeats[c]
    BY <1>5, <2>1
  <2>4. CardMem[c] - MemUsed(run, c) >= NeedMem(r, c)
          <=> NeedMem(r, c) <= CardMem[c] /\ MemUsed(run, c) + NeedMem(r, c) <= CardMem[c]
    BY <1>5, <2>1
  <2>5. ClientSeats(r, c) = NeedSeats(r, c) /\ ClientMem(r, c) = NeedMem(r, c)
    BY <1>5, <2>1
  <2> QED BY <2>2, <2>3, <2>4, <2>5 DEF NeedOK, Fits
<1>7. ASSUME NEW n \in DOMAIN views \cap alive, NEW c
      PROVE  c \in Candidates(run, Others(n), r) <=> c \in HostCards[n] /\ NeedOK(r, c) /\ Fits(run, r, c)
  BY <1>4 DEF Candidates
<1>8. ASSUME NEW n, NEW c
      PROVE  <<n, c>> \in Room(r, views) <=>
               n \in DOMAIN views \cap alive /\ c \in Candidates(run, Others(n), r)
  <2>1. CASE n \in DOMAIN views \cap alive
    BY <1>2, <1>4, <1>6, <1>7, <2>1
  <2>2. CASE ~(n \in DOMAIN views \cap alive)
    BY <1>2, <1>3, <2>2
  <2> QED BY <2>1, <2>2
<1>9. ASSUME NEW n \in DOMAIN views \cap alive, NEW c \in Candidates(run, Others(n), r)
      PROVE  Left(r, views, <<n, c>>) = SeatsLeft(run, r, c) /\ c \in HostCards[n] /\ c \in Cards
  <2>1. c \in HostCards[n] /\ c \in Cards
    BY <1>4, <1>7
  <2>2. views[n][c].seats = CardSeats[c] - SeatsUsed(run, c)
    BY <1>4, <2>1
  <2>3. Left(r, views, <<n, c>>) = views[n][c].seats - ClientSeats(r, c)
    BY DEF Left
  <2> QED BY <1>5, <2>1, <2>2, <2>3 DEF SeatsLeft
<1> QED BY <1>1, <1>8, <1>9

\* There is a first name in a set that is not empty.
LEMMA FirstNameIs ==
    ASSUME NEW h, NEW T \in SUBSET Names, T # {}
    PROVE  /\ FirstName(h, T) \in T
           /\ \A m \in T \ {FirstName(h, T)} : NameBefore(h, FirstName(h, T), m)
<1>1. T \in SUBSET Nat
  BY HostsAssumption
<1>2. \E n \in T : \A m \in T \ {n} : NameBefore(h, n, m)
  <2>1. CASE h.default \in T
    BY <2>1 DEF NameBefore
  <2>2. CASE h.default \notin T
    <3>1. PICK n \in T : \A m \in T : n <= m
      BY <1>1, NatLeast
    <3>2. \A m \in T \ {n} : n < m
      BY <1>1, <3>1
    <3> QED BY <2>2, <3>2 DEF NameBefore
  <2> QED BY <2>1, <2>2
<1> QED BY <1>2 DEF FirstName

\* Of some cards of hosts, one has the most to spare.
LEMMA MostExists ==
    ASSUME NEW K \in SUBSET Cards, K # {}, NEW left, \A c \in K : left[c] \in Int
    PROVE  \E c \in K : \A e \in K : left[c] >= left[e]
<1>1. PICK R : R = {p \in K \X K : \/ left[p[1]] > left[p[2]]
                                   \/ left[p[1]] = left[p[2]] /\ p[1] < p[2]}
  OBVIOUS
<1>2. ASSUME NEW x \in K, NEW y \in K
      PROVE  <<x, y>> \in R <=> left[x] > left[y] \/ (left[x] = left[y] /\ x < y)
  BY <1>1
<1>3. K \subseteq Nat
  BY PlacementAssumption
<1>4. IsOrder(K, R)
  <2>1. ASSUME NEW x \in K PROVE <<x, x>> \notin R
    BY <1>2, <1>3
  <2>2. ASSUME NEW x \in K, NEW y \in K, x # y PROVE <<x, y>> \in R \/ <<y, x>> \in R
    BY <1>2, <1>3, <2>2
  <2>3. ASSUME NEW x \in K, NEW y \in K, NEW z \in K, <<x, y>> \in R, <<y, z>> \in R PROVE <<x, z>> \in R
    BY <1>2, <1>3, <2>3
  <2> QED BY <2>1, <2>2, <2>3 DEF IsOrder
<1>5. IsFiniteSet(K)
  BY PlacementAssumption, FS_Subset
<1>6. PICK c \in K : \A y \in K \ {c} : <<c, y>> \in R
  BY <1>4, <1>5, FirstExists
<1>7. ASSUME NEW e \in K PROVE left[c] >= left[e]
  <2>1. left[c] \in Int /\ left[e] \in Int
    OBVIOUS
  <2>2. CASE e = c
    BY <2>1, <2>2
  <2>3. CASE e # c
    <3>1. <<c, e>> \in R
      BY <1>6, <2>3
    <3>2. left[c] > left[e] \/ left[c] = left[e]
      BY <1>2, <3>1
    <3> QED BY <2>1, <3>2
  <2> QED BY <2>2, <2>3
<1> QED BY <1>7

\* With views of the hosts as they are, the host that the client picks is the one with
\* the most seats to spare, and the default on a tie.
LEMMA BestHostIs ==
    ASSUME NEW h, NEW r \in Request, ShareOK(r), NEW run, Sound(run), NEW alive,
           NEW views, Fresh(views, run, alive), DOMAIN views \subseteq Names,
           NEW n \in DOMAIN views \cap alive, NEW c \in Candidates(run, Others(n), r)
    PROVE  /\ Room(r, views) # {}
           /\ \E e \in Candidates(run, Others(BestHost(h, r, views)), r) :
                 \/ SeatsLeft(run, r, e) > SeatsLeft(run, r, c)
                 \/ SeatsLeft(run, r, e) = SeatsLeft(run, r, c) /\ (n = BestHost(h, r, views) \/ n # h.default)
<1>1. PICK room : room = Room(r, views)
  OBVIOUS
<1>2. /\ \A x \in room : x = <<x[1], x[2]>>
      /\ \A m, e : <<m, e>> \in room <=> m \in DOMAIN views \cap alive /\ e \in Candidates(run, Others(m), r)
      /\ \A m \in DOMAIN views \cap alive : \A e \in Candidates(run, Others(m), r) :
            Left(r, views, <<m, e>>) = SeatsLeft(run, r, e) /\ e \in HostCards[m] /\ e \in Cards
  BY <1>1, RoomIs
<1>3. <<n, c>> \in room
  BY <1>2
<1>4. ASSUME NEW e \in Cards PROVE SeatsLeft(run, r, e) \in Int
  <2>1. SeatsUsed(run, e) \in Nat
    BY UsedType DEF Sound
  <2>2. CardSeats[e] \in Nat
    BY PlacementAssumption
  <2>3. NeedSeats(r, e) \in Nat
    BY <2>2, NeedType
  <2> QED BY <2>1, <2>2, <2>3 DEF SeatsLeft
<1>5. PICK left : left = [e \in Cards |-> SeatsLeft(run, r, e)]
  OBVIOUS
<1>6. \A e \in Cards : left[e] = SeatsLeft(run, r, e) /\ left[e] \in Int
  BY <1>4, <1>5
<1>7. \A m, e : <<m, e>> \in room => e \in Cards /\ m \in DOMAIN views /\ Left(r, views, <<m, e>>) = left[e]
  BY <1>2, <1>6
<1>8. PICK K \in SUBSET Cards : \A e \in Cards : e \in K <=> \E m : <<m, e>> \in room
  <2>1. {e \in Cards : \E m \in DOMAIN views : <<m, e>> \in room} \in SUBSET Cards
    OBVIOUS
  <2> QED BY <1>7, <2>1
<1>9. PICK b \in K : \A e \in K : left[b] >= left[e]
  <2>1. K # {}
    BY <1>3, <1>7, <1>8
  <2>2. \A e \in K : left[e] \in Int
    BY <1>6
  <2> QED BY <2>1, <2>2, MostExists
<1>10. PICK most : most = {x \in room : \A y \in room : Left(r, views, x) >= Left(r, views, y)}
  OBVIOUS
<1>11. ASSUME NEW m, NEW e, <<m, e>> \in most
       PROVE  <<m, e>> \in room /\ \A k, f : <<k, f>> \in room => left[e] >= left[f]
  <2>1. <<m, e>> \in room /\ \A y \in room : Left(r, views, <<m, e>>) >= Left(r, views, y)
    BY <1>10, <1>11
  <2> QED BY <1>7, <2>1
<1>12. ASSUME NEW m, NEW e, <<m, e>> \in room, \A k, f : <<k, f>> \in room => left[e] >= left[f]
       PROVE  <<m, e>> \in most
  <2>1. ASSUME NEW y \in room PROVE Left(r, views, <<m, e>>) >= Left(r, views, y)
    <3>1. y = <<y[1], y[2]>>
      BY <1>2
    <3>2. <<y[1], y[2]>> \in room
      BY <3>1
    <3>3. Left(r, views, <<y[1], y[2]>>) = left[y[2]] /\ left[e] >= left[y[2]]
      BY <1>7, <1>12, <3>2
    <3>4. Left(r, views, <<m, e>>) = left[e]
      BY <1>7, <1>12
    <3>5. Left(r, views, y) = left[y[2]]
      BY <3>1, <3>3
    <3> QED BY <3>3, <3>4, <3>5
  <2> QED BY <1>10, <1>12, <2>1
<1>13. PICK T : T = {x[1] : x \in most}
  OBVIOUS
<1>14. ASSUME NEW m PROVE m \in T <=> \E e : <<m, e>> \in most
  <2>1. ASSUME m \in T PROVE \E e : <<m, e>> \in most
    <3>1. PICK x \in most : m = x[1]
      BY <1>13, <2>1
    <3>2. x = <<x[1], x[2]>>
      BY <1>2, <1>10
    <3>3. <<m, x[2]>> \in most
      BY <3>1, <3>2
    <3> QED BY <3>3
  <2>2. ASSUME NEW e, <<m, e>> \in most PROVE m \in T
    BY <1>13, <2>2
  <2> QED BY <2>1, <2>2
<1>15. T \in SUBSET Names /\ T # {}
  <2>1. PICK m : <<m, b>> \in room
    BY <1>8, <1>9
  <2>2. \A k, f : <<k, f>> \in room => left[b] >= left[f]
    BY <1>7, <1>8, <1>9
  <2>3. <<m, b>> \in most
    BY <1>12, <2>1, <2>2
  <2>4. m \in T
    BY <1>14, <2>3
  <2>5. \A k \in T : k \in Names
    BY <1>7, <1>11, <1>14
  <2> QED BY <2>4, <2>5
<1>16. PICK to : to = BestHost(h, r, views)
  OBVIOUS
<1>17. to \in T /\ \A m \in T \ {to} : NameBefore(h, to, m)
  <2>1. to = FirstName(h, T)
    BY <1>1, <1>10, <1>13, <1>16 DEF BestHost
  <2> QED BY <1>15, <2>1, FirstNameIs
<1>18. PICK e : <<to, e>> \in most
  BY <1>14, <1>17
<1>19. /\ <<to, e>> \in room /\ left[e] >= left[c] /\ e \in Candidates(run, Others(to), r)
       /\ left[e] = SeatsLeft(run, r, e) /\ left[c] = SeatsLeft(run, r, c)
       /\ left[e] \in Int /\ left[c] \in Int
  <2>1. <<to, e>> \in room /\ left[e] >= left[c]
    BY <1>3, <1>11, <1>18
  <2>2. e \in Cards /\ c \in Cards
    BY <1>3, <1>7, <2>1
  <2> QED BY <1>2, <1>6, <2>1, <2>2
<1>20. ASSUME left[e] = left[c], n # to PROVE n # h.default
  <2>1. \A k, f : <<k, f>> \in room => left[c] >= left[f]
    BY <1>11, <1>18, <1>20
  <2>2. n \in T
    BY <1>3, <1>12, <1>14, <2>1
  <2>3. NameBefore(h, to, n)
    BY <1>17, <1>20, <2>2
  <2> QED BY <2>3 DEF NameBefore
<1>21. left[e] > left[c] \/ (left[e] = left[c] /\ (n = to \/ n # h.default))
  BY <1>19, <1>20
<1> QED BY <1>1, <1>3, <1>16, <1>19, <1>21

-----------------------------------------------------------------------------
(* Hosts: the run. *)

\* What runs elsewhere does not change what a host says of its cards.
LEMMA ElsewhereSame ==
    ASSUME NEW run, NEW new, NEW m \in Names,
           \A c \in HostCards[m] : /\ OnCard(new, c) = OnCard(run, c)
                                   /\ \A j \in OnCard(run, c) : new[j] = run[j]
    PROVE  CardsOf(new, m) = CardsOf(run, m)
<1>1. ASSUME NEW c \in HostCards[m]
      PROVE  SeatsUsed(new, c) = SeatsUsed(run, c) /\ MemUsed(new, c) = MemUsed(run, c)
  <2>1. [j \in OnCard(new, c) |-> new[j].slots[c].seats] = [j \in OnCard(run, c) |-> run[j].slots[c].seats]
    OBVIOUS
  <2>2. [j \in OnCard(new, c) |-> new[j].slots[c].mem] = [j \in OnCard(run, c) |-> run[j].slots[c].mem]
    OBVIOUS
  <2> QED BY <2>1, <2>2 DEF SeatsUsed, MemUsed
<1> QED BY <1>1 DEF CardsOf

LEMMA PlacedElsewhere ==
    ASSUME NEW run, NEW r, r.id \notin DOMAIN run, NEW n \in Names, NEW m \in Names, m # n, NEW order
    PROVE  CardsOf(Place(run, r, FitSlots(run, Others(n), r), order), m) = CardsOf(run, m)
<1>1. PICK slots : slots = FitSlots(run, Others(n), r)
  OBVIOUS
<1>2. DOMAIN slots \subseteq Candidates(run, Others(n), r)
  BY <1>1 DEF FitSlots, FirstK
<1>3. DOMAIN slots \subseteq HostCards[n]
  BY <1>2 DEF Candidates, Others
<1>4. HostCards[m] \cap HostCards[n] = {}
  BY HostsAssumption
<1>5. PICK new : new = Place(run, r, slots, order)
  OBVIOUS
<1>6. DOMAIN new = DOMAIN run \cup {r.id} /\ new[r.id].slots = slots
      /\ \A j \in DOMAIN run : new[j] = run[j]
  BY <1>5 DEF Place
<1>7. \A c \in HostCards[m] : /\ OnCard(new, c) = OnCard(run, c)
                              /\ \A j \in OnCard(run, c) : new[j] = run[j]
  <2>1. \A c \in HostCards[m] : c \notin DOMAIN slots
    BY <1>3, <1>4
  <2> QED BY <1>6, <2>1 DEF OnCard
<1> QED BY <1>1, <1>5, <1>7, ElsewhereSame

LEMMA EndedElsewhere ==
    ASSUME NEW run, NEW j \in DOMAIN run, NEW n \in Names, DOMAIN run[j].slots \subseteq HostCards[n],
           NEW m \in Names, m # n
    PROVE  CardsOf(Without(run, {j}), m) = CardsOf(run, m)
<1>1. HostCards[m] \cap HostCards[n] = {}
  BY HostsAssumption
<1>2. PICK new : new = Without(run, {j})
  OBVIOUS
<1>3. DOMAIN new = DOMAIN run \ {j} /\ \A i \in DOMAIN new : new[i] = run[i]
  BY <1>2 DEF Without
<1>4. \A c \in HostCards[m] : /\ OnCard(new, c) = OnCard(run, c)
                              /\ \A i \in OnCard(run, c) : new[i] = run[i]
  BY <1>1, <1>3 DEF OnCard
<1> QED BY <1>2, <1>4, ElsewhereSame

\* A drain with nobody in the queue.
LEMMA DrainEmpty ==
    ASSUME NEW run, NEW o, NEW off
    PROVE  Drain(run, o, <<>>, off).run = run /\ Drain(run, o, <<>>, off).started = <<>>
<1>1. PICK q \in Seq(Request) : q = <<>>
  <2>1. <<>> \in Seq(Request)
    OBVIOUS
  <2> QED BY <2>1
<1>2. q \in Seq(Request) /\ Len(q) = 0
  BY <1>1
<1>3. PICK after : /\ after[0] = [run |-> run, next |-> o, rest |-> <<>>, started |-> <<>>]
                   /\ \A k \in 1 .. Len(q) : after[k] = DrainOne(after[k-1], off, SortedQueue(q)[k])
                   /\ Drain(run, o, q, off) = after[Len(q)]
  BY DrainWalks
<1>4. Drain(run, o, q, off) = [run |-> run, next |-> o, rest |-> <<>>, started |-> <<>>]
  BY <1>2, <1>3
<1> QED BY <1>1, <1>4

\* A drain with one in the queue.
LEMMA DrainSingle ==
    ASSUME NEW run, Sound(run), NEW r \in Request, NEW off, NEW o, o = -1
    PROVE  Sound(Drain(run, o, <<r>>, off).run)
<1>1. PICK q \in Seq(Request) : q = <<r>>
  <2>1. <<r>> \in Seq(Request)
    OBVIOUS
  <2> QED BY <2>1
<1>2. q \in Seq(Request) /\ Len(q) = 1
  BY <1>1
<1>3. PICK after : /\ after[0] = [run |-> run, next |-> o, rest |-> <<>>, started |-> <<>>]
                   /\ \A k \in 1 .. Len(q) : after[k] = DrainOne(after[k-1], off, SortedQueue(q)[k])
                   /\ Drain(run, o, q, off) = after[Len(q)]
  BY DrainWalks
<1>4. PICK p \in Request : p = SortedQueue(q)[1]
  BY <1>2, SortedQueueIs
<1>5. after[1] = DrainOne(after[0], off, p) /\ Drain(run, o, q, off) = after[1]
  BY <1>2, <1>3, <1>4
<1>6. PICK s : s = after[0]
  OBVIOUS
<1>7. s.run = run /\ s.next + 1 = 0
  BY <1>3, <1>6
<1>8. DrainOne(s, off, p).run = IF FitErr(run, off, p) = "none"
                                  THEN Place(run, p, FitSlots(run, off, p), 0) ELSE run
  BY <1>7 DEF DrainOne
<1>9. Sound(DrainOne(s, off, p).run)
  <2>1. CASE FitErr(run, off, p) = "none"
    BY <1>8, <2>1, FitSound
  <2>2. CASE FitErr(run, off, p) # "none"
    BY <1>8, <2>2
  <2> QED BY <2>1, <2>2
<1> QED BY <1>1, <1>5, <1>6, <1>9

\* What the run knows of the hosts is true of those that have not changed since they were
\* asked, and when it has asked all of them and some have room it goes to the best one.
ClientOK(cl, run, alive, old) ==
    /\ cl = [pc |-> cl.pc, conf |-> cl.conf, req |-> cl.req, views |-> cl.views, to |-> cl.to]
    /\ cl.conf \in Conf /\ DOMAIN cl.views \subseteq cl.conf.remotes
    /\ cl.pc # "idle" => cl.req \in MyAsks
    /\ cl.pc \in {"ask", "sync"} => \A n \in DOMAIN cl.views \ old :
          cl.views[n] = IF n \in alive THEN CardsOf(run, n) ELSE <<>>
    /\ cl.pc = "sync" /\ cl.views # <<>> /\ Room(cl.req, cl.views) # {} =>
          cl.to = BestHost(cl.conf, cl.req, cl.views)

ClientInv == Sound(placed) /\ ClientOK(client, placed, up, stale)

LEMMA IdleOK ==
    ASSUME NEW run, NEW alive, NEW old
    PROVE  ClientOK(IdleRun, run, alive, old)
<1>1. IdleRun.conf \in Conf
  BY EmptyConf DEF IdleRun
<1> QED BY <1>1 DEF ClientOK, IdleRun

\* Once the job is at its host, what the run knows no longer matters.
LEMMA LaterOK ==
    ASSUME NEW cl, NEW run, NEW alive, NEW old, ClientOK(cl, run, alive, old), cl.pc # "idle",
           NEW pc \in {"placed", "queued", "refused"}, NEW run2, NEW old2
    PROVE  ClientOK([cl EXCEPT !.pc = pc], run2, alive, old2)
<1>1. PICK new : new = [cl EXCEPT !.pc = pc]
  OBVIOUS
<1>2. /\ cl = [pc |-> cl.pc, conf |-> cl.conf, req |-> cl.req, views |-> cl.views, to |-> cl.to]
      /\ cl.conf \in Conf /\ DOMAIN cl.views \subseteq cl.conf.remotes /\ cl.req \in MyAsks
  BY DEF ClientOK
<1>3. new = [pc |-> pc, conf |-> cl.conf, req |-> cl.req, views |-> cl.views, to |-> cl.to]
  BY <1>1, <1>2
<1>4. pc \notin {"idle", "ask", "sync"}
  OBVIOUS
<1>5. ClientOK(new, run2, alive, old2)
  BY <1>2, <1>3, <1>4 DEF ClientOK
<1> QED BY <1>1, <1>5

\* What a step at host n may change: of the other hosts nothing.
LEMMA HostsMove ==
    ASSUME NEW cl, NEW run, NEW alive, NEW old, ClientOK(cl, run, alive, old), NEW n \in Names,
           NEW run2, NEW alive2, NEW old2, old2 = old \cup ({n} \cap DOMAIN cl.views),
           \A m \in Names \ {n} : /\ m \in alive2 <=> m \in alive
                                  /\ CardsOf(run2, m) = CardsOf(run, m)
    PROVE  ClientOK(cl, run2, alive2, old2)
<1>1. ASSUME cl.pc \in {"ask", "sync"}, NEW m \in DOMAIN cl.views \ old2
      PROVE  cl.views[m] = IF m \in alive2 THEN CardsOf(run2, m) ELSE <<>>
  <2>1. m \in DOMAIN cl.views \ old /\ m # n
    BY <1>1
  <2>2. m \in Names
    BY <2>1 DEF ClientOK, Conf
  <2>3. cl.views[m] = IF m \in alive THEN CardsOf(run, m) ELSE <<>>
    BY <1>1, <2>1 DEF ClientOK
  <2> QED BY <2>1, <2>2, <2>3
<1> QED BY <1>1 DEF ClientOK

LEMMA ClientNextInv == FileInv /\ ClientInv /\ [HostsNext]_hostVars => ClientInv'
<1> SUFFICES ASSUME FileInv, ClientInv, [HostsNext]_hostVars PROVE ClientInv'
  OBVIOUS
<1>r. /\ MyAsks \subseteq Request /\ LocalAsks \subseteq Request
  BY HostsAssumption
<1>f. file # Bad => file \in Conf
  BY DEF FileInv
<1>s. Sound(placed) /\ ClientOK(client, placed, up, stale)
  BY DEF ClientInv
<1>u. CASE UNCHANGED <<client, up, placed, stale>>
  BY <1>u, <1>s DEF ClientInv
<1>i. ASSUME client' = IdleRun, Sound(placed') PROVE ClientInv'
  BY <1>i, IdleOK DEF ClientInv
<1>1. ASSUME NEW p \in Commands, Load(p) \/ Truncate(p) \/ Write(p) \/ Killed(p) PROVE ClientInv'
  BY <1>1, <1>u DEF Load, Truncate, Write, Killed
<1>2. CASE Mend
  BY <1>2, <1>u DEF Mend
<1>3. CASE UNCHANGED hostVars
  BY <1>3, <1>u DEF hostVars
<1>4. CASE RunEnd
  <2>1. client' = IdleRun /\ placed' = Without(placed, {Mine})
    BY <1>4 DEF RunEnd
  <2>2. Sound(placed')
    BY <1>s, <2>1, WithoutSound
  <2> QED BY <1>i, <2>1, <2>2
<1>5. ASSUME NEW r \in MyAsks, RunLoad(r) PROVE ClientInv'
  <2>1. file \in Conf /\ client' = [IdleRun EXCEPT !.pc = "ask", !.conf = file, !.req = r] /\ placed' = placed
    BY <1>5, <1>f DEF RunLoad
  <2>2. PICK f : f = file
    OBVIOUS
  <2>3. PICK new : new = [IdleRun EXCEPT !.pc = "ask", !.conf = f, !.req = r]
    OBVIOUS
  <2>4. new = [pc |-> "ask", conf |-> f, req |-> r, views |-> <<>>, to |-> NoName]
    BY <2>3 DEF IdleRun
  <2>5. ASSUME NEW run, NEW alive, NEW old PROVE ClientOK(new, run, alive, old)
    BY <2>1, <2>2, <2>4 DEF ClientOK
  <2>6. client' = new
    BY <2>1, <2>2, <2>3
  <2> QED BY <1>s, <2>1, <2>5, <2>6 DEF ClientInv
<1>6. ASSUME NEW r \in MyAsks, NEW n \in Names, RunExplicit(r, n) PROVE ClientInv'
  <2>1. file \in Conf /\ client' = [IdleRun EXCEPT !.pc = "sync", !.conf = file, !.req = r, !.to = n] /\ placed' = placed
    BY <1>6, <1>f DEF RunExplicit
  <2>2. PICK f : f = file
    OBVIOUS
  <2>3. PICK new : new = [IdleRun EXCEPT !.pc = "sync", !.conf = f, !.req = r, !.to = n]
    OBVIOUS
  <2>4. new = [pc |-> "sync", conf |-> f, req |-> r, views |-> <<>>, to |-> n]
    BY <2>3 DEF IdleRun
  <2>5. ASSUME NEW run, NEW alive, NEW old PROVE ClientOK(new, run, alive, old)
    BY <2>1, <2>2, <2>4 DEF ClientOK
  <2>6. client' = new
    BY <2>1, <2>2, <2>3
  <2> QED BY <1>s, <2>1, <2>5, <2>6 DEF ClientInv
<1>7. ASSUME NEW n \in Names, Ask(n) PROVE ClientInv'
  <2>1. PICK cl, run, alive, old : cl = client /\ run = placed /\ alive = up /\ old = stale
    OBVIOUS
  <2>2. PICK view : view = IF n \in alive THEN CardsOf(run, n) ELSE <<>>
    OBVIOUS
  <2>3. PICK seen : seen = [m \in DOMAIN cl.views \cup {n} |-> IF m = n THEN view ELSE cl.views[m]]
    OBVIOUS
  <2>4. client' = [cl EXCEPT !.views = seen] /\ placed' = run /\ up' = alive /\ stale' = old
    BY <1>7, <2>1, <2>2, <2>3 DEF Ask, Cards_, CardsOf
  <2>5. cl.pc = "ask" /\ n \in cl.conf.remotes
    BY <1>7, <2>1 DEF Ask
  <2>6. ClientOK(cl, run, alive, old)
    BY <1>s, <2>1
  <2>7. PICK new : new = [cl EXCEPT !.views = seen]
    OBVIOUS
  <2>8. new = [pc |-> "ask", conf |-> cl.conf, req |-> cl.req, views |-> seen, to |-> cl.to]
    <3>1. cl = [pc |-> cl.pc, conf |-> cl.conf, req |-> cl.req, views |-> cl.views, to |-> cl.to]
      BY <2>6 DEF ClientOK
    <3> QED BY <2>5, <2>7, <3>1
  <2>9. ASSUME NEW m \in DOMAIN seen \ old
        PROVE  seen[m] = IF m \in alive THEN CardsOf(run, m) ELSE <<>>
    <3>1. CASE m = n
      BY <2>2, <2>3, <3>1
    <3>2. CASE m # n
      <4>1. m \in DOMAIN cl.views \ old /\ seen[m] = cl.views[m]
        BY <2>3, <2>9, <3>2
      <4> QED BY <2>5, <2>6, <4>1 DEF ClientOK
    <3> QED BY <3>1, <3>2
  <2>10. cl.conf \in Conf /\ cl.req \in MyAsks /\ DOMAIN seen \subseteq cl.conf.remotes
    BY <2>3, <2>5, <2>6 DEF ClientOK
  <2>11. ClientOK(new, run, alive, old)
    BY <2>8, <2>9, <2>10 DEF ClientOK
  <2> QED BY <1>s, <2>1, <2>4, <2>7, <2>11 DEF ClientInv
<1>8. CASE PlaceRemote
  <2>1. PICK cl, run, alive, old : cl = client /\ run = placed /\ alive = up /\ old = stale
    OBVIOUS
  <2>2. ClientOK(cl, run, alive, old)
    BY <1>s, <2>1
  <2>3. placed' = run /\ up' = alive
    BY <1>8, <2>1 DEF PlaceRemote
  <2>4. CASE client' = IdleRun
    BY <1>i, <1>s, <2>1, <2>3, <2>4
  <2>5. CASE client' # IdleRun
    <3>1. PICK to : to = IF Room(cl.req, cl.views) # {} THEN BestHost(cl.conf, cl.req, cl.views)
                         ELSE FirstName(cl.conf, {n \in cl.conf.remotes : cl.views[n] # <<>>})
      OBVIOUS
    <3>2. client' = [cl EXCEPT !.pc = "sync", !.to = to] /\ stale' = old /\ cl.pc = "ask"
      BY <1>8, <2>1, <2>5, <3>1 DEF PlaceRemote
    <3>3. PICK new : new = [cl EXCEPT !.pc = "sync", !.to = to]
      OBVIOUS
    <3>4. new = [pc |-> "sync", conf |-> cl.conf, req |-> cl.req, views |-> cl.views, to |-> to]
      <4>1. cl = [pc |-> cl.pc, conf |-> cl.conf, req |-> cl.req, views |-> cl.views, to |-> cl.to]
        BY <2>2 DEF ClientOK
      <4> QED BY <3>3, <4>1
    <3>5. /\ cl.conf \in Conf /\ DOMAIN cl.views \subseteq cl.conf.remotes /\ cl.req \in MyAsks
          /\ \A n \in DOMAIN cl.views \ old : cl.views[n] = IF n \in alive THEN CardsOf(run, n) ELSE <<>>
      BY <2>2, <3>2 DEF ClientOK
    <3>6. ClientOK(new, run, alive, old)
      BY <3>1, <3>4, <3>5 DEF ClientOK
    <3> QED BY <1>s, <2>1, <2>3, <3>2, <3>3, <3>6 DEF ClientInv
  <2> QED BY <2>4, <2>5
<1>9. CASE Exec
  <2>1. PICK cl, run, alive, old, off : cl = client /\ run = placed /\ alive = up /\ old = stale /\ off = Others(cl.to)
    OBVIOUS
  <2>2. ClientOK(cl, run, alive, old) /\ Sound(run)
    BY <1>s, <2>1
  <2>3. cl.pc = "sync" /\ up' = alive
    BY <1>9, <2>1 DEF Exec
  <2>4. cl.pc # "idle" /\ cl.req \in Request
    BY <1>r, <2>2, <2>3 DEF ClientOK
  <2>5. CASE client' = IdleRun /\ placed' = placed
    BY <1>i, <1>s, <2>5
  <2>6. CASE FitErr(run, off, cl.req) = "none" /\ placed' = Place(run, cl.req, FitSlots(run, off, cl.req), 0)
               /\ client' = [cl EXCEPT !.pc = "placed"]
    <3>1. Sound(placed')
      BY <2>2, <2>4, <2>6, FitSound
    <3>2. ASSUME NEW run2, NEW old2 PROVE ClientOK([cl EXCEPT !.pc = "placed"], run2, alive, old2)
      BY <2>2, <2>4, LaterOK
    <3> QED BY <2>3, <2>6, <3>1, <3>2 DEF ClientInv
  <2>7. ASSUME NEW pc \in {"queued", "refused"}, client' = [cl EXCEPT !.pc = pc], placed' = placed PROVE ClientInv'
    <3>1. ASSUME NEW run2, NEW old2 PROVE ClientOK([cl EXCEPT !.pc = pc], run2, alive, old2)
      BY <2>2, <2>4, LaterOK
    <3> QED BY <1>s, <2>3, <2>7, <3>1 DEF ClientInv
  <2>8. \/ client' = IdleRun /\ placed' = placed
        \/ FitErr(run, off, cl.req) = "none" /\ placed' = Place(run, cl.req, FitSlots(run, off, cl.req), 0)
             /\ client' = [cl EXCEPT !.pc = "placed"]
        \/ \E pc \in {"queued", "refused"} : client' = [cl EXCEPT !.pc = pc] /\ placed' = placed
    BY <1>9, <2>1 DEF Exec
  <2> QED BY <2>5, <2>6, <2>7, <2>8
<1>10. ASSUME NEW n \in Names, NEW r \in LocalAsks, LocalStart(r, n) PROVE ClientInv'
  <2>1. PICK cl, run, alive, old : cl = client /\ run = placed /\ alive = up /\ old = stale
    OBVIOUS
  <2>2. PICK new : new = Place(run, r, FitSlots(run, Others(n), r), 0)
    OBVIOUS
  <2>3. /\ r.id \notin DOMAIN run /\ FitErr(run, Others(n), r) = "none"
        /\ placed' = new /\ stale' = old \cup ({n} \cap DOMAIN cl.views) /\ client' = cl /\ up' = alive
    BY <1>10, <2>1, <2>2 DEF LocalStart
  <2>4. Sound(new)
    BY <1>r, <1>s, <2>1, <2>2, <2>3, FitSound
  <2>5. ASSUME NEW m \in Names \ {n} PROVE CardsOf(new, m) = CardsOf(run, m)
    BY <2>2, <2>3, PlacedElsewhere
  <2>6. ClientOK(cl, new, alive, old \cup ({n} \cap DOMAIN cl.views))
    BY <1>s, <2>1, <2>5, HostsMove
  <2> QED BY <2>3, <2>4, <2>6 DEF ClientInv
<1>11. ASSUME NEW n \in Names, NEW j \in Ids, LocalEnd(j, n) PROVE ClientInv'
  <2>1. PICK cl, run, alive, old, off, o : cl = client /\ run = placed /\ alive = up /\ old = stale /\ off = Others(n) /\ o = -1
    OBVIOUS
  <2>2. PICK q : q = IF cl.pc = "queued" /\ cl.to = n THEN <<cl.req>> ELSE <<>>
    OBVIOUS
  <2>3. PICK after : after = Drain(Without(run, {j}), o, q, off)
    OBVIOUS
  <2>4. /\ j \in DOMAIN run /\ DOMAIN run[j].slots \subseteq HostCards[n]
        /\ placed' = after.run /\ client' = IF after.started = <<>> THEN cl ELSE [cl EXCEPT !.pc = "placed"]
        /\ stale' = old \cup ({n} \cap DOMAIN cl.views) /\ up' = alive
    BY <1>11, <2>1, <2>2, <2>3 DEF LocalEnd
  <2>5. ClientOK(cl, run, alive, old) /\ Sound(Without(run, {j}))
    BY <1>s, <2>1, WithoutSound
  <2>6. CASE q = <<>>
    <3>1. after.run = Without(run, {j}) /\ after.started = <<>>
      BY <2>3, <2>6, DrainEmpty
    <3>2. ASSUME NEW m \in Names \ {n} PROVE CardsOf(after.run, m) = CardsOf(run, m)
      <4>1. m \in Names /\ m # n
        OBVIOUS
      <4>2. CardsOf(Without(run, {j}), m) = CardsOf(run, m)
        BY <2>4, <4>1, EndedElsewhere
      <4> QED BY <3>1, <4>2
    <3>3. PICK new : new = after.run
      OBVIOUS
    <3>4. ClientOK(cl, new, alive, old \cup ({n} \cap DOMAIN cl.views))
      BY <2>5, <3>2, <3>3, HostsMove
    <3> QED BY <2>4, <2>5, <3>1, <3>3, <3>4 DEF ClientInv
  <2>7. CASE q # <<>>
    <3>1. cl.pc = "queued" /\ q = <<cl.req>>
      BY <2>2, <2>7
    <3>2. cl.req \in Request
      BY <1>r, <2>5, <3>1 DEF ClientOK
    <3>3. Sound(after.run)
      BY <2>1, <2>3, <2>5, <3>1, <3>2, DrainSingle
    <3>4. ASSUME NEW pc \in {"placed", "queued"}, NEW run2, NEW old2
          PROVE  ClientOK([cl EXCEPT !.pc = pc], run2, alive, old2)
      BY <2>5, <3>1, LaterOK
    <3>5. cl = [cl EXCEPT !.pc = "queued"]
      <4>1. cl = [pc |-> cl.pc, conf |-> cl.conf, req |-> cl.req, views |-> cl.views, to |-> cl.to]
        BY <2>5 DEF ClientOK
      <4> QED BY <3>1, <4>1
    <3>6. \E pc \in {"placed", "queued"} : client' = [cl EXCEPT !.pc = pc]
      BY <2>4, <3>5
    <3> QED BY <2>4, <3>3, <3>4, <3>6 DEF ClientInv
  <2> QED BY <2>6, <2>7
<1>12. ASSUME NEW n \in Names, Reach(n) PROVE ClientInv'
  <2>1. PICK cl, run, alive, old : cl = client /\ run = placed /\ alive = up /\ old = stale
    OBVIOUS
  <2>2. PICK alive2 : alive2 = IF n \in alive THEN alive \ {n} ELSE alive \cup {n}
    OBVIOUS
  <2>3. up' = alive2 /\ stale' = old \cup ({n} \cap DOMAIN cl.views) /\ client' = cl /\ placed' = run
    BY <1>12, <2>1, <2>2 DEF Reach
  <2>4. \A m \in Names \ {n} : m \in alive2 <=> m \in alive
    BY <2>2
  <2>5. ClientOK(cl, run, alive2, old \cup ({n} \cap DOMAIN cl.views))
    BY <1>s, <2>1, <2>4, HostsMove
  <2> QED BY <1>s, <2>1, <2>3, <2>5 DEF ClientInv
<1> QED BY <1>1, <1>2, <1>3, <1>4, <1>5, <1>6, <1>7, <1>8, <1>9, <1>10, <1>11, <1>12 DEF HostsNext

LEMMA MostRoomFollows == ClientInv => MostRoom
<1> SUFFICES ASSUME ClientInv, client.pc = "sync", client.views # <<>>, stale = {},
                    NEW n \in DOMAIN client.views \cap up,
                    NEW c \in Candidates(placed, Others(n), client.req)
             PROVE  \E e \in Candidates(placed, Others(client.to), client.req) :
                       LET s == SeatsLeft(placed, client.req, c)
                           t == SeatsLeft(placed, client.req, e)
                       IN  t > s \/ (t = s /\ (n = client.to \/ n # client.conf.default))
  BY DEF MostRoom
<1>1. PICK cl, run, alive : cl = client /\ run = placed /\ alive = up
  OBVIOUS
<1>2. Sound(run) /\ ClientOK(cl, run, alive, {})
  BY <1>1 DEF ClientInv
<1>3. PICK r \in Request : r = cl.req
  <2>1. cl.req \in MyAsks
    BY <1>1, <1>2 DEF ClientOK
  <2> QED BY <2>1, HostsAssumption
<1>4. PICK views : views = cl.views
  OBVIOUS
<1>5. Fresh(views, run, alive) /\ DOMAIN views \subseteq Names
  BY <1>1, <1>2, <1>4 DEF ClientOK, Fresh, Conf
<1>6. n \in DOMAIN views \cap alive /\ c \in Candidates(run, Others(n), r)
  BY <1>1, <1>3, <1>4
<1>7. ShareOK(r)
  BY <1>6 DEF Candidates, NeedOK
<1>8. PICK h, to : h = cl.conf /\ to = BestHost(h, r, views)
  OBVIOUS
<1>9. /\ Room(r, views) # {}
      /\ \E e \in Candidates(run, Others(to), r) :
            \/ SeatsLeft(run, r, e) > SeatsLeft(run, r, c)
            \/ SeatsLeft(run, r, e) = SeatsLeft(run, r, c) /\ (n = to \/ n # h.default)
  <2>1. Sound(run)
    BY <1>2
  <2>2. PICK m \in DOMAIN views \cap alive : m = n
    BY <1>6
  <2>3. PICK d \in Candidates(run, Others(m), r) : d = c
    BY <1>6, <2>2
  <2>4. /\ Room(r, views) # {}
        /\ \E e \in Candidates(run, Others(BestHost(h, r, views)), r) :
              \/ SeatsLeft(run, r, e) > SeatsLeft(run, r, d)
              \/ SeatsLeft(run, r, e) = SeatsLeft(run, r, d) /\ (m = BestHost(h, r, views) \/ m # h.default)
    BY <1>5, <1>7, <2>1, BestHostIs
  <2> QED BY <1>8, <2>2, <2>3, <2>4
<1>10. cl.to = to
  BY <1>1, <1>2, <1>3, <1>4, <1>8, <1>9 DEF ClientOK
<1> QED BY <1>1, <1>3, <1>8, <1>9, <1>10

\* For any hosts with any cards, any requests and any changes of the file and the hosts:
\* as long as no host has changed since it was asked, the job goes to the one that can, by
\* its scheduler's reckoning, spare most, and to the default on a tie.
THEOREM MostRoomAlways == HostsSpec => []MostRoom
<1>1. HostsInit => ClientInv
  <2>1. ASSUME HostsInit PROVE client = IdleRun /\ placed = <<>>
    BY <2>1 DEF HostsInit
  <2>2. ASSUME NEW run, run = <<>> PROVE Sound(run)
    <3>1. DOMAIN run = {}
      BY <2>2
    <3> QED BY <3>1, EmptyBounded DEF Sound, IsRunMap, Divided, OnCard
  <2> QED BY <2>1, <2>2, IdleOK DEF ClientInv
<1> QED BY <1>1, HostsSpecFile, ClientNextInv, MostRoomFollows, PTL DEF HostsSpec

=============================================================================
