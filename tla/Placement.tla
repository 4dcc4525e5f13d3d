----------------------------- MODULE Placement -----------------------------
(***************************************************************************)
(* The pure part of gmux's scheduler (internal/scheduler/scheduler.go and   *)
(* internal/share/share.go): given the jobs that are placed, where a request *)
(* goes, whom it may push off, which queued requests start when room opens   *)
(* up, and what a resize does.  Nothing here is a state machine: `run' below *)
(* is a value of the scheduler's map s.running, a function from the ids of   *)
(* the placed jobs to what they hold.  Scheduler.tla and Daemon.tla use it.  *)
(*                                                                          *)
(* The map `ignore' of the code (jobs to look through as if they were gone)  *)
(* is modelled by removing those jobs from `run' (Without).                  *)
(*                                                                          *)
(* Left out of the data, because no control depends on it: a card's name,    *)
(* Request.Burst and the compute percentage and granted share of a slot.     *)
(***************************************************************************)
EXTENDS Integers, Sequences, FiniteSets

CONSTANTS
    Ids,        \* job ids
    Cards,      \* indices of the cards
    CardSeats,  \* Card.Seats of each card
    CardMem,    \* Card.MemMiB of each card, in units of memory
    Unit,       \* a share is a whole number of parts of size 1/Unit
    MinMem      \* least default memory of a job (256 MiB in the code)

ASSUME PlacementAssumption ==
    /\ IsFiniteSet(Ids)
    /\ IsFiniteSet(Cards) /\ Cards \subseteq Nat
    /\ CardSeats \in [Cards -> Nat \ {0}]
    /\ CardMem \in [Cards -> Nat]
    /\ Unit \in Nat \ {0}
    /\ MinMem \in Nat

-----------------------------------------------------------------------------
(* Types. *)

\* What a job asks for.  prio: higher wins; mem = 0: in proportion to the share.
Request == [id : Ids, share : Int, mem : Nat, gpus : Int, prio : Int,
            preempt : BOOLEAN, wait : BOOLEAN]

\* One card's part of a placement; the card is the key of the slot map.
Slot == [seats : Nat, mem : Nat, ids : SUBSET Nat]

IsSlotMap(f) == DOMAIN f \subseteq Cards /\ f \in [DOMAIN f -> Slot]

\* A placed job: its request, its slot on each of its cards, and its admission
\* order, for "newest first".
IsPlaced(p) == p.req \in Request /\ IsSlotMap(p.slots) /\ p.order \in Nat

IsRunMap(run) == DOMAIN run \subseteq Ids /\ \A j \in DOMAIN run : IsPlaced(run[j])

-----------------------------------------------------------------------------
(* Ordered sets.  R is a strict total order on S, as a set of pairs. *)

\* The elements of S before x.
Before(S, x, R) == {y \in S : <<y, x>> \in R}

\* The first k elements of S.
FirstK(S, k, R) == {x \in S : Cardinality(Before(S, x, R)) < k}

\* S as a sequence in the order R.
InOrder(S, R) ==
    [k \in 1..Cardinality(S) |->
        CHOOSE x \in S : Cardinality(Before(S, x, R)) = k - 1]

\* The n lowest numbers of S.
Lowest(S, n) == FirstK(S, n, {p \in S \X S : p[1] < p[2]})

\* The sum of the numbers w[j]: the size of a set with w[j] elements for each j.
SumOf(w) == Cardinality(UNION {{j} \X (1..w[j]) : j \in DOMAIN w})

-----------------------------------------------------------------------------
(* Who holds what. *)

Without(run, V) == [j \in DOMAIN run \ V |-> run[j]]

OnCard(run, c) == {j \in DOMAIN run : c \in DOMAIN run[j].slots}

SeatsUsed(run, c) == SumOf([j \in OnCard(run, c) |-> run[j].slots[c].seats])

MemUsed(run, c) == SumOf([j \in OnCard(run, c) |-> run[j].slots[c].mem])

Occupied(run, c) == UNION {run[j].slots[c].ids : j \in OnCard(run, c)}

FreeSeats(run, c) == (0 .. CardSeats[c] - 1) \ Occupied(run, c)

-----------------------------------------------------------------------------
(* What a division of the cards among jobs must be. *)

\* Every job holds, by number, as many seats of each of its cards as it was given,
\* and no seat is held twice.
Divided(run) ==
    \A c \in Cards : \A i \in OnCard(run, c) :
        /\ run[i].slots[c].ids \subseteq 0 .. CardSeats[c] - 1
        /\ Cardinality(run[i].slots[c].ids) = run[i].slots[c].seats
        /\ \A j \in OnCard(run, c) \ {i} : run[i].slots[c].ids \cap run[j].slots[c].ids = {}

\* No card is given away beyond its seats or its memory.
Bounded(run) ==
    \A c \in Cards : SeatsUsed(run, c) <= CardSeats[c] /\ MemUsed(run, c) <= CardMem[c]

-----------------------------------------------------------------------------
(* What a request needs on a card. *)

\* Rounds up, and is never less than one or more than n.
Seats(share, n) ==
    LET s == (share * n + Unit - 1) \div Unit
    IN  IF s < 1 THEN 1 ELSE IF s > n THEN n ELSE s

DefaultMem(seats, n, mem) ==
    LET m == (mem * seats) \div n
    IN  IF m < MinMem THEN MinMem ELSE m

ShareOK(r) == 0 < r.share /\ r.share <= Unit

NeedSeats(r, c) == Seats(r.share, CardSeats[c])

NeedMem(r, c) ==
    IF r.mem = 0 THEN DefaultMem(NeedSeats(r, c), CardSeats[c], CardMem[c]) ELSE r.mem

\* need() returns no error.
NeedOK(r, c) == ShareOK(r) /\ NeedMem(r, c) <= CardMem[c]

\* There is room for r on card c.
Fits(run, r, c) ==
    /\ SeatsUsed(run, c) + NeedSeats(r, c) <= CardSeats[c]
    /\ MemUsed(run, c) + NeedMem(r, c) <= CardMem[c]

-----------------------------------------------------------------------------
(* Which seats of a card, and which cards. *)

\* Mutated form of PickSeats: the lowest seats, whoever holds them.
PickSeatsBlind(run, c, n, keep) == Lowest(0 .. CardSeats[c] - 1, n)

\* Mutated form of PickSeats: the seats a job already holds are not preferred.
PickSeatsMoving(run, c, n, keep) == Lowest(FreeSeats(run, c), n)

\* n free seats: seats of keep first, then the first free run of n, then the lowest.
PickSeats(run, c, n, keep) ==
    LET free   == FreeSeats(run, c)
        kept   == Lowest(keep \cap free, n)
        starts == {s \in 0 .. CardSeats[c] - n : s .. s + n - 1 \subseteq free}
        first  == CHOOSE s \in starts : \A t \in starts : s <= t
    IN  IF kept = {} /\ starts # {}
          THEN first .. first + n - 1
          ELSE kept \cup Lowest(free \ kept, n - Cardinality(kept))

NewSlot(run, r, c, keep) ==
    [seats |-> NeedSeats(r, c), mem |-> NeedMem(r, c),
     ids |-> PickSeats(run, c, NeedSeats(r, c), keep)]

Want(r) == IF r.gpus < 1 THEN 1 ELSE r.gpus

\* Mutated form of Candidates: memory is not counted.
CandidatesBySeats(run, down, r) ==
    {c \in Cards \ down : /\ NeedOK(r, c)
                          /\ SeatsUsed(run, c) + NeedSeats(r, c) <= CardSeats[c]}

\* The cards in service with room for r.
Candidates(run, down, r) ==
    {c \in Cards \ down : NeedOK(r, c) /\ Fits(run, r, c)}

SeatsLeft(run, r, c) == CardSeats[c] - SeatsUsed(run, c) - NeedSeats(r, c)

\* Fullest card first, then lowest index.
BestFit(run, r, cands) ==
    {p \in cands \X cands :
        \/ SeatsLeft(run, r, p[1]) < SeatsLeft(run, r, p[2])
        \/ SeatsLeft(run, r, p[1]) = SeatsLeft(run, r, p[2]) /\ p[1] < p[2]}

\* The error of fit(): none, ErrNoFit, or that of a card r can never run on.
FitErr(run, down, r) ==
    LET cands == Candidates(run, down, r)
    IN  IF Cardinality(cands) >= Want(r) THEN "none"
        ELSE IF cands = {} /\ \E c \in Cards \ down : ~NeedOK(r, c) THEN "bad"
        ELSE "nofit"

\* The slots of fit(), when it has no error.
FitSlots(run, down, r) ==
    LET cands == Candidates(run, down, r)
    IN  [c \in FirstK(cands, Want(r), BestFit(run, r, cands)) |-> NewSlot(run, r, c, {})]

\* A job holds as many cards as it asked for, and on each what it needs there.
Whole(p) ==
    /\ Cardinality(DOMAIN p.slots) = Want(p.req)
    /\ \A c \in DOMAIN p.slots :
          p.slots[c].seats = NeedSeats(p.req, c) /\ p.slots[c].mem = NeedMem(p.req, c)

Place(run, r, slots, order) ==
    [j \in DOMAIN run \cup {r.id} |->
        IF j = r.id THEN [req |-> r, slots |-> slots, order |-> order] ELSE run[j]]

-----------------------------------------------------------------------------
(* Preemption. *)

Pool(run, r) == {j \in DOMAIN run : run[j].req.preempt /\ run[j].req.prio < r.prio}

\* Lowest priority first, and newest first within a priority.
VictimOrder(run) ==
    {p \in (DOMAIN run) \X (DOMAIN run) :
        \/ run[p[1]].req.prio < run[p[2]].req.prio
        \/ run[p[1]].req.prio = run[p[2]].req.prio /\ run[p[1]].order > run[p[2]].order}

\* The numbers of jobs, taken from the pool in victim order, that make room for r.
Enough(run, down, r) ==
    {k \in 1 .. Cardinality(Pool(run, r)) :
        FitErr(Without(run, FirstK(Pool(run, r), k, VictimOrder(run))), down, r) = "none"}

\* Mutated form of Victims: the jobs that turned out not to be needed go too.
VictimsUnpruned(run, down, r) ==
    FirstK(Pool(run, r), CHOOSE k \in Enough(run, down, r) :
                              \A l \in Enough(run, down, r) : k <= l, VictimOrder(run))

\* The jobs to push off for r, when Enough is not empty: the shortest prefix of the
\* pool that makes room, without those that turn out, one by one, not to be needed.
Victims(run, down, r) ==
    LET few    == CHOOSE k \in Enough(run, down, r) : \A l \in Enough(run, down, r) : k <= l
        chosen == FirstK(Pool(run, r), few, VictimOrder(run))
        seq    == InOrder(chosen, VictimOrder(run))
        ignore[k \in 0 .. Cardinality(chosen)] ==
            IF k = 0 THEN chosen
            ELSE LET fewer == ignore[k-1] \ {seq[k]}
                 IN  IF FitErr(Without(run, fewer), down, r) = "none" THEN fewer ELSE ignore[k-1]
    IN  ignore[Cardinality(chosen)]

-----------------------------------------------------------------------------
(* The queue. *)

\* Mutated form of SortedQueue: arrival order only.
QueueAsIs(q) == q

\* The queue by priority, in arrival order within a priority (a stable sort).
SortedQueue(q) ==
    LET ahead == {p \in (DOMAIN q) \X (DOMAIN q) :
                    \/ q[p[1]].prio > q[p[2]].prio
                    \/ q[p[1]].prio = q[p[2]].prio /\ p[1] < p[2]}
        from  == InOrder(DOMAIN q, ahead)
    IN  [k \in DOMAIN q |-> q[from[k]]]

\* Mutated form of DrainOne: a request that is placed waits on.
DrainOneKept(s, down, r) ==
    IF FitErr(s.run, down, r) = "none"
      THEN [run |-> Place(s.run, r, FitSlots(s.run, down, r), s.next + 1),
            next |-> s.next + 1, rest |-> Append(s.rest, r), started |-> Append(s.started, r.id)]
      ELSE [run |-> s.run, next |-> s.next, rest |-> Append(s.rest, r), started |-> s.started]

\* One request of the queue: placed if it fits, else kept.
DrainOne(s, down, r) ==
    IF FitErr(s.run, down, r) = "none"
      THEN [run |-> Place(s.run, r, FitSlots(s.run, down, r), s.next + 1),
            next |-> s.next + 1, rest |-> s.rest, started |-> Append(s.started, r.id)]
      ELSE [run |-> s.run, next |-> s.next, rest |-> Append(s.rest, r), started |-> s.started]

\* Mutated form of Drain: the room is left to those who come.
DrainNone(run, next, q, down) == [run |-> run, next |-> next, rest |-> q, started |-> <<>>]

\* Starts from the queue what fits.  run, next and rest are the new s.running, s.next
\* and s.queue; started is the list of ids the caller is told to start.
Drain(run, next, q, down) ==
    LET sorted == SortedQueue(q)
        after[k \in 0 .. Len(q)] ==
            IF k = 0 THEN [run |-> run, next |-> next, rest |-> <<>>, started |-> <<>>]
            ELSE DrainOne(after[k-1], down, sorted[k])
    IN  after[Len(q)]

\* Mutated form of Cancelled: the request after the one that is meant is taken out.
CancelledNext(q, id) ==
    LET at == CHOOSE i \in DOMAIN q : q[i].id = id /\ \A k \in 1 .. i - 1 : q[k].id # id
    IN  IF \E i \in DOMAIN q : q[i].id = id
          THEN SubSeq(q, 1, at) \o SubSeq(q, at + 2, Len(q))
          ELSE q

\* The queue with the first request of a job taken out.
Cancelled(q, id) ==
    LET at == CHOOSE i \in DOMAIN q : q[i].id = id /\ \A k \in 1 .. i - 1 : q[k].id # id
    IN  IF \E i \in DOMAIN q : q[i].id = id
          THEN SubSeq(q, 1, at - 1) \o SubSeq(q, at + 1, Len(q))
          ELSE q

-----------------------------------------------------------------------------
(* Requests as callers make them, and resizing. *)

\* validate() returns no error.
Validate(r) == ShareOK(r) /\ r.gpus >= 0

Resized(r, share, mem) == [r EXCEPT !.share = share, !.mem = IF mem > 0 THEN mem ELSE @]

\* Every card of the job has room for its new size; the job itself is looked through.
CanResize(run, id, r) ==
    /\ Validate(r)
    /\ \A c \in DOMAIN run[id].slots : NeedOK(r, c) /\ Fits(Without(run, {id}), r, c)

\* Mutated form of ResizeJob: the job's request is not updated.
ResizeJobOldRequest(run, id, r) ==
    LET slots == [c \in DOMAIN run[id].slots |->
                    NewSlot(Without(run, {id}), r, c, run[id].slots[c].ids)]
    IN  Place(run, run[id].req, slots, run[id].order)

ResizeJob(run, id, r) ==
    LET slots == [c \in DOMAIN run[id].slots |->
                    NewSlot(Without(run, {id}), r, c, run[id].slots[c].ids)]
    IN  Place(run, r, slots, run[id].order)

=============================================================================
