------------------------------ MODULE SeatMask ------------------------------
(***************************************************************************)
(* Which compute units of an AMD card a job runs on (seatCUMask and JobEnv   *)
(* in internal/gpu/amd.go, startLocked in internal/daemon/daemon.go): a mask *)
(* that is computed from the seats the scheduler has given to it, when it is *)
(* started, and that its process keeps.  The specification is the scheduler's *)
(* with the masks of the jobs on one card added: the daemon starts with d.mu *)
(* held what a call has placed, and suspends what it has pushed off.         *)
(*                                                                          *)
(* A mask is the set of its bits.  A job without one uses the whole card:    *)
(* such is one with all seats, and one that was submitted to burst.          *)
(* The scheduler always numbers the seats it gives, so the mask for a job    *)
(* without seat numbers is left out.  So are jobs on several cards (all cards *)
(* write the same variables of their environment), and suspends that fail.  *)
(***************************************************************************)
EXTENDS Scheduler

CONSTANTS
    Card,        \* the card
    Topologies,  \* what the card may be: its units, chiplets and engines per chiplet
    Bursty       \* the jobs that may use idle compute above their seats

S == CardSeats[Card]

\* The units are dealt to the engines of every chiplet, as many seats to each engine.
ByEngine(d) == d.chiplets > 0 /\ d.engines > 0 /\ d.units % d.chiplets = 0 /\ S >= d.engines /\ S % d.engines = 0

Rounds(d) == (d.units \div d.chiplets) \div d.engines

\* A card has at least two units for a seat, and a round for each of the seats of an
\* engine, and a seat is more than half a percent of the card: with less, a job with all
\* seats but one is rounded up to the whole card.
ASSUME SeatMaskAssumption ==
    /\ Card \in Cards /\ S < 200
    /\ \A r \in Asks : Want(r) = 1
    /\ \A d \in Topologies :
          /\ {d.units, d.chiplets, d.engines} \subseteq Nat /\ d.units >= 2 * S
          /\ ByEngine(d) => Rounds(d) >= S \div d.engines

VARIABLES
    dev,      \* what the card is
    masks,    \* the units that the process of each job on the card uses
    resized   \* history: the jobs whose seats have changed since they were started

maskVars == <<vars, dev, masks, resized>>

MaskInit ==
    /\ Init
    /\ dev \in Topologies
    /\ masks = <<>> /\ resized = {}

-----------------------------------------------------------------------------

Units(d) == 0 .. d.units - 1

\* The rounds of an engine that go to a job with the seats `offs' of its g.
RoundsOf(d, offs, g) ==
    IF Cardinality(offs) = g THEN 0 .. Rounds(d) - 1
    ELSE {r \in 0 .. (Rounds(d) \div g) * g - 1 : r % g \in offs}

\* The units of a job's share of each engine that it has seats on.
EngineMask(d, ids) ==
    LET g == S \div d.engines
        use(e) == RoundsOf(d, {s % g : s \in {t \in ids : t \div g = e}}, g)
    IN  UNION {{(r * d.engines + e) * d.chiplets + x : r \in use(e), x \in 0 .. d.chiplets - 1} :
                  e \in 0 .. d.engines - 1}

\* Mutated form of BlockMask: the last unit of a block is that of the next one.
BlockMaskOff(d, ids) == UNION {(i * d.units) \div S .. ((i + 1) * d.units) \div S : i \in ids}

\* A contiguous block of units for each seat.
BlockMask(d, ids) == UNION {(i * d.units) \div S .. ((i + 1) * d.units) \div S - 1 : i \in ids}

\* The units for the seats ids, with n units as the job's percentage of the card.
SeatCUMask(d, ids, n) ==
    LET m == IF ByEngine(d) THEN EngineMask(d, ids) ELSE BlockMask(d, ids)
    IN  IF n >= d.units \/ Cardinality(ids) >= S \/ m = {} THEN Units(d) ELSE m

\* The percentage of a number of seats, rounded to the nearest.
ComputePercent(seats) ==
    LET p == (200 * seats + S) \div (2 * S) IN IF p < 1 THEN 1 ELSE p

\* The percentage that the scheduler writes into the slot of job j: one that bursts has no cap.
SlotPercent(j, seats) == IF j \in Bursty THEN 100 ELSE ComputePercent(seats)

\* The units that the environment of a job with the seats ids and the percentage p lets it use.
JobEnv(d, ids, p) == IF p < 100 THEN SeatCUMask(d, ids, (d.units * p + 99) \div 100) ELSE Units(d)

EnvOf(d, j, slot) == JobEnv(d, slot.ids, SlotPercent(j, slot.seats))

-----------------------------------------------------------------------------

\* What a call has placed on the card is started with a mask for its seats, and what it
\* has taken off goes.  A resize changes nothing of the process.
StartLocked ==
    /\ masks' = [j \in OnCard(running', Card) |->
                   IF j \in DOMAIN masks THEN masks[j] ELSE EnvOf(dev, j, running'[j].slots[Card])]
    /\ resized' = {j \in DOMAIN masks \cap OnCard(running', Card) :
                     j \in resized \/ running'[j].slots[Card] # running[j].slots[Card]}
    /\ UNCHANGED dev

MaskNext == Next /\ StartLocked

MaskSpec == MaskInit /\ [][MaskNext]_maskVars

-----------------------------------------------------------------------------
(* Properties. *)

\* "masks its compute units to the job's own seats" (amd.go:251-252): jobs that do not burst
\* and have kept the size they were started with run on units of their own, whatever rounding
\* deals the units of a seat and however the seats of jobs are scattered, and only one with
\* all seats has the whole card (amd.go:189-190).  A job that bursts has the whole card with
\* however few seats (scheduler.go:166-170), so its units are also those of the others: what
\* is kept apart for them is their seats, not the units ("its guarantee is still reserved",
\* how-it-works.md:23).
MasksApart ==
    LET own == DOMAIN masks \ (resized \cup Bursty)
    IN  /\ \A i \in own :
              /\ masks[i] # {} /\ masks[i] \subseteq Units(dev)
              /\ running[i].slots[Card].seats < S => masks[i] # Units(dev)
              /\ \A j \in own \ {i} : masks[i] \cap masks[j] = {}
        /\ \A i \in DOMAIN masks \cap Bursty : masks[i] = Units(dev)

=============================================================================
