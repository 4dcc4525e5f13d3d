----------------------------- MODULE MCSeatMask -----------------------------
(* A small instance of SeatMask for TLC. *)
EXTENDS SeatMask, TLC

MCCardSeats == Card :> 4
MCCardMem == Card :> 4

Topology(units, chiplets, engines) == [units |-> units, chiplets |-> chiplets, engines |-> engines]

\* Whole and broken rounds, one seat or several for an engine, and three cards that are
\* dealt in blocks: no engines are known, or the seats do not divide among them.
MCTopologies ==
    { Topology(16, 2, 2), Topology(18, 2, 2), Topology(11, 1, 1), Topology(8, 2, 4),
      Topology(9, 0, 0), Topology(10, 3, 2), Topology(14, 1, 3) }

Ask_(id, share, prio) ==
    [id |-> id, share |-> share, mem |-> 1, gpus |-> 0, prio |-> prio, preempt |-> prio = 0, wait |-> TRUE]

\* Jobs of all sizes that wait and can be pushed off, one that pushes off, and one of a
\* seat that bursts.
MCAsks ==
    {Ask_(j, s, 0) : j \in Ids \ Bursty, s \in 1..4} \cup {Ask_(j, 2, 1) : j \in Ids \ Bursty}
    \cup {Ask_(j, 1, 0) : j \in Bursty}

MCSizes == {1, 3} \X {0}

\* The job that bursts is another than the rest.
Symmetry == Permutations(Ids \ Bursty)

=============================================================================
