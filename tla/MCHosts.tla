------------------------------ MODULE MCHosts ------------------------------
(* A small instance of Hosts for TLC. *)
EXTENDS Hosts, TLC

\* A host with a card of four seats, and one with a card of two and less memory.
MCCards == {0, 1}
MCCardSeats == (0 :> 4) @@ (1 :> 2)
MCCardMem == (0 :> 4) @@ (1 :> 3)
MCHostCards == (1 :> {0}) @@ (2 :> {1})

Ask_(id, share, mem, wait) ==
    [id |-> id, share |-> share, mem |-> mem, gpus |-> 0, prio |-> 0, preempt |-> FALSE, wait |-> wait]

\* A small job, one that asks for memory, and one that asks for more than a card.
MCMyAsks == {Ask_(Mine, 1, 0, TRUE), Ask_(Mine, 2, 3, FALSE), Ask_(Mine, 5, 1, TRUE)}

\* One that takes memory, and one that takes a whole card.
MCLocalAsks == {Ask_(j, x[1], x[2], FALSE) : j \in Ids \ {Mine}, x \in {<<1, 2>>, <<4, 1>>}}

Symmetry == Permutations(Ids \ {Mine}) \cup Permutations(Commands)

=============================================================================
