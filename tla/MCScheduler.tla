--------------------------- MODULE MCScheduler ---------------------------
(* Small instances of Scheduler for TLC. *)
EXTENDS Scheduler, TLC

\* A card of four seats and one of two, the second with less memory.
MCCards == {0, 1}
MCCardSeats == (0 :> 4) @@ (1 :> 2)
MCCardMem == (0 :> 4) @@ (1 :> 3)

Shape(share, mem, gpus, prio, preempt, wait) ==
    [share |-> share, mem |-> mem, gpus |-> gpus, prio |-> prio,
     preempt |-> preempt, wait |-> wait]

\* A small job, a job on both cards, and one that needs all of the first card's memory.
Shapes ==
    { Shape(1, 1, 0, 0, TRUE, TRUE),
      Shape(2, 0, 2, 0, TRUE, TRUE),
      Shape(2, 4, 1, 1, FALSE, TRUE) }

MCAsks == {[id |-> i] @@ s : i \in Ids, s \in Shapes}

MCSizes == {<<1, 0>>, <<3, 2>>}

Symmetry == Permutations(Ids)

=============================================================================
