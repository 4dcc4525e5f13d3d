------------------------------ MODULE MCDaemon ------------------------------
(* Small instances of Daemon for TLC. *)
EXTENDS Daemon

\* One card of two seats, or two of them.
OneCard == {0}
TwoCards == {0, 1}
TwoSeats == [c \in Cards |-> 2]

Shape(share, gpus, prio, preempt, wait) ==
    [share |-> share, mem |-> 0, gpus |-> gpus, prio |-> prio,
     preempt |-> preempt, wait |-> wait]

AsksOf(shapes) == {[id |-> i] @@ s : i \in Ids, s \in shapes}

\* Half a card, and one card on each of two: what waits longest.
LiveAsks == AsksOf({Shape(1, 1, 0, FALSE, TRUE), Shape(2, 2, 1, FALSE, TRUE)})

\* Jobs that can be pushed off, and one that pushes.  It is given a whole card
\* because it names no share.
StormyAsks == AsksOf({Shape(1, 1, 0, TRUE, TRUE),
                      Shape(2, 1, 0, TRUE, FALSE),
                      Shape(0, 1, 1, FALSE, FALSE)})

Halves == {<<1, 0>>, <<2, 0>>}

Symmetry == Permutations(Ids)

=============================================================================
