------------------------------- MODULE Owners -------------------------------
(***************************************************************************)
(* What the scheduler promises to those it has placed, without cards, sizes, *)
(* priorities and queues: a seat has one owner, and who owns what changes in *)
(* three ways only.  Scheduler.tla implements it.                            *)
(***************************************************************************)
CONSTANTS
    Jobs,   \* who may own seats
    Spots   \* the seats, as pairs of a card and a number

VARIABLE
    holds   \* each owner's seats

Exclusive(h) ==
    /\ DOMAIN h \subseteq Jobs
    /\ \A i \in DOMAIN h : h[i] # {} /\ h[i] \subseteq Spots
    /\ \A i, j \in DOMAIN h : i # j => h[i] \cap h[j] = {}

Init == holds = [j \in {} |-> {}]

\* The jobs of S have what they had.
Stay(S) == \A j \in S : j \in DOMAIN holds' /\ holds'[j] = holds[j]

\* j is let in.  Others may be pushed off for it, and then lose all they have.
Enter(j) ==
    /\ j \in DOMAIN holds' \ DOMAIN holds
    /\ DOMAIN holds' \subseteq DOMAIN holds \cup {j}
    /\ Stay(DOMAIN holds' \ {j})

\* j leaves, if it is there, and others begin on seats that are free then; a j
\* that is not there may be one of those.
Leave(j) ==
    /\ j \in DOMAIN holds => j \notin DOMAIN holds'
    /\ Stay(DOMAIN holds \ {j})

\* j gets more seats of the cards it is on, or gives up some, on each card apart.
Resize(j) ==
    LET on(h, c) == {s \in h[j] : s[1] = c}
    IN  /\ j \in DOMAIN holds
        /\ DOMAIN holds' = DOMAIN holds /\ Stay(DOMAIN holds \ {j})
        /\ \A s \in holds[j] \cup holds'[j] :
              /\ on(holds, s[1]) # {} /\ on(holds', s[1]) # {}
              /\ \/ on(holds, s[1]) \subseteq on(holds', s[1])
                 \/ on(holds', s[1]) \subseteq on(holds, s[1])

Next == Exclusive(holds') /\ \E j \in Jobs : Enter(j) \/ Leave(j) \/ Resize(j)

Spec == Init /\ [][Next]_holds

=============================================================================
