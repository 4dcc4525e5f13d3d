-------------------------------- MODULE Shim --------------------------------
(***************************************************************************)
(* The library that is preloaded into a job to cap its GPU memory            *)
(* (shim/gmux_shim.c): it counts bytes around the driver's allocate and free, *)
(* and remembers the size of each block in a hash table, for the threads of  *)
(* one process.  Each critical section under g_mu is a step.                 *)
(*                                                                          *)
(* A pointer is a number whose place in the table is itself modulo its size. *)
(* The driver allocates what is left on the card, or fails, and frees every  *)
(* block that it gave out.  The library has read its limit already.          *)
(***************************************************************************)
EXTENDS Integers, FiniteSets, FiniteSetsExt

CONSTANTS
    Threads,
    Ptrs,   \* the pointers that the driver gives out
    Sizes,  \* the sizes that the job asks for
    Limits, \* the limits it may be given, 0 for none
    Room,   \* what is left of the card's memory, in bytes
    Word,   \* sums are modulo Word: 2^64 in the code
    MAP     \* the places in the table

ASSUME ShimAssumption ==
    /\ IsFiniteSet(Threads) /\ Ptrs \subseteq Nat \ {0}
    /\ Word \in Nat \ {0} /\ MAP \in Nat \ {0} /\ Room \in Nat
    /\ Sizes \cup Limits \subseteq 0 .. Word - 1

VARIABLES
    limit,
    used,     \* the bytes that are counted
    map,      \* the table: place -> the block that is remembered there
    live,     \* the driver's blocks: pointer -> size
    threads,  \* what each thread is doing
    wrapped,  \* history: a sum of Word or more was let through
    lost      \* history: a block found no place in the table

vars == <<limit, used, map, live, threads, wrapped, lost>>

Null == [p |-> 0, n |-> 0]
Tomb == [p |-> 0, n |-> 1]  \* marks a place that was in use

Idle == [pc |-> "idle", p |-> 0, n |-> 0]

Places == 0 .. MAP - 1

Init ==
    /\ limit \in Limits
    /\ used = 0 /\ map = [i \in Places |-> Null]
    /\ live = <<>> /\ threads = [t \in Threads |-> Idle]
    /\ wrapped = FALSE /\ lost = FALSE

\* The sum of f's values.
Total(f) == Cardinality(UNION {{x} \X (1 .. f[x]) : x \in DOMAIN f})

Go(t, pc, p, n) == threads' = [threads EXCEPT ![t] = [pc |-> pc, p |-> p, n |-> n]]

-----------------------------------------------------------------------------

\* Mutated form of Allowed: what is asked for is not counted.
AllowedBefore(size) == limit = 0 \/ used <= limit

\* gmux_reserve lets size bytes pass.
Allowed(size) == limit = 0 \/ (used + size) % Word <= limit

\* The allocation's bytes are counted, or it is refused.
Reserve(t, size) ==
    /\ threads[t].pc = "idle" /\ Allowed(size)
    /\ used' = (used + size) % Word
    /\ wrapped' = (wrapped \/ used + size >= Word)
    /\ Go(t, "alloc", 0, size)
    /\ UNCHANGED <<limit, map, live, lost>>

\* The bytes that are counted when n of them are released.
Released(n) == IF n > used THEN 0 ELSE used - n

\* The driver allocates ...
Alloc(t, p) ==
    LET n == threads[t].n
    IN  /\ threads[t].pc = "alloc" /\ p \notin DOMAIN live /\ Total(live) + n <= Room
        /\ live' = [q \in DOMAIN live \cup {p} |-> IF q = p THEN n ELSE live[q]]
        /\ Go(t, "remember", p, n)
        /\ UNCHANGED <<limit, used, map, wrapped, lost>>

\* ... or fails, and the bytes are released.
AllocFails(t) ==
    /\ threads[t].pc = "alloc"
    /\ used' = Released(threads[t].n)
    /\ Go(t, "idle", 0, 0)
    /\ UNCHANGED <<limit, map, live, wrapped, lost>>

\* The k-th place to look for p.
Probe(p, k) == (p + k) % MAP

\* The first k for which that place is in S, or MAP.
FirstProbe(p, S) == Min({k \in 0 .. MAP - 1 : Probe(p, k) \in S} \cup {MAP})

\* The block is remembered at the first place that is not in use, if there is one.
Remember(t) ==
    LET x == threads[t]
        k == FirstProbe(x.p, {i \in Places : map[i].p = 0})
    IN  /\ x.pc = "remember"
        /\ map' = IF k = MAP THEN map ELSE [map EXCEPT ![Probe(x.p, k)] = [p |-> x.p, n |-> x.n]]
        /\ lost' = (lost \/ k = MAP)
        /\ Go(t, "idle", 0, 0)
        /\ UNCHANGED <<limit, used, live, wrapped>>

\* Mutated form of Cleared: the place is marked as one that was never in use.
ClearedNull == Null

\* What is left at the place of a block that is forgotten.
Cleared == Tomb

\* A thread frees a block that no other is freeing; it is forgotten, if it is found before
\* a place that was never in use.
Forget(t, p) ==
    LET k == FirstProbe(p, {i \in Places : map[i].p = p \/ map[i] = Null})
        found == k < MAP /\ map[Probe(p, k)].p = p
    IN  /\ threads[t].pc = "idle" /\ p \in DOMAIN live
        /\ \A u \in Threads : threads[u].p # p
        /\ map' = IF found THEN [map EXCEPT ![Probe(p, k)] = Cleared] ELSE map
        /\ Go(t, "uncap", p, IF found THEN map[Probe(p, k)].n ELSE 0)
        /\ UNCHANGED <<limit, used, live, wrapped, lost>>

\* Its bytes are released ...
Uncap(t) ==
    /\ threads[t].pc = "uncap"
    /\ used' = Released(threads[t].n)
    /\ Go(t, "free", threads[t].p, 0)
    /\ UNCHANGED <<limit, map, live, wrapped, lost>>

\* ... and then the driver frees it.
Free(t) ==
    /\ threads[t].pc = "free"
    /\ live' = [q \in DOMAIN live \ {threads[t].p} |-> live[q]]
    /\ Go(t, "idle", 0, 0)
    /\ UNCHANGED <<limit, used, map, wrapped, lost>>

Next ==
    \E t \in Threads :
        \/ AllocFails(t) \/ Remember(t) \/ Uncap(t) \/ Free(t)
        \/ \E n \in Sizes : Reserve(t, n)
        \/ \E p \in Ptrs : Alloc(t, p) \/ Forget(t, p)

Spec == Init /\ [][Next]_vars

-----------------------------------------------------------------------------
(* Properties. *)

\* The blocks that are about to be freed, their bytes released already.
Freeing == {threads[t].p : t \in {u \in Threads : threads[u].pc = "free"}}

\* "fails an allocation that would cross the cap" (gmux_shim.c:6): whatever the threads do,
\* what they have on the card, but for blocks about to be freed, is within the limit, also
\* when blocks are lost from a full table; unless a sum has wrapped around.
CapHeld ==
    limit # 0 /\ ~wrapped => Total([p \in DOMAIN live \ Freeing |-> live[p]]) <= limit

\* "so a free releases what its allocation reserved" (gmux_shim.c:124): when no call is under
\* way, just what is on the card is counted, although pointers collide in the table, are
\* reused, and leave marks behind; unless a sum has wrapped or the table was full.
CountExact ==
    (\A t \in Threads : threads[t] = Idle) /\ ~wrapped /\ ~lost => used = Total(live)

=============================================================================
