----------------------------- MODULE Scheduler -----------------------------
(***************************************************************************)
(* gmux's scheduler as its callers see it (type Scheduler in                *)
(* internal/scheduler/scheduler.go): the state it keeps and one action for  *)
(* each method that changes it, for any sequence of calls.  The daemon calls *)
(* it with d.mu held, so a call is one step.                                *)
(*                                                                          *)
(* A call that returns an error changes nothing and is not a step.          *)
(***************************************************************************)
EXTENDS Placement

CONSTANTS
    Asks,      \* the requests that callers make
    Sizes,     \* the sizes callers resize to: pairs <<share, mem>>, mem = 0 for "as before"
    Serviced,  \* the cards that are taken out of service and put back
    MaxQueue,  \* bound: no call that lengthens a queue of this length
    MaxOrder   \* bound: no call that would place more than this many times in all

ASSUME SchedulerAssumption ==
    /\ Asks \subseteq Request
    /\ Sizes \subseteq Int \X Nat
    /\ Serviced \subseteq Cards
    /\ MaxQueue \in Nat
    /\ MaxOrder \in Nat

VARIABLES
    running,  \* s.running: the placed jobs
    queue,    \* s.queue: the requests that wait
    next,     \* s.next: the admission order of the last placement
    down      \* the cards whose Down is set

vars == <<running, queue, next, down>>

TypeOK ==
    /\ IsRunMap(running)
    /\ queue \in Seq(Request)
    /\ next \in Nat
    /\ down \in SUBSET Cards

Init ==
    /\ running = <<>>
    /\ queue = <<>>
    /\ next = 0
    /\ down = {}

-----------------------------------------------------------------------------

Queued(id) == \E i \in DOMAIN queue : queue[i].id = id

\* Admit goes on to look for room.  That the id does not wait in the queue is
\* the callers' part: the daemon makes a new id for every job.
Admissible(r) ==
    /\ Validate(r)
    /\ r.id \notin DOMAIN running
    /\ ~Queued(r.id)
    /\ Want(r) <= Cardinality(Cards)

\* There is room.
AdmitFree(r) ==
    /\ FitErr(running, down, r) = "none"
    /\ next < MaxOrder
    /\ next' = next + 1
    /\ running' = Place(running, r, FitSlots(running, down, r), next + 1)
    /\ UNCHANGED <<queue, down>>

\* There is room once some lower priority jobs are pushed off.
AdmitPreempting(r) ==
    /\ FitErr(running, down, r) = "nofit"
    /\ Enough(running, down, r) # {}
    /\ next < MaxOrder
    /\ next' = next + 1
    /\ LET rest == Without(running, Victims(running, down, r))
       IN  running' = Place(rest, r, FitSlots(rest, down, r), next + 1)
    /\ UNCHANGED <<queue, down>>

\* There is no room, and the job waits.
AdmitQueued(r) ==
    /\ FitErr(running, down, r) = "nofit"
    /\ Enough(running, down, r) = {}
    /\ r.wait
    /\ Len(queue) < MaxQueue
    /\ queue' = Append(queue, r)
    /\ UNCHANGED <<running, next, down>>

Admit(r) == Admissible(r) /\ (AdmitFree(r) \/ AdmitPreempting(r) \/ AdmitQueued(r))

Evict(id) ==
    /\ running' = Without(running, {id})
    /\ UNCHANGED <<queue, next, down>>

Release(id) ==
    LET d == Drain(Without(running, {id}), next, queue, down)
    IN  /\ d.next <= MaxOrder
        /\ running' = d.run
        /\ queue' = d.rest
        /\ next' = d.next
        /\ UNCHANGED down

\* Puts a job that was pushed off, and so is not placed, before the others.
Requeue(r) ==
    /\ r.id \notin DOMAIN running /\ ~Queued(r.id)
    /\ Len(queue) < MaxQueue
    /\ queue' = <<[r EXCEPT !.wait = TRUE]>> \o queue
    /\ UNCHANGED <<running, next, down>>

Cancel(id) ==
    /\ queue' = Cancelled(queue, id)
    /\ UNCHANGED <<running, next, down>>

Resize(id, share, mem) ==
    /\ id \in DOMAIN running
    /\ LET r == Resized(running[id].req, share, mem)
       IN  /\ CanResize(running, id, r)
           /\ running' = ResizeJob(running, id, r)
    /\ UNCHANGED <<queue, next, down>>

\* Mutated form of SetDown: the cards are counted from one.
SetDownFromOne(c, isDown) ==
    /\ down' = IF isDown THEN down \cup {c + 1} ELSE down \ {c + 1}
    /\ UNCHANGED <<running, queue, next>>

SetDown(c, isDown) ==
    /\ down' = IF isDown THEN down \cup {c} ELSE down \ {c}
    /\ UNCHANGED <<running, queue, next>>

Next ==
    \/ \E r \in Asks : Admit(r) \/ Requeue(r)
    \/ \E id \in Ids : Release(id) \/ Evict(id) \/ Cancel(id)
    \/ \E id \in Ids, z \in Sizes : Resize(id, z[1], z[2])
    \/ \E c \in Serviced, b \in BOOLEAN : SetDown(c, b)

Spec == Init /\ [][Next]_vars

-----------------------------------------------------------------------------
(* What makes the scheduler correct. *)

\* The seats of a card are divided: every placed job holds, by number, as many
\* seats of each of its cards as it was given, and no seat is held twice.
\* (pickSeats trusts its callers to have counted; Resize looks through the job.)
SeatsDivided == Divided(running)

\* No card is given away beyond its seats or its memory, whatever was admitted,
\* drained, resized or preempted.
WithinCapacity == Bounded(running)

\* All or nothing: a placed job holds as many cards as it asked for, and on each
\* of them what its request (as last resized) needs there.
GangWhole == \A id \in DOMAIN running : running[id].req.id = id /\ Whole(running[id])

\* Admit pushes off only preemptible jobs of lower priority, none when there is
\* room, and none it could have left: with any one of them back there is no room.
\* It lets a job wait only when no set of such jobs would have made room.
PreemptionJustified ==
    [][\A r \in Asks : Admit(r) =>
          LET gone == DOMAIN running \ DOMAIN running'
          IN  /\ gone \subseteq Pool(running, r)
              /\ \A v \in gone : FitErr(Without(running, gone \ {v}), down, r) # "none"
              /\ queue' # queue =>
                    FitErr(Without(running, Pool(running, r)), down, r) # "none"
      ]_vars

\* Release leaves no request waiting that has room, and none that would have had
\* room but for a request of lower priority that the same call started.
NoInversion ==
    [][\A id \in Ids : Release(id) =>
          \A i \in DOMAIN queue' :
              LET lower == {j \in DOMAIN running' :
                              running'[j].order > next /\ running'[j].req.prio < queue'[i].prio}
              IN  FitErr(Without(running', lower), down, queue'[i]) # "none"
      ]_vars

\* The seats that each placed job holds.
Holds ==
    [j \in DOMAIN running |->
        UNION {{c} \X running[j].slots[c].ids : c \in DOMAIN running[j].slots}]

O == INSTANCE Owners WITH
        Jobs <- Ids, Spots <- UNION {{c} \X (0 .. CardSeats[c] - 1) : c \in Cards}, holds <- Holds

\* The scheduler keeps what Owners promises, although drain, Resize and the search for
\* victims place jobs with others looked through: a seat has one owner; who is placed keeps
\* just the seats it has until it is released, evicted or, for one newcomer at a time, pushed
\* off altogether; and a resize moves nobody, on any card, neither the job nor the others.
SeatsOwned == O!Spec

=============================================================================
