------------------------------- MODULE Daemon -------------------------------
(***************************************************************************)
(* gmux's daemon (internal/daemon/daemon.go): it asks the scheduler for     *)
(* decisions and carries them out on processes, while processes exit, their *)
(* reapers run, and callers submit, stop and resize jobs.  One action is one *)
(* critical section of d.mu; what happens between two sections of a call     *)
(* (the grace period of Stop, the wait of a reaper) is several actions.      *)
(*                                                                          *)
(* The daemon never marks a card down, so the cards in service are all of    *)
(* them.  Ids are those that newID has yet to make: each is used once.       *)
(***************************************************************************)
EXTENDS Placement, SequencesExt

CONSTANTS
    Asks,            \* the jobs that callers submit, with the id each will be given
    Sizes,           \* the sizes that callers resize to: pairs <<share, mem>>
    LaunchMayFail,   \* whether starting a process can fail
    SuspendMayFail,  \* whether a backend can fail to suspend a process
    MaxOrder         \* bound: no call that would place more than this many times in all

ASSUME DaemonAssumption ==
    /\ Asks \subseteq Request
    /\ Sizes \subseteq Int \X Nat
    /\ LaunchMayFail \in BOOLEAN /\ SuspendMayFail \in BOOLEAN
    /\ MaxOrder \in Nat

VARIABLES
    running,  \* d.sched.running
    queue,    \* d.sched.queue
    next,     \* d.sched.next
    jobs,     \* d.jobs: id -> state, request, placement, and process (0 for none)
    procs,    \* the processes ever started, by the order of the placement they were
              \* started for: their job, and whether they run, are stopped (SIGSTOP),
              \* are dead with the reaper still to run, or reaped
    open,     \* d.ledger.open: id -> the placements whose intervals are open
    stops,    \* the processes that a call of Stop waits for, having sent SIGTERM
    used      \* the ids that newID has made

vars == <<running, queue, next, jobs, procs, open, stops, used>>

sched == <<running, queue, next>>

JobState == {"queued", "running", "paused", "exited"}
ProcState == {"run", "stopped", "dead", "reaped"}

TypeOK ==
    /\ IsRunMap(running)
    /\ queue \in Seq(Request)
    /\ next \in Nat
    /\ used \subseteq Ids
    /\ DOMAIN jobs \subseteq used
    /\ \A id \in DOMAIN jobs :
          /\ jobs[id].state \in JobState
          /\ jobs[id].req \in Request /\ jobs[id].req.id = id
          /\ IsSlotMap(jobs[id].slots)
          /\ jobs[id].proc \in {0} \cup DOMAIN procs
    /\ DOMAIN procs \subseteq 1..next
    /\ procs \in [DOMAIN procs -> [job : used, st : ProcState]]
    /\ DOMAIN open \subseteq DOMAIN jobs
    /\ stops \subseteq DOMAIN procs

Init ==
    /\ running = <<>> /\ queue = <<>> /\ next = 0
    /\ jobs = <<>> /\ procs = <<>> /\ open = <<>>
    /\ stops = {} /\ used = {}

-----------------------------------------------------------------------------
(* Effects on the daemon's maps, shared by the calls below. *)

\* f with the keys of g given g's values.
Override(f, g) == [x \in DOMAIN f \cup DOMAIN g |-> IF x \in DOMAIN g THEN g[x] ELSE f[x]]

Forget(f, S) == [x \in DOMAIN f \ S |-> f[x]]

\* Mutated form of StartedJobs: a job that has a process already keeps it.
StartedJobsKept(S, run) ==
    [j \in S |-> [state |-> "running", req |-> jobs[j].req, slots |-> run[j].slots,
                  proc |-> IF jobs[j].proc = 0 THEN run[j].order ELSE jobs[j].proc]]

\* What startLocked leaves behind for the jobs S of map run, placed there just now.
StartedJobs(S, run) ==
    [j \in S |-> [state |-> "running", req |-> jobs[j].req, slots |-> run[j].slots,
                  proc |-> run[j].order]]
StartedProcs(S, run) ==
    [n \in {run[j].order : j \in S} |->
        [job |-> CHOOSE j \in S : run[j].order = n, st |-> "run"]]
\* ... and in the ledger, whose open intervals were o: each job's new interval is
\* added to those it has.
Begin(S, run, o) ==
    Override(o, [j \in S |-> Append(IF j \in DOMAIN o THEN o[j] ELSE <<>>, run[j].slots)])

\* The jobs whose processes fail to start, of those that the daemon tries to start.
Failures(S) == IF LaunchMayFail THEN SUBSET S ELSE {{}}

-----------------------------------------------------------------------------
(* Submit. *)

\* Without a share a job is given a whole card.
Defaulted(r) == IF r.share <= 0 THEN [r EXCEPT !.share = Unit] ELSE r

Admitted(r) ==
    /\ r.id \notin used
    /\ Validate(r)
    /\ Want(r) <= Cardinality(Cards)

NewJob(r, state) == [state |-> state, req |-> r, slots |-> <<>>, proc |-> 0]

SubmitQueued(r) ==
    /\ Admitted(r)
    /\ FitErr(running, {}, r) = "nofit" /\ Enough(running, {}, r) = {} /\ r.wait
    /\ queue' = Append(queue, r)
    /\ jobs' = Override(jobs, [i \in {r.id} |-> NewJob(r, "queued")])
    /\ used' = used \cup {r.id}
    /\ UNCHANGED <<running, next, procs, open, stops>>

\* The jobs of V that have a process: they are paused and go back to the queue.
\* (The others were removed by Admit, and that is all.)
Live(V) == {v \in V \cap DOMAIN jobs : jobs[v].proc # 0}

\* Requeue puts each before those already there, in the order they were chosen.
Requeued(V) ==
    LET line == InOrder(V, VictimOrder(running))
    IN  Reverse([k \in DOMAIN line |-> [jobs[line[k]].req EXCEPT !.wait = TRUE]]) \o queue

PausedJobs(V) == [v \in V |-> [jobs[v] EXCEPT !.state = "paused"]]

\* SIGSTOP to the processes of V; those of the jobs in awake are continued, also one
\* that something else had stopped, since the rest of Suspend failed for them.
Frozen(V, awake) ==
    [n \in {jobs[v].proc : v \in V} \cap {p \in DOMAIN procs : procs[p].st \in {"run", "stopped"}} |->
        [procs[n] EXCEPT !.st = IF procs[n].job \in awake THEN "run" ELSE "stopped"]]

\* There is room for r once the jobs V are pushed off.
SubmitStart(r, V) ==
    /\ next < MaxOrder
    /\ \E awake \in IF SuspendMayFail THEN SUBSET Live(V) ELSE {{}}, failed \in Failures({r.id}) :
        LET rest    == Without(running, V)
            placed  == Place(rest, r, FitSlots(rest, {}, r), next + 1)
            line    == Requeued(Live(V))
            pausing == Override(jobs, PausedJobs(Live(V)))
            frozen  == Override(procs, Frozen(Live(V), awake))
            drained == Drain(Without(placed, {r.id}), next + 1, line, {})
        IN  \/ /\ failed = {}
               /\ running' = placed /\ queue' = line /\ next' = next + 1
               /\ jobs' = Override(pausing,
                            [i \in {r.id} |-> [state |-> "running", req |-> r,
                                slots |-> placed[i].slots, proc |-> next + 1]])
               /\ procs' = Override(frozen, StartedProcs({r.id}, placed))
               /\ open' = Begin({r.id}, placed, Forget(open, Live(V)))
            \/ /\ failed # {}
               \* Release(id): the jobs it starts from the queue are not looked at.
               /\ drained.next <= MaxOrder
               /\ running' = drained.run /\ queue' = drained.rest /\ next' = drained.next
               /\ jobs' = pausing
               /\ procs' = frozen
               /\ open' = Forget(open, Live(V))
    /\ used' = used \cup {r.id}
    /\ UNCHANGED stops

SubmitFree(r) ==
    /\ Admitted(r)
    /\ FitErr(running, {}, r) = "none"
    /\ SubmitStart(r, {})

SubmitPreempting(r) ==
    /\ Admitted(r)
    /\ FitErr(running, {}, r) = "nofit"
    /\ Enough(running, {}, r) # {}
    /\ SubmitStart(r, Victims(running, {}, r))

Submit(ask) ==
    LET r == Defaulted(ask)
    IN  SubmitFree(r) \/ SubmitPreempting(r) \/ SubmitQueued(r)

-----------------------------------------------------------------------------
(* Processes and their reapers. *)

\* A process ends by itself, or on the SIGTERM of a Stop.
ProcExit(p) ==
    /\ procs[p].st = "run"
    /\ procs' = [procs EXCEPT ![p].st = "dead"]
    /\ stops' = stops \ {p}
    /\ UNCHANGED <<sched, jobs, open, used>>

\* The process is no longer its job's: the reaper returns.
ReapStale(p) ==
    LET id == procs[p].job
    IN  /\ procs[p].st = "dead"
        /\ id \notin DOMAIN jobs \/ jobs[id].proc # p
        /\ procs' = [procs EXCEPT ![p].st = "reaped"]
        /\ UNCHANGED <<sched, jobs, open, stops, used>>

\* Mutated forms of Awaits: whatever does not run is started, or only the paused jobs.
AwaitsUnlessRunning(job) == job.state # "running"
AwaitsIfPaused(job) == job.state = "paused"

\* A job that the scheduler takes from its queue is started only if it waits.
Awaits(job) == job.state \in {"queued", "paused"}

\* The job is over: its seats are released and the jobs drained from the queue are
\* started.  One that does not start keeps its placement; nobody is told.
ReapJob(p) ==
    LET id   == procs[p].job
        over == [jobs EXCEPT ![id].state = "exited", ![id].proc = 0]
    IN  /\ procs[p].st = "dead"
        /\ id \in DOMAIN jobs /\ jobs[id].proc = p
        /\ \E drained \in {Drain(Without(running, {id}), next, queue, {})} :
              LET todo == {j \in ToSet(drained.started) \cap DOMAIN jobs : Awaits(over[j])}
              IN  /\ drained.next <= MaxOrder
                  /\ running' = drained.run /\ queue' = drained.rest /\ next' = drained.next
                  /\ \E failed \in Failures(todo) :
                        LET up == todo \ failed
                        IN  /\ jobs' = Override(over, StartedJobs(up, drained.run))
                            /\ procs' = Override([procs EXCEPT ![p].st = "reaped"],
                                                 StartedProcs(up, drained.run))
                            /\ open' = Begin(up, drained.run, Forget(open, {id}))
        /\ UNCHANGED <<stops, used>>

Reap(p) == ReapStale(p) \/ ReapJob(p)

-----------------------------------------------------------------------------
(* Stop and Resize. *)

\* Mutated form of StopQueued: whatever its state, the job is forgotten.
StopQueuedAny(id) ==
    /\ id \in DOMAIN jobs
    /\ queue' = Cancelled(queue, id)
    /\ jobs' = Forget(jobs, {id})
    /\ UNCHANGED <<running, next, procs, open, stops, used>>

StopQueued(id) ==
    /\ id \in DOMAIN jobs /\ jobs[id].state = "queued"
    /\ queue' = Cancelled(queue, id)
    /\ jobs' = Forget(jobs, {id})
    /\ UNCHANGED <<running, next, procs, open, stops, used>>

\* Takes the process from the job under the lock, and sends it SIGTERM without.
StopSignal(id) ==
    /\ id \in DOMAIN jobs /\ jobs[id].state # "queued"
    /\ jobs[id].proc # 0 /\ procs[jobs[id].proc].st \in {"run", "stopped"}
    /\ stops' = stops \cup {jobs[id].proc}
    /\ UNCHANGED <<sched, jobs, procs, open, used>>

\* Mutated form of StopKill: the caller gives up when the grace period is over.
StopKillNot(p) ==
    /\ p \in stops
    /\ stops' = stops \ {p}
    /\ UNCHANGED <<sched, procs, jobs, open, used>>

\* The grace period is over: SIGKILL, which ends a stopped process too.
StopKill(p) ==
    /\ p \in stops
    /\ procs' = [procs EXCEPT ![p].st = "dead"]
    /\ stops' = stops \ {p}
    /\ UNCHANGED <<sched, jobs, open, used>>

\* Mutated form of Resize: the interval of the old size stays open.
ResizeUnended(id, share, mem) ==
    /\ id \in DOMAIN jobs /\ jobs[id].state = "running"
    /\ id \in DOMAIN running
    /\ LET r   == Resized(running[id].req, share, mem)
           new == ResizeJob(running, id, r)
       IN  /\ CanResize(running, id, r)
           /\ running' = new
           /\ jobs' = [jobs EXCEPT ![id].slots = new[id].slots]
           /\ open' = [open EXCEPT ![id] = Append(@, new[id].slots)]
    /\ UNCHANGED <<queue, next, procs, stops, used>>

Resize(id, share, mem) ==
    /\ id \in DOMAIN jobs /\ jobs[id].state = "running"
    /\ id \in DOMAIN running
    /\ LET r   == Resized(running[id].req, share, mem)
           new == ResizeJob(running, id, r)
       IN  /\ CanResize(running, id, r)
           /\ running' = new
           /\ jobs' = [jobs EXCEPT ![id].slots = new[id].slots]
           /\ open' = Begin({id}, new, Forget(open, {id}))
    /\ UNCHANGED <<queue, next, procs, stops, used>>

Next ==
    \/ \E r \in Asks : Submit(r)
    \/ \E p \in DOMAIN procs : ProcExit(p) \/ Reap(p) \/ StopKill(p)
    \/ \E id \in Ids : StopQueued(id) \/ StopSignal(id)
    \/ \E id \in Ids, z \in Sizes : Resize(id, z[1], z[2])

Spec == Init /\ [][Next]_vars

\* The daemon's own goroutines run: a dead process is reaped, and a Stop that waits
\* kills when its grace period is over.  Jobs may run for ever.
DaemonFairness ==
    \A p \in 1..MaxOrder : /\ WF_vars(p \in DOMAIN procs /\ Reap(p))
                           /\ WF_vars(p \in DOMAIN procs /\ StopKill(p))

FairSpec == Spec /\ DaemonFairness

-----------------------------------------------------------------------------
(* What holds whatever fails. *)

\* The cards stay divided and within their capacity through every call, reaper,
\* failed launch and preemption.
CardsDivided == Divided(running) /\ Bounded(running)

\* A job shown as running holds its seats, its placement is the scheduler's, and it
\* is being accounted for exactly once, for exactly that placement; no other job is
\* being accounted for.  (startLocked, reap, pauseLocked and Resize each keep three
\* maps in step by hand.)
ViewsAgree ==
    /\ \A id \in DOMAIN jobs : jobs[id].state = "running" =>
          /\ id \in DOMAIN running /\ running[id].slots = jobs[id].slots
          /\ id \in DOMAIN open /\ open[id] = <<jobs[id].slots>>
    /\ \A id \in DOMAIN open : jobs[id].state = "running"

\* A job shown as running has a process of its own that is not frozen, and whose
\* reaper has yet to run, however often it was preempted and started again.
RunningRuns ==
    \A id \in DOMAIN jobs : jobs[id].state = "running" =>
        LET p == jobs[id].proc
        IN  p \in DOMAIN procs /\ procs[p].job = id /\ procs[p].st \in {"run", "dead"}

\* No job waits twice, and none waits while it is placed: draining the queue never
\* overwrites a placement.
WaitsOnce ==
    /\ \A i, k \in DOMAIN queue : queue[i].id = queue[k].id => i = k
    /\ \A i \in DOMAIN queue : queue[i].id \notin DOMAIN running

\* A job that has exited is never started again, even when a request of it is still
\* in the queue.
ExitedForGood ==
    [][\A id \in DOMAIN jobs : jobs[id].state = "exited" =>
          id \in DOMAIN jobs' /\ jobs'[id].state = "exited"]_vars

-----------------------------------------------------------------------------
(* What holds while no launch fails and no job can be pushed off. *)

\* "Release frees a job's seats and returns the queued jobs that now fit [...]. The
\* caller starts them" (scheduler.go:382): every seat that the scheduler counts as
\* used is used by a running job.
NoGhost == \A id \in DOMAIN running : id \in DOMAIN jobs /\ jobs[id].state = "running"

\* The jobs that wait are the ones the scheduler has in its queue.
WaitingInLine ==
    \A id \in Ids : (id \in DOMAIN jobs /\ jobs[id].state \in {"queued", "paused"})
                        <=> \E i \in DOMAIN queue : queue[i].id = id

\* "nothing free right now; it starts when a share opens up" (main.go:231): as long as
\* no job is resized, a job waits only while there is no room for it, also behind a
\* bigger one (drain skips what does not fit; nothing else looks at the queue).
WaitsForRoom == \A i \in DOMAIN queue : FitErr(running, {}, queue[i]) # "none"

\* No command runs for ever.
CommandsEnd ==
    \A p \in 1..MaxOrder : []<>~(p \in DOMAIN procs /\ procs[p].st = "run")

\* At some point the last job is submitted.  (In every instance it is: each id is used once.)
ArrivalsEnd == <>[][used' = used]_vars

\* "it starts when a share opens up" (main.go:231): a queued job starts, or is
\* stopped, if no command runs for ever and jobs stop arriving.  Admit gives room to a
\* newcomer without a look at the queue (scheduler.go:345-376), so while jobs keep
\* arriving a bigger one in the queue may wait for ever.
QueuedStarts ==
    CommandsEnd /\ ArrivalsEnd => \A id \in Ids :
        (id \in DOMAIN jobs /\ jobs[id].state = "queued")
            ~> (id \notin DOMAIN jobs \/ jobs[id].state \in {"running", "exited"})

\* "Stop ends a job" (daemon.go:268): once Stop has signalled it, a job ends, even
\* if its command ignores the signal and would run for ever.
StopEnds ==
    \A id \in Ids :
        (id \in DOMAIN jobs /\ jobs[id].proc \in stops)
            ~> (id \notin DOMAIN jobs \/ jobs[id].state = "exited")

=============================================================================
