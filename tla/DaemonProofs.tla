---------------------------- MODULE DaemonProofs ----------------------------
(***************************************************************************)
(* The daemon's safety properties, proved for any cards, any jobs, any      *)
(* resizes and any bound, whatever launches and suspends fail.              *)
(*                                                                          *)
(* Submit, the reapers and Resize each update several of the daemon's maps.  *)
(* The parts of the invariant are stated here for any values of those maps,  *)
(* so that a call is followed map by map: pausing the victims, starting a    *)
(* set of jobs, ending one, are lemmas that the actions share.               *)
(***************************************************************************)
EXTENDS Daemon, PlacementProofs

\* The scheduler's part: as in SchedulerProofs, and every id it knows has been used.
SchedOK(run, q, n, us) ==
    /\ n \in Nat
    /\ Sound(run) /\ OrdersApart(run, n)
    /\ q \in Seq(Request) /\ WaitsApart(run, q)
    /\ DOMAIN run \subseteq us /\ \A i \in DOMAIN q : q[i].id \in us

\* The jobs: each has its four parts, and a process while it is running or paused, and
\* only then.  The process is that job's, has its reaper still to run, and is not
\* frozen while the job is shown as running.
JobsOK(jb, pr, us) ==
    /\ DOMAIN jb \subseteq us
    /\ \A id \in DOMAIN jb :
          /\ jb[id] = [state |-> jb[id].state, req |-> jb[id].req,
                       slots |-> jb[id].slots, proc |-> jb[id].proc]
          /\ jb[id].state \in JobState
          /\ jb[id].req \in Request /\ jb[id].req.id = id
          /\ IsSlotMap(jb[id].slots)
          /\ jb[id].proc = 0 <=> jb[id].state \in {"queued", "exited"}
          /\ jb[id].proc # 0 =>
                /\ jb[id].proc \in DOMAIN pr
                /\ pr[jb[id].proc].job = id
                /\ pr[jb[id].proc].st # "reaped"
                /\ jb[id].state = "running" => pr[jb[id].proc].st # "stopped"

\* The processes: one for each placement that was started.
ProcsOK(pr, us, n) ==
    DOMAIN pr \subseteq 1 .. n /\ pr \in [DOMAIN pr -> [job : us, st : ProcState]]

\* The ledger: the running jobs are the ones accounted for, each for its placement.
ViewsOK(jb, run, op) ==
    /\ DOMAIN op \subseteq DOMAIN jb
    /\ \A id \in DOMAIN jb : jb[id].state = "running" =>
          /\ id \in DOMAIN run /\ run[id].slots = jb[id].slots
          /\ id \in DOMAIN op /\ op[id] = <<jb[id].slots>>
    /\ \A id \in DOMAIN op : jb[id].state = "running"

\* The inductive invariant.
DInv ==
    /\ used \subseteq Ids
    /\ SchedOK(running, queue, next, used)
    /\ JobsOK(jobs, procs, used)
    /\ ProcsOK(procs, used, next)
    /\ ViewsOK(jobs, running, open)
    /\ stops \subseteq DOMAIN procs

LEMMA InitDInv == Init => DInv
<1> SUFFICES ASSUME Init PROVE DInv
  OBVIOUS
<1>1. running = <<>> /\ DOMAIN running = {}
  BY DEF Init
<1>2. Sound(running)
  <2>1. IsRunMap(running) /\ Divided(running)
    BY <1>1 DEF IsRunMap, Divided, OnCard
  <2>2. Bounded(running)
    BY <1>1, EmptyBounded
  <2> QED BY <1>1, <2>1, <2>2 DEF Sound
<1>3. SchedOK(running, queue, next, used)
  BY <1>1, <1>2 DEF Init, SchedOK, OrdersApart, WaitsApart
<1>4. JobsOK(jobs, procs, used) /\ ViewsOK(jobs, running, open)
  BY DEF Init, JobsOK, ViewsOK
<1>5. ProcsOK(procs, used, next)
  BY DEF Init, ProcsOK
<1> QED BY <1>3, <1>4, <1>5 DEF DInv, Init

-----------------------------------------------------------------------------
(* Starting jobs. *)

\* The processes that are started are those of the jobs' placements.
LEMMA StartedProcsIs ==
    ASSUME NEW run, NEW n, OrdersApart(run, n), NEW S \in SUBSET DOMAIN run
    PROVE  LET sp == StartedProcs(S, run)
           IN  /\ DOMAIN sp = {run[j].order : j \in S}
               /\ \A j \in S : sp[run[j].order] = [job |-> j, st |-> "run"]
<1>1. ASSUME NEW j \in S
      PROVE  (CHOOSE i \in S : run[i].order = run[j].order) = j
  <2>1. \A i \in S : run[i].order = run[j].order => i = j
    BY DEF OrdersApart
  <2> QED BY <2>1
<1> QED BY <1>1 DEF StartedProcs

\* The jobs S are placed in run with orders after n, do not run, and are now shown as new.
Starting(S, run, n, jb, new) ==
    /\ \A j \in S : run[j].order > n
    /\ \A j \in S \cap DOMAIN jb : jb[j].state # "running"
    /\ DOMAIN new = S
    /\ \A j \in S : /\ new[j] = [state |-> "running", req |-> new[j].req,
                                  slots |-> run[j].slots, proc |-> run[j].order]
                     /\ new[j].req \in Request /\ new[j].req.id = j

\* startLocked for the jobs S, which are placed with orders after n and do not run: the
\* jobs, the processes and the ledger stay in step.
LEMMA StartKeeps ==
    ASSUME NEW us, NEW n \in Nat, NEW m \in Nat, n <= m,
           NEW run, Sound(run), OrdersApart(run, m),
           NEW jb, NEW pr, NEW op,
           JobsOK(jb, pr, us), ProcsOK(pr, us, n), ViewsOK(jb, run, op),
           NEW S \in SUBSET (DOMAIN run \cap us), NEW new, Starting(S, run, n, jb, new)
    PROVE  LET jb2 == Override(jb, new)
               pr2 == Override(pr, StartedProcs(S, run))
           IN  JobsOK(jb2, pr2, us) /\ ProcsOK(pr2, us, m) /\ ViewsOK(jb2, run, Begin(S, run, op))
<1> DEFINE jb2 == Override(jb, new)
           sp == StartedProcs(S, run)
           pr2 == Override(pr, sp)
           op2 == Begin(S, run, op)
<1>0. /\ \A j \in S : run[j].order > n
      /\ \A j \in S \cap DOMAIN jb : jb[j].state # "running"
      /\ DOMAIN new = S
      /\ \A j \in S : /\ new[j] = [state |-> "running", req |-> new[j].req,
                                    slots |-> run[j].slots, proc |-> run[j].order]
                       /\ new[j].req \in Request /\ new[j].req.id = j
  BY DEF Starting
<1>1. /\ DOMAIN sp = {run[j].order : j \in S}
      /\ \A j \in S : sp[run[j].order] = [job |-> j, st |-> "run"]
  <2>1. S \in SUBSET DOMAIN run
    OBVIOUS
  <2> QED BY <2>1, StartedProcsIs
<1>2. \A j \in S : run[j].order \in 1 .. m /\ run[j].order \notin 1 .. n /\ run[j].order # 0
  <2>1. \A j \in S : run[j].order \in 1 .. m
    BY DEF OrdersApart
  <2> QED BY <1>0, <2>1
<1> HIDE DEF sp
<1>3. /\ DOMAIN pr2 = DOMAIN pr \cup {run[j].order : j \in S}
      /\ \A p \in DOMAIN pr : p \notin DOMAIN sp /\ pr2[p] = pr[p]
      /\ \A j \in S : pr2[run[j].order] = [job |-> j, st |-> "run"]
  BY <1>1, <1>2 DEF Override, ProcsOK
<1>4. /\ DOMAIN jb2 = DOMAIN jb \cup S
      /\ \A j \in S : jb2[j] = new[j]
      /\ \A j \in DOMAIN jb \ S : jb2[j] = jb[j]
  BY <1>0 DEF Override
<1>5. /\ DOMAIN op2 = DOMAIN op \cup S
      /\ \A j \in S : op2[j] = <<run[j].slots>>
      /\ \A j \in DOMAIN op \ S : op2[j] = op[j]
  <2>1. \A j \in S : j \notin DOMAIN op
    BY <1>0 DEF ViewsOK
  <2>2. ASSUME NEW j \in S
        PROVE  Append(IF j \in DOMAIN op THEN op[j] ELSE <<>>, run[j].slots) = <<run[j].slots>>
    <3> DEFINE e == IF j \in DOMAIN op THEN op[j] ELSE <<>>
               x == run[j].slots
    <3>1. e = <<>>
      BY <2>1
    <3> HIDE DEF e, x
    <3>2. Append(e, x) = <<x>>
      BY <3>1
    <3> QED BY <3>2 DEF e, x
  <2> QED BY <2>2 DEF Begin, Override
<1> HIDE DEF jb2, pr2, op2
<1>6. ProcsOK(pr2, us, m)
  <2>1. pr2 = [p \in DOMAIN pr2 |-> pr2[p]]
    BY DEF pr2, Override
  <2>2. DOMAIN pr2 \subseteq 1 .. m
    BY <1>2, <1>3 DEF ProcsOK
  <2>3. ASSUME NEW p \in DOMAIN pr2 PROVE pr2[p] \in [job : us, st : ProcState]
    <3>1. CASE p \in DOMAIN pr
      BY <1>3, <3>1 DEF ProcsOK
    <3>2. CASE p \notin DOMAIN pr
      <4>1. PICK j \in S : p = run[j].order
        BY <1>3, <3>2
      <4>2. pr2[p] = [job |-> j, st |-> "run"]
        BY <1>3, <4>1
      <4> QED BY <4>2 DEF ProcState
    <3> QED BY <3>1, <3>2
  <2> QED BY <2>1, <2>2, <2>3 DEF ProcsOK
<1>7. \A j \in S : IsSlotMap(run[j].slots)
  BY DEF Sound, IsRunMap, IsPlaced
<1>8. JobsOK(jb2, pr2, us)
  <2>1. DOMAIN jb2 \subseteq us
    BY <1>4 DEF JobsOK
  <2>2. ASSUME NEW id \in S
        PROVE  /\ jb2[id] = [state |-> jb2[id].state, req |-> jb2[id].req,
                             slots |-> jb2[id].slots, proc |-> jb2[id].proc]
               /\ jb2[id].state = "running" /\ jb2[id].req \in Request /\ jb2[id].req.id = id
               /\ jb2[id].slots = run[id].slots /\ jb2[id].proc = run[id].order
    <3>1. jb2[id] = [state |-> "running", req |-> new[id].req,
                     slots |-> run[id].slots, proc |-> run[id].order]
      BY <1>0, <1>4
    <3> QED BY <1>0, <3>1
  <2>3. ASSUME NEW id \in S
        PROVE  /\ jb2[id].proc # 0 /\ jb2[id].proc \in DOMAIN pr2
               /\ pr2[jb2[id].proc].job = id /\ pr2[jb2[id].proc].st = "run"
    <3>1. jb2[id].proc = run[id].order
      BY <2>2
    <3>2. pr2[run[id].order] = [job |-> id, st |-> "run"]
      BY <1>3
    <3> QED BY <1>2, <1>3, <3>1, <3>2
  <2> QED BY <1>3, <1>4, <1>7, <2>1, <2>2, <2>3 DEF JobsOK, JobState
<1>9. ViewsOK(jb2, run, op2)
  <2>1. \A id \in S : jb2[id].state = "running" /\ jb2[id].slots = run[id].slots
    <3> SUFFICES ASSUME NEW id \in S
                 PROVE  jb2[id].state = "running" /\ jb2[id].slots = run[id].slots
      OBVIOUS
    <3>1. jb2[id] = [state |-> "running", req |-> new[id].req,
                     slots |-> run[id].slots, proc |-> run[id].order]
      BY <1>0, <1>4
    <3> QED BY <3>1
  <2> QED BY <1>4, <1>5, <2>1 DEF ViewsOK
<1> QED BY <1>6, <1>8, <1>9 DEF jb2, pr2, op2, sp

-----------------------------------------------------------------------------
(* Pushing jobs off. *)

\* One sequence after another.
LEMMA Joined ==
    ASSUME NEW S, NEW a \in Seq(S), NEW b \in Seq(S)
    PROVE  /\ a \o b \in Seq(S) /\ DOMAIN (a \o b) = 1 .. Len(a) + Len(b)
           /\ \A i \in 1 .. Len(a) : (a \o b)[i] = a[i]
           /\ \A i \in Len(a) + 1 .. Len(a) + Len(b) :
                 (a \o b)[i] = b[i - Len(a)] /\ i - Len(a) \in 1 .. Len(b)
<1>1. a \o b \in Seq(S) /\ Len(a \o b) = Len(a) + Len(b) /\ Len(a) \in Nat /\ Len(b) \in Nat
  OBVIOUS
<1>2. \A i \in 1 .. Len(a) + Len(b) : (a \o b)[i] = IF i <= Len(a) THEN a[i] ELSE b[i - Len(a)]
  OBVIOUS
<1> QED BY <1>1, <1>2

\* The victims that go back to the queue stand before the others, each once.
LEMMA RequeuedIs ==
    ASSUME DInv, NEW V \in SUBSET (DOMAIN running \cap DOMAIN jobs)
    PROVE  /\ Requeued(V) \in Seq(Request) /\ WaitsApart(Without(running, V), Requeued(V))
           /\ \A i \in DOMAIN Requeued(V) :
                 \/ Requeued(V)[i].id \in V
                 \/ \E k \in DOMAIN queue : Requeued(V)[i] = queue[k]
           /\ \A k \in DOMAIN queue : \E i \in DOMAIN Requeued(V) : Requeued(V)[i] = queue[k]
<1> DEFINE R == VictimOrder(running)
           line == InOrder(V, R)
           v == Cardinality(V)
           front == [k \in DOMAIN line |-> [jobs[line[k]].req EXCEPT !.wait = TRUE]]
           back == Reverse(front)
           n == Len(queue)
           q == Requeued(V)
<1>1. /\ next \in Nat /\ Sound(running) /\ IsRunMap(running) /\ OrdersApart(running, next)
      /\ queue \in Seq(Request) /\ WaitsApart(running, queue)
  BY DEF DInv, SchedOK, Sound
<1>2. IsOrder(V, R) /\ IsFiniteSet(V) /\ v \in Nat
  <2>1. V \in SUBSET DOMAIN running
    OBVIOUS
  <2> QED BY <1>1, <2>1, VictimOrderIs, FS_CardinalityType
<1>3. DOMAIN line = 1 .. v
  BY DEF InOrder
<1>4. \A k \in 1 .. v : line[k] \in V
  <2> HIDE DEF R
  <2> QED BY <1>2, InOrderIs
<1>5. \A i, k \in 1 .. v : line[i] = line[k] => i = k
  <2>1. \A i, k \in 1 .. v : i < k => line[i] # line[k]
    <3> HIDE DEF R
    <3> QED BY <1>2, InOrderRises
  <2>2. \A i, k \in 1 .. v : i < k \/ k < i \/ i = k
    BY <1>2
  <2> HIDE DEF line
  <2> QED BY <2>1, <2>2
<1> HIDE DEF line, v, R
<1>6. ASSUME NEW k \in 1 .. v
      PROVE  front[k] \in Request /\ front[k].id = line[k]
  <2>1. jobs[line[k]].req \in Request /\ jobs[line[k]].req.id = line[k]
    BY <1>4 DEF DInv, JobsOK
  <2>2. front[k] = [jobs[line[k]].req EXCEPT !.wait = TRUE]
    BY <1>3
  <2> HIDE DEF front
  <2> QED BY <2>1, <2>2 DEF Request
<1>7. front \in Seq(Request) /\ Len(front) = v
  <2>1. front \in [1 .. v -> Request]
    BY <1>3, <1>6
  <2> HIDE DEF front
  <2> QED BY <1>2, <2>1
<1>8. /\ back \in Seq(Request) /\ Len(back) = v
      /\ \A i \in 1 .. v : v - i + 1 \in 1 .. v /\ back[i] = front[v - i + 1]
  <2> HIDE DEF front
  <2>1. \A i \in 1 .. v : v - i + 1 \in 1 .. v
    BY <1>2
  <2>2. back = [i \in 1 .. v |-> front[v - i + 1]]
    BY <1>7 DEF Reverse
  <2>3. back \in [1 .. v -> Request]
    BY <1>6, <1>7, <2>1, <2>2
  <2> HIDE DEF back
  <2> QED BY <1>2, <2>1, <2>2, <2>3
<1> HIDE DEF back
<1>9. q = back \o queue
  BY DEF Requeued, back, front, line, R
<1> HIDE DEF q, front
<1>10. /\ n \in Nat /\ DOMAIN queue = 1 .. n
       /\ q \in Seq(Request) /\ DOMAIN q = 1 .. v + n
       /\ \A i \in 1 .. v : q[i] = back[i]
       /\ \A i \in v + 1 .. v + n : q[i] = queue[i - v] /\ i - v \in 1 .. n
  <2>1. n \in Nat /\ DOMAIN queue = 1 .. n
    BY <1>1
  <2>2. back \in Seq(Request) /\ Len(back) = v
    BY <1>8
  <2> QED BY <1>1, <1>2, <1>9, <2>1, <2>2, Joined
<1>11. 1 .. v + n = (1 .. v) \cup (v + 1 .. v + n)
  BY <1>2, <1>10
<1> HIDE DEF n
<1>12. ASSUME NEW i \in 1 .. v
       PROVE  q[i].id \in V /\ q[i].id = line[v - i + 1] /\ v - i + 1 \in 1 .. v
  <2> DEFINE m == v - i + 1
  <2>1. m \in 1 .. v /\ q[i] = front[m]
    BY <1>8, <1>10
  <2> HIDE DEF m
  <2>2. q[i].id = line[m] /\ line[m] \in V
    BY <1>4, <1>6, <2>1
  <2> QED BY <2>1, <2>2 DEF m
<1>13. ASSUME NEW i \in v + 1 .. v + n
       PROVE  /\ \E k \in DOMAIN queue : q[i] = queue[k]
              /\ q[i].id \notin DOMAIN running
  BY <1>1, <1>10 DEF WaitsApart
<1>14. ASSUME NEW i \in DOMAIN q, NEW k \in DOMAIN q, q[i].id = q[k].id PROVE i = k
  <2>1. CASE i \in 1 .. v /\ k \in 1 .. v
    <3>1. line[v - i + 1] = line[v - k + 1] /\ v - i + 1 \in 1 .. v /\ v - k + 1 \in 1 .. v
      BY <1>12, <1>14, <2>1
    <3>2. v - i + 1 = v - k + 1
      BY <1>5, <3>1
    <3> QED BY <1>2, <2>1, <3>2
  <2>2. CASE i \in v + 1 .. v + n /\ k \in v + 1 .. v + n
    <3>1. i - v \in DOMAIN queue /\ k - v \in DOMAIN queue /\ queue[i - v].id = queue[k - v].id
      BY <1>10, <1>14, <2>2
    <3>2. i - v = k - v
      BY <1>1, <3>1 DEF WaitsApart
    <3> QED BY <1>2, <1>10, <2>2, <3>2
  <2>3. CASE i \in 1 .. v /\ k \in v + 1 .. v + n
    BY <1>12, <1>13, <1>14, <2>3
  <2>4. CASE k \in 1 .. v /\ i \in v + 1 .. v + n
    BY <1>12, <1>13, <1>14, <2>4
  <2> QED BY <1>10, <1>11, <2>1, <2>2, <2>3, <2>4
<1>15. DOMAIN Without(running, V) = DOMAIN running \ V
  BY DEF Without
<1>16. WaitsApart(Without(running, V), q)
  BY <1>10, <1>11, <1>12, <1>13, <1>14, <1>15 DEF WaitsApart
<1>17. \A i \in DOMAIN q : q[i].id \in V \/ \E k \in DOMAIN queue : q[i] = queue[k]
  BY <1>10, <1>11, <1>12, <1>13
<1>18. ASSUME NEW k \in DOMAIN queue PROVE \E i \in DOMAIN q : q[i] = queue[k]
  <2> DEFINE i == v + k
  <2>1. i \in v + 1 .. v + n /\ i \in DOMAIN q /\ i - v = k
    BY <1>2, <1>10
  <2> HIDE DEF i
  <2>2. q[i] = queue[k]
    BY <1>10, <2>1
  <2> QED BY <2>1, <2>2
<1> QED BY <1>10, <1>16, <1>17, <1>18 DEF q

\* Pausing the victims that have processes keeps the daemon's maps in step, for any
\* placements that the others keep.
LEMMA PauseKeeps ==
    ASSUME DInv, NEW V \in SUBSET DOMAIN running, NEW awake,
           NEW run, Extends(run, Without(running, V))
    PROVE  LET pausing == Override(jobs, PausedJobs(Live(V)))
               frozen  == Override(procs, Frozen(Live(V), awake))
           IN  /\ DOMAIN pausing = DOMAIN jobs /\ DOMAIN frozen = DOMAIN procs
               /\ \A id \in DOMAIN jobs : jobs[id].proc = 0 => pausing[id] = jobs[id]
               /\ JobsOK(pausing, frozen, used) /\ ProcsOK(frozen, used, next)
               /\ ViewsOK(pausing, run, Forget(open, Live(V)))
<1> DEFINE L == Live(V)
           pausing == Override(jobs, PausedJobs(L))
           ice == Frozen(L, awake)
           frozen == Override(procs, ice)
           op == Forget(open, L)
<1>1. L \subseteq V /\ L \subseteq DOMAIN jobs /\ \A v \in DOMAIN jobs : v \in L <=> v \in V /\ jobs[v].proc # 0
  BY DEF Live
<1> HIDE DEF L
<1>2. /\ DOMAIN pausing = DOMAIN jobs
      /\ \A id \in DOMAIN jobs \ L : pausing[id] = jobs[id]
      /\ \A id \in L : /\ pausing[id] = [state |-> "paused", req |-> jobs[id].req,
                                         slots |-> jobs[id].slots, proc |-> jobs[id].proc]
  <2>1. \A id \in L : [jobs[id] EXCEPT !.state = "paused"]
                        = [state |-> "paused", req |-> jobs[id].req,
                           slots |-> jobs[id].slots, proc |-> jobs[id].proc]
    BY <1>1 DEF DInv, JobsOK
  <2>2. DOMAIN PausedJobs(L) = L /\ \A id \in L : PausedJobs(L)[id] = [jobs[id] EXCEPT !.state = "paused"]
    BY DEF PausedJobs
  <2> DEFINE pj == PausedJobs(L)
  <2> HIDE DEF pj
  <2>3. /\ DOMAIN pausing = DOMAIN jobs
        /\ \A id \in DOMAIN jobs \ L : pausing[id] = jobs[id]
        /\ \A id \in L : pausing[id] = pj[id]
    BY <1>1, <2>2 DEF Override, pj
  <2> HIDE DEF pausing
  <2> QED BY <2>1, <2>2, <2>3 DEF pj
<1>3. ASSUME NEW id \in L
      PROVE  /\ pausing[id].state = "paused" /\ pausing[id].req = jobs[id].req
             /\ pausing[id].slots = jobs[id].slots /\ pausing[id].proc = jobs[id].proc
  <2> HIDE DEF pausing
  <2>1. pausing[id] = [state |-> "paused", req |-> jobs[id].req,
                       slots |-> jobs[id].slots, proc |-> jobs[id].proc]
    BY <1>2
  <2> QED BY <2>1
<1>4. /\ DOMAIN frozen = DOMAIN procs
      /\ \A p \in DOMAIN procs :
            \/ frozen[p] = procs[p]
            \/ /\ \E v \in L : p = jobs[v].proc
               /\ \E s \in {"run", "stopped"} : frozen[p] = [procs[p] EXCEPT !.st = s]
  BY DEF Override, Frozen
<1>5. \A p \in DOMAIN procs :
        /\ frozen[p].job = procs[p].job
        /\ frozen[p] \in [job : used, st : ProcState]
        /\ \/ frozen[p] = procs[p]
           \/ (\E v \in L : p = jobs[v].proc) /\ frozen[p].st \in {"run", "stopped"}
  <2>1. \A p \in DOMAIN procs : procs[p] \in [job : used, st : ProcState]
    BY DEF DInv, ProcsOK
  <2>2. ASSUME NEW x \in [job : used, st : ProcState], NEW s \in {"run", "stopped"},
               NEW y, y = [x EXCEPT !.st = s]
        PROVE  y.job = x.job /\ y.st = s /\ y \in [job : used, st : ProcState]
    BY <2>2 DEF ProcState
  <2> HIDE DEF frozen
  <2> QED BY <1>4, <2>1, <2>2
<1>6. ProcsOK(frozen, used, next)
  <2>1. frozen = [p \in DOMAIN frozen |-> frozen[p]]
    BY DEF Override
  <2> HIDE DEF frozen
  <2> QED BY <1>4, <1>5, <2>1 DEF ProcsOK, DInv
<1> HIDE DEF pausing, frozen, ice
<1>7. JobsOK(pausing, frozen, used)
  <2>1. DOMAIN pausing \subseteq used
    BY <1>2 DEF DInv, JobsOK
  <2>2. ASSUME NEW id \in DOMAIN jobs
        PROVE  /\ pausing[id] = [state |-> pausing[id].state, req |-> pausing[id].req,
                                 slots |-> pausing[id].slots, proc |-> pausing[id].proc]
               /\ pausing[id].state \in JobState
               /\ pausing[id].req \in Request /\ pausing[id].req.id = id
               /\ IsSlotMap(pausing[id].slots)
               /\ pausing[id].proc = jobs[id].proc
               /\ pausing[id].proc = 0 <=> pausing[id].state \in {"queued", "exited"}
    <3>1. CASE id \in L
      <4>1. /\ jobs[id].req \in Request /\ jobs[id].req.id = id
            /\ IsSlotMap(jobs[id].slots) /\ jobs[id].proc # 0
        BY <1>1, <3>1 DEF DInv, JobsOK
      <4>2. pausing[id] = [state |-> pausing[id].state, req |-> pausing[id].req,
                           slots |-> pausing[id].slots, proc |-> pausing[id].proc]
        BY <1>2, <1>3, <3>1
      <4> QED BY <1>3, <3>1, <4>1, <4>2 DEF JobState
    <3>2. CASE id \notin L
      BY <1>2, <3>2 DEF DInv, JobsOK
    <3> QED BY <3>1, <3>2
  <2>3. ASSUME NEW id \in DOMAIN jobs, pausing[id].proc # 0
        PROVE  /\ pausing[id].proc \in DOMAIN frozen
               /\ frozen[pausing[id].proc].job = id
               /\ frozen[pausing[id].proc].st # "reaped"
               /\ pausing[id].state = "running" => frozen[pausing[id].proc].st # "stopped"
    <3> DEFINE p == jobs[id].proc
    <3>1. /\ pausing[id].proc = p /\ p \in DOMAIN procs /\ procs[p].job = id
          /\ procs[p].st # "reaped"
          /\ jobs[id].state = "running" => procs[p].st # "stopped"
      BY <2>2, <2>3 DEF DInv, JobsOK
    <3>2. \A v \in L : jobs[v].proc = p => v = id
      BY <1>1, <3>1 DEF DInv, JobsOK
    <3>3. id \in L => pausing[id].state # "running"
      BY <1>3
    <3>4. id \notin L => pausing[id] = jobs[id]
      BY <1>2
    <3> HIDE DEF p
    <3>5. frozen[p].job = id /\ frozen[p].st # "reaped" /\ p \in DOMAIN frozen
      <4>1. frozen[p] = procs[p] \/ frozen[p].st \in {"run", "stopped"}
        BY <1>5, <3>1
      <4>2. frozen[p].st # "reaped"
        BY <3>1, <4>1
      <4> QED BY <1>4, <1>5, <3>1, <4>2
    <3>6. pausing[id].state = "running" => frozen[p].st # "stopped"
      <4>1. CASE id \in L
        BY <3>3, <4>1
      <4>2. CASE id \notin L
        <5>1. frozen[p] = procs[p]
          BY <1>5, <3>1, <3>2, <4>2
        <5> QED BY <3>1, <3>4, <4>2, <5>1
      <4> QED BY <4>1, <4>2
    <3> QED BY <3>1, <3>5, <3>6
  <2> QED BY <1>2, <2>1, <2>2, <2>3 DEF JobsOK
<1>8. ViewsOK(pausing, run, op)
  <2>1. DOMAIN op = DOMAIN open \ L /\ \A id \in DOMAIN op : op[id] = open[id]
    BY DEF Forget
  <2>2. \A id \in DOMAIN jobs : pausing[id].state = "running" =>
            id \notin L /\ jobs[id].state = "running" /\ pausing[id] = jobs[id]
    BY <1>2, <1>3
  <2>3. \A id \in DOMAIN jobs : jobs[id].state = "running" => jobs[id].proc # 0
    BY DEF DInv, JobsOK
  <2>4. \A id \in DOMAIN jobs : jobs[id].state = "running" /\ id \notin L =>
            id \in DOMAIN run /\ run[id] = running[id]
    BY <1>1, <2>3 DEF DInv, ViewsOK, Extends, Without
  <2> HIDE DEF op
  <2> QED BY <1>2, <2>1, <2>2, <2>4 DEF ViewsOK, DInv
<1>9. \A id \in DOMAIN jobs : jobs[id].proc = 0 => pausing[id] = jobs[id]
  BY <1>1, <1>2
<1> QED BY <1>2, <1>4, <1>6, <1>7, <1>8, <1>9 DEF pausing, frozen, ice, op, L

-----------------------------------------------------------------------------
(* The queue is drained. *)

\* Draining keeps the scheduler's part; who is placed keeps what it has, who starts is who
\* was waiting, and who waits on has no room.
LEMMA DrainKeeps ==
    ASSUME NEW run, NEW q, NEW n, NEW us, SchedOK(run, q, n, us)
    PROVE  LET d == Drain(run, n, q, {})
           IN  /\ SchedOK(d.run, d.rest, d.next, us) /\ n <= d.next
               /\ Extends(d.run, run)
               /\ \A j \in DOMAIN d.run \ DOMAIN run :
                     d.run[j].order > n /\ \E m \in DOMAIN q : d.run[j].req = q[m]
               /\ \A j \in Ids : (\E i \in DOMAIN d.started : d.started[i] = j)
                                    <=> j \in DOMAIN d.run \ DOMAIN run
               /\ \A i \in DOMAIN d.rest : /\ \E m \in DOMAIN q : d.rest[i] = q[m]
                                           /\ FitErr(d.run, {}, d.rest[i]) # "none"
               /\ \A m \in DOMAIN q :
                     q[m].id \in DOMAIN d.run \/ \E i \in DOMAIN d.rest : d.rest[i] = q[m]
<1> DEFINE d == Drain(run, n, q, {})
<1>1. Sound(run) /\ n \in Nat /\ OrdersApart(run, n) /\ q \in Seq(Request) /\ WaitsApart(run, q)
  BY DEF SchedOK
<1>2. Drained(run, n, q, {}, Len(q), d)
  <2> HIDE DEF d
  <2> QED BY <1>1, DrainIs DEF d
<1> HIDE DEF d
<1>3. \A k \in 1 .. Len(q) : q[k].id \in us
  BY <1>1 DEF SchedOK
<1>4. ASSUME NEW j \in DOMAIN d.run PROVE j \in us
  <2>1. CASE j \in DOMAIN run
    BY <2>1 DEF SchedOK
  <2>2. CASE j \notin DOMAIN run
    <3>1. PICK m \in 1 .. Len(q) : d.run[j].req = q[m]
      BY <1>2, <2>2 DEF Drained
    <3>2. d.run[j].req.id = j
      BY <1>2 DEF Drained, Sound
    <3> QED BY <1>3, <3>1, <3>2
  <2> QED BY <2>1, <2>2
<1>5. ASSUME NEW i \in DOMAIN d.rest PROVE d.rest[i].id \in us
  <2>1. PICK m \in 1 .. Len(q) : d.rest[i] = q[m]
    BY <1>2 DEF Drained
  <2> QED BY <1>3, <2>1
<1>6. SchedOK(d.run, d.rest, d.next, us)
  BY <1>2, <1>4, <1>5 DEF Drained, SchedOK
<1>7. DOMAIN q = 1 .. Len(q)
  BY <1>1
<1>8. /\ n <= d.next /\ Extends(d.run, run)
      /\ \A j \in DOMAIN d.run \ DOMAIN run :
            d.run[j].order > n /\ \E m \in DOMAIN q : d.run[j].req = q[m]
      /\ \A j \in Ids : (\E i \in DOMAIN d.started : d.started[i] = j)
                           <=> j \in DOMAIN d.run \ DOMAIN run
  BY <1>2, <1>7 DEF Drained
<1>9. \A m \in DOMAIN q : q[m].id \in DOMAIN d.run \/ \E i \in DOMAIN d.rest : d.rest[i] = q[m]
  BY <1>2, <1>7 DEF Drained
<1>10. ASSUME NEW i \in DOMAIN d.rest
       PROVE  (\E m \in DOMAIN q : d.rest[i] = q[m]) /\ FitErr(d.run, {}, d.rest[i]) # "none"
  <2> DEFINE x == d.rest[i]
             fewer == Without(d.run, Lower(d.run, n, x.prio))
  <2>1. x \in Request /\ IsRunMap(d.run) /\ FitErr(fewer, {}, x) # "none"
    BY <1>2 DEF Drained, Sound
  <2>2. Extends(d.run, fewer)
    BY DEF Extends, Without
  <2> HIDE DEF fewer, x
  <2>3. FitErr(d.run, {}, x) # "none"
    BY <2>1, <2>2, FitMonotone
  <2> QED BY <1>2, <1>7, <2>3 DEF Drained, x
<1> QED BY <1>6, <1>8, <1>9, <1>10 DEF d

-----------------------------------------------------------------------------
(* Submit. *)

LEMMA DefaultedIs ==
    ASSUME NEW ask \in Asks
    PROVE  Defaulted(ask) \in Request
<1>1. ask \in Request /\ Unit \in Int
  BY DaemonAssumption, PlacementAssumption
<1> QED BY <1>1 DEF Defaulted, Request

\* The maps know no id that has yet to be used, and a larger set of used ids is as good.
LEMMA UsedGrows ==
    ASSUME NEW us, NEW more, us \subseteq more, NEW jb, NEW pr, NEW n
    PROVE  /\ JobsOK(jb, pr, us) => JobsOK(jb, pr, more)
           /\ ProcsOK(pr, us, n) => ProcsOK(pr, more, n)
<1>1. JobsOK(jb, pr, us) => JobsOK(jb, pr, more)
  BY DEF JobsOK
<1>2. ASSUME ProcsOK(pr, us, n) PROVE ProcsOK(pr, more, n)
  <2>1. [job : us, st : ProcState] \subseteq [job : more, st : ProcState]
    OBVIOUS
  <2> QED BY <1>2, <2>1 DEF ProcsOK
<1> QED BY <1>1, <1>2

LEMMA SubmitQueuedKeeps ==
    ASSUME DInv, NEW r \in Request, SubmitQueued(r)
    PROVE  DInv'
<1> DEFINE nj == NewJob(r, "queued")
           add == [i \in {r.id} |-> nj]
<1>1. /\ r.id \in Ids /\ r.id \notin used /\ used' = used \cup {r.id}
      /\ queue' = Append(queue, r) /\ jobs' = Override(jobs, add)
      /\ UNCHANGED <<running, next, procs, open, stops>>
  BY DEF SubmitQueued, Admitted, Request
<1>2. /\ r.id \notin DOMAIN running /\ r.id \notin DOMAIN jobs
      /\ \A i \in DOMAIN queue : queue[i].id # r.id
  BY <1>1 DEF DInv, SchedOK, JobsOK
<1>3. SchedOK(running, queue', next, used')
  <2>1. queue \in Seq(Request) /\ WaitsApart(running, queue)
    BY DEF DInv, SchedOK
  <2>2. queue' \in Seq(Request) /\ WaitsApart(running, queue')
    BY <1>1, <1>2, <2>1, AppendApart
  <2>3. \A i \in DOMAIN queue' : queue'[i].id \in used'
    <3>1. \A i \in DOMAIN queue' : queue'[i] = r \/ \E k \in DOMAIN queue : queue'[i] = queue[k]
      BY <1>1, <2>1
    <3> QED BY <1>1, <3>1 DEF DInv, SchedOK
  <2> QED BY <1>1, <2>2, <2>3 DEF DInv, SchedOK
<1>4. nj = [state |-> "queued", req |-> r, slots |-> <<>>, proc |-> 0]
  BY DEF NewJob
<1> HIDE DEF nj
<1>5. /\ DOMAIN jobs' = DOMAIN jobs \cup {r.id} /\ jobs'[r.id] = nj
      /\ \A id \in DOMAIN jobs : jobs'[id] = jobs[id]
  BY <1>1, <1>2 DEF Override
<1>6. nj.state = "queued" /\ nj.req = r /\ IsSlotMap(nj.slots) /\ nj.proc = 0
  BY <1>4 DEF IsSlotMap
<1>7. JobsOK(jobs', procs, used')
  <2>1. nj = [state |-> nj.state, req |-> nj.req, slots |-> nj.slots, proc |-> nj.proc]
    BY <1>4
  <2> QED BY <1>1, <1>5, <1>6, <2>1 DEF DInv, JobsOK, JobState
<1>8. ProcsOK(procs, used', next)
  BY <1>1, UsedGrows DEF DInv
<1>9. ViewsOK(jobs', running, open)
  BY <1>5, <1>6 DEF DInv, ViewsOK
<1>10. used' \subseteq Ids /\ stops \subseteq DOMAIN procs
  BY <1>1 DEF DInv
<1> QED BY <1>1, <1>3, <1>7, <1>8, <1>9, <1>10 DEF DInv

\* The job is placed, its victims are paused, and it starts; or it does not, and what it
\* held goes to the queue.
LEMMA SubmitStartKeeps ==
    ASSUME DInv, NEW r \in Request, r.id \notin used,
           NEW V \in SUBSET DOMAIN running, FitErr(Without(running, V), {}, r) = "none",
           SubmitStart(r, V)
    PROVE  DInv'
<1> DEFINE L       == Live(V)
           rest    == Without(running, V)
           slots   == FitSlots(rest, {}, r)
           placed  == Place(rest, r, slots, next + 1)
           line    == Requeued(L)
           pausing == Override(jobs, PausedJobs(L))
           op      == Forget(open, L)
           without == Without(placed, {r.id})
           drained == Drain(without, next + 1, line, {})
           new     == [i \in {r.id} |-> [state |-> "running", req |-> r,
                                         slots |-> placed[i].slots, proc |-> next + 1]]
<1>1. PICK awake, failed :
        LET frozen == Override(procs, Frozen(L, awake))
        IN  \/ /\ failed = {}
               /\ running' = placed /\ queue' = line /\ next' = next + 1
               /\ jobs' = Override(pausing, new)
               /\ procs' = Override(frozen, StartedProcs({r.id}, placed))
               /\ open' = Begin({r.id}, placed, op)
            \/ /\ failed # {}
               /\ running' = drained.run /\ queue' = drained.rest /\ next' = drained.next
               /\ jobs' = pausing /\ procs' = frozen /\ open' = op
  BY DEF SubmitStart
<1> DEFINE frozen == Override(procs, Frozen(L, awake))
<1>2. /\ next \in Nat /\ Sound(running) /\ OrdersApart(running, next)
      /\ used' = used \cup {r.id} /\ used' \subseteq Ids /\ stops' = stops
      /\ stops \subseteq DOMAIN procs
  BY DEF DInv, SchedOK, SubmitStart, Request
<1>3. r.id \notin DOMAIN running /\ r.id \notin DOMAIN jobs
  BY DEF DInv, SchedOK, JobsOK
<1>4. DOMAIN rest = DOMAIN running \ V /\ \A j \in DOMAIN rest : rest[j] = running[j]
  BY DEF Without
<1>5. Sound(rest) /\ OrdersApart(rest, next)
  BY <1>2, WithoutSound, WithoutApart
<1>6. L \subseteq V /\ L \subseteq DOMAIN jobs /\ L \subseteq DOMAIN running
  BY DEF Live
<1> HIDE DEF rest, L, slots
<1>7. Sound(placed) /\ OrdersApart(placed, next + 1)
  <2>1. Sound(placed)
    BY <1>2, <1>5, FitSound DEF slots, rest
  <2>2. r.id \notin DOMAIN rest
    BY <1>3, <1>4
  <2> QED BY <1>2, <1>5, <2>1, <2>2, PlaceApart
<1>8. /\ DOMAIN placed = DOMAIN rest \cup {r.id}
      /\ placed[r.id] = [req |-> r, slots |-> slots, order |-> next + 1]
      /\ \A j \in DOMAIN rest : placed[j] = rest[j]
  BY <1>3, <1>4 DEF Place
<1> HIDE DEF placed
<1>9. /\ line \in Seq(Request) /\ WaitsApart(Without(running, L), line)
      /\ \A i \in DOMAIN line : line[i].id \in used
  <2>1. /\ line \in Seq(Request) /\ WaitsApart(Without(running, L), line)
        /\ \A i \in DOMAIN line : line[i].id \in L \/ \E k \in DOMAIN queue : line[i] = queue[k]
    BY <1>6, RequeuedIs
  <2> HIDE DEF line
  <2>2. \A i \in DOMAIN line : line[i].id \in used
    BY <1>6, <2>1 DEF DInv, SchedOK, JobsOK
  <2> QED BY <2>1, <2>2
<1> HIDE DEF line
<1>10. \A i \in DOMAIN line : line[i].id \notin DOMAIN rest /\ line[i].id # r.id
  <2>1. DOMAIN Without(running, L) = DOMAIN running \ L
    BY DEF Without
  <2> QED BY <1>4, <1>6, <1>9, <2>1 DEF WaitsApart
<1>11. SchedOK(placed, line, next + 1, used')
  <2>1. WaitsApart(placed, line)
    BY <1>8, <1>9, <1>10 DEF WaitsApart
  <2>2. DOMAIN placed \subseteq used'
    BY <1>2, <1>4, <1>8 DEF DInv, SchedOK
  <2> QED BY <1>2, <1>7, <1>9, <2>1, <2>2 DEF SchedOK
<1>12. ASSUME NEW run, Extends(run, rest)
       PROVE  /\ DOMAIN pausing = DOMAIN jobs /\ DOMAIN frozen = DOMAIN procs
              /\ JobsOK(pausing, frozen, used') /\ ProcsOK(frozen, used', next)
              /\ ViewsOK(pausing, run, op)
  <2>1. /\ DOMAIN pausing = DOMAIN jobs /\ DOMAIN frozen = DOMAIN procs
        /\ JobsOK(pausing, frozen, used) /\ ProcsOK(frozen, used, next)
        /\ ViewsOK(pausing, run, op)
    BY <1>12, PauseKeeps DEF L, rest
  <2> HIDE DEF pausing, frozen, op
  <2> QED BY <1>2, <2>1, UsedGrows
<1> HIDE DEF pausing, frozen, op
<1>13. CASE failed = {}
  <2>1. /\ running' = placed /\ queue' = line /\ next' = next + 1
        /\ jobs' = Override(pausing, new)
        /\ procs' = Override(frozen, StartedProcs({r.id}, placed))
        /\ open' = Begin({r.id}, placed, op)
    BY <1>1, <1>13 DEF frozen
  <2>2. /\ DOMAIN pausing = DOMAIN jobs /\ DOMAIN frozen = DOMAIN procs
        /\ JobsOK(pausing, frozen, used') /\ ProcsOK(frozen, used', next)
        /\ ViewsOK(pausing, placed, op)
    BY <1>8, <1>12 DEF Extends
  <2> DEFINE S == {r.id}
  <2>3. S \in SUBSET (DOMAIN placed \cap used')
    BY <1>2, <1>8
  <2>4. placed[r.id].order = next + 1
    BY <1>8
  <2>5. /\ \A j \in S : placed[j].order > next
        /\ \A j \in S \cap DOMAIN pausing : pausing[j].state # "running"
    BY <1>2, <1>3, <2>2, <2>4
  <2>6. /\ DOMAIN new = S
        /\ \A j \in S : /\ new[j] = [state |-> "running", req |-> new[j].req,
                                     slots |-> placed[j].slots, proc |-> placed[j].order]
                        /\ new[j].req \in Request /\ new[j].req.id = j
    <3>1. new[r.id] = [state |-> "running", req |-> r, slots |-> placed[r.id].slots,
                       proc |-> next + 1]
      OBVIOUS
    <3>2. DOMAIN new = S
      OBVIOUS
    <3> HIDE DEF new
    <3> QED BY <2>4, <3>1, <3>2
  <2> HIDE DEF S, new
  <2>7. next + 1 \in Nat /\ next <= next + 1
    BY <1>2
  <2>8. Starting(S, placed, next, pausing, new)
    BY <2>5, <2>6 DEF Starting
  <2>9. /\ JobsOK(Override(pausing, new), Override(frozen, StartedProcs(S, placed)), used')
        /\ ProcsOK(Override(frozen, StartedProcs(S, placed)), used', next + 1)
        /\ ViewsOK(Override(pausing, new), placed, Begin(S, placed, op))
    <3> DEFINE m == next + 1
               us == used'
    <3>1. /\ m \in Nat /\ next <= m /\ next \in Nat /\ Sound(placed) /\ OrdersApart(placed, m)
          /\ JobsOK(pausing, frozen, us) /\ ProcsOK(frozen, us, next)
          /\ ViewsOK(pausing, placed, op) /\ S \in SUBSET (DOMAIN placed \cap us)
      BY <1>2, <1>7, <2>2, <2>3, <2>7
    <3> HIDE DEF m, us
    <3>2. /\ JobsOK(Override(pausing, new), Override(frozen, StartedProcs(S, placed)), us)
          /\ ProcsOK(Override(frozen, StartedProcs(S, placed)), us, m)
          /\ ViewsOK(Override(pausing, new), placed, Begin(S, placed, op))
      BY <2>8, <3>1, StartKeeps
    <3> QED BY <3>2 DEF m, us
  <2>10. DOMAIN procs \subseteq DOMAIN procs'
    BY <2>1, <2>2 DEF Override
  <2> QED BY <1>2, <1>11, <2>1, <2>9, <2>10 DEF DInv, S
<1>14. CASE failed # {}
  <2>1. /\ running' = drained.run /\ queue' = drained.rest /\ next' = drained.next
        /\ jobs' = pausing /\ procs' = frozen /\ open' = op
    BY <1>1, <1>14 DEF frozen
  <2>2. DOMAIN without = DOMAIN rest /\ \A j \in DOMAIN rest : without[j] = rest[j]
    BY <1>3, <1>4, <1>8 DEF Without
  <2>3. SchedOK(without, line, next + 1, used')
    <3>1. Sound(without) /\ OrdersApart(without, next + 1)
      BY <1>7, WithoutSound, WithoutApart
    <3>2. WaitsApart(without, line)
      <4> HIDE DEF without
      <4> QED BY <1>9, <1>10, <2>2 DEF WaitsApart
    <3>3. DOMAIN without \subseteq used'
      BY <1>2, <1>4, <2>2 DEF DInv, SchedOK
    <3>4. next + 1 \in Nat /\ \A i \in DOMAIN line : line[i].id \in used'
      BY <1>2, <1>9
    <3> HIDE DEF without
    <3> QED BY <1>9, <3>1, <3>2, <3>3, <3>4 DEF SchedOK
  <2> HIDE DEF without
  <2>4. /\ SchedOK(drained.run, drained.rest, drained.next, used') /\ next + 1 <= drained.next
        /\ Extends(drained.run, without)
    BY <2>3, DrainKeeps
  <2> HIDE DEF drained
  <2>5. Extends(drained.run, rest)
    BY <2>2, <2>4 DEF Extends
  <2>6. /\ DOMAIN pausing = DOMAIN jobs /\ DOMAIN frozen = DOMAIN procs
        /\ JobsOK(pausing, frozen, used') /\ ProcsOK(frozen, used', next)
        /\ ViewsOK(pausing, drained.run, op)
    BY <1>12, <2>5
  <2>7. ProcsOK(frozen, used', drained.next)
    <3>1. drained.next \in Nat
      BY <2>4 DEF SchedOK
    <3>2. 1 .. next \subseteq 1 .. drained.next
      BY <1>2, <2>4, <3>1
    <3> QED BY <2>6, <3>2 DEF ProcsOK
  <2> QED BY <1>2, <2>1, <2>4, <2>6, <2>7 DEF DInv
<1> QED BY <1>13, <1>14

LEMMA SubmitKeeps ==
    ASSUME DInv, NEW ask \in Asks, Submit(ask)
    PROVE  DInv'
<1> DEFINE r == Defaulted(ask)
<1>1. r \in Request
  BY DefaultedIs
<1> HIDE DEF r
<1>2. SubmitFree(r) \/ SubmitPreempting(r) \/ SubmitQueued(r)
  BY DEF Submit, r
<1>3. CASE SubmitFree(r)
  <2>1. r.id \notin used /\ FitErr(running, {}, r) = "none" /\ SubmitStart(r, {})
    BY <1>3 DEF SubmitFree, Admitted
  <2>2. Extends(running, Without(running, {})) /\ IsRunMap(running)
    BY DEF Extends, Without, DInv, SchedOK, Sound
  <2>3. FitErr(Without(running, {}), {}, r) = "none"
    BY <1>1, <2>1, <2>2, FitMonotone
  <2> QED BY <1>1, <2>1, <2>3, SubmitStartKeeps
<1>4. CASE SubmitPreempting(r)
  <2>1. /\ r.id \notin used /\ Enough(running, {}, r) # {}
        /\ SubmitStart(r, Victims(running, {}, r))
    BY <1>4 DEF SubmitPreempting, Admitted
  <2>2. Sound(running)
    BY DEF DInv, SchedOK
  <2>3. /\ Victims(running, {}, r) \subseteq Pool(running, r)
        /\ FitErr(Without(running, Victims(running, {}, r)), {}, r) = "none"
    BY <1>1, <2>1, <2>2, VictimsMakeRoom
  <2>4. Pool(running, r) \subseteq DOMAIN running
    BY DEF Pool
  <2> QED BY <1>1, <2>1, <2>3, <2>4, SubmitStartKeeps
<1>5. CASE SubmitQueued(r)
  BY <1>1, <1>5, SubmitQueuedKeeps
<1> QED BY <1>2, <1>3, <1>4, <1>5

-----------------------------------------------------------------------------
(* Processes and their reapers. *)

\* A process that no running job needs any more changes state: it ends, or its reaper
\* returns.
LEMMA ProcChanges ==
    ASSUME DInv, NEW p \in DOMAIN procs, NEW st \in {"dead", "reaped"},
           procs' = [procs EXCEPT ![p].st = st],
           st = "reaped" => \A id \in DOMAIN jobs : jobs[id].proc # p,
           stops' \subseteq stops, UNCHANGED <<sched, jobs, open, used>>
    PROVE  DInv'
<1>1. /\ UNCHANGED running /\ UNCHANGED queue /\ UNCHANGED next
      /\ UNCHANGED jobs /\ UNCHANGED open /\ UNCHANGED used
  BY DEF sched
<1>2. procs \in [DOMAIN procs -> [job : used, st : ProcState]] /\ DOMAIN procs \subseteq 1 .. next
  BY DEF DInv, ProcsOK
<1>3. /\ DOMAIN procs' = DOMAIN procs
      /\ procs' \in [DOMAIN procs -> [job : used, st : ProcState]]
      /\ \A q \in DOMAIN procs : procs'[q].job = procs[q].job
      /\ \A q \in DOMAIN procs \ {p} : procs'[q] = procs[q]
      /\ procs'[p].st = st
  BY <1>2 DEF ProcState
<1>4. ProcsOK(procs', used, next)
  BY <1>2, <1>3 DEF ProcsOK
<1>5. JobsOK(jobs, procs', used)
  <2>1. ASSUME NEW id \in DOMAIN jobs, jobs[id].proc # 0
        PROVE  /\ jobs[id].proc \in DOMAIN procs'
               /\ procs'[jobs[id].proc].job = id
               /\ procs'[jobs[id].proc].st # "reaped"
               /\ jobs[id].state = "running" => procs'[jobs[id].proc].st # "stopped"
    <3> DEFINE q == jobs[id].proc
    <3>1. /\ q \in DOMAIN procs /\ procs[q].job = id /\ procs[q].st # "reaped"
          /\ jobs[id].state = "running" => procs[q].st # "stopped"
      BY <2>1 DEF DInv, JobsOK
    <3>2. q = p => st = "dead"
      OBVIOUS
    <3> HIDE DEF q
    <3>3. CASE q = p
      BY <1>3, <3>1, <3>2, <3>3 DEF q
    <3>4. CASE q # p
      BY <1>3, <3>1, <3>4 DEF q
    <3> QED BY <3>3, <3>4
  <2> QED BY <2>1 DEF DInv, JobsOK
<1> QED BY <1>1, <1>3, <1>4, <1>5 DEF DInv

\* The job of a reaped process is over: it is accounted for no more, and the others are
\* as they were.
LEMMA OverKeeps ==
    ASSUME DInv, NEW p \in DOMAIN procs, NEW id \in DOMAIN jobs, procs[p].job = id,
           jobs[id].proc = p, NEW run, Extends(run, Without(running, {id}))
    PROVE  LET over == [jobs EXCEPT ![id].state = "exited", ![id].proc = 0]
               pr   == [procs EXCEPT ![p].st = "reaped"]
           IN  /\ DOMAIN over = DOMAIN jobs /\ DOMAIN pr = DOMAIN procs
               /\ \A j \in DOMAIN jobs \ {id} : over[j] = jobs[j]
               /\ over[id].state = "exited" /\ over[id].proc = 0
               /\ \A j \in DOMAIN jobs : over[j].req = jobs[j].req
               /\ JobsOK(over, pr, used) /\ ProcsOK(pr, used, next)
               /\ ViewsOK(over, run, Forget(open, {id}))
<1> DEFINE over == [jobs EXCEPT ![id].state = "exited", ![id].proc = 0]
           pr == [procs EXCEPT ![p].st = "reaped"]
           op == Forget(open, {id})
<1>1. /\ DOMAIN over = DOMAIN jobs /\ \A j \in DOMAIN jobs \ {id} : over[j] = jobs[j]
      /\ over[id] = [state |-> "exited", req |-> jobs[id].req, slots |-> jobs[id].slots, proc |-> 0]
  <2>1. DOMAIN over = DOMAIN jobs /\ \A j \in DOMAIN jobs \ {id} : over[j] = jobs[j]
    OBVIOUS
  <2>2. over[id] = [[jobs[id] EXCEPT !.state = "exited"] EXCEPT !.proc = 0]
    OBVIOUS
  <2>3. jobs[id] = [state |-> jobs[id].state, req |-> jobs[id].req,
                    slots |-> jobs[id].slots, proc |-> jobs[id].proc]
    BY DEF DInv, JobsOK
  <2> HIDE DEF over
  <2> QED BY <2>1, <2>2, <2>3
<1> HIDE DEF over
<1>2. /\ over[id].state = "exited" /\ over[id].req = jobs[id].req
      /\ over[id].slots = jobs[id].slots /\ over[id].proc = 0
  BY <1>1
<1>3. procs \in [DOMAIN procs -> [job : used, st : ProcState]] /\ DOMAIN procs \subseteq 1 .. next
  BY DEF DInv, ProcsOK
<1>4. /\ DOMAIN pr = DOMAIN procs
      /\ pr \in [DOMAIN procs -> [job : used, st : ProcState]]
      /\ \A q \in DOMAIN procs \ {p} : pr[q] = procs[q]
  BY <1>3 DEF ProcState
<1> HIDE DEF pr
<1>5. ProcsOK(pr, used, next)
  BY <1>3, <1>4 DEF ProcsOK
<1>6. JobsOK(over, pr, used)
  <2>1. DOMAIN over \subseteq used
    BY <1>1 DEF DInv, JobsOK
  <2>2. ASSUME NEW j \in DOMAIN jobs
        PROVE  /\ over[j] = [state |-> over[j].state, req |-> over[j].req,
                             slots |-> over[j].slots, proc |-> over[j].proc]
               /\ over[j].state \in JobState
               /\ over[j].req \in Request /\ over[j].req.id = j
               /\ IsSlotMap(over[j].slots)
               /\ over[j].proc = 0 <=> over[j].state \in {"queued", "exited"}
    <3>1. CASE j = id
      <4>1. /\ jobs[id].req \in Request /\ jobs[id].req.id = id /\ IsSlotMap(jobs[id].slots)
        BY DEF DInv, JobsOK
      <4>2. over[id] = [state |-> over[id].state, req |-> over[id].req,
                        slots |-> over[id].slots, proc |-> over[id].proc]
        BY <1>1, <1>2
      <4> QED BY <1>2, <3>1, <4>1, <4>2 DEF JobState
    <3>2. CASE j # id
      BY <1>1, <3>2 DEF DInv, JobsOK
    <3> QED BY <3>1, <3>2
  <2>3. ASSUME NEW j \in DOMAIN jobs, over[j].proc # 0
        PROVE  /\ over[j].proc \in DOMAIN pr
               /\ pr[over[j].proc].job = j
               /\ pr[over[j].proc].st # "reaped"
               /\ over[j].state = "running" => pr[over[j].proc].st # "stopped"
    <3>1. j # id /\ over[j] = jobs[j]
      BY <1>1, <1>2, <2>3
    <3>2. /\ jobs[j].proc \in DOMAIN procs /\ procs[jobs[j].proc].job = j
          /\ procs[jobs[j].proc].st # "reaped"
          /\ jobs[j].state = "running" => procs[jobs[j].proc].st # "stopped"
      BY <2>3, <3>1 DEF DInv, JobsOK
    <3>3. jobs[j].proc # p
      BY <3>1, <3>2
    <3>4. pr[jobs[j].proc] = procs[jobs[j].proc]
      BY <1>4, <3>2, <3>3
    <3> QED BY <1>4, <3>1, <3>2, <3>4
  <2> QED BY <1>1, <2>1, <2>2, <2>3 DEF JobsOK
<1>7. ViewsOK(over, run, op)
  <2>1. DOMAIN op = DOMAIN open \ {id} /\ \A j \in DOMAIN op : op[j] = open[j]
    BY DEF Forget
  <2>2. \A j \in DOMAIN jobs : over[j].state = "running" => j # id /\ over[j] = jobs[j]
    BY <1>1, <1>2
  <2>3. \A j \in DOMAIN running : j # id => j \in DOMAIN run /\ run[j] = running[j]
    BY DEF Extends, Without
  <2> HIDE DEF op
  <2> QED BY <1>1, <2>1, <2>2, <2>3 DEF ViewsOK, DInv
<1>8. \A j \in DOMAIN jobs : over[j].req = jobs[j].req
  BY <1>1, <1>2
<1> QED BY <1>1, <1>2, <1>4, <1>5, <1>6, <1>7, <1>8 DEF over, pr, op

\* What starts after a job is over was waiting, and is started for the placement that it
\* was given.
LEMMA ReapJobKeeps ==
    ASSUME DInv, NEW p \in DOMAIN procs, ReapJob(p)
    PROVE  DInv'
<1> DEFINE id   == procs[p].job
           over == [jobs EXCEPT ![id].state = "exited", ![id].proc = 0]
           pr   == [procs EXCEPT ![p].st = "reaped"]
           op   == Forget(open, {id})
           rest == Without(running, {id})
           d    == Drain(rest, next, queue, {})
           todo == {j \in ToSet(d.started) \cap DOMAIN jobs : Awaits(over[j])}
<1>1. /\ id \in DOMAIN jobs /\ jobs[id].proc = p
      /\ running' = d.run /\ queue' = d.rest /\ next' = d.next
      /\ stops' = stops /\ used' = used
      /\ \E failed : /\ jobs' = Override(over, StartedJobs(todo \ failed, d.run))
                     /\ procs' = Override(pr, StartedProcs(todo \ failed, d.run))
                     /\ open' = Begin(todo \ failed, d.run, op)
  BY DEF ReapJob
<1>2. PICK up : /\ up \subseteq todo
                /\ jobs' = Override(over, StartedJobs(up, d.run))
                /\ procs' = Override(pr, StartedProcs(up, d.run))
                /\ open' = Begin(up, d.run, op)
  BY <1>1
<1> HIDE DEF id
<1>3. SchedOK(rest, queue, next, used)
  <2>1. DOMAIN rest \subseteq DOMAIN running
    BY DEF Without
  <2>2. Sound(rest) /\ OrdersApart(rest, next)
    BY WithoutSound, WithoutApart DEF DInv, SchedOK
  <2> HIDE DEF rest
  <2> QED BY <2>1, <2>2 DEF DInv, SchedOK, WaitsApart
<1>4. /\ SchedOK(d.run, d.rest, d.next, used) /\ next <= d.next
      /\ Extends(d.run, rest)
      /\ \A j \in DOMAIN d.run \ DOMAIN rest : d.run[j].order > next
      /\ \A j \in Ids : (\E i \in DOMAIN d.started : d.started[i] = j)
                           <=> j \in DOMAIN d.run \ DOMAIN rest
  <2> HIDE DEF rest
  <2> QED BY <1>3, DrainKeeps
<1> HIDE DEF d
<1>5. /\ DOMAIN over = DOMAIN jobs /\ DOMAIN pr = DOMAIN procs
      /\ \A j \in DOMAIN jobs : over[j].req = jobs[j].req
      /\ JobsOK(over, pr, used) /\ ProcsOK(pr, used, next)
      /\ ViewsOK(over, d.run, op)
  BY <1>1, <1>4, OverKeeps DEF id
<1> HIDE DEF over, pr, op, rest
<1>6. ASSUME NEW j \in up
      PROVE  /\ j \in DOMAIN jobs /\ j \in used /\ over[j].state # "running"
             /\ j \in DOMAIN d.run /\ d.run[j].order > next
  <2>1. j \in DOMAIN jobs /\ Awaits(over[j]) /\ \E i \in DOMAIN d.started : d.started[i] = j
    BY <1>2 DEF ToSet
  <2>2. j \in used /\ j \in Ids
    BY <2>1 DEF DInv, JobsOK
  <2>3. over[j].state # "running"
    BY <2>1 DEF Awaits
  <2> QED BY <1>4, <2>1, <2>2, <2>3
<1> HIDE DEF todo
<1> DEFINE new == StartedJobs(up, d.run)
<1>7. Starting(up, d.run, next, over, new)
  <2>1. DOMAIN new = up
    BY DEF StartedJobs
  <2>2. ASSUME NEW j \in up
        PROVE  /\ new[j] = [state |-> "running", req |-> new[j].req,
                            slots |-> d.run[j].slots, proc |-> d.run[j].order]
               /\ new[j].req \in Request /\ new[j].req.id = j
    <3>1. new[j] = [state |-> "running", req |-> jobs[j].req,
                    slots |-> d.run[j].slots, proc |-> d.run[j].order]
      BY DEF StartedJobs
    <3>2. jobs[j].req \in Request /\ jobs[j].req.id = j
      BY <1>6 DEF DInv, JobsOK
    <3> HIDE DEF new
    <3> QED BY <3>1, <3>2
  <2> HIDE DEF new
  <2> QED BY <1>6, <2>1, <2>2 DEF Starting
<1>8. up \in SUBSET (DOMAIN d.run \cap used)
  BY <1>6
<1> HIDE DEF new
<1>9. /\ JobsOK(Override(over, new), Override(pr, StartedProcs(up, d.run)), used)
      /\ ProcsOK(Override(pr, StartedProcs(up, d.run)), used, d.next)
      /\ ViewsOK(Override(over, new), d.run, Begin(up, d.run, op))
  <2> DEFINE run == d.run
             m == d.next
  <2>1. /\ next \in Nat /\ m \in Nat /\ next <= m /\ Sound(run) /\ OrdersApart(run, m)
    BY <1>4 DEF SchedOK, DInv
  <2>2. up \in SUBSET (DOMAIN run \cap used) /\ ViewsOK(over, run, op) /\ Starting(up, run, next, over, new)
    BY <1>5, <1>7, <1>8
  <2> HIDE DEF run, m
  <2>3. /\ JobsOK(Override(over, new), Override(pr, StartedProcs(up, run)), used)
        /\ ProcsOK(Override(pr, StartedProcs(up, run)), used, m)
        /\ ViewsOK(Override(over, new), run, Begin(up, run, op))
    BY <1>5, <2>1, <2>2, StartKeeps
  <2> QED BY <2>3 DEF run, m
<1>10. DOMAIN procs \subseteq DOMAIN procs'
  BY <1>2, <1>5 DEF Override
<1>11. stops' \subseteq DOMAIN procs' /\ used' \subseteq Ids
  BY <1>1, <1>10 DEF DInv
<1> QED BY <1>1, <1>2, <1>4, <1>9, <1>11 DEF DInv, new

-----------------------------------------------------------------------------
(* Stop and Resize. *)

\* The queue without the stopped job is the rest of it.
LEMMA QueueLeft ==
    ASSUME NEW id, queue \in Seq(Request), WaitsApart(running, queue)
    PROVE  queue' = Cancelled(queue, id) =>
             /\ \A i \in DOMAIN queue' :
                   \E k \in DOMAIN queue : queue'[i] = queue[k] /\ queue[k].id # id
             /\ \A k \in DOMAIN queue : queue[k].id # id =>
                   \E i \in DOMAIN queue' : queue'[i] = queue[k]
<1> DEFINE c == Cancelled(queue, id)
<1>1. /\ c \in Seq(Request) /\ WaitsApart(running, c)
      /\ \A x : (\E i \in DOMAIN c : c[i] = x) <=> (\E i \in DOMAIN queue : queue[i] = x /\ x.id # id)
  BY CancelledIs
<1> SUFFICES ASSUME queue' = c
             PROVE  /\ \A i \in DOMAIN queue' :
                          \E k \in DOMAIN queue : queue'[i] = queue[k] /\ queue[k].id # id
                    /\ \A k \in DOMAIN queue : queue[k].id # id =>
                          \E i \in DOMAIN queue' : queue'[i] = queue[k]
  OBVIOUS
<1> HIDE DEF c
<1>2. \A x : (\E i \in DOMAIN queue' : queue'[i] = x) <=> (\E i \in DOMAIN queue : queue[i] = x /\ x.id # id)
  BY <1>1
<1> QED BY <1>2

LEMMA StopQueuedKeeps ==
    ASSUME DInv, NEW id, StopQueued(id)
    PROVE  DInv'
<1>1. /\ id \in DOMAIN jobs /\ jobs[id].state = "queued"
      /\ queue' = Cancelled(queue, id) /\ jobs' = Forget(jobs, {id})
      /\ UNCHANGED running /\ UNCHANGED next /\ UNCHANGED procs
      /\ UNCHANGED open /\ UNCHANGED stops /\ UNCHANGED used
  BY DEF StopQueued
<1>2. queue \in Seq(Request) /\ WaitsApart(running, queue)
  BY DEF DInv, SchedOK
<1>3. queue' \in Seq(Request) /\ WaitsApart(running, queue')
  BY <1>1, <1>2, CancelledIs
<1>4. SchedOK(running, queue', next, used)
  <2>1. \A i \in DOMAIN queue' : queue'[i].id \in used
    BY <1>1, <1>2, QueueLeft DEF DInv, SchedOK
  <2> QED BY <1>3, <2>1 DEF DInv, SchedOK
<1>5. DOMAIN jobs' = DOMAIN jobs \ {id} /\ \A j \in DOMAIN jobs' : jobs'[j] = jobs[j]
  BY <1>1 DEF Forget
<1>6. JobsOK(jobs', procs, used)
  BY <1>5 DEF DInv, JobsOK
<1>7. ViewsOK(jobs', running, open)
  BY <1>1, <1>5 DEF DInv, ViewsOK
<1> QED BY <1>1, <1>4, <1>6, <1>7 DEF DInv

LEMMA StopSignalKeeps ==
    ASSUME DInv, NEW id, StopSignal(id)
    PROVE  DInv'
<1>1. /\ UNCHANGED running /\ UNCHANGED queue /\ UNCHANGED next /\ UNCHANGED jobs
      /\ UNCHANGED procs /\ UNCHANGED open /\ UNCHANGED used
      /\ id \in DOMAIN jobs /\ jobs[id].proc # 0 /\ stops' = stops \cup {jobs[id].proc}
  BY DEF StopSignal, sched
<1>2. jobs[id].proc \in DOMAIN procs
  BY <1>1 DEF DInv, JobsOK
<1> QED BY <1>1, <1>2 DEF DInv

LEMMA ResizeKeepsDInv ==
    ASSUME DInv, NEW id, NEW z \in Sizes, Resize(id, z[1], z[2])
    PROVE  DInv'
<1> DEFINE old == running[id].req
           r   == Resized(old, z[1], z[2])
           new == ResizeJob(running, id, r)
           sl  == new[id].slots
           op  == Forget(open, {id})
<1>1. /\ id \in DOMAIN jobs /\ jobs[id].state = "running" /\ id \in DOMAIN running
      /\ CanResize(running, id, r) /\ running' = new
      /\ jobs' = [jobs EXCEPT ![id].slots = sl] /\ open' = Begin({id}, new, op)
      /\ UNCHANGED queue /\ UNCHANGED next /\ UNCHANGED procs
      /\ UNCHANGED stops /\ UNCHANGED used
  BY DEF Resize
<1>2. Sound(running) /\ old \in Request /\ old.id = id
  BY <1>1 DEF DInv, SchedOK, Sound, IsRunMap, IsPlaced
<1>3. z[1] \in Int /\ z[2] \in Nat
  BY DaemonAssumption
<1> HIDE DEF old
<1>4. r \in Request /\ r.id = id /\ Want(r) = Want(old)
  <2>1. r = [old EXCEPT !.share = z[1], !.mem = IF z[2] > 0 THEN z[2] ELSE old.mem]
    BY <1>2 DEF Resized
  <2> HIDE DEF r
  <2>2. r \in Request /\ r.id = old.id /\ r.gpus = old.gpus
    BY <1>2, <1>3, <2>1 DEF Request
  <2> QED BY <1>2, <2>2 DEF Want
<1> HIDE DEF r
<1>5. Sound(new)
  BY <1>1, <1>2, <1>4, ResizeSound DEF old
<1>6. /\ DOMAIN new = DOMAIN running /\ new[id].order = running[id].order
      /\ \A j \in DOMAIN running \ {id} : new[j] = running[j]
  BY <1>1, <1>4 DEF ResizeJob, Place
<1> HIDE DEF new
<1>7. SchedOK(new, queue, next, used)
  <2>1. OrdersApart(new, next)
    <3>1. \A j \in DOMAIN running : new[j].order = running[j].order
      BY <1>6
    <3> QED BY <1>6, <3>1 DEF OrdersApart, DInv, SchedOK
  <2>2. WaitsApart(new, queue)
    BY <1>6 DEF WaitsApart, DInv, SchedOK
  <2> QED BY <1>5, <1>6, <2>1, <2>2 DEF DInv, SchedOK
<1>8. IsSlotMap(sl)
  BY <1>1, <1>5, <1>6 DEF Sound, IsRunMap, IsPlaced
<1> HIDE DEF sl
<1>9. /\ DOMAIN jobs' = DOMAIN jobs /\ \A j \in DOMAIN jobs \ {id} : jobs'[j] = jobs[j]
      /\ jobs'[id] = [state |-> "running", req |-> jobs[id].req, slots |-> sl, proc |-> jobs[id].proc]
  <2>1. DOMAIN jobs' = DOMAIN jobs /\ \A j \in DOMAIN jobs \ {id} : jobs'[j] = jobs[j]
    BY <1>1
  <2>2. jobs'[id] = [jobs[id] EXCEPT !.slots = sl]
    BY <1>1
  <2>3. jobs[id] = [state |-> "running", req |-> jobs[id].req,
                    slots |-> jobs[id].slots, proc |-> jobs[id].proc]
    BY <1>1 DEF DInv, JobsOK
  <2> QED BY <2>1, <2>2, <2>3
<1>10. /\ jobs'[id].state = "running" /\ jobs'[id].req = jobs[id].req
       /\ jobs'[id].slots = sl /\ jobs'[id].proc = jobs[id].proc
  BY <1>9
<1>11. JobsOK(jobs', procs, used)
  <2>1. jobs'[id] = [state |-> jobs'[id].state, req |-> jobs'[id].req,
                     slots |-> jobs'[id].slots, proc |-> jobs'[id].proc]
    BY <1>9, <1>10
  <2> QED BY <1>1, <1>8, <1>9, <1>10, <2>1 DEF DInv, JobsOK
<1>12. /\ DOMAIN op = DOMAIN open \ {id} /\ \A j \in DOMAIN op : op[j] = open[j]
       /\ id \in DOMAIN open
  BY <1>1 DEF Forget, DInv, ViewsOK
<1> HIDE DEF op
<1>13. /\ DOMAIN open' = DOMAIN open /\ open'[id] = <<sl>>
       /\ \A j \in DOMAIN open \ {id} : open'[j] = open[j]
  <2> DEFINE e == IF id \in DOMAIN op THEN op[id] ELSE <<>>
  <2>1. e = <<>>
    BY <1>12
  <2>2. Append(e, sl) = <<sl>>
    <3> HIDE DEF e
    <3> QED BY <2>1
  <2> DEFINE f == [j \in {id} |-> Append(IF j \in DOMAIN op THEN op[j] ELSE <<>>, new[j].slots)]
  <2>3. DOMAIN f = {id} /\ f[id] = Append(e, sl)
    BY DEF sl
  <2>4. open' = Override(op, f)
    BY <1>1 DEF Begin
  <2> HIDE DEF e, f
  <2> QED BY <1>12, <2>2, <2>3, <2>4 DEF Override
<1>14. ViewsOK(jobs', new, open')
  <2>1. new[id].slots = jobs'[id].slots
    BY <1>10 DEF sl
  <2>2. DOMAIN open' \subseteq DOMAIN jobs'
    BY <1>9, <1>13 DEF DInv, ViewsOK
  <2>3. ASSUME NEW j \in DOMAIN jobs, jobs'[j].state = "running"
        PROVE  /\ j \in DOMAIN new /\ new[j].slots = jobs'[j].slots
               /\ j \in DOMAIN open' /\ open'[j] = <<jobs'[j].slots>>
    <3>1. CASE j = id
      BY <1>1, <1>6, <1>10, <1>12, <1>13, <2>1, <3>1
    <3>2. CASE j # id
      <4>1. jobs'[j] = jobs[j] /\ new[j] = running[j] /\ open'[j] = open[j] /\ j \in DOMAIN running
            /\ running[j].slots = jobs[j].slots /\ j \in DOMAIN open /\ open[j] = <<jobs[j].slots>>
        BY <1>6, <1>9, <1>13, <2>3, <3>2 DEF DInv, ViewsOK
      <4> QED BY <1>6, <1>13, <4>1
    <3> QED BY <3>1, <3>2
  <2>4. \A j \in DOMAIN open' : jobs'[j].state = "running"
    BY <1>9, <1>10, <1>13 DEF DInv, ViewsOK
  <2> QED BY <1>9, <2>2, <2>3, <2>4 DEF ViewsOK
<1> QED BY <1>1, <1>7, <1>11, <1>14 DEF DInv

-----------------------------------------------------------------------------
(* Every step keeps the invariant. *)

LEMMA NextDInv == DInv /\ [Next]_vars => DInv'
<1> SUFFICES ASSUME DInv, [Next]_vars PROVE DInv'
  OBVIOUS
<1>1. ASSUME NEW r \in Asks, Submit(r) PROVE DInv'
  BY <1>1, SubmitKeeps
<1>2. ASSUME NEW p \in DOMAIN procs, ProcExit(p) PROVE DInv'
  BY <1>2, ProcChanges DEF ProcExit
<1>3. ASSUME NEW p \in DOMAIN procs, ReapStale(p) PROVE DInv'
  <2>1. \A id \in DOMAIN jobs : jobs[id].proc # p
    <3>1. ASSUME NEW id \in DOMAIN jobs, jobs[id].proc = p PROVE FALSE
      <4>1. p # 0
        BY DEF DInv, ProcsOK, SchedOK
      <4>2. procs[p].job = id
        BY <3>1, <4>1 DEF DInv, JobsOK
      <4> QED BY <1>3, <3>1, <4>2 DEF ReapStale
    <3> QED BY <3>1
  <2> QED BY <1>3, <2>1, ProcChanges DEF ReapStale
<1>4. ASSUME NEW p \in DOMAIN procs, ReapJob(p) PROVE DInv'
  BY <1>4, ReapJobKeeps
<1>5. ASSUME NEW p \in DOMAIN procs, StopKill(p) PROVE DInv'
  BY <1>5, ProcChanges DEF StopKill
<1>6. ASSUME NEW id \in Ids, StopQueued(id) PROVE DInv'
  BY <1>6, StopQueuedKeeps
<1>7. ASSUME NEW id \in Ids, StopSignal(id) PROVE DInv'
  BY <1>7, StopSignalKeeps
<1>8. ASSUME NEW id \in Ids, NEW z \in Sizes, Resize(id, z[1], z[2]) PROVE DInv'
  BY <1>8, ResizeKeepsDInv
<1>9. CASE UNCHANGED vars
  BY <1>9 DEF vars, DInv, SchedOK, JobsOK, ProcsOK, ViewsOK
<1> QED BY <1>1, <1>2, <1>3, <1>4, <1>5, <1>6, <1>7, <1>8, <1>9 DEF Next, Reap

LEMMA SpecDInv == Spec => []DInv
BY InitDInv, NextDInv, PTL DEF Spec

-----------------------------------------------------------------------------
(* What the daemon guarantees. *)

\* Every variable of the daemon keeps its type, whatever launches and suspends fail.
THEOREM TypeCorrect == Spec => []TypeOK
<1>1. DInv => TypeOK
  BY DEF DInv, SchedOK, JobsOK, ProcsOK, ViewsOK, TypeOK, Sound
<1> QED BY <1>1, SpecDInv, PTL

\* The cards stay divided, each seat held once and nothing given beyond what a card has,
\* through every Submit, reaper, failed launch, preemption and Resize.
THEOREM CardsAlwaysDivided == Spec => []CardsDivided
<1>1. DInv => CardsDivided
  BY DEF DInv, SchedOK, CardsDivided, Sound
<1> QED BY <1>1, SpecDInv, PTL

\* The job table, the scheduler and the ledger, which startLocked, reap, pauseLocked and
\* Resize update one after the other, agree on what runs and where.
THEOREM ViewsAlwaysAgree == Spec => []ViewsAgree
<1>1. DInv => ViewsAgree
  BY DEF DInv, ViewsOK, ViewsAgree
<1> QED BY <1>1, SpecDInv, PTL

\* A job shown as running has a process of its own that is not frozen and whose reaper
\* has yet to run.
THEOREM RunningAlwaysRuns == Spec => []RunningRuns
<1>1. ASSUME DInv PROVE RunningRuns
  <2> SUFFICES ASSUME NEW id \in DOMAIN jobs, jobs[id].state = "running"
               PROVE  LET p == jobs[id].proc
                      IN  p \in DOMAIN procs /\ procs[p].job = id /\ procs[p].st \in {"run", "dead"}
    BY DEF RunningRuns
  <2> DEFINE p == jobs[id].proc
  <2>1. /\ p \in DOMAIN procs /\ procs[p].job = id /\ procs[p].st # "reaped"
        /\ procs[p].st # "stopped"
    BY <1>1 DEF DInv, JobsOK
  <2> HIDE DEF p
  <2>2. procs[p].st \in ProcState
    BY <1>1, <2>1 DEF DInv, ProcsOK
  <2> QED BY <2>1, <2>2 DEF ProcState, p
<1> QED BY <1>1, SpecDInv, PTL

\* No job waits twice, and none waits while it is placed: what the reaper starts from the
\* queue never overwrites a placement.
THEOREM AlwaysWaitsOnce == Spec => []WaitsOnce
<1>1. DInv => WaitsOnce
  BY DEF DInv, SchedOK, WaitsApart, WaitsOnce
<1> QED BY <1>1, SpecDInv, PTL

\* A job that has exited stays so: no request of it that is left in the queue, no drain
\* and no reaper starts it again.
THEOREM ExitedStaysExited == Spec => ExitedForGood
<1> DEFINE Stays == \A id \in DOMAIN jobs : jobs[id].state = "exited" =>
                        id \in DOMAIN jobs' /\ jobs'[id].state = "exited"
<1>1. ASSUME DInv, [Next]_vars PROVE [Stays]_vars
  <2>1. \A id \in DOMAIN jobs : jobs[id].state = "exited" => jobs[id].proc = 0
    BY <1>1 DEF DInv, JobsOK
  <2>2. ASSUME NEW r, r.id \notin used, NEW f, DOMAIN f = {r.id}, NEW jb,
               DOMAIN jb = DOMAIN jobs, \A id \in DOMAIN jobs : jobs[id].proc = 0 => jb[id] = jobs[id],
               jobs' = Override(jb, f) \/ jobs' = jb
        PROVE  Stays
    <3>1. r.id \notin DOMAIN jobs
      BY <1>1, <2>2 DEF DInv, JobsOK
    <3>2. CASE jobs' = jb
      BY <2>1, <2>2, <3>2
    <3>3. CASE jobs' = Override(jb, f)
      <4>1. \A id \in DOMAIN jobs : id \in DOMAIN jobs' /\ jobs'[id] = jb[id]
        BY <2>2, <3>1, <3>3 DEF Override
      <4> QED BY <2>1, <2>2, <4>1
    <3> QED BY <2>2, <3>2, <3>3
  <2>3. ASSUME NEW r, r.id \notin used, NEW V \in SUBSET DOMAIN running, SubmitStart(r, V)
        PROVE  Stays
    <3> DEFINE pausing == Override(jobs, PausedJobs(Live(V)))
    <3>1. PICK f : DOMAIN f = {r.id} /\ (jobs' = Override(pausing, f) \/ jobs' = pausing)
      <4> DEFINE placed == Place(Without(running, V), r, FitSlots(Without(running, V), {}, r), next + 1)
                 g == [i \in {r.id} |-> [state |-> "running", req |-> r,
                                         slots |-> placed[i].slots, proc |-> next + 1]]
      <4>1. jobs' = Override(pausing, g) \/ jobs' = pausing
        BY <2>3 DEF SubmitStart
      <4> QED BY <4>1
    <3>2. /\ DOMAIN pausing = DOMAIN jobs
          /\ \A id \in DOMAIN jobs : jobs[id].proc = 0 => pausing[id] = jobs[id]
      <4>1. Extends(Without(running, V), Without(running, V))
        BY DEF Extends
      <4> QED BY <1>1, <4>1, PauseKeeps
    <3> HIDE DEF pausing
    <3> QED BY <2>2, <2>3, <3>1, <3>2
  <2>4. ASSUME NEW ask \in Asks, Submit(ask) PROVE Stays
    <3> DEFINE r == Defaulted(ask)
    <3>1. r \in Request
      BY DefaultedIs
    <3> HIDE DEF r
    <3>2. SubmitFree(r) \/ SubmitPreempting(r) \/ SubmitQueued(r)
      BY <2>4 DEF Submit, r
    <3>3. r.id \notin used
      BY <3>2 DEF SubmitFree, SubmitPreempting, SubmitQueued, Admitted
    <3>4. CASE SubmitFree(r)
      BY <2>3, <3>3, <3>4 DEF SubmitFree
    <3>5. CASE SubmitPreempting(r)
      <4>1. Victims(running, {}, r) \subseteq Pool(running, r)
        BY <1>1, <3>1, <3>5, VictimsMakeRoom DEF SubmitPreempting, DInv, SchedOK
      <4>2. Victims(running, {}, r) \in SUBSET DOMAIN running
        BY <4>1 DEF Pool
      <4> QED BY <2>3, <3>3, <3>5, <4>2 DEF SubmitPreempting
    <3>6. CASE SubmitQueued(r)
      <4>1. jobs' = Override(jobs, [i \in {r.id} |-> NewJob(r, "queued")])
        BY <3>6 DEF SubmitQueued
      <4> QED BY <2>2, <3>3, <4>1
    <3> QED BY <3>2, <3>4, <3>5, <3>6
  <2>5. ASSUME NEW p \in DOMAIN procs, ReapJob(p) PROVE Stays
    <3> DEFINE over == [jobs EXCEPT ![procs[p].job].state = "exited", ![procs[p].job].proc = 0]
    <3>1. PICK up, run : /\ \A j \in up : Awaits(over[j])
                         /\ jobs' = Override(over, StartedJobs(up, run))
      <4> DEFINE d == Drain(Without(running, {procs[p].job}), next, queue, {})
                 todo == {j \in ToSet(d.started) \cap DOMAIN jobs : Awaits(over[j])}
      <4>1. \E failed : jobs' = Override(over, StartedJobs(todo \ failed, d.run))
        BY <2>5 DEF ReapJob
      <4> HIDE DEF d, over
      <4> QED BY <4>1
    <3>2. procs[p].job \in DOMAIN jobs /\ jobs[procs[p].job].proc = p
      BY <2>5 DEF ReapJob
    <3>3. /\ DOMAIN over = DOMAIN jobs /\ over[procs[p].job].state = "exited"
          /\ \A j \in DOMAIN jobs \ {procs[p].job} : over[j] = jobs[j]
      <4>1. Extends(Without(running, {procs[p].job}), Without(running, {procs[p].job}))
        BY DEF Extends
      <4> QED BY <1>1, <3>2, <4>1, OverKeeps
    <3> HIDE DEF over
    <3>4. ASSUME NEW id \in DOMAIN jobs, jobs[id].state = "exited"
          PROVE  id \in DOMAIN jobs' /\ jobs'[id].state = "exited"
      <4>1. over[id].state = "exited"
        BY <3>3, <3>4
      <4>2. id \notin up
        BY <3>1, <4>1 DEF Awaits
      <4>3. id \in DOMAIN jobs' /\ jobs'[id] = over[id]
        BY <3>1, <3>3, <4>2 DEF Override, StartedJobs
      <4> QED BY <4>1, <4>3
    <3> QED BY <3>4
  <2>6. ASSUME NEW id, StopQueued(id) PROVE Stays
    BY <2>6 DEF StopQueued, Forget
  <2>7. ASSUME NEW id, NEW z \in Sizes, Resize(id, z[1], z[2]) PROVE Stays
    <3>1. PICK sl : jobs' = [jobs EXCEPT ![id].slots = sl]
      BY <2>7 DEF Resize
    <3>2. id \in DOMAIN jobs /\ jobs[id].state = "running"
      BY <2>7 DEF Resize
    <3> QED BY <3>1, <3>2
  <2>8. CASE UNCHANGED jobs
    BY <2>8
  <2> HIDE DEF Stays
  <2>9. CASE UNCHANGED vars
    BY <2>9
  <2> QED BY <1>1, <2>4, <2>5, <2>6, <2>7, <2>8, <2>9
          DEF Next, Reap, ProcExit, ReapStale, StopSignal, StopKill
<1> QED BY <1>1, SpecDInv, PTL DEF Spec, ExitedForGood

-----------------------------------------------------------------------------
(* While no launch fails and no job can be pushed off. *)

Gentle == LaunchMayFail = FALSE /\ \A r \in Asks : r.preempt = FALSE

\* Then no job can be pushed off by another, none is paused, the placed jobs run, and the
\* jobs that wait are those in the queue.
Calm ==
    /\ \A j \in DOMAIN running : running[j].req.preempt = FALSE
    /\ \A i \in DOMAIN queue : queue[i].preempt = FALSE
    /\ \A id \in DOMAIN jobs : jobs[id].state # "paused"
    /\ NoGhost /\ WaitingInLine

\* Nobody is pushed off for a job that there is no room for.
LEMMA NobodyPushed ==
    ASSUME NEW r, \A j \in DOMAIN running : running[j].req.preempt = FALSE
    PROVE  Enough(running, {}, r) = {}
<1>1. Pool(running, r) = {}
  BY DEF Pool
<1>2. Cardinality(Pool(running, r)) = 0
  BY <1>1, FS_EmptySet
<1>3. 1 .. 0 = {}
  OBVIOUS
<1> QED BY <1>2, <1>3 DEF Enough

\* A job that there is room for is started at once, and nothing else changes.
LEMMA FreeIs ==
    ASSUME Gentle, DInv, NEW r \in Request, SubmitFree(r)
    PROVE  /\ r.id \notin used
           /\ DOMAIN running' = DOMAIN running \cup {r.id} /\ running'[r.id].req = r
           /\ \A j \in DOMAIN running : running'[j] = running[j]
           /\ \A i \in DOMAIN queue' : \E k \in DOMAIN queue : queue'[i] = queue[k]
           /\ \A k \in DOMAIN queue : \E i \in DOMAIN queue' : queue'[i] = queue[k]
           /\ DOMAIN jobs' = DOMAIN jobs \cup {r.id} /\ jobs'[r.id].state = "running"
           /\ \A id \in DOMAIN jobs : jobs'[id] = jobs[id]
<1> DEFINE rest    == Without(running, {})
           slots   == FitSlots(rest, {}, r)
           placed  == Place(rest, r, slots, next + 1)
           pausing == Override(jobs, PausedJobs(Live({})))
           new     == [i \in {r.id} |-> [state |-> "running", req |-> r,
                                         slots |-> placed[i].slots, proc |-> next + 1]]
<1>1. /\ r.id \notin used /\ running' = placed /\ queue' = Requeued(Live({}))
      /\ jobs' = Override(pausing, new)
  BY DEF SubmitFree, Admitted, SubmitStart, Failures, Gentle
<1>2. Live({}) = {}
  BY DEF Live
<1>3. r.id \notin DOMAIN running /\ r.id \notin DOMAIN jobs
  BY <1>1 DEF DInv, SchedOK, JobsOK
<1>4. DOMAIN rest = DOMAIN running /\ \A j \in DOMAIN running : rest[j] = running[j]
  BY DEF Without
<1> HIDE DEF rest, slots
<1>5. /\ DOMAIN placed = DOMAIN running \cup {r.id}
      /\ placed[r.id] = [req |-> r, slots |-> slots, order |-> next + 1]
      /\ \A j \in DOMAIN running : placed[j] = running[j]
  BY <1>3, <1>4 DEF Place
<1> HIDE DEF placed
<1>6. placed[r.id].req = r
  BY <1>5
<1>7. /\ \A i \in DOMAIN queue' : \E k \in DOMAIN queue : queue'[i] = queue[k]
      /\ \A k \in DOMAIN queue : \E i \in DOMAIN queue' : queue'[i] = queue[k]
  <2> DEFINE L == Live({})
             q == Requeued(L)
  <2>1. L \in SUBSET (DOMAIN running \cap DOMAIN jobs) /\ L = {}
    BY <1>2
  <2> HIDE DEF L
  <2>2. /\ \A i \in DOMAIN q : q[i].id \in L \/ \E k \in DOMAIN queue : q[i] = queue[k]
        /\ \A k \in DOMAIN queue : \E i \in DOMAIN q : q[i] = queue[k]
    BY <2>1, RequeuedIs
  <2>3. queue' = q
    BY <1>1 DEF L
  <2> HIDE DEF q
  <2> QED BY <2>1, <2>2, <2>3
<1>8. DOMAIN pausing = DOMAIN jobs /\ \A id \in DOMAIN jobs : pausing[id] = jobs[id]
  BY <1>2 DEF Override, PausedJobs
<1> HIDE DEF pausing
<1>9. /\ DOMAIN jobs' = DOMAIN jobs \cup {r.id} /\ jobs'[r.id] = new[r.id]
      /\ \A id \in DOMAIN jobs : jobs'[id] = jobs[id]
  BY <1>1, <1>3, <1>8 DEF Override
<1>10. new[r.id].state = "running"
  OBVIOUS
<1> HIDE DEF new
<1>11. jobs'[r.id].state = "running"
  BY <1>9, <1>10
<1> QED BY <1>1, <1>5, <1>6, <1>7, <1>9, <1>11

\* When a running job is over, every job that is placed from the queue starts, and the
\* rest wait on, without room.
LEMMA ReapIs ==
    ASSUME Gentle, DInv, Calm, NEW p \in DOMAIN procs, ReapJob(p)
    PROVE  \E id \in DOMAIN jobs, up \in SUBSET DOMAIN jobs :
             /\ DOMAIN jobs' = DOMAIN jobs /\ jobs[id].state = "running" /\ id \notin up
             /\ jobs'[id].state = "exited" /\ \A j \in up : jobs'[j].state = "running"
             /\ \A j \in DOMAIN jobs \ (up \cup {id}) : jobs'[j] = jobs[j]
             /\ DOMAIN running' = (DOMAIN running \ {id}) \cup up
             /\ \A j \in DOMAIN running \ {id} : running'[j] = running[j]
             /\ \A j \in up : \E m \in DOMAIN queue : queue[m].id = j /\ running'[j].req = queue[m]
             /\ \A i \in DOMAIN queue' : /\ queue'[i].id \notin up
                                         /\ \E m \in DOMAIN queue : queue'[i] = queue[m]
                                         /\ FitErr(running', {}, queue'[i]) # "none"
             /\ \A m \in DOMAIN queue : queue[m].id \in up \/ \E i \in DOMAIN queue' : queue'[i] = queue[m]
<1> DEFINE id   == procs[p].job
           over == [jobs EXCEPT ![id].state = "exited", ![id].proc = 0]
           rest == Without(running, {id})
           d    == Drain(rest, next, queue, {})
           up   == {j \in ToSet(d.started) \cap DOMAIN jobs : Awaits(over[j])}
<1>1. /\ id \in DOMAIN jobs /\ jobs[id].proc = p
      /\ running' = d.run /\ queue' = d.rest
      /\ jobs' = Override(over, StartedJobs(up, d.run))
  BY DEF ReapJob, Failures, Gentle
<1>2. p # 0
  BY DEF DInv, ProcsOK, SchedOK
<1>3. jobs[id].state = "running"
  <2>1. jobs[id].state \in JobState /\ jobs[id].state \notin {"queued", "exited"}
    BY <1>1, <1>2 DEF DInv, JobsOK
  <2> QED BY <1>1, <2>1 DEF Calm, JobState
<1>4. SchedOK(rest, queue, next, used)
  <2>1. DOMAIN rest \subseteq DOMAIN running
    BY DEF Without
  <2>2. Sound(rest) /\ OrdersApart(rest, next)
    BY WithoutSound, WithoutApart DEF DInv, SchedOK
  <2> HIDE DEF rest
  <2> QED BY <2>1, <2>2 DEF DInv, SchedOK, WaitsApart
<1>5. DOMAIN rest = DOMAIN running \ {id} /\ \A j \in DOMAIN rest : rest[j] = running[j]
  BY DEF Without
<1>6. /\ DOMAIN over = DOMAIN jobs /\ over[id].state = "exited"
      /\ \A j \in DOMAIN jobs \ {id} : over[j] = jobs[j]
  <2>1. Extends(rest, rest)
    BY DEF Extends
  <2> QED BY <1>1, <2>1, OverKeeps
<1> HIDE DEF id, rest, over
<1>7. /\ SchedOK(d.run, d.rest, d.next, used)
      /\ Extends(d.run, rest)
      /\ \A j \in DOMAIN d.run \ DOMAIN rest : \E m \in DOMAIN queue : d.run[j].req = queue[m]
      /\ \A j \in Ids : (\E i \in DOMAIN d.started : d.started[i] = j)
                           <=> j \in DOMAIN d.run \ DOMAIN rest
      /\ \A i \in DOMAIN d.rest : /\ \E m \in DOMAIN queue : d.rest[i] = queue[m]
                                  /\ FitErr(d.run, {}, d.rest[i]) # "none"
      /\ \A m \in DOMAIN queue :
            queue[m].id \in DOMAIN d.run \/ \E i \in DOMAIN d.rest : d.rest[i] = queue[m]
  BY <1>4, DrainKeeps
<1> HIDE DEF d
<1>8. \A m \in DOMAIN queue : /\ queue[m].id \in Ids /\ queue[m].id \in DOMAIN jobs
                              /\ jobs[queue[m].id].state \in {"queued", "paused"}
  <2>1. \A m \in DOMAIN queue : queue[m].id \in Ids
    BY DEF DInv, SchedOK
  <2> QED BY <2>1 DEF Calm, WaitingInLine
<1>9. ASSUME NEW j \in DOMAIN d.run \ DOMAIN rest
      PROVE  \E m \in DOMAIN queue : queue[m].id = j /\ d.run[j].req = queue[m]
  <2>1. PICK m \in DOMAIN queue : d.run[j].req = queue[m]
    BY <1>7
  <2>2. d.run[j].req.id = j
    BY <1>7 DEF SchedOK, Sound
  <2> QED BY <2>1, <2>2
<1>10. up = DOMAIN d.run \ DOMAIN rest
  <2>1. ASSUME NEW j \in up PROVE j \in DOMAIN d.run \ DOMAIN rest
    <3>1. (\E i \in DOMAIN d.started : d.started[i] = j) /\ j \in Ids
      BY DEF ToSet, DInv, JobsOK
    <3> QED BY <1>7, <3>1
  <2>2. ASSUME NEW j \in DOMAIN d.run \ DOMAIN rest PROVE j \in up
    <3>1. /\ j \in Ids /\ j \in DOMAIN jobs /\ jobs[j].state \in {"queued", "paused"}
      BY <1>8, <1>9
    <3>2. j # id
      BY <1>3, <3>1
    <3>3. Awaits(over[j])
      BY <1>6, <3>1, <3>2 DEF Awaits
    <3>4. j \in ToSet(d.started)
      BY <1>7, <3>1 DEF ToSet
    <3> QED BY <3>1, <3>3, <3>4
  <2> QED BY <2>1, <2>2
<1>11. up \in SUBSET DOMAIN jobs /\ id \notin up
  <2>1. \A j \in up : j \in DOMAIN jobs /\ Awaits(over[j])
    OBVIOUS
  <2> HIDE DEF up
  <2> QED BY <1>6, <2>1 DEF Awaits
<1> HIDE DEF up
<1>12. /\ DOMAIN jobs' = DOMAIN jobs /\ jobs'[id] = over[id]
       /\ \A j \in up : jobs'[j].state = "running"
       /\ \A j \in DOMAIN jobs \ (up \cup {id}) : jobs'[j] = jobs[j]
  <2> DEFINE new == StartedJobs(up, d.run)
  <2>1. DOMAIN new = up /\ \A j \in up : new[j].state = "running"
    BY DEF StartedJobs
  <2> HIDE DEF new
  <2>2. jobs' = Override(over, new)
    BY <1>1 DEF new
  <2> QED BY <1>1, <1>6, <1>11, <2>1, <2>2 DEF Override
<1>13. /\ DOMAIN running' = (DOMAIN running \ {id}) \cup up
       /\ \A j \in DOMAIN running \ {id} : running'[j] = running[j]
  BY <1>1, <1>5, <1>7, <1>10 DEF Extends
<1>14. \A j \in up : \E m \in DOMAIN queue : queue[m].id = j /\ running'[j].req = queue[m]
  BY <1>1, <1>9, <1>10
<1>15. \A i \in DOMAIN queue' : /\ queue'[i].id \notin up
                                /\ \E m \in DOMAIN queue : queue'[i] = queue[m]
                                /\ FitErr(running', {}, queue'[i]) # "none"
  <2>1. \A i \in DOMAIN d.rest : d.rest[i].id \notin up
    BY <1>7, <1>10 DEF SchedOK, WaitsApart
  <2> QED BY <1>1, <1>7, <2>1
<1>16. \A m \in DOMAIN queue : queue[m].id \in up \/ \E i \in DOMAIN queue' : queue'[i] = queue[m]
  <2>1. \A m \in DOMAIN queue : queue[m].id \notin DOMAIN rest
    BY <1>5 DEF DInv, SchedOK, WaitsApart
  <2> QED BY <1>1, <1>7, <1>10, <2>1
<1>17. jobs'[id].state = "exited"
  BY <1>6, <1>12
<1> QED BY <1>1, <1>3, <1>11, <1>12, <1>13, <1>14, <1>15, <1>16, <1>17

\* What stays the same in every step but Submit, ReapJob, StopQueued and Resize.
LEMMA StillCalm ==
    ASSUME Calm, UNCHANGED <<running, queue, jobs>>
    PROVE  Calm'
BY DEF Calm, NoGhost, WaitingInLine

LEMMA NextCalm ==
    ASSUME Gentle, DInv, Calm, [Next]_vars
    PROVE  Calm'
<1>1. ASSUME NEW ask \in Asks, Submit(ask) PROVE Calm'
  <2> DEFINE r == Defaulted(ask)
  <2>1. r \in Request /\ r.preempt = FALSE
    <3>1. ask \in Request /\ ask.preempt = FALSE
      BY DaemonAssumption DEF Gentle
    <3>2. r.preempt = ask.preempt
      BY <3>1 DEF Defaulted, Request
    <3> QED BY <3>1, <3>2, DefaultedIs
  <2> HIDE DEF r
  <2>2. SubmitFree(r) \/ SubmitPreempting(r) \/ SubmitQueued(r)
    BY <1>1 DEF Submit, r
  <2>3. ~SubmitPreempting(r)
    BY NobodyPushed DEF Calm, SubmitPreempting
  <2>4. ASSUME NEW k \in DOMAIN queue PROVE queue[k].id \in used
    BY DEF DInv, SchedOK
  <2>5. CASE SubmitFree(r)
    <3>1. /\ r.id \notin used
          /\ DOMAIN running' = DOMAIN running \cup {r.id} /\ running'[r.id].req = r
          /\ \A j \in DOMAIN running : running'[j] = running[j]
          /\ \A i \in DOMAIN queue' : \E k \in DOMAIN queue : queue'[i] = queue[k]
          /\ \A k \in DOMAIN queue : \E i \in DOMAIN queue' : queue'[i] = queue[k]
          /\ DOMAIN jobs' = DOMAIN jobs \cup {r.id} /\ jobs'[r.id].state = "running"
          /\ \A id \in DOMAIN jobs : jobs'[id] = jobs[id]
      BY <2>1, <2>5, FreeIs
    <3>2. /\ \A j \in DOMAIN running' : running'[j].req.preempt = FALSE
          /\ \A i \in DOMAIN queue' : queue'[i].preempt = FALSE
          /\ \A id \in DOMAIN jobs' : jobs'[id].state # "paused"
      BY <2>1, <3>1 DEF Calm
    <3>3. NoGhost'
      BY <3>1 DEF Calm, NoGhost
    <3>4. ASSUME NEW id \in Ids
          PROVE  (id \in DOMAIN jobs' /\ jobs'[id].state \in {"queued", "paused"})
                     <=> \E i \in DOMAIN queue' : queue'[i].id = id
      <4>1. (\E i \in DOMAIN queue' : queue'[i].id = id) <=> (\E k \in DOMAIN queue : queue[k].id = id)
        BY <3>1
      <4>2. CASE id = r.id
        BY <2>4, <3>1, <4>1, <4>2
      <4>3. CASE id # r.id
        BY <3>1, <4>1, <4>3 DEF Calm, WaitingInLine
      <4> QED BY <4>2, <4>3
    <3> QED BY <3>2, <3>3, <3>4 DEF Calm, WaitingInLine
  <2>6. CASE SubmitQueued(r)
    <3> DEFINE nj == NewJob(r, "queued")
    <3>1. /\ r.id \notin used /\ queue' = Append(queue, r) /\ UNCHANGED running
          /\ jobs' = Override(jobs, [i \in {r.id} |-> nj])
      BY <2>6 DEF SubmitQueued, Admitted
    <3>2. nj.state = "queued"
      BY DEF NewJob
    <3> HIDE DEF nj
    <3>3. r.id \notin DOMAIN jobs
      BY <3>1 DEF DInv, JobsOK
    <3>4. /\ DOMAIN jobs' = DOMAIN jobs \cup {r.id} /\ jobs'[r.id] = nj
          /\ \A id \in DOMAIN jobs : jobs'[id] = jobs[id]
      BY <3>1, <3>3 DEF Override
    <3>5. /\ \A i \in DOMAIN queue' : queue'[i] = r \/ \E k \in DOMAIN queue : queue'[i] = queue[k]
          /\ \A k \in DOMAIN queue : \E i \in DOMAIN queue' : queue'[i] = queue[k]
          /\ \E i \in DOMAIN queue' : queue'[i] = r
      <4> DEFINE n == Len(queue)
      <4>1. queue \in Seq(Request)
        BY DEF DInv, SchedOK
      <4>2. /\ n \in Nat /\ DOMAIN queue = 1 .. n /\ DOMAIN queue' = 1 .. n + 1
            /\ queue'[n + 1] = r /\ \A i \in 1 .. n : queue'[i] = queue[i]
        BY <2>1, <3>1, <4>1
      <4> HIDE DEF n
      <4> QED BY <4>2
    <3>6. /\ \A j \in DOMAIN running' : running'[j].req.preempt = FALSE
          /\ \A i \in DOMAIN queue' : queue'[i].preempt = FALSE
          /\ \A id \in DOMAIN jobs' : jobs'[id].state # "paused"
      BY <2>1, <3>1, <3>2, <3>4, <3>5 DEF Calm
    <3>7. NoGhost'
      BY <3>1, <3>4 DEF Calm, NoGhost
    <3>8. ASSUME NEW id \in Ids
          PROVE  (id \in DOMAIN jobs' /\ jobs'[id].state \in {"queued", "paused"})
                     <=> \E i \in DOMAIN queue' : queue'[i].id = id
      <4>1. CASE id = r.id
        BY <3>2, <3>4, <3>5, <4>1
      <4>2. CASE id # r.id
        BY <3>4, <3>5, <4>2 DEF Calm, WaitingInLine
      <4> QED BY <4>1, <4>2
    <3> QED BY <3>6, <3>7, <3>8 DEF Calm, WaitingInLine
  <2> QED BY <2>2, <2>3, <2>5, <2>6
<1>2. ASSUME NEW p \in DOMAIN procs, ReapJob(p) PROVE Calm'
  <2>1. PICK id \in DOMAIN jobs, up \in SUBSET DOMAIN jobs :
             /\ DOMAIN jobs' = DOMAIN jobs /\ jobs[id].state = "running" /\ id \notin up
             /\ jobs'[id].state = "exited" /\ \A j \in up : jobs'[j].state = "running"
             /\ \A j \in DOMAIN jobs \ (up \cup {id}) : jobs'[j] = jobs[j]
             /\ DOMAIN running' = (DOMAIN running \ {id}) \cup up
             /\ \A j \in DOMAIN running \ {id} : running'[j] = running[j]
             /\ \A j \in up : \E m \in DOMAIN queue : queue[m].id = j /\ running'[j].req = queue[m]
             /\ \A i \in DOMAIN queue' : /\ queue'[i].id \notin up
                                         /\ \E m \in DOMAIN queue : queue'[i] = queue[m]
                                         /\ FitErr(running', {}, queue'[i]) # "none"
             /\ \A m \in DOMAIN queue : queue[m].id \in up \/ \E i \in DOMAIN queue' : queue'[i] = queue[m]
    BY <1>2, ReapIs
  <2>2. /\ \A j \in DOMAIN running' : running'[j].req.preempt = FALSE
        /\ \A i \in DOMAIN queue' : queue'[i].preempt = FALSE
        /\ \A j \in DOMAIN jobs' : jobs'[j].state # "paused"
    BY <2>1 DEF Calm
  <2>3. NoGhost'
    <3>1. ASSUME NEW j \in DOMAIN running' PROVE j \in DOMAIN jobs' /\ jobs'[j].state = "running"
      <4>1. CASE j \in up
        BY <2>1, <4>1
      <4>2. CASE j \notin up
        BY <2>1, <4>2 DEF Calm, NoGhost
      <4> QED BY <4>1, <4>2
    <3> QED BY <3>1 DEF NoGhost
  <2>4. ASSUME NEW j \in Ids
        PROVE  (j \in DOMAIN jobs' /\ jobs'[j].state \in {"queued", "paused"})
                   <=> \E i \in DOMAIN queue' : queue'[i].id = j
    <3>1. (\E i \in DOMAIN queue' : queue'[i].id = j) <=> (\E k \in DOMAIN queue : queue[k].id = j) /\ j \notin up
      BY <2>1
    <3>2. (j \in DOMAIN jobs /\ jobs[j].state \in {"queued", "paused"}) <=> \E k \in DOMAIN queue : queue[k].id = j
      BY DEF Calm, WaitingInLine
    <3>3. CASE j \in up \cup {id}
      BY <2>1, <3>1, <3>2, <3>3
    <3>4. CASE j \notin up \cup {id}
      <4>1. j \in DOMAIN jobs => jobs'[j] = jobs[j]
        BY <2>1, <3>4
      <4> QED BY <2>1, <3>1, <3>2, <3>4, <4>1
    <3> QED BY <3>3, <3>4
  <2> QED BY <2>2, <2>3, <2>4 DEF Calm, WaitingInLine
<1>3. ASSUME NEW id \in Ids, StopQueued(id) PROVE Calm'
  <2>1. /\ id \in DOMAIN jobs /\ jobs[id].state = "queued" /\ UNCHANGED running
        /\ queue' = Cancelled(queue, id) /\ jobs' = Forget(jobs, {id})
    BY <1>3 DEF StopQueued
  <2>2. DOMAIN jobs' = DOMAIN jobs \ {id} /\ \A j \in DOMAIN jobs' : jobs'[j] = jobs[j]
    BY <2>1 DEF Forget
  <2>3. /\ \A i \in DOMAIN queue' :
              \E k \in DOMAIN queue : queue'[i] = queue[k] /\ queue[k].id # id
        /\ \A k \in DOMAIN queue : queue[k].id # id =>
              \E i \in DOMAIN queue' : queue'[i] = queue[k]
    BY <2>1, QueueLeft DEF DInv, SchedOK
  <2>4. \A j : (\E i \in DOMAIN queue' : queue'[i].id = j) <=> (\E k \in DOMAIN queue : queue[k].id = j) /\ j # id
    BY <2>3
  <2>5. /\ \A j \in DOMAIN running' : running'[j].req.preempt = FALSE
        /\ \A i \in DOMAIN queue' : queue'[i].preempt = FALSE
        /\ \A j \in DOMAIN jobs' : jobs'[j].state # "paused"
    <3>1. \A j \in DOMAIN running' : running'[j].req.preempt = FALSE
      BY <2>1 DEF Calm
    <3>2. \A i \in DOMAIN queue' : queue'[i].preempt = FALSE
      BY <2>3 DEF Calm
    <3>3. \A j \in DOMAIN jobs' : jobs'[j].state # "paused"
      BY <2>2 DEF Calm
    <3> QED BY <3>1, <3>2, <3>3
  <2>6. NoGhost'
    BY <2>1, <2>2 DEF Calm, NoGhost
  <2>7. WaitingInLine'
    BY <2>2, <2>4 DEF Calm, WaitingInLine
  <2> QED BY <2>5, <2>6, <2>7 DEF Calm
<1>4. ASSUME NEW id \in Ids, NEW z \in Sizes, Resize(id, z[1], z[2]) PROVE Calm'
  <2> DEFINE r == Resized(running[id].req, z[1], z[2])
  <2>1. /\ id \in DOMAIN jobs /\ jobs[id].state = "running" /\ id \in DOMAIN running
        /\ running' = ResizeJob(running, id, r) /\ UNCHANGED queue
        /\ \E sl : jobs' = [jobs EXCEPT ![id].slots = sl]
    BY <1>4 DEF Resize
  <2>2. running[id].req \in Request /\ running[id].req.id = id
    BY <2>1 DEF DInv, SchedOK, Sound, IsRunMap, IsPlaced
  <2>3. r.id = id /\ r.preempt = FALSE
    <3>1. r.id = running[id].req.id /\ r.preempt = running[id].req.preempt
      BY <2>2 DEF Resized, Request
    <3> QED BY <2>1, <2>2, <3>1 DEF Calm
  <2> HIDE DEF r
  <2>4. /\ DOMAIN running' = DOMAIN running /\ running'[id].req = r
        /\ \A j \in DOMAIN running \ {id} : running'[j] = running[j]
    BY <2>1, <2>3 DEF ResizeJob, Place
  <2>5. DOMAIN jobs' = DOMAIN jobs /\ \A j \in DOMAIN jobs : jobs'[j].state = jobs[j].state
    <3>1. PICK sl : jobs' = [jobs EXCEPT ![id].slots = sl]
      BY <2>1
    <3>2. jobs'[id].state = jobs[id].state
      <4>1. jobs[id] = [state |-> jobs[id].state, req |-> jobs[id].req,
                        slots |-> jobs[id].slots, proc |-> jobs[id].proc]
        BY <2>1 DEF DInv, JobsOK
      <4>2. jobs'[id] = [jobs[id] EXCEPT !.slots = sl]
        BY <2>1, <3>1
      <4> QED BY <4>1, <4>2
    <3> QED BY <3>1, <3>2
  <2>6. /\ \A j \in DOMAIN running' : running'[j].req.preempt = FALSE
        /\ \A i \in DOMAIN queue' : queue'[i].preempt = FALSE
        /\ \A j \in DOMAIN jobs' : jobs'[j].state # "paused"
    BY <2>1, <2>3, <2>4, <2>5 DEF Calm
  <2>7. NoGhost'
    BY <2>4, <2>5 DEF Calm, NoGhost
  <2>8. WaitingInLine'
    BY <2>1, <2>5 DEF Calm, WaitingInLine
  <2> QED BY <2>6, <2>7, <2>8 DEF Calm
<1>5. CASE UNCHANGED <<running, queue, jobs>>
  BY <1>5, StillCalm
<1>6. CASE UNCHANGED vars
  BY <1>6, StillCalm DEF vars
<1> QED BY <1>1, <1>2, <1>3, <1>4, <1>5, <1>6
        DEF Next, Reap, ProcExit, ReapStale, StopSignal, StopKill, sched

LEMMA SpecCalm ==
    ASSUME Gentle
    PROVE  Spec => []Calm
<1>1. Init => Calm
  BY DEF Init, Calm, NoGhost, WaitingInLine
<1>2. DInv /\ Calm /\ [Next]_vars => Calm'
  BY NextCalm
<1> QED BY <1>1, <1>2, SpecDInv, PTL DEF Spec

\* While no launch fails and no job can be pushed off, every seat that the scheduler
\* counts as used is used by a running job: what Release returns is started.
THEOREM NoGhosts ==
    ASSUME Gentle
    PROVE  Spec => []NoGhost
<1>1. Calm => NoGhost
  BY DEF Calm
<1> QED BY <1>1, SpecCalm, PTL

\* ... and the jobs that are shown as waiting are the ones that the scheduler has in its
\* queue: none is forgotten there, and none waits on after it was started or stopped.
THEOREM AlwaysInLine ==
    ASSUME Gentle
    PROVE  Spec => []WaitingInLine
<1>1. Calm => WaitingInLine
  BY DEF Calm
<1> QED BY <1>1, SpecCalm, PTL

\* ... and, as long as no job is resized, a job waits only while there is no room for it,
\* although the queue is looked at only when a job is over.
THEOREM AlwaysWaitsForRoom ==
    ASSUME Gentle, Sizes = {}
    PROVE  Spec => []WaitsForRoom
<1>1. Init => WaitsForRoom
  BY DEF Init, WaitsForRoom
<1>2. ASSUME DInv, Calm, WaitsForRoom, [Next]_vars PROVE WaitsForRoom'
  <2>1. queue \in Seq(Request)
    BY <1>2 DEF DInv, SchedOK
  <2>2. ASSUME NEW ask \in Asks, Submit(ask) PROVE WaitsForRoom'
    <3> DEFINE r == Defaulted(ask)
    <3>1. r \in Request
      BY DefaultedIs
    <3> HIDE DEF r
    <3>2. SubmitFree(r) \/ SubmitPreempting(r) \/ SubmitQueued(r)
      BY <2>2 DEF Submit, r
    <3>3. ~SubmitPreempting(r)
      BY <1>2, NobodyPushed DEF Calm, SubmitPreempting
    <3>4. CASE SubmitFree(r)
      <4>1. /\ DOMAIN running' = DOMAIN running \cup {r.id}
            /\ \A j \in DOMAIN running : running'[j] = running[j]
            /\ \A i \in DOMAIN queue' : \E k \in DOMAIN queue : queue'[i] = queue[k]
        BY <1>2, <3>1, <3>4, FreeIs
      <4>2. IsRunMap(running') /\ Extends(running', running)
        BY <1>2, <4>1, NextDInv DEF DInv, SchedOK, Sound, Extends
      <4>3. ASSUME NEW i \in DOMAIN queue' PROVE FitErr(running', {}, queue'[i]) # "none"
        <5>1. PICK k \in DOMAIN queue : queue'[i] = queue[k]
          BY <4>1
        <5>2. queue[k] \in Request /\ FitErr(running, {}, queue[k]) # "none"
          BY <1>2, <2>1 DEF WaitsForRoom
        <5>3. FitErr(running', {}, queue[k]) # "none"
          BY <4>2, <5>2, FitMonotone
        <5> QED BY <5>1, <5>3
      <4> QED BY <4>3 DEF WaitsForRoom
    <3>5. CASE SubmitQueued(r)
      <4>1. /\ queue' = Append(queue, r) /\ UNCHANGED running
            /\ FitErr(running, {}, r) # "none"
        BY <3>5 DEF SubmitQueued
      <4>2. \A i \in DOMAIN queue' : queue'[i] = r \/ \E k \in DOMAIN queue : queue'[i] = queue[k]
        BY <2>1, <3>1, <4>1
      <4> QED BY <1>2, <4>1, <4>2 DEF WaitsForRoom
    <3> QED BY <3>2, <3>3, <3>4, <3>5
  <2>3. ASSUME NEW p \in DOMAIN procs, ReapJob(p) PROVE WaitsForRoom'
    <3>1. \A i \in DOMAIN queue' : FitErr(running', {}, queue'[i]) # "none"
      BY <1>2, <2>3, ReapIs
    <3> QED BY <3>1 DEF WaitsForRoom
  <2>4. ASSUME NEW id \in Ids, StopQueued(id) PROVE WaitsForRoom'
    <3>1. queue' = Cancelled(queue, id) /\ UNCHANGED running
      BY <2>4 DEF StopQueued
    <3>2. \A i \in DOMAIN queue' : \E k \in DOMAIN queue : queue'[i] = queue[k]
      BY <1>2, <3>1, QueueLeft DEF DInv, SchedOK
    <3> QED BY <1>2, <3>1, <3>2 DEF WaitsForRoom
  <2>5. CASE UNCHANGED <<running, queue>>
    BY <1>2, <2>5 DEF WaitsForRoom
  <2>6. CASE UNCHANGED vars
    BY <2>5, <2>6 DEF vars
  <2> QED BY <1>2, <2>2, <2>3, <2>4, <2>5, <2>6
          DEF Next, Reap, ProcExit, ReapStale, StopSignal, StopKill, sched
<1> QED BY <1>1, <1>2, SpecDInv, SpecCalm, PTL DEF Spec

=============================================================================
