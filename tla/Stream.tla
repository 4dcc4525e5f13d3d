------------------------------- MODULE Stream -------------------------------
(***************************************************************************)
(* Remote exec: the handler that runs a client's command and streams its    *)
(* output back (exec in internal/api/remote.go), and the way the daemon is   *)
(* told where a job's output goes (SubmitStreaming in                        *)
(* internal/daemon/exec.go).                                                 *)
(*                                                                          *)
(* A call of exec is five goroutines: the handler, which sends the events;   *)
(* a scanner for each of the two pipes; the closer, which owns the done      *)
(* channel; and the watcher, which stops the job if the client goes away.    *)
(* Around them, commands write and end, the daemon reaps, and others submit. *)
(*                                                                          *)
(* The scheduler is reduced to a number of jobs that run at a time and a     *)
(* queue: Daemon.tla has the rest.  A job is named after who submits it, and *)
(* its name stands for its exit code as well.                                *)
(***************************************************************************)
EXTENDS Integers, Sequences, FiniteSets

CONSTANTS
    Calls,       \* calls of exec
    Locals,      \* jobs that others submit meanwhile, without streaming
    Earlier,     \* jobs that run from the beginning
    Pipes,       \* a job's two outputs
    Room,        \* jobs that run at a time
    Kinds,       \* lines that commands write: "line", or "long" for one beyond the scanner's limit
    OthersStop,  \* whether others stop jobs
    MaxLines,    \* bound: lines that a job writes
    Buffer,      \* capacity of the channel of events (256 in the code)
    None

Jobs == Calls \cup Locals \cup Earlier

ASSUME StreamAssumption ==
    /\ None \notin Jobs
    /\ Calls \cap Locals = {} /\ Calls \cap Earlier = {} /\ Locals \cap Earlier = {}
    /\ Kinds \subseteq {"line", "long"}
    /\ Room \in Nat /\ MaxLines \in Nat /\ Buffer \in Nat
    /\ OthersStop \in BOOLEAN

VARIABLES
    hook,    \* d.prepareStreaming: the call whose writers and channel the next job is given
    st,      \* the state of each job
    queue,   \* the jobs that wait
    tap,     \* the call whose writers and channel each job was given, or None
    out,     \* what a job has written and the copying goroutines have yet to pass on
    wrote,   \* how many lines a job has written
    pc,      \* the handler of each call
    closer,  \* the goroutine of each call that waits for done
    scan,    \* the scanners of each call
    shut,    \* whether a call's pipes are closed for writing
    events,  \* how many events are in a call's channel
    sent,    \* how many lines a call's client was sent
    done,    \* the exit code that a call's done channel was given, or None
    gone     \* the calls whose client went away

daemon == <<hook, st, queue, tap>>
handler == <<pc, closer, scan, shut, events, sent>>
vars == <<daemon, out, wrote, handler, done, gone>>

TypeOK ==
    /\ hook \in Calls \cup {None}
    /\ st \in [Jobs -> {"none", "queued", "running", "exiting", "exited", "deleted", "refused"}]
    /\ queue \in Seq(Jobs) /\ \A i \in DOMAIN queue : st[queue[i]] = "queued"
    /\ tap \in [Jobs -> Calls \cup {None}]
    /\ out \in [Jobs -> [Pipes -> Seq(Kinds)]]
    /\ wrote \in [Jobs -> Nat]
    /\ pc \in [Calls -> {"idle", "hooked", "failed", "serving", "returned", "refused"}]
    /\ closer \in [Calls -> {"off", "wait", "drain", "over"}]
    /\ scan \in [Calls -> [Pipes -> {"scanning", "holding", "over"}]]
    /\ shut \in [Calls -> BOOLEAN]
    /\ events \in [Calls -> 0..Buffer]
    /\ sent \in [Calls -> Nat]
    /\ done \in [Calls -> Jobs \cup {None}]
    /\ gone \subseteq Calls

Init ==
    /\ hook = None
    /\ st = [j \in Jobs |-> IF j \in Earlier THEN "running" ELSE "none"]
    /\ queue = <<>>
    /\ tap = [j \in Jobs |-> None]
    /\ out = [j \in Jobs |-> [p \in Pipes |-> <<>>]]
    /\ wrote = [j \in Jobs |-> 0]
    /\ pc = [c \in Calls |-> "idle"]
    /\ closer = [c \in Calls |-> "off"]
    /\ scan = [c \in Calls |-> [p \in Pipes |-> "scanning"]]
    /\ shut = [c \in Calls |-> FALSE]
    /\ events = [c \in Calls |-> 0]
    /\ sent = [c \in Calls |-> 0]
    /\ done = [c \in Calls |-> None]
    /\ gone = {}

-----------------------------------------------------------------------------
(* Submitting: three critical sections of d.mu for a streaming job, one for  *)
(* any other.                                                               *)

Busy == {j \in Jobs : st[j] \in {"running", "exiting"}}

\* Mutated form of TakeHook: the hook stays where it is.
TakeHookNot(j) ==
    /\ tap' = [tap EXCEPT ![j] = hook]
    /\ hook' = hook

\* The job that is being made takes the hook, whoever left it there.
TakeHook(j) ==
    /\ tap' = [tap EXCEPT ![j] = hook]
    /\ hook' = None

\* Submit of a job that is admitted: it runs, waits, or fails to launch.
Submitted(j, to) ==
    /\ st[j] = "none"
    /\ to = "queued" <=> Cardinality(Busy) >= Room
    /\ TakeHook(j)
    /\ st' = [st EXCEPT ![j] = to]
    /\ queue' = IF to = "queued" THEN Append(queue, j) ELSE queue

\* Submit of a job that is refused.
Refused(j) ==
    /\ st[j] = "none"
    /\ st' = [st EXCEPT ![j] = "refused"]
    /\ UNCHANGED <<hook, queue, tap>>

SubmitLocal(j) ==
    /\ Refused(j) \/ \E to \in {"running", "queued", "deleted"} : Submitted(j, to)
    /\ UNCHANGED <<out, wrote, handler, done, gone>>

SetHook(c) ==
    /\ pc[c] = "idle"
    /\ pc' = [pc EXCEPT ![c] = "hooked"]
    /\ hook' = c
    /\ UNCHANGED <<st, queue, tap, out, wrote, closer, scan, shut, events, sent, done, gone>>

\* The job is there: the closer and the watcher start.
SubmitOK(c) ==
    /\ pc[c] = "hooked"
    /\ \E to \in {"running", "queued"} : Submitted(c, to)
    /\ pc' = [pc EXCEPT ![c] = "serving"]
    /\ closer' = [closer EXCEPT ![c] = "wait"]
    /\ UNCHANGED <<out, wrote, scan, shut, events, sent, done, gone>>

SubmitErr(c) ==
    /\ pc[c] = "hooked"
    /\ Refused(c) \/ Submitted(c, "deleted")
    /\ pc' = [pc EXCEPT ![c] = "failed"]
    /\ UNCHANGED <<out, wrote, closer, scan, shut, events, sent, done, gone>>

\* The hook is removed, whoever left it there, and the client is sent the error.
ClearHook(c) ==
    /\ pc[c] = "failed"
    /\ pc' = [pc EXCEPT ![c] = "refused"]
    /\ hook' = None
    /\ shut' = [shut EXCEPT ![c] = TRUE]
    /\ UNCHANGED <<st, queue, tap, out, wrote, closer, scan, events, sent, done, gone>>

-----------------------------------------------------------------------------
(* Commands, and the daemon's side of their end. *)

\* A command whose output is streamed writes a line (for others nothing depends on it).
Write(j, p, kind) ==
    /\ st[j] = "running" /\ tap[j] # None
    /\ wrote[j] < MaxLines
    /\ wrote' = [wrote EXCEPT ![j] = @ + 1]
    /\ out' = [out EXCEPT ![j][p] = Append(@, kind)]
    /\ UNCHANGED <<daemon, handler, done, gone>>

ProcExit(j) ==
    /\ st[j] = "running"
    /\ st' = [st EXCEPT ![j] = "exiting"]
    /\ UNCHANGED <<hook, queue, tap, out, wrote, handler, done, gone>>

\* cmd.Wait returns only when all that the command wrote was passed on.  Then the
\* job is reaped: its channel is given the code, and a job that waits is started.
Reap(j) ==
    /\ st[j] = "exiting"
    /\ \A p \in Pipes : out[j][p] = <<>>
    /\ IF queue = <<>>
         THEN /\ st' = [st EXCEPT ![j] = "exited"]
              /\ UNCHANGED queue
         ELSE /\ st' = [st EXCEPT ![j] = "exited", ![Head(queue)] = "running"]
              /\ queue' = Tail(queue)
    /\ done' = IF tap[j] = None THEN done ELSE [done EXCEPT ![tap[j]] = j]
    /\ UNCHANGED <<hook, tap, out, wrote, handler, gone>>

\* Mutated form of Stop: the scheduler is not told.
StopUncancelled(j) ==
    /\ \/ /\ st[j] = "queued"
          /\ st' = [st EXCEPT ![j] = "deleted"]
       \/ /\ st[j] = "running"
          /\ st' = [st EXCEPT ![j] = "exiting"]
    /\ UNCHANGED <<hook, queue, tap>>

\* The queue with job j taken out.
Cancelled(q, j) ==
    LET at == CHOOSE i \in DOMAIN q : q[i] = j
    IN  IF \E i \in DOMAIN q : q[i] = j
          THEN SubSeq(q, 1, at - 1) \o SubSeq(q, at + 1, Len(q))
          ELSE q

\* Stop: a queued job is forgotten, and a running one is made to end.
Stop(j) ==
    /\ \/ /\ st[j] = "queued"
          /\ st' = [st EXCEPT ![j] = "deleted"]
          /\ queue' = Cancelled(queue, j)
       \/ /\ st[j] = "running"
          /\ st' = [st EXCEPT ![j] = "exiting"]
          /\ UNCHANGED queue
    /\ UNCHANGED <<hook, tap>>

OtherStop(j) ==
    /\ OthersStop
    /\ Stop(j)
    /\ UNCHANGED <<out, wrote, handler, done, gone>>

-----------------------------------------------------------------------------
(* The goroutines of a call. *)

\* A line goes through a pipe to the scanner.  A line that is too long ends the
\* scanner, and the goroutine that copies it is left with the rest.
Pass(j, p) ==
    LET c == tap[j]
    IN  /\ c # None /\ out[j][p] # <<>>
        /\ scan[c][p] = "scanning" /\ ~shut[c]
        /\ \/ /\ Head(out[j][p]) = "line"
              /\ scan' = [scan EXCEPT ![c][p] = "holding"]
              /\ out' = [out EXCEPT ![j][p] = Tail(@)]
           \/ /\ Head(out[j][p]) = "long"
              /\ scan' = [scan EXCEPT ![c][p] = "over"]
              /\ UNCHANGED out
        /\ UNCHANGED <<daemon, wrote, pc, closer, shut, events, sent, done, gone>>

\* A pipe that is closed takes no more: the copying goroutine ends with an error.
Drop(j, p) ==
    /\ tap[j] # None /\ out[j][p] # <<>>
    /\ shut[tap[j]]
    /\ out' = [out EXCEPT ![j][p] = <<>>]
    /\ UNCHANGED <<daemon, wrote, handler, done, gone>>

\* The scanner sends the line, if the channel has room.
Forward(c, p) ==
    /\ scan[c][p] = "holding"
    /\ events[c] < Buffer
    /\ events' = [events EXCEPT ![c] = @ + 1]
    /\ scan' = [scan EXCEPT ![c][p] = "scanning"]
    /\ UNCHANGED <<daemon, out, wrote, pc, closer, shut, sent, done, gone>>

ScanEnd(c, p) ==
    /\ scan[c][p] = "scanning" /\ shut[c]
    /\ scan' = [scan EXCEPT ![c][p] = "over"]
    /\ UNCHANGED <<daemon, out, wrote, pc, closer, shut, events, sent, done, gone>>

\* Mutated form of CloserClose: the pipes are left open.
CloserCloseNot(c) ==
    /\ closer[c] = "wait" /\ done[c] # None
    /\ closer' = [closer EXCEPT ![c] = "drain"]
    /\ UNCHANGED <<daemon, out, wrote, pc, scan, shut, events, sent, done, gone>>

\* The code has come: the pipes are closed and the watcher is told.
CloserClose(c) ==
    /\ closer[c] = "wait" /\ done[c] # None
    /\ closer' = [closer EXCEPT ![c] = "drain"]
    /\ shut' = [shut EXCEPT ![c] = TRUE]
    /\ UNCHANGED <<daemon, out, wrote, pc, scan, events, sent, done, gone>>

\* Mutated form of CloserEnd: the scanners are not waited for.
CloserEndEarly(c) ==
    /\ closer[c] = "drain"
    /\ closer' = [closer EXCEPT ![c] = "over"]
    /\ UNCHANGED <<daemon, out, wrote, pc, scan, shut, events, sent, done, gone>>

\* Both scanners are done: the channel of events is closed.
CloserEnd(c) ==
    /\ closer[c] = "drain"
    /\ \A p \in Pipes : scan[c][p] = "over"
    /\ closer' = [closer EXCEPT ![c] = "over"]
    /\ UNCHANGED <<daemon, out, wrote, pc, scan, shut, events, sent, done, gone>>

Emit(c) ==
    /\ pc[c] = "serving" /\ events[c] > 0
    /\ events' = [events EXCEPT ![c] = @ - 1]
    /\ sent' = [sent EXCEPT ![c] = @ + 1]
    /\ UNCHANGED <<daemon, out, wrote, pc, closer, scan, shut, done, gone>>

\* The channel is closed and empty: the exit code is sent.
Return(c) ==
    /\ pc[c] = "serving" /\ events[c] = 0 /\ closer[c] = "over"
    /\ pc' = [pc EXCEPT ![c] = "returned"]
    /\ UNCHANGED <<daemon, out, wrote, closer, scan, shut, events, sent, done, gone>>

\* The client goes away.
Leave(c) ==
    /\ pc[c] = "serving" /\ c \notin gone
    /\ gone' = gone \cup {c}
    /\ UNCHANGED <<daemon, out, wrote, handler, done>>

\* Mutated form of WatcherStop: a job that waits is left alone.
WatcherStopRunning(c) ==
    /\ c \in gone /\ closer[c] = "wait"
    /\ st[c] = "running"
    /\ Stop(c)
    /\ UNCHANGED <<out, wrote, handler, done, gone>>

\* The watcher stops the job, unless the code has come.
WatcherStop(c) ==
    /\ c \in gone /\ closer[c] = "wait"
    /\ Stop(c)
    /\ UNCHANGED <<out, wrote, handler, done, gone>>

Serve(c) ==
    \/ Emit(c) \/ Return(c)
    \/ CloserClose(c) \/ CloserEnd(c)
    \/ WatcherStop(c)
    \/ \E p \in Pipes : Forward(c, p) \/ ScanEnd(c, p)

Next ==
    \/ \E j \in Locals : SubmitLocal(j)
    \/ \E c \in Calls : SetHook(c) \/ SubmitOK(c) \/ SubmitErr(c) \/ ClearHook(c) \/ Leave(c)
    \/ \E c \in Calls : Serve(c)
    \/ \E j \in Jobs : ProcExit(j) \/ Reap(j) \/ OtherStop(j)
    \/ \E j \in Jobs, p \in Pipes : Pass(j, p) \/ Drop(j, p) \/ \E kind \in Kinds : Write(j, p, kind)

Spec == Init /\ [][Next]_vars

\* Every goroutine of a call goes on when it can, and so do the daemon's reapers and
\* the goroutines that copy output.  Commands may run for ever.
Fairness ==
    /\ \A c \in Calls : /\ WF_vars(Emit(c)) /\ WF_vars(Return(c))
                        /\ WF_vars(CloserClose(c)) /\ WF_vars(CloserEnd(c))
                        /\ WF_vars(WatcherStop(c))
    /\ \A c \in Calls, p \in Pipes : WF_vars(Forward(c, p)) /\ WF_vars(ScanEnd(c, p))
    /\ \A j \in Jobs : WF_vars(Reap(j)) /\ \A p \in Pipes : WF_vars(Pass(j, p)) /\ WF_vars(Drop(j, p))

FairSpec == Spec /\ Fairness

-----------------------------------------------------------------------------
(* Properties. *)

\* However calls of exec and other submissions interleave, a call's channel and
\* writers go to one job at most: the reaper's send never meets a closed channel.
TapOnce == \A j, k \in Jobs : j # k /\ tap[j] # None => tap[j] # tap[k]

\* When the exit code is sent, everything that the command wrote was sent before:
\* no line is lost between the command's exit and the closing of the channels.
AllSent ==
    \A c \in Calls : pc[c] = "returned" =>
        \A j \in Jobs : tap[j] = c => sent[c] = wrote[j]

\* The output of the job is not read any further.
Stuck(j) == \E p \in Pipes : out[j][p] # <<>> /\ Head(out[j][p]) = "long"

\* A call that was given its own job's channel returns once that job has ended,
\* if its output is read and the client is still there: no goroutine of the call
\* waits for one that waits for it.
Answered ==
    \A c \in Calls :
        (pc[c] = "serving" /\ tap[c] = c /\ st[c] \in {"exiting", "exited"})
            ~> (pc[c] = "returned" \/ Stuck(c))

\* "a client that goes away [...] takes its job with it" (remote.go:214-215), unless
\* the job's output is not read any further, or the call has another job's channel.
TakenAlong ==
    \A c \in Calls :
        (c \in gone /\ tap[c] = c) ~> (st[c] \in {"exited", "deleted"} \/ Stuck(c))

\* "returns the job plus a channel that yields the exit code when it ends"
\* (exec.go:27-28): the code that a call is given is that of its own job.
OwnCode == \A c \in Calls : done[c] \in {None, c}

=============================================================================
