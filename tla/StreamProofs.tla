---------------------------- MODULE StreamProofs ----------------------------
(***************************************************************************)
(* TapOnce, TypeOK and AllSent of Stream, for any number of calls, pipes,    *)
(* lines and other submissions.                                              *)
(*                                                                          *)
(* TapOnce is not inductive: the hook that a job takes must be one that no   *)
(* job has, and a call that leaves its hook must not have left it before.    *)
(* So TInv says as well where a call's hook can be before the call has       *)
(* begun, and that a hook that is there to be taken was not taken yet.       *)
(*                                                                          *)
(* AllSent rests on a balance, Flow: what was written was sent, or is in the *)
(* channel of events, or is with a scanner or a copying goroutine.  Reaped   *)
(* and Shutting say in which order the parts are closed, so that nothing is  *)
(* left of the last two when a call returns.                                 *)
(***************************************************************************)
EXTENDS Stream, FiniteSetTheorems, TLAPS

\* A call's hook: in the field, with a job, or not yet made.
HookFree ==
    /\ \A c \in Calls : pc[c] = "idle" => hook # c /\ \A j \in Jobs : tap[j] # c
    /\ hook # None => \A j \in Jobs : tap[j] # hook

TapType ==
    /\ hook \in Calls \cup {None}
    /\ tap \in [Jobs -> Calls \cup {None}]
    /\ DOMAIN pc = Calls

TInv == TapType /\ HookFree /\ TapOnce

\* No job has a hook at the beginning, and none is in the field.
LEMMA InitTInv == Init => TInv
  BY StreamAssumption DEF Init, TInv, TapType, HookFree, TapOnce, Jobs

\* A job that is made takes what is in the field and leaves nothing there.
LEMMA TakeHookTInv ==
    ASSUME TInv, NEW j \in Jobs, TakeHook(j), DOMAIN pc' = Calls,
           \A c \in Calls : pc'[c] = "idle" => pc[c] = "idle"
    PROVE  TInv'
<1>1. TapType' BY DEF TInv, TapType, TakeHook
<1>2. HookFree' BY StreamAssumption DEF TInv, TapType, HookFree, TakeHook, Jobs
<1>3. TapOnce' BY DEF TInv, TapType, HookFree, TapOnce, TakeHook
<1> QED BY <1>1, <1>2, <1>3 DEF TInv

\* A step that leaves the field or empties it, and gives no job a hook.
LEMMA KeepTInv ==
    ASSUME TInv, hook' = hook \/ hook' = None, tap' = tap, DOMAIN pc' = Calls,
           \A c \in Calls : pc'[c] = "idle" => pc[c] = "idle"
    PROVE  TInv'
<1>1. TapType' BY DEF TInv, TapType
<1>2. HookFree' BY StreamAssumption DEF TInv, TapType, HookFree, Jobs
<1>3. TapOnce' BY DEF TInv, TapOnce
<1> QED BY <1>1, <1>2, <1>3 DEF TInv

\* A call leaves its hook in the field.
LEMMA SetHookTInv == ASSUME TInv, NEW c \in Calls, SetHook(c) PROVE TInv'
<1>1. TapType' BY DEF TInv, TapType, SetHook
<1>2. HookFree' BY StreamAssumption DEF TInv, TapType, HookFree, SetHook, Jobs
<1>3. TapOnce' BY DEF TInv, TapOnce, SetHook
<1> QED BY <1>1, <1>2, <1>3 DEF TInv

\* A submission either takes the hook or leaves it; so does every other step.
LEMMA NextTInv == TInv /\ [Next]_vars => TInv'
<1> SUFFICES ASSUME TInv, [Next]_vars PROVE TInv'
  OBVIOUS
<1> USE DEF daemon, handler
<1>0. DOMAIN pc = Calls BY DEF TInv, TapType
<1>1. ASSUME NEW j \in Locals, SubmitLocal(j) PROVE TInv'
  <2>1. j \in Jobs /\ pc' = pc BY <1>1 DEF SubmitLocal, Jobs
  <2>2. CASE Refused(j) BY <1>0, <2>1, <2>2, KeepTInv DEF Refused
  <2>3. CASE TakeHook(j) BY <1>0, <2>1, <2>3, TakeHookTInv
  <2> QED BY <1>1, <2>2, <2>3 DEF SubmitLocal, Submitted
<1>2. ASSUME NEW c \in Calls, SetHook(c) PROVE TInv'
  BY <1>2, SetHookTInv
<1>3. ASSUME NEW c \in Calls, SubmitOK(c) \/ SubmitErr(c) PROVE TInv'
  <2>1. DOMAIN pc' = Calls /\ \A d \in Calls : pc'[d] = "idle" => pc[d] = "idle"
    BY <1>0, <1>3 DEF SubmitOK, SubmitErr
  <2>2. c \in Jobs BY DEF Jobs
  <2>3. CASE Refused(c) BY <2>1, <2>3, KeepTInv DEF Refused
  <2>4. CASE TakeHook(c) BY <2>1, <2>2, <2>4, TakeHookTInv
  <2> QED BY <1>3, <2>3, <2>4 DEF SubmitOK, SubmitErr, Submitted
<1>4. ASSUME NEW c \in Calls, ClearHook(c) PROVE TInv'
  <2>1. /\ hook' = None /\ tap' = tap /\ DOMAIN pc' = Calls
        /\ \A d \in Calls : pc'[d] = "idle" => pc[d] = "idle"
    BY <1>0, <1>4 DEF ClearHook
  <2> QED BY <2>1, KeepTInv
<1>5. ASSUME NEW c \in Calls, Return(c) PROVE TInv'
  <2>1. /\ hook' = hook /\ tap' = tap /\ DOMAIN pc' = Calls
        /\ \A d \in Calls : pc'[d] = "idle" => pc[d] = "idle"
    BY <1>0, <1>5 DEF Return
  <2> QED BY <2>1, KeepTInv
<1>6. CASE UNCHANGED <<hook, tap, pc>> BY <1>0, <1>6, KeepTInv
<1>7. ASSUME NEW c \in Calls, Leave(c) \/ Serve(c) PROVE UNCHANGED <<hook, tap, pc>> \/ Return(c)
  BY <1>7 DEF Leave, Serve, Emit, CloserClose, CloserEnd, WatcherStop, Stop, Forward, ScanEnd
<1>8. ASSUME NEW j \in Jobs, ProcExit(j) \/ Reap(j) \/ OtherStop(j) PROVE UNCHANGED <<hook, tap, pc>>
  BY <1>8 DEF ProcExit, Reap, OtherStop, Stop
<1>9. ASSUME NEW j \in Jobs, NEW p \in Pipes,
             Pass(j, p) \/ Drop(j, p) \/ \E kind \in Kinds : Write(j, p, kind)
      PROVE  UNCHANGED <<hook, tap, pc>>
  BY <1>9 DEF Pass, Drop, Write
<1>10. CASE UNCHANGED vars BY <1>6, <1>10 DEF vars
<1> QED BY <1>1, <1>2, <1>3, <1>4, <1>5, <1>6, <1>7, <1>8, <1>9, <1>10 DEF Next

\* However calls of exec and other submissions interleave, no two jobs are given the
\* same channel: the reaper never sends to a channel that was closed (daemon.go:242).
THEOREM TapAlwaysOnce == Spec => []TapOnce
<1>1. TInv => TapOnce BY DEF TInv
<1> QED BY <1>1, InitTInv, NextTInv, PTL DEF Spec

-----------------------------------------------------------------------------
(* Types.  A job waits once, so that what leaves the queue is in it no more. *)

QueueOnce == \A i, k \in DOMAIN queue : queue[i] = queue[k] => i = k

\* What Cancelled leaves of a queue in which nobody waits twice.
LEMMA CancelledIs ==
    ASSUME NEW q \in Seq(Jobs), \A i, k \in DOMAIN q : q[i] = q[k] => i = k, NEW j
    PROVE  /\ Cancelled(q, j) \in Seq(Jobs)
           /\ \A i, k \in DOMAIN Cancelled(q, j) : Cancelled(q, j)[i] = Cancelled(q, j)[k] => i = k
           /\ \A i \in DOMAIN Cancelled(q, j) :
                 Cancelled(q, j)[i] # j /\ \E k \in DOMAIN q : Cancelled(q, j)[i] = q[k]
<1> DEFINE at == CHOOSE i \in DOMAIN q : q[i] = j
           n == Len(q)
           c == Cancelled(q, j)
<1>1. n \in Nat /\ DOMAIN q = 1 .. n
  OBVIOUS
<1>2. CASE \E i \in DOMAIN q : q[i] = j
  <2>1. at \in 1 .. n /\ q[at] = j
    BY <1>1, <1>2
  <2>2. c = SubSeq(q, 1, at - 1) \o SubSeq(q, at + 1, n)
    BY <1>2 DEF Cancelled
  <2> HIDE DEF at, n
  <2> DEFINE a == SubSeq(q, 1, at - 1)
             b == SubSeq(q, at + 1, n)
  <2>3. a \in Seq(Jobs) /\ Len(a) = at - 1 /\ \A i \in 1 .. at - 1 : a[i] = q[i]
    BY <1>1, <2>1 DEF n
  <2>4. b \in Seq(Jobs) /\ Len(b) = n - at
    <3>1. at \in Int /\ n \in Int /\ at <= n
      BY <1>1, <2>1
    <3>2. b \in Seq(Jobs)
      BY <1>1, <2>1 DEF n
    <3>3. Len(b) = IF at + 1 <= n THEN n - (at + 1) + 1 ELSE 0
      BY <1>1, <2>1 DEF n
    <3> HIDE DEF b
    <3> QED BY <3>1, <3>2, <3>3
  <2>5. ASSUME NEW i \in 1 .. n - at PROVE b[i] = q[at + i]
    <3>1. b[i] = q[at + 1 + i - 1]
      BY <1>1, <2>1 DEF n
    <3>2. at + 1 + i - 1 = at + i
      BY <1>1, <2>1
    <3> QED BY <3>1, <3>2
  <2> HIDE DEF a, b, c
  <2>6. c \in Seq(Jobs) /\ Len(c) = n - 1
    BY <1>1, <2>1, <2>2, <2>3, <2>4 DEF a, b
  <2>7. \A i \in 1 .. n - 1 : c[i] = IF i < at THEN q[i] ELSE q[i + 1]
    BY <1>1, <2>1, <2>2, <2>3, <2>4, <2>5 DEF a, b
  <2>8. DOMAIN c = 1 .. n - 1
    BY <2>6
  <2>9. ASSUME NEW i \in 1 .. n - 1, NEW k \in 1 .. n - 1, c[i] = c[k] PROVE i = k
    <3> DEFINE x == IF i < at THEN i ELSE i + 1
               y == IF k < at THEN k ELSE k + 1
    <3>1. x \in 1 .. n /\ y \in 1 .. n /\ c[i] = q[x] /\ c[k] = q[y]
      BY <1>1, <2>1, <2>7
    <3>2. x = y
      <4> HIDE DEF x, y
      <4> QED BY <1>1, <2>9, <3>1
    <3> QED BY <1>1, <2>1, <3>2
  <2>10. ASSUME NEW i \in 1 .. n - 1 PROVE c[i] # j /\ \E k \in DOMAIN q : c[i] = q[k]
    <3> DEFINE x == IF i < at THEN i ELSE i + 1
    <3>1. x \in 1 .. n /\ x # at /\ c[i] = q[x]
      BY <1>1, <2>1, <2>7
    <3> HIDE DEF x
    <3> QED BY <1>1, <2>1, <3>1
  <2> QED BY <2>6, <2>8, <2>9, <2>10 DEF c
<1>3. CASE ~\E i \in DOMAIN q : q[i] = j
  <2>1. c = q
    BY <1>3 DEF Cancelled
  <2> HIDE DEF c
  <2> QED BY <1>3, <2>1 DEF c
<1> QED BY <1>2, <1>3

\* What becomes of a function of two arguments when one value is changed.
LEMMA Changed ==
    ASSUME NEW A, NEW B, NEW C, NEW f \in [A -> [B -> C]], NEW a \in A, NEW b \in B, NEW v \in C,
           NEW g, g = [f EXCEPT ![a][b] = v]
    PROVE  /\ g \in [A -> [B -> C]] /\ g[a][b] = v
           /\ \A x \in A, y \in B : x # a \/ y # b => g[x][y] = f[x][y]
<1>1. g = [f EXCEPT ![a] = [f[a] EXCEPT ![b] = v]]
  OBVIOUS
<1> DEFINE h == [f[a] EXCEPT ![b] = v]
<1>2. h \in [B -> C] /\ h[b] = v /\ \A y \in B \ {b} : h[y] = f[a][y]
  OBVIOUS
<1>3. g = [f EXCEPT ![a] = h]
  BY <1>1
<1> HIDE DEF h
<1>4. g \in [A -> [B -> C]] /\ g[a] = h /\ \A x \in A \ {a} : g[x] = f[x]
  BY <1>2, <1>3
<1> QED BY <1>2, <1>4

LEMMA InitType == Init => TypeOK /\ QueueOnce
  BY StreamAssumption DEF Init, TypeOK, QueueOnce, Jobs

\* A job that is made or refused was not in the queue.
LEMMA SubmitType ==
    ASSUME TypeOK, QueueOnce, NEW j \in Jobs,
           Refused(j) \/ (\E to \in {"running", "queued", "deleted"} : Submitted(j, to))
    PROVE  /\ hook' \in Calls \cup {None} /\ tap' \in [Jobs -> Calls \cup {None}]
           /\ st' \in [Jobs -> {"none", "queued", "running", "exiting", "exited", "deleted", "refused"}]
           /\ queue' \in Seq(Jobs) /\ (\A i \in DOMAIN queue' : st'[queue'[i]] = "queued") /\ QueueOnce'
<1>1. st[j] = "none" /\ queue \in Seq(Jobs) /\ \A i \in DOMAIN queue : queue[i] # j /\ st[queue[i]] = "queued"
  BY DEF TypeOK, Refused, Submitted
<1>2. CASE Refused(j)
  BY <1>1, <1>2 DEF Refused, TypeOK, QueueOnce
<1>3. ASSUME NEW to \in {"running", "queued", "deleted"}, Submitted(j, to)
      PROVE  /\ hook' \in Calls \cup {None} /\ tap' \in [Jobs -> Calls \cup {None}]
             /\ st' \in [Jobs -> {"none", "queued", "running", "exiting", "exited", "deleted", "refused"}]
             /\ queue' \in Seq(Jobs) /\ (\A i \in DOMAIN queue' : st'[queue'[i]] = "queued") /\ QueueOnce'
  <2>1. hook' \in Calls \cup {None} /\ tap' \in [Jobs -> Calls \cup {None}]
    BY <1>3 DEF Submitted, TakeHook, TypeOK
  <2>2. st' = [st EXCEPT ![j] = to]
    BY <1>3 DEF Submitted
  <2>3. st' \in [Jobs -> {"none", "queued", "running", "exiting", "exited", "deleted", "refused"}]
    BY <2>2 DEF TypeOK
  <2>4. CASE to # "queued"
    <3>1. queue' = queue
      BY <1>3, <2>4 DEF Submitted
    <3> QED BY <1>1, <2>1, <2>2, <2>3, <3>1 DEF QueueOnce, TypeOK
  <2>5. CASE to = "queued"
    <3>1. queue' = Append(queue, j)
      BY <1>3, <2>5 DEF Submitted
    <3>2. /\ queue' \in Seq(Jobs) /\ DOMAIN queue = 1 .. Len(queue) /\ DOMAIN queue' = 1 .. Len(queue) + 1
          /\ queue'[Len(queue) + 1] = j /\ \A i \in DOMAIN queue : queue'[i] = queue[i]
      BY <1>1, <3>1
    <3>3. Len(queue) \in Nat
      BY <1>1
    <3>4. \A i \in DOMAIN queue' : st'[queue'[i]] = "queued"
      <4> SUFFICES ASSUME NEW i \in DOMAIN queue' PROVE st'[queue'[i]] = "queued"
        OBVIOUS
      <4>1. CASE i = Len(queue) + 1
        BY <2>2, <2>5, <3>2, <4>1 DEF TypeOK
      <4>2. CASE i \in DOMAIN queue
        <5>1. queue'[i] = queue[i] /\ queue[i] \in Jobs /\ queue[i] # j /\ st[queue[i]] = "queued"
          BY <1>1, <3>2, <4>2
        <5> QED BY <2>2, <5>1 DEF TypeOK
      <4> QED BY <3>2, <3>3, <4>1, <4>2
    <3>5. QueueOnce'
      BY <1>1, <3>2, <3>3 DEF QueueOnce
    <3> QED BY <2>1, <2>3, <3>2, <3>4, <3>5
  <2> QED BY <2>4, <2>5
<1> QED BY <1>2, <1>3

\* Stop takes a job that waits out of the queue.
LEMMA StopType ==
    ASSUME TypeOK, QueueOnce, NEW j \in Jobs, Stop(j)
    PROVE  /\ st' \in [Jobs -> {"none", "queued", "running", "exiting", "exited", "deleted", "refused"}]
           /\ queue' \in Seq(Jobs) /\ (\A i \in DOMAIN queue' : st'[queue'[i]] = "queued") /\ QueueOnce'
<1>1. queue \in Seq(Jobs) /\ (\A i \in DOMAIN queue : st[queue[i]] = "queued")
      /\ (\A i, k \in DOMAIN queue : queue[i] = queue[k] => i = k)
  BY DEF TypeOK, QueueOnce
<1>2. st' \in [Jobs -> {"none", "queued", "running", "exiting", "exited", "deleted", "refused"}]
      /\ (\A k \in Jobs \ {j} : st'[k] = st[k])
  BY DEF Stop, TypeOK
<1>3. CASE queue' = Cancelled(queue, j)
  <2> DEFINE c == Cancelled(queue, j)
  <2>1. /\ c \in Seq(Jobs) /\ \A i, k \in DOMAIN c : c[i] = c[k] => i = k
        /\ \A i \in DOMAIN c : c[i] # j /\ \E k \in DOMAIN queue : c[i] = queue[k]
    BY <1>1, CancelledIs
  <2> HIDE DEF c
  <2>2. queue' = c
    BY <1>3 DEF c
  <2>3. \A i \in DOMAIN c : st[c[i]] = "queued" /\ c[i] \in Jobs
    BY <1>1, <2>1
  <2> QED BY <1>2, <2>1, <2>2, <2>3 DEF QueueOnce
<1>4. CASE st[j] = "running" /\ queue' = queue
  <2>1. \A i \in DOMAIN queue : queue[i] \in Jobs \ {j}
    BY <1>1, <1>4
  <2> QED BY <1>1, <1>2, <1>4, <2>1 DEF QueueOnce
<1> QED BY <1>3, <1>4 DEF Stop

LEMMA NextType == TypeOK /\ QueueOnce /\ [Next]_vars => TypeOK' /\ QueueOnce'
<1> SUFFICES ASSUME TypeOK, QueueOnce, [Next]_vars PROVE TypeOK' /\ QueueOnce'
  OBVIOUS
<1> USE DEF daemon, handler
<1>1. ASSUME NEW j \in Locals, SubmitLocal(j) PROVE TypeOK' /\ QueueOnce'
  <2>1. j \in Jobs
    BY DEF Jobs
  <2>2. Refused(j) \/ (\E to \in {"running", "queued", "deleted"} : Submitted(j, to))
    BY <1>1 DEF SubmitLocal
  <2> QED BY <1>1, <2>1, <2>2, SubmitType DEF SubmitLocal, TypeOK
<1>2. ASSUME NEW c \in Calls, SubmitOK(c) \/ SubmitErr(c) PROVE TypeOK' /\ QueueOnce'
  <2>1. c \in Jobs
    BY DEF Jobs
  <2>2. Refused(c) \/ (\E to \in {"running", "queued", "deleted"} : Submitted(c, to))
    BY <1>2 DEF SubmitOK, SubmitErr
  <2>3. pc' \in [Calls -> {"idle", "hooked", "failed", "serving", "returned", "refused"}]
        /\ closer' \in [Calls -> {"off", "wait", "drain", "over"}]
        /\ UNCHANGED <<out, wrote, scan, shut, events, sent, done, gone>>
    BY <1>2 DEF SubmitOK, SubmitErr, TypeOK
  <2> QED BY <2>1, <2>2, <2>3, SubmitType DEF TypeOK
<1>3. ASSUME NEW c \in Calls, SetHook(c) PROVE TypeOK' /\ QueueOnce'
  BY <1>3 DEF SetHook, TypeOK, QueueOnce
<1>4. ASSUME NEW c \in Calls, ClearHook(c) PROVE TypeOK' /\ QueueOnce'
  BY <1>4 DEF ClearHook, TypeOK, QueueOnce
<1>5. ASSUME NEW c \in Calls, Leave(c) PROVE TypeOK' /\ QueueOnce'
  BY <1>5 DEF Leave, TypeOK, QueueOnce
<1>6. ASSUME NEW c \in Calls, Emit(c) PROVE TypeOK' /\ QueueOnce'
  BY <1>6, StreamAssumption DEF Emit, TypeOK, QueueOnce
<1>7. ASSUME NEW c \in Calls, Return(c) PROVE TypeOK' /\ QueueOnce'
  BY <1>7 DEF Return, TypeOK, QueueOnce
<1>8. ASSUME NEW c \in Calls, CloserClose(c) \/ CloserEnd(c) PROVE TypeOK' /\ QueueOnce'
  <2>1. UNCHANGED <<daemon, out, wrote, pc, scan, events, sent, done, gone>>
    BY <1>8 DEF CloserClose, CloserEnd
  <2>2. closer' \in [Calls -> {"off", "wait", "drain", "over"}]
    <3>1. closer' = [closer EXCEPT ![c] = "drain"] \/ closer' = [closer EXCEPT ![c] = "over"]
      BY <1>8 DEF CloserClose, CloserEnd
    <3> QED BY <3>1 DEF TypeOK
  <2>3. shut' \in [Calls -> BOOLEAN]
    <3>1. shut' = [shut EXCEPT ![c] = TRUE] \/ shut' = shut
      BY <1>8 DEF CloserClose, CloserEnd
    <3> QED BY <3>1 DEF TypeOK
  <2> QED BY <2>1, <2>2, <2>3 DEF TypeOK, QueueOnce
<1>9. ASSUME NEW j \in Jobs, Stop(j), UNCHANGED <<out, wrote, handler, done, gone>> PROVE TypeOK' /\ QueueOnce'
  BY <1>9, StopType DEF Stop, TypeOK
<1>10. ASSUME NEW c \in Calls, WatcherStop(c) PROVE TypeOK' /\ QueueOnce'
  BY <1>9, <1>10 DEF WatcherStop, Jobs
<1>11. ASSUME NEW c \in Calls, NEW p \in Pipes, Forward(c, p) \/ ScanEnd(c, p) PROVE TypeOK' /\ QueueOnce'
  <2>1. UNCHANGED <<daemon, out, wrote, pc, closer, shut, sent, done, gone>>
    BY <1>11 DEF Forward, ScanEnd
  <2>2. scan' \in [Calls -> [Pipes -> {"scanning", "holding", "over"}]]
    <3>1. scan' = [scan EXCEPT ![c][p] = "scanning"] \/ scan' = [scan EXCEPT ![c][p] = "over"]
      BY <1>11 DEF Forward, ScanEnd
    <3>2. scan \in [Calls -> [Pipes -> {"scanning", "holding", "over"}]]
      BY DEF TypeOK
    <3> QED BY <3>1, <3>2, Changed
  <2>3. events' \in [Calls -> 0 .. Buffer]
    <3>1. events \in [Calls -> 0 .. Buffer] /\ Buffer \in Nat
      BY StreamAssumption DEF TypeOK
    <3> QED BY <1>11, <3>1 DEF Forward, ScanEnd
  <2> QED BY <2>1, <2>2, <2>3 DEF TypeOK, QueueOnce
<1>12. ASSUME NEW j \in Jobs, ProcExit(j) PROVE TypeOK' /\ QueueOnce'
  BY <1>12 DEF ProcExit, TypeOK, QueueOnce
<1>13. ASSUME NEW j \in Jobs, Reap(j) PROVE TypeOK' /\ QueueOnce'
  <2>1. done' \in [Calls -> Jobs \cup {None}]
    BY <1>13 DEF Reap, TypeOK
  <2>2. UNCHANGED <<hook, tap, out, wrote, handler, gone>> /\ st[j] = "exiting"
    BY <1>13 DEF Reap
  <2>3. CASE queue = <<>>
    <3>1. st' = [st EXCEPT ![j] = "exited"] /\ queue' = queue
      BY <1>13, <2>3 DEF Reap
    <3> QED BY <2>1, <2>2, <2>3, <3>1 DEF TypeOK, QueueOnce
  <2>4. CASE queue # <<>>
    <3> DEFINE h == Head(queue)
    <3>1. st' = [st EXCEPT ![j] = "exited", ![h] = "running"] /\ queue' = Tail(queue)
      BY <1>13, <2>4 DEF Reap
    <3>2. queue \in Seq(Jobs) /\ Len(queue) \in Nat /\ Len(queue) # 0 /\ DOMAIN queue = 1 .. Len(queue)
      BY <2>4 DEF TypeOK
    <3>3. /\ h = queue[1] /\ h \in Jobs /\ queue' \in Seq(Jobs) /\ DOMAIN queue' = 1 .. Len(queue) - 1
          /\ \A i \in 1 .. Len(queue) - 1 : queue'[i] = queue[i + 1]
      BY <3>1, <3>2
    <3> HIDE DEF h
    <3>4. st' \in [Jobs -> {"none", "queued", "running", "exiting", "exited", "deleted", "refused"}]
          /\ \A k \in Jobs \ {j, h} : st'[k] = st[k]
      BY <3>1, <3>3 DEF TypeOK
    <3>5. ASSUME NEW i \in 1 .. Len(queue) - 1 PROVE st'[queue'[i]] = "queued"
      <4>1. i + 1 \in DOMAIN queue /\ 1 \in DOMAIN queue /\ i + 1 # 1 /\ queue'[i] = queue[i + 1]
        BY <3>2, <3>3
      <4>2. st[queue[i + 1]] = "queued" /\ queue[i + 1] # h /\ queue[i + 1] # j /\ queue[i + 1] \in Jobs
        <5> DEFINE m == i + 1
        <5>1. m \in DOMAIN queue /\ 1 \in DOMAIN queue /\ m # 1
          BY <4>1
        <5> HIDE DEF m
        <5>2. st[queue[m]] = "queued"
          BY <5>1 DEF TypeOK
        <5>3. queue[m] # queue[1]
          BY <5>1 DEF QueueOnce
        <5>4. queue[m] \in Jobs
          BY <3>2, <5>1
        <5> QED BY <2>2, <3>3, <5>2, <5>3, <5>4 DEF m
      <4> QED BY <3>4, <4>1, <4>2
    <3>6. QueueOnce'
      <4> SUFFICES ASSUME NEW i \in 1 .. Len(queue) - 1, NEW k \in 1 .. Len(queue) - 1, queue'[i] = queue'[k]
                   PROVE  i = k
        BY <3>3 DEF QueueOnce
      <4>1. i + 1 \in DOMAIN queue /\ k + 1 \in DOMAIN queue /\ queue[i + 1] = queue[k + 1]
        BY <3>2, <3>3
      <4>2. i + 1 = k + 1
        BY <4>1 DEF QueueOnce
      <4> QED BY <4>2
    <3> QED BY <2>1, <2>2, <3>3, <3>4, <3>5, <3>6 DEF TypeOK
  <2> QED BY <2>3, <2>4
<1>14. ASSUME NEW j \in Jobs, OtherStop(j) PROVE TypeOK' /\ QueueOnce'
  BY <1>9, <1>14 DEF OtherStop
<1>15. ASSUME NEW j \in Jobs, NEW p \in Pipes, Pass(j, p) PROVE TypeOK' /\ QueueOnce'
  <2>1. tap[j] \in Calls /\ out[j][p] \in Seq(Kinds) /\ out[j][p] # <<>>
        /\ UNCHANGED <<daemon, wrote, pc, closer, shut, events, sent, done, gone>>
    BY <1>15 DEF Pass, TypeOK
  <2>2. scan' \in [Calls -> [Pipes -> {"scanning", "holding", "over"}]]
    <3> DEFINE c == tap[j]
    <3>1. scan' = [scan EXCEPT ![c][p] = "holding"] \/ scan' = [scan EXCEPT ![c][p] = "over"]
      BY <1>15 DEF Pass
    <3>2. c \in Calls /\ scan \in [Calls -> [Pipes -> {"scanning", "holding", "over"}]]
      BY <2>1 DEF TypeOK
    <3> HIDE DEF c
    <3> QED BY <3>1, <3>2
  <2>3. out' \in [Jobs -> [Pipes -> Seq(Kinds)]]
    <3> DEFINE t == Tail(out[j][p])
    <3>1. out' = out \/ out' = [out EXCEPT ![j][p] = t]
      BY <1>15 DEF Pass
    <3>2. t \in Seq(Kinds) /\ out \in [Jobs -> [Pipes -> Seq(Kinds)]]
      BY <2>1 DEF TypeOK
    <3> DEFINE K == Seq(Kinds)
    <3>3. t \in K /\ out \in [Jobs -> [Pipes -> K]]
      BY <3>2
    <3> HIDE DEF t, K
    <3>4. out' \in [Jobs -> [Pipes -> K]]
      BY <3>1, <3>3, Changed
    <3> QED BY <3>4 DEF K
  <2> QED BY <2>1, <2>2, <2>3 DEF TypeOK, QueueOnce
<1>16. ASSUME NEW j \in Jobs, NEW p \in Pipes, Drop(j, p) PROVE TypeOK' /\ QueueOnce'
  <2>1. <<>> \in Seq(Kinds)
    OBVIOUS
  <2> QED BY <1>16, <2>1 DEF Drop, TypeOK, QueueOnce
<1>17. ASSUME NEW j \in Jobs, NEW p \in Pipes, NEW kind \in Kinds, Write(j, p, kind) PROVE TypeOK' /\ QueueOnce'
  <2>1. Append(out[j][p], kind) \in Seq(Kinds)
    BY DEF TypeOK
  <2> QED BY <1>17, <2>1, SMTT(30) DEF Write, TypeOK, QueueOnce
<1>18. CASE UNCHANGED vars
  BY <1>18 DEF vars, TypeOK, QueueOnce
<1> QED BY <1>1, <1>2, <1>3, <1>4, <1>5, <1>6, <1>7, <1>8, <1>10, <1>11, <1>12, <1>13, <1>14, <1>15, <1>16,
           <1>17, <1>18 DEF Next, Serve

\* The channels, the queue and the goroutines of exec (internal/api/remote.go) are always in
\* states the code knows: what waits in the queue is queued, and the channel of events
\* never has more than it can hold.
THEOREM TypeCorrect == Spec => []TypeOK
<1>1. Spec => [](TypeOK /\ QueueOnce)
  BY InitType, NextType, PTL DEF Spec
<1> QED BY <1>1, PTL

-----------------------------------------------------------------------------
(* Lines.  Every line that was written is somewhere, and counted once. *)

\* What has yet to reach the channel of a call, of whose job the copying goroutines have o
\* and whose scanners are s: the lines in o, numbered from 1, and as number 0 that which a
\* scanner holds.
Lines(o, s) ==
    {x \in Pipes \X Nat : IF x[2] = 0 THEN s[x[1]] = "holding" ELSE x[2] <= Len(o[x[1]])}

Pending(j, c) == Lines(out[j], scan[c])

\* Nothing is written or sent before a job has its call's channel, and a call its job.
Unused ==
    /\ \A j \in Jobs : st[j] = "none" => tap[j] = None
    /\ \A j \in Jobs : tap[j] = None => wrote[j] = 0 /\ \A p \in Pipes : out[j][p] = <<>>
    /\ \A c \in Calls : (\A j \in Jobs : tap[j] # c) =>
          sent[c] = 0 /\ events[c] = 0 /\ done[c] = None /\ \A p \in Pipes : scan[c][p] # "holding"

\* A call whose channel was given the code has a job that was reaped, with all of its
\* output passed on.
Reaped ==
    \A c \in Calls, j \in Jobs : done[c] # None /\ tap[j] = c =>
        st[j] = "exited" /\ \A p \in Pipes : out[j][p] = <<>>

\* A call's pipes are closed when the code has come, or when there is no job; the channel
\* of events is closed, and the call returns, after that.
Shutting ==
    \A c \in Calls :
        /\ shut[c] => pc[c] = "refused" \/ done[c] # None
        /\ closer[c] # "off" => pc[c] \in {"serving", "returned"}
        /\ closer[c] \in {"drain", "over"} => done[c] # None
        /\ closer[c] = "over" => \A p \in Pipes : scan[c][p] = "over"
        /\ pc[c] = "returned" => closer[c] = "over" /\ events[c] = 0

\* What was written was sent, or is in the channel, or is pending.
Flow ==
    \A c \in Calls, j \in Jobs : tap[j] = c /\ pc[c] # "refused" =>
        /\ IsFiniteSet(Pending(j, c))
        /\ wrote[j] = sent[c] + events[c] + Cardinality(Pending(j, c))

SInv == TypeOK /\ QueueOnce /\ TInv /\ Unused /\ Reaped /\ Shutting /\ Flow

Outputs == [Pipes -> Seq(Kinds)]
Scanners == [Pipes -> {"scanning", "holding", "over"}]

\* A command writes a line.
LEMMA LineWritten ==
    ASSUME NEW o \in Outputs, NEW s, NEW p \in Pipes, NEW kind \in Kinds, NEW e \in Outputs,
           e[p] = Append(o[p], kind), \A q \in Pipes \ {p} : e[q] = o[q],
           IsFiniteSet(Lines(o, s))
    PROVE  IsFiniteSet(Lines(e, s)) /\ Cardinality(Lines(e, s)) = Cardinality(Lines(o, s)) + 1
<1> DEFINE n == Len(o[p])
           x == <<p, n + 1>>
<1>1. n \in Nat /\ Len(e[p]) = n + 1
  BY DEF Outputs
<1>2. Lines(e, s) = Lines(o, s) \cup {x}
  <2>1. ASSUME NEW q \in Pipes, NEW i \in Nat
        PROVE  <<q, i>> \in Lines(e, s) <=> (<<q, i>> \in Lines(o, s) \/ (q = p /\ i = n + 1))
    <3>1. CASE i = 0
      BY <1>1, <3>1 DEF Lines
    <3>2. CASE i # 0 /\ q # p
      BY <3>2 DEF Lines
    <3>3. CASE i # 0 /\ q = p
      <4>1. (<<q, i>> \in Lines(e, s) <=> i <= n + 1) /\ (<<q, i>> \in Lines(o, s) <=> i <= n)
        BY <1>1, <3>3 DEF Lines
      <4> HIDE DEF n
      <4> QED BY <1>1, <3>3, <4>1
    <3> QED BY <3>1, <3>2, <3>3
  <2> HIDE DEF n
  <2>2. \A y : y \in Lines(e, s) \/ y \in Lines(o, s) \/ y = x => \E q \in Pipes, i \in Nat : y = <<q, i>>
    BY <1>1 DEF Lines
  <2> QED BY <2>1, <2>2
<1>3. x \notin Lines(o, s)
  BY <1>1 DEF Lines
<1> HIDE DEF x
<1> QED BY <1>2, <1>3, FS_AddElement

\* A scanner takes a line from its pipe.
LEMMA LinePassed ==
    ASSUME NEW o \in Outputs, NEW s, NEW p \in Pipes, NEW e \in Outputs, NEW u,
           o[p] # <<>>, e[p] = Tail(o[p]), \A q \in Pipes \ {p} : e[q] = o[q],
           s[p] # "holding", u[p] = "holding", \A q \in Pipes \ {p} : u[q] = s[q],
           IsFiniteSet(Lines(o, s))
    PROVE  IsFiniteSet(Lines(e, u)) /\ Cardinality(Lines(e, u)) = Cardinality(Lines(o, s))
<1> DEFINE n == Len(o[p])
           x == <<p, n>>
           z == <<p, 0>>
<1>1. n \in Nat /\ n > 0 /\ Len(e[p]) = n - 1
  BY DEF Outputs
<1>2. Lines(e, u) = (Lines(o, s) \ {x}) \cup {z}
  <2>1. ASSUME NEW q \in Pipes, NEW i \in Nat
        PROVE  <<q, i>> \in Lines(e, u) <=> (<<q, i>> \in Lines(o, s) /\ ~(q = p /\ i = n)) \/ (q = p /\ i = 0)
    <3>1. CASE q # p
      BY <3>1 DEF Lines
    <3>2. CASE q = p /\ i = 0
      BY <3>2 DEF Lines
    <3>3. CASE q = p /\ i # 0
      <4>1. (<<q, i>> \in Lines(e, u) <=> i <= n - 1) /\ (<<q, i>> \in Lines(o, s) <=> i <= n)
        BY <1>1, <3>3 DEF Lines
      <4> HIDE DEF n
      <4> QED BY <1>1, <3>3, <4>1
    <3> QED BY <3>1, <3>2, <3>3
  <2> HIDE DEF n
  <2>2. \A y : y \in Lines(e, u) \/ y \in Lines(o, s) \/ y = z => \E q \in Pipes, i \in Nat : y = <<q, i>>
    BY DEF Lines
  <2> QED BY <1>1, <2>1, <2>2
<1>3. x \in Lines(o, s) /\ z \notin Lines(o, s) /\ x # z
  BY <1>1 DEF Lines
<1> HIDE DEF x, z
<1>4. IsFiniteSet(Lines(o, s) \ {x}) /\ Cardinality(Lines(o, s) \ {x}) = Cardinality(Lines(o, s)) - 1
  BY <1>3, FS_RemoveElement
<1>5. z \notin Lines(o, s) \ {x}
  BY <1>3
<1>6. Cardinality(Lines(o, s)) \in Nat
  BY FS_CardinalityType
<1> DEFINE L == Lines(o, s) \ {x}
<1> HIDE DEF L
<1>7. IsFiniteSet(L \cup {z}) /\ Cardinality(L \cup {z}) = Cardinality(L) + 1
  BY <1>4, <1>5, FS_AddElement DEF L
<1> QED BY <1>2, <1>4, <1>6, <1>7 DEF L

\* A scanner has sent the line that it held.
LEMMA LineForwarded ==
    ASSUME NEW o \in Outputs, NEW s \in Scanners, NEW p \in Pipes, NEW u \in Scanners,
           s[p] = "holding", u[p] # "holding", \A q \in Pipes \ {p} : u[q] = s[q],
           IsFiniteSet(Lines(o, s))
    PROVE  IsFiniteSet(Lines(o, u)) /\ Cardinality(Lines(o, u)) = Cardinality(Lines(o, s)) - 1
<1> DEFINE z == <<p, 0>>
<1>1. Lines(o, u) = Lines(o, s) \ {z}
  BY DEF Lines
<1>2. z \in Lines(o, s)
  BY DEF Lines
<1> HIDE DEF z
<1> QED BY <1>1, <1>2, FS_RemoveElement

LEMMA InitLines == Init => Unused /\ Reaped /\ Shutting /\ Flow
<1> SUFFICES ASSUME Init PROVE Unused /\ Reaped /\ Shutting /\ Flow
  OBVIOUS
<1>1. \A c \in Calls : c \in Jobs /\ c # None
  BY StreamAssumption DEF Jobs
<1>2. Unused
  BY DEF Init, Unused
<1>3. Reaped /\ Shutting
  BY DEF Init, Reaped, Shutting
<1>4. Flow
  BY <1>1 DEF Init, Flow
<1> QED BY <1>2, <1>3, <1>4

\* A step in which no line moves.
LEMMA FlowKept ==
    ASSUME Flow, UNCHANGED <<tap, out, scan, wrote, sent, events>>,
           \A c \in Calls : pc[c] = "refused" => pc'[c] = "refused"
    PROVE  Flow'
BY DEF Flow, Pending

\* A job is given its call's channel, before either has been used.
LEMMA TakeHookFlow ==
    ASSUME TypeOK, TInv, Unused, Flow, NEW j \in Jobs, st[j] = "none", TakeHook(j),
           UNCHANGED <<out, scan, wrote, sent, events>>,
           \A c \in Calls : pc[c] = "refused" => pc'[c] = "refused"
    PROVE  Flow'
<1> SUFFICES ASSUME NEW c \in Calls, NEW k \in Jobs, tap'[k] = c, pc'[c] # "refused"
             PROVE  /\ IsFiniteSet(Pending(k, c)')
                    /\ wrote'[k] = sent'[c] + events'[c] + Cardinality(Pending(k, c)')
  BY DEF Flow
<1>1. Pending(k, c)' = Pending(k, c) /\ pc[c] # "refused"
  BY DEF Pending
<1>2. CASE k # j
  BY <1>1, <1>2 DEF TakeHook, Flow, TypeOK
<1>3. CASE k = j
  <2>1. hook = c /\ c # None
    BY <1>3, StreamAssumption DEF TakeHook, TypeOK, Jobs
  <2>2. \A i \in Jobs : tap[i] # c
    BY <2>1 DEF TInv, HookFree
  <2>3. sent[c] = 0 /\ events[c] = 0 /\ (\A p \in Pipes : scan[c][p] # "holding")
        /\ wrote[j] = 0 /\ (\A p \in Pipes : out[j][p] = <<>>)
    BY <2>2 DEF Unused
  <2>4. Pending(j, c) = {}
    BY <2>3 DEF Pending, Lines
  <2> QED BY <1>1, <1>3, <2>3, <2>4, FS_EmptySet
<1> QED BY <1>2, <1>3

LEMMA NextFlow ==
    ASSUME TypeOK, TInv, Unused, Reaped, Shutting, Flow, [Next]_vars PROVE Flow'
<1> USE DEF daemon, handler
<1>0. /\ out \in [Jobs -> Outputs] /\ scan \in [Calls -> Scanners] /\ tap \in [Jobs -> Calls \cup {None}]
      /\ wrote \in [Jobs -> Nat] /\ sent \in [Calls -> Nat] /\ events \in [Calls -> Nat]
      /\ DOMAIN pc = Calls /\ None \notin Calls
  <2>1. events \in [Calls -> 0 .. Buffer] /\ Buffer \in Nat /\ None \notin Calls
    BY StreamAssumption DEF TypeOK, Jobs
  <2>2. events \in [Calls -> Nat]
    BY <2>1
  <2> QED BY <2>1, <2>2 DEF TypeOK, Outputs, Scanners
<1>1. ASSUME NEW j \in Jobs, Refused(j) \/ (\E to \in {"running", "queued", "deleted"} : Submitted(j, to)),
             UNCHANGED <<out, wrote, scan, events, sent>>,
             \A c \in Calls : pc[c] = "refused" => pc'[c] = "refused"
      PROVE  Flow'
  <2>1. CASE Refused(j)
    BY <1>1, <2>1, FlowKept DEF Refused
  <2>2. CASE \E to \in {"running", "queued", "deleted"} : Submitted(j, to)
    <3>1. st[j] = "none" /\ TakeHook(j)
      BY <2>2 DEF Submitted
    <3> QED BY <1>1, <3>1, TakeHookFlow
  <2> QED BY <1>1, <2>1, <2>2
<1>2. ASSUME NEW j \in Locals, SubmitLocal(j) PROVE Flow'
  BY <1>1, <1>2 DEF SubmitLocal, Jobs
<1>3. ASSUME NEW c \in Calls, SubmitOK(c) \/ SubmitErr(c) PROVE Flow'
  <2>1. c \in Jobs /\ (\A d \in Calls : pc[d] = "refused" => pc'[d] = "refused")
        /\ (Refused(c) \/ \E to \in {"running", "queued", "deleted"} : Submitted(c, to))
        /\ UNCHANGED <<out, wrote, scan, events, sent>>
    BY <1>0, <1>3 DEF SubmitOK, SubmitErr, Jobs
  <2> QED BY <1>1, <2>1
<1>4. ASSUME NEW c \in Calls, SetHook(c) \/ ClearHook(c) \/ Return(c) PROVE Flow'
  <2>1. UNCHANGED <<tap, out, scan, wrote, sent, events>> /\ \A d \in Calls : pc[d] = "refused" => pc'[d] = "refused"
    BY <1>0, <1>4 DEF SetHook, ClearHook, Return
  <2> QED BY <2>1, FlowKept
<1>5. ASSUME NEW c \in Calls, Leave(c) \/ CloserClose(c) \/ CloserEnd(c) \/ WatcherStop(c) PROVE Flow'
  BY <1>5, FlowKept DEF Leave, CloserClose, CloserEnd, WatcherStop, Stop
<1>6. ASSUME NEW j \in Jobs, ProcExit(j) \/ Reap(j) \/ OtherStop(j) PROVE Flow'
  BY <1>6, FlowKept DEF ProcExit, Reap, OtherStop, Stop
<1>7. ASSUME NEW c \in Calls, Emit(c) PROVE Flow'
  <2> SUFFICES ASSUME NEW d \in Calls, NEW k \in Jobs, tap[k] = d, pc[d] # "refused"
               PROVE  /\ IsFiniteSet(Pending(k, d))
                      /\ wrote[k] = sent'[d] + events'[d] + Cardinality(Pending(k, d))
    BY <1>7 DEF Emit, Flow, Pending
  <2>1. IsFiniteSet(Pending(k, d)) /\ wrote[k] = sent[d] + events[d] + Cardinality(Pending(k, d))
    BY DEF Flow
  <2>2. Cardinality(Pending(k, d)) \in Nat
    BY <2>1, FS_CardinalityType
  <2>3. sent'[d] + events'[d] = sent[d] + events[d] /\ sent'[d] \in Nat /\ events'[d] \in Int
    BY <1>0, <1>7 DEF Emit
  <2> QED BY <1>0, <2>1, <2>2, <2>3
<1>8. ASSUME NEW c \in Calls, NEW p \in Pipes, Forward(c, p) PROVE Flow'
  <2>1. scan[c][p] = "holding" /\ scan' = [scan EXCEPT ![c][p] = "scanning"] /\ events' = [events EXCEPT ![c] = @ + 1]
        /\ UNCHANGED <<tap, out, wrote, sent, pc>>
    BY <1>8 DEF Forward
  <2>2. /\ scan'[c][p] = "scanning" /\ \A d \in Calls, q \in Pipes : d # c \/ q # p => scan'[d][q] = scan[d][q]
    BY <1>0, <2>1, Changed DEF Scanners
  <2> SUFFICES ASSUME NEW d \in Calls, NEW k \in Jobs, tap[k] = d, pc[d] # "refused"
               PROVE  /\ IsFiniteSet(Lines(out[k], scan'[d]))
                      /\ wrote[k] = sent[d] + events'[d] + Cardinality(Lines(out[k], scan'[d]))
    BY <2>1 DEF Flow, Pending
  <2>3. IsFiniteSet(Lines(out[k], scan[d])) /\ wrote[k] = sent[d] + events[d] + Cardinality(Lines(out[k], scan[d]))
    BY DEF Flow, Pending
  <2>4. Cardinality(Lines(out[k], scan[d])) \in Nat
    BY <2>3, FS_CardinalityType
  <2>5. CASE d = c
    <3>1. IsFiniteSet(Lines(out[k], scan'[d])) /\ Cardinality(Lines(out[k], scan'[d])) = Cardinality(Lines(out[k], scan[d])) - 1
      <4> DEFINE o == out[k]
                 s == scan[c]
                 u == scan'[c]
      <4>0. o \in Outputs /\ s \in Scanners /\ u \in Scanners
        BY <1>0, <2>1, Changed DEF Scanners
      <4>1. s[p] = "holding" /\ u[p] # "holding" /\ \A q \in Pipes \ {p} : u[q] = s[q]
        BY <2>1, <2>2
      <4>2. IsFiniteSet(Lines(o, s))
        BY <2>3, <2>5
      <4> HIDE DEF o, s, u
      <4>3. IsFiniteSet(Lines(o, u)) /\ Cardinality(Lines(o, u)) = Cardinality(Lines(o, s)) - 1
        BY <4>0, <4>1, <4>2, LineForwarded
      <4> QED BY <2>5, <4>3 DEF o, s, u
    <3>2. events'[d] = events[d] + 1
      BY <1>0, <2>1, <2>5
    <3> QED BY <1>0, <2>3, <2>4, <3>1, <3>2
  <2>6. CASE d # c
    <3>1. Lines(out[k], scan'[d]) = Lines(out[k], scan[d])
      BY <2>2, <2>6 DEF Lines
    <3>2. events'[d] = events[d]
      BY <1>0, <2>1, <2>6
    <3> QED BY <2>3, <3>1, <3>2
  <2> QED BY <2>5, <2>6
<1>9. ASSUME NEW c \in Calls, NEW p \in Pipes, scan[c][p] # "holding", scan' = [scan EXCEPT ![c][p] = "over"],
             UNCHANGED <<tap, out, wrote, sent, events, pc>>
      PROVE  Flow'
  <2>1. /\ scan'[c][p] = "over" /\ \A d \in Calls, q \in Pipes : d # c \/ q # p => scan'[d][q] = scan[d][q]
    BY <1>0, <1>9, Changed DEF Scanners
  <2>2. \A d \in Calls, q \in Pipes : scan'[d][q] = "holding" <=> scan[d][q] = "holding"
    BY <1>9, <2>1
  <2>3. \A d \in Calls, k \in Jobs : Lines(out[k], scan'[d]) = Lines(out[k], scan[d])
    BY <2>2 DEF Lines
  <2> QED BY <1>9, <2>3 DEF Flow, Pending
<1>10. ASSUME NEW c \in Calls, NEW p \in Pipes, ScanEnd(c, p) PROVE Flow'
  BY <1>9, <1>10 DEF ScanEnd
<1>11. ASSUME NEW j \in Jobs, NEW p \in Pipes, Pass(j, p) PROVE Flow'
  <2> DEFINE c == tap[j]
  <2>1. c \in Calls /\ out[j][p] # <<>> /\ scan[c][p] = "scanning" /\ UNCHANGED <<tap, wrote, sent, events, pc>>
    BY <1>0, <1>11 DEF Pass
  <2>2. CASE out' = out /\ scan' = [scan EXCEPT ![c][p] = "over"]
    BY <1>9, <2>1, <2>2
  <2>3. CASE scan' = [scan EXCEPT ![c][p] = "holding"] /\ out' = [out EXCEPT ![j][p] = Tail(@)]
    <3>1. /\ scan'[c][p] = "holding" /\ \A d \in Calls, q \in Pipes : d # c \/ q # p => scan'[d][q] = scan[d][q]
      <4> HIDE DEF c
      <4> QED BY <1>0, <2>1, <2>3, Changed DEF Scanners
    <3>2. /\ out' \in [Jobs -> Outputs] /\ out'[j][p] = Tail(out[j][p])
          /\ \A i \in Jobs, q \in Pipes : i # j \/ q # p => out'[i][q] = out[i][q]
      <4> DEFINE K == Seq(Kinds)
                 t == Tail(out[j][p])
      <4>1. t \in K /\ out \in [Jobs -> [Pipes -> K]] /\ out' = [out EXCEPT ![j][p] = t]
        BY <1>0, <2>1, <2>3 DEF Outputs
      <4> HIDE DEF K, t
      <4>2. /\ out' \in [Jobs -> [Pipes -> K]] /\ out'[j][p] = t
            /\ \A i \in Jobs, q \in Pipes : i # j \/ q # p => out'[i][q] = out[i][q]
        BY <4>1, Changed
      <4> QED BY <4>2 DEF K, t, Outputs
    <3> SUFFICES ASSUME NEW d \in Calls, NEW k \in Jobs, tap[k] = d, pc[d] # "refused"
                 PROVE  /\ IsFiniteSet(Lines(out'[k], scan'[d]))
                        /\ wrote[k] = sent[d] + events[d] + Cardinality(Lines(out'[k], scan'[d]))
      BY <2>1 DEF Flow, Pending
    <3>3. IsFiniteSet(Lines(out[k], scan[d])) /\ wrote[k] = sent[d] + events[d] + Cardinality(Lines(out[k], scan[d]))
      BY DEF Flow, Pending
    <3>4. CASE k = j
      <4>1. d = c
        BY <3>4
      <4> DEFINE o == out[j]
                 e == out'[j]
                 s == scan[c]
                 u == scan'[c]
      <4>2. o \in Outputs /\ e \in Outputs /\ o[p] # <<>> /\ e[p] = Tail(o[p])
            /\ \A q \in Pipes \ {p} : e[q] = o[q]
        BY <1>0, <2>1, <3>2
      <4>3. s[p] # "holding" /\ u[p] = "holding" /\ \A q \in Pipes \ {p} : u[q] = s[q]
        BY <2>1, <3>1
      <4>4. IsFiniteSet(Lines(o, s))
        BY <3>3, <3>4, <4>1
      <4> HIDE DEF o, e, s, u
      <4>5. IsFiniteSet(Lines(e, u)) /\ Cardinality(Lines(e, u)) = Cardinality(Lines(o, s))
        BY <4>2, <4>3, <4>4, LinePassed
      <4> QED BY <3>3, <3>4, <4>1, <4>5 DEF o, e, s, u
    <3>5. CASE k # j
      <4>1. d # c
        <5>1. tap[k] # None /\ (j # k /\ tap[k] # None => tap[k] # tap[j])
          BY <1>0 DEF TInv, TapOnce
        <5> QED BY <3>5, <5>1
      <4>2. \A q \in Pipes : out'[k][q] = out[k][q] /\ scan'[d][q] = scan[d][q]
        BY <3>1, <3>2, <3>5, <4>1
      <4>3. Lines(out'[k], scan'[d]) = Lines(out[k], scan[d])
        BY <4>2 DEF Lines
      <4> QED BY <3>3, <4>3
    <3> QED BY <3>4, <3>5
  <2> QED BY <1>11, <2>2, <2>3 DEF Pass
<1>12. ASSUME NEW j \in Jobs, NEW p \in Pipes, Drop(j, p) PROVE Flow'
  <2> DEFINE c == tap[j]
  <2>1. c \in Calls /\ out[j][p] # <<>> /\ shut[c] /\ UNCHANGED <<tap, scan, wrote, sent, events, pc>>
    BY <1>0, <1>12 DEF Drop
  <2>2. pc[c] = "refused"
    BY <2>1 DEF Reaped, Shutting
  <2>3. \A i \in Jobs \ {j} : out'[i] = out[i]
    BY <1>0, <1>12 DEF Drop
  <2> QED BY <2>1, <2>2, <2>3 DEF Flow, Pending
<1>13. ASSUME NEW j \in Jobs, NEW p \in Pipes, NEW kind \in Kinds, Write(j, p, kind) PROVE Flow'
  <2>1. UNCHANGED <<tap, scan, sent, events, pc>> /\ wrote' = [wrote EXCEPT ![j] = @ + 1]
        /\ out' = [out EXCEPT ![j][p] = Append(@, kind)]
    BY <1>13 DEF Write
  <2>2. /\ out' \in [Jobs -> Outputs] /\ out'[j][p] = Append(out[j][p], kind)
        /\ \A i \in Jobs, q \in Pipes : i # j \/ q # p => out'[i][q] = out[i][q]
    <3> DEFINE K == Seq(Kinds)
               t == Append(out[j][p], kind)
    <3>1. t \in K /\ out \in [Jobs -> [Pipes -> K]] /\ out' = [out EXCEPT ![j][p] = t]
      BY <1>0, <2>1 DEF Outputs
    <3> HIDE DEF K, t
    <3>2. /\ out' \in [Jobs -> [Pipes -> K]] /\ out'[j][p] = t
          /\ \A i \in Jobs, q \in Pipes : i # j \/ q # p => out'[i][q] = out[i][q]
      BY <3>1, Changed
    <3> QED BY <3>2 DEF K, t, Outputs
  <2> SUFFICES ASSUME NEW d \in Calls, NEW k \in Jobs, tap[k] = d, pc[d] # "refused"
               PROVE  /\ IsFiniteSet(Lines(out'[k], scan[d]))
                      /\ wrote'[k] = sent[d] + events[d] + Cardinality(Lines(out'[k], scan[d]))
    BY <2>1 DEF Flow, Pending
  <2>3. IsFiniteSet(Lines(out[k], scan[d])) /\ wrote[k] = sent[d] + events[d] + Cardinality(Lines(out[k], scan[d]))
    BY DEF Flow, Pending
  <2>4. Cardinality(Lines(out[k], scan[d])) \in Nat
    BY <2>3, FS_CardinalityType
  <2>5. CASE k = j
    <3>1. out[j] \in Outputs /\ out'[j] \in Outputs /\ \A q \in Pipes \ {p} : out'[j][q] = out[j][q]
      BY <1>0, <2>2
    <3>2. IsFiniteSet(Lines(out'[j], scan[d])) /\ Cardinality(Lines(out'[j], scan[d])) = Cardinality(Lines(out[j], scan[d])) + 1
      BY <2>2, <2>3, <2>5, <3>1, LineWritten
    <3>3. wrote'[k] = wrote[k] + 1
      BY <1>0, <2>1, <2>5
    <3> QED BY <1>0, <2>3, <2>4, <2>5, <3>2, <3>3
  <2>6. CASE k # j
    <3>1. Lines(out'[k], scan[d]) = Lines(out[k], scan[d])
      BY <2>2, <2>6 DEF Lines
    <3>2. wrote'[k] = wrote[k]
      BY <1>0, <2>1, <2>6
    <3> QED BY <2>3, <3>1, <3>2
  <2> QED BY <2>5, <2>6
<1>14. CASE UNCHANGED vars
  BY <1>14, FlowKept DEF vars
<1> QED BY <1>2, <1>3, <1>4, <1>5, <1>6, <1>7, <1>8, <1>10, <1>11, <1>12, <1>13, <1>14 DEF Next, Serve

\* A step of a call or a job that was used before, and in which no job is made.
LEMMA UnusedKept ==
    ASSUME Unused, tap' = tap, \A j \in Jobs : st'[j] = "none" => st[j] = "none",
           \A j \in Jobs : tap[j] = None => wrote'[j] = wrote[j] /\ out'[j] = out[j],
           \A c \in Calls : (\A j \in Jobs : tap[j] # c) =>
              /\ sent'[c] = sent[c] /\ events'[c] = events[c] /\ done'[c] = done[c]
              /\ \A p \in Pipes : scan'[c][p] = "holding" => scan[c][p] = "holding"
    PROVE  Unused'
BY DEF Unused

LEMMA NextUnused ==
    ASSUME TypeOK, TInv, Unused, [Next]_vars PROVE Unused'
<1> USE DEF daemon, handler
<1>0. /\ out \in [Jobs -> Outputs] /\ scan \in [Calls -> Scanners] /\ tap \in [Jobs -> Calls \cup {None}]
      /\ wrote \in [Jobs -> Nat] /\ sent \in [Calls -> Nat] /\ DOMAIN events = Calls /\ DOMAIN st = Jobs
      /\ DOMAIN done = Calls
  BY DEF TypeOK, Outputs, Scanners
<1>1. ASSUME NEW j \in Jobs, Refused(j) \/ (\E to \in {"running", "queued", "deleted"} : Submitted(j, to)),
             UNCHANGED <<out, wrote, scan, events, sent, done>>
      PROVE  Unused'
  <2>1. CASE Refused(j)
    <3>1. tap' = tap /\ \A k \in Jobs : st'[k] = "none" => st[k] = "none"
      BY <1>0, <2>1 DEF Refused
    <3> QED BY <1>1, <3>1, UnusedKept
  <2>2. CASE \E to \in {"running", "queued", "deleted"} : Submitted(j, to)
    <3>1. st[j] = "none" /\ tap' = [tap EXCEPT ![j] = hook] /\ tap[j] = None
          /\ \A k \in Jobs : st'[k] = "none" => st[k] = "none" /\ k # j
      BY <1>0, <2>2 DEF Submitted, TakeHook, Unused
    <3>2. \A k \in Jobs : tap[k] = tap'[k] \/ tap[k] = None
      BY <1>0, <3>1
    <3>3. \A k \in Jobs \ {j} : tap'[k] = tap[k]
      BY <1>0, <3>1
    <3>4. \A c \in Calls : (\A k \in Jobs : tap'[k] # c) => (\A k \in Jobs : tap[k] # c)
      BY <3>2, StreamAssumption DEF Jobs
    <3>5. \A k \in Jobs : tap'[k] = None => tap[k] = None
      BY <3>2
    <3> QED BY <1>1, <3>1, <3>3, <3>4, <3>5 DEF Unused
  <2> QED BY <1>1, <2>1, <2>2
<1>2. ASSUME NEW j \in Locals, SubmitLocal(j) PROVE Unused'
  BY <1>1, <1>2 DEF SubmitLocal, Jobs
<1>3. ASSUME NEW c \in Calls, SubmitOK(c) \/ SubmitErr(c) PROVE Unused'
  <2>1. c \in Jobs /\ (Refused(c) \/ \E to \in {"running", "queued", "deleted"} : Submitted(c, to))
        /\ UNCHANGED <<out, wrote, scan, events, sent, done>>
    BY <1>3 DEF SubmitOK, SubmitErr, Jobs
  <2> QED BY <1>1, <2>1
<1>4. ASSUME NEW c \in Calls, SetHook(c) \/ ClearHook(c) \/ Return(c) \/ Leave(c) \/ CloserClose(c) \/ CloserEnd(c)
      PROVE  Unused'
  BY <1>4, UnusedKept DEF SetHook, ClearHook, Return, Leave, CloserClose, CloserEnd
<1>5. ASSUME NEW j \in Jobs, Stop(j), UNCHANGED <<out, wrote, handler, done>> PROVE Unused'
  <2>1. tap' = tap /\ \A k \in Jobs : st'[k] = "none" => st[k] = "none"
    BY <1>0, <1>5 DEF Stop
  <2> QED BY <1>5, <2>1, UnusedKept
<1>6. ASSUME NEW c \in Calls, WatcherStop(c) PROVE Unused'
  BY <1>5, <1>6 DEF WatcherStop, Jobs
<1>7. ASSUME NEW j \in Jobs, OtherStop(j) PROVE Unused'
  BY <1>5, <1>7 DEF OtherStop
<1>8. ASSUME NEW j \in Jobs, ProcExit(j) PROVE Unused'
  <2>1. tap' = tap /\ \A k \in Jobs : st'[k] = "none" => st[k] = "none"
    BY <1>0, <1>8 DEF ProcExit
  <2> QED BY <1>8, <2>1, UnusedKept DEF ProcExit
<1>9. ASSUME NEW j \in Jobs, Reap(j) PROVE Unused'
  <2>1. \A k \in Jobs : st'[k] = "none" => st[k] = "none"
    <3> DEFINE h == Head(queue)
    <3>1. st' = [st EXCEPT ![j] = "exited"] \/ st' = [st EXCEPT ![j] = "exited", ![h] = "running"]
      BY <1>9 DEF Reap
    <3> HIDE DEF h
    <3> QED BY <1>0, <3>1
  <2>2. \A c \in Calls : (\A k \in Jobs : tap[k] # c) => done'[c] = done[c]
    BY <1>0, <1>9 DEF Reap
  <2> QED BY <1>9, <2>1, <2>2, UnusedKept DEF Reap
<1>10. ASSUME NEW c \in Calls, Emit(c) PROVE Unused'
  <2>1. \A d \in Calls : (\A k \in Jobs : tap[k] # d) => d # c
    BY <1>10 DEF Emit, Unused
  <2>2. \A d \in Calls : (\A k \in Jobs : tap[k] # d) => sent'[d] = sent[d] /\ events'[d] = events[d]
    BY <1>0, <1>10, <2>1 DEF Emit
  <2> QED BY <1>10, <2>2, UnusedKept DEF Emit
<1>11. ASSUME NEW c \in Calls, NEW p \in Pipes, Forward(c, p) PROVE Unused'
  <2>1. \A d \in Calls : (\A k \in Jobs : tap[k] # d) => d # c
    BY <1>11 DEF Forward, Unused
  <2>2. \A d \in Calls : d # c => scan'[d] = scan[d] /\ events'[d] = events[d]
    BY <1>0, <1>11 DEF Forward
  <2> QED BY <1>11, <2>1, <2>2, UnusedKept DEF Forward
<1>12. ASSUME NEW c \in Calls, NEW p \in Pipes, ScanEnd(c, p) PROVE Unused'
  <2>1. \A d \in Calls, q \in Pipes : scan'[d][q] = "holding" => scan[d][q] = "holding"
    BY <1>0, <1>12 DEF ScanEnd, Scanners
  <2> QED BY <1>12, <2>1, UnusedKept DEF ScanEnd
<1>13. ASSUME NEW j \in Jobs, NEW p \in Pipes, Pass(j, p) PROVE Unused'
  <2>1. tap[j] \in Calls /\ tap[j] # None
    BY <1>0, <1>13 DEF Pass
  <2>2. \A d \in Calls : d # tap[j] => scan'[d] = scan[d]
    <3> DEFINE c == tap[j]
    <3>1. scan' = [scan EXCEPT ![c][p] = "holding"] \/ scan' = [scan EXCEPT ![c][p] = "over"]
      BY <1>13 DEF Pass
    <3> HIDE DEF c
    <3>2. \A d \in Calls : d # c => scan'[d] = scan[d]
      BY <1>0, <3>1
    <3> QED BY <3>2 DEF c
  <2>3. \A k \in Jobs : tap[k] = None => out'[k] = out[k]
    <3>1. \A k \in Jobs : k # j => out'[k] = out[k]
      BY <1>0, <1>13 DEF Pass
    <3> QED BY <2>1, <3>1
  <2> QED BY <1>13, <2>2, <2>3, UnusedKept DEF Pass
<1>14. ASSUME NEW j \in Jobs, NEW p \in Pipes, Drop(j, p) PROVE Unused'
  <2>1. \A k \in Jobs : tap[k] = None => out'[k] = out[k]
    BY <1>0, <1>14 DEF Drop
  <2> QED BY <1>14, <2>1, UnusedKept DEF Drop
<1>15. ASSUME NEW j \in Jobs, NEW p \in Pipes, NEW kind \in Kinds, Write(j, p, kind) PROVE Unused'
  <2>1. \A k \in Jobs : tap[k] = None => out'[k] = out[k] /\ wrote'[k] = wrote[k]
    BY <1>0, <1>15 DEF Write
  <2> QED BY <1>15, <2>1, UnusedKept DEF Write
<1>16. CASE UNCHANGED vars
  BY <1>16, UnusedKept DEF vars
<1> QED BY <1>2, <1>3, <1>4, <1>6, <1>7, <1>8, <1>9, <1>10, <1>11, <1>12, <1>13, <1>14, <1>15, <1>16 DEF Next, Serve

\* A step that leaves what was reaped and what its commands have written.
LEMMA ReapedKept ==
    ASSUME Reaped, tap' = tap, done' = done,
           \A j \in Jobs : st[j] = "exited" => st'[j] = "exited",
           \A j \in Jobs : (st[j] = "exited" /\ \A p \in Pipes : out[j][p] = <<>>) => out'[j] = out[j]
    PROVE  Reaped'
BY DEF Reaped

LEMMA NextReaped ==
    ASSUME TypeOK, TInv, Unused, Reaped, [Next]_vars PROVE Reaped'
<1> USE DEF daemon, handler
<1>0. /\ out \in [Jobs -> Outputs] /\ tap \in [Jobs -> Calls \cup {None}] /\ DOMAIN st = Jobs
      /\ DOMAIN done = Calls /\ None \notin Jobs /\ None \notin Calls
  BY StreamAssumption DEF TypeOK, Outputs, Jobs
<1>1. ASSUME NEW j \in Jobs, Refused(j) \/ (\E to \in {"running", "queued", "deleted"} : Submitted(j, to)),
             UNCHANGED <<out, done>>
      PROVE  Reaped'
  <2>1. st[j] = "none" /\ \A k \in Jobs : st[k] = "exited" => st'[k] = "exited" /\ k # j
    BY <1>0, <1>1 DEF Refused, Submitted
  <2>2. CASE Refused(j)
    BY <1>1, <2>1, <2>2, ReapedKept DEF Refused
  <2>3. CASE \E to \in {"running", "queued", "deleted"} : Submitted(j, to)
    <3>1. tap' = [tap EXCEPT ![j] = hook]
      BY <2>3 DEF Submitted, TakeHook
    <3>2. ASSUME NEW c \in Calls, hook = c PROVE done[c] = None
      BY <1>0, <3>2 DEF TInv, HookFree, Unused
    <3> QED BY <1>0, <1>1, <2>1, <3>1, <3>2 DEF Reaped
  <2> QED BY <1>1, <2>2, <2>3
<1>2. ASSUME NEW j \in Locals, SubmitLocal(j) PROVE Reaped'
  BY <1>1, <1>2 DEF SubmitLocal, Jobs
<1>3. ASSUME NEW c \in Calls, SubmitOK(c) \/ SubmitErr(c) PROVE Reaped'
  <2>1. c \in Jobs /\ (Refused(c) \/ \E to \in {"running", "queued", "deleted"} : Submitted(c, to))
        /\ UNCHANGED <<out, done>>
    BY <1>3 DEF SubmitOK, SubmitErr, Jobs
  <2> QED BY <1>1, <2>1
<1>4. ASSUME NEW c \in Calls, SetHook(c) \/ ClearHook(c) \/ Return(c) \/ Leave(c) \/ CloserClose(c) \/ CloserEnd(c)
                               \/ Emit(c) \/ \E p \in Pipes : Forward(c, p) \/ ScanEnd(c, p)
      PROVE  Reaped'
  BY <1>4, ReapedKept DEF SetHook, ClearHook, Return, Leave, CloserClose, CloserEnd, Emit, Forward, ScanEnd
<1>5. ASSUME NEW j \in Jobs, Stop(j) \/ ProcExit(j), UNCHANGED <<out, done>> PROVE Reaped'
  <2>1. tap' = tap /\ \A k \in Jobs : st[k] = "exited" => st'[k] = "exited"
    BY <1>0, <1>5 DEF Stop, ProcExit
  <2> QED BY <1>5, <2>1, ReapedKept
<1>6. ASSUME NEW c \in Calls, WatcherStop(c) PROVE Reaped'
  BY <1>5, <1>6 DEF WatcherStop, Jobs
<1>7. ASSUME NEW j \in Jobs, OtherStop(j) \/ ProcExit(j) PROVE Reaped'
  BY <1>5, <1>7 DEF OtherStop, ProcExit
<1>8. ASSUME NEW j \in Jobs, Reap(j) PROVE Reaped'
  <2>1. st'[j] = "exited" /\ \A k \in Jobs : st[k] = "exited" => st'[k] = "exited"
    <3>1. CASE queue = <<>>
      BY <1>0, <1>8, <3>1 DEF Reap
    <3>2. CASE queue # <<>>
      <4> DEFINE h == Head(queue)
      <4>1. h \in Jobs /\ st[h] = "queued"
        BY <3>2 DEF TypeOK
      <4>2. st' = [st EXCEPT ![j] = "exited", ![h] = "running"] /\ st[j] = "exiting"
        BY <1>8, <3>2 DEF Reap
      <4> HIDE DEF h
      <4> QED BY <1>0, <4>1, <4>2
    <3> QED BY <3>1, <3>2
  <2>2. \A c \in Calls : done'[c] = done[c] \/ c = tap[j]
    BY <1>0, <1>8 DEF Reap
  <2>3. ASSUME NEW k \in Jobs, tap[k] = tap[j], tap[j] # None PROVE k = j
    BY <2>3 DEF TInv, TapOnce
  <2>4. (\A p \in Pipes : out[j][p] = <<>>) /\ UNCHANGED <<tap, out>>
    BY <1>8 DEF Reap
  <2> SUFFICES ASSUME NEW c \in Calls, NEW k \in Jobs, done'[c] # None, tap[k] = c
               PROVE  st'[k] = "exited" /\ \A p \in Pipes : out[k][p] = <<>>
    BY <2>4 DEF Reaped
  <2>5. CASE c = tap[j]
    <3>1. k = j
      BY <1>0, <2>3, <2>5
    <3> QED BY <2>1, <2>4, <3>1
  <2>6. CASE c # tap[j]
    BY <2>1, <2>2, <2>6 DEF Reaped
  <2> QED BY <2>5, <2>6
<1>9. ASSUME NEW j \in Jobs, NEW p \in Pipes, Pass(j, p) PROVE Reaped'
  <2>1. out[j][p] # <<>> /\ (\A k \in Jobs : k # j => out'[k] = out[k]) /\ UNCHANGED <<tap, done, st>>
    BY <1>0, <1>9 DEF Pass
  <2> QED BY <2>1, ReapedKept
<1>10. ASSUME NEW j \in Jobs, NEW p \in Pipes, Drop(j, p) PROVE Reaped'
  <2>1. out[j][p] # <<>> /\ (\A k \in Jobs : k # j => out'[k] = out[k]) /\ UNCHANGED <<tap, done, st>>
    BY <1>0, <1>10 DEF Drop
  <2> QED BY <2>1, ReapedKept
<1>11. ASSUME NEW j \in Jobs, NEW p \in Pipes, NEW kind \in Kinds, Write(j, p, kind) PROVE Reaped'
  <2>1. st[j] = "running" /\ (\A k \in Jobs : k # j => out'[k] = out[k]) /\ UNCHANGED <<tap, done, st>>
    BY <1>0, <1>11 DEF Write
  <2> QED BY <2>1, ReapedKept
<1>12. CASE UNCHANGED vars
  BY <1>12, ReapedKept DEF vars
<1> QED BY <1>2, <1>3, <1>4, <1>6, <1>7, <1>8, <1>9, <1>10, <1>11, <1>12 DEF Next, Serve

\* A step that starts or ends no call and closes nothing.
LEMMA ShuttingKept ==
    ASSUME Shutting, UNCHANGED <<pc, closer, scan, shut, events>>, \A c \in Calls : done[c] # None => done'[c] # None
    PROVE  Shutting'
BY DEF Shutting

LEMMA NextShutting == ASSUME TypeOK, Shutting, [Next]_vars PROVE Shutting'
<1> USE DEF daemon, handler
<1>0. /\ scan \in [Calls -> Scanners] /\ tap \in [Jobs -> Calls \cup {None}] /\ DOMAIN pc = Calls
      /\ DOMAIN done = Calls /\ DOMAIN closer = Calls /\ DOMAIN shut = Calls /\ DOMAIN events = Calls
      /\ None \notin Jobs /\ None \notin Calls
  BY StreamAssumption DEF TypeOK, Scanners, Jobs
<1>1. ASSUME NEW j \in Locals, SubmitLocal(j) PROVE Shutting'
  BY <1>1, ShuttingKept DEF SubmitLocal
<1>2. ASSUME NEW c \in Calls, SetHook(c) PROVE Shutting'
  BY <1>0, <1>2 DEF SetHook, Shutting
<1>3. ASSUME NEW c \in Calls, SubmitOK(c) PROVE Shutting'
  BY <1>0, <1>3 DEF SubmitOK, Shutting
<1>4. ASSUME NEW c \in Calls, SubmitErr(c) PROVE Shutting'
  BY <1>0, <1>4 DEF SubmitErr, Shutting
<1>5. ASSUME NEW c \in Calls, ClearHook(c) PROVE Shutting'
  BY <1>0, <1>5 DEF ClearHook, Shutting
<1>6. ASSUME NEW c \in Calls, Leave(c) \/ WatcherStop(c) PROVE Shutting'
  BY <1>6, ShuttingKept DEF Leave, WatcherStop
<1>7. ASSUME NEW c \in Calls, Emit(c) PROVE Shutting'
  BY <1>0, <1>7 DEF Emit, Shutting
<1>8. ASSUME NEW c \in Calls, Return(c) PROVE Shutting'
  BY <1>0, <1>8 DEF Return, Shutting
<1>9. ASSUME NEW c \in Calls, CloserClose(c) PROVE Shutting'
  BY <1>0, <1>9 DEF CloserClose, Shutting
<1>10. ASSUME NEW c \in Calls, CloserEnd(c) PROVE Shutting'
  BY <1>0, <1>10 DEF CloserEnd, Shutting
<1>11. ASSUME NEW c \in Calls, NEW p \in Pipes, scan[c][p] # "over", \A d \in Calls : d # c => scan'[d] = scan[d],
              \A d \in Calls : d # c => events'[d] = events[d],
              UNCHANGED <<pc, closer, shut, done>>
       PROVE  Shutting'
  <2>1. closer[c] # "over" /\ pc[c] # "returned"
    BY <1>11 DEF Shutting
  <2> QED BY <1>11, <2>1 DEF Shutting
<1>12. ASSUME NEW c \in Calls, NEW p \in Pipes, Forward(c, p) PROVE Shutting'
  <2>1. scan[c][p] # "over" /\ \A d \in Calls : d # c => scan'[d] = scan[d] /\ events'[d] = events[d]
    BY <1>0, <1>12 DEF Forward
  <2> QED BY <1>11, <1>12, <2>1 DEF Forward
<1>13. ASSUME NEW c \in Calls, NEW p \in Pipes, ScanEnd(c, p) PROVE Shutting'
  <2>1. scan[c][p] # "over" /\ \A d \in Calls : d # c => scan'[d] = scan[d]
    BY <1>0, <1>13 DEF ScanEnd
  <2> QED BY <1>11, <1>13, <2>1 DEF ScanEnd
<1>14. ASSUME NEW j \in Jobs, NEW p \in Pipes, Pass(j, p) PROVE Shutting'
  <2> DEFINE c == tap[j]
  <2>1. c \in Calls /\ scan[c][p] # "over" /\ UNCHANGED <<pc, closer, shut, done, events>>
        /\ (scan' = [scan EXCEPT ![c][p] = "holding"] \/ scan' = [scan EXCEPT ![c][p] = "over"])
    BY <1>0, <1>14 DEF Pass
  <2> HIDE DEF c
  <2>2. \A d \in Calls : d # c => scan'[d] = scan[d]
    BY <1>0, <2>1
  <2> QED BY <1>11, <2>1, <2>2
<1>15. ASSUME NEW j \in Jobs, ProcExit(j) \/ OtherStop(j) PROVE Shutting'
  BY <1>15, ShuttingKept DEF ProcExit, OtherStop
<1>16. ASSUME NEW j \in Jobs, Reap(j) PROVE Shutting'
  <2>1. \A c \in Calls : done[c] # None => done'[c] # None
    BY <1>0, <1>16 DEF Reap
  <2> QED BY <1>16, <2>1, ShuttingKept DEF Reap
<1>17. ASSUME NEW j \in Jobs, NEW p \in Pipes, Drop(j, p) \/ \E kind \in Kinds : Write(j, p, kind) PROVE Shutting'
  BY <1>17, ShuttingKept DEF Drop, Write
<1>18. CASE UNCHANGED vars
  BY <1>18, ShuttingKept DEF vars
<1> QED BY <1>1, <1>2, <1>3, <1>4, <1>5, <1>6, <1>7, <1>8, <1>9, <1>10, <1>12, <1>13, <1>14, <1>15, <1>16, <1>17,
           <1>18 DEF Next, Serve

\* A call that has returned has nothing pending and nothing in its channel.
LEMMA ReturnedSent == SInv => AllSent
<1> SUFFICES ASSUME SInv, NEW c \in Calls, pc[c] = "returned", NEW j \in Jobs, tap[j] = c
             PROVE  sent[c] = wrote[j]
  BY DEF AllSent
<1>1. done[c] # None /\ events[c] = 0 /\ \A p \in Pipes : scan[c][p] = "over"
  BY DEF SInv, Shutting
<1>2. \A p \in Pipes : out[j][p] = <<>>
  BY <1>1 DEF SInv, Reaped
<1>3. Pending(j, c) = {}
  BY <1>1, <1>2 DEF Pending, Lines
<1>4. wrote[j] = sent[c] + events[c] + Cardinality(Pending(j, c)) /\ sent[c] \in Nat
  BY DEF SInv, Flow, TypeOK
<1> QED BY <1>1, <1>3, <1>4, FS_EmptySet

\* Whatever is written, in whatever order the goroutines of exec run, and whoever stops the
\* job: when the client is sent the exit code (remote.go:226), it was sent every line that
\* the command wrote.
THEOREM AllAlwaysSent == Spec => []AllSent
<1>1. Init => SInv
  BY InitType, InitTInv, InitLines DEF SInv
<1>2. SInv /\ [Next]_vars => SInv'
  <2> SUFFICES ASSUME SInv, [Next]_vars PROVE SInv'
    OBVIOUS
  <2>1. TypeOK /\ QueueOnce /\ TInv /\ Unused /\ Reaped /\ Shutting /\ Flow
    BY DEF SInv
  <2>2. TypeOK' /\ QueueOnce' /\ TInv'
    BY <2>1, NextType, NextTInv
  <2>3. Unused' /\ Reaped' /\ Shutting' /\ Flow'
    BY <2>1, NextUnused, NextReaped, NextShutting, NextFlow
  <2> QED BY <2>2, <2>3 DEF SInv
<1> QED BY <1>1, <1>2, ReturnedSent, PTL DEF Spec

=============================================================================
