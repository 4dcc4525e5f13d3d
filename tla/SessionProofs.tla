---------------------------- MODULE SessionProofs ----------------------------
(***************************************************************************)
(* The properties of a remote run's workspace, proved for any number of      *)
(* files, contents and calls of Apply at a time.                             *)
(*                                                                          *)
(* The argument has four parts, each an invariant of its own: what the       *)
(* client knows of its directory (ClientInv), what the host's records say of *)
(* the workspace (HostInv), what is in its store and on the way there        *)
(* (StoreInv), and how far a run's mirroring has come (MirrorInv).  The      *)
(* client and the last two rest on each other, so one induction has them all. *)
(***************************************************************************)
EXTENDS Session, TLAPS

-----------------------------------------------------------------------------
(* The invariants. *)

\* The shas in f are those of the files of d that are as they were when they were seen,
\* all of them at time t or before.
Seen(f, d, t) ==
    \A p \in DOMAIN f :
        /\ f[p].mtime \in 0 .. t
        /\ p \in DOMAIN d /\ d[p].mtime = f[p].mtime => f[p].sha = d[p].data

\* The files of f were written at time t or before.
Dated(f, t) == \A p \in DOMAIN f : f[p].mtime \in 0 .. t

RunOK(r) ==
    /\ r = [pc |-> r.pc, at |-> r.at, look |-> r.look, man |-> r.man, miss |-> r.miss]
    /\ r.at \in 1 .. N + 1
    /\ DOMAIN r.man \subseteq Paths
    /\ r.pc = "read" => r.at \in Paths

ClientInv ==
    /\ now = [dir |-> now.dir, ws |-> now.ws] /\ now.dir \in Nat /\ now.ws \in Nat
    /\ DOMAIN dir \subseteq Paths /\ Dated(dir, now.dir)
    /\ Seen(cache, dir, now.dir)
    /\ RunOK(run) /\ run.look \in 0 .. now.dir /\ Seen(run.man, dir, now.dir)

CallOK(c) ==
    /\ c = [pc |-> c.pc, at |-> c.at, man |-> c.man, old |-> c.old, new |-> c.new, mine |-> c.mine]
    /\ c.mine \in BOOLEAN
    /\ DOMAIN c.man \subseteq Paths
    /\ c.at \in 1 .. N + 1
    /\ c.pc = "stat" => c.at \in Paths

\* What the records say of the files that are as they were when the records were taken is
\* true: of the saved one, and of the one that each call of Apply read and the one it makes.
Records ==
    /\ Seen(rec, ws, now.ws)
    /\ \A h \in Handlers : Seen(calls[h].old, ws, now.ws) /\ Seen(calls[h].new, ws, now.ws)

\* A blob is what its name says.
BlobsTrue == \A sha \in DOMAIN blobs : blobs[sha] = sha

HostInv ==
    /\ now = [dir |-> now.dir, ws |-> now.ws] /\ now.ws \in Nat
    /\ BlobsTrue
    /\ Dated(ws, now.ws)
    /\ DOMAIN calls = Handlers /\ \A h \in Handlers : CallOK(calls[h])
    /\ raced \in BOOLEAN
    /\ ~raced => Records

\* An upload has a temporary file of its own with what arrived, and it is the run's only
\* while the run waits for it.
PutOK(h) ==
    /\ puts[h] = [sha |-> puts[h].sha, sum |-> puts[h].sum, mine |-> puts[h].mine]
    /\ puts[h].mine \in BOOLEAN
    /\ h \in DOMAIN temp /\ temp[h] = puts[h].sum
    /\ puts[h].mine => run.pc = "sending"

\* The store has what was listed, or the client knows that it has not.
StoreInv ==
    /\ BlobsTrue
    /\ DOMAIN puts \subseteq Handlers
    /\ \A h \in Handlers : h \in DOMAIN puts => PutOK(h)
    /\ \A g, h \in DOMAIN puts : puts[g].mine /\ puts[h].mine => g = h
    /\ run.pc \in {"upload", "sending"} => Shas(run.man) \subseteq run.miss \cup DOMAIN blobs
    /\ \A h \in Handlers : calls[h].pc \in {"files", "stat"} => Shas(calls[h].man) \subseteq DOMAIN blobs

\* man is what d has at the paths before k.
Lists(man, d, k) ==
    /\ DOMAIN man = {p \in DOMAIN d : p < k}
    /\ \A p \in DOMAIN man : man[p].sha = d[p].data

\* The walk has listed the directory as far as it has come.
WalkOK(r, d) ==
    /\ r.pc \in {"walk", "read"} => Lists(r.man, d, r.at)
    /\ r.pc \in {"upload", "sending"} => Lists(r.man, d, N + 1)

\* Apply is done with path q.
Done(c, q) == c.pc = "save" \/ q < c.at \/ (c.pc = "stat" /\ q = c.at)

\* Apply has mirrored the directory d as far as it has come.
ApplyOK(c, d, w) ==
    /\ Lists(c.man, d, N + 1)
    /\ \A q \in DOMAIN c.man : Done(c, q) => q \in DOMAIN w /\ w[q].data = c.man[q].sha
    /\ c.pc = "save" => DOMAIN w \subseteq DOMAIN c.man

SameFiles(w, d) == DOMAIN w = DOMAIN d /\ \A p \in DOMAIN d : w[p].data = d[p].data

MirrorInv ==
    /\ \A h \in Handlers : calls[h].mine => run.pc = "applying"
    /\ \A g, h \in Handlers : calls[g].mine /\ calls[h].mine => g = h
    /\ calm \in BOOLEAN
    /\ calm => WalkOK(run, dir)
    /\ calm /\ ~raced =>
          /\ \A h \in Handlers : calls[h].mine => ApplyOK(calls[h], dir, ws)
          /\ run.pc = "synced" => SameFiles(ws, dir)

-----------------------------------------------------------------------------
(* The client. *)

LEMMA IdleIs ==
    RunOK(Idle) /\ Idle.pc = "idle" /\ Idle.at = 1 /\ Idle.look = 0 /\ Idle.man = <<>>
<1>1. N \in Nat \ {0}
  BY SessionAssumption
<1> QED BY <1>1 DEF RunOK, Idle

LEMMA NothingSeen == ASSUME NEW d, NEW t PROVE Seen(<<>>, d, t)
BY DEF Seen

\* What was seen before stays true when a file is written, which gives it a new time, and
\* when one is removed.
LEMMA SeenLater ==
    ASSUME NEW f, NEW d, NEW t \in Nat, Seen(f, d, t), NEW u \in Nat, t <= u, NEW e,
           \A p \in DOMAIN e : (p \in DOMAIN d /\ e[p] = d[p]) \/ e[p].mtime \notin 0 .. t
    PROVE  Seen(f, e, u)
BY DEF Seen

LEMMA SeenMore ==
    ASSUME NEW f, NEW d, NEW t, Seen(f, d, t), NEW p, NEW sha, NEW m \in 0 .. t,
           p \in DOMAIN d /\ d[p].mtime = m => sha = d[p].data
    PROVE  Seen(Put(f, p, [sha |-> sha, mtime |-> m]), d, t)
<1> DEFINE v == [sha |-> sha, mtime |-> m]
           g == Put(f, p, v)
<1>1. v.sha = sha /\ v.mtime = m
  OBVIOUS
<1> HIDE DEF v
<1>2. DOMAIN g = DOMAIN f \cup {p} /\ g[p] = v /\ \A x \in DOMAIN f \ {p} : g[x] = f[x]
  BY DEF Put
<1> HIDE DEF g
<1>3. Seen(g, d, t)
  BY <1>1, <1>2 DEF Seen
<1> QED BY <1>3 DEF g, v

LEMMA SeenBoth ==
    ASSUME NEW f, NEW g, NEW d, NEW t, Seen(f, d, t), Seen(g, d, t)
    PROVE  Seen(Override(f, g), d, t)
BY DEF Seen, Override

\* A step that leaves the directory alone, and with it what was seen of it.
LEMMA ClientKept ==
    ASSUME ClientInv, dir' = dir, now' = now \/ (\E x \in Nat : now' = [now EXCEPT !.ws = x]),
           Seen(cache', dir, now.dir),
           RunOK(run'), run'.look \in 0 .. now.dir, Seen(run'.man, dir, now.dir)
    PROVE  ClientInv'
<1>1. now'.dir = now.dir /\ now'.ws \in Nat /\ now' = [dir |-> now'.dir, ws |-> now'.ws]
  <2>1. CASE now' = now
    BY <2>1 DEF ClientInv
  <2>2. CASE \E x \in Nat : now' = [now EXCEPT !.ws = x]
    <3>1. PICK x \in Nat : now' = [now EXCEPT !.ws = x]
      BY <2>2
    <3>2. now' = [dir |-> now.dir, ws |-> x]
      BY <3>1 DEF ClientInv
    <3> QED BY <3>2
  <2> QED BY <2>1, <2>2
<1> QED BY <1>1 DEF ClientInv

\* ... and in which the process of the run does not list anything.
LEMMA ClientRuns ==
    ASSUME ClientInv, dir' = dir, now' = now \/ (\E x \in Nat : now' = [now EXCEPT !.ws = x]),
           cache' = cache,
           run' = run \/ run' = Idle
              \/ (\E pc : pc # "read" /\ run' = [run EXCEPT !.pc = pc])
              \/ (\E pc : pc # "read" /\ run' = [Idle EXCEPT !.pc = pc])
              \/ (\E miss : run' = [pc |-> "upload", at |-> run.at, look |-> run.look, man |-> run.man, miss |-> miss])
    PROVE  ClientInv'
<1>1. ASSUME NEW r, RunOK(r), r.look \in 0 .. now.dir, Seen(r.man, dir, now.dir),
             NEW pc, pc # "read", run' = [r EXCEPT !.pc = pc]
      PROVE  RunOK(run') /\ run'.look \in 0 .. now.dir /\ Seen(run'.man, dir, now.dir)
  <2>1. run' = [pc |-> pc, at |-> r.at, look |-> r.look, man |-> r.man, miss |-> r.miss]
    BY <1>1 DEF RunOK
  <2>2. run'.pc = pc /\ run'.at = r.at /\ run'.look = r.look /\ run'.man = r.man
    BY <2>1
  <2> QED BY <1>1, <2>1, <2>2 DEF RunOK
<1>2. ASSUME NEW miss, run' = [pc |-> "upload", at |-> run.at, look |-> run.look, man |-> run.man, miss |-> miss]
      PROVE  RunOK(run') /\ run'.look \in 0 .. now.dir /\ Seen(run'.man, dir, now.dir)
  <2>1. run'.pc = "upload" /\ run'.at = run.at /\ run'.look = run.look /\ run'.man = run.man
    BY <1>2
  <2> QED BY <1>2, <2>1 DEF ClientInv, RunOK
<1>3. RunOK(Idle) /\ Idle.look \in 0 .. now.dir /\ Seen(Idle.man, dir, now.dir)
  <2>1. now.dir \in Nat
    BY DEF ClientInv
  <2>2. 0 \in 0 .. now.dir
    BY <2>1
  <2> QED BY <2>2, IdleIs, NothingSeen
<1>4. RunOK(run') /\ run'.look \in 0 .. now.dir /\ Seen(run'.man, dir, now.dir)
  <2>1. RunOK(run) /\ run.look \in 0 .. now.dir /\ Seen(run.man, dir, now.dir)
    BY DEF ClientInv
  <2> QED BY <1>1, <1>2, <1>3, <2>1
<1>5. Seen(cache', dir, now.dir)
  BY DEF ClientInv
<1> QED BY <1>4, <1>5, ClientKept

\* A step that writes files of the directory, or removes some.
LEMMA ClientWritten ==
    ASSUME ClientInv, now' = now \/ (now.dir < MaxEdits /\ now' = [now EXCEPT !.dir = @ + 1]),
           cache' = cache, run' = run \/ run' = Idle,
           DOMAIN dir' \subseteq Paths,
           \A p \in DOMAIN dir' : \/ p \in DOMAIN dir /\ dir'[p] = dir[p]
                                  \/ dir'[p].mtime = now'.dir /\ now'.dir = now.dir + 1
    PROVE  ClientInv'
<1>1. now.dir \in Nat /\ Dated(dir, now.dir) /\ Seen(cache, dir, now.dir)
      /\ RunOK(run) /\ run.look \in 0 .. now.dir /\ Seen(run.man, dir, now.dir)
  BY DEF ClientInv
<1>2. now' = [dir |-> now'.dir, ws |-> now'.ws] /\ now'.ws \in Nat /\ now'.dir \in {now.dir, now.dir + 1}
  <2>1. CASE now' = now
    BY <2>1 DEF ClientInv
  <2>2. CASE now' = [now EXCEPT !.dir = @ + 1]
    <3>1. now' = [dir |-> now.dir + 1, ws |-> now.ws]
      BY <2>2 DEF ClientInv
    <3>2. now'.dir = now.dir + 1 /\ now'.ws = now.ws
      BY <3>1
    <3> QED BY <3>1, <3>2 DEF ClientInv
  <2> QED BY <2>1, <2>2
<1>3. now'.dir \in Nat /\ now.dir <= now'.dir
  BY <1>1, <1>2
<1>4. Dated(dir', now'.dir)
  BY <1>1, <1>3 DEF Dated
<1>5. \A p \in DOMAIN dir' : (p \in DOMAIN dir /\ dir'[p] = dir[p]) \/ dir'[p].mtime \notin 0 .. now.dir
  BY <1>1
<1>6. ASSUME NEW f, Seen(f, dir, now.dir) PROVE Seen(f, dir', now'.dir)
  BY <1>1, <1>3, <1>5, <1>6, SeenLater
<1>7. RunOK(run') /\ run'.look \in 0 .. now'.dir /\ Seen(run'.man, dir', now'.dir)
  <2>1. CASE run' = run
    BY <1>1, <1>3, <1>6, <2>1
  <2>2. CASE run' = Idle
    BY <1>3, <2>2, IdleIs, NothingSeen
  <2> QED BY <2>1, <2>2
<1> QED BY <1>1, <1>2, <1>3, <1>4, <1>6, <1>7 DEF ClientInv

LEMMA InitClient == Init => ClientInv
<1> SUFFICES ASSUME Init PROVE ClientInv
  OBVIOUS
<1>1. PICK d \in Contents : dir = [p \in Paths |-> [data |-> d, mtime |-> 0]]
  BY DEF Init
<1>2. now.dir = 0 /\ now.ws = 0 /\ now = [dir |-> 0, ws |-> 0] /\ cache = <<>> /\ run = Idle
  BY DEF Init
<1>3. Dated(dir, 0) /\ DOMAIN dir = Paths
  BY <1>1 DEF Dated
<1> QED BY <1>2, <1>3, IdleIs, NothingSeen DEF ClientInv

LEMMA ListedIs ==
    ASSUME ClientInv, run.at \in Paths, NEW sha, NEW mtime \in 0 .. now.dir,
           run.at \in DOMAIN dir /\ dir[run.at].mtime = mtime => sha = dir[run.at].data
    PROVE  LET r == Listed(run.at, sha, mtime)
           IN  /\ r.pc = "walk" /\ r.at = run.at + 1 /\ r.look = 0
               /\ r.man = Put(run.man, run.at, [sha |-> sha, mtime |-> mtime])
               /\ RunOK(r) /\ Seen(r.man, dir, now.dir)
<1> DEFINE r == Listed(run.at, sha, mtime)
           m == Put(run.man, run.at, [sha |-> sha, mtime |-> mtime])
<1>1. Seen(m, dir, now.dir)
  BY SeenMore DEF ClientInv
<1> HIDE DEF m
<1>2. r = [pc |-> "walk", at |-> run.at + 1, look |-> 0, man |-> m, miss |-> run.miss]
  <2>1. r = [run EXCEPT !.pc = "walk", !.look = 0, !.at = run.at + 1, !.man = m]
    BY DEF Listed, m
  <2>2. run = [pc |-> run.pc, at |-> run.at, look |-> run.look, man |-> run.man, miss |-> run.miss]
    BY DEF ClientInv, RunOK
  <2> HIDE DEF r
  <2> QED BY <2>1, <2>2
<1> HIDE DEF r
<1>3. r.pc = "walk" /\ r.at = run.at + 1 /\ r.look = 0 /\ r.man = m /\ r.miss = run.miss
  BY <1>2
<1>4. run.at + 1 \in 1 .. N + 1
  BY SessionAssumption DEF Paths
<1>5. DOMAIN m = DOMAIN run.man \cup {run.at}
  BY DEF m, Put
<1>6. DOMAIN m \subseteq Paths
  BY <1>5 DEF ClientInv, RunOK
<1>7. RunOK(r)
  BY <1>2, <1>3, <1>4, <1>6 DEF RunOK
<1> QED BY <1>1, <1>3, <1>7 DEF r, m

LEMMA NextClient == ClientInv /\ [Next]_vars => ClientInv'
<1> SUFFICES ASSUME ClientInv, [Next]_vars PROVE ClientInv'
  OBVIOUS
<1>0. /\ now.dir \in Nat /\ Seen(cache, dir, now.dir) /\ RunOK(run) /\ 0 \in 0 .. now.dir
      /\ run.look \in 0 .. now.dir /\ Seen(run.man, dir, now.dir)
      /\ Dated(dir, now.dir) /\ N \in Nat \ {0} /\ DOMAIN dir \subseteq Paths
  BY SessionAssumption DEF ClientInv
<1>1. CASE Begin
  BY <1>1, ClientRuns DEF Begin, client
<1>2. CASE Look
  <2> DEFINE p == run.at
  <2>1. p \in Paths /\ UNCHANGED now /\ UNCHANGED dir /\ UNCHANGED cache /\ run.pc = "walk"
    BY <1>2 DEF Look, client
  <2>2. p \notin DOMAIN dir => run' = [run EXCEPT !.at = p + 1]
    BY <1>2 DEF Look
  <2>3. p \in DOMAIN dir /\ Known(p) => run' = Listed(p, cache[p].sha, cache[p].mtime)
    BY <1>2 DEF Look
  <2>4. p \in DOMAIN dir /\ ~Known(p) => run' = [run EXCEPT !.pc = "read", !.look = dir[p].mtime]
    BY <1>2 DEF Look
  <2>5. CASE p \notin DOMAIN dir
    <3>1. run' = [pc |-> run.pc, at |-> p + 1, look |-> run.look, man |-> run.man, miss |-> run.miss]
      BY <1>0, <2>5, <2>2 DEF RunOK
    <3>2. run'.pc = "walk" /\ run'.at = p + 1 /\ run'.look = run.look /\ run'.man = run.man
      BY <2>1, <3>1
    <3>3. p + 1 \in 1 .. N + 1
      BY <1>0, <2>1 DEF Paths
    <3>4. RunOK(run')
      BY <1>0, <3>1, <3>2, <3>3 DEF RunOK
    <3> QED BY <1>0, <2>1, <3>2, <3>4, ClientKept
  <2>6. CASE p \in DOMAIN dir /\ Known(p)
    <3> DEFINE sha == cache[p].sha
               mtime == cache[p].mtime
    <3>1. mtime \in 0 .. now.dir /\ (run.at \in DOMAIN dir /\ dir[run.at].mtime = mtime => sha = dir[run.at].data)
      BY <1>0, <2>6 DEF Known, Seen
    <3>2. run' = Listed(run.at, sha, mtime)
      BY <2>6, <2>3
    <3> HIDE DEF sha, mtime
    <3>3. RunOK(run') /\ run'.look = 0 /\ Seen(run'.man, dir, now.dir)
      BY <2>1, <3>1, <3>2, ListedIs
    <3> QED BY <1>0, <2>1, <3>3, ClientKept
  <2>7. CASE p \in DOMAIN dir /\ ~Known(p)
    <3> DEFINE m == dir[p].mtime
    <3>1. m \in 0 .. now.dir
      BY <1>0, <2>7 DEF Dated
    <3> HIDE DEF m
    <3>2. run' = [pc |-> "read", at |-> p, look |-> m, man |-> run.man, miss |-> run.miss]
      <4>1. run' = [run EXCEPT !.pc = "read", !.look = m]
        BY <2>7, <2>4 DEF m
      <4> QED BY <1>0, <4>1 DEF RunOK
    <3>3. run'.pc = "read" /\ run'.at = p /\ run'.look = m /\ run'.man = run.man
      BY <3>2
    <3>4. RunOK(run')
      BY <1>0, <2>1, <3>2, <3>3 DEF RunOK
    <3> QED BY <1>0, <2>1, <3>1, <3>3, <3>4, ClientKept
  <2> QED BY <2>5, <2>6, <2>7
<1>3. CASE Read
  <2>1. run.pc = "read" /\ UNCHANGED now /\ UNCHANGED dir /\ run.at \in Paths
    BY <1>0, <1>3 DEF Read, RunOK
  <2>2. CASE run.at \in DOMAIN dir
    <3> DEFINE sha == dir[run.at].data
               mtime == run.look
    <3>1. run' = Listed(run.at, sha, mtime) /\ cache' = cache
      BY <1>3, <2>2 DEF Read
    <3>2. mtime \in 0 .. now.dir /\ sha = dir[run.at].data
      BY <1>0
    <3> HIDE DEF sha, mtime
    <3>3. RunOK(run') /\ run'.look = 0 /\ Seen(run'.man, dir, now.dir)
      BY <2>1, <3>1, <3>2, ListedIs
    <3> QED BY <1>0, <2>1, <3>1, <3>3, ClientKept
  <2>3. CASE run.at \notin DOMAIN dir
    <3>1. run' = Idle /\ cache' = Override(cache, run.man)
      BY <1>3, <2>3 DEF Read, Saved
    <3>2. Seen(cache', dir, now.dir)
      BY <1>0, <3>1, SeenBoth
    <3> QED BY <1>0, <2>1, <3>1, <3>2, IdleIs, NothingSeen, ClientKept
  <2> QED BY <2>2, <2>3
<1>4. CASE Missing
  <2> DEFINE x == Shas(run.man) \ DOMAIN blobs
  <2>1. /\ UNCHANGED now /\ UNCHANGED dir /\ cache' = Override(cache, run.man)
        /\ run' = [run EXCEPT !.pc = "upload", !.at = 1, !.miss = x]
    BY <1>4 DEF Missing, Saved
  <2> HIDE DEF x
  <2>2. run' = [pc |-> "upload", at |-> 1, look |-> run.look, man |-> run.man, miss |-> x]
    BY <1>0, <2>1 DEF RunOK
  <2>3. run'.pc = "upload" /\ run'.at = 1 /\ run'.look = run.look /\ run'.man = run.man
    BY <2>2
  <2>4. RunOK(run')
    BY <1>0, <2>2, <2>3 DEF RunOK
  <2>5. Seen(cache', dir, now.dir)
    BY <1>0, <2>1, SeenBoth
  <2> QED BY <1>0, <2>1, <2>3, <2>4, <2>5, ClientKept
<1>5. ASSUME NEW sha, NEW h, Upload(sha, h) \/ PutBlobFrom(h) \/ PutBlobFails(h) PROVE ClientInv'
  <2>1. CASE Upload(sha, h)
    BY <2>1, ClientRuns DEF Upload, client
  <2>2. CASE PutBlobFrom(h) \/ PutBlobFails(h)
    <3>1. UNCHANGED dir /\ UNCHANGED cache /\ UNCHANGED now
          /\ (run' = run \/ run' = Idle \/ \E miss : run' = [run EXCEPT !.pc = "upload", !.miss = miss])
      BY <2>2 DEF PutBlobFrom, PutBlobFails, Uploaded, client
    <3>2. ASSUME NEW miss, run' = [run EXCEPT !.pc = "upload", !.miss = miss]
          PROVE  run' = [pc |-> "upload", at |-> run.at, look |-> run.look, man |-> run.man, miss |-> miss]
      BY <1>0, <3>2 DEF RunOK
    <3> QED BY <3>1, <3>2, ClientRuns
  <2> QED BY <1>5, <2>1, <2>2
<1>6. ASSUME NEW h \in Handlers, Apply(h) PROVE ClientInv'
  BY <1>6, ClientRuns DEF Apply, client
<1>7. ASSUME NEW h \in Handlers, FileSkip(h) \/ FileStat(h) \/ Prune(h) PROVE ClientInv'
  BY <1>7, ClientRuns DEF FileSkip, FileStat, Prune, client
<1>8. ASSUME NEW h \in Handlers, FileCopy(h) PROVE ClientInv'
  <2>1. UNCHANGED dir /\ UNCHANGED cache /\ (run' = run \/ run' = Idle)
        /\ (now' = now \/ now' = [now EXCEPT !.ws = now.ws + 1])
    BY <1>8 DEF FileCopy, Answer, client, WriteTime
  <2>2. now.ws + 1 \in Nat
    BY DEF ClientInv
  <2> QED BY <2>1, <2>2, ClientRuns
<1>9. ASSUME NEW h \in Handlers, ApplyEnd(h) PROVE ClientInv'
  BY <1>9, ClientRuns DEF ApplyEnd, Answer, client
<1>10. ASSUME NEW p \in Paths, NEW data, JobWrite(p, data) PROVE ClientInv'
  <2>1. UNCHANGED dir /\ UNCHANGED cache /\ run' = run
        /\ (now' = now \/ now' = [now EXCEPT !.ws = now.ws + 1])
    BY <1>10 DEF JobWrite, client, WriteTime
  <2>2. now.ws + 1 \in Nat
    BY DEF ClientInv
  <2> QED BY <2>1, <2>2, ClientRuns
<1>11. ASSUME NEW p \in Paths, NEW data, Edit(p, data) PROVE ClientInv'
  <2>1. cache' = cache /\ run' = run
    BY <1>11 DEF Edit
  <2>2. CASE EditTime /\ dir' = Put(dir, p, [data |-> data, mtime |-> now'.dir])
    <3>1. now' = [now EXCEPT !.dir = @ + 1] /\ now.dir < MaxEdits
      BY <2>2 DEF EditTime
    <3>2. now' = [dir |-> now.dir + 1, ws |-> now.ws]
      BY <3>1 DEF ClientInv
    <3>3. now'.dir = now.dir + 1
      BY <3>2
    <3> DEFINE v == [data |-> data, mtime |-> now'.dir]
    <3>4. v.mtime = now'.dir
      OBVIOUS
    <3> HIDE DEF v
    <3>5. DOMAIN dir' = DOMAIN dir \cup {p} /\ dir'[p] = v /\ \A x \in DOMAIN dir \ {p} : dir'[x] = dir[x]
      BY <2>2 DEF Put, v
    <3>6. DOMAIN dir' \subseteq Paths
      BY <1>0, <3>5
    <3>7. \A x \in DOMAIN dir' : \/ x \in DOMAIN dir /\ dir'[x] = dir[x]
                                 \/ dir'[x].mtime = now'.dir /\ now'.dir = now.dir + 1
      BY <3>3, <3>4, <3>5
    <3> QED BY <2>1, <3>1, <3>6, <3>7, ClientWritten
  <2>3. CASE UNCHANGED now /\ dir' = Keep(dir, Paths \ {p})
    <3>1. DOMAIN dir' \subseteq DOMAIN dir /\ \A x \in DOMAIN dir' : dir'[x] = dir[x]
      BY <2>3 DEF Keep
    <3> QED BY <1>0, <2>1, <2>3, <3>1, ClientWritten
  <2> QED BY <1>11, <2>2, <2>3 DEF Edit
<1>12. ASSUME NEW globs \in SUBSET Paths, Pull(globs) PROVE ClientInv'
  <2> DEFINE got == Fetch(globs)
             new == [p \in DOMAIN got |-> [data |-> got[p].data, mtime |-> now'.dir]]
  <2>1. /\ IF DOMAIN got = {} THEN now' = now ELSE EditTime
        /\ dir' = Override(dir, new) /\ run' = Idle /\ cache' = cache
    BY <1>12 DEF Pull
  <2>2. DOMAIN got \subseteq Paths
    BY DEF Fetch, Keep
  <2> HIDE DEF got
  <2>3. DOMAIN new = DOMAIN got /\ \A x \in DOMAIN got : new[x].mtime = now'.dir
    OBVIOUS
  <2> HIDE DEF new
  <2>4. /\ DOMAIN dir' = DOMAIN dir \cup DOMAIN got
        /\ \A x \in DOMAIN dir' : IF x \in DOMAIN got THEN dir'[x] = new[x] ELSE dir'[x] = dir[x]
    BY <2>1, <2>3 DEF Override
  <2>5. DOMAIN dir' \subseteq Paths
    BY <1>0, <2>2, <2>4
  <2>6. CASE DOMAIN got = {}
    <3>1. now' = now /\ \A x \in DOMAIN dir' : x \in DOMAIN dir /\ dir'[x] = dir[x]
      BY <2>1, <2>4, <2>6
    <3> QED BY <2>1, <2>5, <3>1, ClientWritten
  <2>7. CASE DOMAIN got # {}
    <3>1. now' = [now EXCEPT !.dir = @ + 1] /\ now.dir < MaxEdits
      BY <2>1, <2>7 DEF EditTime
    <3>2. now' = [dir |-> now.dir + 1, ws |-> now.ws]
      BY <3>1 DEF ClientInv
    <3>3. now'.dir = now.dir + 1
      BY <3>2
    <3>4. \A x \in DOMAIN dir' : \/ x \in DOMAIN dir /\ dir'[x] = dir[x]
                                 \/ dir'[x].mtime = now'.dir /\ now'.dir = now.dir + 1
      BY <2>3, <2>4, <3>3
    <3> QED BY <2>1, <2>5, <3>1, <3>4, ClientWritten
  <2> QED BY <2>6, <2>7
<1>13. CASE Delete \/ Exec \/ JobEnd \/ Interrupt \/ Crash
  BY <1>13, ClientRuns DEF Delete, Exec, JobEnd, Interrupt, Gone, Crash, client
<1>14. CASE UNCHANGED vars
  BY <1>14, ClientRuns DEF vars, client
<1> QED BY <1>1, <1>2, <1>3, <1>4, <1>5, <1>6, <1>7, <1>8, <1>9, <1>10, <1>11, <1>12, <1>13, <1>14
        DEF Next

LEMMA SpecClient == Spec => []ClientInv
BY InitClient, NextClient, PTL DEF Spec

\* The client never takes a file's sha from the cache when the file has another content
\* (Sync in internal/remote/client.go with hashcache.go), however files are written between
\* the look, the read and the save.
THEOREM CacheAlwaysTrue == Spec => []CacheTrue
<1>1. ClientInv => CacheTrue
  BY DEF ClientInv, Seen, CacheTrue
<1> QED BY <1>1, SpecClient, PTL

-----------------------------------------------------------------------------
(* The host. *)

LEMMA FreeIs ==
    /\ CallOK(Free) /\ Free.pc = "free" /\ Free.at = 1 /\ Free.man = <<>>
    /\ Free.old = <<>> /\ Free.new = <<>> /\ Free.mine = FALSE
<1>1. N \in Nat \ {0}
  BY SessionAssumption
<1>2. Free = [pc |-> "free", at |-> 1, man |-> <<>>, old |-> <<>>, new |-> <<>>, mine |-> FALSE]
  BY DEF Free
<1>3. /\ Free.pc = "free" /\ Free.at = 1 /\ Free.man = <<>>
      /\ Free.old = <<>> /\ Free.new = <<>> /\ Free.mine = FALSE
  BY <1>2
<1> QED BY <1>1, <1>2, <1>3 DEF CallOK

\* A call of Apply is what its fields are.
LEMMA CallShape ==
    ASSUME NEW c, c = [pc |-> c.pc, at |-> c.at, man |-> c.man, old |-> c.old, new |-> c.new, mine |-> c.mine],
           NEW d, DOMAIN d = DOMAIN c, d = [x \in DOMAIN d |-> d[x]]
    PROVE  d = [pc |-> d.pc, at |-> d.at, man |-> d.man, old |-> d.old, new |-> d.new, mine |-> d.mine]
<1>1. DOMAIN c = {"pc", "at", "man", "old", "new", "mine"}
  OBVIOUS
<1> QED BY <1>1

LEMMA SeenTaken ==
    ASSUME NEW f, NEW g, NEW d, NEW t, Seen(f, d, t), Seen(g, d, t), NEW p \in DOMAIN g
    PROVE  Seen(Put(f, p, g[p]), d, t)
BY DEF Seen, Put

\* A step in which files of the workspace are removed, or written at a new time.
LEMMA HostKept ==
    ASSUME HostInv,
           now' = [dir |-> now'.dir, ws |-> now'.ws], now'.ws \in {now.ws, now.ws + 1},
           BlobsTrue', raced' \in BOOLEAN, raced => raced',
           \A p \in DOMAIN ws' : \/ p \in DOMAIN ws /\ ws'[p] = ws[p]
                                 \/ ws'[p].mtime = now'.ws /\ now'.ws = now.ws + 1,
           DOMAIN calls' = Handlers, \A h \in Handlers : CallOK(calls'[h]),
           ~raced' => /\ Seen(rec', ws, now.ws)
                      /\ \A h \in Handlers : Seen(calls'[h].old, ws, now.ws) /\ Seen(calls'[h].new, ws, now.ws)
    PROVE  HostInv'
<1>1. now.ws \in Nat /\ Dated(ws, now.ws)
  BY DEF HostInv
<1>2. now'.ws \in Nat /\ now.ws <= now'.ws
  BY <1>1
<1>3. Dated(ws', now'.ws)
  BY <1>1, <1>2 DEF Dated
<1>4. \A p \in DOMAIN ws' : (p \in DOMAIN ws /\ ws'[p] = ws[p]) \/ ws'[p].mtime \notin 0 .. now.ws
  BY <1>1
<1>5. ASSUME NEW f, Seen(f, ws, now.ws) PROVE Seen(f, ws', now'.ws)
  BY <1>1, <1>2, <1>4, <1>5, SeenLater
<1>6. ~raced' => Records'
  BY <1>5 DEF Records
<1> QED BY <1>2, <1>3, <1>6 DEF HostInv

\* What becomes of the clocks.
LEMMA Clocks ==
    ASSUME HostInv, now' = now \/ EditTime \/ WriteTime
    PROVE  /\ now' = [dir |-> now'.dir, ws |-> now'.ws]
           /\ now'.ws = IF now' # now /\ WriteTime THEN now.ws + 1 ELSE now.ws
<1>1. CASE now' = now
  BY <1>1 DEF HostInv
<1>2. CASE EditTime /\ ~WriteTime
  <2>1. now' = [dir |-> now.dir + 1, ws |-> now.ws]
    BY <1>2 DEF HostInv, EditTime
  <2>2. now'.dir = now.dir + 1 /\ now'.ws = now.ws
    BY <2>1
  <2> QED BY <1>2, <2>1, <2>2
<1>3. CASE WriteTime
  <2>1. now' = [dir |-> now.dir, ws |-> now.ws + 1]
    BY <1>3 DEF HostInv, WriteTime
  <2>2. now'.dir = now.dir /\ now'.ws = now.ws + 1 /\ now.ws # now.ws + 1
    BY <2>1 DEF HostInv
  <2> QED BY <1>3, <2>1, <2>2
<1> QED BY <1>1, <1>2, <1>3

\* A step of one call of Apply, which has become c.
LEMMA HostCall ==
    ASSUME HostInv, NEW h \in Handlers, NEW c, CallOK(c), calls' = [calls EXCEPT ![h] = c],
           now' = now \/ WriteTime, blobs' = blobs, raced' \in BOOLEAN, raced => raced',
           \A p \in DOMAIN ws' : \/ p \in DOMAIN ws /\ ws'[p] = ws[p]
                                 \/ ws'[p].mtime = now'.ws /\ WriteTime,
           ~raced' => Seen(rec', ws, now.ws) /\ Seen(c.old, ws, now.ws) /\ Seen(c.new, ws, now.ws)
    PROVE  HostInv'
<1>1. now' = [dir |-> now'.dir, ws |-> now'.ws] /\ now'.ws \in {now.ws, now.ws + 1}
  BY Clocks
<1>2. WriteTime => now'.ws = now.ws + 1
  <2> SUFFICES ASSUME WriteTime PROVE now'.ws = now.ws + 1
    OBVIOUS
  <2>1. now' = [dir |-> now.dir, ws |-> now.ws + 1]
    BY DEF HostInv, WriteTime
  <2> QED BY <2>1
<1>3. BlobsTrue'
  BY DEF HostInv, BlobsTrue
<1>4. DOMAIN calls' = Handlers /\ calls'[h] = c /\ \A g \in Handlers \ {h} : calls'[g] = calls[g]
  BY DEF HostInv
<1>5. \A g \in Handlers : CallOK(calls'[g])
  BY <1>4 DEF HostInv
<1>6. ~raced' => /\ Seen(rec', ws, now.ws)
                 /\ \A g \in Handlers : Seen(calls'[g].old, ws, now.ws) /\ Seen(calls'[g].new, ws, now.ws)
  BY <1>4 DEF HostInv, Records
<1>7. \A p \in DOMAIN ws' : \/ p \in DOMAIN ws /\ ws'[p] = ws[p]
                            \/ ws'[p].mtime = now'.ws /\ now'.ws = now.ws + 1
  BY <1>2
<1> QED BY <1>1, <1>3, <1>4, <1>5, <1>6, <1>7, HostKept

\* A step in which the calls of Apply do nothing, or lose their client.
LEMMA HostElse ==
    ASSUME HostInv, now' = now \/ EditTime \/ WriteTime, BlobsTrue', raced' = raced,
           calls' = calls \/ calls' = Abandoned(calls),
           \A p \in DOMAIN ws' : \/ p \in DOMAIN ws /\ ws'[p] = ws[p]
                                 \/ ws'[p].mtime = now'.ws /\ WriteTime,
           rec' = rec \/ rec' = <<>>
    PROVE  HostInv'
<1>1. now' = [dir |-> now'.dir, ws |-> now'.ws] /\ now'.ws \in {now.ws, now.ws + 1}
  BY Clocks
<1>2. WriteTime => now'.ws = now.ws + 1
  <2> SUFFICES ASSUME WriteTime PROVE now'.ws = now.ws + 1
    OBVIOUS
  <2>1. now' = [dir |-> now.dir, ws |-> now.ws + 1]
    BY DEF HostInv, WriteTime
  <2> QED BY <2>1
<1>3. DOMAIN calls' = Handlers
  BY DEF HostInv, Abandoned
<1>4. ASSUME NEW h \in Handlers
      PROVE  CallOK(calls'[h]) /\ calls'[h].old = calls[h].old /\ calls'[h].new = calls[h].new
  <2>1. CallOK(calls[h])
    BY DEF HostInv
  <2>2. CASE calls' = calls
    BY <2>1, <2>2
  <2>3. CASE calls' = Abandoned(calls)
    <3> DEFINE c == calls[h]
    <3>1. calls'[h] = [c EXCEPT !.mine = FALSE]
      BY <2>3 DEF Abandoned, HostInv
    <3>2. CallOK(c)
      BY <2>1
    <3> HIDE DEF c
    <3>3. calls'[h] = [pc |-> c.pc, at |-> c.at, man |-> c.man, old |-> c.old, new |-> c.new, mine |-> FALSE]
      BY <3>1, <3>2 DEF CallOK
    <3>4. /\ calls'[h].pc = c.pc /\ calls'[h].at = c.at /\ calls'[h].man = c.man
          /\ calls'[h].old = c.old /\ calls'[h].new = c.new /\ calls'[h].mine = FALSE
      BY <3>3
    <3>5. CallOK(calls'[h])
      BY <3>2, <3>3, <3>4 DEF CallOK
    <3> QED BY <3>4, <3>5 DEF c
  <2> QED BY <2>2, <2>3
<1>5. ~raced' => /\ Seen(rec', ws, now.ws)
                 /\ \A g \in Handlers : Seen(calls'[g].old, ws, now.ws) /\ Seen(calls'[g].new, ws, now.ws)
  BY <1>4, NothingSeen DEF HostInv, Records
<1>6. raced' \in BOOLEAN
  BY DEF HostInv
<1>7. \A p \in DOMAIN ws' : \/ p \in DOMAIN ws /\ ws'[p] = ws[p]
                            \/ ws'[p].mtime = now'.ws /\ now'.ws = now.ws + 1
  BY <1>2
<1> QED BY <1>1, <1>3, <1>4, <1>5, <1>6, <1>7, HostKept

LEMMA InitHost == Init => HostInv
<1> SUFFICES ASSUME Init PROVE HostInv
  OBVIOUS
<1>1. now = [dir |-> 0, ws |-> 0] /\ now.ws = 0 /\ now.dir = 0
  BY DEF Init
<1>2. blobs = <<>> /\ ws = <<>> /\ rec = <<>> /\ raced = FALSE
  BY DEF Init
<1>3. DOMAIN calls = Handlers /\ \A h \in Handlers : calls[h] = Free
  BY DEF Init
<1>4. BlobsTrue /\ Dated(ws, now.ws)
  BY <1>2 DEF BlobsTrue, Dated
<1>5. Records
  BY <1>2, <1>3, FreeIs, NothingSeen DEF Records
<1> QED BY <1>1, <1>2, <1>3, <1>4, <1>5, FreeIs DEF HostInv

\* The record as it may be found tells the truth too.
LEMMA FoundSeen ==
    ASSUME HostInv, ~raced, NEW f \in Found
    PROVE  Seen(f, ws, now.ws)
BY NothingSeen DEF HostInv, Records, Found

LEMMA ApplyHost ==
    ASSUME ClientInv, HostInv, NEW h \in Handlers, Apply(h) PROVE HostInv'
<1>1. PICK old \in Found :
         calls' = [calls EXCEPT ![h] = [Free EXCEPT !.pc = "files", !.man = run.man, !.old = old, !.mine = TRUE]]
  BY DEF Apply
<1> DEFINE c == [Free EXCEPT !.pc = "files", !.man = run.man, !.old = old, !.mine = TRUE]
<1>2. c.pc = "files" /\ c.at = Free.at /\ c.man = run.man /\ c.old = old /\ c.new = Free.new /\ c.mine = TRUE
  BY FreeIs DEF CallOK
<1>3. calls' = [calls EXCEPT ![h] = c] /\ DOMAIN c = DOMAIN Free /\ c = [x \in DOMAIN c |-> c[x]]
  BY <1>1
<1> HIDE DEF c
<1>4. c = [pc |-> c.pc, at |-> c.at, man |-> c.man, old |-> c.old, new |-> c.new, mine |-> c.mine]
  BY <1>3, FreeIs, CallShape DEF CallOK
<1>5. DOMAIN run.man \subseteq Paths /\ 1 \in 1 .. N + 1
  BY SessionAssumption DEF ClientInv, RunOK
<1>6. CallOK(c)
  BY <1>2, <1>4, <1>5, FreeIs DEF CallOK
<1>7. now' = now /\ blobs' = blobs /\ ws' = ws /\ rec' = rec /\ raced' = raced
  BY DEF Apply
<1>8. raced \in BOOLEAN /\ (~raced => Seen(rec, ws, now.ws))
  BY DEF HostInv, Records
<1>9. ~raced => Seen(c.old, ws, now.ws) /\ Seen(c.new, ws, now.ws)
  BY <1>2, FreeIs, FoundSeen, NothingSeen
<1> QED BY <1>3, <1>6, <1>7, <1>8, <1>9, HostCall

LEMMA FileSkipHost ==
    ASSUME HostInv, NEW h \in Handlers, FileSkip(h) PROVE HostInv'
<1> DEFINE c == calls[h]
           p == c.at
           new == IF p \in DOMAIN c.man THEN Put(c.new, p, c.old[p]) ELSE c.new
           d == [c EXCEPT !.at = p + 1, !.new = new]
<1>1. /\ c.pc = "files" /\ p \in Paths
      /\ p \in DOMAIN c.man => p \in DOMAIN c.old
      /\ now' = now /\ blobs' = blobs /\ ws' = ws /\ rec' = rec /\ raced' = raced
  BY DEF FileSkip, host, Unchanged
<1>2. calls' = [calls EXCEPT ![h] = d]
  BY DEF FileSkip, HostInv
<1>3. CallOK(c) /\ N \in Nat
  BY SessionAssumption DEF HostInv
<1>4. ~raced => Seen(rec, ws, now.ws) /\ Seen(c.old, ws, now.ws) /\ Seen(c.new, ws, now.ws)
  BY DEF HostInv, Records
<1>5. ~raced => Seen(new, ws, now.ws)
  BY <1>1, <1>4, SeenTaken
<1> HIDE DEF c, new
<1>6. DOMAIN d = DOMAIN c /\ d = [x \in DOMAIN d |-> d[x]]
  OBVIOUS
<1>7. d.pc = c.pc /\ d.at = p + 1 /\ d.man = c.man /\ d.old = c.old /\ d.new = new /\ d.mine = c.mine
  BY <1>3 DEF CallOK
<1> HIDE DEF d
<1>8. d = [pc |-> d.pc, at |-> d.at, man |-> d.man, old |-> d.old, new |-> d.new, mine |-> d.mine]
  BY <1>3, <1>6, CallShape DEF CallOK
<1>9. p + 1 \in 1 .. N + 1
  BY <1>1, <1>3 DEF Paths
<1>10. CallOK(d)
  BY <1>1, <1>3, <1>7, <1>9, <1>8 DEF CallOK
<1>11. raced \in BOOLEAN
  BY DEF HostInv
<1> QED BY <1>1, <1>2, <1>4, <1>5, <1>7, <1>10, <1>11, HostCall

LEMMA FileCopyHost ==
    ASSUME HostInv, NEW h \in Handlers, FileCopy(h) PROVE HostInv'
<1> DEFINE c == calls[h]
           p == c.at
<1>1. c.pc = "files" /\ p \in DOMAIN c.man /\ blobs' = blobs /\ rec' = rec /\ raced' = raced
  BY DEF FileCopy
<1>2. CallOK(c) /\ N \in Nat /\ raced \in BOOLEAN
  BY SessionAssumption DEF HostInv
<1>3. ~raced => Seen(rec, ws, now.ws) /\ Seen(c.old, ws, now.ws) /\ Seen(c.new, ws, now.ws)
  BY DEF HostInv, Records
<1>4. CASE c.man[p].sha \notin DOMAIN blobs
  <2>1. calls' = [calls EXCEPT ![h] = Free] /\ now' = now /\ ws' = ws
    BY <1>4 DEF FileCopy
  <2> QED BY <1>1, <1>2, <1>3, <2>1, FreeIs, NothingSeen, HostCall
<1>5. CASE c.man[p].sha \in DOMAIN blobs
  <2> DEFINE d == [c EXCEPT !.pc = "stat"]
             v == [data |-> blobs[c.man[p].sha], mtime |-> now'.ws]
  <2>1. WriteTime /\ ws' = Put(ws, p, v) /\ calls' = [calls EXCEPT ![h] = d]
    BY <1>5 DEF FileCopy, Copied, HostInv
  <2>2. v.mtime = now'.ws
    OBVIOUS
  <2> HIDE DEF v
  <2>3. \A q \in DOMAIN ws' : \/ q \in DOMAIN ws /\ ws'[q] = ws[q]
                              \/ ws'[q].mtime = now'.ws /\ WriteTime
    BY <2>1, <2>2 DEF Put
  <2> HIDE DEF c
  <2>4. d = [pc |-> "stat", at |-> c.at, man |-> c.man, old |-> c.old, new |-> c.new, mine |-> c.mine]
    BY <1>2 DEF CallOK
  <2> HIDE DEF d
  <2>5. /\ d.pc = "stat" /\ d.at = c.at /\ d.man = c.man /\ d.old = c.old /\ d.new = c.new /\ d.mine = c.mine
    BY <2>4
  <2>6. CallOK(d)
    BY <1>1, <1>2, <2>4, <2>5 DEF CallOK
  <2> QED BY <1>1, <1>2, <1>3, <2>1, <2>3, <2>5, <2>6, HostCall
<1> QED BY <1>4, <1>5

LEMMA FileStatHost ==
    ASSUME HostInv, NEW h \in Handlers, FileStat(h) PROVE HostInv'
<1> DEFINE c == calls[h]
           p == c.at
           sha == c.man[p].sha
           m == ws[p].mtime
           new == IF p \in DOMAIN ws THEN Put(c.new, p, [sha |-> sha, mtime |-> m]) ELSE c.new
           d == [c EXCEPT !.pc = "files", !.at = p + 1, !.new = new]
<1>1. c.pc = "stat" /\ now' = now /\ blobs' = blobs /\ ws' = ws /\ rec' = rec
  BY DEF FileStat, host
<1>2. calls' = [calls EXCEPT ![h] = d]
  BY DEF FileStat, HostInv
<1>3. raced' = (raced \/ (p \in DOMAIN ws /\ ws[p].data # sha))
  BY DEF FileStat
<1>4. raced \in BOOLEAN /\ CallOK(c) /\ N \in Nat /\ p \in Paths
  BY <1>1, SessionAssumption DEF HostInv, CallOK
<1>5. ~raced => Seen(rec, ws, now.ws) /\ Seen(c.old, ws, now.ws) /\ Seen(c.new, ws, now.ws)
  BY DEF HostInv, Records
<1>6. p \in DOMAIN ws => m \in 0 .. now.ws
  BY DEF HostInv, Dated
<1>7. ~raced' => Seen(new, ws, now.ws)
  <2> SUFFICES ASSUME ~raced' PROVE Seen(new, ws, now.ws)
    OBVIOUS
  <2>1. CASE p \notin DOMAIN ws
    BY <1>3, <1>5, <2>1
  <2>2. CASE p \in DOMAIN ws
    <3>1. sha = ws[p].data /\ m \in 0 .. now.ws /\ Seen(c.new, ws, now.ws)
      BY <1>3, <1>5, <1>6, <2>2
    <3>2. new = Put(c.new, p, [sha |-> sha, mtime |-> m])
      BY <2>2
    <3> HIDE DEF new, sha, m, c
    <3> QED BY <3>1, <3>2, SeenMore
  <2> QED BY <2>1, <2>2
<1> HIDE DEF c, new, sha, m
<1>8. DOMAIN d = DOMAIN c /\ d = [x \in DOMAIN d |-> d[x]]
  OBVIOUS
<1>9. d.pc = "files" /\ d.at = p + 1 /\ d.man = c.man /\ d.old = c.old /\ d.new = new /\ d.mine = c.mine
  BY <1>4 DEF CallOK
<1> HIDE DEF d
<1>10. d = [pc |-> d.pc, at |-> d.at, man |-> d.man, old |-> d.old, new |-> d.new, mine |-> d.mine]
  BY <1>4, <1>8, CallShape DEF CallOK
<1>11. p + 1 \in 1 .. N + 1
  BY <1>4 DEF Paths
<1>12. CallOK(d)
  BY <1>4, <1>9, <1>11, <1>10 DEF CallOK
<1>13. raced' \in BOOLEAN /\ (raced => raced')
  BY <1>3, <1>4
<1> QED BY <1>1, <1>2, <1>5, <1>7, <1>9, <1>12, <1>13, HostCall

LEMMA PruneHost ==
    ASSUME HostInv, NEW h \in Handlers, Prune(h) PROVE HostInv'
<1> DEFINE c == calls[h]
           d == [c EXCEPT !.pc = "save", !.old = <<>>]
<1>1. now' = now /\ blobs' = blobs /\ rec' = rec /\ raced' = raced
      /\ ws' = Keep(ws, DOMAIN c.man) /\ calls' = [calls EXCEPT ![h] = d]
  BY DEF Prune, Pruned, HostInv
<1>2. CallOK(c) /\ raced \in BOOLEAN
      /\ (~raced => Seen(rec, ws, now.ws) /\ Seen(c.new, ws, now.ws))
  BY DEF HostInv, Records
<1> HIDE DEF c
<1>3. DOMAIN d = DOMAIN c /\ d = [x \in DOMAIN d |-> d[x]]
  OBVIOUS
<1>4. d.pc = "save" /\ d.at = c.at /\ d.man = c.man /\ d.old = <<>> /\ d.new = c.new /\ d.mine = c.mine
  BY <1>2 DEF CallOK
<1> HIDE DEF d
<1>5. d = [pc |-> d.pc, at |-> d.at, man |-> d.man, old |-> d.old, new |-> d.new, mine |-> d.mine]
  BY <1>2, <1>3, CallShape DEF CallOK
<1>6. CallOK(d)
  BY <1>2, <1>4, <1>5 DEF CallOK
<1>7. \A q \in DOMAIN ws' : q \in DOMAIN ws /\ ws'[q] = ws[q]
  BY <1>1 DEF Keep
<1> QED BY <1>1, <1>2, <1>4, <1>6, <1>7, NothingSeen, HostCall

LEMMA ApplyEndHost ==
    ASSUME HostInv, NEW h \in Handlers, ApplyEnd(h) PROVE HostInv'
<1>1. now' = now /\ blobs' = blobs /\ ws' = ws /\ raced' = raced /\ rec' \in {rec, calls[h].new, <<>>}
      /\ calls' = [calls EXCEPT ![h] = Free]
  BY DEF ApplyEnd
<1>2. raced \in BOOLEAN /\ (~raced => Seen(rec, ws, now.ws) /\ Seen(calls[h].new, ws, now.ws))
  BY DEF HostInv, Records
<1> QED BY <1>1, <1>2, FreeIs, NothingSeen, HostCall

LEMMA CrashHost ==
    ASSUME HostInv, Crash PROVE HostInv'
<1>1. now' = now /\ blobs' = blobs /\ ws' = ws /\ raced' = raced /\ rec' \in Found
      /\ DOMAIN calls' = Handlers /\ \A h \in Handlers : calls'[h] = Free
  BY DEF Crash
<1>2. raced \in BOOLEAN /\ BlobsTrue' /\ now = [dir |-> now.dir, ws |-> now.ws]
  BY <1>1 DEF HostInv, BlobsTrue
<1>3. ~raced => Seen(rec', ws, now.ws)
  BY <1>1, FoundSeen
<1>4. \A h \in Handlers : CallOK(calls'[h]) /\ Seen(calls'[h].old, ws, now.ws) /\ Seen(calls'[h].new, ws, now.ws)
  BY <1>1, FreeIs, NothingSeen
<1> QED BY <1>1, <1>2, <1>3, <1>4, HostKept

LEMMA NextHost == ClientInv /\ HostInv /\ StoreInv' /\ [Next]_vars => HostInv'
<1> SUFFICES ASSUME ClientInv, HostInv, StoreInv', [Next]_vars PROVE HostInv'
  OBVIOUS
<1>0. BlobsTrue'
  BY DEF StoreInv
<1>1. CASE Begin \/ Look \/ Read \/ Missing \/ Exec \/ JobEnd \/ Interrupt \/ UNCHANGED vars
  <2>1. now' = now /\ blobs' = blobs /\ ws' = ws /\ rec' = rec /\ raced' = raced
        /\ (calls' = calls \/ calls' = Abandoned(calls))
    BY <1>1 DEF Begin, Look, Read, Missing, Exec, JobEnd, Interrupt, Gone, host, vars
  <2> QED BY <1>0, <2>1, HostElse
<1>2. ASSUME NEW sha, NEW h, Upload(sha, h) \/ PutBlobFrom(h) \/ PutBlobFails(h) PROVE HostInv'
  <2>1. now' = now /\ ws' = ws /\ rec' = rec /\ raced' = raced /\ calls' = calls
    BY <1>2 DEF Upload, PutBlobFrom, PutBlobFails, host
  <2> QED BY <1>0, <2>1, HostElse
<1>3. ASSUME NEW p, NEW data, JobWrite(p, data) PROVE HostInv'
  <2>1. blobs' = blobs /\ rec' = rec /\ raced' = raced /\ calls' = calls
    BY <1>3 DEF JobWrite
  <2>2. CASE WriteTime /\ ws' = Put(ws, p, [data |-> data, mtime |-> now'.ws])
    <3> DEFINE v == [data |-> data, mtime |-> now'.ws]
    <3>1. v.mtime = now'.ws /\ ws' = Put(ws, p, v)
      BY <2>2
    <3> HIDE DEF v
    <3>2. \A q \in DOMAIN ws' : \/ q \in DOMAIN ws /\ ws'[q] = ws[q]
                                \/ ws'[q].mtime = now'.ws /\ WriteTime
      BY <2>2, <3>1 DEF Put
    <3> QED BY <1>0, <2>1, <2>2, <3>2, HostElse
  <2>3. CASE now' = now /\ ws' = Keep(ws, Paths \ {p})
    <3>1. \A q \in DOMAIN ws' : q \in DOMAIN ws /\ ws'[q] = ws[q]
      BY <2>3 DEF Keep
    <3> QED BY <1>0, <2>1, <2>3, <3>1, HostElse
  <2> QED BY <1>3, <2>2, <2>3 DEF JobWrite
<1>4. ASSUME NEW p, NEW data, Edit(p, data) PROVE HostInv'
  <2>1. (now' = now \/ EditTime) /\ blobs' = blobs /\ ws' = ws /\ rec' = rec /\ raced' = raced /\ calls' = calls
    BY <1>4 DEF Edit, host
  <2> QED BY <1>0, <2>1, HostElse
<1>5. ASSUME NEW globs, Pull(globs) PROVE HostInv'
  <2>1. (now' = now \/ EditTime) /\ blobs' = blobs /\ ws' = ws /\ rec' = rec /\ raced' = raced /\ calls' = calls
    BY <1>5 DEF Pull, host
  <2> QED BY <1>0, <2>1, HostElse
<1>6. CASE Delete
  <2>1. now' = now /\ blobs' = blobs /\ ws' = <<>> /\ rec' = <<>> /\ raced' = raced /\ calls' = calls
    BY <1>6 DEF Delete
  <2> QED BY <1>0, <2>1, HostElse
<1> QED BY <1>1, <1>2, <1>3, <1>4, <1>5, <1>6, ApplyHost, FileSkipHost, FileCopyHost, FileStatHost,
           PruneHost, ApplyEndHost, CrashHost DEF Next

-----------------------------------------------------------------------------
(* The store. *)

\* A step that leaves the store and the uploads alone.  The run goes on, or it does not wait
\* for an upload; a call of Apply goes on, or its manifest is in the store.
LEMMA StoreKept ==
    ASSUME StoreInv, blobs' = blobs, puts' = puts, temp' = temp,
           \/ run' = run
           \/ /\ run.pc # "sending"
              /\ run'.pc \in {"upload", "sending"} => Shas(run'.man) \subseteq run'.miss \cup DOMAIN blobs,
           \A h \in Handlers : calls'[h].pc \in {"files", "stat"} =>
               \/ calls[h].pc \in {"files", "stat"} /\ calls'[h].man = calls[h].man
               \/ Shas(calls'[h].man) \subseteq DOMAIN blobs
    PROVE  StoreInv'
<1>1. BlobsTrue' /\ DOMAIN puts' \subseteq Handlers
      /\ \A g, h \in DOMAIN puts' : puts'[g].mine /\ puts'[h].mine => g = h
  BY DEF StoreInv, BlobsTrue
<1>2. ASSUME NEW h \in Handlers, h \in DOMAIN puts' PROVE PutOK(h)'
  BY <1>2 DEF StoreInv, PutOK
<1>3. run'.pc \in {"upload", "sending"} => Shas(run'.man) \subseteq run'.miss \cup DOMAIN blobs'
  BY DEF StoreInv
<1>4. ASSUME NEW h \in Handlers, calls'[h].pc \in {"files", "stat"}
      PROVE  Shas(calls'[h].man) \subseteq DOMAIN blobs'
  <2>1. CASE calls[h].pc \in {"files", "stat"} /\ calls'[h].man = calls[h].man
    BY <2>1 DEF StoreInv, Shas
  <2> QED BY <1>4, <2>1
<1>5. \A h \in Handlers : calls'[h].pc \in {"files", "stat"} => Shas(calls[h].man)' \subseteq DOMAIN blobs'
  BY <1>4 DEF Shas
<1>6. run'.pc \in {"upload", "sending"} => Shas(run.man)' \subseteq run'.miss \cup DOMAIN blobs'
  BY <1>3 DEF Shas
<1> QED BY <1>1, <1>2, <1>5, <1>6 DEF StoreInv

\* A step of the uploads: the store keeps what it has, the calls of Apply do nothing.
LEMMA StoreMoves ==
    ASSUME StoreInv, BlobsTrue', DOMAIN blobs \subseteq DOMAIN blobs', calls' = calls,
           DOMAIN puts' \subseteq Handlers,
           \A h \in Handlers : h \in DOMAIN puts' => PutOK(h)',
           \A g, h \in DOMAIN puts' : puts'[g].mine /\ puts'[h].mine => g = h,
           run'.pc \in {"upload", "sending"} =>
               /\ run.pc \in {"upload", "sending"} /\ run'.man = run.man
               /\ run.miss \subseteq run'.miss \cup DOMAIN blobs'
    PROVE  StoreInv'
<1>1. run'.pc \in {"upload", "sending"} => Shas(run.man)' \subseteq run'.miss \cup DOMAIN blobs'
  BY DEF StoreInv, Shas
<1>2. \A h \in Handlers : calls'[h].pc \in {"files", "stat"} => Shas(calls[h].man)' \subseteq DOMAIN blobs'
  BY DEF StoreInv, Shas
<1> QED BY <1>1, <1>2 DEF StoreInv

LEMMA InitStore == Init => StoreInv
<1> SUFFICES ASSUME Init PROVE StoreInv
  OBVIOUS
<1>1. blobs = <<>> /\ puts = <<>> /\ run.pc = "idle" /\ \A h \in Handlers : calls[h].pc = "free"
  BY IdleIs, FreeIs DEF Init
<1> QED BY <1>1 DEF StoreInv, BlobsTrue

LEMMA UploadStore ==
    ASSUME ClientInv, StoreInv, NEW sha, NEW h \in Handlers, Upload(sha, h) PROVE StoreInv'
<1>1. run.pc = "upload" /\ h \notin DOMAIN puts /\ blobs' = blobs /\ calls' = calls /\ RunOK(run)
  BY DEF Upload, Serving, host, ClientInv
<1>2. CASE run' = Idle /\ UNCHANGED uploads
  BY <1>1, <1>2, IdleIs, StoreKept DEF uploads
<1>3. ASSUME NEW data, run' = [run EXCEPT !.pc = "sending"],
             puts' = Put(puts, h, [sha |-> sha, sum |-> data, mine |-> TRUE]),
             temp' = Put(temp, h, data)
      PROVE  StoreInv'
  <2> DEFINE v == [sha |-> sha, sum |-> data, mine |-> TRUE]
  <2>1. v.sha = sha /\ v.sum = data /\ v.mine = TRUE /\ v = [sha |-> v.sha, sum |-> v.sum, mine |-> v.mine]
    OBVIOUS
  <2>2. puts' = Put(puts, h, v)
    BY <1>3
  <2> HIDE DEF v
  <2>3. DOMAIN puts' = DOMAIN puts \cup {h} /\ puts'[h] = v /\ \A g \in DOMAIN puts : puts'[g] = puts[g]
    BY <1>1, <2>2 DEF Put
  <2>4. DOMAIN temp' = DOMAIN temp \cup {h} /\ temp'[h] = data /\ \A g \in DOMAIN temp : g # h => temp'[g] = temp[g]
    BY <1>3 DEF Put
  <2>5. run'.pc = "sending" /\ run'.man = run.man /\ run'.miss = run.miss
    BY <1>1, <1>3 DEF RunOK
  <2>6. \A g \in DOMAIN puts : puts[g].mine = FALSE /\ g \in Handlers /\ g # h /\ PutOK(g)
    BY <1>1 DEF StoreInv, PutOK
  <2>7. ASSUME NEW g \in Handlers, g \in DOMAIN puts' PROVE PutOK(g)'
    <3>1. CASE g = h
      BY <2>1, <2>3, <2>4, <2>5, <3>1 DEF PutOK
    <3>2. CASE g # h
      BY <2>3, <2>4, <2>5, <2>6, <2>7, <3>2 DEF PutOK
    <3> QED BY <3>1, <3>2
  <2>8. \A g, k \in DOMAIN puts' : puts'[g].mine /\ puts'[k].mine => g = k
    BY <2>3, <2>6
  <2>9. BlobsTrue' /\ DOMAIN puts' \subseteq Handlers
    BY <1>1, <2>3 DEF StoreInv, BlobsTrue
  <2> QED BY <1>1, <2>5, <2>7, <2>8, <2>9, StoreMoves
<1> QED BY <1>2, <1>3 DEF Upload, TempName

\* The end of an upload, whose content is by then in the store if the client is told so.
LEMMA UploadedStore ==
    ASSUME ClientInv, StoreInv, NEW h \in Handlers, PutBlobFrom(h) \/ PutBlobFails(h) PROVE StoreInv'
<1> DEFINE sha == puts[h].sha
           x == run.miss \ {sha}
<1>1. h \in DOMAIN puts /\ calls' = calls /\ RunOK(run) /\ PutOK(h)
  BY DEF PutBlobFrom, PutBlobFails, StoreInv, ClientInv
<1>2. /\ puts' = Keep(puts, Handlers \ {h}) /\ temp' = Keep(temp, DOMAIN temp \ {h})
      /\ \/ ~puts[h].mine /\ run' = run
         \/ puts[h].mine /\ run' = Idle
         \/ puts[h].mine /\ run' = [run EXCEPT !.pc = "upload", !.miss = x] /\ PutBlobFrom(h)
  BY <1>1 DEF PutBlobFrom, PutBlobFails, Uploaded, TempName
<1>3. DOMAIN puts' = DOMAIN puts \ {h} /\ (\A g \in DOMAIN puts' : puts'[g] = puts[g])
      /\ DOMAIN temp' = DOMAIN temp \ {h} /\ (\A g \in DOMAIN temp' : temp'[g] = temp[g])
  BY <1>2 DEF Keep, StoreInv
<1>4. BlobsTrue' /\ DOMAIN blobs \subseteq DOMAIN blobs' /\ (PutBlobFrom(h) => sha \in DOMAIN blobs')
  <2>1. CASE PutBlobFrom(h)
    <3>1. blobs' = Put(blobs, sha, temp[h]) /\ temp[h] = sha
      BY <1>1, <2>1 DEF PutBlobFrom, TempName, PutOK
    <3> HIDE DEF sha
    <3> QED BY <3>1 DEF Put, StoreInv, BlobsTrue
  <2>2. CASE ~PutBlobFrom(h)
    BY <2>2 DEF PutBlobFails, host, StoreInv, BlobsTrue
  <2> QED BY <2>1, <2>2
<1>5. \A g \in DOMAIN puts' : g \in DOMAIN puts /\ g # h /\ g \in Handlers /\ PutOK(g)
  BY <1>3 DEF StoreInv
<1>6. \A g, k \in DOMAIN puts' : puts'[g].mine /\ puts'[k].mine => g = k
  BY <1>3 DEF StoreInv
<1>7. puts[h].mine => run.pc = "sending" /\ \A g \in DOMAIN puts' : puts'[g].mine = FALSE
  BY <1>1, <1>3, <1>5 DEF StoreInv, PutOK
<1>8. ASSUME NEW g \in Handlers, g \in DOMAIN puts' PROVE PutOK(g)'
  <2>1. puts'[g] = puts[g] /\ temp'[g] = temp[g] /\ g \in DOMAIN temp' /\ PutOK(g)
    BY <1>3, <1>5, <1>8 DEF PutOK
  <2>2. puts'[g].mine => run' = run
    BY <1>2, <1>7, <1>8
  <2> QED BY <2>1, <2>2 DEF PutOK
<1> HIDE DEF sha
<1>9. run'.pc \in {"upload", "sending"} =>
        /\ run.pc \in {"upload", "sending"} /\ run'.man = run.man
        /\ run.miss \subseteq run'.miss \cup DOMAIN blobs'
  <2>1. CASE run' = run
    BY <2>1
  <2>2. CASE run' = Idle
    BY <2>2, IdleIs
  <2>3. CASE puts[h].mine /\ run' = [run EXCEPT !.pc = "upload", !.miss = x] /\ PutBlobFrom(h)
    <3> HIDE DEF x
    <3>1. run'.man = run.man /\ run'.miss = x
      BY <1>1, <2>3 DEF RunOK
    <3> QED BY <1>4, <1>7, <2>3, <3>1 DEF x
  <2> QED BY <1>2, <2>1, <2>2, <2>3
<1>10. DOMAIN puts' \subseteq Handlers
  BY <1>5
<1> QED BY <1>1, <1>4, <1>6, <1>8, <1>9, <1>10, StoreMoves

LEMMA NextStore == ClientInv /\ HostInv /\ StoreInv /\ MirrorInv /\ [Next]_vars => StoreInv'
<1> SUFFICES ASSUME ClientInv, HostInv, StoreInv, MirrorInv, [Next]_vars PROVE StoreInv'
  OBVIOUS
<1>0. /\ RunOK(run) /\ DOMAIN calls = Handlers /\ Idle.pc = "idle" /\ Free.pc = "free"
      /\ \A h \in Handlers : CallOK(calls[h]) /\ (calls[h].mine => run.pc = "applying")
  BY IdleIs, FreeIs DEF ClientInv, HostInv, MirrorInv
<1>1. CASE Begin \/ Look \/ Read \/ Exec \/ (\E globs \in SUBSET Paths : Pull(globs))
  <2>1. UNCHANGED <<blobs, puts, temp, calls>> /\ run.pc \in {"idle", "walk", "read", "synced", "pull"}
    BY <1>1 DEF Begin, Look, Read, Exec, Pull, host, uploads
  <2>2. run'.pc \notin {"upload", "sending"}
    <3>1. \/ run' = Idle \/ run' = [Idle EXCEPT !.pc = "walk"]
          \/ run' = [run EXCEPT !.pc = "exec"]
          \/ (run.pc = "walk" /\ run' = [run EXCEPT !.at = @ + 1])
          \/ (\E m : run' = [run EXCEPT !.pc = "read", !.look = m])
          \/ (\E p, sha, m : run' = Listed(p, sha, m))
      BY <1>1 DEF Begin, Look, Read, Exec, Pull
    <3>2. \A p, sha, m : Listed(p, sha, m).pc = "walk"
      BY <1>0 DEF Listed, RunOK
    <3>3. [Idle EXCEPT !.pc = "walk"].pc = "walk"
      BY DEF Idle
    <3> QED BY <1>0, <3>1, <3>2, <3>3 DEF RunOK
  <2> QED BY <2>1, <2>2, StoreKept
<1>2. CASE Missing
  <2> DEFINE x == Shas(run.man) \ DOMAIN blobs
  <2>1. UNCHANGED <<blobs, puts, temp, calls>> /\ run.pc = "walk"
        /\ run' = [run EXCEPT !.pc = "upload", !.at = 1, !.miss = x]
    BY <1>2 DEF Missing, host, uploads
  <2> HIDE DEF x
  <2>2. run'.man = run.man /\ run'.miss = x
    BY <1>0, <2>1 DEF RunOK
  <2>3. Shas(run'.man) \subseteq run'.miss \cup DOMAIN blobs
    BY <2>2 DEF x
  <2> QED BY <2>1, <2>3, StoreKept
<1>3. CASE JobEnd
  <2>1. UNCHANGED <<blobs, puts, temp, calls>>
        /\ (run' = run \/ (run.pc = "exec" /\ run' = [run EXCEPT !.pc = "pull"]))
    BY <1>3 DEF JobEnd, host, uploads
  <2>2. run' = [run EXCEPT !.pc = "pull"] => run'.pc = "pull"
    BY <1>0 DEF RunOK
  <2> QED BY <2>1, <2>2, StoreKept
<1>4. CASE (\E p \in Paths, data \in Contents : JobWrite(p, data) \/ Edit(p, data)) \/ Delete \/ UNCHANGED vars
  <2>1. UNCHANGED <<blobs, puts, temp, calls, run>>
    BY <1>4 DEF JobWrite, Edit, Delete, host, uploads, vars
  <2> QED BY <2>1, StoreKept
<1>5. ASSUME NEW h \in Handlers, Apply(h) PROVE StoreInv'
  <2>1. PICK old \in Found :
           calls' = [calls EXCEPT ![h] = [Free EXCEPT !.pc = "files", !.man = run.man, !.old = old, !.mine = TRUE]]
    BY <1>5 DEF Apply
  <2> DEFINE c == [Free EXCEPT !.pc = "files", !.man = run.man, !.old = old, !.mine = TRUE]
  <2>2. c.man = run.man
    BY FreeIs DEF CallOK
  <2> HIDE DEF c
  <2>3. calls'[h] = c /\ \A g \in Handlers \ {h} : calls'[g] = calls[g]
    BY <1>0, <2>1 DEF c
  <2>4. UNCHANGED <<blobs, puts, temp>> /\ run.pc = "upload" /\ run.miss = {} /\ run' = [Idle EXCEPT !.pc = "applying"]
    BY <1>5 DEF Apply, uploads
  <2>5. run'.pc = "applying"
    BY <2>4 DEF Idle
  <2>6. Shas(c.man) \subseteq DOMAIN blobs
    BY <2>2, <2>4 DEF StoreInv
  <2>7. \A g \in Handlers : calls'[g].pc \in {"files", "stat"} =>
           \/ calls[g].pc \in {"files", "stat"} /\ calls'[g].man = calls[g].man
           \/ Shas(calls'[g].man) \subseteq DOMAIN blobs
    BY <2>3, <2>6
  <2> QED BY <2>4, <2>5, <2>7, StoreKept
<1>6. ASSUME NEW h \in Handlers, FileSkip(h) \/ FileCopy(h) \/ FileStat(h) \/ Prune(h) \/ ApplyEnd(h)
      PROVE  StoreInv'
  <2>1. UNCHANGED <<blobs, puts, temp>>
    BY <1>6 DEF FileSkip, FileCopy, FileStat, Prune, ApplyEnd, host, uploads
  <2>2. run' = run \/ (run.pc = "applying" /\ (run' = Idle \/ run' = [run EXCEPT !.pc = "synced"]))
    BY <1>0, <1>6 DEF FileSkip, FileCopy, FileStat, Prune, ApplyEnd, Answer
  <2>3. run' = [run EXCEPT !.pc = "synced"] => run'.pc = "synced"
    BY <1>0 DEF RunOK
  <2> DEFINE c == calls[h]
  <2>4. CallOK(c)
    BY <1>0
  <2>5. calls'[h].pc \in {"files", "stat"} => c.pc \in {"files", "stat"} /\ calls'[h].man = c.man
    <3>1. CASE FileSkip(h)
      <4>1. PICK n : calls'[h] = [c EXCEPT !.at = @ + 1, !.new = n]
        BY <1>0, <3>1 DEF FileSkip
      <4>2. c.pc = "files"
        BY <3>1 DEF FileSkip
      <4> HIDE DEF c
      <4> QED BY <2>4, <4>1, <4>2 DEF CallOK
    <3>2. CASE FileCopy(h)
      <4>1. c.pc = "files" /\ (calls'[h] = Free \/ calls'[h] = [c EXCEPT !.pc = "stat"])
        BY <1>0, <3>2 DEF FileCopy
      <4> HIDE DEF c
      <4> QED BY <1>0, <2>4, <4>1 DEF CallOK
    <3>3. CASE FileStat(h)
      <4>1. PICK n : calls'[h] = [c EXCEPT !.pc = "files", !.at = @ + 1, !.new = n]
        BY <1>0, <3>3 DEF FileStat
      <4>2. c.pc = "stat"
        BY <3>3 DEF FileStat
      <4> HIDE DEF c
      <4> QED BY <2>4, <4>1, <4>2 DEF CallOK
    <3>4. CASE Prune(h)
      <4>1. calls'[h] = [c EXCEPT !.pc = "save", !.old = <<>>]
        BY <1>0, <3>4 DEF Prune
      <4> HIDE DEF c
      <4> QED BY <2>4, <4>1 DEF CallOK
    <3>5. CASE ApplyEnd(h)
      BY <1>0, <3>5 DEF ApplyEnd
    <3> QED BY <1>6, <3>1, <3>2, <3>3, <3>4, <3>5
  <2>6. \A g \in Handlers \ {h} : calls'[g] = calls[g]
    BY <1>0, <1>6 DEF FileSkip, FileCopy, FileStat, Prune, ApplyEnd
  <2>7. \A g \in Handlers : calls'[g].pc \in {"files", "stat"} =>
           calls[g].pc \in {"files", "stat"} /\ calls'[g].man = calls[g].man
    BY <2>5, <2>6
  <2> QED BY <1>0, <2>1, <2>2, <2>3, <2>7, StoreKept
<1>7. CASE Interrupt
  <2>1. run' = Idle /\ UNCHANGED <<blobs, temp>> /\ calls' = Abandoned(calls) /\ puts' = Abandoned(puts)
    BY <1>7 DEF Interrupt, Gone, host
  <2>2. ASSUME NEW g \in Handlers PROVE calls'[g].pc = calls[g].pc /\ calls'[g].man = calls[g].man
    BY <1>0, <2>1 DEF Abandoned, CallOK
  <2>3. DOMAIN puts' = DOMAIN puts /\ DOMAIN puts \subseteq Handlers
    BY <2>1 DEF Abandoned, StoreInv
  <2>4. ASSUME NEW g \in DOMAIN puts PROVE puts'[g].mine = FALSE /\ PutOK(g)'
    <3> DEFINE u == puts[g]
    <3>1. puts'[g] = [u EXCEPT !.mine = FALSE] /\ g \in DOMAIN temp /\ temp[g] = u.sum
          /\ u = [sha |-> u.sha, sum |-> u.sum, mine |-> u.mine]
      BY <2>1, <2>3 DEF Abandoned, StoreInv, PutOK
    <3> HIDE DEF u
    <3>2. puts'[g] = [sha |-> u.sha, sum |-> u.sum, mine |-> FALSE]
      BY <3>1
    <3>3. puts'[g].sha = u.sha /\ puts'[g].sum = u.sum /\ puts'[g].mine = FALSE
      BY <3>2
    <3> QED BY <2>1, <3>1, <3>2, <3>3 DEF PutOK
  <2>5. BlobsTrue' /\ \A g \in Handlers : calls'[g].pc \in {"files", "stat"} => Shas(calls[g].man)' \subseteq DOMAIN blobs'
    BY <2>1, <2>2 DEF StoreInv, BlobsTrue, Shas
  <2> QED BY <1>0, <2>1, <2>3, <2>4, <2>5 DEF StoreInv
<1>8. CASE Crash
  <2>1. blobs' = blobs /\ puts' = <<>> /\ (run' = Idle \/ (run' = run /\ run.pc # "sending"))
        /\ \A h \in Handlers : calls'[h] = Free
    BY <1>8 DEF Crash
  <2>2. BlobsTrue' /\ (run'.pc \in {"upload", "sending"} => Shas(run.man)' \subseteq run'.miss \cup DOMAIN blobs')
    BY <1>0, <2>1 DEF StoreInv, BlobsTrue, Shas
  <2> QED BY <1>0, <2>1, <2>2 DEF StoreInv
<1> QED BY <1>1, <1>2, <1>3, <1>4, <1>5, <1>6, <1>7, <1>8, UploadStore, UploadedStore DEF Next

-----------------------------------------------------------------------------
(* The mirror. *)

\* The manifest grows by the file at p, or p has none.
LEMMA ListsMore ==
    ASSUME NEW man, NEW d, DOMAIN d \subseteq Paths, NEW p \in Paths, Lists(man, d, p), NEW m
    PROVE  /\ p \notin DOMAIN d => Lists(man, d, p + 1)
           /\ p \in DOMAIN d => Lists(Put(man, p, [sha |-> d[p].data, mtime |-> m]), d, p + 1)
<1>0. p \in Int /\ DOMAIN d \subseteq Int
  BY SessionAssumption DEF Paths
<1>1. {q \in DOMAIN d : q < p + 1} = {q \in DOMAIN d : q < p} \cup (DOMAIN d \cap {p})
  BY <1>0
<1>2. CASE p \notin DOMAIN d
  BY <1>1, <1>2 DEF Lists
<1>3. CASE p \in DOMAIN d
  <2> DEFINE v == [sha |-> d[p].data, mtime |-> m]
             g == Put(man, p, v)
  <2>1. v.sha = d[p].data
    OBVIOUS
  <2> HIDE DEF v
  <2>2. DOMAIN g = DOMAIN man \cup {p} /\ g[p] = v /\ \A x \in DOMAIN man \ {p} : g[x] = man[x]
    BY DEF Put
  <2> HIDE DEF g
  <2>3. Lists(g, d, p + 1)
    BY <1>1, <1>3, <2>1, <2>2 DEF Lists
  <2> QED BY <1>3, <2>3 DEF g, v
<1> QED BY <1>2, <1>3

\* A state in which no call is the run's own.
LEMMA MirrorNone ==
    ASSUME \A h \in Handlers : calls'[h].mine = FALSE, calm' \in BOOLEAN,
           calm' => WalkOK(run', dir'),
           calm' /\ ~raced' /\ run'.pc = "synced" => SameFiles(ws', dir')
    PROVE  MirrorInv'
BY DEF MirrorInv

\* A step of one call, which stays the run's own or does not become it.
LEMMA MirrorCall ==
    ASSUME MirrorInv, NEW h \in Handlers, calls'[h].mine = calls[h].mine,
           \A g \in Handlers \ {h} : calls'[g] = calls[g],
           run' = run, dir' = dir, calm' \in BOOLEAN, calm' => calm, raced => raced',
           calls[h].mine /\ calm' /\ ~raced' => ApplyOK(calls'[h], dir, ws'),
           ~calls[h].mine /\ calm' => ws' = ws \/ run.pc \notin {"applying", "synced"}
    PROVE  MirrorInv'
<1>1. \A g \in Handlers : calls'[g].mine = calls[g].mine
  OBVIOUS
<1>2. /\ \A g \in Handlers : calls[g].mine => run.pc = "applying"
      /\ \A g, k \in Handlers : calls[g].mine /\ calls[k].mine => g = k
      /\ calm => WalkOK(run, dir)
      /\ calm /\ ~raced => \A g \in Handlers : calls[g].mine => ApplyOK(calls[g], dir, ws)
      /\ calm /\ ~raced => (run.pc = "synced" => SameFiles(ws, dir))
  BY DEF MirrorInv
<1>3. ASSUME calm', ~raced', NEW g \in Handlers, calls'[g].mine PROVE ApplyOK(calls'[g], dir, ws')
  <2>1. CASE g = h
    BY <1>1, <1>3, <2>1
  <2>2. CASE g # h
    <3>1. ~calls[h].mine /\ run.pc = "applying" /\ calls'[g] = calls[g]
      BY <1>1, <1>2, <1>3, <2>2
    <3> QED BY <1>2, <1>3, <3>1
  <2> QED BY <2>1, <2>2
<1>4. ASSUME calm', ~raced', run.pc = "synced" PROVE SameFiles(ws', dir)
  <2>1. ~calls[h].mine
    BY <1>2, <1>4
  <2> QED BY <1>2, <1>4, <2>1
<1> QED BY <1>1, <1>2, <1>3, <1>4 DEF MirrorInv

LEMMA InitMirror == Init => MirrorInv
<1> SUFFICES ASSUME Init PROVE MirrorInv
  OBVIOUS
<1>1. calm = TRUE /\ run = Idle /\ run.pc = "idle" /\ \A h \in Handlers : calls[h].mine = FALSE
  BY IdleIs, FreeIs DEF Init
<1> QED BY <1>1 DEF MirrorInv, WalkOK

\* The steps of the client: while it lists and uploads, no call is its own.
LEMMA SyncMirror ==
    ASSUME ClientInv, HostInv, MirrorInv,
           Begin \/ Look \/ Read \/ Missing \/ (\E sha \in Contents, h \in Handlers : Upload(sha, h))
    PROVE  MirrorInv'
<1>0. /\ RunOK(run) /\ DOMAIN dir \subseteq Paths /\ Seen(cache, dir, now.dir) /\ N \in Nat \ {0}
      /\ calm \in BOOLEAN /\ (calm => WalkOK(run, dir))
  BY SessionAssumption DEF ClientInv, MirrorInv
<1>1. run.pc # "applying" /\ calls' = calls /\ dir' = dir /\ calm' \in BOOLEAN
  BY <1>0 DEF Begin, Look, Read, Missing, Upload, client
<1>2. \A h \in Handlers : calls'[h].mine = FALSE
  BY <1>1 DEF MirrorInv, HostInv, CallOK
<1>3. WalkOK(Idle, dir) /\ Idle.pc # "synced"
  BY IdleIs DEF WalkOK
<1>4. CASE Begin
  <2> DEFINE r == [Idle EXCEPT !.pc = "walk"]
  <2>1. r.pc = "walk" /\ r.at = 1 /\ r.man = <<>> /\ run' = r
    BY <1>4 DEF Begin, Idle
  <2> HIDE DEF r
  <2>2. Lists(<<>>, dir, 1)
    <3>1. {q \in DOMAIN dir : q < 1} = {}
      BY <1>0 DEF Paths
    <3> QED BY <3>1 DEF Lists
  <2>3. WalkOK(run', dir)
    BY <2>1, <2>2 DEF WalkOK
  <2> QED BY <1>1, <1>2, <2>1, <2>3, MirrorNone
<1>5. CASE Look
  <2> DEFINE p == run.at
             sha == dir[p].data
  <2>1. p \in Paths /\ run.pc = "walk" /\ calm' = calm
    BY <1>5 DEF Look
  <2>2. calm => Lists(run.man, dir, p)
    BY <1>0, <2>1 DEF WalkOK
  <2>3. CASE p \notin DOMAIN dir
    <3>1. run' = [run EXCEPT !.at = p + 1]
      BY <1>5, <2>3 DEF Look
    <3>2. run'.pc = "walk" /\ run'.at = p + 1 /\ run'.man = run.man
      BY <1>0, <2>1, <3>1 DEF RunOK
    <3>3. calm => Lists(run.man, dir, p + 1)
      BY <1>0, <2>1, <2>2, <2>3, ListsMore
    <3> QED BY <1>1, <1>2, <2>1, <3>2, <3>3, MirrorNone DEF WalkOK
  <2>4. CASE p \in DOMAIN dir /\ Known(p)
    <3> DEFINE m == cache[p].mtime
    <3>1. run' = Listed(p, sha, m)
      BY <1>0, <1>5, <2>4 DEF Look, Known, Seen
    <3> HIDE DEF m, sha
    <3>2. run'.pc = "walk" /\ run'.at = p + 1 /\ run'.man = Put(run.man, p, [sha |-> sha, mtime |-> m])
      BY <1>0, <3>1 DEF Listed, RunOK
    <3>3. calm => Lists(run'.man, dir, p + 1)
      BY <1>0, <2>1, <2>2, <2>4, <3>2, ListsMore DEF sha
    <3> QED BY <1>1, <1>2, <2>1, <3>2, <3>3, MirrorNone DEF WalkOK
  <2>5. CASE p \in DOMAIN dir /\ ~Known(p)
    <3> DEFINE m == dir[p].mtime
    <3>1. run' = [run EXCEPT !.pc = "read", !.look = m]
      BY <1>5, <2>5 DEF Look
    <3> HIDE DEF m
    <3>2. run'.pc = "read" /\ run'.at = p /\ run'.man = run.man
      BY <1>0, <3>1 DEF RunOK
    <3> QED BY <1>1, <1>2, <2>1, <2>2, <3>2, MirrorNone DEF WalkOK
  <2> QED BY <2>3, <2>4, <2>5
<1>6. CASE Read
  <2> DEFINE p == run.at
             sha == dir[p].data
             m == run.look
  <2>1. p \in Paths /\ run.pc = "read" /\ calm' = calm
    BY <1>0, <1>6 DEF Read, RunOK
  <2>2. calm => Lists(run.man, dir, p)
    BY <1>0, <2>1 DEF WalkOK
  <2>3. CASE p \in DOMAIN dir
    <3>1. run' = Listed(p, sha, m)
      BY <1>6, <2>3 DEF Read
    <3> HIDE DEF m, sha
    <3>2. run'.pc = "walk" /\ run'.at = p + 1 /\ run'.man = Put(run.man, p, [sha |-> sha, mtime |-> m])
      BY <1>0, <3>1 DEF Listed, RunOK
    <3>3. calm => Lists(run'.man, dir, p + 1)
      BY <1>0, <2>1, <2>2, <2>3, <3>2, ListsMore DEF sha
    <3> QED BY <1>1, <1>2, <2>1, <3>2, <3>3, MirrorNone DEF WalkOK
  <2>4. CASE p \notin DOMAIN dir
    <3>1. run' = Idle
      BY <1>6, <2>4 DEF Read
    <3> QED BY <1>1, <1>2, <1>3, <3>1, MirrorNone
  <2> QED BY <2>3, <2>4
<1>7. CASE Missing
  <2> DEFINE x == Shas(run.man) \ DOMAIN blobs
  <2>1. run' = [run EXCEPT !.pc = "upload", !.at = 1, !.miss = x] /\ run.pc = "walk" /\ run.at = N + 1 /\ calm' = calm
    BY <1>7 DEF Missing
  <2> HIDE DEF x
  <2>2. run'.pc = "upload" /\ run'.man = run.man
    BY <1>0, <2>1 DEF RunOK
  <2> QED BY <1>0, <1>1, <1>2, <2>1, <2>2, MirrorNone DEF WalkOK
<1>8. ASSUME NEW sha \in Contents, NEW h \in Handlers, Upload(sha, h) PROVE MirrorInv'
  <2>1. run.pc = "upload" /\ calm' = calm /\ (run' = Idle \/ run' = [run EXCEPT !.pc = "sending"])
    BY <1>8 DEF Upload
  <2>2. CASE run' = Idle
    BY <1>1, <1>2, <1>3, <2>2, MirrorNone
  <2>3. CASE run' = [run EXCEPT !.pc = "sending"]
    <3>1. run'.pc = "sending" /\ run'.man = run.man
      BY <1>0, <2>1, <2>3 DEF RunOK
    <3> QED BY <1>0, <1>1, <1>2, <2>1, <3>1, MirrorNone DEF WalkOK
  <2> QED BY <2>1, <2>2, <2>3
<1> QED BY <1>4, <1>5, <1>6, <1>7, <1>8

\* The end of an upload, the run's own or another's.
LEMMA UploadMirror ==
    ASSUME ClientInv, HostInv, StoreInv, MirrorInv, NEW h \in Handlers,
           PutBlobFrom(h) \/ PutBlobFails(h)
    PROVE  MirrorInv'
<1> DEFINE x == run.miss \ {puts[h].sha}
<1>0. /\ RunOK(run) /\ calm \in BOOLEAN /\ (calm => WalkOK(run, dir))
      /\ \A g \in Handlers : calls[g].mine \in BOOLEAN /\ (calls[g].mine => run.pc = "applying")
  BY DEF ClientInv, MirrorInv, HostInv, CallOK
<1>1. h \in DOMAIN puts /\ puts[h].mine \in BOOLEAN /\ (puts[h].mine => run.pc = "sending")
  BY DEF PutBlobFrom, PutBlobFails, StoreInv, PutOK
<1>2. /\ calls' = calls /\ dir' = dir /\ ws' = ws /\ calm' = calm /\ raced' = raced
      /\ run' = run \/ (puts[h].mine /\ (run' = Idle \/ run' = [run EXCEPT !.pc = "upload", !.miss = x]))
  BY <1>1 DEF PutBlobFrom, PutBlobFails, Uploaded, client, host
<1> HIDE DEF x
<1>3. CASE run' = run
  BY <1>2, <1>3 DEF MirrorInv
<1>4. CASE puts[h].mine
  <2>1. run.pc = "sending" /\ \A g \in Handlers : calls'[g].mine = FALSE
    BY <1>0, <1>1, <1>2, <1>4
  <2>2. CASE run' = Idle
    BY <1>0, <1>2, <2>1, <2>2, IdleIs, MirrorNone DEF WalkOK
  <2>3. CASE run' = [run EXCEPT !.pc = "upload", !.miss = x]
    <3>1. run'.pc = "upload" /\ run'.man = run.man
      BY <1>0, <2>3 DEF RunOK
    <3> QED BY <1>0, <1>2, <2>1, <3>1, MirrorNone DEF WalkOK
  <2> QED BY <1>2, <1>3, <2>2, <2>3
<1> QED BY <1>2, <1>3, <1>4

LEMMA ApplyMirror ==
    ASSUME ClientInv, HostInv, MirrorInv, NEW h \in Handlers, Apply(h) PROVE MirrorInv'
<1>1. PICK old \in Found :
         calls' = [calls EXCEPT ![h] = [Free EXCEPT !.pc = "files", !.man = run.man, !.old = old, !.mine = TRUE]]
  BY DEF Apply
<1> DEFINE c == [Free EXCEPT !.pc = "files", !.man = run.man, !.old = old, !.mine = TRUE]
<1>2. c.pc = "files" /\ c.at = 1 /\ c.man = run.man /\ c.mine = TRUE
  BY FreeIs DEF CallOK
<1>3. calls' = [calls EXCEPT ![h] = c]
  BY <1>1
<1> HIDE DEF c
<1>4. calls'[h] = c /\ \A g \in Handlers \ {h} : calls'[g] = calls[g]
  BY <1>3 DEF HostInv
<1>5. run.pc = "upload" /\ dir' = dir /\ ws' = ws /\ calm' = calm /\ raced' = raced
  BY DEF Apply, client
<1>6. run'.pc = "applying"
  BY DEF Apply, Idle
<1>7. \A g \in Handlers : calls[g].mine = FALSE
  BY <1>5 DEF MirrorInv, HostInv, CallOK
<1>8. calm => ApplyOK(c, dir, ws)
  <2> SUFFICES ASSUME calm PROVE ApplyOK(c, dir, ws)
    OBVIOUS
  <2>1. Lists(c.man, dir, N + 1)
    BY <1>2, <1>5 DEF MirrorInv, WalkOK
  <2>2. DOMAIN c.man \subseteq Paths
    BY <1>2 DEF ClientInv, RunOK
  <2>3. \A q \in DOMAIN c.man : ~Done(c, q)
    BY <1>2, <2>2, SessionAssumption DEF Done, Paths
  <2> QED BY <1>2, <2>1, <2>3 DEF ApplyOK
<1>9. calm' \in BOOLEAN /\ (calm' => WalkOK(run', dir'))
  BY <1>5, <1>6 DEF MirrorInv, WalkOK
<1>10. \A g \in Handlers : calls'[g].mine => g = h
  BY <1>4, <1>7
<1>11. \A g \in Handlers : calm' /\ calls'[g].mine => ApplyOK(calls'[g], dir', ws')
  BY <1>4, <1>5, <1>8, <1>10
<1> QED BY <1>5, <1>6, <1>9, <1>10, <1>11 DEF MirrorInv

LEMMA FileSkipMirror ==
    ASSUME HostInv, MirrorInv, NEW h \in Handlers, FileSkip(h) PROVE MirrorInv'
<1> DEFINE c == calls[h]
           d == calls'[h]
           p == c.at
<1>1. /\ c.pc = "files" /\ p \in Paths
      /\ p \in DOMAIN c.man => Unchanged(c, p)
      /\ run' = run /\ dir' = dir /\ ws' = ws /\ calm' = calm /\ raced' = raced
  BY DEF FileSkip, host, client
<1>2. \A g \in Handlers \ {h} : calls'[g] = calls[g]
  BY DEF FileSkip, HostInv
<1>3. CallOK(c) /\ N \in Nat /\ calm \in BOOLEAN
  BY SessionAssumption DEF HostInv, MirrorInv
<1>4. d.pc = "files" /\ d.at = p + 1 /\ d.man = c.man /\ d.mine = c.mine
  BY <1>1, <1>3 DEF FileSkip, HostInv, CallOK
<1>5. ~raced => Seen(c.old, ws, now.ws)
  BY DEF HostInv, Records
<1>6. ASSUME c.mine, calm, ~raced PROVE ApplyOK(d, dir, ws)
  <2>1. ApplyOK(c, dir, ws)
    BY <1>6 DEF MirrorInv
  <2>2. p \in DOMAIN c.man => p \in DOMAIN ws /\ ws[p].data = c.man[p].sha
    BY <1>1, <1>5, <1>6 DEF Unchanged, Seen
  <2>3. \A q \in DOMAIN c.man : Done(d, q) => Done(c, q) \/ q = p
    BY <1>1, <1>3, <1>4 DEF Done, CallOK, Paths
  <2> HIDE DEF c, d
  <2> QED BY <1>4, <2>1, <2>2, <2>3 DEF ApplyOK
<1> QED BY <1>1, <1>2, <1>3, <1>4, <1>6, MirrorCall

LEMMA FileCopyMirror ==
    ASSUME HostInv, MirrorInv, NEW h \in Handlers, FileCopy(h) PROVE MirrorInv'
<1> DEFINE c == calls[h]
           d == calls'[h]
           p == c.at
           sha == c.man[p].sha
<1>1. c.pc = "files" /\ p \in DOMAIN c.man /\ dir' = dir /\ raced' = raced
  BY DEF FileCopy, client
<1>2. CallOK(c) /\ N \in Nat /\ calm \in BOOLEAN /\ DOMAIN calls = Handlers
  BY SessionAssumption DEF HostInv, MirrorInv
<1>3. CASE sha \notin DOMAIN blobs
  <2>1. calls' = [calls EXCEPT ![h] = Free] /\ ws' = ws /\ calm' = calm
        /\ run' = IF ~c.mine THEN run ELSE Idle
    BY <1>3 DEF FileCopy, Answer
  <2>2. d = Free /\ \A g \in Handlers \ {h} : calls'[g] = calls[g]
    BY <1>2, <2>1
  <2>3. CASE ~c.mine
    <3>1. d.mine = c.mine
      BY <1>2, <2>2, <2>3, FreeIs DEF CallOK
    <3> QED BY <1>1, <1>2, <2>1, <2>2, <2>3, <3>1, MirrorCall
  <2>4. CASE c.mine
    <3>1. \A g \in Handlers : calls'[g].mine = FALSE
      BY <2>2, <2>4, FreeIs DEF MirrorInv, HostInv, CallOK
    <3>2. WalkOK(run', dir') /\ run'.pc # "synced"
      BY <2>1, <2>4, IdleIs DEF WalkOK
    <3> QED BY <1>2, <2>1, <3>1, <3>2, MirrorNone
  <2> QED BY <2>3, <2>4
<1>4. CASE sha \in DOMAIN blobs
  <2> DEFINE v == [data |-> blobs[sha], mtime |-> now'.ws]
  <2>1. ws' = Put(ws, p, v) /\ calls' = [calls EXCEPT ![h].pc = "stat"]
        /\ calm' = (calm /\ ~Intrudes(h)) /\ run' = run
    BY <1>4 DEF FileCopy, Copied
  <2>2. v.data = sha
    BY <1>4 DEF HostInv, BlobsTrue
  <2> HIDE DEF v
  <2>3. DOMAIN ws' = DOMAIN ws \cup {p} /\ ws'[p].data = sha /\ \A q \in DOMAIN ws \ {p} : ws'[q] = ws[q]
    BY <2>1, <2>2 DEF Put
  <2>4. \A g \in Handlers \ {h} : calls'[g] = calls[g]
    BY <1>2, <2>1
  <2>5. d.pc = "stat" /\ d.at = p /\ d.man = c.man /\ d.mine = c.mine
    BY <1>2, <2>1 DEF CallOK
  <2>6. ASSUME c.mine, calm, ~raced PROVE ApplyOK(d, dir, ws')
    <3>1. ApplyOK(c, dir, ws)
      BY <2>6 DEF MirrorInv
    <3>2. \A q \in DOMAIN c.man : Done(d, q) => Done(c, q) \/ q = p
      BY <1>1, <2>5 DEF Done
    <3> HIDE DEF c, d
    <3>3. \A q \in DOMAIN c.man : Done(d, q) => q \in DOMAIN ws' /\ ws'[q].data = c.man[q].sha
      BY <1>1, <2>3, <3>1, <3>2 DEF ApplyOK
    <3> QED BY <2>5, <3>1, <3>3 DEF ApplyOK
  <2>7. calm' \in BOOLEAN /\ (calm' => calm) /\ (~c.mine /\ calm' => run.pc \notin {"applying", "synced"})
    BY <1>2, <2>1 DEF Intrudes
  <2> QED BY <1>1, <2>1, <2>4, <2>5, <2>6, <2>7, MirrorCall
<1> QED BY <1>3, <1>4

LEMMA FileStatMirror ==
    ASSUME HostInv, MirrorInv, NEW h \in Handlers, FileStat(h) PROVE MirrorInv'
<1> DEFINE c == calls[h]
           d == calls'[h]
           p == c.at
<1>1. c.pc = "stat" /\ run' = run /\ dir' = dir /\ ws' = ws /\ calm' = calm /\ (raced => raced')
  BY DEF FileStat, host, client
<1>2. \A g \in Handlers \ {h} : calls'[g] = calls[g]
  BY DEF FileStat, HostInv
<1>3. CallOK(c) /\ N \in Nat /\ calm \in BOOLEAN
  BY SessionAssumption DEF HostInv, MirrorInv
<1>4. d.pc = "files" /\ d.at = p + 1 /\ d.man = c.man /\ d.mine = c.mine
  BY <1>1, <1>3 DEF FileStat, HostInv, CallOK
<1>5. ASSUME c.mine, calm, ~raced PROVE ApplyOK(d, dir, ws)
  <2>1. ApplyOK(c, dir, ws)
    BY <1>5 DEF MirrorInv
  <2>2. \A q \in DOMAIN c.man : Done(d, q) => Done(c, q)
    BY <1>1, <1>3, <1>4 DEF Done, CallOK, Paths
  <2> HIDE DEF c, d
  <2> QED BY <1>4, <2>1, <2>2 DEF ApplyOK
<1> QED BY <1>1, <1>2, <1>3, <1>4, <1>5, MirrorCall

LEMMA PruneMirror ==
    ASSUME HostInv, MirrorInv, NEW h \in Handlers, Prune(h) PROVE MirrorInv'
<1> DEFINE c == calls[h]
           d == calls'[h]
<1>1. /\ c.pc = "files" /\ c.at = N + 1 /\ ws' = Keep(ws, DOMAIN c.man)
      /\ calm' = (calm /\ ~(Intrudes(h) /\ ws' # ws)) /\ run' = run /\ dir' = dir /\ raced' = raced
  BY DEF Prune, Pruned, client
<1>2. \A g \in Handlers \ {h} : calls'[g] = calls[g]
  BY DEF Prune, HostInv
<1>3. CallOK(c) /\ N \in Nat /\ calm \in BOOLEAN
  BY SessionAssumption DEF HostInv, MirrorInv
<1>4. d.pc = "save" /\ d.man = c.man /\ d.mine = c.mine
  BY <1>3 DEF Prune, HostInv, CallOK
<1>5. DOMAIN ws' = DOMAIN ws \cap DOMAIN c.man /\ \A q \in DOMAIN ws' : ws'[q] = ws[q]
  BY <1>1 DEF Keep
<1>6. ASSUME c.mine, calm, ~raced PROVE ApplyOK(d, dir, ws')
  <2>1. ApplyOK(c, dir, ws)
    BY <1>6 DEF MirrorInv
  <2>2. \A q \in DOMAIN c.man : Done(c, q)
    BY <1>1, <1>3 DEF Done, CallOK, Paths
  <2> HIDE DEF c, d
  <2> QED BY <1>4, <1>5, <2>1, <2>2 DEF ApplyOK
<1>7. calm' \in BOOLEAN /\ (calm' => calm)
      /\ (~c.mine /\ calm' => ws' = ws \/ run.pc \notin {"applying", "synced"})
  BY <1>1, <1>3 DEF Intrudes
<1> QED BY <1>1, <1>2, <1>4, <1>6, <1>7, MirrorCall

\* The manifest was the directory, and all of it is done.
LEMMA ApplyEndMirror ==
    ASSUME ClientInv, HostInv, MirrorInv, NEW h \in Handlers, ApplyEnd(h) PROVE MirrorInv'
<1> DEFINE c == calls[h]
           d == calls'[h]
<1>1. c.pc = "save" /\ dir' = dir /\ ws' = ws /\ calm' = calm /\ raced' = raced
      /\ calls' = [calls EXCEPT ![h] = Free]
      /\ run' = IF ~c.mine THEN run ELSE [run EXCEPT !.pc = "synced"]
  BY DEF ApplyEnd, Answer, client
<1>2. CallOK(c) /\ N \in Nat /\ calm \in BOOLEAN /\ DOMAIN calls = Handlers /\ RunOK(run) /\ DOMAIN dir \subseteq Paths
  BY SessionAssumption DEF HostInv, MirrorInv, ClientInv
<1>3. d = Free /\ \A g \in Handlers \ {h} : calls'[g] = calls[g]
  BY <1>1, <1>2
<1>4. CASE ~c.mine
  <2>1. d.mine = c.mine
    BY <1>2, <1>3, <1>4, FreeIs DEF CallOK
  <2> QED BY <1>1, <1>2, <1>3, <1>4, <2>1, MirrorCall
<1>5. CASE c.mine
  <2>1. \A g \in Handlers : calls'[g].mine = FALSE
    BY <1>3, <1>5, FreeIs DEF MirrorInv, HostInv, CallOK
  <2>2. run'.pc = "synced"
    BY <1>1, <1>2, <1>5 DEF RunOK
  <2>3. calm /\ ~raced => SameFiles(ws, dir)
    <3> SUFFICES ASSUME calm, ~raced PROVE SameFiles(ws, dir)
      OBVIOUS
    <3>1. ApplyOK(c, dir, ws)
      BY <1>5 DEF MirrorInv
    <3>2. {p \in DOMAIN dir : p < N + 1} = DOMAIN dir
      BY <1>2 DEF Paths
    <3>3. DOMAIN c.man = DOMAIN dir /\ \A p \in DOMAIN dir : c.man[p].sha = dir[p].data
      BY <3>1, <3>2 DEF ApplyOK, Lists
    <3> QED BY <1>1, <3>1, <3>3 DEF ApplyOK, Done, SameFiles
  <2>4. WalkOK(run', dir')
    BY <2>2 DEF WalkOK
  <2> QED BY <1>1, <1>2, <2>1, <2>3, <2>4, MirrorNone
<1> QED BY <1>4, <1>5

LEMMA NextMirror == ClientInv /\ HostInv /\ StoreInv /\ MirrorInv /\ [Next]_vars => MirrorInv'
<1> SUFFICES ASSUME ClientInv, HostInv, StoreInv, MirrorInv, [Next]_vars PROVE MirrorInv'
  OBVIOUS
<1>0. /\ calm \in BOOLEAN /\ (calm => WalkOK(run, dir))
      /\ \A h \in Handlers : calls[h].mine \in BOOLEAN /\ (calls[h].mine => run.pc = "applying")
      /\ \A d : WalkOK(Idle, d)
      /\ Idle.pc = "idle" /\ RunOK(run) /\ DOMAIN calls = Handlers
  BY IdleIs DEF MirrorInv, HostInv, CallOK, ClientInv, WalkOK
<1>1. ASSUME NEW pc, pc \in {"exec", "pull"}, run' = [run EXCEPT !.pc = pc] PROVE run'.pc = pc /\ WalkOK(run', dir')
  <2>1. run'.pc = pc
    BY <1>0, <1>1 DEF RunOK
  <2> QED BY <1>1, <2>1 DEF WalkOK
<1>2. CASE Exec
  <2>1. \A h \in Handlers : calls'[h].mine = FALSE
    BY <1>0, <1>2 DEF Exec
  <2>2. calm' = calm /\ (run' = [run EXCEPT !.pc = "exec"] \/ run' = Idle)
    BY <1>2 DEF Exec
  <2>3. WalkOK(run', dir') /\ run'.pc # "synced"
    BY <1>0, <1>1, <2>2
  <2> QED BY <1>0, <2>1, <2>2, <2>3, MirrorNone
<1>3. CASE JobEnd
  <2>1. calls' = calls /\ dir' = dir /\ ws' = ws /\ calm' = calm /\ raced' = raced
    BY <1>3 DEF JobEnd, client, host
  <2>2. CASE run' = run
    BY <2>1, <2>2 DEF MirrorInv
  <2>3. CASE run.pc = "exec" /\ run' = [run EXCEPT !.pc = "pull"]
    <3>1. \A h \in Handlers : calls'[h].mine = FALSE
      BY <1>0, <2>1, <2>3
    <3>2. WalkOK(run', dir') /\ run'.pc # "synced"
      BY <1>1, <2>3
    <3> QED BY <1>0, <2>1, <3>1, <3>2, MirrorNone
  <2> QED BY <1>3, <2>2, <2>3 DEF JobEnd
<1>4. CASE Interrupt
  <2>1. run' = Idle /\ calls' = Abandoned(calls) /\ calm' = calm
    BY <1>4 DEF Interrupt, Gone
  <2>2. ASSUME NEW h \in Handlers PROVE calls'[h].mine = FALSE
    <3>1. CallOK(calls[h])
      BY DEF HostInv
    <3> QED BY <1>0, <2>1, <3>1 DEF Abandoned, CallOK
  <2> QED BY <1>0, <2>1, <2>2, MirrorNone
<1>5. ASSUME (\E p \in Paths, data \in Contents : JobWrite(p, data)) \/ Delete PROVE MirrorInv'
  <2>1. calls' = calls /\ run' = run /\ dir' = dir /\ raced' = raced
        /\ calm' = (calm /\ run.pc \notin {"applying", "synced"})
    BY <1>5 DEF JobWrite, Delete, client
  <2> QED BY <1>0, <2>1 DEF MirrorInv
<1>6. ASSUME NEW p \in Paths, NEW data \in Contents, Edit(p, data) PROVE MirrorInv'
  <2>1. calls' = calls /\ run' = run /\ calm' = FALSE
    BY <1>6 DEF Edit
  <2> QED BY <2>1 DEF MirrorInv
<1>7. ASSUME NEW globs \in SUBSET Paths, Pull(globs) PROVE MirrorInv'
  <2>1. run.pc = "pull" /\ calls' = calls /\ run' = Idle /\ calm' = calm
    BY <1>7 DEF Pull
  <2>2. \A h \in Handlers : calls'[h].mine = FALSE
    BY <1>0, <2>1
  <2> QED BY <1>0, <2>1, <2>2, MirrorNone
<1>8. CASE Crash
  <2>1. calls' = [h \in Handlers |-> Free] /\ (run' = Idle \/ run' = run)
        /\ dir' = dir /\ ws' = ws /\ calm' = calm /\ raced' = raced
    BY <1>8 DEF Crash, client
  <2>2. \A h \in Handlers : calls'[h].mine = FALSE
    BY <2>1, FreeIs
  <2>3. calm /\ ~raced /\ run.pc = "synced" => SameFiles(ws, dir)
    BY DEF MirrorInv
  <2>4. CASE run' = Idle
    BY <1>0, <2>1, <2>2, <2>4, MirrorNone
  <2>5. CASE run' = run
    BY <1>0, <2>1, <2>2, <2>3, <2>5, MirrorNone
  <2> QED BY <2>1, <2>4, <2>5
<1>9. CASE UNCHANGED vars
  BY <1>9 DEF vars, client, host, MirrorInv
<1> QED BY <1>2, <1>3, <1>4, <1>5, <1>6, <1>7, <1>8, <1>9, SyncMirror, UploadMirror, ApplyMirror,
           FileSkipMirror, FileCopyMirror, FileStatMirror, PruneMirror, ApplyEndMirror DEF Next

-----------------------------------------------------------------------------
(* The theorems. *)

LEMMA SpecSession == Spec => [](ClientInv /\ HostInv /\ StoreInv /\ MirrorInv)
<1>1. Init => ClientInv /\ HostInv /\ StoreInv /\ MirrorInv
  BY InitClient, InitHost, InitStore, InitMirror
<1>2. ClientInv /\ HostInv /\ StoreInv /\ MirrorInv /\ [Next]_vars
        => (ClientInv /\ HostInv /\ StoreInv /\ MirrorInv)'
  BY NextClient, NextHost, NextStore, NextMirror
<1> QED BY <1>1, <1>2, PTL DEF Spec

\* Apply finds each blob of its manifest in the store, and in it the content that the client
\* listed (Sync in internal/remote/client.go, PutBlobFrom and Apply in
\* internal/session/session.go), however uploads overlap, fail and outlive their clients.
THEOREM AlwaysDelivered == Spec => []Delivered
<1>1. StoreInv => Delivered
  BY DEF StoreInv, BlobsTrue, Delivered
<1> QED BY <1>1, SpecSession, PTL

\* A sync during which nobody else touched the directory or the workspace leaves the
\* workspace with exactly the directory's files (Apply in internal/session/session.go after
\* Sync in internal/remote/client.go), whatever earlier runs, calls that outlived their
\* client, jobs and crashes left behind, unless some record was taken of another's file.
THEOREM SyncAlwaysExact == Spec => []SyncExact
<1>1. MirrorInv => SyncExact
  <2>1. ASSUME SameFiles(ws, dir) PROVE Contains(ws) = Contains(dir)
    BY <2>1 DEF SameFiles, Contains
  <2> QED BY <2>1 DEF MirrorInv, SyncExact
<1> QED BY <1>1, SpecSession, PTL

=============================================================================
