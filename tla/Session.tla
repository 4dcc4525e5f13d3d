------------------------------ MODULE Session ------------------------------
(***************************************************************************)
(* A remote run's workspace: the client that mirrors its directory to the    *)
(* host (runRemote in cmd/gmux/main.go, Sync, Exec and Pull in               *)
(* internal/remote/client.go, its hash cache in hashcache.go) and the host's *)
(* store of blobs and workspaces (internal/session/session.go behind the     *)
(* handlers of internal/api/remote.go).                                      *)
(*                                                                          *)
(* There is one directory and one session.  The client is one process at a   *)
(* time, but what it asked of the host goes on when it is gone, so several   *)
(* uploads and calls of Apply, and jobs of earlier runs, may be at work in   *)
(* the store and the workspace.  Meanwhile its owner edits the directory,    *)
(* and the daemon may crash.                                                 *)
(*                                                                          *)
(* A file's content stands for its sha too.  What stat shows of a file is one *)
(* number, mtime: its size, which may be the same for all, and its inode are  *)
(* in it.  A copy is one step, modes are left out, and a walk goes over the   *)
(* paths in order.                                                           *)
(***************************************************************************)
EXTENDS Integers

CONSTANTS
    N,         \* the paths are 1..N
    Contents,  \* what is in files
    Torn,      \* what arrives of a file that is written while it is sent, or not sent in full
    Handlers,  \* the uploads and calls of Apply that the host serves at a time, at most
    MaxEdits,  \* bound: how often files of the directory are written
    MaxWrites  \* bound: how often files of the workspace are written

ASSUME SessionAssumption ==
    N \in Nat \ {0} /\ MaxEdits \in Nat /\ MaxWrites \in Nat /\ Torn \notin Contents

VARIABLES
    now,     \* the clocks of the client and of the host
    dir,     \* the client's directory: path -> content and mtime
    cache,   \* the hash cache on the client's disk: path -> mtime and sha
    run,     \* the client's process
    blobs,   \* the host's blobs: sha -> content
    puts,    \* the uploads that the host has received and not answered
    temp,    \* their temporary files: name -> content
    ws,      \* the session's workspace
    rec,     \* applied.json: path -> the sha and the mtime of what Apply wrote
    there,   \* whether the session's directory exists
    calls,   \* the calls of Apply
    linger,  \* whether a job whose client is gone still runs
    calm,    \* history: nobody else has touched what this run mirrors
    raced    \* history: a record was taken of a file that another had written

client == <<dir, cache>>
host == <<blobs, ws, rec, there>>
uploads == <<puts, temp>>
vars == <<now, client, run, host, uploads, calls, linger, calm, raced>>

Paths == 1..N

Put(f, p, v) == [x \in DOMAIN f \cup {p} |-> IF x = p THEN v ELSE f[x]]
Keep(f, S) == [x \in DOMAIN f \cap S |-> f[x]]
Override(f, g) == [x \in DOMAIN f \cup DOMAIN g |-> IF x \in DOMAIN g THEN g[x] ELSE f[x]]

Shas(man) == {man[p].sha : p \in DOMAIN man}

Idle == [pc |-> "idle", at |-> 1, look |-> 0, man |-> <<>>, miss |-> {}]
Free == [pc |-> "free", at |-> 1, man |-> <<>>, old |-> <<>>, new |-> <<>>, mine |-> FALSE]

\* The directory has some files; the host has nothing.
Init ==
    /\ now = [dir |-> 0, ws |-> 0]
    /\ \E d \in Contents : dir = [p \in Paths |-> [data |-> d, mtime |-> 0]]
    /\ cache = <<>> /\ run = Idle
    /\ blobs = <<>> /\ puts = <<>> /\ temp = <<>> /\ ws = <<>> /\ rec = <<>> /\ there = FALSE
    /\ calls = [h \in Handlers |-> Free]
    /\ linger = FALSE /\ calm = TRUE /\ raced = FALSE

\* A write, of a file in the directory or in the workspace.
EditTime == now.dir < MaxEdits /\ now' = [now EXCEPT !.dir = @ + 1]
WriteTime == now.ws < MaxWrites /\ now' = [now EXCEPT !.ws = @ + 1]

\* The client's process ends; an upload or a call of Apply that it waited for goes on.
Abandoned(f) == [h \in DOMAIN f |-> [f[h] EXCEPT !.mine = FALSE]]
Gone == run' = Idle /\ calls' = Abandoned(calls) /\ puts' = Abandoned(puts)

-----------------------------------------------------------------------------
(* The client: Sync. *)

\* EnsureSession, then the walk of the directory.
Begin ==
    /\ run.pc = "idle"
    /\ run' = [Idle EXCEPT !.pc = "walk"]
    /\ there' = TRUE
    /\ calm' = TRUE
    /\ UNCHANGED <<now, client, blobs, ws, rec, uploads, calls, linger, raced>>

Listed(p, sha, mtime) ==
    [run EXCEPT !.pc = "walk", !.look = 0, !.at = @ + 1, !.man = Put(@, p, [sha |-> sha, mtime |-> mtime])]

\* The cache has the sha of a file of this identity.
Known(p) == p \in DOMAIN cache /\ cache[p].mtime = dir[p].mtime

\* The next file is looked at.
Look ==
    LET p == run.at
    IN  /\ run.pc = "walk" /\ p \in Paths
        /\ run' = IF p \notin DOMAIN dir THEN [run EXCEPT !.at = @ + 1]
                  ELSE IF Known(p) THEN Listed(p, cache[p].sha, cache[p].mtime)
                  ELSE [run EXCEPT !.pc = "read", !.look = dir[p].mtime]
        /\ UNCHANGED <<now, client, host, uploads, calls, linger, calm, raced>>

\* Mutated form of Saved: a file's identity is the one it has when the cache is saved.
SavedAsNow ==
    Override(cache, [p \in DOMAIN run.man \cap DOMAIN dir |-> [run.man[p] EXCEPT !.mtime = dir[p].mtime]])

\* The cache with what was hashed.
Saved == Override(cache, run.man)

\* ... and read, if it is still there; its identity is the one seen before.
Read ==
    /\ run.pc = "read"
    /\ IF run.at \in DOMAIN dir
         THEN /\ run' = Listed(run.at, dir[run.at].data, run.look)
              /\ UNCHANGED cache
         ELSE /\ run' = Idle
              /\ cache' = Saved
    /\ UNCHANGED <<now, dir, host, uploads, calls, linger, calm, raced>>

\* The walk is over: the cache is saved, and the host says which blobs it does not have.
Missing ==
    /\ run.pc = "walk" /\ run.at = N + 1
    /\ cache' = Saved
    /\ run' = [run EXCEPT !.pc = "upload", !.at = 1, !.miss = Shas(run.man) \ DOMAIN blobs]
    /\ UNCHANGED <<now, dir, host, uploads, calls, linger, calm, raced>>

\* Mutated form of TempName: one name for each blob, as PutBlob has it.
TempNameOfSha(h, sha) == sha

\* The name of an upload's temporary file: CreateTemp gives each its own.
TempName(h, sha) == h

Serving(h) == h \in DOMAIN puts \/ calls[h].pc # "free"

\* The last file listed with a missing sha is opened and sent, as it is now; the host
\* writes what arrives to a temporary file and sums it up.
Upload(sha, h) ==
    LET p == CHOOSE q \in Paths : /\ q \in DOMAIN run.man /\ run.man[q].sha = sha
                                  /\ \A r \in DOMAIN run.man : run.man[r].sha = sha => r <= q
    IN  /\ run.pc = "upload" /\ sha \in run.miss /\ ~Serving(h)
        /\ \/ /\ p \in DOMAIN dir
              /\ \E data \in {dir[p].data, Torn} :
                    /\ puts' = Put(puts, h, [sha |-> sha, sum |-> data, mine |-> TRUE])
                    /\ temp' = Put(temp, TempName(h, sha), data)
              /\ run' = [run EXCEPT !.pc = "sending"]
           \/ /\ p \notin DOMAIN dir
              /\ run' = Idle
              /\ UNCHANGED uploads
        /\ UNCHANGED <<now, client, host, calls, linger, calm, raced>>

\* The upload is over, and the client, if it still waits, has the host's answer.
Uploaded(h, ok) ==
    /\ puts' = Keep(puts, Handlers \ {h})
    /\ temp' = Keep(temp, DOMAIN temp \ {TempName(h, puts[h].sha)})
    /\ run' = IF ~puts[h].mine THEN run
              ELSE IF ok THEN [run EXCEPT !.pc = "upload", !.miss = @ \ {puts[h].sha}]
              ELSE Idle

\* What arrived is what was announced: the temporary file is renamed to the blob.
PutBlobFrom(h) ==
    /\ h \in DOMAIN puts /\ puts[h].sum = puts[h].sha
    /\ LET name == TempName(h, puts[h].sha)
       IN  name \in DOMAIN temp /\ blobs' = Put(blobs, puts[h].sha, temp[name])
    /\ Uploaded(h, TRUE)
    /\ UNCHANGED <<now, client, ws, rec, there, calls, linger, calm, raced>>

\* ... or it is not, or the copy or the rename fails.  What remains of a temporary file
\* is never looked at again.
PutBlobFails(h) ==
    /\ h \in DOMAIN puts
    /\ Uploaded(h, FALSE)
    /\ UNCHANGED <<now, client, host, calls, linger, calm, raced>>

-----------------------------------------------------------------------------
(* The host: Apply. *)

\* A change that call h makes is one made under another run's mirroring.
Intrudes(h) == run.pc \in {"applying", "synced"} /\ ~calls[h].mine

\* The record as it may be found: it cannot be read while a call writes it.
Found == {rec} \cup {<<>> : h \in {g \in Handlers : calls[g].pc = "save"}}

\* Apply begins: it reads the record.
Apply(h) ==
    /\ run.pc = "upload" /\ run.miss = {} /\ ~Serving(h)
    /\ \E old \in Found :
          calls' = [calls EXCEPT ![h] = [Free EXCEPT !.pc = "files", !.man = run.man,
                                                     !.old = old, !.mine = TRUE]]
    /\ run' = [Idle EXCEPT !.pc = "applying"]
    /\ there' = TRUE
    /\ UNCHANGED <<now, client, blobs, ws, rec, uploads, linger, calm, raced>>

\* The client has the host's answer.
Answer(h, ok) ==
    run' = IF ~calls[h].mine THEN run
           ELSE IF ok THEN [run EXCEPT !.pc = "synced"] ELSE Idle

\* Mutated form of Unchanged: that the last Apply wrote it is enough.
UnchangedByRecord(c, p) == p \in DOMAIN c.old /\ c.old[p].sha = c.man[p].sha

\* The file is as the last Apply left it.
Unchanged(c, p) ==
    /\ p \in DOMAIN c.old /\ c.old[p].sha = c.man[p].sha
    /\ p \in DOMAIN ws /\ ws[p].mtime = c.old[p].mtime

\* The next path of the manifest: nothing to do, or its file is left alone.
FileSkip(h) ==
    LET c == calls[h]
        p == c.at
    IN  /\ c.pc = "files" /\ p \in Paths
        /\ p \in DOMAIN c.man => c.man[p].sha \in DOMAIN blobs /\ Unchanged(c, p)
        /\ calls' = [calls EXCEPT ![h].at = @ + 1,
                                  ![h].new = IF p \in DOMAIN c.man THEN Put(@, p, c.old[p]) ELSE @]
        /\ UNCHANGED <<now, client, run, host, uploads, linger, calm, raced>>

\* The workspace with a blob copied to p.
Copied(p, sha) == Put(ws, p, [data |-> blobs[sha], mtime |-> now'.ws])

\* Its blob is copied; if it is not there Apply gives up, and leaves the record as it is.
FileCopy(h) ==
    LET c == calls[h]
        p == c.at
    IN  /\ c.pc = "files" /\ p \in DOMAIN c.man
        /\ IF c.man[p].sha \notin DOMAIN blobs
             THEN /\ Answer(h, FALSE)
                  /\ calls' = [calls EXCEPT ![h] = Free]
                  /\ UNCHANGED <<now, ws, there, calm>>
             ELSE /\ ~Unchanged(c, p)
                  /\ WriteTime
                  /\ ws' = Copied(p, c.man[p].sha)
                  /\ there' = TRUE
                  /\ calls' = [calls EXCEPT ![h].pc = "stat"]
                  /\ calm' = (calm /\ ~Intrudes(h))
                  /\ UNCHANGED run
        /\ UNCHANGED <<client, blobs, rec, uploads, linger, raced>>

\* ... and looked at for the record, as it is by then.
FileStat(h) ==
    LET c == calls[h]
        p == c.at
    IN  /\ c.pc = "stat"
        /\ calls' = [calls EXCEPT ![h].pc = "files", ![h].at = @ + 1,
                        ![h].new = IF p \in DOMAIN ws
                                     THEN Put(@, p, [sha |-> c.man[p].sha, mtime |-> ws[p].mtime])
                                     ELSE @]
        /\ raced' = (raced \/ (p \in DOMAIN ws /\ ws[p].data # c.man[p].sha))
        /\ UNCHANGED <<now, client, run, host, uploads, linger, calm>>

\* The workspace without what is not in the manifest.
Pruned(man) == Keep(ws, DOMAIN man)

Prune(h) ==
    /\ calls[h].pc = "files" /\ calls[h].at = N + 1
    /\ ws' = Pruned(calls[h].man)
    /\ calm' = (calm /\ ~(Intrudes(h) /\ ws' # ws))
    /\ calls' = [calls EXCEPT ![h].pc = "save", ![h].old = <<>>]
    /\ UNCHANGED <<now, client, run, blobs, rec, there, uploads, linger, raced>>

\* The record is written, if there is a directory for it, and Apply returns.  Nobody looks
\* whether the write failed, or was mixed with that of another call.
ApplyEnd(h) ==
    /\ calls[h].pc = "save"
    /\ rec' \in IF there THEN {calls[h].new, <<>>} ELSE {rec}
    /\ Answer(h, TRUE)
    /\ calls' = [calls EXCEPT ![h] = Free]
    /\ UNCHANGED <<now, client, blobs, ws, there, uploads, linger, calm, raced>>

Delete ==
    /\ there
    /\ ws' = <<>> /\ rec' = <<>> /\ there' = FALSE
    /\ calm' = (calm /\ run.pc \notin {"applying", "synced"})
    /\ UNCHANGED <<now, client, run, blobs, uploads, calls, linger, raced>>

-----------------------------------------------------------------------------
(* Jobs, and the end of a run. *)

\* The host runs the command in the workspace, or refuses it.
Exec ==
    /\ run.pc = "synced"
    /\ \/ run' = [run EXCEPT !.pc = "exec"]
       \/ run' = Idle
    /\ UNCHANGED <<now, client, host, uploads, calls, linger, calm, raced>>

\* A job writes a file of its workspace, or removes one.
JobWrite(p, data) ==
    /\ run.pc = "exec" \/ linger
    /\ there
    /\ \/ /\ WriteTime
          /\ ws' = Put(ws, p, [data |-> data, mtime |-> now'.ws])
       \/ /\ p \in DOMAIN ws
          /\ ws' = Keep(ws, Paths \ {p})
          /\ UNCHANGED now
    /\ calm' = (calm /\ run.pc \notin {"applying", "synced"})
    /\ UNCHANGED <<client, run, blobs, rec, there, uploads, calls, linger, raced>>

\* The client's job ends, or the job of a client that is gone.
JobEnd ==
    /\ \/ run.pc = "exec" /\ run' = [run EXCEPT !.pc = "pull"] /\ UNCHANGED linger
       \/ linger /\ linger' = FALSE /\ UNCHANGED run
    /\ UNCHANGED <<now, client, host, uploads, calls, calm, raced>>

\* The files of the workspace that the host sends.
Fetch(globs) == Keep(ws, globs)

\* Files of the workspace are fetched into the directory, and the run is over.
Pull(globs) ==
    /\ run.pc = "pull"
    /\ LET got == Fetch(globs)
       IN  /\ IF DOMAIN got = {} THEN UNCHANGED now ELSE EditTime
           /\ dir' = Override(dir, [p \in DOMAIN got |-> [data |-> got[p].data, mtime |-> now'.dir]])
    /\ run' = Idle
    /\ UNCHANGED <<cache, host, uploads, calls, linger, calm, raced>>

\* The client's process ends early, or loses its connection.  The host stops a job
\* that it ran, in time.
Interrupt ==
    /\ run.pc # "idle"
    /\ Gone
    /\ linger' = (linger \/ run.pc = "exec")
    /\ UNCHANGED <<now, client, host, temp, calm, raced>>

\* The directory's owner writes a file, or removes one.
Edit(p, data) ==
    /\ \/ /\ EditTime
          /\ dir' = Put(dir, p, [data |-> data, mtime |-> now'.dir])
       \/ /\ p \in DOMAIN dir
          /\ dir' = Keep(dir, Paths \ {p})
          /\ UNCHANGED now
    /\ calm' = FALSE
    /\ UNCHANGED <<cache, run, host, uploads, calls, linger, raced>>

\* The daemon ends and is started again.  A record that was being written may be
\* truncated, and then is not read.  Jobs live on.
Crash ==
    /\ rec' \in Found
    /\ calls' = [h \in Handlers |-> Free]
    /\ puts' = <<>> /\ temp' = <<>>
    /\ run' = IF run.pc \in {"sending", "applying", "exec"} THEN Idle ELSE run
    /\ linger' = (linger \/ run.pc = "exec")
    /\ UNCHANGED <<now, client, blobs, ws, there, calm, raced>>

Next ==
    \/ Begin \/ Look \/ Read \/ Missing \/ Exec \/ JobEnd \/ Interrupt
    \/ \E h \in Handlers :
          (\E sha \in Contents : Upload(sha, h)) \/ PutBlobFrom(h) \/ PutBlobFails(h)
    \/ \E h \in Handlers : Apply(h) \/ FileSkip(h) \/ FileCopy(h) \/ FileStat(h) \/ Prune(h) \/ ApplyEnd(h)
    \/ \E p \in Paths, data \in Contents : JobWrite(p, data) \/ Edit(p, data)
    \/ \E globs \in SUBSET Paths : Pull(globs)
    \/ Delete
    \/ Crash

Spec == Init /\ [][Next]_vars

-----------------------------------------------------------------------------
(* Properties. *)

\* Apply gives up on a "missing blob" (session.go:171) that its client was to "upload
\* first": it never has to, and each blob it copies has the content that the client
\* listed, although files change after they were listed and while they are sent, uploads
\* of clients that are gone overlap with those of the next, and the daemon ends amid them.
Delivered ==
    \A h \in Handlers : calls[h].pc \in {"files", "stat"} =>
        \A sha \in Shas(calls[h].man) : sha \in DOMAIN blobs /\ blobs[sha] = sha

\* "remembers each file's sha256 by its identity" (hashcache.go:14): a cached sha that
\* is going to be used is that of the file, although files change between the look
\* and the read, and whenever the process ends.
CacheTrue ==
    \A p \in DOMAIN cache \cap DOMAIN dir : cache[p].mtime = dir[p].mtime => cache[p].sha = dir[p].data

Contains(f) == [p \in DOMAIN f |-> f[p].data]

\* "so the workspace exactly matches the client" (session.go:149-150): when a sync
\* succeeds during which nobody else changed the directory or the workspace, the
\* workspace has the directory's files and no others, whatever earlier runs, crashed
\* or interleaved calls and jobs left in the workspace, the record and the cache.
\* What can spoil it is a record that was taken of another's file.
SyncExact == run.pc = "synced" /\ calm /\ ~raced => Contains(ws) = Contains(dir)

=============================================================================
