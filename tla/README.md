# gmux in TLA+

gmux shares the GPUs of one machine among jobs.  A daemon owns the cards; a
pure scheduler decides who gets which seats of which card, the daemon carries
the decisions out on processes, a ledger records who held what, a network fence
confines jobs, and clients reach the daemon over a local socket or, through
sessions that mirror a directory, from another machine.

This directory holds a TLA+ model of the parts of gmux where correctness
depends on orders of events: the model checker TLC explores small instances
completely, and TLAPS proves every safety property that the runs check for every
instance.

## The system and its parts

| part | state it keeps | operations | hard behaviours | what makes it correct |
|---|---|---|---|---|
| scheduler (`internal/scheduler`, `internal/share`) | cards, `running`, `queue`, `next` | Admit, Release, Evict, Requeue, Cancel, Resize, SetDown | long sequences of calls; seat numbers and counts kept apart; preemption with pruning; unequal cards | no seat held twice, no card overcommitted, gangs whole, preemption justified, no priority inversion |
| daemon (`internal/daemon/daemon.go`) | `jobs`, the scheduler, the ledger | Submit, reap, Stop, Resize | reapers, callers and signals interleave; launches fail; jobs are paused and started again | its maps, the scheduler and the processes agree; what ends stays ended; what waits starts; Stop ends |
| runtime (`internal/runtime`) | one process per start | Start, Signal, Stop | exit races signals | a stop ends the process |
| ledger (`internal/accounting`) | open intervals, the file | Begin, End, Usage | a report races an End; a crash in a write | nothing counted twice, nothing lost |
| streaming exec (`internal/daemon/exec.go`, `internal/api/remote.go`) | `prepareStreaming`, pipes, channels | SubmitStreaming, exec | a hook handed over through a shared field; goroutines that wait for each other | a caller gets its own job's output and exit code |
| sessions (`internal/session`) | blobs, workspaces, what the last Apply wrote | Missing, PutBlobFrom, Apply, Fetch, Delete | calls of Apply that outlive their client; jobs that write meanwhile; a crash in a write | a blob is what its name says; a workspace is what its manifest says |
| remote client (`internal/remote`) | hash cache | Sync, Exec, Pull | files that change between look, hash and upload | what is run is what was synced |
| host choice (`cmd/gmux/hosts.go`) | `remotes.json` | remote add, rm, default; run | commands that overwrite each other; a host that fills up between the look and the submit | the default is listed; the job goes where the most room is |
| fence (`internal/fence`, `internal/daemon/fence_linux.go`) | a table of the job's sockets, the listener, a proxy | startFence, onSocket, onConnect, onDup, the proxy | a child that dies in the handshake; races with a multi-threaded job; notifications that die | the command never runs unsupervised; the table is true; nothing outlives the job |
| GPU backends (`internal/gpu`) | per card control daemons | Discover, Start, JobEnv, Suspend, Resume | vendor tools that fail half way | masks of two jobs are disjoint |
| shim (`shim/gmux_shim.c`) | bytes reserved, a table of pointers | hooked_alloc, hooked_free | threads; a full table; unsigned arithmetic | never more than the cap |
| CLI, SDK, API plumbing | none | parsing and printing | | |

The daemon calls the scheduler only with `d.mu` held, so a scheduler call is one
step.  The daemon and its callers meet at `d.mu` too; between two critical
sections (while Stop waits out its grace period, while a reaper waits for its
process) anything else may happen.  The ledger has a lock of its own, and its
reports run without `d.mu`.

## The modules

* `Placement.tla`: the scheduler's decisions as operators on a map of placed
  jobs: what a request needs on a card, which cards and which numbered seats it
  is given (best fit, all or nothing), whom it may push off, what the queue
  starts when room opens up, what a resize does.
* `Scheduler.tla` (extends `Placement`): the scheduler as its callers see it,
  `running`, `queue`, `next` and the cards out of service (`down`), with one
  action per method, for any sequence of calls.
* `Daemon.tla` (extends `Placement`): the daemon, its jobs, their processes and
  the open intervals of the ledger.  One action is one critical section of
  `d.mu`, so `Submit` is one step with its preemptions, its launch and the
  undoing of a failed launch; a process's exit (`ProcExit`), its reaper (`Reap`),
  the first half of a Stop (`StopSignal`) and its SIGKILL (`StopKill`) are steps
  of their own.  A process is named by the admission order of the placement it
  was started for.
* `Ledger.tla`: the open intervals, the file as lines, one report at a time.  End
  is two steps (out of the memory, into the file) and so is Usage (the file, then
  the memory).  A write may fail between lines or within one (`Cuts`), and the
  daemon may crash in any state.  History variables say how long each interval was
  really held, which ones End confirmed, and which ones a failure destroyed.
* `Stream.tla`: remote exec.  The hook through which `SubmitStreaming` tells the
  daemon where a job's output goes, and the five goroutines of an exec call: the
  handler, two scanners, the closer and the watcher.  The scheduler is reduced to a
  number of jobs that run at a time and a queue, and launching from the queue
  succeeds (`Daemon.tla` has what is left out).
* `Owners.tla`: the abstract specification of the scheduler: seats have owners, and
  ownership changes in three ways (somebody enters, perhaps pushing others off
  altogether; somebody leaves and others begin; somebody's share grows or shrinks in
  place).  `Scheduler.tla` maps its placements to it (`Holds`), and `SeatsOwned` is the
  refinement.
* `Session.tla`: the client's sync and the host's store together.  The client is one
  process at a time (`run`), walking its directory with the hash cache, uploading and
  waiting for Apply.  An upload is a handler of the host (`puts`) that writes a temporary
  file of its own (`temp`) while it sums up what arrives, and renames it into the store if
  the sum is the name; it may be cut short (`Torn`), fail, and go on when its client is gone.
  Apply is a call of the host (`calls`) that copies file by file,
  looks at each file for its record, prunes and writes the record, and goes on when
  its client is gone too.  Jobs write in the workspace, the owner edits the directory
  at any time, and the daemon crashes.
* `Hosts.tla` (extends `Placement`): `remotes.json` with the commands that read, change,
  truncate and write it, and a run that asks hosts one by one, chooses with the
  client's own reckoning and submits to the host's scheduler, which is `Placement`.
* `Fence.tla`: the start handshake between the daemon, the child and the supervisor, and
  then the job's threads, the supervisor and the kernel around the table of
  descriptors.  The supervisor receives a notification, handles it and replies in three
  steps (`Receive`, `Handle`, `Reply`; `hand` is what it has received), and a call that is
  let through is carried out by the kernel later (`Kernel`).  Until the reply a signal may
  take the call back (`Signal`): one that was received loses its reply, but not what the
  table was told; one that was not (`lost`) makes NOTIF_RECV fail, and then Serve is over.
  Sockets that the supervisor stops following are in `loose`.
* `SeatMask.tla` (extends `Scheduler`): which compute units of an AMD card a job gets for
  its numbered seats.  A step is any call of the scheduler together with what the daemon
  does on it (`StartLocked`): what was placed is started with a mask for its seats, what
  was taken off goes, and what was resized keeps the mask it has.  A job with a slot of 100
  percent has no mask: one with all seats, and one of `Bursty`, whatever its seats.
* `Shim.tla`: the memory cap: reserve, allocate, remember, and forget, release, free, for
  several threads, with sums modulo `Word` (2^64 in the code) and an open-addressed
  table with marks.
* The `MC` modules: the instances for TLC.
* `PlacementProofs.tla` (lemmas about the scheduler's operators), `SchedulerProofs.tla` (the
  scheduler, and `SeatMask` and `Hosts`, which rest on its reckoning),
  `DaemonProofs.tla`, `LedgerProofs.tla`, `StreamProofs.tla`, `SessionProofs.tla`,
  `FenceProofs.tla`, `ShimProofs.tla`: the proofs, each extending the modules it is about.

Operators whose comment begins with "Mutated form of" are deliberate mistakes.
Each is put in the place of the operator it names to see that a property notices;
no specification uses them.

### How state and actions correspond to the code

A share is an integer number of parts of size `1/Unit` and memory is an integer
number of units, so that rounding (`Seats`, `DefaultMem`) is as in the code
without floating point.  The maps of ids to ignore, which `usage`, `occupied` and
`fit` take, become removal of those jobs from the map (`Without`).  Sorting is
by strict orders given as sets of pairs (`BestFit`, `VictimOrder`), and a prefix
of a sorted slice is `FirstK`.  The sum over jobs is the size of a disjoint union
(`SumOf`), which TLC evaluates and the provers can reason about without
recursion.  A call that returns an error and changes nothing is not a step.
Memory amounts are natural numbers: the command line accepts no others.

In `Daemon`, starting a process may fail (`LaunchMayFail`) and a backend may fail
to suspend one (`SuspendMayFail`): the daemon ignores the second, and the
process then runs on while its job is shown as paused.  A job that is started
again after it was paused gets a new process; its old one stays stopped for
ever unless a Stop kills it.  Ids are fresh: the id of a job is never made twice.

## Runs

| run | instance | what it shows |
|---|---|---|
| `scheduler` | 3 ids, a card of 4 seats and one of 2 with less memory, 3 kinds of jobs, 4 placements in all, a queue of 2, one card going in and out of service | the cards stay divided and within capacity, gangs whole; preemption is justified; draining never inverts priorities; the scheduler implements `Owners`, so nobody is moved and nobody but the one concerned loses a seat |
| `daemon` | 3 jobs, one card of 2 seats, preemption, failing launches and suspends, resizes, 5 placements | the daemon's maps, the scheduler, the ledger and the processes agree in every state; exited jobs stay exited |
| `daemon_live` | 3 jobs, 2 cards, halves and gangs, no preemption, no failures, no resizes | no seat is held by nobody; who waits is in the queue, and waits only while there is no room; a queued job starts or is stopped, once no more jobs arrive; Stop ends a job |
| `stop_paused` | one card, preemption, no failures | violated (`NoGhost`): a job that ends while it is paused is given seats again |
| `ledger` | 2 jobs on up to 2 cards, 3 intervals, 3 instants, all failures | reports never count too much, and are exact when no End is under way; what was synced stays readable, but for one record per write cut within a line |
| `stream` | one exec call, one local submission, one job that runs already, 2 lines per job, a channel of one event | a channel goes to one job; output before the exit code; an answer when the job ends; a client that leaves takes its job along |
| `own_code` | one exec call, one local submission | violated: the client is given another job's exit code |
| `session` | one file, 2 contents, 2 handlers (uploads and calls of Apply) at a time, 1 edit and 3 writes in the workspace | Apply finds in the store what the client listed; cached hashes are true; a sync that nobody disturbs leaves an exact mirror, whatever was there before |
| `hosts` | 2 unequal hosts, 2 commands at a time, 3 kinds of jobs, 2 local jobs | the default is always a listed host; the job goes to the host with the most room as long as none has changed since it was asked |
| `fence` | 2 threads, 2 descriptors, signals at any step | no command before its supervisor, none without it unless a call was taken back before it was received, no leftovers of a failed start; the table agrees with the descriptors but for the sockets that the supervisor lets go of; the start returns; the proxy closes |
| `seat_mask` | a card of 4 seats in 7 shapes, 3 ids, jobs of all sizes, one that bursts, preemption, resizes, a queue of 1, 4 placements in all | whatever the scheduler is asked, jobs that do not burst and were not resized have units of their own |
| `shim` | 2 threads, sums modulo 8, a table of 3 places | the cap holds; the count is exact |

The violated properties state what a comment of the repository says, and
`PROJECT.json` quotes it.  The largest runs are `session` (2,390,658 distinct states),
`ledger` (1,540,292), `fence` (690,875) and `seat_mask` (221,256).

### Differences with no run of their own

These follow from the modules by changing a constant or dropping a condition of a
property:

* `victims` takes the shortest sufficient prefix of its order and prunes it; the result
  is minimal (`PreemptionJustified`), but not always "the smallest set"
  (`scheduler.go:292`): two small jobs may be pushed off where one big one would do.
* On unequal cards `fit` returns the error of a card that is too small instead of
  "no room" (`scheduler.go:274`), so a job that asked to wait is refused although a
  bigger card, full at the moment, could run it.
* With resizes, `WaitsForRoom` fails: a job that shrinks opens up seats and nothing drains
  the queue (`main.go:231`: "it starts when a share opens up").
* With preemption, `StopEnds` fails: a Stop holds on to the process it took from the job,
  and a job that is pushed off and started again meanwhile has another one.
* With `LaunchMayFail`, `NoGhost` fails without any preemption, since a drained job that
  does not launch keeps its seats.
* Without `~raced`, `ExactWhenQuiet` fails, since a report that meets an End counts none of
  the interval that is on its way to the file; without its allowance for `cuts`,
  `SyncedKept` fails, since a record appended to an incomplete line is skipped with it.
* Without `Stuck`, `Answered` fails: a line beyond the scanner's limit ends the scanner,
  nobody reads the pipe any more, and the process is never reaped; and a client whose
  queued job is stopped by another is not answered, since Stop deletes the job and
  leaves its channel unused.
* Without `~raced`, `SyncExact` fails (`session.go:156-157`: "a file the job has since
  changed (size or mtime differ) is rewritten"): two calls of Apply for the same file, or
  a job that outlives its client, can change a file between Apply's copy and its look
  at the size and time, and the next sync takes that file for the applied one.
* Without `stale = {}`, `MostRoom` fails: a host that fills up after it was asked queues or
  refuses the job, and no other host is tried.
* Without `ArrivalsEnd`, `QueuedStarts` fails when ids do not run out: `Admit` gives a new job
  whatever room there is without a look at the queue (`scheduler.go:345-376`), so a queued
  gang or whole-card job may wait for ever behind a stream of small jobs although each of
  them ends.  In an instance with three ids the arrivals do end; the hypothesis says so.
* `TableAgrees` leaves out the sockets in `loose`, which the supervisor does not follow:
  - `onDup` lets a socket that is not yet connected be duplicated by the kernel and does not
    enter the duplicate in the table (`supervisor_linux.go:503`, "duped before connect;
    nothing to relay yet"), so a later connect of the duplicate is let through as that of a
    descriptor that is not ours.  The comment at `supervisor_linux.go:20-22`
    says "the job never holds a socket to an address of its own choosing".
  - a close, or a dup2 of something else onto a socket of ours, drops the entry before the
    reply and without a call of `valid` (`supervisor_linux.go:378`, `:495`).  If a signal
    takes the call back in between, the socket is still open and has no entry.
* Without `~lost`, `FencedOrGone` fails: `Serve` returns on every error of NOTIF_RECV but
  EINTR and EAGAIN (`supervisor_linux.go:355-362`), and a call that was taken back before it
  was received is such an error (ENOENT).  The proxy is then closed while the job goes on,
  whose later calls get no answer; the comments say "until the job is gone"
  (`supervisor_linux.go:348`, `fence_linux.go:11`).
* With bursting jobs counted in, `MasksApart` fails by design: their slot has 100 percent
  (`scheduler.go:166-170`), `JobEnv` then sets no mask (`amd.go:269`), and they run on the
  units of the others too.
* With resized jobs counted in, `MasksApart` fails: a process keeps the mask it was started
  with, while the scheduler gives the seats it gave up to others (`daemon.go:302-303`
  calls the re-application best effort).
* On a card with fewer units than `SeatMaskAssumption` asks for (one for each seat, say), or
  with 200 seats and more, `MasksApart` fails: the percentage of a job with all seats but
  one is rounded up to the whole card, and `JobEnv` then sets no mask (`amd.go:193`,
  `amd.go:269`).  At the default of 8
  seats that takes a card of fewer than 16 units.
* Without `~wrapped`, `CapHeld` fails: `used + size` is compared modulo `Word`
  (`gmux_shim.c:31`).
* With the blocks that are about to be freed counted in, `CapHeld` fails: `hooked_free`
  releases the bytes of a block before the driver frees it (`gmux_shim.c:158-159`), and
  another thread may be given them in between, so that for a while the card holds more than
  the limit; if the driver refuses to free the block, for good.

Bounds.  Two unequal cards are the fewest on which best fit, gangs, cards too
small for a job and fragmentation of seats all happen; three ids allow a
fragmented card, a pushed-off gang, a victim that turns out not to be needed and a
drain that starts two requests.  `MaxOrder` bounds the placements of
a behaviour and `MaxQueue` the queue; a call that would exceed one is not
explored.  In `daemon` five placements let a job be pushed off, started again and
pushed off again.  `daemon_live` has as many placements as ids and no preemption, so
the bound never blocks a step.  In `ledger` three intervals are a job on two cards
and another job; three instants give intervals that lie before, across and after
the start of a window.  In `stream` the channel holds one event, so that scanners
block on it, and two lines let one wait behind another.

In `session` one file is enough for what two calls of Apply, a job and the record do to
each other, since files are copied, looked at and skipped one by one and the record
has an entry for each; what one file cannot show is that a call gives up half way
through a manifest; the proofs are for any number.  The two handlers are two calls of
Apply, two uploads (one of a client that is gone, of the same content), or one of
each.  `MaxEdits` and `MaxWrites` bound the modification times of the
two sides: three writes in the workspace are two copies and a job's write between them.
In `hosts` a command starts only while there is no run (`NoRun`) and the hosts change only
while there is no command (`NoCommand`): a run reads the file once, and a command asks
of a host only whether it answers.  In `fence` two numbers let one be reused or
duplicated onto while the other is in use; the job makes sockets of one kind, and the calls
that leave the table alone on one of the numbers (`Program`), while the proofs are for any
trapped calls.  In `seat_mask` the shapes have whole and
broken rounds of units, engines with one seat and with several, and three that fall
back to blocks; three jobs on four seats, one of which may burst, leave scattered seats, and four placements let a
job be pushed off and started again from the queue on other seats.  In `shim` three places and more pointers give collisions, marks on a
search path and a full table, and sums modulo 8 wrap around.

Symmetry under permutation of ids is used for runs without liveness; nothing in
the model orders ids.

Fairness.  In `Daemon`, `FairSpec` assumes only what the daemon's own goroutines
give: a reaper whose process has ended runs (it waits for a channel and a mutex),
and a Stop whose grace period is over kills.  That commands end is no part of it:
`QueuedStarts` says so as a hypothesis (`CommandsEnd`), since otherwise a queued job
may rightly wait for ever; that jobs stop arriving is another (`ArrivalsEnd`).  In `Stream`, every goroutine of a call, the reapers and
the goroutines that copy output go on when they can; commands may run for ever.  In
`Fence`, the daemon's start, the child until it is the command, and the supervisor's
goroutine (receiving, handling, replying, and returning from Serve) go on while they can; the
job's threads and signals need not.
No fairness is assumed of callers or clients.  An idle daemon, ledger or handler is
a legitimate end, and so is a client, a job or a host at its bound, so these runs do
not check deadlock (in `Stream` goroutines that
wait for each other are what `Answered` and `TakenAlong` are about, in `Fence`
`StartReturns`); the scheduler's, the seat masks' and the shim's runs do.

## Proofs

Every theorem below is for all values of the constants that satisfy the named
assumption of the module: any number of cards, jobs, threads, files or calls, and any
bounds.  Each has the same shape: an inductive invariant, that `Init` implies it, one
lemma per action (or per operator that several actions share) that the step keeps
it, and the property from it.

| module | theorems (property) | assumption |
|---|---|---|
| `SchedulerProofs` | `TypeCorrect`, `SeatsAlwaysDivided`, `NeverOvercommitted` (`WithinCapacity`), `GangAlwaysWhole`, `PreemptionAlwaysJustified`, `NeverInverted` (`NoInversion`), `ImplementsOwners` (`SeatsOwned`) | `PlacementAssumption`, `SchedulerAssumption`: finitely many ids and cards, a seat on each, natural memory |
| `SchedulerProofs`, of `SeatMask` | `MasksAlwaysApart` | also `SeatMaskAssumption`: fewer than 200 seats, two units or more for each, a round for each seat of an engine, requests of one card |
| `SchedulerProofs`, of `Hosts` | `DefaultAlwaysListed`, `MostRoomAlways` | `PlacementAssumption`, `HostsAssumption`: hosts have cards of their own, no request is preemptible, the run's id is its own |
| `DaemonProofs` | `TypeCorrect`, `CardsAlwaysDivided`, `ViewsAlwaysAgree`, `RunningAlwaysRuns`, `AlwaysWaitsOnce`, `ExitedStaysExited` (`ExitedForGood`); under `Gentle`: `NoGhosts`, `AlwaysInLine` (`WaitingInLine`), `AlwaysWaitsForRoom` | `PlacementAssumption`, `DaemonAssumption` |
| `LedgerProofs` | `TypeCorrect`, `NothingTwice` (`NeverOvercounts`), `CountedInFull` (`ExactWhenQuiet`), `ConfirmedStays` (`SyncedKept`) | `LedgerAssumption`: natural bounds, the known cuts |
| `StreamProofs` | `TapAlwaysOnce`, `TypeCorrect`, `AllAlwaysSent` | `StreamAssumption`: the sets of jobs are disjoint |
| `SessionProofs` | `CacheAlwaysTrue`, `AlwaysDelivered` (`Delivered`), `SyncAlwaysExact` | `SessionAssumption`: at least one path, a torn upload is no content |
| `FenceProofs` | `AlwaysFencedOrGone`, `TableAlwaysAgrees` | `FenceAssumption`, `ProgramAssumption`: finitely many numbers, at least one; the job's calls are trapped ones |
| `ShimProofs` | `CapAlwaysHeld`, `CountAlwaysExact` | `ShimAssumption`: finitely many threads, no pointer is 0, sizes fit in a word |

**Scheduler.**  `IInv` is `TypeOK`, `Sound(running)`, `OrdersApart` and `WaitsApart`.
`Sound` (in `PlacementProofs`) is the conjunction of `Divided`, `Bounded`, and "every
job holds what its request needs, under its own id".  None of the three is inductive
alone: the seats picked for a job are free and enough only because the counts bound
the seats that are occupied (`OccupiedBound`, `EnoughFree`), which needs that the
numbers and the counts of the others agree, and the counts stay bounded because `fit`
checks them.  The lemmas go bottom up: prefixes of finite strict orders
(`FirstKIsPrefix`, `InOrderIs`), sums over maps (`SumAdd`, `SumMonotone`),
`PickSeatsIs`, `PlaceSound`, `WithoutSound`, then `FitSound`, `VictimsMakeRoom`,
`ResizeSound` and `DrainIs`.  That victims are minimal (`PreemptionJustified`) follows
from the walk that prunes them (`VictimsWalk`, `VictimsNeeded`), for which no two
admission orders may be the same (`OrdersApart`), and from the fact that more jobs never
make more room (`FitMonotone`), which `NoInversion` needs too.  The refinement of
`Owners` is one case per action: `Holds` of the new state is that of the old but for who
enters, leaves or is resized; that a drain moves nobody needs that no placed job waits
and none waits twice (`WaitsApart`).

**Compute units.**  `MaskSpec` implies the scheduler's `Spec`, since a step of it is one of
the scheduler or a stutter (`MaskSched`), so `Sound(running)` holds throughout.
`MaskInv` adds what the scheduler does not know: the jobs with a mask are those on the
card, and a job that was not resized has just the mask of the seats it now holds, or
the whole card if it bursts.
`MasksFollow` then is a matter of arithmetic: masks of disjoint sets of seats are disjoint
(`SeatsMaskApart`), not empty and within the card (`SeatsMaskIs`), and miss something
while a seat is missing (`SeatsMaskPart`).  For blocks this rests on the monotony of
rounding down (`BlockIs`, `BlocksApart`); for engines on the fact that a unit has one
chiplet, one engine and one round (`UnitUnique`, from `DivUnique`), and that the rounds
of an engine are dealt by their remainder (`RoundsApart`).  `PercentIs` is why a job with
less than all seats that does not burst has a mask at all; it needs the bounds of the assumption.

**Hosts.**  `FileInv` says of the file, and of the copy that every command has in hand, that
the default is listed; a truncated file is read as an empty one.  For `MostRoom`,
`ClientInv` says that what `placed` holds is `Sound`, that what the run was told is true
of every host that has not changed since (`ClientOK`; a step at one host leaves what the
others say of their cards, `HostsMove`), and that a run which has chosen while there was
room has chosen `BestHost`.  The property then follows from two facts about the
operators: the client's rounding is the scheduler's for every share up to a whole card, so
it sees room just where the scheduler has it (`ClientReckons`, `RoomIs`), and the maximum
that `bestHost` takes exists and prefers the default (`MostExists`, `FirstNameIs`,
`BestHostIs`).

**Daemon.**  `DInv` has a part for each of the daemon's maps (`SchedOK`, `JobsOK`,
`ProcsOK`, `ViewsOK`), stated for any values of the maps, because Submit, the reapers and
Resize update several of them in turn: pausing victims (`PauseKeeps`), starting a set of
jobs (`StartKeeps`), draining (`DrainKeeps`) and ending one (`OverKeeps`) are lemmas the
actions share.  It holds whatever launches and suspends fail.  `NoGhost`, `WaitingInLine`
and `WaitsForRoom` are false in general (see the run `stop_paused` and the differences
above); the theorems state them under `Gentle`, that no launch fails and that no request
is preemptible, and the last one also for no resizes, which are the conditions of
`daemon_live`; the first two allow resizes, and the numbers of jobs, cards and seats are free.

**Ledger.**  `LInv` says of every place where an interval can be (the memory, the write
under way, the file, a report) that what is there is true, and that each interval is in
one of them, once.  `Confirmed` is what `SyncedKept` needs to be inductive: the confirmed
intervals that cannot be read, plus one if the last line is not terminated, are at most
the cuts, because the incomplete line has nothing that was confirmed, and harms one record
when it is continued.  `Full` is the corresponding strengthening of `ExactWhenQuiet`
for a report that has read the file and not yet the memory.  `GrownIs` says what a write,
whole or cut, makes of the file.  The sums of seconds are sizes of sets, so that nothing
is proved by induction.

**Stream.**  `TapOnce` alone is not inductive: a job takes whatever hook is in the field, so
`TInv` adds that a hook in the field is no job's yet and that a call which has not
begun has left no hook anywhere (`HookFree`).  `SInv` adds to it a balance (`Flow`: what
was written was sent, is in the channel, or is with a scanner or a copying goroutine)
and the order in which the parts close (`Reaped`, `Shutting`), so that nothing is left of
the last two when a call returns.

**Session.**  Four invariants: what the client's cache and
manifest say of files that have not changed since is true (`ClientInv`); the same of
the host's records, unless two parties raced for a file (`HostInv`); what is in the store and
on the way there (`StoreInv`); and how far a
walk or a call of Apply has come with an undisturbed directory (`MirrorInv`).  `StoreInv` has
that each upload under way has a temporary file of its own whose content is what was summed
up, so that a rename puts what the name says into the store; that what a run has listed is
in the store or among what it still has to send; and that of a call of Apply all is there.
That nothing leaves the store again is part of the argument: only uploads change it.  The
four rest on each other's parts and are proved in one induction (`SpecSession`).

**Fence.**  The start is a finite product of the parties' places (`Started`).  For the
table, `FInv` says that what the supervisor has in hand is the call of its thread, if that
was not taken back, and never about a descriptor that a call with the kernel is about
(`InHand`); what a call that was let through relies on until the kernel carries it
out (`Told`); that calls in flight are about different descriptors (`Apart`, `Holds`,
`Claims`), as a program that works uses them; that no entry outlives its socket (`Listed`);
and that the table agrees with every descriptor that is not loose and that neither a call
with the kernel nor a reply to come (`Dropped`) is about to change.  `Decided`, `Passed` and
`Injected` are the three things that handling a call does to it.

**Shim.**  `ShimInv` is a balance: what is counted is what threads have reserved and not
yet allocated, and what is on the card and not about to be freed.  That a free releases
what was counted is a matter of the table (`Mapped`, `Kept`): it has no block twice, none
that a thread has in hand, and the search for a block meets no place that was never in
use.

Only model-checked: liveness (`QueuedStarts`, `StopEnds`, `Answered`, `TakenAlong`,
`StartReturns`, `ProxyCloses`), since fairness and ENABLED are out of the prover's reach.
Every invariant and every action property of the passing runs is a theorem.

## Abstractions of the newer modules

* `Session`: a file's content stands for its hash, and all that stat shows of a file is one
  number, which differs between any two writes.  With a clock too coarse to tell two
  writes of one size apart, neither the record nor the cache could notice the second;
  the model leaves that out.  `PutBlob` (only tests call it), file modes and the reset
  of a cache of more than 200000 entries are left out.
* `Hosts`: names are numbers in their order; the hosts' cards are those of one `Placement`,
  the other hosts' being out of service for each.  `runRemote` sends neither gpus nor
  priority, preemptible or burst, and neither do the requests here.  Two commands
  may lose each other's change; `DefaultListed` is what they keep nevertheless.  Other
  commands (`pick`) go to the default host and change nothing here.
* `Fence`: the job is one process.  Several processes share the supervisor's table by
  number, a descriptor that is closed on exec is closed without a call, and relay
  descriptors of the daemon are not closed when their entry goes: none of this is
  modelled.  The job uses descriptors as a program that works does (see the
  module's head).  The listener is assumed to wake up when the job has ended, as
  current kernels do.
* `SeatMask`: a mask is a set of units.  The contiguous fallback for a job without seat
  numbers is unreachable, since the scheduler always numbers them.  Jobs on several cards
  are left out: each card's mask is written to the same variables, and the last one
  counts for all.  So are suspends and launches that fail (`Daemon.tla` has both).
* `Shim`: the limit has been read before the first call.  A driver's free never fails (the
  differences say what follows if it does).

## Not modelled, and the plan

Left out of what is modelled: the compute percentage and the burst flag (but for masks),
names of cards and jobs; the environment that backends build for a job, but for masks;
exit codes beyond whose they are; the grouping of usage rows; negative memory amounts.

What could come next: jobs on several cards in `SeatMask`, with a decision on what their
shared variables should say; the session store and the daemon in one module, to see a
workspace deleted under a queued job.

Not planned: the API plumbing, the command line and the SDK, which parse, print and
keep no state; discovery of GPUs, which parses the output of vendor tools; the
parsers and the relay of the proxy (TLS server names, HTTP heads, DNS questions), which
are bytes in, verdict out; the NVIDIA and Intel backends' environment, which is a fixed
function of a placement.
