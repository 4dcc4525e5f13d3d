------------------------------- MODULE Ledger -------------------------------
(***************************************************************************)
(* gmux's usage ledger (internal/accounting/accounting.go): intervals are    *)
(* open in memory while jobs hold their shares, and closed ones are appended *)
(* to a file of lines.  The daemon calls Begin and End with d.mu held, one   *)
(* at a time; reports (Usage) take only the ledger's own lock, and read the  *)
(* file without it.  The daemon may crash and open the file again.           *)
(*                                                                          *)
(* End is two steps (the intervals leave the memory, then reach the file),   *)
(* and so is Usage (the file is read, then the memory).  A scan of the file  *)
(* that meets a write sees the lines before it: the last, incomplete one is  *)
(* skipped.  An interval is known by its number; whose it is, and the size   *)
(* of its share, on which nothing depends, are left out with the grouping.   *)
(***************************************************************************)
EXTENDS Integers, Sequences, FiniteSets

CONSTANTS
    Jobs,      \* jobs whose intervals are recorded
    MaxSlots,  \* bound: cards that a job holds
    Cuts,      \* what of a line can be in the file when a write fails there
    MaxIv,     \* bound: intervals in all
    MaxClock   \* bound: the time

ASSUME LedgerAssumption ==
    /\ MaxSlots \in Nat /\ MaxIv \in Nat /\ MaxClock \in Nat
    /\ Cuts \subseteq {"nothing", "half", "unterminated"}

VARIABLES
    clock,
    open,    \* l.open: the open intervals of each job
    ending,  \* what End has taken from l.open and has yet to write
    file,    \* the file's lines: of each, the records (whole or not) that run together in it
    fresh,   \* whether the file's last line is terminated: the next write begins a line
    reader,  \* a call of Usage: what it has done, its window and the intervals it has: those of
             \* the file's lines and those of the memory's
    held,    \* history: when each interval began and ended
    kept,    \* history: the intervals for which End has returned nil
    lost,    \* history: the intervals that a crash or a failed write left out of the file
    cuts,    \* history: how many writes were cut short within a line
    raced    \* history: whether an End was under way during the call of Usage

vars == <<clock, open, ending, file, fresh, reader, held, kept, lost, cuts, raced>>

NoEnd == -1

Interval == [n : Nat, start : Nat, end : Nat \cup {NoEnd}]

Idle == [pc |-> "idle", since |-> 0, until |-> 0, recs |-> <<>>, live |-> <<>>]

Numbers(s) == {s[i].n : i \in DOMAIN s}

\* What is open is held, and what is not open is not.
TypeOK ==
    /\ clock \in Nat
    /\ \A j \in Jobs : \A i \in DOMAIN open[j] :
          open[j][i] \in Interval /\ open[j][i].start = held[open[j][i].n].start
    /\ UNION {Numbers(open[j]) : j \in Jobs} = {n \in DOMAIN held : held[n].end = NoEnd}
    /\ \A i \in DOMAIN ending : ending[i] \in Interval /\ ending[i].end \in Nat
    /\ fresh \in BOOLEAN /\ raced \in BOOLEAN
    /\ reader.pc \in {"idle", "read", "done"}
    /\ \A i \in DOMAIN reader.recs : reader.recs[i] \in Interval
    /\ \A x \in DOMAIN reader.live : reader.live[x] \in Interval
    /\ held \in Seq([start : Nat, end : Nat \cup {NoEnd}])
    /\ kept \subseteq DOMAIN held /\ lost \subseteq DOMAIN held
    /\ cuts \in Nat

Init ==
    /\ clock = 0
    /\ open = [j \in Jobs |-> <<>>]
    /\ ending = <<>>
    /\ file = <<>> /\ fresh = TRUE
    /\ reader = Idle
    /\ held = <<>> /\ kept = {} /\ lost = {} /\ cuts = 0 /\ raced = FALSE

Tick ==
    /\ clock < MaxClock
    /\ clock' = clock + 1
    /\ UNCHANGED <<open, ending, file, fresh, reader, held, kept, lost, raced, cuts>>

-----------------------------------------------------------------------------
(* Begin and End. *)

\* k new intervals, which begin now.
New(k) == [i \in 1..k |-> [n |-> Len(held) + i, start |-> clock, end |-> NoEnd]]

\* Mutated form of Begin: of a job's intervals the last is remembered.
BeginLast(job, k) ==
    /\ ending = <<>>
    /\ Len(held) + k <= MaxIv
    /\ open' = [open EXCEPT ![job] = <<New(k)[k]>>]
    /\ held' = held \o [i \in 1..k |-> [start |-> clock, end |-> NoEnd]]
    /\ UNCHANGED <<clock, ending, file, fresh, reader, kept, lost, raced, cuts>>

\* A job is given k slots.
Begin(job, k) ==
    /\ ending = <<>>
    /\ Len(held) + k <= MaxIv
    /\ open' = [open EXCEPT ![job] = @ \o New(k)]
    /\ held' = held \o [i \in 1..k |-> [start |-> clock, end |-> NoEnd]]
    /\ UNCHANGED <<clock, ending, file, fresh, reader, kept, lost, raced, cuts>>

Closed(ivs) == [i \in DOMAIN ivs |-> [ivs[i] EXCEPT !.end = clock]]

Ended(S) == [n \in DOMAIN held |-> IF n \in S THEN [held[n] EXCEPT !.end = clock] ELSE held[n]]

\* Mutated form of EndTake: the intervals stay open.
EndTakeNot(job) ==
    /\ ending = <<>> /\ open[job] # <<>>
    /\ ending' = Closed(open[job])
    /\ held' = Ended(Numbers(open[job]))
    /\ raced' = (reader.pc = "read")
    /\ UNCHANGED <<clock, open, file, fresh, reader, kept, lost, cuts>>

\* End, under the ledger's lock.  (Without open intervals End does nothing.)
EndTake(job) ==
    /\ ending = <<>> /\ open[job] # <<>>
    /\ ending' = Closed(open[job])
    /\ open' = [open EXCEPT ![job] = <<>>]
    /\ held' = Ended(Numbers(open[job]))
    /\ raced' = (raced \/ reader.pc = "read")
    /\ UNCHANGED <<clock, file, fresh, reader, kept, lost, cuts>>

\* The file f after records recs are appended, each with its newline.
Written(f, recs) ==
    LET lines == [i \in DOMAIN recs |-> <<recs[i]>>]
    IN  IF fresh \/ recs = <<>> THEN f \o lines
        ELSE [f EXCEPT ![Len(f)] = @ \o lines[1]] \o Tail(lines)

Whole(iv) == [iv |-> iv, whole |-> TRUE]
Half(iv) == [iv |-> iv, whole |-> FALSE]

\* End goes on without the lock: the write succeeds, and the sync too, or End confirms
\* nothing.
EndWrite ==
    /\ ending # <<>>
    /\ file' = Written(file, [i \in DOMAIN ending |-> Whole(ending[i])])
    /\ fresh' = TRUE
    /\ kept' \in {kept \cup Numbers(ending), kept}
    /\ ending' = <<>>
    /\ UNCHANGED <<clock, open, reader, held, lost, raced, cuts>>

\* The write fails (or the machine does) after k lines; cut says what is there of the
\* next.  The daemon does not look at End's error, and the intervals are gone.
EndFail(k, cut) ==
    /\ k < Len(ending)
    /\ LET whole == [i \in 1..k |-> Whole(ending[i])]
           last  == IF cut = "half" THEN Half(ending[k + 1]) ELSE Whole(ending[k + 1])
       IN  IF cut = "nothing"
             THEN /\ file' = Written(file, whole)
                  /\ fresh' = (fresh \/ k > 0)
                  /\ UNCHANGED cuts
             ELSE /\ file' = Written(file, Append(whole, last))
                  /\ fresh' = FALSE
                  /\ cuts' = cuts + 1
    /\ lost' = lost \cup {ending[i].n : i \in k + 1 .. Len(ending)}
    /\ ending' = <<>>
    /\ UNCHANGED <<clock, open, reader, held, kept, raced>>

-----------------------------------------------------------------------------
(* Usage. *)

\* The records that read() returns, by line: a line of one whole record is one, and a line
\* that does not parse is skipped.
Read(f) ==
    [i \in {k \in DOMAIN f : Len(f[k]) = 1 /\ f[k][1].whole} |-> f[i][1].iv]

\* The open intervals, counted up to a time.
OpenUntil(until) ==
    [x \in UNION {{j} \X DOMAIN open[j] : j \in Jobs} |-> [open[x[1]][x[2]] EXCEPT !.end = until]]

\* A report of what was used since a time.
UsageRead(since) ==
    /\ reader.pc = "idle"
    /\ since <= clock
    /\ reader' = [pc |-> "read", since |-> since, until |-> clock, recs |-> Read(file), live |-> <<>>]
    /\ raced' = (ending # <<>>)
    /\ UNCHANGED <<clock, open, ending, file, fresh, held, kept, lost, cuts>>

UsageOpen ==
    /\ reader.pc = "read"
    /\ reader' = [reader EXCEPT !.pc = "done", !.live = OpenUntil(reader.until)]
    /\ UNCHANGED <<clock, open, ending, file, fresh, held, kept, lost, raced, cuts>>

UsageReturn ==
    /\ reader.pc = "done"
    /\ reader' = Idle /\ raced' = FALSE
    /\ UNCHANGED <<clock, open, ending, file, fresh, held, kept, lost, cuts>>

Later(s, t) == IF s < t THEN t ELSE s

\* Mutated form of Seconds: what is before the window counts.
SecondsUnclipped(start, end, since, until) ==
    LET e == IF end > until THEN until ELSE end
    IN  IF e > start THEN e - start ELSE 0

\* The part of an interval in a window.
Seconds(start, end, since, until) ==
    LET s == Later(start, since)
        e == IF end > until THEN until ELSE end
    IN  IF e > s THEN e - s ELSE 0

-----------------------------------------------------------------------------
(* Crashes. *)

\* Mutated form of Reopen: the file is created anew.
ReopenEmpty(f) == <<>>

\* Open leaves the file as it is.
Reopen(f) == f

\* The daemon ends, in the middle of anything, and another opens the file.
Crash ==
    /\ LET gone == UNION {Numbers(open[j]) : j \in Jobs}
       IN  /\ lost' = lost \cup gone \cup Numbers(ending)
           /\ held' = Ended(gone)
    /\ file' = Reopen(file)
    /\ open' = [j \in Jobs |-> <<>>]
    /\ ending' = <<>>
    /\ reader' = Idle /\ raced' = FALSE
    /\ UNCHANGED <<clock, fresh, kept, cuts>>

Next ==
    \/ Tick
    \/ \E j \in Jobs : EndTake(j) \/ \E k \in 1..MaxSlots : Begin(j, k)
    \/ EndWrite
    \/ \E k \in 0 .. MaxSlots - 1, cut \in Cuts : EndFail(k, cut)
    \/ \E since \in 0..MaxClock : UsageRead(since)
    \/ UsageOpen
    \/ UsageReturn
    \/ Crash

Spec == Init /\ [][Next]_vars

-----------------------------------------------------------------------------
(* What makes the ledger correct. *)

\* What the report counts for interval n, if ivs are the intervals it has: the sum of the
\* parts in the window.
SumOf(ivs, n) ==
    Cardinality(UNION {{i} \X (1 .. Seconds(ivs[i].start, ivs[i].end, reader.since, reader.until)) :
                          i \in {k \in DOMAIN ivs : ivs[k].n = n}})

Counted(n) == SumOf(reader.recs, n) + SumOf(reader.live, n)

\* What it should count: the time in the window that n was held.
Due(n) ==
    LET from == Later(held[n].start, reader.since)
        end  == held[n].end
    IN  Cardinality({t \in from .. reader.until - 1 : end = NoEnd \/ t < end})

\* "a report never counts time outside it" (accounting.go:103), nor the same time
\* twice, whatever is begun and ended between the two halves of Usage: the file is
\* read first, so an interval that moves from the memory to the file is not seen
\* in both.
NeverOvercounts == reader.pc = "done" => \A n \in DOMAIN held : Counted(n) <= Due(n)

\* "Usage sums intervals overlapping [since, until) [...]. Open intervals count up to
\* until" (accounting.go:101): while no write was cut within a line, a report counts
\* all the time that was held, except that of intervals that a crash or a failed
\* write destroyed, and if no End is under way during the report.
ExactWhenQuiet ==
    reader.pc = "done" /\ ~raced /\ cuts = 0 => \A n \in DOMAIN held \ lost : Counted(n) = Due(n)

\* "the ledger survives a daemon restart" (accounting.go:6): an interval for which
\* End returned without an error can be read back for ever, through crashes and
\* failed writes, but for one interval at most for each write that was cut within a
\* line: the record that is appended to the incomplete line is skipped with it.
SyncedKept ==
    LET readable == {Read(file)[i].n : i \in DOMAIN Read(file)}
    IN  Cardinality(kept \ readable) <= cuts

=============================================================================
