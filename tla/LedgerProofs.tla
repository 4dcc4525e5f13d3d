---------------------------- MODULE LedgerProofs ----------------------------
(***************************************************************************)
(* What the usage ledger guarantees for any jobs, intervals and reports,     *)
(* however reports, writes that fail and crashes fall between each other.    *)
(*                                                                          *)
(* LInv says of every place where an interval can be (the memory, the write  *)
(* under way, the file and a report) that what is there is true, and that    *)
(* each interval is in one of them, once.                                    *)
(***************************************************************************)
EXTENDS Ledger, FiniteSetTheorems, SequenceTheorems, TLAPS

Record == [iv : Interval, whole : BOOLEAN]

Types ==
    /\ clock \in Nat /\ cuts \in Nat
    /\ open \in [Jobs -> Seq(Interval)]
    /\ ending \in Seq(Interval)
    /\ file \in Seq(Seq(Record))
    /\ fresh \in BOOLEAN /\ raced \in BOOLEAN
    /\ held \in Seq([start : Nat, end : Nat \cup {NoEnd}])
    /\ kept \subseteq DOMAIN held /\ lost \subseteq DOMAIN held

\* iv is what is known of an interval that is over.
Over(h, iv) == iv.n \in DOMAIN h /\ iv.start = h[iv.n].start /\ iv.end = h[iv.n].end /\ iv.end \in Nat

Past == \A n \in DOMAIN held : held[n].start <= clock /\ held[n].end <= clock

\* The memory has the intervals that are held, each once.
Memory ==
    /\ \A j \in Jobs : \A i \in DOMAIN open[j] :
          /\ open[j][i].n \in DOMAIN held
          /\ open[j][i].start = held[open[j][i].n].start /\ held[open[j][i].n].end = NoEnd
    /\ \A j, l \in Jobs : \A i \in DOMAIN open[j], k \in DOMAIN open[l] :
          open[j][i].n = open[l][k].n => j = l /\ i = k
    /\ \A n \in DOMAIN held : held[n].end = NoEnd => \E j \in Jobs : \E i \in DOMAIN open[j] : open[j][i].n = n

\* What is to be written is over, is no interval's twice, and is neither confirmed nor in the file.
Writing ==
    /\ \A i \in DOMAIN ending : Over(held, ending[i]) /\ ending[i].n \notin kept
    /\ \A i, k \in DOMAIN ending : ending[i].n = ending[k].n => i = k
    /\ \A m \in DOMAIN ending : \A i \in DOMAIN file : \A k \in DOMAIN file[i] : file[i][k].iv.n # ending[m].n

\* The lines that can be read back.
Good(f, i) == Len(f[i]) = 1 /\ f[i][1].whole

\* The lines are true, and no two that can be read are the same interval's.
Lines ==
    /\ fresh \/ file # <<>>
    /\ \A i \in DOMAIN file : file[i] # <<>> /\ \A k \in DOMAIN file[i] : Over(held, file[i][k].iv)
    /\ \A i, k \in DOMAIN file :
          Good(file, i) /\ Good(file, k) /\ file[i][1].iv.n = file[k][1].iv.n => i = k

Readable(f) == {f[i][1].iv.n : i \in {k \in DOMAIN f : Good(f, k)}}

\* Interval n has a record in the last line.
InLast(f, n) == \E k \in DOMAIN f[Len(f)] : f[Len(f)][k].iv.n = n

\* A line that is not terminated has nothing that was confirmed, and stands for a cut
\* that has yet to do its harm.
Confirmed ==
    /\ \A n \in kept : held[n].end # NoEnd
    /\ ~fresh => \A n \in kept : ~InLast(file, n)
    /\ Cardinality(kept \ Readable(file)) + (IF fresh THEN 0 ELSE 1) <= cuts

\* Without a cut, nothing gets lost but by the failures that say so.
Complete ==
    cuts = 0 => \A n \in DOMAIN held \ lost :
                   held[n].end = NoEnd \/ n \in Numbers(ending) \/ n \in Readable(file)

NumbersOf(f) == {f[i].n : i \in DOMAIN f}

Once(f) == \A i, k \in DOMAIN f : f[i].n = f[k].n => i = k

\* What a report has from the file is true, and no interval is there twice.
Records ==
    /\ \A i \in DOMAIN reader.recs : reader.recs[i] \in Interval /\ Over(held, reader.recs[i])
    /\ Once(reader.recs)

\* What it has from the memory was held until the report began, if not longer, and is not
\* what it has from the file.
Lives ==
    /\ \A x \in DOMAIN reader.live :
          LET iv == reader.live[x]
          IN  /\ iv \in Interval /\ iv.n \in DOMAIN held /\ iv.start = held[iv.n].start
              /\ iv.end = reader.until
              /\ held[iv.n].end = NoEnd \/ held[iv.n].end >= reader.until
              /\ iv.n \notin NumbersOf(reader.recs)
    /\ Once(reader.live)

\* If nothing was on its way from the memory to the file, everything is in the report.
Full ==
    /\ reader.pc = "read" /\ ~raced =>
          /\ ending = <<>>
          /\ cuts = 0 => \A n \in DOMAIN held \ lost : held[n].end = NoEnd \/ n \in NumbersOf(reader.recs)
    /\ reader.pc = "done" /\ ~raced /\ cuts = 0 =>
          \A n \in DOMAIN held \ lost :
             \/ n \in NumbersOf(reader.recs) \/ n \in NumbersOf(reader.live)
             \/ held[n].start >= reader.until

Report ==
    /\ reader = [pc |-> reader.pc, since |-> reader.since, until |-> reader.until,
                 recs |-> reader.recs, live |-> reader.live]
    /\ reader.pc \in {"idle", "read", "done"}
    /\ reader.since \in Nat /\ reader.until \in Nat /\ reader.until <= clock
    /\ Records /\ Lives /\ Full

LInv == Types /\ Past /\ Memory /\ Writing /\ Lines /\ Confirmed /\ Complete /\ Report

-----------------------------------------------------------------------------
(* Steps. *)

\* An interval that is over stays as it was; one that is held is held on or ends now.
Settled ==
    \A n \in DOMAIN held :
        /\ n \in DOMAIN held' /\ held'[n].start = held[n].start
        /\ held[n].end # NoEnd => held'[n].end = held[n].end
        /\ held[n].end = NoEnd => held'[n].end \in {NoEnd, clock}

LEMMA ConcatIs ==
    ASSUME NEW T, NEW s \in Seq(T), NEW t \in Seq(T)
    PROVE  /\ s \o t \in Seq(T) /\ Len(s) \in Nat /\ Len(t) \in Nat /\ DOMAIN s = 1 .. Len(s)
           /\ Len(s \o t) = Len(s) + Len(t) /\ DOMAIN (s \o t) = 1 .. Len(s) + Len(t)
           /\ \A i \in 1 .. Len(s) : (s \o t)[i] = s[i]
           /\ \A i \in Len(s) + 1 .. Len(s) + Len(t) : (s \o t)[i] = t[i - Len(s)] /\ i - Len(s) \in 1 .. Len(t)
OBVIOUS

LEMMA JoinedIs ==
    ASSUME NEW T, NEW s \in Seq(T), NEW t \in Seq(T), NEW a \in Nat, a = Len(s), NEW k \in Nat, k = Len(t),
           NEW c, c = s \o t
    PROVE  /\ c \in Seq(T) /\ Len(c) = a + k /\ DOMAIN s = 1 .. a /\ DOMAIN c = 1 .. a + k
           /\ \A i \in 1 .. a : c[i] = s[i]
           /\ \A i \in a + 1 .. a + k : c[i] = t[i - a] /\ i - a \in 1 .. k
BY ConcatIs

LEMMA HeldIs ==
    ASSUME Types
    PROVE  /\ Len(held) \in Nat /\ DOMAIN held = 1 .. Len(held)
           /\ \A n \in DOMAIN held : /\ held[n].start \in Nat /\ held[n].end \in Nat \cup {NoEnd}
                                     /\ held[n] = [start |-> held[n].start, end |-> held[n].end]
                                     /\ held[n].end \in Int
<1> DEFINE R == [start : Nat, end : Nat \cup {NoEnd}]
<1>1. held \in Seq(R)
  BY DEF Types
<1> HIDE DEF R
<1>2. Len(held) \in Nat /\ DOMAIN held = 1 .. Len(held) /\ \A n \in DOMAIN held : held[n] \in R
  BY <1>1
<1>3. \A x \in R : /\ x.start \in Nat /\ x.end \in Nat \cup {NoEnd}
                   /\ x = [start |-> x.start, end |-> x.end]
  BY DEF R
<1>4. \A x \in Nat \cup {NoEnd} : x \in Int
  BY DEF NoEnd
<1> QED BY <1>2, <1>3, <1>4

LEMMA OverKept == ASSUME Settled, NEW iv, Over(held, iv) PROVE Over(held', iv)
BY DEF Over, Settled, NoEnd

\* A report stays true while others go on.
LEMMA ReportKept ==
    ASSUME LInv, Settled, UNCHANGED reader, clock' \in Nat, clock' >= clock,
           lost \subseteq lost', cuts' = 0 => cuts = 0,
           \A n \in DOMAIN held' \ DOMAIN held : held'[n].end = NoEnd /\ held'[n].start = clock,
           ~raced' => ~raced,
           reader.pc = "read" /\ ~raced' =>
              /\ ending = <<>> => ending' = <<>>
              /\ \A n \in DOMAIN held \ lost' : held[n].end = NoEnd => held'[n].end = NoEnd
    PROVE  Report'
<1>1. /\ reader.since \in Nat /\ reader.until \in Nat /\ reader.until <= clock /\ clock \in Nat
      /\ Records /\ Lives /\ Full
  BY DEF LInv, Report, Types
<1>2. Records'
  BY <1>1, OverKept DEF Records, Once
<1>3. Lives'
  <2>1. ASSUME NEW x \in DOMAIN reader.live, NEW iv, iv = reader.live[x]
        PROVE  /\ iv \in Interval /\ iv.n \in DOMAIN held' /\ iv.start = held'[iv.n].start
               /\ iv.end = reader.until
               /\ held'[iv.n].end = NoEnd \/ held'[iv.n].end >= reader.until
               /\ iv.n \notin NumbersOf(reader.recs)
    BY <1>1, <2>1 DEF Lives, Settled
  <2>2. NumbersOf(reader.recs)' = NumbersOf(reader.recs)
    BY DEF NumbersOf
  <2> QED BY <1>1, <2>1, <2>2 DEF Lives, Once
<1>4. Full'
  <2>1. NumbersOf(reader.recs)' = NumbersOf(reader.recs) /\ NumbersOf(reader.live)' = NumbersOf(reader.live)
    BY DEF NumbersOf
  <2>2. ASSUME reader.pc = "read", ~raced' PROVE ending' = <<>>
    BY <1>1, <2>2 DEF Full
  <2>3. ASSUME reader.pc = "read", ~raced', cuts' = 0, NEW n \in DOMAIN held' \ lost'
        PROVE  held'[n].end = NoEnd \/ n \in NumbersOf(reader.recs)
    BY <1>1, <2>3 DEF Full
  <2>4. ASSUME reader.pc = "done", ~raced', cuts' = 0, NEW n \in DOMAIN held' \ lost'
        PROVE  \/ n \in NumbersOf(reader.recs) \/ n \in NumbersOf(reader.live)
               \/ held'[n].start >= reader.until
    BY <1>1, <2>4 DEF Full, Settled
  <2> QED BY <2>1, <2>2, <2>3, <2>4 DEF Full
<1> QED BY <1>1, <1>2, <1>3, <1>4 DEF LInv, Report

-----------------------------------------------------------------------------
(* The memory. *)

LEMMA InitLedger == ASSUME Init PROVE LInv
<1>1. Types
  <2>1. \A T : <<>> \in Seq(T) /\ DOMAIN <<>> = {}
    OBVIOUS
  <2> QED BY <2>1 DEF Init, Types
<1>2. Past /\ Memory /\ Writing /\ Lines /\ Complete
  BY DEF Init, Past, Memory, Writing, Lines, Complete
<1>3. Confirmed
  <2>1. kept \ Readable(file) = {}
    BY DEF Init
  <2>2. Cardinality({}) = 0
    BY FS_EmptySet
  <2> QED BY <2>1, <2>2 DEF Init, Confirmed
<1>4. Report
  BY DEF Init, Idle, Report, Records, Lives, Full, Once
<1> QED BY <1>1, <1>3, <1>4, <1>2 DEF LInv

LEMMA TickInv == ASSUME LInv, Tick PROVE LInv'
<1>1. clock \in Nat /\ clock' = clock + 1 /\ UNCHANGED <<open, ending, file, fresh, reader, held, kept, lost, raced, cuts>>
  BY DEF LInv, Types, Tick
<1>2. Types'
  BY <1>1 DEF LInv, Types
<1>3. Past'
  <2>1. \A n \in DOMAIN held : held[n].start \in Int /\ held[n].end \in Int
    BY HeldIs DEF LInv
  <2> QED BY <1>1, <2>1 DEF LInv, Past
<1>4. Memory' /\ Writing' /\ Lines' /\ Confirmed' /\ Complete'
  BY <1>1 DEF LInv, Memory, Writing, Lines, Confirmed, Complete, Numbers, Readable, InLast, Good, Over
<1>5. Report'
  <2>1. Settled
    BY <1>1 DEF Settled
  <2> QED BY <1>1, <2>1, ReportKept
<1> QED BY <1>2, <1>3, <1>4, <1>5 DEF LInv

\* held after Begin.
LEMMA BeginHeld ==
    ASSUME LInv, NEW k \in Nat, NEW h \in Nat, h = Len(held),
           held' = held \o [i \in 1..k |-> [start |-> clock, end |-> NoEnd]]
    PROVE  /\ held' \in Seq([start : Nat, end : Nat \cup {NoEnd}])
           /\ DOMAIN held = 1 .. h /\ DOMAIN held' = 1 .. h + k
           /\ \A n \in 1 .. h : held'[n] = held[n]
           /\ \A n \in h + 1 .. h + k : held'[n].start = clock /\ held'[n].end = NoEnd
<1> DEFINE new == [i \in 1..k |-> [start |-> clock, end |-> NoEnd]]
           R == [start : Nat, end : Nat \cup {NoEnd}]
<1>1. held \in Seq(R) /\ clock \in Nat
  BY DEF LInv, Types
<1>2. new \in Seq(R) /\ Len(new) = k /\ \A i \in 1 .. k : new[i] = [start |-> clock, end |-> NoEnd]
  BY <1>1
<1>3. held' = held \o new
  OBVIOUS
<1> HIDE DEF new, R
<1>4. /\ held' \in Seq(R) /\ DOMAIN held = 1 .. h /\ DOMAIN held' = 1 .. h + k
      /\ \A n \in 1 .. h : held'[n] = held[n]
      /\ \A n \in h + 1 .. h + k : held'[n] = new[n - h] /\ n - h \in 1 .. k
  BY <1>1, <1>2, <1>3, ConcatIs
<1>5. \A n \in h + 1 .. h + k : held'[n].start = clock /\ held'[n].end = NoEnd
  BY <1>2, <1>4
<1> QED BY <1>4, <1>5 DEF R

LEMMA BeginInv == ASSUME LInv, NEW job \in Jobs, NEW k \in 1 .. MaxSlots, Begin(job, k) PROVE LInv'
<1>1. /\ ending = <<>> /\ UNCHANGED <<clock, ending, file, fresh, reader, kept, lost, raced, cuts>>
      /\ Types
  BY DEF Begin, LInv
<1>2. open' = [open EXCEPT ![job] = @ \o New(k)]
  BY DEF Begin
<1>3. k \in Nat
  BY LedgerAssumption
<1>4. PICK h \in Nat : h = Len(held)
  BY <1>1, HeldIs
<1>5. /\ held' \in Seq([start : Nat, end : Nat \cup {NoEnd}])
      /\ DOMAIN held = 1 .. h /\ DOMAIN held' = 1 .. h + k
      /\ \A n \in 1 .. h : held'[n] = held[n]
      /\ \A n \in h + 1 .. h + k : held'[n].start = clock /\ held'[n].end = NoEnd
  <2>1. held' = held \o [i \in 1..k |-> [start |-> clock, end |-> NoEnd]]
    BY DEF Begin
  <2> QED BY <1>3, <1>4, <2>1, BeginHeld
<1>6. Settled
  BY <1>3, <1>4, <1>5 DEF Settled
<1>7. \A n \in DOMAIN held' \ DOMAIN held : held'[n].end = NoEnd /\ held'[n].start = clock
  BY <1>3, <1>4, <1>5
<1>8. PICK a \in Nat :
         /\ open'[job] \in Seq(Interval) /\ DOMAIN open[job] = 1 .. a /\ DOMAIN open'[job] = 1 .. a + k
         /\ \A i \in 1 .. a : open'[job][i] = open[job][i]
         /\ \A i \in a + 1 .. a + k : open'[job][i].n = h + (i - a) /\ open'[job][i].start = clock
  <2>1. PICK new : new = [i \in 1 .. k |-> [n |-> h + i, start |-> clock, end |-> NoEnd]]
    OBVIOUS
  <2>2. new \in Seq(Interval) /\ Len(new) = k
    <3>1. clock \in Nat
      BY <1>1 DEF Types
    <3>2. \A i \in 1 .. k : [n |-> h + i, start |-> clock, end |-> NoEnd] \in Interval
      BY <1>3, <1>4, <3>1 DEF Interval
    <3>3. new \in [1 .. k -> Interval]
      BY <2>1, <3>2
    <3> QED BY <1>3, <3>3
  <2>3. \A i \in 1 .. k : new[i].n = h + i /\ new[i].start = clock
    BY <2>1
  <2>4. PICK old \in Seq(Interval) : open[job] = old
    BY <1>1 DEF Types
  <2>5. open'[job] = old \o new
    BY <1>1, <1>2, <1>4, <2>1, <2>4 DEF Types, New
  <2>6. PICK b \in Nat : b = Len(old)
    BY <2>4
  <2>7. PICK c : c = open'[job]
    OBVIOUS
  <2>8. /\ c \in Seq(Interval) /\ DOMAIN old = 1 .. b /\ DOMAIN c = 1 .. b + k
        /\ \A i \in 1 .. b : c[i] = old[i]
        /\ \A i \in b + 1 .. b + k : c[i] = new[i - b] /\ i - b \in 1 .. k
    <3>1. c = old \o new /\ new \in Seq(Interval) /\ k \in Nat /\ k = Len(new)
      BY <1>3, <2>2, <2>5, <2>7
    <3> QED BY <2>4, <2>6, <3>1, JoinedIs
  <2>9. \A i \in b + 1 .. b + k : c[i].n = h + (i - b) /\ c[i].start = clock
    BY <2>3, <2>8
  <2>10. /\ open'[job] \in Seq(Interval) /\ DOMAIN open[job] = 1 .. b /\ DOMAIN open'[job] = 1 .. b + k
         /\ \A i \in 1 .. b : open'[job][i] = open[job][i]
         /\ \A i \in b + 1 .. b + k : open'[job][i].n = h + (i - b) /\ open'[job][i].start = clock
    <3> QED BY <2>4, <2>7, <2>8, <2>9
  <2> QED BY <2>6, <2>10
<1>9. /\ open' \in [Jobs -> Seq(Interval)] /\ \A j \in Jobs \ {job} : open'[j] = open[j]
  <2>1. open \in [Jobs -> Seq(Interval)]
    BY <1>1 DEF Types
  <2> QED BY <1>2, <1>8, <2>1
<1>10. Types'
  <2>1. DOMAIN held \subseteq DOMAIN held'
    BY <1>3, <1>4, <1>5
  <2> QED BY <1>1, <1>5, <1>9, <2>1 DEF Types
<1>11. Past'
  <2>1. clock \in Nat
    BY <1>1 DEF Types
  <2>2. ASSUME NEW n \in DOMAIN held' PROVE held'[n].start <= clock /\ held'[n].end <= clock
    <3>1. CASE n \in 1 .. h
      BY <1>5, <3>1 DEF LInv, Past
    <3>2. CASE n \in h + 1 .. h + k
      BY <1>5, <2>1, <3>2 DEF NoEnd
    <3> QED BY <1>3, <1>4, <1>5, <3>1, <3>2
  <2> QED BY <1>1, <2>2 DEF Past
<1>12. Memory'
  <2>1. ASSUME NEW j \in Jobs, NEW i \in DOMAIN open'[j]
        PROVE  \/ /\ i \in DOMAIN open[j] /\ open'[j][i] = open[j][i] /\ open'[j][i].n \in 1 .. h
               \/ /\ j = job /\ i \in a + 1 .. a + k
                  /\ open'[j][i].n = h + (i - a) /\ open'[j][i].start = clock
                  /\ open'[j][i].n \in h + 1 .. h + k
    <3>1. CASE i \in DOMAIN open[j]
      <4>1. open'[j][i] = open[j][i]
        BY <1>8, <1>9, <3>1
      <4>2. open[j][i].n \in DOMAIN held
        BY <3>1 DEF LInv, Memory
      <4> QED BY <1>5, <3>1, <4>1, <4>2
    <3>2. CASE i \notin DOMAIN open[j]
      <4>1. j = job
        BY <1>9, <3>2
      <4>2. i \in a + 1 .. a + k
        BY <1>3, <1>8, <3>2, <4>1
      <4>3. open'[j][i].n = h + (i - a) /\ open'[j][i].start = clock
        BY <1>8, <4>1, <4>2
      <4> QED BY <1>3, <1>4, <1>8, <4>1, <4>2, <4>3
    <3> QED BY <3>1, <3>2
  <2>2. ASSUME NEW j \in Jobs, NEW i \in DOMAIN open'[j]
        PROVE  /\ open'[j][i].n \in DOMAIN held'
               /\ open'[j][i].start = held'[open'[j][i].n].start /\ held'[open'[j][i].n].end = NoEnd
    <3>1. PICK n : n = open'[j][i].n
      OBVIOUS
    <3>2. CASE i \in DOMAIN open[j] /\ open'[j][i] = open[j][i] /\ n \in 1 .. h
      <4>1. open[j][i].start = held[n].start /\ held[n].end = NoEnd
        BY <3>1, <3>2 DEF LInv, Memory
      <4>2. n \in 1 .. h + k
        <5>1. h \in Nat /\ k \in Nat /\ n \in 1 .. h
          BY <1>3, <1>4, <3>2
        <5> QED BY <5>1
      <4>3. n \in DOMAIN held' /\ held'[n] = held[n]
        BY <1>5, <3>2, <4>2
      <4> QED BY <3>1, <3>2, <4>1, <4>3
    <3>3. CASE n \in h + 1 .. h + k /\ open'[j][i].start = clock
      <4>1. n \in 1 .. h + k
        <5>1. h \in Nat /\ k \in Nat /\ n \in h + 1 .. h + k
          BY <1>3, <1>4, <3>3
        <5> QED BY <5>1
      <4>2. n \in DOMAIN held' /\ held'[n].start = clock /\ held'[n].end = NoEnd
        BY <1>5, <3>3, <4>1
      <4> QED BY <3>1, <3>3, <4>2
    <3> QED BY <2>1, <3>1, <3>2, <3>3
  <2>3. ASSUME NEW j \in Jobs, NEW l \in Jobs, NEW i \in DOMAIN open'[j], NEW m \in DOMAIN open'[l],
               open'[j][i].n = open'[l][m].n
        PROVE  j = l /\ i = m
    <3>1. CASE open'[j][i].n \in 1 .. h
      <4>1. /\ i \in DOMAIN open[j] /\ open'[j][i] = open[j][i]
            /\ m \in DOMAIN open[l] /\ open'[l][m] = open[l][m]
        BY <1>3, <1>4, <2>1, <2>3, <3>1
      <4> QED BY <2>3, <4>1 DEF LInv, Memory
    <3>2. CASE open'[j][i].n \notin 1 .. h
      <4>1. /\ j = job /\ i \in a + 1 .. a + k /\ open'[j][i].n = h + (i - a)
            /\ l = job /\ m \in a + 1 .. a + k /\ open'[l][m].n = h + (m - a)
        BY <2>1, <2>3, <3>2
      <4>2. h + (i - a) = h + (m - a)
        BY <2>3, <4>1
      <4> QED BY <1>3, <1>4, <1>8, <4>1, <4>2
    <3> QED BY <3>1, <3>2
  <2>4. ASSUME NEW n \in DOMAIN held', held'[n].end = NoEnd
        PROVE  \E j \in Jobs : \E i \in DOMAIN open'[j] : open'[j][i].n = n
    <3>1. CASE n \in 1 .. h
      <4>1. PICK j \in Jobs : \E i \in DOMAIN open[j] : open[j][i].n = n
        BY <1>5, <2>4, <3>1 DEF LInv, Memory
      <4>2. PICK i \in DOMAIN open[j] : open[j][i].n = n
        BY <4>1
      <4>3. i \in DOMAIN open'[j] /\ open'[j][i] = open[j][i]
        <5>1. CASE j = job
          <6>1. 1 .. a \subseteq 1 .. a + k
            BY <1>3, <1>8
          <6> QED BY <1>8, <4>2, <5>1, <6>1
        <5> QED BY <1>9, <4>2, <5>1
      <4> QED BY <4>2, <4>3
    <3>2. CASE n \in h + 1 .. h + k
      <4>1. PICK i \in a + 1 .. a + k : n = h + (i - a)
        <5>1. a + (n - h) \in a + 1 .. a + k /\ n = h + ((a + (n - h)) - a)
          <6>1. a \in Nat /\ h \in Nat /\ k \in Nat /\ n \in h + 1 .. h + k
            BY <1>3, <1>4, <1>8, <3>2
          <6> QED BY <6>1
        <5> QED BY <5>1
      <4>2. i \in DOMAIN open'[job] /\ open'[job][i].n = n
        BY <1>3, <1>4, <1>8, <4>1
      <4> QED BY <4>2
    <3> QED BY <1>3, <1>4, <1>5, <3>1, <3>2
  <2> QED BY <2>2, <2>3, <2>4 DEF Memory
<1>13. Writing'
  BY <1>1 DEF Writing
<1>14. Lines'
  BY <1>1, <1>6, OverKept DEF LInv, Lines, Good
<1>15. Confirmed'
  <2>1. \A n \in kept : held'[n].end # NoEnd
    BY <1>1, <1>5 DEF LInv, Confirmed, Types
  <2> QED BY <1>1, <2>1 DEF LInv, Confirmed, Readable, InLast, Good
<1>16. Complete'
  BY <1>1, <1>5, <1>7 DEF LInv, Complete, Numbers, Readable, Good
<1>17. Report'
  BY <1>1, <1>5, <1>6, <1>7, ReportKept, SMTT(30) DEF Types
<1> QED BY <1>10, <1>11, <1>12, <1>13, <1>14, <1>15, <1>16, <1>17 DEF LInv

\* held after some of the open intervals have ended.
LEMMA EndedIs ==
    ASSUME LInv, NEW S, \A n \in S : n \in DOMAIN held /\ held[n].end = NoEnd, held' = Ended(S)
    PROVE  /\ held' \in Seq([start : Nat, end : Nat \cup {NoEnd}])
           /\ DOMAIN held' = DOMAIN held
           /\ \A n \in DOMAIN held : held'[n].start = held[n].start
           /\ \A n \in S : held'[n].end = clock
           /\ \A n \in DOMAIN held \ S : held'[n].end = held[n].end
           /\ Settled
<1>1. Types /\ clock \in Nat
  BY DEF LInv, Types
<1>2. /\ Len(held) \in Nat /\ DOMAIN held = 1 .. Len(held)
      /\ \A n \in DOMAIN held : /\ held[n].start \in Nat /\ held[n].end \in Nat \cup {NoEnd}
                                /\ held[n] = [start |-> held[n].start, end |-> held[n].end]
  BY <1>1, HeldIs
<1>3. DOMAIN held' = DOMAIN held
  BY DEF Ended
<1>4. \A n \in DOMAIN held \ S : held'[n] = held[n]
  BY DEF Ended
<1>5. \A n \in S : held'[n] = [held[n] EXCEPT !.end = clock]
  BY DEF Ended
<1>6. ASSUME NEW n \in S
      PROVE  /\ held'[n].start = held[n].start /\ held'[n].end = clock
             /\ held'[n] \in [start : Nat, end : Nat \cup {NoEnd}]
  <2>1. PICK b \in Nat, e \in Nat \cup {NoEnd} : held[n] = [start |-> b, end |-> e] /\ held[n].start = b
    BY <1>2
  <2>2. held'[n] = [start |-> b, end |-> clock]
    BY <1>5, <2>1
  <2> QED BY <1>1, <2>1, <2>2
<1>7. \A n \in DOMAIN held : held'[n] \in [start : Nat, end : Nat \cup {NoEnd}]
  <2>1. ASSUME NEW n \in DOMAIN held, n \notin S PROVE held'[n] \in [start : Nat, end : Nat \cup {NoEnd}]
    BY <1>1, <1>2, <1>4, <2>1
  <2> QED BY <1>6, <2>1
<1>8. held' \in Seq([start : Nat, end : Nat \cup {NoEnd}])
  <2> DEFINE R == [start : Nat, end : Nat \cup {NoEnd}]
  <2>1. PICK a \in Nat : DOMAIN held = 1 .. a
    BY <1>2
  <2>2. held' = [n \in 1 .. a |-> held'[n]]
    BY <1>3, <2>1 DEF Ended
  <2>3. \A n \in 1 .. a : held'[n] \in R
    BY <1>7, <2>1
  <2> HIDE DEF R
  <2>4. held' \in [1 .. a -> R]
    BY <2>2, <2>3
  <2>5. held' \in Seq(R)
    BY <2>1, <2>4
  <2> QED BY <2>5 DEF R
<1>9. \A n \in DOMAIN held : held'[n].start = held[n].start
  BY <1>4, <1>6
<1>10. Settled
  BY <1>3, <1>4, <1>6, <1>9 DEF Settled
<1> QED BY <1>3, <1>4, <1>6, <1>8, <1>9, <1>10

LEMMA EndTakeInv == ASSUME LInv, NEW job \in Jobs, EndTake(job) PROVE LInv'
<1>1. /\ ending = <<>> /\ UNCHANGED <<clock, file, fresh, reader, kept, lost, cuts>>
      /\ Types /\ clock \in Nat
  BY DEF EndTake, LInv, Types
<1>2. PICK S : S = Numbers(open[job])
  OBVIOUS
<1>3. /\ \A i \in DOMAIN open[job] : open[job][i].n \in S
      /\ \A n \in S : \E i \in DOMAIN open[job] : open[job][i].n = n
  BY <1>2 DEF Numbers
<1>4. \A n \in S : n \in DOMAIN held /\ held[n].end = NoEnd
  BY <1>3 DEF LInv, Memory
<1>5. held' = Ended(S)
  BY <1>2 DEF EndTake
<1>6. /\ held' \in Seq([start : Nat, end : Nat \cup {NoEnd}])
      /\ DOMAIN held' = DOMAIN held
      /\ \A n \in DOMAIN held : held'[n].start = held[n].start
      /\ \A n \in S : held'[n].end = clock
      /\ \A n \in DOMAIN held \ S : held'[n].end = held[n].end
      /\ Settled
  BY <1>4, <1>5, EndedIs
<1>7. PICK old \in Seq(Interval) : old = open[job]
  BY <1>1 DEF Types
<1>8. /\ ending' \in Seq(Interval) /\ DOMAIN ending' = DOMAIN old
      /\ \A i \in DOMAIN old : /\ ending'[i].n = old[i].n /\ ending'[i].start = old[i].start
                               /\ ending'[i].end = clock
  <2>1. ending' = [i \in DOMAIN old |-> [old[i] EXCEPT !.end = clock]]
    BY <1>7 DEF EndTake, Closed
  <2>2. ASSUME NEW i \in DOMAIN old, NEW iv, iv = old[i]
        PROVE  /\ [iv EXCEPT !.end = clock] \in Interval
               /\ [iv EXCEPT !.end = clock].n = iv.n /\ [iv EXCEPT !.end = clock].start = iv.start
               /\ [iv EXCEPT !.end = clock].end = clock
    <3>1. iv \in Interval
      BY <1>7, <2>2
    <3> QED BY <1>1, <3>1 DEF Interval
  <2>3. \A i \in DOMAIN old : ending'[i] = [old[i] EXCEPT !.end = clock]
    BY <2>1
  <2>4. \A i \in DOMAIN old : ending'[i] \in Interval
    BY <2>2, <2>3
  <2>5. PICK a \in Nat : DOMAIN old = 1 .. a
    BY <1>7
  <2>6. ending' \in [1 .. a -> Interval]
    BY <2>1, <2>4, <2>5
  <2>7. ending' \in Seq(Interval)
    BY <2>5, <2>6
  <2> QED BY <2>1, <2>2, <2>3, <2>7
<1>9. /\ open' \in [Jobs -> Seq(Interval)] /\ open'[job] = <<>> /\ \A j \in Jobs \ {job} : open'[j] = open[j]
  <2>1. <<>> \in Seq(Interval) /\ open \in [Jobs -> Seq(Interval)]
    BY <1>1 DEF Types
  <2> QED BY <2>1 DEF EndTake
<1>10. Types'
  <2>1. raced' \in BOOLEAN
    BY <1>1 DEF EndTake, Types
  <2> QED BY <1>1, <1>6, <1>8, <1>9, <2>1 DEF Types
<1>11. Past'
  <2>1. ASSUME NEW n \in DOMAIN held PROVE held'[n].start <= clock /\ held'[n].end <= clock
    <3>1. held[n].start <= clock /\ held[n].end <= clock /\ clock <= clock
      BY <1>1 DEF LInv, Past
    <3>2. held'[n].start = held[n].start /\ (held'[n].end = clock \/ held'[n].end = held[n].end)
      BY <1>6
    <3> QED BY <3>1, <3>2
  <2> QED BY <1>1, <1>6, <2>1 DEF Past
<1>12. Memory'
  <2>1. ASSUME NEW j \in Jobs, NEW i \in DOMAIN open'[j]
        PROVE  j # job /\ i \in DOMAIN open[j] /\ open'[j] = open[j] /\ open[j][i].n \notin S
    <3>1. j # job /\ i \in DOMAIN open[j] /\ open'[j] = open[j]
      BY <1>9
    <3> QED BY <1>3, <3>1 DEF LInv, Memory
  <2>2. ASSUME NEW j \in Jobs, NEW i \in DOMAIN open'[j]
        PROVE  /\ open'[j][i].n \in DOMAIN held'
               /\ open'[j][i].start = held'[open'[j][i].n].start /\ held'[open'[j][i].n].end = NoEnd
    <3>1. PICK n : n = open[j][i].n
      OBVIOUS
    <3>2. open'[j][i] = open[j][i] /\ n \notin S
      BY <2>1, <3>1
    <3>3. n \in DOMAIN held /\ open[j][i].start = held[n].start /\ held[n].end = NoEnd
      BY <2>1, <3>1 DEF LInv, Memory
    <3> QED BY <1>6, <3>1, <3>2, <3>3
  <2>3. ASSUME NEW j \in Jobs, NEW l \in Jobs, NEW i \in DOMAIN open'[j], NEW m \in DOMAIN open'[l],
               open'[j][i].n = open'[l][m].n
        PROVE  j = l /\ i = m
    BY <2>1, <2>3 DEF LInv, Memory
  <2>4. ASSUME NEW n \in DOMAIN held', held'[n].end = NoEnd
        PROVE  \E j \in Jobs : \E i \in DOMAIN open'[j] : open'[j][i].n = n
    <3>1. n \in DOMAIN held /\ n \notin S /\ held[n].end = NoEnd
      BY <1>1, <1>6, <2>4 DEF NoEnd
    <3>2. PICK j \in Jobs : \E i \in DOMAIN open[j] : open[j][i].n = n
      BY <3>1 DEF LInv, Memory
    <3>3. j # job
      BY <1>3, <3>1, <3>2
    <3> QED BY <1>9, <3>2, <3>3
  <2> QED BY <2>2, <2>3, <2>4 DEF Memory
<1>13. Writing'
  <2>1. ASSUME NEW i \in DOMAIN ending'
        PROVE  i \in DOMAIN open[job] /\ ending'[i].n = open[job][i].n /\ ending'[i].n \in S /\ Over(held', ending'[i])
    <3>1. i \in DOMAIN open[job] /\ ending'[i].n = open[job][i].n /\ ending'[i].start = open[job][i].start
          /\ ending'[i].end = clock
      BY <1>7, <1>8
    <3>2. open[job][i].n \in S /\ open[job][i].start = held[open[job][i].n].start
      BY <1>3, <3>1 DEF LInv, Memory
    <3>3. ending'[i].n \in S /\ ending'[i].start = held[ending'[i].n].start
      BY <3>1, <3>2
    <3> QED BY <1>1, <1>4, <1>6, <3>1, <3>3 DEF Over
  <2>2. ASSUME NEW n \in S PROVE n \notin kept
    BY <1>4 DEF LInv, Confirmed
  <2>3. ASSUME NEW n \in S, NEW i \in DOMAIN file, NEW k \in DOMAIN file[i] PROVE file[i][k].iv.n # n
    BY <1>4 DEF LInv, Lines, Over, NoEnd
  <2>4. \A i, k \in DOMAIN ending' : ending'[i].n = ending'[k].n => i = k
    BY <2>1 DEF LInv, Memory
  <2> QED BY <1>1, <2>1, <2>2, <2>3, <2>4 DEF Writing
<1>14. Lines'
  BY <1>1, <1>6, OverKept DEF LInv, Lines, Good
<1>15. Confirmed'
  <2>1. \A n \in kept : held'[n].end # NoEnd
    <3>1. ASSUME NEW n \in kept PROVE n \in DOMAIN held /\ n \notin S
      BY <1>1, <1>4 DEF LInv, Confirmed, Types
    <3> QED BY <1>6, <3>1 DEF LInv, Confirmed
  <2> QED BY <1>1, <2>1 DEF LInv, Confirmed, Readable, InLast, Good
<1>16. Complete'
  <2>1. ASSUME cuts = 0, NEW n \in DOMAIN held \ lost
        PROVE  held'[n].end = NoEnd \/ n \in Numbers(ending)' \/ n \in Readable(file)
    <3>1. CASE n \in S
      <4>1. PICK i \in DOMAIN ending' : ending'[i].n = n
        BY <1>3, <1>7, <1>8, <3>1
      <4> QED BY <4>1 DEF Numbers
    <3>2. CASE n \notin S
      <4>1. n \notin Numbers(ending)
        BY <1>1 DEF Numbers
      <4> QED BY <1>6, <2>1, <3>2, <4>1 DEF LInv, Complete
    <3> QED BY <3>1, <3>2
  <2>2. Readable(file)' = Readable(file)
    BY <1>1 DEF Readable, Good
  <2> QED BY <1>1, <1>6, <2>1, <2>2 DEF Complete
<1>17. Report'
  <2>1. /\ ~raced' => ~raced
        /\ reader.pc = "read" => raced'
    BY DEF EndTake
  <2> QED BY <1>1, <1>6, <2>1, ReportKept
<1> QED BY <1>10, <1>11, <1>12, <1>13, <1>14, <1>15, <1>16, <1>17 DEF LInv

LEMMA CrashInv == ASSUME LInv, Crash PROVE LInv'
<1>1. /\ UNCHANGED <<clock, fresh, file, kept, cuts>> /\ ending' = <<>> /\ open' = [j \in Jobs |-> <<>>]
      /\ reader' = Idle /\ raced' = FALSE /\ Types /\ clock \in Nat
  BY DEF Crash, LInv, Types, Reopen
<1>2. PICK gone : gone = UNION {Numbers(open[j]) : j \in Jobs}
  OBVIOUS
<1>3. /\ \A j \in Jobs : \A i \in DOMAIN open[j] : open[j][i].n \in gone
      /\ \A n \in gone : \E j \in Jobs : \E i \in DOMAIN open[j] : open[j][i].n = n
  BY <1>2 DEF Numbers
<1>4. \A n \in gone : n \in DOMAIN held /\ held[n].end = NoEnd
  BY <1>3 DEF LInv, Memory
<1>5. held' = Ended(gone) /\ lost' = lost \cup gone \cup Numbers(ending)
  BY <1>2 DEF Crash
<1>6. /\ held' \in Seq([start : Nat, end : Nat \cup {NoEnd}])
      /\ DOMAIN held' = DOMAIN held
      /\ \A n \in DOMAIN held : held'[n].start = held[n].start
      /\ \A n \in gone : held'[n].end = clock
      /\ \A n \in DOMAIN held \ gone : held'[n].end = held[n].end
      /\ Settled
  BY <1>4, <1>5, EndedIs
<1>7. \A n \in DOMAIN held' : held'[n].end # NoEnd
  <2>1. \A n \in DOMAIN held : held[n].end = NoEnd => n \in gone
    BY <1>3 DEF LInv, Memory
  <2> QED BY <1>1, <1>6, <2>1 DEF NoEnd
<1>8. Types'
  <2>1. <<>> \in Seq(Interval)
    OBVIOUS
  <2>2. open' \in [Jobs -> Seq(Interval)]
    BY <1>1, <2>1
  <2>3. Numbers(ending) \subseteq DOMAIN held
    BY DEF LInv, Writing, Over, Numbers
  <2>4. lost' \subseteq DOMAIN held'
    BY <1>1, <1>4, <1>5, <1>6, <2>3 DEF Types
  <2> QED BY <1>1, <1>6, <2>1, <2>2, <2>4 DEF Types
<1>9. Past'
  BY <1>1, <1>6 DEF LInv, Past
<1>10. Memory' /\ Writing'
  BY <1>1, <1>7 DEF Memory, Writing
<1>11. Lines'
  BY <1>1, <1>6, OverKept DEF LInv, Lines, Good
<1>12. Confirmed'
  <2>1. \A n \in kept : held'[n].end # NoEnd
    BY <1>1, <1>6, <1>7 DEF Types
  <2> QED BY <1>1, <2>1 DEF LInv, Confirmed, Readable, InLast, Good
<1>13. Complete'
  <2>1. ASSUME cuts = 0, NEW n \in DOMAIN held \ lost' PROVE n \in Readable(file)
    <3>1. n \in DOMAIN held \ lost /\ n \notin gone /\ n \notin Numbers(ending)
      BY <1>5, <2>1
    <3>2. held[n].end # NoEnd
      BY <1>6, <1>7, <3>1
    <3> QED BY <2>1, <3>1, <3>2 DEF LInv, Complete
  <2>2. Readable(file)' = Readable(file)
    BY <1>1 DEF Readable, Good
  <2> QED BY <1>1, <1>6, <2>1, <2>2 DEF Complete
<1>14. Report'
  BY <1>1 DEF Report, Idle, Records, Lives, Full, Once
<1> QED BY <1>8, <1>9, <1>10, <1>11, <1>12, <1>13, <1>14 DEF LInv

-----------------------------------------------------------------------------
(* Reports. *)

\* What is not the reader's, or whether an End was under way, stays.
LEMMA OthersKept ==
    ASSUME LInv, UNCHANGED <<clock, open, ending, file, fresh, held, kept, lost, cuts>>, raced' \in BOOLEAN
    PROVE  Types' /\ Past' /\ Memory' /\ Writing' /\ Lines' /\ Confirmed' /\ Complete'
<1>1. Types' /\ Past'
  BY DEF LInv, Types, Past
<1>2. Memory'
  BY DEF LInv, Memory
<1>3. Writing' /\ Lines'
  BY DEF LInv, Writing, Lines, Over, Good
<1>4. Confirmed' /\ Complete'
  BY DEF LInv, Confirmed, Complete, Numbers, Readable, InLast, Good
<1> QED BY <1>1, <1>2, <1>3, <1>4

LEMMA ReadIs ==
    ASSUME LInv, NEW recs, recs = Read(file)
    PROVE  /\ \A i \in DOMAIN recs : recs[i] \in Interval /\ Over(held, recs[i])
           /\ Once(recs) /\ NumbersOf(recs) = Readable(file)
<1>1. /\ DOMAIN recs = {k \in DOMAIN file : Good(file, k)}
      /\ \A i \in DOMAIN recs : recs[i] = file[i][1].iv
  BY DEF Read, Good
<1>2. ASSUME NEW i \in DOMAIN recs
      PROVE  i \in DOMAIN file /\ Good(file, i) /\ recs[i] = file[i][1].iv /\ 1 \in DOMAIN file[i] /\ file[i][1] \in Record
  <2>1. i \in DOMAIN file /\ Good(file, i) /\ recs[i] = file[i][1].iv
    BY <1>1
  <2>2. PICK line \in Seq(Record) : line = file[i]
    BY <2>1 DEF LInv, Types
  <2>3. 1 \in DOMAIN line /\ line[1] \in Record
    <3>1. Len(line) = 1
      BY <2>1, <2>2 DEF Good
    <3> QED BY <2>2, <3>1
  <2> QED BY <2>1, <2>2, <2>3
<1>3. \A i \in DOMAIN recs : recs[i] \in Interval /\ Over(held, recs[i])
  BY <1>2 DEF LInv, Lines, Record
<1>4. Once(recs)
  BY <1>2 DEF LInv, Lines, Once
<1>5. NumbersOf(recs) = Readable(file)
  BY <1>1 DEF NumbersOf, Readable
<1> QED BY <1>3, <1>4, <1>5

LEMMA UsageReadInv == ASSUME LInv, NEW since \in 0 .. MaxClock, UsageRead(since) PROVE LInv'
<1>1. /\ UNCHANGED <<clock, open, ending, file, fresh, held, kept, lost, cuts>> /\ raced' = (ending # <<>>)
      /\ since \in Nat /\ clock \in Nat
  BY LedgerAssumption DEF UsageRead, LInv, Types
<1>2. PICK recs : recs = Read(file)
  OBVIOUS
<1>3. reader' = [pc |-> "read", since |-> since, until |-> clock, recs |-> recs, live |-> <<>>]
  BY <1>2 DEF UsageRead
<1>4. /\ reader'.pc = "read" /\ reader'.since = since /\ reader'.until = clock /\ reader'.recs = recs
      /\ reader'.live = <<>>
  BY <1>3
<1>5. /\ \A i \in DOMAIN recs : recs[i] \in Interval /\ Over(held, recs[i])
      /\ Once(recs) /\ NumbersOf(recs) = Readable(file)
  BY <1>2, ReadIs
<1>6. Records'
  BY <1>1, <1>4, <1>5 DEF Records, Once
<1>7. Lives'
  BY <1>4 DEF Lives, Once
<1>8. Full'
  <2>1. ASSUME ending = <<>>, cuts = 0, NEW n \in DOMAIN held \ lost
        PROVE  held[n].end = NoEnd \/ n \in NumbersOf(recs)
    <3>1. Numbers(ending) = {}
      BY <2>1 DEF Numbers
    <3> QED BY <1>5, <2>1, <3>1 DEF LInv, Complete
  <2>2. NumbersOf(reader.recs)' = NumbersOf(recs)
    BY <1>4 DEF NumbersOf
  <2> QED BY <1>1, <1>4, <2>1, <2>2 DEF Full
<1>9. Report'
  BY <1>1, <1>3, <1>4, <1>6, <1>7, <1>8 DEF Report
<1>10. raced' \in BOOLEAN
  BY <1>1
<1> QED BY <1>1, <1>9, <1>10, OthersKept DEF LInv

LEMMA UsageOpenInv == ASSUME LInv, UsageOpen PROVE LInv'
<1>1. /\ UNCHANGED <<clock, open, ending, file, fresh, held, kept, lost, raced, cuts>> /\ reader.pc = "read"
      /\ Types /\ Report /\ raced' \in BOOLEAN
  BY DEF UsageOpen, LInv, Types
<1>2. PICK since, until, recs : /\ since = reader.since /\ until = reader.until /\ recs = reader.recs
                                /\ reader.since \in Nat /\ reader.until \in Nat /\ reader.until <= clock
  BY <1>1 DEF Report
<1>3. PICK live : live = OpenUntil(until)
  OBVIOUS
<1>4. reader' = [pc |-> "done", since |-> since, until |-> until, recs |-> recs, live |-> live]
  <2>1. PICK old : reader = [pc |-> "read", since |-> since, until |-> until, recs |-> recs, live |-> old]
    BY <1>1, <1>2 DEF Report
  <2> QED BY <1>2, <1>3, <2>1 DEF UsageOpen
<1>5. /\ reader'.pc = "done" /\ reader'.since = since /\ reader'.until = until /\ reader'.recs = recs
      /\ reader'.live = live
  BY <1>4
<1>6. \A x : x \in DOMAIN live <=> x \in UNION {{j} \X DOMAIN open[j] : j \in Jobs}
  BY <1>3 DEF OpenUntil
<1>7. ASSUME NEW x \in DOMAIN live
      PROVE  \E j \in Jobs : \E i \in DOMAIN open[j] :
                /\ x = <<j, i>> /\ live[x] \in Interval /\ live[x].n = open[j][i].n
                /\ live[x].start = open[j][i].start /\ live[x].end = until
  <2>1. PICK j \in Jobs : x \in {j} \X DOMAIN open[j]
    BY <1>6
  <2>2. PICK i \in DOMAIN open[j] : x = <<j, i>>
    BY <2>1
  <2>3. PICK iv \in Interval : iv = open[j][i]
    BY <1>1 DEF Types
  <2>4. live[x] = [iv EXCEPT !.end = until]
    BY <1>3, <2>2, <2>3 DEF OpenUntil
  <2>5. until \in Nat
    BY <1>2
  <2>6. live[x] \in Interval /\ live[x].n = iv.n /\ live[x].start = iv.start /\ live[x].end = until
    BY <2>3, <2>4, <2>5 DEF Interval
  <2> QED BY <2>2, <2>3, <2>6
<1>8. Records'
  BY <1>1, <1>2, <1>5 DEF Report, Records, Once, Over
<1>9. NumbersOf(reader.recs)' = NumbersOf(reader.recs) /\ NumbersOf(reader.live)' = NumbersOf(live)
  BY <1>2, <1>5 DEF NumbersOf
<1>10. \A n \in NumbersOf(reader.recs) : held[n].end # NoEnd
  BY <1>1 DEF Report, Records, NumbersOf, Over, NoEnd
<1>11. Lives'
  <2>1. ASSUME NEW x \in DOMAIN live, NEW iv, iv = live[x]
        PROVE  /\ iv \in Interval /\ iv.n \in DOMAIN held /\ iv.start = held[iv.n].start
               /\ iv.end = until /\ held[iv.n].end = NoEnd /\ iv.n \notin NumbersOf(reader.recs)
    <3>1. PICK j \in Jobs : \E i \in DOMAIN open[j] :
             /\ iv \in Interval /\ iv.n = open[j][i].n /\ iv.start = open[j][i].start /\ iv.end = until
      BY <1>7, <2>1
    <3>2. iv.n \in DOMAIN held /\ iv.start = held[iv.n].start /\ held[iv.n].end = NoEnd
      BY <3>1 DEF LInv, Memory
    <3> QED BY <1>10, <3>1, <3>2
  <2>2. Once(live)
    <3>1. ASSUME NEW x \in DOMAIN live, NEW y \in DOMAIN live, live[x].n = live[y].n PROVE x = y
      <4>1. PICK j \in Jobs : \E i \in DOMAIN open[j] : x = <<j, i>> /\ live[x].n = open[j][i].n
        BY <1>7
      <4>2. PICK l \in Jobs : \E k \in DOMAIN open[l] : y = <<l, k>> /\ live[y].n = open[l][k].n
        BY <1>7
      <4> QED BY <3>1, <4>1, <4>2 DEF LInv, Memory
    <3> QED BY <3>1 DEF Once
  <2> QED BY <1>1, <1>5, <1>9, <2>1, <2>2 DEF Lives, Once
<1>12. Full'
  <2>1. ASSUME ~raced, cuts = 0, NEW n \in DOMAIN held \ lost
        PROVE  n \in NumbersOf(reader.recs) \/ n \in NumbersOf(live)
    <3>1. CASE held[n].end = NoEnd
      <4>1. PICK j \in Jobs : \E i \in DOMAIN open[j] : open[j][i].n = n
        BY <3>1 DEF LInv, Memory
      <4>2. PICK i \in DOMAIN open[j] : open[j][i].n = n
        BY <4>1
      <4>3. <<j, i>> \in DOMAIN live
        BY <1>6
      <4>4. live[<<j, i>>].n = n
        BY <1>7, <4>2, <4>3
      <4> QED BY <4>3, <4>4 DEF NumbersOf
    <3> QED BY <1>1, <2>1, <3>1 DEF Report, Full
  <2> QED BY <1>1, <1>5, <1>9, <2>1 DEF Full
<1>13. Report'
  BY <1>1, <1>2, <1>4, <1>5, <1>8, <1>11, <1>12 DEF Report
<1> QED BY <1>1, <1>13, OthersKept DEF LInv

LEMMA UsageReturnInv == ASSUME LInv, UsageReturn PROVE LInv'
<1>1. /\ UNCHANGED <<clock, open, ending, file, fresh, held, kept, lost, cuts>> /\ raced' \in BOOLEAN
      /\ reader' = Idle /\ clock \in Nat
  BY DEF UsageReturn, LInv, Types
<1>2. Report'
  BY <1>1 DEF Report, Idle, Records, Lives, Full, Once
<1> QED BY <1>1, <1>2, OthersKept DEF LInv

-----------------------------------------------------------------------------
(* The file. *)

\* m records are to be appended to a file of d terminated lines.
Appending(f, recs, m, d) ==
    /\ f \in Seq(Seq(Record)) /\ recs \in Seq(Record) /\ m \in Nat \ {0} /\ m = Len(recs)
    /\ d \in Nat /\ (fresh => Len(f) = d) /\ (~fresh => Len(f) = d + 1)

\* w is f with the records appended: what is written begins a line of its own, or goes on
\* with the last one.
Appended(f, recs, m, d, w) ==
    /\ w \in Seq(Seq(Record)) /\ DOMAIN w = 1 .. d + m /\ Len(w) = d + m
    /\ \A i \in 1 .. d : w[i] = f[i]
    /\ \A i \in d + 1 .. d + m : fresh \/ i # d + 1 => w[i] = <<recs[i - d]>>
    /\ ~fresh => w[d + 1] = f[d + 1] \o <<recs[1]>>

LEMMA WrittenIs ==
    ASSUME NEW f, NEW recs, NEW m, NEW d, Appending(f, recs, m, d), NEW w, w = Written(f, recs)
    PROVE  Appended(f, recs, m, d, w)
<1> USE DEF Appending
<1> SUFFICES /\ w \in Seq(Seq(Record)) /\ DOMAIN w = 1 .. d + m /\ Len(w) = d + m
             /\ \A i \in 1 .. d : w[i] = f[i]
             /\ \A i \in d + 1 .. d + m : fresh \/ i # d + 1 => w[i] = <<recs[i - d]>>
             /\ ~fresh => w[d + 1] = f[d + 1] \o <<recs[1]>>
  BY DEF Appended
<1>1. m \in Nat \ {0} /\ recs # <<>>
  OBVIOUS
<1>2. DOMAIN recs = 1 .. m /\ \A i \in 1 .. m : recs[i] \in Record
  BY <1>1
<1>3. PICK L : L = Seq(Record)
  OBVIOUS
<1>4. PICK a \in Nat : a = Len(f)
  OBVIOUS
<1>5. DOMAIN f = 1 .. a
  BY <1>4
<1>6. PICK lines : lines = [i \in DOMAIN recs |-> <<recs[i]>>]
  OBVIOUS
<1>7. f \in Seq(L) /\ f \in [1 .. a -> L]
  BY <1>3, <1>5
<1>8. lines \in Seq(L) /\ Len(lines) = m /\ \A i \in 1 .. m : lines[i] = <<recs[i]>>
  <2>1. \A i \in 1 .. m : <<recs[i]>> \in L
    BY <1>1, <1>2, <1>3
  <2>2. lines \in [1 .. m -> L] /\ \A i \in 1 .. m : lines[i] = <<recs[i]>>
    BY <1>1, <1>2, <1>6, <2>1
  <2> QED BY <1>1, <1>2, <2>2
<1>9. CASE fresh
  <2>1. w = f \o lines /\ d = a
    BY <1>4, <1>5, <1>6, <1>9 DEF Written
  <2>2. /\ w \in Seq(L) /\ DOMAIN w = 1 .. a + m /\ Len(w) = a + m
        /\ \A i \in 1 .. a : w[i] = f[i]
        /\ \A i \in a + 1 .. a + m : w[i] = lines[i - a] /\ i - a \in 1 .. m
    <3>1. /\ f \in Seq(L) /\ lines \in Seq(L) /\ a \in Nat /\ a = Len(f) /\ m \in Nat /\ m = Len(lines)
          /\ w = f \o lines
      BY <1>1, <1>4, <1>7, <1>8, <2>1
    <3> QED BY <3>1, JoinedIs
  <2>3. \A i \in a + 1 .. a + m : w[i] = <<recs[i - a]>>
    BY <1>8, <2>2
  <2>4. w \in Seq(Seq(Record))
    BY <1>3, <2>2
  <2> QED BY <1>9, <2>1, <2>2, <2>3, <2>4
<1>10. CASE ~fresh
  <2>1. a \in Nat \ {0} /\ d = a - 1 /\ d \in Nat /\ a \in 1 .. a
    <3>1. a = d + 1
      BY <1>4, <1>10
    <3> QED BY <3>1
  <2>2. PICK g : g = [f EXCEPT ![a] = @ \o lines[1]]
    OBVIOUS
  <2>3. PICK rest : rest = Tail(lines)
    OBVIOUS
  <2>4. w = g \o rest
    <3> HIDE DEF Appending
    <3>1. w = IF fresh \/ recs = <<>> THEN f \o lines
              ELSE [f EXCEPT ![Len(f)] = @ \o lines[1]] \o Tail(lines)
      BY <1>6 DEF Written
    <3>2. w = [f EXCEPT ![Len(f)] = @ \o lines[1]] \o Tail(lines)
      BY <1>1, <1>10, <3>1, Zenon
    <3> QED BY <1>4, <2>2, <2>3, <3>2, Zenon
  <2>5. PICK new \in L : new = f[a] \o <<recs[1]>>
    <3>1. PICK line \in Seq(Record) : line = f[a]
      BY <1>3, <1>7, <2>1
    <3>2. line \o <<recs[1]>> \in Seq(Record)
      BY <1>1, <1>2, <3>1
    <3> QED BY <1>3, <3>1, <3>2
  <2>6. g = [f EXCEPT ![a] = new]
    <3>1. lines[1] = <<recs[1]>>
      BY <1>1, <1>8
    <3>2. f[a] \o lines[1] = new
      BY <2>5, <3>1
    <3> QED BY <2>2, <3>2
  <2>7. g \in [1 .. a -> L] /\ g[a] = new /\ \A i \in 1 .. a : i # a => g[i] = f[i]
    <3>1. f \in [1 .. a -> L] /\ new \in L
      BY <1>7, <2>5
    <3> QED BY <2>1, <2>6, <3>1
  <2>8. g \in Seq(L) /\ Len(g) = a
    <3>1. g \in [1 .. a -> L] /\ a \in Nat
      BY <1>4, <2>7
    <3> QED BY <3>1
  <2>9. PICK k \in Nat : k = m - 1
    <3>1. m - 1 \in Nat
      BY <1>1
    <3> QED BY <3>1
  <2>10. rest \in Seq(L) /\ Len(rest) = k /\ \A i \in 1 .. k : rest[i] = lines[i + 1]
    BY <1>1, <1>2, <1>8, <2>3, <2>9
  <2>11. /\ w \in Seq(L) /\ DOMAIN w = 1 .. a + k /\ Len(w) = a + k
         /\ \A i \in 1 .. a : w[i] = g[i]
         /\ \A i \in a + 1 .. a + k : w[i] = rest[i - a] /\ i - a \in 1 .. k
    <3>1. /\ g \in Seq(L) /\ rest \in Seq(L) /\ a \in Nat /\ a = Len(g) /\ k \in Nat /\ k = Len(rest)
          /\ w = g \o rest
      BY <1>4, <2>4, <2>8, <2>9, <2>10
    <3> QED BY <3>1, JoinedIs
  <2>12. ASSUME NEW i \in d + 1 .. d + m, i # d + 1 PROVE w[i] = <<recs[i - d]>>
    <3>1. i \in a + 1 .. a + k /\ (i - a) + 1 = i - d /\ i - d \in 1 .. m /\ i - a \in 1 .. k
      <4>1. m = k + 1 /\ a = d + 1
        BY <1>1, <1>4, <2>1, <2>9
      <4>2. i \in d + 2 .. d + (k + 1)
        BY <2>1, <2>9, <2>12, <4>1
      <4>3. i \in (d + 1) + 1 .. (d + 1) + k /\ i - (d + 1) \in 1 .. k
        BY <2>1, <2>9, <4>2
      <4>4. (i - (d + 1)) + 1 = i - d /\ i - d \in 1 .. k + 1
        BY <2>1, <2>9, <4>2
      <4> QED BY <4>1, <4>3, <4>4
    <3>2. w[i] = rest[i - a]
      BY <2>11, <3>1
    <3>3. rest[i - a] = lines[(i - a) + 1]
      BY <2>10, <3>1
    <3> QED BY <1>8, <3>1, <3>2, <3>3
  <2>13. w[a] = f[a] \o <<recs[1]>> /\ \A i \in 1 .. d : w[i] = f[i]
    <3>1. \A i \in 1 .. d : i \in 1 .. a /\ i # a
      BY <1>4, <1>5, <2>1
    <3> QED BY <2>1, <2>5, <2>7, <2>11, <3>1
  <2>14. a + k = d + m /\ d + 1 = a
    BY <1>1, <1>2, <1>4, <1>5, <2>1, <2>9
  <2>15. w \in Seq(Seq(Record)) /\ DOMAIN w = 1 .. d + m /\ Len(w) = d + m
    BY <1>3, <2>11, <2>14
  <2>16. w[d + 1] = f[d + 1] \o <<recs[1]>>
    BY <2>13, <2>14
  <2> QED BY <1>10, <2>12, <2>13, <2>15, <2>16
<1> QED BY <1>9, <1>10

\* What a write of the first of the records that End has taken makes of the file.
LEMMA GrownIs ==
    ASSUME LInv, NEW recs \in Seq(Record), recs # <<>>, Len(recs) <= Len(ending),
           \A m \in DOMAIN recs : recs[m].iv = ending[m],
           NEW w, w = Written(file, recs)
    PROVE  /\ w \in Seq(Seq(Record)) /\ w # <<>>
           /\ \A i \in DOMAIN w : w[i] # <<>> /\ \A k \in DOMAIN w[i] : Over(held, w[i][k].iv)
           /\ \A i, k \in DOMAIN w : Good(w, i) /\ Good(w, k) /\ w[i][1].iv.n = w[k][1].iv.n => i = k
           /\ \A n \in Readable(file) : fresh \/ ~InLast(file, n) => n \in Readable(w)
           /\ \A m \in DOMAIN recs : recs[m].whole /\ (fresh \/ m # 1) => ending[m].n \in Readable(w)
           /\ \A n : InLast(w, n) => (~fresh /\ InLast(file, n)) \/ n \in Numbers(ending)
<1>1. Types /\ Writing /\ Lines /\ file \in Seq(Seq(Record)) /\ ending \in Seq(Interval)
  BY DEF LInv, Types
<1>2. PICK m \in Nat \ {0} : m = Len(recs)
  OBVIOUS
<1>3. DOMAIN recs = 1 .. m /\ (\A k \in 1 .. m : recs[k] \in Record)
  BY <1>2
<1>4. \A k \in 1 .. m : k \in DOMAIN ending
  <2>1. PICK e \in Nat : e = Len(ending) /\ DOMAIN ending = 1 .. e
    BY <1>1
  <2>2. m <= e
    BY <1>2, <2>1
  <2> QED BY <1>2, <2>1, <2>2
<1>5. PICK e \in Nat : e = Len(file) /\ DOMAIN file = 1 .. e /\ (fresh \/ e # 0)
  BY <1>1 DEF Lines
<1>6. PICK d \in Nat : (fresh => e = d) /\ (~fresh => e = d + 1)
  <2>1. e \in Nat /\ (e # 0 => e - 1 \in Nat /\ e = (e - 1) + 1)
    BY <1>5
  <2>2. CASE fresh
    BY <2>1, <2>2
  <2>3. CASE ~fresh
    BY <1>5, <2>1, <2>3
  <2> QED BY <2>2, <2>3
<1>7. /\ w \in Seq(Seq(Record)) /\ DOMAIN w = 1 .. d + m /\ Len(w) = d + m
      /\ \A i \in 1 .. d : w[i] = file[i]
      /\ \A i \in d + 1 .. d + m : fresh \/ i # d + 1 => w[i] = <<recs[i - d]>>
      /\ ~fresh => w[d + 1] = file[d + 1] \o <<recs[1]>>
  <2>1. PICK f \in Seq(Seq(Record)) : f = file
    BY <1>1
  <2>2. Len(f) = e /\ (fresh => Len(f) = d) /\ (~fresh => Len(f) = d + 1)
    <3>1. Len(f) = e
      BY <1>5, <2>1
    <3> QED BY <1>6, <3>1
  <2>3. w = Written(f, recs)
    BY <2>1
  <2>4. /\ w \in Seq(Seq(Record)) /\ DOMAIN w = 1 .. d + m /\ Len(w) = d + m
        /\ \A i \in 1 .. d : w[i] = f[i]
        /\ \A i \in d + 1 .. d + m : fresh \/ i # d + 1 => w[i] = <<recs[i - d]>>
        /\ ~fresh => w[d + 1] = f[d + 1] \o <<recs[1]>>
    <3>1. Appending(f, recs, m, d)
      BY <1>2, <1>6, <2>1, <2>2 DEF Appending
    <3>2. Appended(f, recs, m, d, w)
      BY <2>3, <3>1, WrittenIs
    <3> QED BY <3>2 DEF Appended
  <2> QED BY <2>1, <2>4
<1>8. DOMAIN w = 1 .. d + m /\ Len(w) = d + m
  BY <1>7
<1>9. \A i \in 1 .. d : i \in DOMAIN file /\ i \in DOMAIN w /\ w[i] = file[i]
  <2>1. \A i \in 1 .. d : i \in 1 .. d + m /\ i \in 1 .. d + 1
    BY <1>2, <1>6
  <2> QED BY <1>6, <1>7, <1>5, <2>1
<1>10. \A i \in d + 1 .. d + m : i - d \in 1 .. m /\ i \in 1 .. d + m
  BY <1>2, <1>6
<1>11. ASSUME NEW k \in 1 .. m
      PROVE  /\ Over(held, recs[k].iv) /\ recs[k].iv.n = ending[k].n
             /\ \A i \in DOMAIN file : \A l \in DOMAIN file[i] : file[i][l].iv.n # recs[k].iv.n
             /\ \A l \in 1 .. m : recs[l].iv.n = recs[k].iv.n => l = k
  <2>1. recs[k].iv = ending[k] /\ \A l \in 1 .. m : recs[l].iv = ending[l]
    BY <1>3
  <2>2. PICK iv : iv = ending[k]
    OBVIOUS
  <2>3. Over(held, iv) /\ \A i \in DOMAIN file : \A l \in DOMAIN file[i] : file[i][l].iv.n # iv.n
    BY <1>1, <1>4, <2>2 DEF Writing
  <2>4. \A l \in 1 .. m : ending[l].n = ending[k].n => l = k
    BY <1>1, <1>4 DEF Writing
  <2> QED BY <2>1, <2>2, <2>3, <2>4
\* A line is an old one, a new one, or the last one with more.
<1>12. ASSUME NEW i \in DOMAIN w
      PROVE  \/ i \in 1 .. d /\ i \in DOMAIN file /\ w[i] = file[i]
             \/ i \in d + 1 .. d + m /\ (fresh \/ i # d + 1) /\ w[i] = <<recs[i - d]>> /\ i - d \in 1 .. m
             \/ ~fresh /\ i = d + 1 /\ i \in DOMAIN file /\ w[i] = file[i] \o <<recs[1]>>
  <2>1. CASE i \in 1 .. d
    BY <1>9, <2>1
  <2>2. CASE i \in d + 1 .. d + m /\ (fresh \/ i # d + 1)
    BY <1>7, <1>10, <2>2
  <2>3. CASE ~fresh /\ i = d + 1
    <3>1. d + 1 \in 1 .. d + 1
      BY <1>6
    <3> QED BY <1>6, <1>7, <1>5, <2>3, <3>1
  <2>4. i \in 1 .. d \/ i \in d + 1 .. d + m
    BY <1>2, <1>6, <1>8
  <2> QED BY <2>1, <2>2, <2>3, <2>4
\* The last one with more.
<1>13. ASSUME ~fresh, NEW old, old = file[d + 1], NEW all, all = old \o <<recs[1]>>
      PROVE  /\ old \in Seq(Record) /\ old # <<>> /\ Len(all) = Len(old) + 1 /\ Len(all) # 1 /\ all # <<>>
             /\ \A k \in DOMAIN all : (k \in DOMAIN old /\ all[k] = old[k]) \/ all[k] = recs[1]
  <2>1. d + 1 \in DOMAIN file
    BY <1>6, <1>13, <1>5
  <2>2. old \in Seq(Record) /\ old # <<>>
    BY <1>1, <1>13, <2>1 DEF Lines
  <2>3. PICK r \in Record : r = recs[1]
    BY <1>2, <1>3
  <2>4. all = old \o <<r>>
    BY <1>13, <2>3
  <2> QED BY <2>2, <2>3, <2>4
<1>14. ASSUME NEW i \in DOMAIN w PROVE w[i] # <<>> /\ \A k \in DOMAIN w[i] : Over(held, w[i][k].iv)
  <2>1. CASE i \in DOMAIN file /\ w[i] = file[i]
    BY <1>1, <2>1 DEF Lines
  <2>2. CASE w[i] = <<recs[i - d]>> /\ i - d \in 1 .. m
    <3>1. w[i] # <<>> /\ DOMAIN w[i] = {1} /\ w[i][1] = recs[i - d]
      BY <2>2
    <3> QED BY <1>11, <2>2, <3>1
  <2>3. CASE ~fresh /\ i = d + 1 /\ i \in DOMAIN file /\ w[i] = file[i] \o <<recs[1]>>
    <3>1. 1 \in 1 .. m
      BY <1>2
    <3>2. Over(held, recs[1].iv)
      BY <1>11, <3>1
    <3>3. \A k \in DOMAIN file[i] : Over(held, file[i][k].iv)
      BY <1>1, <2>3 DEF Lines
    <3>4. w[i] # <<>> /\ \A k \in DOMAIN w[i] : (k \in DOMAIN file[i] /\ w[i][k] = file[i][k]) \/ w[i][k] = recs[1]
      BY <1>13, <2>3
    <3> QED BY <3>2, <3>3, <3>4
  <2> QED BY <1>12, <2>1, <2>2, <2>3
<1>15. ASSUME NEW i \in DOMAIN w, Good(w, i)
       PROVE  \/ i \in DOMAIN file /\ w[i] = file[i] /\ Good(file, i) /\ 1 \in DOMAIN file[i]
              \/ i - d \in 1 .. m /\ w[i][1].iv.n = recs[i - d].iv.n
  <2>1. CASE i \in DOMAIN file /\ w[i] = file[i]
    <3>1. PICK line \in Seq(Record) : line = file[i]
      BY <1>1, <2>1
    <3> QED BY <1>15, <2>1, <3>1 DEF Good
  <2>2. CASE w[i] = <<recs[i - d]>> /\ i - d \in 1 .. m
    BY <2>2
  <2>3. CASE ~fresh /\ i = d + 1 /\ w[i] = file[i] \o <<recs[1]>>
    BY <1>13, <1>15, <2>3 DEF Good
  <2> QED BY <1>12, <2>1, <2>2, <2>3
<1>16. ASSUME NEW i \in DOMAIN w, NEW k \in DOMAIN w, Good(w, i), Good(w, k), w[i][1].iv.n = w[k][1].iv.n
       PROVE  i = k
  <2>1. i \in Int /\ k \in Int
    BY <1>8
  <2>2. CASE i \in DOMAIN file /\ w[i] = file[i] /\ Good(file, i) /\ 1 \in DOMAIN file[i]
    <3>1. CASE k \in DOMAIN file /\ w[k] = file[k] /\ Good(file, k)
      BY <1>1, <1>16, <2>2, <3>1 DEF Lines
    <3>2. CASE k - d \in 1 .. m /\ w[k][1].iv.n = recs[k - d].iv.n
      BY <1>11, <1>16, <2>2, <3>2
    <3> QED BY <1>15, <1>16, <3>1, <3>2
  <2>3. CASE i - d \in 1 .. m /\ w[i][1].iv.n = recs[i - d].iv.n
    <3>1. k - d \in 1 .. m /\ w[k][1].iv.n = recs[k - d].iv.n
      <4>1. CASE k \in DOMAIN file /\ w[k] = file[k] /\ 1 \in DOMAIN file[k]
        <5>1. w[k][1].iv.n # recs[i - d].iv.n
          BY <1>11, <2>3, <4>1
        <5> QED BY <1>16, <2>3, <5>1
      <4> QED BY <1>15, <1>16, <4>1
    <3>2. i - d = k - d
      <4>1. PICK x \in 1 .. m, y \in 1 .. m : x = i - d /\ y = k - d
        BY <2>3, <3>1
      <4>2. recs[x].iv.n = recs[y].iv.n
        BY <1>16, <2>3, <3>1, <4>1
      <4>3. x = y
        BY <1>11, <4>2
      <4> QED BY <4>1, <4>3
    <3> QED BY <1>6, <2>1, <3>2
  <2> QED BY <1>15, <1>16, <2>2, <2>3
<1>17. ASSUME NEW n \in Readable(file), fresh \/ ~InLast(file, n) PROVE n \in Readable(w)
  <2>1. PICK i \in DOMAIN file : Good(file, i) /\ file[i][1].iv.n = n
    BY DEF Readable
  <2>2. PICK line \in Seq(Record) : line = file[i]
    BY <1>1, <2>1
  <2>3. 1 \in DOMAIN file[i]
    BY <2>1, <2>2 DEF Good
  <2>4. i \in 1 .. d
    <3>1. CASE fresh
      BY <1>6, <1>5, <2>1, <3>1
    <3>2. CASE ~fresh
      <4>1. Len(file) = d + 1
        BY <1>6, <1>5, <3>2
      <4>2. i # d + 1
        BY <1>17, <2>1, <2>3, <3>2, <4>1 DEF InLast
      <4>3. i \in 1 .. d + 1
        BY <1>6, <1>5, <2>1, <3>2
      <4> QED BY <1>6, <4>2, <4>3
    <3> QED BY <3>1, <3>2
  <2>5. i \in DOMAIN w /\ w[i] = file[i]
    BY <1>9, <2>4
  <2> QED BY <2>1, <2>5 DEF Readable, Good
<1>18. ASSUME NEW k \in DOMAIN recs, recs[k].whole, fresh \/ k # 1 PROVE ending[k].n \in Readable(w)
  <2>1. PICK i \in d + 1 .. d + m : i - d = k /\ (fresh \/ i # d + 1)
    <3>1. d + k \in d + 1 .. d + m /\ (d + k) - d = k /\ (k # 1 => d + k # d + 1)
      BY <1>2, <1>3, <1>6
    <3> QED BY <1>18, <3>1
  <2>2. i \in DOMAIN w /\ w[i] = <<recs[k]>>
    BY <1>7, <1>8, <1>10, <2>1
  <2>3. Good(w, i) /\ w[i][1] = recs[k]
    BY <1>18, <2>2 DEF Good
  <2> QED BY <1>3, <1>11, <2>2, <2>3 DEF Readable
<1>19. ASSUME NEW n, InLast(w, n) PROVE (~fresh /\ InLast(file, n)) \/ n \in Numbers(ending)
  <2>1. Len(w) = d + m /\ d + m \in DOMAIN w
    <3>1. d + m \in 1 .. d + m
      BY <1>2, <1>6
    <3> QED BY <1>8, <3>1
  <2>2. PICK k \in DOMAIN w[d + m] : w[d + m][k].iv.n = n
    BY <1>19, <2>1 DEF InLast
  <2>3. \A l \in 1 .. m : recs[l].iv.n \in Numbers(ending)
    BY <1>11, <1>4 DEF Numbers
  <2>4. CASE d + m \in 1 .. d
    BY <1>2, <1>6, <2>4
  <2>5. CASE w[d + m] = <<recs[(d + m) - d]>> /\ (d + m) - d \in 1 .. m
    <3>1. w[d + m][k] = recs[(d + m) - d]
      BY <2>2, <2>5
    <3> QED BY <2>2, <2>3, <2>5, <3>1
  <2>6. CASE ~fresh /\ d + m = d + 1 /\ d + m \in DOMAIN file /\ w[d + m] = file[d + m] \o <<recs[1]>>
    <3>1. Len(file) = d + 1 /\ 1 \in 1 .. m
      BY <1>2, <1>6, <1>5, <2>6
    <3>2. (k \in DOMAIN file[d + 1] /\ w[d + m][k] = file[d + 1][k]) \/ w[d + m][k] = recs[1]
      BY <1>13, <2>2, <2>6
    <3> QED BY <2>2, <2>3, <2>6, <3>1, <3>2 DEF InLast
  <2> QED BY <1>12, <2>1, <2>4, <2>5, <2>6
<1>20. w # <<>>
  <2>1. 1 \in 1 .. d + m
    BY <1>2, <1>6
  <2>2. DOMAIN w # {}
    BY <1>8, <2>1
  <2> QED BY <2>2
<1> QED BY <1>7, <1>14, <1>16, <1>17, <1>18, <1>19, <1>20

\* What was confirmed and cannot be read is finite, and there is a cut for it.
LEMMA HarmIs ==
    ASSUME LInv
    PROVE  /\ IsFiniteSet(kept \ Readable(file)) /\ Cardinality(kept \ Readable(file)) \in Nat
           /\ cuts = 0 => fresh
<1>1. Types /\ cuts \in Nat
  BY DEF LInv, Types
<1>2. IsFiniteSet(DOMAIN held)
  BY <1>1, HeldIs, FS_Interval
<1>3. kept \ Readable(file) \subseteq DOMAIN held
  BY <1>1 DEF Types
<1>4. IsFiniteSet(kept \ Readable(file)) /\ Cardinality(kept \ Readable(file)) \in Nat
  BY <1>2, <1>3, FS_Subset, FS_CardinalityType
<1> QED BY <1>1, <1>4 DEF LInv, Confirmed

\* What the end of a write, good or bad, does not touch.
LEMMA WriteKept ==
    ASSUME LInv, ending' = <<>>, UNCHANGED <<clock, open, reader, held, raced>>,
           file' \in Seq(Seq(Record)), fresh' \in BOOLEAN, cuts' \in Nat, cuts' = 0 => cuts = 0,
           kept' \subseteq DOMAIN held, lost \subseteq lost', lost' \subseteq DOMAIN held
    PROVE  Types' /\ Past' /\ Memory' /\ Writing' /\ Report'
<1>1. Types'
  <2>1. <<>> \in Seq(Interval)
    OBVIOUS
  <2> QED BY <2>1 DEF LInv, Types
<1>2. Past' /\ Memory' /\ Writing'
  BY DEF LInv, Past, Memory, Writing
<1>3. Settled
  BY DEF Settled
<1>4. clock \in Nat /\ clock' >= clock
  BY DEF LInv, Types
<1> QED BY <1>1, <1>2, <1>3, <1>4, ReportKept

\* What is confirmed stays readable where the file is appended to.
LEMMA KeptReadable ==
    ASSUME LInv, NEW w, \A n \in Readable(file) : fresh \/ ~InLast(file, n) => n \in Readable(w)
    PROVE  kept \ Readable(w) \subseteq kept \ Readable(file)
BY DEF LInv, Confirmed

LEMMA EndWriteInv == ASSUME LInv, EndWrite PROVE LInv'
<1>1. /\ ending # <<>> /\ fresh' = TRUE /\ kept' \in {kept \cup Numbers(ending), kept} /\ ending' = <<>>
      /\ UNCHANGED <<clock, open, reader, held, lost, raced, cuts>> /\ Types /\ Writing
  BY DEF EndWrite, LInv
<1>2. PICK recs : recs = [i \in DOMAIN ending |-> Whole(ending[i])]
  OBVIOUS
<1>3. PICK e \in Seq(Interval) : e = ending
  BY <1>1 DEF Types
<1>4. PICK a \in Nat \ {0} : a = Len(e) /\ DOMAIN e = 1 .. a
  BY <1>1, <1>3
<1>5. /\ recs \in Seq(Record) /\ recs # <<>> /\ Len(recs) = a /\ DOMAIN recs = 1 .. a
      /\ \A m \in 1 .. a : recs[m].iv = ending[m] /\ recs[m].whole
  <2>1. recs = [i \in 1 .. a |-> Whole(e[i])]
    BY <1>2, <1>3, <1>4
  <2>2. \A i \in 1 .. a : Whole(e[i]) \in Record /\ Whole(e[i]).iv = e[i] /\ Whole(e[i]).whole
    BY <1>3, <1>4 DEF Whole, Record
  <2>3. recs \in [1 .. a -> Record] /\ \A m \in 1 .. a : recs[m].iv = e[m] /\ recs[m].whole
    BY <2>1, <2>2
  <2>4. recs \in Seq(Record) /\ Len(recs) = a /\ DOMAIN recs = 1 .. a
    BY <1>4, <2>3
  <2>5. recs # <<>>
    BY <1>4, <2>4
  <2> QED BY <1>3, <2>3, <2>4, <2>5
<1>6. PICK w : w = Written(file, recs) /\ file' = w
  BY <1>2 DEF EndWrite
<1>7. /\ w \in Seq(Seq(Record)) /\ w # <<>>
      /\ \A i \in DOMAIN w : w[i] # <<>> /\ \A k \in DOMAIN w[i] : Over(held, w[i][k].iv)
      /\ \A i, k \in DOMAIN w : Good(w, i) /\ Good(w, k) /\ w[i][1].iv.n = w[k][1].iv.n => i = k
      /\ \A n \in Readable(file) : fresh \/ ~InLast(file, n) => n \in Readable(w)
      /\ \A m \in DOMAIN recs : recs[m].whole /\ (fresh \/ m # 1) => ending[m].n \in Readable(w)
  <2>1. Len(recs) <= Len(ending) /\ \A m \in DOMAIN recs : recs[m].iv = ending[m]
    BY <1>3, <1>4, <1>5
  <2> QED BY <1>5, <1>6, <2>1, GrownIs
<1>8. \A m \in 1 .. a : fresh \/ m # 1 => ending[m].n \in Readable(w)
  BY <1>5, <1>7
<1>9. \A n \in Numbers(ending) : \E m \in 1 .. a : n = ending[m].n /\ m \in DOMAIN ending
  BY <1>3, <1>4 DEF Numbers
<1>10. Numbers(ending) \subseteq DOMAIN held /\ \A n \in Numbers(ending) : held[n].end # NoEnd
  BY <1>1, <1>9 DEF Writing, Over, NoEnd
<1>11. Types' /\ Past' /\ Memory' /\ Writing' /\ Report'
  <2>1. kept' \subseteq DOMAIN held /\ lost' \subseteq DOMAIN held /\ lost \subseteq lost' /\ cuts' \in Nat
    BY <1>1, <1>10 DEF Types
  <2> QED BY <1>1, <1>6, <1>7, <2>1, WriteKept
<1>12. Lines'
  BY <1>1, <1>6, <1>7 DEF Lines
<1>13. Readable(file)' = Readable(w)
  BY <1>6 DEF Readable, Good
<1>14. Confirmed'
  <2>1. \A n \in kept' : held'[n].end # NoEnd
    BY <1>1, <1>10 DEF LInv, Confirmed
  <2>2. PICK A : A = kept \ Readable(file)
    OBVIOUS
  <2>3. PICK B : B = kept' \ Readable(w)
    OBVIOUS
  <2>4. PICK x : x = ending[1].n
    OBVIOUS
  <2>5. IsFiniteSet(A) /\ Cardinality(A) \in Nat /\ cuts \in Nat
    BY <1>1, <2>2, HarmIs DEF Types
  <2>6. kept \ Readable(w) \subseteq A
    BY <1>7, <2>2, KeptReadable
  <2>7. Cardinality(B) \in Nat /\ Cardinality(B) <= cuts
    <3>1. CASE fresh
      <4>1. Numbers(ending) \subseteq Readable(w)
        BY <1>8, <1>9, <3>1
      <4>2. B \subseteq A
        BY <1>1, <2>3, <2>6, <4>1
      <4>3. Cardinality(A) <= cuts
        BY <2>2, <2>5, <3>1 DEF LInv, Confirmed
      <4>4. Cardinality(B) \in Nat /\ Cardinality(B) <= Cardinality(A)
        BY <2>5, <4>2, FS_Subset, FS_CardinalityType
      <4> QED BY <2>5, <4>3, <4>4
    <3>2. CASE ~fresh
      <4>1. Numbers(ending) \subseteq Readable(w) \cup {x}
        BY <1>8, <1>9, <2>4
      <4>2. B \subseteq A \cup {x}
        BY <1>1, <2>3, <2>6, <4>1
      <4>3. Cardinality(A) + 1 <= cuts
        BY <2>2, <2>5, <3>2 DEF LInv, Confirmed
      <4>4. PICK C : C = A \cup {x}
        OBVIOUS
      <4>5. IsFiniteSet(C) /\ (Cardinality(C) = Cardinality(A) \/ Cardinality(C) = Cardinality(A) + 1)
        BY <2>5, <4>4, FS_AddElement
      <4>6. Cardinality(B) \in Nat /\ Cardinality(B) <= Cardinality(C)
        BY <4>2, <4>4, <4>5, FS_Subset, FS_CardinalityType
      <4> QED BY <2>5, <4>3, <4>5, <4>6
    <3> QED BY <3>1, <3>2
  <2>8. Cardinality(kept \ Readable(file))' = Cardinality(B)
    BY <1>13, <2>3
  <2>9. Cardinality(B) + 0 <= cuts
    BY <2>7
  <2> QED BY <1>1, <2>1, <2>8, <2>9 DEF Confirmed
<1>15. Complete'
  <2>1. ASSUME cuts = 0, NEW n \in DOMAIN held \ lost PROVE held[n].end = NoEnd \/ n \in Readable(w)
    <3>1. fresh
      BY <2>1, HarmIs
    <3>2. CASE n \in Numbers(ending)
      BY <1>8, <1>9, <3>1, <3>2
    <3>3. CASE n \in Readable(file)
      BY <1>7, <3>1, <3>3
    <3> QED BY <2>1, <3>2, <3>3 DEF LInv, Complete
  <2> QED BY <1>1, <1>13, <2>1 DEF Complete
<1> QED BY <1>11, <1>12, <1>14, <1>15 DEF LInv

\* The records that a write which fails has put in the file.
LEMMA FailedIs ==
    ASSUME LInv, NEW k \in Nat, NEW cut, EndFail(k, cut), k > 0 \/ cut # "nothing"
    PROVE  \E recs \in Seq(Record) :
              /\ recs # <<>> /\ Len(recs) <= Len(ending) /\ file' = Written(file, recs)
              /\ \A m \in DOMAIN recs : recs[m].iv = ending[m]
              /\ \A m \in 1 .. k : m \in DOMAIN recs /\ recs[m].whole
<1>1. PICK e \in Seq(Interval) : e = ending
  BY DEF LInv, Types
<1>2. PICK a \in Nat : a = Len(e) /\ DOMAIN e = 1 .. a
  BY <1>1
<1>3. k < a /\ k + 1 \in 1 .. a /\ \A i \in 1 .. k : i \in 1 .. a
  <2>1. k < a
    BY <1>1, <1>2 DEF EndFail
  <2> QED BY <1>2, <2>1
<1>4. PICK whole : whole = [i \in 1 .. k |-> Whole(ending[i])]
  OBVIOUS
<1>5. PICK last : last = IF cut = "half" THEN Half(ending[k + 1]) ELSE Whole(ending[k + 1])
  OBVIOUS
<1>6. /\ whole \in Seq(Record) /\ Len(whole) = k /\ DOMAIN whole = 1 .. k
      /\ \A m \in 1 .. k : whole[m].iv = e[m] /\ whole[m].whole
  <2>1. \A i \in 1 .. k : Whole(e[i]) \in Record /\ Whole(e[i]).iv = e[i] /\ Whole(e[i]).whole
    BY <1>1, <1>2, <1>3 DEF Whole, Record
  <2>2. whole \in [1 .. k -> Record] /\ \A m \in 1 .. k : whole[m].iv = e[m] /\ whole[m].whole
    BY <1>1, <1>4, <2>1
  <2>3. whole \in Seq(Record) /\ Len(whole) = k /\ DOMAIN whole = 1 .. k
    BY <2>2
  <2> QED BY <2>2, <2>3
<1>7. last \in Record /\ last.iv = e[k + 1]
  BY <1>1, <1>2, <1>3, <1>5 DEF Whole, Half, Record
<1>8. CASE cut = "nothing"
  <2>1. file' = Written(file, whole)
    BY <1>4, <1>8 DEF EndFail
  <2>2. k > 0
    BY <1>8
  <2>3. whole # <<>> /\ Len(whole) <= Len(ending)
    BY <1>1, <1>2, <1>3, <1>6, <2>2
  <2> QED BY <1>1, <1>6, <2>1, <2>3
<1>9. CASE cut # "nothing"
  <2>1. PICK recs : recs = Append(whole, last)
    OBVIOUS
  <2>2. file' = Written(file, recs)
    BY <1>4, <1>5, <1>9, <2>1 DEF EndFail
  <2>3. /\ recs \in Seq(Record) /\ recs # <<>> /\ Len(recs) = k + 1 /\ DOMAIN recs = 1 .. k + 1
        /\ recs[k + 1] = last /\ \A m \in 1 .. k : recs[m] = whole[m]
    BY <1>6, <1>7, <2>1
  <2>4. \A m \in 1 .. k + 1 : m \in 1 .. k \/ m = k + 1
    OBVIOUS
  <2>5. \A m \in 1 .. k + 1 : recs[m].iv = e[m]
    BY <1>6, <1>7, <2>3, <2>4
  <2>6. \A m \in 1 .. k : m \in DOMAIN recs /\ recs[m].whole
    <3>1. \A m \in 1 .. k : m \in 1 .. k + 1
      OBVIOUS
    <3> QED BY <1>6, <2>3, <3>1
  <2>7. Len(recs) <= Len(ending)
    BY <1>1, <1>2, <1>3, <2>3
  <2> QED BY <1>1, <2>2, <2>3, <2>5, <2>6, <2>7
<1> QED BY <1>8, <1>9

LEMMA EndFailInv == ASSUME LInv, NEW k \in Nat, NEW cut, EndFail(k, cut) PROVE LInv'
<1>1. /\ ending' = <<>> /\ UNCHANGED <<clock, open, reader, held, kept, raced>> /\ Types /\ Writing
      /\ cuts \in Nat /\ kept \subseteq DOMAIN held /\ lost \subseteq DOMAIN held /\ fresh \in BOOLEAN
  BY DEF EndFail, LInv, Types
<1>2. lost' = lost \cup {ending[i].n : i \in k + 1 .. Len(ending)}
  BY DEF EndFail
<1>3. PICK a \in Nat : a = Len(ending) /\ DOMAIN ending = 1 .. a
  BY <1>1 DEF Types
<1>4. lost \subseteq lost' /\ lost' \subseteq DOMAIN held
  <2>1. \A i \in k + 1 .. a : i \in 1 .. a
    BY <1>3
  <2>2. \A i \in 1 .. a : ending[i].n \in DOMAIN held
    BY <1>1, <1>3 DEF Writing, Over
  <2> QED BY <1>1, <1>2, <1>3, <2>1, <2>2
<1>5. \A n \in Numbers(ending) \ lost' : \E m \in 1 .. k : n = ending[m].n
  <2>1. \A i \in 1 .. a : i \in 1 .. k \/ i \in k + 1 .. a
    BY <1>3
  <2> QED BY <1>2, <1>3, <2>1 DEF Numbers
<1>6. /\ cut = "nothing" => cuts' = cuts /\ fresh' = (fresh \/ k > 0)
      /\ cut # "nothing" => cuts' = cuts + 1 /\ fresh' = FALSE
  BY DEF EndFail
<1>7. fresh' \in BOOLEAN /\ cuts' \in Nat /\ (cuts' = 0 => cuts = 0 /\ cut = "nothing")
  <2>1. fresh' \in BOOLEAN
    BY <1>6, Zenon
  <2>2. \A c \in Nat : c + 1 \in Nat /\ c + 1 # 0
    OBVIOUS
  <2>3. cuts' \in Nat /\ (cuts' = 0 => cuts = 0 /\ cut = "nothing")
    BY <1>1, <1>6, <2>2, Zenon
  <2> QED BY <2>1, <2>3
<1>8. /\ IsFiniteSet(kept \ Readable(file)) /\ Cardinality(kept \ Readable(file)) \in Nat
      /\ cuts = 0 => fresh
  BY HarmIs
<1>9. /\ \A n \in kept : held[n].end # NoEnd
      /\ ~fresh => \A n \in kept : ~InLast(file, n)
      /\ fresh => Cardinality(kept \ Readable(file)) <= cuts
      /\ ~fresh => Cardinality(kept \ Readable(file)) + 1 <= cuts
  BY <1>8 DEF LInv, Confirmed
\* Nothing was written.
<1>10. CASE k = 0 /\ cut = "nothing"
  <2>1. file' = file /\ fresh' = fresh /\ cuts' = cuts
    <3>1. [i \in 1 .. k |-> Whole(ending[i])] = <<>>
      BY <1>10
    <3>2. file' = Written(file, <<>>)
      BY <1>10, <3>1 DEF EndFail
    <3>3. PICK L : L = Seq(Record)
      OBVIOUS
    <3>4. PICK f \in Seq(L) : f = file
      BY <1>1, <3>3 DEF Types
    <3>5. Written(file, <<>>) = f \o <<>>
      <4>1. [i \in DOMAIN <<>> |-> << <<>>[i] >>] = <<>>
        OBVIOUS
      <4> QED BY <3>4, <4>1 DEF Written
    <3>6. f \o <<>> = f
      BY <3>4
    <3>7. fresh' = fresh
      BY <1>1, <1>6, <1>10
    <3> QED BY <1>6, <1>10, <3>2, <3>4, <3>5, <3>6, <3>7
  <2>2. Types' /\ Past' /\ Memory' /\ Writing' /\ Report'
    <3>1. file' \in Seq(Seq(Record))
      BY <1>1, <2>1 DEF Types
    <3> QED BY <1>1, <1>4, <1>7, <3>1, WriteKept
  <2>3. Lines'
    BY <1>1, <2>1 DEF LInv, Lines, Good, Over
  <2>4. Confirmed'
    BY <1>1, <2>1 DEF LInv, Confirmed, Readable, InLast, Good
  <2>5. Complete'
    <3>1. Readable(file)' = Readable(file)
      BY <2>1 DEF Readable, Good
    <3>2. \A n \in Numbers(ending) : n \in lost'
      BY <1>5, <1>10
    <3> QED BY <1>1, <1>4, <2>1, <3>1, <3>2 DEF LInv, Complete
  <2> QED BY <2>2, <2>3, <2>4, <2>5 DEF LInv
\* Something was.
<1>11. CASE k > 0 \/ cut # "nothing"
  <2>1. PICK recs \in Seq(Record) :
              /\ recs # <<>> /\ Len(recs) <= Len(ending) /\ file' = Written(file, recs)
              /\ \A m \in DOMAIN recs : recs[m].iv = ending[m]
              /\ \A m \in 1 .. k : m \in DOMAIN recs /\ recs[m].whole
    BY <1>11, FailedIs
  <2>2. PICK w : w = Written(file, recs) /\ file' = w
    BY <2>1
  <2>3. /\ w \in Seq(Seq(Record)) /\ w # <<>>
        /\ \A i \in DOMAIN w : w[i] # <<>> /\ \A l \in DOMAIN w[i] : Over(held, w[i][l].iv)
        /\ \A i, l \in DOMAIN w : Good(w, i) /\ Good(w, l) /\ w[i][1].iv.n = w[l][1].iv.n => i = l
        /\ \A n \in Readable(file) : fresh \/ ~InLast(file, n) => n \in Readable(w)
        /\ \A m \in DOMAIN recs : recs[m].whole /\ (fresh \/ m # 1) => ending[m].n \in Readable(w)
        /\ \A n : InLast(w, n) => (~fresh /\ InLast(file, n)) \/ n \in Numbers(ending)
    BY <2>1, <2>2, GrownIs
  <2>4. Types' /\ Past' /\ Memory' /\ Writing' /\ Report'
    BY <1>1, <1>4, <1>7, <2>2, <2>3, WriteKept
  <2>5. Lines'
    BY <1>1, <2>2, <2>3 DEF Lines
  <2>6. Readable(file)' = Readable(w)
    BY <2>2 DEF Readable, Good
  <2>7. Confirmed'
    <3>1. \A n \in kept : ~InLast(w, n)
      <4>1. \A n \in kept : n \notin Numbers(ending)
        BY <1>1 DEF Writing, Numbers
      <4>2. \A n : InLast(w, n) => (~fresh /\ InLast(file, n)) \/ n \in Numbers(ending)
        BY <2>3
      <4> QED BY <1>9, <4>1, <4>2, Zenon
    <3>2. PICK A : A = kept \ Readable(file)
      OBVIOUS
    <3>3. PICK B : B = kept \ Readable(w)
      OBVIOUS
    <3>4. B \subseteq A
      BY <2>3, <3>2, <3>3, KeptReadable
    <3>5. PICK p \in Nat, q \in Nat : p = Cardinality(A) /\ q = Cardinality(B) /\ q <= p
      BY <1>8, <3>2, <3>4, FS_Subset, FS_CardinalityType
    <3>6. p <= cuts
      BY <1>1, <1>9, <3>2, <3>5
    <3>7. (fresh' => q <= cuts') /\ (~fresh' => q + 1 <= cuts')
      <4>1. q <= cuts /\ q + 1 <= cuts + 1
        BY <1>1, <3>5, <3>6
      <4>2. cut = "nothing" => fresh'
        BY <1>6, <1>11, Zenon
      <4> QED BY <1>6, <4>1, <4>2, Zenon
    <3>8. q + (IF fresh' THEN 0 ELSE 1) <= cuts'
      BY <3>5, <3>7
    <3>9. Cardinality(kept \ Readable(file))' = q
      BY <1>1, <2>6, <3>3, <3>5
    <3>10. ~fresh' => \A n \in kept' : ~InLast(file, n)'
      BY <1>1, <2>2, <3>1 DEF InLast
    <3> QED BY <1>1, <1>9, <3>8, <3>9, <3>10 DEF Confirmed
  <2>8. Complete'
    <3>1. ASSUME cuts' = 0, NEW n \in DOMAIN held \ lost' PROVE held[n].end = NoEnd \/ n \in Readable(w)
      <4>1. fresh /\ cuts = 0 /\ n \notin lost
        BY <1>4, <1>7, <1>8, <3>1
      <4>2. CASE n \in Numbers(ending)
        BY <1>5, <2>1, <2>3, <3>1, <4>1, <4>2
      <4>3. CASE n \in Readable(file)
        BY <2>3, <4>1, <4>3
      <4> QED BY <4>1, <4>2, <4>3 DEF LInv, Complete
    <3> QED BY <1>1, <2>6, <3>1 DEF Complete
  <2> QED BY <2>4, <2>5, <2>7, <2>8 DEF LInv
<1> QED BY <1>10, <1>11

-----------------------------------------------------------------------------
(* The invariant, and what follows. *)

LEMMA NextLInv == ASSUME LInv, [Next]_vars PROVE LInv'
<1>1. CASE Tick
  BY <1>1, TickInv
<1>2. ASSUME NEW j \in Jobs, EndTake(j) PROVE LInv'
  BY <1>2, EndTakeInv
<1>3. ASSUME NEW j \in Jobs, NEW k \in 1 .. MaxSlots, Begin(j, k) PROVE LInv'
  BY <1>3, BeginInv
<1>4. CASE EndWrite
  BY <1>4, EndWriteInv
<1>5. ASSUME NEW k \in 0 .. MaxSlots - 1, NEW cut \in Cuts, EndFail(k, cut) PROVE LInv'
  <2>1. k \in Nat
    BY LedgerAssumption
  <2> QED BY <1>5, <2>1, EndFailInv
<1>6. ASSUME NEW since \in 0 .. MaxClock, UsageRead(since) PROVE LInv'
  BY <1>6, UsageReadInv
<1>7. CASE UsageOpen
  BY <1>7, UsageOpenInv
<1>8. CASE UsageReturn
  BY <1>8, UsageReturnInv
<1>9. CASE Crash
  BY <1>9, CrashInv
<1>10. CASE UNCHANGED vars
  <2>1. UNCHANGED <<clock, open, ending, file, fresh, held, kept, lost, cuts>> /\ UNCHANGED <<reader, raced>>
    BY <1>10 DEF vars
  <2>2. raced' \in BOOLEAN
    BY <2>1 DEF LInv, Types
  <2>3. Report'
    BY <2>1 DEF LInv, Report, Records, Lives, Full, Once, NumbersOf, Over
  <2> QED BY <2>1, <2>2, <2>3, OthersKept DEF LInv
<1> QED BY <1>1, <1>2, <1>3, <1>4, <1>5, <1>6, <1>7, <1>8, <1>9, <1>10 DEF Next

\* LInv is an invariant of the ledger.
THEOREM SpecLInv == Spec => []LInv
BY InitLedger, NextLInv, PTL DEF Spec

\* The memory, the write under way, the file and the report are of their types: what is
\* open is exactly what is held.
THEOREM TypeCorrect == Spec => []TypeOK
<1>1. ASSUME LInv PROVE TypeOK
  <2>1. Types /\ Memory /\ Writing /\ Report
    BY <1>1 DEF LInv
  <2>2. \A j \in Jobs : \A i \in DOMAIN open[j] :
           open[j][i] \in Interval /\ open[j][i].start = held[open[j][i].n].start
    BY <2>1 DEF Types, Memory
  <2>3. UNION {Numbers(open[j]) : j \in Jobs} = {n \in DOMAIN held : held[n].end = NoEnd}
    BY <2>1 DEF Memory, Numbers
  <2>4. \A i \in DOMAIN ending : ending[i] \in Interval /\ ending[i].end \in Nat
    BY <2>1 DEF Types, Writing, Over
  <2>5. /\ \A i \in DOMAIN reader.recs : reader.recs[i] \in Interval
        /\ \A x \in DOMAIN reader.live : reader.live[x] \in Interval
    BY <2>1 DEF Report, Records, Lives
  <2> QED BY <2>1, <2>2, <2>3, <2>4, <2>5 DEF TypeOK, Types, Report
<1> QED BY <1>1, SpecLInv, PTL

\* What End has confirmed can be read back for ever, through crashes and writes that
\* fail, but for one interval for each write that was cut within a line.
THEOREM ConfirmedStays == Spec => []SyncedKept
<1>1. ASSUME LInv PROVE SyncedKept
  <2>1. PICK recs : recs = Read(file)
    OBVIOUS
  <2>2. {recs[i].n : i \in DOMAIN recs} = Readable(file)
    BY <1>1, <2>1, ReadIs DEF NumbersOf
  <2>3. PICK c \in Nat : c = Cardinality(kept \ Readable(file))
    BY <1>1, HarmIs
  <2>4. c + (IF fresh THEN 0 ELSE 1) <= cuts /\ cuts \in Nat
    BY <1>1, <2>3 DEF LInv, Confirmed, Types
  <2>5. c <= cuts
    BY <2>3, <2>4
  <2> QED BY <2>1, <2>2, <2>3, <2>5 DEF SyncedKept
<1> QED BY <1>1, SpecLInv, PTL

\* An interval that is not there counts nothing.
LEMMA SumNone == ASSUME NEW ivs, NEW n, n \notin NumbersOf(ivs) PROVE SumOf(ivs, n) = 0
<1>1. {k \in DOMAIN ivs : ivs[k].n = n} = {}
  BY DEF NumbersOf
<1>2. UNION {{i} \X (1 .. Seconds(ivs[i].start, ivs[i].end, reader.since, reader.until)) :
                          i \in {k \in DOMAIN ivs : ivs[k].n = n}} = {}
  BY <1>1
<1> QED BY <1>2, FS_EmptySet DEF SumOf

\* One that is there once counts the seconds of its part in the window.
LEMMA SumOne ==
    ASSUME NEW ivs, Once(ivs), NEW i \in DOMAIN ivs, NEW n, n = ivs[i].n,
           NEW s \in Nat, s = Seconds(ivs[i].start, ivs[i].end, reader.since, reader.until)
    PROVE  SumOf(ivs, n) = s
<1>1. {k \in DOMAIN ivs : ivs[k].n = n} = {i}
  BY DEF Once
<1>2. UNION {{l} \X (1 .. Seconds(ivs[l].start, ivs[l].end, reader.since, reader.until)) :
                          l \in {k \in DOMAIN ivs : ivs[k].n = n}} = {i} \X (1 .. s)
  BY <1>1
<1>3. IsFiniteSet({i}) /\ Cardinality({i}) = 1
  BY FS_Singleton
<1>4. IsFiniteSet(1 .. s) /\ Cardinality(1 .. s) = s
  BY FS_Interval
<1>5. Cardinality({i} \X (1 .. s)) = Cardinality({i}) * Cardinality(1 .. s)
  BY <1>3, <1>4, FS_Product
<1>6. Cardinality({i} \X (1 .. s)) = s
  BY <1>3, <1>4, <1>5
<1> QED BY <1>2, <1>6 DEF SumOf

\* The time for which an interval was held until e, if that is within the window.
LEMMA DueIs ==
    ASSUME LInv, NEW n \in DOMAIN held, NEW b \in Nat, b = held[n].start, NEW e \in Nat,
           \/ e = reader.until /\ (held[n].end = NoEnd \/ held[n].end >= reader.until)
           \/ e = held[n].end /\ e < reader.until
    PROVE  /\ Due(n) \in Nat
           /\ e > Later(b, reader.since) => Due(n) = e - Later(b, reader.since)
           /\ ~(e > Later(b, reader.since)) => Due(n) = 0
<1>1. PICK u \in Nat, s \in Nat : u = reader.until /\ s = reader.since
  BY DEF LInv, Report
<1>2. PICK from \in Nat : from = Later(b, s)
  BY <1>1 DEF Later
<1>3. PICK x \in Nat \cup {NoEnd} : x = held[n].end
  BY HeldIs DEF LInv
<1>4. (e = u /\ (x = NoEnd \/ x >= u)) \/ (e = x /\ e < u)
  BY <1>1, <1>3
<1>5. Due(n) = Cardinality({t \in from .. u - 1 : x = NoEnd \/ t < x})
  BY <1>1, <1>2, <1>3 DEF Due
<1>6. {t \in from .. u - 1 : x = NoEnd \/ t < x} = from .. e - 1
  <2>1. CASE e = u /\ (x = NoEnd \/ x >= u)
    <3>1. \A t \in from .. u - 1 : x = NoEnd \/ t < x
      BY <1>1, <1>2, <1>3, <2>1
    <3> QED BY <2>1, <3>1
  <2>2. CASE e = x /\ e < u
    <3>1. x # NoEnd
      BY <2>2 DEF NoEnd
    <3>2. \A t : t \in from .. u - 1 /\ t < e <=> t \in from .. e - 1
      BY <1>1, <1>2, <2>2
    <3> QED BY <2>2, <3>1, <3>2
  <2> QED BY <1>4, <2>1, <2>2
<1>7. Cardinality(from .. e - 1) = IF from > e - 1 THEN 0 ELSE (e - 1) - from + 1
  <2>1. PICK y \in Int : y = e - 1
    OBVIOUS
  <2>2. from \in Int
    BY <1>2
  <2>3. Cardinality(from .. y) = IF from > y THEN 0 ELSE y - from + 1
    BY <2>1, <2>2, FS_Interval
  <2> QED BY <2>1, <2>3
<1>8. /\ Due(n) \in Nat /\ (e > from => Due(n) = e - from) /\ (~(e > from) => Due(n) = 0)
  <2>1. PICK c : c = Due(n)
    OBVIOUS
  <2>2. c = IF from > e - 1 THEN 0 ELSE (e - 1) - from + 1
    BY <1>5, <1>6, <1>7, <2>1
  <2>3. c \in Nat /\ (e > from => c = e - from) /\ (~(e > from) => c = 0)
    BY <1>2, <2>2
  <2> QED BY <2>1, <2>3
<1> QED BY <1>1, <1>2, <1>8

\* For an interval that the report has, the two agree; for one it has not, nothing is counted.
LEMMA CountedIs ==
    ASSUME LInv, NEW n \in DOMAIN held
    PROVE  /\ Due(n) \in Nat
           /\ n \in NumbersOf(reader.recs) \/ n \in NumbersOf(reader.live) => Counted(n) = Due(n)
           /\ n \notin NumbersOf(reader.recs) /\ n \notin NumbersOf(reader.live) => Counted(n) = 0
           /\ held[n].start >= reader.until => Due(n) = 0
<1>1. PICK u \in Nat, s \in Nat : u = reader.until /\ s = reader.since
  BY DEF LInv, Report
<1>2. PICK b \in Nat : b = held[n].start
  BY HeldIs DEF LInv
<1>3. PICK x \in Nat \cup {NoEnd} : x = held[n].end
  BY HeldIs DEF LInv
<1>4. PICK e \in Nat : (e = u /\ (x = NoEnd \/ x >= u)) \/ (e = x /\ e < u)
  <2>1. CASE x = NoEnd \/ x >= u
    BY <1>1, <2>1
  <2>2. CASE x # NoEnd /\ ~(x >= u)
    <3>1. x \in Nat /\ x < u
      BY <1>1, <1>3, <2>2
    <3> QED BY <3>1
  <2> QED BY <2>1, <2>2
<1>5. PICK from \in Nat : from = Later(b, s) /\ from >= b
  BY <1>1, <1>2 DEF Later
<1>6. /\ Due(n) \in Nat
      /\ e > from => Due(n) = e - from
      /\ ~(e > from) => Due(n) = 0
  <2>1. \/ e = reader.until /\ (held[n].end = NoEnd \/ held[n].end >= reader.until)
        \/ e = held[n].end /\ e < reader.until
    BY <1>1, <1>3, <1>4
  <2> QED BY <1>1, <1>2, <1>4, <1>5, <2>1, DueIs
<1>7. ASSUME NEW ivs, Once(ivs), NEW i \in DOMAIN ivs, ivs[i].n = n, ivs[i].start = b,
             NEW y \in Nat, ivs[i].end = y, (e = u /\ y >= u) \/ (e = y /\ e < u)
      PROVE  SumOf(ivs, n) = Due(n)
  <2>1. PICK sec : sec = Seconds(b, y, s, u)
    OBVIOUS
  <2>2. sec \in Nat /\ (e > from => sec = e - from) /\ (~(e > from) => sec = 0)
    <3>1. /\ b \in Nat /\ y \in Nat /\ s \in Nat /\ u \in Nat /\ e \in Nat
          /\ (e = u /\ y >= u) \/ (e = y /\ e < u)
      BY <1>1, <1>2, <1>4, <1>7
    <3>2. /\ Seconds(b, y, s, u) \in Nat
          /\ e > Later(b, s) => Seconds(b, y, s, u) = e - Later(b, s)
          /\ ~(e > Later(b, s)) => Seconds(b, y, s, u) = 0
      BY <3>1 DEF Seconds, Later
    <3> QED BY <1>5, <2>1, <3>2
  <2>3. sec = Seconds(ivs[i].start, ivs[i].end, reader.since, reader.until)
    BY <1>1, <1>7, <2>1
  <2>4. SumOf(ivs, n) = sec
    BY <1>7, <2>2, <2>3, SumOne
  <2>5. sec = Due(n)
    BY <1>6, <2>2
  <2> QED BY <2>4, <2>5
<1>8. ASSUME n \in NumbersOf(reader.recs)
      PROVE  SumOf(reader.recs, n) = Due(n) /\ n \notin NumbersOf(reader.live)
  <2>1. PICK i \in DOMAIN reader.recs : reader.recs[i].n = n
    BY <1>8 DEF NumbersOf
  <2>2. Over(held, reader.recs[i]) /\ Once(reader.recs)
    BY DEF LInv, Report, Records
  <2>3. reader.recs[i].start = b /\ reader.recs[i].end = x /\ x \in Nat
    BY <1>2, <1>3, <2>1, <2>2 DEF Over
  <2>4. (e = u /\ x >= u) \/ (e = x /\ e < u)
    BY <1>4, <2>3 DEF NoEnd
  <2>5. PICK ivs : ivs = reader.recs
    OBVIOUS
  <2>6. SumOf(ivs, n) = Due(n)
    BY <1>7, <2>1, <2>2, <2>3, <2>4, <2>5
  <2>7. n \notin NumbersOf(reader.live)
    BY <1>8 DEF LInv, Report, Lives, NumbersOf
  <2> QED BY <2>5, <2>6, <2>7
<1>9. ASSUME n \in NumbersOf(reader.live) PROVE SumOf(reader.live, n) = Due(n)
  <2>1. PICK i \in DOMAIN reader.live : reader.live[i].n = n
    BY <1>9 DEF NumbersOf
  <2>2. /\ reader.live[i].start = b /\ reader.live[i].end = u /\ (x = NoEnd \/ x >= u) /\ Once(reader.live)
    BY <1>1, <1>2, <1>3, <2>1 DEF LInv, Report, Lives
  <2>3. e = u
    BY <1>1, <1>3, <1>4, <2>2 DEF NoEnd
  <2>4. e = u /\ u >= u
    BY <1>1, <2>3
  <2>5. PICK ivs : ivs = reader.live
    OBVIOUS
  <2>6. SumOf(ivs, n) = Due(n)
    BY <1>1, <1>7, <2>1, <2>2, <2>4, <2>5
  <2> QED BY <2>5, <2>6
<1>10. ASSUME held[n].start >= reader.until PROVE Due(n) = 0
  <2>1. b >= u
    BY <1>1, <1>2, <1>10
  <2>2. e <= u
    BY <1>1, <1>4
  <2>3. ~(e > from)
    BY <1>1, <1>2, <1>4, <1>5, <2>1, <2>2
  <2> QED BY <1>6, <2>3
<1>11. CASE n \in NumbersOf(reader.recs)
  <2>1. SumOf(reader.live, n) = 0
    BY <1>8, <1>11, SumNone
  <2>2. Counted(n) = Due(n) + 0
    BY <1>8, <1>11, <2>1 DEF Counted
  <2> QED BY <1>6, <1>10, <1>11, <2>2
<1>12. CASE n \notin NumbersOf(reader.recs)
  <2>1. SumOf(reader.recs, n) = 0
    BY <1>12, SumNone
  <2>2. CASE n \in NumbersOf(reader.live)
    <3>1. Counted(n) = 0 + Due(n)
      BY <1>9, <2>1, <2>2 DEF Counted
    <3> QED BY <1>6, <1>10, <2>2, <3>1
  <2>3. CASE n \notin NumbersOf(reader.live)
    <3>1. SumOf(reader.live, n) = 0
      BY <2>3, SumNone
    <3>2. Counted(n) = 0 + 0
      BY <2>1, <3>1 DEF Counted
    <3> QED BY <1>6, <1>10, <1>12, <2>3, <3>2
  <2> QED BY <2>2, <2>3
<1> QED BY <1>11, <1>12

\* A report counts no time outside its window and none twice, whatever moves from the
\* memory to the file while it is made.
THEOREM NothingTwice == Spec => []NeverOvercounts
<1>1. ASSUME LInv PROVE NeverOvercounts
  <2>1. ASSUME NEW n \in DOMAIN held PROVE Counted(n) <= Due(n)
    <3>1. PICK d \in Nat : d = Due(n)
      BY <1>1, CountedIs
    <3>2. Counted(n) = d \/ Counted(n) = 0
      BY <1>1, <3>1, CountedIs
    <3> QED BY <3>1, <3>2
  <2> QED BY <2>1 DEF NeverOvercounts
<1> QED BY <1>1, SpecLInv, PTL

\* It counts all of the time that was held, if no End was under way and no write was cut.
THEOREM CountedInFull == Spec => []ExactWhenQuiet
<1>1. ASSUME LInv PROVE ExactWhenQuiet
  <2>1. ASSUME reader.pc = "done", ~raced, cuts = 0, NEW n \in DOMAIN held \ lost PROVE Counted(n) = Due(n)
    <3>1. \/ n \in NumbersOf(reader.recs) \/ n \in NumbersOf(reader.live)
          \/ held[n].start >= reader.until
      BY <1>1, <2>1 DEF LInv, Report, Full
    <3> QED BY <1>1, <3>1, CountedIs
  <2> QED BY <2>1 DEF ExactWhenQuiet
<1> QED BY <1>1, SpecLInv, PTL

=============================================================================
