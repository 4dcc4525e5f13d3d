---------------------------- MODULE FenceProofs -----------------------------
(***************************************************************************)
(* FencedOrGone and TableAgrees of Fence, for any number of threads and of   *)
(* descriptors.                                                              *)
(*                                                                          *)
(* The start follows from where each of its parties can be while another is  *)
(* where it is (Started).  The table is harder: between what the table is    *)
(* told, the supervisor's reply and the kernel's deed other threads go on,   *)
(* and a signal may take the call back.  The invariant says what a call that *)
(* is let through may rely on (Told), that no other thread changes what it   *)
(* is about (Apart, Holds, Claims), what the request in the supervisor's     *)
(* hand still has to do with the job's calls (InHand), and that the table    *)
(* agrees wherever no such call is about to change a descriptor.             *)
(***************************************************************************)
EXTENDS Fence, WellFoundedInduction, TLAPS

-----------------------------------------------------------------------------
(* The start. *)

Started ==
    /\ start \in {"fork", "listen", "recv", "go", "done", "failed"}
    /\ child \in {"none", "new", "wait", "running", "dead"}
    /\ start = "fork" => child = "none"
    /\ start \in {"fork", "listen"} => proxy = "none"
    /\ start \in {"recv", "go"} => proxy = "open" \/ sup = "over"
    /\ start \in {"fork", "listen", "recv", "failed"} => sup = "off"
    /\ start = "failed" => child \in {"none", "dead"} /\ proxy # "open"
    /\ start \in {"go", "done"} => sup \in {"on", "over"}
    /\ sup = "on" => proxy = "open"
    /\ sup = "over" => child = "dead" \/ lost
    /\ go => start = "done"
    /\ child = "running" => go

LEMMA InitStarted == Init => Started
  BY DEF Init, Started

LEMMA NextStarted == Started /\ [Next]_vars => Started'
<1> SUFFICES ASSUME Started, [Next]_vars PROVE Started'
  OBVIOUS
<1> USE DEF daemon, job
<1>1. CASE Fork
  BY <1>1 DEF Fork, Started
<1>2. CASE Listen
  BY <1>2 DEF Listen, Fail, Started
<1>3. CASE Recv
  BY <1>3 DEF Recv, Fail, Started
<1>4. CASE RecvEOF
  BY <1>4 DEF RecvEOF, Fail, Started
<1>5. CASE WriteGo
  BY <1>5 DEF WriteGo, Started
<1>6. CASE Child
  BY <1>6 DEF Child, SendListener, RunCommand, Started
<1>7. CASE ServeEnd
  BY <1>7 DEF ServeEnd, RecvFails, Started
<1>8. CASE Die
  BY <1>8 DEF Die, Started
<1>9. CASE UNCHANGED <<start, child, proxy, sup, go>> /\ (lost => lost')
  BY <1>9 DEF Started
<1>10. CASE Serve
  BY <1>9, <1>10 DEF Serve, Handle, Receive, Reply, OnSocket, OnClose, OnConnect, OnSend, OnDupFd, OnDup
<1>11. ASSUME NEW t \in Threads, Open(t) \/ Signal(t) \/ Kernel(t) \/ \E c \in Program : Call(t, c) PROVE Started'
  BY <1>9, <1>11 DEF Open, Signal, Kernel, Call
<1> QED BY <1>1, <1>2, <1>3, <1>4, <1>5, <1>6, <1>7, <1>8, <1>9, <1>10, <1>11 DEF Next, Start, vars

\* Whenever the child or a step of the start fails, and whenever calls are taken back: the
\* command runs only once the supervisor serves, keeps it and its proxy until it ends unless a
\* call was taken back before it was received (supervisor_linux.go:355-362), and a start that
\* failed leaves neither (runtime.go:122-125, fence_linux.go:19-28).
THEOREM AlwaysFencedOrGone == Spec => []FencedOrGone
<1>1. Started => FencedOrGone
  BY DEF Started, FencedOrGone
<1>2. Spec => Init /\ [][Next]_vars
  BY PTL DEF Spec
<1> QED BY <1>1, <1>2, InitStarted, NextStarted, PTL

-----------------------------------------------------------------------------
(* The table. *)

LEMMA NatLeast ==
    ASSUME NEW T \in SUBSET Nat, T # {}
    PROVE  \E m \in T : \A n \in T : m <= n
<1> DEFINE R == OpToRel(<, Nat)
<1>1. IsWellFoundedOn(R, Nat)
  BY NatLessThanWellFounded
<1>2. \A m, n \in Nat : <<n, m>> \in R <=> n < m
  BY DEF OpToRel
<1> HIDE DEF R
<1>3. PICK m \in T : \A n \in T : <<n, m>> \notin R
  BY <1>1, WFMin
<1>4. \A n \in T : ~(n < m)
  BY <1>2, <1>3
<1>5. \A n \in T : m <= n
  BY <1>4
<1> QED BY <1>5

\* A number that is taken is one that was closed.
LEMMA LeastClosed == Closed # {} => Least(Closed) \in Closed
  BY NatLeast, FenceAssumption DEF Closed, Least

Descriptors == {None, Other} \cup [is : {"socket"}, kind : Kinds, to : {"nowhere", "us", "elsewhere"}]

Ops == {"socket", "close", "connect", "send", "dup", "dupfd", "dup2"}

Asks == [pc : {"asked", "received", "continued"}, op : Ops, kind : Kinds, fd : Fds \cup {NoFd}, to : Fds \cup {NoFd}]

Hands == [do : {"handle", "cont", "answer"}, by : Threads, op : Ops, kind : Kinds, fd : Fds \cup {NoFd}, to : Fds \cup {NoFd}]

InFlight(t) == calls[t].pc # "free"

Types ==
    /\ fds \in [Fds -> Descriptors]
    /\ DOMAIN table \subseteq Fds /\ \A fd \in DOMAIN table : table[fd] \in [kind : Kinds, connected : BOOLEAN]
    /\ calls \in [Threads -> {Free} \cup Asks]
    /\ \A t \in Threads : InFlight(t) =>
          /\ calls[t].op # "socket" => calls[t].fd \in Fds
          /\ calls[t].op = "dup2" => calls[t].to \in Fds
    /\ loose \subseteq Fds /\ \A fd \in loose : IsSock(fd)

\* Before the command runs there are no descriptors, and only while it runs there are calls.
Quiet ==
    /\ child # "running" => \A t \in Threads : ~InFlight(t)
    /\ child \in {"none", "new", "wait"} => DOMAIN table = {} /\ hand = Idle /\ \A fd \in Fds : fds[fd] = None

\* A received call is the one in the supervisor's hand; one that is with the kernel is about
\* other descriptors, even if the one in the hand was taken back.
InHand ==
    /\ hand \in {Idle} \cup Hands
    /\ hand # Idle => /\ hand.op # "socket" => hand.fd \in Fds
                      /\ hand.op = "dup2" => hand.to \in Fds
    /\ \A t \in Threads : calls[t].pc = "received" =>
          /\ hand # Idle /\ hand.by = t
          /\ hand.op = calls[t].op /\ hand.fd = calls[t].fd /\ hand.to = calls[t].to
    /\ hand # Idle => \A t \in Threads : calls[t].pc = "continued" =>
          {hand.fd, hand.to} \cap {calls[t].fd, calls[t].to} \subseteq {NoFd}

\* No two threads' calls are about the same descriptor.
Apart ==
    \A t, u \in Threads : t # u /\ InFlight(t) /\ InFlight(u) =>
        {calls[t].fd, calls[t].to} \cap {calls[u].fd, calls[u].to} \subseteq {NoFd}

\* What a call is about is open, and stays so.
Holds == \A t \in Threads : InFlight(t) => calls[t].fd \notin Closed

\* A thread that chose a closed number is the only one in a call.
Claims == \A t, u \in Threads : t # u /\ InFlight(t) /\ calls[t].to \in Closed => ~InFlight(u)

\* What a call that is let through relies on.
LetThrough(t) == calls[t].pc = "continued" \/ (calls[t].pc = "received" /\ hand.do = "cont")

Relies(op, fd, to) ==
    /\ op \in {"close", "connect"} => fd \notin DOMAIN table
    /\ op = "dup2" /\ fd # to => fds[fd].is = "socket" \/ to \notin DOMAIN table

Told == \A t \in Threads : LetThrough(t) => Relies(calls[t].op, calls[t].fd, calls[t].to)

\* The kernel is about to change fd, for t.
Moves(op, from, to, fd) == (op = "close" /\ fd = from) \/ (op = "dup2" /\ fd = to /\ fd # from)
MovedBy(t, fd) == calls[t].pc = "continued" /\ Moves(calls[t].op, calls[t].fd, calls[t].to, fd)

\* The table no longer has fd, and the reply that lets the kernel change it is to come.
Dropped(fd) == hand.do = "cont" /\ fd \notin DOMAIN table /\ Moves(hand.op, hand.fd, hand.to, fd)

Agree(fd) ==
    IsSock(fd) => /\ fd \in DOMAIN table
                  /\ table[fd] = Entry(fds[fd].kind, fds[fd].to = "us") /\ fds[fd].to # "elsewhere"

Listed == child = "running" => \A fd \in DOMAIN table : IsSock(fd)

Agrees ==
    child = "running" =>
        \A fd \in Fds \ loose : (\A t \in Threads : ~MovedBy(t, fd)) /\ ~Dropped(fd) => Agree(fd)

FInv == Started /\ Types /\ Quiet /\ InHand /\ Apart /\ Holds /\ Claims /\ Told /\ Listed /\ Agrees

LEMMA InitTable == Init => FInv
<1> SUFFICES ASSUME Init PROVE FInv
  OBVIOUS
<1>1. Started
  BY InitStarted
<1>2. \A t \in Threads : ~InFlight(t) /\ calls[t] = Free
  BY DEF Init, InFlight, Free
<1>3. Types
  BY <1>2 DEF Init, Types, Descriptors
<1>4. Quiet
  BY <1>2 DEF Init, Quiet
<1>5. InHand
  BY <1>2 DEF Init, InHand, Free
<1>6. Listed /\ Agrees
  BY DEF Init, Listed, Agrees
<1>7. Apart /\ Holds /\ Claims /\ Told
  BY <1>2 DEF Apart, Holds, Claims, Told, LetThrough, InFlight, Free
<1> QED BY <1>1, <1>3, <1>4, <1>5, <1>6, <1>7 DEF FInv

\* Where there are no calls, there is little to keep.
LEMMA AtRest ==
    ASSUME Started', Types', Quiet', InHand', \A t \in Threads : ~InFlight(t)', Listed', Agrees'
    PROVE  FInv'
<1>1. \A t \in Threads : ~LetThrough(t)'
  BY DEF InFlight, LetThrough
<1> QED BY <1>1 DEF FInv, Apart, Holds, Claims, Told

\* The numbers in X are in t's hands: those of its call, or closed ones that nobody chose.
Mine(t, X) ==
    \A x \in X : \/ InFlight(t) /\ x \in {calls[t].fd, calls[t].to}
                 \/ x \in Closed /\ \A u \in Threads \ {t} : InFlight(u) => calls[u].to # x

\* What t does to the numbers in its hands is not what another thread's call is about.
LEMMA Undisturbed ==
    ASSUME FInv, NEW t \in Threads, NEW X \in SUBSET Fds, Mine(t, X),
           NEW u \in Threads \ {t}, InFlight(u), NEW y \in {calls[u].fd, calls[u].to}
    PROVE  y \notin X
<1> SUFFICES ASSUME y \in X PROVE FALSE
  OBVIOUS
<1>1. y \in Fds /\ y # NoFd
  BY FenceAssumption DEF NoFd
<1>2. CASE InFlight(t) /\ y \in {calls[t].fd, calls[t].to}
  BY <1>1, <1>2 DEF FInv, Apart
<1>3. CASE y \in Closed /\ calls[u].to # y
  BY <1>3 DEF FInv, Holds
<1> QED BY <1>2, <1>3 DEF Mine

\* A call in flight, what it is about, and the numbers it may be given.
LEMMA CallFacts ==
    ASSUME FInv, NEW t \in Threads, InFlight(t)
    PROVE  /\ child = "running" /\ calls[t] \in Asks
           /\ calls[t].op # "socket" => calls[t].fd \in Fds /\ fds[calls[t].fd] # None
           /\ calls[t].op = "dup2" => calls[t].to \in Fds
           /\ Mine(t, Closed)
<1>1. child = "running" /\ calls[t] \in Asks
  BY DEF FInv, Quiet, Types, InFlight, Free
<1>2. calls[t].op # "socket" => calls[t].fd \in Fds /\ fds[calls[t].fd] # None
  BY DEF FInv, Types, Holds, Closed
<1>3. calls[t].op = "dup2" => calls[t].to \in Fds
  BY DEF FInv, Types
<1>4. \A u \in Threads \ {t} : InFlight(u) => calls[u].to \notin Closed
  BY DEF FInv, Claims
<1> QED BY <1>1, <1>2, <1>3, <1>4 DEF Mine

\* t's call is over, and what it changed is in its hands and agrees, or is not followed.
LEMMA Finished ==
    ASSUME FInv, Started', Types', child = "running", child' = child, table' = table,
           NEW t \in Threads, NEW X \in SUBSET Fds, Mine(t, X),
           hand' = hand \/ (hand' = Idle /\ hand.do = "answer" /\ calls[t].pc = "received"),
           \A y \in Fds \ X : fds'[y] = fds[y] /\ (y \in loose' <=> y \in loose) /\ ~MovedBy(t, y),
           calls'[t] = Free, \A u \in Threads \ {t} : calls'[u] = calls[u],
           \A x \in X : (x \in DOMAIN table => IsSock(x)') /\ (x \in loose' \/ Agree(x)')
    PROVE  FInv'
<1>1. ~InFlight(t)' /\ ~LetThrough(t)' /\ calls'[t].pc \notin {"received", "continued"}
  BY DEF InFlight, Free, LetThrough
<1>2. \A u \in Threads : InFlight(u)' => u # t /\ InFlight(u)
  BY <1>1 DEF InFlight
<1>3. Quiet'
  BY DEF Quiet
<1>4. Apart'
  BY <1>2 DEF FInv, Apart
<1>5. ASSUME NEW u \in Threads \ {t}, InFlight(u), NEW y \in {calls[u].fd, calls[u].to}, y \in Fds
      PROVE  fds'[y] = fds[y]
  BY <1>5, Undisturbed
<1>6. Holds'
  <2> SUFFICES ASSUME NEW u \in Threads, InFlight(u)', calls'[u].fd \in Closed' PROVE FALSE
    BY DEF Holds
  <2>1. u # t /\ InFlight(u) /\ calls'[u] = calls[u] /\ calls[u].fd \in Fds /\ fds'[calls[u].fd] = None
    BY <1>2 DEF Closed
  <2>2. fds[calls[u].fd] = None
    BY <1>5, <2>1
  <2> QED BY <2>1, <2>2 DEF FInv, Holds, Closed
<1>7. Claims'
  <2> SUFFICES ASSUME NEW u \in Threads, NEW v \in Threads, u # v, InFlight(u)', calls'[u].to \in Closed', InFlight(v)'
               PROVE  FALSE
    BY DEF Claims
  <2>1. u # t /\ InFlight(u) /\ InFlight(v) /\ calls'[u] = calls[u] /\ calls[u].to \in Fds /\ fds'[calls[u].to] = None
    BY <1>2 DEF Closed
  <2>2. fds[calls[u].to] = None
    BY <1>5, <2>1
  <2> QED BY <2>1, <2>2 DEF FInv, Claims, Closed
<1>8. InHand'
  <2>1. InHand
    BY DEF FInv
  <2>2. CASE hand' = hand
    BY <1>1, <2>1, <2>2 DEF InHand
  <2>3. CASE hand' = Idle /\ hand.do = "answer" /\ calls[t].pc = "received"
    <3>1. \A u \in Threads \ {t} : calls[u].pc # "received"
      BY <2>1, <2>3 DEF InHand
    <3> QED BY <1>1, <2>3, <3>1 DEF InHand
  <2> QED BY <2>2, <2>3
<1>9. Told'
  <2> SUFFICES ASSUME NEW u \in Threads, LetThrough(u)' PROVE Relies(calls[u].op, calls[u].fd, calls[u].to)' /\ calls'[u] = calls[u]
    BY DEF Told
  <2>1. u # t /\ calls'[u] = calls[u]
    BY <1>1
  <2>2. LetThrough(u) /\ InFlight(u)
    BY <2>1 DEF LetThrough, InFlight, Idle
  <2>3. calls[u].op = "dup2" => calls[u].fd \in Fds
    BY <2>2 DEF FInv, Types
  <2>4. calls[u].op = "dup2" => fds'[calls[u].fd] = fds[calls[u].fd]
    BY <1>5, <2>1, <2>2, <2>3
  <2>5. Relies(calls[u].op, calls[u].fd, calls[u].to)
    BY <2>2 DEF FInv, Told
  <2> QED BY <2>1, <2>4, <2>5 DEF Relies
<1>10. Listed'
  <2> SUFFICES ASSUME NEW y \in DOMAIN table PROVE IsSock(y)'
    BY DEF Listed
  <2>1. y \in Fds /\ IsSock(y)
    BY DEF FInv, Types, Listed
  <2> QED BY <2>1 DEF IsSock
<1>11. Agrees'
  <2> SUFFICES ASSUME NEW y \in Fds, y \notin loose', \A u \in Threads : ~MovedBy(u, y)', ~Dropped(y)', y \notin X
               PROVE  Agree(y)'
    BY DEF Agrees
  <2>1. fds'[y] = fds[y] /\ y \notin loose
    OBVIOUS
  <2>2. \A u \in Threads : ~MovedBy(u, y)
    BY DEF MovedBy
  <2>3. ~Dropped(y)
    BY DEF Dropped
  <2>4. Agree(y)
    BY <2>1, <2>2, <2>3 DEF FInv, Agrees
  <2> QED BY <2>1, <2>4 DEF Agree, IsSock
<1> QED BY <1>3, <1>4, <1>6, <1>7, <1>8, <1>9, <1>10, <1>11 DEF FInv

\* A call that ends without any change.
LEMMA Unchanged ==
    ASSUME FInv, Started', UNCHANGED <<child, fds, table, loose>>, NEW t \in Threads, calls[t].pc \in {"asked", "received"},
           calls' = [calls EXCEPT ![t] = Free],
           hand' = hand \/ (hand' = Idle /\ hand.do = "answer" /\ calls[t].pc = "received")
    PROVE  FInv'
<1>1. InFlight(t)
  BY DEF InFlight
<1>2. Types /\ child = "running"
  BY <1>1, CallFacts DEF FInv
<1>3. calls'[t] = Free /\ (\A u \in Threads \ {t} : calls'[u] = calls[u]) /\ calls' \in [Threads -> {Free} \cup Asks]
  BY <1>2 DEF Types
<1>4. Types'
  BY <1>2, <1>3 DEF Types, IsSock, InFlight, Free
<1> DEFINE X == {}
<1>5. X \in SUBSET Fds /\ Mine(t, X) /\ X = {} /\ \A y \in Fds : ~MovedBy(t, y)
  BY DEF Mine, MovedBy
<1> HIDE DEF X
<1> QED BY <1>2, <1>3, <1>4, <1>5, Finished

-----------------------------------------------------------------------------
(* The supervisor's steps. *)

\* A step that leaves the calls' descriptors alone keeps what is known of them.
LEMMA SameCalls ==
    ASSUME FInv, Types', UNCHANGED <<start, child, proxy, sup, go>>, lost => lost', child = "running",
           \A t \in Threads : /\ InFlight(t)' = InFlight(t)
                              /\ calls'[t].op = calls[t].op /\ calls'[t].fd = calls[t].fd /\ calls'[t].to = calls[t].to,
           Closed' \subseteq Closed
    PROVE  Started' /\ Quiet' /\ Apart' /\ Holds' /\ Claims'
<1>1. Started'
  BY DEF FInv, Started
<1>2. Quiet'
  BY DEF Quiet
<1>3. Apart'
  BY DEF FInv, Apart
<1>4. Holds' /\ Claims'
  BY DEF FInv, Holds, Claims
<1> QED BY <1>1, <1>2, <1>3, <1>4

LEMMA ReceiveTable == ASSUME FInv, NEW t \in Threads, Receive(t) PROVE FInv'
<1> USE DEF daemon
<1>0. PICK c : c = calls[t]
  OBVIOUS
<1>1. InFlight(t) /\ c.pc = "asked" /\ hand = Idle
  BY <1>0 DEF Receive, InFlight
<1>2. Types /\ child = "running" /\ c \in Asks /\ calls \in [Threads -> {Free} \cup Asks]
      /\ (c.op # "socket" => c.fd \in Fds) /\ (c.op = "dup2" => c.to \in Fds)
  BY <1>0, <1>1, CallFacts DEF FInv, Types
<1>3. PICK d : d = [c EXCEPT !.pc = "received"]
  OBVIOUS
<1>4. d \in Asks /\ d.pc = "received" /\ d.op = c.op /\ d.fd = c.fd /\ d.to = c.to
  BY <1>2, <1>3 DEF Asks
<1>5. calls' = [calls EXCEPT ![t] = d]
  BY <1>0, <1>3 DEF Receive
<1>6. calls'[t] = d /\ (\A u \in Threads \ {t} : calls'[u] = calls[u]) /\ calls' \in [Threads -> {Free} \cup Asks]
  BY <1>2, <1>4, <1>5
<1>7. PICK h : h = [do |-> "handle", by |-> t, op |-> c.op, kind |-> c.kind, fd |-> c.fd, to |-> c.to]
  OBVIOUS
<1>8. h \in Hands /\ h.do = "handle" /\ h.by = t /\ h.op = c.op /\ h.fd = c.fd /\ h.to = c.to /\ h # Idle
  BY <1>2, <1>7 DEF Hands, Asks, Idle
<1>9. hand' = h /\ UNCHANGED <<start, child, proxy, sup, go, table, fds, loose, lost>>
  BY <1>0, <1>7 DEF Receive
<1>10. /\ \A u \in Threads : InFlight(u)' = InFlight(u)
       /\ \A u \in Threads : calls'[u].op = calls[u].op /\ calls'[u].fd = calls[u].fd /\ calls'[u].to = calls[u].to
       /\ \A u \in Threads : calls'[u].pc = "continued" <=> calls[u].pc = "continued"
  <2>1. InFlight(t)' = InFlight(t)
    BY <1>1, <1>4, <1>6 DEF InFlight
  <2>2. \A u \in Threads \ {t} : InFlight(u)' = InFlight(u)
    BY <1>6 DEF InFlight
  <2> QED BY <1>0, <1>1, <1>4, <1>6, <2>1, <2>2
<1>11. Types'
  BY <1>2, <1>6, <1>9, <1>10 DEF Types, IsSock
<1>12. Closed' \subseteq Closed
  BY <1>9 DEF Closed
<1>13. Started' /\ Quiet' /\ Apart' /\ Holds' /\ Claims'
  BY <1>2, <1>9, <1>10, <1>11, <1>12, SameCalls
<1>14. InHand'
  <2>1. \A u \in Threads \ {t} : calls[u].pc # "received"
    BY <1>1 DEF FInv, InHand
  <2>2. ASSUME NEW u \in Threads, calls'[u].pc = "continued" PROVE {h.fd, h.to} \cap {calls'[u].fd, calls'[u].to} \subseteq {NoFd}
    <3>1. u # t /\ calls'[u] = calls[u] /\ InFlight(u)
      BY <1>4, <1>6, <2>2 DEF InFlight
    <3> QED BY <1>0, <1>1, <1>8, <3>1 DEF FInv, Apart
  <2> QED BY <1>2, <1>4, <1>6, <1>8, <1>9, <2>1, <2>2 DEF InHand
<1>15. Told'
  <2> SUFFICES ASSUME NEW u \in Threads, LetThrough(u)' PROVE Relies(calls[u].op, calls[u].fd, calls[u].to)'
    BY DEF Told
  <2>1. calls'[u].pc = "continued" /\ LetThrough(u)
    BY <1>8, <1>9, <1>10 DEF LetThrough
  <2>2. Relies(calls[u].op, calls[u].fd, calls[u].to)
    BY <2>1 DEF FInv, Told
  <2> QED BY <1>9, <1>10, <2>2 DEF Relies
<1>16. Listed'
  BY <1>9 DEF FInv, Listed, IsSock
<1>17. Agrees'
  <2>1. \A u \in Threads, y \in Fds : MovedBy(u, y)' = MovedBy(u, y)
    BY <1>10 DEF MovedBy
  <2>2. \A y \in Fds : ~Dropped(y) /\ ~Dropped(y)'
    BY <1>1, <1>8, <1>9 DEF Dropped, Idle
  <2>3. \A y \in Fds : Agree(y)' = Agree(y)
    BY <1>9 DEF Agree, IsSock
  <2> QED BY <1>9, <2>1, <2>2, <2>3 DEF FInv, Agrees
<1> QED BY <1>11, <1>13, <1>14, <1>15, <1>16, <1>17 DEF FInv

\* What a request in hand is about, and what is known while it was not taken back.
LEMMA HandFacts ==
    ASSUME FInv, hand # Idle
    PROVE  /\ hand \in Hands /\ child \in {"running", "dead"}
           /\ hand.op # "socket" => hand.fd \in Fds
           /\ hand.op = "dup2" => hand.to \in Fds
           /\ Valid => /\ hand.by \in Threads /\ InFlight(hand.by) /\ child = "running" /\ Mine(hand.by, Closed)
                       /\ hand.op = calls[hand.by].op /\ hand.fd = calls[hand.by].fd /\ hand.to = calls[hand.by].to
           /\ child = "running" /\ Ours => IsSock(hand.fd)
<1>1. hand \in Hands
  BY DEF FInv, InHand
<1>2. child \in {"running", "dead"}
  BY DEF FInv, Started, Quiet
<1>3. (hand.op # "socket" => hand.fd \in Fds) /\ (hand.op = "dup2" => hand.to \in Fds)
  BY DEF FInv, InHand
<1>4. ASSUME Valid
      PROVE  /\ hand.by \in Threads /\ InFlight(hand.by) /\ child = "running" /\ Mine(hand.by, Closed)
             /\ hand.op = calls[hand.by].op /\ hand.fd = calls[hand.by].fd /\ hand.to = calls[hand.by].to
  <2>1. hand.by \in Threads /\ calls[hand.by].pc = "received"
    BY <1>1, <1>4 DEF Hands, Valid
  <2>2. InFlight(hand.by)
    BY <2>1 DEF InFlight
  <2>3. hand.op = calls[hand.by].op /\ hand.fd = calls[hand.by].fd /\ hand.to = calls[hand.by].to
    BY <2>1 DEF FInv, InHand
  <2> QED BY <2>1, <2>2, <2>3, CallFacts
<1>5. child = "running" /\ Ours => IsSock(hand.fd)
  BY DEF FInv, Listed, Ours
<1> QED BY <1>1, <1>2, <1>3, <1>4, <1>5

\* What is decided for the request in hand changes it alone.
LEMMA DecideFacts ==
    ASSUME FInv, hand # Idle, NEW d \in {"cont", "answer"}, Decide(d)
    PROVE  /\ hand' \in Hands /\ hand' # Idle /\ hand'.do = d /\ hand'.by = hand.by
           /\ hand'.op = hand.op /\ hand'.fd = hand.fd /\ hand'.to = hand.to
<1>1. PICK h \in Hands : h = hand
  BY HandFacts
<1>2. PICK g : g = [h EXCEPT !.do = d]
  OBVIOUS
<1>3. /\ g \in Hands /\ g.do = d /\ g.by = h.by
      /\ g.op = h.op /\ g.fd = h.fd /\ g.to = h.to
  BY <1>2 DEF Hands
<1>4. g # Idle
  BY <1>3 DEF Idle
<1> QED BY <1>1, <1>2, <1>3, <1>4 DEF Decide

\* A request is handled: the table loses at most what the kernel will change.
LEMMA Decided ==
    ASSUME FInv, UNCHANGED <<start, child, proxy, sup, go, fds, loose, calls, lost>>, hand.do = "handle",
           NEW d \in {"cont", "answer"}, Decide(d), NEW X \in SUBSET Fds,
           DOMAIN table' = DOMAIN table \ X, \A y \in DOMAIN table' : table'[y] = table[y],
           \A x \in X : d = "cont" /\ Moves(hand.op, hand.fd, hand.to, x),
           d = "cont" /\ child = "running" => Relies(hand.op, hand.fd, hand.to)'
    PROVE  FInv'
<1>1. hand # Idle /\ hand.do # "cont"
  BY DEF Idle
<1>2. /\ hand' \in Hands /\ hand' # Idle /\ hand'.do = d /\ hand'.by = hand.by
      /\ hand'.op = hand.op /\ hand'.fd = hand.fd /\ hand'.to = hand.to
  BY <1>1, DecideFacts
<1>3. Types'
  BY DEF FInv, Types, IsSock, InFlight
<1>4. InHand'
  BY <1>1, <1>2 DEF FInv, InHand
<1>5. CASE child # "running"
  <2>1. \A t \in Threads : ~InFlight(t)
    BY <1>5 DEF FInv, Quiet
  <2>2. \A t \in Threads : ~InFlight(t)'
    BY <2>1 DEF InFlight
  <2>3. Started'
    BY DEF FInv, Started
  <2>4. Quiet'
    BY <1>1, <2>2, HandFacts DEF Quiet
  <2>5. Listed' /\ Agrees'
    BY <1>5 DEF Listed, Agrees
  <2> QED BY <1>3, <1>4, <2>2, <2>3, <2>4, <2>5, AtRest
<1>6. CASE child = "running"
  <2>1. \A t \in Threads : InFlight(t)' = InFlight(t)
    BY DEF InFlight
  <2>2. Closed' \subseteq Closed
    BY DEF Closed
  <2>3. Started' /\ Quiet' /\ Apart' /\ Holds' /\ Claims'
    BY <1>3, <1>6, <2>1, <2>2, SameCalls
  <2>4. Told'
    <3> SUFFICES ASSUME NEW u \in Threads, LetThrough(u)' PROVE Relies(calls[u].op, calls[u].fd, calls[u].to)'
      BY DEF Told
    <3>1. CASE calls[u].pc = "continued"
      <4>1. Relies(calls[u].op, calls[u].fd, calls[u].to)
        BY <3>1 DEF FInv, Told, LetThrough
      <4> QED BY <4>1 DEF Relies
    <3>2. CASE calls[u].pc # "continued"
      <4>1. calls[u].pc = "received" /\ d = "cont"
        BY <1>2, <3>2 DEF LetThrough
      <4>2. hand.op = calls[u].op /\ hand.fd = calls[u].fd /\ hand.to = calls[u].to
        BY <4>1 DEF FInv, InHand
      <4> QED BY <1>2, <1>6, <4>1, <4>2 DEF Relies
    <3> QED BY <3>1, <3>2
  <2>5. Listed'
    BY DEF FInv, Listed, IsSock
  <2>6. Agrees'
    <3> SUFFICES ASSUME NEW y \in Fds, y \notin loose, \A u \in Threads : ~MovedBy(u, y)', ~Dropped(y)' PROVE Agree(y)'
      BY DEF Agrees
    <3>1. y \notin X
      BY <1>2 DEF Dropped
    <3>2. (\A u \in Threads : ~MovedBy(u, y)) /\ ~Dropped(y)
      BY <1>1 DEF MovedBy, Dropped
    <3>3. Agree(y)
      BY <1>6, <3>2 DEF FInv, Agrees
    <3> QED BY <3>1, <3>3 DEF Agree, IsSock
  <2> QED BY <1>3, <1>4, <2>3, <2>4, <2>5, <2>6 DEF FInv
<1> QED BY <1>5, <1>6

\* ... and nothing at all.
LEMMA Passed ==
    ASSUME FInv, UNCHANGED <<start, child, proxy, sup, go, fds, loose, calls, lost, table>>, hand.do = "handle",
           NEW d \in {"cont", "answer"}, Decide(d),
           d = "cont" /\ child = "running" => Relies(hand.op, hand.fd, hand.to)
    PROVE  FInv'
<1> DEFINE X == {}
<1>1. X \in SUBSET Fds /\ X = {} /\ DOMAIN table' = DOMAIN table \ X /\ \A y \in DOMAIN table' : table'[y] = table[y]
  OBVIOUS
<1>2. d = "cont" /\ child = "running" => Relies(hand.op, hand.fd, hand.to)'
  BY DecideFacts DEF Relies, Idle
<1> HIDE DEF X
<1> QED BY <1>1, <1>2, Decided

\* A socket is put into the job under a number in the caller's hands, and listed.
LEMMA Injected ==
    ASSUME FInv, UNCHANGED <<start, child, proxy, sup, go, calls, lost>>, hand.do = "handle", Decide("answer"),
           NEW x \in Fds, Mine(hand.by, {x}), NEW k \in Kinds, NEW to \in {"nowhere", "us"},
           Inject(x, Sock(k, to), Entry(k, to = "us"))
    PROVE  FInv'
<1>1. hand # Idle
  BY DEF Idle
<1>2. PICK t \in Threads : t = hand.by /\ calls[t].pc = "received" /\ InFlight(t) /\ child = "running" /\ Mine(t, {x})
  BY <1>1, HandFacts DEF Inject, Valid
<1>3. PICK d \in {"cont", "answer"} : d = "answer"
  OBVIOUS
<1>4. /\ hand' \in Hands /\ hand' # Idle /\ hand'.do = "answer" /\ hand'.by = hand.by
      /\ hand'.op = hand.op /\ hand'.fd = hand.fd /\ hand'.to = hand.to
  BY <1>1, <1>3, DecideFacts
<1>5. fds' = [fds EXCEPT ![x] = Sock(k, to)] /\ loose' = loose \ {x} /\ table' = Put(table, x, Entry(k, to = "us"))
      /\ Sock(k, to) \in Descriptors
  BY DEF Inject, Sock, Descriptors
<1>6. fds' \in [Fds -> Descriptors] /\ fds'[x] = Sock(k, to) /\ \A y \in Fds \ {x} : fds'[y] = fds[y]
  BY <1>5 DEF FInv, Types
<1>7. /\ DOMAIN table' = DOMAIN table \cup {x} /\ table'[x] = Entry(k, to = "us")
      /\ \A y \in DOMAIN table \ {x} : table'[y] = table[y]
  BY <1>5 DEF Put
<1>8. Entry(k, to = "us") \in [kind : Kinds, connected : BOOLEAN]
  BY DEF Entry
<1>9. Types'
  <2>1. DOMAIN table' \subseteq Fds /\ \A fd \in DOMAIN table' : table'[fd] \in [kind : Kinds, connected : BOOLEAN]
    BY <1>7, <1>8 DEF FInv, Types
  <2>2. loose' \subseteq Fds /\ \A fd \in loose' : fds'[fd].is = "socket"
    BY <1>5, <1>6 DEF FInv, Types, IsSock
  <2> QED BY <1>6, <2>1, <2>2 DEF FInv, Types, InFlight, IsSock
<1>10. Closed' \subseteq Closed
  BY <1>6 DEF Closed, Sock, None
<1>11. \A u \in Threads : InFlight(u)' = InFlight(u)
  BY DEF InFlight
<1>12. Started' /\ Quiet' /\ Apart' /\ Holds' /\ Claims'
  BY <1>2, <1>9, <1>10, <1>11, SameCalls
<1>13. InHand'
  BY <1>1, <1>4 DEF FInv, InHand
<1>14. Told'
  <2> SUFFICES ASSUME NEW u \in Threads, LetThrough(u)' PROVE Relies(calls[u].op, calls[u].fd, calls[u].to)'
    BY DEF Told
  <2>1. calls[u].pc = "continued" /\ LetThrough(u) /\ InFlight(u) /\ u # t
    BY <1>2, <1>4 DEF LetThrough, InFlight
  <2>2. Relies(calls[u].op, calls[u].fd, calls[u].to)
    BY <2>1 DEF FInv, Told
  <2> DEFINE X == {x}
  <2>3. X \in SUBSET Fds /\ Mine(t, X)
    BY <1>2
  <2> HIDE DEF X
  <2>4. calls[u].fd \notin X /\ calls[u].to \notin X
    BY <2>1, <2>3, Undisturbed
  <2>5. calls[u].op = "dup2" => calls[u].fd \in Fds
    BY <2>1 DEF FInv, Types
  <2>6. calls[u].fd # x /\ calls[u].to # x
    BY <2>4 DEF X
  <2> QED BY <1>6, <1>7, <2>2, <2>5, <2>6 DEF Relies
<1>15. Agree(x)' /\ IsSock(x)'
  BY <1>6, <1>7 DEF Agree, IsSock, Sock
<1>16. Listed'
  <2> SUFFICES ASSUME NEW y \in DOMAIN table', y # x PROVE IsSock(y)'
    BY <1>15 DEF Listed
  <2>1. y \in Fds /\ IsSock(y)
    BY <1>2, <1>7 DEF FInv, Types, Listed
  <2> QED BY <1>6, <2>1 DEF IsSock
<1>17. Agrees'
  <2> SUFFICES ASSUME NEW y \in Fds, y \notin loose', \A u \in Threads : ~MovedBy(u, y)', y # x PROVE Agree(y)'
    BY <1>15 DEF Agrees
  <2>1. (\A u \in Threads : ~MovedBy(u, y)) /\ ~Dropped(y) /\ y \notin loose
    BY <1>5 DEF MovedBy, Dropped
  <2>2. Agree(y)
    BY <1>2, <2>1 DEF FInv, Agrees
  <2> QED BY <1>6, <1>7, <2>2 DEF Agree, IsSock
<1> QED BY <1>9, <1>12, <1>13, <1>14, <1>16, <1>17 DEF FInv

LEMMA HandleTable == ASSUME FInv, Handle PROVE FInv'
<1> USE DEF daemon, job
<1>0. hand.do = "handle" /\ UNCHANGED <<start, child, proxy, sup, go, calls, lost>>
  BY DEF Handle, Handling, OnSocket, OnClose, OnConnect, OnSend, OnDupFd, OnDup
<1>1. hand.do = "handle" /\ hand # Idle /\ UNCHANGED <<start, child, proxy, sup, go, calls, lost>>
  BY <1>0 DEF Idle
<1>2. /\ hand \in Hands /\ Types
      /\ hand.op # "socket" => hand.fd \in Fds
      /\ hand.op = "dup2" => hand.to \in Fds
      /\ child = "running" /\ Ours => IsSock(hand.fd)
  BY <1>1, HandFacts DEF FInv
<1>3. Valid => Mine(hand.by, Closed) /\ Mine(hand.by, {hand.fd}) /\ Mine(hand.by, {hand.to})
  BY <1>1, HandFacts DEF Mine
<1>4. Closed # {} => Least(Closed) \in Fds /\ (Valid => Mine(hand.by, {Least(Closed)}))
  BY <1>3, LeastClosed DEF Closed, Mine
<1>5. hand.kind \in Kinds /\ \A fd \in DOMAIN table : table[fd] \in [kind : Kinds, connected : BOOLEAN]
  BY <1>2 DEF Hands, Types
<1>6. PICK cont, answer \in {"cont", "answer"} : cont = "cont" /\ answer = "answer"
  OBVIOUS
<1>7. ASSUME Decide("answer"), UNCHANGED <<table, fds, loose>> PROVE FInv'
  BY <1>1, <1>6, <1>7, Passed
<1>8. ASSUME Decide("cont"), UNCHANGED <<table, fds, loose>>, child = "running" => Relies(hand.op, hand.fd, hand.to) PROVE FInv'
  BY <1>1, <1>6, <1>8, Passed
<1>9. ASSUME Decide("cont"), UNCHANGED <<fds, loose>>, NEW x \in Fds, table' = Drop(table, x), Moves(hand.op, hand.fd, hand.to, x)
      PROVE  FInv'
  <2> DEFINE X == {x}
  <2>1. X \in SUBSET Fds /\ DOMAIN table' = DOMAIN table \ X /\ \A y \in DOMAIN table' : table'[y] = table[y]
    BY <1>9 DEF Drop
  <2>2. \A y \in X : cont = "cont" /\ Moves(hand.op, hand.fd, hand.to, y)
    BY <1>6, <1>9
  <2>3. hand'.op = hand.op /\ hand'.fd = hand.fd /\ hand'.to = hand.to
    BY <1>1, <1>6, <1>9, DecideFacts
  <2>4. Relies(hand.op, hand.fd, hand.to)'
    BY <1>9, <2>1, <2>3 DEF Relies, Moves
  <2> HIDE DEF X
  <2> QED BY <1>1, <1>6, <1>9, <2>1, <2>2, <2>4, Decided
<1>10. CASE OnSocket
  <2>1. CASE UNCHANGED <<table, fds, loose>>
    BY <1>7, <1>10, <2>1 DEF OnSocket
  <2>2. CASE Closed # {} /\ Inject(Least(Closed), Sock(hand.kind, "nowhere"), Entry(hand.kind, FALSE))
    <3>1. PICK x \in Fds, k \in Kinds, to \in {"nowhere", "us"} :
             x = Least(Closed) /\ k = hand.kind /\ to = "nowhere" /\ (to = "us") = FALSE
      BY <1>4, <1>5, <2>2
    <3>2. Inject(x, Sock(k, to), Entry(k, to = "us")) /\ Mine(hand.by, {x})
      BY <1>4, <2>2, <3>1 DEF Inject
    <3> QED BY <1>1, <1>10, <3>2, Injected DEF OnSocket
  <2> QED BY <1>10, <2>1, <2>2 DEF OnSocket
<1>11. CASE OnClose
  BY <1>2, <1>9, <1>11 DEF OnClose, Handling, Moves
<1>12. CASE OnConnect
  <2>1. hand.op = "connect" /\ hand.fd \in Fds
    BY <1>2, <1>12 DEF OnConnect, Handling
  <2>2. CASE ~Ours /\ Decide("cont") /\ UNCHANGED <<table, fds, loose>>
    BY <1>8, <2>1, <2>2 DEF Ours, Relies
  <2>3. CASE Decide("answer") /\ UNCHANGED <<table, fds, loose>>
    BY <1>7, <2>3
  <2>4. CASE Ours /\ Decide("answer") /\ Inject(hand.fd, Sock(table[hand.fd].kind, "us"), Entry(table[hand.fd].kind, TRUE))
    <3>1. PICK x \in Fds, k \in Kinds, to \in {"nowhere", "us"} :
             x = hand.fd /\ k = table[hand.fd].kind /\ to = "us" /\ (to = "us") = TRUE
      BY <1>5, <2>1, <2>4 DEF Ours
    <3>2. Inject(x, Sock(k, to), Entry(k, to = "us")) /\ Mine(hand.by, {x})
      BY <1>3, <2>4, <3>1 DEF Inject
    <3> QED BY <1>1, <2>4, <3>2, Injected
  <2> QED BY <1>12, <2>2, <2>3, <2>4 DEF OnConnect
<1>13. CASE OnSend
  <2>1. hand.op = "send" /\ UNCHANGED <<table, fds, loose>> /\ (Decide("cont") \/ Decide("answer"))
    BY <1>13 DEF OnSend, Handling
  <2>2. Relies(hand.op, hand.fd, hand.to)
    BY <2>1 DEF Relies
  <2> QED BY <1>7, <1>8, <2>1, <2>2
<1>14. CASE OnDupFd
  <2>1. hand.op = "dupfd" /\ UNCHANGED <<table, fds, loose>> /\ (Decide("cont") \/ Decide("answer"))
    BY <1>14 DEF OnDupFd, Handling
  <2>2. Relies(hand.op, hand.fd, hand.to)
    BY <2>1 DEF Relies
  <2> QED BY <1>7, <1>8, <2>1, <2>2
<1>15. CASE OnDup
  <2>1. hand.op \in {"dup", "dup2"} /\ hand.fd \in Fds
    BY <1>2, <1>15 DEF OnDup, Handling
  <2>2. CASE ~Ours /\ Decide("cont") /\ table' = (IF hand.op = "dup2" THEN Drop(table, hand.to) ELSE table) /\ UNCHANGED <<fds, loose>>
    <3>1. CASE hand.op = "dup"
      BY <1>8, <2>2, <3>1 DEF Relies
    <3>2. CASE hand.op = "dup2" /\ hand.fd # hand.to
      BY <1>2, <1>9, <2>2, <3>2 DEF Moves
    <3>3. CASE hand.op = "dup2" /\ hand.fd = hand.to
      <4> DEFINE X == {}
      <4>1. hand.to \notin DOMAIN table
        BY <2>2, <3>3 DEF Ours
      <4>2. X \in SUBSET Fds /\ DOMAIN table' = DOMAIN table \ X /\ \A y \in DOMAIN table' : table'[y] = table[y]
        BY <2>2, <3>3, <4>1 DEF Drop
      <4>3. hand'.op = hand.op /\ hand'.fd = hand.fd /\ hand'.to = hand.to
        BY <1>1, <1>6, <2>2, DecideFacts
      <4>4. Relies(hand.op, hand.fd, hand.to)' /\ X = {}
        BY <3>3, <4>3 DEF Relies
      <4> HIDE DEF X
      <4> QED BY <1>1, <1>6, <2>2, <4>2, <4>4, Decided
    <3> QED BY <2>1, <3>1, <3>2, <3>3
  <2>3. CASE Ours /\ Decide("cont") /\ UNCHANGED <<table, fds, loose>>
    <3>1. child = "running" => Relies(hand.op, hand.fd, hand.to)
      BY <1>2, <2>1, <2>3 DEF Relies, IsSock
    <3> QED BY <1>8, <2>3, <3>1
  <2>4. CASE Decide("answer") /\ UNCHANGED <<table, fds, loose>>
    BY <1>7, <2>4
  <2>5. CASE /\ Connected /\ Decide("answer") /\ (hand.op = "dup2" \/ Closed # {})
             /\ Inject(IF hand.op = "dup2" THEN hand.to ELSE Least(Closed), Sock(table[hand.fd].kind, "us"), table[hand.fd])
    <3>1. PICK e \in [kind : Kinds, connected : BOOLEAN] : e = table[hand.fd] /\ e.connected
      BY <1>5, <2>5 DEF Connected, Ours
    <3>2. PICK x \in Fds, k \in Kinds, to \in {"nowhere", "us"} :
             x = (IF hand.op = "dup2" THEN hand.to ELSE Least(Closed)) /\ k = e.kind /\ to = "us" /\ (to = "us") = TRUE
      BY <1>2, <1>4, <2>1, <2>5, <3>1
    <3>3. e = Entry(k, to = "us")
      BY <3>1, <3>2 DEF Entry
    <3>4. Inject(x, Sock(k, to), Entry(k, to = "us"))
      BY <2>5, <3>1, <3>2, <3>3
    <3>5. Mine(hand.by, {x})
      BY <1>3, <1>4, <2>5, <3>2 DEF Inject
    <3> QED BY <1>1, <2>5, <3>4, <3>5, Injected
  <2> QED BY <1>15, <2>2, <2>3, <2>4, <2>5 DEF OnDup
<1> QED BY <1>10, <1>11, <1>12, <1>13, <1>14, <1>15 DEF Handle

\* The reply: what the table was told now waits for the kernel or, if the call was taken
\* back, is not followed any more.
LEMMA ReplyTable == ASSUME FInv, Reply PROVE FInv'
<1> USE DEF daemon
<1>1. hand.do \in {"cont", "answer"} /\ hand # Idle /\ hand' = Idle /\ UNCHANGED <<start, child, proxy, sup, go, table, fds, lost>>
  BY DEF Reply, Idle
<1>2. Types /\ child \in {"running", "dead"} /\ InHand
  BY <1>1, HandFacts DEF FInv
<1>3. Started' /\ Listed' /\ hand'.do # "cont"
  <2>1. hand'.do # "cont"
    BY <1>1 DEF Idle
  <2> QED BY <1>1, <2>1 DEF FInv, Started, Listed, IsSock
<1>4. CASE Valid /\ hand.do = "answer" /\ calls' = [calls EXCEPT ![hand.by] = Free] /\ UNCHANGED loose
  <2>1. PICK t \in Threads : t = hand.by /\ calls[t].pc = "received"
    BY <1>1, <1>4, HandFacts DEF Valid
  <2> QED BY <1>1, <1>3, <1>4, <2>1, Unchanged
<1>5. CASE Valid /\ hand.do = "cont" /\ calls' = [calls EXCEPT ![hand.by].pc = "continued"] /\ UNCHANGED loose
  <2>1. PICK t \in Threads : t = hand.by /\ calls[t].pc = "received" /\ InFlight(t) /\ child = "running"
    BY <1>1, <1>5, HandFacts DEF Valid
  <2>2. PICK c \in Asks : c = calls[t]
    BY <2>1, CallFacts
  <2>3. PICK d : d = [c EXCEPT !.pc = "continued"]
    OBVIOUS
  <2>4. d \in Asks /\ d.pc = "continued" /\ d.op = c.op /\ d.fd = c.fd /\ d.to = c.to
    BY <2>3 DEF Asks
  <2>5. calls' = [calls EXCEPT ![t] = d]
    BY <1>5, <2>1, <2>2, <2>3
  <2>6. calls'[t] = d /\ (\A u \in Threads \ {t} : calls'[u] = calls[u]) /\ calls' \in [Threads -> {Free} \cup Asks]
    BY <1>2, <2>4, <2>5 DEF Types
  <2>7. \A u \in Threads : /\ InFlight(u)' = InFlight(u)
                           /\ calls'[u].op = calls[u].op /\ calls'[u].fd = calls[u].fd /\ calls'[u].to = calls[u].to
    <3>1. InFlight(t)' = InFlight(t)
      BY <2>1, <2>4, <2>6 DEF InFlight
    <3>2. \A u \in Threads \ {t} : InFlight(u)' = InFlight(u)
      BY <2>6 DEF InFlight
    <3> QED BY <2>2, <2>4, <2>6, <3>1, <3>2
  <2>8. Types'
    BY <1>1, <1>2, <1>5, <2>6, <2>7 DEF Types, IsSock
  <2>9. Closed' \subseteq Closed
    BY <1>1 DEF Closed
  <2>10. Started' /\ Quiet' /\ Apart' /\ Holds' /\ Claims'
    BY <1>1, <2>1, <2>7, <2>8, <2>9, SameCalls
  <2>11. \A u \in Threads \ {t} : calls[u].pc # "received"
    BY <1>2, <2>1 DEF InHand
  <2>12. InHand'
    BY <1>1, <2>4, <2>6, <2>11 DEF InHand
  <2>13. Told'
    <3> SUFFICES ASSUME NEW u \in Threads, LetThrough(u)' PROVE Relies(calls[u].op, calls[u].fd, calls[u].to)'
      BY DEF Told
    <3>1. LetThrough(u)
      BY <1>1, <1>3, <1>5, <2>1, <2>6 DEF LetThrough
    <3>2. Relies(calls[u].op, calls[u].fd, calls[u].to)
      BY <3>1 DEF FInv, Told
    <3> QED BY <1>1, <2>7, <3>2 DEF Relies
  <2>14. Agrees'
    <3> SUFFICES ASSUME NEW y \in Fds, y \notin loose, \A u \in Threads : ~MovedBy(u, y)' PROVE Agree(y)'
      BY <1>5 DEF Agrees
    <3>1. \A u \in Threads : ~MovedBy(u, y)
      BY <2>1, <2>6 DEF MovedBy
    <3>2. ~Dropped(y)
      <4>1. ~Moves(c.op, c.fd, c.to, y)
        BY <2>4, <2>6 DEF MovedBy
      <4>2. hand.op = c.op /\ hand.fd = c.fd /\ hand.to = c.to
        BY <1>2, <2>1, <2>2 DEF InHand
      <4> QED BY <4>1, <4>2 DEF Dropped
    <3>3. Agree(y)
      BY <2>1, <3>1, <3>2 DEF FInv, Agrees
    <3> QED BY <1>1, <3>3 DEF Agree, IsSock
  <2> QED BY <1>3, <2>8, <2>10, <2>12, <2>13, <2>14 DEF FInv
<1>6. CASE /\ ~Valid /\ UNCHANGED calls
           /\ loose' = loose \cup {fd \in {hand.fd, hand.to} \cap Fds : IsSock(fd) /\ fd \notin DOMAIN table}
  <2>1. Types'
    BY <1>1, <1>2, <1>6 DEF Types, IsSock, InFlight
  <2>2. \A u \in Threads : InFlight(u)' = InFlight(u)
    BY <1>6 DEF InFlight
  <2>3. \A u \in Threads : calls[u].pc # "received"
    BY <1>1, <1>2, <1>6 DEF InHand, Valid
  <2>4. InHand'
    BY <1>1, <1>6, <2>3 DEF InHand
  <2>5. Quiet' /\ Apart' /\ Holds' /\ Claims'
    BY <1>1, <1>2, <1>6, <2>2 DEF FInv, Quiet, Apart, Holds, Claims, Closed
  <2>6. Told'
    <3> SUFFICES ASSUME NEW u \in Threads, LetThrough(u)' PROVE Relies(calls[u].op, calls[u].fd, calls[u].to)'
      BY DEF Told
    <3>1. LetThrough(u)
      BY <1>6, <2>3 DEF LetThrough
    <3>2. Relies(calls[u].op, calls[u].fd, calls[u].to)
      BY <3>1 DEF FInv, Told
    <3> QED BY <1>1, <1>6, <3>2 DEF Relies
  <2>7. Agrees'
    <3> SUFFICES ASSUME child = "running", NEW y \in Fds, y \notin loose', \A u \in Threads : ~MovedBy(u, y)', IsSock(y)
                 PROVE  Agree(y)'
      BY <1>1 DEF Agrees, Agree, IsSock
    <3>1. \A u \in Threads : ~MovedBy(u, y)
      BY <1>6 DEF MovedBy
    <3>2. y \notin loose /\ (y \in DOMAIN table \/ y \notin {hand.fd, hand.to})
      BY <1>6
    <3>3. ~Dropped(y)
      BY <3>2 DEF Dropped, Moves
    <3>4. Agree(y)
      BY <3>1, <3>2, <3>3 DEF FInv, Agrees
    <3> QED BY <1>1, <3>4 DEF Agree, IsSock
  <2> QED BY <1>3, <2>1, <2>4, <2>5, <2>6, <2>7 DEF FInv
<1> QED BY <1>4, <1>5, <1>6 DEF Reply

-----------------------------------------------------------------------------
(* The start's steps, and the job's. *)

\* The steps of the start, and the ends of the job and of the supervisor.
LEMMA StartTable ==
    ASSUME FInv, Started', Start \/ Child \/ ServeEnd \/ Die PROVE FInv'
<1> USE DEF daemon, job
<1>1. Started /\ Types /\ Quiet /\ InHand
  BY DEF FInv
<1>2. ASSUME child # "running", UNCHANGED <<fds, table, calls, loose, hand>>, child' # "running",
             child = "dead" => child' = "dead"
      PROVE  FInv'
  <2>1. \A t \in Threads : ~InFlight(t)'
    BY <1>1, <1>2 DEF Quiet, InFlight
  <2>2. Types'
    BY <1>1, <1>2 DEF Types, InFlight, IsSock
  <2>3. Quiet'
    BY <1>1, <1>2, <2>1 DEF Quiet, Started
  <2>4. Listed' /\ Agrees'
    BY <1>2 DEF Listed, Agrees
  <2>5. InHand'
    BY <1>1, <1>2 DEF InHand
  <2> QED BY <2>1, <2>2, <2>3, <2>4, <2>5, AtRest
<1>3. CASE Fork
  BY <1>1, <1>2, <1>3 DEF Fork, Started
<1>4. CASE Listen
  BY <1>1, <1>2, <1>4 DEF Listen, Fail, Started
<1>5. CASE RecvEOF
  BY <1>1, <1>2, <1>5 DEF RecvEOF, Fail, Started
<1>6. CASE SendListener
  BY <1>1, <1>2, <1>6 DEF SendListener, Started
<1>7. CASE WriteGo
  <2>1. child # "running"
    BY <1>1, <1>7 DEF WriteGo, Started
  <2> QED BY <1>2, <1>7, <2>1 DEF WriteGo
<1>8. CASE ServeEnd
  <2>1. UNCHANGED <<start, child, go, fds, table, calls, loose, hand>>
    BY <1>8 DEF ServeEnd
  <2>2. Types' /\ Quiet' /\ InHand' /\ Apart'
    BY <1>1, <2>1 DEF FInv, Types, Quiet, InHand, Apart, InFlight, IsSock
  <2>3. Holds' /\ Claims' /\ Told'
    BY <2>1 DEF FInv, Holds, Claims, Told, InFlight, Closed, LetThrough, Relies
  <2>4. Listed' /\ Agrees'
    BY <2>1 DEF FInv, Listed, Agrees, IsSock, MovedBy, Dropped, Agree
  <2> QED BY <2>2, <2>3, <2>4 DEF FInv
<1>9. CASE Recv
  <2>1. child # "running" /\ child' # "running" /\ (child = "dead" => child' = "dead") /\ UNCHANGED <<fds, calls, loose, hand>>
    BY <1>1, <1>9 DEF Recv, Fail, Started
  <2>2. CASE table' = table
    BY <1>2, <2>1, <2>2
  <2>3. CASE table' = <<>> /\ child' = child
    <3>1. DOMAIN table' = {}
      BY <2>3
    <3>2. \A t \in Threads : ~InFlight(t)'
      BY <1>1, <2>1 DEF Quiet, InFlight
    <3>3. Types'
      BY <1>1, <2>1, <3>1 DEF Types, InFlight, IsSock
    <3>4. Quiet'
      BY <1>1, <2>1, <2>3, <3>1, <3>2 DEF Quiet
    <3>5. Listed' /\ Agrees'
      BY <2>1 DEF Listed, Agrees
    <3>6. InHand'
      BY <1>1, <2>1 DEF InHand
    <3> QED BY <3>2, <3>3, <3>4, <3>5, <3>6, AtRest
  <2> QED BY <1>9, <2>2, <2>3 DEF Recv
<1>10. CASE RunCommand
  <2>1. child = "wait" /\ UNCHANGED <<fds, table, calls, loose, hand>> /\ child' = "running"
    BY <1>10 DEF RunCommand
  <2>2. \A t \in Threads : ~InFlight(t)'
    BY <1>1, <2>1 DEF Quiet, InFlight
  <2>3. Types'
    BY <1>1, <2>1 DEF Types, InFlight, IsSock
  <2>4. Quiet'
    BY <2>1, <2>2 DEF Quiet
  <2>5. DOMAIN table' = {} /\ \A fd \in Fds : fds'[fd].is # "socket"
    BY <1>1, <2>1 DEF Quiet, None
  <2>6. Listed' /\ Agrees'
    BY <2>5 DEF Listed, Agrees, Agree, IsSock
  <2>7. InHand'
    BY <1>1, <2>1 DEF InHand
  <2> QED BY <2>2, <2>3, <2>4, <2>6, <2>7, AtRest
<1>11. CASE Die
  <2>1. child' = "dead" /\ fds' = [fd \in Fds |-> None] /\ loose' = {} /\ calls' = [t \in Threads |-> Free]
        /\ table' = table /\ hand' = hand
    BY <1>11 DEF Die
  <2>2. \A t \in Threads : ~InFlight(t)'
    BY <2>1 DEF InFlight, Free
  <2>3. Types'
    BY <1>1, <2>1, <2>2 DEF Types, Descriptors
  <2>4. Quiet'
    BY <2>1, <2>2 DEF Quiet
  <2>5. Listed' /\ Agrees'
    BY <2>1 DEF Listed, Agrees
  <2>6. InHand'
    BY <1>1, <2>1 DEF InHand, Free
  <2> QED BY <2>2, <2>3, <2>4, <2>5, <2>6, AtRest
<1> QED BY <1>3, <1>4, <1>5, <1>6, <1>7, <1>8, <1>9, <1>10, <1>11 DEF Start, Child

\* A thread asks: it takes descriptors that no other uses.
LEMMA CallTable == ASSUME FInv, NEW t \in Threads, NEW c \in Trapped, Call(t, c) PROVE FInv'
<1> USE DEF daemon
<1> DEFINE a == [pc |-> "asked", op |-> c.op, kind |-> c.kind, fd |-> c.fd, to |-> c.to]
<1>1. /\ child = "running" /\ calls[t].pc = "free" /\ calls' = [calls EXCEPT ![t] = a]
      /\ UNCHANGED <<start, child, proxy, sup, go, fds, table, loose, hand, lost>>
  BY DEF Call
<1>2. c.op \in {"socket", "close", "connect", "send", "dup", "dupfd", "dup2"} /\ c.kind \in Kinds
      /\ c.fd \in Fds \cup {NoFd} /\ c.to \in Fds \cup {NoFd}
      /\ (c.op # "socket" => c.fd \in Fds) /\ (c.op = "dup2" => c.to \in Fds)
  BY DEF Trapped, Kinds
<1>3. a \in Asks /\ a.op = c.op /\ a.fd = c.fd /\ a.to = c.to /\ a.pc = "asked"
  BY <1>2 DEF Asks, Ops
<1> HIDE DEF a
<1>4. calls \in [Threads -> {Free} \cup Asks] /\ Types
  BY DEF FInv, Types
<1>5. calls'[t] = a /\ (\A u \in Threads \ {t} : calls'[u] = calls[u]) /\ calls' \in [Threads -> {Free} \cup Asks]
  BY <1>1, <1>3, <1>4
<1>6. InFlight(t)' /\ ~InFlight(t) /\ \A u \in Threads \ {t} : InFlight(u)' = InFlight(u)
  BY <1>1, <1>3, <1>5 DEF InFlight
<1>7. Types'
  BY <1>1, <1>2, <1>3, <1>4, <1>5, <1>6 DEF Types, IsSock
<1>8. Started' /\ Quiet'
  BY <1>1 DEF FInv, Started, Quiet
<1>9. ASSUME NEW u \in Threads \ {t}, InFlight(u)
      PROVE  {c.fd, c.to} \cap {calls[u].fd, calls[u].to} \subseteq {NoFd}
  <2>1. calls[u].fd \in Busy(t) /\ calls[u].to \in Busy(t)
    BY <1>9 DEF Busy, InFlight
  <2>2. {c.fd, c.to} \cap (Busy(t) \ {NoFd}) = {}
    BY DEF Call
  <2> QED BY <2>1, <2>2
<1>10. Apart'
  <2> SUFFICES ASSUME NEW u \in Threads, NEW v \in Threads, u # v, InFlight(u)', InFlight(v)'
               PROVE  {calls'[u].fd, calls'[u].to} \cap {calls'[v].fd, calls'[v].to} \subseteq {NoFd}
    BY DEF Apart
  <2>1. CASE u = t
    BY <1>3, <1>5, <1>6, <1>9, <2>1
  <2>2. CASE v = t
    <3>1. {c.fd, c.to} \cap {calls[u].fd, calls[u].to} \subseteq {NoFd}
      BY <1>6, <1>9, <2>2
    <3> QED BY <1>3, <1>5, <2>2, <3>1
  <2>3. CASE u # t /\ v # t
    BY <1>5, <1>6, <2>3 DEF FInv, Apart
  <2> QED BY <2>1, <2>2, <2>3
<1>11. Closed' = Closed
  BY <1>1 DEF Closed
<1>12. Holds'
  <2>1. c.fd \notin Closed
    BY DEF Call
  <2> QED BY <1>3, <1>5, <1>6, <1>11, <2>1 DEF FInv, Holds
<1>13. Claims'
  <2>1. /\ \A u \in Threads : InFlight(u) => calls[u].to \notin Closed
        /\ c.to \in Closed => \A u \in Threads : ~InFlight(u)
    BY DEF Call, Claimed, InFlight
  <2> QED BY <1>3, <1>5, <1>6, <1>11, <2>1 DEF Claims
<1>14. Told'
  <2>1. \A u \in Threads : LetThrough(u)' => u # t /\ LetThrough(u)
    BY <1>1, <1>3, <1>5 DEF LetThrough
  <2> QED BY <1>1, <1>5, <2>1 DEF FInv, Told, Relies
<1>15. Agrees'
  <2>1. \A u \in Threads, y \in Fds : MovedBy(u, y)' = MovedBy(u, y)
    BY <1>1, <1>3, <1>5 DEF MovedBy
  <2>2. \A y \in Fds : Agree(y)' = Agree(y)
    BY <1>1 DEF Agree, IsSock
  <2> QED BY <1>1, <2>1, <2>2 DEF FInv, Agrees, Dropped
<1>16. InHand'
  BY <1>1, <1>3, <1>5 DEF FInv, InHand
<1>17. Listed'
  BY <1>1 DEF FInv, Listed, IsSock
<1> QED BY <1>7, <1>8, <1>10, <1>12, <1>13, <1>14, <1>15, <1>16, <1>17 DEF FInv

\* A file is opened under a number that nobody chose.
LEMMA OpenTable == ASSUME FInv, NEW t \in Threads, Open(t) PROVE FInv'
<1> USE DEF daemon
<1>0. PICK x : x = Least(Closed)
  OBVIOUS
<1> DEFINE X == {x}
<1>1. /\ child = "running" /\ calls[t].pc = "free" /\ fds' = [fds EXCEPT ![x] = Other] /\ Closed # {} /\ ~Claimed
      /\ UNCHANGED <<start, child, proxy, sup, go, calls, table, loose, hand, lost>>
  BY <1>0 DEF Open
<1>2. x \in Fds /\ fds[x] = None
  BY <1>0, <1>1, LeastClosed DEF Closed
<1>3. Types /\ fds \in [Fds -> Descriptors] /\ Other \in Descriptors
  BY DEF FInv, Types, Descriptors
<1>4. fds' \in [Fds -> Descriptors] /\ fds'[x] = Other /\ \A y \in Fds \ {x} : fds'[y] = fds[y]
  BY <1>1, <1>2, <1>3
<1>5. x \notin loose
  BY <1>2, <1>3 DEF Types, IsSock, None
<1>6. Types'
  BY <1>1, <1>3, <1>4, <1>5 DEF Types, IsSock, InFlight
<1>7. Started'
  BY <1>1 DEF FInv, Started
<1>8. Mine(t, X)
  BY <1>1, <1>2 DEF Mine, Claimed, Closed, InFlight
<1>9. calls'[t] = Free /\ (\A u \in Threads \ {t} : calls'[u] = calls[u]) /\ \A y \in Fds : ~MovedBy(t, y)
  BY <1>1, <1>3 DEF Types, Asks, MovedBy
<1>10. x \notin DOMAIN table
  BY <1>1, <1>2 DEF FInv, Listed, IsSock, None
<1>11. Agree(x)'
  BY <1>4 DEF Agree, IsSock, Other
<1>12. X \in SUBSET Fds /\ (\A y \in X : (y \in DOMAIN table => IsSock(y)') /\ (y \in loose' \/ Agree(y)'))
       /\ \A y \in Fds \ X : fds'[y] = fds[y]
  BY <1>2, <1>4, <1>10, <1>11
<1> HIDE DEF X
<1> QED BY <1>1, <1>6, <1>7, <1>8, <1>9, <1>12, Finished

\* The kernel does what was let through: what it makes of a socket is not followed, and
\* what it closes, makes of a file, or lets connect is not in the table.
LEMMA KernelTable == ASSUME FInv, NEW t \in Threads, Kernel(t) PROVE FInv'
<1> USE DEF daemon
<1>0. PICK c, new : c = calls[t] /\ new = Made(c)
  OBVIOUS
<1>1. /\ c.pc = "continued" /\ UNCHANGED <<start, child, proxy, sup, go, table, hand, lost>>
      /\ fds' = [fd \in Fds |->
                   IF c.op = "close" /\ fd = c.fd THEN None
                   ELSE IF fd = new THEN fds[c.fd]
                   ELSE IF c.op = "connect" /\ fd = c.fd /\ IsSock(fd) THEN Sock(fds[fd].kind, "elsewhere")
                   ELSE fds[fd]]
      /\ loose' = {fd \in loose \cup {new} : fd \in Fds /\ fds'[fd].is = "socket"}
      /\ calls' = [calls EXCEPT ![t] = Free]
  BY <1>0 DEF Kernel
<1>2. InFlight(t)
  BY <1>0, <1>1 DEF InFlight
<1>3. /\ child = "running" /\ c \in Asks /\ Mine(t, Closed) /\ Types
      /\ c.op # "socket" => c.fd \in Fds /\ fds[c.fd] # None
      /\ c.op = "dup2" => c.to \in Fds
  BY <1>0, <1>2, CallFacts DEF FInv
<1>4. NoFd \notin Fds
  BY FenceAssumption DEF NoFd
<1>5. \/ new = NoFd
      \/ c.op \in {"dup", "dupfd"} /\ new \in Closed
      \/ c.op = "dup2" /\ new = c.to /\ c.fd # c.to
  BY <1>0, LeastClosed DEF Made
<1>6. new \in Fds => c.op \in {"dup", "dupfd", "dup2"} /\ c.fd \in Fds /\ c.fd # new
  BY <1>3, <1>4, <1>5 DEF Closed
<1>7. fds' \in [Fds -> Descriptors]
  <2>1. ASSUME NEW y \in Fds, IsSock(y) PROVE Sock(fds[y].kind, "elsewhere") \in Descriptors
    BY <1>3, <2>1 DEF Types, IsSock, Sock, Descriptors, None, Other
  <2>2. ASSUME NEW y \in Fds PROVE fds'[y] \in Descriptors
    <3>1. fds \in [Fds -> Descriptors] /\ None \in Descriptors
      BY <1>3 DEF Types, Descriptors
    <3> QED BY <1>1, <1>6, <2>1, <3>1
  <2> QED BY <1>1, <2>2
<1>8. calls'[t] = Free /\ (\A u \in Threads \ {t} : calls'[u] = calls[u]) /\ calls' \in [Threads -> {Free} \cup Asks]
  BY <1>1, <1>3 DEF Types
<1>9. Started'
  BY <1>1 DEF FInv, Started
<1>10. Types'
  BY <1>1, <1>3, <1>7, <1>8 DEF Types, InFlight, Free, IsSock
<1>11. ASSUME NEW x \in Fds, x = c.fd, x \notin loose, c.op = "connect" PROVE Agree(x)
  <2>1. ASSUME NEW u \in Threads, MovedBy(u, x) PROVE FALSE
    <3> DEFINE X == {x}
    <3>1. u # t /\ InFlight(u) /\ x \in {calls[u].fd, calls[u].to} /\ X \in SUBSET Fds /\ x \in X /\ Mine(t, X)
      BY <1>0, <1>2, <1>11, <2>1 DEF MovedBy, Moves, InFlight, Mine
    <3> HIDE DEF X
    <3> QED BY <3>1, Undisturbed
  <2>2. ~Dropped(x)
    <3> SUFFICES ASSUME Dropped(x) PROVE FALSE
      OBVIOUS
    <3>1. x \in {hand.fd, hand.to} /\ hand # Idle
      BY DEF Dropped, Moves, Idle
    <3>2. {hand.fd, hand.to} \cap {c.fd, c.to} \subseteq {NoFd}
      BY <1>0, <1>1, <3>1 DEF FInv, InHand
    <3> QED BY <1>4, <1>11, <3>1, <3>2
  <2> QED BY <1>3, <1>11, <2>1, <2>2 DEF FInv, Agrees
<1>12. ASSUME NEW X \in SUBSET Fds, Mine(t, X), \A y \in Fds \ X : fds'[y] = fds[y] /\ y # new /\ ~MovedBy(t, y),
              \A x \in X : (x \in DOMAIN table => IsSock(x)') /\ (x \in loose' \/ Agree(x)')
       PROVE  FInv'
  <2>1. \A y \in Fds \ X : y \in loose' <=> y \in loose
    BY <1>1, <1>3, <1>12 DEF Types, IsSock
  <2> QED BY <1>1, <1>3, <1>8, <1>9, <1>10, <1>12, <2>1, Finished
<1>13. CASE c.op = "close"
  <2> DEFINE X == {c.fd}
  <2>1. c.fd \in Fds /\ new \notin Fds
    BY <1>3, <1>6, <1>13
  <2>2. fds'[c.fd] = None /\ \A y \in Fds \ X : fds'[y] = fds[y]
    BY <1>1, <1>13, <2>1
  <2>3. c.fd \notin DOMAIN table
    BY <1>0, <1>1, <1>13 DEF FInv, Told, LetThrough, Relies
  <2>4. Agree(c.fd)'
    BY <1>1, <2>2, <2>3 DEF Agree, IsSock, None
  <2>5. X \in SUBSET Fds /\ Mine(t, X) /\ (\A x \in X : (x \in DOMAIN table => IsSock(x)') /\ (x \in loose' \/ Agree(x)')) /\ \A y \in Fds \ X : ~MovedBy(t, y)
    BY <1>0, <1>2, <1>13, <2>1, <2>3, <2>4 DEF Mine, MovedBy, Moves
  <2> HIDE DEF X
  <2> QED BY <1>12, <2>1, <2>2, <2>5
<1>14. CASE c.op = "connect"
  <2> DEFINE X == {c.fd}
  <2>1. c.fd \in Fds /\ new \notin Fds
    BY <1>3, <1>6, <1>14
  <2>2. fds'[c.fd] = (IF IsSock(c.fd) THEN Sock(fds[c.fd].kind, "elsewhere") ELSE fds[c.fd]) /\ \A y \in Fds \ X : fds'[y] = fds[y]
    BY <1>1, <1>14, <2>1
  <2>3. c.fd \notin DOMAIN table
    BY <1>0, <1>1, <1>14 DEF FInv, Told, LetThrough, Relies
  <2>4. c.fd \in loose' \/ Agree(c.fd)'
    <3>1. CASE ~IsSock(c.fd)
      BY <1>1, <2>2, <2>3, <3>1 DEF Agree, IsSock
    <3>2. CASE IsSock(c.fd)
      <4>1. c.fd \in loose
        BY <1>11, <1>14, <2>1, <2>3, <3>2 DEF Agree
      <4> QED BY <1>1, <2>1, <2>2, <3>2, <4>1 DEF Sock
    <3> QED BY <3>1, <3>2
  <2>5. X \in SUBSET Fds /\ Mine(t, X) /\ (\A x \in X : (x \in DOMAIN table => IsSock(x)') /\ (x \in loose' \/ Agree(x)')) /\ \A y \in Fds \ X : ~MovedBy(t, y)
    BY <1>0, <1>2, <1>14, <2>1, <2>3, <2>4 DEF Mine, MovedBy, Moves
  <2> HIDE DEF X
  <2> QED BY <1>12, <2>1, <2>2, <2>5
<1>15. CASE c.op \notin {"close", "connect"} /\ new \notin Fds
  <2> DEFINE X == {}
  <2>1. \A y \in Fds : fds'[y] = fds[y] /\ y # new
    BY <1>1, <1>15
  <2>2. \A y \in Fds : ~MovedBy(t, y)
    <3>1. c.op = "dup2" => c.fd = c.to
      BY <1>0, <1>3, <1>15 DEF Made
    <3> QED BY <1>0, <1>15, <3>1 DEF MovedBy, Moves
  <2>3. X \in SUBSET Fds /\ Mine(t, X) /\ (\A x \in X : (x \in DOMAIN table => IsSock(x)') /\ (x \in loose' \/ Agree(x)')) /\ X = {}
    BY DEF Mine
  <2> HIDE DEF X
  <2> QED BY <1>12, <2>1, <2>2, <2>3
<1>16. CASE new \in Fds
  <2> DEFINE X == {new}
  <2>1. fds'[new] = fds[c.fd] /\ \A y \in Fds \ X : fds'[y] = fds[y]
    BY <1>1, <1>6, <1>16
  <2>2. Mine(t, X)
    BY <1>0, <1>2, <1>3, <1>4, <1>5, <1>16 DEF Mine
  <2>3. \A y \in Fds \ X : ~MovedBy(t, y)
    BY <1>0, <1>4, <1>5, <1>16 DEF MovedBy, Moves, Closed
  <2>4. (new \in DOMAIN table => IsSock(new)') /\ (new \in loose' \/ Agree(new)')
    <3>1. CASE IsSock(c.fd)
      BY <1>1, <1>16, <2>1, <3>1 DEF IsSock
    <3>2. CASE ~IsSock(c.fd)
      <4>1. new \notin DOMAIN table
        <5>1. CASE c.op = "dup2"
          <6>1. new = c.to /\ c.fd # c.to
            BY <1>4, <1>5, <1>16, <5>1
          <6> QED BY <1>0, <1>1, <3>2, <5>1, <6>1 DEF FInv, Told, LetThrough, Relies, IsSock
        <5>2. CASE c.op # "dup2"
          <6>1. fds[new] = None
            BY <1>4, <1>5, <1>16, <5>2 DEF Closed
          <6> QED BY <1>3, <6>1 DEF FInv, Listed, IsSock, None
        <5> QED BY <5>1, <5>2
      <4> QED BY <2>1, <3>2, <4>1 DEF Agree, IsSock
    <3> QED BY <3>1, <3>2
  <2>5. X \in SUBSET Fds /\ (\A x \in X : (x \in DOMAIN table => IsSock(x)') /\ (x \in loose' \/ Agree(x)')) /\ \A y \in Fds \ X : y # new
    BY <1>16, <2>4
  <2> HIDE DEF X
  <2> QED BY <1>12, <2>1, <2>2, <2>3, <2>5
<1> QED BY <1>13, <1>14, <1>15, <1>16

LEMMA NextTable == FInv /\ [Next]_vars => FInv'
<1> SUFFICES ASSUME FInv, [Next]_vars PROVE FInv'
  OBVIOUS
<1> USE DEF daemon, job
<1>1. Started'
  BY NextStarted DEF FInv
<1>2. ASSUME NEW t \in Threads, Signal(t) PROVE FInv'
  BY <1>1, <1>2, Unchanged DEF Signal
<1>3. CASE UNCHANGED vars
  <2>1. Started' /\ Types' /\ Quiet' /\ InHand' /\ Apart'
    BY <1>1, <1>3 DEF vars, FInv, Types, Quiet, InHand, Apart, InFlight, IsSock
  <2>2. Holds' /\ Claims' /\ Told'
    BY <1>3 DEF vars, FInv, Holds, Claims, Told, InFlight, Closed, LetThrough, Relies
  <2>3. Listed' /\ Agrees'
    BY <1>3 DEF vars, FInv, Listed, Agrees, IsSock, MovedBy, Dropped, Agree
  <2> QED BY <2>1, <2>2, <2>3 DEF FInv
<1>4. ASSUME NEW t \in Threads, NEW c \in Program, Call(t, c) PROVE FInv'
  BY <1>4, ProgramAssumption, CallTable
<1>5. CASE Serve
  BY <1>5, HandleTable, ReplyTable, ReceiveTable DEF Serve
<1> QED BY <1>1, <1>2, <1>3, <1>4, <1>5, StartTable, OpenTable, KernelTable DEF Next

\* However threads make, duplicate, reuse and close descriptors, and at whatever step signals
\* take calls back: no listed number is closed or a file, and a socket is listed as what it is
\* and connected to us alone, wherever no call that the supervisor lets through
\* (supervisor_linux.go:368, handle) is about to change it, except the sockets that the
\* supervisor does not follow: the kernel's duplicates of one not yet connected (line 503), and
\* those whose close or replacement was taken back too late for the table (lines 378, 495).
THEOREM TableAlwaysAgrees == Spec => []TableAgrees
<1>1. FInv => TableAgrees
  <2> SUFFICES ASSUME FInv, child = "running" PROVE TableAgrees
    BY DEF TableAgrees
  <2>1. \A fd \in DOMAIN table : IsSock(fd)
    BY DEF FInv, Listed
  <2>2. ASSUME NEW fd \in Fds \ loose, ~Changing(fd) PROVE Agree(fd)
    <3>1. \A t \in Threads : ~MovedBy(t, fd)
      BY <2>2 DEF MovedBy, Moves, Changing
    <3>2. ~Dropped(fd)
      BY <2>2 DEF Dropped, Moves, Changing
    <3> QED BY <3>1, <3>2 DEF FInv, Agrees
  <2> QED BY <2>1, <2>2 DEF TableAgrees, Agree
<1>2. Spec => Init /\ [][Next]_vars
  BY PTL DEF Spec
<1> QED BY <1>1, <1>2, InitTable, NextTable, PTL

=============================================================================
