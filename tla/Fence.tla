------------------------------- MODULE Fence -------------------------------
(***************************************************************************)
(* A job behind the network fence: how it is started (startFenced in         *)
(* internal/runtime/runtime.go, startFence in internal/daemon/fence_linux.go *)
(* and Fenced, its child, in internal/fence/supervisor_linux.go), and how    *)
(* the supervisor follows the job's descriptors in its table while it        *)
(* answers the calls that the filter hands to it.                            *)
(*                                                                          *)
(* The job is one process of several threads.  A call that the filter hands  *)
(* over is received by the supervisor, handled and replied to, in steps of   *)
(* its one goroutine; a call that it lets continue is carried out by the     *)
(* kernel some time later.  Until the reply a signal may take the call back: *)
(* the kernel then refuses to put a descriptor into the job for it, and      *)
(* drops the reply, but what the table was told stays.  A call taken back    *)
(* before it was received leaves a wake-up with no call behind, on which     *)
(* NOTIF_RECV fails with ENOENT and Serve returns.                           *)
(*                                                                          *)
(* As in any program that works, a thread uses only descriptors that are     *)
(* open and that no other thread uses in a call of its own, and duplicates   *)
(* onto a closed number only while the others make no descriptors.  Sockets  *)
(* are of the internet families: all else a descriptor can be is Other.      *)
(***************************************************************************)
EXTENDS Integers, FiniteSets

CONSTANTS
    Threads,  \* the job's threads
    Fds,      \* the numbers of the job's descriptors
    Program   \* the trapped calls that the job makes

ASSUME FenceAssumption == Fds \subseteq Nat /\ IsFiniteSet(Fds) /\ Fds # {}

VARIABLES
    start,  \* the daemon's call of startFenced, which it makes with d.mu held
    child,  \* the process that becomes the job
    ends,   \* who holds the child's end of their socket
    sent,   \* the listener is in the socket
    go,     \* the go-ahead is in the socket
    proxy,  \* the proxy: "none", "open" or "closed"
    sup,    \* the supervisor's goroutine: "off", "on" or "over"
    fds,    \* the job's descriptors
    table,  \* the supervisor's table: descriptor -> its kind, and whether we connected it
    hand,   \* the request the supervisor has received and not yet replied to
    calls,  \* what the job's threads have asked of the kernel
    lost,   \* a call was taken back before the supervisor received it
    loose   \* history: sockets the supervisor does not follow (Kernel, Reply)

daemon == <<start, ends, go, proxy>>
job == <<fds, calls, loose, lost>>
vars == <<daemon, child, sent, sup, table, hand, job>>

Kinds == {"stream", "dgram"}

\* A descriptor: closed, a file, or a socket that is connected to us, to elsewhere or not yet.
None == [is |-> "none"]
Other == [is |-> "other"]
Sock(kind, to) == [is |-> "socket", kind |-> kind, to |-> to]

IsSock(fd) == fds[fd].is = "socket"

Put(f, x, v) == [y \in DOMAIN f \cup {x} |-> IF y = x THEN v ELSE f[y]]
Drop(f, x) == [y \in DOMAIN f \ {x} |-> f[y]]

\* The lowest of a set of numbers.
Least(S) == CHOOSE x \in S : \A y \in S : x <= y

Closed == {fd \in Fds : fds[fd] = None}

Free == [pc |-> "free"]
Idle == [do |-> "idle"]

Init ==
    /\ start = "fork" /\ child = "none" /\ ends = {}
    /\ sent = FALSE /\ go = FALSE /\ proxy = "none" /\ sup = "off"
    /\ fds = [fd \in Fds |-> None] /\ table = <<>> /\ loose = {}
    /\ calls = [t \in Threads |-> Free] /\ hand = Idle /\ lost = FALSE

-----------------------------------------------------------------------------
(* The start. *)

\* Mutated form of Fork: the daemon keeps the child's end of the socket.
ForkKeeping ==
    /\ start = "fork"
    /\ \/ start' = "listen" /\ child' = "new" /\ ends' = {"child", "daemon"}
       \/ start' = "failed" /\ UNCHANGED <<child, ends>>
    /\ UNCHANGED <<go, proxy, sent, sup, table, hand, job>>

\* The socket pair is made and the child started, or that fails; the daemon closes the child's end.
Fork ==
    /\ start = "fork"
    /\ \/ start' = "listen" /\ child' = "new" /\ ends' = {"child"}
       \/ start' = "failed" /\ UNCHANGED <<child, ends>>
    /\ UNCHANGED <<go, proxy, sent, sup, table, hand, job>>

\* The start fails: the child is killed.
Fail == start' = "failed" /\ child' = "dead" /\ ends' = ends \ {"child"}

\* The proxy listens, or cannot.
Listen ==
    /\ start = "listen"
    /\ \/ start' = "recv" /\ proxy' = "open" /\ UNCHANGED <<child, ends>>
       \/ Fail /\ UNCHANGED proxy
    /\ UNCHANGED <<go, sent, sup, table, hand, job>>

\* Mutated form of Recv: the child is told to go on before the supervisor serves.
RecvGo ==
    /\ start = "recv" /\ sent
    /\ start' = "go" /\ sent' = FALSE /\ go' = TRUE
    /\ UNCHANGED <<child, ends, proxy, sup, table, hand, job>>

\* The child's listener arrives, and the supervisor begins to serve, or cannot be made.
Recv ==
    /\ start = "recv" /\ sent
    /\ sent' = FALSE
    /\ \/ start' = "go" /\ sup' = "on" /\ table' = <<>> /\ UNCHANGED <<child, ends, proxy>>
       \/ Fail /\ proxy' = "closed" /\ UNCHANGED <<sup, table>>
    /\ UNCHANGED <<go, hand, job>>

\* Nobody is left who could send it.
RecvEOF ==
    /\ start = "recv" /\ ~sent /\ ends = {}
    /\ Fail
    /\ proxy' = "closed"
    /\ UNCHANGED <<go, sent, sup, table, hand, job>>

\* The child is told to go on, and the daemon returns.
WriteGo ==
    /\ start = "go"
    /\ start' = "done" /\ go' = TRUE
    /\ UNCHANGED <<child, ends, proxy, sent, sup, table, hand, job>>

\* The child has installed the filter and sends the listener, on the one descriptor where the filter lets it.
SendListener ==
    /\ child = "new"
    /\ child' = "wait" /\ sent' = TRUE
    /\ UNCHANGED <<daemon, sup, table, hand, job>>

\* ... and runs the command once it has the go-ahead.
RunCommand ==
    /\ child = "wait" /\ go
    /\ child' = "running"
    /\ UNCHANGED <<daemon, sent, sup, table, hand, job>>

\* The child or the job ends or is killed.
Die ==
    /\ child \in {"new", "wait", "running"}
    /\ child' = "dead" /\ ends' = ends \ {"child"}
    /\ fds' = [fd \in Fds |-> None] /\ loose' = {} /\ calls' = [t \in Threads |-> Free]
    /\ UNCHANGED <<start, go, proxy, sent, sup, table, hand, lost>>

\* NOTIF_RECV fails: the job is gone, or all that is left to receive was taken back.
RecvFails ==
    /\ sup = "on" /\ hand = Idle
    /\ child = "dead" \/ (lost /\ \A t \in Threads : calls[t].pc # "asked")

\* Mutated form of ServeEnd: the proxy stays open.
ServeEndOpen ==
    /\ RecvFails
    /\ sup' = "over"
    /\ UNCHANGED <<daemon, child, sent, table, hand, job>>

\* Serve returns, and the proxy is closed; later calls of the job are not answered any more.
ServeEnd ==
    /\ RecvFails
    /\ sup' = "over" /\ proxy' = "closed"
    /\ UNCHANGED <<start, ends, go, child, sent, table, hand, job>>

-----------------------------------------------------------------------------
(* The job's calls. *)

Busy(t) == {calls[u].fd : u \in {v \in Threads \ {t} : calls[v].pc # "free"}}
           \cup {calls[u].to : u \in {v \in Threads \ {t} : calls[v].pc # "free"}}

NoFd == -1

\* What the filter hands to the supervisor; dup3 is as dup2, and of fcntl only F_DUPFD matters.
Trapped ==
    {[op |-> "socket", kind |-> k, fd |-> NoFd, to |-> NoFd] : k \in Kinds}
    \cup {[op |-> op, kind |-> "stream", fd |-> fd, to |-> NoFd] :
             op \in {"close", "connect", "send", "dup", "dupfd"}, fd \in Fds}
    \cup {[op |-> "dup2", kind |-> "stream", fd |-> fd, to |-> to] : fd \in Fds, to \in Fds}

ASSUME ProgramAssumption == Program \subseteq Trapped

\* A thread has chosen a closed number for itself.
Claimed == \E t \in Threads : calls[t].pc # "free" /\ calls[t].to \in Closed

\* A call after Serve has returned gets no answer: there is nothing of it to follow.
Call(t, c) ==
    /\ child = "running" /\ sup = "on" /\ calls[t].pc = "free" /\ ~Claimed
    /\ c.fd \notin Closed /\ {c.fd, c.to} \cap (Busy(t) \ {NoFd}) = {}
    /\ c.to \in Closed => \A u \in Threads : calls[u].pc = "free"
    /\ calls' = [calls EXCEPT ![t] = [pc |-> "asked", op |-> c.op, kind |-> c.kind, fd |-> c.fd, to |-> c.to]]
    /\ UNCHANGED <<daemon, child, sent, sup, table, hand, fds, loose, lost>>

\* A file is opened, or a socket of another family made: the filter lets it through.
Open(t) ==
    /\ child = "running" /\ calls[t].pc = "free" /\ Closed # {} /\ ~Claimed
    /\ fds' = [fds EXCEPT ![Least(Closed)] = Other]
    /\ UNCHANGED <<daemon, child, sent, sup, table, hand, calls, loose, lost>>

\* A signal takes the call back before it is answered.
Signal(t) ==
    /\ calls[t].pc \in {"asked", "received"}
    /\ calls' = [calls EXCEPT ![t] = Free]
    /\ lost' = (lost \/ calls[t].pc = "asked")
    /\ UNCHANGED <<daemon, child, sent, sup, table, hand, fds, loose>>

-----------------------------------------------------------------------------
(* The supervisor: it receives a notification, handles it and replies. *)

Receive(t) ==
    /\ sup = "on" /\ hand = Idle /\ calls[t].pc = "asked"
    /\ hand' = [do |-> "handle", by |-> t, op |-> calls[t].op, kind |-> calls[t].kind,
                fd |-> calls[t].fd, to |-> calls[t].to]
    /\ calls' = [calls EXCEPT ![t].pc = "received"]
    /\ UNCHANGED <<daemon, child, sent, sup, table, fds, loose, lost>>

Handling(op) == hand.do = "handle" /\ hand.op = op

\* The call will go on to the kernel ("cont"), or has its answer ("answer").
Decide(do) == hand' = [hand EXCEPT !.do = do]

\* The call was not taken back.
Valid == calls[hand.by].pc = "received"

Ours == hand.fd \in DOMAIN table
Connected == Ours /\ table[hand.fd].connected

Entry(kind, connected) == [kind |-> kind, connected |-> connected]

\* The kernel puts a socket into the job, for a call that was not taken back, and the table is told.
Inject(fd, sock, entry) ==
    /\ Valid
    /\ fds' = [fds EXCEPT ![fd] = sock] /\ loose' = loose \ {fd}
    /\ table' = Put(table, fd, entry)

\* A socket of ours is given to the job; it is refused if there is none or no number left.
OnSocket ==
    /\ Handling("socket") /\ Decide("answer")
    /\ \/ UNCHANGED <<table, fds, loose>>
       \/ Closed # {} /\ Inject(Least(Closed), Sock(hand.kind, "nowhere"), Entry(hand.kind, FALSE))
    /\ UNCHANGED <<daemon, child, sent, sup, calls, lost>>

\* Mutated form of OnClose: the table is not told.
OnCloseUntold ==
    /\ Handling("close") /\ Decide("cont")
    /\ UNCHANGED <<daemon, child, sent, sup, table, job>>

OnClose ==
    /\ Handling("close") /\ Decide("cont")
    /\ table' = Drop(table, hand.fd)
    /\ UNCHANGED <<daemon, child, sent, sup, job>>

\* A socket of ours is replaced by one that we have connected, unless that fails.
OnConnect ==
    /\ Handling("connect")
    /\ \/ ~Ours /\ Decide("cont") /\ UNCHANGED <<table, fds, loose>>
       \/ Ours /\ Decide("answer") /\ UNCHANGED <<table, fds, loose>>
       \/ /\ Ours /\ Decide("answer")
          /\ Inject(hand.fd, Sock(table[hand.fd].kind, "us"), Entry(table[hand.fd].kind, TRUE))
    /\ UNCHANGED <<daemon, child, sent, sup, calls, lost>>

\* A socket of ours that is not connected is refused.
OnSend ==
    /\ Handling("send") /\ Decide(IF Ours /\ ~Connected THEN "answer" ELSE "cont")
    /\ UNCHANGED <<daemon, child, sent, sup, table, job>>

\* F_DUPFD of a socket of ours is refused.
OnDupFd ==
    /\ Handling("dupfd") /\ Decide(IF Ours THEN "answer" ELSE "cont")
    /\ UNCHANGED <<daemon, child, sent, sup, table, job>>

\* A connected socket of ours is duplicated by us, unless that fails; one that is not yet connected is
\* duplicated by the kernel, unseen; what anything else is duplicated onto is not ours any more.
OnDup ==
    /\ Handling("dup") \/ Handling("dup2")
    /\ \/ /\ ~Ours /\ Decide("cont")
          /\ table' = IF hand.op = "dup2" THEN Drop(table, hand.to) ELSE table
          /\ UNCHANGED <<fds, loose>>
       \/ Ours /\ ~Connected /\ Decide("cont") /\ UNCHANGED <<table, fds, loose>>
       \/ Connected /\ Decide("answer") /\ UNCHANGED <<table, fds, loose>>
       \/ /\ Connected /\ Decide("answer")
          /\ hand.op = "dup2" \/ Closed # {}
          /\ Inject(IF hand.op = "dup2" THEN hand.to ELSE Least(Closed), Sock(table[hand.fd].kind, "us"), table[hand.fd])
    /\ UNCHANGED <<daemon, child, sent, sup, calls, lost>>

\* The reply to a call that was taken back is lost: a socket that it was to close or to replace
\* stays open, while the table has already been told.
Reply ==
    /\ hand.do \in {"cont", "answer"}
    /\ hand' = Idle
    /\ \/ /\ Valid /\ hand.do = "cont"
          /\ calls' = [calls EXCEPT ![hand.by].pc = "continued"] /\ UNCHANGED loose
       \/ /\ Valid /\ hand.do = "answer"
          /\ calls' = [calls EXCEPT ![hand.by] = Free] /\ UNCHANGED loose
       \/ /\ ~Valid
          /\ loose' = loose \cup {fd \in {hand.fd, hand.to} \cap Fds : IsSock(fd) /\ fd \notin DOMAIN table}
          /\ UNCHANGED calls
    /\ UNCHANGED <<daemon, child, sent, sup, table, fds, lost>>

-----------------------------------------------------------------------------
(* The kernel carries out a call that was let through. *)

\* The descriptor that c makes, if it makes one.
Made(c) ==
    IF c.op \notin {"dup", "dup2", "dupfd"} \/ c.fd = c.to \/ (c.op # "dup2" /\ Closed = {}) THEN NoFd
    ELSE IF c.op = "dup2" THEN c.to ELSE Least(Closed)

Kernel(t) ==
    LET c == calls[t]
        new == Made(c)
    IN  /\ c.pc = "continued"
        /\ fds' = [fd \in Fds |->
                     IF c.op = "close" /\ fd = c.fd THEN None
                     ELSE IF fd = new THEN fds[c.fd]
                     ELSE IF c.op = "connect" /\ fd = c.fd /\ IsSock(fd) THEN Sock(fds[fd].kind, "elsewhere")
                     ELSE fds[fd]]
        /\ loose' = {fd \in loose \cup {new} : fd \in Fds /\ fds'[fd].is = "socket"}
        /\ calls' = [calls EXCEPT ![t] = Free]
        /\ UNCHANGED <<daemon, child, sent, sup, table, hand, lost>>

Start == Fork \/ Listen \/ Recv \/ RecvEOF \/ WriteGo
Child == SendListener \/ RunCommand
Handle == OnSocket \/ OnClose \/ OnConnect \/ OnSend \/ OnDupFd \/ OnDup
Serve == Handle \/ Reply \/ \E t \in Threads : Receive(t)

Next ==
    \/ Start \/ Child \/ Serve \/ ServeEnd \/ Die
    \/ \E t \in Threads : Open(t) \/ Signal(t) \/ Kernel(t) \/ \E c \in Program : Call(t, c)

\* The daemon, the child until it is the command, and the supervisor go on while they can.
Spec ==
    /\ Init /\ [][Next]_vars
    /\ WF_vars(Start) /\ WF_vars(Child) /\ WF_vars(Serve) /\ WF_vars(ServeEnd)

-----------------------------------------------------------------------------
(* Properties. *)

\* The command never runs without a supervisor that has begun to serve ("waits for the
\* go-ahead, and execs", supervisor_linux.go:531-535), and has it and its proxy until it ends
\* unless a call was taken back before it was received (supervisor_linux.go:355-362); when the
\* start fails nothing of it is left behind: neither the child nor, beside it, an open proxy
\* (runtime.go:122-125, fence_linux.go:19-28).
FencedOrGone ==
    /\ child = "running" => sup # "off"
    /\ child = "running" /\ ~lost => sup = "on" /\ proxy = "open"
    /\ start = "failed" => child \in {"none", "dead"} /\ proxy # "open"

\* A call to close fd or to duplicate onto it is about to be replied to, or with the kernel.
Changing(fd) ==
    \/ hand.do = "cont" /\ hand.op \in {"close", "dup2"} /\ fd \in {hand.fd, hand.to}
    \/ \E t \in Threads : calls[t].pc = "continued" /\ calls[t].op \in {"close", "dup2"} /\ fd \in {calls[t].fd, calls[t].to}

\* The table against the job's descriptors, whatever order threads make, reuse and close them
\* in and at whatever step signals take calls back.  No listed number is ever a file of the job
\* or closed (the connects of what takes the number next would be taken over).  And a socket is
\* listed with its kind and whether it is connected, and connected to us alone, unless it is
\* loose: a duplicate that the kernel made of a socket not yet connected (or of a loose one),
\* which supervisor_linux.go:503 lets through unseen, or a socket whose close or replacement was
\* taken back after lines 378 or 495 had dropped its entry.
TableAgrees ==
    child = "running" =>
        /\ \A fd \in DOMAIN table : IsSock(fd)
        /\ \A fd \in Fds \ loose : IsSock(fd) /\ ~Changing(fd) =>
              /\ fd \in DOMAIN table
              /\ table[fd] = Entry(fds[fd].kind, fds[fd].to = "us")
              /\ fds[fd].to # "elsewhere"

\* The daemon's call returns, and with it d.mu is let go, although the child may die before
\* it has sent its listener.
StartReturns == start = "recv" ~> start \in {"done", "failed"}

\* A proxy does not outlive its job (fence_linux.go:29-32).
ProxyCloses == child = "dead" ~> proxy # "open"

=============================================================================
