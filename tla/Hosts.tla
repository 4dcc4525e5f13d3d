------------------------------- MODULE Hosts -------------------------------
(***************************************************************************)
(* A machine without a GPU and the hosts it knows (cmd/gmux/hosts.go, run    *)
(* and the end of runRemote in cmd/gmux/main.go): the file remotes.json,     *)
(* which several gmux commands read, change and write back, and a `gmux run' *)
(* that asks every host in it what is free, chooses one and, a sync later,   *)
(* submits its job there, while the hosts' own jobs come and go.             *)
(*                                                                          *)
(* Hosts share Placement: the cards of all hosts are told apart by number,   *)
(* and for a host's scheduler the others' are as if out of service.  A job's *)
(* admission order and priority play no part here, where no job is           *)
(* preemptible.  Names are numbers, in alphabetical order.                   *)
(***************************************************************************)
EXTENDS Placement

CONSTANTS
    HostCards,   \* name of each host -> its cards
    Mine,        \* the id of the job of `gmux run'
    MyAsks,      \* what it may ask for
    LocalAsks,   \* what jobs of the hosts' own users may ask for
    Commands     \* the `gmux remote' commands that run at a time, at most

Names == DOMAIN HostCards
NoName == 0

ASSUME HostsAssumption ==
    /\ Names \subseteq Nat \ {NoName}
    /\ \A n \in Names : HostCards[n] \subseteq Cards /\ HostCards[n] # {}
    /\ \A m, n \in Names : m # n => HostCards[m] \cap HostCards[n] = {}
    /\ MyAsks \cup LocalAsks \subseteq Request
    /\ \A r \in MyAsks \cup LocalAsks : ~r.preempt
    /\ \A r \in MyAsks : r.id = Mine
    /\ \A r \in LocalAsks : r.id # Mine

VARIABLES
    file,     \* remotes.json: the hosts that are listed and the default, or Bad
    cmds,     \* the `gmux remote' commands
    client,   \* the `gmux run'
    up,       \* the hosts that answer
    placed,   \* what runs on their cards
    stale     \* history: the hosts that changed after the run looked at them

hostVars == <<file, cmds, client, up, placed, stale>>

Empty == [remotes |-> {}, default |-> NoName]            \* also how an empty file is read
Bad == [remotes |-> {NoName}, default |-> NoName]  \* a file that cannot be read

IdleCmd == [pc |-> "idle", conf |-> Empty]
IdleRun == [pc |-> "idle", conf |-> Empty, req |-> CHOOSE r \in MyAsks : TRUE, views |-> <<>>, to |-> NoName]

HostsInit ==
    /\ file = Empty /\ cmds = [p \in Commands |-> IdleCmd]
    /\ client = IdleRun
    /\ up = Names /\ placed = <<>> /\ stale = {}

-----------------------------------------------------------------------------
(* gmux remote. *)

\* Bounds.  A run reads the file once, and commands and hosts have nothing else in common
\* than whether a host answers: a command starts only while there is no run, and the
\* hosts change only while there is no command.
NoRun == client.pc = "idle"
NoCommand == \A p \in Commands : cmds[p].pc = "idle"

\* loadHosts: a file that cannot be read ends the command.
Load(p) ==
    /\ NoRun
    /\ cmds[p].pc = "idle" /\ file # Bad
    /\ cmds' = [cmds EXCEPT ![p] = [pc |-> "loaded", conf |-> file]]
    /\ UNCHANGED <<file, client, up, placed, stale>>

\* Mutated form of RemoteRm: the default stays.
RemoteRmOnly(h, name) == [h EXCEPT !.remotes = @ \ {name}]

RemoteAdd(h, name, default) ==
    [remotes |-> h.remotes \cup {name},
     default |-> IF h.default = NoName \/ default THEN name ELSE h.default]

RemoteRm(h, name) ==
    [remotes |-> h.remotes \ {name}, default |-> IF h.default = name THEN NoName ELSE h.default]

\* A host is added once it has answered; only a listed one can be the default.
Changes(h) ==
    {RemoteAdd(h, name, default) : name \in up, default \in BOOLEAN}
    \cup {RemoteRm(h, name) : name \in Names}
    \cup {[h EXCEPT !.default = name] : name \in h.remotes}

\* The command has changed its copy, and truncates the file to write it.
Truncate(p) ==
    /\ cmds[p].pc = "loaded"
    /\ \E h \in Changes(cmds[p].conf) : cmds' = [cmds EXCEPT ![p] = [pc |-> "writing", conf |-> h]]
    /\ file' = Empty
    /\ UNCHANGED <<client, up, placed, stale>>

\* What another has written since the file was truncated may stick out behind.
Write(p) ==
    /\ cmds[p].pc = "writing"
    /\ file' \in {cmds[p].conf} \cup (IF file = Empty THEN {} ELSE {Bad})
    /\ cmds' = [cmds EXCEPT ![p] = IdleCmd]
    /\ UNCHANGED <<client, up, placed, stale>>

\* The command fails or is killed before it has written.
Killed(p) ==
    /\ cmds[p].pc # "idle"
    /\ cmds' = [cmds EXCEPT ![p] = IdleCmd]
    /\ UNCHANGED <<file, client, up, placed, stale>>

\* Its owner mends a file that no command reads.
Mend ==
    /\ file = Bad
    /\ file' = Empty
    /\ UNCHANGED <<cmds, client, up, placed, stale>>

-----------------------------------------------------------------------------
(* gmux run. *)

Others(n) == Cards \ HostCards[n]

\* names: the default first.
NameBefore(h, m, n) == IF n = h.default THEN FALSE ELSE m = h.default \/ m < n

FirstName(h, S) == CHOOSE n \in S : \A m \in S \ {n} : NameBefore(h, n, m)

\* No daemon answers here: the run goes to one of the hosts of the file.
RunLoad(r) ==
    /\ client.pc = "idle" /\ file # Bad /\ file.remotes # {}
    /\ client' = [IdleRun EXCEPT !.pc = "ask", !.conf = file, !.req = r]
    /\ UNCHANGED <<file, cmds, up, placed, stale>>

\* The run was pointed at a host of the file by name.
RunExplicit(r, n) ==
    /\ client.pc = "idle" /\ file # Bad /\ n \in file.remotes
    /\ client' = [IdleRun EXCEPT !.pc = "sync", !.conf = file, !.req = r, !.to = n]
    /\ UNCHANGED <<file, cmds, up, placed, stale>>

\* What a host says of its cards.
Cards_(n) ==
    [c \in HostCards[n] |-> [seats |-> CardSeats[c] - SeatsUsed(placed, c),
                             mem |-> CardMem[c] - MemUsed(placed, c)]]

\* The answer of one host, or its error.
Ask(n) ==
    /\ client.pc = "ask" /\ n \in client.conf.remotes \ DOMAIN client.views
    /\ LET view == IF n \in up THEN Cards_(n) ELSE <<>>
       IN  client' = [client EXCEPT !.views = [m \in DOMAIN @ \cup {n} |-> IF m = n THEN view ELSE @[m]]]
    /\ UNCHANGED <<file, cmds, up, placed, stale>>

\* What the client counts that r needs: rounded up, and no more.
ClientSeats(r, c) == (r.share * CardSeats[c] + Unit - 1) \div Unit
ClientMem(r, c) == IF r.mem # 0 THEN r.mem ELSE DefaultMem(ClientSeats(r, c), CardSeats[c], CardMem[c])

\* The hosts, with their cards, that can take r.
Room(r, views) ==
    {x \in UNION {{n} \X DOMAIN views[n] : n \in DOMAIN views} :
        /\ views[x[1]][x[2]].seats >= ClientSeats(r, x[2])
        /\ views[x[1]][x[2]].mem >= ClientMem(r, x[2])}

Left(r, views, x) == views[x[1]][x[2]].seats - ClientSeats(r, x[2])

\* Mutated form of BestHost: the first host with room.
BestHostFirst(h, r, views) == FirstName(h, {x[1] : x \in Room(r, views)})

\* The host with the most seats to spare, the earlier one on a tie.
BestHost(h, r, views) ==
    LET room == Room(r, views)
        most == {x \in room : \A y \in room : Left(r, views, x) >= Left(r, views, y)}
    IN  FirstName(h, {x[1] : x \in most})

\* Every host has answered or failed.  If none has room, the first that answered decides.
PlaceRemote ==
    LET reachable == {n \in client.conf.remotes : client.views[n] # <<>>}
    IN  /\ client.pc = "ask" /\ DOMAIN client.views = client.conf.remotes
        /\ client' = IF reachable = {} THEN IdleRun
                     ELSE [client EXCEPT !.pc = "sync",
                              !.to = IF Room(client.req, client.views) # {}
                                       THEN BestHost(client.conf, client.req, client.views)
                                       ELSE FirstName(client.conf, reachable)]
        /\ stale' = IF reachable = {} THEN {} ELSE stale
        /\ UNCHANGED <<file, cmds, up, placed>>

\* The directory is synced, and the host admits the job: it starts, waits or is refused.
Exec ==
    /\ client.pc = "sync"
    /\ LET down == Others(client.to)
           err == IF ~Validate(client.req) THEN "bad" ELSE FitErr(placed, down, client.req)
       IN  IF client.to \notin up
             THEN client' = IdleRun /\ stale' = {} /\ UNCHANGED placed
             ELSE IF err = "none"
             THEN /\ placed' = Place(placed, client.req, FitSlots(placed, down, client.req), 0)
                  /\ client' = [client EXCEPT !.pc = "placed"]
                  /\ UNCHANGED stale
             ELSE /\ client' = [client EXCEPT !.pc = IF err = "nofit" /\ client.req.wait THEN "queued" ELSE "refused"]
                  /\ UNCHANGED <<placed, stale>>
    /\ UNCHANGED <<file, cmds, up>>

\* The run is over: its job has ended, or the client was interrupted and the host stopped it.
RunEnd ==
    /\ client.pc # "idle"
    /\ client' = IdleRun
    /\ placed' = Without(placed, {Mine})
    /\ stale' = {}
    /\ UNCHANGED <<file, cmds, up>>

-----------------------------------------------------------------------------
(* The hosts. *)

\* A job of the host's own is placed.
LocalStart(r, n) ==
    /\ NoCommand
    /\ r.id \notin DOMAIN placed /\ FitErr(placed, Others(n), r) = "none"
    /\ placed' = Place(placed, r, FitSlots(placed, Others(n), r), 0)
    /\ stale' = stale \cup ({n} \cap DOMAIN client.views)
    /\ UNCHANGED <<file, cmds, client, up>>

\* A job of the host's own ends, and the one that waits there starts if it fits.
LocalEnd(j, n) ==
    /\ NoCommand
    /\ j \in DOMAIN placed \ {Mine} /\ DOMAIN placed[j].slots \subseteq HostCards[n]
    /\ LET q     == IF client.pc = "queued" /\ client.to = n THEN <<client.req>> ELSE <<>>
           after == Drain(Without(placed, {j}), -1, q, Others(n))
       IN  /\ placed' = after.run
           /\ client' = IF after.started = <<>> THEN client ELSE [client EXCEPT !.pc = "placed"]
    /\ stale' = stale \cup ({n} \cap DOMAIN client.views)
    /\ UNCHANGED <<file, cmds, up>>

\* A host cannot be reached for a while.
Reach(n) ==
    /\ NoCommand
    /\ up' = IF n \in up THEN up \ {n} ELSE up \cup {n}
    /\ stale' = stale \cup ({n} \cap DOMAIN client.views)
    /\ UNCHANGED <<file, cmds, client, placed>>

HostsNext ==
    \/ \E p \in Commands : Load(p) \/ Truncate(p) \/ Write(p) \/ Killed(p)
    \/ Mend \/ PlaceRemote \/ Exec \/ RunEnd
    \/ \E r \in MyAsks : RunLoad(r) \/ \E n \in Names : RunExplicit(r, n)
    \/ \E n \in Names :
          \/ Ask(n) \/ Reach(n)
          \/ \E r \in LocalAsks : LocalStart(r, n)
          \/ \E j \in Ids : LocalEnd(j, n)

HostsSpec == HostsInit /\ [][HostsNext]_hostVars

-----------------------------------------------------------------------------
(* Properties. *)

\* The default, if there is one, is a host that is listed, although several commands
\* read and write the file at the same time and may be killed in between: the file is
\* always what one command made of one file (hosts.go:91-145).
DefaultListed == file # Bad => file.default \in file.remotes \cup {NoName}

\* "goes to the one with the most room for the job, skipping hosts that do not answer"
\* and "the one to prefer on a tie" (README.md:135-136, 146-147).  The client reckons with
\* what it was told, and rounds in its own words (hosts.go:267-276); yet as long as no host
\* has changed since it was asked, no host that answers could, by its scheduler's reckoning,
\* spare more seats after the job than the chosen one, the default is passed over only for
\* one that can spare more, and the job is sent to a full host only if all are full.
MostRoom ==
    LET spare(n) == {SeatsLeft(placed, client.req, c) : c \in Candidates(placed, Others(n), client.req)}
    IN  client.pc = "sync" /\ client.views # <<>> /\ stale = {} =>
            \A n \in DOMAIN client.views \cap up : \A s \in spare(n) :
                \E t \in spare(client.to) : t > s \/ (t = s /\ (n = client.to \/ n # client.conf.default))

=============================================================================
