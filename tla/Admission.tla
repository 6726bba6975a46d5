----------------------------- MODULE Admission -----------------------------
(***************************************************************************)
(* How a connection comes in and how long it may be idle: the accept loop  *)
(* of the main reactor, the choice of a sub-reactor by the counts of their *)
(* sockets, newEvent on that reactor, and the timer nodes with their clock,*)
(* which starts again at 0 every Wrap units (10,000 seconds).              *)
(*                                                                         *)
(* The queue that carries newEvent is in EventLoop, what else happens on a *)
(* connection is in SubReactor.  The nodes that have lost their connection *)
(* close nothing and are left out; of the others the heap gives those      *)
(* whose deadline is not above the clock.                                  *)
(***************************************************************************)
EXTENDS Integers, Sequences, FiniteSets, FiniteSetsExt

CONSTANTS
    Clients,
    NumThreads,     \* numThreads_
    MAXFDS,         \* the size of the tables of descriptors
    Limits,         \* how many descriptors the system may allow
    Wrap,           \* the clock is taken modulo this
    Expired,        \* DEFAULT_EXPIRED_TIME
    KeepAlive,      \* DEFAULT_KEEP_ALIVE_TIME
    Delay,          \* EPOLLWAIT_TIME: between two looks at the timers
    MaxTime         \* bound: the time that passes

ASSUME AdmissionAssumption ==
    /\ {NumThreads, Wrap, Expired, KeepAlive, Delay} \subseteq Nat \ {0}
    /\ MAXFDS \in Nat /\ MaxTime \in Nat /\ Limits \subseteq Nat
    /\ IsFiniteSet(Clients)
    /\ Expired + Delay < Wrap

VARIABLES
    limit,      \* the limit of descriptors, in descriptors left for connections
    main,       \* the main reactor: in epoll_wait or in handNewConn
    ready,      \* epoll has the listening socket in its ready list
    deaf,       \* the listening socket's events are 0
    backlog,    \* connections not yet accepted
    where,      \* where each client's connection is
    fd, loop,   \* its descriptor and its reactor
    queue,      \* per reactor: the connections whose newEvent is pending
    now,        \* the time, not wrapped
    quiet,      \* per reactor: time since it last looked at its timers
    armed,      \* history: when the connection's timer was set,
    timeout,    \* to how much,
    deadline,   \* expiredTime_
    early,      \* history: a timer closed a connection before that
    starved     \* history: accept has failed for want of a descriptor

acceptor == <<main, ready, deaf, backlog, starved>>
conns == <<where, fd, loop, queue>>
timers == <<armed, timeout, deadline, early>>
vars == <<limit, acceptor, conns, timers, now, quiet>>

Loops == 0..NumThreads - 1
None == -1
\* Mutant: the seconds are not taken modulo anything.
ClockUnwrapped == now
Clock == now % Wrap
Served(l) == {c \in Clients : where[c] = "served" /\ loop[c] = l}
Holding == {c \in Clients : where[c] \in {"queued", "served", "leaked"}}

\* num_socket_: the connection counts when newEvent has run.  The wakeup
\* channel, which goes to the Epoll directly, does not count.
NumSocket(l) == Cardinality(Served(l))

TypeOK ==
    /\ limit \in Limits
    /\ main \in {"poll", "accept"} /\ {ready, deaf, starved, early} \subseteq BOOLEAN
    /\ where \in [Clients -> {"away", "backlog", "queued", "served", "closed",
                              "refused", "leaked"}]
    /\ {backlog[i] : i \in DOMAIN backlog} = {c \in Clients : where[c] = "backlog"}
    /\ fd \in [Clients -> Nat \cup {None}] /\ loop \in [Clients -> Loops \cup {None}]
    /\ \A l \in Loops :
        {queue[l][i] : i \in DOMAIN queue[l]} =
            {c \in Clients : where[c] = "queued" /\ loop[c] = l}
    /\ now \in 0..MaxTime /\ quiet \in [Loops -> 0..Delay]
    /\ armed \in [Clients -> 0..MaxTime]
    /\ timeout \in [Clients -> {Expired, KeepAlive}] /\ deadline \in [Clients -> Nat]
    /\ \A c \in Clients : deadline[c] <= Wrap + timeout[c]

-----------------------------------------------------------------------------
(* The main reactor.                                                       *)

\* A connection is made; that is an edge on the listening socket.
Connect(c) ==
    /\ where[c] = "away"
    /\ where' = [where EXCEPT ![c] = "backlog"]
    /\ backlog' = Append(backlog, c)
    /\ ready' = ~deaf
    /\ UNCHANGED <<limit, main, deaf, starved, fd, loop, queue, timers, now, quiet>>

Poll ==
    /\ main = "poll" /\ ready
    /\ main' = "accept" /\ ready' = FALSE
    /\ UNCHANGED <<limit, deaf, backlog, starved, conns, timers, now, quiet>>

\* Of the free descriptors accept gives the lowest.
Free == (0..limit - 1) \ {fd[c] : c \in Holding}

Accepting == main = "accept" /\ backlog # <<>> /\ Free # {}

\* Mutant: a descriptor may have the number of the tables' size.
RefusedAbove(f) == f > MAXFDS
\* The descriptor is too large for the tables, and closed again.
Refused(f) == f >= MAXFDS

AcceptRefused ==
    /\ Accepting /\ Refused(Min(Free))
    /\ where' = [where EXCEPT ![Head(backlog)] = "refused"]
    /\ backlog' = Tail(backlog)
    /\ UNCHANGED <<limit, main, ready, deaf, starved, fd, loop, queue, timers, now, quiet>>

(* fcntl fails: handNewConn returns before it sets the events of the       *)
(* listening socket again, and handThisConn registers it with none.        *)
AcceptBlocking ==
    /\ Accepting /\ ~Refused(Min(Free))
    /\ where' = [where EXCEPT ![Head(backlog)] = "leaked"]
    /\ fd' = [fd EXCEPT ![Head(backlog)] = Min(Free)]
    /\ backlog' = Tail(backlog)
    /\ main' = "poll" /\ deaf' = TRUE /\ ready' = FALSE
    /\ UNCHANGED <<limit, starved, loop, queue, timers, now, quiet>>

\* getLeastLoop: the first of those with the fewest sockets.
LeastLoop ==
    Min({l \in Loops : \A m \in Loops : NumSocket(l) <= NumSocket(m)})

\* An HttpData is made and its newEvent queued.
AcceptNew ==
    /\ Accepting /\ ~Refused(Min(Free))
    /\ LET c == Head(backlog) IN
       /\ where' = [where EXCEPT ![c] = "queued"]
       /\ fd' = [fd EXCEPT ![c] = Min(Free)]
       /\ loop' = [loop EXCEPT ![c] = LeastLoop]
       /\ queue' = [queue EXCEPT ![LeastLoop] = Append(@, c)]
    /\ backlog' = Tail(backlog)
    /\ UNCHANGED <<limit, main, ready, deaf, starved, timers, now, quiet>>

\* Mutant: one connection is accepted for each event.
AcceptEndsEarly ==
    /\ main = "accept"
    /\ main' = "poll" /\ starved' = starved
    /\ UNCHANGED <<limit, ready, deaf, backlog, conns, timers, now, quiet>>

(* accept has nothing or fails for want of a descriptor.  In the second    *)
(* case the backlog waits for the next connection, as there is no edge.    *)
AcceptEnds ==
    /\ main = "accept" /\ (backlog = <<>> \/ Free = {})
    /\ main' = "poll"
    /\ starved' = (starved \/ backlog # <<>>)
    /\ UNCHANGED <<limit, ready, deaf, backlog, conns, timers, now, quiet>>

MainStep == Poll \/ AcceptRefused \/ AcceptBlocking \/ AcceptNew \/ AcceptEnds

-----------------------------------------------------------------------------
(* The sub-reactors.                                                       *)

\* Mutant: the deadline is wrapped like the clock.
ArmWrapped(c, t) ==
    /\ armed' = [armed EXCEPT ![c] = now]
    /\ timeout' = [timeout EXCEPT ![c] = t]
    /\ deadline' = [deadline EXCEPT ![c] = (Clock + t) % Wrap]
    /\ UNCHANGED early
\* addTimer and the constructor of TimerNode.
Arm(c, t) ==
    /\ armed' = [armed EXCEPT ![c] = now]
    /\ timeout' = [timeout EXCEPT ![c] = t]
    /\ deadline' = [deadline EXCEPT ![c] = Clock + t]
    /\ UNCHANGED early

\* newEvent, run by the loop.
NewEvent(l) ==
    /\ queue[l] # <<>>
    /\ queue' = [queue EXCEPT ![l] = Tail(@)]
    /\ where' = [where EXCEPT ![Head(queue[l])] = "served"]
    /\ Arm(Head(queue[l]), Expired)
    /\ UNCHANGED <<limit, acceptor, fd, loop, now, quiet>>

(* An event on the connection: the old node is let go and a new one made.  *)
(* Where handleConn lets it go and makes none (the client ended the stream *)
(* and a part of the answer waits), nothing closes the connection: those   *)
(* are left out here, and are in SubReactor.                               *)
Renew(c) ==
    /\ where[c] = "served"
    /\ \E t \in {Expired, KeepAlive} : Arm(c, t)
    /\ UNCHANGED <<limit, acceptor, conns, now, quiet>>

\* The connections of S are closed, and with them their data is gone.
Drop(S) ==
    LET drop(f, v) == [c \in Clients |-> IF c \in S THEN v ELSE f[c]] IN
    /\ where' = drop(where, "closed")
    /\ fd' = drop(fd, None) /\ loop' = drop(loop, None)
    /\ armed' = drop(armed, 0) /\ timeout' = drop(timeout, Expired)
    /\ deadline' = drop(deadline, 0)

\* It is closed after an answer or an error, or because the client did.
Close(c) ==
    /\ where[c] = "served"
    /\ Drop({c})
    /\ UNCHANGED <<limit, acceptor, queue, early, now, quiet>>

\* isValid fails.
Invalid(c) == Clock >= deadline[c]

\* handleExpiredEvent, at the end of an iteration of the loop.
HandleExpired(l) ==
    LET due == {c \in Served(l) : Invalid(c)} IN
    /\ Drop(due)
    /\ early' = (early \/ \E c \in due : now - armed[c] < timeout[c])
    /\ quiet' = [quiet EXCEPT ![l] = 0]
    /\ UNCHANGED <<limit, acceptor, queue, now>>

Tick ==
    /\ now < MaxTime /\ \A l \in Loops : quiet[l] < Delay
    /\ now' = now + 1
    /\ quiet' = [l \in Loops |-> quiet[l] + 1]
    /\ UNCHANGED <<limit, acceptor, conns, timers>>

Init ==
    /\ limit \in Limits
    /\ main = "poll" /\ ready = FALSE /\ deaf = FALSE /\ starved = FALSE
    /\ backlog = <<>>
    /\ where = [c \in Clients |-> "away"]
    /\ fd = [c \in Clients |-> None] /\ loop = [c \in Clients |-> None]
    /\ queue = [l \in Loops |-> <<>>]
    /\ now = 0 /\ quiet = [l \in Loops |-> 0]
    /\ armed = [c \in Clients |-> 0] /\ timeout = [c \in Clients |-> Expired]
    /\ deadline = [c \in Clients |-> 0] /\ early = FALSE

Next ==
    \/ MainStep \/ Tick
    \/ \E c \in Clients : Connect(c) \/ Renew(c) \/ Close(c)
    \/ \E l \in Loops : NewEvent(l) \/ HandleExpired(l)

\* The main thread goes on as long as it has something to do.
Spec == Init /\ [][Next]_vars /\ WF_vars(MainStep)

-----------------------------------------------------------------------------
(* No descriptor that is outside the tables of the Epolls gets into them,  *)
(* no two connections have one, and handNewConn leaks at most one: after   *)
(* it the listening socket is never heard again.                           *)
FdsAccounted ==
    /\ \A c \in Holding : fd[c] \in 0..MAXFDS - 1
    /\ \A c, d \in Holding : fd[c] = fd[d] => c = d
    /\ Cardinality({c \in Clients : where[c] = "leaked"}) = IF deaf THEN 1 ELSE 0

(* A timer closes no connection before its time, and every one that has a  *)
(* timer and is idle for its time and one more epoll_wait; except those    *)
(* whose deadline so delayed would be after the clock started again.       *)
Missed(c) == (armed[c] % Wrap) + timeout[c] + Delay >= Wrap

ClosedInTime ==
    /\ ~early
    /\ \A c \in Clients :
        where[c] = "served" /\ ~Missed(c) => now - armed[c] < timeout[c] + Delay

(* Edge-triggered, the accept loop still leaves no connection waiting,     *)
(* unless it has failed for want of a descriptor or on fcntl.              *)
AllAccepted ==
    \A c \in Clients : where[c] = "backlog" ~> (where[c] # "backlog" \/ deaf \/ starved)
=============================================================================
