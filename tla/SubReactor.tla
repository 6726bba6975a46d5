----------------------------- MODULE SubReactor -----------------------------
(***************************************************************************)
(* The life of the connections of one sub-reactor: the iterations of       *)
(* EventLoop::loop on its thread, with the Epoll wrapper and its tables,   *)
(* the Channel dispatch, the handlers of HttpData and the TimerManager.    *)
(*                                                                         *)
(* The worker's handlers are single actions, since they run on one thread  *)
(* and touch one connection; the clients, the main thread's accept and the *)
(* clock move between them.  A request is a chunk of data; what parsing a  *)
(* chunk yields is chosen among the outcomes the parser can produce.  A    *)
(* duration is a timer that becomes due.                                   *)
(***************************************************************************)
EXTENDS Integers, Sequences, FiniteSets, Functions

CONSTANTS Conns,          \* the connections clients open, each one once
          Fds,            \* the descriptors accept() can return
          MaxChunks,      \* bound: chunks a client sends on a connection
          PartialWrites,  \* may a response exceed the socket's send buffer?
          None

ASSUME SubReactorAssumption ==
    /\ Fds \subseteq Nat
    /\ MaxChunks \in Nat
    /\ PartialWrites \in BOOLEAN
    /\ None \notin Conns \cup Fds

VARIABLES
    pc,         \* the step of loop() the worker is at
    batch,      \* batch[c]: the revents_ of the channels poll() returned
    pending,    \* connections whose newEvent is queued in pendingFunctions_
    http,       \* http[c]: the HttpData and its Channel
    timers,     \* the TimerNodes in the heap that hold an HttpData
    numSocket,  \* num_socket_
    fd2chan,    \* Epoll::fd2chan_
    fd2http,    \* Epoll::fd2http_
    reg,        \* kernel: events an fd is registered for, {} when disabled
    rdy,        \* kernel: the descriptors on epoll's ready list
    sock,       \* kernel and client: the two directions of the connection
    cut         \* history: connections that lost the rest of a response

vars == <<pc, batch, pending, http, timers, numSocket, fd2chan, fd2http, reg,
          rdy, sock, cut>>
tables == <<numSocket, fd2chan, fd2http>>
kernel == <<reg, rdy>>

Bits == {"IN", "OUT", "ET", "ONESHOT"}
DEFAULT_EVENT == {"IN", "ET", "ONESHOT"}
\* Mutant: the line of handleConn that is commented out, with EPOLLONESHOT.
KeepAliveOneShot == DEFAULT_EVENT
KeepAliveEvents == {"IN", "ET"}
Chunks == {"request", "piece"}
Outcomes == {"again", "bad", "answer"}
Written == {"all", "part", "error"}

HttpData == [fd : Fds, conn : {"connected", "disconnecting", "disconnected"},
             state : {"uri", "headers"}, error : BOOLEAN, keepAlive : BOOLEAN,
             events : SUBSET Bits, last : SUBSET Bits]
TimerNode == [conn : Conns, due : BOOLEAN, linked : BOOLEAN]
Socket == [data : Seq(Chunks), sent : 0..MaxChunks, fin : BOOLEAN,
           rst : BOOLEAN, full : BOOLEAN]

\* No object, and no registration, is told apart from any that exists.
ASSUME NoneAssumption ==
    /\ None \notin HttpData
    /\ \A e \in SUBSET Bits : e # None

TypeOK ==
    /\ pc \in {"poll", "handle", "pending", "expire"}
    /\ DOMAIN batch \subseteq Conns
    /\ \A c \in DOMAIN batch : batch[c] \subseteq {"IN", "OUT", "ERR"}
    /\ pending \in Seq(Conns)
    /\ http \in [Conns -> HttpData \cup {None}]
    /\ timers \subseteq TimerNode
    /\ numSocket \in Nat
    /\ fd2chan \in [Fds -> Conns \cup {None}]
    /\ fd2http \in [Fds -> Conns \cup {None}]
    /\ reg \in [Fds -> (SUBSET Bits) \cup {None}]
    /\ rdy \subseteq Fds
    /\ sock \in [Conns -> Socket]
    /\ cut \subseteq Conns

NoBatch == [c \in {} |-> {}]

Init ==
    /\ pc = "poll"
    /\ batch = NoBatch
    /\ pending = <<>>
    /\ http = [c \in Conns |-> None]
    /\ timers = {}
    /\ numSocket = 0
    /\ fd2chan = [f \in Fds |-> None] /\ fd2http = [f \in Fds |-> None]
    /\ reg = [f \in Fds |-> None] /\ rdy = {}
    /\ sock = [c \in Conns |-> [data |-> <<>>, sent |-> 0, fin |-> FALSE,
                                rst |-> FALSE, full |-> FALSE]]
    /\ cut = {}

-----------------------------------------------------------------------------
(* The HttpData of c exists while a shared_ptr holds it: fd2http_, a timer *)
(* node or the bound newEvent.  Its destructor closes the descriptor.      *)
Holds(tab, nodes, queue) ==
    Range(tab) \cup {n.conn : n \in nodes} \cup Range(queue)
Held == Holds(fd2http, timers, pending) \ {None}
Accepted(c) == http[c] # None
Open(c) == c \in Held
Closed(c) == Accepted(c) /\ ~Open(c)
FdOf(c) == http[c].fd

-----------------------------------------------------------------------------
(* epoll, edge-triggered.                                                  *)

\* What the kernel can report of a socket.
Mask(k) == (IF k.data # <<>> \/ k.fin \/ k.rst THEN {"IN"} ELSE {}) \cup
           (IF ~k.full \/ k.rst THEN {"OUT"} ELSE {}) \cup
           (IF k.rst THEN {"ERR"} ELSE {})

\* What epoll_wait reports of it under interest set e; nothing when disabled.
Reported(k, e) == IF e \in {None, {}} THEN {} ELSE Mask(k) \cap (e \cup {"ERR"})

\* ADD and MOD look at the socket once; later only edges make it ready.
Arm(r, f, k, e) == IF Reported(k, e) # {} THEN r \cup {f} ELSE r \ {f}

\* An edge on the socket of c: new data, end of stream, reset or room to write.
Edge(c, bits) ==
    IF /\ Open(c) /\ reg[FdOf(c)] \notin {None, {}}
       /\ bits \cap (reg[FdOf(c)] \cup {"ERR"}) # {}
    THEN rdy' = rdy \cup {FdOf(c)}
    ELSE UNCHANGED rdy

-----------------------------------------------------------------------------
(* The clients, the main thread and the clock.                             *)

Worker == <<pc, batch>>
AllBut == <<http, timers, numSocket, fd2chan, fd2http, reg, cut>>

(* handNewConn, for one connection whose descriptor is in range and could  *)
(* be made non-blocking: accept returns the lowest free descriptor; the    *)
(* task that runs newEvent is queued.                                      *)
Accept(c) ==
    LET free == Fds \ {FdOf(d) : d \in Held}
    IN  /\ ~Accepted(c) /\ free # {}
        /\ http' = [http EXCEPT ![c] =
             [fd |-> CHOOSE f \in free : \A g \in free : f <= g,
              conn |-> "connected", state |-> "uri", error |-> FALSE,
              keepAlive |-> FALSE, events |-> DEFAULT_EVENT, last |-> {}]]
        /\ pending' = Append(pending, c)
        /\ UNCHANGED <<Worker, timers, tables, kernel, sock, cut>>

\* The client sends a whole request, or a piece that is not one.
Send(c, chunk) ==
    /\ Accepted(c) /\ ~sock[c].fin /\ ~sock[c].rst
    /\ sock[c].sent < MaxChunks
    /\ sock' = [sock EXCEPT ![c] =
                 [sock[c] EXCEPT !.data = Append(@, chunk), !.sent = @ + 1]]
    /\ Edge(c, {"IN"})
    /\ UNCHANGED <<Worker, pending, AllBut>>

\* The client closes its sending direction.
ClientClose(c) ==
    /\ Accepted(c) /\ ~sock[c].fin /\ ~sock[c].rst
    /\ sock' = [sock EXCEPT ![c] = [@ EXCEPT !.fin = TRUE]]
    /\ Edge(c, {"IN"})
    /\ UNCHANGED <<Worker, pending, AllBut>>

\* The connection is reset.
ClientReset(c) ==
    /\ Accepted(c) /\ ~sock[c].rst
    /\ sock' = [sock EXCEPT ![c] = [@ EXCEPT !.rst = TRUE]]
    /\ Edge(c, {"IN", "OUT", "ERR"})
    /\ UNCHANGED <<Worker, pending, AllBut>>

\* The client reads, so a full send buffer has room again.
Drain(c) ==
    /\ sock[c].full
    /\ sock' = [sock EXCEPT ![c] = [@ EXCEPT !.full = FALSE]]
    /\ Edge(c, {"OUT"})
    /\ UNCHANGED <<Worker, pending, AllBut>>

\* The timeout of a timer node has passed.
Elapse(c) ==
    /\ \E n \in timers :
         /\ n.conn = c /\ ~n.due
         /\ timers' = (timers \ {n}) \cup {[n EXCEPT !.due = TRUE]}
    /\ UNCHANGED <<Worker, pending, http, tables, kernel, sock, cut>>

-----------------------------------------------------------------------------
(* The worker: Epoll::poll.                                                *)

(* The whole ready list is returned, or nothing (a wake-up, the timeout).  *)
(* A channel found in fd2chan_ gets its revents and loses its events; a    *)
(* one-shot registration is disabled.                                      *)
Poll ==
    LET rep(f) == LET c == CHOOSE c \in Held : FdOf(c) = f
                  IN  Reported(sock[c], reg[f])
        hit == {f \in rdy : rep(f) # {}}
        got == {c \in Conns : \E f \in hit : fd2chan[f] = c}
    IN  /\ pc = "poll"
        /\ pc' = "handle"
        /\ batch' = [c \in got |-> rep(FdOf(c))]
        /\ http' = [c \in Conns |-> IF c \in got THEN [http[c] EXCEPT !.events = {}]
                                                 ELSE http[c]]
        /\ reg' = [f \in Fds |-> IF f \in hit /\ "ONESHOT" \in reg[f] THEN {} ELSE reg[f]]
        /\ rdy' = {}
        /\ UNCHANGED <<pending, timers, tables, sock, cut>>

-----------------------------------------------------------------------------
(* The worker: the handlers.                                               *)

\* Mutant: seperateTimer does not reach the node.
SeparateForgotten(c) == timers
\* seperateTimer: the linked node releases the HttpData and stays in the heap.
Separate(c) == {n \in timers : ~(n.conn = c /\ n.linked)}

\* Mutant: the new timer is not armed.
AddTimerForgotten(nodes, c) == nodes
\* addTimer: a new node, which becomes the linked one.
AddTimer(nodes, c) ==
    {IF n.conn = c THEN [n EXCEPT !.linked = FALSE] ELSE n : n \in nodes}
    \cup {[conn |-> c, due |-> FALSE, linked |-> TRUE]}

\* Mutant: the channel stays in fd2chan_.
RemoveLeavesChannel(f) ==
    /\ reg' = [reg EXCEPT ![f] = None] /\ rdy' = rdy \ {f}
    /\ fd2http' = [fd2http EXCEPT ![f] = None] /\ UNCHANGED fd2chan
    /\ numSocket' = numSocket - 1
\* removeFromPoller: epoll_del, then the count.
RemoveFromPoller(f) ==
    /\ reg' = [reg EXCEPT ![f] = None] /\ rdy' = rdy \ {f}
    /\ fd2chan' = [fd2chan EXCEPT ![f] = None]
    /\ fd2http' = [fd2http EXCEPT ![f] = None]
    /\ numSocket' = numSocket - 1

(* handleClose; the object goes when its last holder does, which closes    *)
(* the descriptor.                                                         *)
Close(c, h, nodes) ==
    /\ http' = [http EXCEPT ![c] = [h EXCEPT !.conn = "disconnected"]]
    /\ timers' = nodes
    /\ RemoveFromPoller(h.fd)

\* updatePoller: the timer, and epoll_ctl MOD only when the events changed.
Update(c, h, k, nodes) ==
    /\ http' = [http EXCEPT ![c] = [h EXCEPT !.last = h.events]]
    /\ timers' = AddTimer(nodes, c)
    /\ IF h.events = h.last THEN UNCHANGED <<kernel, fd2chan>>
       ELSE IF reg[h.fd] = None
            THEN fd2chan' = [fd2chan EXCEPT ![h.fd] = None] /\ UNCHANGED kernel
            ELSE /\ reg' = [reg EXCEPT ![h.fd] = h.events]
                 /\ rdy' = Arm(rdy, h.fd, k, h.events)
                 /\ UNCHANGED fd2chan
    /\ UNCHANGED <<numSocket, fd2http>>

\* handleConn, after the read or the write left the connection as h.
HandleConn(c, h, k) ==
    LET nodes == Separate(c)
        ok == ~h.error
    IN  IF ok /\ h.conn = "connected" /\ h.events # {}
        THEN Update(c, [h EXCEPT !.events = IF {"IN", "OUT"} \subseteq @
                                            THEN {"OUT", "ET"} ELSE @ \cup {"ET"}],
                    k, nodes)
        ELSE IF ok /\ h.conn = "connected" /\ h.keepAlive
        THEN Update(c, [h EXCEPT !.events = KeepAliveEvents], k, nodes)
        ELSE IF ok /\ h.conn = "disconnecting" /\ "OUT" \in h.events
        THEN /\ http' = [http EXCEPT ![c] = [h EXCEPT !.events = {"OUT", "ET"}]]
             /\ timers' = nodes
             /\ UNCHANGED <<tables, kernel>>
        ELSE Close(c, h, nodes)

(* handleWrite with something to send: a failed write is an error, a       *)
(* response that does not fit leaves the rest in outBuffer_.               *)
HandleWrite(h, written) ==
    CASE written = "error" -> [h EXCEPT !.error = TRUE, !.events = {"OUT"}]
      [] written = "part" -> [h EXCEPT !.events = @ \cup {"OUT"}]
      [] OTHER -> h

CanWrite(k, written) ==
    \/ written = "error"
    \/ written = "part" /\ (PartialWrites \/ k.full)
    \/ written = "all" /\ ~k.full

(* What parsing what was read can give: a whole request at the start of a  *)
(* message is answered or refused; anything else may also need more data.  *)
CanParse(h, k, outcome) ==
    outcome = "again" => h.state = "headers" \/ Head(k.data) # "request"

\* readn gave the connection k's data: the parse and what follows it.
AfterParse(h, outcome, keep, written) ==
    CASE outcome = "again" -> [h EXCEPT !.state = "headers"]
      [] outcome = "bad" -> [h EXCEPT !.error = TRUE]
      [] OTHER ->
           LET w == HandleWrite([h EXCEPT !.keepAlive = @ \/ keep], written)
           IN  [w EXCEPT !.state = "uri"]

(* Channel::handleEvents: a reset, or a hang-up without data, is dropped   *)
(* here; the timer stays armed.                                            *)
HandleNothing(c) ==
    /\ c \in DOMAIN batch /\ "ERR" \in batch[c]
    /\ http' = [http EXCEPT ![c] = [@ EXCEPT !.events = {}]]
    /\ UNCHANGED <<timers, tables, kernel, sock, cut>>

(* handleRead, then handleConn.  readn takes everything there is; what it  *)
(* returns and the state of the connection decide how far handleRead goes. *)
AfterRead(c) == [sock[c] EXCEPT !.data = <<>>]
Readable(c) == c \in DOMAIN batch /\ "ERR" \notin batch[c] /\ "IN" \in batch[c]

\* The client had closed its side already: what was read is dropped.
ReadAfterClose(c) ==
    /\ Readable(c) /\ http[c].conn = "disconnecting"
    /\ sock' = [sock EXCEPT ![c] = AfterRead(c)]
    /\ HandleConn(c, [http[c] EXCEPT !.events = {}], AfterRead(c))
    /\ UNCHANGED cut

\* A reset that arrived after epoll_wait: readn fails.
ReadFails(c) ==
    /\ Readable(c) /\ http[c].conn = "connected" /\ sock[c].rst
    /\ sock' = [sock EXCEPT ![c] = AfterRead(c)]
    /\ HandleConn(c, [http[c] EXCEPT !.events = {}, !.error = TRUE], AfterRead(c))
    /\ UNCHANGED cut

\* End of stream and nothing before it.
ReadEnd(c) ==
    /\ Readable(c) /\ http[c].conn = "connected" /\ ~sock[c].rst
    /\ sock[c].fin /\ sock[c].data = <<>>
    /\ HandleConn(c, [http[c] EXCEPT !.events = {}, !.conn = "disconnecting"], sock[c])
    /\ UNCHANGED <<sock, cut>>

(* Data, perhaps with the end of the stream behind it.  outcome, keep and  *)
(* written are the parser's, the request's and the socket's choices.       *)
(* handleRead clears outBuffer_, sent or not, and reset() inBuffer_, so    *)
(* what was read behind the answered request is gone too.                  *)
ReadRequest(c, outcome, keep, written) ==
    LET h == [http[c] EXCEPT !.events = {},
                !.conn = IF sock[c].fin THEN "disconnecting" ELSE @]
        k == [AfterRead(c) EXCEPT !.full = @ \/ written = "part",
                                  !.rst = written = "error"]
    IN  /\ Readable(c) /\ http[c].conn = "connected" /\ ~sock[c].rst
        /\ sock[c].data # <<>>
        /\ CanParse(h, sock[c], outcome)
        /\ IF outcome = "answer" THEN CanWrite(sock[c], written)
                                 ELSE ~keep /\ written = "all"
        /\ sock' = [sock EXCEPT ![c] = k]
        /\ HandleConn(c, AfterParse(h, outcome, keep, written), k)
        /\ cut' = IF written = "part" THEN cut \cup {c} ELSE cut

HandleRead(c) ==
    \/ ReadAfterClose(c) \/ ReadFails(c) \/ ReadEnd(c)
    \/ \E outcome \in Outcomes, keep \in BOOLEAN, written \in Written :
           ReadRequest(c, outcome, keep, written)

(* handleWrite finds outBuffer_ empty, since handleRead cleared it, and    *)
(* writes nothing; then handleConn.                                        *)
HandleOut(c) ==
    /\ c \in DOMAIN batch /\ "OUT" \in batch[c] /\ batch[c] \cap {"IN", "ERR"} = {}
    /\ HandleConn(c, [http[c] EXCEPT !.events = {}], sock[c])
    /\ UNCHANGED <<sock, cut>>

HandleEvents(c) ==
    /\ pc = "handle"
    /\ HandleNothing(c) \/ HandleRead(c) \/ HandleOut(c)
    /\ batch' = [d \in DOMAIN batch \ {c} |-> batch[d]]
    /\ UNCHANGED <<pc, pending>>

-----------------------------------------------------------------------------
(* The worker: the rest of an iteration.                                   *)

\* Mutant: the loop over the returned channels is left early.
EventsDoneEarly ==
    /\ pc = "handle"
    /\ pc' = "pending"
    /\ UNCHANGED <<batch, pending, http, timers, tables, kernel, sock, cut>>
EventsDone ==
    /\ pc = "handle" /\ DOMAIN batch = {}
    /\ pc' = "pending"
    /\ UNCHANGED <<batch, pending, http, timers, tables, kernel, sock, cut>>

(* doPendingFunctions runs newEvent for every queued connection: timer and *)
(* fd2http_ first, then the registration, which may fail.                  *)
DoPending(failed) ==
    LET new == Range(pending)
        at(f) == CHOOSE c \in new : FdOf(c) = f
        fds == {FdOf(c) : c \in new}
        added == {f \in fds : at(f) \notin failed}
    IN  /\ pc = "pending" /\ failed \subseteq new
        /\ pc' = "expire"
        /\ pending' = <<>>
        /\ http' = [c \in Conns |-> IF c \in new THEN [http[c] EXCEPT !.last = http[c].events]
                                                 ELSE http[c]]
        /\ timers' = timers \cup {[conn |-> c, due |-> FALSE, linked |-> TRUE] : c \in new}
        /\ fd2http' = [f \in Fds |-> IF f \in fds THEN at(f) ELSE fd2http[f]]
        /\ fd2chan' = [f \in Fds |-> IF f \in added THEN at(f)
                                     ELSE IF f \in fds THEN None ELSE fd2chan[f]]
        /\ reg' = [f \in Fds |-> IF f \in added THEN http[at(f)].events ELSE reg[f]]
        /\ rdy' = rdy \cup {f \in added : Reported(sock[at(f)], http[at(f)].events) # {}}
        /\ numSocket' = numSocket + Cardinality(new)
        /\ UNCHANGED <<batch, sock, cut>>

(* handleExpiredEvent pops every node that is due; destroying one that     *)
(* still holds an HttpData closes the connection.                          *)
HandleExpired ==
    LET due == {n \in timers : n.due}
        gone == {n.conn : n \in due}
        fds == {FdOf(c) : c \in gone}
    IN  /\ pc = "expire"
        /\ pc' = "poll"
        /\ timers' = timers \ due
        /\ http' = [c \in Conns |-> IF c \in gone
                                    THEN [http[c] EXCEPT !.conn = "disconnected"]
                                    ELSE http[c]]
        /\ reg' = [f \in Fds |-> IF f \in fds THEN None ELSE reg[f]]
        /\ rdy' = rdy \ fds
        /\ fd2chan' = [f \in Fds |-> IF f \in fds THEN None ELSE fd2chan[f]]
        /\ fd2http' = [f \in Fds |-> IF f \in fds THEN None ELSE fd2http[f]]
        /\ numSocket' = numSocket - Cardinality(due)
        /\ UNCHANGED <<batch, pending, sock, cut>>

-----------------------------------------------------------------------------
WorkerStep ==
    \/ Poll
    \/ \E c \in Conns : HandleEvents(c)
    \/ EventsDone
    \/ \E failed \in SUBSET Conns : DoPending(failed)
    \/ HandleExpired

Client(c) ==
    \/ \E chunk \in Chunks : Send(c, chunk)
    \/ ClientClose(c) \/ ClientReset(c) \/ Drain(c)

Next == WorkerStep \/ \E c \in Conns : Accept(c) \/ Client(c) \/ Elapse(c)

Spec == Init /\ [][Next]_vars

\* The worker's thread is scheduled, epoll_wait times out, and time passes.
FairSpec ==
    Spec /\ WF_vars(WorkerStep) /\ \A c \in Conns : WF_vars(Elapse(c))
-----------------------------------------------------------------------------
(* The properties.                                                         *)

TimersOf(c) == {n \in timers : n.conn = c}

(* The connection the code loses track of: the client closed its side and  *)
(* the rest of a response was waiting; handleConn then sets the events of  *)
(* the channel but neither registers them nor arms a timer.                *)
Stuck(c) == /\ Open(c) /\ http[c].conn = "disconnecting"
            /\ c \in cut /\ TimersOf(c) = {}

(* An open connection that the worker has registered has exactly one timer *)
(* holding it, the one timer_ points to, so it will time out, and a node   *)
(* left behind never closes it early; only a stuck connection has none.    *)
OneDeadline ==
    \A c \in Held \ Range(pending) :
        \/ Cardinality(TimersOf(c)) = 1 /\ \A n \in TimersOf(c) : n.linked
        \/ Stuck(c)

(* The tables of Epoll follow the life of the objects: an entry is an open *)
(* connection under its own descriptor, the kernel is registered for it    *)
(* exactly while fd2chan_ has it, and num_socket_ counts the connections,  *)
(* across descriptors that are closed and returned by accept again.        *)
TablesFollowLife ==
    /\ \A f \in Fds : fd2http[f] # None => /\ Open(fd2http[f])
                                           /\ FdOf(fd2http[f]) = f
                                           /\ http[fd2http[f]].conn # "disconnected"
    /\ \A f \in Fds : /\ fd2chan[f] \in {fd2http[f], None}
                      /\ reg[f] = None <=> fd2chan[f] = None
                      /\ f \in rdy => reg[f] # None
    /\ numSocket = Cardinality({f \in Fds : fd2http[f] # None})

(* A channel that poll returned still has its HttpData, and its table      *)
(* entry, when its handlers run: none of the handlers that run before it   *)
(* in the batch, and no other thread, destroys it or reuses its descriptor.*)
BatchAlive ==
    \A c \in DOMAIN batch : Open(c) /\ fd2chan[FdOf(c)] = c

(* No connection goes deaf under EPOLLET: whenever the worker waits, what  *)
(* the kernel is registered for is what the channel believes, and anything *)
(* it could report of the socket is on the ready list.  A reset one, and a *)
(* stuck one, waits for its timer or for nothing.                          *)
NothingUnheard ==
    pc = "poll" =>
        \A c \in Held : (reg[FdOf(c)] # None /\ ~sock[c].rst /\ ~Stuck(c)) =>
            /\ reg[FdOf(c)] = http[c].last
            /\ Reported(sock[c], http[c].last) # {} => FdOf(c) \in rdy

(* Every accepted connection is closed in the end, by its client, by the   *)
(* end of a short connection, by an error or by its timer, unless stuck.   *)
EventuallyClosed == \A c \in Conns : Accepted(c) ~> Closed(c) \/ Stuck(c)

(* README.md: the server supports closing by the client and closing by     *)
(* timeout.  A client that closes its side sees the connection closed.     *)
ClientCloseHonoured == \A c \in Conns : Accepted(c) /\ sock[c].fin ~> Closed(c)

(* HttpData.cpp: if there is data to send, it is sent.  No response loses  *)
(* the part that did not fit the send buffer.                              *)
ResponsesComplete == cut = {}
=============================================================================
