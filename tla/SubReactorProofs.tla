-------------------------- MODULE SubReactorProofs --------------------------
(***************************************************************************)
(* Proofs about SubReactor, for any connections, descriptors and amount of *)
(* data: its types, the tables, the timers, the batch and what is heard.   *)
(***************************************************************************)
EXTENDS SubReactor, LeastNatural, FiniteSetTheorems, TLAPS

(* What fd2http_ holds is the live connection of that descriptor.          *)
Entries ==
    \A f \in Fds : fd2http[f] # None =>
        /\ http[fd2http[f]] # None
        /\ FdOf(fd2http[f]) = f
        /\ http[fd2http[f]].conn # "disconnected"

(* A connection that waits for its newEvent is new, its descriptor is its  *)
(* own and is in no table.                                                 *)
Queued ==
    \A c \in Range(pending) :
        /\ http[c] # None
        /\ http[c].conn = "connected"
        /\ fd2http[FdOf(c)] = None
        /\ \A d \in Range(pending) : FdOf(c) = FdOf(d) => c = d

(* A timer node that holds an HttpData is the linked one, and the only one *)
(* of a connection that is in the table.                                   *)
Nodes ==
    \A n \in timers :
        /\ http[n.conn] # None
        /\ fd2http[FdOf(n.conn)] = n.conn
        /\ n.linked
        /\ \A m \in timers : n.conn = m.conn => n = m

(* What is in the table has a timer, or has lost its client and the rest   *)
(* of a response.                                                          *)
Deadlines ==
    \A f \in Fds : fd2http[f] # None =>
        \/ \E n \in timers : n.conn = fd2http[f]
        \/ http[fd2http[f]].conn = "disconnecting" /\ fd2http[f] \in cut

Registered ==
    \A f \in Fds :
        /\ fd2chan[f] \in {fd2http[f], None}
        /\ reg[f] = None <=> fd2chan[f] = None
        /\ f \in rdy => reg[f] # None

Tracked(tab) == {f \in Fds : tab[f] # None}
Counted ==
    /\ IsFiniteSet(Tracked(fd2http))
    /\ numSocket = Cardinality(Tracked(fd2http))

InBatch ==
    /\ pc # "handle" => DOMAIN batch = {}
    /\ \A c \in DOMAIN batch : http[c] # None /\ fd2chan[FdOf(c)] = c

(* The inductive invariant.                                                *)
SubReactorInv ==
    /\ TypeOK
    /\ Entries /\ Queued /\ Nodes /\ Deadlines
    /\ Registered /\ Counted /\ InBatch

-----------------------------------------------------------------------------
(* An accepted connection has the fields of an HttpData.                   *)
LEMMA HttpFields ==
  ASSUME NEW h \in HttpData
  PROVE  /\ h # None
         /\ h.fd \in Fds /\ h.conn \in {"connected", "disconnecting", "disconnected"}
         /\ h.state \in {"uri", "headers"} /\ h.error \in BOOLEAN /\ h.keepAlive \in BOOLEAN
         /\ h.events \subseteq Bits /\ h.last \subseteq Bits
BY NoneAssumption DEF HttpData

LEMMA HttpOf ==
  ASSUME TypeOK, NEW c \in Conns, http[c] # None
  PROVE  http[c] \in HttpData /\ FdOf(c) \in Fds
<1>1. http[c] \in HttpData
  BY DEF TypeOK
<1> QED BY <1>1, HttpFields DEF FdOf

(* A registration is a set of events and not the absence of one.           *)
LEMMA EventsNotNone ==
  ASSUME NEW e \in SUBSET Bits
  PROVE  e # None
BY NoneAssumption

LEMMA QueueRange ==
  ASSUME TypeOK
  PROVE  /\ Range(pending) \subseteq Conns
         /\ IsFiniteSet(Range(pending))
         /\ \A c \in Conns : Range(Append(pending, c)) = Range(pending) \cup {c}
<1>1. pending \in Seq(Conns) /\ Len(pending) \in Nat /\ DOMAIN pending = 1..Len(pending)
  BY DEF TypeOK
<1>2. Range(pending) = {pending[i] : i \in 1..Len(pending)}
  BY <1>1 DEF Range
<1>3. Range(pending) \subseteq Conns
  BY <1>1, <1>2
<1>4. IsFiniteSet(Range(pending))
  <2>1. IsFiniteSet(1..Len(pending))
    BY <1>1, FS_Interval
  <2>2. [i \in 1..Len(pending) |-> pending[i]] \in Surjection(1..Len(pending), Range(pending))
    BY <1>2 DEF Surjection
  <2> QED BY <2>1, <2>2, FS_Surjection
<1>5. ASSUME NEW c \in Conns PROVE Range(Append(pending, c)) = Range(pending) \cup {c}
  <2> DEFINE q == Append(pending, c)
  <2>1. /\ DOMAIN q = 1..Len(pending) + 1
        /\ \A i \in 1..Len(pending) : q[i] = pending[i]
        /\ q[Len(pending) + 1] = c
    BY <1>1
  <2>2. Range(q) = {q[i] : i \in 1..Len(pending) + 1}
    BY <2>1 DEF Range
  <2>3. 1..Len(pending) + 1 = (1..Len(pending)) \cup {Len(pending) + 1}
    BY <1>1
  <2>4. {q[i] : i \in 1..Len(pending) + 1} = {q[i] : i \in 1..Len(pending)} \cup {q[Len(pending) + 1]}
    <3> HIDE DEF q
    <3> QED BY <2>3
  <2>5. {q[i] : i \in 1..Len(pending)} = {pending[i] : i \in 1..Len(pending)}
    <3> HIDE DEF q
    <3> QED BY <2>1
  <2>6. Range(q) = Range(pending) \cup {c}
    <3> HIDE DEF q
    <3> QED BY <1>2, <2>1, <2>2, <2>4, <2>5
  <2> QED BY <2>6
<1> QED BY <1>3, <1>4, <1>5

(* Who is held, and what that says of the descriptors.                     *)
LEMMA HeldIs ==
  ASSUME SubReactorInv
  PROVE  /\ Held = {c \in Conns : http[c] # None /\ fd2http[FdOf(c)] = c} \cup Range(pending)
         /\ Held \subseteq Conns
         /\ \A c \in Held : http[c] # None /\ FdOf(c) \in Fds
         /\ \A c, d \in Held : FdOf(c) = FdOf(d) => c = d
<1> USE SubReactorAssumption DEF SubReactorInv
<1> DEFINE T == {c \in Conns : http[c] # None /\ fd2http[FdOf(c)] = c}
           N == {n.conn : n \in timers}
<1>1. Range(pending) \subseteq Conns
  BY QueueRange
<1>2. fd2http \in [Fds -> Conns \cup {None}] /\ timers \subseteq TimerNode
  BY DEF TypeOK
<1>3. Range(fd2http) = {fd2http[f] : f \in Fds}
  BY <1>2 DEF Range
<1>4. N \subseteq T
  BY <1>2 DEF Nodes, TimerNode
<1>5. Range(fd2http) \ {None} \subseteq T
  BY <1>2, <1>3 DEF Entries
<1>6. T \subseteq Range(fd2http)
  BY <1>3, HttpOf
<1>7. Held = T \cup Range(pending)
  <2>1. Held = (Range(fd2http) \cup N \cup Range(pending)) \ {None}
    BY DEF Held, Holds
  <2>2. None \notin Range(pending) /\ None \notin T
    BY <1>1
  <2> HIDE DEF T, N
  <2> QED BY <1>4, <1>5, <1>6, <2>1, <2>2
<1>8. \A c \in Held : c \in Conns /\ http[c] # None
  BY <1>1, <1>7 DEF Queued
<1>9. \A c \in Held : FdOf(c) \in Fds
  BY <1>8, HttpOf
<1>10. ASSUME NEW c \in Held, NEW d \in Held, FdOf(c) = FdOf(d) PROVE c = d
  <2>1. None \notin Conns
    OBVIOUS
  <2> QED BY <1>7, <1>8, <1>10, <2>1 DEF Queued
<1> QED BY <1>7, <1>8, <1>9, <1>10

-----------------------------------------------------------------------------
LEMMA InitInv == Init => SubReactorInv
<1> SUFFICES ASSUME Init PROVE SubReactorInv
  OBVIOUS
<1> USE SubReactorAssumption
<1>1. pending = <<>> /\ Range(pending) = {}
  BY DEF Init, Range
<1>2. DOMAIN batch = {}
  BY DEF Init, NoBatch
<1>3. TypeOK
  <2>1. sock \in [Conns -> Socket]
    BY DEF Init, Socket, Chunks
  <2>2. numSocket \in Nat /\ pending \in Seq(Conns) /\ pc = "poll" /\ timers = {} /\ rdy = {} /\ cut = {}
    BY DEF Init
  <2>3. /\ http \in [Conns -> HttpData \cup {None}]
        /\ fd2chan \in [Fds -> Conns \cup {None}]
        /\ fd2http \in [Fds -> Conns \cup {None}]
        /\ reg \in [Fds -> (SUBSET Bits) \cup {None}]
    BY DEF Init
  <2> QED BY <1>2, <2>1, <2>2, <2>3 DEF TypeOK
<1>4. Counted
  <2>1. Tracked(fd2http) = {}
    BY DEF Init, Tracked
  <2> QED BY <2>1, FS_EmptySet DEF Init, Counted
<1>5. Entries /\ Deadlines /\ Registered /\ Nodes
  BY DEF Init, Entries, Deadlines, Registered, Nodes
<1>6. Queued /\ InBatch
  BY <1>1, <1>2 DEF Queued, InBatch
<1> QED BY <1>3, <1>4, <1>5, <1>6 DEF SubReactorInv

(* The clients.                                                            *)

\* A step of a client touches its socket and may make the descriptor ready.
LEMMA SocketStep ==
  ASSUME SubReactorInv, NEW c \in Conns, NEW k \in Socket, NEW bits,
         sock' = [sock EXCEPT ![c] = k], Edge(c, bits),
         UNCHANGED <<Worker, pending, AllBut>>
  PROVE  SubReactorInv'
<1> USE DEF Worker, AllBut
<1>1. TypeOK
  BY DEF SubReactorInv
<1>2. \/ rdy' = rdy
      \/ FdOf(c) \in Fds /\ reg[FdOf(c)] # None /\ rdy' = rdy \cup {FdOf(c)}
  BY HeldIs DEF Edge, Open
<1>3. TypeOK'
  <2>1. sock' \in [Conns -> Socket] /\ rdy' \subseteq Fds
    BY <1>1, <1>2 DEF TypeOK
  <2> QED BY <1>1, <2>1 DEF TypeOK
<1>4. Registered'
  BY <1>2 DEF SubReactorInv, Registered
<1>5. Entries' /\ Queued' /\ Nodes' /\ Deadlines'
  BY DEF SubReactorInv, Entries, Queued, Nodes, Deadlines, FdOf
<1>6. Counted' /\ InBatch'
  BY DEF SubReactorInv, Counted, Tracked, InBatch, FdOf
<1> QED BY <1>3, <1>4, <1>5, <1>6 DEF SubReactorInv

LEMMA ClientInv ==
  ASSUME SubReactorInv, NEW c \in Conns, Client(c)
  PROVE  SubReactorInv'
<1> USE SubReactorAssumption
<1>1. sock[c] \in Socket
  BY DEF SubReactorInv, TypeOK
<1>2. CASE \E chunk \in Chunks : Send(c, chunk)
  <2>1. PICK chunk \in Chunks : Send(c, chunk)
    BY <1>2
  <2> DEFINE k == [sock[c] EXCEPT !.data = Append(@, chunk), !.sent = @ + 1]
  <2>2. k \in Socket
    <3>1. /\ sock[c].data \in Seq(Chunks) /\ sock[c].sent \in 0..MaxChunks
          /\ sock[c].sent < MaxChunks
      BY <1>1, <2>1 DEF Send, Socket
    <3>2. Append(sock[c].data, chunk) \in Seq(Chunks) /\ sock[c].sent + 1 \in 0..MaxChunks
      BY <3>1
    <3> QED BY <1>1, <3>2 DEF Socket
  <2>3. /\ sock' = [sock EXCEPT ![c] = k] /\ Edge(c, {"IN"})
        /\ UNCHANGED <<Worker, pending, AllBut>>
    BY <2>1 DEF Send
  <2> HIDE DEF k
  <2> QED BY <2>2, <2>3, SocketStep
<1>3. CASE ClientClose(c)
  <2> DEFINE k == [sock[c] EXCEPT !.fin = TRUE]
  <2>1. k \in Socket
    BY <1>1 DEF Socket
  <2>2. /\ sock' = [sock EXCEPT ![c] = k] /\ Edge(c, {"IN"})
        /\ UNCHANGED <<Worker, pending, AllBut>>
    BY <1>3 DEF ClientClose
  <2> HIDE DEF k
  <2> QED BY <2>1, <2>2, SocketStep
<1>4. CASE ClientReset(c)
  <2> DEFINE k == [sock[c] EXCEPT !.rst = TRUE]
  <2>1. k \in Socket
    BY <1>1 DEF Socket
  <2>2. /\ sock' = [sock EXCEPT ![c] = k] /\ Edge(c, {"IN", "OUT", "ERR"})
        /\ UNCHANGED <<Worker, pending, AllBut>>
    BY <1>4 DEF ClientReset
  <2> HIDE DEF k
  <2> QED BY <2>1, <2>2, SocketStep
<1>5. CASE Drain(c)
  <2> DEFINE k == [sock[c] EXCEPT !.full = FALSE]
  <2>1. k \in Socket
    BY <1>1 DEF Socket
  <2>2. /\ sock' = [sock EXCEPT ![c] = k] /\ Edge(c, {"OUT"})
        /\ UNCHANGED <<Worker, pending, AllBut>>
    BY <1>5 DEF Drain
  <2> HIDE DEF k
  <2> QED BY <2>1, <2>2, SocketStep
<1> QED BY <1>2, <1>3, <1>4, <1>5 DEF Client

-----------------------------------------------------------------------------
(* The main thread and the clock.                                          *)

LEMMA AcceptInv ==
  ASSUME SubReactorInv, NEW c \in Conns, Accept(c)
  PROVE  SubReactorInv'
<1> USE SubReactorAssumption
<1> DEFINE free == Fds \ {FdOf(d) : d \in Held}
           f0 == CHOOSE f \in free : \A g \in free : f <= g
           h0 == [fd |-> f0, conn |-> "connected", state |-> "uri", error |-> FALSE,
                  keepAlive |-> FALSE, events |-> DEFAULT_EVENT, last |-> {}]
<1>1. TypeOK
  BY DEF SubReactorInv
<1>2. /\ http[c] = None /\ free # {}
      /\ http' = [http EXCEPT ![c] = h0]
      /\ pending' = Append(pending, c)
      /\ UNCHANGED <<pc, batch, timers, numSocket, fd2chan, fd2http, reg, rdy, sock, cut>>
  BY DEF Accept, Accepted, Worker, tables, kernel
<1>3. f0 \in Fds /\ \A d \in Held : FdOf(d) # f0
  <2>1. f0 \in free
    <3>1. free \in SUBSET Nat
      OBVIOUS
    <3> HIDE DEF free
    <3> QED BY <1>2, <3>1, LeastExists
  <2> HIDE DEF f0
  <2> QED BY <2>1
<1> HIDE DEF f0
<1>4. h0 \in HttpData
  BY <1>3 DEF HttpData, DEFAULT_EVENT, Bits
<1>5. h0.fd = f0 /\ h0.conn = "connected" /\ h0 # None
  BY <1>4, HttpFields
<1> HIDE DEF h0, free
<1>6. Range(pending') = Range(pending) \cup {c} /\ Range(pending) \subseteq Conns
  BY <1>1, <1>2, QueueRange
<1>7. /\ http'[c] = h0
      /\ \A d \in Conns : d # c => http'[d] = http[d]
      /\ \A d \in Conns : http[d] # None => d # c /\ http'[d] = http[d]
  BY <1>1, <1>2 DEF TypeOK
<1>8. TypeOK'
  <2>1. http' \in [Conns -> HttpData \cup {None}]
    BY <1>1, <1>2, <1>4 DEF TypeOK
  <2>2. pending' \in Seq(Conns)
    BY <1>1, <1>2 DEF TypeOK
  <2> QED BY <1>1, <1>2, <2>1, <2>2 DEF TypeOK
<1>9. \A f \in Fds : fd2http[f] # None => fd2http[f] \in Conns /\ f # f0
  <2> SUFFICES ASSUME NEW f \in Fds, fd2http[f] # None
               PROVE  fd2http[f] \in Conns /\ f # f0
    OBVIOUS
  <2>1. fd2http[f] \in Conns
    BY <1>1 DEF TypeOK
  <2>2. http[fd2http[f]] # None /\ FdOf(fd2http[f]) = f
    BY DEF SubReactorInv, Entries
  <2>3. fd2http[f] \in Held
    BY <2>1, <2>2, HeldIs
  <2> QED BY <1>3, <2>1, <2>2, <2>3
<1>10. Entries' /\ Deadlines'
  BY <1>2, <1>7, <1>9 DEF SubReactorInv, Entries, Deadlines, FdOf
<1>11. Queued'
  <2>1. \A d \in Range(pending) : d \in Held /\ FdOf(d) # f0 /\ d # c
    BY <1>2, <1>3, HeldIs
  <2>2. \A d \in Range(pending) : http'[d] = http[d]
    BY <1>6, <1>7, <2>1
  <2>3. fd2http'[f0] = None
    BY <1>2, <1>3, <1>9
  <2> QED BY <1>2, <1>5, <1>6, <1>7, <2>1, <2>2, <2>3 DEF SubReactorInv, Queued, FdOf
<1>12. Nodes'
  <2>1. \A n \in timers : n.conn \in Conns
    BY <1>1 DEF TypeOK, TimerNode
  <2> QED BY <1>2, <1>7, <2>1 DEF SubReactorInv, Nodes, FdOf
<1>13. Registered' /\ Counted'
  BY <1>2 DEF SubReactorInv, Registered, Counted, Tracked
<1>14. InBatch'
  <2>1. DOMAIN batch \subseteq Conns
    BY <1>1 DEF TypeOK
  <2> QED BY <1>2, <1>7, <2>1 DEF SubReactorInv, InBatch, FdOf
<1> QED BY <1>8, <1>10, <1>11, <1>12, <1>13, <1>14 DEF SubReactorInv

LEMMA ElapseInv ==
  ASSUME SubReactorInv, NEW c \in Conns, Elapse(c)
  PROVE  SubReactorInv'
<1>1. TypeOK
  BY DEF SubReactorInv
<1>2. PICK n \in timers :
         /\ n.conn = c /\ ~n.due
         /\ timers' = (timers \ {n}) \cup {[n EXCEPT !.due = TRUE]}
  BY DEF Elapse
<1>3. UNCHANGED <<pc, batch, pending, http, numSocket, fd2chan, fd2http, reg, rdy, sock, cut>>
  BY DEF Elapse, Worker, tables, kernel
<1> DEFINE m == [n EXCEPT !.due = TRUE]
<1>4. n \in TimerNode /\ m \in TimerNode /\ m.conn = n.conn /\ m.linked = n.linked
  BY <1>1 DEF TypeOK, TimerNode
<1> HIDE DEF m
<1>5. timers' = (timers \ {n}) \cup {m}
  BY <1>2 DEF m
<1>6. TypeOK'
  <2>1. timers' \subseteq TimerNode
    BY <1>1, <1>4, <1>5 DEF TypeOK
  <2> QED BY <1>1, <1>3, <2>1 DEF TypeOK
<1>7. Nodes'
  BY <1>3, <1>4, <1>5 DEF SubReactorInv, Nodes, FdOf
<1>8. Deadlines'
  BY <1>3, <1>4, <1>5 DEF SubReactorInv, Deadlines
<1>9. Entries' /\ Queued' /\ Registered'
  BY <1>3 DEF SubReactorInv, Entries, Queued, Registered, FdOf
<1>10. Counted' /\ InBatch'
  BY <1>3 DEF SubReactorInv, Counted, Tracked, InBatch, FdOf
<1> QED BY <1>6, <1>7, <1>8, <1>9, <1>10 DEF SubReactorInv

(* The worker: poll and the handlers.                                      *)

\* The object of every connection keeps its descriptor and its state.
SameLives ==
    \A d \in Conns : http[d] # None =>
        http'[d] # None /\ http'[d].fd = http[d].fd /\ http'[d].conn = http[d].conn

LEMMA SameLivesInv ==
  ASSUME SubReactorInv, SameLives, UNCHANGED <<fd2http, pending, timers, cut>>
  PROVE  Entries' /\ Queued' /\ Nodes' /\ Deadlines'
<1>1. TypeOK
  BY DEF SubReactorInv
<1>2. Entries' /\ Deadlines'
  <2>1. \A f \in Fds : fd2http[f] # None => fd2http[f] \in Conns
    BY <1>1 DEF TypeOK
  <2> QED BY <2>1 DEF SubReactorInv, Entries, Deadlines, SameLives, FdOf
<1>3. Queued'
  <2>1. Range(pending) \subseteq Conns
    BY <1>1, QueueRange
  <2> QED BY <2>1 DEF SubReactorInv, Queued, SameLives, FdOf
<1>4. Nodes'
  <2>1. \A n \in timers : n.conn \in Conns
    BY <1>1 DEF TypeOK, TimerNode
  <2> QED BY <2>1 DEF SubReactorInv, Nodes, SameLives, FdOf
<1> QED BY <1>2, <1>3, <1>4

\* A channel in fd2chan_ is the one of the live connection of the descriptor.
LEMMA ChannelOwner ==
  ASSUME SubReactorInv, NEW f \in Fds, NEW c \in Conns, fd2chan[f] = c
  PROVE  /\ fd2http[f] = c /\ FdOf(c) = f /\ http[c] \in HttpData
         /\ http[c].conn # "disconnected" /\ c \in Held
<1>1. c # None /\ TypeOK
  BY SubReactorAssumption DEF SubReactorInv
<1>2. fd2http[f] = c
  BY <1>1 DEF SubReactorInv, Registered
<1>3. FdOf(c) = f /\ http[c] # None /\ http[c].conn # "disconnected"
  BY <1>1, <1>2 DEF SubReactorInv, Entries
<1> QED BY <1>1, <1>2, <1>3, HttpOf, HeldIs

LEMMA PollInv ==
  ASSUME SubReactorInv, Poll
  PROVE  SubReactorInv'
<1> USE SubReactorAssumption
<1> DEFINE rep(f) == LET c == CHOOSE c \in Held : FdOf(c) = f
                     IN  Reported(sock[c], reg[f])
           hit == {f \in rdy : rep(f) # {}}
           got == {c \in Conns : \E f \in hit : fd2chan[f] = c}
<1>1. TypeOK
  BY DEF SubReactorInv
<1>2. /\ pc' = "handle"
      /\ batch' = [c \in got |-> rep(FdOf(c))]
      /\ http' = [c \in Conns |-> IF c \in got THEN [http[c] EXCEPT !.events = {}]
                                               ELSE http[c]]
      /\ reg' = [f \in Fds |-> IF f \in hit /\ "ONESHOT" \in reg[f] THEN {} ELSE reg[f]]
      /\ rdy' = {}
      /\ UNCHANGED <<pending, timers, numSocket, fd2chan, fd2http, sock, cut>>
  BY DEF Poll, tables
<1>3. \A f : rep(f) \subseteq {"IN", "OUT", "ERR"}
  BY DEF Reported, Mask
<1>4. hit \subseteq rdy /\ got \subseteq Conns
  OBVIOUS
<1> HIDE DEF rep
<1>5. rdy \subseteq Fds
  BY <1>1 DEF TypeOK
<1>6. \A c \in got : /\ FdOf(c) \in Fds /\ fd2chan[FdOf(c)] = c
                     /\ http[c] \in HttpData
  <2> SUFFICES ASSUME NEW c \in got
               PROVE  FdOf(c) \in Fds /\ fd2chan[FdOf(c)] = c /\ http[c] \in HttpData
    OBVIOUS
  <2>1. PICK f \in Fds : fd2chan[f] = c
    BY <1>4, <1>5
  <2> QED BY <1>4, <2>1, ChannelOwner
<1> HIDE DEF hit, got
<1>7. \A c \in Conns : /\ c \in got => http'[c] \in HttpData /\ http'[c].fd = http[c].fd
                                       /\ http'[c].conn = http[c].conn
                       /\ c \notin got => http'[c] = http[c]
  <2>1. ASSUME NEW c \in got
        PROVE  /\ http'[c] \in HttpData /\ http'[c].fd = http[c].fd
               /\ http'[c].conn = http[c].conn
    <3>1. http'[c] = [http[c] EXCEPT !.events = {}]
      BY <1>2, <1>4
    <3>2. http[c] \in HttpData
      BY <1>6
    <3>3. {} \in SUBSET Bits
      OBVIOUS
    <3> QED BY <3>1, <3>2, <3>3 DEF HttpData
  <2>2. \A c \in Conns : c \notin got => http'[c] = http[c]
    BY <1>2
  <2> QED BY <2>1, <2>2
<1>8. SameLives
  BY <1>7, HttpFields DEF SameLives
<1>9. Entries' /\ Queued' /\ Nodes' /\ Deadlines'
  BY <1>2, <1>8, SameLivesInv
<1>10. TypeOK'
  <2>1. http' \in [Conns -> HttpData \cup {None}]
    BY <1>1, <1>2, <1>7 DEF TypeOK
  <2>2. reg' \in [Fds -> (SUBSET Bits) \cup {None}]
    BY <1>1, <1>2 DEF TypeOK
  <2>3. DOMAIN batch' \subseteq Conns /\ \A c \in DOMAIN batch' : batch'[c] \subseteq {"IN", "OUT", "ERR"}
    BY <1>2, <1>3, <1>4
  <2> QED BY <1>1, <1>2, <2>1, <2>2, <2>3 DEF TypeOK
<1>11. Registered'
  <2>1. \A f \in Fds : reg'[f] = None <=> reg[f] = None
    BY <1>2, <1>4, EventsNotNone DEF SubReactorInv, Registered
  <2> QED BY <1>2, <2>1 DEF SubReactorInv, Registered
<1>12. Counted'
  BY <1>2 DEF SubReactorInv, Counted, Tracked
<1>13. InBatch'
  <2>1. \A c \in DOMAIN batch' : c \in got /\ http'[c] # None /\ http'[c].fd = http[c].fd
    BY <1>2, <1>4, <1>7, HttpFields
  <2> QED BY <1>2, <1>6, <2>1 DEF InBatch, FdOf
<1> QED BY <1>9, <1>10, <1>11, <1>12, <1>13 DEF SubReactorInv

\* What every handler of a channel of the batch finds, and what it leaves of
\* the rest of the state.
Handler(c, h) ==
    /\ pc = "handle" /\ c \in DOMAIN batch
    /\ h \in HttpData /\ h.fd = FdOf(c) /\ h.conn # "disconnected"
    /\ sock' \in [Conns -> Socket]
    /\ cut' \subseteq Conns /\ cut \subseteq cut'
    /\ batch' = [d \in DOMAIN batch \ {c} |-> batch[d]]
    /\ UNCHANGED <<pc, pending>>

LEMMA InBatchIs ==
  ASSUME SubReactorInv, NEW c \in DOMAIN batch
  PROVE  /\ c \in Conns /\ http[c] \in HttpData /\ http[c].conn # "disconnected"
         /\ FdOf(c) \in Fds /\ fd2http[FdOf(c)] = c /\ fd2chan[FdOf(c)] = c
         /\ reg[FdOf(c)] # None
         /\ Separate(c) = {n \in timers : n.conn # c}
         /\ \A f \in Fds : fd2http[f] = c => f = FdOf(c)
         /\ \A d \in Range(pending) : d # c /\ FdOf(d) # FdOf(c)
         /\ \A d \in DOMAIN batch : d # c => FdOf(d) # FdOf(c)
<1> USE SubReactorAssumption DEF SubReactorInv
<1>1. c \in Conns /\ c # None
  BY DEF TypeOK
<1>2. http[c] # None /\ fd2chan[FdOf(c)] = c
  BY DEF InBatch
<1>3. FdOf(c) \in Fds
  BY <1>1, <1>2, HttpOf
<1>4. /\ fd2http[FdOf(c)] = c /\ http[c] \in HttpData
      /\ http[c].conn # "disconnected" /\ c \in Held
  BY <1>1, <1>2, <1>3, ChannelOwner
<1>5. reg[FdOf(c)] # None
  BY <1>1, <1>2, <1>3 DEF Registered
<1>6. Separate(c) = {n \in timers : n.conn # c}
  BY DEF Separate, Nodes
<1>7. \A f \in Fds : fd2http[f] = c => f = FdOf(c)
  BY <1>1 DEF Entries
<1>8. \A d \in Range(pending) : d # c /\ FdOf(d) # FdOf(c)
  BY <1>1, <1>4 DEF Queued
<1>9. \A d \in DOMAIN batch : d # c => FdOf(d) # FdOf(c)
  BY <1>2 DEF InBatch
<1> QED BY <1>1, <1>3, <1>4, <1>5, <1>6, <1>7, <1>8, <1>9, <1>2

\* The other connections do not notice.
LEMMA HandlerFrame ==
  ASSUME SubReactorInv, NEW c, NEW h, Handler(c, h),
         NEW h2 \in HttpData, h2.fd = h.fd, http' = [http EXCEPT ![c] = h2],
         \A f \in Fds \ {h.fd} : fd2chan'[f] = fd2chan[f] /\ fd2http'[f] = fd2http[f]
  PROVE  /\ http' \in [Conns -> HttpData \cup {None}]
         /\ http'[c] = h2 /\ \A d \in Conns \ {c} : http'[d] = http[d]
         /\ \A f \in Fds \ {h.fd} : fd2http[f] # None => fd2http[f] \in Conns \ {c}
         /\ DOMAIN batch' \subseteq Conns
         /\ \A d \in DOMAIN batch' : batch'[d] \subseteq {"IN", "OUT", "ERR"}
         /\ Queued' /\ InBatch'
<1> USE SubReactorAssumption
<1>1. TypeOK /\ c \in DOMAIN batch /\ h.fd = FdOf(c)
  BY DEF SubReactorInv, Handler
<1>2. c \in Conns
  BY <1>1, InBatchIs
<1>3. http' \in [Conns -> HttpData \cup {None}]
  BY <1>1, <1>2 DEF TypeOK
<1>4. http'[c] = h2 /\ \A d \in Conns \ {c} : http'[d] = http[d]
  BY <1>1, <1>2 DEF TypeOK
<1>5. \A f \in Fds \ {h.fd} : fd2http[f] # None => fd2http[f] \in Conns \ {c}
  BY <1>1, InBatchIs DEF TypeOK
<1>6. DOMAIN batch' = DOMAIN batch \ {c} /\ \A d \in DOMAIN batch' : batch'[d] = batch[d]
  BY DEF Handler
<1>7. /\ DOMAIN batch' \subseteq Conns \ {c}
      /\ \A d \in DOMAIN batch' : batch'[d] \subseteq {"IN", "OUT", "ERR"}
  BY <1>1, <1>6 DEF TypeOK
<1>8. Queued'
  <2>1. \A d \in Range(pending) : d \in Conns \ {c} /\ FdOf(d) # h.fd /\ FdOf(d) \in Fds
    BY <1>1, InBatchIs, QueueRange, HttpOf DEF SubReactorInv, Queued
  <2>2. pending' = pending
    BY DEF Handler
  <2>3. \A d \in Range(pending) : /\ http'[d] = http[d]
                                  /\ fd2http'[FdOf(d)] = fd2http[FdOf(d)]
    BY <1>4, <2>1
  <2> QED BY <2>2, <2>3 DEF SubReactorInv, Queued, FdOf
<1>9. InBatch'
  <2>1. \A d \in DOMAIN batch' : /\ d \in Conns \ {c} /\ http[d] # None
                                 /\ fd2chan[FdOf(d)] = d /\ FdOf(d) # h.fd
    BY <1>1, <1>6, <1>7, InBatchIs DEF SubReactorInv, InBatch
  <2>2. \A d \in DOMAIN batch' : FdOf(d) \in Fds
    BY <1>1, <2>1, HttpOf
  <2>3. pc' = "handle"
    BY DEF Handler
  <2>4. \A d \in DOMAIN batch' : /\ http'[d] = http[d]
                                 /\ fd2chan'[FdOf(d)] = fd2chan[FdOf(d)]
    BY <1>4, <2>1, <2>2
  <2>5. \A d \in DOMAIN batch' : http'[d] # None /\ fd2chan'[http'[d].fd] = d
    BY <2>1, <2>4 DEF FdOf
  <2> QED BY <2>3, <2>5 DEF InBatch, FdOf
<1> QED BY <1>3, <1>4, <1>5, <1>7, <1>8, <1>9

LEMMA CloseInv ==
  ASSUME SubReactorInv, NEW c, NEW h, Handler(c, h), Close(c, h, Separate(c))
  PROVE  SubReactorInv'
<1> USE SubReactorAssumption
<1> DEFINE h2 == [h EXCEPT !.conn = "disconnected"]
<1>1. TypeOK /\ c \in DOMAIN batch /\ h \in HttpData /\ h.fd = FdOf(c)
  BY DEF SubReactorInv, Handler
<1>2. h2 \in HttpData /\ h2.fd = h.fd
  BY <1>1 DEF HttpData
<1>3. /\ http' = [http EXCEPT ![c] = h2]
      /\ timers' = Separate(c)
      /\ reg' = [reg EXCEPT ![h.fd] = None] /\ rdy' = rdy \ {h.fd}
      /\ fd2chan' = [fd2chan EXCEPT ![h.fd] = None]
      /\ fd2http' = [fd2http EXCEPT ![h.fd] = None]
      /\ numSocket' = numSocket - 1
  BY DEF Close, RemoveFromPoller
<1> HIDE DEF h2
<1>4. /\ c \in Conns /\ h.fd \in Fds /\ fd2http[h.fd] = c
      /\ timers' = {n \in timers : n.conn # c}
  BY <1>1, <1>3, InBatchIs
<1>5. /\ fd2http'[h.fd] = None /\ \A f \in Fds \ {h.fd} : fd2http'[f] = fd2http[f]
      /\ fd2chan'[h.fd] = None /\ \A f \in Fds \ {h.fd} : fd2chan'[f] = fd2chan[f]
      /\ reg'[h.fd] = None /\ \A f \in Fds \ {h.fd} : reg'[f] = reg[f]
  BY <1>1, <1>3, <1>4 DEF TypeOK
<1>6. /\ http' \in [Conns -> HttpData \cup {None}]
      /\ \A d \in Conns \ {c} : http'[d] = http[d]
      /\ \A f \in Fds \ {h.fd} : fd2http[f] # None => fd2http[f] \in Conns \ {c}
      /\ DOMAIN batch' \subseteq Conns
      /\ \A d \in DOMAIN batch' : batch'[d] \subseteq {"IN", "OUT", "ERR"}
      /\ Queued' /\ InBatch'
  BY <1>2, <1>3, <1>5, HandlerFrame
<1>7. Entries' /\ Deadlines'
  BY <1>4, <1>5, <1>6 DEF SubReactorInv, Entries, Deadlines, FdOf, Handler
<1>8. Nodes'
  <2>1. \A n \in timers' : /\ n \in timers /\ n.conn \in Conns \ {c}
                           /\ http[n.conn] # None
    BY <1>1, <1>4 DEF TypeOK, TimerNode, SubReactorInv, Nodes
  <2>2. \A n \in timers' : FdOf(n.conn) \in Fds \ {h.fd}
    BY <1>1, <1>4, <2>1, HttpOf DEF SubReactorInv, Nodes
  <2> QED BY <1>5, <1>6, <2>1, <2>2 DEF SubReactorInv, Nodes, FdOf
<1>9. Registered'
  BY <1>3, <1>5 DEF SubReactorInv, Registered
<1>10. Counted'
  <2>1. Tracked(fd2http') = Tracked(fd2http) \ {h.fd} /\ h.fd \in Tracked(fd2http)
    BY <1>4, <1>5 DEF Tracked
  <2>2. IsFiniteSet(Tracked(fd2http')) /\ Cardinality(Tracked(fd2http')) = numSocket - 1
    BY <2>1, FS_RemoveElement DEF SubReactorInv, Counted
  <2> QED BY <1>3, <2>2 DEF Counted
<1>11. TypeOK'
  <2>1. /\ fd2chan' \in [Fds -> Conns \cup {None}] /\ fd2http' \in [Fds -> Conns \cup {None}]
        /\ reg' \in [Fds -> (SUBSET Bits) \cup {None}] /\ rdy' \subseteq Fds
    BY <1>1, <1>3 DEF TypeOK
  <2>2. timers' \subseteq TimerNode
    BY <1>1, <1>4 DEF TypeOK
  <2>3. numSocket' \in Nat
    BY <1>10, FS_CardinalityType DEF Counted
  <2> QED BY <1>1, <1>6, <2>1, <2>2, <2>3 DEF TypeOK, Handler
<1> QED BY <1>6, <1>7, <1>8, <1>9, <1>10, <1>11 DEF SubReactorInv

\* The connection whose client is gone, with the rest of a response to send.
LEMMA StuckInv ==
  ASSUME SubReactorInv, NEW c, NEW h, Handler(c, h), NEW h2 \in HttpData,
         h2.fd = h.fd, h2.conn = "disconnecting", c \in cut',
         http' = [http EXCEPT ![c] = h2], timers' = Separate(c),
         UNCHANGED <<tables, kernel>>
  PROVE  SubReactorInv'
<1> USE SubReactorAssumption
<1>1. /\ TypeOK /\ c \in DOMAIN batch /\ h.fd = FdOf(c)
      /\ UNCHANGED <<numSocket, fd2chan, fd2http, reg, rdy>>
  BY DEF SubReactorInv, Handler, tables, kernel
<1>2. /\ c \in Conns /\ h.fd \in Fds /\ fd2http[h.fd] = c
      /\ timers' = {n \in timers : n.conn # c}
  BY <1>1, InBatchIs
<1>3. /\ http' \in [Conns -> HttpData \cup {None}]
      /\ http'[c] = h2 /\ \A d \in Conns \ {c} : http'[d] = http[d]
      /\ \A f \in Fds \ {h.fd} : fd2http[f] # None => fd2http[f] \in Conns \ {c}
      /\ DOMAIN batch' \subseteq Conns
      /\ \A d \in DOMAIN batch' : batch'[d] \subseteq {"IN", "OUT", "ERR"}
      /\ Queued' /\ InBatch'
  BY <1>1, HandlerFrame
<1>4. Entries'
  BY <1>1, <1>2, <1>3, HttpFields DEF SubReactorInv, Entries, FdOf
<1>5. Deadlines'
  BY <1>1, <1>2, <1>3 DEF SubReactorInv, Deadlines, Handler
<1>6. Nodes'
  <2>1. \A n \in timers' : /\ n \in timers /\ n.conn \in Conns \ {c}
                           /\ http[n.conn] # None
    BY <1>1, <1>2 DEF TypeOK, TimerNode, SubReactorInv, Nodes
  <2> QED BY <1>1, <1>3, <2>1 DEF SubReactorInv, Nodes, FdOf
<1>7. Registered' /\ Counted'
  BY <1>1 DEF SubReactorInv, Registered, Counted, Tracked
<1>8. TypeOK'
  <2>1. timers' \subseteq TimerNode
    BY <1>1, <1>2 DEF TypeOK
  <2> QED BY <1>1, <1>3, <2>1 DEF TypeOK, Handler
<1> QED BY <1>3, <1>4, <1>5, <1>6, <1>7, <1>8 DEF SubReactorInv

LEMMA UpdateInv ==
  ASSUME SubReactorInv, NEW c, NEW h0, Handler(c, h0), NEW h \in HttpData, NEW k,
         h.fd = h0.fd, h.conn = "connected", Update(c, h, k, Separate(c))
  PROVE  SubReactorInv'
<1> USE SubReactorAssumption
<1> DEFINE h2 == [h EXCEPT !.last = h.events]
           node == [conn |-> c, due |-> FALSE, linked |-> TRUE]
<1>1. TypeOK /\ c \in DOMAIN batch /\ h.fd = FdOf(c)
  BY DEF SubReactorInv, Handler
<1>2. h2 \in HttpData /\ h2.fd = h.fd /\ h2.conn = "connected"
  BY DEF HttpData
<1>3. /\ http' = [http EXCEPT ![c] = h2]
      /\ timers' = AddTimer(Separate(c), c)
      /\ \/ UNCHANGED <<reg, rdy, fd2chan>>
         \/ /\ reg[h.fd] = None /\ UNCHANGED <<reg, rdy>>
            /\ fd2chan' = [fd2chan EXCEPT ![h.fd] = None]
         \/ /\ reg[h.fd] # None
            /\ reg' = [reg EXCEPT ![h.fd] = h.events]
            /\ rdy' \subseteq rdy \cup {h.fd}
            /\ UNCHANGED fd2chan
      /\ UNCHANGED <<numSocket, fd2http>>
  BY DEF Update, Arm, kernel
<1>4. /\ c \in Conns /\ h.fd \in Fds /\ fd2http[h.fd] = c /\ reg[h.fd] # None
      /\ Separate(c) = {n \in timers : n.conn # c}
  BY <1>1, InBatchIs
<1>5. timers' = {n \in timers : n.conn # c} \cup {node}
  <2> DEFINE S == {n \in timers : n.conn # c}
  <2>1. {IF n.conn = c THEN [n EXCEPT !.linked = FALSE] ELSE n : n \in S} = S
    OBVIOUS
  <2> QED BY <1>3, <1>4, <2>1 DEF AddTimer
<1>6. node \in TimerNode /\ node.conn = c /\ node.linked
  BY <1>4 DEF TimerNode
<1> HIDE DEF h2, node
<1>7. /\ UNCHANGED <<fd2chan, fd2http, numSocket>>
      /\ reg' \in [Fds -> (SUBSET Bits) \cup {None}]
      /\ \A f \in Fds : reg'[f] = None <=> reg[f] = None
      /\ rdy' \subseteq rdy \cup {h.fd}
  <2>1. h.events \in SUBSET Bits /\ h.events # None
    BY HttpFields, EventsNotNone
  <2> QED BY <1>1, <1>3, <1>4, <2>1 DEF TypeOK
<1>8. /\ http' \in [Conns -> HttpData \cup {None}]
      /\ http'[c] = h2 /\ \A d \in Conns \ {c} : http'[d] = http[d]
      /\ \A f \in Fds \ {h.fd} : fd2http[f] # None => fd2http[f] \in Conns \ {c}
      /\ DOMAIN batch' \subseteq Conns
      /\ \A d \in DOMAIN batch' : batch'[d] \subseteq {"IN", "OUT", "ERR"}
      /\ Queued' /\ InBatch'
  <2>1. /\ h2.fd = h0.fd
        /\ \A f \in Fds \ {h0.fd} : fd2chan'[f] = fd2chan[f] /\ fd2http'[f] = fd2http[f]
    BY <1>2, <1>7
  <2>2. fd2http' = fd2http /\ http' = [http EXCEPT ![c] = h2]
    BY <1>3
  <2>3. /\ http' \in [Conns -> HttpData \cup {None}]
        /\ http'[c] = h2 /\ \A d \in Conns \ {c} : http'[d] = http[d]
        /\ \A f \in Fds \ {h0.fd} : fd2http[f] # None => fd2http[f] \in Conns \ {c}
        /\ DOMAIN batch' \subseteq Conns
        /\ \A d \in DOMAIN batch' : batch'[d] \subseteq {"IN", "OUT", "ERR"}
        /\ Queued' /\ InBatch'
    BY <1>2, <2>1, <2>2, HandlerFrame
  <2> QED BY <2>3
<1>9. Entries'
  BY <1>2, <1>4, <1>7, <1>8, HttpFields DEF SubReactorInv, Entries, FdOf
<1>10. Deadlines'
  <2>1. \A f \in Fds \ {h.fd} : fd2http[f] # None =>
          \/ \E n \in timers' : n.conn = fd2http[f]
          \/ http'[fd2http[f]].conn = "disconnecting" /\ fd2http[f] \in cut'
    BY <1>5, <1>8 DEF SubReactorInv, Deadlines, Handler
  <2>2. \E n \in timers' : n.conn = fd2http[h.fd]
    BY <1>4, <1>5, <1>6
  <2> QED BY <1>7, <2>1, <2>2 DEF Deadlines
<1>11. Nodes'
  <2>1. \A n \in timers : n.conn # c =>
          n.conn \in Conns \ {c} /\ http'[n.conn] = http[n.conn]
    BY <1>1, <1>8 DEF TypeOK, TimerNode
  <2>2. \A n \in timers : n.conn # c =>
          http'[n.conn] # None /\ fd2http'[http'[n.conn].fd] = n.conn /\ n.linked
    BY <1>7, <2>1 DEF SubReactorInv, Nodes, FdOf
  <2>3. http'[c] # None /\ fd2http'[http'[c].fd] = c
    BY <1>2, <1>4, <1>7, <1>8, HttpFields
  <2> QED BY <1>5, <1>6, <2>2, <2>3 DEF SubReactorInv, Nodes, FdOf
<1>12. Registered' /\ Counted'
  BY <1>4, <1>7 DEF SubReactorInv, Registered, Counted, Tracked
<1>13. TypeOK'
  <2>1. timers' \subseteq TimerNode /\ rdy' \subseteq Fds
    BY <1>1, <1>4, <1>5, <1>6, <1>7 DEF TypeOK
  <2> QED BY <1>1, <1>7, <1>8, <2>1 DEF TypeOK, Handler
<1> QED BY <1>8, <1>9, <1>10, <1>11, <1>12, <1>13 DEF SubReactorInv

LEMMA HandleConnInv ==
  ASSUME SubReactorInv, NEW c, NEW h, NEW k, Handler(c, h), HandleConn(c, h, k),
         ~h.error /\ h.conn = "disconnecting" /\ "OUT" \in h.events => c \in cut'
  PROVE  SubReactorInv'
<1> DEFINE more == [h EXCEPT !.events = IF {"IN", "OUT"} \subseteq @
                                        THEN {"OUT", "ET"} ELSE @ \cup {"ET"}]
           again == [h EXCEPT !.events = KeepAliveEvents]
           rest == [h EXCEPT !.events = {"OUT", "ET"}]
<1>1. h \in HttpData /\ h.conn # "disconnected"
  BY DEF Handler
<1>2. /\ more \in HttpData /\ more.fd = h.fd /\ more.conn = h.conn
      /\ again \in HttpData /\ again.fd = h.fd /\ again.conn = h.conn
      /\ rest \in HttpData /\ rest.fd = h.fd /\ rest.conn = h.conn
  <2>1. /\ {"OUT", "ET"} \subseteq Bits /\ KeepAliveEvents \subseteq Bits
        /\ h.events \cup {"ET"} \subseteq Bits
    BY <1>1 DEF HttpData, Bits, KeepAliveEvents
  <2> QED BY <1>1, <2>1 DEF HttpData
<1>3. \/ h.conn = "connected" /\ Update(c, more, k, Separate(c))
      \/ h.conn = "connected" /\ Update(c, again, k, Separate(c))
      \/ /\ ~h.error /\ h.conn = "disconnecting" /\ "OUT" \in h.events
         /\ http' = [http EXCEPT ![c] = rest] /\ timers' = Separate(c)
         /\ UNCHANGED <<tables, kernel>>
      \/ Close(c, h, Separate(c))
  BY DEF HandleConn
<1> HIDE DEF more, again, rest
<1> QED BY <1>1, <1>2, <1>3, UpdateInv, StuckInv, CloseInv

\* The handler leaves the descriptor, the state and the last events alone.
Same(a, h) == a.fd = h.fd /\ a.conn = h.conn /\ a.last = h.last

\* What a parse leaves of a connection: only a response that did not fit asks
\* for EPOLLOUT without an error.
LEMMA AfterParseIs ==
  ASSUME NEW h \in HttpData, NEW outcome, NEW keep \in BOOLEAN, NEW written
  PROVE  LET a == AfterParse(h, outcome, keep, written)
         IN  /\ a \in HttpData /\ Same(a, h)
             /\ ~a.error /\ "OUT" \in a.events /\ "OUT" \notin h.events => written = "part"
             /\ a.events \subseteq h.events \cup {"OUT"}
<1>1. /\ h.keepAlive \in BOOLEAN /\ h.events \subseteq Bits
      /\ {"OUT"} \subseteq Bits /\ h.events \cup {"OUT"} \subseteq Bits
  BY HttpFields DEF Bits
<1>2. CASE outcome = "again"
  <2>1. AfterParse(h, outcome, keep, written) = [h EXCEPT !.state = "headers"]
    BY <1>2 DEF AfterParse
  <2> QED BY <2>1 DEF HttpData, Same
<1>3. CASE outcome = "bad"
  <2>1. AfterParse(h, outcome, keep, written) = [h EXCEPT !.error = TRUE]
    BY <1>3 DEF AfterParse
  <2> QED BY <2>1 DEF HttpData, Same
<1>4. CASE outcome \notin {"again", "bad"}
  <2> DEFINE g == [h EXCEPT !.keepAlive = @ \/ keep]
             w == HandleWrite(g, written)
             a == AfterParse(h, outcome, keep, written)
  <2>1. (h.keepAlive \/ keep) \in BOOLEAN
    BY <1>1
  <2>2. /\ g \in HttpData /\ g.fd = h.fd /\ g.conn = h.conn /\ g.last = h.last
        /\ g.events = h.events
    BY <2>1 DEF HttpData
  <2>3. a = [w EXCEPT !.state = "uri"]
    BY <1>4 DEF AfterParse
  <2> HIDE DEF g
  <2>4. /\ w \in HttpData /\ w.fd = h.fd /\ w.conn = h.conn /\ w.last = h.last
        /\ ~w.error /\ "OUT" \in w.events /\ "OUT" \notin h.events => written = "part"
        /\ w.events \subseteq h.events \cup {"OUT"}
    <3>1. CASE written = "error"
      <4>1. w = [g EXCEPT !.error = TRUE, !.events = {"OUT"}]
        BY <3>1 DEF HandleWrite
      <4> QED BY <1>1, <2>2, <4>1 DEF HttpData
    <3>2. CASE written = "part"
      <4>1. w = [g EXCEPT !.events = @ \cup {"OUT"}]
        BY <3>2 DEF HandleWrite
      <4> QED BY <1>1, <2>2, <3>2, <4>1 DEF HttpData
    <3>3. CASE written \notin {"error", "part"}
      <4>1. w = g
        BY <3>3 DEF HandleWrite
      <4> QED BY <2>2, <4>1
    <3> QED BY <3>1, <3>2, <3>3
  <2> HIDE DEF w
  <2>5. /\ [w EXCEPT !.state = "uri"] \in HttpData
        /\ [w EXCEPT !.state = "uri"].fd = w.fd /\ [w EXCEPT !.state = "uri"].conn = w.conn
        /\ [w EXCEPT !.state = "uri"].last = w.last
        /\ ~[w EXCEPT !.state = "uri"].error => ~w.error
        /\ [w EXCEPT !.state = "uri"].events = w.events
    BY <2>4 DEF HttpData
  <2>6. /\ a \in HttpData /\ a.fd = h.fd /\ a.conn = h.conn /\ a.last = h.last
        /\ ~a.error => ~w.error
        /\ a.events = w.events
    BY <2>3, <2>4, <2>5
  <2> QED BY <2>4, <2>6 DEF Same
<1> QED BY <1>2, <1>3, <1>4

LEMMA HandleNothingInv ==
  ASSUME SubReactorInv, NEW c, pc = "handle", HandleNothing(c),
         batch' = [d \in DOMAIN batch \ {c} |-> batch[d]], UNCHANGED <<pc, pending>>
  PROVE  SubReactorInv'
<1> DEFINE h2 == [http[c] EXCEPT !.events = {}]
<1>1. /\ TypeOK /\ c \in DOMAIN batch
      /\ http' = [http EXCEPT ![c] = h2]
      /\ UNCHANGED <<timers, numSocket, fd2chan, fd2http, reg, rdy, sock, cut>>
  BY DEF SubReactorInv, HandleNothing, tables, kernel
<1>2. c \in Conns /\ http[c] \in HttpData /\ http[c].conn # "disconnected"
  BY <1>1, InBatchIs
<1>3. /\ h2 \in HttpData /\ h2.fd = http[c].fd /\ h2.conn = http[c].conn
  BY <1>2 DEF HttpData
<1> HIDE DEF h2
<1>4. Handler(c, http[c])
  BY <1>1, <1>2 DEF Handler, FdOf, TypeOK
<1>5. /\ http' \in [Conns -> HttpData \cup {None}]
      /\ http'[c] = h2 /\ \A d \in Conns \ {c} : http'[d] = http[d]
      /\ DOMAIN batch' \subseteq Conns
      /\ \A d \in DOMAIN batch' : batch'[d] \subseteq {"IN", "OUT", "ERR"}
      /\ InBatch'
  <2>1. PICK h : h = http[c]
    OBVIOUS
  <2>2. PICK g : g = h2
    OBVIOUS
  <2>3. Handler(c, h) /\ g \in HttpData /\ g.fd = h.fd /\ http' = [http EXCEPT ![c] = g]
    BY <1>1, <1>3, <1>4, <2>1, <2>2 DEF Handler
  <2>4. \A f \in Fds \ {h.fd} : fd2chan'[f] = fd2chan[f] /\ fd2http'[f] = fd2http[f]
    BY <1>1
  <2>5. /\ http' \in [Conns -> HttpData \cup {None}]
        /\ http'[c] = g /\ \A d \in Conns \ {c} : http'[d] = http[d]
        /\ \A f \in Fds \ {h.fd} : fd2http[f] # None => fd2http[f] \in Conns \ {c}
        /\ DOMAIN batch' \subseteq Conns
        /\ \A d \in DOMAIN batch' : batch'[d] \subseteq {"IN", "OUT", "ERR"}
        /\ Queued' /\ InBatch'
    BY <2>3, <2>4, HandlerFrame, Zenon
  <2> QED BY <2>2, <2>5
<1>6. SameLives
  BY <1>3, <1>5, HttpFields DEF SameLives
<1>7. Entries' /\ Queued' /\ Nodes' /\ Deadlines'
  BY <1>1, <1>6, SameLivesInv
<1>8. Registered' /\ Counted'
  BY <1>1 DEF SubReactorInv, Registered, Counted, Tracked
<1>9. TypeOK'
  BY <1>1, <1>5 DEF TypeOK
<1> QED BY <1>5, <1>7, <1>8, <1>9 DEF SubReactorInv

LEMMA HandleEventsInv ==
  ASSUME SubReactorInv, NEW c \in Conns, HandleEvents(c)
  PROVE  SubReactorInv'
<1> USE SubReactorAssumption
<1>1. /\ pc = "handle" /\ TypeOK
      /\ batch' = [d \in DOMAIN batch \ {c} |-> batch[d]]
      /\ UNCHANGED <<pc, pending>>
  BY DEF HandleEvents, SubReactorInv
<1> DEFINE r == [http[c] EXCEPT !.events = {}]
<1>2. ASSUME c \in DOMAIN batch
      PROVE  /\ http[c] \in HttpData /\ http[c].conn # "disconnected" /\ http[c].fd = FdOf(c)
             /\ r \in HttpData /\ r.fd = FdOf(c) /\ r.conn = http[c].conn
             /\ r.error = http[c].error /\ r.events = {}
  <2>1. http[c] \in HttpData /\ http[c].conn # "disconnected"
    BY <1>2, InBatchIs
  <2> QED BY <2>1 DEF HttpData, FdOf
<1>3. sock[c] \in Socket /\ AfterRead(c) \in Socket
  <2>1. sock[c] \in Socket /\ <<>> \in Seq(Chunks)
    BY <1>1 DEF TypeOK
  <2> QED BY <2>1 DEF AfterRead, Socket
<1>4. /\ [sock EXCEPT ![c] = AfterRead(c)] \in [Conns -> Socket]
      /\ sock \in [Conns -> Socket] /\ cut \subseteq Conns
  BY <1>1, <1>3 DEF TypeOK
<1>5. CASE HandleNothing(c)
  BY <1>1, <1>5, HandleNothingInv
<1>6. CASE ReadAfterClose(c)
  <2>1. c \in DOMAIN batch /\ cut' = cut /\ sock' \in [Conns -> Socket]
    BY <1>4, <1>6 DEF ReadAfterClose, Readable
  <2>2. HandleConn(c, r, AfterRead(c))
    BY <1>6 DEF ReadAfterClose
  <2>3. Handler(c, r) /\ "OUT" \notin r.events
    BY <1>1, <1>2, <1>4, <2>1 DEF Handler
  <2> HIDE DEF r
  <2> QED BY <2>2, <2>3, HandleConnInv
<1>7. CASE ReadFails(c)
  <2> DEFINE h == [http[c] EXCEPT !.events = {}, !.error = TRUE]
  <2>1. c \in DOMAIN batch /\ cut' = cut /\ sock' \in [Conns -> Socket]
    BY <1>4, <1>7 DEF ReadFails, Readable
  <2>2. HandleConn(c, h, AfterRead(c))
    BY <1>7 DEF ReadFails
  <2>3. h \in HttpData /\ h.fd = FdOf(c) /\ h.conn # "disconnected" /\ "OUT" \notin h.events
    BY <1>2, <2>1 DEF HttpData
  <2> HIDE DEF h
  <2>4. Handler(c, h)
    BY <1>1, <1>4, <2>1, <2>3 DEF Handler
  <2> QED BY <2>2, <2>3, <2>4, HandleConnInv
<1>8. CASE ReadEnd(c)
  <2> DEFINE h == [http[c] EXCEPT !.events = {}, !.conn = "disconnecting"]
  <2>1. c \in DOMAIN batch /\ cut' = cut /\ sock' = sock
    BY <1>8 DEF ReadEnd, Readable
  <2>2. HandleConn(c, h, sock[c])
    BY <1>8 DEF ReadEnd
  <2>3. h \in HttpData /\ h.fd = FdOf(c) /\ h.conn # "disconnected" /\ "OUT" \notin h.events
    BY <1>2, <2>1 DEF HttpData
  <2> HIDE DEF h
  <2>4. Handler(c, h)
    BY <1>1, <1>4, <2>1, <2>3 DEF Handler
  <2> QED BY <2>2, <2>3, <2>4, HandleConnInv
<1>9. ASSUME NEW outcome \in Outcomes, NEW keep \in BOOLEAN, NEW written \in Written,
             ReadRequest(c, outcome, keep, written)
      PROVE  SubReactorInv'
  <2> DEFINE h == [http[c] EXCEPT !.events = {},
                     !.conn = IF sock[c].fin THEN "disconnecting" ELSE @]
             k == [AfterRead(c) EXCEPT !.full = @ \/ written = "part",
                                       !.rst = written = "error"]
             a == AfterParse(h, outcome, keep, written)
  <2>1. /\ c \in DOMAIN batch
        /\ sock' = [sock EXCEPT ![c] = k]
        /\ HandleConn(c, a, k)
        /\ cut' = IF written = "part" THEN cut \cup {c} ELSE cut
    BY <1>9 DEF ReadRequest, Readable
  <2>2. k \in Socket
    <3>1. (AfterRead(c).full \/ written = "part") \in BOOLEAN /\ (written = "error") \in BOOLEAN
      BY <1>3 DEF Socket
    <3> QED BY <1>3, <3>1 DEF Socket
  <2> HIDE DEF k
  <2>3. sock' \in [Conns -> Socket]
    BY <1>4, <2>1, <2>2
  <2>4. h \in HttpData /\ h.fd = FdOf(c) /\ h.conn # "disconnected" /\ h.events = {}
    BY <1>2, <2>1 DEF HttpData
  <2> HIDE DEF h
  <2>5. /\ a \in HttpData /\ a.fd = FdOf(c) /\ a.conn # "disconnected"
        /\ ~a.error /\ "OUT" \in a.events => written = "part"
    <3>1. a \in HttpData /\ (~a.error /\ "OUT" \in a.events => written = "part")
      BY <2>4, AfterParseIs
    <3>2. Same(a, h)
      BY <2>4, AfterParseIs
    <3> HIDE DEF a
    <3> QED BY <2>4, <3>1, <3>2 DEF Same
  <2> HIDE DEF a
  <2>6. Handler(c, a)
    BY <1>1, <1>4, <2>1, <2>3, <2>5 DEF Handler
  <2> QED BY <2>1, <2>5, <2>6, HandleConnInv
<1>10. CASE HandleOut(c)
  <2>1. c \in DOMAIN batch /\ cut' = cut /\ sock' = sock
    BY <1>10 DEF HandleOut
  <2>2. HandleConn(c, r, sock[c])
    BY <1>10 DEF HandleOut
  <2>3. Handler(c, r) /\ "OUT" \notin r.events
    BY <1>1, <1>2, <1>4, <2>1 DEF Handler
  <2> HIDE DEF r
  <2> QED BY <2>2, <2>3, HandleConnInv
<1> QED BY <1>5, <1>6, <1>7, <1>8, <1>9, <1>10 DEF HandleEvents, HandleRead

-----------------------------------------------------------------------------
(* The worker: the rest of an iteration.                                   *)

LEMMA EventsDoneInv ==
  ASSUME SubReactorInv, EventsDone
  PROVE  SubReactorInv'
<1>1. /\ DOMAIN batch = {} /\ pc' = "pending"
      /\ UNCHANGED <<batch, pending, http, timers, numSocket, fd2chan, fd2http, reg, rdy, sock, cut>>
  BY DEF EventsDone, tables, kernel
<1>2. TypeOK'
  BY <1>1 DEF SubReactorInv, TypeOK
<1>3. Entries' /\ Queued' /\ Nodes' /\ Deadlines'
  BY <1>1 DEF SubReactorInv, Entries, Queued, Nodes, Deadlines, FdOf
<1>4. Registered' /\ Counted' /\ InBatch'
  BY <1>1 DEF SubReactorInv, Registered, Counted, Tracked, InBatch, FdOf
<1> QED BY <1>2, <1>3, <1>4 DEF SubReactorInv

LEMMA DoPendingInv ==
  ASSUME SubReactorInv, NEW failed \in SUBSET Conns, DoPending(failed)
  PROVE  SubReactorInv'
<1> USE SubReactorAssumption
<1> DEFINE new == Range(pending)
           at(f) == CHOOSE c \in new : FdOf(c) = f
           fds == {FdOf(c) : c \in new}
           added == {f \in fds : at(f) \notin failed}
<1>1. TypeOK /\ new \subseteq Conns /\ IsFiniteSet(new)
  BY QueueRange DEF SubReactorInv
<1>2. /\ pc = "pending" /\ pc' = "expire" /\ pending' = <<>>
      /\ http' = [c \in Conns |-> IF c \in new THEN [http[c] EXCEPT !.last = http[c].events]
                                               ELSE http[c]]
      /\ timers' = timers \cup {[conn |-> c, due |-> FALSE, linked |-> TRUE] : c \in new}
      /\ fd2http' = [f \in Fds |-> IF f \in fds THEN at(f) ELSE fd2http[f]]
      /\ fd2chan' = [f \in Fds |-> IF f \in added THEN at(f)
                                   ELSE IF f \in fds THEN None ELSE fd2chan[f]]
      /\ reg' = [f \in Fds |-> IF f \in added THEN http[at(f)].events ELSE reg[f]]
      /\ rdy' = rdy \cup {f \in added : Reported(sock[at(f)], http[at(f)].events) # {}}
      /\ numSocket' = numSocket + Cardinality(new)
      /\ UNCHANGED <<batch, sock, cut>>
  BY DEF DoPending
<1>3. \A c \in new : /\ http[c] \in HttpData /\ http[c].conn = "connected"
                     /\ FdOf(c) \in Fds /\ fd2http[FdOf(c)] = None /\ c # None
                     /\ \A d \in new : FdOf(c) = FdOf(d) => c = d
  BY <1>1, HttpOf DEF SubReactorInv, Queued
<1>4. \A f \in fds : at(f) \in new /\ FdOf(at(f)) = f /\ f \in Fds
  BY <1>3
<1>5. \A c \in new : FdOf(c) \in fds /\ at(FdOf(c)) = c
  BY <1>3, <1>4
<1>6. added \subseteq fds
  OBVIOUS
<1>7. IsFiniteSet(fds) /\ Cardinality(fds) = Cardinality(new)
  <2> DEFINE g == [c \in new |-> FdOf(c)]
  <2>1. g \in [new -> fds] /\ \A c, d \in new : g[c] = g[d] => c = d
    BY <1>3
  <2>2. \A f \in fds : \E c \in new : g[c] = f
    OBVIOUS
  <2> HIDE DEF g, new, fds
  <2>3. g \in Bijection(new, fds)
    BY <2>1, <2>2 DEF Bijection, Injection, Surjection, IsInjective
  <2>4. ExistsBijection(new, fds)
    BY <2>3 DEF ExistsBijection
  <2> QED BY <1>1, <2>4, FS_Bijection
<1>8. Range(pending') = {}
  BY <1>2 DEF Range
<1> HIDE DEF at, fds, added, new
<1>9. \A c \in Conns : /\ c \in new => http'[c] \in HttpData /\ http'[c].fd = http[c].fd
                                       /\ http'[c].conn = http[c].conn
                       /\ c \notin new => http'[c] = http[c]
  <2>1. ASSUME NEW c \in new
        PROVE  /\ http'[c] \in HttpData /\ http'[c].fd = http[c].fd
               /\ http'[c].conn = http[c].conn
    <3>1. http'[c] = [http[c] EXCEPT !.last = http[c].events]
      BY <1>1, <1>2
    <3>2. http[c] \in HttpData /\ http[c].events \subseteq Bits
      BY <1>3, HttpFields
    <3> QED BY <3>1, <3>2 DEF HttpData
  <2>2. \A c \in Conns : c \notin new => http'[c] = http[c]
    BY <1>2
  <2> QED BY <2>1, <2>2
<1>10. SameLives
  BY <1>9, HttpFields DEF SameLives
<1>11. \A f \in Fds : /\ f \in fds => fd2http'[f] = at(f) /\ at(f) \in Conns /\ at(f) # None
                                      /\ fd2http[f] = None
                      /\ f \notin fds => fd2http'[f] = fd2http[f]
  BY <1>1, <1>2, <1>3, <1>4
<1>12. Entries'
  <2>1. ASSUME NEW f \in Fds, fd2http'[f] # None
        PROVE  /\ http'[fd2http'[f]] # None /\ http'[fd2http'[f]].fd = f
               /\ http'[fd2http'[f]].conn # "disconnected"
    <3>1. CASE f \in fds
      <4>1. at(f) \in new /\ http[at(f)] # None /\ http[at(f)].fd = f /\ http[at(f)].conn = "connected"
        BY <1>3, <1>4, <3>1, HttpFields DEF FdOf
      <4> QED BY <1>11, <1>10, <3>1, <4>1 DEF SameLives
    <3>2. CASE f \notin fds
      <4>1. fd2http[f] \in Conns /\ fd2http'[f] = fd2http[f] /\ fd2http[f] # None
        BY <1>1, <1>11, <2>1, <3>2 DEF TypeOK
      <4> QED BY <1>10, <4>1 DEF SubReactorInv, Entries, SameLives, FdOf
    <3> QED BY <3>1, <3>2
  <2> QED BY <2>1 DEF Entries, FdOf
<1>13. Queued'
  BY <1>8 DEF Queued
<1>14. \A n \in timers : /\ n.conn \in Conns /\ n.conn # None /\ n.conn \notin new
                         /\ http[n.conn] # None /\ FdOf(n.conn) \in Fds
                         /\ FdOf(n.conn) \notin fds
  <2> SUFFICES ASSUME NEW n \in timers
               PROVE  /\ n.conn \in Conns /\ n.conn # None /\ n.conn \notin new
                      /\ http[n.conn] # None /\ FdOf(n.conn) \in Fds
                      /\ FdOf(n.conn) \notin fds
    OBVIOUS
  <2>1. n.conn \in Conns /\ n.conn # None
    BY <1>1 DEF TypeOK, TimerNode
  <2>2. http[n.conn] # None /\ fd2http[FdOf(n.conn)] = n.conn
    BY DEF SubReactorInv, Nodes
  <2>3. FdOf(n.conn) \in Fds
    BY <1>1, <2>1, <2>2, HttpOf
  <2> QED BY <1>3, <1>11, <2>1, <2>2, <2>3
<1> DEFINE node(c) == [conn |-> c, due |-> FALSE, linked |-> TRUE]
<1>15. /\ timers' = timers \cup {node(c) : c \in new}
       /\ \A c \in new : node(c) \in TimerNode /\ node(c).conn = c /\ node(c).linked
  BY <1>1, <1>2 DEF TimerNode
<1> HIDE DEF node
<1>16. Nodes'
  <2>1. ASSUME NEW n \in timers
        PROVE  http'[n.conn] # None /\ fd2http'[http'[n.conn].fd] = n.conn /\ n.linked
    <3>1. n.conn \in Conns /\ n.conn \notin new /\ FdOf(n.conn) \in Fds \ fds
      BY <1>14
    <3>2. http'[n.conn] = http[n.conn] /\ fd2http'[FdOf(n.conn)] = fd2http[FdOf(n.conn)]
      BY <1>9, <1>11, <3>1
    <3> QED BY <3>2 DEF SubReactorInv, Nodes, FdOf
  <2>2. ASSUME NEW c \in new
        PROVE  http'[c] # None /\ fd2http'[http'[c].fd] = c
    <3>1. http'[c] # None /\ http'[c].fd = FdOf(c)
      BY <1>1, <1>9, HttpFields DEF FdOf
    <3> QED BY <1>3, <1>5, <1>11, <3>1
  <2>3. \A n, m \in timers' : n.conn = m.conn => n = m
    BY <1>14, <1>15 DEF SubReactorInv, Nodes
  <2>4. \A n \in timers' : http'[n.conn] # None /\ fd2http'[http'[n.conn].fd] = n.conn /\ n.linked
    BY <1>15, <2>1, <2>2
  <2> QED BY <2>3, <2>4 DEF Nodes, FdOf
<1>17. Deadlines'
  <2>1. ASSUME NEW f \in Fds, fd2http'[f] # None
        PROVE  \/ \E n \in timers' : n.conn = fd2http'[f]
               \/ http'[fd2http'[f]].conn = "disconnecting" /\ fd2http'[f] \in cut'
    <3>1. CASE f \in fds
      <4>1. node(at(f)) \in timers' /\ node(at(f)).conn = fd2http'[f]
        BY <1>4, <1>11, <1>15, <3>1
      <4> QED BY <4>1
    <3>2. CASE f \notin fds
      <4>1. fd2http[f] \in Conns /\ fd2http'[f] = fd2http[f] /\ fd2http[f] # None
        BY <1>1, <1>11, <2>1, <3>2 DEF TypeOK
      <4>2. http[fd2http[f]] # None
        BY <4>1 DEF SubReactorInv, Entries
      <4> QED BY <1>2, <1>10, <1>15, <4>1, <4>2 DEF SubReactorInv, Deadlines, SameLives
    <3> QED BY <3>1, <3>2
  <2> QED BY <2>1 DEF Deadlines
<1>18. \A f \in added : http[at(f)].events \in SUBSET Bits /\ http[at(f)].events # None
  BY <1>3, <1>4, <1>6, HttpFields, EventsNotNone
<1>19. Registered'
  <2>1. ASSUME NEW f \in Fds
        PROVE  /\ fd2chan'[f] \in {fd2http'[f], None}
               /\ reg'[f] = None <=> fd2chan'[f] = None
               /\ f \in rdy' => reg'[f] # None
    <3>1. CASE f \in added
      <4>1. fd2chan'[f] = at(f) /\ reg'[f] = http[at(f)].events
        BY <1>2, <3>1
      <4> QED BY <1>6, <1>11, <1>18, <3>1, <4>1
    <3>2. CASE f \in fds /\ f \notin added
      <4>1. fd2chan'[f] = None /\ reg'[f] = reg[f] /\ (f \in rdy' => f \in rdy)
        BY <1>2, <3>2
      <4> QED BY <1>11, <3>2, <4>1 DEF SubReactorInv, Registered
    <3>3. CASE f \notin fds
      <4>1. fd2chan'[f] = fd2chan[f] /\ reg'[f] = reg[f] /\ (f \in rdy' => f \in rdy)
        BY <1>2, <1>6, <3>3
      <4> QED BY <1>11, <3>3, <4>1 DEF SubReactorInv, Registered
    <3> QED BY <3>1, <3>2, <3>3
  <2> QED BY <2>1 DEF Registered
<1>20. Counted'
  <2>1. /\ Tracked(fd2http') = Tracked(fd2http) \cup fds
        /\ Tracked(fd2http) \cap fds = {}
    <3>1. \A f \in Fds : fd2http'[f] # None <=> fd2http[f] # None \/ f \in fds
      BY <1>11
    <3>2. fds \subseteq Fds /\ \A f \in fds : fd2http[f] = None
      BY <1>4, <1>11
    <3> QED BY <3>1, <3>2 DEF Tracked
  <2>2. IsFiniteSet(Tracked(fd2http)) /\ numSocket = Cardinality(Tracked(fd2http))
    BY DEF SubReactorInv, Counted
  <2>3. /\ IsFiniteSet(Tracked(fd2http'))
        /\ Cardinality(Tracked(fd2http')) = numSocket + Cardinality(fds) - Cardinality({})
    BY <1>7, <2>1, <2>2, FS_Union
  <2>4. Cardinality({}) = 0 /\ Cardinality(fds) \in Nat /\ numSocket \in Nat
    BY <1>7, <2>2, FS_EmptySet, FS_CardinalityType
  <2> QED BY <1>2, <1>7, <2>3, <2>4 DEF Counted
<1>21. InBatch'
  BY <1>2 DEF SubReactorInv, InBatch
<1>22. TypeOK'
  <2>1. http' \in [Conns -> HttpData \cup {None}]
    BY <1>1, <1>2, <1>9 DEF TypeOK
  <2>2. fd2http' \in [Fds -> Conns \cup {None}]
    BY <1>1, <1>2, <1>4 DEF TypeOK
  <2>3. fd2chan' \in [Fds -> Conns \cup {None}]
    BY <1>1, <1>2, <1>4, <1>6 DEF TypeOK
  <2>4. reg' \in [Fds -> (SUBSET Bits) \cup {None}]
    BY <1>1, <1>2, <1>18 DEF TypeOK
  <2>5. rdy' \subseteq Fds /\ timers' \subseteq TimerNode
    BY <1>1, <1>2, <1>4, <1>6, <1>15 DEF TypeOK
  <2>6. numSocket' \in Nat
    BY <1>20, FS_CardinalityType DEF Counted
  <2>7. pending' \in Seq(Conns)
    BY <1>2
  <2> QED BY <1>1, <1>2, <2>1, <2>2, <2>3, <2>4, <2>5, <2>6, <2>7 DEF TypeOK
<1> QED BY <1>12, <1>13, <1>16, <1>17, <1>19, <1>20, <1>21, <1>22 DEF SubReactorInv

LEMMA HandleExpiredInv ==
  ASSUME SubReactorInv, HandleExpired
  PROVE  SubReactorInv'
<1> USE SubReactorAssumption
<1> DEFINE due == {n \in timers : n.due}
           gone == {n.conn : n \in due}
           fds == {FdOf(c) : c \in gone}
<1>1. TypeOK
  BY DEF SubReactorInv
<1>2. /\ pc = "expire" /\ pc' = "poll"
      /\ timers' = timers \ due
      /\ http' = [c \in Conns |-> IF c \in gone
                                  THEN [http[c] EXCEPT !.conn = "disconnected"]
                                  ELSE http[c]]
      /\ reg' = [f \in Fds |-> IF f \in fds THEN None ELSE reg[f]]
      /\ rdy' = rdy \ fds
      /\ fd2chan' = [f \in Fds |-> IF f \in fds THEN None ELSE fd2chan[f]]
      /\ fd2http' = [f \in Fds |-> IF f \in fds THEN None ELSE fd2http[f]]
      /\ numSocket' = numSocket - Cardinality(due)
      /\ UNCHANGED <<batch, pending, sock, cut>>
  BY DEF HandleExpired
<1>3. \A n \in timers : /\ n.conn \in Conns /\ n.conn # None /\ http[n.conn] \in HttpData
                        /\ FdOf(n.conn) \in Fds /\ fd2http[FdOf(n.conn)] = n.conn
  <2>1. \A n \in timers : /\ n.conn \in Conns /\ n.conn # None /\ http[n.conn] # None
                          /\ fd2http[FdOf(n.conn)] = n.conn
    BY <1>1 DEF TypeOK, TimerNode, SubReactorInv, Nodes
  <2> QED BY <1>1, <2>1, HttpOf
<1>4. \A n \in timers : n \notin due => n.conn \notin gone
  BY DEF SubReactorInv, Nodes
<1>5. \A n, m \in due : FdOf(n.conn) = FdOf(m.conn) => n = m
  BY <1>3 DEF SubReactorInv, Nodes
<1>6. fds = {FdOf(n.conn) : n \in due}
  OBVIOUS
<1>7. \A c \in gone : c \in Conns /\ http[c] \in HttpData /\ FdOf(c) \in fds
                      /\ fd2http[FdOf(c)] = c /\ c # None /\ FdOf(c) \in Fds
  BY <1>3
<1>8. \A f \in fds : f \in Fds /\ fd2http[f] \in gone /\ fd2http[f] # None
  BY <1>7
<1>9. due \subseteq timers
  OBVIOUS
<1>10. \A n \in due : n.conn \in gone
  OBVIOUS
<1> HIDE DEF due, gone, fds
<1>11. \A c \in Conns : /\ c \in gone => http'[c] \in HttpData /\ http'[c].fd = http[c].fd
                        /\ c \notin gone => http'[c] = http[c]
  <2>1. ASSUME NEW c \in gone
        PROVE  http'[c] \in HttpData /\ http'[c].fd = http[c].fd
    <3>1. http'[c] = [http[c] EXCEPT !.conn = "disconnected"] /\ http[c] \in HttpData
      BY <1>2, <1>7
    <3> QED BY <3>1 DEF HttpData
  <2>2. \A c \in Conns : c \notin gone => http'[c] = http[c]
    BY <1>2
  <2> QED BY <2>1, <2>2
<1>12. \A f \in Fds : fd2http'[f] # None =>
         /\ f \notin fds /\ fd2http'[f] = fd2http[f] /\ fd2http[f] \in Conns
         /\ fd2http[f] \notin gone /\ http[fd2http[f]] # None /\ FdOf(fd2http[f]) = f
  <2> SUFFICES ASSUME NEW f \in Fds, fd2http'[f] # None
               PROVE  /\ f \notin fds /\ fd2http'[f] = fd2http[f] /\ fd2http[f] \in Conns
                      /\ fd2http[f] \notin gone /\ http[fd2http[f]] # None
                      /\ FdOf(fd2http[f]) = f
    OBVIOUS
  <2>1. f \notin fds /\ fd2http'[f] = fd2http[f]
    BY <1>2
  <2>2. fd2http[f] \in Conns /\ http[fd2http[f]] # None /\ FdOf(fd2http[f]) = f
    BY <1>1, <2>1 DEF TypeOK, SubReactorInv, Entries
  <2> QED BY <1>7, <2>1, <2>2
<1>13. Entries'
  <2>1. \A f \in Fds : fd2http'[f] # None =>
          fd2http'[f] = fd2http[f] /\ http'[fd2http[f]] = http[fd2http[f]]
    BY <1>11, <1>12
  <2>2. \A f \in Fds : fd2http'[f] # None => fd2http[f] # None
    BY <2>1
  <2>3. ASSUME NEW f \in Fds, fd2http'[f] # None
        PROVE  /\ http'[fd2http'[f]] # None /\ http'[fd2http'[f]].fd = f
               /\ http'[fd2http'[f]].conn # "disconnected"
    <3>1. /\ http[fd2http[f]] # None /\ http[fd2http[f]].fd = f
          /\ http[fd2http[f]].conn # "disconnected"
      BY <2>2, <2>3 DEF SubReactorInv, Entries, FdOf
    <3>2. http'[fd2http'[f]] = http[fd2http[f]]
      BY <2>1, <2>3
    <3> QED BY <3>1, <3>2
  <2> QED BY <2>3 DEF Entries, FdOf
<1>14. Deadlines'
  <2>1. ASSUME NEW f \in Fds, fd2http'[f] # None
        PROVE  \/ \E n \in timers' : n.conn = fd2http'[f]
               \/ http'[fd2http'[f]].conn = "disconnecting" /\ fd2http'[f] \in cut'
    <3>1. /\ fd2http'[f] = fd2http[f] /\ fd2http[f] # None /\ fd2http[f] \notin gone
          /\ http'[fd2http[f]] = http[fd2http[f]]
      BY <1>11, <1>12, <2>1
    <3>2. \A n \in timers : n.conn = fd2http[f] => n \in timers'
      BY <1>2, <1>10, <3>1
    <3> QED BY <1>2, <3>1, <3>2 DEF SubReactorInv, Deadlines
  <2> QED BY <2>1 DEF Deadlines
<1>15. \A c \in Range(pending) : /\ c \in Conns /\ c \notin gone /\ http[c] # None
                                 /\ FdOf(c) \in Fds /\ fd2http[FdOf(c)] = None
  BY <1>1, <1>7, QueueRange, HttpOf DEF SubReactorInv, Queued
<1>16. Queued'
  <2>1. \A c \in Range(pending) : http'[c] = http[c] /\ fd2http'[FdOf(c)] = None
    BY <1>2, <1>11, <1>15
  <2>2. pending' = pending
    BY <1>2
  <2> QED BY <2>1, <2>2 DEF SubReactorInv, Queued, FdOf
<1>17. Nodes'
  <2>1. \A n \in timers' : /\ n \in timers /\ n.conn \notin gone
                           /\ http'[n.conn] = http[n.conn] /\ FdOf(n.conn) \notin fds
    BY <1>2, <1>3, <1>4, <1>8, <1>11
  <2>2. \A n \in timers' : fd2http'[FdOf(n.conn)] = fd2http[FdOf(n.conn)]
    BY <1>2, <1>3, <2>1
  <2> QED BY <2>1, <2>2 DEF SubReactorInv, Nodes, FdOf
<1>18. Registered'
  BY <1>2 DEF SubReactorInv, Registered
<1>19. Counted'
  <2>1. Tracked(fd2http') = Tracked(fd2http) \ fds /\ fds \subseteq Tracked(fd2http)
    BY <1>2, <1>8 DEF Tracked
  <2>2. IsFiniteSet(Tracked(fd2http)) /\ numSocket = Cardinality(Tracked(fd2http))
    BY DEF SubReactorInv, Counted
  <2>3. IsFiniteSet(fds)
    BY <2>1, <2>2, FS_Subset
  <2>4. Cardinality(fds) = Cardinality(due)
    <3> DEFINE g == [f \in fds |-> CHOOSE n \in due : FdOf(n.conn) = f]
    <3>1. g \in Bijection(fds, due)
      <4>1. \A f \in fds : g[f] \in due /\ FdOf(g[f].conn) = f
        BY <1>6
      <4>2. \A n \in due : FdOf(n.conn) \in fds /\ g[FdOf(n.conn)] = n
        <5> SUFFICES ASSUME NEW n \in due
                     PROVE  FdOf(n.conn) \in fds /\ g[FdOf(n.conn)] = n
          OBVIOUS
        <5>1. FdOf(n.conn) \in fds
          BY <1>6
        <5>2. g[FdOf(n.conn)] \in due /\ FdOf(g[FdOf(n.conn)].conn) = FdOf(n.conn)
          BY <4>1, <5>1
        <5> HIDE DEF g
        <5> QED BY <1>5, <5>1, <5>2
      <4>3. g \in [fds -> due]
        BY <4>1
      <4> HIDE DEF g
      <4> QED BY <4>1, <4>2, <4>3 DEF Bijection, Injection, Surjection, IsInjective
    <3>2. ExistsBijection(fds, due)
      BY <3>1 DEF ExistsBijection
    <3> QED BY <2>3, <3>2, FS_Bijection
  <2>5. /\ IsFiniteSet(Tracked(fd2http'))
        /\ Cardinality(Tracked(fd2http')) = numSocket - Cardinality(fds)
    <3>1. Tracked(fd2http) \cap fds = fds
      BY <2>1
    <3> QED BY <2>1, <2>2, <3>1, FS_Difference
  <2> QED BY <1>2, <2>4, <2>5 DEF Counted
<1>20. InBatch'
  BY <1>2 DEF SubReactorInv, InBatch
<1>21. TypeOK'
  <2>1. http' \in [Conns -> HttpData \cup {None}]
    BY <1>1, <1>2, <1>11 DEF TypeOK
  <2>2. /\ fd2chan' \in [Fds -> Conns \cup {None}] /\ fd2http' \in [Fds -> Conns \cup {None}]
        /\ reg' \in [Fds -> (SUBSET Bits) \cup {None}]
        /\ rdy' \subseteq Fds /\ timers' \subseteq TimerNode
    BY <1>1, <1>2 DEF TypeOK
  <2>3. numSocket' \in Nat
    BY <1>19, FS_CardinalityType DEF Counted
  <2> QED BY <1>1, <1>2, <2>1, <2>2, <2>3 DEF TypeOK
<1> QED BY <1>13, <1>14, <1>16, <1>17, <1>18, <1>19, <1>20, <1>21 DEF SubReactorInv

-----------------------------------------------------------------------------
(* The theorems.                                                           *)

(* The invariant holds of the reactor for any connections and descriptors. *)
THEOREM SubReactorInvariant == Spec => []SubReactorInv
<1>1. Init => SubReactorInv
  BY InitInv
<1>2. SubReactorInv /\ [Next]_vars => SubReactorInv'
  <2> SUFFICES ASSUME SubReactorInv, [Next]_vars PROVE SubReactorInv'
    OBVIOUS
  <2>1. CASE UNCHANGED vars
    <3>1. UNCHANGED <<pc, batch, pending, http, timers, numSocket, fd2chan, fd2http, reg, rdy, sock, cut>>
      BY <2>1 DEF vars
    <3>2. TypeOK'
      BY <3>1 DEF SubReactorInv, TypeOK
    <3>3. Entries' /\ Queued' /\ Nodes' /\ Deadlines'
      BY <3>1 DEF SubReactorInv, Entries, Queued, Nodes, Deadlines, FdOf
    <3>4. Registered' /\ Counted' /\ InBatch'
      BY <3>1 DEF SubReactorInv, Registered, Counted, Tracked, InBatch, FdOf
    <3> QED BY <3>2, <3>3, <3>4 DEF SubReactorInv
  <2>2. CASE WorkerStep
    BY <2>2, PollInv, HandleEventsInv, EventsDoneInv, DoPendingInv, HandleExpiredInv DEF WorkerStep
  <2>3. CASE \E c \in Conns : Accept(c) \/ Client(c) \/ Elapse(c)
    BY <2>3, AcceptInv, ClientInv, ElapseInv
  <2> QED BY <2>1, <2>2, <2>3 DEF Next
<1> QED BY <1>1, <1>2, PTL DEF Spec

(* The types of the reactor's state.                                       *)
THEOREM SubReactorTypes == Spec => []TypeOK
<1>1. SubReactorInv => TypeOK
  BY DEF SubReactorInv
<1> QED BY <1>1, SubReactorInvariant, PTL

(* The tables of Epoll follow the life of the objects, across descriptors  *)
(* that are closed and returned by accept again.                           *)
THEOREM TablesAlwaysFollow == Spec => []TablesFollowLife
<1>1. SubReactorInv => TablesFollowLife
  <2> SUFFICES ASSUME SubReactorInv PROVE TablesFollowLife
    OBVIOUS
  <2>1. \A f \in Fds : fd2http[f] # None => /\ fd2http[f] \in Held
                                            /\ FdOf(fd2http[f]) = f
                                            /\ http[fd2http[f]].conn # "disconnected"
    BY HeldIs DEF SubReactorInv, Entries, TypeOK
  <2> QED BY <2>1 DEF SubReactorInv, Registered, Counted, Tracked, TablesFollowLife, Open
<1> QED BY <1>1, SubReactorInvariant, PTL

(* Every registered connection has exactly one timer, the linked one, or   *)
(* is stuck.                                                               *)
THEOREM AlwaysOneDeadline == Spec => []OneDeadline
<1>1. SubReactorInv => OneDeadline
  <2> SUFFICES ASSUME SubReactorInv, NEW c \in Held \ Range(pending)
               PROVE  \/ Cardinality(TimersOf(c)) = 1 /\ \A n \in TimersOf(c) : n.linked
                      \/ Stuck(c)
    BY DEF OneDeadline
  <2>1. c \in Conns /\ c # None /\ FdOf(c) \in Fds /\ fd2http[FdOf(c)] = c
    BY HeldIs, SubReactorAssumption
  <2>2. \A n \in TimersOf(c) : n.linked
    BY DEF SubReactorInv, Nodes, TimersOf
  <2>3. CASE \E n \in timers : n.conn = c
    <3>1. PICK n \in timers : n.conn = c
      BY <2>3
    <3>2. TimersOf(c) = {n}
      BY <3>1 DEF TimersOf, SubReactorInv, Nodes
    <3> QED BY <2>2, <3>2, FS_Singleton
  <2>4. CASE ~ \E n \in timers : n.conn = c
    <3>1. TimersOf(c) = {}
      BY <2>4 DEF TimersOf
    <3>2. http[c].conn = "disconnecting" /\ c \in cut
      BY <2>1, <2>4 DEF SubReactorInv, Deadlines
    <3> QED BY <3>1, <3>2 DEF Stuck, Open
  <2> QED BY <2>3, <2>4
<1> QED BY <1>1, SubReactorInvariant, PTL

(* A channel that poll returned is still there when its handlers run.      *)
THEOREM BatchAlwaysAlive == Spec => []BatchAlive
<1>1. SubReactorInv => BatchAlive
  <2> SUFFICES ASSUME SubReactorInv, NEW c \in DOMAIN batch
               PROVE  Open(c) /\ fd2chan[FdOf(c)] = c
    BY DEF BatchAlive
  <2>1. c \in Conns /\ FdOf(c) \in Fds /\ fd2chan[FdOf(c)] = c
    BY InBatchIs
  <2> QED BY <2>1, ChannelOwner DEF Open
<1> QED BY <1>1, SubReactorInvariant, PTL

-----------------------------------------------------------------------------
(* No connection goes deaf under edge-triggered, one-shot epoll: what the  *)
(* kernel is registered for follows what the channel believes, through     *)
(* every handler.                                                          *)

\* A connection in the table that the kernel is registered for.
Listens(c) ==
    /\ http[c] # None /\ FdOf(c) \in Fds
    /\ fd2http[FdOf(c)] = c /\ reg[FdOf(c)] # None

\* The stuck connection, without its being open.
Lost(c) == http[c].conn = "disconnecting" /\ c \in cut /\ TimersOf(c) = {}

(* A connection no handler is due for: it is registered for its last       *)
(* events and what the kernel could report is on the ready list.           *)
Heard(c) ==
    \/ sock[c].rst
    \/ Lost(c)
    \/ /\ reg[FdOf(c)] = http[c].last
       /\ Reported(sock[c], http[c].last) # {} => FdOf(c) \in rdy

(* A connection of the batch: poll reported only what it had asked for,    *)
(* and a registration that is not one-shot is still there.                 *)
InFlight(c) ==
    /\ "ERR" \in batch[c] => sock[c].rst
    /\ \/ sock[c].rst
       \/ http[c].conn = "disconnecting"
       \/ /\ batch[c] \subseteq http[c].last \cup {"ERR"}
          /\ "ONESHOT" \notin http[c].last => reg[FdOf(c)] = http[c].last

Attended(c) == Listens(c) => IF c \in DOMAIN batch THEN InFlight(c) ELSE Heard(c)

(* Inductive relative to SubReactorInv.                                    *)
ReadinessInv == \A c \in Conns : Attended(c)

-----------------------------------------------------------------------------
\* What a step must leave of a connection for it to stay attended.
Unmoved(c) ==
    /\ http'[c] = http[c] /\ sock'[c] = sock[c]
    /\ fd2http'[FdOf(c)] = fd2http[FdOf(c)]
    /\ reg'[FdOf(c)] = reg[FdOf(c)]
    /\ FdOf(c) \in rdy => FdOf(c) \in rdy'
    /\ cut \subseteq cut'
    /\ \A n \in timers' : n.conn = c => \E m \in timers : m.conn = c
    /\ c \in DOMAIN batch' <=> c \in DOMAIN batch
    /\ c \in DOMAIN batch => batch'[c] = batch[c]

LEMMA UnmovedAttended ==
  ASSUME NEW c \in Conns, Attended(c), Listens(c)' => Unmoved(c)
  PROVE  Attended(c)'
<1> SUFFICES ASSUME Listens(c)'
             PROVE  (IF c \in DOMAIN batch THEN InFlight(c) ELSE Heard(c))'
  BY DEF Attended
<1>1. Unmoved(c)
  OBVIOUS
<1>2. http'[c] = http[c] /\ sock'[c] = sock[c] /\ reg'[http[c].fd] = reg[http[c].fd]
  BY <1>1 DEF Unmoved, FdOf
<1>3. Listens(c)
  BY <1>1 DEF Unmoved, Listens, FdOf
<1>4. Lost(c) => Lost(c)'
  BY <1>1 DEF Unmoved, Lost, TimersOf
<1>5. CASE c \in DOMAIN batch
  <2>1. InFlight(c) /\ c \in DOMAIN batch' /\ batch'[c] = batch[c]
    BY <1>1, <1>3, <1>5 DEF Attended, Unmoved
  <2> QED BY <1>2, <2>1 DEF InFlight, FdOf
<1>6. CASE c \notin DOMAIN batch
  <2>1. Heard(c) /\ c \notin DOMAIN batch' /\ (FdOf(c) \in rdy => FdOf(c) \in rdy')
    BY <1>1, <1>3, <1>6 DEF Attended, Unmoved
  <2>2. Reported(sock[c], http[c].last)' = Reported(sock[c], http[c].last)
    BY <1>2 DEF Reported, Mask
  <2> QED BY <1>2, <1>4, <2>1, <2>2 DEF Heard, FdOf
<1> QED BY <1>5, <1>6

-----------------------------------------------------------------------------
(* The clients, the main thread and the clock.                             *)

\* A step of a client on its socket, with the edge of what it makes ready.
LEMMA SocketHeard ==
  ASSUME SubReactorInv, ReadinessInv, NEW c \in Conns, NEW k \in Socket, NEW bits,
         sock' = [sock EXCEPT ![c] = k], Edge(c, bits),
         UNCHANGED <<Worker, pending, AllBut>>,
         sock[c].rst => k.rst,
         ~k.rst => Mask(k) \subseteq Mask(sock[c]) \cup bits
  PROVE  ReadinessInv'
<1> USE SubReactorAssumption
<1>1. TypeOK /\ UNCHANGED <<pc, batch, pending, http, timers, numSocket, fd2chan, fd2http, reg, cut>>
  BY DEF SubReactorInv, Worker, AllBut
<1>2. rdy \subseteq rdy'
  BY DEF Edge
<1>3. sock'[c] = k /\ \A d \in Conns \ {c} : sock'[d] = sock[d]
  BY <1>1 DEF TypeOK
<1>4. ASSUME NEW d \in Conns \ {c} PROVE Attended(d)'
  <2>1. Unmoved(d)
    BY <1>1, <1>2, <1>3 DEF Unmoved, FdOf
  <2> QED BY <2>1, UnmovedAttended DEF ReadinessInv
<1>5. Attended(c)'
  <2> SUFFICES ASSUME Listens(c)'
               PROVE  (IF c \in DOMAIN batch THEN InFlight(c) ELSE Heard(c))'
    BY DEF Attended
  <2>1. Listens(c) /\ Attended(c)
    BY <1>1 DEF Listens, FdOf, ReadinessInv
  <2>2. CASE k.rst
    BY <1>1, <1>3, <2>1, <2>2 DEF Attended, InFlight, Heard, FdOf
  <2>3. CASE ~k.rst /\ c \in DOMAIN batch
    BY <1>1, <1>3, <2>1, <2>3 DEF Attended, InFlight, FdOf
  <2>4. CASE ~k.rst /\ c \notin DOMAIN batch /\ Lost(c)
    <3>1. Lost(c)'
      BY <1>1, <2>4 DEF Lost, TimersOf
    <3> QED BY <1>1, <2>4, <3>1 DEF Heard
  <2>5. CASE ~k.rst /\ c \notin DOMAIN batch /\ ~Lost(c)
    <3>1. /\ reg[FdOf(c)] = http[c].last /\ reg[FdOf(c)] # None
          /\ Reported(sock[c], http[c].last) # {} => FdOf(c) \in rdy
      BY <2>1, <2>5 DEF Attended, Heard, Listens
    <3>2. Open(c)
      BY <2>1, HeldIs DEF Open, Listens
    <3>3. ASSUME Reported(k, http[c].last) # {} PROVE FdOf(c) \in rdy'
      <4>1. http[c].last # {} /\ Mask(k) \cap (http[c].last \cup {"ERR"}) # {}
        BY <3>3 DEF Reported
      <4>2. CASE Mask(sock[c]) \cap (http[c].last \cup {"ERR"}) # {}
        BY <1>2, <3>1, <4>1, <4>2 DEF Reported
      <4>3. CASE Mask(sock[c]) \cap (http[c].last \cup {"ERR"}) = {}
        <5>1. bits \cap (reg[FdOf(c)] \cup {"ERR"}) # {}
          BY <2>5, <3>1, <4>1, <4>3
        <5> QED BY <3>1, <3>2, <4>1, <5>1 DEF Edge
      <4> QED BY <4>2, <4>3
    <3>4. Heard(c)'
      BY <1>1, <1>3, <3>1, <3>3 DEF Heard, FdOf
    <3> QED BY <1>1, <2>5, <3>4
  <2> QED BY <2>2, <2>3, <2>4, <2>5
<1> QED BY <1>4, <1>5 DEF ReadinessInv

LEMMA ClientHeard ==
  ASSUME SubReactorInv, ReadinessInv, NEW c \in Conns, Client(c)
  PROVE  ReadinessInv'
<1> USE SubReactorAssumption
<1>1. sock[c] \in Socket
  BY DEF SubReactorInv, TypeOK
<1>2. CASE \E chunk \in Chunks : Send(c, chunk)
  <2>1. PICK chunk \in Chunks : Send(c, chunk)
    BY <1>2
  <2> DEFINE k == [sock[c] EXCEPT !.data = Append(@, chunk), !.sent = @ + 1]
  <2>2. /\ k \in Socket /\ k.fin = sock[c].fin /\ k.full = sock[c].full
        /\ k.rst = sock[c].rst
    <3>1. /\ sock[c].data \in Seq(Chunks) /\ sock[c].sent \in 0..MaxChunks
          /\ sock[c].sent < MaxChunks
      BY <1>1, <2>1 DEF Send, Socket
    <3>2. Append(sock[c].data, chunk) \in Seq(Chunks) /\ sock[c].sent + 1 \in 0..MaxChunks
      BY <3>1
    <3> QED BY <1>1, <3>2 DEF Socket
  <2>3. /\ sock' = [sock EXCEPT ![c] = k] /\ Edge(c, {"IN"})
        /\ UNCHANGED <<Worker, pending, AllBut>>
    BY <2>1 DEF Send
  <2> HIDE DEF k
  <2>4. ~k.rst => Mask(k) \subseteq Mask(sock[c]) \cup {"IN"}
    BY <2>2 DEF Mask
  <2> QED BY <2>2, <2>3, <2>4, SocketHeard
<1>3. CASE ClientClose(c)
  <2> DEFINE k == [sock[c] EXCEPT !.fin = TRUE]
  <2>1. k \in Socket /\ k.full = sock[c].full /\ k.rst = sock[c].rst
    BY <1>1 DEF Socket
  <2>2. /\ sock' = [sock EXCEPT ![c] = k] /\ Edge(c, {"IN"})
        /\ UNCHANGED <<Worker, pending, AllBut>>
    BY <1>3 DEF ClientClose
  <2> HIDE DEF k
  <2>3. ~k.rst => Mask(k) \subseteq Mask(sock[c]) \cup {"IN"}
    BY <2>1 DEF Mask
  <2> QED BY <2>1, <2>2, <2>3, SocketHeard
<1>4. CASE ClientReset(c)
  <2> DEFINE k == [sock[c] EXCEPT !.rst = TRUE]
  <2>1. k \in Socket /\ k.rst
    BY <1>1 DEF Socket
  <2>2. /\ sock' = [sock EXCEPT ![c] = k] /\ Edge(c, {"IN", "OUT", "ERR"})
        /\ UNCHANGED <<Worker, pending, AllBut>>
    BY <1>4 DEF ClientReset
  <2> HIDE DEF k
  <2> QED BY <2>1, <2>2, SocketHeard
<1>5. CASE Drain(c)
  <2> DEFINE k == [sock[c] EXCEPT !.full = FALSE]
  <2>1. k \in Socket /\ k.data = sock[c].data /\ k.fin = sock[c].fin /\ k.rst = sock[c].rst
    BY <1>1 DEF Socket
  <2>2. /\ sock' = [sock EXCEPT ![c] = k] /\ Edge(c, {"OUT"})
        /\ UNCHANGED <<Worker, pending, AllBut>>
    BY <1>5 DEF Drain
  <2> HIDE DEF k
  <2>3. ~k.rst => Mask(k) \subseteq Mask(sock[c]) \cup {"OUT"}
    BY <2>1 DEF Mask
  <2> QED BY <2>1, <2>2, <2>3, SocketHeard
<1> QED BY <1>2, <1>3, <1>4, <1>5 DEF Client

LEMMA AcceptHeard ==
  ASSUME SubReactorInv, SubReactorInv', ReadinessInv, NEW c \in Conns, Accept(c)
  PROVE  ReadinessInv'
<1> USE SubReactorAssumption
<1>1. /\ TypeOK /\ UNCHANGED <<pc, batch, timers, numSocket, fd2chan, fd2http, reg, rdy, sock, cut>>
      /\ http[c] = None /\ pending' = Append(pending, c)
  BY DEF SubReactorInv, Accept, Accepted, Worker, tables, kernel
<1>2. \A d \in Conns \ {c} : http'[d] = http[d]
  BY <1>1 DEF TypeOK, Accept
<1>3. ASSUME NEW d \in Conns \ {c} PROVE Attended(d)'
  <2>1. Unmoved(d)
    BY <1>1, <1>2 DEF Unmoved, FdOf
  <2> QED BY <2>1, UnmovedAttended DEF ReadinessInv
<1>4. Attended(c)'
  <2>1. c \in Range(pending')
    BY <1>1, QueueRange
  <2>2. fd2http'[http'[c].fd] = None
    BY <2>1 DEF SubReactorInv, Queued, FdOf
  <2>3. ~Listens(c)'
    BY <2>2 DEF Listens, FdOf
  <2> QED BY <2>3 DEF Attended
<1> QED BY <1>3, <1>4 DEF ReadinessInv

LEMMA ElapseHeard ==
  ASSUME SubReactorInv, ReadinessInv, NEW c \in Conns, Elapse(c)
  PROVE  ReadinessInv'
<1>1. UNCHANGED <<pc, batch, pending, http, numSocket, fd2chan, fd2http, reg, rdy, sock, cut>>
  BY DEF Elapse, Worker, tables, kernel
<1>2. PICK n \in timers :
         /\ n.conn = c
         /\ timers' = (timers \ {n}) \cup {[n EXCEPT !.due = TRUE]}
  BY DEF Elapse
<1>3. [n EXCEPT !.due = TRUE].conn = c
  BY <1>2 DEF SubReactorInv, TypeOK, TimerNode
<1>4. ASSUME NEW d \in Conns PROVE Attended(d)'
  <2>1. Unmoved(d)
    BY <1>1, <1>2, <1>3 DEF Unmoved, FdOf
  <2> QED BY <2>1, UnmovedAttended DEF ReadinessInv
<1> QED BY <1>4 DEF ReadinessInv

-----------------------------------------------------------------------------
(* The worker.                                                             *)

LEMMA PollHeard ==
  ASSUME SubReactorInv, ReadinessInv, Poll
  PROVE  ReadinessInv'
<1> USE SubReactorAssumption
<1> DEFINE rep(f) == LET c == CHOOSE c \in Held : FdOf(c) = f
                     IN  Reported(sock[c], reg[f])
           hit == {f \in rdy : rep(f) # {}}
           got == {c \in Conns : \E f \in hit : fd2chan[f] = c}
<1>1. TypeOK /\ DOMAIN batch = {}
  BY DEF SubReactorInv, InBatch, Poll
<1>2. /\ batch' = [c \in got |-> rep(FdOf(c))]
      /\ http' = [c \in Conns |-> IF c \in got THEN [http[c] EXCEPT !.events = {}]
                                               ELSE http[c]]
      /\ reg' = [f \in Fds |-> IF f \in hit /\ "ONESHOT" \in reg[f] THEN {} ELSE reg[f]]
      /\ rdy' = {}
      /\ UNCHANGED <<pending, timers, numSocket, fd2chan, fd2http, sock, cut>>
  BY DEF Poll, tables
<1>3. SUFFICES ASSUME NEW c \in Conns, Listens(c)'
               PROVE  (IF c \in DOMAIN batch THEN InFlight(c) ELSE Heard(c))'
  BY DEF ReadinessInv, Attended
<1>4. /\ http'[c] # None => http[c] # None
      /\ http[c] # None => /\ http'[c].fd = http[c].fd /\ http'[c].conn = http[c].conn
                           /\ http'[c].last = http[c].last
  <2>1. c \in got => http[c] # None
    <3> SUFFICES ASSUME c \in got PROVE http[c] # None
      OBVIOUS
    <3>1. PICK f \in Fds : fd2chan[f] = c
      BY <1>1 DEF TypeOK
    <3> QED BY <3>1, ChannelOwner, HttpFields
  <2>2. c \notin got => http'[c] = http[c]
    BY <1>2
  <2>3. ASSUME c \in got
        PROVE  /\ http'[c].fd = http[c].fd /\ http'[c].conn = http[c].conn
               /\ http'[c].last = http[c].last
    <3>1. http'[c] = [http[c] EXCEPT !.events = {}] /\ http[c] \in HttpData
      BY <1>1, <1>2, <2>1, <2>3, HttpOf
    <3> HIDE DEF got
    <3> QED BY <3>1 DEF HttpData
  <2> HIDE DEF got
  <2> QED BY <2>1, <2>2, <2>3
<1> DEFINE f == FdOf(c)
<1>5. /\ http[c] # None /\ http[c] \in HttpData /\ f \in Fds /\ fd2http[f] = c /\ http'[c].fd = f
  BY <1>1, <1>2, <1>3, <1>4, HttpOf DEF Listens, FdOf
<1>6. reg[f] # None
  <2>1. reg'[f] # None
    BY <1>3, <1>5 DEF Listens, FdOf
  <2>2. f \in rdy => reg[f] # None
    BY <1>5 DEF SubReactorInv, Registered
  <2> QED BY <1>2, <1>5, <2>1, <2>2
<1>7. fd2chan[f] = c /\ Listens(c) /\ c \in Held
  <2>1. fd2chan[f] = c
    BY <1>5, <1>6 DEF SubReactorInv, Registered
  <2> QED BY <1>5, <1>6, <2>1, HeldIs DEF Listens
<1>8. rep(f) = Reported(sock[c], reg[f])
  <2>1. (CHOOSE d \in Held : FdOf(d) = f) = c
    BY <1>7, HeldIs
  <2> QED BY <2>1
<1>9. Heard(c)
  BY <1>1, <1>7 DEF ReadinessInv, Attended
<1>10. c \in got <=> f \in hit
  <2>1. \A g \in hit : fd2chan[g] = c => g = f
    <3>1. \A g \in Fds : fd2chan[g] = c => g = f
      BY ChannelOwner
    <3> QED BY <1>1, <3>1 DEF TypeOK
  <2> HIDE DEF rep, f
  <2> QED BY <1>7, <2>1
<1>11. f \in hit <=> f \in rdy /\ Reported(sock[c], reg[f]) # {}
  BY <1>8
<1>12. DOMAIN batch' = got /\ (c \in got => batch'[c] = Reported(sock[c], reg[f]))
  BY <1>2, <1>8
<1>13. reg'[f] = IF f \in hit /\ "ONESHOT" \in reg[f] THEN {} ELSE reg[f]
  BY <1>2, <1>5
<1>14. sock' = sock /\ cut' = cut /\ timers' = timers
  BY <1>2
<1> HIDE DEF rep, hit, got, f
<1>15. http'[c].fd = f /\ http'[c].conn = http[c].conn /\ http'[c].last = http[c].last
  BY <1>4, <1>5
<1>16. CASE c \in got
  <2>1. batch'[c] = Reported(sock[c], reg[f])
    BY <1>12, <1>16
  <2>2. "ERR" \in batch'[c] => sock[c].rst
    BY <2>1 DEF Reported, Mask
  <2>3. CASE sock[c].rst \/ Lost(c)
    <3>1. InFlight(c)'
      BY <1>14, <1>15, <2>2, <2>3 DEF InFlight, Lost
    <3> QED BY <1>12, <1>16, <3>1
  <2>4. CASE reg[f] = http[c].last
    <3>1. batch'[c] \subseteq http[c].last \cup {"ERR"}
      BY <2>1, <2>4 DEF Reported
    <3>2. "ONESHOT" \notin http[c].last => reg'[f] = http[c].last
      BY <1>13, <2>4
    <3>3. InFlight(c)'
      BY <1>14, <1>15, <2>2, <3>1, <3>2 DEF InFlight, FdOf
    <3> QED BY <1>12, <1>16, <3>3
  <2> QED BY <1>9, <2>3, <2>4 DEF Heard, f
<1>17. CASE c \notin got
  <2>1. f \notin hit /\ reg'[f] = reg[f]
    BY <1>10, <1>13, <1>17
  <2>2. CASE sock[c].rst
    BY <1>12, <1>14, <1>17, <2>2 DEF Heard
  <2>3. CASE Lost(c)
    <3>1. Lost(c)'
      BY <1>14, <1>15, <2>3 DEF Lost, TimersOf
    <3> QED BY <1>12, <1>17, <3>1 DEF Heard
  <2>4. CASE /\ reg[f] = http[c].last
             /\ Reported(sock[c], http[c].last) # {} => f \in rdy
    <3>1. Reported(sock[c], http[c].last) = {}
      BY <1>11, <2>1, <2>4
    <3>2. Reported(sock'[c], http'[c].last) = {}
      BY <1>14, <1>15, <3>1
    <3>3. Reported(sock[c], http[c].last)' = {}
      BY <3>2 DEF Reported, Mask
    <3>4. Heard(c)'
      BY <1>15, <2>1, <2>4, <3>3 DEF Heard, FdOf
    <3> QED BY <1>12, <1>17, <3>4
  <2> QED BY <1>9, <2>2, <2>3, <2>4 DEF Heard, f
<1> QED BY <1>16, <1>17

\* After a handler has run on c, the other connections are where they were.
LEMMA OthersHeard ==
  ASSUME SubReactorInv, ReadinessInv, NEW c, NEW h, Handler(c, h),
         NEW d \in Conns \ {c},
         http'[d] = http[d], sock'[d] = sock[d],
         \A f \in Fds \ {h.fd} : /\ fd2http'[f] = fd2http[f] /\ reg'[f] = reg[f]
                                 /\ f \in rdy => f \in rdy',
         fd2http'[h.fd] \in {c, None},
         \A n \in timers' : n.conn = d => \E m \in timers : m.conn = d
  PROVE  Attended(d)'
<1> USE SubReactorAssumption
<1>1. ASSUME Listens(d)' PROVE Unmoved(d)
  <2>1. FdOf(d) \in Fds /\ FdOf(d) # h.fd
    BY <1>1 DEF Listens, FdOf
  <2>2. /\ d \in DOMAIN batch' <=> d \in DOMAIN batch
        /\ d \in DOMAIN batch => batch'[d] = batch[d]
    BY DEF Handler
  <2>3. cut \subseteq cut'
    BY DEF Handler
  <2> QED BY <2>1, <2>2, <2>3 DEF Unmoved
<1> QED BY <1>1, UnmovedAttended DEF ReadinessInv

\* updatePoller: the new events are what the kernel is registered for, or
\* they are the old ones and nothing was missed in between.
LEMMA UpdateHeard ==
  ASSUME SubReactorInv, ReadinessInv, NEW c, NEW h0, Handler(c, h0),
         NEW h \in HttpData, NEW k,
         h.fd = h0.fd, Update(c, h, k, Separate(c)),
         sock'[c] = k, \A d \in Conns \ {c} : sock'[d] = sock[d],
         ~k.rst /\ h.events = h.last =>
             reg[h.fd] = h.last /\ Reported(k, h.last) = {}
  PROVE  ReadinessInv'
<1> USE SubReactorAssumption
<1> DEFINE h2 == [h EXCEPT !.last = h.events]
           node == [conn |-> c, due |-> FALSE, linked |-> TRUE]
<1>1. TypeOK /\ c \in DOMAIN batch /\ h.fd = FdOf(c)
  BY DEF SubReactorInv, Handler
<1>2. /\ c \in Conns /\ h.fd \in Fds /\ fd2http[h.fd] = c /\ reg[h.fd] # None
      /\ Separate(c) = {n \in timers : n.conn # c}
  BY <1>1, InBatchIs
<1>3. /\ http' = [http EXCEPT ![c] = h2]
      /\ timers' = AddTimer(Separate(c), c)
      /\ \/ h.events = h.last /\ UNCHANGED <<reg, rdy>>
         \/ /\ reg' = [reg EXCEPT ![h.fd] = h.events]
            /\ rdy' = Arm(rdy, h.fd, k, h.events)
      /\ UNCHANGED <<numSocket, fd2http>>
  BY <1>2 DEF Update, kernel
<1>4. h2.fd = h.fd /\ h2.last = h.events
  BY DEF HttpData
<1>5. timers' = {n \in timers : n.conn # c} \cup {node}
  <2> DEFINE S == {n \in timers : n.conn # c}
  <2>1. {IF n.conn = c THEN [n EXCEPT !.linked = FALSE] ELSE n : n \in S} = S
    OBVIOUS
  <2> QED BY <1>2, <1>3, <2>1 DEF AddTimer
<1>6. node.conn = c
  OBVIOUS
<1> HIDE DEF h2, node
<1>7. http'[c] = h2 /\ \A d \in Conns \ {c} : http'[d] = http[d]
  BY <1>1, <1>2, <1>3 DEF TypeOK
<1>8. \A f \in Fds \ {h.fd} : reg'[f] = reg[f] /\ (f \in rdy => f \in rdy')
  BY <1>1, <1>3 DEF TypeOK, Arm
<1>9. ASSUME NEW d \in Conns \ {c} PROVE Attended(d)'
  <2>1. \A n \in timers' : n.conn = d => \E m \in timers : m.conn = d
    BY <1>5, <1>6
  <2>2. /\ \A f \in Fds \ {h0.fd} : /\ fd2http'[f] = fd2http[f] /\ reg'[f] = reg[f]
                                    /\ f \in rdy => f \in rdy'
        /\ fd2http'[h0.fd] \in {c, None}
    BY <1>2, <1>3, <1>8
  <2>3. http'[d] = http[d] /\ sock'[d] = sock[d]
    BY <1>7
  <2> QED BY <2>1, <2>2, <2>3, OthersHeard
<1>10. Attended(c)'
  <2>1. c \notin DOMAIN batch' /\ FdOf(c)' = h.fd /\ http'[c].last = h.events
    BY <1>4, <1>7 DEF Handler, FdOf
  <2>2. CASE k.rst
    <3>1. Heard(c)'
      BY <2>2 DEF Heard
    <3> QED BY <2>1, <3>1 DEF Attended
  <2>3. CASE ~k.rst /\ h.events = h.last /\ UNCHANGED <<reg, rdy>>
    <3>1. reg'[h.fd] = http'[c].last /\ Reported(k, http'[c].last) = {}
      BY <2>1, <2>3
    <3>2. Reported(sock[c], http[c].last)' = {}
      BY <3>1 DEF Reported, Mask
    <3>3. Heard(c)'
      BY <2>1, <3>1, <3>2 DEF Heard
    <3> QED BY <2>1, <3>3 DEF Attended
  <2>4. CASE /\ reg' = [reg EXCEPT ![h.fd] = h.events]
             /\ rdy' = Arm(rdy, h.fd, k, h.events)
    <3>1. reg'[h.fd] = http'[c].last
      BY <1>1, <1>2, <2>1, <2>4 DEF TypeOK
    <3>2. Reported(k, http'[c].last) # {} => h.fd \in rdy'
      BY <2>1, <2>4 DEF Arm
    <3>3. Reported(sock[c], http[c].last)' # {} => h.fd \in rdy'
      BY <3>2 DEF Reported, Mask
    <3>4. Heard(c)'
      BY <2>1, <3>1, <3>3 DEF Heard
    <3> QED BY <2>1, <3>4 DEF Attended
  <2> QED BY <1>3, <2>2, <2>3, <2>4
<1> QED BY <1>9, <1>10 DEF ReadinessInv

LEMMA CloseHeard ==
  ASSUME SubReactorInv, ReadinessInv, NEW c, NEW h, Handler(c, h),
         Close(c, h, Separate(c)), \A d \in Conns \ {c} : sock'[d] = sock[d]
  PROVE  ReadinessInv'
<1> USE SubReactorAssumption
<1>1. TypeOK /\ c \in DOMAIN batch /\ h.fd = FdOf(c) /\ h \in HttpData
  BY DEF SubReactorInv, Handler
<1>2. c \in Conns /\ h.fd \in Fds /\ Separate(c) \subseteq timers
  BY <1>1, InBatchIs DEF Separate
<1>3. /\ http' = [http EXCEPT ![c] = [h EXCEPT !.conn = "disconnected"]]
      /\ timers' = Separate(c)
      /\ reg' = [reg EXCEPT ![h.fd] = None] /\ rdy' = rdy \ {h.fd}
      /\ fd2http' = [fd2http EXCEPT ![h.fd] = None]
  BY DEF Close, RemoveFromPoller
<1>4. http'[c].fd = h.fd /\ \A d \in Conns \ {c} : http'[d] = http[d]
  <2>1. [h EXCEPT !.conn = "disconnected"].fd = h.fd
    BY <1>1 DEF HttpData
  <2> QED BY <1>1, <1>2, <1>3, <2>1 DEF TypeOK
<1>5. /\ \A f \in Fds \ {h.fd} : /\ fd2http'[f] = fd2http[f] /\ reg'[f] = reg[f]
                                 /\ f \in rdy => f \in rdy'
      /\ fd2http'[h.fd] = None
  BY <1>1, <1>2, <1>3 DEF TypeOK
<1>6. ASSUME NEW d \in Conns \ {c} PROVE Attended(d)'
  <2>1. \A n \in timers' : n.conn = d => \E m \in timers : m.conn = d
    BY <1>2, <1>3
  <2>2. http'[d] = http[d] /\ sock'[d] = sock[d]
    BY <1>4
  <2> QED BY <1>5, <2>1, <2>2, OthersHeard
<1>7. Attended(c)'
  <2>1. ~Listens(c)'
    BY <1>2, <1>4, <1>5 DEF Listens, FdOf
  <2> QED BY <2>1 DEF Attended
<1> QED BY <1>6, <1>7 DEF ReadinessInv

LEMMA StuckHeard ==
  ASSUME SubReactorInv, ReadinessInv, NEW c, NEW h, Handler(c, h), NEW h2 \in HttpData,
         h2.conn = "disconnecting", c \in cut',
         http' = [http EXCEPT ![c] = h2], timers' = Separate(c),
         UNCHANGED <<tables, kernel>>, \A d \in Conns \ {c} : sock'[d] = sock[d]
  PROVE  ReadinessInv'
<1> USE SubReactorAssumption
<1>1. /\ TypeOK /\ c \in DOMAIN batch /\ h.fd = FdOf(c)
      /\ UNCHANGED <<numSocket, fd2chan, fd2http, reg, rdy>>
  BY DEF SubReactorInv, Handler, tables, kernel
<1>2. /\ c \in Conns /\ fd2http[h.fd] = c
      /\ timers' = {n \in timers : n.conn # c}
  BY <1>1, InBatchIs
<1>3. http'[c] = h2 /\ \A d \in Conns \ {c} : http'[d] = http[d]
  BY <1>1, <1>2 DEF TypeOK
<1>4. ASSUME NEW d \in Conns \ {c} PROVE Attended(d)'
  <2>1. \A n \in timers' : n.conn = d => \E m \in timers : m.conn = d
    BY <1>2
  <2>2. /\ \A f \in Fds \ {h.fd} : /\ fd2http'[f] = fd2http[f] /\ reg'[f] = reg[f]
                                   /\ f \in rdy => f \in rdy'
        /\ fd2http'[h.fd] \in {c, None}
    BY <1>1, <1>2
  <2>3. http'[d] = http[d] /\ sock'[d] = sock[d]
    BY <1>3
  <2> QED BY <2>1, <2>2, <2>3, OthersHeard
<1>5. Attended(c)'
  <2>1. c \notin DOMAIN batch'
    BY DEF Handler
  <2>2. Lost(c)'
    BY <1>2, <1>3 DEF Lost, TimersOf
  <2> QED BY <2>1, <2>2 DEF Attended, Heard
<1> QED BY <1>4, <1>5 DEF ReadinessInv

(* handleConn.  The events it sets are never one-shot; those of a short    *)
(* response that was read for are new; the keep-alive ones may be the old  *)
(* ones, and then everything the socket had has been read.                 *)
LEMMA HandleConnHeard ==
  ASSUME SubReactorInv, ReadinessInv, NEW c, NEW h, NEW k,
         Handler(c, h), HandleConn(c, h, k),
         sock'[c] = k, \A d \in Conns \ {c} : sock'[d] = sock[d],
         ~h.error /\ h.conn = "disconnecting" /\ "OUT" \in h.events => c \in cut',
         h.events \subseteq {"OUT"},
         ~k.rst /\ ~h.error /\ h.conn = "connected" =>
             /\ "ONESHOT" \notin h.last => reg[h.fd] = h.last
             /\ h.events # {} => h.last # {"OUT", "ET"}
             /\ h.events = {} /\ h.last = {"IN", "ET"} => Reported(k, h.last) = {}
  PROVE  ReadinessInv'
<1> DEFINE more == [h EXCEPT !.events = {"OUT", "ET"}]
           again == [h EXCEPT !.events = KeepAliveEvents]
<1>1. h \in HttpData
  BY DEF Handler
<1>2. /\ more \in HttpData /\ more.fd = h.fd /\ more.last = h.last /\ more.conn = h.conn
      /\ more.events = {"OUT", "ET"}
      /\ again \in HttpData /\ again.fd = h.fd /\ again.last = h.last
      /\ again.events = {"IN", "ET"}
  <2>1. {"OUT", "ET"} \subseteq Bits /\ KeepAliveEvents = {"IN", "ET"} /\ KeepAliveEvents \subseteq Bits
    BY DEF Bits, KeepAliveEvents
  <2> QED BY <1>1, <2>1 DEF HttpData
<1>3. h.events # {} => [h EXCEPT !.events = IF {"IN", "OUT"} \subseteq @
                                           THEN {"OUT", "ET"} ELSE @ \cup {"ET"}] = more
  <2>1. h.events # {} => h.events \cup {"ET"} = {"OUT", "ET"}
    OBVIOUS
  <2> QED BY <2>1
<1>4. \/ /\ ~h.error /\ h.conn = "connected" /\ h.events # {}
         /\ Update(c, more, k, Separate(c))
      \/ /\ ~h.error /\ h.conn = "connected" /\ h.events = {}
         /\ Update(c, again, k, Separate(c))
      \/ /\ ~h.error /\ h.conn = "disconnecting" /\ "OUT" \in h.events
         /\ http' = [http EXCEPT ![c] = more] /\ timers' = Separate(c)
         /\ UNCHANGED <<tables, kernel>>
      \/ Close(c, h, Separate(c))
  BY <1>3 DEF HandleConn
<1> HIDE DEF more, again
<1>5. CASE /\ ~h.error /\ h.conn = "connected" /\ h.events # {}
           /\ Update(c, more, k, Separate(c))
  <2>1. k.rst \/ more.events # more.last
    BY <1>2, <1>5
  <2> QED BY <1>2, <1>5, <2>1, UpdateHeard
<1>6. CASE /\ ~h.error /\ h.conn = "connected" /\ h.events = {}
           /\ Update(c, again, k, Separate(c))
  <2>1. ~k.rst /\ again.events = again.last =>
            reg[again.fd] = again.last /\ Reported(k, again.last) = {}
    <3>1. "ONESHOT" \notin {"IN", "ET"}
      OBVIOUS
    <3> QED BY <1>2, <1>6, <3>1
  <2> QED BY <1>2, <1>6, <2>1, UpdateHeard
<1>7. CASE /\ ~h.error /\ h.conn = "disconnecting" /\ "OUT" \in h.events
           /\ http' = [http EXCEPT ![c] = more] /\ timers' = Separate(c)
           /\ UNCHANGED <<tables, kernel>>
  <2>1. more.conn = "disconnecting" /\ c \in cut'
    BY <1>2, <1>7
  <2> QED BY <1>2, <1>7, <2>1, StuckHeard
<1>8. CASE Close(c, h, Separate(c))
  BY <1>8, CloseHeard
<1> QED BY <1>4, <1>5, <1>6, <1>7, <1>8

LEMMA HandleEventsHeard ==
  ASSUME SubReactorInv, ReadinessInv, NEW c \in Conns, HandleEvents(c)
  PROVE  ReadinessInv'
<1> USE SubReactorAssumption
<1>1. /\ pc = "handle" /\ TypeOK
      /\ batch' = [d \in DOMAIN batch \ {c} |-> batch[d]]
      /\ UNCHANGED <<pc, pending>>
  BY DEF HandleEvents, SubReactorInv
<1>2. c \in DOMAIN batch
  BY DEF HandleEvents, HandleNothing, HandleRead, ReadAfterClose, ReadFails, ReadEnd,
         ReadRequest, Readable, HandleOut
<1>3. /\ http[c] \in HttpData /\ http[c].conn # "disconnected"
      /\ FdOf(c) \in Fds /\ http[c].fd = FdOf(c) /\ Listens(c)
  BY <1>2, InBatchIs, HttpFields DEF Listens, FdOf
<1>4. InFlight(c)
  BY <1>2, <1>3 DEF ReadinessInv, Attended
<1>5. /\ sock[c] \in Socket /\ sock \in [Conns -> Socket] /\ cut \subseteq Conns
      /\ AfterRead(c) \in Socket /\ AfterRead(c).data = <<>>
      /\ AfterRead(c).fin = sock[c].fin /\ AfterRead(c).rst = sock[c].rst
  <2>1. sock[c] \in Socket /\ <<>> \in Seq(Chunks)
    BY <1>1 DEF TypeOK
  <2> QED BY <1>1, <2>1 DEF AfterRead, Socket, TypeOK
<1>6. /\ [sock EXCEPT ![c] = AfterRead(c)] \in [Conns -> Socket]
      /\ [sock EXCEPT ![c] = AfterRead(c)][c] = AfterRead(c)
      /\ \A d \in Conns \ {c} : [sock EXCEPT ![c] = AfterRead(c)][d] = sock[d]
  BY <1>5
<1> DEFINE r == [http[c] EXCEPT !.events = {}]
<1>7. /\ r \in HttpData /\ r.fd = FdOf(c) /\ r.conn = http[c].conn
      /\ r.last = http[c].last /\ r.events = {}
  BY <1>3 DEF HttpData
<1>8. CASE HandleNothing(c)
  <2>1. /\ "ERR" \in batch[c] /\ http' = [http EXCEPT ![c] = r]
        /\ UNCHANGED <<timers, numSocket, fd2chan, fd2http, reg, rdy, sock, cut>>
    BY <1>8 DEF HandleNothing, tables, kernel
  <2>2. sock'[c].rst /\ c \notin DOMAIN batch'
    BY <1>1, <1>4, <2>1 DEF InFlight
  <2>3. Attended(c)'
    BY <2>2 DEF Attended, Heard
  <2>4. ASSUME NEW d \in Conns \ {c} PROVE Attended(d)'
    <3>1. Unmoved(d)
      BY <1>1, <2>1 DEF Unmoved, TypeOK
    <3> QED BY <3>1, UnmovedAttended DEF ReadinessInv
  <2> QED BY <2>3, <2>4 DEF ReadinessInv
<1>9. CASE ReadAfterClose(c)
  <2>1. cut' = cut /\ sock' = [sock EXCEPT ![c] = AfterRead(c)] /\ http[c].conn = "disconnecting"
    BY <1>9 DEF ReadAfterClose
  <2>2. HandleConn(c, r, AfterRead(c))
    BY <1>9 DEF ReadAfterClose
  <2>3. Handler(c, r)
    BY <1>1, <1>2, <1>3, <1>5, <1>6, <1>7, <2>1 DEF Handler
  <2> HIDE DEF r
  <2>4. /\ sock'[c] = AfterRead(c) /\ \A d \in Conns \ {c} : sock'[d] = sock[d]
        /\ r.conn # "connected" /\ r.events = {}
    BY <1>6, <1>7, <2>1
  <2> QED BY <2>2, <2>3, <2>4, HandleConnHeard
<1>10. CASE ReadFails(c)
  <2> DEFINE h == [http[c] EXCEPT !.events = {}, !.error = TRUE]
  <2>1. cut' = cut /\ sock' = [sock EXCEPT ![c] = AfterRead(c)]
    BY <1>10 DEF ReadFails
  <2>2. HandleConn(c, h, AfterRead(c))
    BY <1>10 DEF ReadFails
  <2>3. h \in HttpData /\ h.fd = FdOf(c) /\ h.conn # "disconnected" /\ h.events = {} /\ h.error
    BY <1>3 DEF HttpData
  <2> HIDE DEF h
  <2>4. Handler(c, h)
    BY <1>1, <1>2, <1>5, <1>6, <2>1, <2>3 DEF Handler
  <2>5. sock'[c] = AfterRead(c) /\ \A d \in Conns \ {c} : sock'[d] = sock[d]
    BY <1>6, <2>1
  <2> QED BY <2>2, <2>3, <2>4, <2>5, HandleConnHeard
<1>11. CASE ReadEnd(c)
  <2> DEFINE h == [http[c] EXCEPT !.events = {}, !.conn = "disconnecting"]
  <2>1. cut' = cut /\ sock' = sock
    BY <1>11 DEF ReadEnd
  <2>2. HandleConn(c, h, sock[c])
    BY <1>11 DEF ReadEnd
  <2>3. h \in HttpData /\ h.fd = FdOf(c) /\ h.conn = "disconnecting" /\ h.events = {}
    BY <1>3 DEF HttpData
  <2> HIDE DEF h
  <2>4. Handler(c, h)
    BY <1>1, <1>2, <1>5, <2>1, <2>3 DEF Handler
  <2>5. sock'[c] = sock[c] /\ \A d \in Conns \ {c} : sock'[d] = sock[d]
    BY <2>1
  <2> QED BY <2>2, <2>3, <2>4, <2>5, HandleConnHeard
<1>12. ASSUME NEW outcome \in Outcomes, NEW keep \in BOOLEAN, NEW written \in Written,
              ReadRequest(c, outcome, keep, written)
       PROVE  ReadinessInv'
  <2> DEFINE h == [http[c] EXCEPT !.events = {},
                     !.conn = IF sock[c].fin THEN "disconnecting" ELSE @]
             k == [AfterRead(c) EXCEPT !.full = @ \/ written = "part",
                                       !.rst = written = "error"]
             a == AfterParse(h, outcome, keep, written)
  <2>1. /\ "IN" \in batch[c] /\ ~sock[c].rst /\ http[c].conn = "connected"
        /\ sock' = [sock EXCEPT ![c] = k]
        /\ HandleConn(c, a, k)
        /\ cut' = IF written = "part" THEN cut \cup {c} ELSE cut
    BY <1>12 DEF ReadRequest, Readable
  <2>2. k \in Socket /\ k.data = <<>> /\ k.fin = sock[c].fin
    <3>1. (AfterRead(c).full \/ written = "part") \in BOOLEAN /\ (written = "error") \in BOOLEAN
      BY <1>5 DEF Socket
    <3> QED BY <1>5, <3>1 DEF Socket
  <2> HIDE DEF k
  <2>3. /\ sock' \in [Conns -> Socket]
        /\ sock'[c] = k /\ \A d \in Conns \ {c} : sock'[d] = sock[d]
    BY <1>5, <2>1, <2>2
  <2>4. /\ h \in HttpData /\ h.fd = FdOf(c) /\ h.conn # "disconnected" /\ h.events = {}
        /\ h.last = http[c].last /\ (h.conn = "connected" => ~sock[c].fin)
    BY <1>3 DEF HttpData
  <2> HIDE DEF h
  <2>5. /\ a \in HttpData /\ a.fd = FdOf(c) /\ a.conn = h.conn /\ a.last = http[c].last
        /\ ~a.error /\ "OUT" \in a.events => written = "part"
        /\ a.events \subseteq {"OUT"}
    <3>1. a \in HttpData /\ (~a.error /\ "OUT" \in a.events => written = "part")
      BY <2>4, AfterParseIs
    <3>2. Same(a, h) /\ a.events \subseteq h.events \cup {"OUT"}
      BY <2>4, AfterParseIs
    <3> HIDE DEF a
    <3> QED BY <2>4, <3>1, <3>2 DEF Same
  <2> HIDE DEF a
  <2>6. Handler(c, a)
    BY <1>1, <1>2, <1>5, <2>1, <2>3, <2>4, <2>5 DEF Handler
  <2>7. /\ http[c].last # {"OUT", "ET"}
        /\ "ONESHOT" \notin http[c].last => reg[FdOf(c)] = http[c].last
    BY <1>4, <2>1 DEF InFlight
  <2>8. a.conn = "connected" /\ ~k.rst => Reported(k, {"IN", "ET"}) = {}
    <3>1. {"IN", "ET"} \notin {None, {}} => {"IN", "ET"} \cup {"ERR"} = {"IN", "ET", "ERR"}
      OBVIOUS
    <3>2. a.conn = "connected" /\ ~k.rst => Mask(k) \subseteq {"OUT"}
      BY <2>2, <2>4, <2>5 DEF Mask
    <3> QED BY <3>2 DEF Reported
  <2>9. ~a.error /\ a.conn = "disconnecting" /\ "OUT" \in a.events => c \in cut'
    BY <2>1, <2>5
  <2> QED BY <2>1, <2>3, <2>5, <2>6, <2>7, <2>8, <2>9, HandleConnHeard
<1>13. CASE HandleOut(c)
  <2>1. cut' = cut /\ sock' = sock /\ "OUT" \in batch[c]
    BY <1>13 DEF HandleOut
  <2>2. HandleConn(c, r, sock[c])
    BY <1>13 DEF HandleOut
  <2>3. Handler(c, r)
    BY <1>1, <1>2, <1>3, <1>5, <1>7, <2>1 DEF Handler
  <2> HIDE DEF r
  <2>4. ~sock[c].rst /\ r.conn = "connected" =>
          /\ r.last # {"IN", "ET"}
          /\ "ONESHOT" \notin r.last => reg[r.fd] = r.last
    BY <1>4, <1>7, <2>1 DEF InFlight
  <2>5. sock'[c] = sock[c] /\ \A d \in Conns \ {c} : sock'[d] = sock[d]
    BY <2>1
  <2> QED BY <1>7, <2>2, <2>3, <2>4, <2>5, HandleConnHeard
<1> QED BY <1>8, <1>9, <1>10, <1>11, <1>12, <1>13 DEF HandleEvents, HandleRead

LEMMA EventsDoneHeard ==
  ASSUME ReadinessInv, EventsDone
  PROVE  ReadinessInv'
<1>1. UNCHANGED <<batch, pending, http, timers, numSocket, fd2chan, fd2http, reg, rdy, sock, cut>>
  BY DEF EventsDone, tables, kernel
<1>2. ASSUME NEW d \in Conns PROVE Attended(d)'
  <2>1. Unmoved(d)
    BY <1>1 DEF Unmoved
  <2> QED BY <2>1, UnmovedAttended DEF ReadinessInv
<1> QED BY <1>2 DEF ReadinessInv

\* newEvent registers what it records; what is left of a failed one listens to
\* nothing and waits for its timer.
LEMMA DoPendingHeard ==
  ASSUME SubReactorInv, ReadinessInv, NEW failed \in SUBSET Conns, DoPending(failed)
  PROVE  ReadinessInv'
<1> USE SubReactorAssumption
<1> DEFINE new == Range(pending)
           at(f) == CHOOSE c \in new : FdOf(c) = f
           fds == {FdOf(c) : c \in new}
           added == {f \in fds : at(f) \notin failed}
<1>1. TypeOK /\ new \subseteq Conns /\ DOMAIN batch = {}
  BY QueueRange DEF SubReactorInv, InBatch, DoPending
<1>2. /\ http' = [c \in Conns |-> IF c \in new THEN [http[c] EXCEPT !.last = http[c].events]
                                               ELSE http[c]]
      /\ timers' = timers \cup {[conn |-> c, due |-> FALSE, linked |-> TRUE] : c \in new}
      /\ fd2http' = [f \in Fds |-> IF f \in fds THEN at(f) ELSE fd2http[f]]
      /\ reg' = [f \in Fds |-> IF f \in added THEN http[at(f)].events ELSE reg[f]]
      /\ rdy' = rdy \cup {f \in added : Reported(sock[at(f)], http[at(f)].events) # {}}
      /\ UNCHANGED <<batch, sock, cut>>
  BY DEF DoPending
<1>3. \A c \in new : /\ http[c] \in HttpData /\ FdOf(c) \in Fds /\ fd2http[FdOf(c)] = None
                     /\ \A d \in new : FdOf(c) = FdOf(d) => c = d
  BY <1>1, HttpOf DEF SubReactorInv, Queued
<1>4. \A f \in fds : at(f) \in new /\ FdOf(at(f)) = f
  BY <1>3
<1>5. \A c \in new : FdOf(c) \in fds /\ at(FdOf(c)) = c
  BY <1>3, <1>4
<1>6. added \subseteq fds
  OBVIOUS
<1>7. \A n \in timers' : n \in timers \/ n.conn \in new
  BY <1>2
<1> HIDE DEF new, at, fds, added
<1>8. ASSUME NEW c \in Conns \ new PROVE Attended(c)'
  <2>1. ASSUME Listens(c)' PROVE Unmoved(c)
    <3>1. http'[c] = http[c]
      BY <1>2
    <3>2. http[c] # None /\ FdOf(c) \in Fds /\ fd2http'[FdOf(c)] = c
      BY <2>1, <3>1 DEF Listens, FdOf
    <3>3. FdOf(c) \notin fds
      BY <1>2, <1>4, <3>2
    <3>4. fd2http'[FdOf(c)] = fd2http[FdOf(c)] /\ reg'[FdOf(c)] = reg[FdOf(c)]
      BY <1>2, <1>6, <3>2, <3>3
    <3>5. \A n \in timers' : n.conn = c => \E m \in timers : m.conn = c
      BY <1>7
    <3> QED BY <1>2, <3>1, <3>4, <3>5 DEF Unmoved
  <2> QED BY <2>1, UnmovedAttended DEF ReadinessInv
<1>9. ASSUME NEW c \in new PROVE Attended(c)'
  <2> DEFINE f == FdOf(c)
  <2>1. c \in Conns /\ http'[c] = [http[c] EXCEPT !.last = http[c].events] /\ http[c] \in HttpData
    BY <1>1, <1>2, <1>3
  <2>2. http'[c].fd = f /\ http'[c].last = http[c].events
    BY <2>1 DEF HttpData, FdOf
  <2>3. f \in fds /\ f \in Fds /\ at(f) = c /\ fd2http[f] = None
    BY <1>3, <1>5
  <2>4. c \notin DOMAIN batch'
    BY <1>1, <1>2
  <2> HIDE DEF f
  <2>5. CASE f \in added
    <3>1. reg'[f] = http'[c].last
      BY <1>2, <2>2, <2>3, <2>5
    <3>2. Reported(sock'[c], http'[c].last) # {} => f \in rdy'
      BY <1>2, <2>2, <2>3, <2>5
    <3>3. Reported(sock[c], http[c].last)' # {} => f \in rdy'
      BY <3>2 DEF Reported, Mask
    <3>4. Heard(c)'
      BY <2>2, <3>1, <3>3 DEF Heard, FdOf
    <3> QED BY <2>4, <3>4 DEF Attended
  <2>6. CASE f \notin added
    <3>1. reg[f] = None
      BY <2>3 DEF SubReactorInv, Registered
    <3>2. reg'[f] = None
      BY <1>2, <2>3, <2>6, <3>1
    <3> QED BY <2>2, <3>2 DEF Attended, Listens, FdOf
  <2> QED BY <2>5, <2>6
<1> QED BY <1>8, <1>9 DEF ReadinessInv

LEMMA HandleExpiredHeard ==
  ASSUME SubReactorInv, ReadinessInv, HandleExpired
  PROVE  ReadinessInv'
<1> USE SubReactorAssumption
<1> DEFINE due == {n \in timers : n.due}
           gone == {n.conn : n \in due}
           fds == {FdOf(c) : c \in gone}
<1>1. TypeOK
  BY DEF SubReactorInv
<1>2. /\ timers' = timers \ due
      /\ http' = [c \in Conns |-> IF c \in gone
                                  THEN [http[c] EXCEPT !.conn = "disconnected"]
                                  ELSE http[c]]
      /\ reg' = [f \in Fds |-> IF f \in fds THEN None ELSE reg[f]]
      /\ rdy' = rdy \ fds
      /\ fd2http' = [f \in Fds |-> IF f \in fds THEN None ELSE fd2http[f]]
      /\ UNCHANGED <<batch, pending, sock, cut>>
  BY DEF HandleExpired
<1>3. \A c \in gone : c \in Conns /\ http[c] \in HttpData /\ FdOf(c) \in fds
  <2>1. \A n \in timers : n.conn \in Conns /\ http[n.conn] # None
    BY <1>1 DEF TypeOK, TimerNode, SubReactorInv, Nodes
  <2>2. \A c \in gone : c \in Conns /\ http[c] # None /\ FdOf(c) \in fds
    BY <2>1
  <2> QED BY <1>1, <2>2, HttpOf
<1> HIDE DEF due, gone, fds
<1>4. ASSUME NEW c \in Conns PROVE Attended(c)'
  <2>1. ASSUME Listens(c)' PROVE Unmoved(c)
    <3>1. http'[c].fd \in Fds /\ fd2http'[http'[c].fd] = c
      BY <2>1 DEF Listens, FdOf
    <3>2. http'[c].fd \notin fds
      BY <1>2, <3>1
    <3>3. c \notin gone
      <4>1. SUFFICES ASSUME c \in gone PROVE FALSE
        OBVIOUS
      <4>2. http'[c] = [http[c] EXCEPT !.conn = "disconnected"] /\ http[c] \in HttpData
        BY <1>2, <1>3, <4>1
      <4>3. http'[c].fd = FdOf(c)
        BY <4>2 DEF HttpData, FdOf
      <4> QED BY <1>3, <3>2, <4>1, <4>3
    <3>4. http'[c] = http[c]
      BY <1>2, <3>3
    <3>5. /\ FdOf(c) \in Fds \ fds
          /\ fd2http'[FdOf(c)] = fd2http[FdOf(c)] /\ reg'[FdOf(c)] = reg[FdOf(c)]
          /\ FdOf(c) \in rdy => FdOf(c) \in rdy'
      BY <1>2, <3>1, <3>2, <3>4 DEF FdOf
    <3>6. \A n \in timers' : n.conn = c => \E m \in timers : m.conn = c
      BY <1>2
    <3> QED BY <1>2, <3>4, <3>5, <3>6 DEF Unmoved
  <2> QED BY <2>1, UnmovedAttended DEF ReadinessInv
<1> QED BY <1>4 DEF ReadinessInv

-----------------------------------------------------------------------------
(* The theorem.                                                            *)

(* No connection goes deaf: whenever the worker waits in epoll_wait, a     *)
(* registered connection is registered for what its channel believes, and  *)
(* whatever the kernel could report of it is on the ready list.            *)
THEOREM NothingStaysUnheard == Spec => []NothingUnheard
<1>1. Init => ReadinessInv
  <2> SUFFICES ASSUME Init, NEW c \in Conns PROVE Attended(c)
    BY DEF ReadinessInv
  <2> QED BY DEF Init, Attended, Listens
<1>2. SubReactorInv /\ SubReactorInv' /\ ReadinessInv /\ [Next]_vars => ReadinessInv'
  <2> SUFFICES ASSUME SubReactorInv, SubReactorInv', ReadinessInv, [Next]_vars
               PROVE  ReadinessInv'
    OBVIOUS
  <2>1. CASE UNCHANGED vars
    <3>1. UNCHANGED <<batch, http, timers, fd2http, reg, rdy, sock, cut>>
      BY <2>1 DEF vars
    <3>2. ASSUME NEW d \in Conns PROVE Attended(d)'
      <4>1. Unmoved(d)
        BY <3>1 DEF Unmoved
      <4> QED BY <4>1, UnmovedAttended DEF ReadinessInv
    <3> QED BY <3>2 DEF ReadinessInv
  <2>2. CASE WorkerStep
    BY <2>2, PollHeard, HandleEventsHeard, EventsDoneHeard, DoPendingHeard, HandleExpiredHeard
       DEF WorkerStep
  <2>3. CASE \E c \in Conns : Accept(c) \/ Client(c) \/ Elapse(c)
    BY <2>3, AcceptHeard, ClientHeard, ElapseHeard
  <2> QED BY <2>1, <2>2, <2>3 DEF Next
<1>3. SubReactorInv /\ ReadinessInv => NothingUnheard
  <2> SUFFICES ASSUME SubReactorInv, ReadinessInv, pc = "poll", NEW c \in Held,
                      reg[FdOf(c)] # None, ~sock[c].rst, ~Stuck(c)
               PROVE  /\ reg[FdOf(c)] = http[c].last
                      /\ Reported(sock[c], http[c].last) # {} => FdOf(c) \in rdy
    BY DEF NothingUnheard
  <2>1. c \in Conns /\ http[c] # None /\ FdOf(c) \in Fds
    BY HeldIs
  <2>2. fd2http[FdOf(c)] = c
    <3>1. fd2http[FdOf(c)] # None
      BY <2>1 DEF SubReactorInv, Registered
    <3> QED BY <3>1, HeldIs DEF SubReactorInv, Queued
  <2>3. Heard(c)
    <3>1. DOMAIN batch = {}
      BY DEF SubReactorInv, InBatch
    <3> QED BY <2>1, <2>2, <3>1 DEF ReadinessInv, Attended, Listens
  <2>4. ~Lost(c)
    BY DEF Lost, Stuck, Open
  <2> QED BY <2>3, <2>4 DEF Heard
<1> QED BY <1>1, <1>2, <1>3, SubReactorInvariant, PTL DEF Spec
=============================================================================
