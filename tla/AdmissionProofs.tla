-------------------------- MODULE AdmissionProofs --------------------------
(***************************************************************************)
(* Proofs about Admission, for any clients, reactors, sizes of the tables, *)
(* times and period of the clock: its safety properties.                   *)
(***************************************************************************)
EXTENDS Admission, LeastNatural, FiniteSetTheorems, TLAPS

Entries(s) == {s[i] : i \in DOMAIN s}
OneEach(s) == \A i, j \in DOMAIN s : s[i] = s[j] => i = j

(* Nobody waits in two places of a line.                                   *)
Lines ==
    /\ backlog \in Seq(Clients) /\ OneEach(backlog)
    /\ queue \in [Loops -> Seq(Clients)] /\ \A l \in Loops : OneEach(queue[l])

(* After the leak the main thread is back in epoll_wait for good.          *)
DeafRests == deaf => main = "poll" /\ ~ready

(* The timers of what is served: a deadline is the wrapped time of arming  *)
(* plus the timeout, and the connection has been idle for no longer than   *)
(* its timeout and the time since its reactor looked at its timers.        *)
Timed(c) ==
    /\ loop[c] \in Loops
    /\ armed[c] \in 0..now
    /\ deadline[c] = (armed[c] % Wrap) + timeout[c]
    /\ ~Missed(c) => now - armed[c] < timeout[c] + quiet[loop[c]]

TimersRight == ~early /\ \A c \in Clients : where[c] = "served" => Timed(c)

(* The inductive invariant.                                                *)
AdmissionInv == TypeOK /\ Lines /\ FdsAccounted /\ DeafRests /\ TimersRight

-----------------------------------------------------------------------------
(* A non-empty set of numbers has a least one, which is Min.               *)
LEMMA MinIsLeast ==
  ASSUME NEW S \in SUBSET Nat, S # {}
  PROVE  Min(S) \in S /\ \A x \in S : Min(S) <= x
BY LeastExists DEF Min

(* How far the wrapped clock moves while the time goes from a to n.        *)
LEMMA ModStep ==
  ASSUME NEW W \in Nat \ {0}, NEW a \in Nat, NEW n \in Nat, a <= n
  PROVE  /\ (n % W) - (a % W) <= n - a
         /\ (a % W) + (n - a) < W => n % W = (a % W) + (n - a)
<1> DEFINE d == (n \div W) - (a \div W)
           e == (n % W) - (a % W)
<1>1. /\ n = W * (n \div W) + (n % W) /\ n % W \in 0..W - 1
      /\ a = W * (a \div W) + (a % W) /\ a % W \in 0..W - 1
      /\ n \div W \in Int /\ a \div W \in Int
  OBVIOUS
<1>2. W * d = W * (n \div W) - W * (a \div W) /\ d \in Int /\ e \in Int
  BY <1>1
<1>3. n - a = W * d + e
  BY <1>1, <1>2
<1> HIDE DEF d
<1>4. d > 0 => W * d >= W
  BY <1>2
<1>5. d < 0 => W * d <= -W
  BY <1>2
<1>6. d = 0 => W * d = 0
  BY <1>2
<1>7. W * d \in Int
  BY <1>2
<1> QED BY <1>1, <1>2, <1>3, <1>4, <1>5, <1>6, <1>7

(* The head leaves the line, and is nowhere else in it.                    *)
LEMMA HeadLeaves ==
  ASSUME NEW S, NEW s \in Seq(S), OneEach(s), s # <<>>
  PROVE  /\ Head(s) \in Entries(s) /\ Head(s) \in S
         /\ Tail(s) \in Seq(S) /\ OneEach(Tail(s))
         /\ Entries(Tail(s)) = Entries(s) \ {Head(s)}
<1>1. /\ Len(s) \in Nat /\ Len(s) > 0 /\ DOMAIN s = 1..Len(s) /\ Head(s) = s[1]
      /\ Tail(s) \in Seq(S) /\ Len(Tail(s)) = Len(s) - 1
      /\ DOMAIN Tail(s) = 1..Len(s) - 1
      /\ \A i \in 1..Len(s) - 1 : Tail(s)[i] = s[i + 1]
  OBVIOUS
<1>2. OneEach(Tail(s))
  BY <1>1 DEF OneEach
<1>3. Entries(Tail(s)) \subseteq Entries(s) \ {Head(s)}
  BY <1>1 DEF OneEach, Entries
<1>4. ASSUME NEW x \in Entries(s) \ {Head(s)} PROVE x \in Entries(Tail(s))
  <2>1. PICK i \in 1..Len(s) : x = s[i] /\ i # 1
    BY <1>1 DEF Entries
  <2>2. i - 1 \in 1..Len(s) - 1 /\ Tail(s)[i - 1] = x
    BY <1>1, <2>1
  <2> QED BY <1>1, <2>2 DEF Entries
<1>5. Head(s) \in Entries(s) /\ Head(s) \in S
  BY <1>1 DEF Entries
<1> QED BY <1>1, <1>2, <1>3, <1>4, <1>5

(* A newcomer joins the line at its end.                                   *)
LEMMA NewcomerJoins ==
  ASSUME NEW S, NEW s \in Seq(S), OneEach(s), NEW x \in S, x \notin Entries(s)
  PROVE  /\ Append(s, x) \in Seq(S) /\ OneEach(Append(s, x))
         /\ Entries(Append(s, x)) = Entries(s) \cup {x}
<1>1. /\ Len(s) \in Nat /\ DOMAIN s = 1..Len(s) /\ Append(s, x) \in Seq(S)
      /\ DOMAIN Append(s, x) = 1..Len(s) + 1
      /\ \A i \in 1..Len(s) : Append(s, x)[i] = s[i]
      /\ Append(s, x)[Len(s) + 1] = x
  OBVIOUS
<1>2. \A i \in 1..Len(s) : s[i] # x
  BY <1>1 DEF Entries
<1>3. OneEach(Append(s, x))
  BY <1>1, <1>2 DEF OneEach
<1>4. Entries(Append(s, x)) \subseteq Entries(s) \cup {x}
  BY <1>1 DEF Entries
<1>5. x \in Entries(Append(s, x))
  <2>1. Len(s) + 1 \in DOMAIN Append(s, x)
    BY <1>1
  <2> QED BY <1>1, <2>1 DEF Entries
<1>6. ASSUME NEW y \in Entries(s) PROVE y \in Entries(Append(s, x))
  <2>1. PICK i \in 1..Len(s) : y = s[i]
    BY <1>1 DEF Entries
  <2>2. i \in DOMAIN Append(s, x) /\ Append(s, x)[i] = y
    BY <1>1, <2>1
  <2> QED BY <2>2 DEF Entries
<1> QED BY <1>1, <1>3, <1>4, <1>5, <1>6

-----------------------------------------------------------------------------
(* What the constants and the operators of the module are.                 *)

LEMMA Constants ==
  /\ Loops = 0..NumThreads - 1 /\ Loops # {} /\ Loops \subseteq Nat
  /\ NumThreads \in Nat /\ NumThreads > 0
  /\ Wrap \in Nat \ {0} /\ Expired \in Nat \ {0} /\ KeepAlive \in Nat \ {0}
  /\ Delay \in Nat \ {0} /\ MAXFDS \in Nat /\ MaxTime \in Nat
BY AdmissionAssumption DEF Loops

LEMMA LeastLoopIsLoop ==
  LeastLoop \in Loops
<1>1. \A l \in Loops : NumSocket(l) \in Nat
  <2> TAKE l \in Loops
  <2>1. Served(l) \in SUBSET Clients
    BY DEF Served
  <2>2. Cardinality(Served(l)) \in Nat
    BY <2>1, AdmissionAssumption, FS_Subset, FS_CardinalityType
  <2> QED BY <2>2 DEF NumSocket
<1> DEFINE counts == {NumSocket(l) : l \in Loops}
           few == {l \in Loops : \A m \in Loops : NumSocket(l) <= NumSocket(m)}
<1>2. counts \in SUBSET Nat /\ counts # {}
  BY <1>1, Constants
<1> HIDE DEF counts
<1>3. Min(counts) \in counts /\ \A x \in counts : Min(counts) <= x
  BY <1>2, MinIsLeast
<1>4. few \in SUBSET Nat /\ few # {}
  <2>1. PICK l \in Loops : NumSocket(l) = Min(counts)
    BY <1>3 DEF counts
  <2>2. \A m \in Loops : NumSocket(l) <= NumSocket(m)
    BY <1>3, <2>1 DEF counts
  <2>3. l \in few
    BY <2>2
  <2> QED BY <2>3, Constants
<1> HIDE DEF few
<1>5. Min(few) \in few
  BY <1>4, MinIsLeast
<1> QED BY <1>5 DEF few, LeastLoop

(* The descriptor that accept gives is free and below the tables' size.    *)
LEMMA AcceptedFd ==
  ASSUME TypeOK, Accepting, ~Refused(Min(Free))
  PROVE  /\ Min(Free) \in 0..MAXFDS - 1
         /\ \A c \in Holding : fd[c] # Min(Free)
<1>1. Free \in SUBSET Nat /\ Free # {} /\ \A c \in Holding : fd[c] \notin Free
  BY AdmissionAssumption DEF Free, Accepting, TypeOK
<1>2. Min(Free) \in Free
  BY <1>1, MinIsLeast
<1>3. Min(Free) \in Nat
  BY <1>1, <1>2
<1>4. ~(Min(Free) >= MAXFDS)
  BY DEF Refused
<1> QED BY <1>1, <1>2, <1>3, <1>4, Constants

(* The connection accept takes is waiting.                                 *)
LEMMA FirstWaits ==
  ASSUME TypeOK, Lines, backlog # <<>>
  PROVE  /\ Head(backlog) \in Clients /\ where[Head(backlog)] = "backlog"
         /\ Tail(backlog) \in Seq(Clients) /\ OneEach(Tail(backlog))
         /\ Entries(Tail(backlog)) = {c \in Clients : where[c] = "backlog"} \ {Head(backlog)}
<1>1. Entries(backlog) = {c \in Clients : where[c] = "backlog"}
  BY DEF TypeOK, Entries
<1> QED BY <1>1, HeadLeaves DEF Lines

LEMMA FirstQueued ==
  ASSUME TypeOK, Lines, NEW l \in Loops, queue[l] # <<>>
  PROVE  /\ Head(queue[l]) \in Clients /\ where[Head(queue[l])] = "queued"
         /\ loop[Head(queue[l])] = l
         /\ Tail(queue[l]) \in Seq(Clients) /\ OneEach(Tail(queue[l]))
         /\ Entries(Tail(queue[l])) =
              {c \in Clients : where[c] = "queued" /\ loop[c] = l} \ {Head(queue[l])}
<1>1. Entries(queue[l]) = {c \in Clients : where[c] = "queued" /\ loop[c] = l}
  BY DEF TypeOK, Entries
<1> QED BY <1>1, HeadLeaves DEF Lines

-----------------------------------------------------------------------------
(* The descriptors.                                                        *)

LEMMA FdsKeep ==
  ASSUME AdmissionInv, [Next]_vars
  PROVE  FdsAccounted' /\ DeafRests'
<1> DEFINE leaked == {c \in Clients : where[c] = "leaked"}
<1> USE DEF AdmissionInv
<1>0. /\ \A c \in Holding : c \in Clients
      /\ where \in [Clients -> {"away", "backlog", "queued", "served", "closed",
                                "refused", "leaked"}]
      /\ fd \in [Clients -> Nat \cup {None}]
  BY DEF Holding, TypeOK
<1>1. ASSUME Holding' \subseteq Holding, \A c \in Holding' : fd'[c] = fd[c],
             leaked' = leaked, deaf' = deaf
      PROVE  FdsAccounted'
  BY <1>1 DEF FdsAccounted
<1>2. ASSUME NEW c \in Clients, Connect(c) PROVE FdsAccounted' /\ DeafRests'
  <2>1. Holding' = Holding /\ leaked' = leaked
    BY <1>0, <1>2 DEF Connect, Holding
  <2> QED BY <1>1, <1>2, <2>1 DEF Connect, DeafRests
<1>3. CASE Poll
  <2>1. Holding' = Holding /\ leaked' = leaked
    BY <1>3 DEF Poll, conns, Holding
  <2> QED BY <1>1, <1>3, <2>1 DEF Poll, conns, DeafRests
<1>4. CASE AcceptRefused
  <2>1. Holding' = Holding /\ leaked' = leaked
    BY <1>0, <1>4, FirstWaits DEF AcceptRefused, Accepting, Holding
  <2> QED BY <1>1, <1>4, <2>1 DEF AcceptRefused, DeafRests
<1>5. CASE AcceptBlocking
  <2> DEFINE h == Head(backlog)
  <2>1. h \in Clients /\ where[h] = "backlog" /\ ~deaf
    BY <1>5, FirstWaits DEF AcceptBlocking, Accepting, DeafRests
  <2>2. Holding' = Holding \cup {h} /\ h \notin Holding /\ leaked' = leaked \cup {h}
    BY <1>0, <1>5, <2>1 DEF AcceptBlocking, Holding
  <2>3. fd'[h] = Min(Free) /\ \A c \in Holding : fd'[c] = fd[c]
    BY <1>0, <1>5, <2>1, <2>2 DEF AcceptBlocking
  <2>4. Min(Free) \in 0..MAXFDS - 1 /\ \A c \in Holding : fd[c] # Min(Free)
    BY <1>5, AcceptedFd DEF AcceptBlocking
  <2>5. Cardinality(leaked') = 1
    <3>1. IsFiniteSet(leaked) /\ Cardinality(leaked) = 0
      <4>1. leaked \in SUBSET Clients
        OBVIOUS
      <4> QED BY <2>1, <4>1, AdmissionAssumption, FS_Subset DEF FdsAccounted
    <3>2. leaked = {}
      BY <3>1, FS_EmptySet
    <3>3. leaked' = {h}
      BY <2>2, <3>2
    <3> QED BY <3>3, FS_Singleton
  <2>6. FdsAccounted'
    BY <1>5, <2>2, <2>3, <2>4, <2>5 DEF FdsAccounted, AcceptBlocking
  <2> QED BY <1>5, <2>6 DEF AcceptBlocking, DeafRests
<1>6. CASE AcceptNew
  <2> DEFINE h == Head(backlog)
  <2>1. h \in Clients /\ where[h] = "backlog"
    BY <1>6, FirstWaits DEF AcceptNew, Accepting
  <2>2. Holding' = Holding \cup {h} /\ leaked' = leaked
    BY <1>0, <1>6, <2>1 DEF AcceptNew, Holding
  <2>3. fd'[h] = Min(Free) /\ \A c \in Holding : c # h => fd'[c] = fd[c]
    BY <1>0, <1>6, <2>1 DEF AcceptNew
  <2>4. Min(Free) \in 0..MAXFDS - 1 /\ \A c \in Holding : fd[c] # Min(Free)
    BY <1>6, AcceptedFd DEF AcceptNew
  <2>5. deaf' = deaf
    BY <1>6 DEF AcceptNew
  <2>6. FdsAccounted'
    BY <2>2, <2>3, <2>4, <2>5 DEF FdsAccounted
  <2> QED BY <1>6, <2>6 DEF AcceptNew, DeafRests
<1>7. CASE AcceptEnds
  <2>1. Holding' = Holding /\ leaked' = leaked
    BY <1>7 DEF AcceptEnds, conns, Holding
  <2> QED BY <1>1, <1>7, <2>1 DEF AcceptEnds, conns, DeafRests
<1>8. ASSUME NEW l \in Loops, NewEvent(l) PROVE FdsAccounted' /\ DeafRests'
  <2>1. Holding' = Holding /\ leaked' = leaked
    BY <1>0, <1>8, FirstQueued DEF NewEvent, Holding
  <2> QED BY <1>1, <1>8, <2>1 DEF NewEvent, acceptor, DeafRests
<1>9. ASSUME NEW c \in Clients, Renew(c) PROVE FdsAccounted' /\ DeafRests'
  <2>1. Holding' = Holding /\ leaked' = leaked
    BY <1>9 DEF Renew, conns, Holding
  <2> QED BY <1>1, <1>9, <2>1 DEF Renew, conns, acceptor, DeafRests
<1>10. ASSUME NEW S, S \subseteq {c \in Clients : where[c] = "served"}, Drop(S),
              UNCHANGED acceptor
       PROVE  FdsAccounted' /\ DeafRests'
  <2>1. /\ Holding' \subseteq Holding /\ leaked' = leaked
        /\ \A c \in Holding' : fd'[c] = fd[c]
    BY <1>0, <1>10 DEF Drop, Holding
  <2> QED BY <1>1, <1>10, <2>1 DEF acceptor, DeafRests
<1>11. ASSUME NEW c \in Clients, Close(c) PROVE FdsAccounted' /\ DeafRests'
  BY <1>10, <1>11 DEF Close
<1>12. ASSUME NEW l \in Loops, HandleExpired(l) PROVE FdsAccounted' /\ DeafRests'
  <2> DEFINE due == {c \in Served(l) : Invalid(c)}
  <2>1. due \subseteq {c \in Clients : where[c] = "served"} /\ Drop(due)
    BY <1>12 DEF HandleExpired, Served
  <2> HIDE DEF due
  <2> QED BY <1>10, <1>12, <2>1 DEF HandleExpired
<1>13. CASE Tick
  <2>1. Holding' = Holding /\ leaked' = leaked
    BY <1>13 DEF Tick, conns, Holding
  <2> QED BY <1>1, <1>13, <2>1 DEF Tick, conns, acceptor, DeafRests
<1>14. CASE UNCHANGED vars
  <2>1. Holding' = Holding /\ leaked' = leaked
    BY <1>14 DEF vars, conns, Holding
  <2> QED BY <1>1, <1>14, <2>1 DEF vars, conns, acceptor, DeafRests
<1> QED BY <1>2, <1>3, <1>4, <1>5, <1>6, <1>7, <1>8, <1>9, <1>11, <1>12, <1>13, <1>14
        DEF Next, MainStep

-----------------------------------------------------------------------------
(* The types, and the lines of those who wait.                             *)

(* A timer that is set gets a deadline in its range.                       *)
LEMMA ArmTyped ==
  ASSUME TypeOK, NEW c \in Clients, NEW t \in {Expired, KeepAlive}, Arm(c, t)
  PROVE  /\ armed' \in [Clients -> 0..MaxTime]
         /\ timeout' \in [Clients -> {Expired, KeepAlive}]
         /\ deadline' \in [Clients -> Nat]
         /\ \A d \in Clients : deadline'[d] <= Wrap + timeout'[d]
<1>1. now \in Nat /\ Clock \in 0..Wrap - 1 /\ Wrap \in Nat /\ t \in Nat
  BY Constants DEF TypeOK, Clock
<1>2. Clock + t \in Nat /\ Clock + t <= Wrap + t
  BY <1>1
<1> QED BY <1>2 DEF Arm, TypeOK

LEMMA TypesKeep ==
  ASSUME AdmissionInv, [Next]_vars
  PROVE  TypeOK' /\ Lines'
<1> DEFINE waiting == {c \in Clients : where[c] = "backlog"}
           queued(l) == {c \in Clients : where[c] = "queued" /\ loop[c] = l}
           Kinds == {"away", "backlog", "queued", "served", "closed", "refused", "leaked"}
           TimerTypes ==
             /\ armed \in [Clients -> 0..MaxTime]
             /\ timeout \in [Clients -> {Expired, KeepAlive}]
             /\ deadline \in [Clients -> Nat]
             /\ \A c \in Clients : deadline[c] <= Wrap + timeout[c]
           QuietTypes == now \in 0..MaxTime /\ quiet \in [Loops -> 0..Delay]
<1> USE DEF AdmissionInv
<1>0. /\ limit \in Limits /\ main \in {"poll", "accept"}
      /\ {ready, deaf, starved, early} \subseteq BOOLEAN
      /\ where \in [Clients -> Kinds]
      /\ fd \in [Clients -> Nat \cup {None}] /\ loop \in [Clients -> Loops \cup {None}]
      /\ Entries(backlog) = waiting /\ \A l \in Loops : Entries(queue[l]) = queued(l)
      /\ TimerTypes /\ QuietTypes
  BY DEF TypeOK, Entries
<1> HIDE DEF TimerTypes, QuietTypes
<1>1. ASSUME limit' \in Limits, main' \in {"poll", "accept"},
             {ready', deaf', starved', early'} \subseteq BOOLEAN,
             where' \in [Clients -> Kinds],
             fd' \in [Clients -> Nat \cup {None}], loop' \in [Clients -> Loops \cup {None}],
             Entries(backlog') = waiting',
             \A l \in Loops : Entries(queue'[l]) = queued(l)',
             TimerTypes', QuietTypes'
      PROVE  TypeOK'
  BY <1>1 DEF TypeOK, Entries, TimerTypes, QuietTypes
<1>2. ASSUME NEW c \in Clients, Connect(c) PROVE TypeOK' /\ Lines'
  <2>1. c \notin waiting /\ where' = [where EXCEPT ![c] = "backlog"]
    BY <1>2 DEF Connect
  <2>2. backlog' \in Seq(Clients) /\ OneEach(backlog') /\ Entries(backlog') = waiting \cup {c}
    BY <1>0, <1>2, <2>1, NewcomerJoins DEF Connect, Lines
  <2>3. waiting' = waiting \cup {c} /\ \A l \in Loops : queued(l)' = queued(l)
    BY <1>0, <1>2 DEF Connect
  <2>4. TimerTypes' /\ QuietTypes'
    BY <1>0, <1>2 DEF Connect, timers, TimerTypes, QuietTypes
  <2>5. where' \in [Clients -> Kinds] /\ ready' \in BOOLEAN
    BY <1>0, <1>2 DEF Connect
  <2> HIDE DEF waiting, queued
  <2>6. TypeOK'
    BY <1>0, <1>1, <1>2, <2>2, <2>3, <2>4, <2>5 DEF Connect, timers
  <2>7. Lines'
    BY <1>2, <2>2 DEF Connect, Lines
  <2> QED BY <2>6, <2>7
<1>3. ASSUME UNCHANGED <<limit, backlog, conns, timers, now, quiet>>,
             main' \in {"poll", "accept"}, {ready', deaf', starved'} \subseteq BOOLEAN
      PROVE  TypeOK' /\ Lines'
  <2>1. waiting' = waiting /\ (\A l \in Loops : queued(l)' = queued(l))
        /\ TimerTypes' /\ QuietTypes'
    BY <1>0, <1>3 DEF conns, timers, TimerTypes, QuietTypes
  <2> HIDE DEF waiting, queued
  <2> QED BY <1>0, <1>1, <1>3, <2>1 DEF conns, timers, Lines
<1>4. CASE Poll
  BY <1>0, <1>3, <1>4 DEF Poll
<1>5. CASE AcceptEnds
  BY <1>0, <1>3, <1>5 DEF AcceptEnds
<1>6. ASSUME backlog # <<>>, backlog' = Tail(backlog),
             NEW k \in Kinds \ {"backlog", "queued"},
             where' = [where EXCEPT ![Head(backlog)] = k],
             fd' \in [Clients -> Nat \cup {None}], UNCHANGED <<loop, queue>>,
             UNCHANGED <<limit, timers, now, quiet>>,
             main' \in {"poll", "accept"}, {ready', deaf', starved'} \subseteq BOOLEAN
      PROVE  TypeOK' /\ Lines'
  <2> DEFINE h == Head(backlog)
  <2>1. /\ h \in Clients /\ where[h] = "backlog"
        /\ backlog' \in Seq(Clients) /\ OneEach(backlog')
        /\ Entries(backlog') = waiting \ {h}
    BY <1>6, FirstWaits
  <2>2. waiting' = waiting \ {h} /\ \A l \in Loops : queued(l)' = queued(l)
    BY <1>0, <1>6, <2>1
  <2>3. TimerTypes' /\ QuietTypes' /\ where' \in [Clients -> Kinds]
    BY <1>0, <1>6 DEF timers, TimerTypes, QuietTypes
  <2> HIDE DEF waiting, queued
  <2> QED BY <1>0, <1>1, <1>6, <2>1, <2>2, <2>3 DEF timers, Lines
<1>7. CASE AcceptRefused
  <2>1. backlog # <<>> /\ "refused" \in Kinds \ {"backlog", "queued"}
    BY <1>7 DEF AcceptRefused, Accepting
  <2> HIDE DEF Kinds
  <2> QED BY <1>0, <1>6, <1>7, <2>1 DEF AcceptRefused
<1>8. CASE AcceptBlocking
  <2>1. backlog # <<>> /\ "leaked" \in Kinds \ {"backlog", "queued"}
    BY <1>8 DEF AcceptBlocking, Accepting
  <2>2. fd' \in [Clients -> Nat \cup {None}]
    <3>1. Min(Free) \in Nat
      BY <1>8, Constants, AcceptedFd DEF AcceptBlocking
    <3> QED BY <1>0, <1>8, <3>1 DEF AcceptBlocking
  <2> HIDE DEF Kinds
  <2> QED BY <1>0, <1>6, <1>8, <2>1, <2>2 DEF AcceptBlocking
<1>9. CASE AcceptNew
  <2> DEFINE h == Head(backlog)
             m == LeastLoop
  <2>1. m \in Loops
    BY LeastLoopIsLoop
  <2>2. /\ h \in Clients /\ where[h] = "backlog"
        /\ backlog' \in Seq(Clients) /\ OneEach(backlog')
        /\ Entries(backlog') = waiting \ {h}
    BY <1>9, FirstWaits DEF AcceptNew, Accepting
  <2>3. /\ where' = [where EXCEPT ![h] = "queued"]
        /\ loop' = [loop EXCEPT ![h] = m]
        /\ queue' = [queue EXCEPT ![m] = Append(@, h)]
        /\ fd' = [fd EXCEPT ![h] = Min(Free)]
        /\ UNCHANGED <<limit, main, ready, deaf, starved, timers, now, quiet>>
    BY <1>9 DEF AcceptNew
  <2> HIDE DEF m
  <2>4. /\ waiting' = waiting \ {h}
        /\ \A l \in Loops : queued(l)' = IF l = m THEN queued(l) \cup {h} ELSE queued(l)
    BY <1>0, <2>1, <2>2, <2>3
  <2>5. /\ queue[m] \in Seq(Clients) /\ OneEach(queue[m]) /\ h \notin Entries(queue[m])
        /\ queue \in [Loops -> Seq(Clients)]
    BY <1>0, <2>1, <2>2 DEF Lines
  <2>6. /\ Append(queue[m], h) \in Seq(Clients) /\ OneEach(Append(queue[m], h))
        /\ Entries(Append(queue[m], h)) = queued(m) \cup {h}
    BY <1>0, <2>1, <2>2, <2>5, NewcomerJoins
  <2>7. /\ queue' \in [Loops -> Seq(Clients)] /\ \A l \in Loops : OneEach(queue'[l])
        /\ \A l \in Loops : Entries(queue'[l]) = queued(l)'
    BY <1>0, <2>1, <2>3, <2>4, <2>5, <2>6 DEF Lines
  <2>8. TimerTypes' /\ QuietTypes'
    BY <1>0, <2>3 DEF timers, TimerTypes, QuietTypes
  <2>9. /\ where' \in [Clients -> Kinds] /\ loop' \in [Clients -> Loops \cup {None}]
        /\ fd' \in [Clients -> Nat \cup {None}]
    <3>1. Min(Free) \in Nat
      BY <1>9, Constants, AcceptedFd DEF AcceptNew
    <3> QED BY <1>0, <2>1, <2>3, <3>1
  <2> HIDE DEF waiting, queued
  <2> QED BY <1>0, <1>1, <2>2, <2>3, <2>4, <2>7, <2>8, <2>9 DEF Lines, timers
<1>10. ASSUME NEW l \in Loops, NewEvent(l) PROVE TypeOK' /\ Lines'
  <2> DEFINE h == Head(queue[l])
  <2>1. /\ queue[l] # <<>> /\ queue' = [queue EXCEPT ![l] = Tail(@)]
        /\ where' = [where EXCEPT ![h] = "served"]
        /\ Arm(h, Expired)
        /\ UNCHANGED <<limit, acceptor, fd, loop, now, quiet>>
    BY <1>10 DEF NewEvent
  <2>2. /\ h \in Clients /\ where[h] = "queued" /\ loop[h] = l
        /\ Tail(queue[l]) \in Seq(Clients) /\ OneEach(Tail(queue[l]))
        /\ Entries(Tail(queue[l])) = queued(l) \ {h}
    BY <1>10, <2>1, FirstQueued
  <2>3. /\ waiting' = waiting
        /\ \A k \in Loops : queued(k)' = IF k = l THEN queued(k) \ {h} ELSE queued(k)
    BY <1>0, <2>1, <2>2 DEF acceptor
  <2>4. /\ queue' \in [Loops -> Seq(Clients)] /\ \A k \in Loops : OneEach(queue'[k])
        /\ \A k \in Loops : Entries(queue'[k]) = queued(k)'
    BY <1>0, <2>1, <2>2, <2>3 DEF Lines
  <2>5. TimerTypes' /\ early' = early
    BY <2>1, <2>2, ArmTyped DEF TimerTypes, Arm
  <2>6. QuietTypes' /\ where' \in [Clients -> Kinds]
    BY <1>0, <2>1 DEF QuietTypes
  <2> HIDE DEF waiting, queued
  <2> QED BY <1>0, <1>1, <2>1, <2>3, <2>4, <2>5, <2>6 DEF Lines, acceptor
<1>11. ASSUME UNCHANGED <<limit, acceptor, queue, now>>, QuietTypes',
              where' \in [Clients -> Kinds], fd' \in [Clients -> Nat \cup {None}],
              loop' \in [Clients -> Loops \cup {None}], TimerTypes', early' \in BOOLEAN,
              waiting' = waiting, \A l \in Loops : queued(l)' = queued(l)
       PROVE  TypeOK' /\ Lines'
  <2> HIDE DEF waiting, queued
  <2> QED BY <1>0, <1>1, <1>11 DEF acceptor, Lines
<1>12. ASSUME NEW c \in Clients, Renew(c) PROVE TypeOK' /\ Lines'
  <2>1. TimerTypes' /\ early' = early
    BY <1>12, ArmTyped DEF Renew, TimerTypes, Arm
  <2>2. QuietTypes' /\ UNCHANGED <<conns, limit, acceptor, now>>
    BY <1>0, <1>12 DEF Renew, QuietTypes
  <2>3. waiting' = waiting /\ \A l \in Loops : queued(l)' = queued(l)
    BY <2>2 DEF conns
  <2> HIDE DEF waiting, queued, Kinds
  <2> QED BY <1>0, <1>11, <2>1, <2>2, <2>3 DEF conns
<1>13. ASSUME NEW S, S \subseteq {c \in Clients : where[c] = "served"}, Drop(S),
              UNCHANGED <<limit, acceptor, queue, now>>, QuietTypes', early' \in BOOLEAN
       PROVE  TypeOK' /\ Lines'
  <2>1. /\ where' \in [Clients -> Kinds] /\ fd' \in [Clients -> Nat \cup {None}]
        /\ loop' \in [Clients -> Loops \cup {None}]
    BY <1>0, <1>13 DEF Drop
  <2>2. TimerTypes'
    BY <1>0, <1>13, Constants DEF Drop, TimerTypes
  <2>3. waiting' = waiting /\ \A l \in Loops : queued(l)' = queued(l)
    BY <1>0, <1>13 DEF Drop
  <2> HIDE DEF waiting, queued, Kinds
  <2> QED BY <1>11, <1>13, <2>1, <2>2, <2>3
<1>14. ASSUME NEW c \in Clients, Close(c) PROVE TypeOK' /\ Lines'
  <2>1. QuietTypes' /\ early' \in BOOLEAN
    BY <1>0, <1>14 DEF Close, QuietTypes
  <2> QED BY <1>13, <1>14, <2>1 DEF Close
<1>15. ASSUME NEW l \in Loops, HandleExpired(l) PROVE TypeOK' /\ Lines'
  <2> DEFINE due == {c \in Served(l) : Invalid(c)}
  <2>1. due \subseteq {c \in Clients : where[c] = "served"} /\ Drop(due)
    BY <1>15 DEF HandleExpired, Served
  <2>2. QuietTypes'
    BY <1>0, <1>15, Constants DEF HandleExpired, QuietTypes
  <2>3. early' \in BOOLEAN
    BY <1>0, <1>15 DEF HandleExpired
  <2> HIDE DEF due
  <2> QED BY <1>13, <1>15, <2>1, <2>2, <2>3 DEF HandleExpired
<1>16. CASE Tick
  <2>1. QuietTypes'
    <3>1. now' \in 0..MaxTime
      BY <1>0, <1>16, Constants DEF Tick, QuietTypes
    <3>2. \A l \in Loops : quiet[l] \in 0..Delay /\ quiet[l] < Delay
      BY <1>0, <1>16 DEF Tick, QuietTypes
    <3>3. \A l \in Loops : quiet[l] + 1 \in 0..Delay
      BY <3>2, Constants
    <3> QED BY <1>16, <3>1, <3>3 DEF Tick, QuietTypes
  <2>2. /\ waiting' = waiting /\ \A l \in Loops : queued(l)' = queued(l)
        /\ TimerTypes'
    BY <1>0, <1>16 DEF Tick, conns, timers, TimerTypes
  <2> HIDE DEF waiting, queued, Kinds
  <2> QED BY <1>0, <1>1, <1>16, <2>1, <2>2 DEF Tick, acceptor, conns, timers, Lines
<1>17. CASE UNCHANGED vars
  BY <1>0, <1>3, <1>17 DEF vars, acceptor
<1> QED BY <1>2, <1>4, <1>5, <1>7, <1>8, <1>9, <1>10, <1>12, <1>14, <1>15, <1>16, <1>17
        DEF Next, MainStep

-----------------------------------------------------------------------------
(* The timers.                                                             *)

(* What a timer's numbers are.                                             *)
LEMMA TimerNumbers ==
  ASSUME TypeOK, NEW c \in Clients
  PROVE  /\ armed[c] \in Nat /\ timeout[c] \in Nat \ {0} /\ now \in Nat
         /\ armed[c] % Wrap \in 0..Wrap - 1 /\ Clock \in 0..Wrap - 1
         /\ \A l \in Loops : quiet[l] \in 0..Delay
<1>1. armed[c] \in Nat /\ timeout[c] \in Nat \ {0} /\ now \in Nat
  <2>1. armed[c] \in 0..MaxTime /\ timeout[c] \in {Expired, KeepAlive} /\ now \in 0..MaxTime
    BY DEF TypeOK
  <2> QED BY <2>1, Constants
<1>2. armed[c] % Wrap \in 0..Wrap - 1 /\ now % Wrap \in 0..Wrap - 1
  BY <1>1, Constants
<1> QED BY <1>1, <1>2 DEF TypeOK, Clock

(* A timer that is set now is right.                                       *)
LEMMA ArmedIsTimed ==
  ASSUME TypeOK, NEW c \in Clients, NEW t \in {Expired, KeepAlive}, Arm(c, t),
         UNCHANGED <<loop, now, quiet>>, loop[c] \in Loops
  PROVE  Timed(c)'
<1>1. armed'[c] = now /\ timeout'[c] = t /\ deadline'[c] = Clock + t
  BY DEF Arm, TypeOK
<1>2. now \in Nat /\ t \in Nat \ {0} /\ quiet[loop[c]] \in 0..Delay /\ Delay \in Nat
  BY Constants, TimerNumbers
<1>3. now - now < t + quiet[loop[c]] /\ now \in 0..now
  BY <1>2
<1> QED BY <1>1, <1>3 DEF Timed, Clock

(* A node that is due has waited for its timeout, also when the clock has  *)
(* started again since; and one that is not due and whose deadline the     *)
(* clock does not miss has not.                                            *)
LEMMA DueInTime ==
  ASSUME TypeOK, NEW c \in Clients, Timed(c)
  PROVE  /\ Invalid(c) => ~(now - armed[c] < timeout[c])
         /\ ~Invalid(c) /\ ~Missed(c) => now - armed[c] < timeout[c]
<1> DEFINE a == armed[c]
           m == armed[c] % Wrap
           t == timeout[c]
           q == quiet[loop[c]]
<1>1. /\ a \in Nat /\ t \in Nat /\ now \in Nat /\ m \in 0..Wrap - 1
      /\ Clock \in 0..Wrap - 1 /\ q \in 0..Delay /\ a <= now
      /\ Wrap \in Nat \ {0} /\ Delay \in Nat
  BY TimerNumbers, Constants DEF Timed
<1>2. Invalid(c) <=> Clock >= m + t
  BY DEF Invalid, Timed
<1>3. Missed(c) <=> m + t + Delay >= Wrap
  BY DEF Missed
<1>4. ~Missed(c) => now - a < t + q
  BY DEF Timed
<1>5. /\ Clock - m <= now - a
      /\ m + (now - a) < Wrap => Clock = m + (now - a)
  BY <1>1, ModStep DEF Clock
<1> HIDE DEF a, m, t, q
<1>6. Invalid(c) => ~(now - a < t)
  BY <1>1, <1>2, <1>5
<1>7. ~Invalid(c) /\ ~Missed(c) => now - a < t
  BY <1>1, <1>2, <1>3, <1>4, <1>5
<1> QED BY <1>6, <1>7 DEF a, t

LEMMA TimersKeep ==
  ASSUME AdmissionInv, [Next]_vars
  PROVE  TimersRight'
<1> USE DEF AdmissionInv
<1>0. where \in [Clients -> {"away", "backlog", "queued", "served", "closed",
                             "refused", "leaked"}]
  BY DEF TypeOK
<1>1. ASSUME UNCHANGED <<timers, now, quiet>>,
             \A c \in Clients : where'[c] = "served" => where[c] = "served" /\ loop'[c] = loop[c]
      PROVE  TimersRight'
  BY <1>1 DEF TimersRight, Timed, Missed, timers
<1>2. ASSUME NEW c \in Clients, Connect(c) PROVE TimersRight'
  BY <1>0, <1>1, <1>2 DEF Connect
<1>3. CASE Poll
  BY <1>1, <1>3 DEF Poll, conns
<1>4. CASE AcceptRefused
  BY <1>0, <1>1, <1>4 DEF AcceptRefused
<1>5. CASE AcceptBlocking
  BY <1>0, <1>1, <1>5 DEF AcceptBlocking
<1>6. CASE AcceptNew
  <2>1. /\ Head(backlog) \in Clients
        /\ where' = [where EXCEPT ![Head(backlog)] = "queued"]
        /\ loop' = [loop EXCEPT ![Head(backlog)] = LeastLoop]
    BY <1>6, FirstWaits DEF AcceptNew, Accepting
  <2>2. \A c \in Clients : where'[c] = "served" => c # Head(backlog) /\ where[c] = "served"
    BY <1>0, <2>1
  <2>3. \A c \in Clients : where'[c] = "served" => where[c] = "served" /\ loop'[c] = loop[c]
    BY <2>1, <2>2 DEF TypeOK
  <2> QED BY <1>1, <1>6, <2>3 DEF AcceptNew
<1>7. CASE AcceptEnds
  BY <1>1, <1>7 DEF AcceptEnds, conns
<1>8. ASSUME NEW c \in Clients, NEW t \in {Expired, KeepAlive}, Arm(c, t),
             UNCHANGED <<loop, now, quiet>>, loop[c] \in Loops,
             \A d \in Clients : d # c /\ where'[d] = "served" => where[d] = "served"
      PROVE  TimersRight'
  <2>1. Timed(c)'
    BY <1>8, ArmedIsTimed
  <2>2. \A d \in Clients : d # c =>
            armed'[d] = armed[d] /\ timeout'[d] = timeout[d] /\ deadline'[d] = deadline[d]
    BY <1>8 DEF Arm, TypeOK
  <2>3. \A d \in Clients : d # c /\ where[d] = "served" => Timed(d)'
    BY <1>8, <2>2 DEF TimersRight, Timed, Missed
  <2> QED BY <1>8, <2>1, <2>3 DEF TimersRight, Arm
<1>9. ASSUME NEW l \in Loops, NewEvent(l) PROVE TimersRight'
  <2> DEFINE h == Head(queue[l])
  <2>1. h \in Clients /\ loop[h] = l
    BY <1>9, FirstQueued DEF NewEvent
  <2>2. \A d \in Clients : d # h /\ where'[d] = "served" => where[d] = "served"
    BY <1>0, <1>9, <2>1 DEF NewEvent
  <2> QED BY <1>8, <1>9, <2>1, <2>2 DEF NewEvent
<1>10. ASSUME NEW c \in Clients, Renew(c) PROVE TimersRight'
  <2>1. loop[c] \in Loops /\ UNCHANGED <<where, loop, now, quiet>>
    BY <1>10 DEF Renew, conns, TimersRight, Timed
  <2>2. PICK t \in {Expired, KeepAlive} : Arm(c, t)
    BY <1>10 DEF Renew
  <2> QED BY <1>8, <2>1, <2>2
<1>11. ASSUME NEW S \in SUBSET Clients, Drop(S), UNCHANGED now
       PROVE  \A c \in Clients : where'[c] = "served" =>
                  /\ c \notin S /\ where[c] = "served" /\ loop'[c] = loop[c]
                  /\ armed'[c] = armed[c] /\ timeout'[c] = timeout[c]
                  /\ deadline'[c] = deadline[c]
  BY <1>11 DEF Drop
<1>12. ASSUME NEW c \in Clients, Close(c) PROVE TimersRight'
  <2>1. Drop({c}) /\ UNCHANGED <<now, quiet, early>>
    BY <1>12 DEF Close
  <2> QED BY <1>11, <2>1 DEF TimersRight, Timed, Missed
<1>13. ASSUME NEW l \in Loops, HandleExpired(l) PROVE TimersRight'
  <2> DEFINE due == {c \in Served(l) : Invalid(c)}
  <2>1. /\ due \in SUBSET Clients /\ Drop(due) /\ UNCHANGED now
        /\ early' = (early \/ \E c \in due : now - armed[c] < timeout[c])
        /\ quiet' = [quiet EXCEPT ![l] = 0]
    BY <1>13 DEF HandleExpired, Served
  <2>2. ~early'
    <3>1. ASSUME NEW c \in due PROVE ~(now - armed[c] < timeout[c])
      <4>1. c \in Clients /\ Timed(c) /\ Invalid(c)
        BY DEF Served, TimersRight
      <4> QED BY <4>1, DueInTime
    <3> QED BY <2>1, <3>1 DEF TimersRight
  <2>3. ASSUME NEW c \in Clients, where'[c] = "served" PROVE Timed(c)'
    <3>1. /\ c \notin due /\ where[c] = "served" /\ loop'[c] = loop[c]
          /\ armed'[c] = armed[c] /\ timeout'[c] = timeout[c]
          /\ deadline'[c] = deadline[c] /\ now' = now
      BY <1>11, <2>1, <2>3
    <3>2. Timed(c) /\ (loop[c] = l => ~Invalid(c)) /\ Missed(c)' = Missed(c)
      BY <3>1 DEF TimersRight, Served, Missed
    <3>3. ~Missed(c) => now - armed[c] < timeout[c] + quiet'[loop[c]]
      <4>1. CASE loop[c] = l
        <5>1. quiet'[loop[c]] = 0 /\ timeout[c] \in Nat
          BY <2>1, <4>1, TimerNumbers DEF TypeOK
        <5> QED BY <3>2, <4>1, <5>1, DueInTime
      <4>2. CASE loop[c] # l
        <5>1. quiet'[loop[c]] = quiet[loop[c]]
          BY <2>1, <3>2, <4>2 DEF TypeOK, Timed
        <5> QED BY <3>2, <5>1 DEF Timed
      <4> QED BY <4>1, <4>2
    <3> QED BY <3>1, <3>2, <3>3 DEF Timed
  <2> QED BY <2>2, <2>3 DEF TimersRight
<1>14. CASE Tick
  <2>1. /\ now' = now + 1 /\ quiet' = [l \in Loops |-> quiet[l] + 1]
        /\ UNCHANGED <<where, loop, armed, timeout, deadline, early>>
    BY <1>14 DEF Tick, conns, timers
  <2>2. ASSUME NEW c \in Clients, where[c] = "served" PROVE Timed(c)'
    <3>1. Timed(c) /\ Missed(c)' = Missed(c)
      BY <2>1, <2>2 DEF TimersRight, Missed
    <3>2. /\ armed[c] \in Nat /\ timeout[c] \in Nat /\ now \in Nat
          /\ loop[c] \in Loops /\ quiet[loop[c]] \in 0..Delay /\ Delay \in Nat
      BY <3>1, TimerNumbers, Constants DEF Timed
    <3>3. quiet'[loop[c]] = quiet[loop[c]] + 1
      BY <2>1, <3>2
    <3>4. now - armed[c] < timeout[c] + quiet[loop[c]] =>
            now + 1 - armed[c] < timeout[c] + (quiet[loop[c]] + 1)
      BY <3>2
    <3>5. armed[c] \in 0..now => armed[c] \in 0..now + 1
      BY <3>2
    <3>6. /\ loop'[c] = loop[c] /\ now' = now + 1 /\ armed'[c] = armed[c]
          /\ timeout'[c] = timeout[c] /\ deadline'[c] = deadline[c]
      BY <2>1
    <3>7. /\ armed[c] \in 0..now + 1 /\ deadline[c] = (armed[c] % Wrap) + timeout[c]
          /\ ~Missed(c) => now + 1 - armed[c] < timeout[c] + (quiet[loop[c]] + 1)
      BY <3>1, <3>4, <3>5 DEF Timed
    <3> QED BY <3>1, <3>2, <3>3, <3>6, <3>7 DEF Timed
  <2> QED BY <2>1, <2>2 DEF TimersRight
<1>15. CASE UNCHANGED vars
  BY <1>1, <1>15 DEF vars, conns
<1> QED BY <1>2, <1>3, <1>4, <1>5, <1>6, <1>7, <1>9, <1>10, <1>12, <1>13, <1>14, <1>15
        DEF Next, MainStep

-----------------------------------------------------------------------------
(* The theorems.                                                           *)

LEMMA InitIsRight ==
  Init => AdmissionInv
<1> SUFFICES ASSUME Init PROVE AdmissionInv
  OBVIOUS
<1>1. TypeOK
  <2>1. \A s : s = <<>> => {s[i] : i \in DOMAIN s} = {}
    OBVIOUS
  <2>2. /\ {backlog[i] : i \in DOMAIN backlog} = {c \in Clients : where[c] = "backlog"}
        /\ \A l \in Loops :
             {queue[l][i] : i \in DOMAIN queue[l]} =
                 {c \in Clients : where[c] = "queued" /\ loop[c] = l}
    BY <2>1 DEF Init
  <2>3. now \in 0..MaxTime /\ quiet \in [Loops -> 0..Delay]
        /\ armed \in [Clients -> 0..MaxTime] /\ deadline \in [Clients -> Nat]
        /\ timeout \in [Clients -> {Expired, KeepAlive}]
        /\ \A c \in Clients : deadline[c] <= Wrap + timeout[c]
    BY Constants DEF Init
  <2> QED BY <2>2, <2>3 DEF Init, TypeOK
<1>2. Lines
  BY DEF Init, Lines, OneEach
<1>3. FdsAccounted
  <2>1. Holding = {} /\ {c \in Clients : where[c] = "leaked"} = {}
    BY DEF Init, Holding
  <2> QED BY <2>1, FS_EmptySet DEF Init, FdsAccounted
<1>4. DeafRests /\ TimersRight
  BY DEF Init, DeafRests, TimersRight
<1> QED BY <1>1, <1>2, <1>3, <1>4 DEF AdmissionInv

(* The state of the accept loop, the reactors' queues and the timers keeps *)
(* its invariant.                                                          *)
THEOREM AdmissionInvariant == Spec => []AdmissionInv
<1>1. AdmissionInv /\ [Next]_vars => AdmissionInv'
  BY TypesKeep, FdsKeep, TimersKeep DEF AdmissionInv
<1> QED BY <1>1, InitIsRight, PTL DEF Spec

(* The variables of Admission keep their types.                            *)
THEOREM AdmissionTypes == Spec => []TypeOK
<1>1. AdmissionInv => TypeOK
  BY DEF AdmissionInv
<1> QED BY <1>1, AdmissionInvariant, PTL

(* handNewConn lets no descriptor outside the tables in, no two connections*)
(* have one, and at most one is leaked, after which none is accepted.      *)
THEOREM FdsStayAccounted == Spec => []FdsAccounted
<1>1. AdmissionInv => FdsAccounted
  BY DEF AdmissionInv
<1> QED BY <1>1, AdmissionInvariant, PTL

(* A timer never closes a connection early, wherever the clock wraps, and  *)
(* closes the idle ones in time but those whose deadline the wrap skips.   *)
THEOREM TimersCloseInTime == Spec => []ClosedInTime
<1>1. ASSUME AdmissionInv PROVE ClosedInTime
  <2>1. ASSUME NEW c \in Clients, where[c] = "served", ~Missed(c)
        PROVE  now - armed[c] < timeout[c] + Delay
    <3>1. /\ armed[c] \in Nat /\ timeout[c] \in Nat /\ now \in Nat /\ Delay \in Nat
          /\ quiet[loop[c]] \in 0..Delay
          /\ now - armed[c] < timeout[c] + quiet[loop[c]]
      BY <1>1, <2>1, TimerNumbers, Constants DEF AdmissionInv, TimersRight, Timed
    <3> QED BY <3>1
  <2> QED BY <1>1, <2>1 DEF ClosedInTime, AdmissionInv, TimersRight
<1> QED BY <1>1, AdmissionInvariant, PTL
=============================================================================
