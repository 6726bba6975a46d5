-------------------------- MODULE TreeHoleService --------------------------
(***************************************************************************)
(* The service of messages: analysisRequest on the threads of the reactors,*)
(* the list of messages and the response cache they share, and the life of *)
(* the process around them: loading, the signal that stops it, saving,     *)
(* crashes.                                                                *)
(*                                                                         *)
(* The list is its set of nodes (SkipList has the steps of an insertion    *)
(* and the reads that race it).  A message is a model value.  Its text may *)
(* have the separator of the file's fields in it, or the end of a line:    *)
(* Broken says what the lines it is saved as are taken for.                *)
(*                                                                         *)
(* Two calls of the cache that overlap, one of them a put, are a data race *)
(* on its vectors and its map: put locks only some branches, after it has  *)
(* read the map, and get locks nothing.  What happens then is undefined,   *)
(* and the model ends there (life = "race").                               *)
(***************************************************************************)
EXTENDS LRUCache

CONSTANTS Reactors, Messages,
          Broken,       \* by message: the keys found on its lines, in turn
          Own,          \* on such a line: the key the message was saved with
          MaxItems,     \* maxItemsLimited_
          MaxTime,      \* bound: the seconds that pass
          MaxStarts,    \* bound: the starts of the process
          MaxAsked,     \* bound: the requests for messages or the start page
          Blank,        \* the text of a node made of an empty line
          Index,        \* the name of the start page
          NoFile        \* in the place of a set of nodes: there is no file, or no save

(* whole: the message as it was posted; otherwise what was made of a line  *)
(* of a broken one.  That has neither separators nor ends of lines.        *)
Node == [key : 0..MaxTime, text : Messages \cup {Blank}, whole : BOOLEAN]

(* A name that is requested is the start page or asks for num messages     *)
(* from a time on, time 0 standing for the latest ones.                    *)
ASSUME ServiceAssumption ==
    /\ DOMAIN Broken \subseteq Messages /\ Blank \notin Messages
    /\ Own \notin 0..MaxTime
    /\ \A m \in DOMAIN Broken :
        Broken[m] \in Seq(0..MaxTime \cup {Own}) /\ Broken[m] # <<>>
    /\ {MaxItems, MaxTime, MaxStarts, MaxAsked} \subseteq Nat \ {0}
    /\ Keys \subseteq [from : Nat, num : Int] \cup {Index}

VARIABLES
    stored,     \* the nodes of the list
    file,       \* the nodes the file has lines for
    life,       \* where the process is
    now,        \* time(0)
    starts,     \* how often it was started
    asked,      \* how often it was asked for something
    job,        \* what each reactor is doing
    posted,     \* history: the messages that were sent
    acked,      \* history: keys of the nodes reported as stored since the start
    shown,      \* history: the listings each name has had since the start
    kept        \* history: the nodes the last complete save wrote, until the next begins

durable == <<file, now, starts, asked, posted, kept>>
vars == <<cache, stored, life, job, acked, shown, durable>>

Ghost == [key |-> 0, text |-> Blank, whole |-> TRUE]
Idle == [pc |-> "idle"]

Jobs ==
    {Idle} \cup [pc : {"insert"}, node : Node]
           \cup [pc : {"get", "build"}, name : Keys]
           \cup [pc : {"put"}, name : Keys, items : SUBSET Node]

\* The reactors take requests; their threads run until the process ends.
Serving == life \in {"up", "stop"}
Running == life \in {"up", "stop", "save", "write"}

TypeOK ==
    /\ CacheType
    /\ stored \subseteq Node
    /\ file = NoFile \/ file \subseteq Node
    /\ kept = NoFile \/ kept \subseteq Node
    /\ life \in {"up", "stop", "hung", "save", "write", "down", "race"}
    /\ now \in 1..MaxTime /\ starts \in 0..MaxStarts /\ asked \in 0..MaxAsked
    /\ posted \subseteq Messages /\ acked \subseteq 0..MaxTime
    /\ shown \in [Keys -> SUBSET SUBSET Node]
    /\ job \in [Reactors -> Jobs]

-----------------------------------------------------------------------------
(* Listings.  One is in the order of the keys, so that its set of nodes    *)
(* says it; "no records!" is the empty one.                                *)

Least(a, b) == IF a < b THEN a ELSE b

\* getItems(num)
Latest(S, num) ==
    {n \in S : Cardinality({x \in S : x.key > n.key}) < Least(num, MaxItems)}

\* getItems(key, num)
From(S, key, num) ==
    {n \in S : /\ n.key >= key
               /\ Cardinality({x \in S : key <= x.key /\ x.key < n.key})
                    < Least(num, MaxItems)}

Listing(S, name) ==
    IF name = Index THEN {}
    ELSE IF name.from = 0 THEN Latest(S, name.num)
    ELSE From(S, name.from, IF name.num = 0 THEN MaxItems ELSE name.num)

\* For a negative number the walk of getItems(num) goes past the list's end.
Fatal(name) == name # Index /\ name.from = 0 /\ name.num < 0

-----------------------------------------------------------------------------
(* The life of the process.                                                *)

(* getSaveItem writes the fields as they are.  When a line is read, the    *)
(* fourth field is the key: behind one separator too many that is the date,*)
(* which is read as 0, behind more of them it is whatever the user typed.  *)
(* An end of a line in the text makes two lines; what is before it has its *)
(* last field read as the key.                                             *)
Sound(n) == n.whole => n.text \notin DOMAIN Broken

\* What the lines of a node are taken for.
Pieces(n) ==
    IF Sound(n) THEN <<n>>
    ELSE [i \in DOMAIN Broken[n.text] |->
            [key |-> IF Broken[n.text][i] = Own THEN n.key ELSE Broken[n.text][i],
             text |-> n.text, whole |-> FALSE]]

\* The places in the file of the nodes S, in their order, and what is there.
Places(S) == UNION {{n} \X DOMAIN Pieces(n) : n \in S}
Before(p, q) ==
    \/ p[1].key < q[1].key
    \/ p[1] = q[1] /\ p[2] < q[2]
Piece(p) == Pieces(p[1])[p[2]]

\* Mutant: loading ends at the first line with a separator in its text.
LoadToBroken(S) ==
    {n \in S : \A x \in S : ~Sound(x) => n.key < x.key} \cup {Ghost}

(* Loading inserts what it reads, line by line, and once more after the    *)
(* last: the empty line becomes a node with key 0.  A key that is there    *)
(* already is refused.                                                     *)
Load(S) ==
    LET read == Places(S)
        inserted == {Piece(p) : p \in {q \in read :
                        \A o \in read : Before(o, q) => Piece(o).key # Piece(q).key}}
    IN  IF \E n \in inserted : n.key = 0 THEN inserted ELSE inserted \cup {Ghost}

Start ==
    /\ life = "down" /\ starts < MaxStarts
    /\ starts' = starts + 1
    /\ stored' = IF file = NoFile THEN {} ELSE Load(file)
    /\ shown' = [k \in Keys |-> {Listing(stored', k)}]
    /\ life' = "up"
    /\ UNCHANGED <<cache, job, acked, file, now, asked, posted, kept>>

\* The memory of the process is gone, or of no more interest.
Forget ==
    /\ stored' = {} /\ ClearCache /\ acked' = {}
    /\ job' = [r \in Reactors |-> Idle]
    /\ shown' = [k \in Keys |-> {}]

Die == life' = "down" /\ Forget

(* The handler of the signal interrupts the main thread, logs, and destroys*)
(* the server.  It never gets to the list if that thread was               *)
(*   - in AsyncLogging::append: the handler's own LOG takes the same mutex;*)
(*   - in queueInLoop: it holds the mutex of a loop whose thread, that the *)
(*     handler joins, takes it too;                                        *)
(*   - so early that a loop has not yet reset is_quit_: it forgets the quit*)
(*     and is joined for ever (EventLoop has that).                        *)
(* The server then hangs.  What reactors still do is not followed, as      *)
(* nothing of it reaches the file.                                         *)
Signal ==
    /\ life = "up"
    /\ \/ life' = "stop" /\ UNCHANGED <<cache, stored, job, acked, shown>>
       \/ life' = "hung" /\ Forget
    /\ UNCHANGED durable

\* Mutant: the list is destroyed without waiting for the reactors' threads.
JoinBusy ==
    /\ life = "stop"
    /\ \/ life' = "save" /\ UNCHANGED <<cache, stored, job, acked, shown>>
       \/ Die
    /\ UNCHANGED durable

(* The reactors are told to quit and joined, one after the other: each ends*)
(* its iteration, and the others still serve.  If the signal interrupted   *)
(* handNewConn after it had made an HttpData, this still holds the list,   *)
(* which is not destroyed and so not saved.                                *)
Join ==
    /\ life = "stop" /\ \A r \in Reactors : job[r] = Idle
    /\ \/ life' = "save" /\ UNCHANGED <<cache, stored, job, acked, shown>>
       \/ Die
    /\ UNCHANGED durable

\* Opening the file empties it; it may fail.
Truncate ==
    /\ life = "save"
    /\ file' = {} /\ kept' = NoFile /\ life' = "write"
    /\ UNCHANGED <<cache, stored, job, acked, shown, now, starts, asked, posted>>

SaveFails == life = "save" /\ Die /\ UNCHANGED durable

\* The nodes that follow the last one written.
Ahead == {n \in stored : \A x \in file : x.key < n.key}

\* One line for each node, along level 0.
WriteLine ==
    /\ life = "write"
    /\ \E n \in Ahead :
        /\ \A x \in Ahead : n.key <= x.key
        /\ file' = file \cup {n}
    /\ UNCHANGED <<cache, stored, life, job, acked, shown, now, starts, asked, posted, kept>>

Saved ==
    /\ life = "write" /\ Ahead = {}
    /\ kept' = file
    /\ Die
    /\ UNCHANGED <<file, now, starts, asked, posted>>

\* The process is killed, or an exception of stoi that nothing catches ends it.
Crash == life \notin {"down", "race"} /\ Die /\ UNCHANGED durable

Tick ==
    /\ life # "race" /\ now < MaxTime /\ now' = now + 1
    /\ UNCHANGED <<cache, stored, life, job, acked, shown, file, starts, asked, posted, kept>>

-----------------------------------------------------------------------------
(* Requests, by the reactor that handles them.                             *)

\* POST: the node is made, with the time for its key, before the lock is taken.
Post(r, m) ==
    /\ Serving /\ job[r] = Idle
    /\ m \notin posted /\ posted' = posted \cup {m}
    /\ job' = [job EXCEPT ![r] =
                [pc |-> "insert", node |-> [key |-> now, text |-> m, whole |-> TRUE]]]
    /\ UNCHANGED <<cache, stored, life, acked, shown, file, now, starts, asked, kept>>

\* Mutant: two messages may have one key.
InsertUnchecked(r) ==
    /\ Running /\ job[r].pc = "insert"
    /\ stored' = stored \cup {job[r].node} /\ acked' = acked \cup {job[r].node.key}
    /\ shown' = [k \in Keys |-> shown[k] \cup {Listing(stored', k)}]
    /\ job' = [job EXCEPT ![r] = Idle]
    /\ UNCHANGED <<cache, life, durable>>

\* Mutant: a message is taken for a duplicate if a later one is there.
InsertInOrder(r) ==
    /\ Running /\ job[r].pc = "insert"
    /\ LET n == job[r].node IN
       /\ stored' = IF \E x \in stored : x.key >= n.key THEN stored ELSE stored \cup {n}
       /\ acked' = acked \cup {n.key}
    /\ shown' = [k \in Keys |-> shown[k] \cup {Listing(stored', k)}]
    /\ job' = [job EXCEPT ![r] = Idle]
    /\ UNCHANGED <<cache, life, durable>>

(* A node is refused if its key is there; the client is told that the      *)
(* message was left in either case.                                        *)
Insert(r) ==
    /\ Running /\ job[r].pc = "insert"
    /\ LET n == job[r].node IN
       /\ stored' = IF \E x \in stored : x.key = n.key THEN stored ELSE stored \cup {n}
       /\ acked' = acked \cup {n.key}
    /\ shown' = [k \in Keys |-> shown[k] \cup {Listing(stored', k)}]
    /\ job' = [job EXCEPT ![r] = Idle]
    /\ UNCHANGED <<cache, life, durable>>

InCall(r, calls) == \E o \in Reactors \ {r} : job[o].pc \in calls

\* GET or HEAD: the look-up in the cache begins.
Ask(r, name) ==
    /\ Serving /\ job[r] = Idle
    /\ asked < MaxAsked /\ asked' = asked + 1
    /\ IF InCall(r, {"put"})
       THEN life' = "race" /\ UNCHANGED job
       ELSE /\ job' = [job EXCEPT ![r] = [pc |-> "get", name |-> name]]
            /\ UNCHANGED life
    /\ UNCHANGED <<cache, stored, acked, shown, file, now, starts, posted, kept>>

\* It ends: the cached answer is sent, or one has to be made.
LookedUp(r) ==
    /\ Running /\ job[r].pc = "get"
    /\ job' = [job EXCEPT ![r] = IF Cached(job[r].name) THEN Idle
                                  ELSE [pc |-> "build", name |-> job[r].name]]
    /\ UNCHANGED <<cache, stored, life, acked, shown, durable>>

(* The answer is made; for a GET the call of put begins.  (Until here      *)
(* nothing depends on whether the request was a GET or a HEAD.)            *)
Build(r) ==
    /\ Running /\ job[r].pc = "build" /\ ~Fatal(job[r].name)
    /\ LET name == job[r].name
           items == Listing(stored, name)
       IN
       \/ job' = [job EXCEPT ![r] = Idle] /\ UNCHANGED life
       \/ /\ ~InCall(r, {"get", "put"})
          /\ job' = [job EXCEPT ![r] = [pc |-> "put", name |-> name, items |-> items]]
          /\ UNCHANGED life
       \/ InCall(r, {"get", "put"}) /\ life' = "race" /\ UNCHANGED job
    /\ UNCHANGED <<cache, stored, acked, shown, durable>>

BuildFatal(r) ==
    /\ Running /\ job[r].pc = "build" /\ Fatal(job[r].name)
    /\ Die /\ UNCHANGED durable

\* put ends, and the answer is sent.
Finish(r) ==
    /\ Running /\ job[r].pc = "put"
    /\ Put(job[r].name, job[r].items)
    /\ job' = [job EXCEPT ![r] = Idle]
    /\ UNCHANGED <<stored, life, acked, shown, durable>>

Work(r) == Insert(r) \/ LookedUp(r) \/ Build(r) \/ BuildFatal(r) \/ Finish(r)
Stop == Join \/ Truncate \/ SaveFails \/ WriteLine \/ Saved

Init ==
    /\ EmptyCache
    /\ stored = {} /\ file = NoFile /\ kept = NoFile
    /\ life = "down" /\ now = 1 /\ starts = 0 /\ asked = 0
    /\ job = [r \in Reactors |-> Idle]
    /\ posted = {} /\ acked = {} /\ shown = [k \in Keys |-> {}]

Next ==
    \/ Start \/ Signal \/ Stop \/ Crash \/ Tick
    \/ \E r \in Reactors :
        \/ Work(r)
        \/ \E m \in Messages : Post(r, m)
        \/ \E name \in Keys : Ask(r, name)

Spec == Init /\ [][Next]_vars

-----------------------------------------------------------------------------
DistinctKeys(S) == \A a, b \in S : a.key = b.key => a = b

(* No two nodes have one key, in the list or in the file: SkipList::insert *)
(* refuses the second message of a second, also among the loaded ones.     *)
KeysDistinct == DistinctKeys(stored) /\ (file # NoFile => DistinctKeys(file))

(* The answer analysisRequest sends from the cache was the right one at    *)
(* some time since the process started.  (Not necessarily now: a POST does *)
(* not touch the cache, and put keeps the old value of a key.)             *)
CacheWasTrue == \A k \in Keys : Cached(k) => Get(k) \in shown[k]

(* A message for which POST was answered "left" is in the list, unless     *)
(* another one of the same second is: insertNode's result is ignored.      *)
AckedListed == life # "down" => \A t \in acked : \E n \in stored : n.key = t

(* What the destructor of the list writes and its constructor reads: a     *)
(* sound message is back at the next start, unless a broken one before it  *)
(* in the file has taken its key; and nothing comes back that is not of a  *)
(* message in the file, or the empty line.  This is about the last complete*)
(* save, whatever happened after it, and about the rest that one which was *)
(* interrupted has left.                                                   *)
SavedComesBack ==
    [][life = "down" /\ life' = "up" /\ file # NoFile =>
        LET saved == IF kept = NoFile THEN file ELSE kept IN
        /\ \A n \in saved : Sound(n) =>
            \/ n \in stored'
            \/ \E p \in Places(saved) :
                /\ ~Sound(p[1]) /\ p[1].key < n.key
                /\ Piece(p) \in stored' /\ Piece(p).key = n.key
        /\ \A n \in stored' : n = Ghost \/ \E p \in Places(saved) : n = Piece(p)]_vars

(* A save that completes has written the whole list, with a node of the    *)
(* second of every message that was answered "left": the threads of the    *)
(* reactors, which insert, are joined before the list is destroyed.        *)
SaveIsComplete ==
    [][life = "write" /\ kept' # NoFile =>
        kept' = stored /\ \A t \in acked : \E n \in kept' : n.key = t]_vars

(* LRUCache is the bounded map it promises to be, as long as no two of its *)
(* calls overlap.                                                          *)
IsBoundedMap == Bounded!Spec
=============================================================================
