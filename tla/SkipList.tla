------------------------------ MODULE SkipList ------------------------------
(***************************************************************************)
(* The storage engine: insert and deleteNode, which hold mtx_, and the     *)
(* readers searchNode and getItems, which do not.                          *)
(*                                                                         *)
(* Every write that a reader can see is an action: each level of an        *)
(* insertion, then the count.  A reader loads one pointer or counter at a  *)
(* time.  Readers write nothing, so one stands for all of them; writers    *)
(* exclude each other, so the one that holds mtx_ does.  While nothing is  *)
(* deleted every node a reader can reach stays allocated, and the load of  *)
(* a pointer that is being assigned gives its old or its new value; a      *)
(* deletion under a reader would free nodes it holds no count on.  Nothing *)
(* in src/ calls deleteNode; it is modelled while no reader is running.    *)
(***************************************************************************)
EXTENDS Integers, Sequences, FiniteSets, Functions

CONSTANTS Nodes,        \* the nodes that can be created, one for a message
          KeyOf,        \* KeyOf[n]: key_, the second the message was left in
          MaxLevel,     \* maxLevel_
          MaxItems,     \* maxItemsLimited_
          Header, NULL

ASSUME SkipListAssumption ==
    /\ IsFiniteSet(Nodes)
    /\ KeyOf \in [Nodes -> Nat]
    /\ {MaxLevel, MaxItems} \subseteq Nat \ {0}
    /\ {Header, NULL} \cap Nodes = {} /\ Header # NULL

VARIABLES
    forward,    \* forward[x][i]: the node after x on level i
    height,     \* nodeLevel_ of a node, 0 when it has not been created
    level,      \* skipListLevel_
    count,      \* elementCount_
    writer,     \* the insertion in progress, under mtx_
    refused,    \* history: the nodes insert returned false for
    reader      \* the read in progress

vars == <<forward, height, level, count, writer, refused, reader>>
list == <<forward, height, level, count, writer, refused>>

Levels == 0..MaxLevel
Keys == Range(KeyOf)
Start == Nodes \cup {Header}
Pointer == Nodes \cup {NULL}

Idle == [pc |-> "idle"]

Insertion == [pc : {"link", "count"}, node : Nodes, at : Levels,
              update : UNION {[0..h -> Start] : h \in Levels}]

Reading ==
    [pc : {"level", "descend", "land", "again", "skip", "collect", "done"},
     kind : {"search", "from", "last"}, key : Keys \cup {0},
     want : 0..MaxItems, cnt : 0..MaxItems, pass : -1..Cardinality(Nodes),
     cur : Start \cup {NULL}, lev : Levels, got : Seq(Nodes), seen : SUBSET Nodes]

TypeOK ==
    /\ forward \in [Start -> [Levels -> Pointer]]
    /\ height \in [Nodes -> Levels]
    /\ level \in Levels
    /\ count \in 0..Cardinality(Nodes)
    /\ refused \subseteq Nodes
    /\ writer \in {Idle} \cup Insertion
    /\ writer # Idle => DOMAIN writer.update = 0..height[writer.node]
    /\ reader \in {Idle} \cup Reading

Init ==
    /\ forward = [x \in Start |-> [i \in Levels |-> NULL]]
    /\ height = [n \in Nodes |-> 0]
    /\ level = 0
    /\ count = 0
    /\ writer = Idle /\ refused = {}
    /\ reader = Idle

-----------------------------------------------------------------------------
(* The writers.                                                            *)

\* The last node before key k that the walk along level i from x comes to.
Walk(i, k) ==
    LET from[x \in Start] ==
            LET y == forward[x][i]
            IN  IF y # NULL /\ KeyOf[y] < k THEN from[y] ELSE x
    IN  from

\* update: where the search for k leaves each level, from the top down.
Update(k) ==
    LET at[i \in 0..level] ==
            Walk(i, k)[IF i = level THEN Header ELSE at[i + 1]]
    IN  at

\* What the search for k ends on.
Found(k) == forward[Update(k)[0]][0]
Present(k) == Found(k) # NULL /\ KeyOf[Found(k)] = k

\* Mutant: the search for a node with the same key is left out.
InsertUnchecked(n, h) ==
    /\ writer = Idle /\ height[n] = 0 /\ n \notin refused
    /\ height' = [height EXCEPT ![n] = h]
    /\ level' = IF h > level THEN h ELSE level
    /\ writer' = [pc |-> "link", node |-> n, at |-> 0,
                  update |-> [i \in 0..h |-> IF i <= level THEN Update(KeyOf[n])[i]
                                                           ELSE Header]]
    /\ UNCHANGED <<forward, count, refused, reader>>
(* insert of a node of random level h, up to its first link: the search    *)
(* and, if the key is new, the list's level.                               *)
Insert(n, h) ==
    /\ writer = Idle /\ height[n] = 0 /\ n \notin refused
    /\ ~Present(KeyOf[n])
    /\ height' = [height EXCEPT ![n] = h]
    /\ level' = IF h > level THEN h ELSE level
    /\ writer' = [pc |-> "link", node |-> n, at |-> 0,
                  update |-> [i \in 0..h |-> IF i <= level THEN Update(KeyOf[n])[i]
                                                           ELSE Header]]
    /\ UNCHANGED <<forward, count, refused, reader>>

\* A node with that key is there: the new one is destroyed.
Refuse(n) ==
    /\ writer = Idle /\ height[n] = 0 /\ n \notin refused
    /\ Present(KeyOf[n])
    /\ refused' = refused \cup {n}
    /\ UNCHANGED <<forward, height, level, count, writer, reader>>

\* Mutant: the node's own pointer is not set, which loses what follows.
LinkOnlyPredecessor ==
    LET n == writer.node
        i == writer.at
        x == writer.update[i]
    IN  /\ writer.pc = "link"
        /\ forward' = [forward EXCEPT ![x][i] = n]
        /\ writer' = IF i = height[n] THEN [writer EXCEPT !.pc = "count"]
                                      ELSE [writer EXCEPT !.at = i + 1]
        /\ UNCHANGED <<height, level, count, refused, reader>>
(* One level of the node: its own pointer, which no reader can load yet,   *)
(* and its predecessor's.                                                  *)
Link ==
    LET n == writer.node
        i == writer.at
        x == writer.update[i]
    IN  /\ writer.pc = "link"
        /\ forward' = [forward EXCEPT ![n][i] = forward[x][i], ![x][i] = n]
        /\ writer' = IF i = height[n] THEN [writer EXCEPT !.pc = "count"]
                                      ELSE [writer EXCEPT !.at = i + 1]
        /\ UNCHANGED <<height, level, count, refused, reader>>

\* The count, and the end of the critical section.
Count ==
    /\ writer.pc = "count"
    /\ count' = count + 1
    /\ writer' = Idle
    /\ UNCHANGED <<forward, height, level, refused, reader>>

\* Mutant: the count is not lowered.
DeleteUncounted(k) ==
    LET n == Found(k)
        u == Update(k)
        on == {i \in 0..level : \A j \in 0..i : forward[u[j]][j] = n}
    IN  /\ writer = Idle /\ reader = Idle
        /\ Present(k)
        /\ forward' = [x \in Start |-> [i \in Levels |->
                         IF i \in on /\ u[i] = x THEN forward[n][i] ELSE forward[x][i]]]
        /\ level' = CHOOSE l \in 0..level :
                      /\ l = 0 \/ forward'[Header][l] # NULL
                      /\ \A m \in l + 1..level : forward'[Header][m] = NULL
        /\ UNCHANGED <<height, count, writer, refused, reader>>
(* deleteNode: unlink from the bottom up until a level does not lead to    *)
(* the node, lower the list's level past the empty ones, count down.       *)
Delete(k) ==
    LET n == Found(k)
        u == Update(k)
        on == {i \in 0..level : \A j \in 0..i : forward[u[j]][j] = n}
    IN  /\ writer = Idle /\ reader = Idle
        /\ Present(k)
        /\ forward' = [x \in Start |-> [i \in Levels |->
                         IF i \in on /\ u[i] = x THEN forward[n][i] ELSE forward[x][i]]]
        /\ level' = CHOOSE l \in 0..level :
                      /\ l = 0 \/ forward'[Header][l] # NULL
                      /\ \A m \in l + 1..level : forward'[Header][m] = NULL
        /\ count' = count - 1
        /\ UNCHANGED <<height, writer, refused, reader>>
-----------------------------------------------------------------------------
(* The readers.                                                            *)

\* The nodes that the pointers f lead to on level i.
Reached(f, i) ==
    LET rest[x \in Start] ==
            IF f[x][i] = NULL THEN {} ELSE {f[x][i]} \cup rest[f[x][i]]
    IN  rest[Header]

OnLevel(i) == Reached(forward, i)

\* The messages whose insertion is complete.
Complete == OnLevel(0) \ (IF writer = Idle THEN {} ELSE {writer.node})

Minimum(S) == CHOOSE x \in S : \A y \in S : x <= y

(* A read starts: searchNode(key), getItems(key) and getItems(key, num),   *)
(* or getItems(num).  The last two kinds load elementCount_ first.  The    *)
(* numbers asked for are not negative (a bound of the model).              *)
Begin(kind, key, num) ==
    LET want == IF kind = "search" THEN 0 ELSE Minimum({num, MaxItems, count})
    IN  /\ reader = Idle
        /\ reader' = [pc |-> IF kind # "last" THEN "level"
                             ELSE IF want = 0 THEN "done" ELSE "again",
                      kind |-> kind, key |-> key, want |-> want, cnt |-> want,
                      pass |-> 0, cur |-> Header, lev |-> 0, got |-> <<>>,
                      seen |-> Complete]
        /\ UNCHANGED list

\* Mutant: one message too many is passed over.
LoadCountOneMore ==
    /\ reader.pc = "again"
    /\ reader' = [reader EXCEPT !.pc = "skip", !.pass = count - reader.cnt + 1]
    /\ UNCHANGED list
\* getItems(num) loads elementCount_ again, for the messages to pass over.
LoadCount ==
    /\ reader.pc = "again"
    /\ reader' = [reader EXCEPT !.pc = "skip", !.pass = count - reader.cnt]
    /\ UNCHANGED list

\* Mutant: one step too many.
SkipOneMore ==
    /\ reader.pc = "skip"
    /\ IF reader.pass >= -1
       THEN /\ reader.cur # NULL
            /\ reader' = [reader EXCEPT !.cur = forward[reader.cur][0], !.pass = @ - 1]
       ELSE reader' = [reader EXCEPT !.pc = "collect"]
    /\ UNCHANGED list
Skip ==
    /\ reader.pc = "skip"
    /\ IF reader.pass >= 0
       THEN /\ reader.cur # NULL
            /\ reader' = [reader EXCEPT !.cur = forward[reader.cur][0], !.pass = @ - 1]
       ELSE reader' = [reader EXCEPT !.pc = "collect"]
    /\ UNCHANGED list

\* The descent starts at the list's level, from the header.
LoadLevel ==
    /\ reader.pc = "level"
    /\ reader' = [reader EXCEPT !.pc = "descend", !.lev = level]
    /\ UNCHANGED list

\* Mutant: the descent goes past a node with the key itself.
DescendPast ==
    LET y == forward[reader.cur][reader.lev]
    IN  /\ reader.pc = "descend"
        /\ reader' = IF y # NULL /\ KeyOf[y] <= reader.key
                     THEN [reader EXCEPT !.cur = y]
                     ELSE IF reader.lev > 0 THEN [reader EXCEPT !.lev = @ - 1]
                     ELSE [reader EXCEPT !.pc = "land"]
        /\ UNCHANGED list
Descend ==
    LET y == forward[reader.cur][reader.lev]
    IN  /\ reader.pc = "descend"
        /\ reader' = IF y # NULL /\ KeyOf[y] < reader.key
                     THEN [reader EXCEPT !.cur = y]
                     ELSE IF reader.lev > 0 THEN [reader EXCEPT !.lev = @ - 1]
                     ELSE [reader EXCEPT !.pc = "land"]
        /\ UNCHANGED list

(* The pointer the descent stopped at is loaded a second time, and decides *)
(* what is found.                                                          *)
Land ==
    LET y == forward[reader.cur][0]
    IN  /\ reader.pc = "land"
        /\ reader' = IF reader.kind = "search"
                     THEN [reader EXCEPT !.pc = "done",
                             !.got = IF y # NULL /\ KeyOf[y] = reader.key THEN <<y>> ELSE <<>>]
                     ELSE IF y # NULL /\ KeyOf[y] >= reader.key
                     THEN [reader EXCEPT !.pc = "collect", !.cur = y]
                     ELSE [reader EXCEPT !.pc = "done"]
        /\ UNCHANGED list

\* getItems adds a message and moves on, or is done.
Collect ==
    /\ reader.pc = "collect"
    /\ reader' = IF reader.cur # NULL /\ reader.cnt > 0
                 THEN [reader EXCEPT !.got = Append(@, reader.cur), !.cnt = @ - 1,
                                     !.cur = forward[reader.cur][0]]
                 ELSE [reader EXCEPT !.pc = "done"]
    /\ UNCHANGED list

Return ==
    /\ reader.pc = "done"
    /\ reader' = Idle
    /\ UNCHANGED list
-----------------------------------------------------------------------------
Write ==
    \/ \E n \in Nodes : Refuse(n) \/ \E h \in 1..MaxLevel : Insert(n, h)
    \/ Link \/ Count
    \/ \E k \in Keys : Delete(k)

Read ==
    \/ \E k \in Keys : Begin("search", k, 0)
    \/ \E k \in Keys, num \in 1..MaxItems : Begin("from", k, num)
    \/ \E num \in 0..MaxItems : Begin("last", 0, num)
    \/ LoadCount \/ Skip \/ LoadLevel \/ Descend \/ Land \/ Collect \/ Return

Next == Write \/ Read

Spec == Init /\ [][Next]_vars
-----------------------------------------------------------------------------
(* The properties.                                                         *)

\* Insertions and deletions take effect one at a time, when level 0 changes.
MS == INSTANCE MessageSet WITH Messages <- Nodes, msgs <- OnLevel(0)
IsMessageSet == MS!Spec

(* At every point of an insertion each level is in the order of the keys   *)
(* and part of the level below, no node is on a level above its own, the   *)
(* count is never ahead of the list, and outside the critical section it   *)
(* and the list's level are exact.                                         *)
WellLinked ==
    /\ \A i \in Levels :
         /\ i > 0 => OnLevel(i) \subseteq OnLevel(i - 1)
         /\ \A n \in OnLevel(i) :
              /\ height[n] >= i
              /\ forward[n][i] # NULL => KeyOf[n] < KeyOf[forward[n][i]]
    /\ count = Cardinality(Complete)
    /\ writer = Idle =>
         /\ \A n \in OnLevel(0) : \A i \in 0..height[n] : n \in OnLevel(i)
         /\ \A i \in 1..MaxLevel : OnLevel(i) # {} <=> i <= level

(* A reader that takes no lock never follows a null pointer and never      *)
(* indexes the pointers of a node above its level.                         *)
ReaderStaysInList ==
    /\ reader.pc = "skip" /\ reader.pass >= 0 => reader.cur # NULL
    /\ reader.pc = "descend" /\ reader.cur # Header => reader.lev <= height[reader.cur]

Newer(n, m) == KeyOf[n] > KeyOf[m]

(* What getItems returns is in the order of the keys and leaves out none   *)
(* of the messages that were stored before the call, between the first and *)
(* the last it returns; with fewer than were asked for it has all that     *)
(* follow.                                                                 *)
NoGaps ==
    reader.pc = "done" /\ reader.got # <<>> =>
        LET got == reader.got
        IN  /\ \A i \in 1..Len(got) - 1 : Newer(got[i + 1], got[i])
            /\ reader.kind = "from" => KeyOf[got[1]] >= reader.key
            /\ reader.kind # "search" =>
                 \A m \in reader.seen \ Range(got) :
                   \/ /\ Newer(got[1], m)
                      /\ reader.kind = "from" => KeyOf[m] < reader.key
                   \/ Newer(m, got[Len(got)]) /\ Len(got) = reader.want

(* getItems(num) returns as many messages as were asked for and stored,    *)
(* and a stored one newer than all of them is left out only for one that   *)
(* was inserted during the call.                                           *)
LatestReturned ==
    reader.pc = "done" /\ reader.kind = "last" =>
        /\ Len(reader.got) = reader.want
        /\ reader.want > 0 =>
             LET missed == {m \in reader.seen : Newer(m, reader.got[reader.want])}
             IN  Cardinality(missed) <= Cardinality(OnLevel(0) \ reader.seen)

(* README.md: the storage engine, like the cache, is locked to avoid       *)
(* problems under concurrency.  getItems(key) answers that there are no    *)
(* records only if no message stored before the call is that late.         *)
FindsStored ==
    reader.pc = "done" /\ reader.kind = "from" /\ reader.got = <<>> =>
        \A m \in reader.seen : KeyOf[m] < reader.key
=============================================================================
