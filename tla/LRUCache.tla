------------------------------ MODULE LRUCache ------------------------------
(***************************************************************************)
(* The cache of responses: a hash map from the requested name to a slot,   *)
(* the slots' keys and values, and a doubly linked list of the slots that  *)
(* is kept in vectors.  Each action is a whole call of put; calls that     *)
(* overlap are the business of the module that uses this one.              *)
(*                                                                         *)
(* With one slot put would read slot -1 (the predecessor of the slot it    *)
(* evicts) and with none slot 0; main takes the size from its arguments    *)
(* as it is.  Hence the assumption.                                        *)
(***************************************************************************)
EXTENDS Integers, Sequences, FiniteSets

CONSTANTS Keys,         \* names that can be requested
          Capacity,     \* max_size_
          None          \* an empty string

ASSUME CacheAssumption == Capacity \in Nat /\ Capacity >= 2

VARIABLES
    prev, next,     \* cache_list_[i][0] and cache_list_[i][2], -1 at the ends
    start, end,     \* start_idx_ and end_idx_
    map,            \* cache_items_map_
    keyAt,          \* cache_keys_
    itemAt,         \* cache_items_
    order           \* history: the keys by their last put, newest first

links == <<prev, next, start, end>>
cache == <<links, map, keyAt, itemAt, order>>

Slots == 0..Capacity - 1
Size == Cardinality(DOMAIN map)
Last == Len(order)

\* The promise, and its operator on the order of the keys.
Bounded == INSTANCE BoundedMap WITH value <- [k \in DOMAIN map |-> itemAt[map[k]]]
Promote(k, i) == Bounded!Promote(order, k, i)

CacheType ==
    /\ prev \in [Slots -> Slots \cup {-1}]
    /\ next \in [Slots -> Slots \cup {-1}]
    /\ start \in Slots /\ end \in Slots
    /\ map \in [DOMAIN map -> Slots] /\ DOMAIN map \subseteq Keys
    /\ keyAt \in [Slots -> Keys \cup {None}]
    /\ itemAt = [s \in Slots |-> itemAt[s]]
    /\ order \in Seq(Keys)

-----------------------------------------------------------------------------
EmptyCache ==
    /\ prev = [s \in Slots |-> -1] /\ next = [s \in Slots |-> -1]
    /\ start = 0 /\ end = 0
    /\ map = <<>>
    /\ keyAt = [s \in Slots |-> None] /\ itemAt = [s \in Slots |-> None]
    /\ order = <<>>

ClearCache ==
    /\ prev' = [s \in Slots |-> -1] /\ next' = [s \in Slots |-> -1]
    /\ start' = 0 /\ end' = 0
    /\ map' = <<>>
    /\ keyAt' = [s \in Slots |-> None] /\ itemAt' = [s \in Slots |-> None]
    /\ order' = <<>>

\* Mutant: the end is set to the wrong neighbour.
MoveToFrontWrongEnd(k) ==
    LET idx == map[k]
        pre == prev[idx]
        post == next[idx]
    IN
    /\ k \in DOMAIN map
    /\ idx # start
    /\ next' = [next EXCEPT ![pre] = post, ![idx] = start]
    /\ prev' = [s \in Slots |->
                    CASE s = idx -> -1
                      [] s = start -> idx
                      [] s = post -> pre
                      [] OTHER -> prev[s]]
    /\ end' = IF idx = end THEN post ELSE end
    /\ start' = idx
    /\ \E i \in 1..Last : order[i] = k /\ order' = Promote(k, i)
    /\ UNCHANGED <<map, keyAt, itemAt>>

\* Mutant: an entry between two others is unhooked in one direction only.
MoveToFrontHalfUnhooked(k) ==
    LET idx == map[k]
        pre == prev[idx]
        post == next[idx]
    IN
    /\ k \in DOMAIN map
    /\ idx # start
    /\ next' = [next EXCEPT ![pre] = post, ![idx] = start]
    /\ prev' = [prev EXCEPT ![idx] = -1, ![start] = idx]
    /\ end' = IF idx = end THEN pre ELSE end
    /\ start' = idx
    /\ \E i \in 1..Last : order[i] = k /\ order' = Promote(k, i)
    /\ UNCHANGED <<map, keyAt, itemAt>>

(* put of a key that is there and not at the head: its slot is unhooked    *)
(* and becomes the head.  Its value stays what it was.                     *)
MoveToFront(k) ==
    LET idx == map[k]
        pre == prev[idx]
        post == next[idx]
    IN
    /\ k \in DOMAIN map
    /\ idx # start
    /\ next' = [next EXCEPT ![pre] = post, ![idx] = start]
    /\ prev' = [s \in Slots |->
                    CASE s = idx -> -1
                      [] s = start -> idx
                      [] s = post -> pre
                      [] OTHER -> prev[s]]
    /\ end' = IF idx = end THEN pre ELSE end
    /\ start' = idx
    /\ \E i \in 1..Last : order[i] = k /\ order' = Promote(k, i)
    /\ UNCHANGED <<map, keyAt, itemAt>>

\* put of the key at the head changes nothing.
StayInFront(k) == k \in DOMAIN map /\ map[k] = start /\ UNCHANGED cache

Store(s, k, v) ==
    /\ keyAt' = [keyAt EXCEPT ![s] = k]
    /\ itemAt' = [itemAt EXCEPT ![s] = v]

\* Mutant: the evicted key stays mapped.
RemapOnly(k, s, drop) ==
    map' = [x \in DOMAIN map \cup {k} |-> IF x = k THEN s ELSE map[x]]

\* k is mapped to s; the keys in drop no longer are.
Remap(k, s, drop) ==
    map' = [x \in (DOMAIN map \ drop) \cup {k} |-> IF x = k THEN s ELSE map[x]]

\* Slot s, with its fields cleared, becomes the head of the list.
LinkHead(s, nx) ==
    /\ prev' = [prev EXCEPT ![s] = -1, ![start] = s]
    /\ next' = [nx EXCEPT ![s] = start]
    /\ start' = s

PutFirst(k, v) ==
    /\ Size = 0
    /\ start' = 0 /\ end' = 0
    /\ UNCHANGED <<prev, next>>
    /\ Store(0, k, v) /\ Remap(k, 0, {})
    /\ order' = Promote(k, 1)

PutNew(k, v) ==
    /\ 0 < Size /\ Size < Capacity
    /\ k \notin DOMAIN map
    /\ LinkHead(Size, next) /\ UNCHANGED end
    /\ Store(Size, k, v) /\ Remap(k, Size, {})
    /\ order' = Promote(k, Last + 1)

(* The slot at the end is emptied and used again.                          *)
PutEvict(k, v) ==
    /\ Size >= Capacity
    /\ k \notin DOMAIN map
    /\ LET pre == prev[end] IN
       /\ LinkHead(end, [next EXCEPT ![pre] = -1])
       /\ end' = pre
    /\ Store(end, k, v) /\ Remap(k, end, {keyAt[end]})
    /\ order' = Promote(k, Last)

\* Mutant: a value is written though its key is there.
PutRenewing(k, v) ==
    \/ /\ k \in DOMAIN map /\ map[k] = start
       /\ itemAt' = [itemAt EXCEPT ![start] = v]
       /\ UNCHANGED <<links, map, keyAt, order>>
    \/ MoveToFront(k) \/ PutFirst(k, v) \/ PutNew(k, v) \/ PutEvict(k, v)

Put(k, v) ==
    StayInFront(k) \/ MoveToFront(k) \/ PutFirst(k, v) \/ PutNew(k, v) \/ PutEvict(k, v)

\* get; it changes nothing.
Cached(k) == k \in DOMAIN map
Get(k) == itemAt[map[k]]

-----------------------------------------------------------------------------
Slot(i) == map[order[i]]

MapAgrees ==
    /\ \A k \in DOMAIN map : keyAt[map[k]] = k /\ map[k] < Size
    /\ \A i \in 1..Last : order[i] \in DOMAIN map
    /\ \A k \in DOMAIN map : \E i \in 1..Last : order[i] = k
    /\ \A i, j \in 1..Last : order[i] = order[j] => i = j
    /\ Last = Size

ListAgrees ==
    \A i \in 1..Last :
        /\ prev[Slot(i)] = IF i = 1 THEN -1 ELSE Slot(i - 1)
        /\ next[Slot(i)] = IF i = Last THEN -1 ELSE Slot(i + 1)

EndsAgree == Last > 0 => start = Slot(1) /\ end = Slot(Last)

(* After any sequence of puts the list that is kept in cache_list_ is, in  *)
(* both directions, the list of the keys by their last put; the map and    *)
(* the slots' keys agree; the slots in use are the first ones (put takes   *)
(* the number of entries for the next free slot).                          *)
ListIsOrder == MapAgrees /\ ListAgrees /\ EndsAgree
=============================================================================
