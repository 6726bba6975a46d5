----------------------------- MODULE BoundedMap -----------------------------
(***************************************************************************)
(* What the cache promises: a map with room for a number of keys, from     *)
(* which the key that was put longest ago is dropped to make room.  Reading*)
(* a key does not count as a use of it (the call of put in get is          *)
(* commented out), and a put of a key that is there keeps its old value.   *)
(* LRUCache implements it.                                                 *)
(***************************************************************************)
EXTENDS Integers, Sequences

CONSTANTS Keys, Capacity

VARIABLES order,    \* the keys, the one put last first
          value     \* the value of each

(* Key k moves to the head of s: the entries before place i make room.     *)
(* Place i is where k was, or the last one (its key is dropped), or a new  *)
(* one behind it.                                                          *)
Promote(s, k, i) ==
    [j \in 1..(IF i > Len(s) THEN i ELSE Len(s)) |->
        IF j = 1 THEN k ELSE IF j <= i THEN s[j - 1] ELSE s[j]]

Init == order = <<>> /\ value = <<>>

Renew(k) ==
    /\ \E i \in 1..Len(order) : order[i] = k /\ order' = Promote(order, k, i)
    /\ UNCHANGED value

Add(k) ==
    /\ k \notin DOMAIN value
    /\ Len(order) < Capacity
    /\ order' = Promote(order, k, Len(order) + 1)
    /\ DOMAIN value' = DOMAIN value \cup {k}
    /\ \A x \in DOMAIN value : value'[x] = value[x]

Replace(k) ==
    /\ k \notin DOMAIN value
    /\ Len(order) = Capacity
    /\ order' = Promote(order, k, Capacity)
    /\ DOMAIN value' = (DOMAIN value \ {order[Capacity]}) \cup {k}
    /\ \A x \in DOMAIN value \ {order[Capacity]} : value'[x] = value[x]

Clear == order' = <<>> /\ value' = <<>>     \* the process starts again

Next == Clear \/ \E k \in Keys : Renew(k) \/ Add(k) \/ Replace(k)

Spec == Init /\ [][Next]_<<order, value>>
=============================================================================
