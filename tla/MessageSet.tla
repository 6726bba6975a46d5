----------------------------- MODULE MessageSet -----------------------------
(***************************************************************************)
(* What the storage engine promises the handlers of requests: a set of     *)
(* messages, at most one for each key (the second it was left in), changed *)
(* by one insertion or deletion at a time.  SkipList implements it.        *)
(***************************************************************************)
CONSTANTS Messages, KeyOf       \* KeyOf[m]: the time of message m

VARIABLES msgs,       \* the messages stored
          refused     \* the messages insert returned false for

Init == msgs = {} /\ refused = {}

Taken(m) == \E x \in msgs : KeyOf[x] = KeyOf[m]

Insert(m) == ~Taken(m) /\ msgs' = msgs \cup {m} /\ UNCHANGED refused

Refuse(m) == Taken(m) /\ refused' = refused \cup {m} /\ UNCHANGED msgs

Delete(m) == m \in msgs /\ msgs' = msgs \ {m} /\ UNCHANGED refused

Next == \E m \in Messages : Insert(m) \/ Refuse(m) \/ Delete(m)

Spec == Init /\ [][Next]_<<msgs, refused>>
=============================================================================
