------------------------ MODULE TreeHoleServiceProofs ------------------------
(***************************************************************************)
(* Proofs about LRUCache, for any set of keys and any capacity from two    *)
(* (put keeps the vectors a list, and is a step of the bounded map), and,  *)
(* with them, about TreeHoleService, for any reactors, messages, names,    *)
(* broken texts, size of the cache and bounds: everything its run checks.  *)
(***************************************************************************)
EXTENDS TreeHoleService, LeastNatural, SequenceTheorems, TLAPS

(* What holds between two calls of put.  The slots in use are finitely     *)
(* many and not more than there are; the first slot, which the first put   *)
(* takes without touching its links, has none then.                        *)
CacheInv ==
    /\ CacheType /\ ListIsOrder
    /\ IsFiniteSet(DOMAIN map) /\ Size <= Capacity
    /\ Last = 0 => prev[0] = -1 /\ next[0] = -1

-----------------------------------------------------------------------------
(* Promote puts k at the head and moves what was before place i by one.    *)
LEMMA PromoteProperties ==
  ASSUME order \in Seq(Keys), NEW k \in Keys, NEW i \in 1..Last + 1,
         order' = Promote(k, i)
  PROVE  /\ order' \in Seq(Keys)
         /\ Last' = IF i > Last THEN i ELSE Last
         /\ \A j \in 1..Last' :
                order'[j] = IF j = 1 THEN k ELSE IF j <= i THEN order[j - 1] ELSE order[j]
<1> DEFINE n == IF i > Len(order) THEN i ELSE Len(order)
           e(j) == IF j = 1 THEN k ELSE IF j <= i THEN order[j - 1] ELSE order[j]
<1>1. Len(order) \in Nat /\ n \in Nat
  BY DEF Last
<1>2. \A j \in 1..n : e(j) \in Keys
  BY <1>1, ElementOfSeq DEF Last
<1>3. order' = [j \in 1..n |-> e(j)]
  BY DEF Promote, Bounded!Promote, Last
<1> HIDE DEF n, e
<1>4. order' \in Seq(Keys)
  BY <1>1, <1>2, <1>3, IsASeq
<1>5. Len(order') = n
  BY <1>1, <1>3, <1>4, LenProperties
<1> QED
  BY <1>3, <1>4, <1>5 DEF n, e, Last

(* The slots of the list are those in use, each once.                      *)
LEMMA SlotsOnce ==
  ASSUME CacheInv
  PROVE  /\ Last \in Nat /\ Size = Last
         /\ \A i \in 1..Last : Slot(i) \in Slots /\ Slot(i) < Last /\ order[i] \in Keys
         /\ \A i, j \in 1..Last : Slot(i) = Slot(j) => i = j
         /\ \A i \in 1..Last : keyAt[Slot(i)] = order[i]
<1> USE DEF CacheInv, CacheType, ListIsOrder, MapAgrees
<1>1. Last \in Nat /\ Size = Last
  BY DEF Last
<1>2. \A i \in 1..Last : order[i] \in DOMAIN map
  OBVIOUS
<1>3. \A i \in 1..Last : Slot(i) \in Slots /\ Slot(i) < Last /\ order[i] \in Keys
  BY <1>1, <1>2 DEF Slot
<1>4. \A i \in 1..Last : keyAt[Slot(i)] = order[i]
  BY <1>2 DEF Slot
<1> QED BY <1>1, <1>3, <1>4

-----------------------------------------------------------------------------
(* put of a key that is there: its slot moves to the head of the list.     *)
LEMMA MoveKeeps ==
  ASSUME CacheInv, NEW k \in Keys, MoveToFront(k)
  PROVE  CacheInv'
<1>1. PICK p \in 1..Last : order[p] = k /\ order' = Promote(k, p)
  BY DEF MoveToFront
<1>2. /\ Last \in Nat /\ Size = Last
      /\ \A i \in 1..Last : Slot(i) \in Slots /\ Slot(i) < Last /\ order[i] \in Keys
      /\ \A i, j \in 1..Last : Slot(i) = Slot(j) => i = j
  BY SlotsOnce
<1>3. /\ order' \in Seq(Keys) /\ Last' = Last
      /\ \A j \in 1..Last :
            order'[j] = IF j = 1 THEN k ELSE IF j <= p THEN order[j - 1] ELSE order[j]
  BY <1>1, <1>2, PromoteProperties DEF CacheInv, CacheType
<1>4. /\ map[k] = Slot(p) /\ start = Slot(1) /\ end = Slot(Last) /\ p > 1
      /\ start \in Slots /\ map' = map /\ keyAt' = keyAt /\ itemAt' = itemAt
  BY <1>1, <1>2 DEF MoveToFront, Slot, CacheInv, CacheType, ListIsOrder, EndsAgree
<1>5. \A j \in 1..Last :
        Slot(j)' = IF j = 1 THEN Slot(p) ELSE IF j <= p THEN Slot(j - 1) ELSE Slot(j)
  BY <1>1, <1>2, <1>3, <1>4 DEF Slot
<1>6. /\ prev[Slot(p)] = Slot(p - 1)
      /\ next[Slot(p)] = IF p = Last THEN -1 ELSE Slot(p + 1)
      /\ \A i \in 1..Last :
            /\ prev[Slot(i)] = IF i = 1 THEN -1 ELSE Slot(i - 1)
            /\ next[Slot(i)] = IF i = Last THEN -1 ELSE Slot(i + 1)
  BY <1>4, <1>2 DEF CacheInv, ListIsOrder, ListAgrees
<1>7. /\ prev \in [Slots -> Slots \cup {-1}] /\ next \in [Slots -> Slots \cup {-1}]
      /\ Slots \subseteq Nat
  BY CacheAssumption DEF CacheInv, CacheType, Slots
<1>8. /\ next' = [next EXCEPT ![Slot(p - 1)] = next[Slot(p)], ![Slot(p)] = start]
      /\ prev' = [s \in Slots |->
                    CASE s = Slot(p) -> -1
                      [] s = start -> Slot(p)
                      [] s = next[Slot(p)] -> Slot(p - 1)
                      [] OTHER -> prev[s]]
      /\ end' = (IF Slot(p) = end THEN Slot(p - 1) ELSE end)
      /\ start' = Slot(p)
  BY <1>4, <1>6 DEF MoveToFront
<1>9. /\ p - 1 \in 1..Last /\ 1 \in 1..Last /\ 2 \in 1..Last /\ Last \in 1..Last
      /\ Slot(p) \in Slots /\ Slot(p - 1) \in Slots
      /\ Slot(1) \in Slots /\ Slot(Last) \in Slots
  BY <1>2, <1>4
<1>10. /\ \A s \in Slots : next'[s] = IF s = Slot(p) THEN Slot(1)
                                     ELSE IF s = Slot(p - 1) THEN next[Slot(p)]
                                     ELSE next[s]
       /\ \A s \in Slots : prev'[s] = IF s = Slot(p) THEN -1
                                     ELSE IF s = Slot(1) THEN Slot(p)
                                     ELSE IF s = next[Slot(p)] THEN Slot(p - 1)
                                     ELSE prev[s]
  <2>1. Slot(p - 1) # Slot(p)
    BY <1>2, <1>9
  <2>2. ASSUME NEW s \in Slots
        PROVE  next'[s] = IF s = Slot(p) THEN Slot(1)
                          ELSE IF s = Slot(p - 1) THEN next[Slot(p)] ELSE next[s]
    BY <1>4, <1>7, <1>8, <1>9, <2>1
  <2>3. ASSUME NEW s \in Slots
        PROVE  prev'[s] = IF s = Slot(p) THEN -1 ELSE IF s = Slot(1) THEN Slot(p)
                          ELSE IF s = next[Slot(p)] THEN Slot(p - 1) ELSE prev[s]
    <3>1. prev'[s] = CASE s = Slot(p) -> -1
                       [] s = start -> Slot(p)
                       [] s = next[Slot(p)] -> Slot(p - 1)
                       [] OTHER -> prev[s]
      BY <1>8
    <3>2. CASE s = Slot(p) \/ s = Slot(1)
      <4>1. Slot(p) # Slot(1)
        BY <1>2, <1>4, <1>9
      <4>2. next[Slot(p)] # Slot(1) /\ next[Slot(p)] # Slot(p)
        <5>1. CASE p = Last
          BY <1>6, <1>7, <1>9, <5>1
        <5>2. CASE p # Last
          <6>1. p + 1 \in 1..Last
            BY <1>2, <5>2
          <6> QED BY <1>2, <1>4, <1>6, <1>9, <5>2, <6>1
        <5> QED BY <5>1, <5>2
      <4> QED BY <1>4, <3>1, <3>2, <4>1, <4>2
    <3>3. CASE s # Slot(p) /\ s # Slot(1)
      BY <1>4, <3>1, <3>3
    <3> QED BY <3>2, <3>3
  <2> QED BY <2>2, <2>3
<1>11. CacheType'
  <2>1. next' \in [Slots -> Slots \cup {-1}]
    BY <1>4, <1>7, <1>8, <1>9
  <2>2. prev' \in [Slots -> Slots \cup {-1}]
    BY <1>4, <1>7, <1>8, <1>9
  <2>3. start' \in Slots /\ end' \in Slots
    BY <1>4, <1>8, <1>9
  <2> QED BY <1>3, <1>4, <2>1, <2>2, <2>3 DEF CacheInv, CacheType, Slots
<1>12. MapAgrees'
  <2>1. Size' = Size
    BY <1>4 DEF Size
  <2>2. /\ \A q \in DOMAIN map : keyAt[map[q]] = q /\ map[q] < Size
        /\ \A i \in 1..Last : order[i] \in DOMAIN map
        /\ \A i, j \in 1..Last : order[i] = order[j] => i = j
    BY DEF CacheInv, ListIsOrder, MapAgrees
  <2>3. ASSUME NEW j \in 1..Last PROVE order'[j] \in DOMAIN map
    <3>1. CASE j > 1 /\ j <= p
      <4>1. j - 1 \in 1..Last
        BY <1>2, <3>1
      <4> QED BY <1>3, <2>2, <3>1, <4>1
    <3>2. CASE ~(j > 1 /\ j <= p)
      BY <1>1, <1>2, <1>3, <2>2, <3>2
    <3> QED BY <3>1, <3>2
  <2>4. \A q \in DOMAIN map : \E j \in 1..Last : order'[j] = q
    <3> SUFFICES ASSUME NEW q \in DOMAIN map PROVE \E j \in 1..Last : order'[j] = q
      OBVIOUS
    <3>1. PICK i \in 1..Last : order[i] = q
      BY DEF CacheInv, ListIsOrder, MapAgrees
    <3>2. CASE i = p
      BY <1>1, <1>2, <1>3, <3>1, <3>2
    <3>3. CASE i < p
      <4>1. i + 1 \in 1..Last /\ order'[i + 1] = q
        BY <1>1, <1>2, <1>3, <3>1, <3>3
      <4> QED BY <4>1
    <3>4. CASE i > p
      BY <1>1, <1>2, <1>3, <3>1, <3>4
    <3> QED BY <3>2, <3>3, <3>4, <1>2
  <2>5. ASSUME NEW i \in 1..Last, NEW j \in 1..Last, order'[i] = order'[j]
        PROVE  i = j
    <3> DEFINE was(x) == IF x = 1 THEN p ELSE IF x <= p THEN x - 1 ELSE x
    <3>1. was(i) \in 1..Last /\ was(j) \in 1..Last
      BY <1>2
    <3>2. order'[i] = order[was(i)] /\ order'[j] = order[was(j)]
      BY <1>1, <1>2, <1>3
    <3>3. was(i) = was(j)
      <4> HIDE DEF was
      <4> QED BY <2>2, <2>5, <3>1, <3>2
    <3> QED BY <1>2, <3>3
  <2> QED BY <1>2, <1>3, <1>4, <2>1, <2>2, <2>3, <2>4, <2>5 DEF MapAgrees
<1>13. ListAgrees'
  <2> SUFFICES ASSUME NEW j \in 1..Last
               PROVE  /\ prev'[Slot(j)'] = IF j = 1 THEN -1 ELSE Slot(j - 1)'
                      /\ next'[Slot(j)'] = IF j = Last THEN -1 ELSE Slot(j + 1)'
    BY <1>3 DEF ListAgrees
  <2>1. CASE j = 1
    <3>1. Slot(1)' = Slot(p) /\ Slot(2)' = Slot(1)
      BY <1>4, <1>5, <1>9
    <3>2. prev'[Slot(p)] = -1 /\ next'[Slot(p)] = Slot(1)
      BY <1>9, <1>10
    <3> QED BY <1>2, <1>4, <2>1, <3>1, <3>2
  <2>2. CASE j > 1 /\ j <= p
    <3>1. j - 1 \in 1..Last /\ Slot(j - 1) \in Slots /\ Slot(j)' = Slot(j - 1)
      BY <1>2, <1>5, <2>2
    <3>2. Slot(j - 1) # Slot(p) /\ Slot(j - 1) # next[Slot(p)]
      <4>1. Slot(j - 1) # Slot(p)
        BY <1>2, <2>2, <3>1
      <4>2. CASE p = Last
        BY <1>2, <1>6, <1>7, <3>1, <4>1, <4>2
      <4>3. CASE p # Last
        <5>1. p + 1 \in 1..Last
          BY <1>2, <4>3
        <5> QED BY <1>2, <1>6, <2>2, <3>1, <4>1, <4>3, <5>1
      <4> QED BY <4>1, <4>2, <4>3
    <3>3. prev'[Slot(j)'] = Slot(j - 1)'
      <4>1. CASE j = 2
        <5>1. prev'[Slot(1)] = Slot(p) /\ Slot(1)' = Slot(p)
          BY <1>5, <1>9, <1>10, <3>2, <4>1
        <5> QED BY <3>1, <4>1, <5>1
      <4>2. CASE j > 2
        <5>1. Slot(j - 1) # Slot(1) /\ Slot(j - 1)' = Slot(j - 2)
          BY <1>2, <1>5, <1>9, <2>2, <3>1, <4>2
        <5>2. prev'[Slot(j - 1)] = prev[Slot(j - 1)]
          BY <1>10, <3>1, <3>2, <5>1
        <5>3. prev[Slot(j - 1)] = Slot(j - 2)
          BY <1>6, <3>1, <4>2
        <5> QED BY <3>1, <5>1, <5>2, <5>3
      <4> QED BY <2>2, <4>1, <4>2
    <3>4. next'[Slot(j)'] = IF j = Last THEN -1 ELSE Slot(j + 1)'
      <4>1. CASE j = p
        <5>1. next'[Slot(p - 1)] = next[Slot(p)]
          BY <1>9, <1>10, <3>2, <4>1
        <5>2. p # Last => Slot(p + 1)' = Slot(p + 1)
          BY <1>2, <1>4, <1>5
        <5> QED BY <1>6, <3>1, <4>1, <5>1, <5>2
      <4>2. CASE j < p
        <5>1. Slot(j + 1)' = Slot(j) /\ j # Last /\ Slot(j - 1) # Slot(p - 1)
          BY <1>2, <1>5, <1>9, <2>2, <3>1, <4>2
        <5>2. next'[Slot(j - 1)] = next[Slot(j - 1)]
          BY <1>10, <3>1, <3>2, <5>1
        <5>3. next[Slot(j - 1)] = Slot(j)
          BY <1>6, <3>1, <5>1, <1>2
        <5> QED BY <3>1, <5>1, <5>2, <5>3
      <4> QED BY <2>2, <4>1, <4>2
    <3> QED BY <2>2, <3>3, <3>4
  <2>3. CASE j > p
    <3>1. /\ Slot(j) \in Slots /\ Slot(j)' = Slot(j)
          /\ Slot(j) # Slot(p) /\ Slot(j) # Slot(p - 1) /\ Slot(j) # Slot(1)
      BY <1>2, <1>4, <1>5, <1>9, <2>3
    <3>2. next'[Slot(j)'] = IF j = Last THEN -1 ELSE Slot(j + 1)'
      <4>1. j # Last => Slot(j + 1)' = Slot(j + 1)
        BY <1>2, <1>4, <1>5, <2>3
      <4>2. next'[Slot(j)] = next[Slot(j)]
        BY <1>10, <3>1
      <4> QED BY <1>6, <3>1, <4>1, <4>2
    <3>3. prev'[Slot(j)'] = Slot(j - 1)'
      <4>1. p + 1 \in 1..Last /\ next[Slot(p)] = Slot(p + 1)
        BY <1>2, <1>6, <2>3
      <4>2. CASE j = p + 1
        <5>1. Slot(p)' = Slot(p - 1)
          BY <1>4, <1>5
        <5>2. prev'[Slot(j)] = Slot(p - 1)
          BY <1>10, <3>1, <4>1, <4>2
        <5> QED BY <3>1, <4>2, <5>1, <5>2, <1>2
      <4>3. CASE j > p + 1
        <5>1. Slot(j - 1)' = Slot(j - 1) /\ Slot(j) # Slot(p + 1)
          BY <1>2, <1>4, <1>5, <4>1, <4>3
        <5>2. prev'[Slot(j)] = prev[Slot(j)]
          BY <1>10, <3>1, <4>1, <5>1
        <5>3. prev[Slot(j)] = Slot(j - 1)
          BY <1>4, <1>6, <2>3, <1>2
        <5> QED BY <3>1, <5>1, <5>2, <5>3
      <4> QED BY <1>2, <2>3, <4>2, <4>3
    <3> QED BY <1>4, <1>2, <2>3, <3>2, <3>3
  <2> QED BY <1>2, <2>1, <2>2, <2>3
<1>14. EndsAgree'
  <2>1. start' = Slot(1)'
    BY <1>5, <1>8, <1>9
  <2>2. end' = Slot(Last)'
    <3>1. CASE p = Last
      <4>1. Slot(Last)' = Slot(p - 1)
        BY <1>3, <1>4, <1>5, <1>9, <3>1
      <4> QED BY <1>4, <1>8, <3>1, <4>1
    <3>2. CASE p # Last
      <4>1. Slot(Last)' = Slot(Last) /\ Slot(p) # Slot(Last)
        BY <1>2, <1>3, <1>4, <1>5, <1>9, <3>2
      <4> QED BY <1>4, <1>8, <4>1
    <3> QED BY <3>1, <3>2
  <2> QED BY <1>3, <2>1, <2>2 DEF EndsAgree
<1> QED
  BY <1>2, <1>3, <1>4, <1>11, <1>12, <1>13, <1>14 DEF CacheInv, ListIsOrder, Size

-----------------------------------------------------------------------------
(* The first put: one slot, without neighbours.                            *)
LEMMA FirstKeeps ==
  ASSUME CacheInv, NEW k \in Keys, NEW v, PutFirst(k, v)
  PROVE  CacheInv'
<1>1. /\ Last = 0 /\ DOMAIN map = {} /\ Capacity >= 2 /\ Capacity \in Nat
      /\ prev[0] = -1 /\ next[0] = -1 /\ 0 \in Slots
  <2>1. Last = 0 /\ Size = 0
    BY SlotsOnce DEF PutFirst
  <2>2. DOMAIN map = {}
    BY <2>1, FS_EmptySet DEF CacheInv, Size
  <2> QED BY <2>1, <2>2, CacheAssumption DEF CacheInv, Slots
<1>2. /\ order' \in Seq(Keys) /\ Last' = 1 /\ order'[1] = k
  BY <1>1, PromoteProperties DEF PutFirst, CacheInv, CacheType
<1>3. map' = [x \in {k} |-> 0]
  BY <1>1 DEF PutFirst, Remap
<1>4. Size' = 1 /\ IsFiniteSet(DOMAIN map')
  BY <1>3, FS_Singleton DEF Size
<1>5. Slot(1)' = 0
  BY <1>2, <1>3 DEF Slot
<1>6. keyAt' = [keyAt EXCEPT ![0] = k] /\ itemAt' = [itemAt EXCEPT ![0] = v]
  BY DEF PutFirst, Store
<1>7. CacheType'
  BY <1>1, <1>2, <1>3, <1>6 DEF PutFirst, CacheInv, CacheType, Slots
<1>8. MapAgrees'
  BY <1>1, <1>2, <1>3, <1>4, <1>6 DEF MapAgrees, CacheInv, CacheType
<1>9. ListAgrees' /\ EndsAgree'
  BY <1>1, <1>2, <1>5 DEF ListAgrees, EndsAgree, PutFirst
<1> QED
  BY <1>1, <1>2, <1>4, <1>7, <1>8, <1>9 DEF CacheInv, ListIsOrder

(* A put of a new key while there are free slots: the next of them becomes *)
(* the head.                                                               *)
LEMMA NewKeeps ==
  ASSUME CacheInv, NEW k \in Keys, NEW v, PutNew(k, v)
  PROVE  CacheInv'
<1>1. /\ Last \in Nat /\ Size = Last /\ Last > 0 /\ Last < Capacity
      /\ \A i \in 1..Last : Slot(i) \in Slots /\ Slot(i) < Last /\ order[i] \in Keys
      /\ \A i, j \in 1..Last : Slot(i) = Slot(j) => i = j
  BY SlotsOnce DEF PutNew
<1>2. /\ order' \in Seq(Keys) /\ Last' = Last + 1
      /\ \A j \in 1..Last + 1 : order'[j] = IF j = 1 THEN k ELSE order[j - 1]
  BY <1>1, PromoteProperties DEF PutNew, CacheInv, CacheType
<1>3. /\ Last \in Slots /\ Slots \subseteq Nat
      /\ start = Slot(1) /\ end = Slot(Last) /\ 1 \in 1..Last
  BY <1>1, CacheAssumption DEF Slots, CacheInv, ListIsOrder, EndsAgree
<1>4. map' = [x \in DOMAIN map \cup {k} |-> IF x = k THEN Last ELSE map[x]]
  BY <1>1 DEF PutNew, Remap
<1>5. Size' = Last + 1 /\ IsFiniteSet(DOMAIN map')
  BY <1>1, <1>4, FS_AddElement DEF Size, PutNew, CacheInv
<1>6. /\ keyAt' = [keyAt EXCEPT ![Last] = k] /\ itemAt' = [itemAt EXCEPT ![Last] = v]
      /\ prev' = [prev EXCEPT ![Last] = -1, ![start] = Last]
      /\ next' = [next EXCEPT ![Last] = start]
      /\ start' = Last /\ end' = end
  BY <1>1 DEF PutNew, Store, LinkHead
<1>7. /\ prev \in [Slots -> Slots \cup {-1}] /\ next \in [Slots -> Slots \cup {-1}]
      /\ keyAt \in [Slots -> Keys \cup {None}] /\ end \in Slots /\ start \in Slots
      /\ map \in [DOMAIN map -> Slots] /\ DOMAIN map \subseteq Keys
      /\ itemAt = [s \in Slots |-> itemAt[s]]
  BY DEF CacheInv, CacheType
<1>8. k \notin DOMAIN map /\ \A i \in 1..Last : order[i] \in DOMAIN map
  BY DEF PutNew, CacheInv, ListIsOrder, MapAgrees
<1>9. CacheType'
  BY <1>2, <1>3, <1>4, <1>6, <1>7 DEF CacheType, Slots
<1>10. /\ Slot(1)' = Last
       /\ \A j \in 1..Last : Slot(j + 1)' = Slot(j)
  <2>1. order'[1] = k /\ \A j \in 1..Last : order'[j + 1] = order[j]
    BY <1>1, <1>2
  <2> QED BY <1>4, <1>8, <2>1 DEF Slot
<1>11. MapAgrees'
  <2>1. \A x \in DOMAIN map' : keyAt'[map'[x]] = x /\ map'[x] < Size'
    <3>1. \A x \in DOMAIN map : keyAt[map[x]] = x /\ map[x] < Last /\ map[x] \in Slots
      BY <1>1, <1>7 DEF CacheInv, ListIsOrder, MapAgrees
    <3> QED BY <1>1, <1>3, <1>4, <1>5, <1>6, <1>7, <1>8, <3>1
  <2>2. \A i \in 1..Last + 1 : order'[i] \in DOMAIN map'
    <3> SUFFICES ASSUME NEW i \in 1..Last + 1 PROVE order'[i] \in DOMAIN map'
      OBVIOUS
    <3>1. CASE i = 1
      BY <1>2, <1>4, <3>1
    <3>2. CASE i # 1
      <4>1. i - 1 \in 1..Last
        BY <1>1, <3>2
      <4> QED BY <1>2, <1>4, <1>8, <3>2, <4>1
    <3> QED BY <3>1, <3>2
  <2>3. \A x \in DOMAIN map' : \E i \in 1..Last + 1 : order'[i] = x
    <3> SUFFICES ASSUME NEW x \in DOMAIN map' PROVE \E i \in 1..Last + 1 : order'[i] = x
      OBVIOUS
    <3>1. CASE x = k
      BY <1>1, <1>2, <3>1
    <3>2. CASE x # k
      <4>1. PICK i \in 1..Last : order[i] = x
        BY <1>4, <3>2 DEF CacheInv, ListIsOrder, MapAgrees
      <4>2. i + 1 \in 1..Last + 1 /\ order'[i + 1] = x
        BY <1>1, <1>2, <4>1
      <4> QED BY <4>2
    <3> QED BY <3>1, <3>2
  <2>4. ASSUME NEW i \in 1..Last + 1, NEW j \in 1..Last + 1, order'[i] = order'[j]
        PROVE  i = j
    <3>1. \A x, y \in 1..Last : order[x] = order[y] => x = y
      BY DEF CacheInv, ListIsOrder, MapAgrees
    <3>2. i # 1 => i - 1 \in 1..Last
      BY <1>1
    <3>3. j # 1 => j - 1 \in 1..Last
      BY <1>1
    <3>4. (i # 1 => order[i - 1] # k) /\ (j # 1 => order[j - 1] # k)
      BY <1>8, <3>2, <3>3
    <3> QED BY <1>1, <1>2, <2>4, <3>1, <3>2, <3>3, <3>4
  <2> QED BY <1>2, <1>5, <2>1, <2>2, <2>3, <2>4 DEF MapAgrees
<1>12. /\ prev'[Last] = -1 /\ next'[Last] = start /\ prev'[start] = Last
       /\ \A i \in 1..Last : next'[Slot(i)] = next[Slot(i)]
       /\ \A i \in 1..Last : i # 1 => prev'[Slot(i)] = prev[Slot(i)]
  BY <1>1, <1>3, <1>6, <1>7
<1>13. ListAgrees'
  <2> SUFFICES ASSUME NEW j \in 1..Last + 1
               PROVE  /\ prev'[Slot(j)'] = IF j = 1 THEN -1 ELSE Slot(j - 1)'
                      /\ next'[Slot(j)'] = IF j = Last + 1 THEN -1 ELSE Slot(j + 1)'
    BY <1>2 DEF ListAgrees
  <2>1. CASE j = 1
    BY <1>1, <1>3, <1>10, <1>12, <2>1
  <2>2. CASE j # 1
    <3> DEFINE i == j - 1
    <3>1. i \in 1..Last /\ j = i + 1
      BY <1>1, <2>2
    <3>2. Slot(j)' = Slot(i) /\ (i # Last => Slot(j + 1)' = Slot(i + 1))
      BY <1>1, <1>10, <3>1
    <3>3. i # 1 => Slot(j - 1)' = Slot(i - 1)
      <4> SUFFICES ASSUME i # 1 PROVE Slot(i)' = Slot(i - 1)
        OBVIOUS
      <4>1. i - 1 \in 1..Last /\ (i - 1) + 1 = i
        BY <1>1, <3>1
      <4> QED BY <1>10, <4>1
    <3>4. /\ prev[Slot(i)] = IF i = 1 THEN -1 ELSE Slot(i - 1)
          /\ next[Slot(i)] = IF i = Last THEN -1 ELSE Slot(i + 1)
      BY <3>1 DEF CacheInv, ListIsOrder, ListAgrees
    <3> HIDE DEF i
    <3>5. i - 1 = j - 2 /\ j - 1 = i
      BY <3>1 DEF i
    <3>6. prev'[Slot(j)'] = Slot(j - 1)'
      <4>1. CASE i = 1
        BY <1>3, <1>10, <1>12, <3>2, <3>5, <4>1
      <4>2. CASE i # 1
        BY <1>12, <3>1, <3>2, <3>3, <3>4, <4>2
      <4> QED BY <4>1, <4>2
    <3>7. next'[Slot(j)'] = IF j = Last + 1 THEN -1 ELSE Slot(j + 1)'
      BY <1>1, <1>12, <3>1, <3>2, <3>4
    <3> QED BY <2>2, <3>6, <3>7
  <2> QED BY <2>1, <2>2
<1>14. EndsAgree'
  <2>1. Slot(Last)' = Slot(Last)
    <3>1. PICK n : n = Last
      OBVIOUS
    <3>2. Slot(n + 1)' = Slot(n)
      BY <1>1, <1>10, <3>1
    <3> QED BY <1>2, <3>1, <3>2 DEF Slot
  <2> QED BY <1>2, <1>3, <1>6, <1>10, <2>1 DEF EndsAgree
<1> QED
  BY <1>1, <1>2, <1>5, <1>9, <1>11, <1>13, <1>14, CacheAssumption DEF CacheInv, ListIsOrder

(* A put of a new key when there is no free slot: the key at the end gives *)
(* way, and its slot becomes the head.                                     *)
LEMMA EvictKeeps ==
  ASSUME CacheInv, NEW k \in Keys, NEW v, PutEvict(k, v)
  PROVE  CacheInv' /\ Last = Capacity /\ keyAt[end] = order[Last]
<1> DEFINE old == keyAt[end]
<1>1. /\ Last \in Nat /\ Size = Last /\ Last = Capacity /\ Last >= 2
      /\ \A i \in 1..Last : Slot(i) \in Slots /\ Slot(i) < Last /\ order[i] \in Keys
      /\ \A i, j \in 1..Last : Slot(i) = Slot(j) => i = j
      /\ \A i \in 1..Last : keyAt[Slot(i)] = order[i]
  BY SlotsOnce, CacheAssumption DEF PutEvict, CacheInv
<1>2. /\ order' \in Seq(Keys) /\ Last' = Last
      /\ \A j \in 1..Last : order'[j] = IF j = 1 THEN k ELSE order[j - 1]
  BY <1>1, PromoteProperties DEF PutEvict, CacheInv, CacheType
<1>3. /\ start = Slot(1) /\ end = Slot(Last) /\ old = order[Last]
      /\ 1 \in 1..Last /\ Last \in 1..Last /\ Last - 1 \in 1..Last
      /\ Slots \subseteq Nat
  BY <1>1, CacheAssumption DEF Slots, CacheInv, ListIsOrder, EndsAgree
<1>4. map' = [x \in (DOMAIN map \ {old}) \cup {k} |-> IF x = k THEN end ELSE map[x]]
  BY DEF PutEvict, Remap
<1>5. /\ k \notin DOMAIN map /\ \A i \in 1..Last : order[i] \in DOMAIN map
      /\ \A i, j \in 1..Last : order[i] = order[j] => i = j
      /\ \A x \in DOMAIN map : keyAt[map[x]] = x /\ map[x] < Last
  BY <1>1 DEF PutEvict, CacheInv, ListIsOrder, MapAgrees
<1>6. Size' = Last /\ IsFiniteSet(DOMAIN map')
  <2>1. /\ IsFiniteSet(DOMAIN map \ {old})
        /\ Cardinality(DOMAIN map \ {old}) = Last - 1
    BY <1>1, <1>3, <1>5, FS_RemoveElement DEF CacheInv, Size
  <2>2. k \notin DOMAIN map \ {old} /\ DOMAIN map' = (DOMAIN map \ {old}) \cup {k}
    BY <1>4, <1>5
  <2> DEFINE Kept == DOMAIN map \ {old}
  <2>3. IsFiniteSet(Kept \cup {k}) /\ Cardinality(Kept \cup {k}) = Cardinality(Kept) + 1
    BY <2>1, <2>2, FS_AddElement
  <2>4. Last \in Nat
    BY <1>1 DEF CacheInv, CacheType, Last
  <2> HIDE DEF Kept
  <2>5. DOMAIN map' = Kept \cup {k} /\ Cardinality(Kept) = Last - 1
    BY <2>1, <2>2 DEF Kept
  <2>6. Size' = Cardinality(Kept) + 1 /\ IsFiniteSet(DOMAIN map')
    BY <2>3, <2>5 DEF Size
  <2> QED BY <2>4, <2>5, <2>6
<1>7. /\ prev \in [Slots -> Slots \cup {-1}] /\ next \in [Slots -> Slots \cup {-1}]
      /\ keyAt \in [Slots -> Keys \cup {None}] /\ end \in Slots /\ start \in Slots
      /\ map \in [DOMAIN map -> Slots] /\ DOMAIN map \subseteq Keys
      /\ itemAt = [s \in Slots |-> itemAt[s]]
  BY DEF CacheInv, CacheType
<1>8. prev[end] = Slot(Last - 1) /\ Slot(Last - 1) \in Slots /\ Slot(Last - 1) # end
  BY <1>1, <1>3 DEF CacheInv, ListIsOrder, ListAgrees
<1>9. /\ keyAt' = [keyAt EXCEPT ![end] = k] /\ itemAt' = [itemAt EXCEPT ![end] = v]
      /\ prev' = [prev EXCEPT ![end] = -1, ![start] = end]
      /\ next' = [next EXCEPT ![Slot(Last - 1)] = -1, ![end] = start]
      /\ start' = end /\ end' = Slot(Last - 1)
  BY <1>8 DEF PutEvict, Store, LinkHead
<1>10. CacheType'
  BY <1>2, <1>4, <1>7, <1>8, <1>9 DEF CacheType, Slots
<1>11. /\ Slot(1)' = Slot(Last)
       /\ \A j \in 1..Last - 1 : Slot(j + 1)' = Slot(j)
  <2>1. order'[1] = k
    BY <1>2, <1>3
  <2>2. ASSUME NEW j \in 1..Last - 1
        PROVE  order'[j + 1] = order[j] /\ order[j] \in DOMAIN map \ {old} /\ order[j] # k
    <3>1. j \in 1..Last /\ j + 1 \in 1..Last /\ j # Last
      BY <1>1
    <3>2. order'[j + 1] = order[j]
      BY <1>1, <1>2, <3>1
    <3>3. order[j] \in DOMAIN map /\ order[j] # old
      BY <1>3, <1>5, <3>1
    <3> QED BY <1>5, <3>2, <3>3
  <2> HIDE DEF old
  <2>3. map'[k] = end /\ \A x \in DOMAIN map \ {old} : x # k => map'[x] = map[x]
    BY <1>4
  <2> QED BY <1>3, <2>1, <2>2, <2>3 DEF Slot
<1> HIDE DEF old
<1>12. MapAgrees'
  <2>1. \A x \in DOMAIN map' : keyAt'[map'[x]] = x /\ map'[x] < Size'
    <3>1. \A x \in DOMAIN map : map[x] \in Slots /\ (x # old => map[x] # end)
      BY <1>5, <1>7 DEF old
    <3>2. end < Last
      BY <1>1, <1>3
    <3> QED BY <1>4, <1>5, <1>6, <1>7, <1>9, <3>1, <3>2
  <2>2. \A i \in 1..Last : order'[i] \in DOMAIN map'
    <3> SUFFICES ASSUME NEW i \in 1..Last PROVE order'[i] \in DOMAIN map'
      OBVIOUS
    <3>1. CASE i = 1
      BY <1>2, <1>4, <3>1
    <3>2. CASE i # 1
      <4>1. i - 1 \in 1..Last /\ i - 1 # Last
        BY <1>1, <3>2
      <4>2. order[i - 1] \in DOMAIN map \ {old}
        BY <1>3, <1>5, <4>1
      <4> QED BY <1>2, <1>4, <3>2, <4>2
    <3> QED BY <3>1, <3>2
  <2>3. \A x \in DOMAIN map' : \E i \in 1..Last : order'[i] = x
    <3> SUFFICES ASSUME NEW x \in DOMAIN map' PROVE \E i \in 1..Last : order'[i] = x
      OBVIOUS
    <3>1. CASE x = k
      BY <1>2, <1>3, <3>1
    <3>2. CASE x # k
      <4>1. PICK i \in 1..Last : order[i] = x
        BY <1>4, <3>2 DEF CacheInv, ListIsOrder, MapAgrees
      <4>2. i # Last
        BY <1>3, <1>4, <3>2, <4>1
      <4>3. i + 1 \in 1..Last /\ order'[i + 1] = x
        BY <1>1, <1>2, <4>1, <4>2
      <4> QED BY <4>3
    <3> QED BY <3>1, <3>2
  <2>4. ASSUME NEW i \in 1..Last, NEW j \in 1..Last, order'[i] = order'[j]
        PROVE  i = j
    <3>1. i # 1 => i - 1 \in 1..Last
      BY <1>1
    <3>2. j # 1 => j - 1 \in 1..Last
      BY <1>1
    <3>3. (i # 1 => order[i - 1] # k) /\ (j # 1 => order[j - 1] # k)
      BY <1>5, <3>1, <3>2
    <3> QED BY <1>1, <1>2, <1>5, <2>4, <3>1, <3>2, <3>3
  <2> QED BY <1>2, <1>6, <2>1, <2>2, <2>3, <2>4 DEF MapAgrees
<1>13. ListAgrees'
  <2> SUFFICES ASSUME NEW j \in 1..Last
               PROVE  /\ prev'[Slot(j)'] = IF j = 1 THEN -1 ELSE Slot(j - 1)'
                      /\ next'[Slot(j)'] = IF j = Last THEN -1 ELSE Slot(j + 1)'
    BY <1>2 DEF ListAgrees
  <2>1. /\ prev'[end] = -1 /\ next'[end] = start /\ prev'[start] = end
        /\ next'[Slot(Last - 1)] = -1
    <3>1. start # end
      BY <1>1, <1>3
    <3> QED BY <1>7, <1>8, <1>9, <3>1
  <2>2. CASE j = 1
    <3>1. Slot(1 + 1)' = Slot(1)
      BY <1>1, <1>11
    <3> QED BY <1>1, <1>3, <1>11, <2>1, <2>2, <3>1
  <2>3. CASE j # 1
    <3>1. PICK i \in 1..Last - 1 : j = i + 1 /\ i \in 1..Last /\ j - 1 = i
      BY <1>1, <2>3
    <3>2. Slot(j)' = Slot(i) /\ Slot(i) \in Slots /\ Slot(i) # end
      BY <1>1, <1>3, <1>11, <3>1
    <3>3. /\ prev[Slot(i)] = IF i = 1 THEN -1 ELSE Slot(i - 1)
          /\ next[Slot(i)] = IF i = Last THEN -1 ELSE Slot(i + 1)
      BY <3>1 DEF CacheInv, ListIsOrder, ListAgrees
    <3>4. prev'[Slot(j)'] = Slot(j - 1)'
      <4>1. CASE i = 1
        BY <1>3, <1>11, <2>1, <3>1, <3>2, <4>1
      <4>2. CASE i # 1
        <5>1. i - 1 \in 1..Last - 1 /\ (i - 1) + 1 = i
          BY <1>1, <3>1, <4>2
        <5>2. Slot(i)' = Slot(i - 1) /\ Slot(i) # start
          BY <1>1, <1>3, <1>11, <3>1, <4>2, <5>1
        <5>3. prev'[Slot(i)] = prev[Slot(i)]
          BY <1>7, <1>9, <3>2, <5>2
        <5> QED BY <3>1, <3>2, <3>3, <4>2, <5>2, <5>3
      <4> QED BY <4>1, <4>2
    <3>5. next'[Slot(j)'] = IF j = Last THEN -1 ELSE Slot(j + 1)'
      <4>1. CASE j = Last
        BY <2>1, <3>1, <3>2, <4>1
      <4>2. CASE j # Last
        <5>1. j \in 1..Last - 1 /\ i # Last /\ Last - 1 \in 1..Last /\ i # Last - 1
          BY <1>1, <3>1, <4>2
        <5>2. Slot(j + 1)' = Slot(j) /\ Slot(i) # Slot(Last - 1)
          BY <1>1, <1>11, <3>1, <5>1
        <5>3. next'[Slot(i)] = next[Slot(i)]
          BY <1>7, <1>9, <3>2, <5>2
        <5> QED BY <3>1, <3>2, <3>3, <4>2, <5>1, <5>2, <5>3
      <4> QED BY <4>1, <4>2
    <3> QED BY <2>3, <3>4, <3>5
  <2> QED BY <2>2, <2>3
<1>14. EndsAgree'
  <2>1. PICK n : n = Last
    OBVIOUS
  <2>2. (n - 1) + 1 = n /\ Slot((n - 1) + 1)' = Slot(n - 1)
    BY <1>1, <1>11, <2>1
  <2>3. Slot(Last)' = Slot(Last - 1)
    BY <1>2, <2>1, <2>2 DEF Slot
  <2> QED BY <1>2, <1>3, <1>9, <1>11, <2>3 DEF EndsAgree
<1> QED
  BY <1>1, <1>2, <1>3, <1>6, <1>10, <1>12, <1>13, <1>14 DEF CacheInv, ListIsOrder, old

(* Whatever is put, the vectors stay a list in the order of the puts.      *)
THEOREM PutKeeps ==
  ASSUME CacheInv, NEW k \in Keys, NEW v, Put(k, v)
  PROVE  CacheInv'
<1>1. CASE StayInFront(k)
  BY <1>1 DEF StayInFront, cache, links, CacheInv, CacheType, ListIsOrder, MapAgrees,
              ListAgrees, EndsAgree, Slot, Last, Size
<1> QED
  BY <1>1, MoveKeeps, FirstKeeps, NewKeeps, EvictKeeps DEF Put

-----------------------------------------------------------------------------
(* A put is a step of the bounded map, or leaves it alone.                 *)
value == [k \in DOMAIN map |-> itemAt[map[k]]]

THEOREM PutIsBounded ==
  ASSUME CacheInv, NEW k \in Keys, NEW v, Put(k, v)
  PROVE  Bounded!Next \/ UNCHANGED <<order, value>>
<1>1. CASE StayInFront(k)
  BY <1>1 DEF StayInFront, cache, links, value
<1>2. CASE MoveToFront(k)
  <2>1. Bounded!Renew(k)
    BY <1>2 DEF MoveToFront, Promote, Last, Bounded!Renew
  <2> QED BY <2>1 DEF Bounded!Next
<1>3. \A x \in DOMAIN map : map[x] \in Slots /\ map[x] < Size /\ keyAt[map[x]] = x
  BY DEF CacheInv, CacheType, ListIsOrder, MapAgrees
<1>4. Size = Last /\ Last \in Nat /\ Capacity \in Nat /\ Capacity >= 2
  BY SlotsOnce, CacheAssumption
<1>5. CASE PutFirst(k, v)
  <2>1. Last = 0 /\ DOMAIN map = {}
    <3>1. Last = 0 /\ Cardinality(DOMAIN map) = 0
      BY <1>4, <1>5 DEF PutFirst, Size
    <3> QED BY <3>1, FS_EmptySet DEF CacheInv
  <2>2. DOMAIN map' = {k}
    BY <1>5, <2>1 DEF PutFirst, Remap
  <2>3. Bounded!Add(k)
    BY <1>4, <1>5, <2>1, <2>2 DEF PutFirst, Promote, Last, Bounded!Add
  <2> QED BY <2>3 DEF Bounded!Next
<1>6. CASE PutNew(k, v)
  <2>1. /\ k \notin DOMAIN map /\ Last < Capacity
        /\ order' = Promote(k, Last + 1)
        /\ map' = [x \in DOMAIN map \cup {k} |-> IF x = k THEN Size ELSE map[x]]
        /\ itemAt' = [itemAt EXCEPT ![Size] = v]
    BY <1>4, <1>6 DEF PutNew, Remap, Store
  <2>2. ASSUME NEW x \in DOMAIN map PROVE itemAt'[map'[x]] = itemAt[map[x]]
    <3>1. map'[x] = map[x] /\ map[x] # Size
      BY <1>3, <1>4, <2>1
    <3> QED BY <2>1, <3>1
  <2>3. Bounded!Add(k)
    BY <2>1, <2>2 DEF Promote, Last, Bounded!Add
  <2> QED BY <2>3 DEF Bounded!Next
<1>7. CASE PutEvict(k, v)
  <2>1. /\ Last = Capacity /\ keyAt[end] = order[Last] /\ k \notin DOMAIN map
        /\ order' = Promote(k, Last)
        /\ map' = [x \in (DOMAIN map \ {order[Last]}) \cup {k} |->
                        IF x = k THEN end ELSE map[x]]
        /\ itemAt' = [itemAt EXCEPT ![end] = v]
    BY <1>7, EvictKeeps DEF PutEvict, Remap, Store
  <2>2. ASSUME NEW x \in DOMAIN map \ {order[Last]}
        PROVE  itemAt'[map'[x]] = itemAt[map[x]]
    <3>1. map'[x] = map[x] /\ map[x] # end
      BY <1>3, <2>1
    <3> QED BY <2>1, <3>1
  <2>3. Bounded!Replace(k)
    BY <2>1, <2>2 DEF Promote, Last, Bounded!Replace
  <2> QED BY <2>3 DEF Bounded!Next
<1> QED
  BY <1>1, <1>2, <1>5, <1>6, <1>7 DEF Put

-----------------------------------------------------------------------------
(* The empty cache is the empty bounded map.                               *)
LEMMA EmptyKeeps ==
  /\ EmptyCache => CacheInv /\ Bounded!Init
  /\ ClearCache => CacheInv' /\ Bounded!Clear
<1>1. /\ 0 \in Slots /\ Capacity \in Nat
      /\ \A f : f = <<>> => DOMAIN f = {} /\ IsFiniteSet(DOMAIN f) /\ Cardinality(DOMAIN f) = 0
      /\ Len(<<>>) = 0 /\ <<>> \in Seq(Keys)
  BY CacheAssumption, FS_EmptySet DEF Slots
<1> DEFINE none == [s \in Slots |-> -1]
           blank == [s \in Slots |-> None]
<1>2. /\ none \in [Slots -> Slots \cup {-1}]
      /\ blank \in [Slots -> Keys \cup {None}] /\ blank = [s \in Slots |-> blank[s]]
      /\ none[0] = -1
  BY <1>1
<1> HIDE DEF none, blank
<1>3. ASSUME EmptyCache PROVE CacheInv /\ Bounded!Init
  <2>1. /\ prev = none /\ next = none /\ start = 0 /\ end = 0 /\ map = <<>>
        /\ keyAt = blank /\ itemAt = blank /\ order = <<>>
    BY <1>3 DEF EmptyCache, none, blank
  <2>2. map \in [DOMAIN map -> Slots] /\ DOMAIN map = {} /\ Last = 0 /\ Size = 0
    BY <1>1, <2>1 DEF Last, Size
  <2>3. ListIsOrder
    BY <2>2 DEF ListIsOrder, MapAgrees, ListAgrees, EndsAgree
  <2>4. CacheInv
    BY <1>1, <1>2, <2>1, <2>2, <2>3 DEF CacheInv, CacheType
  <2>5. Bounded!Init
    BY <2>1, <2>2 DEF Bounded!Init
  <2> QED BY <2>4, <2>5
<1>4. ASSUME ClearCache PROVE CacheInv' /\ Bounded!Clear
  <2>1. /\ prev' = none /\ next' = none /\ start' = 0 /\ end' = 0 /\ map' = <<>>
        /\ keyAt' = blank /\ itemAt' = blank /\ order' = <<>>
    BY <1>4 DEF ClearCache, none, blank
  <2>2. map' \in [DOMAIN map' -> Slots] /\ DOMAIN map' = {} /\ Last' = 0 /\ Size' = 0
    BY <1>1, <2>1 DEF Last, Size
  <2>3. ListIsOrder'
    BY <2>2 DEF ListIsOrder, MapAgrees, ListAgrees, EndsAgree
  <2>4. CacheInv'
    BY <1>1, <1>2, <2>1, <2>2, <2>3 DEF CacheInv, CacheType, Slots
  <2>5. Bounded!Clear
    BY <2>1, <2>2 DEF Bounded!Clear
  <2> QED BY <2>4, <2>5
<1> QED BY <1>3, <1>4

-----------------------------------------------------------------------------
(* The process that is down keeps nothing in memory.                       *)
DownIsEmpty ==
    life = "down" => DOMAIN map = {} /\ acked = {} /\ \A r \in Reactors : job[r] = Idle

(* The list is saved when no reactor is at work any more.                  *)
Joined == life \in {"save", "write"} => \A r \in Reactors : job[r] = Idle

(* While it is written the file has nodes of the list only, and those it   *)
(* lacks are behind them; what a save completed stays in the file until    *)
(* the next save begins.                                                   *)
FileFollows ==
    /\ life = "write" =>
        /\ file \subseteq stored /\ kept = NoFile
        /\ stored \ file \subseteq Ahead
    /\ kept # NoFile => file = kept

(* What GET would list now has been shown, and so has what is being put.   *)
ShownFollows ==
    /\ Serving => \A k \in Keys : Listing(stored, k) \in shown[k]
    /\ \A r \in Reactors : job[r].pc = "put" => job[r].items \in shown[job[r].name]

(* The inductive invariant.                                                *)
ServiceInv ==
    /\ TypeOK /\ CacheInv
    /\ KeysDistinct /\ CacheWasTrue /\ AckedListed
    /\ DownIsEmpty /\ Joined /\ FileFollows /\ ShownFollows

-----------------------------------------------------------------------------
(* What a listing holds are nodes.                                         *)
LEMMA ListingIsNodes ==
  ASSUME NEW S \in SUBSET Node, NEW k \in Keys
  PROVE  Listing(S, k) \in SUBSET Node
BY DEF Listing, Latest, From

(* What the lines of a node are taken for are nodes; those of a sound one  *)
(* are the node itself.                                                    *)
LEMMA PiecesAreNodes ==
  ASSUME NEW n \in Node
  PROVE  /\ DOMAIN Pieces(n) \subseteq Nat \ {0} /\ 1 \in DOMAIN Pieces(n)
         /\ \A i \in DOMAIN Pieces(n) : Pieces(n)[i] \in Node
         /\ Sound(n) => DOMAIN Pieces(n) = {1} /\ Pieces(n)[1] = n
<1>1. CASE Sound(n)
  BY <1>1 DEF Pieces
<1>2. CASE ~Sound(n)
  <2> DEFINE b == Broken[n.text]
             key(i) == IF b[i] = Own THEN n.key ELSE b[i]
  <2>1. /\ n.text \in DOMAIN Broken /\ n.key \in 0..MaxTime
        /\ n.text \in Messages \cup {Blank}
    BY <1>2 DEF Node, Sound
  <2>2. b \in Seq(0..MaxTime \cup {Own}) /\ b # <<>>
    BY <2>1, ServiceAssumption
  <2> HIDE DEF b
  <2>3. DOMAIN b = 1..Len(b) /\ Len(b) \in Nat /\ Len(b) > 0
        /\ \A i \in DOMAIN b : b[i] \in 0..MaxTime \cup {Own}
    BY <2>2
  <2>4. Pieces(n) = [i \in DOMAIN b |-> [key |-> key(i), text |-> n.text, whole |-> FALSE]]
    BY <1>2 DEF Pieces, b
  <2>5. \A i \in DOMAIN b : key(i) \in 0..MaxTime
    BY <2>1, <2>3
  <2> HIDE DEF key
  <2>6. \A i \in DOMAIN b : [key |-> key(i), text |-> n.text, whole |-> FALSE] \in Node
    BY <2>1, <2>5 DEF Node
  <2> QED BY <1>2, <2>3, <2>4, <2>6
<1> QED BY <1>1, <1>2

(* Of all places where a key is found, one is the first.                   *)
LEMMA FirstOfKey ==
  ASSUME NEW S \in SUBSET Node, DistinctKeys(S), NEW o \in Places(S)
  PROVE  \E p \in Places(S) :
            /\ Piece(p).key = Piece(o).key /\ (p = o \/ Before(p, o))
            /\ \A q \in Places(S) : Before(q, p) => Piece(q).key # Piece(p).key
<1> DEFINE Same == {p \in Places(S) : Piece(p).key = Piece(o).key}
           K == {p[1].key : p \in Same}
<1>1. \A p \in Places(S) : /\ p = <<p[1], p[2]>> /\ p[1] \in S /\ p[2] \in DOMAIN Pieces(p[1])
                            /\ p[1].key \in Nat /\ p[2] \in Nat
  BY PiecesAreNodes, ServiceAssumption DEF Places, Node
<1>2. PICK k \in K : \A x \in K : k <= x
  <2>1. K \subseteq Nat /\ K # {}
    BY <1>1
  <2> HIDE DEF K
  <2> QED BY <2>1, LeastExists
<1>3. PICK a \in Same : a[1].key = k
  OBVIOUS
<1> DEFINE I == {p[2] : p \in {q \in Same : q[1].key = k}}
<1>4. PICK i \in I : \A x \in I : i <= x
  <2>1. I \subseteq Nat /\ I # {}
    BY <1>1, <1>3
  <2> HIDE DEF I
  <2> QED BY <2>1, LeastExists
<1>5. PICK p \in Same : p[1].key = k /\ p[2] = i
  OBVIOUS
<1>6. \A q \in Same : ~Before(q, p)
  <2> SUFFICES ASSUME NEW q \in Same, Before(q, p) PROVE FALSE
    OBVIOUS
  <2>1. q[1].key \in K /\ p[1].key <= q[1].key
    BY <1>2, <1>5
  <2>2. q[1] = p[1] /\ q[2] < p[2]
    BY <1>1, <2>1 DEF Before
  <2>3. q[2] \in I /\ q[2] \in Nat /\ p[2] \in Nat
    BY <1>1, <1>5, <2>2
  <2>4. p[2] <= q[2]
    BY <1>4, <1>5, <2>3
  <2> QED BY <2>2, <2>3, <2>4
<1>7. p = o \/ Before(p, o)
  <2>1. p[1].key <= o[1].key
    BY <1>2, <1>5
  <2>2. CASE p[1].key = o[1].key
    <3>1. p[1] = o[1]
      BY <1>1, <2>2 DEF DistinctKeys
    <3>2. o[2] \in I
      BY <1>5, <2>2
    <3> QED BY <1>1, <1>4, <1>5, <3>1, <3>2 DEF Before
  <2>3. CASE p[1].key # o[1].key
    BY <1>1, <2>1, <2>3 DEF Before
  <2> QED BY <2>2, <2>3
<1> QED BY <1>6, <1>7

(* Loading makes nodes with distinct keys again.  It loses a sound node    *)
(* only to a broken one before it that has its key on one of its lines,    *)
(* and invents none.                                                       *)
LEMMA LoadKeeps ==
  ASSUME NEW S \in SUBSET Node, DistinctKeys(S)
  PROVE  /\ Load(S) \in SUBSET Node /\ DistinctKeys(Load(S))
         /\ \A n \in S : Sound(n) =>
                \/ n \in Load(S)
                \/ \E p \in Places(S) :
                    /\ ~Sound(p[1]) /\ p[1].key < n.key
                    /\ Piece(p) \in Load(S) /\ Piece(p).key = n.key
         /\ \A n \in Load(S) : n = Ghost \/ \E p \in Places(S) : n = Piece(p)
<1> DEFINE first == {q \in Places(S) :
                        \A o \in Places(S) : Before(o, q) => Piece(o).key # Piece(q).key}
           inserted == {Piece(p) : p \in first}
<1>1. Load(S) = IF \E n \in inserted : n.key = 0 THEN inserted ELSE inserted \cup {Ghost}
  BY DEF Load
<1>2. \A p \in Places(S) : /\ p = <<p[1], p[2]>> /\ p[1] \in S /\ p[2] \in DOMAIN Pieces(p[1])
                            /\ p[1].key \in Nat /\ p[2] \in Nat /\ Piece(p) \in Node
  BY PiecesAreNodes, ServiceAssumption DEF Places, Piece, Node
<1>3. Ghost \in Node /\ Ghost.key = 0
  BY ServiceAssumption DEF Node, Ghost
<1>4. ASSUME NEW p \in first, NEW q \in first, Piece(p).key = Piece(q).key PROVE p = q
  <2>1. p[1].key = q[1].key
    BY <1>2, <1>4 DEF Before
  <2>2. p[1] = q[1]
    BY <1>2, <2>1 DEF DistinctKeys
  <2>3. p[2] = q[2]
    BY <1>2, <1>4, <2>2 DEF Before
  <2> QED BY <1>2, <2>2, <2>3
<1>5. DistinctKeys(inserted) /\ inserted \subseteq Node
  BY <1>2, <1>4 DEF DistinctKeys
<1>6. ASSUME NEW n \in S, Sound(n)
      PROVE  \/ n \in inserted
             \/ \E p \in Places(S) :
                    /\ ~Sound(p[1]) /\ p[1].key < n.key
                    /\ Piece(p) \in inserted /\ Piece(p).key = n.key
  <2> DEFINE o == <<n, 1>>
  <2>1. DOMAIN Pieces(n) = {1} /\ Pieces(n)[1] = n
    BY <1>6, PiecesAreNodes
  <2>2. o \in Places(S) /\ Piece(o) = n
    BY <2>1 DEF Places, Piece
  <2> HIDE DEF first
  <2>3. PICK p \in Places(S) : /\ Piece(p).key = n.key /\ (p = o \/ Before(p, o))
                               /\ p \in first
    <3> HIDE DEF o
    <3> QED BY <2>2, FirstOfKey DEF first
  <2>4. CASE p = o
    BY <2>2, <2>3, <2>4
  <2>5. CASE Before(p, o)
    <3>1. p[1].key < n.key \/ (p[1] = n /\ p[2] < 1)
      BY <2>5 DEF Before
    <3>2. p[1] = n => p[2] = 1
      BY <1>2, <2>1
    <3>3. p[1].key < n.key
      BY <3>1, <3>2
    <3>4. ~Sound(p[1])
      <4> SUFFICES ASSUME Sound(p[1]) PROVE FALSE
        OBVIOUS
      <4>1. Piece(p) = p[1]
        BY <1>2, PiecesAreNodes DEF Piece
      <4> QED BY <1>2, <2>3, <3>3, <4>1
    <3> QED BY <2>3, <3>3, <3>4
  <2> QED BY <2>3, <2>4, <2>5
<1>7. \A n \in inserted : \E p \in Places(S) : n = Piece(p)
  OBVIOUS
<1> HIDE DEF inserted, first
<1>8. inserted \subseteq Load(S) /\ \A n \in Load(S) : n \in inserted \/ n = Ghost
  BY <1>1
<1>9. Load(S) \in SUBSET Node /\ DistinctKeys(Load(S))
  BY <1>1, <1>3, <1>5 DEF DistinctKeys
<1> QED BY <1>6, <1>7, <1>8, <1>9

(* After a put each name has the value it had; only a name that had none   *)
(* can have the new one.                                                   *)
LEMMA PutValues ==
  ASSUME CacheInv, NEW k \in Keys, NEW v, Put(k, v)
  PROVE  \A x \in DOMAIN map' :
            \/ x \in DOMAIN map /\ itemAt'[map'[x]] = itemAt[map[x]]
            \/ x = k /\ itemAt'[map'[x]] = v
<1> SUFFICES ASSUME NEW x \in DOMAIN map'
             PROVE  \/ x \in DOMAIN map /\ itemAt'[map'[x]] = itemAt[map[x]]
                    \/ x = k /\ itemAt'[map'[x]] = v
  OBVIOUS
<1>1. /\ \A y \in DOMAIN map : map[y] \in Slots /\ map[y] < Size /\ keyAt[map[y]] = y
      /\ itemAt = [s \in Slots |-> itemAt[s]] /\ end \in Slots
  BY DEF CacheInv, CacheType, ListIsOrder, MapAgrees
<1>2. Size \in Nat /\ Slots = 0..Capacity - 1 /\ Capacity \in Nat /\ Capacity >= 2
  BY SlotsOnce, CacheAssumption DEF Slots
<1>3. CASE StayInFront(k) \/ MoveToFront(k)
  BY <1>3 DEF StayInFront, MoveToFront, cache
<1>4. ASSUME NEW s \in Slots, NEW drop, Store(s, k, v), Remap(k, s, drop),
             \A y \in DOMAIN map \ drop : map[y] # s
      PROVE  \/ x \in DOMAIN map /\ itemAt'[map'[x]] = itemAt[map[x]]
             \/ x = k /\ itemAt'[map'[x]] = v
  BY <1>1, <1>4 DEF Store, Remap
<1>5. CASE PutFirst(k, v)
  <2>1. 0 \in Slots /\ \A y \in DOMAIN map : map[y] # 0
    BY <1>1, <1>2, <1>5 DEF PutFirst
  <2> QED BY <1>4, <1>5, <2>1 DEF PutFirst
<1>6. CASE PutNew(k, v)
  <2>1. Size \in Slots /\ \A y \in DOMAIN map : map[y] # Size
    BY <1>1, <1>2, <1>6 DEF PutNew
  <2> QED BY <1>4, <1>6, <2>1 DEF PutNew
<1>7. CASE PutEvict(k, v)
  <2>1. \A y \in DOMAIN map \ {keyAt[end]} : map[y] # end
    BY <1>1
  <2> QED BY <1>1, <1>4, <1>7, <2>1 DEF PutEvict
<1> QED BY <1>3, <1>5, <1>6, <1>7 DEF Put

-----------------------------------------------------------------------------
(* The invariant.                                                          *)

LEMMA JobParts ==
  ASSUME TypeOK, NEW r \in Reactors
  PROVE  /\ job[r] \in Jobs
         /\ job[r].pc = "insert" => job[r].node \in Node
         /\ job[r].pc \in {"get", "build", "put"} => job[r].name \in Keys
         /\ job[r].pc = "put" => job[r].items \in SUBSET Node
<1>1. job[r] \in Jobs
  BY DEF TypeOK
<1>2. CASE job[r] = Idle
  BY <1>1, <1>2 DEF Idle
<1>3. CASE job[r] \in [pc : {"insert"}, node : Node]
  BY <1>1, <1>3
<1>4. CASE job[r] \in [pc : {"get", "build"}, name : Keys]
  BY <1>1, <1>4
<1>5. CASE job[r] \in [pc : {"put"}, name : Keys, items : SUBSET Node]
  BY <1>1, <1>5
<1> QED BY <1>1, <1>2, <1>3, <1>4, <1>5 DEF Jobs

(* Every step leaves the cache alone, is a whole put, or starts anew.      *)
LEMMA CacheSteps ==
  ASSUME [Next]_vars
  PROVE  \/ UNCHANGED cache
         \/ ClearCache
         \/ \E r \in Reactors : Finish(r)
<1>1. CASE UNCHANGED vars
  BY <1>1 DEF vars
<1>2. CASE Start \/ Signal \/ Stop \/ Crash \/ Tick
  BY <1>2 DEF Start, Signal, Stop, Crash, Tick, Join, Truncate, SaveFails, WriteLine,
              Saved, Die, Forget
<1>3. ASSUME NEW r \in Reactors,
             Work(r) \/ (\E m \in Messages : Post(r, m)) \/ (\E name \in Keys : Ask(r, name))
      PROVE  UNCHANGED cache \/ ClearCache \/ Finish(r)
  BY <1>3 DEF Work, Post, Ask, Insert, LookedUp, Build, BuildFatal, Die, Forget
<1> QED BY <1>1, <1>2, <1>3 DEF Next

LEMMA CacheKeeps ==
  ASSUME ServiceInv, [Next]_vars
  PROVE  CacheInv'
<1>1. CASE UNCHANGED cache
  BY <1>1 DEF ServiceInv, cache, links, CacheInv, CacheType, ListIsOrder, MapAgrees,
              ListAgrees, EndsAgree, Slot, Last, Size
<1>2. CASE ClearCache
  BY <1>2, EmptyKeeps
<1>3. ASSUME NEW r \in Reactors, Finish(r) PROVE CacheInv'
  BY <1>3, JobParts, PutKeeps DEF Finish, ServiceInv
<1> QED BY <1>1, <1>2, <1>3, CacheSteps

(* The parts of the invariant that are not about the cache alone.          *)
Rest ==
    /\ TypeOK /\ KeysDistinct /\ CacheWasTrue /\ AckedListed
    /\ DownIsEmpty /\ Joined /\ FileFollows /\ ShownFollows

(* A process that ends, or hangs, has forgotten everything.                *)
LEMMA ForgetKeeps ==
  ASSUME ServiceInv, CacheInv', Forget, life' \in {"down", "hung"},
         UNCHANGED <<now, starts, asked, posted>>,
         UNCHANGED <<file, kept>> \/ (life = "write" /\ file' = file /\ kept' = file)
  PROVE  Rest'
<1> USE DEF Forget, ServiceInv, TypeOK
<1>1. DOMAIN map' = {} /\ \A r \in Reactors : job'[r] = Idle
  BY DEF ClearCache
<1>2. Idle \in Jobs /\ Idle.pc = "idle"
  BY DEF Jobs, Idle
<1>3. /\ kept' = NoFile \/ kept' \subseteq Node
      /\ file' = file /\ (kept' # NoFile => file' = kept')
  BY DEF FileFollows
<1>4. TypeOK'
  BY <1>2, <1>3 DEF CacheInv
<1>5. KeysDistinct' /\ FileFollows'
  BY <1>3 DEF KeysDistinct, DistinctKeys, FileFollows
<1>6. CacheWasTrue' /\ ShownFollows'
  BY <1>1, <1>2 DEF CacheWasTrue, Cached, ShownFollows, Serving
<1>7. AckedListed' /\ DownIsEmpty' /\ Joined'
  BY <1>1 DEF AckedListed, DownIsEmpty, Joined
<1> QED BY <1>4, <1>5, <1>6, <1>7 DEF Rest

LEMMA LifeKeeps ==
  ASSUME ServiceInv, CacheInv', Start \/ Signal \/ Stop \/ Crash \/ Tick
  PROVE  Rest'
<1> USE DEF ServiceInv, TypeOK
<1>1. \A k \in Keys : Cached(k) <=> k \in DOMAIN map
  BY DEF Cached
<1>2. CASE Start
  <2>1. stored' \in SUBSET Node /\ DistinctKeys(stored')
    BY <1>2, LoadKeeps DEF Start, KeysDistinct, DistinctKeys
  <2>2. shown' \in [Keys -> SUBSET SUBSET Node] /\ \A k \in Keys : shown'[k] = {Listing(stored', k)}
    BY <1>2, <2>1, ListingIsNodes DEF Start
  <2>3. TypeOK'
    BY <1>2, <2>1, <2>2, ServiceAssumption DEF Start, CacheInv
  <2>4. KeysDistinct' /\ FileFollows'
    BY <1>2, <2>1 DEF Start, KeysDistinct, FileFollows
  <2>5. CacheWasTrue'
    BY <1>2 DEF Start, CacheWasTrue, Cached, DownIsEmpty, cache
  <2>6. AckedListed' /\ DownIsEmpty' /\ Joined'
    BY <1>2 DEF Start, AckedListed, DownIsEmpty, Joined
  <2>7. ShownFollows'
    BY <1>2, <2>2 DEF Start, ShownFollows, DownIsEmpty, Idle
  <2> QED BY <2>3, <2>4, <2>5, <2>6, <2>7 DEF Rest
<1>3. ASSUME UNCHANGED <<cache, stored, job, acked, shown, starts, asked, posted>>,
             now' \in 1..MaxTime, life' \in {"up", "stop", "save", "write"} \cup {life},
             life = "down" => life' = "down", Serving' => Serving, Joined'
      PROVE  /\ CacheWasTrue' /\ AckedListed' /\ DownIsEmpty' /\ Joined' /\ ShownFollows'
             /\ (/\ kept' = NoFile \/ kept' \subseteq Node
                 /\ file' = NoFile \/ file' \subseteq Node) => TypeOK'
  <2>1. CacheWasTrue'
    BY <1>3 DEF CacheWasTrue, Cached, Get, cache
  <2>2. AckedListed' /\ DownIsEmpty'
    BY <1>3 DEF AckedListed, DownIsEmpty, cache
  <2>3. ShownFollows'
    BY <1>3 DEF ShownFollows
  <2>4. (/\ kept' = NoFile \/ kept' \subseteq Node
         /\ file' = NoFile \/ file' \subseteq Node) => TypeOK'
    BY <1>3 DEF CacheInv
  <2> QED BY <1>3, <2>1, <2>2, <2>3, <2>4
<1>4. CASE Signal
  <2>1. CASE life' = "hung" /\ Forget
    BY <1>4, <2>1, ForgetKeeps DEF Signal, durable
  <2>2. CASE life' = "stop" /\ UNCHANGED <<cache, stored, job, acked, shown>>
    <3>1. KeysDistinct' /\ FileFollows' /\ Joined'
      BY <1>4, <2>2 DEF Signal, durable, KeysDistinct, FileFollows, Joined
    <3> QED BY <1>3, <1>4, <2>2, <3>1 DEF Signal, durable, Serving, Rest
  <2> QED BY <1>4, <2>1, <2>2 DEF Signal
<1>5. CASE Join
  <2>1. CASE Die
    BY <1>5, <2>1, ForgetKeeps DEF Join, Die, durable
  <2>2. CASE life' = "save" /\ UNCHANGED <<cache, stored, job, acked, shown>>
    <3>1. KeysDistinct' /\ FileFollows' /\ Joined'
      BY <1>5, <2>2 DEF Join, durable, KeysDistinct, FileFollows, Joined
    <3> QED BY <1>3, <1>5, <2>2, <3>1 DEF Join, durable, Serving, Rest
  <2> QED BY <1>5, <2>1, <2>2 DEF Join
<1>6. CASE Truncate
  <2>1. KeysDistinct' /\ FileFollows' /\ Joined'
    BY <1>6 DEF Truncate, KeysDistinct, DistinctKeys, FileFollows, Ahead, Joined
  <2> QED BY <1>3, <1>6, <2>1 DEF Truncate, Serving, Rest
<1>7. CASE SaveFails \/ Crash
  BY <1>7, ForgetKeeps DEF SaveFails, Crash, Die, durable
<1>8. CASE WriteLine
  <2>1. PICK n \in Ahead : (\A x \in Ahead : n.key <= x.key) /\ file' = file \cup {n}
    BY <1>8 DEF WriteLine
  <2>2. file \subseteq stored /\ n \in stored /\ file' \subseteq stored /\ kept' = NoFile
    BY <1>8, <2>1 DEF WriteLine, FileFollows, Ahead
  <2>3. ASSUME NEW m \in stored, m \notin file' PROVE m \in Ahead'
    <3>1. m \in Ahead /\ m # n /\ n.key <= m.key
      BY <1>8, <2>1, <2>3 DEF WriteLine, FileFollows
    <3>2. n.key # m.key /\ n.key \in Int /\ m.key \in Int
      BY <2>2, <2>3, <3>1, ServiceAssumption DEF KeysDistinct, DistinctKeys, Node
    <3> QED BY <1>8, <2>1, <3>1, <3>2 DEF WriteLine, Ahead
  <2>4. KeysDistinct' /\ FileFollows' /\ Joined'
    BY <1>8, <2>2, <2>3 DEF WriteLine, KeysDistinct, DistinctKeys, FileFollows, Joined
  <2> QED BY <1>3, <1>8, <2>2, <2>4 DEF WriteLine, Serving, Rest
<1>9. CASE Saved
  BY <1>9, ForgetKeeps DEF Saved, Die
<1>10. CASE Tick
  <2>1. KeysDistinct' /\ FileFollows' /\ Joined'
    BY <1>10 DEF Tick, KeysDistinct, FileFollows, Ahead, Joined
  <2>2. now' \in 1..MaxTime
    BY <1>10, ServiceAssumption DEF Tick
  <2> QED BY <1>3, <1>10, <2>1, <2>2 DEF Tick, Serving, Rest
<1> QED BY <1>2, <1>4, <1>5, <1>6, <1>7, <1>8, <1>9, <1>10 DEF Stop

(* A reactor that only moves on.                                           *)
LEMMA JobKeeps ==
  ASSUME ServiceInv, CacheInv', NEW r \in Reactors, NEW j \in Jobs,
         job' = [job EXCEPT ![r] = j], Serving,
         j.pc = "put" => j.items \in shown[j.name],
         UNCHANGED <<cache, stored, life, acked, shown, file, now, starts, kept>>,
         posted' \subseteq Messages, asked' \in 0..MaxAsked
  PROVE  Rest'
<1> USE DEF ServiceInv, TypeOK
<1>1. TypeOK'
  BY DEF CacheInv
<1>2. KeysDistinct' /\ FileFollows'
  BY DEF KeysDistinct, FileFollows, Serving
<1>3. CacheWasTrue'
  BY DEF CacheWasTrue, Cached, Get, cache
<1>4. AckedListed' /\ DownIsEmpty' /\ Joined'
  BY DEF AckedListed, DownIsEmpty, Joined, Serving
<1>5. ShownFollows'
  BY DEF ShownFollows, Serving
<1> QED BY <1>1, <1>2, <1>3, <1>4, <1>5 DEF Rest

LEMMA RaceKeeps ==
  ASSUME ServiceInv, CacheInv', Serving, life' = "race",
         UNCHANGED <<cache, stored, job, acked, shown, file, now, starts, posted, kept>>,
         asked' \in 0..MaxAsked
  PROVE  Rest'
<1> USE DEF ServiceInv, TypeOK, Serving
<1>1. TypeOK' /\ KeysDistinct'
  BY DEF CacheInv, KeysDistinct
<1>2. CacheWasTrue'
  BY DEF CacheWasTrue, Cached, Get, cache
<1>3. AckedListed' /\ DownIsEmpty' /\ Joined' /\ FileFollows' /\ ShownFollows'
  BY DEF AckedListed, DownIsEmpty, Joined, FileFollows, ShownFollows
<1> QED BY <1>1, <1>2, <1>3 DEF Rest

(* Only reactors that serve are at work.                                   *)
LEMMA WorkServes ==
  ASSUME ServiceInv, NEW r \in Reactors, Running, job[r].pc # "idle"
  PROVE  Serving
BY DEF ServiceInv, Joined, Running, Serving, Idle

LEMMA WorkKeeps ==
  ASSUME ServiceInv, CacheInv', NEW r \in Reactors,
         Work(r) \/ (\E m \in Messages : Post(r, m)) \/ (\E name \in Keys : Ask(r, name))
  PROVE  Rest'
<1> USE DEF ServiceInv
<1>1. Idle \in Jobs /\ Idle.pc = "idle"
  BY DEF Jobs, Idle
<1>s. ASSUME Work(r) PROVE Serving
  BY <1>s, WorkServes DEF Work, Insert, LookedUp, Build, BuildFatal, Finish
<1>2. CASE Insert(r)
  <2> DEFINE n == job[r].node
  <2>0. Serving /\ Serving'
    BY <1>2, <1>s DEF Work, Insert, Serving
  <2>1. n \in Node /\ acked' = acked \cup {n.key} /\ UNCHANGED <<cache, life, durable>>
    BY <1>2, JobParts DEF Insert
  <2>2. /\ stored' \subseteq Node /\ stored \subseteq stored' /\ DistinctKeys(stored')
        /\ \E x \in stored' : x.key = n.key
    BY <1>2, <2>1 DEF Insert, TypeOK, KeysDistinct, DistinctKeys
  <2>3. /\ shown' \in [Keys -> SUBSET SUBSET Node]
        /\ \A k \in Keys : shown'[k] = shown[k] \cup {Listing(stored', k)}
    BY <1>2, <2>2, ListingIsNodes DEF Insert, TypeOK
  <2>4. /\ \A o \in Reactors : job'[o].pc = "put" => job[o] = job'[o]
        /\ job' \in [Reactors -> Jobs]
    BY <1>1, <1>2 DEF Insert, TypeOK
  <2>5. TypeOK'
    BY <1>1, <1>2, <2>1, <2>2, <2>3, <2>4 DEF Insert, TypeOK, CacheInv, Node, durable
  <2>6. KeysDistinct' /\ FileFollows'
    BY <1>2, <2>0, <2>1, <2>2 DEF Insert, Serving, KeysDistinct, FileFollows, durable
  <2>7. CacheWasTrue'
    BY <2>1, <2>3 DEF CacheWasTrue, Cached, Get, cache
  <2>8. AckedListed' /\ DownIsEmpty' /\ Joined'
    BY <1>2, <2>0, <2>1, <2>2 DEF Insert, Serving, AckedListed, DownIsEmpty, Joined
  <2>9. ShownFollows'
    BY <2>3, <2>4, JobParts, <2>1 DEF ShownFollows, Serving
  <2> QED BY <2>5, <2>6, <2>7, <2>8, <2>9 DEF Rest
<1>3. CASE LookedUp(r)
  <2>1. job[r].name \in Keys
    BY <1>3, JobParts DEF LookedUp
  <2> DEFINE b == [pc |-> "build", name |-> job[r].name]
             j == IF Cached(job[r].name) THEN Idle ELSE b
  <2>2. b \in Jobs /\ b.pc = "build"
    BY <2>1 DEF Jobs
  <2> HIDE DEF b
  <2>3. j \in Jobs /\ j.pc # "put"
    BY <1>1, <2>2
  <2>4. job' = [job EXCEPT ![r] = j]
    BY <1>3 DEF LookedUp, b
  <2> HIDE DEF j
  <2> QED BY <1>3, <1>s, <2>3, <2>4, JobKeeps DEF Work, LookedUp, durable, TypeOK
<1>4. CASE Build(r)
  <2>1. job[r].name \in Keys /\ Serving
    BY <1>4, <1>s, JobParts DEF Work, Build
  <2>2. CASE life' = "race" /\ UNCHANGED job
    BY <1>4, <2>1, <2>2, RaceKeeps DEF Build, durable, TypeOK
  <2>3. CASE job' = [job EXCEPT ![r] = Idle] /\ UNCHANGED life
    BY <1>1, <1>4, <2>1, <2>3, JobKeeps DEF Build, durable, TypeOK
  <2> DEFINE name == job[r].name
             items == Listing(stored, name)
             j == [pc |-> "put", name |-> name, items |-> items]
  <2>4. CASE job' = [job EXCEPT ![r] = j] /\ UNCHANGED life
    <3>1. items \in SUBSET Node /\ items \in shown[name]
      BY <2>1, ListingIsNodes DEF ShownFollows, TypeOK
    <3> HIDE DEF name, items
    <3>2. j \in Jobs /\ j.items \in shown[j.name]
      BY <2>1, <3>1 DEF Jobs, name
    <3> HIDE DEF j
    <3> QED BY <1>4, <2>1, <2>4, <3>2, JobKeeps DEF Build, durable, TypeOK
  <2> QED BY <1>4, <2>2, <2>3, <2>4 DEF Build
<1>5. CASE BuildFatal(r)
  BY <1>5, ForgetKeeps DEF BuildFatal, Die, durable, TypeOK
<1>6. CASE Finish(r)
  <2>1. job[r].name \in Keys /\ job[r].items \in shown[job[r].name]
    BY <1>6, JobParts DEF Finish, ShownFollows
  <2>2. \A x \in DOMAIN map' :
            \/ x \in DOMAIN map /\ itemAt'[map'[x]] = itemAt[map[x]]
            \/ x = job[r].name /\ itemAt'[map'[x]] = job[r].items
    BY <1>6, <2>1, PutValues DEF Finish
  <2>3. CacheWasTrue'
    BY <1>6, <2>1, <2>2 DEF Finish, CacheWasTrue, Cached, Get
  <2>4. /\ job' \in [Reactors -> Jobs]
        /\ \A o \in Reactors : job'[o].pc = "put" => job[o] = job'[o]
    BY <1>1, <1>6 DEF Finish, TypeOK
  <2>5. TypeOK' /\ KeysDistinct' /\ FileFollows'
    BY <1>6, <2>4 DEF Finish, TypeOK, CacheInv, KeysDistinct, FileFollows, Ahead, durable
  <2>0. Serving
    BY <1>6, <1>s DEF Work
  <2>6. AckedListed' /\ DownIsEmpty' /\ Joined' /\ ShownFollows'
    BY <1>6, <2>0, <2>4 DEF Finish, Serving, AckedListed, DownIsEmpty, Joined, ShownFollows
  <2> QED BY <2>3, <2>5, <2>6 DEF Rest
<1>7. ASSUME NEW m \in Messages, Post(r, m) PROVE Rest'
  <2> DEFINE n == [key |-> now, text |-> m, whole |-> TRUE]
             j == [pc |-> "insert", node |-> n]
  <2>1. n \in Node
    BY ServiceAssumption DEF TypeOK, Node
  <2> HIDE DEF n
  <2>2. j \in Jobs /\ j.pc = "insert"
    BY <2>1 DEF Jobs
  <2>3. job' = [job EXCEPT ![r] = j]
    BY <1>7 DEF Post, n
  <2> HIDE DEF j
  <2> QED BY <1>7, <2>2, <2>3, JobKeeps DEF Post, TypeOK
<1>8. ASSUME NEW name \in Keys, Ask(r, name) PROVE Rest'
  <2>0. asked' \in 0..MaxAsked
    BY <1>8, ServiceAssumption DEF Ask, TypeOK
  <2>1. CASE life' = "race" /\ UNCHANGED job
    BY <1>8, <2>0, <2>1, RaceKeeps DEF Ask
  <2> DEFINE j == [pc |-> "get", name |-> name]
  <2>2. CASE job' = [job EXCEPT ![r] = j] /\ UNCHANGED life
    <3>1. j \in Jobs /\ j.pc = "get"
      BY DEF Jobs
    <3> HIDE DEF j
    <3> QED BY <1>8, <2>0, <2>2, <3>1, JobKeeps DEF Ask, TypeOK
  <2> QED BY <1>8, <2>1, <2>2 DEF Ask
<1> QED BY <1>2, <1>3, <1>4, <1>5, <1>6, <1>7, <1>8 DEF Work

LEMMA InitKeeps == Init => ServiceInv
<1> SUFFICES ASSUME Init PROVE ServiceInv
  OBVIOUS
<1>1. CacheInv /\ DOMAIN map = {}
  BY EmptyKeeps DEF Init, EmptyCache
<1>2. TypeOK
  BY <1>1, ServiceAssumption DEF Init, TypeOK, CacheInv, Jobs
<1>3. KeysDistinct /\ CacheWasTrue /\ AckedListed
  BY <1>1 DEF Init, KeysDistinct, DistinctKeys, CacheWasTrue, Cached, AckedListed
<1>4. DownIsEmpty /\ Joined /\ FileFollows /\ ShownFollows
  BY <1>1 DEF Init, DownIsEmpty, Joined, FileFollows, ShownFollows, Serving, Idle
<1> QED BY <1>1, <1>2, <1>3, <1>4 DEF ServiceInv

LEMMA NextKeeps == ServiceInv /\ [Next]_vars => ServiceInv'
<1> SUFFICES ASSUME ServiceInv, [Next]_vars PROVE ServiceInv'
  OBVIOUS
<1>1. CacheInv'
  BY CacheKeeps
<1>2. CASE UNCHANGED vars
  <2>1. TypeOK' /\ KeysDistinct' /\ CacheWasTrue'
    BY <1>1, <1>2 DEF ServiceInv, vars, cache, durable, TypeOK, CacheInv, KeysDistinct,
                     CacheWasTrue, Cached, Get
  <2>2. AckedListed' /\ DownIsEmpty' /\ Joined' /\ FileFollows' /\ ShownFollows'
    BY <1>2 DEF ServiceInv, vars, cache, durable, AckedListed, DownIsEmpty, Joined,
                FileFollows, Ahead, ShownFollows, Serving
  <2> QED BY <1>1, <2>1, <2>2 DEF ServiceInv
<1>3. CASE Next
  <2>1. Rest'
    BY <1>1, <1>3, LifeKeeps, WorkKeeps DEF Next
  <2> QED BY <1>1, <2>1 DEF ServiceInv, Rest
<1> QED BY <1>2, <1>3

THEOREM ServiceInvariant == Spec => []ServiceInv
<1> QED BY InitKeeps, NextKeeps, PTL DEF Spec

-----------------------------------------------------------------------------
(* The types.                                                              *)
THEOREM ServiceTypes == Spec => []TypeOK
<1>1. ServiceInv => TypeOK
  BY DEF ServiceInv
<1> QED BY <1>1, ServiceInvariant, PTL

(* The vectors of the cache are at all times one list, in the order of the *)
(* puts.                                                                   *)
THEOREM CacheOrdered == Spec => []ListIsOrder
<1>1. ServiceInv => ListIsOrder
  BY DEF ServiceInv, CacheInv
<1> QED BY <1>1, ServiceInvariant, PTL

(* No two nodes of the list, or lines of the file, have one key, whatever  *)
(* was posted, saved, loaded and lost.                                     *)
THEOREM KeysStayDistinct == Spec => []KeysDistinct
<1>1. ServiceInv => KeysDistinct
  BY DEF ServiceInv
<1> QED BY <1>1, ServiceInvariant, PTL

(* An answer from the cache was right when it was made, in this process.   *)
THEOREM CacheStaysTrue == Spec => []CacheWasTrue
<1>1. ServiceInv => CacheWasTrue
  BY DEF ServiceInv
<1> QED BY <1>1, ServiceInvariant, PTL

(* For each message that was answered "left" there is a node of its second.*)
THEOREM AckedStayListed == Spec => []AckedListed
<1>1. ServiceInv => AckedListed
  BY DEF ServiceInv
<1> QED BY <1>1, ServiceInvariant, PTL

(* What was saved, completely or not, is loaded at the next start, but for *)
(* the messages whose keys a broken one before them has taken.             *)
THEOREM SaveThenLoad == Spec => SavedComesBack
<1> DEFINE saved == IF kept = NoFile THEN file ELSE kept
           Back == life = "down" /\ life' = "up" /\ file # NoFile =>
        /\ \A n \in saved : Sound(n) =>
            \/ n \in stored'
            \/ \E p \in Places(saved) :
                /\ ~Sound(p[1]) /\ p[1].key < n.key
                /\ Piece(p) \in stored' /\ Piece(p).key = n.key
        /\ \A n \in stored' : n = Ghost \/ \E p \in Places(saved) : n = Piece(p)
<1>1. ServiceInv /\ [Next]_vars => [Back]_vars
  <2> SUFFICES ASSUME ServiceInv, Next, life = "down", life' = "up", file # NoFile
               PROVE  Back
    OBVIOUS
  <2>1. Start
    <3>1. CASE Signal \/ Stop \/ Crash \/ Tick
      BY <3>1 DEF Signal, Stop, Crash, Tick, Join, Truncate, SaveFails, WriteLine, Saved
    <3>2. ASSUME NEW r \in Reactors, Work(r) \/ (\E m \in Messages : Post(r, m))
                                     \/ (\E name \in Keys : Ask(r, name))
          PROVE  FALSE
      BY <3>2 DEF Work, Insert, LookedUp, Build, BuildFatal, Finish, Post, Ask, Serving, Running
    <3> QED BY <3>1, <3>2 DEF Next
  <2>2. saved = file
    BY DEF ServiceInv, FileFollows
  <2>3. file \in SUBSET Node /\ DistinctKeys(file) /\ stored' = Load(file)
    BY <2>1 DEF Start, ServiceInv, TypeOK, KeysDistinct
  <2> HIDE DEF saved
  <2> QED BY <2>2, <2>3, LoadKeeps
<1> QED BY <1>1, ServiceInvariant, PTL DEF Spec, SavedComesBack

(* A completed save has written everything there was, what had been        *)
(* answered as left included.                                              *)
THEOREM SavesAreComplete == Spec => SaveIsComplete
<1> DEFINE Complete == life = "write" /\ kept' # NoFile =>
        kept' = stored /\ \A t \in acked : \E n \in kept' : n.key = t
<1>1. ServiceInv /\ [Next]_vars => [Complete]_vars
  <2> SUFFICES ASSUME ServiceInv, Next, life = "write", kept' # NoFile
               PROVE  kept' = stored /\ \A t \in acked : \E n \in kept' : n.key = t
    OBVIOUS
  <2>1. kept = NoFile
    BY DEF ServiceInv, FileFollows
  <2>2. Saved
    <3>1. CASE Start \/ Signal \/ Stop \/ Crash \/ Tick
      BY <2>1, <3>1 DEF Start, Signal, Stop, Crash, Tick, Join, Truncate, SaveFails, WriteLine,
                        durable
    <3>2. ASSUME NEW r \in Reactors, Work(r) \/ (\E m \in Messages : Post(r, m))
                                     \/ (\E name \in Keys : Ask(r, name))
          PROVE  FALSE
      BY <2>1, <3>2 DEF Work, Insert, LookedUp, Build, BuildFatal, Finish, Post, Ask, durable
    <3> QED BY <3>1, <3>2 DEF Next
  <2>3. kept' = stored
    BY <2>2 DEF Saved, ServiceInv, FileFollows
  <2> QED BY <2>3 DEF ServiceInv, AckedListed
<1> QED BY <1>1, ServiceInvariant, PTL DEF Spec, SaveIsComplete

(* The cache is the bounded map: every step of the service is a step of    *)
(* the map or leaves it alone.                                             *)
THEOREM CacheRefines == Spec => IsBoundedMap
<1>1. Init => Bounded!Init
  BY EmptyKeeps DEF Init
<1>2. ServiceInv /\ [Next]_vars => [Bounded!Next]_<<order, value>>
  <2> SUFFICES ASSUME ServiceInv, [Next]_vars
               PROVE  Bounded!Next \/ UNCHANGED <<order, value>>
    OBVIOUS
  <2>1. CASE UNCHANGED cache
    BY <2>1 DEF cache, value
  <2>2. CASE ClearCache
    BY <2>2, EmptyKeeps DEF Bounded!Next
  <2>3. ASSUME NEW r \in Reactors, Finish(r)
        PROVE  Bounded!Next \/ UNCHANGED <<order, value>>
    BY <2>3, JobParts, PutIsBounded DEF Finish, ServiceInv
  <2> QED BY <2>1, <2>2, <2>3, CacheSteps
<1> QED BY <1>1, <1>2, ServiceInvariant, PTL DEF Spec, IsBoundedMap, Bounded!Spec, value

=============================================================================
