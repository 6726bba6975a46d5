--------------------------- MODULE SkipListProofs ---------------------------
(***************************************************************************)
(* Proofs about SkipList, for any finite number of nodes, any keys, and    *)
(* any number of levels and of messages asked for.                         *)
(***************************************************************************)
EXTENDS SkipList, LeastNatural

-----------------------------------------------------------------------------
(* A level of the list, as the set of its nodes.                           *)

\* Node z comes after x, a node or the header.
After(x, z) == x = Header \/ KeyOf[x] < KeyOf[z]

\* On a level with the nodes S, y is the one after x.
Follows(S, x, y) ==
    \/ y = NULL /\ \A z \in S : ~After(x, z)
    \/ /\ y \in S /\ After(x, y)
       /\ \A z \in S : After(x, z) => KeyOf[y] <= KeyOf[z]

\* Level i of the pointers f has exactly the nodes S, in the order of their keys.
Chain(f, i, S) ==
    /\ S \subseteq Nodes
    /\ \A y, z \in S : KeyOf[y] = KeyOf[z] => y = z
    /\ \A x \in S \cup {Header} : Follows(S, x, f[x][i])

\* On a level with the nodes S, x is the last one before key k, or the header.
LastBefore(S, k, x) ==
    /\ x \in S \cup {Header}
    /\ x # Header => KeyOf[x] < k
    /\ \A z \in S : KeyOf[z] < k => x # Header /\ KeyOf[z] <= KeyOf[x]

Forwards == [Start -> [Levels -> Pointer]]

-----------------------------------------------------------------------------
(* The inductive invariant: the list.                                      *)

(* What level i is once the insertion in progress is done.                 *)
Whole(i) ==
    OnLevel(i) \cup {n \in Nodes : /\ writer # Idle /\ n = writer.node
                                   /\ i <= height[n]}

\* All levels are in order, and each is part of the one below.
Chained ==
    /\ \A i \in Levels : Chain(forward, i, OnLevel(i))
    /\ \A i \in 1..MaxLevel : OnLevel(i) \subseteq OnLevel(i - 1)

\* A node is on its own levels and on no other, and the top one has a node.
Heights ==
    /\ \A i \in Levels : \A n \in OnLevel(i) : height[n] >= i /\ height[n] >= 1
    /\ \A n \in OnLevel(0) : \A i \in 0..height[n] : n \in Whole(i)
    /\ \A i \in 1..MaxLevel : Whole(i) # {} <=> i <= level

Counted == count = Cardinality(Complete)

(* What has been linked of the node being inserted is its lower levels; on *)
(* each other one the search has found its place.                          *)
Inserting ==
    writer # Idle =>
      LET n == writer.node IN
        /\ height[n] >= 1 /\ writer.at \in 0..height[n]
        /\ \A m \in OnLevel(0) \ {n} : KeyOf[m] # KeyOf[n]
        /\ \A i \in 0..height[n] :
             n \in OnLevel(i) <=> writer.pc = "count" \/ i < writer.at
        /\ \A i \in writer.at..height[n] :
             writer.pc = "link" => LastBefore(OnLevel(i), KeyOf[n], writer.update[i])

ListInv == Chained /\ Heights /\ Counted /\ Inserting

(* The inductive invariant: the read.                                      *)

\* The nodes of level 0 after node x (or the header), and the others.
Beyond(x) == {z \in OnLevel(0) : After(x, z)}
UpTo(x) == {z \in OnLevel(0) : ~After(x, z)}

SeenStays == reader # Idle => reader.seen \subseteq Complete

(* The way down: the reader is on a level it may read, before the key.     *)
Descending ==
    reader.pc \in {"level", "descend", "land"} =>
        /\ reader.kind # "last" /\ reader.got = <<>> /\ reader.cnt = reader.want
        /\ reader.pc = "level" => reader.cur = Header
        /\ reader.pc = "land" => reader.lev = 0
        /\ reader.cur \in OnLevel(reader.lev) \cup {Header}
        /\ reader.cur # Header => KeyOf[reader.cur] < reader.key

(* The messages to pass over and those to collect are there, and make up   *)
(* for all that have been seen.                                            *)
Passing ==
    reader.pc \in {"again", "skip"} =>
        /\ reader.kind = "last" /\ reader.got = <<>>
        /\ reader.cnt = reader.want /\ reader.cnt >= 1
        /\ reader.pc = "again" => reader.cur = Header /\ reader.cnt <= count
        /\ reader.pc = "skip" =>
             /\ reader.cur \in OnLevel(0) \cup {Header}
             /\ reader.pass = -1 => reader.cur # Header
             /\ reader.pass + reader.cnt <= Cardinality(Beyond(reader.cur))
             /\ Cardinality(reader.seen) <=
                  Cardinality(UpTo(reader.cur)) + reader.pass + reader.cnt

(* The next message to collect: nothing seen lies between it and the last  *)
(* one, and there are as many more as are wanted.                          *)
Collecting ==
    reader.pc = "collect" =>
        /\ reader.kind # "search"
        /\ reader.cur \in OnLevel(0) \cup {NULL}
        /\ reader.got = <<>> /\ reader.kind = "from" =>
             /\ reader.cur # NULL /\ KeyOf[reader.cur] >= reader.key
             /\ \A m \in reader.seen : KeyOf[m] >= reader.key => KeyOf[m] >= KeyOf[reader.cur]
        /\ reader.kind = "last" /\ reader.cnt > 0 =>
             reader.cur # NULL /\ reader.cnt <= Cardinality(Beyond(reader.cur)) + 1
        /\ reader.kind = "last" /\ reader.got = <<>> =>
             /\ reader.cur # NULL /\ reader.cnt > 0
             /\ Cardinality(reader.seen) < Cardinality(UpTo(reader.cur)) + reader.cnt
        /\ reader.got # <<>> =>
             LET last == reader.got[Len(reader.got)] IN
               /\ reader.cur # NULL => Newer(reader.cur, last)
               /\ \A m \in reader.seen : Newer(m, last) =>
                    reader.cur # NULL /\ KeyOf[m] >= KeyOf[reader.cur]

(* What has been collected.                                                *)
Collected ==
    reader.pc \in {"collect", "done"} =>
        /\ reader.kind # "search" => Len(reader.got) + reader.cnt = reader.want
        /\ reader.pc = "done" /\ reader.kind = "last" => reader.cnt = 0
        /\ reader.got # <<>> =>
             LET got == reader.got
                 last == got[Len(got)]
             IN
               /\ \A i \in DOMAIN got : got[i] \in OnLevel(0)
               /\ \A i \in 1..Len(got) - 1 : Newer(got[i + 1], got[i])
               /\ reader.kind = "from" =>
                    /\ KeyOf[got[1]] >= reader.key
                    /\ \A m \in reader.seen : KeyOf[m] >= reader.key => KeyOf[m] >= KeyOf[got[1]]
               /\ reader.kind # "search" =>
                    \A m \in reader.seen \ Range(got) : Newer(got[1], m) \/ Newer(m, last)
               /\ reader.kind = "last" =>
                    Cardinality(reader.seen) <= Cardinality(UpTo(last)) + reader.cnt
               /\ reader.pc = "done" /\ reader.kind # "search" /\ reader.cnt > 0 =>
                    \A m \in reader.seen : ~Newer(m, last)

ReadInv == SeenStays /\ Descending /\ Passing /\ Collecting /\ Collected

(* The inductive invariant.                                                *)
SkipListInv == TypeOK /\ ListInv /\ ReadInv

-----------------------------------------------------------------------------
(* Levels as recursive functions collect them.                             *)

LEMMA KeysAre == \A n \in Nodes : KeyOf[n] \in Nat /\ KeyOf[n] \in Keys
BY SkipListAssumption DEF Keys, Range

(* A set of nodes has a latest one.                                        *)
LEMMA LatestExists ==
  ASSUME NEW S \in SUBSET Nodes, S # {}
  PROVE  \E m \in S : \A x \in S : KeyOf[x] <= KeyOf[m]
<1> DEFINE Later(n) == {x \in S : KeyOf[n] < KeyOf[x]}
           T == {Later(n) : n \in S}
           R == StrictSubsetOrdering(S)
<1>1. IsFiniteSet(S)
  BY SkipListAssumption, FS_Subset
<1>2. T \subseteq FiniteSubsetsOf(S) /\ T # {}
  <2>1. \A n \in S : IsFiniteSet(Later(n)) /\ Later(n) \subseteq S
    BY <1>1, FS_Subset
  <2> QED BY <2>1 DEF FiniteSubsetsOf
<1>3. IsWellFoundedOn(R, FiniteSubsetsOf(S))
  BY FS_StrictSubsetOrderingWellFounded
<1> HIDE DEF T, R
<1>4. PICK u \in T : \A y \in T : ~ (<<y, u>> \in R)
  BY <1>2, <1>3, WFMin
<1>5. PICK m \in S : u = Later(m)
  BY <1>4 DEF T
<1>6. ASSUME NEW x \in S, ~(KeyOf[x] <= KeyOf[m]) PROVE FALSE
  <2>1. KeyOf[m] < KeyOf[x] /\ \A n \in S : KeyOf[n] \in Nat
    BY <1>6, KeysAre
  <2>2. Later(x) \subseteq Later(m) /\ x \in Later(m) /\ x \notin Later(x)
    BY <2>1
  <2>3. <<Later(x), u>> \in R
    BY <1>5, <2>2 DEF R, StrictSubsetOrdering
  <2> QED BY <1>4, <2>3 DEF T
<1> QED BY <1>6

(* The recursive function that collects the nodes of a level has a value.  *)
LEMMA RestExists ==
  ASSUME NEW f \in Forwards, NEW i \in Levels
  PROVE  \E r : r = [x \in Start |->
           IF f[x][i] = NULL THEN {} ELSE {f[x][i]} \cup r[f[x][i]]]
<1> DEFINE Into(x) == {T \in SUBSET Nodes :
                         /\ f[x][i] # NULL => f[x][i] \in T
                         /\ \A z \in T : f[z][i] # NULL => f[z][i] \in T}
           R == [x \in Start |-> {y \in Nodes : \A T \in Into(x) : y \in T}]
           E(x) == IF f[x][i] = NULL THEN {} ELSE {f[x][i]} \cup R[f[x][i]]
<1>1. \A x \in Start : f[x][i] \in Nodes \cup {NULL}
  BY DEF Forwards, Pointer
<1>2. Nodes \subseteq Start
  BY DEF Start
<1>7. \A x \in Start : R[x] = {y \in Nodes : \A T \in Into(x) : y \in T}
  OBVIOUS
<1>3. ASSUME NEW x \in Start, f[x][i] = NULL PROVE R[x] = {}
  <2>1. {} \in Into(x)
    BY <1>3
  <2> QED BY <2>1
<1>4. ASSUME NEW x \in Start, f[x][i] # NULL
      PROVE  R[x] = {f[x][i]} \cup R[f[x][i]]
  <2> DEFINE y == f[x][i]
             U == {y} \cup R[y]
  <2>1. y \in Nodes /\ y \in Start
    BY <1>1, <1>2, <1>4
  <2>2. U \in Into(x)
    <3>1. U \in SUBSET Nodes /\ y \in U
      BY <2>1
    <3>2. ASSUME NEW z \in U, f[z][i] # NULL PROVE f[z][i] \in U
      <4>1. f[z][i] \in Nodes
        BY <1>1, <1>2, <3>1, <3>2
      <4>2. CASE z = y
        <5>1. \A T \in Into(y) : f[y][i] \in T
          BY <3>2, <4>2
        <5> QED BY <2>1, <4>1, <4>2, <5>1
      <4>3. CASE z \in R[y]
        <5>1. \A T \in Into(y) : f[z][i] \in T
          BY <2>1, <3>2, <4>3
        <5> QED BY <2>1, <4>1, <5>1
      <4> QED BY <3>2, <4>2, <4>3
    <3> QED BY <3>1, <3>2
  <2>3. R[x] \subseteq U
    BY <2>2
  <2>4. y \in R[x]
    BY <1>4, <2>1
  <2>5. \A T \in Into(x) : T \in Into(y)
    BY <1>4
  <2>6. ASSUME NEW w \in R[y] PROVE w \in R[x]
    <3>1. w \in Nodes /\ \A T \in Into(y) : w \in T
      BY <2>1
    <3>2. \A T \in Into(x) : w \in T
      BY <2>5, <3>1
    <3> QED BY <1>7, <3>1, <3>2
  <2>7. R[y] \subseteq R[x]
    BY <2>6
  <2> HIDE DEF Into, R
  <2> QED BY <2>3, <2>4, <2>7
<1>5. \A x \in Start : R[x] = E(x)
  BY <1>3, <1>4
<1>6. R = [x \in Start |-> E(x)]
  BY <1>5
<1> QED BY <1>6

(* It is the nodes of the chain, so that OnLevel is the set S.             *)
LEMMA ReachedIs ==
  ASSUME NEW f \in Forwards, NEW i \in Levels, NEW S, Chain(f, i, S)
  PROVE  Reached(f, i) = S
<1> DEFINE E(r) == r = [x \in Start |->
             IF f[x][i] = NULL THEN {} ELSE {f[x][i]} \cup r[f[x][i]]]
           r == CHOOSE q : E(q)
           Past(x) == {z \in S : KeyOf[x] < KeyOf[z]}
<1>1. Reached(f, i) = r[Header]
  BY DEF Reached
<1>2. E(r)
  <2>1. \E q : E(q)
    BY RestExists
  <2> HIDE DEF E
  <2> QED BY <2>1
<1> HIDE DEF r
<1>3. \A x \in Start : r[x] = IF f[x][i] = NULL THEN {} ELSE {f[x][i]} \cup r[f[x][i]]
  BY <1>2
<1>4. S \subseteq Nodes /\ S \subseteq Start /\ Header \in Start
  BY DEF Chain, Start
<1>5. \A z \in S : KeyOf[z] \in Nat /\ z # Header /\ z # NULL
  BY <1>4, KeysAre, SkipListAssumption
<1>6. \A x \in S : r[x] = Past(x)
  <2>1. SUFFICES ASSUME {x \in S : r[x] # Past(x)} # {} PROVE FALSE
    OBVIOUS
  <2>2. PICK m \in S : /\ r[m] # Past(m)
                       /\ \A x \in S : r[x] # Past(x) => KeyOf[x] <= KeyOf[m]
    BY <1>4, <2>1, LatestExists
  <2>3. Follows(S, m, f[m][i])
    BY DEF Chain
  <2>4. CASE f[m][i] = NULL
    BY <1>3, <1>4, <1>5, <2>2, <2>3, <2>4 DEF Follows, After
  <2>5. CASE f[m][i] # NULL
    <3> DEFINE y == f[m][i]
    <3>1. y \in S /\ KeyOf[m] < KeyOf[y] /\ \A z \in S : KeyOf[m] < KeyOf[z] => KeyOf[y] <= KeyOf[z]
      BY <1>5, <2>3, <2>5 DEF Follows, After
    <3>2. r[y] = Past(y)
      BY <1>5, <2>2, <3>1
    <3>3. r[m] = {y} \cup Past(y)
      BY <1>3, <1>4, <2>5, <3>2
    <3>4. \A z \in S : KeyOf[m] < KeyOf[z] => z = y \/ KeyOf[y] < KeyOf[z]
      BY <1>5, <3>1 DEF Chain
    <3>5. Past(y) \subseteq Past(m)
      BY <1>5, <3>1
    <3>6. r[m] = Past(m)
      BY <3>1, <3>3, <3>4, <3>5
    <3> QED BY <2>2, <3>6
  <2> QED BY <2>4, <2>5
<1>7. r[Header] = S
  <2>1. Follows(S, Header, f[Header][i])
    BY DEF Chain
  <2>2. CASE f[Header][i] = NULL
    BY <1>3, <1>4, <2>1, <2>2, <1>5 DEF Follows, After
  <2>3. CASE f[Header][i] # NULL
    <3> DEFINE y == f[Header][i]
    <3>1. y \in S /\ \A z \in S : KeyOf[y] <= KeyOf[z]
      BY <2>1, <2>3 DEF Follows, After
    <3>2. r[Header] = {y} \cup Past(y)
      BY <1>3, <1>4, <1>6, <2>3, <3>1
    <3>3. \A z \in S : z = y \/ KeyOf[y] < KeyOf[z]
      BY <1>5, <3>1 DEF Chain
    <3> QED BY <3>1, <3>2, <3>3
  <2> QED BY <2>2, <2>3
<1> QED BY <1>1, <1>7

-----------------------------------------------------------------------------
(* The walk along a level and the search.                                  *)

(* What a walk comes to has a value as well: the only node on its way that *)
(* it does not go beyond.                                                  *)
LEMMA FromExists ==
  ASSUME NEW f \in Forwards, NEW i \in Levels, NEW k
  PROVE  \E w : w = [x \in Start |->
           LET y == f[x][i] IN IF y # NULL /\ KeyOf[y] < k THEN w[y] ELSE x]
<1> DEFINE Goes(x) == f[x][i] # NULL /\ KeyOf[f[x][i]] < k
           Into(x) == {T \in SUBSET Start : x \in T /\ \A z \in T : Goes(z) => f[z][i] \in T}
           Ends(x) == {z \in Start : ~Goes(z) /\ \A T \in Into(x) : z \in T}
           W == [x \in Start |-> CHOOSE z : z \in Ends(x)]
           E(x) == IF Goes(x) THEN W[f[x][i]] ELSE x
<1>1. \A x \in Start : f[x][i] # NULL => f[x][i] \in Start
  BY DEF Forwards, Pointer, Start
<1>2. ASSUME NEW x \in Start, ~Goes(x) PROVE W[x] = x
  <2>1. {x} \in Into(x)
    BY <1>2
  <2>2. Ends(x) = {x}
    BY <1>2, <2>1
  <2> QED BY <2>2
<1>3. ASSUME NEW x \in Start, Goes(x) PROVE W[x] = W[f[x][i]]
  <2>1. f[x][i] \in Start
    BY <1>1, <1>3
  <2>2. \A T \in Into(x) : T \in Into(f[x][i])
    BY <1>3
  <2>3. \A T \in Into(f[x][i]) : T \cup {x} \in Into(x)
    BY <1>3, <2>1
  <2>4. ASSUME NEW z \in Start, ~Goes(z)
        PROVE  (\A T \in Into(x) : z \in T) <=> (\A T \in Into(f[x][i]) : z \in T)
    <3>1. z # x
      BY <1>3, <2>4
    <3> HIDE DEF Into, Goes
    <3> QED BY <2>2, <2>3, <3>1
  <2> HIDE DEF Into, Goes
  <2>5. Ends(x) = Ends(f[x][i])
    BY <2>4
  <2> QED BY <2>1, <2>5
<1>4. W = [x \in Start |-> W[x]]
  OBVIOUS
<1>5. W = [x \in Start |-> E(x)]
  <2> HIDE DEF W, Goes
  <2>1. \A x \in Start : W[x] = E(x)
    BY <1>2, <1>3
  <2> QED BY <1>4, <2>1
<1> QED BY <1>5

(* From a node before key k the walk goes to the last one before it.       *)
LEMMA WalkEnds ==
  ASSUME forward \in Forwards, NEW i \in Levels, NEW k \in Nat, NEW S,
         Chain(forward, i, S), NEW x \in S \cup {Header}, x # Header => KeyOf[x] < k
  PROVE  LastBefore(S, k, Walk(i, k)[x])
<1> DEFINE E(w) == w = [z \in Start |->
             LET y == forward[z][i] IN IF y # NULL /\ KeyOf[y] < k THEN w[y] ELSE z]
           w == CHOOSE q : E(q)
<1>1. Walk(i, k) = w
  BY DEF Walk
<1>2. E(w)
  <2>1. \E q : E(q)
    BY FromExists
  <2> HIDE DEF E
  <2> QED BY <2>1
<1> HIDE DEF w
<1>3. \A z \in Start : w[z] = IF forward[z][i] # NULL /\ KeyOf[forward[z][i]] < k
                               THEN w[forward[z][i]] ELSE z
  BY <1>2
<1>4. S \subseteq Nodes /\ S \cup {Header} \subseteq Start
  BY DEF Chain, Start
<1>5. \A z \in S : KeyOf[z] \in Nat /\ z # Header /\ z # NULL
  BY <1>4, KeysAre, SkipListAssumption
<1>6. ASSUME NEW z \in S \cup {Header}, z # Header => KeyOf[z] < k
      PROVE  \/ LastBefore(S, k, z) /\ w[z] = z
             \/ /\ forward[z][i] \in S /\ After(z, forward[z][i])
                /\ KeyOf[forward[z][i]] < k /\ w[z] = w[forward[z][i]]
  <2>1. Follows(S, z, forward[z][i])
    BY DEF Chain
  <2>2. CASE forward[z][i] # NULL /\ KeyOf[forward[z][i]] < k
    BY <1>3, <1>4, <1>5, <2>1, <2>2 DEF Follows
  <2>3. CASE ~(forward[z][i] # NULL /\ KeyOf[forward[z][i]] < k)
    <3>1. w[z] = z
      BY <1>3, <1>4, <2>3
    <3>2. LastBefore(S, k, z)
      BY <1>5, <1>6, <2>1, <2>3 DEF Follows, After, LastBefore
    <3> QED BY <3>1, <3>2
  <2> QED BY <2>2, <2>3
<1>7. \A z \in S : KeyOf[z] < k => LastBefore(S, k, w[z])
  <2> DEFINE T == {z \in S : KeyOf[z] < k /\ ~LastBefore(S, k, w[z])}
  <2>1. SUFFICES ASSUME T # {} PROVE FALSE
    OBVIOUS
  <2>2. PICK m \in T : \A z \in T : KeyOf[z] <= KeyOf[m]
    BY <1>4, <2>1, LatestExists
  <2>3. /\ forward[m][i] \in S /\ KeyOf[m] < KeyOf[forward[m][i]]
        /\ KeyOf[forward[m][i]] < k /\ w[m] = w[forward[m][i]]
    BY <1>5, <1>6, <2>2 DEF After
  <2>4. forward[m][i] \in T
    BY <2>2, <2>3
  <2> QED BY <1>5, <2>2, <2>3, <2>4
<1>8. LastBefore(S, k, w[x])
  BY <1>6, <1>7
<1> QED BY <1>1, <1>8

(* There is one last node before a key.                                    *)
LEMMA LastBeforeUnique ==
  ASSUME NEW S \in SUBSET Nodes, \A y, z \in S : KeyOf[y] = KeyOf[z] => y = z,
         NEW k \in Nat, NEW x, NEW y, LastBefore(S, k, x), LastBefore(S, k, y)
  PROVE  x = y
<1>1. \A z \in S : KeyOf[z] \in Nat
  BY KeysAre
<1> QED BY <1>1 DEF LastBefore

LEMMA LastBeforeExists ==
  ASSUME NEW S \in SUBSET Nodes, NEW k \in Nat
  PROVE  \E x : LastBefore(S, k, x)
<1> DEFINE T == {z \in S : KeyOf[z] < k}
<1>1. \A z \in S : z # Header
  BY SkipListAssumption
<1>2. CASE T = {}
  <2>1. LastBefore(S, k, Header)
    BY <1>2 DEF LastBefore
  <2> QED BY <2>1
<1>3. CASE T # {}
  <2>1. PICK m \in T : \A z \in T : KeyOf[z] <= KeyOf[m]
    BY <1>3, LatestExists
  <2>2. LastBefore(S, k, m)
    BY <1>1, <2>1 DEF LastBefore
  <2> QED BY <2>2
<1> QED BY <1>2, <1>3

LEMMA LevelsAre == MaxLevel \in Nat \ {0} /\ Levels = 0..MaxLevel /\ 0 \in Levels
BY SkipListAssumption DEF Levels

(* The search leaves every level at the last node before the key.          *)
LEMMA UpdateIs ==
  ASSUME TypeOK, Chained, NEW k \in Nat
  PROVE  \A i \in 0..level : LastBefore(OnLevel(i), k, Update(k)[i])
<1> DEFINE Down(at, i) == Walk(i, k)[IF i = level THEN Header ELSE at[i + 1]]
           E(at) == at = [i \in 0..level |-> Down(at, i)]
           at == CHOOSE q : E(q)
           L(i) == OnLevel(i)
           P == [i \in 0..level |-> CHOOSE x : LastBefore(L(i), k, x)]
<1>1. forward \in Forwards /\ level \in Levels /\ level \in Nat
  BY LevelsAre DEF TypeOK, Forwards
<1>2. \A i \in 0..level : i \in Levels /\ (i # level => i + 1 \in 1..MaxLevel /\ i + 1 \in Levels
                                                     /\ i + 1 \in 0..level)
  BY <1>1, LevelsAre
<1>3. \A i \in 0..level : Chain(forward, i, L(i)) /\ L(i) \subseteq Nodes
  BY <1>2 DEF Chained, Chain
<1>4. \A i \in 0..level : i # level => L(i + 1) \subseteq L(i)
  <2>1. ASSUME NEW i \in 0..level, i # level PROVE L(i + 1) \subseteq L(i)
    <3>1. i + 1 \in 1..MaxLevel /\ (i + 1) - 1 = i
      BY <1>2, <2>1
    <3> QED BY <3>1 DEF Chained
  <2> QED BY <2>1
<1>5. ASSUME NEW i \in 0..level, NEW q, i # level => LastBefore(L(i + 1), k, q[i + 1])
      PROVE  LastBefore(L(i), k, Down(q, i))
  <2>1. CASE i = level
    BY <1>1, <1>2, <1>3, <2>1, WalkEnds
  <2>2. CASE i # level
    <3>1. q[i + 1] \in L(i) \cup {Header} /\ (q[i + 1] # Header => KeyOf[q[i + 1]] < k)
      BY <1>4, <1>5, <2>2 DEF LastBefore
    <3> HIDE DEF L
    <3> QED BY <1>1, <1>2, <1>3, <2>2, <3>1, WalkEnds
  <2> QED BY <2>1, <2>2
<1>6. \A i \in 0..level : LastBefore(L(i), k, P[i])
  BY <1>3, LastBeforeExists
<1>7. \A i \in 0..level : P[i] = Down(P, i)
  <2>1. ASSUME NEW i \in 0..level PROVE LastBefore(L(i), k, Down(P, i))
    BY <1>2, <1>5, <1>6
  <2> HIDE DEF P, L
  <2> QED BY <1>3, <1>6, <2>1, LastBeforeUnique DEF Chain
<1>8. E(P)
  <2>1. P = [i \in 0..level |-> P[i]]
    OBVIOUS
  <2> HIDE DEF P
  <2> QED BY <1>7, <2>1
<1>9. E(at)
  <2> HIDE DEF E, P
  <2> QED BY <1>8
<1>10. Update(k) = at
  BY DEF Update
<1>11. \A i \in 0..level : at[i] = Down(at, i)
  <2> HIDE DEF at
  <2> QED BY <1>9
<1> HIDE DEF at, P, L, Down
<1>12. \A i \in 0..level : LastBefore(L(i), k, at[i])
  <2> DEFINE Bad == {j \in 0..level : ~LastBefore(L(level - j), k, at[level - j])}
  <2>1. ASSUME NEW i \in 0..level, ~LastBefore(L(i), k, at[i]) PROVE FALSE
    <3>1. level - i \in 0..level /\ level - (level - i) = i
      BY <1>1
    <3>2. level - i \in Bad
      BY <2>1, <3>1
    <3>3. Bad \in SUBSET Nat /\ Bad # {}
      <4>1. 0..level \in SUBSET Nat
        BY <1>1
      <4>2. Bad \subseteq 0..level
        OBVIOUS
      <4> HIDE DEF Bad
      <4> QED BY <3>2, <4>1, <4>2
    <3>4. PICK j \in Bad : \A m \in Bad : j <= m
      BY <3>3, LeastExists
    <3>5. j \in 0..level /\ level - j \in 0..level
      BY <1>1, <3>4
    <3>6. level - j # level => LastBefore(L((level - j) + 1), k, at[(level - j) + 1])
      <4>1. ASSUME level - j # level PROVE j - 1 \in 0..level /\ level - (j - 1) = (level - j) + 1
        BY <1>1, <3>5, <4>1
      <4>2. level - j # level => j - 1 \notin Bad
        BY <1>1, <3>4, <3>5
      <4> QED BY <4>1, <4>2
    <3>7. LastBefore(L(level - j), k, Down(at, level - j))
      BY <1>5, <3>5, <3>6
    <3> QED BY <1>11, <3>4, <3>5, <3>7
  <2> QED BY <2>1
<1> QED BY <1>10, <1>12 DEF L

-----------------------------------------------------------------------------
(* What a change of the pointers makes of a level.                         *)

LEMMA Inserted ==
  ASSUME NEW f, NEW g, NEW i, NEW S, Chain(f, i, S), NEW n \in Nodes \ S, NEW x,
         LastBefore(S, KeyOf[n], x), \A m \in S : KeyOf[m] # KeyOf[n],
         g[n][i] = f[x][i], g[x][i] = n,
         \A y \in (S \cup {Header}) \ {x} : g[y][i] = f[y][i]
  PROVE  Chain(g, i, S \cup {n})
<1>1. S \subseteq Nodes /\ \A z \in S \cup {n} : KeyOf[z] \in Nat /\ z # Header /\ z # NULL
  BY KeysAre, SkipListAssumption DEF Chain
<1>2. \A y, z \in S \cup {n} : KeyOf[y] = KeyOf[z] => y = z
  BY DEF Chain
<1>3. x \in S \cup {Header} /\ After(x, n) /\ \A z \in S : After(x, z) => KeyOf[n] < KeyOf[z]
  <2>1. ASSUME NEW z \in S, After(x, z) PROVE KeyOf[n] < KeyOf[z]
    BY <1>1, <2>1 DEF LastBefore, After
  <2> QED BY <2>1 DEF LastBefore, After
<1>4. Follows(S, x, f[x][i])
  BY <1>3 DEF Chain
<1>5. Follows(S \cup {n}, x, g[x][i])
  <2>1. \A z \in S \cup {n} : After(x, z) => KeyOf[n] <= KeyOf[z]
    BY <1>1, <1>3
  <2> QED BY <1>3, <2>1 DEF Follows
<1>6. Follows(S \cup {n}, n, g[n][i])
  <2>1. ~After(n, n)
    BY <1>1 DEF After
  <2>2. \A z \in S : After(n, z) <=> After(x, z)
    <3>1. ASSUME NEW z \in S, After(n, z) PROVE After(x, z)
      BY <1>1, <1>3, <3>1 DEF After
    <3>2. ASSUME NEW z \in S, After(x, z) PROVE After(n, z)
      BY <1>3, <3>2 DEF After
    <3> QED BY <3>1, <3>2
  <2> QED BY <1>4, <2>1, <2>2 DEF Follows
<1>7. ASSUME NEW y \in (S \cup {Header}) \ {x} PROVE Follows(S \cup {n}, y, g[y][i])
  <2>1. Follows(S, y, f[y][i]) /\ g[y][i] = f[y][i]
    BY DEF Chain
  <2>2. CASE ~After(y, n)
    BY <2>1, <2>2 DEF Follows
  <2>3. CASE After(y, n)
    <3>1. x # Header /\ After(y, x)
      BY <1>1, <1>3, <2>3 DEF LastBefore, After, Chain
    <3>2. f[y][i] \in S /\ KeyOf[f[y][i]] <= KeyOf[x]
      BY <1>3, <2>1, <3>1 DEF Follows
    <3>3. KeyOf[f[y][i]] <= KeyOf[n]
      BY <1>1, <1>3, <3>1, <3>2 DEF After
    <3> QED BY <1>1, <2>1, <3>2, <3>3 DEF Follows
  <2> QED BY <2>2, <2>3
<1> QED BY <1>1, <1>2, <1>5, <1>6, <1>7 DEF Chain

LEMMA Removed ==
  ASSUME NEW f, NEW g, NEW i, NEW S, Chain(f, i, S), NEW n \in S, NEW x,
         LastBefore(S, KeyOf[n], x), g[x][i] = f[n][i],
         \A y \in (S \cup {Header}) \ {x} : g[y][i] = f[y][i]
  PROVE  Chain(g, i, S \ {n})
<1>1. S \subseteq Nodes /\ \A z \in S : KeyOf[z] \in Nat /\ z # Header /\ z # NULL
  BY KeysAre, SkipListAssumption DEF Chain
<1>2. \A z \in S \ {n} : KeyOf[z] # KeyOf[n]
  BY DEF Chain
<1>3. x \in (S \cup {Header}) \ {n} /\ After(x, n)
  BY <1>1 DEF LastBefore, After
<1>4. Follows(S, n, f[n][i])
  BY DEF Chain
<1>5. Follows(S \ {n}, x, g[x][i])
  <2>1. \A z \in S \ {n} : After(n, z) <=> After(x, z)
    <3>1. ASSUME NEW z \in S \ {n}, After(n, z) PROVE After(x, z)
      BY <1>1, <1>3, <3>1 DEF After
    <3>2. ASSUME NEW z \in S \ {n}, After(x, z) PROVE After(n, z)
      BY <1>1, <1>2, <3>2 DEF After, LastBefore
    <3> QED BY <3>1, <3>2
  <2>2. f[n][i] # n
    BY <1>1, <1>4 DEF Follows, After
  <2> QED BY <1>4, <2>1, <2>2 DEF Follows
<1>6. ASSUME NEW y \in (S \cup {Header}) \ {x, n} PROVE Follows(S \ {n}, y, g[y][i])
  <2>1. Follows(S, y, f[y][i]) /\ g[y][i] = f[y][i]
    BY DEF Chain
  <2>2. f[y][i] # n
    <3>1. CASE After(y, n)
      <4>1. x # Header /\ After(y, x)
        BY <1>1, <1>3, <3>1 DEF LastBefore, After, Chain
      <4>2. f[y][i] \in S /\ KeyOf[f[y][i]] <= KeyOf[x]
        BY <1>3, <2>1, <4>1 DEF Follows
      <4> QED BY <1>1, <1>3, <4>1, <4>2 DEF After
    <3>2. CASE ~After(y, n)
      BY <1>1, <2>1, <3>2 DEF Follows
    <3> QED BY <3>1, <3>2
  <2> QED BY <2>1, <2>2 DEF Follows
<1>7. (S \ {n}) \cup {Header} \subseteq {x} \cup ((S \cup {Header}) \ {x, n})
  BY <1>1
<1>8. \A y \in (S \ {n}) \cup {Header} : Follows(S \ {n}, y, g[y][i])
  BY <1>5, <1>6, <1>7
<1> QED BY <1>1, <1>8 DEF Chain

LEMMA Unchanged ==
  ASSUME NEW f, NEW g, NEW i, NEW S, Chain(f, i, S),
         \A y \in S \cup {Header} : g[y][i] = f[y][i]
  PROVE  Chain(g, i, S)
BY DEF Chain

(* A level that is part of the one below is part of all below.             *)
LEMMA Nested ==
  ASSUME NEW T, \A i \in 1..MaxLevel : T[i] \subseteq T[i - 1]
  PROVE  \A i \in Levels : \A j \in 0..i : T[i] \subseteq T[j]
<1>1. SUFFICES ASSUME NEW i \in Levels, NEW j \in 0..i, ~(T[i] \subseteq T[j]) PROVE FALSE
  OBVIOUS
<1> DEFINE Bad == {l \in 0..i : l >= j /\ ~(T[l] \subseteq T[j])}
<1>2. i \in Nat /\ i <= MaxLevel /\ MaxLevel \in Nat /\ j \in Nat
  BY <1>1, LevelsAre
<1>3. i \in Bad /\ Bad \in SUBSET Nat
  BY <1>1, <1>2
<1>4. PICK m \in Bad : \A l \in Bad : m <= l
  BY <1>3, LeastExists
<1>5. m # j /\ m - 1 \in 0..i /\ m - 1 >= j /\ m \in 1..MaxLevel
  BY <1>2, <1>4
<1>6. T[m - 1] \subseteq T[j]
  BY <1>2, <1>4, <1>5
<1> QED BY <1>4, <1>5, <1>6

LEMMA LowestHasAll ==
  ASSUME Chained
  PROVE  \A i \in Levels : \A j \in 0..i : OnLevel(i) \subseteq OnLevel(j)
<1> DEFINE T == [i \in Levels |-> OnLevel(i)]
<1>1. \A i \in 1..MaxLevel : i \in Levels /\ i - 1 \in Levels
  BY LevelsAre
<1>2. \A i \in 1..MaxLevel : T[i] \subseteq T[i - 1]
  BY <1>1 DEF Chained
<1>3. \A i \in Levels : \A j \in 0..i : j \in Levels
  BY LevelsAre
<1> HIDE DEF T
<1>4. \A i \in Levels : \A j \in 0..i : T[i] \subseteq T[j]
  BY <1>2, Nested
<1> QED BY <1>3, <1>4 DEF T

LEMMA LevelsFinite ==
  ASSUME Chained, NEW i \in Levels, NEW S \in SUBSET OnLevel(i)
  PROVE  /\ OnLevel(i) \subseteq Nodes /\ IsFiniteSet(S) /\ Cardinality(S) \in Nat
         /\ Cardinality(S) <= Cardinality(OnLevel(i))
         /\ Cardinality(S) <= Cardinality(Nodes)
<1>1. OnLevel(i) \subseteq Nodes /\ IsFiniteSet(OnLevel(i))
  BY SkipListAssumption, FS_Subset DEF Chained, Chain
<1> QED BY <1>1, SkipListAssumption, FS_Subset, FS_CardinalityType

LEMMA Cards == Cardinality(Nodes) \in Nat
BY SkipListAssumption, FS_CardinalityType

(* What the search ends on.                                                *)
LEMMA FoundIs ==
  ASSUME TypeOK, Chained, NEW k \in Nat
  PROVE  /\ Present(k) <=> \E m \in OnLevel(0) : KeyOf[m] = k
         /\ Present(k) => Found(k) \in OnLevel(0) /\ KeyOf[Found(k)] = k
<1>1. LastBefore(OnLevel(0), k, Update(k)[0])
  BY UpdateIs, LevelsAre DEF TypeOK
<1>2. Chain(forward, 0, OnLevel(0))
  BY LevelsAre DEF Chained
<1>3. Follows(OnLevel(0), Update(k)[0], Found(k))
  BY <1>1, <1>2 DEF Chain, LastBefore, Found
<1>4. \A z \in OnLevel(0) : KeyOf[z] \in Nat /\ z # Header /\ z # NULL
  BY <1>2, KeysAre, SkipListAssumption DEF Chain
<1>5. \A z \in OnLevel(0) : After(Update(k)[0], z) <=> ~(KeyOf[z] < k)
  BY <1>1, <1>4 DEF LastBefore, After
<1>6. Present(k) => Found(k) \in OnLevel(0) /\ KeyOf[Found(k)] = k
  BY <1>3 DEF Present, Follows
<1>7. ASSUME NEW m \in OnLevel(0), KeyOf[m] = k PROVE Present(k)
  <2>1. Found(k) \in OnLevel(0) /\ KeyOf[Found(k)] <= k /\ After(Update(k)[0], Found(k))
    BY <1>3, <1>4, <1>5, <1>7 DEF Follows
  <2> QED BY <1>4, <1>5, <2>1 DEF Present
<1> QED BY <1>6, <1>7

-----------------------------------------------------------------------------
(* The steps of the writers keep the list.                                 *)

LEMMA ForwardTypes ==
  ASSUME TypeOK
  PROVE  /\ forward \in Forwards /\ Header \in Start /\ Nodes \subseteq Start /\ Header \notin Nodes
         /\ \A x \in Start, i \in Levels : forward[x][i] \in Pointer
         /\ \A n \in Nodes : height[n] \in Nat /\ height[n] <= MaxLevel
         /\ level \in Nat /\ level <= MaxLevel /\ count \in Nat
BY LevelsAre, Cards, SkipListAssumption DEF TypeOK, Forwards, Start

\* The levels that the pointers will have, once they are known.
LEMMA LevelsBecome ==
  ASSUME forward' \in Forwards, NEW T, \A i \in Levels : Chain(forward', i, T[i])
  PROVE  /\ \A i \in Levels : OnLevel(i)' = T[i]
         /\ (\A i \in 1..MaxLevel : T[i] \subseteq T[i - 1]) => Chained'
<1>1. \A i \in Levels : OnLevel(i)' = T[i]
  BY ReachedIs DEF OnLevel
<1>2. \A i \in 1..MaxLevel : i \in Levels /\ i - 1 \in Levels
  BY LevelsAre
<1> QED BY <1>1, <1>2 DEF Chained

LEMMA LevelsStay ==
  ASSUME forward' = forward
  PROVE  \A i : OnLevel(i)' = OnLevel(i)
BY DEF OnLevel

LEMMA IdleWriter ==
  ASSUME writer = Idle
  PROVE  \A i : Whole(i) = OnLevel(i) /\ Complete = OnLevel(0)
BY DEF Whole, Complete

LEMMA BusyWriter ==
  ASSUME TypeOK, writer # Idle
  PROVE  /\ writer \in Insertion /\ writer.node \in Nodes /\ writer.pc \in {"link", "count"}
         /\ DOMAIN writer.update = 0..height[writer.node]
         /\ Complete = OnLevel(0) \ {writer.node}
         /\ \A i : Whole(i) = OnLevel(i) \cup {n \in {writer.node} : i <= height[n]}
<1>1. writer \in Insertion /\ DOMAIN writer.update = 0..height[writer.node]
  BY DEF TypeOK
<1> QED BY <1>1 DEF Insertion, Whole, Complete

\* A node that has not been created is on no level.
LEMMA NewIsNowhere ==
  ASSUME ListInv, NEW n \in Nodes, height[n] = 0
  PROVE  \A i \in Levels : n \notin OnLevel(i)
BY DEF ListInv, Heights

LEMMA InsertKeeps ==
  ASSUME TypeOK, ListInv, NEW n \in Nodes, NEW h \in 1..MaxLevel, Insert(n, h)
  PROVE  /\ height' \in [Nodes -> Levels] /\ level' \in Levels /\ writer' \in Insertion
         /\ DOMAIN writer'.update = 0..height'[n] /\ writer'.node = n
         /\ ListInv'
<1> DEFINE u == [i \in 0..h |-> IF i <= level THEN Update(KeyOf[n])[i] ELSE Header]
<1>1. /\ writer = Idle /\ height[n] = 0 /\ ~Present(KeyOf[n])
      /\ height' = [height EXCEPT ![n] = h]
      /\ level' = IF h > level THEN h ELSE level
      /\ writer' = [pc |-> "link", node |-> n, at |-> 0, update |-> u]
      /\ forward' = forward /\ count' = count
  BY DEF Insert
<1>2. h \in Levels /\ h \in Nat /\ h >= 1 /\ h <= MaxLevel /\ Levels \subseteq Nat
  BY LevelsAre
<1>3. height' \in [Nodes -> Levels] /\ height'[n] = h /\ \A m \in Nodes \ {n} : height'[m] = height[m]
  BY <1>1, <1>2 DEF TypeOK
<1>4. level' \in Levels
  BY <1>1, <1>2 DEF TypeOK
<1>5. \A i \in Levels : OnLevel(i) \subseteq Nodes \ {n}
  BY <1>1, NewIsNowhere DEF ListInv, Chained, Chain
<1>6. \A i \in 0..h : LastBefore(OnLevel(i), KeyOf[n], u[i])
  <2>1. ASSUME NEW i \in 0..h, i <= level PROVE LastBefore(OnLevel(i), KeyOf[n], u[i])
    <3>1. i \in 0..level
      BY <1>2, <2>1
    <3>2. u[i] = Update(KeyOf[n])[i]
      BY <2>1
    <3> QED BY <3>1, <3>2, UpdateIs, KeysAre DEF ListInv
  <2>2. ASSUME NEW i \in 0..h, ~(i <= level) PROVE LastBefore(OnLevel(i), KeyOf[n], u[i])
    <3>1. i \in 1..MaxLevel
      BY <1>2, <2>2, LevelsAre DEF TypeOK
    <3>2. OnLevel(i) = {}
      BY <1>1, <2>2, <3>1, IdleWriter DEF ListInv, Heights
    <3>3. u[i] = Header
      BY <2>2
    <3> QED BY <3>2, <3>3 DEF LastBefore
  <2> QED BY <2>1, <2>2
<1>7. \A i \in 0..h : i \in Levels
  BY <1>2, LevelsAre
<1>8. u \in [0..h -> Start]
  <2>1. \A i \in 0..h : u[i] \in Start
    BY <1>5, <1>6, <1>7 DEF LastBefore, Start
  <2>2. u = [i \in 0..h |-> u[i]]
    OBVIOUS
  <2> HIDE DEF u
  <2> QED BY <2>1, <2>2
<1> HIDE DEF u
<1>9. writer' \in Insertion /\ writer' # Idle
  BY <1>1, <1>2, <1>8, LevelsAre DEF Insertion, Idle
<1>10. DOMAIN writer'.update = 0..height'[n] /\ writer'.node = n
  BY <1>1, <1>3, <1>8
<1>11. \A i \in Levels : OnLevel(i)' = OnLevel(i) /\ Whole(i) = OnLevel(i)
  BY <1>1, LevelsStay, IdleWriter
<1>12. \A i \in Levels : Whole(i)' = OnLevel(i) \cup {m \in {n} : i <= h}
  BY <1>3, <1>9, <1>10, <1>11 DEF Whole
<1>13. Chained'
  <2>1. \A i \in 1..MaxLevel : i \in Levels /\ i - 1 \in Levels
    BY LevelsAre
  <2> QED BY <1>1, <1>11, <2>1 DEF ListInv, Chained
<1>14. Heights'
  <2>1. \A i \in Levels : \A m \in OnLevel(i)' : height'[m] >= i /\ height'[m] >= 1
    BY <1>3, <1>5, <1>11 DEF ListInv, Heights
  <2>2. \A m \in OnLevel(0)' : \A i \in 0..height'[m] : m \in Whole(i)'
    <3>1. ASSUME NEW m \in OnLevel(0)', NEW i \in 0..height'[m] PROVE m \in Whole(i)'
      <4>1. m \in OnLevel(0) /\ i \in 0..height[m] /\ m \in Nodes
        BY <1>3, <1>5, <1>11, LevelsAre
      <4>2. i \in Levels
        BY <4>1, ForwardTypes, LevelsAre
      <4> QED BY <1>11, <1>12, <4>1, <4>2 DEF ListInv, Heights
    <3> QED BY <3>1
  <2>3. ASSUME NEW i \in 1..MaxLevel PROVE Whole(i)' # {} <=> i <= level'
    <3>1. i \in Levels /\ i \in Nat /\ level \in Nat
      BY <1>2, LevelsAre DEF TypeOK
    <3>2. OnLevel(i) # {} <=> i <= level
      BY <1>11, <3>1 DEF ListInv, Heights
    <3>3. Whole(i)' # {} <=> OnLevel(i) # {} \/ i <= h
      BY <1>12, <3>1
    <3> QED BY <1>1, <1>2, <3>1, <3>2, <3>3
  <2> QED BY <2>1, <2>2, <2>3 DEF Heights
<1>15. Counted'
  <2>1. Complete' = OnLevel(0) /\ Complete = OnLevel(0)
    BY <1>1, <1>5, <1>9, <1>10, <1>11, IdleWriter, LevelsAre DEF Complete
  <2> QED BY <1>1, <2>1 DEF ListInv, Counted
<1>16. Inserting'
  <2>1. writer'.pc = "link" /\ writer'.at = 0 /\ writer'.update = u
    BY <1>1
  <2>2. \A m \in OnLevel(0)' \ {n} : KeyOf[m] # KeyOf[n]
    BY <1>1, <1>11, FoundIs, KeysAre, LevelsAre DEF ListInv
  <2>3. \A i \in 0..h : n \notin OnLevel(i)' /\ ~(i < 0)
    BY <1>2, <1>5, <1>7, <1>11
  <2>4. \A i \in 0..h : LastBefore(OnLevel(i)', KeyOf[n], u[i])
    BY <1>6, <1>7, <1>11
  <2> QED BY <1>2, <1>3, <1>10, <2>1, <2>2, <2>3, <2>4 DEF Inserting
<1> QED BY <1>3, <1>4, <1>9, <1>10, <1>13, <1>14, <1>15, <1>16 DEF ListInv

LEMMA LinkKeeps ==
  ASSUME TypeOK, ListInv, Link
  PROVE  /\ forward' \in Forwards /\ writer' \in Insertion
         /\ writer'.node = writer.node /\ writer'.update = writer.update
         /\ \A i \in Levels : OnLevel(i)' = IF i = writer.at THEN OnLevel(i) \cup {writer.node}
                                                             ELSE OnLevel(i)
         /\ writer.node \notin OnLevel(writer.at) /\ writer.at \in Levels
         /\ \A m \in OnLevel(0) : KeyOf[m] # KeyOf[writer.node] \/ m = writer.node
         /\ Complete' = Complete
         /\ ListInv'
<1> DEFINE n == writer.node
           i == writer.at
           x == writer.update[i]
           T == [j \in Levels |-> IF j = i THEN OnLevel(j) \cup {n} ELSE OnLevel(j)]
<1>1. /\ writer.pc = "link"
      /\ forward' = [forward EXCEPT ![n][i] = forward[x][i], ![x][i] = n]
      /\ writer' = IF i = height[n] THEN [writer EXCEPT !.pc = "count"]
                                    ELSE [writer EXCEPT !.at = i + 1]
      /\ height' = height /\ level' = level /\ count' = count
  BY DEF Link
<1>2. writer # Idle
  BY <1>1 DEF Idle
<1>3. /\ writer \in Insertion /\ n \in Nodes /\ DOMAIN writer.update = 0..height[n]
      /\ height[n] \in Nat /\ height[n] <= MaxLevel /\ MaxLevel \in Nat /\ Levels \subseteq Nat
  BY <1>2, BusyWriter, ForwardTypes, LevelsAre
<1>4. i \in 0..height[n] /\ i \in Levels /\ i \in Nat /\ height[n] >= 1
  BY <1>2, <1>3, LevelsAre DEF ListInv, Inserting
<1>5. n \notin OnLevel(i)
  BY <1>1, <1>2, <1>4 DEF ListInv, Inserting
<1>6. LastBefore(OnLevel(i), KeyOf[n], x)
  <2>1. i \in i..height[n]
    BY <1>4
  <2> QED BY <1>1, <1>2, <2>1 DEF ListInv, Inserting
<1>7. \A m \in OnLevel(0) : KeyOf[m] # KeyOf[n] \/ m = n
  BY <1>2 DEF ListInv, Inserting
<1>8. \A j \in Levels : OnLevel(j) \subseteq OnLevel(0) /\ OnLevel(j) \subseteq Nodes
  BY LowestHasAll, LevelsAre DEF ListInv, Chained, Chain
<1>9. x \in Start /\ x # n /\ n \in Start /\ n # Header
  BY <1>3, <1>4, <1>5, <1>6, <1>8, SkipListAssumption DEF LastBefore, Start
<1>10. /\ forward' \in Forwards
       /\ forward'[n][i] = forward[x][i] /\ forward'[x][i] = n
       /\ \A y \in Start \ {n, x} : forward'[y] = forward[y]
       /\ \A y \in Start, j \in Levels \ {i} : forward'[y][j] = forward[y][j]
  <2> DEFINE g == [forward EXCEPT ![n] = [@ EXCEPT ![i] = forward[x][i]]]
  <2>1. forward' = [g EXCEPT ![x] = [@ EXCEPT ![i] = n]]
    BY <1>1
  <2>2. forward \in [Start -> [Levels -> Pointer]] /\ forward[x][i] \in Pointer /\ n \in Pointer
    BY <1>3, <1>4, <1>9, ForwardTypes DEF Forwards, Pointer
  <2>3. g \in [Start -> [Levels -> Pointer]] /\ g[x] = forward[x]
        /\ g[n] = [forward[n] EXCEPT ![i] = forward[x][i]]
        /\ \A y \in Start \ {n} : g[y] = forward[y]
    BY <1>4, <1>9, <2>2
  <2>4. [g[x] EXCEPT ![i] = n] \in [Levels -> Pointer]
    BY <1>4, <1>9, <2>2, <2>3
  <2> HIDE DEF g
  <2>5. /\ forward' \in [Start -> [Levels -> Pointer]]
        /\ forward'[x] = [forward[x] EXCEPT ![i] = n]
        /\ \A y \in Start \ {x} : forward'[y] = g[y]
    BY <1>9, <2>1, <2>3, <2>4
  <2>6. forward'[n] = [forward[n] EXCEPT ![i] = forward[x][i]]
    BY <1>9, <2>3, <2>5
  <2>7. forward[n] \in [Levels -> Pointer] /\ forward[x] \in [Levels -> Pointer]
    BY <1>9, <2>2
  <2>8. \A j \in Levels \ {i} : forward'[n][j] = forward[n][j] /\ forward'[x][j] = forward[x][j]
    BY <2>5, <2>6, <2>7
  <2>9. forward'[n][i] = forward[x][i] /\ forward'[x][i] = n
    BY <1>4, <2>5, <2>6, <2>7
  <2>10. \A y \in Start \ {n, x} : forward'[y] = forward[y]
    BY <2>3, <2>5
  <2> QED BY <2>5, <2>8, <2>9, <2>10 DEF Forwards
<1>11. \A j \in Levels : Chain(forward', j, T[j])
  <2>1. ASSUME NEW j \in Levels PROVE Chain(forward', j, T[j])
    <3>1. Chain(forward, j, OnLevel(j)) /\ OnLevel(j) \cup {Header} \subseteq Start
      BY <1>8, ForwardTypes DEF ListInv, Chained
    <3>2. CASE j = i
      <4>1. \A m \in OnLevel(i) : KeyOf[m] # KeyOf[n]
        BY <1>4, <1>5, <1>7, <1>8
      <4>2. \A y \in (OnLevel(i) \cup {Header}) \ {x} : forward'[y][i] = forward[y][i]
        BY <1>5, <1>9, <1>10, <3>1, <3>2
      <4>3. Chain(forward', i, OnLevel(i) \cup {n})
        BY <1>3, <1>5, <1>6, <1>10, <3>1, <3>2, <4>1, <4>2, Inserted
      <4> QED BY <3>2, <4>3
    <3>3. CASE j # i
      BY <1>10, <3>1, <3>3, Unchanged
    <3> QED BY <3>2, <3>3
  <2> QED BY <2>1
<1>12. \A j \in 1..MaxLevel : T[j] \subseteq T[j - 1]
  <2>1. ASSUME NEW j \in 1..MaxLevel PROVE T[j] \subseteq T[j - 1]
    <3>1. j \in Levels /\ j - 1 \in Levels
      BY LevelsAre
    <3>2. OnLevel(j) \subseteq OnLevel(j - 1)
      BY DEF ListInv, Chained
    <3>3. j = i => n \in OnLevel(j - 1)
      <4>1. j = i => j - 1 \in 0..height[n] /\ j - 1 < i
        BY <1>3, <1>4
      <4> QED BY <1>2, <4>1 DEF ListInv, Inserting
    <3> QED BY <3>1, <3>2, <3>3
  <2> QED BY <2>1
<1> HIDE DEF x
<1>13. \A j \in Levels : OnLevel(j)' = T[j]
  <2> HIDE DEF T
  <2> QED BY <1>10, <1>11, LevelsBecome
<1>14. Chained'
  <2> HIDE DEF T
  <2> QED BY <1>10, <1>11, <1>12, LevelsBecome
<1>15. /\ writer' \in Insertion /\ writer' # Idle
       /\ writer'.node = n /\ writer'.update = writer.update
       /\ \/ i = height[n] /\ writer'.pc = "count" /\ writer'.at = i
          \/ i # height[n] /\ writer'.pc = "link" /\ writer'.at = i + 1
  <2>1. i # height[n] => i + 1 \in Levels
    BY <1>3, <1>4, LevelsAre
  <2> QED BY <1>1, <1>3, <2>1 DEF Insertion, Idle
<1>16. \A j \in Levels : Whole(j)' = Whole(j)
  <2>1. ASSUME NEW j \in Levels PROVE Whole(j)' = Whole(j)
    <3>1. Whole(j) = OnLevel(j) \cup {m \in {n} : j <= height[m]}
      BY <1>2, BusyWriter
    <3>2. Whole(j)' = T[j] \cup {m \in {n} : j <= height[m]}
      BY <1>1, <1>3, <1>13, <1>15 DEF Whole
    <3> QED BY <1>4, <3>1, <3>2
  <2> QED BY <2>1
<1>17. Heights'
  <2>1. \A j \in Levels : \A m \in OnLevel(j)' : height'[m] >= j /\ height'[m] >= 1
    BY <1>1, <1>4, <1>13 DEF ListInv, Heights
  <2>2. ASSUME NEW m \in OnLevel(0)', NEW j \in 0..height'[m] PROVE m \in Whole(j)'
    <3>1. m \in OnLevel(0) \cup {n} /\ m \in Nodes
      BY <1>3, <1>8, <1>13, LevelsAre
    <3>2. j \in Levels /\ j \in 0..height[m]
      BY <1>1, <3>1, ForwardTypes, LevelsAre
    <3>3. m \in Whole(j)
      <4>1. CASE m \in OnLevel(0)
        BY <3>2, <4>1 DEF ListInv, Heights
      <4>2. CASE m = n
        BY <1>2, <3>2, <4>2, BusyWriter
      <4> QED BY <3>1, <4>1, <4>2
    <3> QED BY <1>16, <3>2, <3>3
  <2>3. \A j \in 1..MaxLevel : Whole(j)' # {} <=> j <= level'
    BY <1>1, <1>16, LevelsAre DEF ListInv, Heights
  <2> QED BY <2>1, <2>2, <2>3 DEF Heights
<1>18. Complete' = Complete
  <2>1. Complete = OnLevel(0) \ {n}
    BY <1>2, BusyWriter
  <2>2. Complete' = OnLevel(0)' \ {n}
    BY <1>15 DEF Complete
  <2> QED BY <1>13, <2>1, <2>2, LevelsAre
<1>19. Counted'
  BY <1>1, <1>18 DEF ListInv, Counted
<1>20. Inserting'
  <2>1. \A j \in 0..height[n] : j \in Levels
    BY <1>3, LevelsAre
  <2>2. \A m \in OnLevel(0)' \ {n} : KeyOf[m] # KeyOf[n]
    BY <1>7, <1>13, LevelsAre
  <2>3. ASSUME NEW j \in 0..height[n]
        PROVE  n \in OnLevel(j)' <=> writer'.pc = "count" \/ j < writer'.at
    <3>1. n \in OnLevel(j) <=> j < i
      BY <1>1, <1>2 DEF ListInv, Inserting
    <3>2. n \in OnLevel(j)' <=> j = i \/ n \in OnLevel(j)
      BY <1>13, <2>1
    <3> QED BY <1>4, <1>15, <3>1, <3>2
  <2>4. ASSUME NEW j \in writer'.at..height[n], writer'.pc = "link"
        PROVE  LastBefore(OnLevel(j)', KeyOf[n], writer.update[j])
    <3>1. j \in i..height[n] /\ j # i /\ j \in 0..height[n]
      BY <1>4, <1>15, <2>4
    <3>2. LastBefore(OnLevel(j), KeyOf[n], writer.update[j])
      BY <1>1, <1>2, <3>1 DEF ListInv, Inserting
    <3> QED BY <1>13, <2>1, <3>1, <3>2
  <2>5. writer'.at \in 0..height[n]
    BY <1>3, <1>4, <1>15
  <2> QED BY <1>1, <1>4, <1>15, <2>2, <2>3, <2>4, <2>5 DEF Inserting
<1> QED BY <1>4, <1>5, <1>7, <1>10, <1>13, <1>14, <1>15, <1>17, <1>18, <1>19, <1>20 DEF ListInv

LEMMA CountKeeps ==
  ASSUME TypeOK, ListInv, Count
  PROVE  /\ count' = count + 1 /\ count' \in 0..Cardinality(Nodes)
         /\ Complete' = OnLevel(0) /\ Complete \subseteq Complete'
         /\ ListInv'
<1> DEFINE n == writer.node
<1>1. /\ writer.pc = "count" /\ count' = count + 1 /\ writer' = Idle
      /\ forward' = forward /\ height' = height /\ level' = level
  BY DEF Count
<1>2. writer # Idle
  BY <1>1 DEF Idle
<1>3. n \in Nodes /\ height[n] \in Nat /\ height[n] <= MaxLevel /\ count \in Nat
  BY <1>2, BusyWriter, ForwardTypes
<1>4. \A i \in 0..height[n] : n \in OnLevel(i)
  BY <1>1, <1>2 DEF ListInv, Inserting
<1>5. \A i : OnLevel(i)' = OnLevel(i) /\ Whole(i)' = OnLevel(i)
  BY <1>1, LevelsStay DEF Whole
<1>6. Complete = OnLevel(0) \ {n} /\ Complete' = OnLevel(0) /\ n \in OnLevel(0)
  BY <1>1, <1>2, <1>3, <1>4, <1>5, BusyWriter DEF Complete
<1>7. \A i \in Levels : Whole(i) = OnLevel(i)
  <2>1. ASSUME NEW i \in Levels PROVE Whole(i) = OnLevel(i)
    <3>1. i <= height[n] => n \in OnLevel(i)
      BY <1>3, <1>4, LevelsAre
    <3> QED BY <1>2, <3>1, BusyWriter
  <2> QED BY <2>1
<1>8. Chained'
  BY <1>1, <1>5 DEF ListInv, Chained
<1>9. Heights'
  <2>1. \A i \in Levels : \A m \in OnLevel(i)' : height'[m] >= i /\ height'[m] >= 1
    BY <1>1, <1>5 DEF ListInv, Heights
  <2>2. ASSUME NEW m \in OnLevel(0)', NEW i \in 0..height'[m] PROVE m \in Whole(i)'
    <3>1. m \in OnLevel(0) /\ m \in Nodes /\ i \in 0..height[m]
      BY <1>1, <1>5, LevelsAre DEF ListInv, Chained, Chain
    <3>2. i \in Levels
      BY <3>1, ForwardTypes, LevelsAre
    <3> QED BY <1>5, <1>7, <3>1, <3>2 DEF ListInv, Heights
  <2>3. \A i \in 1..MaxLevel : Whole(i)' # {} <=> i <= level'
    BY <1>1, <1>5, <1>7, LevelsAre DEF ListInv, Heights
  <2> QED BY <2>1, <2>2, <2>3 DEF Heights
<1>10. Counted'
  <2>1. IsFiniteSet(OnLevel(0) \ {n}) /\ OnLevel(0) = (OnLevel(0) \ {n}) \cup {n}
    BY <1>6, LevelsFinite, LevelsAre DEF ListInv
  <2>2. Cardinality(OnLevel(0)) = Cardinality(OnLevel(0) \ {n}) + 1
    BY <2>1, FS_AddElement
  <2> QED BY <1>1, <1>6, <2>2 DEF ListInv, Counted
<1>11. count' \in 0..Cardinality(Nodes)
  <2>1. Cardinality(OnLevel(0)) <= Cardinality(Nodes) /\ Cardinality(OnLevel(0)) \in Nat
    BY LevelsFinite, LevelsAre DEF ListInv
  <2> QED BY <1>6, <1>10, <2>1, Cards DEF Counted
<1>12. Inserting'
  BY <1>1 DEF Inserting
<1> QED BY <1>1, <1>6, <1>8, <1>9, <1>10, <1>11, <1>12 DEF ListInv

(* Where the list's level ends when nodes T[i] are left of level i.        *)
LEMMA TopExists ==
  ASSUME NEW T, NEW l \in Nat
  PROVE  \E m \in 0..l : (m = 0 \/ T[m] # {}) /\ \A j \in m + 1..l : T[j] = {}
<1> DEFINE S == {d \in 0..l : l - d = 0 \/ T[l - d] # {}}
<1>1. l \in S /\ S \in SUBSET Nat
  OBVIOUS
<1>2. PICK d \in S : \A e \in S : d <= e
  BY <1>1, LeastExists
<1>3. ASSUME NEW j \in (l - d) + 1..l PROVE T[j] = {}
  <2>1. l - j \in 0..l /\ ~(d <= l - j) /\ l - (l - j) = j
    BY <1>2
  <2> QED BY <1>2, <2>1
<1>4. l - d \in 0..l /\ (l - d = 0 \/ T[l - d] # {})
  BY <1>2
<1> HIDE DEF S
<1> QED BY <1>3, <1>4

LEMMA DeleteKeeps ==
  ASSUME TypeOK, ListInv, NEW k \in Keys, Delete(k)
  PROVE  /\ forward' \in Forwards /\ level' \in Levels /\ count' \in 0..Cardinality(Nodes)
         /\ writer' = writer
         /\ Found(k) \in OnLevel(0)
         /\ \A i \in Levels : OnLevel(i)' = OnLevel(i) \ {Found(k)}
         /\ ListInv'
<1> DEFINE n == Found(k)
           u == Update(k)
           on == {i \in 0..level : \A j \in 0..i : forward[u[j]][j] = n}
           T == [i \in Levels |-> OnLevel(i) \ {n}]
<1>1. /\ writer = Idle /\ Present(k)
      /\ forward' = [x \in Start |-> [i \in Levels |->
                       IF i \in on /\ u[i] = x THEN forward[n][i] ELSE forward[x][i]]]
      /\ level' = CHOOSE l \in 0..level :
                    /\ l = 0 \/ forward'[Header][l] # NULL
                    /\ \A m \in l + 1..level : forward'[Header][m] = NULL
      /\ count' = count - 1 /\ height' = height /\ writer' = writer
  BY DEF Delete
<1>2. k \in Nat
  BY SkipListAssumption DEF Keys, Range
<1>3. n \in OnLevel(0) /\ KeyOf[n] = k
  BY <1>1, <1>2, FoundIs DEF ListInv
<1>4. \A i \in Levels : /\ OnLevel(i) \subseteq OnLevel(0) /\ OnLevel(i) \subseteq Nodes
                        /\ Chain(forward, i, OnLevel(i))
                        /\ Whole(i) = OnLevel(i)
  BY <1>1, LowestHasAll, IdleWriter, LevelsAre DEF ListInv, Chained, Chain
<1>5. /\ n \in Nodes /\ height[n] \in Nat /\ height[n] <= MaxLevel /\ height[n] >= 1
      /\ MaxLevel \in Nat /\ level \in Nat /\ level <= MaxLevel /\ Levels = 0..MaxLevel
      /\ \A m \in Nodes : KeyOf[m] \in Nat
  BY <1>3, <1>4, ForwardTypes, LevelsAre, KeysAre DEF ListInv, Heights
<1>6. \A i \in Levels : n \in OnLevel(i) <=> i <= height[n]
  <2>1. ASSUME NEW i \in Levels, i <= height[n] PROVE n \in OnLevel(i)
    BY <1>3, <1>4, <1>5, <2>1 DEF ListInv, Heights
  <2>2. ASSUME NEW i \in Levels, n \in OnLevel(i) PROVE i <= height[n]
    BY <1>5, <2>2 DEF ListInv, Heights
  <2> QED BY <2>1, <2>2
<1>7. height[n] <= level
  <2>1. height[n] \in 1..MaxLevel /\ height[n] \in Levels
    BY <1>5
  <2>2. Whole(height[n]) # {}
    BY <1>4, <1>6, <2>1, <1>5
  <2> QED BY <2>1, <2>2 DEF ListInv, Heights
<1>8. \A i \in 0..level : LastBefore(OnLevel(i), KeyOf[n], u[i])
  BY <1>2, <1>3, UpdateIs DEF ListInv
<1>9. \A i \in 0..level : i \in Levels
  BY <1>5
<1> HIDE DEF u
<1>10. \A i \in 0..level : forward[u[i]][i] = n <=> n \in OnLevel(i)
  <2>1. ASSUME NEW i \in 0..level PROVE forward[u[i]][i] = n <=> n \in OnLevel(i)
    <3>1. LastBefore(OnLevel(i), KeyOf[n], u[i]) /\ Chain(forward, i, OnLevel(i))
      BY <1>4, <1>8, <1>9
    <3>2. Follows(OnLevel(i), u[i], forward[u[i]][i])
      BY <3>1 DEF LastBefore, Chain
    <3>3. n # NULL /\ n # Header /\ After(u[i], n)
      BY <1>5, <3>1, SkipListAssumption DEF LastBefore, After
    <3>4. ASSUME n \in OnLevel(i) PROVE forward[u[i]][i] = n
      <4> DEFINE y == forward[u[i]][i]
      <4>1. y \in OnLevel(i) /\ After(u[i], y) /\ KeyOf[y] <= KeyOf[n]
        BY <3>2, <3>3, <3>4 DEF Follows
      <4>2. y \in Nodes /\ y # Header
        BY <1>4, <1>9, <4>1, SkipListAssumption
      <4>3. ~(KeyOf[y] < KeyOf[n])
        BY <1>4, <1>5, <1>9, <3>1, <4>1, <4>2 DEF LastBefore, After
      <4> QED BY <1>5, <3>1, <3>4, <4>1, <4>2, <4>3 DEF Chain
    <3>5. ASSUME forward[u[i]][i] = n PROVE n \in OnLevel(i)
      BY <3>2, <3>3, <3>5 DEF Follows
    <3> QED BY <3>4, <3>5
  <2> QED BY <2>1
<1>11. \A i \in Levels : i \in on <=> n \in OnLevel(i)
  <2>1. ASSUME NEW i \in Levels, n \in OnLevel(i) PROVE i \in on
    <3>1. i \in 0..level /\ \A j \in 0..i : j \in 0..level /\ n \in OnLevel(j)
      BY <1>5, <1>6, <1>7, <2>1
    <3> QED BY <1>10, <3>1
  <2>2. ASSUME NEW i \in Levels, i \in on PROVE n \in OnLevel(i)
    <3>1. i \in 0..level /\ i \in 0..i
      BY <2>2, <1>5
    <3> QED BY <1>10, <2>2, <3>1
  <2> QED BY <2>1, <2>2
<1> HIDE DEF on
<1>12. /\ forward' \in Forwards
       /\ \A x \in Start, i \in Levels : forward'[x][i] =
            IF n \in OnLevel(i) /\ u[i] = x THEN forward[n][i] ELSE forward[x][i]
  <2>1. \A x \in Start, i \in Levels : forward[x][i] \in Pointer
    BY ForwardTypes
  <2>2. n \in Start
    BY <1>5 DEF Start
  <2>3. \A x \in Start, i \in Levels :
          (IF i \in on /\ u[i] = x THEN forward[n][i] ELSE forward[x][i]) \in Pointer
    BY <2>1, <2>2
  <2> HIDE DEF n
  <2> QED BY <1>1, <1>11, <2>3 DEF Forwards
<1>13. \A i \in Levels : Chain(forward', i, T[i])
  <2>1. ASSUME NEW i \in Levels PROVE Chain(forward', i, T[i])
    <3>1. Chain(forward, i, OnLevel(i)) /\ OnLevel(i) \cup {Header} \subseteq Start
      BY <1>4, ForwardTypes
    <3>2. CASE n \in OnLevel(i)
      <4>1. i \in 0..level
        BY <1>5, <1>6, <1>7, <3>2
      <4>2. LastBefore(OnLevel(i), KeyOf[n], u[i]) /\ u[i] \in Start
        BY <1>8, <3>1, <4>1 DEF LastBefore
      <4>3. forward'[u[i]][i] = forward[n][i]
        BY <1>12, <3>2, <4>2
      <4>4. \A y \in (OnLevel(i) \cup {Header}) \ {u[i]} : forward'[y][i] = forward[y][i]
        BY <1>12, <3>1
      <4> HIDE DEF n
      <4>5. Chain(forward', i, OnLevel(i) \ {n})
        BY <3>1, <3>2, <4>2, <4>3, <4>4, Removed
      <4> QED BY <4>5
    <3>3. CASE n \notin OnLevel(i)
      <4>1. T[i] = OnLevel(i)
        BY <3>3
      <4> HIDE DEF T
      <4> QED BY <1>12, <3>1, <3>3, <4>1, Unchanged
    <3> QED BY <3>2, <3>3
  <2> QED BY <2>1
<1>14. \A i \in 1..MaxLevel : T[i] \subseteq T[i - 1]
  <2>1. \A i \in 1..MaxLevel : i \in Levels /\ i - 1 \in Levels
    BY LevelsAre
  <2> QED BY <2>1 DEF ListInv, Chained
<1>15. \A i \in Levels : OnLevel(i)' = T[i] /\ Whole(i)' = T[i]
  <2>1. \A i \in Levels : OnLevel(i)' = T[i]
    <3> HIDE DEF T
    <3> QED BY <1>12, <1>13, LevelsBecome
  <2>2. writer' = Idle
    BY <1>1
  <2> QED BY <2>1, <2>2 DEF Whole
<1>16. Chained'
  <2> HIDE DEF T
  <2> QED BY <1>12, <1>13, <1>14, LevelsBecome
<1>17. \A i \in Levels : forward'[Header][i] = NULL <=> T[i] = {}
  <2>1. ASSUME NEW i \in Levels PROVE forward'[Header][i] = NULL <=> T[i] = {}
    <3>1. Follows(T[i], Header, forward'[Header][i]) /\ T[i] \subseteq Nodes
      BY <1>13 DEF Chain
    <3> QED BY <3>1, SkipListAssumption DEF Follows, After
  <2> QED BY <2>1
<1>18. level' \in 0..level /\ (level' = 0 \/ T[level'] # {}) /\ \A j \in level' + 1..level : T[j] = {}
  <2> DEFINE Q(l) == /\ l = 0 \/ forward'[Header][l] # NULL
                     /\ \A m \in l + 1..level : forward'[Header][m] = NULL
  <2>1. \A l \in 0..level : l \in Levels /\ \A m \in l + 1..level : m \in Levels
    BY <1>5
  <2>2. \A l \in 0..level : Q(l) <=> /\ l = 0 \/ T[l] # {}
                                     /\ \A m \in l + 1..level : T[m] = {}
    <3> HIDE DEF T
    <3> QED BY <1>17, <2>1
  <2>3. \E l \in 0..level : Q(l)
    <3> HIDE DEF T, Q
    <3> QED BY <1>5, <2>2, TopExists
  <2>4. level' = CHOOSE l \in 0..level : Q(l)
    BY <1>1
  <2> HIDE DEF Q, T
  <2>5. level' \in 0..level /\ Q(level')
    BY <2>3, <2>4
  <2> QED BY <2>2, <2>5
<1>19. level' \in Levels /\ level' \in Nat /\ level' <= level
  BY <1>5, <1>18
<1>20. Heights'
  <2>1. \A i \in Levels : \A m \in OnLevel(i)' : height'[m] >= i /\ height'[m] >= 1
    BY <1>1, <1>15 DEF ListInv, Heights
  <2>2. ASSUME NEW m \in OnLevel(0)', NEW i \in 0..height'[m] PROVE m \in Whole(i)'
    <3>1. m \in OnLevel(0) /\ m # n /\ m \in Nodes
      BY <1>4, <1>15, LevelsAre
    <3>2. i \in 0..height[m] /\ i \in Levels
      BY <1>1, <3>1, ForwardTypes, LevelsAre
    <3>3. m \in OnLevel(i)
      BY <1>4, <3>1, <3>2 DEF ListInv, Heights
    <3> QED BY <1>15, <3>1, <3>2, <3>3
  <2>3. ASSUME NEW i \in 1..MaxLevel PROVE Whole(i)' # {} <=> i <= level'
    <3>1. i \in Levels /\ i \in Nat /\ i >= 1
      BY LevelsAre
    <3>2. CASE i <= level'
      <4>1. level' # 0 /\ T[level'] # {} /\ i \in 0..level'
        BY <1>18, <1>19, <3>1, <3>2
      <4>2. T[level'] \subseteq T[i]
        <5> HIDE DEF T
        <5> QED BY <1>14, <1>19, <4>1, Nested
      <4> HIDE DEF T
      <4> QED BY <1>15, <3>1, <3>2, <4>1, <4>2
    <3>3. CASE ~(i <= level')
      <4>1. CASE i <= level
        <5>1. i \in level' + 1..level
          <6>1. level \in Nat /\ level' \in Nat
            BY <1>5, <1>19
          <6> HIDE DEF T, n
          <6>2. i \in Nat /\ i > level'
            BY <3>1, <3>3, <6>1
          <6>3. \A a, b, c \in Nat : a > b /\ a <= c => a \in b + 1..c
            OBVIOUS
          <6> QED BY <4>1, <6>1, <6>2, <6>3
        <5> HIDE DEF T
        <5> QED BY <1>15, <1>18, <3>1, <3>3, <5>1
      <4>2. CASE ~(i <= level)
        <5>1. OnLevel(i) = {}
          BY <1>4, <3>1, <4>2 DEF ListInv, Heights
        <5> QED BY <1>15, <3>1, <3>3, <5>1
      <4> QED BY <4>1, <4>2
    <3> QED BY <3>2, <3>3
  <2> QED BY <2>1, <2>2, <2>3 DEF Heights
<1>21. Counted' /\ count' \in 0..Cardinality(Nodes)
  <2>1. Complete = OnLevel(0) /\ Complete' = OnLevel(0) \ {n}
    BY <1>1, <1>15, LevelsAre DEF Complete
  <2>2. IsFiniteSet(OnLevel(0)) /\ Cardinality(OnLevel(0)) <= Cardinality(Nodes)
        /\ Cardinality(OnLevel(0) \ {n}) \in Nat /\ Cardinality(OnLevel(0)) \in Nat
        /\ Cardinality(OnLevel(0) \ {n}) <= Cardinality(Nodes)
    BY LevelsFinite, LevelsAre DEF ListInv
  <2>3. Cardinality(OnLevel(0) \ {n}) = Cardinality(OnLevel(0)) - 1
    BY <1>3, <2>2, FS_RemoveElement
  <2> QED BY <1>1, <2>1, <2>2, <2>3, Cards DEF ListInv, Counted
<1>22. Inserting'
  BY <1>1 DEF Inserting
<1> QED BY <1>1, <1>3, <1>12, <1>15, <1>16, <1>19, <1>20, <1>21, <1>22 DEF ListInv

-----------------------------------------------------------------------------
(* The reader: what its steps rest on.                                     *)

LEMMA BusyReader ==
  ASSUME TypeOK, reader # Idle
  PROVE  reader \in Reading
BY DEF TypeOK

LEMMA ReadingPc == ASSUME reader.pc # "idle" PROVE reader # Idle
BY DEF Idle

LEMMA ListKept ==
  ASSUME UNCHANGED list, ListInv
  PROVE  /\ \A i : OnLevel(i)' = OnLevel(i)
         /\ \A x : Beyond(x)' = Beyond(x) /\ UpTo(x)' = UpTo(x)
         /\ Complete' = Complete /\ count' = count
         /\ ListInv'
<1>1. /\ forward' = forward /\ height' = height /\ level' = level
      /\ count' = count /\ writer' = writer
  BY DEF list
<1>2. \A i : OnLevel(i)' = OnLevel(i) /\ Whole(i)' = Whole(i)
  BY <1>1, LevelsStay DEF Whole
<1>3. Complete' = Complete
  BY <1>1, <1>2 DEF Complete
<1>4. Chained' /\ Heights' /\ Counted' /\ Inserting'
  BY <1>1, <1>2, <1>3 DEF ListInv, Chained, Heights, Counted, Inserting
<1> QED BY <1>1, <1>2, <1>3, <1>4 DEF ListInv, Beyond, UpTo

\* The pointer a reader loads.
LEMMA NextNode ==
  ASSUME TypeOK, ListInv, NEW i \in Levels, NEW x \in OnLevel(i) \cup {Header}
  PROVE  LET y == forward[x][i] IN
         /\ y \in OnLevel(i) \cup {NULL} /\ NULL \notin OnLevel(i) /\ Header \notin OnLevel(i)
         /\ OnLevel(i) \subseteq OnLevel(0) /\ OnLevel(i) \subseteq Nodes
         /\ y # NULL => After(x, y) /\ \A z \in OnLevel(i) : After(x, z) => KeyOf[y] <= KeyOf[z]
         /\ y = NULL => \A z \in OnLevel(i) : ~After(x, z)
<1>1. Chain(forward, i, OnLevel(i))
  BY DEF ListInv, Chained
<1>2. Follows(OnLevel(i), x, forward[x][i]) /\ OnLevel(i) \subseteq Nodes
  BY <1>1 DEF Chain
<1>3. NULL \notin OnLevel(i) /\ Header \notin OnLevel(i) /\ OnLevel(i) \subseteq OnLevel(0)
  BY <1>2, SkipListAssumption, LowestHasAll, LevelsAre DEF ListInv
<1> QED BY <1>2, <1>3 DEF Follows

LEMMA SplitIs ==
  ASSUME ListInv, NEW x
  PROVE  /\ IsFiniteSet(Beyond(x)) /\ IsFiniteSet(UpTo(x))
         /\ Cardinality(Beyond(x)) \in Nat /\ Cardinality(UpTo(x)) \in Nat
BY LevelsFinite, LevelsAre DEF ListInv, Beyond, UpTo

\* One step along level 0.
LEMMA StepCounts ==
  ASSUME TypeOK, ListInv, NEW x \in OnLevel(0) \cup {Header}
  PROVE  LET y == forward[x][0] IN
         /\ y = NULL => Cardinality(Beyond(x)) = 0
         /\ y # NULL => /\ Cardinality(Beyond(y)) = Cardinality(Beyond(x)) - 1
                        /\ Cardinality(UpTo(y)) = Cardinality(UpTo(x)) + 1
<1> DEFINE y == forward[x][0]
<1>1. /\ OnLevel(0) \subseteq Nodes /\ \A z \in OnLevel(0) : KeyOf[z] \in Nat /\ z # Header
      /\ \A z, w \in OnLevel(0) : KeyOf[z] = KeyOf[w] => z = w
  BY KeysAre, SkipListAssumption, LevelsAre DEF ListInv, Chained, Chain
<1>2. CASE y = NULL
  <2>1. Beyond(x) = {}
    BY <1>2, NextNode, LevelsAre DEF Beyond
  <2> QED BY <1>2, <2>1, FS_EmptySet
<1>3. CASE y # NULL
  <2>1. /\ y \in OnLevel(0) /\ After(x, y)
        /\ \A z \in OnLevel(0) : After(x, z) => KeyOf[y] <= KeyOf[z]
    BY <1>3, NextNode, LevelsAre
  <2>2. \A z \in OnLevel(0) : After(x, z) <=> z = y \/ After(y, z)
    BY <1>1, <2>1 DEF After
  <2>3. ~After(y, y)
    BY <1>1, <2>1 DEF After
  <2> HIDE DEF y
  <2>4. Beyond(x) = Beyond(y) \cup {y} /\ y \notin Beyond(y)
    BY <2>1, <2>2, <2>3 DEF Beyond
  <2>5. UpTo(y) = UpTo(x) \cup {y} /\ y \notin UpTo(x)
    BY <2>1, <2>2, <2>3 DEF UpTo
  <2>6. /\ Cardinality(Beyond(x)) = Cardinality(Beyond(y)) + 1
        /\ Cardinality(UpTo(y)) = Cardinality(UpTo(x)) + 1
    BY <2>4, <2>5, SplitIs, FS_AddElement
  <2> QED BY <1>3, <2>6, SplitIs DEF y
<1> QED BY <1>2, <1>3

\* What comes up to a later node, and more.
LEMMA LaterCounts ==
  ASSUME ListInv, NEW x \in OnLevel(0), NEW y \in OnLevel(0), Newer(y, x)
  PROVE  Cardinality(UpTo(x)) + 1 <= Cardinality(UpTo(y))
<1>1. OnLevel(0) \subseteq Nodes /\ \A z \in OnLevel(0) : KeyOf[z] \in Nat /\ z # Header
  BY KeysAre, SkipListAssumption, LevelsAre DEF ListInv, Chained, Chain
<1>2. UpTo(x) \cup {y} \subseteq UpTo(y) /\ y \notin UpTo(x)
  BY <1>1 DEF UpTo, After, Newer
<1>3. Cardinality(UpTo(x) \cup {y}) = Cardinality(UpTo(x)) + 1
  BY <1>2, SplitIs, FS_AddElement
<1> QED BY <1>2, <1>3, SplitIs, FS_Subset

\* Insertions do not disturb a reader.
LEMMA GrowthKeeps ==
  ASSUME TypeOK, ListInv, ListInv', ReadInv, reader' = reader,
         count \in Nat, count' \in Nat, count <= count',
         Complete \subseteq Complete', \A i \in Levels : OnLevel(i) \subseteq OnLevel(i)'
  PROVE  ReadInv'
<1>1. OnLevel(0) \subseteq OnLevel(0)'
  BY LevelsAre
<1>2. IsFiniteSet(OnLevel(0)')
  <2>1. Chain(forward', 0, OnLevel(0)')
    BY LevelsAre DEF ListInv, Chained
  <2> QED BY <2>1, SkipListAssumption, FS_Subset DEF Chain
<1>3. \A x : /\ Cardinality(Beyond(x)) <= Cardinality(Beyond(x)')
             /\ Cardinality(UpTo(x)) <= Cardinality(UpTo(x)')
             /\ Cardinality(Beyond(x)) \in Nat /\ Cardinality(Beyond(x)') \in Nat
             /\ Cardinality(UpTo(x)) \in Nat /\ Cardinality(UpTo(x)') \in Nat
  <2> TAKE x
  <2>1. Beyond(x) \subseteq Beyond(x)' /\ UpTo(x) \subseteq UpTo(x)'
    BY <1>1 DEF Beyond, UpTo
  <2>2. Beyond(x)' \subseteq OnLevel(0)' /\ UpTo(x)' \subseteq OnLevel(0)'
    BY DEF Beyond, UpTo
  <2>3. IsFiniteSet(Beyond(x)') /\ IsFiniteSet(UpTo(x)')
    BY <1>2, <2>2, FS_Subset
  <2> QED BY <2>1, <2>3, FS_Subset, FS_CardinalityType
<1>4. SeenStays'
  BY DEF ReadInv, SeenStays
<1>5. reader # Idle =>
        /\ reader.lev \in Levels /\ reader.pass \in Int /\ reader.cnt \in Nat
        /\ reader.seen \in SUBSET Nodes /\ reader.got \in Seq(Nodes)
  <2>1. -1..Cardinality(Nodes) \subseteq Int /\ 0..MaxItems \subseteq Nat
    BY Cards, SkipListAssumption
  <2> QED BY <2>1, BusyReader DEF Reading
<1>6. reader # Idle => Cardinality(reader.seen) \in Nat
  BY <1>5, SkipListAssumption, FS_Subset, FS_CardinalityType
<1>7. Descending'
  <2>1. SUFFICES ASSUME reader.pc \in {"level", "descend", "land"} PROVE Descending'
    BY DEF Descending
  <2>2. OnLevel(reader.lev) \subseteq OnLevel(reader.lev)'
    BY <1>5, <2>1, ReadingPc
  <2> QED BY <2>1, <2>2 DEF ReadInv, Descending
<1>8. Passing'
  <2>1. SUFFICES ASSUME reader.pc \in {"again", "skip"} PROVE Passing'
    BY DEF Passing
  <2>2. reader.pass \in Int /\ reader.cnt \in Nat /\ Cardinality(reader.seen) \in Nat
    BY <1>5, <1>6, <2>1, ReadingPc
  <2>3. reader.pc = "skip" =>
           /\ reader.pass + reader.cnt <= Cardinality(Beyond(reader.cur)')
           /\ Cardinality(reader.seen) <=
                  Cardinality(UpTo(reader.cur)') + reader.pass + reader.cnt
    BY <1>3, <2>2 DEF ReadInv, Passing
  <2>4. reader.pc = "again" => reader.cnt <= count'
    BY <2>2 DEF ReadInv, Passing
  <2> QED BY <1>1, <2>1, <2>3, <2>4 DEF ReadInv, Passing, Beyond, UpTo
<1>9. Collecting'
  <2>1. SUFFICES ASSUME reader.pc = "collect" PROVE Collecting'
    BY DEF Collecting
  <2>2. reader.cnt \in Nat /\ Cardinality(reader.seen) \in Nat
    BY <1>5, <1>6, <2>1, ReadingPc
  <2>3. reader.kind = "last" /\ reader.cnt > 0 =>
             reader.cur # NULL /\ reader.cnt <= Cardinality(Beyond(reader.cur)') + 1
    BY <1>3, <2>1, <2>2 DEF ReadInv, Collecting
  <2>4. reader.kind = "last" /\ reader.got = <<>> =>
             Cardinality(reader.seen) < Cardinality(UpTo(reader.cur)') + reader.cnt
    BY <1>3, <2>1, <2>2 DEF ReadInv, Collecting
  <2> QED BY <1>1, <2>1, <2>3, <2>4 DEF ReadInv, Collecting, Beyond, UpTo
<1>10. Collected'
  <2>1. SUFFICES ASSUME reader.pc \in {"collect", "done"} PROVE Collected'
    BY DEF Collected
  <2>2. reader.cnt \in Nat /\ Cardinality(reader.seen) \in Nat
    BY <1>5, <1>6, <2>1, ReadingPc
  <2> DEFINE last == reader.got[Len(reader.got)]
  <2>3. reader.got # <<>> /\ reader.kind = "last" =>
           Cardinality(reader.seen) <= Cardinality(UpTo(last)') + reader.cnt
    BY <1>3, <2>1, <2>2 DEF ReadInv, Collected
  <2>4. reader.got # <<>> => \A i \in DOMAIN reader.got : reader.got[i] \in OnLevel(0)'
    BY <1>1, <2>1 DEF ReadInv, Collected
  <2> QED BY <2>1, <2>3, <2>4 DEF ReadInv, Collected, UpTo
<1> QED BY <1>4, <1>7, <1>8, <1>9, <1>10 DEF ReadInv

-----------------------------------------------------------------------------
(* The reader's steps.                                                     *)

LEMMA MinimumIs ==
  ASSUME NEW a \in Nat, NEW b \in Nat, NEW c \in Nat
  PROVE  LET m == Minimum({a, b, c}) IN
         m \in Nat /\ m <= a /\ m <= b /\ m <= c
<1>1. \E x \in {a, b, c} : \A y \in {a, b, c} : x <= y
  OBVIOUS
<1>2. Minimum({a, b, c}) \in {a, b, c} /\ \A y \in {a, b, c} : Minimum({a, b, c}) <= y
  BY <1>1 DEF Minimum
<1> QED BY <1>2

LEMMA BeginKeeps ==
  ASSUME TypeOK, ListInv, ReadInv, NEW kind \in {"search", "from", "last"},
         NEW key \in Keys \cup {0}, NEW num \in 0..MaxItems, Begin(kind, key, num)
  PROVE  reader' \in Reading /\ ReadInv'
<1> DEFINE want == IF kind = "search" THEN 0 ELSE Minimum({num, MaxItems, count})
<1>1. /\ reader' = [pc |-> IF kind # "last" THEN "level"
                           ELSE IF want = 0 THEN "done" ELSE "again",
                    kind |-> kind, key |-> key, want |-> want, cnt |-> want,
                    pass |-> 0, cur |-> Header, lev |-> 0, got |-> <<>>,
                    seen |-> Complete]
      /\ UNCHANGED list
  BY DEF Begin
<1>2. want \in 0..MaxItems /\ (kind # "search" => want <= count) /\ want \in Nat
  BY MinimumIs, ForwardTypes, SkipListAssumption
<1>3. Complete \subseteq Nodes
  BY LevelsAre DEF ListInv, Chained, Chain, Complete
<1> HIDE DEF want
<1>4. /\ 0 \in -1..Cardinality(Nodes) /\ Header \in Start \cup {NULL} /\ 0 \in Levels
      /\ <<>> \in Seq(Nodes)
  BY Cards, LevelsAre DEF Start
<1>5. reader' \in Reading
  BY <1>1, <1>2, <1>3, <1>4 DEF Reading
<1>6. Complete' = Complete /\ count' = count
  BY <1>1, ListKept
<1>7. SeenStays'
  BY <1>1, <1>6 DEF SeenStays
<1>8. Descending'
  BY <1>1 DEF Descending
<1>9. Passing'
  BY <1>1, <1>2, <1>6 DEF Passing
<1>10. Collecting' /\ Collected'
  BY <1>1, <1>2 DEF Collecting, Collected
<1> QED BY <1>5, <1>7, <1>8, <1>9, <1>10 DEF ReadInv

(* What a step of a reader leaves alone.                                   *)
LEMMA ReaderIs ==
  ASSUME TypeOK, ListInv, ReadInv, reader.pc # "idle"
  PROVE  /\ reader \in Reading /\ reader # Idle
         /\ reader.cnt \in Nat /\ reader.pass \in Int /\ reader.pass >= -1 /\ reader.key \in Nat
         /\ reader.seen \subseteq Complete /\ reader.seen \subseteq OnLevel(0)
         /\ Cardinality(reader.seen) \in Nat /\ Cardinality(reader.seen) <= count
         /\ count <= Cardinality(OnLevel(0)) /\ count \in Nat
         /\ OnLevel(0) \subseteq Nodes
<1>1. reader \in Reading /\ reader # Idle
  BY BusyReader, ReadingPc
<1>2. /\ reader.cnt \in Nat /\ reader.pass \in Int /\ reader.pass >= -1 /\ reader.key \in Nat
  BY <1>1, Cards, SkipListAssumption DEF Reading, Keys, Range
<1>3. reader.seen \subseteq Complete /\ Complete \subseteq OnLevel(0)
  BY <1>1 DEF ReadInv, SeenStays, Complete
<1>4. /\ OnLevel(0) \subseteq Nodes /\ IsFiniteSet(Complete)
      /\ Cardinality(Complete) <= Cardinality(OnLevel(0)) /\ Cardinality(Complete) \in Nat
  BY <1>3, LevelsFinite, LevelsAre DEF ListInv
<1>5. Cardinality(reader.seen) \in Nat /\ Cardinality(reader.seen) <= Cardinality(Complete)
  BY <1>3, <1>4, FS_Subset, FS_CardinalityType
<1> QED BY <1>1, <1>2, <1>3, <1>4, <1>5 DEF ListInv, Counted

LEMMA LoadCountKeeps ==
  ASSUME TypeOK, ListInv, ReadInv, LoadCount
  PROVE  reader' \in Reading /\ ReadInv'
<1>1. /\ reader.pc = "again" /\ UNCHANGED list
      /\ reader' = [reader EXCEPT !.pc = "skip", !.pass = count - reader.cnt]
  BY DEF LoadCount
<1>2. /\ reader \in Reading /\ reader # Idle /\ reader.cnt \in Nat /\ count \in Nat
      /\ Cardinality(reader.seen) \in Nat /\ Cardinality(reader.seen) <= count
      /\ count <= Cardinality(OnLevel(0)) /\ reader.seen \subseteq Complete
  BY <1>1, ReaderIs
<1>3. /\ reader.kind = "last" /\ reader.got = <<>> /\ reader.cnt = reader.want
      /\ reader.cnt >= 1 /\ reader.cur = Header /\ reader.cnt <= count
  BY <1>1 DEF ReadInv, Passing
<1>4. /\ count - reader.cnt \in 0..Cardinality(Nodes)
      /\ count - reader.cnt \in -1..Cardinality(Nodes)
  BY <1>2, <1>3, Cards DEF TypeOK
<1>5. reader' \in Reading
  BY <1>1, <1>2, <1>4 DEF Reading
<1>6. /\ reader'.pc = "skip" /\ reader'.pass = count - reader.cnt
      /\ reader'.kind = reader.kind /\ reader'.got = reader.got /\ reader'.cnt = reader.cnt
      /\ reader'.want = reader.want /\ reader'.cur = reader.cur /\ reader'.seen = reader.seen
  BY <1>1, <1>2 DEF Reading
<1>7. Complete' = Complete /\ \A x : Beyond(x)' = Beyond(x) /\ UpTo(x)' = UpTo(x)
  BY <1>1, ListKept
<1>8. Beyond(Header) = OnLevel(0) /\ UpTo(Header) = {}
  BY DEF Beyond, UpTo, After
<1>9. Passing'
  <2>1. Cardinality(UpTo(Header)) = 0
    BY <1>8, FS_EmptySet
  <2>2. Beyond(reader.cur)' = OnLevel(0) /\ UpTo(reader.cur)' = UpTo(Header)
    BY <1>3, <1>6, <1>7, <1>8
  <2>3. reader'.pass # -1 /\ reader'.pass + reader'.cnt = count
    BY <1>2, <1>4, <1>6
  <2>4. Cardinality(reader'.seen) <= 0 + reader'.pass + reader'.cnt
    BY <1>2, <1>4, <1>6
  <2> QED BY <1>2, <1>3, <1>6, <2>1, <2>2, <2>3, <2>4 DEF Passing
<1>10. SeenStays' /\ Descending' /\ Collecting' /\ Collected'
  BY <1>2, <1>6, <1>7 DEF SeenStays, Descending, Collecting, Collected
<1> QED BY <1>5, <1>9, <1>10 DEF ReadInv

LEMMA SkipKeeps ==
  ASSUME TypeOK, ListInv, ReadInv, Skip
  PROVE  reader' \in Reading /\ ReadInv'
<1> DEFINE x == reader.cur
           y == forward[x][0]
<1>1. /\ reader.pc = "skip" /\ UNCHANGED list
      /\ \/ reader.pass >= 0 /\ reader' = [reader EXCEPT !.cur = y, !.pass = @ - 1]
         \/ ~(reader.pass >= 0) /\ reader' = [reader EXCEPT !.pc = "collect"]
  BY DEF Skip
<1>2. /\ reader \in Reading /\ reader # Idle /\ reader.cnt \in Nat
      /\ reader.pass \in Int /\ reader.pass >= -1
      /\ Cardinality(reader.seen) \in Nat /\ reader.seen \subseteq Complete
      /\ OnLevel(0) \subseteq Nodes
  BY <1>1, ReaderIs
<1>3. /\ reader.kind = "last" /\ reader.got = <<>> /\ reader.cnt = reader.want
      /\ reader.cnt >= 1 /\ x \in OnLevel(0) \cup {Header}
      /\ reader.pass = -1 => x # Header
      /\ reader.pass + reader.cnt <= Cardinality(Beyond(x))
      /\ Cardinality(reader.seen) <= Cardinality(UpTo(x)) + reader.pass + reader.cnt
  BY <1>1 DEF ReadInv, Passing
<1>4. Complete' = Complete /\ OnLevel(0)' = OnLevel(0)
      /\ \A z : Beyond(z)' = Beyond(z) /\ UpTo(z)' = UpTo(z)
  BY <1>1, ListKept
<1>5. CASE reader.pass >= 0
  <2>1. reader' = [reader EXCEPT !.cur = y, !.pass = @ - 1]
    BY <1>1, <1>5
  <2>2. y # NULL /\ y \in OnLevel(0) /\ y \in Nodes /\ y # Header
    BY <1>2, <1>3, <1>5, StepCounts, NextNode, LevelsAre
  <2>3. /\ Cardinality(Beyond(y)) = Cardinality(Beyond(x)) - 1
        /\ Cardinality(UpTo(y)) = Cardinality(UpTo(x)) + 1
    BY <1>3, <2>2, StepCounts
  <2>4. reader.pass - 1 \in -1..Cardinality(Nodes)
    BY <1>2, <1>5, Cards DEF Reading
  <2>5. reader' \in Reading
    BY <1>2, <2>1, <2>2, <2>4 DEF Reading, Start
  <2>6. /\ reader'.pc = "skip" /\ reader'.pass = reader.pass - 1 /\ reader'.cur = y
        /\ reader'.kind = reader.kind /\ reader'.got = reader.got /\ reader'.cnt = reader.cnt
        /\ reader'.want = reader.want /\ reader'.seen = reader.seen
    BY <1>1, <1>2, <2>1 DEF Reading
  <2> HIDE DEF y
  <2>7. Passing'
    <3>1. Beyond(reader.cur)' = Beyond(y) /\ UpTo(reader.cur)' = UpTo(y)
      BY <1>4, <2>6
    <3>2. reader'.pass + reader'.cnt <= Cardinality(Beyond(y))
      BY <1>2, <1>3, <2>3, <2>6, SplitIs
    <3>3. Cardinality(reader'.seen) <= Cardinality(UpTo(y)) + reader'.pass + reader'.cnt
      BY <1>2, <1>3, <2>3, <2>6, SplitIs
    <3> QED BY <1>3, <1>4, <2>2, <2>6, <3>1, <3>2, <3>3 DEF Passing
  <2>8. SeenStays' /\ Descending' /\ Collecting' /\ Collected'
    BY <1>2, <1>4, <2>6 DEF SeenStays, Descending, Collecting, Collected
  <2> QED BY <2>5, <2>7, <2>8 DEF ReadInv
<1>6. CASE ~(reader.pass >= 0)
  <2>1. reader' = [reader EXCEPT !.pc = "collect"] /\ reader.pass = -1
    BY <1>1, <1>2, <1>6
  <2>2. reader' \in Reading
    BY <1>2, <2>1 DEF Reading
  <2>3. /\ reader'.pc = "collect" /\ reader'.cur = x
        /\ reader'.kind = reader.kind /\ reader'.got = reader.got /\ reader'.cnt = reader.cnt
        /\ reader'.want = reader.want /\ reader'.seen = reader.seen
    BY <1>2, <2>1 DEF Reading
  <2>4. x # NULL
    BY <1>2, <1>3, <2>1, SkipListAssumption
  <2>5. Collecting'
    <3>1. Beyond(reader.cur)' = Beyond(x) /\ UpTo(reader.cur)' = UpTo(x)
      BY <1>4, <2>3
    <3>2. reader'.cnt <= Cardinality(Beyond(x)) + 1
      BY <1>2, <1>3, <2>1, <2>3, SplitIs
    <3>3. Cardinality(reader'.seen) < Cardinality(UpTo(x)) + reader'.cnt
      BY <1>2, <1>3, <2>1, <2>3, SplitIs
    <3> QED BY <1>2, <1>3, <1>4, <2>1, <2>3, <2>4, <3>1, <3>2, <3>3 DEF Collecting
  <2>6. Collected'
    <3>1. Len(reader'.got) + reader'.cnt = reader'.want
      BY <1>2, <1>3, <2>3
    <3> QED BY <1>3, <2>3, <3>1 DEF Collected
  <2>7. SeenStays' /\ Descending' /\ Passing'
    BY <1>2, <1>4, <2>3 DEF SeenStays, Descending, Passing
  <2> QED BY <2>2, <2>5, <2>6, <2>7 DEF ReadInv
<1> QED BY <1>5, <1>6

LEMMA LoadLevelKeeps ==
  ASSUME TypeOK, ListInv, ReadInv, LoadLevel
  PROVE  reader' \in Reading /\ ReadInv'
<1>1. /\ reader.pc = "level" /\ UNCHANGED list
      /\ reader' = [reader EXCEPT !.pc = "descend", !.lev = level]
  BY DEF LoadLevel
<1>2. reader \in Reading /\ reader # Idle /\ reader.seen \subseteq Complete
  BY <1>1, ReaderIs
<1>3. reader' \in Reading
  BY <1>1, <1>2 DEF Reading, TypeOK
<1>4. /\ reader'.pc = "descend" /\ reader'.kind = reader.kind /\ reader'.got = reader.got
      /\ reader'.cnt = reader.cnt /\ reader'.want = reader.want
      /\ reader'.cur = reader.cur /\ reader'.seen = reader.seen /\ reader'.key = reader.key
  BY <1>1, <1>2 DEF Reading
<1>5. Complete' = Complete
  BY <1>1, ListKept
<1>6. Descending'
  BY <1>1, <1>4 DEF ReadInv, Descending
<1>7. SeenStays' /\ Passing' /\ Collecting' /\ Collected'
  BY <1>2, <1>4, <1>5 DEF SeenStays, Passing, Collecting, Collected
<1> QED BY <1>3, <1>6, <1>7 DEF ReadInv

LEMMA DescendKeeps ==
  ASSUME TypeOK, ListInv, ReadInv, Descend
  PROVE  reader' \in Reading /\ ReadInv'
<1> DEFINE y == forward[reader.cur][reader.lev]
<1>1. /\ reader.pc = "descend" /\ UNCHANGED list
      /\ \/ /\ y # NULL /\ KeyOf[y] < reader.key
            /\ reader' = [reader EXCEPT !.cur = y]
         \/ reader.lev > 0 /\ reader' = [reader EXCEPT !.lev = @ - 1]
         \/ ~(reader.lev > 0) /\ reader' = [reader EXCEPT !.pc = "land"]
  BY DEF Descend
<1>2. /\ reader \in Reading /\ reader # Idle /\ reader.seen \subseteq Complete
      /\ reader.lev \in Levels /\ reader.lev \in Nat /\ reader.lev <= MaxLevel
  BY <1>1, ReaderIs, LevelsAre DEF Reading
<1>3. /\ reader.kind # "last" /\ reader.got = <<>> /\ reader.cnt = reader.want
      /\ reader.cur \in OnLevel(reader.lev) \cup {Header}
      /\ reader.cur # Header => KeyOf[reader.cur] < reader.key
  BY <1>1 DEF ReadInv, Descending
<1>4. /\ y \in OnLevel(reader.lev) \cup {NULL} /\ OnLevel(reader.lev) \subseteq Nodes
  BY <1>2, <1>3, NextNode
<1>5. Complete' = Complete /\ \A i : OnLevel(i)' = OnLevel(i)
  BY <1>1, ListKept
<1>6. /\ reader'.pc \in {"descend", "land"} /\ reader'.kind = reader.kind /\ reader'.got = reader.got
      /\ reader'.cnt = reader.cnt /\ reader'.want = reader.want
      /\ reader'.seen = reader.seen /\ reader'.key = reader.key
  BY <1>1, <1>2 DEF Reading
<1>7. SeenStays' /\ Passing' /\ Collecting' /\ Collected'
  BY <1>2, <1>5, <1>6 DEF SeenStays, Passing, Collecting, Collected
<1>8. reader' \in Reading /\ Descending'
  <2>1. CASE y # NULL /\ KeyOf[y] < reader.key /\ reader' = [reader EXCEPT !.cur = y]
    <3>1. y \in OnLevel(reader.lev) /\ y \in Start
      BY <1>4, <2>1 DEF Start
    <3>2. reader'.cur = y /\ reader'.lev = reader.lev /\ reader'.pc = "descend"
      BY <1>1, <1>2, <2>1 DEF Reading
    <3>3. reader' \in Reading
      BY <1>2, <2>1, <3>1 DEF Reading
    <3>4. OnLevel(reader.lev)' = OnLevel(reader.lev)
      BY <1>5, <3>2
    <3> HIDE DEF y
    <3> QED BY <1>3, <1>6, <2>1, <3>1, <3>2, <3>3, <3>4 DEF Descending
  <2>2. CASE reader.lev > 0 /\ reader' = [reader EXCEPT !.lev = @ - 1]
    <3>1. reader'.cur = reader.cur /\ reader'.lev = reader.lev - 1 /\ reader'.pc = "descend"
      BY <1>1, <1>2, <2>2 DEF Reading
    <3>2. reader.lev - 1 \in Levels /\ reader.lev \in 1..MaxLevel
      BY <1>2, <2>2, LevelsAre
    <3>3. OnLevel(reader.lev) \subseteq OnLevel(reader.lev - 1)
      BY <3>2 DEF ListInv, Chained
    <3>4. OnLevel(reader.lev)' = OnLevel(reader.lev - 1)
      BY <1>5, <3>1
    <3>5. reader' \in Reading
      BY <1>2, <2>2, <3>2 DEF Reading
    <3> QED BY <1>3, <1>6, <3>1, <3>3, <3>4, <3>5 DEF Descending
  <2>3. CASE ~(reader.lev > 0) /\ reader' = [reader EXCEPT !.pc = "land"]
    <3>1. reader'.cur = reader.cur /\ reader'.lev = reader.lev /\ reader'.pc = "land"
          /\ reader.lev = 0
      BY <1>1, <1>2, <2>3 DEF Reading
    <3>2. OnLevel(reader.lev)' = OnLevel(reader.lev)
      BY <1>5, <3>1
    <3>3. reader' \in Reading
      BY <1>2, <2>3 DEF Reading
    <3> QED BY <1>3, <1>6, <3>1, <3>2, <3>3 DEF Descending
  <2> QED BY <1>1, <2>1, <2>2, <2>3
<1> QED BY <1>7, <1>8 DEF ReadInv

LEMMA LandKeeps ==
  ASSUME TypeOK, ListInv, ReadInv, Land
  PROVE  reader' \in Reading /\ ReadInv'
<1> DEFINE x == reader.cur
           y == forward[x][0]
           found == IF y # NULL /\ KeyOf[y] = reader.key THEN <<y>> ELSE <<>>
<1>1. /\ reader.pc = "land" /\ UNCHANGED list
      /\ \/ reader.kind = "search" /\ reader' = [reader EXCEPT !.pc = "done", !.got = found]
         \/ /\ reader.kind # "search" /\ y # NULL /\ KeyOf[y] >= reader.key
            /\ reader' = [reader EXCEPT !.pc = "collect", !.cur = y]
         \/ reader.kind # "search" /\ reader' = [reader EXCEPT !.pc = "done"]
  BY DEF Land
<1>2. /\ reader \in Reading /\ reader # Idle /\ reader.seen \subseteq Complete
      /\ reader.seen \subseteq OnLevel(0) /\ OnLevel(0) \subseteq Nodes /\ reader.key \in Nat
      /\ reader.cnt \in Nat
  BY <1>1, ReaderIs
<1>3. /\ reader.kind # "last" /\ reader.got = <<>> /\ reader.cnt = reader.want
      /\ x \in OnLevel(0) \cup {Header}
      /\ x # Header => KeyOf[x] < reader.key
  BY <1>1 DEF ReadInv, Descending
<1>4. /\ y \in OnLevel(0) \cup {NULL}
      /\ y # NULL => \A z \in OnLevel(0) : After(x, z) => KeyOf[y] <= KeyOf[z]
  BY <1>3, NextNode, LevelsAre
<1>5. Complete' = Complete /\ OnLevel(0)' = OnLevel(0)
  BY <1>1, ListKept
<1> HIDE DEF y
<1>6. CASE reader.kind = "search" /\ reader' = [reader EXCEPT !.pc = "done", !.got = found]
  <2>1. found \in Seq(Nodes) /\ (found # <<>> => found = <<y>> /\ y \in OnLevel(0))
    BY <1>2, <1>4
  <2> HIDE DEF found
  <2>2. reader' \in Reading
    BY <1>2, <1>6, <2>1 DEF Reading
  <2>3. reader'.pc = "done" /\ reader'.kind = "search" /\ reader'.got = found
        /\ reader'.seen = reader.seen
    BY <1>2, <1>6 DEF Reading
  <2>4. Collected'
    <3>1. reader'.got # <<>> => /\ \A i \in DOMAIN reader'.got : reader'.got[i] \in OnLevel(0)'
                                /\ 1..Len(reader'.got) - 1 = {}
      <4>1. CASE found = <<>>
        BY <2>3, <4>1
      <4>2. CASE found # <<>>
        <5>1. reader'.got = <<y>> /\ y \in OnLevel(0)'
          BY <1>5, <2>1, <2>3, <4>2
        <5> QED BY <5>1
      <4> QED BY <4>1, <4>2
    <3> QED BY <2>3, <3>1 DEF Collected
  <2>5. SeenStays' /\ Descending' /\ Passing' /\ Collecting'
    BY <1>2, <1>5, <2>3 DEF SeenStays, Descending, Passing, Collecting
  <2> QED BY <2>2, <2>4, <2>5 DEF ReadInv
<1>7. CASE /\ reader.kind # "search" /\ y # NULL /\ KeyOf[y] >= reader.key
           /\ reader' = [reader EXCEPT !.pc = "collect", !.cur = y]
  <2>1. y \in OnLevel(0) /\ y \in Start
    BY <1>2, <1>4, <1>7 DEF Start
  <2>2. reader' \in Reading
    BY <1>2, <1>7, <2>1 DEF Reading
  <2>3. /\ reader'.pc = "collect" /\ reader'.kind = "from" /\ reader'.got = <<>>
        /\ reader'.cur = y /\ reader'.key = reader.key /\ reader'.cnt = reader.cnt
        /\ reader'.want = reader.want /\ reader'.seen = reader.seen
    BY <1>2, <1>3, <1>7 DEF Reading
  <2>4. \A m \in reader.seen : KeyOf[m] >= reader.key => KeyOf[m] >= KeyOf[y]
    <3>1. ASSUME NEW m \in reader.seen, KeyOf[m] >= reader.key PROVE After(x, m)
      <4>1. KeyOf[m] \in Nat /\ (x # Header => KeyOf[x] \in Nat)
        BY <1>2, <1>3, KeysAre
      <4> QED BY <1>2, <1>3, <3>1, <4>1 DEF After
    <3> QED BY <1>2, <1>4, <1>7, <2>1, <3>1, KeysAre
  <2>5. Collecting'
    BY <1>5, <1>7, <2>1, <2>3, <2>4 DEF Collecting
  <2>6. Collected'
    BY <1>2, <1>3, <2>3 DEF Collected
  <2>7. SeenStays' /\ Descending' /\ Passing'
    BY <1>2, <1>5, <2>3 DEF SeenStays, Descending, Passing
  <2> QED BY <2>2, <2>5, <2>6, <2>7 DEF ReadInv
<1>8. CASE reader.kind # "search" /\ reader' = [reader EXCEPT !.pc = "done"]
  <2>1. reader' \in Reading
    BY <1>2, <1>8 DEF Reading
  <2>2. /\ reader'.pc = "done" /\ reader'.kind = "from" /\ reader'.got = <<>>
        /\ reader'.cnt = reader.cnt /\ reader'.want = reader.want /\ reader'.seen = reader.seen
    BY <1>2, <1>3, <1>8 DEF Reading
  <2>3. Collected'
    BY <1>2, <1>3, <2>2 DEF Collected
  <2>4. SeenStays' /\ Descending' /\ Passing' /\ Collecting'
    BY <1>2, <1>5, <2>2 DEF SeenStays, Descending, Passing, Collecting
  <2> QED BY <2>1, <2>3, <2>4 DEF ReadInv
<1> QED BY <1>1, <1>6, <1>7, <1>8

(* A message is collected: it is the next after those collected before.    *)
LEMMA TakeKeeps ==
  ASSUME TypeOK, ListInv, ReadInv, UNCHANGED list, reader.pc = "collect",
         reader.cur # NULL, reader.cnt > 0,
         reader' = [reader EXCEPT !.got = Append(@, reader.cur), !.cnt = @ - 1,
                                  !.cur = forward[reader.cur][0]]
  PROVE  reader' \in Reading /\ ReadInv'
<1> DEFINE x == reader.cur
           y == forward[x][0]
           got == reader.got
           more == Append(got, x)
           last == got[Len(got)]
<1>1. /\ reader \in Reading /\ reader # Idle /\ reader.seen \subseteq Complete
      /\ reader.seen \subseteq OnLevel(0) /\ OnLevel(0) \subseteq Nodes
      /\ reader.cnt \in Nat /\ Cardinality(reader.seen) \in Nat
  BY ReaderIs
<1>2. /\ reader.kind # "search" /\ x \in OnLevel(0) /\ x \in Nodes
  BY <1>1 DEF ReadInv, Collecting
<1>3. /\ y \in OnLevel(0) \cup {NULL}
      /\ y # NULL => After(x, y) /\ \A z \in OnLevel(0) : After(x, z) => KeyOf[y] <= KeyOf[z]
      /\ y = NULL => \A z \in OnLevel(0) : ~After(x, z)
  BY <1>2, NextNode, LevelsAre
<1>4. /\ y = NULL => Cardinality(Beyond(x)) = 0
      /\ y # NULL => Cardinality(Beyond(y)) = Cardinality(Beyond(x)) - 1
  BY <1>2, StepCounts
<1>5. /\ Complete' = Complete /\ OnLevel(0)' = OnLevel(0)
      /\ \A z : Beyond(z)' = Beyond(z) /\ UpTo(z)' = UpTo(z)
  BY ListKept
<1>6. /\ got \in Seq(Nodes) /\ Len(got) \in Nat /\ more \in Seq(Nodes) /\ more # <<>>
      /\ Len(more) = Len(got) + 1 /\ more[Len(more)] = x
      /\ \A i \in 1..Len(got) : more[i] = got[i]
      /\ DOMAIN got = 1..Len(got) /\ DOMAIN more = 1..Len(more)
  BY <1>1, <1>2 DEF Reading
<1>7. got # <<>> => /\ Len(got) >= 1 /\ last \in OnLevel(0) /\ last \in Nodes /\ more[1] = got[1]
                    /\ Newer(x, last) /\ got[1] \in Nodes
  <2>1. got # <<>> => Len(got) >= 1 /\ Len(got) \in 1..Len(got) /\ 1 \in 1..Len(got)
    BY <1>6
  <2>2. got # <<>> => last \in OnLevel(0) /\ got[1] \in OnLevel(0)
    BY <1>6, <2>1 DEF ReadInv, Collected
  <2>3. got # <<>> => Newer(x, last)
    BY DEF ReadInv, Collecting
  <2> QED BY <1>1, <1>6, <2>1, <2>2, <2>3
<1>8. got = <<>> => Len(more) = 1 /\ more[1] = x
  BY <1>6
<1>9. reader.cnt - 1 \in 0..MaxItems /\ y \in Start \cup {NULL}
  BY <1>1, <1>3, SkipListAssumption DEF Reading, Start
<1> HIDE DEF y, more
<1>10. reader' = [reader EXCEPT !.got = more, !.cnt = reader.cnt - 1, !.cur = y]
  BY DEF y, more
<1>11. reader' \in Reading
  BY <1>1, <1>6, <1>9, <1>10 DEF Reading
<1>12. /\ reader'.pc = "collect" /\ reader'.kind = reader.kind /\ reader'.got = more
       /\ reader'.cnt = reader.cnt - 1 /\ reader'.cur = y /\ reader'.seen = reader.seen
       /\ reader'.want = reader.want /\ reader'.key = reader.key
  BY <1>1, <1>10 DEF Reading
<1>13. \A m \in OnLevel(0) : KeyOf[m] \in Nat /\ m # Header
  BY <1>1, KeysAre, SkipListAssumption
<1>14. \A m \in OnLevel(0) : m # x => KeyOf[m] # KeyOf[x]
  BY <1>2, LevelsAre DEF ListInv, Chained, Chain
<1>15. Collecting'
  <2>1. reader.kind = "last" /\ reader.cnt - 1 > 0 =>
          y # NULL /\ reader.cnt - 1 <= Cardinality(Beyond(y)) + 1
    <3>1. reader.kind = "last" => reader.cnt <= Cardinality(Beyond(x)) + 1
      BY DEF ReadInv, Collecting
    <3> QED BY <1>1, <1>4, <3>1, SplitIs
  <2>2. /\ y # NULL => Newer(y, x)
        /\ \A m \in reader.seen : Newer(m, x) => y # NULL /\ KeyOf[m] >= KeyOf[y]
    <3>1. \A m \in OnLevel(0) : Newer(m, x) <=> After(x, m)
      BY <1>2, <1>13 DEF After, Newer
    <3> QED BY <1>1, <1>3, <1>13, <3>1
  <2>3. Beyond(reader.cur)' = Beyond(y) /\ UpTo(reader.cur)' = UpTo(y)
    BY <1>5, <1>12
  <2> QED BY <1>2, <1>3, <1>5, <1>6, <1>12, <2>1, <2>2, <2>3 DEF Collecting
<1>16. Collected'
  <2>1. Len(more) + (reader.cnt - 1) = reader.want
    <3>1. Len(got) + reader.cnt = reader.want
      BY <1>2 DEF ReadInv, Collected
    <3> QED BY <1>1, <1>6, <3>1
  <2>2. \A i \in DOMAIN more : more[i] \in OnLevel(0)
    <3>1. \A i \in 1..Len(got) : got[i] \in OnLevel(0)
      <4>1. got # <<>> => \A i \in DOMAIN got : got[i] \in OnLevel(0)
        BY DEF ReadInv, Collected
      <4>2. got = <<>> => 1..Len(got) = {}
        OBVIOUS
      <4> QED BY <1>6, <4>1, <4>2
    <3> QED BY <1>2, <1>6, <3>1
  <2>3. \A i \in 1..Len(more) - 1 : Newer(more[i + 1], more[i])
    <3>1. ASSUME NEW i \in 1..Len(got) - 1 PROVE Newer(got[i + 1], got[i])
      <4>1. got # <<>>
        BY <1>6, <3>1
      <4> QED BY <3>1, <4>1 DEF ReadInv, Collected
    <3>2. ASSUME NEW i \in 1..Len(more) - 1 PROVE Newer(more[i + 1], more[i])
      <4>1. CASE i = Len(got)
        <5>1. got # <<>> /\ more[i + 1] = x /\ more[i] = last
          BY <1>6, <3>2, <4>1
        <5> QED BY <1>7, <5>1
      <4>2. CASE i # Len(got)
        <5>1. i \in 1..Len(got) - 1 /\ more[i + 1] = got[i + 1] /\ more[i] = got[i]
          BY <1>6, <3>2, <4>2
        <5> QED BY <3>1, <5>1
      <4> QED BY <4>1, <4>2
    <3> QED BY <3>2
  <2>4. reader.kind = "from" =>
          /\ KeyOf[more[1]] >= reader.key
          /\ \A m \in reader.seen : KeyOf[m] >= reader.key => KeyOf[m] >= KeyOf[more[1]]
    <3>1. CASE got = <<>>
      BY <1>8, <3>1 DEF ReadInv, Collecting
    <3>2. CASE got # <<>>
      BY <1>7, <3>2 DEF ReadInv, Collected
    <3> QED BY <3>1, <3>2
  <2>5. ASSUME NEW m \in reader.seen \ Range(more)
        PROVE  Newer(more[1], m) \/ Newer(m, x)
    <3>1. Range(got) \subseteq Range(more) /\ x \in Range(more)
      BY <1>6 DEF Range
    <3>2. m \in OnLevel(0) /\ m # x /\ KeyOf[m] # KeyOf[x] /\ m \notin Range(got)
      BY <1>1, <1>14, <2>5, <3>1
    <3>3. CASE got = <<>>
      BY <1>2, <1>8, <1>13, <3>2, <3>3 DEF Newer
    <3>4. CASE got # <<>>
      <4>1. Newer(got[1], m) \/ Newer(m, last)
        BY <1>2, <2>5, <3>2, <3>4 DEF ReadInv, Collected
      <4>2. Newer(m, last) => KeyOf[m] >= KeyOf[x]
        BY <2>5, <3>4 DEF ReadInv, Collecting
      <4> QED BY <1>2, <1>7, <1>13, <3>2, <3>4, <4>1, <4>2 DEF Newer
    <3> QED BY <3>3, <3>4
  <2>6. reader.kind = "last" => Cardinality(reader.seen) <= Cardinality(UpTo(x)) + (reader.cnt - 1)
    <3>1. CASE got = <<>>
      <4>1. reader.kind = "last" => Cardinality(reader.seen) < Cardinality(UpTo(x)) + reader.cnt
        BY <3>1 DEF ReadInv, Collecting
      <4> QED BY <1>1, <4>1, SplitIs
    <3>2. CASE got # <<>>
      <4>1. reader.kind = "last" => Cardinality(reader.seen) <= Cardinality(UpTo(last)) + reader.cnt
        BY <3>2 DEF ReadInv, Collected
      <4>2. Cardinality(UpTo(last)) + 1 <= Cardinality(UpTo(x))
        BY <1>2, <1>7, <3>2, LaterCounts
      <4> HIDE DEF last
      <4> QED BY <1>1, <4>1, <4>2, SplitIs
    <3> QED BY <3>1, <3>2
  <2>7. UpTo(reader.got[Len(reader.got)])' = UpTo(x)
    BY <1>5, <1>6, <1>12
  <2> HIDE DEF got, last, x
  <2> QED BY <1>5, <1>6, <1>12, <2>1, <2>2, <2>3, <2>4, <2>5, <2>6, <2>7 DEF Collected
<1>17. SeenStays' /\ Descending' /\ Passing'
  BY <1>1, <1>5, <1>12 DEF SeenStays, Descending, Passing
<1> QED BY <1>11, <1>15, <1>16, <1>17 DEF ReadInv

LEMMA CollectKeeps ==
  ASSUME TypeOK, ListInv, ReadInv, Collect
  PROVE  reader' \in Reading /\ ReadInv'
<1>1. reader.pc = "collect" /\ UNCHANGED list
  BY DEF Collect
<1>2. CASE reader.cur # NULL /\ reader.cnt > 0
  BY <1>1, <1>2, TakeKeeps DEF Collect
<1>3. CASE ~(reader.cur # NULL /\ reader.cnt > 0)
  <2>1. reader' = [reader EXCEPT !.pc = "done"]
    BY <1>3 DEF Collect
  <2>2. reader \in Reading /\ reader # Idle /\ reader.cnt \in Nat /\ reader.seen \subseteq Complete
    BY <1>1, ReaderIs
  <2>3. reader' \in Reading
    BY <2>1, <2>2 DEF Reading
  <2>4. /\ reader'.pc = "done" /\ reader'.kind = reader.kind /\ reader'.got = reader.got
        /\ reader'.cnt = reader.cnt /\ reader'.key = reader.key
        /\ reader'.want = reader.want /\ reader'.seen = reader.seen
    BY <2>1, <2>2 DEF Reading
  <2>5. /\ Complete' = Complete /\ OnLevel(0)' = OnLevel(0)
        /\ \A z : UpTo(z)' = UpTo(z)
    BY <1>1, ListKept
  <2>6. reader.kind = "last" => reader.cnt = 0
    BY <1>1, <1>3, <2>2 DEF ReadInv, Collecting
  <2>7. reader.got # <<>> /\ reader.cnt > 0 =>
          \A m \in reader.seen : ~Newer(m, reader.got[Len(reader.got)])
    BY <1>1, <1>3 DEF ReadInv, Collecting
  <2>8. UpTo(reader.got[Len(reader.got)])' = UpTo(reader.got[Len(reader.got)])
    BY <2>4, <2>5
  <2>9. Collected'
    BY <1>1, <2>4, <2>5, <2>6, <2>7, <2>8 DEF ReadInv, Collected
  <2>10. SeenStays' /\ Descending' /\ Passing' /\ Collecting'
    BY <2>2, <2>4, <2>5 DEF SeenStays, Descending, Passing, Collecting
  <2> QED BY <2>3, <2>9, <2>10 DEF ReadInv
<1> QED BY <1>2, <1>3

\* Between reads there is nothing to state.
LEMMA NoReader ==
  ASSUME reader' = Idle
  PROVE  ReadInv'
<1>1. reader' = Idle /\ reader'.pc = "idle"
  BY DEF Idle
<1> QED BY <1>1 DEF ReadInv, SeenStays, Descending, Passing, Collecting, Collected

-----------------------------------------------------------------------------
(* The invariant is inductive.                                             *)

LEMMA InitEstablishes ==
  ASSUME Init
  PROVE  SkipListInv
<1>1. forward \in Forwards
  BY DEF Init, Forwards, Pointer
<1>2. ASSUME NEW i \in Levels PROVE Chain(forward, i, {}) /\ OnLevel(i) = {}
  <2>1. Chain(forward, i, {})
    BY DEF Init, Chain, Follows, Start
  <2> QED BY <1>1, <2>1, ReachedIs DEF OnLevel
<1>3. /\ height = [n \in Nodes |-> 0] /\ level = 0 /\ count = 0
      /\ writer = Idle /\ refused = {} /\ reader = Idle /\ reader.pc = "idle"
  BY DEF Init, Idle
<1>4. TypeOK
  BY <1>1, <1>3, LevelsAre, Cards DEF TypeOK, Forwards
<1>5. \A i \in 1..MaxLevel : i \in Levels /\ i \in Nat /\ i >= 1
  BY LevelsAre
<1>6. \A i \in Levels : OnLevel(i) = {} /\ Whole(i) = {}
  BY <1>2, <1>3 DEF Whole
<1>7. Chained
  BY <1>2, <1>5, LevelsAre DEF Chained
<1>8. Heights
  BY <1>3, <1>5, <1>6, LevelsAre DEF Heights
<1>9. Counted
  BY <1>3, <1>6, LevelsAre, FS_EmptySet DEF Counted, Complete
<1>10. Inserting
  BY <1>3 DEF Inserting
<1>11. ReadInv
  BY <1>3 DEF ReadInv, SeenStays, Descending, Passing, Collecting, Collected
<1> QED BY <1>4, <1>7, <1>8, <1>9, <1>10, <1>11 DEF SkipListInv, ListInv

LEMMA RefuseKeeps ==
  ASSUME SkipListInv, NEW n \in Nodes, Refuse(n)
  PROVE  SkipListInv'
<1>1. /\ UNCHANGED <<forward, height, level, count, writer, reader>>
      /\ refused' = refused \cup {n}
  BY DEF Refuse
<1>2. TypeOK'
  BY <1>1 DEF SkipListInv, TypeOK
<1>3. /\ \A i : OnLevel(i)' = OnLevel(i) /\ Whole(i)' = Whole(i)
      /\ Complete' = Complete
  BY <1>1, LevelsStay DEF Whole, Complete
<1>4. ListInv'
  BY <1>1, <1>3 DEF SkipListInv, ListInv, Chained, Heights, Counted, Inserting
<1>5. ReadInv'
  BY <1>1, <1>3, <1>4, <1>2, GrowthKeeps, ForwardTypes DEF SkipListInv
<1> QED BY <1>2, <1>4, <1>5 DEF SkipListInv

LEMMA InsertStep ==
  ASSUME SkipListInv, NEW n \in Nodes, NEW h \in 1..MaxLevel, Insert(n, h)
  PROVE  SkipListInv' /\ OnLevel(0)' = OnLevel(0)
<1>1. TypeOK /\ ListInv /\ ReadInv
  BY DEF SkipListInv
<1>2. /\ forward' = forward /\ count' = count /\ refused' = refused /\ reader' = reader
      /\ writer = Idle /\ height[n] = 0
  BY DEF Insert
<1>3. /\ height' \in [Nodes -> Levels] /\ level' \in Levels /\ writer' \in Insertion
      /\ DOMAIN writer'.update = 0..height'[n] /\ writer'.node = n
      /\ ListInv'
  BY <1>1, InsertKeeps
<1>4. TypeOK'
  BY <1>1, <1>2, <1>3 DEF TypeOK
<1>5. \A i : OnLevel(i)' = OnLevel(i)
  BY <1>2, LevelsStay
<1>6. Complete \subseteq Complete'
  <2>1. Complete = OnLevel(0) /\ n \notin OnLevel(0)
    BY <1>1, <1>2, IdleWriter, NewIsNowhere, LevelsAre
  <2> QED BY <1>3, <1>5, <2>1 DEF Complete
<1>7. ReadInv'
  BY <1>1, <1>2, <1>3, <1>5, <1>6, GrowthKeeps, ForwardTypes
<1> QED BY <1>3, <1>4, <1>5, <1>7 DEF SkipListInv

LEMMA LinkStep ==
  ASSUME SkipListInv, Link
  PROVE  SkipListInv'
<1>1. TypeOK /\ ListInv /\ ReadInv
  BY DEF SkipListInv
<1>2. /\ height' = height /\ level' = level /\ count' = count
      /\ refused' = refused /\ reader' = reader
      /\ writer.pc = "link" /\ writer # Idle
  BY DEF Link, Idle
<1>3. /\ forward' \in Forwards /\ writer' \in Insertion
      /\ writer'.node = writer.node /\ writer'.update = writer.update
      /\ \A i \in Levels : OnLevel(i) \subseteq OnLevel(i)'
      /\ Complete' = Complete
      /\ ListInv'
  BY <1>1, LinkKeeps
<1>4. TypeOK'
  BY <1>1, <1>2, <1>3 DEF TypeOK, Forwards
<1>5. ReadInv'
  BY <1>1, <1>2, <1>3, GrowthKeeps, ForwardTypes
<1> QED BY <1>3, <1>4, <1>5 DEF SkipListInv

LEMMA CountStep ==
  ASSUME SkipListInv, Count
  PROVE  SkipListInv' /\ OnLevel(0)' = OnLevel(0)
<1>1. TypeOK /\ ListInv /\ ReadInv
  BY DEF SkipListInv
<1>2. /\ forward' = forward /\ height' = height /\ level' = level
      /\ refused' = refused /\ reader' = reader /\ writer' = Idle
  BY DEF Count
<1>3. /\ count' = count + 1 /\ count' \in 0..Cardinality(Nodes)
      /\ Complete \subseteq Complete'
      /\ ListInv'
  BY <1>1, CountKeeps
<1>4. TypeOK'
  BY <1>1, <1>2, <1>3 DEF TypeOK
<1>5. \A i : OnLevel(i)' = OnLevel(i)
  BY <1>2, LevelsStay
<1>6. count \in Nat /\ count' \in Nat /\ count <= count'
  BY <1>1, <1>3, ForwardTypes
<1>7. ReadInv'
  BY <1>1, <1>2, <1>3, <1>5, <1>6, GrowthKeeps
<1> QED BY <1>3, <1>4, <1>5, <1>7 DEF SkipListInv

LEMMA DeleteStep ==
  ASSUME SkipListInv, NEW k \in Keys, Delete(k)
  PROVE  SkipListInv'
<1>1. TypeOK /\ ListInv
  BY DEF SkipListInv
<1>2. /\ height' = height /\ writer' = writer /\ refused' = refused
      /\ reader = Idle /\ reader' = reader
  BY DEF Delete
<1>3. /\ forward' \in Forwards /\ level' \in Levels /\ count' \in 0..Cardinality(Nodes)
      /\ ListInv'
  BY <1>1, DeleteKeeps
<1>4. TypeOK'
  BY <1>1, <1>2, <1>3 DEF TypeOK, Forwards
<1>5. ReadInv'
  BY <1>2, NoReader
<1> QED BY <1>3, <1>4, <1>5 DEF SkipListInv

LEMMA ReadStep ==
  ASSUME SkipListInv, Read
  PROVE  SkipListInv' /\ UNCHANGED list
<1> DEFINE Kept == (reader' \in {Idle} \cup Reading) /\ ReadInv'
<1>1. TypeOK /\ ListInv /\ ReadInv
  BY DEF SkipListInv
<1>2. UNCHANGED list
  BY DEF Read, Begin, LoadCount, Skip, LoadLevel, Descend, Land, Collect, Return
<1>3. Kept
  <2>1. ASSUME NEW k \in Keys, Begin("search", k, 0) PROVE Kept
    <3>1. 0 \in 0..MaxItems
      BY SkipListAssumption
    <3> QED BY <1>1, <2>1, <3>1, BeginKeeps
  <2>2. ASSUME NEW k \in Keys, NEW num \in 1..MaxItems, Begin("from", k, num) PROVE Kept
    <3>1. num \in 0..MaxItems
      BY SkipListAssumption
    <3> QED BY <1>1, <2>2, <3>1, BeginKeeps
  <2>3. ASSUME NEW num \in 0..MaxItems, Begin("last", 0, num) PROVE Kept
    BY <1>1, <2>3, BeginKeeps
  <2>4. ASSUME LoadCount PROVE Kept
    BY <1>1, <2>4, LoadCountKeeps
  <2>5. ASSUME Skip PROVE Kept
    BY <1>1, <2>5, SkipKeeps
  <2>6. ASSUME LoadLevel PROVE Kept
    BY <1>1, <2>6, LoadLevelKeeps
  <2>7. ASSUME Descend PROVE Kept
    BY <1>1, <2>7, DescendKeeps
  <2>8. ASSUME Land PROVE Kept
    BY <1>1, <2>8, LandKeeps
  <2>9. ASSUME Collect PROVE Kept
    BY <1>1, <2>9, CollectKeeps
  <2>10. ASSUME Return PROVE Kept
    BY <2>10, NoReader DEF Return
  <2> HIDE DEF Kept
  <2> QED BY <2>1, <2>2, <2>3, <2>4, <2>5, <2>6, <2>7, <2>8, <2>9, <2>10 DEF Read
<1>4. TypeOK' /\ ListInv'
  <2>1. ListInv'
    BY <1>1, <1>2, ListKept
  <2> QED BY <1>1, <1>2, <1>3, <2>1 DEF TypeOK, list
<1> QED BY <1>2, <1>3, <1>4 DEF SkipListInv

LEMMA StepKeeps ==
  ASSUME SkipListInv, [Next]_vars
  PROVE  SkipListInv'
<1>1. CASE UNCHANGED vars
  <2>1. UNCHANGED list /\ reader' = reader
    BY <1>1 DEF vars, list
  <2>2. TypeOK' /\ ListInv'
    BY <2>1, ListKept DEF SkipListInv, TypeOK, list
  <2>3. ReadInv'
    <3>1. /\ Complete' = Complete /\ count' = count /\ \A i : OnLevel(i)' = OnLevel(i)
      BY <2>1, ListKept DEF SkipListInv
    <3> QED BY <2>1, <2>2, <3>1, GrowthKeeps, ForwardTypes DEF SkipListInv
  <2> QED BY <2>2, <2>3 DEF SkipListInv
<1>2. CASE Write
  BY <1>2, RefuseKeeps, InsertStep, LinkStep, CountStep, DeleteStep DEF Write
<1>3. CASE Read
  BY <1>3, ReadStep
<1> QED BY <1>1, <1>2, <1>3 DEF Next

(* The inductive invariant holds in every state of the storage engine.     *)
THEOREM SkipListInvariant == Spec => []SkipListInv
<1>1. Init => SkipListInv
  BY InitEstablishes
<1>2. SkipListInv /\ [Next]_vars => SkipListInv'
  BY StepKeeps
<1> QED BY <1>1, <1>2, PTL DEF Spec

-----------------------------------------------------------------------------
(* What it shows.                                                          *)

(* Every pointer, level, count and reader stays in its range: getItems     *)
(* never starts with a number of messages to pass over below -1.           *)
THEOREM SkipListTypes == Spec => []TypeOK
BY SkipListInvariant, PTL DEF SkipListInv

LEMMA Linked ==
  ASSUME SkipListInv
  PROVE  WellLinked
<1>1. TypeOK /\ ListInv /\ Chained /\ Heights
  BY DEF SkipListInv, ListInv
<1>2. ASSUME NEW i \in Levels PROVE i > 0 => OnLevel(i) \subseteq OnLevel(i - 1)
  <2>1. i > 0 => i \in 1..MaxLevel
    BY LevelsAre
  <2> QED BY <1>1, <2>1 DEF Chained
<1>3. ASSUME NEW i \in Levels, NEW n \in OnLevel(i)
      PROVE  /\ height[n] >= i
             /\ forward[n][i] # NULL => KeyOf[n] < KeyOf[forward[n][i]]
  <2>1. n \in OnLevel(i) \cup {Header} /\ n # Header
    BY <1>1, <1>3, NextNode
  <2> QED BY <1>1, <2>1, NextNode DEF Heights, After
<1>4. count = Cardinality(Complete)
  BY <1>1 DEF ListInv, Counted
<1>5. ASSUME writer = Idle
      PROVE  /\ \A n \in OnLevel(0) : \A i \in 0..height[n] : n \in OnLevel(i)
             /\ \A i \in 1..MaxLevel : OnLevel(i) # {} <=> i <= level
  BY <1>1, <1>5, IdleWriter DEF Heights
<1> QED BY <1>2, <1>3, <1>4, <1>5 DEF WellLinked

(* At every point of an insertion the levels are sorted and nested and the *)
(* count is what is completely inserted; between insertions and deletions  *)
(* every node is on all of its levels and the list's level is exact.       *)
THEOREM LevelsStayLinked == Spec => []WellLinked
BY SkipListInvariant, Linked, PTL

LEMMA StaysInList ==
  ASSUME SkipListInv
  PROVE  ReaderStaysInList
<1>1. TypeOK /\ ListInv /\ Heights /\ Passing /\ Descending
  BY DEF SkipListInv, ListInv, ReadInv
<1>2. ASSUME reader.pc = "skip" PROVE reader.cur # NULL
  <2>1. reader.cur \in OnLevel(0) \cup {Header}
    BY <1>1, <1>2 DEF Passing
  <2> QED BY <1>1, <2>1, NextNode, LevelsAre, SkipListAssumption
<1>3. ASSUME reader.pc = "descend", reader.cur # Header
      PROVE  reader.lev <= height[reader.cur]
  <2>1. reader.cur \in OnLevel(reader.lev)
    BY <1>1, <1>3 DEF Descending
  <2>2. reader.lev \in Levels /\ reader.lev \in Nat
    BY <1>1, <1>3, BusyReader, ReadingPc, LevelsAre DEF Reading
  <2>3. height[reader.cur] >= reader.lev /\ reader.cur \in Nodes
    BY <1>1, <2>1, <2>2 DEF Heights, ListInv, Chained, Chain
  <2> QED BY <1>1, <2>2, <2>3, ForwardTypes
<1> QED BY <1>2, <1>3 DEF ReaderStaysInList

(* searchNode and getItems, which take no lock, never follow a null        *)
(* pointer and never index a node's pointers above its level.              *)
THEOREM ReadersStayInList == Spec => []ReaderStaysInList
BY SkipListInvariant, StaysInList, PTL

LEMMA Gapless ==
  ASSUME SkipListInv
  PROVE  NoGaps
<1> DEFINE got == reader.got
           last == got[Len(got)]
<1> SUFFICES ASSUME reader.pc = "done", got # <<>>
             PROVE  /\ \A i \in 1..Len(got) - 1 : Newer(got[i + 1], got[i])
                    /\ reader.kind = "from" => KeyOf[got[1]] >= reader.key
                    /\ reader.kind # "search" =>
                         \A m \in reader.seen \ Range(got) :
                           \/ /\ Newer(got[1], m)
                              /\ reader.kind = "from" => KeyOf[m] < reader.key
                           \/ Newer(m, last) /\ Len(got) = reader.want
  BY DEF NoGaps
<1>1. TypeOK /\ ListInv /\ ReadInv /\ Collected
  BY DEF SkipListInv, ReadInv
<1>2. /\ reader \in Reading /\ reader.cnt \in Nat /\ reader.seen \subseteq Nodes
      /\ reader.key \in Nat
  BY <1>1, ReaderIs DEF Reading
<1>3. Len(got) \in Nat /\ Len(got) >= 1 /\ got[1] \in Nodes /\ reader.want \in Nat
  BY <1>2, SkipListAssumption DEF Reading
<1>4. \A i \in 1..Len(got) - 1 : Newer(got[i + 1], got[i])
  BY <1>1 DEF Collected
<1>5. reader.kind = "from" =>
        /\ KeyOf[got[1]] >= reader.key
        /\ \A m \in reader.seen : KeyOf[m] >= reader.key => KeyOf[m] >= KeyOf[got[1]]
  BY <1>1 DEF Collected
<1>6. ASSUME reader.kind # "search", NEW m \in reader.seen \ Range(got)
      PROVE  \/ /\ Newer(got[1], m)
                /\ reader.kind = "from" => KeyOf[m] < reader.key
             \/ Newer(m, last) /\ Len(got) = reader.want
  <2>1. Newer(got[1], m) \/ Newer(m, last)
    BY <1>1, <1>6 DEF Collected
  <2>2. Newer(m, last) => Len(got) = reader.want
    <3>1. Len(got) + reader.cnt = reader.want
      BY <1>1, <1>6 DEF Collected
    <3>2. reader.cnt > 0 => ~Newer(m, last)
      BY <1>1, <1>6 DEF Collected
    <3> HIDE DEF got, last
    <3> QED BY <1>2, <1>3, <3>1, <3>2
  <2>3. Newer(got[1], m) => (reader.kind = "from" => KeyOf[m] < reader.key)
    <3>1. KeyOf[m] \in Nat /\ KeyOf[got[1]] \in Nat
      BY <1>2, <1>3, <1>6, KeysAre
    <3> HIDE DEF got
    <3> QED BY <1>2, <1>5, <1>6, <3>1 DEF Newer
  <2> QED BY <2>1, <2>2, <2>3
<1> QED BY <1>4, <1>5, <1>6

(* What getItems returns has no gap: in the order of the keys, with every  *)
(* message stored before the call that lies between the first and the last *)
(* one, whatever was inserted meanwhile.                                   *)
THEOREM NoMessageSkipped == Spec => []NoGaps
BY SkipListInvariant, Gapless, PTL

LEMMA Latest ==
  ASSUME SkipListInv
  PROVE  LatestReturned
<1> DEFINE got == reader.got
           seen == reader.seen
           last == got[reader.want]
           missed == {m \in seen : Newer(m, last)}
           new == OnLevel(0) \ seen
<1> SUFFICES ASSUME reader.pc = "done", reader.kind = "last"
             PROVE  /\ Len(got) = reader.want
                    /\ reader.want > 0 => Cardinality(missed) <= Cardinality(new)
  BY DEF LatestReturned
<1>1. TypeOK /\ ListInv /\ ReadInv /\ Collected
  BY DEF SkipListInv, ReadInv
<1>2. /\ reader \in Reading /\ seen \subseteq OnLevel(0) /\ OnLevel(0) \subseteq Nodes
      /\ Cardinality(seen) \in Nat
  BY <1>1, ReaderIs
<1>3. Len(got) \in Nat /\ reader.want \in Nat /\ got \in Seq(Nodes)
  BY <1>2, SkipListAssumption DEF Reading
<1>4. Len(got) + reader.cnt = reader.want /\ reader.cnt = 0
  BY <1>1 DEF Collected
<1>5. Len(got) = reader.want
  BY <1>3, <1>4
<1>6. ASSUME reader.want > 0 PROVE Cardinality(missed) <= Cardinality(new)
  <2>1. got # <<>> /\ last = got[Len(got)] /\ Len(got) \in DOMAIN got
    BY <1>3, <1>5, <1>6
  <2>2. last \in OnLevel(0) /\ Cardinality(seen) <= Cardinality(UpTo(last))
    <3>1. \A i \in DOMAIN got : got[i] \in OnLevel(0)
      BY <1>1, <2>1 DEF Collected
    <3>2. Cardinality(seen) <= Cardinality(UpTo(last)) + 0
      BY <1>1, <1>4, <2>1 DEF Collected
    <3> HIDE DEF last
    <3> QED BY <1>2, <2>1, <3>1, <3>2, <1>1, SplitIs
  <2> HIDE DEF last, seen, new
  <2> DEFINE old == seen \cap UpTo(last)
             rest == UpTo(last) \ seen
  <2>3. IsFiniteSet(OnLevel(0)) /\ IsFiniteSet(seen) /\ IsFiniteSet(UpTo(last))
    BY <1>1, <1>2, LevelsFinite, LevelsAre, SplitIs, FS_Subset DEF ListInv
  <2>4. \A z \in OnLevel(0) : After(last, z) <=> Newer(z, last)
    BY <1>2, <2>2, KeysAre, SkipListAssumption DEF After, Newer
  <2>5. missed = seen \ UpTo(last)
    BY <1>2, <2>4 DEF UpTo
  <2>6. rest \subseteq new
    BY DEF UpTo, new
  <2>7. Cardinality(missed) = Cardinality(seen) - Cardinality(old)
    <3>1. Cardinality(seen \ UpTo(last)) = Cardinality(seen) - Cardinality(seen \cap UpTo(last))
      BY <2>3, FS_Difference
    <3> QED BY <2>5, <3>1
  <2>8. Cardinality(rest) = Cardinality(UpTo(last)) - Cardinality(old)
    <3>1. Cardinality(UpTo(last) \ seen) = Cardinality(UpTo(last)) - Cardinality(UpTo(last) \cap seen)
      BY <2>3, FS_Difference
    <3>2. UpTo(last) \cap seen = old
      OBVIOUS
    <3> QED BY <3>1, <3>2
  <2>9. IsFiniteSet(new) /\ Cardinality(rest) <= Cardinality(new) /\ Cardinality(new) \in Nat
        /\ Cardinality(old) \in Nat /\ Cardinality(UpTo(last)) \in Nat
    <3>1. IsFiniteSet(new) /\ IsFiniteSet(old)
      BY <2>3, FS_Subset DEF new
    <3> QED BY <2>3, <2>6, <3>1, FS_Subset, FS_CardinalityType
  <2> HIDE DEF missed, old, rest
  <2> QED BY <1>2, <2>2, <2>7, <2>8, <2>9 DEF seen
<1> QED BY <1>5, <1>6

(* getItems(num) returns as many messages as were asked for and stored     *)
(* when it began, and a stored one newer than all of them is left out only *)
(* for one that was inserted during the call.                              *)
THEOREM LatestAreReturned == Spec => []LatestReturned
BY SkipListInvariant, Latest, PTL

-----------------------------------------------------------------------------
(* The list implements the set of messages.                                *)

LEMMA InsertionIsAtomic ==
  ASSUME SkipListInv, [Next]_vars
  PROVE  [MS!Next]_<<OnLevel(0), refused>>
<1>1. TypeOK /\ ListInv /\ Chained
  BY DEF SkipListInv, ListInv
<1>2. OnLevel(0) \subseteq Nodes /\ \A y, z \in OnLevel(0) : KeyOf[y] = KeyOf[z] => y = z
  BY <1>1, LevelsAre DEF Chained, Chain
<1> SUFFICES ASSUME ~UNCHANGED <<OnLevel(0), refused>> PROVE MS!Next
  OBVIOUS
<1>3. ~UNCHANGED vars /\ ~Read
  <2>1. UNCHANGED list => UNCHANGED <<OnLevel(0), refused>>
    BY LevelsStay DEF list
  <2> QED BY <2>1, ReadStep DEF vars, list
<1>4. CASE \E n \in Nodes : Refuse(n)
  <2>1. PICK n \in Nodes : Refuse(n)
    BY <1>4
  <2>2. Present(KeyOf[n]) /\ KeyOf[n] \in Nat /\ OnLevel(0)' = OnLevel(0)
        /\ refused' = refused \cup {n}
    BY <2>1, KeysAre, LevelsStay DEF Refuse
  <2>3. \E m \in OnLevel(0) : KeyOf[m] = KeyOf[n]
    BY <1>1, <2>2, FoundIs
  <2>4. MS!Refuse(n)
    BY <2>2, <2>3 DEF MS!Refuse, MS!Taken
  <2> QED BY <2>4 DEF MS!Next
<1>5. CASE \E n \in Nodes : \E h \in 1..MaxLevel : Insert(n, h)
  BY <1>5, InsertStep DEF Insert
<1>6. CASE Link
  <2> DEFINE n == writer.node
  <2>1. /\ OnLevel(0)' = IF 0 = writer.at THEN OnLevel(0) \cup {n} ELSE OnLevel(0)
        /\ n \notin OnLevel(writer.at)
        /\ \A m \in OnLevel(0) : KeyOf[m] # KeyOf[n] \/ m = n
        /\ refused' = refused
    BY <1>1, <1>6, LinkKeeps, LevelsAre DEF Link
  <2>2. writer.at = 0 /\ n \in Nodes
    BY <1>1, <1>6, <2>1, BusyWriter DEF Link, Idle
  <2>3. MS!Insert(n)
    BY <2>1, <2>2 DEF MS!Insert, MS!Taken
  <2> QED BY <2>2, <2>3 DEF MS!Next
<1>7. CASE Count
  BY <1>7, CountStep DEF Count
<1>8. CASE \E k \in Keys : Delete(k)
  <2>1. PICK k \in Keys : Delete(k)
    BY <1>8
  <2>2. /\ Found(k) \in OnLevel(0) /\ OnLevel(0)' = OnLevel(0) \ {Found(k)}
        /\ refused' = refused
    BY <1>1, <2>1, DeleteKeeps, LevelsAre DEF Delete
  <2>3. MS!Delete(Found(k))
    BY <2>2 DEF MS!Delete
  <2> QED BY <1>2, <2>2, <2>3 DEF MS!Next
<1> QED BY <1>3, <1>4, <1>5, <1>6, <1>7, <1>8 DEF Next, Write

(* The storage engine implements a set of messages with distinct keys:     *)
(* insert takes effect when it links level 0, deleteNode when it unlinks   *)
(* it, insert refuses a key that is there, and nothing else changes it.    *)
THEOREM ListIsMessageSet == Spec => IsMessageSet
<1>1. Init => MS!Init
  <2>1. SUFFICES ASSUME Init PROVE MS!Init
    OBVIOUS
  <2>2. forward \in Forwards /\ refused = {}
    BY <2>1 DEF Init, Forwards, Pointer
  <2>3. Chain(forward, 0, {})
    BY <2>1, LevelsAre DEF Init, Chain, Follows, Start
  <2>4. OnLevel(0) = {}
    BY <2>2, <2>3, ReachedIs, LevelsAre DEF OnLevel
  <2> QED BY <2>2, <2>4 DEF MS!Init
<1>2. SkipListInv /\ [Next]_vars => [MS!Next]_<<OnLevel(0), refused>>
  BY InsertionIsAtomic
<1> QED BY <1>1, <1>2, SkipListInvariant, PTL DEF Spec, IsMessageSet, MS!Spec
=============================================================================
