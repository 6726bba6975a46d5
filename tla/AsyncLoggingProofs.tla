------------------------- MODULE AsyncLoggingProofs -------------------------
(***************************************************************************)
(* Proofs about AsyncLogging, for any sizes of buffers and lines and any   *)
(* number of lines: its asserts hold, no buffer is shared, and the log is  *)
(* faithful.                                                               *)
(***************************************************************************)
EXTENDS AsyncLogging, FiniteSetTheorems, SequenceTheorems, TLAPS

OneEach(s) == \A i, j \in DOMAIN s : s[i] = s[j] => i = j

(* No two pointers to one buffer, place by place.                          *)
Unshared ==
    /\ cur # NULL
    /\ cur # next /\ cur # new1 /\ cur # new2
    /\ next # NULL => next # new1 /\ next # new2
    /\ new1 # NULL => new1 # new2
    /\ OneEach(output) /\ OneEach(toWrite)
    /\ Range(output) \cap Range(toWrite) = {}
    /\ {cur, next, new1, new2} \cap (Range(output) \cup Range(toWrite)) = {}

(* A spare buffer of the writer's that is there is empty.                  *)
Empty(b) == b # NULL => len[b] = 0

(* What the writer has when: the asserts, and what makes them true.  A     *)
(* spare buffer of the producers' that is gone has left a full one in the  *)
(* queue, so that a swap that takes both of the writer's buffers brings    *)
(* two for them.                                                           *)
Supplied ==
    /\ next = NULL => output # <<>>
    /\ pc \in {"none", "start"} => new1 = NULL /\ new2 = NULL /\ toWrite = <<>>
    /\ pc \in {"test", "lock", "wait", "swap"} =>
         new1 # NULL /\ new2 # NULL /\ toWrite = <<>>
    /\ pc \in {"cut", "write", "recycle1"} =>
         new1 = NULL /\ toWrite # <<>> /\ (new2 = NULL => Len(toWrite) >= 2)
    /\ pc = "write" => at >= 1
    /\ pc = "recycle2" => new1 # NULL /\ (new2 = NULL => toWrite # <<>>)
    /\ Empty(new1) /\ Empty(new2)

(* The thread that starts the log waits for the writer.                    *)
StartWaits ==
    /\ pc = "none" <=> owner = "new"
    /\ pc = "start" => owner = "latch" /\ running

(* There are no more buffers in use than lines and pointers.               *)
FewInUse == Len(output) <= logged /\ Len(output) + Len(toWrite) <= logged + 1

(* The inductive invariant.                                                *)
LogInv == TypeOK /\ Unshared /\ Supplied /\ StartWaits /\ FewInUse

-----------------------------------------------------------------------------
(* Sequences.                                                              *)

LEMMA Appended ==
  ASSUME NEW S, NEW s \in Seq(S), NEW x \in S
  PROVE  /\ Append(s, x) \in Seq(S) /\ Len(Append(s, x)) = Len(s) + 1
         /\ Append(s, x) # <<>>
         /\ Range(Append(s, x)) = Range(s) \cup {x}
         /\ OneEach(s) /\ x \notin Range(s) => OneEach(Append(s, x))
<1>1. /\ Len(s) \in Nat /\ DOMAIN s = 1..Len(s) /\ Append(s, x) \in Seq(S)
      /\ Len(Append(s, x)) = Len(s) + 1
      /\ DOMAIN Append(s, x) = 1..Len(s) + 1
      /\ \A i \in 1..Len(s) : Append(s, x)[i] = s[i]
      /\ Append(s, x)[Len(s) + 1] = x
  OBVIOUS
<1>2. OneEach(s) /\ x \notin Range(s) => OneEach(Append(s, x))
  BY <1>1 DEF OneEach, Range
<1>3. Range(Append(s, x)) \subseteq Range(s) \cup {x}
  BY <1>1 DEF Range
<1>4. x \in Range(Append(s, x))
  <2>1. Len(s) + 1 \in DOMAIN Append(s, x)
    BY <1>1
  <2> QED BY <1>1, <2>1 DEF Range
<1>5. ASSUME NEW y \in Range(s) PROVE y \in Range(Append(s, x))
  <2>1. PICK i \in 1..Len(s) : y = s[i]
    BY <1>1 DEF Range
  <2>2. i \in DOMAIN Append(s, x) /\ Append(s, x)[i] = y
    BY <1>1, <2>1
  <2> QED BY <2>2 DEF Range
<1> QED BY <1>1, <1>2, <1>3, <1>4, <1>5

(* A prefix of a sequence.                                                 *)
LEMMA Shortened ==
  ASSUME NEW S, NEW s \in Seq(S), NEW n \in 0..Len(s)
  PROVE  LET p == SubSeq(s, 1, n) IN
         /\ p \in Seq(S) /\ Len(p) = n
         /\ Range(p) \subseteq Range(s)
         /\ OneEach(s) => OneEach(p)
         /\ \A i \in 1..Len(s) : OneEach(s) /\ i > n => s[i] \notin Range(p)
<1> DEFINE p == SubSeq(s, 1, n)
<1>1. /\ Len(s) \in Nat /\ DOMAIN s = 1..Len(s)
      /\ p \in Seq(S) /\ Len(p) = n /\ DOMAIN p = 1..n
      /\ \A i \in 1..n : p[i] = s[i]
  OBVIOUS
<1> HIDE DEF p
<1>2. Range(p) \subseteq Range(s)
  BY <1>1 DEF Range
<1>3. OneEach(s) => OneEach(p)
  BY <1>1 DEF OneEach
<1>4. \A i \in 1..Len(s) : OneEach(s) /\ i > n => s[i] \notin Range(p)
  BY <1>1 DEF OneEach, Range
<1> QED BY <1>1, <1>2, <1>3, <1>4 DEF p

(* No more elements than places.                                           *)
LEMMA RangeBound ==
  ASSUME NEW S, NEW s \in Seq(S)
  PROVE  IsFiniteSet(Range(s)) /\ Cardinality(Range(s)) <= Len(s)
<1>1. Len(s) \in Nat /\ DOMAIN s = 1..Len(s)
  OBVIOUS
<1>2. s \in Surjection(1..Len(s), Range(s))
  BY <1>1 DEF Surjection, Range
<1>3. IsFiniteSet(1..Len(s)) /\ Cardinality(1..Len(s)) = Len(s)
  BY <1>1, FS_Interval
<1> QED BY <1>2, <1>3, FS_Surjection

(* `new` returns a buffer that is not in use.                              *)
LEMMA NewIsFresh ==
  ASSUME NEW S, IsFiniteSet(S), Cardinality(S) < MaxLines + 4
  PROVE  Fresh(S) \in Buffers /\ Fresh(S) \notin S
<1>1. \E b \in Buffers : b \notin S
  <2> SUFFICES ASSUME Buffers \in SUBSET S PROVE FALSE
    OBVIOUS
  <2>1. Cardinality(Buffers) <= Cardinality(S) /\ Cardinality(S) \in Nat
    BY FS_Subset, FS_CardinalityType
  <2> QED BY <2>1, AsyncLoggingAssumption, FS_CardinalityType
<1> QED BY <1>1 DEF Fresh

(* The buffers in use are few enough.                                      *)
LEMMA UseBound ==
  ASSUME TypeOK, NEW W, IsFiniteSet(W), {cur, next, new1, new2} \ {NULL} \subseteq W
  PROVE  /\ IsFiniteSet(InUse)
         /\ Cardinality(InUse) <= Cardinality(W) + Len(output) + Len(toWrite)
<1> DEFINE A == Range(output)
           B == Range(toWrite)
<1>1. /\ IsFiniteSet(A) /\ Cardinality(A) <= Len(output)
      /\ IsFiniteSet(B) /\ Cardinality(B) <= Len(toWrite)
      /\ Len(output) \in Nat /\ Len(toWrite) \in Nat
  BY RangeBound DEF TypeOK
<1>2. InUse \in SUBSET (W \cup (A \cup B))
  BY DEF InUse
<1> HIDE DEF A, B
<1>3. IsFiniteSet(A \cup B) /\ IsFiniteSet(W \cup (A \cup B))
  BY <1>1, FS_Union
<1>4. Cardinality(A \cup B) = Cardinality(A) + Cardinality(B) - Cardinality(A \cap B)
  BY <1>1, FS_Union
<1>5. Cardinality(W \cup (A \cup B)) =
        Cardinality(W) + Cardinality(A \cup B) - Cardinality(W \cap (A \cup B))
  BY <1>3, FS_Union
<1>6. IsFiniteSet(A \cap B) /\ IsFiniteSet(W \cap (A \cup B))
  BY <1>1, <1>3, FS_Subset
<1>7. /\ Cardinality(A) \in Nat /\ Cardinality(B) \in Nat /\ Cardinality(W) \in Nat
      /\ Cardinality(A \cap B) \in Nat /\ Cardinality(W \cap (A \cup B)) \in Nat
      /\ Cardinality(A \cup B) \in Nat
  BY <1>1, <1>3, <1>6, FS_CardinalityType
<1>8. /\ IsFiniteSet(InUse) /\ Cardinality(InUse) \in Nat
      /\ Cardinality(InUse) <= Cardinality(W \cup (A \cup B))
  BY <1>2, <1>3, FS_Subset, FS_CardinalityType
<1> QED BY <1>1, <1>4, <1>5, <1>7, <1>8

LEMMA FewPointers ==
  ASSUME NEW a, NEW b, NEW c
  PROVE  /\ IsFiniteSet({a, b}) /\ Cardinality({a, b}) <= 2
         /\ IsFiniteSet({a, b, c}) /\ Cardinality({a, b, c}) <= 3
<1>1. IsFiniteSet({a}) /\ Cardinality({a}) = 1
  BY FS_Singleton
<1>2. IsFiniteSet({a} \cup {b}) /\ Cardinality({a} \cup {b}) \in {1, 2}
  BY <1>1, FS_AddElement
<1>3. {a, b} = {a} \cup {b} /\ {a, b, c} = ({a} \cup {b}) \cup {c}
  OBVIOUS
<1>4. IsFiniteSet(({a} \cup {b}) \cup {c}) /\ Cardinality(({a} \cup {b}) \cup {c}) \in {1, 2, 3}
  BY <1>2, FS_AddElement
<1> QED BY <1>2, <1>3, <1>4

-----------------------------------------------------------------------------
(* The steps.                                                              *)

LEMMA LogNumbers ==
  /\ Capacity \in Nat /\ MaxLen \in Nat /\ MaxQueued \in Nat /\ MaxLines \in Nat
  /\ MaxLen < Capacity /\ MaxQueued >= 2 /\ NULL \notin Buffers
BY AsyncLoggingAssumption

(* start, stop and the join.                                               *)
LEMMA OwnerKeeps ==
  ASSUME LogInv, Start \/ Started \/ Stop \/ Join
  PROVE  LogInv'
<1> USE DEF LogInv
<1>1. UNCHANGED <<producer, writer, lines, len, at, logged, file, dropped>>
  BY DEF Start, Started, Stop, Join
<1>2. TypeOK'
  BY <1>1 DEF TypeOK, producer, writer, Start, Started, Stop, Join
<1>3. Unshared' /\ FewInUse'
  BY <1>1 DEF Unshared, FewInUse, producer, writer
<1>4. Supplied' /\ StartWaits'
  BY <1>1, LogNumbers DEF Supplied, Empty, StartWaits, producer, writer, Start, Started, Stop, Join
<1> QED BY <1>2, <1>3, <1>4

(* A line is put into buffer b, which is not one of the writer's.          *)
LEMMA PutKeeps ==
  ASSUME TypeOK, NEW b \in Buffers, NEW n \in 1..MaxLen, Put(b, n)
  PROVE  /\ lines' \in [Buffers -> Seq(Nat)] /\ len' \in [Buffers -> 0..Capacity]
         /\ \A c \in Buffers : c # b => len'[c] = len[c]
<1>1. logged + 1 \in Nat /\ len[b] \in 0..Capacity /\ lines[b] \in Seq(Nat)
  BY LogNumbers DEF TypeOK
<1>2. CASE Fits(b, n)
  <2>1. len[b] + n \in 0..Capacity
    BY <1>1, <1>2, LogNumbers DEF Fits
  <2>2. Append(lines[b], logged + 1) \in Seq(Nat)
    BY <1>1
  <2> QED BY <1>2, <2>1, <2>2 DEF Put, TypeOK
<1>3. CASE ~Fits(b, n)
  BY <1>3 DEF Put, TypeOK
<1> QED BY <1>2, <1>3

LEMMA LogKeeps ==
  ASSUME LogInv, NEW n \in 1..MaxLen, Log(n)
  PROVE  LogInv'
<1> USE DEF LogInv
<1>1. /\ UNCHANGED <<writer, at, running, owner, file, dropped>>
      /\ logged' = logged + 1 /\ logged \in 0..MaxLines /\ logged < MaxLines
      /\ logged' \in 0..MaxLines /\ owner \in {"started", "join", "stopped"}
      /\ logged \in Nat
  BY LogNumbers DEF Log, TypeOK
<1>2. cur \in Buffers /\ cur # new1 /\ cur # new2 /\ output \in Seq(Buffers)
      /\ toWrite \in Seq(Buffers)
  BY DEF TypeOK, Pointers, Unshared
<1>3. CASE AppendHere(n)
  <2>1. Put(cur, n) /\ UNCHANGED <<producer, pc>>
    BY <1>3 DEF AppendHere
  <2>2. /\ lines' \in [Buffers -> Seq(Nat)] /\ len' \in [Buffers -> 0..Capacity]
        /\ \A c \in Buffers : c # cur => len'[c] = len[c]
    BY <1>2, <2>1, PutKeeps
  <2>3. TypeOK'
    BY <1>1, <2>1, <2>2 DEF TypeOK, producer, writer
  <2>4. Unshared'
    BY <1>1, <2>1 DEF Unshared, producer, writer
  <2>5. Supplied' /\ StartWaits'
    BY <1>1, <1>2, <2>1, <2>2 DEF Supplied, Empty, StartWaits, producer, writer, TypeOK, Pointers
  <2>6. FewInUse'
    <3>1. Len(output) \in Nat /\ Len(toWrite) \in Nat
      BY <1>2
    <3> QED BY <1>1, <2>1, <3>1 DEF FewInUse, producer, writer
  <2> QED BY <2>3, <2>4, <2>5, <2>6
<1>4. CASE AppendNext(n)
  <2>1. /\ output' = Append(output, cur)
        /\ pc' = IF pc = "wait" THEN "swap" ELSE pc
    BY <1>4 DEF AppendNext
  <2>2. /\ output' \in Seq(Buffers) /\ Len(output') = Len(output) + 1 /\ output' # <<>>
        /\ Range(output') = Range(output) \cup {cur} /\ OneEach(output')
    BY <1>2, <2>1, Appended DEF Unshared
  <2>3. /\ cur' \in Buffers /\ next' = NULL
        /\ cur' \notin {cur, new1, new2} \cup Range(output) \cup Range(toWrite)
        /\ lines' \in [Buffers -> Seq(Nat)] /\ len' \in [Buffers -> 0..Capacity]
        /\ \A c \in Buffers : c # cur' => len'[c] = len[c]
    <3>1. CASE next # NULL
      <4>1. cur' = next /\ next' = NULL /\ Put(next, n) /\ next \in Buffers
        BY <1>4, <3>1 DEF AppendNext, TypeOK, Pointers
      <4> QED BY <3>1, <4>1, PutKeeps DEF Unshared
    <3>2. CASE next = NULL
      <4>1. /\ cur' = Fresh(InUse) /\ next' = NULL
            /\ lines' = [lines EXCEPT ![cur'] = <<logged + 1>>]
            /\ len' = [len EXCEPT ![cur'] = n]
        BY <1>4, <3>2 DEF AppendNext
      <4>2. IsFiniteSet(InUse) /\ Cardinality(InUse) < MaxLines + 4
        <5> DEFINE W == {cur, new1, new2}
        <5>1. /\ IsFiniteSet(W) /\ Cardinality(W) <= 3 /\ Cardinality(W) \in Nat
              /\ {cur, next, new1, new2} \ {NULL} \subseteq W
          BY <3>2, FewPointers, FS_CardinalityType
        <5> HIDE DEF W
        <5>2. /\ IsFiniteSet(InUse) /\ Cardinality(InUse) \in Nat
              /\ Cardinality(InUse) <= Cardinality(W) + Len(output) + Len(toWrite)
          BY <5>1, UseBound, FS_CardinalityType
        <5>3. Len(output) \in Nat /\ Len(toWrite) \in Nat
          BY <1>2
        <5> QED BY <1>1, <5>1, <5>2, <5>3, LogNumbers DEF FewInUse
      <4>3. cur' \in Buffers /\ cur' \notin InUse
        BY <4>1, <4>2, NewIsFresh
      <4>4. cur' \notin {cur, new1, new2} \cup Range(output) \cup Range(toWrite)
        BY <4>3, LogNumbers DEF InUse
      <4>5. n \in 0..Capacity /\ <<logged + 1>> \in Seq(Nat)
        BY <1>1, LogNumbers
      <4> QED BY <4>1, <4>3, <4>4, <4>5 DEF TypeOK
    <3> QED BY <3>1, <3>2
  <2>4. TypeOK'
    BY <1>1, <2>1, <2>2, <2>3 DEF TypeOK, writer, Pointers
  <2>5. Unshared'
    <3>1. NULL \notin Range(output) \cup Range(toWrite) \cup {cur, cur'}
      BY <1>2, <2>3, LogNumbers DEF Range
    <3>2. UNCHANGED <<new1, new2, toWrite>>
      BY <1>1 DEF writer
    <3>3. {cur', NULL, new1, new2} \cap (Range(output) \cup {cur} \cup Range(toWrite)) = {}
      BY <1>2, <2>3, <3>1 DEF Unshared
    <3>4. (Range(output) \cup {cur}) \cap Range(toWrite) = {}
      BY DEF Unshared
    <3> QED BY <2>2, <2>3, <3>1, <3>2, <3>3, <3>4 DEF Unshared
  <2>6. Supplied' /\ StartWaits'
    <3>1. Empty(new1)' /\ Empty(new2)'
      BY <1>1, <2>3 DEF Supplied, Empty, writer, TypeOK, Pointers
    <3> QED BY <1>1, <2>1, <2>2, <3>1 DEF Supplied, StartWaits, writer
  <2>7. FewInUse'
    <3>1. Len(output) \in Nat /\ Len(toWrite) \in Nat
      BY <1>2
    <3> QED BY <1>1, <2>2, <3>1 DEF FewInUse, writer
  <2> QED BY <2>4, <2>5, <2>6, <2>7
<1> QED BY <1>3, <1>4 DEF Log

LEMMA BeginKeeps ==
  ASSUME LogInv, Begin
  PROVE  LogInv'
<1> USE DEF LogInv
<1>1. /\ pc = "start" /\ pc' = "test" /\ toWrite = <<>> /\ new1 = NULL /\ new2 = NULL
      /\ new1' = Fresh(InUse) /\ new2' = Fresh(InUse \cup {new1'})
      /\ lines' = [lines EXCEPT ![new1'] = <<>>, ![new2'] = <<>>]
      /\ len' = [len EXCEPT ![new1'] = 0, ![new2'] = 0]
      /\ UNCHANGED <<producer, toWrite, at, running, owner, logged, file, dropped>>
  BY DEF Begin, Supplied
<1>2. IsFiniteSet(InUse) /\ Cardinality(InUse) \in Nat /\ Cardinality(InUse) <= 2 + MaxLines
  <2> DEFINE W == {cur, next}
  <2>1. /\ IsFiniteSet(W) /\ Cardinality(W) <= 2 /\ Cardinality(W) \in Nat
        /\ {cur, next, new1, new2} \ {NULL} \subseteq W
    BY <1>1, FewPointers, FS_CardinalityType
  <2> HIDE DEF W
  <2>2. /\ IsFiniteSet(InUse) /\ Cardinality(InUse) \in Nat
        /\ Cardinality(InUse) <= Cardinality(W) + Len(output) + Len(toWrite)
    BY <2>1, UseBound, FS_CardinalityType
  <2>3. Len(output) \in Nat /\ Len(toWrite) = 0 /\ Len(output) <= MaxLines
    BY <1>1, LogNumbers DEF FewInUse, TypeOK
  <2> QED BY <2>1, <2>2, <2>3, LogNumbers
<1>3. new1' \in Buffers /\ new1' \notin InUse
  BY <1>1, <1>2, NewIsFresh, LogNumbers
<1>4. new2' \in Buffers /\ new2' \notin InUse \cup {new1'}
  <2>1. IsFiniteSet(InUse \cup {new1'})
        /\ Cardinality(InUse \cup {new1'}) = Cardinality(InUse) + 1
    BY <1>2, <1>3, FS_AddElement
  <2> QED BY <1>1, <1>2, <2>1, NewIsFresh, LogNumbers
<1>5. len' \in [Buffers -> 0..Capacity] /\ lines' \in [Buffers -> Seq(Nat)]
      /\ len'[new1'] = 0 /\ len'[new2'] = 0
  <2>1. <<>> \in Seq(Nat) /\ 0 \in 0..Capacity
    BY LogNumbers
  <2>2. len' \in [Buffers -> 0..Capacity] /\ len'[new1'] = 0 /\ len'[new2'] = 0
    BY <1>1, <1>3, <1>4, <2>1 DEF TypeOK
  <2>3. lines' \in [Buffers -> Seq(Nat)]
    BY <1>1, <1>3, <1>4, <2>1 DEF TypeOK
  <2> QED BY <2>2, <2>3
<1>6. TypeOK'
  BY <1>1, <1>3, <1>4, <1>5 DEF TypeOK, producer, Pointers
<1>7. {new1', new2'} \cap ({cur, next, NULL} \cup Range(output) \cup Range(toWrite)) = {}
  BY <1>3, <1>4, LogNumbers DEF InUse
<1>8. Unshared'
  BY <1>1, <1>4, <1>7 DEF Unshared, producer
<1>9. Supplied' /\ StartWaits' /\ FewInUse'
  BY <1>1, <1>5, <1>7 DEF Supplied, Empty, StartWaits, FewInUse, producer
<1> QED BY <1>6, <1>8, <1>9

\* Test, Lock, Timeout, WriteBuffer: the pointers and the buffers stay.
LEMMA WaitKeeps ==
  ASSUME LogInv, Test \/ Lock \/ Timeout \/ WriteBuffer
  PROVE  LogInv'
<1> USE DEF LogInv
<1>1. UNCHANGED <<producer, writer, lines, len, running, owner, logged, dropped>>
  BY DEF Test, Lock, Timeout, WriteBuffer
<1>2. TypeOK'
  <2>1. CASE WriteBuffer
    <3>1. toWrite \in Seq(Buffers) /\ at \in 1..Len(toWrite)
      BY <2>1 DEF WriteBuffer, TypeOK, Supplied
    <3>4. lines[toWrite[at]] \in Seq(Nat)
      BY <3>1 DEF TypeOK
    <3>2. at' \in Nat /\ UNCHANGED pc
      BY <2>1 DEF WriteBuffer, TypeOK
    <3>3. file' \in Seq(Nat)
      BY <2>1, <3>4 DEF WriteBuffer, TypeOK
    <3> QED BY <1>1, <3>2, <3>3 DEF TypeOK, producer, writer
  <2>2. CASE Test \/ Lock \/ Timeout
    BY <1>1, <2>2 DEF TypeOK, producer, writer, Test, Lock, Timeout
  <2> QED BY <2>1, <2>2
<1>3. Unshared' /\ FewInUse'
  BY <1>1 DEF Unshared, FewInUse, producer, writer
<1>4. Supplied' /\ StartWaits'
  <2>1. pc' = "write" => pc = "write" /\ at' >= 1
    <3>1. at \in Nat
      BY DEF TypeOK
    <3> QED BY <3>1 DEF Supplied, Test, Lock, Timeout, WriteBuffer
  <2>2. CASE WriteBuffer
    BY <1>1, <2>1, <2>2 DEF Supplied, Empty, StartWaits, producer, writer, WriteBuffer
  <2>3. CASE Test \/ Lock \/ Timeout
    BY <1>1, <2>1, <2>3 DEF Supplied, Empty, StartWaits, producer, writer, Test, Lock, Timeout
  <2> QED BY <2>2, <2>3
<1> QED BY <1>2, <1>3, <1>4

LEMMA SwapKeeps ==
  ASSUME LogInv, Swap
  PROVE  LogInv'
<1> USE DEF LogInv
<1>1. /\ pc = "swap" /\ pc' = "cut" /\ toWrite = <<>> /\ new1 # NULL /\ new2 # NULL
      /\ toWrite' = Append(output, cur) /\ output' = <<>> /\ cur' = new1 /\ new1' = NULL
      /\ \/ next = NULL /\ next' = new2 /\ new2' = NULL
         \/ next # NULL /\ next' = next /\ new2' = new2
      /\ UNCHANGED <<lines, len, at, running, owner, logged, file, dropped>>
  BY DEF Swap, Supplied
<1>2. /\ cur \in Buffers /\ output \in Seq(Buffers) /\ Len(output) \in Nat
      /\ cur \notin Range(output) /\ OneEach(output) /\ new1 \in Buffers
      /\ NULL \notin Range(output) \cup {cur}
  <2>1. cur \in Buffers /\ output \in Seq(Buffers) /\ new1 \in Buffers
    BY <1>1 DEF TypeOK, Pointers, Unshared
  <2>2. Len(output) \in Nat /\ Range(output) \subseteq Buffers
    BY <2>1 DEF Range
  <2> QED BY <2>1, <2>2, LogNumbers DEF Unshared
<1>3. /\ toWrite' \in Seq(Buffers) /\ Len(toWrite') = Len(output) + 1 /\ toWrite' # <<>>
      /\ Range(toWrite') = Range(output) \cup {cur} /\ OneEach(toWrite')
  BY <1>1, <1>2, Appended
<1>4. output' \in Seq(Buffers) /\ Range(output') = {} /\ OneEach(output') /\ Len(output') = 0
  BY <1>1 DEF Range, OneEach
<1>5. TypeOK'
  BY <1>1, <1>3, <1>4 DEF TypeOK, Pointers
<1>6. Unshared'
  BY <1>1, <1>2, <1>3, <1>4 DEF Unshared
<1>7. Supplied' /\ StartWaits'
  <2>1. next = NULL => Len(toWrite') >= 2
    <3>1. output # <<>> => Len(output) >= 1
      BY <1>2
    <3> QED BY <1>3, <1>2, <3>1 DEF Supplied
  <2> QED BY <1>1, <1>3, <2>1 DEF Supplied, Empty, StartWaits
<1>8. FewInUse'
  <2>1. logged \in Nat /\ Len(output) <= logged
    BY LogNumbers DEF TypeOK, FewInUse
  <2> QED BY <1>1, <1>2, <1>3, <1>4, <2>1 DEF FewInUse
<1> QED BY <1>5, <1>6, <1>7, <1>8

(* The buffers to write become fewer, the other pointers stay.             *)
LEMMA FewerKeeps ==
  ASSUME LogInv, NEW n \in 0..Len(toWrite), toWrite' = SubSeq(toWrite, 1, n),
         UNCHANGED <<producer, new1, new2, logged>>
  PROVE  /\ toWrite' \in Seq(Buffers) /\ Len(toWrite') = n
         /\ Unshared' /\ FewInUse'
<1> USE DEF LogInv
<1>1. /\ toWrite \in Seq(Buffers) /\ Len(toWrite) \in Nat /\ Len(output) \in Nat
      /\ logged \in Nat
  BY LogNumbers DEF TypeOK
<1>2. /\ toWrite' \in Seq(Buffers) /\ Len(toWrite') = n
      /\ Range(toWrite') \subseteq Range(toWrite) /\ OneEach(toWrite')
  BY <1>1, Shortened DEF Unshared
<1>3. Unshared'
  BY <1>2 DEF Unshared, producer
<1>4. FewInUse'
  BY <1>1, <1>2 DEF FewInUse, producer
<1> QED BY <1>2, <1>3, <1>4

LEMMA CutKeeps ==
  ASSUME LogInv, Cut \/ Written
  PROVE  LogInv'
<1> USE DEF LogInv
<1>1. /\ UNCHANGED <<producer, new1, new2, lines, len, running, owner, logged, file>>
      /\ \/ pc = "cut" /\ pc' = "write" /\ at' = 1
         \/ pc = "write" /\ pc' = "recycle1" /\ at' = at /\ dropped' = dropped
      /\ toWrite # <<>> /\ new1 = NULL /\ (new2 = NULL => Len(toWrite) >= 2)
  BY DEF Cut, Written, Supplied
<1>2. toWrite \in Seq(Buffers) /\ Len(toWrite) \in Nat /\ Len(toWrite) >= 1
  BY <1>1 DEF TypeOK
<1>3. PICK n \in 1..Len(toWrite) :
        /\ toWrite' = SubSeq(toWrite, 1, n) /\ (Len(toWrite) >= 2 => n >= 2)
  <2>1. CASE toWrite' = toWrite
    <3>1. toWrite = SubSeq(toWrite, 1, Len(toWrite))
      BY <1>2, SubSeqFull
    <3>2. Len(toWrite) \in 1..Len(toWrite)
      BY <1>2
    <3>3. toWrite' = SubSeq(toWrite, 1, Len(toWrite))
      BY <2>1, <3>1
    <3> QED BY <3>2, <3>3
  <2>2. CASE Len(toWrite) > 2 /\ toWrite' = SubSeq(toWrite, 1, 2)
    BY <1>2, <2>2
  <2>3. Len(toWrite) > MaxQueued => Len(toWrite) > 2
    BY <1>2, LogNumbers
  <2> QED BY <2>1, <2>2, <2>3 DEF Cut, Written
<1>4. /\ toWrite' \in Seq(Buffers) /\ Len(toWrite') = n
      /\ Unshared' /\ FewInUse'
  BY <1>1, <1>2, <1>3, FewerKeeps
<1>5. dropped' \subseteq Nat
  <2>1. CASE Cut
    <3>1. \A i \in DOMAIN toWrite : Range(lines[toWrite[i]]) \subseteq Nat
      <4> TAKE i \in DOMAIN toWrite
      <4>1. toWrite[i] \in Buffers
        BY <1>2
      <4>2. lines[toWrite[i]] \in Seq(Nat)
        BY <4>1 DEF TypeOK
      <4> QED BY <4>2 DEF Range
    <3>2. UNION {Range(lines[toWrite[i]]) : i \in DOMAIN toWrite \ DOMAIN toWrite'} \subseteq Nat
      BY <3>1
    <3> QED BY <2>1, <3>2 DEF Cut, TypeOK
  <2>2. CASE Written
    BY <2>2 DEF Written, TypeOK
  <2> QED BY <2>1, <2>2
<1>6. TypeOK'
  <2>1. at' \in Nat /\ pc' \in {"write", "recycle1"}
    BY <1>1 DEF TypeOK
  <2> QED BY <1>1, <1>4, <1>5, <2>1 DEF TypeOK, producer
<1>7. Supplied' /\ StartWaits'
  <2>1. toWrite' # <<>> /\ (new2 = NULL => Len(toWrite') >= 2)
    BY <1>1, <1>2, <1>3, <1>4
  <2>2. pc' = "write" => at' >= 1
    BY <1>1
  <2> QED BY <1>1, <2>1, <2>2 DEF Supplied, Empty, StartWaits, producer
<1> QED BY <1>4, <1>6, <1>7

(* Buffer b, the last of those to write, is cleared.                       *)
LEMMA LastOfWritten ==
  ASSUME LogInv, toWrite # <<>>
  PROVE  /\ Last(toWrite) \in Buffers /\ Last(toWrite) \in Range(toWrite)
         /\ Len(toWrite) - 1 \in 0..Len(toWrite)
         /\ Last(toWrite) \notin Range(SubSeq(toWrite, 1, Len(toWrite) - 1))
<1>1. /\ toWrite \in Seq(Buffers) /\ Len(toWrite) \in Nat /\ Len(toWrite) >= 1
      /\ OneEach(toWrite) /\ DOMAIN toWrite = 1..Len(toWrite)
  BY DEF LogInv, TypeOK, Unshared
<1>2. Len(toWrite) \in 1..Len(toWrite) /\ Len(toWrite) - 1 \in 0..Len(toWrite)
  BY <1>1
<1>3. toWrite[Len(toWrite)] \notin Range(SubSeq(toWrite, 1, Len(toWrite) - 1))
  BY <1>1, <1>2, Shortened
<1>4. toWrite[Len(toWrite)] \in Buffers /\ toWrite[Len(toWrite)] \in Range(toWrite)
  BY <1>1, <1>2 DEF Range
<1> QED BY <1>2, <1>3, <1>4 DEF Last

LEMMA ClearKeeps ==
  ASSUME TypeOK, NEW b \in Buffers, Clear(b)
  PROVE  /\ lines' \in [Buffers -> Seq(Nat)] /\ len' \in [Buffers -> 0..Capacity]
         /\ len'[b] = 0 /\ \A c \in Buffers : c # b => len'[c] = len[c]
<1>1. <<>> \in Seq(Nat) /\ 0 \in 0..Capacity
  BY LogNumbers
<1> QED BY <1>1 DEF Clear, TypeOK

LEMMA Recycle1Keeps ==
  ASSUME LogInv, Recycle1
  PROVE  LogInv'
<1> USE DEF LogInv
<1> DEFINE b == Last(toWrite)
           rest == SubSeq(toWrite, 1, Len(toWrite) - 1)
<1>1. /\ pc = "recycle1" /\ pc' = "recycle2" /\ new1 = NULL /\ toWrite # <<>>
      /\ (new2 = NULL => Len(toWrite) >= 2)
      /\ new1' = b /\ toWrite' = rest /\ Clear(b)
      /\ UNCHANGED <<producer, new2, at, running, owner, logged, file, dropped>>
  BY DEF Recycle1, Supplied, Front
<1>2. /\ b \in Buffers /\ b \in Range(toWrite) /\ b \notin Range(rest)
      /\ Len(toWrite) - 1 \in 0..Len(toWrite)
  BY <1>1, LastOfWritten
<1>3. /\ lines' \in [Buffers -> Seq(Nat)] /\ len' \in [Buffers -> 0..Capacity]
      /\ len'[b] = 0 /\ \A c \in Buffers : c # b => len'[c] = len[c]
  BY <1>1, <1>2, ClearKeeps
<1>4. /\ toWrite \in Seq(Buffers) /\ rest \in Seq(Buffers) /\ Len(rest) = Len(toWrite) - 1
      /\ Range(rest) \subseteq Range(toWrite) /\ OneEach(rest) /\ Len(toWrite) \in Nat
  <2>1. toWrite \in Seq(Buffers) /\ OneEach(toWrite) /\ Len(toWrite) \in Nat
    BY DEF TypeOK, Unshared
  <2> QED BY <1>2, <2>1, Shortened
<1> HIDE DEF b, rest
<1>5. TypeOK'
  BY <1>1, <1>2, <1>3, <1>4 DEF TypeOK, producer, Pointers
<1>6. /\ b \notin {cur, next, new2} \cup Range(output) /\ b # NULL
      /\ UNCHANGED <<cur, next, output, new2>>
  BY <1>1, <1>2, LogNumbers DEF Unshared, producer
<1>7. Unshared'
  BY <1>1, <1>2, <1>4, <1>6 DEF Unshared
<1>8. Supplied' /\ StartWaits'
  <2>1. new2 = NULL => rest # <<>>
    BY <1>1, <1>4
  <2>2. Empty(new1)' /\ Empty(new2)'
    BY <1>1, <1>2, <1>3, <1>6 DEF Supplied, Empty, TypeOK, Pointers
  <2> QED BY <1>1, <1>6, <2>1, <2>2 DEF Supplied, StartWaits
<1>9. FewInUse'
  <2>1. Len(output) \in Nat /\ logged \in Nat
    BY LogNumbers DEF TypeOK
  <2> QED BY <1>1, <1>4, <2>1 DEF FewInUse, producer
<1> QED BY <1>5, <1>7, <1>8, <1>9

LEMMA Recycle2Keeps ==
  ASSUME LogInv, Recycle2
  PROVE  LogInv'
<1> USE DEF LogInv
<1> DEFINE b == Last(toWrite)
<1>1. /\ pc = "recycle2" /\ pc' = "test" /\ new1 # NULL /\ toWrite' = <<>>
      /\ (new2 = NULL => toWrite # <<>>)
      /\ UNCHANGED <<producer, new1, at, running, owner, logged, file, dropped>>
  BY DEF Recycle2, Supplied
<1>2. /\ toWrite' \in Seq(Buffers) /\ Len(toWrite') = 0 /\ Range(toWrite') = {}
      /\ OneEach(toWrite')
  BY <1>1 DEF Range, OneEach
<1>3. FewInUse'
  <2>1. Len(output) \in Nat /\ logged \in Nat
    BY LogNumbers DEF TypeOK
  <2> QED BY <1>1, <1>2, <2>1 DEF FewInUse, producer
<1>4. CASE new2 # NULL
  <2>1. UNCHANGED <<new2, lines, len>>
    BY <1>4 DEF Recycle2
  <2>2. TypeOK' /\ Unshared'
    BY <1>1, <1>2, <2>1 DEF TypeOK, Unshared, producer
  <2>3. Supplied' /\ StartWaits'
    BY <1>1, <1>4, <2>1 DEF Supplied, Empty, StartWaits, producer
  <2> QED BY <1>3, <2>2, <2>3
<1>5. CASE new2 = NULL
  <2>1. new2' = b /\ Clear(b) /\ toWrite # <<>>
    BY <1>1, <1>5 DEF Recycle2
  <2>2. b \in Buffers /\ b \in Range(toWrite)
    BY <2>1, LastOfWritten
  <2>3. /\ lines' \in [Buffers -> Seq(Nat)] /\ len' \in [Buffers -> 0..Capacity]
        /\ len'[b] = 0 /\ \A c \in Buffers : c # b => len'[c] = len[c]
    BY <2>1, <2>2, ClearKeeps
  <2> HIDE DEF b
  <2>4. TypeOK'
    BY <1>1, <1>2, <2>1, <2>2, <2>3 DEF TypeOK, producer, Pointers
  <2>5. /\ b \notin {cur, next, new1} \cup Range(output) /\ b # NULL
        /\ UNCHANGED <<cur, next, output, new1>>
    BY <1>1, <2>2, LogNumbers DEF Unshared, producer
  <2>6. Unshared'
    BY <1>1, <1>2, <2>1, <2>5 DEF Unshared
  <2>7. Supplied' /\ StartWaits'
    <3>1. Empty(new1)' /\ Empty(new2)'
      BY <1>1, <2>1, <2>3, <2>5 DEF Supplied, Empty, TypeOK, Pointers
    <3> QED BY <1>1, <2>1, <2>5, <3>1 DEF Supplied, StartWaits
  <2> QED BY <1>3, <2>4, <2>6, <2>7
<1> QED BY <1>4, <1>5

LEMMA LogInitKeeps ==
  Init => LogInv
<1> SUFFICES ASSUME Init PROVE LogInv
  OBVIOUS
<1>1. /\ IsFiniteSet({}) /\ Cardinality({}) = 0
      /\ IsFiniteSet({cur}) /\ Cardinality({cur}) = 1
  BY FS_EmptySet, FS_Singleton
<1>2. cur \in Buffers /\ next \in Buffers /\ next # cur
  BY <1>1, LogNumbers, NewIsFresh DEF Init
<1>3. <<>> \in Seq(Nat) /\ <<>> \in Seq(Buffers) /\ Len(<<>>) = 0
      /\ \A s : s = <<>> => Range(s) = {} /\ OneEach(s)
  BY DEF Range, OneEach
<1>4. TypeOK
  <2>1. 0 \in 0..Capacity /\ 0 \in 0..MaxLines
    BY LogNumbers
  <2>2. lines \in [Buffers -> Seq(Nat)] /\ len \in [Buffers -> 0..Capacity]
    BY <1>3, <2>1 DEF Init
  <2> QED BY <1>2, <1>3, <2>1, <2>2 DEF Init, TypeOK, Pointers
<1>5. Unshared /\ FewInUse
  BY <1>2, <1>3, LogNumbers DEF Init, Unshared, FewInUse
<1>6. Supplied /\ StartWaits
  BY <1>2, LogNumbers DEF Init, Supplied, Empty, StartWaits
<1> QED BY <1>4, <1>5, <1>6 DEF LogInv

LEMMA LogStutters ==
  ASSUME LogInv, UNCHANGED vars
  PROVE  LogInv'
<1>1. TypeOK'
  BY DEF LogInv, vars, TypeOK
<1>2. Unshared' /\ Supplied' /\ StartWaits' /\ FewInUse'
  BY DEF LogInv, vars, Unshared, Supplied, Empty, StartWaits, FewInUse
<1> QED BY <1>1, <1>2 DEF LogInv

-----------------------------------------------------------------------------
(* The theorems.                                                           *)

(* Whatever the producers, the writer and the owner do, the log keeps its  *)
(* invariant.                                                              *)
THEOREM LogInvariant == Spec => []LogInv
<1>1. LogInv /\ [Next]_vars => LogInv'
  BY OwnerKeeps, LogKeeps, BeginKeeps, WaitKeeps, SwapKeeps, CutKeeps, Recycle1Keeps,
     Recycle2Keeps, LogStutters DEF Next, WriterStep
<1> QED BY <1>1, LogInitKeeps, PTL DEF Spec

(* The variables of AsyncLogging keep their types.                         *)
THEOREM LogTypes == Spec => []TypeOK
<1>1. LogInv => TypeOK
  BY DEF LogInv
<1> QED BY <1>1, LogInvariant, PTL

(* The asserts of threadFunc hold whenever it reaches them.                *)
THEOREM AssertsAlwaysHold == Spec => []AssertsHold
<1>1. LogInv => AssertsHold
  BY DEF LogInv, Supplied, Empty, StartWaits, AssertsHold
<1> QED BY <1>1, LogInvariant, PTL

(* No buffer is reached by two pointers.                                   *)
THEOREM BuffersUnshared == Spec => []NoSharing
<1>1. ASSUME LogInv PROVE NoSharing
  <2> DEFINE four == <<cur, next, new1, new2>>
             o == Len(output)
             w == Len(toWrite)
  <2>1. /\ output \in Seq(Buffers) /\ toWrite \in Seq(Buffers) /\ o \in Nat /\ w \in Nat
        /\ four \in Seq(Pointers) /\ output \in Seq(Pointers) /\ toWrite \in Seq(Pointers)
    BY <1>1 DEF LogInv, TypeOK, Pointers
  <2>2. /\ DOMAIN Refs = 1..4 + o + w
        /\ Refs[1] = cur /\ Refs[2] = next /\ Refs[3] = new1 /\ Refs[4] = new2
        /\ \A i \in 5..4 + o : Refs[i] = output[i - 4]
        /\ \A i \in 5 + o..4 + o + w : Refs[i] = toWrite[i - 4 - o]
    BY <2>1 DEF Refs
  <2>3. /\ \A i \in 1..o : output[i] \in Range(output)
        /\ \A i \in 1..w : toWrite[i] \in Range(toWrite)
    BY <2>1 DEF Range
  <2>4. /\ \A i \in 5..4 + o : Refs[i] \in Range(output)
        /\ \A i \in 5 + o..4 + o + w : Refs[i] \in Range(toWrite)
        /\ \A i \in 1..4 : Refs[i] \in {cur, next, new1, new2}
    <3>1. /\ \A i \in 5..4 + o : i - 4 \in 1..o
          /\ \A i \in 5 + o..4 + o + w : i - 4 - o \in 1..w
      BY <2>1
    <3>2. /\ \A i \in 5..4 + o : Refs[i] \in Range(output)
          /\ \A i \in 5 + o..4 + o + w : Refs[i] \in Range(toWrite)
      BY <2>2, <2>3, <3>1
    <3>3. \A i \in 1..4 : i \in {1, 2, 3, 4}
      OBVIOUS
    <3> QED BY <2>2, <3>2, <3>3
  <2>5. \A i, j \in 1..4 : Refs[i] = Refs[j] /\ Refs[i] # NULL => i = j
    BY <1>1, <2>2 DEF LogInv, Unshared
  <2>6. \A i, j \in 5..4 + o : Refs[i] = Refs[j] => i = j
    BY <1>1, <2>1, <2>2 DEF LogInv, Unshared, OneEach
  <2>7. \A i, j \in 5 + o..4 + o + w : Refs[i] = Refs[j] => i = j
    BY <1>1, <2>1, <2>2 DEF LogInv, Unshared, OneEach
  <2>8. DOMAIN Refs = (1..4) \cup (5..4 + o) \cup (5 + o..4 + o + w)
    BY <2>1, <2>2
  <2> QED BY <1>1, <2>4, <2>5, <2>6, <2>7, <2>8 DEF LogInv, Unshared, NoSharing
<1> QED BY <1>1, LogInvariant, PTL

-----------------------------------------------------------------------------
(* The lines: lists of buffers with increasing lines.                      *)

(* The sequence f and then the lines l of the buffers of q are increasing, *)
(* and have the elements of S.                                             *)
Faithful(f, q, l, S) ==
    /\ Increasing(f)
    /\ \A i \in DOMAIN q :
         /\ Increasing(l[q[i]])
         /\ Before(f, l[q[i]])
         /\ \A j \in DOMAIN q : i < j => Before(l[q[i]], l[q[j]])
    /\ Range(f) \cup UNION {Range(l[q[i]]) : i \in DOMAIN q} = S

Contents == [Buffers -> Seq(Nat)]

(* Only the buffers of the list count.                                     *)
LEMMA SameContents ==
  ASSUME NEW f, NEW q, NEW l, NEW m, NEW S, Faithful(f, q, l, S),
         \A b \in Range(q) : m[b] = l[b]
  PROVE  Faithful(f, q, m, S)
<1>1. \A i \in DOMAIN q : m[q[i]] = l[q[i]]
  BY DEF Range
<1> QED BY <1>1 DEF Faithful

LEMMA AppendDomain ==
  ASSUME NEW T, NEW q \in Seq(T), NEW b \in T
  PROVE  /\ Len(q) \in Nat /\ DOMAIN q = 1..Len(q) /\ Append(q, b) \in Seq(T)
         /\ DOMAIN Append(q, b) = (1..Len(q)) \cup {Len(q) + 1}
         /\ \A i \in 1..Len(q) : Append(q, b)[i] = q[i] /\ i < Len(q) + 1
         /\ Append(q, b)[Len(q) + 1] = b
OBVIOUS

(* An empty buffer joins the list.                                         *)
LEMMA EmptyJoins ==
  ASSUME NEW f, NEW q \in Seq(Buffers), NEW l, NEW S, Faithful(f, q, l, S),
         NEW b \in Buffers, l[b] = <<>>
  PROVE  Faithful(f, Append(q, b), l, S)
<1> DEFINE n == Len(q)
           r == Append(q, b)
<1>1. /\ n \in Nat /\ DOMAIN q = 1..n /\ DOMAIN r = (1..n) \cup {n + 1}
      /\ \A i \in 1..n : r[i] = q[i] /\ i < n + 1
      /\ r[n + 1] = b
  BY AppendDomain
<1>2. Increasing(<<>>) /\ Range(<<>>) = {} /\ \A s : Before(s, <<>>)
  BY DEF Increasing, Before, Range
<1> HIDE DEF r, n
<1>3. \A i, j \in DOMAIN r : i < j => i \in 1..n
  BY <1>1
<1>4. \A i \in DOMAIN r :
         /\ Increasing(l[r[i]])
         /\ Before(f, l[r[i]])
         /\ \A j \in DOMAIN r : i < j => Before(l[r[i]], l[r[j]])
  BY <1>1, <1>2, <1>3 DEF Faithful
<1>5. UNION {Range(l[r[i]]) : i \in DOMAIN r} = UNION {Range(l[q[i]]) : i \in DOMAIN q}
  <2>1. ASSUME NEW i \in DOMAIN r, NEW x \in Range(l[r[i]])
        PROVE  i \in DOMAIN q /\ x \in Range(l[q[i]])
    BY <1>1, <1>2, <2>1
  <2>2. \A i \in DOMAIN q : i \in DOMAIN r /\ r[i] = q[i]
    BY <1>1
  <2>3. UNION {Range(l[q[i]]) : i \in DOMAIN q} \subseteq UNION {Range(l[r[i]]) : i \in DOMAIN r}
    BY <2>2
  <2>4. UNION {Range(l[r[i]]) : i \in DOMAIN r} \subseteq UNION {Range(l[q[i]]) : i \in DOMAIN q}
    BY <2>1
  <2> QED BY <2>3, <2>4
<1> QED BY <1>4, <1>5 DEF Faithful, r

(* A line with a higher number than all joins the last buffer.             *)
LEMMA LineJoins ==
  ASSUME NEW f, NEW q \in Seq(Buffers), NEW b \in Buffers, b \notin Range(q),
         NEW l \in Contents, NEW m, NEW S \in SUBSET Nat,
         Faithful(f, Append(q, b), l, S),
         NEW x \in Nat, \A y \in S : y < x,
         m[b] = Append(l[b], x), \A c \in Range(q) : m[c] = l[c]
  PROVE  Faithful(f, Append(q, b), m, S \cup {x})
<1> DEFINE n == Len(q)
           r == Append(q, b)
           s == l[b]
           t == m[b]
<1>1. /\ n \in Nat /\ DOMAIN q = 1..n /\ DOMAIN r = (1..n) \cup {n + 1}
      /\ \A i \in 1..n : r[i] = q[i] /\ i < n + 1
      /\ r[n + 1] = b
  BY AppendDomain
<1>2. \A i \in 1..n : m[r[i]] = l[r[i]]
  BY <1>1 DEF Range
<1>3. /\ s \in Seq(Nat) /\ Len(s) \in Nat /\ DOMAIN s = 1..Len(s)
      /\ DOMAIN t = (1..Len(s)) \cup {Len(s) + 1}
      /\ \A i \in 1..Len(s) : t[i] = s[i] /\ i < Len(s) + 1
      /\ t[Len(s) + 1] = x
  BY AppendDomain DEF Contents
<1>4. Range(t) = Range(s) \cup {x}
  BY <1>3 DEF Range
<1> HIDE DEF n, r, s, t
<1>5. n + 1 \in DOMAIN r /\ l[r[n + 1]] = s /\ m[r[n + 1]] = t
  BY <1>1 DEF s, t
<1>6. Range(f) \subseteq S /\ \A i \in DOMAIN r : Range(l[r[i]]) \subseteq S
  BY DEF Faithful, r
<1>7. Range(s) \subseteq S
  BY <1>5, <1>6
<1>8. Increasing(t)
  <2>1. Increasing(s)
    BY <1>5 DEF Faithful, r
  <2>2. \A i \in 1..Len(s) : s[i] < x
    <3>1. \A i \in 1..Len(s) : s[i] \in S
      BY <1>3, <1>7 DEF Range
    <3> QED BY <3>1
  <2> QED BY <1>3, <2>1, <2>2 DEF Increasing
<1>9. Before(f, t)
  <2>1. Before(f, s)
    BY <1>5 DEF Faithful, r
  <2> QED BY <1>4, <1>6, <2>1 DEF Before
<1>10. \A i \in 1..n : Before(m[r[i]], t)
  <2>1. \A i \in 1..n : i \in DOMAIN r /\ i < n + 1 /\ Before(l[r[i]], s)
    BY <1>1, <1>5 DEF Faithful, r
  <2> QED BY <1>2, <1>4, <1>6, <2>1 DEF Before
<1>11. \A i, j \in DOMAIN r : i < j => i \in 1..n
  BY <1>1
<1>12. ASSUME NEW i \in DOMAIN r
       PROVE  /\ Increasing(m[r[i]])
              /\ Before(f, m[r[i]])
              /\ \A j \in DOMAIN r : i < j => Before(m[r[i]], m[r[j]])
  <2>1. CASE i = n + 1
    BY <1>5, <1>8, <1>9, <1>11, <1>1, <2>1
  <2>2. CASE i \in 1..n
    <3>1. /\ Increasing(m[r[i]]) /\ Before(f, m[r[i]])
      BY <1>2, <1>12, <2>2 DEF Faithful, r
    <3>2. ASSUME NEW j \in DOMAIN r, i < j PROVE Before(m[r[i]], m[r[j]])
      <4>1. CASE j = n + 1
        BY <1>5, <1>10, <2>2, <4>1
      <4>2. CASE j \in 1..n
        BY <1>2, <1>12, <2>2, <3>2, <4>2 DEF Faithful, r
      <4> QED BY <1>1, <4>1, <4>2
    <3> QED BY <3>1, <3>2
  <2> QED BY <1>1, <2>1, <2>2
<1>13. Range(f) \cup UNION {Range(m[r[i]]) : i \in DOMAIN r} = S \cup {x}
  <2>1. Range(f) \cup UNION {Range(l[r[i]]) : i \in DOMAIN r} = S
    BY DEF Faithful, r
  <2>2. ASSUME NEW i \in DOMAIN r
        PROVE  Range(l[r[i]]) \subseteq Range(m[r[i]]) /\ Range(m[r[i]]) \subseteq S \cup {x}
    <3>1. CASE i = n + 1
      BY <1>4, <1>5, <1>7, <3>1
    <3>2. CASE i \in 1..n
      BY <1>2, <1>6, <2>2, <3>2
    <3> QED BY <1>1, <3>1, <3>2
  <2>3. x \in UNION {Range(m[r[i]]) : i \in DOMAIN r}
    BY <1>4, <1>5
  <2>4. UNION {Range(l[r[i]]) : i \in DOMAIN r} \subseteq UNION {Range(m[r[i]]) : i \in DOMAIN r}
    BY <2>2
  <2>5. UNION {Range(m[r[i]]) : i \in DOMAIN r} \subseteq S \cup {x}
    BY <2>2
  <2> QED BY <2>1, <2>3, <2>4, <2>5
<1> QED BY <1>12, <1>13, SMT DEF Faithful, r

(* The first buffer of the list is written.                                *)
LEMMA FirstWritten ==
  ASSUME NEW f \in Seq(Nat), NEW q \in Seq(Buffers), q # <<>>, NEW l \in Contents, NEW S,
         Faithful(f, q, l, S)
  PROVE  Faithful(f \o l[q[1]], Tail(q), l, S)
<1> DEFINE s == l[q[1]]
           g == f \o s
           r == Tail(q)
<1>1. /\ Len(q) \in Nat /\ Len(q) >= 1 /\ DOMAIN q = 1..Len(q) /\ 1 \in DOMAIN q
      /\ DOMAIN r = 1..Len(q) - 1 /\ \A i \in 1..Len(q) - 1 : r[i] = q[i + 1]
  OBVIOUS
<1>2. s \in Seq(Nat)
  BY <1>1 DEF Contents
<1>3. /\ Len(f) \in Nat /\ Len(s) \in Nat /\ DOMAIN f = 1..Len(f) /\ DOMAIN s = 1..Len(s)
      /\ DOMAIN g = 1..Len(f) + Len(s)
      /\ \A i \in 1..Len(f) : g[i] = f[i]
      /\ \A i \in Len(f) + 1..Len(f) + Len(s) : i - Len(f) \in 1..Len(s) /\ g[i] = s[i - Len(f)]
  BY <1>2
<1> HIDE DEF g, r, s
<1>4. Range(g) = Range(f) \cup Range(s)
  <2>1. ASSUME NEW x \in Range(g) PROVE x \in Range(f) \cup Range(s)
    <3>1. PICK i \in 1..Len(f) + Len(s) : x = g[i]
      BY <1>3 DEF Range
    <3>2. i \in 1..Len(f) \/ i \in Len(f) + 1..Len(f) + Len(s)
      BY <1>3
    <3> QED BY <1>3, <3>1, <3>2 DEF Range
  <2>2. ASSUME NEW i \in 1..Len(f) PROVE f[i] \in Range(g)
    <3>1. i \in DOMAIN g /\ g[i] = f[i]
      BY <1>3
    <3> QED BY <3>1 DEF Range
  <2>3. ASSUME NEW i \in 1..Len(s) PROVE s[i] \in Range(g)
    <3>1. i + Len(f) \in DOMAIN g /\ g[i + Len(f)] = s[i]
      <4>1. i + Len(f) \in Len(f) + 1..Len(f) + Len(s) /\ (i + Len(f)) - Len(f) = i
        BY <1>3
      <4>2. i + Len(f) \in 1..Len(f) + Len(s)
        BY <1>3
      <4> QED BY <1>3, <4>1, <4>2
    <3> QED BY <3>1 DEF Range
  <2>4. Range(f) \subseteq Range(g) /\ Range(s) \subseteq Range(g)
    BY <1>3, <2>2, <2>3 DEF Range
  <2> QED BY <2>1, <2>4
<1>5. Increasing(f) /\ Increasing(s) /\ Before(f, s)
  BY <1>1 DEF Faithful, s
<1>6. Increasing(g)
  <2>1. ASSUME NEW i \in DOMAIN g, NEW j \in DOMAIN g, i < j PROVE g[i] < g[j]
    <3>1. /\ i \in 1..Len(f) \/ i \in Len(f) + 1..Len(f) + Len(s)
          /\ j \in 1..Len(f) \/ j \in Len(f) + 1..Len(f) + Len(s)
      BY <1>3
    <3>2. CASE i \in 1..Len(f) /\ j \in 1..Len(f)
      BY <1>3, <1>5, <2>1, <3>2 DEF Increasing
    <3>3. CASE i \in 1..Len(f) /\ j \in Len(f) + 1..Len(f) + Len(s)
      BY <1>3, <1>5, <3>3 DEF Before, Range
    <3>4. CASE i \in Len(f) + 1..Len(f) + Len(s) /\ j \in Len(f) + 1..Len(f) + Len(s)
      <4>1. i - Len(f) < j - Len(f)
        BY <1>3, <2>1
      <4> QED BY <1>3, <1>5, <3>4, <4>1 DEF Increasing
    <3>5. ~(i \in Len(f) + 1..Len(f) + Len(s) /\ j \in 1..Len(f))
      BY <1>3, <2>1
    <3> QED BY <3>1, <3>2, <3>3, <3>4, <3>5
  <2> QED BY <2>1 DEF Increasing
<1>7. \A i \in DOMAIN r : i + 1 \in DOMAIN q /\ 1 < i + 1 /\ r[i] = q[i + 1]
  BY <1>1
<1>8. ASSUME NEW i \in DOMAIN r
      PROVE  /\ Increasing(l[r[i]]) /\ Before(g, l[r[i]])
             /\ \A j \in DOMAIN r : i < j => Before(l[r[i]], l[r[j]])
  <2>1. Increasing(l[r[i]]) /\ Before(f, l[r[i]])
    BY <1>7 DEF Faithful
  <2>2. Before(s, l[r[i]])
    BY <1>1, <1>7 DEF Faithful, s
  <2>3. ASSUME NEW j \in DOMAIN r, i < j PROVE Before(l[r[i]], l[r[j]])
    <3>1. i + 1 < j + 1
      BY <1>1, <2>3
    <3> QED BY <1>7, <3>1 DEF Faithful
  <2> QED BY <1>4, <2>1, <2>2, <2>3 DEF Before
<1>9. Range(g) \cup UNION {Range(l[r[i]]) : i \in DOMAIN r} = S
  <2>1. Range(f) \cup UNION {Range(l[q[i]]) : i \in DOMAIN q} = S
    BY DEF Faithful
  <2>2. ASSUME NEW i \in DOMAIN q
        PROVE  Range(l[q[i]]) \subseteq Range(s) \cup UNION {Range(l[r[j]]) : j \in DOMAIN r}
    <3>1. CASE i = 1
      BY <3>1 DEF s
    <3>2. CASE i # 1
      <4>1. i - 1 \in DOMAIN r /\ r[i - 1] = q[i]
        BY <1>1, <3>2
      <4> QED BY <4>1
    <3> QED BY <3>1, <3>2
  <2>3. Range(s) \subseteq UNION {Range(l[q[i]]) : i \in DOMAIN q}
    BY <1>1 DEF s
  <2> QED BY <1>4, <1>7, <2>1, <2>2, <2>3
<1> QED BY <1>6, <1>8, <1>9 DEF Faithful, g, r, s

(* All but the first n buffers of the first part of the list are cut.      *)
LEMMA MiddleCut ==
  ASSUME NEW f, NEW a \in Seq(Buffers), NEW z \in Seq(Buffers), NEW n \in 0..Len(a),
         NEW l \in Contents, NEW S, Faithful(f, a \o z, l, S),
         NEW gone, \A x : x \in gone <=> \E i \in n + 1..Len(a) : x \in Range(l[a[i]])
  PROVE  Faithful(f, SubSeq(a, 1, n) \o z, l, S \ gone)
<1> DEFINE q == a \o z
           r == SubSeq(a, 1, n) \o z
           k == Len(a)
           w == Len(z)
           old(i) == IF i \in 1..n THEN i ELSE i + (k - n)
<1>1. /\ k \in Nat /\ w \in Nat /\ n \in Nat /\ n <= k
      /\ DOMAIN q = 1..k + w /\ DOMAIN r = 1..n + w /\ DOMAIN a = 1..k
      /\ \A i \in 1..k : q[i] = a[i]
      /\ \A i \in k + 1..k + w : q[i] = z[i - k]
      /\ \A i \in 1..n : r[i] = a[i]
      /\ \A i \in n + 1..n + w : r[i] = z[i - n]
  OBVIOUS
<1> HIDE DEF q, r, k, w
<1>2. \A i \in DOMAIN r : old(i) \in DOMAIN q /\ r[i] = q[old(i)] /\ old(i) \notin n + 1..k
  <2> TAKE i \in DOMAIN r
  <2>1. CASE i \in 1..n
    BY <1>1, <2>1
  <2>2. CASE i \notin 1..n
    <3>1. /\ i \in n + 1..n + w /\ old(i) \in k + 1..k + w /\ old(i) \in 1..k + w
          /\ old(i) - k = i - n /\ old(i) \notin n + 1..k
      BY <1>1, <2>2
    <3> QED BY <1>1, <3>1
  <2> QED BY <2>1, <2>2
<1>3. \A i, j \in DOMAIN r : i < j => old(i) < old(j)
  BY <1>1
<1>4. \A i \in DOMAIN q : i \notin n + 1..k => \E j \in DOMAIN r : old(j) = i
  <2> TAKE i \in DOMAIN q
  <2>1. CASE i \in 1..n
    BY <1>1, <2>1
  <2>2. CASE i \in k + 1..k + w
    <3>1. i - (k - n) \in DOMAIN r /\ old(i - (k - n)) = i
      BY <1>1, <2>2
    <3> QED BY <3>1
  <2> QED BY <1>1, <2>1, <2>2
<1>5. \A x : x \in gone <=> \E i \in n + 1..k : x \in Range(l[q[i]])
  <2>1. \A i \in n + 1..k : q[i] = a[i]
    BY <1>1
  <2> QED BY <2>1 DEF k
<1> HIDE DEF old
<1>6. \A i \in DOMAIN r :
         /\ Increasing(l[r[i]])
         /\ Before(f, l[r[i]])
         /\ \A j \in DOMAIN r : i < j => Before(l[r[i]], l[r[j]])
  BY <1>2, <1>3 DEF Faithful, q
<1>7. \A i \in DOMAIN q : l[q[i]] \in Seq(Nat)
  <2>1. \A i \in DOMAIN q : q[i] \in Buffers
    BY DEF q
  <2> QED BY <2>1 DEF Contents
<1>8. \A i \in DOMAIN q : \A x \in Range(l[q[i]]) : x \in Nat
  BY <1>7 DEF Range
<1>9. ASSUME NEW i \in DOMAIN q, NEW j \in DOMAIN q, i # j
      PROVE  Range(l[q[i]]) \cap Range(l[q[j]]) = {}
  <2>1. i < j \/ j < i
    BY <1>1, <1>9
  <2>2. Before(l[q[i]], l[q[j]]) \/ Before(l[q[j]], l[q[i]])
    BY <2>1 DEF Faithful, q
  <2>3. \A x \in Nat : ~(x < x)
    OBVIOUS
  <2> QED BY <1>8, <2>2, <2>3 DEF Before
<1>10. \A i \in n + 1..k : i \in DOMAIN q
  BY <1>1
<1>11. Range(f) \cap gone = {}
  <2>1. \A i \in DOMAIN q : Before(f, l[q[i]])
    BY DEF Faithful, q
  <2>2. \A x \in Nat : ~(x < x)
    OBVIOUS
  <2> QED BY <1>5, <1>8, <1>10, <2>1, <2>2 DEF Before
<1>12. Range(f) \cup UNION {Range(l[r[i]]) : i \in DOMAIN r} = S \ gone
  <2>1. Range(f) \cup UNION {Range(l[q[i]]) : i \in DOMAIN q} = S
    BY DEF Faithful, q
  <2>2. ASSUME NEW i \in DOMAIN r PROVE Range(l[r[i]]) \subseteq S \ gone
    <3>1. Range(l[q[old(i)]]) \cap gone = {}
      <4>1. \A j \in n + 1..k : Range(l[q[old(i)]]) \cap Range(l[q[j]]) = {}
        BY <1>2, <1>9, <1>10
      <4> QED BY <1>5, <4>1
    <3> QED BY <1>2, <2>1, <3>1
  <2>3. ASSUME NEW x \in S \ gone, x \notin Range(f)
        PROVE  x \in UNION {Range(l[r[i]]) : i \in DOMAIN r}
    <3>1. PICK i \in DOMAIN q : x \in Range(l[q[i]])
      BY <2>1, <2>3
    <3>2. i \notin n + 1..k
      BY <1>5, <2>3, <3>1
    <3>3. PICK j \in DOMAIN r : old(j) = i
      BY <1>4, <3>2
    <3> QED BY <1>2, <3>1, <3>3
  <2> QED BY <1>11, <2>1, <2>2, <2>3
<1> QED BY <1>6, <1>12 DEF Faithful, r

-----------------------------------------------------------------------------
(* The steps keep the order of the lines.                                  *)

(* The inductive invariant of the lines: a buffer that seems empty is, the *)
(* spare one is, and the log is faithful.                                  *)
Ordered ==
    /\ \A b \in Buffers : len[b] = 0 => lines[b] = <<>>
    /\ Empty(next)
    /\ dropped \subseteq 1..logged
    /\ Faithful(file, Unwritten, lines, (1..logged) \ dropped)

\* The buffers the writer has taken and not written.
Taken == IF pc = "write" THEN SubSeq(toWrite, at, Len(toWrite))
         ELSE IF pc = "cut" THEN toWrite ELSE <<>>

LEMMA Regrouped ==
  ASSUME NEW T, NEW p \in Seq(T), NEW q \in Seq(T), NEW b \in T
  PROVE  /\ p \o q \in Seq(T) /\ Range(p \o q) \subseteq Range(p) \cup Range(q)
         /\ p \o Append(q, b) = Append(p \o q, b)
         /\ <<>> \o q = q
<1>1. p \o q \in Seq(T) /\ p \o Append(q, b) = Append(p \o q, b) /\ <<>> \o q = q
  OBVIOUS
<1>2. /\ Len(p) \in Nat /\ Len(q) \in Nat /\ DOMAIN (p \o q) = 1..Len(p) + Len(q)
      /\ DOMAIN p = 1..Len(p) /\ DOMAIN q = 1..Len(q)
      /\ \A i \in 1..Len(p) : (p \o q)[i] = p[i]
      /\ \A i \in Len(p) + 1..Len(p) + Len(q) : (p \o q)[i] = q[i - Len(p)]
  OBVIOUS
<1>3. \A i \in 1..Len(p) + Len(q) :
        i \in 1..Len(p) \/ (i \in Len(p) + 1..Len(p) + Len(q) /\ i - Len(p) \in 1..Len(q))
  BY <1>2
<1>4. Range(p \o q) \subseteq Range(p) \cup Range(q)
  <2> DEFINE r == p \o q
  <2>1. \A i \in DOMAIN r : r[i] \in Range(p) \cup Range(q)
    BY <1>2, <1>3 DEF Range
  <2> HIDE DEF r
  <2> QED BY <2>1 DEF Range, r
<1> QED BY <1>1, <1>4

LEMMA ListsBuffers ==
  ASSUME NEW q \in Seq(Buffers)
  PROVE  Range(q) \subseteq Buffers
BY DEF Range

(* The list of what is not written ends in the current buffer, which no    *)
(* other place of it has.                                                  *)
LEMMA QueueIs ==
  ASSUME LogInv
  PROVE  /\ cur \in Buffers /\ output \in Seq(Buffers)
         /\ Taken \in Seq(Buffers) /\ Unwritten = Taken \o Append(output, cur)
         /\ Taken \o output \in Seq(Buffers) /\ Unwritten = Append(Taken \o output, cur)
         /\ Unwritten \in Seq(Buffers) /\ cur \notin Range(Taken \o output)
         /\ Range(Unwritten) \subseteq Range(toWrite) \cup Range(output) \cup {cur}
         /\ pc \notin {"cut", "write"} =>
              /\ Unwritten = Append(output, cur)
              /\ Range(Unwritten) \subseteq Range(output) \cup {cur}
<1>1. /\ cur \in Buffers /\ output \in Seq(Buffers) /\ toWrite \in Seq(Buffers) /\ at \in Nat
      /\ pc = "write" => at >= 1
  BY DEF LogInv, TypeOK, Pointers, Unshared, Supplied
<1>2. Taken \in Seq(Buffers) /\ Range(Taken) \subseteq Range(toWrite)
  <2>1. CASE pc = "write"
    <3> DEFINE s == SubSeq(toWrite, at, Len(toWrite))
    <3>1. /\ s \in Seq(Buffers) /\ Len(toWrite) \in Nat
          /\ \A i \in DOMAIN s : i + at - 1 \in 1..Len(toWrite) /\ s[i] = toWrite[i + at - 1]
      BY <1>1, <2>1
    <3>2. \A i \in DOMAIN s : s[i] \in Range(toWrite)
      BY <1>1, <3>1 DEF Range
    <3> HIDE DEF s
    <3>3. Range(s) \subseteq Range(toWrite)
      BY <3>2 DEF Range
    <3> QED BY <2>1, <3>1, <3>3 DEF Taken, s
  <2>2. CASE pc # "write"
    BY <1>1, <2>2 DEF Taken, Range
  <2> QED BY <2>1, <2>2
<1>3. Unwritten = Taken \o Append(output, cur)
  BY DEF Unwritten, Taken
<1>4. /\ Append(output, cur) \in Seq(Buffers)
      /\ Range(Append(output, cur)) = Range(output) \cup {cur}
  BY <1>1, Appended
<1>5. /\ Taken \o output \in Seq(Buffers) /\ Range(Taken \o output) \subseteq Range(Taken) \cup Range(output)
      /\ Unwritten = Append(Taken \o output, cur)
  BY <1>1, <1>2, <1>3, Regrouped
<1>6. Unwritten \in Seq(Buffers) /\ Range(Unwritten) = Range(Taken \o output) \cup {cur}
  <2> DEFINE q == Taken \o output
  <2>1. q \in Seq(Buffers) /\ Unwritten = Append(q, cur)
    BY <1>5
  <2> HIDE DEF q
  <2>2. Append(q, cur) \in Seq(Buffers) /\ Range(Append(q, cur)) = Range(q) \cup {cur}
    BY <1>1, <2>1, Appended
  <2> QED BY <2>1, <2>2 DEF q
<1>7. cur \notin Range(toWrite) \cup Range(output)
  BY DEF LogInv, Unshared
<1>8. ASSUME pc \notin {"cut", "write"}
      PROVE  Unwritten = Append(output, cur) /\ Range(Unwritten) \subseteq Range(output) \cup {cur}
  <2>1. Taken = <<>>
    BY <1>8 DEF Taken
  <2> QED BY <1>1, <1>3, <1>4, <2>1
<1> QED BY <1>1, <1>2, <1>3, <1>5, <1>6, <1>7, <1>8

(* A step that leaves the list and its lines alone.                        *)
LEMMA OrderStays ==
  ASSUME Ordered, Unwritten' = Unwritten, UNCHANGED <<next, file, logged, dropped>>,
         \A b \in Buffers : (len'[b] = len[b] /\ lines'[b] = lines[b]) \/ lines'[b] = <<>>,
         \A b \in Range(Unwritten) : lines'[b] = lines[b],
         next \in Buffers => len'[next] = len[next], next \in Pointers
  PROVE  Ordered'
<1>1. \A b \in Buffers : len'[b] = 0 => lines'[b] = <<>>
  BY DEF Ordered
<1>2. Empty(next)'
  BY DEF Ordered, Empty, Pointers
<1>3. Faithful(file, Unwritten, lines', (1..logged) \ dropped)
  BY SameContents DEF Ordered
<1>4. Faithful(file, Unwritten, lines, (1..logged) \ dropped)'
  BY <1>3
<1> QED BY <1>1, <1>2, <1>4 DEF Ordered

LEMMA OwnerOrders ==
  ASSUME LogInv, LogInv', Ordered, Start \/ Started \/ Stop \/ Join
  PROVE  Ordered'
<1>1. UNCHANGED <<producer, writer, lines, len, at, logged, file, dropped>>
  BY DEF Start, Started, Stop, Join
<1>2. pc' = pc \/ {pc, pc'} \cap {"cut", "write"} = {}
  BY DEF Start, Started, Stop, Join, LogInv, StartWaits
<1>3. Unwritten' = Unwritten
  BY <1>1, <1>2 DEF Unwritten, producer, writer
<1> QED BY <1>1, <1>3, OrderStays DEF producer, LogInv, TypeOK

LEMMA WaitOrders ==
  ASSUME LogInv, LogInv', Ordered, Test \/ Lock \/ Timeout
  PROVE  Ordered'
<1>1. UNCHANGED <<producer, writer, lines, len, at, logged, file, dropped>>
  BY DEF Test, Lock, Timeout
<1>2. {pc, pc'} \cap {"cut", "write"} = {}
  BY DEF Test, Lock, Timeout
<1>3. Unwritten' = Unwritten
  BY <1>1, <1>2 DEF Unwritten, producer, writer
<1> QED BY <1>1, <1>3, OrderStays DEF producer, LogInv, TypeOK

LEMMA BeginOrders ==
  ASSUME LogInv, LogInv', Ordered, Begin
  PROVE  Ordered'
<1>1. /\ pc = "start" /\ pc' = "test"
      /\ lines' = [lines EXCEPT ![new1'] = <<>>, ![new2'] = <<>>]
      /\ len' = [len EXCEPT ![new1'] = 0, ![new2'] = 0]
      /\ UNCHANGED <<producer, logged, file, dropped>>
  BY DEF Begin
<1>2. {new1', new2'} \cap ({cur} \cup Range(output)) = {} /\ (next # NULL => next \notin {new1', new2'})
  BY <1>1 DEF LogInv, Unshared, producer
<1>3. Unwritten' = Unwritten
  BY <1>1 DEF Unwritten, producer
<1>4. \A b \in Range(Unwritten) : b \in Buffers /\ b \notin {new1', new2'}
  <2>1. Range(Unwritten) \subseteq Buffers
    BY QueueIs, ListsBuffers
  <2> QED BY <1>1, <1>2, <2>1, QueueIs
<1>5. \A b \in Buffers : \/ b \in {new1', new2'} /\ lines'[b] = <<>>
                         \/ b \notin {new1', new2'} /\ lines'[b] = lines[b] /\ len'[b] = len[b]
  BY <1>1 DEF LogInv, TypeOK
<1>6. next \in Pointers /\ (next \in Buffers => next # NULL)
  BY LogNumbers DEF LogInv, TypeOK
<1> QED BY <1>1, <1>2, <1>3, <1>4, <1>5, <1>6, OrderStays DEF producer

(* The two written buffers that are kept are cleared: they are not in the  *)
(* list any more.                                                          *)
LEMMA RecycleOrders ==
  ASSUME LogInv, LogInv', Ordered, Recycle1 \/ Recycle2
  PROVE  Ordered'
<1>1. /\ {pc, pc'} \cap {"cut", "write"} = {}
      /\ UNCHANGED <<producer, logged, file, dropped>>
      /\ \/ UNCHANGED <<lines, len>>
         \/ new1' = Last(toWrite) /\ Clear(new1') /\ toWrite # <<>>
         \/ new2' = Last(toWrite) /\ Clear(new2') /\ toWrite # <<>>
  BY DEF Recycle1, Recycle2
<1>2. Unwritten' = Unwritten
  BY <1>1 DEF Unwritten, producer
<1>3. next \in Pointers
  BY DEF LogInv, TypeOK
<1>4. CASE UNCHANGED <<lines, len>>
  BY <1>1, <1>2, <1>3, <1>4, OrderStays DEF producer
<1>5. ASSUME NEW b, b = new1' \/ b = new2', b = Last(toWrite), Clear(b), toWrite # <<>>
      PROVE  Ordered'
  <2>1. b \in Buffers /\ b # NULL
    BY <1>5, LastOfWritten, LogNumbers
  <2>2. b \notin {cur} \cup Range(output) /\ b # next
    BY <1>1, <1>5, <2>1 DEF LogInv, Unshared, producer
  <2>3. \A c \in Buffers : \/ c = b /\ lines'[c] = <<>>
                           \/ c # b /\ lines'[c] = lines[c] /\ len'[c] = len[c]
    BY <1>5 DEF Clear, LogInv, TypeOK
  <2>4. Range(Unwritten) \subseteq Range(output) \cup {cur} /\ Range(Unwritten) \subseteq Buffers
    <3>1. pc \notin {"cut", "write"}
      BY <1>1
    <3> QED BY <3>1, QueueIs, ListsBuffers
  <2> QED BY <1>1, <1>2, <1>3, <2>2, <2>3, <2>4, OrderStays DEF producer
<1> QED BY <1>1, <1>4, <1>5

LEMMA LogOrders ==
  ASSUME LogInv, LogInv', Ordered, NEW n \in 1..MaxLen, Log(n)
  PROVE  Ordered'
<1> DEFINE S == (1..logged) \ dropped
           x == logged + 1
<1>1. /\ UNCHANGED <<writer, at, file, dropped>> /\ logged' = x /\ logged \in Nat
      /\ AppendHere(n) \/ AppendNext(n)
      /\ n \in Nat /\ n >= 1 /\ Capacity > n /\ Capacity \in Nat
  BY LogNumbers DEF Log, LogInv, TypeOK
<1>2. /\ (1..logged') \ dropped' = S \cup {x} /\ dropped' \subseteq 1..logged'
      /\ S \in SUBSET Nat /\ x \in Nat /\ \A y \in S : y < x
  BY <1>1 DEF Ordered
<1>3. /\ lines \in Contents /\ len \in [Buffers -> 0..Capacity]
      /\ toWrite \in Seq(Buffers)
  BY DEF LogInv, TypeOK, Contents
<1>4. Taken' = Taken
  BY <1>1 DEF Taken, writer, AppendHere, AppendNext
<1>5. CASE AppendHere(n)
  <2>1. /\ Fits(cur, n) /\ Put(cur, n) /\ UNCHANGED producer
    BY <1>5 DEF AppendHere
  <2>2. /\ lines' = [lines EXCEPT ![cur] = Append(@, x)] /\ len' = [len EXCEPT ![cur] = @ + n]
    BY <2>1 DEF Put
  <2>3. cur \in Buffers /\ (next # NULL => next # cur) /\ next \in Pointers
    BY QueueIs DEF LogInv, Unshared, TypeOK
  <2>4. /\ lines'[cur] = Append(lines[cur], x)
        /\ \A b \in Buffers : b # cur => lines'[b] = lines[b] /\ len'[b] = len[b]
        /\ len'[cur] # 0
    <3>1. lines'[cur] = Append(lines[cur], x) /\ \A b \in Buffers : b # cur => lines'[b] = lines[b]
      BY <1>3, <2>2, <2>3 DEF Contents
    <3>2. len'[cur] = len[cur] + n /\ \A b \in Buffers : b # cur => len'[b] = len[b]
      BY <1>3, <2>2, <2>3
    <3>3. len[cur] \in Nat
      BY <1>3, <2>3
    <3> QED BY <1>1, <3>1, <3>2, <3>3
  <2>5. /\ Taken \o output \in Seq(Buffers) /\ Unwritten = Append(Taken \o output, cur)
        /\ cur \notin Range(Taken \o output) /\ Range(Taken \o output) \subseteq Buffers
    BY QueueIs, ListsBuffers
  <2>6. Faithful(file, Append(Taken \o output, cur), lines', S \cup {x})
    <3> DEFINE q == Taken \o output
    <3>1. /\ q \in Seq(Buffers) /\ cur \notin Range(q) /\ \A c \in Range(q) : lines'[c] = lines[c]
          /\ Faithful(file, Append(q, cur), lines, S)
      BY <2>4, <2>5 DEF Ordered
    <3> HIDE DEF q, S, x
    <3>2. Faithful(file, Append(q, cur), lines', S \cup {x})
      BY <1>2, <1>3, <2>3, <2>4, <3>1, LineJoins
    <3> QED BY <3>2 DEF q
  <2>7. Unwritten' = Append(Taken \o output, cur)
    <3>1. Unwritten' = Taken' \o Append(output', cur')
      BY DEF Unwritten, Taken
    <3>2. Unwritten' = Taken \o Append(output, cur)
      BY <1>4, <2>1, <3>1 DEF producer
    <3> QED BY <3>2, QueueIs
  <2>8. \A b \in Buffers : len'[b] = 0 => lines'[b] = <<>>
    BY <2>4 DEF Ordered
  <2>9. Empty(next)'
    BY <2>1, <2>3, <2>4, LogNumbers DEF Ordered, Empty, producer, Pointers
  <2> QED BY <1>1, <1>2, <2>6, <2>7, <2>8, <2>9 DEF Ordered
<1>6. CASE AppendNext(n)
  <2> DEFINE m == [lines EXCEPT ![cur'] = <<>>]
  <2>1. output' = Append(output, cur) /\ next' = NULL
    BY <1>6 DEF AppendNext
  <2>2. cur' \in Buffers /\ cur' \notin Range(output') \cup Range(toWrite')
    BY LogNumbers DEF LogInv, Unshared, TypeOK, Pointers
  <2>3. /\ Unwritten \in Seq(Buffers) /\ Range(Unwritten) \subseteq Buffers
        /\ cur' \notin Range(Unwritten)
        /\ output \in Seq(Buffers) /\ cur \in Buffers /\ Taken \in Seq(Buffers)
    <3>1. Range(output') = Range(output) \cup {cur} /\ toWrite' = toWrite
      BY <1>1, <2>1, QueueIs, Appended DEF writer
    <3> QED BY <2>2, <3>1, QueueIs, ListsBuffers
  <2>4. /\ lines' = [lines EXCEPT ![cur'] = <<x>>] /\ len' = [len EXCEPT ![cur'] = n]
    <3>1. CASE next # NULL
      <4>1. cur' = next /\ Put(next, n) /\ len[next] = 0 /\ lines[next] = <<>>
        BY <1>6, <2>2, <3>1 DEF AppendNext, Ordered, Empty
      <4>2. Fits(next, n)
        BY <1>1, <4>1 DEF Fits
      <4>3. /\ lines' = [lines EXCEPT ![next] = Append(@, x)]
            /\ len' = [len EXCEPT ![next] = @ + n]
        BY <4>1, <4>2 DEF Put
      <4>4. Append(lines[next], x) = <<x>> /\ len[next] + n = n
        BY <1>1, <4>1
      <4>5. lines' = [lines EXCEPT ![next] = <<x>>] /\ len' = [len EXCEPT ![next] = n]
        BY <4>3, <4>4
      <4> QED BY <4>1, <4>5
    <3>2. CASE next = NULL
      BY <1>6, <3>2 DEF AppendNext
    <3> QED BY <3>1, <3>2
  <2>5. /\ lines'[cur'] = <<x>> /\ len'[cur'] = n
        /\ \A b \in Buffers : b # cur' => lines'[b] = lines[b] /\ len'[b] = len[b]
        /\ m[cur'] = <<>> /\ m \in Contents
        /\ \A b \in Buffers : b # cur' => m[b] = lines[b]
    <3>1. <<>> \in Seq(Nat)
      OBVIOUS
    <3> QED BY <1>3, <2>2, <2>4, <3>1 DEF Contents
  <2> HIDE DEF m, S, x
  <2>6. Faithful(file, Unwritten, m, S)
    <3>1. \A b \in Range(Unwritten) : m[b] = lines[b]
      BY <2>3, <2>5
    <3> QED BY <3>1, SameContents DEF Ordered, S
  <2>7. Faithful(file, Append(Unwritten, cur'), m, S)
    BY <2>2, <2>3, <2>5, <2>6, EmptyJoins
  <2>8. Faithful(file, Append(Unwritten, cur'), lines', S \cup {x})
    <3>1. lines'[cur'] = Append(m[cur'], x)
      BY <1>2, <2>5
    <3>2. \A c \in Range(Unwritten) : lines'[c] = m[c]
      BY <2>3, <2>5
    <3> QED BY <1>2, <2>2, <2>3, <2>5, <2>7, <3>1, <3>2, LineJoins
  <2>9. Unwritten' = Append(Unwritten, cur')
    <3>1. Unwritten' = Taken' \o Append(output', cur') /\ Unwritten = Taken \o Append(output, cur)
      BY DEF Unwritten, Taken
    <3>2. Append(output, cur) \in Seq(Buffers)
      BY <2>3
    <3> QED BY <1>4, <2>1, <2>2, <2>3, <3>1, <3>2, Regrouped
  <2>10. \A b \in Buffers : len'[b] = 0 => lines'[b] = <<>>
    BY <1>1, <2>5 DEF Ordered
  <2>11. Empty(next)'
    BY <2>1 DEF Empty
  <2> QED BY <1>1, <1>2, <2>8, <2>9, <2>10, <2>11 DEF Ordered, S, x
<1> QED BY <1>1, <1>5, <1>6

(* The swap takes the list and adds an empty buffer.                       *)
LEMMA SwapOrders ==
  ASSUME LogInv, LogInv', Ordered, Swap
  PROVE  Ordered'
<1>1. /\ pc = "swap" /\ pc' = "cut" /\ toWrite = <<>> /\ new1 # NULL
      /\ toWrite' = Append(output, cur) /\ output' = <<>> /\ cur' = new1
      /\ \/ next = NULL /\ next' = new2
         \/ next # NULL /\ next' = next
      /\ UNCHANGED <<lines, len, logged, file, dropped>>
  BY DEF Swap, LogInv, Supplied
<1>2. new1 \in Buffers /\ Empty(new1) /\ Empty(new2) /\ lines[new1] = <<>>
  BY <1>1 DEF LogInv, Supplied, TypeOK, Pointers, Empty, Ordered
<1>3. Unwritten = Append(output, cur) /\ Unwritten \in Seq(Buffers)
  BY <1>1, QueueIs
<1>4. Unwritten' = Append(Unwritten, new1)
  <2>1. Unwritten' = toWrite' \o Append(output', cur')
    BY <1>1 DEF Unwritten
  <2>2. Append(output', cur') = Append(<<>>, new1)
    BY <1>1
  <2>3. Unwritten' = Unwritten \o Append(<<>>, new1)
    BY <1>1, <1>3, <2>1, <2>2
  <2> QED BY <1>2, <1>3, <2>3
<1>5. Faithful(file, Append(Unwritten, new1), lines, (1..logged) \ dropped)
  BY <1>2, <1>3, EmptyJoins DEF Ordered
<1>6. Empty(next)'
  BY <1>1, <1>2 DEF Ordered, Empty
<1> QED BY <1>1, <1>4, <1>5, <1>6 DEF Ordered

LEMMA CutOrders ==
  ASSUME LogInv, LogInv', Ordered, Cut
  PROVE  Ordered'
<1> DEFINE z == Append(output, cur)
           gone == UNION {Range(lines[toWrite[i]]) : i \in DOMAIN toWrite \ DOMAIN toWrite'}
           S == (1..logged) \ dropped
<1>1. /\ pc = "cut" /\ pc' = "write" /\ at' = 1
      /\ toWrite' = IF Len(toWrite) > MaxQueued THEN SubSeq(toWrite, 1, 2) ELSE toWrite
      /\ dropped' = dropped \cup gone
      /\ UNCHANGED <<producer, lines, len, logged, file>>
  BY DEF Cut
<1>2. /\ toWrite \in Seq(Buffers) /\ toWrite' \in Seq(Buffers) /\ lines \in Contents
      /\ Len(toWrite) \in Nat
  BY DEF LogInv, TypeOK, Contents
<1>3. PICK n \in 0..Len(toWrite) : toWrite' = SubSeq(toWrite, 1, n)
  <2>1. CASE Len(toWrite) > MaxQueued
    BY <1>1, <1>2, <2>1, LogNumbers
  <2>2. CASE ~(Len(toWrite) > MaxQueued)
    <3>1. toWrite = SubSeq(toWrite, 1, Len(toWrite))
      BY <1>2, SubSeqFull
    <3>2. Len(toWrite) \in 0..Len(toWrite)
      BY <1>2
    <3> QED BY <1>1, <2>2, <3>1, <3>2
  <2> QED BY <2>1, <2>2
<1>4. Unwritten = toWrite \o z /\ z \in Seq(Buffers)
  <2>1. cur \in Buffers /\ output \in Seq(Buffers)
    BY QueueIs
  <2> QED BY <1>1, <2>1 DEF Unwritten
<1>5. Unwritten' = toWrite' \o z
  <2>1. Unwritten' = SubSeq(toWrite', 1, Len(toWrite')) \o Append(output', cur')
    BY <1>1 DEF Unwritten
  <2>2. SubSeq(toWrite', 1, Len(toWrite')) = toWrite'
    BY <1>2, SubSeqFull
  <2>3. Append(output', cur') = z
    BY <1>1 DEF producer
  <2> QED BY <2>1, <2>2, <2>3
<1> HIDE DEF z
<1>6. Faithful(file, SubSeq(toWrite, 1, n) \o z, lines, S \ gone)
  <2>1. Faithful(file, toWrite \o z, lines, S)
    BY <1>4 DEF Ordered
  <2>2. DOMAIN toWrite \ DOMAIN toWrite' = n + 1..Len(toWrite)
    BY <1>2, <1>3
  <2>3. \A x : x \in gone <=> \E i \in n + 1..Len(toWrite) : x \in Range(lines[toWrite[i]])
    BY <2>2
  <2> HIDE DEF S, gone
  <2> QED BY <1>2, <1>3, <1>4, <2>1, <2>3, MiddleCut
<1>7. Faithful(file, toWrite' \o z, lines, S \ gone)
  BY <1>3, <1>6
<1>8. gone \subseteq 1..logged
  <2>1. \A i \in DOMAIN toWrite : i \in DOMAIN Unwritten /\ Unwritten[i] = toWrite[i]
    BY <1>2, <1>4
  <2>2. \A i \in DOMAIN Unwritten : Range(lines[Unwritten[i]]) \subseteq S
    BY DEF Ordered, Faithful
  <2>3. \A i \in DOMAIN toWrite : Range(lines[toWrite[i]]) \subseteq 1..logged
    BY <2>1, <2>2
  <2> QED BY <2>3
<1>9. S \ gone = (1..logged') \ dropped' /\ dropped' \subseteq 1..logged'
  BY <1>1, <1>8 DEF Ordered
<1>10. Empty(next)' /\ \A b \in Buffers : len'[b] = 0 => lines'[b] = <<>>
  BY <1>1 DEF Ordered, Empty, producer
<1> HIDE DEF S, gone
<1> QED BY <1>1, <1>5, <1>7, <1>9, <1>10 DEF Ordered

LEMMA WriteOrders ==
  ASSUME LogInv, LogInv', Ordered, WriteBuffer
  PROVE  Ordered'
<1>1. /\ pc = "write" /\ at <= Len(toWrite)
      /\ file' = file \o lines[toWrite[at]] /\ at' = at + 1
      /\ UNCHANGED <<producer, writer, lines, len, pc, logged, dropped>>
  BY DEF WriteBuffer
<1>2. /\ toWrite \in Seq(Buffers) /\ at \in 1..Len(toWrite) /\ lines \in Contents
      /\ file \in Seq(Nat) /\ cur \in Buffers /\ output \in Seq(Buffers)
  BY <1>1, QueueIs DEF LogInv, TypeOK, Contents, Supplied
<1> DEFINE z == Append(output, cur)
           w == SubSeq(toWrite, at, Len(toWrite))
<1>3. Unwritten = w \o z /\ Unwritten' = SubSeq(toWrite, at + 1, Len(toWrite)) \o z
      /\ z \in Seq(Buffers)
  BY <1>1, <1>2 DEF Unwritten, producer, writer
<1>4. /\ w \in Seq(Buffers) /\ w # <<>> /\ w[1] = toWrite[at]
      /\ Tail(w) = SubSeq(toWrite, at + 1, Len(toWrite))
  <2>1. Len(toWrite) \in at..Len(toWrite)
    BY <1>2
  <2>2. Tail(w) = SubSeq(toWrite, at + 1, Len(toWrite))
    BY <1>2, <2>1, HeadTailOfSubSeq
  <2>3. w \in Seq(Buffers) /\ Len(w) = Len(toWrite) - at + 1 /\ w[1] = toWrite[at]
    BY <1>2
  <2>4. w # <<>>
    <3>1. Len(w) >= 1
      BY <1>2, <2>3
    <3> HIDE DEF w
    <3> QED BY <3>1
  <2> QED BY <2>2, <2>3, <2>4
<1> HIDE DEF w, z
<1>5. /\ Unwritten \in Seq(Buffers) /\ Unwritten # <<>> /\ Unwritten[1] = toWrite[at]
      /\ Tail(Unwritten) = Unwritten'
  <2>1. w \o z \in Seq(Buffers) /\ w \o z # <<>> /\ (w \o z)[1] = w[1] /\ Tail(w \o z) = Tail(w) \o z
    BY <1>3, <1>4
  <2> QED BY <1>3, <1>4, <2>1
<1>6. Faithful(file \o lines[Unwritten[1]], Tail(Unwritten), lines, (1..logged) \ dropped)
  BY <1>2, <1>5, FirstWritten DEF Ordered
<1>7. Empty(next)' /\ \A b \in Buffers : len'[b] = 0 => lines'[b] = <<>>
  BY <1>1 DEF Ordered, Empty, producer
<1> QED BY <1>1, <1>5, <1>6, <1>7 DEF Ordered

LEMMA WrittenOrders ==
  ASSUME LogInv, LogInv', Ordered, Written
  PROVE  Ordered'
<1>1. /\ pc = "write" /\ pc' = "recycle1" /\ at > Len(toWrite)
      /\ UNCHANGED <<producer, lines, len, logged, file, dropped>>
  BY DEF Written
<1>2. toWrite \in Seq(Buffers) /\ at \in Nat /\ next \in Pointers
  BY DEF LogInv, TypeOK
<1>3. SubSeq(toWrite, at, Len(toWrite)) = <<>>
  BY <1>1, <1>2
<1>4. Unwritten' = Unwritten
  BY <1>1, <1>3 DEF Unwritten, producer
<1> QED BY <1>1, <1>2, <1>4, OrderStays DEF producer

LEMMA OrderSteps ==
  ASSUME LogInv, LogInv', Ordered, [Next]_vars
  PROVE  Ordered'
<1>1. CASE UNCHANGED vars
  <2>1. Unwritten' = Unwritten
    BY <1>1 DEF vars, Unwritten
  <2> QED BY <1>1, <2>1 DEF vars, Ordered, Empty
<1> QED BY <1>1, OwnerOrders, LogOrders, BeginOrders, WaitOrders, SwapOrders, CutOrders,
           WriteOrders, WrittenOrders, RecycleOrders DEF Next, WriterStep

LEMMA InitOrders ==
  ASSUME Init, LogInv
  PROVE  Ordered
<1>1. /\ pc = "none" /\ lines = [b \in Buffers |-> <<>>] /\ len = [b \in Buffers |-> 0]
      /\ logged = 0 /\ file = <<>> /\ dropped = {} /\ next \in Pointers /\ output = <<>>
  BY DEF Init, LogInv, TypeOK
<1>2. Increasing(<<>>) /\ Range(<<>>) = {} /\ \A s : Before(s, <<>>)
  BY DEF Increasing, Before, Range
<1>3. \A i \in DOMAIN Unwritten : lines[Unwritten[i]] = <<>>
  <2>1. \A i \in DOMAIN Unwritten : Unwritten[i] \in Buffers
    BY QueueIs
  <2> QED BY <1>1, <2>1
<1>4. (1..logged) \ dropped = {} /\ dropped \subseteq 1..logged
  BY <1>1
<1>5. Range(file) \cup UNION {Range(lines[Unwritten[i]]) : i \in DOMAIN Unwritten} = {}
  BY <1>1, <1>2, <1>3
<1>6. Faithful(file, Unwritten, lines, {})
  BY <1>1, <1>2, <1>3, <1>5 DEF Faithful
<1>7. Empty(next)
  BY <1>1 DEF Empty, Pointers
<1> QED BY <1>1, <1>4, <1>6, <1>7 DEF Ordered

(* The file, the buffers being written and those still queued have the     *)
(* lines logged, each once and in their order, whatever is cut: for any    *)
(* sizes of buffers and lines and any times of the writer's wake-ups.      *)
THEOREM LogAlwaysFaithful == Spec => []LogFaithful
<1>1. Init => LogInv /\ Ordered
  BY LogInitKeeps, InitOrders
<1>2. LogInv /\ LogInv' /\ Ordered /\ [Next]_vars => Ordered'
  BY OrderSteps
<1>3. Ordered => LogFaithful
  BY DEF Ordered, Faithful, LogFaithful
<1> QED BY <1>1, <1>2, <1>3, LogInvariant, PTL DEF Spec
=============================================================================
