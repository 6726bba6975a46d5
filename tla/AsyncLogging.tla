---------------------------- MODULE AsyncLogging ----------------------------
(***************************************************************************)
(* The asynchronous log: AsyncLogging, its FixedBuffers, the thread that   *)
(* writes them to the LogFile, and start and stop.                         *)
(*                                                                         *)
(* The buffers are shared_ptrs that move between the producers' side       *)
(* (curBufferPtr_, nextBufferPtr_, outputBuffers_) and the writer's        *)
(* (newBuffer1, newBuffer2, buffersToWrite); they are kept as identities   *)
(* with contents, so that two pointers to one buffer can be expressed.     *)
(* append holds mutex_ throughout and is one action; the writer's critical *)
(* section is one too, cut in two where it waits.  A line is its number,   *)
(* in the order append took the mutex.                                     *)
(***************************************************************************)
EXTENDS Integers, Sequences, FiniteSets, SequencesExt

CONSTANTS Buffers,      \* the buffers that can be allocated
          Capacity,     \* SIZE of a FixedBuffer
          MaxLen,       \* the length of the longest line
          MaxQueued,    \* more buffers than this to write are cut (25)
          MaxLines,     \* bound: lines that are logged
          NULL

ASSUME AsyncLoggingAssumption ==
    /\ {Capacity, MaxLen, MaxQueued, MaxLines} \subseteq Nat \ {0}
    /\ MaxLen < Capacity            \* 4000 < 4000 * 1000
    /\ MaxQueued >= 2
    /\ NULL \notin Buffers
    /\ IsFiniteSet(Buffers) /\ Cardinality(Buffers) >= MaxLines + 4     \* new succeeds

VARIABLES
    cur, next,      \* curBufferPtr_, nextBufferPtr_
    output,         \* outputBuffers_
    new1, new2,     \* newBuffer1, newBuffer2
    toWrite,        \* buffersToWrite
    lines,          \* lines[b]: the lines in buffer b
    len,            \* len[b]: getDataLen() of buffer b
    pc,             \* where the writer's thread is in threadFunc
    at,             \* the index of the writer's for loop over toWrite
    running,        \* running_
    owner,          \* where the thread that owns the log is in start and stop
    logged,         \* history: how many lines append has taken
    file,           \* the lines in the log file
    dropped         \* history: the lines in buffers that were cut

producer == <<cur, next, output>>
writer == <<new1, new2, toWrite>>
vars == <<cur, next, output, new1, new2, toWrite, lines, len, pc, at, running,
          owner, logged, file, dropped>>

Pointers == Buffers \cup {NULL}

TypeOK ==
    /\ cur \in Pointers /\ next \in Pointers
    /\ new1 \in Pointers /\ new2 \in Pointers
    /\ output \in Seq(Buffers) /\ toWrite \in Seq(Buffers)
    /\ lines \in [Buffers -> Seq(Nat)]
    /\ len \in [Buffers -> 0..Capacity]
    /\ pc \in {"none", "start", "test", "lock", "wait", "swap", "cut", "write",
               "recycle1", "recycle2", "exit"}
    /\ at \in Nat
    /\ running \in BOOLEAN
    /\ owner \in {"new", "latch", "started", "join", "stopped"}
    /\ logged \in 0..MaxLines
    /\ file \in Seq(Nat)
    /\ dropped \subseteq Nat

\* The buffers some pointer holds; any other one has been freed.
InUse == ({cur, next, new1, new2} \cup Range(output) \cup Range(toWrite)) \ {NULL}

\* The buffer `new` returns while those in S are held.
Fresh(S) == CHOOSE b \in Buffers : b \notin S

Init ==
    /\ cur = Fresh({}) /\ next = Fresh({cur})
    /\ output = <<>>
    /\ new1 = NULL /\ new2 = NULL /\ toWrite = <<>>
    /\ lines = [b \in Buffers |-> <<>>]
    /\ len = [b \in Buffers |-> 0]
    /\ pc = "none" /\ at = 0
    /\ running = FALSE /\ owner = "new"
    /\ logged = 0 /\ file = <<>> /\ dropped = {}

-----------------------------------------------------------------------------
(* The owner (once_init creates and starts the log) and stop.              *)

\* start: running_ is set, then the thread is created.
Start ==
    /\ owner = "new"
    /\ running' = TRUE
    /\ pc' = "start"
    /\ owner' = "latch"
    /\ UNCHANGED <<producer, writer, lines, len, at, logged, file, dropped>>

\* latch_.wait returns once the writer has counted down.
Started ==
    /\ owner = "latch" /\ pc # "start"
    /\ owner' = "started"
    /\ UNCHANGED <<producer, writer, lines, len, pc, at, running, logged, file, dropped>>

\* stop: the flag, without the mutex, and a notify.
Stop ==
    /\ owner = "started"
    /\ running' = FALSE
    /\ pc' = IF pc = "wait" THEN "swap" ELSE pc
    /\ owner' = "join"
    /\ UNCHANGED <<producer, writer, lines, len, at, logged, file, dropped>>

Join ==
    /\ owner = "join" /\ pc = "exit"
    /\ owner' = "stopped"
    /\ UNCHANGED <<producer, writer, lines, len, pc, at, running, logged, file, dropped>>

-----------------------------------------------------------------------------
(* The producers.                                                          *)

\* Mutant: any room is taken for enough.
FitsSomehow(b, n) == len[b] < Capacity
\* FixedBuffer::append on buffer b: a line that does not fit is not copied.
Fits(b, n) == Capacity - len[b] > n
Put(b, n) ==
    IF Fits(b, n)
    THEN /\ lines' = [lines EXCEPT ![b] = Append(@, logged + 1)]
         /\ len' = [len EXCEPT ![b] = @ + n]
    ELSE UNCHANGED <<lines, len>>

(* append of a line of length n: into the current buffer if it fits, else  *)
(* into the spare one or a new one, and the full one is queued and the     *)
(* writer notified.                                                        *)
AppendHere(n) ==
    /\ Fits(cur, n)
    /\ Put(cur, n)
    /\ UNCHANGED <<producer, pc>>

AppendNext(n) ==
    /\ ~Fits(cur, n)
    /\ output' = Append(output, cur)
    /\ IF next # NULL
       THEN cur' = next /\ next' = NULL /\ Put(next, n)
       ELSE /\ cur' = Fresh(InUse) /\ UNCHANGED next
            /\ lines' = [lines EXCEPT ![cur'] = <<logged + 1>>]
            /\ len' = [len EXCEPT ![cur'] = n]
    /\ pc' = IF pc = "wait" THEN "swap" ELSE pc

Log(n) ==
    /\ owner \in {"started", "join", "stopped"}
    /\ logged < MaxLines
    /\ AppendHere(n) \/ AppendNext(n)
    /\ logged' = logged + 1
    /\ UNCHANGED <<writer, at, running, owner, file, dropped>>

-----------------------------------------------------------------------------
(* The writer's thread.                                                    *)

\* The latch is counted down and the two spare buffers are allocated.
Begin ==
    /\ pc = "start"
    /\ new1' = Fresh(InUse) /\ new2' = Fresh(InUse \cup {new1'})
    /\ lines' = [lines EXCEPT ![new1'] = <<>>, ![new2'] = <<>>]
    /\ len' = [len EXCEPT ![new1'] = 0, ![new2'] = 0]
    /\ pc' = "test"
    /\ UNCHANGED <<producer, toWrite, at, running, owner, logged, file, dropped>>

Test ==
    /\ pc = "test"
    /\ pc' = IF running THEN "lock" ELSE "exit"
    /\ UNCHANGED <<producer, writer, lines, len, at, running, owner, logged, file,
                   dropped>>

\* With the mutex: wait if no full buffer is queued.
Lock ==
    /\ pc = "lock"
    /\ pc' = IF output = <<>> THEN "wait" ELSE "swap"
    /\ UNCHANGED <<producer, writer, lines, len, at, running, owner, logged, file,
                   dropped>>

\* Mutant: the writer waits until there is a full buffer.
TimeoutNever ==
    /\ pc = "wait" /\ output # <<>>
    /\ pc' = "swap"
    /\ UNCHANGED <<producer, writer, lines, len, at, running, owner, logged, file,
                   dropped>>

\* waitForSeconds also ends by its timeout, or for no reason.
Timeout ==
    /\ pc = "wait"
    /\ pc' = "swap"
    /\ UNCHANGED <<producer, writer, lines, len, at, running, owner, logged, file,
                   dropped>>

\* Mutant: the current buffer is taken only when there is no full one.
SwapFullOnly ==
    /\ pc = "swap"
    /\ toWrite' = IF output = <<>> THEN <<cur>> ELSE output
    /\ output' = toWrite
    /\ cur' = new1
    /\ new1' = NULL
    /\ IF next = NULL THEN next' = new2 /\ new2' = NULL
                      ELSE UNCHANGED <<next, new2>>
    /\ pc' = "cut"
    /\ UNCHANGED <<lines, len, at, running, owner, logged, file, dropped>>

(* The current buffer joins the queue whether it is full or not; the       *)
(* writer's buffers take its place and, if it is gone, the spare one's.    *)
(* Lock and Swap are one critical section when Lock does not wait; what    *)
(* append does in between could as well come before Lock.                  *)
Swap ==
    /\ pc = "swap"
    /\ toWrite' = Append(output, cur)
    /\ output' = toWrite
    /\ cur' = new1
    /\ new1' = NULL
    /\ IF next = NULL THEN next' = new2 /\ new2' = NULL
                      ELSE UNCHANGED <<next, new2>>
    /\ pc' = "cut"
    /\ UNCHANGED <<lines, len, at, running, owner, logged, file, dropped>>

\* Too many buffers: all but the first two are dropped.
Cut ==
    /\ pc = "cut"
    /\ toWrite' = IF Len(toWrite) > MaxQueued THEN SubSeq(toWrite, 1, 2) ELSE toWrite
    /\ dropped' = dropped \cup UNION {Range(lines[toWrite[i]]) :
                                      i \in DOMAIN toWrite \ DOMAIN toWrite'}
    /\ at' = 1
    /\ pc' = "write"
    /\ UNCHANGED <<producer, new1, new2, lines, len, running, owner, logged, file>>

WriteBuffer ==
    /\ pc = "write" /\ at <= Len(toWrite)
    /\ file' = file \o lines[toWrite[at]]
    /\ at' = at + 1
    /\ UNCHANGED <<producer, writer, lines, len, pc, running, owner, logged, dropped>>

\* Two of the written buffers are kept for reuse.
Written ==
    /\ pc = "write" /\ at > Len(toWrite)
    /\ toWrite' = IF Len(toWrite) > 2 THEN SubSeq(toWrite, 1, 2) ELSE toWrite
    /\ pc' = "recycle1"
    /\ UNCHANGED <<producer, new1, new2, lines, len, at, running, owner, logged,
                   file, dropped>>

\* Mutant: the recycled buffer keeps its contents.
ClearForgotten(b) == UNCHANGED <<lines, len>>
\* clearBuffer on buffer b.
Clear(b) ==
    /\ lines' = [lines EXCEPT ![b] = <<>>]
    /\ len' = [len EXCEPT ![b] = 0]

\* Mutant: the recycled buffer is not popped from buffersToWrite.
Recycle1Unpopped ==
    /\ pc = "recycle1"
    /\ IF new1 = NULL
       THEN /\ toWrite # <<>>
            /\ new1' = Last(toWrite)
            /\ Clear(Last(toWrite))
       ELSE UNCHANGED <<new1, lines, len>>
    /\ pc' = "recycle2"
    /\ UNCHANGED <<producer, new2, toWrite, at, running, owner, logged, file, dropped>>

Recycle1 ==
    /\ pc = "recycle1"
    /\ IF new1 = NULL
       THEN /\ toWrite # <<>>
            /\ new1' = Last(toWrite) /\ toWrite' = Front(toWrite)
            /\ Clear(Last(toWrite))
       ELSE UNCHANGED <<new1, toWrite, lines, len>>
    /\ pc' = "recycle2"
    /\ UNCHANGED <<producer, new2, at, running, owner, logged, file, dropped>>

Recycle2 ==
    /\ pc = "recycle2"
    /\ IF new2 = NULL
       THEN /\ toWrite # <<>>
            /\ new2' = Last(toWrite)
            /\ Clear(Last(toWrite))
       ELSE UNCHANGED <<new2, lines, len>>
    /\ toWrite' = <<>>
    /\ pc' = "test"
    /\ UNCHANGED <<producer, new1, at, running, owner, logged, file, dropped>>

-----------------------------------------------------------------------------
WriterStep == \/ Begin \/ Test \/ Lock \/ Timeout \/ Swap \/ Cut \/ WriteBuffer
              \/ Written \/ Recycle1 \/ Recycle2

Next ==
    \/ Start \/ Started \/ Stop \/ Join
    \/ \E n \in 1..MaxLen : Log(n)
    \/ WriterStep

Spec == Init /\ [][Next]_vars

\* The writer's thread is scheduled, and its timed wait ends.
FairSpec == Spec /\ WF_vars(WriterStep)

-----------------------------------------------------------------------------
(* The properties.                                                         *)

(* The asserts of threadFunc hold each time it reaches them: it starts an  *)
(* iteration with two empty spare buffers and nothing left to write, it    *)
(* has something to write, and it finds a written buffer for each spare    *)
(* that the swap used up.                                                  *)
AssertsHold ==
    /\ pc = "start" => running
    /\ pc \in {"lock", "wait"} =>
         /\ new1 # NULL /\ len[new1] = 0
         /\ new2 # NULL /\ len[new2] = 0
         /\ toWrite = <<>>
    /\ pc = "cut" => toWrite # <<>>
    /\ pc = "recycle1" => new1 # NULL \/ toWrite # <<>>
    /\ pc = "recycle2" => new2 # NULL \/ toWrite # <<>>

(* No buffer is reached by two pointers, so that the producers never fill  *)
(* a buffer the writer is writing or will clear.                           *)
Refs == <<cur, next, new1, new2>> \o output \o toWrite
NoSharing ==
    \A i, j \in DOMAIN Refs : Refs[i] = Refs[j] /\ Refs[i] # NULL => i = j

\* The buffers whose lines are not in the file, in the order they will be.
Unwritten ==
    (IF pc = "write" THEN SubSeq(toWrite, at, Len(toWrite))
     ELSE IF pc = "cut" THEN toWrite ELSE <<>>) \o Append(output, cur)

Increasing(s) == \A i, j \in DOMAIN s : i < j => s[i] < s[j]
Before(s, t) == \A x \in Range(s), y \in Range(t) : x < y

(* The log is faithful: the lines in the file, those in the buffers being  *)
(* written and those still queued are all lines logged, each once, in the  *)
(* order logged, except for those in the buffers that were cut.            *)
LogFaithful ==
    /\ Increasing(file)
    /\ \A i \in DOMAIN Unwritten :
         /\ Increasing(lines[Unwritten[i]])
         /\ Before(file, lines[Unwritten[i]])
         /\ \A j \in DOMAIN Unwritten :
              i < j => Before(lines[Unwritten[i]], lines[Unwritten[j]])
    /\ Range(file) \cup UNION {Range(lines[Unwritten[i]]) : i \in DOMAIN Unwritten}
         = (1..logged) \ dropped

(* Every line logged reaches the file, unless it is dropped or the log is  *)
(* stopped, though no append may ever follow it.                           *)
LinesReachFile ==
    \A i \in 1..MaxLines :
        logged >= i ~> i \in Range(file) \cup dropped \/ ~running
=============================================================================
