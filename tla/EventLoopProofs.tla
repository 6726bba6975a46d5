--------------------------- MODULE EventLoopProofs ---------------------------
(***************************************************************************)
(* Proofs about EventLoop, for any set of threads and of tasks.            *)
(***************************************************************************)
EXTENDS EventLoop, SequenceTheorems, TLAPS

(* A queued task is covered by a wake-up that is due, or the loop is       *)
(* between epoll_wait and the swap that takes it, or has stopped.          *)
PendingCovered ==
    pending # <<>> => WakeDue \/ pc \in {"handle", "swap", "exit", "gone"}

\* is_callingPendingFunctions_ holds exactly inside doPendingFunctions.
CallingExact == calling <=> (pc \in {"swap", "run", "wake"})

(* The local vector holds something only while doPendingFunctions runs it; *)
(* in particular pendingFunctions_ is swapped with an empty one.           *)
SwapClean == pc \in {"run", "wake"} \/ functions = <<>>

\* A request to stop that is not covered is seen before the next epoll_wait.
QuitCovered == pc = "poll" /\ quit => WakeDue

IParts == CallingExact /\ SwapClean /\ PendingCovered /\ QuitCovered
IInv == TypeOK /\ IParts

-----------------------------------------------------------------------------
\* Writing the eventfd keeps the types of its counter and of its flag.
LEMMA WriteType ==
  ASSUME counter \in Nat, ready \in BOOLEAN, Wakeup \/ Write
  PROVE  counter' \in Nat /\ ready' \in BOOLEAN
<1>1. CASE Write
  <2>1. counter' \in Nat
    BY <1>1 DEF Write
  <2> QED BY <1>1, <2>1 DEF Write
<1>2. CASE UNCHANGED <<counter, ready>>
  BY <1>2
<1> QED
  BY <1>1, <1>2 DEF Wakeup

(* The loop's variables have their types in every reachable state.         *)
THEOREM TypeCorrect == Spec => []TypeOK
<1>1. Init => TypeOK
  <2> SUFFICES ASSUME Init PROVE TypeOK
    OBVIOUS
  <2>1. <<>> \in Seq(Tasks) /\ 0 \in Nat
    OBVIOUS
  <2> QED BY <2>1 DEF Init, TypeOK, PC, Stages, Sources
<1>2. TypeOK /\ [Next]_vars => TypeOK'
  <2> SUFFICES ASSUME TypeOK, [Next]_vars PROVE TypeOK'
    OBVIOUS
  <2> USE DEF TypeOK, PC, Stages, Sources
  <2>1. ASSUME NEW p \in Threads, NEW t \in Tasks, Queue(p, t) PROVE TypeOK'
    BY <2>1 DEF Queue
  <2>2. ASSUME NEW p \in Threads, QueueWakeup(p) PROVE TypeOK'
    BY <2>2, WriteType DEF QueueWakeup
  <2>3. ASSUME NEW p \in Threads, Quit(p) PROVE TypeOK'
    BY <2>3 DEF Quit
  <2>4. ASSUME NEW p \in Threads, QuitWakeup(p) PROVE TypeOK'
    BY <2>4, WriteType DEF QuitWakeup
  <2>5. ASSUME NEW p \in Threads, Join(p) PROVE TypeOK'
    BY <2>5 DEF Join
  <2>6. CASE Publish \/ EnterLoop \/ TestQuit \/ HandleExpired \/ LeaveThread
    BY <2>6 DEF Publish, EnterLoop, TestQuit, HandleExpired, LeaveThread
  <2>7. ASSUME NEW socket \in BOOLEAN, NEW timeout \in BOOLEAN,
               Poll(socket, timeout)
        PROVE  TypeOK'
    BY <2>7 DEF Poll
  <2>8. CASE HandleWakeup
    <3>1. batch' \in SUBSET {"eventfd", "socket"} /\ counter' \in Nat
      BY <2>8 DEF HandleWakeup
    <3> QED BY <2>8, <3>1 DEF HandleWakeup
  <2>9. CASE HandleSocket
    <3>1. batch' \in SUBSET {"eventfd", "socket"}
      BY <2>9 DEF HandleSocket
    <3> QED BY <2>9, <3>1 DEF HandleSocket
  <2>10. ASSUME NEW t \in Tasks, QueueOwn(t) PROVE TypeOK'
    BY <2>10 DEF QueueOwn
  <2>11. CASE OwnWakeup
    <3>1. counter' \in Nat /\ ready' \in BOOLEAN
      BY <2>11, WriteType, Zenon DEF OwnWakeup
    <3> QED BY <2>11, <3>1 DEF OwnWakeup
  <2>12. CASE SetCalling
    <3>1. functions' \in Seq(Tasks)
      BY <2>12 DEF SetCalling
    <3> QED BY <2>12, <3>1 DEF SetCalling
  <2>13. CASE SwapPending
    BY <2>13 DEF SwapPending
  <2>14. CASE FinishPending
    BY <2>14 DEF FinishPending
  <2>15. CASE RunTask
    <3>1. Head(functions) \in Tasks /\ Tail(functions) \in Seq(Tasks)
      BY <2>15, HeadTailProperties DEF RunTask
    <3> QED BY <2>15, <3>1 DEF RunTask
  <2>16. CASE UNCHANGED vars
    BY <2>16 DEF vars
  <2> QED
    BY <2>1, <2>2, <2>3, <2>4, <2>5, <2>6, <2>7, <2>8,
       <2>9, <2>10, <2>11, <2>12, <2>13, <2>14, <2>15, <2>16
       DEF Next, OwnStep, ThreadStep
<1> QED
  BY <1>1, <1>2, PTL DEF Spec

-----------------------------------------------------------------------------
(* A wake-up that is due stays due while nobody touches the eventfd or     *)
(* gets further in queueInLoop or quit.                                    *)
LEMMA WakeStaysDue ==
  ASSUME WakeDue, pc # "wake", UNCHANGED <<counter, ready, stage>>
  PROVE  WakeDue'
BY DEF WakeDue, Signalled

\* Writing the eventfd makes a wake-up due.
LEMMA WriteWakes ==
  ASSUME counter \in Nat, Write
  PROVE  WakeDue'
<1>1. counter' > 0 /\ ready'
  BY DEF Write
<1> QED
  BY <1>1 DEF WakeDue, Signalled

\* A thread that has pushed a task or set is_quit_ is about to write.
LEMMA StageWakes ==
  ASSUME stage \in [Threads -> Stages], NEW p \in Threads,
         NEW s \in {"pushed", "quitting"},
         stage' = [stage EXCEPT ![p] = s]
  PROVE  WakeDue'
<1>1. stage'[p] \in {"pushed", "quitting"}
  OBVIOUS
<1> QED
  BY <1>1 DEF WakeDue

\* The invariant is kept by the steps of the other threads.
LEMMA ThreadsKeepIInv ==
  ASSUME IInv, NEW p \in Threads,
         ThreadStep(p) \/ Quit(p) \/ \E t \in Tasks : Queue(p, t)
  PROVE  IParts'
<1> USE DEF IInv, IParts
<1>1. ASSUME NEW t \in Tasks, Queue(p, t) PROVE IParts'
  <2>1. WakeDue'
    BY <1>1, StageWakes DEF Queue, TypeOK
  <2> QED
    BY <1>1, <2>1 DEF Queue, CallingExact, SwapClean, PendingCovered, QuitCovered
<1>2. CASE Quit(p)
  <2>1. WakeDue'
    BY <1>2, StageWakes DEF Quit, TypeOK
  <2> QED
    BY <1>2, <2>1 DEF Quit, CallingExact, SwapClean, PendingCovered, QuitCovered
<1>3. CASE QueueWakeup(p) \/ QuitWakeup(p)
  <2>1. CASE pc = "gone"
    BY <1>3, <2>1 DEF QueueWakeup, QuitWakeup, CallingExact, SwapClean,
       PendingCovered, QuitCovered
  <2>2. CASE pc # "gone"
    <3>1. Write
      BY <1>3, <2>2 DEF QueueWakeup, QuitWakeup, Wakeup
    <3>2. counter \in Nat
      BY DEF TypeOK
    <3>3. WakeDue'
      BY <3>1, <3>2, WriteWakes
    <3> QED
      BY <1>3, <3>3 DEF QueueWakeup, QuitWakeup, CallingExact, SwapClean,
         PendingCovered, QuitCovered
  <2> QED BY <2>1, <2>2
<1>4. CASE Join(p)
  BY <1>4 DEF Join, CallingExact, SwapClean, PendingCovered, QuitCovered
<1> QED
  BY <1>1, <1>2, <1>3, <1>4 DEF ThreadStep

\* The invariant is kept by the steps of the loop's own thread.
LEMMA LoopKeepsIInv ==
  ASSUME IInv,
         \/ OwnStep
         \/ \E socket, timeout \in BOOLEAN : Poll(socket, timeout)
         \/ \E t \in Tasks : QueueOwn(t)
  PROVE  IParts'
<1> USE DEF IInv, IParts
<1>1. CASE Publish \/ EnterLoop \/ HandleExpired
  <2>1. pc # "wake" /\ UNCHANGED <<counter, ready, stage, pending>> /\ pc' # "poll"
    BY <1>1 DEF Publish, EnterLoop, HandleExpired
  <2>2. PendingCovered'
    BY <1>1, <2>1, WakeStaysDue
       DEF Publish, EnterLoop, HandleExpired, PendingCovered
  <2> QED
    BY <1>1, <2>1, <2>2
       DEF Publish, EnterLoop, HandleExpired, CallingExact, SwapClean, QuitCovered
<1>2. CASE TestQuit
  <2>1. pc # "wake" /\ UNCHANGED <<counter, ready, stage, pending>>
    BY <1>2 DEF TestQuit
  <2>2. PendingCovered'
    BY <1>2, <2>1, WakeStaysDue DEF TestQuit, PendingCovered
  <2> QED
    BY <1>2, <2>2 DEF TestQuit, CallingExact, SwapClean, QuitCovered
<1>3. ASSUME NEW socket \in BOOLEAN, NEW timeout \in BOOLEAN,
             Poll(socket, timeout)
      PROVE  IParts'
  BY <1>3 DEF Poll, CallingExact, SwapClean, PendingCovered, QuitCovered
<1>4. CASE HandleWakeup \/ HandleSocket
  BY <1>4 DEF HandleWakeup, HandleSocket, CallingExact, SwapClean,
     PendingCovered, QuitCovered
<1>5. ASSUME NEW t \in Tasks, QueueOwn(t) PROVE IParts'
  <2>1. pc' = IF pc = "run" THEN "wake" ELSE "handle"
    BY <1>5 DEF QueueOwn, CallingExact
  <2>2. WakeDue' \/ pc' = "handle"
    BY <2>1 DEF WakeDue
  <2> QED
    BY <1>5, <2>1, <2>2 DEF QueueOwn, CallingExact, SwapClean,
       PendingCovered, QuitCovered
<1>6. CASE OwnWakeup
  <2>1. WakeDue'
    BY <1>6, WriteWakes DEF OwnWakeup, TypeOK
  <2> QED
    BY <1>6, <2>1 DEF OwnWakeup, CallingExact, SwapClean, PendingCovered, QuitCovered
<1>7. CASE SetCalling \/ LeaveThread
  <2>1. CASE SetCalling
    BY <2>1 DEF SetCalling, CallingExact, SwapClean, PendingCovered, QuitCovered
  <2>2. CASE LeaveThread
    BY <2>2 DEF LeaveThread, CallingExact, SwapClean, PendingCovered, QuitCovered
  <2> QED BY <1>7, <2>1, <2>2
<1>8. CASE SwapPending
  BY <1>8 DEF SwapPending, CallingExact, SwapClean, PendingCovered, QuitCovered
<1>9. CASE RunTask \/ FinishPending
  <2>1. pc # "wake" /\ UNCHANGED <<counter, ready, stage, pending>> /\ pc' # "poll"
    BY <1>9 DEF RunTask, FinishPending
  <2>2. PendingCovered'
    BY <1>9, <2>1, WakeStaysDue DEF RunTask, FinishPending, PendingCovered
  <2>3. CASE RunTask
    BY <2>1, <2>2, <2>3 DEF RunTask, CallingExact, SwapClean, QuitCovered
  <2>4. CASE FinishPending
    <3>1. calling' = FALSE /\ pc' = "expire" /\ functions' = <<>>
      BY <2>4 DEF FinishPending
    <3> QED BY <2>2, <3>1 DEF CallingExact, SwapClean, QuitCovered
  <2> QED BY <1>9, <2>3, <2>4
<1> QED
  BY <1>1, <1>2, <1>3, <1>4, <1>5, <1>6, <1>7, <1>8, <1>9 DEF OwnStep

\* The strengthened invariant holds in every reachable state.
LEMMA Invariance == Spec => []IInv
<1>1. Init => IParts
  <2> SUFFICES ASSUME Init PROVE IParts
    OBVIOUS
  <2>1. pc = "construct" /\ calling = FALSE /\ pending = <<>> /\ functions = <<>>
    BY DEF Init
  <2>2. CallingExact
    BY <2>1 DEF CallingExact
  <2> QED
    BY <2>1, <2>2 DEF IParts, SwapClean, PendingCovered, QuitCovered
<1>2. TypeOK /\ IParts /\ [Next]_vars => IParts'
  <2> SUFFICES ASSUME TypeOK, IParts, [Next]_vars PROVE IParts'
    OBVIOUS
  <2>1. CASE Next
    BY <2>1, ThreadsKeepIInv, LoopKeepsIInv DEF Next, IInv
  <2>2. CASE UNCHANGED vars
    BY <2>2 DEF vars, IParts, CallingExact, SwapClean, PendingCovered,
       QuitCovered, WakeDue, Signalled
  <2> QED BY <2>1, <2>2
<1> QED
  BY <1>1, <1>2, TypeCorrect, PTL DEF Spec, IInv

(* queueInLoop and quit never leave the loop blocked in epoll_wait with    *)
(* work, or with a request to stop, that nothing will wake it for.         *)
THEOREM WakeupNotLost == Spec => []NoLostWakeup
<1>1. IInv => NoLostWakeup
  BY DEF IInv, IParts, PendingCovered, QuitCovered, NoLostWakeup
<1> QED
  BY <1>1, Invariance, PTL

-----------------------------------------------------------------------------
(* The refinement: what is left to run is the local vector, then the       *)
(* pending one.                                                            *)
todo == functions \o pending

\* Pushing to the pending vector appends to what is left to run.
LEMMA PushAppends ==
  ASSUME functions \in Seq(Tasks), pending \in Seq(Tasks), NEW t \in Tasks
  PROVE  functions \o Append(pending, t) = Append(todo, t)
<1>1. /\ Append(pending, t) = pending \o <<t>>
      /\ Append(todo, t) = todo \o <<t>>
      /\ <<t>> \in Seq(Tasks)
  BY AppendIsConcat, ConcatProperties DEF todo
<1> QED
  BY <1>1, ConcatAssociative DEF todo

\* Running the first task of the local vector takes the first of todo.
LEMMA PopIsTail ==
  ASSUME functions \in Seq(Tasks), pending \in Seq(Tasks), functions # <<>>
  PROVE  /\ todo # <<>>
         /\ Head(todo) = Head(functions)
         /\ Tail(todo) = Tail(functions) \o pending
BY DEF todo

(* Every step of the loop and of the threads around it is a step of the    *)
(* TaskQueue or leaves it alone: tasks run once, in the order queued.      *)
THEOREM LoopIsTaskQueue == Spec => RunInOrder
<1>1. Init => TQ!Init
  BY DEF Init, TQ!Init
<1>2. IInv /\ [Next]_vars => [TQ!Next]_<<todo, ran>>
  <2> SUFFICES ASSUME IInv, [Next]_vars, ~UNCHANGED <<functions, pending, ran>>
               PROVE  TQ!Next \/ UNCHANGED <<todo, ran>>
    BY DEF todo
  <2> USE DEF IInv, IParts, TypeOK
  <2>1. ASSUME NEW p \in Threads, NEW t \in Tasks, Queue(p, t)
        PROVE  TQ!Queue(t)
    BY <2>1, PushAppends DEF Queue, TQ!Queue, todo
  <2>2. ASSUME NEW t \in Tasks, QueueOwn(t) PROVE TQ!Queue(t)
    BY <2>2, PushAppends DEF QueueOwn, TQ!Queue, todo
  <2>3. CASE RunTask
    <3>1. TQ!Run
      BY <2>3, PopIsTail DEF RunTask, TQ!Run, todo
    <3> QED BY <3>1 DEF TQ!Next
  <2>4. CASE SetCalling
    BY <2>4 DEF SetCalling, SwapClean, todo
  <2>5. CASE SwapPending
    <3>1. functions = <<>> /\ functions' = pending /\ pending' = <<>> /\ ran' = ran
      BY <2>5 DEF SwapPending, SwapClean
    <3> QED BY <3>1, ConcatEmptySeq DEF todo
  <2> QED
    BY <2>1, <2>2, <2>3, <2>4, <2>5
       DEF Next, OwnStep, ThreadStep, vars, TQ!Next, QueueWakeup, QuitWakeup,
           Quit, Join, Publish, EnterLoop, TestQuit, Poll, HandleWakeup,
           HandleSocket, OwnWakeup, FinishPending, HandleExpired, LeaveThread
<1> QED
  BY <1>1, <1>2, Invariance, PTL DEF Spec, RunInOrder, TQ!Spec, todo

=============================================================================
