----------------------------- MODULE EventLoop -----------------------------
(***************************************************************************)
(* One reactor: the EventLoop, the EventLoopThread that runs it, and the   *)
(* threads that hand it work.  The subject is the wake-up protocol between *)
(* the mutex-protected pendingFunctions_, the is_quit_ flag and the        *)
(* edge-triggered eventfd.                                                 *)
(*                                                                         *)
(* What the tasks do is left out, except that running one, or handling an  *)
(* event of a connection, may call queueInLoop from the loop's own thread. *)
(* The order of the two halves of queueInLoop, of quit and of every step   *)
(* of loop() is kept; the flags are read and written one at a time.        *)
(***************************************************************************)
EXTENDS Naturals, Sequences, Functions

CONSTANTS Threads,      \* the threads other than the loop's own
          Tasks,        \* the functions they queue, each one once
          EarlyQuit     \* may quit() come before loop() resets is_quit_ ?

ASSUME EarlyQuitAssumption == EarlyQuit \in BOOLEAN

VARIABLES
    pc,         \* where the loop's thread is in threadFunc and loop()
    loop,       \* EventLoopThread::loop_ # NULL
    pending,    \* pendingFunctions_
    functions,  \* the local vector of doPendingFunctions
    calling,    \* is_callingPendingFunctions_
    quit,       \* is_quit_
    counter,    \* the eventfd's counter
    ready,      \* the eventfd is on epoll's ready list
    batch,      \* what the last epoll_wait returned and is still unhandled
    stage,      \* stage[p]: where thread p is in queueInLoop or the destructor
    ran         \* history: the tasks that have been run

vars == <<pc, loop, pending, functions, calling, quit, counter, ready, batch,
          stage, ran>>

PC == {"construct", "start", "test", "poll", "handle", "swap",
       "run", "wake", "expire", "exit", "gone"}
Stages == {"idle", "pushed", "quitting", "join", "joined"}
Sources == {"eventfd", "socket"}

TypeOK ==
    /\ pc \in PC
    /\ loop \in BOOLEAN
    /\ pending \in Seq(Tasks)
    /\ functions \in Seq(Tasks)
    /\ calling \in BOOLEAN
    /\ quit \in BOOLEAN
    /\ counter \in Nat
    /\ ready \in BOOLEAN
    /\ batch \in SUBSET Sources
    /\ stage \in [Threads -> Stages]
    /\ ran \in Seq(Tasks)

Init ==
    /\ pc = "construct"
    /\ loop = FALSE
    /\ pending = <<>> /\ functions = <<>>
    /\ calling = FALSE
    /\ quit = FALSE
    /\ counter = 0 /\ ready = FALSE
    /\ batch = {}
    /\ stage = [p \in Threads |-> "idle"]
    /\ ran = <<>>

-----------------------------------------------------------------------------
(* The eventfd.  Each write puts it on epoll's ready list, also when the   *)
(* counter was positive already; that is what EPOLLET reports.             *)
Write == counter' = counter + 1 /\ ready' = TRUE

\* A write to a loop that is gone hits a closed descriptor and is ignored.
Wakeup == IF pc = "gone" THEN UNCHANGED <<counter, ready>> ELSE Write

\* epoll_wait would report the eventfd.
Signalled == ready /\ counter > 0

(* A task nobody has queued yet (the bound of the model: each is queued at *)
(* most once).                                                             *)
Fresh(t) == t \notin Range(pending) \cup Range(functions) \cup Range(ran)

-----------------------------------------------------------------------------
(* The other threads.                                                      *)

\* ~EventLoopThread has been entered: its thread no longer queues work.
Leaving == \E p \in Threads : stage[p] \in {"quitting", "join", "joined"}

\* startLoop waits until loop_ is set: no thread has the loop before.
Returned == loop

\* queueInLoop, the critical section.
Queue(p, t) ==
    /\ Returned /\ ~Leaving
    /\ stage[p] = "idle"
    /\ Fresh(t)
    /\ pending' = Append(pending, t)
    /\ stage' = [stage EXCEPT ![p] = "pushed"]
    /\ UNCHANGED <<pc, loop, functions, calling, quit, counter, ready, batch, ran>>

\* Mutant: the two reasons to wake the loop joined by && instead of ||.
QueueWakeupIfCalling(p) ==
    /\ stage[p] = "pushed"
    /\ IF calling THEN Wakeup ELSE UNCHANGED <<counter, ready>>
    /\ stage' = [stage EXCEPT ![p] = "idle"]
    /\ UNCHANGED <<pc, loop, pending, functions, calling, quit, batch, ran>>

\* queueInLoop, after the critical section: not in the loop's thread, so wake it.
QueueWakeup(p) ==
    /\ stage[p] = "pushed"
    /\ Wakeup
    /\ stage' = [stage EXCEPT ![p] = "idle"]
    /\ UNCHANGED <<pc, loop, pending, functions, calling, quit, batch, ran>>

(* ~EventLoopThread calls quit() if loop_ is set.  It runs on the only     *)
(* thread that queues work (the main thread, from ~Server).                *)
Quit(p) ==
    /\ loop /\ ~Leaving
    /\ \A q \in Threads : stage[q] = "idle"
    /\ EarlyQuit \/ pc # "start"
    /\ quit' = TRUE
    /\ stage' = [stage EXCEPT ![p] = "quitting"]
    /\ UNCHANGED <<pc, loop, pending, functions, calling, counter, ready, batch, ran>>

\* Mutant: quit only sets the flag.
QuitSilently(p) ==
    /\ stage[p] = "quitting"
    /\ stage' = [stage EXCEPT ![p] = "join"]
    /\ UNCHANGED <<pc, loop, pending, functions, calling, quit, counter, ready,
                   batch, ran>>

QuitWakeup(p) ==
    /\ stage[p] = "quitting"
    /\ Wakeup
    /\ stage' = [stage EXCEPT ![p] = "join"]
    /\ UNCHANGED <<pc, loop, pending, functions, calling, quit, batch, ran>>

Join(p) ==
    /\ stage[p] = "join" /\ pc = "gone"
    /\ stage' = [stage EXCEPT ![p] = "joined"]
    /\ UNCHANGED <<pc, loop, pending, functions, calling, quit, counter, ready,
                   batch, ran>>

-----------------------------------------------------------------------------
(* The loop's own thread.                                                  *)

\* threadFunc publishes the loop; startLoop was waiting for it.
Publish ==
    /\ pc = "construct"
    /\ loop' = TRUE
    /\ pc' = "start"
    /\ UNCHANGED <<pending, functions, calling, quit, counter, ready, batch, stage, ran>>

\* loop() resets is_quit_ before it first tests it.
EnterLoop ==
    /\ pc = "start"
    /\ quit' = FALSE
    /\ pc' = "test"
    /\ UNCHANGED <<loop, pending, functions, calling, counter, ready, batch, stage, ran>>

TestQuit ==
    /\ pc = "test"
    /\ pc' = IF quit THEN "exit" ELSE "poll"
    /\ UNCHANGED <<loop, pending, functions, calling, quit, counter, ready, batch,
                   stage, ran>>

(* epoll_wait returns the eventfd if it is signalled, a socket if one has  *)
(* something to report, and nothing after EPOLLWAIT_TIME; returning takes  *)
(* the eventfd off the ready list.                                         *)
Poll(socket, timeout) ==
    /\ pc = "poll"
    /\ Signalled \/ socket \/ timeout
    /\ batch' = (IF Signalled THEN {"eventfd"} ELSE {}) \cup
                (IF socket THEN {"socket"} ELSE {})
    /\ ready' = FALSE
    /\ pc' = "handle"
    /\ UNCHANGED <<loop, pending, functions, calling, quit, counter, stage, ran>>

\* Mutant: a wake-up is taken off the counter for any event.
HandleWakeupUnchecked ==
    /\ pc = "handle"
    /\ counter' = counter - 1
    /\ batch' = batch \ {"eventfd"}
    /\ UNCHANGED <<pc, loop, pending, functions, calling, quit, ready, stage, ran>>

\* handleRead drains the eventfd; handleConn finds its events unchanged.
HandleWakeup ==
    /\ pc = "handle" /\ "eventfd" \in batch
    /\ counter' = 0
    /\ batch' = batch \ {"eventfd"}
    /\ UNCHANGED <<pc, loop, pending, functions, calling, quit, ready, stage, ran>>

HandleSocket ==
    /\ pc = "handle" /\ "socket" \in batch
    /\ batch' = batch \ {"socket"}
    /\ UNCHANGED <<pc, loop, pending, functions, calling, quit, counter, ready,
                   stage, ran>>

\* Mutant: the loop's own thread never needs to be woken.
QueueOwnSilent(t) ==
    /\ \/ pc = "handle" /\ "socket" \in batch
       \/ pc = "run"
    /\ Fresh(t)
    /\ pending' = Append(pending, t)
    /\ UNCHANGED <<pc, loop, functions, calling, quit, counter, ready, batch,
                   stage, ran>>

(* queueInLoop called by the loop's own thread, from the handler of an     *)
(* event or from a task that doPendingFunctions is running: it wakes the   *)
(* loop only in the second case.                                           *)
QueueOwn(t) ==
    /\ \/ pc = "handle" /\ "socket" \in batch
       \/ pc = "run"
    /\ Fresh(t)
    /\ pending' = Append(pending, t)
    /\ pc' = IF calling THEN "wake" ELSE pc
    /\ UNCHANGED <<loop, functions, calling, quit, counter, ready, batch, stage, ran>>

OwnWakeup ==
    /\ pc = "wake"
    /\ Write
    /\ pc' = "run"
    /\ UNCHANGED <<loop, pending, functions, calling, quit, batch, stage, ran>>

\* doPendingFunctions: a fresh local vector, then the flag.
SetCalling ==
    /\ pc = "handle" /\ batch = {}
    /\ functions' = <<>>
    /\ calling' = TRUE
    /\ pc' = "swap"
    /\ UNCHANGED <<loop, pending, quit, counter, ready, batch, stage, ran>>

\* Mutant: the tasks are copied, not swapped out.
CopyPending ==
    /\ pc = "swap"
    /\ functions' = pending
    /\ pc' = "run"
    /\ UNCHANGED <<loop, pending, calling, quit, counter, ready, batch, stage, ran>>

SwapPending ==
    /\ pc = "swap"
    /\ functions' = pending
    /\ pending' = functions
    /\ pc' = "run"
    /\ UNCHANGED <<loop, calling, quit, counter, ready, batch, stage, ran>>

RunTask ==
    /\ pc = "run" /\ functions # <<>>
    /\ ran' = Append(ran, Head(functions))
    /\ functions' = Tail(functions)
    /\ UNCHANGED <<pc, loop, pending, calling, quit, counter, ready, batch, stage>>

FinishPending ==
    /\ pc = "run" /\ functions = <<>>
    /\ calling' = FALSE
    /\ pc' = "expire"
    /\ UNCHANGED <<loop, pending, functions, quit, counter, ready, batch, stage, ran>>

\* Expired connections are closed here (SubReactor); none of that queues work.
HandleExpired ==
    /\ pc = "expire"
    /\ pc' = "test"
    /\ UNCHANGED <<loop, pending, functions, calling, quit, counter, ready, batch,
                   stage, ran>>

\* threadFunc after loop() returns, and ~EventLoop, which closes the eventfd.
LeaveThread ==
    /\ pc = "exit"
    /\ loop' = FALSE
    /\ pc' = "gone"
    /\ ready' = FALSE
    /\ UNCHANGED <<pending, functions, calling, quit, counter, batch, stage, ran>>

-----------------------------------------------------------------------------
(* Steps of the loop's thread that no socket event and no timeout helps.   *)
OwnStep ==
    \/ Publish \/ EnterLoop \/ TestQuit
    \/ Poll(FALSE, FALSE)
    \/ HandleWakeup \/ HandleSocket \/ OwnWakeup
    \/ SetCalling \/ SwapPending \/ RunTask \/ FinishPending
    \/ HandleExpired \/ LeaveThread

ThreadStep(p) == QueueWakeup(p) \/ QuitWakeup(p) \/ Join(p)

Next ==
    \/ OwnStep
    \/ \E socket, timeout \in BOOLEAN : Poll(socket, timeout)
    \/ \E t \in Tasks : QueueOwn(t)
    \/ \E p \in Threads : ThreadStep(p) \/ Quit(p) \/ \E t \in Tasks : Queue(p, t)

Spec == Init /\ [][Next]_vars

(* The scheduler runs every thread.  Nothing makes a socket event arrive,  *)
(* and the ten-second timeout of epoll_wait is not counted on either.      *)
FairSpec ==
    /\ Spec
    /\ WF_vars(OwnStep)
    /\ \A p \in Threads : WF_vars(ThreadStep(p))

-----------------------------------------------------------------------------
(* The properties.                                                         *)

\* Somebody is still going to write the eventfd, or epoll_wait will report it.
WakeDue ==
    \/ Signalled
    \/ pc = "wake"
    \/ \E p \in Threads : stage[p] \in {"pushed", "quitting"}

(* queueInLoop and quit never leave the loop asleep in epoll_wait with     *)
(* work, or with a request to stop, that nothing will wake it for.         *)
NoLostWakeup == pc = "poll" /\ (pending # <<>> \/ quit) => WakeDue

(* Tasks are run in the order queueInLoop received them, each once, across *)
(* the swaps and with tasks that queue tasks: the loop is a TaskQueue.     *)
TQ == INSTANCE TaskQueue WITH todo <- functions \o pending, done <- ran
RunInOrder == TQ!Spec

(* A queued task is run, without counting on the poll timeout, unless the  *)
(* loop is told to stop.                                                   *)
QueuedRuns ==
    \A t \in Tasks : t \in Range(pending) ~> t \in Range(ran) \/ quit

(* ~EventLoopThread gets past its join: the signal handler of Main.cpp     *)
(* counts on it to write the messages back.                                *)
QuitJoins == \A p \in Threads : stage[p] = "quitting" ~> stage[p] = "joined"
=============================================================================
