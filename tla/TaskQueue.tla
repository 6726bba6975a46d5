----------------------------- MODULE TaskQueue -----------------------------
(***************************************************************************)
(* What an event loop promises to the threads that hand it work: a task    *)
(* given to queueInLoop is run at most once, and tasks run in the order in *)
(* which they were queued.  EventLoop implements this specification.       *)
(***************************************************************************)
EXTENDS Sequences

CONSTANT Tasks      \* the functions that can be queued

VARIABLES todo,     \* queued and not yet run, oldest first
          done      \* run, oldest first

Init == todo = <<>> /\ done = <<>>

Queue(t) == todo' = Append(todo, t) /\ UNCHANGED done

Run == /\ todo # <<>>
       /\ done' = Append(done, Head(todo))
       /\ todo' = Tail(todo)

Next == Run \/ \E t \in Tasks : Queue(t)

Spec == Init /\ [][Next]_<<todo, done>>
=============================================================================
