# TLA+ models of TreeHoleServer

TreeHoleServer is a C++ HTTP server for anonymous messages ("tree hole"): a main
reactor accepts connections and hands them to sub-reactors, one event loop per
thread; handlers parse requests, store messages in a skip list, and answer from
it or from a cache; a background thread writes the log. This directory holds TLA+
modules translated from the source, TLC configurations that check them, and
TLAPS proofs. Paths below are relative to `src/WebServer/`; `PROJECT.json` maps
each definition to the lines it models.

## 1. Inventory of the system

| Part | State it keeps | Operations | Interacts with |
|---|---|---|---|
| `EventLoop`, `EventLoopThread` | `pendingFunctions_` under `mutex_`, `is_quit_`, `is_callingPendingFunctions_`, the eventfd, `loop_` | `queueInLoop`, `runInLoop`, `wakeup`, `quit`, `loop`, `doPendingFunctions`, `startLoop` | the main thread pushes tasks and reads `num_socket_`; the loop calls poller, channels and timers |
| `Epoll`, `Channel` | `fd2chan_`, `fd2http_`, the kernel's registrations, `events_`, `revents_`, `lastEvents_` | `epoll_add`, `epoll_mod`, `epoll_del`, `poll`, `handleEvents` | called by the loop; calls `HttpData` through callbacks |
| `HttpData` | connection state, parse state, buffers, `keepAlive_`, `timer_` | `newEvent`, `handleRead`, `handleWrite`, `handleConn`, `handleClose` | poller, timers, skip list, cache |
| `TimerManager` | a heap of nodes, each holding an `HttpData` or nothing | `addTimer`, `handleExpiredEvent`, `clearReq` | destroying a node closes its connection |
| `SkipList`, `TreeHole` | the linked levels, `skipListLevel_`, `elementCount_`, a file | `insertNode`, `deleteNode`, `searchNode`, `getItems`, load and save | all sub-reactors share one list; writers lock, readers do not |
| `LRUCache` | a map and a doubly linked list in vectors | `put`, `get` | shared by all sub-reactors, partly locked |
| `HttpData`, the parser | `state_`, `hState_`, `inBuffer_`, `headers_`, `method_`, `fileName_` | `parseURI`, `parseHeaders`, `analysisRequest` | called by `handleRead` with whatever has arrived |
| the service: POST and GET | (list and cache) | `analysisRequest` | creates nodes, lists them, fills the cache |
| `Server`, `EventLoopThreadPool` | the listening socket, the loops | `handNewConn`, `getLeastLoop`, `start` | creates `HttpData`, queues `newEvent` |
| `AsyncLogging`, `Logger`, `FixedBuffer`, `LogFile` | current and spare buffer, queue of full ones, the writer's two buffers, `running_` | `append`, `threadFunc`, `start`, `stop` | every thread logs; one thread writes |
| `Main` | the server object | `main`, `signalHandler` | the handler destroys the server: joins the loops, saves the list |
| base: `Thread`, `Condition`, `MutexLock`, `CountDownLatch` | | | the waits and atomicity of all of the above |
| client, stress test, WebBench | | | load and demonstration, not the server |

What is hard in this code, and what each part must get right:

* **Event loop.** The decision to wake the loop is taken outside the lock. No
  task may wait for the ten-second poll timeout, tasks run once and in order,
  and a loop that is told to stop is joined.
* **Connections.** Everything is edge-triggered, and a registration is only
  renewed when the events changed; descriptors are used again; three kinds of
  holders keep an `HttpData` alive; a timer node closes what it still holds. A
  connection must not go deaf, must have exactly one deadline, must be counted
  once, and must be closed in the end; a response must be complete.
* **Log.** Buffers change hands by pointer. None may be shared, and the file must
  have the lines in order.
* **Storage engine.** Readers take no lock while nodes are linked level by level.
* **Cache.** Four vectors and a map are one list, through moves to the front and
  evictions; half of `put` and all of `get` run without the lock.
* **Service and persistence.** Reactors share list and cache while a signal handler
  destroys the server under them; saving truncates the file first; loading reads
  one line too many and reads keys out of texts with the separator. What was stored must stay
  listed, a save must have all of it, keys must stay distinct, and a cached answer must
  have been true.
* **Parser.** Requests come in pieces; part of the parser's state lives from one piece
  to the next and part does not. Nothing but what was sent may be stored, and the
  parser may not wait for more than a request has.
* **Accept loop and timers.** Edge-triggered accepting with early returns, descriptors
  against the size of the tables, and a clock that starts again every 10,000 seconds
  under deadlines that do not.

`PROJECT.json` lists the hazards at their lines, with the properties that cover
them.

## 2. Modules

| Module | Models | Kind |
|---|---|---|
| `TaskQueue` | the promise of `queueInLoop`: a FIFO of tasks | abstract |
| `EventLoop` | one loop, its thread, the threads that queue and quit | detailed, implements `TaskQueue` |
| `SubReactor` | the connections of one sub-reactor: `Epoll`, `Channel`, `HttpData`, `TimerManager` | composed |
| `MCSubReactor` | symmetry of the connections | TLC |
| `Admission` | `handNewConn`, `getLeastLoop`, `newEvent`, the timers and their clock | composed |
| `HttpParser` | one connection of the client: what it sends, in pieces, and `handleRead` | detailed |
| `MCHttpParser` | the client's requests | TLC |
| `AsyncLogging` | producers, writer, buffers, file | detailed |
| `MessageSet` | the promise of the storage engine: at most one message per key | abstract |
| `SkipList` | insertion by steps, deletion, unlocked reads | detailed, implements `MessageSet` |
| `MCSkipList` | four messages with three keys | TLC |
| `BoundedMap` | the promise of the cache: a map that drops its oldest entry | abstract |
| `LRUCache` | `put` with its branches and `get`, on the vectors | detailed, implements `BoundedMap` |
| `TreeHoleService` | the reactors' requests over the list and the cache, and the life of the process | composes `LRUCache` with the list and the file |
| `MCTreeHoleService` | the names that are requested, and a text that breaks its line | TLC |
| `EventLoopProofs`, `AsyncLoggingProofs`, `TreeHoleServiceProofs`, `AdmissionProofs`, `SubReactorProofs`, `SkipListProofs`, `HttpParserProofs` | theorems about these (`LRUCache`'s are with `TreeHoleService`'s) | proofs |
| `LeastNatural` | two lemmas on numbers for `Admission`'s, `SubReactor`'s, `SkipList`'s, `TreeHoleService`'s and `HttpParser`'s proofs | proofs |

Operators whose comment begins with *Mutant* are defective variants of the
definition that follows; no specification uses them. They show that each
property depends on the code it is about.

### EventLoop

`pc` follows `threadFunc` and `loop()`; `stage[p]` follows thread `p` through
`queueInLoop` or `~EventLoopThread`. `queueInLoop` is two actions, `Queue` (the
critical section) and `QueueWakeup` (the decision and the write); called by the
loop's own thread it is `QueueOwn` and, if tasks are being run, `OwnWakeup`.
`doPendingFunctions` is four: the flag, the swap, each task, the flag.
`quit` is `Quit` (the flag) and `QuitWakeup`. The eventfd has a counter and a
place on epoll's ready list: a write puts it there, `epoll_wait` takes it off,
reading resets the counter. The plain `bool`s are read and written one at a time in
the order of the code; on the machines the build targets a load or store of a
`bool` is not torn. `loop()` tests `is_quit_` again in each iteration after calls
the compiler cannot see through, so the load is not hoisted.

`quit` is called by `~EventLoopThread` alone, which runs on the main thread (the one
Linux gives a signal of the process to unless it is blocked there), also
the only one outside the loop that queues: so once it is entered nothing
more is queued. What the handler interrupts is not modelled. The constant `EarlyQuit` says whether it may come between
`startLoop` and `loop()`; `EventLoop.cfg` excludes it so that the other
properties are checked past the defect of finding 1.

### SubReactor

The worker runs its handlers one after another; each is one action on one
connection (`HandleEvents(c)` is the whole of `Channel::handleEvents`: the handler
and `handleConn`). Between them the clients send, close, reset and read, the main
thread accepts, and timers fall due. `poll` is `Poll`: it takes the ready list,
sets `revents_`, clears `events_`, disables one-shot registrations. The iteration
goes on with `DoPending` (each `newEvent`; a registration may fail) and
`HandleExpired`.

The kernel's part is `reg` (the interest of a descriptor, empty when a one-shot
fired), `rdy` (the ready list), `Arm` (ADD and MOD look at the socket) and
`Edge` (what arrives later). An `HttpData` is alive while a table, a timer node
or a queued task holds it (`Holds`); when the last one lets go, its descriptor
is free for the next `Accept`.

Data are chunks: a whole `"request"` or a `"piece"`. What a parse yields is
chosen among the outcomes that `parseURI`, `parseHeaders` and `analysisRequest` have
(`Outcomes`, `CanParse`). `parseURI` never asks for more data: it compares an unsigned
position with zero, so `"again"` always leaves the parser in the headers. Time is
one event per node: it becomes due. `tables` start empty; the wake-up channel
and the listening socket are not in them.

### AsyncLogging

Buffers have identities, so that two pointers to one buffer could be seen.
`append` is one action (it holds the mutex throughout). The writer is cut at its
condition wait, its cut, each buffer it writes, and each recycled buffer. The
wait ends by a notify (which moves the writer on in the notifier's action), by its
timeout or for no reason. `stop` does not take the mutex, so its notify can find the
writer before its wait. A line is its number in the order of `append`.

### SkipList

Writers exclude each other, so the list has one `writer`: the holder of `mtx_`.
The search is part of the action that begins the insertion (nobody else writes);
each level that is linked, and the count, are actions of their own since readers
see them. A reader loads one pointer or one counter per action, in the order of
`getItems` and `searchNode`; as readers write nothing, one stands for all. Two
nodes may have the same key (the second in which they were posted), and keys can
be inserted out of order, as `time(0)` is read before the lock is taken.

The unlocked loads are data races. While nothing is deleted no node is
freed, `shared_ptr` copies count on control blocks that stay alive, and a load gives
the old or the new pointer; that is what the model lets it give. With `deleteNode`
running under a reader it would not be so, but nothing calls `deleteNode`: it is
modelled between reads. Numbers asked for are from 0 to `MaxItems`.

### LRUCache

`prev` and `next` are the two used columns of `cache_list_`; `map`, `keyAt` and `itemAt` are
`cache_items_map_`, `cache_keys_` and `cache_items_`. `put` has an action for each of its branches:
`StayInFront`, `MoveToFront`, `PutFirst`, `PutNew` and `PutEvict`; the next free slot is the number of
entries, as in the code. `order` is history: the keys by their last put. The module has no
next-state relation of its own, as somebody has to call it: `TreeHoleService` does, with
calls that do not overlap. It also shows what kind of cache this is: `get` does not count
as a use, and a put of a key that is there keeps its old value.

### TreeHoleService

The reactors run concurrently, each with one request: `Post` (the node is made, with the time for a
key, before the lock is taken) and `Insert`; `Ask`, `LookedUp`, `Build`, `Finish` for GET and HEAD.
The list is the set of its nodes, and a listing the set of nodes in it, because both are
in the order of the keys. Two calls of the cache that overlap, one of them a `put`, are
undefined behaviour; the model finds the overlap and ends there (`life = "race"`), so what it
says holds up to the first such overlap, and says nothing of what follows it.

`life` follows the process: `Start` (load), `Signal`, `Join`, `Truncate`, `WriteLine`, `Saved`, and `Crash` at any
point. `Signal` is the handler, which may interrupt the main thread in `AsyncLogging::append` or in `queueInLoop`, or
come before a loop has reset `is_quit_`; it then hangs (`life = "hung"`), and what the reactors do from there on
is not followed, since nothing of it reaches the file. Otherwise the loops are joined one after the other: reactors go on
taking requests (`Serving`) until `Join`, which finds all of them between two requests. The list is saved by its last
owner's destructor; if the signal interrupted `handNewConn` there is one on the stack and nothing is saved.

A message is a model value, and how its text breaks the line it is saved on is the constant `Broken`: for each
such message the keys that are found on the lines it becomes. The fourth field of a line is read as the key. With one separator
in the text that is the date, so 0; with more of them it is whatever the user typed, and may be the key of
another message; with an end of a line there are two lines or more. `Own` stands in `Broken` for the key the message was saved
with. `Load` reads all lines in the order of the file (`Places`, `Before`, `Piece`), refuses a key that is there, and
reads once more behind the last (`Ghost`, a message with key 0).

### HttpParser

The unit of data is a token: a run of bytes whose inner splits do not matter to the
parser, or one of the bytes it looks for. `Read(n)` is `handleRead` on the next `n` tokens and the
part of `handleConn` that decides whether the connection stays open; a piece may end at any
token. `ParsedHeaders` is the loop of `parseHeaders`, one `Round` per token, as a recursive function (`Loop`): the state of the
machine survives a piece, the positions do not. `ParserAssumption` has what the client guarantees: it reads the
message from one line, and the name is an argument of its command, taken to be one line too, so that a text has no end of a line. The path
of a GET is empty, `msg`, or two numbers; with its own pair of `^` it is one token, and none of the bytes and words the
parser looks for, as `analysisRequest` looks for marks only behind the headers of a POST. `Words` is what a stream is made of. The client is `client/TreeHoleClient.cpp`: it asks for the
start page, then for one thing at a time, reads what has come after a second without
blocking, and gives up where the code does. The path of a request line is the token with the next "/" behind the method and
the version the one after it, as in `parseURI`, wherever in a line made of two requests these are. `OthersCache` is the effect of other connections on the
shared cache, which decides whether the request's headers are looked at.

### Admission

The main reactor's `handNewConn` is a loop: `AcceptNew`, `AcceptRefused` (a descriptor beyond `MAXFDS`),
`AcceptBlocking` (the early return when `fcntl` fails: the listening socket then has no
events) and `AcceptEnds`. `limit` is the number of descriptors the system allows. `getLeastLoop` compares counters
that lag behind: a connection counts when its `newEvent` has run. A timer node's deadline is
the clock, taken modulo `Wrap`, plus a timeout that is not; `HandleExpired` closes what the clock has
passed. `SubReactor` has the same nodes with a time that is only "due or not", so it is
about timers that are armed away from the wrap; the wrap is here. `Renew` is an event on a connection whose timer is armed
again; the path of `handleConn` that arms none (`HttpData.cpp:517`, finding 2) is in `SubReactor` only.

## 3. What the runs check

| Run | Instance | Shows |
|---|---|---|
| `EventLoop` | 2 threads, 3 tasks | `NoLostWakeup`, `RunInOrder` (refinement of `TaskQueue`), `QueuedRuns`, `QuitJoins` |
| `EventLoopEarlyQuit` | 1 thread, quit at any time | `QuitJoins` is violated (finding 1) |
| `SubReactor` | 2 connections, 2 descriptors, 1 chunk each, symmetric | `OneDeadline`, `TablesFollowLife`, `BatchAlive`, `NothingUnheard` |
| `SubReactorLong` | 1 connection, 3 chunks | the same over several requests, `EventuallyClosed` |
| `SubReactorStuck` | 1 connection | `ClientCloseHonoured` is violated (finding 2) |
| `SubReactorTruncated` | 1 connection, 1 chunk | `ResponsesComplete` is violated (finding 3) |
| `AsyncLogging` | 9 buffers of 2 to 3 lines, cut above 2, 5 lines | `AssertsHold`, `NoSharing`, `LogFaithful`, `LinesReachFile` |
| `SkipList` | 4 messages, 3 keys, levels 0 to 2, at most 2 items | `WellLinked`, `ReaderStaysInList`, `NoGaps`, `LatestReturned`, `IsMessageSet` (refinement) |
| `SkipListMissed` | the same | `FindsStored` is violated (finding 4) |
| `TreeHoleService` | 2 symmetric reactors, 2 messages (one becomes two lines, the first with the key of the other), 4 names for 3 slots and one that is fatal, 2 seconds, 2 starts, 4 requests that look into the cache | `ListIsOrder`, `KeysDistinct`, `CacheWasTrue`, `AckedListed`, `SavedComesBack`, `SaveIsComplete`, `IsBoundedMap` (refinement) |
| `HttpParser` | 3 requests out of 8 (one has a text like a request line and a header), cut anywhere | `StoredAsSent`, `NoneWaiting`, `WholeServed` |
| `Admission` | 3 clients, 2 reactors, tables of 2, limit 1 or 3, a clock of 5 units over 6 | `FdsAccounted`, `ClosedInTime`, `AllAccepted` |

Each module has one type invariant, checked by its main run.

**Bounds.** Three tasks allow one being run, one swapped out and one pushed
meanwhile, with two threads between the halves of `queueInLoop`. Two connections
make a batch of two and a descriptor that is closed and accepted again while the
other lives; the lower of the two descriptors is the one used again. Interaction
between connections is only through the batch, the tables and the descriptors, so
a third adds no new kind; a longer life of one connection (keep-alive, pieces, a
close in the middle) is left to `SubReactorLong`. The log needs the current, spare and
two writer's buffers and one more per line that fills one: five lines in buffers of two or three
lines fill the queue beyond `MaxQueued` = 2, so the cut happens (25 in the code; the
assumption `MaxQueued >= 2` is all the recycling needs). Four messages let two be
stored, one be linked and one be refused; two levels above the first make nodes of
unequal height.

Two reactors and two messages give the races of `Insert` with a listing, the message refused for
its second, and a broken and a sound text in one file, the broken one before the sound one, whose key it
takes, or behind it. Three slots are the fewest with an entry that is neither the first nor the last, which is what the middle of
`MoveToFront` unhooks: with one name asked for by both reactors at once, the slower `put` finds it there, and behind
the head if others came between. Four names for three slots make `put` evict, so that all its branches happen; the
four requests of `MaxAsked` are enough for either (three entries and the same name twice, or four names). Two starts make one
save and one load. A client with three requests has the first one (the only one
answered on a connection not yet kept alive), one cut into pieces, and one after it whose
parse could be disturbed. Of the client's three headers the model has two, since the one
in the middle is treated like the last. Three clients, tables of two and limits of one
or three let accept fail, refuse, and leave a backlog; six units of a clock of five
cross the wrap with a deadline on either side.

**Bounds of the models.** `Tasks` (each queued once), `MaxChunks`, `MaxLines`, `Nodes`
(each created once), `MaxItems` as the largest number asked for, `Messages` (each posted once),
`MaxTime`, `MaxStarts`, `MaxAsked`, `MaxRequests`, `Clients` (each connects once).

**Deadlock.** `EventLoop` ends after the join, `AsyncLogging` when all lines are
logged and the log is stopped, `TreeHoleService` after its last start, `HttpParser` when the client has
gone, `Admission` when the time is used up: so `CHECK_DEADLOCK FALSE` there. It is checked in
the others.

**Fairness.** Threads are scheduled: weak fairness of the loop's own steps, of each
other thread in the middle of a call, of the worker, and of the log's writer. In
`EventLoop` neither the poll timeout nor a socket event is fair, so `QueuedRuns` says that the
wake-up itself suffices; in `SubReactor` `epoll_wait` returns (it has a timeout) and
timers fall due. Nothing is assumed of clients, of threads that start a call, or of
the producers of the log. `LinesReachFile` relies on the timed wait ending.
In `Admission` the main thread goes on while epoll or accept has
something for it. `TreeHoleService`, `SkipList` and `HttpParser` assume nothing: their properties are safety.

## 4. Findings

1. `EventLoop.cpp:149` — `loop()` resets `is_quit_` after the loop was published; a
   `quit()` before that is forgotten and the destructor's join does not return.
2. `HttpData.cpp:518` — a client that closes its side while the rest of a response
   waits leaves a connection that is neither registered nor timed.
3. `HttpData.cpp:465` — the part of a response that did not fit is cleared.
4. `SkipList.cpp:220` — `getItems(key)` loads a pointer twice without the lock and can
   answer "no records!" although there are some.

The following were met while modelling and are part of the models; no run of its own shows them.

5. `LRUCache.h:103` — `get` takes no lock and `put` only part of the time: one missed GET and any other
   overlap (`life = "race"`).
6. `LRUCache.h:109` — the cache does not evict the least recently used entry but the one put longest ago.
7. `Timer.cpp:12` — a timer armed shortly before the clock starts again is missed (`Missed`).
8. `HttpData.cpp:317` — a cached answer is sent without a look at the request's headers: a first request is
   answered "Keep-Alive" and the connection closed.
9. `HttpData.cpp:89` — unsigned positions are tested for being negative: a request line in two pieces is an error.
10. `HttpData.cpp:56` — what was read behind the end of a request is dropped.
11. `SkipList.cpp:23` — loading makes a message of the empty rest of the file, and takes the key of a text with the
    separator, or an end of a line, from the date or from the text itself; a sound message with that key is lost.
12. `Main.cpp:63` — stopped at the wrong moment, the handler hangs (on the log's mutex, on a loop's, or on a quit that was
    lost) or does not save.
13. `HttpData.cpp:255` — `README.md` has the formats of POST and GET exchanged.
14. `HttpData.cpp:264` — a text ends at the first `^` the user types.

The properties of the passing runs that would fail because of finding 2 (`OneDeadline`,
`NothingUnheard`, `EventuallyClosed`) exempt exactly the connections in that state, by the
predicate `Stuck`; it asks for a half-closed connection that lost part of a
response and has no timer, so that nothing else passes for it. `ClosedInTime` exempts `Missed` (finding
7) and is about connections that have a timer, so not those of finding 2; `WholeServed` exempts the cached answer to a first
request (finding 8), `SavedComesBack` broken texts and the sound messages whose key one of them has
taken (finding 11), and `AckedListed` counts a second for stored when another message has it.

## 5. What is proved

### EventLoop

`EventLoopProofs`, for any sets `Threads` and `Tasks`; the only assumption is that
`EarlyQuit` is a Boolean, so the theorems hold with early stops as well:

* `TypeCorrect`: `Spec => []TypeOK`.
* `WakeupNotLost`: `Spec => []NoLostWakeup`. The invariant speaks of the loop in `poll` and is
  not inductive: a loop in `test` with work pending moves on to `poll`. The strengthening
  `IInv` adds four parts. `PendingCovered` extends the claim about work to every point from which
  `poll` is reached without passing the swap; `QuitCovered` is the claim about the flag in `poll`
  (`TestQuit` goes there only when it is not set, so a flag seen there was set later, by a thread
  that still has to write); `CallingExact` says when `is_callingPendingFunctions_` holds, on which
  the loop's own `queueInLoop` decides whether to write; `SwapClean` says that the local vector is
  empty when it is swapped. The lemmas say that a due wake-up stays due while nobody touches the
  eventfd (`WakeStaysDue`), that a write makes one due (`WriteWakes`), and that a thread between the
  halves of a call does (`StageWakes`). Preservation is proved for the other threads
  (`ThreadsKeepIInv`) and for the loop's (`LoopKeepsIInv`), one step per action.
* `LoopIsTaskQueue`: `Spec => RunInOrder`, the refinement with `todo` the swapped-out
  tasks followed by the pending ones. Pushing appends to it, running a task takes its head
  (`PushAppends`, `PopIsTail`), and the swap leaves it alone because the local vector is
  empty when it is swapped (`SwapClean`).

### LRUCache

In `TreeHoleServiceProofs`, for any set of keys and any capacity from two (`CacheAssumption`; with one slot `put` reads slot
-1, and `main` takes the size as it is given). The invariant `CacheInv` is `ListIsOrder` with the
types, the bound on the number of entries, and one fact about the empty cache: the first
put does not touch the links of slot 0, so they have to be -1 already. `ListIsOrder` relates
the vectors to `order` place by place, so that each branch of `put` is a statement about `Promote`:
`PromoteProperties` says what becomes of each place, `SlotsOnce` that no slot is at two, and `MoveKeeps`, `FirstKeeps`,
`NewKeeps`, `EvictKeeps` go through the branches. `PutKeeps` is their sum, `PutIsBounded` that a put is a
step of `BoundedMap`.

### TreeHoleService

`TreeHoleServiceProofs`, for any reactors, messages, names, sizes and bounds, and for texts that break their lines in any
way (`Broken`): all safety properties of its run, and the refinement (`ServiceTypes`, `CacheOrdered`,
`KeysStayDistinct`, `CacheStaysTrue`, `AckedStayListed`, `SaveThenLoad`, `SavesAreComplete`, `CacheRefines`). The inductive invariant
`ServiceInv` adds to them `CacheInv` and four parts. `DownIsEmpty`: a process that is down has no entries, jobs or
acknowledgements, from which the next start begins. `Joined`: from the moment the list is being saved no reactor has a job; an insertion
could put a node behind the line just written. `FileFollows`: a file being written is the part of the list up to its
last line, so that it is the whole list when nothing is `Ahead` of it; and the last complete save stays in the file until the next begins, which
is what `SavedComesBack` needs across crashes. `ShownFollows`: what is listed now has been shown, and so has the answer a reactor
carries into `put`: between `Build` and `Finish` the list may change, so that `CacheWasTrue` is not inductive without it.

`LoadKeeps` says what loading makes of a file, for any file with distinct keys: distinct keys again, each of them that of the first line
that has it. `FirstOfKey` finds that line, the least place in the order of the file, among any number of lines; `PiecesAreNodes` says
that lines are taken for nodes. `ServiceAssumption` says that the names are requests, the bounds positive, that a message is
saved as at least one line, whose key is a number within the bound or its own, and that `Own` and `Blank` are none of the values
they stand beside.

### Admission

`AdmissionProofs`, for any finite number of clients, any number of reactors, sizes of the tables, limits,
timeouts, delay and period of the clock, provided a timeout and a delay fit in one period:
`AdmissionTypes`, `FdsStayAccounted` and `TimersCloseInTime`. `FdsAccounted` needs `DeafRests`: the leak leaves the main thread in
`epoll_wait` with nothing ready, so that there is no second one. For `ClosedInTime` the strengthening
`TimersRight` measures idleness against the time since the reactor looked at its timers
(`quiet`), not against the fixed delay: only so a step of the clock preserves it. The core is
`DueInTime`: by `ModStep` the wrapped clock advances at most as much as the time, so nothing is
closed early wherever the wrap falls; and exactly as much as long as the deadline and one delay
are before the wrap, so that whatever is not due then is not overdue. `Lines` says that
nobody is in two places of a queue.

### AsyncLogging

`AsyncLoggingProofs`, for any lengths of buffers and lines, any number of lines, and a cut above two or more:
`LogTypes`, `AssertsAlwaysHold`, `BuffersUnshared`, `LogAlwaysFaithful`. `new` is assumed to succeed: there are four buffers more than lines, and
`FewInUse` shows that one is then always free (`NewIsFresh`). `Unshared` is `NoSharing` spelled out place by
place; `Supplied` is the bookkeeping that makes the asserts true: the writer enters an
iteration with two empty spares; if the producers have used theirs up then a full buffer is
queued, so the swap that takes both of the writer's brings two for them, and the
cut leaves two. `MaxQueued >= 2` is exactly what the last step needs. `StartWaits` says
that nobody stops the log before the writer runs.

`LogFaithful` speaks of lines, and is stated line by line and not of a flattened queue, so that it can be reasoned
about. `Faithful` is its form for a file and a list of buffers: the lines of each increase, those of the file come before
those of a buffer and those of a buffer before those of a later one, and together they are the lines accepted and not
cut. `Ordered` says so of `Unwritten` at every step, and that empty buffers, the producers' spare one among them, hold
no line that could come back. Each action does one of four things to the list, and each has a lemma: an empty buffer joins
its end (`EmptyJoins`), a line joins the last buffer (`LineJoins`), the first buffer goes to the file
(`FirstWritten`), buffers in the middle are cut, and their lines are counted as dropped (`MiddleCut`).

### SubReactor

`SubReactorProofs`, for any connections, descriptors and number of chunks, and with or without partial writes:
`SubReactorTypes`, `TablesAlwaysFollow`, `AlwaysOneDeadline`, `BatchAlwaysAlive`. `NoneAssumption` says
that the absence of an object or of a registration is not one of them. None of the properties is
inductive: that accept gives out a free descriptor, for example, is an argument about everything
that holds an `HttpData`. The invariant `SubReactorInv` follows an object from holder to holder.
`Queued`: while its `newEvent` waits, a connection is new, in no table, and alone with its descriptor.
`Entries`: what `fd2http_` holds is under its own descriptor and not disconnected. `Nodes`: a timer that holds an
object is the linked one, the only one, and of a connection in the table; `Deadlines`: each connection of the table
has one, or has lost its client and a part of a response. `HeldIs` derives from these who is alive and that no
two of them share a descriptor, on which `Accept` and the destruction of objects rest. `Counted`
carries finiteness with the count, so no bound on the descriptors is assumed; `HandleExpired` subtracts
nodes where the table loses entries, and a bijection between the two makes them equal. `InBatch` says that what
is left of a batch is still registered. `Handler` is what all handlers have in common, and
`HandleConnInv` goes through the ends of `handleConn`: `UpdateInv`, `StuckInv`, `CloseInv`.

The last theorem is `NothingStaysUnheard`. `NothingUnheard` speaks of the wait alone; `ReadinessInv` says at every step, of each
registered connection, that it is `Heard` (registered for its last events, with the ready list complete), or,
if a handler is due for it, `InFlight`: what was reported is among its last events, and a registration
without `EPOLLONESHOT` is still there. The delicate case is `updatePoller` leaving out the `epoll_ctl` because the events did
not change: `HandleConnHeard` shows that then the registration was not one-shot, that it was for reading, and that
the handler had read everything the socket had, so that only a later edge can matter.

### SkipList

`SkipListProofs`, for any finite set of nodes (the messages that are ever posted), any keys, and any numbers of levels
and items (`SkipListAssumption`): `SkipListTypes`, `LevelsStayLinked`, `ReadersStayInList`, `NoMessageSkipped`,
`LatestAreReturned`, and `ListIsMessageSet`, the refinement of `MessageSet`. All rest on `SkipListInvariant`; none of
the properties is inductive. `SkipListInv` has a part about the list and one about the reader.

* `ListInv`. `Chained`: on each level the pointers lead from the header through the level's nodes in the order of their keys, no two of
  them equal, and to the null pointer, and each level is part of the one below. `Heights`: once the insertion in progress is done, a
  node is on all levels up to its own, and the list's level is the highest that has a node. `Counted`: the counter
  is exact, but for the node being inserted. `Inserting`: that node is on the levels already linked and on no other, no other node has its
  key, and on each level to come `update` still is the last node before it. The last is where the mutex
  counts: the search is done once, before the first link.
* `ReadInv`. `SeenStays`: what was stored when the read began still is (`Delete` waits for the reader, see section 2). `Descending`: on its way
  down the reader is on a node of the level it is on, before the key, or on the header. `Passing`: there are as many nodes beyond the reader as
  it will pass over and collect, and those up to it make up for the rest of what it has seen. `Collecting` and
  `Collected`: nothing it has seen lies between two messages it returns, or between the last of them and the
  next.

What is on a level is a recursive function along the pointers (`Reached`), and so is the search (`Walk`). That such a
function has a value needs no induction: `RestExists` and `FromExists` give one, through the sets that are closed under the
pointers. `ReachedIs` shows of a chained level that it is the chain's set of nodes, by the latest node for
which it would fail, which exists as there are finitely many (`LatestExists`). `WalkEnds` and `UpdateIs` do the same for the search. `Inserted` and `Removed` then say what a changed
pointer makes of a level.

`LatestReturned` is an argument of counting: `UpTo` and `Beyond` split the list at a node. `GrowthKeeps` shows that insertions, on
either side of the reader, leave both inequalities of `Passing` true; so a seen message newer than all that are
returned is made up for by a new one. For the refinement, `Link` of level 0 is `MessageSet`'s `Insert`; `Refuse` and `Delete` are its
actions of these names, as `FoundIs` shows that the search finds a key if and only if it is there; everything else stutters.

### HttpParser

`HttpParserProofs`, for any requests of any client that `ParserAssumption` allows, cut into any pieces: `StoredIsSent`, on the
invariant of `ParserInvariant`. `StoredAsSent` alone says nothing of what is still to be read. `ParserInv` does, of `Unread`, the
buffer with the stream behind it: `Framed` says that after the end of any line the next two marks enclose what
may be stored. That is about *any* `LF`, since the positions `parseHeaders` loses decide where it takes the headers to end. `Paired`
says that a mark after the end of a line is not the last one, so that a request added at the end of the
stream completes no pair that was open (`EncodeJoins`). Cutting the front off a stream keeps both (`CutKeeps`, `EndKeeps`), which
is all that `Await` and `reset` do to it.

Little is needed of the header loop here. `LoopEnds`: if it ends in `"endlf"`, then the body begins at or right behind an `LF`; the line it would cut at
is a place of the buffer, and the state one it can go on from. `LoopExists` gives the recursive function its value from a set of
partial ones, `LoopIs` reads it round by round, and an invariant of the rounds (`RoundKeeps`) holds of the last one by `NumberInduction`, which
follows from `LeastExists` as the property is given by a set. `EnclosedIs` puts the two together: the first two marks of the body are the next two
after that `LF`.

`NoneWaiting` and `TypeOK` need more, the invariant `ServerInv` of `ServerInvariant`. It adds to `ParserInv`:

* `Coming`: while a client that never went on without an answer waits, there is more to arrive; and what is unread ends with its last
  request, or is the end of that request from a place in `Cuts`, with the header parser in a state in `Begun` of that place.
  `NoneWaiting` is its first conjunct, and is not inductive: a parser in a wrong state for what is to come could swallow it all and
  wait. `Begun` is larger than what one would expect: the states survive a piece and the line is begun again, so that `value` can be the
  state in front of a header's name.
* `Marked`: after the end of a line, or after the `CR` behind it, the buffer begins with these.
* `Counted`: the answers that wait and the ends of headers that are unread (`Pairs`) together are at most the requests, and one more when the
  connection is closed. An answer takes an end of headers from the stream, or closes; that is why `TypeOK` may bound the answers.
* `Closed` and `Typed`: nothing is left to read of a closed connection, and the types.

`After` has, for every place among the 19 tokens up to the end of the headers, the states in which the parser can be behind it, and `StepAt` shows that a
round leads from one to the next. `LoopInPlace` carries this through a call, `CutIsBegun` says that where the buffer is cut the parser is in a state of
`Begun`, and that it never waits behind the last of the tokens. `AwaitComes` and `LineOfLast` (what `parseURI` finds when the request is the last in the
buffer) give `Coming` back, and `ServerSteps` has one lemma for each action.

`WholeIsServed` needs only `ParserInv` and the types: `LineIsRead` finds the method first in the line; `HeadersAreRead` follows the loop through
the tokens behind the line, with the `Connection` header kept; `FrameEncloses` has the text between its marks; `WholeIsParsed` and
`WholeIsAnswered` put these together for `handleRead`.

### Model-checked only

The liveness properties (no prover here treats fairness): `QueuedRuns`, `QuitJoins`, `EventuallyClosed`, `LinesReachFile`,
`AllAccepted`. Every other property of a passing run is stated by a theorem.
And the properties that are violated (section 4), of course.

## 6. State of the plan

Every component that has a state of its own is modelled, and the compositions the
plan named exist: `SubReactor` with `Admission` for a connection from accept to close, `TreeHoleService` for the cache, the list and the file,
`HttpParser` for the client and the parser. What could follow:

* the list of `TreeHoleService` replaced by `SkipList` itself, so that listings race insertions
  pointer by pointer there too (`SkipListMissed` shows what then happens).

## 7. Not modelled

* Formatting of log lines (`LogStream`) and of HTTP headers, MIME types, socket options: pure
  conversions and set-up without a property.
* The stdio buffer of `AppendFile` and `LogFile`'s flush interval: the log's file is its sequence of lines.
  So what a crash of the process loses of the log is not said.
* The reading of the arguments in `main`, and a second signal while the first is handled.
* The handler and the mutexes it finds taken by the thread it interrupted, step by step: `Signal` of `TreeHoleService` has
  only the outcome, a process that hangs.
* `~EventLoopThread`'s `wakeup` on a loop that is gone already reads an object that is no more (`EventLoop.cpp:180`); in `EventLoop` it does
  nothing.
* What two overlapping calls of the cache do to its vectors (undefined behaviour; the overlap is
  found).
* The limit of 255 bytes for a header's value in the parser, and values the client never sends.
* The client's menu and its input, the stress test and WebBench (load generators, the latter
  third-party).
* Functions nothing calls: `getNextLoop`, `TimerNode::update` and its copy constructor; `SkipList::deleteNode` is modelled
  between reads although nothing calls it.
* Memory orderings weaker than the order of the code.
