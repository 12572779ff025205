# CmfNetLib in TLA+

CmfNetLib is a C++ network library in the style of a *reactor*: every thread
that does network work owns one `EventLoop`, which waits in an edge-triggered
`epoll` for its channels, runs their callbacks, and then runs the functors that
other threads have queued for it. This directory holds TLA+ models of the
library, the TLC configurations that check them on small instances, and
theorems that TLAPS proves for every instance.

Run `tlc -config <cfg> <module>` for a check (the module is the one
`PROJECT.json` names for the run) and `tlapm <module>Proofs.tla` for a proof.
Line numbers below and in `PROJECT.json` refer to `src/`.

## The system

| Part | State | Operations | Talks to |
|---|---|---|---|
| `EventLoop` (src/net/EventLoop.cpp) | `_pendingFunctors`, `_callingPendingFunctors`, `_quit`, the eventfd and its channel | `Loop`, `Quit`, `QueueInLoop`, `RunInLoop`, `WakeUp`, `HandleRead`, `DoPendingFunctors` | any thread queues; the poller reports channels |
| `EPollPoller`, `Poller`, `Channel` | map fd → channel, index New/Added/Deleted, interest `_events`, `_revents`, the tie | `EnableReading/Writing`, `DisableWriting/All`, `UpdateChannel`, `RemoveChannel`, `Poll`, `HandleEvent` | kernel epoll set; called by the loop thread only |
| `TcpConnection` | `_state`, output and input `Buffer`, its channel and socket | `Send`, `Shutdown`, `ConnectEstablished`, `ConnectDestroyed`, `HandleRead/Write/Close/Error` | user threads call `Send`/`Shutdown`; `TcpServer` creates and removes it |
| `Buffer` | a byte vector, read and write index | `Append`, `Retrieve*`, `ReadFd`, `WriteFd`, `MakeSpace` | owned by a connection |
| `TcpServer` | `_connections`, `_nextConnId`, `_started` | `Start`, `NewConnection`, `RemoveConnection`, `RemoveConnectionInLoop`, destructor | acceptor (base loop), io loops |
| `Acceptor` | listening socket and channel | `Listen`, `HandleRead` | base loop, `TcpServer::NewConnection` |
| `EventLoopThread` | `_loop`, `_exiting`, `_mtx`, `_cond` | `StartLoop`, `ThreadFunc`, destructor | creates an `EventLoop` in a new thread |
| `EventLoopThreadPool` | `_loops`, `_next` | `Start`, `GetNextLoop` | `TcpServer` |
| `Thread` | `_thread`, `_started`, `_joined` | `Start`, `Join`, destructor | `EventLoopThread` |
| `Logger` | `_logAppender` | `StdoutLog`, `FileLog`, `LOG_*` | everything |
| `Socket`, `SocketOps`, `InetAddress`, `Timestamp`, `StringArg` | none of their own | wrappers of system calls, conversions | kernel |

Every component but the eventfd write in `EventLoop::WakeUp`, the vector behind
`QueueInLoop`, `_quit` and `TcpConnection::_state` is confined to one loop's
thread, so almost all concurrency goes through `QueueInLoop`. What is hard:

* **EventLoop.** Any thread may queue at any point of an iteration, and the
  eventfd is edge-triggered. Correct means: nothing queued is left behind a
  blocked `epoll_wait`, each thread's functors run in its order and once, and
  `Quit` ends the loop.
* **TcpConnection.** Direct writes, buffered writes, EPOLLOUT, a shutdown that
  waits for the buffer, a peer that closes or resets in between, events that
  `revents` still holds after a callback has closed the connection, and user
  threads in `Send` and `Shutdown`. Correct means: the bytes leave in order
  without loss, the FIN comes last, and the connection ends exactly once.
* **Buffer.** Two indexes into a vector that is moved or grown. Correct means:
  the readable bytes are the stream.
* **EventLoopThread.** A pointer to an object on another thread's stack. Correct
  means: it is used only while the object exists, and neither side waits for
  ever.
* **TcpServer.** Raw `Channel` pointers in epoll, and raw `this` pointers in the
  functors of `Send`, against shared_ptrs in maps and functors of several loops,
  with the server destroyed meanwhile. Correct means: nothing dangles, a
  connection is destroyed exactly once, and no client is forgotten.
* **EPollPoller and Channel.** Four views of one registration (index, map, epoll
  set, interest), descriptors that are closed and given out again, and an array
  of events that doubles when full. Correct means: the views agree, no
  `epoll_ctl` fails, no event is lost, and none reaches a removed channel.
* **Logger.** A `shared_ptr` assigned by every thread. Correct would mean: no
  thread logs through an appender that is gone.

## The modules

```
Executor <--- implemented by --- EventLoop  <--- INSTANCE --- EventLoopThread
   ^                                |                             |
   | assumed of their loops    EventLoopProofs           EventLoopThreadProofs
   |
TcpConnection --- TcpConnectionProofs      Buffer ------- BufferProofs
TcpServer ------- TcpServerProofs          EPollPoller -- EPollPollerProofs
                                           Logger ------- LoggerProofs

ByteStream      <--- implemented by --- TcpConnection
ByteQueue       <--- implemented by --- Buffer
ConnectionLife  <--- implemented by --- TcpConnection and TcpServer
```

`MC*.tla` extend a module with what only TLC needs (symmetry, the tuple of
loops). No definition is replaced in a `.cfg`.

### EventLoop, Executor

A step is what a thread does between two points at which another thread can see
the vector `_pendingFunctors`, the atomic `_quit` or the eventfd. `phase` is the
place of the loop thread in `Loop()`; `op[t]` is the call thread t is inside;
`readable` and `edge` are the counter of the eventfd and its place on epoll's
ready list. A functor is the pair (thread, number of its call).

`EventLoop.cpp:88` reads `std::unique_lock<std::mutex>(_mtx);`, which declares a
new, empty lock called `_mtx` and locks nothing. An append is therefore two
steps, `QueueInLoop` and `EmplaceBack`; one that another access overlaps is a
data race, and the model leaves its outcome open: it takes effect, is lost,
overwrites the last slot, or corrupts the vector (`Corrupt`, after which the
loop does nothing more). Everything shown of EventLoop holds with this race in
it. `Executor.tla` is what remains as a promise: one FIFO queue from which tasks
run once, where accepting a task may displace the one before it.

### TcpConnection

One connection, its channel and epoll entry, its socket, its loop, user threads,
the base loop that removes it, and the peer. `phase`, `revents` and `batch` are
the loop's place in `epoll_wait`, `HandleEventWithGuard` and
`DoPendingFunctors`; functors never run between two events of one wait. Bytes
are numbered in the order `SendInLoop` accepts them; `wire` is what the kernel
took, `output` is `_outputBuffer`. The input buffer is a count of chunks, a chunk
being what one `readv` can take. The kernel is external: `Ready` is what epoll
can report of a TCP socket, `Recheck` the rule by which an edge-triggered entry
becomes ready again (any change of the socket or of the interest, writability
only after a write that found the buffer full), `Taken` a non-blocking write.

Assumed here: appends to the loop's queue are atomic (true once line 88 locks), a
thread that calls `Send` or `Shutdown` keeps its reference until the functor has
run (the functors hold a raw `this`; TcpServer drops this assumption), and
`errno` survives the log line between the failed write and the test of it
(`TcpConnection.cpp:67`).

`ByteStream.tla` is what remains as a promise to the sender: the bytes that wait
and the bytes delivered are one stream, of which a prefix moves across, the
stream may be finished only when nothing waits, and only the end of the
connection excuses from this. `Stream` in TcpConnection maps `output`, `wire` and
the shut side of the socket to it.

`ConnectionLife.tla` is the protocol between the server and its connections:
`ConnectEstablished` runs first and once, `HandleClose` at most once, of an
established connection that was not destroyed, `ConnectDestroyed` at most once,
of an established connection that the server has let go of for good. Its state is
the number of times each of the three has run (`ran`), so that a repetition is a
step of its own, which no mapping can turn into a stutter. The code keeps this
protocol for a connection only until it is *unsettled*: a Shutdown has overwritten
its Disconnected, or ConnectDestroyed has found it Disconnecting, or (in TcpServer)
a queued Send has met it after its last reference had gone. From there on the
counts of `HandleClose` and `ConnectDestroyed` are left open, because the code
really does close and destroy such a connection again: a Send that is still
queued calls `EnableWriting` (`TcpConnection.cpp:87`), which puts the channel back
into epoll, and the next event closes it. What is still promised then is that this
befalls only a connection that was closed or destroyed before, that it is never
established again, and that the server never takes it back.

TcpServer and TcpConnection are checked apart, each with a picture of the other,
and both implement this module: TcpServer shows it of its maps, queues and loops,
without the bytes, TcpConnection of all its handlers, with the server reduced to
`owned`, `removing` and `baseRuns` (the base loop has stopped before `~TcpServer`
begins, so removals that are queued for it then never run).

### Buffer

`buf` is the vector with its two indexes, the operators are the methods with the
C++ names, and `put`/`taken` say which bytes of the stream 1, 2, 3, ... went in
and out. `ReadFd` may take any number of bytes up to what its two `iovec`s hold.
`ByteQueue.tla` is what remains as a promise to the users of a Buffer: a sequence
of bytes to which bytes are added at the end and from which they are taken at the
front. `TcpConnection` has such a sequence in the place of `_outputBuffer`.

### EventLoopThread

The owner (`ownerAt`: `StartLoop` and the destructor) and the thread
(`threadAt`: `ThreadFunc`) around a whole `EventLoop`, instantiated with the
owner as its one other caller. The regions under `_mtx` are single steps;
`condition_variable::wait` may wake for no reason. The destructor reads `_loop`
without the lock, as the code does. `userQuit` records that user code running in
the loop (the init callback, a channel callback, a functor) has called `Quit`.

### TcpServer

The base loop with the Acceptor, the io loops, and the lifetimes of the
connections. `StartPool` is `SetThreadNum` and `Start`: the pool gets any number
of the threads in `IoLoops`, none included; with none the base loop takes the
connections. `HandleRead` of the acceptor accepts one client for an edge, and
with `AcceptMayFail` the call may return an error and leave the client where it
is.

The pointers that keep a connection alive (`Alive`) are `connections`, the
functors in `queue` and `batch` that have a shared_ptr, those that have run but
whose vector still exists (`done`), and user threads (`held`), to which a callback
has given the connection and which let go of it whenever they like: also between
`epoll_wait` and `HandleEvent`. The tie of the channel is `Alive` at the moment
`HandleEvent` begins; without it the event is ignored (`IgnoreEvent`). Raw pointers
are `enabled` (epoll), `registered` (the map of the poller), `active` (the
`Channel`s one `epoll_wait` returned) and the functors of Send and Shutdown.

Of the connection itself there is what these depend on: its `state`, so that Sends
are refused when it is Disconnected and only then, ConnectDestroyed does less when
it is Disconnecting, and a Shutdown, whose test and change of the state are two
steps on a user's thread, can overwrite Disconnected; and the channel, which a
queued Send whose write is cut short puts back into epoll and into the poller,
also after `Remove`. `unsettled` records the connections to which that can happen
(see ConnectionLife): `ActiveAreAlive`, `RegisteredAreAlive`, `DestroyedOnce` and
`IsConnectionLife` promise less for them, or nothing, and `late` those with a call
that was queued after the loop had taken their ConnectDestroyed, for which
`RawThisIsAlive` promises nothing. Whether a write is cut short, and whether an
event closes the connection, is left open. ConnectDestroyed tests and changes the
state in one step here and in TcpConnection: a Shutdown whose change comes between
the two in the code is overwritten by Disconnected, so that nothing remains of it
but its functor, which is about the socket. The functors of the write-complete and
high-water callbacks, which hold a shared_ptr too, are left out: they only keep a
connection longer.

The base loop may be quit at any time; the server is destroyed on its thread after
`Loop()` has returned, as in `main.cpp`: first the connections, then the pool's
threads, quit and joined one after the other, then the acceptor. User threads let
go of their connections before the io loops end, which a connection must not
outlive.

### EPollPoller

One poller, several channels and several descriptors. `Create` and `Destroy` are
the lifetime of a channel with its descriptor, which the kernel gives out again;
`UpdateChannel` and `RemoveChannel` are the methods of the poller that the five
methods of Channel and `Remove` call. `entry`, `interest` and `ready` are the
epoll set of the kernel; `condition` is what can be reported of a descriptor and
`fresh` the part of it that was not reported since it came about. Interest in
writing only is level-triggered, because `Channel.hpp` adds `EPOLLET` with
`EPOLLIN`. `Poll` reports as much as the array holds and doubles an array that
was filled. Callbacks and functors may call any method of any channel; channels
are removed in functors only, which is how TcpConnection and TcpServer use it,
and `ActiveAreRegistered` fails when they are not (the mutant `RemoveAtOnce`).

### Logger

Any threads, each making `LOG_*` calls one after the other. A `shared_ptr` is its
two words and a count; each step of `StdoutLog` reads or writes one word, or
changes a count, which alone is atomic. `overlap` records that two threads were
in `_logAppender` at the same time, which is a data race, and `dangling` that an
appender or its count was used after its end.

## The runs

| Run | Instance | Shows |
|---|---|---|
| `eventloop_wakeups` | 1 caller and the owner, 2 calls each | no lost wakeup, call order, refinement of Executor; queued work is taken and Quit stops the loop without any timeout; work queued by the owner before `Loop()` is taken if `epoll_wait` times out |
| `eventloop_mutex` | 1 caller, 1 call each | **violated**: line 88 protects nothing |
| `connection_stream` | 2 user threads with a call each, one of them also shutting down, 1 call by callbacks, messages of 2, a send buffer of 3, high-water mark 3, 2 chunks of input; 422,000 states | refinement of ByteStream (order, nothing lost, FIN last) and of ConnectionLife (counts of handlers); EPOLLOUT exactly while bytes wait, no event and no shutdown forgotten, down reported once, deaf when closed, out of epoll when destroyed, write-complete means written; output drains and a shutdown completes |
| `connection_write_after_shutdown` | 1 user thread, 1 call | **violated**: a queued Send writes behind the FIN |
| `connection_close` | the same | **violated**: an end of input that arrives with data is never read |
| `buffer_bytes` | 2 prepend bytes, 3 bytes, a stack buffer of 2, a stream of 8 | indexes in order, refinement of ByteQueue, growth only when full |
| `thread_lifetime` | 1 call by each side | pointers good, StartLoop and destructor return |
| `thread_join` | the same | **violated**: a Quit before Loop() is taken back, Join never returns |
| `server_lifetime` | 2 clients; 0, 1 or 2 io loops; a user thread with one Send or Shutdown; callbacks that shut down; accept may fail; 299,000 states | refinement of ConnectionLife (counts of handlers); no dangling Channel or `this`, destroyed once and never forgotten, freed, balanced; all this with the exceptions `unsettled` and `late` |
| `server_accept` | 2 clients, no user; accept does not fail, so the loss is not the one of `Acceptor.cpp:39` | **violated**: one accept per edge leaves a client in the backlog |
| `poller_views` | 2 channels, 2 descriptors, an array of 1 event, up to symmetry | the views agree, every `epoll_ctl` succeeds, no event lost, no event for a removed channel, the array stays small |
| `logger_race` | 2 threads, 2 calls each | **violated**: an appender is used after it was destroyed |

**Bounds.** `MaxCalls` 2 lets a thread race with itself across iterations: one
functor in the batch, one in the vector or being appended. A send buffer of one
and a half messages admits complete, partial and refused writes, and the
high-water mark lies between one and two messages, so that it is crossed and not
crossed. A vector of five bytes under a stream of eight is filled exactly, moved,
grown and spilled into in one behaviour. Two clients on none, one or two loops
share a loop, take one each, and can be closed and destroyed in every order; one
call of a user thread on one of them, with the Shutdowns of callbacks, is enough
for every way to become unsettled or late (a second call gives 1.6 million states
and was checked once, without the liveness property). An array of one
event under two descriptors is filled, left with something behind, and doubled.
The races found need two or three steps of two threads. All safety properties of
the passing runs are also proved, for any bounds, so the instances have to be
large enough for the liveness properties and the mutants only.

**Deadlock** is not checked in the runs of systems that really stop: a loop that
has quit, callers that have used up their calls, a server that is gone.
`buffer_bytes` checks it.

**Fairness.** A thread that is inside a library call goes on; a loop that is not
blocked takes its next step (callbacks return); a loop in `epoll_wait` returns if
something is ready. Nobody is obliged to call, connect, send, close or quit
anything, and `epoll_wait` never has to time out, so what is shown to happen is
brought about by the eventfd and the sockets alone. There are three additions:
`EarlyWorkIsTaken` states the timeout of `epoll_wait` as its own premise,
TcpConnection assumes a peer that reads, and in TcpServer a user thread lets go
of its connection in the end. The destructor of the server has no fairness. In
`EventLoopThread` spurious wakeups are possible but not assumed.

## What is proved

For every value of the constants, subject only to the named assumptions on them:
the bounds are naturals and the sizes are positive; the loop's thread is not
among the callers; the io loops are distinct and none is the base loop; the
descriptors are a finite set; the threads that shut down are among the users. The
Logger's theorems state their assumptions themselves (finitely many threads, the
null pointer is no appender).

| Module | Theorem | States |
|---|---|---|
| EventLoopProofs | `TypeCorrect` | `Spec => []TypeOK` |
| | `WakeupCorrect` | `Spec => []NoLostWakeup` |
| | `OrderCorrect` | `Spec => []RunInCallOrder` |
| | `Refinement` | `Spec => IsExecutor` |
| BufferProofs | `TypeCorrect` | `Spec => []TypeOK` |
| | `ContentCorrect` | `Spec => []ContentOK` |
| | `GrowthCorrect` | `Spec => GrowsOnlyWhenFull` |
| | `QueueRefinement` | `Spec => IsByteQueue` |
| EventLoopThreadProofs | `TypeCorrect` | `Spec => []TypeOK` |
| | `LoopIsLive` | `Spec => []OwnerUsesLiveLoop` |
| | `ObjectIsLive` | `Spec => []ObjectOutlivesThread` |
| | `LoopWakes`, `LoopOrders` | `Spec => []Loop!NoLostWakeup`, `Spec => []Loop!RunInCallOrder` |
| | `LoopExecutes` | `Spec => Loop!IsExecutor` |
| | `NotificationKept` | `Spec => []NotLeftWaiting` |
| TcpConnectionProofs | `TypeCorrect` | `Spec => []TypeOK` |
| | `StreamCorrect` | `Spec => []StreamInOrder` |
| | `WritingCorrect` | `Spec => []WritingIffPending` |
| | `ShutdownCorrect` | `Spec => []NoDataBehindFin` |
| | `DownReportedOnce` | `Spec => []DownOnce` |
| | `ClosedStaysDeaf` | `Spec => []ClosedIsDeaf` |
| | `DestroyedStaysFinal` | `Spec => []DestroyedIsFinal` |
| | `CompleteCorrect` | `Spec => CompleteMeansWritten` |
| | `NothingForgotten` | `Spec => []NothingIsForgotten` |
| | `StreamRefinement` | `Spec => IsByteStream` |
| | `LifeRefinement` | `Spec => IsConnectionLife` |
| TcpServerProofs | `TypeCorrect` | `Spec => []TypeOK` |
| | `RegisteredLive` | `Spec => []RegisteredAreAlive` |
| | `ActiveLive` | `Spec => []ActiveAreAlive` |
| | `DestroyedOnceOnly` | `Spec => []DestroyedOnce` |
| | `RawThisLive` | `Spec => []RawThisIsAlive` |
| | `DealtEvenly` | `Spec => []Balanced` |
| | `LifeRefinement` | `Spec => IsConnectionLife` |
| EPollPollerProofs | `TypeCorrect` | `Spec => []TypeOK` |
| | `ViewsCorrect` | `Spec => []ViewsAgree` |
| | `CtlCorrect` | `Spec => []CtlSucceeds` |
| | `EventsCorrect` | `Spec => []NoLostEvent` |
| | `ActiveCorrect` | `Spec => []ActiveAreRegistered` |
| | `ArrayCorrect` | `Spec => []ArrayIsBounded` |
| LoggerProofs | `SerialUseIsSafeAlways` | `Spec => []SerialUseIsSafe` |
| | `NothingLeaksAlways` | `Spec => []NothingLeaks` |

These are all the safety properties and refinements that the passing runs check.
Four kinds of results are beyond the runs: the two of the Logger, the loop inside
EventLoopThread, `NotLeftWaiting`, and the invariants `ContentOK`, `StreamInOrder` and
`NoDataBehindFin`, on which the refinements of Buffer and TcpConnection rest.

*No lost wakeup.* `NoLostWakeup` speaks only of a blocked loop, and is not
inductive. `WakeInv` extends it to every phase from the swap to the next
`epoll_wait`: whoever appended after the swap found the loop thread as a
stranger, or `_callingPendingFunctors` set, and is on its way to write the
eventfd or has written it. That a written eventfd will be seen needs `EdgeInv`
(a readable eventfd that is not among the active channels is on the ready list),
and the cases of the loop thread's own calls need `CallInv` and `PhaseInv`.

*Order.* `OrderInv` says that what has run, what is being run and what waits are
each in call order and follow one another in it, for every thread, and that an
append in progress is younger than everything of its thread. A lost or
overwritten append keeps it.

*Refinement.* The batch followed by the vector is the executor's queue. The swap
maps to a stutter, `RunFunctor` to `Run`, and an append to `Accept`, to
`Displace` or to a stutter; that the task is fresh follows from `OrderInv`.

*Buffer.* The inductive invariant is `Shape` (the indexes in order, within the
vector) and `Holds` (the bytes between them are the stream from `taken + 1`).
One lemma per method shows that it keeps both; `GrowsOnlyWhenFull` is the test in
`MakeSpace`. The refinement reads the content off `Holds`: it is the interval
`taken + 1 .. put` as a sequence, so what a step adds or takes is a matter of the
two counters (`BytesJoin`, `BytesRest`).

*EventLoopThread.* `InStep` ties the places of the two sides together: until user
code calls Quit, only the destructor sets `_quit`, so `Loop()` cannot return and
`_loop` cannot become null again before the owner is in `Join`. What EventLoopProofs
shows of a loop alone is carried over to the loop on the thread's stack
(`RunsTheLoop`: every step of the composition is a step of `Loop` or leaves it
alone), so its promises hold from its construction on, for the owner and for
callbacks. `NotLeftWaiting` is the safety kernel of `StartLoopReturns`: an owner that
waits while `_loop` is set has been notified.

*TcpConnection.* The stream needs no more than the types: what `wire` and
`output` hold together is always 1, 2, ..., `accepted`, and each write moves a
prefix across (`SendCases` sorts what `SendInLoop` can do into three outcomes).
The rest is about where the connection is in its life. `StateInv` has a part for
each thing the handlers rely on without testing it: where the loop is in an event
(`PlaceInv`), that `ConnectEstablished` comes before everything else (`FirstInv`)
and nothing is registered until then (`NewInv`), what has been reported in each
state (`DownInv`), when the channel listens (`ListenInv`), and what destruction
leaves behind (`FinalInv`). `WritingIffPending` and `NoDataBehindFin` are carried
along with it: a FIN is sent only while EPOLLOUT is off, and EPOLLOUT is off only
when nothing waits. Together they make `StreamRefinement` a matter of naming the
step of ByteStream: a Send is `Accept` with what the kernel took at once, a
`HandleWrite` is `Progress`, a shutdown is `Finish`, a close or a destruction `End`.

*Nothing is forgotten.* `NothingIsForgotten` is what the liveness properties rest on
and what edge triggering puts at risk. Output that waits is watched: if there is
room, the channel is on the ready list or its writable event is in `revents`; if
there is none, the kernel knows that it owes an edge. A shutdown that was put off
is carried: its functor is queued or about to be, or EPOLLOUT is on, so that
`HandleWrite` will come to it. `ForgetInv` adds that the channel of a living
connection is in epoll while it writes. The step that needs care is a write that
fills the buffer without emptying the output: it must leave `noSpace` behind.

*Life of a connection.* The refinement of ConnectionLife is about counts.
`CountInv` ties them to the state: a connection was established exactly when it
is not Connecting, it was closed or destroyed when it is Disconnected, and the
other way round unless it is unsettled. `CloseOnce` takes the next step: a
handler closes the connection on an event, and by `NewInv` and `ListenInv` no
event reaches one that is Connecting, nor a settled one that is Disconnected.
That ConnectDestroyed runs once needs `OnceInv`: a settled connection has one of
them in all, queued, or run, or still to be queued by the one removal that the
base loop has to do; and `LetGoInv`: none is queued while the server owns the
connection.

*TcpServer.* No property is inductive, because what keeps a connection alive
moves from the map into functors and from functors to nothing. The invariant is a
conjunction over connections, `ConnInv(c)`, with a part for each thing one needs to
know of a connection: what its counts say of its state (`StateOf`), in which loop
its functors can stand (`FunctorOf`), that only an enabled channel has events to
handle, and only one that was not closed is enabled unless it is unsettled
(`OpenOf`), what a pending functor says of its connection (`PendingOf`), where the
connection is in its life: in the map, or its ConnectDestroyed is pending, or it was
destroyed, or its io loop has ended (`LifeOf`), and what keeps it for a queued Send
or Shutdown (`SendOf`). The last one is what the `done` set is for: the
ConnectDestroyed that stood before a Send in the same batch still holds its
shared_ptr when the Send runs. `OrderInv` says that the functors of the server stand
in the queues once, for a settled connection, and that no `ConnectEstablished` is
behind the `ConnectDestroyed` of its connection; `PlaceInv` and `HeldInv` are about
the loops and the users. A step touches one connection and adds at most one functor:
`ConnKept` keeps `ConnInv` of all the others, `TouchInv` and `QuietInv` put the parts
together, and one lemma per action (`CloseInv`, `DestroyInv`, `RawInv`, ...) is
about the connection that it touches. `RawInv`, of a Send that registers the channel
again, is where the state matters: behind a close or a ConnectDestroyed it finds
Disconnected and is refused, unless the connection is unsettled. That no close is
forgotten is the part of `LifeOf` that follows a closed connection from the functor
on the base loop that takes it out of the map to the ConnectDestroyed on its own
loop; it is the safety kernel of `ClosedIsFreed`.

The refinement follows from the same invariant: `StepMoves` says which handler of
which connection each action runs, and that the server takes nothing back, and
`StepLife` that ConnectionLife allows it. `Balanced` has an invariant of its own,
`DealtInv`: the loops before `_next` have one connection more than the others.

*EPollPoller.* `OwnFds` (no two channels share a descriptor) and `ListInv` (only
entries are ready; only callbacks have channels to handle) make the views
inductive. `ArrayIsBounded` follows with the cardinality of the reported set.

*Logger.* As long as no two threads have met in `_logAppender`, the count of an
appender is the number of its holders, `_logAppender` included, so it cannot come
to zero under anybody's hands. With `logger_race`: the missing lock is the only
thing wrong here.

Only model-checked: liveness (`QueuedWorkIsTaken`, `EarlyWorkIsTaken`,
`QuitStopsLoop`, `OutputDrains`, `ShutdownCompletes`, `StartLoopReturns`,
`DestructorReturns`, `ClosedIsFreed`) and the violated runs. Of the liveness
properties the part that is safety is proved (`NoLostWakeup`, `NothingIsForgotten`,
`NotLeftWaiting`, `DestroyedOnce`): somebody always still has to take the next step;
that fairness then makes them take it is TLC's. Liveness under
fairness and ENABLED are out of the prover's reach; so are induction over data
and RECURSIVE operators, which no module needs.

## Findings

1. `EventLoop.cpp:88` locks nothing (`eventloop_mutex`).
2. A Quit before `Loop()` is taken back by line 52; the destructor of
   EventLoopThread can then wait for ever (`thread_join`).
3. `SendInLoop` refuses only Disconnected, not Disconnecting: a Send that was
   queued before, or begun before, a Shutdown writes on a socket that is shut
   (`connection_write_after_shutdown`).
4. The channels are edge-triggered and `HandleRead` reads once: the end of the
   input that arrives together with data is never noticed (`connection_close`).
5. For the same reason the acceptor leaves clients in the backlog
   (`server_accept`).

6. `Log.hpp:216` assigns the `_logAppender` of all threads without a lock
   (`logger_race`).

Divergences that need no run, and the conditions they put on the properties:

* `EventLoop.hpp:43` says that QueueInLoop wakes the loop; when the owner queues
  before `Loop()`, it does not. `NoLostWakeup` and `QueuedWorkIsTaken` leave out
  functors queued then (`early`); `EarlyWorkIsTaken` says what holds of them.
* `main.cpp:26` describes the connection callback as one for connections made
  and broken; `ConnectEstablished` never calls it. No property is about that:
  `DownOnce` counts the calls that there are, which are all of the second kind.
* `Shutdown` from another thread can overwrite Disconnected (`TcpConnection.cpp:93`).
  `revived` (in TcpServer `unsettled`) records it; `DownOnce`, `ClosedIsDeaf`,
  `DestroyedIsFinal`, `ActiveAreAlive`, `RegisteredAreAlive`, `DestroyedOnce` and
  `IsConnectionLife` promise nothing, or less, for such a connection.
* `ConnectDestroyed` of a connection that is Disconnecting neither disables its
  channel nor tells the user; a Send that is still queued can put the channel
  back into epoll and into the map of the poller, where it can outlive its
  connection, and the connection closes and is destroyed a second time.
  `DestroyedIsFinal` is about connections that were not destroyed while
  Disconnecting (`destroyed = "whole"`); the properties of TcpServer just named
  make the same exception (`unsettled`).
* A Send queued after the loop has taken the `ConnectDestroyed` of its connection
  meets a connection that may be gone. `late` records it; `RawThisIsAlive`
  promises nothing for it.
* `Acceptor.cpp:20` says that its destructor takes the listening channel out of
  the poller; of an acceptor that never listened, `DisableAll` first adds it.
* User code that quits the loop of an EventLoopThread can make `StartLoop` wait
  for ever and lets the loop end under the owner. `userQuit` records it.
* The `WakeUp` at the end of `Quit` can meet a loop that has already ended.

## Not modelled

* **InetAddress, Timestamp, StringArg, Callbacks, copyable, noncopyable**: values,
  conversions and type names. They have no state that a step changes, and what
  they compute is formatting or a call of the C library, which a model could only
  repeat. **The echo server** (`main.cpp`) only sets callbacks; that callbacks may
  send and shut down at any point is in TcpConnection.
* **Logger**: layout, formatting and files; the appender is a name.
* **Socket, SocketOps**: wrappers of system calls, modelled at their place of use;
  socket options have no state here.
* **EventLoopThreadPool::Start** is one step of TcpServer, `StartPool`; that each
  of its threads starts properly is shown of EventLoopThread alone. `GetAllLoops`
  changes nothing.
* Names of threads and connections, thread ids, the count of threads.
  `Channel::Tie` has no variable: whether its weak pointer locks is `Alive` in
  TcpServer. TcpConnection is about a connection that somebody holds.
* Callbacks that the user has not set, a server destroyed before `Start` or while
  its base loop still runs, `RetrieveAsString` of more than there is: uses that
  the code does not guard against and `main.cpp` does not make.
* Exhaustion of memory, failures of `epoll_create` and `eventfd` (`LOG_FATAL` only
  writes a line, `Log.hpp:236`, and the loop goes on with a descriptor of -1),
  errors of `epoll_wait` other than EINTR.

## What is left

1. The part of `DestructorReturns` that is safety, as one invariant of
   EventLoopThread; `LoopWakes` is its kernel.
2. `EventLoopThreadPool::Start` composed with EventLoopThread, instead of the one
   step of TcpServer.
3. Whether what is left open for unsettled connections has a bound (how often such
   a connection closes again is limited by the Sends that are still queued).
4. The race of `EventLoop.cpp:88` inside TcpConnection and TcpServer, which
   assume atomic appends.
