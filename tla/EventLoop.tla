----------------------------- MODULE EventLoop -----------------------------
(***************************************************************************)
(* One EventLoop (src/net/EventLoop.cpp): the thread that owns it and runs *)
(* Loop(), and any number of other threads that hand it work with          *)
(* QueueInLoop / RunInLoop or stop it with Quit.                           *)
(*                                                                         *)
(* A step is what one thread does between two points at which another      *)
(* thread can see or change the shared state: the vector _pendingFunctors, *)
(* the atomic _quit, and the eventfd behind _wakeupChannel.                *)
(*                                                                         *)
(* QueueInLoop does NOT hold _mtx while it appends: line 88 of the source  *)
(* declares a new, empty lock object that is named _mtx.  An append is     *)
(* therefore two steps here (read the vector, write it back), and an       *)
(* append that another access overlaps is a data race, whose outcome the   *)
(* model leaves open (EmplaceBack, Corrupt).                               *)
(***************************************************************************)
EXTENDS Naturals, Sequences, FiniteSets

CONSTANTS
  LoopThread,   \* the thread that constructed the EventLoop (_threadId)
  Callers,      \* every other thread that holds a pointer to it
  MaxCalls      \* bound: how often one thread calls QueueInLoop

ASSUME ThreadAssumption == LoopThread \notin Callers
ASSUME MaxCallsAssumption == MaxCalls \in Nat

Threads == Callers \cup {LoopThread}

\* <<t, n>> is the functor that thread t passes to its n-th QueueInLoop.
Functor == Threads \X (1..MaxCalls)

Phases == {"idle", "check", "poll", "handle", "run", "functor", "stopped",
           "crashed"}

VARIABLES
  phase,     \* where the loop thread is in Loop()
  op,        \* the call each thread is inside: "none", "push" or "wake"
  called,    \* how many functors each thread has passed to QueueInLoop
  early,     \* how many of these the loop thread passed before Loop()
  pending,   \* _pendingFunctors
  functors,  \* the local vector of DoPendingFunctors, less what it has run
  calling,   \* _callingPendingFunctors
  quit,      \* _quit
  readable,  \* the counter of _wakeupFd is not zero
  edge,      \* _wakeupFd is on the ready list of the edge-triggered epoll
  active,    \* what is left of _activeChannels: "wakeup" and/or "io"
  raced,     \* threads whose append another access to the vector overlapped
  ran        \* history: the functors DoPendingFunctors has run

vars == <<phase, op, called, early, pending, functors, calling, quit,
          readable, edge, active, raced, ran>>

queueVars == <<called, early, pending, raced>>
wakeVars  == <<readable, edge>>

-----------------------------------------------------------------------------
(* The constructor: the wakeup channel is registered, nothing is queued.   *)
Init ==
  /\ phase = "idle"
  /\ op = [t \in Threads |-> "none"]
  /\ called = [t \in Threads |-> 0]
  /\ early = 0
  /\ pending = <<>> /\ functors = <<>> /\ ran = <<>>
  /\ calling = FALSE /\ quit = FALSE
  /\ readable = FALSE /\ edge = FALSE
  /\ active = {} /\ raced = {}

(***************************************************************************)
(* Calls on the EventLoop, from any thread.  The loop thread makes them    *)
(* from the code around Loop(), from a channel callback or a functor.      *)
(***************************************************************************)
MayCall(t) ==
  /\ op[t] = "none"
  /\ t = LoopThread => \/ phase \in {"idle", "functor", "stopped"}
                       \/ phase = "handle" /\ "io" \in active

\* QueueInLoop, lines 86-89: the append begins by reading the vector.
\* RunInLoop is this call when the caller is not the loop thread, and a
\* plain call of the functor when it is.
QueueInLoop(t) ==
  /\ MayCall(t)
  /\ called[t] < MaxCalls
  /\ called' = [called EXCEPT ![t] = @ + 1]
  /\ early' = IF t = LoopThread /\ phase = "idle" THEN early + 1 ELSE early
  /\ op' = [op EXCEPT ![t] = "push"]
  /\ UNCHANGED <<phase, pending, functors, calling, quit, wakeVars, active,
                 raced, ran>>

\* Threads other than t that have read the vector and not yet written it.
Appending(t) == {u \in Threads \ {t} : op[u] = "push"}

\* Mutant of MustWake: the loop thread never wakes itself.
OnlyOthersWake(t) == t # LoopThread

\* Whether QueueInLoop called by t goes on to WakeUp (line 91).
MustWake(t) == t # LoopThread \/ calling

\* The end of the append.  One that was overlapped may have taken effect,
\* may be lost, or may have overwritten the slot of the other append.
EmplaceBack(t) ==
  LET f == <<t, called[t]>> IN
  /\ op[t] = "push"
  /\ \/ pending' = Append(pending, f)
     \/ t \in raced /\ pending' = pending
     \/ t \in raced /\ pending # <<>>
        /\ pending' = [pending EXCEPT ![Len(pending)] = f]
  /\ raced' = (raced \ {t}) \cup Appending(t)
  /\ op' = [op EXCEPT ![t] = IF MustWake(t) THEN "wake" ELSE "none"]
  /\ UNCHANGED <<phase, called, early, functors, calling, quit, wakeVars,
                 active, ran>>

\* The other outcome of an overlapped append: a freed or null buffer is
\* written, and the loop never gets past its next use of the vector.
Corrupt(t) ==
  /\ op[t] = "push"
  /\ t \in raced
  /\ phase' = "crashed"
  /\ UNCHANGED <<op, queueVars, functors, calling, quit, wakeVars, active, ran>>

\* WakeUp: write(_wakeupFd); every write is a new edge for epoll.
WakeUp(t) ==
  /\ op[t] = "wake"
  /\ readable' = TRUE
  /\ edge' = TRUE
  /\ op' = [op EXCEPT ![t] = "none"]
  /\ UNCHANGED <<phase, queueVars, functors, calling, quit, active, ran>>

\* Mutant of Quit: the loop is not woken.
QuitSilently(t) ==
  /\ MayCall(t)
  /\ quit' = TRUE
  /\ UNCHANGED <<phase, op, queueVars, functors, calling, wakeVars, active, ran>>

Quit(t) ==
  /\ MayCall(t)
  /\ quit' = TRUE
  /\ op' = [op EXCEPT ![t] = IF t # LoopThread THEN "wake" ELSE "none"]
  /\ UNCHANGED <<phase, queueVars, functors, calling, wakeVars, active, ran>>

-----------------------------------------------------------------------------
(***************************************************************************)
(* The loop thread, inside Loop().                                         *)
(***************************************************************************)
\* Lines 51-52: Loop() takes back whatever Quit said before it.
StartLoop ==
  /\ phase = "idle" /\ op[LoopThread] = "none"
  /\ phase' = "check"
  /\ quit' = FALSE
  /\ UNCHANGED <<op, queueVars, functors, calling, wakeVars, active, ran>>

CheckQuit ==
  /\ phase = "check"
  /\ phase' = IF quit THEN "stopped" ELSE "poll"
  /\ UNCHANGED <<op, queueVars, functors, calling, quit, wakeVars, active, ran>>

\* The wakeup channel is ready; epoll_wait drops an entry of its ready list
\* whose descriptor has become unreadable.
WakeupReady == edge /\ readable

\* Mutant of EpollWait: FillActiveChannels reads all of _events, not only the
\* entries that epoll_wait has filled in.
FillStaleChannels ==
  /\ phase = "poll"
  /\ active' = {"io", "stale"}
  /\ phase' = "handle"
  /\ UNCHANGED <<op, queueVars, functors, calling, quit, wakeVars, ran>>

\* epoll_wait reports what is ready.  When more channels are ready than
\* _events has room for, the wakeup channel may have to wait for the next
\* call: it then stays on the ready list.
EpollWait ==
  /\ phase = "poll"
  /\ \E events \in {{"io"}, {"wakeup"}, {"io", "wakeup"}} :
       /\ "wakeup" \in events => WakeupReady
       /\ active' = events
       /\ edge' = (WakeupReady /\ "wakeup" \notin events)
  /\ phase' = "handle"
  /\ UNCHANGED <<op, queueVars, functors, calling, quit, readable, ran>>

\* Mutant of PollTimeout: an iteration without an event is skipped.
SkipIteration ==
  /\ phase = "poll"
  /\ ~WakeupReady
  /\ phase' = "check"
  /\ UNCHANGED <<op, queueVars, functors, calling, quit, wakeVars, active, ran>>

\* epoll_wait returns with no event: PollTimeMs have passed, or EINTR.
PollTimeout ==
  /\ phase = "poll"
  /\ ~WakeupReady
  /\ phase' = "handle"
  /\ UNCHANGED <<op, queueVars, functors, calling, quit, wakeVars, active, ran>>

\* EventLoop::HandleRead, the read callback of the wakeup channel.
HandleRead ==
  /\ phase = "handle" /\ op[LoopThread] = "none"
  /\ "wakeup" \in active
  /\ readable' = FALSE
  /\ active' = active \ {"wakeup"}
  /\ UNCHANGED <<phase, op, queueVars, functors, calling, quit, edge, ran>>

\* The callbacks of the other active channels have returned.
HandleEvents ==
  /\ phase = "handle" /\ op[LoopThread] = "none"
  /\ "io" \in active
  /\ active' = active \ {"io"}
  /\ UNCHANGED <<phase, op, queueVars, functors, calling, quit, wakeVars, ran>>

\* Mutant of DoPendingFunctors: the vector is copied, not swapped.
CopyPendingFunctors ==
  /\ phase = "handle" /\ op[LoopThread] = "none"
  /\ active = {}
  /\ calling' = TRUE
  /\ functors' = pending
  /\ raced' = raced \cup Appending(LoopThread)
  /\ phase' = "run"
  /\ UNCHANGED <<op, called, early, pending, quit, wakeVars, active, ran>>

\* DoPendingFunctors, lines 125-130: the swap, under _mtx, which the
\* threads that are appending do not hold.
DoPendingFunctors ==
  /\ phase = "handle" /\ op[LoopThread] = "none"
  /\ active = {}
  /\ calling' = TRUE
  /\ functors' = pending
  /\ pending' = <<>>
  /\ raced' = raced \cup Appending(LoopThread)
  /\ phase' = "run"
  /\ UNCHANGED <<op, called, early, quit, wakeVars, active, ran>>

\* Mutant of RunFunctor: the vector is run from its back.
RunLastFunctor ==
  /\ phase = "run"
  /\ functors # <<>>
  /\ ran' = Append(ran, functors[Len(functors)])
  /\ functors' = SubSeq(functors, 1, Len(functors) - 1)
  /\ phase' = "functor"
  /\ UNCHANGED <<op, queueVars, calling, quit, wakeVars, active>>

RunFunctor ==
  /\ phase = "run"
  /\ functors # <<>>
  /\ ran' = Append(ran, Head(functors))
  /\ functors' = Tail(functors)
  /\ phase' = "functor"
  /\ UNCHANGED <<op, queueVars, calling, quit, wakeVars, active>>

FunctorReturns ==
  /\ phase = "functor" /\ op[LoopThread] = "none"
  /\ phase' = "run"
  /\ UNCHANGED <<op, queueVars, functors, calling, quit, wakeVars, active, ran>>

EndPendingFunctors ==
  /\ phase = "run"
  /\ functors = <<>>
  /\ calling' = FALSE
  /\ phase' = "check"
  /\ UNCHANGED <<op, queueVars, functors, quit, wakeVars, active, ran>>

-----------------------------------------------------------------------------
\* What a thread does to finish a call it is inside.
FinishCall(t) == EmplaceBack(t) \/ WakeUp(t)

\* What the loop thread does by itself once Loop() has been entered; only
\* the timeout of epoll_wait is left out.
LoopStep ==
  \/ CheckQuit \/ EpollWait \/ HandleRead \/ HandleEvents
  \/ DoPendingFunctors \/ RunFunctor \/ FunctorReturns \/ EndPendingFunctors

Next ==
  \/ \E t \in Threads : QueueInLoop(t) \/ Quit(t) \/ FinishCall(t) \/ Corrupt(t)
  \/ StartLoop
  \/ PollTimeout
  \/ LoopStep

Spec == Init /\ [][Next]_vars

(***************************************************************************)
(* Fairness: a thread that is inside QueueInLoop or Quit goes on to finish *)
(* it, and the loop thread keeps taking the steps of Loop(), which assumes *)
(* that callbacks and functors return.  Nothing makes a thread call, makes *)
(* the owner enter Loop(), makes an I/O event happen, or lets              *)
(* epoll_wait time out: what is shown to happen is brought about by the    *)
(* eventfd alone.                                                          *)
(***************************************************************************)
Fairness ==
  /\ \A t \in Threads : WF_vars(FinishCall(t))
  /\ WF_vars(LoopStep /\ (phase = "poll" => WakeupReady))

FairSpec == Spec /\ Fairness

-----------------------------------------------------------------------------
(***************************************************************************)
(* Properties                                                              *)
(***************************************************************************)
\* Every variable of the loop keeps the shape its declaration in
\* EventLoop.hpp gives it.
TypeOK ==
  /\ phase \in Phases
  /\ op \in [Threads -> {"none", "push", "wake"}]
  /\ called \in [Threads -> 0..MaxCalls]
  /\ early \in 0..MaxCalls
  /\ pending \in Seq(Functor)
  /\ functors \in Seq(Functor)
  /\ ran \in Seq(Functor)
  /\ calling \in BOOLEAN /\ quit \in BOOLEAN
  /\ readable \in BOOLEAN /\ edge \in BOOLEAN
  /\ active \subseteq {"io", "wakeup"}
  /\ raced \subseteq Threads

\* A functor that the loop thread did not queue before it entered Loop().
Late(f) == f[1] # LoopThread \/ f[2] > early

LateWork == \E i \in 1..Len(pending) : Late(pending[i])

\* epoll_wait is about to return because of the eventfd, or some thread is
\* on its way to write it.
WakeInFlight == WakeupReady \/ \E t \in Threads : op[t] = "wake"

\* The loop is never left blocked in epoll_wait with work in
\* _pendingFunctors, or with _quit set, unless a wakeup is on its way: no
\* interleaving of QueueInLoop, Quit, the edge-triggered eventfd and
\* DoPendingFunctors loses a wakeup.  Work that the owner queues before
\* Loop() is left out: the code does not wake for it, and the first
\* epoll_wait may block with it for the whole timeout.
NoLostWakeup == phase = "poll" /\ (quit \/ LateWork) => WakeInFlight

\* Functors that one thread queues are run at most once and in the order of
\* its QueueInLoop calls, whatever the other threads, nested calls and the
\* races on the vector do.
RunInCallOrder ==
  \A i, j \in 1..Len(ran) :
    i < j /\ ran[i][1] = ran[j][1] => ran[i][2] < ran[j][2]

\* The loop has ended: by Quit, or with the process.
Over == phase \in {"stopped", "crashed"}

Queued(f) == \E i \in 1..Len(pending) : pending[i] = f

\* A functor that reaches _pendingFunctors of a loop that is running does
\* not stay there: the wakeups alone get it run (or, if an append races, it
\* is overwritten), unless Quit ends the loop first.
QueuedWorkIsTaken ==
  \A f \in Functor :
    (Queued(f) /\ Late(f) /\ phase # "idle") ~> (~Queued(f) \/ Over)

\* The work that the owner queues before Loop() depends on the timeout of
\* epoll_wait: if every wait that goes on is ended by it, the work is taken.
EarlyWorkIsTaken ==
  WF_vars(PollTimeout) =>
    \A f \in Functor :
      (Queued(f) /\ ~Late(f) /\ phase # "idle") ~> (~Queued(f) \/ Over)

\* Quit stops a loop that has been entered, from any thread and at any point
\* of an iteration, without waiting for the timeout of epoll_wait.
QuitStopsLoop ==
  (quit /\ phase # "idle") ~> Over

\* "The mutex that protects the thread safety of the vector above"
\* (EventLoop.hpp:83): no append is overlapped by another access.
MutexProtectsQueue == raced = {}

-----------------------------------------------------------------------------
(***************************************************************************)
(* The inductive invariant behind NoLostWakeup and RunInCallOrder          *)
(* (EventLoopProofs shows that it is one).                                 *)
(***************************************************************************)
\* The loop thread is inside a call on its own loop only where its code can
\* be: outside Loop(), or in a callback or a functor.
CallInv ==
  /\ op[LoopThread] # "none" =>
       phase \in {"idle", "handle", "functor", "stopped", "crashed"}
  /\ \A t \in Threads : op[t] = "push" => called[t] > 0
  /\ phase = "idle" => early = called[LoopThread]

\* What holds of the loop's own variables between its phases.
PhaseInv ==
  /\ phase \in {"run", "functor"} => calling
  /\ phase \notin {"handle", "crashed"} => active = {}
  /\ phase \notin {"run", "functor", "crashed"} => functors = <<>>

\* A readable eventfd that is not being handled is on the ready list: an
\* edge is consumed only together with the counter, or before a new write.
EdgeInv == readable /\ "wakeup" \notin active => edge

\* From the swap to the next epoll_wait, late work implies a wakeup.
WakeInv ==
  /\ phase \notin {"handle", "stopped", "crashed"} /\ LateWork => WakeInFlight
  /\ phase = "poll" /\ quit => WakeInFlight

InCallOrder(s) ==
  \A i, j \in 1..Len(s) : i < j /\ s[i][1] = s[j][1] => s[i][2] < s[j][2]

Precedes(s, u) ==
  \A i \in 1..Len(s), j \in 1..Len(u) : s[i][1] = u[j][1] => s[i][2] < u[j][2]

\* Every functor of s was passed to QueueInLoop, and its append has ended.
Appended(s) ==
  \A i \in 1..Len(s) :
    /\ s[i][2] <= called[s[i][1]]
    /\ op[s[i][1]] = "push" => s[i][2] < called[s[i][1]]

\* What has run, what is being run and what waits are in call order.
OrderInv ==
  /\ InCallOrder(ran) /\ InCallOrder(functors) /\ InCallOrder(pending)
  /\ Precedes(ran, functors) /\ Precedes(ran, pending)
  /\ Precedes(functors, pending)
  /\ Appended(ran) /\ Appended(functors) /\ Appended(pending)

WakeIInv == TypeOK /\ CallInv /\ PhaseInv /\ EdgeInv /\ WakeInv

IInv == WakeIInv /\ OrderInv

-----------------------------------------------------------------------------
\* The promise of the loop to its callers, see Executor.
Promise == INSTANCE Executor
             WITH Task <- Functor, waiting <- functors \o pending, ran <- ran

\* QueueInLoop and DoPendingFunctors together are an Executor.
IsExecutor == Promise!Spec
=============================================================================
