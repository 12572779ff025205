-------------------------- MODULE EventLoopThread --------------------------
(***************************************************************************)
(* EventLoopThread (src/net/EventLoopThread.cpp) and the Thread inside it: *)
(* an owner starts a thread, waits until the thread has published the      *)
(* EventLoop on its stack, uses that loop, and stops it in the destructor. *)
(*                                                                         *)
(* The loop is an instance of EventLoop: LoopThread is the new thread, and *)
(* the owner is the one other thread that calls it.  The two regions under *)
(* _mtx are single steps; the destructor reads _loop without the lock.     *)
(* _exiting is written and never read, so it has no variable.              *)
(***************************************************************************)
EXTENDS Naturals, Sequences, FiniteSets

CONSTANTS
  LoopThread,      \* the thread that runs ThreadFunc
  Owner,           \* the thread that owns the EventLoopThread
  MaxCalls         \* bound: QueueInLoop calls by each of the two

ASSUME ThreadAssumption == Owner # LoopThread
ASSUME MaxCallsAssumption == MaxCalls \in Nat

VARIABLES
  \* the EventLoop on the stack of ThreadFunc
  phase, op, called, early, pending, functors, calling, quit, readable, edge,
  active, raced, ran,
  ownerAt,   \* where the owner is
  threadAt,  \* where ThreadFunc is
  loopSet,   \* _loop is not null
  notified,  \* _cond has woken the owner
  userQuit   \* history: user code running in the loop has called Quit

loopVars == <<phase, op, called, early, pending, functors, calling, quit,
              readable, edge, active, raced, ran>>
threadVars == <<ownerAt, threadAt, loopSet, notified, userQuit>>
vars == <<loopVars, threadVars>>

Loop == INSTANCE EventLoop WITH Callers <- {Owner}

OwnerPlaces == {"new", "test", "wait", "started", "quit", "join", "members", "gone"}
ThreadPlaces == {"none", "begun", "init", "loop", "unlock", "destroy", "ended"}

Init ==
  /\ Loop!Init
  /\ ownerAt = "new" /\ threadAt = "none"
  /\ loopSet = FALSE /\ notified = FALSE /\ userQuit = FALSE

-----------------------------------------------------------------------------
(* The owner in StartLoop.                                                 *)

\* Thread::Start returns when the semaphore says that the thread runs.
StartThread ==
  /\ ownerAt = "new"
  /\ ownerAt' = "test" /\ threadAt' = "begun"
  /\ UNCHANGED <<loopVars, loopSet, notified, userQuit>>

\* Under the lock: take the loop, or wait for it, which gives the lock back.
TestLoop ==
  /\ ownerAt = "test"
  /\ ownerAt' = IF loopSet THEN "started" ELSE "wait"
  /\ UNCHANGED <<loopVars, threadAt, loopSet, notified, userQuit>>

Wakes ==
  /\ ownerAt = "wait" /\ notified
  /\ ownerAt' = "test" /\ notified' = FALSE
  /\ UNCHANGED <<loopVars, threadAt, loopSet, userQuit>>

\* Mutant of WakesSpuriously: "if" stands where "while" does.
TakeOnWake ==
  /\ ownerAt = "wait"
  /\ ownerAt' = "started"
  /\ UNCHANGED <<loopVars, threadAt, loopSet, notified, userQuit>>

\* condition_variable::wait may return for no reason.
WakesSpuriously ==
  /\ ownerAt = "wait"
  /\ ownerAt' = "test"
  /\ UNCHANGED <<loopVars, threadAt, loopSet, notified, userQuit>>

-----------------------------------------------------------------------------
(* The thread in ThreadFunc.                                               *)

ConstructLoop ==
  /\ threadAt = "begun"
  /\ threadAt' = "init"
  /\ UNCHANGED <<loopVars, ownerAt, loopSet, notified, userQuit>>

\* Mutant of PublishLoop: notify_one is missing.
PublishSilently ==
  /\ threadAt = "init" /\ op[LoopThread] = "none"
  /\ threadAt' = "loop"
  /\ loopSet' = TRUE
  /\ UNCHANGED <<loopVars, ownerAt, notified, userQuit>>

\* The init callback has returned.
PublishLoop ==
  /\ threadAt = "init" /\ op[LoopThread] = "none"
  /\ threadAt' = "loop"
  /\ loopSet' = TRUE
  /\ notified' = (ownerAt = "wait")
  /\ UNCHANGED <<loopVars, ownerAt, userQuit>>

\* Loop() and the user code that runs in it; the init callback runs before.
RunLoop ==
  /\ threadAt = "loop"
  /\ Loop!StartLoop \/ Loop!PollTimeout \/ Loop!LoopStep
  /\ UNCHANGED threadVars

InUserCode ==
  \/ threadAt = "init"
  \/ threadAt = "loop" /\ phase \in {"handle", "functor"}

CallbackQueues ==
  InUserCode /\ Loop!QueueInLoop(LoopThread) /\ UNCHANGED threadVars

CallbackQuits ==
  /\ InUserCode /\ Loop!Quit(LoopThread)
  /\ userQuit' = TRUE
  /\ UNCHANGED <<ownerAt, threadAt, loopSet, notified>>

\* Mutant of ClearLoop: _loop keeps its value.
KeepLoop ==
  /\ threadAt = "loop" /\ phase = "stopped"
  /\ threadAt' = "unlock"
  /\ UNCHANGED <<loopVars, ownerAt, loopSet, notified, userQuit>>

\* Loop() has returned.
ClearLoop ==
  /\ threadAt = "loop" /\ phase = "stopped"
  /\ threadAt' = "unlock"
  /\ loopSet' = FALSE
  /\ UNCHANGED <<loopVars, ownerAt, notified, userQuit>>

\* The destructor of lk unlocks _mtx, then that of loop runs.
Unlock ==
  /\ threadAt = "unlock"
  /\ threadAt' = "destroy"
  /\ UNCHANGED <<loopVars, ownerAt, loopSet, notified, userQuit>>

DestroyLoop ==
  /\ threadAt = "destroy"
  /\ threadAt' = "ended"
  /\ UNCHANGED <<loopVars, ownerAt, loopSet, notified, userQuit>>

-----------------------------------------------------------------------------
(* The owner with the loop, and in the destructor.                         *)

OwnerQueues ==
  ownerAt = "started" /\ Loop!QueueInLoop(Owner) /\ UNCHANGED threadVars

\* A call of the owner goes on, and may meet the race of EventLoop.cpp:88.
CallGoesOn(t) ==
  (Loop!FinishCall(t) \/ Loop!Corrupt(t)) /\ UNCHANGED threadVars

\* ~EventLoopThread reads _loop.
BeginDestructor ==
  /\ ownerAt \in {"new", "started"} /\ op[Owner] = "none"
  /\ ownerAt' = IF loopSet THEN "quit" ELSE "members"
  /\ UNCHANGED <<loopVars, threadAt, loopSet, notified, userQuit>>

\* Mutant of QuitLoop: Quit does not wake the loop.
QuitWithoutWaking ==
  /\ ownerAt = "quit"
  /\ Loop!QuitSilently(Owner)
  /\ ownerAt' = "join"
  /\ UNCHANGED <<threadAt, loopSet, notified, userQuit>>

QuitLoop ==
  /\ ownerAt = "quit"
  /\ Loop!Quit(Owner)
  /\ ownerAt' = "join"
  /\ UNCHANGED <<threadAt, loopSet, notified, userQuit>>

\* Mutant of Join: the thread is detached instead.
JoinNothing ==
  /\ ownerAt = "join" /\ op[Owner] = "none"
  /\ ownerAt' = "members"
  /\ UNCHANGED <<loopVars, threadAt, loopSet, notified, userQuit>>

Join ==
  /\ ownerAt = "join" /\ op[Owner] = "none"
  /\ threadAt = "ended"
  /\ ownerAt' = "members"
  /\ UNCHANGED <<loopVars, threadAt, loopSet, notified, userQuit>>

\* _cond and _mtx go; a thread that was not joined is detached.
DestroyMembers ==
  /\ ownerAt = "members"
  /\ ownerAt' = "gone"
  /\ UNCHANGED <<loopVars, threadAt, loopSet, notified, userQuit>>

-----------------------------------------------------------------------------
\* What ThreadFunc does by itself.
ThreadStep == ConstructLoop \/ PublishLoop \/ ClearLoop \/ Unlock \/ DestroyLoop

\* What the owner does by itself once it has called.
OwnerStep == TestLoop \/ Wakes \/ QuitLoop \/ Join \/ DestroyMembers

Next ==
  \/ ThreadStep \/ RunLoop \/ OwnerStep
  \/ StartThread \/ WakesSpuriously \/ BeginDestructor
  \/ OwnerQueues \/ CallbackQueues \/ CallbackQuits
  \/ \E t \in {LoopThread, Owner} : CallGoesOn(t)

Spec == Init /\ [][Next]_vars

(***************************************************************************)
(* Fairness: both threads are scheduled, callbacks return, and calls that  *)
(* have begun go on.  epoll_wait need never time out, and nobody has to    *)
(* start or destroy anything.                                              *)
(***************************************************************************)
Fairness ==
  /\ WF_vars(ThreadStep) /\ WF_vars(OwnerStep)
  /\ WF_vars(/\ threadAt = "loop"
             /\ Loop!StartLoop \/ (Loop!LoopStep /\ (phase = "poll" => Loop!WakeupReady))
             /\ UNCHANGED threadVars)
  /\ \A t \in {LoopThread, Owner} : WF_vars(Loop!FinishCall(t) /\ UNCHANGED threadVars)

FairSpec == Spec /\ Fairness

-----------------------------------------------------------------------------
(***************************************************************************)
(* Properties                                                              *)
(***************************************************************************)
\* The loop keeps its types, and _loop is set exactly from the publication
\* to the return of Loop().
TypeOK ==
  /\ Loop!TypeOK
  /\ ownerAt \in OwnerPlaces /\ threadAt \in ThreadPlaces
  /\ notified \in BOOLEAN /\ userQuit \in BOOLEAN
  /\ loopSet = (threadAt = "loop")

\* Whenever the owner holds the pointer that StartLoop returned, queues on the
\* loop or begins to Quit it, the loop on the stack of the thread exists:
\* StartLoop returns no null pointer and no loop that is still to be made.
\* User code that quits the loop itself breaks this.  The WakeUp at the end
\* of Quit is not covered: the loop may see _quit and be gone before it.
OwnerUsesLiveLoop ==
  ownerAt \in {"started", "quit"} \/ op[Owner] = "push"
    => userQuit \/ threadAt \notin {"none", "begun", "ended"}

\* The thread uses _mtx, _cond and _loop only while the object exists, unless
\* user code quits the loop itself.
ObjectOutlivesThread ==
  ownerAt = "gone" => userQuit \/ threadAt \in {"none", "destroy", "ended"}

\* StartLoop returns: the notification is not lost, whichever side is first.
\* User code that quits the loop can end it before the owner has seen it.
StartLoopReturns == ownerAt = "test" ~> (ownerAt = "started" \/ userQuit)

Crashed == phase = "crashed"

\* The destructor returns when its Quit has met a loop that was running.
DestructorReturns ==
  (ownerAt = "join" /\ quit /\ phase # "idle") ~> (ownerAt = "gone" \/ Crashed)

\* "_joined: the current thread waits for the other thread to finish and then
\* goes on" (Thread.hpp:46): the Join of the destructor comes to an end.
JoinReturns == ownerAt = "join" ~> (ownerAt # "join" \/ Crashed)
=============================================================================
