----------------------- MODULE EventLoopThreadProofs -----------------------
(***************************************************************************)
(* EventLoopThread is safe for every number of calls: as long as user code *)
(* does not itself quit the loop, the owner only uses a loop that exists   *)
(* and the thread only uses an EventLoopThread that exists.                *)
(*                                                                         *)
(* The argument: only the Quit of the destructor sets _quit, so Loop()     *)
(* cannot return, and _loop cannot become null again, before the owner is  *)
(* in the destructor; there it finds _loop set, and joins.                 *)
(***************************************************************************)
EXTENDS EventLoopThread, TLAPS

\* What is proved of any EventLoop, for this one.
LoopProofs == INSTANCE EventLoopProofs WITH Callers <- {Owner}

\* The owner has called Quit in the destructor.
HasQuit == ownerAt \in {"join", "members", "gone"}

Places ==
  /\ ownerAt \in OwnerPlaces /\ threadAt \in ThreadPlaces
  /\ op \in [{Owner, LoopThread} -> {"none", "push", "wake"}]
  /\ loopSet \in BOOLEAN /\ userQuit \in BOOLEAN
  /\ loopSet <=> threadAt = "loop"
  /\ ownerAt = "new" => threadAt = "none"

\* How the places of owner and thread go together if only the destructor
\* quits the loop.
InStep ==
  /\ op[Owner] = "push" => ownerAt = "started"
  /\ quit => HasQuit
  /\ phase = "stopped" => HasQuit
  /\ threadAt \in {"unlock", "destroy", "ended"} => HasQuit
  /\ ownerAt \in {"started", "quit", "join"} =>
       threadAt \notin {"none", "begun", "init"}
  /\ ownerAt \in {"members", "gone"} => threadAt \in {"none", "ended"}

IInv == Places /\ (~userQuit => InStep)

LEMMA InvInit == Init => IInv
  BY DEF Init, Loop!Init, Loop!Threads, IInv, Places, InStep, HasQuit,
         OwnerPlaces, ThreadPlaces

\* No step of the loop sets _quit, and Loop() returns only when it is set.
LEMMA LoopKeeps ==
  ASSUME IInv, Loop!StartLoop \/ Loop!PollTimeout \/ Loop!LoopStep
  PROVE  /\ op' = op
         /\ quit' => quit
         /\ phase' = "stopped" => phase = "stopped" \/ quit
<1>1. CASE Loop!StartLoop
  BY <1>1 DEF Loop!StartLoop
<1>2. CASE Loop!PollTimeout
  BY <1>2 DEF Loop!PollTimeout
<1>3. CASE Loop!CheckQuit
  BY <1>3 DEF Loop!CheckQuit
<1>4. CASE Loop!EpollWait
  BY <1>4 DEF Loop!EpollWait
<1>5. CASE Loop!HandleRead
  BY <1>5 DEF Loop!HandleRead
<1>6. CASE Loop!HandleEvents
  BY <1>6 DEF Loop!HandleEvents
<1>7. CASE Loop!DoPendingFunctors
  BY <1>7 DEF Loop!DoPendingFunctors
<1>8. CASE Loop!RunFunctor
  BY <1>8 DEF Loop!RunFunctor
<1>9. CASE Loop!FunctorReturns
  BY <1>9 DEF Loop!FunctorReturns
<1>10. CASE Loop!EndPendingFunctors
  BY <1>10 DEF Loop!EndPendingFunctors
<1> QED
  BY <1>1, <1>2, <1>3, <1>4, <1>5, <1>6, <1>7, <1>8, <1>9, <1>10
  DEF Loop!LoopStep

\* A call in progress changes neither _quit nor, except by crashing, the
\* phase of the loop, and begins no append.
LEMMA CallKeeps ==
  ASSUME IInv, NEW t \in {LoopThread, Owner}, CallGoesOn(t)
  PROVE  /\ UNCHANGED threadVars /\ quit' = quit
         /\ phase' = "stopped" => phase = "stopped"
         /\ op' \in [{Owner, LoopThread} -> {"none", "push", "wake"}]
         /\ op'[Owner] = "push" => op[Owner] = "push"
<1>1. op \in [{Owner, LoopThread} -> {"none", "push", "wake"}]
  BY DEF IInv, Places
<1>2. CASE Loop!EmplaceBack(t)
  BY <1>1, <1>2 DEF CallGoesOn, Loop!EmplaceBack
<1>3. CASE Loop!WakeUp(t)
  BY <1>1, <1>3 DEF CallGoesOn, Loop!WakeUp
<1>4. CASE Loop!Corrupt(t)
  BY <1>1, <1>4 DEF CallGoesOn, Loop!Corrupt
<1> QED
  BY <1>2, <1>3, <1>4 DEF CallGoesOn, Loop!FinishCall

LEMMA InvNext ==
  ASSUME IInv, [Next]_vars
  PROVE  IInv'
<1> USE DEF Places, InStep, HasQuit, OwnerPlaces, ThreadPlaces
<1>1. CASE ThreadStep
  <2>1. UNCHANGED <<op, quit, phase, ownerAt, userQuit>>
    BY <1>1 DEF ThreadStep, ConstructLoop, PublishLoop, ClearLoop, Unlock,
                DestroyLoop, loopVars
  <2>2. CASE ConstructLoop
    BY <2>1, <2>2 DEF IInv, ConstructLoop
  <2>3. CASE PublishLoop
    BY <2>1, <2>3 DEF IInv, PublishLoop
  <2>4. CASE ClearLoop
    <3>1. /\ threadAt = "loop" /\ phase = "stopped"
          /\ threadAt' = "unlock" /\ loopSet' = FALSE
      BY <2>4 DEF ClearLoop
    <3>2. ~userQuit => ownerAt = "join"
      BY <3>1 DEF IInv
    <3>3. Places'
      BY <2>1, <3>1 DEF IInv
    <3>4. ~userQuit => InStep'
      BY <2>1, <3>1, <3>2 DEF IInv
    <3> QED
      BY <2>1, <3>3, <3>4 DEF IInv
  <2>5. CASE Unlock
    BY <2>1, <2>5 DEF IInv, Unlock
  <2>6. CASE DestroyLoop
    BY <2>1, <2>6 DEF IInv, DestroyLoop
  <2> QED
    BY <1>1, <2>2, <2>3, <2>4, <2>5, <2>6 DEF ThreadStep
<1>2. CASE RunLoop
  <2>1. /\ op' = op
        /\ quit' => quit
        /\ phase' = "stopped" => phase = "stopped" \/ quit
        /\ UNCHANGED <<ownerAt, threadAt, loopSet, userQuit>>
    BY <1>2, LoopKeeps DEF RunLoop, threadVars
  <2> QED
    BY <2>1 DEF IInv
<1>3. CASE TestLoop \/ Wakes \/ Join \/ DestroyMembers
  <2>1. UNCHANGED <<op, quit, phase, threadAt, loopSet, userQuit>>
    BY <1>3 DEF TestLoop, Wakes, Join, DestroyMembers, loopVars
  <2>2. CASE TestLoop
    BY <2>1, <2>2 DEF IInv, TestLoop
  <2>3. CASE Wakes
    BY <2>1, <2>3 DEF IInv, Wakes
  <2>4. CASE Join
    BY <2>1, <2>4 DEF IInv, Join
  <2>5. CASE DestroyMembers
    BY <2>1, <2>5 DEF IInv, DestroyMembers
  <2> QED
    BY <1>3, <2>2, <2>3, <2>4, <2>5
<1>4. CASE QuitLoop
  <2>1. /\ ownerAt = "quit" /\ ownerAt' = "join"
        /\ UNCHANGED <<threadAt, loopSet, phase, userQuit>>
        /\ op' = [op EXCEPT ![Owner] = IF Owner # LoopThread THEN "wake" ELSE "none"]
    BY <1>4 DEF QuitLoop, Loop!Quit
  <2> QED
    BY <2>1, ThreadAssumption DEF IInv
<1>5. CASE StartThread \/ WakesSpuriously \/ BeginDestructor
  <2>1. UNCHANGED <<op, quit, phase, loopSet, userQuit>>
    BY <1>5 DEF StartThread, WakesSpuriously, BeginDestructor, loopVars
  <2>2. CASE StartThread
    <3>1. /\ ownerAt = "new"
          /\ ownerAt' = "test" /\ threadAt' = "begun" /\ userQuit' = userQuit
      BY <2>2 DEF StartThread
    <3>2. Places'
      BY <2>1, <3>1 DEF IInv
    <3>3. ~userQuit => InStep'
      BY <2>1, <3>1 DEF IInv
    <3> QED
      BY <3>1, <3>2, <3>3 DEF IInv
  <2>3. CASE WakesSpuriously
    BY <2>1, <2>3 DEF IInv, WakesSpuriously
  <2>4. CASE BeginDestructor
    BY <2>1, <2>4 DEF IInv, BeginDestructor
  <2> QED
    BY <1>5, <2>2, <2>3, <2>4
<1>6. CASE OwnerQueues
  <2>1. /\ ownerAt = "started" /\ UNCHANGED <<threadVars, phase, quit>>
        /\ op' = [op EXCEPT ![Owner] = "push"]
    BY <1>6 DEF OwnerQueues, Loop!QueueInLoop
  <2> QED
    BY <2>1 DEF IInv, threadVars
<1>7. CASE CallbackQueues
  <2>1. /\ UNCHANGED <<threadVars, phase, quit>>
        /\ op' = [op EXCEPT ![LoopThread] = "push"]
    BY <1>7 DEF CallbackQueues, Loop!QueueInLoop
  <2> QED
    BY <2>1, ThreadAssumption DEF IInv, threadVars
<1>8. CASE CallbackQuits
  <2>1. /\ userQuit' = TRUE /\ UNCHANGED <<ownerAt, threadAt, loopSet>>
        /\ op' = [op EXCEPT ![LoopThread] =
                    IF LoopThread # LoopThread THEN "wake" ELSE "none"]
    BY <1>8 DEF CallbackQuits, Loop!Quit
  <2> QED
    BY <2>1 DEF IInv
<1>9. ASSUME NEW t \in {LoopThread, Owner}, CallGoesOn(t)
      PROVE  IInv'
  BY <1>9, CallKeeps DEF IInv, threadVars
<1>10. CASE UNCHANGED vars
  BY <1>10 DEF IInv, vars, loopVars, threadVars
<1> QED
  BY <1>1, <1>2, <1>3, <1>4, <1>5, <1>6, <1>7, <1>8, <1>9, <1>10
  DEF Next, OwnerStep

-----------------------------------------------------------------------------
\* Every step of the two threads is a step of the loop or leaves it alone.
LEMMA StepsOfTheLoop == [Next]_vars => [Loop!Next]_loopVars
<1> SUFFICES ASSUME [Next]_vars PROVE Loop!Next \/ UNCHANGED loopVars
  OBVIOUS
<1>1. CASE ThreadStep
  BY <1>1 DEF ThreadStep, ConstructLoop, PublishLoop, ClearLoop, Unlock,
         DestroyLoop
<1>2. CASE RunLoop
  BY <1>2 DEF RunLoop, Loop!Next
<1>3. CASE TestLoop \/ Wakes \/ Join \/ DestroyMembers
  BY <1>3 DEF TestLoop, Wakes, Join, DestroyMembers
<1>4. CASE QuitLoop
  <2>1. Owner \in Loop!Threads /\ Loop!Quit(Owner)
    BY <1>4 DEF QuitLoop, Loop!Threads
  <2> QED BY <2>1 DEF Loop!Next
<1>5. CASE StartThread \/ WakesSpuriously \/ BeginDestructor
  BY <1>5 DEF StartThread, WakesSpuriously, BeginDestructor
<1>6. CASE OwnerQueues
  <2>1. Owner \in Loop!Threads /\ Loop!QueueInLoop(Owner)
    BY <1>6 DEF OwnerQueues, Loop!Threads
  <2> QED BY <2>1 DEF Loop!Next
<1>7. CASE CallbackQueues \/ CallbackQuits
  <2>1. /\ LoopThread \in Loop!Threads
        /\ Loop!QueueInLoop(LoopThread) \/ Loop!Quit(LoopThread)
    BY <1>7 DEF CallbackQueues, CallbackQuits, Loop!Threads
  <2> QED BY <2>1 DEF Loop!Next
<1>8. ASSUME NEW t \in {LoopThread, Owner}, CallGoesOn(t)
      PROVE  Loop!Next
  <2>1. t \in Loop!Threads /\ (Loop!FinishCall(t) \/ Loop!Corrupt(t))
    BY <1>8 DEF CallGoesOn, Loop!Threads
  <2> QED BY <2>1 DEF Loop!Next
<1>9. CASE UNCHANGED vars
  BY <1>9 DEF vars
<1> QED
  BY <1>1, <1>2, <1>3, <1>4, <1>5, <1>6, <1>7, <1>8, <1>9
  DEF Next, OwnerStep

\* The loop of EventLoopProofs is the loop of EventLoopThread.
LEMMA SameLoop ==
  /\ LoopProofs!Init <=> Loop!Init
  /\ LoopProofs!TypeOK <=> Loop!TypeOK
  /\ LoopProofs!CallInv <=> Loop!CallInv
  /\ [LoopProofs!Next]_(LoopProofs!vars) <=> [Loop!Next]_loopVars
<1>1. LoopProofs!Init <=> Loop!Init
  BY DEF LoopProofs!Init, Loop!Init, LoopProofs!Threads, Loop!Threads
<1>2. LoopProofs!TypeOK <=> Loop!TypeOK
  BY DEF LoopProofs!TypeOK, Loop!TypeOK, LoopProofs!Threads, Loop!Threads,
         LoopProofs!Functor, Loop!Functor, LoopProofs!Phases, Loop!Phases
<1>3. LoopProofs!CallInv <=> Loop!CallInv
  BY DEF LoopProofs!CallInv, Loop!CallInv, LoopProofs!Threads, Loop!Threads
<1>4. LoopProofs!vars = loopVars /\ LoopProofs!vars' = loopVars'
  BY DEF LoopProofs!vars, loopVars
<1>5. LoopProofs!Next <=> Loop!Next
  BY DEF LoopProofs!Threads, Loop!Threads, LoopProofs!MayCall, Loop!MayCall,
         LoopProofs!QueueInLoop, Loop!QueueInLoop, LoopProofs!Appending,
         Loop!Appending, LoopProofs!MustWake, Loop!MustWake,
         LoopProofs!EmplaceBack, Loop!EmplaceBack, LoopProofs!Corrupt,
         Loop!Corrupt, LoopProofs!WakeUp, Loop!WakeUp, LoopProofs!Quit,
         Loop!Quit, LoopProofs!StartLoop, Loop!StartLoop,
         LoopProofs!CheckQuit, Loop!CheckQuit, LoopProofs!WakeupReady,
         Loop!WakeupReady, LoopProofs!EpollWait, Loop!EpollWait,
         LoopProofs!PollTimeout, Loop!PollTimeout, LoopProofs!HandleRead,
         Loop!HandleRead, LoopProofs!HandleEvents, Loop!HandleEvents,
         LoopProofs!DoPendingFunctors, Loop!DoPendingFunctors,
         LoopProofs!RunFunctor, Loop!RunFunctor, LoopProofs!FunctorReturns,
         Loop!FunctorReturns, LoopProofs!EndPendingFunctors,
         Loop!EndPendingFunctors, LoopProofs!FinishCall, Loop!FinishCall,
         LoopProofs!LoopStep, Loop!LoopStep, LoopProofs!Next, Loop!Next,
         LoopProofs!queueVars, Loop!queueVars, LoopProofs!wakeVars,
         Loop!wakeVars, LoopProofs!vars, Loop!vars
<1> QED BY <1>1, <1>2, <1>3, <1>4, <1>5

LEMMA LoopTypes ==
  /\ Init => Loop!TypeOK /\ Loop!CallInv
  /\ Loop!TypeOK /\ Loop!CallInv /\ [Next]_vars => (Loop!TypeOK /\ Loop!CallInv)'
<1>1. LoopThread \notin {Owner} /\ MaxCalls \in Nat
  BY ThreadAssumption, MaxCallsAssumption
<1>2. LoopProofs!Init => LoopProofs!TypeOK /\ LoopProofs!CallInv
  BY <1>1, LoopProofs!TypeInit
<1>3. LoopProofs!TypeOK /\ LoopProofs!CallInv /\ [LoopProofs!Next]_(LoopProofs!vars)
        => (LoopProofs!TypeOK /\ LoopProofs!CallInv)'
  BY <1>1, LoopProofs!TypeNext
<1>4. (LoopProofs!TypeOK)' <=> (Loop!TypeOK)'
  BY DEF LoopProofs!TypeOK, Loop!TypeOK, LoopProofs!Threads, Loop!Threads,
         LoopProofs!Functor, Loop!Functor, LoopProofs!Phases, Loop!Phases
<1>5. (LoopProofs!CallInv)' <=> (Loop!CallInv)'
  BY DEF LoopProofs!CallInv, Loop!CallInv, LoopProofs!Threads, Loop!Threads
<1> QED BY <1>2, <1>3, <1>4, <1>5, SameLoop, StepsOfTheLoop DEF Init

LEMMA NotifiedNext ==
  notified \in BOOLEAN /\ [Next]_vars => notified' \in BOOLEAN
BY DEF Next, ThreadStep, ConstructLoop, PublishLoop, ClearLoop, Unlock,
       DestroyLoop,
       RunLoop, OwnerStep, TestLoop, Wakes, QuitLoop, Join, DestroyMembers,
       StartThread, WakesSpuriously, BeginDestructor, OwnerQueues, CallbackQueues,
       CallbackQuits, CallGoesOn, vars, threadVars

\* The loop of an EventLoopThread keeps its types, and _loop is set exactly
\* from the publication to the return of Loop().
THEOREM TypeCorrect ==
  Spec => []TypeOK
<1> DEFINE TInv == Loop!TypeOK /\ Loop!CallInv /\ IInv /\ notified \in BOOLEAN
<1>1. Init => TInv
  BY LoopTypes, InvInit DEF Init
<1>2. TInv /\ [Next]_vars => TInv'
  BY LoopTypes, InvNext, NotifiedNext
<1>3. TInv => TypeOK
  BY DEF IInv, Places, TypeOK
<1> QED BY <1>1, <1>2, <1>3, PTL DEF Spec

\* The owner only uses a loop that exists, up to the WakeUp in its Quit.
THEOREM LoopIsLive ==
  Spec => []OwnerUsesLiveLoop
<1>1. IInv => OwnerUsesLiveLoop
  BY DEF IInv, InStep, HasQuit, OwnerUsesLiveLoop, ThreadPlaces
<1> QED
  BY <1>1, InvInit, InvNext, PTL DEF Spec

\* The thread only uses the members of an EventLoopThread that exists.
THEOREM ObjectIsLive ==
  Spec => []ObjectOutlivesThread
<1>1. IInv => ObjectOutlivesThread
  BY DEF IInv, InStep, ObjectOutlivesThread
<1> QED
  BY <1>1, InvInit, InvNext, PTL DEF Spec

-----------------------------------------------------------------------------
(***************************************************************************)
(* What EventLoopProofs shows of any loop holds of the one on the stack of *)
(* ThreadFunc, whatever init callback, StartLoop and destructor do around  *)
(* it.                                                                     *)
(***************************************************************************)
LEMMA RunsTheLoop == Spec => LoopProofs!Spec
<1>1. Init => LoopProofs!Init
  BY SameLoop DEF Init
<1>2. [Next]_vars => [LoopProofs!Next]_(LoopProofs!vars)
  BY SameLoop, StepsOfTheLoop
<1> QED BY <1>1, <1>2, PTL DEF Spec, LoopProofs!Spec

\* The Quit of the destructor, and the work of the owner and of callbacks, wake
\* the loop, so that the Join never waits for a loop that sleeps on its Quit.
THEOREM LoopWakes == Spec => []Loop!NoLostWakeup
<1>1. LoopThread \notin {Owner} /\ MaxCalls \in Nat
  BY ThreadAssumption, MaxCallsAssumption
<1>2. LoopProofs!Spec => []LoopProofs!NoLostWakeup
  BY <1>1, LoopProofs!WakeupCorrect
<1>3. LoopProofs!NoLostWakeup <=> Loop!NoLostWakeup
  BY DEF LoopProofs!NoLostWakeup, Loop!NoLostWakeup, LoopProofs!LateWork, Loop!LateWork,
         LoopProofs!Late, Loop!Late, LoopProofs!WakeInFlight, Loop!WakeInFlight,
         LoopProofs!WakeupReady, Loop!WakeupReady, LoopProofs!Threads, Loop!Threads
<1> QED BY <1>2, <1>3, RunsTheLoop, PTL

\* What the owner and the callbacks queue runs in the order of their calls, at
\* most once.
THEOREM LoopOrders == Spec => []Loop!RunInCallOrder
<1>1. LoopThread \notin {Owner} /\ MaxCalls \in Nat
  BY ThreadAssumption, MaxCallsAssumption
<1>2. LoopProofs!Spec => []LoopProofs!RunInCallOrder
  BY <1>1, LoopProofs!OrderCorrect
<1>3. LoopProofs!RunInCallOrder <=> Loop!RunInCallOrder
  BY DEF LoopProofs!RunInCallOrder, Loop!RunInCallOrder
<1> QED BY <1>2, <1>3, RunsTheLoop, PTL

\* The owner may take the EventLoop that StartLoop returned for an Executor.
THEOREM LoopExecutes == Spec => Loop!IsExecutor
<1>1. LoopThread \notin {Owner} /\ MaxCalls \in Nat
  BY ThreadAssumption, MaxCallsAssumption
<1>2. LoopProofs!Spec => LoopProofs!IsExecutor
  BY <1>1, LoopProofs!Refinement
<1>3. LoopProofs!Promise!Init <=> Loop!Promise!Init
  BY DEF LoopProofs!Promise!Init, Loop!Promise!Init
<1>4. [LoopProofs!Promise!Next]_(LoopProofs!Promise!vars)
        <=> [Loop!Promise!Next]_(Loop!Promise!vars)
  <2>1. LoopProofs!Functor = Loop!Functor
    BY DEF LoopProofs!Functor, Loop!Functor, LoopProofs!Threads, Loop!Threads
  <2>2. \A f : /\ LoopProofs!Promise!Accept(f) <=> Loop!Promise!Accept(f)
               /\ LoopProofs!Promise!Displace(f) <=> Loop!Promise!Displace(f)
    BY DEF LoopProofs!Promise!Accept, Loop!Promise!Accept,
           LoopProofs!Promise!Displace, Loop!Promise!Displace,
           LoopProofs!Promise!Fresh, Loop!Promise!Fresh,
           LoopProofs!Promise!Occurs, Loop!Promise!Occurs
  <2>3. LoopProofs!Promise!Run <=> Loop!Promise!Run
    BY DEF LoopProofs!Promise!Run, Loop!Promise!Run
  <2>4. LoopProofs!Promise!Next <=> Loop!Promise!Next
    BY <2>1, <2>2, <2>3 DEF LoopProofs!Promise!Next, Loop!Promise!Next
  <2> QED BY <2>4 DEF LoopProofs!Promise!vars, Loop!Promise!vars
<1> QED BY <1>2, <1>3, <1>4, RunsTheLoop, PTL
        DEF LoopProofs!IsExecutor, Loop!IsExecutor, LoopProofs!Promise!Spec, Loop!Promise!Spec

-----------------------------------------------------------------------------
(***************************************************************************)
(* The handshake of StartLoop with ThreadFunc.                             *)
(***************************************************************************)
\* An owner that waits while _loop is set has been notified: the test of _loop
\* and the wait are one step under _mtx, and so are the store and notify_one.
NotLeftWaiting == ownerAt = "wait" /\ loopSet => notified

\* The notification of ThreadFunc is not lost, whether it comes before, between
\* or after the test and the wait of StartLoop, and whatever wakes the owner
\* for no reason.
THEOREM NotificationKept == Spec => []NotLeftWaiting
<1>1. Init => NotLeftWaiting
  BY DEF Init, NotLeftWaiting
<1>2. NotLeftWaiting /\ [Next]_vars => NotLeftWaiting'
  <2> SUFFICES ASSUME NotLeftWaiting, [Next]_vars PROVE NotLeftWaiting'
    OBVIOUS
  <2>1. CASE TestLoop \/ Wakes \/ WakesSpuriously
    BY <2>1 DEF TestLoop, Wakes, WakesSpuriously, NotLeftWaiting
  <2>2. CASE PublishLoop \/ ClearLoop
    BY <2>2 DEF PublishLoop, ClearLoop, NotLeftWaiting
  <2>3. CASE StartThread \/ BeginDestructor \/ QuitLoop \/ Join \/ DestroyMembers
    BY <2>3 DEF StartThread, BeginDestructor, QuitLoop, Join, DestroyMembers, NotLeftWaiting
  <2>4. CASE UNCHANGED <<ownerAt, loopSet, notified>>
    BY <2>4 DEF NotLeftWaiting
  <2>5. \/ ConstructLoop \/ Unlock \/ DestroyLoop \/ RunLoop \/ OwnerQueues
        \/ CallbackQueues \/ CallbackQuits \/ UNCHANGED vars
        \/ \E t \in {LoopThread, Owner} : CallGoesOn(t)
        => UNCHANGED <<ownerAt, loopSet, notified>>
    BY DEF ConstructLoop, Unlock, DestroyLoop, RunLoop, OwnerQueues, CallbackQueues,
           CallbackQuits, CallGoesOn, threadVars, vars
  <2> QED BY <2>1, <2>2, <2>3, <2>4, <2>5 DEF Next, ThreadStep, OwnerStep
<1> QED BY <1>1, <1>2, PTL DEF Spec
=============================================================================
