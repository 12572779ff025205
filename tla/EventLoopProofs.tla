--------------------------- MODULE EventLoopProofs ---------------------------
(***************************************************************************)
(* What is proved of EventLoop, for any set of calling threads and any     *)
(* number of calls.                                                        *)
(***************************************************************************)
EXTENDS EventLoop, SequenceTheorems, TLAPS

\* The functor of a thread's n-th QueueInLoop call is a functor, and every
\* functor is of that form.
LEMMA FunctorTuple ==
  ASSUME NEW t \in Threads, NEW n \in 1..MaxCalls
  PROVE  <<t, n>> \in Functor
BY DEF Functor

LEMMA FunctorParts ==
  ASSUME NEW f \in Functor
  PROVE  f[1] \in Threads /\ f[2] \in 1..MaxCalls
BY DEF Functor

\* The three outcomes of an append, seen position by position: the functor
\* can only be at the end of the vector, and nothing before it has moved.
LEMMA AppendOutcome ==
  ASSUME TypeOK, CallInv, NEW t \in Threads, EmplaceBack(t)
  PROVE  /\ <<t, called[t]>> \in Functor
         /\ pending' \in Seq(Functor)
         /\ \A i \in 1..Len(pending') :
              \/ i \in 1..Len(pending) /\ pending'[i] = pending[i]
              \/ i = Len(pending') /\ pending'[i] = <<t, called[t]>>
<1> USE MaxCallsAssumption DEF TypeOK
<1> DEFINE f == <<t, called[t]>>
<1>1. f \in Functor
  <2>1. called[t] \in 1..MaxCalls
    BY DEF EmplaceBack, CallInv
  <2>2. QED
    BY <2>1, FunctorTuple
<1> HIDE DEF f
<1>2. CASE pending' = Append(pending, f)
  BY <1>1, <1>2, AppendProperties DEF f
<1>3. CASE pending' = pending
  BY <1>1, <1>3 DEF f
<1>4. CASE pending # <<>> /\ pending' = [pending EXCEPT ![Len(pending)] = f]
  <2>1. Len(pending) \in 1..Len(pending)
    BY <1>4
  <2>2. /\ pending' \in Seq(Functor)
        /\ Len(pending') = Len(pending)
        /\ \A j \in 1..Len(pending) :
             pending'[j] = IF j = Len(pending) THEN f ELSE pending[j]
    BY <1>1, <1>4, <2>1, ExceptSeq
  <2>3. QED
    BY <1>1, <2>2 DEF f
<1>5. QED
  BY <1>2, <1>3, <1>4 DEF EmplaceBack, f

\* One step keeps the types and the place of the loop thread in its calls.
LEMMA TypeNext == TypeOK /\ CallInv /\ [Next]_vars => (TypeOK /\ CallInv)'
<1> USE ThreadAssumption, MaxCallsAssumption
<1> USE DEF TypeOK, CallInv, Threads, Phases, queueVars, wakeVars
<1> SUFFICES ASSUME TypeOK, CallInv, [Next]_vars
             PROVE  (TypeOK /\ CallInv)'
  OBVIOUS
<1>1. ASSUME NEW t \in Threads, QueueInLoop(t)
      PROVE  (TypeOK /\ CallInv)'
  BY <1>1 DEF QueueInLoop, MayCall
<1>2. ASSUME NEW t \in Threads, EmplaceBack(t)
      PROVE  (TypeOK /\ CallInv)'
  <2>1. /\ raced' = (raced \ {t}) \cup Appending(t)
        /\ op' = [op EXCEPT ![t] = IF MustWake(t) THEN "wake" ELSE "none"]
        /\ op[t] = "push"
        /\ UNCHANGED <<phase, called, early, functors, calling, quit, readable,
                       edge, active, ran>>
    BY <1>2 DEF EmplaceBack
  <2>2. pending' \in Seq(Functor)
    BY <1>2, AppendOutcome
  <2>3. raced' \subseteq Threads
    BY <2>1 DEF Appending
  <2>4. op' \in [Threads -> {"none", "push", "wake"}]
    BY <2>1
  <2>5. CallInv'
    BY <2>1 DEF MustWake
  <2>6. QED
    BY <2>1, <2>2, <2>3, <2>4, <2>5
<1>3. ASSUME NEW t \in Threads, Quit(t)
      PROVE  (TypeOK /\ CallInv)'
  BY <1>3 DEF Quit, MayCall
<1>4. ASSUME NEW t \in Threads, WakeUp(t) \/ Corrupt(t)
      PROVE  (TypeOK /\ CallInv)'
  BY <1>4 DEF WakeUp, Corrupt
<1>5. CASE StartLoop \/ PollTimeout \/ CheckQuit
  BY <1>5 DEF StartLoop, PollTimeout, CheckQuit
<1>6. CASE EpollWait
  BY <1>6 DEF EpollWait, WakeupReady
<1>7. CASE HandleRead \/ HandleEvents
  BY <1>7 DEF HandleRead, HandleEvents
<1>8. CASE DoPendingFunctors
  BY <1>8 DEF DoPendingFunctors, Appending
<1>9. CASE RunFunctor
  <2>1. ran' \in Seq(Functor) /\ functors' \in Seq(Functor)
    BY <1>9 DEF RunFunctor
  <2>2. QED
    BY <1>9, <2>1 DEF RunFunctor
<1>10. CASE FunctorReturns \/ EndPendingFunctors
  BY <1>10 DEF FunctorReturns, EndPendingFunctors
<1>11. CASE UNCHANGED vars
  BY <1>11 DEF vars
<1>12. QED
  BY <1>1, <1>2, <1>3, <1>4, <1>5, <1>6, <1>7, <1>8, <1>9, <1>10, <1>11
     DEF Next, LoopStep, FinishCall

LEMMA TypeInit == Init => TypeOK /\ CallInv
<1> USE ThreadAssumption, MaxCallsAssumption
<1> USE DEF Init, TypeOK, CallInv, Threads, Phases
<1> SUFFICES ASSUME Init PROVE TypeOK /\ CallInv
  OBVIOUS
<1>1. pending \in Seq(Functor) /\ functors \in Seq(Functor) /\ ran \in Seq(Functor)
  OBVIOUS
<1>2. /\ called \in [Threads -> 0..MaxCalls]
      /\ op \in [Threads -> {"none", "push", "wake"}]
      /\ called[LoopThread] = 0
  OBVIOUS
<1>3. calling \in BOOLEAN /\ quit \in BOOLEAN /\ readable \in BOOLEAN /\ edge \in BOOLEAN
  OBVIOUS
<1>4. QED
  BY <1>1, <1>2, <1>3

\* Every variable of the loop keeps its type: in particular the vectors only
\* ever hold functors that were passed to QueueInLoop.
THEOREM TypeCorrect == Spec => [](TypeOK /\ CallInv)
BY TypeInit, TypeNext, PTL DEF Spec

-----------------------------------------------------------------------------
(***************************************************************************)
(* No wakeup is lost.                                                      *)
(***************************************************************************)
\* Whatever happens to the vector, late work can only be added by an append
\* that ends, and then its thread goes on to write the eventfd.
LEMMA AppendWakes ==
  ASSUME WakeIInv, NEW t \in Threads, EmplaceBack(t),
         phase \notin {"handle", "stopped", "crashed"}, LateWork'
  PROVE  WakeInFlight'
<1> USE ThreadAssumption, MaxCallsAssumption
<1> USE DEF WakeIInv, TypeOK, Threads
<1>1. /\ op[t] = "push"
      /\ op' = [op EXCEPT ![t] = IF MustWake(t) THEN "wake" ELSE "none"]
      /\ UNCHANGED <<phase, called, early, calling, readable, edge>>
  BY DEF EmplaceBack, wakeVars
<1>2. CASE MustWake(t)
  BY <1>1, <1>2 DEF WakeInFlight
<1>3. CASE ~MustWake(t)
  <2>1. t = LoopThread /\ phase = "idle" /\ early = called[t]
    BY <1>1, <1>3 DEF MustWake, CallInv, PhaseInv
  <2>2. ~Late(<<t, called[t]>>)'
    BY <1>1, <2>1 DEF Late
  <2>3. PICK i \in 1..Len(pending') : Late(pending[i])'
    BY DEF LateWork
  <2>4. i \in 1..Len(pending) /\ pending'[i] = pending[i]
    BY <1>1, <2>2, <2>3, AppendOutcome DEF Late
  <2>5. LateWork
    BY <1>1, <2>3, <2>4 DEF LateWork, Late
  <2>6. WakeInFlight
    BY <2>1, <2>5 DEF WakeInv
  <2>7. QED
    BY <1>1, <2>6 DEF WakeInFlight, WakeupReady
<1>4. QED
  BY <1>2, <1>3

\* Queueing before Loop() makes no functor late that was not.
LEMMA CallKeepsLate ==
  ASSUME WakeIInv, NEW t \in Threads, QueueInLoop(t)
  PROVE  LateWork' => LateWork
BY FunctorParts, ThreadAssumption, MaxCallsAssumption
   DEF WakeIInv, TypeOK, Threads, QueueInLoop, LateWork, Late

LEMMA WakeNext == WakeIInv /\ [Next]_vars => WakeIInv'
<1> USE ThreadAssumption
<1> SUFFICES ASSUME WakeIInv, [Next]_vars
             PROVE  WakeIInv'
  OBVIOUS
<1>a. (TypeOK /\ CallInv)'
  BY TypeNext DEF WakeIInv
<1> SUFFICES (PhaseInv /\ EdgeInv /\ WakeInv)'
  BY <1>a DEF WakeIInv
<1> USE DEF WakeIInv, TypeOK, Threads, PhaseInv, EdgeInv, WakeInv,
            queueVars, wakeVars
<1>1. ASSUME NEW t \in Threads, QueueInLoop(t)
      PROVE  (PhaseInv /\ EdgeInv /\ WakeInv)'
  <2>1. WakeInFlight => WakeInFlight'
    BY <1>1 DEF QueueInLoop, MayCall, WakeInFlight, WakeupReady
  <2>2. QED
    BY <1>1, <2>1, CallKeepsLate DEF QueueInLoop
<1>2. ASSUME NEW t \in Threads, EmplaceBack(t)
      PROVE  (PhaseInv /\ EdgeInv /\ WakeInv)'
  <2>1. op[t] = "push" /\ UNCHANGED <<phase, quit, calling, active, functors, readable, edge>>
    BY <1>2 DEF EmplaceBack
  <2>2. WakeInFlight => WakeInFlight'
    BY <1>2, <2>1 DEF EmplaceBack, WakeInFlight, WakeupReady
  <2>3. QED
    BY <1>2, <2>1, <2>2, AppendWakes
<1>3. ASSUME NEW t \in Threads, Quit(t)
      PROVE  (PhaseInv /\ EdgeInv /\ WakeInv)'
  <2>1. WakeInFlight => WakeInFlight'
    BY <1>3 DEF Quit, MayCall, WakeInFlight, WakeupReady
  <2>2. LateWork' <=> LateWork
    BY <1>3 DEF Quit, LateWork, Late
  <2>3. phase = "poll" => WakeInFlight'
    BY <1>3 DEF Quit, MayCall, WakeInFlight
  <2>4. QED
    BY <1>3, <2>1, <2>2, <2>3 DEF Quit
<1>4. ASSUME NEW t \in Threads, WakeUp(t)
      PROVE  (PhaseInv /\ EdgeInv /\ WakeInv)'
  BY <1>4 DEF WakeUp, WakeInFlight, WakeupReady
<1>5. ASSUME NEW t \in Threads, Corrupt(t)
      PROVE  (PhaseInv /\ EdgeInv /\ WakeInv)'
  BY <1>5 DEF Corrupt
<1>6. ASSUME UNCHANGED <<pending, early, op, readable, edge>>
      PROVE  (LateWork' <=> LateWork) /\ (WakeInFlight' <=> WakeInFlight)
  BY <1>6 DEF LateWork, Late, WakeInFlight, WakeupReady
<1>7. CASE StartLoop \/ CheckQuit \/ PollTimeout
  <2>1. CASE StartLoop
    BY <1>6, <2>1 DEF StartLoop
  <2>2. CASE CheckQuit
    BY <1>6, <2>2 DEF CheckQuit
  <2>3. CASE PollTimeout
    BY <1>6, <2>3 DEF PollTimeout
  <2>4. QED
    BY <1>7, <2>1, <2>2, <2>3
<1>8. CASE EpollWait
  BY <1>8 DEF EpollWait, WakeupReady
<1>9. CASE HandleRead \/ HandleEvents
  <2>1. CASE HandleRead
    BY <2>1 DEF HandleRead
  <2>2. CASE HandleEvents
    BY <2>2 DEF HandleEvents
  <2>3. QED
    BY <1>9, <2>1, <2>2
<1>10. CASE DoPendingFunctors
  <2>1. ~LateWork'
    BY <1>10 DEF DoPendingFunctors, LateWork
  <2>2. QED
    BY <1>10, <2>1 DEF DoPendingFunctors
<1>11. CASE RunFunctor \/ FunctorReturns \/ EndPendingFunctors
  <2>1. CASE RunFunctor
    BY <1>6, <2>1 DEF RunFunctor
  <2>2. CASE FunctorReturns
    BY <1>6, <2>2 DEF FunctorReturns
  <2>3. CASE EndPendingFunctors
    BY <1>6, <2>3 DEF EndPendingFunctors
  <2>4. QED
    BY <1>11, <2>1, <2>2, <2>3
<1>12. CASE UNCHANGED vars
  BY <1>6, <1>12 DEF vars
<1>13. QED
  BY <1>1, <1>2, <1>3, <1>4, <1>5, <1>7, <1>8, <1>9, <1>10, <1>11, <1>12
     DEF Next, LoopStep, FinishCall

LEMMA WakeInit == Init => WakeIInv
<1> SUFFICES ASSUME Init PROVE PhaseInv /\ EdgeInv /\ WakeInv /\ TypeOK /\ CallInv
  BY DEF WakeIInv
<1>1. TypeOK /\ CallInv
  BY TypeInit
<1>2. QED
  BY <1>1 DEF Init, PhaseInv, EdgeInv, WakeInv, LateWork

\* The loop is never left blocked in epoll_wait with _quit set, or with work
\* that it was not given before Loop(), unless a wakeup is on its way.
THEOREM WakeupCorrect == Spec => []NoLostWakeup
<1>1. WakeIInv => NoLostWakeup
  BY DEF WakeIInv, WakeInv, NoLostWakeup
<1>2. QED
  BY <1>1, WakeInit, WakeNext, PTL DEF Spec

-----------------------------------------------------------------------------
(***************************************************************************)
(* Functors run in the order of their threads' calls.                      *)
(***************************************************************************)
\* Calls begin and end; the vectors stay as they are.
LEMMA OrderKept ==
  ASSUME TypeOK, TypeOK', OrderInv, UNCHANGED <<pending, functors, ran>>,
         \A u \in Threads :
           /\ called[u] <= called'[u]
           /\ op'[u] = "push" => op[u] = "push" \/ called[u] < called'[u]
  PROVE  OrderInv'
<1> USE MaxCallsAssumption DEF TypeOK
<1>1. ASSUME NEW s \in Seq(Functor), Appended(s)
      PROVE  \A i \in 1..Len(s) :
               /\ s[i][2] <= called'[s[i][1]]
               /\ op'[s[i][1]] = "push" => s[i][2] < called'[s[i][1]]
  <2> SUFFICES ASSUME NEW i \in 1..Len(s)
               PROVE  /\ s[i][2] <= called'[s[i][1]]
                      /\ op'[s[i][1]] = "push" => s[i][2] < called'[s[i][1]]
    OBVIOUS
  <2>1. s[i] \in Functor
    OBVIOUS
  <2>2. s[i][1] \in Threads /\ s[i][2] \in 1..MaxCalls
    BY <2>1, FunctorParts
  <2>3. QED
    BY <1>1, <2>2 DEF Appended
<1>2. Appended(ran)' /\ Appended(functors)' /\ Appended(pending)'
  BY <1>1 DEF Appended, OrderInv
<1>3. QED
  BY <1>2 DEF OrderInv, InCallOrder, Precedes

LEMMA OrderAppend ==
  ASSUME TypeOK, CallInv, OrderInv, NEW t \in Threads, EmplaceBack(t)
  PROVE  OrderInv'
<1> USE MaxCallsAssumption DEF TypeOK
<1> DEFINE f == <<t, called[t]>>
<1>1. /\ op[t] = "push" /\ op'[t] # "push"
      /\ \A u \in Threads \ {t} : op'[u] = op[u]
      /\ UNCHANGED <<called, functors, ran>>
  BY DEF EmplaceBack
<1>2. /\ f \in Functor /\ f[1] = t /\ f[2] = called[t]
      /\ pending' \in Seq(Functor)
      /\ \A i \in 1..Len(pending') :
           \/ i \in 1..Len(pending) /\ pending'[i] = pending[i]
           \/ i = Len(pending') /\ pending'[i] = f
  BY AppendOutcome
<1> HIDE DEF f
\* What was appended before has a smaller number than the call that ends.
<1>3. ASSUME NEW s \in Seq(Functor), Appended(s)
      PROVE  \A i \in 1..Len(s) :
               /\ s[i][1] \in Threads /\ s[i][2] \in Nat
               /\ s[i][1] = t => s[i][2] < called[t]
               /\ s[i][2] <= called[s[i][1]]
               /\ op'[s[i][1]] = "push" => s[i][2] < called[s[i][1]]
  <2> SUFFICES ASSUME NEW i \in 1..Len(s)
               PROVE  /\ s[i][1] \in Threads /\ s[i][2] \in Nat
                      /\ s[i][1] = t => s[i][2] < called[t]
                      /\ s[i][2] <= called[s[i][1]]
                      /\ op'[s[i][1]] = "push" => s[i][2] < called[s[i][1]]
    OBVIOUS
  <2>1. s[i] \in Functor
    OBVIOUS
  <2>2. s[i][1] \in Threads /\ s[i][2] \in 1..MaxCalls
    BY <2>1, FunctorParts
  <2>3. QED
    BY <1>1, <1>3, <2>2 DEF Appended
<1>4. Appended(ran) /\ Appended(functors) /\ Appended(pending)
  BY DEF OrderInv
<1>5. Appended(ran)' /\ Appended(functors)'
  BY <1>1, <1>3, <1>4 DEF Appended
<1>6. Appended(pending)'
  <2> SUFFICES ASSUME NEW i \in 1..Len(pending')
               PROVE  /\ pending'[i][2] <= called[pending'[i][1]]
                      /\ op'[pending'[i][1]] = "push" =>
                           pending'[i][2] < called[pending'[i][1]]
    BY <1>1 DEF Appended
  <2>1. CASE i \in 1..Len(pending) /\ pending'[i] = pending[i]
    BY <1>3, <1>4, <2>1
  <2>2. CASE pending'[i] = f
    BY <1>1, <1>2, <2>2
  <2>3. QED
    BY <1>2, <2>1, <2>2
<1>7. InCallOrder(pending')
  <2> SUFFICES ASSUME NEW i \in 1..Len(pending'), NEW j \in 1..Len(pending'),
                      i < j, pending'[i][1] = pending'[j][1]
               PROVE  pending'[i][2] < pending'[j][2]
    BY DEF InCallOrder
  <2>1. Len(pending') \in Nat
    BY <1>2
  <2>2. i \in 1..Len(pending) /\ pending'[i] = pending[i]
    BY <1>2, <2>1
  <2>3. CASE j \in 1..Len(pending) /\ pending'[j] = pending[j]
    BY <2>2, <2>3 DEF OrderInv, InCallOrder
  <2>4. CASE pending'[j] = f
    BY <1>2, <1>3, <1>4, <2>2, <2>4
  <2>5. QED
    BY <1>2, <2>3, <2>4
<1>8. Precedes(ran, pending') /\ Precedes(functors, pending')
  BY <1>2, <1>3, <1>4 DEF OrderInv, Precedes
<1>9. QED
  BY <1>1, <1>5, <1>6, <1>7, <1>8 DEF OrderInv, InCallOrder, Precedes

LEMMA OrderSwap ==
  ASSUME TypeOK, PhaseInv, OrderInv, DoPendingFunctors
  PROVE  OrderInv'
<1>1. functors = <<>> /\ functors' = pending /\ pending' = <<>>
  BY DEF DoPendingFunctors, PhaseInv
<1>2. UNCHANGED <<ran, called, op>>
  BY DEF DoPendingFunctors
<1>3. QED
  BY <1>1, <1>2 DEF OrderInv, InCallOrder, Precedes, Appended

LEMMA OrderRun ==
  ASSUME TypeOK, OrderInv, RunFunctor
  PROVE  OrderInv'
<1> USE DEF TypeOK
<1>1. /\ functors # <<>>
      /\ ran' = Append(ran, functors[1]) /\ functors' = Tail(functors)
      /\ UNCHANGED <<pending, called, op>>
  BY DEF RunFunctor, queueVars
<1>2. /\ Len(ran') = Len(ran) + 1 /\ ran'[Len(ran) + 1] = functors[1]
      /\ \A i \in 1..Len(ran) : ran'[i] = ran[i]
  BY <1>1
<1>3. /\ Len(functors') = Len(functors) - 1
      /\ \A i \in 1..Len(functors') : functors'[i] = functors[i + 1]
      /\ Len(functors) >= 1
  BY <1>1
<1>4. InCallOrder(ran')
  <2> SUFFICES ASSUME NEW i \in 1..Len(ran'), NEW j \in 1..Len(ran'),
                      i < j, ran'[i][1] = ran'[j][1]
               PROVE  ran'[i][2] < ran'[j][2]
    BY DEF InCallOrder
  <2>1. i \in 1..Len(ran) /\ ran'[i] = ran[i]
    BY <1>2
  <2>2. CASE j \in 1..Len(ran)
    BY <1>2, <2>1, <2>2 DEF OrderInv, InCallOrder
  <2>3. CASE j = Len(ran) + 1
    <3>1. 1 \in 1..Len(functors) /\ ran'[j] = functors[1]
      BY <1>2, <1>3, <2>3
    <3>2. QED
      BY <2>1, <3>1 DEF OrderInv, Precedes
  <2>4. QED
    BY <1>2, <2>2, <2>3
<1>5. InCallOrder(functors')
  <2> SUFFICES ASSUME NEW i \in 1..Len(functors'), NEW j \in 1..Len(functors'),
                      i < j, functors'[i][1] = functors'[j][1]
               PROVE  functors'[i][2] < functors'[j][2]
    BY DEF InCallOrder
  <2>1. /\ functors'[i] = functors[i + 1] /\ functors'[j] = functors[j + 1]
        /\ i + 1 \in 1..Len(functors) /\ j + 1 \in 1..Len(functors) /\ i + 1 < j + 1
    BY <1>3
  <2>2. QED
    BY <2>1 DEF OrderInv, InCallOrder
<1>6. Precedes(ran', functors')
  <2> SUFFICES ASSUME NEW i \in 1..Len(ran'), NEW j \in 1..Len(functors'),
                      ran'[i][1] = functors'[j][1]
               PROVE  ran'[i][2] < functors'[j][2]
    BY DEF Precedes
  <2>1. /\ functors'[j] = functors[j + 1] /\ j + 1 \in 1..Len(functors)
        /\ 1 \in 1..Len(functors) /\ 1 < j + 1
    BY <1>3
  <2>2. CASE i \in 1..Len(ran)
    BY <1>2, <2>1, <2>2 DEF OrderInv, Precedes
  <2>3. CASE i = Len(ran) + 1
    BY <1>2, <2>1, <2>3 DEF OrderInv, InCallOrder
  <2>4. QED
    BY <1>2, <2>2, <2>3
<1>7. Precedes(ran', pending)
  <2> SUFFICES ASSUME NEW i \in 1..Len(ran'), NEW j \in 1..Len(pending),
                      ran'[i][1] = pending[j][1]
               PROVE  ran'[i][2] < pending[j][2]
    BY DEF Precedes
  <2>1. 1 \in 1..Len(functors)
    BY <1>3
  <2>2. CASE i \in 1..Len(ran)
    BY <1>2, <2>2 DEF OrderInv, Precedes
  <2>3. CASE i = Len(ran) + 1
    BY <1>2, <2>1, <2>3 DEF OrderInv, Precedes
  <2>4. QED
    BY <1>2, <2>2, <2>3
<1>8. Precedes(functors', pending)
  <2> SUFFICES ASSUME NEW i \in 1..Len(functors'), NEW j \in 1..Len(pending),
                      functors'[i][1] = pending[j][1]
               PROVE  functors'[i][2] < pending[j][2]
    BY DEF Precedes
  <2>1. functors'[i] = functors[i + 1] /\ i + 1 \in 1..Len(functors)
    BY <1>3
  <2>2. QED
    BY <2>1 DEF OrderInv, Precedes
<1>9. Appended(ran)' /\ Appended(functors)' /\ Appended(pending)'
  BY <1>1, <1>2, <1>3 DEF OrderInv, Appended
<1>10. QED
  BY <1>1, <1>4, <1>5, <1>6, <1>7, <1>8, <1>9 DEF OrderInv, InCallOrder, Precedes

LEMMA OrderNext == WakeIInv /\ OrderInv /\ [Next]_vars => OrderInv'
<1> USE ThreadAssumption, MaxCallsAssumption DEF WakeIInv
<1> SUFFICES ASSUME WakeIInv, OrderInv, [Next]_vars
             PROVE  OrderInv'
  OBVIOUS
<1>1. TypeOK'
  BY TypeNext
<1>2. ASSUME NEW t \in Threads, QueueInLoop(t)
      PROVE  OrderInv'
  <2>1. \A u \in Threads : IF u = t THEN called'[u] = called[u] + 1
                                    ELSE called'[u] = called[u] /\ op'[u] = op[u]
    BY <1>2 DEF QueueInLoop, TypeOK
  <2>2. UNCHANGED <<pending, functors, ran>>
    BY <1>2 DEF QueueInLoop
  <2>3. \A u \in Threads : called[u] \in Nat
    BY DEF TypeOK
  <2>4. QED
    BY <1>1, <2>1, <2>2, <2>3, OrderKept
<1>3. ASSUME NEW t \in Threads, Quit(t) \/ WakeUp(t) \/ Corrupt(t)
      PROVE  OrderInv'
  <2>1. /\ \A u \in Threads : op'[u] = "push" => op[u] = "push"
        /\ UNCHANGED <<called, pending, functors, ran>>
    BY <1>3 DEF Quit, WakeUp, Corrupt, TypeOK, queueVars
  <2>2. \A u \in Threads : called[u] \in Nat
    BY DEF TypeOK
  <2>3. QED
    BY <1>1, <2>1, <2>2, OrderKept
<1>4. ASSUME NEW t \in Threads, EmplaceBack(t)
      PROVE  OrderInv'
  BY <1>4, OrderAppend
<1>5. CASE DoPendingFunctors
  BY <1>5, OrderSwap
<1>6. CASE RunFunctor
  BY <1>6, OrderRun
<1>7. CASE UNCHANGED <<op, called, pending, functors, ran>>
  <2>1. \A u \in Threads : called[u] \in Nat
    BY DEF TypeOK
  <2>2. QED
    BY <1>1, <1>7, <2>1, OrderKept
<1>8. StartLoop \/ PollTimeout \/ CheckQuit \/ EpollWait \/ HandleRead
        \/ HandleEvents \/ FunctorReturns \/ EndPendingFunctors \/ UNCHANGED vars
      => UNCHANGED <<op, called, pending, functors, ran>>
  BY DEF StartLoop, PollTimeout, CheckQuit, EpollWait, HandleRead, HandleEvents,
         FunctorReturns, EndPendingFunctors, vars, queueVars
<1>9. QED
  BY <1>2, <1>3, <1>4, <1>5, <1>6, <1>7, <1>8 DEF Next, LoopStep, FinishCall

\* The strengthened invariant of the whole loop.
THEOREM Invariance == Spec => []IInv
<1>1. Init => WakeIInv
  BY WakeInit
<1>2. Init => OrderInv
  BY DEF Init, OrderInv, InCallOrder, Precedes, Appended
<1>3. IInv /\ [Next]_vars => IInv'
  BY WakeNext, OrderNext DEF IInv
<1>4. QED
  BY <1>1, <1>2, <1>3, PTL DEF Spec, IInv

\* However calls overlap, nest and race, the functors of one thread run at
\* most once and in the order of its QueueInLoop calls.
THEOREM OrderCorrect == Spec => []RunInCallOrder
<1>1. IInv => RunInCallOrder
  BY DEF IInv, OrderInv, InCallOrder, RunInCallOrder
<1>2. QED
  BY <1>1, Invariance, PTL

-----------------------------------------------------------------------------
(***************************************************************************)
(* The loop implements Executor.                                           *)
(***************************************************************************)
\* The functor whose append ends is nowhere in the loop yet.
LEMMA AppendIsFresh ==
  ASSUME TypeOK, OrderInv, NEW t \in Threads, op[t] = "push"
  PROVE  Promise!Fresh(<<t, called[t]>>)
<1> USE MaxCallsAssumption DEF TypeOK
<1> DEFINE f == <<t, called[t]>>
<1>1. ASSUME NEW s \in Seq(Functor), Appended(s)
      PROVE  \A i \in 1..Len(s) : s[i] # f
  <2> SUFFICES ASSUME NEW i \in 1..Len(s), s[i] = f
               PROVE  FALSE
    OBVIOUS
  <2>1. s[i][1] = t /\ s[i][2] = called[t] /\ called[t] \in Nat
    OBVIOUS
  <2>2. QED
    BY <1>1, <2>1 DEF Appended
<1> HIDE DEF f
<1>2. \A i \in 1..Len(ran) : ran[i] # f
  BY <1>1 DEF OrderInv
<1>3. \A i \in 1..Len(functors \o pending) : (functors \o pending)[i] # f
  <2>1. /\ \A i \in 1..Len(functors) : functors[i] # f
        /\ \A i \in 1..Len(pending) : pending[i] # f
    BY <1>1 DEF OrderInv
  <2>2. QED
    BY <2>1, ConcatProperties
<1>4. QED
  BY <1>2, <1>3 DEF Promise!Fresh, Promise!Occurs, f

\* Replacing the last functor of the vector replaces the last that waits.
LEMMA ConcatExcept ==
  ASSUME NEW S, NEW s \in Seq(S), NEW u \in Seq(S), NEW e \in S, u # <<>>
  PROVE  s \o [u EXCEPT ![Len(u)] = e] = [s \o u EXCEPT ![Len(s \o u)] = e]
<1> DEFINE c == s \o u
           v == [u EXCEPT ![Len(u)] = e]
           w == [c EXCEPT ![Len(c)] = e]
<1>1. /\ v \in Seq(S) /\ Len(v) = Len(u)
      /\ \A j \in 1..Len(u) : v[j] = IF j = Len(u) THEN e ELSE u[j]
  <2>1. Len(u) \in 1..Len(u)
    OBVIOUS
  <2>2. QED
    BY <2>1, ExceptSeq
<1>2. /\ c \in Seq(S) /\ Len(c) = Len(s) + Len(u)
      /\ \A j \in 1..Len(s) + Len(u) : c[j] = IF j <= Len(s) THEN s[j] ELSE u[j - Len(s)]
  BY ConcatProperties
<1> HIDE DEF c, v
<1>3. /\ w \in Seq(S) /\ Len(w) = Len(c)
      /\ \A j \in 1..Len(c) : w[j] = IF j = Len(c) THEN e ELSE c[j]
  <2>1. Len(c) \in 1..Len(c)
    BY <1>2
  <2>2. QED
    BY <1>2, <2>1, ExceptSeq
<1> HIDE DEF w
<1>4. /\ s \o v \in Seq(S) /\ Len(s \o v) = Len(s) + Len(v)
      /\ \A j \in 1..Len(s) + Len(v) :
           (s \o v)[j] = IF j <= Len(s) THEN s[j] ELSE v[j - Len(s)]
  BY <1>1, ConcatProperties
<1>5. ASSUME NEW j \in 1..Len(s) + Len(u)
      PROVE  (s \o v)[j] = w[j]
  <2>1. CASE j <= Len(s)
    BY <1>1, <1>2, <1>3, <1>4, <2>1
  <2>2. CASE j > Len(s) /\ j < Len(s) + Len(u)
    <3>1. j - Len(s) \in 1..Len(u) /\ j - Len(s) # Len(u)
      BY <2>2
    <3>2. (s \o v)[j] = u[j - Len(s)]
      BY <1>1, <1>4, <2>2, <3>1
    <3>3. w[j] = u[j - Len(s)]
      BY <1>2, <1>3, <2>2
    <3>4. QED
      BY <3>2, <3>3
  <2>3. CASE j = Len(s) + Len(u)
    <3>1. Len(u) \in 1..Len(u) /\ j - Len(s) = Len(u) /\ j > Len(s)
      BY <2>3
    <3>2. QED
      BY <1>1, <1>2, <1>3, <1>4, <2>3, <3>1
  <2>4. Len(s) \in Nat /\ Len(u) \in Nat
    OBVIOUS
  <2>5. j <= Len(s) \/ (j > Len(s) /\ j < Len(s) + Len(u)) \/ j = Len(s) + Len(u)
    BY <2>4
  <2>6. QED
    BY <2>1, <2>2, <2>3, <2>5
<1>6. s \o v = w
  <2>1. Len(s \o v) = Len(w) /\ Len(s \o v) = Len(s) + Len(u)
    BY <1>1, <1>2, <1>3, <1>4
  <2>2. \A j \in 1..Len(s \o v) : (s \o v)[j] = w[j]
    BY <1>5, <2>1
  <2>3. QED
    BY <1>3, <1>4, <2>1, <2>2, SeqEqual
<1>7. QED
  BY <1>6 DEF c, v, w

LEMMA AppendRefines ==
  ASSUME TypeOK, CallInv, OrderInv, NEW t \in Threads, EmplaceBack(t)
  PROVE  [Promise!Next]_(Promise!vars)
<1> USE DEF TypeOK
<1> DEFINE f == <<t, called[t]>>
<1>1. f \in Functor /\ Promise!Fresh(f)
  BY AppendOutcome, AppendIsFresh DEF EmplaceBack
<1>2. UNCHANGED <<functors, ran>>
  BY DEF EmplaceBack
<1> HIDE DEF f
<1>3. CASE pending' = Append(pending, f)
  <2>1. functors \o Append(pending, f) = Append(functors \o pending, f)
    BY <1>1
  <2>2. Promise!Accept(f)
    BY <1>1, <1>2, <1>3, <2>1 DEF Promise!Accept
  <2>3. QED
    BY <1>1, <2>2 DEF Promise!Next
<1>4. CASE pending' = pending
  BY <1>2, <1>4 DEF Promise!vars
<1>5. CASE pending # <<>> /\ pending' = [pending EXCEPT ![Len(pending)] = f]
  <2>1. functors \o pending' = [functors \o pending EXCEPT ![Len(functors \o pending)] = f]
    BY <1>1, <1>5, ConcatExcept
  <2>2. functors \o pending # <<>>
    <3>1. Len(functors \o pending) = Len(functors) + Len(pending)
      BY ConcatProperties
    <3>2. Len(pending) > 0
      BY <1>5
    <3>3. QED
      BY <3>1, <3>2
  <2>3. Promise!Displace(f)
    BY <1>1, <1>2, <2>1, <2>2 DEF Promise!Displace
  <2>4. QED
    BY <1>1, <2>3 DEF Promise!Next
<1>6. QED
  BY <1>3, <1>4, <1>5 DEF EmplaceBack, f

LEMMA RunRefines ==
  ASSUME TypeOK, RunFunctor
  PROVE  Promise!Run
<1> USE DEF TypeOK
<1>1. /\ functors # <<>> /\ ran' = Append(ran, Head(functors))
      /\ functors' = Tail(functors) /\ pending' = pending
  BY DEF RunFunctor, queueVars
<1>2. functors \o pending # <<>>
  <2>1. Len(functors \o pending) = Len(functors) + Len(pending)
    BY ConcatProperties
  <2>2. Len(functors) > 0
    BY <1>1
  <2>3. QED
    BY <2>1, <2>2
<1>3. Head(functors \o pending) = Head(functors)
  BY <1>1
<1>4. Tail(functors \o pending) = Tail(functors) \o pending
  BY <1>1
<1>5. QED
  BY <1>1, <1>2, <1>3, <1>4 DEF Promise!Run

\* QueueInLoop and DoPendingFunctors run what they are given one at a time
\* and in the order in which it was accepted.
THEOREM Refinement == Spec => IsExecutor
<1>1. Init => Promise!Init
  BY DEF Init, Promise!Init
<1>2. IInv /\ [Next]_vars => [Promise!Next]_(Promise!vars)
  <2> SUFFICES ASSUME IInv, [Next]_vars
               PROVE  [Promise!Next]_(Promise!vars)
    OBVIOUS
  <2> USE DEF IInv, WakeIInv
  <2>1. ASSUME NEW t \in Threads, EmplaceBack(t)
        PROVE  [Promise!Next]_(Promise!vars)
    BY <2>1, AppendRefines
  <2>2. CASE RunFunctor
    BY <2>2, RunRefines DEF Promise!Next
  <2>3. CASE DoPendingFunctors
    <3>1. /\ functors = <<>> /\ functors' = pending /\ pending' = <<>>
          /\ ran' = ran /\ pending \in Seq(Functor)
      BY <2>3 DEF DoPendingFunctors, PhaseInv, TypeOK
    <3>2. functors' \o pending' = functors \o pending
      BY <3>1
    <3>3. QED
      BY <3>1, <3>2 DEF Promise!vars
  <2>4. CASE UNCHANGED <<pending, functors, ran>>
    BY <2>4 DEF Promise!vars
  <2>5. (\E t \in Threads : QueueInLoop(t) \/ Quit(t) \/ WakeUp(t) \/ Corrupt(t))
          => UNCHANGED <<pending, functors, ran>>
    BY DEF QueueInLoop, Quit, WakeUp, Corrupt, queueVars
  <2>6. StartLoop \/ PollTimeout \/ CheckQuit \/ EpollWait \/ HandleRead
          \/ HandleEvents \/ FunctorReturns \/ EndPendingFunctors \/ UNCHANGED vars
        => UNCHANGED <<pending, functors, ran>>
    BY DEF StartLoop, PollTimeout, CheckQuit, EpollWait, HandleRead, HandleEvents,
           FunctorReturns, EndPendingFunctors, vars, queueVars
  <2>7. QED
    BY <2>1, <2>2, <2>3, <2>4, <2>5, <2>6 DEF Next, LoopStep, FinishCall
<1>3. QED
  BY <1>1, <1>2, Invariance, PTL DEF Spec, IsExecutor, Promise!Spec
=============================================================================
