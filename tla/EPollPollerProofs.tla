------------------------- MODULE EPollPollerProofs -------------------------
(***************************************************************************)
(* What is proved of EPollPoller, for any number of channels, descriptors  *)
(* and events.                                                             *)
(***************************************************************************)
EXTENDS EPollPoller, FiniteSetTheorems, TLAPS

\* What epoll_ctl does when it succeeds, for a channel c of the descriptor f
\* that now wants e.
LEMMA AddSucceeds ==
  ASSUME NEW f \in Fds, NEW c, NEW e, entry[f] = None, EpollAdd(f, c, e)
  PROVE  /\ entry' = [entry EXCEPT ![f] = c]
         /\ interest' = [interest EXCEPT ![f] = e]
         /\ ready' = IF Offers(f, e) THEN ready \cup {f} ELSE ready
         /\ failed' = failed
BY DEF EpollAdd

LEMMA ModifySucceeds ==
  ASSUME NEW f \in Fds, NEW c, NEW e, entry[f] # None, EpollModify(f, c, e)
  PROVE  /\ entry' = [entry EXCEPT ![f] = c]
         /\ interest' = [interest EXCEPT ![f] = e]
         /\ ready' = IF Offers(f, e) THEN ready \cup {f} ELSE ready
         /\ failed' = failed
BY DEF EpollModify

LEMMA DeleteSucceeds ==
  ASSUME NEW f \in Fds, entry[f] # None, EpollDelete(f)
  PROVE  /\ entry' = [entry EXCEPT ![f] = None]
         /\ interest' = [interest EXCEPT ![f] = {}]
         /\ ready' = ready \ {f}
         /\ failed' = failed
BY DEF EpollDelete

\* A channel that exists has one of the descriptors, and what the epoll set
\* and the map hold under it is that channel or nothing.
LEMMA ViewOfChannel ==
  ASSUME IInv, NEW c \in Channels, Exists(c)
  PROVE  /\ fd[c] \in Fds
         /\ entry[fd[c]] = IF index[c] = "Added" THEN c ELSE None
         /\ channels[fd[c]] = IF index[c] = "New" THEN None ELSE c
<1> USE NoneAssumption DEF IInv, TypeOK, OwnFds, ViewsAgree, HasChannel, Exists
<1>1. fd[c] \in Fds
  OBVIOUS
<1>2. entry[fd[c]] # None => entry[fd[c]] = c
  BY <1>1
<1>3. channels[fd[c]] # None => channels[fd[c]] = c
  BY <1>1
<1>4. QED
  BY <1>1, <1>2, <1>3

\* A call that puts an entry into the epoll set, or changes it, keeps the
\* invariant: the views agree on the new interest, and what it lets through
\* comes onto the ready list.
LEMMA EntrySet ==
  ASSUME IInv, NEW c \in Channels, NEW e \in SUBSET Interests, Exists(c),
         phase = "functors" \/ phase = "callbacks",
         events' = [events EXCEPT ![c] = e],
         index' = [index EXCEPT ![c] = "Added"],
         channels' = [channels EXCEPT ![fd[c]] = c],
         entry' = [entry EXCEPT ![fd[c]] = c],
         interest' = [interest EXCEPT ![fd[c]] = e],
         ready' = IF Offers(fd[c], e) THEN ready \cup {fd[c]} ELSE ready,
         UNCHANGED <<fd, size, active, phase, condition, fresh, failed>>
  PROVE  IInv'
<1> USE NoneAssumption DEF IInv, TypeOK, Exists
<1>1. fd[c] \in Fds
  OBVIOUS
<1>2. TypeOK'
  BY <1>1
<1>3. OwnFds' /\ ListInv'
  BY <1>1 DEF OwnFds, ListInv
<1>4. ViewsAgree'
  BY <1>1 DEF ViewsAgree, HasChannel, OwnFds
<1>5. CtlSucceeds' /\ ActiveAreRegistered'
  BY DEF CtlSucceeds, ActiveAreRegistered
<1>6. NoLostEvent'
  <2> SUFFICES ASSUME NEW f \in Fds, entry'[f] # None, (Reportable(f) \cap fresh[f])' # {}
               PROVE  f \in ready'
    BY DEF NoLostEvent
  <2>1. CASE f = fd[c]
    BY <1>1, <2>1 DEF Reportable, Offers
  <2>2. CASE f # fd[c]
    BY <1>1, <2>2 DEF Reportable, NoLostEvent
  <2>3. QED
    BY <2>1, <2>2
<1>7. QED
  BY <1>2, <1>3, <1>4, <1>5, <1>6

\* A call that takes the entry out of the epoll set keeps the invariant.
LEMMA EntryGone ==
  ASSUME IInv, NEW c \in Channels, NEW e \in SUBSET Interests, Exists(c),
         NEW i \in {"New", "Deleted"},
         active = {} \/ i = "Deleted",
         events' = [events EXCEPT ![c] = e],
         index' = [index EXCEPT ![c] = i],
         channels' = [channels EXCEPT ![fd[c]] = IF i = "New" THEN None ELSE c],
         entry' = [entry EXCEPT ![fd[c]] = None],
         interest' = [interest EXCEPT ![fd[c]] = {}],
         ready' = ready \ {fd[c]},
         UNCHANGED <<fd, size, active, phase, condition, fresh, failed>>
  PROVE  IInv'
<1> USE NoneAssumption DEF IInv, TypeOK, Exists
<1>1. fd[c] \in Fds
  OBVIOUS
<1>2. TypeOK'
  BY <1>1
<1>3. OwnFds' /\ ListInv'
  BY <1>1 DEF OwnFds, ListInv
<1>4. ViewsAgree'
  BY <1>1 DEF ViewsAgree, HasChannel, OwnFds
<1>5. CtlSucceeds' /\ ActiveAreRegistered'
  BY DEF CtlSucceeds, ActiveAreRegistered
<1>6. NoLostEvent'
  BY <1>1 DEF NoLostEvent, Reportable
<1>7. QED
  BY <1>2, <1>3, <1>4, <1>5, <1>6

LEMMA ChannelCallKeeps ==
  ASSUME IInv, NEW c \in Channels, NEW e \in SUBSET Interests, ChannelCall(c, e)
  PROVE  IInv'
<1>1. /\ Exists(c) /\ (phase = "functors" \/ phase = "callbacks")
      /\ UpdateChannel(c, e)
      /\ UNCHANGED <<fd, size, active, phase, condition, fresh>>
  BY DEF ChannelCall, MayCall
<1>2. /\ fd[c] \in Fds
      /\ entry[fd[c]] = IF index[c] = "Added" THEN c ELSE None
      /\ channels[fd[c]] = IF index[c] = "New" THEN None ELSE c
  BY <1>1, ViewOfChannel
<1>3. c # None
  BY NoneAssumption
<1>4. /\ channels \in [Fds -> Channels \cup {None}]
      /\ index \in [Channels -> {"New", "Added", "Deleted"}]
  BY DEF IInv, TypeOK
<1>5. CASE index[c] = "Added" /\ e = {}
  <2>1. /\ EpollDelete(fd[c])
        /\ events' = [events EXCEPT ![c] = e]
        /\ index' = [index EXCEPT ![c] = "Deleted"]
        /\ UNCHANGED channels
    BY <1>1, <1>5 DEF UpdateChannel
  <2>2. channels' = [channels EXCEPT ![fd[c]] = IF "Deleted" = "New" THEN None ELSE c]
    BY <1>2, <1>4, <1>5, <2>1
  <2>3. QED
    BY <1>1, <1>2, <1>3, <1>5, <2>1, <2>2, DeleteSucceeds, EntryGone
<1>6. CASE index[c] = "Added" /\ e # {}
  <2>1. /\ EpollModify(fd[c], c, e)
        /\ events' = [events EXCEPT ![c] = e]
        /\ UNCHANGED <<channels, index>>
    BY <1>1, <1>6 DEF UpdateChannel
  <2>2. /\ channels' = [channels EXCEPT ![fd[c]] = c]
        /\ index' = [index EXCEPT ![c] = "Added"]
    BY <1>2, <1>4, <1>6, <2>1
  <2>3. /\ entry' = [entry EXCEPT ![fd[c]] = c]
        /\ interest' = [interest EXCEPT ![fd[c]] = e]
        /\ ready' = IF Offers(fd[c], e) THEN ready \cup {fd[c]} ELSE ready
        /\ failed' = failed
    BY <1>2, <1>3, <1>6, <2>1, ModifySucceeds
  <2>4. QED
    BY <1>1, <2>1, <2>2, <2>3, EntrySet
<1>7. CASE index[c] # "Added"
  <2>1. /\ EpollAdd(fd[c], c, e)
        /\ events' = [events EXCEPT ![c] = e]
        /\ index' = [index EXCEPT ![c] = "Added"]
        /\ channels' = IF index[c] = "New"
                       THEN [channels EXCEPT ![fd[c]] = c] ELSE channels
    BY <1>1, <1>7 DEF UpdateChannel
  <2>2. channels' = [channels EXCEPT ![fd[c]] = c]
    BY <1>2, <1>4, <1>7, <2>1
  <2>3. /\ entry' = [entry EXCEPT ![fd[c]] = c]
        /\ interest' = [interest EXCEPT ![fd[c]] = e]
        /\ ready' = IF Offers(fd[c], e) THEN ready \cup {fd[c]} ELSE ready
        /\ failed' = failed
    BY <1>2, <1>7, <2>1, AddSucceeds
  <2>4. QED
    BY <1>1, <2>1, <2>2, <2>3, EntrySet
<1>8. QED
  BY <1>5, <1>6, <1>7

LEMMA RemoveKeeps ==
  ASSUME IInv, NEW c \in Channels, Remove(c)
  PROVE  IInv'
<1>1. /\ Exists(c) /\ phase = "functors"
      /\ RemoveChannel(c)
      /\ UNCHANGED <<fd, events, size, active, phase, condition, fresh>>
  BY DEF Remove
<1>2. /\ fd[c] \in Fds
      /\ entry[fd[c]] = IF index[c] = "Added" THEN c ELSE None
  BY <1>1, ViewOfChannel
<1>3. c # None /\ active = {}
  BY <1>1, NoneAssumption DEF IInv, ListInv
<1>4. /\ channels' = [channels EXCEPT ![fd[c]] = None]
      /\ index' = [index EXCEPT ![c] = "New"]
  BY <1>1 DEF RemoveChannel
<1>5. CASE index[c] = "Added"
  <2>1. EpollDelete(fd[c])
    BY <1>1, <1>5 DEF RemoveChannel
  <2>2. /\ events' = [events EXCEPT ![c] = events[c]]
        /\ events[c] \in SUBSET Interests
    BY <1>1 DEF IInv, TypeOK
  <2>3. channels' = [channels EXCEPT ![fd[c]] = IF "New" = "New" THEN None ELSE c]
    BY <1>4
  <2>4. /\ entry' = [entry EXCEPT ![fd[c]] = None]
        /\ interest' = [interest EXCEPT ![fd[c]] = {}]
        /\ ready' = ready \ {fd[c]}
        /\ failed' = failed
    BY <1>2, <1>3, <1>5, <2>1, DeleteSucceeds
  <2>5. "New" \in {"New", "Deleted"}
    OBVIOUS
  <2>6. QED
    BY <1>1, <1>3, <1>4, <2>2, <2>3, <2>4, <2>5, EntryGone
<1>6. CASE index[c] # "Added"
  <2>1. UNCHANGED <<entry, interest, ready, failed>>
    BY <1>1, <1>6 DEF RemoveChannel, kernelVars
  <2>2. TypeOK' /\ OwnFds' /\ ListInv' /\ CtlSucceeds' /\ ActiveAreRegistered'
    BY <1>1, <1>2, <1>3, <1>4, <2>1
       DEF IInv, TypeOK, OwnFds, ListInv, CtlSucceeds, ActiveAreRegistered, Exists
  <2>3. ViewsAgree'
    BY <1>1, <1>2, <1>3, <1>4, <1>6, <2>1, NoneAssumption
       DEF IInv, TypeOK, ViewsAgree, HasChannel, OwnFds, Exists
  <2>4. NoLostEvent'
    BY <1>1, <2>1 DEF IInv, NoLostEvent, Reportable
  <2>5. QED
    BY <2>2, <2>3, <2>4 DEF IInv
<1>7. QED
  BY <1>5, <1>6

\* epoll_wait: each entry leads to its own channel, so what is taken off the
\* list is in the active channels, and the rest stays on it.
LEMMA PollKeeps ==
  ASSUME IInv, NEW reported \in SUBSET Fds, Poll(reported)
  PROVE  IInv'
<1> USE NoneAssumption DEF IInv, TypeOK
<1>1. /\ reported \subseteq ReadyFds
      /\ active' = {entry[f] : f \in reported}
      /\ phase = "poll" /\ phase' = "callbacks"
      /\ fresh' = [f \in Fds |-> IF entry[f] \in active'
                                 THEN fresh[f] \ Reportable(f) ELSE fresh[f]]
      /\ ready' = (ReadyFds \ reported) \cup {f \in reported : "in" \notin interest[f]}
      /\ size' = IF Cardinality(reported) = size THEN size * 2 ELSE size
      /\ UNCHANGED <<fd, events, index, channels, entry, interest, condition, failed>>
  BY DEF Poll, FillActiveChannels, GrowEvents
<1>2. \A f \in reported : /\ f \in ready /\ entry[f] \in Channels
                          /\ fd[entry[f]] = f /\ index[entry[f]] = "Added"
  BY <1>1 DEF ReadyFds, ListInv, ViewsAgree, Exists
<1>3. active' \subseteq Channels
  BY <1>1, <1>2
<1>4. TypeOK'
  <2>1. size' \in Nat \ {0}
    BY <1>1
  <2>2. ready' \subseteq Fds
    BY <1>1 DEF ReadyFds
  <2>3. fresh' \in [Fds -> SUBSET Conditions]
    BY <1>1
  <2>4. QED
    BY <1>1, <1>3, <2>1, <2>2, <2>3
<1>5. OwnFds' /\ ViewsAgree' /\ CtlSucceeds'
  BY <1>1 DEF OwnFds, ViewsAgree, CtlSucceeds, HasChannel, Exists
<1>6. ListInv'
  BY <1>1, <1>2 DEF ListInv, ReadyFds
<1>7. ActiveAreRegistered'
  BY <1>1, <1>2 DEF ActiveAreRegistered, Exists
<1>8. NoLostEvent'
  <2> SUFFICES ASSUME NEW f \in Fds, entry[f] # None, Reportable(f) \cap fresh'[f] # {}
               PROVE  f \in ready'
    BY <1>1 DEF NoLostEvent, Reportable
  <2>1. entry[f] \notin active' /\ fresh'[f] = fresh[f]
    BY <1>1
  <2>2. f \notin reported
    BY <1>1, <2>1
  <2>3. f \in ReadyFds
    BY <2>1 DEF NoLostEvent, ReadyFds
  <2>4. QED
    BY <1>1, <2>2, <2>3
<1>9. QED
  BY <1>4, <1>5, <1>6, <1>7, <1>8

LEMMA InvInit == Init => IInv
<1> SUFFICES ASSUME Init PROVE IInv
  OBVIOUS
<1> USE DEF Init, Exists
<1>1. TypeOK
  BY SizeAssumption DEF TypeOK, Interests, Conditions
<1>2. OwnFds /\ ListInv /\ CtlSucceeds /\ ActiveAreRegistered
  BY DEF OwnFds, ListInv, CtlSucceeds, ActiveAreRegistered
<1>3. ViewsAgree /\ NoLostEvent
  BY NoneAssumption DEF ViewsAgree, NoLostEvent, HasChannel
<1> QED BY <1>1, <1>2, <1>3 DEF IInv

LEMMA InvNext == IInv /\ [Next]_vars => IInv'
<1> SUFFICES ASSUME IInv, [Next]_vars PROVE IInv'
  OBVIOUS
<1> USE NoneAssumption
<1>1. CASE UNCHANGED vars
  BY <1>1 DEF IInv, TypeOK, OwnFds, ListInv, ViewsAgree, CtlSucceeds, NoLostEvent,
              ActiveAreRegistered, Exists, HasChannel, Reportable, vars,
              channelVars, pollerVars, kernelVars
<1>2. ASSUME NEW c \in Channels, Call(c) PROVE IInv'
  <2>1. events[c] \in SUBSET Interests
    BY DEF IInv, TypeOK
  <2>2. ASSUME NEW e \in SUBSET Interests, ChannelCall(c, e) PROVE IInv'
    BY <2>2, ChannelCallKeeps
  <2>3. CASE Remove(c)
    BY <2>3, RemoveKeeps
  <2>4. {"in"} \in SUBSET Interests /\ {"out"} \in SUBSET Interests
    BY DEF Interests
  <2>5. QED
    BY <1>2, <2>1, <2>2, <2>3, <2>4
       DEF Call, EnableReading, DisableReading, EnableWriting, DisableWriting, DisableAll
<1>3. ASSUME NEW c \in Channels, NEW f \in Fds, Create(c, f) PROVE IInv'
  <2>1. /\ fd[c] = None /\ \A d \in Channels : fd[d] # f
        /\ fd' = [fd EXCEPT ![c] = f]
        /\ events' = [events EXCEPT ![c] = {}]
        /\ index' = [index EXCEPT ![c] = "New"]
        /\ UNCHANGED <<channels, size, active, phase, entry, interest, ready,
                       condition, fresh, failed>>
    BY <1>3 DEF Create, Exists, pollerVars, kernelVars
  <2>2. entry[f] = None /\ channels[f] = None
    BY <2>1 DEF IInv, TypeOK, ViewsAgree
  <2>3. \A g \in Fds : entry[g] # c /\ channels[g] # c
    BY <2>1 DEF IInv, TypeOK, ViewsAgree
  <2>4. TypeOK' /\ OwnFds' /\ ListInv' /\ CtlSucceeds' /\ ActiveAreRegistered'
    BY <2>1 DEF IInv, TypeOK, OwnFds, ListInv, CtlSucceeds, ActiveAreRegistered, Exists
  <2>5. ViewsAgree'
    BY <2>1, <2>2, <2>3 DEF IInv, TypeOK, ViewsAgree, HasChannel, Exists
  <2>6. NoLostEvent'
    BY <2>1 DEF IInv, NoLostEvent, Reportable
  <2>7. QED
    BY <2>4, <2>5, <2>6 DEF IInv
<1>4. ASSUME NEW c \in Channels, Destroy(c) PROVE IInv'
  <2>1. /\ Exists(c) /\ index[c] = "New"
        /\ fd' = [fd EXCEPT ![c] = None]
        /\ entry' = [entry EXCEPT ![fd[c]] = None]
        /\ interest' = [interest EXCEPT ![fd[c]] = {}]
        /\ ready' = ready \ {fd[c]}
        /\ condition' = [condition EXCEPT ![fd[c]] = {}]
        /\ fresh' = [fresh EXCEPT ![fd[c]] = {}]
        /\ events' = [events EXCEPT ![c] = {}]
        /\ UNCHANGED <<index, channels, size, active, phase, failed>>
    BY <1>4 DEF Destroy, pollerVars
  <2>2. /\ fd[c] \in Fds /\ entry[fd[c]] = None /\ channels[fd[c]] = None
        /\ c # None
    BY <2>1, ViewOfChannel
  <2>3. TypeOK' /\ OwnFds' /\ ListInv' /\ CtlSucceeds' /\ ActiveAreRegistered'
    BY <2>1, <2>2 DEF IInv, TypeOK, OwnFds, ListInv, CtlSucceeds, ActiveAreRegistered, Exists
  <2>4. ViewsAgree'
    BY <2>1, <2>2 DEF IInv, TypeOK, ViewsAgree, HasChannel, OwnFds, Exists
  <2>5. NoLostEvent'
    BY <2>1, <2>2 DEF IInv, TypeOK, NoLostEvent, Reportable
  <2>6. QED
    BY <2>3, <2>4, <2>5 DEF IInv
<1>5. ASSUME NEW f \in Fds, NEW e \in Conditions, Happens(f, e) PROVE IInv'
  <2>1. /\ condition' = [condition EXCEPT ![f] = @ \cup {e}]
        /\ fresh' = [fresh EXCEPT ![f] = @ \cup {e}]
        /\ ready' = IF entry[f] # None /\ e \in interest[f] \cup {"hup"}
                    THEN ready \cup {f} ELSE ready
        /\ UNCHANGED <<fd, events, index, channels, size, active, phase, entry,
                       interest, failed>>
    BY <1>5 DEF Happens, channelVars, pollerVars
  <2>2. TypeOK' /\ OwnFds' /\ ListInv' /\ CtlSucceeds' /\ ActiveAreRegistered'
    BY <2>1 DEF IInv, TypeOK, OwnFds, ListInv, CtlSucceeds, ActiveAreRegistered, Exists
  <2>3. ViewsAgree'
    BY <2>1 DEF IInv, ViewsAgree, HasChannel, Exists
  <2>4. NoLostEvent'
    BY <2>1 DEF IInv, TypeOK, NoLostEvent, Reportable
  <2>5. QED
    BY <2>2, <2>3, <2>4 DEF IInv
<1>6. ASSUME NEW c \in Channels, HandleEvent(c) PROVE IInv'
  <2>1. /\ active' = active \ {c} /\ phase = "callbacks" /\ c \in active
        /\ UNCHANGED <<fd, events, index, channels, size, phase, entry, interest,
                       ready, failed>>
    BY <1>6 DEF HandleEvent, channelVars, kernelVars
  <2>2. PICK used \in SUBSET Interests :
          /\ condition' = [condition EXCEPT ![fd[c]] = @ \ used]
          /\ fresh' = [fresh EXCEPT ![fd[c]] = @ \ used]
    BY <1>6 DEF HandleEvent
  <2>3. fd[c] \in Fds
    BY <2>1 DEF IInv, TypeOK, ActiveAreRegistered, Exists
  <2>4. TypeOK' /\ OwnFds' /\ ListInv' /\ CtlSucceeds' /\ ActiveAreRegistered'
    BY <2>1, <2>2, <2>3 DEF IInv, TypeOK, OwnFds, ListInv, CtlSucceeds, ActiveAreRegistered, Exists
  <2>5. ViewsAgree'
    BY <2>1 DEF IInv, ViewsAgree, HasChannel, Exists
  <2>6. NoLostEvent'
    BY <2>1, <2>2, <2>3 DEF IInv, TypeOK, NoLostEvent, Reportable
  <2>7. QED
    BY <2>4, <2>5, <2>6 DEF IInv
<1>7. ASSUME NEW reported \in SUBSET Fds, Poll(reported) PROVE IInv'
  BY <1>7, PollKeeps
<1>8. CASE DoPendingFunctors \/ NextIteration
  BY <1>8 DEF DoPendingFunctors, NextIteration, IInv, TypeOK, OwnFds, ListInv,
              ViewsAgree, CtlSucceeds, NoLostEvent, ActiveAreRegistered, Exists,
              HasChannel, Reportable, channelVars, kernelVars
<1>9. QED
  BY <1>1, <1>2, <1>3, <1>4, <1>5, <1>6, <1>7, <1>8 DEF Next, LoopStep

\* Index, interest and array keep their types (Channel.hpp, EPollPoller.cpp:17).
THEOREM TypeCorrect == Spec => []TypeOK
<1>1. IInv => TypeOK
  BY DEF IInv
<1>2. QED
  BY <1>1, InvInit, InvNext, PTL DEF Spec

\* The index, the map of the poller, the epoll set and the interests agree
\* in every reachable state, for any number of channels and descriptors.
THEOREM ViewsCorrect == Spec => []ViewsAgree
<1>1. IInv => ViewsAgree
  BY DEF IInv
<1>2. QED
  BY <1>1, InvInit, InvNext, PTL DEF Spec

\* No call of epoll_ctl ever fails (Update, EPollPoller.cpp:96).
THEOREM CtlCorrect == Spec => []CtlSucceeds
<1>1. IInv => CtlSucceeds
  BY DEF IInv
<1>2. QED
  BY <1>1, InvInit, InvNext, PTL DEF Spec

\* No event is lost, whatever is enabled and disabled in between and however
\* small _events is.
THEOREM EventsCorrect == Spec => []NoLostEvent
<1>1. IInv => NoLostEvent
  BY DEF IInv
<1>2. QED
  BY <1>1, InvInit, InvNext, PTL DEF Spec

\* No channel is removed while the loop has still to handle its event.
THEOREM ActiveCorrect == Spec => []ActiveAreRegistered
<1>1. IInv => ActiveAreRegistered
  BY DEF IInv
<1>2. QED
  BY <1>1, InvInit, InvNext, PTL DEF Spec

\* The array of events stays within twice the number of descriptors (Poll,
\* EPollPoller.cpp:66).
THEOREM ArrayCorrect == Spec => []ArrayIsBounded
<1>1. Init => ArrayIsBounded
  <2>1. Init => size = InitEventListSize
    BY DEF Init
  <2>2. QED
    BY <2>1, SizeAssumption DEF ArrayIsBounded
<1>2. IInv /\ ArrayIsBounded /\ [Next]_vars => ArrayIsBounded'
  <2> SUFFICES ASSUME IInv, ArrayIsBounded, [Next]_vars PROVE ArrayIsBounded'
    OBVIOUS
  <2>1. CASE UNCHANGED size
    BY <2>1 DEF ArrayIsBounded
  <2>2. ASSUME NEW reported \in SUBSET Fds, Poll(reported) PROVE ArrayIsBounded'
    <3>1. /\ Cardinality(reported) \in Nat /\ Cardinality(Fds) \in Nat
          /\ Cardinality(reported) <= Cardinality(Fds)
      BY FdsAssumption, FS_Subset, FS_CardinalityType
    <3>2. size' = IF Cardinality(reported) = size THEN size * 2 ELSE size
      BY <2>2 DEF Poll, GrowEvents
    <3>3. size \in Nat
      BY DEF IInv, TypeOK
    <3>4. QED
      BY <3>1, <3>2, <3>3 DEF ArrayIsBounded
  <2>3. CASE Next /\ ~\E reported \in SUBSET Fds : Poll(reported)
    BY <2>1, <2>3
       DEF Next, LoopStep, Call, EnableReading, DisableReading, EnableWriting,
           DisableWriting, DisableAll, ChannelCall, Remove, Create, Destroy,
           Happens, HandleEvent, DoPendingFunctors, NextIteration, pollerVars
  <2>4. QED
    BY <2>1, <2>2, <2>3 DEF vars, pollerVars
<1>3. QED
  BY <1>1, <1>2, InvInit, InvNext, PTL DEF Spec
=============================================================================
