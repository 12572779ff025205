---------------------------- MODULE EPollPoller ----------------------------
(***************************************************************************)
(* The EPollPoller of one EventLoop (src/net/EPollPoller.cpp), the         *)
(* Channels that belong to that loop (src/net/Channel.cpp), and the epoll  *)
(* set of the kernel below them.                                           *)
(*                                                                         *)
(* Channels come and go with their descriptors, and the kernel gives a     *)
(* number that was closed to the next descriptor that is opened.  What a   *)
(* channel is for (listening, waking, a connection) makes no difference    *)
(* here: callbacks and functors may call any method of any channel.        *)
(***************************************************************************)
EXTENDS Naturals, FiniteSets

CONSTANTS
  Channels,           \* the places in memory where Channels are made
  Fds,                \* the numbers the kernel gives to descriptors
  InitEventListSize,  \* the size of _events at the start
  None                \* no channel, no descriptor

ASSUME NoneAssumption == None \notin Channels \cup Fds
ASSUME FdsAssumption == IsFiniteSet(Fds)
ASSUME SizeAssumption == InitEventListSize \in Nat \ {0}

\* ReadEvent, which is edge-triggered, and WriteEvent; a hang-up or an error
\* is reported to whoever is in the epoll set.
Interests == {"in", "out"}
Conditions == Interests \cup {"hup"}

VARIABLES
  fd,        \* Channel::_fd, or None where no channel exists
  events,    \* Channel::_events
  index,     \* Channel::_index
  channels,  \* Poller::_channels: the channel under each descriptor, or None
  size,      \* _events.size()
  active,    \* _activeChannels of the loop, less what it has handled
  phase,     \* the loop: in epoll_wait, in its callbacks or in its functors
  entry,     \* the kernel: data.ptr of each entry of the epoll set, or None
  interest,  \* the kernel: events of each entry
  ready,     \* the kernel: the ready list of the epoll set
  condition, \* what can be reported of each descriptor
  fresh,     \* history: what of it has not been reported since it came about
  failed     \* history: an epoll_ctl has failed

channelVars == <<fd, events, index>>
pollerVars == <<channels, size, active, phase>>
kernelVars == <<entry, interest, ready>>
vars == <<channelVars, pollerVars, kernelVars, condition, fresh, failed>>

Init ==
  /\ fd = [c \in Channels |-> None]
  /\ events = [c \in Channels |-> {}]
  /\ index = [c \in Channels |-> "New"]
  /\ channels = [f \in Fds |-> None]
  /\ size = InitEventListSize
  /\ active = {} /\ phase = "functors"
  /\ entry = [f \in Fds |-> None] /\ interest = [f \in Fds |-> {}]
  /\ ready = {}
  /\ condition = [f \in Fds |-> {}] /\ fresh = [f \in Fds |-> {}]
  /\ failed = FALSE

Exists(c) == fd[c] # None

-----------------------------------------------------------------------------
(* The kernel.                                                             *)

\* What epoll_wait can report of the descriptor f.
Reportable(f) == condition[f] \cap (interest[f] \cup {"hup"})

\* There is something to report to an entry with the interest e.
Offers(f, e) == condition[f] \cap (e \cup {"hup"}) # {}

\* epoll_ctl.  Adding what is there and changing what is not there fail;
\* adding and changing look at the descriptor.
EpollAdd(f, c, e) ==
  IF entry[f] # None
  THEN failed' = TRUE /\ UNCHANGED kernelVars
  ELSE /\ entry' = [entry EXCEPT ![f] = c]
       /\ interest' = [interest EXCEPT ![f] = e]
       /\ ready' = IF Offers(f, e) THEN ready \cup {f} ELSE ready
       /\ UNCHANGED failed

EpollModify(f, c, e) ==
  IF entry[f] = None
  THEN failed' = TRUE /\ UNCHANGED kernelVars
  ELSE /\ entry' = [entry EXCEPT ![f] = c]
       /\ interest' = [interest EXCEPT ![f] = e]
       /\ ready' = IF Offers(f, e) THEN ready \cup {f} ELSE ready
       /\ UNCHANGED failed

EpollDelete(f) ==
  IF entry[f] = None
  THEN failed' = TRUE /\ UNCHANGED kernelVars
  ELSE /\ entry' = [entry EXCEPT ![f] = None]
       /\ interest' = [interest EXCEPT ![f] = {}]
       /\ ready' = ready \ {f}
       /\ UNCHANGED failed

\* Data, room or a hang-up: each time an edge.
Happens(f, e) ==
  /\ \E c \in Channels : fd[c] = f
  /\ condition' = [condition EXCEPT ![f] = @ \cup {e}]
  /\ fresh' = [fresh EXCEPT ![f] = @ \cup {e}]
  /\ ready' = IF entry[f] # None /\ e \in interest[f] \cup {"hup"}
              THEN ready \cup {f} ELSE ready
  /\ UNCHANGED <<channelVars, pollerVars, entry, interest, failed>>

-----------------------------------------------------------------------------
(* Channels and their methods.                                             *)

\* The constructor, with a descriptor that is not in use.
Create(c, f) ==
  /\ ~Exists(c) /\ \A d \in Channels : fd[d] # f
  /\ fd' = [fd EXCEPT ![c] = f]
  /\ events' = [events EXCEPT ![c] = {}]
  /\ index' = [index EXCEPT ![c] = "New"]
  /\ UNCHANGED <<pollerVars, kernelVars, condition, fresh, failed>>

\* The owner destroys a channel that it has removed, and closes its socket;
\* TcpServer shows that connections keep to this.
Destroy(c) ==
  /\ Exists(c) /\ index[c] = "New"
  /\ fd' = [fd EXCEPT ![c] = None]
  /\ entry' = [entry EXCEPT ![fd[c]] = None]
  /\ interest' = [interest EXCEPT ![fd[c]] = {}]
  /\ ready' = ready \ {fd[c]}
  /\ condition' = [condition EXCEPT ![fd[c]] = {}]
  /\ fresh' = [fresh EXCEPT ![fd[c]] = {}]
  /\ events' = [events EXCEPT ![c] = {}]
  /\ UNCHANGED <<index, pollerVars, failed>>

\* Mutant of UpdateChannel: a channel that was deleted is modified.
ModifyDeleted(c, e) ==
  /\ events' = [events EXCEPT ![c] = e]
  /\ IF index[c] = "New"
     THEN /\ channels' = [channels EXCEPT ![fd[c]] = c]
          /\ index' = [index EXCEPT ![c] = "Added"]
          /\ EpollAdd(fd[c], c, e)
     ELSE /\ UNCHANGED channels
          /\ IF e = {}
             THEN index' = [index EXCEPT ![c] = "Deleted"] /\ EpollDelete(fd[c])
             ELSE index' = [index EXCEPT ![c] = "Added"] /\ EpollModify(fd[c], c, e)

\* Mutant of UpdateChannel: the index is not set to Deleted.
KeepAdded(c, e) ==
  /\ events' = [events EXCEPT ![c] = e]
  /\ IF index[c] = "Added"
     THEN /\ UNCHANGED <<channels, index>>
          /\ IF e = {} THEN EpollDelete(fd[c]) ELSE EpollModify(fd[c], c, e)
     ELSE /\ channels' = [channels EXCEPT ![fd[c]] = c]
          /\ index' = [index EXCEPT ![c] = "Added"]
          /\ EpollAdd(fd[c], c, e)

\* Channel::_events changes to e, and the poller follows.  A channel that is
\* not Added is added whatever e is, also when it is empty.
UpdateChannel(c, e) ==
  /\ events' = [events EXCEPT ![c] = e]
  /\ IF index[c] = "Added"
     THEN /\ UNCHANGED channels
          /\ IF e = {}
             THEN /\ EpollDelete(fd[c])
                  /\ index' = [index EXCEPT ![c] = "Deleted"]
             ELSE EpollModify(fd[c], c, e) /\ UNCHANGED index
     ELSE /\ channels' = IF index[c] = "New"
                         THEN [channels EXCEPT ![fd[c]] = c] ELSE channels
          /\ index' = [index EXCEPT ![c] = "Added"]
          /\ EpollAdd(fd[c], c, e)

\* The loop's thread is in a callback or in a functor.
MayCall(c) == Exists(c) /\ (phase = "functors" \/ (phase = "callbacks" /\ active # {}))

ChannelCall(c, e) ==
  /\ MayCall(c)
  /\ UpdateChannel(c, e)
  /\ UNCHANGED <<fd, size, active, phase, condition, fresh>>

EnableReading(c) == ChannelCall(c, events[c] \cup {"in"})
DisableReading(c) == ChannelCall(c, events[c] \ {"in"})
EnableWriting(c) == ChannelCall(c, events[c] \cup {"out"})
DisableWriting(c) == ChannelCall(c, events[c] \ {"out"})
DisableAll(c) == ChannelCall(c, {})

\* Mutant of RemoveChannel: the epoll set keeps the entry.
RemoveFromMap(c) ==
  /\ channels' = [channels EXCEPT ![fd[c]] = None]
  /\ index' = [index EXCEPT ![c] = "New"]
  /\ UNCHANGED <<kernelVars, failed>>

RemoveChannel(c) ==
  /\ channels' = [channels EXCEPT ![fd[c]] = None]
  /\ IF index[c] = "Added" THEN EpollDelete(fd[c]) ELSE UNCHANGED <<kernelVars, failed>>
  /\ index' = [index EXCEPT ![c] = "New"]

\* Mutant of Remove: it runs in a callback, and not only in a functor.
RemoveAtOnce(c) ==
  /\ MayCall(c)
  /\ RemoveChannel(c)
  /\ UNCHANGED <<fd, events, size, active, phase, condition, fresh>>

\* The destructors and ConnectDestroyed run in functors, or after Loop().
Remove(c) ==
  /\ Exists(c) /\ phase = "functors"
  /\ RemoveChannel(c)
  /\ UNCHANGED <<fd, events, size, active, phase, condition, fresh>>

-----------------------------------------------------------------------------
(* The loop.                                                               *)

\* Mutant of FillActiveChannels: the last event is left out.
FillButOne(reported) == \E f \in reported : active' = {entry[g] : g \in reported \ {f}}

FillActiveChannels(reported) == active' = {entry[f] : f \in reported}

\* Mutant of GrowEvents: the array is cut to the events that there were.
FitEvents(n) == size' = n

\* Mutant of GrowEvents: the array grows with every event.
GrowAlways(n) == size' = IF n > 0 THEN size * 2 ELSE size

\* Lines 66-68: the array was full.
GrowEvents(n) == size' = IF n = size THEN size * 2 ELSE size

ReadyFds == {f \in ready : Reportable(f) # {}}

\* epoll_wait reports what is ready, as far as _events has room; it leaves a
\* level-triggered entry on its list.  With nothing ready it returns for the
\* wakeup channel of the loop, by timeout or by a signal, and the loop goes
\* on to its functors.
Poll(reported) ==
  /\ phase = "poll"
  /\ reported \subseteq ReadyFds
  /\ \/ reported = ReadyFds /\ Cardinality(reported) <= size
     \/ Cardinality(reported) = size
  /\ phase' = "callbacks"
  /\ FillActiveChannels(reported)
  /\ fresh' = [f \in Fds |-> IF entry[f] \in active' THEN fresh[f] \ Reportable(f) ELSE fresh[f]]
  /\ GrowEvents(Cardinality(reported))
  /\ ready' = (ReadyFds \ reported) \cup {f \in reported : "in" \notin interest[f]}
  /\ UNCHANGED <<fd, events, index, channels, entry, interest, condition, failed>>

\* The callbacks of a channel read and write as much as they like.
HandleEvent(c) ==
  /\ phase = "callbacks" /\ c \in active
  /\ active' = active \ {c}
  /\ \E used \in SUBSET Interests :
       /\ condition' = [condition EXCEPT ![fd[c]] = @ \ used]
       /\ fresh' = [fresh EXCEPT ![fd[c]] = @ \ used]
  /\ UNCHANGED <<channelVars, channels, size, phase, kernelVars, failed>>

DoPendingFunctors ==
  /\ phase = "callbacks" /\ active = {}
  /\ phase' = "functors"
  /\ UNCHANGED <<channelVars, channels, size, active, kernelVars, condition, fresh, failed>>

NextIteration ==
  /\ phase = "functors"
  /\ phase' = "poll"
  /\ UNCHANGED <<channelVars, channels, size, active, kernelVars, condition, fresh, failed>>

-----------------------------------------------------------------------------
Call(c) ==
  \/ EnableReading(c) \/ DisableReading(c) \/ EnableWriting(c)
  \/ DisableWriting(c) \/ DisableAll(c) \/ Remove(c)

LoopStep ==
  \/ \E reported \in SUBSET Fds : Poll(reported)
  \/ \E c \in Channels : HandleEvent(c)
  \/ DoPendingFunctors \/ NextIteration

Next ==
  \/ LoopStep
  \/ \E c \in Channels : Call(c) \/ Destroy(c) \/ \E f \in Fds : Create(c, f)
  \/ \E f \in Fds, e \in Conditions : Happens(f, e)

Spec == Init /\ [][Next]_vars

-----------------------------------------------------------------------------
(***************************************************************************)
(* Properties                                                              *)
(***************************************************************************)
\* Index, interest and the array of events keep the values that Channel.hpp
\* and EPollPoller.hpp give them.
TypeOK ==
  /\ fd \in [Channels -> Fds \cup {None}]
  /\ events \in [Channels -> SUBSET Interests]
  /\ index \in [Channels -> {"New", "Added", "Deleted"}]
  /\ channels \in [Fds -> Channels \cup {None}]
  /\ size \in Nat \ {0}
  /\ active \subseteq Channels
  /\ phase \in {"poll", "callbacks", "functors"}
  /\ entry \in [Fds -> Channels \cup {None}]
  /\ interest \in [Fds -> SUBSET Interests]
  /\ ready \subseteq Fds
  /\ condition \in [Fds -> SUBSET Conditions]
  /\ fresh \in [Fds -> SUBSET Conditions]
  /\ failed \in BOOLEAN

\* Poller::HasChannel.
HasChannel(c) == channels[fd[c]] = c

\* The four views of a registration agree: the index of a channel, the map
\* of the poller, the epoll set and the interest, through every sequence of
\* calls and through descriptors that are closed and given out again.
ViewsAgree ==
  /\ \A c \in Channels : Exists(c) =>
       /\ HasChannel(c) <=> index[c] # "New"
       /\ entry[fd[c]] = c <=> index[c] = "Added"
       /\ index[c] = "Added" => interest[fd[c]] = events[c]
  /\ \A f \in Fds :
       /\ channels[f] # None => fd[channels[f]] = f
       /\ entry[f] # None => fd[entry[f]] = f

\* Every epoll_ctl succeeds: nothing is added twice, nothing is modified or
\* deleted that is not in the epoll set (EPollPoller.cpp:100 would log a
\* fatal error and go on).
CtlSucceeds == ~failed

\* No event is lost: what a channel in the epoll set asks for, and has not
\* been told, is on the ready list.  This covers what happened while the
\* interest was taken away, and what did not fit into _events.
NoLostEvent ==
  \A f \in Fds :
    entry[f] # None /\ Reportable(f) \cap fresh[f] # {} => f \in ready

\* Every channel that the loop has still to handle is one it owns, and has
\* not been removed since epoll_wait reported it.
ActiveAreRegistered == \A c \in active : Exists(c) /\ index[c] # "New"

\* _events never grows to more than twice what can be ready at once.
ArrayIsBounded == size <= InitEventListSize \/ size <= 2 * Cardinality(Fds)

-----------------------------------------------------------------------------
(***************************************************************************)
(* The inductive invariant behind them (EPollPollerProofs).                *)
(***************************************************************************)
\* No two channels have the same descriptor.
OwnFds == \A c, d \in Channels : Exists(c) /\ fd[c] = fd[d] => c = d

\* Only what is in the epoll set is on its ready list, and only the
\* callbacks have channels to handle.
ListInv ==
  /\ \A f \in ready : entry[f] # None
  /\ phase # "callbacks" => active = {}

IInv ==
  /\ TypeOK /\ OwnFds /\ ListInv
  /\ ViewsAgree /\ CtlSucceeds /\ NoLostEvent /\ ActiveAreRegistered
=============================================================================
