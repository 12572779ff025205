--------------------------- MODULE TcpConnection ---------------------------
(***************************************************************************)
(* One TcpConnection (src/net/TcpConnection.cpp) on the thread of its      *)
(* EventLoop, with its Channel, the socket and the epoll entry below it,   *)
(* user threads that call Send and Shutdown, and the base loop of the      *)
(* TcpServer that removes it.                                              *)
(*                                                                         *)
(* The loop is the Executor that EventLoop is shown to implement, with the *)
(* batches of DoPendingFunctors kept: functors never run between two       *)
(* events of one epoll_wait.  Appends to its queue are taken to be atomic, *)
(* as they are once EventLoop.cpp:88 takes the lock it names.              *)
(*                                                                         *)
(* Bytes are numbered in the order in which SendInLoop accepts them, so    *)
(* the peer must receive 1, 2, 3, ...  A chunk is what one readv of Buffer *)
(* can take at most.                                                       *)
(***************************************************************************)
EXTENDS Naturals, Sequences

CONSTANTS
  Users,          \* threads other than the loop's that hold the connection
  Shutters,       \* those of them that also call Shutdown
  MaxCalls,       \* bound: calls by each user thread
  MaxLoopCalls,   \* bound: calls of Send and Shutdown by callbacks
  MessageSize,    \* bytes in a message passed to Send
  SendSpace,      \* capacity of the socket's send buffer, in bytes
  MaxChunks,      \* bound: chunks the peer sends
  HighWaterMark   \* _highWaterMark

ASSUME UserAssumption == Shutters \subseteq Users
ASSUME SizeAssumption ==
  /\ MaxCalls \in Nat /\ MaxLoopCalls \in Nat /\ MaxChunks \in Nat
  /\ MessageSize \in Nat \ {0} /\ SendSpace \in Nat \ {0}
  /\ HighWaterMark \in Nat \ {0}

States == {"Connecting", "Connected", "Disconnecting", "Disconnected"}
Functors == {"established", "send", "shutdown", "complete", "highWater", "destroy"}

VARIABLES
  state,     \* _state
  interest,  \* Channel::_events
  index,     \* Channel::_index, which says whether epoll has the channel
  output,    \* _outputBuffer
  accepted,  \* how many bytes SendInLoop has taken
  reported,  \* history: what _connectionCallback was told, "up" or "down"
  phase,     \* the loop: "poll", "events", "run", or in a user callback
  revents,   \* Channel::_revents that HandleEvent has still to look at
  batch,     \* functors that DoPendingFunctors has still to run
  queue,     \* _pendingFunctors of the loop, as far as it is about this
  loopCalls, \* calls made by callbacks
  pc, calls, \* where each user thread is in a call, and its calls so far
  revived,   \* history: a user thread overwrote Disconnected in Shutdown
  wire,      \* history: bytes given to the kernel
  unsent,    \* how many of them still fill the send buffer
  noSpace,   \* a write found the send buffer full (SOCK_NOSPACE)
  wr,        \* our side of the socket: "open" or "shut" for writing
  brokenPipe,\* history: a write was tried after our side was shut
  peer,      \* "open", "fin" or "rst" has arrived
  chunks, sentChunks,  \* unread input, and how much was ever sent
  err,       \* the socket has a pending error
  edge,      \* the channel is on epoll's ready list
  owned,     \* the connection is in TcpServer::_connections
  removing,  \* RemoveConnectionInLoop calls the base loop has to run
  baseRuns,  \* the base loop still runs functors: ~TcpServer has not begun
  destroyed, \* history: "no", "whole" or "half", if ConnectDestroyed found the
             \* connection Disconnecting and did neither DisableAll nor a callback
  ran        \* history: how often each of the three handlers has run

connVars == <<state, interest, index, output, accepted, reported>>
loopVars == <<phase, revents, batch, queue, loopCalls>>
userVars == <<pc, calls, revived>>
sendVars == <<wire, unsent, noSpace, wr, brokenPipe>>
recvVars == <<peer, chunks, sentChunks, err>>
serverVars == <<owned, removing, baseRuns, destroyed, ran>>
vars == <<connVars, loopVars, userVars, sendVars, recvVars, edge, serverVars>>

\* TcpServer::NewConnection has created the connection and queued
\* ConnectEstablished for its loop.
Init ==
  /\ state = "Connecting" /\ interest = {} /\ index = "New"
  /\ output = <<>> /\ accepted = 0 /\ reported = <<>>
  /\ phase = "poll" /\ revents = {} /\ batch = <<>> /\ queue = <<"established">>
  /\ loopCalls = 0
  /\ pc = [u \in Users |-> "idle"] /\ calls = [u \in Users |-> 0]
  /\ revived = FALSE
  /\ wire = <<>> /\ unsent = 0 /\ noSpace = FALSE /\ wr = "open"
  /\ brokenPipe = FALSE
  /\ peer = "open" /\ chunks = 0 /\ sentChunks = 0 /\ err = FALSE
  /\ edge = FALSE
  /\ owned = TRUE /\ removing = 0 /\ baseRuns = TRUE /\ destroyed = "no"
  /\ ran = [established |-> 0, closed |-> 0, destroyed |-> 0]

-----------------------------------------------------------------------------
(* The socket and epoll.                                                   *)

\* What the kernel can report of the socket.
Ready ==
  (IF chunks > 0 \/ peer # "open" THEN {"in"} ELSE {})
    \cup (IF unsent < SendSpace \/ wr = "shut" \/ peer = "rst" THEN {"out"} ELSE {})
    \cup (IF peer = "rst" \/ (peer = "fin" /\ wr = "shut") THEN {"hup"} ELSE {})
    \cup (IF err THEN {"err"} ELSE {})

\* Errors and hang-ups are reported whether asked for or not.
Reportable == Ready \cap (interest \cup {"hup", "err"})

\* Something happened on the socket or to the entry: epoll puts the channel
\* on its ready list if there is something to report.
Recheck == edge' = (index' = "Added" /\ (edge \/ Reportable' # {}))

\* The write that SendInLoop and HandleWrite make of the bytes b: what the
\* kernel takes, or an error.
CanWrite == wr = "open" /\ peer # "rst"

Taken(b) == LET room == SendSpace - unsent
            IN  IF Len(b) <= room THEN Len(b) ELSE room

Write(b) ==
  LET n == Taken(b) IN
  /\ wire' = wire \o SubSeq(b, 1, n)
  /\ unsent' = unsent + n
  /\ noSpace' = (noSpace \/ n < Len(b))

\* EPIPE or ECONNRESET, which takes a pending error with it.
FailWrite ==
  /\ brokenPipe' = (brokenPipe \/ wr = "shut")
  /\ err' = FALSE

\* Channel::Enable*/Disable* set the interest; EPollPoller::UpdateChannel
\* then adds, modifies or deletes the epoll entry.  Adding and modifying look
\* at the socket again.
UpdateChannel(events) ==
  /\ interest' = events
  /\ index' = IF index = "Added" /\ events = {} THEN "Deleted" ELSE "Added"
  /\ Recheck

EnableReading == UpdateChannel(interest \cup {"in"})
EnableWriting == UpdateChannel(interest \cup {"out"})
DisableWriting == UpdateChannel(interest \ {"out"})
DisableAll == UpdateChannel({})

\* Channel::Remove: neither the map nor epoll has the channel any more.
RemoveChannel == index' = "New" /\ edge' = FALSE

Writing == "out" \in interest

-----------------------------------------------------------------------------
(* What the loop thread does in a functor or a callback.                   *)

\* Lines 51-54 and 64-70: the message is dropped.
DropMessage ==
  /\ UNCHANGED <<connVars, queue, wire, unsent, noSpace, wr, peer, chunks,
                 sentChunks, edge>>
  /\ IF state = "Disconnected"
     THEN UNCHANGED <<brokenPipe, err>>
     ELSE FailWrite

\* Mutant of AppendOutput: EPOLLOUT is not asked for.
AppendSilently(rest) ==
  /\ output' = output \o rest
  /\ UNCHANGED <<queue, interest, index, edge>>

\* Lines 77-89: what the kernel did not take is buffered, EPOLLOUT asked for.
AppendOutput(rest) ==
  /\ output' = output \o rest
  /\ queue' = IF /\ Len(output) + Len(rest) >= HighWaterMark
                 /\ Len(output) < HighWaterMark
              THEN Append(queue, "highWater") ELSE queue
  /\ IF Writing THEN UNCHANGED <<interest, index, edge>>
                ELSE EnableWriting

\* Mutant of MayWriteDirectly: the output buffer is not looked at.
MayAlwaysWrite == TRUE

\* Only an idle channel with an empty buffer may write past the buffer.
MayWriteDirectly == ~Writing /\ output = <<>>

SendInLoop ==
  LET msg == [k \in 1..MessageSize |-> accepted + k] IN
  IF state = "Disconnected" \/ (MayWriteDirectly /\ ~CanWrite)
  THEN DropMessage
  ELSE /\ accepted' = accepted + MessageSize
       /\ UNCHANGED <<state, reported, wr, brokenPipe, recvVars>>
       /\ \/ /\ MayWriteDirectly
             /\ Write(msg)
             /\ IF Taken(msg) = MessageSize
                THEN /\ queue' = Append(queue, "complete")
                     /\ UNCHANGED <<output, interest, index, edge>>
                ELSE AppendOutput(SubSeq(msg, Taken(msg) + 1, MessageSize))
          \/ /\ ~MayWriteDirectly
             /\ UNCHANGED <<wire, unsent, noSpace>>
             /\ AppendOutput(msg)

\* shutdown(SHUT_WR), which fails on a connection that was reset.
ShutdownWrite == wr' = IF peer = "rst" THEN wr ELSE "shut"

\* Mutant of ShutdownUnlessWriting: the test of IsWriting is missing.
ShutdownAtOnce == ShutdownWrite /\ Recheck

\* Lines 100-102: with output pending the shutdown is left to HandleWrite.
ShutdownUnlessWriting ==
  IF Writing THEN UNCHANGED <<wr, edge>> ELSE ShutdownWrite /\ Recheck

ShutdownInLoop ==
  /\ UNCHANGED <<connVars, queue, wire, unsent, noSpace, brokenPipe, recvVars>>
  /\ ShutdownUnlessWriting

\* History: the handlers that begin, close and end the connection are counted.
Count(handler) == ran' = [ran EXCEPT ![handler] = @ + 1]

\* _connectionCallback learns Connected or not from the state it finds.
ConnectionCallback(connected) ==
  reported' = Append(reported, IF connected THEN "up" ELSE "down")

\* Mutant of HandleClose: the channel stays enabled.
CloseEnabled ==
  /\ state' = "Disconnected"
  /\ ConnectionCallback(FALSE)
  /\ removing' = removing + 1
  /\ Count("closed")
  /\ UNCHANGED <<interest, index, edge, output, accepted, owned, baseRuns, destroyed>>

\* The tail of HandleClose is TcpServer::RemoveConnection.
HandleClose ==
  /\ state' = "Disconnected"
  /\ DisableAll
  /\ ConnectionCallback(FALSE)
  /\ removing' = removing + 1
  /\ Count("closed")
  /\ UNCHANGED <<output, accepted, owned, baseRuns, destroyed>>

ConnectEstablished ==
  /\ state' = "Connected"
  /\ Count("established")
  /\ UNCHANGED <<output, accepted, reported, queue, sendVars, recvVars>>
  /\ EnableReading

\* Mutant of ConnectDestroyed: the channel is disabled, but not removed.
DisableOnly ==
  /\ state' = "Disconnected"
  /\ DisableAll
  /\ ConnectionCallback(FALSE)
  /\ destroyed' = "whole" /\ Count("destroyed")
  /\ UNCHANGED <<output, accepted, queue, sendVars, recvVars>>

\* DisableAll and Remove leave neither an interest nor an epoll entry.
ConnectDestroyed ==
  /\ RemoveChannel
  /\ destroyed' = IF state = "Disconnecting" \/ destroyed = "half"
                  THEN "half" ELSE "whole"
  /\ Count("destroyed")
  /\ UNCHANGED <<output, accepted, queue, sendVars, recvVars>>
  /\ IF state = "Connected"
     THEN /\ state' = "Disconnected"
          /\ interest' = {}
          /\ ConnectionCallback(FALSE)
     ELSE UNCHANGED <<state, interest, reported>>

-----------------------------------------------------------------------------
(* The loop thread.                                                        *)

EpollWait ==
  /\ phase = "poll"
  /\ index = "Added" /\ edge /\ Reportable # {}
  /\ phase' = "events"
  /\ revents' = Reportable
  /\ edge' = ("in" \notin interest)   \* EPOLLET is part of ReadEvent
  /\ UNCHANGED <<connVars, batch, queue, loopCalls, userVars, sendVars,
                 recvVars, serverVars>>

DoPendingFunctors ==
  /\ \/ phase = "poll" /\ queue # <<>>   \* woken, and not for this channel
     \/ phase = "events" /\ revents = {}
  /\ phase' = "run"
  /\ batch' = queue /\ queue' = <<>>
  /\ UNCHANGED <<connVars, revents, loopCalls, userVars, sendVars, recvVars,
                 edge, serverVars>>

\* Mutant of Handling: one handler takes the place of all.
HandlingFirst(event, before) ==
  /\ phase = "events"
  /\ event \in revents /\ revents \cap before = {}
  /\ revents' = {}
  /\ UNCHANGED <<batch, loopCalls, userVars>>

\* HandleEventWithGuard looks at the events one after the other; a callback
\* may change the channel and the socket, but not what revents says.
Handling(event, before) ==
  /\ phase = "events"
  /\ event \in revents /\ revents \cap before = {}
  /\ revents' = revents \ {event}
  /\ UNCHANGED <<batch, loopCalls, userVars>>

HandleHangUp ==
  /\ Handling("hup", {})
  /\ UNCHANGED <<phase, queue, sendVars, recvVars>>
  /\ IF "in" \in revents THEN UNCHANGED <<connVars, edge, serverVars>>
                         ELSE HandleClose

\* getsockopt(SO_ERROR) takes the error off the socket.
HandleError ==
  /\ Handling("err", {"hup"})
  /\ err' = FALSE
  /\ UNCHANGED <<phase, queue, connVars, sendVars, peer, chunks, sentChunks,
                 edge, serverVars>>

\* Mutant of HandleRead: the end of the input is taken for data.
ReadAnything ==
  /\ Handling("in", {"hup", "err"})
  /\ chunks' = chunks - 1
  /\ phase' = "message"
  /\ UNCHANGED <<queue, connVars, sendVars, peer, sentChunks, err, edge, serverVars>>

\* One readv: data comes before an error, and an error before the end.
HandleRead ==
  /\ Handling("in", {"hup", "err"})
  /\ UNCHANGED <<queue, sendVars, peer, sentChunks>>
  /\ \/ /\ chunks > 0
        /\ chunks' = chunks - 1
        /\ phase' = "message"
        /\ UNCHANGED <<connVars, err, edge, serverVars>>
     \/ /\ chunks = 0 /\ (err \/ peer = "open")
        /\ err' = FALSE
        /\ UNCHANGED <<phase, connVars, chunks, edge, serverVars>>
     \/ /\ chunks = 0 /\ ~err /\ peer # "open"
        /\ UNCHANGED <<phase, chunks, err>>
        /\ HandleClose

\* Mutant of FinishShutdown: a shutdown that was put off is forgotten.
ForgetShutdown == UNCHANGED wr

\* Lines 147-149: the buffer has run empty.
FinishShutdown ==
  IF state = "Disconnecting" THEN ShutdownWrite ELSE UNCHANGED wr

HandleWrite ==
  /\ Handling("out", {"hup", "err", "in"})
  /\ UNCHANGED <<phase, accepted, state, reported, peer, chunks, sentChunks,
                 serverVars>>
  /\ IF Writing /\ ~CanWrite THEN FailWrite ELSE UNCHANGED <<brokenPipe, err>>
  /\ IF Writing /\ CanWrite
     THEN /\ Write(output)
          /\ output' = SubSeq(output, Taken(output) + 1, Len(output))
          /\ IF output' = <<>> /\ Taken(output) > 0
             THEN /\ FinishShutdown
                  /\ queue' = Append(queue, "complete")
                  /\ DisableWriting
             ELSE UNCHANGED <<wr, queue, interest, index, edge>>
     ELSE UNCHANGED <<wire, unsent, noSpace, wr, queue, output, interest, index, edge>>

RunFunctor ==
  /\ phase = "run" /\ batch # <<>>
  /\ batch' = Tail(batch)
  /\ UNCHANGED <<revents, loopCalls, userVars, owned, removing, baseRuns>>
  /\ phase' = IF Head(batch) \in {"complete", "highWater"} THEN "functor" ELSE "run"
  /\ Head(batch) # "destroy" => UNCHANGED destroyed
  /\ Head(batch) \notin {"established", "destroy"} => UNCHANGED ran
  /\ \/ Head(batch) = "established" /\ ConnectEstablished
     \/ Head(batch) = "send" /\ SendInLoop
     \/ Head(batch) = "shutdown" /\ ShutdownInLoop
     \/ Head(batch) = "destroy" /\ ConnectDestroyed
     \/ /\ Head(batch) \in {"complete", "highWater"}
        /\ UNCHANGED <<connVars, queue, sendVars, recvVars, edge>>

EndPendingFunctors ==
  /\ phase = "run" /\ batch = <<>>
  /\ phase' = "poll"
  /\ UNCHANGED <<connVars, revents, batch, queue, loopCalls, userVars, sendVars,
                 recvVars, edge, serverVars>>

\* Callbacks may call Send and Shutdown, which then run at once.
InCallback == phase \in {"message", "functor"}

CallFromLoop ==
  /\ InCallback /\ loopCalls < MaxLoopCalls
  /\ loopCalls' = loopCalls + 1
  /\ state = "Connected"
  /\ UNCHANGED <<phase, revents, batch, userVars, serverVars>>

Send == CallFromLoop /\ SendInLoop

Shutdown ==
  /\ CallFromLoop
  /\ state' = "Disconnecting"
  /\ UNCHANGED <<interest, index, output, accepted, reported, queue, wire,
                 unsent, noSpace, brokenPipe, recvVars>>
  /\ ShutdownUnlessWriting

CallbackReturns ==
  /\ InCallback
  /\ phase' = IF phase = "message" THEN "events" ELSE "run"
  /\ UNCHANGED <<connVars, revents, batch, queue, loopCalls, userVars, sendVars,
                 recvVars, edge, serverVars>>

-----------------------------------------------------------------------------
(* User threads: the test of _state, its change and the queueing of the    *)
(* functor are separate steps.                                             *)

Begin(u, call) ==
  /\ pc[u] = "idle" /\ calls[u] < MaxCalls
  /\ calls' = [calls EXCEPT ![u] = @ + 1]
  /\ state = "Connected"
  /\ pc' = [pc EXCEPT ![u] = call]
  /\ UNCHANGED <<revived, connVars, loopVars, sendVars, recvVars, edge, serverVars>>

BeginSend(u) == Begin(u, "send")

BeginShutdown(u) == u \in Shutters /\ Begin(u, "setState")

SetDisconnecting(u) ==
  /\ pc[u] = "setState"
  /\ state' = "Disconnecting"
  /\ revived' = (revived \/ state = "Disconnected")
  /\ pc' = [pc EXCEPT ![u] = "shutdown"]
  /\ UNCHANGED <<interest, index, output, accepted, reported, loopVars, calls,
                 sendVars, recvVars, edge, serverVars>>

QueueInLoop(u) ==
  /\ pc[u] \in {"send", "shutdown"}
  /\ queue' = Append(queue, pc[u])
  /\ pc' = [pc EXCEPT ![u] = "idle"]
  /\ UNCHANGED <<connVars, phase, revents, batch, loopCalls, calls, revived,
                 sendVars, recvVars, edge, serverVars>>

-----------------------------------------------------------------------------
(* The base loop.                                                          *)

RemoveConnectionInLoop ==
  /\ baseRuns /\ removing > 0
  /\ removing' = removing - 1
  /\ owned' = FALSE
  /\ queue' = Append(queue, "destroy")
  /\ UNCHANGED <<connVars, phase, revents, batch, loopCalls, userVars, sendVars,
                 recvVars, edge, baseRuns, destroyed, ran>>

\* ~TcpServer, with the base loop no longer running: what is or will be queued
\* for it never runs.
ServerDestroyed ==
  /\ owned
  /\ owned' = FALSE
  /\ baseRuns' = FALSE
  /\ queue' = Append(queue, "destroy")
  /\ UNCHANGED <<connVars, phase, revents, batch, loopCalls, userVars, sendVars,
                 recvVars, edge, removing, destroyed, ran>>

-----------------------------------------------------------------------------
(* The peer, as the kernel sees it.                                        *)

PeerSends ==
  /\ peer = "open" /\ sentChunks < MaxChunks
  /\ chunks' = chunks + 1 /\ sentChunks' = sentChunks + 1
  /\ UNCHANGED <<connVars, loopVars, userVars, sendVars, peer, err, serverVars>>
  /\ Recheck

PeerCloses ==
  /\ peer = "open"
  /\ peer' = "fin"
  /\ UNCHANGED <<connVars, loopVars, userVars, sendVars, chunks, sentChunks,
                 err, serverVars>>
  /\ Recheck

PeerResets ==
  /\ peer # "rst"
  /\ peer' = "rst" /\ err' = TRUE
  /\ UNCHANGED <<connVars, loopVars, userVars, sendVars, chunks, sentChunks,
                 serverVars>>
  /\ Recheck

PeerReads ==
  /\ unsent > 0 /\ peer # "rst"
  /\ unsent' = unsent - 1 /\ noSpace' = FALSE
  /\ UNCHANGED <<connVars, loopVars, userVars, wire, wr, brokenPipe, recvVars,
                 serverVars>>
  /\ IF noSpace THEN Recheck ELSE UNCHANGED edge

-----------------------------------------------------------------------------
LoopStep ==
  \/ EpollWait \/ DoPendingFunctors
  \/ HandleHangUp \/ HandleError \/ HandleRead \/ HandleWrite
  \/ RunFunctor \/ EndPendingFunctors \/ CallbackReturns

UserStep(u) == SetDisconnecting(u) \/ QueueInLoop(u)

Next ==
  \/ LoopStep \/ Send \/ Shutdown
  \/ \E u \in Users : BeginSend(u) \/ BeginShutdown(u) \/ UserStep(u)
  \/ RemoveConnectionInLoop \/ ServerDestroyed
  \/ PeerSends \/ PeerCloses \/ PeerResets \/ PeerReads

Spec == Init /\ [][Next]_vars

(***************************************************************************)
(* Fairness: the loop iterates and callbacks return, a call that a user    *)
(* thread has begun ends, the base loop runs, and the peer reads what it   *)
(* was sent.  Nobody has to call, send, close or reset.                    *)
(***************************************************************************)
Fairness ==
  /\ WF_vars(LoopStep)
  /\ \A u \in Users : WF_vars(UserStep(u))
  /\ WF_vars(RemoveConnectionInLoop)
  /\ WF_vars(PeerReads)

FairSpec == Spec /\ Fairness

-----------------------------------------------------------------------------
(***************************************************************************)
(* Properties                                                              *)
(***************************************************************************)
\* Every variable keeps its type; interest and ready list are those of the
\* channel's epoll entry.
TypeOK ==
  /\ state \in States
  /\ interest \subseteq {"in", "out"} /\ index \in {"New", "Added", "Deleted"}
  /\ output \in Seq(Nat) /\ wire \in Seq(Nat) /\ accepted \in Nat
  /\ reported \in Seq({"up", "down"})
  /\ phase \in {"poll", "events", "message", "run", "functor"}
  /\ revents \subseteq {"in", "out", "hup", "err"}
  /\ batch \in Seq(Functors) /\ queue \in Seq(Functors)
  /\ loopCalls \in 0..MaxLoopCalls
  /\ pc \in [Users -> {"idle", "send", "setState", "shutdown"}]
  /\ calls \in [Users -> 0..MaxCalls] /\ revived \in BOOLEAN
  /\ unsent \in 0..SendSpace /\ noSpace \in BOOLEAN
  /\ wr \in {"open", "shut"} /\ brokenPipe \in BOOLEAN
  /\ peer \in {"open", "fin", "rst"} /\ chunks \in 0..MaxChunks
  /\ sentChunks \in 0..MaxChunks /\ err \in BOOLEAN
  /\ edge \in BOOLEAN /\ owned \in BOOLEAN /\ removing \in Nat
  /\ baseRuns \in BOOLEAN /\ destroyed \in {"no", "whole", "half"}
  /\ ran \in [established : Nat, closed : Nat, destroyed : Nat]

\* What was written and what is buffered are together exactly the accepted
\* bytes in order: a direct write never overtakes the buffer, a partial
\* write never loses or repeats a byte.  (A part of IsByteStream below, and
\* the inductive invariant it rests on.)
StreamInOrder ==
  /\ Len(wire) + Len(output) = accepted
  /\ \A k \in 1..Len(wire) : wire[k] = k
  /\ \A k \in 1..Len(output) : output[k] = Len(wire) + k

\* _connectionCallback or the destruction has not ended the connection.
Alive == state \in {"Connected", "Disconnecting"} /\ reported = <<>> /\ destroyed = "no"

\* While the connection lives, EPOLLOUT is asked for exactly as long as the
\* output buffer holds something.
WritingIffPending == Alive => (Writing <=> output # <<>>)

\* Shutdown closes the sending side only behind the last buffered byte,
\* whatever Sends, Shutdowns and partial writes overlap.  (Also a part of
\* IsByteStream.)
NoDataBehindFin == wr = "shut" /\ Alive => output = <<>>

\* The user is told once that the connection is down, even when revents
\* still holds events of the closed channel and the server is destroyed at
\* the same time.  A Shutdown of another thread that overwrites Disconnected
\* breaks this, and is left out.
DownOnce == revived \/ Len(reported) <= 1

\* No event can reach a channel after HandleClose: it has left epoll for
\* good, with the same exception.
ClosedIsDeaf == state = "Disconnected" => revived \/ index # "Added"

\* Destruction is final: no Send that is still queued puts the channel back
\* into epoll, and the user has been told that the connection is down.  The
\* code keeps neither promise to a connection that a Shutdown had left
\* Disconnecting, nor to one that a Shutdown revives.
DestroyedIsFinal ==
  destroyed = "whole" => revived \/ (index = "New" /\ reported # <<>>)

\* The write-complete callback is queued only when every byte that was
\* accepted has been given to the kernel.
CompleteMeansWritten ==
  [][Len(queue') > Len(queue) /\ queue'[Len(queue')] = "complete"
       => Len(wire') = accepted']_vars

\* The bytes of a connection are the stream of module ByteStream: whatever
\* Sends, direct and partial writes, shutdowns and closes overlap, bytes leave
\* in order and once, and the FIN follows the last of them, until the user has
\* been told of the end or the connection is destroyed.
Stream == INSTANCE ByteStream WITH
  pending <- output,
  delivered <- wire,
  finished <- (wr = "shut"),
  ended <- (reported # <<>> \/ destroyed # "no")

IsByteStream == Stream!Spec

\* A connection keeps to the life that its server plans for it (TcpServer has
\* the same IsConnectionLife): whatever closes, Shutdowns, queued Sends and the
\* destructor of the server overlap, ConnectEstablished runs first and never
\* again, HandleClose at most once and not after ConnectDestroyed, which runs at
\* most once and only when the server has given the connection up.  The counts
\* of a connection that was revived, or that ConnectDestroyed found
\* Disconnecting, are left open from then on: the code does close and destroy
\* such a connection again.
Life == INSTANCE ConnectionLife WITH
  Connection <- {1},
  ran <- [c \in {1} |-> ran],
  released <- {c \in {1} : ~owned},
  unsettled <- {c \in {1} : revived \/ destroyed = "half"}

IsConnectionLife == Life!Spec

\* Buffered output is written as long as the peer reads, unless the
\* connection ends first.
OutputDrains == (output # <<>> /\ Alive) ~> (output = <<>> \/ ~Alive \/ peer = "rst")

\* A graceful shutdown completes: once Shutdown has changed the state, the
\* sending side is shut or the connection is over.
ShutdownCompletes == state = "Disconnecting" ~> (wr = "shut" \/ ~Alive \/ peer = "rst")

\* A shutdown is carried on at every moment: somebody still has to do it.
ShutdownIsCarried ==
  state = "Disconnecting" /\ Alive =>
    \/ wr = "shut" \/ Writing \/ peer = "rst"
    \/ \E i \in 1..Len(queue) : queue[i] = "shutdown"
    \/ \E i \in 1..Len(batch) : batch[i] = "shutdown"
    \/ \E u \in Users : pc[u] = "shutdown"

\* Output that waits is watched: the loop has a writable event of it to come
\* or in its hands, or the kernel will report one when the peer reads.
OutputIsWatched ==
  Alive /\ Writing /\ peer # "rst" =>
    /\ index = "Added"
    /\ IF unsent < SendSpace THEN edge \/ "out" \in revents ELSE noSpace

\* What OutputDrains and ShutdownCompletes rest on: with an edge-triggered
\* channel one event that is lost, or one flag that is not looked at, would
\* leave bytes or a FIN behind forever, whatever the peer does.
NothingIsForgotten == ShutdownIsCarried /\ OutputIsWatched

\* "Shutdown was called on this connection before: nothing may be sent any
\* more" (TcpConnection.cpp:50): no write is tried on a side that is shut.
NoWriteAfterShutdown == ~brokenPipe

\* "The callback for a connection that is made or broken" (main.cpp:26): when
\* the peer closes an established connection, the user is told.
CloseIsReported == (peer = "fin" /\ Alive) ~> (reported # <<>> \/ peer = "rst" \/ ~owned)
=============================================================================
