------------------------ MODULE TcpConnectionProofs ------------------------
(***************************************************************************)
(* What is proved of TcpConnection, for any user threads, any number of    *)
(* calls and chunks, and any sizes of messages and of the send buffer.     *)
(***************************************************************************)
EXTENDS TcpConnection, SequenceTheorems, TLAPS

TInv == TypeOK /\ chunks <= sentChunks

\* write() takes no more bytes than it is given and there is room for.
LEMMA TakenBounds ==
  ASSUME TypeOK, NEW b \in Seq(Nat)
  PROVE  Taken(b) \in 0..Len(b) /\ unsent + Taken(b) \in 0..SendSpace
BY SizeAssumption DEF Taken, TypeOK

\* What SendInLoop may do: drop the message, hand it to the kernel whole, or
\* buffer what the kernel did not take.
Dropped ==
  /\ UNCHANGED <<output, accepted, wire, unsent, noSpace, queue, interest, index, edge>>
  /\ brokenPipe' \in BOOLEAN /\ err' \in BOOLEAN

Message == [k \in 1..MessageSize |-> accepted + k]

Written(n) ==
  /\ n \in 0..MessageSize
  /\ accepted' = accepted + MessageSize
  /\ wire' = wire \o SubSeq(Message, 1, n)
  /\ unsent' \in 0..SendSpace /\ noSpace' \in BOOLEAN
  /\ UNCHANGED <<brokenPipe, err>>

LEMMA MessageType ==
  ASSUME TypeOK
  PROVE  /\ Message \in Seq(Nat) /\ Len(Message) = MessageSize
         /\ \A k \in 1..MessageSize : Message[k] = accepted + k
BY SizeAssumption DEF Message, TypeOK

LEMMA SendCases ==
  ASSUME TypeOK, SendInLoop
  PROVE  /\ UNCHANGED <<state, reported, wr, peer, chunks, sentChunks>>
         /\ \/ Dropped
            \/ /\ MayWriteDirectly /\ CanWrite /\ Written(MessageSize)
               /\ queue' = Append(queue, "complete")
               /\ UNCHANGED <<output, interest, index, edge>>
            \/ \E n \in 0..MessageSize - 1 :
                 /\ n > 0 => MayWriteDirectly
                 /\ MayWriteDirectly => CanWrite
                 /\ Written(n)
                 /\ AppendOutput(SubSeq(Message, n + 1, MessageSize))
<1> USE DEF connVars, sendVars, recvVars
<1>1. MessageSize \in Nat /\ MessageSize > 0
  BY SizeAssumption
<1>2. CASE state = "Disconnected" \/ (MayWriteDirectly /\ ~CanWrite)
  BY <1>2 DEF SendInLoop, DropMessage, Dropped, FailWrite, TypeOK
<1>3. CASE ~(state = "Disconnected" \/ (MayWriteDirectly /\ ~CanWrite))
  <2>1. /\ accepted' = accepted + MessageSize
        /\ UNCHANGED <<state, reported, wr, brokenPipe, recvVars>>
        /\ \/ /\ MayWriteDirectly
              /\ Write(Message)
              /\ IF Taken(Message) = MessageSize
                 THEN /\ queue' = Append(queue, "complete")
                      /\ UNCHANGED <<output, interest, index, edge>>
                 ELSE AppendOutput(SubSeq(Message, Taken(Message) + 1, MessageSize))
           \/ /\ ~MayWriteDirectly
              /\ UNCHANGED <<wire, unsent, noSpace>>
              /\ AppendOutput(Message)
    BY <1>3 DEF SendInLoop, Message
  <2>2. /\ Message \in Seq(Nat) /\ Len(Message) = MessageSize
        /\ Taken(Message) \in 0..MessageSize
        /\ unsent + Taken(Message) \in 0..SendSpace
    BY MessageType, TakenBounds
  <2> DEFINE n == Taken(Message)
  <2>3. CASE MayWriteDirectly /\ Write(Message)
    <3>1. Written(n)
      <4>1. noSpace' \in BOOLEAN
        BY <2>3 DEF Write, TypeOK
      <4> QED BY <2>1, <2>2, <2>3, <4>1 DEF Written, Write
    <3>2. CanWrite
      BY <1>3, <2>3
    <3>3. CASE n = MessageSize
      <4>1. \/ /\ queue' = Append(queue, "complete")
               /\ UNCHANGED <<output, interest, index, edge>>
        BY <2>1, <2>3, <3>3
      <4> QED BY <2>1, <2>3, <3>1, <3>2, <3>3, <4>1
    <3>4. CASE n # MessageSize
      <4>1. AppendOutput(SubSeq(Message, n + 1, MessageSize))
        BY <2>1, <2>3, <3>4
      <4>2. n \in 0..MessageSize - 1
        BY <1>1, <2>2, <3>4
      <4> HIDE DEF n
      <4> QED BY <2>1, <2>3, <3>1, <3>2, <4>1, <4>2
    <3> QED BY <3>3, <3>4
  <2>4. CASE ~MayWriteDirectly
    <3>1. SubSeq(Message, 1, 0) = <<>> /\ SubSeq(Message, 1, MessageSize) = Message
      BY <2>2, SubSeqProperties
    <3>2. wire \o <<>> = wire
      BY DEF TypeOK
    <3>3. Written(0)
      BY <1>1, <2>1, <2>4, <3>1, <3>2 DEF Written, TypeOK
    <3>4. AppendOutput(SubSeq(Message, 0 + 1, MessageSize))
      <4>1. AppendOutput(Message)
        BY <2>1, <2>4
      <4>2. SubSeq(Message, 0 + 1, MessageSize) = Message
        BY <3>1
      <4> QED BY ONLY <4>1, <4>2 DEF AppendOutput
    <3>5. 0 \in 0..MessageSize - 1
      BY <1>1
    <3> QED BY <2>1, <2>4, <3>3, <3>4, <3>5
  <2> QED BY <2>1, <2>3, <2>4
<1> QED BY <1>2, <1>3
-----------------------------------------------------------------------------
(***************************************************************************)
(* Types                                                                   *)
(***************************************************************************)
LEMMA AppendType ==
  ASSUME TypeOK, NEW rest \in Seq(Nat), AppendOutput(rest)
  PROVE  /\ output' = output \o rest /\ output' \in Seq(Nat)
         /\ queue' = queue \/ queue' = Append(queue, "highWater")
         /\ \/ Writing /\ UNCHANGED <<interest, index, edge>>
            \/ ~Writing /\ interest' = interest \cup {"out"} /\ index' = "Added"
         /\ edge' \in BOOLEAN
<1>1. output' = output \o rest /\ output' \in Seq(Nat)
  BY DEF AppendOutput, TypeOK
<1>2. queue' = queue \/ queue' = Append(queue, "highWater")
  BY DEF AppendOutput
<1>3. CASE Writing
  BY <1>1, <1>2, <1>3 DEF AppendOutput, TypeOK
<1>4. CASE ~Writing
  <2>1. EnableWriting
    BY <1>4 DEF AppendOutput
  <2>2. interest' = interest \cup {"out"} /\ index' = "Added"
    BY <2>1 DEF EnableWriting, UpdateChannel
  <2>3. edge' \in BOOLEAN
    BY <2>1 DEF EnableWriting, UpdateChannel, Recheck
  <2> QED BY <1>1, <1>2, <1>4, <2>2, <2>3
<1> QED BY <1>3, <1>4

LEMMA QueueType ==
  ASSUME TypeOK, NEW f \in Functors, queue' = queue \/ queue' = Append(queue, f)
  PROVE  queue' \in Seq(Functors)
<1>1. queue \in Seq(Functors)
  BY DEF TypeOK
<1>2. Append(queue, f) \in Seq(Functors)
  BY <1>1, AppendProperties
<1> QED BY <1>1, <1>2

LEMMA SendType ==
  ASSUME TInv, SendInLoop
  PROVE  /\ output' \in Seq(Nat) /\ wire' \in Seq(Nat) /\ accepted' \in Nat
         /\ interest' \subseteq {"in", "out"} /\ index' \in {"New", "Added", "Deleted"}
         /\ queue' \in Seq(Functors)
         /\ unsent' \in 0..SendSpace /\ noSpace' \in BOOLEAN
         /\ brokenPipe' \in BOOLEAN /\ err' \in BOOLEAN /\ edge' \in BOOLEAN
         /\ UNCHANGED <<state, reported, wr, peer, chunks, sentChunks>>
<1> USE DEF TInv
<1>1. UNCHANGED <<state, reported, wr, peer, chunks, sentChunks>>
  BY SendCases
<1>2. MessageSize \in Nat
  BY SizeAssumption
<1>3. CASE Dropped
  BY <1>1, <1>3 DEF Dropped, TypeOK
<1>4. ASSUME NEW n \in 0..MessageSize, Written(n)
      PROVE  /\ wire' \in Seq(Nat) /\ accepted' \in Nat
             /\ SubSeq(Message, n + 1, MessageSize) \in Seq(Nat)
             /\ unsent' \in 0..SendSpace /\ noSpace' \in BOOLEAN
             /\ brokenPipe' \in BOOLEAN /\ err' \in BOOLEAN
  <2>1. SubSeq(Message, 1, n) \in Seq(Nat) /\ SubSeq(Message, n + 1, MessageSize) \in Seq(Nat)
    BY <1>2, MessageType, SubSeqProperties
  <2>2. /\ wire \in Seq(Nat) /\ accepted \in Nat /\ unsent \in 0..SendSpace
        /\ noSpace \in BOOLEAN /\ brokenPipe \in BOOLEAN /\ err \in BOOLEAN
    BY DEF TypeOK
  <2> HIDE DEF TInv
  <2> QED BY <1>2, <1>4, <2>1, <2>2, ConcatProperties DEF Written
<1>5. CASE /\ Written(MessageSize) /\ queue' = Append(queue, "complete")
           /\ UNCHANGED <<output, interest, index, edge>>
  <2>1. queue' \in Seq(Functors)
    BY <1>5, QueueType DEF Functors
  <2>2. MessageSize \in 0..MessageSize
    BY <1>2
  <2> QED BY <1>1, <1>4, <1>5, <2>1, <2>2 DEF TypeOK
<1>6. ASSUME NEW n \in 0..MessageSize - 1, Written(n),
             AppendOutput(SubSeq(Message, n + 1, MessageSize))
      PROVE  /\ output' \in Seq(Nat) /\ wire' \in Seq(Nat) /\ accepted' \in Nat
             /\ interest' \subseteq {"in", "out"} /\ index' \in {"New", "Added", "Deleted"}
             /\ queue' \in Seq(Functors)
             /\ unsent' \in 0..SendSpace /\ noSpace' \in BOOLEAN
             /\ brokenPipe' \in BOOLEAN /\ err' \in BOOLEAN /\ edge' \in BOOLEAN
  <2>1. n \in 0..MessageSize
    BY <1>2
  <2> DEFINE rest == SubSeq(Message, n + 1, MessageSize)
  <2>2. rest \in Seq(Nat)
    BY <1>4, <1>6, <2>1
  <2> HIDE DEF rest
  <2>3. AppendOutput(rest)
    BY <1>6 DEF rest
  <2>4. queue' \in Seq(Functors)
    BY <2>2, <2>3, AppendType, QueueType DEF Functors
  <2> QED BY <1>4, <1>6, <2>1, <2>2, <2>3, <2>4, AppendType DEF TypeOK
<1> QED BY <1>1, <1>3, <1>5, <1>6, SendCases

\* The buffer that HandleWrite writes from.
LEMMA WriteOutput ==
  ASSUME TypeOK, Write(output), output' = SubSeq(output, Taken(output) + 1, Len(output))
  PROVE  /\ Taken(output) \in 0..Len(output)
         /\ wire' = wire \o SubSeq(output, 1, Taken(output))
         /\ wire' \in Seq(Nat) /\ output' \in Seq(Nat)
         /\ Len(wire') = Len(wire) + Taken(output)
         /\ Len(output') = Len(output) - Taken(output)
         /\ unsent' \in 0..SendSpace /\ noSpace' \in BOOLEAN
<1> DEFINE n == Taken(output)
<1>1. n \in 0..Len(output) /\ unsent + n \in 0..SendSpace
  BY TakenBounds DEF TypeOK
<1>2. wire' = wire \o SubSeq(output, 1, n) /\ unsent' = unsent + n
      /\ noSpace' \in BOOLEAN
  BY DEF Write, TypeOK
<1> HIDE DEF n
<1>3. output \in Seq(Nat) /\ wire \in Seq(Nat) /\ Len(output) \in Nat
  BY DEF TypeOK
<1>4. SubSeq(output, 1, n) \in Seq(Nat) /\ Len(SubSeq(output, 1, n)) = n
  BY <1>1, <1>3, SubSeqProperties
<1>5. /\ SubSeq(output, n + 1, Len(output)) \in Seq(Nat)
      /\ Len(SubSeq(output, n + 1, Len(output))) = Len(output) - n
  BY <1>1, <1>3, SubSeqProperties
<1>6. wire' \in Seq(Nat) /\ Len(wire') = Len(wire) + n
  BY <1>2, <1>3, <1>4, ConcatProperties
<1>7. output' = SubSeq(output, n + 1, Len(output))
  BY DEF n
<1> QED BY <1>1, <1>2, <1>5, <1>6, <1>7 DEF n

LEMMA UpdateType ==
  ASSUME NEW events \in SUBSET {"in", "out"}, UpdateChannel(events)
  PROVE  /\ interest' = events /\ index' \in {"Added", "Deleted"}
         /\ edge' \in BOOLEAN
         /\ events # {} => index' = "Added"
         /\ index' = "Deleted" <=> index = "Added" /\ events = {}
BY DEF UpdateChannel, Recheck

LEMMA ReportableType == Reportable \subseteq {"in", "out", "hup", "err"}
  BY DEF Reportable, Ready

LEMMA CloseType ==
  ASSUME TypeOK, HandleClose
  PROVE  /\ state' = "Disconnected" /\ interest' = {}
         /\ index' \in {"Added", "Deleted"} /\ edge' \in BOOLEAN
         /\ index = "Added" => index' = "Deleted"
         /\ reported' = Append(reported, "down") /\ reported' \in Seq({"up", "down"})
         /\ removing' = removing + 1 /\ Count("closed")
         /\ UNCHANGED <<output, accepted, owned, baseRuns, destroyed>>
<1>1. UpdateChannel({}) /\ {} \in SUBSET {"in", "out"}
  BY DEF HandleClose, DisableAll
<1>2. interest' = {} /\ index' \in {"Added", "Deleted"} /\ edge' \in BOOLEAN
      /\ (index = "Added" => index' = "Deleted")
  BY ONLY <1>1 DEF UpdateChannel, Recheck
<1>3. reported' = Append(reported, "down") /\ state' = "Disconnected"
      /\ removing' = removing + 1 /\ Count("closed")
      /\ UNCHANGED <<output, accepted, owned, baseRuns, destroyed>>
  BY DEF HandleClose, ConnectionCallback
<1>4. reported' \in Seq({"up", "down"})
  BY <1>3 DEF TypeOK
<1> QED BY <1>2, <1>3, <1>4

\* HandleWrite writes, finds the pipe broken, or is not asked to write.
LEMMA WriteCases ==
  ASSUME TypeOK, HandleWrite
  PROVE  /\ phase = "events" /\ "out" \in revents /\ revents' = revents \ {"out"}
         /\ revents \cap {"hup", "err", "in"} = {}
         /\ UNCHANGED <<phase, batch, loopCalls, userVars, accepted, state, reported,
                        peer, chunks, sentChunks, serverVars>>
         /\ brokenPipe' \in BOOLEAN /\ err' \in BOOLEAN
         /\ \/ UNCHANGED <<wire, unsent, noSpace, wr, queue, output, interest,
                           index, edge>>
            \/ /\ Writing /\ CanWrite /\ Write(output)
               /\ output' = SubSeq(output, Taken(output) + 1, Len(output))
               /\ \/ /\ output' = <<>> /\ FinishShutdown /\ DisableWriting
                     /\ queue' = Append(queue, "complete")
                  \/ /\ output' # <<>> \/ Taken(output) = 0
                     /\ UNCHANGED <<wr, queue, interest, index, edge>>
<1>1. /\ phase = "events" /\ "out" \in revents /\ revents' = revents \ {"out"}
      /\ revents \cap {"hup", "err", "in"} = {}
      /\ UNCHANGED <<phase, batch, loopCalls, userVars, accepted, state, reported,
                     peer, chunks, sentChunks, serverVars>>
  BY DEF HandleWrite, Handling
<1>2. brokenPipe' \in BOOLEAN /\ err' \in BOOLEAN
  <2>1. brokenPipe \in BOOLEAN /\ err \in BOOLEAN
    BY DEF TypeOK
  <2>2. IF Writing /\ ~CanWrite THEN FailWrite ELSE UNCHANGED <<brokenPipe, err>>
    BY DEF HandleWrite
  <2> QED BY <2>1, <2>2 DEF FailWrite
<1>3. IF Writing /\ CanWrite
      THEN /\ Write(output)
           /\ output' = SubSeq(output, Taken(output) + 1, Len(output))
           /\ IF output' = <<>> /\ Taken(output) > 0
              THEN /\ FinishShutdown
                   /\ queue' = Append(queue, "complete")
                   /\ DisableWriting
              ELSE UNCHANGED <<wr, queue, interest, index, edge>>
      ELSE UNCHANGED <<wire, unsent, noSpace, wr, queue, output, interest, index, edge>>
  BY DEF HandleWrite
<1>4. CASE Writing /\ CanWrite
  <2>1. Taken(output) \in Nat
    BY TakenBounds DEF TypeOK
  <2>2. CASE output' = <<>> /\ Taken(output) > 0
    <3>1. FinishShutdown /\ queue' = Append(queue, "complete") /\ DisableWriting
      BY <1>3, <1>4, <2>2
    <3> QED BY <1>1, <1>2, <1>3, <1>4, <2>2, <3>1
  <2>3. CASE ~(output' = <<>> /\ Taken(output) > 0)
    <3>1. UNCHANGED <<wr, queue, interest, index, edge>>
      BY <1>3, <1>4, <2>3
    <3>2. output' # <<>> \/ Taken(output) = 0
      BY <2>1, <2>3
    <3> QED BY <1>1, <1>2, <1>3, <1>4, <3>1, <3>2
  <2> QED BY <2>2, <2>3
<1>5. CASE ~(Writing /\ CanWrite)
  BY <1>1, <1>2, <1>3, <1>5
<1> QED BY <1>4, <1>5

\* The types by groups of variables: what keeps a group keeps its types.
ConnT ==
  /\ state \in States
  /\ interest \subseteq {"in", "out"} /\ index \in {"New", "Added", "Deleted"}
  /\ output \in Seq(Nat) /\ accepted \in Nat
  /\ reported \in Seq({"up", "down"})
LoopT ==
  /\ phase \in {"poll", "events", "message", "run", "functor"}
  /\ revents \subseteq {"in", "out", "hup", "err"}
  /\ batch \in Seq(Functors) /\ queue \in Seq(Functors)
  /\ loopCalls \in 0..MaxLoopCalls
UserT ==
  /\ pc \in [Users -> {"idle", "send", "setState", "shutdown"}]
  /\ calls \in [Users -> 0..MaxCalls] /\ revived \in BOOLEAN
SendT ==
  /\ wire \in Seq(Nat) /\ unsent \in 0..SendSpace /\ noSpace \in BOOLEAN
  /\ wr \in {"open", "shut"} /\ brokenPipe \in BOOLEAN
RecvT ==
  /\ peer \in {"open", "fin", "rst"} /\ chunks \in 0..MaxChunks
  /\ sentChunks \in 0..MaxChunks /\ err \in BOOLEAN /\ chunks <= sentChunks
ServerT ==
  /\ owned \in BOOLEAN /\ removing \in Nat
  /\ baseRuns \in BOOLEAN /\ destroyed \in {"no", "whole", "half"}
  /\ ran \in [established : Nat, closed : Nat, destroyed : Nat]
EdgeT == edge \in BOOLEAN

\* Counting a handler keeps the type of the counts.
LEMMA CountType ==
  ASSUME ran \in [established : Nat, closed : Nat, destroyed : Nat],
         Count("established") \/ Count("closed") \/ Count("destroyed")
  PROVE  ran' \in [established : Nat, closed : Nat, destroyed : Nat]
BY DEF Count

LEMMA Groups ==
  /\ TInv <=> ConnT /\ LoopT /\ UserT /\ SendT /\ RecvT /\ ServerT /\ EdgeT
  /\ TInv' <=> ConnT' /\ LoopT' /\ UserT' /\ SendT' /\ RecvT' /\ ServerT' /\ EdgeT'
BY DEF TInv, TypeOK, ConnT, LoopT, UserT, SendT, RecvT, ServerT, EdgeT

LEMMA Kept ==
  ASSUME TInv
  PROVE  /\ UNCHANGED connVars => ConnT'
         /\ UNCHANGED loopVars => LoopT'
         /\ UNCHANGED userVars => UserT'
         /\ UNCHANGED sendVars => SendT'
         /\ UNCHANGED recvVars => RecvT'
         /\ UNCHANGED serverVars => ServerT'
         /\ UNCHANGED edge => EdgeT'
<1>0. ConnT /\ LoopT /\ UserT /\ SendT /\ RecvT /\ ServerT /\ EdgeT
  BY Groups
<1>1. UNCHANGED connVars => ConnT'
  BY <1>0 DEF connVars, ConnT
<1>2. UNCHANGED loopVars => LoopT'
  BY <1>0 DEF loopVars, LoopT
<1>3. UNCHANGED userVars => UserT'
  BY <1>0 DEF userVars, UserT
<1>4. UNCHANGED sendVars => SendT'
  BY <1>0 DEF sendVars, SendT
<1>5. UNCHANGED recvVars => RecvT'
  BY <1>0 DEF recvVars, RecvT
<1>6. UNCHANGED serverVars => ServerT'
  BY <1>0 DEF serverVars, ServerT
<1>7. UNCHANGED edge => EdgeT'
  BY <1>0 DEF EdgeT
<1> QED BY <1>1, <1>2, <1>3, <1>4, <1>5, <1>6, <1>7

\* Recheck alone changes the ready list.
LEMMA RecheckType == Recheck => EdgeT'
BY DEF Recheck, EdgeT

LEMMA TypeNext == TInv /\ [Next]_vars => TInv'
<1> SUFFICES ASSUME TInv, [Next]_vars PROVE TInv'
  OBVIOUS
<1>0. TypeOK /\ ConnT /\ LoopT /\ UserT /\ SendT /\ RecvT /\ ServerT /\ EdgeT
  BY Groups DEF TInv
<1> USE SizeAssumption
<1>1. CASE EpollWait
  <2>1. UNCHANGED <<connVars, userVars, sendVars, recvVars, serverVars>>
    BY <1>1 DEF EpollWait
  <2>2. LoopT'
    BY <1>0, <1>1, ReportableType DEF EpollWait, LoopT
  <2>3. EdgeT'
    BY <1>1 DEF EpollWait, EdgeT
  <2> QED BY <2>1, <2>2, <2>3, Kept, Groups
<1>2. CASE DoPendingFunctors
  <2>1. UNCHANGED <<connVars, userVars, sendVars, recvVars, edge, serverVars>>
    BY <1>2 DEF DoPendingFunctors
  <2>2. LoopT'
    BY <1>0, <1>2 DEF DoPendingFunctors, LoopT
  <2> QED BY <2>1, <2>2, Kept, Groups
<1>c. ASSUME HandleClose PROVE ConnT' /\ ServerT' /\ EdgeT'
  BY <1>0, <1>c, CloseType, CountType DEF ConnT, ServerT, EdgeT, States
<1>3. CASE HandleHangUp
  <2>1. UNCHANGED <<userVars, sendVars, recvVars>>
        /\ UNCHANGED <<phase, queue, batch, loopCalls>> /\ revents' = revents \ {"hup"}
        /\ (UNCHANGED <<connVars, edge, serverVars>> \/ HandleClose)
    BY <1>3 DEF HandleHangUp, Handling
  <2>2. LoopT'
    BY <1>0, <2>1 DEF LoopT
  <2>3. ConnT' /\ ServerT' /\ EdgeT'
    BY <1>c, <2>1, Kept
  <2> QED BY <2>1, <2>2, <2>3, Kept, Groups
<1>4. CASE HandleError
  <2>1. UNCHANGED <<connVars, userVars, sendVars, edge, serverVars>>
        /\ UNCHANGED <<phase, queue, batch, loopCalls>> /\ revents' = revents \ {"err"}
        /\ UNCHANGED <<peer, chunks, sentChunks>> /\ err' = FALSE
    BY <1>4 DEF HandleError, Handling
  <2>2. LoopT' /\ RecvT'
    BY <1>0, <2>1 DEF LoopT, RecvT
  <2> QED BY <2>1, <2>2, Kept, Groups
<1>5. CASE HandleRead
  <2>1. /\ UNCHANGED <<userVars, sendVars>>
        /\ UNCHANGED <<queue, batch, loopCalls, peer, sentChunks>>
        /\ revents' = revents \ {"in"}
    BY <1>5 DEF HandleRead, Handling, sendVars
  <2>2. CASE /\ chunks > 0
             /\ chunks' = chunks - 1
             /\ phase' = "message"
             /\ UNCHANGED <<connVars, err, edge, serverVars>>
    <3>1. LoopT' /\ RecvT'
      BY <1>0, <2>1, <2>2 DEF LoopT, RecvT
    <3> QED BY <2>1, <2>2, <3>1, Kept, Groups
  <2>3. CASE err' = FALSE /\ UNCHANGED <<phase, connVars, chunks, edge, serverVars>>
    <3>1. LoopT' /\ RecvT'
      BY <1>0, <2>1, <2>3 DEF LoopT, RecvT
    <3> QED BY <2>1, <2>3, <3>1, Kept, Groups
  <2>4. CASE UNCHANGED <<phase, chunks, err>> /\ HandleClose
    <3>1. LoopT' /\ RecvT'
      BY <1>0, <2>1, <2>4 DEF LoopT, RecvT
    <3> QED BY <1>c, <2>1, <2>4, <3>1, Kept, Groups
  <2> QED BY <1>5, <2>2, <2>3, <2>4 DEF HandleRead
<1>6. CASE HandleWrite
  <2>1. /\ revents' = revents \ {"out"}
        /\ UNCHANGED <<phase, batch, loopCalls, userVars, accepted, state, reported,
                        peer, chunks, sentChunks, serverVars>>
        /\ brokenPipe' \in BOOLEAN /\ err' \in BOOLEAN
    BY <1>0, <1>6, WriteCases
  <2>2. RecvT'
    BY <1>0, <2>1 DEF RecvT
  <2>3. CASE UNCHANGED <<wire, unsent, noSpace, wr, queue, output, interest, index, edge>>
    <3>1. LoopT' /\ ConnT' /\ SendT'
      BY <1>0, <2>1, <2>3 DEF LoopT, ConnT, SendT
    <3> QED BY <2>1, <2>2, <2>3, <3>1, Kept, Groups
  <2>4. CASE /\ Write(output)
             /\ output' = SubSeq(output, Taken(output) + 1, Len(output))
    <3>1. /\ wire' \in Seq(Nat) /\ output' \in Seq(Nat)
          /\ unsent' \in 0..SendSpace /\ noSpace' \in BOOLEAN
      BY <1>0, <2>4, WriteOutput
    <3>2. CASE FinishShutdown /\ DisableWriting /\ queue' = Append(queue, "complete")
      <4>1. UpdateChannel(interest \ {"out"}) /\ interest \ {"out"} \in SUBSET {"in", "out"}
        BY <1>0, <3>2 DEF DisableWriting, ConnT
      <4>2. interest' = interest \ {"out"} /\ index' \in {"Added", "Deleted"}
            /\ edge' \in BOOLEAN
        BY <4>1, UpdateType
      <4>3. wr' \in {"open", "shut"}
        BY <1>0, <3>2 DEF FinishShutdown, ShutdownWrite, SendT
      <4>4. queue' \in Seq(Functors)
        BY <1>0, <3>2, QueueType DEF Functors
      <4>5. ConnT' /\ EdgeT'
        BY <1>0, <2>1, <3>1, <4>1, <4>2 DEF ConnT, EdgeT
      <4>6. SendT' /\ LoopT'
        BY <1>0, <2>1, <3>1, <4>3, <4>4 DEF SendT, LoopT
      <4> QED BY <2>1, <2>2, <4>5, <4>6, Kept, Groups
    <3>3. CASE UNCHANGED <<wr, queue, interest, index, edge>>
      <4>1. ConnT' /\ SendT' /\ LoopT'
        BY <1>0, <2>1, <3>1, <3>3 DEF ConnT, SendT, LoopT
      <4> QED BY <2>1, <2>2, <3>3, <4>1, Kept, Groups
    <3> QED BY <1>0, <1>6, <2>3, <3>2, <3>3, WriteCases
  <2> QED BY <1>0, <1>6, <2>3, <2>4, WriteCases
<1>s. ASSUME SendInLoop
      PROVE  /\ ConnT' /\ SendT' /\ RecvT' /\ EdgeT'
             /\ queue' \in Seq(Functors)
  <2>1. ConnT'
    BY <1>0, <1>s, SendType DEF ConnT
  <2>2. SendT'
    BY <1>0, <1>s, SendType DEF SendT
  <2>3. RecvT'
    BY <1>0, <1>s, SendType DEF RecvT
  <2> QED BY <1>s, <2>1, <2>2, <2>3, SendType DEF EdgeT
<1>w. ASSUME ShutdownUnlessWriting, UNCHANGED <<wire, unsent, noSpace, brokenPipe>>
      PROVE  SendT' /\ EdgeT'
  <2>1. wr' \in {"open", "shut"}
    BY <1>0, <1>w DEF ShutdownUnlessWriting, ShutdownWrite, SendT
  <2>2. EdgeT'
    BY <1>0, <1>w, RecheckType DEF ShutdownUnlessWriting, EdgeT
  <2> QED BY <1>0, <1>w, <2>1, <2>2 DEF SendT
<1>7. CASE RunFunctor
  <2>1. /\ phase' \in {"run", "functor"} /\ batch' = Tail(batch) /\ batch # <<>>
        /\ UNCHANGED <<revents, loopCalls, userVars>>
        /\ UNCHANGED <<owned, removing, baseRuns>>
        /\ Head(batch) # "destroy" => UNCHANGED destroyed
        /\ Head(batch) \notin {"established", "destroy"} => UNCHANGED ran
    BY <1>7 DEF RunFunctor
  <2>2. batch' \in Seq(Functors)
    BY <1>0, <2>1, HeadTailProperties DEF LoopT
  <2>3. ASSUME queue' \in Seq(Functors) PROVE LoopT'
    BY <1>0, <2>1, <2>2, <2>3 DEF LoopT
  <2>4. Head(batch) \notin {"established", "destroy"} => ServerT'
    BY <1>0, <2>1 DEF ServerT
  <2>5. CASE Head(batch) = "established" /\ ConnectEstablished
    <3>1. UpdateChannel(interest \cup {"in"}) /\ interest \cup {"in"} \in SUBSET {"in", "out"}
      BY <1>0, <2>5 DEF ConnectEstablished, EnableReading, ConnT
    <3>2. interest' \subseteq {"in", "out"} /\ index' \in {"Added", "Deleted"}
          /\ edge' \in BOOLEAN
      BY <3>1, UpdateType
    <3>3. UNCHANGED <<output, accepted, reported, queue, sendVars, recvVars>>
          /\ state' = "Connected" /\ Count("established")
      BY <2>5 DEF ConnectEstablished
    <3>4. ConnT' /\ EdgeT' /\ LoopT'
      BY <1>0, <2>3, <3>2, <3>3 DEF ConnT, EdgeT, States, LoopT
    <3>5. ServerT'
      BY <1>0, <2>1, <2>5, <3>3, CountType DEF ServerT
    <3> QED BY <2>1, <3>3, <3>4, <3>5, Kept, Groups
  <2>6. CASE Head(batch) = "send" /\ SendInLoop
    BY <1>s, <2>1, <2>3, <2>4, <2>6, Kept, Groups
  <2>7. CASE Head(batch) = "shutdown" /\ ShutdownInLoop
    <3>1. UNCHANGED <<connVars, queue, wire, unsent, noSpace, brokenPipe, recvVars>>
          /\ ShutdownUnlessWriting
      BY <2>7 DEF ShutdownInLoop
    <3>2. queue' \in Seq(Functors)
      BY <1>0, <3>1 DEF LoopT
    <3> QED BY <1>w, <2>1, <2>3, <2>4, <2>7, <3>1, <3>2, Kept, Groups
  <2>8. CASE Head(batch) = "destroy" /\ ConnectDestroyed
    <3>1. UNCHANGED <<output, accepted, queue, sendVars, recvVars>>
          /\ index' = "New" /\ edge' = FALSE /\ destroyed' \in {"half", "whole"}
          /\ Count("destroyed")
      BY <2>8 DEF ConnectDestroyed, RemoveChannel
    <3>2. ConnT'
      <4>1. CASE state = "Connected"
        <5>1. state' = "Disconnected" /\ interest' = {}
              /\ reported' = Append(reported, "down")
          BY <2>8, <4>1 DEF ConnectDestroyed, ConnectionCallback
        <5> QED BY <1>0, <3>1, <5>1 DEF ConnT, States
      <4>2. CASE state # "Connected"
        <5>1. UNCHANGED <<state, interest, reported>>
          BY <2>8, <4>2 DEF ConnectDestroyed
        <5> QED BY <1>0, <3>1, <5>1 DEF ConnT
      <4> QED BY <4>1, <4>2
    <3>3. LoopT' /\ ServerT' /\ EdgeT'
      BY <1>0, <2>1, <2>3, <3>1, CountType DEF LoopT, ServerT, EdgeT
    <3> QED BY <2>1, <3>1, <3>2, <3>3, Kept, Groups
  <2>9. CASE UNCHANGED <<connVars, queue, sendVars, recvVars, edge>>
             /\ Head(batch) \notin {"established", "destroy"}
    <3>1. LoopT'
      BY <1>0, <2>3, <2>9 DEF LoopT
    <3> QED BY <2>1, <2>4, <2>9, <3>1, Kept, Groups
  <2> QED BY <1>7, <2>5, <2>6, <2>7, <2>8, <2>9 DEF RunFunctor
<1>8. CASE EndPendingFunctors \/ CallbackReturns
  <2>1. UNCHANGED <<connVars, userVars, sendVars, recvVars, edge, serverVars>>
        /\ UNCHANGED <<revents, batch, queue, loopCalls>>
        /\ phase' \in {"poll", "events", "run"}
    BY <1>8 DEF EndPendingFunctors, CallbackReturns
  <2>2. LoopT'
    BY <1>0, <2>1 DEF LoopT
  <2> QED BY <2>1, <2>2, Kept, Groups
<1>f. ASSUME CallFromLoop, queue' \in Seq(Functors)
      PROVE  LoopT' /\ UNCHANGED <<userVars, serverVars>>
  <2>1. loopCalls < MaxLoopCalls /\ loopCalls' = loopCalls + 1
        /\ UNCHANGED <<phase, revents, batch, userVars, serverVars>>
    BY <1>f DEF CallFromLoop
  <2> QED BY <1>0, <1>f, <2>1 DEF LoopT
<1>9. CASE Send
  <2>1. CallFromLoop /\ SendInLoop
    BY <1>9 DEF Send
  <2> QED BY <1>s, <1>f, <2>1, Kept, Groups
<1>10. CASE Shutdown
  <2>1. /\ CallFromLoop /\ state' = "Disconnecting"
        /\ UNCHANGED <<interest, index, output, accepted, reported>>
        /\ UNCHANGED <<queue, wire, unsent, noSpace, brokenPipe, recvVars>>
        /\ ShutdownUnlessWriting
    BY <1>10 DEF Shutdown
  <2>2. ConnT' /\ queue' \in Seq(Functors)
    BY <1>0, <2>1 DEF ConnT, States, LoopT
  <2> QED BY <1>w, <1>f, <2>1, <2>2, Kept, Groups
<1>11. ASSUME NEW u \in Users, BeginSend(u) \/ BeginShutdown(u)
       PROVE  TInv'
  <2>1. PICK call \in {"send", "setState"} : Begin(u, call)
    BY <1>11 DEF BeginSend, BeginShutdown
  <2>2. /\ UNCHANGED <<connVars, loopVars, sendVars, recvVars, edge, serverVars>>
        /\ calls[u] < MaxCalls /\ calls' = [calls EXCEPT ![u] = @ + 1]
        /\ pc' = [pc EXCEPT ![u] = call] /\ revived' = revived
    BY <2>1 DEF Begin
  <2>3. UserT'
    BY <1>0, <2>2 DEF UserT
  <2> QED BY <2>2, <2>3, Kept, Groups
<1>12. ASSUME NEW u \in Users, SetDisconnecting(u)
       PROVE  TInv'
  <2>1. UNCHANGED <<loopVars, sendVars, recvVars, edge, serverVars>>
        /\ UNCHANGED <<interest, index, output, accepted, reported, calls>>
        /\ state' = "Disconnecting" /\ pc' = [pc EXCEPT ![u] = "shutdown"]
        /\ revived' \in BOOLEAN
    BY <1>12 DEF SetDisconnecting
  <2>2. ConnT' /\ UserT'
    BY <1>0, <2>1 DEF ConnT, States, UserT
  <2> QED BY <2>1, <2>2, Kept, Groups
<1>13. ASSUME NEW u \in Users, QueueInLoop(u)
       PROVE  TInv'
  <2>1. /\ UNCHANGED <<connVars, sendVars, recvVars, edge, serverVars>>
        /\ UNCHANGED <<phase, revents, batch, loopCalls, calls, revived>>
        /\ pc[u] \in {"send", "shutdown"} /\ queue' = Append(queue, pc[u])
        /\ pc' = [pc EXCEPT ![u] = "idle"]
    BY <1>13 DEF QueueInLoop
  <2>2. queue' \in Seq(Functors)
    <3>1. pc[u] \in Functors
      BY <2>1 DEF Functors
    <3> QED BY <1>0, <2>1, <3>1, AppendProperties DEF LoopT
  <2>3. LoopT' /\ UserT'
    BY <1>0, <2>1, <2>2 DEF LoopT, UserT
  <2> QED BY <2>1, <2>3, Kept, Groups
<1>14. CASE RemoveConnectionInLoop \/ ServerDestroyed
  <2>1. /\ queue' = Append(queue, "destroy")
        /\ owned' \in BOOLEAN
        /\ baseRuns' \in {baseRuns, FALSE}
        /\ UNCHANGED <<phase, revents, batch, loopCalls, destroyed, ran>>
        /\ UNCHANGED <<connVars, userVars, sendVars, recvVars, edge>>
    BY <1>14 DEF RemoveConnectionInLoop, ServerDestroyed
  <2>2. queue' \in Seq(Functors)
    BY <1>0, <2>1, QueueType DEF Functors
  <2>3. removing' \in Nat
    BY <1>0, <1>14 DEF RemoveConnectionInLoop, ServerDestroyed, ServerT
  <2>4. LoopT' /\ ServerT'
    BY <1>0, <2>1, <2>2, <2>3 DEF LoopT, ServerT
  <2> QED BY <2>1, <2>4, Kept, Groups
<1>15. CASE PeerSends \/ PeerCloses \/ PeerResets
  <2>1. /\ UNCHANGED <<connVars, loopVars, userVars, sendVars, serverVars>>
        /\ Recheck
    BY <1>15 DEF PeerSends, PeerCloses, PeerResets
  <2>2. RecvT'
    <3>1. peer' \in {"open", "fin", "rst"} /\ err' \in BOOLEAN
      BY <1>0, <1>15 DEF PeerSends, PeerCloses, PeerResets, RecvT
    <3>2. chunks' \in 0..MaxChunks /\ sentChunks' \in 0..MaxChunks /\ chunks' <= sentChunks'
      BY <1>0, <1>15 DEF PeerSends, PeerCloses, PeerResets, RecvT
    <3> QED BY <3>1, <3>2 DEF RecvT
  <2> QED BY <2>1, <2>2, RecheckType, Kept, Groups
<1>16. CASE PeerReads
  <2>1. /\ UNCHANGED <<connVars, loopVars, userVars, recvVars, serverVars>>
        /\ UNCHANGED <<wire, wr, brokenPipe>>
        /\ unsent > 0 /\ unsent' = unsent - 1 /\ noSpace' = FALSE
        /\ Recheck \/ UNCHANGED edge
    BY <1>16 DEF PeerReads
  <2>2. SendT'
    <3>1. noSpace' \in BOOLEAN
      BY <2>1
    <3>2. unsent' \in 0..SendSpace
      BY <1>0, <2>1 DEF SendT
    <3> QED BY <1>0, <2>1, <3>1, <3>2 DEF SendT
  <2> QED BY <2>1, <2>2, RecheckType, Kept, Groups
<1>17. CASE UNCHANGED vars
  BY <1>17, Kept, Groups DEF vars
<1> QED
  BY <1>1, <1>2, <1>3, <1>4, <1>5, <1>6, <1>7, <1>8, <1>9, <1>10, <1>11, <1>12,
     <1>13, <1>14, <1>15, <1>16, <1>17
  DEF Next, LoopStep, UserStep

LEMMA TypeInit == Init => TInv
<1> SUFFICES ASSUME Init PROVE TInv
  OBVIOUS
<1>1. LoopT
  BY SizeAssumption DEF Init, Functors, LoopT
<1>2. ConnT
  BY DEF Init, ConnT, States
<1>3. UserT
  <2>1. revived \in BOOLEAN
    BY DEF Init
  <2> QED BY <2>1, SizeAssumption DEF Init, UserT
<1>4. SendT
  <2>1. noSpace \in BOOLEAN /\ brokenPipe \in BOOLEAN
    BY DEF Init
  <2> QED BY <2>1, SizeAssumption DEF Init, SendT
<1>5. RecvT
  <2>1. err \in BOOLEAN
    BY DEF Init
  <2> QED BY <2>1, SizeAssumption DEF Init, RecvT
<1>6. ServerT /\ EdgeT
  BY DEF Init, ServerT, EdgeT
<1> QED BY <1>1, <1>2, <1>3, <1>4, <1>5, <1>6, Groups

\* The variables of a connection keep their types; in particular the send
\* buffer of the socket never holds more than it has room for, and no more
\* chunks are read than were sent.
THEOREM TypeCorrect == Spec => []TypeOK
<1>1. TInv => TypeOK
  BY DEF TInv
<1> QED BY <1>1, TypeInit, TypeNext, PTL DEF Spec

-----------------------------------------------------------------------------
(***************************************************************************)
(* The stream                                                              *)
(***************************************************************************)
\* The bytes from..to of the stream, in order.
Bytes(b, from) == \A k \in 1..Len(b) : b[k] = from + k

LEMMA BytesJoin ==
  ASSUME NEW b \in Seq(Nat), NEW c \in Seq(Nat), NEW from \in Nat,
         Bytes(b, from), Bytes(c, from + Len(b))
  PROVE  /\ b \o c \in Seq(Nat) /\ Len(b \o c) = Len(b) + Len(c)
         /\ Bytes(b \o c, from)
<1>1. b \o c \in Seq(Nat) /\ Len(b \o c) = Len(b) + Len(c)
  BY ConcatProperties
<1>2. ASSUME NEW k \in 1..Len(b \o c) PROVE (b \o c)[k] = from + k
  <2>1. (b \o c)[k] = IF k <= Len(b) THEN b[k] ELSE c[k - Len(b)]
    BY <1>1, ConcatProperties
  <2>2. CASE k <= Len(b)
    BY <2>1, <2>2 DEF Bytes
  <2>3. CASE ~(k <= Len(b))
    <3>1. k - Len(b) \in 1..Len(c)
      BY <1>1, <2>3
    <3>2. c[k - Len(b)] = from + Len(b) + (k - Len(b))
      BY <3>1 DEF Bytes
    <3>3. Len(b) \in Nat /\ k \in Nat
      OBVIOUS
    <3> QED BY <2>1, <2>3, <3>2, <3>3
  <2> QED BY <2>2, <2>3
<1> QED BY <1>1, <1>2 DEF Bytes

LEMMA BytesPart ==
  ASSUME NEW b \in Seq(Nat), NEW from \in Nat, NEW m \in 0..Len(b),
         NEW n \in m..Len(b), Bytes(b, from)
  PROVE  /\ SubSeq(b, m + 1, n) \in Seq(Nat) /\ Len(SubSeq(b, m + 1, n)) = n - m
         /\ Bytes(SubSeq(b, m + 1, n), from + m)
<1>1. /\ SubSeq(b, m + 1, n) \in Seq(Nat) /\ Len(SubSeq(b, m + 1, n)) = n - m
      /\ \A i \in 1..n - m : SubSeq(b, m + 1, n)[i] = b[m + i]
  <2> DEFINE first == m + 1
  <2>1. \A i \in first..n : b[i] \in Nat
    OBVIOUS
  <2>2. first \in Int /\ n \in Int
    OBVIOUS
  <2> HIDE DEF first
  <2>3. /\ SubSeq(b, first, n) \in Seq(Nat)
        /\ Len(SubSeq(b, first, n)) = IF first <= n THEN n - first + 1 ELSE 0
        /\ \A i \in 1..n - first + 1 : SubSeq(b, first, n)[i] = b[first + i - 1]
    BY ONLY <2>1, <2>2, SubSeqProperties
  <2> QED BY <2>3 DEF first
<1>2. \A i \in 1..n - m : m + i \in 1..Len(b)
  OBVIOUS
<1> QED BY <1>1, <1>2 DEF Bytes

\* StreamInOrder: wire and output join, and end at accepted.
LEMMA StreamIsBytes ==
  /\ StreamInOrder <=> /\ Len(wire) + Len(output) = accepted
                       /\ Bytes(wire, 0) /\ Bytes(output, Len(wire))
  /\ StreamInOrder' <=> /\ Len(wire') + Len(output') = accepted'
                        /\ Bytes(wire', 0) /\ Bytes(output', Len(wire'))
<1>1. \A b : Bytes(b, 0) <=> \A k \in 1..Len(b) : b[k] = k
  BY DEF Bytes
<1> QED BY <1>1 DEF StreamInOrder, Bytes

\* SendInLoop adds the message at the end of the stream.
LEMMA SendStream ==
  ASSUME TInv, StreamInOrder, SendInLoop
  PROVE  StreamInOrder'
<1> DEFINE Size == MessageSize
<1>0. /\ output \in Seq(Nat) /\ wire \in Seq(Nat) /\ accepted \in Nat
      /\ Size \in Nat /\ Size > 0
      /\ Len(wire) \in Nat /\ Len(output) \in Nat /\ TypeOK
  BY SizeAssumption DEF TInv, TypeOK
<1>1. Len(wire) + Len(output) = accepted /\ Bytes(wire, 0) /\ Bytes(output, Len(wire))
  BY StreamIsBytes
<1>2. Message \in Seq(Nat) /\ Len(Message) = Size /\ Bytes(Message, accepted)
  BY <1>0, MessageType DEF Bytes
<1>3. ASSUME NEW n \in 0..Size, Written(n), n > 0 => output = <<>>
      PROVE  /\ Len(wire') = Len(wire) + n /\ Bytes(wire', 0)
             /\ accepted' = accepted + Size
  <2>1. SubSeq(Message, 1, n) \in Seq(Nat) /\ Len(SubSeq(Message, 1, n)) = n
        /\ Bytes(SubSeq(Message, 1, n), accepted)
    <3>1. 0 \in 0..Len(Message) /\ n \in 0..Len(Message) /\ 0 + 1 = 1
          /\ accepted + 0 = accepted /\ n - 0 = n
      BY <1>0, <1>2
    <3>2. /\ SubSeq(Message, 0 + 1, n) \in Seq(Nat)
          /\ Len(SubSeq(Message, 0 + 1, n)) = n - 0
          /\ Bytes(SubSeq(Message, 0 + 1, n), accepted + 0)
      <4>1. Message \in Seq(Nat) /\ accepted \in Nat /\ Bytes(Message, accepted)
        BY <1>0, <1>2
      <4> QED BY ONLY <3>1, <4>1, BytesPart
    <3> QED BY <3>1, <3>2
  <2>2. wire' = wire \o SubSeq(Message, 1, n) /\ accepted' = accepted + Size
    BY <1>3 DEF Written
  <2>3. CASE n = 0
    <3>1. SubSeq(Message, 1, n) = <<>>
      BY <2>1, <2>3
    <3>2. wire' = wire
      BY <1>0, <2>2, <3>1, ConcatEmptySeq
    <3>3. Len(wire') = Len(wire) + n
      BY <1>0, <2>3, <3>2
    <3> QED BY <1>1, <2>2, <3>2, <3>3
  <2>4. CASE n > 0
    <3>1. accepted = Len(wire)
      BY <1>0, <1>1, <1>3, <2>4
    <3>2. accepted = 0 + Len(wire)
      BY <1>0, <3>1
    <3> QED BY <1>0, <1>1, <2>1, <2>2, <3>2, BytesJoin
  <2> QED BY <1>0, <2>3, <2>4
<1>4. MayWriteDirectly => output = <<>>
  BY DEF MayWriteDirectly
<1>5. CASE Dropped
  BY <1>1, <1>5, StreamIsBytes DEF Dropped
<1>6. CASE MayWriteDirectly /\ Written(Size) /\ output' = output
  <2>1. Size \in 0..Size
    BY <1>0
  <2>2. Len(wire') = Len(wire) + Size /\ Bytes(wire', 0) /\ accepted' = accepted + Size
    BY <1>3, <1>4, <1>6, <2>1
  <2>3. Bytes(output', Len(wire')) /\ Len(output') = 0 /\ Len(output) = 0
    BY <1>4, <1>6 DEF Bytes
  <2> QED BY <1>0, <1>1, <2>2, <2>3, StreamIsBytes
<1>7. ASSUME NEW n \in 0..Size - 1, n > 0 => MayWriteDirectly, Written(n),
             AppendOutput(SubSeq(Message, n + 1, Size))
      PROVE  StreamInOrder'
  <2>1. n \in 0..Size
    BY <1>0
  <2>2. Len(wire') = Len(wire) + n /\ Bytes(wire', 0) /\ accepted' = accepted + Size
    BY <1>3, <1>4, <1>7, <2>1
  <2> DEFINE rest == SubSeq(Message, n + 1, Size)
  <2>3. rest \in Seq(Nat) /\ Len(rest) = Size - n /\ Bytes(rest, accepted + n)
    <3>1. n \in 0..Len(Message) /\ Size \in n..Len(Message)
      BY <1>0, <1>2, <2>1
    <3> QED BY <1>0, <1>2, <3>1, BytesPart
  <2> HIDE DEF rest
  <2>4. output' = output \o rest
    BY <1>7 DEF AppendOutput, rest
  <2>5. Bytes(output, Len(wire) + n) /\ accepted + n = (Len(wire) + n) + Len(output)
    <3>1. CASE n = 0
      BY <1>0, <1>1, <3>1
    <3>2. CASE n > 0
      <4>1. output = <<>> /\ Len(output) = 0
        BY <1>4, <1>7, <3>2
      <4> QED BY <1>0, <1>1, <4>1 DEF Bytes
    <3> QED BY <3>1, <3>2, <1>0
  <2>6. Len(wire) + n \in Nat
    BY <1>0, <2>1
  <2>7. Len(output') = Len(output) + Len(rest) /\ Bytes(output', Len(wire) + n)
    <3>1. Bytes(rest, (Len(wire) + n) + Len(output))
      BY <2>3, <2>5
    <3> QED BY <1>0, <2>3, <2>4, <2>5, <2>6, <3>1, BytesJoin
  <2>8. Len(wire') + Len(output') = accepted'
    <3>1. Len(rest) = Size - n /\ Len(wire') = Len(wire) + n
          /\ Len(output') = Len(output) + Len(rest)
          /\ Len(wire) + Len(output) = accepted /\ accepted' = accepted + Size
      BY <1>1, <2>2, <2>3, <2>7
    <3>2. n \in Nat /\ Len(wire) \in Nat /\ Len(output) \in Nat /\ Size \in Nat
      BY <1>0
    <3> HIDE DEF Size
    <3> QED BY ONLY <3>1, <3>2
  <2> QED BY <2>2, <2>7, <2>8, StreamIsBytes
<1> QED BY <1>0, <1>5, <1>6, <1>7, SendCases

\* HandleWrite moves bytes from the front of output to the end of wire.
LEMMA WriteStream ==
  ASSUME TInv, StreamInOrder, HandleWrite
  PROVE  StreamInOrder'
<1>0. /\ output \in Seq(Nat) /\ wire \in Seq(Nat) /\ accepted \in Nat /\ TypeOK
      /\ Len(wire) \in Nat /\ Len(output) \in Nat
  BY DEF TInv, TypeOK
<1>1. Len(wire) + Len(output) = accepted /\ Bytes(wire, 0) /\ Bytes(output, Len(wire))
  BY StreamIsBytes
<1>2. accepted' = accepted
  BY <1>0, WriteCases
<1>3. CASE UNCHANGED <<wire, output>>
  BY <1>1, <1>2, <1>3, StreamIsBytes
<1>4. CASE /\ Write(output)
           /\ output' = SubSeq(output, Taken(output) + 1, Len(output))
  <2> DEFINE n == Taken(output)
  <2>1. /\ n \in 0..Len(output) /\ wire' = wire \o SubSeq(output, 1, n)
        /\ Len(wire') = Len(wire) + n /\ Len(output') = Len(output) - n
        /\ output' = SubSeq(output, n + 1, Len(output))
    BY <1>0, <1>4, WriteOutput
  <2> HIDE DEF n
  <2>2. Bytes(output', Len(wire) + n)
    <3>1. Len(output) \in n..Len(output)
      BY <1>0, <2>1
    <3> QED BY <1>0, <1>1, <2>1, <3>1, BytesPart
  <2>3. Bytes(wire', 0)
    <3>1. 0 \in 0..Len(output) /\ n \in 0..Len(output) /\ 0 + 1 = 1
          /\ Len(wire) + 0 = Len(wire) /\ 0 + Len(wire) = Len(wire)
      BY <1>0, <2>1
    <3>2. /\ SubSeq(output, 0 + 1, n) \in Seq(Nat)
          /\ Bytes(SubSeq(output, 0 + 1, n), Len(wire) + 0)
      BY <1>0, <1>1, <3>1, BytesPart
    <3>3. /\ SubSeq(output, 1, n) \in Seq(Nat)
          /\ Bytes(SubSeq(output, 1, n), 0 + Len(wire))
      BY <3>1, <3>2
    <3> QED BY <1>0, <1>1, <2>1, <3>3, BytesJoin
  <2>4. Len(wire') + Len(output') = accepted'
    <3>1. Len(wire') = Len(wire) + n /\ Len(output') = Len(output) - n
          /\ Len(wire) + Len(output) = accepted /\ accepted' = accepted
      BY <1>1, <1>2, <2>1
    <3>2. n \in Nat /\ Len(wire) \in Nat /\ Len(output) \in Nat
      BY <1>0, <2>1
    <3> QED BY ONLY <3>1, <3>2
  <2> QED BY <2>1, <2>2, <2>3, <2>4, StreamIsBytes
<1> QED BY <1>0, <1>3, <1>4, WriteCases

\* Every step sends, writes, or leaves the stream alone.
LEMMA StreamSteps ==
  ASSUME TInv, [Next]_vars
  PROVE  SendInLoop \/ HandleWrite \/ UNCHANGED <<wire, output, accepted>>
<1> USE DEF connVars, sendVars
<1>c. HandleClose => UNCHANGED <<output, accepted>>
  BY DEF HandleClose
<1>1. CASE LoopStep
  BY <1>1, <1>c DEF LoopStep, EpollWait, DoPendingFunctors, HandleHangUp, HandleError,
     HandleRead, EndPendingFunctors, CallbackReturns, RunFunctor, ConnectEstablished,
     ShutdownInLoop, ConnectDestroyed
<1>2. CASE Send \/ Shutdown
  BY <1>2 DEF Send, Shutdown
<1>3. ASSUME NEW u \in Users, BeginSend(u) \/ BeginShutdown(u) \/ UserStep(u)
      PROVE  UNCHANGED <<wire, output, accepted>>
  BY <1>3 DEF BeginSend, BeginShutdown, Begin, UserStep, SetDisconnecting, QueueInLoop
<1>4. CASE RemoveConnectionInLoop \/ ServerDestroyed
  BY <1>4 DEF RemoveConnectionInLoop, ServerDestroyed
<1>5. CASE PeerSends \/ PeerCloses \/ PeerResets \/ PeerReads
  BY <1>5 DEF PeerSends, PeerCloses, PeerResets, PeerReads
<1>6. CASE UNCHANGED vars
  BY <1>6 DEF vars
<1> QED BY <1>1, <1>2, <1>3, <1>4, <1>5, <1>6 DEF Next

LEMMA StreamNext == TInv /\ StreamInOrder /\ [Next]_vars => StreamInOrder'
<1> SUFFICES ASSUME TInv, StreamInOrder, [Next]_vars PROVE StreamInOrder'
  OBVIOUS
<1>1. CASE UNCHANGED <<wire, output, accepted>>
  BY <1>1 DEF StreamInOrder
<1> QED BY <1>1, StreamSteps, SendStream, WriteStream

\* What the kernel was given and what is buffered are exactly the accepted
\* bytes in order, however Sends, partial writes and EPOLLOUT interleave.
THEOREM StreamCorrect == Spec => []StreamInOrder
<1>1. Init => StreamInOrder
  BY DEF Init, StreamInOrder
<1> QED BY <1>1, TypeInit, TypeNext, StreamNext, PTL DEF Spec

-----------------------------------------------------------------------------
(***************************************************************************)
(* The states of the connection and of its channel                         *)
(***************************************************************************)
\* What each place of the loop has done with.
PlaceInv ==
  /\ phase \notin {"run", "functor"} => batch = <<>>
  /\ phase \notin {"events", "message"} => revents = {}

\* ConnectEstablished is the first functor, and only a new connection has it.
FirstInv ==
  /\ \A i \in 1..Len(batch) :
       batch[i] = "established" => i = 1 /\ state = "Connecting" /\ phase = "run"
  /\ \A i \in 1..Len(queue) :
       queue[i] = "established" => i = 1 /\ state = "Connecting" /\ phase = "poll"

\* Nothing has happened to a new connection.
NewInv ==
  state = "Connecting" =>
    /\ interest = {} /\ index = "New" /\ edge = FALSE
    /\ output = <<>> /\ reported = <<>> /\ destroyed = "no" /\ revived = FALSE
    /\ \A u \in Users : pc[u] = "idle"
    /\ \/ phase = "poll" /\ queue # <<>> /\ queue[1] = "established"
       \/ phase = "run" /\ batch # <<>> /\ batch[1] = "established"

\* The end of a connection has been reported, and only the end is.
DownInv ==
  /\ state = "Disconnected" \/ revived => reported # <<>>
  /\ Len(reported) <= 1 \/ revived
  /\ reported # <<>> => state = "Disconnected" \/ revived

\* The channel of a connection that is up listens, also between two of its
\* events; that of one that is down is out of epoll and expects no event that
\* would close it again.
ListenInv ==
  revived \/
  /\ state = "Disconnected" =>
       interest = {} /\ index # "Added" /\ revents \cap {"in", "hup"} = {}
  /\ state \in {"Connected", "Disconnecting"} => "in" \in interest
  /\ state \in {"Connected", "Disconnecting"} /\ phase \in {"events", "message"}
       => index = "Added"

FinalInv ==
  destroyed = "whole" => revived \/ (state = "Disconnected" /\ index = "New")

StateInv ==
  PlaceInv /\ FirstInv /\ NewInv /\ DownInv /\ ListenInv /\ FinalInv
  /\ WritingIffPending /\ NoDataBehindFin

\* The queue has only grown, and not by ConnectEstablished.
Grown ==
  /\ \A i \in 1..Len(queue') :
       queue'[i] = "established" => i \in 1..Len(queue) /\ queue[i] = "established"
  /\ queue # <<>> => queue' # <<>> /\ queue'[1] = queue[1]

LEMMA AppendGrows ==
  ASSUME TInv, NEW f \in Functors \ {"established"},
         queue' = queue \/ queue' = Append(queue, f)
  PROVE  Grown
<1>1. queue \in Seq(Functors)
  BY DEF TInv, TypeOK
<1>2. CASE queue' = queue
  BY <1>2 DEF Grown
<1>3. CASE queue' = Append(queue, f)
  <2>1. /\ Len(queue') = Len(queue) + 1 /\ queue' # <<>>
        /\ \A i \in 1..Len(queue) : queue'[i] = queue[i]
        /\ queue'[Len(queue) + 1] = f
    BY <1>1, <1>3, AppendProperties
  <2>2. ASSUME NEW i \in 1..Len(queue'), queue'[i] = "established"
        PROVE  i \in 1..Len(queue) /\ queue[i] = "established"
    <3>1. i # Len(queue) + 1
      BY <2>1, <2>2
    <3>2. i \in 1..Len(queue)
      BY <1>1, <2>1, <3>1
    <3> QED BY <2>1, <2>2, <3>2
  <2>3. queue # <<>> => 1 \in 1..Len(queue)
    BY <1>1
  <2> QED BY <2>1, <2>2, <2>3 DEF Grown
<1> QED BY <1>2, <1>3

\* What SendInLoop means for the channel and the buffer.
LEMMA SendState ==
  ASSUME TInv, SendInLoop
  PROVE  /\ UNCHANGED <<state, reported, wr>> /\ Grown
         /\ \/ UNCHANGED <<output, interest, index, edge>>
            \/ /\ state # "Disconnected" /\ output' # <<>>
               /\ MayWriteDirectly => wr = "open"
               /\ \/ Writing /\ UNCHANGED <<interest, index, edge>>
                  \/ ~Writing /\ interest' = interest \cup {"out"} /\ index' = "Added"
<1>0. TypeOK /\ UNCHANGED <<state, reported, wr>> /\ MessageSize \in Nat
  BY SendCases, SizeAssumption DEF TInv
<1>d. "complete" \in Functors \ {"established"} /\ "highWater" \in Functors \ {"established"}
  BY DEF Functors
<1>1. CASE state = "Disconnected" \/ (MayWriteDirectly /\ ~CanWrite)
  <2>1. UNCHANGED <<output, interest, index, edge, queue>>
    BY <1>1 DEF SendInLoop, DropMessage, connVars
  <2> QED BY <1>0, <2>1 DEF Grown
<1>2. CASE ~(state = "Disconnected" \/ (MayWriteDirectly /\ ~CanWrite))
  <2>1. CASE Dropped
    BY <1>0, <2>1 DEF Dropped, Grown
  <2>2. CASE queue' = Append(queue, "complete") /\ UNCHANGED <<output, interest, index, edge>>
    BY <1>0, <1>d, <2>2, AppendGrows
  <2>3. ASSUME NEW n \in 0..MessageSize - 1,
               AppendOutput(SubSeq(Message, n + 1, MessageSize))
        PROVE  /\ Grown /\ output' # <<>>
               /\ \/ Writing /\ UNCHANGED <<interest, index, edge>>
                  \/ ~Writing /\ interest' = interest \cup {"out"} /\ index' = "Added"
    <3> DEFINE rest == SubSeq(Message, n + 1, MessageSize)
    <3>1. rest \in Seq(Nat) /\ Len(rest) > 0
      BY <1>0, MessageType, SubSeqProperties
    <3> HIDE DEF rest
    <3>2. AppendOutput(rest)
      BY <2>3 DEF rest
    <3>3. output' = output \o rest /\ Grown
      BY <1>0, <1>d, <3>1, <3>2, AppendType, AppendGrows
    <3>4. output' # <<>>
      <4>1. rest # <<>> /\ output \in Seq(Nat)
        BY <1>0, <3>1 DEF TypeOK
      <4> QED BY <3>1, <3>3, <4>1, ConcatEqualIffEmpty
    <3> QED BY <1>0, <3>1, <3>2, <3>3, <3>4, AppendType
  <2> QED BY <1>0, <1>2, <2>1, <2>2, <2>3, SendCases DEF CanWrite
<1> QED BY <1>1, <1>2

-----------------------------------------------------------------------------
\* A step that changes neither the state of the connection nor that of its
\* channel or of the loop.
LEMMA StateKept ==
  ASSUME StateInv, Grown, revents' \subseteq revents,
         UNCHANGED <<state, interest, index, output, reported, destroyed, revived,
                     phase, batch, wr>>,
         state = "Connecting" => UNCHANGED pc /\ edge' = FALSE
  PROVE  StateInv'
<1> USE DEF StateInv
<1>1. PlaceInv'
  BY DEF PlaceInv
<1>2. FirstInv'
  BY DEF FirstInv, Grown
<1>3. NewInv'
  BY DEF NewInv, Grown
<1>4. DownInv' /\ FinalInv'
  BY DEF DownInv, FinalInv
<1>5. ListenInv'
  BY DEF ListenInv
<1>6. WritingIffPending' /\ NoDataBehindFin'
  BY DEF WritingIffPending, NoDataBehindFin, Alive, Writing
<1> QED BY <1>1, <1>2, <1>3, <1>4, <1>5, <1>6

\* HandleClose, for an event that would close the connection.
LEMMA CloseState ==
  ASSUME TInv, StateInv, HandleClose, phase = "events",
         UNCHANGED <<phase, queue, batch, revived, pc, wr>>,
         revents \cap {"in", "hup"} # {}, revents' \subseteq revents,
         revents' \cap {"in", "hup"} = {}
  PROVE  StateInv'
<1> USE DEF StateInv
<1>0. TypeOK
  BY DEF TInv
<1>1. /\ state' = "Disconnected" /\ interest' = {}
      /\ index = "Added" => index' = "Deleted"
      /\ reported' = Append(reported, "down") /\ UNCHANGED <<output, destroyed>>
  BY <1>0, CloseType
<1>2. ~revived => /\ state \in {"Connected", "Disconnecting"} /\ reported = <<>>
                  /\ index = "Added"
  BY <1>0 DEF ListenInv, NewInv, DownInv, TypeOK, States
<1>3. PlaceInv' /\ FirstInv'
  BY <1>1 DEF PlaceInv, FirstInv
<1>4. NewInv' /\ WritingIffPending' /\ NoDataBehindFin'
  BY <1>1 DEF NewInv, WritingIffPending, NoDataBehindFin, Alive
<1>5. DownInv'
  <2>1. reported' # <<>> /\ (reported = <<>> => Len(reported') = 1)
    <3>1. reported \in Seq({"up", "down"}) /\ "down" \in {"up", "down"}
      BY <1>0 DEF TypeOK
    <3>2. reported' # <<>> /\ Len(reported') = Len(reported) + 1
      BY <1>1, <3>1, AppendProperties
    <3> QED BY <3>1, <3>2
  <2> QED BY <1>1, <1>2, <2>1 DEF DownInv
<1>6. ListenInv'
  BY <1>1, <1>2 DEF ListenInv
<1>7. FinalInv'
  BY <1>1, <1>2 DEF FinalInv
<1> QED BY <1>3, <1>4, <1>5, <1>6, <1>7

\* SendInLoop: output and EPOLLOUT come together.
LEMMA SendKeeps ==
  ASSUME TInv, StateInv, SendInLoop, state # "Connecting",
         UNCHANGED <<destroyed, revived, revents>>
  PROVE  /\ NewInv' /\ DownInv' /\ FinalInv' /\ WritingIffPending' /\ NoDataBehindFin'
         /\ revived' \/ /\ state' = "Disconnected" => interest' = {} /\ index' # "Added"
                        /\ state' \in {"Connected", "Disconnecting"} => "in" \in interest'
                        /\ index = "Added" => index' = "Added"
                        /\ state' = "Disconnected" => state = "Disconnected"
<1> USE DEF StateInv
<1>1. UNCHANGED <<state, reported, wr>>
  BY SendState
<1>2. CASE UNCHANGED <<output, interest, index, edge>>
  BY <1>1, <1>2 DEF NewInv, DownInv, FinalInv, WritingIffPending, NoDataBehindFin,
                    Alive, Writing, ListenInv
<1>3. CASE /\ state # "Disconnected" /\ output' # <<>>
           /\ MayWriteDirectly => wr = "open"
           /\ \/ Writing /\ UNCHANGED <<interest, index, edge>>
              \/ ~Writing /\ interest' = interest \cup {"out"} /\ index' = "Added"
  <2>1. "out" \in interest' /\ interest \subseteq interest'
        /\ (index = "Added" => index' = "Added")
    BY <1>3 DEF Writing
  <2>2. NewInv' /\ DownInv'
    BY <1>1 DEF NewInv, DownInv
  <2>3. FinalInv'
    BY <1>1, <1>3 DEF FinalInv
  <2>4. WritingIffPending'
    BY <1>3, <2>1 DEF WritingIffPending, Writing
  <2>5. NoDataBehindFin'
    <3> SUFFICES ASSUME wr = "shut", Alive PROVE FALSE
      BY <1>1 DEF NoDataBehindFin, Alive
    <3>1. output = <<>>
      BY DEF NoDataBehindFin
    <3>2. ~Writing
      BY <3>1 DEF WritingIffPending
    <3> QED BY <1>3, <3>1, <3>2 DEF MayWriteDirectly
  <2> QED BY <1>1, <1>3, <2>1, <2>2, <2>3, <2>4, <2>5 DEF ListenInv
<1> QED BY <1>2, <1>3, SendState

\* ConnectEstablished is run while nothing has happened yet.
LEMMA EstablishedState ==
  ASSUME TInv, StateInv, RunFunctor, Head(batch) = "established", ConnectEstablished
  PROVE  StateInv'
<1> USE DEF StateInv
<1>0. batch \in Seq(Functors) /\ queue \in Seq(Functors)
  BY DEF TInv, TypeOK
<1>1. /\ phase = "run" /\ batch # <<>> /\ batch' = Tail(batch) /\ phase' = "run"
      /\ UNCHANGED <<revents, pc, revived, destroyed>>
  BY DEF RunFunctor, userVars
<1>2. state' = "Connected" /\ UNCHANGED <<output, reported, queue, wr>>
  BY DEF ConnectEstablished, sendVars
<1>3. Len(batch) >= 1 /\ batch[1] = "established" /\ Len(batch) \in Nat
      /\ \A i \in 1..Len(batch') : batch'[i] = batch[i + 1] /\ i + 1 \in 1..Len(batch)
                                   /\ i + 1 # 1
  BY <1>0, <1>1, HeadTailProperties
<1>4. state = "Connecting"
  BY <1>3 DEF FirstInv
<1>5. interest' = {"in"} /\ index' = "Added"
  <2>1. interest = {} /\ {"in"} \in SUBSET {"in", "out"}
    BY <1>4 DEF NewInv
  <2>2. UpdateChannel({"in"})
    <3>1. interest \cup {"in"} = {"in"}
      BY <2>1
    <3> QED BY <3>1 DEF ConnectEstablished, EnableReading
  <2> QED BY <2>1, <2>2, UpdateType
<1>6. PlaceInv'
  BY <1>1 DEF PlaceInv
<1>7. FirstInv'
  <2>1. \A i \in 1..Len(batch') : batch'[i] # "established"
    BY <1>3 DEF FirstInv
  <2>2. \A i \in 1..Len(queue') : queue'[i] # "established"
    BY <1>1, <1>2 DEF FirstInv
  <2> QED BY <2>1, <2>2 DEF FirstInv
<1>8. NewInv' /\ DownInv' /\ FinalInv'
  BY <1>1, <1>2, <1>4 DEF NewInv, DownInv, FinalInv
<1>9. ListenInv'
  BY <1>1, <1>2, <1>5 DEF ListenInv
<1>10. WritingIffPending' /\ NoDataBehindFin'
  BY <1>2, <1>4, <1>5 DEF NewInv, WritingIffPending, NoDataBehindFin, Writing
<1> QED BY <1>6, <1>7, <1>8, <1>9, <1>10

\* Any other functor at the front of the batch.
LEMMA FunctorTaken ==
  ASSUME TInv, StateInv, RunFunctor, Head(batch) # "established", Grown,
         state' = "Connecting" => state = "Connecting"
  PROVE  /\ PlaceInv' /\ FirstInv' /\ state # "Connecting" /\ phase = "run"
         /\ phase' \in {"run", "functor"} /\ revents = {}
         /\ UNCHANGED <<revents, pc, revived>>
<1> USE DEF StateInv
<1>0. batch \in Seq(Functors) /\ queue \in Seq(Functors)
  BY DEF TInv, TypeOK
<1>1. /\ phase = "run" /\ batch # <<>> /\ batch' = Tail(batch)
      /\ phase' \in {"run", "functor"} /\ UNCHANGED <<revents, pc, revived>>
  BY DEF RunFunctor, userVars
<1>2. /\ Len(batch) >= 1 /\ batch[1] # "established" /\ Len(batch) \in Nat
      /\ \A i \in 1..Len(batch') : batch'[i] = batch[i + 1] /\ i + 1 \in 1..Len(batch)
                                   /\ i + 1 # 1
  BY <1>0, <1>1, HeadTailProperties
<1>3. revents = {} /\ state # "Connecting"
  BY <1>1, <1>2 DEF PlaceInv, NewInv
<1>4. PlaceInv'
  BY <1>1, <1>3 DEF PlaceInv
<1>5. FirstInv'
  <2>1. \A i \in 1..Len(batch') : batch'[i] # "established"
    BY <1>2 DEF FirstInv
  <2>2. \A i \in 1..Len(queue') : queue'[i] # "established"
    BY <1>1 DEF FirstInv, Grown
  <2> QED BY <2>1, <2>2 DEF FirstInv
<1> QED BY <1>1, <1>3, <1>4, <1>5

LEMMA DestroyedState ==
  ASSUME TInv, StateInv, RunFunctor, Head(batch) = "destroy", ConnectDestroyed
  PROVE  StateInv'
<1> USE DEF StateInv
<1>1. /\ UNCHANGED <<output, queue, wr>> /\ index' = "New"
      /\ destroyed' = IF state = "Disconnecting" \/ destroyed = "half"
                      THEN "half" ELSE "whole"
  BY DEF ConnectDestroyed, RemoveChannel, sendVars
<1>2. Grown
  BY <1>1 DEF Grown
<1>3. CASE state = "Connected"
  <2>1. state' = "Disconnected" /\ interest' = {} /\ reported' = Append(reported, "down")
    BY <1>3 DEF ConnectDestroyed, ConnectionCallback
  <2>2. /\ PlaceInv' /\ FirstInv' /\ revents = {} /\ UNCHANGED <<revents, revived>>
    BY <1>2, <2>1, FunctorTaken
  <2>3. DownInv'
    <3>1. reported \in Seq({"up", "down"}) /\ "down" \in {"up", "down"}
      BY DEF TInv, TypeOK
    <3>2. reported' # <<>> /\ Len(reported') = Len(reported) + 1
      BY <2>1, <3>1, AppendProperties
    <3>3. ~revived => Len(reported') = 1
      BY <1>3, <3>1, <3>2 DEF DownInv
    <3> QED BY <2>1, <2>2, <3>2, <3>3 DEF DownInv
  <2>4. NewInv' /\ ListenInv' /\ FinalInv' /\ WritingIffPending' /\ NoDataBehindFin'
    BY <1>1, <2>1, <2>2 DEF NewInv, ListenInv, FinalInv, WritingIffPending,
                            NoDataBehindFin, Alive
  <2> QED BY <2>2, <2>3, <2>4
<1>4. CASE state # "Connected"
  <2>1. UNCHANGED <<state, interest, reported>>
    BY <1>4 DEF ConnectDestroyed
  <2>2. /\ PlaceInv' /\ FirstInv' /\ state # "Connecting" /\ revents = {}
        /\ phase' \in {"run", "functor"} /\ UNCHANGED <<revents, revived>>
    BY <1>2, <2>1, FunctorTaken
  <2>3. NewInv' /\ DownInv' /\ WritingIffPending' /\ NoDataBehindFin'
    BY <1>1, <2>1, <2>2 DEF NewInv, DownInv, WritingIffPending, NoDataBehindFin, Alive
  <2>4. ListenInv'
    BY <1>1, <2>1, <2>2 DEF ListenInv
  <2>5. FinalInv'
    <3>1. state \in {"Disconnected", "Disconnecting"}
      BY <1>4, <2>2 DEF TInv, TypeOK, States
    <3> QED BY <1>1, <2>1, <2>2, <3>1 DEF FinalInv
  <2> QED BY <2>2, <2>3, <2>4, <2>5
<1> QED BY <1>3, <1>4

\* shutdown(SHUT_WR) comes only when EPOLLOUT is not asked for.
LEMMA ShutdownKeeps ==
  ASSUME StateInv, ShutdownUnlessWriting, state # "Connecting", state' # "Connecting",
         UNCHANGED <<interest, output, reported, destroyed>>,
         state' # state => state = "Connected"
  PROVE  WritingIffPending' /\ NoDataBehindFin'
<1>1. wr' = "shut" => wr = "shut" \/ ~Writing
  BY DEF ShutdownUnlessWriting, ShutdownWrite
<1>2. Alive' => Alive
  BY DEF Alive
<1>3. WritingIffPending'
  BY <1>2 DEF StateInv, WritingIffPending, Writing
<1> QED BY <1>1, <1>2, <1>3 DEF StateInv, WritingIffPending, NoDataBehindFin, Writing

\* HandleWrite: EPOLLOUT goes with the last byte of output, and then a
\* shutdown that was put off may follow.
LEMMA WriteState ==
  ASSUME TInv, StateInv, HandleWrite
  PROVE  StateInv'
<1> USE DEF StateInv
<1>0. TypeOK
  BY DEF TInv
<1>1. /\ phase = "events" /\ revents' \subseteq revents
      /\ UNCHANGED <<phase, batch, pc, revived, state, reported, destroyed>>
  BY <1>0, WriteCases DEF userVars, serverVars
<1>2. state # "Connecting"
  BY <1>1 DEF NewInv
<1>3. CASE UNCHANGED <<wr, queue, output, interest, index, edge>>
  BY <1>1, <1>2, <1>3, StateKept DEF Grown
<1>4. CASE /\ Writing /\ Write(output)
           /\ output' = SubSeq(output, Taken(output) + 1, Len(output))
  <2>1. Taken(output) = 0 => output' = output
    <3>1. output \in Seq(Nat) /\ Len(output) \in Nat
      BY <1>0 DEF TypeOK
    <3>2. SubSeq(output, 1, Len(output)) = output
      BY <3>1, SubSeqFull
    <3> QED BY <1>4, <3>2
  <2>2. CASE /\ output' = <<>> /\ FinishShutdown /\ DisableWriting
             /\ queue' = Append(queue, "complete")
    <3>1. UpdateChannel(interest \ {"out"}) /\ interest \ {"out"} \in SUBSET {"in", "out"}
      BY <1>0, <2>2 DEF DisableWriting, TypeOK
    <3>2. interest' = interest \ {"out"} /\ (interest' # {} => index' = "Added")
      BY <3>1, UpdateType
    <3>3. Grown
      BY <2>2, AppendGrows DEF Functors
    <3>4. PlaceInv' /\ FirstInv' /\ NewInv' /\ DownInv'
      BY <1>1, <1>2, <3>3 DEF PlaceInv, FirstInv, NewInv, DownInv, Grown
    <3>5. revived \/ state # "Disconnected"
      BY <1>4 DEF ListenInv, Writing
    <3>6. ListenInv' /\ FinalInv'
      BY <1>1, <3>2, <3>5 DEF ListenInv, FinalInv
    <3>7. WritingIffPending' /\ NoDataBehindFin'
      BY <2>2, <3>2 DEF WritingIffPending, NoDataBehindFin, Writing
    <3> QED BY <3>4, <3>6, <3>7
  <2>3. CASE /\ output' # <<>> \/ Taken(output) = 0
             /\ UNCHANGED <<wr, queue, interest, index, edge>>
    <3>1. Grown
      BY <2>3 DEF Grown
    <3>2. PlaceInv' /\ FirstInv' /\ NewInv' /\ DownInv' /\ ListenInv' /\ FinalInv'
      BY <1>1, <1>2, <2>3, <3>1 DEF PlaceInv, FirstInv, NewInv, DownInv, ListenInv,
                                    FinalInv, Grown
    <3>3. Alive' => Alive
      BY <1>1 DEF Alive
    <3>4. Alive => output' # <<>>
      BY <1>4, <2>1, <2>3 DEF WritingIffPending
    <3>5. Alive => wr # "shut"
      BY <1>4 DEF WritingIffPending, NoDataBehindFin
    <3> QED BY <1>4, <2>3, <3>2, <3>3, <3>4, <3>5
            DEF WritingIffPending, NoDataBehindFin, Writing
  <2> QED BY <1>0, <1>3, <2>2, <2>3, WriteCases
<1> QED BY <1>0, <1>3, <1>4, WriteCases

LEMMA LoopState ==
  ASSUME TInv, StateInv, LoopStep
  PROVE  StateInv'
<1> USE DEF StateInv, connVars, loopVars, userVars, sendVars, serverVars
<1>0. /\ TypeOK /\ state \in States /\ queue \in Seq(Functors) /\ batch \in Seq(Functors)
      /\ phase \in {"poll", "events", "message", "run", "functor"}
  BY DEF TInv, TypeOK
<1>1. CASE EpollWait
  <2>1. /\ phase = "poll" /\ phase' = "events" /\ index = "Added"
        /\ UNCHANGED <<state, interest, index, output, reported, batch, queue, pc,
                       revived, wr, destroyed>>
    BY <1>1 DEF EpollWait
  <2>2. state # "Connecting"
    BY <2>1 DEF NewInv
  <2>3. PlaceInv' /\ FirstInv' /\ NewInv'
    BY <2>1, <2>2 DEF PlaceInv, FirstInv, NewInv
  <2>4. DownInv' /\ FinalInv' /\ WritingIffPending' /\ NoDataBehindFin'
    BY <2>1 DEF DownInv, FinalInv, WritingIffPending, NoDataBehindFin, Alive, Writing
  <2>5. ListenInv'
    BY <2>1 DEF ListenInv
  <2> QED BY <2>3, <2>4, <2>5
<1>2. CASE DoPendingFunctors
  <2>1. /\ phase \in {"poll", "events"} /\ phase' = "run" /\ revents = {}
        /\ batch' = queue /\ queue' = <<>>
        /\ UNCHANGED <<state, interest, index, output, reported, revents, pc, revived,
                       wr, edge, destroyed>>
    BY <1>2 DEF DoPendingFunctors, PlaceInv
  <2>2. PlaceInv' /\ FirstInv' /\ NewInv'
    BY <2>1 DEF PlaceInv, FirstInv, NewInv
  <2>3. DownInv' /\ FinalInv' /\ WritingIffPending' /\ NoDataBehindFin'
    BY <2>1 DEF DownInv, FinalInv, WritingIffPending, NoDataBehindFin, Alive, Writing
  <2>4. ListenInv'
    BY <2>1 DEF ListenInv
  <2> QED BY <2>2, <2>3, <2>4
<1>3. CASE HandleHangUp
  <2>1. /\ phase = "events" /\ "hup" \in revents /\ revents' = revents \ {"hup"}
        /\ UNCHANGED <<phase, queue, batch, revived, pc, wr>>
    BY <1>3 DEF HandleHangUp, Handling
  <2>2. CASE "in" \in revents
    <3>1. UNCHANGED <<state, interest, index, output, reported, destroyed>>
      BY <1>3, <2>2 DEF HandleHangUp
    <3>2. state # "Connecting" /\ Grown
      BY <2>1 DEF NewInv, Grown
    <3> QED BY <2>1, <3>1, <3>2, StateKept
  <2>3. CASE "in" \notin revents
    <3>1. HandleClose
      BY <1>3, <2>3 DEF HandleHangUp
    <3> QED BY <2>1, <2>3, <3>1, CloseState
  <2> QED BY <2>2, <2>3
<1>4. CASE HandleError
  <2>1. /\ phase = "events" /\ revents' \subseteq revents
        /\ UNCHANGED <<state, interest, index, output, reported, destroyed, revived,
                       phase, batch, queue, wr>>
    BY <1>4 DEF HandleError, Handling
  <2>2. state # "Connecting" /\ Grown
    BY <2>1 DEF NewInv, Grown
  <2> QED BY <2>1, <2>2, StateKept
<1>5. CASE HandleRead
  <2>1. /\ phase = "events" /\ "in" \in revents /\ revents' = revents \ {"in"}
        /\ "hup" \notin revents
        /\ UNCHANGED <<queue, batch, revived, pc, wr>>
    BY <1>5 DEF HandleRead, Handling
  <2>2. state # "Connecting" /\ Grown
    BY <2>1 DEF NewInv, Grown
  <2>3. CASE phase' = "message" /\ UNCHANGED <<connVars, serverVars>>
    <3>1. PlaceInv' /\ FirstInv' /\ NewInv'
      BY <2>1, <2>2, <2>3 DEF PlaceInv, FirstInv, NewInv
    <3>2. DownInv' /\ FinalInv' /\ WritingIffPending' /\ NoDataBehindFin'
      BY <2>1, <2>3 DEF DownInv, FinalInv, WritingIffPending, NoDataBehindFin, Alive, Writing
    <3>3. ListenInv'
      BY <2>1, <2>3 DEF ListenInv
    <3> QED BY <3>1, <3>2, <3>3
  <2>4. CASE UNCHANGED <<phase, connVars, serverVars>>
    BY <2>1, <2>2, <2>4, StateKept
  <2>5. CASE phase' = phase /\ HandleClose
    BY <2>1, <2>5, CloseState
  <2> QED BY <1>5, <2>3, <2>4, <2>5 DEF HandleRead
<1>6. CASE HandleWrite
  BY <1>6, WriteState
<1>7. CASE RunFunctor
  <2>1. CASE Head(batch) = "established" /\ ConnectEstablished
    BY <1>7, <2>1, EstablishedState
  <2>2. CASE Head(batch) = "send" /\ SendInLoop
    <3>1. /\ PlaceInv' /\ FirstInv' /\ state # "Connecting" /\ revents = {}
          /\ phase' \in {"run", "functor"} /\ UNCHANGED <<revents, pc, revived>>
      BY <1>7, <2>2, SendState, FunctorTaken
    <3>2. destroyed' = destroyed
      BY <1>7, <2>2 DEF RunFunctor
    <3>3. ListenInv'
      BY <2>2, <3>1, <3>2, SendKeeps DEF ListenInv
    <3> QED BY <2>2, <3>1, <3>2, <3>3, SendKeeps
  <2>3. CASE Head(batch) = "shutdown" /\ ShutdownInLoop
    <3>1. UNCHANGED <<state, interest, index, output, reported, queue>>
          /\ ShutdownUnlessWriting /\ Grown
      BY <2>3 DEF ShutdownInLoop, Grown
    <3>2. /\ PlaceInv' /\ FirstInv' /\ state # "Connecting" /\ revents = {}
          /\ phase' \in {"run", "functor"} /\ UNCHANGED <<revents, pc, revived>>
      BY <1>7, <2>3, <3>1, FunctorTaken
    <3>3. destroyed' = destroyed
      BY <1>7, <2>3 DEF RunFunctor
    <3>4. WritingIffPending' /\ NoDataBehindFin'
      BY <3>1, <3>2, <3>3, ShutdownKeeps
    <3>5. NewInv' /\ DownInv' /\ ListenInv' /\ FinalInv'
      BY <3>1, <3>2, <3>3 DEF NewInv, DownInv, ListenInv, FinalInv
    <3> QED BY <3>2, <3>4, <3>5
  <2>4. CASE Head(batch) = "destroy" /\ ConnectDestroyed
    BY <1>7, <2>4, DestroyedState
  <2>5. CASE /\ Head(batch) \in {"complete", "highWater"}
             /\ UNCHANGED <<connVars, queue, sendVars>>
    <3>1. UNCHANGED <<state, interest, index, output, reported, queue, wr>> /\ Grown
      BY <2>5 DEF Grown
    <3>2. /\ PlaceInv' /\ FirstInv' /\ state # "Connecting" /\ revents = {}
          /\ phase' \in {"run", "functor"} /\ UNCHANGED <<revents, pc, revived>>
      BY <1>7, <2>5, <3>1, FunctorTaken
    <3>3. destroyed' = destroyed
      BY <1>7, <2>5 DEF RunFunctor
    <3>4. WritingIffPending' /\ NoDataBehindFin'
      BY <3>1, <3>3 DEF WritingIffPending, NoDataBehindFin, Writing, Alive
    <3>5. NewInv' /\ DownInv' /\ ListenInv' /\ FinalInv'
      BY <3>1, <3>2, <3>3 DEF NewInv, DownInv, ListenInv, FinalInv
    <3> QED BY <3>2, <3>4, <3>5
  <2> QED BY <1>7, <2>1, <2>2, <2>3, <2>4, <2>5 DEF RunFunctor
<1>8. CASE EndPendingFunctors \/ CallbackReturns
  <2>1. /\ phase \in {"run", "message", "functor"} /\ (phase = "run" => batch = <<>>)
        /\ phase' = IF phase = "run" THEN "poll"
                    ELSE IF phase = "message" THEN "events" ELSE "run"
        /\ UNCHANGED <<connVars, revents, batch, queue, pc, revived, wr, destroyed>>
    BY <1>8 DEF EndPendingFunctors, CallbackReturns, InCallback
  <2>2. state # "Connecting"
    BY <2>1 DEF NewInv
  <2>3. PlaceInv' /\ NewInv'
    BY <2>1, <2>2 DEF PlaceInv, NewInv
  <2>4. FirstInv'
    BY <2>1, <2>2 DEF FirstInv
  <2>5. DownInv' /\ FinalInv' /\ WritingIffPending' /\ NoDataBehindFin'
    BY <2>1 DEF DownInv, FinalInv, WritingIffPending, NoDataBehindFin, Alive, Writing
  <2>6. ListenInv'
    BY <2>1 DEF ListenInv
  <2> QED BY <2>3, <2>4, <2>5, <2>6
<1> QED BY <1>1, <1>2, <1>3, <1>4, <1>5, <1>6, <1>7, <1>8 DEF LoopStep

LEMMA StateNext == TInv /\ StateInv /\ [Next]_vars => StateInv'
<1> SUFFICES ASSUME TInv, StateInv, [Next]_vars PROVE StateInv'
  OBVIOUS
<1> USE DEF StateInv, connVars, loopVars, userVars, sendVars, recvVars, serverVars
<1>0. /\ TypeOK /\ queue \in Seq(Functors)
      /\ pc \in [Users -> {"idle", "send", "setState", "shutdown"}]
  BY DEF TInv, TypeOK
<1>1. CASE LoopStep
  BY <1>1, LoopState
<1>2. CASE Send
  <2>1. /\ SendInLoop /\ state = "Connected"
        /\ UNCHANGED <<phase, revents, batch, pc, revived, destroyed>>
    BY <1>2 DEF Send, CallFromLoop
  <2>2. UNCHANGED state /\ Grown
    BY <2>1, SendState
  <2>3. PlaceInv' /\ FirstInv'
    BY <2>1, <2>2 DEF PlaceInv, FirstInv, Grown
  <2>4. ListenInv'
    BY <2>1, <2>2, SendKeeps DEF ListenInv
  <2> QED BY <2>1, <2>3, <2>4, SendKeeps
<1>3. CASE Shutdown
  <2>1. /\ state = "Connected" /\ state' = "Disconnecting" /\ ShutdownUnlessWriting
        /\ UNCHANGED <<interest, index, output, reported, queue, destroyed,
                       phase, revents, batch, pc, revived>>
    BY <1>3 DEF Shutdown, CallFromLoop
  <2>2. WritingIffPending' /\ NoDataBehindFin'
    BY <2>1, ShutdownKeeps
  <2>3. PlaceInv' /\ FirstInv' /\ NewInv'
    BY <2>1 DEF PlaceInv, FirstInv, NewInv
  <2>4. DownInv' /\ ListenInv' /\ FinalInv'
    BY <2>1 DEF DownInv, ListenInv, FinalInv
  <2> QED BY <2>2, <2>3, <2>4
<1>4. ASSUME NEW u \in Users, BeginSend(u) \/ BeginShutdown(u)
      PROVE  StateInv'
  <2>1. /\ state = "Connected" /\ UNCHANGED <<connVars, loopVars, wr, revived, destroyed>>
    BY <1>4 DEF BeginSend, BeginShutdown, Begin
  <2> QED BY <2>1, StateKept DEF Grown
<1>5. ASSUME NEW u \in Users, SetDisconnecting(u)
      PROVE  StateInv'
  <2>1. /\ pc[u] = "setState" /\ state' = "Disconnecting"
        /\ revived' = (revived \/ state = "Disconnected")
        /\ UNCHANGED <<interest, index, output, reported, loopVars, wr, destroyed>>
    BY <1>5 DEF SetDisconnecting
  <2>2. state \in {"Connected", "Disconnecting", "Disconnected"}
    BY <1>0, <2>1 DEF NewInv, TypeOK, States
  <2>3. PlaceInv' /\ NewInv'
    BY <2>1 DEF PlaceInv, NewInv
  <2>4. FirstInv'
    BY <2>1, <2>2 DEF FirstInv
  <2>5. DownInv'
    BY <2>1, <2>2 DEF DownInv
  <2>6. ListenInv'
    BY <2>1, <2>2 DEF ListenInv
  <2>7. FinalInv'
    BY <2>1, <2>2 DEF FinalInv
  <2>8. Alive' => Alive
    BY <2>1, <2>2 DEF Alive, DownInv
  <2>9. WritingIffPending' /\ NoDataBehindFin'
    BY <2>1, <2>8 DEF WritingIffPending, NoDataBehindFin, Writing
  <2> QED BY <2>3, <2>4, <2>5, <2>6, <2>7, <2>9
<1>6. ASSUME NEW u \in Users, QueueInLoop(u)
      PROVE  StateInv'
  <2>1. /\ pc[u] \in {"send", "shutdown"} /\ queue' = Append(queue, pc[u])
        /\ UNCHANGED <<connVars, phase, revents, batch, revived, wr, destroyed>>
    BY <1>6 DEF QueueInLoop
  <2>2. Grown
    BY <2>1, AppendGrows DEF Functors
  <2>3. state # "Connecting"
    BY <2>1 DEF NewInv
  <2> QED BY <2>1, <2>2, <2>3, StateKept
<1>7. CASE RemoveConnectionInLoop \/ ServerDestroyed
  <2>1. /\ queue' = Append(queue, "destroy")
        /\ UNCHANGED <<connVars, phase, revents, batch, userVars, wr, edge, destroyed>>
    BY <1>7 DEF RemoveConnectionInLoop, ServerDestroyed
  <2>2. Grown
    BY <2>1, AppendGrows DEF Functors
  <2>3. state = "Connecting" => edge' = FALSE
    BY <2>1 DEF NewInv
  <2> QED BY <2>1, <2>2, <2>3, StateKept
<1>8. CASE PeerSends \/ PeerCloses \/ PeerResets \/ PeerReads
  <2>1. /\ UNCHANGED <<connVars, loopVars, userVars, wr, destroyed>>
        /\ Recheck \/ UNCHANGED edge
    BY <1>8 DEF PeerSends, PeerCloses, PeerResets, PeerReads
  <2>2. state = "Connecting" => edge' = FALSE
    BY <2>1 DEF NewInv, Recheck
  <2> QED BY <2>1, <2>2, StateKept DEF Grown
<1>9. CASE UNCHANGED vars
  <2>1. state = "Connecting" => edge' = FALSE
    BY <1>9 DEF NewInv, vars
  <2> QED BY <1>9, <2>1, StateKept DEF vars, Grown
<1> QED
  BY <1>1, <1>2, <1>3, <1>4, <1>5, <1>6, <1>7, <1>8, <1>9 DEF Next, UserStep

LEMMA StateInit == Init => StateInv
<1> SUFFICES ASSUME Init PROVE StateInv
  OBVIOUS
<1>1. PlaceInv /\ FirstInv /\ NewInv
  BY DEF Init, PlaceInv, FirstInv, NewInv
<1>2. DownInv /\ ListenInv /\ FinalInv
  BY DEF Init, DownInv, ListenInv, FinalInv
<1>3. WritingIffPending /\ NoDataBehindFin
  BY DEF Init, WritingIffPending, NoDataBehindFin, Alive
<1> QED BY <1>1, <1>2, <1>3 DEF StateInv

LEMMA StateAlways == Spec => []StateInv
BY TypeInit, TypeNext, StateInit, StateNext, PTL DEF Spec

\* While the connection lives, EPOLLOUT is asked for exactly as long as the
\* output buffer holds something.
THEOREM WritingCorrect == Spec => []WritingIffPending
<1>1. StateInv => WritingIffPending
  BY DEF StateInv
<1> QED BY <1>1, StateAlways, PTL

\* A FIN never overtakes buffered output.
THEOREM ShutdownCorrect == Spec => []NoDataBehindFin
<1>1. StateInv => NoDataBehindFin
  BY DEF StateInv
<1> QED BY <1>1, StateAlways, PTL

\* The user is told at most once that the connection is down, unless a
\* Shutdown of another thread overwrites Disconnected.
THEOREM DownReportedOnce == Spec => []DownOnce
<1>1. StateInv => DownOnce
  BY DEF StateInv, DownInv, DownOnce
<1> QED BY <1>1, StateAlways, PTL

\* With the same exception, no event reaches a channel after HandleClose.
THEOREM ClosedStaysDeaf == Spec => []ClosedIsDeaf
<1>1. StateInv => ClosedIsDeaf
  BY DEF StateInv, ListenInv, ClosedIsDeaf
<1> QED BY <1>1, StateAlways, PTL

\* And no queued Send puts the channel of a connection that was destroyed
\* whole back into epoll.
THEOREM DestroyedStaysFinal == Spec => []DestroyedIsFinal
<1>1. StateInv => DestroyedIsFinal
  BY DEF StateInv, DownInv, FinalInv, DestroyedIsFinal
<1> QED BY <1>1, StateAlways, PTL

-----------------------------------------------------------------------------
CompleteQueued == Len(queue') > Len(queue) /\ queue'[Len(queue')] = "complete"

LEMMA NotQueued ==
  ASSUME TInv, NEW f \in Functors \ {"complete"},
         queue' = queue \/ queue' = Append(queue, f) \/ queue' = <<>>
  PROVE  ~CompleteQueued
<1>1. queue \in Seq(Functors)
  BY DEF TInv, TypeOK
<1>2. CASE queue' = queue \/ queue' = <<>>
  BY <1>1, <1>2 DEF CompleteQueued
<1>3. CASE queue' = Append(queue, f)
  <2>1. Len(queue') = Len(queue) + 1 /\ queue'[Len(queue) + 1] = f
    BY <1>1, <1>3, AppendProperties
  <2> QED BY <2>1 DEF CompleteQueued
<1> QED BY <1>2, <1>3

\* The write-complete callback is queued only with an empty buffer.
LEMMA CompleteSteps ==
  ASSUME TInv, [Next]_vars, CompleteQueued
  PROVE  output' = <<>>
<1> USE DEF connVars, loopVars
<1>0. TypeOK /\ MessageSize \in Nat /\ {"established", "highWater", "destroy"} \subseteq Functors \ {"complete"}
  BY SizeAssumption DEF TInv, Functors
<1>1. CASE SendInLoop
  <2>1. CASE MayWriteDirectly /\ UNCHANGED <<output, interest, index, edge>>
    BY <2>1 DEF MayWriteDirectly
  <2>2. ASSUME NEW n \in 0..MessageSize - 1,
               AppendOutput(SubSeq(Message, n + 1, MessageSize))
        PROVE  FALSE
    <3>1. queue' = queue \/ queue' = Append(queue, "highWater")
      BY <2>2 DEF AppendOutput
    <3> QED BY <1>0, <3>1, NotQueued
  <2>3. CASE Dropped
    BY <1>0, <2>3, NotQueued DEF Dropped
  <2> QED BY <1>0, <1>1, <2>1, <2>2, <2>3, SendCases
<1>2. CASE HandleWrite
  <2>1. CASE queue' = queue
    BY <1>0, <2>1, NotQueued
  <2> QED BY <1>0, <1>2, <2>1, WriteCases
<1>3. CASE LoopStep /\ ~HandleWrite /\ ~SendInLoop
  <2>1. queue' = queue \/ queue' = <<>>
    BY <1>3 DEF LoopStep, EpollWait, DoPendingFunctors, HandleHangUp, HandleError,
       HandleRead, EndPendingFunctors, CallbackReturns, RunFunctor, ConnectEstablished,
       ShutdownInLoop, ConnectDestroyed
  <2> QED BY <1>0, <2>1, NotQueued
<1>4. CASE Send
  BY <1>1, <1>4 DEF Send
<1>5. ASSUME NEW u \in Users, QueueInLoop(u)
      PROVE  FALSE
  <2>1. pc[u] \in Functors \ {"complete"} /\ queue' = Append(queue, pc[u])
    BY <1>5 DEF QueueInLoop, Functors
  <2> QED BY <2>1, NotQueued
<1>6. CASE RemoveConnectionInLoop \/ ServerDestroyed
  <2>1. queue' = Append(queue, "destroy")
    BY <1>6 DEF RemoveConnectionInLoop, ServerDestroyed
  <2> QED BY <1>0, <2>1, NotQueued
<1>7. ASSUME NEW u \in Users, BeginSend(u) \/ BeginShutdown(u) \/ SetDisconnecting(u)
      PROVE  FALSE
  <2>1. queue' = queue
    BY <1>7 DEF BeginSend, BeginShutdown, Begin, SetDisconnecting
  <2> QED BY <1>0, <2>1, NotQueued
<1>8. CASE Shutdown \/ PeerSends \/ PeerCloses \/ PeerResets \/ PeerReads
           \/ UNCHANGED vars
  <2>1. queue' = queue
    BY <1>8 DEF Shutdown, PeerSends, PeerCloses, PeerResets, PeerReads, vars
  <2> QED BY <1>0, <2>1, NotQueued
<1> QED BY <1>1, <1>2, <1>3, <1>4, <1>5, <1>6, <1>7, <1>8 DEF Next, UserStep

\* The write-complete callback is queued only when every accepted byte has
\* been given to the kernel.
THEOREM CompleteCorrect == Spec => CompleteMeansWritten
<1>1. ASSUME TInv, StreamInOrder, [Next]_vars
      PROVE  [CompleteQueued => Len(wire') = accepted']_vars
  <2> SUFFICES ASSUME CompleteQueued PROVE Len(wire') = accepted'
    OBVIOUS
  <2>1. output' = <<>>
    BY <1>1, CompleteSteps
  <2>2. Len(wire') + Len(output') = accepted'
    BY <1>1, StreamNext DEF StreamInOrder
  <2>3. wire' \in Seq(Nat)
    BY <1>1, TypeNext DEF TInv, TypeOK
  <2> QED BY <2>1, <2>2, <2>3
<1>2. [][CompleteQueued => Len(wire') = accepted']_vars <=> CompleteMeansWritten
  BY DEF CompleteMeansWritten, CompleteQueued
<1>3. Init => StreamInOrder
  BY DEF Init, StreamInOrder
<1> QED BY <1>1, <1>2, <1>3, TypeInit, TypeNext, StreamNext, PTL DEF Spec
-----------------------------------------------------------------------------
(***************************************************************************)
(* A connection implements the byte stream                                 *)
(***************************************************************************)
\* What the stream is about: the refinement mapping reads nothing else.
streamVars == <<output, wire, wr, reported, destroyed>>

Ended == reported # <<>> \/ destroyed # "no"

LEMMA LiveStates ==
  ASSUME TInv, StateInv, state # "Connecting", ~Ended
  PROVE  Alive
BY DEF TInv, TypeOK, States, StateInv, DownInv, Ended, Alive

\* A step that is not about the stream.
LEMMA StreamKept ==
  ASSUME UNCHANGED streamVars
  PROVE  [Stream!Next]_(Stream!vars)
BY DEF streamVars, Stream!vars

\* shutdown(SHUT_WR), or leaving it to HandleWrite.
LEMMA FinishRefines ==
  ASSUME TInv, StateInv, state # "Connecting", ShutdownUnlessWriting,
         UNCHANGED <<output, wire, reported, destroyed>>
  PROVE  [Stream!Next]_(Stream!vars)
<1>1. CASE wr' = wr
  BY <1>1, StreamKept DEF streamVars
<1>2. CASE wr' # wr
  <2>1. wr' = "shut" /\ ~Writing
    BY <1>2 DEF ShutdownUnlessWriting, ShutdownWrite
  <2>2. output = <<>> \/ Ended
    BY <2>1, LiveStates DEF StateInv, WritingIffPending
  <2>3. Stream!Finish
    BY <2>1, <2>2 DEF Stream!Finish, Ended
  <2> QED BY <2>3 DEF Stream!Next
<1> QED BY <1>1, <1>2

\* HandleClose and ConnectDestroyed.
LEMMA EndRefines ==
  ASSUME UNCHANGED <<output, wire, wr>>, Ended'
  PROVE  [Stream!Next]_(Stream!vars)
<1>1. Stream!End
  BY DEF Stream!End, Ended
<1> QED BY <1>1 DEF Stream!Next

\* HandleWrite moves bytes from output to wire, and may finish the stream
\* behind the last of them.
LEMMA WriteRefines ==
  ASSUME TInv, HandleWrite
  PROVE  [Stream!Next]_(Stream!vars)
<1> DEFINE n == Taken(output)
<1>0. /\ TypeOK /\ UNCHANGED <<reported, destroyed>>
      /\ output \in Seq(Nat) /\ wire \in Seq(Nat) /\ Len(output) \in Nat
  <2>1. TypeOK
    BY DEF TInv
  <2>2. output \in Seq(Nat) /\ wire \in Seq(Nat)
    BY <2>1 DEF TypeOK
  <2>3. UNCHANGED <<reported, destroyed>>
    BY <2>1, WriteCases DEF serverVars
  <2> QED BY <2>1, <2>2, <2>3
<1>1. CASE UNCHANGED <<wire, wr, output>>
  BY <1>0, <1>1, StreamKept DEF streamVars
<1>2. CASE /\ CanWrite /\ Write(output) /\ output' = SubSeq(output, n + 1, Len(output))
           /\ wr' = wr \/ (wr' = "shut" /\ output' = <<>>)
  <2>1. n \in 0..Len(output) /\ wire' = wire \o SubSeq(output, 1, n)
        /\ output' = SubSeq(output, n + 1, Len(output))
    BY <1>0, <1>2, WriteOutput
  <2>2. wr = "open"
    BY <1>2 DEF CanWrite
  <2> HIDE DEF n
  <2>3. CASE n > 0
    <3>1. n \in 1..Len(output) /\ Stream!Deliver(output, n)
      BY <1>0, <2>1, <2>2, <2>3 DEF Stream!Deliver
    <3>2. Stream!Progress
      BY <1>0, <1>2, <2>2, <3>1 DEF Stream!Progress
    <3> QED BY <3>2 DEF Stream!Next
  <2>4. CASE n = 0
    <3>1. output' = output /\ wire' = wire
      <4>1. SubSeq(output, 1, 0) = <<>> /\ SubSeq(output, 1, Len(output)) = output
        BY <1>0, SubSeqProperties, SubSeqFull
      <4>2. wire \o <<>> = wire
        BY <1>0, ConcatEmptySeq
      <4>3. n + 1 = 1
        BY <2>4
      <4>4. wire' = wire \o SubSeq(output, 1, 0)
            /\ output' = SubSeq(output, 1, Len(output))
        BY ONLY <2>1, <2>4, <4>3
      <4> QED BY ONLY <4>1, <4>2, <4>4
    <3>2. CASE wr' = wr
      BY <1>0, <3>1, <3>2, StreamKept DEF streamVars
    <3>3. CASE wr' = "shut" /\ output' = <<>>
      <4>1. Stream!Finish
        BY <1>0, <3>1, <3>3 DEF Stream!Finish
      <4> QED BY <4>1 DEF Stream!Next
    <3> QED BY <1>2, <3>2, <3>3
  <2> QED BY <2>1, <2>3, <2>4
<1>3. wr' = wr \/ wr' = "shut" \/ ~FinishShutdown
  BY DEF FinishShutdown, ShutdownWrite
<1> QED BY <1>0, <1>1, <1>2, <1>3, WriteCases

\* SendInLoop appends a message to the stream, and may hand a first part of
\* it over when nothing waits before it.
LEMMA SendRefines ==
  ASSUME TInv, StateInv, StreamInOrder, SendInLoop, state # "Connecting",
         UNCHANGED destroyed
  PROVE  [Stream!Next]_(Stream!vars)
<1> DEFINE Size == MessageSize
<1>0. /\ TypeOK /\ UNCHANGED <<wr, reported>> /\ Size \in Nat /\ Size > 0
      /\ output \in Seq(Nat) /\ wire \in Seq(Nat) /\ Len(output) \in Nat
      /\ Len(wire) \in Nat /\ accepted \in Nat
  BY SizeAssumption, SendCases DEF TInv, TypeOK
<1>1. Stream!NextMessage = Message
  BY DEF Stream!NextMessage, Message, StreamInOrder
<1>2. Message \in Seq(Nat) /\ Len(Message) = Size
  BY <1>0, MessageType
<1>3. MayWriteDirectly => output = <<>>
  BY DEF MayWriteDirectly
<1>4. (MayWriteDirectly => CanWrite) /\ wr = "shut" => Ended
  <2> SUFFICES ASSUME MayWriteDirectly => CanWrite, wr = "shut", ~Ended
               PROVE  FALSE
    OBVIOUS
  <2>1. Alive
    BY LiveStates
  <2>2. output = <<>> /\ ~Writing
    BY <2>1 DEF StateInv, NoDataBehindFin, WritingIffPending
  <2> QED BY <2>2 DEF MayWriteDirectly, CanWrite
<1>5. ASSUME NEW n \in 0..Size, n > 0 => MayWriteDirectly, MayWriteDirectly => CanWrite,
             wire' = wire \o SubSeq(Message, 1, n),
             output' = output \o SubSeq(Message, n + 1, Size)
      PROVE  [Stream!Next]_(Stream!vars)
  <2> DEFINE all == output \o Message
  <2>1. all \in Seq(Nat) /\ Len(all) = Len(output) + Size
    BY <1>0, <1>2, ConcatProperties
  <2>2. SubSeq(all, 1, n) = SubSeq(Message, 1, n)
        /\ SubSeq(all, n + 1, Len(all)) = output \o SubSeq(Message, n + 1, Size)
    <3>1. CASE n = 0
      <4>1. SubSeq(all, 1, 0) = <<>> /\ SubSeq(Message, 1, 0) = <<>>
        BY <1>2, <2>1, SubSeqEmpty
      <4>2. SubSeq(all, 1, Len(all)) = all /\ SubSeq(Message, 1, Size) = Message
        BY <1>2, <2>1, SubSeqFull
      <4>3. n + 1 = 1
        BY <3>1
      <4>4. SubSeq(all, n + 1, Len(all)) = all /\ SubSeq(Message, n + 1, Size) = Message
        BY ONLY <4>2, <4>3
      <4>5. SubSeq(all, 1, n) = SubSeq(Message, 1, n)
        BY ONLY <3>1, <4>1
      <4> QED BY <4>4, <4>5
    <3>2. CASE n > 0
      <4>1. output = <<>>
        BY <1>3, <1>5, <3>2
      <4>2. all = Message
        BY <1>2, <4>1, ConcatEmptySeq
      <4>3. <<>> \o SubSeq(Message, n + 1, Size) = SubSeq(Message, n + 1, Size)
        <5>1. SubSeq(Message, n + 1, Size) \in Seq(Nat)
          BY <1>2, <1>0, SubSeqProperties
        <5> QED BY <5>1, ConcatEmptySeq
      <4> QED BY <1>2, <4>1, <4>2, <4>3
    <3>3. n = 0 \/ n > 0
      BY <1>0
    <3> QED BY ONLY <3>1, <3>2, <3>3
  <2> HIDE DEF all
  <2>3. n > 0 => wr # "shut"
    BY <1>5 DEF CanWrite
  <2>4. Stream!Deliver(all, n)
    BY <1>5, <2>2, <2>3 DEF Stream!Deliver
  <2>5. n \in 0..Len(output) + MessageSize
    BY <1>0
  <2>6. Stream!Accept
    BY <1>0, <1>1, <1>4, <1>5, <2>4, <2>5 DEF Stream!Accept, Ended, all
  <2> QED BY <2>6 DEF Stream!Next
<1>6. CASE Dropped
  BY <1>0, <1>6, StreamKept DEF Dropped, streamVars
<1>7. CASE MayWriteDirectly /\ CanWrite /\ Written(Size) /\ output' = output
  <2>1. SubSeq(Message, Size + 1, Size) = <<>> /\ output \o <<>> = output
    BY <1>0, <1>2, SubSeqEmpty, ConcatEmptySeq
  <2>2. wire' = wire \o SubSeq(Message, 1, Size) /\ Size \in 0..Size
    BY <1>0, <1>7 DEF Written
  <2> QED BY <1>5, <1>7, <2>1, <2>2
<1>8. ASSUME NEW n \in 0..Size - 1, n > 0 => MayWriteDirectly,
             MayWriteDirectly => CanWrite, Written(n),
             AppendOutput(SubSeq(Message, n + 1, Size))
      PROVE  [Stream!Next]_(Stream!vars)
  <2>1. wire' = wire \o SubSeq(Message, 1, n) /\ n \in 0..Size
        /\ output' = output \o SubSeq(Message, n + 1, Size)
    BY <1>0, <1>8 DEF Written, AppendOutput
  <2> QED BY <1>5, <1>8, <2>1
<1> QED BY <1>0, <1>6, <1>7, <1>8, SendCases

LEMMA StreamRefines ==
  TInv /\ StateInv /\ StreamInOrder /\ [Next]_vars => [Stream!Next]_(Stream!vars)
<1> SUFFICES ASSUME TInv, StateInv, StreamInOrder, [Next]_vars
             PROVE  [Stream!Next]_(Stream!vars)
  OBVIOUS
<1> USE DEF connVars, loopVars, userVars, sendVars, serverVars
<1>0. TypeOK
  BY DEF TInv
<1>c. ASSUME HandleClose, UNCHANGED <<wire, wr>>
      PROVE  [Stream!Next]_(Stream!vars)
  <2>1. reported' = Append(reported, "down") /\ output' = output
    BY <1>0, <1>c, CloseType
  <2>2. reported' # <<>>
    <3>1. reported \in Seq({"up", "down"}) /\ "down" \in {"up", "down"}
      BY <1>0 DEF TypeOK
    <3> QED BY <2>1, <3>1, AppendProperties
  <2> QED BY <1>c, <2>1, <2>2, EndRefines DEF Ended
<1>1. CASE HandleHangUp \/ HandleRead
  <2>1. UNCHANGED <<wire, wr>> /\ (HandleClose \/ UNCHANGED <<connVars, serverVars>>)
    BY <1>1 DEF HandleHangUp, HandleRead
  <2> QED BY <1>c, <2>1, StreamKept DEF streamVars
<1>2. CASE HandleWrite
  BY <1>2, WriteRefines
<1>3. CASE RunFunctor
  <2>1. state # "Connecting" \/ Head(batch) = "established"
    <3>1. phase = "run" /\ batch # <<>> /\ batch \in Seq(Functors)
      BY <1>0, <1>3 DEF RunFunctor, TypeOK
    <3> QED BY <3>1 DEF StateInv, NewInv
  <2>2. Head(batch) # "destroy" => UNCHANGED destroyed
    BY <1>3 DEF RunFunctor
  <2>3. CASE Head(batch) = "established" /\ ConnectEstablished
    BY <2>2, <2>3, StreamKept DEF ConnectEstablished, streamVars
  <2>4. CASE Head(batch) = "send" /\ SendInLoop
    BY <2>1, <2>2, <2>4, SendRefines
  <2>5. CASE Head(batch) = "shutdown" /\ ShutdownInLoop
    <3>1. ShutdownUnlessWriting /\ UNCHANGED <<output, wire, reported>>
      BY <2>5 DEF ShutdownInLoop
    <3> QED BY <2>1, <2>2, <2>5, <3>1, FinishRefines
  <2>6. CASE Head(batch) = "destroy" /\ ConnectDestroyed
    <3>1. UNCHANGED <<output, wire, wr>> /\ destroyed' # "no"
      BY <2>6 DEF ConnectDestroyed
    <3> QED BY <3>1, EndRefines DEF Ended
  <2>7. CASE Head(batch) \in {"complete", "highWater"} /\ UNCHANGED <<connVars, sendVars>>
    BY <2>2, <2>7, StreamKept DEF streamVars
  <2> QED BY <1>3, <2>3, <2>4, <2>5, <2>6, <2>7 DEF RunFunctor
<1>4. CASE EpollWait \/ DoPendingFunctors \/ HandleError \/ EndPendingFunctors
           \/ CallbackReturns
  <2>1. UNCHANGED streamVars
    BY <1>4 DEF EpollWait, DoPendingFunctors, HandleError, EndPendingFunctors,
                CallbackReturns, streamVars
  <2> QED BY <2>1, StreamKept
<1>5. CASE Send
  BY <1>5, SendRefines DEF Send, CallFromLoop
<1>6. CASE Shutdown
  <2>1. /\ state # "Connecting" /\ ShutdownUnlessWriting
        /\ UNCHANGED <<output, wire, reported, destroyed>>
    BY <1>6 DEF Shutdown, CallFromLoop
  <2> QED BY <2>1, FinishRefines
<1>7. ASSUME NEW u \in Users, BeginSend(u) \/ BeginShutdown(u) \/ UserStep(u)
      PROVE  [Stream!Next]_(Stream!vars)
  <2>1. UNCHANGED streamVars
    BY <1>7 DEF BeginSend, BeginShutdown, Begin, UserStep, SetDisconnecting,
                QueueInLoop, streamVars
  <2> QED BY <2>1, StreamKept
<1>8. CASE \/ RemoveConnectionInLoop \/ ServerDestroyed
           \/ PeerSends \/ PeerCloses \/ PeerResets \/ PeerReads \/ UNCHANGED vars
  <2>1. UNCHANGED streamVars
    BY <1>8 DEF RemoveConnectionInLoop, ServerDestroyed, PeerSends, PeerCloses,
                PeerResets, PeerReads, vars, streamVars
  <2> QED BY <2>1, StreamKept
<1> QED
  BY <1>1, <1>2, <1>3, <1>4, <1>5, <1>6, <1>7, <1>8 DEF Next, LoopStep

LEMMA StreamAlways == Spec => [](TInv /\ StreamInOrder)
<1>1. Init => StreamInOrder
  BY DEF Init, StreamInOrder
<1> QED BY <1>1, TypeInit, TypeNext, StreamNext, PTL DEF Spec

\* For any users, calls and sizes, a connection is the byte stream of module
\* ByteStream: nothing is lost, repeated or overtaken, and no FIN comes before
\* the last byte or in the middle of the stream.
THEOREM StreamRefinement == Spec => IsByteStream
<1>1. Init => Stream!Init
  BY DEF Init, Stream!Init
<1> QED
  BY <1>1, StreamRefines, StreamAlways, StateAlways, PTL DEF Spec, IsByteStream, Stream!Spec
-----------------------------------------------------------------------------
(***************************************************************************)
(* Nothing is forgotten                                                    *)
(***************************************************************************)
AddedInv == Alive => index = "Added"

ForgetInv == ShutdownIsCarried /\ OutputIsWatched /\ AddedInv

\* The ways in which a shutdown is carried on.
InSeq(f, s) == \E i \in 1..Len(s) : s[i] = f

Carried ==
  \/ wr = "shut" \/ Writing \/ peer = "rst"
  \/ InSeq("shutdown", queue) \/ InSeq("shutdown", batch)
  \/ \E u \in Users : pc[u] = "shutdown"

\* Pending output has its event, or will get one.
Watched == IF unsent < SendSpace THEN edge \/ "out" \in revents ELSE noSpace

LEMMA ForgetIsParts ==
  /\ ShutdownIsCarried <=> (state = "Disconnecting" /\ Alive => Carried)
  /\ ShutdownIsCarried' <=> (state' = "Disconnecting" /\ Alive' => Carried')
  /\ OutputIsWatched <=> (Alive /\ Writing /\ peer # "rst" => index = "Added" /\ Watched)
  /\ OutputIsWatched' <=>
       (Alive' /\ Writing' /\ peer' # "rst" => index' = "Added" /\ Watched')
BY DEF ShutdownIsCarried, OutputIsWatched, Carried, Watched, InSeq

LEMMA AppendKeeps ==
  ASSUME TInv, NEW f \in Functors, queue' = Append(queue, f)
  PROVE  /\ InSeq(f, queue')
         /\ \A g : InSeq(g, queue) => InSeq(g, queue')
<1>1. queue \in Seq(Functors)
  BY DEF TInv, TypeOK
<1>2. /\ Len(queue') = Len(queue) + 1 /\ queue'[Len(queue) + 1] = f
      /\ \A i \in 1..Len(queue) : queue'[i] = queue[i]
  BY <1>1, AppendProperties
<1>3. /\ Len(queue) + 1 \in 1..Len(queue')
      /\ \A i \in 1..Len(queue) : i \in 1..Len(queue')
  BY <1>1, <1>2
<1>4. InSeq(f, queue')
  BY <1>2, <1>3 DEF InSeq
<1>5. ASSUME NEW g, InSeq(g, queue) PROVE InSeq(g, queue')
  BY <1>2, <1>3, <1>5 DEF InSeq
<1> QED BY <1>4, <1>5

\* What is taken from the front of the batch was the front.
LEMMA TailKeeps ==
  ASSUME TInv, batch # <<>>, batch' = Tail(batch), NEW g, InSeq(g, batch)
  PROVE  InSeq(g, batch') \/ Head(batch) = g
<1>1. batch \in Seq(Functors) /\ Len(batch) \in Nat
  BY DEF TInv, TypeOK
<1>2. /\ Len(batch') = Len(batch) - 1 /\ Head(batch) = batch[1]
      /\ \A j \in 1..Len(batch') : batch'[j] = batch[j + 1]
  BY <1>1, HeadTailProperties
<1>3. PICK i \in 1..Len(batch) : batch[i] = g
  BY DEF InSeq
<1>4. CASE i = 1
  BY <1>2, <1>3, <1>4
<1>5. CASE i # 1
  <2>1. i - 1 \in 1..Len(batch') /\ (i - 1) + 1 = i
    BY <1>1, <1>2, <1>5
  <2>2. batch'[i - 1] = g
    BY <1>2, <1>3, <2>1
  <2> QED BY <2>1, <2>2 DEF InSeq
<1> QED BY <1>4, <1>5

\* A step that leaves the connection, its channel and its buffers alone.
LEMMA ForgetKept ==
  ASSUME ForgetInv, UNCHANGED <<connVars, wr, peer, unsent, noSpace, edge, destroyed>>,
         "out" \in revents => "out" \in revents',
         Carried => Carried'
  PROVE  ForgetInv'
<1> USE DEF ForgetInv, connVars
<1>1. (Alive' <=> Alive) /\ (Writing' <=> Writing)
  BY DEF Alive, Writing
<1>2. AddedInv'
  BY <1>1 DEF AddedInv
<1>3. ShutdownIsCarried'
  BY <1>1, ForgetIsParts
<1>4. Watched => Watched'
  BY DEF Watched
<1>5. OutputIsWatched'
  BY <1>1, <1>4, ForgetIsParts
<1> QED BY <1>2, <1>3, <1>5

\* Nothing is owed to a connection that is over.
LEMMA ForgetOver ==
  ASSUME state' = "Disconnected" \/ destroyed' # "no" \/ reported' # <<>>
  PROVE  ForgetInv'
BY DEF ForgetInv, AddedInv, ShutdownIsCarried, OutputIsWatched, Alive

\* epoll looks at the channel again: what is on the ready list stays there.
LEMMA RecheckWatches ==
  ASSUME Recheck, index' = "Added"
  PROVE  /\ edge => edge'
         /\ Writing' /\ unsent' < SendSpace => edge'
<1>1. Writing' /\ unsent' < SendSpace => "out" \in Reportable'
  BY DEF Writing, Reportable, Ready
<1> QED BY <1>1 DEF Recheck

\* A partial write leaves the send buffer full, and the kernel knows it.
LEMMA PartialWrite ==
  ASSUME TypeOK, NEW b \in Seq(Nat), Write(b), Taken(b) # Len(b)
  PROVE  unsent' = SendSpace /\ noSpace' = TRUE
<1>1. Len(b) \in Nat /\ unsent \in 0..SendSpace /\ SendSpace \in Nat
  BY SizeAssumption DEF TypeOK
<1>2. Taken(b) = SendSpace - unsent /\ Taken(b) < Len(b)
  BY <1>1 DEF Taken
<1>3. unsent' = unsent + Taken(b) /\ noSpace' = (noSpace \/ Taken(b) < Len(b))
  BY DEF Write
<1>4. unsent' = SendSpace
  BY <1>1, <1>2, <1>3
<1> QED BY <1>2, <1>3, <1>4

\* shutdown(SHUT_WR) has been called, or is left to HandleWrite.
LEMMA ShutdownCarries ==
  ASSUME ShutdownUnlessWriting, UNCHANGED interest, UNCHANGED peer
  PROVE  Carried'
BY DEF ShutdownUnlessWriting, ShutdownWrite, Carried, Writing

LEMMA ShutdownForgets ==
  ASSUME TInv, ForgetInv, ShutdownUnlessWriting, state # "Connecting",
         state # "Disconnected" \/ state' = "Disconnected",
         UNCHANGED <<interest, index, reported, peer, unsent, noSpace, revents, destroyed>>
  PROVE  ForgetInv'
<1> USE DEF ForgetInv
<1>1. Carried'
  BY ShutdownCarries
<1>2. CASE Alive
  <2>1. index' = "Added" /\ (edge => edge')
    BY <1>2, RecheckWatches DEF AddedInv, ShutdownUnlessWriting
  <2>2. Watched => Watched'
    BY <2>1 DEF Watched
  <2>3. Writing' <=> Writing
    BY DEF Writing
  <2> QED BY <1>1, <1>2, <2>1, <2>2, <2>3, ForgetIsParts DEF AddedInv
<1>3. CASE ~Alive /\ Alive'
  <2>1. state \in {"Connected", "Disconnecting"} => Alive
    BY <1>3 DEF Alive
  <2>2. state = "Disconnected"
    BY <1>3, <2>1 DEF TInv, TypeOK, States
  <2> QED BY <1>3, <2>2 DEF Alive
<1>4. CASE ~Alive'
  BY <1>4, ForgetIsParts DEF AddedInv
<1> QED BY <1>2, <1>3, <1>4
\* SendInLoop: bytes that wait are either behind others that are watched, or
\* what is left of a write that filled the send buffer.
LEMMA SendForgets ==
  ASSUME TInv, StateInv, ForgetInv, SendInLoop, state # "Connecting",
         UNCHANGED <<revents, destroyed, pc>>,
         InSeq("shutdown", batch) => InSeq("shutdown", batch')
  PROVE  ForgetInv'
<1> USE DEF ForgetInv
<1>0. /\ TypeOK /\ UNCHANGED <<state, reported, wr, peer>>
  BY SendCases DEF TInv
<1>1. Alive' <=> Alive
  BY <1>0 DEF Alive
<1>2. InSeq("shutdown", queue) => InSeq("shutdown", queue')
  <2>1. \/ queue' = queue \/ queue' = Append(queue, "complete")
        \/ queue' = Append(queue, "highWater")
    BY <1>0, SendCases DEF Dropped, AppendOutput
  <2> QED BY <2>1, AppendKeeps DEF Functors
<1>3. Writing => Writing'
  BY SendState DEF Writing
<1>4. Carried => Carried'
  BY <1>0, <1>2, <1>3 DEF Carried
<1>5. Alive => index' = "Added"
  BY SendState DEF AddedInv
<1>6. ShutdownIsCarried' /\ AddedInv'
  BY <1>0, <1>1, <1>4, <1>5, ForgetIsParts DEF AddedInv
<1>7. ASSUME Alive, Writing', peer # "rst" PROVE Watched'
  <2>1. CASE Writing
    <3>1. ~MayWriteDirectly
      BY <2>1 DEF MayWriteDirectly
    <3>2. UNCHANGED <<unsent, noSpace, edge>>
      BY <2>1, <3>1 DEF SendInLoop, DropMessage, AppendOutput
    <3>3. Watched
      BY <1>7, <2>1, ForgetIsParts
    <3> QED BY <3>2, <3>3 DEF Watched
  <2>2. CASE ~Writing
    <3>1. MayWriteDirectly
      BY <1>7, <2>2 DEF StateInv, WritingIffPending, MayWriteDirectly
    <3>2. interest' # interest
      BY <1>7, <2>2 DEF Writing
    <3>3. Write(Message) /\ Taken(Message) # MessageSize
      BY <3>1, <3>2 DEF SendInLoop, DropMessage, connVars, Message
    <3>4. unsent' = SendSpace /\ noSpace' = TRUE
      BY <1>0, <3>3, MessageType, PartialWrite
    <3>5. ~(SendSpace < SendSpace)
      BY SizeAssumption
    <3> QED BY <3>4, <3>5 DEF Watched
  <2> QED BY <2>1, <2>2
<1> QED BY <1>0, <1>1, <1>5, <1>6, <1>7, ForgetIsParts

\* HandleWrite: the writable event is used up only by a write that empties the
\* output or fills the send buffer, and an empty output lets the FIN go.
LEMMA WriteForgets ==
  ASSUME TInv, StateInv, ForgetInv, HandleWrite
  PROVE  ForgetInv'
<1> USE DEF ForgetInv
<1>0. /\ TypeOK /\ UNCHANGED <<state, reported, peer, batch, pc, destroyed>>
      /\ output \in Seq(Nat) /\ Len(output) \in Nat
  <2>1. TypeOK
    BY DEF TInv
  <2>2. output \in Seq(Nat)
    BY <2>1 DEF TypeOK
  <2>3. UNCHANGED <<state, reported, peer, batch, pc, destroyed>>
    BY <2>1, WriteCases DEF userVars, serverVars
  <2> QED BY <2>1, <2>2, <2>3
<1>1. Alive' <=> Alive
  BY <1>0 DEF Alive
<1>2. CASE ~Alive
  BY <1>1, <1>2, ForgetIsParts DEF AddedInv
<1>3. CASE Alive /\ ~Writing
  <2>1. UNCHANGED <<wr, queue, interest, index>>
    BY <1>3 DEF HandleWrite
  <2> QED BY <1>0, <1>1, <1>3, <2>1, ForgetIsParts DEF AddedInv, Carried, Writing
<1>4. CASE Alive /\ Writing /\ ~CanWrite
  <2>1. UNCHANGED <<wr, queue, interest, index>>
    BY <1>4 DEF HandleWrite
  <2>2. wr # "shut"
    BY <1>4 DEF StateInv, NoDataBehindFin, WritingIffPending
  <2>3. peer = "rst"
    BY <1>0, <1>4, <2>2 DEF CanWrite, TypeOK
  <2> QED BY <1>0, <1>1, <1>4, <2>1, <2>3, ForgetIsParts DEF AddedInv, Carried
<1>5. CASE Alive /\ Writing /\ CanWrite
  <2>1. Write(output) /\ output' = SubSeq(output, Taken(output) + 1, Len(output))
    BY <1>5 DEF HandleWrite
  <2>2. CASE output' = <<>> /\ Taken(output) > 0
    <3>1. FinishShutdown /\ DisableWriting
      BY <1>5, <2>2 DEF HandleWrite
    <3>2. state = "Disconnecting" => wr' = "shut" \/ peer = "rst"
      BY <3>1 DEF FinishShutdown, ShutdownWrite
    <3>3. UpdateChannel(interest \ {"out"}) /\ interest \ {"out"} \in SUBSET {"in", "out"}
      BY <1>0, <3>1 DEF DisableWriting, TypeOK
    <3>4. interest' = interest \ {"out"} /\ (interest' # {} => index' = "Added")
      BY <3>3, UpdateType
    <3>5. "in" \in interest
      BY <1>5 DEF StateInv, ListenInv, DownInv, Alive
    <3>6. index' = "Added" /\ ~Writing'
      BY <3>4, <3>5 DEF Writing
    <3> QED BY <1>0, <1>1, <3>2, <3>6, ForgetIsParts DEF AddedInv, Carried
  <2>3. CASE ~(output' = <<>> /\ Taken(output) > 0)
    <3>1. UNCHANGED <<wr, queue, interest, index>>
      BY <1>5, <2>3 DEF HandleWrite
    <3>2. output # <<>>
      BY <1>5 DEF StateInv, WritingIffPending
    <3>3. Taken(output) # Len(output)
      <4>1. Taken(output) \in 0..Len(output) /\ Len(output') = Len(output) - Taken(output)
            /\ output' \in Seq(Nat)
        BY <1>0, <2>1, WriteOutput
      <4>2. SUFFICES ASSUME Taken(output) = Len(output) PROVE FALSE
        OBVIOUS
      <4>3. Len(output') = 0 /\ Len(output) > 0
        BY <1>0, <3>2, <4>1, <4>2
      <4> QED BY <2>3, <4>1, <4>2, <4>3
    <3>4. unsent' = SendSpace /\ noSpace' = TRUE /\ ~(SendSpace < SendSpace)
      <4>1. unsent' = SendSpace /\ noSpace' = TRUE
        BY <1>0, <2>1, <3>3, PartialWrite
      <4>2. ~(SendSpace < SendSpace)
        BY SizeAssumption
      <4> QED BY ONLY <4>1, <4>2
    <3>5. Watched'
      BY <3>4 DEF Watched
    <3>6. Carried'
      BY <1>5, <3>1 DEF Carried, Writing
    <3> QED BY <1>0, <1>1, <1>5, <3>1, <3>5, <3>6, ForgetIsParts DEF AddedInv
  <2> QED BY <2>2, <2>3
<1> QED BY <1>2, <1>3, <1>4, <1>5

LEMMA FunctorForgets ==
  ASSUME TInv, StateInv, ForgetInv, RunFunctor
  PROVE  ForgetInv'
<1> USE DEF ForgetInv, connVars, userVars, sendVars, recvVars
<1>0. /\ TypeOK /\ phase = "run" /\ batch # <<>> /\ batch' = Tail(batch)
      /\ batch \in Seq(Functors) /\ UNCHANGED <<revents, pc>>
      /\ Head(batch) # "destroy" => UNCHANGED destroyed
  BY DEF TInv, TypeOK, RunFunctor
<1>1. Head(batch) # "shutdown" /\ InSeq("shutdown", batch) => InSeq("shutdown", batch')
  BY <1>0, TailKeeps
<1>2. state # "Connecting" \/ Head(batch) = "established"
  BY <1>0 DEF StateInv, NewInv
<1>3. CASE Head(batch) = "established" /\ ConnectEstablished
  <2>1. state = "Connecting"
    <3>1. 1 \in 1..Len(batch) /\ batch[1] = "established"
      BY <1>0, <1>3
    <3> QED BY <3>1 DEF StateInv, FirstInv
  <2>2. interest = {} /\ state' = "Connected"
    BY <1>3, <2>1 DEF StateInv, NewInv, ConnectEstablished
  <2>3. interest' = {"in"} /\ index' = "Added"
    <3>1. interest \cup {"in"} = {"in"} /\ {"in"} \in SUBSET {"in", "out"}
      BY <2>2
    <3>2. UpdateChannel({"in"})
      BY <1>3, <3>1 DEF ConnectEstablished, EnableReading
    <3> QED BY <3>1, <3>2, UpdateType
  <2> QED BY <2>2, <2>3, ForgetIsParts DEF AddedInv, Writing
<1>4. CASE Head(batch) = "send" /\ SendInLoop
  BY <1>0, <1>1, <1>2, <1>4, SendForgets
<1>5. CASE Head(batch) = "shutdown" /\ ShutdownInLoop
  <2>1. /\ UNCHANGED <<state, interest, index, reported, peer, unsent, noSpace, revents,
                       destroyed>>
        /\ ShutdownUnlessWriting
    BY <1>0, <1>5 DEF ShutdownInLoop
  <2> QED BY <1>2, <1>5, <2>1, ShutdownForgets
<1>6. CASE Head(batch) = "destroy" /\ ConnectDestroyed
  BY <1>6, ForgetOver DEF ConnectDestroyed
<1>7. CASE /\ Head(batch) \in {"complete", "highWater"}
           /\ UNCHANGED <<connVars, queue, sendVars, recvVars, edge>>
  <2>1. Carried => Carried'
    BY <1>0, <1>1, <1>7 DEF Carried, Writing
  <2> QED BY <1>0, <1>7, <2>1, ForgetKept
<1> QED BY <1>3, <1>4, <1>5, <1>6, <1>7 DEF RunFunctor
LEMMA ForgetNext == TInv /\ StateInv /\ ForgetInv /\ [Next]_vars => ForgetInv'
<1> SUFFICES ASSUME TInv, StateInv, ForgetInv, [Next]_vars PROVE ForgetInv'
  OBVIOUS
<1> USE DEF connVars, loopVars, userVars, sendVars, recvVars, serverVars
<1>0. /\ TypeOK /\ pc \in [Users -> {"idle", "send", "setState", "shutdown"}]
      /\ queue \in Seq(Functors) /\ state \in States
  BY DEF TInv, TypeOK
<1>1. CASE EpollWait
  <2>1. /\ phase = "poll" /\ revents' = Reportable /\ (edge' <=> "in" \notin interest)
        /\ edge = TRUE /\ index = "Added"
        /\ UNCHANGED <<connVars, wr, peer, unsent, noSpace, queue, batch, pc, destroyed>>
    BY <1>1 DEF EpollWait
  <2>2. (Alive' <=> Alive) /\ (Writing' <=> Writing) /\ (Carried' <=> Carried)
    BY <2>1 DEF Alive, Writing, Carried
  <2>3. ASSUME Writing, Watched PROVE Watched'
    <3>1. unsent < SendSpace => "out" \in Reportable
      BY <2>3 DEF Writing, Reportable, Ready
    <3> QED BY <2>1, <2>3, <3>1 DEF Watched
  <2> QED BY <2>1, <2>2, <2>3, ForgetIsParts DEF ForgetInv, AddedInv
<1>2. CASE DoPendingFunctors
  <2>1. /\ batch' = queue /\ phase \in {"poll", "events"}
        /\ UNCHANGED <<connVars, wr, peer, unsent, noSpace, edge, revents, pc, destroyed>>
    BY <1>2 DEF DoPendingFunctors
  <2>2. batch = <<>>
    BY <2>1 DEF StateInv, PlaceInv
  <2>3. ~InSeq("shutdown", batch)
    BY <2>2 DEF InSeq
  <2>4. Carried => Carried'
    BY <2>1, <2>3 DEF Carried, Writing
  <2> QED BY <2>1, <2>4, ForgetKept
<1>3. CASE (HandleHangUp \/ HandleRead) /\ HandleClose
  <2>1. state' = "Disconnected"
    BY <1>3 DEF HandleClose
  <2> QED BY <2>1, ForgetOver
<1>4. CASE HandleError \/ ((HandleHangUp \/ HandleRead) /\ ~HandleClose)
  <2>1. /\ revents' \in {revents \ {"hup"}, revents \ {"err"}, revents \ {"in"}}
        /\ UNCHANGED <<connVars, wr, peer, unsent, noSpace, edge, destroyed, queue,
                       batch, pc>>
    BY <1>4 DEF HandleHangUp, HandleError, HandleRead, Handling
  <2>2. Carried => Carried'
    BY <2>1 DEF Carried, Writing
  <2> QED BY <2>1, <2>2, ForgetKept
<1>5. CASE EndPendingFunctors \/ CallbackReturns
  <2>1. UNCHANGED <<connVars, wr, peer, unsent, noSpace, edge, destroyed, queue, batch,
                    pc, revents>>
    BY <1>5 DEF EndPendingFunctors, CallbackReturns
  <2>2. Carried => Carried'
    BY <2>1 DEF Carried, Writing
  <2> QED BY <2>1, <2>2, ForgetKept
<1>6. CASE Send
  <2>1. /\ SendInLoop /\ state # "Connecting"
        /\ UNCHANGED <<revents, destroyed, pc, batch>>
    BY <1>6 DEF Send, CallFromLoop
  <2> QED BY <2>1, SendForgets
<1>7. CASE Shutdown
  <2>1. /\ state = "Connected" /\ ShutdownUnlessWriting
        /\ UNCHANGED <<interest, index, reported, peer, unsent, noSpace, revents, destroyed>>
    BY <1>7 DEF Shutdown, CallFromLoop
  <2> QED BY <2>1, ShutdownForgets
<1>8. ASSUME NEW u \in Users, BeginSend(u) \/ BeginShutdown(u)
      PROVE  ForgetInv'
  <2>1. PICK call \in {"send", "setState"} : Begin(u, call)
    BY <1>8 DEF BeginSend, BeginShutdown
  <2>2. /\ pc[u] = "idle" /\ pc' = [pc EXCEPT ![u] = call]
        /\ UNCHANGED <<connVars, wr, peer, unsent, noSpace, edge, destroyed, queue,
                       batch, revents>>
    BY <2>1 DEF Begin
  <2>3. \A v \in Users : pc[v] = "shutdown" => pc'[v] = "shutdown"
    BY <1>0, <2>2
  <2>4. Carried => Carried'
    BY <2>2, <2>3 DEF Carried, Writing
  <2> QED BY <2>2, <2>4, ForgetKept
<1>9. ASSUME NEW u \in Users, SetDisconnecting(u)
      PROVE  ForgetInv'
  <2>1. /\ pc' = [pc EXCEPT ![u] = "shutdown"] /\ pc[u] = "setState"
        /\ UNCHANGED <<interest, index, output, reported, wr, peer, unsent, noSpace, edge,
                       destroyed, revents>>
    BY <1>9 DEF SetDisconnecting
  <2>2. Carried'
    BY <1>0, <2>1 DEF Carried
  <2>3. Alive' => Alive
    <3>1. state \in {"Connected", "Disconnecting", "Disconnected"}
      BY <1>0, <2>1 DEF StateInv, NewInv, States
    <3> QED BY <2>1, <3>1 DEF Alive, StateInv, DownInv
  <2>4. (Writing' <=> Writing) /\ (Watched' <=> Watched)
    BY <2>1 DEF Writing, Watched
  <2> QED BY <2>1, <2>2, <2>3, <2>4, ForgetIsParts DEF ForgetInv, AddedInv
<1>10. ASSUME NEW u \in Users, QueueInLoop(u)
       PROVE  ForgetInv'
  <2>1. /\ pc[u] \in Functors /\ queue' = Append(queue, pc[u])
        /\ pc' = [pc EXCEPT ![u] = "idle"]
        /\ UNCHANGED <<connVars, wr, peer, unsent, noSpace, edge, destroyed, batch, revents>>
    BY <1>10 DEF QueueInLoop, Functors
  <2>2. InSeq(pc[u], queue') /\ \A g : InSeq(g, queue) => InSeq(g, queue')
    BY <2>1, AppendKeeps
  <2>3. \A v \in Users \ {u} : pc'[v] = pc[v]
    BY <1>0, <2>1
  <2>4. Carried => Carried'
    BY <2>1, <2>2, <2>3 DEF Carried, Writing
  <2> QED BY <2>1, <2>4, ForgetKept
<1>11. CASE RemoveConnectionInLoop \/ ServerDestroyed
  <2>1. /\ queue' = Append(queue, "destroy") /\ "destroy" \in Functors
        /\ UNCHANGED <<connVars, wr, peer, unsent, noSpace, edge, destroyed, batch, pc,
                       revents>>
    BY <1>11 DEF RemoveConnectionInLoop, ServerDestroyed, Functors
  <2>2. Carried => Carried'
    BY <2>1, AppendKeeps DEF Carried, Writing
  <2> QED BY <2>1, <2>2, ForgetKept
<1>12. CASE PeerSends \/ PeerCloses \/ PeerResets \/ PeerReads
  <2>1. /\ UNCHANGED <<connVars, wr, destroyed, queue, batch, pc, revents>>
        /\ peer = "rst" => peer' = "rst"
        /\ Recheck \/ UNCHANGED edge
    BY <1>12 DEF PeerSends, PeerCloses, PeerResets, PeerReads
  <2>2. (Alive' <=> Alive) /\ (Writing' <=> Writing) /\ (Carried => Carried')
    BY <2>1 DEF Alive, Writing, Carried
  <2>3. index = "Added" /\ edge => edge'
    BY <2>1, RecheckWatches
  <2>4. ASSUME Alive, Writing, Watched, index = "Added"
        PROVE  Watched'
    <3>1. CASE unsent < SendSpace
      <4>1. unsent' < SendSpace
        <5>1. unsent \in Int /\ SendSpace \in Int
          BY <1>0, SizeAssumption DEF TypeOK
        <5>2. unsent' = unsent \/ unsent' = unsent - 1
          BY <1>12 DEF PeerSends, PeerCloses, PeerResets, PeerReads
        <5> QED BY <3>1, <5>1, <5>2
      <4> QED BY <2>1, <2>3, <2>4, <3>1, <4>1 DEF Watched
    <3>2. CASE ~(unsent < SendSpace) /\ PeerReads
      <4>1. Recheck
        BY <2>4, <3>2 DEF Watched, PeerReads
      <4>2. unsent' < SendSpace
        <5>1. unsent \in 0..SendSpace /\ SendSpace \in Nat /\ unsent' = unsent - 1
          BY <1>0, <3>2, SizeAssumption DEF TypeOK, PeerReads
        <5> QED BY <5>1
      <4> QED BY <2>1, <2>2, <2>4, <4>1, <4>2, RecheckWatches DEF Watched
    <3>3. CASE ~(unsent < SendSpace) /\ ~PeerReads
      <4>1. UNCHANGED <<unsent, noSpace>>
        BY <1>12, <3>3 DEF PeerSends, PeerCloses, PeerResets
      <4> QED BY <2>4, <3>3, <4>1 DEF Watched
    <3> QED BY <3>1, <3>2, <3>3
  <2> QED BY <2>1, <2>2, <2>4, ForgetIsParts DEF ForgetInv, AddedInv
<1>13. CASE UNCHANGED vars
  <2>1. Carried => Carried'
    BY <1>13 DEF vars, Carried, Writing
  <2> QED BY <1>13, <2>1, ForgetKept DEF vars
<1>14. CASE LoopStep
  <2>1. CASE HandleWrite
    BY <2>1, WriteForgets
  <2>2. CASE RunFunctor
    BY <2>2, FunctorForgets
  <2>3. CASE HandleHangUp \/ HandleError \/ HandleRead
    BY <1>3, <1>4, <2>3
  <2> QED BY <1>1, <1>2, <1>5, <1>14, <2>1, <2>2, <2>3 DEF LoopStep
<1>15. ASSUME NEW u \in Users, UserStep(u) PROVE ForgetInv'
  BY <1>9, <1>10, <1>15 DEF UserStep
<1> QED BY <1>6, <1>7, <1>8, <1>11, <1>12, <1>13, <1>14, <1>15 DEF Next

\* For any users, calls and sizes: a shutdown that was asked for has somebody
\* who will still do it, and output that waits has its writable event, or the
\* kernel knows that it owes one.  Only fairness is missing from
\* ShutdownCompletes and OutputDrains.
THEOREM NothingForgotten == Spec => []NothingIsForgotten
<1>1. Init => ForgetInv
  BY DEF Init, ForgetInv, AddedInv, ShutdownIsCarried, OutputIsWatched, Alive
<1>2. ForgetInv => NothingIsForgotten
  BY DEF ForgetInv, NothingIsForgotten
<1> QED BY <1>1, <1>2, ForgetNext, StreamAlways, StateAlways, PTL DEF Spec
-----------------------------------------------------------------------------
(***************************************************************************)
(* The life of the connection.  StateInv knows that ConnectEstablished is  *)
(* the first functor of a connection; what it does not know is that the    *)
(* server lets go of the connection before it queues ConnectDestroyed.     *)
(***************************************************************************)
NoDestroyIn(s) == \A i \in 1..Len(s) : s[i] # "destroy"

LetGoInv == owned => NoDestroyIn(queue) /\ NoDestroyIn(batch)

LEMMA LetGoAppend ==
  ASSUME NEW s \in Seq(Functors), NEW f \in Functors \ {"destroy"}, NoDestroyIn(s)
  PROVE  NoDestroyIn(Append(s, f))
<1>1. /\ Len(Append(s, f)) = Len(s) + 1 /\ Append(s, f)[Len(s) + 1] = f
      /\ \A i \in 1..Len(s) : Append(s, f)[i] = s[i]
  BY AppendProperties
<1>2. \A i \in 1..Len(Append(s, f)) : i \in 1..Len(s) \/ i = Len(s) + 1
  BY <1>1
<1> QED BY <1>1, <1>2 DEF NoDestroyIn

LEMMA LetGoKept ==
  ASSUME TypeOK, LetGoInv, owned' => owned,
         owned' => \/ queue' \in {queue, <<>>}
                   \/ \E f \in Functors \ {"destroy"} : queue' = Append(queue, f),
         \/ batch' \in {batch, queue}
         \/ batch # <<>> /\ batch' = Tail(batch)
  PROVE  LetGoInv'
<1> SUFFICES ASSUME owned' PROVE NoDestroyIn(queue') /\ NoDestroyIn(batch')
  BY DEF LetGoInv, NoDestroyIn
<1>1. NoDestroyIn(queue) /\ NoDestroyIn(batch) /\ queue \in Seq(Functors) /\ batch \in Seq(Functors)
  BY DEF LetGoInv, TypeOK
<1>2. NoDestroyIn(queue')
  <2>1. NoDestroyIn(<<>>)
    BY DEF NoDestroyIn
  <2> QED BY <1>1, <2>1, LetGoAppend
<1>3. NoDestroyIn(batch')
  <2>1. CASE batch # <<>> /\ batch' = Tail(batch)
    <3>1. \A i \in 1..Len(batch') : batch'[i] = batch[i + 1] /\ i + 1 \in 1..Len(batch)
      BY <1>1, <2>1, HeadTailProperties
    <3> QED BY <1>1, <3>1 DEF NoDestroyIn
  <2> QED BY <1>1, <2>1
<1> QED BY <1>2, <1>3

\* SendInLoop queues at most one functor, for a callback of the user.
LEMMA SendQueues ==
  ASSUME TypeOK, SendInLoop
  PROVE  queue' = queue \/ \E f \in Functors \ {"destroy"} : queue' = Append(queue, f)
<1>1. {"complete", "highWater"} \subseteq Functors \ {"destroy"}
  BY DEF Functors
<1>2. CASE Dropped
  BY <1>2 DEF Dropped
<1>3. CASE queue' = Append(queue, "complete")
  BY <1>1, <1>3
<1>4. ASSUME NEW rest, AppendOutput(rest)
      PROVE  queue' = queue \/ queue' = Append(queue, "highWater")
  BY <1>4 DEF AppendOutput
<1> QED BY <1>1, <1>2, <1>3, <1>4, SendCases

LEMMA LetGoNext == TypeOK /\ LetGoInv /\ [Next]_vars => LetGoInv'
<1> SUFFICES ASSUME TypeOK, LetGoInv, [Next]_vars PROVE LetGoInv'
  OBVIOUS
<1> USE DEF connVars, loopVars, userVars, serverVars
<1>1. CASE DoPendingFunctors
  BY <1>1, LetGoKept DEF DoPendingFunctors
<1>2. CASE EpollWait \/ HandleError \/ EndPendingFunctors \/ CallbackReturns \/ Shutdown
           \/ PeerSends \/ PeerCloses \/ PeerResets \/ PeerReads \/ UNCHANGED vars
  <2>1. UNCHANGED <<owned, queue, batch>>
    <3>1. CASE EpollWait \/ HandleError \/ EndPendingFunctors \/ CallbackReturns
      BY <3>1 DEF EpollWait, HandleError, Handling, EndPendingFunctors, CallbackReturns
    <3>2. CASE Shutdown
      BY <3>2 DEF Shutdown, CallFromLoop
    <3>3. CASE PeerSends \/ PeerCloses \/ PeerResets \/ PeerReads \/ UNCHANGED vars
      BY <3>3 DEF PeerSends, PeerCloses, PeerResets, PeerReads, vars
    <3> QED BY <1>2, <3>1, <3>2, <3>3
  <2> QED BY <2>1, LetGoKept
<1>3. CASE HandleHangUp \/ HandleRead
  <2>1. UNCHANGED <<owned, queue, batch>>
    BY <1>3 DEF HandleHangUp, HandleRead, Handling, HandleClose
  <2> QED BY <2>1, LetGoKept
<1>4. CASE HandleWrite
  <2>1. UNCHANGED <<owned, batch>> /\ (queue' = queue \/ queue' = Append(queue, "complete"))
    BY <1>4, WriteCases
  <2> QED BY <2>1, LetGoKept DEF Functors
<1>5. CASE RunFunctor
  <2>1. batch # <<>> /\ batch' = Tail(batch) /\ owned' = owned
    BY <1>5 DEF RunFunctor
  <2>2. queue' = queue \/ \E f \in Functors \ {"destroy"} : queue' = Append(queue, f)
    <3>1. SendInLoop \/ queue' = queue
      BY <1>5 DEF RunFunctor, ConnectEstablished, ShutdownInLoop, ConnectDestroyed
    <3> QED BY <3>1, SendQueues
  <2> QED BY <2>1, <2>2, LetGoKept
<1>6. CASE Send
  <2>1. SendInLoop /\ UNCHANGED <<owned, batch>>
    BY <1>6 DEF Send, CallFromLoop
  <2> QED BY <2>1, SendQueues, LetGoKept
<1>7. ASSUME NEW u \in Users, BeginSend(u) \/ BeginShutdown(u) \/ SetDisconnecting(u)
      PROVE  LetGoInv'
  <2>1. UNCHANGED <<owned, queue, batch>>
    BY <1>7 DEF BeginSend, BeginShutdown, Begin, SetDisconnecting
  <2> QED BY <2>1, LetGoKept
<1>8. ASSUME NEW u \in Users, QueueInLoop(u)
      PROVE  LetGoInv'
  <2>1. /\ pc[u] \in Functors \ {"destroy"} /\ queue' = Append(queue, pc[u])
        /\ UNCHANGED <<owned, batch>>
    BY <1>8 DEF QueueInLoop, Functors
  <2> QED BY <2>1, LetGoKept
<1>9. CASE RemoveConnectionInLoop \/ ServerDestroyed
  <2>1. owned' = FALSE /\ UNCHANGED batch
    BY <1>9 DEF RemoveConnectionInLoop, ServerDestroyed
  <2> QED BY <2>1, LetGoKept
<1> QED
  BY <1>1, <1>2, <1>3, <1>4, <1>5, <1>6, <1>7, <1>8, <1>9 DEF Next, LoopStep, UserStep

\* A connection of which ConnectionLife promises no more.
Unsettled == revived \/ destroyed = "half"

\* What the counts of the handlers have to do with the state, and with who
\* still holds the connection.
CountInv ==
  /\ ran.established = IF state = "Connecting" THEN 0 ELSE 1
  /\ state = "Connecting" => ran.closed = 0 /\ ran.destroyed = 0
  /\ state = "Disconnected" => ran.closed > 0 \/ ran.destroyed > 0
  /\ ran.closed > 0 \/ ran.destroyed > 0 => state = "Disconnected" \/ Unsettled
  /\ owned => ran.destroyed = 0
  /\ removing > 0 => ran.closed > 0
  /\ ~baseRuns => ~owned
  /\ baseRuns /\ ran.closed = 0 => owned

LEMMA CountKept ==
  ASSUME CountInv, UNCHANGED <<ran, baseRuns, owned, removing>>,
         Unsettled => Unsettled',
         state' = "Connecting" <=> state = "Connecting",
         state' = "Disconnected" => state = "Disconnected",
         state = "Disconnected" => state' = "Disconnected" \/ Unsettled'
  PROVE  CountInv'
BY DEF CountInv

\* HandleClose follows an event, and no event reaches a connection that is
\* new or, as long as it is settled, closed.
LEMMA CloseOnce ==
  ASSUME TInv, StateInv, CountInv, HandleClose, revived' = revived,
         phase = "events", revents \cap {"in", "hup"} # {}
  PROVE  /\ ran.established = 1 /\ Count("closed")
         /\ UNCHANGED <<owned, baseRuns, destroyed>>
         /\ ~Unsettled => ran.closed = 0 /\ ran.destroyed = 0
         /\ state # "Connecting" /\ state' = "Disconnected" /\ removing' = removing + 1
<1>1. /\ Count("closed") /\ UNCHANGED <<owned, baseRuns, destroyed>>
      /\ state' = "Disconnected" /\ removing' = removing + 1
  BY CloseType DEF TInv
<1>2. state # "Connecting"
  BY DEF StateInv, NewInv
<1>3. ~Unsettled => state # "Disconnected"
  BY DEF StateInv, ListenInv, Unsettled
<1>4. ran.closed \in Nat /\ ran.destroyed \in Nat
  BY DEF TInv, TypeOK
<1> QED BY <1>1, <1>2, <1>3, <1>4 DEF CountInv

LEMMA CloseCount ==
  ASSUME TInv, StateInv, CountInv, HandleClose, revived' = revived,
         phase = "events", revents \cap {"in", "hup"} # {}
  PROVE  CountInv'
<1>1. /\ ran.closed \in Nat /\ removing \in Nat
      /\ ran \in [established : Nat, closed : Nat, destroyed : Nat]
  BY DEF TInv, TypeOK
<1>2. /\ ran'.closed = ran.closed + 1 /\ ran'.closed > 0
      /\ ran'.established = ran.established /\ ran'.destroyed = ran.destroyed
  BY <1>1, CloseOnce DEF Count
<1>3. /\ UNCHANGED <<owned, baseRuns>> /\ state' = "Disconnected" /\ state # "Connecting"
  BY CloseOnce
<1> QED BY <1>1, <1>2, <1>3 DEF CountInv

\* What a functor means for the counts.
LEMMA FunctorCounts ==
  ASSUME TInv, StateInv, CountInv, LetGoInv, RunFunctor
  PROVE  /\ UNCHANGED <<owned, baseRuns, removing, revived>>
         /\ batch # <<>> /\ batch' = Tail(batch) /\ batch[1] = Head(batch) /\ 1 \in 1..Len(batch)
         /\ \/ /\ Head(batch) \notin {"established", "destroy"}
               /\ UNCHANGED <<state, ran, destroyed>>
               /\ queue' = queue \/ \E f \in Functors \ {"destroy"} : queue' = Append(queue, f)
            \/ /\ Head(batch) = "established" /\ Count("established") /\ UNCHANGED <<destroyed, queue>>
               /\ state = "Connecting" /\ state' = "Connected"
            \/ /\ Head(batch) = "destroy" /\ Count("destroyed") /\ UNCHANGED queue
               /\ state # "Connecting" /\ ~owned
               /\ destroyed' = IF state = "Disconnecting" \/ destroyed = "half"
                               THEN "half" ELSE "whole"
               /\ state' = IF state = "Connected" THEN "Disconnected" ELSE state
<1> USE DEF connVars, sendVars, userVars
<1>1. /\ phase = "run" /\ batch # <<>> /\ batch \in Seq(Functors)
      /\ UNCHANGED <<owned, baseRuns, removing, revived>> /\ batch' = Tail(batch)
      /\ Head(batch) # "destroy" => UNCHANGED destroyed
      /\ Head(batch) \notin {"established", "destroy"} => UNCHANGED ran
  BY DEF RunFunctor, TInv, TypeOK
<1>2. 1 \in 1..Len(batch) /\ batch[1] = Head(batch)
  BY <1>1
<1>3. state = "Connecting" <=> Head(batch) = "established"
  BY <1>1, <1>2 DEF StateInv, NewInv, FirstInv
<1>4. CASE Head(batch) = "established" /\ ConnectEstablished
  BY <1>1, <1>2, <1>3, <1>4 DEF ConnectEstablished
<1>5. CASE Head(batch) = "send" /\ SendInLoop
  <2>1. UNCHANGED state
    BY <1>5, SendCases DEF TInv
  <2>2. queue' = queue \/ \E f \in Functors \ {"destroy"} : queue' = Append(queue, f)
    BY <1>5, SendQueues DEF TInv
  <2> QED BY <1>1, <1>2, <1>5, <2>1, <2>2
<1>6. CASE Head(batch) \in {"shutdown", "complete", "highWater"} /\ UNCHANGED <<connVars, queue>>
  BY <1>1, <1>2, <1>6
<1>7. CASE Head(batch) = "destroy" /\ ConnectDestroyed
  <2>1. ~owned
    BY <1>2, <1>7 DEF LetGoInv, NoDestroyIn
  <2>2. state' = IF state = "Connected" THEN "Disconnected" ELSE state
    BY <1>7 DEF ConnectDestroyed
  <2> QED BY <1>1, <1>2, <1>3, <1>7, <2>1, <2>2 DEF ConnectDestroyed
<1> QED BY <1>4, <1>5, <1>6, <1>7 DEF RunFunctor, ShutdownInLoop

LEMMA FunctorCount ==
  ASSUME TInv, StateInv, CountInv, LetGoInv, RunFunctor
  PROVE  CountInv'
<1>1. /\ ran \in [established : Nat, closed : Nat, destroyed : Nat]
      /\ state \in States
  BY DEF TInv, TypeOK
<1>2. UNCHANGED <<owned, baseRuns, removing, revived>>
  BY FunctorCounts
<1>3. CASE UNCHANGED <<state, ran, destroyed>>
  BY <1>2, <1>3, CountKept DEF Unsettled
<1>4. CASE Count("established") /\ state = "Connecting" /\ state' = "Connected"
  <2>1. /\ ran'.established = ran.established + 1
        /\ ran'.closed = ran.closed /\ ran'.destroyed = ran.destroyed
    BY <1>1, <1>4 DEF Count
  <2> QED BY <1>1, <1>2, <1>4, <2>1 DEF CountInv
<1>5. CASE /\ Count("destroyed") /\ state # "Connecting" /\ ~owned
           /\ destroyed' = IF state = "Disconnecting" \/ destroyed = "half"
                           THEN "half" ELSE "whole"
           /\ state' = IF state = "Connected" THEN "Disconnected" ELSE state
  <2>1. /\ ran'.destroyed = ran.destroyed + 1 /\ ran'.destroyed > 0
        /\ ran'.closed = ran.closed /\ ran'.established = ran.established
    BY <1>1, <1>5 DEF Count
  <2>2. state' = "Disconnected" \/ Unsettled'
    BY <1>1, <1>5 DEF Unsettled, States
  <2>3. state' # "Connecting"
    BY <1>5
  <2> QED BY <1>2, <1>5, <2>1, <2>2, <2>3 DEF CountInv
<1> QED BY <1>3, <1>4, <1>5, FunctorCounts

\* The steps that leave the counts and the holders alone, and what they may
\* do to the state.
Unrelated ==
  \/ EpollWait \/ DoPendingFunctors \/ HandleError \/ HandleWrite \/ EndPendingFunctors
  \/ CallbackReturns \/ Send \/ Shutdown
  \/ \E u \in Users : BeginSend(u) \/ BeginShutdown(u) \/ UserStep(u)
  \/ PeerSends \/ PeerCloses \/ PeerResets \/ PeerReads \/ UNCHANGED vars

LEMMA UnrelatedSteps ==
  ASSUME TInv, StateInv, Unrelated
  PROVE  /\ UNCHANGED serverVars /\ (Unsettled => Unsettled')
         /\ \/ UNCHANGED <<state, revived>>
            \/ state = "Connected" /\ state' = "Disconnecting" /\ UNCHANGED revived
            \/ /\ state # "Connecting" /\ state' = "Disconnecting"
               /\ revived' = (revived \/ state = "Disconnected")
<1> SUFFICES /\ UNCHANGED serverVars
             /\ \/ UNCHANGED <<state, revived>>
                \/ state = "Connected" /\ state' = "Disconnecting" /\ UNCHANGED revived
                \/ /\ state # "Connecting" /\ state' = "Disconnecting"
                   /\ revived' = (revived \/ state = "Disconnected")
  BY DEF Unsettled, serverVars, TInv, TypeOK
<1> USE DEF connVars, userVars, loopVars
<1>1. CASE EpollWait \/ DoPendingFunctors \/ HandleError \/ EndPendingFunctors \/ CallbackReturns
           \/ PeerSends \/ PeerCloses \/ PeerResets \/ PeerReads \/ UNCHANGED vars
  BY <1>1 DEF EpollWait, DoPendingFunctors, HandleError, Handling, EndPendingFunctors,
              CallbackReturns, PeerSends, PeerCloses, PeerResets, PeerReads, vars
<1>2. CASE HandleWrite
  BY <1>2, WriteCases DEF TInv
<1>3. CASE Send
  <2>1. UNCHANGED state
    BY <1>3, SendCases DEF Send, TInv
  <2> QED BY <1>3, <2>1 DEF Send, CallFromLoop
<1>4. CASE Shutdown
  BY <1>4 DEF Shutdown, CallFromLoop
<1>5. ASSUME NEW u \in Users, BeginSend(u) \/ BeginShutdown(u) \/ QueueInLoop(u)
      PROVE  UNCHANGED <<serverVars, state, revived>>
  BY <1>5 DEF BeginSend, BeginShutdown, Begin, QueueInLoop
<1>6. ASSUME NEW u \in Users, SetDisconnecting(u)
      PROVE  /\ UNCHANGED serverVars /\ state # "Connecting" /\ state' = "Disconnecting"
             /\ revived' = (revived \/ state = "Disconnected")
  <2>1. pc[u] = "setState"
    BY <1>6 DEF SetDisconnecting
  <2>2. state # "Connecting"
    BY <2>1 DEF StateInv, NewInv
  <2> QED BY <1>6, <2>2 DEF SetDisconnecting
<1> QED BY <1>1, <1>2, <1>3, <1>4, <1>5, <1>6 DEF Unrelated, UserStep

LEMMA CountNext ==
  TInv /\ StateInv /\ CountInv /\ LetGoInv /\ [Next]_vars => CountInv'
<1> SUFFICES ASSUME TInv, StateInv, CountInv, LetGoInv, [Next]_vars PROVE CountInv'
  OBVIOUS
<1>1. CASE HandleHangUp \/ HandleRead
  <2>1. /\ phase = "events" /\ revents \cap {"in", "hup"} # {} /\ UNCHANGED revived
        /\ HandleClose \/ UNCHANGED <<connVars, serverVars>>
    BY <1>1 DEF HandleHangUp, HandleRead, Handling, userVars
  <2>2. CASE UNCHANGED <<connVars, serverVars>>
    BY <2>1, <2>2, CountKept DEF connVars, serverVars, Unsettled
  <2> QED BY <2>1, <2>2, CloseCount
<1>2. CASE Unrelated
  <2>1. /\ UNCHANGED <<ran, baseRuns, owned, removing>> /\ (Unsettled => Unsettled')
        /\ \/ UNCHANGED <<state, revived>>
           \/ state = "Connected" /\ state' = "Disconnecting"
           \/ /\ state # "Connecting" /\ state' = "Disconnecting"
              /\ revived' = (revived \/ state = "Disconnected")
    BY <1>2, UnrelatedSteps DEF serverVars
  <2>2. state = "Disconnected" => state' = "Disconnected" \/ Unsettled'
    BY <2>1 DEF Unsettled
  <2> QED BY <2>1, <2>2, CountKept
<1>3. CASE RemoveConnectionInLoop
  <2>1. /\ removing' = removing - 1 /\ owned' = FALSE /\ baseRuns /\ removing > 0
        /\ UNCHANGED <<state, ran, baseRuns, revived, destroyed>>
    BY <1>3 DEF RemoveConnectionInLoop, connVars, userVars
  <2>2. removing \in Nat /\ ran.closed \in Nat
    BY DEF TInv, TypeOK
  <2> QED BY <2>1, <2>2 DEF CountInv, Unsettled
<1>4. CASE ServerDestroyed
  <2>1. /\ owned' = FALSE /\ baseRuns' = FALSE
        /\ UNCHANGED <<state, ran, removing, revived, destroyed>>
    BY <1>4 DEF ServerDestroyed, connVars, userVars
  <2> QED BY <2>1 DEF CountInv, Unsettled
<1> QED
  BY <1>1, <1>2, <1>3, <1>4, FunctorCount DEF Next, LoopStep, Unrelated

\* A settled connection has one ConnectDestroyed in all: to come, queued once,
\* or run.  The removal that the base loop has to run is the only one.
Once(s) == \A i, j \in 1..Len(s) : s[i] = "destroy" /\ s[j] = "destroy" => i = j

OnceInv ==
  \/ Unsettled
  \/ /\ Once(queue) /\ Once(batch)
     /\ NoDestroyIn(queue) \/ NoDestroyIn(batch)
     /\ ran.destroyed > 0 => NoDestroyIn(queue) /\ NoDestroyIn(batch)
     /\ baseRuns /\ removing > 0 =>
          removing = 1 /\ NoDestroyIn(queue) /\ NoDestroyIn(batch) /\ ran.destroyed = 0

LEMMA OnceSequences ==
  ASSUME NEW s \in Seq(Functors)
  PROVE  /\ NoDestroyIn(<<>>) /\ Once(<<>>)
         /\ \A f \in Functors \ {"destroy"} : Once(s) => Once(Append(s, f))
         /\ NoDestroyIn(s) => Once(s) /\ Once(Append(s, "destroy"))
         /\ s # <<>> /\ Once(s) => Once(Tail(s))
         /\ s # <<>> /\ NoDestroyIn(s) => NoDestroyIn(Tail(s))
         /\ s # <<>> /\ Once(s) /\ Head(s) = "destroy" => NoDestroyIn(Tail(s))
<1>1. NoDestroyIn(<<>>) /\ Once(<<>>)
  BY DEF NoDestroyIn, Once
<1>2. ASSUME NEW f \in Functors
      PROVE  /\ Len(Append(s, f)) = Len(s) + 1 /\ Append(s, f)[Len(s) + 1] = f
             /\ \A i \in 1..Len(Append(s, f)) :
                  i = Len(s) + 1 \/ (i \in 1..Len(s) /\ Append(s, f)[i] = s[i])
  <2>1. /\ Len(Append(s, f)) = Len(s) + 1 /\ Append(s, f)[Len(s) + 1] = f
        /\ \A i \in 1..Len(s) : Append(s, f)[i] = s[i]
    BY AppendProperties
  <2> QED BY <2>1
<1>3. ASSUME NEW f \in Functors \ {"destroy"}, Once(s)
      PROVE  Once(Append(s, f))
  BY <1>2, <1>3 DEF Once
<1>4. ASSUME NoDestroyIn(s)
      PROVE  Once(s) /\ Once(Append(s, "destroy"))
  <2>1. "destroy" \in Functors
    BY DEF Functors
  <2> QED BY <1>2, <1>4, <2>1 DEF Once, NoDestroyIn
<1>5. ASSUME s # <<>>
      PROVE  /\ 1 \in 1..Len(s) /\ s[1] = Head(s)
             /\ \A i \in 1..Len(Tail(s)) : Tail(s)[i] = s[i + 1] /\ i + 1 \in 1..Len(s) /\ i + 1 # 1
  <2>1. Len(Tail(s)) = Len(s) - 1 /\ \A i \in 1..Len(Tail(s)) : Tail(s)[i] = s[i + 1]
    BY <1>5, HeadTailProperties
  <2> QED BY <1>5, <2>1
<1>6. s # <<>> /\ Once(s) => Once(Tail(s))
  BY <1>5 DEF Once
<1>7. s # <<>> /\ NoDestroyIn(s) => NoDestroyIn(Tail(s))
  BY <1>5 DEF NoDestroyIn
<1>8. s # <<>> /\ Once(s) /\ Head(s) = "destroy" => NoDestroyIn(Tail(s))
  BY <1>5 DEF NoDestroyIn, Once
<1> QED BY <1>1, <1>3, <1>4, <1>6, <1>7, <1>8

\* Steps that count no ConnectDestroyed and queue none.
LEMMA OnceKept ==
  ASSUME TInv, OnceInv, Unsettled => Unsettled',
         ran'.destroyed = ran.destroyed, UNCHANGED <<baseRuns, removing>>,
         \/ queue' = queue
         \/ \E f \in Functors \ {"destroy"} : queue' = Append(queue, f),
         batch' = batch \/ (batch # <<>> /\ batch' = Tail(batch))
  PROVE  OnceInv'
<1>1. queue \in Seq(Functors) /\ batch \in Seq(Functors)
  BY DEF TInv, TypeOK
<1>2. Once(queue) => Once(queue')
  BY <1>1, OnceSequences
<1>3. NoDestroyIn(queue) => NoDestroyIn(queue')
  BY <1>1, LetGoAppend
<1>4. (Once(batch) => Once(batch')) /\ (NoDestroyIn(batch) => NoDestroyIn(batch'))
  BY <1>1, OnceSequences
<1> QED BY <1>2, <1>3, <1>4 DEF OnceInv, Once, NoDestroyIn

LEMMA UnrelatedQueues ==
  ASSUME TInv, StateInv, Unrelated
  PROVE  \/ /\ batch' = batch
            /\ queue' = queue \/ \E f \in Functors \ {"destroy"} : queue' = Append(queue, f)
         \/ batch = <<>> /\ batch' = queue /\ queue' = <<>>
<1> USE DEF loopVars
<1>1. CASE DoPendingFunctors
  BY <1>1 DEF DoPendingFunctors, StateInv, PlaceInv
<1>2. CASE EpollWait \/ HandleError \/ EndPendingFunctors \/ CallbackReturns \/ Shutdown
           \/ PeerSends \/ PeerCloses \/ PeerResets \/ PeerReads \/ UNCHANGED vars
  BY <1>2 DEF EpollWait, HandleError, Handling, EndPendingFunctors, CallbackReturns, Shutdown,
              CallFromLoop, PeerSends, PeerCloses, PeerResets, PeerReads, vars
<1>3. CASE HandleWrite
  BY <1>3, WriteCases DEF Functors, TInv
<1>4. CASE Send
  BY <1>4, SendQueues DEF Send, CallFromLoop, TInv
<1>5. ASSUME NEW u \in Users, BeginSend(u) \/ BeginShutdown(u) \/ SetDisconnecting(u)
      PROVE  UNCHANGED <<queue, batch>>
  BY <1>5 DEF BeginSend, BeginShutdown, Begin, SetDisconnecting
<1>6. ASSUME NEW u \in Users, QueueInLoop(u)
      PROVE  batch' = batch /\ \E f \in Functors \ {"destroy"} : queue' = Append(queue, f)
  BY <1>6 DEF QueueInLoop, Functors
<1> QED BY <1>1, <1>2, <1>3, <1>4, <1>5, <1>6 DEF Unrelated, UserStep

LEMMA OnceNext ==
  TInv /\ StateInv /\ CountInv /\ LetGoInv /\ OnceInv /\ [Next]_vars => OnceInv'
<1> SUFFICES ASSUME TInv, StateInv, CountInv, LetGoInv, OnceInv, [Next]_vars PROVE OnceInv'
  OBVIOUS
<1>0. /\ queue \in Seq(Functors) /\ batch \in Seq(Functors) /\ removing \in Nat
      /\ ran \in [established : Nat, closed : Nat, destroyed : Nat]
  BY DEF TInv, TypeOK
<1>1. CASE HandleHangUp \/ HandleRead
  <2>1. /\ phase = "events" /\ revents \cap {"in", "hup"} # {}
        /\ UNCHANGED <<revived, queue, batch>>
        /\ HandleClose \/ UNCHANGED serverVars
    BY <1>1 DEF HandleHangUp, HandleRead, Handling, userVars
  <2>2. CASE UNCHANGED serverVars
    BY <2>1, <2>2, OnceKept DEF serverVars, Unsettled
  <2>3. CASE HandleClose
    <3>1. /\ Count("closed") /\ UNCHANGED <<owned, baseRuns, destroyed>> /\ removing' = removing + 1
          /\ ~Unsettled => ran.closed = 0 /\ ran.destroyed = 0
      BY <2>1, <2>3, CloseOnce
    <3>2. ran'.destroyed = ran.destroyed
      BY <1>0, <3>1 DEF Count
    <3>3. baseRuns /\ ~Unsettled => owned /\ removing = 0
      BY <1>0, <3>1 DEF CountInv
    <3>4. baseRuns /\ ~Unsettled => NoDestroyIn(queue) /\ NoDestroyIn(batch)
      BY <3>3 DEF LetGoInv
    <3>5. Unsettled' <=> Unsettled
      BY <2>1, <3>1 DEF Unsettled
    <3> QED BY <2>1, <3>1, <3>2, <3>3, <3>4, <3>5 DEF OnceInv
  <2> QED BY <2>1, <2>2, <2>3
<1>2. CASE Unrelated
  <2>1. UNCHANGED <<ran, baseRuns, removing>> /\ (Unsettled => Unsettled')
    BY <1>2, UnrelatedSteps DEF serverVars
  <2>2. CASE batch = <<>> /\ batch' = queue /\ queue' = <<>>
    <3>1. NoDestroyIn(<<>>) /\ Once(<<>>)
      BY <1>0, OnceSequences
    <3> QED BY <2>1, <2>2, <3>1 DEF OnceInv
  <2> QED BY <1>2, <2>1, <2>2, OnceKept, UnrelatedQueues
<1>3. CASE RunFunctor
  <2>1. /\ UNCHANGED <<owned, baseRuns, removing, revived>>
        /\ batch # <<>> /\ batch' = Tail(batch)
    BY <1>3, FunctorCounts
  <2>2. CASE /\ UNCHANGED destroyed /\ ran'.destroyed = ran.destroyed
             /\ queue' = queue \/ \E f \in Functors \ {"destroy"} : queue' = Append(queue, f)
    BY <2>1, <2>2, OnceKept DEF Unsettled
  <2>3. CASE Head(batch) = "destroy" /\ Count("destroyed") /\ UNCHANGED queue
    <3>1. Unsettled => Unsettled'
      BY <1>3, <2>1, <2>3, FunctorCounts DEF Unsettled
    <3>2. ~NoDestroyIn(batch)
      BY <1>3, <2>3, FunctorCounts DEF NoDestroyIn
    <3>3. Once(batch) => NoDestroyIn(batch') /\ Once(batch')
      BY <1>0, <2>1, <2>3, OnceSequences
    <3> QED BY <2>1, <2>3, <3>1, <3>2, <3>3 DEF OnceInv
  <2>4. ran'.destroyed = ran.destroyed \/ Count("destroyed")
    BY <1>0, <1>3, FunctorCounts DEF Count
  <2>5. Count("established") => ran'.destroyed = ran.destroyed
    BY <1>0 DEF Count
  <2> QED BY <1>3, <2>2, <2>3, <2>5, FunctorCounts
<1>4. CASE RemoveConnectionInLoop
  <2>1. /\ baseRuns /\ removing > 0 /\ removing' = removing - 1
        /\ queue' = Append(queue, "destroy")
        /\ UNCHANGED <<batch, ran, baseRuns, revived, destroyed>>
    BY <1>4 DEF RemoveConnectionInLoop, userVars
  <2>2. NoDestroyIn(queue) => Once(queue')
    BY <1>0, <2>1, OnceSequences
  <2>3. removing = 1 => removing' = 0
    BY <2>1
  <2> QED BY <2>1, <2>2, <2>3 DEF OnceInv, Unsettled
<1>5. CASE ServerDestroyed
  <2>1. /\ owned /\ ~baseRuns' /\ queue' = Append(queue, "destroy")
        /\ UNCHANGED <<batch, ran, revived, destroyed>>
    BY <1>5 DEF ServerDestroyed, userVars
  <2>2. NoDestroyIn(queue) /\ NoDestroyIn(batch) /\ ran.destroyed = 0
    BY <2>1 DEF LetGoInv, CountInv
  <2>3. Once(queue') /\ Once(batch')
    BY <1>0, <2>1, <2>2, OnceSequences
  <2> QED BY <2>1, <2>2, <2>3 DEF OnceInv
<1> QED BY <1>1, <1>2, <1>3, <1>4, <1>5 DEF Next, LoopStep, Unrelated

\* The steps of ConnectionLife, in terms of the counts.
LEMMA LifeMoves ==
  ASSUME TInv, owned' => owned, Unsettled => Unsettled',
         Unsettled' => Unsettled \/ ran'.closed + ran'.destroyed > 0,
         \/ UNCHANGED ran
         \/ /\ Count("established")
            /\ ran.established = 0 /\ ran.closed = 0 /\ ran.destroyed = 0
         \/ /\ Count("closed") /\ ran.established = 1
            /\ Unsettled \/ (ran.closed = 0 /\ ran.destroyed = 0)
         \/ /\ Count("destroyed") /\ ran.established = 1 /\ ~owned'
            /\ Unsettled \/ ran.destroyed = 0
  PROVE  [Life!Next]_(Life!vars)
<1> DEFINE runs == [c \in {1} |-> ran]
           released == {c \in {1} : ~owned}
           unsettled == {c \in {1} : revived \/ destroyed = "half"}
<1>0. ran \in [established : Nat, closed : Nat, destroyed : Nat]
  BY DEF TInv, TypeOK
<1>1. /\ released \subseteq released' /\ unsettled \subseteq unsettled'
      /\ (~owned' => 1 \in released') /\ (1 \in unsettled <=> Unsettled)
      /\ \A c \in unsettled' \ unsettled : runs'[c].closed + runs'[c].destroyed > 0
  BY DEF Unsettled
<1>2. /\ runs[1] = ran
      /\ Count("established") => runs' = [runs EXCEPT ![1]["established"] = @ + 1]
      /\ Count("closed") => runs' = [runs EXCEPT ![1]["closed"] = @ + 1]
      /\ Count("destroyed") => runs' = [runs EXCEPT ![1]["destroyed"] = @ + 1]
  BY DEF Count
<1>3. \/ UNCHANGED runs
      \/ Life!ConnectEstablished(1) \/ Life!HandleClose(1) \/ Life!ConnectDestroyed(1)
  <2>1. CASE UNCHANGED ran
    BY <2>1
  <2>2. CASE Count("established") /\ ran.established = 0 /\ ran.closed = 0 /\ ran.destroyed = 0
    BY <1>0, <1>2, <2>2 DEF Life!ConnectEstablished, Life!Run, Life!Fresh
  <2>3. CASE /\ Count("closed") /\ ran.established = 1
             /\ Unsettled \/ (ran.closed = 0 /\ ran.destroyed = 0)
    BY <1>1, <1>2, <2>3 DEF Life!HandleClose, Life!Run
  <2>4. CASE /\ Count("destroyed") /\ ran.established = 1 /\ ~owned'
             /\ Unsettled \/ ran.destroyed = 0
    BY <1>1, <1>2, <2>4 DEF Life!ConnectDestroyed, Life!Run
  <2> QED BY <2>1, <2>2, <2>3, <2>4
<1> QED BY <1>1, <1>3 DEF Life!Next

LEMMA LifeRefines ==
  TInv /\ StateInv /\ CountInv /\ LetGoInv /\ OnceInv /\ [Next]_vars
    => [Life!Next]_(Life!vars)
<1> SUFFICES ASSUME TInv, StateInv, CountInv, LetGoInv, OnceInv, [Next]_vars
             PROVE  [Life!Next]_(Life!vars)
  OBVIOUS
<1>0. ran \in [established : Nat, closed : Nat, destroyed : Nat]
  BY DEF TInv, TypeOK
<1>1. CASE HandleHangUp \/ HandleRead
  <2>1. /\ phase = "events" /\ revents \cap {"in", "hup"} # {} /\ UNCHANGED revived
        /\ HandleClose \/ UNCHANGED serverVars
    BY <1>1 DEF HandleHangUp, HandleRead, Handling, userVars
  <2>2. CASE UNCHANGED serverVars
    BY <2>1, <2>2, LifeMoves DEF serverVars, Unsettled
  <2>3. CASE HandleClose
    <3>1. /\ Count("closed") /\ UNCHANGED <<owned, destroyed>> /\ ran.established = 1
          /\ ~Unsettled => ran.closed = 0 /\ ran.destroyed = 0
      BY <2>1, <2>3, CloseOnce
    <3> QED BY <2>1, <3>1, LifeMoves DEF Unsettled
  <2> QED BY <2>1, <2>2, <2>3
<1>2. CASE Unrelated
  <2>1. UNCHANGED <<ran, owned, destroyed>> /\ (Unsettled => Unsettled')
    BY <1>2, UnrelatedSteps DEF serverVars
  <2>2. Unsettled' => Unsettled \/ state = "Disconnected"
    BY <1>2, UnrelatedSteps DEF Unsettled, serverVars
  <2>3. Unsettled' => Unsettled \/ ran'.closed + ran'.destroyed > 0
    BY <1>0, <2>1, <2>2 DEF CountInv
  <2> QED BY <2>1, <2>3, LifeMoves
<1>3. CASE RunFunctor
  <2>1. UNCHANGED <<owned, revived>> /\ 1 \in 1..Len(batch) /\ batch[1] = Head(batch)
    BY <1>3, FunctorCounts
  <2>2. CASE UNCHANGED <<ran, destroyed>>
    BY <2>1, <2>2, LifeMoves DEF Unsettled
  <2>3. CASE Count("established") /\ state = "Connecting" /\ UNCHANGED destroyed
    BY <2>1, <2>3, LifeMoves DEF Unsettled, CountInv
  <2>4. CASE /\ Head(batch) = "destroy" /\ Count("destroyed") /\ state # "Connecting" /\ ~owned
             /\ destroyed' = IF state = "Disconnecting" \/ destroyed = "half"
                             THEN "half" ELSE "whole"
    <3>1. ~NoDestroyIn(batch)
      BY <2>1, <2>4 DEF NoDestroyIn
    <3>2. Unsettled \/ ran.destroyed = 0
      BY <1>0, <3>1 DEF OnceInv
    <3>3. ran.established = 1
      BY <2>4 DEF CountInv
    <3>4. ran'.closed + ran'.destroyed > 0
      BY <1>0, <2>4 DEF Count
    <3>5. Unsettled => Unsettled'
      BY <2>1, <2>4 DEF Unsettled
    <3> QED BY <2>1, <2>4, <3>2, <3>3, <3>4, <3>5, LifeMoves
  <2> QED BY <1>3, <2>2, <2>3, <2>4, FunctorCounts
<1>4. CASE RemoveConnectionInLoop \/ ServerDestroyed
  <2>1. UNCHANGED <<ran, revived, destroyed>> /\ owned' = FALSE
    BY <1>4 DEF RemoveConnectionInLoop, ServerDestroyed, userVars
  <2> QED BY <2>1, LifeMoves DEF Unsettled
<1> QED BY <1>1, <1>2, <1>3, <1>4 DEF Next, LoopStep, Unrelated

\* For any users and calls, the connection lives the life of ConnectionLife,
\* the one that TcpServerProofs shows every connection of the server to be
\* led through: the two modules agree on the protocol between them.  The
\* handlers are counted, so the proof is about every second run of one:
\* CloseOnce and OnceInv exclude them as long as the connection is settled.
THEOREM LifeRefinement == Spec => IsConnectionLife
<1>1. Init => Life!Init
  BY DEF Init, Life!Init, Life!Fresh
<1>2. Init => CountInv /\ LetGoInv /\ OnceInv
  <2> SUFFICES ASSUME Init PROVE CountInv /\ LetGoInv /\ OnceInv
    OBVIOUS
  <2>1. CountInv
    BY DEF Init, CountInv
  <2>2. NoDestroyIn(queue) /\ NoDestroyIn(batch) /\ Once(queue) /\ Once(batch)
    BY DEF Init, NoDestroyIn, Once
  <2> QED BY <2>1, <2>2 DEF Init, LetGoInv, OnceInv
<1>3. TInv => TypeOK
  BY DEF TInv
<1>4. Spec => []LetGoInv
  BY <1>2, <1>3, LetGoNext, StreamAlways, PTL DEF Spec
<1>5. Spec => [](CountInv /\ OnceInv)
  BY <1>2, <1>4, CountNext, OnceNext, StreamAlways, StateAlways, PTL DEF Spec
<1> QED
  BY <1>1, <1>4, <1>5, LifeRefines, StreamAlways, StateAlways, PTL
     DEF Spec, IsConnectionLife, Life!Spec
=============================================================================
