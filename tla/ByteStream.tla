----------------------------- MODULE ByteStream -----------------------------
(***************************************************************************)
(* What a TcpConnection promises of the bytes it is told to send, with the *)
(* socket, epoll, the two threads of a Send and the direct write           *)
(* abstracted away: one stream, from which only a first part has been      *)
(* given to the kernel.                                                    *)
(*                                                                         *)
(* Bytes leave in the order in which they were accepted, none is lost,     *)
(* repeated or taken back.  The stream may be finished (the FIN of a       *)
(* shutdown) only when nothing waits, and a finished stream gives nothing  *)
(* more to the kernel and accepts nothing more.  Once the connection has   *)
(* ended, which is for good, it is finished and accepts without a promise  *)
(* to deliver.                                                             *)
(***************************************************************************)
EXTENDS Naturals, Sequences

CONSTANT MessageSize

VARIABLES
  pending,    \* accepted bytes that wait
  delivered,  \* bytes given to the kernel
  finished,   \* nothing will follow them
  ended       \* the connection is over

vars == <<pending, delivered, finished, ended>>

Init == pending = <<>> /\ delivered = <<>> /\ finished = FALSE /\ ended = FALSE

\* The message that comes next in the stream.
NextMessage == [k \in 1..MessageSize |-> Len(delivered) + Len(pending) + k]

\* The first n of these bytes are given to the kernel, the others wait.
Deliver(bytes, n) ==
  /\ n > 0 => ~finished
  /\ delivered' = delivered \o SubSeq(bytes, 1, n)
  /\ pending' = SubSeq(bytes, n + 1, Len(bytes))

Accept ==
  /\ finished => ended
  /\ \E n \in 0..Len(pending) + MessageSize : Deliver(pending \o NextMessage, n)
  /\ UNCHANGED <<finished, ended>>

\* With the last byte the stream may be finished in the same step.
Progress ==
  /\ \E n \in 1..Len(pending) : Deliver(pending, n)
  /\ finished' = FALSE \/ (finished' = TRUE /\ pending' = <<>>)
  /\ UNCHANGED ended

Finish ==
  /\ pending = <<>> \/ ended
  /\ finished' = TRUE
  /\ UNCHANGED <<pending, delivered, ended>>

End ==
  /\ ended' = TRUE
  /\ UNCHANGED <<pending, delivered, finished>>

Next == Accept \/ Progress \/ Finish \/ End

Spec == Init /\ [][Next]_vars
=============================================================================
