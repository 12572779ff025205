----------------------------- MODULE ByteQueue -----------------------------
(***************************************************************************)
(* What a Buffer is to its users, with the vector, the two indexes, the    *)
(* prepend bytes and the spilled reads abstracted away: a queue of bytes,  *)
(* put in at one end and taken at the other.  TcpConnection has this in    *)
(* the place of _outputBuffer.                                             *)
(*                                                                         *)
(* Bytes are numbered in the order in which they are put in.               *)
(***************************************************************************)
EXTENDS Naturals, Sequences

VARIABLES
  content,  \* the readable bytes
  put       \* how many were ever put in

vars == <<content, put>>

Init == content = <<>> /\ put = 0

\* The next n bytes go to the end.
Put(n) ==
  /\ content' = content \o [k \in 1..n |-> put + k]
  /\ put' = put + n

\* The first n bytes are taken off the front.
Take(n) ==
  /\ content' = SubSeq(content, n + 1, Len(content))
  /\ UNCHANGED put

\* Any number of bytes may be put in: put' bounds n only so that TLC can
\* enumerate it.
Next ==
  \/ \E n \in 1..put' : Put(n)
  \/ \E n \in 1..Len(content) : Take(n)

Spec == Init /\ [][Next]_vars
=============================================================================
