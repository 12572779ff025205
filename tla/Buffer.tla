------------------------------- MODULE Buffer -------------------------------
(***************************************************************************)
(* Buffer (include/net/Buffer.hpp): a vector of bytes with a read and a    *)
(* write index.  Consumed bytes leave a gap at the front, which MakeSpace  *)
(* closes or gives up for a larger vector.                                 *)
(*                                                                         *)
(* Bytes are numbered in the order in which they are put in, so that what  *)
(* is readable must always be the numbers taken + 1 .. put.  A fresh byte  *)
(* of the vector is 0.  Index i of the code is position i + 1 of data.     *)
(***************************************************************************)
EXTENDS Integers, Sequences

CONSTANTS
  CheapPrepend,   \* Buffer::CheapPrepend
  InitialSize,    \* Buffer::InitialSize
  ExtraSize,      \* size of the buffer on the stack of ReadFd
  MaxStream       \* bound: how many bytes are ever put in

ASSUME SizeAssumption ==
  /\ CheapPrepend \in Nat /\ InitialSize \in Nat
  /\ ExtraSize \in Nat /\ MaxStream \in Nat

VARIABLES
  buf,    \* _buffer, _readIndex and _writerIndex
  put,    \* history: bytes appended or read from a socket
  taken   \* history: bytes retrieved

vars == <<buf, put, taken>>

-----------------------------------------------------------------------------
(* The member functions, as operators on the buffer.                       *)

WritableBytes(b) == Len(b.data) - b.write

ReadableBytes(b) == b.write - b.read

\* The bytes from Peek() to BeginWrite().
Content(b) == [i \in 1..ReadableBytes(b) |-> b.data[b.read + i]]

RetrieveAll(b) == [b EXCEPT !.read = CheapPrepend, !.write = CheapPrepend]

Retrieve(b, len) ==
  IF len < ReadableBytes(b) THEN [b EXCEPT !.read = b.read + len]
                            ELSE RetrieveAll(b)

\* std::vector::resize
Resize(data, size) ==
  [i \in 1..size |-> IF i <= Len(data) THEN data[i] ELSE 0]

\* Writes str into the vector, from position at + 1 on.
Overwrite(data, at, str) ==
  [i \in 1..Len(data) |->
     IF i \in (at + 1)..(at + Len(str)) THEN str[i - at] ELSE data[i]]

Grow(b, len) ==
  [data |-> Resize(b.data, b.write + len), read |-> b.read, write |-> b.write]

\* Mutant of MoveToFront: the indexes move and the content stays.
MoveIndexes(b) ==
  [b EXCEPT !.read = CheapPrepend, !.write = CheapPrepend + ReadableBytes(b)]

MoveToFront(b) ==
  [data  |-> Overwrite(b.data, CheapPrepend, Content(b)),
   read  |-> CheapPrepend,
   write |-> CheapPrepend + ReadableBytes(b)]

\* Mutant of FitsAfterMove: the bytes to keep free in front are forgotten.
FitsOverPrepend(b, len) == len <= WritableBytes(b) + b.read

\* Line 133: the room behind and in front is enough.
FitsAfterMove(b, len) == len + CheapPrepend <= WritableBytes(b) + b.read

\* Mutant of MakeSpace: the room in front is never used.
AlwaysGrow(b, len) == Grow(b, len)

MakeSpace(b, len) ==
  IF FitsAfterMove(b, len) THEN MoveToFront(b) ELSE Grow(b, len)

\* Writes behind the content, where there must be room.
Fill(b, str) ==
  [data  |-> Overwrite(b.data, b.write, str),
   read  |-> b.read,
   write |-> b.write + Len(str)]

AppendBytes(b, str) ==
  Fill(IF WritableBytes(b) < Len(str) THEN MakeSpace(b, Len(str)) ELSE b, str)

\* ReadFd after readv has returned str: what the vector has no room for
\* comes out of the buffer on the stack.
ReadBytes(b, str) ==
  LET room == WritableBytes(b) IN
  IF Len(str) <= room
  THEN Fill(b, str)
  ELSE AppendBytes(Fill(b, SubSeq(str, 1, room)), SubSeq(str, room + 1, Len(str)))

\* Lines 108-109: the buffer on the stack is used when the vector has less
\* room than it.
ReadLimit(b) ==
  WritableBytes(b) + (IF WritableBytes(b) < ExtraSize THEN ExtraSize ELSE 0)

-----------------------------------------------------------------------------
Init ==
  /\ buf = [data  |-> [i \in 1..(InitialSize + CheapPrepend) |-> 0],
            read  |-> CheapPrepend,
            write |-> CheapPrepend]
  /\ put = 0 /\ taken = 0

\* The next n bytes of the stream.
Stream(n) == [k \in 1..n |-> put + k]

Store(n) ==
  /\ put + n <= MaxStream
  /\ buf' = AppendBytes(buf, Stream(n))
  /\ put' = put + n
  /\ UNCHANGED taken

ReadFd(n) ==
  /\ put + n <= MaxStream
  /\ n <= ReadLimit(buf)
  /\ buf' = ReadBytes(buf, Stream(n))
  /\ put' = put + n
  /\ UNCHANGED taken

\* Retrieve, which is allowed to ask for more than there is.
Take(n) ==
  /\ buf' = Retrieve(buf, n)
  /\ taken' = IF taken + n < put THEN taken + n ELSE put
  /\ UNCHANGED put

Next == \E n \in 1..MaxStream : Store(n) \/ ReadFd(n) \/ Take(n)

Spec == Init /\ [][Next]_vars

-----------------------------------------------------------------------------
(***************************************************************************)
(* Properties                                                              *)
(***************************************************************************)
\* The buffer is a vector with two indexes, and through any mixture of
\* appends, moves to the front, growth and spilled reads CheapPrepend <=
\* _readIndex <= _writerIndex <= _buffer.size(): neither WritableBytes nor
\* ReadableBytes wraps around.
TypeOK ==
  /\ buf \in [data : Seq(Nat), read : Nat, write : Nat]
  /\ put \in Nat /\ taken \in Nat
  /\ CheapPrepend <= buf.read /\ buf.read <= buf.write
  /\ buf.write <= Len(buf.data)

\* What is readable is exactly what was put in and not yet taken, in order:
\* no byte is lost, repeated or overwritten when MakeSpace moves or grows the
\* vector or ReadFd spills over the end of it.  The invariant behind
\* IsByteQueue below.
ContentOK ==
  /\ ReadableBytes(buf) = put - taken
  /\ \A i \in 1..ReadableBytes(buf) : buf.data[buf.read + i] = taken + i

\* The vector only grows when the content, with the prepend bytes, needs more
\* room than it had: retrieved bytes are given back first.
GrowsOnlyWhenFull ==
  [][Len(buf'.data) > Len(buf.data)
       => CheapPrepend + ReadableBytes(buf') > Len(buf.data)]_vars

\* A Buffer is the queue of bytes of module ByteQueue: appends and reads of any
\* size, moved, grown and spilled, put their bytes behind the others, and
\* Retrieve takes them off the front, all of them if it is asked for more.
Queue == INSTANCE ByteQueue WITH content <- Content(buf)

IsByteQueue == Queue!Spec
=============================================================================
