---------------------------- MODULE BufferProofs ----------------------------
(***************************************************************************)
(* Buffer is correct for vectors and streams of every size: the indexes    *)
(* stay in order, the content is what was put in and not taken, and the    *)
(* vector grows only when it must.  The lemmas follow the member functions *)
(* from the inside out: Overwrite and Resize, Fill and MakeSpace, then     *)
(* AppendBytes and ReadBytes.                                              *)
(***************************************************************************)
EXTENDS Buffer, SequenceTheorems, TLAPS

\* A buffer as the member functions expect it.
Shape(b) ==
  /\ b \in [data : Seq(Nat), read : Nat, write : Nat]
  /\ CheapPrepend <= b.read /\ b.read <= b.write /\ b.write <= Len(b.data)

\* What is readable in b are the n bytes of the stream behind byte t.
Holds(b, t, n) ==
  /\ ReadableBytes(b) = n
  /\ \A i \in 1..n : b.data[b.read + i] = t + i

\* The string str continues the stream behind byte t.
Continues(str, t) ==
  /\ str \in Seq(Nat)
  /\ \A i \in 1..Len(str) : str[i] = t + i

\* Writing into the vector changes the bytes written and nothing else.
LEMMA OverwriteParts ==
  ASSUME NEW data \in Seq(Nat), NEW at \in Nat, NEW str \in Seq(Nat),
         at + Len(str) <= Len(data)
  PROVE  /\ Overwrite(data, at, str) \in Seq(Nat)
         /\ Len(Overwrite(data, at, str)) = Len(data)
         /\ \A i \in 1..at : Overwrite(data, at, str)[i] = data[i]
         /\ \A i \in 1..Len(str) : Overwrite(data, at, str)[at + i] = str[i]
<1> DEFINE new == Overwrite(data, at, str)
<1>1. Len(data) \in Nat /\ Len(str) \in Nat
  OBVIOUS
<1>2. \A i \in 1..Len(data) :
        (IF i \in (at + 1)..(at + Len(str)) THEN str[i - at] ELSE data[i]) \in Nat
  <2> TAKE i \in 1..Len(data)
  <2>1. CASE i \in (at + 1)..(at + Len(str))
    <3>1. i - at \in 1..Len(str)
      BY <1>1, <2>1
    <3> QED
      BY <3>1, <2>1
  <2>2. CASE i \notin (at + 1)..(at + Len(str))
    BY <2>2
  <2> QED
    BY <2>1, <2>2
<1>3. new \in Seq(Nat) /\ Len(new) = Len(data)
  BY <1>1, <1>2 DEF Overwrite
<1>4. ASSUME NEW i \in 1..at
      PROVE  new[i] = data[i]
  BY <1>1 DEF Overwrite
<1>5. ASSUME NEW i \in 1..Len(str)
      PROVE  new[at + i] = str[i]
  <2>1. at + i \in 1..Len(data) /\ at + i \in (at + 1)..(at + Len(str))
    BY <1>1
  <2>2. (at + i) - at = i
    BY <1>1
  <2> QED
    BY <2>1, <2>2 DEF Overwrite
<1> QED
  BY <1>3, <1>4, <1>5

\* std::vector::resize keeps what it has room for.
LEMMA ResizeParts ==
  ASSUME NEW data \in Seq(Nat), NEW size \in Nat, Len(data) <= size
  PROVE  /\ Resize(data, size) \in Seq(Nat)
         /\ Len(Resize(data, size)) = size
         /\ \A i \in 1..Len(data) : Resize(data, size)[i] = data[i]
<1>1. Len(data) \in Nat
  OBVIOUS
<1>2. \A i \in 1..size : (IF i <= Len(data) THEN data[i] ELSE 0) \in Nat
  BY <1>1
<1> QED
  BY <1>1, <1>2 DEF Resize

\* Writing behind the content, where there is room, extends the content.
LEMMA FillHolds ==
  ASSUME NEW b, Shape(b), NEW t \in Nat, NEW n \in Nat, Holds(b, t, n),
         NEW str, Continues(str, t + n), Len(str) <= WritableBytes(b)
  PROVE  /\ Shape(Fill(b, str)) /\ Holds(Fill(b, str), t, n + Len(str))
         /\ Len(Fill(b, str).data) = Len(b.data)
<1> DEFINE new == Fill(b, str)
<1>1. /\ b.data \in Seq(Nat) /\ Len(b.data) \in Nat /\ b.read \in Nat
      /\ b.write \in Nat /\ str \in Seq(Nat) /\ Len(str) \in Nat
  BY DEF Shape, Continues
<1>2. /\ b.write + Len(str) <= Len(b.data) /\ b.write = b.read + n
      /\ CheapPrepend <= b.read /\ b.read <= b.write
  BY <1>1 DEF WritableBytes, Holds, ReadableBytes, Shape
<1>3. /\ Overwrite(b.data, b.write, str) \in Seq(Nat)
      /\ Len(Overwrite(b.data, b.write, str)) = Len(b.data)
      /\ \A i \in 1..b.write : Overwrite(b.data, b.write, str)[i] = b.data[i]
      /\ \A i \in 1..Len(str) :
           Overwrite(b.data, b.write, str)[b.write + i] = str[i]
  BY <1>1, <1>2, OverwriteParts
<1>4. /\ new \in [data : Seq(Nat), read : Nat, write : Nat]
      /\ new.read = b.read /\ new.write = b.write + Len(str)
      /\ Len(new.data) = Len(b.data)
      /\ \A i \in 1..b.write : new.data[i] = b.data[i]
      /\ \A i \in 1..Len(str) : new.data[b.write + i] = str[i]
  BY <1>1, <1>3 DEF Fill
<1> HIDE DEF new
<1>5. CheapPrepend <= new.read /\ new.read <= new.write /\ new.write <= Len(new.data)
  BY <1>1, <1>2, <1>4
<1>6. ReadableBytes(new) = n + Len(str)
  BY <1>1, <1>2, <1>4 DEF ReadableBytes
<1>7. ASSUME NEW i \in 1..(n + Len(str))
      PROVE  new.data[b.read + i] = t + i
  <2>1. b.read \in Nat /\ Len(str) \in Nat /\ b.write = b.read + n /\ i \in Nat
    BY <1>1, <1>2
  <2>2. CASE i <= n
    <3>1. b.read + i \in 1..b.write /\ i \in 1..n
      BY <2>1, <2>2
    <3>2. b.data[b.read + i] = t + i
      BY <3>1 DEF Holds
    <3> QED
      BY <1>4, <3>1, <3>2
  <2>3. CASE i > n
    <3>1. i - n \in 1..Len(str) /\ b.write + (i - n) = b.read + i
      BY <2>1, <2>3
    <3>2. new.data[b.write + (i - n)] = str[i - n]
      BY <1>4, <3>1
    <3>3. str[i - n] = (t + n) + (i - n)
      BY <3>1 DEF Continues
    <3>4. (t + n) + (i - n) = t + i
      BY <2>1
    <3> QED
      BY <3>1, <3>2, <3>3, <3>4
  <2> QED
    BY <2>1, <2>2, <2>3
<1>8. Shape(new)
  BY <1>4, <1>5 DEF Shape
<1>9. Holds(new, t, n + Len(str))
  BY <1>4, <1>6, <1>7 DEF Holds
<1> QED
  BY <1>4, <1>8, <1>9 DEF new

\* Growing keeps everything.
LEMMA GrowHolds ==
  ASSUME NEW b, Shape(b), NEW t \in Nat, NEW n \in Nat, Holds(b, t, n),
         NEW len \in Nat, WritableBytes(b) < len
  PROVE  /\ Shape(Grow(b, len)) /\ Holds(Grow(b, len), t, n)
         /\ WritableBytes(Grow(b, len)) = len
<1> DEFINE new == Grow(b, len)
<1>1. /\ b.data \in Seq(Nat) /\ Len(b.data) \in Nat /\ b.read \in Nat
      /\ b.write \in Nat
  BY DEF Shape
<1>2. /\ CheapPrepend <= b.read /\ b.read <= b.write /\ b.write <= Len(b.data)
      /\ b.write = b.read + n /\ Len(b.data) <= b.write + len
  BY <1>1 DEF Shape, Holds, ReadableBytes, WritableBytes
<1>3. /\ Resize(b.data, b.write + len) \in Seq(Nat)
      /\ Len(Resize(b.data, b.write + len)) = b.write + len
      /\ \A i \in 1..Len(b.data) : Resize(b.data, b.write + len)[i] = b.data[i]
  <2>1. b.write + len \in Nat
    BY <1>1
  <2> QED
    BY <1>1, <1>2, <2>1, ResizeParts
<1>4. /\ new \in [data : Seq(Nat), read : Nat, write : Nat]
      /\ new.read = b.read /\ new.write = b.write
      /\ Len(new.data) = b.write + len
      /\ \A i \in 1..Len(b.data) : new.data[i] = b.data[i]
  BY <1>1, <1>3 DEF Grow
<1> HIDE DEF new
<1>5. CheapPrepend <= new.read /\ new.read <= new.write /\ new.write <= Len(new.data)
  BY <1>1, <1>2, <1>4
<1>6. ReadableBytes(new) = n /\ WritableBytes(new) = len
  BY <1>1, <1>2, <1>4 DEF ReadableBytes, WritableBytes
<1>7. ASSUME NEW i \in 1..n
      PROVE  new.data[b.read + i] = t + i
  <2>1. /\ b.read \in Nat /\ Len(b.data) \in Nat
        /\ b.read + n <= Len(b.data)
    BY <1>1, <1>2
  <2>2. b.read + i \in 1..Len(b.data)
    BY <2>1
  <2> QED
    BY <1>4, <2>2 DEF Holds
<1>8. Shape(new)
  BY <1>4, <1>5 DEF Shape
<1>9. Holds(new, t, n)
  BY <1>4, <1>6, <1>7 DEF Holds
<1> QED
  BY <1>6, <1>8, <1>9 DEF new

\* Moving the content to the front keeps it and makes all other bytes behind
\* the prepend bytes writable.
LEMMA MoveHolds ==
  ASSUME NEW b, Shape(b), NEW t \in Nat, NEW n \in Nat, Holds(b, t, n)
  PROVE  /\ Shape(MoveToFront(b)) /\ Holds(MoveToFront(b), t, n)
         /\ Len(MoveToFront(b).data) = Len(b.data)
         /\ WritableBytes(MoveToFront(b)) = Len(b.data) - (CheapPrepend + n)
<1> DEFINE new == MoveToFront(b)
<1>1. /\ b.data \in Seq(Nat) /\ Len(b.data) \in Nat /\ b.read \in Nat
      /\ b.write \in Nat /\ CheapPrepend \in Nat
  BY SizeAssumption DEF Shape
<1>2. /\ CheapPrepend <= b.read /\ b.read <= b.write /\ b.write <= Len(b.data)
      /\ b.write = b.read + n
  BY <1>1 DEF Shape, Holds, ReadableBytes
<1>3. \A i \in 1..n : b.data[b.read + i] \in Nat /\ b.data[b.read + i] = t + i
  <2> TAKE i \in 1..n
  <2>1. b.data[b.read + i] = t + i
    BY DEF Holds
  <2> QED
    BY <2>1
<1>4. /\ Content(b) \in Seq(Nat) /\ Len(Content(b)) = n
      /\ \A i \in 1..n : Content(b)[i] = t + i
  <2>1. Content(b) = [i \in 1..n |-> b.data[b.read + i]]
    BY DEF Content, Holds
  <2> QED
    BY <1>3, <2>1
<1>5. /\ Overwrite(b.data, CheapPrepend, Content(b)) \in Seq(Nat)
      /\ Len(Overwrite(b.data, CheapPrepend, Content(b))) = Len(b.data)
      /\ \A i \in 1..n :
           Overwrite(b.data, CheapPrepend, Content(b))[CheapPrepend + i] = t + i
  <2>1. CheapPrepend + Len(Content(b)) <= Len(b.data)
    BY <1>1, <1>2, <1>4
  <2>2. /\ Overwrite(b.data, CheapPrepend, Content(b)) \in Seq(Nat)
        /\ Len(Overwrite(b.data, CheapPrepend, Content(b))) = Len(b.data)
        /\ \A i \in 1..Len(Content(b)) :
             Overwrite(b.data, CheapPrepend, Content(b))[CheapPrepend + i]
               = Content(b)[i]
    <3>1. b.data \in Seq(Nat) /\ CheapPrepend \in Nat /\ Content(b) \in Seq(Nat)
      BY <1>1, <1>4
    <3> QED
      BY <3>1, <2>1, OverwriteParts
  <2> QED
    BY <1>4, <2>2
<1>6. /\ new \in [data : Seq(Nat), read : Nat, write : Nat]
      /\ new.read = CheapPrepend /\ new.write = CheapPrepend + n
      /\ Len(new.data) = Len(b.data)
      /\ \A i \in 1..n : new.data[CheapPrepend + i] = t + i
  BY <1>1, <1>5 DEF MoveToFront, Holds
<1> HIDE DEF new
<1>7. CheapPrepend <= new.read /\ new.read <= new.write /\ new.write <= Len(new.data)
  BY <1>1, <1>2, <1>6
<1>8. /\ ReadableBytes(new) = n
      /\ WritableBytes(new) = Len(b.data) - (CheapPrepend + n)
  BY <1>1, <1>6 DEF ReadableBytes, WritableBytes
<1>9. Shape(new) /\ Holds(new, t, n)
  BY <1>6, <1>7, <1>8 DEF Shape, Holds
<1> QED
  BY <1>6, <1>8, <1>9 DEF new

\* MakeSpace makes the space, keeps the content, and grows the vector only
\* when prepend bytes, content and new bytes together need a larger one.
LEMMA MakeSpaceHolds ==
  ASSUME NEW b, Shape(b), NEW t \in Nat, NEW n \in Nat, Holds(b, t, n),
         NEW len \in Nat, WritableBytes(b) < len
  PROVE  /\ Shape(MakeSpace(b, len)) /\ Holds(MakeSpace(b, len), t, n)
         /\ len <= WritableBytes(MakeSpace(b, len))
         /\ Len(MakeSpace(b, len).data) > Len(b.data)
              => CheapPrepend + n + len > Len(b.data)
<1>1. /\ Len(b.data) \in Nat /\ b.read \in Nat /\ b.write \in Nat
      /\ b.write = b.read + n /\ CheapPrepend \in Nat
  BY SizeAssumption DEF Shape, Holds, ReadableBytes
<1>2. FitsAfterMove(b, len) <=> CheapPrepend + n + len <= Len(b.data)
  BY <1>1 DEF FitsAfterMove, WritableBytes
<1>3. CASE FitsAfterMove(b, len)
  <2>1. MakeSpace(b, len) = MoveToFront(b)
    BY <1>3 DEF MakeSpace
  <2>2. len <= Len(b.data) - (CheapPrepend + n)
    BY <1>1, <1>2, <1>3
  <2> QED
    BY <1>1, <2>1, <2>2, MoveHolds
<1>4. CASE ~FitsAfterMove(b, len)
  <2>1. MakeSpace(b, len) = Grow(b, len)
    BY <1>4 DEF MakeSpace
  <2>2. CheapPrepend + n + len > Len(b.data)
    BY <1>1, <1>2, <1>4
  <2> QED
    BY <1>1, <2>1, <2>2, GrowHolds
<1> QED
  BY <1>3, <1>4

\* Append puts the bytes behind the content.
LEMMA AppendHolds ==
  ASSUME NEW b, Shape(b), NEW t \in Nat, NEW n \in Nat, Holds(b, t, n),
         NEW str, Continues(str, t + n)
  PROVE  /\ Shape(AppendBytes(b, str))
         /\ Holds(AppendBytes(b, str), t, n + Len(str))
         /\ Len(AppendBytes(b, str).data) > Len(b.data)
              => CheapPrepend + n + Len(str) > Len(b.data)
<1>1. Len(str) \in Nat /\ WritableBytes(b) \in Int
  BY DEF Continues, Shape, WritableBytes
<1>2. CASE WritableBytes(b) < Len(str)
  <2> DEFINE roomy == MakeSpace(b, Len(str))
  <2>1. /\ Shape(roomy) /\ Holds(roomy, t, n) /\ Len(str) <= WritableBytes(roomy)
        /\ Len(roomy.data) > Len(b.data) => CheapPrepend + n + Len(str) > Len(b.data)
    BY <1>1, <1>2, MakeSpaceHolds
  <2>2. AppendBytes(b, str) = Fill(roomy, str)
    BY <1>2 DEF AppendBytes
  <2> HIDE DEF roomy
  <2>3. /\ Shape(Fill(roomy, str)) /\ Holds(Fill(roomy, str), t, n + Len(str))
        /\ Len(Fill(roomy, str).data) = Len(roomy.data)
    BY <2>1, FillHolds
  <2> QED
    BY <2>1, <2>2, <2>3
<1>3. CASE ~(WritableBytes(b) < Len(str))
  <2>1. AppendBytes(b, str) = Fill(b, str)
    BY <1>3 DEF AppendBytes
  <2>2. Len(str) <= WritableBytes(b)
    BY <1>1, <1>3
  <2>3. /\ Shape(Fill(b, str)) /\ Holds(Fill(b, str), t, n + Len(str))
        /\ Len(Fill(b, str).data) = Len(b.data)
    BY <2>2, FillHolds
  <2>4. Len(b.data) \in Nat
    BY DEF Shape
  <2> QED
    BY <2>1, <2>3, <2>4
<1> QED
  BY <1>2, <1>3
\* What is left of a sequence behind its first r elements.
LEMMA RestParts ==
  ASSUME NEW s \in Seq(Nat), NEW r \in Nat, r < Len(s), NEW i \in 1..(Len(s) - r)
  PROVE  SubSeq(s, r + 1, Len(s))[i] = s[r + i] /\ r + i \in 1..Len(s)
<1>1. Len(s) \in Nat /\ i \in Nat /\ r + i \in 1..Len(s)
  OBVIOUS
<1>2. (r + 1) + i - 1 = r + i
  BY <1>1
<1>3. i \in 1..(Len(s) - (r + 1) + 1)
  BY <1>1
<1>4. SubSeq(s, r + 1, Len(s))[i] = s[(r + 1) + i - 1]
  BY <1>1, <1>3
<1> QED
  BY <1>1, <1>2, <1>4

\* ReadFd puts what readv returned behind the content, first into the vector
\* and then out of the buffer on the stack.
LEMMA ReadHolds ==
  ASSUME NEW b, Shape(b), NEW t \in Nat, NEW n \in Nat, Holds(b, t, n),
         NEW str, Continues(str, t + n)
  PROVE  /\ Shape(ReadBytes(b, str))
         /\ Holds(ReadBytes(b, str), t, n + Len(str))
         /\ Len(ReadBytes(b, str).data) > Len(b.data)
              => CheapPrepend + n + Len(str) > Len(b.data)
<1> DEFINE room == WritableBytes(b)
           first == SubSeq(str, 1, room)
           rest == SubSeq(str, room + 1, Len(str))
<1>1. /\ str \in Seq(Nat) /\ Len(str) \in Nat /\ room \in Nat
      /\ Len(b.data) \in Nat /\ CheapPrepend \in Nat
  BY SizeAssumption DEF Continues, Shape, WritableBytes
<1>2. CASE Len(str) <= room
  <2>1. ReadBytes(b, str) = Fill(b, str)
    BY <1>2 DEF ReadBytes
  <2>2. /\ Shape(Fill(b, str)) /\ Holds(Fill(b, str), t, n + Len(str))
        /\ Len(Fill(b, str).data) = Len(b.data)
    BY <1>2, FillHolds
  <2> QED
    BY <1>1, <2>1, <2>2
<1>3. CASE ~(Len(str) <= room)
  <2>1. ReadBytes(b, str) = AppendBytes(Fill(b, first), rest)
    BY <1>3 DEF ReadBytes
  <2>2. Continues(first, t + n) /\ Len(first) = room
    BY <1>1, <1>3, SMTT(40) DEF Continues
  <2>3. Continues(rest, t + n + room) /\ Len(rest) = Len(str) - room
    <3>1. rest \in Seq(Nat) /\ Len(rest) = Len(str) - room
      BY <1>1, <1>3, SMTT(40)
    <3>2. ASSUME NEW i \in 1..(Len(str) - room)
          PROVE  rest[i] = t + n + room + i
      <4>1. rest[i] = str[room + i] /\ room + i \in 1..Len(str)
        BY <1>1, <1>3, RestParts
      <4>2. str[room + i] = (t + n) + (room + i)
        BY <4>1 DEF Continues
      <4> QED
        BY <1>1, <4>1, <4>2
    <3> QED
      BY <3>1, <3>2 DEF Continues
  <2> DEFINE full == Fill(b, first)
  <2>4. /\ Shape(full) /\ Holds(full, t, n + room) /\ Len(full.data) = Len(b.data)
    <3>1. Len(first) <= WritableBytes(b)
      BY <1>1, <2>2
    <3> HIDE DEF first
    <3> QED
      BY <2>2, <3>1, FillHolds
  <2> HIDE DEF full, rest
  <2>5. t + n + room = t + (n + room) /\ n + room \in Nat
    BY <1>1
  <2>6. /\ Shape(AppendBytes(full, rest))
        /\ Holds(AppendBytes(full, rest), t, (n + room) + Len(rest))
        /\ Len(AppendBytes(full, rest).data) > Len(full.data)
             => CheapPrepend + (n + room) + Len(rest) > Len(full.data)
    <3>1. Continues(rest, t + (n + room))
      BY <2>3, <2>5
    <3> HIDE DEF room
    <3> QED
      BY <2>4, <2>5, <3>1, AppendHolds
  <2>7. (n + room) + Len(rest) = n + Len(str)
    BY <1>1, <2>3
  <2>8. CheapPrepend + (n + room) + Len(rest) = CheapPrepend + n + Len(str)
    BY <1>1, <2>3
  <2> QED
    BY <2>1, <2>4, <2>6, <2>7, <2>8 DEF full
<1> QED
  BY <1>2, <1>3

\* Retrieve takes bytes off the front, all of them when asked for too many.
LEMMA RetrieveHolds ==
  ASSUME NEW b, Shape(b), NEW t \in Nat, NEW n \in Nat, Holds(b, t, n),
         NEW len \in Nat
  PROVE  /\ Shape(Retrieve(b, len))
         /\ len < n => Holds(Retrieve(b, len), t + len, n - len)
         /\ ~(len < n) => Holds(Retrieve(b, len), t + n, 0)
         /\ Retrieve(b, len).data = b.data
<1>1. /\ b \in [data : Seq(Nat), read : Nat, write : Nat]
      /\ Len(b.data) \in Nat /\ CheapPrepend \in Nat /\ b.read \in Nat
      /\ b.write \in Nat
  BY SizeAssumption DEF Shape
<1>2. /\ CheapPrepend <= b.read /\ b.read <= b.write /\ b.write <= Len(b.data)
      /\ b.write = b.read + n
  BY <1>1 DEF Shape, Holds, ReadableBytes
<1>3. CASE len < n
  <2> DEFINE new == [b EXCEPT !.read = b.read + len]
  <2>1. /\ new \in [data : Seq(Nat), read : Nat, write : Nat]
        /\ new.data = b.data /\ new.read = b.read + len /\ new.write = b.write
    BY <1>1
  <2>2. Retrieve(b, len) = new
    BY <1>3 DEF Retrieve, Holds
  <2> HIDE DEF new
  <2>3. Shape(new)
    BY <1>1, <1>2, <1>3, <2>1 DEF Shape
  <2>4. ReadableBytes(new) = n - len
    BY <1>1, <1>2, <2>1 DEF ReadableBytes
  <2>5. ASSUME NEW i \in 1..(n - len)
        PROVE  new.data[new.read + i] = (t + len) + i
    <3>1. len + i \in 1..n /\ b.read + (len + i) = (b.read + len) + i
      BY <1>1, <1>3
    <3>2. b.data[b.read + (len + i)] = t + (len + i)
      BY <3>1 DEF Holds
    <3> QED
      BY <2>1, <3>1, <3>2
  <2> QED
    BY <1>3, <2>1, <2>2, <2>3, <2>4, <2>5 DEF Holds
<1>4. CASE ~(len < n)
  <2> DEFINE new == [b EXCEPT !.read = CheapPrepend, !.write = CheapPrepend]
  <2>1. /\ new \in [data : Seq(Nat), read : Nat, write : Nat]
        /\ new.data = b.data /\ new.read = CheapPrepend /\ new.write = CheapPrepend
    BY <1>1
  <2>2. Retrieve(b, len) = new
    BY <1>4 DEF Retrieve, RetrieveAll, Holds
  <2> HIDE DEF new
  <2>3. Shape(new) /\ ReadableBytes(new) = 0
    BY <1>1, <1>2, <2>1 DEF Shape, ReadableBytes
  <2> QED
    BY <1>4, <2>1, <2>2, <2>3 DEF Holds
<1> QED
  BY <1>3, <1>4

-----------------------------------------------------------------------------
\* The inductive invariant: the shape of the buffer and its content, over a
\* stream of which no more was taken than was put in.
IInv ==
  /\ put \in Nat /\ taken \in Nat /\ taken <= put
  /\ Shape(buf) /\ Holds(buf, taken, put - taken)

\* The growth of the vector in one step.
GrowthOK ==
  Len(buf'.data) > Len(buf.data)
    => CheapPrepend + ReadableBytes(buf') > Len(buf.data)

LEMMA InvInit == Init => IInv
<1> SUFFICES ASSUME Init PROVE IInv
  OBVIOUS
<1>1. /\ buf.read = CheapPrepend /\ buf.write = CheapPrepend
      /\ buf.data \in Seq(Nat) /\ Len(buf.data) = InitialSize + CheapPrepend
      /\ buf \in [data : Seq(Nat), read : Nat, write : Nat]
      /\ CheapPrepend \in Nat /\ InitialSize \in Nat
  BY SizeAssumption DEF Init
<1>2. put = 0 /\ taken = 0
  BY DEF Init
<1>3. Shape(buf) /\ ReadableBytes(buf) = 0
  BY <1>1 DEF Shape, ReadableBytes
<1> QED
  BY <1>2, <1>3 DEF IInv, Holds

\* The bytes that a step puts in continue the stream.
LEMMA StreamContinues ==
  ASSUME IInv, NEW n \in Nat
  PROVE  /\ Continues(Stream(n), taken + (put - taken)) /\ Len(Stream(n)) = n
         /\ put - taken \in Nat
<1>1. put \in Nat /\ taken \in Nat /\ taken <= put
  BY DEF IInv
<1>2. taken + (put - taken) = put /\ put - taken \in Nat
  BY <1>1
<1>3. Stream(n) \in Seq(Nat) /\ Len(Stream(n)) = n
      /\ \A i \in 1..n : Stream(n)[i] = put + i
  BY <1>1 DEF Stream
<1> QED
  BY <1>2, <1>3 DEF Continues

\* Every step keeps the invariant and grows the vector only when it must.
LEMMA InvNext ==
  ASSUME IInv, [Next]_vars
  PROVE  IInv' /\ GrowthOK
<1>1. /\ put \in Nat /\ taken \in Nat /\ taken <= put
      /\ Shape(buf) /\ Holds(buf, taken, put - taken)
      /\ put - taken \in Nat /\ Len(buf.data) \in Nat
  BY DEF IInv, Shape
<1>2. ASSUME NEW n \in 1..MaxStream, Store(n)
      PROVE  IInv' /\ GrowthOK
  <2>1. n \in Nat /\ Len(Stream(n)) = n
        /\ Continues(Stream(n), taken + (put - taken))
    BY StreamContinues
  <2>2. /\ Shape(buf') /\ Holds(buf', taken, (put - taken) + n)
        /\ Len(buf'.data) > Len(buf.data)
             => CheapPrepend + (put - taken) + n > Len(buf.data)
    BY <1>1, <1>2, <2>1, AppendHolds DEF Store
  <2>3. put' = put + n /\ taken' = taken
    BY <1>2 DEF Store
  <2> HIDE DEF Store
  <2>4. (put - taken) + n = put' - taken' /\ put' \in Nat /\ taken' <= put'
    BY <1>1, <2>1, <2>3
  <2>5. CheapPrepend + (put - taken) + n = CheapPrepend + ((put - taken) + n)
    BY <1>1, <2>1, SizeAssumption
  <2>6. GrowthOK
    BY <2>2, <2>5 DEF GrowthOK, Holds
  <2> QED
    BY <1>1, <2>2, <2>3, <2>4, <2>6 DEF IInv, Shape, Holds, ReadableBytes
<1>3. ASSUME NEW n \in 1..MaxStream, ReadFd(n)
      PROVE  IInv' /\ GrowthOK
  <2>1. n \in Nat /\ Len(Stream(n)) = n
        /\ Continues(Stream(n), taken + (put - taken))
    BY StreamContinues
  <2>2. /\ Shape(buf') /\ Holds(buf', taken, (put - taken) + n)
        /\ Len(buf'.data) > Len(buf.data)
             => CheapPrepend + (put - taken) + n > Len(buf.data)
    BY <1>1, <1>3, <2>1, ReadHolds DEF ReadFd
  <2>3. put' = put + n /\ taken' = taken
    BY <1>3 DEF ReadFd
  <2>4. (put - taken) + n = put' - taken' /\ put' \in Nat /\ taken' <= put'
    BY <1>1, <2>1, <2>3
  <2>5. CheapPrepend + (put - taken) + n = CheapPrepend + ((put - taken) + n)
    BY <1>1, <2>1, SizeAssumption
  <2>6. GrowthOK
    BY <2>2, <2>5 DEF GrowthOK, Holds
  <2> QED
    BY <1>1, <2>2, <2>3, <2>4, <2>6 DEF IInv, Shape, Holds, ReadableBytes
<1>4. ASSUME NEW n \in 1..MaxStream, Take(n)
      PROVE  IInv' /\ GrowthOK
  <2>1. n \in Nat
    OBVIOUS
  <2>2. /\ Shape(buf') /\ buf'.data = buf.data
        /\ n < put - taken => Holds(buf', taken + n, (put - taken) - n)
        /\ ~(n < put - taken) => Holds(buf', taken + (put - taken), 0)
    BY <1>1, <1>4, <2>1, RetrieveHolds DEF Take
  <2>3. put' = put /\ taken' = IF taken + n < put THEN taken + n ELSE put
    BY <1>4 DEF Take
  <2>4. put' \in Nat /\ taken' \in Nat /\ taken' <= put'
    BY <1>1, <2>1, <2>3
  <2>5. Holds(buf', taken', put' - taken')
    <3>1. CASE n < put - taken
      <4>1. taken' = taken + n /\ put' - taken' = (put - taken) - n
        BY <1>1, <2>1, <2>3, <3>1
      <4> QED
        BY <2>2, <3>1, <4>1
    <3>2. CASE ~(n < put - taken)
      <4>1. taken' = taken + (put - taken) /\ put' - taken' = 0
        BY <1>1, <2>1, <2>3, <3>2
      <4> QED
        BY <2>2, <3>2, <4>1
    <3> QED
      BY <3>1, <3>2
  <2>6. GrowthOK
    BY <1>1, <2>2 DEF GrowthOK
  <2> QED
    BY <2>2, <2>4, <2>5, <2>6 DEF IInv, Shape, Holds, ReadableBytes
<1>5. CASE UNCHANGED vars
  <2>1. buf' = buf /\ put' = put /\ taken' = taken
    BY <1>5 DEF vars
  <2> QED
    BY <1>1, <2>1 DEF IInv, Shape, Holds, ReadableBytes, GrowthOK
<1> QED
  BY <1>2, <1>3, <1>4, <1>5 DEF Next

\* The indexes of the buffer stay in order, for vectors of every size.
THEOREM TypeCorrect == Spec => []TypeOK
<1>1. IInv => TypeOK
  BY DEF IInv, Shape, TypeOK
<1> QED
  BY <1>1, InvInit, InvNext, PTL DEF Spec

\* The readable bytes are exactly those put in and not yet taken, in order.
THEOREM ContentCorrect == Spec => []ContentOK
<1>1. IInv => ContentOK
  BY DEF IInv, Holds, ContentOK
<1> QED
  BY <1>1, InvInit, InvNext, PTL DEF Spec

\* The vector grows only when prepend bytes and content need more room.
THEOREM GrowthCorrect == Spec => GrowsOnlyWhenFull
<1>1. ASSUME IInv, [Next]_vars
      PROVE  [Len(buf'.data) > Len(buf.data)
                => CheapPrepend + ReadableBytes(buf') > Len(buf.data)]_vars
  BY <1>1, InvNext DEF GrowthOK
<1> QED
  BY <1>1, InvInit, InvNext, PTL DEF Spec, GrowsOnlyWhenFull
-----------------------------------------------------------------------------
(***************************************************************************)
(* The readable bytes are a queue, see ByteQueue.                          *)
(***************************************************************************)
\* The n bytes of the stream behind byte t.
Bytes(t, n) == [i \in 1..n |-> t + i]

\* Concatenation under a name that the provers do not rewrite.
Join(a, b) == a \o b

LEMMA ContentIs ==
  ASSUME NEW b, NEW t, NEW n, Holds(b, t, n)
  PROVE  Content(b) = Bytes(t, n)
BY DEF Content, Holds, Bytes

\* Bytes are joined, and taken off the front.
LEMMA BytesJoin ==
  ASSUME NEW t \in Nat, NEW m \in Nat, NEW n \in Nat,
         NEW p, NEW q, p = t + m, q = m + n
  PROVE  Bytes(t, q) = Join(Bytes(t, m), Bytes(p, n))
<1> DEFINE a == Bytes(t, m)
           b == Bytes(t + m, n)
<1>1. /\ a \in Seq(Nat) /\ Len(a) = m /\ b \in Seq(Nat) /\ Len(b) = n
      /\ \A i \in 1..m : a[i] = t + i
      /\ \A i \in 1..n : b[i] = (t + m) + i
  BY DEF Bytes
<1> HIDE DEF a, b
<1>2. /\ a \o b \in Seq(Nat) /\ Len(a \o b) = m + n
      /\ \A i \in 1..(m + n) : (a \o b)[i] = IF i <= m THEN a[i] ELSE b[i - m]
  BY <1>1, ConcatProperties
<1>3. ASSUME NEW i \in 1..(m + n)
      PROVE  (a \o b)[i] = t + i
  <2>1. CASE i <= m
    <3>1. i \in 1..m
      BY <2>1
    <3> QED BY <1>1, <1>2, <2>1, <3>1
  <2>2. CASE ~(i <= m)
    <3>1. i - m \in 1..n /\ (t + m) + (i - m) = t + i
      BY <2>2
    <3> QED BY <1>1, <1>2, <2>2, <3>1
  <2> QED BY <2>1, <2>2
<1>4. /\ Bytes(t, m + n) \in Seq(Nat) /\ Len(Bytes(t, m + n)) = m + n
      /\ \A i \in 1..(m + n) : Bytes(t, m + n)[i] = t + i
  BY DEF Bytes
<1>5. Bytes(t, m + n) = a \o b
  BY <1>2, <1>3, <1>4, SeqEqual
<1> QED BY <1>5 DEF a, b, Join

LEMMA BytesRest ==
  ASSUME NEW t \in Nat, NEW m \in Nat, NEW n \in 0..m
  PROVE  Bytes(t + n, m - n) = SubSeq(Bytes(t, m), n + 1, m)
<1> DEFINE a == Bytes(t, m)
<1>1. a \in Seq(Nat) /\ Len(a) = m /\ \A i \in 1..m : a[i] = t + i
  BY DEF Bytes
<1> HIDE DEF a
<1>2. SubSeq(a, n + 1, m) = [i \in 1..(m - n) |-> a[n + i]]
  BY <1>1
<1>3. \A i \in 1..(m - n) : a[n + i] = (t + n) + i
  <2> TAKE i \in 1..(m - n)
  <2>1. n + i \in 1..m /\ t + (n + i) = (t + n) + i
    OBVIOUS
  <2> QED BY <1>1, <2>1
<1> QED BY <1>2, <1>3 DEF Bytes, a

LEMMA QueueNext ==
  ASSUME IInv, IInv', [Next]_vars
  PROVE  [Queue!Next]_(Queue!vars)
<1> DEFINE m == put - taken
<1>1. /\ put \in Nat /\ taken \in Nat /\ m \in Nat /\ taken + m = put
      /\ put' \in Nat /\ taken' \in Nat
  BY DEF IInv
<1>2. Content(buf) = Bytes(taken, m) /\ Content(buf') = Bytes(taken', put' - taken')
  BY ContentIs DEF IInv
<1>3. ASSUME NEW n \in 1..MaxStream, Store(n) \/ ReadFd(n)
      PROVE  Queue!Next
  <2>1. put' = put + n /\ taken' = taken /\ n \in Nat
    BY <1>3 DEF Store, ReadFd
  <2>2. put' - taken' = m + n /\ n \in 1..put'
    BY <1>1, <2>1
  <2> HIDE DEF m
  <2>3. Content(buf') = Content(buf) \o [k \in 1..n |-> put + k]
    <3>1. Bytes(taken, put' - taken') = Join(Bytes(taken, m), Bytes(put, n))
      <4>1. taken \in Nat /\ m \in Nat /\ n \in Nat /\ put = taken + m
            /\ put' - taken' = m + n
        BY <1>1, <2>1, <2>2
      <4> QED BY ONLY <4>1, BytesJoin, SMT
    <3>2. Bytes(put, n) = [k \in 1..n |-> put + k]
      BY DEF Bytes
    <3> QED BY <1>2, <2>1, <3>1, <3>2 DEF Join
  <2>4. Queue!Put(n)
    BY <2>1, <2>3 DEF Queue!Put
  <2> QED BY <2>2, <2>4 DEF Queue!Next
<1>4. ASSUME NEW n \in 1..MaxStream, Take(n)
      PROVE  Queue!Next \/ UNCHANGED Queue!vars
  <2> DEFINE r == IF n < m THEN n ELSE m
  <2>1. put' = put /\ taken' = taken + r /\ r \in 0..m /\ (r = 0 => m = 0)
    BY <1>1, <1>4 DEF Take
  <2>2. put' - taken' = m - r
    BY <1>1, <2>1
  <2> HIDE DEF m, r
  <2>3. Content(buf') = SubSeq(Content(buf), r + 1, m) /\ Len(Content(buf)) = m
    <3>1. Len(Bytes(taken, m)) = m
      BY <1>1 DEF Bytes
    <3>2. Content(buf') = Bytes(taken + r, m - r)
      BY <1>2, <2>1, <2>2
    <3>3. Bytes(taken + r, m - r) = SubSeq(Bytes(taken, m), r + 1, m)
      BY <1>1, <2>1, BytesRest
    <3> QED BY <1>2, <3>1, <3>2, <3>3
  <2>4. CASE r = 0
    <3>1. Content(buf') = Content(buf)
      BY <1>1, <1>2, <2>1, <2>2, <2>4
    <3> QED BY <2>1, <3>1 DEF Queue!vars
  <2>5. CASE r # 0
    <3>1. Queue!Take(r)
      BY <2>1, <2>3 DEF Queue!Take
    <3>2. r \in 1..Len(Content(buf))
      BY <1>1, <2>1, <2>3, <2>5
    <3> QED BY <3>1, <3>2 DEF Queue!Next
  <2> QED BY <2>4, <2>5
<1>5. CASE UNCHANGED vars
  BY <1>5 DEF vars, Queue!vars
<1> QED BY <1>3, <1>4, <1>5 DEF Next

\* For vectors and streams of every size, a Buffer is a queue of bytes: moving,
\* growing and spilling are invisible to those who append and retrieve.
THEOREM QueueRefinement == Spec => IsByteQueue
<1>1. Init => Queue!Init
  <2> SUFFICES ASSUME Init PROVE Queue!Init
    OBVIOUS
  <2>1. IInv /\ put = 0 /\ taken = 0
    BY InvInit DEF Init
  <2>2. Content(buf) = Bytes(0, 0)
    BY <2>1, ContentIs DEF IInv
  <2>3. Bytes(0, 0) = <<>>
    BY DEF Bytes
  <2> QED BY <2>1, <2>2, <2>3 DEF Queue!Init
<1>2. IInv /\ [Next]_vars => IInv'
  BY InvNext
<1>3. IInv /\ IInv' /\ [Next]_vars => [Queue!Next]_(Queue!vars)
  BY QueueNext
<1> QED BY <1>1, <1>2, <1>3, InvInit, PTL DEF Spec, IsByteQueue, Queue!Spec
=============================================================================
