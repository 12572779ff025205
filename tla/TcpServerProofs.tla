-------------------------- MODULE TcpServerProofs --------------------------
(***************************************************************************)
(* What is proved of TcpServer, for any number of loops, connections and   *)
(* user threads: the types, and the lifetimes of the connections.          *)
(***************************************************************************)
EXTENDS TcpServer, SequenceTheorems, FiniteSetTheorems, TLAPS

Kinds == {"established", "remove", "destroy", "send", "shutdown"}
Raw == {"send", "shutdown"}

In(s, f) == \E i \in 1..Len(s) : s[i] = f

\* Only the functors of Send and Shutdown are queued more than once, except for
\* the connections in X, and no ConnectEstablished stands behind the
\* ConnectDestroyed of its connection.
Once(s, X) ==
  \A i, j \in 1..Len(s) :
    s[i] = s[j] /\ s[i][1] \notin Raw /\ s[i][2] \notin X => i = j
InOrder(s) ==
  \A i, j \in 1..Len(s) :
    s[i][1] = "destroy" /\ s[j] = <<"established", s[i][2]>> => j < i

Pending(l, f) == In(queue[l], f) \/ In(batch[l], f)

-----------------------------------------------------------------------------
(* The inductive invariant.                                                *)

\* Every report of the listening socket has a client of its own to accept.
AcceptT ==
  /\ listening \in BOOLEAN /\ edge \in BOOLEAN
  /\ backlog \in Nat /\ arrived \in 0..MaxConns /\ nextConn \in Nat \ {0}
  /\ nextConn - 1 + backlog <= arrived
  /\ edge \/ 0 \in active[Base] => backlog > 0
  /\ edge /\ 0 \in active[Base] => backlog > 1
  /\ backlog > 0 => listening
  /\ nextConn > 1 => listening \/ Stopped(Base)
  /\ 0 \in active[Base] => at[Base] = "events"
PoolT ==
  /\ loops \in Seq(Loops \ {Base}) /\ nextLoop \in Nat \ {0}
  /\ loops # <<>> => nextLoop <= Len(loops)
  /\ nextConn = 1 => nextLoop = 1
  /\ home \in [Conns -> Loops]
ConnT ==
  /\ connections \subseteq Conns /\ enabled \subseteq registered
  /\ registered \subseteq Conns /\ state \in [Conns -> States]
  /\ ran \in [Conns -> [established : Nat, closed : Nat, destroyed : Nat]]
  /\ unsettled \subseteq Conns
LoopT ==
  /\ at \in [Loops -> {"poll", "events", "run", "stopped"}]
  /\ active \in [Loops -> SUBSET (Conns \cup {0})]
  /\ queue \in [Loops -> Seq(Functors)] /\ batch \in [Loops -> Seq(Functors)]
  /\ done \in [Loops -> SUBSET Conns] /\ quit \subseteq Loops
UserT ==
  /\ pc \in [Users -> {"idle", "holds", "send", "setState", "shutdown"}]
  /\ held \in [Users -> Conns \cup {0}] /\ \A u \in Users : held[u] = 0 <=> pc[u] = "idle"
  /\ calls \in 0..MaxCalls /\ late \subseteq Conns

TInv == AcceptT /\ PoolT /\ ConnT /\ LoopT /\ UserT

(* Of every connection.                                                     *)
Lost(c) == home[c] # Base /\ Stopped(home[c])

\* It is established once, before all else; it closes or is destroyed before it
\* is Disconnected or unsettled.  Numbers from nextConn on are not in use.
StateOf(c) ==
  /\ ran[c].established = IF state[c] = "Connecting" THEN 0 ELSE 1
  /\ state[c] = "Disconnected" \/ c \in unsettled
       <=> ran[c].closed > 0 \/ ran[c].destroyed > 0
  /\ state[c] = "Connecting" =>
       /\ ran[c].closed = 0 /\ ran[c].destroyed = 0
       /\ c \notin registered
       /\ c < nextConn => Pending(home[c], <<"established", c>>) \/ Lost(c)
  /\ ~(c < nextConn) => home[c] = Base /\ state[c] = "Connecting" /\ c \notin connections

\* Its removals are in the base loop, and its other functors in its own loop.
FunctorOf(c) ==
  \A l \in Loops :
    /\ \A k \in Kinds : Pending(l, <<k, c>>) =>
         c < nextConn /\ l = IF k = "remove" THEN Base ELSE home[c]
    /\ Pending(l, <<"established", c>>) => l # Base

\* Its loop handles its events while it is open.
OpenOf(c) ==
  /\ \A l \in Loops : c \in active[l] => c \in enabled /\ home[c] = l
  /\ c \in enabled => ran[c].closed = 0 \/ c \in unsettled

\* What is known while a functor is pending.
PendingOf(c) ==
  \A l \in Loops :
    /\ Pending(l, <<"established", c>>) => state[c] = "Connecting"
    /\ Pending(l, <<"destroy", c>>) =>
         /\ c \notin connections /\ (ran[c].closed > 0 \/ Stopped(Base))
         /\ ran[c].destroyed = 0 \/ c \in unsettled
    /\ Pending(l, <<"remove", c>>) =>
         /\ ran[c].closed > 0
         /\ c \in connections \/ Stopped(Base) \/ c \in unsettled
    /\ \A k \in Raw : Pending(l, <<k, c>>) => state[c] # "Connecting"

\* It is in the map, about to be destroyed, destroyed, or was on an io loop
\* that has ended; and no close of it is forgotten.
LifeOf(c) ==
  /\ c < nextConn =>
       \/ c \in connections \/ Pending(home[c], <<"destroy", c>>)
       \/ ran[c].destroyed > 0 \/ Lost(c)
  /\ ran[c].destroyed > 0 =>
       /\ c \notin connections
       /\ c \notin unsettled => c \notin registered /\ ran[c].destroyed = 1
  /\ c \in registered => ~Lost(c)
  /\ ran[c].closed > 0 /\ c \in connections => Pending(Base, <<"remove", c>>)

\* What keeps it for a queued Send or Shutdown.
SendOf(c) ==
  \A l \in Loops, k \in Raw : ~Stopped(l) =>
    /\ In(queue[l], <<k, c>>) =>
         c \in late \/ c \in connections \/ In(queue[l], <<"destroy", c>>)
    /\ In(batch[l], <<k, c>>) =>
         c \in late \/ c \in connections \/ Pending(l, <<"destroy", c>>) \/ c \in done[l]

ConnInv(c) ==
  StateOf(c) /\ FunctorOf(c) /\ OpenOf(c) /\ PendingOf(c) /\ LifeOf(c) /\ SendOf(c)

(* Of the loops and the users.                                             *)

\* What each place of a loop has done with.
PlaceInv ==
  \A l \in Loops :
    /\ at[l] # "events" => active[l] = {}
    /\ at[l] # "run" => batch[l] = <<>> /\ done[l] = {}
    /\ 0 \in active[l] => l = Base

\* How the functors follow each other in a loop.
OrderInv ==
  \A l \in Loops :
    /\ Once(queue[l], unsettled) /\ Once(batch[l], unsettled)
    /\ InOrder(queue[l]) /\ InOrder(batch[l])
    /\ \A c \in Conns :
         /\ c \notin unsettled => \A k \in Kinds \ Raw :
              ~(In(queue[l], <<k, c>>) /\ In(batch[l], <<k, c>>))
         /\ ~(In(batch[l], <<"destroy", c>>) /\ In(queue[l], <<"established", c>>))

\* Callbacks give users connections that were established.
HeldInv == \A u \in Users : held[u] # 0 => state[held[u]] # "Connecting"

IInv == PlaceInv /\ OrderInv /\ HeldInv /\ \A c \in Conns : ConnInv(c)

-----------------------------------------------------------------------------
(***************************************************************************)
(* Queues of functors                                                      *)
(***************************************************************************)
LEMMA InAppend ==
  ASSUME NEW s \in Seq(Functors), NEW g \in Functors, NEW f
  PROVE  In(Append(s, g), f) <=> In(s, f) \/ f = g
BY AppendProperties DEF In

LEMMA InTail ==
  ASSUME NEW s \in Seq(Functors), s # <<>>, NEW f
  PROVE  In(s, f) <=> f = Head(s) \/ In(Tail(s), f)
<1>1. /\ Len(s) \in Nat \ {0} /\ Len(Tail(s)) = Len(s) - 1 /\ Head(s) = s[1]
      /\ \A i \in 1..Len(Tail(s)) : Tail(s)[i] = s[i + 1]
  BY HeadTailProperties, EmptySeq
<1>2. ASSUME NEW i \in 1..Len(s), s[i] = f
      PROVE  f = Head(s) \/ In(Tail(s), f)
  <2>1. CASE i = 1
    BY <1>1, <1>2, <2>1
  <2>2. CASE i # 1
    <3>1. i - 1 \in 1..Len(Tail(s)) /\ Tail(s)[i - 1] = s[(i - 1) + 1] /\ (i - 1) + 1 = i
      BY <1>1, <2>2
    <3> QED BY <1>2, <3>1 DEF In
  <2> QED BY <2>1, <2>2
<1>3. f = Head(s) => In(s, f)
  BY <1>1 DEF In
<1>4. ASSUME NEW i \in 1..Len(Tail(s)), Tail(s)[i] = f
      PROVE  In(s, f)
  <2>1. i + 1 \in 1..Len(s) /\ s[i + 1] = f
    BY <1>1, <1>4
  <2> QED BY <2>1 DEF In
<1> QED BY <1>2, <1>3, <1>4 DEF In

LEMMA InEmpty ==
  ASSUME NEW f
  PROVE  ~In(<<>>, f)
BY DEF In

LEMMA EmptyOrder ==
  ASSUME NEW X
  PROVE  Once(<<>>, X) /\ InOrder(<<>>)
BY DEF Once, InOrder

LEMMA OnceGrows ==
  ASSUME NEW s, NEW X, NEW Y, Once(s, X), X \subseteq Y
  PROVE  Once(s, Y)
BY DEF Once

LEMMA HeadIn ==
  ASSUME NEW s \in Seq(Functors), s # <<>>
  PROVE  In(s, Head(s)) /\ Head(s) \in Functors /\ Tail(s) \in Seq(Functors)
BY InTail, HeadTailProperties

LEMMA AppendOnce ==
  ASSUME NEW s \in Seq(Functors), NEW g \in Functors, NEW X, Once(s, X),
         g[1] \in Raw \/ g[2] \in X \/ ~In(s, g)
  PROVE  Once(Append(s, g), X)
<1> DEFINE t == Append(s, g)
<1>1. /\ Len(s) \in Nat /\ Len(t) = Len(s) + 1 /\ t[Len(s) + 1] = g
      /\ \A i \in 1..Len(s) : t[i] = s[i]
  BY AppendProperties, LenProperties
<1> HIDE DEF t
<1>2. SUFFICES ASSUME NEW i \in 1..Len(t), NEW j \in 1..Len(t),
                      t[i] = t[j], t[i][1] \notin Raw, t[i][2] \notin X
               PROVE  i = j
  BY DEF Once, t
<1>3. CASE i <= Len(s) /\ j <= Len(s)
  <2>1. i \in 1..Len(s) /\ j \in 1..Len(s)
    BY <1>1, <1>3
  <2> QED BY <1>1, <1>2, <2>1 DEF Once
<1>4. CASE i > Len(s) /\ j > Len(s)
  BY <1>1, <1>4
<1>5. CASE i <= Len(s) /\ j > Len(s)
  <2>1. i \in 1..Len(s) /\ t[j] = g
    BY <1>1, <1>5
  <2> QED BY <1>1, <1>2, <2>1 DEF In
<1>6. CASE i > Len(s) /\ j <= Len(s)
  <2>1. j \in 1..Len(s) /\ t[i] = g
    BY <1>1, <1>6
  <2> QED BY <1>1, <1>2, <2>1 DEF In
<1> QED BY <1>1, <1>3, <1>4, <1>5, <1>6

LEMMA AppendInOrder ==
  ASSUME NEW s \in Seq(Functors), NEW g \in Functors, InOrder(s),
         g[1] = "established" => ~In(s, <<"destroy", g[2]>>)
  PROVE  InOrder(Append(s, g))
<1> DEFINE t == Append(s, g)
<1>1. /\ Len(s) \in Nat /\ Len(t) = Len(s) + 1 /\ t[Len(s) + 1] = g
      /\ \A i \in 1..Len(s) : t[i] = s[i]
  BY AppendProperties, LenProperties
<1>2. \A i \in 1..Len(s) : s[i] \in Functors
  BY ElementOfSeq
<1> HIDE DEF t
<1>3. SUFFICES ASSUME NEW i \in 1..Len(t), NEW j \in 1..Len(t),
                      t[i][1] = "destroy", t[j] = <<"established", t[i][2]>>
               PROVE  j < i
  BY DEF InOrder, t
<1>4. i # j
  BY <1>3
<1>5. CASE i <= Len(s) /\ j <= Len(s)
  <2>1. i \in 1..Len(s) /\ j \in 1..Len(s)
    BY <1>1, <1>5
  <2> QED BY <1>1, <1>3, <2>1 DEF InOrder
<1>6. CASE i > Len(s)
  BY <1>1, <1>4, <1>6
<1>7. CASE i <= Len(s) /\ j > Len(s)
  <2>1. i \in 1..Len(s) /\ t[j] = g /\ t[i] = s[i]
    BY <1>1, <1>7
  <2>2. s[i] = <<"destroy", g[2]>>
    BY <1>2, <1>3, <2>1 DEF Functors
  <2> QED BY <1>3, <2>1, <2>2 DEF In
<1> QED BY <1>1, <1>5, <1>6, <1>7

LEMMA TailOrder ==
  ASSUME NEW s \in Seq(Functors), NEW X, s # <<>>, Once(s, X), InOrder(s)
  PROVE  /\ Once(Tail(s), X) /\ InOrder(Tail(s))
         /\ Head(s)[1] \notin Raw /\ Head(s)[2] \notin X => ~In(Tail(s), Head(s))
         /\ Head(s)[1] = "destroy" => ~In(Tail(s), <<"established", Head(s)[2]>>)
<1> DEFINE t == Tail(s)
<1>1. /\ Len(s) \in Nat \ {0} /\ Len(t) = Len(s) - 1 /\ Head(s) = s[1]
      /\ \A i \in 1..Len(t) : t[i] = s[i + 1]
  BY HeadTailProperties, EmptySeq
<1> HIDE DEF t
<1>2. \A i \in 1..Len(t) : i + 1 \in 1..Len(s) /\ i + 1 > 1 /\ i \in Int
  BY <1>1
<1>3. 1 \in 1..Len(s)
  BY <1>1
<1>4. Once(t, X)
  <2>1. ASSUME NEW i \in 1..Len(t), NEW j \in 1..Len(t), t[i] = t[j],
               t[i][1] \notin Raw, t[i][2] \notin X
        PROVE  i = j
    <3>1. i + 1 = j + 1
      BY <1>1, <1>2, <2>1 DEF Once
    <3> QED BY <1>2, <3>1
  <2> QED BY <2>1 DEF Once
<1>5. InOrder(t)
  <2>1. ASSUME NEW i \in 1..Len(t), NEW j \in 1..Len(t),
               t[i][1] = "destroy", t[j] = <<"established", t[i][2]>>
        PROVE  j < i
    <3>1. j + 1 < i + 1
      BY <1>1, <1>2, <2>1 DEF InOrder
    <3> QED BY <1>2, <3>1
  <2> QED BY <2>1 DEF InOrder
<1>6. ASSUME Head(s)[1] \notin Raw, Head(s)[2] \notin X, NEW i \in 1..Len(t), t[i] = Head(s)
      PROVE  FALSE
  <2>1. s[i + 1] = s[1]
    BY <1>1, <1>6
  <2>2. i + 1 = 1
    <3>1. s[1][1] \notin Raw /\ s[1][2] \notin X
      BY <1>1, <1>6
    <3> QED BY <1>2, <1>3, <1>6, <2>1, <3>1 DEF Once
  <2> QED BY <1>2, <2>2
<1>7. ASSUME Head(s)[1] = "destroy", NEW i \in 1..Len(t),
             t[i] = <<"established", Head(s)[2]>>
      PROVE  FALSE
  <2>1. s[i + 1] = <<"established", s[1][2]>> /\ s[1][1] = "destroy"
    BY <1>1, <1>7
  <2>2. i + 1 < 1
    BY <1>2, <1>3, <2>1 DEF InOrder
  <2> QED BY <1>2, <2>2
<1> QED BY <1>4, <1>5, <1>6, <1>7 DEF In, t

-----------------------------------------------------------------------------
(***************************************************************************)
(* Types                                                                   *)
(***************************************************************************)
LEMMA TypesSuffice ==
  ASSUME TInv
  PROVE  TypeOK
<1> USE DEF TInv
<1>1. edge \/ 0 \in active[Base] => backlog > 0
  BY DEF AcceptT
<1>2. backlog \in 0..MaxConns /\ nextConn \in 1..(MaxConns + 1)
  BY BoundAssumption DEF AcceptT
<1> QED BY <1>1, <1>2 DEF TypeOK, AcceptT, PoolT, ConnT, LoopT, UserT

\* What Count does to the three counts of every connection.
LEMMA CountType ==
  ASSUME ConnT, NEW c \in Conns, NEW h \in {"established", "closed", "destroyed"},
         Count(c, h)
  PROVE  /\ ran' \in [Conns -> [established : Nat, closed : Nat, destroyed : Nat]]
         /\ \A d \in Conns : d # c => ran'[d] = ran[d]
         /\ h # "established" => ran'[c].established = ran[c].established
         /\ h # "closed" => ran'[c].closed = ran[c].closed
         /\ h # "destroyed" => ran'[c].destroyed = ran[c].destroyed
         /\ h = "established" => ran'[c].established = ran[c].established + 1
         /\ h = "closed" => ran'[c].closed = ran[c].closed + 1
         /\ h = "destroyed" => ran'[c].destroyed = ran[c].destroyed + 1
<1>1. /\ ran' = [ran EXCEPT ![c][h] = @ + 1]
      /\ ran \in [Conns -> [established : Nat, closed : Nat, destroyed : Nat]]
  BY DEF ConnT, Count
<1>2. /\ ran[c] \in [established : Nat, closed : Nat, destroyed : Nat]
      /\ ran'[c] = [ran[c] EXCEPT ![h] = @ + 1]
      /\ \A d \in Conns : d # c => ran'[d] = ran[d]
  BY <1>1
<1>3. CASE h = "established"
  BY <1>1, <1>2, <1>3
<1>4. CASE h = "closed"
  BY <1>1, <1>2, <1>4
<1>5. CASE h = "destroyed"
  BY <1>1, <1>2, <1>5
<1> QED BY <1>3, <1>4, <1>5

LEMMA Counts ==
  ASSUME ConnT, NEW c \in Conns
  PROVE  /\ ran[c].established \in Nat /\ ran[c].closed \in Nat /\ ran[c].destroyed \in Nat
         /\ state[c] \in States
<1>1. ran[c] \in [established : Nat, closed : Nat, destroyed : Nat]
  BY DEF ConnT
<1> QED BY <1>1 DEF ConnT

LEMMA HandlersType ==
  ASSUME ConnT, NEW c \in Conns, connections' \subseteq Conns,
         ConnectEstablished(c) \/ ConnectDestroyed(c) \/ SendInLoop(c)
  PROVE  ConnT'
<1>1. /\ "Connected" \in States /\ "Disconnected" \in States
      /\ state \in [Conns -> States]
  BY DEF States, ConnT
<1>2. CASE ConnectEstablished(c)
  <2>1. ran' \in [Conns -> [established : Nat, closed : Nat, destroyed : Nat]]
    BY <1>2, CountType DEF ConnectEstablished
  <2>2. state' \in [Conns -> States]
    BY <1>1, <1>2 DEF ConnectEstablished
  <2> QED BY <1>2, <2>1, <2>2 DEF ConnectEstablished, ConnT
<1>3. CASE ConnectDestroyed(c)
  <2>1. ran' \in [Conns -> [established : Nat, closed : Nat, destroyed : Nat]]
    BY <1>3, CountType DEF ConnectDestroyed
  <2>2. state' \in [Conns -> States]
    BY <1>1, <1>3 DEF ConnectDestroyed
  <2> QED BY <1>3, <2>1, <2>2 DEF ConnectDestroyed, ConnT
<1>4. CASE SendInLoop(c)
  <2>1. UNCHANGED <<state, ran>> /\ unsettled' \subseteq Conns
    BY <1>4 DEF SendInLoop, ConnT
  <2> QED BY <1>4, <2>1 DEF SendInLoop, ConnT
<1> QED BY <1>2, <1>3, <1>4

LEMMA LoopsFacts ==
  /\ Base \in Loops
  /\ \A n \in 0..Len(IoLoops) : SubSeq(IoLoops, 1, n) \in Seq(Loops \ {Base})
  /\ \A n \in 0..Len(IoLoops) : Len(SubSeq(IoLoops, 1, n)) = n
<1>1. Base \in Loops
  BY DEF Loops
<1>2. /\ Len(IoLoops) \in Nat
      /\ \A i \in 1..Len(IoLoops) : IoLoops[i] \in Loops \ {Base}
  <2>1. IoLoops \in Seq({IoLoops[i] : i \in 1..Len(IoLoops)} \ {Base})
    BY LoopAssumption
  <2> QED BY <2>1, LenProperties, ElementOfSeq DEF Loops
<1>3. ASSUME NEW n \in 0..Len(IoLoops)
      PROVE  /\ SubSeq(IoLoops, 1, n) \in Seq(Loops \ {Base})
             /\ Len(SubSeq(IoLoops, 1, n)) = n
  <2>1. \A i \in 1..n : IoLoops[i] \in Loops \ {Base}
    BY <1>2, <1>3
  <2>2. n \in Int /\ 1 \in Int /\ (1 <= n => n - 1 + 1 = n) /\ (~(1 <= n) => n = 0)
    BY <1>2, <1>3
  <2> QED BY <2>1, <2>2, SubSeqProperties
<1> QED BY <1>1, <1>3

LEMMA InitTypes ==
  ASSUME Init
  PROVE  TInv
<1>2. AcceptT
  <2>1. ~(0 \in active[Base])
    BY LoopsFacts DEF Init
  <2>2. /\ listening = FALSE /\ edge = FALSE /\ backlog = 0 /\ arrived = 0 /\ nextConn = 1
    BY DEF Init
  <2>3. listening \in BOOLEAN /\ edge \in BOOLEAN /\ ~edge
    BY <2>2
  <2>4. /\ backlog \in Nat /\ arrived \in 0..MaxConns /\ nextConn \in Nat \ {0}
        /\ nextConn - 1 + backlog <= arrived /\ ~(backlog > 0) /\ ~(nextConn > 1)
    BY <2>2, BoundAssumption
  <2> QED BY <2>1, <2>3, <2>4 DEF AcceptT
<1>3. PoolT
  BY LoopsFacts DEF Init, PoolT
<1>4. ConnT /\ UserT
  <2>1. ran \in [Conns -> [established : Nat, closed : Nat, destroyed : Nat]]
    BY DEF Init
  <2>2. "Connecting" \in States
    BY DEF States
  <2>3. \A u \in Users : held[u] = 0 <=> pc[u] = "idle"
    BY DEF Init
  <2> QED BY <2>1, <2>2, <2>3, BoundAssumption DEF Init, ConnT, UserT
<1>5. LoopT
  BY DEF Init, LoopT
<1> QED BY <1>2, <1>3, <1>4, <1>5 DEF TInv

\* The acceptor's part holds on when nothing of it changes.
LEMMA AcceptKept ==
  ASSUME AcceptT, UNCHANGED <<listening, backlog, arrived, edge, nextConn>>,
         0 \in active'[Base] => 0 \in active[Base] /\ at'[Base] = "events",
         Stopped(Base) => at'[Base] = "stopped"
  PROVE  AcceptT'
BY DEF AcceptT, Stopped

LEMMA PoolKept ==
  ASSUME PoolT, UNCHANGED <<poolVars, nextLoop, home, nextConn>>
  PROVE  PoolT'
BY DEF PoolT, poolVars

LEMMA QueueType ==
  ASSUME LoopT, NEW l \in Loops, NEW f \in Functors, QueueInLoop(l, f)
  PROVE  /\ queue' \in [Loops -> Seq(Functors)]
         /\ queue'[l] = Append(queue[l], f)
         /\ \A k \in Loops \ {l} : queue'[k] = queue[k]
BY AppendProperties DEF LoopT, QueueInLoop

\* What RemoveConnection does to the map and the queues.
LEMMA RemovalType ==
  ASSUME LoopT, PoolT, NEW c \in Conns, RemoveConnectionInLoop(c) \/ RemoveConnection(c)
  PROVE  /\ queue' \in [Loops -> Seq(Functors)]
         /\ connections' \subseteq connections
<1>1. home[c] \in Loops /\ Base \in Loops
  BY LoopsFacts DEF PoolT
<1>2. <<"destroy", c>> \in Functors /\ <<"remove", c>> \in Functors
  BY DEF Functors
<1>3. CASE RemoveConnectionInLoop(c)
  BY <1>1, <1>2, <1>3, QueueType DEF RemoveConnectionInLoop
<1>4. CASE home[c] # Base /\ RemoveConnection(c)
  <2>1. QueueInLoop(Base, <<"remove", c>>) /\ UNCHANGED connections
    BY <1>4 DEF RemoveConnection
  <2> QED BY <1>1, <1>2, <2>1, QueueType
<1>5. CASE home[c] = Base /\ RemoveConnection(c)
  BY <1>3, <1>5 DEF RemoveConnection
<1> QED BY <1>3, <1>4, <1>5

\* What NewConnection does: on the base loop, or on the next io loop.
OnBase(c) ==
  /\ loops = <<>>
  /\ ConnectEstablished(c)
  /\ UNCHANGED <<nextLoop, home, queue>>
OnIoLoop(c, l) ==
  /\ home' = [home EXCEPT ![c] = l]
  /\ QueueInLoop(l, <<"established", c>>)
  /\ nextLoop' \in Nat \ {0} /\ (loops # <<>> => nextLoop' <= Len(loops))
  /\ UNCHANGED chanVars

LEMMA NewCases ==
  ASSUME PoolT, NewConnection
  PROVE  /\ nextConn' = nextConn + 1 /\ connections' = connections \cup {nextConn}
         /\ OnBase(nextConn) \/ \E l \in Loops \ {Base} : OnIoLoop(nextConn, l)
<1>1. CASE loops = <<>>
  BY <1>1 DEF NewConnection, OnBase
<1>2. CASE loops # <<>>
  <2>1. Len(loops) \in Nat \ {0} /\ nextLoop \in 1..Len(loops)
    BY <1>2, EmptySeq, LenProperties DEF PoolT
  <2>2. loops[nextLoop] \in Loops \ {Base}
    BY <2>1, ElementOfSeq DEF PoolT
  <2>3. nextLoop' \in Nat \ {0} /\ nextLoop' <= Len(loops)
    BY <1>2, <2>1 DEF NewConnection, GetNextLoop
  <2>4. OnIoLoop(nextConn, loops[nextLoop])
    BY <1>2, <2>3 DEF NewConnection, OnIoLoop
  <2> QED BY <2>2, <2>4 DEF NewConnection
<1> QED BY <1>1, <1>2

LEMMA AcceptTypes ==
  ASSUME TInv, HandleAccept
  PROVE  TInv' /\ nextConn \in Conns
<1> USE DEF TInv
<1>1. /\ at[Base] = "events" /\ 0 \in active[Base] /\ backlog' = backlog - 1
      /\ active' = [active EXCEPT ![Base] = @ \ {0}]
      /\ UNCHANGED <<listening, arrived, edge, loops, at, batch, done, quit, held, pc,
                     calls, late>>
  BY DEF HandleAccept, poolVars, userVars
<1>2. Base \in Loops /\ active'[Base] = active[Base] \ {0}
  BY <1>1, LoopsFacts DEF LoopT
<1>3. nextConn' = nextConn + 1 /\ connections' = connections \cup {nextConn}
  BY NewCases DEF HandleAccept
<1>4. backlog \in Nat /\ backlog > 0 /\ (edge => backlog > 1) /\ listening
  BY <1>1 DEF AcceptT
<1>5. AcceptT'
  BY <1>1, <1>2, <1>3, <1>4 DEF AcceptT
<1>6. nextConn \in Conns
  BY <1>4, BoundAssumption DEF AcceptT, Conns
<1>7. <<"established", nextConn>> \in Functors
  BY <1>6 DEF Functors
<1>8. OnBase(nextConn) \/ \E l \in Loops \ {Base} : OnIoLoop(nextConn, l)
  BY NewCases DEF HandleAccept
<1>9. nextConn' # 1
  BY <1>3 DEF AcceptT
<1>10. PoolT'
  BY <1>1, <1>6, <1>8, <1>9 DEF PoolT, OnBase, OnIoLoop
<1>11. ConnT'
  <2>1. connections' \subseteq Conns
    BY <1>3, <1>6 DEF ConnT
  <2>2. CASE OnBase(nextConn)
    BY <1>6, <2>1, <2>2, HandlersType DEF OnBase
  <2>3. CASE UNCHANGED chanVars
    BY <2>1, <2>3 DEF ConnT, chanVars
  <2> QED BY <1>8, <2>2, <2>3 DEF OnIoLoop
<1>12. queue' \in [Loops -> Seq(Functors)]
  BY <1>7, <1>8, QueueType DEF OnBase, OnIoLoop, LoopT
<1>13. LoopT'
  BY <1>1, <1>12 DEF LoopT
<1>14. UserT'
  BY <1>1 DEF UserT
<1> QED BY <1>5, <1>6, <1>10, <1>11, <1>13, <1>14

\* The functor that a loop takes next.
LEMMA HeadType ==
  ASSUME LoopT, NEW l \in Loops, batch[l] # <<>>
  PROVE  /\ Head(batch[l]) \in Functors /\ Head(batch[l])[2] \in Conns
         /\ Tail(batch[l]) \in Seq(Functors)
<1>1. batch[l] \in Seq(Functors)
  BY DEF LoopT
<1>2. Head(batch[l]) \in Functors /\ Tail(batch[l]) \in Seq(Functors)
  BY <1>1, HeadTailProperties
<1> QED BY <1>2 DEF Functors

LEMMA RunTypes ==
  ASSUME TInv, NEW l \in Loops, RunFunctor(l)
  PROVE  TInv'
<1> USE DEF TInv
<1> DEFINE c == Head(batch[l])[2]
<1>1. /\ batch' = [batch EXCEPT ![l] = Tail(@)] /\ batch[l] # <<>>
      /\ Keep(l, Head(batch[l]))
      /\ UNCHANGED <<listening, backlog, arrived, edge, nextConn, loops, nextLoop,
                     home, at, active, quit, held, pc, calls, late>>
  BY DEF RunFunctor, acceptVars, poolVars, userVars
<1>2. c \in Conns /\ Tail(batch[l]) \in Seq(Functors)
  BY <1>1, HeadType
<1>3. ConnT' /\ queue' \in [Loops -> Seq(Functors)]
  <2>1. CASE /\ ConnectEstablished(c) \/ ConnectDestroyed(c) \/ SendInLoop(c)
             /\ UNCHANGED <<connections, queue>>
    <3>1. connections' \subseteq Conns
      BY <2>1 DEF ConnT
    <3> QED BY <1>2, <2>1, <3>1, HandlersType DEF LoopT
  <2>2. CASE RemoveConnectionInLoop(c) /\ UNCHANGED chanVars
    <3>1. queue' \in [Loops -> Seq(Functors)] /\ connections' \subseteq connections
      BY <1>2, <2>2, RemovalType
    <3> QED BY <2>2, <3>1 DEF ConnT, chanVars
  <2>3. CASE UNCHANGED <<connVars, queue>>
    BY <2>3 DEF connVars, chanVars, ConnT, LoopT
  <2> QED BY <2>1, <2>2, <2>3 DEF RunFunctor
<1>4. AcceptT' /\ PoolT' /\ UserT'
  BY <1>1, AcceptKept, PoolKept DEF UserT, poolVars, AcceptT, Stopped
<1>6. done' \in [Loops -> SUBSET Conns]
  BY <1>1, <1>2 DEF Keep, LoopT
<1>7. LoopT'
  BY <1>1, <1>2, <1>3, <1>6 DEF LoopT
<1> QED BY <1>3, <1>4, <1>7

\* An event of the connection c that does nothing to _connections and the queues.
Event(l, c) == Handling(l, c) /\ UNCHANGED <<connections, queue>>

LEMMA EventCases ==
  ASSUME NEW l, NEW c,
         IgnoreEvent(l, c) \/ HandleMessage(l, c) \/ Shutdown(l, c) \/ DisableWriting(l, c)
  PROVE  /\ Event(l, c) /\ UNCHANGED <<registered, ran, unsettled>>
         /\ UNCHANGED enabled \/ (enabled' = enabled \ {c} /\ c \in unsettled)
         /\ \/ UNCHANGED state
            \/ state[c] = "Connected" /\ state' = [state EXCEPT ![c] = "Disconnecting"]
         /\ \/ UNCHANGED <<held, pc>>
            \/ \E u \in Users : /\ held' = [held EXCEPT ![u] = c]
                                /\ pc' = [pc EXCEPT ![u] = "holds"]
BY DEF IgnoreEvent, HandleMessage, Shutdown, DisableWriting, Event, connVars, chanVars

LEMMA IterationTypes ==
  ASSUME TInv, NEW l \in Loops, LoopStep(l)
  PROVE  TInv'
<1> USE DEF TInv
<1>1. ASSUME EpollWait(l) PROVE TInv'
  <2>1. PICK ready \in SUBSET {c \in enabled : home[c] = l} :
          active' = [active EXCEPT ![l] = ready \cup IF l = Base /\ edge THEN {0} ELSE {}]
    BY <1>1 DEF EpollWait
  <2>2. /\ edge' = (edge /\ l # Base) /\ at[l] = "poll"
        /\ at' = [at EXCEPT ![l] = "events"]
        /\ UNCHANGED <<listening, backlog, arrived, nextConn, loops, nextLoop, home>>
        /\ UNCHANGED connVars /\ UNCHANGED <<queue, batch, done, quit>>
        /\ UNCHANGED userVars
    BY <1>1 DEF EpollWait, poolVars
  <2>3. ready \subseteq Conns /\ 0 \notin ready
    BY BoundAssumption DEF ConnT, Conns
  <2>4. edge' \in BOOLEAN /\ (edge' => edge /\ l # Base)
    BY <2>2 DEF AcceptT
  <2>5. /\ 0 \in active'[Base] =>
             \/ l = Base /\ edge /\ at'[Base] = "events"
             \/ l # Base /\ 0 \in active[Base] /\ at'[Base] = at[Base]
        /\ Stopped(Base)' <=> Stopped(Base)
    BY <2>1, <2>2, <2>3, LoopsFacts DEF LoopT, Stopped
  <2>6. AcceptT'
    BY <2>2, <2>4, <2>5 DEF AcceptT
  <2>7. LoopT'
    BY <2>1, <2>2, <2>3 DEF LoopT
  <2>8. PoolT' /\ ConnT' /\ UserT'
    BY <2>2 DEF PoolT, ConnT, UserT, connVars, chanVars, userVars
  <2> QED BY <2>6, <2>7, <2>8
<1>2. ASSUME AcceptFails PROVE TInv'
  <2>1. /\ active' = [active EXCEPT ![Base] = @ \ {0}]
        /\ UNCHANGED <<listening, backlog, arrived, edge, nextConn, loops, nextLoop, home,
                       at, queue, batch, done, quit, held, pc, calls, late>>
        /\ UNCHANGED connVars
    BY <1>2 DEF AcceptFails, acceptVars, poolVars, userVars
  <2>2. 0 \notin active'[Base]
    BY <2>1, LoopsFacts DEF LoopT
  <2>3. AcceptT'
    BY <2>1, <2>2, AcceptKept DEF Stopped
  <2>4. LoopT'
    BY <2>1 DEF LoopT
  <2> QED BY <2>1, <2>3, <2>4, PoolKept DEF ConnT, UserT, connVars, chanVars, poolVars
<1>3. ASSUME NEW c \in Conns,
             \/ IgnoreEvent(l, c) \/ HandleMessage(l, c) \/ Shutdown(l, c)
             \/ DisableWriting(l, c)
      PROVE  TInv'
  <2>0. Event(l, c)
    BY <1>3, EventCases
  <2>1. /\ active' = [active EXCEPT ![l] = @ \ {c}]
        /\ UNCHANGED <<listening, backlog, arrived, edge, nextConn, loops, nextLoop, home,
                       at, queue, batch, done, quit, calls, late, connections>>
    BY <2>0 DEF Event, Handling, acceptVars, poolVars
  <2>2. 0 \in active'[Base] => 0 \in active[Base] /\ at'[Base] = "events"
    BY <2>1, LoopsFacts DEF LoopT, AcceptT
  <2>3. AcceptT'
    BY <2>1, <2>2, AcceptKept DEF Stopped
  <2>4. LoopT'
    BY <2>1 DEF LoopT
  <2>5. UserT'
    <3>1. c # 0
      BY BoundAssumption DEF Conns
    <3>2. \/ UNCHANGED <<held, pc>>
          \/ \E u \in Users : /\ held' = [held EXCEPT ![u] = c]
                              /\ pc' = [pc EXCEPT ![u] = "holds"]
      BY <1>3, EventCases
    <3> QED BY <2>1, <3>1, <3>2 DEF UserT
  <2>6. ConnT'
    <3>1. UNCHANGED <<connections, registered, ran, unsettled>> /\ enabled' \subseteq enabled
      BY <1>3, <2>1, EventCases
    <3>2. state' \in [Conns -> States]
      <4>1. "Disconnecting" \in States
        BY DEF States
      <4>2. UNCHANGED state \/ state' = [state EXCEPT ![c] = "Disconnecting"]
        BY <1>3, EventCases
      <4> QED BY <4>1, <4>2 DEF ConnT
    <3> QED BY <3>1, <3>2 DEF ConnT
  <2> QED BY <2>1, <2>3, <2>4, <2>5, <2>6, PoolKept DEF poolVars
<1>4. ASSUME NEW c \in Conns, HandleClose(l, c) PROVE TInv'
  <2>1. /\ active' = [active EXCEPT ![l] = @ \ {c}] /\ RemoveConnection(c)
        /\ enabled' = enabled \ {c} /\ state' = [state EXCEPT ![c] = "Disconnected"]
        /\ Count(c, "closed")
        /\ UNCHANGED <<listening, backlog, arrived, edge, nextConn, loops, nextLoop, home,
                       registered, unsettled, at, batch, done, quit, held, pc, calls, late>>
    BY <1>4 DEF HandleClose, Handling, acceptVars, poolVars
  <2>2. 0 \in active'[Base] => 0 \in active[Base] /\ at'[Base] = "events"
    BY <2>1, LoopsFacts DEF LoopT, AcceptT
  <2>3. AcceptT'
    BY <2>1, <2>2, AcceptKept DEF Stopped
  <2>4. queue' \in [Loops -> Seq(Functors)] /\ connections' \subseteq connections
    BY <2>1, RemovalType
  <2>5. LoopT'
    BY <2>1, <2>4 DEF LoopT
  <2>6. ConnT'
    <3>1. ran' \in [Conns -> [established : Nat, closed : Nat, destroyed : Nat]]
      BY <2>1, CountType
    <3>2. state' \in [Conns -> States]
      BY <2>1 DEF ConnT, States
    <3> QED BY <2>1, <2>4, <3>1, <3>2 DEF ConnT
  <2> QED BY <2>1, <2>3, <2>5, <2>6, PoolKept DEF UserT, poolVars
<1>5. ASSUME DoPendingFunctors(l) PROVE TInv'
  <2>1. /\ at[l] = "events" /\ active[l] = {}
        /\ at' = [at EXCEPT ![l] = "run"]
        /\ batch' = [batch EXCEPT ![l] = queue[l]]
        /\ queue' = [queue EXCEPT ![l] = <<>>]
        /\ UNCHANGED <<listening, backlog, arrived, edge, nextConn, loops, nextLoop, home,
                       active, done, quit, held, pc, calls, late>>
        /\ UNCHANGED connVars
    BY <1>5 DEF DoPendingFunctors, acceptVars, poolVars, userVars
  <2>2. /\ 0 \in active'[Base] => 0 \in active[Base] /\ at'[Base] = "events"
        /\ Stopped(Base) => at'[Base] = "stopped"
    BY <2>1, LoopsFacts DEF LoopT, AcceptT, Stopped
  <2>3. AcceptT'
    BY <2>1, <2>2, AcceptKept
  <2>4. queue[l] \in Seq(Functors) /\ <<>> \in Seq(Functors)
    BY DEF LoopT
  <2>5. LoopT'
    BY <2>1, <2>4 DEF LoopT
  <2> QED BY <2>1, <2>3, <2>5, PoolKept DEF ConnT, UserT, connVars, chanVars, poolVars
<1>6. ASSUME EndPendingFunctors(l) PROVE TInv'
  <2>1. /\ at[l] = "run" /\ done' = [done EXCEPT ![l] = {}]
        /\ at' = [at EXCEPT ![l] = IF l \in quit THEN "stopped" ELSE "poll"]
        /\ queue' = queue \/ queue' = [queue EXCEPT ![l] = <<>>]
        /\ UNCHANGED <<listening, backlog, arrived, edge, nextConn, loops, nextLoop, home,
                       connections, state, ran, unsettled, active, batch, quit, held, pc,
                       calls, late>>
    BY <1>6 DEF EndPendingFunctors, acceptVars, poolVars, userVars
  <2>2. /\ 0 \in active'[Base] => 0 \in active[Base] /\ at'[Base] = "events"
        /\ Stopped(Base) => at'[Base] = "stopped"
    BY <2>1, LoopsFacts DEF LoopT, AcceptT, Stopped
  <2>3. AcceptT'
    BY <2>1, <2>2, AcceptKept
  <2>4. <<>> \in Seq(Functors)
    OBVIOUS
  <2>5. LoopT'
    BY <2>1, <2>4 DEF LoopT
  <2>6. enabled' \subseteq registered' /\ registered' \subseteq registered
    BY <1>6 DEF EndPendingFunctors, ConnT
  <2>7. ConnT'
    BY <2>1, <2>6 DEF ConnT
  <2> QED BY <2>1, <2>3, <2>5, <2>7, PoolKept DEF UserT, poolVars
<1> QED BY <1>1, <1>2, <1>3, <1>4, <1>5, <1>6, RunTypes, AcceptTypes DEF LoopStep

LEMMA StepTypes ==
  ASSUME TInv, [Next]_vars
  PROVE  TInv'
<1> USE DEF TInv
<1>1. ASSUME Start PROVE TInv'
  <2>1. PICK n \in 0..Len(IoLoops) : loops' = SubSeq(IoLoops, 1, n)
    BY <1>1 DEF Start, StartPool
  <2>2. /\ ~listening /\ at[Base] = "poll" /\ listening' = TRUE
        /\ UNCHANGED <<backlog, arrived, edge, nextConn, nextLoop, home>>
        /\ UNCHANGED connVars /\ UNCHANGED loopVars /\ UNCHANGED userVars
    BY <1>1 DEF Start
  <2>3. nextConn = 1
    BY <2>2 DEF AcceptT, Stopped
  <2>4. AcceptT'
    <3>1. listening' \in BOOLEAN /\ listening'
      BY <2>2
    <3> QED BY <2>2, <3>1 DEF AcceptT, loopVars
  <2>5. PoolT'
    <3>1. /\ loops' \in Seq(Loops \ {Base}) /\ Len(loops') = n /\ n \in Nat
          /\ (loops' # <<>> => Len(loops') \in Nat \ {0})
      BY <2>1, LoopsFacts, EmptySeq
    <3> QED BY <2>2, <2>3, <3>1 DEF PoolT
  <2> QED BY <2>2, <2>4, <2>5 DEF ConnT, LoopT, UserT, connVars, chanVars, loopVars, userVars
<1>2. ASSUME ClientConnects PROVE TInv'
  <2>1. /\ listening /\ arrived < MaxConns
        /\ arrived' = arrived + 1 /\ backlog' = backlog + 1
        /\ edge' = TRUE
        /\ UNCHANGED <<listening, nextConn, loops, nextLoop, home>>
        /\ UNCHANGED connVars /\ UNCHANGED loopVars /\ UNCHANGED userVars
    BY <1>2 DEF ClientConnects, poolVars
  <2>2. edge' \in BOOLEAN
    BY <2>1
  <2>3. AcceptT'
    BY <2>1, <2>2, BoundAssumption DEF AcceptT, Stopped, loopVars
  <2> QED BY <2>1, <2>3, PoolKept DEF ConnT, LoopT, UserT, connVars, chanVars, loopVars, userVars, poolVars
<1>3. ASSUME QuitBase PROVE TInv'
  <2>1. LoopT'
    BY <1>3, LoopsFacts DEF QuitBase, LoopT
  <2> QED BY <1>3, <2>1, AcceptKept, PoolKept
          DEF QuitBase, ConnT, UserT, acceptVars, connVars, chanVars, userVars, poolVars, Stopped, AcceptT
<1>4. ASSUME NEW c \in Conns, DestroyConnection(c) PROVE TInv'
  <2>1. /\ connections' = connections \ {c}
        /\ UNCHANGED <<listening, backlog, arrived, edge, nextConn, loops, nextLoop, home,
                       at, active, batch, done, quit, held, pc, calls, late>>
    BY <1>4 DEF DestroyConnection, acceptVars, poolVars, userVars
  <2>2. CASE ConnectDestroyed(c) /\ UNCHANGED queue
    <3>1. connections' \subseteq Conns
      BY <2>1 DEF ConnT
    <3>2. ConnT'
      BY <2>2, <3>1, HandlersType
    <3> QED BY <2>1, <2>2, <3>2, AcceptKept, PoolKept
            DEF UserT, LoopT, poolVars, Stopped, AcceptT
  <2>3. CASE QueueInLoop(home[c], <<"destroy", c>>) /\ UNCHANGED chanVars
    <3>1. home[c] \in Loops /\ <<"destroy", c>> \in Functors
      BY DEF PoolT, Functors
    <3>2. queue' \in [Loops -> Seq(Functors)]
      BY <2>3, <3>1, QueueType
    <3>3. ConnT'
      BY <2>1, <2>3 DEF ConnT, chanVars
    <3> QED BY <2>1, <3>2, <3>3, AcceptKept, PoolKept
            DEF UserT, LoopT, poolVars, Stopped, AcceptT
  <2> QED BY <1>4, <2>2, <2>3 DEF DestroyConnection
<1>5. ASSUME NEW i \in 1..Len(loops), QuitIoLoop(i) PROVE TInv'
  <2>1. loops[i] \in Loops
    BY ElementOfSeq DEF PoolT
  <2>2. LoopT'
    BY <1>5, <2>1 DEF QuitIoLoop, LoopT
  <2> QED BY <1>5, <2>2, AcceptKept, PoolKept
          DEF QuitIoLoop, ConnT, UserT, acceptVars, connVars, chanVars, userVars, poolVars, Stopped, AcceptT
<1>6. ASSUME DestroyAcceptor PROVE TInv'
  <2>1. /\ at[Base] = "stopped" /\ listening' = FALSE /\ edge' = FALSE /\ backlog' = 0
        /\ UNCHANGED <<arrived, nextConn, loops, nextLoop, home>>
        /\ UNCHANGED connVars /\ UNCHANGED loopVars /\ UNCHANGED userVars
    BY <1>6 DEF DestroyAcceptor
  <2>2. 0 \notin active[Base]
    BY <2>1 DEF AcceptT
  <2>3. /\ listening' \in BOOLEAN /\ edge' \in BOOLEAN /\ ~edge'
        /\ UNCHANGED <<at, active>>
    BY <2>1 DEF loopVars
  <2>4. AcceptT'
    BY <2>1, <2>2, <2>3 DEF AcceptT, Stopped
  <2> QED BY <2>1, <2>4 DEF PoolT, ConnT, LoopT, UserT, connVars, chanVars, loopVars, userVars
<1>7. ASSUME NEW u \in Users, QueueCall(u) PROVE TInv'
  <2> DEFINE c == held[u]
  <2>0. pc[u] \in {"send", "shutdown"}
    BY <1>7 DEF QueueCall
  <2>1. /\ c \in Conns /\ QueueInLoop(home[c], <<pc[u], c>>)
        /\ late' \in {late, late \cup {c}} /\ pc' = [pc EXCEPT ![u] = "holds"]
        /\ UNCHANGED <<listening, backlog, arrived, edge, nextConn, loops, nextLoop, home,
                       at, active, batch, done, quit, held, calls>>
        /\ UNCHANGED connVars
    BY <1>7 DEF QueueCall, UserT, acceptVars, poolVars
  <2>2. home[c] \in Loops /\ <<pc[u], c>> \in Functors
    BY <2>0, <2>1 DEF PoolT, Functors
  <2>3. queue' \in [Loops -> Seq(Functors)]
    BY <2>1, <2>2, QueueType
  <2>4. UserT'
    BY <2>0, <2>1 DEF UserT
  <2> QED BY <2>1, <2>3, <2>4, AcceptKept, PoolKept
          DEF ConnT, LoopT, connVars, chanVars, poolVars, Stopped, AcceptT
<1>9. ASSUME NEW u \in Users, BeginSend(u) \/ BeginShutdown(u) \/ LetGo(u) PROVE TInv'
  <2>1. /\ UNCHANGED <<listening, backlog, arrived, edge, nextConn, loops, nextLoop, home>>
        /\ UNCHANGED connVars /\ UNCHANGED loopVars
    BY <1>9 DEF BeginSend, BeginShutdown, Begin, LetGo, acceptVars, poolVars
  <2>2. UserT'
    <3>1. CASE LetGo(u)
      BY <3>1 DEF LetGo, UserT
    <3>2. ASSUME NEW call \in {"send", "setState"}, Begin(u, call) PROVE UserT'
      BY <3>2, BoundAssumption DEF Begin, UserT
    <3> QED BY <1>9, <3>1, <3>2 DEF BeginSend, BeginShutdown
  <2> QED BY <2>1, <2>2, AcceptKept, PoolKept
          DEF ConnT, LoopT, connVars, chanVars, poolVars, loopVars, Stopped, AcceptT
<1>10. ASSUME NEW u \in Users, SetDisconnecting(u) PROVE TInv'
  <2>1. /\ pc[u] = "setState" /\ pc' = [pc EXCEPT ![u] = "shutdown"]
        /\ state' = [state EXCEPT ![held[u]] = "Disconnecting"]
        /\ unsettled' \in {unsettled, unsettled \cup {held[u]}}
        /\ UNCHANGED <<listening, backlog, arrived, edge, nextConn, loops, nextLoop, home,
                       connections, enabled, registered, ran, held, calls, late>>
        /\ UNCHANGED loopVars
    BY <1>10 DEF SetDisconnecting, acceptVars, poolVars
  <2>2. UserT' /\ held[u] \in Conns
    BY <2>1 DEF UserT
  <2>3. ConnT'
    <3>1. "Disconnecting" \in States
      BY DEF States
    <3>2. state' \in [Conns -> States] /\ unsettled' \subseteq Conns
      BY <2>1, <2>2, <3>1 DEF ConnT
    <3> QED BY <2>1, <3>2 DEF ConnT
  <2> QED BY <2>1, <2>2, <2>3, AcceptKept, PoolKept
          DEF LoopT, poolVars, loopVars, Stopped, AcceptT
<1>8. ASSUME UNCHANGED vars PROVE TInv'
  BY <1>8 DEF vars, acceptVars, poolVars, connVars, chanVars, loopVars, userVars, AcceptT, PoolT, ConnT,
              LoopT, UserT, Stopped
<1> QED BY <1>1, <1>2, <1>3, <1>4, <1>5, <1>6, <1>7, <1>8, <1>9, <1>10, IterationTypes
        DEF Next, Destructor, UserStep

\* The state of the server keeps its types, and a report of the listening
\* socket always finds a client to accept, whatever clients, loops, users and
\* the destructor do.
THEOREM TypeCorrect == Spec => []TypeOK
<1>1. TInv => TypeOK
  BY TypesSuffice
<1> QED BY <1>1, InitTypes, StepTypes, PTL DEF Spec

-----------------------------------------------------------------------------
(***************************************************************************)
(* Lifetimes                                                               *)
(***************************************************************************)
LEMMA InitInv ==
  ASSUME Init
  PROVE  IInv
<1>1. \A l \in Loops : \A f : ~In(queue[l], f) /\ ~In(batch[l], f)
  BY InEmpty DEF Init
<1>2. \A l \in Loops : \A f : ~Pending(l, f)
  BY <1>1 DEF Pending
<1>3. OrderInv
  BY <1>1, EmptyOrder DEF Init, OrderInv
<1>4. PlaceInv /\ HeldInv
  BY DEF Init, PlaceInv, HeldInv
<1>5. ASSUME NEW c \in Conns
      PROVE  ConnInv(c)
  <2>1. /\ ~(c < nextConn) /\ home[c] = Base /\ state[c] = "Connecting"
        /\ ran[c] = [established |-> 0, closed |-> 0, destroyed |-> 0]
        /\ connections = {} /\ enabled = {} /\ registered = {} /\ unsettled = {}
        /\ \A l \in Loops : active[l] = {}
    BY BoundAssumption DEF Init, Conns
  <2>2. ran[c].established = 0 /\ ran[c].closed = 0 /\ ran[c].destroyed = 0
    BY <2>1
  <2> QED BY <1>1, <1>2, <2>1, <2>2
          DEF ConnInv, StateOf, FunctorOf, OpenOf, PendingOf, LifeOf, SendOf
<1> QED BY <1>3, <1>4, <1>5 DEF IInv

\* What of the connection c a step leaves as it was, as far as ConnInv tells.
Same(c) ==
  /\ (c < nextConn)' <=> c < nextConn
  /\ home'[c] = home[c] /\ ran'[c] = ran[c]
  /\ state'[c] = "Connecting" <=> state[c] = "Connecting"
  /\ (state'[c] = "Disconnected" \/ c \in unsettled')
       <=> (state[c] = "Disconnected" \/ c \in unsettled)
  /\ c \in unsettled => c \in unsettled'
  /\ c \in connections' <=> c \in connections
  /\ c \in registered' <=> c \in registered
  /\ c \in enabled' => c \in enabled
  /\ c \in late => c \in late'
  /\ \A l \in Loops :
       /\ c \in active'[l] => c \in enabled' /\ home[c] = l
       /\ c \in done[l] => c \in done'[l]
       /\ \A k \in Kinds : /\ In(queue'[l], <<k, c>>) <=> In(queue[l], <<k, c>>)
                           /\ In(batch'[l], <<k, c>>) <=> In(batch[l], <<k, c>>)

LEMMA PendingSame ==
  ASSUME PoolT, NEW c \in Conns, Same(c)
  PROVE  /\ home[c] \in Loops /\ home'[c] = home[c]
         /\ \A l \in Loops, k \in Kinds : Pending(l, <<k, c>>)' <=> Pending(l, <<k, c>>)
         /\ \A k \in Kinds : Pending(home[c], <<k, c>>)' <=> Pending(home[c], <<k, c>>)
<1>1. home[c] \in Loops /\ home'[c] = home[c]
  BY DEF PoolT, Same
<1>2. \A l \in Loops, k \in Kinds :
        /\ In(queue'[l], <<k, c>>) <=> In(queue[l], <<k, c>>)
        /\ In(batch'[l], <<k, c>>) <=> In(batch[l], <<k, c>>)
  BY DEF Same
<1>3. \A l \in Loops, k \in Kinds : Pending(l, <<k, c>>)' <=> Pending(l, <<k, c>>)
  BY <1>2 DEF Pending
<1>4. ASSUME NEW k \in Kinds
      PROVE  Pending(home[c], <<k, c>>)' <=> Pending(home[c], <<k, c>>)
  BY <1>1, <1>2 DEF Pending
<1> QED BY <1>1, <1>3, <1>4

\* It keeps its invariant.
LEMMA ConnKept ==
  ASSUME PoolT, NEW c \in Conns, ConnInv(c), Same(c),
         \A l \in Loops : Stopped(l)' <=> Stopped(l)
  PROVE  ConnInv(c)'
<1>1. /\ home[c] \in Loops /\ home'[c] = home[c] /\ Base \in Loops
      /\ \A l \in Loops, k \in Kinds : Pending(l, <<k, c>>)' <=> Pending(l, <<k, c>>)
      /\ \A k \in Kinds : Pending(home[c], <<k, c>>)' <=> Pending(home[c], <<k, c>>)
  BY PendingSame, LoopsFacts
<1>2. Lost(c)' <=> Lost(c)
  <2>1. Stopped(home[c])' <=> Stopped(home[c])
    BY <1>1 DEF Stopped
  <2> QED BY <1>1, <2>1 DEF Lost
<1>3. StateOf(c)'
  BY <1>1, <1>2 DEF ConnInv, StateOf, Same, Kinds
<1>4. FunctorOf(c)'
  BY <1>1 DEF ConnInv, FunctorOf, Same, Kinds
<1>5. OpenOf(c)'
  BY <1>1 DEF ConnInv, OpenOf, Same
<1>6. PendingOf(c)'
  BY <1>1 DEF ConnInv, PendingOf, Same, Kinds, Raw
<1>7. LifeOf(c)'
  <2>1. c \notin unsettled' => c \notin unsettled
    BY DEF Same
  <2> QED BY <1>1, <1>2, <2>1 DEF ConnInv, LifeOf, Same, Kinds
<1>8. SendOf(c)'
  <2>1. ASSUME NEW l \in Loops, NEW k \in Raw, ~Stopped(l)'
        PROVE  /\ In(queue'[l], <<k, c>>) =>
                    c \in late' \/ c \in connections' \/ In(queue'[l], <<"destroy", c>>)
               /\ In(batch'[l], <<k, c>>) =>
                    \/ c \in late' \/ c \in connections' \/ Pending(l, <<"destroy", c>>)'
                    \/ c \in done'[l]
    <3>1. ~Stopped(l) /\ k \in Kinds /\ "destroy" \in Kinds
      BY <2>1 DEF Raw, Kinds
    <3> QED BY <1>1, <2>1, <3>1 DEF ConnInv, SendOf, Same
  <2> QED BY <2>1 DEF SendOf
<1> QED BY <1>3, <1>4, <1>5, <1>6, <1>7, <1>8 DEF ConnInv

\* No batch has gained a functor, or mixed up its order.
Shrunk ==
  /\ unsettled \subseteq unsettled'
  /\ \A m \in Loops :
       /\ Once(batch'[m], unsettled) /\ InOrder(batch'[m])
       /\ \A f : In(batch'[m], f) => In(batch[m], f)

LEMMA ShrunkOrder ==
  ASSUME OrderInv, Shrunk, UNCHANGED queue
  PROVE  OrderInv'
<1>1. \A m \in Loops : /\ Once(queue'[m], unsettled') /\ InOrder(queue'[m])
                       /\ Once(batch'[m], unsettled') /\ InOrder(batch'[m])
  BY OnceGrows DEF OrderInv, Shrunk
<1> QED BY <1>1 DEF OrderInv, Shrunk

LEMMA QueueIn ==
  ASSUME LoopT, NEW l \in Loops, NEW g \in Functors, QueueInLoop(l, g)
  PROVE  \A k \in Loops : \A f : In(queue'[k], f) <=> In(queue[k], f) \/ (k = l /\ f = g)
<1>1. /\ queue'[l] = Append(queue[l], g) /\ queue[l] \in Seq(Functors)
      /\ \A k \in Loops \ {l} : queue'[k] = queue[k]
  BY QueueType DEF LoopT
<1>2. \A f : In(queue'[l], f) <=> In(queue[l], f) \/ f = g
  BY <1>1, InAppend
<1> QED BY <1>1, <1>2

LEMMA AppendOrder ==
  ASSUME LoopT, OrderInv, Shrunk,
         NEW l \in Loops, NEW k \in Kinds, NEW c \in Conns, QueueInLoop(l, <<k, c>>),
         k \in Raw \/ c \in unsettled \/ ~Pending(l, <<k, c>>),
         k = "established" => ~Pending(l, <<"destroy", c>>)
  PROVE  OrderInv'
<1> DEFINE g == <<k, c>>
<1>1. g \in Functors /\ g[1] = k /\ g[2] = c
  BY DEF Functors, Kinds
<1>2. \A m \in Loops : \A f : In(queue'[m], f) <=> In(queue[m], f) \/ (m = l /\ f = g)
  BY <1>1, QueueIn
<1>3. /\ queue'[l] = Append(queue[l], g) /\ queue[l] \in Seq(Functors)
      /\ \A m \in Loops \ {l} : queue'[m] = queue[m]
  BY <1>1, QueueType DEF LoopT
<1>4. g[1] \in Raw \/ g[2] \in unsettled \/ ~In(queue[l], g)
  BY <1>1 DEF Pending
<1>5. g[1] = "established" => ~In(queue[l], <<"destroy", g[2]>>)
  BY <1>1 DEF Pending
<1>6. Once(queue[l], unsettled) /\ InOrder(queue[l])
  BY DEF OrderInv
<1>7. Once(queue'[l], unsettled) /\ InOrder(queue'[l])
  <2> HIDE DEF g
  <2> QED BY <1>1, <1>3, <1>4, <1>5, <1>6, AppendOnce, AppendInOrder
<1>8. \A m \in Loops : /\ Once(queue'[m], unsettled') /\ InOrder(queue'[m])
                       /\ Once(batch'[m], unsettled') /\ InOrder(batch'[m])
  BY <1>3, <1>7, OnceGrows DEF OrderInv, Shrunk
<1>9. ASSUME NEW m \in Loops, NEW d \in Conns, NEW j \in Kinds \ Raw, d \notin unsettled',
             In(queue'[m], <<j, d>>), In(batch'[m], <<j, d>>)
      PROVE  FALSE
  <2>1. In(batch[m], <<j, d>>) /\ d \notin unsettled
    BY <1>9 DEF Shrunk
  <2>2. ~In(queue[m], <<j, d>>)
    BY <2>1 DEF OrderInv
  <2>3. m = l /\ <<j, d>> = g
    BY <1>2, <1>9, <2>2
  <2>4. j = k /\ d = c
    BY <2>3
  <2> QED BY <2>1, <2>3, <2>4 DEF Pending
<1>10. ASSUME NEW m \in Loops, NEW d \in Conns,
              In(batch'[m], <<"destroy", d>>), In(queue'[m], <<"established", d>>)
       PROVE  FALSE
  <2>1. In(batch[m], <<"destroy", d>>)
    BY <1>10 DEF Shrunk
  <2>2. ~In(queue[m], <<"established", d>>)
    BY <2>1 DEF OrderInv
  <2>3. m = l /\ <<"established", d>> = g
    BY <1>2, <1>10, <2>2
  <2>4. k = "established" /\ d = c
    BY <2>3
  <2> QED BY <2>1, <2>3, <2>4 DEF Pending
<1> QED BY <1>8, <1>9, <1>10 DEF OrderInv

\* A step of one connection c leaves the others as they were.
Touched(c) ==
  /\ UNCHANGED <<nextConn, home>>
  /\ \A d \in Conns : d # c =>
       /\ state'[d] = state[d] /\ ran'[d] = ran[d]
       /\ d \in connections' <=> d \in connections
       /\ d \in registered' <=> d \in registered
       /\ d \in enabled' <=> d \in enabled
       /\ d \in unsettled' <=> d \in unsettled
  /\ late \subseteq late'
  /\ \A l \in Loops :
       /\ active'[l] \subseteq active[l] /\ done[l] \subseteq done'[l]
       /\ \A k \in Kinds, d \in Conns : d # c =>
            /\ In(queue'[l], <<k, d>>) <=> In(queue[l], <<k, d>>)
            /\ In(batch'[l], <<k, d>>) <=> In(batch[l], <<k, d>>)

LEMMA TouchInv ==
  ASSUME TInv, IInv, NEW c \in Conns, Touched(c),
         \A l \in Loops : Stopped(l)' <=> Stopped(l),
         PlaceInv', OrderInv', HeldInv', ConnInv(c)'
  PROVE  IInv'
<1>1. ASSUME NEW d \in Conns, d # c
      PROVE  ConnInv(d)'
  <2>1. ConnInv(d)
    BY DEF IInv
  <2>2. \A l \in Loops : d \in active'[l] => d \in enabled' /\ home[d] = l
    BY <1>1, <2>1 DEF Touched, ConnInv, OpenOf
  <2>3. Same(d)
    BY <1>1, <2>2 DEF Touched, Same
  <2> QED BY <2>1, <2>3, ConnKept DEF TInv
<1> QED BY <1>1 DEF IInv

\* Users keep holding connections that were established.
LEMMA HeldKept ==
  ASSUME HeldInv, UNCHANGED held,
         \A c \in Conns : state'[c] = "Connecting" => state[c] = "Connecting",
         UserT
  PROVE  HeldInv'
BY DEF HeldInv, UserT

\* What a step keeps that does not touch the queues, the handlers and the places
\* of the loops.
LEMMA QuietInv ==
  ASSUME TInv, IInv, UNCHANGED <<nextConn, home, at, queue, batch, done, connections, ran>>,
         UNCHANGED registered, late \subseteq late', unsettled \subseteq unsettled',
         enabled' \subseteq enabled,
         \A l \in Loops : active'[l] \subseteq active[l],
         \A l \in Loops, c \in Conns : c \in active'[l] => c \in enabled',
         \A c \in Conns :
           /\ state'[c] = "Connecting" <=> state[c] = "Connecting"
           /\ (state'[c] = "Disconnected" \/ c \in unsettled')
                <=> (state[c] = "Disconnected" \/ c \in unsettled),
         HeldInv'
  PROVE  IInv'
<1>1. PlaceInv'
  BY DEF IInv, PlaceInv
<1>2. OrderInv'
  <2>1. Shrunk
    BY DEF IInv, OrderInv, Shrunk
  <2> QED BY <2>1, ShrunkOrder DEF IInv
<1>3. \A l \in Loops : Stopped(l)' <=> Stopped(l)
  BY DEF Stopped
<1>4. ASSUME NEW c \in Conns
      PROVE  ConnInv(c)'
  <2>1. ConnInv(c)
    BY DEF IInv
  <2>2. \A l \in Loops : c \in active'[l] => c \in enabled' /\ home[c] = l
    BY <2>1 DEF ConnInv, OpenOf
  <2>3. Same(c)
    BY <2>2 DEF Same
  <2> QED BY <1>3, <2>1, <2>3, ConnKept DEF TInv
<1> QED BY <1>1, <1>2, <1>4 DEF IInv

LEMMA PollInv ==
  ASSUME TInv, IInv, NEW l \in Loops, EpollWait(l)
  PROVE  IInv'
<1>1. PICK ready \in SUBSET {c \in enabled : home[c] = l} :
        active' = [active EXCEPT ![l] = ready \cup IF l = Base /\ edge THEN {0} ELSE {}]
  BY DEF EpollWait
<1>2. /\ at[l] = "poll" /\ at' = [at EXCEPT ![l] = "events"]
      /\ UNCHANGED <<nextConn, home, queue, batch, done, held, late>>
      /\ UNCHANGED <<connections, state, enabled, registered, ran, unsettled>>
  BY DEF EpollWait, poolVars, userVars, connVars, chanVars
<1>3. \A k \in Loops : Stopped(k)' <=> Stopped(k)
  BY <1>2 DEF Stopped, TInv, LoopT
<1>4. 0 \notin Conns /\ 0 \notin ready
  BY BoundAssumption DEF Conns, TInv, ConnT
<1>5. \A k \in Loops \ {l} : active'[k] = active[k] /\ at'[k] = at[k]
  BY <1>1, <1>2 DEF TInv, LoopT
<1>6. active'[l] = ready \cup (IF l = Base /\ edge THEN {0} ELSE {}) /\ at'[l] = "events"
  BY <1>1, <1>2 DEF TInv, LoopT
<1>7. PlaceInv'
  BY <1>2, <1>4, <1>5, <1>6 DEF PlaceInv, IInv
<1>8. OrderInv' /\ HeldInv'
  BY <1>2 DEF OrderInv, HeldInv, IInv
<1>9. ASSUME NEW c \in Conns
      PROVE  ConnInv(c)'
  <2>1. ConnInv(c)
    BY DEF IInv
  <2>2. \A k \in Loops : c \in active'[k] => c \in enabled' /\ home[c] = k
    BY <1>2, <1>4, <1>5, <1>6, <2>1 DEF ConnInv, OpenOf
  <2>3. Same(c)
    BY <1>2, <2>2 DEF Same
  <2> QED BY <1>3, <2>1, <2>3, ConnKept DEF TInv
<1> QED BY <1>7, <1>8, <1>9 DEF IInv

LEMMA TakeInv ==
  ASSUME TInv, IInv, NEW l \in Loops, DoPendingFunctors(l)
  PROVE  IInv'
<1>1. /\ at[l] = "events" /\ active[l] = {}
      /\ at' = [at EXCEPT ![l] = "run"]
      /\ batch' = [batch EXCEPT ![l] = queue[l]]
      /\ queue' = [queue EXCEPT ![l] = <<>>]
      /\ UNCHANGED <<nextConn, home, active, done, held, late>>
      /\ UNCHANGED <<connections, state, enabled, registered, ran, unsettled>>
  BY DEF DoPendingFunctors, acceptVars, userVars, connVars, chanVars
<1>2. /\ batch[l] = <<>> /\ batch'[l] = queue[l] /\ queue'[l] = <<>> /\ at'[l] = "run"
      /\ \A k \in Loops \ {l} :
           batch'[k] = batch[k] /\ queue'[k] = queue[k] /\ at'[k] = at[k]
  BY <1>1 DEF TInv, LoopT, PlaceInv, IInv
<1>3. \A f : In(batch'[l], f) <=> In(queue[l], f)
  BY <1>2
<1>4. \A f : ~In(queue'[l], f) /\ ~In(batch[l], f)
  BY <1>2, InEmpty
<1>5. \A k \in Loops : \A f : Pending(k, f)' <=> Pending(k, f)
  BY <1>2, <1>3, <1>4 DEF Pending
<1>6. \A k \in Loops : Stopped(k)' <=> Stopped(k)
  BY <1>1, <1>2 DEF Stopped
<1>7. PlaceInv' /\ HeldInv'
  BY <1>1, <1>2 DEF PlaceInv, HeldInv, IInv
<1>8. OrderInv'
  BY <1>1, <1>2, <1>4, EmptyOrder DEF OrderInv, IInv
<1>9. ASSUME NEW c \in Conns
      PROVE  ConnInv(c)'
  <2>1. ConnInv(c)
    BY DEF IInv
  <2>2. /\ home[c] \in Loops /\ Base \in Loops
        /\ Lost(c)' <=> Lost(c)
        /\ \A f : Pending(home[c], f)' <=> Pending(home[c], f)
    <3>1. home[c] \in Loops /\ Base \in Loops /\ home' = home
      BY <1>1, LoopsFacts DEF TInv, PoolT
    <3>2. Stopped(home[c])' <=> Stopped(home[c])
      BY <1>6, <3>1 DEF Stopped
    <3>3. \A f : Pending(home[c], f)' <=> Pending(home[c], f)
      BY <1>5, <3>1 DEF Pending
    <3> QED BY <3>1, <3>2, <3>3 DEF Lost
  <2>3. StateOf(c)' /\ FunctorOf(c)' /\ OpenOf(c)' /\ LifeOf(c)'
    BY <1>1, <1>5, <2>1, <2>2 DEF ConnInv, StateOf, FunctorOf, OpenOf, LifeOf
  <2>4. PendingOf(c)'
    BY <1>1, <1>5, <1>6, <2>1, <2>2 DEF ConnInv, PendingOf
  <2>5. ASSUME NEW k \in Loops, NEW j \in Raw, ~Stopped(k)', In(queue'[k], <<j, c>>)
        PROVE  c \in late' \/ c \in connections' \/ In(queue'[k], <<"destroy", c>>)
    <3>1. k # l
      BY <1>4, <2>5
    <3> QED BY <1>1, <1>2, <1>6, <2>1, <2>5, <3>1 DEF ConnInv, SendOf
  <2>6. ASSUME NEW k \in Loops, NEW j \in Raw, ~Stopped(k)', In(batch'[k], <<j, c>>)
        PROVE  c \in late' \/ c \in connections' \/ Pending(k, <<"destroy", c>>)'
               \/ c \in done'[k]
    <3>1. CASE k # l
      BY <1>1, <1>2, <1>5, <1>6, <2>1, <2>6, <3>1 DEF ConnInv, SendOf
    <3>2. CASE k = l
      <4>1. In(queue[k], <<j, c>>)
        BY <1>3, <2>6, <3>2
      <4>2. c \in late \/ c \in connections \/ In(queue[k], <<"destroy", c>>)
        BY <1>6, <2>1, <2>6, <4>1 DEF ConnInv, SendOf
      <4> QED BY <1>1, <1>5, <4>2 DEF Pending
    <3> QED BY <3>1, <3>2
  <2> QED BY <2>3, <2>4, <2>5, <2>6 DEF ConnInv, SendOf
<1> QED BY <1>7, <1>8, <1>9 DEF IInv


\* A number that is not in use.
LEMMA FreshFacts ==
  ASSUME TInv, IInv, NEW n \in Conns, ~(n < nextConn)
  PROVE  /\ home[n] = Base /\ state[n] = "Connecting"
         /\ ran[n].established = 0 /\ ran[n].closed = 0 /\ ran[n].destroyed = 0
         /\ n \notin connections /\ n \notin registered /\ n \notin enabled
         /\ n \notin unsettled
         /\ \A l \in Loops : n \notin active[l]
         /\ \A l \in Loops, k \in Kinds : /\ ~Pending(l, <<k, n>>)
                                          /\ ~In(queue[l], <<k, n>>)
                                          /\ ~In(batch[l], <<k, n>>)
<1>1. ConnInv(n)
  BY DEF IInv
<1>2. /\ home[n] = Base /\ state[n] = "Connecting" /\ n \notin connections
      /\ ran[n].established = 0 /\ ran[n].closed = 0 /\ ran[n].destroyed = 0
      /\ n \notin registered
  BY <1>1 DEF ConnInv, StateOf
<1>3. n \notin unsettled
  BY <1>1, <1>2 DEF ConnInv, StateOf
<1>4. n \notin enabled
  BY <1>2 DEF TInv, ConnT
<1>5. \A l \in Loops, k \in Kinds : ~Pending(l, <<k, n>>)
  BY <1>1 DEF ConnInv, FunctorOf
<1> QED BY <1>1, <1>2, <1>3, <1>4, <1>5 DEF ConnInv, OpenOf, Pending

LEMMA BaseConnectionInv ==
  ASSUME TInv, IInv, HandleAccept, OnBase(nextConn)
  PROVE  IInv'
<1>0. PICK n \in Conns : n = nextConn
  BY AcceptTypes
<1>1. n \in Conns /\ n \in Nat \ {0}
  BY <1>0 DEF TInv, AcceptT
<1>2. /\ nextConn' = n + 1 /\ connections' = connections \cup {n}
      /\ ConnectEstablished(n)
      /\ UNCHANGED <<home, queue, at, batch, done, held, late>>
      /\ active' = [active EXCEPT ![Base] = @ \ {0}]
  BY <1>0, NewCases DEF HandleAccept, OnBase, TInv, userVars
<1>3. /\ enabled' = enabled \cup {n} /\ registered' = registered \cup {n}
      /\ unsettled' = unsettled /\ state' = [state EXCEPT ![n] = "Connected"]
      /\ state'[n] = "Connected"
      /\ \A c \in Conns : c # n => state'[c] = state[c]
  BY <1>1, <1>2 DEF ConnectEstablished, TInv, ConnT
<1>4. /\ ran'[n].established = ran[n].established + 1
      /\ ran'[n].closed = ran[n].closed /\ ran'[n].destroyed = ran[n].destroyed
      /\ \A c \in Conns : c # n => ran'[c] = ran[c]
  BY <1>1, <1>2, CountType DEF ConnectEstablished, TInv
<1>5. \A l \in Loops : active'[l] \subseteq active[l]
  BY <1>2 DEF TInv, LoopT
<1>6. /\ \A c \in Conns : c # n => ((c < nextConn)' <=> c < nextConn)
      /\ n < nextConn' /\ ~(n < nextConn)
  BY <1>0, <1>1, <1>2 DEF Conns
<1>7. /\ home[n] = Base /\ n \notin registered
      /\ ran[n].established = 0 /\ ran[n].closed = 0 /\ ran[n].destroyed = 0
      /\ n \notin unsettled
      /\ \A l \in Loops : n \notin active[l]
      /\ \A l \in Loops, k \in Kinds : /\ ~Pending(l, <<k, n>>)
                                       /\ ~In(queue[l], <<k, n>>)
                                       /\ ~In(batch[l], <<k, n>>)
  BY <1>1, <1>6, FreshFacts
<1>8. PlaceInv' /\ OrderInv'
  BY <1>2, <1>3, <1>5 DEF PlaceInv, OrderInv, IInv
<1>9. HeldInv'
  BY <1>1, <1>2, <1>3, HeldKept DEF IInv, TInv
<1>10. \A l \in Loops : Stopped(l)' <=> Stopped(l)
  BY <1>2 DEF Stopped
<1>11. ASSUME NEW c \in Conns, c # n
       PROVE  ConnInv(c)'
  <2>1. ConnInv(c)
    BY DEF IInv
  <2>2. \A l \in Loops : c \in active'[l] => c \in enabled' /\ home[c] = l
    BY <1>3, <1>5, <2>1 DEF ConnInv, OpenOf
  <2>3. Same(c)
    BY <1>2, <1>3, <1>4, <1>6, <1>11, <2>2 DEF Same
  <2> QED BY <1>10, <2>1, <2>3, ConnKept DEF TInv
<1>12. ConnInv(n)'
  <2>1. \A l \in Loops, k \in Kinds : /\ ~Pending(l, <<k, n>>)'
                                      /\ ~In(queue'[l], <<k, n>>) /\ ~In(batch'[l], <<k, n>>)
    BY <1>2, <1>7 DEF Pending
  <2>2. n \in connections' /\ home'[n] = Base /\ \A l \in Loops : n \notin active'[l]
    BY <1>2, <1>5, <1>7
  <2>3. StateOf(n)' /\ OpenOf(n)' /\ LifeOf(n)'
    <3>1. ran'[n].established = 1
      BY <1>4, <1>7
    <3> QED BY <1>3, <1>4, <1>6, <1>7, <2>2, <3>1 DEF StateOf, OpenOf, LifeOf, Lost
  <2>4. FunctorOf(n)' /\ PendingOf(n)' /\ SendOf(n)'
    BY <2>1 DEF FunctorOf, PendingOf, SendOf, Kinds, Raw
  <2> QED BY <2>3, <2>4 DEF ConnInv
<1> QED BY <1>8, <1>9, <1>11, <1>12 DEF IInv

LEMMA IoConnectionInv ==
  ASSUME TInv, IInv, HandleAccept, NEW m \in Loops \ {Base}, OnIoLoop(nextConn, m)
  PROVE  IInv'
<1>0. PICK n \in Conns : n = nextConn
  BY AcceptTypes
<1>1. n \in Conns /\ n \in Nat \ {0} /\ "established" \in Kinds /\ "destroy" \in Kinds
  BY <1>0 DEF TInv, AcceptT, Kinds
<1>2. /\ nextConn' = n + 1 /\ connections' = connections \cup {n}
      /\ home' = [home EXCEPT ![n] = m]
      /\ QueueInLoop(m, <<"established", n>>)
      /\ UNCHANGED <<at, batch, done, held, late>>
      /\ UNCHANGED <<state, enabled, registered, ran, unsettled>>
      /\ active' = [active EXCEPT ![Base] = @ \ {0}]
  BY <1>0, NewCases DEF HandleAccept, OnIoLoop, TInv, userVars, chanVars
<1>3. \A l \in Loops : active'[l] \subseteq active[l]
  BY <1>2 DEF TInv, LoopT
<1>4. /\ home'[n] = m
      /\ \A c \in Conns : c # n => home'[c] = home[c]
  BY <1>1, <1>2 DEF TInv, PoolT
<1>5. \A l \in Loops, k \in Kinds, c \in Conns :
        In(queue'[l], <<k, c>>) <=>
          In(queue[l], <<k, c>>) \/ (l = m /\ k = "established" /\ c = n)
  <2>1. <<"established", n>> \in Functors
    BY <1>1 DEF Functors
  <2>2. \A l \in Loops : \A f :
          In(queue'[l], f) <=> In(queue[l], f) \/ (l = m /\ f = <<"established", n>>)
    BY <1>2, <2>1, QueueIn DEF TInv
  <2> QED BY <2>2
<1>6. /\ \A c \in Conns : c # n => ((c < nextConn)' <=> c < nextConn)
      /\ n < nextConn' /\ ~(n < nextConn)
  BY <1>0, <1>1, <1>2 DEF Conns
<1>7. /\ state[n] = "Connecting" /\ n \notin registered /\ n \notin enabled
      /\ ran[n].established = 0 /\ ran[n].closed = 0 /\ ran[n].destroyed = 0
      /\ n \notin unsettled
      /\ \A l \in Loops : n \notin active[l]
      /\ \A l \in Loops, k \in Kinds : /\ ~Pending(l, <<k, n>>)
                                       /\ ~In(queue[l], <<k, n>>)
                                       /\ ~In(batch[l], <<k, n>>)
  BY <1>1, <1>6, FreshFacts
<1>8. PlaceInv' /\ HeldInv'
  BY <1>2, <1>3 DEF PlaceInv, HeldInv, IInv
<1>9. OrderInv'
  <2>1. Shrunk
    BY <1>2 DEF Shrunk, OrderInv, IInv
  <2> QED BY <1>1, <1>2, <1>7, <2>1, AppendOrder DEF TInv, IInv
<1>10. \A l \in Loops : Stopped(l)' <=> Stopped(l)
  BY <1>2 DEF Stopped
<1>11. ASSUME NEW c \in Conns, c # n
       PROVE  ConnInv(c)'
  <2>1. ConnInv(c)
    BY DEF IInv
  <2>2. \A l \in Loops : c \in active'[l] => c \in enabled' /\ home[c] = l
    BY <1>2, <1>3, <2>1 DEF ConnInv, OpenOf
  <2>3. Same(c)
    BY <1>2, <1>4, <1>5, <1>6, <1>11, <2>2 DEF Same
  <2> QED BY <1>10, <2>1, <2>3, ConnKept DEF TInv
<1>12. ConnInv(n)'
  <2>1. \A l \in Loops, k \in Kinds :
          /\ Pending(l, <<k, n>>)' <=> l = m /\ k = "established"
          /\ In(queue'[l], <<k, n>>) => k = "established"
          /\ ~In(batch'[l], <<k, n>>)
    BY <1>1, <1>2, <1>5, <1>7 DEF Pending
  <2>2. n \in connections' /\ \A l \in Loops : n \notin active'[l]
    BY <1>2, <1>3, <1>7
  <2>3. Pending(home[n], <<"established", n>>)'
    BY <1>1, <1>4, <2>1 DEF Pending
  <2>4. StateOf(n)' /\ OpenOf(n)' /\ LifeOf(n)'
    BY <1>2, <1>6, <1>7, <2>2, <2>3 DEF StateOf, OpenOf, LifeOf
  <2>5. FunctorOf(n)' /\ PendingOf(n)' /\ SendOf(n)'
    BY <1>2, <1>4, <1>6, <1>7, <2>1 DEF FunctorOf, PendingOf, SendOf, Kinds, Raw
  <2> QED BY <2>4, <2>5 DEF ConnInv
<1> QED BY <1>8, <1>9, <1>11, <1>12 DEF IInv

\* What is known of a connection that a loop handles an event of.
LEMMA OpenFacts ==
  ASSUME TInv, IInv, NEW l \in Loops, NEW c \in Conns, c \in active[l]
  PROVE  /\ home[c] = l /\ c \in registered /\ c \in enabled /\ c < nextConn
         /\ at[l] = "events" /\ state[c] # "Connecting"
         /\ c \notin unsettled => ran[c].closed = 0 /\ ran[c].destroyed = 0
         /\ c \notin unsettled => c \in connections \/ (Stopped(Base) /\ l # Base)
<1>1. ConnInv(c) /\ at[l] = "events"
  BY DEF IInv, PlaceInv
<1>2. home[c] = l /\ c \in enabled /\ c \in registered
  BY <1>1 DEF ConnInv, OpenOf, TInv, ConnT
<1>3. state[c] # "Connecting" /\ c < nextConn
  BY <1>1, <1>2 DEF ConnInv, StateOf
<1>4. ran[c].destroyed \in Nat
  BY Counts DEF TInv
<1>5. ASSUME c \notin unsettled
      PROVE  /\ ran[c].closed = 0 /\ ran[c].destroyed = 0
             /\ c \in connections \/ (Stopped(Base) /\ l # Base)
  <2>1. ran[c].closed = 0
    BY <1>1, <1>2, <1>5 DEF ConnInv, OpenOf
  <2>2. ran[c].destroyed = 0
    BY <1>1, <1>2, <1>4, <1>5 DEF ConnInv, LifeOf
  <2>3. c \in connections \/ Pending(l, <<"destroy", c>>)
    BY <1>1, <1>2, <1>3, <2>2 DEF ConnInv, LifeOf, Lost, Stopped
  <2>4. Pending(l, <<"destroy", c>>) => Stopped(Base)
    BY <1>1, <2>1 DEF ConnInv, PendingOf
  <2> QED BY <1>1, <2>1, <2>2, <2>3, <2>4 DEF Stopped
<1> QED BY <1>1, <1>2, <1>3, <1>5

\* A close: on the base loop the connection is erased and its ConnectDestroyed
\* queued at once, an io loop tells the base loop.
CloseFunctor(c) == IF home[c] = Base THEN "destroy" ELSE "remove"

LEMMA CloseFacts ==
  ASSUME TInv, IInv, NEW l \in Loops, NEW c \in Conns, HandleClose(l, c)
  PROVE  /\ c \in active[l] /\ active' = [active EXCEPT ![l] = @ \ {c}]
         /\ QueueInLoop(Base, <<CloseFunctor(c), c>>)
         /\ connections' = IF home[c] = Base THEN connections \ {c} ELSE connections
         /\ state'[c] = "Disconnected" /\ enabled' = enabled \ {c}
         /\ ran'[c].closed = ran[c].closed + 1
         /\ ran'[c].established = ran[c].established
         /\ ran'[c].destroyed = ran[c].destroyed
         /\ \A d \in Conns : d # c => state'[d] = state[d] /\ ran'[d] = ran[d]
         /\ UNCHANGED <<nextConn, home, at, batch, done, held, late, registered, unsettled>>
<1>1. /\ active' = [active EXCEPT ![l] = @ \ {c}] /\ c \in active[l]
      /\ state' = [state EXCEPT ![c] = "Disconnected"]
      /\ enabled' = enabled \ {c} /\ Count(c, "closed") /\ RemoveConnection(c)
      /\ UNCHANGED <<nextConn, home, at, batch, done, held, late, registered, unsettled>>
  BY DEF HandleClose, Handling, acceptVars
<1>2. /\ QueueInLoop(Base, <<CloseFunctor(c), c>>)
      /\ connections' = IF home[c] = Base THEN connections \ {c} ELSE connections
  BY <1>1 DEF RemoveConnection, RemoveConnectionInLoop, CloseFunctor
<1>3. /\ ran'[c].closed = ran[c].closed + 1 /\ ran'[c].established = ran[c].established
      /\ ran'[c].destroyed = ran[c].destroyed
      /\ \A d \in Conns : d # c => ran'[d] = ran[d]
  BY <1>1, CountType DEF TInv
<1>4. state'[c] = "Disconnected" /\ \A d \in Conns : d # c => state'[d] = state[d]
  BY <1>1 DEF TInv, ConnT
<1> QED BY <1>1, <1>2, <1>3, <1>4

LEMMA CloseInv ==
  ASSUME TInv, IInv, NEW l \in Loops, NEW c \in Conns, HandleClose(l, c)
  PROVE  IInv'
<1> DEFINE k == CloseFunctor(c)
<1>1. /\ c \in active[l] /\ active' = [active EXCEPT ![l] = @ \ {c}]
      /\ QueueInLoop(Base, <<k, c>>)
      /\ connections' = IF home[c] = Base THEN connections \ {c} ELSE connections
      /\ state'[c] = "Disconnected" /\ enabled' = enabled \ {c}
      /\ ran'[c].closed = ran[c].closed + 1
      /\ ran'[c].established = ran[c].established /\ ran'[c].destroyed = ran[c].destroyed
      /\ \A d \in Conns : d # c => state'[d] = state[d] /\ ran'[d] = ran[d]
      /\ UNCHANGED <<nextConn, home, at, batch, done, held, late, registered, unsettled>>
  BY CloseFacts
<1>2. /\ k \in {"destroy", "remove"} /\ k = (IF home[c] = Base THEN "destroy" ELSE "remove")
      /\ k \in Kinds
  BY DEF CloseFunctor, Kinds
<1> HIDE DEF k
<1>3. /\ home[c] = l /\ c \in registered /\ c < nextConn /\ at[l] = "events"
      /\ state[c] # "Connecting"
      /\ c \notin unsettled => ran[c].closed = 0 /\ ran[c].destroyed = 0
      /\ c \notin unsettled => c \in connections \/ (Stopped(Base) /\ l # Base)
  BY <1>1, OpenFacts
<1>4. ConnInv(c) /\ Base \in Loops /\ ran[c].closed \in Nat
  BY LoopsFacts, Counts DEF IInv, TInv
<1>5. \A m \in Loops, j \in Kinds, d \in Conns :
        In(queue'[m], <<j, d>>) <=> In(queue[m], <<j, d>>) \/ (m = Base /\ j = k /\ d = c)
  <2>1. <<k, c>> \in Functors
    BY <1>2 DEF Functors
  <2>2. \A m \in Loops : \A f :
          In(queue'[m], f) <=> In(queue[m], f) \/ (m = Base /\ f = <<k, c>>)
    BY <1>1, <1>4, <2>1, QueueIn DEF TInv
  <2> QED BY <2>2
<1>6. \A m \in Loops, j \in Kinds :
        Pending(m, <<j, c>>)' <=> Pending(m, <<j, c>>) \/ (m = Base /\ j = k)
  BY <1>1, <1>5 DEF Pending
<1>7. \A m \in Loops : Stopped(m)' <=> Stopped(m)
  BY <1>1 DEF Stopped
<1>8. \A m \in Loops : active'[m] \subseteq active[m] /\ c \notin active'[m]
  <2>1. \A m \in Loops : active'[m] \subseteq active[m]
    BY <1>1 DEF TInv, LoopT
  <2>2. \A m \in Loops : c \in active[m] => m = l
    BY <1>3, <1>4 DEF ConnInv, OpenOf
  <2>3. c \notin active'[l]
    BY <1>1 DEF TInv, LoopT
  <2> QED BY <2>1, <2>2, <2>3
<1>9. Touched(c)
  <2>1. \A d \in Conns : d # c => d \in connections' <=> d \in connections
    BY <1>1
  <2> QED BY <1>1, <1>5, <1>8, <2>1 DEF Touched
<1>10. PlaceInv'
  BY <1>1, <1>8 DEF PlaceInv, IInv
<1>11. HeldInv'
  BY <1>1, HeldKept DEF IInv, TInv
<1>12. OrderInv'
  <2>1. Shrunk
    BY <1>1 DEF Shrunk, OrderInv, IInv
  <2>2. c \in unsettled \/ ~Pending(Base, <<k, c>>)
    <3>1. ASSUME c \notin unsettled, Pending(Base, <<k, c>>)
          PROVE  FALSE
      <4>1. CASE k = "remove"
        BY <1>3, <1>4, <3>1, <4>1 DEF ConnInv, PendingOf
      <4>2. CASE k = "destroy"
        BY <1>2, <1>3, <1>4, <3>1, <4>2 DEF ConnInv, PendingOf, Stopped
      <4> QED BY <1>2, <4>1, <4>2
    <3> QED BY <3>1
  <2> QED BY <1>1, <1>2, <1>4, <2>1, <2>2, AppendOrder DEF TInv, IInv
<1>13. ran'[c].closed > 0
  BY <1>1, <1>4
<1>14. StateOf(c)'
  BY <1>1, <1>3, <1>4, <1>13 DEF ConnInv, StateOf
<1>15. FunctorOf(c)'
  BY <1>1, <1>2, <1>3, <1>4, <1>6 DEF ConnInv, FunctorOf, Kinds
<1>16. OpenOf(c)'
  BY <1>1, <1>8 DEF OpenOf
<1>17. PendingOf(c)'
  <2>1. ASSUME NEW m \in Loops
        PROVE  /\ ~Pending(m, <<"established", c>>)'
               /\ Pending(m, <<"destroy", c>>)' =>
                    c \notin connections' /\ (ran'[c].destroyed = 0 \/ c \in unsettled')
               /\ Pending(m, <<"remove", c>>)' =>
                    c \in connections' \/ Stopped(Base)' \/ c \in unsettled'
    <3>1. ~Pending(m, <<"established", c>>)'
      BY <1>2, <1>3, <1>4, <1>6 DEF ConnInv, PendingOf, Kinds
    <3>2. Pending(m, <<"destroy", c>>)' =>
            c \notin connections' /\ (ran'[c].destroyed = 0 \/ c \in unsettled')
      BY <1>1, <1>2, <1>3, <1>4, <1>6 DEF ConnInv, PendingOf, Kinds
    <3>3. ASSUME Pending(m, <<"remove", c>>)', c \notin unsettled
          PROVE  c \in connections' \/ Stopped(Base)'
      <4>1. ~Pending(m, <<"remove", c>>)
        BY <1>3, <1>4, <3>3 DEF ConnInv, PendingOf
      <4>2. k = "remove"
        BY <1>6, <3>3, <4>1 DEF Kinds
      <4> QED BY <1>1, <1>2, <1>3, <1>4, <1>7, <3>3, <4>2
    <3> QED BY <1>1, <3>1, <3>2, <3>3
  <2> QED BY <1>1, <1>13, <2>1 DEF PendingOf
<1>18. LifeOf(c)'
  <2>1. Lost(c)' <=> Lost(c)
    BY <1>1, <1>3, <1>7 DEF Lost, Stopped
  <2>2. Pending(home[c], <<"destroy", c>>) => Pending(home[c], <<"destroy", c>>)'
    BY <1>1, <1>3, <1>5 DEF Pending, Kinds
  <2>3. CASE home[c] = Base
    <3>1. Pending(home[c], <<"destroy", c>>)'
      BY <1>1, <1>2, <1>4, <1>5, <2>3 DEF Pending
    <3> QED BY <1>1, <1>3, <1>4, <2>1, <2>3, <3>1 DEF ConnInv, LifeOf
  <2>4. CASE home[c] # Base
    <3>1. Pending(Base, <<"remove", c>>)'
      BY <1>2, <1>4, <1>6, <2>4
    <3> QED BY <1>1, <1>3, <1>4, <2>1, <2>2, <2>4, <3>1 DEF ConnInv, LifeOf
  <2> QED BY <2>3, <2>4
<1>19. SendOf(c)'
  <2>1. ASSUME NEW m \in Loops, NEW j \in Raw, ~Stopped(m)'
        PROVE  /\ In(queue'[m], <<j, c>>) =>
                    c \in late' \/ c \in connections' \/ In(queue'[m], <<"destroy", c>>)
               /\ In(batch'[m], <<j, c>>) =>
                    \/ c \in late' \/ c \in connections' \/ Pending(m, <<"destroy", c>>)'
                    \/ c \in done'[m]
    <3>1. j \in Kinds /\ j # k /\ j # "remove" /\ "destroy" \in Kinds
      BY <1>2 DEF Raw, Kinds
    <3>2. In(queue'[m], <<j, c>>) => In(queue[m], <<j, c>>)
      BY <1>5, <3>1
    <3>3. In(queue[m], <<j, c>>) \/ In(batch[m], <<j, c>>) => m = l
      BY <1>3, <1>4, <3>1 DEF ConnInv, FunctorOf, Pending
    <3>4. CASE home[c] = Base
      <4>1. In(queue'[Base], <<"destroy", c>>) /\ l = Base
        BY <1>2, <1>3, <1>4, <1>5, <3>1, <3>4
      <4> QED BY <1>1, <3>2, <3>3, <4>1 DEF Pending
    <3>5. CASE home[c] # Base
      BY <1>1, <1>2, <1>4, <1>5, <1>6, <1>7, <2>1, <3>1, <3>2, <3>5 DEF ConnInv, SendOf
    <3> QED BY <3>4, <3>5
  <2> QED BY <2>1 DEF SendOf
<1>20. ConnInv(c)'
  BY <1>14, <1>15, <1>16, <1>17, <1>18, <1>19 DEF ConnInv
<1> QED BY <1>7, <1>9, <1>10, <1>11, <1>12, <1>20, TouchInv

-----------------------------------------------------------------------------
(* The functors.                                                           *)

\* What every run of a functor f of the loop l does to the loops.
Runs(l, f) ==
  /\ at[l] = "run" /\ batch[l] # <<>> /\ f = Head(batch[l])
  /\ batch' = [batch EXCEPT ![l] = Tail(@)]
  /\ Keep(l, f)
  /\ UNCHANGED <<nextConn, home, at, active, held, late>>
  /\ unsettled \subseteq unsettled'

LEMMA RunFacts ==
  ASSUME TInv, IInv, NEW l \in Loops, NEW f, Runs(l, f)
  PROVE  /\ f \in Functors /\ f[1] \in Kinds /\ f[2] \in Conns /\ f = <<f[1], f[2]>>
         /\ In(batch[l], f) /\ Pending(l, f) /\ active[l] = {} /\ ~Stopped(l)
         /\ \A k \in Loops : \A g : In(batch'[k], g) => In(batch[k], g)
         /\ \A k \in Loops : \A g : In(batch[k], g) /\ ~In(batch'[k], g) => k = l /\ g = f
         /\ f[1] \notin Raw /\ f[2] \notin unsettled =>
              ~In(batch'[l], f) /\ ~In(queue[l], f)
         /\ f[1] = "destroy" => /\ ~In(batch'[l], <<"established", f[2]>>)
                                /\ ~In(queue[l], <<"established", f[2]>>)
         /\ Shrunk
         /\ \A k \in Loops : done[k] \subseteq done'[k]
         /\ f[1] \notin Raw => f[2] \in done'[l]
<1> USE DEF IInv
<1>1. /\ at[l] = "run" /\ batch[l] \in Seq(Functors) /\ batch[l] # <<>>
      /\ f = Head(batch[l]) /\ batch' = [batch EXCEPT ![l] = Tail(@)]
  BY DEF Runs, TInv, LoopT
<1>2. f \in Functors /\ f[1] \in Kinds /\ f[2] \in Conns /\ f = <<f[1], f[2]>>
  BY <1>1, HeadIn DEF Functors, Kinds
<1>3. batch'[l] = Tail(batch[l]) /\ \A k \in Loops \ {l} : batch'[k] = batch[k]
  BY <1>1 DEF TInv, LoopT
<1>4. \A g : In(batch[l], g) <=> g = f \/ In(batch'[l], g)
  BY <1>1, <1>3, InTail
<1>5. /\ Once(Tail(batch[l]), unsettled) /\ InOrder(Tail(batch[l]))
      /\ f[1] \notin Raw /\ f[2] \notin unsettled => ~In(Tail(batch[l]), f)
      /\ f[1] = "destroy" => ~In(Tail(batch[l]), <<"established", f[2]>>)
  BY <1>1, TailOrder DEF OrderInv
<1>6. Shrunk
  BY <1>3, <1>4, <1>5 DEF Shrunk, OrderInv, Runs
<1>7. f[1] \notin Raw /\ f[2] \notin unsettled => ~In(queue[l], f)
  BY <1>2, <1>4 DEF OrderInv
<1>8. f[1] = "destroy" => ~In(queue[l], <<"established", f[2]>>)
  <2>1. ASSUME f[1] = "destroy"
        PROVE  ~In(queue[l], <<"established", f[2]>>)
    <3>1. In(batch[l], <<"destroy", f[2]>>)
      BY <1>2, <1>4, <2>1
    <3> QED BY <1>2, <3>1 DEF OrderInv
  <2> QED BY <2>1
<1>9. done' = [done EXCEPT ![l] = @ \cup IF f \in Bound(f[2]) THEN {f[2]} ELSE {}]
  BY DEF Runs, Keep
<1>10. \A k \in Loops : done[k] \subseteq done'[k]
  BY <1>9 DEF TInv, LoopT
<1>11. f[1] \notin Raw => f[2] \in done'[l]
  <2>1. f[1] \notin Raw => f \in Bound(f[2])
    BY <1>2 DEF Bound, Kinds, Raw
  <2> QED BY <1>9, <2>1 DEF TInv, LoopT
<1>12. active[l] = {} /\ ~Stopped(l)
  BY <1>1 DEF PlaceInv, Stopped
<1> QED BY <1>2, <1>3, <1>4, <1>5, <1>6, <1>7, <1>8, <1>10, <1>11, <1>12 DEF Pending

\* What such a run leaves alone.
LEMMA RunKeeps ==
  ASSUME TInv, IInv, NEW l \in Loops, NEW f, Runs(l, f)
  PROVE  PlaceInv' /\ \A k \in Loops : Stopped(k)' <=> Stopped(k)
<1> USE DEF IInv
<1>1. at[l] = "run" /\ \A k \in Loops \ {l} : batch'[k] = batch[k] /\ done'[k] = done[k]
  BY DEF Runs, Keep, TInv, LoopT
<1> QED BY <1>1 DEF PlaceInv, Runs, Stopped

\* It touches the connection of the functor only, when the rest of it does.
LEMMA RunTouches ==
  ASSUME TInv, IInv, NEW l \in Loops, NEW k \in Kinds, NEW c \in Conns, Runs(l, <<k, c>>),
         \A d \in Conns : d # c =>
           /\ state'[d] = state[d] /\ ran'[d] = ran[d]
           /\ d \in connections' <=> d \in connections
           /\ d \in registered' <=> d \in registered
           /\ d \in enabled' <=> d \in enabled
           /\ d \in unsettled' <=> d \in unsettled,
         \A m \in Loops, j \in Kinds, d \in Conns : d # c =>
           (In(queue'[m], <<j, d>>) <=> In(queue[m], <<j, d>>))
  PROVE  Touched(c)
<1> DEFINE f == <<k, c>>
<1>1. /\ \A m \in Loops : \A g : In(batch'[m], g) => In(batch[m], g)
      /\ \A m \in Loops : \A g : In(batch[m], g) /\ ~In(batch'[m], g) => m = l /\ g = f
      /\ \A m \in Loops : done[m] \subseteq done'[m]
  <2> HIDE DEF f
  <2>1. Runs(l, f)
    BY DEF f
  <2> QED BY ONLY TInv, IInv, <2>1, l \in Loops, RunFacts
<1>2. \A m \in Loops, j \in Kinds, d \in Conns : d # c =>
        (In(batch'[m], <<j, d>>) <=> In(batch[m], <<j, d>>))
  <2>1. \A j, d : d # c => <<j, d>> # f
    OBVIOUS
  <2> QED BY <1>1, <2>1
<1> QED BY <1>1, <1>2 DEF Touched, Runs

LEMMA EstablishedInv ==
  ASSUME TInv, IInv, NEW l \in Loops, NEW c \in Conns, Runs(l, <<"established", c>>),
         ConnectEstablished(c), UNCHANGED <<connections, queue>>
  PROVE  IInv'
<1> DEFINE f == <<"established", c>>
<1>1. Runs(l, f) /\ f[1] = "established" /\ f[2] = c /\ f[1] \notin Raw /\ "established" \in Kinds
  BY DEF Raw, Kinds
<1> HIDE DEF f
<1>2. /\ Pending(l, f) /\ ~Stopped(l) /\ Shrunk
      /\ c \notin unsettled => ~In(batch'[l], f) /\ ~In(queue[l], f)
      /\ \A m \in Loops : \A g : In(batch'[m], g) => In(batch[m], g)
      /\ \A m \in Loops : \A g : In(batch[m], g) /\ ~In(batch'[m], g) => m = l /\ g = f
  BY <1>1, RunFacts
<1>3. PlaceInv' /\ \A m \in Loops : Stopped(m)' <=> Stopped(m)
  BY <1>1, RunKeeps
<1>4. /\ enabled' = enabled \cup {c} /\ registered' = registered \cup {c}
      /\ state'[c] = "Connected" /\ \A d \in Conns : d # c => state'[d] = state[d]
      /\ ran'[c].established = ran[c].established + 1
      /\ ran'[c].closed = ran[c].closed /\ ran'[c].destroyed = ran[c].destroyed
      /\ \A d \in Conns : d # c => ran'[d] = ran[d]
      /\ UNCHANGED unsettled
  BY CountType DEF ConnectEstablished, TInv, ConnT
<1>5. UNCHANGED <<nextConn, home, at, active, held, late>>
  BY DEF Runs
<1>6. ConnInv(c)
  BY DEF IInv
<1>7. /\ state[c] = "Connecting" /\ c < nextConn /\ l = home[c]
  BY <1>1, <1>2, <1>6 DEF ConnInv, PendingOf, FunctorOf, f
<1>8. /\ ran[c].established = 0 /\ ran[c].closed = 0 /\ ran[c].destroyed = 0
      /\ c \notin unsettled /\ c \notin enabled /\ ~Lost(c)
  BY <1>2, <1>6, <1>7 DEF ConnInv, StateOf, Lost, TInv, ConnT
<1>9. Touched(c)
  <2>1. Runs(l, <<"established", c>>)
    OBVIOUS
  <2>2. \A d \in Conns : d # c =>
          /\ state'[d] = state[d] /\ ran'[d] = ran[d]
          /\ d \in connections' <=> d \in connections
          /\ d \in registered' <=> d \in registered
          /\ d \in enabled' <=> d \in enabled
          /\ d \in unsettled' <=> d \in unsettled
    BY <1>4
  <2> QED BY <1>1, <2>2, RunTouches
<1>10. OrderInv' /\ HeldInv'
  BY <1>2, <1>4, <1>5, ShrunkOrder, HeldKept DEF IInv, TInv
<1>11. \A m \in Loops, k \in Kinds :
         /\ Pending(m, <<k, c>>)' => Pending(m, <<k, c>>) /\ <<k, c>> # f
         /\ Pending(m, <<k, c>>) /\ <<k, c>> # f => Pending(m, <<k, c>>)'
  <2>1. \A m \in Loops : Pending(m, f) => m = l
    BY <1>1, <1>6, <1>7 DEF ConnInv, FunctorOf, f
  <2>2. ~In(batch'[l], f) /\ ~In(queue[l], f)
    BY <1>2, <1>8
  <2>3. ASSUME NEW m \in Loops, Pending(m, f)'
        PROVE  FALSE
    <3>1. In(queue[m], f) \/ In(batch'[m], f)
      BY <2>3 DEF Pending, f
    <3>2. Pending(m, f)
      BY <1>2, <3>1 DEF Pending
    <3> QED BY <2>1, <2>2, <3>1, <3>2
  <2>4. ASSUME NEW m \in Loops, NEW k \in Kinds
        PROVE  /\ Pending(m, <<k, c>>)' => Pending(m, <<k, c>>)
               /\ Pending(m, <<k, c>>) /\ <<k, c>> # f => Pending(m, <<k, c>>)'
    BY <1>2 DEF Pending
  <2> QED BY <2>3, <2>4 DEF f
<1>12. \A m \in Loops, k \in Raw : ~Pending(m, <<k, c>>)
  BY <1>6, <1>7 DEF ConnInv, PendingOf
<1>13. ConnInv(c)'
  <2>1. \A m \in Loops : c \notin active'[m]
    BY <1>5, <1>6, <1>8 DEF ConnInv, OpenOf
  <2>2. ran'[c].established = 1 /\ ran'[c].closed = 0 /\ ran'[c].destroyed = 0 /\ ~Lost(c)'
    BY <1>3, <1>4, <1>5, <1>7, <1>8 DEF Lost, Stopped
  <2>3. StateOf(c)' /\ OpenOf(c)'
    BY <1>4, <1>5, <1>7, <1>8, <2>1, <2>2 DEF StateOf, OpenOf
  <2>4. FunctorOf(c)'
    BY <1>5, <1>6, <1>11 DEF ConnInv, FunctorOf, Kinds
  <2>5. PendingOf(c)'
    <3>1. \A m \in Loops : ~Pending(m, <<"established", c>>)'
      BY <1>1, <1>11 DEF f
    <3>2. \A m \in Loops, k \in Raw : ~Pending(m, <<k, c>>)'
      BY <1>11, <1>12 DEF Kinds, Raw
    <3> QED BY <1>3, <1>4, <1>6, <1>8, <1>11, <2>2, <3>1, <3>2, LoopsFacts
            DEF ConnInv, PendingOf, Kinds
  <2>6. LifeOf(c)'
    <3>1. c \in connections \/ Pending(l, <<"destroy", c>>)
      BY <1>6, <1>7, <1>8 DEF ConnInv, LifeOf
    <3>2. "destroy" \in Kinds /\ <<"destroy", c>> # f
      BY DEF Kinds, f
    <3>3. Pending(l, <<"destroy", c>>) => Pending(home[c], <<"destroy", c>>)'
      BY <1>5, <1>7, <1>11, <3>2 DEF Pending
    <3> QED BY <2>2, <3>1, <3>3 DEF LifeOf
  <2>7. SendOf(c)'
    <3>1. \A m \in Loops, k \in Raw : ~In(queue'[m], <<k, c>>) /\ ~In(batch'[m], <<k, c>>)
      BY <1>2, <1>12 DEF Pending
    <3> QED BY <3>1 DEF SendOf
  <2> QED BY <2>3, <2>4, <2>5, <2>6, <2>7 DEF ConnInv
<1> QED BY <1>3, <1>9, <1>10, <1>13, TouchInv

LEMMA DestroyInv ==
  ASSUME TInv, IInv, NEW l \in Loops, NEW c \in Conns, Runs(l, <<"destroy", c>>),
         ConnectDestroyed(c), UNCHANGED <<connections, queue>>
  PROVE  IInv'
<1> DEFINE f == <<"destroy", c>>
<1>1. Runs(l, f) /\ f[1] = "destroy" /\ f[2] = c /\ f[1] \notin Raw /\ "destroy" \in Kinds
  BY DEF Raw, Kinds
<1> HIDE DEF f
<1>2. /\ Pending(l, f) /\ ~Stopped(l) /\ Shrunk /\ active[l] = {} /\ In(batch[l], f)
      /\ c \notin unsettled => ~In(batch'[l], f) /\ ~In(queue[l], f)
      /\ ~In(batch'[l], <<"established", c>>) /\ ~In(queue[l], <<"established", c>>)
      /\ \A m \in Loops : \A g : In(batch'[m], g) => In(batch[m], g)
      /\ \A m \in Loops : \A g : In(batch[m], g) /\ ~In(batch'[m], g) => m = l /\ g = f
      /\ c \in done'[l]
  BY <1>1, RunFacts
<1>3. PlaceInv' /\ \A m \in Loops : Stopped(m)' <=> Stopped(m)
  BY <1>1, RunKeeps
<1>4. /\ enabled' = enabled \ {c} /\ registered' = registered \ {c}
      /\ state' = [state EXCEPT ![c] = IF @ = "Connected" THEN "Disconnected" ELSE @]
      /\ ran'[c].destroyed = ran[c].destroyed + 1
      /\ ran'[c].closed = ran[c].closed /\ ran'[c].established = ran[c].established
      /\ \A d \in Conns : d # c => ran'[d] = ran[d]
      /\ unsettled' = IF state[c] = "Disconnecting" THEN unsettled \cup {c} ELSE unsettled
  BY CountType DEF ConnectDestroyed, TInv, ConnT
<1>5. UNCHANGED <<nextConn, home, at, active, held, late>>
  BY DEF Runs
<1>6. ConnInv(c) /\ ran[c].destroyed \in Nat /\ state[c] \in States
  BY Counts DEF IInv, TInv
<1>7. /\ state'[c] = IF state[c] = "Connected" THEN "Disconnected" ELSE state[c]
      /\ \A d \in Conns : d # c => state'[d] = state[d]
  BY <1>4 DEF TInv, ConnT
<1>8. /\ c \notin connections /\ c < nextConn /\ l = home[c] /\ ~Lost(c)
      /\ ran[c].destroyed = 0 \/ c \in unsettled
  BY <1>1, <1>2, <1>6 DEF ConnInv, PendingOf, FunctorOf, Lost, f
<1>9. state[c] # "Connecting"
  <2>1. ~Pending(l, <<"established", c>>)
    <3>1. <<"established", c>> # f
      BY DEF f
    <3> QED BY <1>2, <3>1 DEF Pending
  <2> QED BY <1>6, <1>8, <2>1 DEF ConnInv, StateOf
<1>10. Touched(c)
  <2>1. \A d \in Conns : d # c =>
          /\ state'[d] = state[d] /\ ran'[d] = ran[d]
          /\ d \in connections' <=> d \in connections
          /\ d \in registered' <=> d \in registered
          /\ d \in enabled' <=> d \in enabled
          /\ d \in unsettled' <=> d \in unsettled
    BY <1>4, <1>7
  <2> QED BY <1>1, <2>1, RunTouches
<1>11. OrderInv' /\ HeldInv'
  <2>1. \A d \in Conns : state'[d] = "Connecting" => state[d] = "Connecting"
    BY <1>7
  <2> QED BY <1>2, <1>5, <2>1, ShrunkOrder, HeldKept DEF IInv, TInv
<1>12. \A m \in Loops, k \in Kinds :
         /\ Pending(m, <<k, c>>)' => Pending(m, <<k, c>>)
         /\ Pending(m, <<k, c>>) /\ <<k, c>> # f => Pending(m, <<k, c>>)'
  BY <1>2 DEF Pending
<1>13. c \notin unsettled => \A m \in Loops : ~Pending(m, <<"destroy", c>>)'
  <2>1. ASSUME c \notin unsettled, NEW m \in Loops, Pending(m, f)'
        PROVE  FALSE
    <3>1. In(queue[m], f) \/ In(batch'[m], f)
      BY <2>1 DEF Pending, f
    <3>2. Pending(m, f)
      BY <1>2, <3>1 DEF Pending
    <3>3. m = l
      BY <1>1, <1>6, <1>8, <3>2 DEF ConnInv, FunctorOf, f
    <3> QED BY <1>2, <2>1, <3>1, <3>3
  <2> QED BY <2>1 DEF f
<1>14. ConnInv(c)'
  <2>1. ran'[c].destroyed > 0 /\ (ran[c].destroyed = 0 => ran'[c].destroyed = 1)
    BY <1>4, <1>6
  <2>2. state'[c] # "Connecting" /\ (state'[c] = "Disconnected" \/ c \in unsettled')
    BY <1>4, <1>6, <1>7, <1>9 DEF States
  <2>3. StateOf(c)'
    BY <1>4, <1>5, <1>6, <1>8, <1>9, <2>1, <2>2 DEF ConnInv, StateOf
  <2>4. FunctorOf(c)'
    BY <1>5, <1>6, <1>12 DEF ConnInv, FunctorOf, Kinds
  <2>5. OpenOf(c)'
    <3>1. \A m \in Loops : c \notin active'[m]
      BY <1>2, <1>5, <1>6, <1>8 DEF ConnInv, OpenOf
    <3> QED BY <1>4, <3>1 DEF OpenOf
  <2>6. PendingOf(c)'
    <3>1. \A m \in Loops : ~Pending(m, <<"established", c>>)'
      BY <1>6, <1>9, <1>12 DEF ConnInv, PendingOf, Kinds
    <3>2. \A m \in Loops : Pending(m, <<"destroy", c>>)' =>
            /\ c \notin connections' /\ (ran'[c].closed > 0 \/ Stopped(Base)')
            /\ ran'[c].destroyed = 0 \/ c \in unsettled'
      BY <1>3, <1>4, <1>6, <1>8, <1>12, <1>13, LoopsFacts DEF ConnInv, PendingOf, Kinds
    <3>3. \A m \in Loops : Pending(m, <<"remove", c>>)' =>
            /\ ran'[c].closed > 0
            /\ c \in connections' \/ Stopped(Base)' \/ c \in unsettled'
      BY <1>3, <1>4, <1>6, <1>12, LoopsFacts DEF ConnInv, PendingOf, Kinds
    <3> QED BY <2>2, <3>1, <3>2, <3>3 DEF PendingOf
  <2>7. LifeOf(c)'
    BY <1>4, <1>8, <2>1 DEF LifeOf
  <2>8. SendOf(c)'
    <3>1. ASSUME NEW m \in Loops, NEW k \in Raw, ~Stopped(m)'
          PROVE  /\ In(queue'[m], <<k, c>>) =>
                      c \in late' \/ c \in connections' \/ In(queue'[m], <<"destroy", c>>)
                 /\ In(batch'[m], <<k, c>>) => c \in done'[m]
      <4>1. k \in Kinds /\ k # "remove"
        BY DEF Raw, Kinds
      <4>2. In(batch'[m], <<k, c>>) => m = l
        BY <1>2, <1>6, <1>8, <4>1 DEF ConnInv, FunctorOf, Pending
      <4> QED BY <1>2, <1>3, <1>5, <1>6, <3>1, <4>2 DEF ConnInv, SendOf
    <3> QED BY <3>1 DEF SendOf
  <2> QED BY <2>3, <2>4, <2>5, <2>6, <2>7, <2>8 DEF ConnInv
<1> QED BY <1>3, <1>10, <1>11, <1>14, TouchInv

LEMMA RemoveInv ==
  ASSUME TInv, IInv, NEW l \in Loops, NEW c \in Conns, Runs(l, <<"remove", c>>),
         RemoveConnectionInLoop(c), UNCHANGED chanVars
  PROVE  IInv'
<1> DEFINE f == <<"remove", c>>
<1>1. /\ Runs(l, f) /\ f[1] = "remove" /\ f[2] = c /\ f[1] \notin Raw
      /\ "destroy" \in Kinds /\ "remove" \in Kinds
  BY DEF Raw, Kinds
<1> HIDE DEF f
<1>2. /\ Pending(l, f) /\ ~Stopped(l) /\ Shrunk
      /\ c \notin unsettled => ~In(batch'[l], f) /\ ~In(queue[l], f)
      /\ \A m \in Loops : \A g : In(batch'[m], g) => In(batch[m], g)
      /\ \A m \in Loops : \A g : In(batch[m], g) /\ ~In(batch'[m], g) => m = l /\ g = f
      /\ \A m \in Loops : done[m] \subseteq done'[m]
  BY <1>1, RunFacts
<1>3. PlaceInv' /\ \A m \in Loops : Stopped(m)' <=> Stopped(m)
  BY <1>1, RunKeeps
<1>4. /\ connections' = connections \ {c} /\ QueueInLoop(home[c], <<"destroy", c>>)
      /\ UNCHANGED <<state, enabled, registered, ran, unsettled>>
  BY DEF RemoveConnectionInLoop, chanVars
<1>5. UNCHANGED <<nextConn, home, at, active, held, late>>
  BY DEF Runs
<1>6. ConnInv(c) /\ home[c] \in Loops /\ Base \in Loops /\ ran[c].destroyed \in Nat
  BY Counts, LoopsFacts DEF IInv, TInv, PoolT
<1>7. /\ l = Base /\ c < nextConn /\ ran[c].closed > 0
      /\ c \in connections \/ c \in unsettled
  BY <1>1, <1>2, <1>6 DEF ConnInv, PendingOf, FunctorOf, f
<1>8. /\ state[c] # "Connecting"
      /\ c \notin unsettled => /\ c \in connections /\ ran[c].destroyed = 0
                               /\ \A m \in Loops : ~Pending(m, <<"destroy", c>>)
  BY <1>6, <1>7 DEF ConnInv, StateOf, LifeOf, PendingOf
<1>9. \A m \in Loops, k \in Kinds, d \in Conns :
        In(queue'[m], <<k, d>>) <=>
          In(queue[m], <<k, d>>) \/ (m = home[c] /\ k = "destroy" /\ d = c)
  <2>1. <<"destroy", c>> \in Functors
    BY DEF Functors
  <2>2. \A m \in Loops : \A g :
          In(queue'[m], g) <=> In(queue[m], g) \/ (m = home[c] /\ g = <<"destroy", c>>)
    BY <1>4, <1>6, <2>1, QueueIn DEF TInv
  <2> QED BY <2>2
<1>10. \A m \in Loops, k \in Kinds :
         Pending(m, <<k, c>>)' => Pending(m, <<k, c>>) \/ (m = home[c] /\ k = "destroy")
  BY <1>2, <1>9 DEF Pending
<1>11. Touched(c)
  <2>1. \A d \in Conns : d # c => (d \in connections' <=> d \in connections)
    BY <1>4
  <2>2. \A m \in Loops, k \in Kinds, d \in Conns : d # c =>
          (In(queue'[m], <<k, d>>) <=> In(queue[m], <<k, d>>))
    BY <1>9
  <2> QED BY <1>1, <1>4, <2>1, <2>2, RunTouches
<1>12. HeldInv'
  BY <1>4, <1>5, HeldKept DEF IInv, TInv
<1>13. OrderInv'
  <2>1. c \in unsettled \/ ~Pending(home[c], <<"destroy", c>>)
    BY <1>6, <1>8
  <2> QED BY <1>1, <1>2, <1>4, <1>6, <2>1, AppendOrder DEF TInv, IInv
<1>14. In(queue'[home[c]], <<"destroy", c>>)
  BY <1>1, <1>6, <1>9
<1>15. ConnInv(c)'
  <2>1. Lost(c)' <=> Lost(c)
    BY <1>3, <1>5, <1>6 DEF Lost, Stopped
  <2>2. StateOf(c)' /\ OpenOf(c)'
    BY <1>4, <1>5, <1>6, <1>7, <1>8 DEF ConnInv, StateOf, OpenOf
  <2>3. FunctorOf(c)'
    BY <1>5, <1>6, <1>7, <1>10 DEF ConnInv, FunctorOf, Kinds
  <2>4. PendingOf(c)'
    <3>1. \A m \in Loops : ~Pending(m, <<"established", c>>)'
      BY <1>6, <1>8, <1>10 DEF ConnInv, PendingOf, Kinds
    <3>2. ran'[c].destroyed = 0 \/ c \in unsettled'
      BY <1>4, <1>8
    <3>3. c \notin unsettled => \A m \in Loops : ~Pending(m, <<"remove", c>>)'
      <4>1. ASSUME c \notin unsettled, NEW m \in Loops, Pending(m, <<"remove", c>>)'
            PROVE  FALSE
        <5>1. Pending(m, <<"remove", c>>)
          BY <1>1, <1>10, <4>1
        <5>2. m = l
          BY <1>1, <1>6, <1>7, <5>1 DEF ConnInv, FunctorOf
        <5>3. In(queue'[l], f) \/ In(batch'[l], f)
          BY <4>1, <5>2 DEF Pending, f
        <5>4. In(queue[l], f)
          BY <1>1, <1>2, <1>9, <4>1, <5>3 DEF f
        <5> QED BY <1>2, <4>1, <5>4
      <4> QED BY <4>1
    <3>4. state'[c] # "Connecting" /\ c \notin connections' /\ ran'[c].closed > 0
      BY <1>4, <1>7, <1>8
    <3> QED BY <1>4, <3>1, <3>2, <3>3, <3>4 DEF PendingOf
  <2>5. LifeOf(c)'
    <3>1. Pending(home[c], <<"destroy", c>>)'
      BY <1>5, <1>14 DEF Pending
    <3> QED BY <1>4, <1>6, <2>1, <3>1 DEF ConnInv, LifeOf
  <2>6. SendOf(c)'
    <3>1. ASSUME NEW m \in Loops, NEW k \in Raw
          PROVE  In(queue'[m], <<k, c>>) \/ In(batch'[m], <<k, c>>) =>
                   In(queue'[m], <<"destroy", c>>)
      <4>1. k \in Kinds /\ k # "remove" /\ k # "destroy"
        BY DEF Raw, Kinds
      <4>2. In(queue'[m], <<k, c>>) \/ In(batch'[m], <<k, c>>) => m = home[c]
        BY <1>2, <1>6, <1>9, <4>1 DEF ConnInv, FunctorOf, Pending
      <4> QED BY <1>14, <4>2
    <3> QED BY <3>1 DEF SendOf, Pending
  <2> QED BY <2>2, <2>3, <2>4, <2>5, <2>6 DEF ConnInv
<1> QED BY <1>3, <1>11, <1>12, <1>13, <1>15, TouchInv

\* The functors of Send and Shutdown; a Send may ask for EPOLLOUT.
LEMMA RawInv ==
  ASSUME TInv, IInv, NEW l \in Loops, NEW c \in Conns, NEW k \in Raw, Runs(l, <<k, c>>),
         UNCHANGED chanVars \/ SendInLoop(c), UNCHANGED <<connections, queue>>
  PROVE  IInv'
<1> DEFINE f == <<k, c>>
<1>1. Runs(l, f) /\ f[1] = k /\ f[2] = c /\ k \in Kinds /\ k \notin Kinds \ Raw
  BY DEF Raw, Kinds
<1> HIDE DEF f
<1>2. /\ Pending(l, f) /\ ~Stopped(l) /\ Shrunk
      /\ \A m \in Loops : \A g : In(batch'[m], g) => In(batch[m], g)
      /\ \A m \in Loops : \A g : In(batch[m], g) /\ ~In(batch'[m], g) => m = l /\ g = f
      /\ \A m \in Loops : done[m] \subseteq done'[m]
  BY <1>1, RunFacts
<1>3. PlaceInv' /\ \A m \in Loops : Stopped(m)' <=> Stopped(m)
  BY <1>1, RunKeeps
<1>4. /\ UNCHANGED <<state, ran>>
      /\ \A d \in Conns : d # c =>
           /\ d \in registered' <=> d \in registered
           /\ d \in enabled' <=> d \in enabled
           /\ d \in unsettled' <=> d \in unsettled
      /\ c \in unsettled => c \in unsettled'
  BY DEF SendInLoop, chanVars
<1>5. UNCHANGED <<nextConn, home, at, active, held, late>>
  BY DEF Runs
<1>6. ConnInv(c) /\ ran[c].destroyed \in Nat /\ ran[c].closed \in Nat
  BY Counts DEF IInv, TInv
<1>7. state[c] # "Connecting" /\ c < nextConn /\ l = home[c] /\ ~Lost(c)
  <2>1. l = home[c] /\ c < nextConn
    BY <1>1, <1>2, <1>6 DEF ConnInv, FunctorOf, Raw, f
  <2>2. state[c] # "Connecting"
    BY <1>1, <1>2, <1>6 DEF ConnInv, PendingOf, f
  <2> QED BY <1>2, <2>1, <2>2 DEF Lost
<1>8. \/ UNCHANGED <<enabled, registered, unsettled>>
      \/ /\ c \in enabled' /\ c \in registered'
         /\ \/ state[c] # "Disconnected" /\ UNCHANGED unsettled
            \/ ran[c].destroyed > 0 /\ c \in unsettled'
  <2>1. CASE UNCHANGED <<enabled, registered, unsettled>>
    BY <2>1
  <2>2. CASE Alive(c) /\ ~UNCHANGED <<enabled, registered, unsettled>>
    BY <2>2 DEF SendInLoop, chanVars
  <2>3. CASE ~Alive(c) /\ ~UNCHANGED <<enabled, registered, unsettled>>
    <3>1. c \in enabled' /\ c \in registered' /\ c \in unsettled'
      BY <2>3 DEF SendInLoop, chanVars
    <3>2. c \notin connections /\ ~Pending(l, <<"destroy", c>>)
      BY <2>3 DEF Alive, Pending, In, Bound, Queued, InBatch
    <3>3. ran[c].destroyed > 0
      BY <1>6, <1>7, <3>2 DEF ConnInv, LifeOf
    <3> QED BY <3>1, <3>3
  <2> QED BY <2>1, <2>2, <2>3
<1>9. Touched(c)
  BY <1>1, <1>4, RunTouches
<1>10. OrderInv' /\ HeldInv'
  BY <1>2, <1>4, <1>5, ShrunkOrder, HeldKept DEF IInv, TInv
<1>11. \A m \in Loops, j \in Kinds :
         /\ Pending(m, <<j, c>>)' => Pending(m, <<j, c>>)
         /\ j \notin Raw /\ Pending(m, <<j, c>>) => Pending(m, <<j, c>>)'
  <2>1. \A j \in Kinds : j \notin Raw => <<j, c>> # f
    BY DEF f
  <2> QED BY <1>2, <2>1 DEF Pending
<1>12. ConnInv(c)'
  <2>1. Lost(c)' <=> Lost(c)
    BY <1>3, <1>5, <1>7 DEF Lost, Stopped
  <2>2. c \notin unsettled' => c \notin unsettled
    BY <1>4
  <2>3. StateOf(c)'
    BY <1>4, <1>5, <1>6, <1>7, <1>8 DEF ConnInv, StateOf
  <2>4. FunctorOf(c)'
    BY <1>5, <1>6, <1>11 DEF ConnInv, FunctorOf, Kinds
  <2>5. OpenOf(c)'
    BY <1>4, <1>5, <1>6, <1>8 DEF ConnInv, OpenOf, StateOf
  <2>6. PendingOf(c)'
    <3>1. state'[c] # "Connecting" /\ \A m \in Loops : ~Pending(m, <<"established", c>>)'
      BY <1>4, <1>6, <1>7, <1>11 DEF ConnInv, PendingOf, Kinds
    <3>2. \A m \in Loops : Pending(m, <<"destroy", c>>)' =>
            /\ c \notin connections' /\ (ran'[c].closed > 0 \/ Stopped(Base)')
            /\ ran'[c].destroyed = 0 \/ c \in unsettled'
      BY <1>3, <1>4, <1>6, <1>11, LoopsFacts DEF ConnInv, PendingOf, Kinds
    <3>3. \A m \in Loops : Pending(m, <<"remove", c>>)' =>
            /\ ran'[c].closed > 0
            /\ c \in connections' \/ Stopped(Base)' \/ c \in unsettled'
      BY <1>3, <1>4, <1>6, <1>11, LoopsFacts DEF ConnInv, PendingOf, Kinds
    <3> QED BY <3>1, <3>2, <3>3 DEF PendingOf
  <2>7. LifeOf(c)'
    <3>1. /\ Pending(home[c], <<"destroy", c>>) => Pending(home[c], <<"destroy", c>>)'
          /\ Pending(Base, <<"remove", c>>) => Pending(Base, <<"remove", c>>)'
      BY <1>5, <1>7, <1>11, LoopsFacts DEF Pending, Kinds, Raw
    <3>2. c \notin unsettled' /\ ran[c].destroyed > 0 => c \notin registered'
      BY <1>6, <1>8, <2>2 DEF ConnInv, LifeOf, StateOf
    <3> QED BY <1>4, <1>5, <1>6, <1>7, <2>1, <2>2, <3>1, <3>2 DEF ConnInv, LifeOf
  <2>8. SendOf(c)'
    <3>1. ASSUME NEW m \in Loops, NEW j \in Raw, ~Stopped(m)'
          PROVE  /\ In(queue'[m], <<j, c>>) =>
                      c \in late' \/ c \in connections' \/ In(queue'[m], <<"destroy", c>>)
                 /\ In(batch'[m], <<j, c>>) =>
                      \/ c \in late' \/ c \in connections' \/ Pending(m, <<"destroy", c>>)'
                      \/ c \in done'[m]
      <4>1. j \in Kinds /\ "destroy" \in Kinds /\ "destroy" \notin Raw
        BY DEF Raw, Kinds
      <4> QED BY <1>2, <1>3, <1>5, <1>6, <1>11, <3>1, <4>1 DEF ConnInv, SendOf
    <3> QED BY <3>1 DEF SendOf
  <2> QED BY <2>3, <2>4, <2>5, <2>6, <2>7, <2>8 DEF ConnInv
<1> QED BY <1>3, <1>9, <1>10, <1>12, TouchInv

LEMMA RunInv ==
  ASSUME TInv, IInv, NEW l \in Loops, RunFunctor(l)
  PROVE  IInv'
<1>1. PICK k \in Kinds, c \in Conns : Head(batch[l]) = <<k, c>>
  <2>1. Head(batch[l]) \in Functors
    BY HeadType DEF RunFunctor, TInv
  <2> QED BY <2>1 DEF Functors, Kinds
<1>2. \/ k = "established" /\ ConnectEstablished(c) /\ UNCHANGED <<connections, queue>>
      \/ k = "remove" /\ RemoveConnectionInLoop(c) /\ UNCHANGED chanVars
      \/ k = "destroy" /\ ConnectDestroyed(c) /\ UNCHANGED <<connections, queue>>
      \/ k \in Raw /\ (UNCHANGED chanVars \/ SendInLoop(c)) /\ UNCHANGED <<connections, queue>>
  <2>1. Head(batch[l])[1] = k /\ Head(batch[l])[2] = c /\ "send" \in Raw /\ "shutdown" \in Raw
    BY <1>1 DEF Raw
  <2> QED BY <2>1 DEF RunFunctor, connVars
<1>3. unsettled \subseteq unsettled'
  BY <1>2 DEF ConnectEstablished, ConnectDestroyed, SendInLoop, chanVars
<1>4. Runs(l, <<k, c>>)
  BY <1>1, <1>3 DEF RunFunctor, Runs, acceptVars, userVars
<1>5. CASE k = "established" /\ ConnectEstablished(c) /\ UNCHANGED <<connections, queue>>
  BY <1>4, <1>5, EstablishedInv
<1>6. CASE k = "remove" /\ RemoveConnectionInLoop(c) /\ UNCHANGED chanVars
  BY <1>4, <1>6, RemoveInv
<1>7. CASE k = "destroy" /\ ConnectDestroyed(c) /\ UNCHANGED <<connections, queue>>
  BY <1>4, <1>7, DestroyInv
<1>8. CASE k \in Raw /\ (UNCHANGED chanVars \/ SendInLoop(c)) /\ UNCHANGED <<connections, queue>>
  BY <1>4, <1>8, RawInv
<1> QED BY <1>2, <1>5, <1>6, <1>7, <1>8

-----------------------------------------------------------------------------
(* The end of an iteration, the users, and the destructor.                 *)

LEMMA EndInv ==
  ASSUME TInv, IInv, NEW l \in Loops, EndPendingFunctors(l)
  PROVE  IInv'
<1> DEFINE ends == l \in quit /\ l # Base
<1>1. /\ at[l] = "run" /\ batch[l] = <<>> /\ done' = [done EXCEPT ![l] = {}]
      /\ at' = [at EXCEPT ![l] = IF l \in quit THEN "stopped" ELSE "poll"]
      /\ queue' = IF ends THEN [queue EXCEPT ![l] = <<>>] ELSE queue
      /\ registered' = IF ends THEN {c \in registered : home[c] # l} ELSE registered
      /\ enabled' = IF ends THEN {c \in enabled : home[c] # l} ELSE enabled
      /\ UNCHANGED <<nextConn, home, connections, state, ran, unsettled, active, batch, held,
                     late>>
  BY DEF EndPendingFunctors, acceptVars, userVars
<1>2. /\ \A m \in Loops \ {l} : queue'[m] = queue[m] /\ at'[m] = at[m] /\ done'[m] = done[m]
      /\ queue'[l] = (IF ends THEN <<>> ELSE queue[l]) /\ done'[l] = {}
      /\ at'[l] = IF l \in quit THEN "stopped" ELSE "poll"
  BY <1>1 DEF TInv, LoopT
<1>3. \A m \in Loops : Stopped(m)' <=> Stopped(m) \/ (m = l /\ l \in quit)
  BY <1>1, <1>2 DEF Stopped
<1>4. /\ \A m \in Loops : \A f : In(queue'[m], f) => In(queue[m], f)
      /\ \A m \in Loops : ~(m = l /\ ends) => queue'[m] = queue[m]
  BY <1>2, InEmpty
<1>5. /\ \A m \in Loops : \A f : Pending(m, f)' => Pending(m, f)
      /\ \A m \in Loops : \A f : ~(m = l /\ ends) => (Pending(m, f)' <=> Pending(m, f))
  BY <1>1, <1>4 DEF Pending
<1>6. active[l] = {} /\ ~Stopped(l)
  BY <1>1 DEF IInv, PlaceInv, Stopped
<1>7. PlaceInv' /\ HeldInv'
  BY <1>1, <1>2, <1>6 DEF IInv, PlaceInv, HeldInv
<1>8. OrderInv'
  <2>1. \A m \in Loops : Once(queue'[m], unsettled') /\ InOrder(queue'[m])
    BY <1>1, <1>2, EmptyOrder DEF IInv, OrderInv
  <2> QED BY <1>1, <1>4, <2>1 DEF IInv, OrderInv
<1> HIDE DEF ends
<1>9. ASSUME NEW c \in Conns
      PROVE  ConnInv(c)'
  <2>1. ConnInv(c) /\ home[c] \in Loops /\ Base \in Loops
    BY LoopsFacts DEF IInv, TInv, PoolT
  <2>2. Lost(c)' <=> Lost(c) \/ (home[c] = l /\ ends)
    <3>1. Stopped(home[c])' <=> Stopped(home[c]) \/ (home[c] = l /\ l \in quit)
      BY <1>1, <1>3, <2>1 DEF Stopped
    <3> QED BY <1>1, <3>1 DEF Lost, ends
  <2>3. /\ \A f : Pending(home[c], f)' => Pending(home[c], f)
        /\ \A f : Pending(home[c], f) => Pending(home[c], f)' \/ Lost(c)'
        /\ \A f : Pending(Base, f)' <=> Pending(Base, f)
    <3>1. ~(Base = l /\ ends)
      BY DEF ends
    <3>2. \A f : Pending(home[c], f)' <=> In(queue'[home[c]], f) \/ In(batch'[home[c]], f)
      BY <1>1 DEF Pending
    <3> QED BY <1>1, <1>4, <1>5, <2>1, <2>2, <3>1, <3>2 DEF Pending
  <2>4. registered' \subseteq registered /\ (c \in registered' => ~(home[c] = l /\ ends))
    BY <1>1
  <2>5. StateOf(c)'
    BY <1>1, <2>1, <2>2, <2>3, <2>4 DEF ConnInv, StateOf
  <2>6. FunctorOf(c)'
    BY <1>1, <1>5, <2>1 DEF ConnInv, FunctorOf
  <2>7. OpenOf(c)'
    BY <1>1, <1>6, <2>1 DEF ConnInv, OpenOf
  <2>8. PendingOf(c)'
    BY <1>1, <1>3, <1>5, <2>1 DEF ConnInv, PendingOf
  <2>9. LifeOf(c)'
    BY <1>1, <2>1, <2>2, <2>3, <2>4 DEF ConnInv, LifeOf
  <2>10. SendOf(c)'
    <3>1. ASSUME NEW m \in Loops, NEW k \in Raw, ~Stopped(m)'
          PROVE  /\ In(queue'[m], <<k, c>>) =>
                      c \in late' \/ c \in connections' \/ In(queue'[m], <<"destroy", c>>)
                 /\ In(batch'[m], <<k, c>>) =>
                      \/ c \in late' \/ c \in connections' \/ Pending(m, <<"destroy", c>>)'
                      \/ c \in done'[m]
      <4>1. ~Stopped(m) /\ ~(m = l /\ ends)
        BY <1>3, <3>1 DEF ends
      <4>2. m = l => ~In(batch'[m], <<k, c>>)
        BY <1>1, InEmpty
      <4>3. m # l => done'[m] = done[m]
        BY <1>2
      <4> QED BY <1>1, <1>4, <1>5, <2>1, <4>1, <4>2, <4>3 DEF ConnInv, SendOf
    <3> QED BY <3>1 DEF SendOf
  <2> QED BY <2>5, <2>6, <2>7, <2>8, <2>9, <2>10 DEF ConnInv
<1> QED BY <1>7, <1>8, <1>9 DEF IInv

\* Callbacks that close nothing.
LEMMA EventInv ==
  ASSUME TInv, IInv, NEW l \in Loops, NEW c \in Conns,
         IgnoreEvent(l, c) \/ HandleMessage(l, c) \/ Shutdown(l, c) \/ DisableWriting(l, c)
  PROVE  IInv'
<1>1. /\ Event(l, c) /\ UNCHANGED <<registered, ran, unsettled>>
      /\ UNCHANGED enabled \/ enabled' = enabled \ {c}
      /\ \/ UNCHANGED state
         \/ state[c] = "Connected" /\ state' = [state EXCEPT ![c] = "Disconnecting"]
      /\ UNCHANGED held \/ \E u \in Users : held' = [held EXCEPT ![u] = c]
  BY EventCases
<1>2. /\ c \in active[l] /\ active' = [active EXCEPT ![l] = @ \ {c}]
      /\ UNCHANGED <<nextConn, home, at, queue, batch, done, connections, late>>
  BY <1>1 DEF Event, Handling, acceptVars
<1>3. state[c] # "Connecting" /\ home[c] = l
  BY <1>2, OpenFacts
<1>4. /\ \A m \in Loops : active'[m] \subseteq active[m]
      /\ c \notin active'[l]
  BY <1>2 DEF TInv, LoopT
<1>5. ASSUME NEW m \in Loops, NEW d \in Conns, d \in active'[m]
      PROVE  d \in enabled'
  <2>1. d \in enabled /\ home[d] = m
    BY <1>4, <1>5 DEF IInv, ConnInv, OpenOf
  <2> QED BY <1>1, <1>3, <1>4, <1>5, <2>1
<1>6. /\ \A d \in Conns : state'[d] = "Connecting" <=> state[d] = "Connecting"
      /\ \A d \in Conns : state'[d] = "Disconnected" <=> state[d] = "Disconnected"
  BY <1>1 DEF TInv, ConnT
<1>7. HeldInv'
  BY <1>1, <1>3, <1>6 DEF IInv, HeldInv, TInv, UserT
<1>8. enabled' \subseteq enabled
  BY <1>1
<1> QED BY <1>1, <1>2, <1>4, <1>5, <1>6, <1>7, <1>8, QuietInv

\* A user thread queues its Send or Shutdown.
LEMMA CallInv ==
  ASSUME TInv, IInv, NEW u \in Users, QueueCall(u)
  PROVE  IInv'
<1>1. PICK c \in Conns, k \in Raw : c = held[u] /\ k = pc[u]
  BY DEF QueueCall, TInv, UserT, Raw
<1>2. /\ QueueInLoop(home[c], <<k, c>>)
      /\ late' = IF DestroyTaken(c) THEN late \cup {c} ELSE late
      /\ UNCHANGED <<nextConn, home, at, active, batch, done, held>>
      /\ UNCHANGED <<connections, state, enabled, registered, ran, unsettled>>
  BY <1>1 DEF QueueCall, acceptVars, connVars, chanVars
<1>3. ConnInv(c) /\ home[c] \in Loops /\ ran[c].destroyed \in Nat
  BY Counts DEF IInv, TInv, PoolT
<1>4. k \in Kinds /\ k \notin {"established", "remove", "destroy"} /\ 0 \notin Conns
  BY BoundAssumption DEF Raw, Kinds, Conns
<1>5. state[c] # "Connecting" /\ c < nextConn
  <2>1. state[c] # "Connecting"
    BY <1>1, <1>4 DEF IInv, HeldInv
  <2> QED BY <1>3, <2>1 DEF ConnInv, StateOf
<1>6. \A m \in Loops, j \in Kinds, d \in Conns :
        In(queue'[m], <<j, d>>) <=>
          In(queue[m], <<j, d>>) \/ (m = home[c] /\ j = k /\ d = c)
  <2>1. <<k, c>> \in Functors
    BY <1>4 DEF Functors, Kinds
  <2>2. \A m \in Loops : \A g :
          In(queue'[m], g) <=> In(queue[m], g) \/ (m = home[c] /\ g = <<k, c>>)
    BY <1>2, <1>3, <2>1, QueueIn DEF TInv
  <2> QED BY <2>2
<1>7. \A m \in Loops, j \in Kinds :
        Pending(m, <<j, c>>)' <=> Pending(m, <<j, c>>) \/ (m = home[c] /\ j = k)
  BY <1>2, <1>6 DEF Pending
<1>8. \A m \in Loops : Stopped(m)' <=> Stopped(m)
  BY <1>2 DEF Stopped
<1>9. Touched(c)
  BY <1>2, <1>6 DEF Touched
<1>10. PlaceInv' /\ HeldInv'
  BY <1>2 DEF IInv, PlaceInv, HeldInv
<1>11. OrderInv'
  <2>1. Shrunk
    BY <1>2 DEF Shrunk, OrderInv, IInv
  <2> QED BY <1>1, <1>2, <1>3, <1>4, <2>1, AppendOrder DEF TInv, IInv
<1>12. ConnInv(c)'
  <2>1. /\ Lost(c)' <=> Lost(c)
        /\ Pending(home[c], <<"destroy", c>>)' <=> Pending(home[c], <<"destroy", c>>)
        /\ Pending(Base, <<"remove", c>>)' <=> Pending(Base, <<"remove", c>>)
    BY <1>2, <1>3, <1>4, <1>6, <1>8, LoopsFacts DEF Lost, Stopped, Pending, Kinds
  <2>2. StateOf(c)'
    BY <1>2, <1>3, <1>5 DEF ConnInv, StateOf
  <2>3. OpenOf(c)' /\ LifeOf(c)'
    BY <1>2, <1>3, <2>1 DEF ConnInv, OpenOf, LifeOf
  <2>4. FunctorOf(c)'
    BY <1>2, <1>3, <1>4, <1>5, <1>7 DEF ConnInv, FunctorOf, Kinds
  <2>5. PendingOf(c)'
    BY <1>2, <1>3, <1>4, <1>5, <1>7, <1>8, LoopsFacts DEF ConnInv, PendingOf, Kinds
  <2>6. SendOf(c)'
    <3>1. ASSUME NEW m \in Loops, NEW j \in Raw, ~Stopped(m)', In(queue'[m], <<j, c>>)
          PROVE  c \in late' \/ c \in connections' \/ In(queue'[m], <<"destroy", c>>)
      <4>1. j \in Kinds /\ "destroy" \in Kinds
        BY DEF Raw, Kinds
      <4>2. CASE In(queue[m], <<j, c>>)
        BY <1>2, <1>3, <1>6, <1>8, <3>1, <4>1, <4>2 DEF ConnInv, SendOf
      <4>3. CASE m = home[c]
        <5>1. c \in late' \/ (ran[c].destroyed = 0 /\ ~In(batch[m], <<"destroy", c>>))
          BY <1>2, <1>3, <4>3 DEF DestroyTaken, InBatch, In
        <5>2. ~Lost(c)
          BY <1>8, <3>1, <4>3 DEF Lost
        <5> QED BY <1>2, <1>3, <1>5, <1>6, <4>1, <4>3, <5>1, <5>2 DEF ConnInv, LifeOf, Pending
      <4> QED BY <1>6, <3>1, <4>1, <4>2, <4>3
    <3>2. ASSUME NEW m \in Loops, NEW j \in Raw, ~Stopped(m)', In(batch'[m], <<j, c>>)
          PROVE  \/ c \in late' \/ c \in connections' \/ Pending(m, <<"destroy", c>>)'
                 \/ c \in done'[m]
      <4>1. "destroy" \in Kinds
        BY DEF Kinds
      <4> QED BY <1>2, <1>3, <1>7, <1>8, <3>2, <4>1 DEF ConnInv, SendOf
    <3> QED BY <3>1, <3>2 DEF SendOf
  <2> QED BY <2>2, <2>3, <2>4, <2>5, <2>6 DEF ConnInv
<1> QED BY <1>8, <1>9, <1>10, <1>11, <1>12, TouchInv

\* What else a user thread does.
LEMMA UserInv ==
  ASSUME TInv, IInv, NEW u \in Users,
         BeginSend(u) \/ BeginShutdown(u) \/ SetDisconnecting(u) \/ LetGo(u)
  PROVE  IInv'
<1>1. /\ UNCHANGED <<nextConn, home, at, active, queue, batch, done, late>>
      /\ UNCHANGED <<connections, enabled, registered, ran>>
  BY DEF BeginSend, BeginShutdown, Begin, SetDisconnecting, LetGo, acceptVars, connVars,
         chanVars, loopVars
<1>2. ASSUME NEW l \in Loops, NEW c \in Conns, c \in active'[l]
      PROVE  c \in enabled'
  BY <1>1, <1>2 DEF IInv, ConnInv, OpenOf
<1>3. \A l \in Loops : active'[l] \subseteq active[l]
  BY <1>1
<1>4. CASE BeginSend(u) \/ BeginShutdown(u) \/ LetGo(u)
  <2>1. UNCHANGED <<state, unsettled>> /\ (UNCHANGED held \/ held' = [held EXCEPT ![u] = 0])
    BY <1>4 DEF BeginSend, BeginShutdown, Begin, LetGo, connVars, chanVars
  <2>2. HeldInv'
    BY <2>1 DEF IInv, HeldInv, TInv, UserT
  <2> QED BY <1>1, <1>2, <1>3, <2>1, <2>2, QuietInv
<1>5. CASE SetDisconnecting(u)
  <2>1. PICK c \in Conns : c = held[u]
    BY <1>5 DEF SetDisconnecting, TInv, UserT
  <2>2. /\ UNCHANGED held /\ state' = [state EXCEPT ![c] = "Disconnecting"]
        /\ unsettled' = IF state[c] = "Disconnected" THEN unsettled \cup {c} ELSE unsettled
    BY <1>5, <2>1 DEF SetDisconnecting
  <2>3. state[c] # "Connecting"
    <3>1. 0 \notin Conns
      BY BoundAssumption DEF Conns
    <3> QED BY <2>1, <3>1 DEF IInv, HeldInv
  <2>4. state'[c] = "Disconnecting" /\ \A d \in Conns : d # c => state'[d] = state[d]
    BY <2>2 DEF TInv, ConnT
  <2>5. HeldInv'
    BY <2>2, <2>4, HeldKept DEF IInv, TInv
  <2>6. \A d \in Conns :
          /\ state'[d] = "Connecting" <=> state[d] = "Connecting"
          /\ (state'[d] = "Disconnected" \/ d \in unsettled')
               <=> (state[d] = "Disconnected" \/ d \in unsettled)
    BY <2>2, <2>3, <2>4
  <2>7. unsettled \subseteq unsettled'
    BY <2>2
  <2> QED BY <1>1, <1>2, <1>3, <2>5, <2>6, <2>7, QuietInv
<1> QED BY <1>4, <1>5

\* ~TcpServer destroys a connection of the base loop itself.
LEMMA DestructorOnBaseInv ==
  ASSUME TInv, IInv, NEW c \in Conns, DestroyConnection(c), home[c] = Base
  PROVE  IInv'
<1>1. /\ at[Base] = "stopped" /\ c \in connections /\ connections' = connections \ {c}
      /\ ConnectDestroyed(c)
      /\ UNCHANGED <<nextConn, home, at, active, queue, batch, done, held, late>>
  BY DEF DestroyConnection, acceptVars, userVars
<1>2. /\ enabled' = enabled \ {c} /\ registered' = registered \ {c}
      /\ state' = [state EXCEPT ![c] = IF @ = "Connected" THEN "Disconnected" ELSE @]
      /\ ran'[c].destroyed = ran[c].destroyed + 1
      /\ ran'[c].closed = ran[c].closed /\ ran'[c].established = ran[c].established
      /\ \A d \in Conns : d # c => ran'[d] = ran[d]
      /\ unsettled' = IF state[c] = "Disconnecting" THEN unsettled \cup {c} ELSE unsettled
  BY <1>1, CountType DEF ConnectDestroyed, TInv, ConnT
<1>3. /\ ConnInv(c) /\ Base \in Loops /\ Stopped(Base)
      /\ ran[c].destroyed \in Nat /\ state[c] \in States
  BY <1>1, Counts, LoopsFacts DEF IInv, TInv, Stopped
<1>4. /\ state'[c] = IF state[c] = "Connected" THEN "Disconnected" ELSE state[c]
      /\ \A d \in Conns : d # c => state'[d] = state[d]
  BY <1>2 DEF TInv, ConnT
<1>5. /\ ran[c].destroyed = 0 /\ c < nextConn /\ state[c] # "Connecting"
      /\ \A l \in Loops : ~Pending(l, <<"destroy", c>>)
  <2>1. ran[c].destroyed = 0
    BY <1>1, <1>3 DEF ConnInv, LifeOf
  <2>2. ~Lost(c) /\ ~Pending(Base, <<"established", c>>)
    BY <1>3 DEF ConnInv, FunctorOf, Lost
  <2>3. c < nextConn
    BY <1>1, <1>3 DEF ConnInv, StateOf
  <2>4. state[c] # "Connecting"
    BY <1>3, <2>2, <2>3 DEF ConnInv, StateOf
  <2> QED BY <1>1, <1>3, <2>1, <2>3, <2>4 DEF ConnInv, PendingOf
<1>6. \A l \in Loops : Stopped(l)' <=> Stopped(l)
  BY <1>1 DEF Stopped
<1>7. \A l \in Loops : \A f : Pending(l, f)' <=> Pending(l, f)
  BY <1>1 DEF Pending
<1>8. Touched(c)
  <2>1. \A d \in Conns : d # c =>
          /\ d \in connections' <=> d \in connections
          /\ d \in registered' <=> d \in registered
          /\ d \in enabled' <=> d \in enabled
          /\ d \in unsettled' <=> d \in unsettled
    BY <1>1, <1>2
  <2> QED BY <1>1, <1>2, <1>4, <2>1 DEF Touched
<1>9. PlaceInv' /\ HeldInv'
  <2>1. \A d \in Conns : state'[d] = "Connecting" => state[d] = "Connecting"
    BY <1>4
  <2> QED BY <1>1, <2>1, HeldKept DEF IInv, PlaceInv, TInv
<1>10. OrderInv'
  <2>1. Shrunk
    BY <1>1, <1>2 DEF Shrunk, OrderInv, IInv
  <2> QED BY <1>1, <2>1, ShrunkOrder DEF IInv
<1>11. ConnInv(c)'
  <2>1. ran'[c].destroyed > 0 /\ ran'[c].destroyed = 1
    BY <1>2, <1>5
  <2>2. state'[c] # "Connecting" /\ (state'[c] = "Disconnected" \/ c \in unsettled')
    BY <1>2, <1>3, <1>4, <1>5 DEF States
  <2>3. StateOf(c)'
    BY <1>1, <1>2, <1>3, <1>5, <2>1, <2>2 DEF ConnInv, StateOf
  <2>4. FunctorOf(c)'
    BY <1>1, <1>3, <1>7 DEF ConnInv, FunctorOf
  <2>5. OpenOf(c)'
    <3>1. \A l \in Loops : c \notin active'[l]
      BY <1>1, <1>3 DEF ConnInv, OpenOf, IInv, PlaceInv
    <3> QED BY <1>2, <3>1 DEF OpenOf
  <2>6. PendingOf(c)'
    BY <1>1, <1>2, <1>3, <1>5, <1>6, <1>7, <2>2 DEF ConnInv, PendingOf
  <2>7. LifeOf(c)'
    BY <1>1, <1>2, <2>1 DEF LifeOf
  <2>8. SendOf(c)'
    <3>1. ASSUME NEW l \in Loops, NEW k \in Raw, In(queue'[l], <<k, c>>) \/ In(batch'[l], <<k, c>>)
          PROVE  Stopped(l)'
      <4>1. Pending(l, <<k, c>>) /\ k \in Kinds /\ k # "remove"
        BY <1>1, <3>1 DEF Pending, Raw, Kinds
      <4>2. l = Base
        BY <1>3, <4>1 DEF ConnInv, FunctorOf
      <4> QED BY <1>3, <1>6, <4>2
    <3> QED BY <3>1 DEF SendOf
  <2> QED BY <2>3, <2>4, <2>5, <2>6, <2>7, <2>8 DEF ConnInv
<1> QED BY <1>6, <1>8, <1>9, <1>10, <1>11, TouchInv

\* ~TcpServer queues the ConnectDestroyed of a connection of an io loop.
LEMMA DestructorOnIoInv ==
  ASSUME TInv, IInv, NEW c \in Conns, DestroyConnection(c), home[c] # Base
  PROVE  IInv'
<1>1. /\ at[Base] = "stopped" /\ c \in connections /\ connections' = connections \ {c}
      /\ QueueInLoop(home[c], <<"destroy", c>>)
      /\ UNCHANGED <<state, enabled, registered, ran, unsettled>>
      /\ UNCHANGED <<nextConn, home, at, active, batch, done, held, late>>
  BY DEF DestroyConnection, acceptVars, userVars, chanVars
<1>2. /\ ConnInv(c) /\ Base \in Loops /\ home[c] \in Loops /\ Stopped(Base)
      /\ ran[c].destroyed \in Nat /\ "destroy" \in Kinds
  BY <1>1, Counts, LoopsFacts DEF IInv, TInv, PoolT, Stopped, Kinds
<1>3. ran[c].destroyed = 0 /\ \A l \in Loops : ~Pending(l, <<"destroy", c>>)
  BY <1>1, <1>2 DEF ConnInv, LifeOf, PendingOf
<1>4. c < nextConn
  BY <1>1, <1>2 DEF ConnInv, StateOf
<1>5. \A m \in Loops, j \in Kinds, d \in Conns :
        In(queue'[m], <<j, d>>) <=>
          In(queue[m], <<j, d>>) \/ (m = home[c] /\ j = "destroy" /\ d = c)
  <2>1. <<"destroy", c>> \in Functors
    BY DEF Functors
  <2>2. \A m \in Loops : \A g :
          In(queue'[m], g) <=> In(queue[m], g) \/ (m = home[c] /\ g = <<"destroy", c>>)
    BY <1>1, <1>2, <2>1, QueueIn DEF TInv
  <2> QED BY <2>2
<1>6. \A m \in Loops, j \in Kinds :
        Pending(m, <<j, c>>)' <=> Pending(m, <<j, c>>) \/ (m = home[c] /\ j = "destroy")
  BY <1>1, <1>5 DEF Pending
<1>7. \A l \in Loops : Stopped(l)' <=> Stopped(l)
  BY <1>1 DEF Stopped
<1>8. Touched(c)
  <2>1. \A d \in Conns : d # c => (d \in connections' <=> d \in connections)
    BY <1>1
  <2> QED BY <1>1, <1>5, <2>1 DEF Touched
<1>9. PlaceInv' /\ HeldInv'
  BY <1>1 DEF IInv, PlaceInv, HeldInv
<1>10. OrderInv'
  <2>1. Shrunk
    BY <1>1 DEF Shrunk, OrderInv, IInv
  <2> QED BY <1>1, <1>2, <1>3, <2>1, AppendOrder DEF TInv, IInv
<1>11. In(queue'[home[c]], <<"destroy", c>>) /\ Pending(home[c], <<"destroy", c>>)'
  BY <1>1, <1>2, <1>5 DEF Pending
<1>12. ConnInv(c)'
  <2>1. Lost(c)' <=> Lost(c)
    BY <1>1, <1>2, <1>7 DEF Lost, Stopped
  <2>2. Pending(home[c], <<"established", c>>) => Pending(home[c], <<"established", c>>)'
    BY <1>1, <1>2, <1>5 DEF Pending, Kinds
  <2>3. StateOf(c)' /\ OpenOf(c)'
    BY <1>1, <1>2, <1>4, <2>1, <2>2 DEF ConnInv, StateOf, OpenOf
  <2>4. FunctorOf(c)'
    BY <1>1, <1>2, <1>4, <1>6 DEF ConnInv, FunctorOf, Kinds
  <2>5. PendingOf(c)'
    BY <1>1, <1>2, <1>3, <1>6, <1>7 DEF ConnInv, PendingOf, Kinds, Raw
  <2>6. LifeOf(c)'
    BY <1>1, <1>2, <1>3, <1>11, <2>1 DEF ConnInv, LifeOf
  <2>7. SendOf(c)'
    <3>1. ASSUME NEW m \in Loops, NEW k \in Raw
          PROVE  In(queue'[m], <<k, c>>) \/ In(batch'[m], <<k, c>>) =>
                   In(queue'[m], <<"destroy", c>>)
      <4>1. k \in Kinds /\ k # "remove" /\ k # "destroy"
        BY DEF Raw, Kinds
      <4>2. In(queue'[m], <<k, c>>) \/ In(batch'[m], <<k, c>>) => m = home[c]
        BY <1>1, <1>2, <1>5, <4>1 DEF ConnInv, FunctorOf, Pending
      <4> QED BY <1>11, <4>2
    <3> QED BY <3>1 DEF SendOf, Pending
  <2> QED BY <2>3, <2>4, <2>5, <2>6, <2>7 DEF ConnInv
<1> QED BY <1>7, <1>8, <1>9, <1>10, <1>12, TouchInv

LEMMA StepInv ==
  ASSUME TInv, IInv, [Next]_vars
  PROVE  IInv'
<1>1. CASE Start \/ ClientConnects \/ QuitBase \/ (\E i \in 1..Len(loops) : QuitIoLoop(i))
           \/ DestroyAcceptor \/ UNCHANGED vars
  <2>1. /\ UNCHANGED <<nextConn, home, at, queue, batch, done, late, active, held>>
        /\ UNCHANGED <<connections, state, enabled, registered, ran, unsettled>>
    BY <1>1 DEF Start, ClientConnects, QuitBase, QuitIoLoop, DestroyAcceptor, vars,
                acceptVars, poolVars, connVars, chanVars, loopVars, userVars
  <2>2. \A l \in Loops, c \in Conns : c \in active'[l] => c \in enabled'
    BY <2>1 DEF IInv, ConnInv, OpenOf
  <2>3. HeldInv'
    BY <2>1 DEF IInv, HeldInv
  <2> QED BY <2>1, <2>2, <2>3, QuietInv
<1>2. CASE \E c \in Conns : DestroyConnection(c)
  BY <1>2, DestructorOnBaseInv, DestructorOnIoInv
<1>3. CASE \E u \in Users : BeginSend(u) \/ BeginShutdown(u) \/ UserStep(u)
  BY <1>3, UserInv, CallInv DEF UserStep
<1>4. ASSUME NEW l \in Loops, LoopStep(l)
      PROVE  IInv'
  <2>1. CASE EpollWait(l)
    BY <2>1, PollInv
  <2>2. CASE HandleAccept
    BY <2>2, NewCases, BaseConnectionInv, IoConnectionInv DEF HandleAccept, TInv
  <2>3. CASE AcceptFails
    <3>1. /\ UNCHANGED <<nextConn, home, at, queue, batch, done, late, held>>
          /\ UNCHANGED <<connections, state, enabled, registered, ran, unsettled>>
          /\ active' = [active EXCEPT ![Base] = @ \ {0}]
      BY <2>3 DEF AcceptFails, acceptVars, userVars, connVars, chanVars
    <3>2. \A k \in Loops : active'[k] \subseteq active[k]
      BY <3>1 DEF TInv, LoopT
    <3>3. \A k \in Loops, c \in Conns : c \in active'[k] => c \in enabled'
      BY <3>1, <3>2 DEF IInv, ConnInv, OpenOf
    <3>4. HeldInv'
      BY <3>1 DEF IInv, HeldInv
    <3> QED BY <3>1, <3>2, <3>3, <3>4, QuietInv
  <2>4. ASSUME NEW c \in Conns,
               \/ IgnoreEvent(l, c) \/ HandleMessage(l, c) \/ Shutdown(l, c)
               \/ DisableWriting(l, c) \/ HandleClose(l, c)
        PROVE  IInv'
    BY <2>4, EventInv, CloseInv
  <2> QED BY <1>4, <2>1, <2>2, <2>3, <2>4, TakeInv, RunInv, EndInv DEF LoopStep
<1> QED BY <1>1, <1>2, <1>3, <1>4 DEF Next, Destructor

LEMMA InvHolds == Spec => [](TInv /\ IInv)
BY InitTypes, InitInv, StepTypes, StepInv, PTL DEF Spec

-----------------------------------------------------------------------------
(* The theorems.                                                           *)

LEMMA PendingIsAlive ==
  ASSUME NEW l \in Loops, NEW c \in Conns, NEW k \in {"established", "remove", "destroy"},
         Pending(l, <<k, c>>)
  PROVE  Alive(c)
BY DEF Pending, In, Alive, Bound, Queued, InBatch

LEMMA RegisteredAlive ==
  ASSUME TInv, IInv
  PROVE  RegisteredAreAlive
<1>1. SUFFICES ASSUME NEW c \in registered, c \notin unsettled
               PROVE  Alive(c)
  BY DEF RegisteredAreAlive
<1>2. c \in Conns /\ home[c] \in Loops /\ ConnInv(c) /\ ran[c].destroyed \in Nat
  BY <1>1, Counts DEF TInv, ConnT, PoolT, IInv
<1>3. c < nextConn
  BY <1>1, <1>2 DEF ConnInv, StateOf
<1>4. c \in connections \/ Pending(home[c], <<"destroy", c>>)
  BY <1>1, <1>2, <1>3 DEF ConnInv, LifeOf
<1> QED BY <1>2, <1>4, PendingIsAlive DEF Alive

\* No poller keeps the Channel of a connection that has been freed, whatever
\* the order in which closes, removals, queued Sends, Shutdowns and the
\* destructor run in the loops, unless the connection is unsettled.
THEOREM RegisteredLive == Spec => []RegisteredAreAlive
BY InvHolds, RegisteredAlive, PTL

\* No loop handles an event of a connection that has been freed, unless it is
\* unsettled: the users let go of it between epoll_wait and HandleEvent as they
\* like.
THEOREM ActiveLive == Spec => []ActiveAreAlive
<1>1. TInv /\ IInv => ActiveAreAlive
  <2>1. SUFFICES ASSUME TInv, IInv, NEW l \in Loops, NEW c \in active[l] \ {0}
                 PROVE  Alive(c) \/ c \in unsettled
    BY DEF ActiveAreAlive
  <2>2. c \in Conns
    BY <2>1 DEF TInv, LoopT
  <2>3. c \in registered
    BY <2>1, <2>2, OpenFacts
  <2> QED BY <2>1, <2>3, RegisteredAlive DEF RegisteredAreAlive
<1> QED BY <1>1, InvHolds, PTL

\* A connection that is not unsettled is destroyed once at most, after the
\* server has let go of it; and of no connection is a close or the
\* ConnectDestroyed forgotten.
THEOREM DestroyedOnceOnly == Spec => []DestroyedOnce
<1>1. TInv /\ IInv => DestroyedOnce
  <2>1. SUFFICES ASSUME TInv, IInv, NEW c \in Conns
                 PROVE  /\ ran[c].destroyed <= 1 \/ c \in unsettled
                        /\ ran[c].destroyed > 0 => c \notin connections
                        /\ ran[c].closed > 0 /\ c \in connections =>
                             Queued(Base, <<"remove", c>>) \/ InBatch(Base, <<"remove", c>>)
                        /\ c < nextConn /\ c \notin connections =>
                             \/ ran[c].destroyed > 0 \/ DestroyComing(c)
                             \/ home[c] # Base /\ Stopped(home[c])
    BY DEF DestroyedOnce
  <2>2. ran[c].destroyed \in Nat /\ ConnInv(c)
    BY <2>1, Counts DEF TInv, IInv
  <2>3. \A l, f : Pending(l, f) <=> Queued(l, f) \/ InBatch(l, f)
    BY DEF Pending, In, Queued, InBatch
  <2>4. /\ ran[c].destroyed <= 1 \/ c \in unsettled
        /\ ran[c].destroyed > 0 => c \notin connections
    BY <2>2 DEF ConnInv, LifeOf
  <2>5. ran[c].closed > 0 /\ c \in connections =>
          Queued(Base, <<"remove", c>>) \/ InBatch(Base, <<"remove", c>>)
    BY <2>2, <2>3 DEF ConnInv, LifeOf
  <2>6. c < nextConn /\ c \notin connections =>
          \/ ran[c].destroyed > 0 \/ DestroyComing(c)
          \/ home[c] # Base /\ Stopped(home[c])
    BY <2>2, <2>3 DEF ConnInv, LifeOf, DestroyComing, Lost
  <2> QED BY <2>4, <2>5, <2>6
<1> QED BY <1>1, InvHolds, PTL

\* A queued Send or Shutdown finds its connection, unless it was queued after
\* the loop had taken the ConnectDestroyed from its queue.
THEOREM RawThisLive == Spec => []RawThisIsAlive
<1>1. TInv /\ IInv => RawThisIsAlive
  <2>1. SUFFICES ASSUME TInv, IInv, NEW l \in Loops, NEW c \in Conns, batch[l] # <<>>,
                        Head(batch[l]) \in {<<"send", c>>, <<"shutdown", c>>}
                 PROVE  Alive(c) \/ c \in late
    BY DEF RawThisIsAlive
  <2>2. PICK k \in Raw : In(batch[l], <<k, c>>)
    <3>1. batch[l] \in Seq(Functors)
      BY <2>1 DEF TInv, LoopT
    <3> QED BY <2>1, <3>1, HeadIn DEF Raw
  <2>3. ~Stopped(l)
    BY <2>1 DEF IInv, PlaceInv, Stopped
  <2>4. c \in late \/ c \in connections \/ Pending(l, <<"destroy", c>>) \/ c \in done[l]
    BY <2>1, <2>2, <2>3 DEF IInv, ConnInv, SendOf
  <2>5. c \in done[l] \/ c \in connections => Alive(c)
    BY DEF Alive
  <2> QED BY <2>4, <2>5, PendingIsAlive
<1> QED BY <1>1, InvHolds, PTL

-----------------------------------------------------------------------------
(***************************************************************************)
(* The life of a connection, see ConnectionLife.                           *)
(***************************************************************************)
Released(c) == c < nextConn /\ c \notin connections

\* What a handler that runs finds.
Moves ==
  \/ UNCHANGED ran
  \/ \E c \in Conns :
       \/ /\ Count(c, "established")
          /\ ran[c].established = 0 /\ ran[c].closed = 0 /\ ran[c].destroyed = 0
       \/ /\ Count(c, "closed") /\ ran[c].established = 1
          /\ c \in unsettled \/ (ran[c].closed = 0 /\ ran[c].destroyed = 0)
       \/ /\ Count(c, "destroyed") /\ ran[c].established = 1 /\ Released(c)'
          /\ c \in unsettled \/ ran[c].destroyed = 0

LEMMA AcceptMoves ==
  ASSUME TInv, IInv, HandleAccept
  PROVE  Moves /\ nextConn' = nextConn + 1 /\ connections' = connections \cup {nextConn}
         /\ UNCHANGED unsettled
<1>1. PICK n \in Conns : n = nextConn
  BY AcceptTypes
<1>2. /\ nextConn' = nextConn + 1 /\ connections' = connections \cup {nextConn}
      /\ UNCHANGED chanVars \/ ConnectEstablished(n)
  BY <1>1, NewCases DEF HandleAccept, TInv, OnBase, OnIoLoop
<1>3. ran[n].established = 0 /\ ran[n].closed = 0 /\ ran[n].destroyed = 0
  <2>1. ~(n < nextConn)
    BY <1>1 DEF Conns
  <2> QED BY <2>1, FreshFacts
<1> QED BY <1>2, <1>3 DEF Moves, ConnectEstablished, chanVars

LEMMA CloseMoves ==
  ASSUME TInv, IInv, NEW l \in Loops, NEW c \in Conns, HandleClose(l, c)
  PROVE  Moves /\ UNCHANGED <<nextConn, unsettled>> /\ connections' \subseteq connections
<1>1. /\ c \in active[l] /\ Count(c, "closed") /\ UNCHANGED <<nextConn, unsettled>>
      /\ connections' \subseteq connections
  BY CloseFacts DEF HandleClose
<1>2. /\ state[c] # "Connecting"
      /\ c \notin unsettled => ran[c].closed = 0 /\ ran[c].destroyed = 0
  BY <1>1, OpenFacts
<1>3. ran[c].established = 1
  BY <1>2 DEF IInv, ConnInv, StateOf
<1> QED BY <1>1, <1>2, <1>3 DEF Moves

LEMMA RunMoves ==
  ASSUME TInv, IInv, NEW l \in Loops, RunFunctor(l)
  PROVE  /\ Moves /\ UNCHANGED nextConn /\ connections' \subseteq connections
         /\ unsettled \subseteq unsettled'
<1>1. PICK k \in Kinds, c \in Conns : Head(batch[l]) = <<k, c>>
  <2>1. Head(batch[l]) \in Functors
    BY HeadType DEF RunFunctor, TInv
  <2> QED BY <2>1 DEF Functors, Kinds
<1>2. \/ k = "established" /\ ConnectEstablished(c) /\ UNCHANGED connections
      \/ k = "destroy" /\ ConnectDestroyed(c) /\ UNCHANGED connections
      \/ UNCHANGED ran /\ connections' \subseteq connections /\ unsettled \subseteq unsettled'
  <2>1. Head(batch[l])[1] = k /\ Head(batch[l])[2] = c
    BY <1>1
  <2> QED BY <2>1 DEF RunFunctor, connVars, chanVars, RemoveConnectionInLoop, SendInLoop
<1>3. /\ UNCHANGED nextConn /\ Pending(l, <<k, c>>) /\ ConnInv(c)
  <2>1. In(batch[l], <<k, c>>)
    BY <1>1, HeadIn DEF RunFunctor, TInv, LoopT
  <2> QED BY <2>1 DEF Pending, IInv, RunFunctor, acceptVars
<1>4. CASE k = "established" /\ ConnectEstablished(c) /\ UNCHANGED connections
  <2>1. state[c] = "Connecting"
    BY <1>3, <1>4 DEF ConnInv, PendingOf
  <2>2. ran[c].established = 0 /\ ran[c].closed = 0 /\ ran[c].destroyed = 0
    BY <1>3, <2>1 DEF ConnInv, StateOf
  <2> QED BY <1>3, <1>4, <2>2 DEF Moves, ConnectEstablished
<1>5. CASE k = "destroy" /\ ConnectDestroyed(c) /\ UNCHANGED connections
  <2>1. /\ c \notin connections /\ (ran[c].destroyed = 0 \/ c \in unsettled)
        /\ c < nextConn /\ l = home[c]
    BY <1>3, <1>5 DEF ConnInv, PendingOf, FunctorOf
  <2>2. state[c] # "Connecting"
    <3>1. Runs(l, <<"destroy", c>>)
      BY <1>1, <1>5 DEF RunFunctor, Runs, ConnectDestroyed, acceptVars, userVars
    <3>2. PICK f : f = <<"destroy", c>>
      OBVIOUS
    <3>3. /\ ~In(batch'[l], <<"established", c>>) /\ ~In(queue[l], <<"established", c>>)
          /\ \A g : In(batch[l], g) /\ ~In(batch'[l], g) => g = f
          /\ ~Stopped(l)
      BY <3>1, <3>2, RunFacts
    <3>4. ~Pending(l, <<"established", c>>) /\ ~Lost(c)
      BY <2>1, <3>2, <3>3 DEF Pending, Lost
    <3> QED BY <1>3, <2>1, <3>4 DEF ConnInv, StateOf
  <2>3. ran[c].established = 1
    BY <1>3, <2>2 DEF ConnInv, StateOf
  <2>4. Count(c, "destroyed") /\ Released(c)' /\ unsettled \subseteq unsettled'
    BY <1>3, <1>5, <2>1 DEF ConnectDestroyed, Released
  <2> QED BY <1>3, <1>5, <2>1, <2>3, <2>4 DEF Moves
<1> QED BY <1>2, <1>3, <1>4, <1>5 DEF Moves

LEMMA DestructorMoves ==
  ASSUME TInv, IInv, NEW c \in Conns, DestroyConnection(c)
  PROVE  /\ Moves /\ UNCHANGED nextConn /\ connections' \subseteq connections
         /\ unsettled \subseteq unsettled'
<1>1. /\ c \in connections /\ connections' = connections \ {c} /\ UNCHANGED nextConn
      /\ (home[c] = Base /\ ConnectDestroyed(c)) \/ UNCHANGED chanVars
  BY DEF DestroyConnection, acceptVars
<1>2. CASE UNCHANGED chanVars
  BY <1>1, <1>2 DEF Moves, chanVars
<1>3. CASE home[c] = Base /\ ConnectDestroyed(c)
  <2>1. ConnInv(c) /\ ran[c].destroyed \in Nat /\ Base \in Loops
    BY Counts, LoopsFacts DEF IInv, TInv
  <2>2. c < nextConn /\ ran[c].destroyed = 0
    BY <1>1, <2>1 DEF ConnInv, StateOf, LifeOf
  <2>3. ~Lost(c) /\ ~Pending(Base, <<"established", c>>)
    BY <1>3, <2>1 DEF ConnInv, FunctorOf, Lost
  <2>4. ran[c].established = 1
    BY <1>3, <2>1, <2>2, <2>3 DEF ConnInv, StateOf
  <2>5. Count(c, "destroyed") /\ Released(c)' /\ unsettled \subseteq unsettled'
    BY <1>1, <1>3, <2>2 DEF ConnectDestroyed, Released
  <2> QED BY <1>1, <2>2, <2>4, <2>5 DEF Moves
<1> QED BY <1>1, <1>2, <1>3

LEMMA StepMoves ==
  ASSUME TInv, IInv, [Next]_vars
  PROVE  /\ Moves /\ unsettled \subseteq unsettled'
         /\ \A c \in Conns : Released(c) => Released(c)'
<1> DEFINE Kept == /\ Moves /\ UNCHANGED nextConn /\ connections' \subseteq connections
                   /\ unsettled \subseteq unsettled'
<1>1. Kept => /\ Moves /\ unsettled \subseteq unsettled'
              /\ \A c \in Conns : Released(c) => Released(c)'
  BY DEF Released
<1>2. CASE HandleAccept
  <2>1. /\ Moves /\ nextConn' = nextConn + 1 /\ connections' = connections \cup {nextConn}
        /\ UNCHANGED unsettled
    BY <1>2, AcceptMoves
  <2>2. nextConn \in Nat
    BY DEF TInv, AcceptT
  <2>3. \A c \in Conns : c \in Nat
    BY DEF Conns
  <2> QED BY <2>1, <2>2, <2>3 DEF Released
<1>3. CASE \E l \in Loops, c \in Conns : HandleClose(l, c)
  <2>1. Kept
    BY <1>3, CloseMoves
  <2> QED BY <1>1, <2>1
<1>4. CASE \E l \in Loops : RunFunctor(l)
  <2>1. Kept
    BY <1>4, RunMoves
  <2> QED BY <1>1, <2>1
<1>5. CASE \E c \in Conns : DestroyConnection(c)
  <2>1. Kept
    BY <1>5, DestructorMoves
  <2> QED BY <1>1, <2>1
<1>6. CASE UNCHANGED <<nextConn, connections, ran>> /\ unsettled \subseteq unsettled'
  BY <1>1, <1>6 DEF Moves
<1>7. ASSUME NEW l \in Loops, LoopStep(l)
      PROVE  \/ HandleAccept \/ RunFunctor(l) \/ \E c \in Conns : HandleClose(l, c)
             \/ UNCHANGED <<nextConn, connections, ran>> /\ unsettled \subseteq unsettled'
  BY <1>7 DEF LoopStep, EpollWait, AcceptFails, IgnoreEvent, HandleMessage, Shutdown,
              DisableWriting, Handling, DoPendingFunctors, EndPendingFunctors, acceptVars,
              connVars, chanVars
<1>8. ASSUME \/ Start \/ ClientConnects \/ QuitBase \/ DestroyAcceptor \/ UNCHANGED vars
             \/ \E i \in 1..Len(loops) : QuitIoLoop(i)
             \/ \E u \in Users : BeginSend(u) \/ BeginShutdown(u) \/ UserStep(u)
      PROVE  UNCHANGED <<nextConn, connections, ran>> /\ unsettled \subseteq unsettled'
  BY <1>8 DEF Start, ClientConnects, QuitBase, DestroyAcceptor, QuitIoLoop, BeginSend,
              BeginShutdown, Begin, UserStep, SetDisconnecting, QueueCall, LetGo, vars,
              acceptVars, connVars, chanVars
<1> HIDE DEF Kept
<1> QED BY <1>2, <1>3, <1>4, <1>5, <1>6, <1>7, <1>8 DEF Next, Destructor

\* The steps of ConnectionLife, in terms of the counts.
LEMMA StepLife ==
  ASSUME TInv, IInv, TInv', IInv', [Next]_vars
  PROVE  [Life!Next]_(Life!vars)
<1> DEFINE released == {c \in Conns : c < nextConn /\ c \notin connections}
<1>1. Moves /\ unsettled \subseteq unsettled' /\ \A c \in Conns : Released(c) => Released(c)'
  BY StepMoves
<1>2. released \subseteq released' /\ \A c \in Conns : Released(c)' => c \in released'
  BY <1>1 DEF Released
<1>3. ASSUME NEW c \in unsettled' \ unsettled
      PROVE  ran'[c].closed + ran'[c].destroyed > 0
  <2>1. c \in Conns
    BY DEF TInv, ConnT
  <2>2. ran'[c].closed > 0 \/ ran'[c].destroyed > 0
    BY <2>1 DEF IInv, ConnInv, StateOf
  <2>3. ran'[c].closed \in Nat /\ ran'[c].destroyed \in Nat
    <3>1. ran'[c] \in [established : Nat, closed : Nat, destroyed : Nat]
      BY <2>1 DEF TInv, ConnT
    <3> QED BY <3>1
  <2> QED BY <2>2, <2>3
<1>4. \/ UNCHANGED ran
      \/ \E c \in Conns :
           Life!ConnectEstablished(c) \/ Life!HandleClose(c) \/ Life!ConnectDestroyed(c)
  <2>1. CASE UNCHANGED ran
    BY <2>1
  <2>2. ASSUME NEW c \in Conns, Count(c, "established"),
               ran[c].established = 0, ran[c].closed = 0, ran[c].destroyed = 0
        PROVE  Life!ConnectEstablished(c)
    <3>1. ran[c] \in [established : Nat, closed : Nat, destroyed : Nat]
      BY DEF TInv, ConnT
    <3>2. ran[c] = [established |-> 0, closed |-> 0, destroyed |-> 0]
      BY <2>2, <3>1
    <3> QED BY <2>2, <3>2 DEF Count, Life!ConnectEstablished, Life!Run, Life!Fresh
  <2>3. ASSUME NEW c \in Conns, Count(c, "closed"), ran[c].established = 1,
               c \in unsettled \/ (ran[c].closed = 0 /\ ran[c].destroyed = 0)
        PROVE  Life!HandleClose(c)
    BY <2>3 DEF Count, Life!HandleClose, Life!Run
  <2>4. ASSUME NEW c \in Conns, Count(c, "destroyed"), ran[c].established = 1, Released(c)',
               c \in unsettled \/ ran[c].destroyed = 0
        PROVE  Life!ConnectDestroyed(c)
    BY <1>2, <2>4 DEF Count, Life!ConnectDestroyed, Life!Run
  <2> QED BY <1>1, <2>1, <2>2, <2>3, <2>4 DEF Moves
<1> QED BY <1>1, <1>2, <1>3, <1>4 DEF Life!Next

\* The server leads every connection through the life of ConnectionLife,
\* whatever the number of clients, loops and users.  The handlers are counted,
\* so that the proof excludes every second run of one, and every close after
\* ConnectDestroyed, of a connection that is not unsettled.
THEOREM LifeRefinement == Spec => IsConnectionLife
<1>1. Init => Life!Init
  <2> SUFFICES ASSUME Init PROVE Life!Init
    OBVIOUS
  <2>1. {c \in Conns : c < nextConn /\ c \notin connections} = {}
    BY BoundAssumption DEF Init, Conns
  <2> QED BY <2>1 DEF Init, Life!Init, Life!Fresh
<1>2. TInv /\ IInv /\ (TInv /\ IInv)' /\ [Next]_vars => [Life!Next]_(Life!vars)
  BY StepLife
<1> QED BY <1>1, <1>2, InvHolds, PTL DEF Spec, IsConnectionLife, Life!Spec

-----------------------------------------------------------------------------
(***************************************************************************)
(* The dealing of connections to the io loops: those before _next have one *)
(* connection more than those from it on.                                  *)
(***************************************************************************)
Dealt(l) == {c \in 1..(nextConn - 1) : home[c] = l}

DealtInv ==
  /\ \A i, j \in 1..Len(loops) : loops[i] = loops[j] => i = j
  /\ \E q \in Nat : \A i \in 1..Len(loops) :
       Cardinality(Dealt(loops[i])) = IF i < nextLoop THEN q + 1 ELSE q

LEMMA InitDealt ==
  ASSUME Init
  PROVE  DealtInv
<1>1. Len(loops) = 0
  BY DEF Init
<1>2. 0 \in Nat
  OBVIOUS
<1> QED BY <1>1, <1>2 DEF DealtInv

LEMMA StartDealt ==
  ASSUME TInv, Start
  PROVE  DealtInv'
<1> USE DEF TInv
<1>1. PICK n \in 0..Len(IoLoops) : loops' = SubSeq(IoLoops, 1, n)
  BY DEF Start, StartPool
<1>2. /\ ~listening /\ at[Base] = "poll" /\ UNCHANGED <<nextConn, nextLoop, home>>
  BY DEF Start
<1>3. nextConn = 1 /\ nextLoop = 1
  BY <1>2 DEF AcceptT, PoolT, Stopped
<1>4. Len(loops') = n /\ n \in Nat /\ Len(IoLoops) \in Nat
  <2>1. IoLoops \in Seq({IoLoops[i] : i \in 1..Len(IoLoops)} \ {Base})
    BY LoopAssumption
  <2> QED BY <1>1, <2>1, LoopsFacts, LenProperties
<1>5. \A i \in 1..n : loops'[i] = IoLoops[i]
  <2>1. \A i \in 1..n : IoLoops[i] \in {IoLoops[j] : j \in 1..Len(IoLoops)}
    BY <1>4
  <2>2. \A i \in 1..(n - 1 + 1) : SubSeq(IoLoops, 1, n)[i] = IoLoops[1 + i - 1]
    BY <1>4, <2>1, SubSeqProperties
  <2>3. \A i \in 1..n : 1 + i - 1 = i /\ i \in 1..(n - 1 + 1)
    BY <1>4
  <2> QED BY <1>1, <2>2, <2>3
<1>6. \A i, j \in 1..Len(loops') : loops'[i] = loops'[j] => i = j
  <2>1. \A i \in 1..n : i \in 1..Len(IoLoops)
    BY <1>4
  <2>2. \A i, j \in 1..Len(IoLoops) : IoLoops[i] = IoLoops[j] => i = j
    BY LoopAssumption
  <2> QED BY <1>4, <1>5, <2>1, <2>2
<1>7. \A l : {c \in 1..(nextConn' - 1) : home'[c] = l} = {}
  BY <1>2, <1>3
<1>8. \A i \in 1..Len(loops') : Cardinality({c \in 1..(nextConn' - 1) : home'[c] = loops'[i]}) = 0
  BY <1>7, FS_EmptySet
<1>9. \A i \in 1..Len(loops') : ~(i < nextLoop')
  BY <1>2, <1>3, <1>4
<1>10. 0 \in Nat
  OBVIOUS
<1> QED BY <1>6, <1>8, <1>9, <1>10 DEF DealtInv, Dealt

\* The connection that HandleAccept makes goes to loops[nextLoop].
LEMMA AcceptDealt ==
  ASSUME TInv, DealtInv, HandleAccept
  PROVE  DealtInv'
<1> USE DEF TInv
<1>1. nextConn' = nextConn + 1 /\ UNCHANGED loops
  BY DEF HandleAccept, NewConnection, poolVars
<1>2. nextConn \in Conns /\ nextConn \in Nat \ {0} /\ home \in [Conns -> Loops]
  BY AcceptTypes DEF AcceptT, PoolT
<1>3. loops \in Seq(Loops \ {Base}) /\ Len(loops) \in Nat
  BY LenProperties DEF PoolT
<1>4. \A i, j \in 1..Len(loops) : loops[i] = loops[j] => i = j
  BY DEF DealtInv
<1>5. PICK q \in Nat : \A i \in 1..Len(loops) :
        Cardinality(Dealt(loops[i])) = IF i < nextLoop THEN q + 1 ELSE q
  BY DEF DealtInv
<1>6. CASE loops = <<>>
  <2>1. Len(loops) = 0
    BY <1>6
  <2> QED BY <1>1, <1>5, <2>1 DEF DealtInv
<1>7. CASE loops # <<>>
  <2>1. /\ home' = [home EXCEPT ![nextConn] = loops[nextLoop]]
        /\ nextLoop' = IF nextLoop + 1 > Len(loops) THEN 1 ELSE nextLoop + 1
    BY <1>7 DEF HandleAccept, NewConnection, GetNextLoop
  <2>2. nextLoop \in 1..Len(loops)
    BY <1>3, <1>7 DEF PoolT
  <2>3. \A l : IsFiniteSet(Dealt(l)) /\ nextConn \notin Dealt(l)
    <3>1. IsFiniteSet(1..(nextConn - 1))
      BY <1>2, FS_Interval
    <3>2. \A l : Dealt(l) \in SUBSET (1..(nextConn - 1))
      BY DEF Dealt
    <3>3. nextConn \notin 1..(nextConn - 1)
      BY <1>2
    <3> QED BY <3>1, <3>2, <3>3, FS_Subset
  <2>4. \A c \in 1..(nextConn - 1) : c # nextConn /\ c \in Conns
    BY <1>2, BoundAssumption DEF Conns
  <2>5. \A c \in 1..nextConn : c \in 1..(nextConn - 1) \/ c = nextConn
    BY <1>2
  <2>6. nextConn' - 1 = nextConn /\ nextConn \in 1..nextConn
        /\ \A c \in 1..(nextConn - 1) : c \in 1..nextConn
    BY <1>1, <1>2
  <2>7. /\ home'[nextConn] = loops[nextLoop]
        /\ \A c \in 1..(nextConn - 1) : home'[c] = home[c]
    BY <1>2, <2>1, <2>4
  <2>8. ASSUME NEW i \in 1..Len(loops)
        PROVE  Dealt(loops[i])' =
                 IF i = nextLoop THEN Dealt(loops[i]) \cup {nextConn} ELSE Dealt(loops[i])
    <3>1. loops[nextLoop] = loops[i] <=> i = nextLoop
      BY <1>4, <2>2, <2>8
    <3>2. {c \in 1..nextConn : home'[c] = loops[i]} =
            IF i = nextLoop THEN Dealt(loops[i]) \cup {nextConn} ELSE Dealt(loops[i])
      BY <2>5, <2>6, <2>7, <3>1 DEF Dealt
    <3>3. Dealt(loops[i])' = {c \in 1..nextConn : home'[c] = loops[i]}
      BY <1>1, <2>6 DEF Dealt
    <3> QED BY <3>2, <3>3
  <2>9. ASSUME NEW i \in 1..Len(loops)
        PROVE  Cardinality(Dealt(loops[i])') =
                 IF i <= nextLoop THEN q + 1 ELSE q
    <3>1. Cardinality(Dealt(loops[i])) = IF i < nextLoop THEN q + 1 ELSE q
      BY <1>5
    <3>2. Cardinality(Dealt(loops[i]) \cup {nextConn}) = Cardinality(Dealt(loops[i])) + 1
      BY <2>3, FS_AddElement
    <3>3. CASE i = nextLoop
      <4>1. Dealt(loops[i])' = Dealt(loops[i]) \cup {nextConn}
        BY <2>8, <3>3
      <4>2. Cardinality(Dealt(loops[i])) = q /\ i <= nextLoop
        BY <2>2, <3>1, <3>3
      <4> QED BY <3>2, <4>1, <4>2
    <3>4. CASE i # nextLoop
      <4>1. Dealt(loops[i])' = Dealt(loops[i])
        BY <2>8, <3>4
      <4>2. i < nextLoop <=> i <= nextLoop
        BY <1>3, <2>2, <3>4
      <4> QED BY <3>1, <4>1, <4>2
    <3> QED BY <3>3, <3>4
  <2>10. CASE nextLoop + 1 > Len(loops)
    <3>1. nextLoop' = 1 /\ \A i \in 1..Len(loops) : i <= nextLoop /\ ~(i < 1)
      BY <1>3, <2>1, <2>2, <2>10
    <3>2. \A i \in 1..Len(loops) :
            Cardinality(Dealt(loops[i])') = q + 1
      BY <2>9, <3>1
    <3>3. q + 1 \in Nat
      OBVIOUS
    <3> QED BY <1>1, <1>4, <3>1, <3>2, <3>3 DEF DealtInv
  <2>11. CASE ~(nextLoop + 1 > Len(loops))
    <3>1. nextLoop' = nextLoop + 1 /\ \A i \in 1..Len(loops) : i <= nextLoop <=> i < nextLoop'
      BY <1>3, <2>1, <2>2, <2>11
    <3>2. \A i \in 1..Len(loops) :
            Cardinality(Dealt(loops[i])') =
              IF i < nextLoop' THEN q + 1 ELSE q
      BY <2>9, <3>1
    <3> QED BY <1>1, <1>4, <3>2 DEF DealtInv
  <2> QED BY <2>10, <2>11
<1> QED BY <1>6, <1>7

LEMMA StepDealt ==
  ASSUME TInv, DealtInv, [Next]_vars
  PROVE  DealtInv'
<1>1. CASE UNCHANGED <<nextConn, loops, nextLoop, home>>
  <2>1. \A i : Dealt(loops[i])' = Dealt(loops[i])
    BY <1>1 DEF Dealt
  <2> QED BY <1>1, <2>1 DEF DealtInv
<1>2. ASSUME NEW l \in Loops, LoopStep(l)
      PROVE  HandleAccept \/ UNCHANGED <<nextConn, loops, nextLoop, home>>
  BY <1>2 DEF LoopStep, EpollWait, AcceptFails, IgnoreEvent, HandleMessage, Shutdown,
              DisableWriting, HandleClose, Handling, DoPendingFunctors, RunFunctor,
              EndPendingFunctors, acceptVars, poolVars
<1>3. ASSUME \/ Destructor \/ ClientConnects \/ QuitBase \/ UNCHANGED vars
             \/ \E u \in Users : BeginSend(u) \/ BeginShutdown(u) \/ UserStep(u)
      PROVE  UNCHANGED <<nextConn, loops, nextLoop, home>>
  BY <1>3 DEF Destructor, DestroyConnection, QuitIoLoop, DestroyAcceptor, ClientConnects,
              QuitBase, BeginSend, BeginShutdown, Begin, UserStep, SetDisconnecting, QueueCall,
              LetGo, vars, acceptVars, poolVars
<1> QED BY <1>1, <1>2, <1>3, StartDealt, AcceptDealt DEF Next

\* However many clients connect and io loops there are, no loop is ever given
\* two connections more than another.
THEOREM DealtEvenly == Spec => []Balanced
<1>1. DealtInv => Balanced
  <2>1. SUFFICES ASSUME DealtInv, NEW i \in 1..Len(loops), NEW j \in 1..Len(loops)
                 PROVE  LoadOf(loops[i]) <= LoadOf(loops[j]) + 1
    BY DEF Balanced
  <2>2. PICK q \in Nat : \A k \in 1..Len(loops) :
          Cardinality(Dealt(loops[k])) = IF k < nextLoop THEN q + 1 ELSE q
    BY <2>1 DEF DealtInv
  <2>3. /\ Cardinality(Dealt(loops[i])) \in {q, q + 1}
        /\ Cardinality(Dealt(loops[j])) \in {q, q + 1}
    BY <2>2
  <2>4. LoadOf(loops[i]) \in {q, q + 1} /\ LoadOf(loops[j]) \in {q, q + 1}
    BY <2>3 DEF Dealt, LoadOf
  <2> QED BY <2>4
<1> QED BY <1>1, InitTypes, StepTypes, InitDealt, StepDealt, PTL DEF Spec
=============================================================================
