----------------------------- MODULE TcpServer -----------------------------
(***************************************************************************)
(* TcpServer (src/net/TcpServer.cpp): the base loop with the Acceptor, the *)
(* io loops of the EventLoopThreadPool, and the lifetimes of the           *)
(* connections, which live on shared_ptrs in _connections, in functors, in *)
(* callbacks and with the user, while epoll and the pollers hold raw       *)
(* Channel pointers and the functors of Send hold a raw this.              *)
(*                                                                         *)
(* Every loop is an Executor in batches, as in TcpConnection.  Of a        *)
(* connection there is its state, whether epoll and its poller have its    *)
(* channel, and who holds it; bytes are left to TcpConnection.  A user     *)
(* thread keeps a connection that a callback gave it for as long as it     *)
(* likes, and no longer than it likes.                                     *)
(***************************************************************************)
EXTENDS Naturals, Sequences, FiniteSets

CONSTANTS
  Base,      \* the loop that the user made and runs
  IoLoops,   \* a sequence: the loops that the pool would start at most
  MaxConns,  \* bound: how many clients connect
  Users,     \* threads that call Send or Shutdown on a connection that a
             \* callback gave them
  MaxCalls,  \* bound: how many such calls they make in all; none is given a
             \* connection when no call is left
  AcceptMayFail  \* whether accept may return an error (EMFILE)

ASSUME LoopAssumption ==
  /\ IoLoops \in Seq({IoLoops[i] : i \in 1..Len(IoLoops)} \ {Base})
  /\ \A i, j \in 1..Len(IoLoops) : IoLoops[i] = IoLoops[j] => i = j
ASSUME BoundAssumption ==
  MaxConns \in Nat /\ MaxCalls \in Nat /\ AcceptMayFail \in BOOLEAN

Loops == {Base} \cup {IoLoops[i] : i \in 1..Len(IoLoops)}
Conns == 1..MaxConns
Functors == {"established", "remove", "destroy", "send", "shutdown"} \X Conns
States == {"Connecting", "Connected", "Disconnecting", "Disconnected"}

VARIABLES
  listening,    \* Acceptor::_listening, which _started comes with
  backlog,      \* clients that the kernel has connected, not yet accepted
  arrived,      \* how many clients have ever connected
  edge,         \* the listening socket is on epoll's ready list
  nextConn,     \* _nextConnId
  loops,        \* EventLoopThreadPool::_loops, as many as SetThreadNum said
  nextLoop,     \* EventLoopThreadPool::_next, counted from 1
  home,         \* the EventLoop of each connection
  connections,  \* _connections
  state,        \* _state of each connection
  enabled,      \* connections whose channel has an interest in epoll
  registered,   \* connections whose channel is in the map of its poller
  ran,          \* history: how often ConnectEstablished, HandleClose and
                \* ConnectDestroyed ran for each connection
  unsettled,    \* history: connections that a Shutdown took back from
                \* Disconnected, that ConnectDestroyed found Disconnecting, or
                \* that were gone when a Send asked for EPOLLOUT
  at,           \* where each loop is: "poll", "events", "run" or "stopped"
  active,       \* the Channel pointers each loop has still to handle
  queue,        \* _pendingFunctors of each loop
  batch,        \* the functors DoPendingFunctors has still to run
  done,         \* the connections that the functors it has run hold on to
  quit,         \* loops whose _quit is set
  held,         \* the connection each user thread holds, or 0
  pc,           \* where the thread is with it: "idle" without one, "holds" it,
                \* or in a call of Send or Shutdown
  calls,        \* how many calls were begun
  late          \* history: connections with a call that was queued after the
                \* loop had taken their ConnectDestroyed from its queue

poolVars == <<listening, loops>>
acceptVars == <<backlog, arrived, edge, nextConn, poolVars, nextLoop, home>>
chanVars == <<state, enabled, registered, ran, unsettled>>
connVars == <<connections, chanVars>>
loopVars == <<at, active, queue, batch, done, quit>>
userVars == <<held, pc, calls, late>>
vars == <<acceptVars, connVars, loopVars, userVars>>

Init ==
  /\ listening = FALSE /\ loops = <<>>
  /\ backlog = 0 /\ arrived = 0 /\ edge = FALSE
  /\ nextConn = 1 /\ nextLoop = 1
  /\ home = [c \in Conns |-> Base]
  /\ connections = {} /\ enabled = {} /\ registered = {}
  /\ state = [c \in Conns |-> "Connecting"] /\ unsettled = {}
  /\ ran = [c \in Conns |-> [established |-> 0, closed |-> 0, destroyed |-> 0]]
  /\ at = [l \in Loops |-> "poll"]
  /\ active = [l \in Loops |-> {}]
  /\ queue = [l \in Loops |-> <<>>]
  /\ batch = [l \in Loops |-> <<>>]
  /\ done = [l \in Loops |-> {}]
  /\ quit = {}
  /\ held = [u \in Users |-> 0] /\ pc = [u \in Users |-> "idle"]
  /\ calls = 0 /\ late = {}

\* EventLoopThreadPool::Start with n threads.
StartPool(n) == loops' = SubSeq(IoLoops, 1, n)

\* The user, on the thread of the base loop, has set any number of threads,
\* none included; RunInLoop runs Acceptor::Listen at once.
Start ==
  /\ ~listening /\ at[Base] = "poll"
  /\ listening' = TRUE
  /\ \E n \in 0..Len(IoLoops) : StartPool(n)
  /\ UNCHANGED <<backlog, arrived, edge, nextConn, nextLoop, home, connVars,
                 loopVars, userVars>>

\* Every client is a new edge for the listening socket.
ClientConnects ==
  /\ listening /\ arrived < MaxConns
  /\ arrived' = arrived + 1 /\ backlog' = backlog + 1
  /\ edge' = TRUE
  /\ UNCHANGED <<nextConn, poolVars, nextLoop, home, connVars, loopVars, userVars>>

-----------------------------------------------------------------------------
(* Who holds a connection.                                                 *)

Queued(l, f) == \E i \in 1..Len(queue[l]) : queue[l][i] = f
InBatch(l, f) == \E i \in 1..Len(batch[l]) : batch[l][i] = f

\* The functors of the server hold a shared_ptr to their connection.
Bound(c) == {"established", "remove", "destroy"} \X {c}

\* A shared_ptr to the connection exists.
Alive(c) ==
  \/ c \in connections
  \/ \E u \in Users : held[u] = c
  \/ \E l \in Loops :
       \/ c \in done[l]
       \/ \E f \in Bound(c) : Queued(l, f) \/ InBatch(l, f)

-----------------------------------------------------------------------------
(* What functors and callbacks do.                                         *)

QueueInLoop(l, functor) == queue' = [queue EXCEPT ![l] = Append(@, functor)]

Count(c, handler) == ran' = [ran EXCEPT ![c][handler] = @ + 1]

\* Mutant of ConnectEstablished: UpdateChannel forgets the map.
EnableOnly(c) ==
  /\ state' = [state EXCEPT ![c] = "Connected"]
  /\ enabled' = enabled \cup {c}
  /\ Count(c, "established")
  /\ UNCHANGED <<registered, unsettled>>

ConnectEstablished(c) ==
  /\ state' = [state EXCEPT ![c] = "Connected"]
  /\ enabled' = enabled \cup {c}
  /\ registered' = registered \cup {c}
  /\ Count(c, "established")
  /\ UNCHANGED unsettled

\* A connection that is Disconnecting stays so, and keeps its interest, which
\* Remove takes out of epoll and out of the map like any other.
ConnectDestroyed(c) ==
  /\ state' = [state EXCEPT ![c] = IF @ = "Connected" THEN "Disconnected" ELSE @]
  /\ enabled' = enabled \ {c}
  /\ registered' = registered \ {c}
  /\ Count(c, "destroyed")
  /\ unsettled' = IF state[c] = "Disconnecting" THEN unsettled \cup {c} ELSE unsettled

\* A write that is cut short asks for EPOLLOUT: EnableWriting puts the channel
\* into the map and into epoll, whether or not it was there.  Only Disconnected
\* is refused.  A raw this that is gone may say anything of its state.
SendInLoop(c) ==
  /\ UNCHANGED <<state, ran>>
  /\ \/ UNCHANGED <<enabled, registered, unsettled>>
     \/ /\ state[c] # "Disconnected" \/ ~Alive(c)
        /\ enabled' = enabled \cup {c}
        /\ registered' = registered \cup {c}
        /\ unsettled' = IF Alive(c) THEN unsettled ELSE unsettled \cup {c}

\* Mutant of RemoveConnectionInLoop: ConnectDestroyed is forgotten.
EraseOnly(c) ==
  /\ connections' = connections \ {c}
  /\ UNCHANGED queue

\* Mutant of RemoveConnectionInLoop: the connection stays in the map.
KeepInMap(c) ==
  /\ QueueInLoop(home[c], <<"destroy", c>>)
  /\ UNCHANGED connections

RemoveConnectionInLoop(c) ==
  /\ connections' = connections \ {c}
  /\ QueueInLoop(home[c], <<"destroy", c>>)

\* RunInLoop: at once when the connection lives on the base loop.
RemoveConnection(c) ==
  IF home[c] = Base
  THEN RemoveConnectionInLoop(c)
  ELSE /\ QueueInLoop(Base, <<"remove", c>>)
       /\ UNCHANGED connections

\* Mutant of GetNextLoop: the last loop is never used.
SkipLastLoop ==
  nextLoop' = IF nextLoop + 1 >= Len(loops) THEN 1 ELSE nextLoop + 1

GetNextLoop ==
  nextLoop' = IF nextLoop + 1 > Len(loops) THEN 1 ELSE nextLoop + 1

\* The connection goes to the next loop; on the base loop RunInLoop runs
\* ConnectEstablished at once.
NewConnection ==
  /\ nextConn' = nextConn + 1
  /\ connections' = connections \cup {nextConn}
  /\ IF loops = <<>>
     THEN /\ ConnectEstablished(nextConn)
          /\ UNCHANGED <<nextLoop, home, queue>>
     ELSE /\ home' = [home EXCEPT ![nextConn] = loops[nextLoop]]
          /\ QueueInLoop(loops[nextLoop], <<"established", nextConn>>)
          /\ GetNextLoop
          /\ UNCHANGED chanVars

-----------------------------------------------------------------------------
(* One iteration of the loop l.                                            *)

\* epoll_wait: connections can be ready at any time, the acceptor when there
\* was an edge, and any functor wakes the loop.  There are fewer channels than
\* _events has room for, so that the acceptor is never left out.  Closing the
\* socket with the connection takes it out of epoll, unless a late Send met
\* freed memory.
EpollWait(l) ==
  /\ at[l] = "poll"
  /\ \E ready \in SUBSET {c \in enabled : home[c] = l /\ (Alive(c) \/ c \in late)} :
       /\ ready # {} \/ queue[l] # <<>> \/ l \in quit \/ (l = Base /\ edge)
       /\ active' = [active EXCEPT ![l] =
                       ready \cup IF l = Base /\ edge THEN {0} ELSE {}]
  /\ edge' = (edge /\ l # Base)
  /\ at' = [at EXCEPT ![l] = "events"]
  /\ UNCHANGED <<backlog, arrived, nextConn, poolVars, nextLoop, home, connVars,
                 queue, batch, done, quit, userVars>>

\* Acceptor::HandleRead (channel 0) accepts one client.
HandleAccept ==
  /\ at[Base] = "events" /\ 0 \in active[Base]
  /\ active' = [active EXCEPT ![Base] = @ \ {0}]
  /\ backlog' = backlog - 1
  /\ NewConnection
  /\ UNCHANGED <<arrived, edge, poolVars, at, batch, done, quit, userVars>>

\* accept returns an error, which is logged; the client stays in the backlog.
AcceptFails ==
  /\ AcceptMayFail
  /\ at[Base] = "events" /\ 0 \in active[Base]
  /\ active' = [active EXCEPT ![Base] = @ \ {0}]
  /\ UNCHANGED <<acceptVars, connVars, at, queue, batch, done, quit, userVars>>

\* An event of the connection c.  Channel::HandleEvent makes a shared_ptr of
\* its tie, and the handlers run only if it can.
Handling(l, c) ==
  /\ at[l] = "events" /\ c \in active[l] \ {0}
  /\ active' = [active EXCEPT ![l] = @ \ {c}]
  /\ UNCHANGED <<acceptVars, at, batch, done, quit, calls, late>>

IgnoreEvent(l, c) ==
  /\ Handling(l, c) /\ ~Alive(c)
  /\ UNCHANGED <<connVars, queue, held, pc>>

\* HandleRead or HandleWrite of a connection that is not closed by it.  A
\* callback may give the connection to an idle user thread, which it does no
\* more when the server is about to be destroyed.
HandleMessage(l, c) ==
  /\ Handling(l, c) /\ Alive(c)
  /\ UNCHANGED <<connVars, queue>>
  /\ \/ UNCHANGED <<held, pc>>
     \/ \E u \in Users :
          /\ pc[u] = "idle" /\ calls < MaxCalls /\ at[Base] # "stopped"
          /\ held' = [held EXCEPT ![u] = c]
          /\ pc' = [pc EXCEPT ![u] = "holds"]

\* The same, with a callback that calls Shutdown; ShutdownInLoop, run at once,
\* is about the socket only.
Shutdown(l, c) ==
  /\ Handling(l, c) /\ Alive(c)
  /\ state[c] = "Connected"
  /\ state' = [state EXCEPT ![c] = "Disconnecting"]
  /\ UNCHANGED <<connections, enabled, registered, ran, unsettled, queue, held, pc>>

\* HandleWrite has written the whole output.  EPOLLOUT is all that a channel
\* can have asked for that a Send brought back after a close.
DisableWriting(l, c) ==
  /\ Handling(l, c) /\ Alive(c)
  /\ c \in unsettled
  /\ enabled' = enabled \ {c}
  /\ UNCHANGED <<connections, state, registered, ran, unsettled, queue, held, pc>>

HandleClose(l, c) ==
  /\ Handling(l, c) /\ Alive(c)
  /\ state' = [state EXCEPT ![c] = "Disconnected"]
  /\ enabled' = enabled \ {c}
  /\ Count(c, "closed")
  /\ RemoveConnection(c)
  /\ UNCHANGED <<registered, unsettled, held, pc>>

DoPendingFunctors(l) ==
  /\ at[l] = "events" /\ active[l] = {}
  /\ at' = [at EXCEPT ![l] = "run"]
  /\ batch' = [batch EXCEPT ![l] = queue[l]]
  /\ queue' = [queue EXCEPT ![l] = <<>>]
  /\ UNCHANGED <<acceptVars, connVars, active, done, quit, userVars>>

\* Mutant of Keep: a functor is destroyed as soon as it has run.
KeepNothing(l, f) == UNCHANGED done

\* The vector of functors keeps its references until all have run; those of
\* Send and Shutdown have none.
Keep(l, f) ==
  done' = [done EXCEPT ![l] = @ \cup IF f \in Bound(f[2]) THEN {f[2]} ELSE {}]

RunFunctor(l) ==
  /\ at[l] = "run" /\ batch[l] # <<>>
  /\ batch' = [batch EXCEPT ![l] = Tail(@)]
  /\ Keep(l, Head(batch[l]))
  /\ UNCHANGED <<acceptVars, at, active, quit, userVars>>
  /\ LET c == Head(batch[l])[2] IN
       \/ /\ Head(batch[l])[1] = "established"
          /\ ConnectEstablished(c)
          /\ UNCHANGED <<connections, queue>>
       \/ /\ Head(batch[l])[1] = "remove"
          /\ RemoveConnectionInLoop(c)
          /\ UNCHANGED chanVars
       \/ /\ Head(batch[l])[1] = "destroy"
          /\ ConnectDestroyed(c)
          /\ UNCHANGED <<connections, queue>>
       \/ /\ Head(batch[l])[1] = "send"
          /\ SendInLoop(c)
          /\ UNCHANGED <<connections, queue>>
       \/ /\ Head(batch[l])[1] = "shutdown"   \* about the socket only
          /\ UNCHANGED <<connVars, queue>>

\* The test of _quit follows; an io loop that ends is destroyed, with the
\* functors that are still queued and with its poller.
EndPendingFunctors(l) ==
  /\ at[l] = "run" /\ batch[l] = <<>>
  /\ done' = [done EXCEPT ![l] = {}]
  /\ at' = [at EXCEPT ![l] = IF l \in quit THEN "stopped" ELSE "poll"]
  /\ queue' = IF l \in quit /\ l # Base THEN [queue EXCEPT ![l] = <<>>] ELSE queue
  /\ registered' = IF l \in quit /\ l # Base
                   THEN {c \in registered : home[c] # l} ELSE registered
  /\ enabled' = IF l \in quit /\ l # Base
                THEN {c \in enabled : home[c] # l} ELSE enabled
  /\ UNCHANGED <<acceptVars, connections, state, ran, unsettled, active, batch, quit,
                 userVars>>

-----------------------------------------------------------------------------
(* A user thread that holds a connection: in Send and Shutdown the test of *)
(* _state, its change and the queueing of the functor, which has a raw     *)
(* this, are separate steps; a call that finds the connection no longer    *)
(* Connected does nothing.  Letting go drops the shared_ptr.               *)

Begin(u, call) ==
  /\ pc[u] = "holds" /\ calls < MaxCalls
  /\ state[held[u]] = "Connected"
  /\ pc' = [pc EXCEPT ![u] = call]
  /\ calls' = calls + 1
  /\ UNCHANGED <<acceptVars, connVars, loopVars, held, late>>

BeginSend(u) == Begin(u, "send")
BeginShutdown(u) == Begin(u, "setState")

SetDisconnecting(u) ==
  /\ pc[u] = "setState"
  /\ pc' = [pc EXCEPT ![u] = "shutdown"]
  /\ state' = [state EXCEPT ![held[u]] = "Disconnecting"]
  /\ unsettled' = IF state[held[u]] = "Disconnected"
                  THEN unsettled \cup {held[u]} ELSE unsettled
  /\ UNCHANGED <<acceptVars, connections, enabled, registered, ran, loopVars,
                 held, calls, late>>

\* The loop of the connection has taken ConnectDestroyed from its queue.
DestroyTaken(c) == ran[c].destroyed > 0 \/ InBatch(home[c], <<"destroy", c>>)

QueueCall(u) ==
  /\ pc[u] \in {"send", "shutdown"}
  /\ LET c == held[u] IN
       /\ QueueInLoop(home[c], <<pc[u], c>>)
       /\ late' = IF DestroyTaken(c) THEN late \cup {c} ELSE late
  /\ pc' = [pc EXCEPT ![u] = "holds"]
  /\ UNCHANGED <<acceptVars, connVars, at, active, batch, done, quit, held, calls>>

LetGo(u) ==
  /\ pc[u] = "holds"
  /\ held' = [held EXCEPT ![u] = 0]
  /\ pc' = [pc EXCEPT ![u] = "idle"]
  /\ UNCHANGED <<acceptVars, connVars, loopVars, calls, late>>

-----------------------------------------------------------------------------
(* The end: the user quits the base loop, and then destroys the server on  *)
(* the same thread.                                                        *)

QuitBase ==
  /\ Base \notin quit
  /\ quit' = quit \cup {Base}
  /\ UNCHANGED <<acceptVars, connVars, at, active, queue, batch, done, userVars>>

\* Mutant of DestroyConnection: ConnectDestroyed is called, not run in the
\* loop of the connection.
DestroyHere(c) ==
  /\ at[Base] = "stopped" /\ c \in connections
  /\ connections' = connections \ {c}
  /\ ConnectDestroyed(c)
  /\ UNCHANGED <<acceptVars, loopVars, userVars>>

\* One round of the loop in ~TcpServer.
DestroyConnection(c) ==
  /\ at[Base] = "stopped" /\ c \in connections
  /\ connections' = connections \ {c}
  /\ UNCHANGED <<acceptVars, at, active, batch, done, quit, userVars>>
  /\ IF home[c] = Base
     THEN ConnectDestroyed(c) /\ UNCHANGED queue
     ELSE /\ QueueInLoop(home[c], <<"destroy", c>>)
          /\ UNCHANGED chanVars

\* The pool goes next: Quit and Join, one thread after the other.  The user
\* has let go of the connections, whose loops end now.
QuitIoLoop(i) ==
  /\ \A u \in Users : pc[u] = "idle"
  /\ at[Base] = "stopped" /\ connections = {}
  /\ loops[i] \notin quit
  /\ \A j \in 1..(i - 1) : at[loops[j]] = "stopped"
  /\ quit' = quit \cup {loops[i]}
  /\ UNCHANGED <<acceptVars, connVars, at, active, queue, batch, done, userVars>>

\* The acceptor goes last, and with it the clients it has not accepted.
DestroyAcceptor ==
  /\ at[Base] = "stopped" /\ connections = {}
  /\ \A i \in 1..Len(loops) : at[loops[i]] = "stopped"
  /\ listening
  /\ listening' = FALSE
  /\ edge' = FALSE /\ backlog' = 0
  /\ UNCHANGED <<arrived, nextConn, loops, nextLoop, home, connVars, loopVars,
                 userVars>>

-----------------------------------------------------------------------------
LoopStep(l) ==
  \/ EpollWait(l) \/ (l = Base /\ (HandleAccept \/ AcceptFails))
  \/ \E c \in Conns :
       \/ IgnoreEvent(l, c) \/ HandleMessage(l, c) \/ Shutdown(l, c)
       \/ DisableWriting(l, c) \/ HandleClose(l, c)
  \/ DoPendingFunctors(l) \/ RunFunctor(l) \/ EndPendingFunctors(l)

UserStep(u) == SetDisconnecting(u) \/ QueueCall(u) \/ LetGo(u)

Destructor ==
  \/ \E c \in Conns : DestroyConnection(c)
  \/ \E i \in 1..Len(loops) : QuitIoLoop(i)
  \/ DestroyAcceptor

Next ==
  \/ Start \/ ClientConnects \/ QuitBase \/ Destructor
  \/ \E u \in Users : BeginSend(u) \/ BeginShutdown(u) \/ UserStep(u)
  \/ \E l \in Loops : LoopStep(l)

Spec == Init /\ [][Next]_vars

(***************************************************************************)
(* Fairness: every loop iterates and its callbacks return, and a user      *)
(* thread ends the calls that it began and lets go of the connection.      *)
(***************************************************************************)
FairSpec ==
  /\ Spec
  /\ \A l \in Loops : WF_vars(LoopStep(l))
  /\ \A u \in Users : WF_vars(UserStep(u))

-----------------------------------------------------------------------------
(***************************************************************************)
(* Properties                                                              *)
(***************************************************************************)
Stopped(l) == at[l] = "stopped"

\* The state keeps its types; a listening socket that is reported has a
\* client to accept.
TypeOK ==
  /\ listening \in BOOLEAN /\ backlog \in 0..MaxConns /\ arrived \in 0..MaxConns
  /\ nextConn \in 1..(MaxConns + 1) /\ home \in [Conns -> Loops]
  /\ edge \/ 0 \in active[Base] => backlog > 0
  /\ connections \subseteq Conns /\ enabled \subseteq registered
  /\ registered \subseteq Conns /\ state \in [Conns -> States]
  /\ ran \in [Conns -> [established : Nat, closed : Nat, destroyed : Nat]]
  /\ unsettled \subseteq Conns
  /\ at \in [Loops -> {"poll", "events", "run", "stopped"}]
  /\ active \in [Loops -> SUBSET (Conns \cup {0})]
  /\ queue \in [Loops -> Seq(Functors)] /\ batch \in [Loops -> Seq(Functors)]
  /\ done \in [Loops -> SUBSET Conns] /\ quit \subseteq Loops
  /\ pc \in [Users -> {"idle", "holds", "send", "setState", "shutdown"}]
  /\ held \in [Users -> Conns \cup {0}] /\ \A u \in Users : held[u] = 0 <=> pc[u] = "idle"
  /\ calls \in 0..MaxCalls /\ late \subseteq Conns

\* The connections in unsettled get less from the code.  A Send that is still
\* queued can bring one back into epoll and into its poller after its close or
\* ConnectDestroyed; it then closes and is destroyed again, and its last
\* reference may go while its channel is there.

\* The channel of every event that a loop has still to handle belongs to a
\* connection that exists: no connection dies between epoll_wait and its
\* HandleEvent, whatever the base loop, ~TcpServer, user threads and their
\* Shutdowns do meanwhile, unless it is unsettled.
ActiveAreAlive ==
  \A l \in Loops : \A c \in active[l] \ {0} : Alive(c) \/ c \in unsettled

\* The pollers keep no Channel pointer of a connection that is gone: the
\* last shared_ptr is dropped only after ConnectDestroyed has removed it, and
\* no Send that is still queued puts it back, unless it is unsettled.
RegisteredAreAlive == \A c \in registered : Alive(c) \/ c \in unsettled

\* The raw this of a queued Send or Shutdown meets a connection that exists,
\* although the caller lets go of it at once: ConnectDestroyed stands behind it,
\* or beside it in the same batch.  The code gives no such promise to a call
\* that is queued later than that.
RawThisIsAlive ==
  \A l \in Loops, c \in Conns :
    batch[l] # <<>> /\ Head(batch[l]) \in {<<"send", c>>, <<"shutdown", c>>}
      => Alive(c) \/ c \in late

\* ConnectDestroyed of c is on its way to the loop of c.
DestroyComing(c) ==
  Queued(home[c], <<"destroy", c>>) \/ InBatch(home[c], <<"destroy", c>>)

\* A connection is destroyed at most once, unless it is unsettled, never while
\* it is still in _connections, and never forgotten: when a close has been seen,
\* RemoveConnectionInLoop is on its way; and a connection that has left the map
\* was destroyed, or ConnectDestroyed is on its way, or its io loop has ended.
\* RemoveConnectionInLoop and ~TcpServer both do it, for the loops of others.
DestroyedOnce ==
  \A c \in Conns :
    /\ ran[c].destroyed <= 1 \/ c \in unsettled
    /\ ran[c].destroyed > 0 => c \notin connections
    /\ ran[c].closed > 0 /\ c \in connections =>
         Queued(Base, <<"remove", c>>) \/ InBatch(Base, <<"remove", c>>)
    /\ c < nextConn /\ c \notin connections =>
         \/ ran[c].destroyed > 0 \/ DestroyComing(c)
         \/ home[c] # Base /\ Stopped(home[c])

LoadOf(l) == Cardinality({c \in 1..(nextConn - 1) : home[c] = l})

\* Connections are dealt out evenly: the numbers that any two io loops have
\* been given differ by at most one.
Balanced ==
  \A i, j \in 1..Len(loops) : LoadOf(loops[i]) <= LoadOf(loops[j]) + 1

Life == INSTANCE ConnectionLife WITH
  Connection <- Conns,
  released <- {c \in Conns : c < nextConn /\ c \notin connections}

\* The server leads every connection through the life of module
\* ConnectionLife: however the base loop, the io loops, user threads and
\* ~TcpServer overlap, ConnectEstablished runs first and once, a connection
\* closes once and not after it was destroyed, and it is destroyed once and not
\* while the server still has it.  The counts of an unsettled connection are
\* left open from then on.
IsConnectionLife == Life!Spec

\* Connections that were closed are freed: from every moment on there comes one
\* at which none of them is left, unless the base loop stops.
ClosedIsFreed ==
  []<>(Stopped(Base) \/ \A c \in Conns : ran[c].closed > 0 => ~Alive(c))

\* "When there is a connection of a new client, the acceptor runs this
\* callback" (TcpServer.cpp:43): no client waits in the backlog for ever.
EveryClientIsServed ==
  \A n \in Conns : arrived >= n ~> (nextConn > n \/ Stopped(Base))
=============================================================================
