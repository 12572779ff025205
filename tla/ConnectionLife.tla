--------------------------- MODULE ConnectionLife ---------------------------
(***************************************************************************)
(* The life of a TcpConnection, as TcpServer promises it and TcpConnection *)
(* relies on it, with the loops, their functors and epoll abstracted away. *)
(*                                                                         *)
(* ConnectEstablished comes first and once; HandleClose ends a connection  *)
(* that was established, once; ConnectDestroyed comes last and once, when  *)
(* the server has let go of the connection, which it never takes back.     *)
(* Every run of a handler is counted, so that no repetition can pass for a *)
(* step that changes nothing.                                              *)
(*                                                                         *)
(* A connection that is unsettled may be closed and destroyed again, and   *)
(* closed after it was destroyed: a Shutdown took it back from             *)
(* Disconnected or left it Disconnecting under ConnectDestroyed, or a Send *)
(* met it when it was gone.  That can only befall one that was closed or   *)
(* destroyed before.                                                       *)
(***************************************************************************)
EXTENDS Naturals

CONSTANT Connection

VARIABLES
  ran,       \* how often each handler has run for each connection
  released,  \* connections that the server has let go of
  unsettled  \* those of which no more than this is promised

vars == <<ran, released, unsettled>>

Fresh == [established |-> 0, closed |-> 0, destroyed |-> 0]

Init == ran = [c \in Connection |-> Fresh] /\ released = {} /\ unsettled = {}

Run(c, handler) == ran' = [ran EXCEPT ![c][handler] = @ + 1]

ConnectEstablished(c) == ran[c] = Fresh /\ Run(c, "established")

HandleClose(c) ==
  /\ ran[c].established = 1
  /\ c \in unsettled \/ (ran[c].closed = 0 /\ ran[c].destroyed = 0)
  /\ Run(c, "closed")

ConnectDestroyed(c) ==
  /\ ran[c].established = 1
  /\ c \in released'
  /\ c \in unsettled \/ ran[c].destroyed = 0
  /\ Run(c, "destroyed")

\* The server may let go at any time, also in the same step.
Next ==
  /\ released \subseteq released' /\ unsettled \subseteq unsettled'
  /\ \A c \in unsettled' \ unsettled : ran'[c].closed + ran'[c].destroyed > 0
  /\ \/ UNCHANGED ran
     \/ \E c \in Connection : ConnectEstablished(c) \/ HandleClose(c) \/ ConnectDestroyed(c)

Spec == Init /\ [][Next]_vars
=============================================================================
