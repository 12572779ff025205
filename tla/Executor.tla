------------------------------ MODULE Executor ------------------------------
(***************************************************************************)
(* What an EventLoop promises to the threads that queue work, with the     *)
(* vector, the swap, the eventfd and the phases of Loop() abstracted away: *)
(* tasks wait in one queue and are run one at a time from its front.  A    *)
(* task is run only after it was accepted, never twice, and never before a *)
(* task that was accepted earlier and still waits.                         *)
(*                                                                         *)
(* A task may be dropped instead of accepted, and accepting a task may     *)
(* displace the one that was accepted last: the code appends to the vector *)
(* without its lock, so no more than this can be promised.                 *)
(***************************************************************************)
EXTENDS Naturals, Sequences

CONSTANT Task

VARIABLES
  waiting,   \* accepted tasks in the order in which they will run
  ran        \* tasks that have run, in order

vars == <<waiting, ran>>

Occurs(f, s) == \E i \in 1..Len(s) : s[i] = f

Init == waiting = <<>> /\ ran = <<>>

\* A task that is neither waiting nor has run.
Fresh(f) == ~Occurs(f, waiting) /\ ~Occurs(f, ran)

Accept(f) ==
  /\ Fresh(f)
  /\ waiting' = Append(waiting, f)
  /\ UNCHANGED ran

Displace(f) ==
  /\ Fresh(f)
  /\ waiting # <<>>
  /\ waiting' = [waiting EXCEPT ![Len(waiting)] = f]
  /\ UNCHANGED ran

Run ==
  /\ waiting # <<>>
  /\ ran' = Append(ran, Head(waiting))
  /\ waiting' = Tail(waiting)

Next == (\E f \in Task : Accept(f) \/ Displace(f)) \/ Run

Spec == Init /\ [][Next]_vars
=============================================================================
