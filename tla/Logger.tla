------------------------------- MODULE Logger -------------------------------
(***************************************************************************)
(* The Logger that all threads share (src/include/base/Log.hpp).  A LOG_*  *)
(* call makes an appender, assigns it to the shared_ptr _logAppender       *)
(* without a lock, copies that shared_ptr, logs through the copy and drops *)
(* it.  FileLog differs from StdoutLog only in what the appender does with *)
(* an event.                                                               *)
(*                                                                         *)
(* A shared_ptr is two words, the object and its control block with the    *)
(* count of references; the words are read and written one after the       *)
(* other, and the count alone is atomic.  An appender is named by the call *)
(* that makes it, and shares its name with its control block.              *)
(***************************************************************************)
EXTENDS Naturals, FiniteSets

CONSTANTS
  Threads,   \* the threads that log
  MaxCalls,  \* bound: LOG_* calls by each of them
  None       \* the null pointer, and no appender

Appenders == Threads \X (1..MaxCalls)

VARIABLES
  at,       \* where each thread is in its call
  calls,    \* how many calls each thread has begun
  object,   \* the first word of _logAppender
  control,  \* the second word
  copied,   \* the first word of the copy that StdoutLog returns
  held,     \* the control block of the shared_ptr each thread has in hand
  found,    \* the control block a thread has read and not yet used
  count,    \* use_count of each control block
  overlap,  \* history: two threads were in _logAppender at once
  dangling  \* history: an appender or its count was used after its end

vars == <<at, calls, object, control, copied, held, found, count, overlap, dangling>>

Init ==
  /\ at = [t \in Threads |-> "idle"]
  /\ calls = [t \in Threads |-> 0]
  /\ object = None /\ control = None
  /\ copied = [t \in Threads |-> None]
  /\ held = [t \in Threads |-> None]
  /\ found = [t \in Threads |-> None]
  /\ count = [a \in Appenders |-> 0]
  /\ overlap = FALSE /\ dangling = FALSE

\* The appender exists: a count that comes to zero ends it.
Exists(a) == count[a] > 0

\* Between the first and the last access to the words of _logAppender, in the
\* assignment and in the copy.
Assigning == {"swap", "read", "write"}
Copying == {"copy", "control", "acquire"}
Inside(t) == at[t] \in Assigning \cup Copying

Go(t, from, to) ==
  /\ at[t] = from
  /\ at' = [at EXCEPT ![t] = to]
  /\ overlap' = (overlap \/ (to \in Assigning \cup Copying
                             /\ \E u \in Threads \ {t} : Inside(u)))

-----------------------------------------------------------------------------
(* StdoutLog and FileLog.                                                  *)

\* std::make_shared.
MakeShared(t) ==
  /\ calls[t] < MaxCalls
  /\ Go(t, "idle", "swap")
  /\ calls' = [calls EXCEPT ![t] = @ + 1]
  /\ held' = [held EXCEPT ![t] = <<t, calls[t] + 1>>]
  /\ count' = [count EXCEPT ![<<t, calls[t] + 1>>] = 1]
  /\ UNCHANGED <<object, control, copied, found, dangling>>

\* The assignment swaps the two shared_ptrs, word by word.
SwapObject(t) ==
  /\ Go(t, "swap", "read")
  /\ object' = held[t]
  /\ UNCHANGED <<calls, control, copied, held, found, count, dangling>>

ReadControl(t) ==
  /\ Go(t, "read", "write")
  /\ found' = [found EXCEPT ![t] = control]
  /\ UNCHANGED <<calls, object, control, copied, held, count, dangling>>

WriteControl(t) ==
  /\ Go(t, "write", "release")
  /\ control' = held[t]
  /\ held' = [held EXCEPT ![t] = found[t]]
  /\ UNCHANGED <<calls, object, copied, found, count, dangling>>

\* The destructor of a shared_ptr.
Drop(t) ==
  /\ held' = [held EXCEPT ![t] = None]
  /\ IF held[t] = None
     THEN UNCHANGED <<count, dangling>>
     ELSE /\ count' = [count EXCEPT ![held[t]] = IF @ > 0 THEN @ - 1 ELSE 0]
          /\ dangling' = (dangling \/ ~Exists(held[t]))

\* The old value of _logAppender goes.
ReleaseOld(t) ==
  /\ Go(t, "release", "copy")
  /\ Drop(t)
  /\ UNCHANGED <<calls, object, control, copied, found>>

\* "return _logAppender;" copies it, word by word, and counts the copy.
CopyObject(t) ==
  /\ Go(t, "copy", "control")
  /\ copied' = [copied EXCEPT ![t] = object]
  /\ UNCHANGED <<calls, object, control, held, found, count, dangling>>

CopyControl(t) ==
  /\ Go(t, "control", "acquire")
  /\ found' = [found EXCEPT ![t] = control]
  /\ UNCHANGED <<calls, object, control, copied, held, count, dangling>>

Acquire(t) ==
  /\ Go(t, "acquire", "log")
  /\ held' = [held EXCEPT ![t] = found[t]]
  /\ count' = [count EXCEPT ![found[t]] = @ + 1]
  /\ dangling' = (dangling \/ ~Exists(found[t]))
  /\ UNCHANGED <<calls, object, control, copied, found>>

-----------------------------------------------------------------------------
(* LOG_BASE: the virtual call of Log, and the end of the copy.             *)

Log(t) ==
  /\ Go(t, "log", "drop")
  /\ dangling' = (dangling \/ ~Exists(copied[t]))
  /\ UNCHANGED <<calls, object, control, copied, held, found, count>>

DropCopy(t) ==
  /\ Go(t, "drop", "idle")
  /\ Drop(t)
  /\ UNCHANGED <<calls, object, control, copied, found>>

Next ==
  \E t \in Threads :
    \/ MakeShared(t) \/ SwapObject(t) \/ ReadControl(t) \/ WriteControl(t)
    \/ ReleaseOld(t) \/ CopyObject(t) \/ CopyControl(t) \/ Acquire(t)
    \/ Log(t) \/ DropCopy(t)

Spec == Init /\ [][Next]_vars

-----------------------------------------------------------------------------
(***************************************************************************)
(* Properties                                                              *)
(***************************************************************************)
\* Ten threads that log at the same time get their lines out
\* (src/test/log.cpp:12): no LOG_* call uses an appender, or the count of an
\* appender, that another one has already destroyed.
NoUseAfterFree == ~dangling

\* The race on _logAppender is the only cause: as long as no two threads are
\* in the assignment or the copy at once, everything used exists, although
\* the appenders of several threads live and log at the same time.
SerialUseIsSafe == ~overlap => ~dangling

Quiet == \A t \in Threads : at[t] = "idle"

\* With the same exception nothing leaks: when no call is under way, only the
\* appender in _logAppender is left.
NothingLeaks ==
  ~overlap /\ Quiet => \A a \in Appenders : Exists(a) => a = control
=============================================================================
