---------------------------- MODULE LoggerProofs ----------------------------
(***************************************************************************)
(* As long as no two threads are inside _logAppender at once, the count of *)
(* every appender is the number of shared_ptrs that point to it.  From     *)
(* this follow SerialUseIsSafe and NothingLeaks of Logger, for any finite  *)
(* number of threads and calls.                                            *)
(***************************************************************************)
EXTENDS Logger, FiniteSetTheorems, TLAPS

Places == {"idle", "swap", "read", "write", "release", "copy", "control",
           "acquire", "log", "drop"}

LTypeOK ==
  /\ at \in [Threads -> Places]
  /\ calls \in [Threads -> Nat]
  /\ object \in Appenders \cup {None} /\ control \in Appenders \cup {None}
  /\ copied \in [Threads -> Appenders \cup {None}]
  /\ held \in [Threads -> Appenders \cup {None}]
  /\ found \in [Threads -> Appenders \cup {None}]
  /\ count \in [Appenders -> Nat]
  /\ overlap \in BOOLEAN /\ dangling \in BOOLEAN

Holders(h, a) == {t \in Threads : h[t] = a}
One(x, a) == IF x = a THEN 1 ELSE 0
OnlyAt(t, h, g) == \A u \in Threads \ {t} : g[u] = h[u]

\* use_count is exact.
CountInv ==
  \A a \in Appenders :
    count[a] = Cardinality(Holders(held, a)) + One(control, a)

\* Only one thread is in the assignment or in the copy.
AloneInv == \A t, u \in Threads : Inside(t) /\ Inside(u) => t = u

\* The two words of _logAppender differ only in the middle of an assignment.
WordsInv ==
  (\A t \in Threads : at[t] \notin {"read", "write"}) => object = control

\* What each thread has in hand at each place.
HandInv ==
  \A t \in Threads :
    /\ at[t] = "idle" => held[t] = None
    /\ at[t] \in Assigning => held[t] # None
    /\ at[t] \in {"read", "write"} => object = held[t]
    /\ at[t] = "write" => found[t] = control
    /\ at[t] \in {"release", "copy", "control", "acquire"} => control # None
    /\ at[t] \in {"copy", "control", "acquire"} => held[t] = None
    /\ at[t] \in {"control", "acquire"} => copied[t] = object
    /\ at[t] = "acquire" => found[t] = control
    /\ at[t] = "log" => copied[t] = held[t] /\ held[t] # None

\* Nobody has an appender that is still to be made.
Made(a) == a = None \/ a[2] <= calls[a[1]]
MadeInv ==
  /\ Made(control) /\ Made(object)
  /\ \A t \in Threads : Made(held[t]) /\ Made(found[t])

LInv ==
  /\ LTypeOK
  /\ ~overlap => /\ CountInv /\ AloneInv /\ WordsInv /\ HandInv /\ MadeInv
                 /\ ~dangling

-----------------------------------------------------------------------------
\* One thread takes another shared_ptr in hand.
LEMMA HoldersChange ==
  ASSUME IsFiniteSet(Threads), NEW h, NEW g, NEW t \in Threads, OnlyAt(t, h, g),
         NEW a \in Appenders
  PROVE  /\ Cardinality(Holders(h, a)) \in Nat
         /\ Cardinality(Holders(g, a)) \in Nat
         /\ Cardinality(Holders(g, a)) + One(h[t], a)
              = Cardinality(Holders(h, a)) + One(g[t], a)
<1> DEFINE H == Holders(h, a)
           G == Holders(g, a)
<1>1. IsFiniteSet(H) /\ IsFiniteSet(G)
  BY FS_Subset DEF Holders
<1>2. Cardinality(H) \in Nat /\ Cardinality(G) \in Nat
  BY <1>1, FS_CardinalityType
<1>4. (t \in H <=> h[t] = a) /\ (t \in G <=> g[t] = a)
  BY DEF Holders
<1>5. H \ {t} = G \ {t}
  BY DEF Holders, OnlyAt
<1>6. ASSUME NEW S, IsFiniteSet(S)
      PROVE  Cardinality(S) = Cardinality(S \ {t}) + (IF t \in S THEN 1 ELSE 0)
  <2>1. CASE t \in S
    <3>1. Cardinality(S \ {t}) = Cardinality(S) - 1
      BY <2>1, <1>6, FS_RemoveElement
    <3>2. Cardinality(S) \in Nat
      BY <1>6, FS_CardinalityType
    <3> QED BY <2>1, <3>1, <3>2 DEF One
  <2>2. CASE t \notin S
    <3>1. S \ {t} = S
      BY <2>2
    <3>2. Cardinality(S) \in Nat
      BY <1>6, FS_CardinalityType
    <3> QED BY <2>2, <3>1, <3>2 DEF One
  <2> QED BY <2>1, <2>2
<1>7. Cardinality(H) = Cardinality(H \ {t}) + One(h[t], a)
  BY <1>1, <1>4, <1>6 DEF One
<1>8. Cardinality(G) = Cardinality(G \ {t}) + One(g[t], a)
  BY <1>1, <1>4, <1>6 DEF One
<1>9. Cardinality(H \ {t}) \in Nat
  BY <1>1, FS_Subset, FS_CardinalityType
<1> HIDE DEF H, G
<1>10. Cardinality(G) + One(h[t], a) = Cardinality(H) + One(g[t], a)
  <2>1. Cardinality(H \ {t}) = Cardinality(G \ {t})
    BY <1>5
  <2>2. One(h[t], a) \in Nat /\ One(g[t], a) \in Nat
    BY DEF One
  <2> QED BY ONLY <2>1, <2>2, <1>7, <1>8, <1>9
<1> QED BY <1>2, <1>10 DEF H, G

\* A shared_ptr in hand, or _logAppender itself, keeps its appender.
LEMMA HeldExists ==
  ASSUME IsFiniteSet(Threads), LTypeOK, CountInv, NEW a \in Appenders,
         (\E t \in Threads : held[t] = a) \/ control = a
  PROVE  Exists(a)
<1> DEFINE H == Holders(held, a)
<1>1. IsFiniteSet(H)
  BY FS_Subset DEF Holders
<1>2. Cardinality(H) \in Nat
  BY <1>1, FS_CardinalityType
<1>3. (\E t \in Threads : held[t] = a) => Cardinality(H) # 0
  BY <1>1, FS_EmptySet DEF Holders
<1>4. count[a] = Cardinality(H) + One(control, a)
  BY DEF CountInv
<1> HIDE DEF H
<1> QED BY <1>2, <1>3, <1>4 DEF Exists, One

-----------------------------------------------------------------------------
LEMMA DropType ==
  ASSUME LTypeOK, NEW t \in Threads, Drop(t)
  PROVE  /\ count' \in [Appenders -> Nat] /\ dangling' \in BOOLEAN
         /\ held' \in [Threads -> Appenders \cup {None}]
<1>1. held' \in [Threads -> Appenders \cup {None}]
  BY DEF LTypeOK, Drop
<1>2. CASE held[t] = None
  BY <1>1, <1>2 DEF LTypeOK, Drop
<1>3. CASE held[t] # None
  <2>1. count' \in [Appenders -> Nat]
    <3>1. \A a \in Appenders : count'[a] \in Nat
      BY <1>3 DEF LTypeOK, Drop
    <3> QED BY <3>1, <1>3 DEF LTypeOK, Drop
  <2>2. dangling' \in BOOLEAN
    BY <1>3 DEF LTypeOK, Drop
  <2> QED BY <1>1, <2>1, <2>2
<1> QED BY <1>2, <1>3

LEMMA TypeStep ==
  ASSUME MaxCalls \in Nat, LTypeOK, [Next]_vars
  PROVE  LTypeOK'
<1>1. CASE UNCHANGED vars
  BY <1>1 DEF LTypeOK, vars
<1> SUFFICES ASSUME Next PROVE LTypeOK'
  BY <1>1
<1> PICK t \in Threads :
      \/ MakeShared(t) \/ SwapObject(t) \/ ReadControl(t) \/ WriteControl(t)
      \/ ReleaseOld(t) \/ CopyObject(t) \/ CopyControl(t) \/ Acquire(t)
      \/ Log(t) \/ DropCopy(t)
  BY DEF Next
<1> USE DEF LTypeOK, Go, Places
<1>2. CASE MakeShared(t)
  <2>1. <<t, calls[t] + 1>> \in Appenders
    BY <1>2 DEF MakeShared, Appenders
  <2> QED BY <1>2, <2>1 DEF MakeShared
<1>3. CASE SwapObject(t)
  BY <1>3 DEF SwapObject
<1>4. CASE ReadControl(t)
  BY <1>4 DEF ReadControl
<1>5. CASE WriteControl(t)
  BY <1>5 DEF WriteControl
<1>6. CASE ReleaseOld(t)
  BY <1>6, DropType DEF ReleaseOld
<1>7. CASE CopyObject(t)
  BY <1>7 DEF CopyObject
<1>8. CASE CopyControl(t)
  BY <1>8 DEF CopyControl
<1>9. CASE Acquire(t)
  <2>1. count' \in [Appenders -> Nat]
    <3>1. \A a \in Appenders : count'[a] \in Nat
      BY <1>9 DEF Acquire
    <3> QED BY <3>1, <1>9 DEF Acquire
  <2>2. dangling' \in BOOLEAN
    BY <1>9 DEF Acquire
  <2> QED BY <1>9, <2>1, <2>2 DEF Acquire
<1>10. CASE Log(t)
  BY <1>10 DEF Log
<1>11. CASE DropCopy(t)
  BY <1>11, DropType DEF DropCopy
<1> QED BY <1>2, <1>3, <1>4, <1>5, <1>6, <1>7, <1>8, <1>9, <1>10, <1>11
-----------------------------------------------------------------------------
\* A thread that moves inside _logAppender, into it or out of it is alone.
LEMMA Turn ==
  ASSUME LTypeOK, AloneInv, NEW t \in Threads, NEW from, NEW to \in Places,
         Go(t, from, to), ~overlap'
  PROVE  /\ ~overlap /\ at[t] = from
         /\ at'[t] = to /\ \A u \in Threads \ {t} : at'[u] = at[u]
         /\ AloneInv'
         /\ {from, to} \cap (Assigning \cup Copying) # {} =>
              \A u \in Threads \ {t} : at[u] \notin Assigning \cup Copying
<1>1. ~overlap /\ at[t] = from /\ at'[t] = to
  BY DEF Go, LTypeOK
<1>2. \A u \in Threads \ {t} : at'[u] = at[u]
  BY DEF Go, LTypeOK
<1>3. to \in Assigning \cup Copying => \A u \in Threads \ {t} : ~Inside(u)
  BY DEF Go
<1>4. from \in Assigning \cup Copying => \A u \in Threads \ {t} : ~Inside(u)
  BY <1>1 DEF AloneInv, Inside
<1>5. AloneInv'
  BY <1>1, <1>2, <1>3 DEF AloneInv, Inside
<1> QED BY <1>1, <1>2, <1>3, <1>4, <1>5 DEF Inside

\* The destructor of a shared_ptr finds its appender and keeps the count.
LEMMA DropCount ==
  ASSUME IsFiniteSet(Threads), None \notin Appenders, LTypeOK, CountInv,
         ~dangling, NEW t \in Threads, Drop(t), control' = control
  PROVE  CountInv' /\ ~dangling'
<1>1. held' = [held EXCEPT ![t] = None] /\ held[t] \in Appenders \cup {None}
  BY DEF Drop, LTypeOK
<1>2. \A a \in Appenders :
        /\ Cardinality(Holders(held, a)) \in Nat
        /\ Cardinality(Holders(held', a)) \in Nat
        /\ Cardinality(Holders(held', a)) + One(held[t], a)
             = Cardinality(Holders(held, a)) + One(None, a)
  <2>1. held'[t] = None /\ OnlyAt(t, held, held')
    BY <1>1 DEF LTypeOK, OnlyAt
  <2> QED BY <2>1, HoldersChange DEF One
<1>3. CASE held[t] = None
  <2>1. \A a \in Appenders : Cardinality(Holders(held', a)) = Cardinality(Holders(held, a))
    BY <1>2, <1>3 DEF One
  <2>2. UNCHANGED <<count, dangling>>
    BY <1>3 DEF Drop
  <2> QED BY <2>1, <2>2 DEF CountInv
<1>4. CASE held[t] # None
  <2> DEFINE b == held[t]
  <2>1. b \in Appenders /\ Exists(b)
    BY <1>1, <1>4, HeldExists
  <2>2. ~dangling'
    BY <1>4, <2>1 DEF Drop
  <2>3. count' = [count EXCEPT ![b] = count[b] - 1]
    BY <1>4, <2>1 DEF Drop, Exists
  <2>4. ASSUME NEW a \in Appenders
        PROVE  count'[a] = Cardinality(Holders(held', a)) + One(control, a)
    <3>1. count[a] = Cardinality(Holders(held, a)) + One(control, a)
      BY DEF CountInv
    <3>2. count'[a] = count[a] - One(b, a)
      BY <2>1, <2>3 DEF LTypeOK, One
    <3>3. Cardinality(Holders(held', a)) + One(b, a) = Cardinality(Holders(held, a))
      BY <1>2 DEF One
    <3>4. Cardinality(Holders(held, a)) \in Nat /\ Cardinality(Holders(held', a)) \in Nat
      BY <1>2
    <3> QED BY <3>1, <3>2, <3>3, <3>4 DEF One
  <2> QED BY <2>2, <2>4 DEF CountInv
<1> QED BY <1>3, <1>4

-----------------------------------------------------------------------------
SerialInv == CountInv /\ AloneInv /\ WordsInv /\ HandInv /\ MadeInv /\ ~dangling

\* As long as no calls overlap, every step keeps the counts exact.
LEMMA SerialStep ==
  ASSUME IsFiniteSet(Threads), MaxCalls \in Nat, None \notin Appenders,
         LTypeOK, SerialInv, Next, ~overlap'
  PROVE  SerialInv'
<1> PICK t \in Threads :
      \/ MakeShared(t) \/ SwapObject(t) \/ ReadControl(t) \/ WriteControl(t)
      \/ ReleaseOld(t) \/ CopyObject(t) \/ CopyControl(t) \/ Acquire(t)
      \/ Log(t) \/ DropCopy(t)
  BY DEF Next
<1> USE DEF SerialInv
<1>1. CASE MakeShared(t)
  <2> DEFINE new == <<t, calls[t] + 1>>
  <2>1. AloneInv' /\ at[t] = "idle" /\ at'[t] = "swap"
        /\ \A u \in Threads \ {t} : at'[u] = at[u] /\ at[u] \notin Assigning \cup Copying
    BY <1>1, Turn DEF MakeShared, Places, Assigning
  <2>2. new \in Appenders /\ calls[t] \in Nat /\ held[t] = None /\ None # new
    BY <1>1, <2>1 DEF MakeShared, Appenders, LTypeOK, HandInv
  <2>3. /\ held' = [held EXCEPT ![t] = new] /\ count' = [count EXCEPT ![new] = 1]
        /\ calls' = [calls EXCEPT ![t] = @ + 1]
        /\ UNCHANGED <<object, control, copied, found, dangling>>
    BY <1>1 DEF MakeShared
  <2>4. ~(new[2] <= calls[new[1]])
    BY <2>2
  <2>5. control # new /\ \A u \in Threads : held[u] # new
    BY <2>2, <2>4 DEF MadeInv, Made
  <2>6. CountInv'
    <3>1. ASSUME NEW a \in Appenders
          PROVE  count'[a] = Cardinality(Holders(held', a)) + One(control, a)
      <4>1. /\ Cardinality(Holders(held, a)) \in Nat
            /\ Cardinality(Holders(held', a)) \in Nat
            /\ Cardinality(Holders(held', a)) + One(held[t], a)
                 = Cardinality(Holders(held, a)) + One(new, a)
        <5>1. held'[t] = new /\ OnlyAt(t, held, held')
          BY <2>3 DEF LTypeOK, OnlyAt
        <5>2. /\ Cardinality(Holders(held, a)) \in Nat
              /\ Cardinality(Holders(held', a)) \in Nat
              /\ Cardinality(Holders(held', a)) + One(held[t], a)
                   = Cardinality(Holders(held, a)) + One(held'[t], a)
          BY <5>1, HoldersChange
        <5> QED BY <5>1, <5>2 DEF One
      <4>2. One(held[t], a) = 0
        BY <2>2 DEF One
      <4>3. CASE a = new
        <5>1. Holders(held, a) = {}
          BY <2>5, <4>3 DEF Holders
        <5>2. Cardinality(Holders(held, a)) = 0
          BY <5>1, FS_EmptySet
        <5>3. count'[a] = 1
          BY <2>2, <2>3, <4>3 DEF LTypeOK
        <5> QED BY <2>5, <4>1, <4>2, <4>3, <5>2, <5>3 DEF One
      <4>4. CASE a # new
        <5>1. count'[a] = count[a]
          BY <2>3, <4>4 DEF LTypeOK
        <5>2. count[a] = Cardinality(Holders(held, a)) + One(control, a)
          BY DEF CountInv
        <5>3. Cardinality(Holders(held', a)) = Cardinality(Holders(held, a))
          BY <4>1, <4>2, <4>4 DEF One
        <5> QED BY <5>1, <5>2, <5>3
      <4> QED BY <4>3, <4>4
    <3> QED BY <2>3, <3>1 DEF CountInv
  <2>7. WordsInv'
    BY <2>1, <2>3 DEF WordsInv, Assigning
  <2>8. HandInv'
    BY <2>1, <2>2, <2>3 DEF HandInv, Assigning, Copying, LTypeOK
  <2>9. MadeInv'
    <3> DEFINE MadeThen(a) == a = None \/ a[2] <= calls'[a[1]]
    <3>1. ASSUME NEW a \in Appenders \cup {None}, Made(a) PROVE MadeThen(a)
      <4>1. CASE a \in Appenders
        <5>1. a[1] \in Threads /\ a[2] \in Nat
          BY <4>1 DEF Appenders
        <5>2. calls[a[1]] \in Nat /\ calls'[a[1]] \in Nat /\ calls[a[1]] <= calls'[a[1]]
          BY <2>3, <5>1 DEF LTypeOK
        <5> QED BY <3>1, <5>1, <5>2 DEF Made
      <4> QED BY <4>1, <3>1
    <3>2. MadeThen(new)
      BY <2>2, <2>3 DEF LTypeOK
    <3>3. \A u \in Threads : MadeThen(held'[u]) /\ MadeThen(found[u])
      <4>1. ASSUME NEW u \in Threads PROVE MadeThen(held'[u]) /\ MadeThen(found[u])
        <5>1. Made(held[u]) /\ Made(found[u])
              /\ held[u] \in Appenders \cup {None} /\ found[u] \in Appenders \cup {None}
          BY DEF MadeInv, LTypeOK
        <5>2. MadeThen(held[u]) /\ MadeThen(found[u])
          BY <3>1, <5>1
        <5>3. held'[u] = held[u] \/ held'[u] = new
          BY <2>3 DEF LTypeOK
        <5> HIDE DEF MadeThen, new
        <5> QED BY <3>2, <5>2, <5>3
      <4> QED BY <4>1
    <3>4. MadeThen(control) /\ MadeThen(object)
      <4>1. Made(control) /\ Made(object)
            /\ control \in Appenders \cup {None} /\ object \in Appenders \cup {None}
        BY DEF MadeInv, LTypeOK
      <4> QED BY <3>1, <4>1
    <3> QED BY <2>3, <3>3, <3>4 DEF MadeInv, Made
  <2> QED BY <2>1, <2>3, <2>6, <2>7, <2>8, <2>9
<1>2. CASE SwapObject(t)
  <2>1. AloneInv' /\ at[t] = "swap" /\ at'[t] = "read"
        /\ \A u \in Threads \ {t} : at'[u] = at[u] /\ at[u] \notin Assigning \cup Copying
    BY <1>2, Turn DEF SwapObject, Places, Assigning
  <2>2. object' = held[t] /\ UNCHANGED <<calls, control, copied, held, found, count, dangling>>
    BY <1>2 DEF SwapObject
  <2>3. HandInv'
    BY <2>1, <2>2 DEF HandInv, Assigning, Copying
  <2> QED BY <2>1, <2>2, <2>3 DEF CountInv, WordsInv, MadeInv, Made, Holders
<1>3. CASE ReadControl(t)
  <2>1. AloneInv' /\ at[t] = "read" /\ at'[t] = "write"
        /\ \A u \in Threads \ {t} : at'[u] = at[u] /\ at[u] \notin Assigning \cup Copying
    BY <1>3, Turn DEF ReadControl, Places, Assigning
  <2>2. found' = [found EXCEPT ![t] = control]
        /\ UNCHANGED <<calls, object, control, copied, held, count, dangling>>
    BY <1>3 DEF ReadControl
  <2>3. HandInv'
    BY <2>1, <2>2 DEF HandInv, Assigning, Copying, LTypeOK
  <2>4. MadeInv'
    BY <2>2 DEF MadeInv, Made, LTypeOK
  <2> QED BY <2>1, <2>2, <2>3, <2>4 DEF CountInv, WordsInv, Holders
<1>4. CASE WriteControl(t)
  <2>1. AloneInv' /\ at[t] = "write" /\ at'[t] = "release"
        /\ \A u \in Threads \ {t} : at'[u] = at[u] /\ at[u] \notin Assigning \cup Copying
    BY <1>4, Turn DEF WriteControl, Places, Assigning
  <2>2. /\ control' = held[t] /\ held' = [held EXCEPT ![t] = found[t]]
        /\ UNCHANGED <<calls, object, copied, found, count, dangling>>
    BY <1>4 DEF WriteControl
  <2>3. found[t] = control /\ object = held[t] /\ held[t] # None
    BY <2>1 DEF HandInv, Assigning
  <2>4. CountInv'
    <3>1. ASSUME NEW a \in Appenders
          PROVE  count[a] = Cardinality(Holders(held', a)) + One(control', a)
      <4>1. /\ Cardinality(Holders(held, a)) \in Nat
            /\ Cardinality(Holders(held', a)) \in Nat
            /\ Cardinality(Holders(held', a)) + One(held[t], a)
                 = Cardinality(Holders(held, a)) + One(control, a)
        <5>1. held'[t] = control /\ OnlyAt(t, held, held')
          BY <2>2, <2>3 DEF LTypeOK, OnlyAt
        <5>2. /\ Cardinality(Holders(held, a)) \in Nat
              /\ Cardinality(Holders(held', a)) \in Nat
              /\ Cardinality(Holders(held', a)) + One(held[t], a)
                   = Cardinality(Holders(held, a)) + One(held'[t], a)
          BY <5>1, HoldersChange
        <5> QED BY <5>1, <5>2 DEF One
      <4> QED BY <2>2, <4>1 DEF CountInv
    <3> QED BY <2>2, <3>1 DEF CountInv
  <2>5. HandInv'
    BY <2>1, <2>2, <2>3 DEF HandInv, Assigning, Copying, LTypeOK
  <2>6. MadeInv'
    BY <2>2, <2>3 DEF MadeInv, Made, LTypeOK
  <2>7. WordsInv'
    BY <2>2, <2>3 DEF WordsInv
  <2> QED BY <2>1, <2>2, <2>4, <2>5, <2>6, <2>7
<1>5. CASE ReleaseOld(t)
  <2>1. AloneInv' /\ at[t] = "release" /\ at'[t] = "copy"
        /\ \A u \in Threads \ {t} : at'[u] = at[u] /\ at[u] \notin Assigning \cup Copying
    BY <1>5, Turn DEF ReleaseOld, Places, Copying
  <2>2. Drop(t) /\ UNCHANGED <<calls, object, control, copied, found>>
        /\ held' = [held EXCEPT ![t] = None]
    BY <1>5 DEF ReleaseOld, Drop
  <2>3. CountInv' /\ ~dangling'
    BY <2>2, DropCount
  <2>4. HandInv'
    BY <2>1, <2>2 DEF HandInv, Assigning, Copying, LTypeOK
  <2>5. MadeInv'
    BY <2>2 DEF MadeInv, Made, LTypeOK
  <2>6. WordsInv'
    BY <2>1, <2>2 DEF WordsInv, Assigning
  <2> QED BY <2>1, <2>3, <2>4, <2>5, <2>6
<1>6. CASE CopyObject(t)
  <2>1. AloneInv' /\ at[t] = "copy" /\ at'[t] = "control"
        /\ \A u \in Threads \ {t} : at'[u] = at[u] /\ at[u] \notin Assigning \cup Copying
    BY <1>6, Turn DEF CopyObject, Places, Copying
  <2>2. copied' = [copied EXCEPT ![t] = object]
        /\ UNCHANGED <<calls, object, control, held, found, count, dangling>>
    BY <1>6 DEF CopyObject
  <2>3. HandInv'
    BY <2>1, <2>2 DEF HandInv, Assigning, Copying, LTypeOK
  <2>4. WordsInv'
    BY <2>1, <2>2 DEF WordsInv, Assigning
  <2> QED BY <2>1, <2>2, <2>3, <2>4 DEF CountInv, MadeInv, Made, Holders
<1>7. CASE CopyControl(t)
  <2>1. AloneInv' /\ at[t] = "control" /\ at'[t] = "acquire"
        /\ \A u \in Threads \ {t} : at'[u] = at[u] /\ at[u] \notin Assigning \cup Copying
    BY <1>7, Turn DEF CopyControl, Places, Copying
  <2>2. found' = [found EXCEPT ![t] = control]
        /\ UNCHANGED <<calls, object, control, copied, held, count, dangling>>
    BY <1>7 DEF CopyControl
  <2>3. HandInv'
    BY <2>1, <2>2 DEF HandInv, Assigning, Copying, LTypeOK
  <2>4. WordsInv'
    BY <2>1, <2>2 DEF WordsInv, Assigning
  <2>5. MadeInv'
    BY <2>2 DEF MadeInv, Made, LTypeOK
  <2> QED BY <2>1, <2>2, <2>3, <2>4, <2>5 DEF CountInv, Holders
<1>8. CASE Acquire(t)
  <2> DEFINE b == found[t]
  <2>1. AloneInv' /\ at[t] = "acquire" /\ at'[t] = "log"
        /\ \A u \in Threads \ {t} : at'[u] = at[u] /\ at[u] \notin Assigning \cup Copying
    BY <1>8, Turn DEF Acquire, Places, Copying
  <2>2. /\ held' = [held EXCEPT ![t] = b] /\ count' = [count EXCEPT ![b] = @ + 1]
        /\ dangling' = (dangling \/ ~Exists(b))
        /\ UNCHANGED <<calls, object, control, copied, found>>
    BY <1>8 DEF Acquire
  <2>3. b = control /\ b \in Appenders /\ held[t] = None /\ copied[t] = object
    BY <2>1 DEF HandInv, Copying, LTypeOK
  <2>4. object = control
    BY <2>1 DEF WordsInv, Assigning
  <2>5. ~dangling'
    BY <2>2, <2>3, HeldExists
  <2>6. CountInv'
    <3>1. ASSUME NEW a \in Appenders
          PROVE  count'[a] = Cardinality(Holders(held', a)) + One(control, a)
      <4>1. /\ Cardinality(Holders(held, a)) \in Nat
            /\ Cardinality(Holders(held', a)) \in Nat
            /\ Cardinality(Holders(held', a)) + One(held[t], a)
                 = Cardinality(Holders(held, a)) + One(b, a)
        <5>1. held'[t] = b /\ OnlyAt(t, held, held')
          BY <2>2 DEF LTypeOK, OnlyAt
        <5>2. /\ Cardinality(Holders(held, a)) \in Nat
              /\ Cardinality(Holders(held', a)) \in Nat
              /\ Cardinality(Holders(held', a)) + One(held[t], a)
                   = Cardinality(Holders(held, a)) + One(held'[t], a)
          BY <5>1, HoldersChange
        <5> QED BY <5>1, <5>2 DEF One
      <4>2. One(held[t], a) = 0
        BY <2>3 DEF One
      <4>3. count'[a] = count[a] + One(b, a)
        BY <2>2, <2>3 DEF LTypeOK, One
      <4>4. count[a] = Cardinality(Holders(held, a)) + One(control, a)
        BY DEF CountInv
      <4> QED BY <4>1, <4>2, <4>3, <4>4 DEF One
    <3> QED BY <2>2, <3>1 DEF CountInv
  <2>7. HandInv'
    BY <2>1, <2>2, <2>3, <2>4 DEF HandInv, Assigning, Copying, LTypeOK
  <2>8. MadeInv'
    BY <2>2 DEF MadeInv, Made, LTypeOK
  <2>9. WordsInv'
    BY <2>2, <2>4 DEF WordsInv
  <2> QED BY <2>1, <2>5, <2>6, <2>7, <2>8, <2>9
<1>9. CASE Log(t)
  <2>1. AloneInv' /\ at[t] = "log" /\ at'[t] = "drop"
        /\ \A u \in Threads \ {t} : at'[u] = at[u]
    BY <1>9, Turn DEF Log, Places
  <2>2. dangling' = (dangling \/ ~Exists(copied[t]))
        /\ UNCHANGED <<calls, object, control, copied, held, found, count>>
    BY <1>9 DEF Log
  <2>3. copied[t] = held[t] /\ held[t] \in Appenders
    BY <2>1 DEF HandInv, LTypeOK
  <2>4. ~dangling'
    BY <2>2, <2>3, HeldExists
  <2>5. HandInv'
    BY <2>1, <2>2 DEF HandInv, Assigning, Copying
  <2>6. WordsInv'
    BY <2>1, <2>2 DEF WordsInv
  <2> QED BY <2>1, <2>2, <2>4, <2>5, <2>6 DEF CountInv, MadeInv, Made, Holders
<1>10. CASE DropCopy(t)
  <2>1. AloneInv' /\ at[t] = "drop" /\ at'[t] = "idle"
        /\ \A u \in Threads \ {t} : at'[u] = at[u]
    BY <1>10, Turn DEF DropCopy, Places
  <2>2. Drop(t) /\ UNCHANGED <<calls, object, control, copied, found>>
        /\ held' = [held EXCEPT ![t] = None]
    BY <1>10 DEF DropCopy, Drop
  <2>3. CountInv' /\ ~dangling'
    BY <2>2, DropCount
  <2>4. HandInv'
    BY <2>1, <2>2 DEF HandInv, Assigning, Copying, LTypeOK
  <2>5. MadeInv'
    BY <2>2 DEF MadeInv, Made, LTypeOK
  <2>6. WordsInv'
    BY <2>1, <2>2 DEF WordsInv
  <2> QED BY <2>1, <2>3, <2>4, <2>5, <2>6
<1> QED BY <1>1, <1>2, <1>3, <1>4, <1>5, <1>6, <1>7, <1>8, <1>9, <1>10

-----------------------------------------------------------------------------
LEMMA Initially ==
  ASSUME IsFiniteSet(Threads), None \notin Appenders, Init
  PROVE  LInv
<1>1. LTypeOK
  BY DEF Init, LTypeOK, Places
<1>2. CountInv
  <2>1. ASSUME NEW a \in Appenders
        PROVE  count[a] = Cardinality(Holders(held, a)) + One(control, a)
    <3>1. Holders(held, a) = {}
      BY DEF Init, Holders
    <3> QED BY <3>1, FS_EmptySet DEF Init, One
  <2> QED BY <2>1 DEF CountInv
<1>3. AloneInv /\ WordsInv /\ HandInv /\ MadeInv
  BY DEF Init, AloneInv, WordsInv, HandInv, MadeInv, Made, Inside, Assigning, Copying
<1> QED BY <1>1, <1>2, <1>3 DEF LInv, Init

LEMMA Stepwise ==
  ASSUME IsFiniteSet(Threads), MaxCalls \in Nat, None \notin Appenders,
         LInv, [Next]_vars
  PROVE  LInv'
<1>1. LTypeOK'
  BY TypeStep DEF LInv
<1>2. CASE UNCHANGED vars
  BY <1>1, <1>2 DEF LInv, vars, CountInv, AloneInv, WordsInv, HandInv, MadeInv,
                    Made, Inside, Holders
<1>3. CASE Next
  <2>1. ~overlap' => ~overlap
    BY <1>3 DEF Next, MakeShared, SwapObject, ReadControl, WriteControl,
                ReleaseOld, CopyObject, CopyControl, Acquire, Log, DropCopy, Go
  <2>2. ~overlap' => SerialInv'
    BY <1>3, <2>1, SerialStep DEF LInv, SerialInv
  <2> QED BY <1>1, <2>2 DEF LInv, SerialInv
<1> QED BY <1>2, <1>3

LEMMA Always ==
  ASSUME IsFiniteSet(Threads), MaxCalls \in Nat, None \notin Appenders
  PROVE  Spec => []LInv
<1>1. Init => LInv
  BY Initially
<1>2. LInv /\ [Next]_vars => LInv'
  BY Stepwise
<1> QED BY <1>1, <1>2, PTL DEF Spec

\* The race on _logAppender is the only way to an appender that is gone:
\* SerialUseIsSafe, for every number of threads and calls.
THEOREM SerialUseIsSafeAlways ==
  ASSUME IsFiniteSet(Threads), MaxCalls \in Nat, None \notin Appenders
  PROVE  Spec => []SerialUseIsSafe
<1>1. LInv => SerialUseIsSafe
  BY DEF LInv, SerialUseIsSafe
<1> QED BY <1>1, Always, PTL

\* And the only way to leak one: NothingLeaks, likewise.
THEOREM NothingLeaksAlways ==
  ASSUME IsFiniteSet(Threads), MaxCalls \in Nat, None \notin Appenders
  PROVE  Spec => []NothingLeaks
<1>1. ASSUME LInv PROVE NothingLeaks
  <2> SUFFICES ASSUME ~overlap, Quiet, NEW a \in Appenders, Exists(a)
               PROVE  a = control
    BY DEF NothingLeaks
  <2>1. CountInv /\ HandInv
    BY <1>1 DEF LInv
  <2>2. Holders(held, a) = {}
    BY <2>1 DEF HandInv, Quiet, Holders
  <2>3. count[a] = One(control, a)
    BY <2>1, <2>2, FS_EmptySet DEF CountInv, One
  <2> QED BY <2>3 DEF Exists, One
<1> QED BY <1>1, Always, PTL
=============================================================================
