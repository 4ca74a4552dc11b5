--------------------------- MODULE EventStore_proofs ---------------------------
(***************************************************************************)
(* Proofs about the event log of a task: for any number of events and      *)
(* loads, of appends that fail and of crashes.                             *)
(*                                                                         *)
(* QueueInv says where the calls are, OrderInv that the log, what follows  *)
(* it and the calls that wait are in the order of the calls, LossInv that  *)
(* every lost event is paid for by a torn write and CacheInv what the      *)
(* cache may hold at each step of the lock.                                *)
(***************************************************************************)
EXTENDS EventStore, SequenceTheorems, FiniteSetTheorems, TLAPS

\* The calls whose line is not written yet.
Waiting == IF step = "append" THEN chain ELSE Tail(chain)

\* e comes before f in c.
Before(c, e, f) ==
    \E k \in 1..Len(c) : \E n \in (k + 1)..Len(c) : c[k] = e /\ c[n] = f

InOrder(c, s) == \A i, j \in 1..Len(s) : i < j => Before(c, s[i], s[j])
AllBefore(c, s, t) == \A i \in 1..Len(s) : \A j \in 1..Len(t) : Before(c, s[i], t[j])
Called(s) == \A i \in 1..Len(s) : s[i] \in ToSet(called)

QueueInv ==
    /\ step # "append" => chain # <<>>
    /\ folded # None => step = "folding"
    /\ Called(log) /\ Called(tail) /\ Called(chain)

OrderInv ==
    /\ InOrder(called, log) /\ InOrder(called, tail) /\ InOrder(called, Waiting)
    /\ AllBefore(called, log, tail) /\ AllBefore(called, log, Waiting)
    /\ AllBefore(called, tail, Waiting)

\* The events whose line was ended and does not parse, before their call has
\* returned or after.
Gone == (acked \cup {e \in Events : step # "append" /\ e = Caller}) \ ToSet(log)

LossInv ==
    /\ IsFiniteSet(acked)
    /\ Cardinality(Gone) + (IF tail = <<>> THEN 0 ELSE 1) <= torn

CacheInv ==
    torn = 0 /\ ~overtaken =>
        /\ step = "append" => cache \in {None, log}
        /\ step = "written" => cache = None \/ Append(cache, Caller) = log
        /\ step = "folding" => cache = None /\ folded \in {None, log}

Inv == TypeOK /\ QueueInv /\ OrderInv /\ LossInv /\ CacheInv

-----------------------------------------------------------------------------

\* A call is first in the chain while the lock is held.
LEMMA HeadOfChain ==
    ASSUME chain \in Tasks, chain # <<>>
    PROVE  /\ Caller \in Events /\ Tail(chain) \in Tasks /\ Caller = chain[1]
           /\ 1 \in 1..Len(chain) /\ Len(chain) \in Nat /\ Len(Tail(chain)) = Len(chain) - 1
           /\ \A i \in 1..Len(Tail(chain)) : Tail(chain)[i] = chain[i + 1] /\ i + 1 \in 1..Len(chain)
<1>1. Len(chain) \in Nat \ {0}
    BY EmptySeq DEF Tasks
<1>2. /\ Head(chain) \in Events /\ Tail(chain) \in Tasks /\ Len(Tail(chain)) = Len(chain) - 1
      /\ \A i \in 1..Len(Tail(chain)) : Tail(chain)[i] = chain[i + 1]
    BY HeadTailProperties DEF Tasks
<1> QED
    BY <1>1, <1>2 DEF Caller

\* What a fold makes of the file is a task.
LEMMA FoldType ==
    ASSUME log \in Tasks, tail \in Tasks
    PROVE  Fold \in Tasks
BY ConcatProperties DEF Fold, Tasks

LEMMA ToSetOf ==
    ASSUME NEW S, NEW s \in Seq(S)
    PROVE  /\ ToSet(s) = {s[i] : i \in 1..Len(s)} /\ ToSet(s) \subseteq S
           /\ \A e \in S : ToSet(Append(s, e)) = ToSet(s) \cup {e}
<1>1. DOMAIN s = 1..Len(s) /\ \A i \in 1..Len(s) : s[i] \in S
    BY LenProperties, ElementOfSeq
<1>2. ASSUME NEW e \in S
      PROVE  ToSet(Append(s, e)) = ToSet(s) \cup {e}
    <2> DEFINE t == Append(s, e)
    <2>1. /\ t \in Seq(S) /\ Len(t) = Len(s) + 1 /\ Len(s) \in Nat
          /\ \A i \in 1..Len(s) : t[i] = s[i]
          /\ t[Len(s) + 1] = e /\ DOMAIN t = 1..Len(t)
        BY AppendProperties, LenProperties
    <2> HIDE DEF t
    <2>2. 1..Len(t) = 1..Len(s) \cup {Len(s) + 1}
        BY <2>1
    <2>3. {t[i] : i \in 1..Len(t)} = {s[i] : i \in 1..Len(s)} \cup {e}
        BY <2>1, <2>2
    <2> QED
        BY <1>1, <2>1, <2>3 DEF ToSet, t
<1> QED
    BY <1>1, <1>2 DEF ToSet

-----------------------------------------------------------------------------

\* An event is put at the end of a task.
LEMMA Appended ==
    ASSUME NEW s \in Tasks, NEW e \in Events
    PROVE  LET t == Append(s, e) IN
           /\ t \in Tasks /\ Len(t) = Len(s) + 1 /\ Len(s) \in Nat
           /\ t[Len(s) + 1] = e
           /\ \A i \in 1..Len(s) : t[i] = s[i]
           /\ s \o <<e>> = t
BY AppendProperties, AppendIsConcat, LenProperties DEF Tasks

\* The line is ended: its event is in the log, or the line holds another one.
LEMMA WriteFacts ==
    ASSUME TypeOK, QueueInv, chain # <<>>, WriteLine
    PROVE  /\ log' \in Tasks /\ tail' = <<>> /\ tail' \in Tasks /\ whole' = FALSE
           /\ log' = IF tail = <<>> THEN Append(log, Caller) ELSE log
           /\ Caller \in ToSet(called)
           /\ Called(log') /\ \A i \in 1..Len(tail') : FALSE
<1>1. Caller \in Events /\ Caller \in ToSet(called)
    BY HeadOfChain DEF TypeOK, QueueInv, Called
<1>2. log' = IF tail = <<>> THEN Append(log, Caller) ELSE log
    BY DEF WriteLine
<1>3. log' \in Tasks
    BY <1>1, <1>2, Appended DEF TypeOK
<1>4. \A i \in 1..Len(log') : log'[i] \in ToSet(called)
    BY <1>1, <1>2, Appended DEF TypeOK, QueueInv, Called
<1>5. tail' = <<>> /\ tail' \in Tasks /\ whole' = FALSE /\ \A i \in 1..Len(tail') : FALSE
    BY EmptySeq DEF WriteLine, Tasks
<1> QED
    BY <1>1, <1>2, <1>3, <1>4, <1>5 DEF Called

LEMMA TearFlag == Tear => whole' \in BOOLEAN
BY Zenon DEF Tear

\* A part of the line, or all of it but its end, is left behind.
LEMMA TearFacts ==
    ASSUME TypeOK, QueueInv, chain # <<>>, Tear
    PROVE  /\ log' = log /\ tail' = Append(tail, Caller) /\ tail' \in Tasks
           /\ whole' \in BOOLEAN /\ (whole' => Len(tail') = 1) /\ torn' = torn + 1
           /\ Called(tail')
<1>1. Caller \in Events /\ Caller \in ToSet(called)
    BY HeadOfChain DEF TypeOK, QueueInv, Called
<1>2. tail' = Append(tail, Caller) /\ tail' \in Tasks
    <2>1. tail' = tail \o <<Caller>> /\ tail \in Tasks
        BY DEF TypeOK, Tear
    <2> QED
        BY <1>1, <2>1, Appended
<1>3. \A i \in 1..Len(tail') : tail'[i] \in ToSet(called)
    <2>1. tail \in Tasks /\ \A i \in 1..Len(tail) : tail[i] \in ToSet(called)
        BY DEF TypeOK, QueueInv, Called
    <2> QED
        BY <1>1, <1>2, <2>1, Appended
<1>4. whole' => Len(tail') = 1
    <2>1. tail = <<>> => Len(tail) = 0
        BY EmptySeq
    <2>2. whole' => tail = <<>>
        BY DEF Tear
    <2>3. tail \in Tasks
        BY DEF TypeOK
    <2> QED
        BY <1>1, <1>2, <2>1, <2>2, <2>3, Appended
<1> QED
    BY <1>2, <1>3, <1>4, TearFlag DEF Tear, Called

\* What each step makes of the file.
WriteEnds == chain # <<>> /\ step = "append" /\ step' = "written" /\ WriteLine /\ torn' = torn
WriteTears == chain # <<>> /\ step = "append" /\ step' = "append" /\ Tear

LEMMA FileSteps ==
    ASSUME [Next]_vars
    PROVE  WriteEnds \/ WriteTears \/ UNCHANGED logVars
BY DEF Next, vars, logVars, Locked, Call, AppendFile, AppendFails, Apply, ReadUnderLock,
       FoldFails, CacheFold, Load, LoadRead, LoadSet, Crash, WriteEnds, WriteTears

-----------------------------------------------------------------------------

LEMMA InvInit == Init => Inv
<1> SUFFICES ASSUME Init PROVE Inv
    OBVIOUS
<1>1. <<>> \in Tasks /\ Len(<<>>) = 0
    BY EmptySeq DEF Tasks
<1>2. TypeOK
    <2>1. read \in [Loaders -> Tasks]
        BY <1>1 DEF Init
    <2>2. pc \in [Loaders -> {"out", "reading", "read"}]
        BY DEF Init
    <2>3. faults \in 0..MaxFaults /\ crashes \in 0..MaxCrashes
        BY BoundsAreNat DEF Init
    <2> QED
        BY <1>1, <2>1, <2>2, <2>3 DEF Init, TypeOK, Steps
<1>3. QueueInv /\ OrderInv /\ CacheInv
    BY <1>1 DEF Init, QueueInv, OrderInv, CacheInv, Called, InOrder, AllBefore, Waiting
<1>4. Gone = {}
    BY DEF Init, Gone
<1>5. LossInv
    BY <1>4, FS_EmptySet DEF Init, LossInv
<1> QED
    BY <1>2, <1>3, <1>5 DEF Inv

\* The file is a file, and what is on it has been called.
LEMMA FileKept ==
    ASSUME TypeOK, QueueInv, [Next]_vars
    PROVE  /\ log' \in Tasks /\ tail' \in Tasks /\ whole' \in BOOLEAN /\ torn' \in Nat
           /\ whole' => Len(tail') = 1
           /\ \A i \in 1..Len(log') : log'[i] \in ToSet(called)
           /\ \A i \in 1..Len(tail') : tail'[i] \in ToSet(called)
<1>1. CASE WriteEnds
    BY <1>1, WriteFacts DEF WriteEnds, TypeOK, Called
<1>2. CASE WriteTears
    BY <1>2, TearFacts DEF WriteTears, TypeOK, QueueInv, Called
<1>3. CASE UNCHANGED logVars
    BY <1>3 DEF logVars, TypeOK, QueueInv, Called
<1> QED
    BY <1>1, <1>2, <1>3, FileSteps

\* What the lock, the cache and the calls are after a step, apart from the file.
RestOK ==
    /\ cache \in Tasks \cup {None}
    /\ chain \in Tasks /\ step \in Steps /\ folded \in Tasks \cup {None}
    /\ pc \in [Loaders -> {"out", "reading", "read"}] /\ read \in [Loaders -> Tasks]
    /\ faults \in 0..MaxFaults /\ crashes \in 0..MaxCrashes
    /\ called \in Tasks /\ acked \subseteq ToSet(called) /\ overtaken \in BOOLEAN
    /\ step # "append" => chain # <<>>
    /\ folded # None => step = "folding"
    /\ Called(chain)

\* The first of the chain returns.
LEMMA ReturnFacts ==
    ASSUME TypeOK, QueueInv, chain # <<>>, Return
    PROVE  /\ chain' \in Tasks /\ step' = "append" /\ folded' = None
           /\ acked' \subseteq ToSet(called)
           /\ \A i \in 1..Len(chain') : chain'[i] \in ToSet(called)
BY HeadOfChain DEF TypeOK, QueueInv, Called, Return

LEMMA ResetFacts ==
    /\ <<>> \in Tasks /\ \A i \in 1..Len(<<>>) : FALSE
    /\ [l \in Loaders |-> "out"] \in [Loaders -> {"out", "reading", "read"}]
    /\ [l \in Loaders |-> <<>>] \in [Loaders -> Tasks]
BY EmptySeq DEF Tasks

LEMMA RestKept ==
    ASSUME TypeOK, QueueInv, [Next]_vars
    PROVE  RestOK' /\ ToSet(called) \subseteq ToSet(called')
<1> USE DEF RestOK
<1>0. RestOK
    BY DEF TypeOK, QueueInv
<1>1. ASSUME NEW e \in Events, Call(e)
      PROVE  RestOK' /\ ToSet(called) \subseteq ToSet(called')
    <2>1. called' = Append(called, e) /\ chain' = Append(chain, e)
        BY <1>1 DEF Call, Enter
    <2>2. called' \in Tasks /\ chain' \in Tasks /\ ToSet(called') = ToSet(called) \cup {e}
        BY <2>1, <1>0, Appended, ToSetOf DEF Tasks
    <2>3. \A i \in 1..Len(chain') : chain'[i] \in ToSet(called')
        BY <2>1, <2>2, <1>0, Appended DEF Called
    <2>4. chain' # <<>>
        BY <2>1, <1>0, AppendProperties DEF Tasks
    <2> QED
        BY <1>0, <1>1, <2>2, <2>3, <2>4 DEF Call, Called, loadVars
<1>2. CASE AppendFile
    BY <1>0, <1>2 DEF AppendFile, Called, loadVars, Steps
<1>3. CASE AppendFails
    <2>1. chain' \in Tasks /\ \A i \in 1..Len(chain') : chain'[i] \in ToSet(called)
        BY <1>3, <1>0, HeadOfChain DEF AppendFails, Called
    <2>2. faults' \in 0..MaxFaults
        BY <1>3, <1>0, BoundsAreNat DEF AppendFails
    <2> QED
        BY <1>0, <1>3, <2>1, <2>2 DEF AppendFails, Called, loadVars
<1>4. CASE Apply
    <2>1. CASE cache = None
        BY <1>0, <1>4, <2>1 DEF Apply, Called, loadVars, Steps
    <2>2. CASE cache # None
        <3>1. Return /\ cache' = Append(cache, Caller) /\ chain # <<>>
            BY <1>4, <2>2 DEF Apply
        <3>2. cache' \in Tasks
            BY <3>1, <2>2, <1>0, HeadOfChain, Appended
        <3> QED
            BY <1>0, <1>4, <3>1, <3>2, ReturnFacts DEF Apply, Called, loadVars, Steps
    <2> QED
        BY <2>1, <2>2
<1>5. CASE ReadUnderLock
    BY <1>0, <1>5, FoldType DEF TypeOK, ReadUnderLock, Called, loadVars
<1>10. CASE FoldFails
    <2>1. chain # <<>> /\ step' = "append" /\ folded = None /\ chain' = Tail(chain)
          /\ faults' = faults + 1 /\ faults < MaxFaults
        BY <1>0, <1>10 DEF FoldFails
    <2>2. chain' \in Tasks /\ \A i \in 1..Len(chain') : chain'[i] \in ToSet(called)
        BY <2>1, <1>0, HeadOfChain DEF Called
    <2>3. faults' \in 0..MaxFaults
        BY <2>1, <1>0, BoundsAreNat
    <2> QED
        BY <1>0, <1>10, <2>1, <2>2, <2>3 DEF FoldFails, Called, loadVars, Steps
<1>6. CASE CacheFold
    <2>1. Return /\ cache' = folded /\ folded # None /\ chain # <<>>
        BY <1>0, <1>6 DEF CacheFold
    <2> QED
        BY <1>0, <1>6, <2>1, ReturnFacts DEF CacheFold, Called, loadVars, Steps
<1>7. ASSUME NEW l \in Loaders, Load(l) \/ LoadRead(l) \/ LoadSet(l)
      PROVE  RestOK' /\ ToSet(called) \subseteq ToSet(called')
    <2>1. <<>> \in Tasks
        BY ResetFacts
    <2>2. Fold \in Tasks
        BY FoldType DEF TypeOK
    <2>3. pc' \in [Loaders -> {"out", "reading", "read"}]
        BY <1>0, <1>7 DEF Load, LoadRead, LoadSet
    <2>4. read' \in [Loaders -> Tasks] /\ cache' \in Tasks \cup {None}
        BY <1>0, <1>7, <2>1, <2>2 DEF Load, LoadRead, LoadSet
    <2>5. overtaken' \in BOOLEAN
        BY <1>0, <1>7 DEF Load, LoadRead, LoadSet
    <2>6. UNCHANGED <<lockVars, faults, crashes, called, acked>>
        BY <1>7 DEF Load, LoadRead, LoadSet
    <2> QED
        BY <1>0, <2>3, <2>4, <2>5, <2>6 DEF lockVars, Called
<1>8. CASE Crash
    <2>1. /\ cache' = None /\ chain' = <<>> /\ step' = "append" /\ folded' = None
          /\ pc' = [l \in Loaders |-> "out"] /\ read' = [l \in Loaders |-> <<>>]
          /\ overtaken' = FALSE /\ UNCHANGED <<faults, called, acked>>
        BY <1>8 DEF Crash
    <2>2. crashes' \in 0..MaxCrashes
        BY <1>8, <1>0, BoundsAreNat DEF Crash
    <2> QED
        BY <1>0, <2>1, <2>2, ResetFacts DEF Called, Steps
<1>9. CASE UNCHANGED vars
    BY <1>0, <1>9 DEF vars, lockVars, loadVars, Called
<1> QED
    BY <1>1, <1>2, <1>3, <1>4, <1>5, <1>6, <1>7, <1>8, <1>9, <1>10 DEF Next, Locked

\* Every variable keeps its type, and everything on the file or in the chain
\* has been called.
LEMMA TypeNext ==
    ASSUME TypeOK, QueueInv, [Next]_vars
    PROVE  TypeOK' /\ QueueInv'
<1>1. RestOK' /\ ToSet(called) \subseteq ToSet(called')
    BY RestKept
<1>2. /\ log' \in Tasks /\ tail' \in Tasks /\ whole' \in BOOLEAN /\ torn' \in Nat
      /\ whole' => Len(tail') = 1
      /\ \A i \in 1..Len(log') : log'[i] \in ToSet(called')
      /\ \A i \in 1..Len(tail') : tail'[i] \in ToSet(called')
    BY <1>1, FileKept
<1> QED
    BY <1>1, <1>2 DEF RestOK, TypeOK, QueueInv, Called

-----------------------------------------------------------------------------
\* The order of the calls.

\* An event that is called last comes after everything called before it.
LEMMA BeforeCalled ==
    ASSUME NEW c \in Tasks, NEW e \in Events
    PROVE  /\ \A x, y : Before(c, x, y) => Before(Append(c, e), x, y)
           /\ \A x \in ToSet(c) : Before(Append(c, e), x, e)
<1> DEFINE L == Len(c)
           d == Append(c, e)
<1>1. L \in Nat /\ Len(d) = L + 1 /\ d[L + 1] = e /\ \A i \in 1..L : d[i] = c[i]
    BY Appended
<1> HIDE DEF d
<1>2. ASSUME NEW x, NEW y, Before(c, x, y)
      PROVE  Before(d, x, y)
    <2>1. PICK k \in 1..L : \E n \in (k + 1)..L : c[k] = x /\ c[n] = y
        BY <1>2 DEF Before
    <2>2. PICK n \in (k + 1)..L : c[k] = x /\ c[n] = y
        BY <2>1
    <2>3. k \in 1..Len(d) /\ n \in (k + 1)..Len(d) /\ n \in 1..L
        BY <1>1
    <2>4. d[k] = x /\ d[n] = y
        BY <1>1, <2>2, <2>3
    <2> QED
        BY <2>3, <2>4 DEF Before
<1>3. ASSUME NEW x \in ToSet(c)
      PROVE  Before(d, x, e)
    <2>1. PICK k \in 1..L : c[k] = x
        BY ToSetOf DEF Tasks
    <2>2. k \in 1..Len(d) /\ L + 1 \in (k + 1)..Len(d)
        BY <1>1
    <2>3. d[k] = x /\ d[L + 1] = e
        BY <1>1, <2>1
    <2> QED
        BY <2>2, <2>3 DEF Before
<1> QED
    BY <1>2, <1>3 DEF d

\* An event goes to the end of a task.
LEMMA OrderAppended ==
    ASSUME NEW s \in Tasks, NEW e \in Events, InOrder(called, s),
           \A i \in 1..Len(s) : Before(called, s[i], e)
    PROVE  /\ InOrder(called, Append(s, e))
           /\ \A t : AllBefore(called, s, t) /\ (\A j \in 1..Len(t) : Before(called, e, t[j]))
                        => AllBefore(called, Append(s, e), t)
           /\ \A t : AllBefore(called, t, s) /\ (\A j \in 1..Len(t) : Before(called, t[j], e))
                        => AllBefore(called, t, Append(s, e))
<1> DEFINE u == Append(s, e)
<1>1. /\ Len(u) = Len(s) + 1 /\ Len(s) \in Nat /\ u[Len(s) + 1] = e
      /\ \A i \in 1..Len(s) : u[i] = s[i]
    BY Appended
<1> HIDE DEF u
<1>2. \A i \in 1..Len(u) : i \in 1..Len(s) \/ i = Len(s) + 1
    BY <1>1
<1>3. \A i, j \in 1..Len(u) : i < j => i \in 1..Len(s)
    BY <1>1
<1>4. InOrder(called, u)
    BY <1>1, <1>2, <1>3 DEF InOrder
<1>5. \A t : AllBefore(called, s, t) /\ (\A j \in 1..Len(t) : Before(called, e, t[j]))
                => AllBefore(called, u, t)
    BY <1>1, <1>2 DEF AllBefore
<1>6. \A t : AllBefore(called, t, s) /\ (\A j \in 1..Len(t) : Before(called, t[j], e))
                => AllBefore(called, t, u)
    BY <1>1, <1>2 DEF AllBefore
<1> QED
    BY <1>4, <1>5, <1>6 DEF u

\* The first of the chain is before the rest of it.
LEMMA OrderOfChain ==
    ASSUME chain \in Tasks, chain # <<>>, InOrder(called, chain)
    PROVE  /\ InOrder(called, Tail(chain))
           /\ \A j \in 1..Len(Tail(chain)) : Before(called, Caller, Tail(chain)[j])
           /\ \A s : AllBefore(called, s, chain) =>
                /\ AllBefore(called, s, Tail(chain))
                /\ \A i \in 1..Len(s) : Before(called, s[i], Caller)
<1> DEFINE T == Tail(chain)
<1>1. /\ Caller = chain[1] /\ 1 \in 1..Len(chain) /\ Len(chain) \in Nat
      /\ Len(T) = Len(chain) - 1
      /\ \A i \in 1..Len(T) : T[i] = chain[i + 1] /\ i + 1 \in 1..Len(chain)
    BY HeadOfChain
<1> HIDE DEF T
<1>2. ASSUME NEW i \in 1..Len(T), NEW j \in 1..Len(T), i < j
      PROVE  Before(called, T[i], T[j])
    <2>1. i + 1 < j + 1
        BY <1>1, <1>2
    <2> QED
        BY <1>1, <2>1 DEF InOrder
<1>3. ASSUME NEW j \in 1..Len(T)
      PROVE  Before(called, Caller, T[j])
    <2>1. 1 < j + 1
        BY <1>1
    <2> QED
        BY <1>1, <2>1 DEF InOrder
<1>4. ASSUME NEW s, AllBefore(called, s, chain)
      PROVE  AllBefore(called, s, T) /\ \A i \in 1..Len(s) : Before(called, s[i], Caller)
    BY <1>1, <1>4 DEF AllBefore
<1> QED
    BY <1>2, <1>3, <1>4 DEF InOrder, T

\* The line of the first of the chain reaches the file, whole or in part.
LEMMA OrderWritten ==
    ASSUME TypeOK, QueueInv, OrderInv, step = "append", chain # <<>>,
           NEW t, t = tail \/ t = Append(tail, Caller),
           NEW w, w = Tail(chain) \/ w = <<>>
    PROVE  /\ InOrder(called, t) /\ InOrder(called, w)
           /\ AllBefore(called, log, t) /\ AllBefore(called, log, w) /\ AllBefore(called, t, w)
           /\ InOrder(called, Append(log, Caller)) /\ AllBefore(called, Append(log, Caller), w)
<1>1. /\ InOrder(called, log) /\ InOrder(called, tail) /\ InOrder(called, chain)
      /\ AllBefore(called, log, tail) /\ AllBefore(called, log, chain)
      /\ AllBefore(called, tail, chain)
    BY DEF OrderInv, Waiting
<1>2. Caller \in Events /\ log \in Tasks /\ tail \in Tasks /\ chain \in Tasks
    BY HeadOfChain DEF TypeOK
<1>3. Len(<<>>) = 0
    BY EmptySeq
<1>4. /\ InOrder(called, w) /\ AllBefore(called, log, w) /\ AllBefore(called, tail, w)
      /\ \A j \in 1..Len(w) : Before(called, Caller, w[j])
    <2>1. CASE w = <<>>
        BY <1>3, <2>1 DEF InOrder, AllBefore
    <2>2. CASE w = Tail(chain)
        BY <1>1, <1>2, <2>2, OrderOfChain
    <2> QED
        BY <2>1, <2>2
<1>5. /\ \A i \in 1..Len(log) : Before(called, log[i], Caller)
      /\ \A i \in 1..Len(tail) : Before(called, tail[i], Caller)
    BY <1>1, <1>2, OrderOfChain
<1>6. InOrder(called, Append(log, Caller)) /\ AllBefore(called, Append(log, Caller), w)
    BY <1>1, <1>2, <1>4, <1>5, OrderAppended
<1>7. InOrder(called, t) /\ AllBefore(called, log, t) /\ AllBefore(called, t, w)
    BY <1>1, <1>2, <1>4, <1>5, OrderAppended
<1> QED
    BY <1>4, <1>6, <1>7

LEMMA OrderNext ==
    ASSUME TypeOK, QueueInv, OrderInv, [Next]_vars
    PROVE  OrderInv'
<1>0. Len(<<>>) = 0
    BY EmptySeq
<1>1. ASSUME NEW e \in Events, Call(e)
      PROVE  OrderInv'
    <2>1. /\ called' = Append(called, e) /\ chain' = Append(chain, e)
          /\ UNCHANGED <<log, tail, step>>
        BY <1>1 DEF Call, Enter, logVars
    <2>2. Waiting' = Append(Waiting, e) /\ Waiting \in Tasks /\ Called(Waiting)
        <3>1. CASE step = "append"
            BY <2>1, <3>1 DEF Waiting, TypeOK, QueueInv
        <3>2. CASE step # "append"
            <4>1. chain # <<>> /\ chain \in Tasks
                BY <3>2 DEF QueueInv, TypeOK
            <4>2. Tail(chain') = Append(Tail(chain), e)
                BY <2>1, <4>1, HeadTailAppend DEF Tasks
            <4>3. Tail(chain) \in Tasks /\ Called(Tail(chain))
                BY <4>1, HeadOfChain DEF QueueInv, Called
            <4> QED
                BY <2>1, <3>2, <4>2, <4>3 DEF Waiting
        <3> QED
            BY <3>1, <3>2
    <2>3. /\ \A x, y : Before(called, x, y) => Before(called', x, y)
          /\ \A x \in ToSet(called) : Before(called', x, e)
        BY <2>1, BeforeCalled DEF TypeOK
    <2>4. log \in Tasks /\ tail \in Tasks /\ Called(log) /\ Called(tail)
        BY DEF TypeOK, QueueInv
    <2> DEFINE W == Waiting
               V == Append(W, e)
    <2>5. /\ Len(V) = Len(W) + 1 /\ Len(W) \in Nat /\ V[Len(W) + 1] = e
          /\ \A i \in 1..Len(W) : V[i] = W[i]
        BY <2>2, Appended
    <2>6. /\ InOrder(called, log) /\ InOrder(called, tail) /\ InOrder(called, W)
          /\ AllBefore(called, log, tail) /\ AllBefore(called, log, W)
          /\ AllBefore(called, tail, W)
        BY DEF OrderInv
    <2>9. Called(W) /\ Waiting' = V
        BY <2>2
    <2> HIDE DEF W, V
    <2>7. \A i \in 1..Len(V) : i \in 1..Len(W) \/ i = Len(W) + 1
        BY <2>5
    <2>8. \A i, j \in 1..Len(V) : i < j => i \in 1..Len(W)
        BY <2>5
    <2>10. InOrder(called', log) /\ InOrder(called', tail) /\ AllBefore(called', log, tail)
        BY <2>3, <2>6 DEF InOrder, AllBefore
    <2>11. InOrder(called', V)
        BY <2>3, <2>5, <2>6, <2>7, <2>8, <2>9 DEF InOrder, Called
    <2>12. AllBefore(called', log, V) /\ AllBefore(called', tail, V)
        BY <2>3, <2>4, <2>5, <2>6, <2>7 DEF AllBefore, Called
    <2> QED
        BY <2>1, <2>9, <2>10, <2>11, <2>12 DEF OrderInv
<1>2. CASE AppendFile
    <2>1. chain # <<>> /\ step = "append" /\ called' = called /\ Waiting' = Tail(chain) /\ WriteLine
        BY <1>2 DEF AppendFile, Waiting
    <2>2. tail' = <<>> /\ (log' = log \/ log' = Append(log, Caller))
        BY <2>1, WriteFacts
    <2>3. /\ InOrder(called, log') /\ AllBefore(called, log', Tail(chain))
          /\ InOrder(called, Tail(chain))
        BY <2>1, <2>2, OrderWritten DEF OrderInv
    <2> QED
        BY <1>0, <2>1, <2>2, <2>3 DEF OrderInv, InOrder, AllBefore
<1>3. CASE AppendFails
    <2>1. chain # <<>> /\ step = "append" /\ called' = called /\ Waiting' = Tail(chain)
        BY <1>3 DEF AppendFails, Waiting
    <2>2. log' = log /\ (tail' = tail \/ tail' = Append(tail, Caller))
        BY <1>3, <2>1, TearFacts DEF AppendFails, logVars
    <2>3. /\ InOrder(called, log) /\ InOrder(called, tail') /\ InOrder(called, Tail(chain))
          /\ AllBefore(called, log, tail') /\ AllBefore(called, log, Tail(chain))
          /\ AllBefore(called, tail', Tail(chain))
        BY <2>1, <2>2, OrderWritten DEF OrderInv
    <2> QED
        BY <2>1, <2>2, <2>3 DEF OrderInv, InOrder, AllBefore
<1>4. CASE Crash
    <2>1. called' = called /\ chain' = <<>> /\ Waiting' = <<>>
        BY <1>4 DEF Crash, Waiting
    <2>2. \/ log' = log /\ tail' = tail
          \/ /\ chain # <<>> /\ step = "append"
             /\ log' = log /\ tail' = Append(tail, Caller)
        BY <1>4, TearFacts DEF Crash, logVars
    <2>3. /\ InOrder(called, log) /\ InOrder(called, tail') /\ AllBefore(called, log, tail') /\ log' = log
        BY <2>2, OrderWritten DEF OrderInv
    <2>4. InOrder(called, <<>>) /\ \A s : AllBefore(called, s, <<>>)
        BY <1>0 DEF InOrder, AllBefore
    <2> QED
        BY <2>1, <2>3, <2>4 DEF OrderInv, InOrder, AllBefore
<1>5. CASE \/ Apply \/ ReadUnderLock \/ FoldFails \/ CacheFold
           \/ \E l \in Loaders : Load(l) \/ LoadRead(l) \/ LoadSet(l)
           \/ UNCHANGED vars
    <2>1. UNCHANGED <<log, tail, called>>
        BY <1>5 DEF Apply, ReadUnderLock, FoldFails, CacheFold, Load, LoadRead, LoadSet, vars, logVars
    <2>2. Waiting' = Waiting
        BY <1>5 DEF Apply, ReadUnderLock, FoldFails, CacheFold, Load, LoadRead, LoadSet, vars, lockVars,
                    Return, Waiting
    <2> QED
        BY <2>1, <2>2 DEF OrderInv, InOrder, AllBefore
<1> QED
    BY <1>1, <1>2, <1>3, <1>4, <1>5 DEF Next, Locked

-----------------------------------------------------------------------------
\* What is lost, and what the cache holds.

\* The events that are gone are finitely many.
LEMMA GoneFinite ==
    ASSUME IsFiniteSet(acked)
    PROVE  IsFiniteSet(Gone) /\ Cardinality(Gone) \in Nat
<1>1. IsFiniteSet(acked \cup {Caller})
    BY FS_AddElement
<1>2. Gone \subseteq acked \cup {Caller}
    BY DEF Gone
<1>3. IsFiniteSet(Gone)
    BY <1>1, <1>2, FS_Subset
<1> QED
    BY <1>3, FS_CardinalityType

\* What is at the head stays at the head when a call is added.
LEMMA HeadStays ==
    ASSUME chain \in Tasks, chain # <<>>, NEW e \in Events
    PROVE  Head(Append(chain, e)) = Caller
BY HeadTailAppend DEF Caller, Tasks

\* A torn write pays for the event whose line its bytes will spoil.
LEMMA LossNext ==
    ASSUME TypeOK, QueueInv, LossInv, [Next]_vars
    PROVE  LossInv'
<1> DEFINE paid(t) == IF t = <<>> THEN 0 ELSE 1
<1>0. /\ IsFiniteSet(acked) /\ IsFiniteSet(Gone) /\ Cardinality(Gone) \in Nat /\ torn \in Nat
      /\ Cardinality(Gone) + paid(tail) <= torn
    BY GoneFinite DEF LossInv, TypeOK
<1>1. SUFFICES /\ IsFiniteSet(acked')
               /\ \/ Gone' \subseteq Gone /\ tail' = tail /\ torn' = torn
                  \/ Gone' \subseteq Gone /\ torn' = torn + 1
                  \/ Gone' \subseteq Gone /\ tail' = <<>> /\ torn' = torn
                  \/ /\ Gone' \subseteq Gone \cup {Caller}
                     /\ tail # <<>> /\ tail' = <<>> /\ torn' = torn
    <2> SUFFICES Cardinality(Gone') + paid(tail') <= torn'
        BY <1>1 DEF LossInv
    <2> DEFINE more == Gone \cup {Caller}
    <2>0. IsFiniteSet(more) /\ Cardinality(more) = IF Caller \in Gone THEN Cardinality(Gone)
                                                                   ELSE Cardinality(Gone) + 1
        BY <1>0, FS_AddElement
    <2>1. /\ IsFiniteSet(more) /\ Cardinality(more) \in Nat
          /\ Cardinality(more) <= Cardinality(Gone) + 1
        BY <1>0, <2>0
    <2>2. Cardinality(Gone') \in Nat
        BY <1>1, GoneFinite, FS_CardinalityType, FS_Subset, <1>0, <2>1
    <2>3. Gone' \subseteq Gone => Cardinality(Gone') <= Cardinality(Gone)
        BY <1>0, FS_Subset
    <2>4. Gone' \subseteq Gone \cup {Caller} => Cardinality(Gone') <= Cardinality(Gone) + 1
        <3> SUFFICES ASSUME Gone' \subseteq Gone \cup {Caller}
                     PROVE  Cardinality(Gone') <= Cardinality(Gone) + 1
            OBVIOUS
        <3>1. Cardinality(Gone') <= Cardinality(more)
            BY <2>1, FS_Subset
        <3> QED
            BY <3>1, <2>1, <2>2, <1>0
    <2> QED
        BY <1>0, <1>1, <2>2, <2>3, <2>4
<1>2. ASSUME NEW e \in Events, Call(e)
      PROVE  Gone' \subseteq Gone /\ UNCHANGED <<acked, tail, torn>>
    <2>1. chain' = Append(chain, e) /\ UNCHANGED <<acked, tail, torn, log, step>>
        BY <1>2 DEF Call, Enter, logVars
    <2>2. step # "append" => Caller' = Caller
        BY <2>1, HeadStays DEF QueueInv, TypeOK, Caller
    <2> QED
        BY <2>1, <2>2 DEF Gone
<1>3. CASE AppendFile
    <2>1. /\ chain # <<>> /\ step = "append" /\ WriteLine /\ tail' = <<>>
          /\ UNCHANGED <<acked, chain, torn>>
        BY <1>3 DEF AppendFile, WriteLine
    <2>2. log \in Tasks /\ Caller \in Events /\ Caller' = Caller
        BY <2>1, HeadOfChain DEF TypeOK, Caller
    <2>3. CASE tail = <<>>
        <3>1. ToSet(log') = ToSet(log) \cup {Caller}
            BY <2>1, <2>2, <2>3, ToSetOf, WriteFacts DEF Tasks
        <3>2. Gone' \subseteq Gone
            BY <2>1, <2>2, <3>1 DEF Gone
        <3> QED
            BY <1>0, <2>1, <3>2
    <2>4. CASE tail # <<>>
        <3>1. log' = log
            BY <2>1, <2>4 DEF WriteLine
        <3>2. Gone' \subseteq Gone \cup {Caller}
            BY <2>1, <2>2, <3>1 DEF Gone
        <3> QED
            BY <1>0, <2>1, <2>4, <3>2
    <2> QED
        BY <2>3, <2>4
<1>4. CASE AppendFails
    <2>1. step = "append" /\ step' = "append" /\ acked' = acked /\ log' = log
          /\ (torn' = torn + 1 \/ UNCHANGED <<tail, torn>>)
        BY <1>4 DEF AppendFails, Tear, logVars
    <2>2. Gone' \subseteq Gone
        BY <2>1 DEF Gone
    <2> QED
        BY <1>0, <2>1, <2>2
<1>8. CASE FoldFails
    <2>1. step' = "append" /\ UNCHANGED <<acked, log, tail, torn>>
        BY <1>8 DEF FoldFails, logVars
    <2>2. Gone' \subseteq Gone
        BY <2>1 DEF Gone
    <2> QED
        BY <1>0, <2>1, <2>2
<1>5. CASE Apply \/ CacheFold
    <2>1. /\ chain # <<>> /\ step # "append" /\ UNCHANGED <<log, tail, torn>>
          /\ \/ UNCHANGED <<chain, acked>>
             \/ step' = "append" /\ acked' = acked \cup {Caller}
        BY <1>5 DEF Apply, CacheFold, Return, logVars, QueueInv
    <2>2. Caller \in Events
        BY <2>1, HeadOfChain DEF TypeOK
    <2>3. Gone' \subseteq Gone
        BY <2>1, <2>2 DEF Gone, Caller
    <2>4. IsFiniteSet(acked')
        BY <1>0, <2>1, FS_AddElement
    <2> QED
        BY <2>1, <2>3, <2>4
<1>6. CASE Crash
    <2>1. step' = "append" /\ acked' = acked /\ log' = log
          /\ (torn' = torn + 1 \/ UNCHANGED <<tail, torn>>)
        BY <1>6 DEF Crash, Tear, logVars
    <2>2. Gone' \subseteq Gone
        BY <2>1 DEF Gone
    <2> QED
        BY <1>0, <2>1, <2>2
<1>7. CASE \/ ReadUnderLock \/ UNCHANGED vars
           \/ \E l \in Loaders : Load(l) \/ LoadRead(l) \/ LoadSet(l)
    <2>1. UNCHANGED <<log, tail, torn, acked, step, chain>>
        BY <1>7 DEF ReadUnderLock, vars, Load, LoadRead, LoadSet, logVars, lockVars
    <2>2. Gone' \subseteq Gone
        BY <2>1 DEF Gone, Caller
    <2> QED
        BY <1>0, <2>1, <2>2
<1> QED
    BY <1>0, <1>2, <1>3, <1>4, <1>5, <1>6, <1>7, <1>8 DEF Next, Locked

\* Before any write is cut short there is nothing behind the last newline.
LEMMA CleanFold ==
    ASSUME TypeOK, LossInv, torn = 0
    PROVE  tail = <<>> /\ Fold = log
<1>1. Cardinality(Gone) \in Nat
    BY GoneFinite DEF LossInv
<1>2. tail = <<>>
    BY <1>1 DEF LossInv
<1>3. Len(tail) = 0
    BY <1>2, EmptySeq
<1> QED
    BY <1>2, <1>3 DEF TypeOK, Fold

\* The cache and the fold under the lock keep up with the log.
LEMMA CacheNext ==
    ASSUME TypeOK, QueueInv, LossInv, CacheInv, [Next]_vars
    PROVE  CacheInv'
<1> SUFFICES ASSUME torn' = 0, ~overtaken'
             PROVE  /\ step' = "append" => cache' \in {None, log'}
                    /\ step' = "written" => cache' = None \/ Append(cache', Caller') = log'
                    /\ step' = "folding" => cache' = None /\ folded' \in {None, log'}
    BY DEF CacheInv
<1>1. torn = 0
    <2>1. torn \in Nat
        BY DEF TypeOK
    <2>2. Tear => torn' = torn + 1
        BY Zenon DEF Tear
    <2> QED
        BY <2>1, <2>2, FileSteps DEF WriteEnds, WriteTears, logVars
<1>2. tail = <<>> /\ Fold = log
    BY <1>1, CleanFold
<1>3. CASE ~overtaken /\ ~Crash
    <2>1. /\ step = "append" => cache \in {None, log}
          /\ step = "written" => cache = None \/ Append(cache, Caller) = log
          /\ step = "folding" => cache = None /\ folded \in {None, log}
        BY <1>1, <1>3 DEF CacheInv
    <2>2. ASSUME NEW e \in Events, Call(e)
          PROVE  UNCHANGED <<cache, log, step, folded>> /\ (step = "written" => Caller' = Caller)
        <3>1. chain' = Append(chain, e) /\ UNCHANGED <<cache, log, step, folded>>
            BY <2>2 DEF Call, Enter, logVars
        <3> QED
            BY <3>1, HeadStays DEF QueueInv, TypeOK, Caller
    <2>3. CASE AppendFile
        <3>1. step = "append" /\ step' = "written" /\ cache' = cache /\ log' = Append(log, Caller)
              /\ Caller' = Caller
            BY <2>3, <1>2 DEF AppendFile, WriteLine, Caller
        <3> QED
            BY <2>1, <3>1
    <2>4. CASE AppendFails
        BY <2>1, <2>4 DEF AppendFails, Tear, logVars
    <2>5. CASE Apply
        <3>1. folded = None
            BY <2>5 DEF Apply, QueueInv
        <3> QED
            BY <2>1, <2>5, <3>1 DEF Apply, Return, logVars
    <2>6. CASE ReadUnderLock
        BY <2>1, <2>6, <1>2 DEF ReadUnderLock, logVars
    <2>11. CASE FoldFails
        BY <2>1, <2>11 DEF FoldFails, logVars
    <2>7. CASE CacheFold
        BY <2>1, <2>7 DEF CacheFold, Return, logVars
    <2>8. ASSUME NEW l \in Loaders, Load(l) \/ LoadRead(l)
          PROVE  UNCHANGED <<cache, log, step, folded, chain>>
        BY <2>8 DEF Load, LoadRead, logVars, lockVars
    <2>9. ASSUME NEW l \in Loaders, LoadSet(l)
          PROVE  step' = "append" /\ cache' = log'
        <3>1. cache' = read[l] /\ chain = <<>> /\ read[l] = Fold /\ UNCHANGED <<step, log>>
            BY <2>9 DEF LoadSet, logVars, lockVars
        <3>2. step = "append"
            BY <3>1 DEF QueueInv
        <3> QED
            BY <3>1, <3>2, <1>2
    <2>10. UNCHANGED vars => UNCHANGED <<cache, log, step, folded, chain>>
        BY DEF vars, logVars, lockVars
    <2> QED
        BY <1>3, <2>1, <2>2, <2>3, <2>4, <2>5, <2>6, <2>7, <2>8, <2>9, <2>10, <2>11
        DEF Next, Locked, Caller
<1>4. CASE Crash
    BY <1>4 DEF Crash
<1>5. overtaken => Crash
    <2>1. ASSUME overtaken, ~Crash
          PROVE  overtaken'
        BY <2>1 DEF Next, Locked, Call, AppendFile, AppendFails, Apply, ReadUnderLock, FoldFails,
                    CacheFold, Load, LoadRead, LoadSet, vars
    <2> QED
        BY <2>1
<1> QED
    BY <1>3, <1>4, <1>5

LEMMA InvAlways == Spec => []Inv
<1>1. Inv /\ [Next]_vars => Inv'
    BY TypeNext, OrderNext, LossNext, CacheNext DEF Inv
<1> QED
    BY <1>1, InvInit, PTL DEF Spec

-----------------------------------------------------------------------------

\* Every variable keeps its type, at every step of a call, a load or a crash.
THEOREM EventTypeCorrect == Spec => []TypeOK
BY InvAlways, PTL DEF Inv

\* However many appends fail and wherever the sidecar dies, the acknowledged
\* events a fold does not find are no more than the writes that were cut short.
THEOREM LossIsPaidFor == Spec => []OneLossPerTear
<1>1. Inv => OneLossPerTear
    <2> SUFFICES ASSUME Inv PROVE OneLossPerTear
        OBVIOUS
    <2>1. IsFiniteSet(Gone) /\ Cardinality(Gone) \in Nat /\ Cardinality(Gone) <= torn /\ torn \in Nat
        BY GoneFinite DEF Inv, LossInv, TypeOK
    <2>2. ToSet(log) \subseteq ToSet(Fold)
        <3>1. log \in Tasks /\ tail \in Tasks /\ Fold \in Tasks
            BY FoldType DEF Inv, TypeOK
        <3>2. /\ Len(log) \in Nat /\ Len(tail) \in Nat
              /\ Len(log \o tail) = Len(log) + Len(tail)
              /\ \A i \in 1..Len(log) : (log \o tail)[i] = log[i]
            BY <3>1, ConcatProperties, LenProperties DEF Tasks
        <3>3. \A i \in 1..Len(log) : i \in 1..Len(Fold) /\ Fold[i] = log[i]
            BY <3>2 DEF Fold
        <3> QED
            BY <3>1, <3>3, ToSetOf DEF Tasks
    <2>3. acked \ ToSet(Fold) \subseteq Gone
        BY <2>2 DEF Gone
    <2>4. Cardinality(acked \ ToSet(Fold)) <= Cardinality(Gone)
        BY <2>1, <2>3, FS_Subset
    <2>5. Cardinality(acked \ ToSet(Fold)) \in Nat
        BY <2>1, <2>3, FS_Subset, FS_CardinalityType
    <2> QED
        BY <2>1, <2>4, <2>5 DEF OneLossPerTear
<1> QED
    BY <1>1, InvAlways, PTL

\* A fold, under the lock or beside it, before a crash or after, applies events
\* in the order of their calls and none of them twice.
THEOREM FoldsInOrder == Spec => []FoldInOrder
<1>1. Inv => FoldInOrder
    <2> SUFFICES ASSUME Inv PROVE InOrder(called, Fold)
        BY DEF FoldInOrder, InOrder, Before
    <2>1. log \in Tasks /\ tail \in Tasks
        BY DEF Inv, TypeOK
    <2>2. /\ Len(log) \in Nat /\ Len(tail) \in Nat
          /\ Len(log \o tail) = Len(log) + Len(tail)
          /\ \A i \in 1..Len(log) : (log \o tail)[i] = log[i]
          /\ \A i \in 1..Len(tail) : (log \o tail)[Len(log) + i] = tail[i]
        BY <2>1, ConcatProperties, LenProperties DEF Tasks
    <2>3. InOrder(called, log) /\ AllBefore(called, log, tail)
        BY DEF Inv, OrderInv
    <2>4. CASE ~whole
        BY <2>3, <2>4 DEF Fold
    <2>5. CASE whole
        <3> DEFINE t == log \o tail
        <3>1. Len(tail) = 1
            BY <2>5 DEF Inv, TypeOK
        <3>2. Len(t) = Len(log) + 1 /\ t[Len(log) + 1] = tail[1] /\ 1 \in 1..Len(tail)
              /\ \A i \in 1..Len(log) : t[i] = log[i]
            BY <2>2, <3>1
        <3> HIDE DEF t
        <3>3. ASSUME NEW i \in 1..Len(t), NEW j \in 1..Len(t), i < j
              PROVE  Before(called, t[i], t[j])
            <4>1. i \in 1..Len(log)
                BY <2>2, <3>2, <3>3
            <4>2. CASE j \in 1..Len(log)
                BY <2>3, <3>2, <3>3, <4>1, <4>2 DEF InOrder
            <4>3. CASE j = Len(log) + 1
                BY <2>3, <3>2, <4>1, <4>3 DEF AllBefore
            <4> QED
                BY <2>2, <3>2, <4>2, <4>3
        <3> QED
            BY <2>5, <3>3 DEF Fold, InOrder, t
    <2> QED
        BY <2>4, <2>5
<1> QED
    BY <1>1, InvAlways, PTL

\* With no call under way, no write cut short and no load beside an append, the
\* task in memory is what a restart would rebuild.
THEOREM CacheIsCurrent == Spec => []CacheCurrent
<1>1. Inv => CacheCurrent
    BY CleanFold DEF Inv, CacheInv, CacheCurrent
<1> QED
    BY <1>1, InvAlways, PTL

=============================================================================
