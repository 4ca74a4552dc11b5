--------------------------- MODULE GitMutex_proofs -----------------------------
(***************************************************************************)
(* The mutex of git/mutex.ts is a lock, for any number of callers: its     *)
(* invariant is inductive, and every step is a step of WorkspaceLock.      *)
(***************************************************************************)
EXTENDS GitMutex, TLAPS, SequenceTheorems, WellFoundedInduction

\* First picks a least element.
LEMMA FirstIsLeast ==
    ASSUME NEW S, S \subseteq Nat, S # {}
    PROVE  First(S) \in S /\ \A j \in S : First(S) <= j
<1> DEFINE Less == OpToRel(<, Nat)
<1>1. IsWellFoundedOn(Less, Nat)
    BY NatLessThanWellFounded
<1> HIDE DEF Less
<1>2. PICK x \in S : \A y \in S : <<y, x>> \notin Less
    BY <1>1, WFMin
<1>3. ASSUME NEW y \in S
      PROVE  x <= y
    <2>1. \A a, b \in Nat : a < b => <<a, b>> \in Less
        BY DEF Less, OpToRel
    <2>2. ~(y < x)
        BY <1>2, <2>1
    <2> QED
        BY <2>2
<1> QED
    BY <1>3 DEF First

\* What splicing c out of a sequence without duplicates leaves.
LEMMA WithoutFacts ==
    ASSUME NEW s \in Seq(Callers), NEW k \in 1..Len(s),
           \A i, j \in 1..Len(s) : s[i] = s[j] => i = j
    PROVE  /\ Without(s, s[k]) = [i \in 1..(Len(s) - 1) |-> IF i < k THEN s[i] ELSE s[i + 1]]
           /\ Without(s, s[k]) \in Seq(Callers)
           /\ Len(Without(s, s[k])) = Len(s) - 1
<1> DEFINE T == [i \in 1..(Len(s) - 1) |-> IF i < k THEN s[i] ELSE s[i + 1]]
<1> DEFINE I == {i \in 1..Len(s) : s[i] = s[k]}
<1>1. I = {k}
    <2>1. ASSUME NEW i \in I
          PROVE  i = k
        BY <2>1
    <2>2. k \in I
        OBVIOUS
    <2> QED
        BY <2>1, <2>2
<1>2. First(I) = k
    <2>1. I \subseteq Nat /\ I # {}
        BY <1>1
    <2>2. First(I) \in I
        BY <2>1, FirstIsLeast
    <2> QED
        BY <2>2, <1>1
<1>3. Without(s, s[k]) = T
    <2>1. \E i \in 1..Len(s) : s[i] = s[k]
        OBVIOUS
    <2> QED
        BY <2>1, <1>2 DEF Without
<1>4. Len(s) - 1 \in Nat /\ T \in [1..(Len(s) - 1) -> Callers]
    OBVIOUS
<1>5. T \in Seq(Callers) /\ Len(T) = Len(s) - 1
    BY <1>4
<1> HIDE DEF T
<1> QED
    BY <1>3, <1>5 DEF T

\* The initial state satisfies the invariant.
LEMMA LockInvInit == Init => LockInv
<1> SUFFICES ASSUME Init PROVE LockInv
    OBVIOUS
<1>1. \A c \in Callers : pc[c] = "out"
    BY DEF Init
<1>2. waiters = <<>> /\ Len(waiters) = 0 /\ waiters \in Seq(Callers)
    BY DEF Init
<1>3. TypeOK
    BY <1>2 DEF Init, TypeOK, Pcs
<1>4. \A i \in 1..Len(waiters) : FALSE
    BY <1>2
<1> QED
    BY <1>1, <1>2, <1>3, <1>4 DEF Init, LockInv, MutualExclusion, Owner

\* release finds the first waiter live.
LEMMA LiveIsAll ==
    ASSUME LockInv
    PROVE  /\ Live = 1..Len(waiters)
           /\ Live # {} => First(Live) = 1 /\ 1 \in 1..Len(waiters)
<1>1. Live = 1..Len(waiters)
    BY DEF LockInv, Live
<1>2. ASSUME Live # {}
      PROVE  First(Live) = 1 /\ 1 \in 1..Len(waiters)
    <2>1. Len(waiters) \in Nat
        BY DEF LockInv, TypeOK
    <2>2. 1 \in Live
        BY <1>1, <1>2, <2>1
    <2>3. Live \subseteq Nat /\ Live # {}
        BY <1>1, <1>2, <2>1
    <2>4. First(Live) \in Live /\ \A j \in Live : First(Live) <= j
        BY <2>3, FirstIsLeast
    <2>5. First(Live) \in 1..Len(waiters) /\ First(Live) <= 1
        BY <1>1, <2>2, <2>4
    <2> QED
        BY <2>1, <2>5
<1> QED
    BY <1>1, <1>2

\* What appending to the queue does.
LEMMA AppendFacts ==
    ASSUME NEW S, NEW s \in Seq(S), NEW e \in S
    PROVE  /\ Append(s, e) \in Seq(S)
           /\ Len(s) \in Nat /\ Len(Append(s, e)) = Len(s) + 1
           /\ Append(s, e)[Len(s) + 1] = e
           /\ \A i \in 1..Len(s) : Append(s, e)[i] = s[i]
BY AppendProperties, LenProperties

\* What shifting the first waiter off the queue does.
LEMMA ShiftFacts ==
    ASSUME NEW S, NEW s \in Seq(S), 1 \in 1..Len(s)
    PROVE  /\ SubSeq(s, 2, Len(s)) \in Seq(S)
           /\ Len(s) \in Nat /\ Len(SubSeq(s, 2, Len(s))) = Len(s) - 1
           /\ \A i \in 1..(Len(s) - 1) : SubSeq(s, 2, Len(s))[i] = s[i + 1]
<1>1. Len(s) \in Nat
    BY LenProperties
<1>2. SubSeq(s, 2, Len(s)) = [i \in 1..(Len(s) - 2 + 1) |-> s[2 + i - 1]]
    BY <1>1 DEF SubSeq
<1>3. ASSUME NEW i \in 1..(Len(s) - 1)
      PROVE  SubSeq(s, 2, Len(s))[i] = s[i + 1]
    BY <1>1, <1>2
<1>4. SubSeq(s, 2, Len(s)) \in Seq(S) /\ Len(SubSeq(s, 2, Len(s))) = Len(s) - 1
    <2>1. \A i \in 2..Len(s) : s[i] \in S
        BY <1>1, ElementOfSeq
    <2>2. /\ SubSeq(s, 2, Len(s)) \in Seq(S)
          /\ Len(SubSeq(s, 2, Len(s))) = IF 2 <= Len(s) THEN Len(s) - 2 + 1 ELSE 0
        BY <1>1, <2>1, SubSeqProperties
    <2> QED
        BY <1>1, <2>2
<1> QED
    BY <1>1, <1>3, <1>4

\* Every step preserves the invariant.
LEMMA LockInvNext == LockInv /\ [Next]_vars => LockInv'
<1> SUFFICES ASSUME LockInv, [Next]_vars
             PROVE  LockInv'
    OBVIOUS
<1> USE DEF LockInv, TypeOK, MutualExclusion, Owner, Pcs
<1>1. ASSUME NEW c \in Callers, Acquire(c)
      PROVE  LockInv'
    <2>1. CASE ~held
        BY <1>1, <2>1 DEF Acquire
    <2>2. CASE held
        <3>1. /\ waiters' = Append(waiters, c)
              /\ waiters' \in Seq(Callers)
              /\ Len(waiters') = Len(waiters) + 1
              /\ waiters'[Len(waiters) + 1] = c
              /\ \A i \in 1..Len(waiters) : waiters'[i] = waiters[i]
            <4>1. waiters' = Append(waiters, c) /\ waiters \in Seq(Callers)
                BY <1>1, <2>2 DEF Acquire
            <4> QED
                BY <4>1, AppendFacts
        <3>2. \A i \in 1..Len(waiters) : waiters[i] # c
            BY <1>1 DEF Acquire
        <3>3. /\ held' = held /\ done' = done \ {c} /\ armed' = armed \cup {c}
              /\ pc' = [pc EXCEPT ![c] = "waiting"] /\ pc[c] = "out"
            BY <1>1, <2>2 DEF Acquire
        <3>4. TypeOK'
            BY <3>1, <3>3
        <3>5. MutualExclusion' /\ (held <=> \E d \in Callers : Owner(d))'
            BY <3>3, <2>2
        <3>6. (\A d \in Callers : pc[d] = "waiting" => \E i \in 1..Len(waiters) : waiters[i] = d)'
            <4> SUFFICES ASSUME NEW d \in Callers, pc'[d] = "waiting"
                         PROVE  \E i \in 1..Len(waiters') : waiters'[i] = d
                OBVIOUS
            <4>1. CASE d = c
                BY <4>1, <3>1
            <4>2. CASE d # c
                BY <4>2, <3>1, <3>3
            <4> QED
                BY <4>1, <4>2
        <3>7. (\A i \in 1..Len(waiters) : pc[waiters[i]] = "waiting" /\ waiters[i] \notin done)'
            BY <3>1, <3>2, <3>3
        <3>8. (\A i, j \in 1..Len(waiters) : waiters[i] = waiters[j] => i = j)'
            BY <3>1, <3>2
        <3>9. (\A d \in armed : pc[d] = "waiting")' /\ (waiters # <<>> => held)'
            BY <3>3, <2>2
        <3> QED
            BY <3>4, <3>5, <3>6, <3>7, <3>8, <3>9
    <2> QED
        BY <2>1, <2>2
<1>2. ASSUME NEW c \in Callers, Enter(c)
      PROVE  LockInv'
    BY <1>2 DEF Enter
<1>3. ASSUME NEW c \in Callers, Timeout(c)
      PROVE  LockInv'
    <2>1. CASE c \in done
        BY <1>3, <2>1 DEF Timeout
    <2>2. CASE c \notin done
        <3>1. pc[c] = "waiting"
            BY <1>3 DEF Timeout
        <3>2. PICK k \in 1..Len(waiters) : waiters[k] = c
            BY <3>1
        <3> DEFINE w == waiters'
                   l == Len(waiters)
        <3>3. /\ w = Without(waiters, waiters[k])
              /\ done' = done \cup {c} /\ armed' = armed \ {c} /\ held' = held
              /\ pc' = [pc EXCEPT ![c] = "busy"]
            BY <1>3, <2>2, <3>2 DEF Timeout
        <3>4. l \in Nat /\ k \in 1..l
            BY <3>2
        <3>5. /\ w = [i \in 1..(l - 1) |-> IF i < k THEN waiters[i] ELSE waiters[i + 1]]
              /\ w \in Seq(Callers) /\ Len(w) = l - 1
            <4>1. waiters \in Seq(Callers) /\ \A i, j \in 1..l : waiters[i] = waiters[j] => i = j
                OBVIOUS
            <4> HIDE DEF LockInv
            <4> QED
                BY <4>1, <3>2, <3>3, WithoutFacts
        <3> DEFINE From(i) == IF i < k THEN i ELSE i + 1
        <3>6. /\ \A i \in 1..Len(w) : From(i) \in 1..l /\ From(i) # k /\ w[i] = waiters[From(i)]
              /\ \A i, j \in 1..Len(w) : From(i) = From(j) => i = j
              /\ \A m \in 1..l : m # k => \E i \in 1..Len(w) : From(i) = m
            <4>1. ASSUME NEW i \in 1..(l - 1)
                  PROVE  From(i) \in 1..l /\ From(i) # k /\ w[i] = waiters[From(i)]
                BY <3>4, <3>5
            <4>2. ASSUME NEW i \in 1..(l - 1), NEW j \in 1..(l - 1), From(i) = From(j)
                  PROVE  i = j
                BY <3>4, <4>2
            <4>3. ASSUME NEW m \in 1..l, m # k
                  PROVE  \E i \in 1..(l - 1) : From(i) = m
                <5>1. CASE m < k
                    <6>1. m \in 1..(l - 1) /\ From(m) = m
                        BY <3>4, <5>1
                    <6> QED
                        BY <6>1
                <5>2. CASE m > k
                    <6>1. m - 1 \in 1..(l - 1) /\ From(m - 1) = m
                        BY <3>4, <5>2
                    <6> QED
                        BY <6>1
                <5> QED
                    BY <3>4, <4>3, <5>1, <5>2
            <4> QED
                BY <3>5, <4>1, <4>2, <4>3
        <3> HIDE DEF From, w, l
        <3>7. (\A i \in 1..Len(waiters) : pc[waiters[i]] = "waiting" /\ waiters[i] \notin done)'
            <4> SUFFICES ASSUME NEW i \in 1..Len(w)
                         PROVE  pc'[w[i]] = "waiting" /\ w[i] \notin done'
                BY DEF w
            <4>1. PICK m \in 1..l : m # k /\ w[i] = waiters[m]
                BY <3>6
            <4>2. waiters[m] # c /\ waiters[m] \in Callers
                BY <3>2, <4>1 DEF l
            <4> QED
                BY <3>3, <4>1, <4>2 DEF l
        <3>8. (\A i, j \in 1..Len(waiters) : waiters[i] = waiters[j] => i = j)'
            <4> SUFFICES ASSUME NEW i \in 1..Len(w), NEW j \in 1..Len(w), w[i] = w[j]
                         PROVE  i = j
                BY DEF w
            <4>1. waiters[From(i)] = waiters[From(j)] /\ From(i) \in 1..l /\ From(j) \in 1..l
                BY <3>6
            <4>2. From(i) = From(j)
                BY <4>1 DEF l
            <4> QED
                BY <3>6, <4>2
        <3>9. (\A d \in Callers : pc[d] = "waiting" => \E i \in 1..Len(waiters) : waiters[i] = d)'
            <4> SUFFICES ASSUME NEW d \in Callers, pc'[d] = "waiting"
                         PROVE  \E i \in 1..Len(waiters') : waiters'[i] = d
                OBVIOUS
            <4>1. d # c /\ pc[d] = "waiting"
                BY <3>3
            <4>2. PICK m \in 1..l : waiters[m] = d
                BY <4>1 DEF l
            <4>3. m # k
                BY <4>1, <4>2, <3>2
            <4>4. PICK i \in 1..Len(w) : From(i) = m
                BY <4>3, <3>6
            <4> QED
                BY <4>2, <4>4, <3>6 DEF w
        <3>10. held /\ waiters' # <<>> => held'
            BY <3>2, <3>3
        <3>11. waiters # <<>>
            BY <3>2
        <3>12. TypeOK' /\ MutualExclusion' /\ (\A d \in armed : pc[d] = "waiting")'
            BY <3>3, <3>5, <3>1 DEF w
        <3>13. (held <=> \E d \in Callers : Owner(d))'
            BY <3>3, <3>1
        <3> QED
            BY <3>7, <3>8, <3>9, <3>10, <3>11, <3>12, <3>13
    <2> QED
        BY <2>1, <2>2
<1>4. ASSUME NEW c \in Callers, Reject(c)
      PROVE  LockInv'
    BY <1>4 DEF Reject
<1>5. ASSUME NEW c \in Callers, Release(c)
      PROVE  LockInv'
    <2>1. CASE Live # {}
        <3> DEFINE d == waiters[1]
                   w == waiters'
                   l == Len(waiters)
        <3>1. First(Live) = 1 /\ 1 \in 1..l /\ l \in Nat
            BY <2>1, LiveIsAll
        <3>2. pc[c] = "inside" /\ HandOff(c, 1)
            BY <1>5, <2>1, <3>1 DEF Release
        <3>3. /\ w = SubSeq(waiters, 2, l)
              /\ done' = done \cup {d} /\ armed' = armed \ {d} /\ held' = held
              /\ pc' = [pc EXCEPT ![c] = "out", ![d] = "granted"]
            BY <3>2 DEF HandOff
        <3>4. d \in Callers /\ pc[d] = "waiting" /\ d # c
            BY <3>1, <3>2
        <3>5. /\ w \in Seq(Callers) /\ Len(w) = l - 1
              /\ \A i \in 1..(l - 1) : w[i] = waiters[i + 1]
            <4>1. waiters \in Seq(Callers)
                OBVIOUS
            <4> HIDE DEF LockInv
            <4> QED
                BY <4>1, <3>1, <3>3, ShiftFacts
        <3>6. \A i \in 1..Len(w) : i + 1 \in 1..l /\ i + 1 # 1 /\ w[i] = waiters[i + 1]
            BY <3>1, <3>5
        <3>7. \A e \in Callers : pc'[e] = IF e = d THEN "granted" ELSE IF e = c THEN "out" ELSE pc[e]
            <4>1. pc \in [Callers -> Pcs]
                OBVIOUS
            <4> HIDE DEF d, LockInv
            <4> QED
                BY <3>3, <4>1
        <3>8. \A m \in 1..l : m # 1 =>
                waiters[m] # d /\ waiters[m] # c /\ waiters[m] \in Callers
            BY <3>1, <3>2
        <3>9. held /\ held'
            BY <3>2, <3>3
        <3>10. TypeOK'
            <4>1. pc' \in [Callers -> Pcs] /\ done' \subseteq Callers /\ armed' \subseteq Callers
                BY <3>3, <3>4
            <4> QED
                BY <3>5, <3>9, <4>1 DEF w
        <3>11. armed' \subseteq armed /\ d \notin armed'
            BY <3>3
        <3> HIDE DEF d, w, l
        <3>12. MutualExclusion' /\ (held <=> \E e \in Callers : Owner(e))'
            BY <3>2, <3>4, <3>7, <3>9
        <3>13. (\A e \in Callers : pc[e] = "waiting" => \E i \in 1..Len(waiters) : waiters[i] = e)'
            <4> SUFFICES ASSUME NEW e \in Callers, pc'[e] = "waiting"
                         PROVE  \E i \in 1..Len(w) : w[i] = e
                BY DEF w
            <4>1. e # d /\ pc[e] = "waiting"
                BY <3>7
            <4>2. PICK m \in 1..l : waiters[m] = e
                BY <4>1 DEF l
            <4>3. m # 1
                BY <4>1, <4>2 DEF d
            <4>4. m - 1 \in 1..Len(w) /\ m = (m - 1) + 1
                BY <3>1, <3>5, <4>2, <4>3
            <4> QED
                BY <4>2, <4>4, <3>6
        <3>14. (\A i \in 1..Len(waiters) : pc[waiters[i]] = "waiting" /\ waiters[i] \notin done)'
            <4> SUFFICES ASSUME NEW i \in 1..Len(w)
                         PROVE  pc'[w[i]] = "waiting" /\ w[i] \notin done'
                BY DEF w
            <4>1. PICK m \in 1..l : m # 1 /\ w[i] = waiters[m]
                BY <3>6
            <4>2. waiters[m] # d /\ waiters[m] # c /\ waiters[m] \in Callers
                BY <3>8, <4>1
            <4>3. pc[waiters[m]] = "waiting" /\ waiters[m] \notin done
                BY <4>1 DEF l
            <4> QED
                BY <3>3, <3>7, <4>1, <4>2, <4>3
        <3>15. (\A i, j \in 1..Len(waiters) : waiters[i] = waiters[j] => i = j)'
            <4> SUFFICES ASSUME NEW i \in 1..Len(w), NEW j \in 1..Len(w), w[i] = w[j]
                         PROVE  i = j
                BY DEF w
            <4>1. /\ waiters[i + 1] = waiters[j + 1]
                  /\ i + 1 \in 1..Len(waiters) /\ j + 1 \in 1..Len(waiters)
                BY <3>6 DEF l
            <4>2. i + 1 = j + 1
                BY <4>1
            <4>3. i \in Nat /\ j \in Nat
                BY <3>1, <3>5
            <4> QED
                BY <4>2, <4>3
        <3>16. (\A e \in armed : pc[e] = "waiting")' /\ (waiters # <<>> => held)'
            <4>1. ASSUME NEW e \in armed'
                  PROVE  pc'[e] = "waiting"
                <5>1. e \in Callers /\ e # d /\ pc[e] = "waiting" /\ e # c
                    BY <3>2, <3>11, <4>1
                <5> QED
                    BY <3>7, <5>1
            <4> QED
                BY <3>9, <4>1
        <3> QED
            BY <3>10, <3>12, <3>13, <3>14, <3>15, <3>16
    <2>2. CASE Live = {}
        <3>1. 1..Len(waiters) = {} /\ Len(waiters) \in Nat
            BY <2>2, LiveIsAll
        <3>2. waiters = <<>> /\ ~(\E i \in 1..Len(waiters) : TRUE)
            BY <3>1
        <3>3. /\ pc[c] = "inside" /\ held' = FALSE /\ waiters' = <<>>
              /\ pc' = [pc EXCEPT ![c] = "out"] /\ UNCHANGED <<done, armed>>
            BY <1>5, <2>2 DEF Release
        <3>4. \A e \in Callers : pc'[e] # "waiting" /\ ~Owner(e)'
            BY <3>2, <3>3
        <3>5. waiters' = waiters
            BY <3>2, <3>3
        <3>6. armed = {}
            BY <3>2
        <3>7. TypeOK'
            BY <3>3, <3>5
        <3>8. ~(\E i \in 1..Len(waiters') : TRUE)
            BY <3>2, <3>5
        <3> QED
            BY <3>2, <3>3, <3>4, <3>5, <3>6, <3>7, <3>8
    <2> QED
        BY <2>1, <2>2
<1>6. CASE UNCHANGED vars
    BY <1>6 DEF vars
<1> QED
    BY <1>1, <1>2, <1>3, <1>4, <1>5, <1>6 DEF Next

\* No hand-off is lost and no timed-out waiter is ever handed the lock.
THEOREM LockCorrect == Spec => []LockInv
BY LockInvInit, LockInvNext, PTL DEF Spec

\* Two activities never work on a workspace at the same time.
THEOREM OneAtATime == Spec => []MutualExclusion
<1>1. LockInv => MutualExclusion
    BY DEF LockInv
<1> QED
    BY <1>1, LockCorrect, PTL

\* What a step that moves one caller does to the status of the callers.
LEMMA StatusMoves ==
    ASSUME NEW c \in Callers, NEW p, pc \in [Callers -> Pcs], pc' = [pc EXCEPT ![c] = p]
    PROVE  lockStatus' = [lockStatus EXCEPT ![c] = StatusOf(p)]
<1>1. \A e \in Callers : pc'[e] = IF e = c THEN p ELSE pc[e]
    OBVIOUS
<1> QED
    BY <1>1, Zenon DEF lockStatus

\* Every step of the mutex is a step of the lock, or invisible to its callers.
LEMMA LockStep == LockInv /\ [Next]_vars => [Lock!Next]_lockStatus
<1> SUFFICES ASSUME LockInv, [Next]_vars
             PROVE  [Lock!Next]_lockStatus
    OBVIOUS
<1>1. /\ pc \in [Callers -> Pcs]
      /\ \A c \in Callers : lockStatus[c] = StatusOf(pc[c])
    BY DEF LockInv, TypeOK, lockStatus
<1>2. ASSUME NEW c \in Callers, Acquire(c)
      PROVE  Lock!Ask(c)
    <2>1. lockStatus[c] = "out"
        BY <1>1, <1>2 DEF Acquire, StatusOf
    <2>2. CASE ~held
        <3>1. pc' = [pc EXCEPT ![c] = "granted"]
            BY <1>2, <2>2 DEF Acquire
        <3>2. lockStatus' = [lockStatus EXCEPT ![c] = "in"]
            BY <1>1, <3>1, StatusMoves DEF StatusOf
        <3>3. Lock!Free
            <4>1. \A d \in Callers : pc[d] \notin {"granted", "inside"}
                BY <2>2 DEF LockInv, Owner
            <4> QED
                BY <1>1, <4>1 DEF Lock!Free, StatusOf
        <3> QED
            BY <2>1, <3>2, <3>3 DEF Lock!Ask
    <2>3. CASE held
        <3>1. pc' = [pc EXCEPT ![c] = "waiting"]
            BY <1>2, <2>3 DEF Acquire
        <3>2. lockStatus' = [lockStatus EXCEPT ![c] = "asking"]
            BY <1>1, <3>1, StatusMoves DEF StatusOf
        <3> QED
            BY <2>1, <3>2 DEF Lock!Ask
    <2> QED
        BY <2>2, <2>3
<1>3. ASSUME NEW c \in Callers, Enter(c)
      PROVE  lockStatus' = lockStatus
    <2>1. pc[c] = "granted" /\ pc' = [pc EXCEPT ![c] = "inside"]
        BY <1>3 DEF Enter
    <2>2. \A e \in Callers : StatusOf(pc'[e]) = StatusOf(pc[e])
        BY <1>1, <2>1 DEF StatusOf
    <2> QED
        BY <2>2 DEF lockStatus
<1>4. ASSUME NEW c \in Callers, Timeout(c)
      PROVE  Lock!Refuse(c) \/ lockStatus' = lockStatus
    <2>1. CASE c \in done
        BY <1>4, <2>1 DEF Timeout, lockStatus
    <2>2. CASE c \notin done
        <3>1. pc[c] = "waiting" /\ pc' = [pc EXCEPT ![c] = "busy"]
            BY <1>4, <2>2 DEF Timeout, LockInv
        <3>2. lockStatus' = [lockStatus EXCEPT ![c] = "refused"]
            BY <1>1, <3>1, StatusMoves DEF StatusOf
        <3>3. lockStatus[c] = "asking"
            BY <1>1, <3>1 DEF StatusOf
        <3> QED
            BY <3>2, <3>3 DEF Lock!Refuse
    <2> QED
        BY <2>1, <2>2
<1>5. ASSUME NEW c \in Callers, Reject(c)
      PROVE  Lock!Return(c)
    <2>1. pc[c] = "busy" /\ pc' = [pc EXCEPT ![c] = "out"]
        BY <1>5 DEF Reject
    <2>2. lockStatus' = [lockStatus EXCEPT ![c] = "out"]
        BY <1>1, <2>1, StatusMoves DEF StatusOf
    <2>3. lockStatus[c] = "refused"
        BY <1>1, <2>1 DEF StatusOf
    <2> QED
        BY <2>2, <2>3 DEF Lock!Return
<1>6. ASSUME NEW c \in Callers, Release(c)
      PROVE  Lock!Leave(c)
    <2>1. pc[c] = "inside" /\ lockStatus[c] = "in"
        BY <1>1, <1>6 DEF Release, StatusOf
    <2>2. CASE Live # {}
        <3> DEFINE d == waiters[1]
        <3>1. First(Live) = 1 /\ 1 \in 1..Len(waiters)
            BY <2>2, LiveIsAll
        <3>2. d \in Callers /\ pc[d] = "waiting"
            BY <3>1 DEF LockInv, TypeOK
        <3>3. pc' = [pc EXCEPT ![c] = "out", ![d] = "granted"]
            BY <1>6, <2>2, <3>1 DEF Release, HandOff
        <3> HIDE DEF d
        <3>4. \A e \in Callers : pc'[e] = IF e = d THEN "granted" ELSE IF e = c THEN "out" ELSE pc[e]
            BY <1>1, <3>3
        <3>5. lockStatus' = [lockStatus EXCEPT ![c] = "out", ![d] = "in"]
            <4>1. StatusOf("granted") = "in" /\ StatusOf("out") = "out"
                BY DEF StatusOf
            <4>2. \A e \in Callers : StatusOf(pc'[e]) =
                    IF e = d THEN "in" ELSE IF e = c THEN "out" ELSE StatusOf(pc[e])
                BY <3>4, <4>1
            <4> QED
                BY <4>2, Zenon DEF lockStatus
        <3>6. lockStatus[d] = "asking"
            BY <1>1, <3>2 DEF StatusOf
        <3> QED
            BY <2>1, <3>2, <3>5, <3>6 DEF Lock!Leave
    <2>3. CASE Live = {}
        <3>1. \A d \in Callers : pc[d] # "waiting"
            BY <2>3, LiveIsAll DEF LockInv
        <3>2. \A d \in Callers : lockStatus[d] # "asking"
            BY <1>1, <3>1 DEF StatusOf, Pcs
        <3>3. pc' = [pc EXCEPT ![c] = "out"]
            BY <1>6, <2>3 DEF Release
        <3>4. lockStatus' = [lockStatus EXCEPT ![c] = "out"]
            BY <1>1, <3>3, StatusMoves DEF StatusOf
        <3> QED
            BY <2>1, <3>2, <3>4 DEF Lock!Leave
    <2> QED
        BY <2>2, <2>3
<1>7. CASE UNCHANGED vars
    BY <1>7 DEF vars, lockStatus
<1> QED
    BY <1>2, <1>3, <1>4, <1>5, <1>6, <1>7 DEF Next, Lock!Next

\* The mutex implements the lock: those who ask get in one at a time or are
\* refused, and a leaving owner hands over whenever somebody waits.
THEOREM LockImplemented == Spec => LockSpec
<1>1. Init => Lock!Init
    BY DEF Init, Lock!Init, lockStatus, StatusOf
<1> QED
    BY <1>1, LockStep, LockCorrect, PTL DEF Spec, LockSpec, Lock!Spec

\* The lock goes to the caller that has waited longest: release shifts the
\* queue from its front.
THEOREM FirstComesFirst == Spec => HandOffFifo
<1> DEFINE Fifo ==
        \A i, j \in 1..Len(waiters) :
            pc'[waiters[j]] = "granted" /\ pc[waiters[j]] = "waiting" => j <= i
<1>1. LockInv /\ [Next]_vars => [Fifo]_vars
    <2> SUFFICES ASSUME LockInv, Next, NEW i \in 1..Len(waiters), NEW j \in 1..Len(waiters),
                        pc'[waiters[j]] = "granted", pc[waiters[j]] = "waiting"
                 PROVE  j <= i
        OBVIOUS
    <2> DEFINE e == waiters[j]
    <2>1. pc \in [Callers -> Pcs] /\ e \in Callers
        BY DEF LockInv, TypeOK
    <2>2. PICK c \in Callers : Acquire(c) \/ Enter(c) \/ Timeout(c) \/ Reject(c) \/ Release(c)
        BY DEF Next
    <2>3. Release(c) /\ Live # {}
        BY <2>1, <2>2 DEF Acquire, Enter, Timeout, Reject, Release
    <2>4. HandOff(c, 1)
        BY <2>3, LiveIsAll DEF Release
    <2>5. pc' = [pc EXCEPT ![c] = "out", ![waiters[1]] = "granted"]
        BY <2>4 DEF HandOff
    <2>6. e = waiters[1]
        BY <2>1, <2>5
    <2>7. j = 1 /\ 1 \in 1..Len(waiters)
        BY <2>3, <2>6, LiveIsAll DEF LockInv
    <2> QED
        BY <2>7
<1> QED
    BY <1>1, LockCorrect, PTL DEF Spec, HandOffFifo

=============================================================================
