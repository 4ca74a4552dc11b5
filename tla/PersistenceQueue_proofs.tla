------------------------- MODULE PersistenceQueue_proofs -------------------------
(***************************************************************************)
(* For any number of flushes open at once, any number of changes, failed   *)
(* writes and crashes, one write runs at a time, the file never goes back  *)
(* and a flush that has returned has its change in the file.               *)
(* TextInv adds that snapshots on their way to the file only extend the    *)
(* transcript, in the file or in the CLI transcript that they point at, so *)
(* that a load of the file loses none of it but by a truncation or with a  *)
(* CLI transcript.                                                         *)
(***************************************************************************)
EXTENDS PersistenceQueue, TLAPS

\* The flushes that have not settled.
Busy == {f \in Flushes : pc[f] # "out"}

\* They form one chain that ends in writeInProgress: each waits for another one,
\* no two for the same, only its head writes, and there is no cycle, so that the
\* chain is empty when its last one settles.
ChainInv ==
    /\ IF Busy = {} THEN writeInProgress = None ELSE writeInProgress \in Busy
    /\ \A f \in Flushes :
         prior[f] # None => f \in Busy /\ prior[f] \in Busy /\ prior[f] # writeInProgress
    /\ \A f, g \in Busy : prior[f] = prior[g] => f = g
    /\ \A f \in Flushes : Writing(f) => prior[f] = None
    /\ \A S \in SUBSET Busy : S = {} \/ \E f \in S : prior[f] \notin S

\* Snapshots get newer from the file over the write in progress to the queue.
OrderInv ==
    /\ Rev(pending) <= edits /\ Rev(disk) <= edits /\ Rev(tmp) <= edits
    /\ pending # None => Rev(disk) <= pending.rev
    /\ \A f \in Flushes : Writing(f) =>
         /\ Rev(disk) <= data[f].rev /\ data[f].rev <= edits
         /\ pending # None => data[f].rev <= pending.rev
    /\ \A f \in Flushes : pc[f] = "renaming" /\ tmp # None => tmp.rev = data[f].rev

\* Change n is in the file, on its way to it, or was lost by a failed write.
Carried(n) ==
    \/ n <= lost \/ n <= Rev(disk) \/ n <= Rev(pending)
    \/ \E f \in Flushes : Writing(f) /\ n <= data[f].rev

\* Until the session is deleted, whatever was asked for is carried.
CoverInv ==
    /\ deleting => deleted
    /\ deleted \/
        /\ Rev(managed) <= edits /\ Carried(Rev(managed))
        /\ \A f \in Flushes : asked[f] <= edits /\ Carried(asked[f])
        /\ \A f \in Flushes : Writing(f) => asked[f] <= lost \/ asked[f] <= data[f].rev
        /\ acked <= lost \/ acked <= Rev(disk)

QueueInv == TypeOK /\ ChainInv /\ OrderInv /\ CoverInv

-----------------------------------------------------------------------------
\* The operations of the manager, as the queue sees them: a snapshot of the next
\* change is queued, and a flush is called or not.

Change ==
    \E s \in Snapshot :
        /\ s.rev = edits + 1
        /\ Persist(s)
        /\ NoFlush \/ \E f \in Flushes : Flush(f, edits + 1)
        /\ cli' \in [Roots -> Nat] /\ cutting' \in BOOLEAN /\ UNCHANGED <<losses, spoilt>>

\* The change a snapshot carries, or 0.
LEMMA RevIsNat ==
    ASSUME NEW s \in Snapshot \cup {None}
    PROVE  Rev(s) \in Nat
BY DEF Rev, Snapshot

LEMMA HydratedType ==
    ASSUME TypeOK, managed # None
    PROVE  /\ managed \in Snapshot /\ edits \in Nat
           /\ Hydrated \in Snapshot /\ Hydrated.root = managed.root
<1>1. managed \in Snapshot /\ edits \in Nat
    BY DEF TypeOK
<1>2. Stored(managed) \in Nat
    BY <1>1 DEF Stored, FromCli, TypeOK, Snapshot
<1>3. [managed EXCEPT !.body = Stored(managed)] \in Snapshot
    BY <1>1, <1>2 DEF Snapshot
<1>4. [managed EXCEPT !.body = Stored(managed)].root = managed.root
    BY <1>1 DEF Snapshot
<1> QED
    BY <1>1, <1>3, <1>4 DEF Hydrated

\* What the manager makes of a session, for its next change n.
Appended(h, n) == [h EXCEPT !.rev = n, !.body = @ + 1]
Titled(h, n) == [h EXCEPT !.rev = n, !.title = n]
Pointing(h, n) == [h EXCEPT !.rev = n, !.sdk = TRUE]
Cleared(h, n) == [h EXCEPT !.rev = n, !.root = n, !.sdk = FALSE]
Cut(h, n, k) == [h EXCEPT !.rev = n, !.body = k, !.cut = n, !.root = n, !.sdk = FALSE]

LEMMA NextSnapshot ==
    ASSUME NEW h \in Snapshot, NEW n \in Roots, NEW k \in Nat
    PROVE  /\ Appended(h, n) \in Snapshot /\ Titled(h, n) \in Snapshot
           /\ Pointing(h, n) \in Snapshot /\ Cleared(h, n) \in Snapshot
           /\ Cut(h, n, k) \in Snapshot
           /\ \A s \in {Appended(h, n), Titled(h, n), Pointing(h, n), Cleared(h, n), Cut(h, n, k)} :
                s.rev = n
<1>1. h.body + 1 \in Nat /\ n \in Nat
    BY BoundsAreNat DEF Snapshot, Roots
<1>2. Appended(h, n) \in Snapshot /\ Appended(h, n).rev = n
    BY <1>1 DEF Appended, Snapshot
<1>3. Titled(h, n) \in Snapshot /\ Titled(h, n).rev = n
    BY <1>1 DEF Titled, Snapshot
<1>4. Pointing(h, n) \in Snapshot /\ Pointing(h, n).rev = n
    BY <1>1 DEF Pointing, Snapshot
<1>5. Cleared(h, n) \in Snapshot /\ Cleared(h, n).rev = n
    BY <1>1 DEF Cleared, Snapshot
<1>6. Cut(h, n, k) \in Snapshot /\ Cut(h, n, k).rev = n
    BY <1>1 DEF Cut, Snapshot
<1> QED
    BY <1>2, <1>3, <1>4, <1>5, <1>6

\* The operations that queue a change.
Changing ==
    \/ AppendMessage \/ UpdateMetadata \/ PointAtCli
    \/ \E f \in Flushes : Create(f) \/ SetMetadata(f) \/ ClearPointer(f) \/ Truncate(f)

\* The first snapshot.
Fresh == [rev |-> 1, title |-> 1, body |-> 0, cut |-> 0, root |-> 0, sdk |-> FALSE]

\* Each makes one of these snapshots of the session as it was loaded.
LEMMA ChangeCases ==
    ASSUME TypeOK, Changing
    PROVE  \E s :
             /\ Persist(s)
             /\ NoFlush \/ \E f \in Flushes : Flush(f, edits + 1)
             /\ UNCHANGED <<losses, spoilt>> /\ cutting' \in BOOLEAN
             /\ \/ /\ managed # None /\ s = Appended(Hydrated, edits + 1)
                   /\ \/ cli' = cli
                      \/ /\ cli[managed.root] = Hydrated.body
                         /\ cli' = [cli EXCEPT ![managed.root] = @ + 1]
                \/ managed # None /\ s = Titled(Hydrated, edits + 1) /\ cli' = cli
                \/ /\ managed # None /\ loaded /\ s = Pointing(managed, edits + 1) /\ cli' = cli
                   /\ cli[managed.root] >= managed.body /\ ~managed.sdk
                \/ managed # None /\ loaded /\ s = Cleared(managed, edits + 1) /\ cli' = cli
                \/ /\ managed # None /\ cli' = cli
                   /\ \E k \in 0..Hydrated.body : s = Cut(Hydrated, edits + 1, k)
                \/ edits = 0 /\ s = Fresh /\ cli' = cli
<1>1. CASE AppendMessage
    BY <1>1 DEF AppendMessage, Appended, TypeOK
<1>2. CASE UpdateMetadata
    BY <1>2 DEF UpdateMetadata, Titled, TypeOK, cliVars
<1>3. CASE PointAtCli
    BY <1>3 DEF PointAtCli, Pointing, TypeOK, cliVars
<1>4. ASSUME NEW f \in Flushes, SetMetadata(f)
      PROVE  /\ Persist(Titled(Hydrated, edits + 1)) /\ Flush(f, edits + 1)
             /\ managed # None /\ UNCHANGED cliVars
    BY <1>4 DEF SetMetadata, Titled
<1>5. ASSUME NEW f \in Flushes, ClearPointer(f)
      PROVE  /\ Persist(Cleared(managed, edits + 1)) /\ Flush(f, edits + 1)
             /\ managed # None /\ loaded /\ UNCHANGED cliVars
    BY <1>5 DEF ClearPointer, Cleared
<1>6. ASSUME NEW f \in Flushes, Truncate(f)
      PROVE  /\ \E k \in 0..Hydrated.body : Persist(Cut(Hydrated, edits + 1, k))
             /\ Flush(f, edits + 1)
             /\ managed # None /\ cutting' = FALSE /\ UNCHANGED <<cli, losses, spoilt>>
    BY <1>6 DEF Truncate, Cut
<1>7. ASSUME NEW f \in Flushes, Create(f)
      PROVE  /\ Persist(Fresh) /\ Flush(f, edits + 1) /\ edits = 0 /\ UNCHANGED cliVars
    BY <1>7 DEF Create, Fresh
<1>8. UNCHANGED cliVars => UNCHANGED <<cli, losses, spoilt>> /\ cutting' \in BOOLEAN
    BY DEF cliVars, TypeOK
<1> QED
    BY <1>1, <1>2, <1>3, <1>4, <1>5, <1>6, <1>7, <1>8 DEF Changing

LEMMA ChangeSteps ==
    ASSUME TypeOK, Changing
    PROVE  Change
<1> DEFINE n == edits + 1
<1>1. PICK s :
        /\ Persist(s)
        /\ NoFlush \/ \E f \in Flushes : Flush(f, n)
        /\ UNCHANGED <<losses, spoilt>> /\ cutting' \in BOOLEAN
        /\ \/ /\ managed # None /\ s = Appended(Hydrated, n)
              /\ \/ cli' = cli
                 \/ /\ cli[managed.root] = Hydrated.body
                    /\ cli' = [cli EXCEPT ![managed.root] = @ + 1]
           \/ managed # None /\ s = Titled(Hydrated, n) /\ cli' = cli
           \/ /\ managed # None /\ loaded /\ s = Pointing(managed, n) /\ cli' = cli
              /\ cli[managed.root] >= managed.body /\ ~managed.sdk
           \/ managed # None /\ loaded /\ s = Cleared(managed, n) /\ cli' = cli
           \/ /\ managed # None /\ cli' = cli
              /\ \E k \in 0..Hydrated.body : s = Cut(Hydrated, n, k)
           \/ edits = 0 /\ s = Fresh /\ cli' = cli
    BY ChangeCases
<1>2. edits \in Nat /\ edits < MaxEdits /\ n \in Roots /\ n = edits + 1
    BY <1>1, BoundsAreNat DEF Persist, TypeOK, Roots
<1>3. cli' \in [Roots -> Nat]
    <2>1. managed # None => managed.root \in Roots
        BY HydratedType DEF Snapshot
    <2> QED
        BY <1>1, <2>1 DEF TypeOK
<1>4. s \in Snapshot /\ s.rev = n
    <2>1. ASSUME managed # None
          PROVE  managed \in Snapshot /\ Hydrated \in Snapshot /\ \A k \in 0..Hydrated.body : k \in Nat
        BY <2>1, HydratedType DEF Snapshot
    <2>2. CASE edits = 0 /\ s = Fresh
        <3>1. 0 \in Roots /\ n = 1
            BY <2>2, BoundsAreNat DEF Roots
        <3> QED
            BY <2>2, <3>1 DEF Fresh, Snapshot
    <2> HIDE DEF n
    <2>3. CASE managed # None /\ \E k \in 0..Hydrated.body : s = Cut(Hydrated, n, k)
        <3>1. PICK k \in 0..Hydrated.body : s = Cut(Hydrated, n, k)
            BY <2>3
        <3>2. Hydrated \in Snapshot /\ k \in Nat
            BY <2>1, <2>3
        <3> QED
            BY <1>2, <3>1, <3>2, NextSnapshot
    <2>4. CASE managed # None /\ s \in {Appended(Hydrated, n), Titled(Hydrated, n)}
        BY <1>2, <2>1, <2>4, NextSnapshot, 0 \in Nat
    <2>5. CASE managed # None /\ s \in {Pointing(managed, n), Cleared(managed, n)}
        BY <1>2, <2>1, <2>5, NextSnapshot, 0 \in Nat
    <2> QED
        BY <1>1, <2>2, <2>3, <2>4, <2>5
<1> QED
    BY <1>1, <1>3, <1>4 DEF Change

\* The steps that only load the session or touch its CLI transcript.
Aside == RemoveSdkSession \/ Load \/ CliLost

LEMMA AsideFacts ==
    ASSUME TypeOK, Aside
    PROVE  /\ UNCHANGED <<queueVars, fileVars, deleting, countVars, ghostVars>>
           /\ managed' \in Snapshot \cup {None} /\ Rev(managed') = Rev(managed)
           /\ loaded' \in BOOLEAN /\ cutting' \in BOOLEAN /\ losses' \in Nat
           /\ spoilt' \subseteq Nat /\ cli' \in [Roots -> Nat]
<1> DEFINE Goal ==
        /\ managed' \in Snapshot \cup {None} /\ Rev(managed') = Rev(managed)
        /\ loaded' \in BOOLEAN /\ cutting' \in BOOLEAN /\ losses' \in Nat
        /\ spoilt' \subseteq Nat /\ cli' \in [Roots -> Nat]
<1>1. ASSUME managed # None
      PROVE  /\ managed.cut \in Nat /\ managed.root \in Roots
             /\ Hydrated \in Snapshot /\ Hydrated.rev = managed.rev
             /\ [managed EXCEPT !.body = 0] \in Snapshot
             /\ [managed EXCEPT !.body = 0].rev = managed.rev
    BY <1>1, HydratedType DEF Snapshot, Hydrated
<1>2. ASSUME RemoveSdkSession PROVE Goal
    <2>1. managed # None /\ managed' = Hydrated /\ loaded' = TRUE /\ cutting' = TRUE
        BY <1>2 DEF RemoveSdkSession
    <2>2. losses' = losses /\ spoilt' = spoilt \cup {managed.cut}
          /\ cli' = [cli EXCEPT ![managed.root] = 0]
        BY <1>2 DEF RemoveSdkSession
    <2>3. managed' \in Snapshot \cup {None} /\ Rev(managed') = Rev(managed)
        BY <1>1, <2>1, NoneIsNoSnapshot DEF Rev
    <2>4. losses' \in Nat /\ spoilt' \subseteq Nat /\ cli' \in [Roots -> Nat]
        BY <1>1, <2>1, <2>2 DEF TypeOK
    <2> QED
        BY <2>1, <2>3, <2>4
<1>3. ASSUME Load PROVE Goal
    <2>1. /\ managed # None /\ loaded' = TRUE /\ UNCHANGED <<cli, cutting>>
          /\ managed' = Hydrated \/ managed' = [managed EXCEPT !.body = 0]
          /\ losses' = losses \/ losses' = losses + 1
          /\ spoilt' = spoilt \/ spoilt' = spoilt \cup {managed.cut}
        BY <1>3 DEF Load
    <2>2. managed' \in Snapshot \cup {None} /\ Rev(managed') = Rev(managed)
        BY <1>1, <2>1, NoneIsNoSnapshot DEF Rev
    <2>3. losses' \in Nat /\ spoilt' \subseteq Nat /\ cli' \in [Roots -> Nat] /\ cutting' \in BOOLEAN
        BY <1>1, <2>1 DEF TypeOK
    <2> QED
        BY <2>1, <2>2, <2>3
<1>4. ASSUME CliLost PROVE Goal
    <2>1. PICK s \in {managed, disk} \ {None} :
              cli' = [cli EXCEPT ![s.root] = 0] /\ spoilt' = spoilt \cup {s.cut}
        BY <1>4 DEF CliLost
    <2>2. s \in Snapshot /\ s.cut \in Nat
        BY <2>1 DEF TypeOK, Snapshot
    <2>3. losses' = losses + 1 /\ UNCHANGED <<managed, loaded, cutting>>
        BY <1>4 DEF CliLost
    <2>4. losses' \in Nat
        BY <2>3 DEF TypeOK
    <2>5. spoilt' \subseteq Nat
        BY <2>1, <2>2 DEF TypeOK
    <2>6. cli' \in [Roots -> Nat]
        BY <2>1 DEF TypeOK
    <2>7. managed' \in Snapshot \cup {None} /\ loaded' \in BOOLEAN /\ cutting' \in BOOLEAN
        BY <2>3 DEF TypeOK
    <2>8. Rev(managed') = Rev(managed)
        BY <2>3
    <2> QED
        BY <2>4, <2>5, <2>6, <2>7, <2>8
<1>5. UNCHANGED <<queueVars, fileVars, deleting, countVars, ghostVars>>
    BY DEF Aside, RemoveSdkSession, Load, CliLost
<1> QED
    BY <1>2, <1>3, <1>4, <1>5 DEF Aside

\* The steps of the specification, with the operations gathered.
Step ==
    \/ Change \/ Aside \/ ColdReadFails \/ Delete \/ Removed \/ ExternalEdit \/ Crash
    \/ \E f \in Flushes :
         FlushNow(f) \/ Timer(f) \/ Take(f) \/ Prepare(f) \/ WriteTmp(f) \/ Rename(f) \/ Fail(f)

LEMMA NextIsStep ==
    ASSUME TypeOK, [Next]_vars
    PROVE  Step \/ UNCHANGED vars
BY ChangeSteps DEF Next, Write, Step, Changing, Aside

-----------------------------------------------------------------------------
\* The type invariant.

LEMMA LaterFacts ==
    ASSUME NEW m \in Nat, NEW n \in Nat
    PROVE  /\ Later(m, n) \in Nat /\ m <= Later(m, n) /\ n <= Later(m, n)
           /\ Later(m, n) = m \/ Later(m, n) = n
BY DEF Later

LEMMA TypeInit == Init => TypeOK
<1> SUFFICES ASSUME Init PROVE TypeOK
    OBVIOUS
<1>1. pc \in [Flushes -> Pcs] /\ prior \in [Flushes -> Flushes \cup {None}]
    BY DEF Init, Pcs
<1>2. data \in [Flushes -> Snapshot \cup {None}] /\ asked \in [Flushes -> Nat]
    BY DEF Init
<1>3. \A f \in Flushes : ~Writing(f)
    BY DEF Init, Writing
<1> QED
    BY <1>1, <1>2, <1>3 DEF Init, TypeOK

\* What a call of flush and the end of one leave.
LEMMA FlushType ==
    ASSUME TypeOK, NEW f \in Flushes, NEW n \in Nat, Flush(f, n)
    PROVE  /\ pc' \in [Flushes -> Pcs] /\ prior' \in [Flushes -> Flushes \cup {None}]
           /\ writeInProgress' \in Flushes /\ asked' \in [Flushes -> Nat]
           /\ \A g \in Flushes : Writing(g)' <=> Writing(g)
<1>1. pc' \in [Flushes -> Pcs] /\ prior' \in [Flushes -> Flushes \cup {None}]
    BY DEF TypeOK, Flush, Pcs
<1>2. writeInProgress' \in Flushes /\ asked' \in [Flushes -> Nat]
    BY DEF TypeOK, Flush
<1>3. \A g \in Flushes : Writing(g)' <=> Writing(g)
    BY DEF TypeOK, Flush, Writing
<1> QED
    BY <1>1, <1>2, <1>3

LEMMA SettleType ==
    ASSUME TypeOK, NEW f \in Flushes, Settle(f)
    PROVE  /\ pc' \in [Flushes -> Pcs] /\ prior' \in [Flushes -> Flushes \cup {None}]
           /\ writeInProgress' \in Flushes \cup {None} /\ asked' \in [Flushes -> Nat]
           /\ acked' \in Nat /\ data' \in [Flushes -> Snapshot \cup {None}]
           /\ \A g \in Flushes : Writing(g)' => Writing(g) /\ g # f
           /\ \A g \in Flushes : Writing(g)' => data'[g] \in Snapshot
<1>1. pc' \in [Flushes -> Pcs] /\ prior' \in [Flushes -> Flushes \cup {None}]
    BY DEF TypeOK, Settle, Pcs
<1>2. writeInProgress' \in Flushes \cup {None} /\ asked' \in [Flushes -> Nat]
    BY DEF TypeOK, Settle
<1>3. acked' \in Nat
    BY LaterFacts DEF TypeOK, Settle
<1>4. data' \in [Flushes -> Snapshot \cup {None}]
    BY DEF TypeOK, Settle
<1>5. \A g \in Flushes : Writing(g)' => Writing(g) /\ g # f
    BY DEF TypeOK, Settle, Writing
<1>6. \A g \in Flushes : g # f => data'[g] = data[g]
    BY DEF TypeOK, Settle
<1>7. \A g \in Flushes : Writing(g)' => data'[g] \in Snapshot
    BY <1>5, <1>6 DEF TypeOK
<1> QED
    BY <1>1, <1>2, <1>3, <1>4, <1>5, <1>7

LEMMA MergedType ==
    ASSUME TypeOK, NEW s \in Snapshot
    PROVE  /\ Merged(s) \in Snapshot /\ Merged(s).rev = s.rev
           /\ Merged(s).title \in Nat
<1>1. CASE HasExternalChange
    <2>1. disk \in Snapshot /\ disk.title \in Nat
        BY <1>1 DEF TypeOK, HasExternalChange, Snapshot
    <2>2. [s EXCEPT !.title = disk.title] \in Snapshot
        BY <2>1 DEF Snapshot
    <2>3. [s EXCEPT !.title = disk.title].rev = s.rev
        BY DEF Snapshot
    <2>4. Merged(s) = [s EXCEPT !.title = disk.title]
        BY <1>1 DEF Merged
    <2> QED
        BY <2>2, <2>3, <2>4 DEF Snapshot
<1>2. CASE ~HasExternalChange
    BY <1>2 DEF Merged, Snapshot
<1> QED
    BY <1>1, <1>2

LEMMA WrittenType ==
    ASSUME NEW s \in Snapshot
    PROVE  Written(s) \in Snapshot /\ Written(s).rev = s.rev
BY DEF Written, Snapshot

\* A change that is not queued, since the read failed.
LEMMA ColdReadType ==
    ASSUME TypeOK, ColdReadFails
    PROVE  /\ managed # None /\ managed \in Snapshot /\ ~loaded /\ ~loaded'
           /\ managed' \in Snapshot /\ managed'.rev = edits + 1 /\ Rev(managed') = edits + 1
           /\ edits' = edits + 1 /\ edits' \in Nat /\ edits' \in Roots
           /\ faults' \in Nat /\ lost' \in Nat /\ lost <= lost' /\ edits + 1 <= lost'
           /\ UNCHANGED <<queueVars, fileVars, deleting, cliVars, asked, acked, deleted>>
<1>1. /\ managed # None /\ ~loaded /\ UNCHANGED loaded
      /\ managed' = Titled(managed, edits + 1)
      /\ edits' = edits + 1 /\ faults' = faults + 1 /\ lost' = Later(lost, edits + 1) /\ edits < MaxEdits
      /\ UNCHANGED <<queueVars, fileVars, deleting, cliVars, asked, acked, deleted>>
    BY DEF ColdReadFails, Titled
<1>2. managed \in Snapshot /\ edits \in Nat /\ faults \in Nat /\ lost \in Nat
    BY <1>1 DEF TypeOK
<1>3. edits + 1 \in Nat /\ edits + 1 \in Roots
    BY <1>1, <1>2, BoundsAreNat DEF Roots
<1>4. managed' \in Snapshot /\ managed'.rev = edits + 1
    BY <1>1, <1>2, <1>3, NextSnapshot, 0 \in Nat
<1>5. lost' \in Nat /\ lost <= lost' /\ edits + 1 <= lost'
    BY <1>1, <1>2, <1>3, LaterFacts
<1> QED
    BY <1>1, <1>2, <1>3, <1>4, <1>5, NoneIsNoSnapshot DEF Rev

LEMMA TypeStep ==
    ASSUME TypeOK, Step
    PROVE  TypeOK'
<1>1. CASE Change
    <2>1. PICK s \in Snapshot :
              /\ s.rev = edits + 1 /\ Persist(s)
              /\ NoFlush \/ \E f \in Flushes : Flush(f, edits + 1)
              /\ cli' \in [Roots -> Nat] /\ cutting' \in BOOLEAN /\ UNCHANGED <<losses, spoilt>>
        BY <1>1 DEF Change
    <2>2. edits' \in Nat /\ managed' \in Snapshot /\ loaded' \in BOOLEAN
          /\ pending' \in Snapshot /\ armed' \in BOOLEAN
        BY <2>1 DEF Persist, Enqueue, TypeOK
    <2>3. CASE NoFlush
        BY <2>1, <2>2, <2>3 DEF NoFlush, Persist, TypeOK, fileVars, Writing
    <2>4. ASSUME NEW f \in Flushes, Flush(f, edits + 1)
          PROVE  TypeOK'
        <3>1. edits + 1 \in Nat
            BY DEF TypeOK
        <3> QED
            BY <2>1, <2>2, <2>4, <3>1, FlushType DEF Persist, TypeOK, fileVars
    <2> QED
        BY <2>1, <2>3, <2>4
<1>2. CASE Delete
    BY <1>2 DEF Delete, TypeOK, cliVars, fileVars, countVars, Writing
<1>3. CASE Removed
    <2>1. faults' \in Nat
        BY <1>3 DEF Removed, TypeOK, cliVars
    <2>2. disk' \in Snapshot \cup {None} /\ tmp' \in Snapshot \cup {None} /\ folder' \in BOOLEAN
        BY <1>3 DEF Removed, TypeOK, cliVars, fileVars
    <2>3. UNCHANGED <<pc, data>> /\ \A f \in Flushes : Writing(f)' <=> Writing(f)
        BY <1>3 DEF Removed, queueVars, Writing
    <2> QED
        BY <1>3, <2>1, <2>2, <2>3 DEF Removed, TypeOK, cliVars, queueVars, ghostVars
<1>4. CASE ExternalEdit
    <2>1. disk \in Snapshot /\ edits + 1 \in Nat
        BY <1>4 DEF ExternalEdit, TypeOK, cliVars
    <2>2. [disk EXCEPT !.title = edits + 1] \in Snapshot
        BY <2>1 DEF Snapshot
    <2> QED
        BY <1>4, <2>1, <2>2 DEF ExternalEdit, TypeOK, cliVars, queueVars, ghostVars, Writing
<1>5. CASE Crash
    <2>1. managed' \in Snapshot \cup {None}
        <3>1. CASE disk = None
            BY <1>5, <3>1 DEF Crash
        <3>2. CASE disk # None
            <4>1. disk \in Snapshot
                BY <3>2 DEF TypeOK
            <4>2. [disk EXCEPT !.body = 0] \in Snapshot
                BY <4>1 DEF Snapshot
            <4> QED
                BY <1>5, <3>2, <4>2 DEF Crash
        <3> QED
            BY <3>1, <3>2
    <2>2. pc' = [f \in Flushes |-> "out"] /\ pc' \in [Flushes -> Pcs]
        BY <1>5 DEF Crash, Pcs
    <2>3. \A f \in Flushes : ~Writing(f)'
        BY <2>2 DEF Writing
    <2>4. prior' \in [Flushes -> Flushes \cup {None}] /\ asked' \in [Flushes -> Nat]
        BY <1>5 DEF Crash
    <2>5. data' \in [Flushes -> Snapshot \cup {None}]
        BY <1>5 DEF Crash
    <2>6. crashes' \in Nat /\ losses' \in Nat /\ spoilt' \subseteq Nat
        BY <1>5 DEF Crash, TypeOK
    <2>7. cli' \in [Roots -> Nat]
        <3>1. disk # None => disk.body \in Nat
            BY DEF TypeOK, Snapshot
        <3> QED
            BY <1>5, <3>1 DEF Crash, TypeOK
    <2> QED
        BY <1>5, <2>1, <2>2, <2>3, <2>4, <2>5, <2>6, <2>7 DEF Crash, TypeOK, cliVars, fileVars
<1>6. ASSUME NEW f \in Flushes, FlushNow(f) \/ Timer(f)
      PROVE  TypeOK'
    <2>1. Rev(managed) \in Nat
        BY RevIsNat DEF TypeOK
    <2>2. Flush(f, Rev(managed)) /\ armed' \in BOOLEAN
        BY <1>6 DEF FlushNow, Timer, TypeOK, cliVars
    <2> QED
        BY <1>6, <2>1, <2>2, FlushType DEF FlushNow, Timer, TypeOK, cliVars, fileVars, countVars
<1>7. ASSUME NEW f \in Flushes, Take(f)
      PROVE  TypeOK'
    <2>1. CASE pending = None
        BY <1>7, <2>1, SettleType DEF Take, TypeOK, cliVars, fileVars, countVars
    <2>2. CASE pending # None
        <3>1. pending \in Snapshot
            BY <2>2 DEF TypeOK
        <3>2. pc' \in [Flushes -> Pcs] /\ data' \in [Flushes -> Snapshot \cup {None}]
            BY <1>7, <2>2, <3>1 DEF Take, TypeOK, cliVars, Pcs
        <3>3. \A g \in Flushes : Writing(g)' => data'[g] \in Snapshot
            BY <1>7, <2>2, <3>1 DEF Take, TypeOK, cliVars, Writing
        <3> QED
            BY <1>7, <2>2, <3>2, <3>3 DEF Take, TypeOK, cliVars, fileVars, countVars
    <2> QED
        BY <2>1, <2>2
<1>8. ASSUME NEW f \in Flushes, Prepare(f)
      PROVE  TypeOK'
    <2>1. data[f] \in Snapshot
        BY <1>8 DEF Prepare, TypeOK, cliVars, Writing
    <2>2. Merged(data[f]) \in Snapshot /\ Merged(data[f]).title \in Nat
        BY <2>1, MergedType
    <2>3. pc' \in [Flushes -> Pcs] /\ data' \in [Flushes -> Snapshot \cup {None}]
        BY <1>8, <2>2 DEF Prepare, TypeOK, cliVars, Pcs
    <2>4. \A g \in Flushes : Writing(g)' => data'[g] \in Snapshot
        BY <1>8, <2>2 DEF Prepare, TypeOK, cliVars, Writing
    <2> QED
        BY <1>8, <2>2, <2>3, <2>4 DEF Prepare, TypeOK, cliVars, countVars, ghostVars
<1>9. ASSUME NEW f \in Flushes, WriteTmp(f)
      PROVE  TypeOK'
    <2>1. data[f] \in Snapshot
        BY <1>9 DEF WriteTmp, TypeOK, cliVars, Writing
    <2>2. pc' \in [Flushes -> Pcs] /\ \A g \in Flushes : Writing(g)' => Writing(g)
        BY <1>9 DEF WriteTmp, TypeOK, Pcs, Writing
    <2>3. tmp' \in Snapshot
        BY <1>9, <2>1, WrittenType DEF WriteTmp
    <2> QED
        BY <1>9, <2>2, <2>3 DEF WriteTmp, TypeOK, cliVars, countVars, ghostVars
<1>10. ASSUME NEW f \in Flushes, Rename(f)
       PROVE  TypeOK'
    BY <1>10, SettleType DEF Rename, TypeOK, cliVars, countVars
<1>11. ASSUME NEW f \in Flushes, Fail(f)
       PROVE  TypeOK'
    <2>1. lost' \in Nat /\ faults' \in Nat
        <3>1. data[f] \in Snapshot
            BY <1>11 DEF Fail, TypeOK, cliVars, Writing
        <3>2. data[f].rev \in Nat
            BY <3>1 DEF Snapshot
        <3>3. lost' = Later(lost, data[f].rev) /\ (faults' = faults \/ faults' = faults + 1)
            BY <1>11 DEF Fail
        <3>4. lost' \in Nat
            BY <3>2, <3>3, LaterFacts DEF TypeOK
        <3> QED
            BY <3>3, <3>4 DEF TypeOK
    <2> QED
        BY <1>11, <2>1, SettleType DEF Fail, TypeOK, cliVars, fileVars
<1>12. CASE Aside
    <2>1. UNCHANGED <<pc, data>> /\ \A f \in Flushes : Writing(f)' <=> Writing(f)
        BY <1>12, AsideFacts DEF queueVars, Writing
    <2> QED
        BY <1>12, <2>1, AsideFacts DEF TypeOK, queueVars, fileVars, countVars, ghostVars
<1>13. CASE ColdReadFails
    <2>1. managed' \in Snapshot /\ edits' \in Nat /\ faults' \in Nat /\ lost' \in Nat
        BY <1>13, ColdReadType DEF TypeOK
    <2>2. UNCHANGED <<pc, data>> /\ \A f \in Flushes : Writing(f)' <=> Writing(f)
        BY <1>13 DEF ColdReadFails, queueVars, Writing
    <2> QED
        BY <1>13, <2>1, <2>2 DEF ColdReadFails, TypeOK, queueVars, fileVars, cliVars
<1> QED
    BY <1>1, <1>2, <1>3, <1>4, <1>5, <1>6, <1>7, <1>8, <1>9, <1>10, <1>11, <1>12, <1>13 DEF Step
-----------------------------------------------------------------------------
\* The chain.

LEMMA ChainInit ==
    ASSUME Init
    PROVE  ChainInv
<1>1. Busy = {} /\ writeInProgress = None
    BY DEF Init, Busy
<1>2. \A f \in Flushes : prior[f] = None /\ ~Writing(f)
    BY DEF Init, Writing
<1> QED
    BY <1>1, <1>2 DEF ChainInv

LEMMA ChainSame ==
    ASSUME ChainInv, UNCHANGED <<prior, writeInProgress>>, Busy' = Busy,
           \A f \in Flushes : Writing(f)' => prior[f] = None
    PROVE  ChainInv'
BY DEF ChainInv

\* A flush goes to the end of the chain.
LEMMA ChainFlush ==
    ASSUME TypeOK, ChainInv, NEW f \in Flushes, NEW n, Flush(f, n)
    PROVE  ChainInv'
<1>1. f \notin Busy /\ Busy' = Busy \cup {f} /\ writeInProgress' = f
    BY DEF Busy, Flush, TypeOK
<1>2. prior'[f] = writeInProgress /\ \A g \in Flushes \ {f} : prior'[g] = prior[g]
    BY DEF Flush, TypeOK
<1>3. \A g \in Flushes : prior[g] # f
    BY <1>1, NoneIsNoFlush DEF ChainInv
<1>4. writeInProgress # None => writeInProgress \in Busy
    BY DEF ChainInv
<1>5. writeInProgress # f
    BY <1>1, <1>4, NoneIsNoFlush
<1>6. \A g \in Flushes :
          prior'[g] # None => g \in Busy' /\ prior'[g] \in Busy' /\ prior'[g] # writeInProgress'
    BY <1>1, <1>2, <1>3, <1>4, <1>5 DEF ChainInv
<1>7. \A g \in Busy : prior[g] # writeInProgress
    BY DEF ChainInv, Busy
<1>8. \A g, h \in Busy' : prior'[g] = prior'[h] => g = h
    BY <1>1, <1>2, <1>7 DEF ChainInv, Busy
<1>9. \A g \in Flushes : Writing(g)' => prior'[g] = None
    <2>1. \A g \in Flushes : Writing(g)' => Writing(g) /\ g # f
        BY DEF Flush, Writing, TypeOK
    <2> QED
        BY <2>1, <1>2 DEF ChainInv
<1>10. ASSUME NEW S \in SUBSET Busy', S # {}
       PROVE  \E g \in S : prior'[g] \notin S
    <2>1. CASE S \ {f} = {}
        <3>1. f \in S /\ writeInProgress \notin S
            BY <1>5, <1>10, <2>1
        <3> QED
            BY <3>1, <1>2
    <2>2. CASE S \ {f} # {}
        <3>1. S \ {f} \in SUBSET Busy
            BY <1>1, <1>10
        <3>2. PICK g \in S \ {f} : prior[g] \notin S \ {f}
            BY <3>1, <2>2 DEF ChainInv
        <3>3. g \in Flushes
            BY <3>1 DEF Busy
        <3> QED
            BY <3>2, <3>3, <1>2, <1>3
    <2> QED
        BY <2>1, <2>2
<1>11. Busy' # {} /\ writeInProgress' \in Busy'
    BY <1>1
<1> QED
    BY <1>6, <1>8, <1>9, <1>10, <1>11 DEF ChainInv

\* The head of the chain leaves it; the last one leaves no other behind.
LEMMA ChainSettle ==
    ASSUME TypeOK, ChainInv, NEW f \in Busy, prior[f] = None, Settle(f)
    PROVE  ChainInv'
<1>1. f \in Flushes /\ Busy' = Busy \ {f}
    BY DEF Busy, Settle, TypeOK
<1>2. \A g \in Flushes : prior'[g] = IF prior[g] = f THEN None ELSE prior[g]
    BY DEF Settle, TypeOK
<1>3. \A g \in Busy \ {f} : prior[g] # None
    BY DEF ChainInv
<1>4. \A g, h \in Busy' : prior'[g] = prior'[h] => g = h
    <2>1. \A g \in Busy' : g \in Busy /\ g # f /\ g \in Flushes /\ prior[g] # None
        BY <1>1, <1>3 DEF Busy
    <2>2. \A g, h \in Busy' : prior'[g] = prior'[h] => prior[g] = prior[h]
        BY <2>1, <1>2
    <2> QED
        BY <2>1, <2>2 DEF ChainInv
<1>5. \A g \in Flushes : Writing(g)' => prior'[g] = None
    BY <1>1, <1>2, SettleType DEF ChainInv
<1>6. ASSUME NEW S \in SUBSET Busy', S # {}
      PROVE  \E g \in S : prior'[g] \notin S
    <2>1. S \in SUBSET Busy
        BY <1>1
    <2>2. PICK g \in S : prior[g] \notin S
        BY <1>6, <2>1 DEF ChainInv
    <2>3. g \in Flushes /\ None \notin S
        BY <2>1, NoneIsNoFlush DEF Busy
    <2> QED
        BY <2>2, <2>3, <1>2
<1>7. writeInProgress \in Busy
    BY DEF ChainInv
<1>8. ASSUME writeInProgress = f, NEW g \in Busy'
      PROVE  FALSE
    <2>1. Busy' \in SUBSET Busy
        BY <1>1
    <2>2. PICK h \in Busy' : prior[h] \notin Busy'
        BY <2>1, <1>8 DEF ChainInv
    <2>3. h \in Busy \ {f} /\ h \in Flushes
        BY <2>2, <1>1 DEF Busy
    <2>4. prior[h] \in Busy /\ prior[h] # f
        BY <2>3, <1>3, <1>8 DEF ChainInv
    <2> QED
        BY <2>2, <2>4, <1>1
<1>9. writeInProgress' = IF writeInProgress = f THEN None ELSE writeInProgress
    BY DEF Settle
<1>10. IF Busy' = {} THEN writeInProgress' = None ELSE writeInProgress' \in Busy'
    BY <1>1, <1>7, <1>8, <1>9
<1>11. \A g \in Flushes :
           prior'[g] # None => g \in Busy' /\ prior'[g] \in Busy' /\ prior'[g] # writeInProgress'
    <2>1. ASSUME NEW g \in Flushes, prior'[g] # None
          PROVE  g \in Busy' /\ prior'[g] \in Busy' /\ prior'[g] # writeInProgress'
        <3>1. prior'[g] = prior[g] /\ prior[g] # f /\ prior[g] # None
            BY <2>1, <1>2
        <3>2. g \in Busy /\ prior[g] \in Busy /\ prior[g] # writeInProgress
            BY <3>1 DEF ChainInv
        <3> QED
            BY <3>1, <3>2, <1>1, <1>9
    <2> QED
        BY <2>1
<1> QED
    BY <1>4, <1>5, <1>6, <1>10, <1>11 DEF ChainInv

LEMMA ChainStep ==
    ASSUME TypeOK, ChainInv, Step
    PROVE  ChainInv'
<1>1. CASE Change
    <2>1. PICK s \in Snapshot : NoFlush \/ \E f \in Flushes : Flush(f, edits + 1)
        BY <1>1 DEF Change
    <2>2. CASE NoFlush
        <3>1. Busy' = Busy /\ \A f \in Flushes : Writing(f)' => Writing(f)
            BY <2>2 DEF NoFlush, Busy, Writing
        <3> QED
            BY <2>2, <3>1, ChainSame DEF NoFlush, ChainInv
    <2> QED
        BY <2>1, <2>2, ChainFlush
<1>2. CASE Aside \/ ColdReadFails \/ Delete \/ Removed \/ ExternalEdit
    <2>1. UNCHANGED <<pc, prior, writeInProgress>>
        BY <1>2, AsideFacts DEF ColdReadFails, Delete, Removed, ExternalEdit, queueVars
    <2>2. Busy' = Busy /\ \A f \in Flushes : Writing(f)' => Writing(f)
        BY <2>1 DEF Busy, Writing
    <2> QED
        BY <2>1, <2>2, ChainSame DEF ChainInv
<1>3. CASE Crash
    <2>1. Busy' = {} /\ writeInProgress' = None
        BY <1>3 DEF Crash, Busy
    <2>2. \A f \in Flushes : prior'[f] = None
        BY <1>3 DEF Crash
    <2> QED
        BY <2>1, <2>2 DEF ChainInv
<1>4. ASSUME NEW f \in Flushes, FlushNow(f) \/ Timer(f)
      PROVE  ChainInv'
    BY <1>4, ChainFlush DEF FlushNow, Timer
<1>5. ASSUME NEW f \in Flushes, Take(f)
      PROVE  ChainInv'
    <2>1. f \in Busy /\ prior[f] = None
        BY <1>5 DEF Take, Busy
    <2>2. CASE pending = None
        BY <1>5, <2>1, <2>2, ChainSettle DEF Take
    <2>3. CASE pending # None
        <3>1. UNCHANGED <<prior, writeInProgress>> /\ Busy' = Busy
            BY <1>5, <2>3 DEF Take, Busy, TypeOK
        <3>2. \A g \in Flushes : Writing(g)' => prior[g] = None
            BY <1>5, <2>1, <2>3 DEF Take, Writing, TypeOK, ChainInv
        <3> QED
            BY <3>1, <3>2, ChainSame
    <2> QED
        BY <2>2, <2>3
<1>6. ASSUME NEW f \in Flushes, Prepare(f) \/ WriteTmp(f)
      PROVE  ChainInv'
    <2>1. UNCHANGED <<prior, writeInProgress>> /\ Busy' = Busy
        BY <1>6 DEF Prepare, WriteTmp, Busy, TypeOK
    <2>2. \A g \in Flushes : Writing(g)' => Writing(g)
        BY <1>6 DEF Prepare, WriteTmp, Writing, TypeOK
    <2> QED
        BY <2>1, <2>2, ChainSame DEF ChainInv
<1>7. ASSUME NEW f \in Flushes, Rename(f) \/ Fail(f)
      PROVE  ChainInv'
    <2>1. f \in Busy /\ prior[f] = None /\ Settle(f)
        BY <1>7 DEF Rename, Fail, Busy, Writing, ChainInv
    <2> QED
        BY <2>1, ChainSettle
<1> QED
    BY <1>1, <1>2, <1>3, <1>4, <1>5, <1>6, <1>7 DEF Step

LEMMA ChainMeansOneWriter ==
    ASSUME ChainInv
    PROVE  OneWriter
<1>1. \A f \in Flushes : Writing(f) => f \in Busy /\ prior[f] = None
    BY DEF ChainInv, Writing, Busy
<1> QED
    BY <1>1 DEF ChainInv, OneWriter
-----------------------------------------------------------------------------
\* The order of the snapshots.

LEMMA OrderInit ==
    ASSUME Init
    PROVE  OrderInv
<1>1. \A f \in Flushes : ~Writing(f) /\ pc[f] # "renaming"
    BY DEF Init, Writing
<1> QED
    BY <1>1 DEF Init, OrderInv, Rev

\* What the comparisons are about are numbers.
LEMMA RevTypes ==
    ASSUME TypeOK
    PROVE  /\ edits \in Nat /\ lost \in Nat /\ acked \in Nat
           /\ Rev(pending) \in Nat /\ Rev(disk) \in Nat /\ Rev(tmp) \in Nat
           /\ Rev(managed) \in Nat
           /\ \A f \in Flushes : asked[f] \in Nat
           /\ \A f \in Flushes : Writing(f) => data[f].rev \in Nat
           /\ pending # None => pending.rev \in Nat /\ pending.rev = Rev(pending)
<1>1. \A f \in Flushes : Writing(f) => data[f].rev \in Nat
    BY DEF TypeOK, Snapshot
<1>2. pending # None => pending.rev \in Nat /\ pending.rev = Rev(pending)
    BY DEF TypeOK, Snapshot, Rev
<1>3. \A f \in Flushes : asked[f] \in Nat
    BY DEF TypeOK
<1> QED
    BY <1>1, <1>2, <1>3, RevIsNat DEF TypeOK

\* A call of flush starts no write, the end of one touches no other write.
LEMMA FlushWrites ==
    ASSUME TypeOK, NEW f \in Flushes, NEW n, Flush(f, n)
    PROVE  /\ \A g \in Flushes : Writing(g)' <=> Writing(g)
           /\ \A g \in Flushes : pc'[g] = "renaming" <=> pc[g] = "renaming"
BY DEF Flush, Writing, TypeOK

LEMMA SettleWrites ==
    ASSUME TypeOK, NEW f \in Flushes, Settle(f)
    PROVE  /\ \A g \in Flushes : Writing(g)' <=> Writing(g) /\ g # f
           /\ \A g \in Flushes : Writing(g)' => data'[g] = data[g]
           /\ \A g \in Flushes : pc'[g] = "renaming" => pc[g] = "renaming" /\ Writing(g)'
<1>1. \A g \in Flushes : g # f => pc'[g] = pc[g] /\ data'[g] = data[g]
    BY DEF Settle, TypeOK
<1>2. pc'[f] = "out"
    BY DEF Settle, TypeOK
<1> QED
    BY <1>1, <1>2 DEF Writing

\* Nothing of what the order is about gets worse.
LEMMA OrderSame ==
    ASSUME TypeOK, TypeOK', OrderInv,
           edits <= edits',
           pending' = pending \/ pending' = None,
           Rev(disk') <= Rev(disk), tmp' = tmp \/ tmp' = None,
           \A g \in Flushes : Writing(g)' => Writing(g) /\ data'[g].rev = data[g].rev,
           \A g \in Flushes : pc'[g] = "renaming" => pc[g] = "renaming" /\ Writing(g)'
    PROVE  OrderInv'
<1>1. edits' \in Nat /\ Rev(disk') \in Nat /\ Rev(pending') \in Nat
    BY RevIsNat DEF TypeOK
<1>2. Rev(pending') <= edits' /\ Rev(disk') <= edits' /\ Rev(tmp') <= edits'
    BY <1>1, RevTypes DEF OrderInv, Rev
<1>3. pending' # None => Rev(disk') <= pending'.rev
    BY <1>1, RevTypes DEF OrderInv
<1>4. ASSUME NEW g \in Flushes, Writing(g)'
      PROVE  /\ Rev(disk') <= data'[g].rev /\ data'[g].rev <= edits'
             /\ pending' # None => data'[g].rev <= pending'.rev
    BY <1>1, <1>4, RevTypes DEF OrderInv
<1>5. \A g \in Flushes : pc'[g] = "renaming" /\ tmp' # None => tmp'.rev = data'[g].rev
    BY DEF OrderInv
<1> QED
    BY <1>2, <1>3, <1>4, <1>5 DEF OrderInv, Rev

LEMMA OrderStep ==
    ASSUME TypeOK, TypeOK', ChainInv, OrderInv, Step
    PROVE  OrderInv'
<1> USE RevTypes
<1>1. CASE Change
    <2>1. PICK s \in Snapshot :
              /\ s.rev = edits + 1 /\ Persist(s)
              /\ NoFlush \/ \E f \in Flushes : Flush(f, edits + 1)
        BY <1>1 DEF Change
    <2>2. edits' = edits + 1 /\ pending' = s /\ UNCHANGED <<data, disk, tmp>>
        BY <2>1 DEF Persist, Enqueue, fileVars
    <2>3. /\ \A g \in Flushes : Writing(g)' <=> Writing(g)
          /\ \A g \in Flushes : pc'[g] = "renaming" <=> pc[g] = "renaming"
        <3>1. CASE NoFlush
            BY <3>1 DEF NoFlush, Writing
        <3> QED
            BY <2>1, <3>1, FlushWrites
    <2>4. Rev(pending') = edits + 1
        BY <2>1, <2>2, NoneIsNoSnapshot DEF Rev
    <2>5. \A g \in Flushes : Writing(g) => Rev(disk) <= data[g].rev /\ data[g].rev <= edits
        BY DEF OrderInv
    <2> QED
        BY <2>1, <2>2, <2>3, <2>4, <2>5 DEF OrderInv, Rev
<1>2. CASE Delete
    <2>1. UNCHANGED <<pc, data, disk, tmp, edits>> /\ pending' = None
        BY <1>2 DEF Delete, fileVars, countVars
    <2> QED
        BY <2>1, OrderSame DEF Writing
<1>3. CASE Removed
    <2>1. UNCHANGED <<pc, data, pending, edits>>
        BY <1>3 DEF Removed, queueVars
    <2>2. Rev(disk') <= Rev(disk) /\ (tmp' = tmp \/ tmp' = None)
        BY <1>3 DEF Removed, fileVars, Rev
    <2> QED
        BY <2>1, <2>2, OrderSame DEF Writing
<1>4. CASE ExternalEdit
    <2>1. UNCHANGED <<pc, data, pending, tmp>> /\ edits' = edits + 1
        BY <1>4 DEF ExternalEdit, queueVars
    <2>2. Rev(disk') <= Rev(disk)
        <3>1. disk \in Snapshot /\ disk # None
            BY <1>4 DEF ExternalEdit, TypeOK
        <3>2. disk'.rev = disk.rev
            BY <1>4, <3>1 DEF ExternalEdit, Snapshot
        <3> QED
            BY <3>1, <3>2 DEF Rev
    <2> QED
        BY <2>1, <2>2, OrderSame DEF Writing
<1>5. CASE Crash
    <2>1. \A f \in Flushes : ~Writing(f)' /\ pc'[f] # "renaming"
        BY <1>5 DEF Crash, Writing
    <2>2. UNCHANGED <<disk, tmp, edits>> /\ pending' = None
        BY <1>5 DEF Crash, fileVars
    <2> QED
        BY <2>1, <2>2, OrderSame
<1>6. ASSUME NEW f \in Flushes, FlushNow(f) \/ Timer(f)
      PROVE  OrderInv'
    <2>1. UNCHANGED <<data, pending, disk, tmp, edits>> /\ Flush(f, Rev(managed))
        BY <1>6 DEF FlushNow, Timer, fileVars, countVars
    <2> QED
        BY <2>1, FlushWrites DEF OrderInv
<1>7. ASSUME NEW f \in Flushes, Take(f)
      PROVE  OrderInv'
    <2>1. UNCHANGED <<disk, tmp, edits>>
        BY <1>7 DEF Take, fileVars, countVars
    <2>2. CASE pending = None
        BY <1>7, <2>1, <2>2, SettleWrites, OrderSame DEF Take
    <2>3. CASE pending # None
        <3>1. /\ pending' = None
              /\ data' = [data EXCEPT ![f] = pending] /\ pc' = [pc EXCEPT ![f] = "making"]
            BY <1>7, <2>3 DEF Take
        <3>2. \A g \in Flushes : g # f => (Writing(g)' <=> Writing(g)) /\ data'[g] = data[g]
            BY <3>1 DEF Writing, TypeOK
        <3>3. \A g \in Flushes : pc'[g] = "renaming" => g # f /\ pc[g] = "renaming"
            BY <3>1 DEF TypeOK
        <3>4. data'[f].rev = pending.rev
            BY <3>1 DEF TypeOK
        <3>5. \A g \in Flushes : Writing(g)' =>
                 Rev(disk) <= data'[g].rev /\ data'[g].rev <= edits
            BY <2>3, <3>2, <3>4 DEF OrderInv
        <3>6. \A g \in Flushes : pc'[g] = "renaming" /\ tmp # None => tmp.rev = data'[g].rev
            BY <3>2, <3>3 DEF OrderInv
        <3> QED
            BY <2>1, <3>1, <3>5, <3>6 DEF OrderInv, Rev
    <2> QED
        BY <2>2, <2>3
<1>8. ASSUME NEW f \in Flushes, Prepare(f)
      PROVE  OrderInv'
    <2>1. UNCHANGED <<pending, disk, tmp, edits>>
        BY <1>8 DEF Prepare, countVars
    <2>2. data'[f].rev = data[f].rev
        BY <1>8, MergedType DEF Prepare, TypeOK, Writing
    <2>3. /\ \A g \in Flushes : Writing(g)' => Writing(g) /\ data'[g].rev = data[g].rev
          /\ \A g \in Flushes : pc'[g] = "renaming" => pc[g] = "renaming" /\ Writing(g)'
        BY <1>8, <2>2 DEF Prepare, TypeOK, Writing
    <2> QED
        BY <2>1, <2>3, OrderSame
<1>9. ASSUME NEW f \in Flushes, WriteTmp(f)
      PROVE  OrderInv'
    <2>1. UNCHANGED <<pending, disk, data, edits>> /\ tmp' = Written(data[f]) /\ Writing(f)
        BY <1>9 DEF WriteTmp, countVars, Writing
    <2>6. tmp' \in Snapshot /\ tmp'.rev = data[f].rev
        BY <2>1, WrittenType DEF TypeOK
    <2>2. \A g \in Flushes : Writing(g)' <=> Writing(g)
        BY <1>9 DEF WriteTmp, TypeOK, Writing
    <2>3. \A g \in Flushes : Writing(g) => g = f
        BY <2>1, ChainMeansOneWriter DEF OneWriter
    <2>4. \A g \in Flushes : pc'[g] = "renaming" => tmp'.rev = data'[g].rev
        BY <2>1, <2>2, <2>3, <2>6 DEF Writing
    <2>5. data[f].rev <= edits /\ Rev(tmp') <= edits
        BY <2>1, <2>6 DEF OrderInv, Rev
    <2> QED
        BY <2>1, <2>2, <2>4, <2>5 DEF OrderInv, Rev
<1>10. ASSUME NEW f \in Flushes, Rename(f)
       PROVE  OrderInv'
    <2>1. /\ UNCHANGED <<pending, edits>> /\ disk' = tmp /\ tmp' = None /\ tmp # None
          /\ Writing(f) /\ pc[f] = "renaming" /\ Settle(f)
        BY <1>10 DEF Rename, countVars, Writing
    <2>2. \A g \in Flushes : ~Writing(g)' /\ pc'[g] # "renaming"
        BY <2>1, SettleWrites, ChainMeansOneWriter DEF OneWriter
    <2>3. tmp.rev = data[f].rev /\ Rev(disk') = data[f].rev /\ Rev(tmp') = 0
        BY <2>1 DEF OrderInv, Rev
    <2> QED
        BY <2>1, <2>2, <2>3 DEF OrderInv, Rev
<1>11. ASSUME NEW f \in Flushes, Fail(f)
       PROVE  OrderInv'
    <2>1. UNCHANGED <<pending, disk, tmp, edits>> /\ Settle(f)
        BY <1>11 DEF Fail, fileVars
    <2> QED
        BY <2>1, SettleWrites, OrderSame
<1>12. CASE Aside \/ ColdReadFails
    <2>1. UNCHANGED <<pc, data, pending, disk, tmp>> /\ edits <= edits'
        BY <1>12, AsideFacts, ColdReadType DEF queueVars, fileVars, countVars
    <2> QED
        BY <2>1, OrderSame DEF Writing
<1> QED
    BY <1>1, <1>2, <1>3, <1>4, <1>5, <1>6, <1>7, <1>8, <1>9, <1>10, <1>11, <1>12 DEF Step

\* A step that leaves a file behind leaves one that is as new.
LEMMA StepNeverOlder ==
    ASSUME TypeOK, ChainInv, OrderInv, Step, disk # None, disk' # None
    PROVE  disk'.rev >= disk.rev
<1>1. ASSUME disk' # disk
      PROVE  ExternalEdit \/ \E f \in Flushes : Rename(f)
    BY <1>1, AsideFacts DEF Step, Change, Persist, ColdReadFails, Delete, Removed, Crash, FlushNow,
                            Timer, Take, Prepare, WriteTmp, Fail, fileVars
<1>2. disk \in Snapshot /\ disk.rev \in Nat /\ Rev(disk) = disk.rev
    BY DEF TypeOK, Snapshot, Rev
<1>3. CASE ExternalEdit
    BY <1>2, <1>3 DEF ExternalEdit, Snapshot
<1>4. ASSUME NEW f \in Flushes, Rename(f)
      PROVE  disk'.rev >= disk.rev
    <2>1. disk' = tmp /\ tmp # None /\ pc[f] = "renaming" /\ Writing(f)
        BY <1>4 DEF Rename, Writing
    <2>2. tmp.rev = data[f].rev /\ Rev(disk) <= data[f].rev /\ data[f].rev \in Nat
        BY <2>1, RevTypes DEF OrderInv
    <2> QED
        BY <2>1, <2>2, <1>2
<1>5. CASE disk' = disk
    BY <1>2, <1>5
<1> QED
    BY <1>1, <1>3, <1>4, <1>5
-----------------------------------------------------------------------------
\* Nothing asked for is dropped.

LEMMA CoverInit ==
    ASSUME Init
    PROVE  CoverInv
<1>1. \A f \in Flushes : ~Writing(f) /\ asked[f] = 0
    BY DEF Init, Writing
<1> QED
    BY <1>1 DEF Init, CoverInv, Carried, Rev

\* A change that is carried stays so while the snapshots that carry it do.
LEMMA CarriedSame ==
    ASSUME TypeOK, TypeOK', NEW n \in Nat, Carried(n),
           lost <= lost', Rev(disk) <= Rev(disk'), Rev(pending') = Rev(pending),
           \A g \in Flushes :
               Writing(g) => \/ Writing(g)' /\ data'[g].rev = data[g].rev
                             \/ data[g].rev <= lost' \/ data[g].rev <= Rev(disk')
    PROVE  Carried(n)'
<1>1. /\ lost' \in Nat /\ Rev(disk') \in Nat /\ Rev(pending') \in Nat
      /\ \A g \in Flushes : Writing(g)' => data'[g].rev \in Nat
    BY RevIsNat DEF TypeOK, Snapshot
<1>2. CASE n <= lost \/ n <= Rev(disk) \/ n <= Rev(pending)
    <2>1. n <= lost' \/ n <= Rev(disk') \/ n <= Rev(pending')
        BY <1>1, <1>2, RevTypes
    <2> QED
        BY <2>1 DEF Carried, Rev
<1>3. ASSUME NEW g \in Flushes, Writing(g), n <= data[g].rev
      PROVE  Carried(n)'
    <2>1. \/ Writing(g)' /\ n <= data'[g].rev
          \/ n <= lost' \/ n <= Rev(disk')
        BY <1>1, <1>3, RevTypes
    <2> QED
        BY <2>1 DEF Carried, Rev
<1> QED
    BY <1>2, <1>3 DEF Carried

\* A step of a writer, or of somebody else, that ends no flush.
LEMMA CoverSame ==
    ASSUME TypeOK, TypeOK', CoverInv, ~deleted, UNCHANGED <<managed, asked, acked, deleting, deleted>>,
           edits <= edits', lost <= lost', Rev(disk) <= Rev(disk'), Rev(pending') = Rev(pending),
           \A g \in Flushes : Writing(g)' <=> Writing(g),
           \A g \in Flushes : Writing(g) => data'[g].rev = data[g].rev
    PROVE  CoverInv'
<1> USE RevTypes
<1>1. \A n \in Nat : Carried(n) => Carried(n)'
    BY CarriedSame
<1>2. edits' \in Nat /\ lost' \in Nat /\ Rev(disk') \in Nat
    BY RevIsNat DEF TypeOK
<1>3. Rev(managed) <= edits' /\ Carried(Rev(managed))'
    <2>1. Rev(managed) <= edits /\ Carried(Rev(managed))
        BY DEF CoverInv
    <2>2. Rev(managed') = Rev(managed)
        BY DEF Rev
    <2> QED
        BY <1>1, <1>2, <2>1, <2>2 DEF Carried
<1>4. \A f \in Flushes : asked'[f] <= edits' /\ Carried(asked[f])'
    BY <1>1, <1>2 DEF CoverInv, Carried
<1>5. \A f \in Flushes : Writing(f)' => asked'[f] <= lost' \/ asked'[f] <= data'[f].rev
    BY <1>2 DEF CoverInv
<1>6. acked' <= lost' \/ acked' <= Rev(disk')
    BY <1>2 DEF CoverInv
<1> QED
    BY <1>3, <1>4, <1>5, <1>6 DEF CoverInv, Rev
\* A flush ends, and nobody writes then.
LEMMA CoverSettle ==
    ASSUME TypeOK, TypeOK', CoverInv, ~deleted, UNCHANGED <<managed, edits, deleting, deleted>>,
           NEW f \in Flushes, Settle(f), \A g \in Flushes : ~Writing(g)',
           lost <= lost', Rev(disk) <= Rev(disk'), Rev(pending') = Rev(pending),
           \A g \in Flushes :
               Writing(g) => data[g].rev <= lost' \/ data[g].rev <= Rev(disk'),
           asked[f] <= lost' \/ asked[f] <= Rev(disk')
    PROVE  CoverInv'
<1> USE RevTypes
<1>1. \A n \in Nat : Carried(n) => Carried(n)'
    BY CarriedSame
<1>2. lost' \in Nat /\ Rev(disk') \in Nat
    BY RevIsNat DEF TypeOK
<1>3. Rev(managed) <= edits /\ Carried(Rev(managed))'
    BY <1>1 DEF CoverInv, Carried, Rev
<1>4. \A g \in Flushes : asked'[g] = 0 \/ asked'[g] = asked[g]
    BY DEF Settle, TypeOK
<1>5. Carried(0)'
    BY <1>2 DEF Carried
<1>6. \A g \in Flushes : asked'[g] <= edits /\ Carried(asked[g])'
    BY <1>1, <1>4, <1>5 DEF CoverInv, Carried
<1>7. acked' <= lost' \/ acked' <= Rev(disk')
    <2>1. acked' = acked \/ acked' = asked[f]
        BY LaterFacts DEF Settle
    <2> QED
        BY <2>1, <1>2 DEF CoverInv
<1> QED
    BY <1>3, <1>6, <1>7 DEF CoverInv, Rev

LEMMA CoverStep ==
    ASSUME TypeOK, TypeOK', ChainInv, OrderInv, CoverInv, Step
    PROVE  CoverInv'
<1> USE RevTypes
<1>1. CASE deleted \/ Delete
    BY <1>1, AsideFacts DEF CoverInv, Step, Change, Persist, ColdReadFails, Delete, Removed,
                            ExternalEdit, Crash, FlushNow, Timer, Take, Prepare, WriteTmp, Rename,
                            Fail, ghostVars
<1> SUFFICES ASSUME ~deleted, ~Delete
             PROVE  CoverInv'
    BY <1>1
<1>2. CASE Change
    <2>1. PICK s \in Snapshot :
              /\ s.rev = edits + 1 /\ Persist(s)
              /\ NoFlush \/ \E f \in Flushes : Flush(f, edits + 1)
        BY <1>2 DEF Change
    <2>2. /\ edits' = edits + 1 /\ pending' = s /\ managed' = s
          /\ UNCHANGED <<data, disk, lost, acked, deleting, deleted>>
        BY <2>1 DEF Persist, Enqueue, fileVars
    <2>3. Rev(pending') = edits + 1 /\ Rev(managed') = edits + 1
        BY <2>1, <2>2, NoneIsNoSnapshot DEF Rev
    <2>4. \A n \in Nat : n <= edits + 1 => Carried(n)'
        BY <2>3 DEF Carried, Rev
    <2>5. /\ \A g \in Flushes : asked'[g] = asked[g] \/ (asked'[g] = edits + 1 /\ ~Writing(g))
          /\ \A g \in Flushes : Writing(g)' <=> Writing(g)
        <3>1. CASE NoFlush
            BY <3>1 DEF NoFlush, Writing
        <3>2. ASSUME NEW f \in Flushes, Flush(f, edits + 1)
              PROVE  /\ \A g \in Flushes :
                           asked'[g] = asked[g] \/ (asked'[g] = edits + 1 /\ ~Writing(g))
                     /\ \A g \in Flushes : Writing(g)' <=> Writing(g)
            BY <3>2, FlushWrites DEF Flush, TypeOK, Writing
        <3> QED
            BY <2>1, <3>1, <3>2
    <2>6. \A g \in Flushes : asked'[g] \in Nat /\ asked'[g] <= edits + 1
        BY <2>5 DEF CoverInv
    <2>7. Carried(Rev(managed))' /\ \A g \in Flushes : Carried(asked[g])'
        <3>1. \A n \in Nat : n = Rev(managed') => Carried(n)'
            BY <2>3, <2>4
        <3>2. Rev(managed') \in Nat
            BY <2>3
        <3> QED
            BY <2>4, <2>6, <3>1, <3>2 DEF Carried, Rev
    <2>8. \A g \in Flushes : Writing(g)' => asked'[g] <= lost' \/ asked'[g] <= data'[g].rev
        BY <2>2, <2>5 DEF CoverInv
    <2> QED
        BY <2>2, <2>3, <2>6, <2>7, <2>8 DEF CoverInv, Rev
<1>3. CASE Removed
    BY <1>3 DEF Removed, CoverInv
<1>4. CASE ExternalEdit
    <2>1. /\ UNCHANGED <<pc, data, pending, managed, asked, acked, lost, deleting, deleted>>
          /\ edits' = edits + 1
        BY <1>4 DEF ExternalEdit, queueVars, ghostVars
    <2>2. Rev(disk') = Rev(disk)
        <3>1. disk \in Snapshot /\ disk # None /\ disk' \in Snapshot /\ disk' # None
            <4>1. disk \in Snapshot /\ disk # None /\ edits + 1 \in Nat
                BY <1>4 DEF ExternalEdit, TypeOK
            <4> QED
                BY <1>4, <4>1, NoneIsNoSnapshot DEF ExternalEdit, Snapshot
        <3>2. disk'.rev = disk.rev
            BY <1>4, <3>1 DEF ExternalEdit, Snapshot
        <3> QED
            BY <3>1, <3>2 DEF Rev
    <2> QED
        BY <2>1, <2>2, CoverSame DEF Writing, Rev
<1>5. CASE Crash
    <2>1. /\ UNCHANGED <<disk, edits, acked, lost, deleted>> /\ deleting' = FALSE
          /\ \A f \in Flushes : asked'[f] = 0 /\ ~Writing(f)'
        BY <1>5 DEF Crash, fileVars, Writing
    <2>2. Rev(managed') = Rev(disk)
        <3>1. CASE disk = None
            BY <1>5, <3>1 DEF Crash, Rev
        <3>2. CASE disk # None
            <4>1. disk \in Snapshot
                BY <3>2 DEF TypeOK
            <4>2. managed' \in Snapshot /\ managed'.rev = disk.rev
                BY <1>5, <3>2, <4>1 DEF Crash, Snapshot
            <4> QED
                BY <3>2, <4>2, NoneIsNoSnapshot DEF Rev
        <3> QED
            BY <3>1, <3>2
    <2>3. Carried(0)' /\ Carried(Rev(managed))'
        BY <2>1, <2>2 DEF Carried, Rev
    <2>4. Rev(managed') <= edits'
        BY <2>1, <2>2 DEF OrderInv
    <2> QED
        BY <2>1, <2>3, <2>4 DEF CoverInv, Rev, Carried
<1>6. ASSUME NEW f \in Flushes, FlushNow(f) \/ Timer(f)
      PROVE  CoverInv'
    <2>1. /\ UNCHANGED <<data, pending, disk, edits, managed, lost, acked, deleting, deleted>>
          /\ Flush(f, Rev(managed))
        BY <1>6 DEF FlushNow, Timer, fileVars, countVars
    <2>2. \A g \in Flushes : Writing(g)' <=> Writing(g)
        BY <2>1, FlushWrites
    <2>3. \A g \in Flushes : asked'[g] = asked[g] \/ (asked'[g] = Rev(managed) /\ ~Writing(g))
        BY <2>1 DEF Flush, TypeOK, Writing
    <2>4. \A n \in Nat : Carried(n) => Carried(n)'
        BY <2>1, <2>2, CarriedSame
    <2>5. \A g \in Flushes : asked'[g] <= edits /\ Carried(asked[g])'
        BY <2>3, <2>4 DEF CoverInv, Carried
    <2>6. Carried(Rev(managed))'
        BY <2>1, <2>4 DEF CoverInv, Carried, Rev
    <2>7. \A g \in Flushes : Writing(g)' => asked'[g] <= lost \/ asked'[g] <= data[g].rev
        BY <2>2, <2>3 DEF CoverInv
    <2> QED
        BY <2>1, <2>5, <2>6, <2>7 DEF CoverInv, Rev
<1>7. ASSUME NEW f \in Flushes, Take(f)
      PROVE  CoverInv'
    <2>1. /\ UNCHANGED <<disk, edits, managed, lost, deleting, deleted>>
          /\ pc[f] = "chained" /\ prior[f] = None
        BY <1>7 DEF Take, fileVars, countVars
    <2>2. \A g \in Flushes : ~Writing(g)
        BY <2>1 DEF ChainInv, Writing, Busy
    <2>3. asked[f] <= lost \/ asked[f] <= Rev(disk) \/ asked[f] <= Rev(pending)
        BY <2>2 DEF CoverInv, Carried
    <2>4. CASE pending = None
        <3>1. Settle(f) /\ pending' = pending
            BY <1>7, <2>4 DEF Take
        <3>2. \A g \in Flushes : ~Writing(g)'
            BY <2>2, <3>1, SettleWrites
        <3>3. asked[f] <= lost \/ asked[f] <= Rev(disk)
            BY <2>3, <2>4 DEF Rev
        <3> QED
            BY <2>1, <2>2, <3>1, <3>2, <3>3, CoverSettle DEF Rev
    <2>5. CASE pending # None
        <3>1. /\ pc' = [pc EXCEPT ![f] = "making"] /\ data' = [data EXCEPT ![f] = pending]
              /\ UNCHANGED <<asked, acked>>
            BY <1>7, <2>5 DEF Take
        <3>2. Writing(f)' /\ data'[f].rev = Rev(pending)
            BY <2>5, <3>1 DEF Writing, TypeOK
        <3>3. \A g \in Flushes : Writing(g)' => g = f
            BY <2>2, <3>1 DEF Writing, TypeOK
        <3>4. \A n \in Nat : Carried(n) => Carried(n)'
            BY <2>1, <2>2, <3>2 DEF Carried, Rev
        <3>5. Rev(disk) <= Rev(pending)
            BY <2>5 DEF OrderInv
        <3>6. asked[f] <= lost \/ asked[f] <= data'[f].rev
            BY <2>3, <3>2, <3>5
        <3>7. Carried(Rev(managed))' /\ \A g \in Flushes : Carried(asked[g])'
            BY <2>1, <3>1, <3>4 DEF CoverInv, Carried, Rev
        <3> QED
            BY <2>1, <3>1, <3>3, <3>6, <3>7 DEF CoverInv, Rev
    <2> QED
        BY <2>4, <2>5
<1>8. ASSUME NEW f \in Flushes, Prepare(f)
      PROVE  CoverInv'
    <2>1. UNCHANGED <<pending, disk, edits, managed, asked, acked, lost, deleting, deleted>>
        BY <1>8 DEF Prepare, countVars, ghostVars
    <2>2. data'[f].rev = data[f].rev
        BY <1>8, MergedType DEF Prepare, TypeOK, Writing
    <2>3. /\ \A g \in Flushes : Writing(g)' <=> Writing(g)
          /\ \A g \in Flushes : Writing(g) => data'[g].rev = data[g].rev
        BY <1>8, <2>2 DEF Prepare, TypeOK, Writing
    <2> QED
        BY <2>1, <2>3, CoverSame DEF Rev
<1>9. ASSUME NEW f \in Flushes, WriteTmp(f)
      PROVE  CoverInv'
    <2>1. UNCHANGED <<pending, disk, data, edits, managed, asked, acked, lost, deleting, deleted>>
        BY <1>9 DEF WriteTmp, countVars, ghostVars
    <2>2. \A g \in Flushes : Writing(g)' <=> Writing(g)
        BY <1>9 DEF WriteTmp, TypeOK, Writing
    <2> QED
        BY <2>1, <2>2, CoverSame DEF Rev
<1>10. ASSUME NEW f \in Flushes, Rename(f)
       PROVE  CoverInv'
    <2>1. /\ UNCHANGED <<pending, edits, managed, lost, deleting, deleted>> /\ Settle(f)
          /\ disk' = tmp /\ tmp # None /\ pc[f] = "renaming" /\ Writing(f)
        BY <1>10 DEF Rename, countVars, Writing
    <2>2. \A g \in Flushes : Writing(g) => g = f
        BY <2>1, ChainMeansOneWriter DEF OneWriter
    <2>3. \A g \in Flushes : ~Writing(g)'
        BY <2>1, <2>2, SettleWrites
    <2>4. Rev(disk') = data[f].rev /\ Rev(disk) <= data[f].rev
        BY <2>1 DEF OrderInv, Rev
    <2>5. asked[f] <= lost \/ asked[f] <= data[f].rev
        BY <2>1 DEF CoverInv
    <2>6. \A g \in Flushes : Writing(g) => data[g].rev <= Rev(disk')
        BY <2>1, <2>2, <2>4
    <2> QED
        BY <2>1, <2>3, <2>4, <2>5, <2>6, CoverSettle DEF Rev
<1>11. ASSUME NEW f \in Flushes, Fail(f)
       PROVE  CoverInv'
    <2>1. /\ UNCHANGED <<pending, disk, edits, managed, deleting, deleted>> /\ Settle(f)
          /\ lost' = Later(lost, data[f].rev) /\ Writing(f)
        BY <1>11 DEF Fail, fileVars, Writing
    <2>2. \A g \in Flushes : Writing(g) => g = f
        BY <2>1, ChainMeansOneWriter DEF OneWriter
    <2>3. \A g \in Flushes : ~Writing(g)'
        BY <2>1, <2>2, SettleWrites
    <2>4. lost' \in Nat /\ lost <= lost' /\ data[f].rev <= lost'
        BY <2>1, LaterFacts
    <2>5. asked[f] <= lost'
        BY <2>1, <2>4 DEF CoverInv
    <2>6. \A g \in Flushes : Writing(g) => data[g].rev <= lost'
        BY <2>2, <2>4
    <2> QED
        BY <2>1, <2>3, <2>4, <2>5, <2>6, CoverSettle DEF Rev
<1>12. CASE Aside
    <2>1. /\ UNCHANGED <<pc, data, pending, disk, edits, asked, acked, lost, deleting, deleted>>
          /\ Rev(managed') = Rev(managed)
        BY <1>12, AsideFacts DEF queueVars, fileVars, countVars, ghostVars
    <2>2. \A n \in Nat : Carried(n) => Carried(n)'
        BY <2>1, CarriedSame DEF Writing, Rev
    <2>3. Rev(managed) <= edits /\ Carried(Rev(managed))
        BY DEF CoverInv
    <2>4. \A n \in Nat : n = Rev(managed') /\ Carried(n)' => Carried(Rev(managed))'
        BY DEF Carried, Rev
    <2>5. Carried(Rev(managed))'
        BY <2>1, <2>2, <2>3, <2>4
    <2>6. \A g \in Flushes : asked'[g] <= edits' /\ Carried(asked[g])'
        BY <2>1, <2>2 DEF CoverInv, Carried
    <2> QED
        BY <2>1, <2>3, <2>5, <2>6 DEF CoverInv, Rev, Writing
<1>13. CASE ColdReadFails
    <2>1. /\ UNCHANGED <<pc, data, pending, disk, asked, acked, deleting, deleted>>
          /\ edits' = edits + 1 /\ Rev(managed') = edits + 1
          /\ lost' \in Nat /\ lost <= lost' /\ edits + 1 <= lost'
        BY <1>13, ColdReadType DEF queueVars, fileVars
    <2>2. \A n \in Nat : n <= edits + 1 => Carried(n)'
        BY <2>1 DEF Carried
    <2>3. Carried(Rev(managed))'
        BY <2>1, <2>2 DEF Carried, Rev
    <2>4. \A g \in Flushes : asked[g] \in Nat /\ asked[g] <= edits
        BY DEF CoverInv
    <2>5. \A g \in Flushes : asked'[g] <= edits' /\ asked'[g] <= lost' /\ Carried(asked[g])'
        BY <2>1, <2>4 DEF Carried
    <2>6. acked' <= lost' \/ acked' <= Rev(disk')
        <3>1. Rev(disk) <= edits /\ Rev(disk') = Rev(disk)
            BY <2>1 DEF OrderInv, Rev
        <3> QED
            BY <2>1, <3>1 DEF CoverInv
    <2> QED
        BY <2>1, <2>3, <2>5, <2>6 DEF CoverInv, Rev
<1> QED
    BY <1>2, <1>3, <1>4, <1>5, <1>6, <1>7, <1>8, <1>9, <1>10, <1>11, <1>12, <1>13 DEF Step
-----------------------------------------------------------------------------
\* The theorems.

LEMMA QueueInvInit == Init => QueueInv
BY TypeInit, ChainInit, OrderInit, CoverInit DEF QueueInv

LEMMA QueueInvStep == QueueInv /\ [Next]_vars => QueueInv'
<1> SUFFICES ASSUME QueueInv, [Next]_vars
             PROVE  QueueInv'
    OBVIOUS
<1>1. CASE Step
    <2>1. TypeOK'
        BY <1>1, TypeStep DEF QueueInv
    <2> QED
        BY <1>1, <2>1, ChainStep, OrderStep, CoverStep DEF QueueInv
<1>2. CASE UNCHANGED vars
    <2>1. UNCHANGED <<managed, loaded, pending, armed, writeInProgress, prior, pc, data, signature>>
        BY <1>2 DEF vars, queueVars
    <2>2. UNCHANGED <<disk, tmp, folder, deleting, edits, externals, faults, crashes>>
        BY <1>2 DEF vars, fileVars, countVars
    <2>3. UNCHANGED <<asked, acked, lost, deleted>>
        BY <1>2 DEF vars, ghostVars
    <2>8. UNCHANGED <<cli, cutting, losses, spoilt>>
        BY <1>2 DEF vars, cliVars
    <2>4. TypeOK'
        BY <2>1, <2>2, <2>3, <2>8 DEF QueueInv, TypeOK, Writing
    <2>5. ChainInv'
        BY <2>1 DEF QueueInv, ChainInv, Busy, Writing
    <2>6. OrderInv'
        BY <2>1, <2>2 DEF QueueInv, OrderInv, Rev, Writing
    <2>7. CoverInv'
        BY <2>1, <2>2, <2>3 DEF QueueInv, CoverInv, Carried, Rev, Writing
    <2> QED
        BY <2>4, <2>5, <2>6, <2>7 DEF QueueInv
<1> QED
    BY <1>1, <1>2, NextIsStep DEF QueueInv

LEMMA QueueInvHolds == Spec => []QueueInv
BY QueueInvInit, QueueInvStep, PTL DEF Spec

\* The state of the queue, of the manager and of the file is always of its type;
\* above all a writer always has a snapshot to write.
THEOREM QueueTypeCorrect == Spec => []TypeOK
<1>1. QueueInv => TypeOK
    BY DEF QueueInv
<1> QED
    BY <1>1, QueueInvHolds, PTL

\* However many calls of flush are open, one at a time is between taking a
\* snapshot and settling: no two writes share the .tmp file.
THEOREM OneWriterAtATime == Spec => []OneWriter
<1>1. QueueInv => OneWriter
    BY ChainMeansOneWriter DEF QueueInv
<1> QED
    BY <1>1, QueueInvHolds, PTL

\* When flush has returned, what its caller had changed is in the file, and stays
\* there across crashes, unless a write failed or the session was deleted.
THEOREM FlushIsDurable == Spec => []AckedOnDisk
<1>1. ASSUME QueueInv
      PROVE  AckedOnDisk
    <2>1. TypeOK /\ CoverInv
        BY <1>1 DEF QueueInv
    <2>2. CASE ~deleted /\ acked > lost
        <3>1. acked \in Nat /\ lost \in Nat /\ Rev(disk) \in Nat
            BY <2>1, RevTypes
        <3>2. acked <= Rev(disk) /\ Rev(disk) # 0
            BY <2>1, <2>2, <3>1 DEF CoverInv
        <3>3. disk # None /\ Rev(disk) = disk.rev
            BY <3>2 DEF Rev
        <3> QED
            BY <3>1, <3>2, <3>3 DEF AckedOnDisk
    <2> QED
        BY <2>2 DEF AckedOnDisk
<1> QED
    BY <1>1, QueueInvHolds, PTL

\* No step replaces the file by an older snapshot.
THEOREM FileNeverOlder == Spec => NeverOlder
<1>1. QueueInv /\ [Next]_vars => [disk # None /\ disk' # None => disk'.rev >= disk.rev]_vars
    <2> SUFFICES ASSUME QueueInv, [Next]_vars, vars' # vars, disk # None, disk' # None
                 PROVE  disk'.rev >= disk.rev
        OBVIOUS
    <2>1. TypeOK /\ ChainInv /\ OrderInv
        BY DEF QueueInv
    <2>2. Step
        BY <2>1, NextIsStep
    <2> QED
        BY <2>1, <2>2, StepNeverOlder
<1> QED
    BY <1>1, QueueInvHolds, PTL DEF Spec, NeverOlder

-----------------------------------------------------------------------------
\* The transcript.  Every snapshot counts the messages that a load of it would
\* give if it were the file, from the CLI transcript in c or from itself; of two
\* snapshots, the later one gives as many, unless it was truncated since or a CLI
\* transcript was lost after that truncation (x).  A CLI transcript belongs to the
\* snapshots between two truncations, and once it is pointed at, it stays so
\* until another one takes its place.

Holds(c, s) == IF s.sdk THEN c[s.root] ELSE s.body

Extends(c, x, s, t) ==
    /\ s.cut <= t.cut /\ s.root <= t.root
    /\ s.root = t.root => s.cut = t.cut /\ (s.sdk => t.sdk)
    /\ s.cut = t.cut /\ s.cut \notin x => Holds(c, s) <= Holds(c, t)

Dated(n, s) == s.cut <= n /\ s.root <= n

\* What is in the file, queued, or on its way from one to the other.
Old == {s \in {disk, pending} : s # None} \cup {data[f] : f \in {g \in Flushes : Writing(g)}}

\* s extends all that, and its CLI transcript holds nothing that it has not.
Kept(s) ==
    /\ Dated(edits, s)
    /\ \A o \in Old : Extends(cli, spoilt, o, s)
    /\ s.cut \notin spoilt => cli[s.root] <= s.body

\* The snapshots extend each other from the file over the write in progress to
\* the queue.
FileText ==
    /\ \A r \in Roots : cli[r] > 0 => r <= edits
    /\ edits = 0 => managed = None /\ Old = {} /\ cli[0] = 0
    /\ \A o \in Old : Dated(edits, o)
    /\ disk # None /\ disk.sdk => disk.body = 0
    /\ disk # None /\ pending # None => Extends(cli, spoilt, disk, pending)
    /\ \A f \in Flushes : Writing(f) =>
         /\ disk # None => Extends(cli, spoilt, disk, data[f])
         /\ pending # None => Extends(cli, spoilt, data[f], pending)
         /\ pc[f] = "renaming" /\ tmp # None => tmp = Written(data[f])

\* The manager's copy extends them all.  A session that was loaded without its
\* messages is as the file has it, and nothing of it is on its way.
ManagedText ==
    managed # None =>
      /\ loaded => Kept(managed)
      /\ ~loaded =>
           /\ disk # None /\ pending = None /\ \A f \in Flushes : ~Writing(f)
           /\ managed.cut = disk.cut /\ managed.root = disk.root /\ managed.sdk = disk.sdk
           /\ ~disk.sdk => cli[disk.root] <= disk.body

TextInv == FileText /\ ManagedText

LEMMA Fields ==
    ASSUME NEW s \in Snapshot
    PROVE  /\ s.cut \in Nat /\ s.root \in Roots /\ s.root \in Nat /\ s.body \in Nat
           /\ s.sdk \in BOOLEAN
BY BoundsAreNat DEF Snapshot, Roots

LEMMA HoldsType ==
    ASSUME NEW c \in [Roots -> Nat], NEW s \in Snapshot
    PROVE  Holds(c, s) \in Nat
BY Fields DEF Holds

LEMMA OldType ==
    ASSUME TypeOK
    PROVE  /\ Old \subseteq Snapshot /\ edits \in Nat /\ cli \in [Roots -> Nat]
           /\ disk # None => disk \in Old
           /\ pending # None => pending \in Old
           /\ \A f \in Flushes : Writing(f) => data[f] \in Old
BY DEF TypeOK, Old

LEMMA ColdOld ==
    ASSUME disk # None, pending = None, \A f \in Flushes : ~Writing(f)
    PROVE  Old = {disk}
BY DEF Old

\* Extends is an order.
LEMMA ExtendsSelf ==
    ASSUME NEW c \in [Roots -> Nat], NEW x, NEW s \in Snapshot
    PROVE  Extends(c, x, s, s)
BY Fields, HoldsType DEF Extends

LEMMA ExtendsOver ==
    ASSUME NEW c \in [Roots -> Nat], NEW x, NEW s \in Snapshot, NEW t \in Snapshot,
           NEW u \in Snapshot, Extends(c, x, s, t), Extends(c, x, t, u)
    PROVE  Extends(c, x, s, u)
<1>1. s.cut <= u.cut /\ s.root <= u.root
    BY Fields DEF Extends
<1>2. ASSUME s.root = u.root
      PROVE  s.cut = u.cut /\ (s.sdk => u.sdk)
    <2>1. s.root = t.root /\ t.root = u.root
        BY <1>2, Fields DEF Extends
    <2> QED
        BY <2>1 DEF Extends
<1>3. ASSUME s.cut = u.cut, s.cut \notin x
      PROVE  Holds(c, s) <= Holds(c, u)
    <2>1. s.cut = t.cut /\ t.cut = u.cut
        BY <1>3, Fields DEF Extends
    <2>2. Holds(c, s) <= Holds(c, t) /\ Holds(c, t) <= Holds(c, u)
        BY <1>3, <2>1 DEF Extends
    <2> QED
        BY <2>2, HoldsType
<1> QED
    BY <1>1, <1>2, <1>3 DEF Extends

\* It outlives a message that is added to the latest CLI transcript.
LEMMA ExtendsRaised ==
    ASSUME NEW c \in [Roots -> Nat], NEW x, NEW s \in Snapshot, NEW t \in Snapshot,
           NEW r \in Roots, Extends(c, x, s, t), t.root <= r
    PROVE  Extends([c EXCEPT ![r] = @ + 1], x, s, t)
<1> DEFINE d == [c EXCEPT ![r] = @ + 1]
<1>1. d \in [Roots -> Nat] /\ d[r] = c[r] + 1 /\ \A q \in Roots : q # r => d[q] = c[q]
    OBVIOUS
<1>2. ASSUME s.cut = t.cut, s.cut \notin x
      PROVE  Holds(d, s) <= Holds(d, t)
    <2>1. Holds(c, s) <= Holds(c, t) /\ Holds(c, s) \in Nat /\ Holds(c, t) \in Nat
        BY <1>2, HoldsType DEF Extends
    <2>2. Holds(c, t) <= Holds(d, t)
        BY <1>1, Fields DEF Holds
    <2>3. CASE s.sdk /\ s.root = r
        <3>1. t.root = r /\ t.sdk
            BY <2>3, Fields, BoundsAreNat DEF Extends, Roots
        <3> QED
            BY <2>3, <3>1, <1>1 DEF Holds
    <2>4. CASE ~(s.sdk /\ s.root = r)
        <3>1. Holds(d, s) = Holds(c, s)
            BY <2>4, <1>1, Fields DEF Holds
        <3>2. Holds(d, t) \in Nat
            BY <1>1, HoldsType
        <3> QED
            BY <2>1, <2>2, <3>1, <3>2
    <2> QED
        BY <2>3, <2>4
<1> QED
    BY <1>2 DEF Extends

\* It outlives the loss of a CLI transcript, if the snapshots that name it stand
\* after a truncation that is marked for it.
LEMMA ExtendsLowered ==
    ASSUME NEW c \in [Roots -> Nat], NEW d \in [Roots -> Nat], NEW x, NEW y,
           \A k \in Nat : k \in x => k \in y,
           NEW s \in Snapshot, NEW t \in Snapshot, Extends(c, x, s, t), NEW r,
           \A q \in Roots : d[q] <= c[q] /\ (q # r => d[q] = c[q]),
           t.root = r => t.cut \in y
    PROVE  Extends(d, y, s, t)
<1>1. ASSUME s.cut = t.cut, s.cut \notin y
      PROVE  Holds(d, s) <= Holds(d, t)
    <2>1. s.cut \notin x /\ t.root # r
        BY <1>1, Fields
    <2>2. Holds(c, s) <= Holds(c, t)
        BY <1>1, <2>1 DEF Extends
    <2>3. Holds(d, t) = Holds(c, t) /\ Holds(d, s) <= Holds(c, s)
        BY <2>1, Fields, HoldsType DEF Holds
    <2> QED
        BY <2>2, <2>3, HoldsType
<1> QED
    BY <1>1 DEF Extends

\* s and t tell the same transcript.
Same(s, t) == s.cut = t.cut /\ s.root = t.root /\ s.sdk = t.sdk /\ s.body = t.body

LEMMA ExtendsSame ==
    ASSUME NEW c, NEW x, NEW s, NEW t, NEW u, NEW v, Extends(c, x, s, t), Same(u, s), Same(v, t)
    PROVE  Extends(c, x, u, v)
BY DEF Extends, Same, Holds

LEMMA MergedText ==
    ASSUME NEW s \in Snapshot
    PROVE  Same(Merged(s), s)
BY DEF Merged, Same, Snapshot

\* The header line of a pointer stands for as much as the whole snapshot.
LEMMA WrittenText ==
    ASSUME NEW c, NEW s \in Snapshot
    PROVE  LET w == Written(s)
           IN  /\ w.cut = s.cut /\ w.root = s.root /\ w.sdk = s.sdk /\ (w.sdk => w.body = 0)
               /\ Holds(c, w) = Holds(c, s)
BY DEF Written, Holds, Snapshot

\* What a load reads of the file.
LEMMA StoredText ==
    ASSUME TypeOK, FileText, disk # None
    PROVE  Stored(disk) = Holds(cli, disk) /\ Holds(cli, disk) \in Nat
<1>1. disk \in Snapshot
    BY DEF TypeOK
<1>2. cli[disk.root] \in Nat /\ disk.sdk \in BOOLEAN
    BY <1>1, Fields DEF TypeOK
<1> QED
    BY <1>1, <1>2, Fields DEF Stored, FromCli, Holds, FileText

\* What persistSession reads for a session that was never loaded makes the
\* snapshot whole.
LEMMA HydratedKept ==
    ASSUME TypeOK, TextInv, managed # None
    PROVE  /\ Hydrated \in Snapshot /\ Kept(Hydrated)
           /\ Hydrated.cut = managed.cut /\ Hydrated.root = managed.root
           /\ Hydrated.sdk = managed.sdk
<1>1. managed \in Snapshot /\ Hydrated \in Snapshot
    BY HydratedType
<1>2. CASE loaded
    BY <1>1, <1>2 DEF Hydrated, TextInv, ManagedText
<1>3. CASE ~loaded
    <2>1. /\ disk # None /\ Old = {disk} /\ managed.cut = disk.cut /\ managed.root = disk.root
          /\ managed.sdk = disk.sdk /\ (~disk.sdk => cli[disk.root] <= disk.body)
        BY <1>3, ColdOld DEF TextInv, ManagedText
    <2>2. disk \in Snapshot /\ disk \in Old
        BY <2>1, OldType
    <2>3. Stored(managed) = Stored(disk)
        BY <2>1 DEF Stored, FromCli
    <2>4. Stored(managed) = Holds(cli, disk)
        BY <2>1, <2>3, StoredText DEF TextInv
    <2> DEFINE h == Hydrated
    <2>5. h = [managed EXCEPT !.body = Holds(cli, disk)]
        BY <1>3, <2>4 DEF Hydrated
    <2>6. h.cut = disk.cut /\ h.root = disk.root /\ h.sdk = disk.sdk /\ h.body = Holds(cli, disk)
        BY <1>1, <2>1, <2>5 DEF Snapshot
    <2>7. h \in Snapshot
        BY <1>1
    <2> HIDE DEF h
    <2>8. Holds(cli, h) = Holds(cli, disk) /\ Holds(cli, disk) \in Nat
        BY <2>2, <2>6, OldType, HoldsType DEF Holds
    <2>9. Extends(cli, spoilt, disk, h)
        BY <2>2, <2>6, <2>8, Fields DEF Extends
    <2>10. Dated(edits, h)
        BY <2>2, <2>6 DEF TextInv, FileText, Dated
    <2>11. cli[h.root] <= h.body
        BY <2>1, <2>2, <2>6, OldType, Fields DEF Holds
    <2>12. Kept(h) /\ h.cut = managed.cut /\ h.root = managed.root /\ h.sdk = managed.sdk
        BY <2>1, <2>6, <2>9, <2>10, <2>11 DEF Kept
    <2>13. h = Hydrated
        BY DEF h
    <2> QED
        BY <1>1, <2>12, <2>13
<1> QED
    BY <1>2, <1>3

\* A snapshot is queued that extends all others with the CLI transcripts as they
\* are from now on, which leave the others in order.
LEMMA TextPersist ==
    ASSUME TypeOK, TextInv, NEW s \in Snapshot, Persist(s),
           NoFlush \/ \E f \in Flushes : Flush(f, edits + 1),
           cli' \in [Roots -> Nat], UNCHANGED spoilt, Dated(edits + 1, s),
           \A r \in Roots : cli'[r] > 0 => r <= edits + 1,
           \A o \in Old : Extends(cli', spoilt, o, s),
           \A o, p \in Old : Extends(cli, spoilt, o, p) => Extends(cli', spoilt, o, p),
           s.cut \notin spoilt => cli'[s.root] <= s.body
    PROVE  TextInv'
<1>1. /\ edits' = edits + 1 /\ managed' = s /\ loaded' = TRUE /\ pending' = s
      /\ UNCHANGED <<data, disk, tmp>>
    BY DEF Persist, Enqueue, fileVars
<1>2. edits \in Nat /\ s # None /\ Old \subseteq Snapshot
    BY NoneIsNoSnapshot, OldType
<1>3. \A f \in Flushes : (Writing(f)' <=> Writing(f)) /\ (Writing(f) => pc'[f] = pc[f])
    <2>1. CASE NoFlush
        BY <2>1 DEF NoFlush, Writing
    <2>2. CASE \E f \in Flushes : Flush(f, edits + 1)
        BY <2>2 DEF Flush, TypeOK, Writing
    <2> QED
        BY <2>1, <2>2
<1>4. \A o \in Old' : o = s \/ (o \in Old /\ o \in Snapshot)
    BY <1>1, <1>2, <1>3 DEF Old
<1>5. \A o \in Old' : Extends(cli', spoilt', o, s) /\ Dated(edits', o)
    <2>1. \A o \in Old : o.cut \in Nat /\ o.root \in Nat /\ Dated(edits, o)
        BY <1>2, Fields DEF TextInv, FileText
    <2> QED
        BY <1>1, <1>2, <1>4, <2>1, ExtendsSelf DEF Dated
<1>6. Kept(managed)'
    BY <1>1, <1>5 DEF Kept
<1>7. disk # None => disk \in Old
    BY OldType
<1>8. ASSUME NEW f \in Flushes, Writing(f)'
      PROVE  /\ data[f] \in Old
             /\ disk # None => Extends(cli', spoilt', disk, data[f])
             /\ Extends(cli', spoilt', data[f], s)
             /\ pc'[f] = "renaming" /\ tmp # None => tmp = Written(data[f])
    <2>1. Writing(f) /\ data[f] \in Old /\ pc'[f] = pc[f]
        BY <1>3, <1>8, OldType
    <2> QED
        BY <1>7, <2>1 DEF TextInv, FileText
<1>9. disk # None => Extends(cli', spoilt', disk, s) /\ (disk.sdk => disk.body = 0)
    BY <1>7 DEF TextInv, FileText
<1> QED
    BY <1>1, <1>2, <1>5, <1>6, <1>8, <1>9 DEF TextInv, FileText, ManagedText

\* The same when the CLI transcripts stay as they are and s extends h, which
\* extends the others.
LEMMA TextGrows ==
    ASSUME TypeOK, TextInv, NEW h \in Snapshot, Kept(h), NEW s \in Snapshot, Persist(s),
           NoFlush \/ \E f \in Flushes : Flush(f, edits + 1),
           UNCHANGED <<cli, spoilt>>, Dated(edits + 1, s), Extends(cli, spoilt, h, s),
           s.cut \notin spoilt => cli[s.root] <= s.body
    PROVE  TextInv'
<1>1. Old \subseteq Snapshot /\ edits \in Nat /\ cli \in [Roots -> Nat]
    BY OldType
<1>2. \A o \in Old : Extends(cli, spoilt, o, s)
    BY <1>1, ExtendsOver DEF Kept
<1>3. \A r \in Roots : cli[r] > 0 => r <= edits + 1
    BY <1>1, BoundsAreNat DEF TextInv, FileText, Roots
<1> QED
    BY <1>1, <1>2, <1>3, TextPersist

LEMMA TextChange ==
    ASSUME TypeOK, TextInv, Changing
    PROVE  TextInv'
<1> DEFINE n == edits + 1
           h == Hydrated
<1>1. PICK s :
        /\ Persist(s)
        /\ NoFlush \/ \E f \in Flushes : Flush(f, n)
        /\ UNCHANGED <<losses, spoilt>> /\ cutting' \in BOOLEAN
        /\ \/ /\ managed # None /\ s = Appended(h, n)
              /\ \/ cli' = cli
                 \/ /\ cli[managed.root] = h.body
                    /\ cli' = [cli EXCEPT ![managed.root] = @ + 1]
           \/ managed # None /\ s = Titled(h, n) /\ cli' = cli
           \/ /\ managed # None /\ loaded /\ s = Pointing(managed, n) /\ cli' = cli
              /\ cli[managed.root] >= managed.body /\ ~managed.sdk
           \/ managed # None /\ loaded /\ s = Cleared(managed, n) /\ cli' = cli
           \/ /\ managed # None /\ cli' = cli
              /\ \E k \in 0..h.body : s = Cut(h, n, k)
           \/ edits = 0 /\ s = Fresh /\ cli' = cli
    BY ChangeCases
<1>2. edits \in Nat /\ n \in Nat /\ n \in Roots /\ n = edits + 1 /\ cli \in [Roots -> Nat]
    BY <1>1, BoundsAreNat DEF Persist, TypeOK, Roots
<1>3. \A r \in Roots : cli[r] > 0 => r <= edits
    BY DEF TextInv, FileText
<1>4. cli[n] = 0
    BY <1>2, <1>3
<1>5. ASSUME managed # None
      PROVE  /\ h \in Snapshot /\ Kept(h) /\ h.root = managed.root
             /\ h.cut \in Nat /\ h.cut <= edits /\ h.root \in Nat /\ h.root \in Roots /\ h.root <= edits
             /\ h.body \in Nat /\ cli[h.root] \in Nat /\ h.sdk \in BOOLEAN
             /\ h.cut \notin spoilt => cli[h.root] <= h.body
             /\ loaded => h = managed
    BY <1>2, <1>5, HydratedKept, Fields DEF Kept, Dated, Hydrated
<1> HIDE DEF h, n
<1>6. CASE managed # None /\ s = Appended(h, n)
    <2>1. s \in Snapshot /\ s.rev = n
        BY <1>2, <1>5, <1>6, NextSnapshot, 0 \in Nat
    <2>2. s.cut = h.cut /\ s.root = h.root /\ s.sdk = h.sdk /\ s.body = h.body + 1
        BY <1>5, <1>6 DEF Appended, Snapshot
    <2>3. Dated(edits + 1, s)
        BY <1>2, <1>5, <1>6, <2>2 DEF Dated
    <2>4. CASE cli' = cli
        <3>1. Extends(cli, spoilt, h, s)
            BY <1>5, <1>6, <2>2 DEF Extends, Holds
        <3>2. s.cut \notin spoilt => cli[s.root] <= s.body
            BY <1>5, <1>6, <2>2
        <3> QED
            BY <1>1, <1>2, <1>5, <1>6, <2>1, <2>3, <2>4, <3>1, <3>2, TextGrows
    <2>5. CASE cli[h.root] = h.body /\ cli' = [cli EXCEPT ![h.root] = @ + 1]
        <3> DEFINE d == [cli EXCEPT ![h.root] = @ + 1]
        <3>1. cli' = d /\ d \in [Roots -> Nat] /\ d[h.root] = h.body + 1
              /\ \A q \in Roots : q # h.root => d[q] = cli[q]
            BY <1>2, <1>5, <1>6, <2>5
        <3>2. Old \subseteq Snapshot
            BY OldType
        <3>3. \A o \in Old : Extends(cli, spoilt, o, h)
            BY <1>5, <1>6 DEF Kept
        <3>4. \A o, p \in Old : Extends(cli, spoilt, o, p) => Extends(d, spoilt, o, p)
            <4>1. \A p \in Old : p.root <= h.root
                BY <3>3 DEF Extends
            <4>2. ASSUME NEW o \in Old, NEW p \in Old, Extends(cli, spoilt, o, p)
                  PROVE  Extends(d, spoilt, o, p)
                <5>1. o \in Snapshot /\ p \in Snapshot /\ p.root <= h.root /\ h.root \in Roots
                    BY <1>5, <1>6, <3>2, <4>1
                <5> QED
                    BY <1>2, <4>2, <5>1, ExtendsRaised
            <4> QED
                BY <4>2
        <3>5. \A o \in Old : Extends(d, spoilt, o, h)
            <4>1. ASSUME NEW o \in Old
                  PROVE  Extends(d, spoilt, o, h)
                <5>1. /\ o \in Snapshot /\ h \in Snapshot /\ h.root \in Roots /\ h.root <= h.root
                      /\ Extends(cli, spoilt, o, h)
                    BY <1>5, <1>6, <3>2, <3>3
                <5> QED
                    BY <1>2, <5>1, ExtendsRaised
            <4> QED
                BY <4>1
        <3> HIDE DEF d
        <3>6. Extends(d, spoilt, h, s)
            BY <1>5, <1>6, <2>2, <3>1 DEF Extends, Holds
        <3>7. \A o \in Old : Extends(d, spoilt, o, s)
            <4>1. h \in Snapshot /\ d \in [Roots -> Nat]
                BY <1>5, <1>6, <3>1
            <4> QED
                BY <2>1, <3>2, <3>5, <3>6, <4>1, ExtendsOver
        <3>8. \A r \in Roots : d[r] > 0 => r <= edits + 1
            <4>1. ASSUME NEW r \in Roots, d[r] > 0
                  PROVE  r <= edits + 1
                <5>1. r <= edits \/ r = h.root
                    BY <1>3, <3>1, <4>1
                <5>2. r \in Nat /\ h.root <= edits
                    BY <1>5, <1>6, BoundsAreNat DEF Roots
                <5> QED
                    BY <1>2, <5>1, <5>2
            <4> QED
                BY <4>1
        <3>9. d[s.root] <= s.body
            BY <1>5, <1>6, <2>2, <3>1
        <3>10. /\ NoFlush \/ \E f \in Flushes : Flush(f, edits + 1)
               /\ Persist(s) /\ UNCHANGED spoilt
            BY <1>1, <1>2
        <3> QED
            BY <2>1, <2>3, <3>1, <3>4, <3>7, <3>8, <3>9, <3>10, TextPersist
    <2> QED
        BY <1>1, <1>2, <1>5, <1>6, <2>4, <2>5
<1>7. CASE managed # None /\ cli' = cli /\ s = Titled(h, n)
    <2>1. s \in Snapshot /\ s.rev = n
        BY <1>2, <1>5, <1>7, NextSnapshot, 0 \in Nat
    <2>2. s.cut = h.cut /\ s.root = h.root /\ s.sdk = h.sdk /\ s.body = h.body
        BY <1>5, <1>7 DEF Titled, Snapshot
    <2>3. Dated(edits + 1, s) /\ Extends(cli, spoilt, h, s)
        BY <1>2, <1>5, <1>7, <2>2 DEF Dated, Extends, Holds
    <2> QED
        BY <1>1, <1>2, <1>5, <1>7, <2>1, <2>2, <2>3, TextGrows
<1>8. CASE /\ managed # None /\ cli' = cli /\ loaded /\ s = Pointing(h, n)
           /\ cli[h.root] >= h.body /\ ~h.sdk
    <2>1. s \in Snapshot /\ s.rev = n
        BY <1>2, <1>5, <1>8, NextSnapshot, 0 \in Nat
    <2>2. s.cut = h.cut /\ s.root = h.root /\ s.sdk = TRUE /\ s.body = h.body
        BY <1>5, <1>8 DEF Pointing, Snapshot
    <2>3. Dated(edits + 1, s) /\ Extends(cli, spoilt, h, s)
        BY <1>2, <1>5, <1>8, <2>2 DEF Dated, Extends, Holds
    <2> QED
        BY <1>1, <1>2, <1>5, <1>8, <2>1, <2>2, <2>3, TextGrows
<1>9. CASE managed # None /\ cli' = cli /\ loaded /\ s = Cleared(h, n)
    <2>1. s \in Snapshot /\ s.rev = n
        BY <1>2, <1>5, <1>9, NextSnapshot, 0 \in Nat
    <2>2. s.cut = h.cut /\ s.root = n /\ s.sdk = FALSE /\ s.body = h.body
        BY <1>5, <1>9 DEF Cleared, Snapshot
    <2>3. Dated(edits + 1, s) /\ Extends(cli, spoilt, h, s)
        BY <1>2, <1>5, <1>9, <2>2 DEF Dated, Extends, Holds
    <2> QED
        BY <1>1, <1>2, <1>4, <1>5, <1>9, <2>1, <2>2, <2>3, TextGrows
<1>10. CASE managed # None /\ cli' = cli /\ \E k \in 0..h.body : s = Cut(h, n, k)
    <2>0. PICK k \in 0..h.body : s = Cut(h, n, k)
        BY <1>10
    <2>4. h \in Snapshot /\ k \in Nat
        BY <1>5, <1>10
    <2>1. k \in Nat /\ s \in Snapshot /\ s.rev = n
        BY <1>2, <2>0, <2>4, NextSnapshot
    <2>2. s.cut = n /\ s.root = n /\ s.sdk = FALSE /\ s.body = k
        BY <1>5, <1>10, <2>0 DEF Cut, Snapshot
    <2>3. Dated(edits + 1, s) /\ Extends(cli, spoilt, h, s)
        BY <1>2, <1>5, <1>10, <2>2 DEF Dated, Extends, Holds
    <2> QED
        BY <1>1, <1>2, <1>4, <1>5, <1>10, <2>1, <2>2, <2>3, TextGrows
<1>11. CASE edits = 0 /\ s = Fresh /\ cli' = cli
    <2>1. Old = {} /\ cli[0] = 0
        BY <1>11 DEF TextInv, FileText
    <2>2. s \in Snapshot /\ s.cut = 0 /\ s.root = 0 /\ s.body = 0
        BY <1>2, <1>11, BoundsAreNat DEF Fresh, Snapshot, Roots
    <2>3. \A r \in Roots : cli[r] > 0 => r <= edits + 1
        BY <1>2, <1>3, BoundsAreNat DEF Roots
    <2> QED
        BY <1>1, <1>2, <1>11, <2>1, <2>2, <2>3, TextPersist DEF Dated
<1> QED
    <2>1. managed # None /\ loaded => h = managed
        BY <1>5
    <2> QED
        BY <1>1, <1>6, <1>7, <1>8, <1>9, <1>10, <1>11, <2>1

LEMMA TextInit == Init => TextInv
<1> SUFFICES ASSUME Init
             PROVE  TextInv
    OBVIOUS
<1>1. Old = {}
    BY DEF Init, Old, Writing
<1>2. \A f \in Flushes : ~Writing(f)
    BY DEF Init, Writing
<1>3. \A r \in Roots : cli[r] = 0
    BY DEF Init
<1>4. 0 \in Roots
    BY BoundsAreNat DEF Roots
<1> QED
    BY <1>1, <1>2, <1>3, <1>4 DEF Init, TextInv, FileText, ManagedText

\* Nothing is written, and what is queued, in the file or in the manager may go.
LEMMA TextSame ==
    ASSUME TypeOK, TypeOK', TextInv, edits <= edits', UNCHANGED <<cli, spoilt>>,
           pending' = pending \/ pending' = None,
           disk' # None => disk # None /\ Same(disk', disk),
           tmp' = tmp \/ tmp' = None,
           managed' # None =>
             managed # None /\ Same(managed', managed) /\ loaded' = loaded /\ (disk # None => disk' # None),
           \A g \in Flushes : Writing(g)' => Writing(g) /\ Same(data'[g], data[g]),
           \A g \in Flushes : pc'[g] = "renaming" => pc[g] = "renaming" /\ data'[g] = data[g]
    PROVE  TextInv'
<1>1. edits' \in Nat /\ edits \in Nat /\ (edits' = 0 => edits = 0)
    BY DEF TypeOK
<1>2. \A o \in Old' : \E p \in Old : Same(o, p)
    <2>1. ASSUME NEW o \in Old'
          PROVE  \E p \in Old : Same(o, p)
        <3>1. CASE disk' # None /\ o = disk'
            BY <3>1, OldType
        <3>2. CASE pending' # None /\ o = pending'
            BY <3>2, OldType DEF Same
        <3>3. ASSUME NEW g \in Flushes, Writing(g)', o = data'[g]
              PROVE  \E p \in Old : Same(o, p)
            BY <3>3, OldType
        <3> QED
            BY <3>1, <3>2, <3>3 DEF Old
    <2> QED
        BY <2>1
<1>3. \A o \in Old' : Dated(edits', o)
    <2>1. ASSUME NEW o \in Old', NEW p \in Old, Same(o, p)
          PROVE  Dated(edits', o)
        <3>1. p \in Snapshot /\ Dated(edits, p)
            BY OldType DEF TextInv, FileText
        <3>2. p.cut \in Nat /\ p.root \in Nat
            BY <3>1, Fields
        <3> QED
            BY <1>1, <2>1, <3>1, <3>2 DEF Dated, Same
    <2> QED
        BY <1>2, <2>1
<1>4. \A r \in Roots : cli'[r] > 0 => r <= edits'
    BY <1>1, BoundsAreNat DEF TextInv, FileText, Roots
<1>5. edits' = 0 => managed' = None /\ Old' = {} /\ cli'[0] = 0
    BY <1>1, <1>2 DEF TextInv, FileText
<1>6. disk' # None /\ disk'.sdk => disk'.body = 0
    BY DEF TextInv, FileText, Same
<1>7. disk' # None /\ pending' # None => Extends(cli', spoilt', disk', pending')
    <2> SUFFICES ASSUME disk' # None, pending' # None
                 PROVE  Extends(cli, spoilt, disk', pending')
        OBVIOUS
    <2>1. Extends(cli, spoilt, disk, pending) /\ Same(disk', disk) /\ Same(pending', pending)
        BY DEF TextInv, FileText, Same
    <2> QED
        BY <2>1, ExtendsSame
<1>8. ASSUME NEW f \in Flushes, Writing(f)'
      PROVE  /\ disk' # None => Extends(cli', spoilt', disk', data'[f])
             /\ pending' # None => Extends(cli', spoilt', data'[f], pending')
             /\ pc'[f] = "renaming" /\ tmp' # None => tmp' = Written(data'[f])
    <2>1. Writing(f) /\ Same(data'[f], data[f])
        BY <1>8
    <2>2. disk' # None => Extends(cli, spoilt, disk', data'[f])
        <3>1. disk' # None => Extends(cli, spoilt, disk, data[f]) /\ Same(disk', disk)
            BY <2>1 DEF TextInv, FileText
        <3> QED
            BY <2>1, <3>1, ExtendsSame
    <2>3. pending' # None => Extends(cli, spoilt, data'[f], pending')
        <3>1. pending' # None => Extends(cli, spoilt, data[f], pending) /\ Same(pending', pending)
            BY <2>1 DEF TextInv, FileText, Same
        <3> QED
            BY <2>1, <3>1, ExtendsSame
    <2>4. pc'[f] = "renaming" /\ tmp' # None => tmp' = Written(data'[f])
        BY <2>1 DEF TextInv, FileText
    <2> QED
        BY <2>2, <2>3, <2>4
<1>9. FileText'
    BY <1>3, <1>4, <1>5, <1>6, <1>7, <1>8 DEF FileText
<1>10. ASSUME managed' # None, loaded'
       PROVE  Kept(managed)'
    <2>1. managed # None /\ loaded /\ Same(managed', managed) /\ Kept(managed)
        BY <1>10 DEF TextInv, ManagedText
    <2>2. managed.cut \in Nat /\ managed.root \in Nat
        BY <2>1, Fields DEF TypeOK
    <2>3. Dated(edits', managed')
        BY <1>1, <2>1, <2>2 DEF Kept, Dated, Same
    <2>4. \A o \in Old' : Extends(cli, spoilt, o, managed')
        <3>1. ASSUME NEW o \in Old'
              PROVE  Extends(cli, spoilt, o, managed')
            <4>1. PICK p \in Old : Same(o, p)
                BY <1>2
            <4>2. Extends(cli, spoilt, p, managed)
                BY <2>1 DEF Kept
            <4> QED
                BY <2>1, <4>1, <4>2, ExtendsSame
        <3> QED
            BY <3>1
    <2> QED
        BY <2>1, <2>3, <2>4 DEF Kept, Same
<1>11. ASSUME managed' # None, ~loaded'
       PROVE  /\ disk' # None /\ pending' = None /\ \A f \in Flushes : ~Writing(f)'
              /\ managed'.cut = disk'.cut /\ managed'.root = disk'.root /\ managed'.sdk = disk'.sdk
              /\ ~disk'.sdk => cli'[disk'.root] <= disk'.body
    <2>1. /\ managed # None /\ ~loaded /\ Same(managed', managed)
          /\ disk # None /\ pending = None /\ \A f \in Flushes : ~Writing(f)
          /\ managed.cut = disk.cut /\ managed.root = disk.root /\ managed.sdk = disk.sdk
          /\ ~disk.sdk => cli[disk.root] <= disk.body
        BY <1>11 DEF TextInv, ManagedText
    <2>2. disk' # None /\ pending' = None /\ Same(disk', disk)
        BY <1>11, <2>1
    <2> QED
        BY <2>1, <2>2 DEF Same
<1> QED
    BY <1>9, <1>10, <1>11 DEF TextInv, ManagedText

\* A CLI transcript goes, or nothing at all, and the cut it stood after is marked.
LEMMA TextLower ==
    ASSUME TypeOK, TypeOK', TextInv, UNCHANGED <<queueVars, fileVars, edits>>,
           managed = None => managed' = None,
           NEW r, \A q \in Roots : cli'[q] <= cli[q] /\ (q # r => cli'[q] = cli[q]),
           spoilt \subseteq spoilt',
           \A o \in Old : o.root = r => o.cut \in spoilt'
    PROVE  /\ FileText'
           /\ \A h \in Snapshot : Kept(h) /\ (h.root = r => h.cut \in spoilt') => Kept(h)'
<1>1. UNCHANGED <<disk, pending, tmp, pc, data>>
    BY DEF queueVars, fileVars
<1>2. Old' = Old /\ \A f \in Flushes : Writing(f)' <=> Writing(f)
    BY <1>1 DEF Old, Writing
<1>3. cli \in [Roots -> Nat] /\ cli' \in [Roots -> Nat] /\ edits' = edits /\ edits \in Nat
    BY DEF TypeOK
<1>4. \A k \in Nat : k \in spoilt => k \in spoilt'
    OBVIOUS
<1>5. ASSUME NEW s \in Snapshot, NEW t \in Snapshot, Extends(cli, spoilt, s, t),
             t.root = r => t.cut \in spoilt'
      PROVE  Extends(cli', spoilt', s, t)
    BY <1>3, <1>4, <1>5, ExtendsLowered
<1>6. ASSUME NEW s \in Old, NEW t \in Old, Extends(cli, spoilt, s, t)
      PROVE  Extends(cli', spoilt', s, t)
    BY <1>5, <1>6, OldType
<1>7. \A q \in Roots : cli'[q] > 0 => q <= edits'
    <2>1. \A q \in Roots : cli'[q] \in Nat /\ cli[q] \in Nat
        BY <1>3
    <2> QED
        BY <1>3, <2>1 DEF TextInv, FileText
<1>8. edits' = 0 => managed' = None /\ Old' = {} /\ cli'[0] = 0
    <2>1. 0 \in Roots /\ cli'[0] \in Nat /\ cli[0] \in Nat
        BY <1>3, BoundsAreNat DEF Roots
    <2> QED
        BY <1>2, <1>3, <2>1 DEF TextInv, FileText
<1>9. disk' # None /\ pending' # None => Extends(cli', spoilt', disk', pending')
    BY <1>1, <1>6, OldType DEF TextInv, FileText
<1>10. ASSUME NEW f \in Flushes, Writing(f)'
       PROVE  /\ disk' # None => Extends(cli', spoilt', disk', data'[f])
              /\ pending' # None => Extends(cli', spoilt', data'[f], pending')
              /\ pc'[f] = "renaming" /\ tmp' # None => tmp' = Written(data'[f])
    <2>1. Writing(f) /\ data[f] \in Old
        BY <1>2, <1>10, OldType
    <2>2. disk # None => Extends(cli', spoilt', disk, data[f])
        BY <1>6, <2>1, OldType DEF TextInv, FileText
    <2>3. pending # None => Extends(cli', spoilt', data[f], pending)
        BY <1>6, <2>1, OldType DEF TextInv, FileText
    <2> QED
        BY <1>1, <2>1, <2>2, <2>3 DEF TextInv, FileText
<1>11. FileText'
    <2>1. \A o \in Old' : Dated(edits', o)
        BY <1>2, <1>3 DEF TextInv, FileText
    <2>2. disk' # None /\ disk'.sdk => disk'.body = 0
        BY <1>1 DEF TextInv, FileText
    <2> QED
        BY <1>7, <1>8, <1>9, <1>10, <2>1, <2>2 DEF FileText
<1>12. ASSUME NEW h \in Snapshot, Kept(h), h.root = r => h.cut \in spoilt'
       PROVE  Kept(h)'
    <2>1. Dated(edits', h)
        BY <1>3, <1>12 DEF Kept
    <2>2. \A o \in Old' : Extends(cli', spoilt', o, h)
        BY <1>2, <1>5, <1>12, OldType DEF Kept
    <2>3. h.cut \notin spoilt' => cli'[h.root] <= h.body
        <3>1. h.cut \in Nat /\ h.root \in Roots
            BY Fields
        <3> QED
            BY <1>12, <3>1 DEF Kept
    <2> QED
        BY <2>1, <2>2, <2>3 DEF Kept
<1> QED
    BY <1>11, <1>12

\* Whatever names the CLI transcript of the session or of its file stands after
\* the same truncation.
LEMMA RootMeansCut ==
    ASSUME TypeOK, TextInv, NEW s \in {managed, disk} \ {None}
    PROVE  /\ \A o \in Old : o.root = s.root => o.cut = s.cut
           /\ managed # None /\ managed.root = s.root => managed.cut = s.cut
<1>1. CASE s = disk
    <2>1. ASSUME NEW o \in Old
          PROVE  o = disk \/ Extends(cli, spoilt, disk, o)
        BY <1>1, <2>1 DEF Old, TextInv, FileText
    <2>2. managed # None => managed.cut = disk.cut \/ Extends(cli, spoilt, disk, managed)
        BY <1>1, OldType DEF TextInv, ManagedText, Kept
    <2> QED
        BY <1>1, <2>1, <2>2 DEF Extends
<1>2. CASE s = managed
    <2>1. CASE loaded
        BY <1>2, <2>1 DEF TextInv, ManagedText, Kept, Extends
    <2>2. CASE ~loaded
        BY <1>2, <2>2, ColdOld DEF TextInv, ManagedText
    <2> QED
        BY <2>1, <2>2
<1> QED
    BY <1>1, <1>2

LEMMA TextAside ==
    ASSUME TypeOK, TypeOK', TextInv, Aside
    PROVE  TextInv'
<1>1. UNCHANGED <<queueVars, fileVars, edits>>
    BY AsideFacts DEF countVars
<1>2. cli \in [Roots -> Nat] /\ \A q \in Roots : cli[q] \in Nat /\ 0 <= cli[q]
    BY DEF TypeOK
<1>3. CASE RemoveSdkSession
    <2>1. /\ managed # None /\ managed' = Hydrated /\ loaded' = TRUE
          /\ cli' = [cli EXCEPT ![managed.root] = 0] /\ spoilt' = spoilt \cup {managed.cut}
        BY <1>3 DEF RemoveSdkSession
    <2>2. Hydrated \in Snapshot /\ Kept(Hydrated)
          /\ Hydrated.cut = managed.cut /\ Hydrated.root = managed.root
        BY <2>1, HydratedKept
    <2>3. \A o \in Old : o.root = managed.root => o.cut \in spoilt'
        BY <2>1, RootMeansCut
    <2>4. \A q \in Roots : cli'[q] <= cli[q] /\ (q # managed.root => cli'[q] = cli[q])
        BY <1>2, <2>1
    <2>5. /\ FileText'
          /\ \A h \in Snapshot :
               Kept(h) /\ (h.root = managed.root => h.cut \in spoilt') => Kept(h)'
        BY <1>1, <2>1, <2>3, <2>4, TextLower
    <2>6. Kept(managed)'
        BY <2>1, <2>2, <2>5 DEF Kept
    <2> QED
        BY <2>1, <2>5, <2>6 DEF TextInv, ManagedText
<1>4. CASE Load
    <2>1. managed # None /\ ~loaded /\ loaded' = TRUE /\ UNCHANGED cli
        BY <1>4 DEF Load
    <2>2. managed \in Snapshot
        BY <2>1 DEF TypeOK
    <2>3. CASE managed' = Hydrated /\ UNCHANGED spoilt
        <3>1. Hydrated \in Snapshot /\ Kept(Hydrated)
            BY <2>1, HydratedKept
        <3>2. \A o \in Old : o.root # -1
            BY OldType, Fields
        <3>3. /\ FileText'
              /\ \A h \in Snapshot : Kept(h) /\ (h.root = -1 => h.cut \in spoilt') => Kept(h)'
            BY <1>1, <1>2, <2>1, <2>3, <3>2, TextLower
        <3>4. Hydrated.root # -1
            BY <3>1, Fields
        <3>5. Kept(managed)'
            BY <2>3, <3>1, <3>3, <3>4 DEF Kept
        <3> QED
            BY <2>1, <3>3, <3>5 DEF TextInv, ManagedText
    <2>4. CASE managed' = [managed EXCEPT !.body = 0] /\ spoilt' = spoilt \cup {managed.cut}
        <3>1. /\ disk # None /\ Old = {disk} /\ managed.cut = disk.cut
              /\ managed.root = disk.root /\ managed.sdk = disk.sdk
            BY <2>1, ColdOld DEF TextInv, ManagedText
        <3>2. \A o \in Old : o.root = managed.root => o.cut \in spoilt'
            BY <2>4, <3>1
        <3>3. FileText'
            <4>1. spoilt \subseteq spoilt' /\ managed # None
                BY <2>1, <2>4
            <4>2. \A q \in Roots : cli'[q] <= cli[q] /\ (q # managed.root => cli'[q] = cli[q])
                BY <1>2, <2>1
            <4> QED
                BY <1>1, <3>2, <4>1, <4>2, TextLower
        <3>4. /\ managed'.cut = disk.cut /\ managed'.root = disk.root /\ managed'.sdk = disk.sdk
              /\ managed'.cut \in spoilt'
            BY <2>2, <2>4, <3>1 DEF Snapshot
        <3>5. disk \in Old /\ disk \in Snapshot /\ Dated(edits, disk)
            BY <3>1, OldType DEF TextInv, FileText
        <3>6. Dated(edits', managed')
            BY <1>1, <3>4, <3>5 DEF Dated
        <3>7. Old' = {disk}
            BY <1>1, <3>1 DEF Old, Writing, queueVars, fileVars
        <3>8. Extends(cli', spoilt', disk, managed')
            BY <3>4, <3>5, Fields DEF Extends
        <3>9. Kept(managed)'
            BY <3>4, <3>6, <3>7, <3>8 DEF Kept
        <3> QED
            BY <2>1, <3>3, <3>9 DEF TextInv, ManagedText
    <2> QED
        BY <1>4, <2>3, <2>4 DEF Load
<1>5. CASE CliLost
    <2>1. PICK s \in {managed, disk} \ {None} :
              cli' = [cli EXCEPT ![s.root] = 0] /\ spoilt' = spoilt \cup {s.cut}
        BY <1>5 DEF CliLost
    <2>2. UNCHANGED <<managed, loaded>>
        BY <1>5 DEF CliLost
    <2>3. \A o \in Old : o.root = s.root => o.cut \in spoilt'
        BY <2>1, RootMeansCut
    <2>4. \A q \in Roots : cli'[q] <= cli[q] /\ (q # s.root => cli'[q] = cli[q])
        BY <1>2, <2>1
    <2>5. /\ FileText'
          /\ \A h \in Snapshot : Kept(h) /\ (h.root = s.root => h.cut \in spoilt') => Kept(h)'
        BY <1>1, <2>1, <2>2, <2>3, <2>4, TextLower
    <2>6. managed # None /\ loaded => Kept(managed)'
        <3>1. managed # None => managed \in Snapshot
            BY DEF TypeOK
        <3>2. managed # None /\ managed.root = s.root => managed.cut \in spoilt'
            BY <2>1, RootMeansCut
        <3> QED
            BY <2>2, <2>5, <3>1, <3>2 DEF TextInv, ManagedText, Kept
    <2>7. ~disk.sdk /\ disk # None /\ cli[disk.root] <= disk.body => cli'[disk.root] <= disk.body
        <3>1. disk # None => disk.root \in Roots /\ disk.body \in Nat
            BY Fields DEF TypeOK
        <3> QED
            BY <2>4, <3>1, <1>2, OldType DEF TypeOK
    <2>8. UNCHANGED <<disk, pending>> /\ \A f \in Flushes : Writing(f)' <=> Writing(f)
        BY <1>1 DEF queueVars, fileVars, Writing
    <2> QED
        BY <2>2, <2>5, <2>6, <2>7, <2>8 DEF TextInv, ManagedText
<1> QED
    BY <1>3, <1>4, <1>5 DEF Aside

\* The file is replaced by what was written of data[f].
LEMMA ExtendsWritten ==
    ASSUME NEW c, NEW x, NEW s \in Snapshot, NEW t, Extends(c, x, s, t)
    PROVE  Extends(c, x, Written(s), t)
BY WrittenText DEF Extends

LEMMA TextRename ==
    ASSUME TypeOK, ChainInv, TextInv, NEW f \in Flushes, Rename(f)
    PROVE  TextInv'
<1>1. /\ UNCHANGED <<managed, loaded, pending, edits, cli, spoilt>> /\ disk' = tmp /\ tmp # None
      /\ Writing(f) /\ pc[f] = "renaming" /\ Settle(f)
    BY DEF Rename, countVars, cliVars, Writing
<1>2. \A g \in Flushes : ~Writing(g)'
    BY <1>1, SettleWrites, ChainMeansOneWriter DEF OneWriter
<1>3. disk' = Written(data[f]) /\ data[f] \in Old /\ data[f] \in Snapshot
    BY <1>1, OldType DEF TextInv, FileText
<1>4. /\ Old' = {s \in {disk', pending} : s # None}
      /\ \A o \in Old' : o = disk' \/ (o = pending /\ o \in Old)
    BY <1>1, <1>2, OldType DEF Old
<1>5. /\ disk'.cut = data[f].cut /\ disk'.root = data[f].root /\ disk'.sdk = data[f].sdk
      /\ disk'.sdk => disk'.body = 0
    BY <1>3, WrittenText
<1>6. \A t \in Snapshot : Extends(cli, spoilt, data[f], t) => Extends(cli, spoilt, disk', t)
    BY <1>3, ExtendsWritten
<1>7. \A o \in Old' : Dated(edits, o)
    BY <1>3, <1>4, <1>5 DEF TextInv, FileText, Dated
<1>8. pending # None => Extends(cli, spoilt, disk', pending)
    <2>1. pending # None => pending \in Snapshot /\ Extends(cli, spoilt, data[f], pending)
        BY <1>1 DEF TextInv, FileText, TypeOK
    <2> QED
        BY <1>6, <2>1
<1>9. edits # 0
    BY <1>3 DEF TextInv, FileText
<1>10. managed # None => loaded /\ Kept(managed)
    BY <1>1 DEF TextInv, ManagedText
<1>11. managed # None => Kept(managed)'
    <2>1. managed # None => managed \in Snapshot
        BY DEF TypeOK
    <2>2. managed # None => \A o \in Old' : Extends(cli, spoilt, o, managed)
        BY <1>3, <1>4, <1>6, <1>10, <2>1 DEF Kept
    <2> QED
        BY <1>1, <1>10, <2>2 DEF Kept
<1> QED
    BY <1>1, <1>2, <1>5, <1>7, <1>8, <1>9, <1>10, <1>11 DEF TextInv, FileText, ManagedText

\* What is queued goes on its way.
LEMMA TextTake ==
    ASSUME TypeOK, ChainInv, TextInv, NEW f \in Flushes, Take(f), pending # None
    PROVE  TextInv'
<1>1. /\ UNCHANGED <<managed, loaded, disk, tmp, edits, cli, spoilt>>
      /\ pending' = None /\ pc[f] = "chained" /\ prior[f] = None
      /\ data' = [data EXCEPT ![f] = pending] /\ pc' = [pc EXCEPT ![f] = "making"]
    BY DEF Take, fileVars, countVars, cliVars
<1>2. \A g \in Flushes : ~Writing(g)
    <2>1. f \in Busy
        BY <1>1 DEF Busy
    <2>2. \A g \in Flushes : Writing(g) => g \in Busy /\ prior[g] = None
        BY DEF ChainInv, Writing, Busy
    <2> QED
        BY <1>1, <2>1, <2>2 DEF ChainInv, Writing
<1>3. \A g \in Flushes : Writing(g)' => g = f
    BY <1>1, <1>2 DEF Writing, TypeOK
<1>4. data'[f] = pending /\ pc'[f] = "making"
    BY <1>1 DEF TypeOK
<1>5. pending \in Old /\ (disk # None => disk \in Old)
    BY OldType
<1>6. \A o \in Old' : o \in Old
    BY <1>1, <1>3, <1>4, <1>5 DEF Old
<1>7. managed # None => loaded /\ Kept(managed)
    BY DEF TextInv, ManagedText
<1>8. managed # None => Kept(managed)'
    BY <1>1, <1>6, <1>7 DEF Kept
<1>9. edits # 0
    BY <1>5 DEF TextInv, FileText
<1>10. ASSUME NEW g \in Flushes, Writing(g)'
       PROVE  /\ disk # None => Extends(cli, spoilt, disk, data'[g])
              /\ pc'[g] # "renaming"
    BY <1>3, <1>4, <1>10 DEF TextInv, FileText
<1> QED
    BY <1>1, <1>6, <1>7, <1>8, <1>9, <1>10 DEF TextInv, FileText, ManagedText

LEMMA TextCrash ==
    ASSUME TypeOK, TypeOK', TextInv, Crash
    PROVE  TextInv'
<1>1. \A f \in Flushes : ~Writing(f)'
    BY DEF Crash, Writing
<1>2. UNCHANGED <<disk, tmp, edits, spoilt>> /\ pending' = None /\ loaded' = FALSE
    BY DEF Crash, fileVars
<1>3. /\ managed' # None => disk # None
      /\ disk # None => managed'.cut = disk.cut /\ managed'.root = disk.root /\ managed'.sdk = disk.sdk
    BY DEF Crash, TypeOK, Snapshot
<1>4. disk # None => disk \in Old /\ disk.root \in Roots /\ disk.body \in Nat
    BY OldType, Fields
<1>5. \A o \in Old' : o = disk /\ o \in Old
    BY <1>1, <1>2, <1>4 DEF Old
<1>6. \A q \in Roots : cli'[q] \in Nat /\ cli[q] \in Nat /\ edits \in Nat
    BY DEF TypeOK
<1>7. /\ \A q \in Roots : cli'[q] <= cli[q]
      /\ disk = None => cli' = cli
      /\ disk # None /\ ~disk.sdk => cli'[disk.root] <= disk.body
    <2>1. CASE disk # None /\ ~disk.sdk /\ cli[disk.root] > disk.body
        <3>1. cli' = [cli EXCEPT ![disk.root] = disk.body]
            BY <2>1 DEF Crash
        <3> QED
            BY <2>1, <3>1, <1>4, <1>6 DEF TypeOK
    <2>2. CASE ~(disk # None /\ ~disk.sdk /\ cli[disk.root] > disk.body)
        <3>1. cli' = cli
            BY <2>2 DEF Crash
        <3> QED
            BY <2>2, <3>1, <1>4, <1>6
    <2> QED
        BY <2>1, <2>2
<1>8. \A q \in Roots : cli'[q] > 0 => q <= edits
    BY <1>6, <1>7 DEF TextInv, FileText
<1>9. edits = 0 => disk = None /\ cli'[0] = 0
    BY <1>4, <1>7 DEF TextInv, FileText
<1> QED
    BY <1>1, <1>2, <1>3, <1>4, <1>5, <1>7, <1>8, <1>9 DEF TextInv, FileText, ManagedText

LEMMA TextStep ==
    ASSUME TypeOK, TypeOK', ChainInv, TextInv, [Next]_vars
    PROVE  TextInv'
<1>0. edits \in Nat
    BY DEF TypeOK
<1>1. CASE Changing
    BY <1>1, TextChange
<1>2. CASE Aside
    BY <1>2, TextAside
<1>3. CASE ColdReadFails
    <2>1. /\ UNCHANGED <<pc, data, pending, disk, tmp, loaded, cli, spoilt>> /\ edits <= edits'
          /\ managed # None
        BY <1>0, <1>3, ColdReadType DEF ColdReadFails, queueVars, fileVars, cliVars
    <2>2. Same(managed', managed)
        <3>1. managed \in Snapshot
            BY <1>3, ColdReadType
        <3>2. managed' = [managed EXCEPT !.rev = edits + 1, !.title = edits + 1]
            BY <1>3 DEF ColdReadFails
        <3> QED
            BY <3>1, <3>2 DEF Same, Snapshot
    <2> QED
        BY <2>1, <2>2, TextSame DEF Writing, Same
<1>4. CASE Delete
    <2>1. UNCHANGED <<managed, loaded, pc, data, disk, tmp, edits, cli, spoilt>> /\ pending' = None
        BY <1>4 DEF Delete, fileVars, countVars, cliVars
    <2> QED
        BY <1>0, <2>1, TextSame DEF Writing, Same
<1>5. CASE Removed
    <2>1. UNCHANGED <<pc, data, pending, edits, cli, spoilt>> /\ managed' = None
        BY <1>5 DEF Removed, queueVars
    <2>2. (disk' = disk \/ disk' = None) /\ (tmp' = tmp \/ tmp' = None)
        BY <1>5 DEF Removed, fileVars
    <2> QED
        BY <1>0, <2>1, <2>2, TextSame DEF Writing, Same
<1>6. CASE ExternalEdit
    <2>1. /\ UNCHANGED <<managed, loaded, pc, data, pending, tmp, cli, spoilt>>
          /\ edits' = edits + 1 /\ disk # None
        BY <1>6 DEF ExternalEdit, queueVars, cliVars
    <2>2. disk \in Snapshot /\ disk' = [disk EXCEPT !.title = edits + 1]
        BY <1>6, <2>1 DEF ExternalEdit, TypeOK
    <2>3. Same(disk', disk) /\ disk' \in Snapshot
        BY <1>0, <2>2 DEF Snapshot, Same
    <2>4. disk' # None
        BY <2>3, NoneIsNoSnapshot
    <2> QED
        BY <1>0, <2>1, <2>3, <2>4, TextSame DEF Writing, Same
<1>7. CASE Crash
    BY <1>7, TextCrash
<1>8. ASSUME NEW f \in Flushes, FlushNow(f) \/ Timer(f)
      PROVE  TextInv'
    <2>1. /\ UNCHANGED <<managed, loaded, data, pending, disk, tmp, edits, cli, spoilt>>
          /\ Flush(f, Rev(managed))
        BY <1>8 DEF FlushNow, Timer, fileVars, countVars, cliVars
    <2> QED
        BY <1>0, <2>1, FlushWrites, TextSame DEF Same
<1>9. ASSUME NEW f \in Flushes, Take(f)
      PROVE  TextInv'
    <2>1. UNCHANGED <<managed, loaded, disk, tmp, edits, cli, spoilt>>
        BY <1>9 DEF Take, fileVars, countVars, cliVars
    <2>2. CASE pending = None
        <3>1. Settle(f) /\ pending' = pending
            BY <1>9, <2>2 DEF Take
        <3> QED
            BY <1>0, <2>1, <3>1, SettleWrites, TextSame DEF Same
    <2> QED
        BY <1>9, <2>2, TextTake
<1>10. ASSUME NEW f \in Flushes, Prepare(f)
       PROVE  TextInv'
    <2>1. UNCHANGED <<managed, loaded, pending, disk, tmp, edits, cli, spoilt>> /\ Writing(f)
        BY <1>10 DEF Prepare, countVars, cliVars, Writing
    <2>2. data[f] \in Snapshot /\ data' = [data EXCEPT ![f] = Merged(data[f])]
        BY <1>10, <2>1 DEF Prepare, TypeOK
    <2>3. Same(data'[f], data[f])
        BY <2>2, MergedText DEF TypeOK
    <2>4. \A g \in Flushes : Writing(g)' => Writing(g) /\ Same(data'[g], data[g])
        BY <1>10, <2>2, <2>3 DEF Prepare, TypeOK, Writing, Same
    <2>5. \A g \in Flushes : pc'[g] = "renaming" => pc[g] = "renaming" /\ data'[g] = data[g]
        BY <1>10, <2>2 DEF Prepare, TypeOK
    <2> QED
        BY <1>0, <2>1, <2>4, <2>5, TextSame DEF Same
<1>11. ASSUME NEW f \in Flushes, WriteTmp(f)
       PROVE  TextInv'
    <2>1. /\ UNCHANGED <<managed, loaded, pending, disk, data, edits, cli, spoilt>>
          /\ tmp' = Written(data[f]) /\ Writing(f)
        BY <1>11 DEF WriteTmp, countVars, cliVars, Writing
    <2>2. \A g \in Flushes : Writing(g)' <=> Writing(g)
        BY <1>11 DEF WriteTmp, TypeOK, Writing
    <2>3. \A g \in Flushes : Writing(g) => g = f
        BY <2>1, ChainMeansOneWriter DEF OneWriter
    <2>4. \A g \in Flushes : Writing(g)' => tmp' = Written(data'[g])
        BY <2>1, <2>2, <2>3
    <2>5. Old' = Old
        BY <2>1, <2>2 DEF Old
    <2>6. managed # None /\ loaded => Kept(managed)'
        BY <2>1, <2>5 DEF TextInv, ManagedText, Kept
    <2> QED
        BY <2>1, <2>2, <2>4, <2>5, <2>6 DEF TextInv, FileText, ManagedText
<1>12. ASSUME NEW f \in Flushes, Rename(f)
       PROVE  TextInv'
    BY <1>12, TextRename
<1>13. ASSUME NEW f \in Flushes, Fail(f)
       PROVE  TextInv'
    <2>1. UNCHANGED <<managed, loaded, pending, disk, tmp, edits, cli, spoilt>> /\ Settle(f)
        BY <1>13 DEF Fail, fileVars, cliVars
    <2> QED
        BY <1>0, <2>1, SettleWrites, TextSame DEF Same
<1>14. CASE UNCHANGED vars
    <2>1. UNCHANGED <<managed, loaded, pending, pc, data, disk, tmp, edits, cli, spoilt>>
        BY <1>14 DEF vars, queueVars, fileVars, countVars, cliVars
    <2> QED
        BY <1>0, <2>1, TextSame DEF Writing, Same
<1> QED
    BY <1>1, <1>2, <1>3, <1>4, <1>5, <1>6, <1>7, <1>8, <1>9, <1>10, <1>11, <1>12, <1>13, <1>14
       DEF Next, Write, Changing, Aside

\* What a load of the file would give gets less by a truncation, or after a loss.
LEMMA TextKeeps ==
    ASSUME TypeOK, TypeOK', ChainInv, TextInv, [Next]_vars, disk # None, disk' # None,
           Holds(cli', disk') < Holds(cli, disk)
    PROVE  disk'.cut > disk.cut \/ disk.cut \in spoilt'
<1>1. disk \in Snapshot /\ disk' \in Snapshot /\ disk \in Old
    BY OldType DEF TypeOK
<1>2. cli \in [Roots -> Nat] /\ cli' \in [Roots -> Nat] /\ edits \in Nat
    BY DEF TypeOK
<1>3. Holds(cli, disk) \in Nat /\ Holds(cli', disk') \in Nat
    BY <1>1, <1>2, HoldsType
<1>4. ASSUME disk' = disk, \A q \in Roots : cli[q] <= cli'[q]
      PROVE  FALSE
    BY <1>1, <1>2, <1>3, <1>4, Fields DEF Holds
<1>5. ASSUME disk' = disk, cli' = cli
      PROVE  FALSE
    BY <1>3, <1>5
<1>6. CASE Changing
    <2>1. disk' = disk
        BY <1>6, ChangeSteps DEF Change, Persist, fileVars
    <2>2. cli' = cli \/ (managed # None /\ cli' = [cli EXCEPT ![managed.root] = @ + 1])
        BY <1>6, ChangeCases
    <2>3. \A q \in Roots : cli[q] <= cli'[q]
        BY <1>2, <2>2
    <2> QED
        BY <1>4, <2>1, <2>3
<1>7. CASE RemoveSdkSession \/ CliLost
    <2>1. PICK s \in {managed, disk} \ {None} :
              cli' = [cli EXCEPT ![s.root] = 0] /\ spoilt' = spoilt \cup {s.cut}
        BY <1>7 DEF RemoveSdkSession, CliLost
    <2>2. disk' = disk
        BY <1>7 DEF RemoveSdkSession, CliLost, fileVars
    <2>3. disk.root = s.root
        BY <1>1, <1>2, <1>3, <2>1, <2>2, Fields DEF Holds
    <2> QED
        BY <1>1, <2>1, <2>3, RootMeansCut
<1>8. CASE Load \/ ColdReadFails \/ Delete
    BY <1>5, <1>8 DEF Load, ColdReadFails, Delete, fileVars, cliVars
<1>9. CASE Removed
    BY <1>5, <1>9 DEF Removed, fileVars
<1>10. CASE ExternalEdit
    <2>1. cli' = cli /\ disk' = [disk EXCEPT !.title = edits + 1]
        BY <1>10 DEF ExternalEdit, cliVars
    <2>2. Holds(cli', disk') = Holds(cli, disk)
        BY <1>1, <2>1 DEF Holds, Snapshot
    <2> QED
        BY <1>3, <2>2
<1>11. CASE Crash
    <2>1. disk' = disk /\ (cli' = cli \/ ~disk.sdk)
        BY <1>11 DEF Crash, fileVars
    <2>2. Holds(cli', disk') = Holds(cli, disk)
        BY <2>1 DEF Holds
    <2> QED
        BY <1>3, <2>2
<1>12. ASSUME NEW f \in Flushes,
              FlushNow(f) \/ Timer(f) \/ Take(f) \/ Prepare(f) \/ WriteTmp(f) \/ Fail(f)
       PROVE  FALSE
    BY <1>5, <1>12 DEF FlushNow, Timer, Take, Prepare, WriteTmp, Fail, fileVars, cliVars
<1>13. ASSUME NEW f \in Flushes, Rename(f)
       PROVE  disk'.cut > disk.cut \/ disk.cut \in spoilt'
    <2>1. /\ UNCHANGED <<cli, spoilt>> /\ disk' = tmp /\ tmp # None
          /\ Writing(f) /\ pc[f] = "renaming"
        BY <1>13 DEF Rename, cliVars, Writing
    <2>2. disk' = Written(data[f]) /\ data[f] \in Snapshot /\ Extends(cli, spoilt, disk, data[f])
        BY <2>1, OldType DEF TextInv, FileText
    <2>3. Extends(cli, spoilt, disk, data[f]) /\ Holds(cli, disk') = Holds(cli, data[f])
          /\ disk'.cut = data[f].cut
        BY <2>2, WrittenText
    <2>4. disk.cut \in Nat /\ data[f].cut \in Nat
        BY <1>1, <2>2, Fields
    <2> QED
        BY <1>3, <2>1, <2>3, <2>4 DEF Extends
<1>14. CASE UNCHANGED vars
    BY <1>5, <1>14 DEF vars, fileVars, cliVars
<1> QED
    BY <1>6, <1>7, <1>8, <1>9, <1>10, <1>11, <1>12, <1>13, <1>14 DEF Next, Write, Changing

\* What a load of the file gives shrinks by a truncation only, unless a CLI
\* transcript was removed or not read since the last one: what was cut or never
\* read into memory is not written over what a later change added, and a file
\* becomes a pointer only when the CLI transcript it names holds as much.
THEOREM TranscriptIsKept == Spec => TranscriptKept
<1>1. QueueInv /\ TextInv /\ [Next]_vars => TextInv'
    BY QueueInvStep, TextStep DEF QueueInv
<1>2. ASSUME QueueInv, QueueInv', TextInv, TextInv', [Next]_vars
      PROVE  [disk # None /\ disk' # None /\ Stored(disk)' < Stored(disk)
                => disk'.cut > disk.cut \/ disk.cut \in spoilt']_vars
    <2> SUFFICES ASSUME disk # None, disk' # None, Stored(disk)' < Stored(disk)
                 PROVE  disk'.cut > disk.cut \/ disk.cut \in spoilt'
        OBVIOUS
    <2>1. TypeOK /\ TypeOK' /\ ChainInv
        BY <1>2 DEF QueueInv
    <2>2. Stored(disk) = Holds(cli, disk)
        BY <1>2, <2>1, StoredText DEF TextInv
    <2>3. Stored(disk)' = Holds(cli', disk')
        <3>1. disk' \in Snapshot
            BY <2>1 DEF TypeOK
        <3>2. cli'[disk'.root] \in Nat /\ disk'.sdk \in BOOLEAN
            BY <2>1, <3>1, Fields DEF TypeOK
        <3>3. disk'.sdk => disk'.body = 0
            BY <1>2 DEF TextInv, FileText
        <3> QED
            BY <3>1, <3>2, <3>3 DEF Stored, FromCli, Holds
    <2> QED
        BY <1>2, <2>1, <2>2, <2>3, TextKeeps
<1> QED
    BY <1>1, <1>2, TextInit, QueueInvHolds, PTL DEF Spec, TranscriptKept

=============================================================================
