---------------------------- MODULE TaskRuns_proofs ----------------------------
(***************************************************************************)
(* What the engine promises about the runs it starts, for every workflow,  *)
(* cap and number of requests and crashes, under the hypotheses about      *)
(* requests and loop-backs that TaskEngine_proofs introduces.              *)
(*                                                                         *)
(* On RunsInv rest the other invariants, one after the other: VersionsOK   *)
(* (a version names one run), LoopsOK (a gate comes to its next verdict    *)
(* only when the run it has asked for is in the log), SeenOK (what a loop  *)
(* has seen of the budget and the branches still holds when it             *)
(* dispatches), DoneOK (nothing in flight is about to undo a completed     *)
(* phase), FreshOK (a phase that is completed says so in its last run, and *)
(* a run in flight has read the last run of everything upstream) and       *)
(* RestInv (what is not settled has something to do that will settle it).  *)
(***************************************************************************)
EXTENDS TaskEngine_proofs

\* Versions.

\* All runs of n in the run lists R are older than v.
Above(R, n, v) == \A i \in 1..Len(R[n]) : R[n][i].ver < v

Growing(R) == \A n \in Nodes : \A i, j \in 1..Len(R[n]) : i < j => R[n][i].ver < R[n][j].ver

\* A run that is dispatched and not folded yet is newer than the folded ones.
Dispatched(a) == a.k \in {"run1", "run2"}
VersionsOK ==
    /\ Growing(runs)
    /\ \A a \in SeqRange(q) : Dispatched(a) => Above(runs, a.n, a.v)

\* The same runs in the same versions, whatever has become of them.
SameVersions(R, S) ==
    \A n \in Nodes :
        /\ Len(S[n]) = Len(R[n])
        /\ \A i \in 1..Len(R[n]) : S[n][i].ver = R[n][i].ver /\ S[n][i].auto = R[n][i].auto

LEMMA StatusOnly ==
    ASSUME Inv, NEW n, NEW v, NEW s
    PROVE  SameVersions(runs, RunsWith(n, v, s))
<1> DEFINE F == [i \in 1..Len(runs[n]) |->
                    IF runs[n][i].ver = v /\ \A j \in 1..(i - 1) : runs[n][j].ver # v
                    THEN [runs[n][i] EXCEPT !.st = s]
                    ELSE runs[n][i]]
<1>1. runs \in [Nodes -> Seq(RunRec)]
    BY DEF Inv, LogOK
<1>2. CASE alive /\ n \in Nodes
    <2>1. RunsWith(n, v, s) = [runs EXCEPT ![n] = F]
        BY <1>2 DEF RunsWith
    <2>2. runs[n] \in Seq(RunRec) /\ Len(runs[n]) \in Nat
        BY <1>1, <1>2, LenProperties
    <2>3. \A i \in 1..Len(runs[n]) : runs[n][i] \in RunRec
        BY <2>2, ElementOfSeq
    <2>4. \A i \in 1..Len(runs[n]) : F[i].ver = runs[n][i].ver /\ F[i].auto = runs[n][i].auto
        BY <2>3 DEF RunRec
    <2>5. Len(F) = Len(runs[n])
        <3>1. DOMAIN F = 1..Len(runs[n])
            OBVIOUS
        <3> DEFINE S == {F[i] : i \in 1..Len(runs[n])}
        <3>2. F \in [1..Len(runs[n]) -> S]
            OBVIOUS
        <3> HIDE DEF F, S
        <3>3. F \in Seq(S)
            BY <2>2, <3>2
        <3> QED
            BY <2>2, <3>1, <3>3, LenProperties
    <2> HIDE DEF F
    <2>6. \A m \in Nodes : m # n => [runs EXCEPT ![n] = F][m] = runs[m]
        BY <1>1
    <2>7. [runs EXCEPT ![n] = F][n] = F
        BY <1>1, <1>2
    <2> QED
        BY <2>1, <2>4, <2>5, <2>6, <2>7 DEF SameVersions
<1>3. CASE ~alive
    BY <1>3 DEF RunsWith, SameVersions
<1>4. CASE n \notin Nodes
    <2>1. alive => RunsWith(n, v, s) = [runs EXCEPT ![n] = F]
        BY DEF RunsWith
    <2> HIDE DEF F
    <2>2. [runs EXCEPT ![n] = F] = runs
        BY <1>1, <1>4
    <2>3. RunsWith(n, v, s) = runs
        BY <2>1, <2>2 DEF RunsWith
    <2> QED
        BY <2>3 DEF SameVersions
<1> QED
    BY <1>2, <1>3, <1>4

\* A step that starts no run in the log, and dispatches nothing too old.
LEMMA VersionsKept ==
    ASSUME Inv, VersionsOK, SameVersions(runs, runs'),
           \A a \in SeqRange(q') : Dispatched(a) =>
               a.n \in Nodes /\ Above(runs, a.n, a.v)
    PROVE  VersionsOK'
BY DEF VersionsOK, SameVersions, Growing, Above

\* What is in the queue is what was, or is not a dispatch.
LEMMA VersionsQueue ==
    ASSUME Inv, VersionsOK, SameVersions(runs, runs'),
           \A a \in SeqRange(q') : Dispatched(a) => a \in SeqRange(q)
    PROVE  VersionsOK'
<1>1. \A a \in SeqRange(q) : Dispatched(a) => a.n \in Nodes /\ Above(runs, a.n, a.v)
    <2>1. \A a \in SeqRange(q) : Dispatched(a) => a.n \in Nodes
        BY Types, OfNode DEF Dispatched, TaskKinds
    <2> QED
        BY <2>1 DEF VersionsOK
<1> QED
    BY <1>1, VersionsKept

\* The run that is folded is the newest of its node.
LEMMA VersionsRun ==
    ASSUME Inv, RunsInv, VersionsOK, RunStarted
    PROVE  VersionsOK'
<1> DEFINE a == Head(q)
           e == [ver |-> a.v, st |-> "running", auto |-> a.auto]
<1>0. At("run2") /\ "run2" \in RunKinds
    BY DEF RunStarted, RunKinds
<1>1. /\ a \in Act /\ a.n \in Nodes /\ Dispatched(a) /\ a \in SeqRange(q) /\ a.v \in Nat
      /\ q \in Seq(Act) /\ Held(q, working, Taken)
      /\ Held(Tail(q), working, Taken \ {a.n}) /\ SeqRange(Tail(q)) \subseteq SeqRange(q)
      /\ Tail(q) \in Seq(Act)
    <2>1. a \in Act /\ a.n \in Nodes /\ a.k = "run2" /\ a \in SeqRange(q)
        BY <1>0, HeadFacts
    <2>2. a.v \in Nat
        BY <2>1 DEF Act, ActRec
    <2> QED
        BY <1>0, <2>1, <2>2, HeadFacts, HeldLeave DEF Dispatched
<1>2. q' = Tail(q) /\ runs' = IF alive THEN [runs EXCEPT ![a.n] = Append(@, e)] ELSE runs
    BY DEF RunStarted
<1>3. /\ \A b \in SeqRange(Tail(q)) : Dispatched(b) => b \in SeqRange(q) /\ b.n \in Nodes /\ b.n # a.n
    <2>1. \A i \in 1..Len(Tail(q)) : Slotted(Tail(q)[i]) => Slot(Tail(q)[i]) # a.n
        BY <1>1 DEF Held
    <2>2. \A b \in SeqRange(Tail(q)) : Slotted(b) => Slot(b) # a.n
        BY <2>1 DEF SeqRange
    <2>3. \A b \in SeqRange(Tail(q)) : Dispatched(b) => Slotted(b) /\ Slot(b) = b.n
        BY DEF Dispatched, Slotted, Slot, SlotKinds, Reruns, RunKinds
    <2>4. \A b \in SeqRange(Tail(q)) : Dispatched(b) => b \in Act /\ b.k \notin TaskKinds
        BY <1>1, Types DEF Dispatched, TaskKinds
    <2> QED
        BY <1>1, <2>2, <2>3, <2>4, OfNode
<1>4. CASE ~alive
    <2>1. SameVersions(runs, runs')
        BY <1>2, <1>4 DEF SameVersions
    <2> QED
        BY <1>2, <1>3, <2>1, VersionsQueue
<1>5. CASE alive
    <2> DEFINE s == runs[a.n]
               t == Append(s, e)
    <2>1. runs \in [Nodes -> Seq(RunRec)] /\ s \in Seq(RunRec) /\ Len(s) \in Nat
        BY <1>1, LenProperties DEF Inv, LogOK
    <2>2. /\ runs'[a.n] = t
          /\ \A m \in Nodes : m # a.n => runs'[m] = runs[m]
        BY <1>1, <1>2, <1>5, <2>1
    <2>3. e \in RunRec /\ e.ver = a.v
        <3>1. a.auto \in BOOLEAN
            BY <1>1 DEF Act, ActRec
        <3> QED
            BY <1>1, <3>1 DEF RunRec, RunStatus
    <2> HIDE DEF e
    <2>4. /\ Len(t) = Len(s) + 1 /\ t[Len(s) + 1] = e
          /\ \A i \in 1..Len(s) : t[i] = s[i]
        BY <2>1, <2>3, AppendProperties
    <2> HIDE DEF t
    <2>5. \A i \in 1..Len(s) : s[i].ver < a.v
        BY <1>1 DEF VersionsOK, Above
    <2>6. \A i, j \in 1..Len(t) : i < j => t[i].ver < t[j].ver
        <3>1. \A i, j \in 1..Len(s) : i < j => s[i].ver < s[j].ver
            BY <1>1 DEF VersionsOK, Growing
        <3> HIDE DEF s
        <3> SUFFICES ASSUME NEW i \in 1..Len(t), NEW j \in 1..Len(t), i < j
                     PROVE  t[i].ver < t[j].ver
            OBVIOUS
        <3>2. i \in 1..Len(s)
            BY <2>1, <2>4
        <3>3. CASE j \in 1..Len(s)
            BY <2>4, <3>1, <3>2, <3>3
        <3>4. CASE j = Len(s) + 1
            BY <2>3, <2>4, <2>5, <3>2, <3>4
        <3>5. j \in 1..Len(s) \/ j = Len(s) + 1
            BY <2>1, <2>4
        <3> QED
            BY <3>3, <3>4, <3>5
    <2>7. Growing(runs')
        <3>1. \A m \in Nodes : m # a.n =>
                \A i, j \in 1..Len(runs'[m]) : i < j => runs'[m][i].ver < runs'[m][j].ver
            BY <2>2 DEF VersionsOK, Growing
        <3>2. \A i, j \in 1..Len(runs'[a.n]) : i < j => runs'[a.n][i].ver < runs'[a.n][j].ver
            BY <2>2, <2>6
        <3> QED
            BY <3>1, <3>2 DEF Growing
    <2>8. \A b \in SeqRange(q') : Dispatched(b) => Above(runs', b.n, b.v)
        BY <1>2, <1>3, <2>2 DEF VersionsOK, Above
    <2> QED
        BY <2>7, <2>8 DEF VersionsOK
<1> QED
    BY <1>4, <1>5

\* The run that is dispatched is newer than all others, and keeps its version.
LEMMA VersionsDispatch ==
    ASSUME Inv, RunsInv, VersionsOK, NEW g,
           PhaseRunning \/ (g \in 1..Len(rt) /\ Dispatch(g))
    PROVE  VersionsOK'
<1>0. \A a \in SeqRange(q) : Dispatched(a) => a.n \in Nodes /\ Above(runs, a.n, a.v)
    <2>1. \A a \in SeqRange(q) : Dispatched(a) => a.n \in Nodes
        BY Types, OfNode DEF Dispatched, TaskKinds
    <2> QED
        BY <2>1 DEF VersionsOK
<1>1. CASE PhaseRunning
    <2> DEFINE a == Head(q)
               b == [a EXCEPT !.k = "run2"]
    <2>1. At("run1") /\ q' = Append(Tail(q), b) /\ runs' = runs /\ "run1" \in RunKinds
        BY <1>1 DEF PhaseRunning, Next1, RunKinds
    <2>2. a \in Act /\ a.k = "run1" /\ a \in SeqRange(q)
        BY <2>1, HeadFacts
    <2>3. b.n = a.n /\ b.v = a.v
        BY <2>2 DEF Act, ActRec
    <2> HIDE DEF b
    <2>4. SeqRange(q') \subseteq SeqRange(q) \cup {b}
        BY <2>1, HeadFacts
    <2>5. SameVersions(runs, runs')
        BY <2>1 DEF SameVersions
    <2>6. \A c \in SeqRange(q') : Dispatched(c) => c.n \in Nodes /\ Above(runs, c.n, c.v)
        <3>1. Dispatched(a)
            BY <2>2 DEF Dispatched
        <3> QED
            BY <1>0, <2>2, <2>3, <2>4, <3>1
    <2> QED
        BY <2>5, <2>6, VersionsKept
<1>2. CASE g \in 1..Len(rt) /\ Dispatch(g)
    <2>0. PICK n \in Nodes, v \in Nat : \E b : Starts(g, n, v, b)
        BY <1>2, DispatchIs
    <2>1. PICK b : Starts(g, n, v, b)
        BY <2>0
    <2>2. /\ q' = Append(q, b) /\ b.n = n /\ b.v = v /\ IsNextVersion(n, v) /\ runs' = runs
        BY <2>1 DEF Starts
    <2>3. SeqRange(q') = SeqRange(q) \cup {b}
        BY <2>2, Types, RangeAppend
    <2>4. Above(runs, n, v)
        BY <2>2 DEF IsNextVersion, Indices, Above
    <2>5. SameVersions(runs, runs')
        BY <2>2 DEF SameVersions
    <2>6. \A c \in SeqRange(q') : Dispatched(c) => c.n \in Nodes /\ Above(runs, c.n, c.v)
        BY <1>0, <2>2, <2>3, <2>4
    <2> QED
        BY <2>5, <2>6, VersionsKept
<1> QED
    BY <1>1, <1>2

\* A step that dispatches nothing: what it queues, if anything, is b.
LEMMA VersionsOne ==
    ASSUME Inv, VersionsOK, SameVersions(runs, runs'), NEW b, ~Dispatched(b),
           SeqRange(q') \subseteq SeqRange(q) \cup {b}
    PROVE  VersionsOK'
<1>1. \A a \in SeqRange(q') : Dispatched(a) => a \in SeqRange(q)
    OBVIOUS
<1> QED
    BY <1>1, VersionsQueue

LEMMA VersionsStay ==
    ASSUME Inv, VersionsOK, runs' = runs, q' = q \/ (q # <<>> /\ q' = Tail(q))
    PROVE  VersionsOK'
<1>1. SeqRange(q') \subseteq SeqRange(q)
    <2>1. q \in Seq(Act)
        BY Types
    <2>2. CASE q # <<>> /\ q' = Tail(q)
        BY <2>1, <2>2, TailOf
    <2> QED
        BY <2>2
<1>2. SameVersions(runs, runs')
    BY DEF SameVersions
<1>3. \A a \in SeqRange(q') : Dispatched(a) => a \in SeqRange(q)
    BY <1>1
<1> QED
    BY <1>2, <1>3, VersionsQueue

LEMMA VersionsHead ==
    ASSUME Inv, RunsInv, VersionsOK, NEW k, At(k), NEW b, q' = Append(Tail(q), b),
           ~Dispatched(b), SameVersions(runs, runs')
    PROVE  VersionsOK'
BY HeadFacts, VersionsOne

LEMMA VersionsAppend ==
    ASSUME Inv, VersionsOK, NEW b, q' = Append(q, b), ~Dispatched(b), runs' = runs
    PROVE  VersionsOK'
<1>1. SeqRange(q') = SeqRange(q) \cup {b}
    BY Types, RangeAppend
<1>2. SameVersions(runs, runs')
    BY DEF SameVersions
<1> QED
    BY <1>1, <1>2, VersionsOne

\* The steps of the log that dispatch nothing.
LEMMA VersionsAppended ==
    ASSUME Inv, RunsInv, VersionsOK, Appended, ~PhaseRunning, ~RunStarted, ~RerunExecute
    PROVE  VersionsOK'
<1>0. runs' = runs => SameVersions(runs, runs')
    BY DEF SameVersions
<1>1. CASE Kick \/ Suspend \/ Finalize \/ CancelFinalize \/ PhaseDone \/ BudgetReported \/ Escalate
           \/ Tombstone \/ BootPaused
    <2>1. q # <<>> /\ q' = Tail(q) /\ runs' = runs
        BY <1>1 DEF Kick, Suspend, Finalize, CancelFinalize, PhaseDone, BudgetReported, Escalate,
                    Tombstone, BootPaused, At, log
    <2> QED
        BY <2>1, VersionsStay
<1>2. CASE RunDone
    <2> DEFINE b == [Head(q) EXCEPT !.k = "done2"]
    <2>1. At("done1") /\ q' = Append(Tail(q), b) /\ runs' = RunsWith(Head(q).n, Head(q).v, Head(q).out)
        BY <1>2 DEF RunDone, Next1
    <2>2. ~Dispatched(b)
        BY <2>1, HeadFacts DEF Act, ActRec, Dispatched
    <2>3. SameVersions(runs, runs')
        BY <2>1, StatusOnly
    <2> HIDE DEF b
    <2> QED
        BY <2>1, <2>2, <2>3, VersionsHead
<1>7. CASE ApproveRun
    <2> DEFINE b == [Head(q) EXCEPT !.k = "ap2"]
    <2>1. At("ap1") /\ q' = Append(Tail(q), b) /\ runs' = RunsWith(Head(q).n, Head(q).v, "completed")
        BY <1>7 DEF ApproveRun, Next1
    <2>2. ~Dispatched(b)
        BY <2>1, HeadFacts DEF Act, ActRec, Dispatched
    <2>3. SameVersions(runs, runs')
        BY <2>1, StatusOnly
    <2> HIDE DEF b
    <2> QED
        BY <2>1, <2>2, <2>3, VersionsHead
<1>8. CASE BootRunFailed
    <2> DEFINE b == [Head(q) EXCEPT !.k = "b2"]
    <2>1. At("b1") /\ q' = Append(Tail(q), b) /\ runs' = RunsWith(Head(q).n, Head(q).v, "failed")
        BY <1>8 DEF BootRunFailed, Next1
    <2>2. ~Dispatched(b)
        BY <2>1, HeadFacts DEF Act, ActRec, Dispatched
    <2>3. SameVersions(runs, runs')
        BY <2>1, StatusOnly
    <2> HIDE DEF b
    <2> QED
        BY <2>1, <2>2, <2>3, VersionsHead
<1>3. CASE BudgetPending
    <2> DEFINE b == [Head(q) EXCEPT !.k = "stop"]
    <2>1. At("pend") /\ runs' = runs /\ (q' = Tail(q) \/ q' = Append(Tail(q), b)) /\ q # <<>>
        BY <1>3 DEF BudgetPending, Next1, At
    <2>2. ~Dispatched(b)
        BY <2>1, HeadFacts DEF Act, ActRec, Dispatched
    <2> HIDE DEF b
    <2> QED
        BY <1>0, <2>1, <2>2, VersionsHead, VersionsStay
<1>4. CASE DownstreamFailed
    <2> DEFINE S == StillPending(Head(q).left \ {Head(q).i})
               b == [Head(q) EXCEPT !.left = S, !.i = Least(S)]
    <2>1. At("mdf") /\ runs' = runs /\ (q' = Tail(q) \/ q' = Append(Tail(q), b)) /\ q # <<>>
        BY <1>4 DEF DownstreamFailed, Next1, At
    <2> HIDE DEF S
    <2>h. Head(q) \in Act /\ Head(q).k = "mdf"
        BY <2>1, HeadFacts
    <2>2. ~Dispatched(b)
        BY <2>h DEF Act, ActRec, Dispatched
    <2> HIDE DEF b
    <2> QED
        BY <1>0, <2>1, <2>2, VersionsHead, VersionsStay
<1>5. CASE ApproveDone
    <2>1. At("ap2") /\ runs' = runs /\ q' = Append(Tail(q), Blank)
        BY <1>5 DEF ApproveDone, Next1
    <2>2. ~Dispatched(Blank)
        BY BlankPlain DEF Dispatched
    <2> QED
        BY <1>0, <2>1, <2>2, VersionsHead
<1>6. CASE BootPending
    <2> DEFINE b == BootNext(phase, Head(q).n)
    <2>1. At("b2") /\ runs' = runs /\ q' = Append(Tail(q), b)
        BY <1>6 DEF BootPending, Next1
    <2>2. ~Dispatched(b)
        BY BootPlain DEF Dispatched
    <2> HIDE DEF b
    <2> QED
        BY <1>0, <2>1, <2>2, VersionsHead
<1>9. CASE RerunRunning \/ RerunSupersede \/ RerunInvalidate \/ RerunPending
    <2>1. PICK b : RerunOn(b)
        BY <1>9, RerunGoes
    <2>2. PICK k \in Reruns : At(k) /\ q' = Append(Tail(q), b) /\ ~Dispatched(b)
        BY <2>1 DEF RerunOn, Next1, Reruns, Dispatched
    <2>3. runs' = runs \/ \E n, v : runs' = RunsWith(n, v, "superseded")
        BY <1>9 DEF RerunRunning, RerunSupersede, RerunInvalidate, RerunPending
    <2>4. SameVersions(runs, runs')
        BY <1>0, <2>3, StatusOnly
    <2> QED
        BY <2>2, <2>4, VersionsHead
<1> QED
    BY <1>1, <1>2, <1>3, <1>4, <1>5, <1>6, <1>7, <1>8, <1>9 DEF Appended

\* The run that a gate starts again is newer than the folded ones.
LEMMA VersionsRestart ==
    ASSUME Inv, RunsInv, VersionsOK, RerunExecute
    PROVE  VersionsOK'
<1>1. PICK b : Restarts(b)
    BY RestartIs
<1>2. At("rr5") /\ q' = Append(Tail(q), b) /\ runs' = runs /\ b.n = Head(q).n /\ IsNextVersion(b.n, b.v)
    BY <1>1 DEF Restarts, Next1
<1>3. SeqRange(q') \subseteq SeqRange(q) \cup {b} /\ b.n \in Nodes
    BY <1>2, HeadFacts DEF Reruns
<1>4. \A a \in SeqRange(q) : Dispatched(a) => a.n \in Nodes /\ Above(runs, a.n, a.v)
    <2>1. \A a \in SeqRange(q) : Dispatched(a) => a.n \in Nodes
        BY Types, OfNode DEF Dispatched, TaskKinds
    <2> QED
        BY <2>1 DEF VersionsOK
<1>5. Above(runs, b.n, b.v)
    BY <1>2 DEF IsNextVersion, Indices, Above
<1>6. SameVersions(runs, runs')
    BY <1>2 DEF SameVersions
<1> QED
    BY <1>3, <1>4, <1>5, <1>6, VersionsKept

\* A run outside the log dispatches nothing.
LEMMA VersionsTurn ==
    ASSUME Inv, RunsInv, VersionsOK, NEW w \in working,
           Gather(w) \/ Finish(w) \/ Release(w)
    PROVE  VersionsOK'
<1>0. w \in Act /\ runs' = runs
    BY WorkFacts DEF Gather, Finish, Release, log
<1>1. CASE Gather(w)
    BY <1>0, <1>1, VersionsStay DEF Gather
<1>2. CASE Finish(w)
    <2>1. PICK b : q' = Append(q, b) /\ b.k = "done1"
        <3>1. \A o, vd : [w EXCEPT !.k = "done1", !.out = o, !.verdict = vd].k = "done1"
            BY <1>0 DEF Act, ActRec
        <3>2. [w EXCEPT !.k = "done1", !.out = "failed"].k = "done1"
            BY <1>0 DEF Act, ActRec
        <3>3. \/ \E vd : q' = Append(q, [w EXCEPT !.k = "done1", !.out = Outcome(w.n), !.verdict = vd])
              \/ q' = Append(q, [w EXCEPT !.k = "done1", !.out = "failed"])
            BY <1>2 DEF Finish
        <3>4. CASE \E vd : q' = Append(q, [w EXCEPT !.k = "done1", !.out = Outcome(w.n), !.verdict = vd])
            <4>1. PICK vd : q' = Append(q, [w EXCEPT !.k = "done1", !.out = Outcome(w.n), !.verdict = vd])
                BY <3>4
            <4> DEFINE b == [w EXCEPT !.k = "done1", !.out = Outcome(w.n), !.verdict = vd]
            <4>2. b.k = "done1" /\ q' = Append(q, b)
                BY <3>1, <4>1
            <4> HIDE DEF b
            <4> QED
                BY <4>2
        <3>5. CASE q' = Append(q, [w EXCEPT !.k = "done1", !.out = "failed"])
            BY <3>2, <3>5
        <3> QED
            BY <3>3, <3>4, <3>5
    <2>2. ~Dispatched(b)
        BY <2>1 DEF Dispatched
    <2> QED
        BY <1>0, <2>1, <2>2, VersionsAppend
<1>3. CASE Release(w)
    <2> DEFINE S == StillPending(Downstream(w.n))
               x == [w EXCEPT !.k = "pend", !.tree = "none"]
               y == [w EXCEPT !.k = "mdf", !.tree = "none", !.left = S, !.i = Least(S)]
               z == [w EXCEPT !.k = "esc", !.tree = "none"]
               u == RerunAct(GateTarget[w.n], [n |-> w.n, g |-> w.g])
    <2>2. q' = q \/ q' = Append(q, x) \/ q' = Append(q, y) \/ q' = Append(q, z) \/ q' = Append(q, u)
        BY <1>3 DEF Release
    <2> HIDE DEF S
    <2>3. ~Dispatched(x) /\ ~Dispatched(y) /\ ~Dispatched(z) /\ ~Dispatched(u)
        BY <1>0 DEF Act, ActRec, Dispatched, RerunAct, Blank
    <2> HIDE DEF x, y, z, u
    <2> QED
        BY <1>0, <2>2, <2>3, VersionsAppend, VersionsStay
<1> QED
    BY <1>1, <1>2, <1>3

\* Nor does a request or a boot scan.
LEMMA VersionsAsked ==
    ASSUME Inv, RunsInv, VersionsOK, NoReruns, Requests \/ BootScan
    PROVE  VersionsOK'
<1>r. \A n \in Nodes : ~Rerun(n)
    BY DEF NoReruns, Rerun, Request1
<1>0. runs' = runs /\ q \in Seq(Act)
    BY <1>r, Types DEF Requests, Pause, Cancel, Delete, Resume, Approve, BootScan, log
<1>1. CASE Pause
    BY <1>0, <1>1, VersionsStay DEF Pause
<1>2. CASE Resume
    <2>1. q' = Append(q, Blank) /\ ~Dispatched(Blank)
        BY <1>2, BlankPlain DEF Resume, Dispatched
    <2> QED
        BY <1>0, <2>1, VersionsAppend
<1>3. ASSUME NEW n \in Nodes, Approve(n)
      PROVE  VersionsOK'
    <2> DEFINE u == IF runs[n] = <<>> THEN 1 ELSE runs[n][Len(runs[n])].ver
               b == [Blank EXCEPT !.k = "ap1", !.n = n, !.v = u]
    <2>1. q' = Append(q, b)
        BY <1>3 DEF Approve
    <2> HIDE DEF u
    <2>2. ~Dispatched(b)
        BY BlankPlain DEF Dispatched
    <2> HIDE DEF b
    <2> QED
        BY <1>0, <2>1, <2>2, VersionsAppend
<1>4. CASE BootScan
    <2> DEFINE b == BootNext(phase, 0)
    <2>1. q' = q \/ q' = Append(q, b)
        BY <1>4 DEF BootScan
    <2>2. ~Dispatched(b)
        BY BootPlain DEF Dispatched
    <2> HIDE DEF b
    <2> QED
        BY <1>0, <2>1, <2>2, VersionsAppend, VersionsStay
<1>5. CASE Cancel \/ Delete
    <2> DEFINE f == [Blank EXCEPT !.k = "cfin", !.out = "failed"]
               d == [Blank EXCEPT !.k = "del"]
    <2>1. f \in Act /\ d \in Act /\ ~Dispatched(f) /\ ~Dispatched(d)
        BY CancelAct, DeleteAct, BlankPlain DEF Dispatched
    <2>2. \/ q' = Append(q, d)
          \/ q' \in {q, q \o CancelRest, q \o <<d>> \o CancelRest}
        BY <1>5 DEF Cancel, Delete
    <2>3. CancelRest \in {<<f>>, <<>>}
        BY DEF CancelRest
    <2> HIDE DEF f, d
    <2>4. Append(q, d) \in Seq(Act) /\ q \o <<d>> = Append(q, d)
        BY <1>0, <2>1, AppendProperties, AppendIsConcat
    <2>5. /\ q \o <<f>> = Append(q, f) /\ q \o <<>> = q
          /\ Append(q, d) \o <<f>> = Append(Append(q, d), f)
          /\ Append(q, d) \o <<>> = Append(q, d)
        BY <1>0, <2>1, <2>4, AppendIsConcat, ConcatEmptySeq
    <2>6. q' \in {q, Append(q, d), Append(q, f), Append(Append(q, d), f)}
        <3>1. CASE CancelRest = <<f>>
            <4>1. q' \in {Append(q, d), q, q \o <<f>>, q \o <<d>> \o <<f>>}
                BY <2>2, <3>1
            <4> QED
                BY <2>4, <2>5, <4>1
        <3>2. CASE CancelRest = <<>>
            <4>1. q' \in {Append(q, d), q, q \o <<>>, q \o <<d>> \o <<>>}
                BY <2>2, <3>2
            <4> QED
                BY <2>4, <2>5, <4>1
        <3> QED
            BY <2>3, <3>1, <3>2
    <2>7. SeqRange(q') \subseteq SeqRange(q) \cup {d, f}
        <3>1. /\ SeqRange(Append(q, d)) = SeqRange(q) \cup {d}
              /\ SeqRange(Append(q, f)) = SeqRange(q) \cup {f}
              /\ SeqRange(Append(Append(q, d), f)) = SeqRange(q) \cup {d} \cup {f}
            BY <1>0, <2>4, RangeAppend
        <3> QED
            BY <2>6, <3>1
    <2>8. \A a \in SeqRange(q') : Dispatched(a) => a \in SeqRange(q)
        BY <2>1, <2>7
    <2>9. SameVersions(runs, runs')
        BY <1>0 DEF SameVersions
    <2> QED
        BY <2>8, <2>9, VersionsQueue
<1> QED
    BY <1>1, <1>2, <1>3, <1>4, <1>5, <1>r DEF Requests

\* The schedule loop, but for its dispatches.
LEMMA VersionsLoop ==
    ASSUME Inv, RunsInv, VersionsOK, NEW g \in 1..Len(rt),
           Top(g) \/ CheckBudget(g) \/ Ready(g) \/ Settle(g) \/ Integrate(g) \/ Reported(g)
    PROVE  VersionsOK'
<1>0. runs' = runs
    BY DEF Top, CheckBudget, Ready, Settle, Integrate, Reported, log
<1>1. CASE Settle(g)
    <2> DEFINE x == [Blank EXCEPT !.k = "susp", !.g = g]
               y == [Blank EXCEPT !.k = "fin", !.g = g, !.out = FinalStatus]
    <2>1. q' = q \/ q' = Append(q, x) \/ q' = Append(q, y)
        BY <1>1 DEF Settle
    <2>2. ~Dispatched(x) /\ ~Dispatched(y)
        BY DEF Blank, Dispatched
    <2> HIDE DEF x, y
    <2> QED
        BY <1>0, <2>1, <2>2, VersionsAppend, VersionsStay
<1>2. CASE ~Settle(g)
    <2>1. q' = q
        BY <1>2 DEF Top, CheckBudget, Ready, Integrate, Reported
    <2> QED
        BY <1>0, <2>1, VersionsStay
<1> QED
    BY <1>1, <1>2

LEMMA VersionsNext ==
    ASSUME Inv, RunsInv, VersionsOK, NoReruns, [Next]_vars
    PROVE  VersionsOK'
<1>1. CASE Sync
    <2>1. ASSUME NEW g \in 1..Len(rt), Top(g) \/ CheckBudget(g) \/ Ready(g) \/ Dispatch(g) \/ Settle(g)
          PROVE  VersionsOK'
        BY <2>1, VersionsLoop, VersionsDispatch
    <2>2. ASSUME NEW w \in working, Release(w)
          PROVE  VersionsOK'
        BY <2>2, VersionsTurn
    <2> QED
        BY <1>1, <2>1, <2>2 DEF Sync
<1>2. CASE LoopIo
    BY <1>2, VersionsLoop DEF LoopIo
<1>3. CASE Turn
    BY <1>3, VersionsTurn DEF Turn
<1>4. CASE Appended
    <2>1. CASE PhaseRunning
        BY <2>1, VersionsDispatch
    <2>2. CASE RunStarted
        BY <2>2, VersionsRun
    <2>3. CASE RerunExecute
        BY <2>3, VersionsRestart
    <2> QED
        BY <1>4, <2>1, <2>2, <2>3, VersionsAppended
<1>5. CASE BootScan \/ Requests
    BY <1>5, VersionsAsked
<1>6. CASE Crash
    <2>1. q' = <<>> /\ Len(q') = 0 /\ runs' = runs
        BY <1>6 DEF Crash, log
    <2>2. SameVersions(runs, runs') /\ SeqRange(q') = {}
        BY <2>1 DEF SameVersions, SeqRange
    <2> QED
        BY <2>2, VersionsQueue
<1>7. CASE (\E w \in working : Overspend(w)) \/ UNCHANGED vars
    <2>1. q' = q /\ runs' = runs
        BY <1>7 DEF Overspend, vars, log
    <2> QED
        BY <2>1, VersionsStay
<1> QED
    BY <1>1, <1>2, <1>3, <1>4, <1>5, <1>6, <1>7 DEF Next, EngineStep, Idle

LEMMA VersionsInit == Init => VersionsOK
<1> SUFFICES ASSUME Init PROVE VersionsOK
    OBVIOUS
<1>1. /\ \A n \in Nodes : Len(runs[n]) = 0
      /\ q = <<Blank>> /\ Len(q) = 1 /\ q[1] = Blank
    BY DEF Init
<1>2. SeqRange(q) = {Blank} /\ ~Dispatched(Blank)
    BY <1>1, BlankPlain DEF SeqRange, Dispatched
<1> QED
    BY <1>1, <1>2 DEF VersionsOK, Growing

\* Versions of a node only grow, also across crashes, so that a result on disk
\* is never overwritten by a later run (nextVersion, versioned artifacts).
THEOREM VersionsGrow ==
    ASSUME NoReruns
    PROVE  Spec /\ [][Orderly]_vars /\ [][LoopsInOrder]_vars => []VersionsIncrease
<1>1. Inv /\ RunsInv /\ VersionsOK /\ [Next]_vars => VersionsOK'
    BY VersionsNext
<1>2. VersionsOK => VersionsIncrease
    BY DEF VersionsOK, Growing, VersionsIncrease, Indices
<1> QED
    BY <1>1, <1>2, VersionsInit, RunsAlways, InvAlways, PTL DEF Spec

-----------------------------------------------------------------------------
\* Loop-backs.

\* No gate checks the node that an automatic gate checks.
OwnTargets ==
    \A m \in GateAuto, n \in Nodes : GateTarget[m] # 0 /\ GateTarget[n] = GateTarget[m] => m = n

\* A run that a gate has started and that is not folded yet, and what becomes one.
AutoRun(a) == Dispatched(a) /\ a.auto
Again(a) == a.k \in Reruns \/ AutoRun(a)

\* In the queue Q a gate's own next run is behind the run that the gate has
\* started, at position i.
Behind(Q, i, j) ==
    \/ Q[j].k = "run1" /\ (Q[i].k = "run1" => i < j)
    \/ Q[j].k = "run2" /\ Q[i].k = "run2" /\ i < j

\* With the queue Q and the runs W, a node is started again once at a time, and
\* its gate cannot come to a second verdict before that run is in the log.
LoopsWait(Q, W) ==
    /\ \A i, j \in 1..Len(Q) : Again(Q[i]) /\ Again(Q[j]) /\ Q[i].n = Q[j].n => i = j
    /\ \A i \in 1..Len(Q) : AutoRun(Q[i]) =>
         \A m \in Nodes : GateTarget[m] = Q[i].n =>
           /\ \A w \in W : w.n # m
           /\ \A j \in 1..Len(Q) : Slotted(Q[j]) /\ Slot(Q[j]) = m => Behind(Q, i, j)

\* In the run lists R and the queue Q, what has been looped back is within the
\* ceiling, and so is what is about to be.
Counted(R, Q) ==
    \A n \in Nodes : GateTarget[n] # 0 =>
        LET c == Cardinality({i \in Indices(R, GateTarget[n]) : R[GateTarget[n]][i].auto}) IN
        /\ c <= GateCap(n)
        /\ (\E a \in SeqRange(Q) : Again(a) /\ a.n = GateTarget[n]) => c < GateCap(n)

LoopsOK == LoopsWait(q, working) /\ Counted(runs, q)

\* A gate is not the node it checks: an edge leads to a higher node.
LEMMA GateApart ==
    ASSUME NEW n \in Nodes
    PROVE  GateTarget[n] # n
<1> SUFFICES ASSUME GateTarget[n] = n PROVE FALSE
    OBVIOUS
<1>1. n \in Downstream(n)
    BY WorkflowAssumption, EngineAssumption DEF GatesCheckAncestors
<1> DEFINE S == {y \in Nodes : n < y}
<1>2. \A e \in Edges : e[1] \in Nodes /\ e[2] \in Nodes /\ e[1] < e[2]
    BY WorkflowAssumption
<1>3. EdgeClosed(S)
    <2> SUFFICES ASSUME NEW e \in Edges, e[1] \in S
                 PROVE  e[2] \in S
        BY DEF EdgeClosed
    <2>1. n \in Nat /\ e[1] \in Nat /\ e[2] \in Nat /\ n < e[1] /\ e[1] < e[2]
        BY <1>2, WorkflowAssumption
    <2> QED
        BY <1>2, <2>1
<1>4. \A e \in Edges : e[1] = n => e[2] \in S
    BY <1>2
<1>5. S \in SUBSET Nodes
    OBVIOUS
<1> HIDE DEF S
<1>6. n \in S
    BY <1>1, <1>3, <1>4, <1>5 DEF Downstream
<1> QED
    BY <1>6, WorkflowAssumption DEF S

\* No run that a gate of m's kind has started is in the queue Q.
Clear(Q, m) == \A a \in SeqRange(Q) : AutoRun(a) => GateTarget[m] # a.n

LEMMA LoopsTail ==
    ASSUME NEW Q \in Seq(Act), Q # <<>>, NEW W, LoopsWait(Q, W)
    PROVE  LoopsWait(Tail(Q), W)
<1> DEFINE R == Tail(Q)
<1>1. /\ Len(R) \in Nat /\ Len(Q) \in Nat
      /\ \A i \in 1..Len(R) : R[i] = Q[i + 1] /\ i + 1 \in 1..Len(Q)
    BY TailOf, LenProperties
<1> HIDE DEF R
<1>2. \A i, j \in 1..Len(R) : Again(R[i]) /\ Again(R[j]) /\ R[i].n = R[j].n => i = j
    <2> SUFFICES ASSUME NEW i \in 1..Len(R), NEW j \in 1..Len(R), Again(R[i]), Again(R[j]), R[i].n = R[j].n
                 PROVE  i = j
        OBVIOUS
    <2>1. i + 1 = j + 1
        BY <1>1 DEF LoopsWait
    <2> QED
        BY <2>1
<1>3. ASSUME NEW i \in 1..Len(R), AutoRun(R[i]), NEW m \in Nodes, GateTarget[m] = R[i].n
      PROVE  /\ \A w \in W : w.n # m
             /\ \A j \in 1..Len(R) : Slotted(R[j]) /\ Slot(R[j]) = m => Behind(R, i, j)
    <2>1. \A w \in W : w.n # m
        BY <1>1, <1>3 DEF LoopsWait
    <2>2. ASSUME NEW j \in 1..Len(R), Slotted(R[j]), Slot(R[j]) = m
          PROVE  Behind(R, i, j)
        <3>1. Behind(Q, i + 1, j + 1)
            BY <1>1, <1>3, <2>2 DEF LoopsWait
        <3> QED
            BY <1>1, <3>1 DEF Behind
    <2> QED
        BY <2>1, <2>2
<1> QED
    BY <1>2, <1>3 DEF LoopsWait, R

\* What is queued behind the rest.
LEMMA LoopsAppend ==
    ASSUME NEW Q \in Seq(Act), NEW W, LoopsWait(Q, W), NEW b,
           Again(b) => \A a \in SeqRange(Q) : Again(a) => a.n # b.n,
           AutoRun(b) => \A m \in Nodes : GateTarget[m] = b.n =>
               /\ \A w \in W : w.n # m
               /\ \A a \in SeqRange(Q) : Slotted(a) /\ Slot(a) = m => a.k = "run1" /\ b.k = "run2"
               /\ Slot(b) # m,
           Slotted(b) /\ Slot(b) \in Nodes =>
               \/ Clear(Q, Slot(b))
               \/ b.k = "run1"
               \/ b.k = "run2" /\ \A a \in SeqRange(Q) :
                                     AutoRun(a) /\ GateTarget[Slot(b)] = a.n => a.k = "run2"
    PROVE  LoopsWait(Append(Q, b), W)
<1> DEFINE R == Append(Q, b)
           L == Len(Q)
<1>1. /\ \A i \in 1..L : i \in 1..Len(R) /\ R[i] = Q[i] /\ Q[i] \in SeqRange(Q) /\ i < L + 1
      /\ \A i \in 1..Len(R) : i \in 1..L \/ i = L + 1
      /\ R[L + 1] = b /\ L + 1 \in 1..Len(R) /\ L \in Nat
    BY Appending DEF SeqRange
<1> HIDE DEF R, L
<1>2. \A i, j \in 1..Len(R) : Again(R[i]) /\ Again(R[j]) /\ R[i].n = R[j].n => i = j
    BY <1>1 DEF LoopsWait, L
<1>3. ASSUME NEW i \in 1..Len(R), AutoRun(R[i]), NEW m \in Nodes, GateTarget[m] = R[i].n
      PROVE  /\ \A w \in W : w.n # m
             /\ \A j \in 1..Len(R) : Slotted(R[j]) /\ Slot(R[j]) = m => Behind(R, i, j)
    <2>1. CASE i \in 1..L
        <3>1. \A w \in W : w.n # m
            BY <1>1, <1>3, <2>1 DEF LoopsWait, L
        <3>2. ASSUME NEW j \in 1..L, Slotted(R[j]), Slot(R[j]) = m
              PROVE  Behind(R, i, j)
            <4>1. Behind(Q, i, j)
                BY <1>1, <1>3, <2>1, <3>2 DEF LoopsWait, L
            <4> QED
                BY <1>1, <2>1, <3>2, <4>1 DEF Behind
        <3>3. ASSUME Slotted(b), Slot(b) = m
              PROVE  Behind(R, i, L + 1)
            <4>1. AutoRun(Q[i]) /\ Q[i] \in SeqRange(Q) /\ GateTarget[Slot(b)] = Q[i].n /\ i < L + 1
                BY <1>1, <1>3, <2>1, <3>3
            <4>2. b.k = "run1" \/ (b.k = "run2" /\ Q[i].k = "run2")
                BY <3>3, <4>1 DEF Clear
            <4> QED
                BY <1>1, <2>1, <4>1, <4>2 DEF Behind
        <3> QED
            BY <1>1, <3>1, <3>2, <3>3
    <2>2. CASE i = L + 1
        <3>1. AutoRun(b) /\ GateTarget[m] = b.n
            BY <1>1, <1>3, <2>2
        <3>2. ASSUME NEW j \in 1..L, Slotted(R[j]), Slot(R[j]) = m
              PROVE  Behind(R, i, j)
            BY <1>1, <2>2, <3>1, <3>2 DEF Behind
        <3> QED
            BY <1>1, <2>2, <3>1, <3>2
    <2> QED
        BY <1>1, <2>1, <2>2
<1> QED
    BY <1>2, <1>3 DEF LoopsWait, R

\* What works afterwards are runs of nodes that worked, or of nodes that have
\* not started a run again.
LEMMA LoopsWork ==
    ASSUME NEW Q, NEW W, NEW V, LoopsWait(Q, W),
           \A x \in V : (\E w \in W : w.n = x.n) \/ (x.n \in Nodes => Clear(Q, x.n))
    PROVE  LoopsWait(Q, V)
<1>1. ASSUME NEW i \in 1..Len(Q), AutoRun(Q[i]), NEW m \in Nodes, GateTarget[m] = Q[i].n, NEW x \in V
      PROVE  x.n # m
    BY <1>1 DEF LoopsWait, Clear, SeqRange
<1> QED
    BY <1>1 DEF LoopsWait

\* A gate that is at work has started no run that is not folded.
LEMMA ClearWork ==
    ASSUME NEW Q, NEW W, LoopsWait(Q, W), NEW w \in W, w.n \in Nodes
    PROVE  Clear(Q, w.n)
BY DEF LoopsWait, Clear, SeqRange

LEMMA ClearSlot ==
    ASSUME NEW Q, NEW W, LoopsWait(Q, W), NEW a \in SeqRange(Q), Slotted(a), Slot(a) \in Nodes, ~Dispatched(a)
    PROVE  Clear(Q, Slot(a))
<1>1. PICK j \in 1..Len(Q) : a = Q[j]
    BY DEF SeqRange
<1>2. ASSUME NEW i \in 1..Len(Q), AutoRun(Q[i])
      PROVE  GateTarget[Slot(a)] # Q[i].n
    BY <1>1, <1>2 DEF LoopsWait, Behind, Dispatched
<1> QED
    BY <1>2 DEF Clear, SeqRange

LEMMA ClearTail ==
    ASSUME NEW Q \in Seq(Act), Q # <<>>, NEW m, Clear(Q, m)
    PROVE  Clear(Tail(Q), m)
BY TailOf DEF Clear

\* What is counted, when the runs only change their status and nothing is
\* looped back.
LEMMA CountedSame ==
    ASSUME NEW R, NEW S, NEW Q, NEW P, Counted(R, Q), SameVersions(R, S),
           \A a \in SeqRange(P) : Again(a) => \E b \in SeqRange(Q) : Again(b) /\ b.n = a.n
    PROVE  Counted(S, P)
<1> SUFFICES ASSUME NEW n \in Nodes, GateTarget[n] # 0
             PROVE  LET c == Cardinality({i \in Indices(S, GateTarget[n]) : S[GateTarget[n]][i].auto}) IN
                    /\ c <= GateCap(n)
                    /\ (\E a \in SeqRange(P) : Again(a) /\ a.n = GateTarget[n]) => c < GateCap(n)
    BY DEF Counted
<1> DEFINE t == GateTarget[n]
           C(X) == {i \in Indices(X, t) : X[t][i].auto}
<1>1. t \in Nodes
    BY EngineAssumption
<1>2. C(S) = C(R)
    BY <1>1 DEF SameVersions, Indices
<1>3. /\ Cardinality(C(R)) <= GateCap(n)
      /\ (\E a \in SeqRange(Q) : Again(a) /\ a.n = t) => Cardinality(C(R)) < GateCap(n)
    BY DEF Counted
<1>4. (\E a \in SeqRange(P) : Again(a) /\ a.n = t) => \E a \in SeqRange(Q) : Again(a) /\ a.n = t
    OBVIOUS
<1> QED
    BY <1>2, <1>3, <1>4

\* A step that starts nothing again: what it queues, if anything, is b.
LEMMA LoopsStep ==
    ASSUME Inv, LoopsOK, SameVersions(runs, runs'),
           NEW Q, Q = q \/ (q # <<>> /\ Q = Tail(q)),
           NEW b, q' = Q \/ q' = Append(Q, b), ~Again(b),
           Slotted(b) /\ Slot(b) \in Nodes => Clear(q, Slot(b)),
           \A x \in working' : (\E w \in working : w.n = x.n) \/ (x.n \in Nodes => Clear(q, x.n))
    PROVE  LoopsOK'
<1>1. q \in Seq(Act) /\ Q \in Seq(Act) /\ SeqRange(Q) \subseteq SeqRange(q)
    BY Types, TailOf
<1>2. LoopsWait(Q, working)
    BY <1>1, LoopsTail DEF LoopsOK
<1>3. \A m : Clear(q, m) => Clear(Q, m)
    BY <1>1 DEF Clear
<1>4. LoopsWait(Q, working')
    BY <1>2, <1>3, LoopsWork
<1>5. LoopsWait(Append(Q, b), working')
    BY <1>1, <1>3, <1>4, LoopsAppend DEF Again
<1>6. SeqRange(q') \subseteq SeqRange(q) \cup {b}
    BY <1>1, RangeAppend
<1>7. \A a \in SeqRange(q') : Again(a) => a \in SeqRange(q)
    BY <1>6
<1>8. Counted(runs', q')
    BY <1>7, CountedSame DEF LoopsOK
<1> QED
    BY <1>4, <1>5, <1>8 DEF LoopsOK

\* So do most of them: they leave the runs that work alone, or end some.
LEMMA LoopsStay ==
    ASSUME Inv, LoopsOK, SameVersions(runs, runs'), working' \subseteq working,
           q' = q \/ (q # <<>> /\ q' = Tail(q))
    PROVE  LoopsOK'
<1>1. ~Again(Blank) /\ ~Slotted(Blank)
    BY BlankPlain DEF Again, AutoRun, Dispatched, Slotted, SlotKinds, RunKinds, Reruns
<1>2. \A x \in working' : \E w \in working : w.n = x.n
    OBVIOUS
<1> QED
    BY <1>1, <1>2, LoopsStep

LEMMA LoopsPlain ==
    ASSUME Inv, LoopsOK, SameVersions(runs, runs'), working' \subseteq working,
           NEW b, q' = Append(q, b) \/ (q # <<>> /\ q' = Append(Tail(q), b)),
           b.k \notin SlotKinds \/ (b.k \in {"fin", "susp"} /\ b.n = 0)
    PROVE  LoopsOK'
<1>1. ~Again(b) /\ (Slotted(b) => Slot(b) \notin Nodes)
    BY WorkflowAssumption DEF Again, AutoRun, Dispatched, Slotted, Slot, SlotKinds, RunKinds, Reruns
<1>2. \A x \in working' : \E w \in working : w.n = x.n
    OBVIOUS
<1> QED
    BY <1>1, <1>2, LoopsStep

\* The run at the head of the queue, when it is past its start, is not one that
\* a gate waits for.
LEMMA ClearHead ==
    ASSUME Inv, RunsInv, LoopsOK, NEW k \in RunKinds \ {"run1", "run2"}, At(k)
    PROVE  Clear(q, Head(q).n)
<1>1. /\ Head(q) \in SeqRange(q) /\ Slotted(Head(q)) /\ Slot(Head(q)) = Head(q).n
      /\ Head(q).n \in Nodes /\ Head(q).k = k
    BY HeadFacts
<1> QED
    BY <1>1, ClearSlot DEF LoopsOK, Dispatched

\* A run goes on, the one at work or the one at the head of the queue.
LEMMA LoopsRun ==
    ASSUME Inv, LoopsOK, SameVersions(runs, runs'), NEW n \in Nodes, Clear(q, n),
           NEW b, b.k \in RunKinds \ {"run1", "run2"}, b.n = n,
           \/ q' \in {q, Append(q, b)}
           \/ q # <<>> /\ q' \in {Tail(q), Append(Tail(q), b)},
           \A x \in working' : x.n = n \/ \E w \in working : w.n = x.n
    PROVE  LoopsOK'
<1>1. ~Again(b) /\ Slot(b) = n
    BY DEF Again, AutoRun, Dispatched, Slot, RunKinds, Reruns
<1> QED
    BY <1>1, LoopsStep

\* The run at the head of the queue stays what it is.
LEMMA LoopsPhaseRunning ==
    ASSUME Inv, RunsInv, LoopsOK, PhaseRunning
    PROVE  LoopsOK'
<1> DEFINE a == Head(q)
           b == [a EXCEPT !.k = "run2"]
           T == Tail(q)
<1>1. At("run1") /\ q' = Append(T, b) /\ UNCHANGED <<runs, working>> /\ "run1" \in RunKinds
    BY DEF PhaseRunning, Next1, RunKinds
<1>2. /\ q \in Seq(Act) /\ q # <<>> /\ T \in Seq(Act) /\ a \in Act /\ a.k = "run1" /\ a \in SeqRange(q)
      /\ SeqRange(T) \subseteq SeqRange(q) /\ a.n \in Nodes /\ a = q[1] /\ 1 \in 1..Len(q)
    BY <1>1, HeadFacts, TailOf
<1>3. b.k = "run2" /\ b.n = a.n /\ b.auto = a.auto
    BY <1>2 DEF Act, ActRec
<1> HIDE DEF b
<1>4. LoopsWait(q, working) /\ LoopsWait(T, working)
    BY <1>2, LoopsTail DEF LoopsOK
<1>5. /\ Len(T) \in Nat
      /\ \A i \in 1..Len(T) : T[i] = q[i + 1] /\ i + 1 \in 1..Len(q) /\ i + 1 # 1
    BY <1>2, TailOf
<1>6. Again(b) => \A c \in SeqRange(T) : Again(c) => c.n # b.n
    <2> SUFFICES ASSUME Again(b), NEW i \in 1..Len(T), Again(T[i]), T[i].n = b.n
                 PROVE  FALSE
        BY DEF SeqRange
    <2>1. Again(q[1]) /\ q[1].n = b.n
        BY <1>2, <1>3 DEF Again, AutoRun, Dispatched, Reruns
    <2>2. Again(q[i + 1]) /\ q[i + 1].n = b.n /\ i + 1 \in 1..Len(q) /\ i + 1 # 1
        BY <1>5
    <2> QED
        BY <1>2, <1>4, <2>1, <2>2 DEF LoopsWait
<1>7. ASSUME AutoRun(b), NEW m \in Nodes, GateTarget[m] = b.n
      PROVE  /\ \A w \in working : w.n # m
             /\ \A c \in SeqRange(T) : Slotted(c) /\ Slot(c) = m => c.k = "run1" /\ b.k = "run2"
             /\ Slot(b) # m
    <2>1. AutoRun(q[1]) /\ GateTarget[m] = q[1].n /\ q[1].k = "run1"
        BY <1>2, <1>3, <1>7 DEF AutoRun, Dispatched
    <2>2. \A w \in working : w.n # m
        BY <1>2, <1>4, <1>7, <2>1 DEF LoopsWait
    <2>3. ASSUME NEW i \in 1..Len(T), Slotted(T[i]), Slot(T[i]) = m
          PROVE  T[i].k = "run1"
        <3>1. Behind(q, 1, i + 1)
            BY <1>2, <1>4, <1>5, <1>7, <2>1, <2>3 DEF LoopsWait
        <3> QED
            BY <1>5, <2>1, <3>1 DEF Behind
    <2>4. Slot(b) = a.n /\ Slot(b) # m
        BY <1>2, <1>3, <1>7, GateApart DEF Slot, Reruns
    <2> QED
        BY <1>3, <2>2, <2>3, <2>4 DEF SeqRange
<1>8. ASSUME NEW c \in SeqRange(T), AutoRun(c), GateTarget[Slot(b)] = c.n
      PROVE  c.k = "run2"
    <2>1. PICK i \in 1..Len(T) : c = T[i]
        BY DEF SeqRange
    <2>2. Slotted(q[1]) /\ Slot(q[1]) = Slot(b) /\ Slot(b) \in Nodes /\ q[1].k = "run1"
        BY <1>2, <1>3 DEF Slotted, Slot, SlotKinds, RunKinds, Reruns
    <2>3. Behind(q, i + 1, 1)
        BY <1>2, <1>4, <1>5, <1>8, <2>1, <2>2 DEF LoopsWait
    <2>4. q[i + 1] = c /\ ~(i + 1 < 1)
        BY <1>5, <2>1
    <2> QED
        BY <1>8, <2>2, <2>3, <2>4 DEF Behind, AutoRun, Dispatched
<1>9. LoopsWait(q', working')
    BY <1>1, <1>2, <1>3, <1>4, <1>6, <1>7, <1>8, LoopsAppend
<1>10. Counted(runs', q')
    <2>1. SeqRange(q') = SeqRange(T) \cup {b}
        BY <1>1, <1>2, RangeAppend
    <2>2. Again(b) => Again(a)
        BY <1>2, <1>3 DEF Again, AutoRun, Dispatched, Reruns
    <2>3. SameVersions(runs, runs')
        BY <1>1 DEF SameVersions
    <2> QED
        BY <1>2, <1>3, <2>1, <2>2, <2>3, CountedSame DEF LoopsOK
<1> QED
    BY <1>9, <1>10 DEF LoopsOK

\* A run comes into the log: if a gate has started it, it is counted now.
LEMMA LoopsRunStarted ==
    ASSUME Inv, RunsInv, LoopsOK, RunStarted
    PROVE  LoopsOK'
<1> DEFINE a == Head(q)
           e == [ver |-> a.v, st |-> "running", auto |-> a.auto]
           x == [a EXCEPT !.k = "setup"]
           T == Tail(q)
<1>1. /\ At("run2") /\ q' = T /\ working' = working \cup {x} /\ "run2" \in RunKinds
      /\ runs' = IF alive THEN [runs EXCEPT ![a.n] = Append(@, e)] ELSE runs
    BY DEF RunStarted, RunKinds
<1>2. /\ q \in Seq(Act) /\ q # <<>> /\ T \in Seq(Act) /\ a \in Act /\ a.k = "run2" /\ a \in SeqRange(q)
      /\ SeqRange(T) \subseteq SeqRange(q) /\ a.n \in Nodes /\ a = q[1] /\ 1 \in 1..Len(q)
      /\ Slotted(a) /\ Slot(a) = a.n
    BY <1>1, HeadFacts, TailOf
<1>3. x.n = a.n
    BY <1>2 DEF Act, ActRec
<1> HIDE DEF x
<1>4. LoopsWait(q, working) /\ LoopsWait(T, working)
    BY <1>2, LoopsTail DEF LoopsOK
<1>5. /\ Len(T) \in Nat
      /\ \A i \in 1..Len(T) : T[i] = q[i + 1] /\ i + 1 \in 1..Len(q) /\ i + 1 # 1 /\ ~(i + 1 < 1)
    BY <1>2, TailOf
<1>6. Clear(T, a.n)
    <2> SUFFICES ASSUME NEW i \in 1..Len(T), AutoRun(T[i]), GateTarget[a.n] = T[i].n
                 PROVE  FALSE
        BY DEF Clear, SeqRange
    <2>1. Behind(q, i + 1, 1)
        BY <1>2, <1>4, <1>5 DEF LoopsWait
    <2> QED
        BY <1>2, <1>5, <2>1 DEF Behind
<1>7. LoopsWait(q', working')
    BY <1>1, <1>3, <1>4, <1>6, LoopsWork
<1>8. \A c \in SeqRange(T) : Again(c) /\ Again(a) => c.n # a.n
    <2> SUFFICES ASSUME NEW i \in 1..Len(T), Again(T[i]), Again(a), T[i].n = a.n
                 PROVE  FALSE
        BY DEF SeqRange
    <2> QED
        BY <1>2, <1>4, <1>5 DEF LoopsWait
<1>9. CASE ~alive
    <2>1. SameVersions(runs, runs')
        BY <1>1, <1>9 DEF SameVersions
    <2>2. Counted(runs', q')
        BY <1>1, <1>2, <2>1, CountedSame DEF LoopsOK
    <2> QED
        BY <1>7, <2>2 DEF LoopsOK
<1>10. CASE alive
    <2> SUFFICES ASSUME NEW n \in Nodes, GateTarget[n] # 0
                 PROVE  LET c == Cardinality({i \in Indices(runs', GateTarget[n]) : runs'[GateTarget[n]][i].auto}) IN
                        /\ c <= GateCap(n)
                        /\ (\E b \in SeqRange(q') : Again(b) /\ b.n = GateTarget[n]) => c < GateCap(n)
        BY <1>7 DEF LoopsOK, Counted
    <2> DEFINE t == GateTarget[n]
               C(X) == {i \in Indices(X, t) : X[t][i].auto}
               s == runs[t]
    <2>1. runs \in [Nodes -> Seq(RunRec)] /\ t \in Nodes /\ s \in Seq(RunRec) /\ Len(s) \in Nat
        BY LenProperties, EngineAssumption DEF Inv, LogOK
    <2>2. /\ Cardinality(C(runs)) <= GateCap(n)
          /\ (\E b \in SeqRange(q) : Again(b) /\ b.n = t) => Cardinality(C(runs)) < GateCap(n)
        BY DEF LoopsOK, Counted
    <2>3. (\E b \in SeqRange(q') : Again(b) /\ b.n = t) => \E b \in SeqRange(q) : Again(b) /\ b.n = t
        BY <1>1, <1>2
    <2>4. CASE t # a.n
        <3>1. runs'[t] = s
            BY <1>1, <1>10, <2>1, <2>4
        <3>2. C(runs') = C(runs)
            BY <3>1 DEF Indices
        <3> QED
            BY <2>2, <2>3, <3>2
    <2>5. CASE t = a.n
        <3>1. runs'[t] = Append(s, e)
            BY <1>1, <1>10, <2>1, <2>5
        <3>2. e \in RunRec /\ e.auto = a.auto
            BY <1>2 DEF Act, ActRec, RunRec, RunStatus
        <3> HIDE DEF e
        <3>3. /\ Len(runs'[t]) = Len(s) + 1 /\ runs'[t][Len(s) + 1] = e
              /\ \A i \in 1..Len(s) : runs'[t][i] = s[i]
            BY <2>1, <3>1, <3>2, AppendProperties
        <3> DEFINE L == Len(s)
        <3>4. /\ \A i \in 1..L + 1 : i \in C(runs') <=> (i \in C(runs) \/ (i = L + 1 /\ a.auto))
              /\ C(runs) \subseteq 1..L /\ C(runs') \subseteq 1..(L + 1) /\ L + 1 \notin C(runs)
            BY <2>1, <3>2, <3>3 DEF Indices
        <3>5. IsFiniteSet(C(runs)) /\ Cardinality(C(runs)) \in Nat
            <4>1. IsFiniteSet(1..L)
                BY <2>1, FS_Interval
            <4> QED
                BY <3>4, <4>1, FS_Subset, FS_CardinalityType
        <3>i. 1..(L + 1) = 1..L \cup {L + 1}
            BY <2>1
        <3> HIDE DEF C, L
        <3>6. GateCap(n) \in Nat
            BY EngineAssumption DEF GateCap
        <3>7. CASE ~a.auto
            <4>1. C(runs') = C(runs)
                BY <3>i, <3>4, <3>7
            <4> QED
                BY <2>2, <2>3, <4>1 DEF C
        <3>8. CASE a.auto
            <4>1. C(runs') = C(runs) \cup {L + 1}
                BY <3>i, <3>4, <3>8
            <4>2. Cardinality(C(runs')) = Cardinality(C(runs)) + 1
                BY <3>4, <3>5, <4>1, FS_AddElement
            <4>3. Again(a)
                BY <1>2, <3>8 DEF Again, AutoRun, Dispatched
            <4>4. Cardinality(C(runs)) < GateCap(n)
                BY <1>2, <2>2, <2>5, <4>3
            <4>5. ~\E b \in SeqRange(q') : Again(b) /\ b.n = t
                BY <1>1, <1>8, <2>5, <4>3
            <4> QED
                BY <3>5, <3>6, <4>2, <4>4, <4>5 DEF C
        <3> QED
            BY <3>7, <3>8
    <2> QED
        BY <2>4, <2>5
<1> QED
    BY <1>9, <1>10

\* The activation b can follow the head of the queue when that starts a node
\* again: a gate of that node is out of the way.
Follows(b) ==
    /\ q' = Append(Tail(q), b) /\ b.n = Head(q).n
    /\ AutoRun(b) => \A m \in Nodes : GateTarget[m] = b.n =>
           /\ \A w \in working : w.n # m
           /\ \A a \in SeqRange(Tail(q)) : Slotted(a) => Slot(a) # m
           /\ Slot(b) # m
    /\ Slotted(b) /\ Slot(b) \in Nodes => b.k = "run1" \/ Clear(q, Slot(b))

LEMMA LoopsHead ==
    ASSUME Inv, LoopsOK, SameVersions(runs, runs'), working' = working,
           q # <<>>, Again(Head(q)), NEW b, Follows(b)
    PROVE  LoopsOK'
<1> DEFINE T == Tail(q)
<1>1. /\ q \in Seq(Act) /\ T \in Seq(Act) /\ SeqRange(T) \subseteq SeqRange(q)
      /\ Head(q) = q[1] /\ 1 \in 1..Len(q) /\ Head(q) \in SeqRange(q)
      /\ \A i \in 1..Len(T) : T[i] = q[i + 1] /\ i + 1 \in 1..Len(q) /\ i + 1 # 1
    BY Types, TailOf
<1>2. LoopsWait(q, working) /\ LoopsWait(T, working)
    BY <1>1, LoopsTail DEF LoopsOK
<1>3. \A a \in SeqRange(T) : Again(a) => a.n # b.n
    BY <1>1, <1>2 DEF LoopsWait, SeqRange, Follows
<1>4. \A m : Clear(q, m) => Clear(T, m)
    BY <1>1 DEF Clear
<1>5. LoopsWait(Append(T, b), working)
    <2>1. Again(b) => \A a \in SeqRange(T) : Again(a) => a.n # b.n
        BY <1>3
    <2>2. AutoRun(b) => \A m \in Nodes : GateTarget[m] = b.n =>
               /\ \A w \in working : w.n # m
               /\ \A a \in SeqRange(T) : Slotted(a) /\ Slot(a) = m => a.k = "run1" /\ b.k = "run2"
               /\ Slot(b) # m
        BY DEF Follows
    <2>3. Slotted(b) /\ Slot(b) \in Nodes =>
               \/ Clear(T, Slot(b))
               \/ b.k = "run1"
        BY <1>4 DEF Follows
    <2> HIDE DEF T
    <2> QED
        BY <1>1, <1>2, <2>1, <2>2, <2>3, LoopsAppend
<1>6. SeqRange(q') = SeqRange(T) \cup {b} /\ b.n = Head(q).n
    BY <1>1, RangeAppend DEF Follows
<1>7. \A a \in SeqRange(q') : Again(a) => \E c \in SeqRange(q) : Again(c) /\ c.n = a.n
    BY <1>1, <1>6
<1>8. Counted(runs', q')
    BY <1>7, CountedSame DEF LoopsOK
<1> QED
    BY <1>5, <1>8 DEF LoopsOK, Follows

LEMMA LoopsRerun ==
    ASSUME Inv, RunsInv, LoopsOK, RerunRunning \/ RerunSupersede \/ RerunInvalidate \/ RerunPending
    PROVE  LoopsOK'
<1>1. PICK b : RerunOn(b)
    BY RerunGoes
<1>2. PICK k \in Reruns : At(k)
    BY <1>1 DEF RerunOn
<1>3. /\ q' = Append(Tail(q), b) /\ b.k \in Reruns /\ b.n = Head(q).n /\ b.own = Head(q).own
      /\ working' = working
    BY <1>1 DEF RerunOn, Next1
<1>4. /\ Head(q).k \in Reruns /\ Slotted(Head(q)) /\ Slot(Head(q)) = Head(q).own.n
      /\ Head(q).own.n \in Nodes /\ Head(q) \in SeqRange(q) /\ q # <<>>
    BY <1>2, HeadFacts
<1>5. Again(Head(q)) /\ ~Dispatched(Head(q)) /\ ~AutoRun(b) /\ Slot(b) = Slot(Head(q))
    BY <1>3, <1>4 DEF Again, AutoRun, Dispatched, Slot, Reruns
<1>6. Clear(q, Slot(b))
    BY <1>4, <1>5, ClearSlot DEF LoopsOK
<1>7. runs' = runs \/ \E n, v : runs' = RunsWith(n, v, "superseded")
    BY DEF RerunRunning, RerunSupersede, RerunInvalidate, RerunPending
<1>8. SameVersions(runs, runs')
    <2>1. runs' = runs => SameVersions(runs, runs')
        BY DEF SameVersions
    <2> QED
        BY <1>7, <2>1, StatusOnly
<1>9. Follows(b)
    BY <1>3, <1>5, <1>6 DEF Follows
<1> QED
    BY <1>3, <1>4, <1>5, <1>8, <1>9, LoopsHead

LEMMA LoopsRestart ==
    ASSUME Inv, RunsInv, LoopsOK, OwnTargets, RerunExecute
    PROVE  LoopsOK'
<1>1. PICK b : Restarts(b)
    BY RestartIs
<1>2. /\ At("rr5") /\ "rr5" \in Reruns /\ q' = Append(Tail(q), b) /\ runs' = runs
      /\ working' = working /\ b.n = Head(q).n /\ b.k = "run1"
    BY <1>1 DEF Restarts, Next1, Reruns
<1>3. /\ Head(q).k \in Reruns /\ Slotted(Head(q)) /\ Slot(Head(q)) = Head(q).own.n
      /\ Head(q).own.n \in GateAuto \cap Nodes /\ Head(q) \in SeqRange(q) /\ q # <<>> /\ q \in Seq(Act)
      /\ Head(q).n = GateTarget[Head(q).own.n] /\ Head(q).n \in Nodes /\ Held(q, working, Taken)
    BY <1>2, HeadFacts
<1>4. Head(q).n # 0
    BY <1>3, WorkflowAssumption
<1>5. Again(Head(q)) /\ Slot(b) = b.n
    BY <1>2, <1>3 DEF Again, Slot, Reruns
<1>6. /\ \A w \in working : w.n # Slot(Head(q))
      /\ \A a \in SeqRange(Tail(q)) : Slotted(a) => Slot(a) # Slot(Head(q))
    <2> DEFINE T == Tail(q)
               n == Slot(Head(q))
    <2>1. Held(T, working, Taken \ {n})
        BY <1>3, HeldLeave
    <2> HIDE DEF T, n
    <2>2. (\A w \in working : w.n # n) /\ \A a \in SeqRange(T) : Slotted(a) => Slot(a) # n
        BY <2>1 DEF Held, SeqRange
    <2> QED
        BY <2>2 DEF T, n
<1>7. ASSUME NEW m \in Nodes, GateTarget[m] = b.n
      PROVE  /\ \A w \in working : w.n # m
             /\ \A a \in SeqRange(Tail(q)) : Slotted(a) => Slot(a) # m
             /\ Slot(b) # m
    <2>1. m = Head(q).own.n
        BY <1>2, <1>3, <1>4, <1>7 DEF OwnTargets
    <2>2. b.n # m
        BY <1>7, GateApart
    <2> QED
        BY <1>3, <1>5, <1>6, <2>1, <2>2
<1>8. SameVersions(runs, runs')
    BY <1>2 DEF SameVersions
<1>9. Follows(b)
    BY <1>2, <1>7 DEF Follows
<1> QED
    BY <1>2, <1>3, <1>5, <1>8, <1>9, LoopsHead

\* A gate loops back only below the ceiling, and nobody has started its target
\* again meanwhile.
LEMMA LoopsLoopBack ==
    ASSUME Inv, RunsInv, LoopsOK, OwnTargets, NEW w \in working, LoopBack(w)
    PROVE  LoopsOK'
<1>1. PICK b : /\ q' = Append(q, b) /\ b.k = "rr1" /\ b.n = GateTarget[w.n] /\ b.n \in Nodes
               /\ b.own.n = w.n
    BY LoopBackIs
<1>2. working' = working \ {w} /\ runs' = runs /\ w.n \in GateAuto /\ w.n # 0
    BY LoopBackIs
<1>3. w.n \in Nodes /\ q \in Seq(Act) /\ Held(q, working, Taken)
    BY WorkFacts
<1>4. GateIterations(w.n) < GateCap(w.n)
    BY DEF LoopBack, LoopsBack
<1>5. b.n # 0
    BY <1>1, WorkflowAssumption
<1>6. Clear(q, w.n)
    BY <1>3, ClearWork DEF LoopsOK
<1>7. ASSUME NEW a \in SeqRange(q), Again(a), a.n = b.n
      PROVE  FALSE
    <2>1. CASE a.k \in Reruns
        <3>1. Fine(a)
            BY DEF RunsInv, PlainOK
        <3>2. a.own.n \in GateAuto /\ a.n = GateTarget[a.own.n]
            BY <2>1, <3>1 DEF Fine
        <3>3. a.own.n = w.n
            BY <1>1, <1>2, <1>3, <1>5, <1>7, <3>2, EngineAssumption DEF OwnTargets
        <3>4. Slotted(a) /\ Slot(a) = w.n
            BY <2>1, <3>3 DEF Slotted, Slot, SlotKinds
        <3> QED
            BY <1>3, <3>4 DEF Held, SeqRange
    <2>2. CASE AutoRun(a)
        BY <1>1, <1>6, <1>7, <2>2 DEF Clear
    <2> QED
        BY <1>7, <2>1, <2>2 DEF Again
<1>8. ~AutoRun(b) /\ Slot(b) = w.n
    BY <1>1 DEF AutoRun, Dispatched, Slot, Reruns
<1>9. LoopsWait(q', working)
    BY <1>1, <1>3, <1>6, <1>7, <1>8, LoopsAppend DEF LoopsOK
<1>10. LoopsWait(q', working')
    BY <1>2, <1>9, LoopsWork
<1>11. Counted(runs', q')
    <2>1. SeqRange(q') = SeqRange(q) \cup {b}
        BY <1>1, <1>3, RangeAppend
    <2>2. Counted(runs, q)
        BY DEF LoopsOK
    <2> SUFFICES ASSUME NEW n \in Nodes, GateTarget[n] # 0
                 PROVE  /\ GateIterations(n) <= GateCap(n)
                        /\ (\E a \in SeqRange(q') : Again(a) /\ a.n = GateTarget[n]) =>
                                GateIterations(n) < GateCap(n)
        BY <1>2 DEF Counted, GateIterations
    <2>3. /\ GateIterations(n) <= GateCap(n)
          /\ (\E a \in SeqRange(q) : Again(a) /\ a.n = GateTarget[n]) => GateIterations(n) < GateCap(n)
        BY <2>2 DEF Counted, GateIterations
    <2>4. b.n = GateTarget[n] => n = w.n
        BY <1>1, <1>2, <1>3, <1>5 DEF OwnTargets
    <2> QED
        BY <1>4, <2>1, <2>3, <2>4
<1> QED
    BY <1>10, <1>11 DEF LoopsOK

LEMMA LoopsDispatch ==
    ASSUME Inv, RunsInv, LoopsOK, NEW g \in 1..Len(rt), Dispatch(g)
    PROVE  LoopsOK'
<1>1. PICK n \in Nodes, v \in Nat : \E b : Starts(g, n, v, b)
    BY DispatchIs
<1>2. PICK b : /\ q' = Append(q, b) /\ b.k = "run1" /\ ~b.auto
               /\ working' = working /\ runs' = runs
    BY <1>1 DEF Starts
<1>3. ~Again(b)
    BY <1>2 DEF Again, AutoRun, Reruns
<1>4. q \in Seq(Act)
    BY Types
<1>5. LoopsWait(q', working')
    BY <1>2, <1>3, <1>4, LoopsAppend DEF LoopsOK, Again
<1>6. SeqRange(q') = SeqRange(q) \cup {b} /\ SameVersions(runs, runs')
    BY <1>2, <1>4, RangeAppend DEF SameVersions
<1>7. Counted(runs', q')
    BY <1>3, <1>6, CountedSame DEF LoopsOK
<1> QED
    BY <1>5, <1>7 DEF LoopsOK

\* The steps of the log that start no run, and start nothing again.
LEMMA LoopsAppended ==
    ASSUME Inv, RunsInv, LoopsOK, Appended,
           ~PhaseRunning, ~RunStarted, ~RerunExecute,
           ~RerunRunning, ~RerunSupersede, ~RerunInvalidate, ~RerunPending
    PROVE  LoopsOK'
<1>0. runs' = runs => SameVersions(runs, runs')
    BY DEF SameVersions
<1>1. CASE Kick \/ Suspend \/ Finalize \/ CancelFinalize \/ BudgetReported \/ Escalate
           \/ Tombstone \/ BootPaused
    <2>1. q # <<>> /\ q' = Tail(q) /\ runs' = runs /\ working' = working
        BY <1>1 DEF Kick, Suspend, Finalize, CancelFinalize, BudgetReported, Escalate,
                    Tombstone, BootPaused, At, log
    <2> QED
        BY <1>0, <2>1, LoopsStay
<1>2. CASE RunDone
    <2> DEFINE b == [Head(q) EXCEPT !.k = "done2"]
    <2>1. /\ At("done1") /\ q' = Append(Tail(q), b) /\ runs' = RunsWith(Head(q).n, Head(q).v, Head(q).out)
          /\ working' = working /\ "done1" \in RunKinds \ {"run1", "run2"}
        BY <1>2 DEF RunDone, Next1, RunKinds
    <2>h. Head(q) \in Act /\ Head(q).n \in Nodes /\ q # <<>>
        BY <2>1, HeadFacts
    <2>2. b.k = "done2" /\ b.n = Head(q).n
        BY <2>h DEF Act, ActRec
    <2>3. SameVersions(runs, runs')
        BY <2>1, StatusOnly
    <2> HIDE DEF b
    <2>4. b.k \in RunKinds \ {"run1", "run2"}
        BY <2>2 DEF RunKinds
    <2>5. Clear(q, Head(q).n)
        BY <2>1, ClearHead
    <2> QED
        BY <2>1, <2>h, <2>2, <2>3, <2>4, <2>5, LoopsRun
<1>3. CASE PhaseDone
    <2> DEFINE x == [Head(q) EXCEPT !.k = "release"]
    <2>1. /\ At("done2") /\ q' = Tail(q) /\ runs' = runs
          /\ working' = working \cup {x} /\ "done2" \in RunKinds \ {"run1", "run2"}
        BY <1>3 DEF PhaseDone, RunKinds
    <2>h. Head(q) \in Act /\ Head(q).n \in Nodes /\ q # <<>>
        BY <2>1, HeadFacts
    <2>2. x.k = "release" /\ x.n = Head(q).n
        BY <2>h DEF Act, ActRec
    <2> HIDE DEF x
    <2>4. x.k \in RunKinds \ {"run1", "run2"}
        BY <2>2 DEF RunKinds
    <2>5. Clear(q, Head(q).n)
        BY <2>1, ClearHead
    <2> QED
        BY <1>0, <2>1, <2>h, <2>2, <2>4, <2>5, LoopsRun
<1>4. CASE BudgetPending
    <2> DEFINE b == [Head(q) EXCEPT !.k = "stop"]
    <2>1. /\ At("pend") /\ runs' = runs /\ (q' = Tail(q) \/ q' = Append(Tail(q), b))
          /\ working' = working /\ "pend" \in RunKinds \ {"run1", "run2"}
        BY <1>4 DEF BudgetPending, Next1, RunKinds
    <2>h. Head(q) \in Act /\ Head(q).n \in Nodes /\ q # <<>>
        BY <2>1, HeadFacts
    <2>2. b.k = "stop" /\ b.n = Head(q).n
        BY <2>h DEF Act, ActRec
    <2> HIDE DEF b
    <2>4. b.k \in RunKinds \ {"run1", "run2"}
        BY <2>2 DEF RunKinds
    <2>5. Clear(q, Head(q).n)
        BY <2>1, ClearHead
    <2> QED
        BY <1>0, <2>1, <2>h, <2>2, <2>4, <2>5, LoopsRun
<1>5. CASE DownstreamFailed
    <2> DEFINE S == StillPending(Head(q).left \ {Head(q).i})
               b == [Head(q) EXCEPT !.left = S, !.i = Least(S)]
    <2>1. /\ At("mdf") /\ runs' = runs /\ (q' = Tail(q) \/ q' = Append(Tail(q), b))
          /\ working' = working /\ "mdf" \in RunKinds \ {"run1", "run2"}
        BY <1>5 DEF DownstreamFailed, Next1, RunKinds
    <2> HIDE DEF S
    <2>h. Head(q) \in Act /\ Head(q).k = "mdf" /\ Head(q).n \in Nodes /\ q # <<>>
        BY <2>1, HeadFacts
    <2>2. b.k = "mdf" /\ b.n = Head(q).n
        BY <2>h DEF Act, ActRec
    <2> HIDE DEF b
    <2>4. b.k \in RunKinds \ {"run1", "run2"}
        BY <2>2 DEF RunKinds
    <2>5. Clear(q, Head(q).n)
        BY <2>1, ClearHead
    <2> QED
        BY <1>0, <2>1, <2>h, <2>2, <2>4, <2>5, LoopsRun
<1>6. CASE ApproveRun
    <2> DEFINE b == [Head(q) EXCEPT !.k = "ap2"]
    <2>1. /\ At("ap1") /\ q' = Append(Tail(q), b) /\ runs' = RunsWith(Head(q).n, Head(q).v, "completed")
          /\ working' = working
        BY <1>6 DEF ApproveRun, Next1
    <2>h. Head(q) \in Act /\ q # <<>>
        BY <2>1, HeadFacts
    <2>2. b.k = "ap2"
        BY <2>h DEF Act, ActRec
    <2>3. SameVersions(runs, runs')
        BY <2>1, StatusOnly
    <2> HIDE DEF b
    <2>4. b.k \notin SlotKinds
        BY <2>2 DEF SlotKinds, RunKinds, Reruns
    <2> QED
        BY <2>1, <2>h, <2>3, <2>4, LoopsPlain
<1>7. CASE ApproveDone
    <2>1. At("ap2") /\ runs' = runs /\ q' = Append(Tail(q), Blank) /\ working' = working /\ q # <<>>
        BY <1>7 DEF ApproveDone, Next1, At
    <2>2. Blank.k \notin SlotKinds
        BY BlankPlain DEF SlotKinds, RunKinds, Reruns
    <2> QED
        BY <1>0, <2>1, <2>2, LoopsPlain
<1>8. CASE BootRunFailed
    <2> DEFINE b == [Head(q) EXCEPT !.k = "b2"]
    <2>1. /\ At("b1") /\ q' = Append(Tail(q), b) /\ runs' = RunsWith(Head(q).n, Head(q).v, "failed")
          /\ working' = working
        BY <1>8 DEF BootRunFailed, Next1
    <2>h. Head(q) \in Act /\ q # <<>>
        BY <2>1, HeadFacts
    <2>2. b.k = "b2"
        BY <2>h DEF Act, ActRec
    <2>3. SameVersions(runs, runs')
        BY <2>1, StatusOnly
    <2> HIDE DEF b
    <2>4. b.k \notin SlotKinds
        BY <2>2 DEF SlotKinds, RunKinds, Reruns
    <2> QED
        BY <2>1, <2>h, <2>3, <2>4, LoopsPlain
<1>9. CASE BootPending
    <2> DEFINE b == BootNext(phase, Head(q).n)
    <2>1. At("b2") /\ runs' = runs /\ q' = Append(Tail(q), b) /\ working' = working /\ q # <<>>
        BY <1>9 DEF BootPending, Next1, At
    <2>2. b.k \notin SlotKinds
        BY BootPlain DEF SlotKinds, RunKinds, Reruns
    <2> HIDE DEF b
    <2> QED
        BY <1>0, <2>1, <2>2, LoopsPlain
<1> QED
    BY <1>1, <1>2, <1>3, <1>4, <1>5, <1>6, <1>7, <1>8, <1>9 DEF Appended

\* A run at work, until it loops back.
LEMMA LoopsTurn ==
    ASSUME Inv, RunsInv, LoopsOK, OwnTargets, NEW w \in working,
           Gather(w) \/ Finish(w) \/ Release(w)
    PROVE  LoopsOK'
<1>0. w \in Act /\ w.n \in Nodes /\ runs' = runs
    BY WorkFacts DEF Gather, Finish, Release, log
<1>1. SameVersions(runs, runs') /\ Clear(q, w.n)
    BY <1>0, ClearWork DEF SameVersions, LoopsOK
<1>2. ASSUME NEW b, b.k \in RunKinds \ {"run1", "run2"}, b.n = w.n, q' = Append(q, b),
             working' \subseteq working
      PROVE  LoopsOK'
    BY <1>0, <1>1, <1>2, LoopsRun
<1>3. CASE Gather(w)
    <2>1. PICK x : q' = q /\ working' = (working \ {w}) \cup {x} /\ x.n = w.n
        <3>t. PICK t \in Workspace :
                working' = (working \ {w}) \cup {[w EXCEPT !.k = "llm", !.tree = t, !.ins = [m \in Nodes |-> IF m \in Upstream(w.n) THEN LatestDone(m) ELSE 0]]}
            BY <1>3 DEF Gather
        <3> DEFINE I == [m \in Nodes |-> IF m \in Upstream(w.n) THEN LatestDone(m) ELSE 0]
                   x == [w EXCEPT !.k = "llm", !.tree = t, !.ins = I]
        <3>1. q' = q /\ working' = (working \ {w}) \cup {x}
            BY <1>3, <3>t DEF Gather
        <3> HIDE DEF I
        <3>2. x.n = w.n
            BY <1>0 DEF Act, ActRec
        <3> HIDE DEF x
        <3> QED
            BY <3>1, <3>2
    <2>2. \A y \in working' : \E z \in working : z.n = y.n
        BY <2>1
    <2>3. ~Again(Blank) /\ ~Slotted(Blank)
        BY BlankPlain DEF Again, AutoRun, Dispatched, Slotted, SlotKinds, RunKinds, Reruns
    <2> QED
        BY <1>1, <2>1, <2>2, <2>3, LoopsStep
<1>4. CASE Finish(w)
    <2>1. working' \subseteq working
        BY <1>4 DEF Finish
    <2>2. CASE \E vd : q' = Append(q, [w EXCEPT !.k = "done1", !.out = Outcome(w.n), !.verdict = vd])
        <3>1. PICK vd : q' = Append(q, [w EXCEPT !.k = "done1", !.out = Outcome(w.n), !.verdict = vd])
            BY <2>2
        <3> DEFINE b == [w EXCEPT !.k = "done1", !.out = Outcome(w.n), !.verdict = vd]
        <3>2. b.k = "done1" /\ b.n = w.n
            BY <1>0 DEF Act, ActRec
        <3> HIDE DEF b
        <3>3. b.k \in RunKinds \ {"run1", "run2"}
            BY <3>2 DEF RunKinds
        <3>4. q' = Append(q, b)
            BY <3>1 DEF b
        <3> QED
            BY <1>2, <2>1, <3>2, <3>3, <3>4
    <2>3. CASE q' = Append(q, [w EXCEPT !.k = "done1", !.out = "failed"])
        <3> DEFINE b == [w EXCEPT !.k = "done1", !.out = "failed"]
        <3>2. b.k = "done1" /\ b.n = w.n
            BY <1>0 DEF Act, ActRec
        <3>4. q' = Append(q, b)
            BY <2>3
        <3> HIDE DEF b
        <3>3. b.k \in RunKinds \ {"run1", "run2"}
            BY <3>2 DEF RunKinds
        <3> QED
            BY <1>2, <2>1, <3>2, <3>3, <3>4
    <2> QED
        BY <1>4, <2>2, <2>3 DEF Finish
<1>5. CASE LoopBack(w)
    BY <1>5, LoopsLoopBack
<1>6. CASE Release(w) /\ ~LoopBack(w)
    <2> DEFINE S == StillPending(Downstream(w.n))
               x == [w EXCEPT !.k = "pend", !.tree = "none"]
               y == [w EXCEPT !.k = "mdf", !.tree = "none", !.left = S, !.i = Least(S)]
               z == [w EXCEPT !.k = "esc", !.tree = "none"]
    <2>1. q' = q \/ q' = Append(q, x) \/ q' = Append(q, y) \/ q' = Append(q, z)
        BY <1>6 DEF Release, LoopBack
    <2>2. working' \subseteq working
        BY <1>6 DEF Release
    <2> HIDE DEF S
    <2>3. /\ x.k = "pend" /\ x.n = w.n /\ y.k = "mdf" /\ y.n = w.n /\ z.k = "esc" /\ z.n = w.n
        BY <1>0 DEF Act, ActRec
    <2> HIDE DEF x, y, z
    <2>4. /\ x.k \in RunKinds \ {"run1", "run2"} /\ y.k \in RunKinds \ {"run1", "run2"}
          /\ z.k \in RunKinds \ {"run1", "run2"}
        BY <2>3 DEF RunKinds
    <2>5. CASE q' = q
        BY <1>1, <2>2, <2>5, LoopsStay
    <2> QED
        BY <1>2, <2>1, <2>2, <2>3, <2>4, <2>5
<1> QED
    BY <1>3, <1>4, <1>5, <1>6

\* Requests and the boot scan.
LEMMA LoopsAsked ==
    ASSUME Inv, RunsInv, LoopsOK, NoReruns, Requests \/ BootScan
    PROVE  LoopsOK'
<1>r. \A n \in Nodes : ~Rerun(n)
    BY DEF NoReruns, Rerun, Request1
<1>0. runs' = runs /\ working' = working /\ q \in Seq(Act)
    BY <1>r, Types DEF Requests, Pause, Cancel, Delete, Resume, Approve, BootScan, log
<1>s. SameVersions(runs, runs')
    BY <1>0 DEF SameVersions
<1>1. CASE Pause
    BY <1>0, <1>1, <1>s, LoopsStay DEF Pause
<1>2. CASE Resume
    <2>1. q' = Append(q, Blank) /\ Blank.k \notin SlotKinds
        BY <1>2, BlankPlain DEF Resume, SlotKinds, RunKinds, Reruns
    <2> QED
        BY <1>0, <1>s, <2>1, LoopsPlain
<1>3. ASSUME NEW n \in Nodes, Approve(n)
      PROVE  LoopsOK'
    <2> DEFINE u == IF runs[n] = <<>> THEN 1 ELSE runs[n][Len(runs[n])].ver
               b == [Blank EXCEPT !.k = "ap1", !.n = n, !.v = u]
    <2>1. q' = Append(q, b)
        BY <1>3 DEF Approve
    <2> HIDE DEF u
    <2>2. b.k \notin SlotKinds
        BY BlankPlain DEF SlotKinds, RunKinds, Reruns
    <2> HIDE DEF b
    <2> QED
        BY <1>0, <1>s, <2>1, <2>2, LoopsPlain
<1>4. CASE BootScan
    <2> DEFINE b == BootNext(phase, 0)
    <2>1. q' = q \/ q' = Append(q, b)
        BY <1>4 DEF BootScan
    <2>2. b.k \notin SlotKinds
        BY BootPlain DEF SlotKinds, RunKinds, Reruns
    <2> HIDE DEF b
    <2> QED
        BY <1>0, <1>s, <2>1, <2>2, LoopsPlain, LoopsStay
<1>5. CASE Cancel \/ Delete
    <2> DEFINE f == [Blank EXCEPT !.k = "cfin", !.out = "failed"]
               d == [Blank EXCEPT !.k = "del"]
    <2>1. f \in Act /\ d \in Act /\ f.k = "cfin" /\ d.k = "del"
        BY CancelAct, DeleteAct, BlankPlain
    <2>2. \/ q' = Append(q, d)
          \/ q' \in {q, q \o CancelRest, q \o <<d>> \o CancelRest}
        BY <1>5 DEF Cancel, Delete
    <2>3. CancelRest \in {<<f>>, <<>>}
        BY DEF CancelRest
    <2> HIDE DEF f, d
    <2>4. Append(q, d) \in Seq(Act) /\ q \o <<d>> = Append(q, d)
        BY <1>0, <2>1, AppendProperties, AppendIsConcat
    <2>5. /\ q \o <<f>> = Append(q, f) /\ q \o <<>> = q
          /\ Append(q, d) \o <<f>> = Append(Append(q, d), f)
          /\ Append(q, d) \o <<>> = Append(q, d)
        BY <1>0, <2>1, <2>4, AppendIsConcat, ConcatEmptySeq
    <2>6. q' \in {q, Append(q, d), Append(q, f), Append(Append(q, d), f)}
        <3>1. CASE CancelRest = <<f>>
            <4>1. q' \in {Append(q, d), q, q \o <<f>>, q \o <<d>> \o <<f>>}
                BY <2>2, <3>1
            <4> QED
                BY <2>4, <2>5, <4>1
        <3>2. CASE CancelRest = <<>>
            <4>1. q' \in {Append(q, d), q, q \o <<>>, q \o <<d>> \o <<>>}
                BY <2>2, <3>2
            <4> QED
                BY <2>4, <2>5, <4>1
        <3> QED
            BY <2>3, <3>1, <3>2
    <2>7. ~Again(f) /\ ~Slotted(f) /\ ~Again(d) /\ ~Slotted(d)
        BY <2>1 DEF Again, AutoRun, Dispatched, Slotted, SlotKinds, RunKinds, Reruns
    <2>8. /\ LoopsWait(Append(q, d), working) /\ LoopsWait(Append(q, f), working)
          /\ LoopsWait(Append(Append(q, d), f), working)
        <3>1. LoopsWait(Append(q, d), working) /\ LoopsWait(Append(q, f), working)
            BY <1>0, <2>7, LoopsAppend DEF Again, LoopsOK
        <3> QED
            BY <2>4, <2>7, <3>1, LoopsAppend DEF Again
    <2>9. SeqRange(q') \subseteq SeqRange(q) \cup {d, f}
        <3>1. /\ SeqRange(Append(q, d)) = SeqRange(q) \cup {d}
              /\ SeqRange(Append(q, f)) = SeqRange(q) \cup {f}
              /\ SeqRange(Append(Append(q, d), f)) = SeqRange(q) \cup {d} \cup {f}
            BY <1>0, <2>4, RangeAppend
        <3> QED
            BY <2>6, <3>1
    <2>10. \A a \in SeqRange(q') : Again(a) => a \in SeqRange(q)
        BY <2>7, <2>9
    <2>11. Counted(runs', q')
        BY <1>s, <2>10, CountedSame DEF LoopsOK
    <2> QED
        BY <1>0, <2>6, <2>8, <2>11 DEF LoopsOK
<1> QED
    BY <1>1, <1>2, <1>3, <1>4, <1>5, <1>r DEF Requests

\* The schedule loop, but for its dispatches.
LEMMA LoopsLoop ==
    ASSUME Inv, RunsInv, LoopsOK, NEW g \in 1..Len(rt),
           Top(g) \/ CheckBudget(g) \/ Ready(g) \/ Settle(g) \/ Integrate(g) \/ Reported(g)
    PROVE  LoopsOK'
<1>0. runs' = runs /\ working' = working
    BY DEF Top, CheckBudget, Ready, Settle, Integrate, Reported, log
<1>s. SameVersions(runs, runs')
    BY <1>0 DEF SameVersions
<1>1. CASE Settle(g)
    <2> DEFINE x == [Blank EXCEPT !.k = "susp", !.g = g]
               y == [Blank EXCEPT !.k = "fin", !.g = g, !.out = FinalStatus]
    <2>1. q' = q \/ q' = Append(q, x) \/ q' = Append(q, y)
        BY <1>1 DEF Settle
    <2>2. x.k = "susp" /\ x.n = 0 /\ y.k = "fin" /\ y.n = 0
        BY DEF Blank
    <2> HIDE DEF x, y
    <2> QED
        BY <1>0, <1>s, <2>1, <2>2, LoopsPlain, LoopsStay
<1>2. CASE ~Settle(g)
    <2>1. q' = q
        BY <1>2 DEF Top, CheckBudget, Ready, Integrate, Reported
    <2> QED
        BY <1>0, <1>s, <2>1, LoopsStay
<1> QED
    BY <1>1, <1>2

LEMMA LoopsNext ==
    ASSUME Inv, RunsInv, LoopsOK, NoReruns, OwnTargets, [Next]_vars
    PROVE  LoopsOK'
<1>1. CASE Sync
    <2>1. ASSUME NEW g \in 1..Len(rt), Top(g) \/ CheckBudget(g) \/ Ready(g) \/ Dispatch(g) \/ Settle(g)
          PROVE  LoopsOK'
        BY <2>1, LoopsLoop, LoopsDispatch
    <2>2. ASSUME NEW w \in working, Release(w)
          PROVE  LoopsOK'
        BY <2>2, LoopsTurn
    <2> QED
        BY <1>1, <2>1, <2>2 DEF Sync
<1>2. CASE LoopIo
    BY <1>2, LoopsLoop DEF LoopIo
<1>3. CASE Turn
    BY <1>3, LoopsTurn DEF Turn
<1>4. CASE Appended
    <2>1. CASE PhaseRunning
        BY <2>1, LoopsPhaseRunning
    <2>2. CASE RunStarted
        BY <2>2, LoopsRunStarted
    <2>3. CASE RerunExecute
        BY <2>3, LoopsRestart
    <2>4. CASE RerunRunning \/ RerunSupersede \/ RerunInvalidate \/ RerunPending
        BY <2>4, LoopsRerun
    <2> QED
        BY <1>4, <2>1, <2>2, <2>3, <2>4, LoopsAppended
<1>5. CASE BootScan \/ Requests
    BY <1>5, LoopsAsked
<1>6. CASE Crash
    <2>1. q' = <<>> /\ Len(q') = 0 /\ working' = {} /\ runs' = runs
        BY <1>6 DEF Crash, log
    <2>2. SameVersions(runs, runs') /\ SeqRange(q') = {} /\ LoopsWait(q', working')
        BY <2>1 DEF SameVersions, SeqRange, LoopsWait
    <2>3. Counted(runs', q')
        BY <2>2, CountedSame DEF LoopsOK
    <2> QED
        BY <2>2, <2>3 DEF LoopsOK
<1>7. CASE (\E w \in working : Overspend(w)) \/ UNCHANGED vars
    <2>1. q' = q /\ runs' = runs /\ working' = working
        BY <1>7 DEF Overspend, vars, log
    <2>2. SameVersions(runs, runs')
        BY <2>1 DEF SameVersions
    <2> QED
        BY <2>1, <2>2, LoopsStay
<1> QED
    BY <1>1, <1>2, <1>3, <1>4, <1>5, <1>6, <1>7 DEF Next, EngineStep, Idle

LEMMA LoopsInit == Init => LoopsOK
<1> SUFFICES ASSUME Init PROVE LoopsOK
    OBVIOUS
<1>1. /\ \A n \in Nodes : Len(runs[n]) = 0
      /\ q = <<Blank>> /\ Len(q) = 1 /\ q[1] = Blank /\ working = {}
    BY DEF Init
<1>2. ~Again(Blank) /\ ~Slotted(Blank)
    BY BlankPlain DEF Again, AutoRun, Dispatched, Slotted, SlotKinds, RunKinds, Reruns
<1>3. LoopsWait(q, working)
    BY <1>1, <1>2 DEF LoopsWait, Again
<1>4. SeqRange(q) = {Blank}
    BY <1>1 DEF SeqRange
<1>5. Counted(runs, q)
    <2> SUFFICES ASSUME NEW n \in Nodes, GateTarget[n] # 0
                 PROVE  LET c == Cardinality({i \in Indices(runs, GateTarget[n]) : runs[GateTarget[n]][i].auto}) IN
                        /\ c <= GateCap(n)
                        /\ (\E a \in SeqRange(q) : Again(a) /\ a.n = GateTarget[n]) => c < GateCap(n)
        BY DEF Counted
    <2>1. {i \in Indices(runs, GateTarget[n]) : runs[GateTarget[n]][i].auto} = {}
        <3>1. GateTarget[n] \in Nodes
            BY EngineAssumption
        <3> QED
            BY <1>1, <3>1 DEF Indices
    <2>2. Cardinality({}) = 0 /\ 0 <= GateCap(n)
        BY FS_EmptySet, EngineAssumption DEF GateCap
    <2> QED
        BY <1>2, <1>4, <2>1, <2>2
<1> QED
    BY <1>3, <1>5 DEF LoopsOK

\* A gate loops back to its target no more often than its maxIterations says,
\* kept between one and ten, whatever crashes, resumes and other gates happen in
\* between: the count is read from the folded runs, and no second verdict is
\* given before the run that the last one asked for is among them.
THEOREM LoopsBounded ==
    ASSUME NoReruns, OwnTargets
    PROVE  Spec /\ [][Orderly]_vars /\ [][LoopsInOrder]_vars => []AutoLoopBounded
<1>1. Inv /\ RunsInv /\ LoopsOK /\ [Next]_vars => LoopsOK'
    BY LoopsNext
<1>2. LoopsOK => AutoLoopBounded
    BY DEF LoopsOK, Counted, AutoLoopBounded, GateIterations
<1> QED
    BY <1>1, <1>2, LoopsInit, RunsAlways, InvAlways, PTL DEF Spec

-----------------------------------------------------------------------------
\* What the loop has seen before it starts a wave.

\* The user does not resume while a budget stop is being written.
AfterReport == Resume => \A g \in 1..Len(rt) : rt[g].pc # "report"

Halted(r) == r.paused \/ r.failed

\* A runtime with nothing in flight has nothing left to merge, as far as its
\* loop could see.
Clean(r) == InFlightOf(r) = {} => unmerged = {} \/ blind

\* Between two awaits of the loop nothing that it has looked at changes.
Seen(r) ==
    /\ r.pc = "report" => Halted(r)
    /\ r.pc = "check" => Halted(r) \/ Clean(r)
    /\ r.pc = "ready" => Halted(r) \/ (meter = "clear" /\ Clean(r))
    /\ r.pc = "dispatch" /\ r.todo # {} => meter = "clear" /\ Clean(r)

Apart(W) ==
    /\ (\E w \in W : ReleasesAtOnce(w)) => \A g \in 1..Len(rt) : rt[g].pc \notin SyncPc
    /\ \A w, x \in W : ReleasesAtOnce(w) /\ ReleasesAtOnce(x) => w = x

\* At most one continuation is ready at a time: a run that goes on without
\* I/O, or a loop between two awaits.
SeenOK == Apart(working) /\ \A g \in 1..Len(rt) : Seen(rt[g])

NoSync == \A g \in 1..Len(rt) : rt[g].pc \notin SyncPc

\* The loops of S are those of R, where they look at something.
Steady(R, S) ==
    \A g \in 1..Len(S) : S[g].pc \in {"check", "report", "ready", "dispatch"} =>
        /\ g \in 1..Len(R) /\ R[g].pc = S[g].pc
        /\ Halted(R[g]) => Halted(S[g])

LEMMA SeenSteady ==
    ASSUME SeenOK, NoSync, Steady(rt, rt'), \A w \in working' : ~ReleasesAtOnce(w)
    PROVE  SeenOK'
<1>1. ASSUME NEW g \in 1..Len(rt')
      PROVE  Seen(rt[g])'
    <2>1. CASE rt'[g].pc \in {"check", "report", "ready", "dispatch"}
        <3>1. g \in 1..Len(rt) /\ rt[g].pc = rt'[g].pc /\ (Halted(rt[g]) => Halted(rt'[g]))
            BY <2>1 DEF Steady
        <3>2. rt'[g].pc = "report"
            BY <2>1, <3>1 DEF NoSync, SyncPc
        <3>3. Halted(rt'[g])
            BY <3>1, <3>2 DEF SeenOK, Seen
        <3> QED
            BY <3>2, <3>3 DEF Seen, Halted
    <2>2. CASE rt'[g].pc \notin {"check", "report", "ready", "dispatch"}
        BY <2>2 DEF Seen
    <2> QED
        BY <2>1, <2>2
<1>4. Apart(working)'
    BY DEF Apart, ReleasesAtOnce
<1> QED
    BY <1>1, <1>4 DEF SeenOK

LEMMA QuietSteady ==
    ASSUME NEW R \in Seq(Awake), NEW S, NEW c, NEW D, Quiet(R, S, c, D)
    PROVE  Steady(R, S)
BY DEF Quiet, Steady, Halted

LEMMA AlikeSteady ==
    ASSUME Inv, Alike(Ensured, rt'), Yielded, \A g \in 1..Len(rt) : rt[g].pc # "report"
    PROVE  Steady(rt, rt')
<1>1. \A g \in 1..Len(Ensured) : Ensured[g].pc \notin {"check", "report", "ready", "dispatch"}
    <2>1. CASE cur # 0
        BY <2>1, EnsuredIs DEF Yielded, SyncPc
    <2>2. CASE cur = 0
        BY <2>2, EnsuredIs, Types DEF Yielded, SyncPc
    <2> QED
        BY <2>1, <2>2
<1> QED
    BY <1>1 DEF Alike, Steady

LEMMA AloneInSync ==
    ASSUME SeenOK, NEW g \in 1..Len(rt), rt[g].pc \in SyncPc \/ Yielded
    PROVE  \A w \in working : ~ReleasesAtOnce(w)
BY DEF SeenOK, Apart, Yielded

\* A step of loop g.
LEMMA SeenOne ==
    ASSUME Inv, RunsInv, SeenOK, NEW g \in 1..Len(rt), rt[g].pc # "idle",
           \A w \in working : ~ReleasesAtOnce(w), working' = working,
           Len(rt') = Len(rt), \A h \in 1..Len(rt) : h # g => rt'[h] = rt[h],
           Seen(rt[g])'
    PROVE  SeenOK'
<1>1. \A h \in 1..Len(rt) : h # g => rt[h].pc = "idle"
    BY DEF RunsInv, LoopOK
<1>2. ASSUME NEW h \in 1..Len(rt')
      PROVE  Seen(rt[h])'
    <2>1. CASE h = g
        BY <2>1
    <2>2. CASE h # g
        <3>1. rt'[h].pc = "idle"
            BY <1>1, <2>2
        <3> QED
            BY <3>1 DEF Seen
    <2> QED
        BY <2>1, <2>2
<1>3. Apart(working)'
    BY DEF Apart, ReleasesAtOnce
<1> QED
    BY <1>2, <1>3 DEF SeenOK

\* The loop looks at the flags of its own runtime.
LEMMA OwnRuntime ==
    ASSUME Inv, RunsInv, NEW g \in 1..Len(rt), rt[g].pc # "idle"
    PROVE  /\ rt \in Seq(Awake) /\ rt[g] \in Runtime /\ Len(rt) \in Nat
           /\ g = cur \/ cur = 0
           /\ rt[g].pc # "top" => rt[g].sr = g
BY Types DEF RunsInv, LoopOK

LEMMA SeenTop ==
    ASSUME Inv, RunsInv, SeenOK, NEW g \in 1..Len(rt), Top(g)
    PROVE  SeenOK'
<1>1. rt[g].pc = "top" /\ working' = working
    BY DEF Top
<1>2. \A w \in working : ~ReleasesAtOnce(w)
    BY <1>1, AloneInSync DEF SyncPc
<1>3. /\ Len(rt') = Len(rt) /\ \A h \in 1..Len(rt) : h # g => rt'[h] = rt[h]
      /\ \/ rt'[g].pc \in {"idle", "integrate"}
         \/ rt'[g].pc = "check" /\ (rt'[g].failed \/ InFlightOf(rt'[g]) # {})
    BY TopIs
<1>4. Seen(rt[g])'
    BY <1>3 DEF Seen, Halted, Clean, InFlightOf
<1> QED
    BY <1>1, <1>2, <1>3, <1>4, SeenOne

LEMMA SeenIntegrate ==
    ASSUME Inv, RunsInv, SeenOK, Yielded, NEW g \in 1..Len(rt), Integrate(g)
    PROVE  SeenOK'
<1>1. rt[g].pc = "integrate" /\ working' = working
    BY DEF Integrate
<1>2. rt \in Seq(Awake) /\ rt[g] \in Runtime /\ rt[g].sr = g
    BY <1>1, OwnRuntime
<1>3. CASE /\ rt' = WithPc(rt, g, "check")
           /\ blind' = TRUE
    <2>1. Moved(rt, rt', g, "check")
        BY <1>2, <1>3, PcMoved
    <2>2. Seen(rt[g])'
        BY <1>3, <2>1 DEF Moved, Seen, Clean
    <2> QED
        BY <1>1, <2>1, <2>2, AloneInSync, SeenOne DEF Moved
<1>4. CASE \E rest \in SUBSET unmerged :
              /\ unmerged' = rest
              /\ rt' = [rt EXCEPT ![g].paused = @ \/ rest # {}, ![g].pc = "check"]
    <2>3. PICK rest \in SUBSET unmerged :
            /\ unmerged' = rest
            /\ rt' = [rt EXCEPT ![g].paused = @ \/ rest # {}, ![g].pc = "check"]
        BY <1>4
    <2> DEFINE x == rt[g].paused \/ rest # {}
               P == WithPaused(rt, g, x)
    <2>4. rt' = WithPc(P, g, "check")
        BY <2>3 DEF WithPc, WithPaused
    <2>5. x \in BOOLEAN /\ (rt[g].paused => x) /\ (~x => rest = {})
        OBVIOUS
    <2> HIDE DEF x
    <2>6. P \in Seq(Awake) /\ Len(P) = Len(rt) /\ Moved(rt, P, g, rt[g].pc) /\ (x => P[g].paused)
        <3>1. P \in Seq(Awake) /\ Len(P) = Len(rt) /\ Moved(rt, P, g, rt[g].pc)
            BY <1>2, <2>5, PausedField, PausedMoved
        <3>2. x => P[g].paused
            <4> SUFFICES ASSUME x PROVE P[g].paused
                OBVIOUS
            <4>1. WithPaused(rt, g, TRUE)[g].paused
                BY <1>2, QuietStop
            <4>2. x = TRUE
                BY <2>5
            <4> QED
                BY <4>1, <4>2
        <3> QED
            BY <3>1, <3>2
    <2> HIDE DEF P
    <2>7. Moved(P, rt', g, "check")
        BY <2>4, <2>6, PcMoved
    <2>8. /\ Len(rt') = Len(rt) /\ \A h \in 1..Len(rt) : h # g => rt'[h] = rt[h]
          /\ rt'[g].pc = "check" /\ (x => rt'[g].paused)
        BY <2>6, <2>7 DEF Moved
    <2>9. unmerged' = {} \/ Halted(rt'[g])
        BY <2>3, <2>5, <2>8 DEF Halted
    <2>10. Seen(rt[g])'
        BY <2>8, <2>9 DEF Seen, Clean, Halted, InFlightOf
    <2> QED
        BY <1>1, <2>8, <2>10, AloneInSync, SeenOne
<1> QED
    BY <1>2, <1>3, <1>4 DEF Integrate, WithPc

LEMMA SeenCheck ==
    ASSUME Inv, RunsInv, SeenOK, NEW g \in 1..Len(rt), CheckBudget(g)
    PROVE  SeenOK'
<1>1. rt[g].pc = "check" /\ working' = working /\ unmerged' = unmerged /\ blind' = blind
    BY DEF CheckBudget, tree
<1>2. rt \in Seq(Awake) /\ rt[g] \in Runtime /\ rt[g].sr = g
    BY <1>1, OwnRuntime
<1>3. \A w \in working : ~ReleasesAtOnce(w)
    BY <1>1, AloneInSync DEF SyncPc
<1>4. Halted(rt[g]) \/ Clean(rt[g])
    BY <1>1 DEF SeenOK, Seen
<1>5. \/ Halted(rt[g]) /\ rt' = WithPc(rt, g, "ready")
      \/ /\ ~Halted(rt[g]) /\ meter' = meter /\ meter = "clear"
         /\ rt' = WithPc(WithPaused(rt, g, FALSE), g, "ready")
      \/ \E p \in {"ready", "report"} : rt' = WithPc(WithPaused(rt, g, TRUE), g, p)
    <2>1. CASE Halted(rt[g])
        BY <1>2, <2>1 DEF CheckBudget, WithPc, Halted
    <2>2. CASE ~Halted(rt[g])
        <3>1. PICK over \in OverBudget :
                /\ rt' = [rt EXCEPT ![g].paused = over,
                            ![g].pc = IF over /\ meter # "reported" THEN "report" ELSE "ready"]
                /\ meter' = IF over THEN "reported" ELSE meter
            BY <1>2, <2>2 DEF CheckBudget, Halted
        <3>2. over = TRUE \/ (over = FALSE /\ meter = "clear")
            BY <3>1 DEF OverBudget
        <3>3. CASE over = TRUE
            BY <3>1, <3>3 DEF WithPc, WithPaused
        <3>4. CASE over = FALSE /\ meter = "clear"
            BY <2>2, <3>1, <3>4 DEF WithPc, WithPaused
        <3> QED
            BY <3>2, <3>3, <3>4
    <2> QED
        BY <2>1, <2>2
<1>6. CASE Halted(rt[g]) /\ rt' = WithPc(rt, g, "ready")
    <2>1. Moved(rt, rt', g, "ready")
        BY <1>2, <1>6, PcMoved
    <2>2. Seen(rt[g])'
        BY <1>6, <2>1 DEF Moved, Seen, Halted
    <2> QED
        BY <1>1, <1>3, <2>1, <2>2, SeenOne DEF Moved
<1>7. CASE /\ ~Halted(rt[g]) /\ meter' = meter /\ meter = "clear"
           /\ rt' = WithPc(WithPaused(rt, g, FALSE), g, "ready")
    <2> DEFINE P == WithPaused(rt, g, FALSE)
    <2>1. P \in Seq(Awake) /\ Len(P) = Len(rt) /\ Moved(rt, P, g, rt[g].pc)
        BY <1>2, <1>7, PausedField, PausedMoved DEF Halted
    <2> HIDE DEF P
    <2>2. Moved(P, rt', g, "ready")
        BY <1>7, <2>1, PcMoved DEF P
    <2>3. Moved(rt, rt', g, "ready")
        BY <2>1, <2>2, MovedTrans
    <2>4. InFlightOf(rt[g]) = {} => unmerged = {} \/ blind
        BY <1>4, <1>7 DEF Clean
    <2>5. InFlightOf(rt'[g]) = {} => unmerged' = {} \/ blind'
        BY <1>1, <2>3, <2>4 DEF Moved
    <2>6. Seen(rt[g])'
        BY <1>7, <2>3, <2>5 DEF Moved, Seen, Clean, InFlightOf
    <2> QED
        BY <1>1, <1>3, <2>3, <2>6, SeenOne DEF Moved
<1>8. CASE \E p \in {"ready", "report"} : rt' = WithPc(WithPaused(rt, g, TRUE), g, p)
    <2>0. PICK p \in {"ready", "report"} : rt' = WithPc(WithPaused(rt, g, TRUE), g, p)
        BY <1>8
    <2> DEFINE P == WithPaused(rt, g, TRUE)
    <2>1. P \in Seq(Awake) /\ Len(P) = Len(rt) /\ Moved(rt, P, g, rt[g].pc) /\ P[g].paused
        BY <1>2, PausedField, PausedMoved, QuietStop
    <2> HIDE DEF P
    <2>2. Moved(P, rt', g, p)
        BY <2>0, <2>1, PcMoved DEF P
    <2>3. Moved(rt, rt', g, p) /\ rt'[g].paused
        BY <2>1, <2>2, MovedTrans DEF Moved
    <2>4. Seen(rt[g])'
        BY <2>3 DEF Moved, Seen, Halted
    <2> QED
        BY <1>1, <1>3, <2>3, <2>4, SeenOne DEF Moved
<1> QED
    BY <1>5, <1>6, <1>7, <1>8

LEMMA SeenReported ==
    ASSUME Inv, RunsInv, SeenOK, Yielded, NEW g \in 1..Len(rt), Reported(g)
    PROVE  SeenOK'
<1>1. rt[g].pc = "report" /\ working' = working /\ rt' = WithPc(rt, g, "ready")
    BY DEF Reported, WithPc
<1>2. Halted(rt[g]) /\ rt \in Seq(Awake)
    BY <1>1, Types DEF SeenOK, Seen
<1>3. Moved(rt, rt', g, "ready")
    BY <1>1, <1>2, PcMoved
<1>4. Seen(rt[g])'
    BY <1>2, <1>3 DEF Moved, Seen, Halted
<1> QED
    BY <1>1, <1>3, <1>4, AloneInSync, SeenOne DEF Moved

LEMMA SeenReady ==
    ASSUME Inv, RunsInv, SeenOK, NEW g \in 1..Len(rt), Ready(g)
    PROVE  SeenOK'
<1> DEFINE r == rt[g]
           todo == Startable(r)
           room == Capacity(r)
           e == [r EXCEPT !.pc = "dispatch", !.todo = todo, !.room = room]
<1>1. r.pc = "ready" /\ working' = working /\ unmerged' = unmerged /\ blind' = blind /\ meter' = meter
    BY DEF Ready, tree
<1>2. rt \in Seq(Awake) /\ r \in Runtime /\ r.sr = g
    BY <1>1, OwnRuntime
<1>3. rt' = [rt EXCEPT ![g] = e]
    BY <1>2 DEF Ready
<1>4. todo # {} => ~Halted(r)
    BY DEF Startable, Halted
<1> HIDE DEF todo, room
<1>5. e.pc = "dispatch" /\ e.todo = todo /\ e.inFlight = r.inFlight
    BY <1>2 DEF Runtime
<1> HIDE DEF e
<1>6. Len(rt') = Len(rt) /\ rt'[g] = e /\ \A h \in 1..Len(rt) : h # g => rt'[h] = rt[h]
    BY <1>2, <1>3, Replaced
<1>7. ~Halted(r) => meter = "clear" /\ (InFlightOf(r) = {} => unmerged = {} \/ blind)
    BY <1>1 DEF SeenOK, Seen, Clean
<1>8. Seen(rt[g])'
    BY <1>1, <1>4, <1>5, <1>6, <1>7 DEF Seen, Clean, InFlightOf
<1>9. \A w \in working : ~ReleasesAtOnce(w)
    BY <1>1, AloneInSync DEF SyncPc
<1> QED
    BY <1>1, <1>6, <1>8, <1>9, SeenOne

LEMMA SeenDispatch ==
    ASSUME Inv, RunsInv, SeenOK, NEW g \in 1..Len(rt), Dispatch(g)
    PROVE  SeenOK'
<1>0. PICK n \in Nodes, v \in Nat : \E b : Starts(g, n, v, b)
    BY DispatchIs
<1>1. PICK b : Starts(g, n, v, b)
    BY <1>0
<1>2. /\ rt[g].pc = "dispatch" /\ rt[g].todo # {} /\ meter' = meter
    BY DEF Dispatch
<1>3. /\ Len(rt') = Len(rt) /\ \A h \in 1..Len(rt) : h # g => rt'[h] = rt[h]
      /\ rt'[g].pc = "dispatch" /\ InFlightOf(rt'[g]) # {} /\ working' = working
    BY <1>1 DEF Starts
<1>4. meter = "clear"
    BY <1>2 DEF SeenOK, Seen
<1>5. Seen(rt[g])'
    BY <1>2, <1>3, <1>4 DEF Seen, Clean, InFlightOf
<1>6. \A w \in working : ~ReleasesAtOnce(w)
    BY <1>2, AloneInSync DEF SyncPc
<1> QED
    BY <1>2, <1>3, <1>5, <1>6, SeenOne

\* A loop that has nothing more to start goes round, waits or comes to rest.
LEMMA SettleIs ==
    ASSUME Inv, RunsInv, NEW g \in 1..Len(rt), Settle(g)
    PROVE  /\ Len(rt') = Len(rt) /\ \A h \in 1..Len(rt) : h # g => rt'[h] = rt[h]
           /\ rt'[g].pc \in {"idle", "top", "suspend", "finalize"}
<1>1. rt[g].pc = "dispatch"
    BY DEF Settle
<1>2. rt \in Seq(Awake) /\ rt[g].sr = g
    BY <1>1, OwnRuntime
<1>3. \/ rt' = AfterOnce(rt, g)
      \/ rt' = WithPc(rt, g, "suspend") \/ rt' = WithPc(rt, g, "finalize")
    BY <1>2 DEF Settle, WithPc
<1>4. CASE rt' = AfterOnce(rt, g)
    BY <1>2, <1>4, AfterOnceIs
<1>5. ASSUME NEW p \in {"suspend", "finalize"}, rt' = WithPc(rt, g, p)
      PROVE  Moved(rt, rt', g, p)
    BY <1>2, <1>5, PcMoved
<1> QED
    BY <1>3, <1>4, <1>5 DEF Moved

LEMMA SeenSettle ==
    ASSUME Inv, RunsInv, SeenOK, NEW g \in 1..Len(rt), Settle(g)
    PROVE  SeenOK'
<1>1. rt[g].pc = "dispatch" /\ working' = working
    BY DEF Settle
<1>2. /\ Len(rt') = Len(rt) /\ \A h \in 1..Len(rt) : h # g => rt'[h] = rt[h]
      /\ rt'[g].pc \in {"idle", "top", "suspend", "finalize"}
    BY SettleIs
<1>3. Seen(rt[g])'
    BY <1>2 DEF Seen
<1>4. \A w \in working : ~ReleasesAtOnce(w)
    BY <1>1, AloneInSync DEF SyncPc
<1> QED
    BY <1>1, <1>2, <1>3, <1>4, SeenOne

\* The end of a run in its runtime.
LEMMA SteadyFinally ==
    ASSUME Inv, cur \in 1..Len(rt), NEW n \in Nodes,
           NEW R \in Seq(Awake), Len(R) = Len(rt), Quiet(rt, R, cur, {}),
           rt' = Finally(R, n, cur, cur)
    PROVE  Steady(rt, rt')
<1>1. Quiet(R, rt', cur, {n})
    BY QuietFinally
<1>2. Quiet(rt, rt', cur, {} \cup {n})
    BY <1>1, Types, QuietTrans
<1> QED
    BY <1>2, Types, QuietSteady

\* The steps of node runs leave the loops alone, ...
LEMMA SteadyRuns ==
    ASSUME Inv, RunsInv, NEW w,
           \/ PhaseRunning \/ RunStarted \/ RunDone \/ PhaseDone
           \/ w \in working /\ (Gather(w) \/ Finish(w) \/ Overspend(w))
    PROVE  rt' = rt /\ Steady(rt, rt')
<1>1. rt' = rt
    BY DEF PhaseRunning, RunStarted, RunDone, PhaseDone, Gather, Finish, Overspend
<1> QED
    BY <1>1, Types, QuietNothing, QuietSteady

\* ... its end asks them to look again, ...
LEMMA SteadyRelease ==
    ASSUME Inv, RunsInv, Forward, NEW w \in working, Release(w)
    PROVE  Steady(rt, rt')
<1>1. cur \in 1..Len(rt) /\ w.g = cur /\ w.n \in Nodes /\ rt \in Seq(Awake) /\ Quiet(rt, rt, cur, {})
    BY WorkFacts, Types, QuietNothing
<1>2. ~LoopsBack(w)
    BY DEF Forward, LoopsBack
<1> DEFINE R == WithFailed(rt, cur, TRUE)
<1>3. \/ rt' = rt
      \/ rt' = Finally(R, w.n, cur, cur)
      \/ rt' = R
      \/ rt' = Finally(rt, w.n, cur, cur)
    <2>1. rt' \in {rt, Finally([rt EXCEPT ![w.g].failed = TRUE], w.n, w.g, cur),
                   [rt EXCEPT ![w.g].failed = TRUE], Finally(rt, w.n, w.g, cur)}
        BY <1>2 DEF Release
    <2> QED
        BY <1>1, <2>1 DEF WithFailed
<1>4. Quiet(rt, R, cur, {}) /\ R \in Seq(Awake) /\ Len(R) = Len(rt)
    BY <1>1, QuietStop
<1> HIDE DEF R
<1> QED
    BY <1>1, <1>3, <1>4, QuietSteady, SteadyFinally

\* ... and so do the steps of the log, ...
LEMMA SteadyEnds ==
    ASSUME Inv, RunsInv,
           \/ BudgetPending \/ BudgetReported \/ DownstreamFailed \/ Escalate
           \/ Kick \/ Suspend \/ Finalize \/ CancelFinalize \/ Tombstone
           \/ ApproveRun \/ BootRunFailed \/ BootPending \/ BootPaused \/ BootScan
    PROVE  working' = working /\ Steady(rt, rt')
<1>0. rt \in Seq(Awake) /\ Quiet(rt, rt, cur, {})
    BY Types, QuietNothing
<1>1. working' = working
    BY DEF BudgetPending, BudgetReported, DownstreamFailed, Escalate, Kick, Suspend, Finalize,
           CancelFinalize, Tombstone, ApproveRun, BootRunFailed, BootPending, BootPaused, BootScan
<1>2. CASE BudgetPending \/ BudgetReported \/ DownstreamFailed \/ Escalate
    <2>1. \/ At("pend") /\ "pend" \in RunKinds
          \/ At("stop") /\ "stop" \in RunKinds
          \/ At("mdf") /\ "mdf" \in RunKinds
          \/ At("esc") /\ "esc" \in RunKinds
        BY <1>2 DEF BudgetPending, BudgetReported, DownstreamFailed, Escalate, RunKinds
    <2>2. cur \in 1..Len(rt) /\ Head(q).g = cur /\ Head(q).n \in Nodes
        BY <2>1, HeadRunFacts
    <2> DEFINE R == WithPaused(rt, cur, TRUE)
    <2>3. \/ rt' = R \/ rt' = Finally(R, Head(q).n, cur, cur)
          \/ rt' = rt \/ rt' = Finally(rt, Head(q).n, cur, cur)
        BY <1>2, <2>2 DEF BudgetPending, BudgetReported, DownstreamFailed, Escalate, WithPaused
    <2>4. Quiet(rt, R, cur, {}) /\ R \in Seq(Awake) /\ Len(R) = Len(rt)
        BY <1>0, <2>2, QuietStop
    <2> HIDE DEF R
    <2> QED
        BY <1>0, <1>1, <2>2, <2>3, <2>4, QuietSteady, SteadyFinally
<1>3. CASE Kick
    <2>1. Quiet(rt, rt', cur, {})
        BY <1>3, Types, QuietRequest DEF Kick
    <2> QED
        BY <1>0, <1>1, <2>1, QuietSteady
<1>4. CASE Suspend \/ Finalize
    <2>1. At("susp") \/ At("fin")
        BY <1>4 DEF Suspend, Finalize
    <2> DEFINE g == Head(q).g
    <2>2. g \in 1..Len(rt) /\ rt' = AfterOnce(rt, g)
        BY <1>4, <2>1, HeadFacts DEF Fine, Suspend, Finalize
    <2> HIDE DEF g
    <2>3. Len(rt') = Len(rt) /\ rt'[g].pc \in {"top", "idle"}
          /\ \A h \in 1..Len(rt) : h # g => rt'[h] = rt[h]
        BY <1>0, <2>2, AfterOnceIs
    <2> QED
        BY <1>1, <2>3 DEF Steady
<1>5. CASE \/ CancelFinalize \/ Tombstone \/ ApproveRun \/ BootRunFailed
           \/ BootPending \/ BootPaused \/ BootScan
    <2>1. rt' = rt
        BY <1>5 DEF CancelFinalize, Tombstone, ApproveRun, BootRunFailed, BootPending, BootPaused, BootScan
    <2> QED
        BY <1>0, <1>1, <2>1, QuietSteady
<1> QED
    BY <1>2, <1>3, <1>4, <1>5

\* ... the requests and the approval that is done; a resume clears the flags.
LEMMA SteadyAsked ==
    ASSUME Inv, RunsInv, Forward, Yielded, Requests \/ ApproveDone, Resume => AfterReport
    PROVE  working' = working /\ Steady(rt, rt')
<1>0. rt \in Seq(Awake) /\ Quiet(rt, rt, cur, {})
    BY Types, QuietNothing
<1>1. working' = working
    BY NoRerun DEF Requests, ApproveDone, Pause, Cancel, Delete, Resume, Approve
<1>2. CASE Pause
    <2> DEFINE R == WithPaused(rt, cur, TRUE)
    <2>1. cur \in 1..Len(rt) /\ rt' = Request(R, cur)
        BY <1>2, Types DEF Pause, WithPaused
    <2>2. Quiet(rt, R, cur, {}) /\ R \in Seq(Awake) /\ Len(R) = Len(rt)
        BY <1>0, <2>1, QuietStop
    <2> HIDE DEF R
    <2>3. Quiet(R, rt', cur, {})
        BY <2>1, <2>2, QuietRequest
    <2>4. Quiet(rt, rt', cur, {} \cup {})
        BY <1>0, <2>2, <2>3, QuietTrans
    <2> QED
        BY <1>0, <1>1, <2>4, QuietSteady
<1>3. CASE Cancel \/ Delete
    <2>1. rt' = rt \/ (cur # 0 /\ rt' = WithFailed(rt, cur, TRUE))
        BY <1>3 DEF Cancel, Delete, CancelNow, WithFailed
    <2>2. Quiet(rt, rt', cur, {})
        BY <1>0, <2>1, Types, QuietStop
    <2> QED
        BY <1>0, <1>1, <2>2, QuietSteady
<1>4. CASE Resume
    <2>1. Alike(Ensured, rt')
        BY <1>4, ResumeAlike
    <2> QED
        BY <1>1, <1>4, <2>1, AlikeSteady DEF AfterReport
<1>5. CASE ApproveDone
    <2>1. rt' = Ensured
        BY <1>5 DEF ApproveDone
    <2>2. CASE cur # 0
        BY <1>1, <2>1, <2>2, EnsuredIs DEF Steady
    <2>3. CASE cur = 0
        BY <1>1, <2>1, <2>3, EnsuredIs, Types DEF Steady
    <2> QED
        BY <2>2, <2>3
<1>6. ASSUME NEW n \in Nodes, Approve(n)
      PROVE  Steady(rt, rt')
    <2>1. rt' = rt
        BY <1>6 DEF Approve
    <2> QED
        BY <1>0, <2>1, QuietSteady
<1> QED
    BY <1>1, <1>2, <1>3, <1>4, <1>5, <1>6, NoRerun DEF Requests

\* After a step of a node run no run goes on without I/O.
LEMMA RunsWait ==
    ASSUME Inv, RunsInv, Yielded, NEW w,
           \/ PhaseRunning \/ RunStarted \/ RunDone
           \/ w \in working /\ (Gather(w) \/ Finish(w) \/ Overspend(w))
    PROVE  \A x \in working' : ~ReleasesAtOnce(x)
<1>0. \A x \in working : ~ReleasesAtOnce(x)
    BY DEF Yielded
<1>1. CASE PhaseRunning \/ RunDone \/ (w \in working /\ (Finish(w) \/ Overspend(w)))
    BY <1>0, <1>1 DEF PhaseRunning, RunDone, Finish, Overspend
<1>2. CASE RunStarted
    <2> DEFINE b == [Head(q) EXCEPT !.k = "setup"]
    <2>1. b.k = "setup"
        <3>1. At("run2")
            BY <1>2 DEF RunStarted
        <3> QED
            BY <3>1, HeadFacts DEF Act, ActRec
    <2>2. working' = working \cup {b}
        BY <1>2 DEF RunStarted
    <2>3. ~ReleasesAtOnce(b)
        BY <2>1 DEF ReleasesAtOnce
    <2> HIDE DEF b
    <2> QED
        BY <1>0, <2>2, <2>3
<1>3. CASE w \in working /\ Gather(w)
    <2>t. PICK t \in Workspace :
            working' = (working \ {w}) \cup {[w EXCEPT !.k = "llm", !.tree = t, !.ins = [m \in Nodes |-> IF m \in Upstream(w.n) THEN LatestDone(m) ELSE 0]]}
        BY <1>3 DEF Gather
    <2> DEFINE b == [w EXCEPT !.k = "llm", !.tree = t, !.ins = [m \in Nodes |-> IF m \in Upstream(w.n) THEN LatestDone(m) ELSE 0]]
    <2>1. working' = (working \ {w}) \cup {b}
        BY <1>3, <2>t DEF Gather
    <2>2. w \in Act
        BY <1>3, WorkFacts
    <2>3. ~ReleasesAtOnce(b)
        BY <2>2 DEF Act, ActRec, ReleasesAtOnce
    <2> HIDE DEF b
    <2> QED
        BY <1>0, <2>1, <2>3
<1> QED
    BY <1>1, <1>2, <1>3

LEMMA SeenRuns ==
    ASSUME Inv, RunsInv, SeenOK, Yielded, NEW w,
           \/ PhaseRunning \/ RunStarted \/ RunDone
           \/ w \in working /\ (Gather(w) \/ Finish(w) \/ Overspend(w))
    PROVE  SeenOK'
BY SteadyRuns, RunsWait, SeenSteady DEF Yielded, NoSync

\* The one step after which a run goes on without I/O.
LEMMA ApartPhaseDone ==
    ASSUME Yielded, PhaseDone
    PROVE  Apart(working)'
<1> DEFINE b == [Head(q) EXCEPT !.k = "release"]
<1>1. rt' = rt /\ working' = working \cup {b}
    BY DEF PhaseDone
<1> HIDE DEF b
<1>2. NoSync /\ \A x \in working : ~ReleasesAtOnce(x)
    BY DEF Yielded, NoSync
<1>3. \A x, y \in working' : ReleasesAtOnce(x) /\ ReleasesAtOnce(y) => x = y
    BY <1>1, <1>2
<1>4. \A g \in 1..Len(rt') : rt'[g].pc \notin SyncPc
    BY <1>1, <1>2 DEF NoSync
<1> QED
    BY <1>3, <1>4 DEF Apart, ReleasesAtOnce

LEMMA SeenPhaseDone ==
    ASSUME Inv, RunsInv, SeenOK, Yielded, PhaseDone
    PROVE  SeenOK'
<1>1. rt' = rt /\ meter' = meter /\ unmerged' = unmerged /\ blind' = blind
    BY DEF PhaseDone, tree
<1>2. (\A g \in 1..Len(rt) : Seen(rt[g]))'
    BY <1>1 DEF SeenOK, Seen, Halted, Clean, InFlightOf
<1> QED
    BY <1>2, ApartPhaseDone DEF SeenOK

\* What follows the release of a run's workspace.
LEMMA SeenRelease ==
    ASSUME Inv, RunsInv, Forward, SeenOK, NEW w \in working, Release(w),
           Yielded \/ ReleasesAtOnce(w)
    PROVE  SeenOK'
<1>1. working' = working \ {w}
    BY DEF Release
<1>2. NoSync /\ \A x \in working' : ~ReleasesAtOnce(x)
    <2>1. CASE Yielded
        BY <1>1, <2>1 DEF Yielded, NoSync
    <2>2. CASE ReleasesAtOnce(w)
        BY <1>1, <2>2 DEF SeenOK, Apart, NoSync
    <2> QED
        BY <2>1, <2>2
<1> QED
    BY <1>2, SteadyRelease, SeenSteady

\* The other steps of the log, and the requests.
LEMMA SeenOthers ==
    ASSUME SeenOK, Yielded, working' = working, Steady(rt, rt')
    PROVE  SeenOK'
<1>1. NoSync /\ \A x \in working' : ~ReleasesAtOnce(x)
    BY DEF Yielded, NoSync
<1> QED
    BY <1>1, SeenSteady

LEMMA SeenCrash == Crash => SeenOK'
<1> SUFFICES ASSUME Crash PROVE SeenOK'
    OBVIOUS
<1>1. Len(rt') = 0 /\ working' = {}
    BY DEF Crash
<1>2. (\A g \in 1..Len(rt) : Seen(rt[g]))'
    BY <1>1
<1>3. Apart(working)'
    BY <1>1 DEF Apart
<1> QED
    BY <1>2, <1>3 DEF SeenOK

LEMMA SeenIdle ==
    ASSUME SeenOK, UNCHANGED vars
    PROVE  SeenOK'
<1>1. rt' = rt /\ working' = working /\ meter' = meter /\ unmerged' = unmerged /\ blind' = blind
    BY DEF vars, tree
<1>2. (\A g \in 1..Len(rt) : Seen(rt[g]))'
    BY <1>1 DEF SeenOK, Seen, Halted, Clean, InFlightOf
<1>3. Apart(working)'
    BY <1>1 DEF SeenOK, Apart, ReleasesAtOnce
<1> QED
    BY <1>2, <1>3 DEF SeenOK

LEMMA SeenNext ==
    ASSUME Inv, RunsInv, Forward, SeenOK, [Next]_vars, [AfterReport]_vars
    PROVE  SeenOK'
<1>0. CASE UNCHANGED vars
    BY <1>0, SeenIdle
<1>1. CASE Sync
    <2>1. ASSUME NEW g \in 1..Len(rt), Top(g) \/ CheckBudget(g) \/ Ready(g) \/ Dispatch(g) \/ Settle(g)
          PROVE  SeenOK'
        BY <2>1, SeenTop, SeenCheck, SeenReady, SeenDispatch, SeenSettle
    <2>2. ASSUME NEW w \in working, ReleasesAtOnce(w), Release(w)
          PROVE  SeenOK'
        BY <2>2, SeenRelease
    <2> QED
        BY <1>1, <2>1, <2>2 DEF Sync
<1>2. CASE Yielded /\ LoopIo
    BY <1>2, SeenIntegrate, SeenReported DEF LoopIo
<1>3. CASE Yielded /\ Turn
    BY <1>3, SeenRuns, SeenRelease DEF Turn
<1>4. CASE Yielded /\ Appended /\ ~UNCHANGED vars
    <2>1. CASE ApproveDone
        BY <1>4, <2>1, SteadyAsked, SeenOthers
    <2>2. CASE PhaseRunning \/ RunStarted \/ RunDone
        BY <1>4, <2>2, SeenRuns
    <2>3. CASE PhaseDone
        BY <1>4, <2>3, SeenPhaseDone
    <2>4. CASE \/ BudgetPending \/ BudgetReported \/ DownstreamFailed \/ Escalate
               \/ Kick \/ Suspend \/ Finalize \/ CancelFinalize \/ Tombstone
               \/ ApproveRun \/ BootRunFailed \/ BootPending \/ BootPaused
        BY <1>4, <2>4, SteadyEnds, SeenOthers
    <2> QED
        BY <1>4, <2>1, <2>2, <2>3, <2>4, NoRerun DEF Appended
<1>5. CASE Yielded /\ BootScan
    BY <1>5, SteadyEnds, SeenOthers
<1>6. CASE Crash
    BY <1>6, SeenCrash
<1>7. CASE Yielded /\ \E w \in working : Overspend(w)
    BY <1>7, SeenRuns
<1>8. CASE Yielded /\ Requests /\ ~UNCHANGED vars
    BY <1>8, SteadyAsked, SeenOthers
<1> QED
    BY <1>0, <1>1, <1>2, <1>3, <1>4, <1>5, <1>6, <1>7, <1>8 DEF Next, EngineStep, Idle

LEMMA SeenInit == Init => SeenOK
<1> SUFFICES ASSUME Init PROVE SeenOK
    OBVIOUS
<1>1. Len(rt) = 1 /\ rt[1] = NewRuntime /\ working = {} /\ NewRuntime.pc = "idle"
    BY DEF Init, NewRuntime
<1>2. \A g \in 1..Len(rt) : rt[g].pc = "idle"
    BY <1>1
<1> QED
    BY <1>1, <1>2 DEF SeenOK, Seen, Apart

\* What the loop had seen when it starts a run.
LEMMA StartSeen ==
    ASSUME Inv, RunsInv, SeenOK, Forward, [Next]_vars, NEW n \in Nodes, StartsRun(n)
    PROVE  meter = "clear" /\ (Flying = {} => unmerged = {} \/ blind)
<1>1. PICK g \in 1..Len(rt) : Dispatch(g)
    BY StartIs
<1>2. g = cur
    BY <1>1, DispatchIs DEF Starts, MayStart
<1>3. rt[g].pc = "dispatch" /\ rt[g].todo # {}
    BY <1>1 DEF Dispatch
<1>4. meter = "clear" /\ (InFlightOf(rt[g]) = {} => unmerged = {} \/ blind)
    BY <1>3 DEF SeenOK, Seen, Clean
<1>5. Flying = InFlightOf(rt[g])
    BY <1>2, Types DEF Flying
<1> QED
    BY <1>4, <1>5

LEMMA SeenAlways ==
    ASSUME Forward
    PROVE  Spec /\ [][Orderly]_vars /\ [][AfterReport]_vars => []SeenOK
<1>1. Inv /\ RunsInv /\ SeenOK /\ [Next]_vars /\ [AfterReport]_vars => SeenOK'
    BY SeenNext
<1> QED
    BY <1>1, SeenInit, ForwardRuns, InvAlways, PTL DEF Spec

\* After a budget breach nothing starts until the user resumes the task:
\* stopIfOverBudget is asked before every wave, a breach outlasts the turn that
\* caused it, and between the question and the start nothing can be spent.
THEOREM BreachStops ==
    ASSUME Forward
    PROVE  Spec /\ [][Orderly]_vars /\ [][AfterReport]_vars => BudgetStops
<1>1. Inv /\ RunsInv /\ SeenOK /\ [Next]_vars
        => [\A n \in Nodes : StartsRun(n) => meter = "clear"]_vars
    BY StartSeen
<1> QED
    BY <1>1, SeenAlways, ForwardRuns, InvAlways, PTL DEF Spec, BudgetStops

\* A wave that starts from rest starts on a tree into which every branch is
\* merged: integrateBeforeNextWave comes first, and a conflict pauses. The one
\* way round it is a pass that could not list the branches.
THEOREM WaveStartsMerged ==
    ASSUME Forward
    PROVE  Spec /\ [][Orderly]_vars /\ [][AfterReport]_vars => WaveSeesMergedTree
<1>1. ASSUME Inv, RunsInv, SeenOK, [Next]_vars, NEW n \in Nodes, StartsFromRest(n)
      PROVE  unmerged = {} \/ blind
    <2>1. \A m \in Nodes : m \notin Flying
        BY <1>1, ExecutingIs DEF StartsFromRest
    <2>2. Flying \subseteq Nodes
        BY DEF Flying, InFlightOf
    <2>3. Flying = {}
        BY <2>1, <2>2
    <2> QED
        BY <1>1, <2>3, StartSeen DEF StartsFromRest
<1>2. Inv /\ RunsInv /\ SeenOK /\ [Next]_vars
        => [\A n \in Nodes : StartsFromRest(n) => unmerged = {} \/ blind]_vars
    BY <1>1
<1> QED
    BY <1>2, SeenAlways, ForwardRuns, InvAlways, PTL DEF Spec, WaveSeesMergedTree

-----------------------------------------------------------------------------
\* What is completed.

\* No node of the workflow is a gate.
NoGates == \A n \in Nodes : GateTarget[n] = 0

BootActs == {"b1", "b2", "b3"}

\* The boot pass has work to do.
Waking == booting \/ \E a \in SeqRange(q) : a.k \in BootActs

\* The user does not resume or approve before the boot pass is done.
AfterBoot == Resume \/ (\E n \in Nodes : Approve(n)) => ~Waking

UpDone(n) == \A m \in Upstream(n) : phase[m] = "completed"

Early == {"run1", "run2", "setup", "llm", "done1", "done2"}

\* The run of a has failed, and its phase says so.
Doomed(a) == a.k \in {"pend", "mdf"} \/ (a.k = "release" /\ a.out = "failed")

\* What the activation a may do to the phases is no surprise to them.
Sound(a) ==
    /\ a.k \in Early => UpDone(a.n) /\ phase[a.n] \in {"pending", "running"}
    /\ alive /\ Doomed(a) => phase[a.n] = "failed"
    /\ a.k = "mdf" => a.left \subseteq Downstream(a.n) /\ a.i \in Downstream(a.n)
    /\ a.k \in {"ap1", "ap2"} => phase[a.n] \in {"waiting_approval", "completed"}
    /\ a.k \in {"b1", "b2"} => phase[a.n] \in {"running", "pending"}
    /\ a.k # "esc"

\* Nothing begins before its upstream is completed.
PhasesOK ==
    \A n \in Nodes : phase[n] \in {"running", "waiting_approval", "completed"} => UpDone(n)

\* The boot pass is alone.
WakeOK ==
    Waking => /\ Len(rt) = 0 /\ cur = 0 /\ working = {}
              /\ \A a \in SeqRange(q) : a.k \in BootActs \cup {"del"}

\* What the loop is about to start may start.
TodoOK ==
    \A g \in 1..Len(rt) : rt[g].pc = "dispatch" =>
        \A n \in rt[g].todo : phase[n] = "pending" /\ UpDone(n)

DoneOK ==
    /\ PhasesOK /\ WakeOK /\ TodoOK
    /\ \A a \in SeqRange(q) \cup working : Sound(a)

\* What lies downstream of a node that is not completed has not begun.
LEMMA DownstreamWaits ==
    ASSUME PhasesOK, NEW x \in Nodes, phase[x] # "completed", NEW m \in Downstream(x)
    PROVE  m \in Nodes /\ ~UpDone(m)
<1> DEFINE S == {y \in Nodes : ~UpDone(y)}
<1>1. \A e \in Edges : e[1] \in Nodes /\ e[2] \in Nodes
    BY WorkflowAssumption
<1>2. \A e \in Edges : phase[e[1]] # "completed" => e[2] \in S
    <2> SUFFICES ASSUME NEW e \in Edges, phase[e[1]] # "completed"
                 PROVE  e[2] \in S
        OBVIOUS
    <2>1. e = <<e[1], e[2]>>
        BY WorkflowAssumption
    <2>2. e[1] \in Upstream(e[2])
        BY <1>1, <2>1 DEF Upstream
    <2> QED
        BY <1>1, <2>2 DEF UpDone
<1>3. EdgeClosed(S)
    <2> SUFFICES ASSUME NEW e \in Edges, e[1] \in S
                 PROVE  e[2] \in S
        BY DEF EdgeClosed
    <2>1. phase[e[1]] # "completed"
        BY DEF PhasesOK
    <2> QED
        BY <1>2, <2>1
<1>4. \A e \in Edges : e[1] = x => e[2] \in S
    BY <1>2
<1>5. S \in SUBSET Nodes
    OBVIOUS
<1> HIDE DEF S
<1>6. m \in Nodes /\ m \in S
    BY <1>3, <1>4, <1>5 DEF Downstream
<1> QED
    BY <1>6 DEF S

\* The phases after SetPhase(n, s).
LEMMA PhaseSet ==
    ASSUME Inv, NEW n \in Nodes, NEW s, SetPhase(n, s)
    PROVE  /\ phase' = phase \/ alive
           /\ alive => phase'[n] = s /\ \A m \in Nodes : m # n => phase'[m] = phase[m]
BY DEF SetPhase, Inv, LogOK

\* The activations that depend on a phase.
Concerned(a) == a.k \in RunKinds \cup {"ap1", "ap2", "b1", "b2"}

\* An activation that has nothing to do with the phase that changes.
LEMMA SoundElsewhere ==
    ASSUME Inv, NEW a \in Act, Sound(a), NEW n \in Nodes, NEW s, SetPhase(n, s), alive' => alive,
           alive /\ Concerned(a) => a.n # n, alive /\ phase[n] = "completed" => s = "completed"
    PROVE  Sound(a)'
<1>1. CASE phase' = phase
    BY <1>1 DEF Sound, UpDone, Doomed
<1>2. CASE alive
    <2>1. /\ \A m \in Nodes : m # n => phase'[m] = phase[m]
          /\ \A m \in Nodes : phase[m] = "completed" => phase'[m] = "completed"
        BY <1>2, PhaseSet
    <2>2. CASE ~Concerned(a)
        BY <2>2 DEF Sound, Concerned, RunKinds, Early, Doomed
    <2>3. CASE Concerned(a)
        <3>1. a.n \in Nodes
            BY <2>3, OfNode DEF Concerned, RunKinds, TaskKinds
        <3>2. phase'[a.n] = phase[a.n]
            BY <1>2, <2>1, <2>3, <3>1
        <3>3. UpDone(a.n) => UpDone(a.n)'
            BY <2>1 DEF UpDone, Upstream
        <3> QED
            BY <1>2, <3>2, <3>3 DEF Sound, Doomed
    <2> QED
        BY <2>2, <2>3
<1> QED
    BY <1>1, <1>2, PhaseSet

\* The phase of n becomes s.
LEMMA DoneSets ==
    ASSUME Inv, DoneOK, NEW n \in Nodes, NEW s, SetPhase(n, s), alive' = alive,
           alive => /\ phase[n] = "completed" => s = "completed"
                    /\ s \in {"running", "waiting_approval", "completed"} => UpDone(n),
           \A a \in SeqRange(q') \cup working' : Sound(a)', WakeOK', TodoOK'
    PROVE  DoneOK' /\ \A m \in Nodes : phase[m] = "completed" => phase'[m] = "completed"
<1>1. CASE phase' = phase
    BY <1>1 DEF DoneOK, PhasesOK, UpDone
<1>2. CASE alive
    <2>1. /\ phase'[n] = s
          /\ \A m \in Nodes : m # n => phase'[m] = phase[m]
          /\ \A m \in Nodes : phase[m] = "completed" => phase'[m] = "completed"
        BY <1>2, PhaseSet
    <2>2. \A m \in Nodes : UpDone(m) => UpDone(m)'
        BY <2>1 DEF UpDone, Upstream
    <2>3. PhasesOK'
        BY <1>2, <2>1, <2>2 DEF DoneOK, PhasesOK
    <2> QED
        BY <2>1, <2>3 DEF DoneOK
<1> QED
    BY <1>1, <1>2, PhaseSet

\* The phases stay as they are.
LEMMA DoneStays ==
    ASSUME DoneOK, phase' = phase, alive' => alive,
           \A a \in SeqRange(q') \cup working' : a \in SeqRange(q) \cup working \/ Sound(a),
           WakeOK', TodoOK'
    PROVE  DoneOK' /\ \A m \in Nodes : phase[m] = "completed" => phase'[m] = "completed"
<1>1. \A a : Sound(a) => Sound(a)'
    BY DEF Sound, UpDone, Doomed
<1>2. \A a \in SeqRange(q') \cup working' : Sound(a)'
    BY <1>1 DEF DoneOK
<1>3. PhasesOK'
    BY DEF DoneOK, PhasesOK, UpDone
<1> QED
    BY <1>2, <1>3 DEF DoneOK

\* When the boot pass is done it stays done.
LEMMA Awoken ==
    ASSUME ~Waking, booting' = booting,
           \A a \in SeqRange(q') : a \in SeqRange(q) \/ a.k \notin BootActs
    PROVE  WakeOK'
BY DEF Waking, WakeOK

\* While something else than the boot pass is at work, that is done.
LEMMA Awake1 ==
    ASSUME Inv, WakeOK, \/ cur # 0 \/ Len(rt) # 0 \/ working # {}
                  \/ \E a \in SeqRange(q) : a.k \notin BootActs \cup {"del"}
    PROVE  ~Waking
BY DEF WakeOK

\* After a step of the log no loop is about to start something.
LEMMA TodoSteady ==
    ASSUME NoSync, Steady(rt, rt')
    PROVE  TodoOK'
<1>1. \A g \in 1..Len(rt') : rt'[g].pc # "dispatch"
    BY DEF NoSync, Steady, SyncPc
<1> QED
    BY <1>1 DEF TodoOK

\* The run at the head of the log's queue is alone with its node.
LEMMA HeadAlone ==
    ASSUME Inv, RunsInv, NEW k \in RunKinds, At(k), NEW c \in SeqRange(Tail(q)) \cup working
    PROVE  /\ c \in SeqRange(q) \cup working /\ c \in Act
           /\ c.k \in RunKinds => c.n # Head(q).n
<1>1. /\ q \in Seq(Act) /\ q # <<>> /\ Held(q, working, Taken) /\ Slotted(Head(q))
      /\ SeqRange(Tail(q)) \subseteq SeqRange(q)
    BY HeadFacts
<1>2. Held(Tail(q), working, Taken \ {Head(q).n})
    BY <1>1, HeadFacts, HeldLeave
<1>3. c \in SeqRange(q) \cup working /\ c \in Act
    BY <1>1, Types
<1>4. c.k \in RunKinds => c.n # Head(q).n
    <2>1. CASE c \in SeqRange(Tail(q))
        <3>1. PICK i \in 1..Len(Tail(q)) : c = Tail(q)[i]
            BY <2>1 DEF SeqRange
        <3>2. Slotted(c) => Slot(c) \in Taken \ {Head(q).n}
            BY <1>2, <3>1 DEF Held
        <3>3. c.k \in RunKinds => Slotted(c) /\ Slot(c) = c.n
            BY DEF Slotted, Slot, SlotKinds, Reruns, RunKinds
        <3> QED
            BY <3>2, <3>3
    <2>2. CASE c \in working
        BY <1>2, <2>2 DEF Held
    <2> QED
        BY <2>1, <2>2
<1> QED
    BY <1>3, <1>4

\* Everything else when the run at the head changes the phase of its node.
LEMMA HeadSets ==
    ASSUME Inv, RunsInv, DoneOK, NEW k \in RunKinds, At(k), NEW s, SetPhase(Head(q).n, s),
           alive' = alive, alive => phase[Head(q).n] \notin {"waiting_approval", "completed"},
           NEW c \in SeqRange(Tail(q)) \cup working
    PROVE  Sound(c)'
<1>1. c \in SeqRange(q) \cup working /\ c \in Act /\ (c.k \in RunKinds => c.n # Head(q).n)
    BY HeadAlone
<1>2. Sound(c) /\ Head(q).n \in Nodes
    BY <1>1, HeadRunFacts DEF DoneOK
<1>3. ~Waking
    <2>1. Head(q) \in SeqRange(q) /\ Head(q).k \notin BootActs \cup {"del"}
        BY HeadFacts DEF RunKinds, BootActs
    <2> QED
        BY <2>1, Awake1 DEF DoneOK
<1>4. c.k \notin {"b1", "b2"}
    <2>1. CASE c \in SeqRange(q)
        BY <1>3, <2>1 DEF Waking, BootActs
    <2>2. CASE c \in working
        BY <2>2, WorkFacts DEF RunKinds
    <2> QED
        BY <1>1, <2>1, <2>2
<1>5. alive /\ Concerned(c) => c.n # Head(q).n
    BY <1>1, <1>2, <1>4 DEF Concerned, Sound
<1> QED
    BY <1>1, <1>2, <1>5, SoundElsewhere

\* A run at the head of the log's queue means that the boot pass is done.
LEMMA HeadWakes ==
    ASSUME Inv, RunsInv, DoneOK, NEW k \in RunKinds, At(k), booting' = booting,
           NEW b, b.k \notin BootActs, q' = Tail(q) \/ q' = Append(Tail(q), b)
    PROVE  WakeOK'
<1>1. /\ Head(q) \in SeqRange(q) /\ Head(q).k = k /\ SeqRange(Tail(q)) \subseteq SeqRange(q)
      /\ \A x : SeqRange(Append(Tail(q), x)) \subseteq SeqRange(q) \cup {x}
    BY HeadFacts
<1>2. ~Waking
    <2>1. Head(q).k \notin BootActs \cup {"del"}
        BY <1>1 DEF RunKinds, BootActs
    <2> QED
        BY <1>1, <2>1, Awake1 DEF DoneOK
<1>3. \A c \in SeqRange(q') : c \in SeqRange(q) \/ c.k \notin BootActs
    <2>1. CASE q' = Tail(q)
        BY <1>1, <2>1
    <2>2. CASE q' = Append(Tail(q), b)
        BY <1>1, <2>2
    <2> QED
        BY <2>1, <2>2
<1>4. WakeOK \/ ~Waking
    BY DEF DoneOK
<1> QED
    BY <1>2, <1>3, Awoken

\* The run of the head goes on as b, or leaves the queue to work on as b.
LEMMA HeadSetsAll ==
    ASSUME Inv, RunsInv, DoneOK, Yielded, NEW k \in RunKinds, At(k), NEW s,
           SetPhase(Head(q).n, s), alive' = alive, booting' = booting, Steady(rt, rt'),
           NEW b, b.k \notin BootActs, Sound(b)',
           q' = Tail(q) \/ q' = Append(Tail(q), b), working' \subseteq working \cup {b},
           alive => /\ phase[Head(q).n] \notin {"waiting_approval", "completed"}
                    /\ s \in {"running", "waiting_approval", "completed"} => UpDone(Head(q).n)
    PROVE  DoneOK' /\ \A m \in Nodes : phase[m] = "completed" => phase'[m] = "completed"
<1>1. Tail(q) \in Seq(Act) /\ Head(q).n \in Nodes
    BY HeadFacts, HeadRunFacts
<1>2. SeqRange(q') \subseteq SeqRange(Tail(q)) \cup {b}
    BY <1>1, RangeAppend
<1>3. \A c \in SeqRange(q') \cup working' : Sound(c)'
    BY <1>2, HeadSets
<1>4. WakeOK'
    BY HeadWakes
<1>5. TodoOK'
    BY TodoSteady DEF Yielded, NoSync
<1> QED
    BY <1>1, <1>3, <1>4, <1>5, DoneSets

LEMMA DonePhaseRunning ==
    ASSUME Inv, RunsInv, DoneOK, Yielded, PhaseRunning
    PROVE  DoneOK' /\ \A m \in Nodes : phase[m] = "completed" => phase'[m] = "completed"
<1>0. PICK a, b : a = Head(q) /\ b = [a EXCEPT !.k = "run2"]
    OBVIOUS
<1>1. /\ At("run1") /\ "run1" \in RunKinds /\ SetPhase(a.n, "running") /\ q' = Append(Tail(q), b)
      /\ working' = working /\ alive' = alive /\ booting' = booting /\ Steady(rt, rt')
    BY <1>0, SteadyRuns DEF PhaseRunning, Next1, RunKinds, ctl
<1>2. a \in Act /\ a.k = "run1" /\ a \in SeqRange(q) /\ a.n \in Nodes
    BY <1>0, <1>1, HeadFacts, HeadRunFacts
<1>3. UpDone(a.n) /\ phase[a.n] \in {"pending", "running"}
    BY <1>2 DEF DoneOK, Sound, Early
<1>4. b.k = "run2" /\ b.n = a.n
    BY <1>0, <1>2 DEF Act, ActRec
<1>5. UpDone(a.n)' /\ phase'[a.n] \in {"pending", "running"}
    <2>1. CASE phase' = phase
        BY <1>3, <2>1 DEF UpDone
    <2>2. CASE alive
        <3>1. phase'[a.n] = "running" /\ \A m \in Nodes : m # a.n => phase'[m] = phase[m]
            BY <1>1, <1>2, <2>2, PhaseSet
        <3> QED
            BY <1>3, <3>1 DEF UpDone, Upstream
    <2> QED
        BY <1>1, <1>2, <2>1, <2>2, PhaseSet
<1>6. Sound(b)'
    BY <1>4, <1>5 DEF Sound, Doomed
<1> QED
    BY <1>0, <1>1, <1>3, <1>4, <1>6, HeadSetsAll DEF BootActs

LEMMA DonePhaseDone ==
    ASSUME Inv, RunsInv, DoneOK, Yielded, PhaseDone
    PROVE  DoneOK' /\ \A m \in Nodes : phase[m] = "completed" => phase'[m] = "completed"
<1>0. PICK a, b : a = Head(q) /\ b = [a EXCEPT !.k = "release"]
    OBVIOUS
<1>1. /\ At("done2") /\ "done2" \in RunKinds /\ SetPhase(a.n, a.out) /\ q' = Tail(q)
      /\ working' = working \cup {b} /\ alive' = alive /\ booting' = booting /\ Steady(rt, rt')
    BY <1>0, SteadyRuns DEF PhaseDone, RunKinds, ctl
<1>2. a \in Act /\ a.k = "done2" /\ a \in SeqRange(q) /\ a.n \in Nodes
    BY <1>0, <1>1, HeadFacts, HeadRunFacts
<1>3. UpDone(a.n) /\ phase[a.n] \in {"pending", "running"}
    BY <1>2 DEF DoneOK, Sound, Early
<1>4. b.k = "release" /\ b.n = a.n /\ b.out = a.out
    BY <1>0, <1>2 DEF Act, ActRec
<1>5. alive /\ a.out = "failed" => phase'[a.n] = "failed"
    BY <1>1, <1>2, PhaseSet
<1>6. Sound(b)'
    BY <1>1, <1>4, <1>5 DEF Sound, Doomed, Early
<1> QED
    BY <1>0, <1>1, <1>3, <1>4, <1>6, HeadSetsAll DEF BootActs

LEMMA DoneBudgetPending ==
    ASSUME Inv, RunsInv, DoneOK, Yielded, BudgetPending
    PROVE  DoneOK' /\ \A m \in Nodes : phase[m] = "completed" => phase'[m] = "completed"
<1>0. PICK a, b : a = Head(q) /\ b = [a EXCEPT !.k = "stop"]
    OBVIOUS
<1>1. /\ At("pend") /\ "pend" \in RunKinds /\ SetPhase(a.n, "pending")
      /\ q' = Tail(q) \/ q' = Append(Tail(q), b)
      /\ working' = working /\ alive' = alive /\ booting' = booting /\ Steady(rt, rt')
    BY <1>0, SteadyEnds DEF BudgetPending, Next1, RunKinds, ctl
<1>2. a \in Act /\ a.k = "pend" /\ a \in SeqRange(q) /\ a.n \in Nodes
    BY <1>0, <1>1, HeadFacts, HeadRunFacts
<1>3. alive => phase[a.n] = "failed"
    BY <1>2 DEF DoneOK, Sound, Doomed
<1>4. b.k = "stop" /\ b.n = a.n
    BY <1>0, <1>2 DEF Act, ActRec
<1>5. Sound(b)'
    BY <1>4 DEF Sound, Doomed, Early
<1>6. SetPhase(Head(q).n, "pending") /\ (alive => phase[Head(q).n] \notin {"waiting_approval", "completed"})
    BY <1>0, <1>1, <1>3
<1>7. b.k \notin BootActs /\ working' \subseteq working \cup {b}
    BY <1>1, <1>4 DEF BootActs
<1> QED
    BY <1>1, <1>5, <1>6, <1>7, HeadSetsAll

\* A failure marks only what has not begun.
LEMMA DoneDownstreamFailed ==
    ASSUME Inv, RunsInv, DoneOK, Yielded, DownstreamFailed
    PROVE  DoneOK' /\ \A m \in Nodes : phase[m] = "completed" => phase'[m] = "completed"
<1>0. PICK a, S, b : /\ a = Head(q) /\ S = StillPending(a.left \ {a.i})
                     /\ b = [a EXCEPT !.left = S, !.i = Least(S)]
    OBVIOUS
<1>1. /\ At("mdf") /\ "mdf" \in RunKinds /\ SetPhase(a.i, "failed")
      /\ q' = Tail(q) \/ (S # {} /\ q' = Append(Tail(q), b))
      /\ working' = working /\ alive' = alive /\ booting' = booting /\ Steady(rt, rt')
    BY <1>0, SteadyEnds DEF DownstreamFailed, Next1, RunKinds, ctl
<1>2. a \in Act /\ a.k = "mdf" /\ a \in SeqRange(q) /\ a.n \in Nodes /\ Tail(q) \in Seq(Act)
    BY <1>0, <1>1, HeadFacts, HeadRunFacts
<1>3. a.left \subseteq Downstream(a.n) /\ a.i \in Downstream(a.n) /\ (alive => phase[a.n] = "failed")
    BY <1>2 DEF DoneOK, Sound, Doomed
<1>4. Downstream(a.n) \subseteq Nodes /\ S \subseteq Downstream(a.n) /\ S \subseteq Nodes
    BY <1>0, <1>3 DEF Downstream, StillPending
<1>5. a.i \in Nodes
    BY <1>3, <1>4
<1>6. alive => ~UpDone(a.i) /\ phase[a.i] \notin {"running", "waiting_approval", "completed"}
    BY <1>2, <1>3, <1>5, DownstreamWaits DEF DoneOK, PhasesOK
<1>7. b.k = "mdf" /\ b.n = a.n /\ b.left = S /\ b.i = Least(S)
    BY <1>0, <1>2 DEF Act, ActRec
<1>8. ASSUME S # {} PROVE Sound(b)'
    <2>1. b.i \in Downstream(b.n) /\ b.left \subseteq Downstream(b.n)
        BY <1>4, <1>7, <1>8, LeastNode
    <2>2. alive => phase'[a.n] = "failed"
        BY <1>1, <1>2, <1>3, <1>5, PhaseSet
    <2> QED
        BY <1>1, <1>7, <2>1, <2>2 DEF Sound, Doomed, Early
<1>9. ASSUME NEW c \in SeqRange(q) \cup working
      PROVE  Sound(c)'
    <2>1. Sound(c) /\ c \in Act
        BY <1>9, Types DEF DoneOK
    <2>2. CASE alive /\ c.n = a.i
        <3>1. phase'[c.n] = "failed"
            BY <1>1, <1>5, <2>2, PhaseSet
        <3>2. c.k \notin Early \cup {"ap1", "ap2"}
            BY <1>6, <2>1, <2>2 DEF Sound
        <3>3. c.k \notin {"b1", "b2"}
            <4>1. ~Waking
                BY <1>2, Awake1 DEF DoneOK, BootActs
            <4>2. CASE c \in SeqRange(q)
                BY <4>1, <4>2 DEF Waking, BootActs
            <4>3. CASE c \in working
                BY <4>3, WorkFacts DEF RunKinds
            <4> QED
                BY <1>9, <4>2, <4>3
        <3> QED
            BY <2>1, <3>1, <3>2, <3>3 DEF Sound
    <2>3. CASE ~(alive /\ c.n = a.i)
        BY <1>1, <1>5, <1>6, <2>1, <2>3, SoundElsewhere
    <2> QED
        BY <2>2, <2>3
<1>10. \A c \in SeqRange(q') \cup working' : Sound(c)'
    <2>1. SeqRange(Append(Tail(q), b)) = SeqRange(Tail(q)) \cup {b}
        BY <1>2, RangeAppend
    <2>2. SeqRange(Tail(q)) \subseteq SeqRange(q)
        BY <1>1, HeadFacts
    <2> QED
        BY <1>1, <1>8, <1>9, <2>1, <2>2
<1>11. WakeOK'
    BY <1>1, <1>7, HeadWakes DEF BootActs
<1>12. TodoOK'
    BY <1>1, TodoSteady DEF Yielded, NoSync
<1> QED
    BY <1>1, <1>5, <1>6, <1>10, <1>11, <1>12, DoneSets

\* An approval that is done.
LEMMA DoneApproveDone ==
    ASSUME Inv, RunsInv, Forward, DoneOK, Yielded, ApproveDone
    PROVE  DoneOK' /\ \A m \in Nodes : phase[m] = "completed" => phase'[m] = "completed"
<1>0. PICK a : a = Head(q)
    OBVIOUS
<1>1. /\ At("ap2") /\ SetPhase(a.n, "completed") /\ q' = Append(Tail(q), Blank)
      /\ working' = working /\ alive' = alive /\ booting' = booting
    BY <1>0 DEF ApproveDone, Next1, ctl
<1>2. a \in Act /\ a.k = "ap2" /\ a \in SeqRange(q) /\ Tail(q) \in Seq(Act) /\ SeqRange(Tail(q)) \subseteq SeqRange(q)
    BY <1>0, <1>1, HeadFacts
<1>3. a.n \in Nodes
    BY <1>2, OfNode DEF TaskKinds
<1>4. phase[a.n] \in {"waiting_approval", "completed"} /\ UpDone(a.n)
    BY <1>2, <1>3 DEF DoneOK, Sound, PhasesOK
<1>5. ~Waking
    BY <1>2, Awake1 DEF DoneOK, BootActs
<1>6. ASSUME NEW c \in SeqRange(q) \cup working
      PROVE  Sound(c)'
    <2>1. Sound(c) /\ c \in Act
        BY <1>6, Types DEF DoneOK
    <2>2. CASE alive /\ c.n = a.n
        <3>1. phase'[c.n] = "completed"
            BY <1>1, <1>3, <2>2, PhaseSet
        <3>2. c.k \notin Early /\ ~Doomed(c)
            BY <1>4, <2>1, <2>2 DEF Sound
        <3>3. c.k \notin {"b1", "b2"}
            <4>1. CASE c \in SeqRange(q)
                BY <1>5, <4>1 DEF Waking, BootActs
            <4>2. CASE c \in working
                BY <4>2, WorkFacts DEF RunKinds
            <4> QED
                BY <1>6, <4>1, <4>2
        <3> QED
            BY <2>1, <3>1, <3>2, <3>3 DEF Sound, Doomed
    <2>3. CASE ~(alive /\ c.n = a.n)
        BY <1>1, <1>3, <2>1, <2>3, SoundElsewhere
    <2> QED
        BY <2>2, <2>3
<1>7. \A c \in SeqRange(q') \cup working' : Sound(c)'
    <2>1. SeqRange(q') = SeqRange(Tail(q)) \cup {Blank}
        BY <1>1, <1>2, RangeAppend
    <2>2. PICK b : b = Blank
        OBVIOUS
    <2>3. b.k = "kick"
        BY <2>2, BlankPlain
    <2>4. Sound(b)'
        BY <2>3 DEF Sound, Early, Doomed
    <2> QED
        BY <1>1, <1>2, <1>6, <2>1, <2>2, <2>4
<1>8. WakeOK'
    <2>1. SeqRange(q') = SeqRange(Tail(q)) \cup {Blank} /\ Blank.k \notin BootActs
        BY <1>1, <1>2, RangeAppend, BlankPlain DEF BootActs
    <2> QED
        BY <1>1, <1>2, <1>5, <2>1, Awoken
<1>9. Steady(rt, rt')
    <2>1. ops \in Nat /\ ops' = ops
        BY EngineAssumption DEF ApproveDone, ctl, Inv, RestOK
    <2>2. ~Resume
        BY <2>1 DEF Resume, Request1
    <2> QED
        BY <2>2, SteadyAsked
<1>10. TodoOK'
    BY <1>9, TodoSteady DEF Yielded, NoSync
<1> QED
    BY <1>1, <1>3, <1>4, <1>7, <1>8, <1>10, DoneSets

\* What the boot pass appends next.
LEMMA BootNextIs ==
    ASSUME Inv, NEW m
    PROVE  LET b == BootNext(phase, m) IN
           /\ b.k \in BootActs
           /\ b.k \in {"b1", "b2"} => b.n \in Nodes /\ b.n > m /\ phase[b.n] = "running"
<1> DEFINE S == {n \in Nodes : n > m /\ phase[n] = "running"}
           n == Least(S)
           l == Len(runs[n])
           b == BootNext(phase, m)
<1>1. CASE S = {}
    BY <1>1 DEF BootNext, Blank, BootActs
<1>2. CASE S # {}
    <2>1. n \in S
        BY <1>2, LeastNode
    <2>2. \/ b = [Blank EXCEPT !.k = "b1", !.n = n, !.v = runs[n][l].ver]
          \/ b = [Blank EXCEPT !.k = "b2", !.n = n]
        BY <1>2, Zenon DEF BootNext
    <2> HIDE DEF b, n, l
    <2>3. b.k \in {"b1", "b2"} /\ b.n = n
        BY <2>2 DEF Blank
    <2> QED
        BY <2>1, <2>3 DEF BootActs, b
<1> QED
    BY <1>1, <1>2

\* While the boot pass is at work there is nothing else but a delete.
LEMMA BootAlone ==
    ASSUME Inv, RunsInv, DoneOK, Waking
    PROVE  /\ Len(rt) = 0 /\ cur = 0 /\ working = {} /\ q \in Seq(Act)
           /\ \A a \in SeqRange(q) : a.k \in BootActs \cup {"del"}
BY Types DEF DoneOK, WakeOK

LEMMA BootKeepsAlone ==
    ASSUME Inv, RunsInv, DoneOK, Waking, rt' = rt, cur' = cur, working' = working,
           \A a \in SeqRange(q') : a \in SeqRange(q) \/ a.k \in BootActs \cup {"del"}
    PROVE  WakeOK' /\ TodoOK'
<1>1. WakeOK'
    BY BootAlone DEF WakeOK
<1>2. TodoOK'
    BY BootAlone DEF TodoOK
<1> QED
    BY <1>1, <1>2

LEMMA DoneBootPending ==
    ASSUME Inv, RunsInv, DoneOK, Yielded, BootPending
    PROVE  DoneOK' /\ \A m \in Nodes : phase[m] = "completed" => phase'[m] = "completed"
<1>0. PICK a, b : a = Head(q) /\ b = BootNext(phase, a.n)
    OBVIOUS
<1>1. /\ At("b2") /\ SetPhase(a.n, "pending") /\ q' = Append(Tail(q), b)
      /\ working' = working /\ alive' = alive /\ rt' = rt /\ cur' = cur
    BY <1>0 DEF BootPending, Next1
<1>2. a \in Act /\ a.k = "b2" /\ a \in SeqRange(q) /\ Tail(q) \in Seq(Act) /\ SeqRange(Tail(q)) \subseteq SeqRange(q)
    BY <1>0, <1>1, HeadFacts
<1>3. a.n \in Nodes
    BY <1>2, OfNode DEF TaskKinds
<1>4. phase[a.n] \in {"running", "pending"} /\ Waking
    BY <1>2 DEF DoneOK, Sound, Waking, BootActs
<1>5. /\ b.k \in BootActs
      /\ b.k \in {"b1", "b2"} => b.n \in Nodes /\ b.n > a.n /\ phase[b.n] = "running"
    BY <1>0, BootNextIs
<1>6. working = {} /\ \A c \in SeqRange(q) : c.k \in BootActs \cup {"del"} /\ Sound(c)
    BY <1>4, BootAlone DEF DoneOK
<1>7. ASSUME NEW c, c = b \/ c \in SeqRange(q)
      PROVE  Sound(c)'
    <2>1. c.k \in BootActs \cup {"del"}
        BY <1>5, <1>6, <1>7
    <2>2. c.k \in {"b1", "b2"} => c.n \in Nodes /\ phase[c.n] \in {"running", "pending"}
        <3>1. CASE c = b
            BY <1>5, <3>1
        <3>2. CASE c \in SeqRange(q)
            <4>1. c \in Act
                BY <3>2, Types
            <4>2. c.k \in {"b1", "b2"} => c.n \in Nodes
                BY <4>1, OfNode DEF TaskKinds
            <4> QED
                BY <1>6, <3>2, <4>2 DEF Sound
        <3> QED
            BY <1>7, <3>1, <3>2
    <2>3. c.k \in {"b1", "b2"} => phase'[c.n] \in {"running", "pending"}
        BY <1>1, <1>3, <2>2, PhaseSet
    <2> QED
        BY <2>1, <2>3 DEF Sound, Early, Doomed, BootActs
<1>8. SeqRange(q') \subseteq SeqRange(q) \cup {b}
    BY <1>1, <1>2, RangeAppend
<1>9. \A c \in SeqRange(q') \cup working' : Sound(c)'
    BY <1>1, <1>6, <1>7, <1>8
<1>10. WakeOK' /\ TodoOK'
    BY <1>1, <1>4, <1>5, <1>8, BootKeepsAlone
<1> QED
    BY <1>1, <1>3, <1>4, <1>9, <1>10, DoneSets

\* A step outside the boot pass that queues or works on b, and leaves the phases.
LEMMA DoneOne ==
    ASSUME Inv, DoneOK, ~Waking, phase' = phase, alive' => alive, booting' = booting,
           NEW b, Sound(b), b.k \notin BootActs,
           SeqRange(q') \subseteq SeqRange(q) \cup {b}, working' \subseteq working \cup {b}, TodoOK'
    PROVE  DoneOK' /\ \A m \in Nodes : phase[m] = "completed" => phase'[m] = "completed"
<1>1. WakeOK'
    BY Awoken
<1>2. \A a \in SeqRange(q') \cup working' : a \in SeqRange(q) \cup working \/ Sound(a)
    OBVIOUS
<1> QED
    BY <1>1, <1>2, DoneStays

\* One that only takes from the queue and the work.
LEMMA DoneLess ==
    ASSUME Inv, DoneOK, ~Waking, phase' = phase, alive' => alive, booting' = booting,
           SeqRange(q') \subseteq SeqRange(q), working' \subseteq working, TodoOK'
    PROVE  DoneOK' /\ \A m \in Nodes : phase[m] = "completed" => phase'[m] = "completed"
<1>1. WakeOK'
    BY Awoken
<1> QED
    BY <1>1, DoneStays

\* The other steps of node runs.
LEMMA DoneRuns ==
    ASSUME Inv, RunsInv, DoneOK, Yielded, NEW w,
           \/ RunStarted \/ RunDone
           \/ w \in working /\ (Gather(w) \/ Finish(w) \/ Overspend(w))
    PROVE  DoneOK' /\ \A m \in Nodes : phase[m] = "completed" => phase'[m] = "completed"
<1>0. TodoOK'
    BY SteadyRuns, TodoSteady DEF Yielded, NoSync
<1>1. phase' = phase /\ alive' = alive /\ booting' = booting
    BY DEF RunStarted, RunDone, Gather, Finish, Overspend, log, ctl
<1>2. ASSUME NEW k \in {"run2", "done1"}, At(k), NEW b, b.n = Head(q).n, b.k \in {"setup", "done2"},
             \/ q' = Tail(q) /\ working' = working \cup {b}
             \/ q' = Append(Tail(q), b) /\ working' = working
      PROVE  DoneOK' /\ \A m \in Nodes : phase[m] = "completed" => phase'[m] = "completed"
    <2>1. /\ Head(q) \in SeqRange(q) /\ Head(q).k = k /\ SeqRange(Tail(q)) \subseteq SeqRange(q)
          /\ SeqRange(Append(Tail(q), b)) \subseteq SeqRange(q) \cup {b}
        BY <1>2, HeadFacts
    <2>2. ~Waking
        BY <1>2, <2>1, Awake1 DEF DoneOK, BootActs
    <2>3. Sound(Head(q))
        BY <2>1 DEF DoneOK
    <2>4. Sound(b) /\ b.k \notin BootActs
        BY <1>2, <2>1, <2>3 DEF Sound, Early, Doomed, BootActs
    <2> QED
        BY <1>0, <1>1, <1>2, <2>1, <2>2, <2>4, DoneOne
<1>3. CASE RunStarted
    <2> DEFINE b == [Head(q) EXCEPT !.k = "setup"]
    <2>1. At("run2") /\ q' = Tail(q) /\ working' = working \cup {b}
        BY <1>3 DEF RunStarted
    <2>2. b.k = "setup" /\ b.n = Head(q).n
        BY <2>1, HeadFacts DEF Act, ActRec
    <2> HIDE DEF b
    <2> QED
        BY <1>2, <2>1, <2>2
<1>4. CASE RunDone
    <2> DEFINE b == [Head(q) EXCEPT !.k = "done2"]
    <2>1. At("done1") /\ q' = Append(Tail(q), b) /\ working' = working
        BY <1>4 DEF RunDone, Next1
    <2>2. b.k = "done2" /\ b.n = Head(q).n
        BY <2>1, HeadFacts DEF Act, ActRec
    <2> HIDE DEF b
    <2> QED
        BY <1>2, <2>1, <2>2
<1>5. ASSUME w \in working, w.k \in {"setup", "llm"}, NEW b, b.n = w.n, b.k \in {"llm", "done1"},
             \/ q' = q /\ working' = (working \ {w}) \cup {b}
             \/ q' = Append(q, b) /\ working' = working \ {w}
      PROVE  DoneOK' /\ \A m \in Nodes : phase[m] = "completed" => phase'[m] = "completed"
    <2>1. SeqRange(Append(q, b)) \subseteq SeqRange(q) \cup {b}
        BY <1>5, WorkFacts
    <2>2. ~Waking
        BY <1>5, Awake1 DEF DoneOK
    <2>3. Sound(w)
        BY <1>5 DEF DoneOK
    <2>4. Sound(b) /\ b.k \notin BootActs
        BY <1>5, <2>3 DEF Sound, Early, Doomed, BootActs
    <2> QED
        BY <1>0, <1>1, <1>5, <2>1, <2>2, <2>4, DoneOne
<1>6. CASE w \in working /\ Gather(w)
    <2>t. PICK t \in Workspace :
            working' = (working \ {w}) \cup {[w EXCEPT !.k = "llm", !.tree = t, !.ins = [m \in Nodes |-> IF m \in Upstream(w.n) THEN LatestDone(m) ELSE 0]]}
        BY <1>6 DEF Gather
    <2> DEFINE b == [w EXCEPT !.k = "llm", !.tree = t, !.ins = [m \in Nodes |-> IF m \in Upstream(w.n) THEN LatestDone(m) ELSE 0]]
    <2>1. w.k = "setup" /\ q' = q /\ working' = (working \ {w}) \cup {b}
        BY <1>6, <2>t DEF Gather
    <2>2. b.k = "llm" /\ b.n = w.n
        BY <1>6, WorkFacts DEF Act, ActRec
    <2> HIDE DEF b
    <2> QED
        BY <1>5, <1>6, <2>1, <2>2
<1>7. CASE w \in working /\ Finish(w)
    <2>1. w \in Act /\ working' = working \ {w} /\ w.k \in {"setup", "llm"}
        BY <1>7, WorkFacts DEF Finish
    <2>2. /\ \A o, vd : /\ [w EXCEPT !.k = "done1", !.out = o, !.verdict = vd].k = "done1"
                        /\ [w EXCEPT !.k = "done1", !.out = o, !.verdict = vd].n = w.n
          /\ [w EXCEPT !.k = "done1", !.out = "failed"].k = "done1"
          /\ [w EXCEPT !.k = "done1", !.out = "failed"].n = w.n
        BY <2>1 DEF Act, ActRec
    <2>3. CASE \E vd : q' = Append(q, [w EXCEPT !.k = "done1", !.out = Outcome(w.n), !.verdict = vd])
        <3>1. PICK vd : q' = Append(q, [w EXCEPT !.k = "done1", !.out = Outcome(w.n), !.verdict = vd])
            BY <2>3
        <3> DEFINE b == [w EXCEPT !.k = "done1", !.out = Outcome(w.n), !.verdict = vd]
        <3>2. q' = Append(q, b) /\ b.k = "done1" /\ b.n = w.n
            BY <2>2, <3>1
        <3> HIDE DEF b
        <3> QED
            BY <1>5, <1>7, <2>1, <3>2
    <2>4. CASE q' = Append(q, [w EXCEPT !.k = "done1", !.out = "failed"])
        <3> DEFINE b == [w EXCEPT !.k = "done1", !.out = "failed"]
        <3>1. q' = Append(q, b) /\ b.k = "done1" /\ b.n = w.n
            BY <2>2, <2>4
        <3> HIDE DEF b
        <3> QED
            BY <1>5, <1>7, <2>1, <3>1
    <2> QED
        BY <1>7, <2>3, <2>4 DEF Finish
<1>8. CASE w \in working /\ Overspend(w)
    <2>1. q' = q /\ working' = working /\ ~Waking
        BY <1>8, Awake1 DEF Overspend, DoneOK
    <2> QED
        BY <1>0, <1>1, <2>1, DoneLess
<1> QED
    BY <1>3, <1>4, <1>6, <1>7, <1>8

\* What follows the release of a run's workspace.
LEMMA DoneRelease ==
    ASSUME Inv, RunsInv, Forward, NoGates, DoneOK, Apart(working), NEW w \in working, Release(w),
           Yielded \/ ReleasesAtOnce(w)
    PROVE  DoneOK' /\ \A m \in Nodes : phase[m] = "completed" => phase'[m] = "completed"
<1>1. w \in Act /\ w.n \in Nodes /\ GateTarget[w.n] = 0 /\ w.k = "release"
    BY WorkFacts DEF NoGates, Release
<1>2. phase' = phase /\ alive' = alive /\ booting' = booting /\ working' = working \ {w}
    BY DEF Release, log, ctl
<1>3. ~Waking /\ Sound(w)
    BY Awake1 DEF DoneOK
<1>4. TodoOK'
    <2>1. NoSync
        BY DEF Yielded, NoSync, Apart
    <2> QED
        BY <2>1, SteadyRelease, TodoSteady
<1> DEFINE S == StillPending(Downstream(w.n))
           x == [w EXCEPT !.k = "pend", !.tree = "none"]
           y == [w EXCEPT !.k = "mdf", !.tree = "none", !.left = S, !.i = Least(S)]
<1>5. \/ q' = q
      \/ w.out = "failed" /\ q' = Append(q, x)
      \/ w.out = "failed" /\ S # {} /\ q' = Append(q, y)
    BY <1>1 DEF Release
<1>6. /\ x.k = "pend" /\ x.n = w.n
      /\ y.k = "mdf" /\ y.n = w.n /\ y.left = S /\ y.i = Least(S)
    BY <1>1 DEF Act, ActRec
<1>7. S \subseteq Downstream(w.n) /\ S \subseteq Nodes
    BY DEF StillPending, Downstream
<1> HIDE DEF S, x, y
<1>8. CASE q' = q
    BY <1>2, <1>3, <1>4, <1>8, DoneLess
<1>9. ASSUME w.out = "failed", NEW b, q' = Append(q, b), b.k \in {"pend", "mdf"}, b.n = w.n,
             b.k = "mdf" => b.left \subseteq Downstream(w.n) /\ b.i \in Downstream(w.n)
      PROVE  DoneOK' /\ \A m \in Nodes : phase[m] = "completed" => phase'[m] = "completed"
    <2>1. SeqRange(q') \subseteq SeqRange(q) \cup {b}
        BY <1>9, WorkFacts
    <2>2. Sound(b) /\ b.k \notin BootActs
        BY <1>1, <1>3, <1>9 DEF Sound, Early, Doomed, BootActs
    <2> QED
        BY <1>2, <1>3, <1>4, <2>1, <2>2, DoneOne
<1>10. CASE w.out = "failed" /\ q' = Append(q, x)
    BY <1>6, <1>9, <1>10
<1>11. CASE w.out = "failed" /\ S # {} /\ q' = Append(q, y)
    <2>1. Least(S) \in S
        BY <1>7, <1>11, LeastNode
    <2> QED
        BY <1>6, <1>7, <1>9, <1>11, <2>1
<1> QED
    BY <1>5, <1>8, <1>10, <1>11

\* The steps of the log about the task.
LEMMA DoneTask ==
    ASSUME Inv, RunsInv, DoneOK, Yielded,
           Kick \/ Suspend \/ Finalize \/ CancelFinalize \/ BudgetReported \/ ApproveRun
    PROVE  DoneOK' /\ \A m \in Nodes : phase[m] = "completed" => phase'[m] = "completed"
<1>0. TodoOK'
    BY SteadyEnds, TodoSteady DEF Yielded, NoSync
<1>1. phase' = phase /\ alive' = alive /\ booting' = booting /\ working' = working
    BY DEF Kick, Suspend, Finalize, CancelFinalize, BudgetReported, ApproveRun, log, ctl
<1>2. PICK k \in {"kick", "susp", "fin", "cfin", "stop", "ap1"} : At(k)
    BY DEF Kick, Suspend, Finalize, CancelFinalize, BudgetReported, ApproveRun
<1>3. /\ Head(q) \in SeqRange(q) /\ Head(q) \in Act /\ Head(q).k = k /\ SeqRange(Tail(q)) \subseteq SeqRange(q)
      /\ \A b : SeqRange(Append(Tail(q), b)) \subseteq SeqRange(q) \cup {b}
    BY <1>2, HeadFacts
<1>4. ~Waking
    BY <1>2, <1>3, Awake1 DEF DoneOK, BootActs
<1>5. CASE q' = Tail(q)
    BY <1>0, <1>1, <1>3, <1>4, <1>5, DoneLess
<1>6. CASE ApproveRun
    <2> DEFINE b == [Head(q) EXCEPT !.k = "ap2"]
    <2>1. At("ap1") /\ q' = Append(Tail(q), b)
        BY <1>6 DEF ApproveRun, Next1
    <2>2. b.k = "ap2" /\ b.n = Head(q).n /\ Head(q).k = "ap1"
        BY <1>3, <2>1, HeadFacts DEF Act, ActRec
    <2>3. Sound(Head(q))
        BY <1>3 DEF DoneOK
    <2>4. Sound(b) /\ b.k \notin BootActs
        BY <2>2, <2>3 DEF Sound, Early, Doomed, BootActs
    <2> HIDE DEF b
    <2> QED
        BY <1>0, <1>1, <1>3, <1>4, <2>1, <2>4, DoneOne
<1> QED
    BY <1>5, <1>6 DEF Kick, Suspend, Finalize, CancelFinalize, BudgetReported

-----------------------------------------------------------------------------
\* The steps of the schedule loops.

\* A step of a loop that starts nothing: it may queue its end as b.
LEMMA DoneLoop ==
    ASSUME Inv, RunsInv, DoneOK, NEW g \in 1..Len(rt), rt[g].pc # "idle", TodoOK',
           phase' = phase, alive' = alive, booting' = booting, working' = working,
           NEW b, b.k \in {"susp", "fin"}, q' = q \/ q' = Append(q, b)
    PROVE  DoneOK' /\ \A m \in Nodes : phase[m] = "completed" => phase'[m] = "completed"
<1>1. Len(rt) # 0
    OBVIOUS
<1>2. ~Waking
    BY <1>1, Awake1 DEF DoneOK
<1>3. Sound(b) /\ b.k \notin BootActs
    BY DEF Sound, Early, Doomed, BootActs
<1>4. SeqRange(q') \subseteq SeqRange(q) \cup {b}
    BY Types, RangeAppend
<1> QED
    BY <1>2, <1>3, <1>4, DoneOne

LEMMA DoneLooks ==
    ASSUME Inv, RunsInv, DoneOK, NEW g \in 1..Len(rt),
           Top(g) \/ Integrate(g) \/ CheckBudget(g) \/ Reported(g) \/ Settle(g)
    PROVE  DoneOK' /\ \A m \in Nodes : phase[m] = "completed" => phase'[m] = "completed"
<1>1. /\ rt[g].pc # "idle" /\ phase' = phase /\ alive' = alive /\ booting' = booting /\ working' = working
    BY DEF Top, Integrate, CheckBudget, Reported, Settle, log, ctl
<1>2. /\ Len(rt') = Len(rt) /\ \A h \in 1..Len(rt) : h # g => rt'[h] = rt[h]
      /\ rt'[g].pc # "dispatch"
    <2>1. CASE Top(g)
        BY <2>1, TopIs
    <2>2. CASE Integrate(g) \/ CheckBudget(g) \/ Reported(g)
        BY <2>2, LoopMoves DEF Moved
    <2>3. CASE Settle(g)
        BY <2>3, SettleIs
    <2> QED
        BY <2>1, <2>2, <2>3
<1>3. \A h \in 1..Len(rt) : h # g => rt[h].pc = "idle"
    BY <1>1 DEF RunsInv, LoopOK
<1>4. TodoOK'
    BY <1>2, <1>3 DEF TodoOK
<1> DEFINE x == [Blank EXCEPT !.k = "susp", !.g = g]
           y == [Blank EXCEPT !.k = "fin", !.g = g, !.out = FinalStatus]
<1>5. q' = q \/ q' = Append(q, x) \/ q' = Append(q, y)
    BY DEF Top, Integrate, CheckBudget, Reported, Settle
<1>6. x.k = "susp" /\ y.k = "fin"
    BY DEF Blank
<1> HIDE DEF x, y
<1>7. CASE q' = q
    BY <1>1, <1>4, <1>6, <1>7, DoneLoop
<1>8. CASE q' = Append(q, x)
    BY <1>1, <1>4, <1>6, <1>8, DoneLoop
<1>9. CASE q' = Append(q, y)
    BY <1>1, <1>4, <1>6, <1>9, DoneLoop
<1> QED
    BY <1>5, <1>7, <1>8, <1>9

\* What the loop is about to start is runnable.
LEMMA DoneReady ==
    ASSUME Inv, RunsInv, DoneOK, NEW g \in 1..Len(rt), Ready(g)
    PROVE  DoneOK' /\ \A m \in Nodes : phase[m] = "completed" => phase'[m] = "completed"
<1> DEFINE r == rt[g]
           todo == Startable(r)
           room == Capacity(r)
           e == [r EXCEPT !.pc = "dispatch", !.todo = todo, !.room = room]
<1>1. /\ r.pc = "ready" /\ q' = q
      /\ phase' = phase /\ alive' = alive /\ booting' = booting /\ working' = working
    BY DEF Ready, log, ctl
<1>2. rt \in Seq(Awake) /\ r \in Runtime /\ r.sr = g
    BY <1>1, OwnRuntime
<1>3. rt' = [rt EXCEPT ![g] = e]
    BY <1>2 DEF Ready
<1>4. \A n \in todo : phase[n] = "pending" /\ UpDone(n)
    BY DEF Startable, Runnable, UpDone
<1> HIDE DEF todo, room
<1>5. e.todo = todo
    BY <1>2 DEF Runtime
<1> HIDE DEF e
<1>6. Len(rt') = Len(rt) /\ rt'[g] = e /\ \A h \in 1..Len(rt) : h # g => rt'[h] = rt[h]
    BY <1>2, <1>3, Replaced
<1>7. \A h \in 1..Len(rt) : h # g => rt[h].pc = "idle"
    BY <1>1 DEF RunsInv, LoopOK
<1>8. TodoOK'
    BY <1>1, <1>4, <1>5, <1>6, <1>7 DEF TodoOK, UpDone
<1>9. \E b : b.k \in {"susp", "fin"}
    BY BlankPlain
<1> QED
    BY <1>1, <1>8, <1>9, DoneLoop

\* A run that starts finds its node pending and its upstream completed.
LEMMA DoneDispatch ==
    ASSUME Inv, RunsInv, DoneOK, NEW g \in 1..Len(rt), Dispatch(g)
    PROVE  DoneOK' /\ \A m \in Nodes : phase[m] = "completed" => phase'[m] = "completed"
<1>0. PICK n \in Nodes, v \in Nat : \E b : Starts(g, n, v, b)
    BY DispatchIs
<1>1. PICK b : Starts(g, n, v, b)
    BY <1>0
<1>2. rt[g].pc = "dispatch" /\ phase' = phase /\ alive' = alive /\ booting' = booting /\ working' = working
    BY DEF Dispatch, log, ctl
<1>3. /\ Len(rt') = Len(rt) /\ \A h \in 1..Len(rt) : h # g => rt'[h] = rt[h]
      /\ rt'[g].todo = rt[g].todo \ {n} /\ n \in rt[g].todo
      /\ q' = Append(q, b) /\ b.k = "run1" /\ b.n = n
    BY <1>1 DEF Starts
<1>4. \A m \in rt[g].todo : phase[m] = "pending" /\ UpDone(m)
    BY <1>2 DEF DoneOK, TodoOK
<1>5. \A h \in 1..Len(rt) : h # g => rt[h].pc = "idle"
    BY <1>2 DEF RunsInv, LoopOK
<1>6. TodoOK'
    BY <1>2, <1>3, <1>4, <1>5 DEF TodoOK, UpDone
<1>7. Sound(b) /\ b.k \notin BootActs
    BY <1>3, <1>4 DEF Sound, Doomed, BootActs
<1>8. ~Waking
    <2>1. Len(rt) # 0
        OBVIOUS
    <2> QED
        BY <2>1, Awake1 DEF DoneOK
<1>9. SeqRange(q') \subseteq SeqRange(q) \cup {b}
    BY <1>3, Types, RangeAppend
<1> QED
    BY <1>2, <1>6, <1>7, <1>8, <1>9, DoneOne

-----------------------------------------------------------------------------
\* The boot pass, the requests and the crash.

\* A step that may come while the boot pass is at work: it leaves the runtimes
\* alone, and all it queues then is a delete.
LEMMA DoneSome ==
    ASSUME Inv, RunsInv, DoneOK, phase' = phase, alive' => alive, booting' = booting, TodoOK',
           NEW B, \A b \in B : Sound(b) /\ b.k \notin BootActs,
           SeqRange(q') \subseteq SeqRange(q) \cup B, working' \subseteq working,
           Waking => rt' = rt /\ cur' = cur /\ \A b \in B : b.k = "del"
    PROVE  DoneOK' /\ \A m \in Nodes : phase[m] = "completed" => phase'[m] = "completed"
<1>1. WakeOK'
    <2>1. CASE Waking
        BY <2>1, BootAlone DEF WakeOK
    <2>2. CASE ~Waking
        BY <2>2, Awoken
    <2> QED
        BY <2>1, <2>2
<1> QED
    BY <1>1, DoneStays

LEMMA DoneTombstone ==
    ASSUME Inv, RunsInv, DoneOK, Yielded, Tombstone
    PROVE  DoneOK' /\ \A m \in Nodes : phase[m] = "completed" => phase'[m] = "completed"
<1>1. /\ At("del") /\ alive' = FALSE /\ q' = Tail(q) /\ phase' = phase /\ booting' = booting
      /\ working' = working /\ rt' = rt /\ cur' = cur
    BY DEF Tombstone, ctl
<1>2. SeqRange(q') \subseteq SeqRange(q)
    BY <1>1, HeadFacts
<1>3. TodoOK'
    BY <1>1 DEF TodoOK, Yielded, SyncPc
<1> DEFINE B == {}
<1>4. (\A b \in B : FALSE) /\ SeqRange(q') \subseteq SeqRange(q) \cup B
    BY <1>2
<1> HIDE DEF B
<1> QED
    BY <1>1, <1>3, <1>4, DoneSome

\* A step of the boot pass: it goes on as b.
LEMMA DoneBoot ==
    ASSUME Inv, RunsInv, DoneOK, Waking, phase' = phase, alive' = alive,
           rt' = rt, cur' = cur, working' = working,
           NEW B, \A b \in B : Sound(b) /\ b.k \in BootActs, SeqRange(q') \subseteq SeqRange(q) \cup B
    PROVE  DoneOK' /\ \A m \in Nodes : phase[m] = "completed" => phase'[m] = "completed"
<1>1. \A a \in SeqRange(q') : a \in SeqRange(q) \/ a.k \in BootActs \cup {"del"}
    OBVIOUS
<1>2. WakeOK' /\ TodoOK'
    BY <1>1, BootKeepsAlone
<1> QED
    BY <1>2, DoneStays

LEMMA DoneBootSteps ==
    ASSUME Inv, RunsInv, DoneOK, BootScan \/ BootRunFailed \/ BootPaused
    PROVE  DoneOK' /\ \A m \in Nodes : phase[m] = "completed" => phase'[m] = "completed"
<1>1. phase' = phase /\ alive' = alive /\ rt' = rt /\ cur' = cur /\ working' = working
    BY DEF BootScan, BootRunFailed, BootPaused, log
<1>2. CASE BootScan
    <2>1. PICK b : b = BootNext(phase, 0)
        OBVIOUS
    <2>2. b.k \in BootActs /\ (b.k \in {"b1", "b2"} => b.n \in Nodes /\ phase[b.n] = "running")
        BY <2>1, BootNextIs
    <2>3. Sound(b)
        BY <2>2 DEF Sound, Early, Doomed, BootActs
    <2>4. Waking /\ (q' = q \/ q' = Append(q, b))
        BY <1>2, <2>1 DEF BootScan, Waking
    <2> DEFINE B == {b}
    <2>5. SeqRange(q') \subseteq SeqRange(q) \cup B /\ \A x \in B : Sound(x) /\ x.k \in BootActs
        BY <2>2, <2>3, <2>4, Types, RangeAppend
    <2> HIDE DEF B
    <2> QED
        BY <1>1, <2>4, <2>5, DoneBoot
<1>3. CASE BootRunFailed
    <2>1. PICK a, b : a = Head(q) /\ b = [a EXCEPT !.k = "b2"]
        OBVIOUS
    <2>2. At("b1") /\ q' = Append(Tail(q), b)
        BY <1>3, <2>1 DEF BootRunFailed, Next1
    <2>3. a \in Act /\ a.k = "b1" /\ a \in SeqRange(q) /\ SeqRange(q') \subseteq SeqRange(q) \cup {b}
        BY <2>1, <2>2, HeadFacts
    <2>4. b.k = "b2" /\ b.n = a.n
        BY <2>1, <2>3 DEF Act, ActRec
    <2>5. Sound(b)
        BY <2>3, <2>4 DEF DoneOK, Sound, Early, Doomed
    <2>6. Waking
        BY <2>3 DEF Waking, BootActs
    <2> DEFINE B == {b}
    <2>7. SeqRange(q') \subseteq SeqRange(q) \cup B /\ \A x \in B : Sound(x) /\ x.k \in BootActs
        BY <2>3, <2>4, <2>5 DEF BootActs
    <2> HIDE DEF B
    <2> QED
        BY <1>1, <2>6, <2>7, DoneBoot
<1>4. CASE BootPaused
    <2>1. At("b3") /\ q' = Tail(q)
        BY <1>4 DEF BootPaused
    <2>2. Waking /\ SeqRange(q') \subseteq SeqRange(q)
        <3>1. Head(q) \in SeqRange(q) /\ Head(q).k = "b3" /\ SeqRange(Tail(q)) \subseteq SeqRange(q)
            BY <2>1, HeadFacts
        <3> QED
            BY <2>1, <3>1 DEF Waking, BootActs
    <2> DEFINE B == {}
    <2>3. SeqRange(q') \subseteq SeqRange(q) \cup B /\ \A x \in B : FALSE
        BY <2>2
    <2> HIDE DEF B
    <2> QED
        BY <1>1, <2>2, <2>3, DoneBoot
<1> QED
    BY <1>2, <1>3, <1>4

\* Between two stretches of the loops a request or an approval readies none to
\* dispatch.
LEMMA NoneReady ==
    ASSUME Inv, Forward, RunsInv, Yielded, Requests \/ ApproveDone
    PROVE  \A g \in 1..Len(rt') : rt'[g].pc # "dispatch"
<1>1. CASE Resume \/ ApproveDone
    <2>1. Alike(Ensured, rt')
        BY <1>1, ResumeAlike DEF ApproveDone, Alike
    <2>2. \A g \in 1..Len(Ensured) : Ensured[g].pc # "dispatch"
        <3>1. CASE cur # 0
            BY <3>1, EnsuredIs DEF Yielded, SyncPc
        <3>2. CASE cur = 0
            <4>1. \A g \in 1..(Len(rt) + 1) : g \in 1..Len(rt) \/ g = Len(rt) + 1
                BY Types
            <4> QED
                BY <3>2, <4>1, EnsuredIs DEF Yielded, SyncPc
        <3> QED
            BY <3>1, <3>2
    <2> QED
        BY <2>1, <2>2 DEF Alike
<1>2. CASE ~Resume /\ ~ApproveDone
    <2>1. Steady(rt, rt')
        BY <1>2, SteadyAsked
    <2> QED
        BY <2>1 DEF Steady, Yielded, SyncPc
<1> QED
    BY <1>1, <1>2

\* So no loop is about to start something after a request.
LEMMA TodoAsked ==
    ASSUME Inv, Forward, RunsInv, Yielded, Requests
    PROVE  TodoOK'
BY NoneReady DEF TodoOK

LEMMA DoneStop ==
    ASSUME Inv, RunsInv, Forward, DoneOK, Yielded, Cancel \/ Delete
    PROVE  DoneOK' /\ \A m \in Nodes : phase[m] = "completed" => phase'[m] = "completed"
<1> DEFINE f == [Blank EXCEPT !.k = "cfin", !.out = "failed"]
           d == [Blank EXCEPT !.k = "del"]
<1>1. f \in Act /\ d \in Act /\ f.k = "cfin" /\ d.k = "del"
    BY CancelAct, DeleteAct DEF Blank
<1>2. phase' = phase /\ alive' = alive /\ booting' = booting /\ working' = working /\ cur' = cur
    BY DEF Cancel, Delete, log, Request1
<1>3. \/ cur = 0 /\ rt' = rt /\ q' = Append(q, d)
      \/ cur # 0 /\ q' \in {q, q \o CancelRest, q \o <<d>> \o CancelRest}
    BY DEF Cancel, Delete, CancelNow
<1>4. CancelRest \in {<<f>>, <<>>}
    BY DEF CancelRest
<1> HIDE DEF f, d
<1>5. q \in Seq(Act) /\ Append(q, d) \in Seq(Act) /\ q \o <<d>> = Append(q, d)
    BY <1>1, Types, AppendProperties, AppendIsConcat
<1>6. /\ q \o <<f>> = Append(q, f) /\ q \o <<>> = q
      /\ Append(q, d) \o <<f>> = Append(Append(q, d), f)
      /\ Append(q, d) \o <<>> = Append(q, d)
    BY <1>1, <1>5, AppendIsConcat, ConcatEmptySeq
<1>7. /\ SeqRange(Append(q, d)) = SeqRange(q) \cup {d}
      /\ SeqRange(Append(q, f)) = SeqRange(q) \cup {f}
      /\ SeqRange(Append(Append(q, d), f)) = SeqRange(q) \cup {d} \cup {f}
    BY <1>5, RangeAppend
<1>8. Sound(f) /\ Sound(d) /\ f.k \notin BootActs /\ d.k \notin BootActs
    BY <1>1 DEF Sound, Early, Doomed, BootActs
<1>9. TodoOK'
    BY TodoAsked DEF Requests
<1>10. CASE cur = 0
    <2> DEFINE B == {d}
    <2>1. /\ SeqRange(q') \subseteq SeqRange(q) \cup B /\ rt' = rt
          /\ \A b \in B : Sound(b) /\ b.k \notin BootActs /\ b.k = "del"
        BY <1>1, <1>3, <1>7, <1>8, <1>10
    <2> HIDE DEF B
    <2> QED
        BY <1>2, <1>9, <2>1, DoneSome
<1>11. CASE cur # 0
    <2> DEFINE B == {d, f}
    <2>1. SeqRange(q') \subseteq SeqRange(q) \cup B
        BY <1>3, <1>4, <1>5, <1>6, <1>7, <1>11
    <2>2. \A b \in B : Sound(b) /\ b.k \notin BootActs
        BY <1>8
    <2>3. ~Waking
        BY <1>11, Awake1 DEF DoneOK
    <2> HIDE DEF B
    <2> QED
        BY <1>2, <1>9, <2>1, <2>2, <2>3, DoneSome
<1> QED
    BY <1>10, <1>11

LEMMA DoneAsked ==
    ASSUME Inv, RunsInv, Forward, DoneOK, Yielded, Requests, AfterBoot
    PROVE  DoneOK' /\ \A m \in Nodes : phase[m] = "completed" => phase'[m] = "completed"
<1>1. TodoOK'
    BY TodoAsked
<1>2. CASE Pause
    <2>1. /\ phase' = phase /\ alive' = alive /\ booting' = booting /\ working' = working
          /\ q' = q /\ cur # 0
        BY <1>2 DEF Pause, log, Request1
    <2>2. ~Waking
        BY <2>1, Awake1 DEF DoneOK
    <2> QED
        BY <1>1, <2>1, <2>2, DoneLess
<1>3. CASE Cancel \/ Delete
    BY <1>3, DoneStop
<1>4. CASE Resume
    <2>1. PICK b : b = Blank
        OBVIOUS
    <2>2. /\ phase' = phase /\ alive' = alive /\ booting' = booting /\ working' = working
          /\ q' = Append(q, b) /\ b.k = "kick"
        BY <1>4, <2>1, BlankPlain DEF Resume, log, Request1
    <2>3. Sound(b) /\ b.k \notin BootActs
        BY <2>2 DEF Sound, Early, Doomed, BootActs
    <2>4. ~Waking /\ SeqRange(q') \subseteq SeqRange(q) \cup {b}
        BY <1>4, <2>2, Types, RangeAppend DEF AfterBoot
    <2> QED
        BY <1>1, <2>2, <2>3, <2>4, DoneOne
<1>5. ASSUME NEW n \in Nodes, Approve(n)
      PROVE  DoneOK' /\ \A m \in Nodes : phase[m] = "completed" => phase'[m] = "completed"
    <2>1. PICK b : b = [Blank EXCEPT !.k = "ap1", !.n = n,
                         !.v = IF runs[n] = <<>> THEN 1 ELSE runs[n][Len(runs[n])].ver]
        OBVIOUS
    <2>2. /\ phase' = phase /\ alive' = alive /\ booting' = booting /\ working' = working
          /\ q' = Append(q, b) /\ phase[n] = "waiting_approval"
        BY <1>5, <2>1 DEF Approve, log, Request1
    <2>3. b.k = "ap1" /\ b.n = n
        BY <2>1 DEF Blank
    <2>4. Sound(b) /\ b.k \notin BootActs
        BY <2>2, <2>3 DEF Sound, Early, Doomed, BootActs
    <2>5. ~Waking /\ SeqRange(q') \subseteq SeqRange(q) \cup {b}
        BY <1>5, <2>2, Types, RangeAppend DEF AfterBoot
    <2> QED
        BY <1>1, <2>2, <2>4, <2>5, DoneOne
<1> QED
    BY <1>2, <1>3, <1>4, <1>5, NoRerun DEF Requests

\* Everything but the phases dies with the sidecar.
LEMMA DoneCrash ==
    ASSUME DoneOK, Crash
    PROVE  DoneOK' /\ \A m \in Nodes : phase[m] = "completed" => phase'[m] = "completed"
<1>1. /\ phase' = phase /\ alive' = alive /\ Len(rt') = 0 /\ cur' = 0 /\ working' = {}
      /\ Len(q') = 0
    BY DEF Crash, log
<1>2. SeqRange(q') = {} /\ TodoOK'
    BY <1>1 DEF SeqRange, TodoOK
<1>3. WakeOK'
    BY <1>1, <1>2 DEF WakeOK
<1> QED
    BY <1>1, <1>2, <1>3, DoneStays

LEMMA DoneIdle ==
    ASSUME DoneOK, UNCHANGED vars
    PROVE  DoneOK' /\ \A m \in Nodes : phase[m] = "completed" => phase'[m] = "completed"
BY DEF vars, log, ctl, DoneOK, PhasesOK, WakeOK, Waking, TodoOK, Sound, UpDone, Doomed

\* No gate hands its phase to a human.
LEMMA NoEscalation ==
    ASSUME Inv, RunsInv, DoneOK
    PROVE  ~Escalate
<1> SUFFICES ASSUME Escalate PROVE FALSE
    OBVIOUS
<1>1. Head(q) \in SeqRange(q) /\ Head(q).k = "esc"
    BY HeadFacts DEF Escalate
<1> QED
    BY <1>1 DEF DoneOK, Sound

\* At most one continuation is ready at a time, whatever the user asks.
LEMMA ApartNext ==
    ASSUME Inv, RunsInv, Forward, Apart(working), [Next]_vars
    PROVE  Apart(working)'
<1>0. ASSUME \A w \in working' : ~ReleasesAtOnce(w)
      PROVE  Apart(working)'
    BY <1>0 DEF Apart, ReleasesAtOnce
<1>1. CASE UNCHANGED vars
    BY <1>1 DEF vars, Apart, ReleasesAtOnce
<1>2. ASSUME NEW g \in 1..Len(rt), Top(g) \/ CheckBudget(g) \/ Ready(g) \/ Dispatch(g) \/ Settle(g)
      PROVE  Apart(working)'
    <2>1. rt[g].pc \in SyncPc /\ working' = working
        BY <1>2 DEF Top, CheckBudget, Ready, Dispatch, Settle, SyncPc
    <2> QED
        BY <1>0, <2>1 DEF Apart
<1>3. ASSUME NEW w \in working, ReleasesAtOnce(w), Release(w)
      PROVE  Apart(working)'
    BY <1>0, <1>3 DEF Apart, Release
<1>4. ASSUME Yielded, working' \subseteq working
      PROVE  Apart(working)'
    BY <1>0, <1>4 DEF Yielded
<1>5. CASE Yielded /\ Turn
    <2>1. ASSUME NEW w \in working, Gather(w) \/ Finish(w)
          PROVE  Apart(working)'
        BY <1>0, <1>5, <2>1, RunsWait
    <2>2. ASSUME NEW w \in working, Release(w)
          PROVE  Apart(working)'
        BY <1>4, <1>5, <2>2 DEF Release
    <2> QED
        BY <1>5, <2>1, <2>2 DEF Turn
<1>6. CASE Yielded /\ Appended
    <2>1. CASE RunStarted
        BY <1>0, <1>6, <2>1, RunsWait
    <2>2. CASE PhaseDone
        BY <1>6, <2>2, ApartPhaseDone
    <2>3. CASE Kick \/ Suspend \/ Finalize \/ CancelFinalize \/ PhaseRunning \/ RunDone
        BY <1>4, <1>6, <2>3 DEF Kick, Suspend, Finalize, CancelFinalize, PhaseRunning, RunDone
    <2>4. CASE BudgetPending \/ BudgetReported \/ DownstreamFailed \/ Escalate \/ ApproveRun \/ ApproveDone
        BY <1>4, <1>6, <2>4
        DEF BudgetPending, BudgetReported, DownstreamFailed, Escalate, ApproveRun, ApproveDone
    <2>5. CASE Tombstone \/ BootRunFailed \/ BootPending \/ BootPaused
        BY <1>4, <1>6, <2>5 DEF Tombstone, BootRunFailed, BootPending, BootPaused
    <2> QED
        BY <1>6, <2>1, <2>2, <2>3, <2>4, <2>5, NoRerun DEF Appended
<1>7. CASE Yielded /\ (LoopIo \/ BootScan \/ \E w \in working : Overspend(w))
    BY <1>4, <1>7 DEF LoopIo, Integrate, Reported, BootScan, Overspend
<1>8. CASE Yielded /\ Requests
    BY <1>4, <1>8, NoRerun DEF Requests, Pause, Cancel, Delete, Resume, Approve
<1>9. CASE Crash
    BY <1>0, <1>9 DEF Crash
<1> QED
    BY <1>1, <1>2, <1>3, <1>5, <1>6, <1>7, <1>8, <1>9 DEF Next, EngineStep, Idle, Sync

LEMMA DoneNext ==
    ASSUME Inv, RunsInv, Forward, NoGates, Apart(working), DoneOK, [Next]_vars, [AfterBoot]_vars
    PROVE  DoneOK' /\ \A m \in Nodes : phase[m] = "completed" => phase'[m] = "completed"
<1> DEFINE Goal == DoneOK' /\ \A m \in Nodes : phase[m] = "completed" => phase'[m] = "completed"
<1>0. CASE UNCHANGED vars
    BY <1>0, DoneIdle
<1>1. CASE Sync
    <2>1. ASSUME NEW g \in 1..Len(rt), Top(g) \/ CheckBudget(g) \/ Ready(g) \/ Dispatch(g) \/ Settle(g)
          PROVE  Goal
        BY <2>1, DoneLooks, DoneReady, DoneDispatch
    <2>2. ASSUME NEW w \in working, ReleasesAtOnce(w), Release(w)
          PROVE  Goal
        BY <2>2, DoneRelease
    <2> QED
        BY <1>1, <2>1, <2>2 DEF Sync
<1>2. CASE LoopIo
    BY <1>2, DoneLooks DEF LoopIo
<1>3. CASE Yielded /\ Turn
    BY <1>3, DoneRuns, DoneRelease DEF Turn
<1>4. CASE Yielded /\ Appended
    <2>1. CASE RunStarted \/ RunDone
        BY <1>4, <2>1, DoneRuns
    <2>2. CASE PhaseRunning \/ PhaseDone
        BY <1>4, <2>2, DonePhaseRunning, DonePhaseDone
    <2>3. CASE BudgetPending \/ DownstreamFailed
        BY <1>4, <2>3, DoneBudgetPending, DoneDownstreamFailed
    <2>4. CASE Kick \/ Suspend \/ Finalize \/ CancelFinalize \/ BudgetReported \/ ApproveRun
        BY <1>4, <2>4, DoneTask
    <2>5. CASE ApproveDone \/ Tombstone
        BY <1>4, <2>5, DoneApproveDone, DoneTombstone
    <2>6. CASE BootRunFailed \/ BootPending \/ BootPaused
        BY <1>4, <2>6, DoneBootSteps, DoneBootPending
    <2> QED
        BY <1>4, <2>1, <2>2, <2>3, <2>4, <2>5, <2>6, NoRerun, NoEscalation DEF Appended
<1>5. CASE BootScan
    BY <1>5, DoneBootSteps
<1>6. CASE Crash
    BY <1>6, DoneCrash
<1>7. CASE Yielded /\ \E w \in working : Overspend(w)
    BY <1>7, DoneRuns
<1>8. CASE Yielded /\ Requests /\ ~UNCHANGED vars
    BY <1>8, DoneAsked
<1> QED
    BY <1>0, <1>1, <1>2, <1>3, <1>4, <1>5, <1>6, <1>7, <1>8 DEF Next, EngineStep, Idle

LEMMA DoneInit == Init => DoneOK /\ Apart(working)
<1> SUFFICES ASSUME Init PROVE DoneOK /\ Apart(working)
    OBVIOUS
<1>1. /\ \A n \in Nodes : phase[n] = "pending"
      /\ q = <<Blank>> /\ working = {} /\ ~booting /\ Len(rt) = 1 /\ rt[1] = NewRuntime
    BY DEF Init
<1>3. PICK b : b = Blank
    OBVIOUS
<1>2. SeqRange(q) = {b} /\ b.k = "kick" /\ NewRuntime.pc = "idle"
    <2>1. b.k = "kick" /\ NewRuntime.pc = "idle"
        BY <1>3 DEF Blank, NewRuntime
    <2>2. q = <<b>>
        BY <1>1, <1>3
    <2> QED
        BY <2>1, <2>2 DEF SeqRange
<1>4. b.k = "kick" /\ Sound(b)
    BY <1>2, <1>3 DEF Sound, Early, Doomed
<1>5. ~Waking
    BY <1>1, <1>2 DEF Waking, BootActs
<1>6. TodoOK
    BY <1>1, <1>2 DEF TodoOK
<1> QED
    BY <1>1, <1>2, <1>3, <1>4, <1>5, <1>6 DEF DoneOK, PhasesOK, WakeOK, Apart

LEMMA DoneAlways ==
    ASSUME Forward, NoGates
    PROVE  Spec /\ [][Orderly]_vars /\ [][AfterBoot]_vars => [](DoneOK /\ Apart(working))
<1>1. Inv /\ RunsInv /\ DoneOK /\ Apart(working) /\ [Next]_vars /\ [AfterBoot]_vars => DoneOK'
    BY DoneNext
<1>2. Inv /\ RunsInv /\ Apart(working) /\ [Next]_vars => Apart(working)'
    BY ApartNext
<1> QED
    BY <1>1, <1>2, DoneInit, ForwardRuns, InvAlways, PTL DEF Spec

\* What is completed stays completed: failures mark only phases that have not
\* begun, a turn cut by the budget goes back to pending before it completes,
\* and the boot pass resets only what was running.
THEOREM CompletedStays ==
    ASSUME Forward, NoGates
    PROVE  Spec /\ [][Orderly]_vars /\ [][AfterBoot]_vars => CompletedSurvives
<1>1. Inv /\ RunsInv /\ DoneOK /\ Apart(working) /\ [Next]_vars /\ [AfterBoot]_vars
        => [\A n \in Nodes : phase[n] = "completed" => phase'[n] = "completed"]_vars
    BY DoneNext
<1> QED
    BY <1>1, DoneAlways, ForwardRuns, InvAlways, PTL DEF Spec, CompletedSurvives

-----------------------------------------------------------------------------
\* What a run works from.

LastRun(R, n) == R[n][Len(R[n])]

Ended(R, n, S) == R[n] # <<>> /\ LastRun(R, n).st \in S /\ LastRun(R, n).ver # 0

\* The last run of a phase that is completed, or waits, says so.
EndsOK ==
    \A n \in Nodes :
        /\ phase[n] = "completed" => Ended(runs, n, {"completed"})
        /\ phase[n] = "waiting_approval" => Ended(runs, n, {"completed", "waiting_approval"})

\* The activation a is about the last run of its node, and a run that will
\* count has read the last run of every node upstream.
Traced(a) ==
    /\ a.k \in Early => a.v # 0
    /\ alive /\ a.k \in {"setup", "llm", "done1", "done2", "ap1", "ap2"} =>
         runs[a.n] # <<>> /\ LastRun(runs, a.n).ver = a.v
    /\ alive /\ a.k = "done2" => LastRun(runs, a.n).st = a.out
    /\ alive /\ a.k = "ap2" => LastRun(runs, a.n).st = "completed"
    /\ a.k = "llm" \/ (a.k \in {"done1", "done2"} /\ a.out # "failed") =>
         \A m \in Upstream(a.n) : a.ins[m] = LastRun(runs, m).ver

FreshOK == EndsOK /\ \A a \in SeqRange(q) \cup working : Traced(a)

\* An activation that has nothing to say about runs.
Plain(a) == a.k \notin Early \cup {"ap1", "ap2"}

LEMMA PlainTraced ==
    ASSUME NEW a, Plain(a)
    PROVE  Traced(a) /\ Traced(a)'
BY DEF Plain, Traced, Early

LEMMA RunsOf ==
    ASSUME Inv, NEW n \in Nodes
    PROVE  /\ runs \in [Nodes -> Seq(RunRec)] /\ runs[n] \in Seq(RunRec) /\ Len(runs[n]) \in Nat
           /\ \A i \in 1..Len(runs[n]) : runs[n][i] \in RunRec
           /\ runs[n] # <<>> => Len(runs[n]) \in 1..Len(runs[n])
<1>1. runs \in [Nodes -> Seq(RunRec)] /\ runs[n] \in Seq(RunRec)
    BY DEF Inv, LogOK
<1>2. PICK s : s = runs[n]
    OBVIOUS
<1>3. s \in Seq(RunRec) /\ Len(s) \in Nat /\ \A i \in 1..Len(s) : s[i] \in RunRec
    BY <1>1, <1>2, LenProperties, ElementOfSeq
<1>4. s # <<>> => Len(s) # 0
    BY <1>3, EmptySeq
<1> QED
    BY <1>1, <1>2, <1>3, <1>4

\* What gatherUpstream feeds downstream is the last run, when that is completed.
LEMMA LatestIsLast ==
    ASSUME Inv, NEW n \in Nodes, Ended(runs, n, {"completed"})
    PROVE  LatestDone(n) = LastRun(runs, n).ver
<1> DEFINE S == HasRun(n, "completed")
           l == Len(runs[n])
<1>1. l \in Nat /\ l \in 1..l /\ runs[n][l].st = "completed"
    BY RunsOf DEF Ended, LastRun
<1>2. S \subseteq 1..l /\ l \in S
    BY <1>1 DEF HasRun, Indices
<1>3. \A j \in S : j <= l
    BY <1>1, <1>2
<1>4. (CHOOSE i \in S : \A j \in S : j <= i) = l
    <2>1. \E i \in S : \A j \in S : j <= i
        BY <1>2, <1>3
    <2> DEFINE c == CHOOSE i \in S : \A j \in S : j <= i
    <2>2. c \in S /\ \A j \in S : j <= c
        BY <2>1
    <2> HIDE DEF c, S
    <2>3. c <= l /\ l <= c /\ c \in Nat
        BY <1>1, <1>2, <1>3, <2>2
    <2>4. c = l
        BY <1>1, <2>3
    <2> QED
        BY <2>4 DEF c, S
<1>5. LatestDone(n) = runs[n][CHOOSE i \in S : \A j \in S : j <= i].ver
    BY <1>2 DEF LatestDone
<1> HIDE DEF S
<1> QED
    BY <1>4, <1>5 DEF LastRun

\* run.status of the version of the last run goes to the last run.
LEMMA LastWith ==
    ASSUME Inv, VersionsOK, alive, NEW n \in Nodes, runs[n] # <<>>, NEW v, v = LastRun(runs, n).ver, NEW s
    PROVE  LET R == RunsWith(n, v, s) IN
           /\ R[n] # <<>> /\ LastRun(R, n).st = s /\ LastRun(R, n).ver = v
           /\ \A m \in Nodes : m # n => R[m] = runs[m]
<1> DEFINE l == Len(runs[n])
           F == [i \in 1..l |->
                    IF runs[n][i].ver = v /\ \A j \in 1..(i - 1) : runs[n][j].ver # v
                    THEN [runs[n][i] EXCEPT !.st = s]
                    ELSE runs[n][i]]
           R == RunsWith(n, v, s)
<1>1. /\ runs \in [Nodes -> Seq(RunRec)] /\ l \in Nat /\ l \in 1..l
      /\ \A i \in 1..l : runs[n][i] \in RunRec
    BY RunsOf
<1>2. R = [runs EXCEPT ![n] = F]
    BY DEF RunsWith
<1>3. \A j \in 1..(l - 1) : runs[n][j].ver # v
    <2> SUFFICES ASSUME NEW j \in 1..(l - 1) PROVE runs[n][j].ver # v
        OBVIOUS
    <2>1. j \in 1..l /\ j < l
        BY <1>1
    <2>2. runs[n][j].ver < runs[n][l].ver
        BY <1>1, <2>1 DEF VersionsOK, Growing
    <2>3. runs[n][j].ver \in Nat /\ runs[n][l].ver \in Nat
        BY <1>1, <2>1 DEF RunRec
    <2> QED
        BY <2>2, <2>3 DEF LastRun
<1>4. F[l] = [runs[n][l] EXCEPT !.st = s]
    BY <1>1, <1>3 DEF LastRun
<1>5. F[l].st = s /\ F[l].ver = v
    BY <1>1, <1>4 DEF LastRun, RunRec
<1>6. Len(R[n]) = l
    BY <1>1, StatusOnly DEF SameVersions
<1> HIDE DEF F
<1>7. R[n] = F /\ \A m \in Nodes : m # n => R[m] = runs[m]
    BY <1>1, <1>2
<1>8. LastRun(R, n) = F[l]
    BY <1>6, <1>7 DEF LastRun
<1>9. R[n] # <<>>
    BY <1>1, <1>6
<1> QED
    BY <1>5, <1>7, <1>8, <1>9

\* Other activations, when something is said about the runs of n.
LEMMA OthersTraced ==
    ASSUME Inv, RunsInv, DoneOK, FreshOK, alive' => alive, NEW n \in Nodes,
           phase[n] \notin {"waiting_approval", "completed"},
           \A m \in Nodes : m # n => runs'[m] = runs[m],
           NEW c \in SeqRange(q) \cup working, c.k \in RunKinds => c.n # n
    PROVE  Traced(c)'
<1>1. c \in Act /\ Sound(c) /\ Traced(c)
    BY Types DEF DoneOK, FreshOK
<1>2. CASE Plain(c)
    BY <1>2, PlainTraced
<1>3. CASE c.k \in Early
    <2>1. c.n \in Nodes /\ c.n # n
        BY <1>1, <1>3, OfNode DEF Early, RunKinds, TaskKinds
    <2>2. \A m \in Upstream(c.n) : m \in Nodes /\ m # n
        BY <1>1, <1>3 DEF Sound, UpDone, Upstream
    <2>3. runs'[c.n] = runs[c.n] /\ \A m \in Upstream(c.n) : runs'[m] = runs[m]
        BY <2>1, <2>2
    <2> QED
        BY <1>1, <2>3 DEF Traced, LastRun
<1>4. CASE c.k \in {"ap1", "ap2"}
    <2>1. c.n \in Nodes /\ c.n # n
        BY <1>1, <1>4, OfNode DEF Sound, TaskKinds
    <2>2. runs'[c.n] = runs[c.n]
        BY <2>1
    <2> QED
        BY <1>1, <1>4, <2>2 DEF Traced, LastRun, Early
<1> QED
    BY <1>2, <1>3, <1>4 DEF Plain

\* A step that leaves the runs, and completes nothing.
LEMMA FreshStays ==
    ASSUME FreshOK, runs' = runs, alive' => alive,
           \A n \in Nodes : phase'[n] \in {"waiting_approval", "completed"} => phase'[n] = phase[n],
           \A a \in SeqRange(q') \cup working' : a \in SeqRange(q) \cup working \/ Traced(a)
    PROVE  FreshOK'
<1>1. \A a : Traced(a) => Traced(a)'
    BY DEF Traced, LastRun
<1>2. \A a \in SeqRange(q') \cup working' : Traced(a)'
    BY <1>1 DEF FreshOK
<1>3. EndsOK'
    BY DEF FreshOK, EndsOK, Ended, LastRun
<1> QED
    BY <1>2, <1>3 DEF FreshOK

\* The runs of n change, a node that is neither completed nor waiting.
LEMMA FreshRuns ==
    ASSUME Inv, RunsInv, DoneOK, FreshOK, alive' => alive, phase' = phase, NEW n \in Nodes,
           phase[n] \notin {"waiting_approval", "completed"},
           \A m \in Nodes : m # n => runs'[m] = runs[m],
           \A c \in SeqRange(q') \cup working' :
               Traced(c)' \/ (c \in SeqRange(q) \cup working /\ (c.k \in RunKinds => c.n # n))
    PROVE  FreshOK'
<1>1. \A c \in SeqRange(q') \cup working' : Traced(c)'
    BY OthersTraced
<1>2. EndsOK'
    BY DEF FreshOK, EndsOK, Ended, LastRun
<1> QED
    BY <1>1, <1>2 DEF FreshOK

\* A run is folded: it is the last one of its node.
LEMMA FreshRunStarted ==
    ASSUME Inv, RunsInv, DoneOK, FreshOK, RunStarted
    PROVE  FreshOK'
<1>0. PICK a, b, e : a = Head(q) /\ b = [a EXCEPT !.k = "setup"]
                     /\ e = [ver |-> a.v, st |-> "running", auto |-> a.auto]
    OBVIOUS
<1>1. /\ At("run2") /\ "run2" \in RunKinds /\ q' = Tail(q) /\ working' = working \cup {b}
      /\ phase' = phase /\ alive' = alive
      /\ runs' = IF alive THEN [runs EXCEPT ![a.n] = Append(@, e)] ELSE runs
    BY <1>0 DEF RunStarted, RunKinds
<1>2. a \in Act /\ a.k = "run2" /\ a \in SeqRange(q) /\ a.n \in Nodes
    BY <1>0, <1>1, HeadFacts
<1>3. b.k = "setup" /\ b.n = a.n /\ b.v = a.v
    BY <1>0, <1>2 DEF Act, ActRec
<1>4. phase[a.n] \in {"pending", "running"} /\ a.v # 0
    BY <1>2 DEF DoneOK, Sound, FreshOK, Traced, Early
<1>5. /\ \A m \in Nodes : m # a.n => runs'[m] = runs[m]
      /\ alive => runs'[a.n] = Append(runs[a.n], e)
    BY <1>1, <1>2, RunsOf
<1>6. alive => runs'[a.n] # <<>> /\ LastRun(runs', a.n) = e
    <2> SUFFICES ASSUME alive PROVE runs'[a.n] # <<>> /\ LastRun(runs', a.n) = e
        OBVIOUS
    <2>1. PICK s : s = runs[a.n]
        OBVIOUS
    <2>2. s \in Seq(RunRec) /\ e \in RunRec
        <3>1. a.v \in Nat /\ a.auto \in BOOLEAN
            BY <1>2 DEF Act, ActRec
        <3> QED
            BY <1>0, <1>2, <2>1, <3>1, RunsOf DEF RunRec, RunStatus
    <2>3. Append(s, e) # <<>> /\ Append(s, e)[Len(Append(s, e))] = e
        BY <2>2, AppendProperties
    <2> QED
        BY <1>5, <2>1, <2>3 DEF LastRun
<1>7. e.ver = a.v
    BY <1>0
<1>8. Traced(b)'
    BY <1>1, <1>3, <1>4, <1>6, <1>7 DEF Traced
<1>9. \A c \in SeqRange(q') \cup working' :
        Traced(c)' \/ (c \in SeqRange(q) \cup working /\ (c.k \in RunKinds => c.n # a.n))
    BY <1>0, <1>1, <1>8, HeadAlone
<1> QED
    BY <1>1, <1>2, <1>4, <1>5, <1>9, FreshRuns

\* A run ends: its status is the one of the last run.
LEMMA FreshRunDone ==
    ASSUME Inv, RunsInv, VersionsOK, DoneOK, FreshOK, RunDone
    PROVE  FreshOK'
<1>0. PICK a, b : a = Head(q) /\ b = [a EXCEPT !.k = "done2"]
    OBVIOUS
<1>1. /\ At("done1") /\ "done1" \in RunKinds /\ q' = Append(Tail(q), b) /\ working' = working
      /\ phase' = phase /\ alive' = alive /\ runs' = RunsWith(a.n, a.v, a.out)
    BY <1>0 DEF RunDone, RunKinds, Next1
<1>2. a \in Act /\ a.k = "done1" /\ a \in SeqRange(q) /\ a.n \in Nodes /\ Tail(q) \in Seq(Act)
    BY <1>0, <1>1, HeadFacts
<1>3. b.k = "done2" /\ b.n = a.n /\ b.v = a.v /\ b.out = a.out /\ b.ins = a.ins
    BY <1>0, <1>2 DEF Act, ActRec
<1>4. phase[a.n] \in {"pending", "running"} /\ UpDone(a.n) /\ Traced(a)
    BY <1>2 DEF DoneOK, Sound, FreshOK, Early
<1>5. CASE ~alive
    <2>1. runs' = runs
        BY <1>1, <1>5 DEF RunsWith
    <2>2. Traced(b)
        BY <1>2, <1>3, <1>4, <1>5 DEF Traced, Early
    <2>3. SeqRange(q') \subseteq SeqRange(q) \cup {b}
        BY <1>1, HeadFacts
    <2> QED
        BY <1>1, <2>1, <2>2, <2>3, FreshStays
<1>6. CASE alive
    <2>1. runs[a.n] # <<>> /\ LastRun(runs, a.n).ver = a.v
        BY <1>2, <1>4, <1>6 DEF Traced
    <2>2. /\ runs'[a.n] # <<>> /\ LastRun(runs', a.n).st = a.out /\ LastRun(runs', a.n).ver = a.v
          /\ \A m \in Nodes : m # a.n => runs'[m] = runs[m]
        <3>1. PICK n, v, s : n = a.n /\ v = a.v /\ s = a.out
            OBVIOUS
        <3>2. n \in Nodes /\ runs[n] # <<>> /\ v = LastRun(runs, n).ver /\ runs' = RunsWith(n, v, s)
            BY <1>1, <1>2, <2>1, <3>1
        <3>3. /\ runs'[n] # <<>> /\ LastRun(runs', n).st = s /\ LastRun(runs', n).ver = v
              /\ \A m \in Nodes : m # n => runs'[m] = runs[m]
            BY <1>6, <3>2, LastWith
        <3> QED
            BY <3>1, <3>3
    <2>3. \A m \in Upstream(a.n) : runs'[m] = runs[m]
        BY <1>4, <2>2 DEF UpDone, Upstream
    <2>4. Traced(b)'
        BY <1>2, <1>3, <1>4, <2>2, <2>3 DEF Traced, Early, LastRun
    <2>5. SeqRange(q') = SeqRange(Tail(q)) \cup {b}
        BY <1>1, <1>2, RangeAppend
    <2>6. \A c \in SeqRange(q') \cup working' :
            Traced(c)' \/ (c \in SeqRange(q) \cup working /\ (c.k \in RunKinds => c.n # a.n))
        BY <1>0, <1>1, <2>4, <2>5, HeadAlone
    <2> QED
        BY <1>1, <1>2, <1>4, <2>2, <2>6, FreshRuns
<1> QED
    BY <1>5, <1>6

\* An approval completes the last run of its phase.
LEMMA FreshApproveRun ==
    ASSUME Inv, RunsInv, VersionsOK, DoneOK, FreshOK, ApproveRun
    PROVE  FreshOK'
<1>0. PICK a, b : a = Head(q) /\ b = [a EXCEPT !.k = "ap2"]
    OBVIOUS
<1>1. /\ At("ap1") /\ q' = Append(Tail(q), b) /\ working' = working
      /\ phase' = phase /\ alive' = alive /\ runs' = RunsWith(a.n, a.v, "completed")
    BY <1>0 DEF ApproveRun, Next1
<1>2. a \in Act /\ a.k = "ap1" /\ a \in SeqRange(q) /\ a.n \in Nodes
      /\ SeqRange(q') \subseteq SeqRange(q) \cup {b}
    <2>1. a \in Act /\ a.k = "ap1" /\ a \in SeqRange(q) /\ SeqRange(q') \subseteq SeqRange(q) \cup {b}
        BY <1>0, <1>1, HeadFacts
    <2> QED
        BY <2>1, OfNode DEF TaskKinds
<1>3. b.k = "ap2" /\ b.n = a.n /\ b.v = a.v
    BY <1>0, <1>2 DEF Act, ActRec
<1>4. phase[a.n] \in {"waiting_approval", "completed"} /\ Traced(a)
    BY <1>2 DEF DoneOK, Sound, FreshOK
<1>5. CASE ~alive
    <2>1. runs' = runs
        BY <1>1, <1>5 DEF RunsWith
    <2>2. Traced(b)
        BY <1>3, <1>5 DEF Traced, Early
    <2> QED
        BY <1>1, <1>2, <2>1, <2>2, FreshStays
<1>6. CASE alive
    <2>1. runs[a.n] # <<>> /\ LastRun(runs, a.n).ver = a.v
        BY <1>2, <1>4, <1>6 DEF Traced
    <2>2. /\ runs'[a.n] # <<>> /\ LastRun(runs', a.n).st = "completed" /\ LastRun(runs', a.n).ver = a.v
          /\ \A m \in Nodes : m # a.n => runs'[m] = runs[m]
        BY <1>1, <1>2, <1>6, <2>1, LastWith
    <2>3. EndsOK'
        <3>1. LastRun(runs, a.n).ver # 0
            BY <1>2, <1>4 DEF FreshOK, EndsOK, Ended
        <3> QED
            BY <1>1, <2>1, <2>2, <3>1 DEF FreshOK, EndsOK, Ended, LastRun
    <2>4. Traced(b)'
        BY <1>3, <2>2 DEF Traced, Early
    <2>5. ASSUME NEW c \in SeqRange(q) \cup working
          PROVE  Traced(c)'
        <3>1. c \in Act /\ Sound(c) /\ Traced(c)
            BY Types DEF DoneOK, FreshOK
        <3>2. \A m \in Nodes : LastRun(runs', m).ver = LastRun(runs, m).ver
            BY <2>1, <2>2 DEF LastRun
        <3>3. CASE Plain(c)
            BY <3>3, PlainTraced
        <3>4. CASE c.k \in Early
            <4>1. c.n \in Nodes
                BY <3>1, <3>4, OfNode DEF Early, TaskKinds
            <4>2. c.n # a.n
                BY <1>4, <3>1, <3>4 DEF Sound
            <4>3. runs'[c.n] = runs[c.n]
                BY <2>2, <4>1, <4>2
            <4> QED
                BY <1>1, <3>1, <3>2, <3>4, <4>3 DEF Traced, LastRun, Upstream, Early
        <3>5. CASE c.k \in {"ap1", "ap2"}
            <4>1. c.n \in Nodes
                BY <3>1, <3>5, OfNode DEF TaskKinds
            <4> QED
                BY <1>1, <2>2, <3>1, <3>2, <3>5, <4>1 DEF Traced, LastRun, Early
        <3> QED
            BY <3>3, <3>4, <3>5 DEF Plain
    <2> QED
        BY <1>1, <1>2, <2>3, <2>4, <2>5 DEF FreshOK
<1> QED
    BY <1>5, <1>6

\* The boot pass fails the run that died with the sidecar.
LEMMA FreshBootRunFailed ==
    ASSUME Inv, RunsInv, DoneOK, FreshOK, BootRunFailed
    PROVE  FreshOK'
<1>0. PICK a, b : a = Head(q) /\ b = [a EXCEPT !.k = "b2"]
    OBVIOUS
<1>1. /\ At("b1") /\ q' = Append(Tail(q), b) /\ working' = working
      /\ phase' = phase /\ alive' = alive /\ runs' = RunsWith(a.n, a.v, "failed")
    BY <1>0 DEF BootRunFailed, Next1
<1>2. a \in Act /\ a.k = "b1" /\ a \in SeqRange(q) /\ SeqRange(q') \subseteq SeqRange(q) \cup {b}
    BY <1>0, <1>1, HeadFacts
<1>3. a.n \in Nodes /\ b.k = "b2"
    BY <1>0, <1>2, OfNode DEF Act, ActRec, TaskKinds
<1>4. phase[a.n] \in {"running", "pending"} /\ Waking
    BY <1>2 DEF DoneOK, Sound, Waking, BootActs
<1>5. \A m \in Nodes : m # a.n => runs'[m] = runs[m]
    BY <1>1, <1>3, RunsOf DEF RunsWith
<1>6. \A c \in SeqRange(q') \cup working' : Plain(c)
    BY <1>1, <1>2, <1>3, <1>4, BootAlone DEF Plain, Early, BootActs
<1>7. \A c \in SeqRange(q') \cup working' : Traced(c)'
    BY <1>6, PlainTraced
<1> QED
    BY <1>1, <1>3, <1>4, <1>5, <1>7, FreshRuns

-----------------------------------------------------------------------------
\* The phases change, or runs move on.

LEMMA FreshPhaseDone ==
    ASSUME Inv, RunsInv, DoneOK, FreshOK, PhaseDone
    PROVE  FreshOK'
<1>0. PICK a, b : a = Head(q) /\ b = [a EXCEPT !.k = "release"]
    OBVIOUS
<1>1. /\ At("done2") /\ q' = Tail(q) /\ working' = working \cup {b}
      /\ SetPhase(a.n, a.out) /\ alive' = alive /\ runs' = runs
    BY <1>0 DEF PhaseDone
<1>2. /\ a \in Act /\ a.k = "done2" /\ a \in SeqRange(q) /\ a.n \in Nodes
      /\ SeqRange(q') \subseteq SeqRange(q)
    <2>1. a \in Act /\ a.k = "done2" /\ a \in SeqRange(q) /\ SeqRange(q') \subseteq SeqRange(q)
        BY <1>0, <1>1, HeadFacts
    <2> QED
        BY <2>1, OfNode DEF TaskKinds
<1>3. Traced(b)'
    <2>1. b.k = "release"
        BY <1>0, <1>2 DEF Act, ActRec
    <2> QED
        BY <2>1, PlainTraced DEF Plain, Early
<1>4. \A c \in SeqRange(q') \cup working' : Traced(c)'
    <2>1. \A c : Traced(c) => Traced(c)'
        BY <1>1 DEF Traced, LastRun
    <2> QED
        BY <1>1, <1>2, <1>3, <2>1 DEF FreshOK
<1>5. EndsOK'
    <2>1. CASE ~alive
        <3>1. phase' = phase
            BY <1>1, <1>2, <2>1, PhaseSet
        <3> QED
            BY <1>1, <3>1 DEF FreshOK, EndsOK, Ended, LastRun
    <2>2. CASE alive
        <3>1. phase'[a.n] = a.out /\ \A m \in Nodes : m # a.n => phase'[m] = phase[m]
            BY <1>1, <1>2, <2>2, PhaseSet
        <3>2. a.v # 0 /\ runs[a.n] # <<>> /\ LastRun(runs, a.n).ver = a.v /\ LastRun(runs, a.n).st = a.out
            BY <1>2, <2>2 DEF FreshOK, Traced, Early
        <3>3. a.out \in {"completed", "waiting_approval"} => Ended(runs, a.n, {a.out})
            BY <3>2 DEF Ended
        <3> QED
            BY <1>1, <3>1, <3>2 DEF FreshOK, EndsOK, Ended, LastRun
    <2> QED
        BY <2>1, <2>2
<1> QED
    BY <1>4, <1>5 DEF FreshOK

LEMMA FreshApproveDone ==
    ASSUME Inv, RunsInv, DoneOK, FreshOK, ApproveDone
    PROVE  FreshOK'
<1>0. PICK a, b : a = Head(q) /\ b = Blank
    OBVIOUS
<1>1. /\ At("ap2") /\ q' = Append(Tail(q), b) /\ working' = working
      /\ SetPhase(a.n, "completed") /\ alive' = alive /\ runs' = runs
    BY <1>0 DEF ApproveDone, Next1
<1>2. /\ a \in Act /\ a.k = "ap2" /\ a \in SeqRange(q) /\ a.n \in Nodes
      /\ SeqRange(q') \subseteq SeqRange(q) \cup {b}
    <2>1. a \in Act /\ a.k = "ap2" /\ a \in SeqRange(q) /\ SeqRange(q') \subseteq SeqRange(q) \cup {b}
        BY <1>0, <1>1, HeadFacts
    <2> QED
        BY <2>1, OfNode DEF TaskKinds
<1>3. Traced(b)'
    BY <1>0, BlankPlain, PlainTraced DEF Plain, Early
<1>4. \A c \in SeqRange(q') \cup working' : Traced(c)'
    <2>1. \A c : Traced(c) => Traced(c)'
        BY <1>1 DEF Traced, LastRun
    <2> QED
        BY <1>1, <1>2, <1>3, <2>1 DEF FreshOK
<1>5. EndsOK'
    <2>1. CASE ~alive
        <3>1. phase' = phase
            BY <1>1, <1>2, <2>1, PhaseSet
        <3> QED
            BY <1>1, <3>1 DEF FreshOK, EndsOK, Ended, LastRun
    <2>2. CASE alive
        <3>1. phase'[a.n] = "completed" /\ \A m \in Nodes : m # a.n => phase'[m] = phase[m]
            BY <1>1, <1>2, <2>2, PhaseSet
        <3>2. LastRun(runs, a.n).st = "completed"
            BY <1>2, <2>2 DEF FreshOK, Traced
        <3>3. phase[a.n] \in {"waiting_approval", "completed"}
            BY <1>2 DEF DoneOK, Sound
        <3>4. Ended(runs, a.n, {"completed"})
            BY <1>2, <3>2, <3>3 DEF FreshOK, EndsOK, Ended
        <3> QED
            BY <1>1, <3>1, <3>4 DEF FreshOK, EndsOK, Ended, LastRun
    <2> QED
        BY <2>1, <2>2
<1> QED
    BY <1>4, <1>5 DEF FreshOK

\* What is new in the queue or in the work is plain.
LEMMA FreshPlain ==
    ASSUME FreshOK, runs' = runs, alive' => alive,
           \A n \in Nodes : phase'[n] \in {"waiting_approval", "completed"} => phase'[n] = phase[n],
           \A a \in SeqRange(q') \cup working' : a \in SeqRange(q) \cup working \/ Plain(a)
    PROVE  FreshOK'
BY FreshStays, PlainTraced

\* A phase that is set to something that is no end of a run.
LEMMA NoEndSet ==
    ASSUME Inv, NEW n \in Nodes, NEW s \in {"pending", "running", "failed"}, SetPhase(n, s)
    PROVE  \A m \in Nodes : phase'[m] \in {"waiting_approval", "completed"} => phase'[m] = phase[m]
BY PhaseSet

LEMMA FreshHeadSets ==
    ASSUME Inv, RunsInv, DoneOK, FreshOK,
           PhaseRunning \/ BudgetPending \/ DownstreamFailed \/ BootPending
    PROVE  FreshOK'
<1>0. runs' = runs /\ alive' = alive /\ working' = working
    BY DEF PhaseRunning, BudgetPending, DownstreamFailed, BootPending
<1>1. PICK a : a = Head(q)
    OBVIOUS
<1>2. CASE PhaseRunning
    <2>1. PICK b : b = [a EXCEPT !.k = "run2"]
        OBVIOUS
    <2>2. At("run1") /\ "run1" \in RunKinds /\ SetPhase(a.n, "running") /\ q' = Append(Tail(q), b)
        BY <1>1, <1>2, <2>1 DEF PhaseRunning, Next1, RunKinds
    <2>3. /\ a \in Act /\ a.k = "run1" /\ a \in SeqRange(q) /\ a.n \in Nodes
          /\ SeqRange(q') \subseteq SeqRange(q) \cup {b}
        BY <1>1, <2>2, HeadFacts
    <2>4. b.k = "run2" /\ b.v = a.v
        BY <2>1, <2>3 DEF Act, ActRec
    <2>5. Traced(b)
        BY <2>3, <2>4 DEF FreshOK, Traced, Early
    <2>6. \A m \in Nodes : phase'[m] \in {"waiting_approval", "completed"} => phase'[m] = phase[m]
        BY <2>2, <2>3, NoEndSet
    <2> QED
        BY <1>0, <2>3, <2>5, <2>6, FreshStays
<1>3. CASE BudgetPending
    <2>1. PICK b : b = [a EXCEPT !.k = "stop"]
        OBVIOUS
    <2>2. /\ At("pend") /\ "pend" \in RunKinds /\ SetPhase(a.n, "pending")
          /\ q' = Tail(q) \/ q' = Append(Tail(q), b)
        BY <1>1, <1>3, <2>1 DEF BudgetPending, Next1, RunKinds
    <2>3. a \in Act /\ a.n \in Nodes /\ SeqRange(q') \subseteq SeqRange(q) \cup {b}
        BY <1>1, <2>2, HeadFacts
    <2>4. Plain(b)
        BY <2>1, <2>3 DEF Act, ActRec, Plain, Early
    <2>6. \A m \in Nodes : phase'[m] \in {"waiting_approval", "completed"} => phase'[m] = phase[m]
        BY <2>2, <2>3, NoEndSet
    <2> QED
        BY <1>0, <2>3, <2>4, <2>6, FreshPlain
<1>4. CASE DownstreamFailed
    <2>1. PICK S : S = StillPending(a.left \ {a.i})
        OBVIOUS
    <2>2. PICK b : b = [a EXCEPT !.left = S, !.i = Least(S)]
        OBVIOUS
    <2>3. /\ At("mdf") /\ "mdf" \in RunKinds /\ SetPhase(a.i, "failed")
          /\ q' = Tail(q) \/ q' = Append(Tail(q), b)
        BY <1>1, <1>4, <2>1, <2>2 DEF DownstreamFailed, Next1, RunKinds
    <2>4. /\ a \in Act /\ a.k = "mdf" /\ a \in SeqRange(q) /\ a.n \in Nodes
          /\ SeqRange(q') \subseteq SeqRange(q) \cup {b}
        BY <1>1, <2>3, HeadFacts
    <2>5. a.i \in Nodes
        BY <2>4 DEF DoneOK, Sound, Downstream
    <2>6. Plain(b)
        BY <2>2, <2>4 DEF Act, ActRec, Plain, Early
    <2>7. \A m \in Nodes : phase'[m] \in {"waiting_approval", "completed"} => phase'[m] = phase[m]
        BY <2>3, <2>5, NoEndSet
    <2> QED
        BY <1>0, <2>4, <2>6, <2>7, FreshPlain
<1>5. CASE BootPending
    <2>1. PICK b : b = BootNext(phase, a.n)
        OBVIOUS
    <2>2. At("b2") /\ SetPhase(a.n, "pending") /\ q' = Append(Tail(q), b)
        BY <1>1, <1>5, <2>1 DEF BootPending, Next1
    <2>3. a \in Act /\ a.k = "b2" /\ SeqRange(q') \subseteq SeqRange(q) \cup {b}
        BY <1>1, <2>2, HeadFacts
    <2>4. a.n \in Nodes
        BY <2>3, OfNode DEF TaskKinds
    <2>5. Plain(b)
        BY <2>1, BootNextIs DEF Plain, BootActs, Early
    <2>6. \A m \in Nodes : phase'[m] \in {"waiting_approval", "completed"} => phase'[m] = phase[m]
        BY <2>2, <2>4, NoEndSet
    <2> QED
        BY <1>0, <2>3, <2>5, <2>6, FreshPlain
<1> QED
    BY <1>2, <1>3, <1>4, <1>5

\* The run reads the last runs of the nodes upstream, all completed.
LEMMA FreshGather ==
    ASSUME Inv, RunsInv, DoneOK, FreshOK, NEW w \in working, Gather(w)
    PROVE  FreshOK'
<1>t. PICK t \in Workspace :
        working' = (working \ {w}) \cup {[w EXCEPT !.k = "llm", !.tree = t, !.ins = [m \in Nodes |-> IF m \in Upstream(w.n) THEN LatestDone(m) ELSE 0]]}
    BY DEF Gather
<1>0. PICK b : b = [w EXCEPT !.k = "llm", !.tree = t, !.ins = [m \in Nodes |-> IF m \in Upstream(w.n) THEN LatestDone(m) ELSE 0]]
    OBVIOUS
<1>1. /\ w.k = "setup" /\ q' = q /\ working' = (working \ {w}) \cup {b}
      /\ runs' = runs /\ phase' = phase /\ alive' = alive
    BY <1>t, <1>0 DEF Gather, log
<1>2. w \in Act /\ w.n \in Nodes /\ Sound(w) /\ Traced(w)
    BY WorkFacts DEF DoneOK, FreshOK
<1>3. /\ b.k = "llm" /\ b.n = w.n /\ b.v = w.v /\ b.out = w.out
      /\ b.ins = [m \in Nodes |-> IF m \in Upstream(w.n) THEN LatestDone(m) ELSE 0]
    BY <1>0, <1>2 DEF Act, ActRec
<1>4. \A m \in Upstream(w.n) : b.ins[m] = LastRun(runs, m).ver
    <2> SUFFICES ASSUME NEW m \in Upstream(w.n) PROVE b.ins[m] = LastRun(runs, m).ver
        OBVIOUS
    <2>1. m \in Nodes /\ phase[m] = "completed"
        BY <1>1, <1>2 DEF Sound, Early, UpDone, Upstream
    <2>2. Ended(runs, m, {"completed"})
        BY <2>1 DEF FreshOK, EndsOK
    <2> QED
        BY <1>3, <2>1, <2>2, LatestIsLast
<1>5. Traced(b)
    BY <1>1, <1>2, <1>3, <1>4 DEF Traced, Early
<1> QED
    BY <1>1, <1>5, FreshStays

LEMMA FreshFinish ==
    ASSUME Inv, RunsInv, DoneOK, FreshOK, NEW w \in working, Finish(w)
    PROVE  FreshOK'
<1>1. /\ w \in Act /\ working' = working \ {w} /\ w.k \in {"setup", "llm"}
      /\ runs' = runs /\ phase' = phase /\ alive' = alive /\ Traced(w)
    BY WorkFacts DEF Finish, log, FreshOK
<1>2. ASSUME NEW b, q' = Append(q, b), b.k = "done1", b.n = w.n, b.v = w.v, b.ins = w.ins,
             b.out = "failed" \/ w.k = "llm"
      PROVE  FreshOK'
    <2>1. Traced(b)
        BY <1>1, <1>2 DEF Traced, Early
    <2>2. SeqRange(q') \subseteq SeqRange(q) \cup {b}
        BY <1>2, WorkFacts
    <2> QED
        BY <1>1, <2>1, <2>2, FreshStays
<1>3. CASE w.k = "llm" /\ \E vd : q' = Append(q, [w EXCEPT !.k = "done1", !.out = Outcome(w.n), !.verdict = vd])
    <2>1. PICK vd : q' = Append(q, [w EXCEPT !.k = "done1", !.out = Outcome(w.n), !.verdict = vd])
        BY <1>3
    <2> DEFINE b == [w EXCEPT !.k = "done1", !.out = Outcome(w.n), !.verdict = vd]
    <2>2. b.k = "done1" /\ b.n = w.n /\ b.v = w.v /\ b.ins = w.ins
        BY <1>1 DEF Act, ActRec
    <2>3. q' = Append(q, b)
        BY <2>1
    <2> HIDE DEF b
    <2> QED
        BY <1>2, <1>3, <2>2, <2>3
<1>4. CASE q' = Append(q, [w EXCEPT !.k = "done1", !.out = "failed"])
    <2> DEFINE b == [w EXCEPT !.k = "done1", !.out = "failed"]
    <2>1. b.k = "done1" /\ b.n = w.n /\ b.v = w.v /\ b.ins = w.ins /\ b.out = "failed"
        BY <1>1 DEF Act, ActRec
    <2>2. q' = Append(q, b)
        BY <1>4
    <2> HIDE DEF b
    <2> QED
        BY <1>2, <2>1, <2>2
<1> QED
    BY <1>3, <1>4 DEF Finish

LEMMA FreshRelease ==
    ASSUME Inv, RunsInv, NoGates, FreshOK, NEW w \in working, Release(w)
    PROVE  FreshOK'
<1>1. w \in Act /\ w.n \in Nodes /\ GateTarget[w.n] = 0 /\ w.k = "release"
    BY WorkFacts DEF NoGates, Release
<1>2. runs' = runs /\ phase' = phase /\ alive' = alive /\ working' = working \ {w}
    BY DEF Release, log
<1> DEFINE S == StillPending(Downstream(w.n))
           x == [w EXCEPT !.k = "pend", !.tree = "none"]
           y == [w EXCEPT !.k = "mdf", !.tree = "none", !.left = S, !.i = Least(S)]
<1>3. q' = q \/ q' = Append(q, x) \/ q' = Append(q, y)
    BY <1>1 DEF Release
<1>4. Plain(x) /\ Plain(y)
    BY <1>1 DEF Act, ActRec, Plain, Early
<1> HIDE DEF x, y
<1>5. SeqRange(Append(q, x)) \subseteq SeqRange(q) \cup {x} /\ SeqRange(Append(q, y)) \subseteq SeqRange(q) \cup {y}
    BY WorkFacts
<1>6. \A a \in SeqRange(q') \cup working' : a \in SeqRange(q) \cup working \/ Plain(a)
    BY <1>2, <1>3, <1>4, <1>5
<1> QED
    BY <1>2, <1>6, FreshPlain

\* The steps of a loop.
LEMMA FreshLoop ==
    ASSUME Inv, RunsInv, FreshOK, NEW g \in 1..Len(rt),
           Top(g) \/ Integrate(g) \/ CheckBudget(g) \/ Reported(g) \/ Ready(g) \/ Settle(g)
    PROVE  FreshOK'
<1>1. phase' = phase /\ alive' = alive /\ runs' = runs /\ working' = working
    BY DEF Top, Integrate, CheckBudget, Reported, Ready, Settle, log
<1> DEFINE x == [Blank EXCEPT !.k = "susp", !.g = g]
           y == [Blank EXCEPT !.k = "fin", !.g = g, !.out = FinalStatus]
<1>2. q' = q \/ q' = Append(q, x) \/ q' = Append(q, y)
    BY DEF Top, Integrate, CheckBudget, Reported, Ready, Settle
<1>3. Plain(x) /\ Plain(y)
    BY DEF Blank, Plain, Early
<1> HIDE DEF x, y
<1>4. SeqRange(Append(q, x)) \subseteq SeqRange(q) \cup {x} /\ SeqRange(Append(q, y)) \subseteq SeqRange(q) \cup {y}
    BY Types, RangeAppend
<1>5. \A a \in SeqRange(q') \cup working' : a \in SeqRange(q) \cup working \/ Plain(a)
    BY <1>1, <1>2, <1>3, <1>4
<1> QED
    BY <1>1, <1>5, FreshPlain

LEMMA FreshDispatch ==
    ASSUME Inv, RunsInv, FreshOK, NEW g \in 1..Len(rt), Dispatch(g)
    PROVE  FreshOK'
<1>0. PICK n \in Nodes, v \in Nat : \E b : Starts(g, n, v, b)
    BY DispatchIs
<1>1. PICK b : Starts(g, n, v, b)
    BY <1>0
<1>2. phase' = phase /\ alive' = alive /\ runs' = runs /\ working' = working
    BY DEF Dispatch, log
<1>3. q' = Append(q, b) /\ b.k = "run1" /\ b.n = n /\ b.v = v /\ IsNextVersion(n, v)
    BY <1>1 DEF Starts
<1>4. v # 0
    <2>1. \A i \in Indices(runs, n) : runs[n][i].ver \in Nat
        BY RunsOf DEF Indices, RunRec
    <2> QED
        BY <1>3, <2>1 DEF IsNextVersion
<1>5. Traced(b)
    BY <1>3, <1>4 DEF Traced, Early
<1>6. SeqRange(q') \subseteq SeqRange(q) \cup {b}
    BY <1>3, Types, RangeAppend
<1> QED
    BY <1>2, <1>5, <1>6, FreshStays

\* The steps of the log about the task.
LEMMA FreshTask ==
    ASSUME Inv, RunsInv, FreshOK,
           \/ Kick \/ Suspend \/ Finalize \/ CancelFinalize \/ BudgetReported \/ Tombstone
           \/ BootPaused \/ BootScan
    PROVE  FreshOK'
<1>1. phase' = phase /\ (alive' => alive) /\ runs' = runs /\ working' = working
    BY DEF Kick, Suspend, Finalize, CancelFinalize, BudgetReported, Tombstone, BootPaused, BootScan,
           log, Inv, LogOK
<1>2. PICK b : b = BootNext(phase, 0)
    OBVIOUS
<1>3. Plain(b)
    BY <1>2, BootNextIs DEF Plain, BootActs, Early
<1>4. SeqRange(q') \subseteq SeqRange(q) \cup {b}
    <2>1. CASE BootScan
        BY <1>2, <2>1, Types, RangeAppend DEF BootScan
    <2>2. CASE ~BootScan
        <3>1. PICK k : At(k) /\ q' = Tail(q)
            BY <2>2 DEF Kick, Suspend, Finalize, CancelFinalize, BudgetReported, Tombstone, BootPaused
        <3> QED
            BY <3>1, HeadFacts
    <2> QED
        BY <2>1, <2>2
<1> QED
    BY <1>1, <1>3, <1>4, FreshPlain

LEMMA FreshAsked ==
    ASSUME Inv, RunsInv, Forward, FreshOK, Requests
    PROVE  FreshOK'
<1>1. phase' = phase /\ alive' = alive /\ runs' = runs /\ working' = working
    BY NoRerun DEF Requests, Pause, Cancel, Delete, Resume, Approve, log
<1>2. CASE Pause
    BY <1>1, <1>2, FreshPlain DEF Pause
<1>3. CASE Cancel \/ Delete
    <2> DEFINE f == [Blank EXCEPT !.k = "cfin", !.out = "failed"]
               d == [Blank EXCEPT !.k = "del"]
    <2>1. f \in Act /\ d \in Act /\ f.k = "cfin" /\ d.k = "del"
        BY CancelAct, DeleteAct DEF Blank
    <2>2. q' \in {q, Append(q, d), q \o CancelRest, q \o <<d>> \o CancelRest}
        BY <1>3 DEF Cancel, Delete
    <2>3. CancelRest \in {<<f>>, <<>>}
        BY DEF CancelRest
    <2> HIDE DEF f, d
    <2>4. q \in Seq(Act) /\ Append(q, d) \in Seq(Act) /\ q \o <<d>> = Append(q, d)
        BY <2>1, Types, AppendProperties, AppendIsConcat
    <2>5. /\ q \o <<f>> = Append(q, f) /\ q \o <<>> = q
          /\ Append(q, d) \o <<f>> = Append(Append(q, d), f)
          /\ Append(q, d) \o <<>> = Append(q, d)
        BY <2>1, <2>4, AppendIsConcat, ConcatEmptySeq
    <2>6. /\ SeqRange(Append(q, d)) = SeqRange(q) \cup {d}
          /\ SeqRange(Append(q, f)) = SeqRange(q) \cup {f}
          /\ SeqRange(Append(Append(q, d), f)) = SeqRange(q) \cup {d} \cup {f}
        BY <2>4, RangeAppend
    <2>7. SeqRange(q') \subseteq SeqRange(q) \cup {d, f}
        BY <2>2, <2>3, <2>4, <2>5, <2>6
    <2>8. Plain(f) /\ Plain(d)
        BY <2>1 DEF Plain, Early
    <2> QED
        BY <1>1, <2>7, <2>8, FreshPlain
<1>4. CASE Resume
    <2>1. PICK b : b = Blank
        OBVIOUS
    <2>2. q' = Append(q, b) /\ Plain(b)
        BY <1>4, <2>1, BlankPlain DEF Resume, Plain, Early
    <2>3. SeqRange(q') = SeqRange(q) \cup {b}
        BY <2>2, Types, RangeAppend
    <2> QED
        BY <1>1, <2>2, <2>3, FreshPlain
<1>5. ASSUME NEW n \in Nodes, Approve(n)
      PROVE  FreshOK'
    <2>1. PICK b : b = [Blank EXCEPT !.k = "ap1", !.n = n,
                         !.v = IF runs[n] = <<>> THEN 1 ELSE runs[n][Len(runs[n])].ver]
        OBVIOUS
    <2>2. q' = Append(q, b) /\ phase[n] = "waiting_approval"
        BY <1>5, <2>1 DEF Approve
    <2>3. runs[n] # <<>>
        BY <2>2 DEF FreshOK, EndsOK, Ended
    <2>4. b.k = "ap1" /\ b.n = n /\ b.v = LastRun(runs, n).ver
        BY <2>1, <2>3 DEF Blank, LastRun
    <2>5. Traced(b)
        BY <2>3, <2>4 DEF Traced, Early
    <2>6. SeqRange(q') = SeqRange(q) \cup {b}
        BY <2>2, Types, RangeAppend
    <2> QED
        BY <1>1, <2>5, <2>6, FreshStays
<1> QED
    BY <1>2, <1>3, <1>4, <1>5, NoRerun DEF Requests

LEMMA FreshCrash ==
    ASSUME FreshOK, Crash
    PROVE  FreshOK'
<1>1. phase' = phase /\ alive' = alive /\ runs' = runs /\ working' = {} /\ Len(q') = 0
    BY DEF Crash, log
<1>2. SeqRange(q') = {}
    BY <1>1 DEF SeqRange
<1> QED
    BY <1>1, <1>2, FreshStays

LEMMA FreshNext ==
    ASSUME Inv, RunsInv, VersionsOK, Forward, NoGates, DoneOK, FreshOK, [Next]_vars
    PROVE  FreshOK'
<1>0. CASE UNCHANGED vars \/ \E w \in working : Overspend(w)
    <2>1. phase' = phase /\ alive' = alive /\ runs' = runs /\ working' = working /\ q' = q
        BY <1>0 DEF vars, log, Overspend
    <2> QED
        BY <2>1, FreshStays
<1>1. CASE Sync \/ LoopIo
    BY <1>1, FreshLoop, FreshDispatch, FreshRelease DEF Sync, LoopIo
<1>2. CASE Turn
    BY <1>2, FreshGather, FreshFinish, FreshRelease DEF Turn
<1>3. CASE Appended
    <2>1. CASE \/ Kick \/ Suspend \/ Finalize \/ CancelFinalize \/ BudgetReported \/ Tombstone \/ BootPaused
        BY <2>1, FreshTask
    <2>2. CASE PhaseRunning \/ BudgetPending \/ DownstreamFailed \/ BootPending
        BY <2>2, FreshHeadSets
    <2>3. CASE RunStarted \/ RunDone \/ PhaseDone
        BY <2>3, FreshRunStarted, FreshRunDone, FreshPhaseDone
    <2>4. CASE ApproveRun \/ ApproveDone \/ BootRunFailed
        BY <2>4, FreshApproveRun, FreshApproveDone, FreshBootRunFailed
    <2> QED
        BY <1>3, <2>1, <2>2, <2>3, <2>4, NoRerun, NoEscalation DEF Appended
<1>4. CASE BootScan
    BY <1>4, FreshTask
<1>5. CASE Requests
    BY <1>5, FreshAsked
<1>6. CASE Crash
    BY <1>6, FreshCrash
<1> QED
    BY <1>0, <1>1, <1>2, <1>3, <1>4, <1>5, <1>6 DEF Next, EngineStep, Idle

LEMMA FreshInit == Init => FreshOK
<1> SUFFICES ASSUME Init PROVE FreshOK
    OBVIOUS
<1>1. PICK b : b = Blank
    OBVIOUS
<1>2. /\ \A n \in Nodes : phase[n] = "pending"
      /\ q = <<b>> /\ working = {}
    BY <1>1 DEF Init
<1>3. Plain(b)
    BY <1>1, BlankPlain DEF Plain, Early
<1>4. SeqRange(q) = {b}
    BY <1>2 DEF SeqRange
<1> QED
    BY <1>2, <1>3, <1>4, PlainTraced DEF FreshOK, EndsOK

\* What an activation has read is what its upstream stands for.
LEMMA FreshMeans ==
    ASSUME Inv, DoneOK, FreshOK, NEW a \in SeqRange(q) \cup working,
           a.k = "llm" \/ (a.k \in {"done1", "done2"} /\ a.out # "failed")
    PROVE  \A m \in Upstream(a.n) : a.ins[m] # 0 /\ a.ins[m] = LatestDone(m)
<1> SUFFICES ASSUME NEW m \in Upstream(a.n)
             PROVE  a.ins[m] # 0 /\ a.ins[m] = LatestDone(m)
    OBVIOUS
<1>1. m \in Nodes /\ phase[m] = "completed"
    BY DEF DoneOK, Sound, Early, UpDone, Upstream
<1>2. Ended(runs, m, {"completed"})
    BY <1>1 DEF FreshOK, EndsOK
<1>3. a.ins[m] = LastRun(runs, m).ver
    BY DEF FreshOK, Traced
<1> QED
    BY <1>1, <1>2, <1>3, LatestIsLast DEF Ended

LEMMA VersionsAlways ==
    ASSUME Forward
    PROVE  Spec /\ [][Orderly]_vars => []VersionsOK
<1>1. Inv /\ RunsInv /\ VersionsOK /\ [Next]_vars => VersionsOK'
    BY VersionsNext DEF Forward, NoReruns
<1> QED
    BY <1>1, VersionsInit, ForwardRuns, InvAlways, PTL DEF Spec

\* A run that will count works from the latest completed results of its
\* upstream (gatherUpstream), and these stay the latest while it works.
THEOREM InputsFresh ==
    ASSUME Forward, NoGates
    PROVE  Spec /\ [][Orderly]_vars /\ [][AfterBoot]_vars => []FreshInputs
<1>1. Inv /\ RunsInv /\ VersionsOK /\ DoneOK /\ FreshOK /\ [Next]_vars => FreshOK'
    BY FreshNext
<1>2. Inv /\ DoneOK /\ FreshOK => FreshInputs
    BY FreshMeans DEF FreshInputs, SeqRange
<1> QED
    BY <1>1, <1>2, FreshInit, VersionsAlways, DoneAlways, ForwardRuns, InvAlways, PTL DEF Spec

-----------------------------------------------------------------------------
\* Where the task comes to rest.

\* A finalize that ends the task is not followed by the "running" of a request
\* that crossed it.
Kicked == \E a \in SeqRange(q) : a.k = "kick"
Uncrossed == Finalize => Head(q).out = "waiting_approval" \/ ~Kicked

\* The sidecar does not crash between the status of a settled task and what
\* the engine is still about to do with it.
CleanCrash == Crash => tstatus \notin Settled \/ Quiescent

Looping == \E g \in 1..Len(rt) : rt[g].pc # "idle"
AllDone == \A n \in Nodes : phase[n] = "completed"
Waits   == SomePhase(phase, "waiting_approval")

\* The loop of runtime r will look for work once more before it settles.
Going(r) == r.pc \notin {"idle", "suspend", "finalize"} \/ r.rescan
Goes     == cur # 0 /\ Going(rt[cur])

Failing == cur # 0 /\ rt[cur].failed
Ending  == \E a \in SeqRange(q) : a.k \in {"fin", "cfin"} /\ a.out # "waiting_approval"

\* A kick is queued behind entry i.
KickAfter(Q, i) == \E j \in 1..Len(Q) : i < j /\ Q[j].k = "kick"

\* No kick comes behind the finalize of a cancel; behind one that says that the
\* task waits a phase does, or the approval that ended this has queued its kick.
QueueOK(Q, ph) ==
    \A i \in 1..Len(Q) :
        /\ Q[i].k = "cfin" => ~KickAfter(Q, i)
        /\ Q[i].k = "fin" /\ Q[i].out = "waiting_approval" =>
             SomePhase(ph, "waiting_approval") \/ KickAfter(Q, i)

\* A task that is not settled has something to do, and a runtime that failed
\* something that will settle it; what settled it is true of its phases.
TaskOK ==
    /\ tstatus \notin Settled => Waking \/ (cur # 0 /\ (Kicked \/ Flying # {} \/ Looping))
    /\ Kicked => cur # 0
    /\ Failing => Ending \/ Flying # {} \/ Goes
    /\ QueueOK(q, phase)
    /\ tstatus = "completed" => AllDone
    /\ \A a \in SeqRange(q) :
         /\ a.k \in {"fin", "cfin"} /\ a.out = "completed" => AllDone
         /\ a.k = "cfin" => a.out = "failed"
    /\ tstatus = "waiting_approval" => Waits \/ Kicked

\* Only what is in flight has a running phase, and not once its turn is over;
\* the boot pass, whichever way it began, leaves no phase running.
RunningOK == \A n \in Nodes : phase[n] = "running" => Waking \/ n \in Flying

Late == {"release", "stop"}
LateOK == \A a \in SeqRange(q) \cup working : a.k \in Late => phase[a.n] # "running"

BootOK ==
    /\ booting /\ tstatus \in Settled => ~SomePhase(phase, "running")
    /\ \A a \in SeqRange(q) :
         /\ a.k \in {"b1", "b2"} => \A m \in Nodes : m < a.n => phase[m] # "running"
         /\ a.k = "b3" => ~SomePhase(phase, "running")

\* A loop that dispatches has taken up all that could be started, and has found
\* room for it if nothing is in flight.
LookOK ==
    \A g \in 1..Len(rt) : rt[g].pc = "dispatch" =>
        /\ ~Halted(rt[g]) => Runnable(phase) \subseteq InFlightOf(rt[g]) \cup rt[g].todo
        /\ InFlightOf(rt[g]) = {} => rt[g].room > 0

RestInv == alive => TaskOK /\ RunningOK /\ LateOK /\ BootOK /\ LookOK

\* The queue without its head.
LEMMA QueueTail ==
    ASSUME NEW Q \in Seq(Act), Q # <<>>, NEW ph, QueueOK(Q, ph)
    PROVE  /\ QueueOK(Tail(Q), ph)
           /\ Head(Q).k = "cfin" => \A a \in SeqRange(Tail(Q)) : a.k # "kick"
           /\ Head(Q).k = "fin" /\ Head(Q).out = "waiting_approval" =>
                SomePhase(ph, "waiting_approval") \/ \E a \in SeqRange(Tail(Q)) : a.k = "kick"
<1> DEFINE R == Tail(Q)
<1>1. /\ Head(Q) = Q[1] /\ 1 \in 1..Len(Q) /\ Len(Q) \in Nat /\ Len(R) = Len(Q) - 1
      /\ \A i \in 1..Len(R) : R[i] = Q[i + 1] /\ i + 1 \in 1..Len(Q)
    BY TailOf
<1> HIDE DEF R
<1>2. ASSUME NEW i \in 0..Len(R)
      PROVE  KickAfter(Q, i + 1) <=> \E j \in 1..Len(R) : i < j /\ R[j].k = "kick"
    <2>1. ASSUME NEW j \in 1..Len(R), i < j, R[j].k = "kick"
          PROVE  KickAfter(Q, i + 1)
        <3>1. j + 1 \in 1..Len(Q) /\ Q[j + 1].k = "kick" /\ i + 1 < j + 1
            BY <1>1, <2>1
        <3> QED
            BY <3>1 DEF KickAfter
    <2>2. ASSUME NEW j \in 1..Len(Q), i + 1 < j, Q[j].k = "kick"
          PROVE  \E l \in 1..Len(R) : i < l /\ R[l].k = "kick"
        <3>1. j - 1 \in 1..Len(R) /\ i < j - 1 /\ (j - 1) + 1 = j
            BY <1>1, <2>2
        <3>2. R[j - 1].k = "kick"
            BY <1>1, <2>2, <3>1
        <3> QED
            BY <3>1, <3>2
    <2> QED
        BY <2>1, <2>2 DEF KickAfter
<1>3. \A i \in 1..Len(R) : KickAfter(Q, i + 1) <=> KickAfter(R, i)
    <2>1. 1..Len(R) \subseteq 0..Len(R)
        OBVIOUS
    <2> QED
        BY <1>2, <2>1 DEF KickAfter
<1>4. QueueOK(R, ph)
    BY <1>1, <1>3 DEF QueueOK
<1>5. KickAfter(Q, 1) <=> \E j \in 1..Len(R) : R[j].k = "kick"
    <2>1. 0 \in 0..Len(R) /\ 0 + 1 = 1 /\ \A j \in 1..Len(R) : 0 < j
        BY <1>1
    <2>2. KickAfter(Q, 0 + 1) <=> \E j \in 1..Len(R) : 0 < j /\ R[j].k = "kick"
        BY <1>2, <2>1
    <2> QED
        BY <2>1, <2>2
<1>6. KickAfter(Q, 1) <=> \E a \in SeqRange(R) : a.k = "kick"
    BY <1>5 DEF SeqRange
<1> QED
    BY <1>1, <1>4, <1>6 DEF QueueOK, R

\* Something else than a kick is queued.
LEMMA QueueAppend ==
    ASSUME NEW Q \in Seq(Act), NEW ph, QueueOK(Q, ph), NEW b, b.k # "kick",
           b.k = "fin" /\ b.out = "waiting_approval" => SomePhase(ph, "waiting_approval")
    PROVE  QueueOK(Append(Q, b), ph)
<1> DEFINE R == Append(Q, b)
           L == Len(Q)
<1>1. /\ L \in Nat /\ Len(R) = L + 1 /\ R[L + 1] = b
      /\ \A i \in 1..L : R[i] = Q[i] /\ i \in 1..Len(R)
      /\ \A i \in 1..Len(R) : i \in 1..L \/ i = L + 1
    BY Appending
<1> HIDE DEF R, L
<1>2. \A i \in 1..L : KickAfter(Q, i) <=> KickAfter(R, i)
    BY <1>1 DEF KickAfter, L
<1>3. ~KickAfter(R, L + 1)
    BY <1>1 DEF KickAfter
<1> QED
    BY <1>1, <1>2, <1>3 DEF QueueOK, R, L

\* A kick is queued, and no cancel is about to finalize.
LEMMA QueueKick ==
    ASSUME NEW Q \in Seq(Act), NEW ph, \A a \in SeqRange(Q) : a.k # "cfin", NEW b, b.k = "kick"
    PROVE  QueueOK(Append(Q, b), ph)
<1> DEFINE R == Append(Q, b)
           L == Len(Q)
<1>1. /\ L \in Nat /\ Len(R) = L + 1 /\ R[L + 1] = b
      /\ \A i \in 1..L : R[i] = Q[i]
      /\ \A i \in 1..Len(R) : i \in 1..L \/ i = L + 1
      /\ L + 1 \in 1..Len(R) /\ \A i \in 1..L : i < L + 1
    BY Appending
<1> HIDE DEF R
<1>2. \A i \in 1..L : KickAfter(R, i) /\ R[i].k # "cfin"
    BY <1>1 DEF KickAfter, SeqRange
<1> HIDE DEF L
<1> QED
    BY <1>1, <1>2 DEF QueueOK, R

\* The activations that the statuses depend on.
Marks == {"kick", "fin", "cfin", "b1", "b2", "b3"}
SameMarks == \A a : a.k \in Marks => (a \in SeqRange(q) <=> a \in SeqRange(q'))

\* A step that queues b, or does what is at the head and queues b.
LEMMA MarksStay ==
    ASSUME Inv, QueueOK(q, phase), NEW b, b.k \notin Marks, Waits => Waits',
           \/ q' = q \/ q' = Append(q, b)
           \/ /\ q # <<>> /\ Head(q).k \notin Marks
              /\ q' = Tail(q) \/ q' = Append(Tail(q), b)
    PROVE  SameMarks /\ QueueOK(q', phase')
<1>1. q \in Seq(Act)
    BY Types
<1>2. b.k # "kick" /\ b.k # "fin"
    BY DEF Marks
<1>3. /\ QueueOK(q, phase')
      /\ q # <<>> => QueueOK(Tail(q), phase')
    <2>1. QueueOK(q, phase')
        BY DEF QueueOK, Waits
    <2> QED
        BY <1>1, <2>1, QueueTail
<1>4. CASE q' = q
    BY <1>3, <1>4 DEF SameMarks
<1>5. CASE q' = Append(q, b)
    BY <1>1, <1>2, <1>3, <1>5, QueueAppend, RangeAppend DEF SameMarks
<1>6. CASE q # <<>> /\ Head(q).k \notin Marks /\ q' = Tail(q)
    BY <1>1, <1>3, <1>6, TailOf DEF SameMarks
<1>7. CASE q # <<>> /\ Head(q).k \notin Marks /\ q' = Append(Tail(q), b)
    <2>1. Tail(q) \in Seq(Act) /\ SeqRange(q) = SeqRange(Tail(q)) \cup {Head(q)}
        BY <1>1, <1>7, TailOf
    <2>2. SeqRange(q') = SeqRange(Tail(q)) \cup {b}
        BY <1>7, <2>1, RangeAppend
    <2>3. QueueOK(q', phase')
        BY <1>2, <1>3, <1>7, <2>1, QueueAppend
    <2>4. Head(q).k \notin Marks
        BY <1>7
    <2> QED
        BY <2>1, <2>2, <2>3, <2>4 DEF SameMarks
<1> QED
    BY <1>4, <1>5, <1>6, <1>7

\* A loop that goes on is not idle.
LEMMA GoesLoops ==
    ASSUME Inv', Goes'
    PROVE  Looping'
<1>1. rt' \in Seq(Awake) /\ cur' \in 1..Len(rt') /\ Len(rt') \in Nat
    BY LenProperties DEF Inv, RtOK, Goes
<1>2. rt'[cur'] \in Awake
    BY <1>1, RuntimeOf
<1> QED
    BY <1>1, <1>2 DEF Goes, Going, Looping, Awake

\* A step that leaves the task's status alone, and after which a loop or a run
\* goes on, or which leaves the runtimes alone as well.
LEMMA TaskStays ==
    ASSUME Inv', TaskOK, SameMarks, QueueOK(q', phase'), tstatus' = tstatus, cur' = cur,
           booting' = booting, Waits => Waits', AllDone => AllDone',
           Goes' \/ Flying' # {} \/ rt' = rt \/ cur = 0
    PROVE  TaskOK'
<1>1. (Kicked' <=> Kicked) /\ (Ending' <=> Ending) /\ (Waking' <=> Waking)
    BY DEF SameMarks, Marks, Kicked, Ending, Waking, BootActs
<1>2. (\A a \in SeqRange(q) :
         /\ a.k \in {"fin", "cfin"} /\ a.out = "completed" => AllDone
         /\ a.k = "cfin" => a.out = "failed")'
    BY DEF TaskOK, SameMarks, Marks
<1>3. CASE Goes'
    BY <1>1, <1>2, <1>3, GoesLoops DEF TaskOK, Goes
<1>4. CASE Flying' # {}
    BY <1>1, <1>2, <1>4 DEF TaskOK, Flying
<1>5. CASE rt' = rt
    BY <1>1, <1>2, <1>5 DEF TaskOK, Flying, Goes, Failing, Looping, InFlightOf
<1>6. CASE cur = 0
    BY <1>1, <1>2, <1>6 DEF TaskOK, Failing
<1> QED
    BY <1>3, <1>4, <1>5, <1>6

\* A step outside the boot pass after which no other phase is running, and
\* nothing else is in flight that has one.
LEMMA PhasesStay ==
    ASSUME Inv', RunningOK, LateOK, BootOK, booting' = booting,
           tstatus' = tstatus \/ ~Waking,
           \A a \in SeqRange(q) : a.k \in BootActs => a \in SeqRange(q') \/ alive' = FALSE,
           \A a \in SeqRange(q') : a.k \in BootActs => a \in SeqRange(q),
           \A n \in Nodes : phase'[n] = "running" =>
               phase[n] = "running" /\ (n \in Flying => n \in Flying'),
           \A a \in SeqRange(q') \cup working' :
               a.k \in Late => a \in SeqRange(q) \cup working \/ phase'[a.n] # "running"
    PROVE  alive' => RunningOK' /\ LateOK' /\ BootOK'
<1> SUFFICES ASSUME alive' PROVE RunningOK' /\ LateOK' /\ BootOK'
    OBVIOUS
<1>1. Waking' <=> Waking
    BY DEF Waking
<1>2. RunningOK'
    BY <1>1 DEF RunningOK
<1>3. LateOK'
    <2>1. \A a \in SeqRange(q') \cup working' : a.k \in Late => a.n \in Nodes
        <3>1. SeqRange(q') \subseteq Act /\ working' \subseteq Act
            <4>1. q' \in Seq(Act) /\ working' \subseteq Act
                BY DEF Inv, ActsOK
            <4> QED
                BY <4>1, ElementOfSeq DEF SeqRange
        <3> QED
            BY <3>1, OfNode DEF TaskKinds, Late
    <2> QED
        BY <2>1 DEF LateOK
<1>4. BootOK'
    <2>1. \A m \in Nodes : phase'[m] = "running" => phase[m] = "running"
        OBVIOUS
    <2>2. CASE Waking
        BY <2>1, <2>2 DEF BootOK, SomePhase, BootActs
    <2>3. CASE ~Waking
        BY <1>1, <2>3 DEF BootOK, Waking, BootActs
    <2> QED
        BY <2>2, <2>3
<1> QED
    BY <1>2, <1>3, <1>4

\* After a step of the log no loop dispatches.
LEMMA LookSteady ==
    ASSUME NoSync, Steady(rt, rt')
    PROVE  LookOK'
<1>1. \A g \in 1..Len(rt') : rt'[g].pc # "dispatch"
    BY DEF NoSync, Steady, SyncPc
<1> QED
    BY <1>1 DEF LookOK

\* requestSchedule makes the loop go on.
LEMMA RequestGoes ==
    ASSUME NEW R \in Seq(Awake), NEW c \in 1..Len(R)
    PROVE  Going(Request(R, c)[c])
<1> DEFINE r == R[c]
           e == [r EXCEPT !.rescan = TRUE, !.pc = IF @ = "idle" THEN "top" ELSE @]
<1>1. r \in Runtime /\ Len(R) \in Nat /\ c # 0
    BY RuntimeOf
<1>2. Request(R, c) = [R EXCEPT ![c] = e]
    BY <1>1 DEF Request
<1>3. e.rescan
    BY <1>1 DEF Runtime
<1> HIDE DEF e
<1> QED
    BY <1>2, <1>3, Replaced DEF Going

LEMMA FinallyGoes ==
    ASSUME NEW R \in Seq(Awake), NEW c \in 1..Len(R), NEW n \in Nodes
    PROVE  Going(Finally(R, n, c, c)[c])
<1>1. WithInFlight(R, c, n, 0) \in Seq(Awake) /\ Len(WithInFlight(R, c, n, 0)) = Len(R)
    BY InFlightField
<1> QED
    BY <1>1, RequestGoes DEF Finally, WithInFlight

\* A run that is worked on or queued is in flight.
LEMMA InFlight ==
    ASSUME Inv, RunsInv, NEW n \in Nodes,
           (\E w \in working : w.n = n) \/ (\E k \in RunKinds : At(k) /\ Head(q).n = n)
    PROVE  n \in Flying
<1>1. n \in Taken
    <2>1. CASE \E w \in working : w.n = n
        BY <2>1 DEF RunsInv, HeldOK, Held
    <2>2. ASSUME NEW k \in RunKinds, At(k), Head(q).n = n
          PROVE  n \in Taken
        <3>1. Slotted(Head(q)) /\ Slot(Head(q)) = n /\ q \in Seq(Act) /\ q # <<>> /\ Held(q, working, Taken)
            BY <2>2, HeadFacts
        <3> QED
            BY <3>1, HeldLeave
    <2> QED
        BY <2>1, <2>2
<1>2. n # 0
    BY WorkflowAssumption
<1> QED
    BY <1>1, <1>2 DEF Taken

\* A step of a node run: it goes on as b, and its runtime may forget the nodes
\* of D, whose phases are not running.
LEMMA RunStays ==
    ASSUME Inv, Inv', RestInv, alive, NoSync, Steady(rt, rt'),
           NEW D \in SUBSET Nodes, Quiet(rt, rt', cur, D),
           rt' = rt \/ Goes' \/ (D = {} /\ Flying # {}),
           cur' = cur, tstatus' = tstatus, booting' = booting,
           NEW b, b.k \notin Marks, b.k \in Late => phase'[b.n] # "running",
           \/ q' = q \/ q' = Append(q, b)
           \/ /\ q # <<>> /\ Head(q).k \notin Marks
              /\ q' = Tail(q) \/ q' = Append(Tail(q), b),
           working' \subseteq working \cup {b},
           \A m \in Nodes : phase'[m] = "running" => phase[m] = "running" /\ m \notin D,
           Waits => Waits', AllDone => AllDone'
    PROVE  RestInv'
<1>0. TaskOK /\ RunningOK /\ LateOK /\ BootOK
    BY DEF RestInv
<1>1. SameMarks /\ QueueOK(q', phase')
    BY <1>0, MarksStay DEF TaskOK
<1>2. Taken' = Taken \ D /\ Flying' = Flying \ D
    BY TakenQuiet
<1>3. TaskOK'
    BY <1>0, <1>1, <1>2, TaskStays
<1>4. SeqRange(q') \subseteq SeqRange(q) \cup {b}
    <2>1. q \in Seq(Act)
        BY Types
    <2>2. q # <<>> => Tail(q) \in Seq(Act) /\ SeqRange(Tail(q)) \subseteq SeqRange(q)
        BY <2>1, TailOf
    <2> QED
        BY <2>1, <2>2, RangeAppend
<1>5. /\ \A a \in SeqRange(q) : a.k \in BootActs => a \in SeqRange(q')
      /\ \A a \in SeqRange(q') : a.k \in BootActs => a \in SeqRange(q)
    BY <1>1 DEF SameMarks, Marks, BootActs
<1>6. \A n \in Nodes : phase'[n] = "running" =>
          phase[n] = "running" /\ (n \in Flying => n \in Flying')
    BY <1>2
<1>7. \A a \in SeqRange(q') \cup working' :
          a.k \in Late => a \in SeqRange(q) \cup working \/ phase'[a.n] # "running"
    BY <1>4
<1>8. alive' => RunningOK' /\ LateOK' /\ BootOK'
    BY <1>0, <1>5, <1>6, <1>7, PhasesStay
<1> QED
    BY <1>3, <1>8, LookSteady DEF RestInv

\* A step of a node run that leaves phases and runtimes alone.
LEMMA RunStaysQuiet ==
    ASSUME Inv, Inv', RestInv, alive, NoSync, rt' = rt,
           cur' = cur, tstatus' = tstatus, booting' = booting, phase' = phase,
           NEW b, b.k \notin Marks \cup Late,
           \/ q' = q \/ q' = Append(q, b)
           \/ /\ q # <<>> /\ Head(q).k \notin Marks
              /\ q' = Tail(q) \/ q' = Append(Tail(q), b),
           working' \subseteq working \cup {b}
    PROVE  RestInv'
<1>1. Quiet(rt, rt', cur, {}) /\ Steady(rt, rt')
    BY Types, QuietNothing, QuietSteady
<1>2. (Waits => Waits') /\ (AllDone => AllDone')
    BY DEF Waits, SomePhase, AllDone
<1> QED
    BY <1>1, <1>2, RunStays

\* The turn's beginning and end, and what is recorded of it.
LEMMA RestRuns ==
    ASSUME Inv, Inv', RunsInv, RestInv, alive, Yielded, NEW w,
           \/ RunStarted \/ RunDone \/ ApproveRun
           \/ w \in working /\ (Gather(w) \/ Finish(w) \/ Overspend(w))
    PROVE  RestInv'
<1>0. NoSync
    BY DEF Yielded, NoSync
<1>1. rt' = rt /\ cur' = cur /\ tstatus' = tstatus /\ booting' = booting /\ phase' = phase
    BY DEF RunStarted, RunDone, ApproveRun, Gather, Finish, Overspend, log, ctl
<1>2. ASSUME NEW k \in {"run2", "done1", "ap1"}, At(k), NEW x \in {"setup", "done2", "ap2"},
             NEW b, b = [Head(q) EXCEPT !.k = x],
             \/ q' = Tail(q) /\ working' = working \cup {b}
             \/ q' = Append(Tail(q), b) /\ working' = working
      PROVE  RestInv'
    <2>1. /\ q # <<>> /\ Head(q).k \notin Marks /\ b.k = x
        BY <1>2, HeadFacts DEF Marks, Act, ActRec
    <2>2. b.k \notin Marks \cup Late
        BY <2>1 DEF Marks, Late
    <2> QED
        BY <1>0, <1>1, <1>2, <2>1, <2>2, RunStaysQuiet
<1>3. CASE RunStarted
    <2>1. PICK b : b = [Head(q) EXCEPT !.k = "setup"]
        OBVIOUS
    <2>2. At("run2") /\ q' = Tail(q) /\ working' = working \cup {b}
        BY <1>3, <2>1 DEF RunStarted
    <2> QED
        BY <1>2, <2>1, <2>2
<1>4. CASE RunDone
    <2>1. PICK b : b = [Head(q) EXCEPT !.k = "done2"]
        OBVIOUS
    <2>2. At("done1") /\ q' = Append(Tail(q), b) /\ working' = working
        BY <1>4, <2>1 DEF RunDone, Next1
    <2> QED
        BY <1>2, <2>1, <2>2
<1>5. CASE ApproveRun
    <2>1. PICK b : b = [Head(q) EXCEPT !.k = "ap2"]
        OBVIOUS
    <2>2. At("ap1") /\ q' = Append(Tail(q), b) /\ working' = working
        BY <1>5, <2>1 DEF ApproveRun, Next1
    <2> QED
        BY <1>2, <2>1, <2>2
<1>6. ASSUME w \in working, NEW b, b.k \in {"llm", "done1"},
             q' = q \/ q' = Append(q, b), working' \subseteq working \cup {b}
      PROVE  RestInv'
    <2>1. b.k \notin Marks \cup Late
        BY <1>6 DEF Marks, Late
    <2> QED
        BY <1>0, <1>1, <1>6, <2>1, RunStaysQuiet
<1>7. CASE w \in working /\ Gather(w)
    <2>t. PICK t \in Workspace :
            working' = (working \ {w}) \cup {[w EXCEPT !.k = "llm", !.tree = t, !.ins = [m \in Nodes |-> IF m \in Upstream(w.n) THEN LatestDone(m) ELSE 0]]}
        BY <1>7 DEF Gather
    <2> DEFINE b == [w EXCEPT !.k = "llm", !.tree = t, !.ins = [m \in Nodes |-> IF m \in Upstream(w.n) THEN LatestDone(m) ELSE 0]]
    <2>1. q' = q /\ working' = (working \ {w}) \cup {b}
        BY <1>7, <2>t DEF Gather
    <2>2. b.k = "llm"
        BY <1>7, WorkFacts DEF Act, ActRec
    <2> HIDE DEF b
    <2> QED
        BY <1>6, <1>7, <2>1, <2>2
<1>8. CASE w \in working /\ Finish(w)
    <2>1. w \in Act /\ working' = working \ {w}
        BY <1>8, WorkFacts DEF Finish
    <2>2. /\ \A o, vd : [w EXCEPT !.k = "done1", !.out = o, !.verdict = vd].k = "done1"
          /\ [w EXCEPT !.k = "done1", !.out = "failed"].k = "done1"
        BY <2>1 DEF Act, ActRec
    <2>3. \E b : q' = Append(q, b) /\ b.k = "done1"
        <3>1. \/ \E vd : q' = Append(q, [w EXCEPT !.k = "done1", !.out = Outcome(w.n), !.verdict = vd])
              \/ q' = Append(q, [w EXCEPT !.k = "done1", !.out = "failed"])
            BY <1>8 DEF Finish
        <3>2. ASSUME NEW vd, q' = Append(q, [w EXCEPT !.k = "done1", !.out = Outcome(w.n), !.verdict = vd])
              PROVE  \E b : q' = Append(q, b) /\ b.k = "done1"
            BY <2>2, <3>2
        <3> QED
            BY <2>2, <3>1, <3>2
    <2> QED
        BY <1>6, <1>8, <2>1, <2>3
<1>9. CASE w \in working /\ Overspend(w)
    <2>1. q' = q /\ working' = working
        BY <1>9 DEF Overspend
    <2>2. \E b : b.k = "llm"
        <3>1. [k |-> "llm"].k = "llm"
            OBVIOUS
        <3> QED
            BY <3>1
    <2> QED
        BY <1>6, <1>9, <2>1, <2>2
<1> QED
    BY <1>3, <1>4, <1>5, <1>7, <1>8, <1>9

\* The phase of the run at the head changes; none of the others does.
LEMMA HeadPhase ==
    ASSUME Inv, alive, NEW n \in Nodes, NEW s, SetPhase(n, s)
    PROVE  /\ phase'[n] = s /\ \A m \in Nodes : m # n => phase'[m] = phase[m]
           /\ phase[n] # "waiting_approval" => (Waits => Waits')
           /\ phase[n] # "completed" => (AllDone => AllDone')
<1>1. phase'[n] = s /\ \A m \in Nodes : m # n => phase'[m] = phase[m]
    BY PhaseSet
<1> QED
    BY <1>1 DEF Waits, SomePhase, AllDone

\* The phase is folded as running.
LEMMA RestPhaseRunning ==
    ASSUME Inv, Inv', RunsInv, DoneOK, RestInv, alive, Yielded, PhaseRunning
    PROVE  RestInv'
<1>0. PICK a, b : a = Head(q) /\ b = [a EXCEPT !.k = "run2"]
    OBVIOUS
<1>1. /\ At("run1") /\ "run1" \in RunKinds /\ SetPhase(a.n, "running") /\ q' = Append(Tail(q), b)
      /\ UNCHANGED <<tstatus, alive, working, rt, cur, booting>>
    BY <1>0 DEF PhaseRunning, Next1, RunKinds, ctl
<1>2. /\ a \in Act /\ a.k = "run1" /\ a \in SeqRange(q) /\ a.n \in Nodes /\ q # <<>>
      /\ \A x : SeqRange(Append(Tail(q), x)) \subseteq SeqRange(q) \cup {x}
    BY <1>0, <1>1, HeadFacts, HeadRunFacts
<1>3. phase[a.n] \in {"pending", "running"}
    BY <1>2 DEF DoneOK, Sound, Early
<1>4. b.k = "run2" /\ b.n = a.n
    BY <1>0, <1>2 DEF Act, ActRec
<1>5. /\ phase'[a.n] = "running" /\ \A m \in Nodes : m # a.n => phase'[m] = phase[m]
      /\ (Waits => Waits') /\ (AllDone => AllDone')
    BY <1>1, <1>2, <1>3, HeadPhase
<1>6. TaskOK'
    <2>1. b.k \notin Marks /\ Head(q).k \notin Marks
        BY <1>0, <1>2, <1>4 DEF Marks
    <2>2. SameMarks /\ QueueOK(q', phase')
        BY <1>1, <1>2, <1>5, <2>1, MarksStay DEF RestInv, TaskOK
    <2> QED
        BY <1>1, <1>5, <2>2, TaskStays DEF RestInv
<1>7. ~Waking /\ ~Waking'
    <2>1. ~Waking
        BY <1>2, Awake1 DEF DoneOK, BootActs
    <2> QED
        BY <1>1, <1>2, <1>4, <2>1 DEF Waking, BootActs
<1>8. RunningOK'
    <2>1. a.n \in Flying
        BY <1>0, <1>1, <1>2, InFlight
    <2>2. Flying' = Flying
        BY <1>1 DEF Flying, InFlightOf
    <2> QED
        BY <1>5, <2>1, <2>2, <1>7 DEF RestInv, RunningOK
<1>9. LateOK'
    <2> SUFFICES ASSUME NEW c \in SeqRange(q') \cup working', c.k \in Late
                 PROVE  phase'[c.n] # "running"
        BY DEF LateOK
    <2>1. c \in SeqRange(Tail(q)) \cup working
        <3>1. Tail(q) \in Seq(Act)
            BY <1>1, HeadFacts
        <3>2. c # b
            BY <1>4 DEF Late
        <3> QED
            BY <1>1, <3>1, <3>2, RangeAppend
    <2>2. c \in SeqRange(q) \cup working /\ c \in Act /\ (c.k \in RunKinds => c.n # a.n)
        BY <1>0, <1>1, <2>1, HeadAlone
    <2>3. c.n # a.n /\ c.n \in Nodes
        BY <2>2, OfNode DEF Late, RunKinds, TaskKinds
    <2> QED
        BY <1>5, <2>2, <2>3 DEF RestInv, LateOK
<1>10. BootOK'
    BY <1>7 DEF BootOK, Waking, BootActs
<1>11. LookOK'
    BY <1>1, LookSteady, SteadyRuns DEF Yielded, NoSync
<1> QED
    BY <1>6, <1>8, <1>9, <1>10, <1>11 DEF RestInv

\* The turn's result is folded.
LEMMA RestPhaseDone ==
    ASSUME Inv, Inv', RunsInv, DoneOK, RestInv, alive, Yielded, PhaseDone
    PROVE  RestInv'
<1>0. PICK a, b : a = Head(q) /\ b = [a EXCEPT !.k = "release"]
    OBVIOUS
<1>1. /\ At("done2") /\ "done2" \in RunKinds /\ SetPhase(a.n, a.out) /\ q' = Tail(q)
      /\ working' = working \cup {b} /\ Steady(rt, rt')
      /\ UNCHANGED <<tstatus, alive, rt, cur, booting>>
    BY <1>0, SteadyRuns DEF PhaseDone, RunKinds, ctl
<1>2. a \in Act /\ a.k = "done2" /\ a \in SeqRange(q) /\ a.n \in Nodes /\ q # <<>>
    BY <1>0, <1>1, HeadFacts, HeadRunFacts
<1>3. phase[a.n] \in {"pending", "running"} /\ a.out # "running"
    BY <1>2 DEF DoneOK, Sound, Early, Act
<1>4. b.k = "release" /\ b.n = a.n
    BY <1>0, <1>2 DEF Act, ActRec
<1>5. /\ phase'[a.n] = a.out /\ \A m \in Nodes : m # a.n => phase'[m] = phase[m]
      /\ (Waits => Waits') /\ (AllDone => AllDone')
    BY <1>1, <1>2, <1>3, HeadPhase
<1>6. b.k \notin Marks /\ Head(q).k \notin Marks /\ phase'[b.n] # "running"
    BY <1>0, <1>2, <1>3, <1>4, <1>5 DEF Marks
<1>7. Quiet(rt, rt', cur, {}) /\ {} \in SUBSET Nodes
    BY <1>1, Types, QuietNothing
<1>8. \A m \in Nodes : phase'[m] = "running" => phase[m] = "running" /\ m \notin {}
    BY <1>3, <1>5
<1>9. NoSync
    BY DEF Yielded, NoSync
<1> QED
    BY <1>1, <1>2, <1>5, <1>6, <1>7, <1>8, <1>9, RunStays

\* The finally of executeRun leaves a loop that goes on.
LEMMA RestFinally ==
    ASSUME Inv, cur \in 1..Len(rt), NEW n \in Nodes,
           NEW R \in Seq(Awake), Len(R) = Len(rt), Quiet(rt, R, cur, {}),
           rt' = Finally(R, n, cur, cur), cur' = cur
    PROVE  Quiet(rt, rt', cur, {n}) /\ Goes' /\ Steady(rt, rt') /\ {n} \in SUBSET Nodes
<1>1. Quiet(R, rt', cur, {n})
    BY QuietFinally
<1>2. Quiet(rt, rt', cur, {} \cup {n}) /\ {} \cup {n} = {n}
    BY <1>1, Types, QuietTrans
<1>3. Going(rt'[cur])
    BY FinallyGoes
<1>4. cur # 0
    BY Types
<1> QED
    BY <1>2, <1>3, <1>4, Types, QuietSteady DEF Goes

\* What follows the release of a run's workspace.
LEMMA RestRelease ==
    ASSUME Inv, Inv', RunsInv, Forward, NoGates, RestInv, Apart(working), alive,
           NEW w \in working, Release(w), Yielded \/ ReleasesAtOnce(w)
    PROVE  RestInv'
<1>0. NoSync
    BY DEF Yielded, NoSync, Apart
<1>1. /\ w \in Act /\ w.n \in Nodes /\ GateTarget[w.n] = 0 /\ w.k = "release" /\ w.g = cur
      /\ cur \in 1..Len(rt) /\ rt \in Seq(Awake) /\ Quiet(rt, rt, cur, {})
    BY WorkFacts, Types, QuietNothing DEF NoGates, Release
<1>2. /\ phase' = phase /\ tstatus' = tstatus /\ booting' = booting /\ working' = working \ {w}
      /\ cur' = cur
    BY <1>1 DEF Release, log, ctl
<1>3. phase[w.n] # "running" /\ w.n \in Flying
    <2>1. phase[w.n] # "running"
        BY <1>1 DEF RestInv, LateOK, Late
    <2> QED
        BY <1>1, <2>1, InFlight
<1>4. (Waits => Waits') /\ (AllDone => AllDone')
    BY <1>2 DEF Waits, SomePhase, AllDone
<1> DEFINE S == StillPending(Downstream(w.n))
           x == [w EXCEPT !.k = "pend", !.tree = "none"]
           y == [w EXCEPT !.k = "mdf", !.tree = "none", !.left = S, !.i = Least(S)]
           R == WithFailed(rt, cur, TRUE)
<1>5. \/ rt' = rt /\ q' = Append(q, x)
      \/ rt' = R /\ q' = Append(q, y)
      \/ rt' = Finally(R, w.n, cur, cur) /\ q' = q
      \/ rt' = Finally(rt, w.n, cur, cur) /\ q' = q
    BY <1>1 DEF Release, WithFailed
<1>6. x.k = "pend" /\ y.k = "mdf"
    BY <1>1 DEF Act, ActRec
<1>7. Quiet(rt, R, cur, {}) /\ R \in Seq(Awake) /\ Len(R) = Len(rt)
    BY <1>1, QuietStop
<1> HIDE DEF S, x, y, R
<1>8. ASSUME NEW b, b.k \in {"pend", "mdf"}, q' = Append(q, b), rt' = rt \/ rt' = R
      PROVE  RestInv'
    <2>1. Quiet(rt, rt', cur, {}) /\ Steady(rt, rt')
        BY <1>1, <1>7, <1>8, QuietSteady
    <2>2. b.k \notin Marks \cup Late
        BY <1>8 DEF Marks, Late
    <2>3. {} \in SUBSET Nodes /\ Flying # {}
        BY <1>3
    <2> QED
        BY <1>0, <1>2, <1>4, <1>8, <2>1, <2>2, <2>3, RunStays
<1>9. ASSUME NEW T \in Seq(Awake), Len(T) = Len(rt), Quiet(rt, T, cur, {}),
             rt' = Finally(T, w.n, cur, cur), q' = q
      PROVE  RestInv'
    <2>1. Quiet(rt, rt', cur, {w.n}) /\ Goes' /\ Steady(rt, rt') /\ {w.n} \in SUBSET Nodes
        BY <1>1, <1>2, <1>9, RestFinally
    <2>2. PICK b : b.k = "mdf"
        BY <1>6
    <2>3. b.k \notin Marks \cup Late
        BY <2>2 DEF Marks, Late
    <2>4. \A m \in Nodes : phase'[m] = "running" => phase[m] = "running" /\ m \notin {w.n}
        BY <1>2, <1>3
    <2> QED
        BY <1>0, <1>2, <1>4, <1>9, <2>1, <2>3, <2>4, RunStays
<1> QED
    BY <1>1, <1>5, <1>6, <1>7, <1>8, <1>9

\* The run at the head ends in its runtime, or goes on as b.
LEMMA RestHeadEnds ==
    ASSUME Inv, Inv', RunsInv, RestInv, alive, Yielded, NEW k \in RunKinds, At(k),
           cur' = cur, tstatus' = tstatus, booting' = booting, working' = working,
           NEW R \in Seq(Awake), Len(R) = Len(rt), Quiet(rt, R, cur, {}),
           NEW b, b.k \notin Marks, b.k \in Late => phase'[b.n] # "running",
           \/ rt' = R /\ q' = Append(Tail(q), b)
           \/ rt' = Finally(R, Head(q).n, cur, cur) /\ q' = Tail(q),
           \A m \in Nodes : phase'[m] = "running" => phase[m] = "running" /\ m # Head(q).n,
           Waits => Waits', AllDone => AllDone'
    PROVE  RestInv'
<1>0. NoSync
    BY DEF Yielded, NoSync
<1>1. /\ cur \in 1..Len(rt) /\ Head(q).n \in Nodes /\ q # <<>> /\ Head(q).k \notin Marks
      /\ Head(q).n \in Flying
    <2>1. Head(q).n \in Nodes /\ q # <<>> /\ Head(q).k = k
        BY HeadFacts, HeadRunFacts
    <2> QED
        BY <2>1, HeadRunFacts, InFlight DEF Marks, RunKinds
<1>2. CASE rt' = R /\ q' = Append(Tail(q), b)
    <2>1. Quiet(rt, rt', cur, {}) /\ Steady(rt, rt')
        BY <1>2, Types, QuietSteady
    <2>2. {} \in SUBSET Nodes /\ Flying # {}
        BY <1>1
    <2> QED
        BY <1>0, <1>1, <1>2, <2>1, <2>2, RunStays
<1>3. CASE rt' = Finally(R, Head(q).n, cur, cur) /\ q' = Tail(q)
    <2>1. PICK n \in Nodes : n = Head(q).n
        BY <1>1
    <2>2. Quiet(rt, rt', cur, {n}) /\ Goes' /\ Steady(rt, rt') /\ {n} \in SUBSET Nodes
        BY <1>1, <1>3, <2>1, RestFinally
    <2>3. \A m \in Nodes : phase'[m] = "running" => phase[m] = "running" /\ m \notin {n}
        BY <2>1
    <2> QED
        BY <1>0, <1>1, <1>3, <2>2, <2>3, RunStays
<1> QED
    BY <1>2, <1>3

LEMMA RestBudget ==
    ASSUME Inv, Inv', RunsInv, DoneOK, RestInv, alive, Yielded, BudgetPending \/ BudgetReported
    PROVE  RestInv'
<1>0. PICK a, b : a = Head(q) /\ b = [a EXCEPT !.k = "stop"]
    OBVIOUS
<1>r. rt \in Seq(Awake) /\ Quiet(rt, rt, cur, {})
    BY Types, QuietNothing
<1>1. CASE BudgetPending
    <2> DEFINE R == WithPaused(rt, cur, TRUE)
    <2>1. At("pend") /\ "pend" \in RunKinds
        BY <1>1 DEF BudgetPending, RunKinds
    <2>2. /\ a \in Act /\ a.k = "pend" /\ a \in SeqRange(q) /\ a.n \in Nodes
          /\ a.g = cur /\ cur \in 1..Len(rt)
        BY <1>0, <2>1, HeadFacts, HeadRunFacts
    <2>3. Quiet(rt, R, cur, {}) /\ R \in Seq(Awake) /\ Len(R) = Len(rt)
        BY <1>r, <2>2, QuietStop
    <2>4. /\ SetPhase(a.n, "pending")
          /\ \/ rt' = R /\ q' = Append(Tail(q), b)
             \/ rt' = Finally(R, Head(q).n, cur, cur) /\ q' = Tail(q)
          /\ UNCHANGED <<tstatus, cur, booting, working>>
        BY <1>0, <1>1, <2>2 DEF BudgetPending, Next1, WithPaused, ctl
    <2>5. phase[a.n] = "failed"
        BY <2>2 DEF DoneOK, Sound, Doomed
    <2>6. b.k = "stop" /\ b.n = a.n
        BY <1>0, <2>2 DEF Act, ActRec
    <2>7. /\ phase'[a.n] = "pending" /\ \A m \in Nodes : m # a.n => phase'[m] = phase[m]
          /\ (Waits => Waits') /\ (AllDone => AllDone')
        BY <2>2, <2>4, <2>5, HeadPhase
    <2>8. b.k \notin Marks /\ phase'[b.n] # "running"
        BY <2>6, <2>7 DEF Marks
    <2>9. \A m \in Nodes : phase'[m] = "running" => phase[m] = "running" /\ m # Head(q).n
        BY <1>0, <2>7
    <2> HIDE DEF R
    <2> QED
        BY <2>1, <2>3, <2>4, <2>7, <2>8, <2>9, RestHeadEnds
<1>2. CASE BudgetReported
    <2>1. At("stop") /\ "stop" \in RunKinds
        BY <1>2 DEF BudgetReported, RunKinds
    <2>2. /\ a \in Act /\ a.k = "stop" /\ a \in SeqRange(q) /\ a.n \in Nodes
          /\ a.g = cur /\ cur \in 1..Len(rt)
        BY <1>0, <2>1, HeadFacts, HeadRunFacts
    <2>3. /\ rt' = Finally(rt, Head(q).n, cur, cur) /\ q' = Tail(q)
          /\ UNCHANGED <<phase, tstatus, cur, booting, working>>
        BY <1>0, <1>2, <2>2 DEF BudgetReported, log, ctl
    <2>4. phase[a.n] # "running"
        BY <2>2 DEF RestInv, LateOK, Late
    <2>5. (Waits => Waits') /\ (AllDone => AllDone')
        BY <2>3 DEF Waits, SomePhase, AllDone
    <2>6. \A m \in Nodes : phase'[m] = "running" => phase[m] = "running" /\ m # Head(q).n
        BY <1>0, <2>3, <2>4
    <2>7. \E c : c.k \notin Marks \cup Late
        <3>1. [k |-> "pend"].k \notin Marks \cup Late
            BY DEF Marks, Late
        <3> QED
            BY <3>1
    <2> QED
        BY <1>r, <2>1, <2>3, <2>5, <2>6, <2>7, RestHeadEnds
<1> QED
    BY <1>1, <1>2

LEMMA RestDownstreamFailed ==
    ASSUME Inv, Inv', RunsInv, DoneOK, RestInv, alive, Yielded, DownstreamFailed
    PROVE  RestInv'
<1>0. PICK a, S, b : /\ a = Head(q) /\ S = StillPending(a.left \ {a.i})
                     /\ b = [a EXCEPT !.left = S, !.i = Least(S)]
    OBVIOUS
<1>1. At("mdf") /\ "mdf" \in RunKinds
    BY DEF DownstreamFailed, RunKinds
<1>2. /\ a \in Act /\ a.k = "mdf" /\ a \in SeqRange(q) /\ a.n \in Nodes
      /\ a.g = cur /\ rt \in Seq(Awake) /\ Quiet(rt, rt, cur, {})
    BY <1>0, <1>1, HeadFacts, HeadRunFacts, Types, QuietNothing
<1>3. /\ SetPhase(a.i, "failed")
      /\ \/ rt' = rt /\ q' = Append(Tail(q), b)
         \/ rt' = Finally(rt, Head(q).n, cur, cur) /\ q' = Tail(q)
      /\ UNCHANGED <<tstatus, cur, booting, working>>
    BY <1>0, <1>2 DEF DownstreamFailed, Next1, ctl
<1>4. a.i \in Downstream(a.n) /\ phase[a.n] = "failed"
    BY <1>2 DEF DoneOK, Sound, Doomed
<1>5. a.i \in Nodes /\ phase[a.i] \notin {"waiting_approval", "completed"}
    BY <1>2, <1>4, DownstreamWaits DEF DoneOK, PhasesOK
<1>6. /\ phase'[a.i] = "failed" /\ \A m \in Nodes : m # a.i => phase'[m] = phase[m]
      /\ (Waits => Waits') /\ (AllDone => AllDone')
    BY <1>3, <1>5, HeadPhase
<1>7. b.k = "mdf"
    BY <1>0, <1>2 DEF Act, ActRec
<1>8. b.k \notin Marks \cup Late
    BY <1>7 DEF Marks, Late
<1>9. \A m \in Nodes : phase'[m] = "running" => phase[m] = "running" /\ m # Head(q).n
    BY <1>0, <1>4, <1>6
<1> QED
    BY <1>1, <1>2, <1>3, <1>6, <1>8, <1>9, RestHeadEnds

\* The head of the queue, which is about the task, is done.
LEMMA TaskTail ==
    ASSUME Inv, RunsInv, DoneOK, RestInv, alive, NEW k, At(k), k \notin BootActs \cup {"del"},
           q' = Tail(q), phase' = phase, booting' = booting
    PROVE  /\ ~Waking /\ SeqRange(q') \subseteq SeqRange(q) /\ QueueOK(q', phase')
           /\ Kicked' => (Kicked /\ cur # 0)
           /\ (Waits' <=> Waits) /\ (AllDone' <=> AllDone)
           /\ (\A a \in SeqRange(q) :
                 /\ a.k \in {"fin", "cfin"} /\ a.out = "completed" => AllDone
                 /\ a.k = "cfin" => a.out = "failed")'
           /\ \A a \in SeqRange(q) : a = Head(q) \/ a \in SeqRange(q')
           /\ \A a \in SeqRange(q) : a.k \notin BootActs
           /\ \A a \in SeqRange(q') : a.k \notin BootActs
<1>1. /\ q \in Seq(Act) /\ q # <<>> /\ Head(q).k = k /\ Head(q) \in SeqRange(q)
      /\ SeqRange(q) = SeqRange(Tail(q)) \cup {Head(q)}
    BY HeadFacts, TailOf
<1>2. ~Waking
    BY <1>1, Awake1 DEF DoneOK
<1>3. QueueOK(Tail(q), phase)
    BY <1>1, QueueTail DEF RestInv, TaskOK
<1>4. (Waits' <=> Waits) /\ (AllDone' <=> AllDone)
    BY DEF Waits, SomePhase, AllDone
<1>5. \A a \in SeqRange(q) : a.k \notin BootActs
    BY <1>2 DEF Waking
<1> QED
    BY <1>1, <1>2, <1>3, <1>4, <1>5 DEF RestInv, TaskOK, Kicked

\* What such a step leaves of the rest, if it keeps what is in flight.
LEMMA RestTail ==
    ASSUME Inv, Inv', RunsInv, DoneOK, RestInv, alive, Yielded,
           NEW k, At(k), k \notin BootActs \cup {"del"},
           q' = Tail(q), phase' = phase, booting' = booting, alive' = alive, working' = working,
           Steady(rt, rt'), Flying' = Flying \/ Flying = {}, TaskOK'
    PROVE  RestInv'
<1>1. /\ ~Waking /\ SeqRange(q') \subseteq SeqRange(q)
      /\ \A a \in SeqRange(q) : a.k \notin BootActs
      /\ \A a \in SeqRange(q') : a.k \notin BootActs
    BY TaskTail
<1>2. RunningOK' /\ LateOK' /\ BootOK'
    <2>1. \A n \in Nodes : phase'[n] = "running" =>
              phase[n] = "running" /\ (n \in Flying => n \in Flying')
        OBVIOUS
    <2>2. \A a \in SeqRange(q') \cup working' : a \in SeqRange(q) \cup working
        BY <1>1
    <2> QED
        BY <1>1, <2>1, <2>2, PhasesStay DEF RestInv
<1>3. LookOK'
    BY LookSteady DEF Yielded, NoSync
<1> QED
    BY <1>2, <1>3 DEF RestInv

LEMMA RestKick ==
    ASSUME Inv, Inv', RunsInv, DoneOK, RestInv, alive, Yielded, Kick
    PROVE  RestInv'
<1>1. /\ At("kick") /\ q' = Tail(q) /\ tstatus' = "running" /\ rt' = Request(rt, cur)
      /\ UNCHANGED <<phase, booting, alive, working, cur>>
    BY DEF Kick, SetTask, ctl
<1>2. "kick" \notin BootActs \cup {"del"} /\ Steady(rt, rt')
    BY SteadyEnds DEF BootActs
<1>3. Head(q).k = "kick" /\ Head(q) \in SeqRange(q)
    BY <1>1, HeadFacts
<1>4. cur # 0 /\ cur \in 1..Len(rt) /\ rt \in Seq(Awake)
    BY <1>3, Types DEF RestInv, TaskOK, Kicked
<1>5. Goes' /\ Looping'
    <2>1. Goes'
        BY <1>1, <1>4, RequestGoes DEF Goes
    <2> QED
        BY <2>1, GoesLoops
<1>6. Flying' = Flying
    <2>1. Quiet(rt, rt', cur, {}) /\ {} \in SUBSET Nodes
        BY <1>1, <1>4, Types, QuietRequest
    <2> QED
        BY <1>1, <2>1, TakenQuiet
<1>7. TaskOK'
    BY <1>1, <1>2, <1>4, <1>5, TaskTail DEF TaskOK
<1> QED
    BY <1>1, <1>2, <1>6, <1>7, RestTail

\* The end of the loop of g, which the head of the queue is about.
LEMMA LoopEnds ==
    ASSUME Inv, RunsInv, Suspend \/ Finalize
    PROVE  LET g == Head(q).g IN
           /\ g \in 1..Len(rt) /\ (g = cur \/ cur = 0)
           /\ rt' = AfterOnce(rt, g) /\ Flying = {} /\ rt[g].pc \in {"suspend", "finalize"}
<1>1. \/ At("susp") /\ Head(q).k = "susp"
      \/ At("fin") /\ Head(q).k = "fin"
    BY DEF Suspend, Finalize, At
<1>2. Fine(Head(q)) /\ rt' = AfterOnce(rt, Head(q).g)
    BY <1>1, HeadFacts DEF Suspend, Finalize
<1>3. PICK g : g = Head(q).g
    OBVIOUS
<1>4. g \in 1..Len(rt) /\ rt[g].pc \in {"suspend", "finalize"}
    BY <1>1, <1>2, <1>3 DEF Fine
<1>5. (g = cur \/ cur = 0) /\ InFlightOf(rt[g]) = {}
    BY <1>4 DEF RunsInv, LoopOK
<1>6. Flying = {}
    BY <1>5 DEF Flying
<1> QED
    BY <1>2, <1>3, <1>4, <1>5, <1>6

\* After it, a runtime that failed still has something that will settle it.
LEMMA LoopEndsFailing ==
    ASSUME Inv, RunsInv, RestInv, alive, Suspend \/ Finalize, cur' = cur, Failing',
           \A a \in SeqRange(q) : a = Head(q) \/ a \in SeqRange(q'),
           Head(q).k = "susp" \/ Head(q).out = "waiting_approval"
    PROVE  Ending' \/ Flying' # {} \/ Goes'
<1>1. PICK g : g = Head(q).g
    OBVIOUS
<1>2. /\ g \in 1..Len(rt) /\ (g = cur \/ cur = 0) /\ cur # 0
      /\ rt' = AfterOnce(rt, g) /\ Flying = {} /\ rt[g].pc \in {"suspend", "finalize"}
    BY <1>1, LoopEnds DEF Failing
<1>3. g = cur /\ g \in 1..Len(rt) /\ rt \in Seq(Awake)
    BY <1>2, Types
<1>4. /\ rt'[g].failed = rt[g].failed
      /\ rt'[g].pc = IF rt[g].rescan THEN "top" ELSE "idle"
    BY <1>2, <1>3, AfterOnceIs
<1>5. Ending \/ Goes
    BY <1>2, <1>3, <1>4 DEF Failing, RestInv, TaskOK
<1>6. CASE Ending
    BY <1>6 DEF Ending
<1>7. CASE Goes
    <2>1. rt[g].rescan
        BY <1>2, <1>3, <1>7 DEF Goes, Going
    <2> QED
        BY <1>2, <1>3, <1>4, <2>1 DEF Goes, Going
<1> QED
    BY <1>5, <1>6, <1>7

LEMMA RestSuspend ==
    ASSUME Inv, Inv', RunsInv, DoneOK, RestInv, alive, Yielded, Suspend
    PROVE  RestInv'
<1>1. /\ At("susp") /\ q' = Tail(q) /\ tstatus' = "paused"
      /\ UNCHANGED <<phase, booting, alive, working, cur>>
    BY DEF Suspend, SetTask, ctl
<1>2. "susp" \notin BootActs \cup {"del"} /\ Steady(rt, rt') /\ Flying = {} /\ Head(q).k = "susp"
    BY <1>1, SteadyEnds, LoopEnds, HeadFacts DEF BootActs
<1>3. \A a \in SeqRange(q) : a = Head(q) \/ a \in SeqRange(q')
    BY <1>1, <1>2, TaskTail
<1>4. Failing' => Ending' \/ Flying' # {} \/ Goes'
    BY <1>1, <1>2, <1>3, LoopEndsFailing
<1>5. TaskOK'
    BY <1>1, <1>2, <1>4, TaskTail DEF TaskOK, Settled
<1> QED
    BY <1>1, <1>2, <1>5, RestTail

\* What finalize says of the task is true of its phases, and a runtime that is
\* dropped leaves nothing behind.
LEMMA RestFinalize ==
    ASSUME Inv, Inv', RunsInv, DoneOK, RestInv, alive, Yielded, Finalize, Uncrossed
    PROVE  RestInv'
<1>0. PICK o : o = Head(q).out
    OBVIOUS
<1>1. /\ At("fin") /\ q' = Tail(q) /\ tstatus' = o
      /\ o \in {"completed", "failed"} => cur' = 0
      /\ o \notin {"completed", "failed"} => cur' = cur
      /\ UNCHANGED <<phase, booting, alive, working>>
    BY <1>0 DEF Finalize, SetTask, Dropped, ctl
<1>2. /\ "fin" \notin BootActs \cup {"del"} /\ Steady(rt, rt') /\ Flying = {} /\ Head(q).k = "fin"
      /\ q \in Seq(Act) /\ q # <<>> /\ Head(q) \in Act /\ Head(q) \in SeqRange(q)
    BY <1>1, SteadyEnds, LoopEnds, HeadFacts DEF BootActs
<1>3. o \in {"completed", "waiting_approval", "failed"}
    BY <1>0, <1>2 DEF Act
<1>4. \A a \in SeqRange(q) : a = Head(q) \/ a \in SeqRange(q')
    BY <1>1, <1>2, TaskTail
<1>5. CASE o = "waiting_approval"
    <2>1. Failing' => Ending' \/ Flying' # {} \/ Goes'
        BY <1>0, <1>1, <1>2, <1>4, <1>5, LoopEndsFailing
    <2>2. Waits' \/ Kicked'
        <3>1. SomePhase(phase, "waiting_approval") \/ \E a \in SeqRange(Tail(q)) : a.k = "kick"
            BY <1>0, <1>2, <1>5, QueueTail DEF RestInv, TaskOK
        <3> QED
            BY <1>1, <3>1 DEF Waits, Kicked
    <2>3. TaskOK'
        BY <1>1, <1>2, <1>5, <2>1, <2>2, TaskTail DEF TaskOK, Settled
    <2> QED
        BY <1>1, <1>2, <2>3, RestTail
<1>6. CASE o # "waiting_approval"
    <2>1. ~Kicked' /\ cur' = 0
        <3>1. ~Kicked
            BY <1>0, <1>6 DEF Uncrossed
        <3> QED
            BY <1>1, <1>2, <1>3, <1>6, <3>1, TaskTail
    <2>2. o = "completed" => AllDone'
        <3>1. o = "completed" => AllDone
            BY <1>0, <1>2 DEF RestInv, TaskOK
        <3> QED
            BY <1>1, <1>2, <3>1, TaskTail
    <2>3. TaskOK'
        BY <1>1, <1>2, <1>3, <1>6, <2>1, <2>2, TaskTail DEF TaskOK, Settled, Failing
    <2> QED
        BY <1>1, <1>2, <2>3, RestTail
<1> QED
    BY <1>5, <1>6

LEMMA RestCancelFinalize ==
    ASSUME Inv, Inv', RunsInv, DoneOK, RestInv, alive, Yielded, CancelFinalize
    PROVE  RestInv'
<1>1. /\ At("cfin") /\ q' = Tail(q) /\ tstatus' = Head(q).out
      /\ Head(q).out = "failed" => cur' = 0
      /\ UNCHANGED <<phase, booting, alive, working>>
    BY DEF CancelFinalize, SetTask, Dropped, ctl
<1>2. /\ "cfin" \notin BootActs \cup {"del"} /\ Steady(rt, rt') /\ Head(q).k = "cfin"
      /\ q \in Seq(Act) /\ q # <<>> /\ Head(q) \in SeqRange(q)
    BY <1>1, SteadyEnds, HeadFacts DEF BootActs
<1>3. Head(q).out = "failed"
    BY <1>2 DEF RestInv, TaskOK
<1>4. Flying = {}
    BY <1>2 DEF RunsInv, StopOK
<1>5. ~Kicked'
    <2>1. \A a \in SeqRange(Tail(q)) : a.k # "kick"
        BY <1>2, QueueTail DEF RestInv, TaskOK
    <2> QED
        BY <1>1, <2>1 DEF Kicked
<1>6. TaskOK'
    BY <1>1, <1>2, <1>3, <1>5, TaskTail DEF TaskOK, Settled, Failing
<1> QED
    BY <1>1, <1>2, <1>4, <1>6, RestTail

\* The user pauses, or approves a phase.
LEMMA RestPauseApprove ==
    ASSUME Inv, Inv', RunsInv, RestInv, alive, Yielded, NEW n, Pause \/ Approve(n)
    PROVE  RestInv'
<1>0. NoSync
    BY DEF Yielded, NoSync
<1>1. CASE Pause
    <2> DEFINE R == WithPaused(rt, cur, TRUE)
    <2>1. /\ UNCHANGED <<phase, tstatus, booting, q, working, cur>>
          /\ cur # 0 /\ rt' = Request(R, cur)
        BY <1>1 DEF Pause, Request1, log, WithPaused
    <2>2. cur \in 1..Len(rt) /\ rt \in Seq(Awake)
        BY <2>1, Types
    <2>3. Quiet(rt, R, cur, {}) /\ R \in Seq(Awake) /\ Len(R) = Len(rt)
        BY <2>2, QuietStop
    <2> HIDE DEF R
    <2>4. Quiet(rt, rt', cur, {}) /\ Steady(rt, rt') /\ {} \in SUBSET Nodes
        <3>1. Quiet(R, rt', cur, {})
            BY <2>1, <2>2, <2>3, QuietRequest
        <3>2. Quiet(rt, rt', cur, {} \cup {}) /\ {} \cup {} = {}
            BY <2>2, <2>3, <3>1, QuietTrans
        <3> QED
            BY <2>2, <3>2, QuietSteady
    <2>5. Goes'
        BY <2>1, <2>2, <2>3, RequestGoes DEF Goes
    <2>6. (Waits => Waits') /\ (AllDone => AllDone')
        BY <2>1 DEF Waits, SomePhase, AllDone
    <2>7. PICK b : b.k \notin Marks \cup Late
        <3>1. [k |-> "pend"].k \notin Marks \cup Late
            BY DEF Marks, Late
        <3> QED
            BY <3>1
    <2>8. \A m \in Nodes : phase'[m] = "running" => phase[m] = "running" /\ m \notin {}
        BY <2>1
    <2> QED
        BY <1>0, <2>1, <2>4, <2>5, <2>6, <2>7, <2>8, RunStays
<1>2. CASE Approve(n)
    <2>1. PICK b : b = [Blank EXCEPT !.k = "ap1", !.n = n,
                         !.v = IF runs[n] = <<>> THEN 1 ELSE runs[n][Len(runs[n])].ver]
        OBVIOUS
    <2>2. UNCHANGED <<phase, tstatus, booting, working, rt, cur>> /\ q' = Append(q, b)
        BY <1>2, <2>1 DEF Approve, log, Request1
    <2>3. b.k = "ap1"
        BY <2>1 DEF Blank
    <2>4. b.k \notin Marks \cup Late
        BY <2>3 DEF Marks, Late
    <2> QED
        BY <1>0, <2>2, <2>4, RunStaysQuiet
<1> QED
    BY <1>1, <1>2

\* The user resumes: the kick comes last, and the runtime has not failed.
LEMMA RestResume ==
    ASSUME Inv, Inv', Forward, RunsInv, DoneOK, RestInv, alive, Yielded, Resume,
           ~Stopping, ~Waking
    PROVE  RestInv'
<1>0. PICK b : b = Blank
    OBVIOUS
<1>1. /\ UNCHANGED <<phase, tstatus, booting, working, alive>> /\ q' = Append(q, b) /\ b.k = "kick"
      /\ tstatus = "paused" /\ cur' = EnsuredId
    BY <1>0, BlankPlain DEF Resume, Request1, log
<1>2. q \in Seq(Act) /\ SeqRange(q') = SeqRange(q) \cup {b}
    BY <1>1, Types, RangeAppend
<1>3. cur' # 0 /\ ~rt'[cur'].failed
    <2> DEFINE E == Ensured
               e == EnsuredId
               F == WithPaused(E, e, FALSE)
    <2>1. E \in Seq(Awake) /\ e \in 1..Len(E)
        BY EnsuredFacts DEF Inv, RtOK
    <2>2. F \in Seq(Awake) /\ Len(F) = Len(E)
        BY <2>1, PausedField
    <2>3. rt' = WithFailed(F, e, FALSE)
        BY DEF Resume, WithPaused, WithFailed
    <2> HIDE DEF E, F
    <2>4. e \in 1..Len(F) /\ F[e] \in Runtime
        BY <2>1, <2>2, RuntimeOf
    <2> DEFINE x == [F[e] EXCEPT !.failed = FALSE]
    <2>5. ~x.failed /\ rt' = [F EXCEPT ![e] = x]
        BY <2>3, <2>4 DEF Runtime, WithFailed
    <2> HIDE DEF x
    <2>6. rt'[e] = x
        BY <2>2, <2>4, <2>5, Replaced
    <2> HIDE DEF e
    <2>7. e # 0
        BY <2>1, LenProperties
    <2> QED
        BY <1>1, <2>5, <2>6, <2>7 DEF e
<1>4. Flying \subseteq Flying'
    <2>1. CASE cur = 0
        BY <2>1 DEF Flying
    <2>2. CASE cur # 0
        <3>1. Alike(rt, rt') /\ cur' = cur /\ cur \in 1..Len(rt)
            BY <1>1, <2>2, Types, ResumeAlike, EnsuredIs
        <3> QED
            BY <2>2, <3>1 DEF Alike, Flying
    <2> QED
        BY <2>1, <2>2
<1>5. QueueOK(q', phase')
    <2>1. \A a \in SeqRange(q) : a.k # "cfin"
        BY DEF Stopping
    <2> QED
        BY <1>1, <1>2, <2>1, QueueKick
<1>6. (AllDone <=> AllDone') /\ (Waits <=> Waits')
    BY <1>1 DEF AllDone, Waits, SomePhase
<1>7. TaskOK'
    BY <1>1, <1>2, <1>3, <1>5, <1>6 DEF TaskOK, RestInv, Settled, Failing
<1>8. RunningOK' /\ LateOK' /\ BootOK'
    <2>1. \A n \in Nodes : phase'[n] = "running" =>
              phase[n] = "running" /\ (n \in Flying => n \in Flying')
        BY <1>1, <1>4
    <2>2. /\ \A a \in SeqRange(q') \cup working' :
               a.k \in Late => a \in SeqRange(q) \cup working \/ phase'[a.n] # "running"
          /\ \A a \in SeqRange(q) : a.k \in BootActs => a \in SeqRange(q')
          /\ \A a \in SeqRange(q') : a.k \in BootActs => a \in SeqRange(q)
        BY <1>1, <1>2 DEF Late, BootActs
    <2> QED
        BY <1>1, <2>1, <2>2, PhasesStay DEF RestInv
<1>9. LookOK'
    BY NoneReady DEF Requests, LookOK
<1> QED
    BY <1>7, <1>8, <1>9 DEF RestInv

\* An approval is done: its kick comes last.
LEMMA RestApproveDone ==
    ASSUME Inv, Inv', Forward, RunsInv, DoneOK, RestInv, alive, Yielded, ApproveDone
    PROVE  RestInv'
<1>0. PICK a, b : a = Head(q) /\ b = Blank
    OBVIOUS
<1>1. /\ At("ap2") /\ SetPhase(a.n, "completed") /\ q' = Append(Tail(q), b) /\ b.k = "kick"
      /\ rt' = Ensured /\ cur' = EnsuredId
      /\ UNCHANGED <<tstatus, booting, working, alive>>
    BY <1>0, BlankPlain DEF ApproveDone, Next1, ctl
<1>2. /\ a \in Act /\ a.k = "ap2" /\ a \in SeqRange(q) /\ Tail(q) \in Seq(Act)
      /\ q \in Seq(Act) /\ q # <<>>
    BY <1>0, <1>1, HeadFacts
<1>3. SeqRange(q) = SeqRange(Tail(q)) \cup {a} /\ SeqRange(q') = SeqRange(Tail(q)) \cup {b}
    BY <1>0, <1>1, <1>2, TailOf, RangeAppend
<1>4. a.n \in Nodes /\ phase[a.n] \in {"waiting_approval", "completed"} /\ ~Waking
    <2>1. a.n \in Nodes
        BY <1>2, OfNode DEF TaskKinds
    <2> QED
        BY <1>2, <2>1, Awake1 DEF DoneOK, Sound, BootActs
<1>5. phase'[a.n] = "completed" /\ \A m \in Nodes : m # a.n => phase'[m] = phase[m]
    BY <1>1, <1>4, PhaseSet
<1>6. QueueOK(q', phase') /\ Kicked'
    <2>1. Approving
        BY <1>2 DEF Approving
    <2>2. \A c \in SeqRange(Tail(q)) : c.k # "cfin"
        BY <1>3, <2>1 DEF RunsInv, StopOK
    <2> QED
        BY <1>1, <1>2, <1>3, <2>2, QueueKick DEF Kicked
<1>7. /\ cur' # 0 /\ Flying \subseteq Flying'
      /\ Failing' => cur # 0 /\ rt' = rt /\ cur' = cur
    <2>1. CASE cur # 0
        <3>1. rt' = rt /\ cur' = cur
            BY <1>1, <2>1, EnsuredIs
        <3> QED
            BY <2>1, <3>1 DEF Flying, InFlightOf
    <2>2. CASE cur = 0
        <3>1. rt' = Append(rt, NewRuntime) /\ cur' = Len(rt) + 1 /\ Len(rt) \in Nat
            BY <1>1, <2>2, Types DEF Ensured, EnsuredId
        <3>2. rt'[cur'] = NewRuntime
            BY <3>1, Types, NewRuntimeAwake, AppendProperties
        <3>3. ~rt'[cur'].failed
            BY <3>2 DEF NewRuntime
        <3> QED
            BY <2>2, <3>1, <3>3 DEF Failing, Flying
    <2> QED
        BY <2>1, <2>2
<1>8. Failing' => Ending' \/ Flying' # {} \/ Goes'
    <2> SUFFICES ASSUME Failing' PROVE Ending' \/ Flying' # {} \/ Goes'
        OBVIOUS
    <2>1. Ending \/ Flying # {} \/ Goes
        BY <1>7 DEF RestInv, TaskOK, Failing
    <2>2. Ending => Ending'
        BY <1>2, <1>3 DEF Ending
    <2> QED
        BY <1>7, <2>1, <2>2 DEF Goes
<1>9. AllDone => AllDone'
    BY <1>5 DEF AllDone
<1>10. TaskOK'
    BY <1>1, <1>3, <1>6, <1>7, <1>8, <1>9 DEF TaskOK, RestInv
<1>11. RunningOK' /\ LateOK' /\ BootOK'
    <2>1. \A n \in Nodes : phase'[n] = "running" =>
              phase[n] = "running" /\ (n \in Flying => n \in Flying')
        BY <1>5, <1>7
    <2>2. /\ \A c \in SeqRange(q') \cup working' :
               c.k \in Late => c \in SeqRange(q) \cup working \/ phase'[c.n] # "running"
          /\ \A c \in SeqRange(q) : c.k \in BootActs => c \in SeqRange(q')
          /\ \A c \in SeqRange(q') : c.k \in BootActs => c \in SeqRange(q)
        BY <1>1, <1>2, <1>3 DEF Late, BootActs
    <2> QED
        BY <1>1, <2>1, <2>2, PhasesStay DEF RestInv
<1>12. LookOK'
    BY NoneReady DEF LookOK
<1> QED
    BY <1>10, <1>11, <1>12 DEF RestInv

\* The user cancels or deletes: what was in flight will end, or the task is
\* finalized at once.
LEMMA RestStop ==
    ASSUME Inv, Inv', Forward, RunsInv, DoneOK, RestInv, alive, Yielded, Cancel \/ Delete
    PROVE  RestInv'
<1> DEFINE f == [Blank EXCEPT !.k = "cfin", !.out = "failed"]
           d == [Blank EXCEPT !.k = "del"]
<1>1. f \in Act /\ d \in Act /\ f.k = "cfin" /\ f.out = "failed" /\ d.k = "del"
    BY CancelAct, DeleteAct DEF Blank
<1>2. phase' = phase /\ tstatus' = tstatus /\ alive' = alive /\ booting' = booting
      /\ working' = working /\ cur' = cur
    BY DEF Cancel, Delete, log, Request1
<1>3. \/ cur = 0 /\ rt' = rt /\ q' = Append(q, d)
      \/ /\ cur # 0 /\ rt' = WithFailed(rt, cur, TRUE)
         /\ q' \in {q \o CancelRest, q \o <<d>> \o CancelRest}
    BY DEF Cancel, Delete, CancelNow, WithFailed
<1>4. CancelRest = IF InFlightOf(rt[cur]) = {} THEN <<f>> ELSE <<>>
    BY DEF CancelRest
<1> HIDE DEF f, d
<1>5. q \in Seq(Act) /\ Append(q, d) \in Seq(Act) /\ q \o <<d>> = Append(q, d)
    BY <1>1, Types, AppendProperties, AppendIsConcat
<1>6. /\ q \o <<f>> = Append(q, f) /\ q \o <<>> = q
      /\ Append(q, d) \o <<f>> = Append(Append(q, d), f)
      /\ Append(q, d) \o <<>> = Append(q, d)
    BY <1>1, <1>5, AppendIsConcat, ConcatEmptySeq
<1>7. /\ SeqRange(Append(q, d)) = SeqRange(q) \cup {d}
      /\ SeqRange(Append(q, f)) = SeqRange(q) \cup {f}
      /\ SeqRange(Append(Append(q, d), f)) = SeqRange(q) \cup {d} \cup {f}
    BY <1>5, RangeAppend
<1>8. /\ QueueOK(q, phase) /\ QueueOK(Append(q, d), phase) /\ QueueOK(Append(q, f), phase)
      /\ QueueOK(Append(Append(q, d), f), phase)
    <2>1. QueueOK(q, phase)
        BY DEF RestInv, TaskOK
    <2>2. QueueOK(Append(q, d), phase) /\ QueueOK(Append(q, f), phase)
        BY <1>1, <1>5, <2>1, QueueAppend
    <2>3. QueueOK(Append(Append(q, d), f), phase)
        BY <1>1, <1>5, <2>2, QueueAppend
    <2> QED
        BY <2>1, <2>2, <2>3
<1>9. \/ q' \in {q, Append(q, d)} /\ (cur = 0 \/ Flying # {})
      \/ q' \in {Append(q, f), Append(Append(q, d), f)} /\ cur # 0
    BY <1>3, <1>4, <1>5, <1>6 DEF Flying
<1>10. /\ SeqRange(q) \subseteq SeqRange(q') /\ SeqRange(q') \subseteq SeqRange(q) \cup {d, f}
       /\ QueueOK(q', phase)
       /\ f \in SeqRange(q') \/ cur = 0 \/ Flying # {}
    BY <1>7, <1>8, <1>9
<1>11. /\ Quiet(rt, rt', cur, {}) /\ {} \in SUBSET Nodes
       /\ \A g \in 1..Len(rt) : rt'[g].pc = rt[g].pc
    <2>1. CASE cur = 0
        BY <1>3, <2>1, Types, QuietNothing
    <2>2. CASE cur # 0
        <3>1. Alike(rt, rt') /\ Quiet(rt, rt', cur, {})
            BY <1>3, <2>2, Types, QuietStop, FlagsAlike
        <3> QED
            BY <3>1 DEF Alike
    <2> QED
        BY <2>1, <2>2
<1>12. Flying' = Flying
    BY <1>2, <1>11, TakenQuiet
<1>13. Looping => Looping'
    BY <1>11 DEF Looping, Quiet
<1>14. Failing' => Ending' \/ Flying' # {}
    <2>1. f \in SeqRange(q') => Ending'
        BY <1>1 DEF Ending
    <2> QED
        BY <1>2, <1>10, <1>12, <2>1 DEF Failing
<1>15. (Waking' <=> Waking) /\ (Kicked' <=> Kicked)
    BY <1>1, <1>2, <1>10 DEF Waking, Kicked, BootActs
<1>16. (AllDone <=> AllDone') /\ (Waits <=> Waits')
    BY <1>2 DEF AllDone, Waits, SomePhase
<1>17. TaskOK'
    BY <1>1, <1>2, <1>10, <1>12, <1>13, <1>14, <1>15, <1>16 DEF TaskOK, RestInv
<1>18. RunningOK' /\ LateOK' /\ BootOK'
    <2>1. \A n \in Nodes : phase'[n] = "running" =>
              phase[n] = "running" /\ (n \in Flying => n \in Flying')
        BY <1>2, <1>12
    <2>2. /\ \A c \in SeqRange(q') \cup working' :
               c.k \in Late => c \in SeqRange(q) \cup working \/ phase'[c.n] # "running"
          /\ \A c \in SeqRange(q) : c.k \in BootActs => c \in SeqRange(q')
          /\ \A c \in SeqRange(q') : c.k \in BootActs => c \in SeqRange(q)
        BY <1>1, <1>2, <1>10 DEF Late, BootActs
    <2> QED
        BY <1>2, <2>1, <2>2, PhasesStay DEF RestInv
<1>19. LookOK'
    BY NoneReady DEF Requests, LookOK
<1> QED
    BY <1>17, <1>18, <1>19 DEF RestInv

\* What the boot pass appends next, and what it has passed over.
LEMMA BootPasses ==
    ASSUME Inv, NEW m \in Nat
    PROVE  LET b == BootNext(phase, m) IN
           /\ b.k \in {"b1", "b2"} =>
                \A n \in Nodes : n > m /\ n < b.n => phase[n] # "running"
           /\ b.k = "b3" => \A n \in Nodes : n > m => phase[n] # "running"
<1> DEFINE S == {n \in Nodes : n > m /\ phase[n] = "running"}
           n == Least(S)
           l == Len(runs[n])
           b == BootNext(phase, m)
<1>1. CASE S = {}
    <2>1. b.k = "b3"
        BY <1>1 DEF BootNext, Blank
    <2> QED
        BY <1>1, <2>1
<1>2. CASE S # {}
    <2>0. S \subseteq Nat
        BY WorkflowAssumption
    <2>1. n \in S /\ \A x \in S : n <= x
        BY <1>2, <2>0, LeastMember
    <2>2. \/ b = [Blank EXCEPT !.k = "b1", !.n = n, !.v = runs[n][l].ver]
          \/ b = [Blank EXCEPT !.k = "b2", !.n = n]
        BY <1>2, Zenon DEF BootNext
    <2> HIDE DEF b, n, l
    <2>3. b.k \in {"b1", "b2"} /\ b.n = n
        BY <2>2 DEF Blank
    <2>4. \A x \in Nodes : x > m /\ x < n => x \notin S
        BY <2>1, WorkflowAssumption
    <2> QED
        BY <2>3, <2>4 DEF b
<1> QED
    BY <1>1, <1>2

\* A step of the boot pass: it goes on as b.
LEMMA RestBoot ==
    ASSUME Inv, Inv', RunsInv, DoneOK, RestInv, alive, Waking, rt' = rt, cur' = cur, working' = working,
           NEW b, b.k \in BootActs,
           \/ q' = q \/ q' = Append(q, b)
           \/ q # <<>> /\ (q' = Tail(q) \/ q' = Append(Tail(q), b)),
           Waits => Waits', AllDone => AllDone',
           tstatus' = "paused" \/ (tstatus' = tstatus /\ (tstatus \notin Settled => Waking')),
           RunningOK', BootOK'
    PROVE  RestInv'
<1>1. /\ Len(rt) = 0 /\ cur = 0 /\ working = {} /\ q \in Seq(Act)
      /\ \A a \in SeqRange(q) : a.k \in BootActs \cup {"del"}
    BY BootAlone
<1>2. SeqRange(q') \subseteq SeqRange(q) \cup {b}
    <2>1. SeqRange(Append(q, b)) = SeqRange(q) \cup {b}
        BY <1>1, RangeAppend
    <2>2. q # <<>> => /\ SeqRange(Tail(q)) \subseteq SeqRange(q)
                      /\ SeqRange(Append(Tail(q), b)) = SeqRange(Tail(q)) \cup {b}
        BY <1>1, TailOf, RangeAppend
    <2> QED
        BY <2>1, <2>2
<1>3. \A a \in SeqRange(q') : a.k \in BootActs \cup {"del"}
    BY <1>1, <1>2
<1>4. QueueOK(q', phase')
    <2>1. \A a \in SeqRange(q') : a.k \notin {"fin", "cfin"}
        BY <1>3 DEF BootActs
    <2> QED
        BY <2>1 DEF QueueOK, SeqRange
<1>5. TaskOK'
    <2>1. ~Kicked' /\ ~Kicked
        BY <1>1, <1>3 DEF Kicked, BootActs
    <2>2. ~Failing'
        BY <1>1 DEF Failing
    <2>3. \A a \in SeqRange(q') : a.k \notin {"fin", "cfin"}
        BY <1>3 DEF BootActs
    <2>4. /\ tstatus = "completed" => AllDone
          /\ tstatus = "waiting_approval" => Waits
        BY <2>1 DEF RestInv, TaskOK
    <2>5. /\ tstatus' \notin Settled => Waking'
          /\ tstatus' = "completed" => AllDone'
          /\ tstatus' = "waiting_approval" => Waits'
        BY <2>4 DEF Settled
    <2> QED
        BY <1>4, <2>1, <2>2, <2>3, <2>5 DEF TaskOK
<1>6. LateOK'
    BY <1>1, <1>3 DEF LateOK, Late, BootActs
<1>7. LookOK'
    BY <1>1 DEF LookOK
<1> QED
    BY <1>5, <1>6, <1>7 DEF RestInv

LEMMA RestBootScan ==
    ASSUME Inv, Inv', RunsInv, DoneOK, RestInv, alive, BootScan
    PROVE  RestInv'
<1>0. PICK b : b = BootNext(phase, 0)
    OBVIOUS
<1>1. /\ UNCHANGED <<phase, tstatus, rt, cur, working>>
      /\ Waking /\ booting' = FALSE /\ booting
      /\ \/ tstatus \notin Settled /\ q' = Append(q, b)
         \/ tstatus \in Settled /\ q' = q
    BY <1>0 DEF BootScan, log, Waking, Interrupted
<1>2. /\ b.k \in BootActs
      /\ b.k \in {"b1", "b2"} => \A m \in Nodes : m < b.n => phase[m] # "running"
      /\ b.k = "b3" => \A m \in Nodes : phase[m] # "running"
    <2>1. \A m \in Nodes : m > 0
        BY WorkflowAssumption
    <2> QED
        BY <1>0, <2>1, BootNextIs, BootPasses
<1>3. (AllDone => AllDone') /\ (Waits => Waits')
    BY <1>1 DEF AllDone, Waits, SomePhase
<1>4. CASE tstatus \notin Settled /\ q' = Append(q, b)
    <2>1. SeqRange(q') = SeqRange(q) \cup {b}
        BY <1>4, Types, RangeAppend
    <2>2. Waking'
        BY <1>2, <2>1 DEF Waking
    <2>3. RunningOK'
        BY <2>2 DEF RunningOK
    <2>4. BootOK'
        BY <1>1, <1>2, <2>1 DEF RestInv, BootOK, SomePhase
    <2> QED
        BY <1>1, <1>2, <1>3, <1>4, <2>2, <2>3, <2>4, RestBoot
<1>5. CASE tstatus \in Settled /\ q' = q
    <2>1. RunningOK'
        BY <1>1, <1>5 DEF RestInv, BootOK, SomePhase, RunningOK
    <2>2. BootOK'
        BY <1>1, <1>5 DEF RestInv, BootOK, SomePhase
    <2> QED
        BY <1>1, <1>2, <1>3, <1>5, <2>1, <2>2, RestBoot
<1> QED
    BY <1>1, <1>4, <1>5

LEMMA RestBootRunFailed ==
    ASSUME Inv, Inv', RunsInv, DoneOK, RestInv, alive, BootRunFailed
    PROVE  RestInv'
<1>0. PICK a, b : a = Head(q) /\ b = [a EXCEPT !.k = "b2"]
    OBVIOUS
<1>1. /\ At("b1") /\ q' = Append(Tail(q), b)
      /\ UNCHANGED <<phase, tstatus, rt, cur, working, booting>>
    BY <1>0 DEF BootRunFailed, Next1, ctl
<1>2. /\ a \in Act /\ a.k = "b1" /\ a \in SeqRange(q) /\ q # <<>> /\ Tail(q) \in Seq(Act)
      /\ SeqRange(Tail(q)) \subseteq SeqRange(q)
    BY <1>0, <1>1, HeadFacts
<1>3. b.k = "b2" /\ b.n = a.n
    BY <1>0, <1>2 DEF Act, ActRec
<1>4. b.k \in BootActs /\ SeqRange(q') = SeqRange(Tail(q)) \cup {b}
    BY <1>1, <1>2, <1>3, RangeAppend DEF BootActs
<1>5. Waking /\ Waking'
    BY <1>2, <1>4 DEF Waking, BootActs
<1>6. RunningOK'
    BY <1>5 DEF RunningOK
<1>7. BootOK'
    <2>1. \A m \in Nodes : m < b.n => phase[m] # "running"
        BY <1>2, <1>3 DEF RestInv, BootOK
    <2> QED
        BY <1>1, <1>2, <1>3, <1>4, <2>1 DEF RestInv, BootOK, SomePhase
<1>8. (AllDone => AllDone') /\ (Waits => Waits')
    BY <1>1 DEF AllDone, Waits, SomePhase
<1> QED
    BY <1>1, <1>2, <1>4, <1>5, <1>6, <1>7, <1>8, RestBoot

LEMMA RestBootPending ==
    ASSUME Inv, Inv', RunsInv, DoneOK, RestInv, alive, BootPending
    PROVE  RestInv'
<1>0. PICK a, b : a = Head(q) /\ b = BootNext(phase, a.n)
    OBVIOUS
<1>1. /\ At("b2") /\ SetPhase(a.n, "pending") /\ q' = Append(Tail(q), b)
      /\ UNCHANGED <<tstatus, rt, cur, working, booting>>
    BY <1>0 DEF BootPending, Next1, ctl
<1>2. /\ a \in Act /\ a.k = "b2" /\ a \in SeqRange(q) /\ q # <<>> /\ Tail(q) \in Seq(Act)
      /\ SeqRange(Tail(q)) \subseteq SeqRange(q)
    BY <1>0, <1>1, HeadFacts
<1>3. a.n \in Nodes /\ a.n \in Nat
    BY <1>2, OfNode, WorkflowAssumption DEF TaskKinds
<1>4. phase[a.n] \in {"running", "pending"}
    BY <1>2 DEF DoneOK, Sound
<1>5. /\ phase'[a.n] = "pending" /\ \A m \in Nodes : m # a.n => phase'[m] = phase[m]
      /\ (Waits => Waits') /\ (AllDone => AllDone')
    BY <1>1, <1>3, <1>4, HeadPhase
<1>6. /\ b.k \in BootActs
      /\ b.k \in {"b1", "b2"} =>
           /\ b.n \in Nodes
           /\ \A m \in Nodes : m > a.n /\ m < b.n => phase[m] # "running"
      /\ b.k = "b3" => \A m \in Nodes : m > a.n => phase[m] # "running"
    BY <1>0, <1>3, BootNextIs, BootPasses
<1>7. SeqRange(q') = SeqRange(Tail(q)) \cup {b}
    BY <1>1, <1>2, RangeAppend
<1>8. Waking /\ Waking'
    BY <1>2, <1>6, <1>7 DEF Waking, BootActs
<1>9. RunningOK'
    BY <1>8 DEF RunningOK
<1>10. BootOK'
    <2>1. \A m \in Nodes : m < a.n => phase[m] # "running"
        BY <1>2 DEF RestInv, BootOK
    <2>2. \A m \in Nodes : /\ phase'[m] = "running" => phase[m] = "running"
                           /\ phase'[m] = "running" => m > a.n
        <3>1. \A m \in Nodes : m = a.n \/ m < a.n \/ m > a.n
            BY <1>3, WorkflowAssumption
        <3> QED
            BY <1>5, <2>1, <3>1
    <2>3. /\ b.k \in {"b1", "b2"} => \A m \in Nodes : m < b.n => phase'[m] # "running"
          /\ b.k = "b3" => \A m \in Nodes : phase'[m] # "running"
        BY <1>6, <2>2
    <2> QED
        BY <1>1, <1>2, <1>7, <2>2, <2>3 DEF RestInv, BootOK, SomePhase
<1> QED
    BY <1>1, <1>2, <1>5, <1>6, <1>8, <1>9, <1>10, RestBoot

LEMMA RestBootPaused ==
    ASSUME Inv, Inv', RunsInv, DoneOK, RestInv, alive, BootPaused
    PROVE  RestInv'
<1>1. /\ At("b3") /\ q' = Tail(q) /\ tstatus' = "paused"
      /\ UNCHANGED <<phase, rt, cur, working, booting>>
    BY DEF BootPaused, SetTask, ctl
<1>2. /\ Head(q).k = "b3" /\ Head(q) \in SeqRange(q) /\ q # <<>>
      /\ SeqRange(q') \subseteq SeqRange(q)
    BY <1>1, HeadFacts
<1>3. Waking /\ ~SomePhase(phase, "running")
    BY <1>2 DEF Waking, BootActs, RestInv, BootOK
<1>4. RunningOK' /\ BootOK'
    BY <1>1, <1>2, <1>3 DEF RestInv, RunningOK, BootOK, SomePhase
<1>5. (AllDone => AllDone') /\ (Waits => Waits')
    BY <1>1 DEF AllDone, Waits, SomePhase
<1>6. PICK b : b = Head(q)
    OBVIOUS
<1>7. b.k \in BootActs
    BY <1>2, <1>6 DEF BootActs
<1> QED
    BY <1>1, <1>2, <1>3, <1>4, <1>5, <1>7, RestBoot

\* After a crash the boot pass is to come, and finds a settled task at rest.
LEMMA RestCrash ==
    ASSUME Inv, Inv', RunsInv, RestInv, alive, Crash, CleanCrash
    PROVE  RestInv'
<1>1. /\ UNCHANGED <<phase, tstatus, alive>> /\ booting' /\ cur' = 0 /\ Len(rt') = 0
      /\ SeqRange(q') = {} /\ working' = {} /\ Len(q') = 0
    BY DEF Crash, log, SeqRange
<1>2. ASSUME tstatus \in Settled
      PROVE  ~SomePhase(phase, "running") /\ ~Kicked
    <2>1. q = <<>> /\ working = {} /\ ~booting
        BY <1>2 DEF CleanCrash, Quiescent
    <2>2. Len(q) = 0 /\ SeqRange(q) = {}
        BY <2>1 DEF SeqRange
    <2>3. Flying = {}
        BY <2>1, <2>2 DEF RunsInv, HeldOK, Held, Taken
    <2>4. ~Waking /\ ~Kicked
        BY <2>1, <2>2 DEF Waking, Kicked
    <2> QED
        BY <2>3, <2>4 DEF RestInv, RunningOK, SomePhase
<1>3. (AllDone <=> AllDone') /\ (Waits <=> Waits')
    BY <1>1 DEF AllDone, Waits, SomePhase
<1>4. TaskOK'
    <2>1. tstatus = "waiting_approval" => Waits
        BY <1>2 DEF RestInv, TaskOK, Settled
    <2>2. Waking' /\ ~Kicked' /\ ~Failing' /\ QueueOK(q', phase')
        BY <1>1 DEF Waking, Kicked, Failing, QueueOK
    <2> QED
        BY <1>1, <1>3, <2>1, <2>2 DEF RestInv, TaskOK
<1>5. RunningOK' /\ LateOK' /\ LookOK'
    BY <1>1 DEF RunningOK, Waking, LateOK, LookOK
<1>6. BootOK'
    BY <1>1, <1>2 DEF BootOK, SomePhase
<1> QED
    BY <1>4, <1>5, <1>6 DEF RestInv

-----------------------------------------------------------------------------
\* The steps of the schedule loops.

\* A step of a loop, after which it or a run goes on, or whose runtime has been
\* dropped; b may be queued.
LEMMA RestLoop ==
    ASSUME Inv, Inv', RestInv, alive, NEW b, b.k \notin Marks \cup Late, q' = q \/ q' = Append(q, b),
           UNCHANGED <<phase, tstatus, alive, booting, working, cur>>,
           Flying \subseteq Flying', Goes' \/ Flying' # {} \/ cur = 0, LookOK'
    PROVE  RestInv'
<1>1. (Waits' <=> Waits) /\ (AllDone' <=> AllDone)
    BY DEF Waits, SomePhase, AllDone
<1>2. SameMarks /\ QueueOK(q', phase')
    <2>1. QueueOK(q, phase) /\ b.k \notin Marks
        BY DEF RestInv, TaskOK
    <2> QED
        BY <1>1, <2>1, MarksStay
<1>3. TaskOK'
    BY <1>1, <1>2, TaskStays DEF RestInv
<1>4. SeqRange(q') \subseteq SeqRange(q) \cup {b}
    BY Types, RangeAppend
<1>5. RunningOK' /\ LateOK' /\ BootOK'
    <2>1. /\ \A a \in SeqRange(q) : a.k \in BootActs => a \in SeqRange(q')
          /\ \A a \in SeqRange(q') : a.k \in BootActs => a \in SeqRange(q)
        BY <1>2 DEF SameMarks, Marks, BootActs
    <2>2. \A n \in Nodes : phase'[n] = "running" =>
              phase[n] = "running" /\ (n \in Flying => n \in Flying')
        OBVIOUS
    <2>3. \A a \in SeqRange(q') \cup working' : a.k \in Late => a \in SeqRange(q) \cup working
        BY <1>4
    <2> QED
        BY <2>1, <2>2, <2>3, PhasesStay DEF RestInv
<1> QED
    BY <1>3, <1>5 DEF RestInv

\* What is in flight stays so when the loop of g keeps it.
LEMMA LoopKeeps ==
    ASSUME Inv, RunsInv, NEW g \in 1..Len(rt), rt[g].pc # "idle", cur' = cur,
           Len(rt') = Len(rt), \A h \in 1..Len(rt) : h # g => rt'[h] = rt[h]
    PROVE  /\ \A h \in 1..Len(rt') : h # g => rt'[h].pc = "idle"
           /\ g = cur \/ cur = 0
           /\ InFlightOf(rt'[g]) = InFlightOf(rt[g]) => Flying' = Flying
           /\ rt'[g].pc # "dispatch" => LookOK'
           /\ rt'[g].pc # "idle" => cur = 0 \/ Looping'
<1>1. \A h \in 1..Len(rt') : h # g => rt'[h].pc = "idle"
    BY DEF RunsInv, LoopOK
<1>2. g = cur \/ cur = 0
    BY DEF RunsInv, LoopOK
<1>3. InFlightOf(rt'[g]) = InFlightOf(rt[g]) => Flying' = Flying
    BY <1>2 DEF Flying
<1>4. rt'[g].pc # "dispatch" => LookOK'
    BY <1>1 DEF LookOK
<1>5. rt'[g].pc # "idle" => Looping'
    BY DEF Looping
<1> QED
    BY <1>1, <1>2, <1>3, <1>4, <1>5

\* A loop that is at work once more looks for more.
LEMMA LoopGoes ==
    ASSUME NEW g, cur' = g, g # 0, rt'[g].pc \notin {"idle", "suspend", "finalize"}
    PROVE  Goes'
BY DEF Goes, Going

LEMMA PlainAct == \E b : b.k \notin Marks \cup Late
<1>1. [k |-> "llm"].k \notin Marks \cup Late
    BY DEF Marks, Late
<1> QED
    BY <1>1

\* The loop that begins a pass with a runtime begins it.
LEMMA TopGoes ==
    ASSUME Inv, RunsInv, NEW g \in 1..Len(rt), Top(g), cur # 0, alive
    PROVE  rt'[g].pc # "idle"
<1> DEFINE r == [rt[g] EXCEPT !.rescan = FALSE, !.sr = cur]
           R == Cleared(g)
<1>1. rt \in Seq(Awake) /\ rt[g] \in Awake
    BY Types, RuntimeOf
<1>2. r \in Awake
    <2>1. rt[g] \in Runtime /\ rt[g].pc = "top" /\ cur \in Nat
        BY Types DEF Top
    <2> QED
        BY <1>1, <2>1 DEF Awake, Runtime
<1>3. R = [rt EXCEPT ![g] = r]
    BY DEF Cleared
<1> HIDE DEF r
<1>4. R \in Seq(Awake) /\ Len(R) = Len(rt)
    BY <1>1, <1>2, <1>3, ReplaceOne, Replaced
<1>5. \E p \in {"integrate", "check"} : rt' = WithPc(R, g, p)
    BY DEF Top, WithPc
<1> HIDE DEF R
<1>6. PICK p \in {"integrate", "check"} : rt' = WithPc(R, g, p)
    BY <1>5
<1>7. Moved(R, rt', g, p)
    BY <1>4, <1>6, PcMoved
<1> QED
    BY <1>6, <1>7 DEF Moved

LEMMA RestLooks ==
    ASSUME Inv, Inv', RunsInv, RestInv, alive, NEW g \in 1..Len(rt),
           Top(g) \/ Integrate(g) \/ CheckBudget(g) \/ Reported(g)
    PROVE  RestInv'
<1>1. /\ rt[g].pc # "idle" /\ q' = q
      /\ UNCHANGED <<phase, tstatus, alive, booting, working, cur>>
    BY DEF Top, Integrate, CheckBudget, Reported, log, ctl
<1>2. /\ Len(rt') = Len(rt) /\ \A h \in 1..Len(rt) : h # g => rt'[h] = rt[h]
      /\ InFlightOf(rt'[g]) = InFlightOf(rt[g])
      /\ rt'[g].pc \notin {"dispatch", "suspend", "finalize"}
      /\ rt'[g].pc = "idle" => cur = 0
    <2>1. CASE Top(g)
        BY <2>1, TopIs, TopGoes
    <2>2. CASE Integrate(g) \/ CheckBudget(g) \/ Reported(g)
        BY <2>2, LoopMoves DEF Moved
    <2> QED
        BY <2>1, <2>2
<1>3. Flying' = Flying /\ LookOK' /\ (g = cur \/ cur = 0)
    BY <1>1, <1>2, LoopKeeps
<1>4. Goes' \/ cur = 0
    BY <1>1, <1>2, <1>3, LoopGoes
<1>5. PICK b : b.k \notin Marks \cup Late
    BY PlainAct
<1> QED
    BY <1>1, <1>3, <1>4, <1>5, RestLoop

\* The loop takes up all that could be started, and has room for some of it
\* if nothing is in flight.
LEMMA RestReady ==
    ASSUME Inv, Inv', RunsInv, RestInv, alive, NEW g \in 1..Len(rt), Ready(g)
    PROVE  RestInv'
<1> DEFINE r == rt[g]
           todo == Startable(r)
           room == Capacity(r)
           e == [r EXCEPT !.pc = "dispatch", !.todo = todo, !.room = room]
<1>1. /\ r.pc = "ready" /\ q' = q
      /\ UNCHANGED <<phase, tstatus, alive, booting, working, cur>>
    BY DEF Ready, log, ctl
<1>2. rt \in Seq(Awake) /\ r \in Runtime /\ r.sr = g
    BY <1>1, OwnRuntime
<1>3. rt' = [rt EXCEPT ![g] = e]
    BY <1>2 DEF Ready
<1>4. ~Halted(r) => Runnable(phase) \subseteq InFlightOf(r) \cup todo
    BY DEF Startable, Halted
<1>5. InFlightOf(r) = {} => room > 0
    <2>1. Cardinality({}) = 0 /\ Cap \in Nat /\ 0 < Cap
        BY FS_EmptySet, EngineAssumption
    <2> QED
        BY <2>1 DEF Capacity
<1> HIDE DEF todo, room
<1>6. /\ e.pc = "dispatch" /\ e.todo = todo /\ e.room = room
      /\ e.failed = r.failed /\ e.paused = r.paused /\ e.inFlight = r.inFlight
    BY <1>2 DEF Runtime
<1> HIDE DEF e
<1>7. Len(rt') = Len(rt) /\ rt'[g] = e /\ \A h \in 1..Len(rt) : h # g => rt'[h] = rt[h]
    BY <1>2, <1>3, Replaced
<1>8. InFlightOf(e) = InFlightOf(r)
    BY <1>6 DEF InFlightOf
<1>9. /\ \A h \in 1..Len(rt') : h # g => rt'[h].pc = "idle"
      /\ Flying' = Flying /\ (g = cur \/ cur = 0)
    BY <1>1, <1>7, <1>8, LoopKeeps
<1>10. LookOK'
    <2>1. /\ ~Halted(rt'[g]) => Runnable(phase') \subseteq InFlightOf(rt'[g]) \cup rt'[g].todo
          /\ InFlightOf(rt'[g]) = {} => rt'[g].room > 0
        BY <1>1, <1>4, <1>5, <1>6, <1>7, <1>8 DEF Halted
    <2> QED
        BY <1>9, <2>1 DEF LookOK
<1>11. Goes' \/ cur = 0
    BY <1>1, <1>6, <1>7, <1>9, LoopGoes
<1>12. PICK b : b.k \notin Marks \cup Late
    BY PlainAct
<1> QED
    BY <1>1, <1>9, <1>10, <1>11, <1>12, RestLoop

\* A run that starts is in flight from then on.
LEMMA RestDispatch ==
    ASSUME Inv, Inv', RunsInv, RestInv, alive, NEW g \in 1..Len(rt), Dispatch(g)
    PROVE  RestInv'
<1>1. PICK n \in Nodes, v \in Nat : \E b : Starts(g, n, v, b)
    BY DispatchIs
<1>2. PICK b : Starts(g, n, v, b)
    BY <1>1
<1>3. /\ rt[g].pc = "dispatch"
      /\ UNCHANGED <<phase, tstatus, alive, booting, working>>
    BY DEF Dispatch, log, ctl
<1>4. /\ cur' = cur /\ q' = Append(q, b) /\ b.k = "run1"
      /\ Len(rt') = Len(rt) /\ \A h \in 1..Len(rt) : h # g => rt'[h] = rt[h]
      /\ rt'[g].failed = rt[g].failed /\ rt'[g].paused = rt[g].paused
      /\ InFlightOf(rt'[g]) = InFlightOf(rt[g]) \cup {n}
      /\ rt'[g].todo = rt[g].todo \ {n}
      /\ MayStart(g) /\ cur \in 1..Len(rt)
    BY <1>2 DEF Starts
<1>5. g = cur /\ cur # 0
    BY <1>4, Types DEF MayStart
<1>6. Flying' = Flying \cup {n}
    BY <1>4, <1>5 DEF Flying
<1>7. \A h \in 1..Len(rt') : h # g => rt'[h].pc = "idle"
    BY <1>3, <1>4, LoopKeeps
<1>8. LookOK'
    <2>1. ~Halted(rt[g]) => Runnable(phase) \subseteq InFlightOf(rt[g]) \cup rt[g].todo
        BY <1>3 DEF RestInv, LookOK
    <2>2. /\ ~Halted(rt'[g]) => Runnable(phase') \subseteq InFlightOf(rt'[g]) \cup rt'[g].todo
          /\ InFlightOf(rt'[g]) # {}
        BY <1>3, <1>4, <2>1 DEF Halted
    <2> QED
        BY <1>7, <2>2 DEF LookOK
<1>9. b.k \notin Marks \cup Late
    BY <1>4 DEF Marks, Late
<1> QED
    BY <1>3, <1>4, <1>6, <1>8, <1>9, RestLoop

\* What finalize says of the task is true of its phases.
LEMMA FinalIs ==
    ASSUME Inv
    PROVE  /\ FinalStatus = "completed" => AllDone
           /\ FinalStatus = "waiting_approval" => Waits
           /\ FinalStatus = "none" => ~Failing /\ (Runnable(phase) # {} \/ SomePhase(phase, "running"))
           /\ Failing => FinalStatus = "failed"
<1>1. \A n \in Nodes : phase[n] \in PhaseStatus
    BY DEF Inv, LogOK
<1>2. Failing => FinalStatus = "failed"
    BY DEF Failing, FinalStatus
<1>3. ~Failing => FinalStatus = SettledStatus(phase)
    BY DEF Failing, FinalStatus
<1>4. SettledStatus(phase) = "completed" => AllDone
    <2>1. SettledStatus(phase) = "completed" =>
            /\ ~SomePhase(phase, "failed") /\ ~SomePhase(phase, "running")
            /\ ~SomePhase(phase, "waiting_approval") /\ ~SomePhase(phase, "pending")
        BY DEF SettledStatus
    <2> QED
        BY <1>1, <2>1 DEF SomePhase, PhaseStatus, AllDone
<1>5. SettledStatus(phase) = "waiting_approval" => Waits
    BY DEF SettledStatus, Waits
<1>6. SettledStatus(phase) = "none" => Runnable(phase) # {} \/ SomePhase(phase, "running")
    BY DEF SettledStatus
<1> QED
    BY <1>2, <1>3, <1>4, <1>5, <1>6

\* A loop that settles with a runtime queues b for it.
LEMMA RestQueued ==
    ASSUME Inv, Inv', RunsInv, RestInv, alive, NEW g \in 1..Len(rt), rt[g].pc # "idle",
           UNCHANGED <<phase, tstatus, alive, booting, working, cur>>,
           NEW p \in {"suspend", "finalize"}, rt' = WithPc(rt, g, p),
           NEW b, b.k \in {"susp", "fin"}, q' = Append(q, b),
           b.k = "fin" /\ b.out = "waiting_approval" => Waits,
           b.k = "fin" /\ b.out = "completed" => AllDone,
           Failing => b.k = "fin" /\ b.out = "failed"
    PROVE  RestInv'
<1>0. rt \in Seq(Awake) /\ q \in Seq(Act)
    BY Types
<1>1. Moved(rt, rt', g, p)
    BY <1>0, PcMoved
<1>2. /\ Len(rt') = Len(rt) /\ \A h \in 1..Len(rt) : h # g => rt'[h] = rt[h]
      /\ InFlightOf(rt'[g]) = InFlightOf(rt[g]) /\ rt'[g].pc = p /\ rt'[g].failed = rt[g].failed
    BY <1>1 DEF Moved
<1>3. Flying' = Flying /\ LookOK' /\ (g = cur \/ cur = 0) /\ (cur = 0 \/ Looping')
    BY <1>2, LoopKeeps
<1>4. (Waits' <=> Waits) /\ (AllDone' <=> AllDone) /\ (Failing' <=> Failing)
    BY <1>2, <1>3 DEF Waits, SomePhase, AllDone, Failing
<1>5. SeqRange(q') = SeqRange(q) \cup {b}
    BY <1>0, RangeAppend
<1>6. b.k \notin {"kick", "cfin"} \cup BootActs \cup Late
    BY DEF BootActs, Late
<1>7. (Kicked' <=> Kicked) /\ (Waking' <=> Waking)
    BY <1>5, <1>6 DEF Kicked, Waking
<1>8. QueueOK(q', phase')
    <2>1. b.k # "kick" /\ (b.k = "fin" /\ b.out = "waiting_approval" => SomePhase(phase, "waiting_approval"))
        BY <1>6 DEF Waits
    <2> QED
        BY <1>0, <2>1, QueueAppend DEF RestInv, TaskOK
<1>9. Failing' => Ending'
    <2>1. "failed" # "waiting_approval"
        OBVIOUS
    <2> QED
        BY <1>4, <1>5, <2>1 DEF Ending
<1>10. (\A a \in SeqRange(q) :
          /\ a.k \in {"fin", "cfin"} /\ a.out = "completed" => AllDone
          /\ a.k = "cfin" => a.out = "failed")'
    BY <1>4, <1>5, <1>6 DEF RestInv, TaskOK
<1>11. TaskOK'
    BY <1>3, <1>4, <1>7, <1>8, <1>9, <1>10 DEF RestInv, TaskOK
<1>12. RunningOK' /\ LateOK' /\ BootOK'
    <2>1. /\ \A a \in SeqRange(q) : a.k \in BootActs => a \in SeqRange(q')
          /\ \A a \in SeqRange(q') : a.k \in BootActs => a \in SeqRange(q)
        BY <1>5, <1>6
    <2>2. \A n \in Nodes : phase'[n] = "running" =>
              phase[n] = "running" /\ (n \in Flying => n \in Flying')
        BY <1>3
    <2>3. \A a \in SeqRange(q') \cup working' : a.k \in Late => a \in SeqRange(q) \cup working
        BY <1>5, <1>6
    <2> QED
        BY <2>1, <2>2, <2>3, PhasesStay DEF RestInv
<1> QED
    BY <1>3, <1>11, <1>12 DEF RestInv

\* The end of one scheduleOnce: with a runtime, a loop that could start nothing
\* and has nothing in flight is about to settle the task.
LEMMA RestSettle ==
    ASSUME Inv, Inv', RunsInv, DoneOK, RestInv, alive, NEW g \in 1..Len(rt), Settle(g)
    PROVE  RestInv'
<1> DEFINE x == [Blank EXCEPT !.k = "susp", !.g = g]
           y == [Blank EXCEPT !.k = "fin", !.g = g, !.out = FinalStatus]
<1>1. /\ rt[g].pc = "dispatch" /\ (rt[g].todo = {} \/ rt[g].room = 0)
      /\ UNCHANGED <<phase, tstatus, alive, booting, working, cur>>
    BY DEF Settle, log, ctl
<1>2. rt \in Seq(Awake) /\ rt[g] \in Runtime /\ rt[g].sr = g /\ (g = cur \/ cur = 0) /\ g # 0
    BY <1>1, OwnRuntime
<1>3. x.k = "susp" /\ y.k = "fin" /\ y.out = FinalStatus
    BY DEF Blank
<1>4. /\ ~Halted(rt[g]) => Runnable(phase) \subseteq InFlightOf(rt[g]) \cup rt[g].todo
      /\ InFlightOf(rt[g]) = {} => rt[g].room > 0
      /\ rt[g].room \in Nat
    BY <1>1, <1>2 DEF RestInv, LookOK, Runtime
<1>5. \/ rt' = AfterOnce(rt, g) /\ q' = q /\ (InFlightOf(rt[g]) # {} \/ rt[g].rescan)
      \/ rt' = WithPc(rt, g, "suspend") /\ q' = Append(q, x) /\ ~rt[g].failed
      \/ /\ FinalStatus = "none" /\ rt' = AfterOnce(rt, g) /\ q' = q
         /\ InFlightOf(rt[g]) = {} /\ (~rt[g].paused \/ rt[g].failed)
      \/ FinalStatus # "none" /\ rt' = WithPc(rt, g, "finalize") /\ q' = Append(q, y)
    BY <1>2 DEF Settle, WithPc, WorkLeft
<1> HIDE DEF x, y
<1>6. ASSUME rt' = AfterOnce(rt, g), q' = q, InFlightOf(rt[g]) # {} \/ rt[g].rescan \/ cur = 0
      PROVE  RestInv'
    <2>1. LET S == AfterOnce(rt, g) IN
          /\ Len(S) = Len(rt) /\ S[g].pc = IF rt[g].rescan THEN "top" ELSE "idle"
          /\ InFlightOf(S[g]) = InFlightOf(rt[g]) /\ \A h \in 1..Len(rt) : h # g => S[h] = rt[h]
        BY <1>2, AfterOnceIs
    <2>2. /\ Len(rt') = Len(rt) /\ rt'[g].pc = IF rt[g].rescan THEN "top" ELSE "idle"
          /\ InFlightOf(rt'[g]) = InFlightOf(rt[g]) /\ \A h \in 1..Len(rt) : h # g => rt'[h] = rt[h]
        BY <1>6, <2>1
    <2>3. Flying' = Flying /\ LookOK'
        BY <1>1, <2>2, LoopKeeps
    <2>4. Goes' \/ Flying' # {} \/ cur = 0
        <3>1. CASE cur # 0 /\ InFlightOf(rt[g]) # {}
            BY <1>2, <2>3, <3>1 DEF Flying
        <3>2. CASE cur # 0 /\ rt[g].rescan
            BY <1>1, <1>2, <2>2, <3>2, LoopGoes
        <3> QED
            BY <1>6, <3>1, <3>2
    <2>5. PICK b : b.k \notin Marks \cup Late
        BY PlainAct
    <2> QED
        BY <1>1, <1>6, <2>3, <2>4, <2>5, RestLoop
<1>7. CASE rt' = WithPc(rt, g, "suspend") /\ q' = Append(q, x) /\ ~rt[g].failed
    <2>1. ~Failing
        BY <1>2, <1>7 DEF Failing
    <2> QED
        BY <1>1, <1>3, <1>7, <2>1, RestQueued
<1>8. CASE /\ FinalStatus = "none" /\ rt' = AfterOnce(rt, g) /\ q' = q
           /\ InFlightOf(rt[g]) = {} /\ (~rt[g].paused \/ rt[g].failed)
    <2>1. cur = 0
        <3> SUFFICES ASSUME cur # 0 PROVE FALSE
            OBVIOUS
        <3>1. g = cur /\ ~Failing /\ (Runnable(phase) # {} \/ SomePhase(phase, "running"))
            BY <1>2, <1>8, FinalIs
        <3>2. ~Halted(rt[g]) /\ rt[g].todo = {}
            BY <1>1, <1>4, <1>8, <3>1 DEF Failing, Halted
        <3>3. Runnable(phase) = {}
            BY <1>4, <1>8, <3>2
        <3>4. ~Waking
            BY Awake1 DEF DoneOK
        <3>5. Flying = {}
            BY <1>8, <3>1 DEF Flying
        <3>6. ~SomePhase(phase, "running")
            BY <3>4, <3>5 DEF RestInv, RunningOK, SomePhase
        <3> QED
            BY <3>1, <3>3, <3>6
    <2> QED
        BY <1>6, <1>8, <2>1
<1>9. CASE FinalStatus # "none" /\ rt' = WithPc(rt, g, "finalize") /\ q' = Append(q, y)
    <2>1. /\ y.k = "fin" /\ y.out = "waiting_approval" => Waits
          /\ y.k = "fin" /\ y.out = "completed" => AllDone
          /\ Failing => y.k = "fin" /\ y.out = "failed"
        BY <1>3, FinalIs
    <2> QED
        BY <1>1, <1>3, <1>9, <2>1, RestQueued
<1> QED
    BY <1>5, <1>6, <1>7, <1>8, <1>9

LEMMA RestLoops ==
    ASSUME Inv, Inv', RunsInv, DoneOK, RestInv, alive, NEW g \in 1..Len(rt),
           \/ Top(g) \/ Integrate(g) \/ CheckBudget(g) \/ Reported(g)
           \/ Ready(g) \/ Dispatch(g) \/ Settle(g)
    PROVE  RestInv'
BY RestLooks, RestReady, RestDispatch, RestSettle

-----------------------------------------------------------------------------
\* All steps.

\* No step revives a deleted task.
LEMMA Deleted ==
    ASSUME Inv, RunsInv, Forward, [Next]_vars, alive'
    PROVE  alive
<1>1. CASE UNCHANGED vars
    BY <1>1 DEF vars, log
<1>2. CASE Sync \/ LoopIo \/ Turn
    BY <1>2 DEF Sync, LoopIo, Turn, Top, CheckBudget, Ready, Dispatch, Settle, Release,
                Integrate, Reported, Gather, Finish, log
<1>3. CASE Appended
    BY <1>3, NoRerun
    DEF Appended, Kick, Suspend, Finalize, CancelFinalize, PhaseRunning, RunStarted, RunDone,
        PhaseDone, BudgetPending, BudgetReported, DownstreamFailed, Escalate, ApproveRun,
        ApproveDone, Tombstone, BootRunFailed, BootPending, BootPaused, log
<1>4. CASE BootScan \/ Crash \/ \E w \in working : Overspend(w)
    BY <1>4 DEF BootScan, Crash, Overspend, log
<1>5. CASE Requests
    BY <1>5, NoRerun DEF Requests, Pause, Cancel, Delete, Resume, Approve, log
<1> QED
    BY <1>1, <1>2, <1>3, <1>4, <1>5 DEF Next, EngineStep, Idle

LEMMA RestNext ==
    ASSUME Inv, Inv', RunsInv, Forward, NoGates, Apart(working), DoneOK, RestInv, [Next]_vars,
           [Orderly]_vars, [AfterBoot]_vars, [Uncrossed]_vars, [CleanCrash]_vars
    PROVE  RestInv'
<1>0. CASE ~alive
    <2>1. ~alive'
        BY <1>0, Deleted
    <2> QED
        BY <2>1 DEF RestInv
<1>1. CASE UNCHANGED vars
    <2>1. UNCHANGED <<phase, tstatus, alive, q, working, rt, cur, booting>>
        BY <1>1 DEF vars, log, ctl
    <2> QED
        BY <2>1 DEF RestInv, TaskOK, RunningOK, LateOK, BootOK, LookOK, Waking, Kicked, Flying,
            Looping, Failing, Ending, Goes, QueueOK, AllDone, Waits
<1> SUFFICES ASSUME alive, Next, ~UNCHANGED vars, Orderly, AfterBoot, Uncrossed, CleanCrash
             PROVE  RestInv'
    BY <1>0, <1>1
<1>2. CASE Sync
    <2>1. ASSUME NEW g \in 1..Len(rt), Top(g) \/ CheckBudget(g) \/ Ready(g) \/ Dispatch(g) \/ Settle(g)
          PROVE  RestInv'
        BY <2>1, RestLoops
    <2>2. ASSUME NEW w \in working, ReleasesAtOnce(w), Release(w)
          PROVE  RestInv'
        BY <2>2, RestRelease
    <2> QED
        BY <1>2, <2>1, <2>2 DEF Sync
<1>3. CASE LoopIo
    BY <1>3, RestLoops DEF LoopIo
<1>4. CASE Yielded /\ Turn
    BY <1>4, RestRuns, RestRelease DEF Turn
<1>5. CASE Yielded /\ Appended
    <2>1. CASE RunStarted \/ RunDone \/ ApproveRun
        BY <1>5, <2>1, RestRuns
    <2>2. CASE PhaseRunning \/ PhaseDone
        BY <1>5, <2>2, RestPhaseRunning, RestPhaseDone
    <2>3. CASE BudgetPending \/ BudgetReported \/ DownstreamFailed
        BY <1>5, <2>3, RestBudget, RestDownstreamFailed
    <2>4. CASE Kick \/ Suspend \/ Finalize \/ CancelFinalize
        BY <1>5, <2>4, RestKick, RestSuspend, RestFinalize, RestCancelFinalize
    <2>5. CASE ApproveDone
        BY <1>5, <2>5, RestApproveDone
    <2>6. CASE Tombstone
        <3>1. alive' = FALSE
            BY <2>6 DEF Tombstone
        <3> QED
            BY <3>1 DEF RestInv
    <2>7. CASE BootRunFailed \/ BootPending \/ BootPaused
        BY <2>7, RestBootRunFailed, RestBootPending, RestBootPaused
    <2> QED
        BY <1>5, <2>1, <2>2, <2>3, <2>4, <2>5, <2>6, <2>7, NoRerun, NoEscalation DEF Appended
<1>6. CASE BootScan
    BY <1>6, RestBootScan
<1>7. CASE Crash
    BY <1>7, RestCrash
<1>8. CASE Yielded /\ \E w \in working : Overspend(w)
    BY <1>8, RestRuns
<1>9. CASE Yielded /\ Requests
    <2>1. CASE Pause \/ \E n \in Nodes : Approve(n)
        BY <1>9, <2>1, RestPauseApprove
    <2>2. CASE Cancel \/ Delete
        BY <1>9, <2>2, RestStop
    <2>3. CASE Resume
        BY <1>9, <2>3, RestResume DEF Orderly, AfterBoot
    <2> QED
        BY <1>9, <2>1, <2>2, <2>3, NoRerun DEF Requests
<1> QED
    BY <1>2, <1>3, <1>4, <1>5, <1>6, <1>7, <1>8, <1>9 DEF Next, EngineStep, Idle

\* tasks.create has queued the first kick.
LEMMA RestInit == Init => RestInv
<1> SUFFICES ASSUME Init PROVE RestInv
    OBVIOUS
<1>1. PICK b : b = Blank
    OBVIOUS
<1>2. /\ \A n \in Nodes : phase[n] = "pending"
      /\ q = <<b>> /\ working = {} /\ ~booting /\ Len(rt) = 1 /\ rt[1] = NewRuntime
      /\ tstatus = "queued" /\ cur = 1
    BY <1>1 DEF Init
<1>3. /\ SeqRange(q) = {b} /\ Len(q) = 1 /\ q[1] = b
      /\ b.k = "kick" /\ NewRuntime.pc = "idle" /\ NewRuntime.failed = FALSE
    <2>1. b.k = "kick" /\ NewRuntime.pc = "idle" /\ NewRuntime.failed = FALSE
        BY <1>1 DEF Blank, NewRuntime
    <2> QED
        BY <1>2, <2>1 DEF SeqRange
<1>4. Kicked /\ ~Failing
    BY <1>2, <1>3 DEF Kicked, Failing
<1>5. QueueOK(q, phase)
    BY <1>3 DEF QueueOK
<1>6. TaskOK
    BY <1>2, <1>3, <1>4, <1>5 DEF TaskOK
<1> QED
    BY <1>2, <1>3, <1>6 DEF RestInv, RunningOK, LateOK, BootOK, LookOK, Late

LEMMA RestAlways ==
    ASSUME Forward, NoGates
    PROVE  Spec /\ [][Orderly]_vars /\ [][AfterBoot]_vars /\ [][Uncrossed]_vars /\ [][CleanCrash]_vars
             => []RestInv
<1>1. /\ Inv /\ Inv' /\ RunsInv /\ DoneOK /\ Apart(working) /\ RestInv /\ [Next]_vars
      /\ [Orderly]_vars /\ [AfterBoot]_vars /\ [Uncrossed]_vars /\ [CleanCrash]_vars
      => RestInv'
    BY RestNext
<1> QED
    BY <1>1, RestInit, DoneAlways, ForwardRuns, InvAlways, PTL DEF Spec

\* When the engine has come to rest, without automatic gates and reruns, the
\* task's status is settled and what its phases justify, no phase is left
\* running and no runtime failed without being finalized: provided that no
\* request crosses the finalize that ends the task and that the sidecar does
\* not crash between the status of a settled task and what was still to do.
THEOREM RestSettled ==
    ASSUME Forward, NoGates
    PROVE  Spec /\ [][Orderly]_vars /\ [][AfterBoot]_vars /\ [][Uncrossed]_vars /\ [][CleanCrash]_vars
             => []RestIsSettled
<1>1. ASSUME Inv, RunsInv, RestInv
      PROVE  RestIsSettled
    <2> SUFFICES ASSUME Quiescent, alive PROVE RestIsSettled
        BY DEF RestIsSettled
    <2>1. q = <<>> /\ working = {} /\ ~booting /\ Len(q) = 0 /\ SeqRange(q) = {}
        BY DEF Quiescent, SeqRange
    <2>2. ~Waking /\ ~Kicked /\ ~Ending
        BY <2>1 DEF Waking, Kicked, Ending
    <2>3. Flying = {}
        BY <1>1, <2>1, <2>2 DEF RunsInv, HeldOK, Held, Taken
    <2>4. ~Looping /\ ~Goes
        <3>1. \A g \in 1..Len(rt) : rt[g].pc = "idle"
            BY DEF Quiescent
        <3>2. cur # 0 => cur \in 1..Len(rt) /\ rt[cur] \in Awake
            BY <1>1, Types, RuntimeOf
        <3> QED
            BY <3>1, <3>2 DEF Looping, Goes, Going, Awake
    <2>5. TaskOK /\ RunningOK
        BY <1>1 DEF RestInv
    <2>6. tstatus \in Settled /\ ~Failing
        BY <2>2, <2>3, <2>4, <2>5 DEF TaskOK
    <2>7. tstatus = "completed" => AllDone
        BY <2>5 DEF TaskOK
    <2>8. tstatus = "waiting_approval" => Waits
        BY <2>2, <2>5 DEF TaskOK
    <2>9. ~SomePhase(phase, "running")
        BY <2>2, <2>3, <2>5 DEF RunningOK, SomePhase
    <2> QED
        BY <2>6, <2>7, <2>8, <2>9 DEF RestIsSettled, Failing, AllDone, Waits
<1> QED
    BY <1>1, RestAlways, ForwardRuns, InvAlways, PTL

=============================================================================
