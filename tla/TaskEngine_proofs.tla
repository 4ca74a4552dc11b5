--------------------------- MODULE TaskEngine_proofs ---------------------------
(***************************************************************************)
(* Theorems about the task engine, for every workflow, cap, gate and       *)
(* number of requests and crashes.                                         *)
(*                                                                         *)
(* Inv is TypeOK with one strengthening: no runtime has a rescan pending   *)
(* while its loop is idle (Awake). It is inductive, one lemma per group of *)
(* actions, and gives TypeCorrect and WakeupsKept. BaseInv says who holds  *)
(* the project's own tree; with Inv it gives ClaimIsHeld.                  *)
(*                                                                         *)
(* RunsInv says how many runs there are, who knows them and who may start  *)
(* one. It takes hypotheses: the user's requests are in order and none of  *)
(* them is a rerun (Orderly, NoReruns), and gates loop back in the order   *)
(* LoopsInOrder says, or not at all (Forward). The README says what        *)
(* happens without them. A node run takes a slot, the one of its node,     *)
(* from its dispatch to the moment its runtime forgets it; the schedule    *)
(* loop takes slot 0 while its suspend or finalize is in the log's queue.  *)
(* HeldOK says that each slot is taken once, and the ones that the runtime *)
(* says are taken; LoopOK, DispOK and StopOK say what the loops and the    *)
(* runtimes of the task may do while a stop or an approval is being        *)
(* carried out.                                                            *)
(***************************************************************************)
EXTENDS TaskEngineProperties, SequenceTheorems, FiniteSetTheorems, WellFoundedInduction, TLAPS

\* A non-empty set of natural numbers has a least element.
LEMMA LeastExists ==
    ASSUME NEW S, S \subseteq Nat, S # {}
    PROVE  \E x \in S : \A y \in S : x <= y
<1> DEFINE Less == OpToRel(<, Nat)
<1>1. IsWellFoundedOn(Less, Nat)
    BY NatLessThanWellFounded
<1> HIDE DEF Less
<1>2. PICK x \in S : \A y \in S : <<y, x>> \notin Less
    BY <1>1, WFMin
<1>3. ASSUME NEW y \in S
      PROVE  x <= y
    <2>1. \A a, b \in Nat : a < b => <<a, b>> \in Less
        BY DEF Less, OpToRel
    <2>2. ~(y < x)
        BY <1>2, <2>1
    <2> QED
        BY <2>2
<1> QED
    BY <1>3

\* What the model's Least picks.
LEMMA LeastMember ==
    ASSUME NEW S, S \subseteq Nat, S # {}
    PROVE  /\ Least(S) \in S
           /\ \A y \in S : Least(S) <= y
<1>1. \E x \in S : \A y \in S : x <= y
    BY LeastExists
<1> QED
    BY <1>1 DEF Least

-----------------------------------------------------------------------------

\* A runtime that is asked to rescan has a loop to do it.
Awake == {r \in Runtime : r.rescan => r.pc # "idle"}

\* Replacing one element of a sequence, or none if there is no such element.
LEMMA ReplaceOne ==
    ASSUME NEW S, NEW R \in Seq(S), NEW g, NEW e, g \in 1..Len(R) => e \in S
    PROVE  [R EXCEPT ![g] = e] \in Seq(S) /\ Len([R EXCEPT ![g] = e]) = Len(R)
<1>1. CASE g \in 1..Len(R)
    BY <1>1, ExceptSeq
<1>2. CASE g \notin 1..Len(R)
    <2>1. [R EXCEPT ![g] = e] = R
        BY <1>2, LenProperties
    <2> QED
        BY <2>1
<1> QED
    BY <1>1, <1>2

\* A fresh runtime (ensureRuntime) is awake.
LEMMA NewRuntimeAwake == NewRuntime \in Awake
BY DEF NewRuntime, Awake, Runtime, LoopPc

\* ensureRuntime.
LEMMA EnsuredFacts ==
    ASSUME rt \in Seq(Awake), cur \in 0..Len(rt)
    PROVE  Ensured \in Seq(Awake) /\ EnsuredId \in 1..Len(Ensured) /\ Len(Ensured) >= Len(rt)
<1>1. Len(rt) \in Nat
    BY LenProperties
<1>2. CASE cur = 0
    BY <1>1, <1>2, NewRuntimeAwake, AppendProperties DEF Ensured, EnsuredId
<1>3. CASE cur # 0
    BY <1>1, <1>3 DEF Ensured, EnsuredId
<1> QED
    BY <1>2, <1>3

\* requestSchedule wakes the loop it asks.
LEMMA RequestFacts ==
    ASSUME NEW R \in Seq(Awake), NEW c
    PROVE  Request(R, c) \in Seq(Awake) /\ Len(Request(R, c)) = Len(R)
<1> DEFINE r == [R[c] EXCEPT !.rescan = TRUE, !.pc = IF R[c].pc = "idle" THEN "top" ELSE R[c].pc]
<1>1. ASSUME c \in 1..Len(R)
      PROVE  r \in Awake
    <2>1. R[c] \in Awake
        BY <1>1, ElementOfSeq
    <2> QED
        BY <2>1 DEF Awake, Runtime, LoopPc
<1>2. c # 0 => Request(R, c) = [R EXCEPT ![c] = r]
    BY DEF Request
<1> HIDE DEF r
<1>3. [R EXCEPT ![c] = r] \in Seq(Awake) /\ Len([R EXCEPT ![c] = r]) = Len(R)
    BY <1>1, ReplaceOne
<1>4. c = 0 => Request(R, c) = R
    BY DEF Request
<1> QED
    BY <1>2, <1>3, <1>4

\* The loop goes idle only when no rescan is asked for (runScheduleLoop's do/while).
LEMMA AfterOnceFacts ==
    ASSUME NEW R \in Seq(Awake), NEW g
    PROVE  AfterOnce(R, g) \in Seq(Awake) /\ Len(AfterOnce(R, g)) = Len(R)
<1> DEFINE r == [R[g] EXCEPT !.pc = IF R[g].rescan THEN "top" ELSE "idle", !.sr = 0, !.todo = {}, !.room = 0]
<1>1. ASSUME g \in 1..Len(R)
      PROVE  r \in Awake
    <2>1. R[g] \in Awake
        BY <1>1, ElementOfSeq
    <2> QED
        BY <2>1 DEF Awake, Runtime, LoopPc
<1>2. AfterOnce(R, g) = [R EXCEPT ![g] = r]
    BY DEF AfterOnce
<1> HIDE DEF r
<1> QED
    BY <1>1, <1>2, ReplaceOne

\* Changing one field of one runtime.
WithFailed(R, g, b) == [R EXCEPT ![g].failed = b]
WithPaused(R, g, b) == [R EXCEPT ![g].paused = b]
WithPc(R, g, p) == [R EXCEPT ![g].pc = p]
WithInFlight(R, g, n, t) == [R EXCEPT ![g].inFlight[n] = t]

\* Setting rt.failed keeps the runtimes well formed.
LEMMA FailedField ==
    ASSUME NEW R \in Seq(Awake), NEW g, NEW b \in BOOLEAN
    PROVE  WithFailed(R, g, b) \in Seq(Awake) /\ Len(WithFailed(R, g, b)) = Len(R)
<1> DEFINE r == [R[g] EXCEPT !.failed = b]
<1>1. g \in 1..Len(R) => R[g] \in Awake
    BY ElementOfSeq
<1>2. g \in 1..Len(R) => r \in Awake
    BY <1>1 DEF Awake, Runtime
<1>3. WithFailed(R, g, b) = [R EXCEPT ![g] = r]
    BY DEF WithFailed
<1> HIDE DEF r
<1> QED
    BY <1>2, <1>3, ReplaceOne

\* Setting rt.paused keeps the runtimes well formed.
LEMMA PausedField ==
    ASSUME NEW R \in Seq(Awake), NEW g, NEW b \in BOOLEAN
    PROVE  WithPaused(R, g, b) \in Seq(Awake) /\ Len(WithPaused(R, g, b)) = Len(R)
<1> DEFINE r == [R[g] EXCEPT !.paused = b]
<1>1. g \in 1..Len(R) => R[g] \in Awake
    BY ElementOfSeq
<1>2. g \in 1..Len(R) => r \in Awake
    BY <1>1 DEF Awake, Runtime
<1>3. WithPaused(R, g, b) = [R EXCEPT ![g] = r]
    BY DEF WithPaused
<1> HIDE DEF r
<1> QED
    BY <1>2, <1>3, ReplaceOne

\* A loop that moves on, and not to its end, stays awake.
LEMMA PcField ==
    ASSUME NEW R \in Seq(Awake), NEW g, NEW p \in LoopPc \ {"idle"}
    PROVE  WithPc(R, g, p) \in Seq(Awake) /\ Len(WithPc(R, g, p)) = Len(R)
<1> DEFINE r == [R[g] EXCEPT !.pc = p]
<1>1. g \in 1..Len(R) => R[g] \in Awake
    BY ElementOfSeq
<1>2. g \in 1..Len(R) => r \in Awake
    BY <1>1 DEF Awake, Runtime
<1>3. WithPc(R, g, p) = [R EXCEPT ![g] = r]
    BY DEF WithPc
<1> HIDE DEF r
<1> QED
    BY <1>2, <1>3, ReplaceOne

\* Claiming or releasing an in-flight entry keeps the runtimes well formed.
LEMMA InFlightField ==
    ASSUME NEW R \in Seq(Awake), NEW g, NEW n, NEW t \in Nat
    PROVE  WithInFlight(R, g, n, t) \in Seq(Awake) /\ Len(WithInFlight(R, g, n, t)) = Len(R)
<1> DEFINE r == [R[g] EXCEPT !.inFlight[n] = t]
<1>1. g \in 1..Len(R) => R[g] \in Awake
    BY ElementOfSeq
<1>2. g \in 1..Len(R) => r \in Awake
    BY <1>1 DEF Awake, Runtime
<1>3. WithInFlight(R, g, n, t) = [R EXCEPT ![g] = r]
    BY DEF WithInFlight
<1> HIDE DEF r
<1> QED
    BY <1>2, <1>3, ReplaceOne

\* The finally of executeRun.
LEMMA FinallyFacts ==
    ASSUME NEW R \in Seq(Awake), NEW n, NEW g, NEW c
    PROVE  Finally(R, n, g, c) \in Seq(Awake) /\ Len(Finally(R, n, g, c)) = Len(R)
<1> DEFINE X == WithInFlight(R, g, n, 0)
<1>1. X \in Seq(Awake) /\ Len(X) = Len(R)
    BY InFlightField
<1>2. Finally(R, n, g, c) = Request(X, c)
    BY DEF Finally, WithInFlight
<1> HIDE DEF X
<1> QED
    BY <1>1, <1>2, RequestFacts

\* executeRun's claim.
LEMMA ClaimedFacts ==
    ASSUME NEW R \in Seq(Awake), NEW n \in Nodes, disp \in [Nodes -> Nat]
    PROVE  Claimed(R, n) \in Seq(Awake) /\ Len(Claimed(R, n)) = Len(R)
<1> DEFINE t == disp[n] + 1
           g == EnsuredId
<1>1. t \in Nat
    OBVIOUS
<1>2. Claimed(R, n) = WithInFlight(R, g, n, t)
    BY DEF Claimed, WithInFlight
<1> HIDE DEF t, g
<1> QED
    BY <1>1, <1>2, InFlightField

-----------------------------------------------------------------------------

\* The folded task status is one of the engine's statuses.
LEMMA TaskFacts ==
    ASSUME tstatus \in TaskStatus, NEW s \in TaskStatus, SetTask(s)
    PROVE  tstatus' \in TaskStatus
BY DEF SetTask

\* The run log stays well formed when a run starts or changes status.
LEMMA RunsWithFacts ==
    ASSUME runs \in [Nodes -> Seq(RunRec)], NEW n, NEW v, NEW s \in RunStatus
    PROVE  RunsWith(n, v, s) \in [Nodes -> Seq(RunRec)]
<1> DEFINE L == [i \in 1..Len(runs[n]) |->
                    IF runs[n][i].ver = v /\ \A j \in 1..(i - 1) : runs[n][j].ver # v
                    THEN [runs[n][i] EXCEPT !.st = s]
                    ELSE runs[n][i]]
<1>1. ASSUME n \in Nodes
      PROVE  L \in Seq(RunRec)
    <2>1. runs[n] \in Seq(RunRec) /\ Len(runs[n]) \in Nat
        BY <1>1, LenProperties
    <2>2. ASSUME NEW i \in 1..Len(runs[n])
          PROVE  L[i] \in RunRec
        <3>1. runs[n][i] \in RunRec
            BY <2>1, ElementOfSeq
        <3>2. [runs[n][i] EXCEPT !.st = s] \in RunRec
            BY <3>1 DEF RunRec
        <3> QED
            BY <3>1, <3>2
    <2> HIDE DEF L
    <2>3. \A i \in 1..Len(runs[n]) : L[i] \in RunRec
        BY <2>2
    <2>4. L \in [1..Len(runs[n]) -> RunRec]
        BY <2>3 DEF L
    <2> QED
        BY <2>1, <2>4
<1>2. RunsWith(n, v, s) = IF ~alive THEN runs ELSE [runs EXCEPT ![n] = L]
    BY DEF RunsWith
<1> HIDE DEF L
<1> QED
    BY <1>1, <1>2

-----------------------------------------------------------------------------

\* The activation that only appends an event is well formed and holds no tree.
LEMMA BlankFacts == Blank \in Act /\ Blank.tree = "none"
BY DEF Blank, Act, ActRec, ActKinds, Verdicts, TaskKinds

\* The activation executeRun starts with is well formed.
LEMMA RunActFacts ==
    ASSUME NEW n \in Nodes, NEW v \in Nat, NEW auto \in BOOLEAN, disp \in [Nodes -> Nat],
           EnsuredId \in Nat
    PROVE  RunAct(n, v, auto) \in Act /\ RunAct(n, v, auto).tree = "none"
<1> DEFINE t == disp[n] + 1
           g == EnsuredId
           a == [Blank EXCEPT !.k = "run1", !.n = n, !.v = v, !.t = t, !.g = g, !.auto = auto]
<1>1. RunAct(n, v, auto) = a
    BY DEF RunAct
<1>2. t \in Nat /\ g \in Nat /\ n # 0
    BY WorkflowAssumption
<1> HIDE DEF t, g
<1>3. a \in ActRec
    BY <1>2 DEF Blank, ActRec, ActKinds, Verdicts
<1>4. a.n = n /\ a.k = "run1" /\ a.tree = "none"
    BY DEF Blank
<1> HIDE DEF a
<1> QED
    BY <1>1, <1>2, <1>3, <1>4 DEF Act

\* An activation about a node goes on to another step of it.
StepTo(a, k, left, i) == [a EXCEPT !.k = k, !.left = left, !.i = i]

Elsewhere == ActKinds \ {"fin", "cfin", "done1", "done2"}

\* An activation that goes on to its next await stays well formed.
LEMMA StepToFacts ==
    ASSUME NEW a \in Act, a.n # 0, NEW k \in Elsewhere, NEW left \in SUBSET Nodes, NEW i \in Nat
    PROVE  StepTo(a, k, left, i) \in Act /\ StepTo(a, k, left, i).tree = a.tree
<1> DEFINE b == StepTo(a, k, left, i)
<1>1. b \in ActRec
    BY DEF Act, ActRec, StepTo, Elsewhere
<1>2. b.n = a.n /\ b.k = k /\ b.tree = a.tree
    BY DEF Act, ActRec, StepTo
<1> HIDE DEF b
<1>3. b \in Act
    BY <1>1, <1>2 DEF Act, Elsewhere
<1> QED
    BY <1>2, <1>3 DEF b

\* The activation rerunPhase starts with is well formed.
LEMMA RerunActFacts ==
    ASSUME NEW n \in Nodes, NEW own \in [n : Nodes \cup {0}, g : Nat]
    PROVE  RerunAct(n, own) \in Act /\ RerunAct(n, own).tree = "none"
BY WorkflowAssumption DEF RerunAct, Blank, Act, ActRec, ActKinds, Verdicts, TaskKinds

\* Taking the head of the log's queue and putting something behind the rest.
LEMMA QueueFacts ==
    ASSUME q \in Seq(Act), NEW k, At(k)
    PROVE  /\ Head(q) \in Act /\ Head(q).k = k /\ Tail(q) \in Seq(Act)
           /\ \A a \in Act : Append(Tail(q), a) \in Seq(Act)
BY HeadTailProperties, AppendProperties DEF At

\* The loops over indices and nodes.
LEMMA LeastNode ==
    ASSUME NEW S \in SUBSET Nodes, S # {}
    PROVE  Least(S) \in S /\ Least(S) \in Nodes
BY LeastMember, WorkflowAssumption

\* rerunPhase's walk over the downstream nodes stays well formed.
LEMMA InvalidateFacts ==
    ASSUME NEW a \in Act, a.n # 0, NEW R \in [Nodes -> Seq(RunRec)], NEW left \in SUBSET Nodes
    PROVE  Invalidate(a, R, left) \in Act /\ Invalidate(a, R, left).tree = a.tree
<1> DEFINE d == Least(left)
           I == {i \in Indices(R, d) : i > a.i /\ R[d][i].st # "superseded"}
           e == StepTo(a, "rr5", {}, 0)
           f == StepTo(a, "rr4", left, 0)
           g == StepTo(a, "rr3", left, Least(I))
<1>1. Invalidate(a, R, left) = IF left = {} THEN e ELSE IF I = {} THEN f ELSE g
    BY DEF Invalidate, StepTo
<1>2. left # {} /\ I # {} => Least(I) \in Nat
    <2> SUFFICES ASSUME left # {}, I # {} PROVE Least(I) \in Nat
        OBVIOUS
    <2>1. d \in Nodes
        BY LeastNode
    <2>2. Len(R[d]) \in Nat
        BY <2>1, LenProperties
    <2>3. I \subseteq Nat
        BY <2>2 DEF Indices
    <2> QED
        BY <2>3, LeastMember
<1> HIDE DEF I
<1>3. {"rr3", "rr4", "rr5"} \subseteq Elsewhere
    BY DEF ActKinds, Elsewhere
<1>4. e \in Act /\ e.tree = a.tree
    BY <1>3, StepToFacts
<1>5. f \in Act /\ f.tree = a.tree
    BY <1>3, StepToFacts
<1>6. left # {} /\ I # {} => g \in Act /\ g.tree = a.tree
    BY <1>2, <1>3, StepToFacts
<1> HIDE DEF e, f, g
<1> QED
    BY <1>1, <1>4, <1>5, <1>6

\* rerunPhase's walk over the node's own runs stays well formed.
LEMMA SupersedeOwnFacts ==
    ASSUME NEW a \in Act, a.n # 0, a.k = "rr1" \/ a.k = "rr2", NEW R \in [Nodes -> Seq(RunRec)]
    PROVE  SupersedeOwn(a, R) \in Act /\ SupersedeOwn(a, R).tree = a.tree
<1> DEFINE I == {i \in Indices(R, a.n) : i > a.i /\ R[a.n][i].st \in {"completed", "waiting_approval"}}
           b == StepTo(a, a.k, a.left, 0)
           e == StepTo(a, "rr2", a.left, Least(I))
<1>2. /\ a \in ActRec /\ a.n \in Nodes /\ a.left \in SUBSET Nodes
      /\ a.k \in Elsewhere /\ "rr2" \in Elsewhere
    BY DEF Act, ActRec, ActKinds, Elsewhere
<1>3. [a EXCEPT !.i = 0] = b /\ [a EXCEPT !.k = "rr2", !.i = Least(I)] = e
    BY <1>2 DEF ActRec, StepTo
<1>1. SupersedeOwn(a, R) = IF I = {} THEN Invalidate(b, R, Downstream(a.n)) ELSE e
    BY <1>3 DEF SupersedeOwn
<1>4. b \in Act /\ b.tree = a.tree
    BY <1>2, StepToFacts
<1>5. b.n # 0
    BY <1>2 DEF ActRec, StepTo
<1>6. Invalidate(b, R, Downstream(a.n)) \in Act /\ Invalidate(b, R, Downstream(a.n)).tree = a.tree
    <2>1. Downstream(a.n) \in SUBSET Nodes
        BY DEF Downstream
    <2> HIDE DEF b
    <2> QED
        BY <1>4, <1>5, <2>1, InvalidateFacts
<1>7. I # {} => e \in Act /\ e.tree = a.tree
    <2> SUFFICES ASSUME I # {} PROVE e \in Act /\ e.tree = a.tree
        OBVIOUS
    <2>1. Len(R[a.n]) \in Nat
        BY <1>2, LenProperties
    <2>2. I \subseteq Nat
        BY <2>1 DEF Indices
    <2>3. Least(I) \in Nat
        BY <2>2, LeastMember
    <2> HIDE DEF I
    <2> QED
        BY <1>2, <2>3, StepToFacts
<1> HIDE DEF b, e, I
<1> QED
    BY <1>1, <1>6, <1>7

\* A node run goes on: nothing but the step it is at changes, or it gives back
\* its tree, or it begins its turn, or the turn ends.
GoTo(a, k) == [a EXCEPT !.k = k]

\* An activation that goes to another await, its data unchanged, stays well formed.
LEMMA GoToFacts ==
    ASSUME NEW a \in Act, a.n # 0, NEW k \in ActKinds \ {"fin", "cfin"},
           k \in {"done1", "done2"} => a.out \in {"completed", "waiting_approval", "failed"}
    PROVE  GoTo(a, k) \in Act /\ GoTo(a, k).tree = a.tree
<1> DEFINE b == GoTo(a, k)
<1>1. b \in ActRec
    BY DEF Act, ActRec, GoTo
<1>2. b.n = a.n /\ b.k = k /\ b.tree = a.tree /\ b.out = a.out
    BY DEF Act, ActRec, GoTo
<1> HIDE DEF b
<1>3. b \in Act
    BY <1>1, <1>2 DEF Act
<1> QED
    BY <1>2, <1>3 DEF b

GiveBack(a, k, left, i) == [a EXCEPT !.k = k, !.tree = "none", !.left = left, !.i = i]

\* A run that has given its tree back is well formed and holds none.
LEMMA GiveBackFacts ==
    ASSUME NEW a \in Act, a.n # 0, NEW k \in Elsewhere, NEW left \in SUBSET Nodes, NEW i \in Nat
    PROVE  GiveBack(a, k, left, i) \in Act /\ GiveBack(a, k, left, i).tree = "none"
<1> DEFINE b == GiveBack(a, k, left, i)
<1>1. b \in ActRec
    BY DEF Act, ActRec, GiveBack, Elsewhere
<1>2. b.n = a.n /\ b.k = k /\ b.tree = "none"
    BY DEF Act, ActRec, GiveBack
<1> HIDE DEF b
<1>3. b \in Act
    BY <1>1, <1>2 DEF Act, Elsewhere
<1> QED
    BY <1>2, <1>3 DEF b

BeginTurn(a, t, ins) == [a EXCEPT !.k = "llm", !.tree = t, !.ins = ins]

\* A run that enters its turn with a tree and its inputs is well formed.
LEMMA BeginTurnFacts ==
    ASSUME NEW a \in Act, a.n # 0, NEW t \in {"own", "base", "shared"}, NEW ins \in [Nodes -> Nat]
    PROVE  BeginTurn(a, t, ins) \in Act /\ BeginTurn(a, t, ins).tree = t
<1> DEFINE b == BeginTurn(a, t, ins)
<1>1. b \in ActRec
    BY DEF Act, ActRec, BeginTurn, ActKinds
<1>2. b.n = a.n /\ b.k = "llm" /\ b.tree = t
    BY DEF Act, ActRec, BeginTurn
<1> HIDE DEF b
<1>3. b \in Act
    BY <1>1, <1>2 DEF Act
<1> QED
    BY <1>2, <1>3 DEF b

EndTurn(a, out, vd) == [a EXCEPT !.k = "done1", !.out = out, !.verdict = vd]

\* A run that leaves its turn with an outcome is well formed.
LEMMA EndTurnFacts ==
    ASSUME NEW a \in Act, a.n # 0, NEW out \in {"completed", "waiting_approval", "failed"},
           NEW vd \in Verdicts
    PROVE  EndTurn(a, out, vd) \in Act /\ EndTurn(a, out, vd).tree = a.tree
<1> DEFINE b == EndTurn(a, out, vd)
<1>1. b \in ActRec
    BY DEF Act, ActRec, EndTurn, ActKinds, RunStatus
<1>2. b.n = a.n /\ b.k = "done1" /\ b.tree = a.tree /\ b.out = out
    BY DEF Act, ActRec, EndTurn
<1> HIDE DEF b
<1>3. b \in Act
    BY <1>1, <1>2 DEF Act
<1> QED
    BY <1>2, <1>3 DEF b

\* A node run is about a node.
LEMMA OfNode ==
    ASSUME NEW a \in Act, a.k \notin TaskKinds
    PROVE  a.n \in Nodes /\ a.n # 0
BY WorkflowAssumption DEF Act, ActRec

\* The activations that settle the task.
LEMMA SuspendAct ==
    ASSUME NEW g \in Nat
    PROVE  [Blank EXCEPT !.k = "susp", !.g = g] \in Act
<1> DEFINE a == [Blank EXCEPT !.k = "susp", !.g = g]
<1>1. a \in ActRec
    BY DEF Blank, ActRec, ActKinds, Verdicts
<1>2. a.n = 0 /\ a.k = "susp" /\ a.tree = "none"
    BY DEF Blank
<1> HIDE DEF a
<1> QED
    BY <1>1, <1>2 DEF Act, TaskKinds, a

\* finalize's activation is well formed.
LEMMA FinalizeAct ==
    ASSUME NEW g \in Nat, NEW s, s \in {"completed", "waiting_approval", "failed"}
    PROVE  [Blank EXCEPT !.k = "fin", !.g = g, !.out = s] \in Act
<1> DEFINE a == [Blank EXCEPT !.k = "fin", !.g = g, !.out = s]
<1>1. a \in ActRec
    BY DEF Blank, ActRec, ActKinds, Verdicts, RunStatus
<1>2. a.n = 0 /\ a.k = "fin" /\ a.tree = "none" /\ a.out = s
    BY DEF Blank
<1> HIDE DEF a
<1> QED
    BY <1>1, <1>2 DEF Act, TaskKinds, a

\* The activation cancelTask finalizes with is well formed.
LEMMA CancelAct == [Blank EXCEPT !.k = "cfin", !.out = "failed"] \in Act
<1> DEFINE a == [Blank EXCEPT !.k = "cfin", !.out = "failed"]
<1>1. a \in ActRec
    BY DEF Blank, ActRec, ActKinds, Verdicts, RunStatus
<1>2. a.n = 0 /\ a.k = "cfin" /\ a.tree = "none" /\ a.out = "failed"
    BY DEF Blank
<1> HIDE DEF a
<1> QED
    BY <1>1, <1>2 DEF Act, TaskKinds, a

\* The activation that appends task.deleted is well formed.
LEMMA DeleteAct == [Blank EXCEPT !.k = "del"] \in Act
<1> DEFINE a == [Blank EXCEPT !.k = "del"]
<1>1. a \in ActRec
    BY DEF Blank, ActRec, ActKinds, Verdicts, RunStatus
<1>2. a.n = 0 /\ a.k = "del" /\ a.tree = "none"
    BY DEF Blank
<1> HIDE DEF a
<1> QED
    BY <1>1, <1>2 DEF Act, TaskKinds, a

\* The activations of resumeOnBoot.
LEMMA BootAct ==
    ASSUME NEW n \in Nodes, NEW v \in Nat,
           NEW b, b \in {[Blank EXCEPT !.k = "b1", !.n = n, !.v = v], [Blank EXCEPT !.k = "b2", !.n = n]}
    PROVE  b \in Act /\ b.tree = "none"
<1>1. b \in ActRec
    <2>1. CASE b = [Blank EXCEPT !.k = "b1", !.n = n, !.v = v]
        BY <2>1 DEF Blank, ActRec, ActKinds, Verdicts
    <2>2. CASE b = [Blank EXCEPT !.k = "b2", !.n = n]
        BY <2>2 DEF Blank, ActRec, ActKinds, Verdicts
    <2> QED
        BY <2>1, <2>2
<1>2. b.n = n /\ b.k \in {"b1", "b2"} /\ b.tree = "none"
    BY DEF Blank
<1>3. n # 0
    BY WorkflowAssumption
<1> QED
    BY <1>1, <1>2, <1>3 DEF Act

\* resumeOnBoot's next activation is well formed and holds no tree.
LEMMA BootNextFacts ==
    ASSUME runs \in [Nodes -> Seq(RunRec)], NEW ph, NEW m
    PROVE  BootNext(ph, m) \in Act /\ BootNext(ph, m).tree = "none"
<1> DEFINE S == {n \in Nodes : n > m /\ ph[n] = "running"}
           n == Least(S)
           l == Len(runs[n])
           v == runs[n][l].ver
           e == [Blank EXCEPT !.k = "b1", !.n = n, !.v = v]
           f == [Blank EXCEPT !.k = "b2", !.n = n]
<1>1. CASE S = {}
    BY <1>1 DEF BootNext, Blank, Act, ActRec, ActKinds, Verdicts, TaskKinds
<1>2. CASE S # {}
    <2>1. n \in Nodes
        BY <1>2, LeastNode
    <2>2. runs[n] \in Seq(RunRec) /\ l \in Nat
        BY <2>1, LenProperties
    <2>3. l > 0 => v \in Nat
        <3>1. l > 0 => runs[n][l] \in RunRec
            BY <2>2, ElementOfSeq
        <3> QED
            BY <3>1 DEF RunRec
    <2>4. \/ l > 0 /\ BootNext(ph, m) = e
          \/ BootNext(ph, m) = f
        BY <1>2 DEF BootNext
    <2> HIDE DEF n, l, S, v
    <2>5. l > 0 => e \in Act /\ e.tree = "none"
        BY <2>1, <2>3, BootAct
    <2>6. f \in Act /\ f.tree = "none"
        BY <2>1, BootAct
    <2> HIDE DEF e, f
    <2> QED
        BY <2>4, <2>5, <2>6
<1> QED
    BY <1>1, <1>2

\* gatherUpstream reads a version.
LEMMA LatestDoneFacts ==
    ASSUME runs \in [Nodes -> Seq(RunRec)], NEW n \in Nodes
    PROVE  LatestDone(n) \in Nat
<1> DEFINE S == HasRun(n, "completed")
           l == Len(runs[n])
<1>1. runs[n] \in Seq(RunRec) /\ l \in Nat
    BY LenProperties
<1>2. S \subseteq 1..l
    BY DEF HasRun, Indices
<1>3. CASE S # {}
    <2> DEFINE D == {l - i : i \in S}
    <2> HIDE DEF S
    <2>0. \A i \in S : l - i \in Nat /\ i \in Nat
        <3>1. \A i \in 1..l : l - i \in Nat /\ i \in Nat
            BY <1>1
        <3> HIDE DEF l
        <3> QED
            BY <1>2, <3>1
    <2> HIDE DEF l
    <2>1. D \subseteq Nat /\ D # {}
        BY <1>3, <2>0
    <2>2. PICK x \in D : \A y \in D : x <= y
        BY <2>1, LeastExists
    <2>3. PICK i \in S : x = l - i
        OBVIOUS
    <2>4. \A j \in S : j <= i
        <3> SUFFICES ASSUME NEW j \in S PROVE j <= i
            OBVIOUS
        <3>1. l - i <= l - j
            BY <2>2, <2>3
        <3> QED
            BY <1>1, <2>0, <3>1
    <2>5. (CHOOSE i0 \in S : \A j \in S : j <= i0) \in S
        BY <2>3, <2>4
    <2> DEFINE c == CHOOSE i0 \in S : \A j \in S : j <= i0
    <2>6. c \in 1..l
        BY <1>2, <2>5
    <2>7. runs[n][c] \in RunRec
        BY <1>1, <2>6, ElementOfSeq DEF l
    <2>8. LatestDone(n) = runs[n][c].ver
        BY <1>3 DEF LatestDone, S
    <2> QED
        BY <2>7, <2>8 DEF RunRec
<1>4. CASE S = {}
    BY <1>4 DEF LatestDone
<1> QED
    BY <1>3, <1>4

\* The room left under the concurrency cap is a number.
LEMMA CapacityFacts ==
    ASSUME NEW r
    PROVE  Capacity(r) \in Nat /\ Startable(r) \in SUBSET Nodes
<1>1. IsFiniteSet(InFlightOf(r))
    BY WorkflowAssumption, FS_Subset DEF InFlightOf
<1>2. Cardinality(InFlightOf(r)) \in Nat
    BY <1>1, FS_CardinalityType
<1> QED
    BY <1>2, EngineAssumption DEF Capacity, Startable, Runnable

\* What finalize emits is a task status.
LEMMA FinalStatusFacts ==
    ASSUME ~WorkLeft
    PROVE  FinalStatus \in {"completed", "waiting_approval", "failed"}
BY DEF WorkLeft, FinalStatus, SettledStatus

\* The nodes a failure or an invalidation still has to visit are nodes.
LEMMA StillPendingFacts ==
    ASSUME NEW S \in SUBSET Nodes
    PROVE  StillPending(S) \in SUBSET Nodes
BY DEF StillPending

-----------------------------------------------------------------------------

\* The type invariant, with the loops awake: what every step preserves.
RtOK == rt \in Seq(Awake) /\ cur \in 0..Len(rt)

Inv == LogOK /\ ActsOK /\ RtOK /\ RestOK

\* The activations that settle the task.
LEMMA SettlingActions ==
    ASSUME Inv, Kick \/ Suspend \/ Finalize \/ CancelFinalize \/ Tombstone \/ BudgetReported
    PROVE  Inv'
<1> USE DEF Inv
<1>Kick. ASSUME Kick
      PROVE  Inv'
    <2>log. LogOK'
        BY <1>Kick, TaskFacts DEF Kick, TaskStatus, LogOK, log
    <2>acts. ActsOK'
        BY <1>Kick, QueueFacts DEF Kick, ActsOK
    <2>rt. RtOK'
        BY <1>Kick, RequestFacts DEF Kick, RtOK
    <2>rest. RestOK'
        BY <1>Kick DEF Kick, RestOK, tree, ctl
    <2> QED
        BY <2>log, <2>acts, <2>rt, <2>rest DEF Inv
<1>Suspend. ASSUME Suspend
      PROVE  Inv'
    <2>log. LogOK'
        BY <1>Suspend, TaskFacts DEF Suspend, TaskStatus, LogOK, log
    <2>acts. ActsOK'
        BY <1>Suspend, QueueFacts DEF Suspend, ActsOK
    <2>rt. RtOK'
        BY <1>Suspend, AfterOnceFacts DEF Suspend, RtOK
    <2>rest. RestOK'
        BY <1>Suspend DEF Suspend, RestOK, tree, ctl
    <2> QED
        BY <2>log, <2>acts, <2>rt, <2>rest DEF Inv
<1>Fin. ASSUME Finalize
      PROVE  Inv'
    <2>1. Head(q) \in Act /\ Head(q).k = "fin" /\ Tail(q) \in Seq(Act)
        BY <1>Fin, QueueFacts DEF Finalize, ActsOK
    <2>2. Head(q).out \in {"completed", "waiting_approval", "failed"}
        BY <2>1 DEF Act
    <2>log. LogOK'
        BY <1>Fin, <2>2 DEF Finalize, SetTask, TaskStatus, LogOK, log
    <2>acts. ActsOK'
        BY <1>Fin, <2>1 DEF Finalize, ActsOK
    <2>rt. RtOK'
        BY <1>Fin, AfterOnceFacts, LenProperties DEF Finalize, Dropped, RtOK
    <2>rest. RestOK'
        BY <1>Fin DEF Finalize, Dropped, RestOK, tree, ctl
    <2> QED
        BY <2>log, <2>acts, <2>rt, <2>rest DEF Inv
<1>Cfin. ASSUME CancelFinalize
      PROVE  Inv'
    <2>1. Head(q) \in Act /\ Head(q).k = "cfin" /\ Tail(q) \in Seq(Act)
        BY <1>Cfin, QueueFacts DEF CancelFinalize, ActsOK
    <2>2. Head(q).out \in {"completed", "waiting_approval", "failed"}
        BY <2>1 DEF Act
    <2>log. LogOK'
        BY <1>Cfin, <2>2 DEF CancelFinalize, SetTask, TaskStatus, LogOK, log
    <2>acts. ActsOK'
        BY <1>Cfin, <2>1 DEF CancelFinalize, ActsOK
    <2>rt. RtOK'
        BY <1>Cfin, LenProperties DEF CancelFinalize, Dropped, RtOK
    <2>rest. RestOK'
        BY <1>Cfin DEF CancelFinalize, Dropped, RestOK, tree, ctl
    <2> QED
        BY <2>log, <2>acts, <2>rt, <2>rest DEF Inv
<1>Tomb. ASSUME Tombstone
      PROVE  Inv'
    <2>log. LogOK'
        BY <1>Tomb DEF Tombstone, LogOK, log
    <2>acts. ActsOK'
        BY <1>Tomb, QueueFacts DEF Tombstone, ActsOK
    <2>rt. RtOK'
        BY <1>Tomb DEF Tombstone, RtOK
    <2>rest. RestOK'
        BY <1>Tomb DEF Tombstone, RestOK, tree, ctl
    <2> QED
        BY <2>log, <2>acts, <2>rt, <2>rest DEF Inv
<1>Report. ASSUME BudgetReported
      PROVE  Inv'
    <2>log. LogOK'
        BY <1>Report DEF BudgetReported, LogOK, log
    <2>acts. ActsOK'
        BY <1>Report, QueueFacts DEF BudgetReported, ActsOK
    <2>rt. RtOK'
        BY <1>Report, FinallyFacts DEF BudgetReported, RtOK
    <2>rest. RestOK'
        BY <1>Report DEF BudgetReported, RestOK, tree, ctl
    <2> QED
        BY <2>log, <2>acts, <2>rt, <2>rest DEF Inv
<1> QED
    BY <1>Kick, <1>Suspend, <1>Fin, <1>Cfin, <1>Tomb, <1>Report

\* The schedule loop.
LEMMA LoopActions ==
    ASSUME Inv, NEW g \in 1..Len(rt),
           \/ Top(g) \/ Integrate(g) \/ CheckBudget(g) \/ Reported(g)
           \/ Ready(g) \/ Dispatch(g) \/ Settle(g)
    PROVE  Inv'
<1> USE DEF Inv
<1>Top. ASSUME Top(g)
      PROVE  Inv'
    <2>log. LogOK'
        BY <1>Top DEF Top, LogOK, log
    <2>acts. ActsOK'
        BY <1>Top DEF Top, ActsOK
    <2>rt. RtOK'
        <3> DEFINE R == Cleared(g)
        <3>1. rt[g] \in Awake /\ cur \in Nat /\ Len(rt) \in Nat
            BY ElementOfSeq, LenProperties DEF RtOK
        <3>2. R \in Seq(Awake) /\ Len(R) = Len(rt)
            <4> DEFINE r == [rt[g] EXCEPT !.rescan = FALSE, !.sr = cur]
            <4>1. r \in Awake
                BY <3>1 DEF Awake, Runtime
            <4>2. R = [rt EXCEPT ![g] = r]
                BY DEF Cleared
            <4> HIDE DEF r
            <4> QED
                BY <4>1, <4>2, ReplaceOne DEF RtOK
        <3>3. /\ cur' = cur
              /\ rt' \in {AfterOnce(R, g), WithPc(R, g, "integrate"), WithPc(R, g, "check")}
            BY <1>Top DEF Top, WithPc
        <3> HIDE DEF R
        <3>4. rt' \in Seq(Awake) /\ Len(rt') = Len(rt)
            BY <3>2, <3>3, AfterOnceFacts, PcField DEF LoopPc
        <3> QED
            BY <3>3, <3>4 DEF RtOK
    <2>rest. RestOK'
        BY <1>Top DEF Top, RestOK, tree, ctl
    <2> QED
        BY <2>log, <2>acts, <2>rt, <2>rest DEF Inv
<1>Integrate. ASSUME Integrate(g)
      PROVE  Inv'
    <2>log. LogOK'
        BY <1>Integrate DEF Integrate, LogOK, log
    <2>acts. ActsOK'
        BY <1>Integrate DEF Integrate, ActsOK
    <2>rt. RtOK'
        <3>1. CASE rt' = WithPc(rt, g, "check")
            BY <1>Integrate, <3>1, PcField DEF Integrate, RtOK, LoopPc
        <3>2. CASE \E rest \in SUBSET unmerged :
                     rt' = [rt EXCEPT ![rt[g].sr].paused = @ \/ rest # {}, ![g].pc = "check"]
            <4>1. PICK rest \in SUBSET unmerged :
                    rt' = [rt EXCEPT ![rt[g].sr].paused = @ \/ rest # {}, ![g].pc = "check"]
                BY <3>2
            <4> DEFINE h == rt[g].sr
                       b == rt[h].paused \/ rest # {}
                       R == WithPaused(rt, h, b)
            <4>2. rt' = WithPc(R, g, "check")
                BY <4>1 DEF WithPc, WithPaused
            <4>3. b \in BOOLEAN
                OBVIOUS
            <4> HIDE DEF h, b
            <4>4. R \in Seq(Awake) /\ Len(R) = Len(rt)
                BY <4>3, PausedField DEF RtOK
            <4> HIDE DEF R
            <4>5. rt' \in Seq(Awake) /\ Len(rt') = Len(rt)
                BY <4>2, <4>4, PcField DEF LoopPc
            <4> QED
                BY <1>Integrate, <4>5 DEF Integrate, RtOK
        <3> QED
            BY <1>Integrate, <3>1, <3>2 DEF Integrate, WithPc
    <2>rest. RestOK'
        BY <1>Integrate DEF Integrate, RestOK, tree, ctl
    <2> QED
        BY <2>log, <2>acts, <2>rt, <2>rest DEF Inv
<1>CheckBudget. ASSUME CheckBudget(g)
      PROVE  Inv'
    <2>log. LogOK'
        BY <1>CheckBudget DEF CheckBudget, LogOK, log
    <2>acts. ActsOK'
        BY <1>CheckBudget DEF CheckBudget, ActsOK
    <2>rt. RtOK'
        <3> DEFINE h == rt[g].sr
        <3>1. /\ cur' = cur
              /\ \/ rt' = WithPc(rt, g, "ready")
                 \/ \E over \in OverBudget :
                       \/ rt' = WithPc(WithPaused(rt, h, over), g, "ready")
                       \/ rt' = WithPc(WithPaused(rt, h, over), g, "report")
            BY <1>CheckBudget DEF CheckBudget, WithPc, WithPaused
        <3>2. OverBudget \subseteq BOOLEAN
            BY DEF OverBudget
        <3> HIDE DEF h
        <3>3. \A over \in BOOLEAN : /\ WithPaused(rt, h, over) \in Seq(Awake)
                                    /\ Len(WithPaused(rt, h, over)) = Len(rt)
            BY PausedField DEF RtOK
        <3>4. rt' \in Seq(Awake) /\ Len(rt') = Len(rt)
            BY <3>1, <3>2, <3>3, PcField DEF LoopPc, RtOK
        <3> QED
            BY <3>1, <3>4 DEF RtOK
    <2>rest. RestOK'
        BY <1>CheckBudget DEF CheckBudget, RestOK, tree, ctl
    <2> QED
        BY <2>log, <2>acts, <2>rt, <2>rest DEF Inv
<1>Reported. ASSUME Reported(g)
      PROVE  Inv'
    <2>log. LogOK'
        BY <1>Reported DEF Reported, LogOK, log
    <2>acts. ActsOK'
        BY <1>Reported DEF Reported, ActsOK
    <2>rt. RtOK'
        <3>1. rt' = WithPc(rt, g, "ready") /\ cur' = cur
            BY <1>Reported DEF Reported, WithPc
        <3> QED
            BY <3>1, PcField DEF LoopPc, RtOK
    <2>rest. RestOK'
        BY <1>Reported DEF Reported, RestOK, tree, ctl
    <2> QED
        BY <2>log, <2>acts, <2>rt, <2>rest DEF Inv
<1>Ready. ASSUME Ready(g)
      PROVE  Inv'
    <2>log. LogOK'
        BY <1>Ready DEF Ready, LogOK, log
    <2>acts. ActsOK'
        BY <1>Ready DEF Ready, ActsOK
    <2>rt. RtOK'
        <3> DEFINE todo == Startable(rt[rt[g].sr])
                   room == Capacity(rt[rt[g].sr])
                   r == [rt[g] EXCEPT !.pc = "dispatch", !.todo = todo, !.room = room]
        <3>1. rt' = [rt EXCEPT ![g] = r] /\ cur' = cur
            BY <1>Ready DEF Ready
        <3>2. todo \in SUBSET Nodes /\ room \in Nat
            BY CapacityFacts
        <3>3. rt[g] \in Awake
            BY ElementOfSeq DEF RtOK
        <3> HIDE DEF todo, room
        <3>4. r \in Awake
            BY <3>2, <3>3 DEF Awake, Runtime, LoopPc
        <3> HIDE DEF r
        <3> QED
            BY <3>1, <3>4, ReplaceOne DEF RtOK
    <2>rest. RestOK'
        BY <1>Ready DEF Ready, RestOK, tree, ctl
    <2> QED
        BY <2>log, <2>acts, <2>rt, <2>rest DEF Inv
<1>Dispatch. ASSUME Dispatch(g)
      PROVE  Inv'
    <2> DEFINE n == Least(rt[g].todo)
    <2>1. rt[g] \in Awake /\ n \in Nodes
        <3>1. rt[g] \in Awake
            BY ElementOfSeq DEF RtOK
        <3>2. rt[g].todo \in SUBSET Nodes /\ rt[g].todo # {}
            BY <1>Dispatch, <3>1 DEF Dispatch, Awake, Runtime
        <3> QED
            BY <3>1, <3>2, LeastNode
    <2>2. PICK v \in 1..(Len(runs[n]) + 1) :
            /\ q' = Append(q, RunAct(n, v, FALSE))
            /\ rt' = [Claimed(Ensured, n) EXCEPT ![g].todo = @ \ {n}, ![g].room = @ - 1]
            /\ cur' = EnsuredId
            /\ disp' = [disp EXCEPT ![n] = @ + 1]
        BY <1>Dispatch DEF Dispatch
    <2>3. /\ v \in Nat /\ disp \in [Nodes -> Nat]
          /\ Ensured \in Seq(Awake) /\ EnsuredId \in 1..Len(Ensured)
          /\ Len(Ensured) >= Len(rt) /\ Len(Ensured) \in Nat /\ Len(rt) \in Nat
        <3>1. Len(runs[n]) \in Nat
            BY <2>1, LenProperties DEF LogOK
        <3> QED
            BY <3>1, EnsuredFacts, LenProperties DEF RtOK, RestOK
    <2> HIDE DEF n
    <2>log. LogOK'
        BY <1>Dispatch DEF Dispatch, LogOK, log
    <2>acts. ActsOK'
        <3>1. RunAct(n, v, FALSE) \in Act
            <4>1. EnsuredId \in Nat /\ FALSE \in BOOLEAN
                BY <2>3
            <4> QED
                BY <2>1, <2>3, <4>1, RunActFacts
        <3> QED
            BY <1>Dispatch, <2>2, <3>1, AppendProperties DEF Dispatch, ActsOK
    <2>rt. RtOK'
        <3> DEFINE R == Claimed(Ensured, n)
                   r == [R[g] EXCEPT !.todo = @ \ {n}, !.room = @ - 1]
        <3>1. R \in Seq(Awake) /\ Len(R) = Len(Ensured) /\ g \in 1..Len(R)
            BY <2>1, <2>3, ClaimedFacts
        <3>2. R[g].room = rt[g].room /\ R[g] \in Awake
            <4>1. Ensured[g] = rt[g] /\ Ensured[g] \in Awake
                BY <2>1, AppendProperties, NewRuntimeAwake DEF RtOK, Ensured
            <4>2. g \in 1..Len(Ensured)
                BY <2>3
            <4>3. R[g] = Ensured[g] \/ R[g] = [Ensured[g] EXCEPT !.inFlight[n] = disp[n] + 1]
                BY <2>3, <4>2 DEF Claimed
            <4>4. R[g].room = Ensured[g].room
                BY <4>1, <4>3 DEF Awake, Runtime
            <4> QED
                BY <3>1, <4>1, <4>4, ElementOfSeq
        <3>3. R[g].room - 1 \in Nat
            BY <1>Dispatch, <2>1, <3>2 DEF Dispatch, Awake, Runtime
        <3>4. rt' = [R EXCEPT ![g] = r]
            BY <2>2
        <3>5. r \in Awake
            BY <3>2, <3>3 DEF Awake, Runtime
        <3> HIDE DEF R, r
        <3>6. rt' \in Seq(Awake) /\ Len(rt') = Len(Ensured)
            BY <3>1, <3>4, <3>5, ReplaceOne
        <3>7. cur' = EnsuredId
            BY <2>2
        <3>8. cur' \in 0..Len(rt')
            BY <2>3, <3>6, <3>7
        <3> QED
            BY <3>6, <3>8 DEF RtOK
    <2>rest. RestOK'
        <3>1. UNCHANGED <<meter, aborted, tree, ctl>>
            BY <1>Dispatch DEF Dispatch
        <3>2. disp' = [disp EXCEPT ![n] = @ + 1]
            BY <2>2
        <3>3. disp' \in [Nodes -> Nat]
            BY <2>1, <2>3, <3>2
        <3> QED
            BY <3>1, <3>3 DEF RestOK, tree, ctl
    <2> QED
        BY <2>log, <2>acts, <2>rt, <2>rest DEF Inv
<1>Settle. ASSUME Settle(g)
      PROVE  Inv'
    <2>log. LogOK'
        BY <1>Settle DEF Settle, LogOK, log
    <2>acts. ActsOK'
        <3>1. \/ q' = q
              \/ q' = Append(q, [Blank EXCEPT !.k = "susp", !.g = g])
              \/ ~WorkLeft /\ q' = Append(q, [Blank EXCEPT !.k = "fin", !.g = g, !.out = FinalStatus])
            BY <1>Settle DEF Settle
        <3> DEFINE a == [Blank EXCEPT !.k = "susp", !.g = g]
                   b == [Blank EXCEPT !.k = "fin", !.g = g, !.out = FinalStatus]
        <3>2. g \in Nat
            BY LenProperties DEF RtOK
        <3>3. a \in Act
            BY <3>2, SuspendAct
        <3>4. ~WorkLeft => b \in Act
            BY <3>2, FinalStatusFacts, FinalizeAct
        <3> HIDE DEF a, b
        <3>5. q \in Seq(Act) /\ working' = working /\ working \subseteq Act
            BY <1>Settle DEF Settle, ActsOK
        <3> QED
            BY <3>1, <3>3, <3>4, <3>5, AppendProperties DEF ActsOK, a, b
    <2>rt. RtOK'
        <3>1. /\ cur' = cur
              /\ rt' \in {AfterOnce(rt, g), WithPc(rt, g, "suspend"), WithPc(rt, g, "finalize")}
            BY <1>Settle DEF Settle, WithPc
        <3> QED
            BY <3>1, AfterOnceFacts, PcField DEF LoopPc, RtOK
    <2>rest. RestOK'
        BY <1>Settle DEF Settle, RestOK, tree, ctl
    <2> QED
        BY <2>log, <2>acts, <2>rt, <2>rest DEF Inv
<1> QED
    BY <1>Top, <1>Integrate, <1>CheckBudget, <1>Reported, <1>Ready, <1>Dispatch, <1>Settle

\* A node run up to its release.
LEMMA RunActions ==
    ASSUME Inv, NEW w,
           \/ PhaseRunning \/ RunStarted \/ RunDone \/ PhaseDone
           \/ w \in working /\ (Gather(w) \/ Finish(w) \/ Overspend(w))
    PROVE  Inv'
<1> USE DEF Inv
<1>PhaseRunning. ASSUME PhaseRunning
      PROVE  Inv'
    <2> DEFINE a == Head(q)
    <2>1. a \in Act /\ a.k = "run1" /\ Tail(q) \in Seq(Act)
        BY <1>PhaseRunning, QueueFacts DEF PhaseRunning, ActsOK
    <2>2. a.n \in Nodes /\ a.n # 0
        BY <2>1, OfNode DEF TaskKinds
    <2> HIDE DEF a
    <2>log. LogOK'
        BY <1>PhaseRunning DEF PhaseRunning, SetPhase, PhaseStatus, LogOK, log
    <2>acts. ActsOK'
        <3>1. q' = Append(Tail(q), GoTo(a, "run2")) /\ working' = working
            BY <1>PhaseRunning DEF PhaseRunning, Next1, a, GoTo
        <3>2. GoTo(a, "run2") \in Act
            BY <2>1, <2>2, GoToFacts DEF ActKinds
        <3> QED
            BY <2>1, <3>1, <3>2, AppendProperties DEF ActsOK
    <2>rt. RtOK'
        BY <1>PhaseRunning DEF PhaseRunning, RtOK
    <2>rest. RestOK'
        BY <1>PhaseRunning DEF PhaseRunning, RestOK, tree, ctl
    <2> QED
        BY <2>log, <2>acts, <2>rt, <2>rest DEF Inv
<1>RunStarted. ASSUME RunStarted
      PROVE  Inv'
    <2> DEFINE a == Head(q)
    <2>1. a \in Act /\ a.k = "run2" /\ Tail(q) \in Seq(Act)
        BY <1>RunStarted, QueueFacts DEF RunStarted, ActsOK
    <2>2. a.n \in Nodes /\ a.n # 0
        BY <2>1, OfNode DEF TaskKinds
    <2> HIDE DEF a
    <2>log. LogOK'
        <3> DEFINE n == a.n
                   e == [ver |-> a.v, st |-> "running", auto |-> a.auto]
        <3>1. /\ runs' = IF alive THEN [runs EXCEPT ![n] = Append(runs[n], e)] ELSE runs
              /\ UNCHANGED <<phase, tstatus, alive>>
            BY <1>RunStarted DEF RunStarted, a
        <3>2. e \in RunRec
            BY <2>1 DEF RunRec, RunStatus, Act, ActRec
        <3>3. runs[n] \in Seq(RunRec)
            BY <2>2 DEF LogOK
        <3> HIDE DEF e
        <3>4. Append(runs[n], e) \in Seq(RunRec)
            BY <3>2, <3>3, AppendProperties
        <3> QED
            BY <3>1, <3>4 DEF LogOK
    <2>acts. ActsOK'
        <3>1. q' = Tail(q) /\ working' = working \cup {GoTo(a, "setup")}
            BY <1>RunStarted DEF RunStarted, a, GoTo
        <3>2. GoTo(a, "setup") \in Act
            BY <2>1, <2>2, GoToFacts DEF ActKinds
        <3> QED
            BY <2>1, <3>1, <3>2 DEF ActsOK
    <2>rt. RtOK'
        BY <1>RunStarted DEF RunStarted, RtOK
    <2>rest. RestOK'
        BY <1>RunStarted DEF RunStarted, RestOK, tree, ctl
    <2> QED
        BY <2>log, <2>acts, <2>rt, <2>rest DEF Inv
<1>RunDone. ASSUME RunDone
      PROVE  Inv'
    <2> DEFINE a == Head(q)
    <2>1. a \in Act /\ a.k = "done1" /\ Tail(q) \in Seq(Act)
        BY <1>RunDone, QueueFacts DEF RunDone, ActsOK
    <2>2. a.n \in Nodes /\ a.n # 0
        BY <2>1, OfNode DEF TaskKinds
    <2>3. a.out \in {"completed", "waiting_approval", "failed"}
        BY <2>1 DEF Act
    <2> HIDE DEF a
    <2>log. LogOK'
        <3>1. runs' = RunsWith(a.n, a.v, a.out) /\ UNCHANGED <<phase, tstatus, alive>>
            BY <1>RunDone DEF RunDone, a
        <3>2. a.out \in RunStatus
            BY <2>3 DEF RunStatus
        <3> QED
            BY <3>1, <3>2, RunsWithFacts DEF LogOK
    <2>acts. ActsOK'
        <3>1. q' = Append(Tail(q), GoTo(a, "done2")) /\ working' = working
            BY <1>RunDone DEF RunDone, Next1, a, GoTo
        <3>2. GoTo(a, "done2") \in Act
            BY <2>1, <2>2, <2>3, GoToFacts DEF ActKinds
        <3> QED
            BY <2>1, <3>1, <3>2, AppendProperties DEF ActsOK
    <2>rt. RtOK'
        BY <1>RunDone DEF RunDone, RtOK
    <2>rest. RestOK'
        BY <1>RunDone DEF RunDone, RestOK, tree, ctl
    <2> QED
        BY <2>log, <2>acts, <2>rt, <2>rest DEF Inv
<1>PhaseDone. ASSUME PhaseDone
      PROVE  Inv'
    <2> DEFINE a == Head(q)
    <2>1. a \in Act /\ a.k = "done2" /\ Tail(q) \in Seq(Act)
        BY <1>PhaseDone, QueueFacts DEF PhaseDone, ActsOK
    <2>2. a.n \in Nodes /\ a.n # 0
        BY <2>1, OfNode DEF TaskKinds
    <2>3. a.out \in {"completed", "waiting_approval", "failed"}
        BY <2>1 DEF Act
    <2> HIDE DEF a
    <2>log. LogOK'
        BY <1>PhaseDone, <2>3 DEF PhaseDone, SetPhase, PhaseStatus, a, LogOK, log
    <2>acts. ActsOK'
        <3>1. q' = Tail(q) /\ working' = working \cup {GoTo(a, "release")}
            BY <1>PhaseDone DEF PhaseDone, a, GoTo
        <3>2. GoTo(a, "release") \in Act
            BY <2>1, <2>2, GoToFacts DEF ActKinds
        <3> QED
            BY <2>1, <3>1, <3>2 DEF ActsOK
    <2>rt. RtOK'
        BY <1>PhaseDone DEF PhaseDone, RtOK
    <2>rest. RestOK'
        BY <1>PhaseDone DEF PhaseDone, RestOK, tree, ctl
    <2> QED
        BY <2>log, <2>acts, <2>rt, <2>rest DEF Inv
<1>Gather. ASSUME w \in working, Gather(w)
      PROVE  Inv'
    <2>1. w \in Act /\ w.k \in {"setup"} /\ w.n \in Nodes /\ w.n # 0
        <3>1. w \in Act /\ w.k \in {"setup"}
            BY <1>Gather DEF Gather, ActsOK
        <3> QED
            BY <3>1, OfNode DEF TaskKinds
    <2>log. LogOK'
        BY <1>Gather DEF Gather, LogOK, log
    <2>acts. ActsOK'
        <3> DEFINE ins == [m \in Nodes |-> IF m \in Upstream(w.n) THEN LatestDone(m) ELSE 0]
        <3>1. PICK t \in Workspace : q' = q /\ working' = (working \ {w}) \cup {BeginTurn(w, t, ins)}
            BY <1>Gather DEF Gather, BeginTurn
        <3>2. ins \in [Nodes -> Nat]
            BY LatestDoneFacts DEF LogOK
        <3>3. t \in {"own", "base", "shared"}
            BY DEF Workspace
        <3> HIDE DEF ins
        <3>4. BeginTurn(w, t, ins) \in Act
            BY <2>1, <3>2, <3>3, BeginTurnFacts
        <3> QED
            BY <3>1, <3>4 DEF ActsOK
    <2>rt. RtOK'
        BY <1>Gather DEF Gather, RtOK
    <2>rest. RestOK'
        BY <1>Gather DEF Gather, RestOK, tree, ctl
    <2> QED
        BY <2>log, <2>acts, <2>rt, <2>rest DEF Inv
<1>Finish. ASSUME w \in working, Finish(w)
      PROVE  Inv'
    <2>1. w \in Act /\ w.k \in {"setup", "llm"} /\ w.n \in Nodes /\ w.n # 0
        <3>1. w \in Act /\ w.k \in {"setup", "llm"}
            BY <1>Finish DEF Finish, ActsOK
        <3> QED
            BY <3>1, OfNode DEF TaskKinds
    <2>log. LogOK'
        BY <1>Finish DEF Finish, LogOK, log
    <2>acts. ActsOK'
        <3>1. /\ working' = working \ {w}
              /\ \E out \in {"completed", "waiting_approval", "failed"}, vd \in Verdicts :
                    q' = Append(q, EndTurn(w, out, vd))
            <4>1. CASE \E vd \in IF GateTarget[w.n] = 0 THEN {"none"} ELSE Verdicts :
                         q' = Append(q, [w EXCEPT !.k = "done1", !.out = Outcome(w.n), !.verdict = vd])
                <5>1. Outcome(w.n) \in {"completed", "waiting_approval", "failed"}
                    BY DEF Outcome
                <5>2. PICK vd \in Verdicts : q' = Append(q, EndTurn(w, Outcome(w.n), vd))
                    BY <4>1 DEF EndTurn, Verdicts
                <5> QED
                    BY <1>Finish, <5>1, <5>2 DEF Finish
            <4>2. CASE q' = Append(q, [w EXCEPT !.k = "done1", !.out = "failed"])
                <5>1. [w EXCEPT !.k = "done1", !.out = "failed"] = EndTurn(w, "failed", w.verdict)
                    BY <2>1 DEF EndTurn, Act, ActRec
                <5>2. w.verdict \in Verdicts
                    BY <2>1 DEF Act, ActRec
                <5> QED
                    BY <1>Finish, <4>2, <5>1, <5>2 DEF Finish
            <4> QED
                BY <1>Finish, <4>1, <4>2 DEF Finish
        <3>2. \A out \in {"completed", "waiting_approval", "failed"}, vd \in Verdicts :
                EndTurn(w, out, vd) \in Act
            BY <2>1, EndTurnFacts
        <3> QED
            BY <3>1, <3>2, AppendProperties DEF ActsOK
    <2>rt. RtOK'
        BY <1>Finish DEF Finish, RtOK
    <2>rest. RestOK'
        BY <1>Finish DEF Finish, RestOK, tree, ctl
    <2> QED
        BY <2>log, <2>acts, <2>rt, <2>rest DEF Inv
<1>Overspend. ASSUME w \in working, Overspend(w)
      PROVE  Inv'
    <2>1. w \in Act /\ w.n \in Nodes /\ w.t \in Nat
        <3>1. w \in Act /\ w.k = "llm"
            BY <1>Overspend DEF Overspend, ActsOK
        <3> QED
            BY <3>1, OfNode DEF TaskKinds, Act, ActRec
    <2>log. LogOK'
        BY <1>Overspend DEF Overspend, LogOK, log
    <2>acts. ActsOK'
        BY <1>Overspend DEF Overspend, ActsOK
    <2>rt. RtOK'
        BY <1>Overspend DEF Overspend, RtOK
    <2>rest. RestOK'
        BY <1>Overspend, <2>1 DEF Overspend, RestOK, tree, ctl
    <2> QED
        BY <2>log, <2>acts, <2>rt, <2>rest DEF Inv
<1> QED
    BY <1>PhaseRunning, <1>RunStarted, <1>RunDone, <1>PhaseDone, <1>Gather, <1>Finish, <1>Overspend

\* What executeRun does with the result.
LEMMA AfterwardsActions ==
    ASSUME Inv, NEW w,
           \/ w \in working /\ Release(w)
           \/ BudgetPending \/ DownstreamFailed \/ Escalate
    PROVE  Inv'
<1> USE DEF Inv
<1>Release. ASSUME w \in working, Release(w)
      PROVE  Inv'
    <2>1. w \in Act /\ w.k \in {"release"} /\ w.n \in Nodes /\ w.n # 0
        <3>1. w \in Act /\ w.k \in {"release"}
            BY <1>Release DEF Release, ReleaseWorkspace, ActsOK
        <3> QED
            BY <3>1, OfNode DEF TaskKinds
    <2> DEFINE S == StillPending(Downstream(w.n))
               own == [n |-> w.n, g |-> w.g]
    <2>2. /\ working' = working \ {w}
          /\ \/ /\ q' = Append(q, GiveBack(w, "pend", w.left, w.i))
                /\ rt' = rt /\ cur' = cur
             \/ /\ S = {} /\ q' = q /\ cur' = cur
                /\ rt' = Finally(WithFailed(rt, w.g, TRUE), w.n, w.g, cur)
             \/ /\ S # {} /\ q' = Append(q, GiveBack(w, "mdf", S, Least(S)))
                /\ rt' = WithFailed(rt, w.g, TRUE) /\ cur' = cur
             \/ /\ GateTarget[w.n] # 0
                /\ q' = Append(q, RerunAct(GateTarget[w.n], own))
                /\ rt' = WithFailed(Ensured, EnsuredId, FALSE) /\ cur' = EnsuredId
             \/ /\ q' = Append(q, GiveBack(w, "esc", w.left, w.i))
                /\ rt' = rt /\ cur' = cur
             \/ /\ q' = q /\ rt' = Finally(rt, w.n, w.g, cur) /\ cur' = cur
        <3>1. \A k : [w EXCEPT !.k = k, !.tree = "none"] = GiveBack(w, k, w.left, w.i)
            BY <2>1 DEF GiveBack, Act, ActRec
        <3>2. /\ [w EXCEPT !.k = "mdf", !.tree = "none", !.left = S, !.i = Least(S)]
                    = GiveBack(w, "mdf", S, Least(S))
              /\ [rt EXCEPT ![w.g].failed = TRUE] = WithFailed(rt, w.g, TRUE)
              /\ [Ensured EXCEPT ![EnsuredId].failed = FALSE] = WithFailed(Ensured, EnsuredId, FALSE)
            BY DEF GiveBack, WithFailed
        <3> HIDE DEF own
        <3> QED
            BY <1>Release, <3>1, <3>2 DEF Release, ReleaseWorkspace, own
    <2>3. S \in SUBSET Nodes
        BY StillPendingFacts DEF Downstream
    <2> HIDE DEF S
    <2>log. LogOK'
        BY <1>Release DEF Release, ReleaseWorkspace, LogOK, log
    <2>acts. ActsOK'
        <3>1. w.left \in SUBSET Nodes /\ w.i \in Nat /\ {"pend", "mdf", "esc"} \subseteq Elsewhere
            BY <2>1 DEF Act, ActRec, Elsewhere, ActKinds
        <3>2. GiveBack(w, "pend", w.left, w.i) \in Act /\ GiveBack(w, "esc", w.left, w.i) \in Act
            BY <2>1, <3>1, GiveBackFacts
        <3>3. S # {} => GiveBack(w, "mdf", S, Least(S)) \in Act
            <4>1. S # {} => Least(S) \in Nat
                BY <2>3, LeastNode, WorkflowAssumption
            <4> QED
                BY <2>1, <2>3, <3>1, <4>1, GiveBackFacts
        <3>4. GateTarget[w.n] # 0 => RerunAct(GateTarget[w.n], own) \in Act
            <4>1. own \in [n : Nodes \cup {0}, g : Nat]
                BY <2>1 DEF Act, ActRec
            <4>2. GateTarget[w.n] # 0 => GateTarget[w.n] \in Nodes
                BY <2>1, EngineAssumption
            <4> HIDE DEF own
            <4> QED
                BY <4>1, <4>2, RerunActFacts
        <3> HIDE DEF own
        <3>5. q' = q \/ \E a \in Act : q' = Append(q, a)
            BY <2>2, <3>2, <3>3, <3>4
        <3>6. q' \in Seq(Act)
            BY <3>5, AppendProperties DEF ActsOK
        <3> QED
            BY <2>2, <3>6 DEF ActsOK
    <2>rt. RtOK'
        <3>1. WithFailed(rt, w.g, TRUE) \in Seq(Awake) /\ Len(WithFailed(rt, w.g, TRUE)) = Len(rt)
            BY FailedField DEF RtOK
        <3>2. /\ WithFailed(Ensured, EnsuredId, FALSE) \in Seq(Awake)
              /\ EnsuredId \in 1..Len(WithFailed(Ensured, EnsuredId, FALSE))
            BY EnsuredFacts, FailedField DEF RtOK
        <3>3. /\ Finally(WithFailed(rt, w.g, TRUE), w.n, w.g, cur) \in Seq(Awake)
              /\ Len(Finally(WithFailed(rt, w.g, TRUE), w.n, w.g, cur)) = Len(rt)
            BY <3>1, FinallyFacts
        <3>4. /\ Finally(rt, w.n, w.g, cur) \in Seq(Awake)
              /\ Len(Finally(rt, w.n, w.g, cur)) = Len(rt)
            BY FinallyFacts DEF RtOK
        <3>5. EnsuredId \in 0..Len(WithFailed(Ensured, EnsuredId, FALSE))
            <4> DEFINE R == WithFailed(Ensured, EnsuredId, FALSE)
                       e == EnsuredId
            <4>1. R \in Seq(Awake) /\ e \in 1..Len(R)
                BY <3>2
            <4> HIDE DEF R, e
            <4>2. Len(R) \in Nat
                BY <4>1, LenProperties
            <4>3. e \in 0..Len(R)
                BY <4>1, <4>2
            <4> QED
                BY <4>3 DEF R, e
        <3> HIDE DEF own
        <3>6. \/ rt' = rt /\ cur' = cur
              \/ rt' = WithFailed(rt, w.g, TRUE) /\ cur' = cur
              \/ rt' = Finally(WithFailed(rt, w.g, TRUE), w.n, w.g, cur) /\ cur' = cur
              \/ rt' = Finally(rt, w.n, w.g, cur) /\ cur' = cur
              \/ rt' = WithFailed(Ensured, EnsuredId, FALSE) /\ cur' = EnsuredId
            BY <2>2
        <3> QED
            BY <3>1, <3>2, <3>3, <3>4, <3>5, <3>6 DEF RtOK
    <2>rest. RestOK'
        BY <1>Release, <2>1 DEF Release, ReleaseWorkspace, RestOK, tree, ctl
    <2> QED
        BY <2>log, <2>acts, <2>rt, <2>rest DEF Inv
<1>BudgetPending. ASSUME BudgetPending
      PROVE  Inv'
    <2> DEFINE a == Head(q)
    <2>1. a \in Act /\ a.k = "pend" /\ Tail(q) \in Seq(Act)
        BY <1>BudgetPending, QueueFacts DEF BudgetPending, ActsOK
    <2>2. a.n \in Nodes /\ a.n # 0
        BY <2>1, OfNode DEF TaskKinds
    <2> HIDE DEF a
    <2>log. LogOK'
        BY <1>BudgetPending DEF BudgetPending, SetPhase, PhaseStatus, LogOK, log
    <2>acts. ActsOK'
        <3>1. working' = working /\ q' \in {Append(Tail(q), GoTo(a, "stop")), Tail(q)}
            BY <1>BudgetPending DEF BudgetPending, Next1, a, GoTo
        <3>2. GoTo(a, "stop") \in Act
            BY <2>1, <2>2, GoToFacts DEF ActKinds
        <3> QED
            BY <2>1, <3>1, <3>2, AppendProperties DEF ActsOK
    <2>rt. RtOK'
        <3> DEFINE R == WithPaused(rt, a.g, TRUE)
        <3>1. cur' = cur /\ rt' \in {R, Finally(R, a.n, a.g, cur)}
            BY <1>BudgetPending DEF BudgetPending, a, WithPaused
        <3>2. R \in Seq(Awake) /\ Len(R) = Len(rt)
            BY PausedField DEF RtOK
        <3> HIDE DEF R
        <3> QED
            BY <3>1, <3>2, FinallyFacts DEF RtOK
    <2>rest. RestOK'
        BY <1>BudgetPending DEF BudgetPending, RestOK, tree, ctl
    <2> QED
        BY <2>log, <2>acts, <2>rt, <2>rest DEF Inv
<1>DownstreamFailed. ASSUME DownstreamFailed
      PROVE  Inv'
    <2> DEFINE a == Head(q)
    <2>1. a \in Act /\ a.k = "mdf" /\ Tail(q) \in Seq(Act)
        BY <1>DownstreamFailed, QueueFacts DEF DownstreamFailed, ActsOK
    <2>2. a.n \in Nodes /\ a.n # 0
        BY <2>1, OfNode DEF TaskKinds
    <2> DEFINE S == StillPending(a.left \ {a.i})
    <2>3. S \in SUBSET Nodes
        BY <2>1, StillPendingFacts DEF Act, ActRec
    <2>4. /\ working' = working
          /\ \/ q' = Tail(q)
             \/ S # {} /\ q' = Append(Tail(q), StepTo(a, "mdf", S, Least(S)))
        <3>1. [a EXCEPT !.left = S, !.i = Least(S)] = StepTo(a, "mdf", S, Least(S))
            BY <2>1 DEF StepTo, Act, ActRec
        <3> QED
            BY <1>DownstreamFailed, <3>1 DEF DownstreamFailed, Next1
    <2> HIDE DEF a, S
    <2>log. LogOK'
        BY <1>DownstreamFailed DEF DownstreamFailed, SetPhase, PhaseStatus, LogOK, log
    <2>acts. ActsOK'
        <3>1. S # {} => StepTo(a, "mdf", S, Least(S)) \in Act
            <4>1. S # {} => Least(S) \in Nat
                BY <2>3, LeastNode, WorkflowAssumption
            <4>2. "mdf" \in Elsewhere
                BY DEF Elsewhere, ActKinds
            <4> QED
                BY <2>1, <2>2, <2>3, <4>1, <4>2, StepToFacts
        <3> QED
            BY <2>1, <2>4, <3>1, AppendProperties DEF ActsOK
    <2>rt. RtOK'
        BY <1>DownstreamFailed, FinallyFacts DEF DownstreamFailed, RtOK
    <2>rest. RestOK'
        BY <1>DownstreamFailed DEF DownstreamFailed, RestOK, tree, ctl
    <2> QED
        BY <2>log, <2>acts, <2>rt, <2>rest DEF Inv
<1>Escalate. ASSUME Escalate
      PROVE  Inv'
    <2>log. LogOK'
        BY <1>Escalate DEF Escalate, SetPhase, PhaseStatus, LogOK, log
    <2>acts. ActsOK'
        BY <1>Escalate, QueueFacts DEF Escalate, ActsOK
    <2>rt. RtOK'
        BY <1>Escalate, FinallyFacts DEF Escalate, RtOK
    <2>rest. RestOK'
        BY <1>Escalate DEF Escalate, RestOK, tree, ctl
    <2> QED
        BY <2>log, <2>acts, <2>rt, <2>rest DEF Inv
<1> QED
    BY <1>Release, <1>BudgetPending, <1>DownstreamFailed, <1>Escalate

\* A registry that has just been given its runtime points at one.
LEMMA EnsuredEntry ==
    ASSUME RtOK, NEW R \in Seq(Awake), Len(R) = Len(Ensured)
    PROVE  EnsuredId \in 0..Len(R)
<1> DEFINE e == EnsuredId
<1>1. e \in 1..Len(R)
    BY EnsuredFacts DEF RtOK
<1>2. Len(R) \in Nat
    BY LenProperties
<1> HIDE DEF e
<1>3. e \in 0..Len(R)
    BY <1>1, <1>2
<1> QED
    BY <1>3 DEF e

\* rerunPhase.
LEMMA RerunActions ==
    ASSUME Inv, \/ RerunRunning \/ RerunSupersede \/ RerunInvalidate
           \/ RerunPending \/ RerunExecute
    PROVE  Inv'
<1> USE DEF Inv
<1>RerunRunning. ASSUME RerunRunning
      PROVE  Inv'
    <2> DEFINE a == Head(q)
    <2>1. a \in Act /\ a.k = "rr1" /\ Tail(q) \in Seq(Act)
        BY <1>RerunRunning, QueueFacts DEF RerunRunning, ActsOK
    <2>2. a.n \in Nodes /\ a.n # 0
        BY <2>1, OfNode DEF TaskKinds
    <2> HIDE DEF a
    <2>log. LogOK'
        BY <1>RerunRunning DEF RerunRunning, SetPhase, PhaseStatus, LogOK, log
    <2>acts. ActsOK'
        <3>1. q' = Append(Tail(q), SupersedeOwn(a, runs)) /\ working' = working
            BY <1>RerunRunning DEF RerunRunning, Next1, a
        <3>2. SupersedeOwn(a, runs) \in Act
            BY <2>1, <2>2, SupersedeOwnFacts DEF LogOK
        <3> QED
            BY <2>1, <3>1, <3>2, AppendProperties DEF ActsOK
    <2>rt. RtOK'
        BY <1>RerunRunning DEF RerunRunning, RtOK
    <2>rest. RestOK'
        BY <1>RerunRunning DEF RerunRunning, RestOK, tree, ctl
    <2> QED
        BY <2>log, <2>acts, <2>rt, <2>rest DEF Inv
<1>RerunSupersede. ASSUME RerunSupersede
      PROVE  Inv'
    <2> DEFINE a == Head(q)
    <2>1. a \in Act /\ a.k = "rr2" /\ Tail(q) \in Seq(Act)
        BY <1>RerunSupersede, QueueFacts DEF RerunSupersede, ActsOK
    <2>2. a.n \in Nodes /\ a.n # 0
        BY <2>1, OfNode DEF TaskKinds
    <2> DEFINE R == RunsWith(a.n, runs[a.n][a.i].ver, "superseded")
    <2>3. R \in [Nodes -> Seq(RunRec)]
        BY RunsWithFacts DEF LogOK, RunStatus
    <2> HIDE DEF R
    <2> HIDE DEF a
    <2>log. LogOK'
        <3>1. runs' = R /\ UNCHANGED <<phase, tstatus, alive>>
            BY <1>RerunSupersede DEF RerunSupersede, a, R
        <3> QED
            BY <2>3, <3>1 DEF LogOK
    <2>acts. ActsOK'
        <3>1. q' = Append(Tail(q), SupersedeOwn(a, R)) /\ working' = working
            BY <1>RerunSupersede DEF RerunSupersede, Next1, a, R
        <3>2. SupersedeOwn(a, R) \in Act
            BY <2>1, <2>2, <2>3, SupersedeOwnFacts
        <3> QED
            BY <2>1, <3>1, <3>2, AppendProperties DEF ActsOK
    <2>rt. RtOK'
        BY <1>RerunSupersede DEF RerunSupersede, RtOK
    <2>rest. RestOK'
        BY <1>RerunSupersede DEF RerunSupersede, RestOK, tree, ctl
    <2> QED
        BY <2>log, <2>acts, <2>rt, <2>rest DEF Inv
<1>RerunInvalidate. ASSUME RerunInvalidate
      PROVE  Inv'
    <2> DEFINE a == Head(q)
    <2>1. a \in Act /\ a.k = "rr3" /\ Tail(q) \in Seq(Act)
        BY <1>RerunInvalidate, QueueFacts DEF RerunInvalidate, ActsOK
    <2>2. a.n \in Nodes /\ a.n # 0
        BY <2>1, OfNode DEF TaskKinds
    <2> DEFINE R == RunsWith(Least(a.left), runs[Least(a.left)][a.i].ver, "superseded")
    <2>3. R \in [Nodes -> Seq(RunRec)]
        BY RunsWithFacts DEF LogOK, RunStatus
    <2>4. a.left \in SUBSET Nodes
        BY <2>1 DEF Act, ActRec
    <2> HIDE DEF R
    <2> HIDE DEF a
    <2>log. LogOK'
        <3>1. runs' = R /\ UNCHANGED <<phase, tstatus, alive>>
            BY <1>RerunInvalidate DEF RerunInvalidate, a, R
        <3> QED
            BY <2>3, <3>1 DEF LogOK
    <2>acts. ActsOK'
        <3>1. q' = Append(Tail(q), Invalidate(a, R, a.left)) /\ working' = working
            BY <1>RerunInvalidate DEF RerunInvalidate, Next1, a, R
        <3>2. Invalidate(a, R, a.left) \in Act
            BY <2>1, <2>2, <2>3, <2>4, InvalidateFacts
        <3> QED
            BY <2>1, <3>1, <3>2, AppendProperties DEF ActsOK
    <2>rt. RtOK'
        BY <1>RerunInvalidate DEF RerunInvalidate, RtOK
    <2>rest. RestOK'
        BY <1>RerunInvalidate DEF RerunInvalidate, RestOK, tree, ctl
    <2> QED
        BY <2>log, <2>acts, <2>rt, <2>rest DEF Inv
<1>RerunPending. ASSUME RerunPending
      PROVE  Inv'
    <2> DEFINE a == Head(q)
    <2>1. a \in Act /\ a.k = "rr4" /\ Tail(q) \in Seq(Act)
        BY <1>RerunPending, QueueFacts DEF RerunPending, ActsOK
    <2>2. a.n \in Nodes /\ a.n # 0
        BY <2>1, OfNode DEF TaskKinds
    <2> DEFINE L == a.left \ {Least(a.left)}
    <2>3. L \in SUBSET Nodes
        BY <2>1 DEF Act, ActRec
    <2> HIDE DEF a
    <2>log. LogOK'
        BY <1>RerunPending DEF RerunPending, SetPhase, PhaseStatus, LogOK, log
    <2>acts. ActsOK'
        <3>1. q' = Append(Tail(q), Invalidate(a, runs, L)) /\ working' = working
            BY <1>RerunPending DEF RerunPending, Next1, a
        <3>2. Invalidate(a, runs, L) \in Act
            BY <2>1, <2>2, <2>3, InvalidateFacts DEF LogOK
        <3> QED
            BY <2>1, <3>1, <3>2, AppendProperties DEF ActsOK
    <2>rt. RtOK'
        BY <1>RerunPending DEF RerunPending, RtOK
    <2>rest. RestOK'
        BY <1>RerunPending DEF RerunPending, RestOK, tree, ctl
    <2> QED
        BY <2>log, <2>acts, <2>rt, <2>rest DEF Inv
<1>RerunExecute. ASSUME RerunExecute
      PROVE  Inv'
    <2> DEFINE a == Head(q)
    <2>1. a \in Act /\ a.k = "rr5" /\ Tail(q) \in Seq(Act)
        BY <1>RerunExecute, QueueFacts DEF RerunExecute, ActsOK
    <2>2. a.n \in Nodes /\ a.n # 0
        BY <2>1, OfNode DEF TaskKinds
    <2> DEFINE R == Claimed(Ensured, a.n)
    <2>3. PICK v \in 1..(Len(runs[a.n]) + 1) :
            /\ q' = Append(Tail(q), RunAct(a.n, v, a.own.n # 0))
            /\ rt' \in {R, Finally(R, a.own.n, a.own.g, EnsuredId)}
            /\ cur' = EnsuredId
            /\ disp' = [disp EXCEPT ![a.n] = @ + 1]
        BY <1>RerunExecute DEF RerunExecute, Next1
    <2>4. /\ v \in Nat /\ disp \in [Nodes -> Nat]
          /\ Ensured \in Seq(Awake) /\ EnsuredId \in Nat
        <3>1. Len(runs[a.n]) \in Nat
            BY <2>2, LenProperties DEF LogOK
        <3>2. EnsuredId \in 1..Len(Ensured)
            BY EnsuredFacts DEF RtOK
        <3> QED
            BY <3>1, <3>2, EnsuredFacts, LenProperties DEF RtOK, RestOK
    <2>5. R \in Seq(Awake) /\ Len(R) = Len(Ensured)
        BY <2>2, <2>4, ClaimedFacts
    <2> HIDE DEF a, R
    <2>log. LogOK'
        BY <1>RerunExecute DEF RerunExecute, SetTask, TaskStatus, LogOK, log
    <2>acts. ActsOK'
        <3> DEFINE b == a.own.n # 0
        <3>1. b \in BOOLEAN
            OBVIOUS
        <3> HIDE DEF b
        <3>2. RunAct(a.n, v, b) \in Act
            BY <2>2, <2>4, <3>1, RunActFacts
        <3> QED
            BY <1>RerunExecute, <2>1, <2>3, <3>2, AppendProperties DEF RerunExecute, ActsOK, b
    <2>rt. RtOK'
        <3>1. rt' \in Seq(Awake) /\ Len(rt') = Len(Ensured)
            BY <2>3, <2>5, FinallyFacts
        <3> QED
            BY <2>3, <3>1, EnsuredEntry DEF RtOK
    <2>rest. RestOK'
        BY <1>RerunExecute, <2>2, <2>3 DEF RerunExecute, RestOK, tree, ctl
    <2> QED
        BY <2>log, <2>acts, <2>rt, <2>rest DEF Inv
<1> QED
    BY <1>RerunRunning, <1>RerunSupersede, <1>RerunInvalidate, <1>RerunPending, <1>RerunExecute

\* Approval, boot and crash.
LEMMA ApprovalBootActions ==
    ASSUME Inv, \/ ApproveRun \/ ApproveDone
           \/ BootScan \/ BootRunFailed \/ BootPending \/ BootPaused \/ Crash
    PROVE  Inv'
<1> USE DEF Inv
<1>ApproveRun. ASSUME ApproveRun
      PROVE  Inv'
    <2> DEFINE a == Head(q)
    <2>1. a \in Act /\ a.k = "ap1" /\ Tail(q) \in Seq(Act)
        BY <1>ApproveRun, QueueFacts DEF ApproveRun, ActsOK
    <2>2. a.n \in Nodes /\ a.n # 0
        BY <2>1, OfNode DEF TaskKinds
    <2> HIDE DEF a
    <2>log. LogOK'
        <3>1. runs' = RunsWith(a.n, a.v, "completed") /\ UNCHANGED <<phase, tstatus, alive>>
            BY <1>ApproveRun DEF ApproveRun, a
        <3> QED
            BY <3>1, RunsWithFacts DEF LogOK, RunStatus
    <2>acts. ActsOK'
        <3>1. q' = Append(Tail(q), GoTo(a, "ap2")) /\ working' = working
            BY <1>ApproveRun DEF ApproveRun, Next1, a, GoTo
        <3>2. GoTo(a, "ap2") \in Act
            BY <2>1, <2>2, GoToFacts DEF ActKinds
        <3> QED
            BY <2>1, <3>1, <3>2, AppendProperties DEF ActsOK
    <2>rt. RtOK'
        BY <1>ApproveRun DEF ApproveRun, RtOK
    <2>rest. RestOK'
        BY <1>ApproveRun DEF ApproveRun, RestOK, tree, ctl
    <2> QED
        BY <2>log, <2>acts, <2>rt, <2>rest DEF Inv
<1>ApproveDone. ASSUME ApproveDone
      PROVE  Inv'
    <2>log. LogOK'
        BY <1>ApproveDone DEF ApproveDone, SetPhase, PhaseStatus, LogOK, log
    <2>acts. ActsOK'
        BY <1>ApproveDone, QueueFacts, BlankFacts DEF ApproveDone, Next1, ActsOK
    <2>rt. RtOK'
        <3>1. rt' = Ensured /\ cur' = EnsuredId
            BY <1>ApproveDone DEF ApproveDone
        <3> QED
            BY <3>1, EnsuredFacts, EnsuredEntry DEF RtOK
    <2>rest. RestOK'
        BY <1>ApproveDone DEF ApproveDone, RestOK, tree, ctl
    <2> QED
        BY <2>log, <2>acts, <2>rt, <2>rest DEF Inv
<1>BootScan. ASSUME BootScan
      PROVE  Inv'
    <2>log. LogOK'
        BY <1>BootScan DEF BootScan, LogOK, log
    <2>acts. ActsOK'
        <3>1. working' = working /\ q' \in {q, Append(q, BootNext(phase, 0))}
            BY <1>BootScan DEF BootScan
        <3>2. BootNext(phase, 0) \in Act
            BY BootNextFacts DEF LogOK
        <3> QED
            BY <3>1, <3>2, AppendProperties DEF ActsOK
    <2>rt. RtOK'
        BY <1>BootScan DEF BootScan, RtOK
    <2>rest. RestOK'
        BY <1>BootScan DEF BootScan, RestOK, tree, ctl
    <2> QED
        BY <2>log, <2>acts, <2>rt, <2>rest DEF Inv
<1>BootRunFailed. ASSUME BootRunFailed
      PROVE  Inv'
    <2> DEFINE a == Head(q)
    <2>1. a \in Act /\ a.k = "b1" /\ Tail(q) \in Seq(Act)
        BY <1>BootRunFailed, QueueFacts DEF BootRunFailed, ActsOK
    <2>2. a.n \in Nodes /\ a.n # 0
        BY <2>1, OfNode DEF TaskKinds
    <2> HIDE DEF a
    <2>log. LogOK'
        <3>1. runs' = RunsWith(a.n, a.v, "failed") /\ UNCHANGED <<phase, tstatus, alive>>
            BY <1>BootRunFailed DEF BootRunFailed, a
        <3> QED
            BY <3>1, RunsWithFacts DEF LogOK, RunStatus
    <2>acts. ActsOK'
        <3>1. q' = Append(Tail(q), GoTo(a, "b2")) /\ working' = working
            BY <1>BootRunFailed DEF BootRunFailed, Next1, a, GoTo
        <3>2. GoTo(a, "b2") \in Act
            BY <2>1, <2>2, GoToFacts DEF ActKinds
        <3> QED
            BY <2>1, <3>1, <3>2, AppendProperties DEF ActsOK
    <2>rt. RtOK'
        BY <1>BootRunFailed DEF BootRunFailed, RtOK
    <2>rest. RestOK'
        BY <1>BootRunFailed DEF BootRunFailed, RestOK, tree, ctl
    <2> QED
        BY <2>log, <2>acts, <2>rt, <2>rest DEF Inv
<1>BootPending. ASSUME BootPending
      PROVE  Inv'
    <2> DEFINE a == Head(q)
    <2>1. a \in Act /\ a.k = "b2" /\ Tail(q) \in Seq(Act)
        BY <1>BootPending, QueueFacts DEF BootPending, ActsOK
    <2>2. a.n \in Nodes /\ a.n # 0
        BY <2>1, OfNode DEF TaskKinds
    <2> HIDE DEF a
    <2>log. LogOK'
        BY <1>BootPending DEF BootPending, SetPhase, PhaseStatus, LogOK, log
    <2>acts. ActsOK'
        <3>1. q' = Append(Tail(q), BootNext(phase, a.n)) /\ working' = working
            BY <1>BootPending DEF BootPending, Next1, a, GoTo
        <3>2. BootNext(phase, a.n) \in Act
            BY <2>1, <2>2, BootNextFacts DEF LogOK
        <3> QED
            BY <2>1, <3>1, <3>2, AppendProperties DEF ActsOK
    <2>rt. RtOK'
        BY <1>BootPending DEF BootPending, RtOK
    <2>rest. RestOK'
        BY <1>BootPending DEF BootPending, RestOK, tree, ctl
    <2> QED
        BY <2>log, <2>acts, <2>rt, <2>rest DEF Inv
<1>BootPaused. ASSUME BootPaused
      PROVE  Inv'
    <2>log. LogOK'
        BY <1>BootPaused DEF BootPaused, SetTask, TaskStatus, LogOK, log
    <2>acts. ActsOK'
        BY <1>BootPaused, QueueFacts DEF BootPaused, ActsOK
    <2>rt. RtOK'
        BY <1>BootPaused DEF BootPaused, RtOK
    <2>rest. RestOK'
        BY <1>BootPaused DEF BootPaused, RestOK, tree, ctl
    <2> QED
        BY <2>log, <2>acts, <2>rt, <2>rest DEF Inv
<1>Crash. ASSUME Crash
      PROVE  Inv'
    <2>log. LogOK'
        BY <1>Crash DEF Crash, LogOK, log
    <2>acts. ActsOK'
        BY <1>Crash, EmptySeq DEF Crash, ActsOK
    <2>rt. RtOK'
        BY <1>Crash, EmptySeq DEF Crash, RtOK
    <2>rest. RestOK'
        <3> DEFINE M == {b \in working \cup SeqRange(q) : b.tree = "own"}
        <3>1. \A b \in M : b.n \in Nodes
            <4>1. \A b \in working \cup SeqRange(q) : b \in Act
                BY ElementOfSeq DEF ActsOK, SeqRange
            <4> QED
                BY <4>1 DEF Act, ActRec
        <3>2. unmerged' = unmerged \cup {b.n : b \in M}
            BY <1>Crash DEF Crash
        <3> HIDE DEF M
        <3>3. unmerged' \subseteq Nodes
            BY <3>1, <3>2 DEF RestOK
        <3>4. /\ meter' = "clear" /\ aborted' = {} /\ disp' = [n \in Nodes |-> 0] /\ claimed' = FALSE
              /\ blind' = FALSE /\ booting' = TRUE /\ go' = FALSE /\ ops' = ops /\ crashes' \in 0..MaxCrashes
            BY <1>Crash, EngineAssumption DEF Crash, RestOK
        <3> QED
            BY <3>3, <3>4 DEF RestOK
    <2> QED
        BY <2>log, <2>acts, <2>rt, <2>rest DEF Inv
<1> QED
    BY <1>ApproveRun, <1>ApproveDone, <1>BootScan, <1>BootRunFailed, <1>BootPending,
       <1>BootPaused, <1>Crash

\* The activations a request starts.
LEMMA ApproveAct ==
    ASSUME NEW n \in Nodes, NEW v \in Nat
    PROVE  /\ [Blank EXCEPT !.k = "ap1", !.n = n, !.v = v] \in Act
           /\ [Blank EXCEPT !.k = "ap1", !.n = n, !.v = v].tree = "none"
<1> DEFINE b == [Blank EXCEPT !.k = "ap1", !.n = n, !.v = v]
<1>1. b \in ActRec
    BY DEF Blank, ActRec, ActKinds, Verdicts
<1>2. b.n = n /\ b.k = "ap1" /\ b.tree = "none"
    BY DEF Blank
<1>3. n # 0
    BY WorkflowAssumption
<1> HIDE DEF b
<1>4. b \in Act
    BY <1>1, <1>2, <1>3 DEF Act
<1> QED
    BY <1>2, <1>4 DEF b

\* cancelTask leaves a queue of activations.
LEMMA CancelRestFacts == CancelRest \in Seq(Act)
<1> DEFINE a == [Blank EXCEPT !.k = "cfin", !.out = "failed"]
<1>1. a \in Act
    BY CancelAct
<1>2. CancelRest \in {<<a>>, <<>>}
    BY DEF CancelRest
<1> HIDE DEF a
<1>3. <<a>> \in Seq(Act) /\ <<>> \in Seq(Act)
    BY <1>1, EmptySeq
<1> QED
    BY <1>2, <1>3

\* The user's requests.
LEMMA RequestActions ==
    ASSUME Inv, Requests
    PROVE  Inv'
<1> USE DEF Inv
<1>Pause. ASSUME Pause
      PROVE  Inv'
    <2>log. LogOK'
        BY <1>Pause DEF Pause, LogOK, log
    <2>acts. ActsOK'
        BY <1>Pause DEF Pause, ActsOK
    <2>rt. RtOK'
        <3> DEFINE R == WithPaused(rt, cur, TRUE)
        <3>1. rt' = Request(R, cur) /\ cur' = cur
            BY <1>Pause DEF Pause, WithPaused
        <3>2. R \in Seq(Awake) /\ Len(R) = Len(rt)
            BY PausedField DEF RtOK
        <3> HIDE DEF R
        <3> QED
            BY <3>1, <3>2, RequestFacts DEF RtOK
    <2>rest. RestOK'
        <3>1. /\ go' = FALSE /\ ops' \in 0..MaxOps /\ crashes' = crashes /\ booting' = booting
              /\ UNCHANGED <<meter, disp, claimed, unmerged, blind>>
            BY <1>Pause, EngineAssumption DEF Pause, Request1, RestOK, tree
        <3>2. go' \in BOOLEAN
            BY <3>1
        <3> QED
            BY <1>Pause, <3>1, <3>2 DEF Pause, RestOK
    <2> QED
        BY <2>log, <2>acts, <2>rt, <2>rest DEF Inv
<1>Cancel. ASSUME Cancel
      PROVE  Inv'
    <2>ab. aborted' \subseteq Nodes \X Nat
        <3>1. \/ aborted' = aborted
              \/ cur # 0 /\ aborted' = aborted \cup {<<n, rt[cur].inFlight[n]>> : n \in InFlightOf(rt[cur])}
            BY <1>Cancel DEF Cancel, CancelNow
        <3>2. cur # 0 => rt[cur] \in Awake
            BY ElementOfSeq, LenProperties DEF RtOK
        <3>3. cur # 0 => \A n \in InFlightOf(rt[cur]) : n \in Nodes /\ rt[cur].inFlight[n] \in Nat
            BY <3>2 DEF InFlightOf, Awake, Runtime
        <3> QED
            BY <3>1, <3>3 DEF RestOK
    <2>log. LogOK'
        BY <1>Cancel DEF Cancel, LogOK, log
    <2>acts. ActsOK'
        <3>1. q' \in {q, q \o CancelRest} /\ working' = working
            BY <1>Cancel DEF Cancel
        <3> QED
            BY <3>1, CancelRestFacts, ConcatProperties DEF ActsOK
    <2>rt. RtOK'
        <3>1. /\ cur' = cur /\ rt' = WithFailed(rt, cur, TRUE)
            BY <1>Cancel DEF Cancel, CancelNow, WithFailed
        <3> QED
            BY <3>1, FailedField DEF RtOK
    <2>rest. RestOK'
        <3>1. /\ go' = FALSE /\ ops' \in 0..MaxOps /\ crashes' = crashes /\ booting' = booting
              /\ UNCHANGED <<meter, disp, claimed, unmerged, blind>>
            BY <1>Cancel, EngineAssumption DEF Cancel, Request1, RestOK, tree
        <3>2. go' \in BOOLEAN
            BY <3>1
        <3> QED
            BY <2>ab, <3>1, <3>2 DEF RestOK
    <2> QED
        BY <2>log, <2>acts, <2>rt, <2>rest DEF Inv
<1>Delete. ASSUME Delete
      PROVE  Inv'
    <2>ab. aborted' \subseteq Nodes \X Nat
        <3>1. \/ aborted' = aborted
              \/ cur # 0 /\ aborted' = aborted \cup {<<n, rt[cur].inFlight[n]>> : n \in InFlightOf(rt[cur])}
            BY <1>Delete DEF Delete, CancelNow
        <3>2. cur # 0 => rt[cur] \in Awake
            BY ElementOfSeq, LenProperties DEF RtOK
        <3>3. cur # 0 => \A n \in InFlightOf(rt[cur]) : n \in Nodes /\ rt[cur].inFlight[n] \in Nat
            BY <3>2 DEF InFlightOf, Awake, Runtime
        <3> QED
            BY <3>1, <3>3 DEF RestOK
    <2>log. LogOK'
        BY <1>Delete DEF Delete, LogOK, log
    <2>acts. ActsOK'
        <3> DEFINE d == [Blank EXCEPT !.k = "del"]
        <3>1. q' \in {Append(q, d), q \o <<d>> \o CancelRest} /\ working' = working
            BY <1>Delete DEF Delete
        <3>2. d \in Act
            BY DeleteAct
        <3> HIDE DEF d
        <3>3. <<d>> \in Seq(Act)
            BY <3>2
        <3>4. q \o <<d>> \in Seq(Act)
            BY <3>3, ConcatProperties DEF ActsOK
        <3>5. q \o <<d>> \o CancelRest \in Seq(Act)
            BY <3>4, CancelRestFacts, ConcatProperties
        <3>6. Append(q, d) \in Seq(Act)
            BY <3>2, AppendProperties DEF ActsOK
        <3> QED
            BY <3>1, <3>5, <3>6 DEF ActsOK
    <2>rt. RtOK'
        <3>1. cur' = cur /\ rt' \in {rt, WithFailed(rt, cur, TRUE)}
            BY <1>Delete DEF Delete, CancelNow, WithFailed
        <3> QED
            BY <3>1, FailedField DEF RtOK
    <2>rest. RestOK'
        <3>1. /\ go' = FALSE /\ ops' \in 0..MaxOps /\ crashes' = crashes /\ booting' = booting
              /\ UNCHANGED <<meter, disp, claimed, unmerged, blind>>
            BY <1>Delete, EngineAssumption DEF Delete, Request1, RestOK, tree
        <3>2. go' \in BOOLEAN
            BY <3>1
        <3> QED
            BY <2>ab, <3>1, <3>2 DEF RestOK
    <2> QED
        BY <2>log, <2>acts, <2>rt, <2>rest DEF Inv
<1>Resume. ASSUME Resume
      PROVE  Inv'
    <2>log. LogOK'
        BY <1>Resume DEF Resume, LogOK, log
    <2>acts. ActsOK'
        BY <1>Resume, BlankFacts, AppendProperties DEF Resume, ActsOK
    <2>rt. RtOK'
        <3> DEFINE R == WithPaused(Ensured, EnsuredId, FALSE)
        <3>1. rt' = WithFailed(R, EnsuredId, FALSE) /\ cur' = EnsuredId
            BY <1>Resume DEF Resume, WithFailed, WithPaused
        <3>2. R \in Seq(Awake) /\ Len(R) = Len(Ensured)
            BY EnsuredFacts, PausedField DEF RtOK
        <3> HIDE DEF R
        <3>3. rt' \in Seq(Awake) /\ Len(rt') = Len(Ensured)
            BY <3>1, <3>2, FailedField
        <3> QED
            BY <3>1, <3>3, EnsuredEntry DEF RtOK
    <2>rest. RestOK'
        BY <1>Resume, EngineAssumption DEF Resume, Request1, RestOK, tree, ctl
    <2> QED
        BY <2>log, <2>acts, <2>rt, <2>rest DEF Inv
<1>Approve. ASSUME NEW n \in Nodes, Approve(n)
      PROVE  Inv'
    <2>log. LogOK'
        BY <1>Approve DEF Approve, LogOK, log
    <2>acts. ActsOK'
        <3> DEFINE v == IF runs[n] = <<>> THEN 1 ELSE runs[n][Len(runs[n])].ver
        <3>1. q' = Append(q, [Blank EXCEPT !.k = "ap1", !.n = n, !.v = v]) /\ working' = working
            BY <1>Approve DEF Approve
        <3>2. v \in Nat
            <4>1. runs[n] \in Seq(RunRec)
                BY <1>Approve DEF LogOK
            <4>2. runs[n] # <<>> => Len(runs[n]) \in 1..Len(runs[n])
                BY <4>1, EmptySeq
            <4>3. runs[n] # <<>> => runs[n][Len(runs[n])] \in RunRec
                BY <4>1, <4>2, ElementOfSeq
            <4> QED
                BY <4>3 DEF RunRec
        <3> HIDE DEF v
        <3>3. [Blank EXCEPT !.k = "ap1", !.n = n, !.v = v] \in Act
            BY <1>Approve, <3>2, ApproveAct
        <3> QED
            BY <3>1, <3>3, AppendProperties DEF ActsOK
    <2>rt. RtOK'
        BY <1>Approve DEF Approve, RtOK
    <2>rest. RestOK'
        BY <1>Approve, EngineAssumption DEF Approve, Request1, RestOK, tree, ctl
    <2> QED
        BY <2>log, <2>acts, <2>rt, <2>rest DEF Inv
<1>Rerun. ASSUME NEW n \in Nodes, Rerun(n)
      PROVE  Inv'
    <2>log. LogOK'
        BY <1>Rerun DEF Rerun, LogOK, log
    <2>acts. ActsOK'
        <3> DEFINE own == [n |-> 0, g |-> 0]
        <3>1. q' = Append(q, RerunAct(n, own)) /\ working' = working
            BY <1>Rerun DEF Rerun
        <3>2. own \in [n : Nodes \cup {0}, g : Nat]
            OBVIOUS
        <3> HIDE DEF own
        <3>3. RerunAct(n, own) \in Act
            BY <1>Rerun, <3>2, RerunActFacts
        <3> QED
            BY <3>1, <3>3, AppendProperties DEF ActsOK
    <2>rt. RtOK'
        <3>1. rt' = WithFailed(Ensured, EnsuredId, FALSE) /\ cur' = EnsuredId
            BY <1>Rerun DEF Rerun, WithFailed
        <3>2. rt' \in Seq(Awake) /\ Len(rt') = Len(Ensured)
            BY <3>1, EnsuredFacts, FailedField DEF RtOK
        <3> QED
            BY <3>1, <3>2, EnsuredEntry DEF RtOK
    <2>rest. RestOK'
        BY <1>Rerun, EngineAssumption DEF Rerun, Request1, RestOK, tree, ctl
    <2> QED
        BY <2>log, <2>acts, <2>rt, <2>rest DEF Inv
<1> QED
    BY <1>Pause, <1>Cancel, <1>Delete, <1>Resume, <1>Approve, <1>Rerun DEF Requests

\* The first state has its types.
LEMMA InvInit == Init => Inv
<1> SUFFICES ASSUME Init PROVE Inv
    OBVIOUS
<1>1. LogOK
    BY EmptySeq DEF Init, LogOK, PhaseStatus, TaskStatus
<1>2. ActsOK
    <2>1. <<Blank>> \in Seq(Act)
        BY BlankFacts
    <2> QED
        BY <2>1 DEF Init, ActsOK
<1>3. RtOK
    <2> DEFINE r == NewRuntime
    <2>1. r \in Awake
        BY NewRuntimeAwake
    <2> HIDE DEF r
    <2>2. <<r>> \in Seq(Awake) /\ Len(<<r>>) = 1
        BY <2>1
    <2> QED
        BY <2>2 DEF Init, RtOK, r
<1>4. RestOK
    <2>1. /\ meter = "clear" /\ aborted = {} /\ disp = [n \in Nodes |-> 0]
          /\ claimed = FALSE /\ unmerged = {} /\ blind = FALSE /\ booting = FALSE
          /\ ops = 0 /\ crashes = 0 /\ go = TRUE
        BY DEF Init
    <2>2. claimed \in BOOLEAN /\ blind \in BOOLEAN /\ booting \in BOOLEAN /\ go \in BOOLEAN
        BY <2>1
    <2>3. ops \in 0..MaxOps /\ crashes \in 0..MaxCrashes
        BY <2>1, EngineAssumption
    <2> QED
        BY <2>1, <2>2, <2>3 DEF RestOK
<1> QED
    BY <1>1, <1>2, <1>3, <1>4 DEF Inv

\* Every step keeps them.
LEMMA InvNext == Inv /\ [Next]_vars => Inv'
<1> SUFFICES ASSUME Inv, [Next]_vars PROVE Inv'
    OBVIOUS
<1>1. CASE Sync
    BY <1>1, LoopActions, AfterwardsActions DEF Sync
<1>2. CASE LoopIo
    BY <1>2, LoopActions DEF LoopIo
<1>3. CASE Turn
    BY <1>3, RunActions, AfterwardsActions DEF Turn
<1>4. CASE Appended
    <2>1. \/ Kick \/ Suspend \/ Finalize \/ CancelFinalize \/ Tombstone \/ BudgetReported => Inv'
        BY SettlingActions
    <2>2. PhaseRunning \/ RunStarted \/ RunDone \/ PhaseDone => Inv'
        BY RunActions
    <2>3. BudgetPending \/ DownstreamFailed \/ Escalate => Inv'
        BY AfterwardsActions
    <2>4. RerunRunning \/ RerunSupersede \/ RerunInvalidate \/ RerunPending \/ RerunExecute => Inv'
        BY RerunActions
    <2>5. ApproveRun \/ ApproveDone \/ BootRunFailed \/ BootPending \/ BootPaused => Inv'
        BY ApprovalBootActions
    <2> QED
        BY <1>4, <2>1, <2>2, <2>3, <2>4, <2>5 DEF Appended
<1>5. CASE BootScan \/ Crash
    BY <1>5, ApprovalBootActions
<1>6. CASE Requests
    BY <1>6, RequestActions
<1>7. CASE \E w \in working : Overspend(w)
    BY <1>7, RunActions
<1>8. CASE UNCHANGED vars
    BY <1>8 DEF vars, log, tree, ctl, Inv, LogOK, ActsOK, RtOK, RestOK
<1> QED
    BY <1>1, <1>2, <1>3, <1>4, <1>5, <1>6, <1>7, <1>8 DEF Next, EngineStep, Idle

\* The invariant of every behaviour.
LEMMA InvAlways == Spec => []Inv
BY InvInit, InvNext, PTL DEF Spec

\* The engine's state always has its type, for every workflow, cap, gate
\* setting and number of requests and crashes.
THEOREM TypeCorrect == Spec => []TypeOK
<1>1. Inv => TypeOK
    <2> SUFFICES ASSUME Inv PROVE RuntimesOK
        BY DEF Inv, TypeOK
    <2>1. Awake \subseteq Runtime
        BY DEF Awake
    <2>2. rt \in Seq(Runtime)
        BY <2>1 DEF Inv, RtOK
    <2> QED
        BY <2>2 DEF Inv, RtOK, RuntimesOK
<1> QED
    BY <1>1, InvAlways, PTL

\* No schedule request is lost: whenever requestSchedule has asked a runtime
\* for a pass, the runtime's loop is running and will make it.
THEOREM WakeupsKept == Spec => []NoLostWakeup
<1>1. Inv => NoLostWakeup
    <2> SUFFICES ASSUME Inv, NEW g \in 1..Len(rt), rt[g].rescan PROVE rt[g].pc # "idle"
        BY DEF NoLostWakeup
    <2>1. rt[g] \in Awake
        BY ElementOfSeq DEF Inv, RtOK
    <2> QED
        BY <2>1 DEF Awake
<1> QED
    BY <1>1, InvAlways, PTL

-----------------------------------------------------------------------------

\* At most one activation, in the queue Q or among the runs W, holds the
\* project's tree, and none does unless the tree is claimed (c).
Alone(Q, W, c) ==
    /\ \A i, j \in 1..Len(Q) : Q[i].tree = "base" /\ Q[j].tree = "base" => i = j
    /\ \A w, x \in W : w.tree = "base" /\ x.tree = "base" => w = x
    /\ \A i \in 1..Len(Q) : \A w \in W : ~(Q[i].tree = "base" /\ w.tree = "base")
    /\ ~c => /\ \A i \in 1..Len(Q) : Q[i].tree # "base"
             /\ \A w \in W : w.tree # "base"

\* Appending to a queue, whatever is appended.
LEMMA Appending ==
    ASSUME NEW Q \in Seq(Act), NEW b
    PROVE  /\ Len(Q) \in Nat /\ Len(Append(Q, b)) = Len(Q) + 1
           /\ Append(Q, b)[Len(Q) + 1] = b
           /\ \A i \in 1..Len(Q) : Append(Q, b)[i] = Q[i]
<1>1. Q \in Seq(Act \cup {b}) /\ b \in Act \cup {b}
    OBVIOUS
<1> QED
    BY <1>1, AppendProperties, LenProperties

\* What is in a queue that is extended.
LEMMA RangeAppend ==
    ASSUME NEW Q \in Seq(Act), NEW b
    PROVE  SeqRange(Append(Q, b)) = SeqRange(Q) \cup {b}
<1> DEFINE R == Append(Q, b)
<1>1. /\ Len(Q) \in Nat /\ Len(R) = Len(Q) + 1 /\ R[Len(Q) + 1] = b
      /\ \A i \in 1..Len(Q) : R[i] = Q[i]
    BY Appending
<1> HIDE DEF R
<1>2. 1..Len(R) = 1..Len(Q) \cup {Len(Q) + 1}
    BY <1>1
<1>3. {R[i] : i \in 1..Len(R)} = {Q[i] : i \in 1..Len(Q)} \cup {b}
    BY <1>1, <1>2
<1> QED
    BY <1>3 DEF SeqRange, R

\* The queue without its head.
LEMMA TailOf ==
    ASSUME NEW Q \in Seq(Act), Q # <<>>
    PROVE  /\ Tail(Q) \in Seq(Act) /\ Head(Q) \in Act /\ Head(Q) = Q[1] /\ 1 \in 1..Len(Q)
           /\ Len(Q) \in Nat /\ Len(Tail(Q)) = Len(Q) - 1
           /\ \A i \in 1..Len(Tail(Q)) : Tail(Q)[i] = Q[i + 1] /\ i + 1 \in 1..Len(Q)
           /\ SeqRange(Q) = SeqRange(Tail(Q)) \cup {Head(Q)}
<1> DEFINE R == Tail(Q)
<1>1. /\ R \in Seq(Act) /\ Head(Q) \in Act /\ Len(R) = Len(Q) - 1
      /\ Len(Q) \in Nat /\ 1 \in 1..Len(Q) /\ Head(Q) = Q[1]
      /\ \A i \in 1..Len(R) : R[i] = Q[i + 1]
    BY HeadTailProperties, EmptySeq, LenProperties
<1> HIDE DEF R
<1>2. \A i \in 1..Len(R) : i + 1 \in 1..Len(Q) /\ R[i] = Q[i + 1]
    BY <1>1
<1>3. \A i \in 1..Len(Q) : i = 1 \/ (i - 1 \in 1..Len(R) /\ R[i - 1] = Q[i])
    BY <1>1
<1>4. SeqRange(Q) = SeqRange(R) \cup {Q[1]}
    <2>1. ASSUME NEW i \in 1..Len(Q)
          PROVE  Q[i] \in {R[j] : j \in 1..Len(R)} \cup {Q[1]}
        BY <1>3
    <2>2. ASSUME NEW i \in 1..Len(R)
          PROVE  R[i] \in {Q[j] : j \in 1..Len(Q)}
        BY <1>2
    <2> QED
        BY <1>1, <2>1, <2>2 DEF SeqRange
<1> QED
    BY <1>1, <1>2, <1>4 DEF R

\* An activation without the tree is queued.
LEMMA AloneAppend ==
    ASSUME NEW Q \in Seq(Act), NEW W, NEW c, Alone(Q, W, c), NEW b, b.tree # "base"
    PROVE  Alone(Append(Q, b), W, c)
<1> DEFINE R == Append(Q, b)
<1>1. \A i \in 1..Len(R) : R[i].tree = "base" => i \in 1..Len(Q) /\ R[i] = Q[i]
    BY Appending
<1> HIDE DEF R
<1> QED
    BY <1>1 DEF Alone, R

\* The head of the queue is done.
LEMMA AloneTail ==
    ASSUME NEW Q \in Seq(Act), Q # <<>>, NEW W, NEW c, Alone(Q, W, c)
    PROVE  /\ Alone(Tail(Q), W, c)
           /\ Tail(Q) \in Seq(Act) /\ Head(Q) \in Act
           /\ Head(Q).tree = "base" =>
                /\ c
                /\ \A i \in 1..Len(Tail(Q)) : Tail(Q)[i].tree # "base"
                /\ \A w \in W : w.tree # "base"
<1> DEFINE R == Tail(Q)
<1>1. /\ R \in Seq(Act) /\ Head(Q) \in Act /\ Len(R) = Len(Q) - 1
      /\ Len(Q) \in Nat /\ 1 \in 1..Len(Q) /\ Head(Q) = Q[1]
      /\ \A i \in 1..Len(R) : R[i] = Q[i + 1]
    BY HeadTailProperties, EmptySeq, LenProperties
<1>2. \A i \in 1..Len(R) : i + 1 \in 1..Len(Q) /\ i + 1 # 1 /\ R[i] = Q[i + 1] /\ i \in Int
    BY <1>1
<1> HIDE DEF R
<1>3. ASSUME NEW i \in 1..Len(R), NEW j \in 1..Len(R), R[i].tree = "base", R[j].tree = "base"
      PROVE  i = j
    <2>1. i + 1 = j + 1
        BY <1>2, <1>3 DEF Alone
    <2> QED
        BY <1>2, <2>1
<1>4. Alone(R, W, c)
    BY <1>2, <1>3 DEF Alone
<1>5. ASSUME Head(Q).tree = "base"
      PROVE  /\ c
             /\ \A i \in 1..Len(R) : R[i].tree # "base"
             /\ \A w \in W : w.tree # "base"
    BY <1>1, <1>2, <1>5 DEF Alone
<1> QED
    BY <1>1, <1>4, <1>5 DEF R

\* The head of the queue goes on to its next append, with its tree or without.
LEMMA AloneHeadNext ==
    ASSUME NEW Q \in Seq(Act), Q # <<>>, NEW W, NEW c, Alone(Q, W, c),
           NEW b, b.tree \in {Head(Q).tree, "none"}
    PROVE  Alone(Append(Tail(Q), b), W, c)
<1> DEFINE T == Tail(Q)
           R == Append(T, b)
<1>1. /\ Alone(T, W, c) /\ T \in Seq(Act)
      /\ Head(Q).tree = "base" =>
            /\ c
            /\ \A i \in 1..Len(T) : T[i].tree # "base"
            /\ \A w \in W : w.tree # "base"
    BY AloneTail
<1> HIDE DEF T
<1>2. CASE b.tree = "base"
    <2>1. /\ c
          /\ \A i \in 1..Len(T) : T[i].tree # "base"
          /\ \A w \in W : w.tree # "base"
        BY <1>1, <1>2
    <2>2. \A i \in 1..Len(R) : R[i].tree = "base" => i = Len(T) + 1
        BY <1>1, <2>1, Appending
    <2> HIDE DEF R
    <2> QED
        BY <2>1, <2>2 DEF Alone, R, T
<1>3. CASE b.tree # "base"
    BY <1>1, <1>3, AloneAppend DEF T
<1> QED
    BY <1>2, <1>3

\* The head of the queue goes back to work.
LEMMA AloneHeadWorks ==
    ASSUME NEW Q \in Seq(Act), Q # <<>>, NEW W, NEW c, Alone(Q, W, c),
           NEW b, b.tree = Head(Q).tree
    PROVE  Alone(Tail(Q), W \cup {b}, c)
<1> DEFINE T == Tail(Q)
<1>1. /\ Alone(T, W, c)
      /\ Head(Q).tree = "base" =>
            /\ c
            /\ \A i \in 1..Len(T) : T[i].tree # "base"
            /\ \A w \in W : w.tree # "base"
    BY AloneTail
<1> HIDE DEF T
<1> QED
    BY <1>1 DEF Alone, T

\* A run has something appended: it leaves the work for the queue.
LEMMA AloneLeavesWork ==
    ASSUME NEW Q \in Seq(Act), NEW W, NEW c, Alone(Q, W, c), NEW w \in W,
           NEW b, b.tree = w.tree
    PROVE  Alone(Append(Q, b), W \ {w}, c)
<1> DEFINE R == Append(Q, b)
           V == W \ {w}
<1>1. CASE b.tree = "base"
    <2>1. /\ c
          /\ \A i \in 1..Len(Q) : Q[i].tree # "base"
          /\ \A x \in V : x.tree # "base"
        BY <1>1 DEF Alone
    <2>2. \A i \in 1..Len(R) : R[i].tree = "base" => i = Len(Q) + 1
        BY <2>1, Appending
    <2> HIDE DEF R, V
    <2> QED
        BY <2>1, <2>2 DEF Alone, R, V
<1>2. CASE b.tree # "base"
    <2>1. Alone(Q, V, c)
        BY DEF Alone
    <2> HIDE DEF V
    <2> QED
        BY <1>2, <2>1, AloneAppend DEF V
<1> QED
    BY <1>1, <1>2

\* A run is over and gives its tree back.
LEMMA AloneReleased ==
    ASSUME NEW Q \in Seq(Act), NEW W, NEW c, Alone(Q, W, c), NEW w \in W
    PROVE  Alone(Q, W \ {w}, IF w.tree = "base" THEN FALSE ELSE c)
BY DEF Alone

\* The activations that hold the project's tree.
Holders(Q, W) == {w \in W \cup SeqRange(Q) : w.tree = "base"}
Bearing == {"llm", "done1", "done2", "release"}

\* A claimed tree is held, and only by a run between its turn and its release.
HolderOK(Q, W, c) ==
    /\ c => Holders(Q, W) # {}
    /\ \A x \in Holders(Q, W) : x.k \in Bearing

\* The project's tree is held at most once, and exactly while it is claimed.
BaseInv == Alone(q, working, claimed) /\ HolderOK(q, working, claimed)

\* A step of the log's queue whose head holds no tree.
LEMMA HolderHead ==
    ASSUME Inv, BaseInv, q # <<>>, Head(q).k \notin Bearing,
           working' = working, claimed' = claimed,
           \/ q' = Tail(q)
           \/ \E b : b.tree \in {Head(q).tree, "none"} /\ q' = Append(Tail(q), b)
    PROVE  HolderOK(q', working', claimed')
<1>1. q \in Seq(Act)
    BY DEF Inv, ActsOK
<1>2. Tail(q) \in Seq(Act) /\ SeqRange(q) = SeqRange(Tail(q)) \cup {Head(q)}
    BY <1>1, TailOf
<1>3. Head(q).tree # "base"
    BY <1>2 DEF BaseInv, HolderOK, Holders
<1>4. Holders(Tail(q), working) = Holders(q, working)
    BY <1>2, <1>3 DEF Holders
<1>5. ASSUME NEW b, b.tree # "base", q' = Append(Tail(q), b)
      PROVE  Holders(q', working) = Holders(q, working)
    <2>1. SeqRange(q') = SeqRange(Tail(q)) \cup {b}
        BY <1>2, <1>5, RangeAppend
    <2> QED
        BY <1>4, <1>5, <2>1 DEF Holders
<1>6. Holders(q', working') = Holders(q, working)
    BY <1>3, <1>4, <1>5
<1> QED
    BY <1>6 DEF BaseInv, HolderOK

\* An activation without the tree is queued.
LEMMA HolderAppend ==
    ASSUME NEW Q \in Seq(Act), NEW W, NEW c, HolderOK(Q, W, c), NEW b, b.tree # "base"
    PROVE  HolderOK(Append(Q, b), W, c)
<1>1. Holders(Append(Q, b), W) = Holders(Q, W)
    BY RangeAppend DEF Holders
<1> QED
    BY <1>1 DEF HolderOK

\* The activations that have just done their last append.
LEMMA BaseTail ==
    ASSUME Inv, BaseInv,
           \/ Kick \/ Suspend \/ Finalize \/ CancelFinalize \/ Tombstone
           \/ BudgetReported \/ Escalate \/ BootPaused
    PROVE  BaseInv'
<1>1. q # <<>> /\ q' = Tail(q) /\ working' = working /\ claimed' = claimed
      /\ Head(q).k \notin Bearing
    BY DEF Kick, Suspend, Finalize, CancelFinalize, Tombstone, BudgetReported, Escalate,
           BootPaused, At, tree, Bearing
<1>2. q \in Seq(Act)
    BY DEF Inv, ActsOK
<1>3. Alone(q', working', claimed')
    BY <1>1, <1>2, AloneTail DEF BaseInv
<1> QED
    BY <1>1, <1>3, HolderHead DEF BaseInv

\* The activations that have another append to do keep their tree or have none.
LEMMA HeadKeepsTree ==
    ASSUME Inv, q # <<>>,
           \/ PhaseRunning \/ RunDone \/ BudgetPending \/ DownstreamFailed
           \/ RerunRunning \/ RerunSupersede \/ RerunInvalidate \/ RerunPending \/ RerunExecute
           \/ ApproveRun \/ ApproveDone \/ BootRunFailed \/ BootPending
    PROVE  \/ q' = Tail(q)
           \/ \E b : b.tree \in {Head(q).tree, "none"} /\ q' = Append(Tail(q), b)
<1> DEFINE a == Head(q)
<1>0. q \in Seq(Act) /\ a \in Act
    BY HeadTailProperties DEF Inv, ActsOK
<1>1. \A k : GoTo(a, k).tree = a.tree
    BY <1>0 DEF GoTo, Act, ActRec
<1>2. CASE PhaseRunning
    <2>1. q' = Append(Tail(q), GoTo(a, "run2"))
        BY <1>2 DEF PhaseRunning, Next1, GoTo
    <2> QED
        BY <1>1, <2>1
<1>3. CASE RunDone
    <2>1. q' = Append(Tail(q), GoTo(a, "done2"))
        BY <1>3 DEF RunDone, Next1, GoTo
    <2> QED
        BY <1>1, <2>1
<1>4. CASE BudgetPending
    <2>1. q' = Tail(q) \/ q' = Append(Tail(q), GoTo(a, "stop"))
        BY <1>4 DEF BudgetPending, Next1, GoTo
    <2> QED
        BY <1>1, <2>1
<1>5. CASE DownstreamFailed
    <2> DEFINE S == StillPending(a.left \ {a.i})
               b == [a EXCEPT !.left = S, !.i = Least(S)]
    <2>1. b.tree = a.tree
        BY <1>0 DEF Act, ActRec
    <2>2. q' = Tail(q) \/ q' = Append(Tail(q), b)
        BY <1>5 DEF DownstreamFailed, Next1
    <2> HIDE DEF b
    <2> QED
        BY <2>1, <2>2
<1>6. CASE RerunRunning
    <2>1. a.k = "rr1" /\ q' = Append(Tail(q), SupersedeOwn(a, runs))
        BY <1>6 DEF RerunRunning, Next1, At
    <2>2. a.n # 0
        BY <1>0, <2>1, OfNode DEF TaskKinds
    <2>3. SupersedeOwn(a, runs).tree = a.tree
        BY <1>0, <2>1, <2>2, SupersedeOwnFacts DEF Inv, LogOK
    <2> QED
        BY <2>1, <2>3
<1>7. CASE RerunSupersede
    <2> DEFINE R == RunsWith(a.n, runs[a.n][a.i].ver, "superseded")
    <2>1. a.k = "rr2" /\ q' = Append(Tail(q), SupersedeOwn(a, R))
        BY <1>7 DEF RerunSupersede, Next1, At
    <2>2. a.n # 0
        BY <1>0, <2>1, OfNode DEF TaskKinds
    <2>3. R \in [Nodes -> Seq(RunRec)]
        BY RunsWithFacts DEF Inv, LogOK, RunStatus
    <2> HIDE DEF R
    <2>4. SupersedeOwn(a, R).tree = a.tree
        BY <1>0, <2>1, <2>2, <2>3, SupersedeOwnFacts
    <2> QED
        BY <2>1, <2>4
<1>8. CASE RerunInvalidate
    <2> DEFINE R == RunsWith(Least(a.left), runs[Least(a.left)][a.i].ver, "superseded")
    <2>1. a.k = "rr3" /\ q' = Append(Tail(q), Invalidate(a, R, a.left))
        BY <1>8 DEF RerunInvalidate, Next1, At
    <2>2. a.n # 0 /\ a.left \in SUBSET Nodes
        BY <1>0, <2>1, OfNode DEF TaskKinds, Act, ActRec
    <2>3. R \in [Nodes -> Seq(RunRec)]
        BY RunsWithFacts DEF Inv, LogOK, RunStatus
    <2> HIDE DEF R
    <2>4. Invalidate(a, R, a.left).tree = a.tree
        BY <1>0, <2>2, <2>3, InvalidateFacts
    <2> QED
        BY <2>1, <2>4
<1>9. CASE RerunPending
    <2> DEFINE L == a.left \ {Least(a.left)}
    <2>1. a.k = "rr4" /\ q' = Append(Tail(q), Invalidate(a, runs, L))
        BY <1>9 DEF RerunPending, Next1, At
    <2>2. a.n # 0 /\ L \in SUBSET Nodes
        BY <1>0, <2>1, OfNode DEF TaskKinds, Act, ActRec
    <2> HIDE DEF L
    <2>3. Invalidate(a, runs, L).tree = a.tree
        BY <1>0, <2>2, InvalidateFacts DEF Inv, LogOK
    <2> QED
        BY <2>1, <2>3
<1>10. CASE RerunExecute
    <2> DEFINE o == a.own.n # 0
    <2>1. PICK v : q' = Append(Tail(q), RunAct(a.n, v, o))
        BY <1>10 DEF RerunExecute, Next1
    <2>2. RunAct(a.n, v, o).tree = "none"
        BY DEF RunAct, Blank
    <2> HIDE DEF o
    <2> QED
        BY <2>1, <2>2
<1>11. CASE ApproveRun
    <2>1. q' = Append(Tail(q), GoTo(a, "ap2"))
        BY <1>11 DEF ApproveRun, Next1, GoTo
    <2> QED
        BY <1>1, <2>1
<1>12. CASE ApproveDone
    <2>1. q' = Append(Tail(q), Blank)
        BY <1>12 DEF ApproveDone, Next1
    <2> QED
        BY <2>1, BlankFacts
<1>13. CASE BootRunFailed
    <2>1. q' = Append(Tail(q), GoTo(a, "b2"))
        BY <1>13 DEF BootRunFailed, Next1, GoTo
    <2> QED
        BY <1>1, <2>1
<1>14. CASE BootPending
    <2>1. BootNext(phase, a.n).tree = "none"
        BY BootNextFacts DEF Inv, LogOK
    <2> QED
        BY <1>14, <2>1 DEF BootPending, Next1
<1> QED
    BY <1>2, <1>3, <1>4, <1>5, <1>6, <1>7, <1>8, <1>9, <1>10, <1>11, <1>12, <1>13, <1>14

LEMMA BaseHeadNext ==
    ASSUME Inv, BaseInv,
           \/ PhaseRunning \/ RunDone \/ BudgetPending \/ DownstreamFailed
           \/ RerunRunning \/ RerunSupersede \/ RerunInvalidate \/ RerunPending \/ RerunExecute
           \/ ApproveRun \/ ApproveDone \/ BootRunFailed \/ BootPending
    PROVE  BaseInv'
<1> DEFINE a == Head(q)
<1>1. q # <<>> /\ working' = working /\ claimed' = claimed
    BY DEF PhaseRunning, RunDone, BudgetPending, DownstreamFailed,
           RerunRunning, RerunSupersede, RerunInvalidate, RerunPending, RerunExecute,
           ApproveRun, ApproveDone, BootRunFailed, BootPending, At, tree
<1>2. q \in Seq(Act) /\ a \in Act
    BY <1>1, HeadTailProperties DEF Inv, ActsOK
<1>3. \/ q' = Tail(q)
      \/ \E b : b.tree \in {a.tree, "none"} /\ q' = Append(Tail(q), b)
    BY <1>1, HeadKeepsTree
<1>4. Alone(q', working', claimed')
    <2>1. CASE q' = Tail(q)
        BY <1>1, <1>2, <2>1, AloneTail DEF BaseInv
    <2>2. CASE \E b : b.tree \in {a.tree, "none"} /\ q' = Append(Tail(q), b)
        BY <1>1, <1>2, <2>2, AloneHeadNext DEF BaseInv
    <2> QED
        BY <1>3, <2>1, <2>2
<1>5. HolderOK(q', working', claimed')
    <2>1. CASE RunDone
        <3> DEFINE b == [a EXCEPT !.k = "done2"]
        <3>1. q' = Append(Tail(q), b) /\ b.k = "done2" /\ b.tree = a.tree
            BY <1>2, <2>1 DEF RunDone, Next1, Act, ActRec
        <3>2. SeqRange(q) = SeqRange(Tail(q)) \cup {a} /\ Tail(q) \in Seq(Act)
            BY <1>1, <1>2, TailOf
        <3> HIDE DEF b
        <3>3. SeqRange(q') = SeqRange(Tail(q)) \cup {b}
            BY <3>1, <3>2, RangeAppend
        <3>4. HolderOK(q, working, claimed)
            BY DEF BaseInv
        <3> HIDE DEF a
        <3>5. \A x \in Holders(q, working) : \E y \in Holders(q', working) : TRUE
            BY <3>1, <3>2, <3>3 DEF Holders
        <3>6. \A x \in Holders(q', working) : x \in Holders(q, working) \/ x.k = "done2"
            BY <3>1, <3>2, <3>3 DEF Holders
        <3> QED
            BY <1>1, <3>4, <3>5, <3>6 DEF HolderOK, Bearing
    <2>2. CASE ~RunDone
        <3>1. a.k \notin Bearing
            BY <2>2 DEF PhaseRunning, BudgetPending, DownstreamFailed,
                   RerunRunning, RerunSupersede, RerunInvalidate, RerunPending, RerunExecute,
                   ApproveRun, ApproveDone, BootRunFailed, BootPending, At, Bearing
        <3> QED
            BY <1>1, <1>3, <3>1, HolderHead
    <2> QED
        BY <2>1, <2>2
<1> QED
    BY <1>4, <1>5 DEF BaseInv

\* The runs: begin, get their tree, end, release it.
LEMMA BaseStarts ==
    ASSUME Inv, BaseInv, RunStarted \/ PhaseDone
    PROVE  BaseInv'
<1>1. q \in Seq(Act) /\ (q # <<>> => Head(q) \in Act)
    BY HeadTailProperties DEF Inv, ActsOK
<1>2. RunStarted \/ PhaseDone
    OBVIOUS
<1>3. \A k : Head(q) \in Act => [Head(q) EXCEPT !.k = k].tree = Head(q).tree
    BY DEF Act, ActRec
<1>4. q # <<>> /\ q' = Tail(q) /\ claimed' = claimed
    BY <1>2 DEF RunStarted, PhaseDone, At, tree
<1>5. PICK k : /\ working' = working \cup {[Head(q) EXCEPT !.k = k]}
               /\ Head(q).k \in Bearing => k \in Bearing
    BY <1>2 DEF RunStarted, PhaseDone, At, Bearing
<1> DEFINE b == [Head(q) EXCEPT !.k = k]
<1>6. b.tree = Head(q).tree /\ b.k = k /\ working' = working \cup {b}
    BY <1>1, <1>3, <1>4, <1>5 DEF Act, ActRec
<1> HIDE DEF b
<1>7. Alone(q', working', claimed')
    BY <1>1, <1>4, <1>6, AloneHeadWorks DEF BaseInv
<1>8. SeqRange(q) = SeqRange(q') \cup {Head(q)}
    BY <1>1, <1>4, TailOf
<1>9. \A x \in Holders(q, working) : x \in Holders(q', working') \/ b \in Holders(q', working')
    BY <1>6, <1>8 DEF Holders
<1>10. \A x \in Holders(q', working') :
         x \in Holders(q, working) \/ (x = b /\ Head(q) \in Holders(q, working))
    BY <1>6, <1>8 DEF Holders
<1>11. HolderOK(q', working', claimed')
    BY <1>4, <1>5, <1>6, <1>9, <1>10 DEF BaseInv, HolderOK
<1> QED
    BY <1>7, <1>11 DEF BaseInv

\* A run that gets its tree, ends its turn or gives its tree back.
LEMMA BaseWorking ==
    ASSUME Inv, BaseInv, NEW w \in working, Gather(w) \/ Finish(w) \/ Release(w)
    PROVE  BaseInv'
<1>1. q \in Seq(Act) /\ w \in Act
    BY DEF Inv, ActsOK
<1>3. ASSUME Gather(w)
      PROVE  BaseInv'
    <2> DEFINE ins == [m \in Nodes |-> IF m \in Upstream(w.n) THEN LatestDone(m) ELSE 0]
    <2>1. PICK t \in Workspace :
            q' = q /\ claimed' = (claimed \/ t = "base")
            /\ working' = (working \ {w}) \cup {BeginTurn(w, t, ins)}
        BY <1>3 DEF Gather, BeginTurn
    <2> DEFINE b == BeginTurn(w, t, ins)
    <2>2. b.tree = t /\ b.k = "llm" /\ (t = "base" => ~claimed) /\ w.k = "setup"
        BY <1>1, <1>3 DEF Gather, BeginTurn, Act, ActRec, Workspace
    <2>3. q' = q /\ claimed' = (claimed \/ t = "base") /\ working' = (working \ {w}) \cup {b}
        BY <2>1
    <2> HIDE DEF b
    <2>4. Alone(q, working, claimed) /\ HolderOK(q, working, claimed)
        BY DEF BaseInv
    <2>5. w.tree # "base"
        BY <2>2, <2>4 DEF HolderOK, Holders, Bearing
    <2>6. Alone(q, (working \ {w}) \cup {b}, claimed \/ t = "base")
        <3>1. CASE t # "base"
            BY <2>2, <2>4, <3>1 DEF Alone
        <3>2. CASE t = "base"
            <4>1. ~claimed
                BY <2>2, <3>2
            <4> QED
                BY <2>4, <4>1, <3>2 DEF Alone
        <3> QED
            BY <3>1, <3>2
    <2>7. Holders(q, (working \ {w}) \cup {b}) = Holders(q, working) \cup {x \in {b} : t = "base"}
        BY <2>2, <2>5 DEF Holders
    <2>8. HolderOK(q, (working \ {w}) \cup {b}, claimed \/ t = "base")
        BY <2>2, <2>4, <2>7 DEF HolderOK, Bearing
    <2> QED
        BY <2>3, <2>6, <2>8 DEF BaseInv
<1>4. ASSUME Finish(w)
      PROVE  BaseInv'
    <2> DEFINE x(out, vd) == [w EXCEPT !.k = "done1", !.out = out, !.verdict = vd]
               y(out) == [w EXCEPT !.k = "done1", !.out = out]
    <2>1. /\ \A out, vd : x(out, vd).tree = w.tree /\ x(out, vd).k = "done1"
          /\ \A out : y(out).tree = w.tree /\ y(out).k = "done1"
        BY <1>1, <1>4 DEF Act, ActRec
    <2>2. working' = working \ {w} /\ claimed' = claimed
        BY <1>4 DEF Finish, tree
    <2>3. (\E out, vd : q' = Append(q, x(out, vd))) \/ (\E out : q' = Append(q, y(out)))
        BY <1>4 DEF Finish
    <2> HIDE DEF x, y
    <2>4. PICK b : b.tree = w.tree /\ b.k = "done1" /\ q' = Append(q, b)
        BY <2>1, <2>3
    <2>5. Alone(q', working', claimed')
        BY <1>1, <1>4, <2>2, <2>4, AloneLeavesWork DEF BaseInv
    <2>6. SeqRange(q') = SeqRange(q) \cup {b}
        BY <1>1, <2>4, RangeAppend
    <2>7. \A z \in Holders(q, working) : z \in Holders(q', working') \/ b \in Holders(q', working')
        BY <2>2, <2>4, <2>6 DEF Holders
    <2>8. \A z \in Holders(q', working') : z \in Holders(q, working) \/ z = b
        BY <2>2, <2>4, <2>6 DEF Holders
    <2>9. HolderOK(q', working', claimed')
        BY <2>2, <2>4, <2>7, <2>8 DEF BaseInv, HolderOK, Bearing
    <2> QED
        BY <2>5, <2>9 DEF BaseInv
<1>5. ASSUME Release(w)
      PROVE  BaseInv'
    <2> DEFINE W == working \ {w}
               c == IF w.tree = "base" THEN FALSE ELSE claimed
    <2>1. working' = W /\ claimed' = c
        BY <1>5 DEF Release, ReleaseWorkspace
    <2>2. Alone(q, W, c)
        BY <1>1, <1>5, AloneReleased DEF BaseInv
    <2>3. q' = q \/ \E b : b.tree # "base" /\ q' = Append(q, b)
        <3> DEFINE S == StillPending(Downstream(w.n))
                   own == [n |-> w.n, g |-> w.g]
                   x == RerunAct(GateTarget[w.n], own)
                   y == [w EXCEPT !.k = "pend", !.tree = "none"]
                   z == [w EXCEPT !.k = "esc", !.tree = "none"]
                   d == [w EXCEPT !.k = "mdf", !.tree = "none", !.left = S, !.i = Least(S)]
        <3>1. q' \in {q, Append(q, x), Append(q, y), Append(q, z), Append(q, d)}
            BY <1>5 DEF Release, ReleaseWorkspace
        <3>2. y.tree # "base" /\ z.tree # "base" /\ d.tree # "base"
            BY <1>1, <1>5 DEF Act, ActRec
        <3>3. x.tree # "base"
            BY DEF RerunAct, Blank
        <3> HIDE DEF x, y, z, d
        <3> QED
            BY <3>1, <3>2, <3>3
    <2>5. Holders(q, W) = {x \in Holders(q, working) : x # w}
        <3>1. w \in SeqRange(q) /\ w.tree = "base" => FALSE
            BY <1>5 DEF BaseInv, Alone, SeqRange
        <3> QED
            BY <3>1 DEF Holders
    <2>6. HolderOK(q, W, c)
        BY <2>5 DEF BaseInv, HolderOK, Holders
    <2> HIDE DEF W, c
    <2>4. Alone(q', W, c) /\ HolderOK(q', W, c)
        BY <1>1, <2>2, <2>3, <2>6, AloneAppend, HolderAppend
    <2> QED
        BY <2>1, <2>4 DEF BaseInv
<1> QED
    BY <1>3, <1>4, <1>5

\* What puts an activation without a tree behind the queue.
LEMMA BaseAppend ==
    ASSUME Inv, BaseInv, NEW g, NEW n,
           Dispatch(g) \/ Settle(g) \/ BootScan \/ Resume \/ Approve(n) \/ Rerun(n)
    PROVE  BaseInv'
<1>1. q \in Seq(Act) /\ working' = working /\ claimed' = claimed
    BY DEF Dispatch, Settle, BootScan, Resume, Approve, Rerun, tree, Inv, ActsOK
<1>2. q' = q \/ \E b : b.tree # "base" /\ q' = Append(q, b)
    <2>1. CASE Dispatch(g)
        <3>1. \A m, v : RunAct(m, v, FALSE).tree # "base"
            BY DEF RunAct, Blank
        <3> QED
            BY <2>1, <3>1 DEF Dispatch
    <2>2. CASE Settle(g)
        <3>1. /\ [Blank EXCEPT !.k = "susp", !.g = g].tree # "base"
              /\ \A o : [Blank EXCEPT !.k = "fin", !.g = g, !.out = o].tree # "base"
            BY DEF Blank
        <3> QED
            BY <2>2, <3>1 DEF Settle
    <2>3. CASE BootScan
        <3>1. BootNext(phase, 0).tree # "base"
            BY BootNextFacts DEF Inv, LogOK
        <3> QED
            BY <2>3, <3>1 DEF BootScan
    <2>4. CASE Resume
        BY <2>4, BlankFacts DEF Resume
    <2>5. CASE Approve(n)
        <3>1. \A v : [Blank EXCEPT !.k = "ap1", !.n = n, !.v = v].tree # "base"
            BY DEF Blank
        <3> QED
            BY <2>5, <3>1 DEF Approve
    <2>6. CASE Rerun(n)
        <3>1. \A o : RerunAct(n, o).tree # "base"
            BY DEF RerunAct, Blank
        <3> QED
            BY <2>6, <3>1 DEF Rerun
    <2> QED
        BY <2>1, <2>2, <2>3, <2>4, <2>5, <2>6
<1> QED
    BY <1>1, <1>2, AloneAppend, HolderAppend DEF BaseInv

\* cancelTask and tasks.delete.
LEMMA BaseCancel ==
    ASSUME Inv, BaseInv, Cancel \/ Delete
    PROVE  BaseInv'
<1> DEFINE f == [Blank EXCEPT !.k = "cfin", !.out = "failed"]
           d == [Blank EXCEPT !.k = "del"]
<1>1. f \in Act /\ d \in Act /\ f.tree # "base" /\ d.tree # "base"
    BY CancelAct, DeleteAct DEF Blank
<1>2. q \in Seq(Act) /\ working' = working /\ claimed' = claimed
    BY DEF Cancel, Delete, tree, Inv, ActsOK
<1>3. q' \in {q, q \o CancelRest, Append(q, d), q \o <<d>> \o CancelRest}
    BY DEF Cancel, Delete
<1>4. CancelRest \in {<<f>>, <<>>}
    BY DEF CancelRest
<1> HIDE DEF f, d
<1>5. Append(q, d) \in Seq(Act) /\ q \o <<d>> = Append(q, d)
    BY <1>1, <1>2, AppendProperties, AppendIsConcat
<1>6. /\ q \o <<f>> = Append(q, f) /\ q \o <<>> = q
      /\ Append(q, d) \o <<f>> = Append(Append(q, d), f)
      /\ Append(q, d) \o <<>> = Append(q, d)
    BY <1>1, <1>2, <1>5, AppendIsConcat, ConcatEmptySeq
<1>7. q' \in {q, Append(q, f), Append(q, d), Append(Append(q, d), f)}
    BY <1>3, <1>4, <1>5, <1>6
<1>8. /\ Alone(Append(q, d), working, claimed) /\ Alone(Append(q, f), working, claimed)
      /\ HolderOK(Append(q, d), working, claimed) /\ HolderOK(Append(q, f), working, claimed)
    BY <1>1, <1>2, AloneAppend, HolderAppend DEF BaseInv
<1>9. /\ Alone(Append(Append(q, d), f), working, claimed)
      /\ HolderOK(Append(Append(q, d), f), working, claimed)
    BY <1>1, <1>5, <1>8, AloneAppend, HolderAppend
<1> QED
    BY <1>2, <1>7, <1>8, <1>9 DEF BaseInv

\* No step gives the project's tree to a second run.
LEMMA BaseNext == Inv /\ BaseInv /\ [Next]_vars => BaseInv'
<1> SUFFICES ASSUME Inv, BaseInv, [Next]_vars PROVE BaseInv'
    OBVIOUS
<1>1. ASSUME NEW g \in 1..Len(rt), Top(g) \/ CheckBudget(g) \/ Ready(g) \/ Integrate(g) \/ Reported(g)
      PROVE  BaseInv'
    BY <1>1 DEF Top, CheckBudget, Ready, Integrate, Reported, tree, BaseInv
<1>2. CASE Sync
    BY <1>1, <1>2, BaseAppend, BaseWorking DEF Sync
<1>3. CASE LoopIo
    BY <1>1, <1>3 DEF LoopIo
<1>4. CASE Turn
    BY <1>4, BaseWorking DEF Turn
<1>5. CASE Appended
    <2>1. ASSUME \/ Kick \/ Suspend \/ Finalize \/ CancelFinalize \/ Tombstone
                 \/ BudgetReported \/ Escalate \/ BootPaused
          PROVE  BaseInv'
        BY <2>1, BaseTail
    <2>2. ASSUME \/ PhaseRunning \/ RunDone \/ BudgetPending \/ DownstreamFailed
                 \/ RerunRunning \/ RerunSupersede \/ RerunInvalidate \/ RerunPending
                 \/ RerunExecute \/ ApproveRun \/ ApproveDone \/ BootRunFailed \/ BootPending
          PROVE  BaseInv'
        BY <2>2, BaseHeadNext
    <2>3. ASSUME RunStarted \/ PhaseDone
          PROVE  BaseInv'
        BY <2>3, BaseStarts
    <2> QED
        BY <1>5, <2>1, <2>2, <2>3 DEF Appended
<1>6. CASE BootScan
    BY <1>6, BaseAppend
<1>7. CASE Crash
    <2>1. q' = <<>> /\ working' = {} /\ Len(<<>>) = 0 /\ claimed' = FALSE
        BY <1>7, EmptySeq DEF Crash
    <2>2. \A i \in 1..Len(q') : FALSE
        BY <2>1
    <2>3. Holders(q', working') = {}
        BY <2>1, <2>2 DEF Holders, SeqRange
    <2> QED
        BY <2>1, <2>2, <2>3 DEF BaseInv, Alone, HolderOK
<1>8. CASE Requests
    <2>1. CASE Pause
        BY <2>1 DEF Pause, tree, BaseInv
    <2> QED
        BY <1>8, <2>1, BaseCancel, BaseAppend DEF Requests
<1>9. CASE \E w \in working : Overspend(w)
    BY <1>9 DEF Overspend, tree, BaseInv
<1>10. CASE UNCHANGED vars
    BY <1>10 DEF vars, tree, BaseInv
<1> QED
    BY <1>2, <1>3, <1>4, <1>5, <1>6, <1>7, <1>8, <1>9, <1>10 DEF Next, EngineStep, Idle

\* Nothing holds a tree at first.
LEMMA BaseInit == Init => BaseInv
<1> SUFFICES ASSUME Init PROVE BaseInv
    OBVIOUS
<1>1. q = <<Blank>> /\ Len(q) = 1 /\ q[1] = Blank /\ working = {}
    BY DEF Init
<1>2. \A i \in 1..Len(q) : q[i].tree # "base"
    BY <1>1, BlankFacts
<1>3. Holders(q, working) = {} /\ claimed = FALSE
    BY <1>1, <1>2 DEF Holders, SeqRange, Init
<1> QED
    BY <1>1, <1>2, <1>3 DEF BaseInv, Alone, HolderOK

\* The claim on the project's own tree (sharedClaims) has exactly one holder
\* while it stands and none otherwise, for every workflow, whichever runs git
\* sends to share that tree: the holder alone gives it back, and does.
THEOREM ClaimIsHeld == Spec => []ClaimHasOneHolder
<1>1. ASSUME Inv, BaseInv
      PROVE  ClaimHasOneHolder
    <2> DEFINE S == Holders(q, working)
    <2>1. ASSUME NEW x \in S, NEW y \in S
          PROVE  x = y
        BY <1>1 DEF BaseInv, Alone, Holders, SeqRange
    <2>2. (claimed => S # {}) /\ (~claimed => S = {})
        BY <1>1 DEF BaseInv, Alone, HolderOK, Holders, SeqRange
    <2> HIDE DEF S
    <2>3. CASE claimed
        <3>1. PICK x : S = {x}
            BY <2>1, <2>2, <2>3
        <3>2. Cardinality(S) = 1
            BY <3>1, FS_Singleton
        <3> QED
            BY <2>3, <3>2 DEF ClaimHasOneHolder, S, Holders
    <2>4. CASE ~claimed
        <3>1. Cardinality(S) = 0
            BY <2>2, <2>4, FS_EmptySet
        <3> QED
            BY <2>4, <3>1 DEF ClaimHasOneHolder, S, Holders
    <2> QED
        BY <2>3, <2>4
<1>2. Spec => []BaseInv
    BY BaseInit, BaseNext, InvAlways, PTL DEF Spec
<1> QED
    BY <1>1, <1>2, InvAlways, PTL

-----------------------------------------------------------------------------
\* Runs.

\* No phase is run again: no gate loops back on its own, and the user does not
\* send a rerun.
Forward == GateAuto = {} /\ "rerun" \notin Ops

Approving == \E a \in SeqRange(q) : a.k \in {"ap1", "ap2"}

\* A cancel or a delete is being carried out.
Stopping ==
    \/ \E a \in SeqRange(q) : a.k \in {"cfin", "del"}
    \/ \E g \in 1..Len(rt) : rt[g].pc # "idle" /\ g # cur

\* The user goes on only when a stop has been carried out, and stops only when
\* an approval has.
Orderly ==
    /\ Resume \/ (\E n \in Nodes : Approve(n)) => ~Stopping
    /\ Pause \/ Cancel \/ Delete => ~Approving

-----------------------------------------------------------------------------
\* Slots.

Reruns == {"rr1", "rr2", "rr3", "rr4", "rr5"}
SlotKinds == RunKinds \cup Reruns \cup {"fin", "susp"}

Slotted(a) == a.k \in SlotKinds

\* A rerun is inlined in the run of the gate that started it, and keeps that
\* run's slot until it gives it up for the one of the node it starts.
Slot(a) == IF a.k \in Reruns THEN a.own.n ELSE a.n

\* Of the queue Q and the runs W, one takes each slot in K, and no other slot
\* is taken.
Held(Q, W, K) ==
    /\ \A i \in 1..Len(Q) : Slotted(Q[i]) => Slot(Q[i]) \in K
    /\ \A w \in W : w.n \in K
    /\ \A i, j \in 1..Len(Q) : Slotted(Q[i]) /\ Slotted(Q[j]) /\ Slot(Q[i]) = Slot(Q[j]) => i = j
    /\ \A i \in 1..Len(Q) : \A w \in W : Slotted(Q[i]) => Slot(Q[i]) # w.n
    /\ \A w, x \in W : w.n = x.n => w = x
    /\ \A n \in K : \/ \E i \in 1..Len(Q) : Slotted(Q[i]) /\ Slot(Q[i]) = n
                    \/ \E w \in W : w.n = n

\* Something without a slot is queued.
LEMMA HeldAppend ==
    ASSUME NEW Q \in Seq(Act), NEW W, NEW K, Held(Q, W, K), NEW b, ~Slotted(b)
    PROVE  Held(Append(Q, b), W, K)
<1> DEFINE R == Append(Q, b)
<1>1. /\ \A i \in 1..Len(Q) : i \in 1..Len(R) /\ R[i] = Q[i]
      /\ \A i \in 1..Len(R) : Slotted(R[i]) => i \in 1..Len(Q)
    BY Appending
<1> HIDE DEF R
<1> QED
    BY <1>1 DEF Held, R

\* Something that takes a free slot is queued.
LEMMA HeldEnter ==
    ASSUME NEW Q \in Seq(Act), NEW W, NEW K, Held(Q, W, K), NEW b, Slotted(b), Slot(b) \notin K
    PROVE  Held(Append(Q, b), W, K \cup {Slot(b)})
<1> DEFINE R == Append(Q, b)
           L == Len(Q)
<1>1. /\ \A i \in 1..L : i \in 1..Len(R) /\ R[i] = Q[i]
      /\ \A i \in 1..Len(R) : i \in 1..L \/ i = L + 1
      /\ R[L + 1] = b /\ L + 1 \in 1..Len(R) /\ L \in Nat
    BY Appending
<1> HIDE DEF R
<1>2. \A i \in 1..Len(R) : Slotted(R[i]) /\ Slot(R[i]) = Slot(b) => i = L + 1
    BY <1>1 DEF Held
<1>3. \A i, j \in 1..Len(R) : Slotted(R[i]) /\ Slotted(R[j]) /\ Slot(R[i]) = Slot(R[j]) => i = j
    BY <1>1, <1>2 DEF Held
<1>4. \A n \in K \cup {Slot(b)} : \/ \E i \in 1..Len(R) : Slotted(R[i]) /\ Slot(R[i]) = n
                              \/ \E w \in W : w.n = n
    BY <1>1 DEF Held
<1>5. \A i \in 1..Len(R) : Slotted(R[i]) => Slot(R[i]) \in K \cup {Slot(b)}
    BY <1>1 DEF Held
<1>6. \A i \in 1..Len(R) : \A w \in W : Slotted(R[i]) => Slot(R[i]) # w.n
    BY <1>1 DEF Held
<1> QED
    BY <1>3, <1>4, <1>5, <1>6 DEF Held, R

\* The head of the queue, without a slot, is done.
LEMMA HeldTail ==
    ASSUME NEW Q \in Seq(Act), Q # <<>>, NEW W, NEW K, Held(Q, W, K), ~Slotted(Head(Q))
    PROVE  Held(Tail(Q), W, K)
<1> DEFINE R == Tail(Q)
<1>1. /\ Q[1] = Head(Q) /\ Len(R) = Len(Q) - 1 /\ Len(Q) \in Nat
      /\ \A i \in 1..Len(R) : R[i] = Q[i + 1] /\ i + 1 \in 1..Len(Q)
    BY TailOf
<1> HIDE DEF R
<1>2. \A i \in 1..Len(Q) : Slotted(Q[i]) => i - 1 \in 1..Len(R) /\ R[i - 1] = Q[i]
    BY <1>1
<1>3. \A i, j \in 1..Len(R) : Slotted(R[i]) /\ Slotted(R[j]) /\ Slot(R[i]) = Slot(R[j]) => i + 1 = j + 1
    BY <1>1 DEF Held
<1>4. \A i, j \in 1..Len(R) : i + 1 = j + 1 => i = j
    OBVIOUS
<1>5. \A n \in K : \/ \E i \in 1..Len(R) : Slotted(R[i]) /\ Slot(R[i]) = n
                   \/ \E w \in W : w.n = n
    BY <1>2 DEF Held
<1> QED
    BY <1>1, <1>3, <1>4, <1>5 DEF Held, R

\* The head of the queue gives its slot back.
LEMMA HeldLeave ==
    ASSUME NEW Q \in Seq(Act), Q # <<>>, NEW W, NEW K, Held(Q, W, K), Slotted(Head(Q))
    PROVE  /\ Held(Tail(Q), W, K \ {Slot(Head(Q))})
           /\ Slot(Head(Q)) \in K
<1> DEFINE R == Tail(Q)
           n == Slot(Head(Q))
<1>1. /\ Q[1] = Head(Q) /\ Len(R) = Len(Q) - 1 /\ Len(Q) \in Nat /\ 1 \in 1..Len(Q)
      /\ \A i \in 1..Len(R) : R[i] = Q[i + 1] /\ i + 1 \in 1..Len(Q)
    BY TailOf
<1> HIDE DEF R
<1>2. \A i \in 1..Len(R) : Slotted(R[i]) => Slot(R[i]) \in K \ {n}
    <2>1. \A i \in 1..Len(R) : i + 1 # 1
        OBVIOUS
    <2> QED
        BY <1>1, <2>1 DEF Held
<1>3. \A i, j \in 1..Len(R) : Slotted(R[i]) /\ Slotted(R[j]) /\ Slot(R[i]) = Slot(R[j]) => i + 1 = j + 1
    BY <1>1 DEF Held
<1>4. \A i, j \in 1..Len(R) : i + 1 = j + 1 => i = j
    OBVIOUS
<1>5. \A w \in W : w.n \in K \ {n}
    BY <1>1 DEF Held
<1>6. \A i \in 1..Len(Q) : i # 1 => i - 1 \in 1..Len(R) /\ R[i - 1] = Q[i]
    BY <1>1
<1>7. \A m \in K \ {n} : \/ \E i \in 1..Len(R) : Slotted(R[i]) /\ Slot(R[i]) = m
                         \/ \E w \in W : w.n = m
    BY <1>1, <1>6 DEF Held
<1> QED
    BY <1>1, <1>2, <1>3, <1>4, <1>5, <1>7 DEF Held, R

\* A run begins to work in a free slot.
LEMMA HeldWork ==
    ASSUME NEW Q, NEW W, NEW K, Held(Q, W, K), NEW b, b.n \notin K
    PROVE  Held(Q, W \cup {b}, K \cup {b.n})
BY DEF Held

\* A run stops working and gives its slot back.
LEMMA HeldUnwork ==
    ASSUME NEW Q, NEW W, NEW K, Held(Q, W, K), NEW w \in W
    PROVE  Held(Q, W \ {w}, K \ {w.n}) /\ w.n \in K
BY DEF Held

-----------------------------------------------------------------------------
\* Runtimes.

\* S are the runtimes R after a step that ends the runs of D on runtime c, may
\* stop or pause it and may ask it for a pass.
Quiet(R, S, c, D) ==
    /\ Len(S) = Len(R)
    /\ \A g \in 1..Len(R) :
         /\ S[g].sr = R[g].sr /\ S[g].todo = R[g].todo /\ S[g].room = R[g].room
         /\ R[g].failed => S[g].failed
         /\ R[g].paused => S[g].paused
         /\ S[g].pc = R[g].pc \/ (g = c /\ R[g].pc = "idle" /\ S[g].pc = "top")
         /\ InFlightOf(S[g]) = InFlightOf(R[g]) \ (IF g = c THEN D ELSE {})

LEMMA RuntimeOf ==
    ASSUME NEW R \in Seq(Awake), NEW g \in 1..Len(R)
    PROVE  R[g] \in Awake /\ R[g] \in Runtime /\ Len(R) \in Nat
BY ElementOfSeq, LenProperties DEF Awake

\* One runtime is replaced.
LEMMA Replaced ==
    ASSUME NEW R \in Seq(Awake), NEW g \in 1..Len(R), NEW e
    PROVE  LET S == [R EXCEPT ![g] = e] IN
           Len(S) = Len(R) /\ S[g] = e /\ \A h \in 1..Len(R) : h # g => S[h] = R[h]
<1>1. DOMAIN R = 1..Len(R) /\ Len(R) \in Nat
    BY LenProperties
<1>2. DOMAIN [R EXCEPT ![g] = e] = 1..Len(R)
    BY <1>1
<1>3. R \in Seq(Awake \cup {e}) /\ e \in Awake \cup {e}
    OBVIOUS
<1>4. Len([R EXCEPT ![g] = e]) = Len(R)
    BY <1>3, ExceptSeq
<1> QED
    BY <1>1, <1>4

LEMMA QuietNothing ==
    ASSUME NEW R \in Seq(Awake), NEW c
    PROVE  Quiet(R, R, c, {})
BY DEF Quiet

LEMMA QuietTrans ==
    ASSUME NEW R \in Seq(Awake), NEW S, NEW T, NEW c, NEW D, NEW E,
           Quiet(R, S, c, D), Quiet(S, T, c, E)
    PROVE  Quiet(R, T, c, D \cup E)
<1> SUFFICES ASSUME NEW g \in 1..Len(R)
             PROVE  /\ T[g].sr = R[g].sr /\ T[g].todo = R[g].todo /\ T[g].room = R[g].room
                    /\ R[g].failed => T[g].failed
                    /\ R[g].paused => T[g].paused
                    /\ T[g].pc = R[g].pc \/ (g = c /\ R[g].pc = "idle" /\ T[g].pc = "top")
                    /\ InFlightOf(T[g]) = InFlightOf(R[g]) \ (IF g = c THEN D \cup E ELSE {})
    BY DEF Quiet
<1>1. /\ S[g].sr = R[g].sr /\ S[g].todo = R[g].todo /\ S[g].room = R[g].room
      /\ R[g].failed => S[g].failed
      /\ R[g].paused => S[g].paused
      /\ S[g].pc = R[g].pc \/ (g = c /\ R[g].pc = "idle" /\ S[g].pc = "top")
      /\ InFlightOf(S[g]) = InFlightOf(R[g]) \ (IF g = c THEN D ELSE {})
    BY DEF Quiet
<1>2. /\ T[g].sr = S[g].sr /\ T[g].todo = S[g].todo /\ T[g].room = S[g].room
      /\ S[g].failed => T[g].failed
      /\ S[g].paused => T[g].paused
      /\ T[g].pc = S[g].pc \/ (g = c /\ S[g].pc = "idle" /\ T[g].pc = "top")
      /\ InFlightOf(T[g]) = InFlightOf(S[g]) \ (IF g = c THEN E ELSE {})
    BY DEF Quiet
<1>3. InFlightOf(T[g]) = InFlightOf(R[g]) \ (IF g = c THEN D \cup E ELSE {})
    BY <1>1, <1>2
<1> QED
    BY <1>1, <1>2, <1>3

\* requestSchedule stops nobody and starts no run.
LEMMA QuietRequest ==
    ASSUME NEW R \in Seq(Awake), NEW c \in 0..Len(R)
    PROVE  Quiet(R, Request(R, c), c, {})
<1>1. CASE c = 0
    BY <1>1, QuietNothing DEF Request
<1>2. CASE c # 0
    <2> DEFINE r == R[c]
               e == [r EXCEPT !.rescan = TRUE, !.pc = IF @ = "idle" THEN "top" ELSE @]
    <2>1. c \in 1..Len(R) /\ r \in Runtime
        BY <1>2, RuntimeOf
    <2>2. Request(R, c) = [R EXCEPT ![c] = e]
        BY <1>2 DEF Request
    <2>3. /\ e.sr = r.sr /\ e.todo = r.todo /\ e.room = r.room /\ e.failed = r.failed
          /\ e.paused = r.paused /\ e.inFlight = r.inFlight
          /\ e.pc = IF r.pc = "idle" THEN "top" ELSE r.pc
        BY <2>1 DEF Runtime
    <2> HIDE DEF e
    <2>4. LET S == Request(R, c) IN
          Len(S) = Len(R) /\ S[c] = e /\ \A h \in 1..Len(R) : h # c => S[h] = R[h]
        BY <2>1, <2>2, Replaced
    <2>5. InFlightOf(e) = InFlightOf(r)
        BY <2>3 DEF InFlightOf
    <2> QED
        BY <2>3, <2>4, <2>5 DEF Quiet
<1> QED
    BY <1>1, <1>2

\* A runtime is stopped, paused or forgets a run.
LEMMA QuietStop ==
    ASSUME NEW R \in Seq(Awake), NEW c \in 1..Len(R)
    PROVE  /\ Quiet(R, WithFailed(R, c, TRUE), c, {})
           /\ Quiet(R, WithPaused(R, c, TRUE), c, {})
           /\ WithFailed(R, c, TRUE) \in Seq(Awake) /\ Len(WithFailed(R, c, TRUE)) = Len(R)
           /\ WithPaused(R, c, TRUE) \in Seq(Awake) /\ Len(WithPaused(R, c, TRUE)) = Len(R)
           /\ WithFailed(R, c, TRUE)[c].failed
           /\ WithPaused(R, c, TRUE)[c].paused
<1> DEFINE r == R[c]
           e == [r EXCEPT !.failed = TRUE]
           f == [r EXCEPT !.paused = TRUE]
           F == WithFailed(R, c, TRUE)
           P == WithPaused(R, c, TRUE)
<1>1. r \in Runtime
    BY RuntimeOf
<1>2. F = [R EXCEPT ![c] = e] /\ P = [R EXCEPT ![c] = f]
    BY DEF WithFailed, WithPaused
<1>3. /\ e.sr = r.sr /\ e.todo = r.todo /\ e.room = r.room /\ e.failed
      /\ e.paused = r.paused /\ e.inFlight = r.inFlight /\ e.pc = r.pc
    BY <1>1 DEF Runtime
<1>4. /\ f.sr = r.sr /\ f.todo = r.todo /\ f.room = r.room /\ f.failed = r.failed
      /\ f.paused /\ f.inFlight = r.inFlight /\ f.pc = r.pc
    BY <1>1 DEF Runtime
<1>5. F \in Seq(Awake) /\ P \in Seq(Awake)
    BY FailedField, PausedField
<1> HIDE DEF e, f, F, P
<1>6. Len(F) = Len(R) /\ F[c] = e /\ \A h \in 1..Len(R) : h # c => F[h] = R[h]
    BY <1>2, Replaced
<1>7. Len(P) = Len(R) /\ P[c] = f /\ \A h \in 1..Len(R) : h # c => P[h] = R[h]
    BY <1>2, Replaced
<1>8. InFlightOf(e) = InFlightOf(r) /\ InFlightOf(f) = InFlightOf(r)
    BY <1>3, <1>4 DEF InFlightOf
<1>9. Quiet(R, F, c, {}) /\ Quiet(R, P, c, {})
    BY <1>3, <1>4, <1>6, <1>7, <1>8 DEF Quiet
<1> QED
    BY <1>3, <1>4, <1>5, <1>6, <1>7, <1>9 DEF F, P

LEMMA QuietForgets ==
    ASSUME NEW R \in Seq(Awake), NEW c \in 1..Len(R), NEW n \in Nodes
    PROVE  Quiet(R, WithInFlight(R, c, n, 0), c, {n})
<1> DEFINE r == R[c]
           e == [r EXCEPT !.inFlight[n] = 0]
<1>1. r \in Runtime
    BY RuntimeOf
<1>2. WithInFlight(R, c, n, 0) = [R EXCEPT ![c] = e]
    BY DEF WithInFlight
<1>3. /\ e.sr = r.sr /\ e.todo = r.todo /\ e.room = r.room /\ e.failed = r.failed
      /\ e.paused = r.paused /\ e.pc = r.pc /\ e.inFlight = [r.inFlight EXCEPT ![n] = 0]
      /\ r.inFlight \in [Nodes -> Nat]
    BY <1>1 DEF Runtime
<1> HIDE DEF e
<1>4. LET S == WithInFlight(R, c, n, 0) IN
      Len(S) = Len(R) /\ S[c] = e /\ \A h \in 1..Len(R) : h # c => S[h] = R[h]
    BY <1>2, Replaced
<1>5. \A m \in Nodes : e.inFlight[m] = IF m = n THEN 0 ELSE r.inFlight[m]
    BY <1>3
<1>6. InFlightOf(e) = InFlightOf(r) \ {n}
    BY <1>5 DEF InFlightOf
<1> QED
    BY <1>3, <1>4, <1>6 DEF Quiet

\* The finally of executeRun.
LEMMA QuietFinally ==
    ASSUME NEW R \in Seq(Awake), NEW c \in 1..Len(R), NEW n \in Nodes
    PROVE  Quiet(R, Finally(R, n, c, c), c, {n})
<1> DEFINE S == WithInFlight(R, c, n, 0)
<1>1. S \in Seq(Awake) /\ Len(S) = Len(R)
    BY InFlightField
<1>2. Quiet(R, S, c, {n})
    BY QuietForgets
<1> HIDE DEF S
<1>3. Quiet(S, Request(S, c), c, {})
    BY <1>1, QuietRequest
<1>4. Quiet(R, Request(S, c), c, {n} \cup {})
    BY <1>2, <1>3, QuietTrans
<1>5. {n} \cup {} = {n}
    OBVIOUS
<1>6. Finally(R, n, c, c) = Request(S, c)
    BY DEF Finally, S, WithInFlight
<1> QED
    BY <1>4, <1>5, <1>6

-----------------------------------------------------------------------------
\* The invariant.

\* The nodes in flight on the registry's runtime, and whether a loop has its
\* suspend or finalize in the queue.
Flying == IF cur = 0 THEN {} ELSE InFlightOf(rt[cur])
Settling == \E g \in 1..Len(rt) : rt[g].pc \in {"suspend", "finalize"}
Taken == Flying \cup (IF Settling THEN {0} ELSE {})

HeldOK == Held(q, working, Taken)

\* One loop at most is at work, the one of the registry's runtime or, when that
\* has been dropped, one that can start nothing; it merges, suspends and
\* finalizes with nothing in flight.
LoopOK ==
    /\ \A g \in 1..Len(rt) : rt[g].pc # "idle" => g = cur \/ cur = 0
    /\ \A g, h \in 1..Len(rt) : rt[g].pc # "idle" /\ rt[h].pc # "idle" => g = h
    /\ \A g \in 1..Len(rt) :
         rt[g].pc \notin {"idle", "top"} => rt[g].sr = g /\ (cur = 0 => rt[g].failed)
    /\ \A g \in 1..Len(rt) :
         rt[g].pc \in {"integrate", "suspend", "finalize"} => InFlightOf(rt[g]) = {}
    /\ \A g \in 1..Len(rt) : Cardinality(InFlightOf(rt[g])) <= Cap

\* A loop with nodes to start has checked all that a start depends on.
MayStart(g) ==
    /\ g = cur /\ alive /\ go
    /\ \A a \in SeqRange(q) : a.k # "cfin"
    /\ rt[g].todo \cap InFlightOf(rt[g]) = {}
    /\ Cardinality(InFlightOf(rt[g])) + rt[g].room <= Cap

DispOK == \A g \in 1..Len(rt) : rt[g].pc = "dispatch" /\ rt[g].todo # {} => MayStart(g)

\* What a stop that is being carried out has left behind, and what an approval
\* that is being carried out can rely on.
StopOK ==
    /\ (\E a \in SeqRange(q) : a.k \in {"cfin", "del"}) \/ ~alive =>
         ~go /\ (cur = 0 \/ rt[cur].failed)
    /\ (\E a \in SeqRange(q) : a.k = "cfin") => Flying = {}
    /\ ~go => cur = 0 \/ rt[cur].failed \/ rt[cur].paused
    /\ Approving =>
         /\ alive /\ go
         /\ \A a \in SeqRange(q) : a.k \notin {"cfin", "del"}
         /\ \A g \in 1..Len(rt) : rt[g].pc \notin {"idle", "top"} => g = cur

\* A rerun is a gate's, of the gate's target; a run, and the gate run a rerun
\* is inlined in, belongs to the registry's runtime, a suspend or finalize to a
\* loop that waits for it.
Fine(a) ==
    /\ a.own.n # 0 <=> a.k \in Reruns
    /\ a.k \in Reruns =>
         /\ a.n \in Nodes /\ a.own.n \in GateAuto /\ a.n = GateTarget[a.own.n]
         /\ a.own.g = cur
    /\ a.k \in RunKinds => a.g = cur
    /\ a.k = "susp" => a.n = 0 /\ a.g \in 1..Len(rt) /\ rt[a.g].pc = "suspend"
    /\ a.k = "fin" => a.n = 0 /\ a.g \in 1..Len(rt) /\ rt[a.g].pc = "finalize"

PlainOK ==
    /\ \A a \in SeqRange(q) \cup working : Fine(a)
    /\ \A w \in working : w.k \in {"setup", "llm", "release"}

RunsInv == HeldOK /\ LoopOK /\ DispOK /\ StopOK /\ PlainOK

-----------------------------------------------------------------------------
\* Steps that start nothing.

LEMMA Types ==
    ASSUME Inv
    PROVE  /\ rt \in Seq(Awake) /\ cur \in 0..Len(rt) /\ Len(rt) \in Nat
           /\ \A g \in 1..Len(rt) : rt[g] \in Runtime
           /\ q \in Seq(Act) /\ working \subseteq Act /\ SeqRange(q) \subseteq Act
           /\ cur # 0 => cur \in 1..Len(rt)
<1>1. rt \in Seq(Awake) /\ cur \in 0..Len(rt) /\ q \in Seq(Act) /\ working \subseteq Act
    BY DEF Inv, RtOK, ActsOK
<1>2. \A i \in 1..Len(q) : q[i] \in Act
    BY <1>1, ElementOfSeq
<1> QED
    BY <1>1, <1>2, RuntimeOf, LenProperties DEF SeqRange

LEMMA InFlightFinite ==
    ASSUME NEW r
    PROVE  /\ IsFiniteSet(InFlightOf(r)) /\ Cardinality(InFlightOf(r)) \in Nat
           /\ \A T : T \subseteq InFlightOf(r) =>
                IsFiniteSet(T) /\ Cardinality(T) \in Nat /\ Cardinality(T) <= Cardinality(InFlightOf(r))
<1>1. IsFiniteSet(InFlightOf(r))
    BY WorkflowAssumption, FS_Subset DEF InFlightOf
<1>2. ASSUME NEW T, T \subseteq InFlightOf(r)
      PROVE  IsFiniteSet(T) /\ Cardinality(T) \in Nat /\ Cardinality(T) <= Cardinality(InFlightOf(r))
    BY <1>1, <1>2, FS_Subset, FS_CardinalityType
<1> QED
    BY <1>1, <1>2, FS_CardinalityType

LEMMA LoopQuiet ==
    ASSUME Inv, LoopOK, NEW D, Quiet(rt, rt', cur, D), cur' = cur
    PROVE  LoopOK'
<1>1. Len(rt') = Len(rt) /\ Cap \in Nat
    BY EngineAssumption DEF Quiet
<1>2. ASSUME NEW g \in 1..Len(rt)
      PROVE  /\ rt'[g].sr = rt[g].sr
             /\ rt[g].failed => rt'[g].failed
             /\ rt'[g].pc = rt[g].pc \/ (g = cur /\ rt[g].pc = "idle" /\ rt'[g].pc = "top")
             /\ InFlightOf(rt'[g]) \subseteq InFlightOf(rt[g])
             /\ Cardinality(InFlightOf(rt'[g])) <= Cap
    <2>1. /\ rt'[g].sr = rt[g].sr
          /\ rt[g].failed => rt'[g].failed
          /\ rt'[g].pc = rt[g].pc \/ (g = cur /\ rt[g].pc = "idle" /\ rt'[g].pc = "top")
          /\ InFlightOf(rt'[g]) \subseteq InFlightOf(rt[g])
        BY DEF Quiet
    <2>2. Cardinality(InFlightOf(rt[g])) <= Cap
        BY DEF LoopOK
    <2> QED
        BY <1>1, <2>1, <2>2, InFlightFinite
<1>3. /\ \A g \in 1..Len(rt') : rt'[g].pc # "idle" => g = cur' \/ cur' = 0
      /\ \A g, h \in 1..Len(rt') : rt'[g].pc # "idle" /\ rt'[h].pc # "idle" => g = h
    <2>1. cur = 0 => \A g \in 1..Len(rt) : rt'[g].pc = rt[g].pc
        BY <1>2
    <2> QED
        BY <1>1, <1>2, <2>1 DEF LoopOK
<1>4. \A g \in 1..Len(rt') :
        rt'[g].pc \notin {"idle", "top"} => rt'[g].sr = g /\ (cur' = 0 => rt'[g].failed)
    BY <1>1, <1>2 DEF LoopOK
<1>5. \A g \in 1..Len(rt') :
        rt'[g].pc \in {"integrate", "suspend", "finalize"} => InFlightOf(rt'[g]) = {}
    BY <1>1, <1>2 DEF LoopOK
<1>6. \A g \in 1..Len(rt') : Cardinality(InFlightOf(rt'[g])) <= Cap
    BY <1>1, <1>2
<1> QED
    BY <1>3, <1>4, <1>5, <1>6 DEF LoopOK

LEMMA DispQuiet ==
    ASSUME Inv, DispOK, NEW D, Quiet(rt, rt', cur, D), cur' = cur,
           \/ Yielded
           \/ /\ alive' = alive /\ go' = go
              /\ (\A a \in SeqRange(q) : a.k # "cfin") => (\A a \in SeqRange(q') : a.k # "cfin")
    PROVE  DispOK'
<1> SUFFICES ASSUME NEW g \in 1..Len(rt), rt'[g].pc = "dispatch", rt'[g].todo # {}
             PROVE  MayStart(g)'
    BY DEF DispOK, Quiet
<1>1. /\ rt'[g].todo = rt[g].todo /\ rt'[g].room = rt[g].room /\ rt[g].pc = "dispatch"
      /\ InFlightOf(rt'[g]) \subseteq InFlightOf(rt[g])
    BY DEF Quiet
<1>2. ~Yielded
    BY <1>1 DEF Yielded, SyncPc
<1>3. MayStart(g)
    BY <1>1 DEF DispOK
<1>4. rt[g].room \in Nat /\ Cap \in Nat
    BY Types, EngineAssumption DEF Runtime
<1>5. Cardinality(InFlightOf(rt'[g])) + rt'[g].room <= Cap
    <2>1. Cardinality(InFlightOf(rt[g])) + rt[g].room <= Cap
        BY <1>3 DEF MayStart
    <2>2. /\ Cardinality(InFlightOf(rt'[g])) \in Nat /\ Cardinality(InFlightOf(rt[g])) \in Nat
          /\ Cardinality(InFlightOf(rt'[g])) <= Cardinality(InFlightOf(rt[g]))
        BY <1>1, InFlightFinite
    <2> QED
        BY <1>1, <1>4, <2>1, <2>2
<1> QED
    BY <1>1, <1>2, <1>3, <1>5 DEF MayStart

LEMMA TakenQuiet ==
    ASSUME Inv, NEW D \in SUBSET Nodes, Quiet(rt, rt', cur, D), cur' = cur
    PROVE  Taken' = Taken \ D /\ Flying' = Flying \ D
<1>1. 0 \notin Nodes
    BY WorkflowAssumption
<1>2. Flying' = Flying \ D
    BY Types DEF Flying, Quiet
<1>3. Settling' <=> Settling
    BY DEF Settling, Quiet
<1> QED
    BY <1>1, <1>2, <1>3 DEF Taken

LEMMA FineQuiet ==
    ASSUME Inv, NEW D, Quiet(rt, rt', cur, D), cur' = cur, NEW a, Fine(a)
    PROVE  Fine(a)'
BY DEF Fine, Quiet

\* A step that starts nothing: its runs end on the registry's runtime, what it
\* queues or sets to work is plain, and every slot is still taken once.
LEMMA QuietStep ==
    ASSUME Inv, RunsInv, NEW D \in SUBSET Nodes, Quiet(rt, rt', cur, D),
           cur' = cur, alive' = alive, go' = go,
           NEW B, SeqRange(q') \subseteq SeqRange(q) \cup B, working' \subseteq working \cup B,
           \A b \in B : Fine(b) /\ b.k \notin {"cfin", "del"} /\ (b.k \in {"ap1", "ap2"} => Approving),
           \A w \in working' : w.k \in {"setup", "llm", "release"},
           Held(q', working', Taken \ D)
    PROVE  RunsInv'
<1>1. HeldOK'
    BY TakenQuiet DEF HeldOK
<1>2. LoopOK'
    BY LoopQuiet DEF RunsInv
<1>3. /\ (\A a \in SeqRange(q) : a.k # "cfin") => (\A a \in SeqRange(q') : a.k # "cfin")
      /\ \A a \in SeqRange(q') : a.k \in {"cfin", "del"} => a \in SeqRange(q)
      /\ Approving' => Approving
    BY DEF Approving
<1>4. DispOK'
    BY <1>3, DispQuiet DEF RunsInv
<1>5. StopOK'
    <2>1. /\ cur = 0 => cur' = 0
          /\ cur # 0 => /\ rt[cur].failed => rt'[cur].failed
                        /\ rt[cur].paused => rt'[cur].paused
        BY Types DEF Quiet
    <2>2. Flying' \subseteq Flying
        BY TakenQuiet
    <2>3. \A g \in 1..Len(rt') : rt'[g].pc \notin {"idle", "top"} =>
            g \in 1..Len(rt) /\ rt[g].pc \notin {"idle", "top"}
        BY DEF Quiet
    <2> QED
        BY <1>3, <2>1, <2>2, <2>3 DEF StopOK, RunsInv
<1>6. PlainOK'
    BY FineQuiet DEF PlainOK, RunsInv
<1> QED
    BY <1>1, <1>2, <1>4, <1>5, <1>6 DEF RunsInv

\* The same for a step that queues or sets to work one activation at most.
LEMMA QuietOne ==
    ASSUME Inv, RunsInv, NEW D \in SUBSET Nodes, Quiet(rt, rt', cur, D),
           cur' = cur, alive' = alive, go' = go,
           NEW b, Fine(b), b.k \notin {"cfin", "del"}, b.k \in {"ap1", "ap2"} => Approving,
           SeqRange(q') \subseteq SeqRange(q) \cup {b}, working' \subseteq working \cup {b},
           \A w \in working' : w.k \in {"setup", "llm", "release"},
           Held(q', working', Taken \ D)
    PROVE  RunsInv'
<1> DEFINE B == {b}
<1>1. SeqRange(q') \subseteq SeqRange(q) \cup B /\ working' \subseteq working \cup B
    OBVIOUS
<1>2. \A x \in B : Fine(x) /\ x.k \notin {"cfin", "del"} /\ (x.k \in {"ap1", "ap2"} => Approving)
    OBVIOUS
<1> HIDE DEF B
<1> QED
    BY <1>1, <1>2, QuietStep

\* The same for a step that leaves the runtimes alone.
LEMMA StayOne ==
    ASSUME Inv, RunsInv, rt' = rt,
           cur' = cur, alive' = alive, go' = go,
           NEW b, Fine(b), b.k \notin {"cfin", "del"}, b.k \in {"ap1", "ap2"} => Approving,
           SeqRange(q') \subseteq SeqRange(q) \cup {b}, working' \subseteq working \cup {b},
           \A w \in working' : w.k \in {"setup", "llm", "release"},
           Held(q', working', Taken)
    PROVE  RunsInv'
<1>1. Quiet(rt, rt', cur, {})
    BY Types, QuietNothing
<1>2. Held(q', working', Taken \ {})
    <2>1. Taken \ {} = Taken
        OBVIOUS
    <2> QED
        BY <2>1
<1> QED
    BY <1>1, <1>2, QuietOne

\* The same for a step that only queues what was queued, or less.
LEMMA QuietLess ==
    ASSUME Inv, RunsInv, NEW D \in SUBSET Nodes, Quiet(rt, rt', cur, D),
           cur' = cur, alive' = alive, go' = go,
           SeqRange(q') \subseteq SeqRange(q), working' \subseteq working,
           Held(q', working', Taken \ D)
    PROVE  RunsInv'
<1> DEFINE B == {}
<1>1. SeqRange(q') \subseteq SeqRange(q) \cup B /\ working' \subseteq working \cup B
    OBVIOUS
<1>2. \A x \in B : Fine(x) /\ x.k \notin {"cfin", "del"} /\ (x.k \in {"ap1", "ap2"} => Approving)
    OBVIOUS
<1>3. \A w \in working' : w.k \in {"setup", "llm", "release"}
    BY DEF RunsInv, PlainOK
<1> HIDE DEF B
<1> QED
    BY <1>1, <1>2, <1>3, QuietStep

-----------------------------------------------------------------------------
\* A run goes on in its slot.

LEMMA HeldNext ==
    ASSUME NEW Q \in Seq(Act), Q # <<>>, NEW W, NEW K, Held(Q, W, K), Slotted(Head(Q)),
           NEW b, Slotted(b), Slot(b) = Slot(Head(Q))
    PROVE  Held(Append(Tail(Q), b), W, K)
<1> DEFINE T == Tail(Q)
           J == K \ {Slot(b)}
<1>1. Held(T, W, J) /\ T \in Seq(Act) /\ Slot(b) \in K
    BY HeldLeave, TailOf
<1>2. J \cup {Slot(b)} = K /\ Slot(b) \notin J
    BY <1>1
<1> HIDE DEF T, J
<1>3. Held(Append(T, b), W, J \cup {Slot(b)})
    BY <1>1, <1>2, HeldEnter
<1> QED
    BY <1>2, <1>3 DEF T

LEMMA HeldStarts ==
    ASSUME NEW Q \in Seq(Act), Q # <<>>, NEW W, NEW K, Held(Q, W, K), Slotted(Head(Q)),
           NEW b, b.n = Slot(Head(Q))
    PROVE  Held(Tail(Q), W \cup {b}, K)
<1> DEFINE J == K \ {b.n}
<1>1. Held(Tail(Q), W, J) /\ b.n \in K
    BY HeldLeave
<1>2. J \cup {b.n} = K /\ b.n \notin J
    BY <1>1
<1> HIDE DEF J
<1>3. Held(Tail(Q), W \cup {b}, J \cup {b.n})
    BY <1>1, <1>2, HeldWork
<1> QED
    BY <1>2, <1>3

LEMMA HeldMoves ==
    ASSUME NEW Q, NEW W, NEW K, Held(Q, W, K), NEW w \in W, NEW b, b.n = w.n
    PROVE  Held(Q, (W \ {w}) \cup {b}, K)
<1> DEFINE J == K \ {b.n}
           V == W \ {w}
<1>1. Held(Q, V, J) /\ b.n \in K
    BY HeldUnwork
<1>2. J \cup {b.n} = K /\ b.n \notin J
    BY <1>1
<1> HIDE DEF J, V
<1>3. Held(Q, V \cup {b}, J \cup {b.n})
    BY <1>1, <1>2, HeldWork
<1> QED
    BY <1>2, <1>3 DEF V

LEMMA HeldQueued ==
    ASSUME NEW Q \in Seq(Act), NEW W, NEW K, Held(Q, W, K), NEW w \in W,
           NEW b, Slotted(b), Slot(b) = w.n
    PROVE  Held(Append(Q, b), W \ {w}, K)
<1> DEFINE J == K \ {w.n}
           V == W \ {w}
<1>1. Held(Q, V, J) /\ w.n \in K
    BY HeldUnwork
<1>2. J \cup {w.n} = K /\ w.n \notin J
    BY <1>1
<1> HIDE DEF J, V
<1>3. Held(Append(Q, b), V, J \cup {Slot(b)})
    BY <1>1, <1>2, HeldEnter
<1> QED
    BY <1>2, <1>3 DEF V

LEMMA HeldPlainNext ==
    ASSUME NEW Q \in Seq(Act), Q # <<>>, NEW W, NEW K, Held(Q, W, K), ~Slotted(Head(Q)),
           NEW b, ~Slotted(b)
    PROVE  Held(Append(Tail(Q), b), W, K)
<1>1. Held(Tail(Q), W, K) /\ Tail(Q) \in Seq(Act)
    BY HeldTail, TailOf
<1> QED
    BY <1>1, HeldAppend

\* The head of the queue, as an activation.
LEMMA HeadFacts ==
    ASSUME Inv, RunsInv, NEW k, At(k)
    PROVE  /\ q \in Seq(Act) /\ q # <<>> /\ Head(q) \in Act /\ Head(q).k = k /\ Fine(Head(q))
           /\ Head(q) \in SeqRange(q) /\ Tail(q) \in Seq(Act)
           /\ SeqRange(Tail(q)) \subseteq SeqRange(q)
           /\ \A b : SeqRange(Append(Tail(q), b)) \subseteq SeqRange(q) \cup {b}
           /\ Held(q, working, Taken)
           /\ k \in RunKinds => /\ Slotted(Head(q)) /\ Slot(Head(q)) = Head(q).n
                                /\ Head(q).n \in Nodes /\ Head(q).g = cur
           /\ k \in Reruns => /\ Slotted(Head(q)) /\ Slot(Head(q)) = Head(q).own.n
                              /\ Head(q).own.n \in GateAuto \cap Nodes /\ Head(q).own.g = cur
                              /\ Head(q).n \in Nodes /\ Head(q).n = GateTarget[Head(q).own.n]
           /\ k \notin SlotKinds => ~Slotted(Head(q))
           /\ k \in {"fin", "susp"} => Slotted(Head(q)) /\ Slot(Head(q)) = Head(q).n
<1>1. q \in Seq(Act) /\ q # <<>> /\ Head(q).k = k
    BY Types DEF At
<1>2. /\ Head(q) \in Act /\ Head(q) \in SeqRange(q) /\ Tail(q) \in Seq(Act)
      /\ SeqRange(Tail(q)) \subseteq SeqRange(q)
    BY <1>1, TailOf
<1>3. \A b : SeqRange(Append(Tail(q), b)) \subseteq SeqRange(q) \cup {b}
    BY <1>2, RangeAppend
<1>4. Fine(Head(q))
    BY <1>2 DEF RunsInv, PlainOK
<1>5. Head(q).k \in RunKinds => Head(q).n \in Nodes
    BY <1>2, OfNode DEF RunKinds, TaskKinds
<1>6. GateAuto \subseteq Nodes
    BY EngineAssumption
<1>7. /\ k \in RunKinds => Slotted(Head(q)) /\ Slot(Head(q)) = Head(q).n
      /\ k \in Reruns => Slotted(Head(q)) /\ Slot(Head(q)) = Head(q).own.n
      /\ k \notin SlotKinds => ~Slotted(Head(q))
      /\ k \in {"fin", "susp"} => Slotted(Head(q)) /\ Slot(Head(q)) = Head(q).n
    BY <1>1 DEF Slotted, SlotKinds, Slot, RunKinds, Reruns
<1> QED
    BY <1>1, <1>2, <1>3, <1>4, <1>5, <1>6, <1>7 DEF RunsInv, HeldOK, Fine

\* A run outside the log.
LEMMA WorkFacts ==
    ASSUME Inv, RunsInv, NEW w \in working
    PROVE  /\ q \in Seq(Act) /\ w \in Act /\ Fine(w) /\ w.n \in Nodes /\ w.g = cur /\ cur \in 1..Len(rt)
           /\ Held(q, working, Taken) /\ w.k \in RunKinds
           /\ \A b : SeqRange(Append(q, b)) \subseteq SeqRange(q) \cup {b}
<1>1. q \in Seq(Act) /\ w \in Act
    BY Types
<1>2. Fine(w) /\ w.k \in RunKinds
    BY DEF RunsInv, PlainOK, RunKinds
<1>3. w.n \in Nodes /\ w.n # 0
    BY <1>1, <1>2, OfNode DEF RunKinds, TaskKinds
<1>4. w.n \in Taken
    BY DEF RunsInv, HeldOK, Held
<1>5. cur # 0
    BY <1>3, <1>4 DEF Taken, Flying
<1>6. cur \in 1..Len(rt)
    BY <1>5, Types
<1> QED
    BY <1>1, <1>2, <1>3, <1>6, RangeAppend DEF RunsInv, HeldOK, Fine

\* A run that is queued belongs to the registry's runtime.
LEMMA HeadRunFacts ==
    ASSUME Inv, RunsInv, NEW k \in RunKinds, At(k)
    PROVE  cur \in 1..Len(rt) /\ Head(q).g = cur /\ Head(q).n \in Nodes
<1>1. Head(q).n \in Taken /\ Head(q).n \in Nodes /\ Head(q).g = cur
    <2>1. Slot(Head(q)) \in Taken /\ Slot(Head(q)) = Head(q).n
        BY HeadFacts, HeldLeave
    <2> QED
        BY <2>1, HeadFacts
<1>2. Head(q).n # 0
    BY <1>1, WorkflowAssumption
<1>3. cur # 0
    BY <1>1, <1>2 DEF Taken, Flying
<1> QED
    BY <1>1, <1>3, Types

\* A run that goes on is as plain as it was.
LEMMA StillRun ==
    ASSUME NEW a, Fine(a), a.k \in RunKinds, NEW b, b.k \in RunKinds, b.g = a.g, b.own = a.own
    PROVE  /\ Fine(b) /\ Slotted(b) /\ b.k \notin {"cfin", "del", "ap1", "ap2"}
           /\ Slot(b) = b.n /\ Slot(a) = a.n
BY DEF Fine, Slotted, Slot, SlotKinds, RunKinds, Reruns

\* The steps of a run between its dispatch and its release.
LEMMA RunsOn ==
    ASSUME Inv, RunsInv, NEW w,
           \/ PhaseRunning \/ RunStarted \/ RunDone \/ PhaseDone
           \/ w \in working /\ (Gather(w) \/ Finish(w))
    PROVE  RunsInv'
<1>0. \A k : k \in working => k.k \in {"setup", "llm", "release"}
    BY DEF RunsInv, PlainOK
<1>1. CASE PhaseRunning \/ RunDone
    <2> DEFINE a == Head(q)
    <2>0. PICK b : /\ q' = Append(Tail(q), b) /\ b.k \in RunKinds /\ b.n = a.n /\ b.g = a.g
                   /\ b.own = a.own /\ (At("run1") \/ At("done1"))
        <3>1. a \in Act
            BY <1>1, HeadFacts DEF PhaseRunning, RunDone
        <3>2. CASE PhaseRunning
            <4> DEFINE b == [a EXCEPT !.k = "run2"]
            <4>1. b.k \in RunKinds /\ b.n = a.n /\ b.g = a.g /\ b.own = a.own
                BY <3>1 DEF Act, ActRec, RunKinds
            <4>2. q' = Append(Tail(q), b)
                BY <3>2 DEF PhaseRunning, Next1
            <4> QED
                BY <3>2, <4>1, <4>2 DEF PhaseRunning
        <3>3. CASE RunDone
            <4> DEFINE b == [a EXCEPT !.k = "done2"]
            <4>1. b.k \in RunKinds /\ b.n = a.n /\ b.g = a.g /\ b.own = a.own
                BY <3>1 DEF Act, ActRec, RunKinds
            <4>2. q' = Append(Tail(q), b)
                BY <3>3 DEF RunDone, Next1
            <4> QED
                BY <3>3, <4>1, <4>2 DEF RunDone
        <3> QED
            BY <1>1, <3>2, <3>3
    <2>1. a.k \in RunKinds /\ Fine(a) /\ Slotted(a) /\ Slot(a) = a.n
        BY <2>0, HeadFacts DEF RunKinds
    <2>2. Fine(b) /\ Slotted(b) /\ Slot(b) = b.n /\ b.k \notin {"cfin", "del", "ap1", "ap2"}
        BY <2>0, <2>1, StillRun
    <2>3. Held(q', working, Taken) /\ SeqRange(q') \subseteq SeqRange(q) \cup {b}
        BY <2>0, <2>1, <2>2, HeadFacts, HeldNext
    <2>4. UNCHANGED <<rt, cur, alive, go, working>>
        BY <1>1 DEF PhaseRunning, RunDone, ctl
    <2>5. working' \subseteq working \cup {b} /\ \A x \in working' : x.k \in {"setup", "llm", "release"}
        BY <1>0, <2>4
    <2> QED
        BY <1>0, <2>2, <2>3, <2>4, <2>5, StayOne
<1>2. CASE RunStarted \/ PhaseDone
    <2> DEFINE a == Head(q)
    <2>0. PICK b : /\ q' = Tail(q) /\ working' = working \cup {b}
                   /\ b.k \in {"setup", "release"} /\ b.n = a.n /\ b.g = a.g
                   /\ b.own = a.own /\ (At("run2") \/ At("done2"))
        <3>1. a \in Act
            BY <1>2, HeadFacts DEF RunStarted, PhaseDone
        <3>2. CASE RunStarted
            <4> DEFINE b == [a EXCEPT !.k = "setup"]
            <4>1. b.k = "setup" /\ b.n = a.n /\ b.g = a.g /\ b.own = a.own
                BY <3>1 DEF Act, ActRec
            <4>2. q' = Tail(q) /\ working' = working \cup {b}
                BY <3>2 DEF RunStarted
            <4> QED
                BY <3>2, <4>1, <4>2 DEF RunStarted
        <3>3. CASE PhaseDone
            <4> DEFINE b == [a EXCEPT !.k = "release"]
            <4>1. b.k = "release" /\ b.n = a.n /\ b.g = a.g /\ b.own = a.own
                BY <3>1 DEF Act, ActRec
            <4>2. q' = Tail(q) /\ working' = working \cup {b}
                BY <3>3 DEF PhaseDone
            <4> QED
                BY <3>3, <4>1, <4>2 DEF PhaseDone
        <3> QED
            BY <1>2, <3>2, <3>3
    <2>1. a.k \in RunKinds /\ Fine(a) /\ Slotted(a) /\ Slot(a) = a.n /\ b.k \in RunKinds
        BY <2>0, HeadFacts DEF RunKinds
    <2>2. Fine(b) /\ b.k \notin {"cfin", "del", "ap1", "ap2"}
        BY <2>0, <2>1, StillRun
    <2>3. Held(q', working', Taken) /\ SeqRange(q') \subseteq SeqRange(q)
        BY <2>0, <2>1, HeadFacts, HeldStarts
    <2>4. UNCHANGED <<rt, cur, alive, go>>
        BY <1>2 DEF RunStarted, PhaseDone, ctl
    <2>5. \A x \in working' : x.k \in {"setup", "llm", "release"}
        BY <1>0, <2>0
    <2>6. SeqRange(q') \subseteq SeqRange(q) \cup {b} /\ working' \subseteq working \cup {b}
        BY <2>0, <2>3
    <2> QED
        BY <2>2, <2>3, <2>4, <2>5, <2>6, StayOne
<1>3. CASE w \in working /\ Gather(w)
    <2>0. w \in Act /\ Fine(w) /\ w.k \in RunKinds
        BY <1>3, WorkFacts
    <2>t. PICK t \in Workspace :
            working' = (working \ {w}) \cup {[w EXCEPT !.k = "llm", !.tree = t, !.ins = [m \in Nodes |-> IF m \in Upstream(w.n) THEN LatestDone(m) ELSE 0]]}
        BY <1>3 DEF Gather
    <2> DEFINE b == [w EXCEPT !.k = "llm", !.tree = t, !.ins = [m \in Nodes |-> IF m \in Upstream(w.n) THEN LatestDone(m) ELSE 0]]
    <2>1. b.k = "llm" /\ b.n = w.n /\ b.g = w.g /\ b.own = w.own
        BY <2>0 DEF Act, ActRec
    <2>2. working' = (working \ {w}) \cup {b} /\ q' = q /\ UNCHANGED <<rt, cur, alive, go>>
        BY <1>3, <2>t DEF Gather, log, ctl
    <2> HIDE DEF b
    <2>3. Fine(b) /\ b.k \notin {"cfin", "del", "ap1", "ap2"}
        BY <2>0, <2>1, StillRun DEF RunKinds
    <2>4. Held(q', working', Taken)
        BY <1>3, <2>1, <2>2, WorkFacts, HeldMoves
    <2>5. /\ \A x \in working' : x.k \in {"setup", "llm", "release"}
          /\ SeqRange(q') \subseteq SeqRange(q) \cup {b} /\ working' \subseteq working \cup {b}
        BY <1>0, <2>1, <2>2
    <2> QED
        BY <2>2, <2>3, <2>4, <2>5, StayOne
<1>4. CASE w \in working /\ Finish(w)
    <2>0. w \in Act /\ Fine(w) /\ w.k \in RunKinds
        BY <1>4, WorkFacts
    <2>1. PICK b : q' = Append(q, b) /\ b.k = "done1" /\ b.n = w.n /\ b.g = w.g /\ b.own = w.own
        <3>1. \A o, vd : LET b == [w EXCEPT !.k = "done1", !.out = o, !.verdict = vd] IN
                b.k = "done1" /\ b.n = w.n /\ b.g = w.g /\ b.own = w.own
            BY <2>0 DEF Act, ActRec
        <3>2. \A o : LET b == [w EXCEPT !.k = "done1", !.out = o] IN
                b.k = "done1" /\ b.n = w.n /\ b.g = w.g /\ b.own = w.own
            BY <2>0 DEF Act, ActRec
        <3>3. \/ \E vd : q' = Append(q, [w EXCEPT !.k = "done1", !.out = Outcome(w.n), !.verdict = vd])
              \/ q' = Append(q, [w EXCEPT !.k = "done1", !.out = "failed"])
            BY <1>4 DEF Finish
        <3>4. CASE \E vd : q' = Append(q, [w EXCEPT !.k = "done1", !.out = Outcome(w.n), !.verdict = vd])
            <4>1. PICK vd : q' = Append(q, [w EXCEPT !.k = "done1", !.out = Outcome(w.n), !.verdict = vd])
                BY <3>4
            <4> DEFINE b == [w EXCEPT !.k = "done1", !.out = Outcome(w.n), !.verdict = vd]
            <4>2. b.k = "done1" /\ b.n = w.n /\ b.g = w.g /\ b.own = w.own
                BY <3>1
            <4>3. q' = Append(q, b)
                BY <4>1
            <4> HIDE DEF b
            <4> QED
                BY <4>2, <4>3
        <3>5. CASE q' = Append(q, [w EXCEPT !.k = "done1", !.out = "failed"])
            BY <3>2, <3>5
        <3> QED
            BY <3>3, <3>4, <3>5
    <2>2. working' = working \ {w} /\ UNCHANGED <<rt, cur, alive, go>>
        BY <1>4 DEF Finish, log, ctl
    <2>3. Fine(b) /\ Slotted(b) /\ Slot(b) = b.n /\ b.k \notin {"cfin", "del", "ap1", "ap2"}
        BY <2>0, <2>1, StillRun DEF RunKinds
    <2>4. Held(q', working', Taken)
        BY <1>4, <2>1, <2>2, <2>3, WorkFacts, HeldQueued
    <2>5. /\ \A x \in working' : x.k \in {"setup", "llm", "release"}
          /\ SeqRange(q') \subseteq SeqRange(q) \cup {b} /\ working' \subseteq working \cup {b}
        BY <1>0, <1>4, <2>1, <2>2, WorkFacts
    <2> QED
        BY <2>2, <2>3, <2>4, <2>5, StayOne
<1> QED
    BY <1>1, <1>2, <1>3, <1>4

\* How a run at the head of the queue goes on, and how it ends.
LEMMA HeadGoesOn ==
    ASSUME Inv, RunsInv, NEW k \in RunKinds, At(k), NEW b, b.k \in RunKinds,
           b.n = Head(q).n, b.g = Head(q).g, b.own = Head(q).own,
           Next1(b), Quiet(rt, rt', cur, {}),
           working' = working, cur' = cur, alive' = alive, go' = go
    PROVE  RunsInv'
<1>1. Head(q).k \in RunKinds /\ Fine(Head(q)) /\ Slotted(Head(q)) /\ Slot(Head(q)) = Head(q).n
    BY HeadFacts
<1>2. Fine(b) /\ Slotted(b) /\ Slot(b) = b.n /\ b.k \notin {"cfin", "del", "ap1", "ap2"}
    BY <1>1, StillRun
<1>3. Held(q', working', Taken \ {}) /\ SeqRange(q') \subseteq SeqRange(q) \cup {b}
    <2>1. Taken \ {} = Taken
        OBVIOUS
    <2> QED
        BY <1>1, <1>2, <2>1, HeadFacts, HeldNext DEF Next1
<1>4. working' \subseteq working \cup {b} /\ \A x \in working' : x.k \in {"setup", "llm", "release"}
    BY DEF RunsInv, PlainOK
<1> QED
    BY <1>2, <1>3, <1>4, QuietOne

LEMMA HeadEnds ==
    ASSUME Inv, RunsInv, NEW k \in RunKinds, At(k), NEW R \in Seq(Awake), Len(R) = Len(rt),
           Quiet(rt, R, cur, {}), rt' = Finally(R, Head(q).n, Head(q).g, cur), q' = Tail(q),
           working' = working, cur' = cur, alive' = alive, go' = go
    PROVE  RunsInv'
<1> DEFINE n == Head(q).n
<1>1. cur \in 1..Len(rt) /\ Head(q).g = cur /\ n \in Nodes
    BY HeadRunFacts
<1>2. Quiet(R, rt', cur, {n})
    BY <1>1, QuietFinally
<1>3. Quiet(rt, rt', cur, {} \cup {n}) /\ {} \cup {n} = {n}
    BY <1>2, Types, QuietTrans
<1>4. Held(q', working', Taken \ {n}) /\ SeqRange(q') \subseteq SeqRange(q)
    <2>1. Slot(Head(q)) = n
        BY HeadFacts
    <2> QED
        BY <2>1, HeadFacts, HeldLeave
<1>5. {n} \in SUBSET Nodes /\ Quiet(rt, rt', cur, {n}) /\ working' \subseteq working
    BY <1>1, <1>3
<1> HIDE DEF n
<1> QED
    BY <1>4, <1>5, QuietLess

\* How a run outside the log goes on, and how it ends.
LEMMA WorkGoesOn ==
    ASSUME Inv, RunsInv, NEW w \in working, NEW b, b.k \in RunKinds,
           b.n = w.n, b.g = w.g, b.own = w.own,
           q' = Append(q, b), Quiet(rt, rt', cur, {}),
           working' = working \ {w}, cur' = cur, alive' = alive, go' = go
    PROVE  RunsInv'
<1>1. w.k \in RunKinds /\ Fine(w)
    BY WorkFacts
<1>2. Fine(b) /\ Slotted(b) /\ Slot(b) = b.n /\ b.k \notin {"cfin", "del", "ap1", "ap2"}
    BY <1>1, StillRun
<1>3. Held(q', working', Taken \ {}) /\ SeqRange(q') \subseteq SeqRange(q) \cup {b}
    <2>1. Taken \ {} = Taken
        OBVIOUS
    <2> QED
        BY <1>2, <2>1, WorkFacts, HeldQueued
<1>4. working' \subseteq working \cup {b} /\ \A x \in working' : x.k \in {"setup", "llm", "release"}
    BY DEF RunsInv, PlainOK
<1> QED
    BY <1>2, <1>3, <1>4, QuietOne

LEMMA WorkEnds ==
    ASSUME Inv, RunsInv, NEW w \in working, NEW R \in Seq(Awake), Len(R) = Len(rt),
           Quiet(rt, R, cur, {}), rt' = Finally(R, w.n, w.g, cur), q' = q,
           working' = working \ {w}, cur' = cur, alive' = alive, go' = go
    PROVE  RunsInv'
<1> DEFINE n == w.n
<1>1. cur \in 1..Len(rt) /\ w.g = cur /\ n \in Nodes
    BY WorkFacts
<1>2. Quiet(R, rt', cur, {n})
    BY <1>1, QuietFinally
<1>3. Quiet(rt, rt', cur, {} \cup {n}) /\ {} \cup {n} = {n}
    BY <1>2, Types, QuietTrans
<1>4. Held(q', working', Taken \ {n}) /\ SeqRange(q') \subseteq SeqRange(q)
    BY WorkFacts, HeldUnwork
<1>5. {n} \in SUBSET Nodes /\ Quiet(rt, rt', cur, {n}) /\ working' \subseteq working
    BY <1>1, <1>3
<1> HIDE DEF n
<1> QED
    BY <1>4, <1>5, QuietLess

\* The steps that end a run or hand it on.
LEMMA RunEnds ==
    ASSUME Inv, RunsInv, BudgetPending \/ BudgetReported \/ DownstreamFailed \/ Escalate
    PROVE  RunsInv'
<1>r. Quiet(rt, rt, cur, {}) /\ rt \in Seq(Awake)
    BY Types, QuietNothing
<1>1. CASE BudgetPending
    <2> DEFINE a == Head(q)
               R == WithPaused(rt, cur, TRUE)
               b == [a EXCEPT !.k = "stop"]
    <2>0. At("pend") /\ "pend" \in RunKinds
        BY <1>1 DEF BudgetPending, RunKinds
    <2>1. cur \in 1..Len(rt) /\ a.g = cur /\ a \in Act
        BY <2>0, HeadFacts, HeadRunFacts
    <2>2. Quiet(rt, R, cur, {}) /\ R \in Seq(Awake) /\ Len(R) = Len(rt)
        BY <2>1, Types, QuietStop
    <2>3. working' = working /\ cur' = cur /\ alive' = alive /\ go' = go
        BY <1>1 DEF BudgetPending, ctl
    <2>4. b.k \in RunKinds /\ b.n = a.n /\ b.g = a.g /\ b.own = a.own
        BY <2>1 DEF Act, ActRec, RunKinds
    <2>5. \/ rt' = R /\ Next1(b)
          \/ rt' = Finally(R, a.n, a.g, cur) /\ q' = Tail(q)
        BY <1>1, <2>1 DEF BudgetPending, WithPaused
    <2> HIDE DEF R, b
    <2> QED
        BY <2>0, <2>2, <2>3, <2>4, <2>5, HeadGoesOn, HeadEnds
<1>2. CASE BudgetReported
    <2>0. At("stop") /\ "stop" \in RunKinds
        BY <1>2 DEF BudgetReported, RunKinds
    <2>1. /\ q' = Tail(q) /\ rt' = Finally(rt, Head(q).n, Head(q).g, cur)
          /\ working' = working /\ cur' = cur /\ alive' = alive /\ go' = go
        BY <1>2 DEF BudgetReported, log, ctl
    <2> QED
        BY <1>r, <2>0, <2>1, HeadEnds
<1>3. CASE DownstreamFailed
    <2> DEFINE a == Head(q)
               S == StillPending(a.left \ {a.i})
               b == [a EXCEPT !.left = S, !.i = Least(S)]
    <2>0. At("mdf") /\ "mdf" \in RunKinds
        BY <1>3 DEF DownstreamFailed, RunKinds
    <2>1. a \in Act /\ a.k = "mdf"
        BY <2>0, HeadFacts
    <2>2. working' = working /\ cur' = cur /\ alive' = alive /\ go' = go
        BY <1>3 DEF DownstreamFailed, ctl
    <2>3. b.k = "mdf" /\ b.n = a.n /\ b.g = a.g /\ b.own = a.own
        BY <2>1 DEF Act, ActRec
    <2>4. \/ rt' = rt /\ Next1(b)
          \/ rt' = Finally(rt, a.n, a.g, cur) /\ q' = Tail(q)
        BY <1>3 DEF DownstreamFailed
    <2> HIDE DEF b
    <2> QED
        BY <1>r, <2>0, <2>2, <2>3, <2>4, HeadGoesOn, HeadEnds
<1>4. CASE Escalate
    <2>0. At("esc") /\ "esc" \in RunKinds
        BY <1>4 DEF Escalate, RunKinds
    <2>1. /\ q' = Tail(q) /\ rt' = Finally(rt, Head(q).n, Head(q).g, cur)
          /\ working' = working /\ cur' = cur /\ alive' = alive /\ go' = go
        BY <1>4 DEF Escalate, ctl
    <2> QED
        BY <1>r, <2>0, <2>1, HeadEnds
<1> QED
    BY <1>1, <1>2, <1>3, <1>4

\* The runtimes S are R but for their stop and pause flags.
Alike(R, S) ==
    /\ Len(S) = Len(R)
    /\ \A g \in 1..Len(R) :
         /\ S[g].sr = R[g].sr /\ S[g].todo = R[g].todo /\ S[g].room = R[g].room
         /\ S[g].pc = R[g].pc /\ InFlightOf(S[g]) = InFlightOf(R[g])

LEMMA FlagsAlike ==
    ASSUME NEW R \in Seq(Awake), NEW c \in 1..Len(R), NEW x \in BOOLEAN
    PROVE  Alike(R, WithFailed(R, c, x)) /\ Alike(R, WithPaused(R, c, x))
<1> DEFINE r == R[c]
           e == [r EXCEPT !.failed = x]
           f == [r EXCEPT !.paused = x]
<1>1. r \in Runtime
    BY RuntimeOf
<1>2. WithFailed(R, c, x) = [R EXCEPT ![c] = e] /\ WithPaused(R, c, x) = [R EXCEPT ![c] = f]
    BY DEF WithFailed, WithPaused
<1>3. /\ e.sr = r.sr /\ e.todo = r.todo /\ e.room = r.room /\ e.inFlight = r.inFlight /\ e.pc = r.pc
      /\ f.sr = r.sr /\ f.todo = r.todo /\ f.room = r.room /\ f.inFlight = r.inFlight /\ f.pc = r.pc
    BY <1>1 DEF Runtime
<1> HIDE DEF e, f
<1>4. InFlightOf(e) = InFlightOf(r) /\ InFlightOf(f) = InFlightOf(r)
    BY <1>3 DEF InFlightOf
<1>5. LET S == WithFailed(R, c, x) IN
      Len(S) = Len(R) /\ S[c] = e /\ \A h \in 1..Len(R) : h # c => S[h] = R[h]
    BY <1>2, Replaced
<1>6. LET S == WithPaused(R, c, x) IN
      Len(S) = Len(R) /\ S[c] = f /\ \A h \in 1..Len(R) : h # c => S[h] = R[h]
    BY <1>2, Replaced
<1>7. Alike(R, WithFailed(R, c, x))
    BY <1>3, <1>4, <1>5 DEF Alike
<1>8. Alike(R, WithPaused(R, c, x))
    BY <1>3, <1>4, <1>6 DEF Alike
<1> QED
    BY <1>7, <1>8

LEMMA AlikeTrans ==
    ASSUME NEW R, NEW S, NEW T, Alike(R, S), Alike(S, T)
    PROVE  Alike(R, T)
BY DEF Alike

\* The end of the gate run w loops back.
LoopBack(w) ==
    /\ w.out # "failed" /\ GateTarget[w.n] # 0 /\ w.verdict # "pass" /\ alive /\ LoopsBack(w)
    /\ Release(w)

LEMMA RunReleased ==
    ASSUME Inv, RunsInv, NEW w \in working, Release(w), ~LoopBack(w)
    PROVE  RunsInv'
<1>r. Quiet(rt, rt, cur, {}) /\ rt \in Seq(Awake)
    BY Types, QuietNothing
<1>w. w \in Act /\ cur \in 1..Len(rt) /\ w.g = cur
    BY WorkFacts
<1>0. working' = working \ {w} /\ alive' = alive /\ go' = go
    BY DEF Release, log, ctl
<1>1. ASSUME NEW b, b \in {[w EXCEPT !.k = "pend", !.tree = "none"], [w EXCEPT !.k = "esc", !.tree = "none"]}
      PROVE  b.k \in RunKinds /\ b.n = w.n /\ b.g = w.g /\ b.own = w.own
    <2>1. CASE b = [w EXCEPT !.k = "pend", !.tree = "none"]
        BY <1>w, <2>1 DEF Act, ActRec, RunKinds
    <2>2. CASE b = [w EXCEPT !.k = "esc", !.tree = "none"]
        BY <1>w, <2>2 DEF Act, ActRec, RunKinds
    <2> QED
        BY <1>1, <2>1, <2>2
<1>2. ~(w.out # "failed" /\ GateTarget[w.n] # 0 /\ w.verdict # "pass" /\ alive /\ LoopsBack(w))
    BY DEF LoopBack
<1>3. \/ rt' = rt /\ cur' = cur
            /\ q' \in {Append(q, [w EXCEPT !.k = "pend", !.tree = "none"]),
                      Append(q, [w EXCEPT !.k = "esc", !.tree = "none"])}
      \/ /\ cur' = cur
         /\ LET R == [rt EXCEPT ![w.g].failed = TRUE]
                S == StillPending(Downstream(w.n)) IN
            IF S = {}
            THEN rt' = Finally(R, w.n, w.g, cur) /\ UNCHANGED q
            ELSE rt' = R /\ q' = Append(q, [w EXCEPT !.k = "mdf", !.tree = "none", !.left = S, !.i = Least(S)])
      \/ rt' = Finally(rt, w.n, w.g, cur) /\ q' = q /\ cur' = cur
    BY <1>2 DEF Release
<1>4. CASE rt' = rt /\ cur' = cur
            /\ q' \in {Append(q, [w EXCEPT !.k = "pend", !.tree = "none"]),
                      Append(q, [w EXCEPT !.k = "esc", !.tree = "none"])}
    <2>1. PICK b : q' = Append(q, b) /\ b.k \in RunKinds /\ b.n = w.n /\ b.g = w.g /\ b.own = w.own
        BY <1>1, <1>4
    <2> QED
        BY <1>r, <1>0, <1>4, <2>1, WorkGoesOn
<1>5. CASE /\ cur' = cur
           /\ LET R == [rt EXCEPT ![w.g].failed = TRUE]
                  S == StillPending(Downstream(w.n)) IN
              IF S = {}
              THEN rt' = Finally(R, w.n, w.g, cur) /\ UNCHANGED q
              ELSE rt' = R /\ q' = Append(q, [w EXCEPT !.k = "mdf", !.tree = "none", !.left = S, !.i = Least(S)])
    <2> DEFINE R == WithFailed(rt, cur, TRUE)
               S == StillPending(Downstream(w.n))
               b == [w EXCEPT !.k = "mdf", !.tree = "none", !.left = S, !.i = Least(S)]
    <2>1. \/ rt' = Finally(R, w.n, w.g, cur) /\ q' = q
          \/ rt' = R /\ q' = Append(q, b)
        BY <1>w, <1>5 DEF WithFailed
    <2>2. Quiet(rt, R, cur, {}) /\ R \in Seq(Awake) /\ Len(R) = Len(rt)
        BY <1>w, <1>r, QuietStop
    <2>3. b.k \in RunKinds /\ b.n = w.n /\ b.g = w.g /\ b.own = w.own
        BY <1>w DEF Act, ActRec, RunKinds
    <2> HIDE DEF R, b
    <2> QED
        BY <1>0, <1>5, <2>1, <2>2, <2>3, WorkGoesOn, WorkEnds
<1>6. CASE rt' = Finally(rt, w.n, w.g, cur) /\ q' = q /\ cur' = cur
    BY <1>r, <1>0, <1>6, WorkEnds
<1> QED
    BY <1>3, <1>4, <1>5, <1>6

\* What a fresh runtime adds.
LEMMA EnsuredIs ==
    ASSUME Inv
    PROVE  /\ cur # 0 => Ensured = rt /\ EnsuredId = cur
           /\ cur = 0 =>
                /\ EnsuredId = Len(rt) + 1 /\ Len(Ensured) = Len(rt) + 1
                /\ Ensured[EnsuredId].pc = "idle" /\ InFlightOf(Ensured[EnsuredId]) = {}
                /\ \A g \in 1..Len(rt) : Ensured[g] = rt[g]
<1>1. rt \in Seq(Awake) /\ NewRuntime \in Awake
    BY Types, NewRuntimeAwake
<1>2. NewRuntime.pc = "idle" /\ InFlightOf(NewRuntime) = {}
    BY DEF NewRuntime, InFlightOf
<1>3. /\ Len(Append(rt, NewRuntime)) = Len(rt) + 1
      /\ Append(rt, NewRuntime)[Len(rt) + 1] = NewRuntime
      /\ \A g \in 1..Len(rt) : Append(rt, NewRuntime)[g] = rt[g]
    BY <1>1, AppendProperties
<1> HIDE DEF NewRuntime
<1> QED
    BY <1>2, <1>3 DEF Ensured, EnsuredId

\* A gate loops back: its run becomes a rerun of its target, and keeps its slot.
LEMMA LoopBackIs ==
    ASSUME Inv, RunsInv, NEW w \in working, LoopBack(w)
    PROVE  LET b == RerunAct(GateTarget[w.n], [n |-> w.n, g |-> w.g]) IN
           /\ q' = Append(q, b) /\ rt' = WithFailed(rt, cur, FALSE) /\ cur' = cur
           /\ working' = working \ {w} /\ UNCHANGED <<phase, runs, alive, go, booting>>
           /\ b.k = "rr1" /\ b.n = GateTarget[w.n] /\ b.n \in Nodes
           /\ b.own.n = w.n /\ b.own.g = cur /\ w.n \in GateAuto /\ w.n # 0
<1> DEFINE b == RerunAct(GateTarget[w.n], [n |-> w.n, g |-> w.g])
<1>1. w \in Act /\ w.n \in Nodes /\ w.g = cur /\ cur \in 1..Len(rt) /\ cur # 0
    BY WorkFacts, Types
<1>2. Ensured = rt /\ EnsuredId = cur
    BY <1>1, EnsuredIs
<1>3. q' = Append(q, b) /\ rt' = [Ensured EXCEPT ![EnsuredId].failed = FALSE] /\ cur' = EnsuredId
    BY DEF LoopBack, Release
<1>4. b.k = "rr1" /\ b.n = GateTarget[w.n] /\ b.own = [n |-> w.n, g |-> w.g]
    BY DEF RerunAct, Blank
<1>5. /\ working' = working \ {w} /\ UNCHANGED <<phase, runs, alive, go, booting>>
      /\ GateTarget[w.n] # 0 /\ w.n \in GateAuto
    BY DEF LoopBack, LoopsBack, Release, log, ctl
<1>6. GateTarget[w.n] \in Nodes /\ w.n # 0
    BY <1>1, <1>5, EngineAssumption, WorkflowAssumption
<1> HIDE DEF b
<1> QED
    BY <1>1, <1>2, <1>3, <1>4, <1>5, <1>6 DEF b, WithFailed

LEMMA RunLoopsBack ==
    ASSUME Inv, RunsInv, NEW w \in working, LoopBack(w), go \/ ~rt[cur].failed
    PROVE  RunsInv'
<1>1. PICK b : /\ q' = Append(q, b) /\ b.k = "rr1" /\ b.n = GateTarget[w.n] /\ b.n \in Nodes
               /\ b.own.n = w.n /\ b.own.g = cur
    BY LoopBackIs
<1>2. /\ rt' = WithFailed(rt, cur, FALSE) /\ cur' = cur /\ working' = working \ {w}
      /\ alive' = alive /\ go' = go /\ w.n \in GateAuto /\ w.n # 0
    BY LoopBackIs
<1>3. w \in Act /\ w.n \in Nodes /\ cur \in 1..Len(rt) /\ cur # 0 /\ q \in Seq(Act)
      /\ Held(q, working, Taken) /\ rt \in Seq(Awake)
    BY WorkFacts, Types
<1>4. Alike(rt, rt')
    BY <1>2, <1>3, FlagsAlike
<1>5. Fine(b)' /\ Slotted(b) /\ Slot(b) = w.n /\ b.k \notin {"cfin", "del", "ap1", "ap2"}
    BY <1>1, <1>2, Zenon DEF Fine, Slotted, Slot, SlotKinds, RunKinds, Reruns
<1>6. Held(q', working', Taken)
    BY <1>1, <1>2, <1>3, <1>5, HeldQueued
<1>7. SeqRange(q') = SeqRange(q) \cup {b}
    BY <1>1, <1>3, RangeAppend
<1>8. Flying' = Flying /\ Settling' = Settling
    BY <1>2, <1>3, <1>4 DEF Alike, Flying, Settling
<1>9. HeldOK'
    BY <1>6, <1>8 DEF HeldOK, Taken
<1>10. LoopOK'
    <2>1. /\ Len(rt') = Len(rt) /\ cur' = cur
          /\ \A g \in 1..Len(rt) : /\ rt'[g].sr = rt[g].sr /\ rt'[g].pc = rt[g].pc
                                   /\ InFlightOf(rt'[g]) = InFlightOf(rt[g])
        BY <1>2, <1>4 DEF Alike
    <2> QED
        BY <1>3, <2>1 DEF LoopOK, RunsInv
<1>11. DispOK'
    <2> SUFFICES ASSUME NEW g \in 1..Len(rt'), rt'[g].pc = "dispatch", rt'[g].todo # {}
                 PROVE  MayStart(g)'
        BY DEF DispOK, RunsInv
    <2>1. /\ g \in 1..Len(rt) /\ rt[g].pc = "dispatch" /\ rt'[g].todo = rt[g].todo
          /\ rt'[g].room = rt[g].room /\ InFlightOf(rt'[g]) = InFlightOf(rt[g])
        BY <1>4 DEF Alike
    <2>2. MayStart(g)
        BY <2>1 DEF DispOK, RunsInv
    <2>3. \A a \in SeqRange(q') : a.k # "cfin"
        BY <1>5, <1>7, <2>2 DEF MayStart
    <2> QED
        BY <1>2, <2>1, <2>2, <2>3 DEF MayStart
<1>12. StopOK'
    <2>1. alive /\ w.n \in Flying
        <3>1. w.n \in Taken
            BY <1>3, HeldUnwork
        <3> QED
            BY <1>2, <3>1 DEF Taken, LoopBack
    <2>2. \A a \in SeqRange(q') : a.k \notin {"cfin", "del"}
        BY <1>3, <1>5, <1>7, <2>1 DEF StopOK, RunsInv
    <2>3. ~go => rt'[cur].paused
        <3>1. rt'[cur].paused = rt[cur].paused
            <4>1. rt' = [rt EXCEPT ![cur] = [rt[cur] EXCEPT !.failed = FALSE]] /\ rt[cur] \in Runtime
                BY <1>2, <1>3, Types DEF WithFailed
            <4>2. rt'[cur] = [rt[cur] EXCEPT !.failed = FALSE]
                <5> DEFINE e == [rt[cur] EXCEPT !.failed = FALSE]
                <5>1. rt' = [rt EXCEPT ![cur] = e]
                    BY <4>1
                <5> HIDE DEF e
                <5>2. rt'[cur] = e
                    BY <1>3, <5>1, Replaced
                <5> QED
                    BY <5>2 DEF e
            <4> QED
                BY <4>1, <4>2 DEF Runtime
        <3> QED
            BY <1>3, <3>1 DEF StopOK, RunsInv
    <2>4. Approving' => Approving
        BY <1>5, <1>7 DEF Approving
    <2>5. \A g \in 1..Len(rt') : rt'[g].pc \notin {"idle", "top"} =>
            g \in 1..Len(rt) /\ rt[g].pc \notin {"idle", "top"}
        BY <1>4 DEF Alike
    <2> QED
        BY <1>2, <2>1, <2>2, <2>3, <2>4, <2>5 DEF StopOK, RunsInv
<1>13. PlainOK'
    <2>1. \A a \in SeqRange(q) \cup working : Fine(a)'
        BY <1>2, <1>4 DEF Alike, PlainOK, RunsInv, Fine
    <2>2. \A x \in working' : x.k \in {"setup", "llm", "release"}
        BY <1>2 DEF PlainOK, RunsInv
    <2> QED
        BY <1>2, <1>5, <1>7, <2>1, <2>2 DEF PlainOK
<1> QED
    BY <1>9, <1>10, <1>11, <1>12, <1>13 DEF RunsInv

-----------------------------------------------------------------------------
\* Activations about the task, the approvals and the boot pass.

LEMMA PlainFine ==
    ASSUME NEW b, b.own = Blank.own,
           b.k \in {"kick", "b1", "b2", "b3", "ap1", "ap2", "cfin", "del"}
    PROVE  Fine(b) /\ Fine(b)' /\ ~Slotted(b)
<1>1. Blank.own.n = 0
    BY DEF Blank
<1> QED
    BY <1>1 DEF Fine, Slotted, SlotKinds, RunKinds, Reruns

LEMMA BlankPlain ==
    /\ Blank.k = "kick"
    /\ \A x, m, v : /\ [Blank EXCEPT !.k = x, !.n = m, !.v = v].k = x
                    /\ [Blank EXCEPT !.k = x, !.n = m, !.v = v].own = Blank.own
    /\ \A x, m : /\ [Blank EXCEPT !.k = x, !.n = m].k = x
                 /\ [Blank EXCEPT !.k = x, !.n = m].own = Blank.own
    /\ \A x, m : /\ [Blank EXCEPT !.k = x, !.out = m].k = x
                 /\ [Blank EXCEPT !.k = x, !.out = m].own = Blank.own
    /\ \A x : /\ [Blank EXCEPT !.k = x].k = x
              /\ [Blank EXCEPT !.k = x].own = Blank.own
BY DEF Blank

LEMMA BootPlain ==
    ASSUME NEW ph, NEW m
    PROVE  BootNext(ph, m).own = Blank.own /\ BootNext(ph, m).k \in {"b1", "b2", "b3"}
<1> DEFINE S == {n \in Nodes : n > m /\ ph[n] = "running"}
           n == Least(S)
           l == Len(runs[n])
<1>1. \/ BootNext(ph, m) = [Blank EXCEPT !.k = "b3"]
      \/ BootNext(ph, m) = [Blank EXCEPT !.k = "b1", !.n = n, !.v = runs[n][l].ver]
      \/ BootNext(ph, m) = [Blank EXCEPT !.k = "b2", !.n = n]
    BY Zenon DEF BootNext
<1> HIDE DEF n, l
<1> DEFINE x == [Blank EXCEPT !.k = "b3"]
           y == [Blank EXCEPT !.k = "b1", !.n = n, !.v = runs[n][l].ver]
           z == [Blank EXCEPT !.k = "b2", !.n = n]
<1>2. x.k = "b3" /\ x.own = Blank.own /\ y.k = "b1" /\ y.own = Blank.own
      /\ z.k = "b2" /\ z.own = Blank.own
    BY DEF Blank
<1>3. BootNext(ph, m) = x \/ BootNext(ph, m) = y \/ BootNext(ph, m) = z
    BY <1>1, Zenon
<1> HIDE DEF x, y, z
<1> QED
    BY <1>2, <1>3

\* An activation that takes no slot is done, or the next one takes its place.
LEMMA PlainDone ==
    ASSUME Inv, RunsInv, NEW k, k \notin SlotKinds, At(k), q' = Tail(q),
           Quiet(rt, rt', cur, {}),
           working' = working, cur' = cur, alive' = alive, go' = go
    PROVE  RunsInv'
<1>1. Taken \ {} = Taken
    OBVIOUS
<1>2. Held(q', working', Taken \ {}) /\ SeqRange(q') \subseteq SeqRange(q)
    BY <1>1, HeadFacts, HeldTail
<1> QED
    BY <1>2, QuietLess

LEMMA PlainNext ==
    ASSUME Inv, RunsInv, NEW k, k \notin SlotKinds, At(k), NEW b, Next1(b),
           b.own = Blank.own, b.k \in {"kick", "b1", "b2", "b3", "ap1", "ap2"},
           b.k \in {"ap1", "ap2"} => Approving,
           rt' = rt, working' = working, cur' = cur, alive' = alive, go' = go
    PROVE  RunsInv'
<1>1. Fine(b) /\ ~Slotted(b)
    BY PlainFine
<1>2. Held(q', working', Taken) /\ SeqRange(q') \subseteq SeqRange(q) \cup {b}
    BY <1>1, HeadFacts, HeldPlainNext DEF Next1
<1>3. working' \subseteq working \cup {b} /\ \A x \in working' : x.k \in {"setup", "llm", "release"}
    BY DEF RunsInv, PlainOK
<1> QED
    BY <1>1, <1>2, <1>3, StayOne

LEMMA PlainActions ==
    ASSUME Inv, RunsInv,
           Kick \/ ApproveRun \/ BootScan \/ BootRunFailed \/ BootPending \/ BootPaused
    PROVE  RunsInv'
<1>0. "kick" \notin SlotKinds /\ "ap1" \notin SlotKinds
      /\ "b1" \notin SlotKinds /\ "b2" \notin SlotKinds
      /\ "b3" \notin SlotKinds
    BY DEF SlotKinds, RunKinds, Reruns
<1>1. CASE Kick
    <2>1. At("kick") /\ q' = Tail(q) /\ rt' = Request(rt, cur)
          /\ working' = working /\ cur' = cur /\ alive' = alive /\ go' = go
        BY <1>1 DEF Kick, ctl
    <2>2. Quiet(rt, rt', cur, {})
        BY <2>1, Types, QuietRequest
    <2> QED
        BY <1>0, <2>1, <2>2, PlainDone
<1>2. CASE ApproveRun
    <2> DEFINE b == [Head(q) EXCEPT !.k = "ap2"]
    <2>1. At("ap1") /\ Next1(b) /\ rt' = rt
          /\ working' = working /\ cur' = cur /\ alive' = alive /\ go' = go
        BY <1>2 DEF ApproveRun, ctl
    <2>2. Head(q) \in Act /\ Fine(Head(q)) /\ Head(q).k = "ap1" /\ Head(q) \in SeqRange(q)
        BY <2>1, HeadFacts
    <2>3. b.k = "ap2" /\ b.own = Head(q).own /\ Approving
        BY <2>2 DEF Act, ActRec, Approving
    <2>4. Fine(b) /\ ~Slotted(b)
        BY <2>2, <2>3 DEF Fine, Slotted, SlotKinds, RunKinds, Reruns
    <2> HIDE DEF b
    <2>5. Held(q', working', Taken) /\ SeqRange(q') \subseteq SeqRange(q) \cup {b}
        BY <1>0, <2>1, <2>4, HeadFacts, HeldPlainNext DEF Next1
    <2>6. working' \subseteq working \cup {b} /\ \A x \in working' : x.k \in {"setup", "llm", "release"}
        BY <2>1 DEF RunsInv, PlainOK
    <2> QED
        BY <2>1, <2>3, <2>4, <2>5, <2>6, StayOne
<1>3. CASE BootScan
    <2> DEFINE b == BootNext(phase, 0)
    <2>0. rt' = rt /\ working' = working /\ cur' = cur /\ alive' = alive /\ go' = go
        BY <1>3 DEF BootScan, log
    <2>1. b.own = Blank.own /\ b.k \in {"b1", "b2", "b3"}
        BY BootPlain
    <2>2. q' = q \/ q' = Append(q, b)
        BY <1>3 DEF BootScan
    <2> HIDE DEF b
    <2>3. Fine(b) /\ ~Slotted(b)
        BY <2>1, PlainFine
    <2>4. q \in Seq(Act) /\ Held(q, working, Taken)
        BY Types DEF RunsInv, HeldOK
    <2>5. SeqRange(q') \subseteq SeqRange(q) \cup {b} /\ Held(q', working', Taken)
        <3>1. CASE q' = q
            BY <2>0, <2>4, <3>1
        <3>2. CASE q' = Append(q, b)
            BY <2>0, <2>3, <2>4, <3>2, RangeAppend, HeldAppend
        <3> QED
            BY <2>2, <3>1, <3>2
    <2>6. working' \subseteq working \cup {b} /\ \A x \in working' : x.k \in {"setup", "llm", "release"}
        BY <2>0 DEF RunsInv, PlainOK
    <2> QED
        BY <2>0, <2>1, <2>3, <2>5, <2>6, StayOne
<1>4. CASE BootRunFailed
    <2> DEFINE b == [Head(q) EXCEPT !.k = "b2"]
    <2>1. At("b1") /\ Next1(b) /\ rt' = rt
          /\ working' = working /\ cur' = cur /\ alive' = alive /\ go' = go
        BY <1>4 DEF BootRunFailed, ctl
    <2>2. Head(q) \in Act /\ Fine(Head(q)) /\ Head(q).k = "b1"
        BY <2>1, HeadFacts
    <2>3. b.k = "b2" /\ b.own = Head(q).own
        BY <2>2 DEF Act, ActRec
    <2>4. Fine(b) /\ ~Slotted(b)
        BY <2>2, <2>3 DEF Fine, Slotted, SlotKinds, RunKinds, Reruns
    <2> HIDE DEF b
    <2>5. Held(q', working', Taken) /\ SeqRange(q') \subseteq SeqRange(q) \cup {b}
        BY <1>0, <2>1, <2>4, HeadFacts, HeldPlainNext DEF Next1
    <2>6. working' \subseteq working \cup {b} /\ \A x \in working' : x.k \in {"setup", "llm", "release"}
        BY <2>1 DEF RunsInv, PlainOK
    <2> QED
        BY <2>1, <2>3, <2>4, <2>5, <2>6, StayOne
<1>5. CASE BootPending
    <2> DEFINE b == BootNext(phase, Head(q).n)
    <2>1. At("b2") /\ Next1(b) /\ rt' = rt
          /\ working' = working /\ cur' = cur /\ alive' = alive /\ go' = go
        BY <1>5 DEF BootPending, ctl
    <2>2. b.own = Blank.own /\ b.k \in {"b1", "b2", "b3"}
        BY BootPlain
    <2> HIDE DEF b
    <2> QED
        BY <1>0, <2>1, <2>2, PlainNext
<1>6. CASE BootPaused
    <2>1. At("b3") /\ q' = Tail(q) /\ rt' = rt
          /\ working' = working /\ cur' = cur /\ alive' = alive /\ go' = go
        BY <1>6 DEF BootPaused, ctl
    <2>2. Quiet(rt, rt', cur, {})
        BY <2>1, Types, QuietNothing
    <2> QED
        BY <1>0, <2>1, <2>2, PlainDone
<1> QED
    BY <1>1, <1>2, <1>3, <1>4, <1>5, <1>6

\* Nothing that the invariant is about changes.
LEMMA NothingStarts ==
    ASSUME Inv, RunsInv, (\E w \in working : Overspend(w)) \/ UNCHANGED vars
    PROVE  RunsInv'
<1>1. UNCHANGED <<rt, q, working, cur, alive, go>>
    BY DEF Overspend, vars, log, ctl
<1>2. Quiet(rt, rt', cur, {}) /\ Taken \ {} = Taken
    BY <1>1, Types, QuietNothing
<1>3. Held(q', working', Taken \ {})
    BY <1>1, <1>2 DEF RunsInv, HeldOK
<1> QED
    BY <1>1, <1>2, <1>3, QuietLess

-----------------------------------------------------------------------------
\* Stops and approvals.

\* A step at which every loop has yielded, and that starts nothing.
LEMMA QuietParts ==
    ASSUME Inv, RunsInv, Yielded, Quiet(rt, rt', cur, {}), cur' = cur,
           NEW B, SeqRange(q') \subseteq SeqRange(q) \cup B, working' = working,
           \A b \in B : Fine(b), Held(q', working, Taken)
    PROVE  HeldOK' /\ LoopOK' /\ DispOK' /\ PlainOK' /\ Flying' = Flying
<1>1. Taken' = Taken \ {} /\ Flying' = Flying \ {} /\ Taken \ {} = Taken /\ Flying \ {} = Flying
    BY TakenQuiet
<1>2. HeldOK'
    BY <1>1 DEF HeldOK
<1>3. LoopOK' /\ DispOK'
    BY LoopQuiet, DispQuiet DEF RunsInv
<1>4. PlainOK'
    BY FineQuiet DEF PlainOK, RunsInv
<1> QED
    BY <1>1, <1>2, <1>3, <1>4

LEMMA PlainTombstone ==
    ASSUME Inv, RunsInv, Yielded, Tombstone
    PROVE  RunsInv'
<1>1. At("del") /\ q' = Tail(q) /\ UNCHANGED <<rt, cur, working, go>>
    BY DEF Tombstone, ctl
<1>2. "del" \notin SlotKinds
    BY DEF SlotKinds, RunKinds, Reruns
<1>3. /\ Held(q', working, Taken) /\ SeqRange(q') \subseteq SeqRange(q)
      /\ Head(q) \in SeqRange(q) /\ Head(q).k = "del"
    BY <1>1, <1>2, HeadFacts, HeldTail
<1>4. Quiet(rt, rt', cur, {})
    BY <1>1, Types, QuietNothing
<1> DEFINE B == {}
<1>5. (\A b \in B : Fine(b)) /\ SeqRange(q') \subseteq SeqRange(q) \cup B
    BY <1>3
<1> HIDE DEF B
<1>6. HeldOK' /\ LoopOK' /\ DispOK' /\ PlainOK' /\ Flying' = Flying
    BY <1>1, <1>3, <1>4, <1>5, QuietParts
<1>7. StopOK'
    <2>1. ~go /\ (cur = 0 \/ rt[cur].failed)
        BY <1>3 DEF StopOK, RunsInv
    <2>2. ~Approving
        BY <1>3 DEF StopOK, RunsInv
    <2>3. ~Approving'
        BY <1>3, <2>2 DEF Approving
    <2> QED
        BY <1>1, <1>3, <1>6, <2>1, <2>3 DEF StopOK, RunsInv
<1> QED
    BY <1>6, <1>7 DEF RunsInv

LEMMA PlainApprove ==
    ASSUME Inv, RunsInv, Yielded, NEW n \in Nodes, Approve(n), ~Stopping
    PROVE  RunsInv'
<1>1. UNCHANGED <<rt, cur, working, alive>> /\ alive /\ go'
    BY DEF Approve, log
<1>2. PICK b : q' = Append(q, b) /\ b.k = "ap1" /\ b.own = Blank.own
    <2> DEFINE b == [Blank EXCEPT !.k = "ap1", !.n = n,
                       !.v = IF runs[n] = <<>> THEN 1 ELSE runs[n][Len(runs[n])].ver]
    <2>1. b.k = "ap1" /\ b.own = Blank.own
        BY DEF Blank
    <2>2. q' = Append(q, b)
        BY DEF Approve
    <2> HIDE DEF b
    <2> QED
        BY <2>1, <2>2
<1>3. Fine(b) /\ ~Slotted(b)
    BY <1>2, PlainFine
<1>4. q \in Seq(Act) /\ Held(q, working, Taken)
    BY Types DEF RunsInv, HeldOK
<1>5. Held(q', working, Taken) /\ SeqRange(q') = SeqRange(q) \cup {b}
    BY <1>2, <1>3, <1>4, HeldAppend, RangeAppend
<1>6. Quiet(rt, rt', cur, {})
    BY <1>1, Types, QuietNothing
<1> DEFINE B == {b}
<1>7. (\A x \in B : Fine(x)) /\ SeqRange(q') \subseteq SeqRange(q) \cup B
    BY <1>3, <1>5
<1> HIDE DEF B
<1>8. HeldOK' /\ LoopOK' /\ DispOK' /\ PlainOK' /\ Flying' = Flying
    BY <1>1, <1>5, <1>6, <1>7, QuietParts
<1>9. StopOK'
    <2>1. \A a \in SeqRange(q') : a.k \notin {"cfin", "del"}
        BY <1>2, <1>5 DEF Stopping
    <2>2. \A g \in 1..Len(rt) : rt[g].pc \notin {"idle", "top"} => g = cur
        BY DEF Stopping
    <2> QED
        BY <1>1, <2>1, <2>2 DEF StopOK
<1> QED
    BY <1>8, <1>9 DEF RunsInv

LEMMA PlainPause ==
    ASSUME Inv, RunsInv, Yielded, Pause, ~Approving
    PROVE  RunsInv'
<1> DEFINE R == WithPaused(rt, cur, TRUE)
<1>1. UNCHANGED <<q, cur, working, alive>> /\ cur \in 1..Len(rt) /\ rt' = Request(R, cur) /\ ~go'
    BY Types DEF Pause, log, WithPaused
<1>2. Quiet(rt, R, cur, {}) /\ R \in Seq(Awake) /\ Len(R) = Len(rt) /\ R[cur].paused
    BY <1>1, Types, QuietStop
<1> HIDE DEF R
<1>3. Quiet(R, rt', cur, {}) /\ rt'[cur].paused
    <2>1. Quiet(R, rt', cur, {})
        BY <1>1, <1>2, Types, QuietRequest
    <2> QED
        BY <1>1, <1>2, <2>1 DEF Quiet
<1>4. Quiet(rt, rt', cur, {})
    <2>1. Quiet(rt, rt', cur, {} \cup {}) /\ {} \cup {} = {}
        BY <1>2, <1>3, Types, QuietTrans
    <2> QED
        BY <2>1
<1>5. \A b \in {} : Fine(b)
    OBVIOUS
<1>6. Held(q', working, Taken) /\ SeqRange(q') \subseteq SeqRange(q) \cup {}
    BY <1>1 DEF RunsInv, HeldOK
<1>7. HeldOK' /\ LoopOK' /\ DispOK' /\ PlainOK' /\ Flying' = Flying
    BY <1>1, <1>4, <1>5, <1>6, QuietParts
<1>8. StopOK'
    <2>1. rt[cur].failed => rt'[cur].failed
        BY <1>1, <1>4 DEF Quiet
    <2>2. ~Approving'
        BY <1>1 DEF Approving
    <2> QED
        BY <1>1, <1>3, <1>7, <2>1, <2>2 DEF StopOK, RunsInv
<1> QED
    BY <1>7, <1>8 DEF RunsInv

LEMMA PlainCancel ==
    ASSUME Inv, RunsInv, Yielded, Cancel \/ Delete, ~Approving
    PROVE  RunsInv'
<1> DEFINE f == [Blank EXCEPT !.k = "cfin", !.out = "failed"]
           d == [Blank EXCEPT !.k = "del"]
<1>1. /\ f \in Act /\ d \in Act /\ f.k = "cfin" /\ d.k = "del"
      /\ f.own = Blank.own /\ d.own = Blank.own
    BY CancelAct, DeleteAct DEF Blank
<1>2. UNCHANGED <<cur, working, alive>> /\ ~go'
    BY DEF Cancel, Delete, log
<1>3. \/ cur = 0 /\ rt' = rt /\ q' = Append(q, d)
      \/ /\ cur # 0 /\ rt' = WithFailed(rt, cur, TRUE)
         /\ q' \in {q, q \o CancelRest, q \o <<d>> \o CancelRest}
    BY DEF Cancel, Delete, CancelNow, WithFailed
<1>4. CancelRest \in {<<f>>, <<>>} /\ (CancelRest = <<f>> => InFlightOf(rt[cur]) = {})
    <2>1. CASE InFlightOf(rt[cur]) = {}
        BY <2>1 DEF CancelRest
    <2>2. CASE InFlightOf(rt[cur]) # {}
        <3>1. CancelRest = <<>> /\ <<f>> # <<>>
            BY <2>2 DEF CancelRest
        <3> QED
            BY <3>1
    <2> QED
        BY <2>1, <2>2
<1> HIDE DEF f, d
<1>5. q \in Seq(Act) /\ Held(q, working, Taken)
    BY Types DEF RunsInv, HeldOK
<1>6. Append(q, d) \in Seq(Act) /\ q \o <<d>> = Append(q, d)
    BY <1>1, <1>5, AppendProperties, AppendIsConcat
<1>7. /\ q \o <<f>> = Append(q, f) /\ q \o <<>> = q
      /\ Append(q, d) \o <<f>> = Append(Append(q, d), f)
      /\ Append(q, d) \o <<>> = Append(q, d)
    BY <1>1, <1>5, <1>6, AppendIsConcat, ConcatEmptySeq
<1>8. Fine(f) /\ ~Slotted(f) /\ Fine(d) /\ ~Slotted(d)
    BY <1>1, PlainFine
<1>9. /\ Held(Append(q, d), working, Taken) /\ Held(Append(q, f), working, Taken)
      /\ Held(Append(Append(q, d), f), working, Taken)
    <2>1. Held(Append(q, d), working, Taken) /\ Held(Append(q, f), working, Taken)
        BY <1>5, <1>8, HeldAppend
    <2> QED
        BY <1>6, <1>8, <2>1, HeldAppend
<1>10. /\ SeqRange(Append(q, d)) = SeqRange(q) \cup {d}
       /\ SeqRange(Append(q, f)) = SeqRange(q) \cup {f}
       /\ SeqRange(Append(Append(q, d), f)) = SeqRange(q) \cup {d} \cup {f}
    BY <1>5, <1>6, RangeAppend
<1>11. \/ q' \in {q, Append(q, d)}
       \/ q' \in {Append(q, f), Append(Append(q, d), f)} /\ cur # 0 /\ InFlightOf(rt[cur]) = {}
    BY <1>3, <1>4, <1>6, <1>7
<1>12. /\ Held(q', working, Taken) /\ SeqRange(q') \subseteq SeqRange(q) \cup {d, f}
       /\ f \in SeqRange(q') => f \in SeqRange(q) \/ (cur # 0 /\ InFlightOf(rt[cur]) = {})
    <2>1. f # d
        BY <1>1
    <2>2. CASE q' \in {q, Append(q, d)}
        BY <1>5, <1>9, <1>10, <2>1, <2>2
    <2>3. CASE q' \in {Append(q, f), Append(Append(q, d), f)} /\ cur # 0 /\ InFlightOf(rt[cur]) = {}
        BY <1>9, <1>10, <2>3
    <2> QED
        BY <1>11, <2>2, <2>3
<1>13. Quiet(rt, rt', cur, {}) /\ (cur = 0 \/ rt'[cur].failed)
    <2>1. CASE cur = 0
        BY <1>3, <2>1, Types, QuietNothing
    <2>2. CASE cur # 0
        BY <1>3, <2>2, Types, QuietStop
    <2> QED
        BY <2>1, <2>2
<1>14. \A b \in {d, f} : Fine(b)
    BY <1>8
<1>15. HeldOK' /\ LoopOK' /\ DispOK' /\ PlainOK' /\ Flying' = Flying
    BY <1>2, <1>12, <1>13, <1>14, QuietParts
<1>16. StopOK'
    <2>1. (\E a \in SeqRange(q') : a.k = "cfin") => Flying' = {}
        <3> SUFFICES ASSUME NEW a \in SeqRange(q'), a.k = "cfin" PROVE Flying = {}
            BY <1>15
        <3>1. a \in SeqRange(q) \/ a = f
            BY <1>1, <1>12
        <3>2. (\E b \in SeqRange(q) : b.k = "cfin") \/ InFlightOf(rt[cur]) = {}
            BY <1>1, <1>12, <3>1
        <3> QED
            BY <3>2 DEF StopOK, RunsInv, Flying
    <2>2. ~Approving'
        BY <1>1, <1>12 DEF Approving
    <2> QED
        BY <1>2, <1>13, <2>1, <2>2 DEF StopOK
<1> QED
    BY <1>15, <1>16 DEF RunsInv

-----------------------------------------------------------------------------
\* ensureRuntime, for a resume and an approval.

\* The task gets the runtime it lacks, while no other loop is at work.
LEMMA EnsuredStep ==
    ASSUME Inv, RunsInv, Yielded, Alike(Ensured, rt'), cur' = EnsuredId,
           cur = 0 => \A g \in 1..Len(rt) : rt[g].pc = "idle",
           working' = working, NEW b, b.own = Blank.own, b.k = "kick",
           SeqRange(q') \subseteq SeqRange(q) \cup {b}, Held(q', working, Taken)
    PROVE  HeldOK' /\ LoopOK' /\ DispOK' /\ PlainOK'
<1>l. /\ Len(rt) \in Nat /\ rt \in Seq(Awake) /\ Cap \in Nat
      /\ cur \in 0..Len(rt)
    BY Types, EngineAssumption
<1>b. Fine(b)'
    BY PlainFine
<1>w. \A w \in working : w.k \in {"setup", "llm", "release"}
    BY DEF RunsInv, PlainOK
<1>1. CASE cur # 0
    <2>1. /\ Len(rt') = Len(rt) /\ cur' = cur
          /\ \A g \in 1..Len(rt) : /\ rt'[g].sr = rt[g].sr /\ rt'[g].pc = rt[g].pc
                                   /\ InFlightOf(rt'[g]) = InFlightOf(rt[g])
        BY <1>1, EnsuredIs DEF Alike
    <2>2. Taken' = Taken
        <3>1. Flying' = Flying
            BY <1>1, <2>1, Types DEF Flying
        <3>2. Settling' = Settling
            BY <2>1 DEF Settling
        <3> QED
            BY <3>1, <3>2 DEF Taken
    <2>3. LoopOK'
        BY <1>1, <2>1 DEF LoopOK, RunsInv
    <2>4. DispOK'
        BY <2>1 DEF DispOK, Yielded, SyncPc
    <2>5. PlainOK'
        <3>1. \A a \in SeqRange(q) \cup working : Fine(a)'
            BY <2>1 DEF PlainOK, RunsInv, Fine
        <3> QED
            BY <1>b, <1>w, <3>1 DEF PlainOK
    <2> QED
        BY <2>2, <2>3, <2>4, <2>5 DEF HeldOK
<1>2. CASE cur = 0
    <2> DEFINE L == Len(rt) + 1
    <2>1. /\ Len(rt') = L /\ cur' = L /\ L \in 1..L
          /\ \A g \in 1..L : g \in 1..Len(rt) \/ g = L
        BY <1>l, <1>2, EnsuredIs DEF Alike
    <2>2. /\ \A g \in 1..Len(rt) : rt'[g].pc = "idle" /\ InFlightOf(rt'[g]) = InFlightOf(rt[g])
          /\ rt'[L].pc = "idle" /\ InFlightOf(rt'[L]) = {}
        <3>1. 1..Len(rt) \subseteq 1..Len(Ensured) /\ L \in 1..Len(Ensured)
            BY <1>l, <1>2, EnsuredIs
        <3> QED
            BY <1>2, <3>1, EnsuredIs DEF Alike
    <2> HIDE DEF L
    <2>3. Taken = {} /\ Taken' = {}
        <3>1. ~Settling /\ Flying = {}
            BY <1>2 DEF Settling, Flying
        <3>2. ~Settling' /\ Flying' = {}
            BY <2>1, <2>2 DEF Settling, Flying
        <3> QED
            BY <3>1, <3>2 DEF Taken
    <2>4. HeldOK'
        BY <2>3 DEF HeldOK
    <2>5. LoopOK'
        <3>1. \A g \in 1..Len(rt') : rt'[g].pc = "idle"
            BY <2>1, <2>2
        <3>2. Cardinality(InFlightOf(rt'[L])) <= Cap
            BY <1>l, <2>2, FS_EmptySet
        <3>3. \A g \in 1..Len(rt') : Cardinality(InFlightOf(rt'[g])) <= Cap
            BY <2>1, <2>2, <3>2 DEF LoopOK, RunsInv
        <3> QED
            BY <3>1, <3>3 DEF LoopOK
    <2>6. DispOK'
        BY <2>1, <2>2 DEF DispOK
    <2>7. PlainOK'
        <3>1. \A a \in SeqRange(q) \cup working : ~Slotted(a) /\ a \notin working
            BY <2>3 DEF RunsInv, HeldOK, Held, SeqRange
        <3>2. \A a \in SeqRange(q) \cup working : Fine(a)'
            BY <3>1 DEF PlainOK, RunsInv, Fine, Slotted, SlotKinds
        <3> QED
            BY <1>b, <1>w, <3>2 DEF PlainOK
    <2> QED
        BY <2>4, <2>5, <2>6, <2>7
<1> QED
    BY <1>1, <1>2

\* A resume clears the two flags of the registry's runtime.
LEMMA ResumeAlike ==
    ASSUME Inv, Resume
    PROVE  Alike(Ensured, rt')
<1> DEFINE E == Ensured
           e == EnsuredId
           F == WithPaused(E, e, FALSE)
<1>1. rt' = WithFailed(F, e, FALSE)
    BY DEF Resume, WithPaused, WithFailed
<1>2. E \in Seq(Awake) /\ e \in 1..Len(E)
    BY EnsuredFacts DEF Inv, RtOK
<1>3. F \in Seq(Awake) /\ Len(F) = Len(E) /\ Alike(E, F)
    BY <1>2, PausedField, FlagsAlike
<1> HIDE DEF F, E, e
<1>4. Alike(F, rt')
    BY <1>1, <1>2, <1>3, FlagsAlike
<1>5. Alike(E, rt')
    BY <1>3, <1>4, AlikeTrans
<1> QED
    BY <1>5 DEF E

LEMMA PlainResume ==
    ASSUME Inv, RunsInv, Yielded, Resume, ~Stopping
    PROVE  RunsInv'
<1> DEFINE E == Ensured
           e == EnsuredId
<1>1. cur' = e /\ alive /\ alive' = alive /\ go' /\ working' = working /\ q' = Append(q, Blank)
    BY DEF Resume, log
<1>3. Alike(E, rt')
    BY ResumeAlike
<1>4. cur = 0 => \A g \in 1..Len(rt) : rt[g].pc = "idle"
    <2>1. Len(rt) \in Nat
        BY Types
    <2>2. \A g \in 1..Len(rt) : g # 0
        BY <2>1
    <2> QED
        BY <2>2 DEF Stopping
<1>5. q \in Seq(Act) /\ Held(q, working, Taken) /\ ~Slotted(Blank) /\ Blank.k = "kick"
    BY Types, BlankPlain, PlainFine DEF RunsInv, HeldOK
<1>6. Held(q', working, Taken) /\ SeqRange(q') = SeqRange(q) \cup {Blank}
    BY <1>1, <1>5, HeldAppend, RangeAppend
<1>7. HeldOK' /\ LoopOK' /\ DispOK' /\ PlainOK'
    BY <1>1, <1>3, <1>4, <1>5, <1>6, EnsuredStep
<1>8. StopOK'
    <2>1. \A a \in SeqRange(q') : a.k \notin {"cfin", "del"}
        BY <1>5, <1>6 DEF Stopping
    <2>2. \A g \in 1..Len(rt') : rt'[g].pc # "idle" => g = cur'
        <3>1. CASE cur # 0
            <4>1. E = rt /\ e = cur
                BY <3>1, EnsuredIs
            <4>2. \A g \in 1..Len(rt) : rt[g].pc # "idle" => g = cur
                BY DEF Stopping
            <4>3. cur' = cur /\ Alike(rt, rt')
                BY <1>1, <1>3, <4>1
            <4> QED
                BY <4>2, <4>3 DEF Alike
        <3>2. CASE cur = 0
            <4>1. /\ e = Len(rt) + 1 /\ Len(E) = Len(rt) + 1 /\ Len(rt) \in Nat
                  /\ \A g \in 1..Len(rt) : E[g].pc = "idle"
                BY <1>4, <3>2, EnsuredIs, Types
            <4>2. cur' = Len(rt) + 1 /\ Len(rt') = Len(rt) + 1
                  /\ \A g \in 1..(Len(rt) + 1) : rt'[g].pc = E[g].pc
                BY <1>1, <1>3, <4>1 DEF Alike
            <4> HIDE DEF E, e
            <4> QED
                BY <4>1, <4>2
        <3> QED
            BY <3>1, <3>2
    <2> QED
        BY <1>1, <2>1, <2>2 DEF StopOK
<1> QED
    BY <1>7, <1>8 DEF RunsInv

LEMMA PlainApproveDone ==
    ASSUME Inv, RunsInv, Yielded, ApproveDone
    PROVE  RunsInv'
<1>1. /\ At("ap2") /\ Next1(Blank) /\ rt' = Ensured /\ cur' = EnsuredId
      /\ working' = working /\ alive' = alive /\ go' = go
    BY DEF ApproveDone, ctl
<1>2. "ap2" \notin SlotKinds
    BY DEF SlotKinds, RunKinds, Reruns
<1>3. Head(q) \in SeqRange(q) /\ Head(q).k = "ap2" /\ ~Slotted(Head(q))
    BY <1>1, <1>2, HeadFacts
<1>4. /\ Approving /\ alive /\ go
      /\ \A a \in SeqRange(q) : a.k \notin {"cfin", "del"}
      /\ \A g \in 1..Len(rt) : rt[g].pc \notin {"idle", "top"} => g = cur
    <2>1. Approving
        BY <1>3 DEF Approving
    <2> QED
        BY <2>1 DEF StopOK, RunsInv
<1>5. \A g \in 1..Len(rt) : rt[g].pc # "idle" => g = cur
    BY <1>4 DEF Yielded, SyncPc
<1>6. Len(rt) \in Nat /\ \A g \in 1..Len(rt) : g # 0
    BY Types
<1>7. Alike(Ensured, rt')
    BY <1>1 DEF Alike
<1>8. Blank.k = "kick" /\ ~Slotted(Blank)
    BY BlankPlain, PlainFine
<1>9. Held(q', working, Taken) /\ SeqRange(q') \subseteq SeqRange(q) \cup {Blank}
    BY <1>1, <1>3, <1>8, HeadFacts, HeldPlainNext DEF Next1
<1>10. HeldOK' /\ LoopOK' /\ DispOK' /\ PlainOK'
    BY <1>1, <1>5, <1>6, <1>7, <1>8, <1>9, EnsuredStep
<1>11. StopOK'
    <2>1. \A a \in SeqRange(q') : a.k \notin {"cfin", "del"}
        BY <1>4, <1>8, <1>9
    <2>2. \A g \in 1..Len(rt') : rt'[g].pc # "idle" => g = cur'
        <3>1. CASE cur # 0
            BY <1>1, <1>5, <3>1, EnsuredIs
        <3>2. CASE cur = 0
            BY <1>1, <1>5, <1>6, <3>2, EnsuredIs
        <3> QED
            BY <3>1, <3>2
    <2> QED
        BY <1>1, <1>4, <2>1, <2>2 DEF StopOK
<1> QED
    BY <1>10, <1>11 DEF RunsInv

-----------------------------------------------------------------------------
\* The first state, a crash, and the ends of the loop and of a cancel.

LEMMA RunsInit == Init => RunsInv
<1> SUFFICES ASSUME Init PROVE RunsInv
    OBVIOUS
<1>1. /\ q = <<Blank>> /\ Len(q) = 1 /\ q[1] = Blank /\ working = {}
      /\ rt = <<NewRuntime>> /\ Len(rt) = 1 /\ rt[1] = NewRuntime /\ cur = 1
      /\ alive = TRUE /\ go = TRUE
    BY DEF Init
<1>2. NewRuntime.pc = "idle" /\ InFlightOf(NewRuntime) = {}
    BY DEF NewRuntime, InFlightOf
<1>3. Blank.k = "kick" /\ Fine(Blank) /\ ~Slotted(Blank)
    BY BlankPlain, PlainFine
<1>4. \A g \in 1..Len(rt) : g = 1 /\ rt[g].pc = "idle" /\ InFlightOf(rt[g]) = {}
    BY <1>1, <1>2
<1>5. SeqRange(q) = {Blank}
    BY <1>1 DEF SeqRange
<1>6. \A i \in 1..Len(q) : ~Slotted(q[i])
    BY <1>1, <1>3
<1>7. Taken = {} /\ Flying = {}
    BY <1>1, <1>2, <1>4 DEF Taken, Flying, Settling
<1>8. HeldOK
    BY <1>1, <1>6, <1>7 DEF HeldOK, Held
<1>9. LoopOK
    <2>1. Cardinality({}) <= Cap
        BY FS_EmptySet, EngineAssumption
    <2> QED
        BY <1>1, <1>4, <2>1 DEF LoopOK
<1>10. DispOK
    BY <1>4 DEF DispOK
<1>11. StopOK
    BY <1>1, <1>3, <1>5 DEF StopOK, Approving
<1>12. PlainOK
    BY <1>1, <1>3, <1>5 DEF PlainOK
<1> QED
    BY <1>8, <1>9, <1>10, <1>11, <1>12 DEF RunsInv

LEMMA RunsCrash == Crash => RunsInv'
<1> SUFFICES ASSUME Crash PROVE RunsInv'
    OBVIOUS
<1>1. /\ q' = <<>> /\ Len(q') = 0 /\ working' = {} /\ rt' = <<>> /\ Len(rt') = 0 /\ cur' = 0
      /\ ~go'
    BY DEF Crash
<1>2. (\A i \in 1..Len(q') : FALSE) /\ (\A g \in 1..Len(rt') : FALSE) /\ SeqRange(q') = {}
    BY <1>1 DEF SeqRange
<1>3. Taken' = {} /\ Flying' = {}
    BY <1>1, <1>2 DEF Taken, Flying, Settling
<1>4. HeldOK'
    BY <1>1, <1>2, <1>3 DEF HeldOK, Held
<1>5. LoopOK' /\ DispOK'
    BY <1>2 DEF LoopOK, DispOK
<1>6. StopOK'
    BY <1>1, <1>2, <1>3 DEF StopOK, Approving
<1>7. PlainOK'
    BY <1>1, <1>2 DEF PlainOK
<1> QED
    BY <1>4, <1>5, <1>6, <1>7 DEF RunsInv

\* Without a slot of a node there is no run.
LEMMA NoRuns ==
    ASSUME Inv, RunsInv, Flying = {}
    PROVE  working = {} /\ \A a \in SeqRange(q) : a.k \notin RunKinds \cup Reruns
<1>1. Taken \subseteq {0} /\ 0 \notin Nodes
    BY WorkflowAssumption DEF Taken
<1>2. ASSUME NEW w \in working
      PROVE  FALSE
    <2>1. w.n \in Nodes /\ w.n \in Taken
        BY WorkFacts DEF Held
    <2> QED
        BY <1>1, <2>1
<1>3. ASSUME NEW i \in 1..Len(q), q[i].k \in RunKinds \cup Reruns
      PROVE  FALSE
    <2>1. Slot(q[i]) \in Taken
        BY <1>3 DEF RunsInv, HeldOK, Held, Slotted, SlotKinds
    <2>2. q[i] \in Act /\ Fine(q[i])
        BY Types, ElementOfSeq DEF RunsInv, PlainOK, SeqRange
    <2>3. Slot(q[i]) \in Nodes
        <3>1. CASE q[i].k \in RunKinds
            BY <2>2, <3>1, OfNode DEF RunKinds, TaskKinds, Slot, Reruns
        <3>2. CASE q[i].k \in Reruns
            BY <2>2, <3>2, EngineAssumption DEF Fine, Slot
        <3> QED
            BY <1>3, <3>1, <3>2
    <2> QED
        BY <1>1, <2>1, <2>3
<1> QED
    BY <1>2, <1>3 DEF SeqRange

LEMMA CancelFinalizes ==
    ASSUME Inv, RunsInv, Yielded, CancelFinalize
    PROVE  RunsInv'
<1>1. /\ At("cfin") /\ q' = Tail(q) /\ rt' = rt /\ working' = working
      /\ alive' = alive /\ go' = go /\ (cur' = cur \/ cur' = 0)
    BY DEF CancelFinalize, Dropped, ctl
<1>2. "cfin" \notin SlotKinds
    BY DEF SlotKinds, RunKinds, Reruns
<1>3. CASE cur' = cur
    <2>1. Quiet(rt, rt', cur, {})
        BY <1>1, Types, QuietNothing
    <2> QED
        BY <1>1, <1>2, <1>3, <2>1, PlainDone
<1>4. CASE cur' = 0
    <2>1. /\ Head(q) \in SeqRange(q) /\ Head(q).k = "cfin"
          /\ Held(q', working, Taken) /\ SeqRange(q') \subseteq SeqRange(q)
        BY <1>1, <1>2, HeadFacts, HeldTail
    <2>2. Flying = {} /\ ~Approving /\ (cur = 0 \/ rt[cur].failed) /\ ~go
        BY <2>1 DEF StopOK, RunsInv
    <2>3. Taken' = Taken /\ Flying' = {}
        BY <1>1, <1>4, <2>2 DEF Taken, Flying, Settling
    <2>4. HeldOK'
        BY <1>1, <2>1, <2>3 DEF HeldOK
    <2>5. LoopOK'
        BY <1>1, <1>4, <2>2 DEF LoopOK, RunsInv
    <2>6. DispOK'
        BY <1>1 DEF DispOK, Yielded, SyncPc
    <2>7. StopOK'
        BY <1>1, <1>4, <2>1, <2>2, <2>3 DEF StopOK, Approving
    <2>8. PlainOK'
        <3>1. \A a \in SeqRange(q') : Fine(a)'
            BY <1>1, <2>1, <2>2, NoRuns DEF PlainOK, RunsInv, Fine
        <3> QED
            BY <1>1, <2>2, <3>1, NoRuns DEF PlainOK
    <2> QED
        BY <2>4, <2>5, <2>6, <2>7, <2>8 DEF RunsInv
<1> QED
    BY <1>1, <1>3, <1>4

\* The loop after one scheduleOnce.
LEMMA AfterOnceIs ==
    ASSUME NEW R \in Seq(Awake), NEW g \in 1..Len(R)
    PROVE  LET S == AfterOnce(R, g) IN
           /\ Len(S) = Len(R)
           /\ S[g].pc = IF R[g].rescan THEN "top" ELSE "idle"
           /\ S[g].failed = R[g].failed /\ S[g].paused = R[g].paused
           /\ InFlightOf(S[g]) = InFlightOf(R[g])
           /\ \A h \in 1..Len(R) : h # g => S[h] = R[h]
<1> DEFINE r == R[g]
           e == [r EXCEPT !.pc = IF r.rescan THEN "top" ELSE "idle", !.sr = 0, !.todo = {}, !.room = 0]
<1>1. r \in Runtime
    BY RuntimeOf
<1>2. AfterOnce(R, g) = [R EXCEPT ![g] = e]
    BY DEF AfterOnce
<1>3. /\ e.pc = IF r.rescan THEN "top" ELSE "idle"
      /\ e.failed = r.failed /\ e.paused = r.paused /\ e.inFlight = r.inFlight
    BY <1>1 DEF Runtime
<1> HIDE DEF e
<1>4. LET S == AfterOnce(R, g) IN
      Len(S) = Len(R) /\ S[g] = e /\ \A h \in 1..Len(R) : h # g => S[h] = R[h]
    BY <1>2, Replaced
<1>5. InFlightOf(e) = InFlightOf(r)
    BY <1>3 DEF InFlightOf
<1> QED
    BY <1>3, <1>4, <1>5

\* The suspend or finalize of the loop itself.
LEMMA LoopFinalizes ==
    ASSUME Inv, RunsInv, Yielded, Suspend \/ Finalize
    PROVE  RunsInv'
<1> DEFINE g == Head(q).g
<1>1. /\ At("susp") \/ At("fin")
      /\ q' = Tail(q) /\ rt' = AfterOnce(rt, g) /\ working' = working
      /\ alive' = alive /\ go' = go /\ (cur' = cur \/ cur' = 0)
    BY DEF Suspend, Finalize, Dropped, ctl
<1>2. /\ Head(q).n = 0 /\ g \in 1..Len(rt) /\ rt[g].pc \in {"suspend", "finalize"}
      /\ Slotted(Head(q)) /\ Slot(Head(q)) = Head(q).n
    BY <1>1, HeadFacts DEF Fine
<1>3. /\ Held(q', working, Taken \ {0}) /\ SeqRange(q') \subseteq SeqRange(q)
    <2>1. CASE At("susp")
        BY <1>1, <1>2, <2>1, HeadFacts, HeldLeave
    <2>2. CASE At("fin")
        BY <1>1, <1>2, <2>2, HeadFacts, HeldLeave
    <2> QED
        BY <1>1, <2>1, <2>2
<1> HIDE DEF g
<1>4. /\ Len(rt') = Len(rt) /\ rt'[g].pc \in {"top", "idle"}
      /\ \A h \in 1..Len(rt) : /\ rt'[h].failed = rt[h].failed /\ rt'[h].paused = rt[h].paused
                               /\ InFlightOf(rt'[h]) = InFlightOf(rt[h])
      /\ \A h \in 1..Len(rt) : h # g => rt'[h] = rt[h]
    BY <1>1, <1>2, Types, AfterOnceIs
<1>5. (g = cur \/ cur = 0) /\ InFlightOf(rt[g]) = {} /\ \A h \in 1..Len(rt) : h # g => rt[h].pc = "idle"
    BY <1>2 DEF LoopOK, RunsInv
<1>6. Flying = {} /\ Flying' = {}
    <2>1. Flying = {}
        BY <1>5 DEF Flying
    <2>2. CASE cur' = 0
        BY <2>1, <2>2 DEF Flying
    <2>3. CASE cur' # 0
        <3>1. cur' = g
            BY <1>1, <1>5, <2>3
        <3>2. InFlightOf(rt'[g]) = {}
            BY <1>2, <1>4, <1>5
        <3> QED
            BY <2>1, <3>1, <3>2 DEF Flying
    <2> QED
        BY <2>1, <2>2, <2>3
<1>7. \A h \in 1..Len(rt') : rt'[h].pc # "idle" => h = g /\ rt'[h].pc = "top"
    BY <1>4, <1>5
<1>8. Taken \ {0} = {} /\ Taken' = {}
    BY <1>6, <1>7 DEF Taken, Settling
<1>9. HeldOK'
    BY <1>1, <1>3, <1>8 DEF HeldOK
<1>10. LoopOK'
    <2>1. \A h \in 1..Len(rt') : Cardinality(InFlightOf(rt'[h])) <= Cap
        BY <1>4 DEF LoopOK, RunsInv
    <2>2. \A h \in 1..Len(rt') : rt'[h].pc # "idle" => h = cur' \/ cur' = 0
        BY <1>1, <1>5, <1>7
    <2> QED
        BY <1>7, <2>1, <2>2 DEF LoopOK
<1>11. DispOK'
    BY <1>7 DEF DispOK
<1>12. StopOK'
    <2>1. Approving' => Approving
        BY <1>3 DEF Approving
    <2>2. \A a \in SeqRange(q') : a \in SeqRange(q)
        BY <1>3
    <2>3. CASE cur' = cur
        <3>1. cur # 0 => rt'[cur].failed = rt[cur].failed /\ rt'[cur].paused = rt[cur].paused
            BY <1>4, Types
        <3> QED
            BY <1>1, <1>6, <1>7, <2>1, <2>2, <2>3, <3>1 DEF StopOK, RunsInv
    <2>4. CASE cur' = 0
        BY <1>1, <1>6, <1>7, <2>1, <2>2, <2>4 DEF StopOK, RunsInv
    <2> QED
        BY <1>1, <2>3, <2>4
<1>13. PlainOK'
    <2>0. \A i \in 1..Len(q') : ~Slotted(q'[i])
        BY <1>3, <1>8 DEF Held
    <2>1. \A a \in SeqRange(q') : ~Slotted(a)
        BY <2>0 DEF SeqRange
    <2>2. \A a \in SeqRange(q') : Fine(a)'
        BY <1>3, <2>1 DEF PlainOK, RunsInv, Fine, Slotted, SlotKinds
    <2>3. working' = {}
        BY <1>1, <1>6, NoRuns
    <2> QED
        BY <2>2, <2>3 DEF PlainOK
<1> QED
    BY <1>9, <1>10, <1>11, <1>12, <1>13 DEF RunsInv

-----------------------------------------------------------------------------
\* The steps of a schedule loop that start no run.

\* One loop moves on, to where it neither suspends nor finalizes.
LEMMA LoopStep ==
    ASSUME Inv, RunsInv, NEW g \in 1..Len(rt), rt[g].pc \notin {"idle", "suspend", "finalize"},
           Len(rt') = Len(rt), \A h \in 1..Len(rt) : h # g => rt'[h] = rt[h],
           InFlightOf(rt'[g]) = InFlightOf(rt[g]),
           rt[g].failed => rt'[g].failed, rt[g].paused => rt'[g].paused,
           rt'[g].pc \notin {"suspend", "finalize"},
           rt'[g].pc \notin {"idle", "top"} =>
               rt'[g].sr = g /\ (cur = 0 => rt'[g].failed) /\ (rt[g].pc = "top" => g = cur),
           rt'[g].pc = "integrate" => InFlightOf(rt[g]) = {},
           rt'[g].pc = "dispatch" /\ rt'[g].todo # {} => MayStart(g)',
           q' = q, working' = working, cur' = cur, alive' = alive, go' = go
    PROVE  RunsInv'
<1>1. /\ \A h \in 1..Len(rt) : h # g => rt[h].pc = "idle"
      /\ g = cur \/ cur = 0
    BY DEF LoopOK, RunsInv
<1>2. Flying' = Flying
    <2>1. \A h \in 1..Len(rt) : InFlightOf(rt'[h]) = InFlightOf(rt[h])
        OBVIOUS
    <2> QED
        BY <2>1, Types DEF Flying
<1>3. ~Settling /\ ~Settling'
    BY <1>1 DEF Settling
<1>4. HeldOK'
    BY <1>2, <1>3 DEF HeldOK, Taken, RunsInv
<1>5. LoopOK'
    <2>1. \A h \in 1..Len(rt') : rt'[h].pc # "idle" => h = g
        BY <1>1
    <2>2. \A h \in 1..Len(rt') : Cardinality(InFlightOf(rt'[h])) <= Cap
        BY DEF LoopOK, RunsInv
    <2> QED
        BY <1>1, <2>1, <2>2 DEF LoopOK
<1>6. DispOK'
    BY <1>1 DEF DispOK
<1>7. StopOK'
    <2>1. cur # 0 => /\ rt[cur].failed => rt'[cur].failed
                     /\ rt[cur].paused => rt'[cur].paused
        BY Types
    <2>2. Approving =>
            /\ alive /\ go
            /\ \A a \in SeqRange(q) : a.k \notin {"cfin", "del"}
            /\ \A h \in 1..Len(rt') : rt'[h].pc \notin {"idle", "top"} => h = cur
        BY <1>1 DEF StopOK, RunsInv
    <2>3. Approving' <=> Approving
        BY DEF Approving
    <2> QED
        BY <1>2, <2>1, <2>2, <2>3 DEF StopOK, RunsInv
<1>8. PlainOK'
    <2>1. \A a \in SeqRange(q) \cup working : Fine(a)'
        BY DEF PlainOK, RunsInv, Fine
    <2> QED
        BY <2>1 DEF PlainOK, RunsInv
<1> QED
    BY <1>4, <1>5, <1>6, <1>7, <1>8 DEF RunsInv

\* S is R, with loop g at p and perhaps paused.
Moved(R, S, g, p) ==
    /\ Len(S) = Len(R)
    /\ \A h \in 1..Len(R) : h # g => S[h] = R[h]
    /\ S[g].pc = p /\ S[g].sr = R[g].sr /\ S[g].failed = R[g].failed
    /\ R[g].paused => S[g].paused
    /\ InFlightOf(S[g]) = InFlightOf(R[g])

LEMMA PcMoved ==
    ASSUME NEW R \in Seq(Awake), NEW g \in 1..Len(R), NEW p
    PROVE  Moved(R, WithPc(R, g, p), g, p)
<1> DEFINE r == R[g]
           e == [r EXCEPT !.pc = p]
<1>1. r \in Runtime
    BY RuntimeOf
<1>2. WithPc(R, g, p) = [R EXCEPT ![g] = e]
    BY DEF WithPc
<1>3. /\ e.pc = p /\ e.sr = r.sr /\ e.failed = r.failed /\ e.paused = r.paused
      /\ e.inFlight = r.inFlight
    BY <1>1 DEF Runtime
<1> HIDE DEF e
<1>4. LET S == WithPc(R, g, p) IN
      Len(S) = Len(R) /\ S[g] = e /\ \A h \in 1..Len(R) : h # g => S[h] = R[h]
    BY <1>2, Replaced
<1>5. InFlightOf(e) = InFlightOf(r)
    BY <1>3 DEF InFlightOf
<1> QED
    BY <1>3, <1>4, <1>5 DEF Moved

LEMMA PausedMoved ==
    ASSUME NEW R \in Seq(Awake), NEW g \in 1..Len(R), NEW x \in BOOLEAN, R[g].paused => x
    PROVE  Moved(R, WithPaused(R, g, x), g, R[g].pc)
<1> DEFINE r == R[g]
           e == [r EXCEPT !.paused = x]
<1>1. r \in Runtime
    BY RuntimeOf
<1>2. WithPaused(R, g, x) = [R EXCEPT ![g] = e]
    BY DEF WithPaused
<1>3. /\ e.pc = r.pc /\ e.sr = r.sr /\ e.failed = r.failed /\ (r.paused => e.paused)
      /\ e.inFlight = r.inFlight
    BY <1>1 DEF Runtime
<1> HIDE DEF e
<1>4. LET S == WithPaused(R, g, x) IN
      Len(S) = Len(R) /\ S[g] = e /\ \A h \in 1..Len(R) : h # g => S[h] = R[h]
    BY <1>2, Replaced
<1>5. InFlightOf(e) = InFlightOf(r)
    BY <1>3 DEF InFlightOf
<1> QED
    BY <1>3, <1>4, <1>5 DEF Moved

LEMMA MovedTrans ==
    ASSUME NEW R, NEW S, NEW T, NEW g, NEW o, NEW p, Moved(R, S, g, o), Moved(S, T, g, p)
    PROVE  Moved(R, T, g, p)
BY DEF Moved

\* The merge, the budget check and its report move the loop on.
LEMMA LoopMoves ==
    ASSUME Inv, RunsInv, NEW g \in 1..Len(rt), Integrate(g) \/ CheckBudget(g) \/ Reported(g)
    PROVE  \E p \in {"check", "report", "ready"} : Moved(rt, rt', g, p)
<1>0. rt[g].sr = g /\ rt \in Seq(Awake)
    <2>1. rt[g].pc \in {"integrate", "check", "report"}
        BY DEF Integrate, CheckBudget, Reported
    <2> QED
        BY <2>1, Types DEF LoopOK, RunsInv
<1>1. CASE Integrate(g)
    <2>1. CASE rt' = WithPc(rt, g, "check")
        BY <1>0, <2>1, PcMoved
    <2>2. CASE \E rest \in SUBSET unmerged :
                 rt' = [rt EXCEPT ![g].paused = @ \/ rest # {}, ![g].pc = "check"]
        <3>1. PICK rest \in SUBSET unmerged :
                rt' = [rt EXCEPT ![g].paused = @ \/ rest # {}, ![g].pc = "check"]
            BY <2>2
        <3> DEFINE x == rt[g].paused \/ rest # {}
                   P == WithPaused(rt, g, x)
        <3>2. rt' = WithPc(P, g, "check")
            BY <3>1 DEF WithPc, WithPaused
        <3>3. x \in BOOLEAN /\ (rt[g].paused => x)
            OBVIOUS
        <3> HIDE DEF x
        <3>4. P \in Seq(Awake) /\ Len(P) = Len(rt) /\ Moved(rt, P, g, rt[g].pc)
            BY <1>0, <3>3, PausedField, PausedMoved
        <3> HIDE DEF P
        <3> QED
            BY <3>2, <3>4, PcMoved, MovedTrans
    <2> QED
        BY <1>0, <1>1, <2>1, <2>2 DEF Integrate, WithPc
<1>2. CASE CheckBudget(g)
    <2>1. \/ rt' = WithPc(rt, g, "ready")
          \/ ~rt[g].paused /\ \E over \in OverBudget :
               \/ rt' = WithPc(WithPaused(rt, g, over), g, "ready")
               \/ rt' = WithPc(WithPaused(rt, g, over), g, "report")
        BY <1>0, <1>2 DEF CheckBudget, WithPc, WithPaused
    <2>2. OverBudget \subseteq BOOLEAN
        BY DEF OverBudget
    <2>3. CASE rt' = WithPc(rt, g, "ready")
        BY <1>0, <2>3, PcMoved
    <2>4. CASE ~rt[g].paused /\ \E over \in OverBudget :
                 \/ rt' = WithPc(WithPaused(rt, g, over), g, "ready")
                 \/ rt' = WithPc(WithPaused(rt, g, over), g, "report")
        <3>1. PICK x \in BOOLEAN : \E p \in {"ready", "report"} : rt' = WithPc(WithPaused(rt, g, x), g, p)
            BY <2>2, <2>4
        <3> DEFINE P == WithPaused(rt, g, x)
        <3>2. P \in Seq(Awake) /\ Len(P) = Len(rt) /\ Moved(rt, P, g, rt[g].pc)
            BY <1>0, <2>4, PausedField, PausedMoved
        <3>3. PICK p \in {"ready", "report"} : rt' = WithPc(P, g, p)
            BY <3>1
        <3> HIDE DEF P
        <3> QED
            BY <3>2, <3>3, PcMoved, MovedTrans
    <2> QED
        BY <2>1, <2>3, <2>4
<1>3. CASE Reported(g)
    <2>1. rt' = WithPc(rt, g, "ready")
        BY <1>3 DEF Reported, WithPc
    <2> QED
        BY <1>0, <2>1, PcMoved
<1> QED
    BY <1>1, <1>2, <1>3

\* The merge, the budget check and its report.
LEMMA LoopGoesOn ==
    ASSUME Inv, RunsInv, NEW g \in 1..Len(rt), Integrate(g) \/ CheckBudget(g) \/ Reported(g)
    PROVE  RunsInv'
<1>1. /\ rt[g].pc \in {"integrate", "check", "report"}
      /\ q' = q /\ working' = working /\ cur' = cur /\ alive' = alive /\ go' = go
    BY DEF Integrate, CheckBudget, Reported, log, ctl
<1>2. rt[g].sr = g /\ (cur = 0 => rt[g].failed) /\ rt \in Seq(Awake) /\ rt[g] \in Runtime
    BY <1>1, Types DEF LoopOK, RunsInv
<1>4. PICK p \in {"check", "report", "ready"} : Moved(rt, rt', g, p)
    BY LoopMoves
<1>5. /\ Len(rt') = Len(rt) /\ \A h \in 1..Len(rt) : h # g => rt'[h] = rt[h]
      /\ InFlightOf(rt'[g]) = InFlightOf(rt[g])
      /\ rt[g].failed => rt'[g].failed
      /\ rt[g].paused => rt'[g].paused
      /\ rt'[g].pc = p /\ rt'[g].sr = g
    BY <1>2, <1>4 DEF Moved
<1> QED
    BY <1>1, <1>2, <1>5, LoopStep

\* The beginning of scheduleOnce.
LEMMA TopIs ==
    ASSUME Inv, RunsInv, NEW g \in 1..Len(rt), Top(g)
    PROVE  /\ Len(rt') = Len(rt) /\ \A h \in 1..Len(rt) : h # g => rt'[h] = rt[h]
           /\ rt'[g].failed = rt[g].failed /\ (rt[g].paused => rt'[g].paused)
           /\ InFlightOf(rt'[g]) = InFlightOf(rt[g])
           /\ \/ rt'[g].pc = "idle"
              \/ /\ g = cur /\ cur # 0 /\ rt'[g].sr = g
                 /\ \/ rt'[g].pc = "integrate" /\ InFlightOf(rt[g]) = {}
                    \/ rt'[g].pc = "check" /\ (rt[g].failed \/ InFlightOf(rt[g]) # {})
<1> DEFINE r == [rt[g] EXCEPT !.rescan = FALSE, !.sr = cur]
           R == Cleared(g)
<1>1. /\ rt[g].pc = "top"
      /\ rt' = IF cur = 0 \/ ~alive THEN AfterOnce(R, g)
               ELSE IF Drained(R[cur]) THEN WithPc(R, g, "integrate") ELSE WithPc(R, g, "check")
    BY DEF Top, WithPc
<1>2. rt \in Seq(Awake) /\ rt[g] \in Runtime /\ rt[g] \in Awake /\ cur \in Nat
    BY Types, RuntimeOf
<1>3. /\ r \in Awake /\ r.rescan = FALSE /\ r.sr = cur /\ r.failed = rt[g].failed
      /\ r.paused = rt[g].paused /\ r.inFlight = rt[g].inFlight /\ r.pc = "top"
    BY <1>1, <1>2 DEF Awake, Runtime
<1>4. R = [rt EXCEPT ![g] = r]
    BY DEF Cleared
<1> HIDE DEF r, R
<1>5. /\ R \in Seq(Awake) /\ Len(R) = Len(rt) /\ R[g] = r
      /\ \A h \in 1..Len(rt) : h # g => R[h] = rt[h]
    BY <1>2, <1>3, <1>4, ReplaceOne, Replaced
<1>6. InFlightOf(r) = InFlightOf(rt[g])
    BY <1>3 DEF InFlightOf
<1>7. g = cur \/ cur = 0
    BY <1>1 DEF LoopOK, RunsInv
<1>8. CASE cur = 0 \/ ~alive
    BY <1>1, <1>3, <1>5, <1>6, <1>8, AfterOnceIs
<1>9. CASE ~(cur = 0 \/ ~alive)
    <2>1. g = cur
        BY <1>7, <1>9
    <2>2. PICK p \in {"integrate", "check"} :
            /\ rt' = WithPc(R, g, p)
            /\ p = "integrate" => Drained(R[g])
            /\ p = "check" => ~Drained(R[g])
        BY <1>1, <1>9, <2>1
    <2>3. Moved(R, rt', g, p)
        BY <1>5, <2>2, PcMoved
    <2>4. /\ p = "integrate" => InFlightOf(rt[g]) = {}
          /\ p = "check" => rt[g].failed \/ InFlightOf(rt[g]) # {}
        BY <1>3, <1>5, <1>6, <2>2 DEF Drained
    <2> QED
        BY <1>3, <1>5, <1>6, <1>9, <2>1, <2>3, <2>4 DEF Moved
<1> QED
    BY <1>8, <1>9

LEMMA LoopBegins ==
    ASSUME Inv, RunsInv, NEW g \in 1..Len(rt), Top(g)
    PROVE  RunsInv'
<1>1. /\ rt[g].pc = "top"
      /\ q' = q /\ working' = working /\ cur' = cur /\ alive' = alive /\ go' = go
    BY DEF Top, log, ctl
<1> QED
    BY <1>1, TopIs, LoopStep

\* What to start, and how much there is room for.
LEMMA LoopReady ==
    ASSUME Inv, RunsInv, NEW g \in 1..Len(rt), Ready(g)
    PROVE  RunsInv'
<1> DEFINE r == rt[g]
           todo == Startable(r)
           room == Capacity(r)
           e == [r EXCEPT !.pc = "dispatch", !.todo = todo, !.room = room]
<1>1. /\ r.pc = "ready"
      /\ q' = q /\ working' = working /\ cur' = cur /\ alive' = alive /\ go' = go
    BY DEF Ready, log, ctl
<1>2. r.sr = g /\ (cur = 0 => r.failed) /\ rt \in Seq(Awake) /\ r \in Runtime /\ (g = cur \/ cur = 0)
    BY <1>1, Types DEF LoopOK, RunsInv
<1>3. rt' = [rt EXCEPT ![g] = e]
    BY <1>2 DEF Ready
<1>4. todo \in SUBSET Nodes /\ room \in Nat
    BY CapacityFacts
<1>5. /\ todo # {} => ~r.failed /\ ~r.paused
      /\ todo \cap InFlightOf(r) = {}
    BY DEF Startable
<1>6. Cardinality(InFlightOf(r)) + room <= Cap
    <2>1. Cardinality(InFlightOf(r)) \in Nat /\ Cap \in Nat
        BY InFlightFinite, EngineAssumption
    <2>2. Cardinality(InFlightOf(r)) <= Cap
        BY DEF LoopOK, RunsInv
    <2> QED
        BY <2>1, <2>2 DEF Capacity
<1> HIDE DEF todo, room
<1>7. /\ e.pc = "dispatch" /\ e.todo = todo /\ e.room = room /\ e.sr = g
      /\ e.failed = r.failed /\ e.paused = r.paused /\ e.inFlight = r.inFlight
    BY <1>2, <1>4 DEF Runtime
<1> HIDE DEF e
<1>8. Len(rt') = Len(rt) /\ rt'[g] = e /\ \A h \in 1..Len(rt) : h # g => rt'[h] = rt[h]
    BY <1>2, <1>3, Replaced
<1>9. InFlightOf(e) = InFlightOf(r)
    BY <1>7 DEF InFlightOf
<1>10. todo # {} => g = cur /\ alive /\ go /\ \A a \in SeqRange(q) : a.k # "cfin"
    <2> SUFFICES ASSUME todo # {} PROVE g = cur /\ alive /\ go /\ \A a \in SeqRange(q) : a.k # "cfin"
        OBVIOUS
    <2>1. g = cur /\ cur # 0 /\ ~rt[cur].failed /\ ~rt[cur].paused
        BY <1>2, <1>5
    <2> QED
        BY <2>1 DEF StopOK, RunsInv
<1>11. rt'[g].todo # {} => MayStart(g)'
    <2> SUFFICES ASSUME todo # {} PROVE MayStart(g)'
        BY <1>7, <1>8
    <2>1. g = cur' /\ alive' /\ go' /\ \A a \in SeqRange(q') : a.k # "cfin"
        BY <1>1, <1>10
    <2>2. InFlightOf(rt'[g]) = InFlightOf(r) /\ rt'[g].todo = todo /\ rt'[g].room = room
        BY <1>7, <1>8, <1>9
    <2> QED
        BY <1>5, <1>6, <2>1, <2>2 DEF MayStart
<1> QED
    BY <1>1, <1>2, <1>7, <1>8, <1>9, <1>11, LoopStep

\* The end of scheduleOnce: round again, or a suspend or finalize takes slot 0.
LEMMA LoopSettles ==
    ASSUME Inv, RunsInv, NEW g \in 1..Len(rt), Settle(g)
    PROVE  RunsInv'
<1> DEFINE x == [Blank EXCEPT !.k = "susp", !.g = g]
           y == [Blank EXCEPT !.k = "fin", !.g = g, !.out = FinalStatus]
<1>1. /\ rt[g].pc = "dispatch"
      /\ working' = working /\ cur' = cur /\ alive' = alive /\ go' = go
    BY DEF Settle, log, ctl
<1>2. rt[g].sr = g /\ (cur = 0 => rt[g].failed) /\ rt \in Seq(Awake) /\ (g = cur \/ cur = 0)
    BY <1>1, Types DEF LoopOK, RunsInv
<1>3. \/ rt' = AfterOnce(rt, g) /\ q' = q
      \/ InFlightOf(rt[g]) = {} /\ rt' = WithPc(rt, g, "suspend") /\ q' = Append(q, x)
      \/ InFlightOf(rt[g]) = {} /\ rt' = WithPc(rt, g, "finalize") /\ q' = Append(q, y)
    BY <1>2 DEF Settle, WithPc
<1>4. /\ x.k = "susp" /\ x.n = 0 /\ x.g = g /\ x.own.n = 0
      /\ y.k = "fin" /\ y.n = 0 /\ y.g = g /\ y.own.n = 0
    BY DEF Blank
<1> HIDE DEF x, y
<1>5. CASE rt' = AfterOnce(rt, g) /\ q' = q
    <2>1. /\ Len(rt') = Len(rt) /\ \A h \in 1..Len(rt) : h # g => rt'[h] = rt[h]
          /\ rt'[g].pc \in {"idle", "top"}
          /\ rt'[g].failed = rt[g].failed /\ rt'[g].paused = rt[g].paused
          /\ InFlightOf(rt'[g]) = InFlightOf(rt[g])
        BY <1>2, <1>5, AfterOnceIs
    <2> QED
        BY <1>1, <1>5, <2>1, LoopStep
<1>6. ASSUME NEW p \in {"suspend", "finalize"}, NEW b, b.n = 0, b.own.n = 0, b.g = g,
             b.k = IF p = "suspend" THEN "susp" ELSE "fin",
             InFlightOf(rt[g]) = {}, rt' = WithPc(rt, g, p), q' = Append(q, b)
      PROVE  RunsInv'
    <2>1. Moved(rt, rt', g, p)
        BY <1>2, <1>6, PcMoved
    <2>2. /\ Len(rt') = Len(rt) /\ rt'[g].pc = p /\ rt'[g].sr = g /\ rt'[g].failed = rt[g].failed
          /\ \A h \in 1..Len(rt) : h # g => rt'[h] = rt[h]
          /\ rt[g].paused => rt'[g].paused
          /\ InFlightOf(rt'[g]) = {}
        BY <1>2, <1>6, <2>1 DEF Moved
    <2>3. /\ \A h \in 1..Len(rt) : h # g => rt[h].pc = "idle"
          /\ \A h \in 1..Len(rt) : InFlightOf(rt'[h]) = InFlightOf(rt[h])
        BY <1>1, <1>6, <2>2 DEF LoopOK, RunsInv
    <2>4. Flying' = Flying
        BY <1>1, <2>3, Types DEF Flying
    <2>5. ~Settling /\ Settling'
        BY <1>1, <2>2, <2>3 DEF Settling
    <2>6. Taken = Flying /\ Taken' = Taken \cup {0} /\ 0 \notin Taken
        BY <2>4, <2>5, WorkflowAssumption DEF Taken, Flying, InFlightOf
    <2>7. Slotted(b) /\ Slot(b) = b.n /\ q \in Seq(Act) /\ Held(q, working, Taken)
        BY <1>6, Types DEF Slotted, SlotKinds, Slot, Reruns, RunsInv, HeldOK
    <2>8. Held(q', working, Taken \cup {b.n}) /\ SeqRange(q') = SeqRange(q) \cup {b}
        BY <1>6, <2>6, <2>7, HeldEnter, RangeAppend
    <2>9. HeldOK'
        BY <1>1, <1>6, <2>6, <2>8 DEF HeldOK
    <2>10. LoopOK'
        <3>1. \A h \in 1..Len(rt') : rt'[h].pc # "idle" => h = g
            BY <2>2, <2>3
        <3>2. \A h \in 1..Len(rt') : Cardinality(InFlightOf(rt'[h])) <= Cap
            BY <2>2, <2>3 DEF LoopOK, RunsInv
        <3> QED
            BY <1>1, <1>2, <2>2, <3>1, <3>2 DEF LoopOK
    <2>11. DispOK'
        BY <2>2, <2>3 DEF DispOK
    <2>12. StopOK'
        <3>1. cur # 0 => /\ rt[cur].failed => rt'[cur].failed
                         /\ rt[cur].paused => rt'[cur].paused
            BY <2>2, Types
        <3>2. b.k \notin {"cfin", "del", "ap1", "ap2"}
            BY <1>6
        <3>3. Approving' <=> Approving
            BY <2>8, <3>2 DEF Approving
        <3>4. Approving => g = cur
            BY <1>1 DEF StopOK, RunsInv
        <3>5. \A h \in 1..Len(rt') : rt'[h].pc \notin {"idle", "top"} => h = g
            BY <2>2, <2>3
        <3>6. \A a \in SeqRange(q') : a.k \in {"cfin", "del"} => a \in SeqRange(q)
            BY <2>8, <3>2
        <3> QED
            BY <1>1, <2>4, <3>1, <3>3, <3>4, <3>5, <3>6 DEF StopOK, RunsInv
    <2>13. PlainOK'
        <3>1. Fine(b)'
            BY <1>6, <2>2 DEF Fine, RunKinds, Reruns
        <3>2. \A a \in SeqRange(q) \cup working : Fine(a)'
            <4>1. \A a \in SeqRange(q) \cup working : Fine(a) /\ a.k \notin {"susp", "fin"}
                <5>1. \A a \in SeqRange(q) \cup working : Fine(a)
                    BY DEF PlainOK, RunsInv
                <5> QED
                    BY <2>5, <5>1 DEF Fine, Settling
            <4> QED
                BY <1>1, <4>1 DEF Fine
        <3> QED
            BY <1>1, <2>8, <3>1, <3>2 DEF PlainOK, RunsInv
    <2> QED
        BY <2>9, <2>10, <2>11, <2>12, <2>13 DEF RunsInv
<1>7. CASE InFlightOf(rt[g]) = {} /\ rt' = WithPc(rt, g, "suspend") /\ q' = Append(q, x)
    BY <1>4, <1>6, <1>7
<1>8. CASE InFlightOf(rt[g]) = {} /\ rt' = WithPc(rt, g, "finalize") /\ q' = Append(q, y)
    BY <1>4, <1>6, <1>8
<1> QED
    BY <1>3, <1>5, <1>7, <1>8

-----------------------------------------------------------------------------
\* The start of a run.

\* The activation a run starts with.
LEMMA RunActIs ==
    ASSUME NEW n, NEW v
    PROVE  /\ RunAct(n, v, FALSE).k = "run1" /\ RunAct(n, v, FALSE).n = n /\ RunAct(n, v, FALSE).v = v
           /\ RunAct(n, v, FALSE).g = EnsuredId /\ RunAct(n, v, FALSE).own.n = 0
           /\ ~RunAct(n, v, FALSE).auto
BY DEF RunAct, Blank

\* Loop g starts node n in version v: the activation b is queued.
Starts(g, n, v, b) ==
    /\ MayStart(g) /\ cur \in 1..Len(rt) /\ rt[g].sr = g
    /\ n \in rt[g].todo /\ n \notin InFlightOf(rt[g]) /\ IsNextVersion(n, v)
    /\ q' = Append(q, b) /\ b.k = "run1" /\ b.n = n /\ b.v = v
    /\ b.g = cur /\ b.own.n = 0 /\ ~b.auto
    /\ cur' = cur /\ working' = working /\ alive' = alive /\ go' = go /\ runs' = runs
    /\ disp' = [disp EXCEPT ![n] = @ + 1]
    /\ Len(rt') = Len(rt) /\ \A h \in 1..Len(rt) : h # g => rt'[h] = rt[h]
    /\ rt'[g].pc = "dispatch" /\ rt'[g].sr = g
    /\ rt'[g].failed = rt[g].failed /\ rt'[g].paused = rt[g].paused
    /\ InFlightOf(rt'[g]) = InFlightOf(rt[g]) \cup {n}
    /\ rt'[g].todo = rt[g].todo \ {n} /\ rt'[g].room = rt[g].room - 1
    /\ rt[g].room \in Nat \ {0}

\* One start: what may start is checked, the run takes the slot of its node.
LEMMA DispatchIs ==
    ASSUME Inv, RunsInv, NEW g \in 1..Len(rt), Dispatch(g)
    PROVE  \E n \in Nodes, v \in Nat : \E b : Starts(g, n, v, b)
<1> DEFINE r == rt[g]
           n == Least(r.todo)
           t == disp[n] + 1
           c == [r EXCEPT !.inFlight[n] = t]
           e == [c EXCEPT !.todo = @ \ {n}, !.room = @ - 1]
<1>1. /\ r.pc = "dispatch" /\ r.todo # {} /\ r.room > 0
      /\ working' = working /\ alive' = alive /\ go' = go /\ runs' = runs
    BY DEF Dispatch, log, ctl
<1>2. rt \in Seq(Awake) /\ r \in Runtime /\ MayStart(g) /\ cur \in 1..Len(rt) /\ g = cur /\ cur # 0 /\ r.sr = g
    <2>1. MayStart(g)
        BY <1>1 DEF DispOK, RunsInv
    <2>2. rt \in Seq(Awake) /\ r \in Runtime /\ r.sr = g /\ Len(rt) \in Nat
        BY <1>1, Types DEF LoopOK, RunsInv
    <2>3. g = cur /\ g # 0
        BY <2>1, <2>2 DEF MayStart
    <2> QED
        BY <2>1, <2>2, <2>3
<1>3. Ensured = rt /\ EnsuredId = cur
    BY <1>2, EnsuredIs
<1>4. n \in Nodes /\ n \in r.todo
    <2>1. r.todo \subseteq Nat
        BY <1>2, WorkflowAssumption DEF Runtime
    <2>2. n \in r.todo
        BY <1>1, <2>1, LeastMember
    <2> QED
        BY <1>2, <2>2 DEF Runtime
<1>5. n \notin InFlightOf(r)
    BY <1>2, <1>4 DEF MayStart
<1>6. PICK v \in 1..(Len(runs[n]) + 1) :
         /\ IsNextVersion(n, v)
         /\ q' = Append(q, RunAct(n, v, FALSE))
         /\ rt' = [Claimed(Ensured, n) EXCEPT ![g].todo = @ \ {n}, ![g].room = @ - 1]
         /\ cur' = EnsuredId
         /\ disp' = [disp EXCEPT ![n] = @ + 1]
    BY DEF Dispatch
<1> HIDE DEF n
<1>18. PICK b : /\ q' = Append(q, b) /\ b.k = "run1" /\ b.n = n /\ b.v = v /\ b.g = cur /\ b.own.n = 0
                /\ ~b.auto
    <2> DEFINE b == RunAct(n, v, FALSE)
    <2>1. b.k = "run1" /\ b.n = n /\ b.v = v /\ b.g = EnsuredId /\ b.own.n = 0 /\ ~b.auto
        BY RunActIs, Zenon
    <2>2. q' = Append(q, b)
        BY <1>6
    <2> HIDE DEF b
    <2> QED
        BY <1>3, <2>1, <2>2
<1>19. /\ IsNextVersion(n, v) /\ cur' = EnsuredId
       /\ disp' = [disp EXCEPT ![n] = @ + 1]
    BY <1>6
<1>7. v \in Nat /\ t \in Nat \ {0}
    <2>1. Len(runs[n]) \in Nat /\ disp[n] \in Nat
        BY <1>4, LenProperties DEF Inv, LogOK, RestOK
    <2> QED
        BY <2>1
<1>8. Claimed(Ensured, n) = [rt EXCEPT ![g] = c]
    BY <1>2, <1>3 DEF Claimed
<1> HIDE DEF t
<1>9. /\ c.sr = r.sr /\ c.todo = r.todo /\ c.room = r.room /\ c.failed = r.failed
      /\ c.paused = r.paused /\ c.pc = r.pc /\ c.inFlight = [r.inFlight EXCEPT ![n] = t]
      /\ c \in [inFlight : [Nodes -> Nat], failed : BOOLEAN, paused : BOOLEAN, rescan : BOOLEAN,
                pc : LoopPc, sr : Nat, todo : SUBSET Nodes, room : Nat]
      /\ r.inFlight \in [Nodes -> Nat]
    BY <1>2, <1>4, <1>7 DEF Runtime
<1>10. c \in Awake
    <2>1. r \in Awake /\ c.rescan = r.rescan
        BY <1>2, RuntimeOf DEF Runtime
    <2> QED
        BY <1>9, <2>1 DEF Awake, Runtime
<1> HIDE DEF c
<1>11. LET R == [rt EXCEPT ![g] = c] IN
       R \in Seq(Awake) /\ Len(R) = Len(rt) /\ R[g] = c /\ \A h \in 1..Len(rt) : h # g => R[h] = rt[h]
    BY <1>2, <1>10, ReplaceOne, Replaced
<1> DEFINE R == [rt EXCEPT ![g] = c]
<1>12. rt' = [R EXCEPT ![g] = e]
    BY <1>6, <1>8, <1>11
<1>13. /\ e.sr = r.sr /\ e.todo = r.todo \ {n} /\ e.room = r.room - 1 /\ e.failed = r.failed
       /\ e.paused = r.paused /\ e.pc = r.pc /\ e.inFlight = [r.inFlight EXCEPT ![n] = t]
    BY <1>9
<1> HIDE DEF e
<1>14. Len(rt') = Len(R) /\ rt'[g] = e /\ \A h \in 1..Len(R) : h # g => rt'[h] = R[h]
    <2>1. R \in Seq(Awake) /\ g \in 1..Len(R)
        BY <1>11
    <2> HIDE DEF R
    <2> QED
        BY <1>12, <2>1, Replaced
<1>15. InFlightOf(e) = InFlightOf(r) \cup {n}
    <2>1. \A m \in Nodes : e.inFlight[m] = IF m = n THEN t ELSE r.inFlight[m]
        BY <1>9, <1>13
    <2> QED
        BY <1>4, <1>7, <2>1 DEF InFlightOf
<1>16. Len(rt') = Len(rt) /\ rt'[g] = e /\ \A h \in 1..Len(rt) : h # g => rt'[h] = rt[h]
    BY <1>11, <1>14
<1>17. r.room \in Nat \ {0}
    BY <1>1, <1>2 DEF Runtime
<1> QED
    <2>1. cur' = cur
        BY <1>3, <1>19
    <2>2. /\ rt'[g].pc = "dispatch" /\ rt'[g].sr = g
          /\ rt'[g].failed = r.failed /\ rt'[g].paused = r.paused
          /\ InFlightOf(rt'[g]) = InFlightOf(r) \cup {n}
          /\ rt'[g].todo = r.todo \ {n} /\ rt'[g].room = r.room - 1
        BY <1>1, <1>2, <1>13, <1>15, <1>16
    <2>3. Starts(g, n, v, b)
        BY <1>1, <1>2, <1>4, <1>5, <1>16, <1>17, <1>18, <1>19, <2>1, <2>2 DEF Starts
    <2> QED
        BY <1>4, <1>7, <2>3

LEMMA LoopDispatches ==
    ASSUME Inv, RunsInv, NEW g \in 1..Len(rt), Dispatch(g)
    PROVE  RunsInv'
<1>0. PICK n \in Nodes, v \in Nat : \E b : Starts(g, n, v, b)
    BY DispatchIs
<1>00. PICK b : Starts(g, n, v, b)
    BY <1>0
<1>1. /\ MayStart(g) /\ cur \in 1..Len(rt) /\ rt[g].sr = g
      /\ n \in rt[g].todo /\ n \notin InFlightOf(rt[g]) /\ IsNextVersion(n, v)
      /\ q' = Append(q, b) /\ b.k = "run1" /\ b.n = n /\ b.v = v
      /\ b.g = cur /\ b.own.n = 0
      /\ cur' = cur /\ working' = working /\ alive' = alive /\ go' = go /\ runs' = runs
      /\ disp' = [disp EXCEPT ![n] = @ + 1]
      /\ Len(rt') = Len(rt) /\ \A h \in 1..Len(rt) : h # g => rt'[h] = rt[h]
      /\ rt'[g].pc = "dispatch" /\ rt'[g].sr = g
      /\ rt'[g].failed = rt[g].failed /\ rt'[g].paused = rt[g].paused
      /\ InFlightOf(rt'[g]) = InFlightOf(rt[g]) \cup {n}
      /\ rt'[g].todo = rt[g].todo \ {n} /\ rt'[g].room = rt[g].room - 1
      /\ rt[g].room \in Nat \ {0}
    BY <1>00 DEF Starts
<1>2. b.k = "run1" /\ b.n = n /\ b.g = cur /\ b.own.n = 0
    BY <1>1
<1>3. /\ g = cur /\ alive /\ go /\ cur # 0
      /\ \A a \in SeqRange(q) : a.k # "cfin"
      /\ rt[g].todo \cap InFlightOf(rt[g]) = {}
      /\ Cardinality(InFlightOf(rt[g])) + rt[g].room <= Cap
    <2>1. cur # 0
        BY <1>1, Types
    <2> QED
        BY <1>1, <2>1 DEF MayStart
<1>4. rt[g].pc = "dispatch"
    BY DEF Dispatch
<1>5. \A h \in 1..Len(rt) : h # g => rt[h].pc = "idle"
    BY <1>4 DEF LoopOK, RunsInv
<1>6. Flying = InFlightOf(rt[g]) /\ Flying' = Flying \cup {n}
    BY <1>1, <1>3 DEF Flying
<1>7. ~Settling /\ ~Settling'
    BY <1>1, <1>4, <1>5 DEF Settling
<1>8. Taken' = Taken \cup {n} /\ n \notin Taken
    BY <1>1, <1>6, <1>7 DEF Taken
<1>9. Slotted(b) /\ Slot(b) = b.n /\ q \in Seq(Act) /\ Held(q, working, Taken)
    BY <1>2, Types DEF Slotted, SlotKinds, Slot, RunKinds, Reruns, RunsInv, HeldOK
<1>10. Held(q', working, Taken \cup {b.n}) /\ SeqRange(q') = SeqRange(q) \cup {b}
    BY <1>1, <1>2, <1>8, <1>9, HeldEnter, RangeAppend
<1>11. HeldOK'
    BY <1>1, <1>2, <1>8, <1>10 DEF HeldOK
<1>12. Cardinality(InFlightOf(rt'[g])) + rt'[g].room <= Cap /\ Cardinality(InFlightOf(rt'[g])) <= Cap
    <2> DEFINE F == InFlightOf(rt[g])
    <2>1. IsFiniteSet(F) /\ Cardinality(F) \in Nat /\ Cap \in Nat
        BY InFlightFinite, EngineAssumption
    <2>2. Cardinality(F \cup {n}) = Cardinality(F) + 1
        BY <1>1, <2>1, FS_AddElement
    <2>3. InFlightOf(rt'[g]) = F \cup {n}
        BY <1>1
    <2>4. Cardinality(F) + rt[g].room <= Cap
        BY <1>3
    <2>5. rt'[g].room = rt[g].room - 1 /\ rt[g].room \in Nat /\ rt[g].room # 0
        BY <1>1
    <2> HIDE DEF F
    <2> QED
        BY <2>1, <2>2, <2>3, <2>4, <2>5
<1>13. LoopOK'
    <2>1. \A h \in 1..Len(rt') : rt'[h].pc # "idle" => h = g
        BY <1>1, <1>5
    <2>2. \A h \in 1..Len(rt') : Cardinality(InFlightOf(rt'[h])) <= Cap
        BY <1>1, <1>12 DEF LoopOK, RunsInv
    <2>3. rt'[g].pc \notin {"integrate", "suspend", "finalize"} /\ rt'[g].sr = g /\ cur' = g
        BY <1>1, <1>3
    <2>4. cur' # 0
        BY <1>1, <1>3
    <2> QED
        BY <2>1, <2>2, <2>3, <2>4 DEF LoopOK
<1>14. DispOK'
    <2> SUFFICES ASSUME NEW h \in 1..Len(rt'), rt'[h].pc = "dispatch" PROVE MayStart(h)'
        BY DEF DispOK
    <2>1. h = g
        BY <1>1, <1>5
    <2>2. rt'[g].todo \cap InFlightOf(rt'[g]) = {}
        BY <1>1, <1>3
    <2>3. \A a \in SeqRange(q') : a.k # "cfin"
        BY <1>2, <1>3, <1>10
    <2>4. g = cur' /\ alive' /\ go'
        BY <1>1, <1>3
    <2> QED
        BY <1>12, <2>1, <2>2, <2>3, <2>4 DEF MayStart
<1>15. StopOK'
    <2>1. rt'[cur].failed = rt[cur].failed
        BY <1>1, <1>3
    <2>2. \A a \in SeqRange(q') : a.k \in {"cfin", "del", "ap1", "ap2"} => a \in SeqRange(q)
        BY <1>2, <1>10
    <2>3. \A a \in SeqRange(q') : a.k # "cfin"
        BY <1>2, <1>3, <1>10
    <2>4. \A h \in 1..Len(rt') : rt'[h].pc \notin {"idle", "top"} => h = cur'
        BY <1>1, <1>3, <1>5
    <2>5. Approving' => Approving
        BY <2>2 DEF Approving
    <2> QED
        BY <1>1, <1>3, <2>1, <2>2, <2>3, <2>4, <2>5 DEF StopOK, RunsInv
<1>16. PlainOK'
    <2>1. Fine(b)'
        BY <1>1, <1>2 DEF Fine, RunKinds, Reruns
    <2>2. \A a \in SeqRange(q) \cup working : Fine(a)'
        <3>1. \A a \in SeqRange(q) \cup working : Fine(a)
            BY DEF PlainOK, RunsInv
        <3> QED
            BY <1>1, <1>7, <3>1 DEF Fine, Settling
    <2> QED
        BY <1>1, <1>10, <2>1, <2>2 DEF PlainOK, RunsInv
<1> QED
    BY <1>11, <1>13, <1>14, <1>15, <1>16 DEF RunsInv

-----------------------------------------------------------------------------
\* The rerun a gate has started.

\* The walk over the downstream nodes stays the rerun it was.
LEMMA InvalidateOf ==
    ASSUME NEW a \in ActRec, NEW R, NEW left
    PROVE  LET b == Invalidate(a, R, left) IN
           /\ b.k \in {"rr3", "rr4", "rr5"} /\ b.n = a.n /\ b.own = a.own /\ b.left = left
           /\ b.k = "rr5" <=> left = {}
<1> DEFINE d == Least(left)
           I == {i \in Indices(R, d) : i > a.i /\ R[d][i].st # "superseded"}
           e == [a EXCEPT !.k = "rr5", !.left = {}, !.i = 0]
           f == [a EXCEPT !.k = "rr4", !.left = left, !.i = 0]
           g == [a EXCEPT !.k = "rr3", !.left = left, !.i = Least(I)]
<1>1. Invalidate(a, R, left) = IF left = {} THEN e ELSE IF I = {} THEN f ELSE g
    BY DEF Invalidate
<1> HIDE DEF I
<1>2. /\ e.k = "rr5" /\ e.n = a.n /\ e.own = a.own /\ e.left = {}
      /\ f.k = "rr4" /\ f.n = a.n /\ f.own = a.own /\ f.left = left
      /\ g.k = "rr3" /\ g.n = a.n /\ g.own = a.own /\ g.left = left
    BY DEF ActRec
<1> HIDE DEF e, f, g
<1> QED
    BY <1>1, <1>2

LEMMA SupersedeOwnOf ==
    ASSUME NEW a \in ActRec, NEW R
    PROVE  LET b == SupersedeOwn(a, R) IN
           /\ b.n = a.n /\ b.own = a.own
           /\ \/ b.k = "rr2" /\ b.left = a.left
              \/ /\ b.k \in {"rr3", "rr4", "rr5"} /\ b.left = Downstream(a.n)
                 /\ b.k = "rr5" <=> b.left = {}
<1> DEFINE I == {i \in Indices(R, a.n) : i > a.i /\ R[a.n][i].st \in {"completed", "waiting_approval"}}
           b == [a EXCEPT !.i = 0]
           e == [a EXCEPT !.k = "rr2", !.i = Least(I)]
<1>1. SupersedeOwn(a, R) = IF I = {} THEN Invalidate(b, R, Downstream(a.n)) ELSE e
    BY DEF SupersedeOwn
<1>2. /\ b \in ActRec /\ b.n = a.n /\ b.own = a.own
      /\ e.k = "rr2" /\ e.n = a.n /\ e.own = a.own /\ e.left = a.left
    BY DEF ActRec
<1> HIDE DEF I, b, e
<1> QED
    BY <1>1, <1>2, InvalidateOf

\* The rerun goes on: b is its next append.
RerunOn(b) ==
    /\ \E k \in Reruns \ {"rr5"} : At(k)
    /\ Next1(b) /\ b.k \in Reruns /\ b.n = Head(q).n /\ b.own = Head(q).own
    /\ UNCHANGED <<tstatus, alive, working, rt, cur, meter, disp, booting, go>>

LEMMA RerunGoes ==
    ASSUME Inv, RerunRunning \/ RerunSupersede \/ RerunInvalidate \/ RerunPending
    PROVE  \E b : RerunOn(b)
<1> DEFINE a == Head(q)
<1>1. a \in ActRec
    BY QueueFacts DEF Inv, ActsOK, Act, RerunRunning, RerunSupersede, RerunInvalidate, RerunPending
<1>2. /\ \E k \in Reruns \ {"rr5"} : At(k)
      /\ UNCHANGED <<tstatus, alive, working, rt, cur, meter, disp, booting, go>>
    BY DEF RerunRunning, RerunSupersede, RerunInvalidate, RerunPending, Reruns, ctl
<1>3. \/ \E R : Next1(SupersedeOwn(a, R))
      \/ \E R, L : Next1(Invalidate(a, R, L))
    BY DEF RerunRunning, RerunSupersede, RerunInvalidate, RerunPending
<1>4. CASE \E R : Next1(SupersedeOwn(a, R))
    <2>1. PICK R : Next1(SupersedeOwn(a, R))
        BY <1>4
    <2>2. LET b == SupersedeOwn(a, R) IN b.k \in Reruns /\ b.n = a.n /\ b.own = a.own
        BY <1>1, SupersedeOwnOf DEF Reruns
    <2> QED
        BY <1>2, <2>1, <2>2 DEF RerunOn
<1>5. CASE \E R, L : Next1(Invalidate(a, R, L))
    <2>1. PICK R, L : Next1(Invalidate(a, R, L))
        BY <1>5
    <2>2. LET b == Invalidate(a, R, L) IN b.k \in Reruns /\ b.n = a.n /\ b.own = a.own
        BY <1>1, InvalidateOf DEF Reruns
    <2> QED
        BY <1>2, <2>1, <2>2 DEF RerunOn
<1> QED
    BY <1>3, <1>4, <1>5

LEMMA RerunGoesOn ==
    ASSUME Inv, RunsInv, RerunRunning \/ RerunSupersede \/ RerunInvalidate \/ RerunPending
    PROVE  RunsInv'
<1>1. PICK b : RerunOn(b)
    BY RerunGoes
<1>2. PICK k \in Reruns : At(k)
    BY <1>1 DEF RerunOn
<1>3. /\ Next1(b) /\ b.k \in Reruns /\ b.n = Head(q).n /\ b.own = Head(q).own
      /\ UNCHANGED <<rt, cur, alive, go, working>>
    BY <1>1 DEF RerunOn
<1>4. Head(q).k \in Reruns /\ Fine(Head(q)) /\ Slotted(Head(q)) /\ Slot(Head(q)) = Head(q).own.n
    BY <1>2, HeadFacts
<1>5. Fine(b) /\ Slotted(b) /\ Slot(b) = b.own.n /\ b.k \notin {"cfin", "del", "ap1", "ap2"}
    BY <1>3, <1>4, Zenon DEF Fine, Slotted, Slot, SlotKinds, RunKinds, Reruns
<1>6. Held(q', working, Taken) /\ SeqRange(q') \subseteq SeqRange(q) \cup {b}
    BY <1>2, <1>3, <1>4, <1>5, HeadFacts, HeldNext DEF Next1
<1>7. working' \subseteq working \cup {b} /\ \A x \in working' : x.k \in {"setup", "llm", "release"}
    BY <1>3 DEF RunsInv, PlainOK
<1> QED
    BY <1>3, <1>5, <1>6, <1>7, StayOne

\* A run is claimed on the registry's runtime.
LEMMA ClaimedIs ==
    ASSUME Inv, cur \in 1..Len(rt), NEW n \in Nodes
    PROVE  LET R == Claimed(Ensured, n) IN
           /\ R \in Seq(Awake) /\ Len(R) = Len(rt)
           /\ \A h \in 1..Len(rt) : h # cur => R[h] = rt[h]
           /\ R[cur].sr = rt[cur].sr /\ R[cur].todo = rt[cur].todo /\ R[cur].room = rt[cur].room
           /\ R[cur].failed = rt[cur].failed /\ R[cur].paused = rt[cur].paused
           /\ R[cur].pc = rt[cur].pc
           /\ InFlightOf(R[cur]) = InFlightOf(rt[cur]) \cup {n}
<1> DEFINE r == rt[cur]
           t == disp[n] + 1
           c == [r EXCEPT !.inFlight[n] = t]
           R == Claimed(Ensured, n)
<1>1. rt \in Seq(Awake) /\ r \in Runtime /\ cur # 0
    BY Types
<1>2. Ensured = rt /\ EnsuredId = cur
    BY <1>1, EnsuredIs
<1>3. t \in Nat \ {0} /\ disp \in [Nodes -> Nat]
    BY DEF Inv, RestOK
<1>4. R \in Seq(Awake) /\ R = [rt EXCEPT ![cur] = c]
    <2>1. R \in Seq(Awake)
        BY <1>1, <1>2, <1>3, ClaimedFacts
    <2>2. R = [rt EXCEPT ![cur] = c]
        BY <1>2 DEF Claimed
    <2> QED
        BY <2>1, <2>2
<1> HIDE DEF t, R
<1>5. /\ c.sr = r.sr /\ c.todo = r.todo /\ c.room = r.room /\ c.failed = r.failed
      /\ c.paused = r.paused /\ c.pc = r.pc /\ c.inFlight = [r.inFlight EXCEPT ![n] = t]
      /\ r.inFlight \in [Nodes -> Nat]
    BY <1>1, <1>3 DEF Runtime
<1> HIDE DEF c
<1>6. Len(R) = Len(rt) /\ R[cur] = c /\ \A h \in 1..Len(rt) : h # cur => R[h] = rt[h]
    BY <1>1, <1>4, Replaced
<1>7. InFlightOf(c) = InFlightOf(r) \cup {n}
    <2>1. \A m \in Nodes : c.inFlight[m] = IF m = n THEN t ELSE r.inFlight[m]
        BY <1>5
    <2> QED
        BY <1>3, <2>1 DEF InFlightOf
<1> QED
    BY <1>4, <1>5, <1>6, <1>7 DEF R

\* The rerun ends, and the gate run with it: its node is started, the
\* activation b is queued in the place of the rerun.
Restarts(b) ==
    LET a == Head(q) IN
    /\ At("rr5") /\ Next1(b)
    /\ b.k = "run1" /\ b.n = a.n /\ b.v \in Nat /\ IsNextVersion(a.n, b.v) /\ b.auto
    /\ b.g = cur /\ b.own.n = 0
    /\ cur' = cur /\ rt' = Finally(Claimed(Ensured, a.n), a.own.n, cur, cur)
    /\ disp' = [disp EXCEPT ![a.n] = @ + 1]
    /\ UNCHANGED <<phase, runs, alive, working, booting, go>>

LEMMA RestartIs ==
    ASSUME Inv, RunsInv, RerunExecute
    PROVE  cur \in 1..Len(rt) /\ cur # 0 /\ \E b : Restarts(b)
<1> DEFINE a == Head(q)
<1>1. At("rr5") /\ "rr5" \in Reruns
    BY DEF RerunExecute, Reruns
<1>2. /\ Slotted(a) /\ Slot(a) = a.own.n /\ a.own.n \in Nodes /\ a.own.n # 0 /\ a.own.g = cur
      /\ a.n \in Nodes
    BY <1>1, HeadFacts, WorkflowAssumption
<1>3. a.own.n \in Taken
    BY <1>1, <1>2, HeadFacts, HeldLeave
<1>4. cur # 0 /\ cur \in 1..Len(rt)
    BY <1>2, <1>3, Types DEF Taken, Flying
<1>5. Ensured = rt /\ EnsuredId = cur
    BY <1>4, EnsuredIs
<1>6. PICK v \in 1..(Len(runs[a.n]) + 1) :
         /\ IsNextVersion(a.n, v)
         /\ Next1(RunAct(a.n, v, a.own.n # 0))
         /\ rt' = IF a.own.n = 0 THEN Claimed(Ensured, a.n)
                  ELSE Finally(Claimed(Ensured, a.n), a.own.n, a.own.g, EnsuredId)
         /\ cur' = EnsuredId
         /\ disp' = [disp EXCEPT ![a.n] = @ + 1]
    BY DEF RerunExecute
<1>7. v \in Nat
    <2>1. Len(runs[a.n]) \in Nat
        BY <1>2, LenProperties DEF Inv, LogOK
    <2> QED
        BY <2>1
<1> DEFINE b == RunAct(a.n, v, a.own.n # 0)
<1>8. b.k = "run1" /\ b.n = a.n /\ b.v = v /\ b.auto = (a.own.n # 0) /\ b.g = EnsuredId /\ b.own.n = 0
    BY DEF RunAct, Blank
<1>9. UNCHANGED <<phase, runs, alive, working, booting, go>>
    BY DEF RerunExecute, ctl
<1>10. Next1(b) /\ rt' = Finally(Claimed(Ensured, a.n), a.own.n, cur, cur)
    BY <1>2, <1>5, <1>6
<1> HIDE DEF b
<1>11. Restarts(b)
    BY <1>1, <1>2, <1>5, <1>6, <1>7, <1>8, <1>9, <1>10 DEF Restarts
<1> QED
    BY <1>4, <1>11

\* The runtimes after it: the run of the gate is forgotten, the one of its
\* target claimed.
LEMMA RestartMoves ==
    ASSUME Inv, RunsInv, NEW b, Restarts(b), cur \in 1..Len(rt)
    PROVE  LET a == Head(q) IN
           /\ rt' \in Seq(Awake) /\ Len(rt') = Len(rt)
           /\ \A h \in 1..Len(rt) : h # cur =>
                /\ rt'[h].sr = rt[h].sr /\ rt'[h].todo = rt[h].todo /\ rt'[h].room = rt[h].room
                /\ rt'[h].pc = rt[h].pc /\ InFlightOf(rt'[h]) = InFlightOf(rt[h])
           /\ rt'[cur].sr = rt[cur].sr
           /\ rt[cur].failed => rt'[cur].failed
           /\ rt[cur].paused => rt'[cur].paused
           /\ rt'[cur].pc = rt[cur].pc \/ (rt[cur].pc = "idle" /\ rt'[cur].pc = "top")
           /\ InFlightOf(rt'[cur]) = (InFlightOf(rt[cur]) \cup {a.n}) \ {a.own.n}
<1> DEFINE a == Head(q)
           R == Claimed(Ensured, a.n)
<1>1. a.own.n \in Nodes /\ a.n \in Nodes
    BY HeadFacts DEF Restarts, Reruns
<1>2. /\ R \in Seq(Awake) /\ Len(R) = Len(rt)
      /\ \A h \in 1..Len(rt) : h # cur => R[h] = rt[h]
      /\ R[cur].sr = rt[cur].sr /\ R[cur].todo = rt[cur].todo /\ R[cur].room = rt[cur].room
      /\ R[cur].failed = rt[cur].failed /\ R[cur].paused = rt[cur].paused
      /\ R[cur].pc = rt[cur].pc
      /\ InFlightOf(R[cur]) = InFlightOf(rt[cur]) \cup {a.n}
    BY <1>1, ClaimedIs
<1>3. rt' = Finally(R, a.own.n, cur, cur)
    BY DEF Restarts
<1> HIDE DEF R
<1>4. Quiet(R, rt', cur, {a.own.n}) /\ rt' \in Seq(Awake)
    BY <1>1, <1>2, <1>3, QuietFinally, FinallyFacts
<1> HIDE DEF a
<1>5. /\ Len(rt') = Len(R)
      /\ \A g \in 1..Len(R) :
           /\ rt'[g].sr = R[g].sr /\ rt'[g].todo = R[g].todo /\ rt'[g].room = R[g].room
           /\ R[g].failed => rt'[g].failed
           /\ R[g].paused => rt'[g].paused
           /\ rt'[g].pc = R[g].pc \/ (g = cur /\ R[g].pc = "idle" /\ rt'[g].pc = "top")
           /\ InFlightOf(rt'[g]) = InFlightOf(R[g]) \ (IF g = cur THEN {a.own.n} ELSE {})
    BY <1>4 DEF Quiet
<1>6. ASSUME NEW h \in 1..Len(rt), h # cur
      PROVE  InFlightOf(rt'[h]) = InFlightOf(rt[h])
    <2>1. h \in 1..Len(R) /\ R[h] = rt[h]
        BY <1>2, <1>6
    <2>2. InFlightOf(rt'[h]) = InFlightOf(R[h])
        BY <1>5, <1>6, <2>1
    <2> QED
        BY <2>1, <2>2
<1>7. InFlightOf(rt'[cur]) = (InFlightOf(rt[cur]) \cup {a.n}) \ {a.own.n}
    BY <1>2, <1>5
<1>8. \A h \in 1..Len(rt) : h # cur =>
                /\ rt'[h].sr = rt[h].sr /\ rt'[h].todo = rt[h].todo /\ rt'[h].room = rt[h].room
                /\ rt'[h].pc = rt[h].pc
    BY <1>2, <1>5
<1>9. /\ rt'[cur].sr = rt[cur].sr
      /\ rt[cur].failed => rt'[cur].failed
      /\ rt[cur].paused => rt'[cur].paused
      /\ rt'[cur].pc = rt[cur].pc \/ (rt[cur].pc = "idle" /\ rt'[cur].pc = "top")
    BY <1>2, <1>5
<1> QED
    BY <1>2, <1>4, <1>5, <1>6, <1>7, <1>8, <1>9 DEF a

\* The node that a gate starts again must have nothing in flight.
LEMMA RunsRestart ==
    ASSUME Inv, RunsInv, Yielded, RerunExecute,
           \A a \in SeqRange(q) \cup working : Slotted(a) => Slot(a) # Head(q).n
    PROVE  RunsInv'
<1> DEFINE a == Head(q)
           n == a.n
           m == a.own.n
<1>1. cur \in 1..Len(rt) /\ cur # 0
    BY RestartIs
<1>2. PICK b : Restarts(b)
    BY RestartIs
<1>3. /\ At("rr5") /\ q' = Append(Tail(q), b) /\ b.k = "run1" /\ b.n = n /\ b.g = cur /\ b.own.n = 0
      /\ cur' = cur /\ working' = working /\ alive' = alive /\ go' = go
    BY <1>2 DEF Restarts, Next1
<1>4. /\ Slotted(a) /\ Slot(a) = m /\ m \in Nodes /\ n \in Nodes /\ m # 0
      /\ q \in Seq(Act) /\ q # <<>> /\ Tail(q) \in Seq(Act) /\ Held(q, working, Taken)
      /\ a \in SeqRange(q) /\ SeqRange(q') \subseteq SeqRange(q) \cup {b}
    BY <1>3, HeadFacts, WorkflowAssumption DEF Reruns
<1>5. /\ Len(rt') = Len(rt)
      /\ \A h \in 1..Len(rt) : h # cur =>
           /\ rt'[h].sr = rt[h].sr /\ rt'[h].todo = rt[h].todo /\ rt'[h].room = rt[h].room
           /\ rt'[h].pc = rt[h].pc /\ InFlightOf(rt'[h]) = InFlightOf(rt[h])
      /\ rt'[cur].sr = rt[cur].sr
      /\ rt[cur].failed => rt'[cur].failed
      /\ rt[cur].paused => rt'[cur].paused
      /\ rt'[cur].pc = rt[cur].pc \/ (rt[cur].pc = "idle" /\ rt'[cur].pc = "top")
      /\ InFlightOf(rt'[cur]) = (InFlightOf(rt[cur]) \cup {n}) \ {m}
    BY <1>1, <1>2, RestartMoves
<1>6. Slotted(b) /\ Slot(b) = n /\ Fine(b)' /\ b.k \notin {"cfin", "del", "ap1", "ap2"}
    BY <1>3, Zenon DEF Slotted, Slot, SlotKinds, RunKinds, Reruns, Fine
<1> HIDE DEF n, m, a
<1>7. n # m /\ n \notin Taken
    <2>1. n # m
        BY <1>4 DEF a, n
    <2>2. \A w \in working : w.n # n
        <3>1. \A w \in working : Slotted(w) /\ Slot(w) = w.n
            BY DEF RunsInv, PlainOK, Slotted, Slot, SlotKinds, RunKinds, Reruns
        <3> QED
            BY <3>1 DEF n, a
    <2>3. \A i \in 1..Len(q) : Slotted(q[i]) => Slot(q[i]) # n
        BY DEF SeqRange, n, a
    <2> QED
        BY <1>4, <2>1, <2>2, <2>3 DEF Held
<1>8. Flying = InFlightOf(rt[cur]) /\ Flying' = InFlightOf(rt'[cur]) /\ m \in Flying /\ n \notin Flying
    <2>1. m \in Taken
        BY <1>4, HeldLeave DEF a
    <2> QED
        BY <1>1, <1>3, <1>4, <1>7, <2>1 DEF Flying, Taken
<1>9. Settling' = Settling
    BY <1>1, <1>5 DEF Settling
<1>10. Taken' = (Taken \ {m}) \cup {n}
    BY <1>4, <1>5, <1>7, <1>8, <1>9, WorkflowAssumption DEF Taken
<1>11. Held(q', working, (Taken \ {m}) \cup {n})
    <2>1. Held(Tail(q), working, Taken \ {m})
        BY <1>4, HeldLeave DEF a
    <2> DEFINE J == Taken \ {m}
    <2>2. n \notin J
        BY <1>7
    <2> HIDE DEF J
    <2>3. Held(Append(Tail(q), b), working, J \cup {Slot(b)})
        BY <1>4, <1>6, <2>1, <2>2, HeldEnter DEF J
    <2> QED
        BY <1>3, <1>6, <2>3 DEF J
<1>12. HeldOK'
    BY <1>3, <1>10, <1>11 DEF HeldOK
<1>13. Cardinality(InFlightOf(rt'[cur])) <= Cap
    <2> DEFINE F == InFlightOf(rt[cur])
    <2>1. IsFiniteSet(F) /\ Cardinality(F) \in Nat
        BY InFlightFinite
    <2>2. m \in F /\ n \notin F
        BY <1>8
    <2> HIDE DEF F
    <2>3. IsFiniteSet(F \ {m}) /\ Cardinality(F \ {m}) = Cardinality(F) - 1
        BY <2>1, <2>2, FS_RemoveElement
    <2>4. Cardinality((F \ {m}) \cup {n}) = Cardinality(F \ {m}) + 1
        BY <2>2, <2>3, FS_AddElement
    <2>5. InFlightOf(rt'[cur]) = (F \ {m}) \cup {n}
        BY <1>5, <1>7 DEF F
    <2>6. Cardinality(F) <= Cap
        BY <1>1 DEF F, LoopOK, RunsInv
    <2> QED
        BY <2>1, <2>3, <2>4, <2>5, <2>6
<1>14. \A h \in 1..Len(rt) : h # cur => rt[h].pc = "idle"
    BY <1>1 DEF LoopOK, RunsInv
<1>15. rt[cur].pc \notin {"integrate", "suspend", "finalize", "dispatch"}
    <2>1. InFlightOf(rt[cur]) # {}
        BY <1>8
    <2> QED
        BY <1>1, <2>1 DEF LoopOK, RunsInv, Yielded, SyncPc
<1>16. LoopOK'
    <2>1. \A h \in 1..Len(rt') : rt'[h].pc # "idle" => h = cur
        BY <1>5, <1>14
    <2>2. \A h \in 1..Len(rt') : Cardinality(InFlightOf(rt'[h])) <= Cap
        BY <1>5, <1>13 DEF LoopOK, RunsInv
    <2>3. rt'[cur].pc \notin {"idle", "top"} => rt'[cur].sr = cur
        BY <1>1, <1>5 DEF LoopOK, RunsInv
    <2>4. rt'[cur].pc \notin {"integrate", "suspend", "finalize"}
        BY <1>5, <1>15
    <2> QED
        BY <1>1, <1>3, <2>1, <2>2, <2>3, <2>4 DEF LoopOK
<1>17. DispOK'
    <2>1. \A h \in 1..Len(rt') : rt'[h].pc # "dispatch"
        BY <1>5, <1>14, <1>15
    <2> QED
        BY <2>1 DEF DispOK
<1>18. StopOK'
    <2>1. \A x \in SeqRange(q') : x.k \in {"cfin", "del", "ap1", "ap2"} => x \in SeqRange(q)
        BY <1>4, <1>6
    <2>2. \A x \in SeqRange(q) : x.k # "cfin"
        BY <1>8 DEF StopOK, RunsInv
    <2>3. Approving' => Approving
        BY <2>1 DEF Approving
    <2>4. \A h \in 1..Len(rt') : rt'[h].pc \notin {"idle", "top"} => h = cur'
        BY <1>3, <1>5, <1>14
    <2> QED
        BY <1>1, <1>3, <1>5, <2>1, <2>2, <2>3, <2>4 DEF StopOK, RunsInv
<1>19. PlainOK'
    <2>1. ~Settling
        BY <1>14, <1>15 DEF Settling
    <2>2. \A x \in SeqRange(q) \cup working : Fine(x)'
        <3>1. \A x \in SeqRange(q) \cup working : Fine(x)
            BY DEF PlainOK, RunsInv
        <3> QED
            BY <1>3, <2>1, <3>1 DEF Fine, Settling
    <2> QED
        BY <1>3, <1>4, <1>6, <2>2 DEF PlainOK, RunsInv
<1> QED
    BY <1>12, <1>16, <1>17, <1>18, <1>19 DEF RunsInv

-----------------------------------------------------------------------------
\* The invariant holds.

\* The user sends no rerun.
NoReruns == "rerun" \notin Ops

\* A gate does not loop back while a stop that has been asked for still waits
\* for its run, and what it starts again has nothing in flight by then.
LoopsInOrder ==
    /\ \A w \in working : LoopBack(w) => go \/ ~rt[cur].failed
    /\ RerunExecute => \A a \in SeqRange(q) \cup working : Slotted(a) => Slot(a) # Head(q).n

LEMMA RunsNext ==
    ASSUME Inv, RunsInv, NoReruns, [Next]_vars, [Orderly]_vars, [LoopsInOrder]_vars
    PROVE  RunsInv'
<1>0. ASSUME NEW w \in working, Release(w)
      PROVE  RunsInv'
    <2>1. CASE ~LoopBack(w)
        BY <1>0, <2>1, RunReleased
    <2>2. CASE UNCHANGED vars
        BY <2>2, NothingStarts
    <2>3. CASE LoopBack(w) /\ ~UNCHANGED vars
        BY <2>3, RunLoopsBack DEF LoopsInOrder
    <2> QED
        BY <2>1, <2>2, <2>3
<1>1. CASE Sync
    <2>1. ASSUME NEW g \in 1..Len(rt), Top(g) \/ CheckBudget(g) \/ Ready(g) \/ Dispatch(g) \/ Settle(g)
          PROVE  RunsInv'
        BY <2>1, LoopBegins, LoopGoesOn, LoopReady, LoopDispatches, LoopSettles
    <2> QED
        BY <1>0, <1>1, <2>1 DEF Sync
<1>2. CASE LoopIo
    BY <1>2, LoopGoesOn DEF LoopIo
<1>3. CASE Turn
    BY <1>0, <1>3, RunsOn DEF Turn
<1>4. CASE Yielded /\ Appended
    <2>1. CASE Kick \/ ApproveRun \/ BootRunFailed \/ BootPending \/ BootPaused
        BY <2>1, PlainActions
    <2>2. CASE Suspend \/ Finalize
        BY <1>4, <2>2, LoopFinalizes
    <2>3. CASE CancelFinalize
        BY <1>4, <2>3, CancelFinalizes
    <2>4. CASE PhaseRunning \/ RunStarted \/ RunDone \/ PhaseDone
        BY <2>4, RunsOn
    <2>5. CASE BudgetPending \/ BudgetReported \/ DownstreamFailed \/ Escalate
        BY <2>5, RunEnds
    <2>6. CASE ApproveDone
        BY <1>4, <2>6, PlainApproveDone
    <2>7. CASE Tombstone
        BY <1>4, <2>7, PlainTombstone
    <2>8. CASE RerunRunning \/ RerunSupersede \/ RerunInvalidate \/ RerunPending
        BY <2>8, RerunGoesOn
    <2>9. CASE RerunExecute
        <3>1. CASE UNCHANGED vars
            BY <3>1, NothingStarts
        <3>2. CASE ~UNCHANGED vars
            BY <1>4, <2>9, <3>2, RunsRestart DEF LoopsInOrder
        <3> QED
            BY <3>1, <3>2
    <2> QED
        BY <1>4, <2>1, <2>2, <2>3, <2>4, <2>5, <2>6, <2>7, <2>8, <2>9 DEF Appended
<1>5. CASE BootScan
    BY <1>5, PlainActions
<1>6. CASE Crash
    BY <1>6, RunsCrash
<1>7. CASE (\E w \in working : Overspend(w)) \/ UNCHANGED vars
    BY <1>7, NothingStarts
<1>8. CASE Yielded /\ Requests /\ ~UNCHANGED vars
    <2>1. Orderly
        BY <1>8
    <2>2. CASE Pause
        BY <1>8, <2>1, <2>2, PlainPause DEF Orderly
    <2>3. CASE Cancel \/ Delete
        BY <1>8, <2>1, <2>3, PlainCancel DEF Orderly
    <2>4. CASE Resume
        BY <1>8, <2>1, <2>4, PlainResume DEF Orderly
    <2>5. ASSUME NEW n \in Nodes, Approve(n)
          PROVE  RunsInv'
        <3>1. ~Stopping
            BY <2>1, <2>5 DEF Orderly
        <3> QED
            BY <1>8, <2>5, <3>1, PlainApprove
    <2>6. \A n \in Nodes : ~Rerun(n)
        BY DEF NoReruns, Rerun, Request1
    <2> QED
        BY <1>8, <2>2, <2>3, <2>4, <2>5, <2>6 DEF Requests
<1> QED
    BY <1>1, <1>2, <1>3, <1>4, <1>5, <1>6, <1>7, <1>8 DEF Next, EngineStep, Idle

LEMMA RunsAlways ==
    ASSUME NoReruns
    PROVE  Spec /\ [][Orderly]_vars /\ [][LoopsInOrder]_vars => []RunsInv
<1>1. Inv /\ RunsInv /\ [Next]_vars /\ [Orderly]_vars /\ [LoopsInOrder]_vars => RunsInv'
    BY RunsNext
<1> QED
    BY <1>1, RunsInit, InvAlways, PTL DEF Spec

\* Without automatic gates nothing is run again.
LEMMA NoRerun ==
    ASSUME Inv, RunsInv, Forward,
           \/ RerunRunning \/ RerunSupersede \/ RerunInvalidate \/ RerunPending \/ RerunExecute
           \/ \E n \in Nodes : Rerun(n)
    PROVE  FALSE
<1>1. \A k \in Reruns : ~At(k)
    <2> SUFFICES ASSUME NEW k \in Reruns, At(k) PROVE FALSE
        OBVIOUS
    <2>1. Fine(Head(q)) /\ Head(q).k = k
        BY HeadFacts
    <2> QED
        BY <2>1 DEF Fine, Forward
<1>2. \A n \in Nodes : ~Rerun(n)
    BY DEF Forward, Rerun, Request1
<1> QED
    BY <1>1, <1>2 DEF RerunRunning, RerunSupersede, RerunInvalidate, RerunPending, RerunExecute, Reruns

LEMMA ForwardLoops ==
    ASSUME Inv, RunsInv, Forward
    PROVE  LoopsInOrder
<1>1. \A w \in working : ~LoopBack(w)
    BY DEF LoopBack, LoopsBack, Forward
<1>2. ~RerunExecute
    BY NoRerun
<1> QED
    BY <1>1, <1>2 DEF LoopsInOrder

LEMMA ForwardRuns ==
    ASSUME Forward
    PROVE  Spec /\ [][Orderly]_vars => []RunsInv
<1>1. Inv /\ RunsInv /\ [Next]_vars /\ [Orderly]_vars => RunsInv'
    <2> SUFFICES ASSUME Inv, RunsInv, [Next]_vars, [Orderly]_vars
                 PROVE  RunsInv'
        OBVIOUS
    <2>1. NoReruns
        BY DEF Forward, NoReruns
    <2>2. [LoopsInOrder]_vars
        BY ForwardLoops
    <2> QED
        BY <2>1, <2>2, RunsNext
<1> QED
    BY <1>1, RunsInit, InvAlways, PTL DEF Spec

\* Branches are merged into the project's tree only while no run works there
\* (integrateBeforeNextWave at the drain point of scheduleOnce).
THEOREM MergesAlone ==
    ASSUME NoReruns
    PROVE  Spec /\ [][Orderly]_vars /\ [][LoopsInOrder]_vars => []MergeAlone
<1>1. Inv /\ RunsInv => MergeAlone
    <2> SUFFICES ASSUME Inv, RunsInv, NEW g \in 1..Len(rt), rt[g].pc = "integrate"
                 PROVE  working = {}
        BY DEF MergeAlone
    <2>1. Flying = {}
        BY DEF LoopOK, RunsInv, Flying
    <2> QED
        BY <2>1, NoRuns
<1> QED
    BY <1>1, RunsAlways, InvAlways, PTL

\* How often a node runs, by the slots.
LEMMA ExecutingIs ==
    ASSUME Inv, RunsInv, NEW n \in Nodes
    PROVE  Executing(n) = IF n \in Flying THEN 1 ELSE 0
<1> DEFINE S == {i \in 1..Len(q) : \/ q[i].k \in RunKinds /\ q[i].n = n
                                   \/ q[i].own.n = n}
           W == {w \in working : w.n = n}
<1>1. \A i \in 1..Len(q) : q[i] \in SeqRange(q) /\ Fine(q[i])
    BY DEF SeqRange, RunsInv, PlainOK
<1>2. n # 0 /\ (n \in Taken <=> n \in Flying)
    BY WorkflowAssumption DEF Taken
<1>3. S = {i \in 1..Len(q) : Slotted(q[i]) /\ Slot(q[i]) = n}
    <2>1. \A i \in 1..Len(q) :
            (q[i].k \in RunKinds /\ q[i].n = n) \/ q[i].own.n = n <=> Slotted(q[i]) /\ Slot(q[i]) = n
        BY <1>1, <1>2 DEF Fine, Slotted, Slot, SlotKinds, Reruns, RunKinds
    <2> QED
        BY <2>1
<1>4. Held(q, working, Taken)
    BY DEF RunsInv, HeldOK
<1>5. CASE n \in Flying
    <2>1. CASE \E i \in 1..Len(q) : Slotted(q[i]) /\ Slot(q[i]) = n
        <3>1. PICK i \in 1..Len(q) : Slotted(q[i]) /\ Slot(q[i]) = n
            BY <2>1
        <3>2. S = {i} /\ W = {}
            BY <1>3, <1>4, <3>1 DEF Held
        <3> HIDE DEF S, W
        <3>3. Cardinality(S) = 1 /\ Cardinality(W) = 0
            BY <3>2, FS_Singleton, FS_EmptySet
        <3>4. Executing(n) = Cardinality(S) + Cardinality(W)
            BY DEF Executing, S, W
        <3> QED
            BY <1>5, <3>3, <3>4
    <2>2. CASE \E w \in working : w.n = n
        <3>1. PICK w \in working : w.n = n
            BY <2>2
        <3>2. S = {} /\ W = {w}
            BY <1>3, <1>4, <3>1 DEF Held
        <3> HIDE DEF S, W
        <3>3. Cardinality(S) = 0 /\ Cardinality(W) = 1
            BY <3>2, FS_Singleton, FS_EmptySet
        <3>4. Executing(n) = Cardinality(S) + Cardinality(W)
            BY DEF Executing, S, W
        <3> QED
            BY <1>5, <3>3, <3>4
    <2> QED
        BY <1>2, <1>4, <1>5, <2>1, <2>2 DEF Held
<1>6. CASE n \notin Flying
    <2>1. S = {} /\ W = {}
        BY <1>2, <1>3, <1>4, <1>6 DEF Held
    <2> HIDE DEF S, W
    <2>2. Cardinality(S) = 0 /\ Cardinality(W) = 0
        BY <2>1, FS_EmptySet
    <2>3. Executing(n) = Cardinality(S) + Cardinality(W)
        BY DEF Executing, S, W
    <2> QED
        BY <1>6, <2>2, <2>3
<1> QED
    BY <1>5, <1>6

\* The registry knows every run: each node has one run exactly when the
\* registry's runtime has it in flight, so that a cancel reaches it and no
\* pass starts it twice (startedNodes, executeRun's inFlight.set and finally).
THEOREM RegistryComplete ==
    ASSUME NoReruns
    PROVE  Spec /\ [][Orderly]_vars /\ [][LoopsInOrder]_vars => []RegistryKnowsRuns
<1>1. Inv /\ RunsInv => RegistryKnowsRuns
    <2> SUFFICES ASSUME Inv, RunsInv, NEW n \in Nodes
                 PROVE  Executing(n) = IF cur # 0 /\ n \in InFlightOf(rt[IF cur = 0 THEN 1 ELSE cur])
                                       THEN 1 ELSE 0
        BY DEF RegistryKnowsRuns
    <2>1. (cur # 0 /\ n \in InFlightOf(rt[IF cur = 0 THEN 1 ELSE cur])) <=> n \in Flying
        BY DEF Flying
    <2> QED
        BY <2>1, ExecutingIs
<1> QED
    BY <1>1, RunsAlways, InvAlways, PTL

\* At most CONCURRENCY_CAP nodes run at once.
THEOREM CapKept ==
    ASSUME NoReruns
    PROVE  Spec /\ [][Orderly]_vars /\ [][LoopsInOrder]_vars => []CapRespected
<1>1. Inv /\ RunsInv => CapRespected
    <2> SUFFICES ASSUME Inv, RunsInv PROVE CapRespected
        OBVIOUS
    <2>1. {n \in Nodes : Executing(n) > 0} = Flying
        <3>1. Flying \subseteq Nodes
            BY DEF Flying, InFlightOf
        <3>2. \A n \in Nodes : Executing(n) > 0 <=> n \in Flying
            BY ExecutingIs
        <3> QED
            BY <3>1, <3>2
    <2>2. CASE cur = 0
        <3>1. Flying = {} /\ Cap \in Nat
            BY <2>2, EngineAssumption DEF Flying
        <3> QED
            BY <2>1, <3>1, FS_EmptySet DEF CapRespected
    <2>3. CASE cur # 0
        <3>1. Flying = InFlightOf(rt[cur]) /\ cur \in 1..Len(rt)
            BY <2>3, Types DEF Flying
        <3> QED
            BY <2>1, <3>1 DEF CapRespected, LoopOK, RunsInv
    <2> QED
        BY <2>2, <2>3
<1> QED
    BY <1>1, RunsAlways, InvAlways, PTL

\* Only a dispatch starts a run.
LEMMA StartIs ==
    ASSUME Inv, RunsInv, Forward, [Next]_vars, NEW n \in Nodes, StartsRun(n)
    PROVE  \E g \in 1..Len(rt) : Dispatch(g)
<1>1. disp[n] \in Nat /\ disp'[n] = disp[n] + 1
    BY DEF StartsRun, Inv, RestOK
<1>2. disp' # disp
    BY <1>1
<1>3. ~Crash
    BY <1>1 DEF Crash
<1>4. /\ \A g \in 1..Len(rt) : ~(Top(g) \/ CheckBudget(g) \/ Ready(g) \/ Settle(g) \/ Integrate(g) \/ Reported(g))
      /\ \A w \in working : ~(Gather(w) \/ Finish(w) \/ Release(w) \/ Overspend(w))
    BY <1>2 DEF Top, CheckBudget, Ready, Settle, Integrate, Reported, Gather, Finish, Release, Overspend
<1>5. ~Requests
    BY <1>2, NoRerun DEF Requests, Pause, Cancel, Delete, Resume, Approve
<1>6. ~Appended
    <2>1. ~(Kick \/ Suspend \/ Finalize \/ CancelFinalize \/ PhaseRunning \/ RunStarted \/ RunDone \/ PhaseDone)
        BY <1>2 DEF Kick, Suspend, Finalize, CancelFinalize, PhaseRunning, RunStarted, RunDone, PhaseDone
    <2>2. ~(BudgetPending \/ BudgetReported \/ DownstreamFailed \/ Escalate \/ ApproveRun \/ ApproveDone)
        BY <1>2 DEF BudgetPending, BudgetReported, DownstreamFailed, Escalate, ApproveRun, ApproveDone
    <2>3. ~(Tombstone \/ BootRunFailed \/ BootPending \/ BootPaused)
        BY <1>2 DEF Tombstone, BootRunFailed, BootPending, BootPaused
    <2> QED
        BY <2>1, <2>2, <2>3, NoRerun DEF Appended
<1>7. ~BootScan /\ ~UNCHANGED vars
    BY <1>2 DEF BootScan, vars
<1> QED
    BY <1>3, <1>4, <1>5, <1>6, <1>7 DEF Next, EngineStep, Idle, Sync, LoopIo, Turn

\* What holds of every start of a run.
LEMMA StartFacts ==
    ASSUME Inv, RunsInv, Forward, [Next]_vars, NEW n \in Nodes, StartsRun(n)
    PROVE  alive /\ go
<1>1. PICK g \in 1..Len(rt) : Dispatch(g)
    BY StartIs
<1> QED
    BY <1>1, DispatchIs DEF Starts, MayStart

\* After a pause, a cancel or a crash nothing starts until the user asks for
\* it (scheduleOnce returns early on failed or paused; resumeOnBoot pauses).
THEOREM ConsentNeeded ==
    ASSUME Forward
    PROVE  Spec /\ [][Orderly]_vars => NoRunWithoutConsent
<1>1. Inv /\ RunsInv /\ [Next]_vars => [\A n \in Nodes : StartsRun(n) => go]_vars
    BY StartFacts
<1> QED
    BY <1>1, ForwardRuns, InvAlways, PTL DEF Spec, NoRunWithoutConsent

\* A deleted task starts nothing (tasks.delete cancels before the tombstone).
THEOREM DeletedIsOver ==
    ASSUME Forward
    PROVE  Spec /\ [][Orderly]_vars => DeletedStartsNothing
<1>1. Inv /\ RunsInv /\ [Next]_vars => [\A n \in Nodes : StartsRun(n) => alive]_vars
    BY StartFacts
<1> QED
    BY <1>1, ForwardRuns, InvAlways, PTL DEF Spec, DeletedStartsNothing

=============================================================================
