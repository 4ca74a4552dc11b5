------------------------- MODULE TaskEngineProperties -------------------------
(***************************************************************************)
(* What the task engine promises.  No single run checks all of it: some    *)
(* promises need requests the user does not send in that run, and some are *)
(* broken by the code (README, "Findings").                                *)
(***************************************************************************)
EXTENDS TaskEngine

RunRec == [ver : Nat, st : RunStatus, auto : BOOLEAN]

ActRec ==
    [k : ActKinds, n : Nodes \cup {0}, v : Nat, t : Nat, g : Nat, auto : BOOLEAN,
     out : {"none"} \cup RunStatus \cup TaskStatus, verdict : Verdicts,
     ins : [Nodes -> Nat], tree : {"none", "base", "own", "shared"}, left : SUBSET Nodes,
     i : Nat, own : [n : Nodes \cup {0}, g : Nat]]

TaskKinds == {"kick", "susp", "fin", "cfin", "b3", "del"}

\* The activations about the task as a whole name no node and hold no tree; a
\* run ends as its phase can, the task as finalize can.
Act ==
    {a \in ActRec :
        /\ a.n = 0 => a.k \in TaskKinds /\ a.tree = "none"
        /\ a.k \in {"done1", "done2"} => a.out \in {"completed", "waiting_approval", "failed"}
        /\ a.k \in {"fin", "cfin"} => a.out \in {"completed", "waiting_approval", "failed"}}

Runtime ==
    [inFlight : [Nodes -> Nat], failed : BOOLEAN, paused : BOOLEAN, rescan : BOOLEAN,
     pc : LoopPc, sr : Nat, todo : SUBSET Nodes, room : Nat]

LogOK ==
    /\ phase \in [Nodes -> PhaseStatus]
    /\ runs \in [Nodes -> Seq(RunRec)]
    /\ tstatus \in TaskStatus
    /\ alive \in BOOLEAN

ActsOK == q \in Seq(Act) /\ working \subseteq Act

RuntimesOK == rt \in Seq(Runtime) /\ cur \in 0..Len(rt)

RestOK ==
    /\ meter \in {"clear", "breached", "reported"}
    /\ aborted \subseteq Nodes \X Nat /\ disp \in [Nodes -> Nat]
    /\ claimed \in BOOLEAN /\ unmerged \subseteq Nodes /\ blind \in BOOLEAN
    /\ booting \in BOOLEAN /\ ops \in 0..MaxOps /\ crashes \in 0..MaxCrashes /\ go \in BOOLEAN

\* Every variable has its type.
TypeOK == LogOK /\ ActsOK /\ RuntimesOK /\ RestOK

\* No schedule request is lost: a runtime asked to rescan has a loop that will
\* see it (requestSchedule returns early when `scheduling` is set, and the
\* loop rereads `rescanRequested` before it clears `scheduling`).
NoLostWakeup == \A g \in 1..Len(rt) : rt[g].rescan => rt[g].pc # "idle"

\*** Runs and the registry *****************************************************

RunKinds == {"run1", "run2", "setup", "llm", "done1", "done2", "release",
             "pend", "stop", "mdf", "esc"}

\* The activations that are node runs, or gate runs inside the rerun they
\* started, counted with their multiplicity.
Executing(n) ==
    Cardinality({i \in 1..Len(q) : \/ q[i].k \in RunKinds /\ q[i].n = n
                                   \/ q[i].own.n = n})
    + Cardinality({w \in working : w.n = n})

\* The registry knows every run: a node has at most one run at a time, and it
\* has one exactly when the registry's runtime holds a controller for it - so
\* that cancel reaches it and the scheduler does not start it twice.
RegistryKnowsRuns ==
    \A n \in Nodes :
        Executing(n) = IF cur # 0 /\ n \in InFlightOf(rt[IF cur = 0 THEN 1 ELSE cur])
                       THEN 1 ELSE 0

\* At most Cap nodes run at once.
CapRespected == Cardinality({n \in Nodes : Executing(n) > 0}) <= Cap

\* A run that will count works from what its upstream stands for now: the
\* versions it read are still the latest completed ones.
FreshInputs ==
    LET Fresh(a) == \A m \in Upstream(a.n) : a.ins[m] # 0 /\ a.ins[m] = LatestDone(m) IN
    /\ \A w \in working : w.k = "llm" => Fresh(w)
    /\ \A i \in 1..Len(q) : q[i].k \in {"done1", "done2"} /\ q[i].out # "failed" => Fresh(q[i])

\* The run versions of a phase grow, so a version names one run.
VersionsIncrease ==
    \A n \in Nodes : \A i, j \in Indices(runs, n) : i < j => runs[n][i].ver < runs[n][j].ver

\* A superseded run stays superseded.
SupersededForGood ==
    [][\A n \in Nodes : \A i \in Indices(runs, n) :
         runs[n][i].st = "superseded" => runs'[n][i].st = "superseded"]_vars

\*** When a run may start ******************************************************

StartsRun(n) == disp'[n] = disp[n] + 1

\* After a pause, a cancel or a crash no node starts until the user asks for it.
NoRunWithoutConsent == [][\A n \in Nodes : StartsRun(n) => go]_vars

\* Gate m ended without a pass and the engine has not yet looped back or
\* handed it to a human.
Undecided(m) ==
    /\ GateTarget[m] # 0
    /\ \E a \in working \cup SeqRange(q) :
          \/ a.n = m /\ a.out = "completed" /\ a.verdict \in {"none", "fail"}
          \/ a.own.n = m

\* A gate that did not pass is acted upon before anything downstream starts.
VerdictFirst ==
    [][\A n \in Nodes : StartsRun(n) =>
         \A m \in Nodes : n \in Downstream(m) => ~Undecided(m)]_vars

\* After a budget breach nothing starts until the user resumes the task.
BudgetStops == [][\A n \in Nodes : StartsRun(n) => meter = "clear"]_vars

\* A gate's automatic loop-backs stay within its ceiling.
AutoLoopBounded ==
    \A n \in Nodes : GateTarget[n] # 0 => GateIterations(n) <= GateCap(n)

\* A deleted task starts nothing.
DeletedStartsNothing == [][\A n \in Nodes : StartsRun(n) => alive]_vars

\*** Trees *********************************************************************

\* Branches are merged into the project's tree only while no run works there.
MergeAlone == (\E g \in 1..Len(rt) : rt[g].pc = "integrate") => working = {}

\* The claim on the project's own tree has one holder at a time, only that run
\* gives it back, and it never outlives it - though runs git found no worktree
\* for come and go in the same tree, with releaseWorkspace called for each.
ClaimHasOneHolder ==
    Cardinality({w \in working \cup SeqRange(q) : w.tree = "base"}) = IF claimed THEN 1 ELSE 0

StartsFromRest(n) == StartsRun(n) /\ \A m \in Nodes : Executing(m) = 0

\* A wave that starts from rest sees every branch merged, unless git could not
\* even list them: a merge that left some of them behind starts nothing.
WaveSeesMergedTree == [][\A n \in Nodes : StartsFromRest(n) => unmerged = {} \/ blind]_vars

\* "Runs BEFORE the next wave is dispatched, so the downstream nodes see all of
\* their upstream's results" (engine.ts:292-295): from rest, at the least, a node
\* starts with its upstream's branches merged.
RestSeesUpstream == [][\A n \in Nodes : StartsFromRest(n) => Upstream(n) \cap unmerged = {}]_vars

\* A node starts on a tree that holds what its upstream produced.
UpstreamMerged == [][\A n \in Nodes : StartsRun(n) => Upstream(n) \cap unmerged = {}]_vars

\*** Where the task comes to rest **********************************************

\* When the engine has come to rest the log says so, and says where: no phase
\* is left running, the task's status is the one its phases justify, and a
\* runtime that failed or was cancelled has been finalized.
RestIsSettled ==
    Quiescent /\ alive =>
        /\ tstatus \in Settled
        /\ ~SomePhase(phase, "running")
        /\ cur # 0 => ~rt[IF cur = 0 THEN 1 ELSE cur].failed
        /\ tstatus = "completed" => \A n \in Nodes : phase[n] = "completed"
        /\ tstatus = "waiting_approval" => SomePhase(phase, "waiting_approval")

\* What is completed stays completed, through crashes, boots and resumes.
CompletedSurvives ==
    [][\A n \in Nodes : phase[n] = "completed" => phase'[n] = "completed"]_vars

\* A task that runs comes to rest.
Settles == tstatus \in {"queued", "running"} ~> (tstatus \in Settled \/ ~alive)

=============================================================================
