----------------------------- MODULE TaskEngine ------------------------------
(***************************************************************************)
(* The task engine of the sidecar: tasks/engine.ts, with the parts of      *)
(* tasks/store.ts (event log, fold), tasks/node-runner.ts (one node run),  *)
(* tasks/worktree.ts (who works in which tree) and tasks/budget.ts (breach *)
(* flag) whose order matters to it.                                        *)
(*                                                                         *)
(* One task.  Everything durable goes through appendTaskEvent, which holds *)
(* a per-task FIFO lock while it appends and folds the event; the caller   *)
(* resumes when its append is done.  q is that FIFO: an entry is an        *)
(* activation of engine code together with the append it waits for.  One   *)
(* step takes the head, applies its event and runs the code after it up to *)
(* that code's next await, so requests, the model and the schedule loop    *)
(* interleave exactly where the program yields.                            *)
(***************************************************************************)
EXTENDS Scheduler, Integers, Sequences

CONSTANTS
    Approval,       \* nodes whose result waits for a human
    GateTarget,     \* per node: the node a failing verdict loops back to, 0 if not a gate
    GateMax,        \* per node: gate.maxIterations
    GateAuto,       \* gates that loop back on their own
    Cap,            \* CONCURRENCY_CAP
    MayFail,        \* nodes whose turn may fail by itself
    CommitsPerPhase,\* the task's runs commit, so they are kept apart (node-runner.ts)
    GitMayFail,     \* can a worktree or the list of branches be out of reach
    MayConflict,    \* can the merge of the worktree branches conflict
    MayOverspend,   \* can the task exceed its budget
    Ops,            \* the requests the user may send
    MaxOps,         \* bound: requests in a behaviour
    MaxCrashes      \* bound: crashes in a behaviour

OpNames == {"pause", "cancel", "resume", "approve", "rerun", "delete"}

\* What validateWorkflow demands of a gate: its target is a strict ancestor.
GatesCheckAncestors ==
    \A n \in Nodes : GateTarget[n] # 0 => n \in Downstream(GateTarget[n])

ASSUME EngineAssumption ==
    /\ Approval \subseteq Nodes
    /\ GateTarget \in [Nodes -> Nodes \cup {0}]
    /\ GatesCheckAncestors
    /\ GateMax \in [Nodes -> Nat]
    /\ GateAuto \subseteq Nodes
    /\ Cap \in Nat \ {0}
    /\ MayFail \subseteq Nodes
    /\ CommitsPerPhase \in BOOLEAN /\ GitMayFail \in BOOLEAN
    /\ MayConflict \in BOOLEAN /\ MayOverspend \in BOOLEAN
    /\ Ops \subseteq OpNames
    /\ MaxOps \in Nat /\ MaxCrashes \in Nat

VARIABLES
    phase,      \* node -> phase status           (folded from events.log)
    runs,       \* node -> its runs, oldest first (folded)
    tstatus,    \* task status                    (folded)
    alive,      \* FALSE once task.deleted is folded
    q,          \* the append lock's FIFO of activations
    working,    \* node runs outside the log: preparing, in the model, releasing
    rt,         \* the runtimes made since boot, with their schedule loops
    cur,        \* the registry's runtime for the task, 0 when it has none
    meter,      \* budget: "clear", "breached", "reported"
    aborted,    \* aborted controllers, <<node, token>>
    disp,       \* node -> tokens handed out since boot
    claimed,    \* the project's own tree is claimed (sharedClaims)
    unmerged,   \* nodes with results on a branch not merged back yet
    blind,      \* history: the last look at the branches could not list them
    booting,    \* resumeOnBoot has not scanned yet
    ops, crashes,   \* counters for the bounds
    go          \* history: the user wants the task to run

log  == <<phase, runs, tstatus, alive>>
tree == <<claimed, unmerged, blind>>
ctl  == <<booting, ops, crashes, go>>
vars == <<log, q, working, rt, cur, meter, aborted, disp, tree, ctl>>

RunStatus  == {"running", "waiting_approval", "completed", "superseded", "failed"}
TaskStatus == {"queued", "running", "waiting_approval", "paused", "completed", "failed"}
Verdicts   == {"none", "pass", "fail"}
Settled    == {"completed", "failed", "waiting_approval", "paused"}
LoopPc     == {"idle", "top", "integrate", "check", "report", "ready", "dispatch",
               "suspend", "finalize"}
SyncPc     == {"top", "check", "ready", "dispatch"}
ActKinds   ==
    {"kick", "run1", "run2", "setup", "llm", "done1", "done2", "release",
     "pend", "stop", "mdf", "esc", "rr1", "rr2", "rr3", "rr4", "rr5",
     "ap1", "ap2", "susp", "fin", "cfin", "b1", "b2", "b3", "del"}

Blank ==
    [k |-> "kick", n |-> 0, v |-> 0, t |-> 0, g |-> 0, auto |-> FALSE,
     out |-> "none", verdict |-> "none", ins |-> [m \in Nodes |-> 0],
     tree |-> "none", left |-> {}, i |-> 0, own |-> [n |-> 0, g |-> 0]]

NewRuntime ==
    [inFlight |-> [n \in Nodes |-> 0], failed |-> FALSE, paused |-> FALSE,
     rescan |-> FALSE, pc |-> "idle", sr |-> 0, todo |-> {}, room |-> 0]

SeqRange(s) == {s[i] : i \in 1..Len(s)}

\*** Reading the folded snapshot ***********************************************

Indices(R, n) == 1..Len(R[n])

HasRun(n, st) == {i \in Indices(runs, n) : runs[n][i].st = st}

\* The version of n's latest completed run: what gatherUpstream feeds downstream.
LatestDone(n) ==
    IF HasRun(n, "completed") = {} THEN 0
    ELSE runs[n][CHOOSE i \in HasRun(n, "completed") :
                    \A j \in HasRun(n, "completed") : j <= i].ver

\* Fault: the superseded runs are not counted.
VersionOfLiveRuns(n, v) ==
    v = 1 + Cardinality({i \in Indices(runs, n) : runs[n][i].st # "superseded"})

\* nextVersion: one more than the highest version among the runs of n.
IsNextVersion(n, v) ==
    /\ \A i \in Indices(runs, n) : runs[n][i].ver < v
    /\ v = 1 \/ \E i \in Indices(runs, n) : runs[n][i].ver = v - 1

\* How many runs of the target were dispatched by an auto loop-back.
GateIterations(n) ==
    Cardinality({i \in Indices(runs, GateTarget[n]) : runs[GateTarget[n]][i].auto})

\* Math.min(Math.max(1, maxIterations), MAX_GATE_ITERATIONS_CEILING)
GateCap(n) == IF GateMax[n] < 1 THEN 1 ELSE IF GateMax[n] > 10 THEN 10 ELSE GateMax[n]

\*** Folding events ************************************************************

SetTask(s)     == tstatus' = IF alive THEN s ELSE tstatus
SetPhase(n, s) == phase' = IF alive THEN [phase EXCEPT ![n] = s] ELSE phase

\* run.status goes to the FIRST run of that version (findRun).
RunsWith(n, v, s) ==
    IF ~alive THEN runs
    ELSE [runs EXCEPT ![n] =
            [i \in 1..Len(runs[n]) |->
                IF runs[n][i].ver = v /\ \A j \in 1..(i - 1) : runs[n][j].ver # v
                THEN [runs[n][i] EXCEPT !.st = s]
                ELSE runs[n][i]]]

\*** The runtime and its registry **********************************************

InFlightOf(r) == {n \in Nodes : r.inFlight[n] # 0}

\* ensureRuntime: the registry's runtime, a new one if it has none.
Ensured   == IF cur = 0 THEN Append(rt, NewRuntime) ELSE rt
EnsuredId == IF cur = 0 THEN Len(rt) + 1 ELSE cur

\* requestSchedule on the runtimes R with registry entry c.
Request(R, c) ==
    IF c = 0 THEN R
    ELSE [R EXCEPT ![c].rescan = TRUE,
                   ![c].pc = IF @ = "idle" THEN "top" ELSE @]

\* Fault: the controller is not deleted.
FinallyKeeps(R, n, g, c) == Request(R, c)

\* The finally of executeRun: the captured runtime forgets the node, whoever
\* now owns its entry, and the registry's runtime is asked to schedule.
Finally(R, n, g, c) == Request([R EXCEPT ![g].inFlight[n] = 0], c)

\* Fault: an "if" where the loop has its "while".
AfterOnlyOnce(R, g) ==
    [R EXCEPT ![g].pc = "idle", ![g].sr = 0, ![g].todo = {}, ![g].room = 0]

\* The while of runScheduleLoop, after one scheduleOnce.
AfterOnce(R, g) ==
    [R EXCEPT ![g].pc = IF R[g].rescan THEN "top" ELSE "idle",
              ![g].sr = 0, ![g].todo = {}, ![g].room = 0]

\* executeRun's synchronous part: claim the node, queue "phase running".
RunAct(n, v, auto) ==
    [Blank EXCEPT !.k = "run1", !.n = n, !.v = v, !.t = disp[n] + 1,
                  !.g = EnsuredId, !.auto = auto]
Claimed(R, n) == [R EXCEPT ![EnsuredId].inFlight[n] = disp[n] + 1]

\* releaseWorkspace does I/O only for a worktree; a run that holds the
\* project's tree goes on at once.
ReleasesAtOnce(w) == w.k = "release" /\ w.tree # "own"

\* Within a synchronous stretch of a schedule loop or of a run nothing else happens.
Yielded ==
    /\ \A g \in 1..Len(rt) : rt[g].pc \notin SyncPc
    /\ \A w \in working : ~ReleasesAtOnce(w)

At(k)   == q # <<>> /\ Head(q).k = k
Next1(a) == q' = Append(Tail(q), a)

\*** The schedule loop *********************************************************

\* Fault: merges without waiting for the drain point.
NeverMindInFlight(r) == ~r.failed

\* Nothing in flight: the moment to merge the worktree branches.
Drained(r) == InFlightOf(r) = {} /\ ~r.failed

\* Fault: the flag is not cleared.
NotCleared(g) == [rt EXCEPT ![g].sr = cur]

\* The loop clears the flag, then looks.
Cleared(g) == [rt EXCEPT ![g].rescan = FALSE, ![g].sr = cur]

\* scheduleOnce up to its first real await: the wave integration runs only
\* when nothing is in flight.
Top(g) ==
    /\ rt[g].pc = "top"
    /\ LET R == Cleared(g) IN
       rt' = IF cur = 0 \/ ~alive THEN AfterOnce(R, g)
             ELSE IF Drained(R[cur])
                  THEN [R EXCEPT ![g].pc = "integrate"]
                  ELSE [R EXCEPT ![g].pc = "check"]
    /\ UNCHANGED <<log, q, working, cur, meter, aborted, disp, tree, ctl>>

\* Fault: a merge conflict does not pause the task.
IntegrateRegardless(g) ==
    /\ rt[g].pc = "integrate"
    /\ unmerged' \in IF MayConflict THEN SUBSET unmerged ELSE {{}}
    /\ rt' = [rt EXCEPT ![g].pc = "check"]
    /\ blind' = FALSE
    /\ UNCHANGED <<log, q, working, cur, meter, aborted, disp, claimed, ctl>>

\* integrateBeforeNextWave returns: the branches are merged; or the first
\* conflict left some of them and pauses the task; or the branches could not be
\* listed, which looks like having none, and the pass goes on.
Integrate(g) ==
    /\ rt[g].pc = "integrate"
    /\ \/ /\ \E rest \in IF MayConflict THEN SUBSET unmerged ELSE {{}} :
               /\ unmerged' = rest
               /\ rt' = [rt EXCEPT ![rt[g].sr].paused = @ \/ rest # {}, ![g].pc = "check"]
          /\ blind' = FALSE
       \/ /\ GitMayFail /\ unmerged # {}
          /\ rt' = [rt EXCEPT ![g].pc = "check"]
          /\ blind' = TRUE /\ UNCHANGED unmerged
    /\ UNCHANGED <<log, q, working, cur, meter, aborted, disp, claimed, ctl>>

\* Fault: only new spending counts, the breach flag is not read.
NewOverBudget == {FALSE, MayOverspend}

\* checkTaskBudget: a breach stays until the next window; a turn's cost may add one.
OverBudget == {meter # "clear", meter # "clear" \/ MayOverspend}

\* stopIfOverBudget; the first to notice a breach also writes a budget event.
CheckBudget(g) ==
    /\ rt[g].pc = "check"
    /\ LET s == rt[g].sr IN
       IF rt[s].failed \/ rt[s].paused
       THEN rt' = [rt EXCEPT ![g].pc = "ready"] /\ UNCHANGED meter
       ELSE \E over \in OverBudget :
              /\ rt' = [rt EXCEPT ![s].paused = over,
                          ![g].pc = IF over /\ meter # "reported" THEN "report" ELSE "ready"]
              /\ meter' = IF over THEN "reported" ELSE meter
    /\ UNCHANGED <<log, q, working, cur, aborted, disp, tree, ctl>>

Reported(g) ==
    /\ rt[g].pc = "report"
    /\ rt' = [rt EXCEPT ![g].pc = "ready"]
    /\ UNCHANGED <<log, q, working, cur, meter, aborted, disp, tree, ctl>>

\* Fault: a paused task is scheduled.
StartableIfPaused(r) == IF r.failed THEN {} ELSE Runnable(phase) \ InFlightOf(r)

Startable(r) == IF r.failed \/ r.paused THEN {} ELSE Runnable(phase) \ InFlightOf(r)

\* Fault: the runs in flight are not counted.
FullCapacity(r) == Cap

\* A rerun starts its run past the cap, so in-flight may exceed it.
Capacity(r) ==
    LET busy == Cardinality(InFlightOf(r)) IN IF busy < Cap THEN Cap - busy ELSE 0

\* The nodes to start and the free capacity are fixed before the dispatch loop.
Ready(g) ==
    /\ rt[g].pc = "ready"
    /\ LET r == rt[rt[g].sr] IN
       rt' = [rt EXCEPT ![g].pc = "dispatch",
                        ![g].todo = Startable(r), ![g].room = Capacity(r)]
    /\ UNCHANGED <<log, q, working, cur, meter, aborted, disp, tree, ctl>>

Dispatch(g) ==
    /\ rt[g].pc = "dispatch" /\ rt[g].todo # {} /\ rt[g].room > 0
    /\ LET n == Least(rt[g].todo) IN
       \E v \in 1..(Len(runs[n]) + 1) :
         /\ IsNextVersion(n, v)
         /\ q' = Append(q, RunAct(n, v, FALSE))
         /\ rt' = [Claimed(Ensured, n) EXCEPT ![g].todo = @ \ {n}, ![g].room = @ - 1]
         /\ cur' = EnsuredId
         /\ disp' = [disp EXCEPT ![n] = @ + 1]
    /\ UNCHANGED <<log, working, meter, aborted, tree, ctl>>

\* The status finalize would emit; the registry may have changed hands.
FinalStatus ==
    IF cur # 0 /\ rt[IF cur = 0 THEN 1 ELSE cur].failed THEN "failed" ELSE SettledStatus(phase)

\* finalize returns early: there is work that could still run.
WorkLeft == FinalStatus = "none"

\* Nothing in flight and no rescan asked for: suspend, finalize or go round.
Settle(g) ==
    /\ rt[g].pc = "dispatch" /\ (rt[g].todo = {} \/ rt[g].room = 0)
    /\ LET r == rt[rt[g].sr] IN
       IF InFlightOf(r) # {} \/ r.rescan
       THEN rt' = AfterOnce(rt, g) /\ UNCHANGED q
       ELSE IF r.paused /\ ~r.failed
       THEN /\ rt' = [rt EXCEPT ![g].pc = "suspend"]
            /\ q' = Append(q, [Blank EXCEPT !.k = "susp", !.g = g])
       ELSE IF WorkLeft
       THEN rt' = AfterOnce(rt, g) /\ UNCHANGED q
       ELSE /\ rt' = [rt EXCEPT ![g].pc = "finalize"]
            /\ q' = Append(q, [Blank EXCEPT !.k = "fin", !.g = g, !.out = FinalStatus])
    /\ UNCHANGED <<log, working, cur, meter, aborted, disp, tree, ctl>>

Suspend ==
    /\ At("susp")
    /\ SetTask("paused")
    /\ q' = Tail(q) /\ rt' = AfterOnce(rt, Head(q).g)
    /\ UNCHANGED <<phase, runs, alive, working, cur, meter, aborted, disp, tree, ctl>>

\* A terminal status drops whatever runtime the registry holds by now.
Dropped(s) ==
    IF s \in {"completed", "failed"}
    THEN cur' = 0 /\ meter' = "clear"
    ELSE UNCHANGED <<cur, meter>>

Finalize ==
    /\ At("fin")
    /\ SetTask(Head(q).out) /\ Dropped(Head(q).out)
    /\ q' = Tail(q) /\ rt' = AfterOnce(rt, Head(q).g)
    /\ UNCHANGED <<phase, runs, alive, working, aborted, disp, tree, ctl>>

\* The finalize cancelTask starts on its own when nothing is in flight.
CancelFinalize ==
    /\ At("cfin")
    /\ SetTask(Head(q).out) /\ Dropped(Head(q).out)
    /\ q' = Tail(q)
    /\ UNCHANGED <<phase, runs, alive, working, rt, aborted, disp, tree, ctl>>

\* startTask, resumeTask and approvePhase end alike: task running, schedule.
Kick ==
    /\ At("kick")
    /\ SetTask("running")
    /\ q' = Tail(q) /\ rt' = Request(rt, cur)
    /\ UNCHANGED <<phase, runs, alive, working, cur, meter, aborted, disp, tree, ctl>>

\*** One node run (executeRun, runNode) ****************************************

PhaseRunning ==
    /\ At("run1")
    /\ SetPhase(Head(q).n, "running")
    /\ Next1([Head(q) EXCEPT !.k = "run2"])
    /\ UNCHANGED <<runs, tstatus, alive, working, rt, cur, meter, aborted, disp, tree, ctl>>

RunStarted ==
    /\ At("run2")
    /\ LET a == Head(q) IN
       /\ runs' = IF alive
                  THEN [runs EXCEPT ![a.n] =
                          Append(@, [ver |-> a.v, st |-> "running", auto |-> a.auto])]
                  ELSE runs
       /\ working' = working \cup {[a EXCEPT !.k = "setup"]}
       /\ q' = Tail(q)
    /\ UNCHANGED <<phase, tstatus, alive, rt, cur, meter, aborted, disp, tree, ctl>>

\* acquireWorkspace: the first run to come claims the project's own tree; one
\* that finds it claimed gets a worktree of its own or, when git cannot give it
\* one, shares the project's tree without a claim. Runs that commit nothing all
\* share it.
Workspace ==
    IF ~CommitsPerPhase THEN {"shared"}
    ELSE IF ~claimed THEN {"base"}
    ELSE IF GitMayFail THEN {"own", "shared"} ELSE {"own"}

\* The run gets its tree, reads the upstream artifacts and begins its turn.
Gather(w) ==
    /\ w.k = "setup"
    /\ \E t \in Workspace :
         /\ claimed' = (claimed \/ t = "base")
         /\ working' = (working \ {w}) \cup
              {[w EXCEPT !.k = "llm", !.tree = t,
                         !.ins = [m \in Nodes |-> IF m \in Upstream(w.n) THEN LatestDone(m) ELSE 0]]}
    /\ UNCHANGED <<log, q, rt, cur, meter, aborted, disp, unmerged, blind, ctl>>

\* The result a node run reports when its turn returns normally.
Outcome(n) == IF n \in Approval THEN "waiting_approval" ELSE "completed"

Finish(w) ==
    /\ \/ /\ w.k = "llm"
          /\ \E vd \in IF GateTarget[w.n] = 0 THEN {"none"} ELSE Verdicts :
               q' = Append(q, [w EXCEPT !.k = "done1", !.out = Outcome(w.n), !.verdict = vd])
       \/ /\ w.n \in MayFail \/ <<w.n, w.t>> \in aborted
          /\ w.k \in {"setup", "llm"}
          /\ q' = Append(q, [w EXCEPT !.k = "done1", !.out = "failed"])
    /\ working' = working \ {w}
    /\ aborted' = aborted \ {<<w.n, w.t>>}
    /\ UNCHANGED <<log, rt, cur, meter, disp, tree, ctl>>

\* A tool call of the turn exceeds the budget: the turn is aborted on the spot.
Overspend(w) ==
    /\ MayOverspend /\ w.k = "llm" /\ <<w.n, w.t>> \notin aborted
    /\ meter' = IF meter = "clear" THEN "breached" ELSE meter
    /\ aborted' = aborted \cup {<<w.n, w.t>>}
    /\ UNCHANGED <<log, q, working, rt, cur, disp, tree, ctl>>

RunDone ==
    /\ At("done1")
    /\ runs' = RunsWith(Head(q).n, Head(q).v, Head(q).out)
    /\ Next1([Head(q) EXCEPT !.k = "done2"])
    /\ UNCHANGED <<phase, tstatus, alive, working, rt, cur, meter, aborted, disp, tree, ctl>>

\* Fault: the scheduler is woken as soon as the phase is folded.
PhaseDoneWakes ==
    /\ At("done2")
    /\ SetPhase(Head(q).n, Head(q).out)
    /\ q' = Tail(q) /\ rt' = Request(rt, cur)
    /\ working' = working \cup {[Head(q) EXCEPT !.k = "release"]}
    /\ UNCHANGED <<runs, tstatus, alive, cur, meter, aborted, disp, tree, ctl>>

PhaseDone ==
    /\ At("done2")
    /\ SetPhase(Head(q).n, Head(q).out)
    /\ q' = Tail(q)
    /\ working' = working \cup {[Head(q) EXCEPT !.k = "release"]}
    /\ UNCHANGED <<runs, tstatus, alive, rt, cur, meter, aborted, disp, tree, ctl>>

\* The pending nodes of S, the ones markDownstreamFailed still has to mark.
StillPending(S) == IF alive THEN {n \in S : phase[n] = "pending"} ELSE {}

\* The act that starts rerunPhase(n); own is the gate run it is inlined in.
RerunAct(n, own) == [Blank EXCEPT !.k = "rr1", !.n = n, !.own = own]

\* Fault: one iteration too many.
LoopsBackOnceMore(w) ==
    w.verdict = "fail" /\ w.n \in GateAuto /\ GateIterations(w.n) <= GateCap(w.n)

LoopsBack(w) ==
    /\ w.verdict = "fail" /\ w.n \in GateAuto
    /\ GateIterations(w.n) < GateCap(w.n)

\* Fault: whoever leaves the project's tree gives the claim back.
ReleaseUnclaims(w) ==
    /\ claimed' = IF w.tree # "own" THEN FALSE ELSE claimed
    /\ \/ w.tree = "own" /\ unmerged' = unmerged \cup {w.n}
       \/ UNCHANGED unmerged
    /\ UNCHANGED blind

\* releaseWorkspace: the run that claimed the project's tree gives it back; a
\* worktree is removed, and its branch stays when it holds commits of its own.
ReleaseWorkspace(w) ==
    /\ claimed' = IF w.tree = "base" THEN FALSE ELSE claimed
    /\ \/ w.tree = "own" /\ unmerged' = unmerged \cup {w.n}
       \/ UNCHANGED unmerged
    /\ UNCHANGED blind

\* The workspace is released: what executeRun then does with the result.
Release(w) ==
    /\ w.k = "release"
    /\ working' = working \ {w}
    /\ ReleaseWorkspace(w)
    /\ \/ /\ w.out = "failed" /\ meter # "clear"
          /\ q' = Append(q, [w EXCEPT !.k = "pend", !.tree = "none"])
          /\ UNCHANGED <<rt, cur>>
       \/ /\ w.out = "failed" /\ meter = "clear"
          /\ LET R == [rt EXCEPT ![w.g].failed = TRUE]
                 S == StillPending(Downstream(w.n)) IN
             IF S = {}
             THEN rt' = Finally(R, w.n, w.g, cur) /\ UNCHANGED q
             ELSE rt' = R /\ q' = Append(q, [w EXCEPT !.k = "mdf", !.tree = "none", !.left = S, !.i = Least(S)])
          /\ UNCHANGED cur
       \/ /\ w.out # "failed" /\ GateTarget[w.n] # 0 /\ w.verdict # "pass" /\ alive
          /\ IF LoopsBack(w)
             THEN /\ q' = Append(q, RerunAct(GateTarget[w.n], [n |-> w.n, g |-> w.g]))
                  /\ rt' = [Ensured EXCEPT ![EnsuredId].failed = FALSE]
                  /\ cur' = EnsuredId
             ELSE /\ q' = Append(q, [w EXCEPT !.k = "esc", !.tree = "none"])
                  /\ UNCHANGED <<rt, cur>>
       \/ /\ w.out # "failed" /\ (GateTarget[w.n] = 0 \/ w.verdict = "pass" \/ ~alive)
          /\ rt' = Finally(rt, w.n, w.g, cur)
          /\ UNCHANGED <<q, cur>>
    /\ UNCHANGED <<log, meter, aborted, disp, ctl>>

\* The turn was cut by the budget: the phase goes back to pending, the task
\* will be paused.
BudgetPending ==
    /\ At("pend")
    /\ SetPhase(Head(q).n, "pending")
    /\ LET a == Head(q)
           R == [rt EXCEPT ![a.g].paused = TRUE] IN
       IF meter = "breached"
       THEN /\ meter' = "reported" /\ rt' = R
            /\ Next1([a EXCEPT !.k = "stop"])
       ELSE /\ rt' = Finally(R, a.n, a.g, cur)
            /\ q' = Tail(q) /\ UNCHANGED meter
    /\ UNCHANGED <<runs, tstatus, alive, working, cur, aborted, disp, tree, ctl>>

BudgetReported ==
    /\ At("stop")
    /\ q' = Tail(q) /\ rt' = Finally(rt, Head(q).n, Head(q).g, cur)
    /\ UNCHANGED <<log, working, cur, meter, aborted, disp, tree, ctl>>

\* One round of markDownstreamFailed.
DownstreamFailed ==
    /\ At("mdf")
    /\ LET a == Head(q)
           S == StillPending(a.left \ {a.i}) IN
       /\ SetPhase(a.i, "failed")
       /\ IF S = {}
          THEN q' = Tail(q) /\ rt' = Finally(rt, a.n, a.g, cur)
          ELSE Next1([a EXCEPT !.left = S, !.i = Least(S)]) /\ UNCHANGED rt
    /\ UNCHANGED <<runs, tstatus, alive, working, cur, meter, aborted, disp, tree, ctl>>

\* handleGateVerdict hands the gate to a human.
Escalate ==
    /\ At("esc")
    /\ SetPhase(Head(q).n, "waiting_approval")
    /\ q' = Tail(q) /\ rt' = Finally(rt, Head(q).n, Head(q).g, cur)
    /\ UNCHANGED <<runs, tstatus, alive, working, cur, meter, aborted, disp, tree, ctl>>

\*** rerunPhase ****************************************************************

\* The next append of the rerun a, over the run lists R: first supersede the
\* trigger's own results from index i0 on, then the downstream nodes in left.
Invalidate(a, R, left) ==
    IF left = {} THEN [a EXCEPT !.k = "rr5", !.left = {}, !.i = 0]
    ELSE LET d == Least(left)
             I == {i \in Indices(R, d) : i > a.i /\ R[d][i].st # "superseded"} IN
         IF I = {} THEN [a EXCEPT !.k = "rr4", !.left = left, !.i = 0]
         ELSE [a EXCEPT !.k = "rr3", !.left = left, !.i = Least(I)]

SupersedeOwn(a, R) ==
    LET I == {i \in Indices(R, a.n) : i > a.i /\ R[a.n][i].st \in {"completed", "waiting_approval"}} IN
    IF I = {} THEN Invalidate([a EXCEPT !.i = 0], R, Downstream(a.n))
    ELSE [a EXCEPT !.k = "rr2", !.i = Least(I)]

RerunRunning ==
    /\ At("rr1")
    /\ SetPhase(Head(q).n, "running")
    /\ Next1(SupersedeOwn(Head(q), runs))
    /\ UNCHANGED <<runs, tstatus, alive, working, rt, cur, meter, aborted, disp, tree, ctl>>

RerunSupersede ==
    /\ At("rr2")
    /\ LET a == Head(q)
           R == RunsWith(a.n, runs[a.n][a.i].ver, "superseded") IN
       /\ runs' = R
       /\ Next1(SupersedeOwn(a, R))
    /\ UNCHANGED <<phase, tstatus, alive, working, rt, cur, meter, aborted, disp, tree, ctl>>

RerunInvalidate ==
    /\ At("rr3")
    /\ LET a == Head(q)
           d == Least(a.left)
           R == RunsWith(d, runs[d][a.i].ver, "superseded") IN
       /\ runs' = R
       /\ Next1(Invalidate(a, R, a.left))
    /\ UNCHANGED <<phase, tstatus, alive, working, rt, cur, meter, aborted, disp, tree, ctl>>

RerunPending ==
    /\ At("rr4")
    /\ LET a == Head(q)
           d == Least(a.left) IN
       /\ SetPhase(d, "pending")
       /\ Next1(Invalidate(a, runs, a.left \ {d}))
    /\ UNCHANGED <<runs, tstatus, alive, working, rt, cur, meter, aborted, disp, tree, ctl>>

\* Task running, then the trigger is started directly, whatever else runs.
\* Inside a gate run this also ends the gate run.
RerunExecute ==
    /\ At("rr5")
    /\ SetTask("running")
    /\ LET a == Head(q)
           R == Claimed(Ensured, a.n) IN
       \E v \in 1..(Len(runs[a.n]) + 1) :
         /\ IsNextVersion(a.n, v)
         /\ Next1(RunAct(a.n, v, a.own.n # 0))
         /\ rt' = IF a.own.n = 0 THEN R ELSE Finally(R, a.own.n, a.own.g, EnsuredId)
         /\ cur' = EnsuredId
         /\ disp' = [disp EXCEPT ![a.n] = @ + 1]
    /\ UNCHANGED <<phase, runs, alive, working, meter, aborted, tree, ctl>>

\*** approvePhase, task.deleted ************************************************

\* Fault: the phase is approved, its run is not.
ApprovePhaseOnly ==
    /\ At("ap1")
    /\ Next1([Head(q) EXCEPT !.k = "ap2"])
    /\ UNCHANGED <<log, working, rt, cur, meter, aborted, disp, tree, ctl>>

ApproveRun ==
    /\ At("ap1")
    /\ runs' = RunsWith(Head(q).n, Head(q).v, "completed")
    /\ Next1([Head(q) EXCEPT !.k = "ap2"])
    /\ UNCHANGED <<phase, tstatus, alive, working, rt, cur, meter, aborted, disp, tree, ctl>>

ApproveDone ==
    /\ At("ap2")
    /\ SetPhase(Head(q).n, "completed")
    /\ rt' = Ensured /\ cur' = EnsuredId
    /\ Next1(Blank)
    /\ UNCHANGED <<runs, tstatus, alive, working, meter, aborted, disp, tree, ctl>>

Tombstone ==
    /\ At("del")
    /\ alive' = FALSE /\ q' = Tail(q)
    /\ UNCHANGED <<phase, runs, tstatus, working, rt, cur, meter, aborted, disp, tree, ctl>>

\*** Crash and resumeOnBoot ****************************************************

\* Fault: completed phases are reset as well.
BootResetsAll(ph, m) ==
    LET S == {n \in Nodes : n > m /\ ph[n] # "pending"} IN
    [Blank EXCEPT !.k = IF S = {} THEN "b3" ELSE "b2", !.n = IF S = {} THEN 0 ELSE Least(S)]

\* The next append of the boot pass, over phases ph, after node m.
BootNext(ph, m) ==
    LET S == {n \in Nodes : n > m /\ ph[n] = "running"} IN
    IF S = {} THEN [Blank EXCEPT !.k = "b3"]
    ELSE LET n == Least(S)
             l == Len(runs[n]) IN
         IF l > 0 /\ runs[n][IF l > 0 THEN l ELSE 1].st = "running"
         THEN [Blank EXCEPT !.k = "b1", !.n = n, !.v = runs[n][l].ver]
         ELSE [Blank EXCEPT !.k = "b2", !.n = n]

Interrupted == alive /\ tstatus \notin Settled

\* Worktrees swept, logs folded; settled tasks are left as they are.
BootScan ==
    /\ booting /\ booting' = FALSE
    /\ q' = IF Interrupted THEN Append(q, BootNext(phase, 0)) ELSE q
    /\ UNCHANGED <<log, working, rt, cur, meter, aborted, disp, tree, ops, crashes, go>>

BootRunFailed ==
    /\ At("b1")
    /\ runs' = RunsWith(Head(q).n, Head(q).v, "failed")
    /\ Next1([Head(q) EXCEPT !.k = "b2"])
    /\ UNCHANGED <<phase, tstatus, alive, working, rt, cur, meter, aborted, disp, tree, ctl>>

BootPending ==
    /\ At("b2")
    /\ SetPhase(Head(q).n, "pending")
    /\ Next1(BootNext(phase, Head(q).n))
    /\ UNCHANGED <<runs, tstatus, alive, working, rt, cur, meter, aborted, disp, tree, ctl>>

\* Fault: the boot pass resumes what was running.
BootResumes ==
    /\ At("b3")
    /\ rt' = Ensured /\ cur' = EnsuredId
    /\ Next1(Blank)
    /\ UNCHANGED <<log, working, meter, aborted, disp, tree, ctl>>

BootPaused ==
    /\ At("b3")
    /\ SetTask("paused") /\ q' = Tail(q)
    /\ UNCHANGED <<phase, runs, alive, working, rt, cur, meter, aborted, disp, tree, ctl>>

\* The sweep at boot keeps the branch of a run that died with the sidecar.
Crash ==
    /\ crashes < MaxCrashes /\ crashes' = crashes + 1
    /\ q' = <<>> /\ working' = {} /\ rt' = <<>> /\ cur' = 0
    /\ meter' = "clear" /\ aborted' = {} /\ disp' = [n \in Nodes |-> 0]
    /\ claimed' = FALSE /\ blind' = FALSE
    /\ unmerged' = unmerged \cup {a.n : a \in {b \in working \cup SeqRange(q) : b.tree = "own"}}
    /\ booting' = TRUE /\ go' = FALSE
    /\ UNCHANGED <<log, ops>>

\*** Requests ******************************************************************

Request1(op) == op \in Ops /\ ops < MaxOps /\ ops' = ops + 1 /\ UNCHANGED <<booting, crashes>>

Pause ==
    /\ Request1("pause") /\ go' = FALSE
    /\ cur # 0 /\ ~rt[cur].paused
    /\ rt' = Request([rt EXCEPT ![cur].paused = TRUE], cur)
    /\ UNCHANGED <<log, q, working, cur, meter, aborted, disp, tree>>

\* Fault: cancel aborts but does not stop the scheduler.
CancelAbortsOnly ==
    /\ cur # 0
    /\ aborted' = aborted \cup {<<n, rt[cur].inFlight[n]>> : n \in InFlightOf(rt[cur])}
    /\ UNCHANGED rt

\* cancelTask: abort what is in flight; with nothing in flight, finalize now.
CancelNow ==
    /\ cur # 0
    /\ aborted' = aborted \cup {<<n, rt[cur].inFlight[n]>> : n \in InFlightOf(rt[cur])}
    /\ rt' = [rt EXCEPT ![cur].failed = TRUE]

\* Fault: a cancel with nothing in flight finalizes nothing.
CancelLeavesRest == <<>>

CancelRest ==
    IF InFlightOf(rt[cur]) = {}
    THEN <<[Blank EXCEPT !.k = "cfin", !.out = "failed"]>> ELSE <<>>

Cancel ==
    /\ Request1("cancel") /\ go' = FALSE
    /\ CancelNow
    /\ q' = IF alive THEN q \o CancelRest ELSE q
    /\ UNCHANGED <<log, working, cur, meter, disp, tree>>

\* tasks.delete: cancel, then the tombstone; cancel's own finalize loads the
\* task first and so appends behind it.
Delete ==
    /\ Request1("delete") /\ go' = FALSE
    /\ alive
    /\ IF cur # 0
       THEN /\ CancelNow
            /\ q' = q \o <<[Blank EXCEPT !.k = "del"]>> \o CancelRest
       ELSE UNCHANGED <<aborted, rt>> /\ q' = Append(q, [Blank EXCEPT !.k = "del"])
    /\ UNCHANGED <<log, working, cur, meter, disp, tree>>

Resume ==
    /\ Request1("resume") /\ go' = TRUE
    /\ alive /\ tstatus = "paused"
    /\ rt' = [Ensured EXCEPT ![EnsuredId].paused = FALSE, ![EnsuredId].failed = FALSE]
    /\ cur' = EnsuredId
    /\ meter' = "clear"
    /\ q' = Append(q, Blank)
    /\ UNCHANGED <<log, working, aborted, disp, tree>>

Approve(n) ==
    /\ Request1("approve") /\ go' = TRUE
    /\ alive /\ phase[n] = "waiting_approval"
    /\ q' = Append(q, [Blank EXCEPT !.k = "ap1", !.n = n,
                         !.v = IF runs[n] = <<>> THEN 1 ELSE runs[n][Len(runs[n])].ver])
    /\ UNCHANGED <<log, working, rt, cur, meter, aborted, disp, tree>>

\* rerunPhase has no guard of its own on the phase; the condition is the one
\* under which the task view offers the rerun.
Rerun(n) ==
    /\ Request1("rerun") /\ go' = TRUE
    /\ alive /\ runs[n] # <<>>
    /\ phase[n] \in {"completed", "waiting_approval"} \/ tstatus = "completed"
    /\ rt' = [Ensured EXCEPT ![EnsuredId].failed = FALSE]
    /\ cur' = EnsuredId
    /\ q' = Append(q, RerunAct(n, [n |-> 0, g |-> 0]))
    /\ UNCHANGED <<log, working, meter, aborted, disp, tree>>

\*** Specification *************************************************************

\* tasks.create: the task is on disk, startTask has made its runtime.
Init ==
    /\ phase = [n \in Nodes |-> "pending"] /\ runs = [n \in Nodes |-> <<>>]
    /\ tstatus = "queued" /\ alive = TRUE
    /\ q = <<Blank>> /\ working = {}
    /\ rt = <<NewRuntime>> /\ cur = 1
    /\ meter = "clear" /\ aborted = {} /\ disp = [n \in Nodes |-> 0]
    /\ claimed = FALSE /\ unmerged = {} /\ blind = FALSE
    /\ booting = FALSE /\ ops = 0 /\ crashes = 0 /\ go = TRUE

Sync ==
    \/ \E g \in 1..Len(rt) :
          Top(g) \/ CheckBudget(g) \/ Ready(g) \/ Dispatch(g) \/ Settle(g)
    \/ \E w \in working : ReleasesAtOnce(w) /\ Release(w)

LoopIo == \E g \in 1..Len(rt) : Integrate(g) \/ Reported(g)

Turn == \E w \in working : Gather(w) \/ Finish(w) \/ Release(w)

Appended ==
    \/ Kick \/ Suspend \/ Finalize \/ CancelFinalize
    \/ PhaseRunning \/ RunStarted \/ RunDone \/ PhaseDone
    \/ BudgetPending \/ BudgetReported \/ DownstreamFailed \/ Escalate
    \/ RerunRunning \/ RerunSupersede \/ RerunInvalidate \/ RerunPending \/ RerunExecute
    \/ ApproveRun \/ ApproveDone \/ Tombstone
    \/ BootRunFailed \/ BootPending \/ BootPaused

Requests ==
    \/ Pause \/ Cancel \/ Delete \/ Resume
    \/ \E n \in Nodes : Approve(n) \/ Rerun(n)

\* Nothing left to do until the user acts.
Quiescent ==
    /\ q = <<>> /\ working = {} /\ ~booting
    /\ \A g \in 1..Len(rt) : rt[g].pc = "idle"

Idle == Quiescent /\ UNCHANGED vars

EngineStep == Sync \/ (Yielded /\ (LoopIo \/ Turn \/ Appended \/ BootScan))

Next ==
    \/ EngineStep
    \/ Yielded /\ (Requests \/ Crash \/ \E w \in working : Overspend(w))
    \/ Idle

Spec == Init /\ [][Next]_vars

\* The event loop runs every continuation that is ready and every turn ends;
\* nothing is assumed of users, crashes or spending.
FairSpec == Spec /\ WF_vars(EngineStep)

=============================================================================
