------------------------------ MODULE Scheduler ------------------------------
(***************************************************************************)
(* The pure scheduling helpers of the task engine, tasks/scheduler.ts.     *)
(*                                                                         *)
(* A task runs a workflow: a DAG of nodes.  Nodes are numbered in the      *)
(* order of wf.nodes, and the numbering is topological: a saved workflow   *)
(* is acyclic (workflows/store.ts, assertValid), so such a numbering       *)
(* exists; the engine never depends on which one it is.                    *)
(***************************************************************************)
EXTENDS Naturals, FiniteSets

CONSTANTS
    Nodes,      \* the workflow's nodes
    Edges       \* its edges, pairs <<from, to>>

\* workflows/store.ts rejects a workflow whose edges name a missing node or
\* form a cycle.
ASSUME WorkflowAssumption ==
    /\ Nodes \subseteq Nat \ {0}
    /\ IsFiniteSet(Nodes)
    /\ Edges \subseteq {e \in Nodes \X Nodes : e[1] < e[2]}

\* "waiting_connection" is declared but never emitted (ADR 0010, deferred).
PhaseStatus == {"pending", "running", "waiting_approval", "completed", "failed"}

\* The loops over phases and nodes, in the order of their numbers.
Least(S) == CHOOSE x \in S : \A y \in S : x <= y

Upstream(n) == {m \in Nodes : <<m, n>> \in Edges}

\* A set is closed when it holds the successors of its members.
EdgeClosed(S) == \A e \in Edges : e[1] \in S => e[2] \in S

\* The nodes reachable from n over at least one edge: what the BFS of
\* downstreamOf visits (module DownstreamBfs, whose proofs show that it does).
Downstream(n) ==
    {m \in Nodes : \A S \in SUBSET Nodes :
        (EdgeClosed(S) /\ \A e \in Edges : e[1] = n => e[2] \in S) => m \in S}

\* A phase may run when it is pending and all its upstream is completed.
Runnable(ph) ==
    {n \in Nodes : ph[n] = "pending" /\ \A m \in Upstream(n) : ph[m] = "completed"}

SomePhase(ph, s) == \E n \in Nodes : ph[n] = s

\* The status of a task none of whose nodes is in flight; "none" is the
\* code's null, "there is work that could still run".
SettledStatus(ph) ==
    IF SomePhase(ph, "failed")                THEN "failed"
    ELSE IF Runnable(ph) # {}                 THEN "none"
    ELSE IF SomePhase(ph, "running")          THEN "none"
    ELSE IF SomePhase(ph, "waiting_approval") THEN "waiting_approval"
    ELSE IF SomePhase(ph, "pending")          THEN "failed"
    ELSE "completed"

=============================================================================
