---------------------------- MODULE DownstreamBfs ----------------------------
(***************************************************************************)
(* The search of downstreamOf (tasks/scheduler.ts), which rerun uses to    *)
(* invalidate and failure to propagate.  One iteration of its while loop   *)
(* is one step.  The queue is a set: its order decides only the order of   *)
(* the answer, and the second copy of an id is shifted and skipped.        *)
(***************************************************************************)
EXTENDS Scheduler

VARIABLES
    start,      \* startId, the node whose downstream is asked for
    queue,      \* ids still to look at
    seen        \* ids found so far

vars == <<start, queue, seen>>

Successors(n) == {m \in Nodes : <<n, m>> \in Edges}

Init ==
    /\ start \in Nodes
    /\ queue = Successors(start)
    /\ seen = {}

\* An id not seen before is recorded, its unseen successors are queued.
Visit(id) ==
    /\ seen' = seen \cup {id}
    /\ queue' = (queue \ {id}) \cup (Successors(id) \ (seen \cup {id}))
    /\ UNCHANGED start

Returned == queue = {}

Next ==
    \/ \E id \in queue : Visit(id)
    \/ Returned /\ UNCHANGED vars

Spec == Init /\ [][Next]_vars

-----------------------------------------------------------------------------

TypeOK == start \in Nodes /\ queue \subseteq Nodes /\ seen \subseteq Nodes

\* When downstreamOf returns, its answer is exactly the set of nodes reachable
\* from the start over at least one edge.
ReturnsDownstream == Returned => seen = Downstream(start)

\* The search is sound at every moment and has not lost track of anything: all
\* it found is downstream, and a successor of what it found is found or queued.
SearchInv ==
    /\ TypeOK
    /\ seen \cup queue \subseteq Downstream(start)
    /\ \A n \in seen \cup {start} : Successors(n) \subseteq seen \cup queue

=============================================================================
