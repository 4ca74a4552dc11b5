------------------------ MODULE DownstreamBfs_proofs --------------------------
(***************************************************************************)
(* downstreamOf returns the nodes reachable from the start, for every      *)
(* workflow.  SearchInv is inductive; at the end nothing is queued, so it  *)
(* says that the answer is closed under successors.                        *)
(***************************************************************************)
EXTENDS DownstreamBfs, TLAPS

\* What downstreamOf returns contains the direct successors of n and is closed
\* under successors: a failure, or a rerun, reaches everything behind n.
LEMMA DownstreamClosed ==
    ASSUME NEW n
    PROVE  /\ Downstream(n) \subseteq Nodes
           /\ EdgeClosed(Downstream(n))
           /\ \A e \in Edges : e[1] = n => e[2] \in Downstream(n)
<1>1. \A e \in Edges : e[2] \in Nodes
    BY WorkflowAssumption
<1> QED
    BY <1>1 DEF Downstream, EdgeClosed

\* SearchInv holds throughout the search.
THEOREM SearchCorrect == Spec => []SearchInv
<1>1. Init => SearchInv
    <2> SUFFICES ASSUME Init PROVE SearchInv
        OBVIOUS
    <2>1. Successors(start) \subseteq Downstream(start)
        BY DownstreamClosed DEF Successors
    <2> QED
        BY <2>1 DEF Init, SearchInv, TypeOK, Successors
<1>2. SearchInv /\ [Next]_vars => SearchInv'
    <2> SUFFICES ASSUME SearchInv, [Next]_vars
                 PROVE  SearchInv'
        OBVIOUS
    <2> USE DEF SearchInv, TypeOK
    <2>1. ASSUME NEW id \in queue, Visit(id)
          PROVE  SearchInv'
        <3>1. Successors(id) \subseteq Downstream(start)
            BY DownstreamClosed DEF EdgeClosed, Successors
        <3>2. Successors(id) \subseteq Nodes
            BY DEF Successors
        <3>3. \A n \in seen' \cup {start} : Successors(n) \subseteq seen' \cup queue'
            BY <2>1 DEF Visit
        <3> QED
            BY <2>1, <3>1, <3>2, <3>3 DEF Visit
    <2>2. CASE UNCHANGED vars
        BY <2>2 DEF vars
    <2> QED
        BY <2>1, <2>2 DEF Next
<1> QED
    BY <1>1, <1>2, PTL DEF Spec

\* What downstreamOf returns is Downstream, the set the engine's model uses.
THEOREM AnswerCorrect == Spec => []ReturnsDownstream
<1>1. SearchInv => ReturnsDownstream
    <2> SUFFICES ASSUME SearchInv, Returned
                 PROVE  seen = Downstream(start)
        BY DEF ReturnsDownstream
    <2>1. seen \subseteq Downstream(start)
        BY DEF SearchInv
    <2>2. EdgeClosed(seen) /\ \A e \in Edges : e[1] = start => e[2] \in seen
        <3>1. ASSUME NEW e \in Edges, e[1] \in seen \cup {start}
              PROVE  e[2] \in seen
            <4>1. e = <<e[1], e[2]>> /\ e[2] \in Nodes
                BY WorkflowAssumption
            <4> QED
                BY <3>1, <4>1 DEF SearchInv, Returned, Successors
        <3> QED
            BY <3>1 DEF EdgeClosed
    <2>3. seen \in SUBSET Nodes
        BY DEF SearchInv, TypeOK
    <2>4. Downstream(start) \subseteq seen
        BY <2>2, <2>3 DEF Downstream
    <2> QED
        BY <2>1, <2>4
<1> QED
    BY <1>1, SearchCorrect, PTL

=============================================================================
