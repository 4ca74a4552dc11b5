---------------------------- MODULE MCTaskEngine ------------------------------
(***************************************************************************)
(* Workflows for TLC's instances of TaskEngine.                            *)
(***************************************************************************)
EXTENDS TaskEngineProperties

\* Two independent nodes and a node that joins them.
JoinEdges == {<<1, 3>>, <<2, 3>>}

\* Two nodes a third joins, and one on its own: three may run at once.
WideEdges == {<<1, 3>>, <<2, 3>>}

\* A chain of three.
ChainEdges == {<<1, 2>>, <<2, 3>>}

\* One node feeding two branches, the second of which goes on.
ForkEdges == {<<1, 2>>, <<1, 3>>, <<3, 4>>}

\* A fork whose branches meet again.
DiamondEdges == {<<1, 2>>, <<1, 3>>, <<2, 4>>, <<3, 4>>}

NoGate == [n \in Nodes |-> 0]

\* Node 2 checks the work of node 1.
GateAtTwo == [n \in Nodes |-> IF n = 2 THEN 1 ELSE 0]

\* Nodes 2 and 3 both check the work of node 1.
GatesAtTwoAndThree == [n \in Nodes |-> IF n \in {2, 3} THEN 1 ELSE 0]

One == [n \in Nodes |-> 1]
Two == [n \in Nodes |-> 2]

=============================================================================
