----------------------------- MODULE MCEventStore ------------------------------
(***************************************************************************)
(* A few events of one task beside two loads.                              *)
(***************************************************************************)
EXTENDS EventStore

CONSTANTS e1, e2, e3, l1, l2

ThreeEvents == {e1, e2, e3}
TwoLoaders == {l1, l2}

=============================================================================
