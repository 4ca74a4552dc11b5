------------------------------ MODULE MCGitMutex -------------------------------
(***************************************************************************)
(* Four activities on one workspace.                                       *)
(***************************************************************************)
EXTENDS GitMutex

CONSTANTS node1, node2, gitUi, autoCommit

FourCallers == {node1, node2, gitUi, autoCommit}

=============================================================================
