-------------------------- MODULE MCPersistenceQueue ---------------------------
(***************************************************************************)
(* One session, with two flushes open at once, the timer's and a caller's, *)
(* or one.                                                                 *)
(***************************************************************************)
EXTENDS PersistenceQueue

CONSTANTS timer, caller

TwoFlushes == {timer, caller}
OneFlush == {timer}

=============================================================================
