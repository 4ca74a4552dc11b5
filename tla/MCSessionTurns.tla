---------------------------- MODULE MCSessionTurns -----------------------------
(***************************************************************************)
(* A turn on a runtime that waits for its calls, one on a runtime that     *)
(* does not, a compaction and a CLI.                                       *)
(***************************************************************************)
EXTENDS SessionTurns

CONSTANTS waits, leaves, compaction, cli, tool, ask

TwoTurns == {waits, leaves}
OneTurn == {leaves}
OneCompaction == {compaction}
OneCli == {cli}
TwoCalls == {tool, ask}
Whose == [r \in TwoCalls |-> IF r = tool THEN leaves ELSE waits]

=============================================================================
