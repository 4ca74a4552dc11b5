----------------------------- MODULE MCSchedules --------------------------------
(***************************************************************************)
(* TLC's instances of Schedules.                                           *)
(***************************************************************************)
EXTENDS Schedules

CONSTANTS m1, e1, r1, r2

OneCall == {m1}
OneEditor == {e1}
TwoRuns == {r1, r2}
AllKinds == {"session", "command", "task"}

=============================================================================
