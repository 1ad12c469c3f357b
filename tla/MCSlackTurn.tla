---------------------------- MODULE MCSlackTurn ----------------------------
(* Model values for TLC runs of SlackTurn: two mentions of one thread. *)
EXTENDS SlackTurn

CONSTANTS m1, m2

MCMentions == {m1, m2}
=============================================================================
