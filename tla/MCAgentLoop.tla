---------------------------- MODULE MCAgentLoop ----------------------------
(* Model values and small data for TLC runs of AgentLoop. *)
EXTENDS AgentLoop

CONSTANTS k1, k2, bad, deep

MCKeys == {k1, k2, bad, deep}
MCBadKeys == {bad}
MCDeepKeys == {deep}

\* One call of an earlier turn with its result, as _recall replays it.
MCCarried ==
  {<<>>,
   <<[role |-> "assistant", calls |-> <<[key |-> k1, id |-> <<0, 1>>]>>],
     [role |-> "tool", key |-> k1, id |-> <<0, 1>>, kind |-> "run", same_as |-> NoId,
      ok |-> TRUE, size |-> 3, dropped |-> FALSE]>>}

\* A large success and a failure.
MCOutcomes == {[ok |-> TRUE, size |-> 3], [ok |-> FALSE, size |-> 1]}
=============================================================================
