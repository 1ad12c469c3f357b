---------------------------- MODULE MCThreadMemo ----------------------------
(* Model values and small data for TLC runs of ThreadMemo. *)
EXTENDS ThreadMemo, TLC

CONSTANTS a, b, c, t1, t2, t3

MCThreads == {a, b, c}
MCOneThread == {a}
MCTurns == {t1, t2, t3}
MCNoTurn == {}
MCSizes == {1, 3}

\* Threads and turns are interchangeable in every property that is checked.
MCSymmetry == Permutations(MCTurns) \cup Permutations(MCThreads)
=============================================================================
