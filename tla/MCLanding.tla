------------------------------- MODULE MCLanding -------------------------------
(* Landing with a few calls and commits. *)
EXTENDS Landing, TLC

CONSTANTS k1, k2

\* Calls are only compared, and so are gates, which are calls.
Interchangeable == Permutations(Call)

\* The worker's second commit does not merge with the operator's.
OneConflict == {<<k1, k2>>}
===============================================================================
