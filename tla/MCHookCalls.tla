------------------------------ MODULE MCHookCalls ------------------------------
(* A session of either vendor with two calls and three notes. *)
EXTENDS HookCalls, TLC

CONSTANTS c1, c2

\* The guarded calls are retries of one command, the others alike.
Interchangeable == Permutations(Guarded) \cup Permutations(Call \ Guarded)
===============================================================================
