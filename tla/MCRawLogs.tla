------------------------------- MODULE MCRawLogs -------------------------------
(* Runs are interchangeable. *)
EXTENDS RawLogs, TLC

CONSTANTS r1, r2, r3

Interchangeable == Permutations(Run)
===============================================================================
