----------------------------- MODULE MCStreamPage ------------------------------
(* Streams are interchangeable. *)
EXTENDS StreamPage, TLC

CONSTANTS a, b

Interchangeable == Permutations(Stream)
===============================================================================
