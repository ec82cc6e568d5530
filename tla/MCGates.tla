-------------------------------- MODULE MCGates --------------------------------
(* Gates with a few agents, hook calls and ticks. *)
EXTENDS Gates, TLC

Interchangeable == Permutations(Session) \cup Permutations(Hook) \cup Permutations(Tick) \cup Permutations(Text)
===============================================================================
