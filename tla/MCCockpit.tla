-------------------------------- MODULE MCCockpit --------------------------------
(* Cockpit with a few rules and streams. *)
EXTENDS Cockpit, TLC

AnyStream == Permutations(Stream)

MCOffer == {[tier |-> "guidance", examples |-> 0], [tier |-> "classifier", examples |-> 0]}
===============================================================================
