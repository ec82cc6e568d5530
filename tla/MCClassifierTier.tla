---------------------------- MODULE MCClassifierTier ----------------------------
(* Two rules, of which the second is critical; one hook call and one land. *)
EXTENDS ClassifierTier

CONSTANTS h, l
===============================================================================
