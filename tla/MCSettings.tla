------------------------------ MODULE MCSettings ------------------------------
(* One repo, one screen and one picker on a stream of that repo: two vendors, one
   of which can be started and has a model built in. *)
EXTENDS Settings

OfRepo == [k \in Pick |-> CHOOSE r \in Repo : TRUE]
Defaults == [vendor |-> "claude", model |-> "opus", effort |-> "low"]
===============================================================================
