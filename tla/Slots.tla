--------------------------------- MODULE Slots ---------------------------------
(***************************************************************************)
(* What attaching promises, without runners, turns or files: a stream has  *)
(* one slot per role, a session takes its role's slot when it is empty and *)
(* leaves it for good.  Sessions implements it on the stream record.       *)
(***************************************************************************)
CONSTANTS Kind, Holder, KindOf, Nobody

VARIABLES slot, used

Empty(k) == slot[k] = Nobody
Keep(k) == slot'[k] = slot[k]
Take(k) == Empty(k) /\ \E h \in Holder \ used : KindOf[h] = k /\ slot'[k] = h
Leave(k) == ~Empty(k) /\ slot'[k] = Nobody

Init == slot = [k \in Kind |-> Nobody] /\ used = {}

\* Slots change independently: one exit may free a slot and fill another.
Next ==
  /\ \A k \in Kind : Keep(k) \/ Take(k) \/ Leave(k)
  /\ used' = used \cup {h \in Holder : \E k \in Kind : slot'[k] = h}

Spec == Init /\ [][Next]_<<slot, used>>
===============================================================================
