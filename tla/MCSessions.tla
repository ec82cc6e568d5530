------------------------------ MODULE MCSessions ------------------------------
(* Sessions on one stream, small enough for TLC. *)
EXTENDS Sessions, TLC

CONSTANTS w1, w2, r1, c1

\* Ids are only compared: two workers, or two lines, are interchangeable.
Interchangeable == Permutations(Session \cap {w1, w2}) \cup Permutations(Line) \cup Permutations(Question)

RoleOf == [s \in Session |->
  IF s \in {w1, w2} THEN "worker" ELSE IF s = r1 THEN "reviewer" ELSE "lessons"]
===============================================================================
