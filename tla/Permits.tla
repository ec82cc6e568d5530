-------------------------------- MODULE Permits ---------------------------------
(***************************************************************************)
(* What gates promise a routed call, without records, inboxes, clocks or   *)
(* the order in which a hook looks things up: a call that is stopped is    *)
(* asked about, the ask is answered, and a yes lets that call of that      *)
(* agent through once.  Where someone may answer again what was answered,  *)
(* a new answer opens the gate anew, and a call that has read a yes may    *)
(* still use it.  Gates implements it.                                     *)
(***************************************************************************)
CONSTANTS Gate, Attempt, Callable, Nothing, Unopened

VARIABLES
  asked,    \* the call each gate is about
  answer,   \* "none", "pending", "approve" or "deny"
  used,     \* whether the answer has let a call through
  doing,    \* the call each attempt is about, or Nothing
  pass,     \* the gate that lets an attempt through, or Unopened
  again     \* whether what was answered may be answered again

Init ==
  /\ asked = [i \in Gate |-> Nothing] /\ answer = [i \in Gate |-> "none"]
  /\ used = [i \in Gate |-> FALSE] /\ again \in BOOLEAN
  /\ doing = [a \in Attempt |-> Nothing] /\ pass = [a \in Attempt |-> Unopened]

gates == <<asked, answer, used>>
attempts == <<doing, pass>>

\* An attempt at a call begins; attempts end, one by one or all together.
Try(a, what) ==
  /\ doing[a] = Nothing
  /\ doing' = [doing EXCEPT ![a] = what] /\ pass' = [pass EXCEPT ![a] = Unopened]

End(some) ==
  /\ doing' = [a \in Attempt |-> IF a \in some THEN Nothing ELSE doing[a]]
  /\ pass' = [a \in Attempt |-> IF a \in some THEN Unopened ELSE pass[a]]

\* An attempt is asked about, with a gate of its own.
Ask(i, a) ==
  /\ answer[i] = "none" /\ doing[a] # Nothing
  /\ asked' = [asked EXCEPT ![i] = doing[a]] /\ answer' = [answer EXCEPT ![i] = "pending"]
  /\ UNCHANGED used

Answer(i, d) ==
  /\ answer[i] = "pending"
  /\ answer' = [answer EXCEPT ![i] = d]
  /\ UNCHANGED <<asked, used>>

AnswerAgain(i, d) ==
  /\ again /\ answer[i] # "none"
  /\ answer' = [answer EXCEPT ![i] = d] /\ used' = [used EXCEPT ![i] = FALSE]
  /\ UNCHANGED asked

\* The one way through.
Let(a, i) ==
  /\ answer[i] = "approve" \/ (again /\ answer[i] = "deny")
  /\ ~used[i] /\ asked[i] = doing[a]
  /\ used' = [used EXCEPT ![i] = TRUE] /\ pass' = [pass EXCEPT ![a] = i]
  /\ UNCHANGED <<asked, answer, doing>>

Next ==
  /\ UNCHANGED again
  /\ \/ UNCHANGED gates /\ \/ \E a \in Attempt, what \in Callable : Try(a, what)
                           \/ \E a \in Attempt : End({a})
                           \/ End(Attempt)
     \/ UNCHANGED attempts /\ \E i \in Gate : \/ \E a \in Attempt : Ask(i, a)
                                              \/ \E d \in {"approve", "deny"} : Answer(i, d) \/ AnswerAgain(i, d)
     \/ \E a \in Attempt, i \in Gate : Let(a, i)

Spec == Init /\ [][Next]_<<asked, answer, used, doing, pass, again>>
===============================================================================
