---------------------------- MODULE HookCalls_proofs ----------------------------
(* Proofs about HookCalls for any calls, notes, vendors and bounds: a guarded call
   runs only on a yes of its own, and no note is lost but with a caller.  Times out,
   errors, a daemon that dies and starts again are steps like any other. *)
EXTENDS HookCalls, ClassifierTier, FiniteSetTheorems, WellFoundedInduction, TLAPS

-------------------------------------------------------------------------------
(* The oldest note of a set. *)

\* Less-than on the naturals is well founded, so the oldest of some notes exists.
LEMMA OldestIs ==
  ASSUME NEW S, S \subseteq Nat, S # {}
  PROVE  Min(S) \in S /\ \A k \in S : Min(S) <= k
<1> DEFINE R == OpToRel(<, Nat)
<1>1. IsWellFoundedOn(R, Nat)
  BY NatLessThanWellFounded
<1>2. \A x, y \in Nat : y < x => <<y, x>> \in R
  BY DEF OpToRel
<1> HIDE DEF R
<1>3. PICK x \in S : \A y \in S : ~ (<<y, x>> \in R)
  BY <1>1, WFMin
<1>4. \A y \in S : x <= y
  <2> TAKE y \in S
  <2>1. x \in Nat /\ y \in Nat /\ ~ (y < x)
    BY <1>2, <1>3
  <2> QED BY <2>1
<1> QED BY <1>4 DEF Min

\* A context holds notes it was given, and the oldest of them.
LEMMA FittingHasOldest ==
  ASSUME HookCallsAssumption, NEW S, S \subseteq Note, S # {}
  PROVE  Fitting(S) \subseteq S /\ Min(S) \in Fitting(S)
<1>1. S \subseteq Nat
  BY DEF HookCallsAssumption
<1>2. Min(S) \in S /\ \A k \in S : Min(S) <= k
  BY <1>1, OldestIs
<1>3. {k \in S : k <= Min(S)} = {Min(S)}
  <2>1. \A k \in S : k <= Min(S) => k = Min(S)
    <3> TAKE k \in S
    <3>1. k \in Nat /\ Min(S) \in Nat /\ Min(S) <= k
      BY <1>1, <1>2
    <3> QED BY <3>1
  <2>2. Min(S) \in {k \in S : k <= Min(S)}
    BY <1>1, <1>2
  <2> QED BY <2>1, <2>2
<1>4. Cardinality({Min(S)}) = 1
  BY FS_Singleton
<1> QED BY <1>2, <1>3, <1>4 DEF Fitting, HookCallsAssumption

\* What is polled is notes; what is left to ack has an oldest note.
LEMMA Polled == Poll \subseteq Note
BY DEF Poll

-------------------------------------------------------------------------------
(* Type correctness. *)

LEMMA NextTodo ==
  ASSUME HookCallsAssumption, TypeOK, NEW c \in Call, todo[c] # {}
  PROVE  Min(todo[c]) \in Note /\ Min(todo[c]) \in todo[c] /\ Min(todo[c]) # NoNote
<1>1. todo[c] \subseteq Note /\ Note \subseteq Nat /\ NoNote \notin Note
  BY DEF TypeOK, HookCallsAssumption
<1> QED BY <1>1, OldestIs

LEMMA BoundsAreNat ==
  ASSUME HookCallsAssumption
  PROVE  MaxYes \in Nat /\ MaxDeaths \in Nat /\ Vendors \subseteq {"claude", "pi"}
BY DEF HookCallsAssumption

\* Every reachable state is well typed, however many notes and calls there are.
THEOREM TypeCorrect == Spec => []TypeOK
<1>1. Init => TypeOK
  <2> SUFFICES ASSUME Init PROVE TypeOK
    OBVIOUS
  <2>1. /\ file \in [Note -> SUBSET {"inbox", "done"}]
        /\ carries \in [Call -> SUBSET Note] /\ todo \in [Call -> SUBSET Note]
        /\ moving \in [Call -> Note \cup {NoNote}]
    BY DEF Init
  <2>2. /\ client \in [Call -> {"idle", "waiting", "ran", "blocked"}]
        /\ handler \in [Call -> {"none", "sent", "done"} \cup Busy]
        /\ verdict \in [Call -> {"none", "allow", "deny", "ask"}]
    BY DEF Init
  <2>3. deaths \in 0..MaxDeaths /\ yeses \in 0..MaxYes
    BY BoundsAreNat, HookCallsAssumption DEF Init
  <2> QED BY <2>1, <2>2, <2>3 DEF Init, TypeOK
<1>2. TypeOK /\ [Next]_vars => TypeOK'
  <2> SUFFICES ASSUME TypeOK, [Next]_vars PROVE TypeOK'
    OBVIOUS
  <2> USE DEF vars, session, daemon, inbox, caller, server, approval, pi
  <2>1. ASSUME NEW c \in Call, runHook(c) \/ ToolCallHandler(c) PROVE TypeOK'
    BY <2>1 DEF runHook, ToolCallHandler, Request, TypeOK
  <2>2. ASSUME NEW c \in Call, GiveUp(c) PROVE TypeOK'
    BY <2>2 DEF GiveUp, TypeOK
  <2>3. ASSUME NEW c \in Call, Decide(c) PROVE TypeOK'
    <3>1. handler' \in [Call -> {"none", "sent", "done"} \cup Busy]
      BY <2>3 DEF Decide, TypeOK, Busy
    <3>2. verdict' \in [Call -> {"none", "allow", "deny", "ask"}]
      BY <2>3 DEF Decide, TypeOK
    <3>3. carries' \in [Call -> SUBSET Note] /\ todo' \in [Call -> SUBSET Note]
      BY <2>3, Polled DEF Decide, TypeOK
    <3> QED BY <2>3, <3>1, <3>2, <3>3 DEF Decide, TypeOK
  <2>4. ASSUME NEW c \in Call, Route(c) PROVE TypeOK'
    BY <2>4 DEF Route, TypeOK, Busy
  <2>5. ASSUME NEW c \in Call, AskClassifier(c) PROVE TypeOK'
    BY <2>5 DEF AskClassifier, TypeOK, Busy
  <2>6. ASSUME NEW c \in Call, Ack(c) PROVE TypeOK'
    <3>1. Min(todo[c]) \in Note
      BY <2>6, NextTodo, HookCallsAssumption DEF Ack
    <3> QED BY <2>6, <3>1 DEF Ack, TypeOK
  <2>7. ASSUME NEW c \in Call, AckFails(c) PROVE TypeOK'
    BY <2>7 DEF AckFails, TypeOK
  <2>8. ASSUME NEW c \in Call, HandlerThrows(c) PROVE TypeOK'
    BY <2>8 DEF HandlerThrows, TypeOK
  <2>9. ASSUME NEW c \in Call, Answer(c) PROVE TypeOK'
    <3>1. Fitting(carries[c]) \subseteq Note
      BY DEF Fitting, TypeOK
    <3> QED BY <2>9, <3>1 DEF Answer, Receive, toolCallResult, TypeOK
  <2>10. ASSUME NEW n \in Note, AckForPi(n) \/ DeliverNote(n) PROVE TypeOK'
    BY <2>10 DEF AckForPi, DeliverNote, TypeOK
  <2>11. CASE BeforeAgentStart
    BY <2>11, Polled DEF BeforeAgentStart, formatInboxMessage, Fitting, TypeOK
  <2>12. CASE Heartbeat \/ BeatArrives \/ Unregister \/ DaemonStarts
    BY <2>12 DEF Heartbeat, BeatArrives, Unregister, DaemonStarts, TypeOK
  <2>13. CASE Exit
    BY <2>13 DEF Exit, TypeOK
  <2>14. CASE Approve \/ Deny
    <3>1. yeses' \in 0..MaxYes
      BY <2>14, BoundsAreNat, HookCallsAssumption DEF Approve, Deny, TypeOK
    <3> QED BY <2>14, <3>1 DEF Approve, Deny, TypeOK
  <2>15. CASE DaemonDies
    <3>1. deaths' \in 0..MaxDeaths
      BY <2>15, BoundsAreNat, HookCallsAssumption DEF DaemonDies, TypeOK
    <3> QED BY <2>15, <3>1 DEF DaemonDies, TypeOK
  <2>16. CASE UNCHANGED vars
    BY <2>16 DEF TypeOK
  <2> QED BY <2>1, <2>2, <2>3, <2>4, <2>5, <2>6, <2>7, <2>8, <2>9, <2>10, <2>11, <2>12, <2>13,
             <2>14, <2>15, <2>16 DEF Next
<1> QED BY <1>1, <1>2, PTL DEF Spec

-------------------------------------------------------------------------------
(* A yes of its own. *)

\* Past the route band, a guarded call has used a yes; and each yes was given.
Guard == \A c \in Guarded :
  handler[c] = "asking" \/ verdict[c] = "allow" \/ client[c] = "ran" => c \in spent
Counted ==
  /\ IsFiniteSet(spent)
  /\ Cardinality(spent) + (IF gate = "approved" THEN 1 ELSE 0) <= yeses

LEMMA GuardStep ==
  ASSUME HookCallsAssumption, TypeOK, Guard, [Next]_vars
  PROVE  Guard'
<1> USE DEF vars, session, daemon, inbox, caller, server, approval, pi
<1>0. Guarded \subseteq Call
  BY DEF HookCallsAssumption
<1>1. ASSUME UNCHANGED <<handler, verdict, client, spent>> PROVE Guard'
  BY <1>1 DEF Guard
\* A caller that is told no, and a handler that is no longer asking.
<1>2. ASSUME UNCHANGED <<verdict, spent>>,
             \A c \in Call : client'[c] = "ran" => client[c] = "ran",
             \A c \in Call : handler'[c] = "asking" => handler[c] = "asking"
      PROVE  Guard'
  BY <1>0, <1>2 DEF Guard
<1>3. ASSUME NEW c \in Call, runHook(c) \/ ToolCallHandler(c) PROVE Guard'
  BY <1>2, <1>3 DEF runHook, ToolCallHandler, Request, TypeOK
<1>4. ASSUME NEW c \in Call, GiveUp(c) \/ HandlerThrows(c) PROVE Guard'
  BY <1>2, <1>4 DEF GiveUp, HandlerThrows, TypeOK
<1>5. ASSUME NEW c \in Call, Decide(c) PROVE Guard'
  <2>1. UNCHANGED <<client, spent>>
    BY <1>5 DEF Decide
  <2>2. \A d \in Call \ {c} : handler'[d] = handler[d] /\ verdict'[d] = verdict[d]
    BY <1>5 DEF Decide, TypeOK
  <2>3. c \in Guarded => handler'[c] # "asking" /\ verdict'[c] # "allow"
    BY <1>5 DEF Decide, TypeOK
  <2> QED BY <1>0, <2>1, <2>2, <2>3 DEF Guard
<1>6. ASSUME NEW c \in Call, Route(c) PROVE Guard'
  <2>1. UNCHANGED client /\ spent \subseteq spent'
    BY <1>6 DEF Route
  <2>2. \A d \in Call \ {c} : handler'[d] = handler[d] /\ verdict'[d] = verdict[d]
    BY <1>6 DEF Route, TypeOK
  <2>3. c \in spent' \/ (handler'[c] # "asking" /\ verdict'[c] # "allow")
    BY <1>6 DEF Route, TypeOK
  <2> QED BY <1>0, <2>1, <2>2, <2>3 DEF Guard
<1>7. ASSUME NEW c \in Call, AskClassifier(c) PROVE Guard'
  <2>1. UNCHANGED <<client, spent>> /\ handler[c] = "asking"
    BY <1>7 DEF AskClassifier
  <2>2. \A d \in Call \ {c} : handler'[d] = handler[d] /\ verdict'[d] = verdict[d]
    BY <1>7 DEF AskClassifier, TypeOK
  <2> QED BY <1>0, <2>1, <2>2 DEF Guard
<1>8. ASSUME NEW c \in Call, Ack(c) \/ AckFails(c) PROVE Guard'
  BY <1>1, <1>8 DEF Ack, AckFails
<1>9. ASSUME NEW c \in Call, Answer(c) PROVE Guard'
  <2>1. UNCHANGED <<verdict, spent>>
    BY <1>9 DEF Answer
  <2>2. \A d \in Call : handler'[d] = "asking" => handler[d] = "asking"
    BY <1>9 DEF Answer, TypeOK
  <2>3. \A d \in Call : client'[d] = "ran" => client[d] = "ran" \/ verdict[d] = "allow"
    BY <1>9 DEF Answer, Receive, toolCallResult, TypeOK
  <2> QED BY <1>0, <2>1, <2>2, <2>3 DEF Guard
<1>10. ASSUME NEW n \in Note, AckForPi(n) \/ DeliverNote(n) PROVE Guard'
  BY <1>1, <1>10 DEF AckForPi, DeliverNote
<1>11. CASE BeforeAgentStart \/ Heartbeat \/ BeatArrives \/ Unregister \/ DaemonStarts \/ Approve \/ Deny
  BY <1>1, <1>11
  DEF BeforeAgentStart, Heartbeat, BeatArrives, Unregister, DaemonStarts, Approve, Deny
<1>12. CASE Exit \/ DaemonDies
  BY <1>2, <1>12 DEF Exit, DaemonDies, TypeOK
<1>13. CASE UNCHANGED vars
  BY <1>1, <1>13
<1> QED BY <1>3, <1>4, <1>5, <1>6, <1>7, <1>8, <1>9, <1>10, <1>11, <1>12, <1>13 DEF Next

LEMMA CountedStep ==
  ASSUME HookCallsAssumption, TypeOK, Counted, [Next]_vars
  PROVE  Counted'
<1> USE DEF vars, session, daemon, inbox, caller, server, approval, pi
<1>0. Cardinality(spent) \in Nat /\ yeses \in Nat
  BY FS_CardinalityType, HookCallsAssumption DEF Counted, TypeOK, HookCallsAssumption
<1>1. ASSUME NEW c \in Call, Route(c) PROVE Counted'
  <2>1. CASE gate = "approved"
    <3>1. gate' = "none" /\ spent' = spent \cup {c} /\ yeses' = yeses
      BY <1>1, <2>1 DEF Route
    <3>2. /\ IsFiniteSet(spent \cup {c})
          /\ Cardinality(spent \cup {c}) = IF c \in spent THEN Cardinality(spent) ELSE Cardinality(spent) + 1
      BY FS_AddElement DEF Counted
    <3> QED BY <1>0, <2>1, <3>1, <3>2 DEF Counted
  <2>2. CASE gate # "approved"
    <3>1. gate' # "approved" /\ spent' = spent /\ yeses' = yeses
      BY <1>1, <2>2 DEF Route
    <3> QED BY <2>2, <3>1 DEF Counted
  <2> QED BY <2>1, <2>2
<1>2. CASE Approve
  <2>1. gate = "pending" /\ gate' = "approved" /\ spent' = spent /\ yeses' = yeses + 1
    BY <1>2 DEF Approve
  <2> QED BY <1>0, <2>1 DEF Counted
<1>3. CASE Deny
  BY <1>3 DEF Deny, Counted
<1>4. ASSUME UNCHANGED <<gate, spent, yeses>> PROVE Counted'
  BY <1>4 DEF Counted
<1>5. ASSUME NEW c \in Call,
             \/ runHook(c) \/ ToolCallHandler(c) \/ GiveUp(c) \/ Decide(c) \/ AskClassifier(c)
             \/ Ack(c) \/ AckFails(c) \/ HandlerThrows(c) \/ Answer(c)
      PROVE  Counted'
  BY <1>4, <1>5 DEF runHook, ToolCallHandler, Request, GiveUp, Decide, AskClassifier, Ack, AckFails,
                    HandlerThrows, Answer
<1>6. ASSUME NEW n \in Note, AckForPi(n) \/ DeliverNote(n) PROVE Counted'
  BY <1>4, <1>6 DEF AckForPi, DeliverNote
<1>7. CASE BeforeAgentStart \/ Heartbeat \/ BeatArrives \/ Unregister \/ DaemonStarts \/ Exit \/ DaemonDies
  BY <1>4, <1>7
  DEF BeforeAgentStart, Heartbeat, BeatArrives, Unregister, DaemonStarts, Exit, DaemonDies
<1>8. CASE UNCHANGED vars
  BY <1>4, <1>8
<1> QED BY <1>1, <1>2, <1>3, <1>5, <1>6, <1>7, <1>8 DEF Next

\* A guarded call that ran used a yes, and no more yeses were used than the human gave:
\* callers that time out, answers to nobody and a daemon that dies open no second call.
THEOREM GuardedRunsOnAYes == Spec => []EachRunHasItsYes
<1>1. Init => Guard /\ Counted
  BY FS_EmptySet, HookCallsAssumption DEF Init, Guard, Counted, HookCallsAssumption
<1>2. TypeOK /\ Guard /\ Counted /\ [Next]_vars => Guard' /\ Counted'
  BY GuardStep, CountedStep, HookCallsAssumption
<1>3. Guard /\ Counted => EachRunHasItsYes
  BY DEF Guard, Counted, EachRunHasItsYes
<1> QED BY <1>1, <1>2, <1>3, TypeCorrect, PTL DEF Spec

-------------------------------------------------------------------------------
(* Callers and handlers. *)

\* A handler works for a caller that waits, or that stopped waiting; before it decides it
\* carries nothing, and a process that ended waits for nothing.
Waiters == \A c \in Call :
  /\ client[c] = "idle" => handler[c] = "none"
  /\ handler[c] \in {"none", "sent"} => carries[c] = {}
  /\ handler[c] \in {"sent"} \cup Busy => client[c] = "waiting" \/ c \in late
  /\ todo[c] \subseteq carries[c]
  /\ client[c] = "waiting" => alive

LEMMA WaitersStep ==
  ASSUME TypeOK, Waiters, [Next]_vars
  PROVE  Waiters'
<1> USE DEF vars, session, daemon, inbox, caller, server, approval, pi
<1>1. ASSUME UNCHANGED <<client, handler, carries, todo, late, alive>> PROVE Waiters'
  BY <1>1 DEF Waiters
\* Only the call c takes part.
<1>2. ASSUME NEW c \in Call, UNCHANGED alive, late \subseteq late',
             \A d \in Call \ {c} : /\ client'[d] = client[d] /\ handler'[d] = handler[d]
                                   /\ carries'[d] = carries[d] /\ todo'[d] = todo[d],
             /\ client'[c] = "idle" => handler'[c] = "none"
             /\ handler'[c] \in {"none", "sent"} => carries'[c] = {}
             /\ handler'[c] \in {"sent"} \cup Busy => client'[c] = "waiting" \/ c \in late'
             /\ todo'[c] \subseteq carries'[c]
             /\ client'[c] = "waiting" => alive'
      PROVE  Waiters'
  BY <1>2 DEF Waiters
<1>3. ASSUME NEW c \in Call, runHook(c) \/ ToolCallHandler(c) PROVE Waiters'
  <2>1. \A d \in Call \ {c} : client'[d] = client[d] /\ handler'[d] = handler[d]
    BY <1>3 DEF runHook, ToolCallHandler, Request, TypeOK
  <2>2. /\ handler[c] = "none" /\ alive /\ UNCHANGED <<alive, late, carries, todo>>
        /\ \/ client'[c] = "waiting" /\ handler'[c] = "sent"
           \/ client'[c] = "blocked" /\ handler'[c] = "none"
    BY <1>3 DEF runHook, ToolCallHandler, Request, TypeOK, Waiters
  <2> QED BY <1>2, <2>1, <2>2 DEF Waiters, Busy
<1>4. ASSUME NEW c \in Call, GiveUp(c) PROVE Waiters'
  BY <1>4 DEF GiveUp, Waiters, TypeOK
<1>5. ASSUME NEW c \in Call, Decide(c) PROVE Waiters'
  <2>1. /\ UNCHANGED <<alive, late, client>> /\ handler[c] = "sent"
        /\ \A d \in Call \ {c} : /\ handler'[d] = handler[d] /\ carries'[d] = carries[d]
                                 /\ todo'[d] = todo[d]
    BY <1>5 DEF Decide, TypeOK
  <2>2. handler'[c] \in Busy /\ todo'[c] \subseteq carries'[c]
    BY <1>5 DEF Decide, TypeOK, Busy, Waiters
  <2> QED BY <1>2, <2>1, <2>2 DEF Waiters, Busy
<1>6. ASSUME NEW c \in Call, Route(c) \/ AskClassifier(c) PROVE Waiters'
  <2>1. /\ UNCHANGED <<alive, late, client, carries, todo>> /\ handler[c] \in Busy /\ handler'[c] \in Busy
        /\ \A d \in Call \ {c} : handler'[d] = handler[d]
    BY <1>6 DEF Route, AskClassifier, TypeOK, Busy
  <2> QED BY <1>2, <2>1 DEF Waiters, Busy
<1>7. ASSUME NEW c \in Call, Ack(c) \/ AckFails(c) PROVE Waiters'
  <2>1. UNCHANGED <<client, handler, carries, late, alive>> /\ \A d \in Call : todo'[d] \subseteq todo[d]
    BY <1>7 DEF Ack, AckFails, TypeOK
  <2> QED BY <2>1 DEF Waiters
<1>8. ASSUME NEW c \in Call, HandlerThrows(c) PROVE Waiters'
  <2>1. /\ UNCHANGED <<alive, carries, todo>> /\ late \subseteq late' /\ c \in late'
        /\ handler'[c] = "done" /\ client'[c] \in {client[c], "blocked"}
        /\ handler[c] \in {"sent", "routing", "acking"}
        /\ \A d \in Call \ {c} : client'[d] = client[d] /\ handler'[d] = handler[d]
    BY <1>8 DEF HandlerThrows, TypeOK
  <2> QED BY <1>2, <2>1 DEF Waiters, Busy
<1>9. ASSUME NEW c \in Call, Answer(c) PROVE Waiters'
  <2>1. /\ UNCHANGED <<alive, late, carries, todo>> /\ handler[c] = "acking" /\ handler'[c] = "done"
        /\ \A d \in Call \ {c} : client'[d] = client[d] /\ handler'[d] = handler[d]
    BY <1>9 DEF Answer, Receive, TypeOK
  <2>2. client'[c] \in {client[c], "ran", "blocked"}
    BY <1>9 DEF Answer, Receive, toolCallResult, TypeOK
  <2> QED BY <1>2, <2>1, <2>2 DEF Waiters, Busy
<1>10. CASE Exit \/ DaemonDies
  BY <1>10 DEF Exit, DaemonDies, Waiters, Busy
<1>11. ASSUME NEW n \in Note, AckForPi(n) \/ DeliverNote(n) PROVE Waiters'
  BY <1>1, <1>11 DEF AckForPi, DeliverNote
<1>12. CASE BeforeAgentStart \/ Heartbeat \/ BeatArrives \/ Unregister \/ DaemonStarts \/ Approve
             \/ Deny \/ UNCHANGED vars
  BY <1>1, <1>12
  DEF BeforeAgentStart, Heartbeat, BeatArrives, Unregister, DaemonStarts, Approve, Deny
<1> QED BY <1>3, <1>4, <1>5, <1>6, <1>7, <1>8, <1>9, <1>10, <1>11, <1>12 DEF Next

\* A handler that is past its first step has a caller that waits for it or gave up on it,
\* and it carries no note before it has decided: two handlers never answer one caller.
THEOREM HandlersHaveCallers == Spec => []Waiters
<1>1. Init => Waiters
  BY DEF Init, Waiters, Busy
<1>2. TypeOK /\ Waiters /\ [Next]_vars => Waiters'
  BY WaitersStep
<1> QED BY <1>1, <1>2, TypeCorrect, PTL DEF Spec

-------------------------------------------------------------------------------
(* No note drops between two writes. *)

\* What a handler is moving is the oldest it has to ack, and lies in `done`.
Moving == \A c \in Call : moving[c] # NoNote =>
  handler[c] = "acking" /\ todo[c] # {} /\ moving[c] = Min(todo[c]) /\ "done" \in file[moving[c]]

\* A step that moves nothing and takes nothing from `done`.
LEMMA MovingKept ==
  ASSUME TypeOK, Moving, UNCHANGED <<todo, moving>>,
         \A c \in Call : handler[c] = "acking" /\ todo[c] # {} => handler'[c] = "acking",
         \A n \in Note : "done" \in file[n] => "done" \in file'[n]
  PROVE  Moving'
<1>1. \A c \in Call : moving[c] \in Note \cup {NoNote}
  BY DEF TypeOK
<1> QED BY <1>1 DEF Moving

LEMMA MovingStep ==
  ASSUME HookCallsAssumption, TypeOK, Waiters, Moving, [Next]_vars
  PROVE  Moving'
<1> USE DEF vars, session, daemon, inbox, caller, server, approval, pi
<1>1. ASSUME UNCHANGED <<todo, moving, file, handler>> PROVE Moving'
  BY <1>1 DEF Moving
<1>2. ASSUME NEW c \in Call, runHook(c) \/ ToolCallHandler(c) PROVE Moving'
  <2>1. \A d \in Call : handler[d] = "acking" => handler'[d] = "acking"
    BY <1>2 DEF runHook, ToolCallHandler, Request, TypeOK, Waiters
  <2> QED BY <1>2, <2>1, MovingKept DEF runHook, ToolCallHandler, Request
<1>3. ASSUME NEW c \in Call, Route(c) \/ AskClassifier(c) \/ HandlerThrows(c) PROVE Moving'
  <2>1. \A d \in Call : handler[d] = "acking" /\ todo[d] # {} => handler'[d] = "acking"
    BY <1>3 DEF Route, AskClassifier, HandlerThrows, TypeOK
  <2> QED BY <1>3, <2>1, MovingKept DEF Route, AskClassifier, HandlerThrows
<1>4. ASSUME NEW c \in Call, Answer(c) PROVE Moving'
  <2>1. \A d \in Call : handler[d] = "acking" /\ todo[d] # {} => handler'[d] = "acking"
    BY <1>4 DEF Answer, TypeOK
  <2> QED BY <1>4, <2>1, MovingKept DEF Answer
<1>5. ASSUME NEW c \in Call, Decide(c) PROVE Moving'
  <2>1. UNCHANGED <<moving, file>> /\ moving[c] = NoNote
    BY <1>5 DEF Decide, Moving
  <2>2. \A d \in Call \ {c} : handler'[d] = handler[d] /\ todo'[d] = todo[d]
    BY <1>5 DEF Decide, TypeOK
  <2> QED BY <2>1, <2>2 DEF Moving
<1>6. ASSUME NEW c \in Call, Ack(c) PROVE Moving'
  <2> DEFINE n == Min(todo[c])
  <2>1. n \in Note /\ n # NoNote /\ handler[c] = "acking" /\ todo[c] # {} /\ UNCHANGED handler
    BY <1>6, NextTodo DEF Ack
  <2>2. CASE moving[c] = NoNote /\ "inbox" \in file[n]
    <3>1. /\ file' = [file EXCEPT ![n] = file[n] \cup {"done"}]
          /\ moving' = [moving EXCEPT ![c] = n] /\ UNCHANGED todo
      BY <1>6, <2>2 DEF Ack
    <3> HIDE DEF n
    <3>2. "done" \in file'[n] /\ \A m \in Note : "done" \in file[m] => "done" \in file'[m]
      BY <2>1, <3>1 DEF TypeOK
    <3>3. moving'[c] = n /\ \A d \in Call \ {c} : moving'[d] = moving[d] /\ moving[d] \in Note \cup {NoNote}
      BY <3>1 DEF TypeOK
    <3>4. n = Min(todo'[c])
      BY <3>1 DEF n
    <3> QED BY <2>1, <3>1, <3>2, <3>3, <3>4 DEF Moving
  <2>3. CASE ~ (moving[c] = NoNote /\ "inbox" \in file[n])
    <3>1. /\ file' = [file EXCEPT ![n] = file[n] \ {"inbox"}]
          /\ moving' = [moving EXCEPT ![c] = NoNote]
          /\ todo' = [todo EXCEPT ![c] = todo[c] \ {n}]
      BY <1>6, <2>3 DEF Ack
    <3> HIDE DEF n
    <3>2. \A m \in Note : "done" \in file[m] => "done" \in file'[m]
      BY <2>1, <3>1 DEF TypeOK
    <3>3. moving'[c] = NoNote
      BY <3>1 DEF TypeOK
    <3>4. \A d \in Call \ {c} : moving'[d] = moving[d] /\ todo'[d] = todo[d] /\ moving[d] \in Note \cup {NoNote}
      BY <3>1 DEF TypeOK
    <3> QED BY <2>1, <3>2, <3>3, <3>4 DEF Moving
  <2> QED BY <2>2, <2>3
<1>7. ASSUME NEW c \in Call, AckFails(c) PROVE Moving'
  <2>1. UNCHANGED <<file, handler>> /\ moving'[c] = NoNote
    BY <1>7 DEF AckFails, TypeOK
  <2>2. \A d \in Call \ {c} : moving'[d] = moving[d] /\ todo'[d] = todo[d]
    BY <1>7 DEF AckFails, TypeOK
  <2> QED BY <2>1, <2>2 DEF Moving
<1>8. ASSUME NEW n \in Note, AckForPi(n) \/ DeliverNote(n) PROVE Moving'
  <2>1. \A m \in Note : "done" \in file[m] => "done" \in file'[m]
    BY <1>8 DEF AckForPi, DeliverNote, TypeOK
  <2> QED BY <1>8, <2>1, MovingKept DEF AckForPi, DeliverNote
<1>9. CASE BeforeAgentStart \/ Heartbeat \/ BeatArrives \/ Unregister \/ DaemonStarts \/ Approve
             \/ Deny \/ Exit
  BY <1>1, <1>9
  DEF BeforeAgentStart, Heartbeat, BeatArrives, Unregister, DaemonStarts, Approve, Deny, Exit
<1>10. CASE DaemonDies
  BY <1>10 DEF DaemonDies, Moving
<1>11. ASSUME NEW c \in Call, GiveUp(c) PROVE Moving'
  BY <1>1, <1>11 DEF GiveUp
<1>12. CASE UNCHANGED vars
  BY <1>1, <1>12
<1> QED BY <1>2, <1>3, <1>4, <1>5, <1>6, <1>7, <1>8, <1>9, <1>10, <1>11, <1>12 DEF Next

LEMMA CopiesStep ==
  ASSUME HookCallsAssumption, TypeOK, Moving, [Next]_vars
  PROVE  \A n \in Note : file[n] # {} => file'[n] # {}
<1> USE DEF vars, session, daemon, inbox, caller, server, approval, pi
<1> DEFINE Goal == \A n \in Note : file[n] # {} => file'[n] # {}
<1>1. ASSUME UNCHANGED file PROVE Goal
  BY <1>1
<1>2. ASSUME NEW c \in Call, Ack(c) PROVE Goal
  <2> DEFINE n == Min(todo[c])
  <2>1. n \in Note /\ n # NoNote
    BY <1>2, NextTodo DEF Ack
  <2>2. CASE moving[c] = NoNote /\ "inbox" \in file[n]
    <3>1. file' = [file EXCEPT ![n] = file[n] \cup {"done"}]
      BY <1>2, <2>2 DEF Ack
    <3> HIDE DEF n
    <3> QED BY <2>1, <3>1 DEF TypeOK
  <2>3. CASE ~ (moving[c] = NoNote /\ "inbox" \in file[n])
    <3>1. file' = [file EXCEPT ![n] = file[n] \ {"inbox"}]
      BY <1>2, <2>3 DEF Ack
    <3>2. "inbox" \in file[n] => "done" \in file[n]
      BY <2>3 DEF Moving
    <3> HIDE DEF n
    <3> QED BY <2>1, <3>1, <3>2 DEF TypeOK
  <2> QED BY <2>2, <2>3
<1>3. ASSUME NEW n \in Note, AckForPi(n) \/ DeliverNote(n) PROVE Goal
  BY <1>3 DEF AckForPi, DeliverNote, TypeOK
<1>4. ASSUME NEW c \in Call,
             \/ runHook(c) \/ ToolCallHandler(c) \/ GiveUp(c) \/ Decide(c) \/ Route(c)
             \/ AskClassifier(c) \/ AckFails(c) \/ HandlerThrows(c) \/ Answer(c)
      PROVE  Goal
  BY <1>1, <1>4
  DEF runHook, ToolCallHandler, Request, GiveUp, Decide, Route, AskClassifier, AckFails,
                    HandlerThrows, Answer
<1>5. CASE BeforeAgentStart \/ Heartbeat \/ BeatArrives \/ Unregister \/ DaemonStarts \/ Approve
             \/ Deny \/ Exit \/ DaemonDies \/ UNCHANGED vars
  BY <1>1, <1>5
  DEF BeforeAgentStart, Heartbeat, BeatArrives, Unregister, DaemonStarts, Approve, Deny,
                    Exit, DaemonDies
<1> QED BY <1>2, <1>3, <1>4, <1>5 DEF Next

\* A note that has a file never loses its last one: its copy is in `done` before any
\* handler, or Pi's ack, deletes it from the inbox, and dying in between repeats it.
THEOREM CopiesAreLeft == Spec => NotesLeaveCopies
<1>1. Init => Moving
  BY DEF Init, Moving
<1>2. TypeOK /\ Waiters /\ Moving /\ [Next]_vars => Moving'
  BY MovingStep, HookCallsAssumption
<1>3. TypeOK /\ Moving /\ [Next]_vars => [\A n \in Note : file[n] # {} => file'[n] # {}]_vars
  BY CopiesStep, HookCallsAssumption
<1> QED BY <1>1, <1>2, <1>3, TypeCorrect, HandlersHaveCallers, PTL DEF Spec, NotesLeaveCopies

-------------------------------------------------------------------------------
(* A note is lost only with a caller. *)

\* Why a note that left the inbox was not heard.
Excused(n) ==
  \/ \E c \in Call : n \in Fitting(carries[c]) /\ (c \in late \/ handler[c] = "acking")
  \/ \E c \in Call : n \in carries[c] \ Fitting(carries[c])
  \/ vendor = "pi" /\ \E k \in heard : k < n

\* What Pi acks was shown to it, or did not fit behind an older note that was.
Shown == \A n \in acks : vendor = "pi" /\ (n \in heard \/ \E k \in heard : k < n)
Lost == \A n \in Note : file[n] = {"done"} /\ n \notin heard => Excused(n)

\* What no step undoes: an answer leaves its handler heard, or with a caller gone.
Keeps ==
  /\ heard \subseteq heard' /\ late \subseteq late' /\ vendor' = vendor
  /\ \A c \in Call : carries[c] # {} => carries'[c] = carries[c]
  /\ \A c \in Call : handler[c] = "acking" =>
       handler'[c] = "acking" \/ c \in late' \/ Fitting(carries[c]) \subseteq heard'

LEMMA ExcusesKept ==
  ASSUME Keeps, NEW n, n \notin heard', Excused(n)
  PROVE  Excused(n)'
<1>1. \A c \in Call : Fitting(carries[c]) \subseteq carries[c]
  BY DEF Fitting
<1>2. \A c \in Call : carries[c] # {} => carries'[c] = carries[c] /\ Fitting(carries'[c]) = Fitting(carries[c])
  BY DEF Keeps
<1>3. CASE \E c \in Call : n \in Fitting(carries[c]) /\ (c \in late \/ handler[c] = "acking")
  <2>1. PICK c \in Call : n \in Fitting(carries[c]) /\ (c \in late \/ handler[c] = "acking")
    BY <1>3
  <2>2. c \in late' \/ handler'[c] = "acking"
    BY <2>1 DEF Keeps
  <2>3. n \in Fitting(carries'[c])
    BY <1>1, <1>2, <2>1
  <2> QED BY <2>2, <2>3 DEF Excused, Fitting
<1>4. CASE \E c \in Call : n \in carries[c] \ Fitting(carries[c])
  <2>1. PICK c \in Call : n \in carries[c] \ Fitting(carries[c])
    BY <1>4
  <2>2. n \in carries'[c] \ Fitting(carries'[c])
    BY <1>2, <2>1
  <2> QED BY <2>2 DEF Excused, Fitting
<1>5. CASE vendor = "pi" /\ \E k \in heard : k < n
  BY <1>5 DEF Excused, Keeps
<1> QED BY <1>3, <1>4, <1>5 DEF Excused

LEMMA KeepsStep ==
  ASSUME TypeOK, Waiters, [Next]_vars
  PROVE  Keeps
<1> USE DEF vars, session, daemon, inbox, caller, server, approval, pi
<1>1. ASSUME UNCHANGED <<vendor, carries>>, heard \subseteq heard', late \subseteq late',
             \A c \in Call : handler[c] = "acking" => handler'[c] = "acking" \/ c \in late'
      PROVE  Keeps
  BY <1>1 DEF Keeps
<1>2. ASSUME NEW c \in Call, runHook(c) \/ ToolCallHandler(c) PROVE Keeps
  <2>1. \A d \in Call : handler[d] = "acking" => handler'[d] = "acking"
    BY <1>2 DEF runHook, ToolCallHandler, Request, TypeOK, Waiters
  <2> QED BY <1>1, <1>2, <2>1 DEF runHook, ToolCallHandler, Request
<1>3. ASSUME NEW c \in Call, Decide(c) PROVE Keeps
  <2>1. UNCHANGED <<vendor, heard, late>> /\ handler[c] = "sent" /\ carries[c] = {}
    BY <1>3 DEF Decide, Waiters
  <2>2. \A d \in Call \ {c} : handler'[d] = handler[d] /\ carries'[d] = carries[d]
    BY <1>3 DEF Decide, TypeOK
  <2> QED BY <2>1, <2>2 DEF Keeps
<1>4. ASSUME NEW c \in Call, Route(c) \/ AskClassifier(c) PROVE Keeps
  <2>1. \A d \in Call : handler[d] = "acking" => handler'[d] = "acking"
    BY <1>4 DEF Route, AskClassifier, TypeOK
  <2> QED BY <1>1, <1>4, <2>1 DEF Route, AskClassifier
<1>5. ASSUME NEW c \in Call, HandlerThrows(c) PROVE Keeps
  <2>1. \A d \in Call : handler[d] = "acking" => handler'[d] = "acking" \/ d \in late'
    BY <1>5 DEF HandlerThrows, TypeOK
  <2> QED BY <1>1, <1>5, <2>1 DEF HandlerThrows
<1>6. ASSUME NEW c \in Call, Answer(c) PROVE Keeps
  <2>1. UNCHANGED <<vendor, late, carries>> /\ handler[c] = "acking" /\ heard \subseteq heard'
    BY <1>6 DEF Answer, Receive
  <2>2. \A d \in Call \ {c} : handler'[d] = handler[d]
    BY <1>6 DEF Answer, TypeOK
  <2>3. c \in late' \/ Fitting(carries[c]) \subseteq heard'
    BY <1>6, <2>1 DEF Answer, Receive, Waiters, Busy
  <2> QED BY <2>1, <2>2, <2>3 DEF Keeps
<1>7. ASSUME NEW c \in Call, GiveUp(c) \/ Ack(c) \/ AckFails(c) PROVE Keeps
  BY <1>1, <1>7 DEF GiveUp, Ack, AckFails
<1>8. ASSUME NEW n \in Note, AckForPi(n) \/ DeliverNote(n) PROVE Keeps
  BY <1>1, <1>8 DEF AckForPi, DeliverNote
<1>9. CASE BeforeAgentStart \/ Heartbeat \/ BeatArrives \/ Unregister \/ DaemonStarts \/ Approve
             \/ Deny \/ Exit \/ UNCHANGED vars
  BY <1>1, <1>9
  DEF BeforeAgentStart, Heartbeat, BeatArrives, Unregister, DaemonStarts, Approve, Deny, Exit
<1>10. CASE DaemonDies
  <2>1. \A d \in Call : handler[d] = "acking" => client[d] = "waiting" \/ d \in late
    BY DEF Waiters, Busy
  <2>2. \A d \in Call : handler[d] = "acking" => d \in late'
    BY <1>10, <2>1 DEF DaemonDies
  <2> QED BY <1>1, <1>10, <2>2 DEF DaemonDies
<1> QED BY <1>2, <1>3, <1>4, <1>5, <1>6, <1>7, <1>8, <1>9, <1>10 DEF Next

LEMMA ShownStep ==
  ASSUME HookCallsAssumption, TypeOK, Waiters, Shown, [Next]_vars
  PROVE  Shown'
<1> USE DEF vars, session, daemon, inbox, caller, server, approval, pi
<1>1. heard \subseteq heard' /\ vendor' = vendor
  BY KeepsStep DEF Keeps
<1>2. ASSUME acks' \subseteq acks PROVE Shown'
  BY <1>1, <1>2 DEF Shown
<1>3. CASE BeforeAgentStart
  <2>1. /\ vendor = "pi" /\ Poll # {} /\ acks' = acks \cup Poll
        /\ heard' = heard \cup Fitting(Poll)
    BY <1>3 DEF BeforeAgentStart, formatInboxMessage
  <2>2. Poll \subseteq Nat /\ Min(Poll) \in Fitting(Poll) /\ \A n \in Poll : Min(Poll) <= n
    <3>1. Poll \subseteq Nat
      BY Polled DEF HookCallsAssumption
    <3> QED BY <2>1, <3>1, Polled, FittingHasOldest, OldestIs
  <2>3. \A n \in Poll : n \in heard' \/ \E k \in heard' : k < n
    <3> TAKE n \in Poll
    <3>1. CASE n = Min(Poll)
      BY <2>1, <2>2, <3>1
    <3>2. CASE n # Min(Poll)
      <4>1. Min(Poll) \in heard' /\ n \in Nat /\ Min(Poll) \in Nat /\ Min(Poll) <= n
        BY <2>1, <2>2, OldestIs
      <4> QED BY <3>2, <4>1
    <3> QED BY <3>1, <3>2
  <2> QED BY <1>1, <2>1, <2>3 DEF Shown
<1>4. ASSUME NEW c \in Call,
             \/ runHook(c) \/ ToolCallHandler(c) \/ GiveUp(c) \/ Decide(c) \/ Route(c)
             \/ AskClassifier(c) \/ Ack(c) \/ AckFails(c) \/ HandlerThrows(c) \/ Answer(c)
      PROVE  Shown'
  BY <1>2, <1>4 DEF runHook, ToolCallHandler, Request, GiveUp, Decide, Route, AskClassifier, Ack,
                    AckFails, HandlerThrows, Answer
<1>5. ASSUME NEW n \in Note, AckForPi(n) \/ DeliverNote(n) PROVE Shown'
  BY <1>2, <1>5 DEF AckForPi, DeliverNote
<1>6. CASE Heartbeat \/ BeatArrives \/ Unregister \/ DaemonStarts \/ Approve
             \/ Deny \/ Exit \/ DaemonDies \/ UNCHANGED vars
  BY <1>2, <1>6
  DEF Heartbeat, BeatArrives, Unregister, DaemonStarts, Approve, Deny, Exit, DaemonDies
<1> QED BY <1>3, <1>4, <1>5, <1>6 DEF Next

LEMMA LostStep ==
  ASSUME HookCallsAssumption, TypeOK, Waiters, Shown, Lost, [Next]_vars
  PROVE  Lost'
<1> USE DEF vars, session, daemon, inbox, caller, server, approval, pi
<1>0. Keeps
  BY KeepsStep
\* A step that takes no note out of the inbox.
<1>1. ASSUME \A n \in Note : file'[n] = {"done"} => file[n] = {"done"} PROVE Lost'
  BY <1>0, <1>1, ExcusesKept DEF Lost, Keeps
<1>2. ASSUME NEW m \in Note, Excused(m) \/ m \in heard,
             \A n \in Note \ {m} : file'[n] = {"done"} => file[n] = {"done"}
      PROVE  Lost'
  BY <1>0, <1>2, ExcusesKept DEF Lost, Keeps
<1>3. ASSUME NEW c \in Call, Ack(c) PROVE Lost'
  <2>1. Min(todo[c]) \in Note /\ Min(todo[c]) \in carries[c] /\ handler[c] = "acking"
    BY <1>3, NextTodo DEF Ack, Waiters
  <2>2. Excused(Min(todo[c]))
    BY <2>1 DEF Excused
  <2>3. \A n \in Note \ {Min(todo[c])} : file'[n] = file[n]
    BY <1>3, <2>1 DEF Ack, TypeOK
  <2> QED BY <1>2, <2>1, <2>2, <2>3
<1>4. ASSUME NEW n \in Note, AckForPi(n) PROVE Lost'
  <2>1. Excused(n) \/ n \in heard
    BY <1>4 DEF AckForPi, Shown, Excused
  <2>2. \A m \in Note \ {n} : file'[m] = file[m]
    BY <1>4 DEF AckForPi, TypeOK
  <2> QED BY <1>2, <2>1, <2>2
<1>5. ASSUME NEW n \in Note, DeliverNote(n) PROVE Lost'
  BY <1>1, <1>5 DEF DeliverNote, TypeOK
<1>6. ASSUME NEW c \in Call,
             \/ runHook(c) \/ ToolCallHandler(c) \/ GiveUp(c) \/ Decide(c) \/ Route(c)
             \/ AskClassifier(c) \/ AckFails(c) \/ HandlerThrows(c) \/ Answer(c)
      PROVE  Lost'
  BY <1>1, <1>6
  DEF runHook, ToolCallHandler, Request, GiveUp, Decide, Route, AskClassifier, AckFails,
                    HandlerThrows, Answer
<1>7. CASE BeforeAgentStart \/ Heartbeat \/ BeatArrives \/ Unregister \/ DaemonStarts \/ Approve
             \/ Deny \/ Exit \/ DaemonDies \/ UNCHANGED vars
  BY <1>1, <1>7
  DEF BeforeAgentStart, Heartbeat, BeatArrives, Unregister, DaemonStarts, Approve, Deny,
                    Exit, DaemonDies
<1> QED BY <1>3, <1>4, <1>5, <1>6, <1>7 DEF Next

\* A note that left the inbox unheard was carried to a caller that had stopped waiting or
\* got an error, is still on its way, or did not fit in the context it was acked for.
THEOREM NotesGoWithCallers == Spec => []LostOnlyWithCaller
<1>1. Init => Shown /\ Lost
  BY DEF Init, Shown, Lost
<1>2. TypeOK /\ Waiters /\ Shown /\ Lost /\ [Next]_vars => Shown' /\ Lost'
  BY ShownStep, LostStep, HookCallsAssumption
<1>3. Lost => LostOnlyWithCaller
  BY DEF Lost, Excused, LostOnlyWithCaller
<1> QED BY <1>1, <1>2, <1>3, TypeCorrect, HandlersHaveCallers, PTL DEF Spec

-------------------------------------------------------------------------------
(* The classifier tier that decides behind a hook: for any rules and calls. *)

\* What one request answers, and what is counted of a call.
Replied == UNION {[S -> Probability] : S \in SUBSET Rule}
Count == UNION {[S -> {"fired", "routed", "violated"}] : S \in SUBSET Rule}

\* What the key, the scope and each call may hold.
Typed ==
  /\ saved \in Config /\ live \in Config /\ accepted \in SUBSET Rule
  /\ pc \in [Asker -> {"idle", "off", "asking", "answered", "failed", "done", "gone"}]
  /\ asked \in [Asker -> SUBSET Rule] /\ parts \in [Asker -> 1 .. MaxParts]
  /\ replies \in [Asker -> Seq(Replied)] /\ best \in [Asker -> Replied]
  /\ said \in [Asker -> {"none", "allow", "approved", "route", "deny", "error"}]
  /\ told \in [Asker -> Count]
  /\ note \in [Asker -> {"none", "written", "lost"}]

\* How many requests have been answered, at each point of a call.
RepliesCounted ==
  \A c \in Asker :
    /\ pc[c] = "idle" => replies[c] = <<>>
    /\ pc[c] = "idle" => best[c] = <<>>
    /\ pc[c] \in {"off", "asking", "failed"} => Len(replies[c]) < parts[c]
    /\ pc[c] = "answered" => Len(replies[c]) = parts[c]
    /\ pc[c] # "done" => said[c] = "none" /\ told[c] = <<>>

\* Each reply answers about every rule, and the answers kept are the worst of them.
WorstIsKept ==
  \A c \in Asker :
    /\ \A i \in DOMAIN replies[c] : DOMAIN replies[c][i] = asked[c]
    /\ replies[c] # <<>> => DOMAIN best[c] = asked[c]
    /\ replies[c] = <<>> => best[c] = <<>>
    /\ \A r \in DOMAIN best[c] :
         /\ \A i \in DOMAIN replies[c] : replies[c][i][r] <= best[c][r]
         /\ \E i \in DOMAIN replies[c] : replies[c][i][r] = best[c][r]

\* What is let through was judged by all its answers, because the worst of them are kept and
\* counted.
IInv == Typed /\ RepliesCounted /\ WorstIsKept /\ PassedIsChecked /\ BlameIsFair

LEMMA MinIsLeast ==
  ASSUME NEW S, S \subseteq Nat, S # {}
  PROVE  Min(S) \in S
<1> DEFINE R == OpToRel(<, Nat)
<1>1. IsWellFoundedOn(R, Nat) BY NatLessThanWellFounded
<1>2. \A x, y \in Nat : y < x => <<y, x>> \in R BY DEF OpToRel
<1> HIDE DEF R
<1>3. PICK x \in S : \A y \in S : ~(<<y, x>> \in R) BY <1>1, WFMin
<1>4. \A y \in S : x <= y
  <2> TAKE y \in S
  <2>1. x \in Nat /\ y \in Nat /\ ~(y < x) BY <1>2, <1>3
  <2> QED BY <2>1
<1> QED BY <1>4 DEF Min

\* A call that has asked nothing has no answers.
LEMMA NoAnswers == <<>> \in Replied /\ <<>> \in Count /\ <<>> \in Seq(Replied) /\ DOMAIN <<>> = {}
  BY DEF Replied, Count

LEMMA InitKept == TierInit => IInv
<1> SUFFICES ASSUME TierInit PROVE IInv OBVIOUS
<1>1. Typed BY NoAnswers, ClassifierTierAssumption DEF TierInit, Typed, Config
<1>2. RepliesCounted BY ClassifierTierAssumption DEF TierInit, RepliesCounted
<1>3. WorstIsKept BY NoAnswers DEF TierInit, WorstIsKept
<1>4. PassedIsChecked /\ BlameIsFair BY NoAnswers DEF TierInit, PassedIsChecked, BlameIsFair
<1> QED BY <1>1, <1>2, <1>3, <1>4 DEF IInv

\* What only moves a call along, or touches nothing of it.
LEMMA MovesKeep ==
  ASSUME IInv, UNCHANGED <<asking, outcome>>,
         saved' \in Config, live' \in Config, accepted' \in SUBSET Rule,
         pc' \in [Asker -> {"idle", "off", "asking", "answered", "failed", "done", "gone"}],
         \A c \in Asker : \/ pc'[c] = pc[c]
                          \/ pc'[c] = "gone" /\ pc[c] # "done"
                          \/ pc[c] = "asking" /\ pc'[c] = "failed"
  PROVE IInv'
<1> USE DEF IInv, asking, outcome
<1>1. Typed' BY DEF Typed
<1>2. RepliesCounted' BY DEF RepliesCounted
<1>3. WorstIsKept' BY DEF WorstIsKept
<1>4. PassedIsChecked' BY DEF PassedIsChecked, JudgedBelow
<1>5. BlameIsFair' BY DEF BlameIsFair
<1> QED BY <1>1, <1>2, <1>3, <1>4, <1>5

LEMMA HumanKeeps ==
  ASSUME IInv, SaveKey \/ RemoveKey \/ RefuseKey \/ HandEdit \/ Restart \/ ChangeScope \/ UNCHANGED tierVars
         \/ \E c \in Asker : AskFails(c)
  PROVE IInv'
<1>1. /\ saved \in Config /\ live \in Config /\ accepted \in SUBSET Rule
      /\ pc \in [Asker -> {"idle", "off", "asking", "answered", "failed", "done", "gone"}]
  BY DEF IInv, Typed
<1>2. \A b \in BOOLEAN : [saved EXCEPT !.key = b] \in Config /\ [live EXCEPT !.key = b] \in Config
  BY <1>1 DEF Config
<1>3. UNCHANGED <<asking, outcome>>
  BY
  DEF SaveKey, RemoveKey, SetKey, RefuseKey, HandEdit, Restart, ChangeScope, AskFails, calls,
      tierVars
<1>4. saved' \in Config /\ live' \in Config /\ accepted' \in SUBSET Rule
  BY <1>1, <1>2
  DEF SaveKey, RemoveKey, SetKey, RefuseKey, HandEdit, Restart, ChangeScope, AskFails, calls,
      tierVars,
                    settings, scope
<1>5. /\ pc' \in [Asker -> {"idle", "off", "asking", "answered", "failed", "done", "gone"}]
      /\ \A c \in Asker : \/ pc'[c] = pc[c]
                          \/ pc'[c] = "gone" /\ pc[c] # "done"
                          \/ pc[c] = "asking" /\ pc'[c] = "failed"
  <2>1. CASE Restart BY <1>1, <2>1 DEF Restart
  <2>2. CASE \E c \in Asker : AskFails(c) BY <1>1, <2>2 DEF AskFails, Enter
  <2>3. CASE pc' = pc BY <1>1, <2>3
  <2> QED
    BY <2>1, <2>2, <2>3
    DEF SaveKey, RemoveKey, SetKey, RefuseKey, HandEdit, ChangeScope, calls, tierVars
<1> QED BY <1>3, <1>4, <1>5, MovesKeep

\* The rules in scope are asked about, in one request or more.
LEMMA AskKeeps ==
  ASSUME IInv, NEW c \in Asker, Ask(c)
  PROVE IInv'
<1> USE DEF IInv
<1>1. PICK n \in 1 .. MaxParts : parts' = [parts EXCEPT ![c] = n]
  <2>1. PICK m \in {MaxParts, 1} : \E n \in 1 .. m : parts' = [parts EXCEPT ![c] = n] BY DEF Ask
  <2>2. 1 .. m \subseteq 1 .. MaxParts BY <2>1, ClassifierTierAssumption
  <2> QED BY <2>1, <2>2
<1>2. PICK to \in {"asking", "off"} : pc' = [pc EXCEPT ![c] = to]
  BY DEF Ask, Enter
<1>3. /\ asked' = [asked EXCEPT ![c] = InScope(c)] /\ InScope(c) \in SUBSET Rule /\ pc[c] = "idle"
      /\ UNCHANGED <<saved, live, accepted, replies, best, said, told, note>>
  BY DEF Ask, InScope, Typed, settings, scope, outcome
<1>4. Typed' BY <1>1, <1>2, <1>3 DEF Typed
<1>5. replies[c] = <<>> /\ best[c] = <<>> /\ said[c] = "none" /\ told[c] = <<>>
  BY <1>3 DEF RepliesCounted
<1>6. RepliesCounted'
  <2>1. Len(replies[c]) < n BY <1>1, <1>5, ClassifierTierAssumption
  <2>2. \A d \in Asker : /\ parts'[d] = IF d = c THEN n ELSE parts[d]
                         /\ pc'[d] = IF d = c THEN to ELSE pc[d]
    BY <1>1, <1>2 DEF Typed
  <2> QED BY <1>2, <1>3, <1>5, <2>1, <2>2 DEF RepliesCounted
<1>7. \A d \in Asker \ {c} : asked'[d] = asked[d] /\ parts'[d] = parts[d]
  BY <1>1, <1>3 DEF Typed
<1>8. WorstIsKept' BY <1>3, <1>5, <1>7, NoAnswers DEF WorstIsKept
<1>9. PassedIsChecked' BY <1>3, <1>5, <1>7 DEF PassedIsChecked, JudgedBelow
<1>10. BlameIsFair' BY <1>3, <1>5, <1>7, NoAnswers DEF BlameIsFair
<1> QED BY <1>4, <1>6, <1>8, <1>9, <1>10

\* An answer leaves the worst so far.
LEMMA ReplyKeeps ==
  ASSUME IInv, NEW c \in Asker, Reply(c)
  PROVE IInv'
<1> USE DEF IInv
<1>1. PICK answers \in [asked[c] -> Probability] :
        /\ replies' = [replies EXCEPT ![c] = Append(@, answers)]
        /\ best' = [best EXCEPT ![c] = Worst(@, answers)]
  BY DEF Reply
<1>2. PICK to \in {"answered", "asking", "failed"} :
        /\ pc' = [pc EXCEPT ![c] = to]
        /\ to = "answered" => Len(replies[c]) + 1 = parts[c]
        /\ to # "answered" => Len(replies[c]) + 1 # parts[c]
  <2>0. parts[c] \in Nat /\ Len(replies[c]) \in Nat BY ClassifierTierAssumption DEF Typed
  <2>1. CASE Len(replies[c]) + 1 = parts[c]
    <3>1. ~(Len(replies[c]) + 1 < parts[c]) BY <2>0, <2>1
    <3>2. pc' = [pc EXCEPT ![c] = "answered"] BY <2>1, <3>1 DEF Reply, Enter
    <3> QED BY <2>1, <3>2
  <2>2. CASE Len(replies[c]) + 1 # parts[c]
    <3>1. CASE Len(replies[c]) + 1 < parts[c] /\ Configured BY <2>2, <3>1 DEF Reply, Enter
    <3>2. CASE ~(Len(replies[c]) + 1 < parts[c] /\ Configured) BY <2>2, <3>2 DEF Reply, Enter
    <3> QED BY <3>1, <3>2
  <2> QED BY <2>1, <2>2
<1>3. /\ pc[c] = "asking" /\ asked[c] \in SUBSET Rule
      /\ UNCHANGED <<saved, live, accepted, asked, parts, said, told, note>>
  BY DEF Reply, Typed, settings, scope, outcome
<1>4. replies[c] \in Seq(Replied) /\ best[c] \in Replied /\ parts[c] \in Nat /\ Len(replies[c]) < parts[c]
  BY <1>3, ClassifierTierAssumption DEF Typed, RepliesCounted
<1>5. answers \in Replied BY <1>3 DEF Replied
<1> DEFINE new == Append(replies[c], answers)
           worst == Worst(best[c], answers)
<1>6. /\ new \in Seq(Replied) /\ Len(new) = Len(replies[c]) + 1 /\ new # <<>> /\ DOMAIN new = 1 .. Len(new)
      /\ new[Len(new)] = answers /\ \A i \in 1 .. Len(replies[c]) : new[i] = replies[c][i]
      /\ DOMAIN replies[c] = 1 .. Len(replies[c]) /\ Len(replies[c]) \in Nat
  BY <1>4, <1>5
<1>7. /\ DOMAIN worst = asked[c]
      /\ \A r \in asked[c] : worst[r] = IF r \notin DOMAIN best[c] \/ answers[r] > best[c][r] THEN answers[r] ELSE best[c][r]
  BY DEF Worst
<1>8. \A d \in Asker : /\ replies'[d] = IF d = c THEN new ELSE replies[d]
                       /\ best'[d] = IF d = c THEN worst ELSE best[d]
                       /\ pc'[d] = IF d = c THEN to ELSE pc[d]
  BY <1>1, <1>2 DEF Typed
<1>9. worst \in Replied
  <2>1. \A r \in asked[c] : worst[r] \in Probability
    <3> TAKE r \in asked[c]
    <3>1. answers[r] \in Probability OBVIOUS
    <3>2. r \in DOMAIN best[c] => best[c][r] \in Probability BY <1>4 DEF Replied
    <3> QED BY <1>7, <3>1, <3>2
  <2> QED BY <1>3, <1>7, <2>1 DEF Replied, Worst
<1>10. Typed' BY <1>1, <1>2, <1>3, <1>6, <1>9 DEF Typed
<1>11. RepliesCounted'
  <2>1. /\ to = "answered" => Len(new) = parts[c]
        /\ to # "answered" => Len(new) < parts[c]
    BY <1>2, <1>4, <1>6
  <2> HIDE DEF new, worst
  <2> QED BY <1>2, <1>3, <1>8, <2>1 DEF RepliesCounted
<1>12. WorstIsKept'
  <2> SUFFICES /\ \A i \in DOMAIN new : DOMAIN new[i] = asked[c]
               /\ \A r \in asked[c] : /\ \A i \in DOMAIN new : new[i][r] <= worst[r]
                                      /\ \E i \in DOMAIN new : new[i][r] = worst[r]
    <3> HIDE DEF new, worst
    <3>1. DOMAIN worst = asked[c] /\ new # <<>> BY <1>6, <1>7
    <3> QED BY <1>3, <1>8, <3>1 DEF WorstIsKept
  <2>1. \A i \in DOMAIN new : DOMAIN new[i] = asked[c]
    BY <1>4, <1>6 DEF WorstIsKept
  <2>2. ASSUME NEW r \in asked[c]
        PROVE /\ \A i \in DOMAIN new : new[i][r] <= worst[r]
              /\ \E i \in DOMAIN new : new[i][r] = worst[r]
    <3>1. answers[r] \in {0, 1, 2} BY DEF Probability
    <3>2. CASE replies[c] = <<>>
      <4>1. worst[r] = answers[r] BY <1>7, <3>2, NoAnswers DEF WorstIsKept
      <4>2. \A i \in DOMAIN new : new[i] = answers BY <1>6, <3>2
      <4> QED BY <1>6, <3>1, <4>1, <4>2
    <3>3. CASE replies[c] # <<>>
      <4>1. r \in DOMAIN best[c] BY <3>3 DEF WorstIsKept
      <4>2. best[c][r] \in {0, 1, 2} BY <1>4, <4>1 DEF Replied, Probability
      <4>3. /\ \A i \in DOMAIN replies[c] : replies[c][i][r] <= best[c][r]
            /\ \E i \in DOMAIN replies[c] : replies[c][i][r] = best[c][r]
        BY <4>1 DEF WorstIsKept
      <4>4. \A i \in DOMAIN replies[c] : replies[c][i][r] \in {0, 1, 2}
        <5> TAKE i \in DOMAIN replies[c]
        <5>1. replies[c][i] \in Replied /\ DOMAIN replies[c][i] = asked[c]
          BY <1>4, <1>6 DEF WorstIsKept
        <5> QED BY <5>1 DEF Replied, Probability
      <4>5. worst[r] = IF answers[r] > best[c][r] THEN answers[r] ELSE best[c][r] BY <1>7, <4>1
      <4>6. \A i \in DOMAIN new : new[i] = answers \/ (i \in DOMAIN replies[c] /\ new[i] = replies[c][i])
        BY <1>6
      <4>7. \A i \in DOMAIN new : new[i][r] <= worst[r] BY <3>1, <4>2, <4>3, <4>4, <4>5, <4>6
      <4>8. \E i \in DOMAIN new : new[i][r] = worst[r]
        <5>1. CASE answers[r] > best[c][r] BY <1>6, <4>5, <5>1
        <5>2. CASE ~(answers[r] > best[c][r])
          <6>1. PICK i \in DOMAIN replies[c] : replies[c][i][r] = best[c][r] BY <4>3
          <6>2. i \in DOMAIN new /\ new[i] = replies[c][i] BY <1>6
          <6> QED BY <4>5, <5>2, <6>1, <6>2
        <5> QED BY <5>1, <5>2
      <4> QED BY <4>7, <4>8
    <3> QED BY <3>2, <3>3
  <2> HIDE DEF new, worst
  <2> QED BY <2>1, <2>2
<1>13. said[c] = "none" /\ told[c] = <<>> BY <1>3 DEF RepliesCounted
<1> HIDE DEF new, worst
<1>14. PassedIsChecked' BY <1>3, <1>8, <1>13 DEF PassedIsChecked, JudgedBelow
<1>15. BlameIsFair' BY <1>3, <1>8, <1>13, NoAnswers DEF BlameIsFair
<1> QED BY <1>10, <1>11, <1>12, <1>14, <1>15

LEMMA BandsOfAnswers ==
  ASSUME NEW p \in Probability
  PROVE (bandFor(p) = "deny" <=> p = 2) /\ (bandFor(p) = "route" <=> p = 1) /\ (bandFor(p) = "allow" <=> p = 0)
  BY DEF Probability, bandFor

\* What a verdict is made of: every answer, or none.
LEMMA AllOrNothing ==
  ASSUME IInv, NEW c \in Asker, pc[c] \in {"off", "answered", "failed"}
  PROVE \/ /\ Len(replies[c]) = parts[c] /\ Unanswered(c) = {}
           /\ Denied(c) = {r \in asked[c] : best[c][r] = 2}
           /\ Banded(c, "route") = {r \in asked[c] : best[c][r] = 1}
           /\ \A r \in asked[c] :
                /\ best[c][r] \in Probability
                /\ \A i \in DOMAIN replies[c] : replies[c][i][r] \in Probability /\ replies[c][i][r] <= best[c][r]
                /\ \E i \in DOMAIN replies[c] : replies[c][i][r] = best[c][r]
        \/ /\ Len(replies[c]) < parts[c] /\ Unanswered(c) = asked[c]
           /\ Denied(c) = asked[c] \cap Critical /\ Banded(c, "route") = {}
<1> USE DEF IInv
<1>1. CASE pc[c] = "answered"
  <2>1. Len(replies[c]) = parts[c] /\ Answers(c) = best[c] BY <1>1 DEF RepliesCounted, Answers
  <2>2. DOMAIN best[c] = asked[c]
    <3>1. parts[c] \in Nat \ {0} BY ClassifierTierAssumption DEF Typed
    <3>2. replies[c] # <<>> BY <2>1, <3>1
    <3> QED BY <3>2 DEF WorstIsKept
  <2>3. \A r \in asked[c] : best[c][r] \in Probability BY <2>2 DEF Typed, Replied
  <2>4. \A r \in asked[c] : \A i \in DOMAIN replies[c] : replies[c][i][r] \in Probability
    <3> TAKE r \in asked[c]
    <3> TAKE i \in DOMAIN replies[c]
    <3>1. replies[c][i] \in Replied /\ DOMAIN replies[c][i] = asked[c] BY DEF Typed, WorstIsKept
    <3> QED BY <3>1 DEF Replied
  <2>5. Unanswered(c) = {} BY <2>1, <2>2 DEF Unanswered
  <2>6. Banded(c, "route") = {r \in asked[c] : best[c][r] = 1}
    BY <2>1, <2>2, <2>3, BandsOfAnswers DEF Banded
  <2>7. Banded(c, "deny") = {r \in asked[c] : best[c][r] = 2}
    BY <2>1, <2>2, <2>3, BandsOfAnswers DEF Banded
  <2>8. Denied(c) = {r \in asked[c] : best[c][r] = 2} BY <2>5, <2>7 DEF Denied
  <2> QED BY <2>1, <2>2, <2>3, <2>4, <2>5, <2>6, <2>8 DEF WorstIsKept
<1>2. CASE pc[c] # "answered"
  <2>1. Len(replies[c]) < parts[c] BY <1>2 DEF RepliesCounted
  <2>2. DOMAIN Answers(c) = {} BY <1>2, NoAnswers DEF Answers
  <2>3. Unanswered(c) = asked[c] BY <2>2 DEF Unanswered
  <2>4. \A band : Banded(c, band) = {} BY <2>2 DEF Banded
  <2> QED BY <2>1, <2>3, <2>4 DEF Denied
<1> QED BY <1>1, <1>2

\* The verdict of a call and what is counted, whoever settles it.
LEMMA SettleKeeps ==
  ASSUME IInv, NEW c \in Asker, NEW v \in {"allow", "approved", "route", "deny", "error"},
         NEW counts \in Count, NEW line \in {"none", "written", "lost"}, Settle(c, v, counts, line),
         v \in {"allow", "approved"} =>
           /\ Denied(c) = {}
           /\ v = "allow" => Banded(c, "route") = {} /\ (Unchecked(c) # {} => line # "none")
           /\ v = "approved" => Unchecked(c) = {}
           /\ c \in Land => v = "allow" /\ line # "lost",
         \A r \in DOMAIN counts : counts[r] = "violated" => v \in {"deny", "error"} /\ r \in Denied(c),
         v = "deny" => \E r \in DOMAIN counts : counts[r] = "violated"
  PROVE IInv'
<1> USE DEF IInv
<1>1. /\ pc[c] \in {"off", "answered", "failed"} /\ UNCHANGED <<saved, live, accepted, asked, parts, replies, best>>
      /\ pc' = [pc EXCEPT ![c] = "done"] /\ said' = [said EXCEPT ![c] = v]
      /\ told' = [told EXCEPT ![c] = counts] /\ note' = [note EXCEPT ![c] = line]
  BY DEF Settle, Enter, settings, scope, asking
<1>2. \A d \in Asker : /\ pc'[d] = IF d = c THEN "done" ELSE pc[d]
                       /\ said'[d] = IF d = c THEN v ELSE said[d]
                       /\ told'[d] = IF d = c THEN counts ELSE told[d]
                       /\ note'[d] = IF d = c THEN line ELSE note[d]
  BY <1>1 DEF Typed
<1>3. Typed' BY <1>1 DEF Typed
<1>4. RepliesCounted' BY <1>1, <1>2 DEF RepliesCounted
<1>5. WorstIsKept' BY <1>1 DEF WorstIsKept
<1>6. PassedIsChecked'
  <2> SUFFICES ASSUME NEW r \in asked[c], v \in {"allow", "approved"}
               PROVE \/ JudgedBelow(c, r, IF v = "allow" THEN 1 ELSE 2)
                     \/ r \notin Critical /\ v = "allow" /\ line # "none" /\ (c \in Land => line = "written")
    BY <1>1, <1>2 DEF PassedIsChecked, JudgedBelow
  <2>1. CASE Len(replies[c]) = parts[c] /\ Denied(c) = {r_ \in asked[c] : best[c][r_] = 2}
             /\ Banded(c, "route") = {r_ \in asked[c] : best[c][r_] = 1}
             /\ best[c][r] \in Probability
             /\ \A i \in DOMAIN replies[c] : replies[c][i][r] \in Probability /\ replies[c][i][r] <= best[c][r]
    <3>1. best[c][r] \in {0, 1} /\ (v = "allow" => best[c][r] = 0) BY <2>1 DEF Probability
    <3>2. \A i \in DOMAIN replies[c] : replies[c][i][r] \in {0, 1} /\ (v = "allow" => replies[c][i][r] = 0)
      <4> TAKE i \in DOMAIN replies[c]
      <4> QED BY <2>1, <3>1 DEF Probability
    <3>3. \A i \in DOMAIN replies[c] : replies[c][i][r] < (IF v = "allow" THEN 1 ELSE 2) BY <3>2
    <3> QED BY <2>1, <3>3 DEF JudgedBelow
  <2>2. CASE Unanswered(c) = asked[c] /\ Denied(c) = asked[c] \cap Critical
    <3>1. r \notin Critical /\ r \in Unchecked(c) BY <2>2 DEF Unchecked
    <3>2. v = "allow" /\ line # "none" BY <3>1
    <3> QED BY <3>1, <3>2
  <2> QED BY <1>1, <2>1, <2>2, AllOrNothing
<1>7. BlameIsFair'
  <2>1. ASSUME NEW r \in DOMAIN counts, counts[r] = "violated"
        PROVE /\ v \in {"deny", "error"}
              /\ \/ \E i \in DOMAIN replies[c] : bandFor(replies[c][i][r]) = "deny"
                 \/ r \in Critical /\ Len(replies[c]) < parts[c]
    <3>1. v \in {"deny", "error"} /\ r \in Denied(c) BY <2>1
    <3>2. CASE /\ Denied(c) = {r_ \in asked[c] : best[c][r_] = 2}
               /\ \A q \in asked[c] : \E i \in DOMAIN replies[c] : replies[c][i][q] = best[c][q]
      <4>1. \E i \in DOMAIN replies[c] : replies[c][i][r] = 2 BY <3>1, <3>2
      <4> QED BY <3>1, <4>1, BandsOfAnswers DEF Probability
    <3>3. CASE Len(replies[c]) < parts[c] /\ Denied(c) = asked[c] \cap Critical BY <3>1, <3>3
    <3> QED BY <1>1, <3>2, <3>3, AllOrNothing
  <2> QED BY <1>1, <1>2, <2>1 DEF BlameIsFair
<1> QED BY <1>3, <1>4, <1>5, <1>6, <1>7

\* Which verdict there is, and what it says of the rules.
LEMMA VerdictsAre ==
  ASSUME IInv, NEW c \in Asker, pc[c] \in {"off", "answered", "failed"}
  PROVE /\ VerdictOf(c) \in {"allow", "route", "deny"} /\ (VerdictOf(c) = "deny" <=> Denied(c) # {})
        /\ VerdictOf(c) = "allow" => Banded(c, "route") = {}
        /\ VerdictOf(c) = "route" => Unchecked(c) = {}
        /\ Denied(c) \subseteq asked[c] /\ asked[c] \subseteq Rule
<1>1. VerdictOf(c) \in {"allow", "route", "deny"} /\ (VerdictOf(c) = "deny" <=> Denied(c) # {})
      /\ (VerdictOf(c) = "route" => Banded(c, "route") # {})
      /\ (VerdictOf(c) = "allow" => Banded(c, "route") = {})
  BY DEF VerdictOf
<1>2. Banded(c, "route") # {} => Unchecked(c) = {} BY AllOrNothing DEF Unchecked
<1>3. Denied(c) \subseteq asked[c] BY AllOrNothing
<1>4. asked[c] \subseteq Rule BY DEF IInv, Typed
<1> QED BY <1>1, <1>2, <1>3, <1>4

LEMMA HookCounted ==
  ASSUME IInv, NEW c \in Asker, NEW approved \in BOOLEAN, pc[c] \in {"off", "answered", "failed"}
  PROVE /\ HookCounts(c, approved) \in Count
        /\ \A r \in DOMAIN HookCounts(c, approved) : HookCounts(c, approved)[r] = "violated" =>
             VerdictOf(c) = "deny" /\ r \in Denied(c)
        /\ VerdictOf(c) = "deny" => \E r \in DOMAIN HookCounts(c, approved) :
                                      HookCounts(c, approved)[r] = "violated"
<1> DEFINE counts == HookCounts(c, approved)
<1>1. /\ VerdictOf(c) = "deny" <=> Denied(c) # {}
      /\ Denied(c) \subseteq asked[c] /\ asked[c] \subseteq Rule
  BY VerdictsAre
<1>2. /\ DOMAIN counts = asked[c]
      /\ \A r \in asked[c] : /\ counts[r] \in {"fired", "routed", "violated"}
                             /\ counts[r] = "violated" <=> VerdictOf(c) = "deny" /\ r = Min(Denied(c))
  BY DEF HookCounts
<1>3. counts \in Count
  <2>1. counts \in [asked[c] -> {"fired", "routed", "violated"}] BY <1>2 DEF HookCounts
  <2> QED BY <1>1, <2>1 DEF Count
<1>4. VerdictOf(c) = "deny" => Min(Denied(c)) \in Denied(c)
  BY <1>1, MinIsLeast, ClassifierTierAssumption
<1> HIDE DEF counts
<1> QED BY <1>1, <1>2, <1>3, <1>4 DEF counts

LEMMA HookSettlesKeeps ==
  ASSUME IInv, NEW c \in Asker, HookSettles(c)
  PROVE IInv'
<1>1. PICK approved \in BOOLEAN, lost \in BOOLEAN :
        /\ approved => VerdictOf(c) = "route"
        /\ Settle(c, IF approved THEN "approved" ELSE VerdictOf(c), HookCounts(c, approved),
                  IF Unchecked(c) = {} THEN "none" ELSE IF lost THEN "lost" ELSE "written")
  BY DEF HookSettles
<1> DEFINE v == IF approved THEN "approved" ELSE VerdictOf(c)
           counts == HookCounts(c, approved)
           line == IF Unchecked(c) = {} THEN "none" ELSE IF lost THEN "lost" ELSE "written"
<1>2. pc[c] \in {"off", "answered", "failed"} /\ c \notin Land
  BY <1>1, ClassifierTierAssumption DEF Settle, HookSettles
<1>3. /\ VerdictOf(c) \in {"allow", "route", "deny"} /\ (VerdictOf(c) = "deny" <=> Denied(c) # {})
      /\ VerdictOf(c) = "allow" => Banded(c, "route") = {}
      /\ VerdictOf(c) = "route" => Unchecked(c) = {}
  BY <1>2, VerdictsAre
<1>4. /\ counts \in Count
      /\ \A r \in DOMAIN counts : counts[r] = "violated" => VerdictOf(c) = "deny" /\ r \in Denied(c)
      /\ VerdictOf(c) = "deny" => \E r \in DOMAIN counts : counts[r] = "violated"
  BY <1>2, HookCounted
<1>5. line \in {"none", "written", "lost"} /\ (Unchecked(c) # {} => line # "none") OBVIOUS
<1>6. /\ v \in {"allow", "approved", "route", "deny", "error"}
      /\ v = "approved" => VerdictOf(c) = "route" /\ v = "approved"
      /\ v = "deny" <=> VerdictOf(c) = "deny"
      /\ v = "allow" => VerdictOf(c) = "allow"
  BY <1>1, <1>3
<1>7. Settle(c, v, counts, line) BY <1>1
<1> HIDE DEF v, counts, line
<1>8. v \in {"allow", "approved"} =>
           /\ Denied(c) = {}
           /\ v = "allow" => Banded(c, "route") = {} /\ (Unchecked(c) # {} => line # "none")
           /\ v = "approved" => Unchecked(c) = {}
           /\ c \in Land => v = "allow" /\ line # "lost"
  BY <1>2, <1>3, <1>5, <1>6
<1> QED BY <1>4, <1>5, <1>6, <1>7, <1>8, SettleKeeps

LEMMA LandCounted ==
  ASSUME IInv, NEW c \in Asker, pc[c] \in {"off", "answered", "failed"}
  PROVE /\ LandCounts(c) \in Count /\ DOMAIN LandCounts(c) = asked[c]
        /\ \A r \in asked[c] : LandCounts(c)[r] = "violated" <=> r \in Denied(c)
<1>1. /\ DOMAIN LandCounts(c) = asked[c]
      /\ \A r \in asked[c] : /\ LandCounts(c)[r] \in {"fired", "routed", "violated"}
                             /\ LandCounts(c)[r] = "violated" <=> r \in Denied(c)
  <2>1. Denied(c) \cap Banded(c, "route") = {} BY AllOrNothing
  <2> QED BY <2>1 DEF LandCounts
<1>2. LandCounts(c) \in [asked[c] -> {"fired", "routed", "violated"}] BY <1>1 DEF LandCounts
<1>3. asked[c] \subseteq Rule BY VerdictsAre
<1> QED BY <1>1, <1>2, <1>3 DEF Count

LEMMA LandSettlesKeeps ==
  ASSUME IInv, NEW c \in Asker, LandSettles(c)
  PROVE IInv'
<1> DEFINE v == VerdictOf(c)
           counts == LandCounts(c)
           line == IF Unchecked(c) = {} THEN "none" ELSE "written"
<1>1. pc[c] \in {"off", "answered", "failed"} /\ Settle(c, v, counts, line)
  BY DEF LandSettles, Settle
<1>2. /\ v \in {"allow", "route", "deny"} /\ (v = "deny" <=> Denied(c) # {})
      /\ v = "allow" => Banded(c, "route") = {}
      /\ Denied(c) \subseteq asked[c]
  BY <1>1, VerdictsAre
<1>3. /\ counts \in Count /\ DOMAIN counts = asked[c]
      /\ \A r \in asked[c] : counts[r] = "violated" <=> r \in Denied(c)
  BY <1>1, LandCounted
<1>4. line \in {"none", "written"} /\ (Unchecked(c) # {} => line # "none") OBVIOUS
<1> HIDE DEF v, counts, line
<1> QED BY <1>1, <1>2, <1>3, <1>4, SettleKeeps

LEMMA ErrsKeep ==
  ASSUME IInv, NEW c \in Asker, HookErrs(c) \/ LandErrs(c)
  PROVE IInv'
<1>1. PICK counts \in {Nothing, LandCounts(c), HookCounts(c, TRUE), HookCounts(c, FALSE)},
           line \in {"none", "written"} : Settle(c, "error", counts, line)
  BY DEF HookErrs, LandErrs
<1>2. pc[c] \in {"off", "answered", "failed"} BY <1>1 DEF Settle
<1>3. counts \in Count BY <1>1, <1>2, LandCounted, HookCounted, NoAnswers DEF Nothing
<1>4. \A r \in DOMAIN counts : counts[r] = "violated" => r \in Denied(c)
  BY <1>1, <1>2, LandCounted, HookCounted, NoAnswers DEF Nothing
<1> QED BY <1>1, <1>3, <1>4, SettleKeeps

LEMMA NextKeeps == IInv /\ [TierNext]_tierVars => IInv'
<1> SUFFICES ASSUME IInv, [TierNext]_tierVars PROVE IInv' OBVIOUS
<1>1. ASSUME NEW c \in Asker,
             Ask(c) \/ Reply(c) \/ HookSettles(c) \/ HookErrs(c) \/ LandSettles(c) \/ LandErrs(c)
      PROVE IInv'
  BY <1>1, AskKeeps, ReplyKeeps, HookSettlesKeeps, LandSettlesKeeps, ErrsKeep
<1> QED BY <1>1, HumanKeeps DEF TierNext

\* The invariant of the classifier tier, for any rules, calls, parts of a diff and faults.
THEOREM TierInvariant == TierSpec => []IInv
  BY InitKept, NextKeeps, PTL DEF TierSpec

\* A call or a land let through was judged by every rule it asked about, on what was sent of the
\* call or of each file, no answer saying otherwise, or is noted as unjudged by a rule that is not
\* critical (decideClassifierTier, ClassifierDiffRules.check, truncateTo).
THEOREM PassedIsAlwaysChecked == TierSpec => []PassedIsChecked
<1>1. IInv => PassedIsChecked BY DEF IInv
<1> QED BY <1>1, TierInvariant, PTL

\* A rule is counted as violated only by a call that was not let through, for an answer that
\* denies or, where it is critical, for want of one; and every denial is counted
\* (recordRuleStats, ClassifierDiffRules.check).
THEOREM BlameIsAlwaysFair == TierSpec => []BlameIsFair
<1>1. IInv => BlameIsFair BY DEF IInv
<1> QED BY <1>1, TierInvariant, PTL
===============================================================================
