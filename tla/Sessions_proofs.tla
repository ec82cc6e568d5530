---------------------------- MODULE Sessions_proofs ----------------------------
(* Proofs about Sessions for every value of its constants. *)
EXTENDS Sessions, TLAPS

-------------------------------------------------------------------------------
(* The helpers keep their types. *)

\* Losing queued prompts only rewrites what became of them.
LEMMA LoseType ==
  ASSUME TypeOK, NEW S \in SUBSET Session
  PROVE  Lose(S) \in [Prompt \ {Brief} -> {"none", "thread", "queued", "delivered", "lost"}]
BY DEF TypeOK, Lose

\* Starting at most one session per role fills its handle, runner and queue.
LEMMA SpawnedType ==
  ASSUME NEW S \in SUBSET Session, NEW up \in BOOLEAN,
         NEW hs \in [Roles -> Session \cup {NoSession}],
         NEW rs \in [Session -> {"none", "live", "settled"} \cup Active],
         NEW ts \in [Session -> Seq(Prompt)],
         NEW ps \in SUBSET Session,
         Spawned(S, up, hs, rs, ts, ps)
  PROVE  /\ handle' \in [Roles -> Session \cup {NoSession}]
         /\ runner' \in [Session -> {"none", "live", "settled"} \cup Active]
         /\ turns' \in [Session -> Seq(Prompt)]
         /\ proc' \in SUBSET Session
<1> DEFINE T == IF up THEN S ELSE {}
<1>1. handle' \in [Roles -> Session \cup {NoSession}]
  BY DEF Spawned
<1>2. runner' \in [Session -> {"none", "live", "settled"} \cup Active]
  BY DEF Spawned, Active
<1>3. turns' \in [Session -> Seq(Prompt)]
  <2>1. <<Brief>> \in Seq(Prompt)
    BY DEF Prompt
  <2> QED BY <2>1 DEF Spawned
<1> QED BY <1>1, <1>2, <1>3 DEF Spawned

\* The half of an attach that both paths share.
LEMMA BeginType ==
  ASSUME TypeOK, NEW s \in Session, Begin(s)
  PROVE  /\ agent' \in {"idle", "working", "question", "done", "blocked"}
         /\ session' \in [Session -> {"none"} \cup LiveStatus \cup EndStatus]
         /\ handle' \in [Roles -> Session \cup {NoSession}]
         /\ runner' \in [Session -> {"none", "live", "settled"} \cup Active]
         /\ turns' \in [Session -> Seq(Prompt)]
         /\ proc' \in SUBSET Session
<1>1. PICK up \in Spawns :
        /\ agent' = IF Role[s] = "worker" THEN "working" ELSE agent
        /\ session' = [session EXCEPT ![s] = Recorded(up)]
        /\ Spawned({s}, up, handle, runner, turns, proc)
  BY DEF Begin
<1>2. up \in BOOLEAN
  BY DEF Spawns
<1>3. /\ agent' \in {"idle", "working", "question", "done", "blocked"}
      /\ session' \in [Session -> {"none"} \cup LiveStatus \cup EndStatus]
  BY <1>1 DEF TypeOK, Recorded, LiveStatus
<1> QED BY <1>1, <1>2, <1>3, SpawnedType DEF TypeOK

\* The exit path, whether or not it starts a reviewer.
LEMMA FinishType ==
  ASSUME TypeOK, NEW s \in Session, NEW ok \in BOOLEAN, Finish(s, ok)
  PROVE  /\ agent' \in {"idle", "working", "question", "done", "blocked"}
         /\ session' \in [Session -> {"none"} \cup LiveStatus \cup EndStatus]
         /\ queued' \in [Session -> SUBSET Line]
         /\ detaching' \in SUBSET Session
         /\ fate' \in [Prompt \ {Brief} -> {"none", "thread", "queued", "delivered", "lost"}]
         /\ handle' \in [Roles -> Session \cup {NoSession}]
         /\ runner' \in [Session -> {"none", "live", "settled"} \cup Active]
         /\ turns' \in [Session -> Seq(Prompt)]
         /\ proc' \in SUBSET Session
<1> DEFINE hs == [r \in Roles |-> IF handle[r] = s THEN NoSession ELSE handle[r]]
           rs == [runner EXCEPT ![s] = "settled"]
           ts == [turns EXCEPT ![s] = <<>>]
           ps == IF ok THEN proc \ {s} ELSE proc
<1>1. PICK R \in AutoReviewers(s, ok), up \in Spawns :
        /\ agent' = StatusAtExit(s, ok)
        /\ session' = [x \in Session |->
             IF x = s THEN (IF ok THEN "stopped" ELSE "error")
             ELSE IF x \in R THEN Recorded(up) ELSE session[x]]
        /\ queued' = [queued EXCEPT ![s] = {}]
        /\ detaching' = detaching \ {s}
        /\ fate' = Lose({s})
        /\ Spawned(R, up, hs, rs, ts, ps)
  BY DEF Finish
<1>2. R \in SUBSET Session /\ up \in BOOLEAN
  BY DEF AutoReviewers, Fresh, Spawns
<1>3. /\ hs \in [Roles -> Session \cup {NoSession}]
      /\ rs \in [Session -> {"none", "live", "settled"} \cup Active]
      /\ ts \in [Session -> Seq(Prompt)]
      /\ ps \in SUBSET Session
  BY DEF TypeOK
<1>4. agent' \in {"idle", "working", "question", "done", "blocked"}
  <2>1. StatusAtExit(s, ok) \in {agent, "idle", "done", "blocked"}
    BY DEF StatusAtExit
  <2> QED BY <1>1, <2>1 DEF TypeOK
<1>5. session' \in [Session -> {"none"} \cup LiveStatus \cup EndStatus]
  BY <1>1 DEF TypeOK, Recorded, LiveStatus, EndStatus
<1>6. queued' \in [Session -> SUBSET Line] /\ detaching' \in SUBSET Session
  BY <1>1 DEF TypeOK
<1>7. fate' \in [Prompt \ {Brief} -> {"none", "thread", "queued", "delivered", "lost"}]
  BY <1>1, LoseType
<1> HIDE DEF hs, rs, ts, ps
<1> QED BY <1>1, <1>2, <1>3, <1>4, <1>5, <1>6, <1>7, SpawnedType

\* A prompt is appended to a queue or dropped.
LEMMA PromptIntoType ==
  ASSUME TypeOK, NEW s \in Session, NEW p \in Prompt \ {Brief}, PromptInto(s, p)
  PROVE  /\ turns' \in [Session -> Seq(Prompt)]
         /\ fate' \in [Prompt \ {Brief} -> {"none", "thread", "queued", "delivered", "lost"}]
<1>1. \A q \in Seq(Prompt) : Append(q, p) \in Seq(Prompt)
  OBVIOUS
<1>2. turns' \in [Session -> Seq(Prompt)]
  <2>1. CASE runner[s] \in Stopped
    BY <2>1 DEF TypeOK, PromptInto
  <2>2. CASE runner[s] \notin Stopped
    <3>1. turns' = [turns EXCEPT ![s] = Append(turns[s], p)]
      BY <2>2 DEF PromptInto
    <3>2. turns \in [Session -> Seq(Prompt)]
      BY DEF TypeOK
    <3>3. Append(turns[s], p) \in Seq(Prompt)
      BY <1>1, <3>2
    <3> QED BY <3>1, <3>2, <3>3
  <2> QED BY <2>1, <2>2
<1>3. fate' \in [Prompt \ {Brief} -> {"none", "thread", "queued", "delivered", "lost"}]
  BY DEF TypeOK, PromptInto
<1> QED BY <1>2, <1>3

LEMMA DeliverType ==
  ASSUME TypeOK, NEW s \in Session \cup {NoSession}, NEW p \in Prompt \ {Brief}, Deliver(s, p)
  PROVE  /\ turns' \in [Session -> Seq(Prompt)]
         /\ session' \in [Session -> {"none"} \cup LiveStatus \cup EndStatus]
         /\ fate' \in [Prompt \ {Brief} -> {"none", "thread", "queued", "delivered", "lost"}]
<1>1. CASE Tracked(s)
  <2>1. s \in Session
    BY <1>1 DEF Tracked
  <2>2. PromptInto(s, p) /\ session' = [session EXCEPT ![s] = "running"]
    BY <1>1 DEF Deliver
  <2>3. session' \in [Session -> {"none"} \cup LiveStatus \cup EndStatus]
    BY <2>2 DEF TypeOK, LiveStatus
  <2> QED BY <2>1, <2>2, <2>3, PromptIntoType
<1>2. CASE ~Tracked(s)
  BY <1>2 DEF Deliver, TypeOK
<1> QED BY <1>1, <1>2

LEMMA StopSessionsType ==
  ASSUME TypeOK, NEW D \in SUBSET Session, NEW human_ \in BOOLEAN, StopSessions(D, human_)
  PROVE  /\ agent' \in {"idle", "working", "question", "done", "blocked"}
         /\ session' \in [Session -> {"none"} \cup LiveStatus \cup EndStatus]
         /\ queued' \in [Session -> SUBSET Line]
         /\ detaching' \in SUBSET Session
         /\ fate' \in [Prompt \ {Brief} -> {"none", "thread", "queued", "delivered", "lost"}]
         /\ handle' \in [Roles -> Session \cup {NoSession}]
         /\ runner' \in [Session -> {"none", "live", "settled"} \cup Active]
         /\ turns' \in [Session -> Seq(Prompt)]
<1> DEFINE hit == CutShort(D)
<1>1. hit \in SUBSET Session
  BY DEF CutShort
<1>2. agent' \in {"idle", "working", "question", "done", "blocked"}
  <2>1. StatusAfterStop(hit, human_) \subseteq {agent, "idle", "blocked", "done"}
    BY DEF StatusAfterStop
  <2> QED BY <2>1 DEF StopSessions, TypeOK
<1>3. session' \in [Session -> {"none"} \cup LiveStatus \cup EndStatus]
  BY DEF StopSessions, TypeOK, EndStatus
<1>4. queued' \in [Session -> SUBSET Line] /\ detaching' \in SUBSET Session
  BY DEF StopSessions, TypeOK
<1>5. fate' \in [Prompt \ {Brief} -> {"none", "thread", "queued", "delivered", "lost"}]
  BY <1>1, LoseType DEF StopSessions
<1>6. /\ handle' \in [Roles -> Session \cup {NoSession}]
      /\ runner' \in [Session -> {"none", "live", "settled"} \cup Active]
      /\ turns' \in [Session -> Seq(Prompt)]
  BY DEF StopSessions, TypeOK, Active
<1> QED BY <1>2, <1>3, <1>4, <1>5, <1>6

-------------------------------------------------------------------------------
(* Type correctness. *)

LEMMA TypeInit == SessionsAssumption /\ Init => TypeOK
<1> SUFFICES ASSUME SessionsAssumption, Init PROVE TypeOK
  OBVIOUS
<1>1. turns \in [Session -> Seq(Prompt)]
  <2>1. <<>> \in Seq(Prompt)
    OBVIOUS
  <2> QED BY <2>1 DEF Init
<1>2. /\ session \in [Session -> {"none"} \cup LiveStatus \cup EndStatus]
      /\ queued \in [Session -> SUBSET Line]
      /\ runner \in [Session -> {"none", "live", "settled"} \cup Active]
      /\ handle \in [Roles -> Session \cup {NoSession}]
  BY DEF Init
<1>3. /\ qstatus \in [Question -> {"none", "open", "answered", "superseded"}]
      /\ asker \in [Question -> Session \cup {NoSession}]
      /\ gstatus \in [Gate -> {"none", "pending", "approved", "denied", "spent"}]
      /\ caller \in [Gate -> Session \cup {NoSession}]
      /\ fate \in [Prompt \ {Brief} -> {"none", "thread", "queued", "delivered", "lost"}]
  BY DEF Init
<1> QED BY <1>1, <1>2, <1>3 DEF Init, TypeOK

LEMMA TypeStep ==
  ASSUME SessionsAssumption, TypeOK, [Next]_vars
  PROVE  TypeOK'
<1> USE DEF record, asks, memory, lifecycle
<1>1. ASSUME NEW s \in Session, Attach(s) PROVE TypeOK'
  BY <1>1, BeginType DEF Attach, TypeOK
<1>2. ASSUME NEW s \in Session, AttachFirst(s) PROVE TypeOK'
  BY <1>2 DEF AttachFirst, TypeOK
<1>3. ASSUME NEW s \in Session, ClaimBranch(s) PROVE TypeOK'
  BY <1>3 DEF ClaimBranch, TypeOK
<1>4. ASSUME NEW s \in Session, ClaimLost(s) PROVE TypeOK'
  BY <1>4 DEF ClaimLost, TypeOK
<1>5. ASSUME NEW s \in Session, CheckoutFails(s) PROVE TypeOK'
  BY <1>5 DEF CheckoutFails, TypeOK
<1>6. ASSUME NEW s \in Session, AttachResume(s) PROVE TypeOK'
  BY <1>6, BeginType DEF AttachResume, TypeOK
<1>7. ASSUME NEW s \in Session, Opened(s) PROVE TypeOK'
  BY <1>7 DEF Opened, TypeOK
<1>8. ASSUME NEW s \in Session, TurnEndNext(s) PROVE TypeOK'
  <2>1. turns[s] \in Seq(Prompt) /\ Len(turns[s]) > 1
    BY <1>8 DEF TurnEndNext, TypeOK
  <2>2. turns[s] # <<>> /\ Tail(turns[s]) \in Seq(Prompt)
    BY <2>1
  <2>3. turns' \in [Session -> Seq(Prompt)]
    BY <1>8, <2>2 DEF TurnEndNext, TypeOK
  <2>4. session' \in [Session -> {"none"} \cup LiveStatus \cup EndStatus]
    BY <1>8 DEF TurnEndNext, TypeOK, LiveStatus
  <2>5. fate' \in [Prompt \ {Brief} -> {"none", "thread", "queued", "delivered", "lost"}]
    BY <1>8 DEF TurnEndNext, TypeOK
  <2>6. queued' \in [Session -> SUBSET Line]
    BY <1>8 DEF TurnEndNext, TypeOK
  <2> QED BY <1>8, <2>3, <2>4, <2>5, <2>6 DEF TurnEndNext, TypeOK
<1>9. ASSUME NEW s \in Session, TurnEndWait(s) PROVE TypeOK'
  BY <1>9 DEF TurnEndWait, TypeOK, LiveStatus
<1>10. ASSUME NEW s \in Session, TurnEndStop(s) PROVE TypeOK'
  BY <1>10 DEF TurnEndStop, TypeOK, Active
<1>11. ASSUME NEW s \in Session, Exit(s) PROVE TypeOK'
  BY <1>11, FinishType DEF Exit, TypeOK
<1>12. ASSUME NEW s \in Session, Reap(s) PROVE TypeOK'
  BY <1>12 DEF Reap, TypeOK
<1>13. ASSUME NEW s \in Session, Fail(s) PROVE TypeOK'
  BY <1>13, FinishType DEF Fail, TypeOK
<1>14. ASSUME NEW q \in Question, NEW s \in Session \cup {NoSession}, Raise(q, s) PROVE TypeOK'
  BY <1>14 DEF Raise, TypeOK
<1>15. ASSUME NEW q \in Question, Answer(q) PROVE TypeOK'
  <2>1. q \in Prompt \ {Brief} /\ asker[q] \in Session \cup {NoSession}
    BY DEF SessionsAssumption, Prompt, TypeOK
  <2> QED BY <1>15, <2>1, DeliverType DEF Answer, TypeOK
<1>16. ASSUME NEW l \in Line, SayToThread(l) PROVE TypeOK'
  BY <1>16 DEF SayToThread, TypeOK
<1>17. ASSUME NEW l \in Line, SayToWorker(l) PROVE TypeOK'
  <2> DEFINE s == handle["worker"]
  <2>1. s \in Session /\ PromptInto(s, l) /\ l \in Prompt \ {Brief}
    BY <1>17 DEF SayToWorker, AnswerFromThread, SessionsAssumption, Prompt
  <2>2. /\ turns' \in [Session -> Seq(Prompt)]
        /\ fate' \in [Prompt \ {Brief} -> {"none", "thread", "queued", "delivered", "lost"}]
    BY <2>1, PromptIntoType
  <2>3. session' \in [Session -> {"none"} \cup LiveStatus \cup EndStatus]
    BY <1>17, <2>1 DEF SayToWorker, AnswerFromThread, TypeOK, LiveStatus
  <2>5. queued' \in [Session -> SUBSET Line]
    <3>1. queued' = queued \/ queued' = [queued EXCEPT ![s] = queued[s] \cup {l}]
      BY <1>17 DEF SayToWorker, AnswerFromThread
    <3>2. s \in Session
      BY <2>1
    <3>3. queued \in [Session -> SUBSET Line]
      BY DEF TypeOK
    <3> HIDE DEF s
    <3>4. queued[s] \cup {l} \in SUBSET Line
      BY <3>2, <3>3
    <3> QED BY <3>1, <3>2, <3>3, <3>4
  <2>4. /\ qstatus' \in [Question -> {"none", "open", "answered", "superseded"}]
        /\ agent' \in {"idle", "working", "question", "done", "blocked"}
        /\ human' \in {"open", "waiting_on_you", "closed"}
    BY <1>17 DEF SayToWorker, AnswerFromThread, TypeOK
  <2> QED BY <1>17, <2>2, <2>3, <2>4, <2>5 DEF SayToWorker, AnswerFromThread, TypeOK
<1>18. ASSUME NEW g \in Gate, NEW s \in Session, RouteCall(g, s) PROVE TypeOK'
  BY <1>18 DEF RouteCall, TypeOK
<1>19. ASSUME NEW g \in Gate, Retry(g) PROVE TypeOK'
  BY <1>19 DEF Retry, TypeOK
<1>20. ASSUME NEW g \in Gate, NEW d \in {"approved", "denied"}, Respond(g, d) PROVE TypeOK'
  <2>1. g \in Prompt \ {Brief} /\ caller[g] \in Session \cup {NoSession}
    BY DEF SessionsAssumption, Prompt, TypeOK
  <2>2. /\ turns' \in [Session -> Seq(Prompt)]
        /\ session' \in [Session -> {"none"} \cup LiveStatus \cup EndStatus]
        /\ fate' \in [Prompt \ {Brief} -> {"none", "thread", "queued", "delivered", "lost"}]
    BY <1>20, <2>1, DeliverType DEF Respond, Supersede
  <2> QED BY <1>20, <2>2 DEF Respond, Supersede, TypeOK
<1>21. CASE Detach
  <2>1. AllTracked \in SUBSET Session /\ TRUE \in BOOLEAN
    BY DEF AllTracked
  <2> QED BY <1>21, <2>1, StopSessionsType DEF Detach, StopSessions, TypeOK
<1>22. CASE Shutdown
  <2>1. AllTracked \in SUBSET Session /\ FALSE \in BOOLEAN
    BY DEF AllTracked
  <2>2. StopSessions(AllTracked, FALSE)
    BY <1>22 DEF Shutdown
  <2>3. closing' \in BOOLEAN /\ awaited' \in SUBSET Session /\ outages' \in Nat
    BY <1>22, <2>1 DEF Shutdown, TypeOK
  <2>4. UNCHANGED <<human, worktree, asks, attaching, branch, proc>>
    BY <2>2 DEF StopSessions
  <2> QED BY <2>1, <2>2, <2>3, <2>4, StopSessionsType DEF TypeOK
<1>23. CASE Close
  <2>1. PICK R \in Retros, up \in Spawns :
          /\ session' = [s \in Session |-> IF s \in R THEN Recorded(up) ELSE session[s]]
          /\ Spawned(R, up, handle, runner, turns, proc)
    BY <1>23 DEF Close
  <2>2. R \in SUBSET Session /\ up \in BOOLEAN
    BY DEF Retros, Fresh, Spawns
  <2>3. session' \in [Session -> {"none"} \cup LiveStatus \cup EndStatus]
    BY <2>1 DEF TypeOK, Recorded, LiveStatus
  <2>4. /\ handle \in [Roles -> Session \cup {NoSession}]
        /\ runner \in [Session -> {"none", "live", "settled"} \cup Active]
        /\ turns \in [Session -> Seq(Prompt)]
        /\ proc \in SUBSET Session
    BY DEF TypeOK
  <2>5. /\ handle' \in [Roles -> Session \cup {NoSession}]
        /\ runner' \in [Session -> {"none", "live", "settled"} \cup Active]
        /\ turns' \in [Session -> Seq(Prompt)]
        /\ proc' \in SUBSET Session
    BY <2>1, <2>2, <2>4, SpawnedType
  <2> QED BY <1>23, <2>3, <2>5 DEF Close, TypeOK
<1>24. ASSUME Forget, outages' \in Nat PROVE TypeOK'
  <2>1. /\ handle' \in [Roles -> Session \cup {NoSession}]
        /\ runner' \in [Session -> {"none", "live", "settled"} \cup Active]
    BY <1>24 DEF Forget
  <2>2. turns' \in [Session -> Seq(Prompt)]
    <3>1. <<>> \in Seq(Prompt)
      OBVIOUS
    <3> QED BY <1>24, <3>1 DEF Forget
  <2>3. fate' \in [Prompt \ {Brief} -> {"none", "thread", "queued", "delivered", "lost"}]
    BY <1>24, LoseType DEF Forget
  <2> QED BY <1>24, <2>1, <2>2, <2>3 DEF Forget, TypeOK
<1>25. CASE Restart
  <2>1. Forget /\ outages' \in Nat
    BY <1>25 DEF Restart, TypeOK
  <2> QED BY <1>24, <2>1
<1>26. CASE Crash
  <2>1. Forget /\ outages' \in Nat
    BY <1>26 DEF Crash, TypeOK
  <2> QED BY <1>24, <2>1
<1>27. CASE UNCHANGED vars
  BY <1>27 DEF vars, TypeOK
<1> QED BY <1>1, <1>2, <1>3, <1>4, <1>5, <1>6, <1>7, <1>8, <1>9, <1>10, <1>11, <1>12, <1>13,
           <1>14, <1>15, <1>16, <1>17, <1>18, <1>19, <1>20, <1>21, <1>22, <1>23, <1>25, <1>26,
           <1>27 DEF Next, SessionStep

\* Every reachable state is well typed, whatever the numbers of sessions,
\* questions, gates and lines, and however often the daemon dies.
THEOREM TypeCorrect == Spec => []TypeOK
<1>1. Init => TypeOK
  BY TypeInit, SessionsAssumption
<1>2. TypeOK /\ [Next]_vars => TypeOK'
  BY TypeStep, SessionsAssumption
<1> QED BY <1>1, <1>2, PTL DEF Spec

-------------------------------------------------------------------------------
(* How a step moves the record: an ended session stays as it is, a recorded *)
(* one stays recorded, and a new one finds its role empty.                  *)

Moves ==
  /\ \A s \in Session : session[s] \in EndStatus => session'[s] = session[s]
  /\ \A s \in Session : session[s] # "none" => session'[s] # "none"
  /\ \A s \in Session : session[s] = "none" /\ session'[s] # "none" =>
       session'[s] \in LiveStatus /\ LiveIn(Role[s]) = {}
  /\ \A s, x \in Session :
       /\ Role[s] = Role[x]
       /\ session[s] = "none" /\ session'[s] # "none"
       /\ session[x] = "none" /\ session'[x] # "none"
       => s = x

\* A session that calls, is prompted or turns over is recorded as live.
LEMMA ActiveIsLive ==
  ASSUME SlotInv, NEW s \in Session, Tracked(s) \/ runner[s] \in Active
  PROVE  Tracked(s) /\ session[s] \in LiveStatus /\ runner[s] \in Active
BY DEF SlotInv, HandlesAreLive, RunnersAreTracked

\* A delivery reaches a live session or only the thread.
LEMMA DeliverMoves ==
  ASSUME TypeOK, SlotInv, NEW s \in Session \cup {NoSession}, NEW p \in Prompt \ {Brief},
         Deliver(s, p)
  PROVE  /\ \A x \in Session : session'[x] # session[x] =>
              session[x] \in LiveStatus /\ session'[x] \in LiveStatus
<1>1. CASE Tracked(s)
  <2>1. s \in Session /\ session[s] \in LiveStatus
    BY <1>1, ActiveIsLive DEF Tracked
  <2>2. session' = [session EXCEPT ![s] = "running"]
    BY <1>1 DEF Deliver
  <2> QED BY <2>1, <2>2 DEF TypeOK, LiveStatus
<1>2. CASE ~Tracked(s)
  BY <1>2 DEF Deliver
<1> QED BY <1>1, <1>2

LEMMA LiveToLive ==
  ASSUME \A x \in Session : session'[x] # session[x] =>
           session[x] \in LiveStatus /\ session'[x] \in LiveStatus \cup EndStatus
  PROVE  Moves
BY DEF Moves, LiveStatus, EndStatus

LEMMA BeginMoves ==
  ASSUME TypeOK, NEW s \in Session, Begin(s), session[s] = "none", LiveIn(Role[s]) = {}
  PROVE  Moves
<1>1. PICK up \in Spawns : session' = [session EXCEPT ![s] = Recorded(up)]
  BY DEF Begin
<1>2. Recorded(up) \in LiveStatus
  BY DEF Recorded, LiveStatus
<1> QED BY <1>1, <1>2 DEF Moves, TypeOK, LiveStatus, EndStatus

LEMMA FinishMoves ==
  ASSUME TypeOK, SlotInv, NEW s \in Session, NEW ok \in BOOLEAN,
         runner[s] \in Active, Finish(s, ok)
  PROVE  Moves
<1>1. PICK R \in AutoReviewers(s, ok), up \in Spawns :
        session' = [x \in Session |->
             IF x = s THEN (IF ok THEN "stopped" ELSE "error")
             ELSE IF x \in R THEN Recorded(up) ELSE session[x]]
  BY DEF Finish
<1>2. session[s] \in LiveStatus
  BY ActiveIsLive
<1>3. \A x \in R : x \in Session /\ session[x] = "none" /\ LiveIn(Role[x]) = {}
  BY DEF AutoReviewers, Fresh
<1>4. Recorded(up) \in LiveStatus
  BY DEF Recorded, LiveStatus
<1>5. \A x, y \in R : x = y
  BY DEF AutoReviewers
<1> QED BY <1>1, <1>2, <1>3, <1>4, <1>5 DEF Moves, LiveStatus, EndStatus

LEMMA StopMoves ==
  ASSUME TypeOK, SlotInv, NEW D \in SUBSET Session, NEW human_ \in BOOLEAN, StopSessions(D, human_)
  PROVE  Moves
<1>1. \A s \in CutShort(D) : s \in Session /\ session[s] \in LiveStatus
  <2> TAKE s \in CutShort(D)
  <2>1. s \in Session /\ runner[s] \in Active
    BY DEF CutShort, InTurn, Active
  <2> QED BY <2>1, ActiveIsLive
<1> QED BY <1>1, LiveToLive DEF StopSessions, EndStatus

LEMMA MovesStep ==
  ASSUME SessionsAssumption, TypeOK, SlotInv, [Next]_vars
  PROVE  Moves
<1> USE DEF record, asks, memory, lifecycle
<1>1. ASSUME NEW s \in Session, Attach(s) PROVE Moves
  BY <1>1, BeginMoves DEF Attach, Fresh
<1>2. ASSUME NEW s \in Session, AttachResume(s) PROVE Moves
  <2>1. HasRepo /\ Role[s] = "worker" /\ session[s] = "none" /\ ~worktree
    BY <1>2 DEF AttachResume, SlotInv, ClaimsArePending
  <2>2. LiveIn(Role[s]) = {}
    BY <2>1 DEF SlotInv, WorkersFollowWorktree, LiveIn, LiveStatus
  <2> QED BY <1>2, <2>1, <2>2, BeginMoves DEF AttachResume
<1>3. ASSUME NEW s \in Session, Exit(s) PROVE Moves
  BY <1>3, FinishMoves DEF Exit
<1>4. ASSUME NEW s \in Session, Fail(s) PROVE Moves
  BY <1>4, FinishMoves DEF Fail
<1>5. ASSUME NEW s \in Session, TurnEndNext(s) PROVE Moves
  <2>1. session[s] \in LiveStatus
    BY <1>5, ActiveIsLive DEF TurnEndNext, InTurn, Active
  <2> QED BY <1>5, <2>1, LiveToLive DEF TurnEndNext, TypeOK, LiveStatus
<1>6. ASSUME NEW s \in Session, TurnEndWait(s) PROVE Moves
  <2>1. session[s] \in LiveStatus
    BY <1>6, ActiveIsLive DEF TurnEndWait
  <2> QED BY <1>6, <2>1, LiveToLive DEF TurnEndWait, TypeOK, LiveStatus
<1>7. ASSUME NEW q \in Question, Answer(q) PROVE Moves
  <2>1. q \in Prompt \ {Brief} /\ asker[q] \in Session \cup {NoSession}
    BY DEF SessionsAssumption, Prompt, TypeOK
  <2> QED BY <1>7, <2>1, DeliverMoves, LiveToLive DEF Answer
<1>8. ASSUME NEW g \in Gate, NEW d \in {"approved", "denied"}, Respond(g, d) PROVE Moves
  <2>1. g \in Prompt \ {Brief} /\ caller[g] \in Session \cup {NoSession}
    BY DEF SessionsAssumption, Prompt, TypeOK
  <2> QED BY <1>8, <2>1, DeliverMoves, LiveToLive DEF Respond, Supersede
<1>9. ASSUME NEW l \in Line, SayToWorker(l) PROVE Moves
  <2> DEFINE s == handle["worker"]
  <2>1. s \in Session /\ "worker" \in Roles /\ s # NoSession
    BY <1>9 DEF SayToWorker, AnswerFromThread, Roles, SessionsAssumption
  <2>2. Tracked(s)
    BY <2>1 DEF SlotInv, SlotsHoldTheirRole, Tracked
  <2>3. session[s] \in LiveStatus
    BY <2>1, <2>2, ActiveIsLive
  <2>4. session' = session \/ session' = [session EXCEPT ![s] = "running"]
    BY <1>9 DEF SayToWorker, AnswerFromThread
  <2> QED BY <2>1, <2>3, <2>4, LiveToLive DEF TypeOK, LiveStatus
<1>10. CASE Detach \/ Shutdown
  BY <1>10, StopMoves DEF Detach, Shutdown, AllTracked
<1>11. CASE Close
  <2>1. PICK R \in Retros, up \in Spawns :
          session' = [s \in Session |-> IF s \in R THEN Recorded(up) ELSE session[s]]
    BY <1>11 DEF Close
  <2>2. \A x \in R : x \in Session /\ session[x] = "none" /\ LiveIn(Role[x]) = {}
    BY DEF Retros, Fresh
  <2>3. Recorded(up) \in LiveStatus
    BY DEF Recorded, LiveStatus
  <2>4. \A x, y \in R : x = y
    BY DEF Retros
  <2> QED BY <2>1, <2>2, <2>3, <2>4 DEF Moves, LiveStatus, EndStatus
<1>12. ASSUME session' = session PROVE Moves
  BY <1>12 DEF Moves
<1>13. ASSUME NEW s \in Session,
               \/ AttachFirst(s) \/ ClaimBranch(s) \/ ClaimLost(s) \/ CheckoutFails(s)
               \/ Opened(s) \/ TurnEndStop(s) \/ Reap(s)
       PROVE  Moves
  BY <1>12, <1>13 DEF AttachFirst, ClaimBranch, ClaimLost, CheckoutFails, Opened, TurnEndStop, Reap
<1>14. ASSUME NEW q \in Question, NEW s \in Session \cup {NoSession}, Raise(q, s) PROVE Moves
  BY <1>12, <1>14 DEF Raise
<1>15. ASSUME NEW l \in Line, SayToThread(l) PROVE Moves
  BY <1>12, <1>15 DEF SayToThread
<1>16. ASSUME NEW g \in Gate, (\E s \in Session : RouteCall(g, s)) \/ Retry(g) PROVE Moves
  BY <1>12, <1>16 DEF RouteCall, Retry
<1>17. CASE Restart \/ Crash \/ UNCHANGED vars
  BY <1>12, <1>17 DEF Restart, Crash, Forget, vars
<1> QED BY <1>1, <1>2, <1>3, <1>4, <1>5, <1>6, <1>7, <1>8, <1>9, <1>10, <1>11, <1>13, <1>14,
           <1>15, <1>16, <1>17 DEF Next, SessionStep

-------------------------------------------------------------------------------
(* SlotInv is inductive. *)

\* A role that had nobody gets at most one session, and one that had a session
\* gets none.
LEMMA MovesKeepOne ==
  ASSUME TypeOK, Moves, OneLivePerRole
  PROVE  OneLivePerRole'
<1> SUFFICES ASSUME NEW s \in Session, NEW x \in Session, Role[s] = Role[x],
                    session'[s] \in LiveStatus, session'[x] \in LiveStatus
             PROVE  s = x
  BY DEF OneLivePerRole
<1>1. /\ session[s] \in LiveStatus \/ session[s] = "none"
      /\ session[x] \in LiveStatus \/ session[x] = "none"
  BY DEF TypeOK, Moves, LiveStatus, EndStatus
<1> QED BY <1>1 DEF Moves, OneLivePerRole, LiveIn, LiveStatus

\* The daemon's memory agrees with the record.
Memory == HandlesAreLive /\ RunnersAreTracked /\ SlotsHoldTheirRole

LEMMA InitSlots == SessionsAssumption /\ Init => SlotInv
BY DEF SessionsAssumption, Init, SlotInv, OneLivePerRole, HandlesAreLive, RunnersAreTracked,
       SlotsHoldTheirRole, WorkersFollowWorktree, ClaimsArePending, LiveStatus, Active, Tracked,
       Roles

\* Steps that write no handle, start or end no runner and keep live records live.
LEMMA MemoryKept ==
  ASSUME Memory, handle' = handle,
         \A s \in Session : (runner'[s] \in Active <=> runner[s] \in Active),
         \A s \in Session : session[s] \in LiveStatus => session'[s] \in LiveStatus
  PROVE  Memory'
BY DEF Memory, HandlesAreLive, RunnersAreTracked, SlotsHoldTheirRole, Tracked

LEMMA SpawnedMemory ==
  ASSUME SessionsAssumption, TypeOK,
         NEW S \in SUBSET Session, NEW up \in BOOLEAN,
         NEW hs \in [Roles -> Session \cup {NoSession}],
         NEW rs \in [Session -> {"none", "live", "settled"} \cup Active],
         NEW ts, NEW ps,
         Spawned(S, up, hs, rs, ts, ps),
         \A s \in Session : rs[s] \in Active <=> hs[Role[s]] = s,
         \A r \in Roles : hs[r] # NoSession => Role[hs[r]] = r,
         \A s \in S : hs[Role[s]] = NoSession,
         \A x, y \in S : x = y,
         \A s \in Session : hs[Role[s]] = s \/ s \in S => session'[s] \in LiveStatus
  PROVE  Memory'
<1> DEFINE T == IF up THEN S ELSE {}
<1>1. CASE T = {}
  <2>1. handle' = hs
    BY <1>1 DEF Spawned
  <2>2. \A s \in Session : runner'[s] = rs[s]
    BY <1>1 DEF Spawned
  <2> QED BY <2>1, <2>2 DEF Memory, HandlesAreLive, RunnersAreTracked, SlotsHoldTheirRole, Tracked,
             SessionsAssumption
<1>2. CASE T # {}
  <2>1. PICK x \in S : S = {x} /\ T = {x} /\ up
    BY <1>2
  <2>2. x \in Session /\ Role[x] \in Roles /\ x # NoSession
    BY <2>1 DEF SessionsAssumption
  <2>3. \A r \in Roles : handle'[r] = IF r = Role[x] THEN x ELSE hs[r]
    BY <2>1, <2>2 DEF Spawned
  <2>4. \A s \in Session : runner'[s] = IF s = x THEN "opening" ELSE rs[s]
    BY <2>1 DEF Spawned
  <2>5. handle' \in [Roles -> Session \cup {NoSession}]
    BY <2>1, <2>2, <2>3 DEF Spawned
  <2>6. SlotsHoldTheirRole'
    BY <2>2, <2>3 DEF SlotsHoldTheirRole
  <2>7. \A s \in Session : handle'[Role[s]] = s <=> s = x \/ hs[Role[s]] = s
    BY <2>1, <2>2, <2>3 DEF SessionsAssumption
  <2>8. HandlesAreLive'
    BY <2>1, <2>4, <2>7 DEF HandlesAreLive, Tracked, Active
  <2>9. RunnersAreTracked'
    BY <2>4, <2>7 DEF RunnersAreTracked, Tracked
  <2> QED BY <2>6, <2>8, <2>9 DEF Memory
<1> QED BY <1>1, <1>2

LEMMA BeginMemory ==
  ASSUME SessionsAssumption, TypeOK, Memory, NEW s \in Session, Begin(s),
         session[s] = "none", LiveIn(Role[s]) = {}
  PROVE  Memory'
<1>1. PICK up \in Spawns :
        /\ session' = [session EXCEPT ![s] = Recorded(up)]
        /\ Spawned({s}, up, handle, runner, turns, proc)
  BY DEF Begin
<1>2. up \in BOOLEAN /\ Recorded(up) \in LiveStatus
  BY DEF Spawns, Recorded, LiveStatus
<1>3. handle[Role[s]] = NoSession
  <2>1. Role[s] \in Roles
    BY DEF SessionsAssumption
  <2>2. SUFFICES ASSUME handle[Role[s]] # NoSession PROVE FALSE
    OBVIOUS
  <2>3. /\ handle[Role[s]] \in Session /\ Role[handle[Role[s]]] = Role[s]
        /\ session[handle[Role[s]]] \in LiveStatus
    BY <2>1, <2>2 DEF Memory, SlotsHoldTheirRole, HandlesAreLive, Tracked
  <2> QED BY <2>3 DEF LiveIn
<1>4. \A x \in Session : handle[Role[x]] = x \/ x \in {s} => session'[x] \in LiveStatus
  BY <1>1, <1>2 DEF Memory, HandlesAreLive, Tracked, TypeOK
<1>5. \A x \in Session : runner[x] \in Active <=> handle[Role[x]] = x
  BY DEF Memory, HandlesAreLive, RunnersAreTracked, Tracked
<1>6. \A r \in Roles : handle[r] # NoSession => Role[handle[r]] = r
  BY DEF Memory, SlotsHoldTheirRole
<1>7. /\ handle \in [Roles -> Session \cup {NoSession}]
      /\ runner \in [Session -> {"none", "live", "settled"} \cup Active]
  BY DEF TypeOK
<1> QED BY <1>1, <1>2, <1>3, <1>4, <1>5, <1>6, <1>7, SpawnedMemory

LEMMA FinishMemory ==
  ASSUME SessionsAssumption, TypeOK, Memory, NEW s \in Session, NEW ok \in BOOLEAN,
         runner[s] \in Active, Finish(s, ok)
  PROVE  Memory'
<1> DEFINE hs == [r \in Roles |-> IF handle[r] = s THEN NoSession ELSE handle[r]]
           rs == [runner EXCEPT ![s] = "settled"]
           ts == [turns EXCEPT ![s] = <<>>]
           ps == IF ok THEN proc \ {s} ELSE proc
<1>1. PICK R \in AutoReviewers(s, ok), up \in Spawns :
        /\ session' = [x \in Session |->
             IF x = s THEN (IF ok THEN "stopped" ELSE "error")
             ELSE IF x \in R THEN Recorded(up) ELSE session[x]]
        /\ Spawned(R, up, hs, rs, ts, ps)
  BY DEF Finish
<1>2. up \in BOOLEAN /\ Recorded(up) \in LiveStatus
  BY DEF Spawns, Recorded, LiveStatus
<1>3. /\ R \in SUBSET Session
      /\ \A x, y \in R : x = y
      /\ \A x \in R : session[x] = "none" /\ LiveIn(Role[x]) = {}
  BY DEF AutoReviewers, Fresh
<1>4. /\ hs \in [Roles -> Session \cup {NoSession}]
      /\ rs \in [Session -> {"none", "live", "settled"} \cup Active]
  BY DEF TypeOK
<1>5. Tracked(s) /\ session[s] \in LiveStatus
  BY DEF Memory, HandlesAreLive, RunnersAreTracked
<1>6. \A x \in Session : hs[Role[x]] = x <=> handle[Role[x]] = x /\ x # s
  BY DEF SessionsAssumption
<1>7. \A x \in Session : rs[x] \in Active <=> hs[Role[x]] = x
  <2>1. \A x \in Session : rs[x] \in Active <=> runner[x] \in Active /\ x # s
    BY DEF TypeOK, Active
  <2>2. \A x \in Session : runner[x] \in Active <=> handle[Role[x]] = x
    BY DEF Memory, HandlesAreLive, RunnersAreTracked, Tracked
  <2> HIDE DEF hs, rs
  <2> QED BY <2>1, <2>2, <1>6
<1>8. \A r \in Roles : hs[r] # NoSession => Role[hs[r]] = r
  BY DEF Memory, SlotsHoldTheirRole
<1>9. \A x \in R : hs[Role[x]] = NoSession
  <2> TAKE x \in R
  <2>1. Role[x] \in Roles
    BY <1>3 DEF SessionsAssumption
  <2>2. handle[Role[x]] = NoSession
    <3>1. SUFFICES ASSUME handle[Role[x]] # NoSession PROVE FALSE
      OBVIOUS
    <3>2. /\ handle[Role[x]] \in Session /\ Role[handle[Role[x]]] = Role[x]
          /\ session[handle[Role[x]]] \in LiveStatus
      BY <2>1, <3>1 DEF Memory, SlotsHoldTheirRole, HandlesAreLive, Tracked
    <3> QED BY <3>2, <1>3 DEF LiveIn
  <2> QED BY <2>1, <2>2
<1>10. \A x \in Session : hs[Role[x]] = x \/ x \in R => session'[x] \in LiveStatus
  <2>1. \A x \in Session : hs[Role[x]] = x => session[x] \in LiveStatus /\ x # s
    BY <1>6 DEF Memory, HandlesAreLive, Tracked
  <2>2. s \notin R
    BY <1>3, <1>5 DEF LiveStatus
  <2> HIDE DEF hs
  <2> QED BY <1>1, <1>2, <2>1, <2>2
<1> HIDE DEF hs, rs, ts, ps
<1> QED BY <1>1, <1>2, <1>3, <1>4, <1>7, <1>8, <1>9, <1>10, SpawnedMemory

LEMMA StopMemory ==
  ASSUME SessionsAssumption, TypeOK, Memory, NEW D \in SUBSET Session, NEW human_ \in BOOLEAN,
         D = AllTracked, StopSessions(D, human_)
  PROVE  Memory'
<1> DEFINE hit == CutShort(D)
<1>1. hit \in SUBSET Session
  BY DEF CutShort
<1>2. /\ handle' = [r \in Roles |-> IF handle[r] \in hit THEN NoSession ELSE handle[r]]
      /\ runner' = [s \in Session |->
           IF s \in hit THEN "settled"
           ELSE IF s \in D /\ runner[s] # "finishing" THEN "stopping" ELSE runner[s]]
      /\ session' = [s \in Session |-> IF s \in hit THEN "error" ELSE session[s]]
  BY DEF StopSessions
<1>3. \A s \in Session : s \in D <=> handle[Role[s]] = s
  BY DEF AllTracked, Tracked
<1>4. \A s \in Session : runner[s] \in Active <=> handle[Role[s]] = s
  BY DEF Memory, HandlesAreLive, RunnersAreTracked, Tracked
<1> HIDE DEF hit
<1>5. \A s \in Session : handle'[Role[s]] = s <=> handle[Role[s]] = s /\ s \notin hit
  BY <1>2 DEF SessionsAssumption
<1>6. \A s \in Session : runner'[s] \in Active <=> runner[s] \in Active /\ s \notin hit
  BY <1>2, <1>3, <1>4 DEF Active
<1>7. HandlesAreLive'
  BY <1>2, <1>4, <1>5, <1>6 DEF HandlesAreLive, Memory, Tracked
<1>8. RunnersAreTracked'
  BY <1>4, <1>5, <1>6 DEF RunnersAreTracked, Tracked
<1>9. SlotsHoldTheirRole'
  BY <1>2 DEF Memory, SlotsHoldTheirRole
<1> QED BY <1>7, <1>8, <1>9 DEF Memory

LEMMA MemoryStep ==
  ASSUME SessionsAssumption, TypeOK, SlotInv, [Next]_vars
  PROVE  Memory'
<1> USE DEF record, asks, memory, lifecycle
<1>0. Memory
  BY DEF Memory, SlotInv
<1>1. ASSUME NEW s \in Session, Attach(s) PROVE Memory'
  BY <1>0, <1>1, BeginMemory DEF Attach, Fresh
<1>2. ASSUME NEW s \in Session, AttachResume(s) PROVE Memory'
  <2>1. HasRepo /\ Role[s] = "worker" /\ session[s] = "none" /\ ~worktree
    BY <1>2 DEF AttachResume, SlotInv, ClaimsArePending
  <2>2. LiveIn(Role[s]) = {}
    BY <2>1 DEF SlotInv, WorkersFollowWorktree, LiveIn, LiveStatus
  <2> QED BY <1>0, <1>2, <2>1, <2>2, BeginMemory DEF AttachResume
<1>3. ASSUME NEW s \in Session, Exit(s) \/ Fail(s) PROVE Memory'
  BY <1>0, <1>3, FinishMemory DEF Exit, Fail
<1>4. CASE Detach \/ Shutdown
  BY <1>0, <1>4, StopMemory DEF Detach, Shutdown, AllTracked
<1>5. CASE Close
  <2>1. PICK R \in Retros, up \in Spawns :
          /\ session' = [s \in Session |-> IF s \in R THEN Recorded(up) ELSE session[s]]
          /\ Spawned(R, up, handle, runner, turns, proc)
    BY <1>5 DEF Close
  <2>2. /\ R \in SUBSET Session /\ up \in BOOLEAN
        /\ \A x, y \in R : x = y
        /\ \A x \in R : session[x] = "none" /\ LiveIn(Role[x]) = {}
    <3>1. R = {} \/ (LiveIn("lessons") = {} /\ \E x \in Fresh("lessons") : R = {x})
      BY DEF Retros
    <3> QED BY <3>1 DEF Fresh, Spawns
  <2>3. Recorded(up) \in LiveStatus
    BY DEF Recorded, LiveStatus
  <2>4. \A x \in R : handle[Role[x]] = NoSession
    <3> TAKE x \in R
    <3>1. SUFFICES ASSUME handle[Role[x]] # NoSession PROVE FALSE
      OBVIOUS
    <3>2. Role[x] \in Roles
      BY <2>2 DEF SessionsAssumption
    <3>3. /\ handle[Role[x]] \in Session /\ Role[handle[Role[x]]] = Role[x]
          /\ session[handle[Role[x]]] \in LiveStatus
      BY <1>0, <3>1, <3>2 DEF Memory, SlotsHoldTheirRole, HandlesAreLive, Tracked
    <3> QED BY <3>3, <2>2 DEF LiveIn
  <2>5. \A x \in Session : handle[Role[x]] = x \/ x \in R => session'[x] \in LiveStatus
    BY <1>0, <2>1, <2>3 DEF Memory, HandlesAreLive, Tracked
  <2>6. \A x \in Session : runner[x] \in Active <=> handle[Role[x]] = x
    BY <1>0 DEF Memory, HandlesAreLive, RunnersAreTracked, Tracked
  <2>7. \A r \in Roles : handle[r] # NoSession => Role[handle[r]] = r
    BY <1>0 DEF Memory, SlotsHoldTheirRole
  <2>8. /\ handle \in [Roles -> Session \cup {NoSession}]
        /\ runner \in [Session -> {"none", "live", "settled"} \cup Active]
    BY DEF TypeOK
  <2> QED BY <2>1, <2>2, <2>4, <2>5, <2>6, <2>7, <2>8, SpawnedMemory
<1>6. CASE Restart \/ Crash
  BY <1>6 DEF Restart, Crash, Forget, Memory, HandlesAreLive, RunnersAreTracked,
     SlotsHoldTheirRole, Tracked, Active, SessionsAssumption
<1>7. ASSUME NEW s \in Session, Opened(s) \/ TurnEndStop(s) PROVE Memory'
  BY <1>0, <1>7, MemoryKept DEF Opened, TurnEndStop, InTurn, Active, TypeOK
<1>8. ASSUME NEW s \in Session, TurnEndNext(s) \/ TurnEndWait(s) PROVE Memory'
  BY <1>0, <1>8, MemoryKept DEF TurnEndNext, TurnEndWait, TypeOK, LiveStatus
<1>9. ASSUME NEW q \in Question, Answer(q) PROVE Memory'
  <2>1. q \in Prompt \ {Brief} /\ asker[q] \in Session \cup {NoSession}
    BY DEF SessionsAssumption, Prompt, TypeOK
  <2> QED BY <1>0, <1>9, <2>1, DeliverMoves, MemoryKept DEF Answer
<1>10. ASSUME NEW g \in Gate, NEW d \in {"approved", "denied"}, Respond(g, d) PROVE Memory'
  <2>1. g \in Prompt \ {Brief} /\ caller[g] \in Session \cup {NoSession}
    BY DEF SessionsAssumption, Prompt, TypeOK
  <2> QED BY <1>0, <1>10, <2>1, DeliverMoves, MemoryKept DEF Respond, Supersede
<1>11. ASSUME NEW l \in Line, SayToWorker(l) PROVE Memory'
  <2> DEFINE s == handle["worker"]
  <2>1. session' = session \/ session' = [session EXCEPT ![s] = "running"]
    BY <1>11 DEF SayToWorker, AnswerFromThread
  <2>2. \A x \in Session : session[x] \in LiveStatus => session'[x] \in LiveStatus
    BY <2>1 DEF TypeOK, LiveStatus
  <2> QED BY <1>0, <1>11, <2>2, MemoryKept DEF SayToWorker, AnswerFromThread
<1>12. ASSUME UNCHANGED <<handle, runner, session>> PROVE Memory'
  BY <1>0, <1>12, MemoryKept
<1>13. ASSUME NEW s \in Session,
               AttachFirst(s) \/ ClaimBranch(s) \/ ClaimLost(s) \/ CheckoutFails(s) \/ Reap(s)
       PROVE  Memory'
  BY <1>12, <1>13 DEF AttachFirst, ClaimBranch, ClaimLost, CheckoutFails, Reap
<1>14. ASSUME NEW q \in Question, NEW s \in Session \cup {NoSession}, Raise(q, s) PROVE Memory'
  BY <1>12, <1>14 DEF Raise
<1>15. ASSUME NEW l \in Line, SayToThread(l) PROVE Memory'
  BY <1>12, <1>15 DEF SayToThread
<1>16. ASSUME NEW g \in Gate, (\E s \in Session : RouteCall(g, s)) \/ Retry(g) PROVE Memory'
  BY <1>12, <1>16 DEF RouteCall, Retry
<1>17. CASE UNCHANGED vars
  BY <1>12, <1>17 DEF vars
<1> QED BY <1>1, <1>2, <1>3, <1>4, <1>5, <1>6, <1>7, <1>8, <1>9, <1>10, <1>11, <1>13, <1>14,
           <1>15, <1>16, <1>17 DEF Next, SessionStep

\* The worktree, the branch and the attaches that wait for them.
Claims == WorkersFollowWorktree /\ ClaimsArePending

\* Steps that leave all of that alone and record no new worker.
LEMMA ClaimsKept ==
  ASSUME TypeOK, Claims, UNCHANGED <<worktree, branch, attaching>>,
         \A s \in Session : session[s] = "none" /\ session'[s] # "none" =>
           s \notin attaching /\ (Role[s] = "worker" => ~HasRepo \/ worktree)
  PROVE  Claims'
<1>1. WorkersFollowWorktree'
  BY DEF Claims, WorkersFollowWorktree
<1>2. ClaimsArePending'
  BY DEF Claims, ClaimsArePending, TypeOK
<1> QED BY <1>1, <1>2 DEF Claims

LEMMA ClaimsStep ==
  ASSUME SessionsAssumption, TypeOK, SlotInv, [Next]_vars
  PROVE  Claims'
<1> USE DEF record, asks, memory, lifecycle
<1>0. Claims
  BY DEF Claims, SlotInv
<1>1. ASSUME NEW s \in Session, Attach(s) PROVE Claims'
  <2>1. PICK up \in Spawns : session' = [session EXCEPT ![s] = Recorded(up)]
    BY <1>1 DEF Attach, Begin
  <2>2. s \notin attaching /\ (Role[s] = "worker" => ~HasRepo \/ worktree)
    BY <1>1 DEF Attach, Fresh, CutsBranch
  <2>3. UNCHANGED <<worktree, branch, attaching>>
    BY <1>1 DEF Attach
  <2> QED BY <1>0, <2>1, <2>2, <2>3, ClaimsKept DEF TypeOK
<1>2. ASSUME NEW s \in Session, AttachFirst(s) PROVE Claims'
  BY <1>0, <1>2 DEF AttachFirst, CutsBranch, Fresh, Claims, WorkersFollowWorktree, ClaimsArePending
<1>3. ASSUME NEW s \in Session, ClaimBranch(s) PROVE Claims'
  BY <1>0, <1>3 DEF ClaimBranch, Claims, WorkersFollowWorktree, ClaimsArePending, SessionsAssumption
<1>4. ASSUME NEW s \in Session, ClaimLost(s) PROVE Claims'
  BY <1>0, <1>4 DEF ClaimLost, Claims, WorkersFollowWorktree, ClaimsArePending
<1>5. ASSUME NEW s \in Session, CheckoutFails(s) PROVE Claims'
  BY <1>0, <1>5 DEF CheckoutFails, Claims, WorkersFollowWorktree, ClaimsArePending
<1>6. ASSUME NEW s \in Session, AttachResume(s) PROVE Claims'
  <2>1. PICK up \in Spawns : session' = [session EXCEPT ![s] = Recorded(up)]
    BY <1>6 DEF AttachResume, Begin
  <2>2. \A x \in Session : x # s => session'[x] = session[x]
    BY <2>1 DEF TypeOK
  <2>3. /\ worktree' /\ branch' = s /\ attaching' = attaching \ {s}
    BY <1>6 DEF AttachResume
  <2> QED BY <1>0, <2>2, <2>3 DEF Claims, WorkersFollowWorktree, ClaimsArePending, TypeOK
<1>7. ASSUME NEW s \in Session, NEW ok \in BOOLEAN, Finish(s, ok),
             runner[s] \in Active, UNCHANGED <<worktree, branch, attaching>>
      PROVE  Claims'
  <2>1. PICK R \in AutoReviewers(s, ok), up \in Spawns :
          session' = [x \in Session |->
             IF x = s THEN (IF ok THEN "stopped" ELSE "error")
             ELSE IF x \in R THEN Recorded(up) ELSE session[x]]
    BY <1>7 DEF Finish
  <2>2. \A x \in R : Role[x] = "reviewer"
    BY DEF AutoReviewers, Fresh
  <2>3. session[s] # "none"
    BY <1>7, ActiveIsLive DEF LiveStatus
  <2>4. \A x \in Session : session[x] = "none" /\ session'[x] # "none" => x \in R
    BY <2>1, <2>3
  <2>5. \A x \in attaching : Role[x] = "worker"
    BY <1>0 DEF Claims, ClaimsArePending
  <2> QED BY <1>0, <1>7, <2>2, <2>4, <2>5, ClaimsKept
<1>8. ASSUME NEW s \in Session, Exit(s) \/ Fail(s) PROVE Claims'
  BY <1>7, <1>8 DEF Exit, Fail
<1>9. CASE Close
  <2>1. PICK R \in Retros, up \in Spawns :
          session' = [s \in Session |-> IF s \in R THEN Recorded(up) ELSE session[s]]
    BY <1>9 DEF Close
  <2>2. \A x \in R : Role[x] = "lessons"
    BY DEF Retros, Fresh
  <2>3. \A x \in attaching : Role[x] = "worker"
    BY <1>0 DEF Claims, ClaimsArePending
  <2>4. UNCHANGED <<worktree, branch, attaching>>
    BY <1>9 DEF Close
  <2> QED BY <1>0, <2>1, <2>2, <2>3, <2>4, ClaimsKept
<1>10. CASE Restart \/ Crash
  BY <1>0, <1>10 DEF Restart, Crash, Forget, Claims, WorkersFollowWorktree, ClaimsArePending
<1>11. ASSUME UNCHANGED <<worktree, branch, attaching>>,
              \A s \in Session : session[s] = "none" => session'[s] = "none"
       PROVE  Claims'
  BY <1>0, <1>11, ClaimsKept
<1>12. CASE Detach \/ Shutdown
  <2>1. UNCHANGED <<worktree, branch, attaching>>
    BY <1>12 DEF Detach, Shutdown, StopSessions
  <2>2. \A s \in CutShort(AllTracked) : session[s] # "none"
    <3> TAKE s \in CutShort(AllTracked)
    <3>1. s \in Session /\ Tracked(s)
      BY DEF CutShort, AllTracked
    <3> QED BY <3>1, ActiveIsLive DEF LiveStatus
  <2>3. session' = [s \in Session |-> IF s \in CutShort(AllTracked) THEN "error" ELSE session[s]]
    BY <1>12 DEF Detach, Shutdown, StopSessions
  <2> QED BY <1>11, <2>1, <2>2, <2>3
<1>13. ASSUME NEW s \in Session,
              Opened(s) \/ TurnEndStop(s) \/ Reap(s)
       PROVE  Claims'
  BY <1>11, <1>13 DEF Opened, TurnEndStop, Reap
<1>14. ASSUME NEW s \in Session, TurnEndNext(s) \/ TurnEndWait(s) PROVE Claims'
  <2>1. session[s] # "none"
    BY <1>14, ActiveIsLive DEF TurnEndNext, TurnEndWait, InTurn, Active, LiveStatus
  <2> QED BY <1>11, <1>14, <2>1 DEF TurnEndNext, TurnEndWait, TypeOK
<1>15. ASSUME NEW q \in Question, Answer(q) PROVE Claims'
  <2>1. q \in Prompt \ {Brief} /\ asker[q] \in Session \cup {NoSession}
    BY DEF SessionsAssumption, Prompt, TypeOK
  <2>2. \A x \in Session : session'[x] # session[x] => session[x] \in LiveStatus
    BY <1>15, <2>1, DeliverMoves DEF Answer
  <2> QED BY <1>11, <1>15, <2>2 DEF Answer, LiveStatus
<1>16. ASSUME NEW g \in Gate, NEW d \in {"approved", "denied"}, Respond(g, d) PROVE Claims'
  <2>1. g \in Prompt \ {Brief} /\ caller[g] \in Session \cup {NoSession}
    BY DEF SessionsAssumption, Prompt, TypeOK
  <2>2. \A x \in Session : session'[x] # session[x] => session[x] \in LiveStatus
    BY <1>16, <2>1, DeliverMoves DEF Respond, Supersede
  <2> QED BY <1>11, <1>16, <2>2 DEF Respond, Supersede, LiveStatus
<1>17. ASSUME NEW l \in Line, SayToWorker(l) PROVE Claims'
  <2> DEFINE s == handle["worker"]
  <2>1. s \in Session /\ "worker" \in Roles /\ s # NoSession
    BY <1>17 DEF SayToWorker, AnswerFromThread, Roles, SessionsAssumption
  <2>2. Tracked(s)
    BY <2>1 DEF SlotInv, SlotsHoldTheirRole, Tracked
  <2>3. session[s] # "none"
    BY <2>1, <2>2, ActiveIsLive DEF LiveStatus
  <2>4. session' = session \/ session' = [session EXCEPT ![s] = "running"]
    BY <1>17 DEF SayToWorker, AnswerFromThread
  <2>5. UNCHANGED <<worktree, branch, attaching>>
    BY <1>17 DEF SayToWorker, AnswerFromThread
  <2> QED BY <1>11, <2>3, <2>4, <2>5 DEF TypeOK
<1>18. ASSUME NEW q \in Question, NEW s \in Session \cup {NoSession}, Raise(q, s) PROVE Claims'
  BY <1>11, <1>18 DEF Raise
<1>19. ASSUME NEW l \in Line, SayToThread(l) PROVE Claims'
  BY <1>11, <1>19 DEF SayToThread
<1>20. ASSUME NEW g \in Gate, (\E s \in Session : RouteCall(g, s)) \/ Retry(g) PROVE Claims'
  BY <1>11, <1>20 DEF RouteCall, Retry
<1>21. CASE UNCHANGED vars
  BY <1>11, <1>21 DEF vars
<1> QED BY <1>1, <1>2, <1>3, <1>4, <1>5, <1>6, <1>8, <1>9, <1>10, <1>12, <1>13, <1>14, <1>15,
           <1>16, <1>17, <1>18, <1>19, <1>20, <1>21 DEF Next, SessionStep

LEMMA SlotStep ==
  ASSUME SessionsAssumption, TypeOK, SlotInv, [Next]_vars
  PROVE  SlotInv'
BY MovesStep, MovesKeepOne, MemoryStep, ClaimsStep DEF SlotInv, Memory, Claims

\* The invariant holds in every reachable state.
THEOREM SlotsHold == Spec => []SlotInv
<1>1. Init => SlotInv
  BY InitSlots, SessionsAssumption
<1>2. TypeOK /\ SlotInv /\ [Next]_vars => SlotInv'
  BY SlotStep, SessionsAssumption
<1> QED BY <1>1, <1>2, TypeCorrect, PTL DEF Spec

-------------------------------------------------------------------------------
(* What attaching promises. *)

\* No role of a stream ever has two sessions recorded as live, although attach
\* does not look at the record again after it awaited git.
THEOREM OneLive == Spec => []OneLivePerRole
<1>1. SlotInv => OneLivePerRole
  BY DEF SlotInv
<1> QED BY <1>1, SlotsHold, PTL

\* A session's end is final: no delivery, marker, exit path or restart of the
\* daemon rewrites it.
THEOREM EndIsFinal == Spec => EndedStaysEnded
<1>1. TypeOK /\ SlotInv /\ [Next]_vars =>
        [\A s \in Session : session[s] \in EndStatus => session'[s] = session[s]]_vars
  BY MovesStep, SessionsAssumption DEF Moves
<1> QED BY <1>1, TypeCorrect, SlotsHold, PTL DEF Spec, EndedStaysEnded

\* The abstract slot of a role is the session recorded as live in it.
LEMMA SlotValue ==
  ASSUME SessionsAssumption, OneLivePerRole, NEW r \in Roles
  PROVE  /\ SlotOfRole[r] = NoSession <=> LiveIn(r) = {}
         /\ \A s \in Session : SlotOfRole[r] = s <=> s \in LiveIn(r)
<1>1. \A s, x \in LiveIn(r) : s = x
  BY DEF LiveIn, OneLivePerRole
<1>2. LiveIn(r) # {} => (CHOOSE s \in LiveIn(r) : TRUE) \in LiveIn(r)
  OBVIOUS
<1>3. \A s \in LiveIn(r) : s \in Session /\ s # NoSession
  BY DEF LiveIn, SessionsAssumption
<1>4. SlotOfRole[r] = IF LiveIn(r) = {} THEN NoSession ELSE CHOOSE s \in LiveIn(r) : TRUE
  BY DEF SlotOfRole
<1>5. NoSession \notin Session
  BY DEF SessionsAssumption
<1> QED BY <1>1, <1>2, <1>3, <1>4, <1>5

LEMMA SlotValueNext ==
  ASSUME SessionsAssumption, OneLivePerRole', NEW r \in Roles
  PROVE  /\ SlotOfRole'[r] = NoSession <=> LiveIn(r)' = {}
         /\ \A s \in Session : SlotOfRole'[r] = s <=> s \in LiveIn(r)'
<1>1. \A s, x \in LiveIn(r)' : s = x
  BY DEF LiveIn, OneLivePerRole
<1>2. LiveIn(r)' # {} => (CHOOSE s \in LiveIn(r)' : TRUE) \in LiveIn(r)'
  OBVIOUS
<1>3. \A s \in LiveIn(r)' : s \in Session /\ s # NoSession
  BY DEF LiveIn, SessionsAssumption
<1>4. SlotOfRole'[r] = IF LiveIn(r)' = {} THEN NoSession ELSE CHOOSE s \in LiveIn(r)' : TRUE
  BY DEF SlotOfRole
<1>5. NoSession \notin Session
  BY DEF SessionsAssumption
<1> QED BY <1>1, <1>2, <1>3, <1>4, <1>5

\* Every step of the stream keeps, takes or leaves each slot.
LEMMA AbstractStep ==
  ASSUME SessionsAssumption, TypeOK, OneLivePerRole, OneLivePerRole', Moves
  PROVE  Abstract!Next
<1>1. ASSUME NEW r \in Roles PROVE Abstract!Keep(r) \/ Abstract!Take(r) \/ Abstract!Leave(r)
  <2>1. CASE LiveIn(r) = {} /\ LiveIn(r)' = {}
    BY <2>1, SlotValue, SlotValueNext DEF Abstract!Keep
  <2>2. CASE LiveIn(r) = {} /\ LiveIn(r)' # {}
    <3>1. PICK s \in LiveIn(r)' : TRUE
      BY <2>2
    <3>2. s \in Session /\ Role[s] = r /\ session'[s] \in LiveStatus
      BY <3>1 DEF LiveIn
    <3>3. session[s] \notin LiveStatus
      BY <2>2, <3>2 DEF LiveIn
    <3>4. session[s] = "none"
      BY <3>2, <3>3 DEF Moves, TypeOK, LiveStatus, EndStatus
    <3>5. s \notin UsedSessions /\ SlotOfRole'[r] = s /\ SlotOfRole[r] = NoSession
      BY <2>2, <3>1, <3>2, <3>4, SlotValue, SlotValueNext DEF UsedSessions
    <3> QED BY <3>2, <3>5 DEF Abstract!Take, Abstract!Empty
  <2>3. CASE LiveIn(r) # {}
    <3>1. PICK s \in LiveIn(r) : TRUE
      BY <2>3
    <3>2. s \in Session /\ Role[s] = r /\ session[s] \in LiveStatus /\ s # NoSession
      BY <3>1 DEF LiveIn, SessionsAssumption
    <3>3. SlotOfRole[r] = s
      BY <3>1, <3>2, SlotValue
    <3>4. CASE session'[s] \in LiveStatus
      <4>1. SlotOfRole'[r] = s
        BY <3>2, <3>4, SlotValueNext DEF LiveIn
      <4> QED BY <3>3, <4>1 DEF Abstract!Keep
    <3>5. CASE session'[s] \notin LiveStatus
      <4>1. ASSUME NEW x \in LiveIn(r)' PROVE FALSE
        <5>1. x \in Session /\ Role[x] = r /\ session'[x] \in LiveStatus /\ x # s
          BY <3>5, <4>1 DEF LiveIn
        <5>2. session[x] \notin LiveStatus
          BY <3>2, <5>1 DEF OneLivePerRole
        <5>3. session[x] = "none"
          BY <5>1, <5>2 DEF Moves, TypeOK, LiveStatus, EndStatus
        <5> QED BY <5>1, <5>3, <2>3 DEF Moves, LiveStatus
      <4>2. SlotOfRole'[r] = NoSession
        BY <4>1, SlotValueNext
      <4> QED BY <3>2, <3>3, <4>2 DEF Abstract!Leave, Abstract!Empty
    <3> QED BY <3>4, <3>5
  <2> QED BY <2>1, <2>2, <2>3
<1>2. UsedSessions' = UsedSessions \cup {s \in Session : \E r \in Roles : SlotOfRole'[r] = s}
  <2>1. \A s \in Session : session'[s] # "none" <=>
          session[s] # "none" \/ \E r \in Roles : SlotOfRole'[r] = s
    <3> TAKE s \in Session
    <3>1. CASE session[s] # "none"
      BY <3>1 DEF Moves
    <3>2. CASE session[s] = "none"
      <4>1. ASSUME session'[s] # "none" PROVE \E r \in Roles : SlotOfRole'[r] = s
        <5>1. session'[s] \in LiveStatus /\ Role[s] \in Roles
          BY <3>2, <4>1 DEF Moves, SessionsAssumption
        <5> QED BY <5>1, SlotValueNext DEF LiveIn
      <4>2. ASSUME NEW r \in Roles, SlotOfRole'[r] = s PROVE session'[s] # "none"
        <5>1. s \in LiveIn(r)'
          BY <4>2, SlotValueNext
        <5> QED BY <5>1 DEF LiveIn, LiveStatus
      <4> QED BY <3>2, <4>1, <4>2
    <3> QED BY <3>1, <3>2
  <2> QED BY <2>1 DEF UsedSessions
<1> QED BY <1>1, <1>2 DEF Abstract!Next

LEMMA AbstractInit ==
  ASSUME SessionsAssumption, Init
  PROVE  Abstract!Init
<1>1. \A r \in Roles : LiveIn(r) = {}
  BY DEF Init, LiveIn, LiveStatus
<1>2. SlotOfRole = [r \in Roles |-> NoSession]
  BY <1>1 DEF SlotOfRole
<1>3. UsedSessions = {}
  BY DEF Init, UsedSessions
<1> QED BY <1>2, <1>3 DEF Abstract!Init

\* The stream record implements Slots: one session per role at a time, each used
\* once, whatever runners, turns, git and restarts do.
THEOREM Refinement == Spec => ImplementsSlots
<1>1. Init => Abstract!Init
  BY AbstractInit, SessionsAssumption
<1>2. TypeOK /\ SlotInv /\ SlotInv' /\ [Next]_vars => [Abstract!Next]_<<SlotOfRole, UsedSessions>>
  BY MovesStep, AbstractStep, SessionsAssumption DEF SlotInv
<1> QED BY <1>1, <1>2, TypeCorrect, SlotsHold, PTL DEF Spec, ImplementsSlots, Abstract!Spec

-------------------------------------------------------------------------------
(* The turn queue, the markers and the record of one session. *)

\* Starting sessions touches those that are started and no other.
LEMMA SpawnedShape ==
  ASSUME NEW S, NEW up \in BOOLEAN, NEW hs, NEW rs, NEW ts, NEW ps,
         Spawned(S, up, hs, rs, ts, ps), NEW x \in Session
  PROVE  IF x \in S /\ up THEN runner'[x] = "opening" /\ turns'[x] = <<Brief>>
                          ELSE runner'[x] = rs[x] /\ turns'[x] = ts[x]
BY DEF Spawned

\* A session of which a step changes nothing but to let it go, or to end a wait.
LEMMA QuietKept ==
  ASSUME NEW x \in Session, QuietAt(x),
         runner'[x] = runner[x] \/ runner'[x] \notin {"opening", "live"},
         turns'[x] = turns[x], session'[x] = session[x], Waiting(x) => Waiting(x)'
  PROVE  QuietAt(x)'
BY DEF QuietAt

LEMMA LinesKept ==
  ASSUME NEW x \in Session, LinesAt(x),
         runner'[x] = runner[x] \/ (runner'[x] # "finishing" /\ runner[x] \in Active),
         turns'[x] = turns[x], queued'[x] = queued[x],
         session[x] # "none" => session'[x] # "none",
         \A l \in Line : fate'[l] = "none" => fate[l] = "none"
  PROVE  LinesAt(x)'
BY DEF LinesAt

\* A session that has just been recorded, its runner started or not.
LEMMA StartedQueue ==
  ASSUME SessionsAssumption, NEW x \in Session, LinesAt(x), QuietAt(x),
         session[x] = "none", runner[x] \notin Active, NEW up \in BOOLEAN,
         session'[x] = Recorded(up), queued'[x] = queued[x],
         IF up THEN runner'[x] = "opening" /\ turns'[x] = <<Brief>>
               ELSE runner'[x] = runner[x] /\ turns'[x] = turns[x],
         \A l \in Line : fate'[l] = "none" => fate[l] = "none"
  PROVE  QuietAt(x)' /\ LinesAt(x)'
<1>1. CASE up
  <2>1. Brief \notin Line
    BY DEF SessionsAssumption
  <2>2. turns'[x] = <<Brief>> /\ runner'[x] = "opening" /\ session'[x] = "running"
    BY <1>1 DEF Recorded
  <2>3. turns'[x] # <<>> /\ Len(turns'[x]) = 1 /\ turns'[x][1] = Brief
    BY <2>2
  <2>4. queued'[x] = {}
    BY DEF LinesAt
  <2>5. QuietAt(x)'
    BY <2>2, <2>3 DEF QuietAt
  <2>6. LinesAt(x)'
    BY <2>1, <2>2, <2>3, <2>4 DEF LinesAt
  <2> QED BY <2>5, <2>6
<1>2. CASE ~up
  BY <1>2 DEF QuietAt, LinesAt, Active, Recorded
<1> QED BY <1>1, <1>2

\* A session whose runner has settled.
LEMMA SettledQueue ==
  ASSUME NEW x \in Session, runner'[x] \in {"none", "settled"}, turns'[x] = <<>>,
         session'[x] = "none" => queued'[x] = {}
  PROVE  QuietAt(x)' /\ LinesAt(x)'
<1>1. Len(turns'[x]) = 0
  BY DEF Active
<1> QED BY <1>1 DEF QuietAt, LinesAt, Active

\* Losing prompts says nothing of a line that was never said.
LEMMA LoseKeeps ==
  ASSUME TypeOK, SessionsAssumption, NEW S, NEW l \in Line
  PROVE  Lose(S)[l] = "none" => fate[l] = "none"
<1>1. l \in DOMAIN fate
  BY DEF TypeOK, SessionsAssumption, Prompt
<1> QED BY <1>1 DEF Lose

LEMMA WaitingKept ==
  ASSUME UNCHANGED asks, NEW x \in Session, Waiting(x) PROVE Waiting(x)'
BY DEF asks, Waiting, OpenQuestions, OpenGates

LEMMA BeginQueue ==
  ASSUME SessionsAssumption, TypeOK, SlotInv, QueueInv, NEW s \in Session, Begin(s),
         session[s] = "none", UNCHANGED <<queued, fate, asks>>
  PROVE  QueueInv'
<1>1. PICK up \in Spawns :
        /\ session' = [session EXCEPT ![s] = Recorded(up)]
        /\ Spawned({s}, up, handle, runner, turns, proc)
  BY DEF Begin
<1>2. up \in BOOLEAN
  BY DEF Spawns
<1>3. runner[s] \notin Active
  BY ActiveIsLive DEF LiveStatus
<1>4. \A x \in Session : IF x \in {s} /\ up THEN runner'[x] = "opening" /\ turns'[x] = <<Brief>>
                         ELSE runner'[x] = runner[x] /\ turns'[x] = turns[x]
  BY <1>1, <1>2 DEF Spawned
<1>5. session'[s] = Recorded(up) /\ \A x \in Session \ {s} : session'[x] = session[x]
  BY <1>1 DEF TypeOK
<1>6. ASSUME NEW x \in Session PROVE QuietAt(x)' /\ LinesAt(x)'
  <2>1. QuietAt(x) /\ LinesAt(x)
    BY DEF QueueInv
  <2>2. CASE x = s
    <3>1. IF up THEN runner'[s] = "opening" /\ turns'[s] = <<Brief>>
                ELSE runner'[s] = runner[s] /\ turns'[s] = turns[s]
      BY <1>4
    <3> QED BY <1>2, <1>3, <1>5, <2>1, <2>2, <3>1, StartedQueue
  <2>3. CASE x # s
    <3>1. runner'[x] = runner[x] /\ turns'[x] = turns[x] /\ session'[x] = session[x]
      BY <1>4, <1>5, <2>3
    <3> QED BY <2>1, <3>1, WaitingKept, QuietKept, LinesKept
  <2> QED BY <2>2, <2>3
<1> QED BY <1>6 DEF QueueInv

LEMMA FinishQueue ==
  ASSUME SessionsAssumption, TypeOK, SlotInv, QueueInv, NEW s \in Session, NEW ok \in BOOLEAN,
         runner[s] \in Active, Finish(s, ok), UNCHANGED asks
  PROVE  QueueInv'
<1> DEFINE hs == [r \in Roles |-> IF handle[r] = s THEN NoSession ELSE handle[r]]
           rs == [runner EXCEPT ![s] = "settled"]
           ts == [turns EXCEPT ![s] = <<>>]
           ps == IF ok THEN proc \ {s} ELSE proc
<1>1. PICK R \in AutoReviewers(s, ok), up \in Spawns :
        /\ session' = [x \in Session |->
             IF x = s THEN (IF ok THEN "stopped" ELSE "error")
             ELSE IF x \in R THEN Recorded(up) ELSE session[x]]
        /\ queued' = [queued EXCEPT ![s] = {}]
        /\ fate' = Lose({s})
        /\ Spawned(R, up, hs, rs, ts, ps)
  BY DEF Finish
<1>2. up \in BOOLEAN /\ session[s] \in LiveStatus
  BY ActiveIsLive DEF Spawns
<1>3. \A x \in R : x \in Session /\ session[x] = "none" /\ x # s
  BY <1>2 DEF AutoReviewers, Fresh, LiveStatus
<1>4. \A x \in Session : IF x \in R /\ up THEN runner'[x] = "opening" /\ turns'[x] = <<Brief>>
                         ELSE runner'[x] = rs[x] /\ turns'[x] = ts[x]
  <2> HIDE DEF hs, rs, ts, ps
  <2> QED BY <1>1, <1>2, SpawnedShape
<1>5. /\ rs[s] = "settled" /\ ts[s] = <<>>
      /\ \A x \in Session \ {s} : rs[x] = runner[x] /\ ts[x] = turns[x] /\ queued'[x] = queued[x]
  BY <1>1 DEF TypeOK
<1>6. \A l \in Line : fate'[l] = "none" => fate[l] = "none"
  BY <1>1, LoseKeeps
<1> HIDE DEF hs, rs, ts, ps
<1>7. ASSUME NEW x \in Session PROVE QuietAt(x)' /\ LinesAt(x)'
  <2>1. QuietAt(x) /\ LinesAt(x)
    BY DEF QueueInv
  <2>2. CASE x = s
    <3>1. runner'[s] = "settled" /\ turns'[s] = <<>> /\ session'[s] # "none"
      BY <1>1, <1>3, <1>4, <1>5
    <3> QED BY <2>2, <3>1, SettledQueue
  <2>3. CASE x \in R
    <3>1. session[x] = "none" /\ x # s /\ session'[x] = Recorded(up) /\ queued'[x] = queued[x]
      BY <1>1, <1>3, <1>5, <2>3
    <3>2. runner[x] \notin Active
      BY <3>1, ActiveIsLive DEF LiveStatus
    <3>3. IF up THEN runner'[x] = "opening" /\ turns'[x] = <<Brief>>
                ELSE runner'[x] = runner[x] /\ turns'[x] = turns[x]
      BY <1>4, <1>5, <2>3, <3>1
    <3> QED BY <1>2, <1>6, <2>1, <3>1, <3>2, <3>3, StartedQueue
  <2>4. CASE x # s /\ x \notin R
    <3>1. /\ runner'[x] = runner[x] /\ turns'[x] = turns[x] /\ session'[x] = session[x]
          /\ queued'[x] = queued[x]
      BY <1>1, <1>4, <1>5, <2>4
    <3> QED BY <1>6, <2>1, <3>1, WaitingKept, QuietKept, LinesKept
  <2> QED BY <2>2, <2>3, <2>4
<1> QED BY <1>7 DEF QueueInv

LEMMA StopQueue ==
  ASSUME SessionsAssumption, TypeOK, SlotInv, QueueInv, NEW human_ \in BOOLEAN,
         StopSessions(AllTracked, human_)
  PROVE  QueueInv'
<1> DEFINE hit == CutShort(AllTracked)
<1>1. \A x \in AllTracked : x \in Session /\ runner[x] \in Active /\ session[x] # "none"
  BY ActiveIsLive DEF AllTracked, LiveStatus
<1>2. hit \subseteq AllTracked
  BY DEF CutShort
<1>3. \A l \in Line : fate'[l] = "none" => fate[l] = "none"
  BY LoseKeeps DEF StopSessions
<1>4. UNCHANGED asks
  BY DEF StopSessions
<1>5. ASSUME NEW x \in Session PROVE QuietAt(x)' /\ LinesAt(x)'
  <2>1. QuietAt(x) /\ LinesAt(x)
    BY DEF QueueInv
  <2>2. CASE x \in hit
    <3>1. runner'[x] = "settled" /\ turns'[x] = <<>> /\ session'[x] = "error"
      BY <2>2 DEF StopSessions
    <3> QED BY <3>1, SettledQueue
  <2>3. CASE x \notin hit
    <3>1. turns'[x] = turns[x] /\ session'[x] = session[x] /\ queued'[x] = queued[x]
      BY <2>3 DEF StopSessions
    <3>2. runner'[x] = runner[x] \/ (x \in AllTracked /\ runner'[x] = "stopping")
      BY <2>3 DEF StopSessions
    <3> QED BY <1>1, <1>3, <1>4, <2>1, <3>1, <3>2, WaitingKept, QuietKept, LinesKept
  <2> QED BY <2>2, <2>3
<1> QED BY <1>5 DEF QueueInv

\* A prompt at the end of a queue, or dropped.
LEMMA PromptQueue ==
  ASSUME SessionsAssumption, TypeOK, SlotInv, QueueInv,
         NEW s \in Session, NEW p \in Prompt \ {Brief}, Tracked(s), PromptInto(s, p),
         session' = [session EXCEPT ![s] = "running"],
         p \notin Line, UNCHANGED <<runner, queued>>,
         \A x \in Session \ {s} : Waiting(x) => Waiting(x)'
  PROVE  QueueInv'
<1>1. session[s] # "none" /\ runner[s] \in Active
  BY ActiveIsLive DEF LiveStatus
<1>2. \A l \in Line : l \in DOMAIN fate /\ l # p
  BY DEF TypeOK, SessionsAssumption, Prompt
<1>3. \A l \in Line : fate'[l] = fate[l]
  BY <1>2 DEF PromptInto
<1>4. session'[s] = "running" /\ \A x \in Session \ {s} : session'[x] = session[x]
  BY DEF TypeOK
<1>5. turns[s] \in Seq(Prompt)
  BY DEF TypeOK
<1>6. CASE runner[s] \in Stopped
  <2>1. turns' = turns
    BY <1>6 DEF PromptInto
  <2>2. ASSUME NEW x \in Session PROVE QuietAt(x)' /\ LinesAt(x)'
    <3>1. QuietAt(x) /\ LinesAt(x)
      BY DEF QueueInv
    <3>2. LinesAt(x)'
      BY <1>1, <1>3, <1>4, <2>1, <3>1, LinesKept
    <3>3. QuietAt(x)'
      <4>1. CASE x = s
        BY <1>6, <4>1 DEF QuietAt, Stopped
      <4>2. CASE x # s
        BY <1>4, <2>1, <3>1, <4>2, QuietKept
      <4> QED BY <4>1, <4>2
    <3> QED BY <3>2, <3>3
  <2> QED BY <2>2 DEF QueueInv
<1>7. CASE runner[s] \notin Stopped
  <2>1. turns' = [turns EXCEPT ![s] = Append(turns[s], p)]
    BY <1>7 DEF PromptInto
  <2>2. turns'[s] = Append(turns[s], p) /\ \A x \in Session \ {s} : turns'[x] = turns[x]
    BY <2>1 DEF TypeOK
  <2>3. /\ Len(turns'[s]) = Len(turns[s]) + 1 /\ turns'[s] # <<>> /\ Len(turns[s]) \in Nat
        /\ turns'[s][Len(turns[s]) + 1] = p
        /\ \A i \in 1..Len(turns[s]) : turns'[s][i] = turns[s][i]
    BY <1>5, <2>2
  <2>4. QuietAt(s)'
    BY <1>4, <2>3 DEF QuietAt
  <2>5. LinesAt(s)'
    <3>1. LinesAt(s)
      BY DEF QueueInv
    <3>2. {l \in Line : \E i \in 2..Len(turns'[s]) : turns'[s][i] = l}
            = {l \in Line : \E i \in 2..Len(turns[s]) : turns[s][i] = l}
      BY <1>2, <2>3
    <3>3. \A i \in 1..Len(turns'[s]) : turns'[s][i] \in Line => i \in 1..Len(turns[s])
      BY <1>2, <2>3
    <3>4. runner[s] # "finishing"
      BY <1>7 DEF Stopped
    <3>5. \A i, j \in 1..Len(turns'[s]) : turns'[s][i] \in Line /\ turns'[s][i] = turns'[s][j] => i = j
      BY <2>3, <3>1, <3>3 DEF LinesAt
    <3>6. \A i \in 1..Len(turns'[s]) : turns'[s][i] \in Line => fate'[turns'[s][i]] # "none"
      BY <1>3, <2>3, <3>1, <3>3 DEF LinesAt
    <3> QED BY <1>4, <3>1, <3>2, <3>4, <3>5, <3>6 DEF LinesAt
  <2>6. ASSUME NEW x \in Session \ {s} PROVE QuietAt(x)' /\ LinesAt(x)'
    <3>1. QuietAt(x) /\ LinesAt(x)
      BY DEF QueueInv
    <3> QED BY <1>3, <1>4, <2>2, <3>1, QuietKept, LinesKept
  <2> QED BY <2>4, <2>5, <2>6 DEF QueueInv
<1> QED BY <1>6, <1>7

\* A line said to the worker: a prompt, a marker if a turn is running, and the answer
\* to what the worker asked.
LEMMA SayQueue ==
  ASSUME SessionsAssumption, TypeOK, SlotInv, QueueInv, NEW l \in Line, SayToWorker(l)
  PROVE  QueueInv'
<1>0. PICK s \in Session : s = handle["worker"]
  BY DEF SayToWorker, AnswerFromThread
<1>1. s \in Session /\ runner[s] \notin Stopped /\ PromptInto(s, l) /\ fate[l] = "none"
  BY <1>0 DEF SayToWorker, AnswerFromThread
<1>2. "worker" \in Roles /\ s # NoSession
  BY <1>1 DEF Roles, SessionsAssumption
<1>3. Tracked(s)
  BY <1>0, <1>2 DEF SlotInv, SlotsHoldTheirRole, Tracked
<1>4. session[s] # "none" /\ runner[s] \in Active
  BY <1>1, <1>3, ActiveIsLive DEF LiveStatus
<1>5. UNCHANGED <<runner, asker, gstatus, caller>>
  BY DEF SayToWorker, AnswerFromThread
<1>6. \A k \in Line : k \in DOMAIN fate
  BY DEF TypeOK, SessionsAssumption, Prompt
<1>7. fate' = [fate EXCEPT ![l] = IF turns[s] = <<>> THEN "delivered" ELSE "queued"]
  BY <1>1 DEF PromptInto
<1>8. \A k \in Line : fate'[k] = "none" => fate[k] = "none" /\ k # l
  BY <1>6, <1>7
<1>9. turns' = [turns EXCEPT ![s] = Append(turns[s], l)]
  BY <1>1 DEF PromptInto
<1>10. turns'[s] = Append(turns[s], l) /\ \A x \in Session \ {s} : turns'[x] = turns[x]
  BY <1>1, <1>9 DEF TypeOK
<1>11. turns[s] \in Seq(Prompt) /\ l \in Prompt
  BY <1>1 DEF TypeOK, Prompt
<1>12. /\ Len(turns'[s]) = Len(turns[s]) + 1 /\ turns'[s] # <<>> /\ Len(turns[s]) \in Nat
       /\ turns'[s][Len(turns[s]) + 1] = l
       /\ \A i \in 1..Len(turns[s]) : turns'[s][i] = turns[s][i]
  BY <1>10, <1>11
<1>13. IF turns[s] = <<>>
       THEN session' = [session EXCEPT ![s] = "running"] /\ queued' = queued
       ELSE queued' = [queued EXCEPT ![s] = queued[s] \cup {l}] /\ session' = session
  BY <1>0 DEF SayToWorker, AnswerFromThread
<1>14. /\ session'[s] = IF turns[s] = <<>> THEN "running" ELSE session[s]
       /\ queued'[s] = IF turns[s] = <<>> THEN queued[s] ELSE queued[s] \cup {l}
       /\ \A x \in Session \ {s} : session'[x] = session[x] /\ queued'[x] = queued[x]
  BY <1>1, <1>13 DEF TypeOK
<1>15. QuietAt(s) /\ LinesAt(s)
  BY <1>1 DEF QueueInv
<1>16. \A i \in 1..Len(turns[s]) : turns[s][i] # l
  BY <1>1, <1>15 DEF LinesAt
<1>17. QuietAt(s)'
  <2>1. runner'[s] = runner[s] /\ turns'[s] # <<>>
    BY <1>5, <1>12
  <2>2. runner[s] = "opening" => session'[s] = "running"
    BY <1>14, <1>15 DEF QuietAt
  <2>3. runner[s] = "live" => session'[s] # "idle"
    BY <1>14, <1>15 DEF QuietAt
  <2> QED BY <2>1, <2>2, <2>3 DEF QuietAt
<1>18. LinesAt(s)'
  <2>1. {k \in Line : \E i \in 2..Len(turns'[s]) : turns'[s][i] = k}
          = {k \in Line : \E i \in 2..Len(turns[s]) : turns[s][i] = k}
              \cup (IF turns[s] = <<>> THEN {} ELSE {l})
    <3>1. turns[s] = <<>> <=> Len(turns[s]) = 0
      BY <1>11
    <3>2. \A i \in 2..Len(turns'[s]) :
            i \in 2..Len(turns[s]) \/ (i = Len(turns[s]) + 1 /\ turns[s] # <<>>)
      BY <1>12, <3>1
    <3>3. turns[s] # <<>> => Len(turns[s]) + 1 \in 2..Len(turns'[s])
      BY <1>12, <3>1
    <3>4. \A i \in 2..Len(turns[s]) : i \in 2..Len(turns'[s]) /\ turns'[s][i] = turns[s][i]
      BY <1>12
    <3> QED BY <1>12, <3>2, <3>3, <3>4
  <2>2. runner'[s] # "finishing" /\ session'[s] # "none"
    BY <1>1, <1>4, <1>5, <1>14 DEF Stopped
  <2>3. \A i, j \in 1..Len(turns'[s]) : turns'[s][i] \in Line /\ turns'[s][i] = turns'[s][j] => i = j
    <3>1. \A i \in 1..Len(turns'[s]) : i \in 1..Len(turns[s]) \/ i = Len(turns[s]) + 1
      BY <1>12
    <3>2. \A i, j \in 1..Len(turns[s]) : turns[s][i] \in Line /\ turns[s][i] = turns[s][j] => i = j
      BY <1>15 DEF LinesAt
    <3>3. \A i \in 1..Len(turns'[s]) :
            \/ i \in 1..Len(turns[s]) /\ turns'[s][i] = turns[s][i] /\ turns[s][i] # l
            \/ i = Len(turns[s]) + 1 /\ turns'[s][i] = l
      BY <1>12, <1>16, <3>1
    <3> QED BY <3>2, <3>3
  <2>4. \A i \in 1..Len(turns'[s]) : turns'[s][i] \in Line => fate'[turns'[s][i]] # "none"
    <3>1. \A i \in 1..Len(turns'[s]) : i \in 1..Len(turns[s]) \/ i = Len(turns[s]) + 1
      BY <1>12
    <3> QED BY <1>8, <1>12, <1>15, <3>1 DEF LinesAt
  <2>5. queued'[s] = {k \in Line : \E i \in 2..Len(turns'[s]) : turns'[s][i] = k}
    <3>1. queued[s] = {k \in Line : \E i \in 2..Len(turns[s]) : turns[s][i] = k}
      BY <1>4, <1>15 DEF LinesAt
    <3> QED BY <1>14, <2>1, <3>1
  <2> QED BY <2>2, <2>3, <2>4, <2>5 DEF LinesAt
<1>19. ASSUME NEW x \in Session \ {s} PROVE QuietAt(x)' /\ LinesAt(x)'
  <2>1. QuietAt(x) /\ LinesAt(x)
    BY DEF QueueInv
  <2>2. Waiting(x) => Waiting(x)'
    <3>1. \A q \in OpenQuestions(x) : q \in Question /\ asker[q] = x /\ qstatus[q] = "open"
      BY DEF OpenQuestions
    <3>2. qstatus' = [q \in Question |-> IF q \in OpenQuestions(s) THEN "answered" ELSE qstatus[q]]
      BY <1>0 DEF SayToWorker, AnswerFromThread
    <3>3. \A q \in OpenQuestions(x) : q \in OpenQuestions(x)'
      BY <1>5, <3>1, <3>2 DEF OpenQuestions
    <3>4. OpenGates(x)' = OpenGates(x)
      BY <1>5 DEF OpenGates
    <3> QED BY <3>3, <3>4 DEF Waiting
  <2>3. /\ runner'[x] = runner[x] /\ turns'[x] = turns[x]
        /\ session'[x] = session[x] /\ queued'[x] = queued[x]
    BY <1>5, <1>10, <1>14
  <2> QED BY <1>8, <2>1, <2>2, <2>3, QuietKept, LinesKept
<1> QED BY <1>17, <1>18, <1>19 DEF QueueInv

\* What is left of a queue when its running turn ends.
LEMMA RestOfTurns ==
  ASSUME NEW t \in Seq(Prompt), Len(t) > 1
  PROVE  /\ Len(Tail(t)) = Len(t) - 1 /\ Len(t) \in Nat /\ Tail(t) # <<>>
         /\ \A i \in 1..Len(Tail(t)) : Tail(t)[i] = t[i + 1] /\ i + 1 \in 1..Len(t)
<1>1. Len(t) \in Nat /\ t # <<>>
  OBVIOUS
<1>2. Tail(t) \in Seq(Prompt) /\ Len(Tail(t)) = Len(t) - 1
  BY <1>1
<1>3. Tail(t) # <<>>
  <2>1. Len(Tail(t)) # 0
    BY <1>2
  <2> QED BY <2>1
<1>4. \A i \in 1..Len(Tail(t)) : Tail(t)[i] = t[i + 1]
  BY <1>1, <1>2
<1> QED BY <1>1, <1>2, <1>3, <1>4

\* The next turn: its line loses its marker.
LEMMA NextQueue ==
  ASSUME SessionsAssumption, TypeOK, SlotInv, QueueInv, NEW s \in Session, TurnEndNext(s)
  PROVE  QueueInv'
<1> DEFINE t == turns[s]
<1>1. t \in Seq(Prompt) /\ Len(t) > 1 /\ runner[s] = "live"
  BY DEF TurnEndNext, InTurn, TypeOK
<1>2. turns' = [turns EXCEPT ![s] = Tail(t)]
  BY DEF TurnEndNext
<1>3. turns'[s] = Tail(t) /\ \A x \in Session \ {s} : turns'[x] = turns[x]
  BY <1>2 DEF TypeOK
<1>4. session[s] \in LiveStatus
  BY <1>1, ActiveIsLive DEF Active
<1>5. UNCHANGED runner /\ UNCHANGED asks
  BY DEF TurnEndNext
<1>6. /\ session'[s] = IF t[2] \in Line THEN "running" ELSE session[s]
      /\ queued'[s] = queued[s] \ {t[2]}
      /\ \A x \in Session \ {s} : session'[x] = session[x] /\ queued'[x] = queued[x]
  BY DEF TurnEndNext, TypeOK
<1>7. \A k \in Line : fate'[k] = "none" => fate[k] = "none"
  BY DEF TurnEndNext, TypeOK, SessionsAssumption, Prompt
<1>8. QuietAt(s) /\ LinesAt(s)
  BY DEF QueueInv
<1> HIDE DEF t
<1>9. /\ Len(turns'[s]) = Len(t) - 1 /\ Len(t) \in Nat /\ turns'[s] # <<>>
      /\ \A i \in 1..Len(turns'[s]) : turns'[s][i] = t[i + 1] /\ i + 1 \in 1..Len(t)
  BY <1>1, <1>3, RestOfTurns
<1>10. t # <<>>
  BY <1>1
<1>11. QuietAt(s)'
  BY <1>1, <1>5, <1>6, <1>8, <1>9, <1>10 DEF QuietAt, t
<1>12. LinesAt(s)'
  <2>1. queued[s] = {l \in Line : \E i \in 2..Len(t) : t[i] = l}
    BY <1>1, <1>8 DEF LinesAt, Active, t
  <2>2. \A i, j \in 1..Len(t) : t[i] \in Line /\ t[i] = t[j] => i = j
    BY <1>8 DEF LinesAt, t
  <2>3. {l \in Line : \E i \in 2..Len(turns'[s]) : turns'[s][i] = l} = queued[s] \ {t[2]}
    <3>1. ASSUME NEW l \in Line, NEW i \in 2..Len(turns'[s]), turns'[s][i] = l
          PROVE  l \in queued[s] \ {t[2]}
      <4>1. i + 1 \in 2..Len(t) /\ i + 1 # 2 /\ t[i + 1] = l /\ 2 \in 1..Len(t) /\ i + 1 \in 1..Len(t)
        BY <1>1, <1>9, <3>1
      <4>2. l # t[2]
        BY <2>2, <4>1
      <4> QED BY <2>1, <4>1, <4>2
    <3>2. ASSUME NEW l \in queued[s] \ {t[2]}
          PROVE  \E i \in 2..Len(turns'[s]) : turns'[s][i] = l
      <4>1. PICK i \in 2..Len(t) : t[i] = l
        BY <2>1
      <4>2. i # 2
        BY <4>1
      <4>3. i - 1 \in 2..Len(turns'[s]) /\ turns'[s][i - 1] = l
        BY <1>9, <4>1, <4>2
      <4> QED BY <4>3
    <3>3. queued[s] \subseteq Line
      BY <2>1
    <3> QED BY <3>1, <3>2, <3>3
  <2>4. \A i, j \in 1..Len(turns'[s]) : turns'[s][i] \in Line /\ turns'[s][i] = turns'[s][j] => i = j
    <3> TAKE i, j \in 1..Len(turns'[s])
    <3>1. turns'[s][i] = t[i + 1] /\ turns'[s][j] = t[j + 1]
          /\ i + 1 \in 1..Len(t) /\ j + 1 \in 1..Len(t)
      BY <1>9
    <3>2. turns'[s][i] \in Line /\ turns'[s][i] = turns'[s][j] => i + 1 = j + 1
      BY <2>2, <3>1
    <3>3. i + 1 = j + 1 => i = j
      OBVIOUS
    <3> QED BY <3>2, <3>3
  <2>5. \A i \in 1..Len(turns'[s]) : turns'[s][i] \in Line => fate'[turns'[s][i]] # "none"
    BY <1>7, <1>8, <1>9 DEF LinesAt, t
  <2>6. runner'[s] # "finishing" /\ session'[s] # "none"
    BY <1>1, <1>4, <1>5, <1>6 DEF LiveStatus
  <2> QED BY <1>6, <2>3, <2>4, <2>5, <2>6 DEF LinesAt
<1>13. ASSUME NEW x \in Session \ {s} PROVE QuietAt(x)' /\ LinesAt(x)'
  <2>1. QuietAt(x) /\ LinesAt(x)
    BY DEF QueueInv
  <2> QED BY <1>3, <1>5, <1>6, <1>7, <2>1, WaitingKept, QuietKept, LinesKept
<1> QED BY <1>11, <1>12, <1>13 DEF QueueInv

\* A turn that ends with nothing behind it.
LEMMA LastTurnQueue ==
  ASSUME SessionsAssumption, TypeOK, SlotInv, QueueInv, NEW s \in Session,
         InTurn(s), Len(turns[s]) = 1,
         turns' = [turns EXCEPT ![s] = <<>>],
         UNCHANGED <<queued, fate, asks>>,
         \/ UNCHANGED runner /\ session' = [session EXCEPT ![s] = "idle"] /\ Waiting(s)
         \/ runner' = [runner EXCEPT ![s] = "finishing"] /\ UNCHANGED session
  PROVE  QueueInv'
<1>1. turns'[s] = <<>> /\ \A x \in Session \ {s} : turns'[x] = turns[x]
  BY DEF TypeOK
<1>2. runner[s] \in Active /\ session[s] # "none"
  BY ActiveIsLive DEF InTurn, Active, LiveStatus
<1>3. queued[s] = {}
  <2>1. LinesAt(s)
    BY DEF QueueInv
  <2>2. queued[s] = {l \in Line : \E i \in 2..1 : turns[s][i] = l}
    BY <1>2, <2>1 DEF LinesAt
  <2> QED BY <2>2
<1>4. \A x \in Session : queued'[x] = queued[x] /\ \A l \in Line : fate'[l] = fate[l]
  OBVIOUS
<1>5. \A x \in Session \ {s} : runner'[x] = runner[x] /\ session'[x] = session[x]
  BY DEF TypeOK
<1>6. \/ session'[s] = "idle" /\ runner'[s] = "live" /\ Waiting(s)'
      \/ session'[s] = session[s] /\ runner'[s] = "finishing"
  BY WaitingKept DEF TypeOK, InTurn
<1>7. QuietAt(s)' /\ LinesAt(s)'
  <2>1. QuietAt(s)'
    BY <1>1, <1>6 DEF QuietAt
  <2>2. Len(turns'[s]) = 0
    BY <1>1
  <2>3. session'[s] # "none" /\ queued'[s] = {}
    BY <1>2, <1>3, <1>4, <1>6
  <2>4. LinesAt(s)'
    BY <1>1, <2>2, <2>3 DEF LinesAt
  <2> QED BY <2>1, <2>4
<1>8. ASSUME NEW x \in Session \ {s} PROVE QuietAt(x)' /\ LinesAt(x)'
  <2>1. QuietAt(x) /\ LinesAt(x)
    BY DEF QueueInv
  <2>2. runner'[x] = runner[x] /\ turns'[x] = turns[x] /\ session'[x] = session[x]
    BY <1>1, <1>5
  <2> QED BY <1>4, <2>1, <2>2, WaitingKept, QuietKept, LinesKept
<1> QED BY <1>7, <1>8 DEF QueueInv

\* A step of the asks only, that does not close what an idle session waits on.
LEMMA AsksQueue ==
  ASSUME QueueInv, UNCHANGED <<runner, turns, session, queued>>,
         \A x \in Session : runner[x] = "live" /\ turns[x] = <<>> /\ Waiting(x) => Waiting(x)',
         \A l \in Line : fate'[l] = "none" => fate[l] = "none"
  PROVE  QueueInv'
<1>1. ASSUME NEW x \in Session PROVE QuietAt(x)' /\ LinesAt(x)'
  <2>1. QuietAt(x) /\ LinesAt(x)
    BY DEF QueueInv
  <2>2. /\ runner'[x] = runner[x] /\ turns'[x] = turns[x]
        /\ session'[x] = session[x] /\ queued'[x] = queued[x]
    OBVIOUS
  <2>3. QuietAt(x)'
    BY <2>1, <2>2 DEF QuietAt
  <2> QED BY <2>1, <2>2, <2>3, LinesKept
<1> QED BY <1>1 DEF QueueInv

\* An answer or a decision: a prompt to the session that asked, or a note on the thread
\* when that session is over.
LEMMA DeliverQueue ==
  ASSUME SessionsAssumption, TypeOK, SlotInv, QueueInv,
         NEW s \in Session \cup {NoSession}, NEW p \in Prompt \ {Brief}, p \notin Line,
         Deliver(s, p), UNCHANGED <<runner, queued>>,
         \A x \in Session \ {s} : Waiting(x) => Waiting(x)'
  PROVE  QueueInv'
<1>1. CASE Tracked(s)
  <2>1. s \in Session /\ PromptInto(s, p) /\ session' = [session EXCEPT ![s] = "running"]
    BY <1>1 DEF Deliver, Tracked
  <2> QED BY <1>1, <2>1, PromptQueue
<1>2. CASE ~Tracked(s)
  <2>1. fate' = [fate EXCEPT ![p] = "thread"] /\ UNCHANGED <<turns, session>>
    BY <1>2 DEF Deliver
  <2>2. \A l \in Line : fate'[l] = fate[l]
    BY <2>1 DEF TypeOK, SessionsAssumption, Prompt
  <2>3. \A x \in Session : runner[x] = "live" => x # s
    BY <1>2, ActiveIsLive DEF Active
  <2> QED BY <2>1, <2>2, <2>3, AsksQueue
<1> QED BY <1>1, <1>2

LEMMA CloseQueue ==
  ASSUME SessionsAssumption, TypeOK, SlotInv, QueueInv, Close
  PROVE  QueueInv'
<1>1. PICK R \in Retros, up \in Spawns :
        /\ session' = [s \in Session |-> IF s \in R THEN Recorded(up) ELSE session[s]]
        /\ Spawned(R, up, handle, runner, turns, proc)
  BY DEF Close
<1>2. up \in BOOLEAN /\ \A x \in R : session[x] = "none"
  <2>1. R = {} \/ \E x \in Fresh("lessons") : R = {x}
    BY DEF Retros
  <2> QED BY <2>1 DEF Fresh, Spawns
<1>3. UNCHANGED <<queued, fate, asks>>
  BY DEF Close
<1>4. ASSUME NEW x \in Session PROVE QuietAt(x)' /\ LinesAt(x)'
  <2>1. QuietAt(x) /\ LinesAt(x)
    BY DEF QueueInv
  <2>2. IF x \in R /\ up THEN runner'[x] = "opening" /\ turns'[x] = <<Brief>>
                         ELSE runner'[x] = runner[x] /\ turns'[x] = turns[x]
    BY <1>1, <1>2, SpawnedShape
  <2>3. queued'[x] = queued[x] /\ \A l \in Line : fate'[l] = fate[l]
    BY <1>3
  <2>4. CASE x \in R
    <3>1. session[x] = "none" /\ runner[x] \notin Active /\ session'[x] = Recorded(up)
      BY <1>1, <1>2, <2>4, ActiveIsLive DEF LiveStatus
    <3>2. IF up THEN runner'[x] = "opening" /\ turns'[x] = <<Brief>>
                ELSE runner'[x] = runner[x] /\ turns'[x] = turns[x]
      BY <2>2, <2>4
    <3> QED BY <1>2, <2>1, <2>3, <3>1, <3>2, StartedQueue
  <2>5. CASE x \notin R
    <3>1. runner'[x] = runner[x] /\ turns'[x] = turns[x] /\ session'[x] = session[x]
      BY <1>1, <2>2, <2>5
    <3>2. Waiting(x) => Waiting(x)'
      BY <1>3, WaitingKept
    <3> QED BY <2>1, <2>3, <3>1, <3>2, QuietKept, LinesKept
  <2> QED BY <2>4, <2>5
<1> QED BY <1>4 DEF QueueInv

LEMMA ForgetQueue ==
  ASSUME QueueInv, Forget
  PROVE  QueueInv'
<1>1. ASSUME NEW x \in Session PROVE QuietAt(x)' /\ LinesAt(x)'
  <2>1. runner'[x] \in {"none", "settled"} /\ turns'[x] = <<>>
    BY DEF Forget
  <2>2. session'[x] = "none" => queued'[x] = {}
    BY DEF Forget, record, QueueInv, LinesAt
  <2> QED BY <2>1, <2>2, SettledQueue
<1> QED BY <1>1 DEF QueueInv

LEMMA InitQueue == Init => QueueInv
<1> SUFFICES ASSUME Init PROVE QueueInv
  OBVIOUS
<1>1. ASSUME NEW x \in Session PROVE QuietAt(x) /\ LinesAt(x)
  <2>1. runner[x] = "none" /\ turns[x] = <<>> /\ queued[x] = {} /\ Len(turns[x]) = 0
    BY DEF Init
  <2> QED BY <2>1 DEF QuietAt, LinesAt, Active
<1> QED BY <1>1 DEF QueueInv

LEMMA QueueStep ==
  ASSUME SessionsAssumption, TypeOK, SlotInv, QueueInv, [Next]_vars
  PROVE  QueueInv'
<1> USE DEF record, memory, lifecycle
<1>0. ASSUME UNCHANGED <<runner, turns, session, queued, asks>>,
             \A l \in Line : fate'[l] = "none" => fate[l] = "none"
      PROVE  QueueInv'
  BY <1>0, WaitingKept, AsksQueue
<1>1. ASSUME NEW s \in Session, Attach(s) PROVE QueueInv'
  BY <1>1, BeginQueue DEF Attach, Fresh
<1>2. ASSUME NEW s \in Session, AttachResume(s) PROVE QueueInv'
  <2>1. session[s] = "none"
    BY <1>2 DEF AttachResume, SlotInv, ClaimsArePending
  <2> QED BY <1>2, <2>1, BeginQueue DEF AttachResume
<1>3. ASSUME NEW s \in Session,
             AttachFirst(s) \/ ClaimBranch(s) \/ ClaimLost(s) \/ CheckoutFails(s) \/ Reap(s)
      PROVE  QueueInv'
  BY <1>0, <1>3 DEF AttachFirst, ClaimBranch, ClaimLost, CheckoutFails, Reap
<1>4. ASSUME NEW s \in Session, Opened(s) PROVE QueueInv'
  <2>1. /\ runner[s] = "opening" /\ runner' = [runner EXCEPT ![s] = "live"]
        /\ UNCHANGED <<turns, session, queued, asks, fate>>
    BY <1>4 DEF Opened
  <2>2. runner'[s] = "live" /\ \A x \in Session \ {s} : runner'[x] = runner[x]
    BY <2>1 DEF TypeOK
  <2>3. ASSUME NEW x \in Session PROVE QuietAt(x)' /\ LinesAt(x)'
    <3>1. QuietAt(x) /\ LinesAt(x)
      BY DEF QueueInv
    <3>2. turns'[x] = turns[x] /\ session'[x] = session[x] /\ queued'[x] = queued[x]
      BY <2>1
    <3>3. LinesAt(x)'
      BY <2>1, <2>2, <3>1, <3>2, LinesKept DEF Active
    <3>4. CASE x = s
      BY <2>1, <2>2, <3>1, <3>2, <3>3, <3>4 DEF QuietAt
    <3>5. CASE x # s
      BY <2>1, <2>2, <3>1, <3>2, <3>3, <3>5, WaitingKept, QuietKept
    <3> QED BY <3>4, <3>5
  <2> QED BY <2>3 DEF QueueInv
<1>5. ASSUME NEW s \in Session, TurnEndNext(s) PROVE QueueInv'
  BY <1>5, NextQueue
<1>6. ASSUME NEW s \in Session, TurnEndWait(s) PROVE QueueInv'
  BY <1>6, LastTurnQueue DEF TurnEndWait
<1>7. ASSUME NEW s \in Session, TurnEndStop(s) PROVE QueueInv'
  BY <1>7, LastTurnQueue DEF TurnEndStop
<1>8. ASSUME NEW s \in Session, Exit(s) \/ Fail(s) PROVE QueueInv'
  BY <1>8, FinishQueue DEF Exit, Fail
<1>9. ASSUME NEW q \in Question, NEW s \in Session \cup {NoSession}, Raise(q, s) PROVE QueueInv'
  <2>1. /\ qstatus' = [qstatus EXCEPT ![q] = "open"] /\ asker' = [asker EXCEPT ![q] = s]
        /\ qstatus[q] = "none" /\ UNCHANGED <<gstatus, caller>>
    BY <1>9 DEF Raise
  <2>2. \A x \in Session : OpenQuestions(x) \subseteq OpenQuestions(x)' /\ OpenGates(x)' = OpenGates(x)
    BY <2>1 DEF TypeOK, OpenQuestions, OpenGates
  <2>3. \A x \in Session : Waiting(x) => Waiting(x)'
    BY <2>2 DEF Waiting
  <2> QED BY <1>9, <2>3, AsksQueue DEF Raise
<1>10. ASSUME NEW q \in Question, Answer(q) PROVE QueueInv'
  <2>1. q \in Prompt \ {Brief} /\ q \notin Line /\ asker[q] \in Session \cup {NoSession}
    BY DEF SessionsAssumption, Prompt, TypeOK
  <2>2. /\ qstatus' = [qstatus EXCEPT ![q] = "answered"] /\ Deliver(asker[q], q)
        /\ UNCHANGED <<asker, gstatus, caller, runner, queued>>
    BY <1>10 DEF Answer
  <2>3. \A x \in Session \ {asker[q]} :
          OpenQuestions(x) \subseteq OpenQuestions(x)' /\ OpenGates(x)' = OpenGates(x)
    BY <2>2 DEF TypeOK, OpenQuestions, OpenGates
  <2>4. \A x \in Session \ {asker[q]} : Waiting(x) => Waiting(x)'
    BY <2>3 DEF Waiting
  <2> QED BY <2>1, <2>2, <2>4, DeliverQueue
<1>11. ASSUME NEW l \in Line, SayToThread(l) PROVE QueueInv'
  <2>1. \A k \in Line : fate'[k] = "none" => fate[k] = "none"
    BY <1>11 DEF SayToThread, TypeOK, SessionsAssumption, Prompt
  <2> QED BY <1>0, <1>11, <2>1 DEF SayToThread
<1>12. ASSUME NEW l \in Line, SayToWorker(l) PROVE QueueInv'
  BY <1>12, SayQueue
<1>13. ASSUME NEW g \in Gate, NEW s \in Session, RouteCall(g, s) PROVE QueueInv'
  <2>1. /\ gstatus[g] = "none" /\ gstatus' = [gstatus EXCEPT ![g] = "pending"]
        /\ caller' = [caller EXCEPT ![g] = s] /\ UNCHANGED <<qstatus, asker>>
    BY <1>13 DEF RouteCall
  <2>2. \A x \in Session : OpenGates(x) \subseteq OpenGates(x)' /\ OpenQuestions(x)' = OpenQuestions(x)
    BY <2>1 DEF TypeOK, OpenQuestions, OpenGates
  <2>3. \A x \in Session : Waiting(x) => Waiting(x)'
    BY <2>2 DEF Waiting
  <2> QED BY <1>13, <2>3, AsksQueue DEF RouteCall
<1>14. ASSUME NEW g \in Gate, Retry(g) PROVE QueueInv'
  <2>1. /\ gstatus' = [gstatus EXCEPT ![g] = "spent"] /\ CanCall(caller[g])
        /\ UNCHANGED <<qstatus, asker, caller>>
    BY <1>14 DEF Retry
  <2>2. \A x \in Session \ {caller[g]} :
          OpenGates(x) \subseteq OpenGates(x)' /\ OpenQuestions(x)' = OpenQuestions(x)
    BY <2>1 DEF TypeOK, OpenQuestions, OpenGates
  <2>3. \A x \in Session : runner[x] = "live" /\ turns[x] = <<>> => x # caller[g]
    BY <2>1 DEF CanCall, InTurn
  <2>4. \A x \in Session : runner[x] = "live" /\ turns[x] = <<>> /\ Waiting(x) => Waiting(x)'
    BY <2>2, <2>3 DEF Waiting
  <2> QED BY <1>14, <2>4, AsksQueue DEF Retry
<1>15. ASSUME NEW g \in Gate, NEW d \in {"approved", "denied"}, Respond(g, d) PROVE QueueInv'
  <2>1. g \in Prompt \ {Brief} /\ g \notin Line /\ caller[g] \in Session \cup {NoSession}
    BY DEF SessionsAssumption, Prompt, TypeOK
  <2>2. /\ gstatus' = [gstatus EXCEPT ![g] = d] /\ Deliver(caller[g], g)
        /\ qstatus' = [q \in Question |->
             IF q \in OpenQuestions(caller[g]) THEN "superseded" ELSE qstatus[q]]
        /\ UNCHANGED <<asker, caller, runner, queued>>
    BY <1>15 DEF Respond, Supersede
  <2>3. \A x \in Session \ {caller[g]} :
          OpenQuestions(x) \subseteq OpenQuestions(x)' /\ OpenGates(x) \subseteq OpenGates(x)'
    BY <2>2 DEF TypeOK, OpenQuestions, OpenGates
  <2>4. \A x \in Session \ {caller[g]} : Waiting(x) => Waiting(x)'
    BY <2>3 DEF Waiting
  <2> QED BY <2>1, <2>2, <2>4, DeliverQueue
<1>16. CASE Detach \/ Shutdown
  BY <1>16, StopQueue DEF Detach, Shutdown
<1>17. CASE Close
  BY <1>17, CloseQueue
<1>18. CASE Restart \/ Crash
  BY <1>18, ForgetQueue DEF Restart, Crash
<1>19. CASE UNCHANGED vars
  BY <1>0, <1>19 DEF vars
<1> QED BY <1>1, <1>2, <1>3, <1>4, <1>5, <1>6, <1>7, <1>8, <1>9, <1>10, <1>11, <1>12, <1>13,
           <1>14, <1>15, <1>16, <1>17, <1>18, <1>19 DEF Next, SessionStep

\* In every reachable state a session's queue, its markers and its recorded status agree.
THEOREM QueuesHold == Spec => []QueueInv
<1>1. Init => QueueInv
  BY InitQueue
<1>2. TypeOK /\ SlotInv /\ QueueInv /\ [Next]_vars => QueueInv'
  BY QueueStep, SessionsAssumption
<1> QED BY <1>1, <1>2, TypeCorrect, SlotsHold, PTL DEF Spec

\* The turn-end rule: a live session between two turns is recorded as idle, and a question
\* or a routed call of its own is still open to wake it.
THEOREM QuietSessionsWait == Spec => []QuietMeansWaiting
<1>1. QueueInv => QuietMeansWaiting
  BY DEF QueueInv, QuietAt, QuietMeansWaiting
<1> QED BY <1>1, QueuesHold, PTL

\* The `queued` markers of the page are the lines behind the running turn, whatever
\* order lines, turn ends, answers and stops come in.
THEOREM MarkersAreTheQueue == Spec => []MarkersMatchQueue
<1>1. QueueInv => MarkersMatchQueue
  BY DEF QueueInv, LinesAt, MarkersMatchQueue
<1> QED BY <1>1, QueuesHold, PTL

\* A session that is let go at the end of a turn has no prompt left in its queue.
THEOREM LettingGoLosesNothing == Spec => []TurnEndLosesNothing
<1>1. QueueInv => TurnEndLosesNothing
  <2> SUFFICES ASSUME QueueInv, NEW s \in Session, runner[s] = "finishing"
               PROVE  turns[s] = <<>> /\ queued[s] = {}
    BY DEF TurnEndLosesNothing
  <2>1. LinesAt(s)
    BY DEF QueueInv
  <2>2. turns[s] = <<>> /\ Len(turns[s]) = 0
    BY <2>1 DEF LinesAt
  <2>3. queued[s] = {l \in Line : \E i \in 2..Len(turns[s]) : turns[s][i] = l}
    BY <2>1 DEF LinesAt, Active
  <2> QED BY <2>2, <2>3
<1> QED BY <1>1, QueuesHold, PTL

-------------------------------------------------------------------------------
(* The record and the handles. *)

\* A session recorded as live runs: what makes the record agree with the handles.
Runs == \A s \in Session : session[s] \in LiveStatus => runner[s] \in Active

LEMMA DeliverRuns ==
  ASSUME TypeOK, SlotInv, Runs, NEW s \in Session \cup {NoSession}, NEW p \in Prompt \ {Brief},
         Deliver(s, p), UNCHANGED runner
  PROVE  Runs'
<1>1. \A x \in Session : session'[x] \in LiveStatus => session[x] \in LiveStatus
  BY DeliverMoves
<1> QED BY <1>1 DEF Runs

LEMMA BeginRuns ==
  ASSUME TypeOK, Runs, ~StartFailures, NEW s \in Session, Begin(s)
  PROVE  Runs'
<1>1. PICK up \in Spawns :
        /\ session' = [session EXCEPT ![s] = Recorded(up)]
        /\ Spawned({s}, up, handle, runner, turns, proc)
  BY DEF Begin
<1>2. up = TRUE
  BY DEF Spawns
<1>3. \A x \in Session : runner'[x] = IF x = s THEN "opening" ELSE runner[x]
  BY <1>1, <1>2 DEF Spawned
<1>4. \A x \in Session \ {s} : session'[x] = session[x]
  BY <1>1 DEF TypeOK
<1>5. runner'[s] \in Active
  BY <1>3 DEF Active
<1> QED BY <1>3, <1>4, <1>5 DEF Runs

LEMMA FinishRuns ==
  ASSUME TypeOK, Runs, ~StartFailures, NEW s \in Session, NEW ok \in BOOLEAN, Finish(s, ok)
  PROVE  Runs'
<1> DEFINE rs == [runner EXCEPT ![s] = "settled"]
           hs == [r \in Roles |-> IF handle[r] = s THEN NoSession ELSE handle[r]]
           ts == [turns EXCEPT ![s] = <<>>]
           ps == IF ok THEN proc \ {s} ELSE proc
<1>1. PICK R \in AutoReviewers(s, ok), up \in Spawns :
        /\ session' = [x \in Session |->
             IF x = s THEN (IF ok THEN "stopped" ELSE "error")
             ELSE IF x \in R THEN Recorded(up) ELSE session[x]]
        /\ Spawned(R, up, hs, rs, ts, ps)
  BY DEF Finish
<1>2. up = TRUE /\ \A x \in R : x \in Session
  <2>1. R = {} \/ \E x \in Fresh("reviewer") : R = {x}
    BY DEF AutoReviewers
  <2> QED BY <2>1 DEF Spawns, Fresh
<1>3. \A x \in Session : runner'[x] = IF x \in R THEN "opening" ELSE rs[x]
  BY <1>1, <1>2 DEF Spawned
<1>4. \A x \in Session \ {s} : rs[x] = runner[x]
  BY DEF TypeOK
<1> HIDE DEF rs, hs, ts, ps
<1>5. session'[s] \notin LiveStatus
  BY <1>1 DEF LiveStatus
<1>6. \A x \in R : runner'[x] \in Active
  BY <1>2, <1>3 DEF Active
<1>7. \A x \in Session \ (R \cup {s}) : session'[x] = session[x] /\ runner'[x] = runner[x]
  BY <1>1, <1>3, <1>4
<1> QED BY <1>2, <1>5, <1>6, <1>7 DEF Runs

LEMMA CloseRuns ==
  ASSUME TypeOK, Runs, ~StartFailures, Close
  PROVE  Runs'
<1>1. PICK R \in Retros, up \in Spawns :
        /\ session' = [s \in Session |-> IF s \in R THEN Recorded(up) ELSE session[s]]
        /\ Spawned(R, up, handle, runner, turns, proc)
  BY DEF Close
<1>2. up = TRUE
  BY DEF Spawns
<1>3. \A x \in Session : runner'[x] = IF x \in R THEN "opening" ELSE runner[x]
  BY <1>1, <1>2 DEF Spawned
<1> QED BY <1>1, <1>3 DEF Runs, Active

\* A daemon that is stopping has been counted, so a restart counts too.
Counted == closing => outages > 0
AgreeInv == Counted /\ (outages = 0 /\ ~StartFailures => Runs)

LEMMA AgreeStep ==
  ASSUME SessionsAssumption, TypeOK, SlotInv, AgreeInv, [Next]_vars
  PROVE  AgreeInv'
<1> USE DEF record, asks, memory, lifecycle
<1>1. CASE Shutdown
  BY <1>1 DEF Shutdown, AgreeInv, Counted, TypeOK
<1>2. CASE Crash
  BY <1>2 DEF Crash, Forget, AgreeInv, Counted, TypeOK
<1>3. CASE Restart
  BY <1>3 DEF Restart, Forget, AgreeInv, Counted, TypeOK
<1>4. ASSUME UNCHANGED <<closing, outages>>, Runs /\ ~StartFailures => Runs'
      PROVE  AgreeInv'
  BY <1>4 DEF AgreeInv, Counted
<1>5. ASSUME UNCHANGED <<runner, closing, outages>>,
             \A x \in Session : session'[x] \in LiveStatus => session[x] \in LiveStatus
      PROVE  AgreeInv'
  BY <1>4, <1>5 DEF Runs
<1>6. ASSUME NEW s \in Session, Attach(s) \/ AttachResume(s) PROVE AgreeInv'
  BY <1>4, <1>6, BeginRuns DEF Attach, AttachResume
<1>7. ASSUME NEW s \in Session, Exit(s) \/ Fail(s) PROVE AgreeInv'
  BY <1>4, <1>7, FinishRuns DEF Exit, Fail
<1>8. CASE Close
  BY <1>4, <1>8, CloseRuns DEF Close
<1>9. CASE Detach
  <2>1. \A x \in Session : session'[x] \in LiveStatus =>
          /\ session[x] \in LiveStatus
          /\ runner[x] \in Active => runner'[x] \in Active
    BY <1>9 DEF Detach, StopSessions, LiveStatus, Active
  <2>2. Runs => Runs'
    BY <2>1 DEF Runs
  <2> QED BY <1>4, <1>9, <2>2 DEF Detach
<1>10. ASSUME NEW s \in Session, Opened(s) \/ TurnEndStop(s) PROVE AgreeInv'
  <2>1. /\ session' = session
        /\ \A x \in Session : runner[x] \in Active => runner'[x] \in Active
    BY <1>10 DEF Opened, TurnEndStop, Active, TypeOK
  <2>2. Runs => Runs'
    BY <2>1 DEF Runs
  <2> QED BY <1>4, <1>10, <2>2 DEF Opened, TurnEndStop
<1>11. ASSUME NEW s \in Session, TurnEndNext(s) \/ TurnEndWait(s) PROVE AgreeInv'
  <2>1. session[s] \in LiveStatus
    BY <1>11, ActiveIsLive DEF TurnEndNext, TurnEndWait, InTurn, Active
  <2>2. session' = session \/ \E v \in LiveStatus : session' = [session EXCEPT ![s] = v]
    BY <1>11 DEF TurnEndNext, TurnEndWait, LiveStatus
  <2>3. \A x \in Session : session'[x] \in LiveStatus => session[x] \in LiveStatus
    BY <2>1, <2>2 DEF TypeOK
  <2>4. UNCHANGED <<runner, closing, outages>>
    BY <1>11 DEF TurnEndNext, TurnEndWait
  <2> QED BY <1>5, <2>3, <2>4
<1>12. ASSUME NEW q \in Question, Answer(q) PROVE AgreeInv'
  <2>1. q \in Prompt \ {Brief} /\ asker[q] \in Session \cup {NoSession}
    BY DEF SessionsAssumption, Prompt, TypeOK
  <2> QED BY <1>4, <1>12, <2>1, DeliverRuns DEF Answer
<1>13. ASSUME NEW g \in Gate, NEW d \in {"approved", "denied"}, Respond(g, d) PROVE AgreeInv'
  <2>1. g \in Prompt \ {Brief} /\ caller[g] \in Session \cup {NoSession}
    BY DEF SessionsAssumption, Prompt, TypeOK
  <2> QED BY <1>4, <1>13, <2>1, DeliverRuns DEF Respond, Supersede
<1>14. ASSUME NEW l \in Line, SayToWorker(l) PROVE AgreeInv'
  <2>1. PICK s \in Session : s = handle["worker"]
    BY <1>14 DEF SayToWorker, AnswerFromThread
  <2>2. Tracked(s)
    BY <2>1 DEF SlotInv, SlotsHoldTheirRole, Tracked, Roles, SessionsAssumption
  <2>3. session[s] \in LiveStatus
    BY <2>2, ActiveIsLive
  <2>4. session' = session \/ session' = [session EXCEPT ![s] = "running"]
    BY <1>14, <2>1 DEF SayToWorker, AnswerFromThread
  <2> QED BY <1>5, <1>14, <2>3, <2>4 DEF SayToWorker, AnswerFromThread, TypeOK
<1>15. ASSUME NEW s \in Session,
              AttachFirst(s) \/ ClaimBranch(s) \/ ClaimLost(s) \/ CheckoutFails(s) \/ Reap(s)
       PROVE  AgreeInv'
  BY <1>5, <1>15 DEF AttachFirst, ClaimBranch, ClaimLost, CheckoutFails, Reap
<1>16. ASSUME NEW q \in Question, NEW s \in Session \cup {NoSession}, Raise(q, s) PROVE AgreeInv'
  BY <1>5, <1>16 DEF Raise
<1>17. ASSUME NEW l \in Line, SayToThread(l) PROVE AgreeInv'
  BY <1>5, <1>17 DEF SayToThread
<1>18. ASSUME NEW g \in Gate, (\E s \in Session : RouteCall(g, s)) \/ Retry(g) PROVE AgreeInv'
  BY <1>5, <1>18 DEF RouteCall, Retry
<1>19. CASE UNCHANGED vars
  BY <1>5, <1>19 DEF vars
<1> QED BY <1>1, <1>2, <1>3, <1>6, <1>7, <1>8, <1>9, <1>10, <1>11, <1>12, <1>13, <1>14, <1>15,
           <1>16, <1>17, <1>18, <1>19 DEF Next, SessionStep

\* Until the daemon is stopped or killed, or a spawn fails, the sessions the record shows
\* as live are the ones the daemon holds a handle for.
THEOREM RecordsAgree == Spec => []RecordAgreesWithHandles
<1>1. Init => AgreeInv
  BY DEF Init, AgreeInv, Counted, Runs, LiveStatus
<1>2. TypeOK /\ SlotInv /\ AgreeInv /\ [Next]_vars => AgreeInv'
  BY AgreeStep, SessionsAssumption
<1>3. SlotInv /\ AgreeInv => RecordAgreesWithHandles
  BY DEF SlotInv, HandlesAreLive, RunnersAreTracked, AgreeInv, Runs, RecordAgreesWithHandles
<1> QED BY <1>1, <1>2, <1>3, TypeCorrect, SlotsHold, PTL DEF Spec

-------------------------------------------------------------------------------
(* What a detach starts. *)

DetachingRecorded == \A s \in detaching : session[s] # "none"

LEMMA DetachingStep ==
  ASSUME SessionsAssumption, TypeOK, SlotInv, DetachingRecorded, [Next]_vars
  PROVE  DetachingRecorded'
<1>1. \A s \in Session : session[s] # "none" => session'[s] # "none"
  BY MovesStep DEF Moves
<1>2. \A s \in Session : Tracked(s) => session[s] # "none"
  BY ActiveIsLive DEF LiveStatus
<1>3. detaching' \subseteq detaching \cup AllTracked
  BY DEF Next, SessionStep, Attach, AttachFirst, ClaimBranch, ClaimLost, CheckoutFails, AttachResume,
         Opened, TurnEndNext, TurnEndWait, TurnEndStop, Exit, Fail, Finish, Reap, Raise, Answer,
         SayToThread, SayToWorker, AnswerFromThread, RouteCall, Retry, Respond, Supersede, Detach, Shutdown, StopSessions,
         Close, Restart, Crash, Forget, record, asks, memory, lifecycle, vars
<1> QED BY <1>1, <1>2, <1>3 DEF DetachingRecorded, AllTracked, TypeOK

\* The promise of one step.
NothingStarted ==
  \A s, x \in Session :
    s \in detaching /\ session'[s] # session[s] /\ session[x] = "none" => session'[x] = "none"

LEMMA NothingStartedStep ==
  ASSUME SessionsAssumption, TypeOK, SlotInv, DetachingRecorded, [Next]_vars
  PROVE  NothingStarted
<1> USE DEF record, asks, memory, lifecycle
\* Only what was recorded changes.
<1>1. ASSUME \A x \in Session : session'[x] # session[x] => session[x] # "none"
      PROVE  NothingStarted
  BY <1>1 DEF NothingStarted
\* Only what was not recorded changes.
<1>2. ASSUME \A x \in Session : session'[x] # session[x] => session[x] = "none"
      PROVE  NothingStarted
  BY <1>2 DEF NothingStarted, DetachingRecorded
<1>3. ASSUME NEW s \in Session, Attach(s) PROVE NothingStarted
  BY <1>2, <1>3 DEF Attach, Fresh, Begin, TypeOK
<1>4. ASSUME NEW s \in Session, AttachResume(s) PROVE NothingStarted
  <2>1. session[s] = "none"
    BY <1>4 DEF AttachResume, SlotInv, ClaimsArePending
  <2> QED BY <1>2, <1>4, <2>1 DEF AttachResume, Begin, TypeOK
<1>5. CASE Close
  BY <1>2, <1>5 DEF Close, Retros, Fresh
<1>6. ASSUME NEW s \in Session, NEW ok \in BOOLEAN, runner[s] \in Active, Finish(s, ok)
      PROVE  NothingStarted
  <2>1. PICK R \in AutoReviewers(s, ok), up \in Spawns :
          session' = [x \in Session |->
             IF x = s THEN (IF ok THEN "stopped" ELSE "error")
             ELSE IF x \in R THEN Recorded(up) ELSE session[x]]
    BY <1>6 DEF Finish
  <2>2. session[s] # "none"
    BY <1>6, ActiveIsLive DEF LiveStatus
  <2>3. \A x \in R : session[x] = "none"
    <3>1. R = {} \/ \E x \in Fresh("reviewer") : R = {x}
      BY DEF AutoReviewers
    <3> QED BY <3>1 DEF Fresh
  <2>4. s \in detaching => R = {}
    BY DEF AutoReviewers
  <2>5. CASE s \in detaching
    BY <1>1, <2>1, <2>2, <2>4, <2>5
  <2>6. CASE s \notin detaching
    BY <2>1, <2>3, <2>6 DEF NothingStarted, DetachingRecorded
  <2> QED BY <2>5, <2>6
<1>7. ASSUME NEW s \in Session, Exit(s) \/ Fail(s) PROVE NothingStarted
  BY <1>6, <1>7 DEF Exit, Fail
<1>8. CASE Detach \/ Shutdown
  <2>1. \A x \in CutShort(AllTracked) : session[x] # "none"
    BY ActiveIsLive DEF CutShort, AllTracked, LiveStatus
  <2>2. session' = [x \in Session |-> IF x \in CutShort(AllTracked) THEN "error" ELSE session[x]]
    BY <1>8 DEF Detach, Shutdown, StopSessions
  <2> QED BY <1>1, <2>1, <2>2
<1>9. ASSUME NEW s \in Session, TurnEndNext(s) \/ TurnEndWait(s) PROVE NothingStarted
  <2>1. session[s] # "none"
    BY <1>9, ActiveIsLive DEF TurnEndNext, TurnEndWait, InTurn, Active, LiveStatus
  <2> QED BY <1>1, <1>9, <2>1 DEF TurnEndNext, TurnEndWait, TypeOK
<1>10. ASSUME NEW q \in Question, Answer(q) PROVE NothingStarted
  <2>1. q \in Prompt \ {Brief} /\ asker[q] \in Session \cup {NoSession}
    BY DEF SessionsAssumption, Prompt, TypeOK
  <2>2. \A x \in Session : session'[x] # session[x] => session[x] \in LiveStatus
    BY <1>10, <2>1, DeliverMoves DEF Answer
  <2> QED BY <1>1, <2>2 DEF LiveStatus
<1>11. ASSUME NEW g \in Gate, NEW d \in {"approved", "denied"}, Respond(g, d) PROVE NothingStarted
  <2>1. g \in Prompt \ {Brief} /\ caller[g] \in Session \cup {NoSession}
    BY DEF SessionsAssumption, Prompt, TypeOK
  <2>2. \A x \in Session : session'[x] # session[x] => session[x] \in LiveStatus
    BY <1>11, <2>1, DeliverMoves DEF Respond, Supersede
  <2> QED BY <1>1, <2>2 DEF LiveStatus
<1>12. ASSUME NEW l \in Line, SayToWorker(l) PROVE NothingStarted
  <2>1. PICK s \in Session : s = handle["worker"]
    BY <1>12 DEF SayToWorker, AnswerFromThread
  <2>2. Tracked(s)
    BY <2>1 DEF SlotInv, SlotsHoldTheirRole, Tracked, Roles, SessionsAssumption
  <2>3. session[s] # "none"
    BY <2>2, ActiveIsLive DEF LiveStatus
  <2>4. session' = session \/ session' = [session EXCEPT ![s] = "running"]
    BY <1>12, <2>1 DEF SayToWorker, AnswerFromThread
  <2> QED BY <1>1, <2>3, <2>4 DEF TypeOK
<1>13. ASSUME UNCHANGED session PROVE NothingStarted
  BY <1>13 DEF NothingStarted
<1>14. ASSUME NEW s \in Session,
              \/ AttachFirst(s) \/ ClaimBranch(s) \/ ClaimLost(s) \/ CheckoutFails(s)
              \/ Opened(s) \/ TurnEndStop(s) \/ Reap(s)
       PROVE  NothingStarted
  BY <1>13, <1>14 DEF AttachFirst, ClaimBranch, ClaimLost, CheckoutFails, Opened, TurnEndStop, Reap
<1>15. ASSUME NEW q \in Question, NEW s \in Session \cup {NoSession}, Raise(q, s) PROVE NothingStarted
  BY <1>13, <1>15 DEF Raise
<1>16. ASSUME NEW l \in Line, SayToThread(l) PROVE NothingStarted
  BY <1>13, <1>16 DEF SayToThread
<1>17. ASSUME NEW g \in Gate, (\E s \in Session : RouteCall(g, s)) \/ Retry(g) PROVE NothingStarted
  BY <1>13, <1>17 DEF RouteCall, Retry
<1>18. CASE Restart \/ Crash \/ UNCHANGED vars
  BY <1>13, <1>18 DEF Restart, Crash, Forget, vars
<1> QED BY <1>3, <1>4, <1>5, <1>7, <1>8, <1>9, <1>10, <1>11, <1>12, <1>14, <1>15, <1>16, <1>17,
           <1>18 DEF Next, SessionStep

\* No session starts because another one was detached: only a worker that ended by itself
\* is followed by the automatic review.
THEOREM DetachStarts == Spec => DetachStartsNothing
<1>1. Init => DetachingRecorded
  BY DEF Init, DetachingRecorded
<1>2. TypeOK /\ SlotInv /\ DetachingRecorded /\ [Next]_vars => DetachingRecorded'
  BY DetachingStep, SessionsAssumption
<1>3. TypeOK /\ SlotInv /\ DetachingRecorded /\ [Next]_vars =>
        [\A s, x \in Session :
           s \in detaching /\ session'[s] # session[s] /\ session[x] = "none"
           => session'[x] = "none"]_vars
  BY NothingStartedStep, SessionsAssumption DEF NothingStarted
<1> QED BY <1>1, <1>2, <1>3, TypeCorrect, SlotsHold, PTL DEF Spec, DetachStartsNothing
===============================================================================
