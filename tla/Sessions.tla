------------------------------- MODULE Sessions -------------------------------
(***************************************************************************)
(* One stream and the agent sessions attached to it: AttachService, the    *)
(* runner's turn queue, QuestionService, the routed-call gates and the     *)
(* delivery of lines, answers and decisions as prompts.                    *)
(*                                                                         *)
(* Grain.  The daemon is one event loop and the store writes with          *)
(* synchronous file calls behind a promise mutex, so a handler runs to its *)
(* next real I/O wait (a vendor reply, `git worktree add`, a process exit) *)
(* before another one starts.  One action is one such stretch.             *)
(***************************************************************************)
EXTENDS Naturals, Sequences, FiniteSets

CONSTANTS
  Session,       \* ids AttachService mints, each used at most once
  Question,      \* ids QuestionService mints
  Gate,          \* ids GateService mints for routed calls
  Line,          \* the human's thread lines
  Role,          \* the role each session id is minted for
  NoSession,
  Brief,         \* the first prompt of every session
  HasRepo,       \* the stream names a registered repo
  AutoReview,    \* that repo's `auto_review`
  StartFailures, \* whether startAgentSession may throw
  MaxOutages     \* bound on crashes and stops of the daemon, together

Roles == {"worker", "reviewer", "lessons"}
Prompt == {Brief} \cup Line \cup Question \cup Gate

ASSUME SessionsAssumption ==
  /\ Role \in [Session -> Roles]
  /\ NoSession \notin Session
  /\ Brief \notin Line \cup Question \cup Gate
  /\ Line \cap Question = {} /\ Line \cap Gate = {} /\ Question \cap Gate = {}
  /\ HasRepo \in BOOLEAN /\ AutoReview \in BOOLEAN /\ StartFailures \in BOOLEAN
  /\ MaxOutages \in Nat

VARIABLES
  agent, human,   \* the two halves of the stream record
  session,        \* SessionRef.status, "none" before the record is pushed
  queued,         \* SessionRef.queued: lines marked as waiting on a turn
  worktree,       \* the record names a worktree and a branch
  qstatus, asker, \* question records: status, and the session that asked
  gstatus, caller,\* gate records: status, and the session that was blocked
  handle,         \* AttachService.live, one slot per role
  runner,         \* the runner's state of a session (`stopRequested`, `settled`)
  turns,          \* the runner's turn queue, the running turn first
  attaching,      \* attach calls waiting on createWorktree
  detaching,      \* AttachService.detaching
  closing,        \* the daemon is stopping
  awaited,        \* the sessions stopAll waits for
  branch,         \* who holds the stream's branch ref in the repo
  proc,           \* sessions whose vendor process exists
  fate,           \* history: what became of each line, answer and decision
  outages

record == <<agent, human, session, queued, worktree>>
asks == <<qstatus, asker, gstatus, caller>>
memory == <<handle, runner, turns, attaching, detaching, closing, awaited>>
lifecycle == <<closing, awaited, outages>>
vars == <<record, asks, memory, branch, proc, fate, outages>>

-------------------------------------------------------------------------------
LiveStatus == {"starting", "running", "idle"}
EndStatus == {"stopped", "error"}
Stopped == {"finishing", "stopping", "settled"} \* AgentSessionHandle.stopped()
Active == {"opening", "live", "finishing", "stopping"}

\* liveSession: what the record says is live in a role.
LiveIn(r) == {s \in Session : Role[s] = r /\ session[s] \in LiveStatus}
Tracked(s) == s \in Session /\ handle[Role[s]] = s
Fresh(r) == {s \in Session : Role[s] = r /\ session[s] = "none" /\ s \notin attaching}

OpenQuestions(s) == {q \in Question : qstatus[q] = "open" /\ asker[q] = s}
OpenGates(s) == {g \in Gate : caller[g] = s /\ gstatus[g] \in {"pending", "approved"}}
Waiting(s) == OpenQuestions(s) # {} \/ OpenGates(s) # {}

\* Prompts still queued when a session settles are rejected, never sent.
Lose(S) == [p \in DOMAIN fate |->
  IF fate[p] = "queued" /\ \E s \in S : \E i \in 2..Len(turns[s]) : turns[s][i] = p
  THEN "lost" ELSE fate[p]]

Init ==
  /\ agent = "idle" /\ human = "open" /\ worktree = FALSE
  /\ session = [s \in Session |-> "none"]
  /\ queued = [s \in Session |-> {}]
  /\ qstatus = [q \in Question |-> "none"] /\ asker = [q \in Question |-> NoSession]
  /\ gstatus = [g \in Gate |-> "none"] /\ caller = [g \in Gate |-> NoSession]
  /\ handle = [r \in Roles |-> NoSession]
  /\ runner = [s \in Session |-> "none"]
  /\ turns = [s \in Session |-> <<>>]
  /\ attaching = {} /\ detaching = {}
  /\ branch = NoSession /\ proc = {}
  /\ fate = [p \in Prompt \ {Brief} |-> "none"]
  /\ closing = FALSE /\ awaited = {}
  /\ outages = 0

-------------------------------------------------------------------------------
(* Attach *)

\* startAgentSession may throw after the record was pushed: `up` is FALSE.
Spawns == IF StartFailures THEN BOOLEAN ELSE {TRUE}

\* Mutant: one handle per stream, whatever the role.
SpawnedOneSlot(S, up, hs, rs, ts, ps) ==
  LET T == IF up THEN S ELSE {} IN
  /\ handle' = [r \in Roles |-> IF r = "worker" /\ T # {} THEN CHOOSE s \in T : TRUE ELSE hs[r]]
  /\ runner' = [s \in Session |-> IF s \in T THEN "opening" ELSE rs[s]]
  /\ turns' = [s \in Session |-> IF s \in T THEN <<Brief>> ELSE ts[s]]
  /\ proc' = ps \cup T

\* The runner half of starting the sessions in S (none or one).
Spawned(S, up, hs, rs, ts, ps) ==
  LET T == IF up THEN S ELSE {} IN
  /\ handle' = [r \in Roles |->
       IF \E s \in T : Role[s] = r THEN CHOOSE s \in T : Role[s] = r ELSE hs[r]]
  /\ runner' = [s \in Session |-> IF s \in T THEN "opening" ELSE rs[s]]
  /\ turns' = [s \in Session |-> IF s \in T THEN <<Brief>> ELSE ts[s]]
  /\ proc' = ps \cup T

Recorded(up) == IF up THEN "running" ELSE "starting"

Begin(s) ==
  \E up \in Spawns :
    /\ agent' = IF Role[s] = "worker" THEN "working" ELSE agent
    /\ session' = [session EXCEPT ![s] = Recorded(up)]
    /\ Spawned({s}, up, handle, runner, turns, proc)

CutsBranch(s) == HasRepo /\ ~worktree /\ Role[s] = "worker"

\* The refusals (StreamBusyError, ParentAttachError, UnregisteredRepoError)
\* write nothing.  Only the daemon starts a lessons session.
Attach(s) ==
  /\ s \in Fresh(Role[s]) /\ Role[s] # "lessons" /\ LiveIn(Role[s]) = {}
  /\ ~CutsBranch(s)
  /\ Begin(s)
  /\ UNCHANGED <<human, queued, worktree, asks, attaching, detaching, branch, fate, lifecycle>>

AttachFirst(s) ==
  /\ s \in Fresh(Role[s]) /\ LiveIn(Role[s]) = {}
  /\ CutsBranch(s)
  /\ attaching' = attaching \cup {s}
  /\ UNCHANGED <<record, asks, handle, runner, turns, detaching, branch, proc, fate, lifecycle>>

\* Mutant: `update-ref` without the zero oid moves a branch that exists.
ClaimBranchForced(s) ==
  /\ s \in attaching /\ branch # s
  /\ branch' = s
  /\ UNCHANGED <<record, asks, memory, proc, fate, outages>>

\* createWorktree: `update-ref` with the zero oid claims the branch or loses.
ClaimBranch(s) ==
  /\ s \in attaching /\ branch = NoSession
  /\ branch' = s
  /\ UNCHANGED <<record, asks, memory, proc, fate, outages>>

ClaimLost(s) ==
  /\ s \in attaching /\ branch \notin {NoSession, s}
  /\ attaching' = attaching \ {s}
  /\ UNCHANGED <<record, asks, handle, runner, turns, detaching, branch, proc, fate, lifecycle>>

CheckoutFails(s) ==
  /\ s \in attaching /\ branch = s
  /\ attaching' = attaching \ {s} /\ branch' = NoSession
  /\ UNCHANGED <<record, asks, handle, runner, turns, detaching, proc, fate, lifecycle>>

\* createWorktree returned: the rest of attach, with no second look at the record.
AttachResume(s) ==
  /\ s \in attaching /\ branch = s
  /\ attaching' = attaching \ {s} /\ worktree' = TRUE
  /\ Begin(s)
  /\ UNCHANGED <<human, queued, asks, detaching, branch, fate, lifecycle>>

-------------------------------------------------------------------------------
(* The end of a session *)

\* Mutant: a detach counts as a clean exit.
AutoReviewersAlways(s, ok) ==
  IF /\ ok /\ AutoReview /\ HasRepo /\ Role[s] = "worker"
     /\ LiveIn("reviewer") = {} /\ Fresh("reviewer") # {}
  THEN {{x} : x \in Fresh("reviewer")}
  ELSE {{}}

\* Section 4.2's auto review of a clean worker exit: none or one reviewer to start.
AutoReviewers(s, ok) ==
  IF /\ ok /\ AutoReview /\ HasRepo /\ Role[s] = "worker" /\ s \notin detaching
     /\ LiveIn("reviewer") = {} /\ Fresh("reviewer") # {}
  THEN {{x} : x \in Fresh("reviewer")}
  ELSE {{}}

\* What a session's end says about the stream (onExit, onReviewerExit).
StatusAtExit(s, ok) ==
  CASE s \in detaching -> IF Role[s] = "worker" THEN "idle" ELSE agent
    [] s \notin detaching /\ Role[s] = "worker" -> IF ok THEN "done" ELSE "blocked"
    [] s \notin detaching /\ Role[s] = "reviewer" ->
         IF LiveIn("worker") = {} THEN "done" ELSE agent
    [] OTHER -> agent

\* finish(), then onExit.
Finish(s, ok) ==
  \E R \in AutoReviewers(s, ok), up \in Spawns :
    /\ agent' = StatusAtExit(s, ok)
    /\ session' = [x \in Session |->
         IF x = s THEN (IF ok THEN "stopped" ELSE "error")
         ELSE IF x \in R THEN Recorded(up) ELSE session[x]]
    /\ queued' = [queued EXCEPT ![s] = {}]
    /\ detaching' = detaching \ {s}
    /\ fate' = Lose({s})
    /\ Spawned(R, up,
               [r \in Roles |-> IF handle[r] = s THEN NoSession ELSE handle[r]],
               [runner EXCEPT ![s] = "settled"],
               [turns EXCEPT ![s] = <<>>],
               IF ok THEN proc \ {s} ELSE proc)

\* Mutant: stop() unsubscribes from the session's events.
ExitUnheard(s) ==
  /\ s \in proc /\ runner[s] \in Active \ {"stopping"}
  /\ Finish(s, TRUE)
  /\ UNCHANGED <<human, worktree, asks, attaching, branch, lifecycle>>

\* The vendor process exits, by itself or after SIGTERM/SIGKILL.
Exit(s) ==
  /\ s \in proc /\ runner[s] \in Active
  /\ Finish(s, TRUE)
  /\ UNCHANGED <<human, worktree, asks, attaching, branch, lifecycle>>

\* A process whose session is already settled, or whose daemon is gone.
Reap(s) ==
  /\ s \in proc /\ runner[s] \notin Active
  /\ proc' = proc \ {s}
  /\ UNCHANGED <<record, asks, memory, branch, fate, outages>>

\* A failed prompt or a transport error; the process may outlive it.
Fail(s) ==
  /\ runner[s] \in Active
  /\ Finish(s, FALSE)
  /\ UNCHANGED <<human, worktree, asks, attaching, branch, lifecycle>>

\* close() settles a running prompt as failed, so a session in a turn ends at
\* once; any other one ends when its process exits.
InTurn(s) == runner[s] = "live" /\ turns[s] # <<>>
CutShort(D) == {s \in D : InTurn(s)}

\* The agent status those ends write.  With a worker and a reviewer cut short
\* together, the two exit paths interleave.
StatusAfterStop(hit, human_) ==
  LET worker == \E s \in hit : Role[s] = "worker"
      reviewer == \E s \in hit : Role[s] = "reviewer"
  IN IF human_ THEN (IF worker THEN {"idle"} ELSE {agent})
     ELSE IF worker THEN {"blocked"} \cup (IF reviewer THEN {"done"} ELSE {})
     ELSE IF reviewer /\ LiveIn("worker") = {} THEN {"done"}
     ELSE {agent}

\* AttachService.stop on every role, with or without `detach`.
StopSessions(D, human_) ==
  LET hit == CutShort(D) IN
  /\ detaching' = (IF human_ THEN detaching \cup D ELSE detaching) \ hit
  /\ handle' = [r \in Roles |-> IF handle[r] \in hit THEN NoSession ELSE handle[r]]
  /\ runner' = [s \in Session |->
       IF s \in hit THEN "settled"
       ELSE IF s \in D /\ runner[s] # "finishing" THEN "stopping" ELSE runner[s]]
  /\ session' = [s \in Session |-> IF s \in hit THEN "error" ELSE session[s]]
  /\ turns' = [s \in Session |-> IF s \in hit THEN <<>> ELSE turns[s]]
  /\ queued' = [s \in Session |-> IF s \in hit THEN {} ELSE queued[s]]
  /\ agent' \in StatusAfterStop(hit, human_)
  /\ fate' = Lose(hit)
  /\ UNCHANGED <<human, worktree, asks, attaching, branch, proc>>

AllTracked == {s \in Session : Tracked(s)}

\* `agile detach`.
Detach ==
  /\ AllTracked # {}
  /\ StopSessions(AllTracked, TRUE)
  /\ UNCHANGED <<closing, awaited, outages>>

\* `agile daemon stop`: stopAll first, with the sockets still open; the daemon
\* exits once the sessions it found then have ended.
Shutdown ==
  /\ ~closing /\ outages < MaxOutages
  /\ closing' = TRUE /\ outages' = outages + 1
  /\ awaited' = AllTracked \ CutShort(AllTracked)
  /\ StopSessions(AllTracked, FALSE)

-------------------------------------------------------------------------------
(* Turns *)

\* session/new is answered: the brief's turn is really running.
Opened(s) ==
  /\ runner[s] = "opening"
  /\ runner' = [runner EXCEPT ![s] = "live"]
  /\ UNCHANGED <<record, asks, handle, turns, attaching, detaching, branch, proc, fate, lifecycle>>

\* Mutant: a delivered line keeps its marker.
TurnEndNextMarked(s) ==
  /\ InTurn(s) /\ Len(turns[s]) > 1
  /\ turns' = [turns EXCEPT ![s] = Tail(@)]
  /\ fate' = [fate EXCEPT ![turns[s][2]] = "delivered"]
  /\ session' = IF turns[s][2] \in Line THEN [session EXCEPT ![s] = "running"] ELSE session
  /\ UNCHANGED <<agent, human, queued, worktree, asks, handle, runner, attaching, detaching,
                 branch, proc, lifecycle>>

\* The turn ends with another one queued: that one starts, and its line, if it
\* is one, is no longer marked.
TurnEndNext(s) ==
  /\ InTurn(s) /\ Len(turns[s]) > 1
  /\ turns' = [turns EXCEPT ![s] = Tail(@)]
  /\ fate' = [fate EXCEPT ![turns[s][2]] = "delivered"]
  /\ queued' = [queued EXCEPT ![s] = @ \ {turns[s][2]}]
  /\ session' = IF turns[s][2] \in Line THEN [session EXCEPT ![s] = "running"] ELSE session
  /\ UNCHANGED <<agent, human, worktree, asks, handle, runner, attaching, detaching,
                 branch, proc, lifecycle>>

\* The turn ends on an open question or routed call: the session waits.
TurnEndWait(s) ==
  /\ InTurn(s) /\ Len(turns[s]) = 1
  /\ Tracked(s) /\ Waiting(s)
  /\ turns' = [turns EXCEPT ![s] = <<>>]
  /\ session' = [session EXCEPT ![s] = "idle"]
  /\ IF Role[s] = "worker"
     THEN agent' = "question" /\ human' = "waiting_on_you"
     ELSE UNCHANGED <<agent, human>>
  /\ UNCHANGED <<queued, worktree, asks, handle, runner, attaching, detaching,
                 branch, proc, fate, lifecycle>>

\* Mutant: the turn-end rule ignores what is queued behind the turn.
TurnEndStopEager(s) ==
  /\ InTurn(s) /\ Tracked(s) /\ ~Waiting(s)
  /\ turns' = [turns EXCEPT ![s] = Tail(@)]
  /\ runner' = [runner EXCEPT ![s] = "finishing"]
  /\ UNCHANGED <<record, asks, handle, attaching, detaching, branch, proc, fate, lifecycle>>

\* Mutant: the finished session is not let go.
TurnEndStopNever(s) ==
  /\ InTurn(s) /\ Len(turns[s]) = 1 /\ Tracked(s) /\ ~Waiting(s)
  /\ turns' = [turns EXCEPT ![s] = <<>>]
  /\ UNCHANGED <<record, asks, handle, runner, attaching, detaching, branch, proc, fate, lifecycle>>

\* Nothing is open: the work is finished and the session is let go.
TurnEndStop(s) ==
  /\ InTurn(s) /\ Len(turns[s]) = 1
  /\ Tracked(s) /\ ~Waiting(s)
  /\ turns' = [turns EXCEPT ![s] = <<>>]
  /\ runner' = [runner EXCEPT ![s] = "finishing"]
  /\ UNCHANGED <<record, asks, handle, attaching, detaching, branch, proc, fate, lifecycle>>

-------------------------------------------------------------------------------
(* Questions, gates and the human's lines *)

\* handle.prompt(): queued behind the running turn, sent at once when there is
\* none, rejected when the session was stopped.
PromptInto(s, p) ==
  IF runner[s] \in Stopped
  THEN fate' = [fate EXCEPT ![p] = "lost"] /\ turns' = turns
  ELSE /\ turns' = [turns EXCEPT ![s] = Append(@, p)]
       /\ fate' = [fate EXCEPT ![p] = IF turns[s] = <<>> THEN "delivered" ELSE "queued"]

\* Mutant: an idle session is prompted and stays recorded as idle.
DeliverSilently(s, p) ==
  /\ IF Tracked(s) THEN PromptInto(s, p)
     ELSE fate' = [fate EXCEPT ![p] = "thread"] /\ UNCHANGED turns
  /\ UNCHANGED session

\* deliverAnswer and deliverGateDecision: a prompt, or a note on the thread.
Deliver(s, p) ==
  IF Tracked(s)
  THEN PromptInto(s, p) /\ session' = [session EXCEPT ![s] = "running"]
  ELSE fate' = [fate EXCEPT ![p] = "thread"] /\ UNCHANGED <<turns, session>>

\* The registry knows a session until it settles; a verb or hook call reaches
\* the daemon during a turn, or late, while the process is being stopped.
CanCall(s) == InTurn(s) \/ runner[s] \in {"finishing", "stopping"}

Raise(q, s) ==
  /\ qstatus[q] = "none"
  /\ s = NoSession \/ (s \in Session /\ CanCall(s))
  /\ qstatus' = [qstatus EXCEPT ![q] = "open"] /\ asker' = [asker EXCEPT ![q] = s]
  /\ agent' = "question" /\ human' = "waiting_on_you"
  /\ UNCHANGED <<session, queued, worktree, gstatus, caller, memory, branch, proc, fate, outages>>

Answer(q) ==
  /\ qstatus[q] = "open"
  /\ qstatus' = [qstatus EXCEPT ![q] = "answered"]
  /\ agent' = IF \E s \in Session : session[s] \in LiveStatus THEN "working" ELSE "idle"
  /\ human' = "open"
  /\ Deliver(asker[q], q)
  /\ UNCHANGED <<queued, worktree, asker, gstatus, caller, handle, runner, attaching,
                 detaching, branch, proc, lifecycle>>

\* sayAndAnswer with no worker to prompt: the line stays on the thread.
SayToThread(l) ==
  /\ fate[l] = "none"
  /\ handle["worker"] \notin {s \in Session : runner[s] \notin Stopped}
  /\ fate' = [fate EXCEPT ![l] = "thread"]
  /\ UNCHANGED <<record, asks, memory, branch, proc, outages>>

\* A line that a session got as a prompt answers every question it has open.
AnswerFromThread(s) ==
  /\ qstatus' = [q \in Question |-> IF q \in OpenQuestions(s) THEN "answered" ELSE qstatus[q]]
  /\ IF OpenQuestions(s) # {}
     THEN agent' = "working" /\ human' = "open"
     ELSE UNCHANGED <<agent, human>>

\* ... and into the live worker: marked as queued when a turn is running, and
\* the answer to every question that worker has open.
SayToWorker(l) ==
  LET s == handle["worker"] IN
  /\ fate[l] = "none" /\ s \in {x \in Session : runner[x] \notin Stopped}
  /\ PromptInto(s, l)
  /\ IF turns[s] = <<>>
     THEN session' = [session EXCEPT ![s] = "running"] /\ queued' = queued
     ELSE queued' = [queued EXCEPT ![s] = @ \cup {l}] /\ session' = session
  /\ AnswerFromThread(s)
  /\ UNCHANGED <<worktree, asker, gstatus, caller, handle, runner, attaching, detaching,
                 branch, proc, lifecycle>>

\* The hook's route band: a new call opens a gate, and writes no status.
RouteCall(g, s) ==
  /\ gstatus[g] = "none" /\ CanCall(s)
  /\ gstatus' = [gstatus EXCEPT ![g] = "pending"] /\ caller' = [caller EXCEPT ![g] = s]
  /\ UNCHANGED <<record, qstatus, asker, memory, branch, proc, fate, outages>>

\* ... and the retry of an approved call spends the approval.
Retry(g) ==
  /\ gstatus[g] = "approved" /\ CanCall(caller[g])
  /\ gstatus' = [gstatus EXCEPT ![g] = "spent"]
  /\ UNCHANGED <<record, qstatus, asker, caller, memory, branch, proc, fate, outages>>

\* A decision closes every question its session has open, and says nothing of them.
Supersede(s) ==
  qstatus' = [q \in Question |-> IF q \in OpenQuestions(s) THEN "superseded" ELSE qstatus[q]]

\* GateService.respond with its wrappers: the session's questions are
\* superseded, then the decision is delivered.
Respond(g, decision) ==
  LET s == caller[g] IN
  /\ gstatus[g] = "pending"
  /\ gstatus' = [gstatus EXCEPT ![g] = decision]
  /\ Supersede(s)
  /\ Deliver(s, g)
  /\ IF Tracked(s)
     THEN agent' = "working" /\ human' = "open"
     ELSE UNCHANGED <<agent, human>>
  /\ UNCHANGED <<queued, worktree, asker, caller, handle, runner, attaching, detaching,
                 branch, proc, lifecycle>>

\* The retro of Section 5.5: none or one lessons session; an answered question is
\* material enough, findings and denials may be.
Retros ==
  IF LiveIn("lessons") # {} \/ Fresh("lessons") = {} THEN {{}}
  ELSE {{x} : x \in Fresh("lessons")} \cup
       (IF \E q \in Question : qstatus[q] \in {"answered", "superseded"} THEN {} ELSE {{}})

\* What the inbox lists of this stream: open questions, pending gates, and the stream
\* itself once its agent stopped with the human's half still open.
QuestionItems == {q \in Question : qstatus[q] = "open"}
GateItems == {g \in Gate : gstatus[g] = "pending"}
StreamItems == {status \in {agent} \cap {"blocked", "done"} : human = "open"}
Inbox == QuestionItems \cup GateItems \cup StreamItems

Close ==
  /\ human' = "closed"
  /\ \E R \in Retros, up \in Spawns :
       /\ session' = [s \in Session |-> IF s \in R THEN Recorded(up) ELSE session[s]]
       /\ Spawned(R, up, handle, runner, turns, proc)
  /\ UNCHANGED <<agent, queued, worktree, asks, attaching, detaching, branch, fate, lifecycle>>

-------------------------------------------------------------------------------
\* A new daemon rebuilds nothing from the records.
Forget ==
  /\ handle' = [r \in Roles |-> NoSession]
  /\ runner' = [s \in Session |-> IF runner[s] = "none" THEN "none" ELSE "settled"]
  /\ turns' = [s \in Session |-> <<>>]
  /\ attaching' = {} /\ detaching' = {}
  /\ closing' = FALSE /\ awaited' = {}
  /\ fate' = Lose(Session)
  /\ UNCHANGED <<record, asks, branch, proc>>

\* kill -9 and a restart.
Crash ==
  /\ outages < MaxOutages
  /\ outages' = outages + 1
  /\ Forget

\* The end of `agile daemon stop`, and a later start.
Restart ==
  /\ closing /\ \A s \in awaited : runner[s] = "settled"
  /\ outages' = outages
  /\ Forget

SessionStep(s) ==
  \/ Attach(s) \/ AttachFirst(s) \/ ClaimBranch(s) \/ ClaimLost(s)
  \/ CheckoutFails(s) \/ AttachResume(s)
  \/ Opened(s) \/ TurnEndNext(s) \/ TurnEndWait(s) \/ TurnEndStop(s)
  \/ Exit(s) \/ Reap(s) \/ Fail(s)

Next ==
  \/ \E s \in Session : SessionStep(s)
  \/ \E q \in Question, s \in Session \cup {NoSession} : Raise(q, s)
  \/ \E q \in Question : Answer(q)
  \/ \E l \in Line : SayToThread(l) \/ SayToWorker(l)
  \/ \E g \in Gate, s \in Session : RouteCall(g, s)
  \/ \E g \in Gate : Retry(g)
  \/ \E g \in Gate, d \in {"approved", "denied"} : Respond(g, d)
  \/ Detach \/ Close \/ Shutdown \/ Restart \/ Crash

Spec == Init /\ [][Next]_vars

-------------------------------------------------------------------------------
(* Fairness.  close() arms a SIGKILL timer, so a stopped process does exit;  *)
(* git and the vendor are assumed to answer what they were asked.            *)

StoppedExits(s) == runner[s] \in {"finishing", "stopping"} /\ Exit(s)
GitAnswers(s) == ClaimBranch(s) \/ ClaimLost(s) \/ CheckoutFails(s) \/ AttachResume(s)
VendorAnswers(s) == Opened(s) \/ TurnEndNext(s) \/ TurnEndWait(s) \/ TurnEndStop(s)

Fairness == \A s \in Session :
  WF_vars(StoppedExits(s)) /\ WF_vars(GitAnswers(s)) /\ WF_vars(VendorAnswers(s))

FairSpec == Spec /\ Fairness

-------------------------------------------------------------------------------
(* Properties *)

\* Every variable keeps its range: statuses as shared/stream.ts lists them, and
\* turn queues of known prompts.
TypeOK ==
  /\ agent \in {"idle", "working", "question", "done", "blocked"}
  /\ human \in {"open", "waiting_on_you", "closed"}
  /\ session \in [Session -> {"none"} \cup LiveStatus \cup EndStatus]
  /\ queued \in [Session -> SUBSET Line]
  /\ worktree \in BOOLEAN
  /\ qstatus \in [Question -> {"none", "open", "answered", "superseded"}]
  /\ asker \in [Question -> Session \cup {NoSession}]
  /\ gstatus \in [Gate -> {"none", "pending", "approved", "denied", "spent"}]
  /\ caller \in [Gate -> Session \cup {NoSession}]
  /\ handle \in [Roles -> Session \cup {NoSession}]
  /\ runner \in [Session -> {"none", "live", "settled"} \cup Active]
  /\ turns \in [Session -> Seq(Prompt)]
  /\ attaching \in SUBSET Session /\ detaching \in SUBSET Session
  /\ closing \in BOOLEAN /\ awaited \in SUBSET Session
  /\ branch \in Session \cup {NoSession}
  /\ proc \in SUBSET Session
  /\ fate \in [Prompt \ {Brief} -> {"none", "thread", "queued", "delivered", "lost"}]
  /\ outages \in Nat

\* design/cockpit-design.md:199, "One live worker at a time per stream": although
\* attach checks the record before it awaits createWorktree and not after, no
\* role ever has two sessions recorded as live.
OneLivePerRole ==
  \A s, t \in Session :
    /\ Role[s] = Role[t]
    /\ session[s] \in LiveStatus /\ session[t] \in LiveStatus
    => s = t

\* Why it holds, as an inductive invariant.  A tracked session is recorded as live
\* and runs; a running one is tracked; no worker is recorded before the worktree
\* is; and the branch, once the worktree is recorded, is nobody's pending claim,
\* so no attach still waiting on git can win it.
HandlesAreLive ==
  \A s \in Session : Tracked(s) => session[s] \in LiveStatus /\ runner[s] \in Active
RunnersAreTracked == \A s \in Session : runner[s] \in Active => Tracked(s)
SlotsHoldTheirRole ==
  \A r \in Roles : handle[r] # NoSession => handle[r] \in Session /\ Role[handle[r]] = r
WorkersFollowWorktree ==
  HasRepo /\ ~worktree =>
    \A s \in Session : Role[s] = "worker" => session[s] = "none"
ClaimsArePending ==
  /\ worktree => branch \in Session \ attaching
  /\ \A s \in attaching : HasRepo /\ Role[s] = "worker" /\ session[s] = "none"

SlotInv ==
  /\ OneLivePerRole /\ HandlesAreLive /\ RunnersAreTracked /\ SlotsHoldTheirRole
  /\ WorkersFollowWorktree /\ ClaimsArePending

\* A session recorded as stopped or error stays as it was recorded: no late
\* delivery, marker or second exit path brings it back (setSessionStatus writes
\* whatever status it is given).
EndedStaysEnded ==
  [][\A s \in Session : session[s] \in EndStatus => session'[s] = session[s]]_vars

\* The record refines Slots: the slot of a role holds the session recorded as live
\* in it, and a session that left is never taken again.  Attach's refusal, the
\* branch claim and the exit path together keep that promise.
SlotOfRole == [r \in Roles |->
  IF LiveIn(r) = {} THEN NoSession ELSE CHOOSE s \in LiveIn(r) : TRUE]
UsedSessions == {s \in Session : session[s] # "none"}

Abstract == INSTANCE Slots WITH
  Kind <- Roles, Holder <- Session, KindOf <- Role, Nobody <- NoSession,
  slot <- SlotOfRole, used <- UsedSessions

ImplementsSlots == Abstract!Spec

\* While one daemon lives and no spawn has failed, the record and the handles
\* agree: `attach` refuses exactly when `detach` has something to stop.
RecordAgreesWithHandles ==
  outages = 0 /\ ~StartFailures =>
    \A s \in Session : session[s] \in LiveStatus <=> Tracked(s)

\* The turn-end rule: a live session between turns is recorded as idle and has a
\* question or a routed call open, so an answer or a decision can still wake it.
QuietMeansWaiting ==
  \A s \in Session : runner[s] = "live" =>
    (turns[s] = <<>> <=> session[s] = "idle") /\ (turns[s] = <<>> => Waiting(s))

\* T174: letting a session go at the end of a turn loses no prompt.  A queued
\* prompt is lost only when its session fails, exits, is stopped or the daemon dies.
TurnEndLosesNothing ==
  \A s \in Session : runner[s] = "finishing" => turns[s] = <<>> /\ queued[s] = {}

\* The `queued` markers the page shows are the human lines waiting behind the
\* running turn, no more and no fewer, for as long as the session is alive.
MarkersMatchQueue ==
  \A s \in Session : runner[s] \in Active =>
    queued[s] = {l \in Line : \E i \in 2..Len(turns[s]) : turns[s][i] = l}

\* Why these three hold, as an inductive invariant beside SlotInv.  A session that is
\* opening has its brief and is recorded as running; a call or an open question keeps an
\* idle one waiting; a line is queued once, and never before it was said.
QuietAt(s) ==
  /\ runner[s] = "opening" => turns[s] # <<>> /\ session[s] = "running"
  /\ runner[s] = "live" =>
       (turns[s] = <<>> <=> session[s] = "idle") /\ (turns[s] = <<>> => Waiting(s))
LinesAt(s) ==
  /\ runner[s] \in Active =>
       queued[s] = {l \in Line : \E i \in 2..Len(turns[s]) : turns[s][i] = l}
  /\ session[s] = "none" => queued[s] = {}
  /\ runner[s] = "finishing" => turns[s] = <<>>
  /\ \A i, j \in 1..Len(turns[s]) : turns[s][i] \in Line /\ turns[s][i] = turns[s][j] => i = j
  /\ \A i \in 1..Len(turns[s]) : turns[s][i] \in Line => fate[turns[s][i]] # "none"

QueueInv == \A s \in Session : QuietAt(s) /\ LinesAt(s)

\* A lifted plug is not a finish: no session starts because another one was
\* detached (`auto_review` only follows a worker's own end).
DetachStartsNothing ==
  [][\A s, x \in Session :
       s \in detaching /\ session'[s] # session[s] /\ session[x] = "none"
       => session'[x] = "none"]_vars

\* A session that started ends up over, or idle with something of its own still open:
\* a question, a gate, or a call that was approved and not retried yet.  It is never left
\* running with nothing to do.
SessionsComeToRest ==
  \A s \in Session :
    runner[s] = "opening" ~>
      runner[s] = "settled" \/ (session[s] = "idle" /\ Waiting(s))

\* What the operator asked for ends.  What `agile detach` and `agile daemon stop` stop
\* is recorded as ended; an attach that awaits git comes to a session or to an error.
StopsComplete ==
  \A s \in Session :
    /\ runner[s] = "stopping" ~> session[s] \in EndStatus
    /\ s \in attaching ~> s \notin attaching

-------------------------------------------------------------------------------
(* What the repository says and the code does not keep: TLC refutes each, and   *)
(* the README tells the shortest story.                                       *)

\* design/cockpit-design.md:199, "One live worker at a time per stream", read as
\* processes: no two vendor processes of workers share a stream's worktree.
OneWorkerProcess ==
  \A s, t \in proc : Role[s] = "worker" /\ Role[t] = "worker" => s = t

\* attach/service.ts:53: an attach refused with "stop it before attaching" names a
\* session there is a way to stop.
BusyMeansStoppable ==
  \A s \in Session : session[s] \in LiveStatus => Tracked(s)

\* inbox/service.ts:2, "everything waiting on the human, across every stream": a stream
\* that says it waits on the human has an item in the inbox.
WaitingIsListed == human = "waiting_on_you" => Inbox # {}

\* design/cockpit-design.md:616, blue for "agent working": an agent half that says
\* `working` has a worker's session that is alive.
WorkingIsWorked ==
  agent = "working" => \E s \in Session : Role[s] = "worker" /\ runner[s] \in Active
===============================================================================
