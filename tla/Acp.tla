---------------------------------- MODULE Acp ----------------------------------
(***************************************************************************)
(* One agent process as its two layers drive it: spawnSession, the ACP     *)
(* client on the agent's stdio, and startAgentSession, the runner whose    *)
(* turn queue is that client's only user.  The agent is whatever answers,  *)
(* fails, floods, hangs or dies at the other end of the pipes.             *)
(*                                                                         *)
(* Grain.  A chunk of stdout is handled line by line in one callback; the  *)
(* promises its answers settle run after its last line and before any      *)
(* other event.  Receive takes a line, Settle runs the oldest of those     *)
(* promises to its end, and every other event waits for `micro` to drain.  *)
(* `session/cancel` is left out: the agent may end a turn as cancelled     *)
(* whenever it likes.                                                      *)
(***************************************************************************)
EXTENDS Naturals, Sequences

CONSTANTS
  Turn,           \* prompts handed to the runner
  Brief,          \* the first of them
  Provider,       \* [mode: a mode to set, auth: has an authentication method]
  Update,         \* the kinds of session/update the agent sends
  Length,         \* of the text in each kind of message chunk (never blank)
  LineCap,        \* THREAD_BODY_MAX_CHARS
  ReplyCap,       \* REPLY_TEXT_MAX_CHARS
  MaxUpdates      \* bound on the updates of one process

Step == {"initialize", "session/new", "session/set_mode", "authenticate"}
AcpRequest == Step \cup Turn
Chunk == DOMAIN Length

ASSUME AcpAssumption ==
  /\ Brief \in Turn /\ Turn \cap Step = {}
  /\ Provider \subseteq [mode : BOOLEAN, auth : BOOLEAN]
  /\ Chunk \cap {"tool", "usage", "plan"} = {} /\ Length \in [Chunk -> Nat \ {0}]
  /\ Update \subseteq Chunk \cup {"tool", "usage", "plan"}
  /\ LineCap \in Nat \ {0} /\ ReplyCap \in Nat /\ LineCap <= ReplyCap
  /\ MaxUpdates \in Nat

VARIABLES
  provider,
  registered,     \* the first registry write: "due", "done" or "failed"
  queue,          \* the runner's turns, the running one first
  stage,          \* where that one is
  tried,          \* it has already been through `authenticate`
  fate,           \* what became of each turn
  stopRequested, settled, \* the runner's flags; settled once `finish` has run
  buffer, line,   \* the runner's text to be written, and its last line on the thread
  log,            \* history: what output.log has of the message that is open, or was last
  hello,          \* the `initialized` promise
  opening,        \* the request `sessionOpening` waits for
  acpSessionId,   \* whether the client has a session id
  inFlight,       \* the client's slot; settled, its reply until prompt() returns
  fold,           \* the message the slot folds
  pending,        \* requests without an answer
  micro,          \* answers whose promises have still to run
  exited, killTimer, \* onDead has run; the SIGKILL timer is set
  toAgent, fromAgent, \* the two pipes
  working,        \* turns the agent is at
  answered,       \* what the agent answered to each turn
  opened,         \* sessions the agent has opened
  moded, authed,  \* the agent's session has its mode, the agent is logged in
  said,           \* updates sent
  proc            \* the process: "up", "told" (SIGTERM), "killed" or "gone"

turnVars == <<queue, stage, tried, fate>>
outVars == <<buffer, line, log>>
runnerVars == <<registered, turnVars, stopRequested, settled, outVars>>
clientVars == <<hello, opening, acpSessionId, inFlight, fold, pending, micro, exited, killTimer>>
agentVars == <<working, answered, opened, moded, authed, said>>
acpVars == <<provider, runnerVars, clientVars, toAgent, fromAgent, agentVars, proc>>

\* What the end of a running turn may change.
endVars == <<turnVars, settled, outVars, inFlight, killTimer, proc>>

Silence == [text |-> 0, streaming |-> FALSE]
Line(kind, of, is) == [kind |-> kind, of |-> of, is |-> is]

AcpInit ==
  /\ provider \in Provider
  /\ registered = "due" /\ queue = <<>> /\ stage = "idle" /\ tried = FALSE
  /\ fate = [t \in Turn |-> "none"]
  /\ stopRequested = FALSE /\ settled = FALSE
  /\ buffer = 0 /\ line = 0 /\ log = [text |-> 0, open |-> FALSE]
  /\ hello = "waiting" /\ acpSessionId = FALSE
  /\ opening = IF provider.auth THEN "none" ELSE "initialize"
  /\ inFlight = "none" /\ fold = Silence
  /\ pending = {"initialize"} /\ micro = <<>> /\ exited = FALSE /\ killTimer = FALSE
  /\ toAgent = <<"initialize">> /\ fromAgent = <<>>
  /\ working = {} /\ answered = [t \in Turn |-> "none"]
  /\ opened = 0 /\ moded = FALSE /\ authed = ~provider.auth /\ said = 0
  /\ proc = "up"

-------------------------------------------------------------------------------
(* The parts of a step *)

\* The log takes all of a text, the thread as much as fits a line; a reply is clamped too.
Clip(text) == IF text > LineCap THEN LineCap ELSE text
Clamp(text) == IF text > ReplyCap THEN ReplyCap + 1 ELSE text

\* The end of a message.
FlushOutput ==
  /\ buffer' = 0 /\ line' = IF buffer = 0 THEN line ELSE Clip(buffer)
  /\ log' = [text |-> log.text + buffer, open |-> FALSE]

\* An event the runner flushes at: it listens until it has finished.
Flushes == IF settled THEN UNCHANGED outVars ELSE FlushOutput

\* `finish`: the first reason wins.
FinishRun == settled' = TRUE /\ Flushes

Ask(request) == pending' = pending \cup {request} /\ toAgent' = Append(toAgent, request)
AskNothing == UNCHANGED <<pending, toAgent>>

\* close(): SIGTERM to the group, SIGKILL two seconds later.
Close ==
  /\ killTimer' = ~exited
  /\ proc' = IF proc = "up" THEN "told" ELSE proc

Ended(t, how) == [fate EXCEPT ![t] = how]
Leave(how) ==
  /\ fate' = Ended(Head(queue), how) /\ queue' = Tail(queue)
  /\ stage' = "idle" /\ tried' = FALSE /\ inFlight' = "none"

\* Mutant: a failed prompt only ends the session's bookkeeping.
TurnFailsOpenly == Leave("failed") /\ UNCHANGED <<killTimer, proc>> /\ FinishRun

\* A rejected prompt, or a reply that is `failed`: runOnce closes and finishes.
TurnFails == Leave("failed") /\ Close /\ FinishRun

TurnReturns(reply) ==
  IF reply = "failed" THEN TurnFails
  ELSE Leave(reply) /\ Flushes /\ UNCHANGED <<settled, killTimer, proc>>

\* sendPromptTurn: the echo, then the request.  A slot settled while the
\* session was opening already has its reply.
Send(slot) ==
  /\ Ask(Head(queue)) /\ fold' = Silence
  /\ IF slot = "open"
     THEN /\ stage' = "sent" /\ inFlight' = slot /\ Flushes
          /\ UNCHANGED <<queue, tried, fate, settled, killTimer, proc>>
     ELSE TurnReturns(slot)

\* prompt(): the slot first, then the session: the one there is, the one being
\* opened by whoever asked first, or a new one.
Begin ==
  IF acpSessionId THEN Send("open") /\ UNCHANGED opening
  ELSE /\ inFlight' = "open" /\ stage' = "opening"
       /\ UNCHANGED <<queue, tried, fate, settled, outVars, fold, killTimer, proc>>
       /\ IF opening # "none" THEN UNCHANGED opening /\ AskNothing
          ELSE IF hello = "done" THEN opening' = "session/new" /\ Ask(opening')
          ELSE opening' = "initialize" /\ AskNothing

-------------------------------------------------------------------------------
(* The runner *)

\* A turn that can begin does so before the next event.
Waiting == queue # <<>> /\ stage = "idle" /\ micro = <<>>
Ready == registered # "due" /\ micro = <<>> /\ ~Waiting

Register ==
  /\ registered = "due"
  /\ registered' = "done"
  /\ queue' = Append(queue, Brief) /\ fate' = Ended(Brief, "queued")
  /\ UNCHANGED <<provider, stage, tried, stopRequested, settled, outVars, clientVars,
                 toAgent, fromAgent, agentVars, proc>>

\* The brief is chained to the registry write: without the one, not the other.
RegisterFails ==
  /\ registered = "due"
  /\ registered' = "failed"
  /\ UNCHANGED <<provider, turnVars, stopRequested, settled, outVars, clientVars,
                 toAgent, fromAgent, agentVars, proc>>

\* AgentSessionHandle.prompt: a line, an answer, a decision.
Prompt(t) ==
  /\ Ready /\ t # Brief /\ fate[t] = "none"
  /\ queue' = Append(queue, t) /\ fate' = Ended(t, "queued")
  /\ UNCHANGED <<provider, registered, stage, tried, stopRequested, settled, outVars,
                 clientVars, toAgent, fromAgent, agentVars, proc>>

SkipTurn ==
  /\ Waiting /\ (stopRequested \/ settled)
  /\ Leave("rejected")
  /\ UNCHANGED <<provider, registered, stopRequested, settled, outVars, hello, opening,
                 acpSessionId, fold, pending, micro, exited, killTimer, toAgent,
                 fromAgent, agentVars, proc>>

RunTurn ==
  /\ Waiting /\ ~stopRequested /\ ~settled
  /\ Begin
  /\ UNCHANGED <<provider, registered, stopRequested, hello, acpSessionId, micro, exited,
                 fromAgent, agentVars>>

\* The turn whose slot is settled at once: a reply is awaited or still to come.
SlotFails ==
  IF inFlight # "open" THEN UNCHANGED <<turnVars, inFlight>>
  ELSE IF stage = "sent" THEN Leave("failed")
  ELSE inFlight' = "failed" /\ UNCHANGED turnVars

\* Mutant: stop() leaves everything to the exit that follows.
StopLater ==
  /\ ~stopRequested /\ Ready
  /\ IF exited THEN UNCHANGED endVars ELSE SlotFails /\ Close /\ UNCHANGED <<settled, outVars>>
  /\ UNCHANGED <<provider, registered, stopRequested, hello, opening, acpSessionId, fold, pending,
                 micro, exited, toAgent, fromAgent, agentVars>>

\* stop(): close() settles the slot, and the failed turn finishes the session.
Stop ==
  /\ ~stopRequested /\ Ready
  /\ stopRequested' = TRUE
  /\ IF exited THEN UNCHANGED endVars
     ELSE /\ SlotFails /\ Close
          /\ IF inFlight = "open" /\ stage = "sent" THEN FinishRun ELSE UNCHANGED <<settled, outVars>>
  /\ UNCHANGED <<provider, registered, hello, opening, acpSessionId, fold, pending, micro,
                 exited, toAgent, fromAgent, agentVars>>

-------------------------------------------------------------------------------
(* The client: lines from the agent *)

\* Mutant: bookkeeping closes the message, too.
EndsLineAny(kind) == kind \notin Chunk

\* The updates that end the runner's message.
EndsLine(kind) == kind \in {"tool", "plan"}

Fold(kind) ==
  CASE kind \in Chunk ->
         [text |-> Clamp((IF fold.streaming THEN fold.text ELSE 0) + Length[kind]), streaming |-> TRUE]
    [] kind = "tool" -> [fold EXCEPT !.streaming = FALSE]
    [] OTHER -> fold

\* A message longer than a line is written as it goes.
ReceiveChunk(text) ==
  LET before == IF log.open THEN log.text ELSE 0 IN
  IF text >= LineCap
  THEN buffer' = 0 /\ line' = Clip(text) /\ log' = [text |-> before + text, open |-> TRUE]
  ELSE buffer' = text /\ line' = line /\ log' = [text |-> before, open |-> TRUE]

ReceiveUpdate(kind) ==
  /\ fold' = IF inFlight = "open" THEN Fold(kind) ELSE fold
  /\ IF settled THEN UNCHANGED outVars
     ELSE IF kind \in Chunk THEN ReceiveChunk(buffer + Length[kind])
     ELSE IF EndsLine(kind) THEN FlushOutput ELSE UNCHANGED outVars
  /\ UNCHANGED <<turnVars, settled, inFlight, pending, micro, killTimer, proc>>

ReceiveAnswer(of, is) ==
  /\ pending' = pending \ {of}
  /\ micro' = IF of \in pending THEN Append(micro, Line("answer", of, is)) ELSE micro
  /\ UNCHANGED <<turnVars, settled, outVars, inFlight, fold, killTimer, proc>>

\* The framer overflows at the start of a chunk: an error event, then close().
ReceiveFlood ==
  /\ Ready
  /\ SlotFails /\ FinishRun
  /\ IF exited THEN UNCHANGED <<killTimer, proc>> ELSE Close
  /\ UNCHANGED <<fold, pending, micro>>

Receive ==
  /\ fromAgent # <<>> /\ (Ready \/ micro # <<>>)
  /\ fromAgent' = Tail(fromAgent)
  /\ LET m == Head(fromAgent) IN
     \/ m.kind = "update" /\ ReceiveUpdate(m.is)
     \/ m.kind = "answer" /\ ReceiveAnswer(m.of, m.is)
     \/ m.kind = "flood" /\ ReceiveFlood
  /\ UNCHANGED <<provider, registered, stopRequested, hello, opening, acpSessionId, exited,
                 toAgent, agentVars>>

-------------------------------------------------------------------------------
(* The client: promises *)

\* What waits for ensureSession when it gets its session, or does not.
Opened ==
  /\ opening' = "none"
  /\ IF stage = "opening" THEN Send(inFlight) ELSE AskNothing /\ UNCHANGED <<fold, endVars>>

\* Mutant: the session is there, whatever became of its mode.
NotOpenedButUsed(is) == Opened

\* AuthRequiredError is retried once per method; anything else fails the turn.
NotOpened(is) ==
  /\ opening' = "none" /\ UNCHANGED fold
  /\ IF stage # "opening" THEN AskNothing /\ UNCHANGED endVars
     ELSE IF is = "auth" /\ provider.auth /\ ~tried
     THEN /\ stage' = "authenticating" /\ tried' = TRUE /\ inFlight' = "none"
          /\ Ask("authenticate")
          /\ UNCHANGED <<queue, fate, settled, outVars, killTimer, proc>>
     ELSE TurnFails /\ AskNothing

Initialized(is) ==
  /\ hello' = IF is = "ok" THEN "done" ELSE "failed"
  /\ IF is = "ok"
     THEN /\ IF opening = "initialize" THEN opening' = "session/new" /\ Ask(opening')
             ELSE UNCHANGED opening /\ AskNothing
          /\ UNCHANGED <<fold, endVars>>
     ELSE \* an error event: the runner finishes; whoever awaited it fails
          /\ opening' = "none" /\ AskNothing /\ UNCHANGED fold
          /\ IF stage = "opening" THEN TurnFails
             ELSE FinishRun /\ UNCHANGED <<turnVars, inFlight, killTimer, proc>>
  /\ UNCHANGED acpSessionId

SessionAnswered(is) ==
  /\ acpSessionId' = (acpSessionId \/ is = "ok")
  /\ IF is # "ok" THEN NotOpened(is)
     ELSE IF provider.mode
     THEN opening' = "session/set_mode" /\ Ask(opening') /\ UNCHANGED <<fold, endVars>>
     ELSE Opened
  /\ UNCHANGED hello

ModeAnswered(is) ==
  /\ IF is = "ok" THEN Opened ELSE NotOpened(is)
  /\ UNCHANGED <<hello, acpSessionId>>

Authenticated(is) ==
  /\ IF is = "ok" THEN Begin
     ELSE TurnFails /\ AskNothing /\ UNCHANGED <<opening, fold>>
  /\ UNCHANGED <<hello, acpSessionId>>

\* The turn-end marker settles the slot, whichever turn it was sent for.
TurnAnswered(is) ==
  /\ IF inFlight # "open" THEN Flushes /\ UNCHANGED <<turnVars, settled, inFlight, killTimer, proc>>
     ELSE IF stage = "sent" THEN TurnReturns(is)
     ELSE inFlight' = is /\ Flushes /\ UNCHANGED <<turnVars, settled, killTimer, proc>>
  /\ AskNothing
  /\ UNCHANGED <<hello, opening, acpSessionId, fold>>

Settle ==
  /\ micro # <<>>
  /\ micro' = Tail(micro)
  /\ LET of == Head(micro).of  is == Head(micro).is IN
     \/ of = "initialize" /\ Initialized(is)
     \/ of = "session/new" /\ SessionAnswered(is)
     \/ of = "session/set_mode" /\ ModeAnswered(is)
     \/ of = "authenticate" /\ Authenticated(is)
     \/ of \in Turn /\ TurnAnswered(is)
  /\ UNCHANGED <<provider, registered, stopRequested, exited, fromAgent, agentVars>>

\* Only the handshake has a time limit.
HandshakeTimesOut ==
  /\ "initialize" \in pending /\ Ready
  /\ pending' = pending \ {"initialize"}
  /\ micro' = Append(micro, Line("answer", "initialize", "failed"))
  /\ UNCHANGED <<provider, runnerVars, hello, opening, acpSessionId, inFlight, fold,
                 exited, killTimer, toAgent, fromAgent, agentVars, proc>>

\* onDead: every request is rejected, and the exit event finishes the session.
ExitSeen ==
  /\ proc = "gone" /\ ~exited /\ Ready
  /\ exited' = TRUE /\ killTimer' = FALSE /\ pending' = {} /\ opening' = "none"
  /\ hello' = IF hello = "waiting" THEN "failed" ELSE hello
  /\ FinishRun
  /\ IF stage = "idle" THEN UNCHANGED <<turnVars, inFlight>> ELSE Leave("failed")
  /\ UNCHANGED <<provider, registered, stopRequested, acpSessionId, fold, micro, toAgent,
                 fromAgent, agentVars, proc>>

KillTimer ==
  /\ killTimer /\ Ready
  /\ killTimer' = FALSE
  /\ proc' = IF proc = "gone" THEN proc ELSE "killed"
  /\ UNCHANGED <<provider, runnerVars, hello, opening, acpSessionId, inFlight, fold, pending,
                 micro, exited, toAgent, fromAgent, agentVars>>

-------------------------------------------------------------------------------
(* The agent *)

Runs == proc \in {"up", "told"}
Says(m) == fromAgent' = Append(fromAgent, m)

AgentAnswers(request) ==
  CASE request = "session/new" -> IF authed THEN {"ok", "failed"} ELSE {"auth"}
    [] request = "session/set_mode" -> {"ok", "failed", "auth"}
    [] OTHER -> {"ok", "failed"}

AgentReads ==
  /\ Runs /\ toAgent # <<>>
  /\ toAgent' = Tail(toAgent)
  /\ LET of == Head(toAgent) IN
     \/ /\ of \in Turn
        /\ working' = working \cup {of}
        /\ UNCHANGED <<fromAgent, opened, moded, authed>>
     \/ /\ of \in Step
        /\ \E is \in AgentAnswers(of) :
             /\ Says(Line("answer", of, is))
             /\ opened' = opened + (IF of = "session/new" /\ is = "ok" THEN 1 ELSE 0)
             /\ moded' = (moded \/ (of = "session/set_mode" /\ is = "ok"))
             /\ authed' = (authed \/ (of = "authenticate" /\ is = "ok"))
        /\ UNCHANGED working
  /\ UNCHANGED <<provider, runnerVars, clientVars, answered, said, proc>>

AgentEndsTurn(t) ==
  /\ Runs /\ t \in working
  /\ \E is \in {"completed", "cancelled", "failed"} :
       answered' = [answered EXCEPT ![t] = is] /\ Says(Line("answer", t, is))
  /\ working' = working \ {t}
  /\ UNCHANGED <<provider, runnerVars, clientVars, toAgent, opened, moded, authed, said, proc>>

AgentUpdates ==
  /\ Runs /\ working # {} /\ said < MaxUpdates
  /\ said' = said + 1
  /\ \/ \E kind \in Update : Says(Line("update", "session/update", kind))
     \/ Says(Line("flood", "session/update", "usage"))
  /\ UNCHANGED <<provider, runnerVars, clientVars, toAgent, working, answered, opened, moded,
                 authed, proc>>

\* A crash, or a SIGTERM honoured.
AgentDies ==
  /\ Runs /\ proc' = "gone"
  /\ UNCHANGED <<provider, runnerVars, clientVars, toAgent, fromAgent, agentVars>>

Killed ==
  /\ proc = "killed" /\ proc' = "gone"
  /\ UNCHANGED <<provider, runnerVars, clientVars, toAgent, fromAgent, agentVars>>

\* The command cannot be run: an error event, and the close event after it.
SpawnFails ==
  /\ proc = "up" /\ hello = "waiting" /\ fromAgent = <<>> /\ toAgent # <<>> /\ Ready
  /\ Head(toAgent) = "initialize"
  /\ proc' = "gone"
  /\ SlotFails /\ FinishRun
  /\ UNCHANGED <<provider, registered, stopRequested, hello, opening, acpSessionId, fold,
                 pending, micro, exited, killTimer, toAgent, fromAgent, agentVars>>

AcpNext ==
  \/ Register \/ RegisterFails \/ (\E t \in Turn : Prompt(t))
  \/ SkipTurn \/ RunTurn \/ Stop
  \/ Receive \/ Settle \/ HandshakeTimesOut \/ ExitSeen \/ KillTimer
  \/ AgentReads \/ (\E t \in Turn : AgentEndsTurn(t)) \/ AgentUpdates
  \/ AgentDies \/ Killed \/ SpawnFails

AcpSpec == AcpInit /\ [][AcpNext]_acpVars

\* The event loop runs what is due, timers fire, SIGKILL kills; the agent owes nothing.
AcpFairness ==
  /\ WF_acpVars(Register \/ RegisterFails) /\ WF_acpVars(SkipTurn) /\ WF_acpVars(RunTurn)
  /\ WF_acpVars(Receive) /\ WF_acpVars(Settle)
  /\ WF_acpVars(HandshakeTimesOut) /\ WF_acpVars(ExitSeen) /\ WF_acpVars(KillTimer) /\ WF_acpVars(Killed)

FairAcpSpec == AcpSpec /\ AcpFairness
-------------------------------------------------------------------------------
(* Properties *)

Replies == {"completed", "cancelled", "failed"}
LineShape == [kind : {"answer", "update", "flood"}, of : AcpRequest \cup {"session/update"},
              is : {"ok", "failed", "auth"} \cup Replies \cup Chunk \cup {"tool", "usage", "plan"}]

\* Types; a turn is running exactly when the queue's head has left "idle", and
\* a turn whose session is opening holds the slot (session.ts, prompt).
AcpTypeOK ==
  /\ provider \in Provider /\ registered \in {"due", "done", "failed"}
  /\ queue \in Seq(Turn) /\ stage \in {"idle", "opening", "authenticating", "sent"}
  /\ fate \in [Turn -> {"none", "queued", "rejected"} \cup Replies]
  /\ {tried, stopRequested, settled, acpSessionId, exited, killTimer, moded, authed} \subseteq BOOLEAN
  /\ buffer \in Nat /\ line \in Nat /\ log \in [text : Nat, open : BOOLEAN] /\ said \in 0..MaxUpdates
  /\ hello \in {"waiting", "done", "failed"}
  /\ opening \in {"none", "initialize", "session/new", "session/set_mode"}
  /\ inFlight \in {"none", "open"} \cup Replies
  /\ fold \in [text : Nat, streaming : BOOLEAN]
  /\ pending \subseteq AcpRequest /\ micro \in Seq(LineShape) /\ fromAgent \in Seq(LineShape)
  /\ toAgent \in Seq(AcpRequest) /\ working \subseteq Turn
  /\ answered \in [Turn -> {"none"} \cup Replies] /\ opened \in Nat
  /\ proc \in {"up", "told", "killed", "gone"}
  /\ stage # "idle" => queue # <<>>
  /\ stage = "opening" => inFlight # "none"
  /\ inFlight # "none" => stage \in {"opening", "sent"}

\* A turn ends as the agent ended it.  The marker that settles the client's slot
\* does not say whose it is, and close() empties the slot of a turn whose answer
\* is still to come: only the runner, which sends nothing more once a turn has
\* failed, keeps that answer from the next turn (acp-client session.ts:590,
\* runner session.ts:545).
RepliesAreOwn == \A t \in Turn : fate[t] \in {"completed", "cancelled"} => answered[t] = fate[t]

\* No turn reaches an agent whose session is not in its mode, unless a refused
\* set_mode passes for a missing login (session.ts:584, the error code).  The brief
\* sees to it: it waits for the whole opening, while a prompt made in the midst of
\* set_mode would get the session id at once (session.ts:558).
PromptedInMode ==
  working # {} /\ registered = "done" /\ provider.mode /\ ~provider.auth => moded

\* The client's fold and the runner's buffer cut the agent's messages at the same places:
\* when a turn completes, output.log has its reply as one message (the reply is clamped, the
\* log is not), and a reply that fits in a line of the thread is the last line.
ReplyIsWritten == [][\A t \in Turn :
  /\ fate[t] = "queued" /\ fate'[t] = "completed" /\ fold.text > 0
  => /\ fold.text = Clamp(log'.text)
     /\ fold.text <= LineCap => line' = fold.text]_acpVars

\* A session that is stopped or that has finished has no process and no turn for
\* long: an agent that ignores SIGTERM, one that never answers, and one the
\* runner gave up over an error event are all killed, and what waited is told.
\* (A session whose registry write failed has no turn whose failure closes it.)
EndsWhole ==
  registered = "done" /\ (stopRequested \/ settled) ~> exited /\ queue = <<>>

\* The brief is sent to the agent or the session ends.
BriefIsHeard == registered # "due" ~> fate[Brief] # "none" \/ settled
===============================================================================
