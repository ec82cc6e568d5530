--------------------------------- MODULE Gates ---------------------------------
(***************************************************************************)
(* GateService and its main client, the PreToolUse hook: routed tool calls *)
(* raise `classifier_review` gates, humans and an optional delegate answer *)
(* them, a retry spends an approval, and a note reaches the waiting agent  *)
(* through its bus inbox.                                                  *)
(*                                                                         *)
(* Grain.  Hooks wait for the classifier and a tick waits for the delegate *)
(* of each gate in turn; anything may run meanwhile.  A read and the write *)
(* it decides, with only the store's mutex between them, are one step      *)
(* (the mutex runs synchronous functions), except for the list and the     *)
(* compare-and-swap of the route band, which the code itself takes to be   *)
(* run by two identical calls at once.  The decision, and the event and    *)
(* the message that announce it, are separate writes: nothing but the      *)
(* mutex lies between them, but a kill, or a write that fails, may.        *)
(***************************************************************************)
EXTENDS Naturals, FiniteSets, Sequences

CONSTANTS
  Session, Call,   \* agents, and fingerprints of tool calls
  Hook, Tick,      \* hook calls and ticks that can be in flight together
  Text,            \* what a human may write on a gate
  None,            \* no session, no call, no text
  Delegates,       \* whether `options.delegate` is set: what it may be
  ContextCap,      \* notes that fit ADDITIONAL_CONTEXT_MAX_CHARS
  MaxGates, MaxAttempts, \* bounds: gates raised, hook calls,
  MaxAsks, MaxNoted      \* notes in flight for a gate, gates with a note

ASSUME GatesAssumption ==
  /\ None \notin Session \cup Call \cup Text
  /\ Delegates \subseteq BOOLEAN /\ Delegates # {}
  /\ {ContextCap, MaxGates, MaxAttempts, MaxAsks, MaxNoted} \subseteq Nat

Gate == 1..MaxGates       \* in the order they are raised
Decision == {"approve", "deny"}
Verdict == {"allow", "deny", "ask"}

VARIABLES
  delegate,        \* a delegate is wired
  gate, raised,    \* the records under gates/, and how many there are
  late,            \* gates at or past their deadline
  asks,            \* delegate calls in flight for a note (settleLater)
  tick,            \* what each running tick still has to decide
  hook, attempts,  \* hook calls, and how many there have been
  saying,          \* the note a decision has still to announce
  sent, unread,    \* note messages, and those not acked
  answers, uses,   \* history: decisions written, and calls let through, per gate
  wrote, heard,    \* history: the last text written on a gate, messages put before the agent
  cut              \* history: notes whose announcement a kill or a failed write cut off

records == <<gate, raised, answers, late>>
bus == <<saying, sent, unread, cut>>
vars == <<delegate, records, asks, tick, hook, attempts, bus, uses, wrote, heard>>

Unraised == [who |-> None, what |-> None, owner |-> "human", answer |-> "none",
             by |-> "nobody", note |-> None, spent |-> FALSE]
Idle == [pc |-> "idle", who |-> None, what |-> None, tier |-> "policy", ack |-> {},
         yes |-> 0, otherwise |-> "raise", used |-> 0, verdict |-> "ask"]
Done == [todo |-> {}, noted |-> [i \in Gate |-> None]]
Silence == [about |-> 0, text |-> None]

Init ==
  /\ delegate \in Delegates
  /\ gate = [i \in Gate |-> Unraised] /\ raised = 0 /\ late = {}
  /\ asks = [i \in Gate |-> 0] /\ tick = [t \in Tick |-> Done]
  /\ hook = [h \in Hook |-> Idle] /\ attempts = 0
  /\ saying = Silence /\ sent = <<>> /\ unread = {} /\ heard = {} /\ cut = {}
  /\ wrote = [i \in Gate |-> None]
  /\ answers = [i \in Gate |-> 0] /\ uses = [i \in Gate |-> 0]

Pending(i) == gate[i].answer = "pending"
Resolved(i) == gate[i].answer \in Decision

\* What a step writes over a record under gates/, and over a hook's locals.
Put(i, record) == gate' = [gate EXCEPT ![i] = record]
Go(h, locals) == hook' = [hook EXCEPT ![h] = locals]

-------------------------------------------------------------------------------
(* The hook *)

Inbox(s) == {n \in unread : gate[sent[n].about].who = s}

\* buildAdditionalContext: the oldest messages, as many as fit.
Fitting(msgs) == {n \in msgs : Cardinality({k \in msgs : k <= n}) <= ContextCap}

\* buildContext and decidePreToolUse: the inbox is polled (not for a caller
\* with no channel for it), and the tiers before the classifier give a verdict.
Begin(h, s, c, verdict, channel) ==
  /\ hook[h].pc = "idle" /\ attempts < MaxAttempts
  /\ attempts' = attempts + 1
  /\ LET polled == IF channel THEN Inbox(s) ELSE {} IN
     Go(h, [Idle EXCEPT !.who = s, !.what = c, !.verdict = verdict, !.ack = polled,
                        !.pc = CASE verdict = "ask" -> "match"
                                 [] verdict = "allow" -> "classify"
                                 [] verdict = "deny" -> "finish"])
  /\ UNCHANGED <<delegate, records, asks, tick, bus, uses, wrote, heard>>

\* The classifier's answer, or §6.4's policy when there is none.
Classify(h, band) ==
  /\ hook[h].pc = "classify"
  /\ Go(h, [hook[h] EXCEPT !.tier = "classifier",
                           !.pc = IF band = "route" THEN "match" ELSE "finish",
                           !.verdict = IF band = "deny" THEN "deny" ELSE @])
  /\ UNCHANGED <<delegate, records, asks, tick, attempts, bus, uses, wrote, heard>>

\* Mutant: any session's gate on the same call answers.
MatchingAnySession(h) == {i \in 1..raised : gate[i].what = hook[h].what}

\* This session's gates on this exact call.
Matching(h) == {i \in 1..raised : gate[i].who = hook[h].who /\ gate[i].what = hook[h].what}

Approvals(h) == {i \in Matching(h) : gate[i].answer = "approve" /\ ~gate[i].spent}

\* An open gate, or a denied one, is the answer of an attempt without approval.
Reading(h) ==
  IF \E i \in Matching(h) : gate[i].answer \in {"pending", "deny"} THEN "reuse" ELSE "raise"

\* routeCall reads the gates once, newest first; should the approval be gone when it is
\* spent, that reading decides.
Match(h, i) ==
  /\ hook[h].pc = "match" /\ i \in Approvals(h) /\ \A j \in Approvals(h) : j <= i
  /\ Go(h, [hook[h] EXCEPT !.pc = "spend", !.yes = i, !.otherwise = Reading(h)])
  /\ UNCHANGED <<delegate, records, asks, tick, attempts, bus, uses, wrote, heard>>

\* Mutant: the record is not read again before it is marked as spent.
SpendAsListed(h) ==
  LET i == hook[h].yes IN
  /\ hook[h].pc = "spend"
  /\ Put(i, [gate[i] EXCEPT !.spent = TRUE])
  /\ uses' = [uses EXCEPT ![i] = @ + 1]
  /\ Go(h, [hook[h] EXCEPT !.used = i, !.verdict = "allow", !.yes = 0, !.otherwise = "raise",
                           !.pc = IF hook[h].tier = "policy" THEN "classify" ELSE "finish"])
  /\ UNCHANGED <<delegate, raised, answers, late, asks, tick, attempts, bus, wrote, heard>>

\* consume, a compare-and-swap: the record is read again.  After the policy
\* tier the allowed call still goes to the classifier.
Spend(h) ==
  LET i == hook[h].yes IN
  /\ hook[h].pc = "spend" /\ ~gate[i].spent
  /\ Put(i, [gate[i] EXCEPT !.spent = TRUE])
  /\ uses' = [uses EXCEPT ![i] = @ + 1]
  /\ Go(h, [hook[h] EXCEPT !.used = i, !.verdict = "allow", !.yes = 0, !.otherwise = "raise",
                           !.pc = IF hook[h].tier = "policy" THEN "classify" ELSE "finish"])
  /\ UNCHANGED <<delegate, raised, answers, late, asks, tick, attempts, bus, wrote, heard>>

\* GateAlreadyConsumedError: the loser falls back to routing.
SpentAlready(h) ==
  /\ hook[h].pc = "spend" /\ gate[hook[h].yes].spent
  /\ Go(h, [hook[h] EXCEPT !.pc = "place", !.yes = 0])
  /\ UNCHANGED <<delegate, records, asks, tick, attempts, bus, uses, wrote, heard>>

WithoutApproval(h, what) ==
  \/ hook[h].pc = "match" /\ Approvals(h) = {} /\ Reading(h) = what
  \/ hook[h].pc = "place" /\ hook[h].otherwise = what

Reuse(h) ==
  /\ WithoutApproval(h, "reuse")
  /\ Go(h, [hook[h] EXCEPT !.verdict = "deny", !.pc = "finish", !.otherwise = "raise"])
  /\ UNCHANGED <<delegate, records, asks, tick, attempts, bus, uses, wrote, heard>>

\* GateService.request: the owner is the policy's, or the human while some signal in
\* breaker.yaml, which nothing else here reads, is tripped.
Raise(h, policy, tripped) ==
  /\ WithoutApproval(h, "raise") /\ raised < MaxGates
  /\ raised' = raised + 1
  /\ Put(raised + 1,
         [Unraised EXCEPT !.who = hook[h].who, !.what = hook[h].what, !.answer = "pending",
                          !.owner = IF tripped THEN "human" ELSE policy])
  /\ Go(h, [hook[h] EXCEPT !.verdict = "deny", !.pc = "finish", !.otherwise = "raise"])
  /\ UNCHANGED <<delegate, answers, late, asks, tick, attempts, bus, uses, wrote, heard>>

\* The polled messages are acked and the answer returned, with what fitted.
Finish(h) ==
  /\ hook[h].pc = "finish"
  /\ unread' = unread \ hook[h].ack
  /\ heard' = heard \cup Fitting(hook[h].ack)
  /\ Go(h, Idle)
  /\ UNCHANGED <<delegate, records, asks, tick, attempts, saying, sent, cut, uses, wrote>>

-------------------------------------------------------------------------------
(* Answers *)

Message == [about : Gate, text : Text]

\* The record a decision leaves; a note on it has now to be announced.
Decide(i, d, by, note, spent) ==
  /\ Put(i, [gate[i] EXCEPT !.answer = d, !.by = by, !.note = note, !.spent = spent])
  /\ answers' = [answers EXCEPT ![i] = @ + 1]
  /\ saying' = IF note # None THEN [about |-> i, text |-> note] ELSE saying
  /\ UNCHANGED <<sent, unread, cut>>

\* announce: the event, and then deliverNote's message to the agent that waits.
Deliver ==
  /\ saying # Silence /\ saying' = Silence
  /\ sent' = Append(sent, saying) /\ unread' = unread \cup {Len(sent) + 1}
  /\ UNCHANGED <<delegate, records, asks, tick, hook, attempts, uses, wrote, heard, cut>>

CutOff ==
  /\ saying' = Silence /\ cut' = IF saying = Silence THEN cut ELSE cut \cup {saying}
  /\ UNCHANGED <<sent, unread>>

\* The event or the message cannot be written: the caller sees the error, and the decision
\* stands (a tick drops the rest, as in FailTick).
FailAnnounce ==
  /\ saying # Silence /\ CutOff
  /\ UNCHANGED <<delegate, records, asks, tick, hook, attempts, uses, wrote, heard>>

Written == {i \in Gate : wrote[i] # None}
MayWrite(i) == i \in Written \/ Cardinality(Written) < MaxNoted

\* A text replaces the one before it; a press may come without one.
Write(i, text) ==
  /\ text # None => MayWrite(i)
  /\ wrote' = [wrote EXCEPT ![i] = IF text # None THEN text ELSE @]

\* Mutant: a press without text drops the note typed before.
RespondOverNote(i, d, text) ==
  /\ Pending(i) /\ Write(i, text)
  /\ Decide(i, d, "human", text, gate[i].spent)
  /\ UNCHANGED <<delegate, raised, late, asks, tick, hook, attempts, uses, heard>>

Respond(i, d, text) ==
  /\ Pending(i) /\ Write(i, text)
  /\ Decide(i, d, "human", IF text # None THEN text ELSE gate[i].note, gate[i].spent)
  /\ UNCHANGED <<delegate, raised, late, asks, tick, hook, attempts, uses, heard>>

AddNote(i, text) ==
  /\ Pending(i) /\ asks[i] < MaxAsks /\ Write(i, text)
  /\ Put(i, [gate[i] EXCEPT !.note = text])
  /\ asks' = IF delegate THEN [asks EXCEPT ![i] = @ + 1] ELSE asks
  /\ UNCHANGED <<delegate, raised, answers, late, tick, hook, attempts, bus, uses, heard>>

\* Mutant: the delegate's late decision is written whatever happened since.
SettleAnyway(i, d) ==
  /\ asks[i] > 0
  /\ asks' = [asks EXCEPT ![i] = @ - 1]
  /\ Decide(i, d, "delegate", gate[i].note, gate[i].spent)
  /\ UNCHANGED <<delegate, raised, late, tick, hook, attempts, uses, wrote, heard>>

\* settleLater: the record is read again when the delegate has answered (or
\* failed, which denies).
Settle(i, d) ==
  /\ asks[i] > 0
  /\ asks' = [asks EXCEPT ![i] = @ - 1]
  /\ IF Pending(i)
     THEN Decide(i, d, "delegate", gate[i].note, gate[i].spent)
     ELSE UNCHANGED <<gate, answers, bus>>
  /\ UNCHANGED <<delegate, raised, late, tick, hook, attempts, uses, wrote, heard>>

-------------------------------------------------------------------------------
(* Time-outs *)

Elapse(i) ==
  /\ Pending(i) /\ gate[i].owner = "human_timeout" /\ i \notin late
  /\ late' = late \cup {i}
  /\ UNCHANGED <<delegate, gate, raised, answers, asks, tick, hook, attempts, bus, uses, wrote, heard>>

Due == {i \in late : Pending(i) /\ gate[i].owner = "human_timeout"}

\* tick lists the gates once, with their notes.  Without a delegate they stay
\* pending (their `reason` says so).
StartTick(t) ==
  /\ delegate /\ tick[t] = Done /\ Due # {}
  /\ tick' = [tick EXCEPT ![t] =
       [todo |-> Due, noted |-> [i \in Gate |-> IF i \in Due THEN gate[i].note ELSE None]]]
  /\ UNCHANGED <<delegate, records, asks, hook, attempts, bus, uses, wrote, heard>>

\* The delegate has answered for the next gate: the record that was listed,
\* with that decision, is written.
DecideTick(t, i, d) ==
  /\ i \in tick[t].todo /\ \A j \in tick[t].todo : i <= j
  /\ Decide(i, d, "delegate", tick[t].noted[i], FALSE)
  /\ tick' = [tick EXCEPT ![t].todo = @ \ {i}, ![t].noted[i] = None]
  /\ UNCHANGED <<delegate, raised, late, asks, hook, attempts, uses, wrote, heard>>

\* The delegate throws: the rest of this tick is dropped.
FailTick(t) ==
  /\ tick[t].todo # {}
  /\ tick' = [tick EXCEPT ![t] = Done]
  /\ UNCHANGED <<delegate, records, asks, hook, attempts, bus, uses, wrote, heard>>

-------------------------------------------------------------------------------
(* A restart of the daemon, and the next-state relation *)

\* A note that is not announced by now never is.
Restart ==
  /\ CutOff
  /\ hook' = [h \in Hook |-> Idle] /\ tick' = [t \in Tick |-> Done]
  /\ asks' = [i \in Gate |-> 0]
  /\ UNCHANGED <<delegate, records, attempts, uses, wrote, heard>>

HookStep(h) ==
  \/ \E s \in Session, c \in Call, v \in Verdict, channel \in BOOLEAN : Begin(h, s, c, v, channel)
  \/ \E band \in {"allow", "deny", "route"} : Classify(h, band)
  \/ \E i \in Gate : Match(h, i)
  \/ Spend(h) \/ SpentAlready(h) \/ Reuse(h)
  \/ \E policy \in {"human", "human_timeout"}, tripped \in BOOLEAN : Raise(h, policy, tripped)
  \/ Finish(h)

GateStep(i) ==
  \/ \E d \in Decision, text \in Text \cup {None} : Respond(i, d, text)
  \/ \E text \in Text : AddNote(i, text)
  \/ \E d \in Decision : Settle(i, d)
  \/ Elapse(i)

TickStep(t) == StartTick(t) \/ (\E i \in Gate, d \in Decision : DecideTick(t, i, d)) \/ FailTick(t)

Step ==
  \/ \E h \in Hook : HookStep(h)
  \/ \E i \in Gate : GateStep(i)
  \/ \E t \in Tick : TickStep(t)

Next == (saying = Silence /\ Step) \/ Deliver \/ FailAnnounce \/ Restart

Spec == Init /\ [][Next]_vars

-------------------------------------------------------------------------------
(* Properties *)

Record == [who : Session \cup {None}, what : Call \cup {None},
           owner : {"human", "human_timeout"}, answer : Decision \cup {"none", "pending"},
           by : {"nobody", "human", "delegate"}, note : Text \cup {None}, spent : BOOLEAN]
Attempt == [pc : {"idle", "match", "spend", "place", "classify", "finish"},
            who : Session \cup {None}, what : Call \cup {None},
            tier : {"policy", "classifier"}, ack : SUBSET Nat,
            yes : Gate \cup {0}, otherwise : {"raise", "reuse"},
            used : Gate \cup {0}, verdict : Verdict]

\* The type invariant.
TypeOK ==
  /\ delegate \in BOOLEAN
  /\ gate \in [Gate -> Record] /\ raised \in 0..MaxGates /\ late \subseteq 1..raised
  /\ asks \in [Gate -> Nat] /\ tick \in [Tick -> [todo : SUBSET Gate, noted : [Gate -> Text \cup {None}]]]
  /\ hook \in [Hook -> Attempt] /\ attempts \in Nat
  /\ saying \in Message \cup {Silence} /\ cut \subseteq Message
  /\ sent \in Seq(Message) /\ unread \subseteq DOMAIN sent /\ heard \subseteq DOMAIN sent
  /\ answers \in [Gate -> Nat] /\ uses \in [Gate -> Nat] /\ wrote \in [Gate -> Text \cup {None}]

\* "Once, not standing": a gate lets no more calls through than it got
\* answers, however many identical calls race for it and whatever a tick or
\* a restart does; so one, when nobody answers twice.
OneCallPerAnswer == \A i \in Gate : uses[i] <= answers[i]

\* An approval opens the call it was given for, in the session that asked.
YesFitsCall ==
  \A h \in Hook : LET i == hook[h].used IN
    i # 0 => gate[i].who = hook[h].who /\ gate[i].what = hook[h].what

\* The gates and the hook calls in flight refine Permits, with the delegate as the one who
\* answers again: request, a decision, consume and the route band's choice of an approval
\* together let a call through on an unused yes of its own, and in no other way.
AskedOf == [i \in Gate |-> <<gate[i].who, gate[i].what>>]
AnswerOf == [i \in Gate |-> gate[i].answer]
UsedUp == [i \in Gate |-> gate[i].spent]
Doing == [h \in Hook |-> <<hook[h].who, hook[h].what>>]
PassOf == [h \in Hook |-> hook[h].used]

Promise == INSTANCE Permits WITH
  Attempt <- Hook, Callable <- Session \X Call, Nothing <- <<None, None>>, Unopened <- 0,
  asked <- AskedOf, answer <- AnswerOf, used <- UsedUp, doing <- Doing, pass <- PassOf,
  again <- delegate

ImplementsPermits == Promise!Spec

\* The delegate decides a gate only after its deadline or after a human wrote
\* a note on it; a gate that is the human's, by policy or because a breaker
\* was tripped, only after a note.
DelegateWhenDue ==
  \A i \in Gate : gate[i].by = "delegate" =>
    /\ delegate
    /\ i \in Written \/ (i \in late /\ gate[i].owner = "human_timeout")

\* A decision, once written, is changed only by a tick that had listed the
\* gate as pending: not by a second answer, nor by a delegate called for a
\* note ("unless a human answered first").
DecisionStands ==
  [][\A i \in Gate : Resolved(i) /\ <<gate'[i].answer, gate'[i].by>> # <<gate[i].answer, gate[i].by>>
       => \E t \in Tick : i \in tick[t].todo]_vars

\* "The waiting agent hears it once the gate is decided": the last text written on a
\* decided gate is about to be announced, is in the inbox, or was put before the agent,
\* unless a kill or a failed write cut its announcement off; while the notes waiting fit
\* the context and no tick decided.
LastNote(i) == [about |-> i, text |-> wrote[i]]
Owed(i) == i \in Written /\ Resolved(i) /\ (gate[i].by = "human" \/ i \notin late)

NoteIsHeard ==
  \A i \in Gate : Owed(i) =>
    LastNote(i) \in {saying} \cup cut \cup {sent[n] : n \in unread \cup heard}

\* The same of each text, also of one that another replaces before the gate is decided
\* (gates/service.ts:401, 417).  The code does not keep this.
EachTextIsHeard ==
  [][\A i \in Gate : wrote[i] # None /\ wrote'[i] # wrote[i] =>
       LastNote(i) \in {saying} \cup {sent[n] : n \in DOMAIN sent}]_vars

\* GateService: an async decision is persisted "unless a human answered
\* first"; a human's answer stays.
HumanAnswerStands ==
  [][\A i \in Gate : gate[i].by = "human" => gate'[i].by = "human"]_vars

\* "the human's yes lets exactly that call through once": the attempt that
\* spends an approval is allowed.
YesLetsThrough ==
  \A h \in Hook : hook[h].pc = "finish" /\ hook[h].used # 0 => hook[h].verdict = "allow"
===============================================================================
