------------------------------ MODULE Permissions ------------------------------
(***************************************************************************)
(* Judging the tool calls of the sessions that share one worktree.  A call *)
(* arrives at the PreToolUse hook, which finds out whose it is from the    *)
(* registry, or as an ACP request on the session's own connection.  The    *)
(* registry changes under it: records grow stale, are refreshed and are    *)
(* removed while the process still runs; a human retires a rule.           *)
(*                                                                         *)
(* What a decision is comes from Policy.  A gate's answer (module Gates)   *)
(* and a classifier's are choices here.                                    *)
(***************************************************************************)
EXTENDS Policy

CONSTANTS
  Session, Worker,     \* agents on the worktree, those whose role is worker
  Payload, Request,    \* hook calls and ACP requests they make
  World,               \* what git says of the worktree and the repo
  Rules,               \* the rules of the repo, in order
  NoCall

ASSUME PermissionsAssumption ==
  /\ Worker \subseteq Session /\ None \notin Session
  /\ DOMAIN Rules \subseteq Nat /\ \A i \in DOMAIN Rules : Rules[i].id # None
  /\ \A i, j \in DOMAIN Rules : Rules[i].id = Rules[j].id => i = j

RuleId == {Rules[i].id : i \in DOMAIN Rules}
Role(s) == IF s \in Worker THEN "engineer" ELSE "reviewer"

VARIABLES
  process,   \* the agent's process: "new", "running", "exited",
             \* "ending" after a finish() it has outlived, "gone"
  record,    \* its registry entry: "none", "fresh" or "stale"
  accepted,  \* the rules the human has accepted and not retired
  call       \* the call being judged

vars == <<process, record, accepted, call>>

\* The rules in scope, each at its place in the list.
InScope(pattern) ==
  Restrict(Rules, {i \in DOMAIN Rules : Rules[i].id \in accepted /\ (Rules[i].pattern # "none") = pattern})

Init ==
  /\ process = [s \in Session |-> "new"] /\ record = [s \in Session |-> "none"]
  /\ accepted \in SUBSET RuleId
  /\ call = NoCall

-------------------------------------------------------------------------------
(* The registry *)

\* startAgentSession registers before the first prompt.
Start(s) ==
  /\ process[s] = "new"
  /\ process' = [process EXCEPT ![s] = "running"]
  /\ record' = [record EXCEPT ![s] = "fresh"]
  /\ UNCHANGED <<accepted, call>>

\* A turn begins, or the vendor's state is learnt: putRegistryEntry.
Refresh(s) ==
  /\ process[s] = "running" /\ record[s] # "fresh"
  /\ record' = [record EXCEPT ![s] = "fresh"]
  /\ UNCHANGED <<process, accepted, call>>

\* `last_seen` is older than the liveness timeout.
Age(s) ==
  /\ record[s] = "fresh"
  /\ record' = [record EXCEPT ![s] = "stale"]
  /\ UNCHANGED <<process, accepted, call>>

\* The vendor exits, by itself or because stop() closed the session.
Exit(s) ==
  /\ process[s] \in {"running", "ending"}
  /\ process' = [process EXCEPT ![s] = IF @ = "running" THEN "exited" ELSE "gone"]
  /\ UNCHANGED <<record, accepted, call>>

\* finish(): after the exit, or at once when a prompt fails, and then the process that
\* close() has asked to end still has its grace period.
Finish(s) ==
  /\ process[s] \in {"running", "exited"}
  /\ process' = [process EXCEPT ![s] = IF @ = "running" THEN "ending" ELSE "gone"]
  /\ record' = [record EXCEPT ![s] = "none"]
  /\ UNCHANGED <<accepted, call>>

\* A daemon that crashes takes its agents along and leaves their records.
Crash ==
  /\ \E s \in Session : process[s] \in {"running", "exited", "ending"}
  /\ process' = [s \in Session |-> IF process[s] = "new" THEN "new" ELSE "gone"]
  /\ call' = NoCall
  /\ UNCHANGED <<record, accepted>>

SetRule(id) ==
  /\ accepted' = IF id \in accepted THEN accepted \ {id} ELSE accepted \cup {id}
  /\ call' = IF call = NoCall THEN call ELSE [call EXCEPT !.throughout = @ \ {id}]
  /\ UNCHANGED <<process, record>>

-------------------------------------------------------------------------------
(* The hook *)

Covering == {s \in Session : record[s] # "none"}

\* Mutant: stale records are dropped before the hint is looked up.
ResolveLive(hint) ==
  LET live == {s \in Covering : record[s] = "fresh"} IN
  CASE hint \in live -> hint
    [] hint \notin live /\ Cardinality(live) = 1 -> CHOOSE s \in live : TRUE
    [] OTHER -> None

\* Whose call it is: the session it names, however stale; else the one live record.
Resolve(hint) ==
  LET live == {s \in Covering : record[s] = "fresh"} IN
  CASE hint \in Covering -> hint
    [] hint \notin Covering /\ Cardinality(live) = 1 -> CHOOSE s \in live : TRUE
    [] OTHER -> None

\* A call arrives; its identity is settled before the heartbeat is awaited.
PreToolUse(s, payload, hint) ==
  /\ call = NoCall /\ process[s] \in {"running", "ending"}
  /\ call' = [at |-> "hook", by |-> s, hint |-> hint, known |-> record[s] # "none",
              as |-> Resolve(hint), pc |-> IF Resolve(hint) = None THEN "done" ELSE "decide",
              what |-> payload, world |-> {}, rules |-> <<>>,
              routed |-> FALSE, throughout |-> accepted,
              result |-> Decision("deny", None, NoRules)]
  /\ UNCHANGED <<process, record, accepted>>

\* Mutant: the heartbeat registers whoever it does not find.
SeenAgain(s) == [record EXCEPT ![s] = "fresh"]

\* heartbeat: the record, if it is still there, is seen now.
Seen(s) == [record EXCEPT ![s] = IF @ = "none" THEN "none" ELSE "fresh"]

Judged(result, rules, world) ==
  [call EXCEPT !.world = {world}, !.rules = rules, !.result = result,
               !.pc = CASE result.kind = "hil" -> "route"
                        [] result.kind = "allow" -> "classify"
                        [] result.kind = "deny" -> "done"]

\* After the heartbeat: the rules as they are now, and the verdict.
Decide(world) ==
  /\ call # NoCall /\ call.pc = "decide"
  /\ call' = Judged(GateVerdict(Role(call.as), call.what, InScope(TRUE), world), InScope(TRUE), world)
  /\ record' = Seen(call.as)
  /\ UNCHANGED <<process, accepted>>

\* The route band: a human's unspent yes, or a gate and a refusal.
Route(yes) ==
  /\ call # NoCall /\ call.pc = "route"
  /\ call' = [call EXCEPT !.result.kind = IF yes THEN "allow" ELSE "deny",
                          !.routed = TRUE, !.pc = IF yes THEN "classify" ELSE "done"]
  /\ UNCHANGED <<process, record, accepted>>

\* Mutant: the pattern rules' part of the count is replaced, not kept.
AskClassifierAfresh(answer, yes) ==
  /\ call # NoCall /\ call.pc = "classify"
  /\ LET outcome == Classifier(InScope(FALSE), answer) IN
     call' = [call EXCEPT
       !.result.kind = IF outcome.band = "deny" THEN "deny" ELSE "allow",
       !.result.evaluated = {r.id : r \in Range(InScope(FALSE))}, !.pc = "done"]
  /\ UNCHANGED <<process, record, accepted>>

\* One question per classifier rule; a tier that fails, or is off for the stream, answers
\* none of them.
AskClassifier(answer, yes) ==
  /\ call # NoCall /\ call.pc = "classify"
  /\ LET asked == InScope(FALSE)
         outcome == Classifier(asked, answer)
         ids == {asked[i].id : i \in DOMAIN asked} IN
     call' = [call EXCEPT
       !.result.kind = IF outcome.band \in {"allow"} \cup (IF yes THEN {"route"} ELSE {})
                       THEN "allow" ELSE "deny",
       !.result.evaluated = @ \cup ids,
       !.result.violated = IF outcome.band = "deny" THEN outcome.rule ELSE @,
       !.pc = "done"]
  /\ UNCHANGED <<process, record, accepted>>

Return ==
  /\ call # NoCall /\ call.pc = "done"
  /\ call' = NoCall
  /\ UNCHANGED <<process, record, accepted>>

-------------------------------------------------------------------------------
(* The ACP tier: the connection says whose request it is *)

HandleRequest(s, request, world) ==
  /\ call = NoCall /\ process[s] = "running"
  /\ call' = [at |-> "acp", by |-> s, hint |-> s, known |-> TRUE, as |-> s, pc |-> "done",
              what |-> request, world |-> {world}, rules |-> InScope(TRUE), routed |-> FALSE,
              throughout |-> accepted \cap {r.id : r \in Range(InScope(TRUE))},
              result |-> DecidePermission(Role(s), request, InScope(TRUE), world)]
  /\ UNCHANGED <<process, record, accepted>>

Answers == {f \in [RuleId -> {"low", "middle", "high", "none"}] :
              \A i \in DOMAIN Rules : Rules[i].pattern # "none" => f[Rules[i].id] = "none"}

Next ==
  \/ \E s \in Session : Start(s) \/ Refresh(s) \/ Age(s) \/ Exit(s) \/ Finish(s)
  \/ Crash \/ \E id \in RuleId : SetRule(id)
  \/ \E s \in Session, payload \in Payload : \E hint \in {s, None} : PreToolUse(s, payload, hint)
  \/ \E world \in World : Decide(world)
  \/ \E yes \in BOOLEAN : Route(yes) \/ \E answer \in Answers : AskClassifier(answer, yes)
  \/ Return
  \/ \E s \in Session, request \in Request, world \in World : HandleRequest(s, request, world)

Spec == Init /\ [][Next]_vars

-------------------------------------------------------------------------------
(* Properties *)

\* Types: identities are sessions, decisions are verdicts, and a call that is done is
\* allowed or denied at the hook.
TypeOK ==
  /\ process \in [Session -> {"new", "running", "exited", "ending", "gone"}]
  /\ record \in [Session -> {"none", "fresh", "stale"}]
  /\ accepted \subseteq RuleId
  /\ call # NoCall =>
       /\ call.by \in Session /\ call.as \in Session \cup {None}
       /\ call.pc \in {"decide", "route", "classify", "done"}
       /\ call.result.kind \in Verdict /\ call.result.evaluated \subseteq RuleId
       /\ (call.at = "hook" /\ call.pc = "done") => (call.result.kind \in {"allow", "deny"})

Settled(kind) == call # NoCall /\ call.pc = "done" /\ call.result.kind = kind

\* A session whose record is in the registry is judged as itself however long it has been
\* silent, and never under the role of another session of its worktree (hook/service.ts:243).
JudgedAsItself ==
  call # NoCall /\ call.hint = call.by /\ call.known => call.as = call.by

\* A call that names its session is never judged as another: the role comes from the record
\* and not from the path two sessions share (hook/service.ts:8).
NeverJudgedAsAnother ==
  call # NoCall /\ call.hint # None => call.as \in {call.hint, None}

\* A rule accepted from the arrival of a call to its end has looked at a call that the
\* policy allows: rules that change meanwhile, and the two tiers that read them at
\* different times, let no rule slip through between them.
EnforcedThroughout ==
  Settled("allow") /\ ~call.routed => call.throughout \subseteq call.result.evaluated

\* A pattern rule that matches denies, whatever a human says of the call elsewhere.
PatternRulesAlwaysDeny ==
  Settled("allow") /\ call.at = "hook" =>
    \A world \in call.world : HookRules(call.what, call.rules, world).violated = None

\* A record that finish() has removed stays removed: no heartbeat of a call that was being
\* judged brings it back, to stand for a session that is gone.
RemovedStaysRemoved ==
  [][\A s \in Session : record[s] = "none" /\ record'[s] # "none" => process[s] = "new"]_vars
===============================================================================
