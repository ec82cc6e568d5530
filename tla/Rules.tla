---------------------------------- MODULE Rules ----------------------------------
(***************************************************************************)
(* The rules of a home.  A rule is a YAML record under rules/.  The daemon *)
(* creates the built-in ones when it starts, proposes the others on behalf *)
(* of agents and of the operator, and decides, edits and counts them.  A   *)
(* mutation of the store is one turn of its event loop; only a kill comes  *)
(* between two of them.  What a hook call is judged with are the accepted  *)
(* rules in scope of its stream, a walk up the stream tree.                *)
(***************************************************************************)
EXTENDS Naturals, FiniteSets

CONSTANTS
  Id,              \* the ids rules can get, in the order of their time stamps
  Kind,            \* the pattern kinds of the built-in rules
  AcceptedKind,    \* those that ship accepted
  Text,            \* the decisions a seed file holds
  Stream,          \* the streams of the home
  NoStream,        \* the parent of a root
  Unknown,         \* a stream id no record has
  NoRule,
  BuiltinEdits,    \* whether the operator also gives a built-in another pattern
  MaxFires,        \* bound: counted firings
  MaxFaults        \* bound: kills, stops, failed writes and calls whose answer is lost

MinExamples == 2   \* CLASSIFIER_MIN_EXAMPLES

Tier == {"pattern", "classifier", "guidance"}
Status == {"proposed", "accepted", "retired"}
Author == {"builtin", "seed", "agent", "human"}
Own == "own words"   \* a wording, or a pattern, that is nobody else's

Wording == Kind \cup Text \cup {Own}

\* A rule without its counters; a built-in is known by the kind of its pattern.
Rule == [by : Author, says : Wording, status : Status, tier : Tier,
         examples : {0, MinExamples}, scope : Stream \cup {"global"}]

ASSUME RulesAssumption ==
  /\ Id \subseteq Nat /\ IsFiniteSet(Id) /\ AcceptedKind \subseteq Kind
  /\ NoStream \notin Stream /\ Unknown \notin Stream \cup {NoStream}
  /\ Own \notin Text /\ NoRule \notin Rule
  /\ BuiltinEdits \in BOOLEAN /\ MaxFires \in Nat /\ MaxFaults \in Nat

VARIABLES
  rule,     \* the records
  counted,  \* their stats, as on disk
  pending,  \* what was counted since the last flush began
  flushing, \* and what that flush has still to write
  dropped,  \* history: what it could not write
  heard,    \* history: the stats when the daemon began to serve, and each firing since
  daemon,   \* its phase, and the built-ins found missing when it listed the rules
  parent,   \* of each stream
  faults

counters == <<counted, pending, flushing, dropped, heard>>
ruleVars == <<rule, counters, daemon, parent, faults>>

Existing == {i \in Id : rule[i] # NoRule}

\* A new ULID sorts behind the ones before it.
Fresh(i) == i \in Id \ Existing /\ \A j \in Id \ Existing : i <= j

Zero == [i \in Id |-> 0]
Up == daemon.phase = "up"

RulesInit ==
  /\ rule = [i \in Id |-> NoRule]
  /\ counted = Zero /\ pending = Zero /\ flushing = Zero /\ dropped = Zero
  /\ heard = Zero
  /\ daemon = [phase |-> "down", missing |-> {}]
  /\ parent \in [Stream -> {NoStream}]
  /\ faults = 0

-------------------------------------------------------------------------------
(* The store *)

\* assertRuleAcceptable, on every write.
Acceptable(r) == r.tier = "classifier" /\ r.status = "accepted" => r.examples >= MinExamples

\* updateRule: the record as it is now with the change in it.
Put(i, r) == Acceptable(r) /\ rule' = [rule EXCEPT ![i] = r]

\* A patch names some of the fields.
Patched(r, patch) == [f \in DOMAIN r |-> IF f \in DOMAIN patch THEN patch[f] ELSE r[f]]

-------------------------------------------------------------------------------
(* The service *)

\* Every create is a proposal.
Proposal(by, says, tier, examples, scope) ==
  [by |-> by, says |-> says, status |-> "proposed", tier |-> tier,
   examples |-> examples, scope |-> scope]

CreateRule(i, r) ==
  /\ Up /\ Fresh(i)
  /\ rule' = [rule EXCEPT ![i] = r]

\* accept and retire: also a rule that was decided the other way before.
Decidable(i, status) ==
  i \in Existing /\ rule[i].status # status /\ Acceptable([rule[i] EXCEPT !.status = status])

DecideRule(i, status) == Up /\ Decidable(i, status) /\ Put(i, [rule[i] EXCEPT !.status = status])

\* update: wording, tier and examples.
UpdateRule(i, patch) == Up /\ i \in Existing /\ Put(i, Patched(rule[i], patch))

\* Mutant: what is flushed stays in memory.
FlushedTwice == pending

\* flushStats clears what it takes ...
Flushed == Zero

\* ... before it writes any of it; flushes run one behind the other.
TakePending ==
  /\ flushing = Zero
  /\ flushing' = pending /\ pending' = Flushed

\* At an interval, and when a reader comes.
FlushStats ==
  /\ Up /\ pending # Zero /\ TakePending
  /\ UNCHANGED <<rule, counted, dropped, heard, daemon, parent, faults>>

Flushing(i) ==
  /\ flushing[i] > 0
  /\ flushing' = [flushing EXCEPT ![i] = 0]

\* One updateRule per rule ...
WriteStats(i) ==
  /\ Flushing(i)
  /\ counted' = [counted EXCEPT ![i] = @ + flushing[i]]
  /\ UNCHANGED <<rule, pending, dropped, heard, daemon, parent, faults>>

\* ... and one that fails takes the rule's counters with it.
DropStats(i) ==
  /\ faults < MaxFaults /\ faults' = faults + 1
  /\ Flushing(i)
  /\ dropped' = [dropped EXCEPT ![i] = @ + flushing[i]]
  /\ UNCHANGED <<rule, counted, pending, heard, daemon, parent>>

-------------------------------------------------------------------------------
(* The stream tree *)

\* p and what is above it, as far as records go.
Chain(p) ==
  LET up[n \in 0 .. Cardinality(Stream)] ==
        IF n = 0 THEN {p} ELSE up[n - 1] \cup {parent[s] : s \in up[n - 1] \cap Stream}
  IN up[Cardinality(Stream)]

\* assertNoStreamCycle.
ClosesCycle(s, p) == s \in Chain(p)

\* stream.update: that the parent exists is not asked.
Reparent(s, p) ==
  /\ Up /\ ~ClosesCycle(s, p)
  /\ parent' = [parent EXCEPT ![s] = p]
  /\ UNCHANGED <<rule, counters, daemon, faults>>

\* rulesInScope.
InScope(s) ==
  {i \in Existing : rule[i].status = "accepted" /\ (rule[i].scope = "global" \/ rule[i].scope \in Chain(s))}

\* What a hook call is judged with: nothing when an ancestor cannot be read.
HookRules(s) == IF Unknown \in Chain(s) THEN {} ELSE InScope(s)

\* recordFired, by a hook call of a session of s; a call may still be judged while the daemon stops.
Fire(s, i) ==
  /\ daemon.phase \in {"up", "closing"} /\ i \in HookRules(s)
  /\ Cardinality({f \in Id \X (1 .. MaxFires) : f[2] <= heard[f[1]]}) < MaxFires
  /\ pending' = [pending EXCEPT ![i] = @ + 1] /\ heard' = [heard EXCEPT ![i] = @ + 1]
  /\ UNCHANGED <<rule, counted, flushing, dropped, daemon, parent, faults>>

-------------------------------------------------------------------------------
(* The daemon *)

Builtin(k) == {i \in Existing : rule[i].by = "builtin" /\ rule[i].says = k}

\* Mutant: a retired one does not count as present.
AcceptedBuiltin(k) == {i \in Builtin(k) : rule[i].status # "retired" \/ k \notin AcceptedKind}

\* isBuiltin ignores the status.
Found(k) == Builtin(k)

\* ensureBuiltinRules lists the rules once ...
StartDaemon ==
  /\ daemon.phase = "down"
  /\ daemon' = [phase |-> "ensuring", missing |-> {k \in Kind : Found(k) = {}}]
  /\ UNCHANGED <<rule, counters, parent, faults>>

\* ... and creates what was missing, one record after the other.
EnsureBuiltin(k, i) ==
  /\ daemon.phase = "ensuring" /\ k \in daemon.missing /\ Fresh(i)
  /\ rule' = [rule EXCEPT ![i] =
       [by |-> "builtin", says |-> k, status |-> IF k \in AcceptedKind THEN "accepted" ELSE "retired",
        tier |-> "pattern", examples |-> 0, scope |-> "global"]]
  /\ daemon' = [daemon EXCEPT !.missing = @ \ {k}]
  /\ UNCHANGED <<counters, parent, faults>>

\* A create that fails is logged, and the daemon serves without the rest.
Serve ==
  /\ daemon.phase = "ensuring"
  /\ IF daemon.missing = {} THEN UNCHANGED faults ELSE faults < MaxFaults /\ faults' = faults + 1
  /\ daemon' = [daemon EXCEPT !.phase = "up"]
  /\ heard' = counted /\ dropped' = Zero
  /\ UNCHANGED <<rule, counted, pending, flushing, parent>>

\* A kill takes what was not written yet.
Killed ==
  /\ faults < MaxFaults /\ faults' = faults + 1
  /\ daemon' = [phase |-> "down", missing |-> {}]
  /\ pending' = Zero /\ flushing' = Zero
  /\ UNCHANGED <<counted, dropped, heard, parent>>

KillDaemon == daemon.phase # "down" /\ Killed /\ UNCHANGED rule

\* stop: no more calls, and the last flush, behind one that still writes ...
StopDaemon ==
  /\ Up /\ faults < MaxFaults
  /\ faults' = faults + 1
  /\ daemon' = [daemon EXCEPT !.phase = "closing"]
  /\ TakePending
  /\ UNCHANGED <<rule, counted, dropped, heard, parent>>

\* ... before the process ends; what was counted behind that flush is lost.
ExitDaemon ==
  /\ daemon.phase = "closing" /\ flushing = Zero
  /\ daemon' = [phase |-> "down", missing |-> {}] /\ pending' = Zero
  /\ UNCHANGED <<rule, counted, flushing, dropped, heard, parent, faults>>

DaemonNext ==
  \/ StartDaemon \/ Serve \/ KillDaemon \/ StopDaemon \/ ExitDaemon \/ FlushStats
  \/ \E i \in Id : WriteStats(i) \/ DropStats(i)
  \/ \E k \in Kind, i \in Id : EnsureBuiltin(k, i)
  \/ \E s \in Stream, i \in Id : Fire(s, i)

-------------------------------------------------------------------------------
Counter == [Id -> Nat]

RulesTypeOK ==
  /\ rule \in [Id -> Rule \cup {NoRule}]
  /\ {counted, pending, flushing, dropped, heard} \subseteq Counter
  /\ daemon \in [phase : {"down", "ensuring", "up", "closing"}, missing : SUBSET Kind]
  /\ parent \in [Stream -> Stream \cup {NoStream, Unknown}]
  /\ faults \in Nat

\* While the daemon serves, each firing it was told of is counted once: on disk, in memory, in the
\* flush that still writes, or dropped with the rule whose write failed; however firings, edits and
\* decisions come between a flush's writes (recordFired, doFlushStats, updateRule).
CountsAreKept ==
  daemon.phase \in {"up", "closing"} =>
    \A i \in Id : counted[i] + flushing[i] + pending[i] + dropped[i] = heard[i]

\* Every built-in stands once while the daemon serves, whatever start was killed half way and
\* whatever the operator decided before, unless its create failed: "Creates any missing built-in
\* ... Safe on every start" (ensureBuiltinRules).
BuiltinsStandOnce ==
  /\ \A k \in Kind : Cardinality(Builtin(k)) <= 1
  /\ Up => \A k \in Kind \ daemon.missing : Builtin(k) # {}

\* No accepted classifier rule is without the examples that evaluate it, whichever way it was
\* edited after or before it was accepted (assertRuleAcceptable).
AcceptedIsEvaluable ==
  \A i \in Existing :
    rule[i].tier = "classifier" /\ rule[i].status = "accepted" => rule[i].examples >= MinExamples

\* No stream is above itself (assertNoStreamCycle).
TreeHasNoCycle == \A s \in Stream : s \notin Chain(parent[s])

\* An accepted global rule binds every stream.  The code does not keep this: HookRules is empty
\* below a parent that has no record.
GlobalRulesBind ==
  \A s \in Stream, i \in Existing :
    rule[i].status = "accepted" /\ rule[i].scope = "global" => i \in HookRules(s)
===============================================================================
