---------------------------- MODULE Permissions_proofs ----------------------------
(***************************************************************************)
(* What the permission checks promise for any sessions, rules, payloads    *)
(* and requests, and whatever order records, rules and calls come in. What *)
(* a call is asked is the rules accepted while it runs; the pass over the  *)
(* patterns and the classifier together look at each of them.              *)
(***************************************************************************)
EXTENDS Permissions, Acp, FiniteSetTheorems, WellFoundedInduction, TLAPS

\* Of some places in a list there is a first.
LEMMA SmallestPlace ==
  ASSUME NEW S \in SUBSET Nat, S # {}
  PROVE \E i \in S : \A j \in S : i <= j
<1> DEFINE R == OpToRel(<, Nat)
<1>1. IsWellFoundedOn(R, Nat) BY NatLessThanWellFounded
<1>2. \A x, y \in Nat : y < x => <<y, x>> \in R BY DEF OpToRel
<1> HIDE DEF R
<1>3. PICK x \in S : \A y \in S : ~(<<y, x>> \in R) BY <1>1, WFMin
<1>4. \A y \in S : x <= y
  <2> TAKE y \in S
  <2>1. x \in Nat /\ y \in Nat /\ ~(y < x) BY <1>2, <1>3
  <2> QED BY <2>1
<1> QED BY <1>4

\* The lists of rules a tier is handed.
RuleList == {Restrict(Rules, places) : places \in SUBSET DOMAIN Rules}
Ids(rules) == {rules[i].id : i \in DOMAIN rules}
Pass == [evaluated : SUBSET RuleId, violated : RuleId \cup {None}]
Option == {"allow_once", "reject_once", None}
Result == [kind : Verdict, option : Option, evaluated : SUBSET RuleId, violated : RuleId \cup {None}]

\* An empty list is one, and whatever list there is, is of rules.
LEMMA NoRulesIsAList == <<>> \in RuleList
  BY DEF RuleList, Restrict

LEMMA ListsOfRules ==
  ASSUME NEW rules \in RuleList
  PROVE /\ DOMAIN rules \subseteq DOMAIN Rules
        /\ \A i \in DOMAIN rules : rules[i] = Rules[i] /\ rules[i].id \in RuleId /\ rules[i].id # None
        /\ Ids(rules) \subseteq RuleId
  BY PermissionsAssumption DEF RuleList, Restrict, RuleId, Ids

\* A pass in which no rule denies has looked at every rule.
LEMMA PassLooksAtAll ==
  ASSUME NEW rules \in RuleList, NEW what, NEW world
  PROVE /\ RulePass(rules, what, world) \in Pass
        /\ RulePass(rules, what, world).violated = None =>
             RulePass(rules, what, world).evaluated = Ids(rules)
<1> DEFINE denying == {i \in DOMAIN rules : Denies(rules[i], what, world)}
           first == CHOOSE i \in denying : \A j \in denying : i <= j
<1>0. DOMAIN rules \subseteq Nat BY ListsOfRules, PermissionsAssumption
<1>1. CASE denying = {}
  <2>1. RulePass(rules, what, world) = [evaluated |-> Ids(rules), violated |-> None]
    BY <1>1 DEF RulePass, Ids
  <2> QED BY <2>1, ListsOfRules DEF Pass
<1>2. CASE denying # {}
  <2>1. first \in denying
    <3>1. \E i \in denying : \A j \in denying : i <= j BY <1>0, <1>2, SmallestPlace
    <3> QED BY <3>1
  <2>2. RulePass(rules, what, world) =
          [evaluated |-> {rules[i].id : i \in {j \in DOMAIN rules : j <= first}}, violated |-> rules[first].id]
    BY <1>2 DEF RulePass
  <2> HIDE DEF first
  <2> QED BY <2>1, <2>2, ListsOfRules DEF Pass
<1> QED BY <1>1, <1>2

\* Every part of a command, and every call, has a verdict.
LEMMA EveryAtomHasAVerdict ==
  ASSUME NEW role, NEW tokens PROVE AtomVerdict(role, tokens) \in Verdict
<1>1. ASSUME NEW paths PROVE VerifyPaths(paths) \in Verdict BY DEF VerifyPaths, Verdict
<1>2. BenignVerdict(tokens) \in Verdict BY <1>1 DEF BenignVerdict, Verdict
<1>3. EngineerAtom(tokens) \in Verdict BY <1>1, <1>2 DEF EngineerAtom, Verdict
<1>4. ReviewerAtom(tokens) \in Verdict BY DEF ReviewerAtom, Verdict
<1> QED BY <1>3, <1>4 DEF AtomVerdict

LEMMA EveryCallHasAVerdict ==
  ASSUME NEW role, NEW what PROVE VerdictOn(role, what) \in Verdict
<1>1. ASSUME NEW command PROVE CommandVerdict(role, command) \in Verdict
  BY EveryAtomHasAVerdict DEF CommandVerdict, Verdict
<1>2. RoleVerdict(role, what) \in Verdict BY <1>1 DEF RoleVerdict, EditVerdict, Verdict
<1> QED BY <1>2 DEF VerdictOn, Verdict

\* An answer allows only what the policy allows and no rule denies.
LEMMA Answered ==
  ASSUME NEW verdict \in Verdict, NEW pass \in Pass, NEW request
  PROVE /\ Answer(verdict, pass, request) \in Result
        /\ Answer(verdict, pass, request).kind = "allow" =>
             /\ Answer(verdict, pass, request).evaluated = pass.evaluated /\ pass.violated = None
<1>1. NoRules \in Pass BY DEF NoRules, Pass
<1>2. ASSUME NEW kind \in Verdict, NEW option \in Option, NEW p \in Pass
      PROVE /\ Decision(kind, option, p) \in Result /\ Decision(kind, option, p).kind = kind
            /\ Decision(kind, option, p).evaluated = p.evaluated
  BY <1>2 DEF Decision, Result, Pass
<1>3. ASSUME NEW p \in Pass
      PROVE Offer("deny", "reject_once", request, p) \in Result
            /\ Offer("deny", "reject_once", request, p).kind # "allow"
  BY <1>1, <1>2, <1>3 DEF Offer, Verdict, Option
<1>4. {"allow", "hil", "deny"} \subseteq Verdict /\ {"allow_once", None} \subseteq Option
  BY DEF Verdict, Option
<1>5. CASE verdict = "hil" BY <1>1, <1>2, <1>4, <1>5 DEF Answer
<1>6. CASE verdict = "deny" BY <1>1, <1>3, <1>6 DEF Answer
<1>7. CASE verdict = "allow" BY <1>1, <1>2, <1>3, <1>4, <1>7 DEF Answer
<1> QED BY <1>5, <1>6, <1>7 DEF Verdict

\* What is allowed, over ACP or at a hook, was looked at by every rule handed over.
LEMMA DecidedByPolicy ==
  ASSUME NEW role, NEW request, NEW rules \in RuleList, NEW world
  PROVE /\ DecidePermission(role, request, rules, world) \in Result
        /\ DecidePermission(role, request, rules, world).kind = "allow" =>
             DecidePermission(role, request, rules, world).evaluated = Ids(rules)
<1> DEFINE pass == PassOf(rules, Classify(request), world)
           verdict == VerdictOn(role, Classify(request))
<1>1. pass \in Pass /\ (pass.violated = None => pass.evaluated = Ids(rules))
  BY PassLooksAtAll DEF PassOf
<1>2. verdict \in Verdict BY EveryCallHasAVerdict
<1>3. DecidePermission(role, request, rules, world) = Answer(verdict, pass, request)
  BY DEF DecidePermission
<1> HIDE DEF pass, verdict
<1> QED BY <1>1, <1>2, <1>3, Answered

LEMMA DecidedAtHook ==
  ASSUME NEW role, NEW payload, NEW rules \in RuleList, NEW world
  PROVE /\ GateVerdict(role, payload, rules, world) \in Result
        /\ GateVerdict(role, payload, rules, world).kind = "allow" =>
             GateVerdict(role, payload, rules, world).evaluated = Ids(rules)
<1> DEFINE pass == HookRules(payload, rules, world)
           tooBig == payload.tool \in {"Read", "Grep"} /\ payload.big
<1>1. pass \in Pass /\ (pass.violated = None => pass.evaluated = Ids(rules))
  BY PassLooksAtAll DEF HookRules
<1>2. <<>> \in RuleList BY NoRulesIsAList
<1>3. ASSUME NEW big \in BOOLEAN, NEW kind \in Verdict, NEW p \in Pass
      PROVE /\ Gate(big, kind, p) \in Result
            /\ Gate(big, kind, p).kind = "allow" =>
                 Gate(big, kind, p).evaluated = p.evaluated /\ p.violated = None
  BY DEF Gate, Decision, Result, Pass, NoRules, Verdict, Option
<1> DEFINE byRole == IF ToolKind(payload) = "none" THEN "allow"
                     ELSE DecidePermission(role, AsRequest(payload), <<>>, world).kind
<1>4. byRole \in Verdict BY <1>2, DecidedByPolicy DEF Result, Verdict
<1>5. tooBig \in BOOLEAN OBVIOUS
<1>6. GateVerdict(role, payload, rules, world) = Gate(tooBig, byRole, pass) BY DEF GateVerdict
<1> HIDE DEF pass, tooBig, byRole
<1> QED BY <1>1, <1>3, <1>4, <1>5, <1>6

-------------------------------------------------------------------------------
(* The invariant *)

\* What a call holds.
CallRecord ==
  [at : {"hook", "acp"}, by : Session, hint : Session \cup {None}, known : BOOLEAN, as : Session \cup {None},
   pc : {"decide", "route", "classify", "done"}, what : Payload \cup Request, world : SUBSET World,
   rules : RuleList, routed : BOOLEAN, throughout : SUBSET RuleId, result : Result]

\* What the registry and the call may hold.
Typed ==
  /\ process \in [Session -> {"new", "running", "exited", "ending", "gone"}]
  /\ record \in [Session -> {"none", "fresh", "stale"}]
  /\ accepted \in SUBSET RuleId
  /\ call # NoCall => call \in CallRecord

\* A process that runs has its record.
RunningIsListed == \A s \in Session : process[s] = "running" => record[s] # "none"

\* What a tier still to come will look at.
StillToAsk == {Rules[i].id : i \in {j \in DOMAIN Rules : Rules[j].pattern = "none"}}

\* A call named by its own session is judged as that session; and at each point of its way
\* every rule accepted throughout was looked at, or is one the classifier is still to be asked
\* about.
CallIsKept ==
  call # NoCall =>
    /\ call.hint = call.by /\ call.known => call.as = call.by
    /\ call.pc # "done" => call.as \in Session /\ call.at = "hook"
    /\ call.throughout \subseteq accepted
    /\ call.pc = "classify" /\ ~call.routed => call.throughout \subseteq call.result.evaluated \cup StillToAsk
    /\ call.pc = "done" /\ call.result.kind = "allow" /\ ~call.routed =>
         call.throughout \subseteq call.result.evaluated
    /\ call.pc = "done" /\ call.at = "hook" => call.result.kind \in {"allow", "deny"}

IInv == Typed /\ RunningIsListed /\ CallIsKept

\* The rules in scope, and that both tiers together see them all.
LEMMA InScopeIsAList ==
  ASSUME NEW pattern \in BOOLEAN
  PROVE /\ InScope(pattern) \in RuleList /\ Ids(InScope(pattern)) = {r.id : r \in Range(InScope(pattern))}
        /\ Ids(InScope(pattern)) =
             {Rules[i].id : i \in {j \in DOMAIN Rules : Rules[j].id \in accepted /\ (Rules[j].pattern # "none") = pattern}}
  BY DEF InScope, RuleList, Ids, Restrict, Range

LEMMA AcceptedIsInScope ==
  ASSUME accepted \subseteq RuleId
  PROVE /\ accepted \subseteq Ids(InScope(TRUE)) \cup StillToAsk
        /\ accepted \cap StillToAsk \subseteq Ids(InScope(FALSE))
<1>1. ASSUME NEW id \in accepted PROVE id \in Ids(InScope(TRUE)) \cup StillToAsk
  <2>1. PICK i \in DOMAIN Rules : Rules[i].id = id BY DEF RuleId
  <2> QED BY <2>1, InScopeIsAList DEF StillToAsk
<1>2. ASSUME NEW id \in accepted, id \in StillToAsk PROVE id \in Ids(InScope(FALSE))
  BY <1>2, InScopeIsAList DEF StillToAsk
<1> QED BY <1>1, <1>2

LEMMA InitKept == Init => IInv
<1> SUFFICES ASSUME Init PROVE IInv OBVIOUS
<1>1. Typed BY DEF Init, Typed
<1>2. RunningIsListed BY DEF Init, RunningIsListed
<1>3. CallIsKept BY DEF Init, CallIsKept
<1> QED BY <1>1, <1>2, <1>3 DEF IInv

\* The registry changes, and the call does not.
LEMMA RegistryKeeps ==
  ASSUME IInv, NEW s \in Session, Start(s) \/ Refresh(s) \/ Age(s) \/ Exit(s) \/ Finish(s)
  PROVE IInv'
<1>1. UNCHANGED <<accepted, call>> BY DEF Start, Refresh, Age, Exit, Finish
<1>2. Typed' BY <1>1 DEF IInv, Typed, Start, Refresh, Age, Exit, Finish
<1>3. RunningIsListed' BY DEF IInv, Typed, RunningIsListed, Start, Refresh, Age, Exit, Finish
<1>4. CallIsKept' BY <1>1 DEF IInv, CallIsKept
<1> QED BY <1>2, <1>3, <1>4 DEF IInv

LEMMA CrashKeeps ==
  ASSUME IInv, Crash PROVE IInv'
<1>1. Typed' BY DEF IInv, Typed, Crash
<1>2. RunningIsListed' BY DEF IInv, Typed, RunningIsListed, Crash
<1>3. CallIsKept' BY DEF CallIsKept, Crash
<1> QED BY <1>1, <1>2, <1>3 DEF IInv

\* A rule accepted or retired meanwhile is none of those accepted throughout.
LEMMA SetRuleKeeps ==
  ASSUME IInv, NEW id \in RuleId, SetRule(id) PROVE IInv'
<1>1. CASE call = NoCall BY <1>1 DEF IInv, Typed, RunningIsListed, CallIsKept, SetRule
<1>2. CASE call # NoCall
  <2>1. call \in CallRecord /\ call' = [call EXCEPT !.throughout = @ \ {id}]
    BY <1>2 DEF IInv, Typed, SetRule
  <2>2. call' \in CallRecord BY <2>1 DEF CallRecord
  <2>3. /\ call'.throughout = call.throughout \ {id} /\ call'.hint = call.hint /\ call'.by = call.by
        /\ call'.known = call.known /\ call'.as = call.as /\ call'.pc = call.pc /\ call'.at = call.at
        /\ call'.routed = call.routed /\ call'.result = call.result
    BY <2>1 DEF CallRecord
  <2>4. accepted \ {id} \subseteq accepted' BY DEF SetRule
  <2>5. CallIsKept' BY <1>2, <2>3, <2>4 DEF IInv, CallIsKept
  <2>6. Typed' /\ RunningIsListed' BY <2>2 DEF IInv, Typed, RunningIsListed, SetRule
  <2> QED BY <2>5, <2>6 DEF IInv
<1> QED BY <1>1, <1>2

\* A hint that names a session with a record is followed.
LEMMA SomeoneIsResolved ==
  ASSUME NEW s \in Session, NEW hint \in {s, None}
  PROVE /\ Resolve(hint) \in Session \cup {None}
        /\ hint = s /\ record[s] # "none" => Resolve(hint) = s
<1> DEFINE live == {r \in Covering : record[r] = "fresh"}
<1>1. live \subseteq Session BY DEF Covering
<1>2. Cardinality(live) = 1 => live # {} BY FS_EmptySet
<1>3. Cardinality(live) = 1 => (CHOOSE r \in live : TRUE) \in live BY <1>2
<1>4. hint \in Covering => hint \in Session BY DEF Covering
<1>5. hint \in Covering => Resolve(hint) = hint BY DEF Resolve
<1>6. hint \notin Covering => Resolve(hint) = None \/ (Cardinality(live) = 1 /\ Resolve(hint) = CHOOSE r \in live : TRUE)
  BY DEF Resolve
<1> HIDE DEF live
<1>7. Resolve(hint) \in Session \cup {None} BY <1>1, <1>3, <1>4, <1>5, <1>6
<1>8. hint = s /\ record[s] # "none" => hint \in Covering BY DEF Covering
<1> QED BY <1>5, <1>7, <1>8

\* One lemma for each action of a call.
LEMMA PreToolUseKeeps ==
  ASSUME IInv, NEW s \in Session, NEW payload \in Payload, NEW hint \in {s, None}, PreToolUse(s, payload, hint)
  PROVE IInv'
<1> DEFINE who == Resolve(hint)
<1>1. who \in Session \cup {None} /\ (hint = s /\ record[s] # "none" => who = s)
  BY SomeoneIsResolved
<1>2. Decision("deny", None, NoRules) \in Result /\ Decision("deny", None, NoRules).kind = "deny"
  BY DEF Decision, NoRules, Result, Verdict, Option
<1>3. <<>> \in RuleList BY NoRulesIsAList
<1>4. call' = [at |-> "hook", by |-> s, hint |-> hint, known |-> record[s] # "none",
              as |-> who, pc |-> IF who = None THEN "done" ELSE "decide",
              what |-> payload, world |-> {}, rules |-> <<>>,
              routed |-> FALSE, throughout |-> accepted,
              result |-> Decision("deny", None, NoRules)]
  BY DEF PreToolUse
<1> HIDE DEF who
<1>5. call' \in CallRecord BY <1>1, <1>2, <1>3, <1>4 DEF CallRecord, IInv, Typed
<1>6. UNCHANGED <<process, record, accepted>> BY DEF PreToolUse
<1>7. Typed' /\ RunningIsListed' BY <1>5, <1>6 DEF IInv, Typed, RunningIsListed
<1>8. CallIsKept' BY <1>1, <1>2, <1>4, <1>6 DEF CallIsKept
<1> QED BY <1>7, <1>8 DEF IInv

LEMMA DecideKeeps ==
  ASSUME IInv, NEW world \in World, Decide(world)
  PROVE IInv'
<1> DEFINE rules == InScope(TRUE)
           result == GateVerdict(Role(call.as), call.what, rules, world)
<1>1. call # NoCall /\ call.pc = "decide" /\ call \in CallRecord BY DEF Decide, IInv, Typed
<1>2. call.as \in Session /\ call.at = "hook" BY <1>1 DEF IInv, CallIsKept
<1>3. rules \in RuleList BY InScopeIsAList
<1>4. result \in Result /\ (result.kind = "allow" => result.evaluated = Ids(rules))
  BY <1>3, DecidedAtHook
<1>5. accepted \subseteq Ids(rules) \cup StillToAsk BY AcceptedIsInScope DEF IInv, Typed
<1>6. call' = Judged(result, rules, world) /\ record' = Seen(call.as) /\ UNCHANGED <<process, accepted>>
  BY DEF Decide
<1> HIDE DEF result, rules
<1> DEFINE pc == CASE result.kind = "hil" -> "route"
                   [] result.kind = "allow" -> "classify"
                   [] result.kind = "deny" -> "done"
<1>7. result.kind \in {"allow", "deny", "hil"} BY <1>4 DEF Result, Verdict
<1>8. /\ pc \in {"route", "classify", "done"} /\ (pc = "classify" <=> result.kind = "allow")
      /\ (pc = "done" <=> result.kind = "deny")
  BY <1>7
<1>9. call' = [call EXCEPT !.world = {world}, !.rules = rules, !.result = result, !.pc = pc]
  BY <1>6 DEF Judged
<1> HIDE DEF pc
<1>10. call' \in CallRecord BY <1>1, <1>3, <1>4, <1>8, <1>9 DEF CallRecord
<1>11. /\ call'.throughout = call.throughout /\ call'.hint = call.hint /\ call'.by = call.by
       /\ call'.known = call.known /\ call'.as = call.as /\ call'.pc = pc /\ call'.at = call.at
       /\ call'.routed = call.routed /\ call'.result = result
  BY <1>1, <1>9 DEF CallRecord
<1>12. Typed' BY <1>2, <1>6, <1>10 DEF IInv, Typed, Seen
<1>13. RunningIsListed' BY <1>2, <1>6 DEF IInv, Typed, RunningIsListed, Seen
<1>14. call.throughout \subseteq accepted BY <1>1 DEF IInv, CallIsKept
<1>15. call.hint = call.by /\ call.known => call.as = call.by BY <1>1 DEF IInv, CallIsKept
<1>16. CallIsKept'
  BY <1>2, <1>4, <1>5, <1>6, <1>8, <1>11, <1>14, <1>15 DEF CallIsKept
<1> QED BY <1>12, <1>13, <1>16 DEF IInv

LEMMA RouteKeeps ==
  ASSUME IInv, NEW yes \in BOOLEAN, Route(yes)
  PROVE IInv'
<1>1. call # NoCall /\ call.pc = "route" /\ call \in CallRecord BY DEF Route, IInv, Typed
<1> DEFINE kind == IF yes THEN "allow" ELSE "deny"
           pc == IF yes THEN "classify" ELSE "done"
<1>2. kind \in Verdict /\ pc \in {"classify", "done"} /\ (pc = "done" => kind = "deny")
  BY DEF Verdict
<1>3. call' = [call EXCEPT !.result.kind = kind, !.routed = TRUE, !.pc = pc] BY DEF Route
<1>4. UNCHANGED <<process, record, accepted>> BY DEF Route
<1> HIDE DEF kind, pc
<1>5. call' \in CallRecord BY <1>1, <1>2, <1>3 DEF CallRecord, Result
<1>6. /\ call'.throughout = call.throughout /\ call'.hint = call.hint /\ call'.by = call.by
      /\ call'.known = call.known /\ call'.as = call.as /\ call'.pc = pc /\ call'.at = call.at
      /\ call'.routed = TRUE /\ call'.result.kind = kind
  BY <1>1, <1>3 DEF CallRecord, Result
<1>7. Typed' /\ RunningIsListed' BY <1>4, <1>5 DEF IInv, Typed, RunningIsListed
<1>8. CallIsKept' BY <1>1, <1>2, <1>4, <1>6 DEF IInv, CallIsKept
<1> QED BY <1>7, <1>8 DEF IInv

\* The rule a denial of the classifier names is one it was asked about.
LEMMA ClassifierNames ==
  ASSUME NEW rules \in RuleList, NEW answer, Classifier(rules, answer).band = "deny"
  PROVE Classifier(rules, answer).rule \in RuleId
<1> DEFINE denying == {i \in DOMAIN rules : \/ answer[rules[i].id] = "high"
                                            \/ answer[rules[i].id] = "none" /\ rules[i].critical}
           first == CHOOSE i \in denying : \A j \in denying : i <= j
<1>1. denying # {} BY DEF Classifier
<1>2. Classifier(rules, answer).rule = rules[first].id
  <2>1. Classifier(rules, answer).rule = FirstOf(rules, denying) BY <1>1 DEF Classifier
  <2> QED BY <2>1 DEF FirstOf
<1>3. denying \subseteq Nat BY ListsOfRules, PermissionsAssumption
<1>4. first \in denying
  <2>1. \E i \in denying : \A j \in denying : i <= j BY <1>1, <1>3, SmallestPlace
  <2> QED BY <2>1
<1> HIDE DEF first
<1> QED BY <1>2, <1>4, ListsOfRules

LEMMA AskClassifierKeeps ==
  ASSUME IInv, NEW answer, NEW yes \in BOOLEAN, AskClassifier(answer, yes)
  PROVE IInv'
<1>1. call # NoCall /\ call.pc = "classify" /\ call \in CallRecord BY DEF AskClassifier, IInv, Typed
<1> DEFINE rules == InScope(FALSE)
           outcome == Classifier(rules, answer)
           kind == IF outcome.band \in {"allow"} \cup (IF yes THEN {"route"} ELSE {}) THEN "allow" ELSE "deny"
           violated == IF outcome.band = "deny" THEN outcome.rule ELSE call.result.violated
<1>2. rules \in RuleList BY InScopeIsAList
<1>3. kind \in {"allow", "deny"} OBVIOUS
<1>4. violated \in RuleId \cup {None} BY <1>1, <1>2, ClassifierNames DEF CallRecord, Result
<1>5. call' = [call EXCEPT !.result.kind = kind, !.result.evaluated = @ \cup Ids(rules),
                          !.result.violated = violated, !.pc = "done"]
  BY DEF AskClassifier, Ids
<1>6. UNCHANGED <<process, record, accepted>> BY DEF AskClassifier
<1>7. accepted \cap StillToAsk \subseteq Ids(rules) BY AcceptedIsInScope DEF IInv, Typed
<1>8. Ids(rules) \subseteq RuleId BY <1>2, ListsOfRules
<1> HIDE DEF rules, kind, violated
<1>9. call' \in CallRecord BY <1>1, <1>3, <1>4, <1>5, <1>8 DEF CallRecord, Result, Verdict
<1>10. /\ call'.throughout = call.throughout /\ call'.hint = call.hint /\ call'.by = call.by
       /\ call'.known = call.known /\ call'.as = call.as /\ call'.pc = "done" /\ call'.at = call.at
       /\ call'.routed = call.routed /\ call'.result.kind = kind
       /\ call'.result.evaluated = call.result.evaluated \cup Ids(rules)
  BY <1>1, <1>5 DEF CallRecord, Result
<1>11. Typed' /\ RunningIsListed' BY <1>6, <1>9 DEF IInv, Typed, RunningIsListed
<1>12. CallIsKept' BY <1>1, <1>3, <1>6, <1>7, <1>10 DEF IInv, CallIsKept
<1> QED BY <1>11, <1>12 DEF IInv

LEMMA HandleRequestKeeps ==
  ASSUME IInv, NEW s \in Session, NEW request \in Request, NEW world \in World, HandleRequest(s, request, world)
  PROVE IInv'
<1> DEFINE rules == InScope(TRUE)
           result == DecidePermission(Role(s), request, rules, world)
<1>1. rules \in RuleList /\ Ids(rules) = {r.id : r \in Range(rules)} BY InScopeIsAList
<1>2. result \in Result /\ (result.kind = "allow" => result.evaluated = Ids(rules))
  BY <1>1, DecidedByPolicy
<1>3. call' = [at |-> "acp", by |-> s, hint |-> s, known |-> TRUE, as |-> s, pc |-> "done",
              what |-> request, world |-> {world}, rules |-> rules, routed |-> FALSE,
              throughout |-> accepted \cap Ids(rules), result |-> result]
  BY <1>1 DEF HandleRequest
<1>4. UNCHANGED <<process, record, accepted>> BY DEF HandleRequest
<1> HIDE DEF rules, result
<1>5. call' \in CallRecord BY <1>1, <1>2, <1>3 DEF CallRecord, IInv, Typed
<1>6. Typed' /\ RunningIsListed' BY <1>4, <1>5 DEF IInv, Typed, RunningIsListed
<1>7. CallIsKept' BY <1>2, <1>3, <1>4 DEF CallIsKept
<1> QED BY <1>6, <1>7 DEF IInv

LEMMA ReturnKeeps ==
  ASSUME IInv, Return \/ UNCHANGED vars PROVE IInv'
  BY DEF IInv, Typed, RunningIsListed, CallIsKept, Return, vars

LEMMA NextKeeps == IInv /\ [Next]_vars => IInv'
<1> SUFFICES ASSUME IInv, [Next]_vars PROVE IInv' OBVIOUS
<1>1. CASE \E s \in Session : Start(s) \/ Refresh(s) \/ Age(s) \/ Exit(s) \/ Finish(s)
  BY <1>1, RegistryKeeps
<1>2. CASE Crash BY <1>2, CrashKeeps
<1>3. CASE \E id \in RuleId : SetRule(id) BY <1>3, SetRuleKeeps
<1>4. CASE \E s \in Session, payload \in Payload : \E hint \in {s, None} : PreToolUse(s, payload, hint)
  BY <1>4, PreToolUseKeeps
<1>5. CASE \E world \in World : Decide(world) BY <1>5, DecideKeeps
<1>6. CASE \E yes \in BOOLEAN : Route(yes) \/ \E answer \in Answers : AskClassifier(answer, yes)
  BY <1>6, RouteKeeps, AskClassifierKeeps
<1>7. CASE \E s \in Session, request \in Request, world \in World : HandleRequest(s, request, world)
  BY <1>7, HandleRequestKeeps
<1>8. CASE Return \/ UNCHANGED vars BY <1>8, ReturnKeeps
<1> QED BY <1>1, <1>2, <1>3, <1>4, <1>5, <1>6, <1>7, <1>8 DEF Next

-------------------------------------------------------------------------------
(* The theorems *)

\* The invariant of the permission checks.
THEOREM InvariantHolds == Spec => []IInv
  BY InitKept, NextKeeps, PTL DEF Spec

\* The registry and the call hold what they may, and a hook call that is over was allowed or denied
\* (HookService.preToolUse).
THEOREM PermissionsAreTyped == Spec => []TypeOK
<1>1. IInv => TypeOK BY DEF IInv, Typed, TypeOK, CallIsKept, CallRecord, Result
<1> QED BY <1>1, InvariantHolds, PTL

\* A call that names its session, whose record is there, is judged in its role and never in that of
\* another session of its worktree, however long it has been silent (resolveAgentByCwd).
THEOREM AlwaysJudgedAsItself == Spec => []JudgedAsItself
<1>1. IInv => JudgedAsItself BY DEF IInv, CallIsKept, JudgedAsItself
<1> QED BY <1>1, InvariantHolds, PTL

\* A call that was allowed without a human was looked at by every rule accepted from its start
\* to its end (HookService.preToolUse, buildPermissionResponder).
THEOREM AlwaysEnforcedThroughout == Spec => []EnforcedThroughout
<1>1. IInv => EnforcedThroughout BY DEF IInv, CallIsKept, EnforcedThroughout, Settled
<1> QED BY <1>1, InvariantHolds, PTL

\* A record that finish() removed stays removed: no heartbeat of a call still being judged brings it
\* back (HookService.buildContext).
THEOREM RemovedAlwaysStaysRemoved == Spec => RemovedStaysRemoved
<1>1. IInv /\ [Next]_vars => [\A s \in Session : record[s] = "none" /\ record'[s] # "none" => process[s] = "new"]_vars
  <2> SUFFICES ASSUME IInv, Next, NEW s \in Session, record[s] = "none", record'[s] # "none"
               PROVE process[s] = "new"
    OBVIOUS
  <2>1. CASE \E q \in Session : Start(q) \/ Refresh(q) \/ Age(q) \/ Exit(q) \/ Finish(q)
    BY <2>1 DEF IInv, Typed, RunningIsListed, Start, Refresh, Age, Exit, Finish
  <2>2. CASE \E world \in World : Decide(world)
    BY <2>2 DEF IInv, Typed, Decide, Seen
  <2>3. CASE UNCHANGED record BY <2>3
  <2> QED
    BY <2>1, <2>2, <2>3
    DEF Next, Crash, SetRule, PreToolUse, Route, AskClassifier, Return, HandleRequest
<1> QED BY <1>1, InvariantHolds, PTL DEF Spec, RemovedStaysRemoved

-------------------------------------------------------------------------------
(* The ACP client and its runner: for any turns, providers and updates, and whatever the agent
   answers, sends or fails at. *)

\* What is in a list, and what is in it once.
Members(s) == {s[i] : i \in DOMAIN s}
OnceIn(s, S) == \A i, j \in DOMAIN s : s[i] \in S /\ s[j] \in S => i = j

\* The answers a pipe can hold.
AnswersTo(of) == {m \in LineShape : m.kind = "answer" /\ m.of = of}
TurnAnswers == {m \in LineShape : m.kind = "answer" /\ m.of \in Turn}

\* Whatever is no answer has a turn's answer behind it.
AnswerFollows(s) ==
  \A i \in DOMAIN s : s[i].kind # "answer" => \E j \in DOMAIN s : i < j /\ s[j] \in TurnAnswers

\* What is in the two pipes, and the promises still to run.
Outgoing == Members(toAgent)
Incoming == Members(fromAgent)
Held == Members(micro)

\* A turn on its way back, and on its way there; the requests without a settled promise.
Comes(t) == AnswersTo(t) \cap (Incoming \cup Held) # {}
Waits(t) == t \in Outgoing \/ t \in working
Due == pending \cup {m.of : m \in Held}

\* What a line is, by its kind.
AcpLines ==
  /\ \A m \in Held : m.kind = "answer" /\ m.of \in AcpRequest
  /\ \A m \in Incoming : m.kind = "answer" => m.of \in AcpRequest
  /\ \A m \in Incoming : m.kind = "update" => m.is \in Update

\* The runner's turns are different ones, none of which has its fate.
AcpQueued ==
  /\ \A i \in DOMAIN queue : fate[queue[i]] = "queued"
  /\ \A i, j \in DOMAIN queue : queue[i] = queue[j] => i = j

\* What the slot holds at each stage of a turn.
AcpSlot ==
  /\ stage = "sent" => inFlight = "open"
  /\ stage \in {"idle", "authenticating"} => inFlight = "none"
  /\ stage = "opening" => inFlight \in {"open", "failed"}
  /\ stage = "authenticating" => provider.auth

\* Before the registry write is over, nothing has been heard.
DueIsFresh ==
  registered = "due" =>
    /\ queue = <<>> /\ stage = "idle" /\ micro = <<>> /\ hello = "waiting" /\ ~settled
    /\ fate[Brief] = "none"

\* The command could not be run: nothing will be heard.
NeverUp ==
  /\ hello = "waiting" /\ proc = "gone" /\ fromAgent = <<>>
  /\ \A m \in Held : m.is = "failed"

\* Once the session is settled no turn runs, but one that waits for an agent
\* that never came up.
SettledIsOver == settled => stage = "idle" \/ (stage = "opening" /\ NeverUp)

\* Until the agent has said hello it is asked nothing else.
HelloFirst ==
  hello = "waiting" =>
    /\ ~acpSessionId /\ stage \in {"idle", "opening"} /\ opening \in {"none", "initialize"}
    /\ working = {} /\ Outgoing \cup pending \subseteq {"initialize"}
    /\ \A m \in Incoming \cup Held : m \in AnswersTo("initialize")

\* What is asked is what the runner, or the one who opens the session, waits for.
DueIsAwaited ==
  /\ "initialize" \in Due => hello = "waiting"
  /\ "session/new" \in Due => opening = "session/new"
  /\ "session/set_mode" \in Due => opening = "session/set_mode"
  /\ "authenticate" \in Due => stage = "authenticating"
  /\ \A of \in AcpRequest : OnceIn(micro, AnswersTo(of))
  /\ \A m \in Held : m.of \notin pending

\* Only the running turn is anywhere on its way to the agent or back.
OneAbroad ==
  \A t \in Turn : Waits(t) \/ Comes(t) =>
    (stage = "sent" /\ t = Head(queue)) \/ (stage = "idle" /\ settled)

\* A turn is in one place at a time, and none that is over as the agent ended it.
InOnePlace ==
  \A t \in Turn :
    /\ OnceIn(toAgent, {t}) /\ OnceIn(fromAgent, AnswersTo(t))
    /\ ~(t \in Outgoing /\ t \in working)
    /\ Waits(t) => ~Comes(t) /\ fate[t] \notin {"completed", "cancelled"}
    /\ ~(AnswersTo(t) \cap Incoming # {} /\ AnswersTo(t) \cap Held # {})

\* An answer on its way is the one the agent gave.
ComesAsTold == \A t \in Turn : \A m \in AnswersTo(t) \cap (Incoming \cup Held) : m.is = answered[t] /\ m.is \in Replies

\* An update is heard before the answer of the turn it belongs to.
UpdatesFirst == working # {} \/ AnswerFollows(fromAgent)

\* Where a turn can be when the agent has not its mode.
ModeFirst ==
  registered = "done" /\ provider.mode /\ ~provider.auth =>
    /\ \A t \in Turn : Waits(t) => moded
    /\ \A m \in AnswersTo("session/set_mode") \cap (Incoming \cup Held) : m.is = "ok" => moded
    /\ stage = "idle" => moded \/ settled \/ stopRequested \/ (Waiting /\ ~acpSessionId)
    /\ stage = "sent" => moded

\* Where the client and the runner are in a message: what is not yet written is less than a
\* line, and follows lines that were filled.
Spoken ==
  /\ fold.text > 0 /\ fold.text = Clamp(log.text + buffer) /\ log.open = fold.streaming
  /\ ~fold.streaming => buffer = 0
  /\ buffer < LineCap /\ (fold.streaming => log.text = 0 \/ log.text >= LineCap)
  /\ buffer = 0 /\ log.text <= LineCap => line = log.text

SameCut ==
  stage = "sent" /\ "plan" \notin Update =>
    \/ fold = Silence /\ buffer = 0 /\ ~log.open
    \/ Spoken

\* The inductive invariant.
AcpInv ==
  /\ AcpTypeOK /\ AcpLines /\ AcpQueued /\ AcpSlot /\ DueIsFresh /\ SettledIsOver /\ HelloFirst
  /\ DueIsAwaited /\ OneAbroad /\ InOnePlace /\ ComesAsTold /\ UpdatesFirst /\ ModeFirst /\ SameCut
  /\ RepliesAreOwn

\* A list that grows at its end has one member more; one that loses its head keeps the rest.
LEMMA MembersOfAppend ==
  ASSUME NEW X, NEW s \in Seq(X), NEW e \in X
  PROVE Members(Append(s, e)) = Members(s) \cup {e}
<1>1. DOMAIN Append(s, e) = DOMAIN s \cup {Len(s) + 1} OBVIOUS
<1>2. \A i \in DOMAIN s : Append(s, e)[i] = s[i] OBVIOUS
<1>3. Append(s, e)[Len(s) + 1] = e OBVIOUS
<1> QED BY <1>1, <1>2, <1>3 DEF Members

LEMMA MembersOfTail ==
  ASSUME NEW X, NEW s \in Seq(X), s # <<>>
  PROVE /\ Head(s) \in X /\ Tail(s) \in Seq(X)
        /\ Members(s) = Members(Tail(s)) \cup {Head(s)}
<1>1. Head(s) \in X /\ Tail(s) \in Seq(X) OBVIOUS
<1>2. Members(s) \subseteq Members(Tail(s)) \cup {Head(s)}
  <2> SUFFICES ASSUME NEW i \in DOMAIN s PROVE s[i] \in Members(Tail(s)) \cup {Head(s)}
    BY DEF Members
  <2>1. CASE i = 1 BY <2>1
  <2>2. CASE i # 1
    <3>1. i - 1 \in DOMAIN Tail(s) /\ Tail(s)[i - 1] = s[i] BY <2>2
    <3> QED BY <3>1 DEF Members
  <2> QED BY <2>1, <2>2
<1>3. Members(Tail(s)) \cup {Head(s)} \subseteq Members(s)
  <2> SUFFICES ASSUME NEW i \in DOMAIN Tail(s) PROVE Tail(s)[i] \in Members(s) BY DEF Members
  <2>1. i + 1 \in DOMAIN s /\ Tail(s)[i] = s[i + 1] OBVIOUS
  <2> QED BY <2>1 DEF Members
<1> QED BY <1>1, <1>2, <1>3

\* What stands in a list once still does, after either.
LEMMA OnceInAppend ==
  ASSUME NEW X, NEW s \in Seq(X), NEW e \in X, NEW S, OnceIn(s, S),
         e \in S => S \cap Members(s) = {}
  PROVE OnceIn(Append(s, e), S)
  BY DEF OnceIn, Members

LEMMA OnceInTail ==
  ASSUME NEW X, NEW s \in Seq(X), s # <<>>, NEW S, OnceIn(s, S)
  PROVE /\ OnceIn(Tail(s), S)
        /\ Head(s) \in S => S \cap Members(Tail(s)) = {}
<1>1. \A i \in DOMAIN Tail(s) : i + 1 \in DOMAIN s /\ Tail(s)[i] = s[i + 1] OBVIOUS
<1>2. DOMAIN Tail(s) \subseteq Nat \ {0} OBVIOUS
<1>3. 1 \in DOMAIN s /\ Head(s) = s[1] OBVIOUS
<1>4. OnceIn(Tail(s), S) BY <1>1, <1>2 DEF OnceIn
<1>5. \A i \in DOMAIN Tail(s) : Head(s) \in S => Tail(s)[i] \notin S BY <1>1, <1>2, <1>3 DEF OnceIn
<1> QED BY <1>4, <1>5 DEF Members

\* An answer at the end follows everything; without its head, a list has the same to follow.
LEMMA FollowsInAppend ==
  ASSUME NEW s \in Seq(LineShape), NEW e \in LineShape
  PROVE /\ AnswerFollows(s) /\ e.kind = "answer" => AnswerFollows(Append(s, e))
        /\ e \in TurnAnswers => AnswerFollows(Append(s, e))
<1>1. DOMAIN Append(s, e) = 1..(Len(s) + 1) /\ DOMAIN s = 1..Len(s) /\ Len(s) \in Nat OBVIOUS
<1>2. \A i \in DOMAIN s : Append(s, e)[i] = s[i] OBVIOUS
<1>3. Append(s, e)[Len(s) + 1] = e OBVIOUS
<1>4. \A f \in TurnAnswers : f.kind = "answer" BY DEF TurnAnswers
<1> QED BY <1>1, <1>2, <1>3, <1>4 DEF AnswerFollows

LEMMA FollowsInTail ==
  ASSUME NEW s \in Seq(LineShape), s # <<>>, AnswerFollows(s)
  PROVE AnswerFollows(Tail(s))
<1>1. \A i \in DOMAIN Tail(s) : i + 1 \in DOMAIN s /\ Tail(s)[i] = s[i + 1] OBVIOUS
<1>2. \A j \in DOMAIN s : j # 1 => j - 1 \in DOMAIN Tail(s) /\ Tail(s)[j - 1] = s[j] OBVIOUS
<1>3. DOMAIN s \subseteq Nat \ {0} /\ DOMAIN Tail(s) \subseteq Nat \ {0} OBVIOUS
<1> SUFFICES ASSUME NEW i \in DOMAIN Tail(s), Tail(s)[i].kind # "answer"
             PROVE \E j \in DOMAIN Tail(s) : i < j /\ Tail(s)[j] \in TurnAnswers
  BY DEF AnswerFollows
<1>4. PICK j \in DOMAIN s : i + 1 < j /\ s[j] \in TurnAnswers BY <1>1 DEF AnswerFollows
<1>5. j # 1 /\ i < j - 1 BY <1>3, <1>4
<1> QED BY <1>2, <1>4, <1>5

\* A turn is no step of the opening.
LEMMA NoAcpClash == Turn \cap Step = {} /\ Step \subseteq AcpRequest /\ Turn \subseteq AcpRequest
  BY AcpAssumption DEF AcpRequest

\* Types, part by part: the initial states,
LEMMA AcpStartTyped == AcpInit => AcpTypeOK
<1> SUFFICES ASSUME AcpInit PROVE AcpTypeOK OBVIOUS
<1>1. "initialize" \in AcpRequest BY DEF AcpRequest, Step
<1>2. provider \in [mode : BOOLEAN, auth : BOOLEAN] BY AcpAssumption DEF AcpInit
<1>3. /\ opening \in {"none", "initialize"} /\ authed \in BOOLEAN /\ fold \in [text : Nat, streaming : BOOLEAN]
  BY <1>2 DEF AcpInit, Silence
<1>4. said \in 0..MaxUpdates BY AcpAssumption DEF AcpInit
<1>5. {tried, stopRequested, settled, acpSessionId, exited, killTimer, moded, authed} \subseteq BOOLEAN
  BY <1>3 DEF AcpInit
<1>6. /\ pending \subseteq AcpRequest /\ toAgent \in Seq(AcpRequest)
      /\ micro \in Seq(LineShape) /\ fromAgent \in Seq(LineShape)
  BY <1>1 DEF AcpInit
<1>7. /\ fate \in [Turn -> {"none", "queued", "rejected"} \cup Replies]
      /\ answered \in [Turn -> {"none"} \cup Replies]
  BY DEF AcpInit
<1> QED BY <1>3, <1>4, <1>5, <1>6, <1>7 DEF AcpInit, AcpTypeOK

\* a turn that leaves the queue,
LEMMA LeaveTyped ==
  ASSUME AcpTypeOK, queue # <<>>, NEW how \in {"rejected"} \cup Replies, Leave(how)
  PROVE /\ queue' \in Seq(Turn) /\ stage' = "idle" /\ tried' = FALSE /\ inFlight' = "none"
        /\ fate' \in [Turn -> {"none", "queued", "rejected"} \cup Replies]
  BY DEF AcpTypeOK, Leave, Ended

\* the runner's line,
LEMMA OutTyped ==
  ASSUME AcpTypeOK, Flushes \/ FinishRun \/ FlushOutput
  PROVE buffer' \in Nat /\ line' \in Nat /\ log' \in [text : Nat, open : BOOLEAN]
  <1>1. /\ LineCap \in Nat /\ buffer \in Nat /\ line \in Nat
        /\ log \in [text : Nat, open : BOOLEAN] /\ log.text \in Nat
    BY AcpAssumption DEF AcpTypeOK
  <1>2. CASE FlushOutput
    <2>1. buffer' \in Nat /\ line' \in Nat BY <1>1, <1>2 DEF FlushOutput, Clip
    <2>2. log' = [text |-> log.text + buffer, open |-> FALSE] BY <1>2 DEF FlushOutput
    <2>3. log' \in [text : Nat, open : BOOLEAN] BY <1>1, <2>2
    <2> QED BY <2>1, <2>3
  <1>3. CASE UNCHANGED outVars BY <1>1, <1>3 DEF outVars
  <1> QED BY <1>2, <1>3 DEF Flushes, FinishRun

\* The types of what the end of a turn may change,
EndTyped ==
  /\ queue \in Seq(Turn) /\ stage \in {"idle", "opening", "authenticating", "sent"}
  /\ fate \in [Turn -> {"none", "queued", "rejected"} \cup Replies]
  /\ tried \in BOOLEAN /\ settled \in BOOLEAN /\ killTimer \in BOOLEAN
  /\ buffer \in Nat /\ line \in Nat /\ log \in [text : Nat, open : BOOLEAN]
  /\ inFlight \in {"none", "open"} \cup Replies
  /\ proc \in {"up", "told", "killed", "gone"}
  /\ stage # "idle" => queue # <<>>
  /\ stage = "opening" => inFlight # "none"
  /\ inFlight # "none" => stage \in {"opening", "sent"}

\* a turn that returns,
LEMMA TurnReturnsTyped ==
  ASSUME AcpTypeOK, queue # <<>>, NEW reply \in Replies, TurnReturns(reply) \/ TurnFails
  PROVE EndTyped' /\ stage' = "idle"
<1>1. AcpTypeOK => EndTyped BY DEF AcpTypeOK, EndTyped
<1>2. PICK how \in Replies : Leave(how)
  BY DEF TurnReturns, TurnFails, Replies
<1>3. Flushes \/ FinishRun BY DEF TurnReturns, TurnFails
<1>4. /\ settled' \in BOOLEAN /\ killTimer' \in BOOLEAN
      /\ proc' \in {"up", "told", "killed", "gone"}
  BY DEF TurnReturns, TurnFails, FinishRun, Close, AcpTypeOK
<1> QED BY <1>2, <1>3, <1>4, LeaveTyped, OutTyped DEF EndTyped

\* one that is sent,
LEMMA SendTyped ==
  ASSUME AcpTypeOK, queue # <<>>, NEW slot \in {"open"} \cup Replies, Send(slot)
  PROVE /\ EndTyped' /\ pending' \subseteq AcpRequest /\ toAgent' \in Seq(AcpRequest)
        /\ fold' \in [text : Nat, streaming : BOOLEAN]
<1>1. Head(queue) \in AcpRequest BY NoAcpClash DEF AcpTypeOK
<1>2. pending' \subseteq AcpRequest /\ toAgent' \in Seq(AcpRequest)
  BY <1>1 DEF Send, Ask, AcpTypeOK
<1>3. fold' \in [text : Nat, streaming : BOOLEAN] BY DEF Send, Silence
<1>4. CASE slot = "open"
  <2>1. buffer' \in Nat /\ line' \in Nat /\ log' \in [text : Nat, open : BOOLEAN] BY <1>4, OutTyped DEF Send
  <2>2. EndTyped' BY <1>4, <2>1 DEF Send, AcpTypeOK, EndTyped
  <2> QED BY <1>2, <1>3, <2>2
<1>5. CASE slot # "open" BY <1>2, <1>3, <1>5, TurnReturnsTyped DEF Send
<1> QED BY <1>4, <1>5

\* and of what a request may.
ReqTyped ==
  /\ EndTyped /\ pending \subseteq AcpRequest /\ toAgent \in Seq(AcpRequest)
  /\ fold \in [text : Nat, streaming : BOOLEAN]
  /\ opening \in {"none", "initialize", "session/new", "session/set_mode"}

\* a request,
LEMMA AskTyped ==
  ASSUME AcpTypeOK, NEW of \in AcpRequest, Ask(of) \/ AskNothing
  PROVE pending' \subseteq AcpRequest /\ toAgent' \in Seq(AcpRequest)
<1>1. pending \subseteq AcpRequest /\ toAgent \in Seq(AcpRequest) BY DEF AcpTypeOK
<1>2. CASE Ask(of) BY <1>1, <1>2 DEF Ask
<1>3. CASE AskNothing BY <1>1, <1>3 DEF AskNothing
<1> QED BY <1>2, <1>3

\* a turn that begins,
LEMMA BeginTyped ==
  ASSUME AcpTypeOK, queue # <<>>, Begin
  PROVE ReqTyped'
<1>1. CASE acpSessionId
  <2>1. Send("open") /\ UNCHANGED opening BY <1>1 DEF Begin
  <2> QED BY <2>1, SendTyped DEF ReqTyped, AcpTypeOK
<1>2. CASE ~acpSessionId
  <2>1. /\ inFlight' = "open" /\ stage' = "opening"
        /\ UNCHANGED <<queue, tried, fate, settled, outVars, fold, killTimer, proc>>
    BY <1>2 DEF Begin
  <2>2. EndTyped' BY <2>1 DEF AcpTypeOK, EndTyped, outVars
  <2>3. /\ Ask("session/new") \/ AskNothing
        /\ opening' \in {opening, "session/new", "initialize"}
    <3>1. CASE opening # "none" BY <1>2, <3>1 DEF Begin
    <3>2. CASE opening = "none" /\ hello = "done"
      <4>1. opening' = "session/new" /\ Ask(opening') BY <1>2, <3>2 DEF Begin
      <4> QED BY <4>1
    <3>3. CASE opening = "none" /\ hello # "done" BY <1>2, <3>3 DEF Begin
    <3> QED BY <3>1, <3>2, <3>3
  <2>4. "session/new" \in AcpRequest BY DEF AcpRequest, Step
  <2>5. fold' \in [text : Nat, streaming : BOOLEAN] BY <2>1 DEF AcpTypeOK
  <2> QED BY <2>2, <2>3, <2>4, <2>5, AskTyped DEF ReqTyped, AcpTypeOK
<1> QED BY <1>1, <1>2

\* a slot that is emptied,
LEMMA SlotFailsTyped ==
  ASSUME AcpTypeOK, SlotFails
  PROVE /\ queue' \in Seq(Turn) /\ stage' \in {"idle", "opening", "authenticating", "sent"}
        /\ fate' \in [Turn -> {"none", "queued", "rejected"} \cup Replies]
        /\ tried' \in BOOLEAN /\ inFlight' \in {"none", "open"} \cup Replies
        /\ stage' # "idle" => queue' # <<>>
        /\ stage' = "opening" => inFlight' # "none"
        /\ inFlight' # "none" => stage' \in {"opening", "sent"}
<1>1. CASE inFlight # "open" BY <1>1 DEF SlotFails, AcpTypeOK, turnVars
<1>2. CASE inFlight = "open" /\ stage = "sent"
  <2>1. Leave("failed") /\ queue # <<>> /\ "failed" \in Replies
    BY <1>2 DEF SlotFails, AcpTypeOK, Replies
  <2> QED BY <2>1, LeaveTyped
<1>3. CASE inFlight = "open" /\ stage # "sent"
  BY <1>3 DEF SlotFails, AcpTypeOK, turnVars, Replies
<1> QED BY <1>1, <1>2, <1>3

\* and from the parts, the whole.
LEMMA TypedFromParts ==
  ASSUME ReqTyped'
  PROVE /\ provider' \in Provider /\ registered' \in {"due", "done", "failed"}
        /\ {stopRequested', acpSessionId', exited', moded', authed'} \subseteq BOOLEAN
        /\ said' \in 0..MaxUpdates /\ hello' \in {"waiting", "done", "failed"}
        /\ micro' \in Seq(LineShape) /\ fromAgent' \in Seq(LineShape) /\ working' \subseteq Turn
        /\ answered' \in [Turn -> {"none"} \cup Replies] /\ opened' \in Nat
        => AcpTypeOK'
  BY DEF ReqTyped, EndTyped, AcpTypeOK

LEMMA AcpParts == AcpTypeOK => ReqTyped BY DEF ReqTyped, EndTyped, AcpTypeOK

\* An answer's promise keeps the types, whoever awaits it.
LEMMA SettleTyped ==
  ASSUME AcpInv, Settle
  PROVE AcpTypeOK'
<1> DEFINE m == Head(micro)
<1>0. AcpTypeOK /\ AcpLines /\ AcpSlot /\ DueIsAwaited /\ ComesAsTold BY DEF AcpInv
<1>1. m \in LineShape /\ m \in Held /\ micro' \in Seq(LineShape) /\ micro # <<>>
  BY <1>0, MembersOfTail DEF Settle, AcpTypeOK, Held
<1>2. ReqTyped BY <1>0, AcpParts
<1>3. PICK is : is = m.is OBVIOUS
<1>4. UNCHANGED <<provider, registered, stopRequested, exited, fromAgent, agentVars>>
  BY <1>0 DEF Settle
<1> HIDE DEF m
<1>5. ASSUME Opened, AcpSlot
      PROVE ReqTyped'
  <2>1. CASE stage = "opening"
    <3>1. queue # <<>> /\ inFlight \in {"open"} \cup Replies
      BY <1>0, <1>5, <2>1 DEF AcpTypeOK, AcpSlot, Replies
    <3>2. PICK slot \in {"open"} \cup Replies : slot = inFlight BY <1>0, <3>1
    <3>3. Send(slot) BY <1>0, <1>5, <2>1, <3>2 DEF Opened
    <3> QED BY <1>0, <1>5, <3>1, <3>3, SendTyped DEF ReqTyped, Opened
  <2>2. CASE stage # "opening"
    BY <1>0, <1>2, <1>5, <2>2 DEF Opened, AskNothing, endVars, turnVars, outVars, ReqTyped, EndTyped
  <2> QED BY <1>0, <2>1, <2>2
<1>6. ASSUME NotOpened(is)
      PROVE ReqTyped'
  <2>1. CASE stage # "opening"
    BY <1>0, <1>2, <1>6, <2>1
    DEF NotOpened, AskNothing, endVars, turnVars, outVars, ReqTyped, EndTyped
  <2>2. CASE stage = "opening" /\ is = "auth" /\ provider.auth /\ ~tried
    <3>1. Ask("authenticate") /\ "authenticate" \in AcpRequest
      BY <1>0, <1>6, <2>2 DEF NotOpened, AcpRequest, Step
    <3>2. pending' \subseteq AcpRequest /\ toAgent' \in Seq(AcpRequest) BY <1>0, <3>1, AskTyped
    <3>3. EndTyped' BY <1>0, <1>2, <1>6, <2>2 DEF NotOpened, outVars, ReqTyped, EndTyped
    <3> QED BY <1>0, <1>2, <1>6, <3>2, <3>3 DEF NotOpened, ReqTyped
  <2>3. CASE stage = "opening" /\ ~(is = "auth" /\ provider.auth /\ ~tried)
    <3>1. TurnFails /\ AskNothing /\ queue # <<>> /\ "failed" \in Replies
      BY <1>0, <1>6, <2>3 DEF NotOpened, AcpTypeOK, Replies
    <3>2. EndTyped' BY <1>0, <3>1, TurnReturnsTyped
    <3> QED BY <1>0, <1>2, <1>6, <3>1, <3>2 DEF NotOpened, AskNothing, ReqTyped
  <2> QED BY <1>0, <2>1, <2>2, <2>3
<1>7. ASSUME NEW of \in {"session/new", "session/set_mode"}, opening' = of, Ask(opening'),
             UNCHANGED <<fold, endVars>>
      PROVE ReqTyped'
  <2>1. pending' \subseteq AcpRequest /\ toAgent' \in Seq(AcpRequest)
    BY <1>0, <1>7, AskTyped DEF AcpRequest, Step
  <2> QED BY <1>0, <1>2, <1>7, <2>1 DEF ReqTyped, EndTyped, endVars, turnVars, outVars
<1>8. ReqTyped' /\ hello' \in {"waiting", "done", "failed"} /\ acpSessionId' \in BOOLEAN
  <2>0. hello \in {"waiting", "done", "failed"} /\ acpSessionId \in BOOLEAN BY <1>0 DEF AcpTypeOK
  <2>1. CASE Initialized(is)
    <3>1. hello' \in {"waiting", "done", "failed"} /\ acpSessionId' = acpSessionId
      BY <1>0, <2>1 DEF Initialized
    <3>2. CASE is = "ok" /\ opening = "initialize"
      BY <1>0, <1>7, <2>1, <3>1, <3>2, <2>0 DEF Initialized
    <3>3. CASE is = "ok" /\ opening # "initialize"
      BY <1>0, <1>2, <2>0, <2>1, <3>1, <3>3
      DEF Initialized, AskNothing, ReqTyped, EndTyped, endVars, turnVars, outVars
    <3>4. CASE is # "ok" /\ stage = "opening"
      <4>1. TurnFails /\ queue # <<>> /\ "failed" \in Replies
        BY <1>0, <2>1, <3>4 DEF Initialized, AcpTypeOK, Replies
      <4>2. EndTyped' BY <1>0, <4>1, TurnReturnsTyped
      <4> QED BY <1>0, <1>2, <2>0, <2>1, <3>1, <3>4, <4>2 DEF Initialized, AskNothing, ReqTyped
    <3>5. CASE is # "ok" /\ stage # "opening"
      <4>1. FinishRun BY <1>0, <2>1, <3>5 DEF Initialized
      <4>2. buffer' \in Nat /\ line' \in Nat /\ log' \in [text : Nat, open : BOOLEAN] /\ settled' = TRUE
        BY <1>0, <4>1, OutTyped DEF FinishRun
      <4> QED
        BY <1>0, <1>2, <2>0, <2>1, <3>1, <3>5, <4>2
        DEF Initialized, AskNothing, ReqTyped, EndTyped, turnVars
    <3> QED BY <1>0, <3>2, <3>3, <3>4, <3>5
  <2>2. CASE SessionAnswered(is)
    <3>1. hello' = hello /\ acpSessionId' \in BOOLEAN BY <1>0, <2>2 DEF SessionAnswered
    <3>2. NotOpened(is) \/ Opened \/ (opening' = "session/set_mode" /\ Ask(opening') /\ UNCHANGED <<fold, endVars>>)
      BY <1>0, <2>2 DEF SessionAnswered
    <3> QED BY <1>0, <1>5, <1>6, <1>7, <2>0, <3>1, <3>2
  <2>3. CASE ModeAnswered(is) BY <1>0, <1>5, <1>6, <2>0, <2>3 DEF ModeAnswered
  <2>4. CASE Authenticated(is) /\ stage = "authenticating"
    <3>1. queue # <<>> BY <1>0, <2>4 DEF AcpTypeOK
    <3>2. CASE Begin BY <1>0, <2>0, <2>4, <3>1, <3>2, BeginTyped DEF Authenticated
    <3>3. CASE is # "ok"
      <4>1. TurnFails /\ AskNothing /\ UNCHANGED <<opening, fold>> /\ "failed" \in Replies
        BY <1>0, <2>4, <3>3 DEF Authenticated, Replies
      <4>2. EndTyped' BY <1>0, <3>1, <4>1, TurnReturnsTyped
      <4> QED BY <1>0, <1>2, <2>0, <2>4, <4>1, <4>2 DEF Authenticated, AskNothing, ReqTyped
    <3> QED BY <1>0, <2>4, <3>2, <3>3 DEF Authenticated
  <2>5. CASE TurnAnswered(is) /\ is \in Replies
    <3>1. AskNothing /\ UNCHANGED <<hello, opening, acpSessionId, fold>>
      BY <1>0, <2>5 DEF TurnAnswered
    <3>2. EndTyped'
      <4>1. CASE inFlight = "open" /\ stage = "sent"
        <5>1. TurnReturns(is) /\ queue # <<>> BY <1>0, <2>5, <4>1 DEF TurnAnswered, AcpTypeOK
        <5> QED BY <1>0, <2>5, <5>1, TurnReturnsTyped
      <4>2. CASE ~(inFlight = "open" /\ stage = "sent")
        <5>1. buffer' \in Nat /\ line' \in Nat /\ log' \in [text : Nat, open : BOOLEAN] BY <1>0, <2>5, <4>2, OutTyped DEF TurnAnswered
        <5>2. inFlight' = (IF inFlight = "open" THEN is ELSE inFlight)
              /\ UNCHANGED <<turnVars, settled, killTimer, proc>>
                BY <1>0, <2>5, <4>2 DEF TurnAnswered
        <5> QED BY <1>0, <1>2, <2>5, <5>1, <5>2 DEF ReqTyped, EndTyped, turnVars, Replies
      <4> QED BY <1>0, <4>1, <4>2
    <3> QED BY <1>0, <1>2, <2>0, <3>1, <3>2 DEF ReqTyped, AskNothing
  <2>6. m.of = "authenticate" => stage = "authenticating" BY <1>0, <1>1 DEF DueIsAwaited, Due
  <2>7. m.of \in Turn => is \in Replies BY <1>0, <1>1, <1>3 DEF ComesAsTold, AcpLines, AnswersTo
  <2> QED BY <1>0, <2>1, <2>2, <2>3, <2>4, <2>5, <2>6, <2>7, <1>3 DEF Settle, m
<1> QED BY <1>0, <1>1, <1>4, <1>8, TypedFromParts DEF AcpTypeOK, agentVars

\* So does a line from the agent, of any kind.
LEMMA ReceiveTyped ==
  ASSUME AcpInv, Receive
  PROVE AcpTypeOK'
<1> DEFINE m == Head(fromAgent)
<1>0. AcpTypeOK /\ AcpLines /\ ReqTyped BY AcpParts DEF AcpInv
<1>1. m \in LineShape /\ m \in Incoming /\ fromAgent' \in Seq(LineShape)
  BY <1>0, MembersOfTail DEF Receive, AcpTypeOK, Incoming
<1>2. UNCHANGED <<provider, registered, stopRequested, hello, opening, acpSessionId, exited, toAgent, agentVars>>
  BY DEF Receive
<1>3. \/ m.kind = "update" /\ ReceiveUpdate(m.is)
      \/ m.kind = "answer" /\ ReceiveAnswer(m.of, m.is)
      \/ m.kind = "flood" /\ ReceiveFlood
  BY DEF Receive
<1> HIDE DEF m
<1>4. CASE ReceiveUpdate(m.is)
  <2>1. fold' \in [text : Nat, streaming : BOOLEAN]
    <3>1. fold \in [text : Nat, streaming : BOOLEAN] BY <1>0 DEF AcpTypeOK
    <3>2. fold' = Fold(m.is) \/ fold' = fold BY <1>4 DEF ReceiveUpdate
    <3>3. [fold EXCEPT !.streaming = FALSE] \in [text : Nat, streaming : BOOLEAN] BY <3>1
    <3>4. ASSUME NEW kind \in Chunk
          PROVE  [text |-> Clamp((IF fold.streaming THEN fold.text ELSE 0) + Length[kind]), streaming |-> TRUE]
                   \in [text : Nat, streaming : BOOLEAN]
      BY <3>1, AcpAssumption DEF Clamp
    <3>5. Fold(m.is) \in [text : Nat, streaming : BOOLEAN] BY <3>1, <3>3, <3>4 DEF Fold
    <3> QED BY <3>1, <3>2, <3>5
  <2>2. buffer' \in Nat /\ line' \in Nat /\ log' \in [text : Nat, open : BOOLEAN]
    <3>1. UNCHANGED outVars \/ FlushOutput \/ (\E kind \in Chunk : ReceiveChunk(buffer + Length[kind]))
      BY <1>4 DEF ReceiveUpdate
    <3>2. ASSUME NEW kind \in Chunk, ReceiveChunk(buffer + Length[kind])
          PROVE  buffer' \in Nat /\ line' \in Nat /\ log' \in [text : Nat, open : BOOLEAN]
      <4>1. buffer \in Nat /\ line \in Nat /\ log \in [text : Nat, open : BOOLEAN]
            /\ Length[kind] \in Nat /\ LineCap \in Nat
        BY <1>0, AcpAssumption DEF AcpTypeOK
      <4> DEFINE before == IF log.open THEN log.text ELSE 0
                 text == buffer + Length[kind]
      <4>2. before \in Nat /\ before + text \in Nat /\ text \in Nat BY <4>1
      <4>3. ReceiveChunk(text) BY <3>2
      <4>4. log' = [text |-> before + text, open |-> TRUE] \/ log' = [text |-> before, open |-> TRUE]
        BY <4>3 DEF ReceiveChunk
      <4>5. buffer' \in {0, text} /\ line' \in {line, Clip(text)} BY <4>3 DEF ReceiveChunk
      <4> HIDE DEF before, text
      <4>6. \A n \in Nat : [text |-> n, open |-> TRUE] \in [text : Nat, open : BOOLEAN] OBVIOUS
      <4>7. log' \in [text : Nat, open : BOOLEAN] BY <4>2, <4>4, <4>6, Zenon
      <4> QED BY <4>1, <4>2, <4>5, <4>7 DEF Clip
    <3> QED BY <1>0, <3>1, <3>2, OutTyped DEF AcpTypeOK, outVars
  <2>3. ReqTyped' BY <1>0, <1>2, <1>4, <2>1, <2>2 DEF ReceiveUpdate, ReqTyped, EndTyped, turnVars
  <2> QED BY <1>0, <1>1, <1>2, <1>4, <2>3, TypedFromParts DEF ReceiveUpdate, AcpTypeOK, agentVars
<1>5. CASE m.kind = "answer" /\ ReceiveAnswer(m.of, m.is)
  <2>1. Line("answer", m.of, m.is) \in LineShape BY <1>0, <1>1, <1>5 DEF AcpLines, Line, LineShape
  <2>2. micro' \in Seq(LineShape) /\ pending' \subseteq AcpRequest
    BY <1>0, <1>5, <2>1 DEF ReceiveAnswer, AcpTypeOK
  <2>3. ReqTyped' BY <1>0, <1>2, <1>5, <2>2 DEF ReceiveAnswer, ReqTyped, EndTyped, turnVars, outVars
  <2> QED BY <1>0, <1>1, <1>2, <2>2, <2>3, TypedFromParts DEF AcpTypeOK, agentVars
<1>6. CASE ReceiveFlood
  <2>1. buffer' \in Nat /\ line' \in Nat /\ log' \in [text : Nat, open : BOOLEAN] /\ settled' = TRUE
    BY <1>0, <1>6, OutTyped DEF ReceiveFlood, FinishRun
  <2>2. killTimer' \in BOOLEAN /\ proc' \in {"up", "told", "killed", "gone"}
    BY <1>0, <1>6 DEF ReceiveFlood, Close, AcpTypeOK
  <2>3. EndTyped' BY <1>0, <1>6, <2>1, <2>2, SlotFailsTyped DEF ReceiveFlood, EndTyped
  <2>4. ReqTyped' BY <1>0, <1>2, <1>6, <2>3 DEF ReceiveFlood, ReqTyped
  <2> QED BY <1>0, <1>1, <1>2, <1>6, <2>4, TypedFromParts DEF ReceiveFlood, AcpTypeOK, agentVars
<1> QED BY <1>3, <1>4, <1>5, <1>6

\* And so does every step.
LEMMA AcpTyped ==
  ASSUME AcpInv, [AcpNext]_acpVars
  PROVE AcpTypeOK'
<1>0. AcpTypeOK /\ AcpSlot /\ DueIsAwaited /\ DueIsFresh BY DEF AcpInv
<1>p. ReqTyped BY <1>0, AcpParts
<1>1. CASE Register
  <2>1. Brief \in Turn BY AcpAssumption
  <2>2. ReqTyped' BY <1>p, <1>1, <2>1 DEF Register, Ended, ReqTyped, EndTyped, outVars, clientVars
  <2> QED BY <1>0, <1>1, <2>2, TypedFromParts DEF Register, AcpTypeOK, clientVars, agentVars
<1>2. CASE RegisterFails
  BY <1>0, <1>2 DEF RegisterFails, AcpTypeOK, turnVars, outVars, clientVars, agentVars
<1>3. ASSUME NEW t \in Turn, Prompt(t) PROVE AcpTypeOK'
  <2>1. /\ fate' \in [Turn -> {"none", "queued", "rejected"} \cup Replies]
        /\ queue' \in Seq(Turn) /\ queue' # <<>>
    BY <1>p, <1>3 DEF Prompt, Ended, ReqTyped, EndTyped
  <2>2. ReqTyped' BY <1>p, <1>3, <2>1 DEF Prompt, ReqTyped, EndTyped, outVars, clientVars
  <2> QED BY <1>0, <1>3, <2>2, TypedFromParts DEF Prompt, AcpTypeOK, clientVars, agentVars
<1>4. CASE SkipTurn
  <2>1. Leave("rejected") /\ queue # <<>> BY <1>4 DEF SkipTurn, Waiting
  <2>2. EndTyped' BY <1>0, <1>p, <1>4, <2>1, LeaveTyped DEF SkipTurn, EndTyped, ReqTyped, outVars
  <2>3. ReqTyped' BY <1>p, <1>4, <2>2 DEF SkipTurn, ReqTyped
  <2> QED BY <1>0, <1>4, <2>3, TypedFromParts DEF SkipTurn, AcpTypeOK, agentVars
<1>5. CASE RunTurn
  <2>1. Begin /\ queue # <<>> BY <1>5 DEF RunTurn, Waiting
  <2>2. ReqTyped' BY <1>0, <2>1, BeginTyped
  <2> QED BY <1>0, <1>5, <2>2, TypedFromParts DEF RunTurn, AcpTypeOK, agentVars
<1>6. CASE Stop
  <2>1. EndTyped'
    <3>1. CASE exited BY <1>p, <1>6, <3>1 DEF Stop, ReqTyped, EndTyped, endVars, turnVars, outVars
    <3>2. CASE ~exited
      <4>1. buffer' \in Nat /\ line' \in Nat /\ log' \in [text : Nat, open : BOOLEAN] /\ settled' \in BOOLEAN
        <5>1. FinishRun \/ UNCHANGED <<settled, outVars>> BY <1>6, <3>2 DEF Stop
        <5>2. CASE FinishRun BY <1>0, <5>2, OutTyped DEF FinishRun
        <5>3. CASE UNCHANGED <<settled, outVars>> BY <1>0, <5>3 DEF AcpTypeOK, outVars
        <5> QED BY <5>1, <5>2, <5>3
      <4>2. SlotFails /\ Close BY <1>6, <3>2 DEF Stop
      <4>3. killTimer' \in BOOLEAN /\ proc' \in {"up", "told", "killed", "gone"}
        BY <1>0, <4>2 DEF Close, AcpTypeOK
      <4> QED BY <1>0, <4>1, <4>2, <4>3, SlotFailsTyped DEF EndTyped
    <3> QED BY <3>1, <3>2
  <2>2. ReqTyped' BY <1>p, <1>6, <2>1 DEF Stop, ReqTyped
  <2> QED BY <1>0, <1>6, <2>2, TypedFromParts DEF Stop, AcpTypeOK, agentVars
<1>7. CASE HandshakeTimesOut
  <2>1. Line("answer", "initialize", "failed") \in LineShape
    BY DEF Line, LineShape, AcpRequest, Step, Replies
  <2>2. micro' \in Seq(LineShape) /\ pending' \subseteq AcpRequest
    BY <1>0, <1>7, <2>1 DEF HandshakeTimesOut, AcpTypeOK
  <2>3. ReqTyped'
    BY <1>p, <1>7, <2>2 DEF HandshakeTimesOut, ReqTyped, EndTyped, runnerVars, turnVars, outVars
  <2> QED
    BY <1>0, <1>7, <2>2, <2>3, TypedFromParts
    DEF HandshakeTimesOut, AcpTypeOK, runnerVars, agentVars
<1>8. CASE ExitSeen
  <2>1. buffer' \in Nat /\ line' \in Nat /\ log' \in [text : Nat, open : BOOLEAN] /\ settled' = TRUE
    BY <1>0, <1>8, OutTyped DEF ExitSeen, FinishRun
  <2>2. EndTyped'
    <3>1. CASE stage = "idle" BY <1>p, <1>8, <2>1, <3>1 DEF ExitSeen, ReqTyped, EndTyped, turnVars
    <3>2. CASE stage # "idle"
      <4>1. Leave("failed") /\ queue # <<>> /\ "failed" \in Replies
        BY <1>0, <1>8, <3>2 DEF ExitSeen, AcpTypeOK, Replies
      <4> QED BY <1>0, <1>p, <1>8, <2>1, <4>1, LeaveTyped DEF ExitSeen, ReqTyped, EndTyped
    <3> QED BY <3>1, <3>2
  <2>3. ReqTyped' BY <1>p, <1>8, <2>2 DEF ExitSeen, ReqTyped
  <2> QED BY <1>0, <1>8, <2>3, TypedFromParts DEF ExitSeen, AcpTypeOK, agentVars
<1>9. CASE KillTimer
  <2>1. ReqTyped' BY <1>p, <1>9 DEF KillTimer, ReqTyped, EndTyped, runnerVars, turnVars, outVars
  <2> QED BY <1>0, <1>9, <2>1, TypedFromParts DEF KillTimer, AcpTypeOK, runnerVars, agentVars
<1>10. CASE AgentReads
  <2>1. Head(toAgent) \in AcpRequest /\ toAgent' \in Seq(AcpRequest)
    BY <1>0, <1>10, MembersOfTail DEF AgentReads, AcpTypeOK
  <2>2. ReqTyped'
    BY <1>p, <1>10, <2>1
    DEF AgentReads, ReqTyped, EndTyped, runnerVars, turnVars, outVars, clientVars
  <2>3. working' \subseteq Turn /\ fromAgent' \in Seq(LineShape) /\ opened' \in Nat /\ moded' \in BOOLEAN /\ authed' \in BOOLEAN
    <3>1. CASE working' = working \cup {Head(toAgent)} /\ Head(toAgent) \in Turn /\ UNCHANGED <<fromAgent, opened, moded, authed>>
      BY <1>0, <3>1 DEF AcpTypeOK
    <3>2. CASE Head(toAgent) \in Step /\ UNCHANGED working
      <4>1. PICK is \in AgentAnswers(Head(toAgent)) :
              /\ Says(Line("answer", Head(toAgent), is))
              /\ opened' = opened + (IF Head(toAgent) = "session/new" /\ is = "ok" THEN 1 ELSE 0)
              /\ moded' = (moded \/ (Head(toAgent) = "session/set_mode" /\ is = "ok"))
              /\ authed' = (authed \/ (Head(toAgent) = "authenticate" /\ is = "ok"))
        BY <1>10, <3>2, NoAcpClash DEF AgentReads
      <4>2. is \in {"ok", "failed", "auth"} BY DEF AgentAnswers
      <4>3. Line("answer", Head(toAgent), is) \in LineShape BY <2>1, <4>2 DEF Line, LineShape
      <4> QED BY <1>0, <3>2, <4>1, <4>3 DEF AcpTypeOK, Says
    <3> QED BY <1>10, <3>1, <3>2 DEF AgentReads
  <2> QED
    BY <1>0, <1>10, <2>2, <2>3, TypedFromParts DEF AgentReads, AcpTypeOK, runnerVars, clientVars
<1>11. ASSUME NEW t \in Turn, AgentEndsTurn(t) PROVE AcpTypeOK'
  <2>1. PICK is \in Replies : answered' = [answered EXCEPT ![t] = is] /\ Says(Line("answer", t, is))
    BY <1>11 DEF AgentEndsTurn, Replies
  <2>2. Line("answer", t, is) \in LineShape BY NoAcpClash DEF Line, LineShape
  <2>3. fromAgent' \in Seq(LineShape) /\ answered' \in [Turn -> {"none"} \cup Replies] /\ working' \subseteq Turn
    BY <1>0, <1>11, <2>1, <2>2 DEF AcpTypeOK, Says, AgentEndsTurn
  <2>4. ReqTyped'
    BY <1>p, <1>11 DEF AgentEndsTurn, ReqTyped, EndTyped, runnerVars, turnVars, outVars, clientVars
  <2> QED
    BY <1>0, <1>11, <2>3, <2>4, TypedFromParts DEF AgentEndsTurn, AcpTypeOK, runnerVars, clientVars
<1>12. CASE AgentUpdates
  <2>1. PICK m \in LineShape : Says(m)
    <3>1. \A kind \in Update : Line("update", "session/update", kind) \in LineShape
      BY AcpAssumption DEF Line, LineShape
    <3>2. Line("flood", "session/update", "usage") \in LineShape BY DEF Line, LineShape
    <3> QED BY <1>12, <3>1, <3>2 DEF AgentUpdates
  <2>2. fromAgent' \in Seq(LineShape) /\ said' \in 0..MaxUpdates
    BY <1>0, <1>12, <2>1, AcpAssumption DEF AcpTypeOK, Says, AgentUpdates
  <2>3. ReqTyped'
    BY <1>p, <1>12 DEF AgentUpdates, ReqTyped, EndTyped, runnerVars, turnVars, outVars, clientVars
  <2> QED
    BY <1>0, <1>12, <2>2, <2>3, TypedFromParts DEF AgentUpdates, AcpTypeOK, runnerVars, clientVars
<1>13. CASE AgentDies \/ Killed
  <2>1. ReqTyped'
    BY <1>p, <1>13
    DEF AgentDies, Killed, ReqTyped, EndTyped, runnerVars, turnVars, outVars, clientVars
  <2> QED
    BY <1>0, <1>13, <2>1, TypedFromParts
    DEF AgentDies, Killed, AcpTypeOK, runnerVars, clientVars, agentVars
<1>14. CASE SpawnFails
  <2>1. buffer' \in Nat /\ line' \in Nat /\ log' \in [text : Nat, open : BOOLEAN] /\ settled' = TRUE
    BY <1>0, <1>14, OutTyped DEF SpawnFails, FinishRun
  <2>2. EndTyped' BY <1>0, <1>p, <1>14, <2>1, SlotFailsTyped DEF SpawnFails, EndTyped, ReqTyped
  <2>3. ReqTyped' BY <1>p, <1>14, <2>2 DEF SpawnFails, ReqTyped
  <2> QED BY <1>0, <1>14, <2>3, TypedFromParts DEF SpawnFails, AcpTypeOK, agentVars
<1>15. CASE UNCHANGED acpVars
  <2>1. ReqTyped'
    BY <1>p, <1>15 DEF acpVars, ReqTyped, EndTyped, runnerVars, turnVars, outVars, clientVars
  <2> QED
    BY <1>0, <1>15, <2>1, TypedFromParts DEF acpVars, AcpTypeOK, runnerVars, clientVars, agentVars
<1> QED
  BY <1>1, <1>2, <1>3, <1>4, <1>5, <1>6, <1>7, <1>8, <1>9, <1>10, <1>11, <1>12, <1>13, <1>14, <1>15,
           SettleTyped, ReceiveTyped DEF AcpNext

\* What a step does to the runner's turns and to the slot.
Keeps == UNCHANGED <<queue, fate, stage, inFlight, settled>>
GoesQuiet == UNCHANGED <<queue, fate, stage, inFlight>> /\ settled' = TRUE /\ stage = "idle"
Queues ==
  /\ \E t \in Turn : fate[t] = "none" /\ queue' = Append(queue, t) /\ fate' = Ended(t, "queued")
  /\ UNCHANGED <<stage, inFlight, settled>>
Skips == queue # <<>> /\ stage = "idle" /\ Leave("rejected") /\ UNCHANGED settled /\ (settled \/ stopRequested)
GivesUp == queue # <<>> /\ stage # "idle" /\ Leave("failed") /\ settled' = TRUE
Completes ==
  /\ queue # <<>> /\ stage = "sent" /\ UNCHANGED settled /\ ~settled /\ Flushes
  /\ Settle /\ micro # <<>> /\ Head(micro).of = Head(queue) /\ Head(micro).is \in {"completed", "cancelled"}
  /\ Leave(Head(micro).is)
Sends ==
  /\ queue # <<>> /\ stage # "sent" /\ ~settled /\ UNCHANGED <<queue, fate, settled>>
  /\ stage' = "sent" /\ inFlight' = "open" /\ Ask(Head(queue)) /\ fold' = Silence /\ Flushes
Opens ==
  /\ queue # <<>> /\ stage \in {"idle", "authenticating"} /\ ~settled /\ UNCHANGED <<queue, fate, settled>>
  /\ stage' = "opening" /\ inFlight' = "open"
LogsIn ==
  /\ stage = "opening" /\ provider.auth /\ ~settled /\ UNCHANGED <<queue, fate, settled>>
  /\ stage' = "authenticating" /\ inFlight' = "none" /\ Ask("authenticate")
LosesSlot ==
  /\ stage = "opening" /\ inFlight' = "failed" /\ UNCHANGED <<queue, fate, stage>>
  /\ \/ UNCHANGED settled
     \/ settled' = TRUE /\ SpawnFails

RunnerMoves ==
  Keeps \/ GoesQuiet \/ Queues \/ Skips \/ GivesUp \/ Completes \/ Sends \/ Opens \/ LogsIn \/ LosesSlot

\* A slot is emptied by failing the turn that was sent, or leaving the failure to the one that
\* opens.
LEMMA SlotFailsMoves ==
  ASSUME AcpInv, SlotFails
  PROVE \/ UNCHANGED <<queue, fate, stage, inFlight>> /\ inFlight # "open"
        \/ queue # <<>> /\ stage = "sent" /\ inFlight = "open" /\ Leave("failed")
        \/ stage = "opening" /\ inFlight' = "failed" /\ UNCHANGED <<queue, fate, stage>>
<1>1. AcpTypeOK /\ AcpSlot BY DEF AcpInv
<1>2. CASE inFlight # "open" BY <1>2 DEF SlotFails, turnVars
<1>3. CASE inFlight = "open" /\ stage = "sent" BY <1>1, <1>3 DEF SlotFails, AcpTypeOK
<1>4. CASE inFlight = "open" /\ stage # "sent" BY <1>1, <1>4 DEF SlotFails, turnVars, AcpTypeOK
<1> QED BY <1>2, <1>3, <1>4

\* The oldest promise is due, and no other is of the same request.
LEMMA HeldHead ==
  ASSUME AcpInv, micro # <<>>
  PROVE /\ Head(micro) \in LineShape /\ Head(micro) \in Held /\ Held = Members(Tail(micro)) \cup {Head(micro)}
        /\ Head(micro).kind = "answer" /\ Head(micro).of \in AcpRequest /\ Head(micro).of \in Due
        /\ Tail(micro) \in Seq(LineShape)
        /\ \A of \in AcpRequest : OnceIn(Tail(micro), AnswersTo(of))
        /\ AnswersTo(Head(micro).of) \cap Members(Tail(micro)) = {}
<1>1. AcpTypeOK /\ AcpLines /\ DueIsAwaited BY DEF AcpInv
<1>2. micro \in Seq(LineShape) BY <1>1 DEF AcpTypeOK
<1>3. /\ Head(micro) \in LineShape /\ Tail(micro) \in Seq(LineShape)
      /\ Members(micro) = Members(Tail(micro)) \cup {Head(micro)}
  BY <1>2, MembersOfTail
<1>4. Head(micro).kind = "answer" /\ Head(micro).of \in AcpRequest /\ Head(micro).of \in Due
  BY <1>1, <1>3 DEF AcpLines, Held, Due
<1>5. \A of \in AcpRequest : OnceIn(micro, AnswersTo(of)) BY <1>1 DEF DueIsAwaited
<1>6. ASSUME NEW of \in AcpRequest
      PROVE OnceIn(Tail(micro), AnswersTo(of)) /\ (Head(micro) \in AnswersTo(of) => AnswersTo(of) \cap Members(Tail(micro)) = {})
  BY <1>2, <1>5, OnceInTail
<1>7. Head(micro) \in AnswersTo(Head(micro).of) BY <1>3, <1>4 DEF AnswersTo
<1> QED BY <1>3, <1>4, <1>6, <1>7 DEF Held

\* A settled session that has a turn yet hears of the handshake only, and only that it failed.
LEMMA SettleWhenSettled ==
  ASSUME AcpInv, Settle, settled, stage # "idle"
  PROVE /\ Head(micro).of = "initialize" /\ Head(micro).is # "ok" /\ stage = "opening"
        /\ Initialized(Head(micro).is)
<1>1. SettledIsOver /\ HelloFirst BY DEF AcpInv
<1>2. Head(micro) \in Held BY HeldHead DEF Settle
<1>3. Head(micro).of = "initialize" /\ Head(micro).is = "failed" /\ stage = "opening"
  BY <1>1, <1>2 DEF SettledIsOver, NeverUp, HelloFirst, AnswersTo
<1> QED BY <1>3, NoAcpClash DEF Settle, Step

\* What begins a turn sends it or opens its session.
LEMMA SendMoves ==
  ASSUME AcpInv, Send("open"), queue # <<>>, stage # "sent", ~settled
  PROVE Sends
  BY DEF Send, Sends

LEMMA BeginMoves ==
  ASSUME AcpInv, Begin, queue # <<>>, stage \in {"idle", "authenticating"}, ~settled
  PROVE Sends \/ Opens
<1>1. CASE acpSessionId BY <1>1, SendMoves DEF Begin
<1>2. CASE ~acpSessionId BY <1>2 DEF Begin, Opens
<1> QED BY <1>1, <1>2

\* A promise makes one of these moves,
LEMMA SettleMoves ==
  ASSUME AcpInv, Settle
  PROVE RunnerMoves
<1> DEFINE m == Head(micro)
<1>0. AcpTypeOK /\ AcpSlot /\ DueIsAwaited /\ OneAbroad /\ ComesAsTold /\ HelloFirst BY DEF AcpInv
<1>1. micro # <<>> /\ m \in LineShape /\ m \in Held /\ m.kind = "answer" /\ m.of \in AcpRequest /\ m.of \in Due
  BY HeldHead DEF Settle
<1>2. PICK is : is = m.is OBVIOUS
<1> HIDE DEF m
<1>3. stage # "idle" => queue # <<>> BY <1>0 DEF AcpTypeOK
<1>4. settled /\ stage # "idle" => m.of = "initialize" /\ Initialized(is) /\ is # "ok" /\ stage = "opening"
  BY <1>2, SettleWhenSettled DEF m
<1>5. ASSUME m.of = "initialize", Initialized(is) PROVE RunnerMoves
  <2>1. stage \in {"idle", "opening"} BY <1>0, <1>1, <1>5 DEF DueIsAwaited, HelloFirst
  <2>2. CASE is = "ok" BY <1>5, <2>2 DEF Initialized, endVars, turnVars, RunnerMoves, Keeps
  <2>3. CASE is # "ok" /\ stage = "opening"
    BY <1>3, <1>5, <2>3 DEF Initialized, TurnFails, FinishRun, RunnerMoves, GivesUp
  <2>4. CASE is # "ok" /\ stage = "idle"
    BY <1>5, <2>4 DEF Initialized, FinishRun, turnVars, RunnerMoves, GoesQuiet
  <2> QED BY <2>1, <2>2, <2>3, <2>4
<1>6. ASSUME NotOpened(is), m.of # "initialize" PROVE RunnerMoves
  <2>1. CASE stage # "opening" BY <1>6, <2>1 DEF NotOpened, endVars, turnVars, RunnerMoves, Keeps
  <2>2. CASE stage = "opening" /\ is = "auth" /\ provider.auth /\ ~tried
    BY <1>4, <1>6, <2>2 DEF NotOpened, RunnerMoves, LogsIn
  <2>3. CASE stage = "opening" /\ ~(is = "auth" /\ provider.auth /\ ~tried)
    BY <1>3, <1>6, <2>3 DEF NotOpened, TurnFails, FinishRun, RunnerMoves, GivesUp
  <2> QED BY <2>1, <2>2, <2>3
<1>7. ASSUME Opened, m.of # "initialize" PROVE RunnerMoves
  <2>1. CASE stage # "opening" BY <1>7, <2>1 DEF Opened, endVars, turnVars, RunnerMoves, Keeps
  <2>2. CASE stage = "opening" /\ inFlight = "open"
    BY <1>3, <1>4, <1>7, <2>2, SendMoves DEF Opened, RunnerMoves
  <2>3. CASE stage = "opening" /\ inFlight # "open"
    <3>1. inFlight = "failed" BY <1>0, <2>3 DEF AcpSlot
    <3>2. Send("failed") BY <1>7, <2>3, <3>1 DEF Opened
    <3> QED BY <1>3, <2>3, <3>2 DEF Send, TurnReturns, TurnFails, FinishRun, RunnerMoves, GivesUp
  <2> QED BY <2>1, <2>2, <2>3
<1>8. ASSUME m.of = "session/new", SessionAnswered(is) PROVE RunnerMoves
  <2>1. NotOpened(is) \/ Opened \/ UNCHANGED endVars BY <1>8 DEF SessionAnswered
  <2> QED BY <1>6, <1>7, <1>8, <2>1 DEF endVars, turnVars, RunnerMoves, Keeps
<1>9. ASSUME m.of = "session/set_mode", ModeAnswered(is) PROVE RunnerMoves
  BY <1>6, <1>7, <1>9 DEF ModeAnswered
<1>10. ASSUME m.of = "authenticate", Authenticated(is) PROVE RunnerMoves
  <2>1. stage = "authenticating" /\ ~settled /\ queue # <<>>
    BY <1>0, <1>1, <1>3, <1>4, <1>10 DEF DueIsAwaited
  <2>2. Begin \/ TurnFails BY <1>10 DEF Authenticated
  <2> QED BY <2>1, <2>2, BeginMoves DEF TurnFails, FinishRun, RunnerMoves, GivesUp
<1>11. ASSUME m.of \in Turn, TurnAnswered(is) PROVE RunnerMoves
  <2>1. m \in AnswersTo(m.of) BY <1>1 DEF AnswersTo
  <2>2. is \in Replies /\ Comes(m.of) BY <1>0, <1>1, <1>2, <1>11, <2>1 DEF ComesAsTold, Comes
  <2>3. (stage = "sent" /\ m.of = Head(queue)) \/ (stage = "idle" /\ settled)
    BY <1>0, <1>11, <2>2 DEF OneAbroad
  <2>4. CASE inFlight # "open" BY <1>11, <2>4 DEF TurnAnswered, turnVars, RunnerMoves, Keeps
  <2>5. CASE inFlight = "open"
    <3>1. stage = "sent" /\ m.of = Head(queue) BY <1>0, <2>3, <2>5 DEF AcpSlot
    <3>2. TurnReturns(is) /\ ~settled /\ queue # <<>>
      BY <1>3, <1>4, <1>11, <2>5, <3>1 DEF TurnAnswered
    <3>3. CASE is = "failed"
      BY <3>1, <3>2, <3>3 DEF TurnReturns, TurnFails, FinishRun, RunnerMoves, GivesUp
    <3>4. CASE is # "failed"
      BY <1>1, <1>2, <2>2, <3>1, <3>2, <3>4 DEF TurnReturns, RunnerMoves, Completes, Replies, m
    <3> QED BY <3>3, <3>4
  <2> QED BY <2>4, <2>5
<1> QED BY <1>2, <1>5, <1>8, <1>9, <1>10, <1>11 DEF Settle, m

\* and so does every step: a flood, which would settle a session whose turn waits for its
\* session, comes before the answer of the turn it belongs to.
LEMMA StepMoves ==
  ASSUME AcpInv, [AcpNext]_acpVars
  PROVE RunnerMoves
<1>0. AcpTypeOK /\ AcpSlot /\ DueIsFresh /\ OneAbroad /\ UpdatesFirst /\ HelloFirst BY DEF AcpInv
<1>1. CASE Register
  BY <1>0, <1>1, AcpAssumption DEF Register, DueIsFresh, clientVars, RunnerMoves, Queues
<1>2. ASSUME NEW t \in Turn, Prompt(t) PROVE RunnerMoves
  BY <1>2 DEF Prompt, clientVars, RunnerMoves, Queues
<1>3. CASE SkipTurn BY <1>3 DEF SkipTurn, Waiting, RunnerMoves, Skips
<1>4. CASE RunTurn BY <1>4, BeginMoves DEF RunTurn, Waiting, RunnerMoves
<1>5. CASE Stop
  <2>1. CASE exited BY <1>5, <2>1 DEF Stop, endVars, turnVars, RunnerMoves, Keeps
  <2>2. CASE ~exited
    <3>1. SlotFails BY <1>5, <2>2 DEF Stop
    <3>2. IF inFlight = "open" /\ stage = "sent" THEN settled' = TRUE ELSE UNCHANGED settled
      BY <1>5, <2>2 DEF Stop, FinishRun
    <3> QED BY <3>1, <3>2, SlotFailsMoves DEF RunnerMoves, Keeps, GivesUp, LosesSlot
  <2> QED BY <2>1, <2>2
<1>6. CASE Receive
  <2> DEFINE m == Head(fromAgent)
  <2>1. CASE ReceiveUpdate(m.is) BY <2>1 DEF ReceiveUpdate, turnVars, RunnerMoves, Keeps
  <2>2. CASE ReceiveAnswer(m.of, m.is) BY <2>2 DEF ReceiveAnswer, turnVars, RunnerMoves, Keeps
  <2>3. CASE m.kind = "flood" /\ ReceiveFlood
    <3>1. fromAgent # <<>> /\ fromAgent \in Seq(LineShape) /\ m \in Incoming
      BY <1>0, <1>6, MembersOfTail DEF Receive, AcpTypeOK, Incoming
    <3>2. stage \in {"idle", "sent"}
      <4>1. CASE working # {}
        <5>1. PICK t \in Turn : t \in working BY <1>0, <4>1 DEF AcpTypeOK
        <5> QED BY <1>0, <5>1 DEF OneAbroad, Waits
      <4>2. CASE AnswerFollows(fromAgent)
        <5>1. 1 \in DOMAIN fromAgent /\ fromAgent[1] = m BY <3>1
        <5>2. PICK j \in DOMAIN fromAgent : fromAgent[j] \in TurnAnswers
          BY <2>3, <4>2, <5>1 DEF AnswerFollows
        <5>3. PICK t \in Turn : fromAgent[j] \in AnswersTo(t) BY <5>2 DEF TurnAnswers, AnswersTo
        <5>4. Comes(t) BY <5>2, <5>3 DEF Comes, Incoming, Members
        <5> QED BY <1>0, <5>4 DEF OneAbroad
      <4> QED BY <1>0, <4>1, <4>2 DEF UpdatesFirst
    <3>3. SlotFails /\ settled' = TRUE BY <2>3 DEF ReceiveFlood, FinishRun
    <3> QED BY <1>0, <3>2, <3>3, SlotFailsMoves DEF AcpSlot, RunnerMoves, GoesQuiet, GivesUp
  <2> QED BY <1>6, <2>1, <2>2, <2>3 DEF Receive
<1>7. CASE ExitSeen
  <2>1. settled' = TRUE BY <1>7 DEF ExitSeen, FinishRun
  <2> QED BY <1>0, <1>7, <2>1 DEF ExitSeen, turnVars, AcpTypeOK, RunnerMoves, GoesQuiet, GivesUp
<1>8. CASE SpawnFails
  <2>1. SlotFails /\ settled' = TRUE /\ hello = "waiting" BY <1>8 DEF SpawnFails, FinishRun
  <2> QED
    BY <1>0, <1>8, <2>1, SlotFailsMoves
    DEF AcpSlot, HelloFirst, RunnerMoves, GoesQuiet, GivesUp, LosesSlot
<1>9. CASE HandshakeTimesOut \/ KillTimer
  BY <1>9 DEF HandshakeTimesOut, KillTimer, runnerVars, turnVars, RunnerMoves, Keeps
<1>10. CASE AgentReads \/ AgentUpdates \/ AgentDies \/ Killed \/ (\E t \in Turn : AgentEndsTurn(t))
  BY <1>10
  DEF AgentReads, AgentUpdates, AgentDies, Killed, AgentEndsTurn, runnerVars, turnVars, clientVars,
      RunnerMoves, Keeps
<1>11. CASE RegisterFails \/ UNCHANGED acpVars
  BY <1>11 DEF RegisterFails, acpVars, runnerVars, turnVars, clientVars, RunnerMoves, Keeps
<1> QED
  BY <1>1, <1>2, <1>3, <1>4, <1>5, <1>6, <1>7, <1>8, <1>9, <1>10, <1>11, SettleMoves DEF AcpNext

\* A turn leaves the queue with its fate, and none comes twice.
LEMMA QueuedKept ==
  ASSUME AcpInv, [AcpNext]_acpVars
  PROVE AcpQueued'
<1>0. AcpTypeOK /\ AcpQueued BY DEF AcpInv
<1>1. queue \in Seq(Turn) /\ fate \in [Turn -> {"none", "queued", "rejected"} \cup Replies]
  BY <1>0 DEF AcpTypeOK
<1>2. ASSUME NEW how, queue # <<>>, Leave(how) PROVE AcpQueued'
  <2>1. /\ \A i \in DOMAIN Tail(queue) : i + 1 \in DOMAIN queue /\ Tail(queue)[i] = queue[i + 1]
        /\ DOMAIN Tail(queue) \subseteq Nat \ {0} /\ 1 \in DOMAIN queue /\ Head(queue) = queue[1]
    BY <1>1, <1>2
  <2>2. \A i \in DOMAIN Tail(queue) : Tail(queue)[i] # Head(queue) /\ Tail(queue)[i] \in Turn
    BY <1>0, <1>1, <2>1 DEF AcpQueued
  <2>3. \A i, j \in DOMAIN Tail(queue) : Tail(queue)[i] = Tail(queue)[j] => i = j
    BY <1>0, <2>1 DEF AcpQueued
  <2>4. \A i \in DOMAIN Tail(queue) : fate'[Tail(queue)[i]] = "queued"
    BY <1>0, <1>1, <1>2, <2>1, <2>2 DEF AcpQueued, Leave, Ended
  <2> QED BY <1>2, <2>3, <2>4 DEF AcpQueued, Leave
<1>3. CASE Queues
  <2>1. PICK t \in Turn : fate[t] = "none" /\ queue' = Append(queue, t) /\ fate' = Ended(t, "queued")
    BY <1>3 DEF Queues
  <2>2. DOMAIN queue' = DOMAIN queue \cup {Len(queue) + 1} /\ queue'[Len(queue) + 1] = t
        /\ \A i \in DOMAIN queue : queue'[i] = queue[i] /\ queue[i] \in Turn
    BY <1>1, <2>1
  <2>3. \A i \in DOMAIN queue : queue[i] # t BY <1>0, <2>1 DEF AcpQueued
  <2> QED BY <1>0, <1>1, <2>1, <2>2, <2>3 DEF AcpQueued, Ended
<1>4. CASE UNCHANGED <<queue, fate>> BY <1>0, <1>4 DEF AcpQueued
<1> QED BY <1>2, <1>3, <1>4, StepMoves
        DEF RunnerMoves, Keeps, GoesQuiet, Skips, GivesUp, Completes, Sends, Opens, LogsIn,
            LosesSlot

\* A process is of one provider.
LEMMA ProviderKept ==
  ASSUME [AcpNext]_acpVars
  PROVE provider' = provider
  BY DEF AcpNext, Register, RegisterFails, Prompt, SkipTurn, RunTurn, Stop, Receive, Settle,
         HandshakeTimesOut, ExitSeen, KillTimer, AgentReads, AgentEndsTurn, AgentUpdates, AgentDies,
         Killed, SpawnFails, acpVars

\* The slot follows the stage.
LEMMA SlotKept ==
  ASSUME AcpInv, [AcpNext]_acpVars
  PROVE AcpSlot'
<1>0. AcpSlot BY DEF AcpInv
<1> QED BY <1>0, StepMoves, ProviderKept
        DEF AcpSlot, RunnerMoves, Keeps, GoesQuiet, Queues, Skips, GivesUp, Completes, Sends,
            Opens, LogsIn, LosesSlot, Leave

\* Nothing is handled before the registry write is over.
LEMMA FreshKept ==
  ASSUME AcpInv, [AcpNext]_acpVars
  PROVE DueIsFresh'
<1>0. DueIsFresh BY DEF AcpInv
<1>1. SUFFICES ASSUME registered' = "due"
               PROVE /\ registered = "due"
                     /\ UNCHANGED <<queue, stage, micro, hello, settled, fate>>
  BY <1>0 DEF DueIsFresh
<1>2. (~Ready /\ ~Waiting /\ micro = <<>>) \/ registered # "due"
  BY <1>0 DEF Ready, Waiting, DueIsFresh
<1>3. \/ /\ ~Receive /\ ~Settle /\ ~RunTurn /\ ~SkipTurn /\ ~Stop /\ ~HandshakeTimesOut /\ ~ExitSeen
         /\ ~KillTimer /\ ~SpawnFails /\ ~Register /\ ~RegisterFails /\ \A t \in Turn : ~Prompt(t)
      \/ registered # "due"
  BY <1>1, <1>2
  DEF Receive, Settle, Prompt, Stop, SkipTurn, RunTurn, HandshakeTimesOut, ExitSeen, KillTimer,
     SpawnFails, Register, RegisterFails
<1>4. registered' = registered \/ Register \/ RegisterFails
  BY DEF AcpNext, Prompt, SkipTurn, RunTurn, Stop, Receive, Settle,
         HandshakeTimesOut, ExitSeen, KillTimer, AgentReads, AgentEndsTurn, AgentUpdates, AgentDies,
         Killed, SpawnFails, acpVars, runnerVars
<1>5. registered = "due" BY <1>1, <1>4 DEF Register, RegisterFails
<1> QED
  BY <1>3, <1>5
  DEF AcpNext, AgentReads, AgentEndsTurn, AgentUpdates, AgentDies, Killed, acpVars, runnerVars,
           turnVars, clientVars

\* Only the end of a turn at the agent gives an answer.
LEMMA AnsweredSteps ==
  ASSUME AcpInv, [AcpNext]_acpVars
  PROVE \/ answered' = answered
        \/ /\ UNCHANGED <<runnerVars, clientVars, toAgent>>
           /\ \E t \in working, is \in Replies :
                answered' = [answered EXCEPT ![t] = is] /\ working' = working \ {t} /\ Says(Line("answer", t, is))
<1>1. CASE \E t \in Turn : AgentEndsTurn(t) BY <1>1 DEF AgentEndsTurn, Replies
<1> QED
  BY <1>1 DEF AcpNext, Register, RegisterFails, Prompt, SkipTurn, RunTurn, Stop, Receive, Settle,
         HandshakeTimesOut, ExitSeen, KillTimer, AgentReads, AgentUpdates, AgentDies,
         Killed, SpawnFails, acpVars, agentVars

\* A turn completes by the answer it was given, for the oldest promise is its own.
LEMMA RepliesStayOwn ==
  ASSUME AcpInv, [AcpNext]_acpVars
  PROVE RepliesAreOwn'
<1>0. AcpTypeOK /\ RepliesAreOwn /\ InOnePlace /\ ComesAsTold /\ AcpQueued BY DEF AcpInv
<1>1. /\ queue \in Seq(Turn) /\ fate \in [Turn -> {"none", "queued", "rejected"} \cup Replies]
      /\ working \subseteq Turn /\ answered \in [Turn -> {"none"} \cup Replies]
  BY <1>0 DEF AcpTypeOK
<1>2. CASE answered' # answered
  <2>1. PICK t \in working, is \in Replies : answered' = [answered EXCEPT ![t] = is]
    BY <1>2, AnsweredSteps
  <2>2. fate' = fate BY <1>2, AnsweredSteps DEF runnerVars, turnVars
  <2>3. fate[t] \notin {"completed", "cancelled"} BY <1>0, <1>1 DEF InOnePlace, Waits
  <2> QED BY <1>0, <1>1, <2>1, <2>2, <2>3 DEF RepliesAreOwn
<1>3. CASE answered' = answered /\ Completes
  <2>1. Head(queue) \in Turn BY <1>1, <1>3 DEF Completes
  <2>2. Head(micro) \in Held /\ Head(micro) \in AnswersTo(Head(queue))
    BY <1>3, HeldHead DEF Completes, AnswersTo
  <2>3. Head(micro).is = answered[Head(queue)] BY <1>0, <2>1, <2>2 DEF ComesAsTold
  <2>4. fate' = [fate EXCEPT ![Head(queue)] = Head(micro).is] BY <1>3 DEF Completes, Leave, Ended
  <2> QED BY <1>0, <1>1, <1>3, <2>1, <2>3, <2>4 DEF RepliesAreOwn
<1>4. CASE answered' = answered /\ ~Completes
  <2>1. \A t \in Turn : fate'[t] = fate[t] \/ fate'[t] \in {"queued", "rejected", "failed"}
    BY <1>1, <1>4, StepMoves
       DEF RunnerMoves, Keeps, GoesQuiet, Queues, Skips, GivesUp, Sends, Opens, LogsIn, LosesSlot,
           Leave, Ended
  <2> QED BY <1>0, <1>4, <2>1 DEF RepliesAreOwn
<1> QED BY <1>2, <1>3, <1>4

\* What is asked, by whom and when: never what is asked already.
AsksStep(of) ==
  /\ Ask(of) /\ hello' # "waiting"
  /\ \/ of \in {"session/new", "session/set_mode"} /\ opening' = of /\ opening # of
     \/ of = "authenticate" /\ stage = "opening" /\ stage' = "authenticating"
     \/ /\ of \in Turn /\ stage # "sent" /\ ~(stage = "idle" /\ settled) /\ queue # <<>> /\ of = Head(queue)
        /\ (Sends \/ (stage' = "idle" /\ settled' = TRUE))
Asks == AskNothing \/ \E of \in AcpRequest : AsksStep(of)

\* A turn is asked for as it is sent, a session as it is opened.
LEMMA SendAsks ==
  ASSUME AcpInv, NEW slot \in {"open", "failed"}, Send(slot), queue # <<>>, stage # "sent", ~settled,
         hello' # "waiting"
  PROVE Asks
<1>1. Head(queue) \in Turn /\ Head(queue) \in AcpRequest BY NoAcpClash DEF AcpInv, AcpTypeOK
<1>2. Ask(Head(queue)) BY DEF Send
<1>3. Sends \/ (stage' = "idle" /\ settled' = TRUE)
  BY SendMoves DEF Send, TurnReturns, TurnFails, FinishRun, Leave
<1>4. AsksStep(Head(queue)) BY <1>1, <1>2, <1>3 DEF AsksStep
<1> QED BY <1>1, <1>4 DEF Asks

LEMMA BeginAsks ==
  ASSUME AcpInv, Begin, queue # <<>>, stage \in {"idle", "authenticating"}, ~settled,
         hello' = hello
  PROVE Asks
<1>0. HelloFirst BY DEF AcpInv
<1>1. CASE acpSessionId
  <2>1. Send("open") /\ hello' # "waiting" BY <1>0, <1>1 DEF Begin, HelloFirst
  <2> QED BY <1>1, <2>1, SendAsks
<1>2. CASE ~acpSessionId /\ opening = "none" /\ hello = "done"
  <2>1. opening' = "session/new" /\ Ask(opening') BY <1>2 DEF Begin
  <2>2. Ask("session/new") BY <2>1
  <2>3. AsksStep("session/new") /\ "session/new" \in AcpRequest
    BY <1>2, <2>1, <2>2 DEF AsksStep, AcpRequest, Step
  <2> QED BY <2>3 DEF Asks
<1>3. CASE ~acpSessionId /\ ~(opening = "none" /\ hello = "done")
  BY <1>3 DEF Begin, Asks
<1> QED BY <1>1, <1>2, <1>3

LEMMA SettleAsks ==
  ASSUME AcpInv, Settle
  PROVE Asks
<1> DEFINE m == Head(micro)
<1>0. AcpTypeOK /\ AcpSlot /\ DueIsAwaited /\ HelloFirst BY DEF AcpInv
<1>1. m.of \in Due /\ m.of \in AcpRequest BY HeldHead DEF Settle
<1>2. PICK is : is = m.is OBVIOUS
<1> HIDE DEF m
<1>3. stage # "idle" => queue # <<>> BY <1>0 DEF AcpTypeOK
<1>4. settled /\ stage # "idle" => m.of = "initialize" /\ is # "ok" BY <1>2, SettleWhenSettled DEF m
<1>5. m.of # "initialize" /\ m.of \in Step => hello # "waiting"
  BY <1>0, <1>1 DEF HelloFirst, Due, AnswersTo
<1>6. ASSUME NEW of \in {"session/new", "session/set_mode"}, opening' = of, Ask(opening'),
             opening # of, hello' # "waiting"
      PROVE Asks
  <2>1. Ask(of) /\ of \in AcpRequest BY <1>6 DEF AcpRequest, Step
  <2> QED BY <1>6, <2>1 DEF Asks, AsksStep
<1>7. ASSUME m.of = "initialize", Initialized(is) PROVE Asks
  BY <1>6, <1>7 DEF Initialized, Asks
<1>8. ASSUME NotOpened(is), hello' = hello, m.of # "initialize", m.of \in Step PROVE Asks
  <2>1. CASE stage = "opening" /\ is = "auth" /\ provider.auth /\ ~tried
    <3>1. AsksStep("authenticate") /\ "authenticate" \in AcpRequest
      BY <1>5, <1>8, <2>1 DEF NotOpened, AsksStep, AcpRequest, Step
    <3> QED BY <3>1 DEF Asks
  <2>2. CASE ~(stage = "opening" /\ is = "auth" /\ provider.auth /\ ~tried)
    BY <1>8, <2>2 DEF NotOpened, Asks
  <2> QED BY <2>1, <2>2
<1>9. ASSUME Opened, hello' = hello, m.of # "initialize", m.of \in Step PROVE Asks
  <2>1. CASE stage # "opening" BY <1>9, <2>1 DEF Opened, Asks
  <2>2. CASE stage = "opening"
    <3>1. PICK slot \in {"open", "failed"} : slot = inFlight BY <1>0, <2>2 DEF AcpSlot
    <3>2. Send(slot) BY <1>9, <2>2, <3>1 DEF Opened
    <3> QED BY <1>3, <1>4, <1>5, <1>9, <2>2, <3>2, SendAsks
  <2> QED BY <2>1, <2>2
<1>10. ASSUME m.of = "session/new", SessionAnswered(is) PROVE Asks
  <2>1. m.of \in Step /\ opening = "session/new" BY <1>0, <1>1, <1>10 DEF Step, DueIsAwaited
  <2>2. CASE is # "ok" BY <1>8, <1>10, <2>1, <2>2 DEF SessionAnswered
  <2>3. CASE is = "ok" /\ provider.mode BY <1>5, <1>6, <1>10, <2>1, <2>3 DEF SessionAnswered
  <2>4. CASE is = "ok" /\ ~provider.mode BY <1>9, <1>10, <2>1, <2>4 DEF SessionAnswered
  <2> QED BY <2>2, <2>3, <2>4
<1>11. ASSUME m.of = "session/set_mode", ModeAnswered(is) PROVE Asks
  BY <1>8, <1>9, <1>11 DEF ModeAnswered, Step
<1>12. ASSUME m.of = "authenticate", Authenticated(is) PROVE Asks
  <2>1. stage = "authenticating" /\ ~settled /\ queue # <<>>
    BY <1>0, <1>1, <1>3, <1>4, <1>12 DEF DueIsAwaited
  <2> QED BY <1>12, <2>1, BeginAsks DEF Authenticated, Asks
<1>13. ASSUME m.of \in Turn, TurnAnswered(is) PROVE Asks BY <1>13 DEF TurnAnswered, Asks
<1> QED BY <1>2, <1>7, <1>10, <1>11, <1>12, <1>13 DEF Settle, m

\* The handshake is over when its promise has run, or the exit is seen.
LEMMA HelloMoves ==
  ASSUME AcpInv, [AcpNext]_acpVars
  PROVE /\ hello' = hello \/ hello' # "waiting"
        /\ hello' = hello \/ ExitSeen \/ (Settle /\ Head(micro).of = "initialize")
<1>1. CASE Settle
  BY <1>1, NoAcpClash
  DEF Settle, Step, Initialized, SessionAnswered, ModeAnswered, Authenticated, TurnAnswered
<1>2. CASE ~Settle
  BY <1>2 DEF AcpNext, Register, RegisterFails, Prompt, SkipTurn, RunTurn, Stop, Receive,
         HandshakeTimesOut, ExitSeen, KillTimer, AgentReads, AgentEndsTurn, AgentUpdates, AgentDies,
         Killed, SpawnFails, acpVars, clientVars
<1> QED BY <1>1, <1>2

\* The opening moves on when the answer it waits for does.
LEMMA OpeningMoves ==
  ASSUME AcpInv, [AcpNext]_acpVars
  PROVE \/ opening' = opening \/ ExitSeen
        \/ opening \in {"none", "initialize"}
        \/ (Settle /\ Head(micro).of = opening)
<1>0. DueIsAwaited /\ HelloFirst BY DEF AcpInv
<1>1. CASE Settle
  <2> DEFINE m == Head(micro)
  <2>1. m.of \in Due BY <1>1, HeldHead DEF Settle
  <2>2. PICK is : is = m.is OBVIOUS
  <2> HIDE DEF m
  <2>3. CASE m.of = "initialize" BY <1>0, <2>1, <2>3 DEF DueIsAwaited, HelloFirst
  <2>4. CASE m.of \in {"session/new", "session/set_mode"}
    BY <1>0, <1>1, <2>1, <2>4 DEF DueIsAwaited, m
  <2>5. CASE m.of = "authenticate" /\ Authenticated(is) BY <2>5 DEF Authenticated, Begin
  <2>6. CASE m.of \in Turn /\ TurnAnswered(is) BY <2>6 DEF TurnAnswered
  <2> QED BY <1>1, <2>2, <2>3, <2>4, <2>5, <2>6 DEF Settle, m
<1>2. CASE RunTurn BY <1>2 DEF RunTurn, Begin
<1>3. CASE ~Settle /\ ~RunTurn
  BY <1>3 DEF AcpNext, Register, RegisterFails, Prompt, SkipTurn, Stop, Receive,
         HandshakeTimesOut, ExitSeen, KillTimer, AgentReads, AgentEndsTurn, AgentUpdates, AgentDies,
         Killed, SpawnFails, acpVars, clientVars
<1> QED BY <1>1, <1>2, <1>3

\* So does the login.
LEMMA LoginMoves ==
  ASSUME AcpInv, [AcpNext]_acpVars, stage = "authenticating"
  PROVE stage' = "authenticating" \/ ExitSeen \/ (Settle /\ Head(micro).of = "authenticate")
<1>0. DueIsAwaited /\ HelloFirst /\ AcpSlot BY DEF AcpInv
<1>s. inFlight = "none" BY <1>0 DEF AcpSlot
<1>1. CASE Settle
  <2> DEFINE m == Head(micro)
  <2>1. m.of \in Due BY <1>1, HeldHead DEF Settle
  <2>2. PICK is : is = m.is OBVIOUS
  <2> HIDE DEF m
  <2>3. m.of # "initialize" BY <1>0, <2>1 DEF DueIsAwaited, HelloFirst
  <2>4. CASE SessionAnswered(is) \/ ModeAnswered(is)
    BY <2>4 DEF SessionAnswered, ModeAnswered, Opened, NotOpened, endVars, turnVars
  <2>5. CASE m.of = "authenticate" BY <1>1, <2>5 DEF m
  <2>6. CASE TurnAnswered(is) BY <1>s, <2>6 DEF TurnAnswered, turnVars
  <2> QED BY <1>1, <2>2, <2>3, <2>4, <2>5, <2>6 DEF Settle, m
<1>2. SlotFails => UNCHANGED turnVars BY <1>s DEF SlotFails
<1>3. ~RunTurn /\ ~SkipTurn BY DEF RunTurn, SkipTurn, Waiting
<1>4. CASE ~Settle /\ ~ExitSeen
  BY <1>2, <1>3, <1>4
  DEF AcpNext, Register, RegisterFails, Prompt, Stop, Receive, ReceiveUpdate, ReceiveAnswer,
         ReceiveFlood, HandshakeTimesOut, KillTimer, AgentReads, AgentEndsTurn, AgentUpdates, AgentDies,
         Killed, SpawnFails, acpVars, runnerVars, turnVars, endVars
<1> QED BY <1>1, <1>4

\* A request is answered: by a line, or by its time limit.
RequestAnswered(of, is) ==
  /\ of \in pending /\ pending' = pending \ {of} /\ micro' = Append(micro, Line("answer", of, is))
  /\ Line("answer", of, is) \in LineShape /\ UNCHANGED <<hello, opening, stage, toAgent>>
  /\ \/ Line("answer", of, is) \in Incoming /\ Line("answer", of, is) = Head(fromAgent) /\ Receive
     \/ of = "initialize" /\ is = "failed" /\ HandshakeTimesOut

\* What a step does to the requests and their promises.
LEMMA PendingMoves ==
  ASSUME AcpInv, [AcpNext]_acpVars
  PROVE \/ ExitSeen /\ pending' = {} /\ micro' = <<>> /\ UNCHANGED toAgent
        \/ Settle /\ micro' = Tail(micro) /\ Asks
        \/ RunTurn /\ micro' = micro /\ Asks
        \/ /\ ~Settle /\ ~RunTurn /\ ~ExitSeen
           /\ \E of \in AcpRequest, is \in {"ok", "failed", "auth"} \cup Replies \cup Chunk \cup {"tool", "usage", "plan"} :
                RequestAnswered(of, is)
        \/ UNCHANGED <<pending, micro>> /\ ~Settle /\ ~RunTurn /\ ~ExitSeen
<1>0. AcpTypeOK /\ AcpLines /\ DueIsFresh BY DEF AcpInv
<1>1. CASE Settle BY <1>1, SettleAsks DEF Settle
<1>2. CASE RunTurn /\ ~Settle
  <2>1. Begin /\ queue # <<>> /\ stage = "idle" /\ ~settled /\ hello' = hello
    BY <1>2 DEF RunTurn, Waiting
  <2> QED BY <1>2, <2>1, BeginAsks DEF RunTurn
<1>3. CASE ExitSeen /\ ~Settle BY <1>3 DEF ExitSeen, Ready
<1>4. CASE HandshakeTimesOut /\ ~Settle /\ ~RunTurn /\ ~ExitSeen
  <2>1. "initialize" \in AcpRequest /\ Line("answer", "initialize", "failed") \in LineShape
    BY DEF AcpRequest, Step, Line, LineShape
  <2>2. RequestAnswered("initialize", "failed")
    BY <1>4, <2>1 DEF HandshakeTimesOut, RequestAnswered, runnerVars, turnVars
  <2> QED BY <1>4, <2>1, <2>2
<1>5. CASE Receive /\ ~Settle /\ ~RunTurn /\ ~ExitSeen
  <2> DEFINE m == Head(fromAgent)
  <2>1. m \in LineShape /\ m \in Incoming
    BY <1>0, <1>5, MembersOfTail DEF Receive, AcpTypeOK, Incoming
  <2>2. CASE m.kind = "answer" /\ ReceiveAnswer(m.of, m.is)
    <3>1. m.of \in AcpRequest BY <1>0, <2>1, <2>2 DEF AcpLines
    <3>2. PICK of \in AcpRequest : of = m.of BY <3>1
    <3>3. PICK is \in {"ok", "failed", "auth"} \cup Replies \cup Chunk \cup {"tool", "usage", "plan"} : is = m.is
      BY <2>1 DEF LineShape
    <3>4. m = Line("answer", of, is) BY <2>1, <2>2, <3>2, <3>3 DEF Line, LineShape
    <3>5. CASE of \in pending
      <4>1. RequestAnswered(of, is)
        BY <1>5, <2>1, <2>2, <3>2, <3>3, <3>4, <3>5
        DEF Receive, ReceiveAnswer, RequestAnswered, turnVars
      <4> QED BY <1>5, <4>1
    <3>6. CASE of \notin pending BY <1>5, <2>2, <3>2, <3>3, <3>6 DEF ReceiveAnswer
    <3> QED BY <3>5, <3>6
  <2>3. CASE ReceiveUpdate(m.is) \/ ReceiveFlood
    BY <1>5, <2>3 DEF ReceiveUpdate, ReceiveFlood
  <2> QED BY <1>5, <2>2, <2>3 DEF Receive
<1>6. CASE ~Settle /\ ~RunTurn /\ ~ExitSeen /\ ~HandshakeTimesOut /\ ~Receive
  BY <1>6 DEF AcpNext, Register, RegisterFails, Prompt, SkipTurn, Stop,
         KillTimer, AgentReads, AgentEndsTurn, AgentUpdates, AgentDies,
         Killed, SpawnFails, acpVars, runnerVars, clientVars
<1> QED BY <1>1, <1>2, <1>3, <1>4, <1>5, <1>6

\* Nothing is asked while it is due.
LEMMA AskedIsNew ==
  ASSUME AcpInv, NEW of \in AcpRequest, AsksStep(of)
  PROVE of \notin {m.of : m \in Held}
<1>0. AcpTypeOK /\ AcpLines /\ DueIsAwaited /\ OneAbroad BY DEF AcpInv
<1>1. CASE of \notin Turn BY <1>0, <1>1 DEF AsksStep, DueIsAwaited, Due
<1>2. CASE of \in Turn
  <2>1. stage # "sent" /\ ~(stage = "idle" /\ settled) BY <1>2, NoAcpClash DEF AsksStep, Step
  <2>2. ~Comes(of) BY <1>0, <1>2, <2>1 DEF OneAbroad
  <2>3. \A m \in Held : m \in LineShape BY <1>0 DEF AcpTypeOK, Held, Members
  <2> QED BY <1>0, <2>2, <2>3 DEF Comes, AnswersTo, AcpLines
<1> QED BY <1>1, <1>2

\* A promise that has run is gone.
LEMMA HeldAfterSettle ==
  ASSUME AcpInv, Settle
  PROVE /\ Held' = Members(Tail(micro)) /\ Held = Held' \cup {Head(micro)}
        /\ Head(micro).of \notin {m.of : m \in Held'} /\ Head(micro).of \notin pending
        /\ \A of \in AcpRequest : OnceIn(micro', AnswersTo(of))
<1>0. AcpTypeOK /\ AcpLines /\ DueIsAwaited BY DEF AcpInv
<1>1. micro # <<>> /\ micro' = Tail(micro) BY DEF Settle
<1>2. Held' = Members(Tail(micro)) BY <1>1 DEF Held
<1>3. /\ Head(micro) \in LineShape /\ Head(micro) \in Held /\ Held = Members(Tail(micro)) \cup {Head(micro)}
      /\ Tail(micro) \in Seq(LineShape)
      /\ \A of \in AcpRequest : OnceIn(Tail(micro), AnswersTo(of))
      /\ AnswersTo(Head(micro).of) \cap Members(Tail(micro)) = {}
  BY <1>1, HeldHead
<1>4. \A m \in Held' : m \in LineShape /\ m.kind = "answer"
  BY <1>0, <1>2, <1>3 DEF AcpLines, Members
<1>5. Head(micro).of \notin {m.of : m \in Held'} BY <1>2, <1>3, <1>4 DEF AnswersTo
<1>6. Head(micro).of \notin pending BY <1>0, <1>3 DEF DueIsAwaited
<1> QED BY <1>1, <1>2, <1>3, <1>5, <1>6

\* A request has one promise at most, and none while it is pending.
LEMMA HeldStaysOnce ==
  ASSUME AcpInv, [AcpNext]_acpVars
  PROVE /\ \A of \in AcpRequest : OnceIn(micro', AnswersTo(of))
        /\ \A m \in Held' : m.of \notin pending'
        /\ \/ Due' = {} /\ ExitSeen
           \/ Settle /\ \A of \in Due' : (of \in Due /\ of # Head(micro).of) \/ AsksStep(of)
           \/ RunTurn /\ \A of \in Due' : of \in Due \/ AsksStep(of)
           \/ ~Settle /\ ~RunTurn /\ ~ExitSeen /\ Due' = Due
<1>0. AcpTypeOK /\ AcpLines /\ DueIsAwaited BY DEF AcpInv
<1>1. CASE ExitSeen /\ pending' = {} /\ micro' = <<>>
  BY <1>1 DEF OnceIn, Held, Members, Due
<1>2. CASE Settle /\ micro' = Tail(micro) /\ Asks
  <2>1. /\ Held = Held' \cup {Head(micro)} /\ Head(micro).of \notin {m.of : m \in Held'} /\ Head(micro).of \notin pending
        /\ \A of \in AcpRequest : OnceIn(micro', AnswersTo(of))
    BY <1>2, HeldAfterSettle
  <2>2. CASE AskNothing BY <1>0, <1>2, <2>1, <2>2 DEF AskNothing, DueIsAwaited, Due
  <2>3. ASSUME NEW of \in AcpRequest, AsksStep(of)
        PROVE /\ \A m \in Held' : m.of \notin pending'
              /\ \A a \in Due' : (a \in Due /\ a # Head(micro).of) \/ AsksStep(a)
    <3>1. pending' = pending \cup {of} /\ of \notin {m.of : m \in Held}
      BY <2>3, AskedIsNew DEF AsksStep, Ask
    <3> QED BY <1>0, <2>1, <2>3, <3>1 DEF DueIsAwaited, Due
  <2> QED BY <1>2, <2>1, <2>2, <2>3 DEF Asks
<1>3. CASE RunTurn /\ micro' = micro /\ Asks
  <2>1. Held' = Held BY <1>3 DEF Held
  <2>2. CASE AskNothing BY <1>0, <1>3, <2>1, <2>2 DEF AskNothing, DueIsAwaited, Due
  <2>3. ASSUME NEW of \in AcpRequest, AsksStep(of)
        PROVE /\ \A m \in Held' : m.of \notin pending'
              /\ \A a \in Due' : a \in Due \/ AsksStep(a)
    <3>1. pending' = pending \cup {of} /\ of \notin {m.of : m \in Held}
      BY <2>3, AskedIsNew DEF AsksStep, Ask
    <3> QED BY <1>0, <2>1, <2>3, <3>1 DEF DueIsAwaited, Due
  <2> QED BY <1>0, <1>3, <2>2, <2>3 DEF Asks, DueIsAwaited
<1>4. ASSUME NEW of \in AcpRequest, NEW is, RequestAnswered(of, is)
      PROVE /\ \A a \in AcpRequest : OnceIn(micro', AnswersTo(a))
            /\ \A m \in Held' : m.of \notin pending'
            /\ Due' = Due
  <2>1. micro \in Seq(LineShape) /\ Line("answer", of, is) \in LineShape
    BY <1>0, <1>4 DEF AcpTypeOK, RequestAnswered
  <2>2. Held' = Held \cup {Line("answer", of, is)}
    BY <1>4, <2>1, MembersOfAppend DEF RequestAnswered, Held
  <2>3. Line("answer", of, is).of = of BY DEF Line
  <2>4. of \notin {m.of : m \in Held} BY <1>0, <1>4 DEF RequestAnswered, DueIsAwaited
  <2>5. ASSUME NEW a \in AcpRequest PROVE OnceIn(micro', AnswersTo(a))
    <3>1. Line("answer", of, is) \in AnswersTo(a) => AnswersTo(a) \cap Members(micro) = {}
      BY <2>3, <2>4 DEF AnswersTo, Held
    <3>2. OnceIn(micro, AnswersTo(a)) BY <1>0 DEF DueIsAwaited
    <3>3. OnceIn(Append(micro, Line("answer", of, is)), AnswersTo(a))
      BY <2>1, <3>1, <3>2, OnceInAppend
    <3> QED BY <1>4, <3>3 DEF RequestAnswered
  <2>6. \A m \in Held' : m.of \notin pending'
    BY <1>0, <1>4, <2>2, <2>3 DEF RequestAnswered, DueIsAwaited
  <2>7. Due' = Due BY <1>4, <2>2, <2>3 DEF RequestAnswered, Due
  <2> QED BY <2>5, <2>6, <2>7
<1>6. CASE UNCHANGED <<pending, micro>> /\ ~Settle /\ ~RunTurn /\ ~ExitSeen
  BY <1>0, <1>6 DEF DueIsAwaited, Due, Held
<1> QED BY <1>1, <1>2, <1>3, <1>4, <1>6, PendingMoves

\* Whatever is due is waited for.
LEMMA AwaitedKept ==
  ASSUME AcpInv, [AcpNext]_acpVars
  PROVE DueIsAwaited'
<1>0. DueIsAwaited /\ HelloFirst BY DEF AcpInv
<1>1. CASE Due' = {} BY <1>1, HeldStaysOnce DEF DueIsAwaited
<1>2. CASE Due' # {}
  <2>1. ~(Settle /\ ExitSeen) /\ ~(RunTurn /\ ExitSeen) /\ ~(RunTurn /\ Settle)
    BY DEF Settle, ExitSeen, RunTurn, Ready, Waiting
  <2>2. /\ ~ExitSeen
        /\ \A of \in Due' : (of \in Due /\ ~(Settle /\ of = Head(micro).of)) \/ AsksStep(of)
    BY <1>2, <2>1, HeldStaysOnce
  <2>5. "initialize" \in Due' => hello' = "waiting"
    <3>1. ~AsksStep("initialize") BY NoAcpClash DEF AsksStep, Step
    <3> QED BY <1>0, <2>2, <3>1, HelloMoves DEF DueIsAwaited
  <2>6. ASSUME NEW of \in {"session/new", "session/set_mode"}, of \in Due' PROVE opening' = of
    <3>1. CASE AsksStep(of) BY <3>1, NoAcpClash DEF AsksStep, Step
    <3>2. CASE of \in Due /\ ~(Settle /\ of = Head(micro).of)
      <4>1. opening = of BY <1>0, <3>2 DEF DueIsAwaited
      <4> QED BY <2>2, <3>2, <4>1, OpeningMoves
    <3> QED BY <2>2, <2>6, <3>1, <3>2
  <2>7. "authenticate" \in Due' => stage' = "authenticating"
    <3>1. CASE AsksStep("authenticate") BY <3>1, NoAcpClash DEF AsksStep, Step
    <3>2. CASE "authenticate" \in Due /\ ~(Settle /\ "authenticate" = Head(micro).of)
      <4>1. stage = "authenticating" BY <1>0, <3>2 DEF DueIsAwaited
      <4> QED BY <2>2, <3>2, <4>1, LoginMoves
    <3> QED BY <2>2, <3>1, <3>2
  <2> QED BY <2>5, <2>6, <2>7, HeldStaysOnce DEF DueIsAwaited
<1> QED BY <1>1, <1>2

\* What the agent reads leaves the pipe, and is a turn or a step of the opening.
LEMMA AgentReadsMoves ==
  ASSUME AcpInv, AgentReads
  PROVE /\ toAgent # <<>> /\ toAgent' = Tail(toAgent) /\ Outgoing = Outgoing' \cup {Head(toAgent)}
        /\ Head(toAgent) \in AcpRequest
        /\ \A t \in Turn : OnceIn(toAgent', {t}) /\ (t = Head(toAgent) => t \notin Outgoing')
        /\ \/ /\ Head(toAgent) \in Turn /\ working' = working \cup {Head(toAgent)}
              /\ UNCHANGED <<fromAgent, moded>>
           \/ /\ Head(toAgent) \in Step /\ UNCHANGED working
              /\ \E is \in AgentAnswers(Head(toAgent)) :
                   /\ Line("answer", Head(toAgent), is) \in LineShape
                   /\ Says(Line("answer", Head(toAgent), is))
                   /\ moded' = (moded \/ (Head(toAgent) = "session/set_mode" /\ is = "ok"))
<1>0. AcpTypeOK /\ InOnePlace BY DEF AcpInv
<1>1. toAgent # <<>> /\ toAgent' = Tail(toAgent) /\ toAgent \in Seq(AcpRequest)
  BY <1>0 DEF AgentReads, AcpTypeOK
<1>2. Outgoing = Outgoing' \cup {Head(toAgent)} /\ Head(toAgent) \in AcpRequest
  BY <1>1, MembersOfTail DEF Outgoing
<1>3. ASSUME NEW t \in Turn PROVE OnceIn(toAgent', {t}) /\ (t = Head(toAgent) => t \notin Outgoing')
  <2>1. OnceIn(toAgent, {t}) BY <1>0 DEF InOnePlace
  <2>2. OnceIn(Tail(toAgent), {t}) /\ (Head(toAgent) \in {t} => {t} \cap Members(Tail(toAgent)) = {})
    BY <1>1, <2>1, OnceInTail
  <2> QED BY <1>1, <2>2 DEF Outgoing
<1>4. CASE Head(toAgent) \in Turn
  <2>1. Head(toAgent) \notin Step BY <1>4, NoAcpClash
  <2> QED BY <1>1, <1>2, <1>3, <1>4, <2>1 DEF AgentReads
<1>5. CASE Head(toAgent) \notin Turn
  <2>1. PICK is \in AgentAnswers(Head(toAgent)) :
          /\ Says(Line("answer", Head(toAgent), is))
          /\ moded' = (moded \/ (Head(toAgent) = "session/set_mode" /\ is = "ok"))
    BY <1>5 DEF AgentReads
  <2>2. is \in {"ok", "failed", "auth"} BY DEF AgentAnswers
  <2>3. Line("answer", Head(toAgent), is) \in LineShape BY <1>2, <2>2 DEF Line, LineShape
  <2>4. Head(toAgent) \in Step /\ UNCHANGED working BY <1>5 DEF AgentReads
  <2> QED BY <1>1, <1>2, <1>3, <2>1, <2>3, <2>4
<1> QED BY <1>4, <1>5

\* What it says is in the other pipe.
LEMMA SaysMoves ==
  ASSUME AcpInv, NEW m \in LineShape, Says(m)
  PROVE Incoming' = Incoming \cup {m}
<1>1. fromAgent \in Seq(LineShape) BY DEF AcpInv, AcpTypeOK
<1> QED BY <1>1, MembersOfAppend DEF Incoming, Says

\* What the client hears leaves that one, and becomes a promise at most.
LEMMA ReceiveMoves ==
  ASSUME AcpInv, Receive
  PROVE /\ fromAgent # <<>> /\ fromAgent' = Tail(fromAgent)
        /\ Head(fromAgent) \in LineShape /\ Incoming = Incoming' \cup {Head(fromAgent)}
        /\ \A t \in Turn : /\ OnceIn(fromAgent', AnswersTo(t))
                           /\ Head(fromAgent) \in AnswersTo(t) => AnswersTo(t) \cap Incoming' = {}
        /\ Held' \subseteq Held \cup {Head(fromAgent)}
<1>0. AcpTypeOK /\ InOnePlace BY DEF AcpInv
<1>1. fromAgent # <<>> /\ fromAgent' = Tail(fromAgent) /\ fromAgent \in Seq(LineShape)
  BY <1>0 DEF Receive, AcpTypeOK
<1>2. Head(fromAgent) \in LineShape /\ Incoming = Incoming' \cup {Head(fromAgent)}
  BY <1>1, MembersOfTail DEF Incoming
<1>3. ASSUME NEW t \in Turn
      PROVE OnceIn(fromAgent', AnswersTo(t)) /\ (Head(fromAgent) \in AnswersTo(t) => AnswersTo(t) \cap Incoming' = {})
  <2>1. OnceIn(fromAgent, AnswersTo(t)) BY <1>0 DEF InOnePlace
  <2>2. OnceIn(Tail(fromAgent), AnswersTo(t))
        /\ (Head(fromAgent) \in AnswersTo(t) => AnswersTo(t) \cap Members(Tail(fromAgent)) = {})
    BY <1>1, <2>1, OnceInTail
  <2> QED BY <1>1, <2>2 DEF Incoming
<1> DEFINE m == Head(fromAgent)
<1>4. \/ m.kind = "update" /\ ReceiveUpdate(m.is)
      \/ m.kind = "answer" /\ ReceiveAnswer(m.of, m.is)
      \/ m.kind = "flood" /\ ReceiveFlood
  BY DEF Receive
<1>5. m \in LineShape BY <1>2
<1> HIDE DEF m
<1>6. Held' \subseteq Held \cup {m}
  <2>1. micro \in Seq(LineShape) BY <1>0 DEF AcpTypeOK
  <2>2. ReceiveUpdate(m.is) => micro' = micro BY DEF ReceiveUpdate
  <2>3. ReceiveFlood => micro' = micro BY DEF ReceiveFlood
  <2>4. ASSUME m.kind = "answer", ReceiveAnswer(m.of, m.is)
        PROVE micro' = micro \/ micro' = Append(micro, m)
    <3>1. m = Line("answer", m.of, m.is) BY <1>5, <2>4 DEF Line, LineShape
    <3> QED BY <2>4, <3>1 DEF ReceiveAnswer
  <2>5. CASE micro' = micro BY <2>5 DEF Held
  <2>6. CASE micro' = Append(micro, m) BY <1>5, <2>1, <2>6, MembersOfAppend DEF Held
  <2> QED BY <1>4, <2>2, <2>3, <2>4, <2>5, <2>6
<1>7. Held' \subseteq Held \cup {Head(fromAgent)} BY <1>6 DEF m
<1> QED BY <1>1, <1>2, <1>3, <1>7

\* What the client asks is in the first.
LEMMA AskMoves ==
  ASSUME AcpInv, Asks
  PROVE \/ UNCHANGED toAgent
        \/ \E of \in AcpRequest : AsksStep(of) /\ toAgent' = Append(toAgent, of) /\ Outgoing' = Outgoing \cup {of}
<1>1. toAgent \in Seq(AcpRequest) BY DEF AcpInv, AcpTypeOK
<1>2. ASSUME NEW of \in AcpRequest, AsksStep(of)
      PROVE toAgent' = Append(toAgent, of) /\ Outgoing' = Outgoing \cup {of}
  <2>1. toAgent' = Append(toAgent, of) BY <1>2 DEF AsksStep, Ask
  <2> QED BY <1>1, <2>1, MembersOfAppend DEF Outgoing
<1> QED BY <1>2 DEF Asks, AskNothing

\* A handshake that timed out has failed.
LEMMA HandshakeMoves ==
  ASSUME AcpInv, HandshakeTimesOut
  PROVE Held' = Held \cup {Line("answer", "initialize", "failed")}
<1>1. micro \in Seq(LineShape) BY DEF AcpInv, AcpTypeOK
<1>2. Line("answer", "initialize", "failed") \in LineShape BY DEF Line, LineShape, AcpRequest, Step
<1> QED BY <1>1, <1>2, MembersOfAppend DEF Held, HandshakeTimesOut

\* An update is no answer.
LEMMA UpdateSaid ==
  ASSUME AcpInv, AgentUpdates
  PROVE \E m \in LineShape : Says(m) /\ m.kind # "answer" /\ (m.kind = "update" => m.is \in Update)
<1>1. \A kind \in Update : /\ Line("update", "session/update", kind) \in LineShape
                           /\ Line("update", "session/update", kind).kind # "answer"
                           /\ Line("update", "session/update", kind).is = kind
  BY AcpAssumption DEF Line, LineShape
<1>2. /\ Line("flood", "session/update", "usage") \in LineShape
      /\ Line("flood", "session/update", "usage").kind = "flood"
  BY DEF Line, LineShape
<1> QED BY <1>1, <1>2 DEF AgentUpdates

\* Where a turn is after a step: where it was, one place on, or sent just now.
InPlace(t) ==
  /\ t \in Outgoing' => t \in Outgoing
  /\ t \in working' => t \in working
  /\ AnswersTo(t) \cap Incoming' \subseteq AnswersTo(t) \cap Incoming
  /\ AnswersTo(t) \cap Held' \subseteq AnswersTo(t) \cap Held
  /\ answered'[t] = answered[t]
IsRead(t) ==
  /\ t \in Outgoing /\ t \notin Outgoing' /\ UNCHANGED <<micro, fromAgent, answered, fate>>
IsAnswered(t) ==
  /\ t \in working /\ t \notin working' /\ UNCHANGED <<toAgent, micro, fate>>
  /\ \E is \in Replies : answered'[t] = is /\ Incoming' = Incoming \cup {Line("answer", t, is)}
IsHeard(t) ==
  /\ AnswersTo(t) \cap Incoming # {} /\ AnswersTo(t) \cap Incoming' = {}
  /\ AnswersTo(t) \cap Held' \subseteq AnswersTo(t) \cap (Held \cup Incoming)
  /\ UNCHANGED <<toAgent, working, answered, fate>>
IsSent(t) ==
  /\ AsksStep(t) /\ t \in Outgoing'
  /\ t \in working' => t \in working
  /\ AnswersTo(t) \cap Incoming' \subseteq AnswersTo(t) \cap Incoming
  /\ AnswersTo(t) \cap Held' \subseteq AnswersTo(t) \cap Held
  /\ answered'[t] = answered[t]

\* No step does anything else to a turn's place.
LEMMA TurnMoves ==
  ASSUME AcpInv, [AcpNext]_acpVars, NEW t \in Turn
  PROVE InPlace(t) \/ IsRead(t) \/ IsAnswered(t) \/ IsHeard(t) \/ IsSent(t)
<1>0. AcpTypeOK /\ AcpLines BY DEF AcpInv
<1>1. CASE AgentReads
  <2>0. UNCHANGED <<answered, micro, fate>> BY <1>1 DEF AgentReads, clientVars, runnerVars, turnVars
  <2>1. CASE Head(toAgent) \in Turn /\ working' = working \cup {Head(toAgent)} /\ UNCHANGED fromAgent
    BY <2>0, <1>1, <2>1, AgentReadsMoves DEF IsRead, InPlace, Incoming, Held
  <2>2. CASE Head(toAgent) \in Step /\ UNCHANGED working
    <3>1. PICK is : /\ Line("answer", Head(toAgent), is) \in LineShape
                    /\ Says(Line("answer", Head(toAgent), is))
      BY <1>1, <2>2, AgentReadsMoves, NoAcpClash
    <3>2. PICK m \in LineShape : m = Line("answer", Head(toAgent), is) BY <3>1
    <3>3. Incoming' = Incoming \cup {m} BY <3>1, <3>2, SaysMoves
    <3>4. m \notin AnswersTo(t) BY <2>2, <3>2, NoAcpClash DEF AnswersTo, Line
    <3> QED BY <2>0, <1>1, <2>2, <3>3, <3>4, AgentReadsMoves DEF InPlace, Held
  <2> QED BY <1>1, <2>1, <2>2, AgentReadsMoves
<1>2. ASSUME NEW u \in Turn, AgentEndsTurn(u) PROVE InPlace(t) \/ IsAnswered(t)
  <2>0. UNCHANGED <<toAgent, micro, fate>>
    BY <1>2 DEF AgentEndsTurn, clientVars, runnerVars, turnVars
  <2>1. PICK is \in Replies : answered' = [answered EXCEPT ![u] = is] /\ Says(Line("answer", u, is))
    BY <1>2 DEF AgentEndsTurn, Replies
  <2>2. Line("answer", u, is) \in LineShape BY NoAcpClash DEF Line, LineShape
  <2>3. Incoming' = Incoming \cup {Line("answer", u, is)} BY <2>1, <2>2, SaysMoves
  <2>4. u \in working /\ working' = working \ {u} /\ answered \in [Turn -> {"none"} \cup Replies]
    BY <1>0, <1>2 DEF AgentEndsTurn, AcpTypeOK
  <2>5. CASE t = u BY <2>0, <2>1, <2>3, <2>4, <2>5 DEF IsAnswered
  <2>6. CASE t # u
    <3>1. Line("answer", u, is) \notin AnswersTo(t) BY <2>6 DEF Line, AnswersTo
    <3> QED BY <2>0, <2>1, <2>3, <2>4, <2>6, <3>1 DEF InPlace, Held, Outgoing
  <2> QED BY <2>5, <2>6
<1>3. CASE AgentUpdates
  <2>0. UNCHANGED <<toAgent, micro, working, answered>> BY <1>3 DEF AgentUpdates, clientVars
  <2>1. PICK m \in LineShape : Says(m) /\ m.kind # "answer" BY <1>3, UpdateSaid
  <2>2. Incoming' = Incoming \cup {m} BY <2>1, SaysMoves
  <2> QED BY <2>0, <2>1, <2>2 DEF InPlace, AnswersTo, Held, Outgoing
<1>4. CASE Receive
  <2>0. UNCHANGED <<toAgent, working, answered>> BY <1>4 DEF Receive, agentVars
  <2>1. CASE Head(fromAgent) \in AnswersTo(t)
    <3>1. Head(fromAgent).kind = "answer" BY <2>1 DEF AnswersTo
    <3>2. fate' = fate BY <1>4, <3>1 DEF Receive, ReceiveAnswer, turnVars
    <3> QED BY <1>4, <2>0, <2>1, <3>2, ReceiveMoves DEF IsHeard
  <2>2. CASE Head(fromAgent) \notin AnswersTo(t)
    BY <1>4, <2>0, <2>2, ReceiveMoves DEF InPlace, Outgoing
  <2> QED BY <2>1, <2>2
<1>5. CASE Settle \/ RunTurn
  <2>0. UNCHANGED <<working, answered, fromAgent>> BY <1>5 DEF Settle, RunTurn, agentVars
  <2>1. Held' \subseteq Held BY <1>5, HeldAfterSettle DEF RunTurn, Held
  <2>2. Asks
    <3>1. CASE Settle BY <3>1, SettleAsks
    <3>2. CASE RunTurn BY <3>2, BeginAsks DEF RunTurn, Waiting
    <3> QED BY <1>5, <3>1, <3>2
  <2>3. CASE UNCHANGED toAgent BY <2>0, <2>1, <2>3 DEF InPlace, Incoming, Outgoing
  <2>4. ASSUME NEW of \in AcpRequest, AsksStep(of), Outgoing' = Outgoing \cup {of}
        PROVE InPlace(t) \/ IsSent(t)
    BY <2>0, <2>1, <2>4 DEF InPlace, IsSent, Incoming
  <2> QED BY <2>2, <2>3, <2>4, AskMoves
<1>6. CASE HandshakeTimesOut
  <2>1. Line("answer", "initialize", "failed") \notin AnswersTo(t)
    BY NoAcpClash DEF Line, AnswersTo, Step
  <2> QED
    BY <1>6, <2>1, HandshakeMoves DEF HandshakeTimesOut, InPlace, agentVars, Incoming, Outgoing
<1>7. CASE ~AgentReads /\ (\A u \in Turn : ~AgentEndsTurn(u)) /\ ~AgentUpdates /\ ~Receive /\ ~Settle /\ ~RunTurn
           /\ ~HandshakeTimesOut
  <2>1. UNCHANGED <<toAgent, working, fromAgent, micro, answered>>
    BY <1>7
    DEF AcpNext, Register, RegisterFails, Prompt, SkipTurn, Stop, ExitSeen, KillTimer, AgentDies,
         Killed, SpawnFails, acpVars, clientVars, agentVars
  <2> QED BY <2>1 DEF InPlace, Outgoing, Incoming, Held
<1> QED BY <1>1, <1>2, <1>3, <1>4, <1>5, <1>6, <1>7

\* A turn is sent only when no other is abroad: it leaves with its answer, or ends the session.
LEMMA OneAbroadKept ==
  ASSUME AcpInv, [AcpNext]_acpVars
  PROVE OneAbroad'
<1>0. AcpTypeOK /\ OneAbroad /\ InOnePlace /\ AcpLines BY DEF AcpInv
<1> SUFFICES ASSUME NEW t \in Turn, (Waits(t) \/ Comes(t))'
             PROVE (stage' = "sent" /\ t = Head(queue')) \/ (stage' = "idle" /\ settled')
  BY DEF OneAbroad
<1>q. queue \in Seq(Turn) BY <1>0 DEF AcpTypeOK
<1>1. CASE IsSent(t)
  <2>1. t = Head(queue) /\ (Sends \/ (stage' = "idle" /\ settled' = TRUE))
    BY <1>1, NoAcpClash DEF IsSent, AsksStep, Step
  <2> QED BY <2>1 DEF Sends
<1>2. CASE ~IsSent(t)
  <2>1. Waits(t) \/ Comes(t)
    BY <1>2, TurnMoves DEF InPlace, IsRead, IsAnswered, IsHeard, Waits, Comes
  <2>2. (stage = "sent" /\ t = Head(queue)) \/ (stage = "idle" /\ settled)
    BY <1>0, <2>1 DEF OneAbroad
  <2>3. CASE Completes
    <3>1. stage = "sent" /\ t = Head(queue) /\ micro # <<>> BY <2>2, <2>3 DEF Completes
    <3>2. Head(micro) \in Held /\ Head(micro) \in AnswersTo(t)
      BY <2>3, <3>1, HeldHead DEF Completes, AnswersTo
    <3>3. ~Waits(t) /\ AnswersTo(t) \cap Incoming = {} BY <1>0, <3>2 DEF InOnePlace, Comes
    <3>6. AnswersTo(t) \cap Held' = {}
      <4>1. Settle /\ Head(micro).of = t BY <2>3, <3>1 DEF Completes
      <4>2. t \notin {m.of : m \in Held'} BY <4>1, HeldAfterSettle
      <4> QED BY <4>2 DEF AnswersTo
    <3>7. ~IsRead(t) /\ ~IsAnswered(t) BY <3>3 DEF IsRead, IsAnswered, Waits
    <3>8. InPlace(t) \/ IsHeard(t) BY <1>2, <3>7, TurnMoves
    <3> QED BY <3>3, <3>6, <3>8 DEF InPlace, IsHeard, Waits, Comes
  <2>4. CASE ~Completes
    <3>1. CASE Queues
      <4>1. PICK u \in Turn : queue' = Append(queue, u) BY <3>1 DEF Queues
      <4>2. stage = "sent" => queue # <<>> BY <1>0 DEF AcpTypeOK
      <4>3. queue # <<>> => Head(queue') = Head(queue) BY <1>q, <4>1
      <4> QED BY <2>2, <3>1, <4>2, <4>3 DEF Queues
    <3>2. CASE ~Queues
      BY <2>2, <2>4, <3>2, StepMoves
         DEF RunnerMoves, Keeps, GoesQuiet, Skips, GivesUp, Sends, Opens, LogsIn, LosesSlot, Leave
    <3> QED BY <3>1, <3>2
  <2> QED BY <2>3, <2>4
<1> QED BY <1>1, <1>2

\* It is sent once and answered once.
LEMMA OnceKept ==
  ASSUME AcpInv, [AcpNext]_acpVars, NEW t \in Turn
  PROVE OnceIn(toAgent', {t}) /\ OnceIn(fromAgent', AnswersTo(t))
<1>0. AcpTypeOK /\ OneAbroad /\ InOnePlace /\ AcpLines BY DEF AcpInv
<1>1. toAgent \in Seq(AcpRequest) /\ fromAgent \in Seq(LineShape) BY <1>0 DEF AcpTypeOK
<1>2. OnceIn(toAgent, {t}) /\ OnceIn(fromAgent, AnswersTo(t)) BY <1>0 DEF InOnePlace
<1>3. OnceIn(toAgent', {t})
  <2>1. CASE AgentReads BY <2>1, AgentReadsMoves
  <2>2. CASE Settle \/ RunTurn
    <3>1. Asks
      <4>1. CASE Settle BY <4>1, SettleAsks
      <4>2. CASE RunTurn BY <4>2, BeginAsks DEF RunTurn, Waiting
      <4> QED BY <2>2, <4>1, <4>2
    <3>2. CASE UNCHANGED toAgent BY <1>2, <3>2
    <3>3. ASSUME NEW of \in AcpRequest, AsksStep(of), toAgent' = Append(toAgent, of)
          PROVE OnceIn(toAgent', {t})
      <4>1. of = t => ~Waits(t)
        BY <1>0, <3>3, NoAcpClash DEF OneAbroad, AsksStep, Step
      <4>2. of \in {t} => {t} \cap Members(toAgent) = {} BY <4>1 DEF Waits, Outgoing
      <4> QED BY <1>1, <1>2, <3>3, <4>2, OnceInAppend
    <3> QED BY <3>1, <3>2, <3>3, AskMoves
  <2>3. CASE ~AgentReads /\ ~Settle /\ ~RunTurn
    <3>1. UNCHANGED toAgent
      BY <2>3
      DEF AcpNext, Register, RegisterFails, Prompt, SkipTurn, Stop, ExitSeen, KillTimer, AgentDies,
          Receive,
         HandshakeTimesOut, AgentEndsTurn, AgentUpdates, Killed, SpawnFails, acpVars
    <3> QED BY <1>2, <3>1
  <2> QED BY <2>1, <2>2, <2>3
<1>4. OnceIn(fromAgent', AnswersTo(t))
  <2>1. ASSUME NEW m \in LineShape, Says(m), m \in AnswersTo(t) => ~Comes(t)
        PROVE OnceIn(fromAgent', AnswersTo(t))
    <3>1. m \in AnswersTo(t) => AnswersTo(t) \cap Members(fromAgent) = {}
      BY <2>1 DEF Comes, Incoming
    <3>2. OnceIn(Append(fromAgent, m), AnswersTo(t)) BY <1>1, <1>2, <3>1, OnceInAppend
    <3> QED BY <2>1, <3>2 DEF Says
  <2>2. CASE AgentReads
    <3>1. CASE UNCHANGED fromAgent BY <1>2, <3>1
    <3>2. CASE Head(toAgent) \in Step /\ \E is \in AgentAnswers(Head(toAgent)) :
                   /\ Line("answer", Head(toAgent), is) \in LineShape
                   /\ Says(Line("answer", Head(toAgent), is))
      <4>1. PICK m \in LineShape : Says(m) /\ m.of \in Step BY <3>2 DEF Line
      <4> QED BY <2>1, <4>1, NoAcpClash DEF AnswersTo
    <3> QED BY <2>2, <3>1, <3>2, AgentReadsMoves
  <2>3. ASSUME NEW u \in Turn, AgentEndsTurn(u) PROVE OnceIn(fromAgent', AnswersTo(t))
    <3>1. PICK is \in Replies : Says(Line("answer", u, is)) BY <2>3 DEF AgentEndsTurn, Replies
    <3>2. Line("answer", u, is) \in LineShape BY NoAcpClash DEF Line, LineShape
    <3>3. u \in working BY <2>3 DEF AgentEndsTurn
    <3>4. Line("answer", u, is) \in AnswersTo(t) => ~Comes(t)
      BY <1>0, <3>3 DEF AnswersTo, Line, InOnePlace, Waits
    <3> QED BY <2>1, <3>1, <3>2, <3>4
  <2>4. CASE AgentUpdates
    <3>1. PICK m \in LineShape : Says(m) /\ m.kind # "answer" BY <2>4, UpdateSaid
    <3> QED BY <2>1, <3>1 DEF AnswersTo
  <2>5. CASE Receive BY <2>5, ReceiveMoves
  <2>6. CASE ~AgentReads /\ (\A u \in Turn : ~AgentEndsTurn(u)) /\ ~AgentUpdates /\ ~Receive
    <3>1. UNCHANGED fromAgent
      BY <2>6
      DEF AcpNext, Register, RegisterFails, Prompt, SkipTurn, RunTurn, Stop, Settle, ExitSeen,
          KillTimer, AgentDies,
         HandshakeTimesOut, Killed, SpawnFails, acpVars, clientVars
    <3> QED BY <1>2, <3>1
  <2> QED BY <2>2, <2>3, <2>4, <2>5, <2>6
<1> QED BY <1>3, <1>4

\* A turn completes, or is cancelled, by its answer only.
LEMMA FateMoves ==
  ASSUME AcpInv, [AcpNext]_acpVars, NEW t \in Turn, fate'[t] \in {"completed", "cancelled"}
  PROVE fate[t] = fate'[t] \/ (Completes /\ t = Head(queue))
<1>0. fate \in [Turn -> {"none", "queued", "rejected"} \cup Replies] BY DEF AcpInv, AcpTypeOK
<1> QED BY <1>0, StepMoves
           DEF RunnerMoves, Keeps, GoesQuiet, Queues, Skips, GivesUp, Completes, Sends, Opens,
               LogsIn, LosesSlot, Leave, Ended

\* So each turn stays in one place, and its answer is the agent's.
LEMMA InOnePlaceKept ==
  ASSUME AcpInv, [AcpNext]_acpVars
  PROVE InOnePlace' /\ ComesAsTold'
<1>0. AcpTypeOK /\ OneAbroad /\ InOnePlace /\ AcpLines /\ ComesAsTold /\ RepliesAreOwn /\ AcpQueued
  BY DEF AcpInv
<1>1. ASSUME NEW t \in Turn
      PROVE /\ ~(t \in Outgoing' /\ t \in working')
            /\ Waits(t)' => ~Comes(t)'
            /\ Waits(t)' => fate'[t] \notin {"completed", "cancelled"}
            /\ ~(AnswersTo(t) \cap Incoming' # {} /\ AnswersTo(t) \cap Held' # {})
            /\ \A m \in AnswersTo(t) \cap (Incoming' \cup Held') : m.is = answered'[t] /\ m.is \in Replies
  <2>1. /\ ~(t \in Outgoing /\ t \in working) /\ (Waits(t) => ~Comes(t))
        /\ Waits(t) => fate[t] \notin {"completed", "cancelled"}
        /\ ~(AnswersTo(t) \cap Incoming # {} /\ AnswersTo(t) \cap Held # {})
        /\ \A m \in AnswersTo(t) \cap (Incoming \cup Held) : m.is = answered[t] /\ m.is \in Replies
    BY <1>0 DEF InOnePlace, ComesAsTold
  <2>2. Completes /\ t = Head(queue) => ~Waits(t)
    <3>1. ASSUME Completes, t = Head(queue) PROVE Comes(t)
      <4>1. Head(micro) \in Held /\ Head(micro) \in AnswersTo(t)
        BY <3>1, HeldHead DEF Completes, AnswersTo
      <4> QED BY <4>1 DEF Comes
    <3> QED BY <2>1, <3>1
  <2>3. Waits(t) => fate'[t] \notin {"completed", "cancelled"} BY <2>1, <2>2, FateMoves
  <2>4. CASE InPlace(t) BY <2>1, <2>3, <2>4 DEF InPlace, Waits, Comes
  <2>5. CASE IsRead(t)
    <3>1. Incoming' = Incoming /\ Held' = Held BY <2>5 DEF IsRead, Incoming, Held
    <3> QED BY <2>1, <2>3, <2>5, <3>1 DEF IsRead, Waits, Comes
  <2>6. CASE IsAnswered(t)
    <3>1. Outgoing' = Outgoing /\ Held' = Held BY <2>6 DEF IsAnswered, Outgoing, Held
    <3>2. PICK is \in Replies : answered'[t] = is /\ Incoming' = Incoming \cup {Line("answer", t, is)}
      BY <2>6 DEF IsAnswered
    <3>3. ~Comes(t) /\ t \notin Outgoing /\ t \notin working' BY <2>1, <2>6 DEF IsAnswered, Waits
    <3> QED BY <3>1, <3>2, <3>3 DEF Waits, Comes, Line
  <2>7. CASE IsHeard(t)
    <3>1. Outgoing' = Outgoing /\ ~Waits(t) BY <2>1, <2>7 DEF IsHeard, Outgoing, Comes
    <3> QED BY <2>1, <2>7, <3>1 DEF IsHeard, Waits, Comes
  <2>8. CASE IsSent(t)
    <3>1. ~Waits(t) /\ ~Comes(t) BY <1>0, <2>8, NoAcpClash DEF IsSent, AsksStep, Step, OneAbroad
    <3>2. fate'[t] \notin {"completed", "cancelled"}
      <4>1. queue # <<>> /\ t = Head(queue) /\ stage # "sent"
        BY <2>8, NoAcpClash DEF IsSent, AsksStep, Step
      <4>2. 1 \in DOMAIN queue /\ Head(queue) = queue[1] BY <1>0, <4>1 DEF AcpTypeOK
      <4>3. fate[t] = "queued" BY <1>0, <4>1, <4>2 DEF AcpQueued
      <4> QED BY <4>1, <4>3, FateMoves DEF Completes
    <3> QED BY <2>1, <2>8, <3>1, <3>2 DEF IsSent, Waits, Comes
  <2> QED BY <2>4, <2>5, <2>6, <2>7, <2>8, TurnMoves
<1> QED BY <1>1, OnceKept DEF InOnePlace, ComesAsTold

\* Where a line comes from.
LEMMA IncomingMoves ==
  ASSUME AcpInv, [AcpNext]_acpVars
  PROVE \/ Incoming' \subseteq Incoming
        \/ \E m \in LineShape :
             /\ Incoming' = Incoming \cup {m} /\ fromAgent' = Append(fromAgent, m)
             /\ \/ /\ m.kind = "answer" /\ m.of \in Outgoing \cap Step /\ AgentReads
                   /\ m.of = "session/set_mode" /\ m.is = "ok" => moded'
                \/ m.kind = "answer" /\ m.of \in working
                \/ m.kind # "answer" /\ AgentUpdates /\ (m.kind = "update" => m.is \in Update)
<1>1. ASSUME NEW m \in LineShape, Says(m)
      PROVE Incoming' = Incoming \cup {m} /\ fromAgent' = Append(fromAgent, m)
  BY <1>1, SaysMoves DEF Says
<1>2. CASE AgentReads
  <2>1. CASE UNCHANGED fromAgent BY <2>1 DEF Incoming
  <2>2. ASSUME Head(toAgent) \in Step, NEW is, Line("answer", Head(toAgent), is) \in LineShape,
               Says(Line("answer", Head(toAgent), is)),
               moded' = (moded \/ (Head(toAgent) = "session/set_mode" /\ is = "ok"))
        PROVE \E m \in LineShape :
                /\ Says(m) /\ m.kind = "answer" /\ m.of \in Outgoing \cap Step
                /\ m.of = "session/set_mode" /\ m.is = "ok" => moded'
    <3>1. PICK m \in LineShape : m = Line("answer", Head(toAgent), is) BY <2>2
    <3>2. m.kind = "answer" /\ m.of = Head(toAgent) /\ m.is = is BY <3>1 DEF Line
    <3>3. Head(toAgent) \in Outgoing BY <1>2, AgentReadsMoves
    <3> QED BY <2>2, <3>1, <3>2, <3>3
  <2> QED BY <1>1, <1>2, <2>1, <2>2, AgentReadsMoves
<1>3. ASSUME NEW t \in Turn, AgentEndsTurn(t)
      PROVE \E m \in LineShape : Says(m) /\ m.kind = "answer" /\ m.of \in working
  <2>1. PICK is \in Replies : Says(Line("answer", t, is)) BY <1>3 DEF AgentEndsTurn, Replies
  <2>2. Line("answer", t, is) \in LineShape BY NoAcpClash DEF Line, LineShape
  <2>3. Line("answer", t, is).kind = "answer" /\ Line("answer", t, is).of = t BY DEF Line
  <2>4. t \in working BY <1>3 DEF AgentEndsTurn
  <2> QED BY <2>1, <2>2, <2>3, <2>4
<1>4. CASE AgentUpdates BY <1>1, <1>4, UpdateSaid
<1>5. CASE Receive BY <1>5, ReceiveMoves
<1>6. CASE ~AgentReads /\ (\A u \in Turn : ~AgentEndsTurn(u)) /\ ~AgentUpdates /\ ~Receive
  <2>1. UNCHANGED fromAgent
    BY <1>6
    DEF AcpNext, Register, RegisterFails, Prompt, SkipTurn, RunTurn, Stop, Settle, ExitSeen,
        KillTimer, AgentDies,
       HandshakeTimesOut, Killed, SpawnFails, acpVars, clientVars
  <2> QED BY <2>1 DEF Incoming
<1> QED BY <1>1, <1>2, <1>3, <1>4, <1>5, <1>6

\* Where a promise comes from.
LEMMA HeldMoves ==
  ASSUME AcpInv, [AcpNext]_acpVars
  PROVE \/ Held' \subseteq Held
        \/ \E m \in LineShape :
             /\ Held' = Held \cup {m} /\ m.kind = "answer" /\ m.of \in pending
             /\ m \in Incoming \/ m = Line("answer", "initialize", "failed")
<1>1. micro \in Seq(LineShape) BY DEF AcpInv, AcpTypeOK
<1>2. CASE ExitSeen /\ micro' = <<>> BY <1>2 DEF Held, Members
<1>3. CASE Settle BY <1>3, HeldAfterSettle
<1>4. CASE micro' = micro BY <1>4 DEF Held
<1>5. ASSUME NEW of \in AcpRequest, NEW is, RequestAnswered(of, is)
      PROVE \E m \in LineShape :
             /\ Held' = Held \cup {m} /\ m.kind = "answer" /\ m.of \in pending
             /\ m \in Incoming \/ m = Line("answer", "initialize", "failed")
  <2>1. PICK m \in LineShape : m = Line("answer", of, is) BY <1>5 DEF RequestAnswered
  <2>2. m.kind = "answer" /\ m.of = of BY <2>1 DEF Line
  <2>3. Held' = Held \cup {m} BY <1>1, <1>5, <2>1, MembersOfAppend DEF RequestAnswered, Held
  <2> QED BY <1>5, <2>1, <2>2, <2>3 DEF RequestAnswered
<1> QED BY <1>2, <1>3, <1>4, <1>5, PendingMoves

\* Lines keep their shape.
LEMMA LinesKept ==
  ASSUME AcpInv, [AcpNext]_acpVars
  PROVE AcpLines'
<1>0. AcpLines /\ AcpTypeOK BY DEF AcpInv
<1>1. Step \subseteq AcpRequest /\ working \subseteq AcpRequest /\ pending \subseteq AcpRequest
  BY <1>0, NoAcpClash DEF AcpTypeOK
<1> QED BY <1>0, <1>1, IncomingMoves, HeldMoves DEF AcpLines

\* The pipe is in order: an update stays before its turn's answer.
LEMMA UpdatesFirstKept ==
  ASSUME AcpInv, [AcpNext]_acpVars
  PROVE UpdatesFirst'
<1>0. UpdatesFirst /\ AcpTypeOK BY DEF AcpInv
<1>1. fromAgent \in Seq(LineShape) /\ working \subseteq Turn BY <1>0 DEF AcpTypeOK
<1>2. CASE \E t \in Turn : AgentEndsTurn(t)
  <2>1. PICK t \in Turn : AgentEndsTurn(t) BY <1>2
  <2>2. PICK is \in Replies : Says(Line("answer", t, is)) BY <2>1 DEF AgentEndsTurn, Replies
  <2>3. Line("answer", t, is) \in TurnAnswers /\ Line("answer", t, is) \in LineShape
    BY NoAcpClash DEF Line, LineShape, TurnAnswers
  <2> QED BY <1>1, <2>2, <2>3, FollowsInAppend DEF UpdatesFirst, Says
<1>3. CASE ~(\E t \in Turn : AgentEndsTurn(t))
  <2>1. working \subseteq working'
    BY <1>1, <1>3
    DEF AcpNext, Register, RegisterFails, Prompt, SkipTurn, RunTurn, Stop, Receive, Settle,
         HandshakeTimesOut, ExitSeen, KillTimer, AgentReads, AgentUpdates, AgentDies,
         Killed, SpawnFails, acpVars, agentVars
  <2>2. CASE working # {} BY <2>1, <2>2 DEF UpdatesFirst
  <2>3. CASE working = {}
    <3>1. AnswerFollows(fromAgent) BY <1>0, <2>3 DEF UpdatesFirst
    <3>2. CASE Receive BY <1>1, <3>1, <3>2, ReceiveMoves, FollowsInTail DEF UpdatesFirst
    <3>3. ASSUME NEW m \in LineShape, fromAgent' = Append(fromAgent, m), m.kind = "answer"
          PROVE UpdatesFirst'
      BY <1>1, <3>1, <3>3, FollowsInAppend DEF UpdatesFirst
    <3>4. CASE AgentReads
      <4>1. CASE UNCHANGED fromAgent BY <3>1, <4>1 DEF UpdatesFirst
      <4>2. ASSUME NEW is, Line("answer", Head(toAgent), is) \in LineShape, Says(Line("answer", Head(toAgent), is))
            PROVE UpdatesFirst'
        BY <3>3, <4>2 DEF Says, Line
      <4> QED BY <3>4, <4>1, <4>2, AgentReadsMoves
    <3>5. CASE ~Receive /\ ~AgentReads
      <4>1. UNCHANGED fromAgent
        BY <1>3, <2>3, <3>5
        DEF AcpNext, Register, RegisterFails, Prompt, SkipTurn, RunTurn, Stop, Settle, ExitSeen,
            KillTimer,
           AgentDies, AgentUpdates, HandshakeTimesOut, Killed, SpawnFails, acpVars, clientVars
      <4> QED BY <3>1, <4>1 DEF UpdatesFirst
    <3> QED BY <3>2, <3>4, <3>5
  <2> QED BY <2>2, <2>3
<1> QED BY <1>2, <1>3

\* Nothing but the handshake is heard before it is over.
LEMMA HelloFirstKept ==
  ASSUME AcpInv, [AcpNext]_acpVars
  PROVE HelloFirst'
<1>0. HelloFirst /\ AcpTypeOK /\ DueIsAwaited /\ AcpLines BY DEF AcpInv
<1> SUFFICES ASSUME hello' = "waiting"
             PROVE /\ ~acpSessionId' /\ stage' \in {"idle", "opening"} /\ opening' \in {"none", "initialize"}
                   /\ working' = {} /\ Outgoing' \cup pending' \subseteq {"initialize"}
                   /\ \A m \in Incoming' \cup Held' : m \in AnswersTo("initialize")
  BY DEF HelloFirst
<1>1. hello = "waiting" /\ hello' = hello BY HelloMoves
<1>2. /\ ~acpSessionId /\ stage \in {"idle", "opening"} /\ opening \in {"none", "initialize"}
      /\ working = {} /\ Outgoing \cup pending \subseteq {"initialize"}
      /\ \A m \in Incoming \cup Held : m \in AnswersTo("initialize")
  BY <1>0, <1>1 DEF HelloFirst
<1>3. ~Settle
  <2>1. ASSUME Settle PROVE FALSE
    <3>1. Head(micro).of = "initialize" BY <1>2, <2>1, HeldHead DEF Settle, AnswersTo
    <3>2. hello' # "waiting" BY <2>1, <3>1, NoAcpClash DEF Settle, Initialized, Step
    <3> QED BY <3>2
  <2> QED BY <2>1
<1>4. ~AsksStep("session/new") /\ (\A of \in AcpRequest : ~AsksStep(of)) BY DEF AsksStep
<1>5. pending' \subseteq pending /\ Outgoing' \subseteq Outgoing
  <2>1. pending' \subseteq pending BY <1>3, <1>4, PendingMoves DEF Asks, AskNothing, RequestAnswered
  <2>2. CASE AgentReads BY <2>1, <2>2, AgentReadsMoves
  <2>3. CASE RunTurn
    <3>1. Asks BY <1>3, <2>3, BeginAsks DEF RunTurn, Waiting
    <3> QED BY <1>4, <2>1, <3>1, AskMoves DEF Outgoing
  <2>4. CASE ~AgentReads /\ ~RunTurn
    <3>1. UNCHANGED toAgent
      BY <1>3, <2>4
      DEF AcpNext, Register, RegisterFails, Prompt, SkipTurn, Stop, ExitSeen, KillTimer, AgentDies,
          Receive,
         HandshakeTimesOut, AgentEndsTurn, AgentUpdates, Killed, SpawnFails, acpVars
    <3> QED BY <2>1, <3>1 DEF Outgoing
  <2> QED BY <2>1, <2>2, <2>3, <2>4
<1>6. working' = {}
  <2>1. ~(AgentReads /\ Head(toAgent) \in Turn) BY <1>2, AgentReadsMoves, NoAcpClash DEF Step
  <2> QED
    BY <1>2, <1>3, <2>1, AgentReadsMoves
    DEF AcpNext, Register, RegisterFails, Prompt, SkipTurn, RunTurn, Stop, Receive,
         HandshakeTimesOut, ExitSeen, KillTimer, AgentEndsTurn, AgentUpdates, AgentDies,
         Killed, SpawnFails, acpVars, agentVars
<1>7. \A m \in Incoming' : m \in AnswersTo("initialize")
  <2>1. ~AgentUpdates BY <1>2 DEF AgentUpdates
  <2> QED BY <1>2, <2>1, IncomingMoves DEF AnswersTo
<1>8. \A m \in Held' : m \in AnswersTo("initialize") BY <1>2, HeldMoves DEF AnswersTo
<1>9. ~acpSessionId' /\ opening' \in {"none", "initialize"}
  <2>1. RunTurn => opening' \in {"none", "initialize"} BY <1>1, <1>2 DEF RunTurn, Begin
  <2> QED
    BY <1>2, <1>3, <2>1
    DEF AcpNext, Register, RegisterFails, Prompt, SkipTurn, RunTurn, Stop, Receive,
         HandshakeTimesOut, ExitSeen, KillTimer, AgentReads, AgentEndsTurn, AgentUpdates, AgentDies,
         Killed, SpawnFails, acpVars, clientVars
<1>10. stage' \in {"idle", "opening"}
  <2>1. ~LogsIn /\ ~Sends
    <3>1. "authenticate" \notin pending' BY <1>2, <1>5
    <3>2. ~LogsIn BY <3>1 DEF LogsIn, Ask
    <3>3. ASSUME Sends PROVE FALSE
      <4>1. Head(queue) \in Turn /\ Head(queue) \in pending' BY <1>0, <3>3 DEF Sends, Ask, AcpTypeOK
      <4> QED BY <1>2, <1>5, <4>1, NoAcpClash DEF Step
    <3> QED BY <3>2, <3>3
  <2> QED BY <1>2, <2>1, StepMoves
          DEF RunnerMoves, Keeps, GoesQuiet, Queues, Skips, GivesUp, Completes, Opens, LosesSlot,
              Leave
<1> QED BY <1>2, <1>5, <1>6, <1>7, <1>8, <1>9, <1>10

\* The runner settles as its turn ends, or when the agent could not be started at all.
LEMMA SettledKept ==
  ASSUME AcpInv, [AcpNext]_acpVars
  PROVE SettledIsOver'
<1>0. SettledIsOver /\ AcpTypeOK /\ HelloFirst BY DEF AcpInv
<1>1. CASE LosesSlot /\ SpawnFails
  <2>1. hello' = "waiting" /\ proc' = "gone" /\ fromAgent' = <<>> /\ micro' = <<>> /\ stage' = stage /\ stage = "opening"
    BY <1>1 DEF SpawnFails, Ready, LosesSlot
  <2> QED BY <2>1 DEF SettledIsOver, NeverUp, Held, Members
<1>2. CASE settled /\ stage = "opening" /\ stage' = "opening"
  <2>1. NeverUp BY <1>0, <1>2 DEF SettledIsOver
  <2>2. ~Settle
    <3>1. ASSUME Settle PROVE FALSE
      <4>1. Initialized(Head(micro).is) /\ Head(micro).is # "ok" BY <1>2, <3>1, SettleWhenSettled
      <4>2. PICK is : is = Head(micro).is OBVIOUS
      <4>3. TurnFails BY <1>2, <4>1, <4>2 DEF Initialized
      <4> QED BY <1>2, <4>3 DEF TurnFails, Leave
    <3> QED BY <3>1
  <2>3. ~ExitSeen BY <1>2 DEF ExitSeen, Leave
  <2>4. hello' = "waiting" BY <2>1, <2>2, <2>3, HelloMoves DEF NeverUp
  <2>5. fromAgent' = <<>> /\ proc' = "gone"
    BY <1>2, <2>1, <2>2
    DEF NeverUp, Runs, AcpNext, Register, RegisterFails, Prompt, SkipTurn, RunTurn, Waiting, Stop,
        Close,
       endVars, Receive, HandshakeTimesOut, ExitSeen, KillTimer, AgentReads, AgentEndsTurn, AgentUpdates, AgentDies,
       Killed, SpawnFails, acpVars, runnerVars, clientVars
  <2>6. \A m \in Held' : m.is = "failed"
    <3>1. Incoming = {} BY <2>1 DEF NeverUp, Incoming, Members
    <3> QED BY <2>1, <3>1, HeldMoves DEF NeverUp, Line
  <2> QED BY <1>2, <2>4, <2>5, <2>6 DEF SettledIsOver, NeverUp
<1>3. CASE ~(LosesSlot /\ SpawnFails) /\ ~(settled /\ stage = "opening" /\ stage' = "opening")
  BY <1>0, <1>3, StepMoves
  DEF SettledIsOver, RunnerMoves, Keeps, GoesQuiet, Queues, Skips, GivesUp, Completes, Sends,
     Opens, LogsIn, LosesSlot, Leave
<1> QED BY <1>1, <1>2, <1>3

\* What has been set stays set.
LEMMA ModeSteps ==
  ASSUME AcpInv, [AcpNext]_acpVars
  PROVE /\ moded => moded'
        /\ registered' = "done" => registered = "done" \/ (Register /\ registered = "due")
        /\ stopRequested => stopRequested'
<1>1. moded => moded'
  <2>1. AgentReads => (moded => moded') BY AgentReadsMoves
  <2> QED
    BY <2>1 DEF AcpNext, Register, RegisterFails, Prompt, SkipTurn, RunTurn, Stop, Receive, Settle,
         HandshakeTimesOut, ExitSeen, KillTimer, AgentEndsTurn, AgentUpdates, AgentDies,
         Killed, SpawnFails, acpVars, agentVars
<1>2. registered' = "done" => registered = "done" \/ (Register /\ registered = "due")
  BY DEF AcpNext, Register, RegisterFails, Prompt, SkipTurn, RunTurn, Stop, Receive, Settle,
         HandshakeTimesOut, ExitSeen, KillTimer, AgentReads, AgentEndsTurn, AgentUpdates, AgentDies,
         Killed, SpawnFails, acpVars, runnerVars
<1>3. stopRequested => stopRequested'
  BY DEF AcpNext, Register, RegisterFails, Prompt, SkipTurn, RunTurn, Stop, Receive, Settle,
         HandshakeTimesOut, ExitSeen, KillTimer, AgentReads, AgentEndsTurn, AgentUpdates, AgentDies,
         Killed, SpawnFails, acpVars, runnerVars
<1> QED BY <1>1, <1>2, <1>3

\* A step asks one thing.
LEMMA AskedOnce ==
  ASSUME AcpInv, NEW a \in AcpRequest, Ask(a)
  PROVE ~AskNothing /\ \A b \in AcpRequest : Ask(b) => a = b
<1>1. toAgent \in Seq(AcpRequest) BY DEF AcpInv, AcpTypeOK
<1>2. toAgent' = Append(toAgent, a) BY DEF Ask
<1>3. Len(toAgent') = Len(toAgent) + 1 /\ toAgent'[Len(toAgent) + 1] = a /\ Len(toAgent) \in Nat
  BY <1>1, <1>2
<1>4. ~AskNothing BY <1>3 DEF AskNothing
<1>5. ASSUME NEW b \in AcpRequest, Ask(b) PROVE a = b
  <2>1. toAgent' = Append(toAgent, b) BY <1>5 DEF Ask
  <2>2. toAgent'[Len(toAgent) + 1] = b BY <1>1, <2>1
  <2> QED BY <1>3, <2>2
<1> QED BY <1>4, <1>5

\* A turn is sent to an agent in its mode, when the brief is what opens its session.
LEMMA SentInMode ==
  ASSUME AcpInv, [AcpNext]_acpVars, registered = "done", provider.mode, ~provider.auth,
         NEW t \in Turn, AsksStep(t)
  PROVE moded
<1>0. AcpTypeOK /\ ModeFirst /\ DueIsAwaited /\ HelloFirst /\ AcpSlot BY DEF AcpInv
<1>1. t \in AcpRequest /\ t \notin Step BY NoAcpClash
<1>2. ~AskNothing /\ \A b \in Step : ~Ask(b) BY <1>1, NoAcpClash, AskedOnce DEF AsksStep
<1>3. /\ stage # "sent" /\ ~(stage = "idle" /\ settled) /\ (stage' = "sent" \/ (stage' = "idle" /\ settled' = TRUE))
  BY <1>1 DEF AsksStep, Step, Sends
<1>4. CASE RunTurn
  <2>1. acpSessionId
    <3>1. ~acpSessionId => stage' = "opening" BY <1>4 DEF RunTurn, Begin
    <3> QED BY <1>3, <3>1
  <2> QED BY <1>0, <1>4, <2>1 DEF ModeFirst, RunTurn, Waiting
<1>5. CASE Settle
  <2> DEFINE m == Head(micro)
  <2>1. m.of \in Due /\ m \in Held /\ m \in LineShape /\ m.kind = "answer"
    BY <1>5, HeldHead DEF Settle
  <2>2. PICK is : is = m.is OBVIOUS
  <2> HIDE DEF m
  <2>3. ~NotOpened(is) BY <1>0, <1>2 DEF NotOpened, Step
  <2>4. ~(m.of = "initialize" /\ Initialized(is))
    <3>1. CASE is = "ok" /\ opening = "initialize"
      <4>1. Initialized(is) => Ask("session/new") BY <3>1 DEF Initialized
      <4> QED BY <1>2, <4>1 DEF Step
    <3>2. CASE ~(is = "ok" /\ opening = "initialize") BY <1>2, <3>2 DEF Initialized
    <3> QED BY <3>1, <3>2
  <2>5. ~SessionAnswered(is)
    <3>1. CASE is = "ok"
      <4>1. SessionAnswered(is) => Ask("session/set_mode") BY <3>1 DEF SessionAnswered
      <4> QED BY <1>2, <4>1 DEF Step
    <3>2. CASE is # "ok" BY <2>3, <3>2 DEF SessionAnswered
    <3> QED BY <3>1, <3>2
  <2>6. ~(m.of = "authenticate") BY <1>0, <2>1 DEF DueIsAwaited, AcpSlot
  <2>7. ~TurnAnswered(is) BY <1>2 DEF TurnAnswered
  <2>8. m.of = "session/set_mode" /\ ModeAnswered(is)
    BY <1>5, <2>2, <2>4, <2>5, <2>6, <2>7 DEF Settle, m
  <2>9. is = "ok" BY <2>3, <2>8 DEF ModeAnswered
  <2>10. m \in AnswersTo("session/set_mode") BY <2>1, <2>8 DEF AnswersTo
  <2> QED BY <1>0, <2>1, <2>2, <2>9, <2>10 DEF ModeFirst
<1>6. CASE ~RunTurn /\ ~Settle
  <2>1. UNCHANGED toAgent \/ AgentReads
    BY <1>6
    DEF AcpNext, Register, RegisterFails, Prompt, SkipTurn, Stop, ExitSeen, KillTimer, AgentDies,
        Receive,
         HandshakeTimesOut, AgentEndsTurn, AgentUpdates, Killed, SpawnFails, acpVars
  <2>2. toAgent \in Seq(AcpRequest) /\ toAgent' = Append(toAgent, t)
    BY <1>0 DEF AcpTypeOK, AsksStep, Ask
  <2>3. Len(toAgent') = Len(toAgent) + 1 /\ Len(toAgent) \in Nat BY <1>1, <2>2
  <2>4. AgentReads => Len(toAgent') = Len(toAgent) - 1 BY <2>2, AgentReadsMoves
  <2>5. CASE UNCHANGED toAgent BY <2>3, <2>5
  <2>6. CASE AgentReads BY <2>3, <2>4, <2>6
  <2> QED BY <2>1, <2>5, <2>6
<1> QED BY <1>4, <1>5, <1>6

\* With the brief queued first, every turn follows the whole opening.
LEMMA ModeKept ==
  ASSUME AcpInv, [AcpNext]_acpVars
  PROVE ModeFirst'
<1>0. AcpTypeOK /\ ModeFirst /\ DueIsAwaited /\ HelloFirst /\ AcpSlot /\ DueIsFresh /\ InOnePlace
  BY DEF AcpInv
<1> SUFFICES ASSUME registered' = "done", provider.mode, ~provider.auth
             PROVE /\ \A t \in Turn : Waits(t)' => moded'
                   /\ \A m \in AnswersTo("session/set_mode") \cap (Incoming' \cup Held') : m.is = "ok" => moded'
                   /\ stage' = "idle" => moded' \/ settled' \/ stopRequested' \/ (Waiting' /\ ~acpSessionId')
                   /\ stage' = "sent" => moded'
  BY ProviderKept DEF ModeFirst
<1>1. CASE Register /\ registered = "due"
  <2>1. /\ UNCHANGED <<toAgent, working, fromAgent, micro, acpSessionId, stage>> /\ queue' = Append(queue, Brief)
    BY <1>1 DEF Register, clientVars, agentVars
  <2>2. /\ queue = <<>> /\ stage = "idle" /\ micro = <<>> /\ ~acpSessionId /\ working = {}
        /\ Outgoing \subseteq {"initialize"} /\ \A m \in Incoming \cup Held : m \in AnswersTo("initialize")
    BY <1>0, <1>1 DEF DueIsFresh, HelloFirst
  <2>3. Outgoing' = Outgoing /\ Incoming' = Incoming /\ Held' = Held
    BY <2>1 DEF Outgoing, Incoming, Held
  <2>4. \A t \in Turn : ~Waits(t)' BY <2>1, <2>2, <2>3, NoAcpClash DEF Waits, Step
  <2>5. AnswersTo("session/set_mode") \cap (Incoming' \cup Held') = {} BY <2>2, <2>3 DEF AnswersTo
  <2>6. Waiting'
    <3>1. queue' # <<>> BY <2>1, <2>2
    <3> QED BY <2>1, <2>2, <3>1 DEF Waiting
  <2> QED BY <2>1, <2>2, <2>4, <2>5, <2>6
<1>2. CASE registered = "done"
  <2>0. /\ \A t \in Turn : Waits(t) => moded
        /\ \A m \in AnswersTo("session/set_mode") \cap (Incoming \cup Held) : m.is = "ok" => moded
        /\ stage = "idle" => moded \/ settled \/ stopRequested \/ (Waiting /\ ~acpSessionId)
        /\ stage = "sent" => moded
    BY <1>0, <1>2 DEF ModeFirst
  <2>1. ASSUME NEW t \in Turn, Waits(t)' PROVE moded'
    <3>1. CASE IsSent(t) BY <1>2, <3>1, SentInMode, ModeSteps DEF IsSent
    <3>2. CASE IsAnswered(t) BY <2>0, <3>2, ModeSteps DEF IsAnswered, Waits
    <3>3. CASE IsHeard(t) BY <2>0, <2>1, <3>3, ModeSteps DEF IsHeard, Waits, Outgoing
    <3>4. CASE IsRead(t) BY <2>0, <3>4, ModeSteps DEF IsRead, Waits
    <3>5. CASE InPlace(t) BY <2>0, <2>1, <3>5, ModeSteps DEF InPlace, Waits
    <3> QED BY <3>1, <3>2, <3>3, <3>4, <3>5, TurnMoves
  <2>2. ASSUME NEW m \in AnswersTo("session/set_mode") \cap (Incoming' \cup Held'), m.is = "ok"
        PROVE moded'
    <3>1. m.of = "session/set_mode" /\ m.kind = "answer" BY DEF AnswersTo
    <3>2. CASE m \in Incoming \cup Held BY <2>0, <2>2, <3>2, ModeSteps
    <3>3. CASE m \notin Incoming \cup Held
      <4>1. m \in Incoming'
        <5>1. m # Line("answer", "initialize", "failed") BY <3>1 DEF Line
        <5> QED BY <3>3, <5>1, HeldMoves
      <4>2. m.of \notin working BY <1>0, <3>1, NoAcpClash DEF AcpTypeOK, Step
      <4> QED BY <2>2, <3>1, <3>3, <4>1, <4>2, IncomingMoves
    <3> QED BY <3>2, <3>3
  <2>3. ASSUME stage' = "idle"
        PROVE moded' \/ settled' \/ stopRequested' \/ (Waiting' /\ ~acpSessionId')
    <3>1. CASE stage # "idle"
      <4>1. GivesUp \/ Completes
        BY <2>3, <3>1, StepMoves
        DEF RunnerMoves, Keeps, GoesQuiet, Queues, Skips, Sends, Opens, LogsIn, LosesSlot
      <4> QED BY <2>0, <4>1, ModeSteps DEF GivesUp, Completes
    <3>2. CASE stage = "idle" /\ (moded \/ settled \/ stopRequested)
      <4>1. settled => settled'
        BY <2>3, <3>2, StepMoves
           DEF RunnerMoves, Keeps, GoesQuiet, Queues, Skips, GivesUp, Completes, Sends, Opens,
               LogsIn, LosesSlot
      <4> QED BY <3>2, <4>1, ModeSteps
    <3>3. CASE Waiting /\ ~acpSessionId /\ ~settled /\ ~stopRequested
      <4>1. ~RunTurn
        <5>1. RunTurn => stage' = "opening" BY <3>3 DEF RunTurn, Begin
        <5> QED BY <2>3, <5>1
      <4>2. UNCHANGED <<queue, stage, micro, acpSessionId>>
        BY <1>2, <3>3, <4>1
        DEF Waiting, Ready, AcpNext, Register, RegisterFails, Prompt, SkipTurn, Stop, Receive,
            Settle,
           HandshakeTimesOut, ExitSeen, KillTimer, AgentReads, AgentEndsTurn, AgentUpdates, AgentDies,
           Killed, SpawnFails, acpVars, runnerVars, turnVars, clientVars
      <4> QED BY <3>3, <4>2 DEF Waiting
    <3> QED BY <2>0, <3>1, <3>2, <3>3
  <2>4. ASSUME stage' = "sent" PROVE moded'
    <3>1. CASE stage = "sent" BY <2>0, <3>1, ModeSteps
    <3>2. CASE stage # "sent"
      <4>1. Sends
        BY <2>4, <3>2, StepMoves
        DEF RunnerMoves, Keeps, GoesQuiet, Queues, Skips, GivesUp, Completes, Opens, LogsIn,
            LosesSlot, Leave
      <4>2. Head(queue) \in Turn /\ Head(queue) \in AcpRequest
        BY <1>0, <4>1, NoAcpClash DEF Sends, AcpTypeOK
      <4>3. PICK of \in AcpRequest : of = Head(queue) BY <4>2
      <4>4. of \in Turn /\ Ask(of) BY <4>1, <4>2, <4>3 DEF Sends
      <4>5. AsksStep(of)
        <5>1. hello' # "waiting" BY <2>4, HelloFirstKept DEF HelloFirst
        <5> QED BY <4>1, <4>3, <4>4, <5>1 DEF AsksStep, Sends
      <4> QED BY <1>2, <4>4, <4>5, SentInMode, ModeSteps
    <3> QED BY <3>1, <3>2
  <2> QED BY <2>1, <2>2, <2>3, <2>4
<1> QED BY <1>1, <1>2, ModeSteps

\* Client and runner cut the messages alike, step by step.
LEMMA SameCutKept ==
  ASSUME AcpInv, [AcpNext]_acpVars
  PROVE SameCut'
<1>0. AcpTypeOK /\ SameCut /\ AcpSlot /\ AcpLines /\ HelloFirst /\ DueIsAwaited BY DEF AcpInv
<1> SUFFICES ASSUME stage' = "sent", "plan" \notin Update
             PROVE (fold' = Silence /\ buffer' = 0 /\ ~log'.open) \/ Spoken'
  BY DEF SameCut
<1>1. CASE stage # "sent"
  <2>1. Sends
    BY <1>1, StepMoves
    DEF RunnerMoves, Keeps, GoesQuiet, Queues, Skips, GivesUp, Completes, Opens, LogsIn, LosesSlot,
        Leave
  <2> QED BY <2>1 DEF Sends, Flushes, FlushOutput
<1>2. CASE stage = "sent"
  <2>0. ~settled /\ inFlight = "open"
    BY <1>0, <1>2 DEF AcpInv, SettledIsOver, AcpSlot
  <2>1. fold \in [text : Nat, streaming : BOOLEAN] /\ buffer \in Nat /\ line \in Nat /\ log \in [text : Nat, open : BOOLEAN]
    BY <1>0 DEF AcpTypeOK
  <2>2. (fold = Silence /\ buffer = 0 /\ ~log.open) \/ Spoken
    BY <1>0, <1>2 DEF SameCut
  <2>c. LineCap \in Nat \ {0} /\ ReplyCap \in Nat /\ LineCap <= ReplyCap
    BY AcpAssumption
  <2>3. ASSUME NEW kind \in Update, ReceiveUpdate(kind) PROVE SameCut'
    <3>1. fold' = Fold(kind) BY <2>0, <2>3 DEF ReceiveUpdate
    <3>2. CASE kind \in Chunk
      <4> DEFINE heard == IF fold.streaming THEN fold.text ELSE 0
                 before == IF log.open THEN log.text ELSE 0
                 length == Length[kind]
                 text == buffer + length
      <4>0. length \in Nat /\ length > 0
        BY <3>2, AcpAssumption
      <4>1. fold' = [text |-> Clamp(heard + length), streaming |-> TRUE]
        <5>1. kind # "tool" BY <3>2, AcpAssumption
        <5> QED BY <3>1, <3>2, <5>1 DEF Fold
      <4>2. ReceiveChunk(text)
        BY <2>0, <2>3, <3>2 DEF ReceiveUpdate
      <4>3. /\ heard = Clamp(before + buffer) /\ before \in Nat /\ buffer < LineCap
            /\ before = 0 \/ before >= LineCap
        BY <2>1, <2>2, <2>c DEF Silence, Spoken, Clamp
      <4> HIDE DEF heard, before, length
      <4>4. fold'.streaming = TRUE /\ fold'.text = Clamp(before + text) /\ fold'.text > 0
        BY <2>1, <2>c, <4>0, <4>1, <4>3 DEF Clamp
      <4>5. CASE text >= LineCap
        <5>1. buffer' = 0 /\ line' = Clip(text) /\ log' = [text |-> before + text, open |-> TRUE]
          BY <4>2, <4>5 DEF ReceiveChunk, before
        <5>2. log'.text = before + text /\ log'.open = TRUE
          BY <5>1
        <5>3. before + text <= LineCap => line' = before + text
          BY <2>1, <2>c, <4>0, <4>3, <4>5, <5>1 DEF Clip
        <5>4. log'.text + buffer' = before + text /\ log'.text >= LineCap
          BY <2>1, <2>c, <4>0, <4>3, <4>5, <5>1, <5>2
        <5>5. Spoken'
          <6>1. /\ fold'.text > 0 /\ fold'.text = Clamp(log'.text + buffer') /\ log'.open = fold'.streaming
                /\ fold'.streaming = TRUE /\ buffer' = 0 /\ log'.text >= LineCap /\ log'.text = before + text
            BY <4>4, <5>1, <5>2, <5>4
          <6>2. buffer' < LineCap BY <2>c, <6>1
          <6>3. log'.text <= LineCap => line' = log'.text BY <5>3, <6>1
          <6> QED BY <6>1, <6>2, <6>3 DEF Spoken, Clamp
        <5> QED BY <5>5 DEF SameCut
      <4>6. CASE ~(text >= LineCap)
        <5>1. buffer' = text /\ line' = line /\ log' = [text |-> before, open |-> TRUE]
          BY <4>2, <4>6 DEF ReceiveChunk, before
        <5>2. log'.text = before /\ log'.open = TRUE
          BY <5>1
        <5>3. log'.text + buffer' = before + text /\ buffer' < LineCap /\ buffer' # 0
          BY <2>1, <2>c, <4>0, <4>3, <4>6, <5>1, <5>2
        <5>4. Spoken'
          BY <2>c, <4>3, <4>4, <5>1, <5>2, <5>3 DEF Spoken
        <5> QED BY <5>4 DEF SameCut
      <4> QED BY <4>5, <4>6
    <3>3. CASE kind = "tool"
      <4>0. kind \notin Chunk
        BY <3>3, AcpAssumption
      <4>1. FlushOutput /\ fold' = [fold EXCEPT !.streaming = FALSE]
        BY <2>0, <2>3, <3>1, <3>3, <4>0 DEF ReceiveUpdate, Fold, EndsLine
      <4>2. fold'.text = fold.text /\ fold'.streaming = FALSE /\ fold' = [text |-> fold.text, streaming |-> FALSE]
        BY <2>1, <4>1
      <4>3. /\ buffer' = 0 /\ line' = IF buffer = 0 THEN line ELSE Clip(buffer)
            /\ log'.text = log.text + buffer /\ log'.open = FALSE
        BY <4>1 DEF FlushOutput
      <4>4. CASE fold = Silence /\ buffer = 0 /\ ~log.open BY <4>2, <4>3, <4>4 DEF SameCut, Silence
      <4>5. CASE Spoken
        <5>1. log.text + buffer <= LineCap => line' = log.text + buffer
          BY <2>1, <2>c, <4>3, <4>5 DEF Spoken, Clip
        <5>2. log'.text + buffer' = log.text + buffer /\ log'.text = log.text + buffer
          BY <2>1, <4>3
        <5>3. Spoken'
          <6>1. /\ fold'.text > 0 /\ fold'.text = Clamp(log'.text + buffer') /\ log'.open = fold'.streaming
                /\ fold'.streaming = FALSE /\ buffer' = 0 /\ log'.text = log.text + buffer
            BY <4>2, <4>3, <4>5, <5>2 DEF Spoken
          <6>2. buffer' < LineCap BY <2>c, <6>1
          <6>3. log'.text <= LineCap => line' = log'.text BY <5>1, <6>1
          <6> QED BY <6>1, <6>2, <6>3 DEF Spoken, Clamp
        <5> QED BY <5>3 DEF SameCut
      <4> QED BY <2>2, <4>4, <4>5
    <3>4. CASE kind \notin Chunk /\ kind # "tool"
      <4>1. kind # "plan" OBVIOUS
      <4>2. UNCHANGED <<buffer, line, log>> /\ fold' = fold
        BY <2>0, <2>3, <3>1, <3>4, <4>1 DEF ReceiveUpdate, Fold, EndsLine, outVars
      <4> QED BY <2>2, <4>2 DEF SameCut, Spoken
    <3> QED BY <3>2, <3>3, <3>4
  <2>4. ASSUME UNCHANGED <<buffer, line, log>>, fold' = fold PROVE SameCut'
    BY <2>2, <2>4 DEF SameCut, Spoken
  <2>5. ASSUME Receive PROVE SameCut'
    <3> DEFINE m == Head(fromAgent)
    <3>1. m \in LineShape /\ m \in Incoming BY <2>5, ReceiveMoves
    <3>2. CASE m.kind = "update" /\ ReceiveUpdate(m.is)
      <4>1. PICK kind \in Update : kind = m.is BY <1>0, <3>1, <3>2 DEF AcpLines
      <4>2. ReceiveUpdate(kind) BY <3>2, <4>1
      <4> QED BY <2>3, <4>2
    <3>3. CASE ReceiveAnswer(m.of, m.is)
      <4>1. UNCHANGED <<buffer, line, log>> /\ fold' = fold BY <3>3 DEF ReceiveAnswer, outVars
      <4> QED BY <2>4, <4>1
    <3>4. CASE ReceiveFlood
      <4>1. stage' = "idle" BY <1>2, <2>0, <3>4 DEF ReceiveFlood, SlotFails, Leave
      <4> QED BY <4>1
    <3> QED BY <2>5, <3>2, <3>3, <3>4 DEF Receive
  <2>6. ASSUME Settle PROVE SameCut'
    <3> DEFINE m == Head(micro)
    <3>1. m.of \in Due BY <2>6, HeldHead DEF Settle
    <3>2. PICK is : is = m.is OBVIOUS
    <3> HIDE DEF m
    <3>3. m.of # "initialize" /\ m.of # "authenticate"
      BY <1>0, <1>2, <3>1 DEF DueIsAwaited, HelloFirst
    <3>4. Opened \/ NotOpened(is) => UNCHANGED <<buffer, line, log>> /\ fold' = fold
      BY <1>2 DEF Opened, NotOpened, endVars, outVars
    <3>5. SessionAnswered(is) \/ ModeAnswered(is) => UNCHANGED <<buffer, line, log>> /\ fold' = fold
      BY <3>4 DEF SessionAnswered, ModeAnswered, endVars, outVars
    <3>6. ~TurnAnswered(is)
      <4>1. TurnAnswered(is) => stage' = "idle"
        BY <1>2, <2>0 DEF TurnAnswered, TurnReturns, TurnFails, Leave
      <4> QED BY <4>1
    <3> QED BY <2>4, <2>6, <3>2, <3>3, <3>5, <3>6 DEF Settle, m
  <2>7. ASSUME ~Receive /\ ~Settle PROVE SameCut'
    <3>1. ~RunTurn /\ ~SkipTurn BY <1>2 DEF RunTurn, SkipTurn, Waiting
    <3>2. ~ExitSeen BY <1>2 DEF ExitSeen, Leave
    <3>3. ~SpawnFails BY <1>0, <1>2 DEF SpawnFails, HelloFirst
    <3>4. Stop => UNCHANGED <<buffer, line, log>>
      <4>1. Stop /\ ~exited => stage' = "idle" BY <1>2, <2>0 DEF Stop, SlotFails, Leave
      <4> QED BY <4>1 DEF Stop, endVars, outVars
    <3>5. UNCHANGED <<buffer, line, log>> /\ fold' = fold
      BY <2>7, <3>1, <3>2, <3>3, <3>4 DEF AcpNext, Register, RegisterFails, Prompt, Stop,
         HandshakeTimesOut, KillTimer, AgentReads, AgentEndsTurn, AgentUpdates, AgentDies,
         Killed, acpVars, runnerVars, outVars, clientVars
    <3> QED BY <2>4, <3>5
  <2> QED BY <2>5, <2>6, <2>7 DEF SameCut
<1> QED BY <1>1, <1>2

\* The invariant holds at the start,
LEMMA AcpStarts ==
  AcpInit => AcpInv
<1> SUFFICES ASSUME AcpInit PROVE AcpInv OBVIOUS
<1>1. /\ AcpTypeOK /\ queue = <<>> /\ micro = <<>> /\ fromAgent = <<>> /\ toAgent = <<"initialize">> /\ working = {}
      /\ pending = {"initialize"} /\ hello = "waiting" /\ stage = "idle" /\ inFlight = "none" /\ ~settled /\ ~acpSessionId
      /\ fate = [t \in Turn |-> "none"] /\ opening \in {"none", "initialize"} /\ registered = "due"
  BY AcpStartTyped DEF AcpInit
<1>2. Held = {} /\ Incoming = {} /\ Outgoing = {"initialize"} /\ Due = {"initialize"}
  <2>1. Held = {} /\ Incoming = {} BY <1>1 DEF Held, Incoming, Members
  <2>2. Outgoing = {"initialize"} BY <1>1 DEF Outgoing, Members
  <2> QED BY <1>1, <2>1, <2>2 DEF Due
<1>3. AcpLines /\ AcpQueued /\ AcpSlot /\ DueIsFresh /\ SettledIsOver /\ SameCut /\ ModeFirst
  BY <1>1, <1>2, AcpAssumption
  DEF AcpLines, AcpQueued, AcpSlot, DueIsFresh, SettledIsOver, SameCut, ModeFirst
<1>4. HelloFirst /\ DueIsAwaited
  BY <1>1, <1>2 DEF HelloFirst, DueIsAwaited, OnceIn
<1>5. \A t \in Turn : ~Waits(t) /\ ~Comes(t) BY <1>1, <1>2, NoAcpClash DEF Waits, Comes, Step
<1>6. OneAbroad /\ InOnePlace /\ ComesAsTold
  BY <1>1, <1>2, <1>5 DEF OneAbroad, InOnePlace, ComesAsTold, OnceIn
<1>7. UpdatesFirst BY <1>1 DEF UpdatesFirst, AnswerFollows
<1>8. RepliesAreOwn BY <1>1 DEF RepliesAreOwn
<1> QED BY <1>1, <1>3, <1>4, <1>6, <1>7, <1>8 DEF AcpInv

\* and every step keeps it.
LEMMA AcpSteps ==
  AcpInv /\ [AcpNext]_acpVars => AcpInv'
  BY AcpTyped, LinesKept, QueuedKept, SlotKept, FreshKept, SettledKept, HelloFirstKept,
     AwaitedKept, OneAbroadKept,
     InOnePlaceKept, UpdatesFirstKept, ModeKept, SameCutKept, RepliesStayOwn DEF AcpInv

\* The inductive invariant of the client and its runner.
THEOREM AcpIsInvariant == AcpSpec => []AcpInv
  BY AcpStarts, AcpSteps, PTL DEF AcpSpec

\* Types, and a turn holds the slot exactly while it is opening its session or sent
\* (session.ts, prompt).
THEOREM AcpTypeCorrect == AcpSpec => []AcpTypeOK
<1>1. AcpInv => AcpTypeOK BY DEF AcpInv
<1> QED BY <1>1, AcpIsInvariant, PTL

\* No turn ends with another's answer: completed or cancelled, it is as the agent answered that
\* turn (acp-client session.ts:590, runner session.ts:545).
THEOREM EveryReplyIsItsTurns == AcpSpec => []RepliesAreOwn
<1>1. AcpInv => RepliesAreOwn BY DEF AcpInv
<1> QED BY <1>1, AcpIsInvariant, PTL

\* An agent that needs no login works at no turn before its session has its mode, once the
\* brief comes first (session.ts:558, 584).
THEOREM NoTurnBeforeItsMode == AcpSpec => []PromptedInMode
<1>1. AcpInv => PromptedInMode
  <2> SUFFICES ASSUME AcpInv, working # {}, registered = "done", provider.mode, ~provider.auth
               PROVE moded
    BY DEF PromptedInMode
  <2>1. PICK t \in Turn : t \in working BY DEF AcpInv, AcpTypeOK
  <2> QED BY <2>1 DEF AcpInv, ModeFirst, Waits
<1> QED BY <1>1, AcpIsInvariant, PTL

\* A completed turn's reply is one message of output.log, and the last line on the thread when
\* it fits in one, for an agent that sends no plan: the runner ends its message at one, the
\* client does not (acp-client contract.ts:125, runner session.ts:510).
THEOREM RepliesAreWritten ==
  ASSUME "plan" \notin Update
  PROVE AcpSpec => ReplyIsWritten
<1>1. AcpInv /\ [AcpNext]_acpVars =>
        [\A t \in Turn : /\ fate[t] = "queued" /\ fate'[t] = "completed" /\ fold.text > 0
                         => /\ fold.text = Clamp(log'.text)
                            /\ fold.text <= LineCap => line' = fold.text]_acpVars
  <2> SUFFICES ASSUME AcpInv, [AcpNext]_acpVars, NEW t \in Turn, fate[t] = "queued", fate'[t] = "completed", fold.text > 0
               PROVE fold.text = Clamp(log'.text) /\ (fold.text <= LineCap => line' = fold.text)
    OBVIOUS
  <2>1. Completes BY FateMoves
  <2>2. FlushOutput /\ stage = "sent" BY <2>1 DEF Completes, Flushes
  <2>3. Spoken BY <2>2 DEF AcpInv, SameCut, Silence
  <2>4. buffer \in Nat /\ log \in [text : Nat, open : BOOLEAN] BY DEF AcpInv, AcpTypeOK
  <2>5. log'.text = log.text + buffer /\ line' = IF buffer = 0 THEN line ELSE Clip(buffer)
    BY <2>2 DEF FlushOutput
  <2>6. LineCap \in Nat /\ ReplyCap \in Nat /\ LineCap <= ReplyCap BY AcpAssumption
  <2>7. fold.text <= LineCap => fold.text = log.text + buffer
    BY <2>3, <2>4, <2>6 DEF Spoken, Clamp
  <2> QED BY <2>3, <2>4, <2>5, <2>6, <2>7 DEF Spoken, Clip
<1> QED BY <1>1, AcpIsInvariant, PTL DEF AcpSpec, ReplyIsWritten
===============================================================================
