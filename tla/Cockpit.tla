--------------------------------- MODULE Cockpit ---------------------------------
(***************************************************************************)
(* The rules of a home in the hands of its clients: the rules screen of a  *)
(* browser page, which works on the list it loaded last; `agile rules`,    *)
(* one call per command, and its seed, which lists and then creates one by *)
(* one; agents that propose.  A client's call may find no daemon, and a    *)
(* daemon may be killed between the write and its answer.                  *)
(***************************************************************************)
EXTENDS Rules

CONSTANTS
  Offer,    \* the tiers and examples rules are proposed with
  NoDraft,
  MaxActs   \* bound: what the operator and the agents do

\* The editor's form: the rule it was opened on, and its fields.
Draft == [id : Id, tier : Tier, examples : {0, MinExamples}, says : Wording]

ASSUME CockpitAssumption ==
  /\ Offer \subseteq [tier : Tier, examples : {0, MinExamples}]
  /\ NoDraft \notin Draft /\ MaxActs \in Nat

VARIABLES
  page,      \* the rules screen: the list it shows, the filter and the ticked ids
  bulk,      \* accept or retire selected: what is left, and how the rest went
  draft,     \* the open editor: the rule and its fields as they were, or as typed since
  seed,      \* `agile rules seed`: whether it runs, and the texts it takes for present
  reworded,  \* the decisions whose wording the operator changed in some rule
  acts

cockpitVars == <<page, bulk, draft, seed, reworded, acts>>
vars == <<ruleVars, cockpitVars>>

NoBulk == [as |-> "none", shown |-> {}, left |-> {}, decided |-> {}, failed |-> {}]

Init ==
  /\ RulesInit
  /\ page = [rules |-> rule, filter |-> "all", selected |-> {}]
  /\ bulk = NoBulk /\ draft = NoDraft
  /\ seed = [on |-> FALSE, known |-> {}]
  /\ reworded = {} /\ acts = 0

Act == acts < MaxActs /\ acts' = acts + 1

\* What else a call that reaches the daemon leaves as it is.
OnlyRules == UNCHANGED <<counters, daemon, parent, faults>>

\* What a change of wording takes away: the text a seeded rule had.
Rewords(i, patch) ==
  IF "says" \in DOMAIN patch /\ rule[i].says \in Text \ {patch.says} THEN {rule[i].says} ELSE {}

-------------------------------------------------------------------------------
(* The command line, and agents *)

Propose(by, scope) ==
  /\ Act
  /\ \E i \in Id, offer \in Offer :
       CreateRule(i, Proposal(by, Own, offer.tier, offer.examples, scope))
  /\ OnlyRules /\ UNCHANGED <<page, bulk, draft, seed, reworded>>

\* propose_rule of a session of s.
ProposeRule(s) == Propose("agent", s)

\* `agile rules add`, and "New rule".
AddRule == Propose("human", "global")

\* `agile rules accept` or `retire`, and the inbox card's buttons.
DecideElsewhere(i, status) ==
  /\ Act /\ DecideRule(i, status)
  /\ OnlyRules /\ UNCHANGED <<page, bulk, draft, seed, reworded>>

\* What one option of `agile rules edit` sends.
CliPatch ==
  {[tier |-> t] : t \in Tier \ {"pattern"}} \cup {[examples |-> n] : n \in {0, MinExamples}}
    \cup {[says |-> Own]}

\* A built-in keeps its pattern, unless the operator gives it another.
MayPatch(i, patch) == rule[i].by = "builtin" /\ "says" \in DOMAIN patch => BuiltinEdits

\* `agile rules edit`.
EditElsewhere(i) ==
  /\ Act
  /\ \E patch \in CliPatch :
       /\ i \in Existing /\ MayPatch(i, patch)
       /\ UpdateRule(i, patch)
       /\ reworded' = reworded \cup Rewords(i, patch)
  /\ OnlyRules /\ UNCHANGED <<page, bulk, draft, seed>>

\* `agile streams` and the page's tree: a new parent.
MoveStream(s, p) == Act /\ Reparent(s, p) /\ UNCHANGED <<page, bulk, draft, seed, reworded>>

-------------------------------------------------------------------------------
(* `agile rules seed` *)

\* Mutant: only the proposals are asked for.
ProposedTexts == {rule[i].says : i \in {j \in Existing : rule[j].status = "proposed"}}

\* rule.list, every status.
PresentTexts == {rule[i].says : i \in Existing}

SeedStart ==
  /\ Act /\ Up /\ ~seed.on
  /\ seed' = [on |-> TRUE, known |-> PresentTexts]
  /\ UNCHANGED <<ruleVars, page, bulk, draft, reworded>>

SeedProposal(t) == Proposal("seed", t, "guidance", 0, "global")

SeedCreate(t) ==
  /\ seed.on /\ t \in Text \ seed.known
  /\ \E i \in Id : CreateRule(i, SeedProposal(t))
  /\ seed' = [seed EXCEPT !.known = @ \cup {t}]
  /\ OnlyRules /\ UNCHANGED <<page, bulk, draft, reworded, acts>>

\* All are there; or the operator ends it; or its call finds no daemon, and it throws.
SeedEnd ==
  /\ seed.on /\ (Text \subseteq seed.known \/ ~Up \/ faults < MaxFaults)
  /\ seed' = [on |-> FALSE, known |-> {}]
  /\ UNCHANGED <<ruleVars, page, bulk, draft, reworded, acts>>

\* The daemon is killed when it has written and not yet answered.
SeedUnanswered(t) ==
  /\ seed.on /\ t \in Text \ seed.known
  /\ \E i \in Id : CreateRule(i, SeedProposal(t))
  /\ Killed
  /\ seed' = [on |-> FALSE, known |-> {}]
  /\ UNCHANGED <<page, bulk, draft, reworded, acts>>

-------------------------------------------------------------------------------
(* The rules screen *)

\* load: on a rule event, after an act of its own, on a visit.
Load ==
  /\ Up /\ page.rules # rule
  /\ page' = [page EXCEPT !.rules = rule]
  /\ UNCHANGED <<ruleVars, bulk, draft, seed, reworded, acts>>

\* filterRules; "card" is what the inbox's batch card opens the screen with.
Matches(r, filter) ==
  /\ r # NoRule
  /\ filter # "all" => r.status = "proposed"
  /\ filter = "card" => r.by = "seed"

Shown == {i \in Id : Matches(page.rules[i], page.filter)}

SetFilter(filter) ==
  /\ Act /\ page.filter # filter
  /\ page' = [page EXCEPT !.filter = filter]
  /\ UNCHANGED <<ruleVars, bulk, draft, seed, reworded>>

\* Select all takes what is shown; a box, one of it.  What a filter hides stays ticked.
SelectAll ==
  /\ Act /\ page.selected # Shown
  /\ page' = [page EXCEPT !.selected = Shown]
  /\ UNCHANGED <<ruleVars, bulk, draft, seed, reworded>>

Toggle(i) ==
  /\ Act /\ i \in Shown
  /\ page' = [page EXCEPT !.selected = IF i \in @ THEN @ \ {i} ELSE @ \cup {i}]
  /\ UNCHANGED <<ruleVars, bulk, draft, seed, reworded>>

\* Mutant: every ticked rule, on the screen or not.
PickedEverywhere == page.selected

Picked == Shown \cap page.selected

\* bulk: it works on the rules picked when it was pressed, one call after the other.
BulkStart(as) ==
  /\ Act /\ bulk.as \in {"none", "ended"} /\ Picked # {}
  /\ bulk' = [as |-> as, shown |-> Shown \cap page.selected, left |-> Picked, decided |-> {}, failed |-> {}]
  /\ UNCHANGED <<ruleVars, page, draft, seed, reworded>>

BulkDecide(i) ==
  /\ i \in bulk.left /\ DecideRule(i, bulk.as)
  /\ bulk' = [bulk EXCEPT !.left = @ \ {i}, !.decided = @ \cup {i}]
  /\ OnlyRules /\ UNCHANGED <<page, draft, seed, reworded, acts>>

\* Decided already, not acceptable, or no daemon: the rule is named and the loop goes on.
BulkRefused(i) ==
  /\ i \in bulk.left /\ (~Up \/ ~Decidable(i, bulk.as))
  /\ bulk' = [bulk EXCEPT !.left = @ \ {i}, !.failed = @ \cup {i}]
  /\ UNCHANGED <<ruleVars, page, draft, seed, reworded, acts>>

BulkUnanswered(i) ==
  /\ i \in bulk.left /\ DecideRule(i, bulk.as) /\ Killed
  /\ bulk' = [bulk EXCEPT !.left = @ \ {i}, !.decided = @ \cup {i}, !.failed = @ \cup {i}]
  /\ UNCHANGED <<page, draft, seed, reworded, acts>>

\* The errors are shown, nothing is selected any more, and the list is loaded again (Load).
BulkEnd ==
  /\ bulk.as \in {"accepted", "retired"} /\ bulk.left = {}
  /\ bulk' = [bulk EXCEPT !.as = "ended"]
  /\ page' = [page EXCEPT !.selected = {}]
  /\ UNCHANGED <<ruleVars, draft, seed, reworded, acts>>

-------------------------------------------------------------------------------
(* The editor *)

\* draftOf: the fields as the list had them when it was opened.
OpenEditor(i) ==
  /\ Act /\ draft = NoDraft /\ i \in Shown
  /\ draft' = [id |-> i, tier |-> page.rules[i].tier, examples |-> page.rules[i].examples,
               says |-> page.rules[i].says]
  /\ UNCHANGED <<ruleVars, page, bulk, seed, reworded>>

\* The operator changes one of them.
Type(patch) ==
  /\ Act /\ draft # NoDraft /\ MayPatch(draft.id, patch)
  /\ draft' = Patched(draft, patch) /\ draft' # draft
  /\ UNCHANGED <<ruleVars, page, bulk, seed, reworded>>

\* patchOf: the patch names every field of the form, changed or not.
PatchOf(d) == [tier |-> d.tier, examples |-> d.examples, says |-> d.says]

SaveEditor ==
  /\ draft # NoDraft
  /\ UpdateRule(draft.id, PatchOf(draft))
  /\ reworded' = reworded \cup Rewords(draft.id, PatchOf(draft))
  /\ draft' = NoDraft
  /\ OnlyRules /\ UNCHANGED <<page, bulk, seed, acts>>

CloseEditor ==
  /\ draft # NoDraft /\ draft' = NoDraft
  /\ UNCHANGED <<ruleVars, page, bulk, seed, reworded, acts>>

-------------------------------------------------------------------------------
Next ==
  \/ DaemonNext /\ UNCHANGED cockpitVars
  \/ \E s \in Stream : ProposeRule(s)
  \/ AddRule
  \/ \E i \in Id, status \in {"accepted", "retired"} : DecideElsewhere(i, status)
  \/ \E i \in Id : EditElsewhere(i)
  \/ \E s \in Stream, p \in Stream \cup {Unknown} : MoveStream(s, p)
  \/ SeedStart \/ SeedEnd
  \/ \E t \in Text : SeedCreate(t) \/ SeedUnanswered(t)
  \/ Load \/ SelectAll \/ BulkEnd \/ SaveEditor \/ CloseEditor
  \/ \E filter \in {"all", "proposed", "card"} : SetFilter(filter)
  \/ \E i \in Id : Toggle(i) \/ OpenEditor(i)
  \/ \E as \in {"accepted", "retired"} : BulkStart(as)
  \/ \E i \in Id : BulkDecide(i) \/ BulkRefused(i) \/ BulkUnanswered(i)
  \/ \E patch \in CliPatch : Type(patch)

Spec == Init /\ [][Next]_vars

-------------------------------------------------------------------------------
\* A bulk decision touches no rule that was not ticked and on the screen when it was pressed,
\* and at its end each of those was decided or is named among the errors, whatever others
\* decided meanwhile and whenever the daemon was killed (bulk in Rules.tsx).
BulkDoesWhatItSays ==
  /\ bulk.decided \subseteq bulk.shown
  /\ bulk.as = "ended" => bulk.shown = bulk.decided \cup bulk.failed

\* However often the seed is run, and wherever a run ended, a decision is proposed once, unless
\* the operator reworded the rule it became: "a decision whose text is already a rule is
\* skipped, so a second run creates nothing" (runRulesSeed).
SeedsOnce ==
  \A i, j \in Existing :
    rule[i].by = "seed" /\ rule[j].by = "seed" /\ rule[i].says = rule[j].says
      /\ rule[i].says \in Text \ reworded => i = j
===============================================================================
