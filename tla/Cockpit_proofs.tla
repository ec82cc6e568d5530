----------------------------- MODULE Cockpit_proofs -----------------------------
(***************************************************************************)
(* What the rules and the Rules page promise, for any home, any streams    *)
(* and texts, any number of rules, and whatever is decided, edited,        *)
(* seeded, killed and started in between. A rule changes in three ways     *)
(* only (RuleSteps); what a list or an open form still shows of it is old, *)
(* but never says something else of a rule that cannot have been reworded  *)
(* (Stale). On the settings, for any repos, screens, pickers, vendors and  *)
(* models, and whatever order saves, hand edits and `repo add` come in.    *)
(***************************************************************************)
EXTENDS Cockpit, Settings, FiniteSetTheorems, TLAPS

\* What the page, a bulk decision, the form and the seed may hold.
CockpitTypeOK ==
  /\ page \in [rules : [Id -> Rule \cup {NoRule}], filter : {"all", "proposed", "card"}, selected : SUBSET Id]
  /\ bulk \in [as : {"none", "accepted", "retired", "ended"}, shown : SUBSET Id, left : SUBSET Id,
               decided : SUBSET Id, failed : SUBSET Id]
  /\ draft \in Draft \cup {NoDraft}
  /\ seed \in [on : BOOLEAN, known : SUBSET Wording]
  /\ reworded \in SUBSET Text /\ acts \in Nat

Typed == RulesTypeOK /\ CockpitTypeOK

\* A patch changes what it names, and only that.
LEMMA PatchedRule ==
  ASSUME NEW r \in Rule, NEW patch \in CliPatch
  PROVE /\ Patched(r, patch) \in Rule
        /\ Patched(r, patch).by = r.by /\ Patched(r, patch).status = r.status
        /\ Patched(r, patch).says = IF "says" \in DOMAIN patch THEN Own ELSE r.says
        /\ "says" \in DOMAIN patch => patch.says = Own
<1>1. DOMAIN r = {"by", "says", "status", "tier", "examples", "scope"} BY DEF Rule
<1>2. CASE \E t \in Tier : patch = [tier |-> t] BY <1>1, <1>2 DEF Patched, Rule
<1>3. CASE \E n \in {0, MinExamples} : patch = [examples |-> n] BY <1>1, <1>3 DEF Patched, Rule
<1>4. CASE patch = [says |-> Own] BY <1>1, <1>4 DEF Patched, Rule, Wording
<1> QED BY <1>2, <1>3, <1>4 DEF CliPatch

LEMMA PatchedDraft ==
  ASSUME NEW d \in Draft, NEW patch \in CliPatch
  PROVE /\ Patched(d, patch) \in Draft
        /\ Patched(d, patch).id = d.id
        /\ Patched(d, patch).says = IF "says" \in DOMAIN patch THEN Own ELSE d.says
<1>1. DOMAIN d = {"id", "says", "tier", "examples"} BY DEF Draft
<1>2. CASE \E t \in Tier : patch = [tier |-> t] BY <1>1, <1>2 DEF Patched, Draft
<1>3. CASE \E n \in {0, MinExamples} : patch = [examples |-> n] BY <1>1, <1>3 DEF Patched, Draft
<1>4. CASE patch = [says |-> Own] BY <1>1, <1>4 DEF Patched, Draft, Wording
<1> QED BY <1>2, <1>3, <1>4 DEF CliPatch

LEMMA SavedRule ==
  ASSUME NEW r \in Rule, NEW d \in Draft
  PROVE /\ Patched(r, PatchOf(d)) \in Rule
        /\ Patched(r, PatchOf(d)).by = r.by /\ Patched(r, PatchOf(d)).status = r.status
        /\ Patched(r, PatchOf(d)).says = d.says /\ PatchOf(d).says = d.says
        /\ "says" \in DOMAIN PatchOf(d)
<1>1. DOMAIN r = {"by", "says", "status", "tier", "examples", "scope"} BY DEF Rule
<1> QED BY <1>1 DEF Patched, Rule, Draft, PatchOf

-------------------------------------------------------------------------------
(* What a step does to the records *)

\* The records stay as they are.
Kept == rule' = rule /\ reworded' = reworded

\* A rule r gets the free id i: a built-in in the daemon's start, for a kind it found missing; a
\* seed's while the seed runs, for a text it did not know.
Created(i, r) ==
  /\ i \in Id /\ rule[i] = NoRule /\ r \in Rule
  /\ rule' = [rule EXCEPT ![i] = r] /\ reworded' = reworded /\ Acceptable(r)
  /\ r.by = "builtin" =>
       /\ daemon.phase = "ensuring" /\ r.says \in daemon.missing
       /\ daemon' = [daemon EXCEPT !.missing = @ \ {r.says}]
  /\ r.by # "builtin" => daemon' = daemon \/ daemon' = [phase |-> "down", missing |-> {}]
  /\ r.by = "seed" =>
       /\ seed.on /\ r.says \in Text \ seed.known
       /\ seed'.on => seed'.known = seed.known \cup {r.says}
  /\ r.by # "seed" => seed' = seed

\* The rule i becomes r: its author stays, and a built-in's or a text's wording is marked reworded
\* or stays.
Changed(i, r) ==
  /\ i \in Existing /\ r \in Rule
  /\ rule' = [rule EXCEPT ![i] = r] /\ Acceptable(r)
  /\ r.by = rule[i].by
  /\ daemon' = daemon \/ daemon' = [phase |-> "down", missing |-> {}]
  /\ seed' = seed
  /\ reworded' = reworded \cup (IF rule[i].says \in Text \ {r.says} THEN {rule[i].says} ELSE {})
  /\ r.by = "builtin" /\ ~BuiltinEdits => r.says = rule[i].says
  /\ r.says \in Text \ reworded => r.says = rule[i].says

\* An old wording of the rule i is its wording still, where it cannot have been changed.
Stale(old, i) ==
  /\ rule[i] # NoRule
  /\ rule[i].by = "builtin" /\ ~BuiltinEdits => old.says = rule[i].says
  /\ old.says \in Text \ reworded => old.says = rule[i].says
\* So it is with the list a page shows, and with the form opened on it.
OldLists == \A i \in Id : page.rules[i] # NoRule => Stale(page.rules[i], i)
OldForm == draft # NoDraft => Stale(draft, draft.id)

\* Each rule of a bulk decision is still to be decided, was decided or was refused.
BulkAddsUp ==
  /\ bulk.shown = bulk.left \cup bulk.decided \cup bulk.failed
  /\ bulk.as \in {"none", "ended"} => bulk.left = {}

LEMMA Members ==
  ASSUME Typed PROVE \A i \in Existing : i \in Id /\ rule[i] \in Rule
  BY DEF Typed, RulesTypeOK, Existing

\* Accepting, retiring, editing and saving change one rule.
LEMMA DecidedIsChanged ==
  ASSUME Typed, NEW i \in Id, NEW to \in {"accepted", "retired"}, DecideRule(i, to),
         reworded' = reworded, seed' = seed,
         daemon' = daemon \/ daemon' = [phase |-> "down", missing |-> {}]
  PROVE \E r \in Rule : Changed(i, r)
<1> DEFINE r == [rule[i] EXCEPT !.status = to]
<1>1. i \in Existing /\ rule[i] \in Rule BY Members DEF DecideRule, Decidable
<1>2. r \in Rule /\ r.by = rule[i].by /\ r.says = rule[i].says BY <1>1 DEF Rule, Status
<1>3. Put(i, r) BY DEF DecideRule
<1> HIDE DEF r
<1>4. Changed(i, r) BY <1>1, <1>2, <1>3 DEF Changed, Put
<1> QED BY <1>2, <1>4

LEMMA EditedIsChanged ==
  ASSUME Typed, NEW i \in Id, EditElsewhere(i)
  PROVE \E r \in Rule : Changed(i, r)
<1>1. PICK patch \in CliPatch : 
         /\ i \in Existing /\ MayPatch(i, patch) /\ UpdateRule(i, patch)
         /\ reworded' = reworded \cup Rewords(i, patch)
  BY DEF EditElsewhere
<1>2. daemon' = daemon /\ seed' = seed BY DEF EditElsewhere, OnlyRules
<1> DEFINE r == Patched(rule[i], patch)
<1>3. rule[i] \in Rule BY <1>1, Members
<1>4. /\ r \in Rule /\ r.by = rule[i].by
      /\ "says" \in DOMAIN patch => patch.says = Own
      /\ r.says = IF "says" \in DOMAIN patch THEN Own ELSE rule[i].says
  BY <1>3, PatchedRule
<1>5. Put(i, r) BY <1>1 DEF UpdateRule
<1> HIDE DEF r
<1>6. r.by = "builtin" /\ ~BuiltinEdits => r.says = rule[i].says
  BY <1>1, <1>4 DEF MayPatch
<1>7. Rewords(i, patch) = IF rule[i].says \in Text \ {r.says} THEN {rule[i].says} ELSE {}
  BY <1>4 DEF Rewords
<1>8. Own \notin Text BY RulesAssumption
<1>9. Changed(i, r) BY <1>1, <1>2, <1>3, <1>4, <1>5, <1>6, <1>7, <1>8 DEF Changed, Put
<1> QED BY <1>4, <1>9

LEMMA SavedIsChanged ==
  ASSUME Typed, OldForm, SaveEditor
  PROVE draft.id \in Id /\ \E r \in Rule : Changed(draft.id, r)
<1> DEFINE i == draft.id  r == Patched(rule[i], PatchOf(draft))
<1>1. draft \in Draft /\ i \in Id BY DEF Typed, CockpitTypeOK, SaveEditor, Draft
<1>2. /\ daemon' = daemon /\ seed' = seed /\ i \in Existing /\ Put(i, r)
      /\ reworded' = reworded \cup Rewords(i, PatchOf(draft))
  BY DEF SaveEditor, OnlyRules, UpdateRule
<1>3. rule[i] \in Rule BY <1>2, Members
<1>4. /\ r \in Rule /\ r.by = rule[i].by /\ r.says = draft.says /\ PatchOf(draft).says = draft.says
      /\ "says" \in DOMAIN PatchOf(draft)
  BY <1>1, <1>3, SavedRule
<1>5. Stale(draft, i) BY DEF OldForm, SaveEditor
<1> HIDE DEF i, r
<1>6. Rewords(i, PatchOf(draft)) = IF rule[i].says \in Text \ {r.says} THEN {rule[i].says} ELSE {}
  BY <1>4 DEF Rewords
<1>7. Changed(i, r) BY <1>1, <1>2, <1>3, <1>4, <1>5, <1>6 DEF Changed, Put, Stale
<1> QED BY <1>1, <1>4, <1>7 DEF i

\* Proposing, seeding and the daemon's start create one.
LEMMA ProposedIsCreated ==
  ASSUME Typed, NEW by \in {"agent", "human"}, NEW scope \in Stream \cup {"global"}, Propose(by, scope)
  PROVE \E i \in Id, r \in Rule : Created(i, r)
<1>1. PICK i \in Id, offer \in Offer :
        CreateRule(i, Proposal(by, Own, offer.tier, offer.examples, scope))
  BY DEF Propose
<1> DEFINE r == Proposal(by, Own, offer.tier, offer.examples, scope)
<1>2. offer \in [tier : Tier, examples : {0, MinExamples}] BY CockpitAssumption
<1>3. r \in Rule /\ r.by \notin {"builtin", "seed"} /\ Acceptable(r)
  BY <1>2 DEF Proposal, Rule, Author, Wording, Status, Acceptable
<1>4. rule[i] = NoRule /\ rule' = [rule EXCEPT ![i] = r]
  BY <1>1 DEF CreateRule, Fresh, Existing
<1> HIDE DEF r
<1>5. UNCHANGED <<daemon, seed, reworded>> BY DEF Propose, OnlyRules
<1> QED BY <1>3, <1>4, <1>5 DEF Created

LEMMA SeededIsCreated ==
  ASSUME Typed, NEW t \in Text, SeedCreate(t) \/ SeedUnanswered(t)
  PROVE \E i \in Id, r \in Rule : Created(i, r)
<1>1. PICK i \in Id : CreateRule(i, SeedProposal(t)) BY DEF SeedCreate, SeedUnanswered
<1> DEFINE r == SeedProposal(t)
<1>2. r \in Rule /\ r.by = "seed" /\ r.says = t /\ Acceptable(r)
  BY DEF SeedProposal, Proposal, Rule, Author, Wording, Status, Tier, Acceptable
<1>3. rule[i] = NoRule /\ rule' = [rule EXCEPT ![i] = r]
  BY <1>1 DEF CreateRule, Fresh, Existing
<1> HIDE DEF r
<1>4. /\ reworded' = reworded /\ seed.on /\ t \in Text \ seed.known
      /\ seed'.on => seed'.known = seed.known \cup {t}
      /\ daemon' = daemon \/ daemon' = [phase |-> "down", missing |-> {}]
  BY DEF SeedCreate, SeedUnanswered, OnlyRules, Killed, Typed, CockpitTypeOK
<1> QED BY <1>2, <1>3, <1>4 DEF Created

LEMMA EnsuredIsCreated ==
  ASSUME Typed, NEW k \in Kind, NEW i \in Id, EnsureBuiltin(k, i), UNCHANGED cockpitVars
  PROVE \E r \in Rule : Created(i, r) 
<1> DEFINE r == [by |-> "builtin", says |-> k, status |-> IF k \in AcceptedKind THEN "accepted" ELSE "retired",
        tier |-> "pattern", examples |-> 0, scope |-> "global"]
<1>1. r \in Rule /\ r.by = "builtin" /\ r.says = k /\ Acceptable(r)
  BY DEF Rule, Author, Wording, Status, Tier, Acceptable
<1>2. rule[i] = NoRule /\ rule' = [rule EXCEPT ![i] = r]
  BY DEF EnsureBuiltin, Fresh, Existing
<1> HIDE DEF r
<1>3. /\ reworded' = reworded /\ seed' = seed
      /\ daemon.phase = "ensuring" /\ k \in daemon.missing
      /\ daemon' = [daemon EXCEPT !.missing = @ \ {k}]
  BY DEF EnsureBuiltin, cockpitVars
<1> QED BY <1>1, <1>2, <1>3 DEF Created

\* Every step keeps the records, or creates one, or changes one.
LEMMA RuleSteps ==
  ASSUME Typed, OldForm, BulkAddsUp, [Next]_vars
  PROVE Kept \/ \E i \in Id, r \in Rule : Created(i, r) \/ Changed(i, r)
<1>1. ASSUME DaemonNext, UNCHANGED cockpitVars
      PROVE Kept \/ \E i \in Id, r \in Rule : Created(i, r)
  <2>1. ASSUME NEW k \in Kind, NEW i \in Id, EnsureBuiltin(k, i) PROVE \E r \in Rule : Created(i, r)
    BY <1>1, <2>1, EnsuredIsCreated
  <2> QED BY <1>1, <2>1 DEF DaemonNext, StartDaemon, Serve, KillDaemon, StopDaemon, ExitDaemon,
                   FlushStats, WriteStats, DropStats, Fire, Kept, cockpitVars, Killed
<1>2. ASSUME NEW s \in Stream, ProposeRule(s) PROVE \E i \in Id, r \in Rule : Created(i, r)
  BY <1>2, ProposedIsCreated DEF ProposeRule
<1>3. ASSUME AddRule PROVE \E i \in Id, r \in Rule : Created(i, r)
  BY <1>3, ProposedIsCreated DEF AddRule
<1>4. ASSUME NEW i \in Id, NEW to \in {"accepted", "retired"}, DecideElsewhere(i, to)
      PROVE \E r \in Rule : Changed(i, r)
  BY <1>4, DecidedIsChanged DEF DecideElsewhere, OnlyRules
<1>5. ASSUME NEW i \in Id, EditElsewhere(i) PROVE \E r \in Rule : Changed(i, r)
  BY <1>5, EditedIsChanged
<1>6. ASSUME NEW t \in Text, SeedCreate(t) \/ SeedUnanswered(t)
      PROVE \E i \in Id, r \in Rule : Created(i, r)
  BY <1>6, SeededIsCreated
<1>7. ASSUME SaveEditor PROVE \E i \in Id, r \in Rule : Changed(i, r)
  BY <1>7, SavedIsChanged
<1>8. ASSUME NEW i \in Id, BulkDecide(i) \/ BulkUnanswered(i) PROVE \E r \in Rule : Changed(i, r)
  <2>1. DecideRule(i, bulk.as) /\ bulk.as \in {"accepted", "retired"}
    BY <1>8 DEF BulkDecide, BulkUnanswered, BulkAddsUp, Typed, CockpitTypeOK
  <2>2. UNCHANGED <<reworded, seed>> BY <1>8 DEF BulkDecide, BulkUnanswered
  <2>3. daemon' = daemon \/ daemon' = [phase |-> "down", missing |-> {}]
    BY <1>8 DEF BulkDecide, BulkUnanswered, OnlyRules, Killed
  <2> QED BY <2>1, <2>2, <2>3, DecidedIsChanged
<1>9. CASE UNCHANGED vars BY <1>9 DEF vars, ruleVars, cockpitVars, Kept
<1>10. ASSUME SeedStart \/ SeedEnd \/ Load \/ SelectAll \/ BulkEnd \/ CloseEditor PROVE Kept
  BY <1>10 DEF ruleVars, Kept, SeedStart, SeedEnd, Load, SelectAll, BulkEnd, CloseEditor
<1>11. ASSUME NEW s \in Stream, NEW p \in Stream \cup {Unknown}, MoveStream(s, p) PROVE Kept
  BY <1>11 DEF Kept, MoveStream, Reparent
<1>12. ASSUME NEW filter \in {"all", "proposed", "card"}, SetFilter(filter) PROVE Kept
  BY <1>12 DEF Kept, SetFilter, ruleVars
<1>13. ASSUME NEW i \in Id, Toggle(i) \/ OpenEditor(i) \/ BulkRefused(i) PROVE Kept
  BY <1>13 DEF Kept, Toggle, OpenEditor, BulkRefused, ruleVars
<1>14. ASSUME NEW as \in {"accepted", "retired"}, BulkStart(as) PROVE Kept
  BY <1>14 DEF Kept, BulkStart, ruleVars
<1>15. ASSUME NEW patch \in CliPatch, Type(patch) PROVE Kept
  BY <1>15 DEF Kept, Type, ruleVars
<1> QED
  BY <1>1, <1>2, <1>3, <1>4, <1>5, <1>6, <1>7, <1>8, <1>9, <1>10, <1>11, <1>12, <1>13, <1>14, <1>15
  DEF Next

\* What else a step does to the home.
LEMMA HomeSteps ==
  ASSUME [Next]_vars
  PROVE \/ UNCHANGED <<counters, daemon, parent, faults>>
        \/ DaemonNext \/ Killed
        \/ \E s \in Stream, p \in Stream \cup {Unknown} : Reparent(s, p)
<1> DEFINE AsBefore == UNCHANGED <<counters, daemon, parent, faults>>
<1>1. CASE UNCHANGED vars BY <1>1 DEF vars, ruleVars, counters
<1>2. ASSUME NEW s \in Stream, ProposeRule(s) PROVE AsBefore
  BY <1>2 DEF ProposeRule, Propose, OnlyRules
<1>3. ASSUME NEW i \in Id, NEW to \in {"accepted", "retired"}, DecideElsewhere(i, to) PROVE AsBefore
  BY <1>3 DEF DecideElsewhere, OnlyRules
<1>4. ASSUME NEW i \in Id, EditElsewhere(i) PROVE AsBefore
  BY <1>4 DEF EditElsewhere, OnlyRules
<1>5. ASSUME NEW t \in Text, SeedCreate(t) \/ SeedUnanswered(t) PROVE AsBefore \/ Killed
  BY <1>5 DEF SeedCreate, SeedUnanswered, OnlyRules
<1>6. ASSUME NEW i \in Id, BulkDecide(i) \/ BulkUnanswered(i) PROVE AsBefore \/ Killed
  BY <1>6 DEF BulkDecide, BulkUnanswered, OnlyRules
<1>7. ASSUME AddRule \/ SaveEditor PROVE AsBefore
  BY <1>7 DEF AddRule, Propose, SaveEditor, OnlyRules
<1>8. ASSUME SeedStart \/ SeedEnd \/ Load \/ SelectAll \/ BulkEnd \/ CloseEditor PROVE AsBefore
  BY <1>8 DEF ruleVars, counters, SeedStart, SeedEnd, Load, SelectAll, BulkEnd, CloseEditor
<1>9. ASSUME NEW s \in Stream, NEW p \in Stream \cup {Unknown}, MoveStream(s, p)
      PROVE Reparent(s, p)
  BY <1>9 DEF MoveStream
<1>10. ASSUME NEW filter \in {"all", "proposed", "card"}, SetFilter(filter) PROVE AsBefore
  BY <1>10 DEF SetFilter, ruleVars, counters
<1>11. ASSUME NEW i \in Id, Toggle(i) \/ OpenEditor(i) \/ BulkRefused(i) PROVE AsBefore
  BY <1>11 DEF Toggle, OpenEditor, BulkRefused, ruleVars, counters
<1>12. ASSUME NEW as \in {"accepted", "retired"}, BulkStart(as) PROVE AsBefore
  BY <1>12 DEF BulkStart, ruleVars, counters
<1>13. ASSUME NEW patch \in CliPatch, Type(patch) PROVE AsBefore
  BY <1>13 DEF Type, ruleVars, counters
<1> QED
  BY <1>1, <1>2, <1>3, <1>4, <1>5, <1>6, <1>7, <1>8, <1>9, <1>10, <1>11, <1>12, <1>13 DEF Next

\* The page: kept, loaded, filtered, or with another selection.
LEMMA PageSteps ==
  ASSUME [Next]_vars
  PROVE \/ UNCHANGED page
        \/ Load
        \/ \E filter \in {"all", "proposed", "card"} : SetFilter(filter)
        \/ \E selected \in {Shown, {}} \cup {page.selected \ {i} : i \in Id} \cup {page.selected \cup {i} : i \in Id} :
              page' = [page EXCEPT !.selected = selected]
<1> DEFINE Same == UNCHANGED page
<1>1. CASE UNCHANGED vars BY <1>1 DEF vars, cockpitVars
<1>2. ASSUME NEW s \in Stream, ProposeRule(s) PROVE Same
  BY <1>2 DEF ProposeRule, Propose
<1>3. ASSUME NEW i \in Id, NEW to \in {"accepted", "retired"}, DecideElsewhere(i, to) PROVE Same
  BY <1>3 DEF DecideElsewhere
<1>4. ASSUME NEW i \in Id, EditElsewhere(i) PROVE Same BY <1>4 DEF EditElsewhere
<1>5. ASSUME NEW t \in Text, SeedCreate(t) \/ SeedUnanswered(t) PROVE Same
  BY <1>5 DEF SeedCreate, SeedUnanswered
<1>6. ASSUME NEW i \in Id, BulkDecide(i) \/ BulkUnanswered(i) \/ BulkRefused(i) \/ OpenEditor(i)
      PROVE Same
  BY <1>6 DEF BulkDecide, BulkUnanswered, BulkRefused, OpenEditor
<1>7. ASSUME AddRule \/ SaveEditor \/ SeedStart \/ SeedEnd \/ CloseEditor PROVE Same
  BY <1>7 DEF AddRule, Propose, SaveEditor, SeedStart, SeedEnd, CloseEditor
<1>8. ASSUME DaemonNext, UNCHANGED cockpitVars PROVE Same BY <1>8 DEF cockpitVars
<1>9. ASSUME NEW s \in Stream, NEW p \in Stream \cup {Unknown}, MoveStream(s, p) PROVE Same
  BY <1>9 DEF MoveStream
<1>10. ASSUME NEW as \in {"accepted", "retired"}, BulkStart(as) PROVE Same BY <1>10 DEF BulkStart
<1>11. ASSUME NEW patch \in CliPatch, Type(patch) PROVE Same BY <1>11 DEF Type
<1>12. ASSUME SelectAll \/ BulkEnd
       PROVE \E selected \in {Shown, {}} : page' = [page EXCEPT !.selected = selected]
  BY <1>12 DEF SelectAll, BulkEnd
<1>13. ASSUME NEW i \in Id, Toggle(i)
       PROVE \E selected \in {page.selected \ {i}, page.selected \cup {i}} : page' = [page EXCEPT !.selected = selected]
  BY <1>13 DEF Toggle
<1> QED
  BY <1>1, <1>2, <1>3, <1>4, <1>5, <1>6, <1>7, <1>8, <1>9, <1>10, <1>11, <1>12, <1>13 DEF Next

\* The open form: kept, opened on what the list shows, typed into or gone.
LEMMA FormSteps ==
  ASSUME [Next]_vars
  PROVE \/ UNCHANGED draft \/ draft' = NoDraft
        \/ \E i \in Id : OpenEditor(i)
        \/ \E patch \in CliPatch : Type(patch)
<1> DEFINE Same == UNCHANGED draft
<1>1. CASE UNCHANGED vars BY <1>1 DEF vars, cockpitVars
<1>2. ASSUME NEW s \in Stream, ProposeRule(s) PROVE Same
  BY <1>2 DEF ProposeRule, Propose
<1>3. ASSUME NEW i \in Id, NEW to \in {"accepted", "retired"}, DecideElsewhere(i, to) PROVE Same
  BY <1>3 DEF DecideElsewhere
<1>4. ASSUME NEW i \in Id, EditElsewhere(i) PROVE Same BY <1>4 DEF EditElsewhere
<1>5. ASSUME NEW t \in Text, SeedCreate(t) \/ SeedUnanswered(t) PROVE Same
  BY <1>5 DEF SeedCreate, SeedUnanswered
<1>6. ASSUME NEW i \in Id, BulkDecide(i) \/ BulkUnanswered(i) \/ BulkRefused(i) \/ Toggle(i)
      PROVE Same
  BY <1>6 DEF BulkDecide, BulkUnanswered, BulkRefused, Toggle
<1>7. ASSUME AddRule \/ SeedStart \/ SeedEnd \/ Load \/ SelectAll \/ BulkEnd PROVE Same
  BY <1>7 DEF AddRule, Propose, SeedStart, SeedEnd, Load, SelectAll, BulkEnd
<1>8. ASSUME DaemonNext, UNCHANGED cockpitVars PROVE Same BY <1>8 DEF cockpitVars
<1>9. ASSUME NEW s \in Stream, NEW p \in Stream \cup {Unknown}, MoveStream(s, p) PROVE Same
  BY <1>9 DEF MoveStream
<1>10. ASSUME NEW as \in {"accepted", "retired"}, BulkStart(as) PROVE Same BY <1>10 DEF BulkStart
<1>11. ASSUME NEW filter \in {"all", "proposed", "card"}, SetFilter(filter) PROVE Same
  BY <1>11 DEF SetFilter
<1>12. ASSUME SaveEditor \/ CloseEditor PROVE draft' = NoDraft
  BY <1>12 DEF SaveEditor, CloseEditor
<1> QED
  BY <1>1, <1>2, <1>3, <1>4, <1>5, <1>6, <1>7, <1>8, <1>9, <1>10, <1>11, <1>12 DEF Next

\* The seed: kept, started, stopped, or one text further.
LEMMA SeedSteps ==
  ASSUME [Next]_vars
  PROVE \/ UNCHANGED seed \/ SeedStart \/ seed' = [on |-> FALSE, known |-> {}]
        \/ \E t \in Text : SeedCreate(t)
<1> DEFINE Same == UNCHANGED seed
<1>1. CASE UNCHANGED vars BY <1>1 DEF vars, cockpitVars
<1>2. ASSUME NEW s \in Stream, ProposeRule(s) PROVE Same
  BY <1>2 DEF ProposeRule, Propose
<1>3. ASSUME NEW i \in Id, NEW to \in {"accepted", "retired"}, DecideElsewhere(i, to) PROVE Same
  BY <1>3 DEF DecideElsewhere
<1>4. ASSUME NEW i \in Id, EditElsewhere(i) PROVE Same BY <1>4 DEF EditElsewhere
<1>5. ASSUME NEW t \in Text, SeedUnanswered(t) PROVE seed' = [on |-> FALSE, known |-> {}]
  BY <1>5 DEF SeedUnanswered
<1>6. ASSUME NEW i \in Id,
             BulkDecide(i) \/ BulkUnanswered(i) \/ BulkRefused(i) \/ Toggle(i) \/ OpenEditor(i)
      PROVE Same
  BY <1>6 DEF BulkDecide, BulkUnanswered, BulkRefused, Toggle, OpenEditor
<1>7. ASSUME AddRule \/ Load \/ SelectAll \/ BulkEnd \/ SaveEditor \/ CloseEditor PROVE Same
  BY <1>7 DEF AddRule, Propose, Load, SelectAll, BulkEnd, SaveEditor, CloseEditor
<1>8. ASSUME DaemonNext, UNCHANGED cockpitVars PROVE Same BY <1>8 DEF cockpitVars
<1>9. ASSUME NEW s \in Stream, NEW p \in Stream \cup {Unknown}, MoveStream(s, p) PROVE Same
  BY <1>9 DEF MoveStream
<1>10. ASSUME NEW as \in {"accepted", "retired"}, BulkStart(as) PROVE Same BY <1>10 DEF BulkStart
<1>11. ASSUME NEW filter \in {"all", "proposed", "card"}, SetFilter(filter) PROVE Same
  BY <1>11 DEF SetFilter
<1>12. ASSUME NEW patch \in CliPatch, Type(patch) PROVE Same BY <1>12 DEF Type
<1>13. SeedEnd => seed' = [on |-> FALSE, known |-> {}] BY DEF SeedEnd
<1> QED
  BY <1>1, <1>2, <1>3, <1>4, <1>5, <1>6, <1>7, <1>8, <1>9, <1>10, <1>11, <1>12, <1>13 DEF Next

\* A bulk decision: kept, pressed, one rule further, or over.
LEMMA BulkSteps ==
  ASSUME [Next]_vars
  PROVE \/ UNCHANGED bulk \/ BulkEnd
        \/ \E as \in {"accepted", "retired"} : BulkStart(as)
        \/ \E i \in Id : BulkDecide(i) \/ BulkRefused(i) \/ BulkUnanswered(i)
<1> DEFINE Same == UNCHANGED bulk
<1>1. CASE UNCHANGED vars BY <1>1 DEF vars, cockpitVars
<1>2. ASSUME NEW s \in Stream, ProposeRule(s) PROVE Same
  BY <1>2 DEF ProposeRule, Propose
<1>3. ASSUME NEW i \in Id, NEW to \in {"accepted", "retired"}, DecideElsewhere(i, to) PROVE Same
  BY <1>3 DEF DecideElsewhere
<1>4. ASSUME NEW i \in Id, EditElsewhere(i) PROVE Same BY <1>4 DEF EditElsewhere
<1>5. ASSUME NEW t \in Text, SeedCreate(t) \/ SeedUnanswered(t) PROVE Same
  BY <1>5 DEF SeedCreate, SeedUnanswered
<1>6. ASSUME NEW i \in Id, Toggle(i) \/ OpenEditor(i) PROVE Same
  BY <1>6 DEF Toggle, OpenEditor
<1>7. ASSUME AddRule \/ SeedStart \/ SeedEnd \/ Load \/ SelectAll \/ SaveEditor \/ CloseEditor
      PROVE Same
  BY <1>7 DEF AddRule, Propose, SeedStart, SeedEnd, Load, SelectAll, SaveEditor, CloseEditor
<1>8. ASSUME DaemonNext, UNCHANGED cockpitVars PROVE Same BY <1>8 DEF cockpitVars
<1>9. ASSUME NEW s \in Stream, NEW p \in Stream \cup {Unknown}, MoveStream(s, p) PROVE Same
  BY <1>9 DEF MoveStream
<1>10. ASSUME NEW filter \in {"all", "proposed", "card"}, SetFilter(filter) PROVE Same
  BY <1>10 DEF SetFilter
<1>11. ASSUME NEW patch \in CliPatch, Type(patch) PROVE Same BY <1>11 DEF Type
<1> QED
  BY <1>1, <1>2, <1>3, <1>4, <1>5, <1>6, <1>7, <1>8, <1>9, <1>10, <1>11 DEF Next

-------------------------------------------------------------------------------
(* Types *)

\* What the operator does is counted.
LEMMA ActsAreCounted ==
  ASSUME acts \in Nat, [Next]_vars
  PROVE acts' \in Nat
<1>1. Act \/ UNCHANGED acts
  BY
  DEF Next, vars, cockpitVars, ProposeRule, Propose, AddRule, DecideElsewhere, EditElsewhere,
      MoveStream,
      SeedStart, SeedEnd, SeedCreate, SeedUnanswered, Load, SelectAll, BulkEnd, SaveEditor, CloseEditor,
      SetFilter, Toggle, OpenEditor, BulkStart, BulkDecide, BulkRefused, BulkUnanswered, Type
<1> QED BY <1>1 DEF Act

LEMMA InitTyped == Init => Typed
  BY RulesAssumption
  DEF Init, RulesInit, Typed, RulesTypeOK, CockpitTypeOK, Counter, Zero, NoBulk

LEMMA RulesTyped ==
  ASSUME Typed, OldForm, BulkAddsUp, [Next]_vars
  PROVE RulesTypeOK'
<1>1. rule' \in [Id -> Rule \cup {NoRule}]
  BY RuleSteps DEF Kept, Created, Changed, Typed, RulesTypeOK
<1> USE DEF Typed, RulesTypeOK
<1>2. CASE UNCHANGED <<counters, daemon, parent, faults>> BY <1>1, <1>2 DEF counters
<1>3. Zero \in Counter BY DEF Zero, Counter
<1>5. CASE Killed BY <1>1, <1>3, <1>5 DEF Killed
<1>6. ASSUME NEW s \in Stream, NEW p \in Stream \cup {Unknown}, Reparent(s, p) PROVE RulesTypeOK'
  BY <1>1, <1>6 DEF Reparent, counters
<1>7. CASE DaemonNext
  <2>1. ASSUME NEW k \in Kind, NEW i \in Id, EnsureBuiltin(k, i) PROVE RulesTypeOK'
    BY <1>1, <2>1 DEF EnsureBuiltin, counters
  <2>2. ASSUME NEW s \in Stream, NEW i \in Id, Fire(s, i) PROVE RulesTypeOK'
    BY <1>1, <2>2 DEF Fire, Counter
  <2>3. CASE KillDaemon BY <2>3, <1>5 DEF KillDaemon
  <2>4. CASE StartDaemon BY <1>1, <2>4 DEF StartDaemon, counters
  <2>5. CASE Serve BY <1>1, <1>3, <2>5 DEF Serve, counters
  <2>6. CASE StopDaemon BY <1>1, <1>3, <2>6 DEF StopDaemon, TakePending, Flushed
  <2>7. CASE ExitDaemon BY <1>1, <1>3, <2>7 DEF ExitDaemon
  <2>8. CASE FlushStats BY <1>1, <1>3, <2>8 DEF FlushStats, TakePending, Flushed
  <2>9. ASSUME NEW i \in Id, WriteStats(i) PROVE RulesTypeOK'
    BY <1>1, <2>9 DEF WriteStats, Flushing, Counter
  <2>10. ASSUME NEW i \in Id, DropStats(i) PROVE RulesTypeOK'
    BY <1>1, <2>10 DEF DropStats, Flushing, Counter
  <2> QED BY <1>7, <2>1, <2>2, <2>3, <2>4, <2>5, <2>6, <2>7, <2>8, <2>9, <2>10 DEF DaemonNext
<1> QED BY <1>2, <1>5, <1>6, <1>7, HomeSteps

LEMMA SeedRecord ==
  ASSUME NEW S, NEW b \in BOOLEAN, NEW k \in SUBSET S
  PROVE [on |-> b, known |-> k] \in [on : BOOLEAN, known : SUBSET S]
  OBVIOUS

LEMMA SeedTyped ==
  ASSUME Typed, [Next]_vars
  PROVE seed' \in [on : BOOLEAN, known : SUBSET Wording]
<1>1. seed \in [on : BOOLEAN, known : SUBSET Wording] BY DEF Typed, CockpitTypeOK
<1>2. PresentTexts \subseteq Wording BY Members DEF PresentTexts, Rule
<1>3. CASE SeedStart BY <1>2, <1>3 DEF SeedStart
<1>4. ASSUME NEW t \in Text, SeedCreate(t) PROVE seed' \in [on : BOOLEAN, known : SUBSET Wording]
  <2>1. seed' = [on |-> seed.on, known |-> seed.known \cup {t}] BY <1>1, <1>4 DEF SeedCreate
  <2>2. seed.known \cup {t} \in SUBSET Wording BY <1>1 DEF Wording
  <2>3. seed.on \in BOOLEAN BY <1>1
  <2> QED BY <2>1, <2>2, <2>3, SeedRecord
<1>5. [on |-> FALSE, known |-> {}] \in [on : BOOLEAN, known : SUBSET Wording] BY SeedRecord
<1> QED BY <1>1, <1>3, <1>4, <1>5, SeedSteps

LEMMA CockpitTyped ==
  ASSUME Typed, OldForm, BulkAddsUp, [Next]_vars
  PROVE CockpitTypeOK'
<1> USE DEF Typed, CockpitTypeOK
<1>1. acts' \in Nat BY ActsAreCounted
<1>2. reworded' \in SUBSET Text BY RuleSteps DEF Kept, Created, Changed
<1>3. Shown \in SUBSET Id BY DEF Shown
<1>4. page' \in [rules : [Id -> Rule \cup {NoRule}], filter : {"all", "proposed", "card"}, selected : SUBSET Id]
  <2>1. CASE Load BY <2>1 DEF Load, RulesTypeOK
  <2>2. CASE \E filter \in {"all", "proposed", "card"} : SetFilter(filter) BY <2>2 DEF SetFilter
  <2> QED BY <1>3, <2>1, <2>2, PageSteps
<1>5. draft' \in Draft \cup {NoDraft}
  <2>1. ASSUME NEW i \in Id, OpenEditor(i) PROVE draft' \in Draft
    <3>1. page.rules[i] \in Rule BY <2>1 DEF OpenEditor, Shown, Matches
    <3> QED BY <2>1, <3>1 DEF OpenEditor, Draft, Rule
  <2>2. ASSUME NEW patch \in CliPatch, Type(patch) PROVE draft' \in Draft
    BY <2>2, PatchedDraft DEF Type
  <2> QED BY <2>1, <2>2, FormSteps
<1>6. seed' \in [on : BOOLEAN, known : SUBSET Wording] BY SeedTyped
<1>7. bulk' \in [as : {"none", "accepted", "retired", "ended"}, shown : SUBSET Id, left : SUBSET Id,
                 decided : SUBSET Id, failed : SUBSET Id]
  <2>1. CASE BulkEnd BY <2>1 DEF BulkEnd
  <2>2. ASSUME NEW as \in {"accepted", "retired"}, BulkStart(as)
        PROVE bulk' \in [as : {"none", "accepted", "retired", "ended"}, shown : SUBSET Id, left : SUBSET Id,
                         decided : SUBSET Id, failed : SUBSET Id]
    BY <1>3, <2>2 DEF BulkStart, Picked
  <2>3. ASSUME NEW i \in Id, BulkDecide(i) \/ BulkRefused(i) \/ BulkUnanswered(i)
        PROVE bulk' \in [as : {"none", "accepted", "retired", "ended"}, shown : SUBSET Id, left : SUBSET Id,
                         decided : SUBSET Id, failed : SUBSET Id]
    <3>1. CASE BulkDecide(i) BY <3>1 DEF BulkDecide
    <3>2. CASE BulkRefused(i) BY <3>2 DEF BulkRefused
    <3>3. CASE BulkUnanswered(i) BY <3>3 DEF BulkUnanswered
    <3> QED BY <2>3, <3>1, <3>2, <3>3
  <2> QED BY <2>1, <2>2, <2>3, BulkSteps
<1> QED BY <1>1, <1>2, <1>4, <1>5, <1>6, <1>7

-------------------------------------------------------------------------------
(* Counters *)

\* A firing waits to be written only in a daemon that serves.
NothingPending == daemon.phase \in {"down", "ensuring"} => pending = Zero /\ flushing = Zero

LEMMA CountersInit == Init => NothingPending /\ CountsAreKept
  BY DEF Init, RulesInit, NothingPending, CountsAreKept, Zero

\* What a flush takes from memory it has still to write.
LEMMA TakenIsKept ==
  ASSUME Typed, CountsAreKept, TakePending, UNCHANGED <<counted, dropped, heard>>,
         daemon.phase \in {"up", "closing"}
  PROVE CountsAreKept'
<1> SUFFICES ASSUME NEW i \in Id
             PROVE counted'[i] + flushing'[i] + pending'[i] + dropped'[i] = heard'[i]
  BY DEF CountsAreKept
<1>1. flushing[i] = 0 /\ flushing'[i] = pending[i] /\ pending'[i] = 0
  BY DEF TakePending, Flushed, Zero
<1>2. {counted[i], pending[i], dropped[i]} \subseteq Nat BY DEF Typed, RulesTypeOK, Counter
<1> QED BY <1>1, <1>2 DEF CountsAreKept

\* A rule's share of a flush ends on disk or is dropped.
LEMMA FlushedIsKept ==
  ASSUME Typed, CountsAreKept, NEW i \in Id, Flushing(i), UNCHANGED <<pending, heard, daemon>>,
         \/ counted' = [counted EXCEPT ![i] = @ + flushing[i]] /\ dropped' = dropped
         \/ dropped' = [dropped EXCEPT ![i] = @ + flushing[i]] /\ counted' = counted
  PROVE CountsAreKept'
<1> SUFFICES ASSUME daemon.phase \in {"up", "closing"}, NEW j \in Id
             PROVE counted'[j] + flushing'[j] + pending'[j] + dropped'[j] = heard'[j]
  BY DEF CountsAreKept
<1>1. {counted[j], flushing[j], pending[j], dropped[j]} \subseteq Nat
  BY DEF Typed, RulesTypeOK, Counter
<1>2. counted[j] + flushing[j] + pending[j] + dropped[j] = heard[j] BY DEF CountsAreKept
<1>3. counted'[j] + dropped'[j] = counted[j] + dropped[j] + (flushing[j] - flushing'[j])
  <2>1. CASE j = i BY <1>1, <2>1 DEF Flushing, Typed, RulesTypeOK, Counter
  <2>2. CASE j # i BY <1>1, <2>2 DEF Flushing, Typed, RulesTypeOK, Counter
  <2> QED BY <2>1, <2>2
<1>4. flushing'[j] \in Nat /\ counted'[j] \in Nat /\ dropped'[j] \in Nat
  BY <1>1 DEF Flushing, Typed, RulesTypeOK, Counter
<1> QED BY <1>1, <1>2, <1>3, <1>4

LEMMA CountersKept ==
  ASSUME Typed, NothingPending, CountsAreKept, [Next]_vars
  PROVE NothingPending' /\ CountsAreKept'
<1>1. CASE UNCHANGED <<counters, daemon, parent, faults>>
  BY <1>1 DEF counters, Zero, NothingPending, CountsAreKept
<1>2. CASE Killed BY <1>2 DEF Killed, Zero, NothingPending, CountsAreKept
<1>3. ASSUME NEW s \in Stream, NEW p \in Stream \cup {Unknown}, Reparent(s, p)
      PROVE NothingPending' /\ CountsAreKept'
  BY <1>3 DEF Reparent, counters, Zero, NothingPending, CountsAreKept
<1>4. CASE DaemonNext
  <2>1. ASSUME NEW k \in Kind, NEW i \in Id, EnsureBuiltin(k, i)
        PROVE NothingPending' /\ CountsAreKept'
    BY <2>1 DEF EnsureBuiltin, counters, Zero, Typed, RulesTypeOK, NothingPending, CountsAreKept
  <2>2. ASSUME NEW s \in Stream, NEW i \in Id, Fire(s, i) PROVE NothingPending' /\ CountsAreKept'
    <3>1. /\ UNCHANGED <<counted, flushing, dropped, daemon>>
          /\ pending' = [pending EXCEPT ![i] = @ + 1] /\ heard' = [heard EXCEPT ![i] = @ + 1]
          /\ daemon.phase \in {"up", "closing"}
      BY <2>2 DEF Fire
    <3>2. ASSUME NEW j \in Id
          PROVE counted'[j] + flushing'[j] + pending'[j] + dropped'[j] = heard'[j]
      <4>1. counted[j] + flushing[j] + pending[j] + dropped[j] = heard[j]
        BY <3>1 DEF CountsAreKept
      <4>2. {counted[j], flushing[j], pending[j], dropped[j], heard[j]} \subseteq Nat
        BY DEF Typed, RulesTypeOK, Counter
      <4>3. \/ pending'[j] = pending[j] + 1 /\ heard'[j] = heard[j] + 1
            \/ pending'[j] = pending[j] /\ heard'[j] = heard[j]
        BY <3>1 DEF Typed, RulesTypeOK, Counter
      <4> QED BY <3>1, <4>1, <4>2, <4>3
    <3> QED BY <3>1, <3>2 DEF CountsAreKept, NothingPending
  <2>3. CASE KillDaemon BY <2>3, <1>2 DEF KillDaemon
  <2>4. CASE StartDaemon BY <2>4 DEF StartDaemon, counters, Zero, NothingPending, CountsAreKept
  <2>5. CASE Serve
    BY <2>5 DEF Serve, Zero, Typed, RulesTypeOK, Counter, NothingPending, CountsAreKept
  <2>6. CASE StopDaemon
    <3>1. CountsAreKept' BY <2>6, TakenIsKept DEF StopDaemon, Up
    <3>2. daemon'.phase = "closing" BY <2>6 DEF StopDaemon, Typed, RulesTypeOK
    <3> QED BY <3>1, <3>2 DEF NothingPending
  <2>7. CASE ExitDaemon BY <2>7 DEF ExitDaemon, Zero, NothingPending, CountsAreKept
  <2>8. CASE FlushStats
    <3>1. CountsAreKept' BY <2>8, TakenIsKept DEF FlushStats, Up
    <3> QED BY <2>8, <3>1 DEF FlushStats, Up, NothingPending
  <2>9. ASSUME NEW i \in Id, WriteStats(i) \/ DropStats(i) PROVE NothingPending' /\ CountsAreKept'
    <3>1. CountsAreKept' BY <2>9, FlushedIsKept DEF WriteStats, DropStats
    <3>2. daemon.phase \notin {"down", "ensuring"} /\ daemon' = daemon
      BY <2>9 DEF WriteStats, DropStats, Flushing, NothingPending, Zero
    <3> QED BY <3>1, <3>2 DEF NothingPending
  <2> QED BY <1>4, <2>1, <2>2, <2>3, <2>4, <2>5, <2>6, <2>7, <2>8, <2>9 DEF DaemonNext
<1> QED BY <1>1, <1>2, <1>3, <1>4, HomeSteps

-------------------------------------------------------------------------------
(* What was read earlier *)

\* What was true of an old text and its rule stays so.
LEMMA StaleStays ==
  ASSUME Typed, OldForm, BulkAddsUp, [Next]_vars, NEW old, NEW i \in Id, Stale(old, i)
  PROVE Stale(old, i)'
<1>1. CASE Kept BY <1>1 DEF Kept, Stale
<1>2. ASSUME NEW j \in Id, NEW r \in Rule, Created(j, r) PROVE Stale(old, i)'
  BY <1>2 DEF Created, Stale, Typed, RulesTypeOK
<1>3. ASSUME NEW j \in Id, NEW r \in Rule, Changed(j, r) PROVE Stale(old, i)'
  <2>1. NoRule \notin Rule BY RulesAssumption
  <2>2. rule'[i] = IF i = j THEN r ELSE rule[i] BY <1>3 DEF Changed, Typed, RulesTypeOK
  <2> QED BY <1>3, <2>1, <2>2 DEF Changed, Stale
<1> QED BY <1>1, <1>2, <1>3, RuleSteps

\* Nothing is shown, opened or decided at first.
LEMMA OldInit == Init => OldLists /\ OldForm /\ BulkAddsUp
  BY DEF Init, RulesInit, OldLists, OldForm, BulkAddsUp, NoBulk

LEMMA OldListsKept ==
  ASSUME Typed, OldForm, BulkAddsUp, OldLists, [Next]_vars
  PROVE OldLists'
<1>1. CASE UNCHANGED page.rules BY <1>1, StaleStays DEF OldLists
<1>2. CASE Load
  <2>1. page'.rules = rule /\ rule' = rule BY <1>2 DEF Load, ruleVars, Typed, CockpitTypeOK
  <2> QED BY <2>1 DEF OldLists, Stale
<1>3. CASE \E filter \in {"all", "proposed", "card"} : SetFilter(filter)
  BY <1>1, <1>3 DEF SetFilter, Typed, CockpitTypeOK
<1> QED BY <1>1, <1>2, <1>3, PageSteps DEF Typed, CockpitTypeOK

LEMMA OldFormKept ==
  ASSUME Typed, OldForm, BulkAddsUp, OldLists, [Next]_vars
  PROVE OldForm'
<1>1. draft = NoDraft \/ (draft \in Draft /\ draft.id \in Id)
  BY DEF Typed, CockpitTypeOK, Draft
<1>2. CASE UNCHANGED draft BY <1>1, <1>2, StaleStays DEF OldForm
<1>3. ASSUME NEW i \in Id, OpenEditor(i) PROVE OldForm'
  <2>1. /\ draft'.id = i /\ draft'.says = page.rules[i].says /\ page.rules[i] # NoRule
        /\ UNCHANGED <<rule, reworded>>
    BY <1>3 DEF OpenEditor, Shown, Matches, ruleVars
  <2> QED BY <2>1 DEF OldLists, OldForm, Stale
<1>4. ASSUME NEW patch \in CliPatch, Type(patch) PROVE OldForm'
  <2>1. /\ draft \in Draft /\ draft' = Patched(draft, patch) /\ UNCHANGED <<rule, reworded>>
        /\ MayPatch(draft.id, patch) /\ draft # NoDraft
    BY <1>1, <1>4 DEF Type, ruleVars
  <2>2. draft'.id = draft.id /\ draft'.says = IF "says" \in DOMAIN patch THEN Own ELSE draft.says
    BY <2>1, PatchedDraft
  <2> QED BY <2>1, <2>2, RulesAssumption DEF OldForm, Stale, MayPatch
<1> QED BY <1>2, <1>3, <1>4, FormSteps DEF OldForm

-------------------------------------------------------------------------------
(* Bulk decisions *)

LEMMA BulkKept ==
  ASSUME Typed, BulkAddsUp, BulkDoesWhatItSays, [Next]_vars
  PROVE BulkAddsUp' /\ BulkDoesWhatItSays'
<1> USE DEF Typed, CockpitTypeOK, BulkAddsUp, BulkDoesWhatItSays
<1>1. CASE UNCHANGED bulk BY <1>1
<1>2. CASE BulkEnd BY <1>2 DEF BulkEnd
<1>3. ASSUME NEW as \in {"accepted", "retired"}, BulkStart(as)
      PROVE BulkAddsUp' /\ BulkDoesWhatItSays'
  BY <1>3 DEF BulkStart, Picked
<1>4. ASSUME NEW i \in Id, BulkDecide(i) PROVE BulkAddsUp' /\ BulkDoesWhatItSays'
  BY <1>4 DEF BulkDecide
<1>5. ASSUME NEW i \in Id, BulkRefused(i) PROVE BulkAddsUp' /\ BulkDoesWhatItSays'
  BY <1>5 DEF BulkRefused
<1>6. ASSUME NEW i \in Id, BulkUnanswered(i) PROVE BulkAddsUp' /\ BulkDoesWhatItSays'
  BY <1>6 DEF BulkUnanswered
<1> QED BY <1>1, <1>2, <1>3, <1>4, <1>5, <1>6, BulkSteps

-------------------------------------------------------------------------------
(* The seed *)

\* A running seed knows every text it or another seed has proposed.
SeedKnows ==
  seed.on => \A i \in Existing :
    rule[i].by = "seed" /\ rule[i].says \in Text \ reworded => rule[i].says \in seed.known

LEMMA SeedKnowsKept ==
  ASSUME Typed, OldForm, BulkAddsUp, SeedKnows, [Next]_vars
  PROVE SeedKnows'
<1> SUFFICES ASSUME seed'.on, NEW i \in Existing', (rule[i].by = "seed" /\ rule[i].says \in Text \ reworded)'
             PROVE rule'[i].says \in seed'.known
  BY DEF SeedKnows
<1>1. i \in Id BY DEF Existing
<1>2. CASE SeedStart
  <2>1. rule' = rule BY <1>2 DEF SeedStart, ruleVars
  <2>2. i \in Existing BY <2>1 DEF Existing
  <2> QED BY <1>2, <2>1, <2>2 DEF SeedStart, PresentTexts
<1>3. CASE ~SeedStart
  <2>1. seed.on /\ seed.known \subseteq seed'.known
    BY <1>3, SeedSteps DEF SeedCreate, Typed, CockpitTypeOK
  <2>2. CASE Kept BY <2>1, <2>2 DEF Kept, SeedKnows, Existing
  <2>3. ASSUME NEW j \in Id, NEW r \in Rule, Created(j, r) PROVE rule'[i].says \in seed'.known
    <3>1. reworded' = reworded /\ rule'[i] = IF i = j THEN r ELSE rule[i]
      BY <2>3 DEF Created, Typed, RulesTypeOK
    <3>2. CASE i = j BY <2>3, <3>1, <3>2 DEF Created
    <3>3. CASE i # j BY <1>1, <2>1, <3>1, <3>3 DEF Existing, SeedKnows
    <3> QED BY <3>2, <3>3
  <2>4. ASSUME NEW j \in Id, NEW r \in Rule, Changed(j, r) PROVE rule'[i].says \in seed'.known
    <3>1. /\ rule'[i] = IF i = j THEN r ELSE rule[i]
          /\ reworded \subseteq reworded'
      BY <1>1, <2>4 DEF Changed, Typed, RulesTypeOK
    <3>2. CASE i = j BY <2>1, <2>4, <3>1, <3>2 DEF Changed, SeedKnows
    <3>3. CASE i # j BY <1>1, <2>1, <3>1, <3>3 DEF Existing, SeedKnows
    <3> QED BY <3>2, <3>3
  <2> QED BY <2>2, <2>3, <2>4, RuleSteps
<1> QED BY <1>2, <1>3

LEMMA SeedsOnceKept ==
  ASSUME Typed, OldForm, BulkAddsUp, SeedKnows, SeedsOnce, [Next]_vars
  PROVE SeedsOnce'
<1> SUFFICES ASSUME NEW i \in Existing', NEW j \in Existing',
                    (/\ rule[i].by = "seed" /\ rule[j].by = "seed" /\ rule[i].says = rule[j].says
                     /\ rule[i].says \in Text \ reworded)'
             PROVE i = j
  BY DEF SeedsOnce
<1>1. i \in Id /\ j \in Id BY DEF Existing
<1>2. CASE Kept BY <1>2 DEF Kept, SeedsOnce, Existing
<1>3. ASSUME NEW n \in Id, NEW r \in Rule, Created(n, r) PROVE i = j
  <2>1. /\ \A m \in Id : rule'[m] = IF m = n THEN r ELSE rule[m]
        /\ reworded' = reworded
    BY <1>3 DEF Created, Typed, RulesTypeOK
  <2>2. \A m \in Existing' : m # n => m \in Existing /\ rule'[m] = rule[m] BY <2>1 DEF Existing
  <2>3. CASE r.by = "seed"
    <3>1. seed.on /\ r.says \notin seed.known BY <1>3, <2>3 DEF Created
    <3>2. \A m \in Existing : rule[m].by = "seed" /\ rule[m].says = r.says => r.says \notin Text \ reworded
      BY <3>1 DEF SeedKnows
    <3> QED BY <1>1, <2>1, <2>2, <3>2 DEF SeedsOnce
  <2>4. CASE r.by # "seed"
    <3>1. i # n /\ j # n BY <1>1, <2>1, <2>4
    <3> QED BY <2>1, <2>2, <3>1 DEF SeedsOnce
  <2> QED BY <2>3, <2>4
<1>4. ASSUME NEW n \in Id, NEW r \in Rule, Changed(n, r) PROVE i = j
  <2>1. /\ \A m \in Id : rule'[m] = IF m = n THEN r ELSE rule[m]
        /\ reworded \subseteq reworded' /\ n \in Existing
    BY <1>4 DEF Changed, Typed, RulesTypeOK
  <2>2. \A m \in Existing' : m \in Existing /\ (m # n => rule'[m] = rule[m]) BY <2>1 DEF Existing
  <2>3. r.by = rule[n].by /\ (r.says \in Text \ reworded => r.says = rule[n].says)
    BY <1>4 DEF Changed
  <2>4. \A m \in {i, j} : rule'[m].by = rule[m].by /\ rule'[m].says = rule[m].says
    BY <1>1, <2>1, <2>2, <2>3
  <2> QED BY <2>1, <2>2, <2>4 DEF SeedsOnce
<1> QED BY <1>2, <1>3, <1>4, RuleSteps

-------------------------------------------------------------------------------
(* The built-ins *)

\* Of each kind of built-in there is one rule at most ...
BuiltinsAreOne ==
  \A i, j \in Existing :
    rule[i].by = "builtin" /\ rule[j].by = "builtin" /\ rule[i].says = rule[j].says => i = j

\* ... none of a kind the start found missing and has still to write, and one of each other kind.
BuiltinsAreThere ==
  /\ daemon.phase = "ensuring" => \A k \in daemon.missing : Builtin(k) = {}
  /\ daemon.phase # "down" => \A k \in Kind \ daemon.missing : Builtin(k) # {}

\* The daemon starts, writes a built-in, moves on in its life, or is gone.
LEMMA DaemonSteps ==
  ASSUME [Next]_vars, Typed
  PROVE \/ daemon' = daemon \/ daemon'.phase = "down" \/ StartDaemon
        \/ daemon'.missing = daemon.missing /\ daemon'.phase \in {"up", "closing"} /\ daemon.phase \in {"ensuring", "up"}
        \/ \E k \in Kind, i \in Id : EnsureBuiltin(k, i)
<1> USE DEF Typed, RulesTypeOK
<1>1. ASSUME NEW i \in Id, WriteStats(i) \/ DropStats(i) \/ (\E s \in Stream : Fire(s, i))
      PROVE daemon' = daemon
  BY <1>1 DEF WriteStats, DropStats, Fire
<1>2. CASE DaemonNext
  BY <1>1, <1>2 DEF DaemonNext, Serve, KillDaemon, Killed, StopDaemon, ExitDaemon, FlushStats, Up
<1>3. CASE ~DaemonNext BY <1>3, HomeSteps DEF Killed, Reparent
<1> QED BY <1>2, <1>3

LEMMA DaemonTyped == ASSUME Typed PROVE daemon.missing \subseteq Kind
  BY DEF Typed, RulesTypeOK

LEMMA BuiltinsKept ==
  ASSUME ~BuiltinEdits, Typed, OldForm, BulkAddsUp, BuiltinsAreOne, BuiltinsAreThere, [Next]_vars
  PROVE BuiltinsAreOne' /\ BuiltinsAreThere'
<1> USE DEF Typed, RulesTypeOK
<1>0. NoRule \notin Rule BY RulesAssumption
<1>1. CASE Kept
  <2>1. \A k \in Kind : Builtin(k)' = Builtin(k) BY <1>1 DEF Kept, Builtin, Existing
  <2>2. BuiltinsAreOne' BY <1>1 DEF Kept, BuiltinsAreOne, Existing
  <2>3. \A k \in Kind, i \in Id : ~EnsureBuiltin(k, i)
    <3> SUFFICES ASSUME NEW k \in Kind, NEW i \in Id, EnsureBuiltin(k, i) PROVE FALSE
      OBVIOUS
    <3> DEFINE r == [by |-> "builtin", says |-> k, status |-> IF k \in AcceptedKind THEN "accepted" ELSE "retired",
                     tier |-> "pattern", examples |-> 0, scope |-> "global"]
    <3>1. r \in Rule BY DEF Rule, Author, Wording, Status, Tier
    <3>2. rule[i] = NoRule /\ rule' = [rule EXCEPT ![i] = r]
      BY DEF EnsureBuiltin, Fresh, Existing
    <3> HIDE DEF r
    <3>3. rule'[i] = r BY <3>2
    <3> QED BY <1>0, <1>1, <3>1, <3>2, <3>3 DEF Kept
  <2>4. CASE StartDaemon
    <3>1. daemon'.phase = "ensuring" /\ daemon'.missing = {k \in Kind : Builtin(k) = {}}
      BY <2>4 DEF StartDaemon, Found
    <3> QED BY <2>1, <2>2, <3>1 DEF BuiltinsAreThere
  <2>5. CASE ~StartDaemon
    <3>1. daemon.missing \subseteq Kind BY DaemonTyped
    <3>2. CASE daemon' = daemon BY <2>1, <2>2, <3>1, <3>2 DEF BuiltinsAreThere
    <3>3. CASE daemon'.phase = "down" BY <2>2, <3>3 DEF BuiltinsAreThere
    <3>4. CASE /\ daemon'.missing = daemon.missing /\ daemon'.phase \in {"up", "closing"}
               /\ daemon.phase \in {"ensuring", "up"}
      BY <2>1, <2>2, <3>1, <3>4 DEF BuiltinsAreThere
    <3> QED BY <2>3, <2>5, <3>2, <3>3, <3>4, DaemonSteps
  <2> QED BY <2>2, <2>4, <2>5 DEF BuiltinsAreThere
<1>2. ASSUME NEW n \in Id, NEW r \in Rule, Created(n, r) PROVE BuiltinsAreOne' /\ BuiltinsAreThere'
  <2>1. /\ \A m \in Id : rule'[m] = IF m = n THEN r ELSE rule[m]
        /\ rule[n] = NoRule
    BY <1>2 DEF Created
  <2>2. \A k \in Kind : Builtin(k)' = Builtin(k) \cup (IF r.by = "builtin" /\ r.says = k THEN {n} ELSE {})
    BY <1>0, <2>1 DEF Builtin, Existing
  <2>3. CASE r.by = "builtin"
    <3>1. /\ daemon.phase = "ensuring" /\ r.says \in daemon.missing /\ r.says \in Kind
          /\ daemon' = [daemon EXCEPT !.missing = @ \ {r.says}]
      BY <1>2, <2>3 DEF Created
    <3>2. Builtin(r.says) = {} BY <3>1 DEF BuiltinsAreThere
    <3>3. BuiltinsAreOne'
      BY <2>1, <3>2 DEF BuiltinsAreOne, Builtin, Existing
    <3>4. BuiltinsAreThere' BY <2>2, <2>3, <3>1 DEF BuiltinsAreThere
    <3> QED BY <3>3, <3>4
  <2>4. CASE r.by # "builtin"
    <3>1. daemon' = daemon \/ daemon' = [phase |-> "down", missing |-> {}] BY <1>2, <2>4 DEF Created
    <3>2. BuiltinsAreOne' BY <2>1, <2>4 DEF BuiltinsAreOne, Existing
    <3> QED BY <2>2, <2>4, <3>1, <3>2 DEF BuiltinsAreThere
  <2> QED BY <2>3, <2>4
<1>3. ASSUME NEW n \in Id, NEW r \in Rule, Changed(n, r) PROVE BuiltinsAreOne' /\ BuiltinsAreThere'
  <2>1. /\ \A m \in Id : rule'[m] = IF m = n THEN r ELSE rule[m]
        /\ n \in Existing /\ r.by = rule[n].by
        /\ r.by = "builtin" => r.says = rule[n].says
        /\ daemon' = daemon \/ daemon' = [phase |-> "down", missing |-> {}]
    BY <1>3 DEF Changed
  <2>2. \A k \in Kind : Builtin(k)' = Builtin(k)
    BY <1>0, <2>1 DEF Builtin, Existing
  <2>3. BuiltinsAreOne' BY <2>1 DEF BuiltinsAreOne, Existing
  <2> QED BY <2>1, <2>2, <2>3 DEF BuiltinsAreThere
<1> QED BY <1>1, <1>2, <1>3, RuleSteps

\* No two of a set without two is at most one.
LEMMA AtMostOne ==
  ASSUME NEW S, \A x, y \in S : x = y
  PROVE Cardinality(S) <= 1
<1>1. CASE S = {} BY <1>1, FS_EmptySet
<1>2. CASE \E x \in S : S = {x} BY <1>2, FS_Singleton
<1> QED BY <1>1, <1>2

LEMMA BuiltinsFollow ==
  ASSUME BuiltinsAreOne, BuiltinsAreThere PROVE BuiltinsStandOnce
<1>1. ASSUME NEW k \in Kind PROVE Cardinality(Builtin(k)) <= 1
  <2>1. \A i, j \in Builtin(k) : i = j BY DEF BuiltinsAreOne, Builtin
  <2> QED BY <2>1, AtMostOne
<1> QED BY <1>1 DEF BuiltinsStandOnce, BuiltinsAreThere, Up

-------------------------------------------------------------------------------
(* What may be accepted *)

LEMMA AcceptedKept ==
  ASSUME Typed, OldForm, BulkAddsUp, AcceptedIsEvaluable, [Next]_vars
  PROVE AcceptedIsEvaluable'
<1> USE DEF AcceptedIsEvaluable, Existing
<1>1. CASE Kept BY <1>1 DEF Kept
<1>2. ASSUME NEW n \in Id, NEW r \in Rule, Created(n, r) \/ Changed(n, r) PROVE AcceptedIsEvaluable'
  <2>1. Acceptable(r) /\ \A m \in Id : rule'[m] = IF m = n THEN r ELSE rule[m]
    BY <1>2 DEF Created, Changed, Typed, RulesTypeOK
  <2> QED BY <2>1 DEF Acceptable
<1> QED BY <1>1, <1>2, RuleSteps

-------------------------------------------------------------------------------
(* The invariant *)

\* A bulk decision adds up whatever the form shows, but what a form saves needs the lists behind it,
\* and what a seed knows needs the wordings that forms save: the parts hold together.
IInv ==
  /\ Typed /\ NothingPending /\ CountsAreKept
  /\ BulkAddsUp /\ BulkDoesWhatItSays
  /\ OldLists /\ OldForm
  /\ SeedKnows /\ SeedsOnce
  /\ AcceptedIsEvaluable
  /\ ~BuiltinEdits => BuiltinsAreOne /\ BuiltinsAreThere

LEMMA InvInit == Init => IInv
<1>1. Init => SeedKnows /\ SeedsOnce /\ AcceptedIsEvaluable /\ BuiltinsAreOne /\ BuiltinsAreThere
  BY
  DEF Init, RulesInit, SeedKnows, SeedsOnce, AcceptedIsEvaluable, BuiltinsAreOne, BuiltinsAreThere,
      Existing
<1>2. Init => BulkDoesWhatItSays BY DEF Init, NoBulk, BulkDoesWhatItSays
<1> QED BY <1>1, <1>2, InitTyped, CountersInit, OldInit DEF IInv

LEMMA InvKept == IInv /\ [Next]_vars => IInv'
<1> SUFFICES ASSUME IInv, [Next]_vars PROVE IInv' OBVIOUS
<1>1. Typed' BY RulesTyped, CockpitTyped DEF IInv, Typed
<1>2. NothingPending' /\ CountsAreKept' BY CountersKept DEF IInv
<1>3. BulkAddsUp' /\ BulkDoesWhatItSays' BY BulkKept DEF IInv
<1>4. OldLists' /\ OldForm' BY OldListsKept, OldFormKept DEF IInv
<1>5. SeedKnows' /\ SeedsOnce' BY SeedKnowsKept, SeedsOnceKept DEF IInv
<1>6. AcceptedIsEvaluable' BY AcceptedKept DEF IInv
<1>7. ~BuiltinEdits => BuiltinsAreOne' /\ BuiltinsAreThere' BY BuiltinsKept DEF IInv
<1> QED BY <1>1, <1>2, <1>3, <1>4, <1>5, <1>6, <1>7 DEF IInv

LEMMA InvAlways == Spec => []IInv
  BY InvInit, InvKept, PTL DEF Spec

\* A rule record is always one the schema allows, with counters for it and a life for the daemon
\* (RuleSchema, RuleService).
THEOREM RulesAreTyped == Spec => []RulesTypeOK
<1>1. IInv => RulesTypeOK BY DEF IInv, Typed
<1> QED BY <1>1, InvAlways, PTL

\* While the daemon serves, no firing is counted twice, and none is lost but in a rule's failed
\* write: what files, memory and the flush in flight hold of a rule, with what was dropped, is what
\* was there and what was heard since (RuleService.recordFired, doFlushStats).
THEOREM CountersAreKept == Spec => []CountsAreKept
<1>1. IInv => CountsAreKept BY DEF IInv
<1> QED BY <1>1, InvAlways, PTL

\* Unless the operator gives a built-in another pattern kind, a daemon that has come up has each
\* built-in once, but for those whose create failed, wherever earlier starts were killed
\* (ensureBuiltinRules).
THEOREM BuiltinsAlwaysStandOnce == Spec => [](~BuiltinEdits => BuiltinsStandOnce)
<1>1. IInv => (~BuiltinEdits => BuiltinsStandOnce) BY BuiltinsFollow DEF IInv
<1> QED BY <1>1, InvAlways, PTL

\* A bulk decision touches only what was ticked and shown when it was pressed, and at its end each
\* of those was decided or is named as failed (bulk in Rules.tsx).
THEOREM BulkAlwaysDoesWhatItSays == Spec => []BulkDoesWhatItSays
<1>1. IInv => BulkDoesWhatItSays BY DEF IInv
<1> QED BY <1>1, InvAlways, PTL

\* A decision is seeded once, wherever earlier seed runs ended and whatever the daemon did
\* meanwhile, unless the operator reworded the rule it became (runRulesSeed).
THEOREM SeedsAlwaysOnce == Spec => []SeedsOnce
<1>1. IInv => SeedsOnce BY DEF IInv
<1> QED BY <1>1, InvAlways, PTL

\* No accepted classifier rule is without the examples it is judged by (assertRuleAcceptable).
THEOREM AcceptedAlwaysEvaluable == Spec => []AcceptedIsEvaluable
<1>1. IInv => AcceptedIsEvaluable BY DEF IInv
<1> QED BY <1>1, InvAlways, PTL

-------------------------------------------------------------------------------
(* The settings: for any repos, screens, pickers, vendors and models. *)

\* None, Absent and Home are names of their own, and the built-in is complete.
NamesApart ==
  /\ None \notin Vendor \cup Model \cup Effort \cup Page \cup Registry
  /\ Absent \notin Fields /\ Home \notin Repo
  /\ BuiltinDefaults \in [vendor : Vendor, model : Model, effort : Effort]
  /\ StreamRepo \in [Pick -> Repo \cup {NoRepo}] /\ NoRepo \notin Repo

-------------------------------------------------------------------------------
(* Types *)

\* resolveSessionDefaults names a vendor and an effort, and perhaps a model.
LEMMA Resolved ==
  ASSUME NamesApart, NEW n \in Fields, NEW e \in Fields, NEW h \in Fields
  PROVE /\ resolveSessionDefaults(n, e, h) \in Fields
        /\ resolveSessionDefaults(n, e, h).vendor # None
        /\ resolveSessionDefaults(n, e, h).effort # None
  BY DEF NamesApart, resolveSessionDefaults, FirstNamed, Fields

LEMMA Entries ==
  ASSUME NamesApart, NEW f \in Files, NEW k \in Pick
  PROVE EntryOf(k, f) \in Fields
  BY DEF NamesApart, EntryOf, Files, Registry, Empty, Fields

LEMMA EmptyIsFields == ASSUME NamesApart PROVE Empty \in Fields
  BY DEF Empty, Fields

LEMMA PrefilledIsFields ==
  ASSUME NamesApart, NEW f \in Files, NEW k \in Pick
  PROVE resolvedFor(k, f) \in Fields
<1>1. f[1] \in Fields BY DEF Files
<1> QED BY <1>1, Resolved, Entries, EmptyIsFields DEF resolvedFor

LEMMA Rows ==
  ASSUME NEW f \in Files, NEW row \in Row
  PROVE At(f, row) \in Fields \cup {Absent}
<1>1. f[1] \in Fields /\ f[2] \in Registry BY DEF Files
<1>2. CASE row = Home BY <1>1, <1>2 DEF At
<1>3. CASE row # Home BY <1>1, <1>3 DEF At, Row, Registry
<1> QED BY <1>2, <1>3

LEMMA ShowTypes ==
  ASSUME NamesApart, SettingsTypeOK, NEW p \in Page, NEW f \in Files, Show(p, f)
  PROVE /\ status' \in [Page -> Files \cup {None}]
        /\ value' \in [Page \X Row -> Fields] /\ mounted' \in [Page \X Row -> Fields]
<1> DEFINE fresh(row) == At(f, row) # Absent /\ (status[p] = None \/ At(status[p], row) = Absent)
           With(was) == [x \in Page \X Row |->
                           IF x[1] = p /\ fresh(x[2]) THEN At(f, x[2]) ELSE was[x]]
<1>1. ASSUME NEW was \in [Page \X Row -> Fields] PROVE With(was) \in [Page \X Row -> Fields]
  <2>1. ASSUME NEW x \in Page \X Row, fresh(x[2]) PROVE At(f, x[2]) \in Fields
    <3>1. x[2] \in Row OBVIOUS
    <3> QED BY <2>1, <3>1, Rows
  <2> HIDE DEF fresh
  <2> QED BY <1>1, <2>1
<1>2. value' = With(value) /\ mounted' = With(mounted) /\ status' = [status EXCEPT ![p] = f]
  BY DEF Show
<1> HIDE DEF With
<1> QED BY <1>1, <1>2 DEF SettingsTypeOK

\* Resolving what was resolved changes nothing.
LEMMA ResolvedStays ==
  ASSUME NamesApart, NEW e \in Fields, NEW h \in Fields
  PROVE resolveSessionDefaults(resolveSessionDefaults(Empty, e, h), e, h)
          = resolveSessionDefaults(Empty, e, h)
  BY DEF NamesApart, resolveSessionDefaults, FirstNamed, Fields, Empty

\* What a session starts with keeps every field it was asked for.
LEMMA SettledKeeps ==
  ASSUME NamesApart, SettingsTypeOK, NEW k \in Pick, NEW n \in Fields, n.vendor # None, n.effort # None
  PROVE /\ Settled(n, k).vendor = n.vendor /\ Settled(n, k).effort = n.effort
        /\ n.model # None => Settled(n, k).model = n.model
  BY DEF Settled, resolveSessionDefaults, FirstNamed, Fields

-------------------------------------------------------------------------------
(* The invariant: an answer on its way is a picture of the files; what a row wrote   *)
(* stands while nothing else writes its entry; a picker's fields name a vendor and   *)
(* an effort, and what it was filled with is what its picture of the files gives.    *)

Answered == \A x \in Page \X Row : save[x] = "answered" => answer[x] \in Files

Written ==
  \A p \in Page, row \in Row :
    /\ save[<<p, row>>] \in {"written", "answered"} \/ <<p, row>> \in saved
    /\ wrote[row] = p
    => At(files, row) = sent[<<p, row>>]

Named(c) == c.vendor # None /\ c.effort # None

Picking ==
  \A k \in Pick :
    /\ picked[k] # "closed" => Named(choice[k]) /\ seen[k].resolved = resolvedFor(k, seen[k].files)
    /\ picked[k] \in {"starting", "attached"} => Named(flags[k])
    /\ got[k] # None => picked[k] = "attached"

SettingsInv == SettingsTypeOK /\ Answered /\ Written /\ Picking /\ GetsWhatItNamed

LEMMA Invariance == NamesApart => (SettingsSpec => []SettingsInv)
<1> SUFFICES ASSUME NamesApart PROVE SettingsSpec => []SettingsInv
  OBVIOUS
<1>1. SettingsInit => SettingsInv
  <2> SUFFICES ASSUME SettingsInit PROVE SettingsInv
    OBVIOUS
  <2>1. repos \in Registry
    BY EmptyIsFields DEF SettingsInit, Registry
  <2>2. SettingsTypeOK
    BY <2>1, EmptyIsFields DEF SettingsInit, SettingsTypeOK, Files, SavePhase, files
  <2>3. Answered /\ Picking /\ GetsWhatItNamed
    BY DEF SettingsInit, Answered, Picking, GetsWhatItNamed
  <2>4. Written
    BY DEF SettingsInit, Written
  <2> QED BY <2>2, <2>3, <2>4 DEF SettingsInv
<1>2. SettingsInv /\ [SettingsNext]_settingsVars => SettingsInv'
  <2> SUFFICES ASSUME SettingsInv, [SettingsNext]_settingsVars PROVE SettingsInv'
    OBVIOUS
  <2> USE DEF SettingsInv
  <2>0. home \in Fields /\ repos \in Registry /\ files \in Files /\ files = <<home, repos>>
    BY DEF files, SettingsTypeOK, Files
  <2>1. ASSUME NEW p \in Page, OpenPage(p) PROVE SettingsInv'
    <3>1. Show(p, files) BY <2>1 DEF OpenPage
    <3>2. SettingsTypeOK'
      BY <2>0, <2>1, <3>1, ShowTypes DEF OpenPage, SettingsTypeOK, files, pickers
    <3> QED BY <2>1, <3>2
          DEF OpenPage, files, pickers, Answered, Written, Picking, GetsWhatItNamed
  <2>2. ASSUME NEW p \in Page, NEW row \in Row, TypeInto(p, row) PROVE SettingsInv'
    <3>1. SettingsTypeOK' BY <2>2 DEF TypeInto, files, pickers, Edit, SettingsTypeOK, Files
    <3> QED BY <2>2, <3>1
          DEF TypeInto, files, pickers, Answered, Written, Picking, GetsWhatItNamed
  <2>3. ASSUME NEW p \in Page, NEW row \in Row, Save(p, row) PROVE SettingsInv'
    <3>1. SettingsTypeOK' BY <2>3 DEF Save, files, pickers, SettingsTypeOK, Files, SavePhase
    <3>2. Written'
      BY <2>3 DEF Save, files, Written, SettingsTypeOK
    <3> QED BY <2>3, <3>1, <3>2
          DEF Save, files, pickers, Answered, Picking, GetsWhatItNamed, SettingsTypeOK
  <2>4. ASSUME NEW p \in Page, NEW row \in Row, setSessionDefaults(p, row) PROVE SettingsInv'
    <3>1. home' \in Fields /\ repos' \in Registry
      BY <2>0, <2>4 DEF setSessionDefaults, Registry, Row, SettingsTypeOK
    <3>2. SettingsTypeOK'
      BY <2>4, <3>1 DEF setSessionDefaults, files, pickers, SettingsTypeOK, Files, SavePhase
    <3>3. At(files', row) = sent[<<p, row>>]
      BY <2>0, <2>4 DEF setSessionDefaults, At, files, Row, Registry
    <3>4. \A q \in Row \ {row} : At(files', q) = At(files, q)
      BY <2>0, <2>4 DEF setSessionDefaults, At, files, Row, Registry
    <3>5. wrote' = [wrote EXCEPT ![row] = p] /\ sent' = sent /\ saved' = saved
          /\ save' = [save EXCEPT ![<<p, row>>] = "written"]
      BY <2>4 DEF setSessionDefaults
    <3>6. Written'
      BY <3>3, <3>4, <3>5 DEF Written, SettingsTypeOK
    <3> QED BY <2>4, <3>2, <3>6
          DEF setSessionDefaults, pickers, Answered, Picking, GetsWhatItNamed, SettingsTypeOK
  <2>5. ASSUME NEW p \in Page, NEW row \in Row, Answer(p, row) PROVE SettingsInv'
    <3>1. SettingsTypeOK' BY <2>0, <2>5 DEF Answer, files, pickers, SettingsTypeOK, Files, SavePhase
    <3>2. Written'
      BY <2>5 DEF Answer, files, Written, SettingsTypeOK
    <3> QED BY <2>0, <2>5, <3>1, <3>2
          DEF Answer, files, pickers, Answered, Picking, GetsWhatItNamed, SettingsTypeOK
  <2>6. ASSUME NEW p \in Page, NEW row \in Row, Arrive(p, row) PROVE SettingsInv'
    <3>1. Show(p, answer[<<p, row>>]) BY <2>6 DEF Arrive
    <3>2. answer[<<p, row>>] \in Files BY <2>6 DEF Arrive, Answered
    <3>3. SettingsTypeOK'
      BY <2>6, <3>1, <3>2, ShowTypes DEF Arrive, files, pickers, SettingsTypeOK, Files, SavePhase
    <3>4. Written'
      BY <2>6 DEF Arrive, files, Written, SettingsTypeOK
    <3> QED BY <2>6, <3>3, <3>4
          DEF Arrive, files, pickers, Answered, Picking, GetsWhatItNamed, SettingsTypeOK
  <2>7. ASSUME NEW p \in Page, NEW row \in Row, SaveFails(p, row) PROVE SettingsInv'
    <3>1. SettingsTypeOK' BY <2>7 DEF SaveFails, files, pickers, SettingsTypeOK, Files, SavePhase
    <3>2. Written'
      BY <2>7 DEF SaveFails, files, Written, SettingsTypeOK
    <3> QED BY <2>7, <3>1, <3>2
          DEF SaveFails, files, pickers, Answered, Picking, GetsWhatItNamed, SettingsTypeOK
  <2>8. ASSUME NEW r \in Repo, ReadRegistry(r) PROVE SettingsInv'
    <3>1. \A v \in Vendor \cup {None} :
            [repos EXCEPT ![r] = [Empty EXCEPT !.vendor = v]] \in Registry
      <4> TAKE v \in Vendor \cup {None}
      <4>1. [Empty EXCEPT !.vendor = v] \in Fields BY DEF Empty, Fields
      <4> QED BY <2>0, <4>1 DEF Registry
    <3>2. PICK v \in Vendor \cup {None} :
            adding' = [adding EXCEPT ![r] = [repos EXCEPT ![r] = [Empty EXCEPT !.vendor = v]]]
      BY <2>8 DEF ReadRegistry
    <3>3. adding' \in [Repo -> Registry \cup {None}] BY <3>1, <3>2 DEF SettingsTypeOK
    <3>4. SettingsTypeOK'
      BY <2>8, <3>3 DEF ReadRegistry, files, pages, pickers, Edit, SettingsTypeOK, Files
    <3> QED BY <2>8, <3>4
          DEF ReadRegistry, files, pages, pickers, Answered, Written, Picking, GetsWhatItNamed
  <2>9. ASSUME NEW r \in Repo, putRepos(r) PROVE SettingsInv'
    <3>1. repos' \in Registry /\ home' = home
      BY <2>9 DEF putRepos, SettingsTypeOK
    <3>2. SettingsTypeOK'
      BY <2>0, <2>9, <3>1 DEF putRepos, files, pages, pickers, SettingsTypeOK, Files
    <3>3. Written'
      <4>1. \A row \in Row \ {Home} : wrote'[row] = None
        BY <2>9 DEF putRepos
      <4>2. wrote'[Home] = wrote[Home] /\ At(files', Home) = At(files, Home)
        BY <2>0, <2>9 DEF putRepos, At, files, Row
      <4>3. sent' = sent /\ saved' = saved /\ save' = save
        BY <2>9 DEF putRepos, pages
      <4> QED BY <4>1, <4>2, <4>3 DEF Written, NamesApart
    <3> QED BY <2>9, <3>2, <3>3 DEF putRepos, pages, pickers, Answered, Picking, GetsWhatItNamed
  <2>10. ASSUME NEW row \in Row, EditByHand(row) PROVE SettingsInv'
    <3>1. home' \in Fields /\ repos' \in Registry
      BY <2>0, <2>10 DEF EditByHand, Registry, Row
    <3>2. SettingsTypeOK'
      BY <2>10, <3>1 DEF EditByHand, files, pages, pickers, Edit, SettingsTypeOK, Files
    <3>3. \A q \in Row \ {row} : At(files', q) = At(files, q)
      BY <2>0, <2>10 DEF EditByHand, At, files, Row, Registry
    <3>4. wrote' = [wrote EXCEPT ![row] = None] /\ sent' = sent /\ saved' = saved /\ save' = save
      BY <2>10 DEF EditByHand, pages
    <3>5. Written'
      BY <3>3, <3>4 DEF Written, SettingsTypeOK, NamesApart
    <3> QED BY <2>10, <3>2, <3>5 DEF EditByHand, pages, pickers, Answered, Picking, GetsWhatItNamed
  <2>11. ASSUME NEW k \in Pick, OpenPicker(k) PROVE SettingsInv'
    <3>1. resolvedFor(k, files) \in Fields /\ Named(resolvedFor(k, files))
      <4>1. files[1] \in Fields BY <2>0
      <4> QED BY <2>0, <4>1, Resolved, Entries, EmptyIsFields DEF resolvedFor, Named
    <3>2. SettingsTypeOK' BY <2>11, <3>1 DEF OpenPicker, files, pages, SettingsTypeOK, Files
    <3>3. seen'[k].resolved = resolvedFor(k, seen'[k].files)
      BY <2>11 DEF OpenPicker, SettingsTypeOK
    <3>4. Written'
      BY <2>11 DEF OpenPicker, files, pages, Written
    <3> QED BY <2>11, <3>1, <3>2, <3>3, <3>4
          DEF OpenPicker, files, pages, Answered, Picking, GetsWhatItNamed, SettingsTypeOK
  <2>12. ASSUME NEW k \in Pick, Choose(k) PROVE SettingsInv'
    <3>1. SettingsTypeOK' BY <2>12 DEF Choose, files, pages, Edit, SettingsTypeOK, Files
    <3>2. Answered' /\ Written' /\ GetsWhatItNamed'
      BY <2>12 DEF Choose, files, pages, Answered, Written, GetsWhatItNamed
    <3>3. PICK c \in Fields : Named(c) /\ choice' = [choice EXCEPT ![k] = c]
      BY <2>12 DEF Choose, Named
    <3>4. Picking'
      BY <2>12, <3>3 DEF Choose, Picking, SettingsTypeOK, resolvedFor
    <3> QED BY <3>1, <3>2, <3>4
  <2>13. ASSUME NEW k \in Pick, Start(k) PROVE SettingsInv'
    <3>1. SettingsTypeOK' BY <2>13 DEF Start, files, pages, SettingsTypeOK, Files
    <3>2. Answered' /\ Written'
      BY <2>13 DEF Start, files, pages, Answered, Written
    <3>3. got[k] = None /\ got' = got /\ flags' = [flags EXCEPT ![k] = choice[k]]
      BY <2>13 DEF Start, Picking
    <3>4. GetsWhatItNamed'
      BY <3>3 DEF GetsWhatItNamed, SettingsTypeOK
    <3>5. Picking'
      BY <2>13, <3>3 DEF Start, Picking, SettingsTypeOK, resolvedFor
    <3> QED BY <3>1, <3>2, <3>4, <3>5
  <2>14. ASSUME NEW k \in Pick, attach(k) PROVE SettingsInv'
    <3>1. SettingsTypeOK' BY <2>14 DEF attach, files, pages, SettingsTypeOK, Files
    <3>2. Answered' /\ Written'
      BY <2>14 DEF attach, files, pages, Answered, Written
    <3>3. Named(flags[k]) /\ flags[k] \in Fields /\ flags' = flags
      BY <2>14 DEF attach, Picking, SettingsTypeOK
    <3>4. GetsWhatItNamed' /\ Picking'
      <4>1. /\ Settled(flags[k], k).vendor = flags[k].vendor
            /\ Settled(flags[k], k).effort = flags[k].effort
            /\ flags[k].model # None => Settled(flags[k], k).model = flags[k].model
        BY <3>3, SettledKeeps DEF Named
      <4> HIDE DEF SettingsInv
      <4> QED BY <2>14, <3>3, <4>1 DEF attach, Picking, GetsWhatItNamed, SettingsTypeOK, SettingsInv
    <3> QED BY <3>1, <3>2, <3>4
  <2>15. CASE UNCHANGED settingsVars
    BY <2>15
    DEF settingsVars, files, pages, pickers, SettingsTypeOK, Files, Answered, Written, Picking,
                 GetsWhatItNamed
  <2> QED BY <2>1, <2>2, <2>3, <2>4, <2>5, <2>6, <2>7, <2>8, <2>9, <2>10, <2>11, <2>12,
             <2>13, <2>14, <2>15 DEF SettingsNext
<1> QED BY <1>1, <1>2, PTL DEF SettingsSpec

-------------------------------------------------------------------------------

\* A row that shows `saved` has in its file what it sent, whatever other screens, hand
\* edits and `repo add` do, unless one of them wrote that entry later.
THEOREM SavesStand == NamesApart => (SettingsSpec => []SavedIsInFile)
<1>1. SettingsInv => SavedIsInFile BY DEF SettingsInv, Written, SavedIsInFile
<1> QED BY <1>1, Invariance, PTL

\* A session has what its picker named, whatever is written before it is attached.
THEOREM PickersAreObeyed == NamesApart => (SettingsSpec => []GetsWhatItNamed)
<1>1. SettingsInv => GetsWhatItNamed BY DEF SettingsInv
<1> QED BY <1>1, Invariance, PTL

\* A picker started as it was filled attaches the default while the files stand: what
\* an order of defaults resolved to, sent back as flags, resolves to itself.
THEOREM DefaultsComeBack == NamesApart => (SettingsSpec => UneditedIsDefault)
<1> SUFFICES ASSUME NamesApart PROVE SettingsSpec => UneditedIsDefault
  OBVIOUS
<1> DEFINE Comes(k) ==
      attach(k) /\ got'[k] # None /\ flags[k] = seen[k].resolved /\ seen[k].files = files
        => got'[k] = Settled(Empty, k)
<1>1. SettingsInv /\ [SettingsNext]_settingsVars => [\A k \in Pick : Comes(k)]_settingsVars
  <2> SUFFICES ASSUME SettingsInv, NEW k \in Pick, attach(k), got'[k] # None,
                      flags[k] = seen[k].resolved, seen[k].files = files
               PROVE got'[k] = Settled(Empty, k)
    OBVIOUS
  <2>1. files = <<home, repos>> /\ files \in Files /\ home \in Fields /\ k \in DOMAIN got
    BY DEF SettingsInv, SettingsTypeOK, files, Files
  <2>2. flags[k] = resolveSessionDefaults(Empty, EntryOf(k, files), home)
    BY <2>1 DEF attach, SettingsInv, Picking, resolvedFor
  <2>3. got'[k] = Settled(flags[k], k)
    BY <2>1 DEF attach
  <2>4. resolveSessionDefaults(flags[k], EntryOf(k, files), home)
          = resolveSessionDefaults(Empty, EntryOf(k, files), home)
    BY <2>1, <2>2, Entries, ResolvedStays
  <2> QED BY <2>3, <2>4 DEF Settled
<1>2. SettingsSpec => [][SettingsNext]_settingsVars BY DEF SettingsSpec
<1> QED BY <1>1, <1>2, Invariance, PTL DEF SettingsSpec, UneditedIsDefault
===============================================================================
