---------------------------- MODULE ClassifierTier ----------------------------
(* The classifier tier.  A hook call, or a check of a diff about to land, sends its
   question for every rule in one request, or one request for each file of a diff
   that is too long, and turns the answers, or their absence, into a verdict, a line
   on the thread and a count for each rule.  Meanwhile the human sets and removes the
   key in Settings, edits config.yaml by hand, opts the stream out, accepts and
   retires rules, and restarts the daemon.  The calls are those the tiers above
   allowed; a diff whose gate the human answered is not asked about again (Landing).
   What a gate then does is Gates'; the 25 s a caller waits are in HookCalls. *)
EXTENDS Naturals, Sequences, FiniteSetsExt

CONSTANTS
  Rule,        \* the classifier rules, numbered in the order they are listed
  Critical,    \* those that deny when nobody answers
  DiffRule,    \* those with stage `diff` or `both`
  Hook, Land,  \* the calls that ask: of a hook, of a land
  MaxParts,    \* into how many requests a diff is split at most
  MaxEdits,    \* bound: what the human does
  MaxFaults    \* bound: what goes wrong

ASSUME ClassifierTierAssumption ==
  /\ Rule \subseteq Nat /\ Critical \subseteq Rule /\ DiffRule \subseteq Rule
  /\ MaxParts \in Nat \ {0} /\ {MaxEdits, MaxFaults} \subseteq Nat
  /\ Hook \cap Land = {}

Asker == Hook \cup Land
Provider == {"jev", "off"}
Config == [key : BOOLEAN, provider : Provider]

\* A probability is one of three here: below allow_below, at deny_at or over, between.
Probability == {0, 1, 2}
bandFor(p) == CASE p = 2 -> "deny" [] p = 1 -> "route" [] p = 0 -> "allow"

VARIABLES
  saved, live,  \* `classifier` in config.yaml, and the daemon's own copy of it
  env,         \* whether TYPESAFE_API_KEY is set where the daemon runs
  optedOut,    \* the stream's `classifier: off`, or its repository's
  page,        \* what Settings shows: where the key comes from, and an error
  accepted,    \* the rules in scope of the stream
  edits, faults,
  pc,          \* how far each call is
  asked,       \* the rules it is judged by
  parts,       \* how many requests it will make
  cut,         \* those that carry only the first part of their file, or of the call
  replies,     \* the answers it got
  best,        \* the highest of them, for each rule
  said,     \* what its caller is told
  told,        \* what the counters of its rules were told
  note         \* its `hook_unchecked` line: written, lost, or not called for

settings == <<saved, live, env, page>>
scope == <<optedOut, accepted>>
bounds == <<edits, faults>>
asking == <<asked, parts, cut, replies, best>>
outcome == <<said, told, note>>
calls == <<pc, asking, outcome>>
tierVars == <<settings, scope, bounds, calls>>

\* ClassifierKeyService.status
Source(config) == IF config.key THEN "config" ELSE IF env THEN "environment" ELSE "none"

TierInit ==
  /\ saved \in Config /\ live = saved /\ env \in BOOLEAN
  /\ page = [source |-> Source(live), error |-> FALSE]
  /\ optedOut \in BOOLEAN /\ accepted \in SUBSET Rule
  /\ edits = 0 /\ faults = 0
  /\ pc = [c \in Asker |-> "idle"]
  /\ asked = [c \in Asker |-> {}] /\ parts = [c \in Asker |-> 1] /\ cut = [c \in Asker |-> {}]
  /\ replies = [c \in Asker |-> <<>>] /\ best = [c \in Asker |-> <<>>]
  /\ said = [c \in Asker |-> "none"] /\ told = [c \in Asker |-> <<>>]
  /\ note = [c \in Asker |-> "none"]

Enter(c, state) == pc' = [pc EXCEPT ![c] = state]
Edit == edits < MaxEdits /\ edits' = edits + 1 /\ UNCHANGED faults
Fault == faults < MaxFaults /\ faults' = faults + 1 /\ UNCHANGED edits

-------------------------------------------------------------------------------
(* Asking *)

\* JevClassifier.configured
Configured == live.provider # "off" /\ (live.key \/ env)
classifierEnabled == ~optedOut /\ Configured

\* The hook asks about every rule of the stream, a land about those for diffs.
InScope(c) == IF c \in Hook THEN accepted ELSE accepted \cap DiffRule

\* A file that is over the budget by itself is sent as a prefix (truncateTo), and so are a
\* command or an edit over the hook's (clip): "a prefix still answers for what fits".  A
\* tier that is off takes the same way as one that fails.
Ask(c) ==
  /\ pc[c] = "idle" /\ InScope(c) # {}
  /\ asked' = [asked EXCEPT ![c] = InScope(c)]
  /\ \E n \in 1 .. (IF c \in Land THEN MaxParts ELSE 1) :
       /\ parts' = [parts EXCEPT ![c] = n]
       /\ \E long \in SUBSET (1 .. n) : cut' = [cut EXCEPT ![c] = long]
  /\ Enter(c, IF classifierEnabled THEN "asking" ELSE "off")
  /\ UNCHANGED <<settings, scope, bounds, replies, best, outcome>>

\* Mutant: the answer about the last file stands.
Last(old, new) == new

\* One bad file makes the whole diff bad.
Worst(old, new) ==
  [r \in DOMAIN new |-> IF r \notin DOMAIN old \/ new[r] > old[r] THEN new[r] ELSE old[r]]

\* A response answers every question or is refused.  The next request goes out at
\* once, if there still is a key.
Reply(c) ==
  /\ pc[c] = "asking"
  /\ \E answers \in [asked[c] -> Probability] :
       /\ replies' = [replies EXCEPT ![c] = Append(@, answers)]
       /\ best' = [best EXCEPT ![c] = Worst(@, answers)]
  /\ Enter(c, CASE Len(replies[c]) + 1 = parts[c] -> "answered"
                [] Len(replies[c]) + 1 < parts[c] /\ Configured -> "asking"
                [] OTHER -> "failed")
  /\ UNCHANGED <<settings, scope, bounds, asked, parts, cut, outcome>>

\* The scrub throws, the request times out or is refused, or its response is not one.
AskFails(c) ==
  /\ pc[c] = "asking" /\ Fault /\ Enter(c, "failed")
  /\ UNCHANGED <<settings, scope, asking, outcome>>

-------------------------------------------------------------------------------
(* What the answers come to *)

\* The answers a verdict is made of: all of them, or none.
Answers(c) == IF pc[c] = "answered" THEN best[c] ELSE <<>>

Banded(c, band) == {r \in DOMAIN Answers(c) : bandFor(Answers(c)[r]) = band}
Unanswered(c) == asked[c] \ DOMAIN Answers(c)
Denied(c) == Banded(c, "deny") \cup (Unanswered(c) \cap Critical)
Unchecked(c) == Unanswered(c) \ Critical

VerdictOf(c) ==
  CASE Denied(c) # {} -> "deny"
    [] Denied(c) = {} /\ Banded(c, "route") # {} -> "route"
    [] OTHER -> "allow"

Settle(c, v, counts, line) ==
  /\ pc[c] \in {"off", "answered", "failed"} /\ Enter(c, "done")
  /\ said' = [said EXCEPT ![c] = v]
  /\ told' = [told EXCEPT ![c] = counts]
  /\ note' = [note EXCEPT ![c] = line]
  /\ UNCHANGED <<settings, scope, asking>>

Nothing == <<>>

\* Mutant: a rule nobody answered about is blamed, critical or not.
HookBlamesUnanswered(c, approved) ==
  [r \in asked[c] |-> IF r \in Denied(c) \cup Unanswered(c) THEN "violated" ELSE "fired"]

\* The rule a call is denied for is the one violated, that it is routed for the one
\* routed, unless the human had already said yes to the call.
HookCounts(c, approved) ==
  LET v == VerdictOf(c) IN
  [r \in asked[c] |->
     CASE v = "deny" /\ r = Min(Denied(c)) -> "violated"
       [] v = "route" /\ ~approved /\ r = Min(Banded(c, "route")) -> "routed"
       [] OTHER -> "fired"]

\* The line on the thread is best effort.
HookSettles(c) ==
  /\ c \in Hook
  /\ \E approved \in BOOLEAN, lost \in BOOLEAN :
       /\ approved => VerdictOf(c) = "route"
       /\ lost => Unchecked(c) # {}
       /\ IF lost THEN Fault ELSE UNCHANGED bounds
       /\ Settle(c, IF approved THEN "approved" ELSE VerdictOf(c), HookCounts(c, approved),
                 IF Unchecked(c) = {} THEN "none" ELSE IF lost THEN "lost" ELSE "written")

\* The `classifier_call` event cannot be written, when there was a call; or, behind the
\* counts and the line, the `hook_decision` event.
HookErrs(c) ==
  /\ c \in Hook /\ Fault
  /\ \/ pc[c] # "off" /\ Settle(c, "error", Nothing, "none")
     \/ \E approved \in BOOLEAN :
          /\ approved => VerdictOf(c) = "route"
          /\ Settle(c, "error", HookCounts(c, approved), IF Unchecked(c) = {} THEN "none" ELSE "written")

LandCounts(c) ==
  [r \in asked[c] |-> CASE r \in Denied(c) -> "violated"
                        [] r \in Banded(c, "route") -> "routed"
                        [] OTHER -> "fired"]

LandSettles(c) ==
  /\ c \in Land /\ UNCHANGED bounds
  /\ Settle(c, VerdictOf(c), LandCounts(c), IF Unchecked(c) = {} THEN "none" ELSE "written")

\* The line cannot be written, or the gate.
LandErrs(c) ==
  /\ c \in Land /\ Fault
  /\ \/ Unchecked(c) # {} /\ Settle(c, "error", Nothing, "none")
     \/ VerdictOf(c) = "route" /\ Settle(c, "error", LandCounts(c), "none")

-------------------------------------------------------------------------------
(* Settings, and everything else the human does *)

\* Settings' two buttons: the file, the daemon's copy, and what the page shows.
SetKey(key) ==
  /\ Edit /\ saved' = [saved EXCEPT !.key = key] /\ live' = [live EXCEPT !.key = key]
  /\ page' = [source |-> Source(live'), error |-> FALSE]
  /\ UNCHANGED <<env, scope, calls>>

SaveKey == SetKey(TRUE)
RemoveKey == page.source = "config" /\ SetKey(FALSE)

\* The write fails before or after the file is in place.
RefuseKey ==
  /\ Fault
  /\ \/ saved' = [saved EXCEPT !.key = TRUE]
     \/ page.source = "config" /\ saved' = [saved EXCEPT !.key = FALSE]
     \/ UNCHANGED saved
  /\ page' = [page EXCEPT !.error = TRUE]
  /\ UNCHANGED <<live, env, scope, calls>>

HandEdit ==
  /\ Edit /\ \E config \in Config : saved' = config
  /\ UNCHANGED <<live, env, page, scope, calls>>

\* The daemon reads the file once; the calls it was answering are gone.
Restart ==
  /\ Edit /\ live' = saved /\ env' \in BOOLEAN
  /\ pc' = [c \in Asker |-> IF pc[c] \in {"idle", "done"} THEN pc[c] ELSE "gone"]
  /\ UNCHANGED <<saved, page, scope, asking, outcome>>

\* The human turns the tier off or on for the stream, accepts a rule or retires one.
ChangeScope ==
  /\ Edit
  /\ \/ optedOut' = ~optedOut /\ UNCHANGED accepted
     \/ UNCHANGED optedOut /\ \E r \in Rule \ accepted : accepted' = accepted \cup {r}
     \/ UNCHANGED optedOut /\ \E r \in accepted : accepted' = accepted \ {r}
  /\ UNCHANGED <<settings, calls>>

TierNext ==
  \/ \E c \in Asker : \/ Ask(c) \/ Reply(c) \/ AskFails(c)
                      \/ HookSettles(c) \/ HookErrs(c) \/ LandSettles(c) \/ LandErrs(c)
  \/ SaveKey \/ RemoveKey \/ RefuseKey \/ HandEdit \/ Restart \/ ChangeScope

TierSpec == TierInit /\ [][TierNext]_tierVars

-------------------------------------------------------------------------------
(* Properties *)

TierTypeOK ==
  /\ {saved, live} \subseteq Config /\ {env, optedOut} \subseteq BOOLEAN
  /\ page \in [source : {"config", "environment", "none"}, error : BOOLEAN]
  /\ accepted \in SUBSET Rule /\ edits \in 0 .. MaxEdits /\ faults \in 0 .. MaxFaults
  /\ pc \in [Asker -> {"idle", "off", "asking", "answered", "failed", "done", "gone"}]
  /\ asked \in [Asker -> SUBSET Rule] /\ parts \in [Asker -> 1 .. MaxParts]
  /\ cut \in [Asker -> SUBSET (1 .. MaxParts)]
  /\ said \in [Asker -> {"none", "allow", "approved", "route", "deny", "error"}]
  /\ note \in [Asker -> {"none", "written", "lost"}]

\* Every request was answered, and this is above the worst that was said.
JudgedBelow(c, r, p) ==
  Len(replies[c]) = parts[c] /\ \A i \in DOMAIN replies[c] : replies[c][i][r] < p

\* What the tier lets through was judged by every rule it asked about, on what it sent of
\* each file or of the call, and no answer said otherwise; only a rule that is not critical
\* may be passed over, and the thread says so (a hook call's line may be lost).  Keys set
\* and taken away, rules accepted and retired, and requests that fail between two files of
\* one diff make no difference (diff-rules.ts:133, hook/decide.ts:405).  What a cut left
\* out is not judged: PassedIsJudgedWhole.
PassedIsChecked ==
  \A c \in Asker : \A r \in asked[c] :
    /\ said[c] \in {"allow", "approved"} =>
         \/ JudgedBelow(c, r, IF said[c] = "allow" THEN 1 ELSE 2)
         \/ /\ r \notin Critical /\ said[c] = "allow"
            /\ note[c] # "none" /\ (c \in Land => note[c] = "written")

\* A rule is counted as violated by a call that was not let through, for a file that
\* broke it or because a critical rule was left without an answer; and a denial is
\* always some rule's (hook/service.ts:316, diff-rules.ts:172 and 252).
BlameIsFair ==
  \A c \in Asker :
    /\ \A r \in DOMAIN told[c] : told[c][r] = "violated" =>
         /\ said[c] \in {"deny", "error"}
         /\ \/ \E i \in DOMAIN replies[c] : bandFor(replies[c][i][r]) = "deny"
            \/ r \in Critical /\ Len(replies[c]) < parts[c]
    /\ said[c] = "deny" => \E r \in DOMAIN told[c] : told[c][r] = "violated"

\* What is let through with every rule answered was judged whole.  The code does not keep
\* this, and no line on the thread tells that a file or a call was cut.
PassedIsJudgedWhole ==
  \A c \in Asker : said[c] \in {"allow", "approved"} /\ Len(replies[c]) = parts[c] => cut[c] = {}

\* "One bad file makes the whole diff bad" (diff-rules.ts:193).  Not so when a later
\* file's request fails: the answers already there are thrown away, and the land goes
\* through with the rule unchecked.
OneBadFileIsBad ==
  \A c \in Asker : said[c] \in {"allow", "approved"} =>
    \A i \in DOMAIN replies[c] : \A r \in asked[c] : bandFor(replies[c][i][r]) # "deny"

\* The two callers count differently: "a rule that causes the deny is recorded
\* `violated`, never merely `fired`" is what a land does (diff-rules.ts:159), while of
\* two rules that deny a hook call the second is counted as fired.
DeniersAreBlamed ==
  \A c \in Asker : \A r \in DOMAIN told[c] :
    (\E i \in DOMAIN replies[c] : bandFor(replies[c][i][r]) = "deny") /\ said[c] = "deny"
      => told[c][r] = "violated"

\* "Could not save the classifier key" (http.ts:432), yet the next start may use it.
RefusedIsUnsaved == [][page'.error /\ ~page.error => saved' = saved]_tierVars
===============================================================================
