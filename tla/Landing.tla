-------------------------------- MODULE Landing --------------------------------
(***************************************************************************)
(* Landing one stream: LandingService.land with its gate, the diff rules,  *)
(* the merge and the record of it, beside a worker that may be attached    *)
(* meanwhile and an operator working in a checkout of the target.          *)
(*                                                                         *)
(* Grain.  land waits for I/O once, when the diff rules ask the            *)
(* classifier.  Everything else runs without giving the event loop away    *)
(* (`loop` holds it), but git runs as child processes one after another,   *)
(* and whoever works in the repository may act between two of them.        *)
(***************************************************************************)
EXTENDS Naturals, FiniteSets

CONSTANTS
  Call,          \* calls of land; a gate is named by the call that raised it
  Commit,        \* commits the stream's branch or the target may get
  Conflicting,   \* pairs of commits that do not merge
  NoCall,
  LandGates,     \* what repos.yaml may say of `land_gate`
  HasCheckout,   \* the target is checked out in the operator's worktree
  OutsideCommits \* whether the branch gets commits while no worker is attached

ASSUME LandingAssumption ==
  /\ NoCall \notin Call
  /\ Conflicting \subseteq Commit \X Commit
  /\ LandGates \subseteq BOOLEAN /\ LandGates # {}
  /\ HasCheckout \in BOOLEAN /\ OutsideCommits \in BOOLEAN

VARIABLES
  human, conflict, live, \* the stream: human status, land_conflict, a live worker
  worktree,        \* the stream's worktree
  branch, target,  \* the commits on both branches
  checkout,        \* the operator's checkout of the target
  loop,            \* the call that holds the event loop
  pc,              \* where each call stands
  passed, noticed, \* calls with `gateApproved`; calls that saw a conflict recorded
  seen,            \* the diff a call read (`target...branch`)
  via,             \* the approval a call spent
  before, sha, tidy, \* merge(): the target read, the merge made, a clean checkout seen
  gkind, gstatus,  \* the gate a call raised
  pushed, lost     \* history: the operator's commits, and whether an edit was lost

stream == <<human, conflict, live>>
repo == <<worktree, branch, target, checkout>>
locals == <<passed, noticed, seen, via, before, sha, tidy>>
gates == <<gkind, gstatus>>
operator == <<pushed, lost>>
vars == <<stream, repo, loop, pc, locals, gates, operator>>

InMerge == {"merging", "preparing", "merged", "moved", "recording"}
Running == {"starting", "asking"} \cup InMerge
Ended == {"landed", "blocked", "refused", "gated", "crashed"}

Init ==
  /\ human = "open" /\ conflict = FALSE /\ live = FALSE
  /\ worktree = "clean" /\ branch = {} /\ target = {}
  /\ checkout = IF HasCheckout THEN "clean" ELSE "none"
  /\ loop = NoCall /\ pc = [c \in Call |-> "idle"]
  /\ passed = {} /\ noticed = {} /\ tidy = {}
  /\ seen = [c \in Call |-> {}] /\ via = [c \in Call |-> NoCall]
  /\ before = [c \in Call |-> {}] /\ sha = [c \in Call |-> {}]
  /\ gkind = [c \in Call |-> "none"] /\ gstatus = [c \in Call |-> "none"]
  /\ pushed = {} /\ lost = FALSE

-------------------------------------------------------------------------------
(* Starting a land *)

Goto(c, where) == pc' = [pc EXCEPT ![c] = where]
Hold(c, where) == Goto(c, where) /\ loop' = c
End(c, how) == Goto(c, how) /\ loop' = NoCall

Start(c, approved) ==
  /\ pc[c] = "idle" /\ loop = NoCall
  /\ Hold(c, "starting")
  /\ passed' = IF approved THEN passed \cup {c} ELSE passed
  /\ noticed' = IF conflict THEN noticed \cup {c} ELSE noticed

\* The human presses Land, or `agile land`.
Press(c) ==
  /\ Start(c, FALSE)
  /\ UNCHANGED <<stream, repo, seen, via, before, sha, tidy, gates, operator>>

Diff == branch \ target

\* requireLandable, and something to land.
Landable == human = "open" /\ ~live /\ Diff # {}

Refuse(c) ==
  /\ loop = c /\ pc[c] = "starting" /\ ~Landable
  /\ End(c, "refused")
  /\ UNCHANGED <<stream, repo, locals, gates, operator>>

Raise(c, kind) ==
  /\ gkind' = [gkind EXCEPT ![c] = kind]
  /\ gstatus' = [gstatus EXCEPT ![c] = "pending"]
  /\ End(c, "gated")

RaiseLandGate(c) ==
  /\ loop = c /\ pc[c] = "starting" /\ Landable
  /\ c \notin passed /\ TRUE \in LandGates
  /\ Raise(c, "land")
  /\ UNCHANGED <<stream, repo, locals, operator>>

PastGate(c) ==
  /\ loop = c /\ pc[c] = "starting" /\ Landable
  /\ c \in passed \/ FALSE \in LandGates

-------------------------------------------------------------------------------
(* Diff rules *)

\* Mutant: the answers of this stream, whatever diff they were given for.
ReviewsOfStream(status) ==
  {g \in Call : gkind[g] = "review" /\ gstatus[g] = status}

\* The answers the human gave for this very diff.
Reviews(status) ==
  {g \in Call : gkind[g] = "review" /\ gstatus[g] = status /\ seen[g] = Diff}

Read(c) == PastGate(c) /\ seen' = [seen EXCEPT ![c] = Diff]

\* No classifier rule with stage `diff` is in scope.
Unruled(c) ==
  /\ Read(c)
  /\ Hold(c, "merging")
  /\ UNCHANGED <<stream, repo, passed, noticed, via, before, sha, tidy, gates, operator>>

\* Mutant: an approval is a standing permission.
SpendNothing(c, g) ==
  /\ Read(c) /\ g \in Reviews("approved")
  /\ via' = [via EXCEPT ![c] = g]
  /\ Hold(c, "merging")
  /\ UNCHANGED <<stream, repo, passed, noticed, before, sha, tidy, gates, operator>>

Spend(c, g) ==
  /\ Read(c) /\ g \in Reviews("approved")
  /\ gstatus' = [gstatus EXCEPT ![g] = "spent"]
  /\ via' = [via EXCEPT ![c] = g]
  /\ Hold(c, "merging")
  /\ UNCHANGED <<stream, repo, passed, noticed, before, sha, tidy, gkind, operator>>

\* Answered and not approved: still waiting, or denied.
Reuse(c) ==
  /\ Read(c) /\ Reviews("approved") = {}
  /\ \/ Reviews("pending") # {} /\ End(c, "gated")
     \/ Reviews("pending") = {} /\ Reviews("denied") # {} /\ End(c, "refused")
  /\ UNCHANGED <<stream, repo, passed, noticed, via, before, sha, tidy, gates, operator>>

\* A diff nobody answered for: the one wait in a land.
Ask(c) ==
  /\ Read(c)
  /\ Reviews("approved") \cup Reviews("pending") \cup Reviews("denied") = {}
  /\ Goto(c, "asking") /\ loop' = NoCall
  /\ UNCHANGED <<stream, repo, passed, noticed, via, before, sha, tidy, gates, operator>>

\* The bands of the answer, or the fail policy of an answer that did not come.
Allowed(c) ==
  /\ pc[c] = "asking" /\ loop = NoCall
  /\ Hold(c, "merging")
  /\ UNCHANGED <<stream, repo, locals, gates, operator>>

Denied(c) ==
  /\ pc[c] = "asking" /\ loop = NoCall
  /\ End(c, "refused")
  /\ UNCHANGED <<stream, repo, locals, gates, operator>>

Routed(c) ==
  /\ pc[c] = "asking" /\ loop = NoCall
  /\ Raise(c, "review")
  /\ UNCHANGED <<stream, repo, locals, operator>>

\* The human answers a gate.  Approving one lands, in the same call; a land
\* started by a review passes the land gate again.
Deny(g) ==
  /\ gstatus[g] = "pending" /\ loop = NoCall
  /\ gstatus' = [gstatus EXCEPT ![g] = "denied"]
  /\ UNCHANGED <<stream, repo, loop, pc, locals, gkind, operator>>

Approve(g, c) ==
  /\ gstatus[g] = "pending"
  /\ gstatus' = [gstatus EXCEPT ![g] = "approved"]
  /\ Start(c, gkind[g] = "land")
  /\ UNCHANGED <<stream, repo, seen, via, before, sha, tidy, gkind, operator>>

-------------------------------------------------------------------------------
(* The merge *)

\* A dirty checkout of the target refuses the land; else the target is read.
BeginMerge(c) ==
  /\ loop = c /\ pc[c] = "merging"
  /\ \/ /\ checkout = "dirty" /\ End(c, "refused")
        /\ UNCHANGED <<before, tidy>>
     \/ /\ checkout # "dirty" /\ Hold(c, "preparing")
        /\ before' = [before EXCEPT ![c] = target]
        /\ tidy' = IF checkout = "none" THEN tidy ELSE tidy \cup {c}
  /\ UNCHANGED <<stream, repo, passed, noticed, seen, via, sha, gates, operator>>

Conflicts == \E b \in branch \ target, t \in target \ branch : <<b, t>> \in Conflicting

\* `merge --no-ff` in a temporary worktree detached at the target; it may also
\* fail for a reason of its own, and then no conflict is recorded.
Merge(c) ==
  /\ loop = c /\ pc[c] = "preparing"
  /\ \/ Conflicts /\ End(c, "blocked") /\ conflict' = TRUE /\ sha' = sha
     \/ ~Conflicts /\ End(c, "blocked") /\ UNCHANGED <<conflict, sha>>
     \/ /\ ~Conflicts /\ Hold(c, "merged") /\ conflict' = conflict
        /\ sha' = [sha EXCEPT ![c] = target \cup branch]
  /\ UNCHANGED <<human, live, repo, passed, noticed, seen, via, before, tidy, gates, operator>>

\* Mutant: a ref that could not be moved is not noticed.
UpdateRefUnnoticed(c) ==
  /\ loop = c /\ pc[c] = "merged"
  /\ target' = IF target = before[c] THEN sha[c] ELSE target
  /\ Hold(c, IF target = before[c] THEN "moved" ELSE "recording")
  /\ UNCHANGED <<stream, worktree, branch, checkout, locals, gates, operator>>

\* An untracked file in the way refuses; a target that moved blocks.
UpdateRef(c) ==
  /\ loop = c /\ pc[c] = "merged"
  /\ \/ /\ checkout = "stray" /\ c \in tidy
        /\ End(c, "refused") /\ target' = target
     \/ /\ ~(checkout = "stray" /\ c \in tidy) /\ target # before[c]
        /\ End(c, "blocked") /\ target' = target
     \/ /\ ~(checkout = "stray" /\ c \in tidy) /\ target = before[c]
        /\ Hold(c, "moved") /\ target' = sha[c]
  /\ UNCHANGED <<stream, worktree, branch, checkout, locals, gates, operator>>

\* `reset --hard` of a checkout read as clean before the merge.
BringAlong(c) ==
  /\ loop = c /\ pc[c] = "moved"
  /\ Hold(c, "recording")
  /\ IF c \in tidy
     THEN /\ target' = sha[c] /\ checkout' = "clean"
          /\ lost' = (lost \/ checkout \in {"dirty", "stray"})
     ELSE UNCHANGED <<target, checkout, lost>>
  /\ UNCHANGED <<stream, worktree, branch, locals, gates, pushed>>

\* The stream is landed, whatever it became meanwhile; its worktree is removed
\* when it holds no uncommitted work.
Record(c) ==
  /\ loop = c /\ pc[c] = "recording"
  /\ human' = "landed"
  /\ conflict' = IF c \in noticed THEN FALSE ELSE conflict
  /\ worktree' = IF worktree = "clean" THEN "gone" ELSE worktree
  /\ End(c, "landed")
  /\ UNCHANGED <<live, branch, target, checkout, locals, gates, operator>>

-------------------------------------------------------------------------------
(* The stream meanwhile: other handlers, which need the event loop *)

Attach ==
  /\ loop = NoCall /\ ~live
  /\ live' = TRUE /\ conflict' = FALSE
  /\ UNCHANGED <<human, repo, loop, pc, locals, gates, operator>>

WorkerEnds ==
  /\ loop = NoCall /\ live
  /\ live' = FALSE
  /\ UNCHANGED <<human, conflict, repo, loop, pc, locals, gates, operator>>

Close ==
  /\ loop = NoCall
  /\ human' = "closed"
  /\ UNCHANGED <<conflict, live, repo, loop, pc, locals, gates, operator>>

\* A branch merged by hand or by a PR.
MarkLanded ==
  /\ loop = NoCall /\ human = "open" /\ ~live
  /\ branch # {} /\ branch \subseteq target
  /\ human' = "landed"
  /\ UNCHANGED <<conflict, live, repo, loop, pc, locals, gates, operator>>

\* kill -9 and a restart.  A worker recorded as live over a crash stays so
\* (Sessions), and a stream with one never lands: such crashes are left out.
Crash ==
  /\ ~live /\ \E c \in Call : pc[c] \in Running
  /\ loop' = NoCall
  /\ pc' = [c \in Call |-> IF pc[c] \in Running THEN "crashed" ELSE pc[c]]
  /\ UNCHANGED <<stream, repo, locals, gates, operator>>

-------------------------------------------------------------------------------
(* The repository meanwhile: processes of their own, at any time *)

New(k) == k \notin branch \cup target

CommitOnBranch(k) ==
  /\ live \/ OutsideCommits
  /\ worktree # "gone" /\ New(k)
  /\ branch' = branch \cup {k} /\ worktree' = "clean"
  /\ UNCHANGED <<stream, target, checkout, loop, pc, locals, gates, operator>>

EditOnBranch ==
  /\ live \/ OutsideCommits
  /\ worktree = "clean" /\ worktree' = "dirty"
  /\ UNCHANGED <<stream, branch, target, checkout, loop, pc, locals, gates, operator>>

\* What a Resolve worker is told to do.
MergeTargetIn ==
  /\ live \/ OutsideCommits
  /\ worktree # "gone" /\ ~(target \subseteq branch)
  /\ branch' = branch \cup target
  /\ UNCHANGED <<stream, worktree, target, checkout, loop, pc, locals, gates, operator>>

\* The operator, or a fetch, advances the target.
CommitOnTarget(k) ==
  /\ New(k)
  /\ target' = target \cup {k} /\ pushed' = pushed \cup {k}
  /\ checkout' = IF checkout = "dirty" THEN "clean" ELSE checkout
  /\ UNCHANGED <<stream, worktree, branch, loop, pc, locals, gates, lost>>

\* An edit of a tracked file, or a new file where the merge brings one.
EditCheckout ==
  /\ checkout = "clean" /\ checkout' \in {"dirty", "stray"}
  /\ UNCHANGED <<stream, worktree, branch, target, loop, pc, locals, gates, operator>>

TidyCheckout ==
  /\ checkout \in {"dirty", "stray"} /\ checkout' = "clean"
  /\ UNCHANGED <<stream, worktree, branch, target, loop, pc, locals, gates, operator>>

-------------------------------------------------------------------------------
GoOn(c) ==
  \/ Refuse(c) \/ RaiseLandGate(c) \/ Unruled(c) \/ Reuse(c) \/ Ask(c)
  \/ \E g \in Call : Spend(c, g)
  \/ BeginMerge(c) \/ Merge(c) \/ UpdateRef(c) \/ BringAlong(c) \/ Record(c)

Verdict(c) == Allowed(c) \/ Denied(c) \/ Routed(c)

Others ==
  \/ Attach \/ WorkerEnds \/ Close \/ MarkLanded \/ Crash
  \/ \E k \in Commit : CommitOnBranch(k) \/ CommitOnTarget(k)
  \/ EditOnBranch \/ MergeTargetIn \/ EditCheckout \/ TidyCheckout

Next ==
  \/ \E c \in Call : Press(c) \/ GoOn(c) \/ Verdict(c) \/ Deny(c)
  \/ \E g, c \in Call : Approve(g, c)
  \/ Others

Spec == Init /\ [][Next]_vars

-------------------------------------------------------------------------------
(* Properties *)

\* Every variable keeps its range.
TypeOK ==
  /\ human \in {"open", "landed", "closed"}
  /\ conflict \in BOOLEAN /\ live \in BOOLEAN
  /\ worktree \in {"clean", "dirty", "gone"}
  /\ branch \in SUBSET Commit /\ target \in SUBSET Commit
  /\ checkout \in {"none", "clean", "dirty", "stray"}
  /\ loop \in Call \cup {NoCall}
  /\ pc \in [Call -> {"idle"} \cup Running \cup Ended]
  /\ passed \in SUBSET Call /\ noticed \in SUBSET Call /\ tidy \in SUBSET Call
  /\ seen \in [Call -> SUBSET Commit]
  /\ via \in [Call -> Call \cup {NoCall}]
  /\ before \in [Call -> SUBSET Commit] /\ sha \in [Call -> SUBSET Commit]
  /\ gkind \in [Call -> {"none", "land", "review"}]
  /\ gstatus \in [Call -> {"none", "pending", "approved", "denied", "spent"}]
  /\ pushed \in SUBSET Commit /\ lost \in BOOLEAN

\* What land reported as landed is on the target and stays there, whatever
\* other lands, commits on the target and crashes do.
LandedStaysOnTarget == \A c \in Call : pc[c] = "landed" => seen[c] \subseteq target

\* landing/diff-rules.ts:14-16: an approval is for one diff.  A land that goes
\* through on an approval merges exactly the diff the human was shown, although
\* the target may have moved and the diff is read and merged by different
\* commands (for commits made by an attached worker).
ApprovedIsMerged ==
  \A c \in Call :
    via[c] # NoCall /\ pc[c] \in {"moved", "recording", "landed"} =>
      sha[c] \ before[c] = seen[via[c]]

\* "An approval is one call, not a standing permission": no two lands merge on
\* the same answer.
ApprovalOpensOne ==
  \A c, d \in Call : via[c] = via[d] /\ via[c] # NoCall => c = d

\* D11: the target never loses a commit to a land's update of the ref; only
\* bringing the operator's checkout along may (see OperatorKeepsWork).
RefNeverRewinds == [][target \subseteq target' \/ \E c \in Call : pc[c] = "moved"]_vars

-------------------------------------------------------------------------------
(* What the repository says and the code does not keep *)

\* landing/service.ts:368, requireLandable: "Everything that must hold before
\* landing touches git: a repo, a live human status, no live worker."
LandableWhenMerged ==
  \A c \in Call : pc[c] = "merging" => human = "open" /\ ~live

\* landing/service.ts:457-466: a target that moved is not overwritten, a dirty
\* checkout refuses the land and untracked files are not overwritten.
OperatorKeepsWork == pushed \subseteq target /\ ~lost
===============================================================================
