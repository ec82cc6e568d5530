---------------------------- MODULE Landing_proofs -----------------------------
(* Proofs about Landing for every number of calls and commits, with and        *)
(* without a land gate and a checkout of the target.                           *)
EXTENDS Landing, StreamPage, TLAPS

-------------------------------------------------------------------------------
(* The inductive invariant *)

\* The event loop is held by the call that runs, unless it waits for the
\* classifier.
LoopIsHeld == \A c \in Call : loop = c <=> pc[c] \in Running \ {"asking"}

\* A gate is raised by a call that then ends, and an approval is spent on its
\* way to the merge.
GatesAgree ==
  /\ \A c \in Call : gkind[c] # "none" => pc[c] = "gated"
  /\ \A c \in Call : gstatus[c] # "none" => gkind[c] # "none"
  /\ \A c \in Call : via[c] # NoCall => gstatus[via[c]] = "spent"
  /\ \A c \in Call : via[c] # NoCall => pc[c] \in InMerge \cup Ended

\* The diff a call read is on its way to the target, and the merge is made on
\* top of the target that was read.
DiffTravels ==
  \A c \in Call :
    /\ pc[c] \in {"asking", "merging", "preparing"} => seen[c] \subseteq branch
    /\ pc[c] = "preparing" => before[c] \subseteq target
    /\ pc[c] = "merged" => before[c] \cup seen[c] \subseteq sha[c]
    /\ pc[c] = "moved" =>
         /\ seen[c] \subseteq target \cap sha[c]
         /\ \A d \in Call : pc[d] = "landed" => seen[d] \subseteq sha[c]
    /\ pc[c] \in {"recording", "landed"} => seen[c] \subseteq target

Inv == TypeOK /\ LoopIsHeld /\ GatesAgree /\ ApprovalOpensOne /\ DiffTravels

\* From the approval to the merge the branch stands still, so that what is
\* merged beyond the target is what the human was shown.
ShownIsKept ==
  \A c \in Call : via[c] # NoCall =>
    /\ seen[via[c]] = seen[c]
    /\ pc[c] \in {"merging", "preparing", "merged"} => ~live /\ Diff = seen[c]
    /\ pc[c] = "merged" => branch \subseteq sha[c] /\ sha[c] \subseteq target \cup branch
    /\ pc[c] \in {"moved", "recording", "landed"} => sha[c] \ before[c] = seen[c]

-------------------------------------------------------------------------------
(* Types *)

\* The steps of one call that give back the loop or hand it over.
LEMMA GotoType ==
  ASSUME TypeOK, NEW c \in Call, NEW where \in {"idle"} \cup Running \cup Ended
  PROVE  /\ Goto(c, where) => pc' \in [Call -> {"idle"} \cup Running \cup Ended]
         /\ Hold(c, where) => /\ pc' \in [Call -> {"idle"} \cup Running \cup Ended]
                              /\ loop' \in Call \cup {NoCall}
         /\ End(c, where) => /\ pc' \in [Call -> {"idle"} \cup Running \cup Ended]
                             /\ loop' \in Call \cup {NoCall}
BY DEF TypeOK, Goto, Hold, End

\* A land that starts or goes on keeps the types.
LEMMA CallType ==
  ASSUME TypeOK, NEW c \in Call,
         Press(c) \/ GoOn(c) \/ Verdict(c) \/ Deny(c) \/ \E g \in Call : Approve(g, c)
  PROVE  TypeOK'
<1> USE GotoType DEF Running, Ended, InMerge
<1>1. CASE Press(c)
  BY <1>1 DEF TypeOK, Press, Start, Hold, Goto, stream, repo, gates, operator
<1>2. CASE Refuse(c)
  BY <1>2 DEF TypeOK, Refuse, End, Goto, stream, repo, locals, gates, operator
<1>3. CASE RaiseLandGate(c)
  BY <1>3 DEF TypeOK, RaiseLandGate, Raise, End, Goto, stream, repo, locals, operator
<1>4. CASE Unruled(c)
  BY <1>4 DEF TypeOK, Unruled, Read, Diff, Hold, Goto, stream, repo, gates, operator
<1>5. CASE Reuse(c)
  BY <1>5 DEF TypeOK, Reuse, Read, Diff, End, Goto, stream, repo, gates, operator
<1>6. CASE Ask(c)
  BY <1>6 DEF TypeOK, Ask, Read, Diff, Goto, stream, repo, gates, operator
<1>7. ASSUME NEW g \in Call, Spend(c, g) PROVE TypeOK'
  BY <1>7 DEF TypeOK, Spend, Read, Diff, Hold, Goto, stream, repo, operator
<1>8. CASE BeginMerge(c)
  BY <1>8 DEF TypeOK, BeginMerge, Hold, End, Goto, stream, repo, gates, operator
<1>9. CASE Merge(c)
  <2>1. conflict' \in BOOLEAN /\ sha' \in [Call -> SUBSET Commit]
    <3>1. conflict' \in {TRUE, conflict} /\ sha' \in {sha, [sha EXCEPT ![c] = target \cup branch]}
      BY <1>9, Zenon DEF Merge
    <3>2. conflict' \in BOOLEAN
      BY <3>1, Zenon DEF TypeOK
    <3> QED BY <3>1, <3>2 DEF TypeOK
  <2>2. pc' \in [Call -> {"idle"} \cup Running \cup Ended] /\ loop' \in Call \cup {NoCall}
    BY <1>9 DEF Merge
  <2> QED BY <1>9, <2>1, <2>2 DEF TypeOK, Merge, repo, gates, operator
<1>10. CASE UpdateRef(c)
  BY <1>10 DEF TypeOK, UpdateRef, Hold, End, Goto, stream, locals, gates, operator
<1>11. CASE BringAlong(c)
  <2>1. target' \in {target, sha[c]} /\ checkout' \in {checkout, "clean"}
    BY <1>11 DEF BringAlong
  <2>3. target' \in SUBSET Commit /\ checkout' \in {"none", "clean", "dirty", "stray"}
    BY <2>1 DEF TypeOK
  <2>4. lost' \in BOOLEAN
    <3>1. lost' = lost \/ lost' = (lost \/ checkout \in {"dirty", "stray"})
      BY <1>11, Zenon DEF BringAlong
    <3> QED BY <3>1, Zenon DEF TypeOK
  <2>2. pc' \in [Call -> {"idle"} \cup Running \cup Ended] /\ loop' \in Call \cup {NoCall}
    BY <1>11 DEF BringAlong
  <2> QED BY <1>11, <2>2, <2>3, <2>4 DEF TypeOK, BringAlong, stream, locals, gates
<1>12. CASE Record(c)
  BY <1>12 DEF TypeOK, Record, End, Goto, locals, gates, operator
<1>13. CASE Verdict(c)
  BY <1>13 DEF TypeOK, Verdict, Allowed, Denied, Routed, Raise, Hold, End, Goto,
               stream, repo, locals, gates, operator
<1>14. CASE Deny(c)
  BY <1>14 DEF TypeOK, Deny, stream, repo, locals, operator
<1>15. ASSUME NEW g \in Call, Approve(g, c) PROVE TypeOK'
  <2>1. passed' \in SUBSET Call /\ noticed' \in SUBSET Call
    BY <1>15 DEF TypeOK, Approve, Start
  <2>2. pc' \in [Call -> {"idle"} \cup Running \cup Ended] /\ loop' \in Call \cup {NoCall}
    BY <1>15 DEF Approve, Start
  <2>3. gstatus' \in [Call -> {"none", "pending", "approved", "denied", "spent"}]
    BY <1>15 DEF TypeOK, Approve
  <2> QED BY <1>15, <2>1, <2>2, <2>3 DEF TypeOK, Approve, stream, repo, operator
<1> QED BY <1>1, <1>2, <1>3, <1>4, <1>5, <1>6, <1>7, <1>8, <1>9, <1>10, <1>11, <1>12,
           <1>13, <1>14, <1>15 DEF GoOn

\* So do the stream's other handlers, a crash, and who works in the repository.
LEMMA OthersType ==
  ASSUME TypeOK, Others
  PROVE  TypeOK'
<1> USE DEF TypeOK, stream, repo, locals, gates, operator
<1>1. CASE Attach \/ WorkerEnds \/ Close \/ MarkLanded
  BY <1>1 DEF Attach, WorkerEnds, Close, MarkLanded
<1>2. CASE Crash
  BY <1>2 DEF Crash, Running, Ended, InMerge
<1>3. ASSUME NEW k \in Commit, CommitOnBranch(k) \/ CommitOnTarget(k) PROVE TypeOK'
  BY <1>3 DEF CommitOnBranch, CommitOnTarget
<1>4. CASE EditOnBranch \/ MergeTargetIn \/ EditCheckout \/ TidyCheckout
  BY <1>4 DEF EditOnBranch, MergeTargetIn, EditCheckout, TidyCheckout
<1> QED BY <1>1, <1>2, <1>3, <1>4 DEF Others

LEMMA TypeStep == TypeOK /\ [Next]_vars => TypeOK'
<1> SUFFICES ASSUME TypeOK, [Next]_vars PROVE TypeOK'
  OBVIOUS
<1>1. CASE UNCHANGED vars
  BY <1>1 DEF TypeOK, vars, stream, repo, locals, gates, operator
<1>2. CASE Next
  BY <1>2, CallType, OthersType DEF Next
<1> QED BY <1>1, <1>2

LEMMA TypeInit == Init => TypeOK
<1> SUFFICES ASSUME Init PROVE TypeOK
  OBVIOUS
<1>1. conflict \in BOOLEAN /\ live \in BOOLEAN /\ lost \in BOOLEAN
  BY Zenon DEF Init
<1>2. checkout \in {"none", "clean", "dirty", "stray"}
  BY DEF Init
<1> QED BY <1>1, <1>2 DEF Init, TypeOK

\* Every variable keeps its range.
THEOREM TypeCorrect == Spec => []TypeOK
BY TypeInit, TypeStep, PTL DEF Spec

-------------------------------------------------------------------------------
(* The event loop *)

\* A step leaves the calls alone, stops them all, or moves one that holds the
\* loop or takes it.
Moves ==
  \/ UNCHANGED <<pc, loop>>
  \/ loop' = NoCall /\ pc' = [c \in Call |-> IF pc[c] \in Running THEN "crashed" ELSE pc[c]]
  \/ \E c \in Call :
       /\ loop = c \/ loop = NoCall
       /\ \/ \E where \in Running \ {"asking"} : Hold(c, where)
          \/ \E how \in Ended \cup {"asking"} : End(c, how)

LEMMA StepMoves == [Next]_vars => Moves
<1> SUFFICES ASSUME [Next]_vars PROVE Moves
  OBVIOUS
<1> USE DEF Running, Ended, InMerge
<1>1. ASSUME NEW c \in Call, NEW b, Start(c, b) PROVE Moves
  BY <1>1 DEF Start, Moves
<1>2. ASSUME NEW c \in Call, NEW k, loop \in {c, NoCall}, Raise(c, k) PROVE Moves
  BY <1>2 DEF Raise, Moves
<1>3. ASSUME NEW c \in Call, Press(c) PROVE Moves
  BY <1>1, <1>3 DEF Press
<1>4. ASSUME NEW c \in Call, GoOn(c) PROVE Moves
  <2>1. CASE Refuse(c) \/ Unruled(c) \/ Reuse(c) \/ Ask(c) \/ \E g \in Call : Spend(c, g)
    BY <2>1 DEF Moves, Refuse, Unruled, Reuse, Ask, Spend, Read, PastGate, Goto, End
  <2>2. CASE RaiseLandGate(c)
    BY <1>2, <2>2 DEF RaiseLandGate
  <2>3. CASE BeginMerge(c) \/ Merge(c) \/ UpdateRef(c) \/ BringAlong(c) \/ Record(c)
    BY <2>3 DEF Moves, BeginMerge, Merge, UpdateRef, BringAlong, Record
  <2> QED BY <1>4, <2>1, <2>2, <2>3 DEF GoOn
<1>5. ASSUME NEW c \in Call, Verdict(c) PROVE Moves
  BY <1>2, <1>5 DEF Verdict, Allowed, Denied, Routed, Moves
<1>6. ASSUME NEW c \in Call, Deny(c) PROVE Moves
  BY <1>6 DEF Deny, Moves
<1>7. ASSUME NEW g \in Call, NEW c \in Call, Approve(g, c) PROVE Moves
  BY <1>1, <1>7 DEF Approve
<1>8. CASE Others
  BY <1>8 DEF Others, Moves, Attach, WorkerEnds, Close, MarkLanded, Crash, CommitOnBranch,
              CommitOnTarget, EditOnBranch, MergeTargetIn, EditCheckout, TidyCheckout
<1>9. CASE UNCHANGED vars
  BY <1>9 DEF vars, Moves
<1> QED BY <1>3, <1>4, <1>5, <1>6, <1>7, <1>8, <1>9 DEF Next

LEMMA LoopStep == TypeOK /\ LoopIsHeld /\ [Next]_vars => LoopIsHeld'
<1> SUFFICES ASSUME TypeOK, LoopIsHeld, Moves PROVE LoopIsHeld'
  BY StepMoves
<1> USE LandingAssumption DEF TypeOK, LoopIsHeld, Running, Ended, InMerge
<1>1. CASE UNCHANGED <<pc, loop>>
  BY <1>1
<1>2. CASE loop' = NoCall /\ pc' = [c \in Call |-> IF pc[c] \in Running THEN "crashed" ELSE pc[c]]
  BY <1>2
<1>3. ASSUME NEW c \in Call, loop = c \/ loop = NoCall,
             NEW where \in Running \ {"asking"}, Hold(c, where)
      PROVE  LoopIsHeld'
  BY <1>3 DEF Hold, Goto
<1>4. ASSUME NEW c \in Call, loop = c \/ loop = NoCall,
             NEW how \in Ended \cup {"asking"}, End(c, how)
      PROVE  LoopIsHeld'
  BY <1>4 DEF End, Goto
<1> QED BY <1>1, <1>2, <1>3, <1>4 DEF Moves

-------------------------------------------------------------------------------
(* Gates and the approvals that are spent *)

\* A call that raised a gate is not moved again by steps that raise none.
LEMMA GatesKept ==
  ASSUME TypeOK, GatesAgree, ApprovalOpensOne, UNCHANGED <<gates, via>>,
         \/ UNCHANGED pc
         \/ \E c \in Call, where \in Running \cup Ended :
              /\ pc' = [pc EXCEPT ![c] = where]
              /\ \/ pc[c] = "idle"
                 \/ pc[c] \in {"starting", "asking"}
                 \/ pc[c] \in InMerge /\ where \in InMerge \cup Ended
         \/ pc' = [c \in Call |-> IF pc[c] \in Running THEN "crashed" ELSE pc[c]]
  PROVE  GatesAgree' /\ ApprovalOpensOne'
BY DEF TypeOK, GatesAgree, ApprovalOpensOne, gates, Running, Ended, InMerge

\* A gate that is raised is new, and nobody has spent it.
LEMMA RaiseGates ==
  ASSUME TypeOK, GatesAgree, ApprovalOpensOne, NEW c \in Call, NEW k \in {"land", "review"},
         pc[c] \in {"starting", "asking"}, Raise(c, k), UNCHANGED via
  PROVE  GatesAgree' /\ ApprovalOpensOne'
BY DEF TypeOK, GatesAgree, ApprovalOpensOne, Raise, End, Goto, Running, Ended, InMerge

LEMMA SpendGates ==
  ASSUME TypeOK, GatesAgree, ApprovalOpensOne, NEW c \in Call, NEW g \in Call, Spend(c, g)
  PROVE  GatesAgree' /\ ApprovalOpensOne'
<1>1. /\ pc[c] = "starting" /\ gstatus[g] = "approved" /\ gkind[g] # "none"
      /\ pc' = [pc EXCEPT ![c] = "merging"]
      /\ via' = [via EXCEPT ![c] = g]
      /\ gkind' = gkind /\ gstatus' = [gstatus EXCEPT ![g] = "spent"]
  BY DEF Spend, Read, PastGate, Reviews, Hold, Goto
<1>2. via[c] = NoCall /\ \A d \in Call : via[d] # g
  BY <1>1, LandingAssumption DEF TypeOK, GatesAgree, InMerge, Ended
<1> QED BY <1>1, <1>2 DEF TypeOK, GatesAgree, ApprovalOpensOne, InMerge

LEMMA GatesStep ==
  TypeOK /\ GatesAgree /\ ApprovalOpensOne /\ [Next]_vars => GatesAgree' /\ ApprovalOpensOne'
<1> SUFFICES ASSUME TypeOK, GatesAgree, ApprovalOpensOne, [Next]_vars
             PROVE  GatesAgree' /\ ApprovalOpensOne'
  OBVIOUS
<1>1. ASSUME NEW c \in Call, Press(c) PROVE GatesAgree' /\ ApprovalOpensOne'
  BY <1>1, GatesKept DEF Press, Start, Hold, Goto, Running
<1>2. ASSUME NEW c \in Call, GoOn(c) PROVE GatesAgree' /\ ApprovalOpensOne'
  <2>1. CASE Refuse(c) \/ Unruled(c) \/ Reuse(c) \/ Ask(c)
    <3>1. UNCHANGED <<gates, via>> /\ pc[c] = "starting"
      BY <2>1 DEF Refuse, Unruled, Reuse, Ask, Read, PastGate, locals
    <3>2. \E where \in Running \cup Ended : pc' = [pc EXCEPT ![c] = where]
      BY <2>1 DEF Refuse, Unruled, Reuse, Ask, Hold, End, Goto, Running, Ended, InMerge
    <3> QED BY <3>1, <3>2, GatesKept
  <2>2. CASE RaiseLandGate(c)
    BY <2>2, RaiseGates DEF RaiseLandGate, locals
  <2>3. CASE BeginMerge(c) \/ Merge(c) \/ UpdateRef(c) \/ BringAlong(c) \/ Record(c)
    <3>1. UNCHANGED <<gates, via>> /\ pc[c] \in InMerge
      BY <2>3 DEF BeginMerge, Merge, UpdateRef, BringAlong, Record, locals, InMerge
    <3>2. \E where \in InMerge \cup Ended : pc' = [pc EXCEPT ![c] = where]
      BY <2>3 DEF BeginMerge, Merge, UpdateRef, BringAlong, Record, Hold, End, Goto, InMerge, Ended
    <3> QED BY <3>1, <3>2, GatesKept DEF Running
  <2> QED BY <1>2, <2>1, <2>2, <2>3, SpendGates DEF GoOn
<1>3. ASSUME NEW c \in Call, Verdict(c) PROVE GatesAgree' /\ ApprovalOpensOne'
  <2>1. CASE Allowed(c) \/ Denied(c)
    BY <2>1, GatesKept DEF Allowed, Denied, Hold, End, Goto, locals, Running, Ended, InMerge
  <2>2. CASE Routed(c)
    BY <2>2, RaiseGates DEF Routed, locals
  <2> QED BY <1>3, <2>1, <2>2 DEF Verdict
<1>4. ASSUME NEW c \in Call, Deny(c) PROVE GatesAgree' /\ ApprovalOpensOne'
  BY <1>4 DEF Deny, TypeOK, GatesAgree, ApprovalOpensOne, locals
<1>5. ASSUME NEW g \in Call, NEW c \in Call, Approve(g, c) PROVE GatesAgree' /\ ApprovalOpensOne'
  BY <1>5 DEF Approve, Start, Hold, Goto, TypeOK, GatesAgree, ApprovalOpensOne, InMerge, Ended
<1>6. CASE Others
  <2>1. UNCHANGED <<gates, via>>
    BY <1>6 DEF Others, Attach, WorkerEnds, Close, MarkLanded, Crash, CommitOnBranch,
                CommitOnTarget, EditOnBranch, MergeTargetIn, EditCheckout, TidyCheckout, locals
  <2>2. \/ UNCHANGED pc
        \/ pc' = [c \in Call |-> IF pc[c] \in Running THEN "crashed" ELSE pc[c]]
    BY <1>6 DEF Others, Attach, WorkerEnds, Close, MarkLanded, Crash, CommitOnBranch,
                CommitOnTarget, EditOnBranch, MergeTargetIn, EditCheckout, TidyCheckout
  <2> QED BY <2>1, <2>2, GatesKept
<1>7. CASE UNCHANGED vars
  BY <1>7, GatesKept DEF vars, locals
<1> QED BY <1>1, <1>2, <1>3, <1>4, <1>5, <1>6, <1>7 DEF Next

-------------------------------------------------------------------------------
(* The diff on its way to the target *)

\* The branch only grows; the target only grows, but for the checkout that is
\* brought along by the call that holds the loop.
LEMMA BranchesGrow ==
  ASSUME TypeOK, DiffTravels, [Next]_vars
  PROVE  /\ branch \subseteq branch'
         /\ target \subseteq target' \/ \E c \in Call : BringAlong(c)
<1>1. ASSUME NEW c \in Call, UpdateRef(c) PROVE target \subseteq target'
  BY <1>1 DEF UpdateRef, TypeOK, DiffTravels
<1>2. CASE UNCHANGED vars
  BY <1>2 DEF vars, repo
<1>3. CASE \E c \in Call : Press(c) \/ GoOn(c) \/ Verdict(c) \/ Deny(c)
  BY <1>1, <1>3 DEF GoOn, Verdict, Press, Refuse, RaiseLandGate, Unruled, Reuse, Ask, Spend,
     BeginMerge, Merge, UpdateRef, Record, BringAlong, Allowed, Denied, Routed, Deny, repo
<1>4. CASE \E g, c \in Call : Approve(g, c)
  BY <1>4 DEF Approve, repo
<1>5. CASE Others
  BY <1>5 DEF Others, Attach, WorkerEnds, Close, MarkLanded, Crash, CommitOnBranch,
     CommitOnTarget, EditOnBranch, MergeTargetIn, EditCheckout, TidyCheckout, repo
<1> QED BY <1>2, <1>3, <1>4, <1>5 DEF Next

\* Nothing a call holds is disturbed while the branches grow and the calls go
\* nowhere, or only where nothing is asked of them.
LEMMA DiffKept ==
  ASSUME TypeOK, DiffTravels, UNCHANGED <<seen, before, sha>>,
         branch \subseteq branch', target \subseteq target',
         \A c \in Call : pc'[c] \in {pc[c], "starting", "refused", "blocked", "gated", "crashed"}
  PROVE  DiffTravels'
BY DEF TypeOK, DiffTravels

\* The call reads the diff, and merges or asks.
LEMMA ReadDiff ==
  ASSUME TypeOK, LoopIsHeld, DiffTravels, NEW c \in Call,
         Unruled(c) \/ Reuse(c) \/ Ask(c) \/ \E g \in Call : Spend(c, g)
  PROVE  DiffTravels'
<1>1. /\ pc[c] = "starting" /\ seen' = [seen EXCEPT ![c] = Diff]
      /\ UNCHANGED <<repo, before, sha>>
  BY DEF Unruled, Reuse, Ask, Spend, Read, PastGate
<1>2. \E where \in {"merging", "asking", "gated", "refused"} : pc' = [pc EXCEPT ![c] = where]
  BY DEF Unruled, Reuse, Ask, Spend, Hold, End, Goto
<1>3. \A d \in Call : pc[d] # "moved"
  BY <1>1 DEF LoopIsHeld, Running, InMerge
<1> QED BY <1>1, <1>2, <1>3 DEF TypeOK, DiffTravels, Diff, repo

LEMMA MergeDiff ==
  ASSUME TypeOK, LoopIsHeld, DiffTravels, NEW c \in Call,
         Allowed(c) \/ BeginMerge(c) \/ Merge(c) \/ UpdateRef(c) \/ BringAlong(c) \/ Record(c)
  PROVE  DiffTravels'
<1>1. \A d \in Call \ {c} : pc[d] \notin InMerge
  <2>1. loop \in {c, NoCall}
    BY DEF Allowed, BeginMerge, Merge, UpdateRef, BringAlong, Record
  <2> QED BY <2>1, LandingAssumption DEF LoopIsHeld, Running, InMerge
<1>2. CASE Allowed(c)
  BY <1>1, <1>2 DEF TypeOK, DiffTravels, InMerge, Allowed, Hold, Goto, repo, locals
<1>3. CASE BeginMerge(c)
  BY <1>1, <1>3 DEF TypeOK, DiffTravels, InMerge, BeginMerge, Hold, End, Goto, repo
<1>4. CASE Merge(c)
  BY <1>1, <1>4 DEF TypeOK, DiffTravels, InMerge, Merge, Hold, End, Goto, repo
<1>5. CASE UpdateRef(c)
  BY <1>1, <1>5 DEF TypeOK, DiffTravels, InMerge, UpdateRef, Hold, End, Goto, locals
<1>6. CASE BringAlong(c)
  BY <1>1, <1>6 DEF TypeOK, DiffTravels, InMerge, BringAlong, Hold, Goto, locals
<1>7. CASE Record(c)
  BY <1>1, <1>7 DEF TypeOK, DiffTravels, InMerge, Record, End, Goto, locals
<1> QED BY <1>2, <1>3, <1>4, <1>5, <1>6, <1>7

LEMMA DiffStep == TypeOK /\ LoopIsHeld /\ DiffTravels /\ [Next]_vars => DiffTravels'
<1> SUFFICES ASSUME TypeOK, LoopIsHeld, DiffTravels, [Next]_vars PROVE DiffTravels'
  OBVIOUS
<1>1. ASSUME NEW c \in Call, Press(c) \/ \E g \in Call : Approve(g, c) PROVE DiffTravels'
  BY <1>1, DiffKept DEF Press, Approve, Start, Hold, Goto, repo, TypeOK
<1>2. ASSUME NEW c \in Call, Refuse(c) \/ RaiseLandGate(c) \/ Denied(c) \/ Routed(c) \/ Deny(c)
      PROVE  DiffTravels'
  BY <1>2, DiffKept DEF Refuse, RaiseLandGate, Denied, Routed, Deny, Raise, End, Goto,
     repo, locals, TypeOK
<1>3. CASE Others
  <2>1. UNCHANGED <<seen, before, sha>> /\ branch \subseteq branch' /\ target \subseteq target'
    BY <1>3 DEF Others, Attach, WorkerEnds, Close, MarkLanded, Crash, CommitOnBranch,
       CommitOnTarget, EditOnBranch, MergeTargetIn, EditCheckout, TidyCheckout, repo, locals
  <2>2. \A c \in Call : pc'[c] \in {pc[c], "crashed"}
    BY <1>3 DEF Others, Attach, WorkerEnds, Close, MarkLanded, Crash, CommitOnBranch,
       CommitOnTarget, EditOnBranch, MergeTargetIn, EditCheckout, TidyCheckout
  <2> QED BY <2>1, <2>2, DiffKept
<1>4. CASE UNCHANGED vars
  BY <1>4, DiffKept DEF vars, repo, locals
<1> QED BY <1>1, <1>2, <1>3, <1>4, ReadDiff, MergeDiff DEF Next, GoOn, Verdict

-------------------------------------------------------------------------------
(* What the human was shown *)

\* While a call merges on an approval nothing else holds the loop, no worker is
\* attached, and nobody commits on the branch.
LEMMA ShownInMerge ==
  ASSUME Inv, ShownIsKept, NEW c \in Call,
         BeginMerge(c) \/ Merge(c) \/ UpdateRef(c) \/ BringAlong(c) \/ Record(c)
  PROVE  ShownIsKept'
<1> USE DEF Inv, TypeOK, ShownIsKept, InMerge
<1>1. \A d \in Call \ {c} : pc[d] \notin InMerge
  <2>1. loop = c
    BY DEF BeginMerge, Merge, UpdateRef, BringAlong, Record
  <2> QED BY <2>1 DEF LoopIsHeld, Running
<1>2. CASE BeginMerge(c)
  BY <1>1, <1>2 DEF BeginMerge, Hold, End, Goto, Diff, stream, repo
<1>3. CASE Merge(c)
  BY <1>1, <1>3 DEF Merge, Hold, End, Goto, Diff, repo
<1>4. CASE UpdateRef(c)
  BY <1>1, <1>4 DEF UpdateRef, Hold, End, Goto, Diff, stream, locals
<1>5. CASE BringAlong(c)
  BY <1>1, <1>5 DEF BringAlong, Hold, Goto, locals
<1>6. CASE Record(c)
  BY <1>1, <1>6 DEF Record, End, Goto, locals
<1> QED BY <1>2, <1>3, <1>4, <1>5, <1>6

\* A call that reads the diff has spent nothing yet, and its own diff is not
\* one that was shown to the human.
LEMMA ShownInRead ==
  ASSUME Inv, ShownIsKept, NEW c \in Call,
         Unruled(c) \/ Reuse(c) \/ Ask(c) \/ \E g \in Call : Spend(c, g)
  PROVE  ShownIsKept'
<1>1. /\ loop = c /\ pc[c] = "starting" /\ ~live
      /\ seen' = [seen EXCEPT ![c] = Diff]
      /\ UNCHANGED <<live, branch, target, before, sha>>
  BY DEF Unruled, Reuse, Ask, Spend, Read, PastGate, Landable, stream, repo
<1>2. \A d \in Call : via[d] # c
  BY <1>1, LandingAssumption DEF Inv, TypeOK, GatesAgree
<1>3. via[c] = NoCall
  BY <1>1 DEF Inv, GatesAgree, InMerge, Ended
<1>4. \A d \in Call : pc[d] \notin InMerge
  BY <1>1 DEF Inv, LoopIsHeld, Running, InMerge
<1>5. \E where \in {"merging", "asking", "gated", "refused"} : pc' = [pc EXCEPT ![c] = where]
  BY DEF Unruled, Reuse, Ask, Spend, Hold, End, Goto
<1>6. CASE UNCHANGED via
  BY <1>1, <1>2, <1>3, <1>4, <1>5, <1>6 DEF Inv, TypeOK, ShownIsKept, Diff, InMerge
<1>7. ASSUME NEW g \in Call, Spend(c, g) PROVE ShownIsKept'
  <2>1. /\ seen[g] = Diff /\ g # c /\ via' = [via EXCEPT ![c] = g]
        /\ pc' = [pc EXCEPT ![c] = "merging"]
    BY <1>1, <1>7 DEF Spend, Reviews, Inv, GatesAgree, Hold, Goto
  <2>2. /\ seen'[c] = Diff /\ seen'[g] = Diff /\ Diff' = Diff
        /\ \A d \in Call \ {c} : seen'[d] = seen[d] /\ via'[d] = via[d] /\ pc'[d] = pc[d]
        /\ via'[c] = g /\ pc'[c] = "merging" /\ ~live'
    BY <1>1, <2>1 DEF Inv, TypeOK, Diff
  <2>3. \A d \in Call \ {c} : via[d] # NoCall => seen'[via[d]] = seen[via[d]]
    BY <1>1, <1>2 DEF Inv, TypeOK
  <2> QED BY <1>1, <1>4, <2>2, <2>3 DEF ShownIsKept, InMerge
<1> QED BY <1>6, <1>7 DEF Unruled, Reuse, Ask

LEMMA ShownStep ==
  ASSUME OutsideCommits = FALSE, Inv, ShownIsKept, [Next]_vars
  PROVE  ShownIsKept'
<1>1. ASSUME NEW c \in Call, Press(c) \/ \E g \in Call : Approve(g, c) PROVE ShownIsKept'
  BY <1>1 DEF Press, Approve, Start, Hold, Goto, Inv, TypeOK, GatesAgree, ShownIsKept, Diff,
     InMerge, Ended, stream, repo
<1>2. ASSUME NEW c \in Call,
             \/ Refuse(c) \/ RaiseLandGate(c) \/ Allowed(c) \/ Denied(c) \/ Routed(c)
             \/ Deny(c)
      PROVE  ShownIsKept'
  <2>1. UNCHANGED <<stream, repo, locals>>
    BY <1>2 DEF Refuse, RaiseLandGate, Allowed, Denied, Routed, Deny
  <2>2. \A d \in Call : via[d] # NoCall => pc'[d] = pc[d]
    <3>1. CASE Deny(c)
      BY <3>1 DEF Deny
    <3>2. CASE ~Deny(c)
      <4>1. pc[c] \in {"starting", "asking"}
        BY <1>2, <3>2 DEF Refuse, RaiseLandGate, Allowed, Denied, Routed
      <4>2. via[c] = NoCall
        BY <4>1 DEF Inv, GatesAgree, InMerge, Ended
      <4>3. \E where \in {"refused", "gated", "merging"} : pc' = [pc EXCEPT ![c] = where]
        BY <1>2, <3>2 DEF Refuse, RaiseLandGate, Allowed, Denied, Routed, Raise, Hold, End, Goto
      <4> QED BY <4>2, <4>3 DEF Inv, TypeOK
    <3> QED BY <3>1, <3>2
  <2> QED BY <2>1, <2>2 DEF ShownIsKept, Diff, stream, repo, locals
<1>3. CASE Others
  <2>1. UNCHANGED <<seen, via, before, sha>> /\ \A c \in Call : pc'[c] \in {pc[c], "crashed"}
    BY <1>3 DEF Others, Attach, WorkerEnds, Close, MarkLanded, Crash, CommitOnBranch,
       CommitOnTarget, EditOnBranch, MergeTargetIn, EditCheckout, TidyCheckout, locals
  <2>2. CASE \E c \in Call : via[c] # NoCall /\ pc[c] \in {"merging", "preparing", "merged"}
    <3>1. loop # NoCall /\ ~live
      BY <2>2, LandingAssumption DEF Inv, LoopIsHeld, ShownIsKept, Running, InMerge
    <3>2. UNCHANGED <<live, branch>> /\ target \subseteq target' /\ Diff' = Diff
      BY <1>3, <3>1, OutsideCommits = FALSE DEF Others, Attach, WorkerEnds, Close, MarkLanded,
         Crash, CommitOnBranch, CommitOnTarget, EditOnBranch, MergeTargetIn, EditCheckout,
         TidyCheckout, Diff, New, stream, repo
    <3> QED BY <2>1, <3>2 DEF ShownIsKept
  <2>3. CASE ~\E c \in Call : via[c] # NoCall /\ pc[c] \in {"merging", "preparing", "merged"}
    BY <2>1, <2>3 DEF ShownIsKept
  <2> QED BY <2>2, <2>3
<1>4. CASE UNCHANGED vars
  BY <1>4 DEF vars, stream, repo, locals, ShownIsKept, Diff
<1> QED BY <1>1, <1>2, <1>3, <1>4, ShownInRead, ShownInMerge DEF Next, GoOn, Verdict

-------------------------------------------------------------------------------
(* Theorems *)

LEMMA InvInit == Init => Inv
<1> SUFFICES ASSUME Init PROVE Inv
  OBVIOUS
<1>1. LoopIsHeld
  BY LandingAssumption DEF Init, LoopIsHeld, Running, InMerge
<1>2. GatesAgree /\ ApprovalOpensOne
  BY DEF Init, GatesAgree, ApprovalOpensOne
<1>3. DiffTravels
  BY DEF Init, DiffTravels
<1> QED BY <1>1, <1>2, <1>3, TypeInit DEF Inv

LEMMA InvStep == Inv /\ [Next]_vars => Inv'
BY TypeStep, LoopStep, GatesStep, DiffStep DEF Inv

LEMMA Invariant == Spec => []Inv
BY InvInit, InvStep, PTL DEF Spec

\* What land reported as landed is on the target and stays there.
THEOREM LandedStays == Spec => []LandedStaysOnTarget
<1>1. Inv => LandedStaysOnTarget
  BY DEF Inv, DiffTravels, LandedStaysOnTarget
<1> QED BY <1>1, Invariant, PTL

\* No two lands merge on the same answer.
THEOREM OneLandPerAnswer == Spec => []ApprovalOpensOne
<1>1. Inv => ApprovalOpensOne
  BY DEF Inv
<1> QED BY <1>1, Invariant, PTL

\* Updating the ref never takes a commit off the target.
THEOREM NoRewind == Spec => RefNeverRewinds
<1>1. Inv /\ [Next]_vars => [target \subseteq target' \/ \E c \in Call : pc[c] = "moved"]_vars
  BY BranchesGrow DEF Inv, BringAlong
<1> QED BY <1>1, Invariant, PTL DEF Spec, RefNeverRewinds

\* When only an attached worker commits on the branch, a land that goes through
\* on an approval merges the diff the human was shown.
THEOREM MergesWhatWasShown ==
  ASSUME OutsideCommits = FALSE
  PROVE  Spec => []ApprovedIsMerged
<1>1. Init => ShownIsKept
  BY DEF Init, ShownIsKept
<1>2. Inv /\ ShownIsKept /\ [Next]_vars => ShownIsKept'
  BY OutsideCommits = FALSE, ShownStep
<1>3. ShownIsKept => ApprovedIsMerged
  BY DEF ShownIsKept, ApprovedIsMerged
<1> QED BY <1>1, <1>2, <1>3, Invariant, PTL DEF Spec

-------------------------------------------------------------------------------
(* The page of a stream, which Landing's land is pressed on: for any streams, any number of reads
   on their way, of requests and of changes by others, and any way the daemon answers. *)

Place == Stream \cup {NoStream}
Verb == {"say", "worker", "reviewer", "stop", "close", "land"}
Answer == {"none", "ok", "failed", "child"}
Request == [no : Nat, verb : Verb, on : Place, force : BOOLEAN, from : Place, told : Place,
            mounted : BOOLEAN, answer : Answer]

Typed ==
  /\ acts \subseteq Request /\ made \in Nat /\ busy \in Nat
  /\ open \in Place /\ draft \in Place /\ choice \in Place /\ confirm \in Place
  /\ picker \in [role : {"none", "worker", "reviewer", "resolve"}, on : Place]
  /\ panel \in [waits : Nat, shows : Place]

\* What is open on the page was opened on the stream that is shown.
Composed == draft \in {NoStream, open} /\ (picker # NoPicker => picker.on = open)

\* Requests are told apart by when they were made.
Numbered ==
  /\ busy \in 0..made /\ panel.waits \in 0..made
  /\ \A a \in acts : a.no \in 1..made

\* While a line is on its way the composer holds it, or its page was left.
LineIsDraft == \A a \in acts : a.no = busy /\ a.verb = "say" => draft \in {NoStream, a.on}

\* The Land panel is there, and waits for a request on its own stream.
PanelIsOwn ==
  /\ panel.waits # 0 => Shown
  /\ \A a \in acts : a.no = panel.waits => a.on = open

PageInv == Typed /\ Composed /\ Numbered /\ LineIsDraft /\ PanelIsOwn /\ WrittenWhereMade /\ ResultIsOwn

-------------------------------------------------------------------------------
(* The steps that make requests and the steps that answer them *)

\* What a request is made of.
LEMMA NewRequest ==
  ASSUME NEW m \in Nat, NEW verb \in Verb, NEW force \in BOOLEAN, NEW on \in Place, NEW from \in Place,
         NEW told \in Place
  PROVE  [no |-> m + 1, verb |-> verb, on |-> on, force |-> force, from |-> from, told |-> told,
          mounted |-> TRUE, answer |-> "none"] \in Request
BY DEF Request, Answer

\* A request made on the page that is shown is one whose text, or choice, came from there.
LEMMA SendInv ==
  ASSUME PageInv, NEW verb \in Verb, NEW force \in BOOLEAN, NEW from \in Place, NEW told \in Place,
         Send(verb, force, from, told), Shown, told # NoStream \/ from = open,
         UNCHANGED <<open, page, draft, picker, confirm>>, choice' \in Place,
         \/ busy' = made + 1 /\ (verb = "say" => draft = open) /\ UNCHANGED panel
         \/ UNCHANGED busy /\ panel' = [waits |-> made + 1, shows |-> NoStream]
  PROVE  PageInv'
<1> DEFINE new == [no |-> made + 1, verb |-> verb, on |-> page.of, force |-> force, from |-> from,
                   told |-> told, mounted |-> TRUE, answer |-> "none"]
<1>1. /\ acts' = acts \cup {new} /\ made' = made + 1 /\ page.of = open
      /\ made \in Nat /\ open \in Place
  BY DEF Send, Shown, PageInv, Typed
<1>2. new \in Request /\ new.no = made + 1 /\ new.verb = verb /\ new.on = open /\ new.from = from
      /\ new.told = told
  BY <1>1, NewRequest
<1> HIDE DEF new
<1>3. Typed'
  <2>1. acts' \subseteq Request /\ made' \in Nat BY <1>1, <1>2 DEF PageInv, Typed
  <2>2. panel' \in [waits : Nat, shows : Place] BY <1>1 DEF PageInv, Typed, Place
  <2>3. busy' \in Nat BY <1>1 DEF PageInv, Typed
  <2> QED BY <2>1, <2>2, <2>3 DEF PageInv, Typed
<1>4. Composed' BY DEF PageInv, Composed
<1>5. Numbered' BY <1>1, <1>2 DEF PageInv, Numbered, Typed
<1>6. LineIsDraft'
  <2> SUFFICES ASSUME NEW a \in acts', a.no = busy', a.verb = "say"
               PROVE draft' \in {NoStream, a.on}
    BY DEF LineIsDraft
  <2>1. CASE a \in acts BY <2>1, <1>1 DEF PageInv, LineIsDraft, Numbered, Typed, Request
  <2>2. CASE a = new BY <2>2, <1>1, <1>2 DEF PageInv, Numbered
  <2> QED BY <2>1, <2>2, <1>1
<1>7. PanelIsOwn'
  <2>1. Shown' BY DEF Shown
  <2>2. ASSUME NEW a \in acts', a.no = panel'.waits PROVE a.on = open'
    <3>1. CASE a \in acts BY <2>2, <3>1, <1>1 DEF PageInv, PanelIsOwn, Numbered, Typed, Request
    <3>2. CASE a = new BY <3>2, <1>2
    <3> QED BY <3>1, <3>2, <1>1
  <2> QED BY <2>1, <2>2 DEF PanelIsOwn
<1>8. WrittenWhereMade' BY <1>1, <1>2 DEF PageInv, WrittenWhereMade
<1>9. ResultIsOwn' BY DEF PageInv, ResultIsOwn, Shown
<1> QED BY <1>3, <1>4, <1>5, <1>6, <1>7, <1>8, <1>9 DEF PageInv

\* What a request says does not change while it waits.
LEMMA KeptRequests ==
  ASSUME NEW a \in Request, NEW b,
         b = [a EXCEPT !.mounted = FALSE] \/ \E word \in Answer : b = [a EXCEPT !.answer = word]
  PROVE  b \in Request /\ b.no = a.no /\ b.verb = a.verb /\ b.on = a.on /\ b.from = a.from /\ b.told = a.told
BY DEF Request

\* The daemon answers with one of its words.
LEMMA HandleKeeps ==
  ASSUME PageInv, NEW a \in acts, Handle(a)
  PROVE  PageInv'
<1>1. \A outcome \in Outcome(a) : outcome[1] \in Answer
  <2>1. a.verb \in Verb BY DEF PageInv, Typed, Request
  <2>2. CASE a.verb \in {"say", "stop", "close"} BY <2>2 DEF Outcome, Answer
  <2>3. CASE a.verb = "reviewer" BY <2>3 DEF Outcome, Answer
  <2>4. CASE a.verb = "worker" BY <2>4 DEF Outcome, Answer
  <2>5. CASE a.verb = "land" BY <2>5 DEF Outcome, Answer
  <2> QED BY <2>1, <2>2, <2>3, <2>4, <2>5 DEF Verb
<1>2. PICK word \in Answer : acts' = (acts \ {a}) \cup {[a EXCEPT !.answer = word]}
  BY <1>1 DEF Handle
<1>3. acts \subseteq Request BY DEF PageInv, Typed
<1> DEFINE b == [a EXCEPT !.answer = word]
<1>4. /\ acts' = (acts \ {a}) \cup {b} /\ b \in Request
      /\ b.no = a.no /\ b.verb = a.verb /\ b.on = a.on /\ b.from = a.from /\ b.told = a.told
  BY <1>2, <1>3, KeptRequests
<1> HIDE DEF b
<1>5. UNCHANGED <<open, page, made, local, panel>> BY DEF Handle
<1> QED BY <1>4, <1>5
     DEF PageInv, Typed, Composed, Numbered, LineIsDraft, PanelIsOwn, WrittenWhereMade,
         ResultIsOwn, Shown, local

\* An answer clears what it is about, on the page or in the panel that waits for it.
LEMMA AnsweredKeeps ==
  ASSUME PageInv, NEW a \in acts, Answered(a)
  PROVE  PageInv'
<1>1. /\ acts' = acts \ {a} /\ a \in Request
      /\ UNCHANGED <<open, page, made, choice>>
      /\ draft' \in {draft, NoStream} /\ picker' \in {picker, NoPicker} /\ busy' \in {busy, 0}
      /\ confirm' \in {confirm, a.on, NoStream}
      /\ panel' = IF a.no = panel.waits THEN [waits |-> 0, shows |-> a.on] ELSE panel
  BY DEF Answered, local, PageInv, Typed
<1>2. Typed' BY <1>1 DEF PageInv, Typed, Place, NoPicker, Request
<1>3. Numbered' BY <1>1 DEF PageInv, Typed, Numbered
<1>4. \A b \in acts : b.no # 0 BY DEF PageInv, Numbered
<1>5. PanelIsOwn' BY <1>1, <1>4 DEF PageInv, Typed, PanelIsOwn, Shown
<1>6. a.no = panel.waits => Shown /\ a.on = open BY <1>4 DEF PageInv, PanelIsOwn
<1>7. ResultIsOwn' BY <1>1, <1>6 DEF PageInv, Typed, ResultIsOwn, Shown
<1>8. Composed' /\ WrittenWhereMade' BY <1>1 DEF PageInv, Composed, WrittenWhereMade
<1>9. LineIsDraft' BY <1>1, <1>4 DEF PageInv, LineIsDraft
<1> QED BY <1>2, <1>3, <1>5, <1>7, <1>8, <1>9 DEF PageInv

-------------------------------------------------------------------------------
(* The invariant *)

\* The page has nothing of a stream when the cockpit starts.
LEMMA InitInv == PageInit => PageInv
BY
DEF PageInit, PageInv, Typed, Composed, Numbered, LineIsDraft, PanelIsOwn, WrittenWhereMade,
    ResultIsOwn,
       Shown, NoPicker, NoResult, Place

\* Every step of the operator, the page, the daemon and the agents keeps the invariant.
LEMMA StepInv == PageInv /\ [PageNext]_pageVars => PageInv'
<1> SUFFICES ASSUME PageInv, [PageNext]_pageVars PROVE PageInv' OBVIOUS
<1> USE DEF daemon, local
<1>1. CASE UNCHANGED <<open, page, acts, made, local, panel>>
  BY <1>1
  DEF PageInv, Typed, Composed, Numbered, LineIsDraft, PanelIsOwn, WrittenWhereMade, ResultIsOwn,
      Shown
<1>2. ASSUME NEW s \in Stream, Change(s) PROVE PageInv' BY <1>1, <1>2 DEF Change
<1>3. ASSUME NEW s \in Stream, Select(s) PROVE PageInv'
  BY <1>3
  DEF Select, Reset, NoPicker, NoResult, Place, PageInv, Typed, Composed, Numbered, LineIsDraft,
              PanelIsOwn, WrittenWhereMade, ResultIsOwn, Shown
<1>4. ASSUME NEW a \in acts, Handle(a) \/ Answered(a) PROVE PageInv'
  BY <1>4, HandleKeeps, AnsweredKeeps
<1>5. ASSUME NEW i \in Slot, ReadPage(i) PROVE PageInv' BY <1>1, <1>5 DEF ReadPage
<1>6. ASSUME NEW i \in Slot, Loaded(i) PROVE PageInv'
  <2>1. UNCHANGED <<open, acts, made, local>> /\ panel' = PanelOf(page') BY <1>6 DEF Loaded
  <2>2. panel' = NoResult \/ (panel' = panel /\ Shown /\ Shown') BY <2>1 DEF PanelOf, Shown
  <2>3. Typed' BY <2>1, <2>2 DEF PageInv, Typed, NoResult, Place
  <2>4. Numbered' BY <2>1, <2>2 DEF PageInv, Typed, Numbered, NoResult
  <2>5. PanelIsOwn' BY <2>1, <2>2 DEF PageInv, PanelIsOwn, NoResult, Numbered
  <2>6. ResultIsOwn' BY <2>1, <2>2 DEF PageInv, ResultIsOwn, NoResult
  <2>7. Composed' /\ LineIsDraft' /\ WrittenWhereMade'
    BY <2>1 DEF PageInv, Composed, LineIsDraft, WrittenWhereMade
  <2> QED BY <2>3, <2>4, <2>5, <2>6, <2>7 DEF PageInv
<1>7. CASE FrameComes BY <1>1, <1>7 DEF FrameComes
<1>8. CASE Leave
  <2>1. /\ acts' = {[a EXCEPT !.mounted = FALSE] : a \in acts} /\ UNCHANGED made
        /\ open' = NoStream /\ draft' = NoStream /\ picker' = NoPicker /\ choice' = NoStream
        /\ confirm' = NoStream /\ busy' = 0 /\ panel' = NoResult
    BY <1>8 DEF Leave
  <2>2. acts \subseteq Request BY DEF PageInv, Typed
  <2>3. \A b \in acts' : /\ b \in Request
                         /\ \E a \in acts : b.no = a.no /\ b.on = a.on /\ b.from = a.from /\ b.told = a.told
    <3> TAKE b \in acts'
    <3>1. PICK a \in acts : b = [a EXCEPT !.mounted = FALSE] BY <2>1
    <3> QED BY <3>1, <2>2, KeptRequests
  <2>4. \A b \in acts' : b.no \in 1..made BY <2>3 DEF PageInv, Numbered
  <2>5. Typed' BY <2>1, <2>3 DEF PageInv, Typed, NoPicker, NoResult, Place
  <2>6. Numbered' BY <2>1, <2>4 DEF PageInv, Typed, Numbered, NoResult
  <2>7. WrittenWhereMade' BY <2>3 DEF PageInv, WrittenWhereMade
  <2>8. PanelIsOwn' /\ LineIsDraft' /\ ResultIsOwn' /\ Composed'
    BY <2>1, <2>4 DEF PanelIsOwn, LineIsDraft, ResultIsOwn, Composed, NoResult
  <2> QED BY <2>5, <2>6, <2>7, <2>8 DEF PageInv
<1>9. CASE Type
  BY <1>9 DEF Type, Idle, Shown, PageInv, Typed, Composed, Numbered, LineIsDraft, PanelIsOwn,
              WrittenWhereMade, ResultIsOwn
<1>10. CASE Say
  BY <1>10, SendInv DEF Say, Act, Idle, PageInv, Typed, Composed, Place, Verb
<1>11. CASE StartSession
  <2>1. picker.on \in Place /\ picker.on = open BY <1>11 DEF StartSession, PageInv, Composed, Typed
  <2>2. /\ Shown /\ choice' = picker.on /\ busy' = made + 1
        /\ \E verb \in {"reviewer", "worker"}, force \in BOOLEAN : Send(verb, force, picker.on, NoStream)
        /\ UNCHANGED <<open, page, draft, picker, confirm, panel>>
    BY <1>11 DEF StartSession, Act, Idle
  <2> QED BY <2>1, <2>2, SendInv DEF Place, Verb
<1>12. CASE AttachAnyway
  <2>1. /\ Shown /\ confirm # NoStream /\ busy' = made + 1 /\ Send("worker", TRUE, choice, confirm)
        /\ UNCHANGED <<open, page, draft, picker, choice, confirm, panel>>
    BY <1>12 DEF AttachAnyway, Act, Idle
  <2>2. choice \in Place /\ confirm \in Place /\ "worker" \in Verb BY DEF PageInv, Typed, Verb
  <2> QED BY <2>1, <2>2, SendInv
<1>13. CASE Land
  <2>1. open \in Place BY DEF PageInv, Typed
  <2> QED BY <1>13, <2>1, SendInv DEF Land, Place, PageInv, Typed, Verb
<1>14. ASSUME NEW verb \in {"stop", "close"}, StopOrClose(verb) PROVE PageInv'
  <2>1. /\ Shown /\ busy' = made + 1 /\ Send(verb, FALSE, open, NoStream)
        /\ UNCHANGED <<open, page, draft, picker, choice, confirm, panel>>
    BY <1>14 DEF StopOrClose, Act, Idle
  <2>2. open \in Place /\ choice \in Place /\ NoStream \in Place /\ verb \in Verb /\ verb # "say"
    BY DEF PageInv, Typed, Verb, Place
  <2> QED BY <2>1, <2>2, SendInv
<1>15. ASSUME NEW role \in {"worker", "reviewer", "resolve"}, OpenPicker(role) PROVE PageInv'
  BY <1>15
  DEF OpenPicker, PageInv, Typed, Composed, Numbered, LineIsDraft, PanelIsOwn, WrittenWhereMade,
               ResultIsOwn, Shown
<1>16. CASE CancelPicker
  BY <1>16
  DEF CancelPicker, NoPicker, Place, PageInv, Typed, Composed, Numbered, LineIsDraft, PanelIsOwn,
               WrittenWhereMade, ResultIsOwn, Shown
<1>17. CASE KeepRefused
  BY <1>17 DEF KeepRefused, Place, PageInv, Typed, Composed, Numbered, LineIsDraft, PanelIsOwn,
               WrittenWhereMade, ResultIsOwn, Shown
<1>18. CASE UNCHANGED pageVars BY <1>1, <1>18 DEF pageVars
<1> QED BY <1>2, <1>3, <1>4, <1>5, <1>6, <1>7, <1>8, <1>9, <1>10, <1>11, <1>12, <1>13, <1>14, <1>15,
           <1>16, <1>17, <1>18 DEF PageNext

-------------------------------------------------------------------------------
(* The results *)

\* A line is said on the stream it was typed on, and a session is started on the stream its
\* picker was opened on, whichever streams the operator opens meanwhile.
THEOREM WrittenWhereMadeAlways == PageSpec => []WrittenWhereMade
<1>1. PageInv => WrittenWhereMade BY DEF PageInv
<1> QED BY InitInv, StepInv, <1>1, PTL DEF PageSpec

\* The Land panel never shows another stream's result, however late the answer.
THEOREM ResultIsOwnAlways == PageSpec => []ResultIsOwn
<1>1. PageInv => ResultIsOwn BY DEF PageInv
<1> QED BY InitInv, StepInv, <1>1, PTL DEF PageSpec

\* No answer takes what was typed but that to saying it.
THEOREM DraftIsKeptAlways == PageSpec => DraftIsKept
<1>1. PageInv /\ [PageNext]_pageVars =>
        [draft # NoStream /\ draft' = NoStream =>
           open' # open \/ \E a \in acts \ acts' : a.verb = "say" /\ a.on = draft]_pageVars
  <2> SUFFICES ASSUME PageInv, PageNext, draft # NoStream, draft' = NoStream, open' = open
               PROVE  \E a \in acts \ acts' : a.verb = "say" /\ a.on = draft
    BY DEF pageVars
  <2> USE DEF local, Act
  <2>1. PICK a \in acts : Answered(a) /\ a.no = busy /\ a.verb = "say"
    <3>1. \A s \in Stream : ~Select(s) BY DEF Select
    <3>2. ~Leave BY DEF Leave
    <3>3. ~Type BY DEF Type
    <3>4. ASSUME NEW a \in acts, Answered(a) PROVE a.no = busy /\ a.verb = "say"
      BY <3>4 DEF Answered
    <3>5. \A s \in Stream : ~Change(s) BY DEF Change
    <3>6. \A a \in acts : ~Handle(a) BY DEF Handle
    <3>7. \A i \in Slot : ~ReadPage(i) /\ ~Loaded(i) BY DEF ReadPage, Loaded
    <3>8. ~FrameComes /\ ~Say /\ ~StartSession /\ ~CancelPicker
      BY DEF FrameComes, Say, StartSession, CancelPicker
    <3>10. ~AttachAnyway /\ ~KeepRefused /\ ~Land BY DEF AttachAnyway, KeepRefused, Land
    <3>9. /\ \A verb \in {"stop", "close"} : ~StopOrClose(verb)
          /\ \A role \in {"worker", "reviewer", "resolve"} : ~OpenPicker(role)
      BY DEF StopOrClose, OpenPicker
    <3> QED BY <3>1, <3>2, <3>3, <3>4, <3>5, <3>6, <3>7, <3>8, <3>9, <3>10 DEF PageNext
  <2>2. a \notin acts' BY <2>1 DEF Answered
  <2>3. a.on = draft BY <2>1 DEF PageInv, LineIsDraft
  <2> QED BY <2>1, <2>2, <2>3
<1> QED BY InitInv, StepInv, <1>1, PTL DEF PageSpec, DraftIsKept
===============================================================================
