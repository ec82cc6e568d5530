--------------------------------- MODULE Policy ---------------------------------
(***************************************************************************)
(* What a tool call may do, decided without side effects: the list nobody  *)
(* may override, the table of each role, the pattern rules in scope, and   *)
(* the two tiers that put them together: the answer to an agent's          *)
(* `session/request_permission` and the PreToolUse hook.                   *)
(*                                                                         *)
(* An optional value is a set with at most one member.  A rule is a record *)
(* with its `pattern` and the words the pattern names; the rules in scope  *)
(* are the list of the repo's rules restricted to some of its places.      *)
(***************************************************************************)
EXTENDS Commands, FiniteSets

CONSTANTS
  StateFile, Manifest,  \* path words under .agile/, and of manifests and lockfiles
  None                  \* no rule, no option

Verdict == {"allow", "deny", "hil"}

-------------------------------------------------------------------------------
(* Reading a request *)

ToolClass == {"read", "edit", "execute", "fetch", "other"}

\* rawInput, else the locations, else what the title says.
Classify(request) ==
  LET class == IF request.kind \in ToolClass THEN request.kind ELSE "other"
      raw == request.command # {} \/ request.path # {}
      titled == ~raw /\ request.locations = {}
  IN  [class |-> IF titled /\ class = "other" /\ request.title.says = "read" THEN "read" ELSE class,
       command |-> IF titled THEN request.title.command ELSE request.command,
       paths |-> CASE raw -> request.path [] titled -> request.title.path
                   [] OTHER -> request.locations,
       verb |-> request.title.says = "verb", registry |-> request.registry]

-------------------------------------------------------------------------------
(* The never-without-human list *)

NeverAtom(atom) ==
  LET args == GitArgs(atom.tokens) IN
  \/ IsForcePush(args) \/ IsBranchDelete(args) \/ IsResetHard(args)
  \/ IsNewDependency(atom.tokens)
  \/ IsRmRf(atom.tokens) /\ Words(Bare(Tail(atom.tokens))) \cap Outside # {}
  \/ IsPipedIntoBareShell(atom)
  \/ Word(atom.tokens, 1) = "sudo"
  \/ IsChmod777(atom.tokens)

NeverWithoutHuman(call) ==
  \/ call.class = "edit" /\ call.paths \cap (StateFile \cup Manifest) # {}
  \/ /\ call.class = "execute"
     /\ \E c \in call.command : c.unsafe \/ \E atom \in Range(Atoms(c)) : NeverAtom(atom)

-------------------------------------------------------------------------------
(* The role tables *)

NoPathTools == {"echo", "printf", "pwd", "which", "date", "true", "false", "test", "[", "tr"}
PathTools == {"cat", "ls", "mkdir", "cp", "mv", "head", "tail", "wc", "sort", "uniq", "cut",
              "touch", "diff"}

\* The first path that cannot be resolved, or leads out of the worktree, decides.
VerifyPaths(paths) ==
  LET bad == SelectSeq(paths, LAMBDA p : p \in Outside \cup Dynamic \cup OtherHome) IN
  IF bad = <<>> THEN "allow" ELSE IF bad[1] \in Outside THEN "deny" ELSE "hil"

BenignVerdict(tokens) ==
  LET head == Word(tokens, 1) IN
  CASE tokens = <<>> \/ head \in NoPathTools -> "allow"
    [] IsDlx(tokens) -> IF IsLocalDlx(tokens) THEN "allow" ELSE "hil"
    [] head = "find" -> IF IsFindWrite(tokens) THEN "deny" ELSE VerifyPaths(FindRoots(tokens))
    [] head \in {"grep", "rg"} -> VerifyPaths(BareTail(Tail(tokens)) \o FlagPaths(tokens))
    [] ScriptPath(tokens) # <<>> -> VerifyPaths(ScriptPath(tokens))
    [] head \in PathTools -> VerifyPaths(Bare(Tail(tokens)) \o FlagPaths(tokens))
    [] OTHER -> "deny"

EngineerAtom(tokens) ==
  LET written == IF IsOpaqueWrite(tokens) THEN "deny" ELSE VerifyPaths(RedirectTargets(tokens)) IN
  IF written # "allow" THEN written
  ELSE IF IsRepoScript(tokens) \/ GitArgs(tokens) # <<>> THEN "allow" ELSE BenignVerdict(tokens)

IsSedInPlace(tokens) == \E t \in Words(tokens) : FlagOf(t) \in {"-i", "--in-place"}

ReviewerAtom(tokens) ==
  LET head == Word(tokens, 1)
      reads == \/ Word(GitArgs(tokens), 1) \in {"diff", "log", "show", "status"}
               \/ head \in {"grep", "rg", "cat", "ls", "wc", "head", "tail", "diff", "pwd", "which"}
               \/ head = "sed" /\ ~IsSedInPlace(tokens)
               \/ head = "find" /\ ~IsFindWrite(tokens)
  IN  IF reads /\ ~IsWrite(tokens) THEN "allow" ELSE "deny"

AtomVerdict(role, tokens) == IF role = "engineer" THEN EngineerAtom(tokens) ELSE ReviewerAtom(tokens)

\* Mutant: a repo script or a git command answers for the rest of the chain.
CommandVerdictReturns(role, command) ==
  AtomVerdict(role, Atoms(command)[1].tokens)

\* The first atom that is not allowed decides.
CommandVerdict(role, command) ==
  LET atoms == Atoms(command)
      refused == {i \in DOMAIN atoms : AtomVerdict(role, atoms[i].tokens) # "allow"} IN
  IF refused = {} THEN "allow"
  ELSE AtomVerdict(role, atoms[CHOOSE i \in refused : \A j \in refused : i <= j].tokens)

EditVerdict(role, paths) ==
  IF role = "engineer" /\ paths # {} /\ paths \cap Outside = {} THEN "allow" ELSE "deny"

RoleVerdict(role, call) ==
  CASE call.class = "read" -> "allow"
    [] call.class = "edit" -> EditVerdict(role, call.paths)
    [] call.class = "execute" /\ call.command # {} ->
         CommandVerdict(role, CHOOSE c \in call.command : TRUE)
    [] call.class = "fetch" /\ role = "engineer" /\ call.registry -> "allow"
    [] OTHER -> "deny"

\* Grok's client file system: its one gate.
MayWriteFile(role) == role # "reviewer"

-------------------------------------------------------------------------------
(* Pattern rules *)

Unreadable(tokens) ==
  \/ Word(tokens, 1) \in Dynamic
  \/ /\ Word(tokens, 1) = "git"
     /\ \/ Words(tokens) \cap Dynamic # {}
        \/ GitArgs(tokens) = <<>>
        \/ GlobalValues(tokens, "-c") \cap Alias # {}
        \/ Word(GitArgs(tokens), 1) \in {"send-pack", "http-push", "remote-ext"}

\* The names an upstream can mean: itself, and without the remote.
Upstream(branch) == DestNames(branch)

PushesProtected(args, world) ==
  LET refspecs == PushRefspecs(args) IN
  \/ Words(args) \cap {"--all", "--mirror"} # {}
  \/ /\ refspecs = {}
     /\ world.upstream = NoWord \/ Upstream(world.upstream) \cap world.protected # {}
  \/ \E refspec \in refspecs :
       IF DestBranch(refspec) \in {"HEAD", "@"}
       THEN world.head \in world.protected \cup {NoWord}
       ELSE DestNames(DestBranch(refspec)) \cap world.protected # {}

\* The branch a checkout names, if any.
Checkout(args) ==
  LET bare == {i \in 2..Len(args) : args[i] \notin Dashed \/ args[i] = "--"} IN
  IF bare = {} THEN NoWord
  ELSE LET word == args[CHOOSE i \in bare : \A j \in bare : i <= j] IN
       IF word = "--" THEN NoWord ELSE word

\* The chain is read with the branch its checkouts leave HEAD on.
ReadGit(state, atom, world) ==
  LET args == GitArgs(atom.tokens)
      sub == Word(args, 1)
  IN  IF state.denied \/ Unreadable(atom.tokens) THEN [state EXCEPT !.denied = TRUE]
      ELSE CASE sub = "push" -> [state EXCEPT !.denied = PushesProtected(args, world)]
             [] sub \in {"checkout", "switch"} ->
                  [state EXCEPT !.onto = IF Checkout(args) = NoWord THEN @ ELSE Checkout(args)]
             [] sub = "merge" -> [state EXCEPT !.denied = state.onto \in world.protected \cup {NoWord}]
             [] OTHER -> state

WritesProtectedBranch(command, world) ==
  command.unsafe \/ FoldLeft(LAMBDA state, atom : ReadGit(state, atom, world),
                             [onto |-> world.head, denied |-> FALSE], Atoms(command)).denied

Pushes(command) ==
  command.unsafe \/ \E atom \in Range(Atoms(command)) :
                      Unreadable(atom.tokens) \/ Word(GitArgs(atom.tokens), 1) = "push"

PathDenied(rule, call) ==
  \/ call.writes /\ call.paths \cap Outside # {}
  \/ call.paths \cap rule.words # {}
  \/ \E c \in call.command : \E atom \in Range(Atoms(c)) : GlobalValues(atom.tokens, "-C") \cap Outside # {}

\* A pattern's words in a row in one atom.
CommandDenied(rule, call) ==
  \E c \in call.command : \E atom \in Range(Atoms(c)), needle \in rule.words :
    \E i \in 1..Len(atom.tokens) : IsPrefix(needle, From(atom.tokens, i))

Denies(rule, call, world) ==
  CASE rule.pattern = "no_push_protected" -> \E c \in call.command : WritesProtectedBranch(c, world)
    [] rule.pattern = "no_push" -> \E c \in call.command : Pushes(c)
    [] rule.pattern = "path_deny" -> PathDenied(rule, call)
    [] rule.pattern = "command_deny" -> CommandDenied(rule, call)

\* Mutant: the last rule of the list decides.
LastRuleDecides(rules, call, world) ==
  LET last == {i \in DOMAIN rules : (\A j \in DOMAIN rules : j <= i) /\ Denies(rules[i], call, world)} IN
  [evaluated |-> {rules[i].id : i \in DOMAIN rules},
   violated |-> IF last # {} THEN rules[CHOOSE i \in last : TRUE].id ELSE None]

\* The rules in order, to the first that denies: those evaluated, and that one.
RulePass(rules, call, world) ==
  LET denying == {i \in DOMAIN rules : Denies(rules[i], call, world)} IN
  IF denying = {} THEN [evaluated |-> {rules[i].id : i \in DOMAIN rules}, violated |-> None]
  ELSE LET first == CHOOSE i \in denying : \A j \in denying : i <= j IN
       [evaluated |-> {rules[i].id : i \in {j \in DOMAIN rules : j <= first}},
        violated |-> rules[first].id]

-------------------------------------------------------------------------------
(* The two tiers *)

Decision(kind, option, pass) ==
  [kind |-> kind, option |-> option, evaluated |-> pass.evaluated, violated |-> pass.violated]
NoRules == [evaluated |-> {}, violated |-> None]

\* A kind the request offers as an option, or a human's answer in its place.
Offer(kind, option, request, pass) ==
  IF option \in request.options THEN Decision(kind, option, pass)
  ELSE Decision("hil", None, NoRules)

VerdictOn(role, call) ==
  IF NeverWithoutHuman(call) THEN "hil" ELSE IF call.verb THEN "allow" ELSE RoleVerdict(role, call)

PassOf(rules, call, world) ==
  RulePass(rules, [command |-> call.command, paths |-> call.paths, writes |-> call.class = "edit"],
           world)

\* What a verdict and a pass over the rules answer, among the options the agent offers.
Answer(verdict, pass, request) ==
  CASE verdict = "hil" -> Decision("hil", None, NoRules)
    [] verdict = "deny" -> Offer("deny", "reject_once", request, NoRules)
    [] verdict = "allow" /\ pass.violated # None -> Offer("deny", "reject_once", request, pass)
    [] verdict = "allow" /\ pass.violated = None ->
         IF "allow_once" \in request.options THEN Decision("allow", "allow_once", pass)
         ELSE Offer("deny", "reject_once", request, NoRules)

\* decidePermission: the answer to `session/request_permission`.
DecidePermission(role, request, rules, world) ==
  Answer(VerdictOn(role, Classify(request)), PassOf(rules, Classify(request), world), request)

EditTools == {"Edit", "Write", "MultiEdit", "NotebookEdit"}
PathBearing == EditTools \cup {"Read", "Grep", "Glob"}

ToolKind(payload) ==
  CASE payload.tool \in EditTools \/ payload.edits -> "edit"
    [] payload.tool = "Bash" /\ ~payload.edits -> "execute"
    [] OTHER -> "none"

\* The call as the policy reads it back from the tool's input.
AsRequest(payload) ==
  [kind |-> ToolKind(payload),
   command |-> IF ToolKind(payload) = "execute" THEN payload.command ELSE {},
   path |-> IF ToolKind(payload) = "edit" THEN payload.path ELSE {},
   locations |-> {}, registry |-> FALSE,
   title |-> [says |-> "prose", command |-> {}, path |-> {}],
   options |-> {"allow_once", "reject_once"}]

\* Mutant: a notebook is not written by its edit tool.
HookRulesReadOnly(payload, rules, world) ==
  RulePass(rules, [command |-> payload.command, paths |-> {}, writes |-> FALSE], world)

\* The hook's paths are those of the agent's own tools.
HookRules(payload, rules, world) ==
  RulePass(rules, [command |-> payload.command,
                   paths |-> IF payload.tool \in PathBearing THEN payload.path ELSE {},
                   writes |-> ToolKind(payload) = "edit"], world)

\* computeGateVerdict: the size of a raw read, the role's policy, the rules.
Gate(tooBig, byRole, pass) ==
  IF tooBig THEN Decision("deny", None, NoRules)
  ELSE CASE byRole = "hil" -> Decision("hil", None, NoRules)
         [] byRole = "deny" -> Decision("deny", None, IF pass.violated # None THEN pass ELSE NoRules)
         [] byRole = "allow" -> Decision(IF pass.violated # None THEN "deny" ELSE "allow", None, pass)

GateVerdict(role, payload, rules, world) ==
  Gate(payload.tool \in {"Read", "Grep"} /\ payload.big,
       IF ToolKind(payload) = "none" THEN "allow"
       ELSE DecidePermission(role, AsRequest(payload), <<>>, world).kind,
       HookRules(payload, rules, world))

\* The first rule of those at some places.
FirstOf(rules, places) == rules[CHOOSE i \in places : \A j \in places : i <= j].id

\* The classifier's bands over what it answered: "none" denies for a critical rule.
Classifier(rules, answer) ==
  LET denying == {i \in DOMAIN rules : \/ answer[rules[i].id] = "high"
                                       \/ answer[rules[i].id] = "none" /\ rules[i].critical}
      routing == {i \in DOMAIN rules : answer[rules[i].id] = "middle"}
  IN  CASE denying # {} -> [band |-> "deny", rule |-> FirstOf(rules, denying)]
        [] denying = {} /\ routing # {} -> [band |-> "route", rule |-> FirstOf(rules, routing)]
        [] OTHER -> [band |-> "allow", rule |-> None]
===============================================================================
