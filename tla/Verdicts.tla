-------------------------------- MODULE Verdicts --------------------------------
(***************************************************************************)
(* One call, judged once, under every role, set of accepted rules and      *)
(* state of the worktree: what the two tiers of Policy owe each other and  *)
(* what a chain of commands owes its parts.  Neither tier keeps state, so  *)
(* a behaviour is a sequence of unrelated judgements.                      *)
(***************************************************************************)
EXTENDS Policy

CONSTANTS
  Payload, Request,    \* hook calls and ACP requests
  World,               \* what git says of the worktree and the repo
  Rules,               \* the pattern rules of the repo, in order
  NoCall

\* What the readers hand over.  Only a shell's `-c` has a script, a title is read in one way,
\* and the agent's own tools do not say that they edit: a custom tool does.
ScriptLine == [words : Seq(STRING), pipe : BOOLEAN, script : {<<>>}]
Segments == {s \in [words : Seq(STRING), pipe : BOOLEAN, script : Seq(ScriptLine)] :
               s.script # <<>> => IsShellDashC(s)}
ShellCommand == [unsafe : BOOLEAN, segments : Seq(Segments)]
Title == [says : STRING, command : SUBSET ShellCommand, path : SUBSET STRING]
RequestShape ==
  [kind : STRING, command : SUBSET ShellCommand, path : SUBSET STRING, locations : SUBSET STRING,
   registry : BOOLEAN, title : Title, options : SUBSET STRING]
IsOptional(values) == \A a, b \in values : a = b

ASSUME VerdictsAssumption ==
  /\ DOMAIN Rules \subseteq Nat
  /\ \A i \in DOMAIN Rules :
       /\ Rules[i].id # None
       /\ Rules[i].pattern \in {"no_push_protected", "no_push", "path_deny", "command_deny"}
  /\ Request \subseteq RequestShape
  /\ \A r \in Request :
       /\ IsOptional(r.command)
       /\ IsOptional(r.title.command)
       /\ r.title.command # {} => r.title.says = "run" /\ r.title.path = {}
  /\ \A p \in Payload :
       p.tool \in PathBearing \cup {"Bash"} => ~p.edits /\ (p.tool # "Bash" => p.command = {})

VARIABLES
  role,      \* the role the agent is judged under
  accepted,  \* the rules in scope, in order
  call       \* the call judged last, and the verdict

verdictsVars == <<role, accepted, call>>

RuleId == {Rules[i].id : i \in DOMAIN Rules}

VerdictsInit ==
  /\ role \in {"engineer", "reviewer"}
  /\ accepted \in {Restrict(Rules, places) : places \in SUBSET DOMAIN Rules}
  /\ call = NoCall

Judged(at, what, world, decision) ==
  call' = [at |-> at, what |-> what, world |-> world, result |-> decision]

\* The answer to `session/request_permission`.
AtRequest(request, world) ==
  /\ call = NoCall
  /\ Judged("acp", request, world, DecidePermission(role, request, accepted, world))
  /\ UNCHANGED <<role, accepted>>

\* The PreToolUse hook, up to the route band.
AtHook(payload, world) ==
  /\ call = NoCall
  /\ Judged("hook", payload, world, GateVerdict(role, payload, accepted, world))
  /\ UNCHANGED <<role, accepted>>

VerdictsNext ==
  \E world \in World : \/ \E request \in Request : AtRequest(request, world)
                       \/ \E payload \in Payload : AtHook(payload, world)

VerdictsSpec == VerdictsInit /\ [][VerdictsNext]_verdictsVars

-------------------------------------------------------------------------------
(* Properties *)

Asked == call # NoCall /\ call.at = "acp"
Hooked == call # NoCall /\ call.at = "hook"

\* Types: an answer is one of the options the agent offered, or goes to a human; a rule
\* that denies was evaluated.
VerdictsTypeOK ==
  /\ role \in {"engineer", "reviewer"} /\ Range(accepted) \subseteq Range(Rules)
  /\ call # NoCall =>
       /\ call.result.kind \in Verdict /\ call.result.evaluated \subseteq RuleId
       /\ call.result.violated \in call.result.evaluated \cup {None}
  /\ Asked => call.result.option \in call.what.options \cup {None}

\* The commands of a chain, and of its scripts, each on its own.
Parts(command) ==
  LET alone(segment) == [command EXCEPT !.segments = <<[segment EXCEPT !.pipe = FALSE]>>] IN
  {alone(segment) : segment \in Range(command.segments)} \cup
  UNION {{alone([words |-> segment.script[i].words, pipe |-> FALSE, script |-> <<>>]) :
            i \in DOMAIN segment.script} : segment \in Range(command.segments)}

\* A merge is judged by the branch that the commands before it have checked out.
Merges(command) == \E atom \in Range(Atoms(command)) : Word(GitArgs(atom.tokens), 1) = "merge"

\* No part of an allowed command would be refused on its own: a chain, a pipe or a script
\* of `sh -c` never lets a command past the never-list, the role's table or the rules.
ChainIsNoLooser ==
  Asked /\ call.result.kind = "allow" =>
    \A command \in Classify(call.what).command : \A part \in Parts(command) :
      \/ Merges(part)
      \/ DecidePermission(role, [call.what EXCEPT !.command = {part}], accepted, call.world).kind = "allow"

\* The two tiers judge a call by the same policy and the same rules, and count the same
\* rules for it, so an agent whose vendor has no hook is held as tightly as one that has
\* (a role's denial names the rule that also denies only at the hook; of a custom tool that
\* reports an edit the hook's rules do not read the path).
TiersAgree ==
  Hooked /\ ToolKind(call.what) # "none" /\ call.what.tool \in PathBearing \cup {"Bash"} =>
    LET acp == DecidePermission(role, AsRequest(call.what), accepted, call.world) IN
    /\ call.result.kind = acp.kind
    /\ \/ call.result.evaluated = acp.evaluated
       \/ call.result.kind = "deny" /\ acp.evaluated = {}

\* Accepting a rule only ever takes something away: a call allowed under some rules is
\* allowed under fewer of them.
RulesOnlyRestrict ==
  Asked /\ call.result.kind = "allow" =>
    \A i \in DOMAIN accepted :
      DecidePermission(role, call.what, Restrict(accepted, DOMAIN accepted \ {i}), call.world).kind = "allow"
===============================================================================
