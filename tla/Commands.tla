-------------------------------- MODULE Commands --------------------------------
(***************************************************************************)
(* How the daemon reads a shell command before it judges it: the segments  *)
(* of a chain, the scripts of `sh -c`, prefixes that change nothing, git's *)
(* global options, and the few shapes of command that the tables name.     *)
(*                                                                         *)
(* A word of a command is a string.  What the tables ask of its characters *)
(* (does it start with a dash, where does the path lead, which branch does *)
(* the refspec write) is a constant: a set of words, or a function of the  *)
(* words that have the attribute.  Quotes are gone and a script is a       *)
(* sequence of segments; a script inside a script is left out.             *)
(***************************************************************************)
EXTENDS Naturals, Sequences, SequencesExt

CONSTANTS
  Dashed,      \* words that start with "-"
  Outside,     \* path words that resolve outside the worktree
  Dynamic,     \* words with a `$` or a backtick
  OtherHome,   \* `~user` words
  Fused,       \* flag words with their value in them: the flag and the value
  Redirect,    \* redirection words: the target fused to the operator, or NoWord
  Benign,      \* targets that are no file: /dev/null, &1, &-
  Substitution, \* words that open a process substitution
  Branch,      \* refspec words that are not a branch: the branch they write
  Plus,        \* refspec words that start with "+"
  LastName,    \* branch words with a "/": their last segment
  Assignment,  \* VAR=value words
  Alias,       \* -c values that define an alias
  LocalBin,    \* executables of the worktree's node_modules/.bin
  NoWord       \* no word

ASSUME CommandsAssumption ==
  /\ DOMAIN Fused \subseteq Dashed
  /\ \A f \in DOMAIN Fused : DOMAIN Fused[f] = {"flag", "value"}
  /\ Benign \cap Outside = {}
  /\ NoWord \notin Dashed \cup Outside \cup Dynamic \cup OtherHome

Word(tokens, i) == IF i \in DOMAIN tokens THEN tokens[i] ELSE NoWord
Words(tokens) == {tokens[i] : i \in DOMAIN tokens}
From(tokens, i) == SubSeq(tokens, i, Len(tokens))
Bare(tokens) == SelectSeq(tokens, LAMBDA t : t \notin Dashed)
BareTail(tokens) == LET bare == Bare(tokens) IN IF bare = <<>> THEN <<>> ELSE Tail(bare)
\* What each position of the command contributes, in order.
Gather(tokens, Of(_)) == FlattenSeq([i \in 1..Len(tokens) |-> Of(i)])

-------------------------------------------------------------------------------
(* Atoms *)

Wrapper == {"command", "exec", "nohup", "time", "env", "xargs"}
Shell == {"sh", "bash", "zsh"}

\* The command without its leading assignments and wrappers.
StripPrefixes(tokens) ==
  LET ends == {i \in 1..Len(tokens) + 1 :
                 \A j \in 1..i - 1 : tokens[j] \in Wrapper \cup Assignment}
  IN  From(tokens, CHOOSE i \in ends : \A j \in ends : j <= i)

Atom(tokens, piped, before) == [tokens |-> tokens, piped |-> piped,
                                prev |-> IF piped /\ before # <<>> THEN Last(before).tokens ELSE <<>>]

AddAtom(atoms, segment) ==
  Append(atoms, Atom(StripPrefixes(segment.words), segment.pipe, atoms))

AtomsOfScript(script) == FoldLeft(AddAtom, <<>>, script)

IsShellDashC(segment) ==
  LET tokens == StripPrefixes(segment.words) IN
  /\ Word(tokens, 1) \in Shell /\ Word(tokens, 2) = "-c" /\ segment.script # <<>>

\* The first atom of a script takes the pipe in front of its shell.
AddSegment(atoms, segment) ==
  IF IsShellDashC(segment)
  THEN LET nested == AtomsOfScript(segment.script) IN
       Append(atoms, Atom(nested[1].tokens, segment.pipe, atoms)) \o Tail(nested)
  ELSE AddAtom(atoms, segment)

Atoms(command) == FoldLeft(AddSegment, <<>>, command.segments)

IsPipedIntoBareShell(atom) ==
  atom.piped /\ Word(atom.tokens, 1) \in Shell /\ Word(atom.prev, 1) \in {"curl", "wget"}

-------------------------------------------------------------------------------
(* git *)

GlobalWithValue == {"-C", "-c", "--git-dir", "--work-tree", "--namespace"}

FlagOf(t) == IF t \in DOMAIN Fused THEN Fused[t].flag ELSE t
OptionEnd(tokens, i) == IF FlagOf(tokens[i]) \in GlobalWithValue /\ tokens[i] \notin DOMAIN Fused
                        THEN i + 2 ELSE i + 1

\* Where the subcommand is: options, and their values, are skipped.
Subcommand(tokens) ==
  LET at[i \in 1..Len(tokens) + 2] ==
        IF i > Len(tokens) THEN 0
        ELSE IF tokens[i] \notin Dashed THEN i ELSE at[OptionEnd(tokens, i)]
  IN  IF Word(tokens, 1) = "git" THEN at[2] ELSE 0

GitArgs(tokens) == IF Subcommand(tokens) = 0 THEN <<>> ELSE From(tokens, Subcommand(tokens))

\* The values of one global option in front of the subcommand.
GlobalValues(tokens, flag) ==
  LET end == IF Subcommand(tokens) = 0 THEN Len(tokens) + 1 ELSE Subcommand(tokens)
      skipped[i \in 1..Len(tokens) + 2] ==
        IF i >= end THEN {} ELSE {i} \cup skipped[OptionEnd(tokens, i)]
      options == IF Word(tokens, 1) = "git" THEN skipped[2] ELSE {}
  IN  {IF tokens[i] \in DOMAIN Fused THEN Fused[tokens[i]].value ELSE Word(tokens, i + 1) :
         i \in {j \in options : FlagOf(tokens[j]) = flag}} \ {NoWord}

IsForcePush(args) ==
  /\ Word(args, 1) = "push"
  /\ \/ \E a \in Words(args) : FlagOf(a) \in {"--force", "-f", "--force-with-lease"}
     \/ Words(Tail(args)) \cap Plus # {}

IsBranchDelete(args) ==
  Word(args, 1) \in {"branch", "push"} /\ Words(args) \cap {"-D", "-d", "--delete"} # {}

IsResetHard(args) == Word(args, 1) = "reset" /\ "--hard" \in Words(args)

\* Every refspec of a push; the first bare word is the remote.
PushRefspecs(args) == Words(BareTail(Tail(args)))

DestBranch(refspec) == IF refspec \in DOMAIN Branch THEN Branch[refspec] ELSE refspec
DestNames(branch) == {branch} \cup (IF branch \in DOMAIN LastName THEN {LastName[branch]} ELSE {})

-------------------------------------------------------------------------------
(* The shapes the tables name *)

Runner == {"bun", "npm", "pnpm"}
OtherManager == {"yarn", "pip", "pip3", "cargo", "gem"}

IsNewDependency(tokens) ==
  LET sub == Word(tokens, 2) IN
  \/ Word(tokens, 1) \in OtherManager /\ sub \in {"add", "install"}
  \/ Word(tokens, 1) \in Runner /\ sub = "add"
  \/ Word(tokens, 1) \in Runner /\ sub \in {"install", "i"} /\ Bare(From(tokens, 3)) # <<>>

IsRepoScript(tokens) ==
  /\ Word(tokens, 1) \in Runner /\ Word(tokens, 2) \in {"run", "test", "build", "install", "i"}
  /\ ~IsNewDependency(tokens)

IsRmRf(tokens) == Word(tokens, 1) = "rm" /\ "-rf" \in Words(tokens)
IsChmod777(tokens) == Word(tokens, 1) = "chmod" /\ {"-R", "777"} \subseteq Words(tokens)

\* The targets of the redirections; NoWord for an operator with nothing after it.
Redirections(tokens) ==
  Gather(tokens, LAMBDA i :
    IF tokens[i] \notin DOMAIN Redirect THEN <<>>
    ELSE IF Redirect[tokens[i]] # NoWord THEN <<Redirect[tokens[i]]>>
    ELSE <<Word(tokens, i + 1)>>)
RedirectTargets(tokens) ==
  SelectSeq(Redirections(tokens), LAMBDA t : t \notin Benign \cup {NoWord})

\* What is written with no path to check, and what is written at all.
IsOpaqueWrite(tokens) ==
  "tee" \in Words(tokens) \/ Words(tokens) \cap Substitution # {} \/ NoWord \in Words(Redirections(tokens))
IsWrite(tokens) == IsOpaqueWrite(tokens) \/ RedirectTargets(tokens) # <<>>

IsFindWrite(tokens) ==
  Words(tokens) \cap {"-delete", "-exec", "-execdir", "-ok", "-okdir", "-fprint", "-fprintf", "-fls"} # {}

\* What is in front of the first primitive, or find's default.
FindRoots(tokens) ==
  LET stops == {i \in 2..Len(tokens) : tokens[i] \in Dashed \cup {"(", ")", "!"}} \cup {Len(tokens) + 1}
      stop == CHOOSE i \in stops : \A j \in stops : i <= j
  IN  IF stop <= 2 THEN <<".">> ELSE SubSeq(tokens, 2, stop - 1)

PathFlags(head) == CASE head \in {"cp", "mv"} -> {"-t", "--target-directory"}
                     [] head = "sort" -> {"-o", "--output"}
                     [] head \in {"grep", "rg"} -> {"-f", "--file"}
                     [] OTHER -> {}

\* Paths named by a flag: fused to it (a known flag, or a value that looks like a path),
\* or the next word.
FlagPaths(tokens) ==
  LET known == PathFlags(Word(tokens, 1)) IN
  Gather(tokens, LAMBDA i :
    IF tokens[i] \in DOMAIN Fused
    THEN IF \/ Fused[tokens[i]].flag \in known
            \/ Fused[tokens[i]].value \in Outside \cup Dynamic \cup OtherHome
         THEN <<Fused[tokens[i]].value>> ELSE <<>>
    ELSE IF tokens[i] \in known /\ i < Len(tokens) THEN <<tokens[i + 1]>> ELSE <<>>)

\* `npx`, `bunx` and their spellings: what is run, and where it may come from.
DlxRest(tokens) ==
  CASE Word(tokens, 1) \in {"bunx", "npx"} -> From(tokens, 2)
    [] <<Word(tokens, 1), Word(tokens, 2)>> \in
         {<<"bun", "x">>, <<"npm", "exec">>, <<"pnpm", "dlx">>, <<"yarn", "dlx">>} -> From(tokens, 3)
    [] OTHER -> <<>>

IsDlx(tokens) == Bare(DlxRest(tokens)) # <<>>
IsLocalDlx(tokens) ==
  /\ <<Word(tokens, 1), Word(tokens, 2)>> \notin {<<"pnpm", "dlx">>, <<"yarn", "dlx">>}
  /\ \A t \in Words(DlxRest(tokens)) :
       FlagOf(t) \notin {"-p", "--package", "-y", "--yes", "-g", "--global"}
  /\ Bare(DlxRest(tokens))[1] \in LocalBin

ScriptPath(tokens) ==
  LET sub == Word(tokens, 2) IN
  IF /\ Word(tokens, 1) \in {"node", "bun"} /\ sub \notin Dashed \cup {NoWord}
     /\ ~(Word(tokens, 1) = "bun" /\ sub \in {"run", "test", "build", "install", "i", "add", "x"})
  THEN <<sub>> ELSE <<>>
===============================================================================
