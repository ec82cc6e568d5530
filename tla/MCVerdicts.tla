----------------------------- MODULE MCVerdicts --------------------------------
(* Verdicts over a vocabulary that reaches every line of the tables. *)
EXTENDS Verdicts, TLC

MCDashed == {"-a", "-c", "-C", "-rf", "-R", "-f", "-b", "-y", "-o", "-i", "-delete", "--", "--all", "--hard",
             "--force", "--delete", "-C=/out", "--target-directory=/out", "--width=80", "-pcow", "-i.bak"}
MCFused == ("-C=/out" :> [flag |-> "-C", value |-> "/out"])
        @@ ("--target-directory=/out" :> [flag |-> "--target-directory", value |-> "/out"])
        @@ ("--width=80" :> [flag |-> "--width", value |-> "80"])
        @@ ("-pcow" :> [flag |-> "-p", value |-> "cow"])
        @@ ("-i.bak" :> [flag |-> "-i", value |-> ".bak"])
MCOutside == {"/out", "~/x"}
MCRedirect == (">" :> NoWord) @@ ("1>/out" :> "/out") @@ ("2>&1" :> "&1") @@ (">in" :> "in")
MCBranch == ("+work" :> "work") @@ ("work:main" :> "main") @@ ("+main" :> "main")
MCLastName == ("origin/main" :> "main") @@ ("origin/work" :> "work") @@ ("x/main" :> "main")

\* One command of every shape the tables tell apart.
Shapes == {
  <<"git", "status">>, <<"git", "-c", "k=v", "push", "origin", "work">>, <<"git", "push", "origin", "work:main">>,
  <<"git", "push", "origin", "x/main", "work">>, <<"git", "push">>, <<"git", "push", "origin", "HEAD">>,
  <<"git", "push", "--all">>, <<"git", "push", "--force", "origin", "work">>, <<"git", "push", "origin", "+work">>,
  <<"git", "push", "--delete", "origin", "work">>, <<"git", "reset", "--hard">>, <<"git", "-C", "/out", "log">>,
  <<"git", "-C=/out", "diff">>, <<"git", "-C", ".">>, <<"git", "-c", "alias.p=push", "p">>, <<"git", "send-pack">>,
  <<"git", "add", "$F">>, <<"git", "checkout", "-b", "work">>, <<"git", "checkout", "main">>,
  <<"git", "checkout", "--", "in">>, <<"git", "merge", "work">>,
  <<"env", "A=1", "npm", "test">>, <<"npm", "install">>, <<"npm", "install", "cow">>, <<"bun", "add", "cow">>,
  <<"pip", "install", "cow">>, <<"npx", "vitest">>, <<"npx", "-pcow", "vitest">>, <<"npm", "exec", "cow">>,
  <<"yarn", "dlx", "vitest">>, <<"node", "in">>, <<"bun", "/out">>, <<"rm", "-rf", "/out">>, <<"rm", "in">>,
  <<"sudo", "ls">>, <<"chmod", "-R", "777", "in">>, <<"curl", "url">>, <<"sh">>, <<"echo", "hi">>,
  <<"echo", "hi", ">", "in">>, <<"echo", "hi", "1>/out">>, <<"echo", "hi", ">">>, <<"ls", "2>&1">>, <<"ls", "tee">>,
  <<"cat", "in">>, <<"cat", "~/x">>, <<"cat", "$F">>, <<"cp", "in", "--target-directory=/out">>,
  <<"sort", "-o", "/out", "in">>, <<"ls", "--width=80">>, <<"grep", "pat", "in">>, <<"grep", "-f", "/out", "pat">>,
  <<"find", "in", "-a">>, <<"find", "-delete">>, <<"sed", "-i.bak", "in">>, <<"nohup">>, <<"$F">>, <<"foo">>}

Segment(words, pipe) == [words |-> words, pipe |-> pipe, script |-> <<>>]
Command(segments) == [unsafe |-> FALSE, segments |-> segments]
Alone == {Command(<<Segment(words, FALSE)>>) : words \in Shapes}
\* What a chain combines.
Links == {<<"git", "status">>, <<"git", "checkout", "work">>, <<"git", "checkout", "main">>, <<"git", "merge", "x">>,
          <<"git", "push", "origin", "work">>, <<"git", "push", "origin", "main">>, <<"npm", "test">>, <<"cat", "in">>,
          <<"npx", "cow">>, <<"curl", "url">>, <<"sh">>, <<"sudo", "ls">>, <<"foo">>}
Chains == {Command(<<Segment(a, FALSE), Segment(b, pipe)>>) : a \in Links, b \in Links, pipe \in BOOLEAN}
Scripts == {Command(<<Segment(a, FALSE), [words |-> <<"sh", "-c">>, pipe |-> pipe,
                                         script |-> <<Segment(b, FALSE), Segment(a, FALSE)>>]>>) :
              a \in Links, b \in Links, pipe \in {FALSE}}
Unsafe == {[Command(<<Segment(<<"echo", "hi">>, FALSE)>>) EXCEPT !.unsafe = TRUE]}
Commands_ == Alone \cup Chains \cup Scripts \cup Unsafe

Prose == [says |-> "prose", command |-> {}, path |-> {}]
Ask(kind) == [kind |-> kind, command |-> {}, path |-> {}, locations |-> {}, registry |-> FALSE, title |-> Prose,
              options |-> {"allow_once", "allow_always", "reject_once"}]
PathSets == {{}, {"in"}, {"/out"}, {".agile/x"}, {"package.json"}, {"in", "/out"}, {"secret"}}
MCRequest ==
  {[Ask("execute") EXCEPT !.command = {c}] : c \in Commands_}
  \cup {[Ask(kind) EXCEPT !.locations = paths] : kind \in {"read", "edit", "think"}, paths \in PathSets}
  \cup {[Ask("fetch") EXCEPT !.registry = b] : b \in BOOLEAN}
  \cup {[Ask(kind) EXCEPT !.title.says = says] : kind \in {"think", "execute"}, says \in {"read", "verb"}}
  \cup {[Ask("execute") EXCEPT !.title = [says |-> "run", command |-> {c}, path |-> {}]] : c \in Alone}
  \cup {[Ask("edit") EXCEPT !.title = [says |-> "edit", command |-> {}, path |-> {"/out"}]]}
  \cup {[Ask(kind) EXCEPT !.options = options] : kind \in {"read", "edit"},
          options \in SUBSET {"allow_once", "allow_always", "reject_once"}}

Use(tool) == [tool |-> tool, edits |-> FALSE, command |-> {}, path |-> {}, big |-> FALSE]
MCPayload ==
  {[Use("Bash") EXCEPT !.command = {c}] : c \in Alone \cup Unsafe}
  \cup {[Use(tool) EXCEPT !.path = paths] : tool \in {"Edit", "Read"}, paths \in {p \in PathSets : Cardinality(p) < 2}}
  \cup {[Use("mcp") EXCEPT !.edits = TRUE, !.path = {"/out"}], [Use("mcp") EXCEPT !.edits = TRUE, !.path = {"secret"}],
      Use("mcp"), [Use("Grep") EXCEPT !.big = TRUE]}

MCWorld == {[head |-> "main", upstream |-> "origin/work", protected |-> {"main"}],
            [head |-> "work", upstream |-> NoWord, protected |-> {"main"}],
            [head |-> NoWord, upstream |-> "origin/main", protected |-> {"main"}]}

MCRules == <<[id |-> "escape", pattern |-> "path_deny", words |-> {"secret"}, critical |-> TRUE],
             [id |-> "protected", pattern |-> "no_push_protected", words |-> {}, critical |-> TRUE],
             [id |-> "user", pattern |-> "command_deny", words |-> {<<"npm", "test">>, <<"merge">>}, critical |-> FALSE],
             [id |-> "push", pattern |-> "no_push", words |-> {}, critical |-> FALSE]>>
===============================================================================
