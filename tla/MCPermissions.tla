----------------------------- MODULE MCPermissions -----------------------------
(* Permissions with a worker and a reviewer on one worktree, and a command per tier. *)
EXTENDS Permissions, TLC

Command(words) == [unsafe |-> FALSE, segments |-> <<[words |-> words, pipe |-> FALSE, script |-> <<>>]>>]
Bash(words) == [tool |-> "Bash", edits |-> FALSE, command |-> {Command(words)}, path |-> {}, big |-> FALSE]
NoWords == <<>>

MCPayload == {Bash(<<"npm", "test">>), Bash(<<"git", "push", "--force", "origin", "main">>), Bash(<<"git", "status">>)}
MCRequest == {[kind |-> "execute", command |-> {Command(<<"git", "status">>)}, path |-> {}, locations |-> {},
               registry |-> FALSE, title |-> [says |-> "prose", command |-> {}, path |-> {}],
               options |-> {"allow_once", "reject_once"}]}
MCWorld == {[head |-> "work", upstream |-> NoWord, protected |-> {"main"}]}

MCRules == <<[id |-> "protected", pattern |-> "no_push_protected", words |-> {}, critical |-> TRUE],
             [id |-> "critical", pattern |-> "none", words |-> {}, critical |-> TRUE],
             [id |-> "advisory", pattern |-> "none", words |-> {}, critical |-> FALSE]>>
===============================================================================
