--------------------------------- MODULE MCAcp ---------------------------------
EXTENDS Acp

\* claude, cursor and grok (providers.ts): a mode, both, a login only.
MCProvider == {[mode |-> TRUE, auth |-> FALSE], [mode |-> TRUE, auth |-> TRUE],
               [mode |-> FALSE, auth |-> TRUE]}

\* A line takes two short chunks; a long one with a short one is cut.
MCLength == [chunk |-> 1, long |-> 2]
===============================================================================
