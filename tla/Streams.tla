-------------------------------- MODULE Streams --------------------------------
(***************************************************************************)
(* The home's streams: StreamService over the store, the `stream.*` RPC    *)
(* edge, the tree the CLI and the left rail draw, and the ways a thread is *)
(* read while others write to it.                                          *)
(*                                                                         *)
(* Grain.  A store mutation is one turn of the event loop; a paged read    *)
(* and `agile stream show` are several calls, with writes between them.    *)
(***************************************************************************)
EXTENDS Integers, Sequences, FiniteSets

CONSTANTS
  Stream,     \* stream ids
  NoStream,
  Line,       \* lines of a thread
  Limits,     \* the page sizes readers ask for
  Cap,        \* the 500 of `readThread(id, {limit: 500})`
  Shown,      \* the last lines a page or `stream show` carries
  MaxLines,   \* bound on the lines of a thread
  MaxWrites   \* bound on the writes to stream records

\* What the theorems assume of the constants.
StreamsAssumption ==
  /\ NoStream \notin Stream
  /\ Limits \subseteq Nat /\ Cap \in Nat \ {0} /\ Shown \in Nat \ {0}
  /\ MaxLines \in Nat /\ MaxWrites \in Nat

VARIABLES
  exists, parent, archived, \* the records
  thread,                   \* threads/<id>.jsonl
  at, from, got, more,      \* a client following `next` through a thread
  asking, asked, printed,   \* `agile stream show`: the total it was told, its lines
  writes

record == <<exists, parent, archived>>
reader == <<at, from, got, more>>
show == <<asking, asked, printed>>
vars == <<record, thread, reader, show, writes>>

Init ==
  /\ exists = {} /\ archived = {}
  /\ parent = [s \in Stream |-> NoStream]
  /\ thread = [s \in Stream |-> <<>>]
  /\ at = NoStream /\ from = 0 /\ got = <<>> /\ more = FALSE
  /\ asking = NoStream /\ asked = 0 /\ printed = <<>>
  /\ writes = 0

-------------------------------------------------------------------------------
(* The parent chain *)

\* The stored parent of a stream, none for a root and for an unknown id.
Lookup == [s \in Stream |-> IF s \in exists THEN parent[s] ELSE NoStream]

ClosedUp(up, S) == \A s \in S : up[s] \in Stream => up[s] \in S

\* p and everything the walk up from p meets.
Above(up, p) ==
  {q \in Stream : \A S \in SUBSET Stream : p \in S /\ ClosedUp(up, S) => q \in S}

\* The walk from a proposed parent comes to a root and never to id.
NoStreamCycle(id, p, up) ==
  p # NoStream => /\ id \notin Above(up, p)
                  /\ \E q \in Above(up, p) : up[q] = NoStream

-------------------------------------------------------------------------------
(* Writes.  The statuses of a record and its sessions are in Sessions. *)

May == writes < MaxWrites /\ writes' = writes + 1

\* Two mutations: a process killed between them leaves no first line.
FirstLines == {<<>>} \cup {<<l>> : l \in Line}

Create(s, p, first) ==
  /\ May
  /\ s \notin exists /\ p \in exists \cup {NoStream}
  /\ NoStreamCycle(s, p, Lookup)
  /\ exists' = exists \cup {s}
  /\ parent' = [parent EXCEPT ![s] = p]
  /\ thread' = [thread EXCEPT ![s] = first]
  /\ UNCHANGED <<archived, reader, show>>

\* A patch may name any id, with a record or not, and cannot clear a parent.
PatchParents == Stream

\* The chain as it would be: updateStream looks the patched record up as patched.
After(s, p) == [Lookup EXCEPT ![s] = p]

\* What is refused writes nothing of the patch.
Reparent(s, p) ==
  /\ May
  /\ s \in exists /\ p \in PatchParents
  /\ NoStreamCycle(s, p, After(s, p))
  /\ parent' = [parent EXCEPT ![s] = p]
  /\ UNCHANGED <<exists, archived, thread, reader, show>>

\* Any write to a record is checked against the parent it keeps.
Archive(s) ==
  /\ May
  /\ s \in exists /\ NoStreamCycle(s, parent[s], Lookup)
  /\ archived' = archived \cup {s}
  /\ UNCHANGED <<exists, parent, thread, reader, show>>

AppendThread(s, line) ==
  /\ s \in exists /\ Len(thread[s]) < MaxLines
  /\ thread' = [thread EXCEPT ![s] = Append(@, line)]
  /\ UNCHANGED <<record, reader, show, writes>>

-------------------------------------------------------------------------------
(* Reading a thread *)

Least(m, n) == IF m < n THEN m ELSE n
Most(m, n) == IF m < n THEN n ELSE m

\* readThread: the entries from a 0-based index on, at least one asked for.
Page(t, start, limit) == SubSeq(t, start + 1, Least(start + Most(1, limit), Len(t)))

\* `next`: the index of the page's last entry, unless the thread ends there.
HasNext(t, start, limit) ==
  LET last == start + Len(Page(t, start, limit)) - 1 IN last >= 0 /\ last < Len(t) - 1

Open(s, limit) ==
  /\ at = NoStream /\ s \in exists
  /\ at' = s
  /\ got' = Page(thread[s], 0, limit) /\ from' = Len(got')
  /\ more' = HasNext(thread[s], 0, limit)
  /\ UNCHANGED <<record, thread, show, writes>>

\* `after` is the `next` of the last page, so this one starts at its successor.
ReadOn(limit) ==
  /\ more
  /\ got' = got \o Page(thread[at], from, limit) /\ from' = Len(got')
  /\ more' = HasNext(thread[at], from, limit)
  /\ UNCHANGED <<at, record, thread, show, writes>>

\* `agile stream show`: the total first, the last lines in a second call.
ShowAsk(s) ==
  /\ s \in exists /\ asking = NoStream
  /\ asking' = s /\ asked' = Len(thread[s])
  /\ UNCHANGED <<record, thread, reader, printed, writes>>

ShowStart(total) == IF total <= Shown THEN 0 ELSE total - Shown

ShowTail ==
  /\ asking # NoStream /\ printed = <<>>
  /\ printed' = Page(thread[asking], ShowStart(asked), Shown)
  /\ UNCHANGED <<record, thread, reader, asking, asked, writes>>

\* The stream page reads the total and the lines in one turn.
StreamPageThread(s) == Page(thread[s], Most(0, Len(thread[s]) - Shown), Shown)

\* What a brief, a retro and the verb `read_stream` take the last lines of.
FirstCap(s) == Page(thread[s], 0, Cap)
LastOf(t, n) == SubSeq(t, Most(1, Len(t) - n + 1), Len(t))
ReadStream(s) == LastOf(FirstCap(s), Shown)

-------------------------------------------------------------------------------
(* The tree *)

\* A stream whose parent is hidden or unknown comes up at the root.
RootsOf(V) == {s \in V : parent[s] \notin V}
ClosedDown(V, T) == \A s \in V : parent[s] \in T => s \in T

\* What a walk from the roots to the children meets.
TreeOf(V) == {s \in V : \A T \in SUBSET V : RootsOf(V) \subseteq T /\ ClosedDown(V, T) => s \in T}

\* The rail's filter and `stream list --status`: the matches and the path to each.
Within(V) == [s \in Stream |-> IF s \in V /\ parent[s] \in V THEN parent[s] ELSE NoStream]
Filtered(V, matches) == UNION {Above(Within(V), s) : s \in V \cap matches}

Next ==
  \/ \E s \in Stream, p \in Stream \cup {NoStream}, first \in FirstLines : Create(s, p, first)
  \/ \E s, p \in Stream : Reparent(s, p)
  \/ \E s \in Stream : Archive(s)
  \/ \E s \in Stream, line \in Line : AppendThread(s, line)
  \/ \E s \in Stream, limit \in Limits : Open(s, limit)
  \/ \E limit \in Limits : ReadOn(limit)
  \/ \E s \in Stream : ShowAsk(s)
  \/ ShowTail

Spec == Init /\ [][Next]_vars

-------------------------------------------------------------------------------
(* Properties *)

TypeOK ==
  /\ exists \subseteq Stream /\ archived \subseteq exists
  /\ parent \in [Stream -> Stream \cup {NoStream}]
  /\ thread \in [Stream -> Seq(Line)]
  /\ at \in Stream \cup {NoStream} /\ from \in Nat /\ got \in Seq(Line)
  /\ more \in BOOLEAN /\ (more => at # NoStream)
  /\ asking \in Stream \cup {NoStream} /\ asked \in Nat /\ printed \in Seq(Line)
  /\ writes \in Nat

\* No set of streams has every parent in itself, whatever parents were
\* accepted in whatever order, from records that name unknown ids too.
NoKnot == \A S \in SUBSET exists : S # {} => \E s \in S : parent[s] \notin S

\* The tree draws every stream it is given, whichever are hidden or filtered
\* away: none can vanish below a parent that is itself below it.
EveryStreamShown == \A V \in SUBSET exists : TreeOf(V) = V

\* A parent accepted on one stream never makes the daemon's next write to
\* another one fail on the chain: the check of a status write always passes.
RecordsStayWritable == \A s \in exists : NoStreamCycle(s, parent[s], Lookup)

\* A client that follows `next` has read a gapless, duplicate-free beginning of
\* the thread, whatever is appended between its pages and whatever limits it
\* asks for; and when there is no `next`, it was at the end.
PagesReadWhole ==
  at # NoStream => /\ from = Len(got) /\ from <= Len(thread[at])
                   /\ \A i \in 1..from : got[i] = thread[at][i]
                   /\ more => 0 < from /\ from < Len(thread[at])
EndIsTheEnd == [][(at' # NoStream /\ (at = NoStream \/ more) /\ ~more') => Len(got') = Len(thread[at'])]_vars

\* The lines `stream show` prints include the newest there was when it was
\* asked, whatever was appended between its two calls.
ShowHasTheTail ==
  printed # <<>> => /\ ShowStart(asked) + Len(printed) >= asked
                    /\ ShowStart(asked) + Len(printed) <= Len(thread[asking])
                    /\ \A i \in 1..Len(printed) : printed[i] = thread[asking][ShowStart(asked) + i]

\* `read_stream`: "the most recent entries of this session's stream thread";
\* the brief's "thread tail".
ReadStreamIsNewest == \A s \in exists : ReadStream(s) = StreamPageThread(s)
================================================================================
