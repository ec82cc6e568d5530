---------------------------------- MODULE Feed ----------------------------------
(***************************************************************************)
(* From a write to the cockpit.  A store mutation renames the new record   *)
(* into place and then appends its event to log/events.jsonl; a tailer     *)
(* polls that file and publishes every new line, and after each batch the  *)
(* cockpit frame derived from the records, to the /ws connections.  A page *)
(* gets the tail of the log and a frame when it connects, and may ask for  *)
(* a frame over HTTP at any time.                                          *)
(*                                                                         *)
(* The daemon may be killed between any two of its system calls, an append *)
(* may be cut short (a full disk, a kill), a connection may break.         *)
(***************************************************************************)
EXTENDS Naturals, SequencesExt

CONSTANTS
  Record,         \* the records a frame is derived from
  Page,           \* the browser pages
  SnapshotLimit,  \* how many events a snapshot carries
  MaxWrites,      \* bound: mutations
  MaxFaults,      \* bound: kills, stops, cut appends and broken connections
  MaxRefresh      \* bound: frames a page asks for

ASSUME FeedAssumption ==
  SnapshotLimit \in Nat \ {0} /\ MaxWrites \in Nat /\ MaxFaults \in Nat /\ MaxRefresh \in Nat

VARIABLES
  running,  \* whether the daemon runs
  version,  \* of each record, how often it was written
  pending,  \* a record is renamed into place, its event is still to be appended
  log,      \* the lines: "event", or "bad" for one that does not parse
  torn,     \* the file ends in a cut line
  read,     \* the tailer: lines consumed, and whether it began behind a cut line
  open,     \* the pages whose connection is open
  wire,     \* to each page: what is on its way, in order
  answers,  \* to each page: HTTP answers on their way
  page,     \* what a page shows, was pushed and has heard
  faults    \* how many went wrong so far

feedVars == <<running, version, pending, log, torn, read, open, wire, answers, page, faults>>

\* buildCockpitFrame: the inbox and the stream tree, as the records are now.
CockpitFrame == version

Cockpit(v) == [type |-> "cockpit", frame |-> v]
EventFrame(i) == [type |-> "event", line |-> i]
Snapshot(lines) == [type |-> "snapshot", lines |-> lines]

NoFrame == [r \in Record |-> 0]

FeedInit ==
  /\ running = FALSE
  /\ version = NoFrame /\ pending = FALSE
  /\ log = <<>> /\ torn = FALSE /\ read = [lines |-> 0, behind |-> FALSE]
  /\ open = {} /\ wire = [p \in Page |-> <<>>] /\ answers = [p \in Page |-> {}]
  /\ page = [p \in Page |-> [cockpit |-> NoFrame, pushed |-> NoFrame, heard |-> {}, since |-> 0, asked |-> 0]]
  /\ faults = 0

-------------------------------------------------------------------------------
(* The store.  A mutation is one turn of the event loop: only a kill comes between. *)

Writes == FoldFunction(+, 0, version)

\* mutate: the record first ...
Put(r) ==
  /\ running /\ ~pending /\ Writes < MaxWrites
  /\ version' = [version EXCEPT ![r] = @ + 1] /\ pending' = TRUE
  /\ UNCHANGED <<running, log, torn, read, open, wire, answers, page, faults>>

\* ... then its event; after a cut line the two are one line, and do not parse.
AppendEvent ==
  /\ running /\ pending
  /\ log' = Append(log, IF torn THEN "bad" ELSE "event")
  /\ torn' = FALSE /\ pending' = FALSE
  /\ UNCHANGED <<running, version, read, open, wire, answers, page, faults>>

\* The append is cut short: the caller gets an error, the record stays as written.
AppendCut ==
  /\ running /\ pending /\ faults < MaxFaults
  /\ torn' = TRUE /\ pending' = FALSE /\ read' = [read EXCEPT !.behind = FALSE]
  /\ faults' = faults + 1
  /\ UNCHANGED <<running, version, log, open, wire, answers, page>>

\* listEvents throws on any line that does not parse, the last one included.
Readable == ~torn /\ "bad" \notin Range(log)

-------------------------------------------------------------------------------
(* The daemon *)

\* The tailer begins at the end of the file as it is.
StartDaemon ==
  /\ ~running
  /\ running' = TRUE /\ read' = [lines |-> Len(log), behind |-> torn]
  /\ UNCHANGED <<version, pending, log, torn, open, wire, answers, page, faults>>

\* A stop or a kill: the connections close, and what was on its way is lost.
StopDaemon ==
  /\ running /\ faults < MaxFaults
  /\ running' = FALSE /\ pending' = FALSE /\ faults' = faults + 1
  /\ open' = {} /\ wire' = [p \in Page |-> <<>>] /\ answers' = [p \in Page |-> {}]
  /\ UNCHANGED <<version, log, torn, read, page>>

Unread == {i \in DOMAIN log : i > read.lines}

\* A tailer that began behind a cut line reads the rest of it as a line of its own.
Parses(i) == log[i] = "event" \/ (read.behind /\ i = read.lines + 1)

\* onEvents: the new events in order and then one frame; nothing when no line parsed.
Batch(lines) ==
  IF lines = <<>> THEN <<>>
  ELSE [i \in DOMAIN lines |-> EventFrame(lines[i])] \o <<Cockpit(CockpitFrame)>>

\* publish: to every connection that has subscribed.
Publish(frames) == [p \in Page |-> IF p \in open THEN wire[p] \o frames ELSE <<>>]

\* Some lines, in order.
InOrder(lines) ==
  {list \in [1 .. Cardinality(lines) -> lines] :
     /\ \A i, j \in DOMAIN list : i < j => list[i] < list[j]
     /\ Range(list) = lines}

\* pollNow.
Poll ==
  /\ running /\ ~pending /\ Unread # {}
  /\ \E lines \in InOrder({i \in Unread : Parses(i)}) : wire' = Publish(Batch(lines))
  /\ read' = [lines |-> Len(log), behind |-> FALSE]
  /\ UNCHANGED <<running, version, pending, log, torn, open, answers, page, faults>>

-------------------------------------------------------------------------------
(* The pages *)

\* Mutant: one event short.
ShorterTail == {i \in DOMAIN log : i + SnapshotLimit > Len(log) + 1}

\* buildSnapshot: the last events of the log.
RecentEvents == {i \in DOMAIN log : i + SnapshotLimit > Len(log)}

\* What a connection is sent when it opens, once it has subscribed.
Opening == <<Snapshot(RecentEvents), Cockpit(CockpitFrame)>>

\* Mutant: a page whose connection broke stays without.
ConnectOnce(p) ==
  /\ running /\ ~pending /\ p \notin open /\ Readable /\ page[p].pushed = NoFrame
  /\ open' = open \cup {p} /\ wire' = [wire EXCEPT ![p] = Opening]
  /\ page' = [page EXCEPT ![p].since = Len(log)]
  /\ UNCHANGED <<running, version, pending, log, torn, read, answers, faults>>

\* The handler throws when the log cannot be read, and the server closes the connection.
Connect(p) ==
  /\ running /\ ~pending /\ p \notin open /\ Readable
  /\ open' = open \cup {p} /\ wire' = [wire EXCEPT ![p] = Opening]
  /\ page' = [page EXCEPT ![p].since = Len(log)]
  /\ UNCHANGED <<running, version, pending, log, torn, read, answers, faults>>

\* The next frame arrives.
Receive(p) ==
  /\ wire[p] # <<>>
  /\ LET frame == Head(wire[p]) IN
     page' = [page EXCEPT ![p] =
       CASE frame.type = "snapshot" -> [@ EXCEPT !.heard = frame.lines]
         [] frame.type = "event"    -> [@ EXCEPT !.heard = @ \cup {frame.line}]
         [] frame.type = "cockpit"  -> [@ EXCEPT !.cockpit = frame.frame, !.pushed = frame.frame]]
  /\ wire' = [wire EXCEPT ![p] = Tail(@)]
  /\ UNCHANGED <<running, version, pending, log, torn, read, open, answers, faults>>

\* The connection breaks; the page connects again after a while.
Disconnect(p) ==
  /\ p \in open /\ faults < MaxFaults
  /\ open' = open \ {p} /\ wire' = [wire EXCEPT ![p] = <<>>] /\ faults' = faults + 1
  /\ UNCHANGED <<running, version, pending, log, torn, read, answers, page>>

\* refresh: GET /api/cockpit, after the operator's own write ...
Refresh(p) ==
  /\ running /\ ~pending /\ page[p].asked < MaxRefresh
  /\ answers' = [answers EXCEPT ![p] = @ \cup {CockpitFrame}]
  /\ page' = [page EXCEPT ![p].asked = @ + 1]
  /\ UNCHANGED <<running, version, pending, log, torn, read, open, wire, faults>>

\* ... whose answer takes its own way to the page.
Answer(p) ==
  /\ \E v \in answers[p] :
       /\ page' = [page EXCEPT ![p].cockpit = v]
       /\ answers' = [answers EXCEPT ![p] = @ \ {v}]
  /\ UNCHANGED <<running, version, pending, log, torn, read, open, wire, faults>>

FeedNext ==
  \/ \E r \in Record : Put(r)
  \/ AppendEvent \/ AppendCut \/ StartDaemon \/ StopDaemon \/ Poll
  \/ \E p \in Page : Connect(p) \/ Receive(p) \/ Disconnect(p) \/ Refresh(p) \/ Answer(p)

\* The event loop runs what it began, the poll is a timer, a page retries for ever.
FeedFairness ==
  /\ WF_feedVars(AppendEvent \/ AppendCut) /\ WF_feedVars(Poll)
  /\ \A p \in Page : WF_feedVars(Connect(p)) /\ WF_feedVars(Receive(p)) /\ WF_feedVars(Answer(p))

FeedSpec == FeedInit /\ [][FeedNext]_feedVars /\ FeedFairness

-------------------------------------------------------------------------------
Frame == [Record -> Nat]

FeedTypeOK ==
  /\ running \in BOOLEAN /\ version \in Frame /\ pending \in BOOLEAN /\ torn \in BOOLEAN
  /\ log \in Seq({"event", "bad"})
  /\ read.lines \in 0 .. Len(log) /\ read.behind \in BOOLEAN
  /\ pending => running
  /\ \A p \in Page : page[p].heard \subseteq DOMAIN log /\ page[p].cockpit \in Frame

OnItsWay(p) == {wire[p][i] : i \in DOMAIN wire[p]}

\* A connected page misses no event that parses: it has heard it, it is on its way, or the
\* tailer has yet to read it, from the first the snapshot carried (open in http.ts, pollNow).
NothingMissed ==
  \A p \in open :
    \A i \in DOMAIN log : log[i] = "event" /\ i + SnapshotLimit > page[p].since =>
      \/ i \in page[p].heard \cup Unread
      \/ \E f \in OnItsWay(p) : f = EventFrame(i) \/ (f.type = "snapshot" /\ i \in f.lines)

\* Whatever broke before, a page is pushed the frame of the records as they stay, as long as
\* the daemon runs and its log can be read: "must not need a manual refresh after a daemon
\* restart" (ws.ts).
PagesCatchUp ==
  \A p \in Page : <>[](running /\ Readable) => <>[](page[p].pushed = version)

\* The same of what a page shows.
ShownCatchesUp ==
  \A p \in Page : <>[](running /\ Readable) => <>[](page[p].cockpit = version)
===============================================================================
