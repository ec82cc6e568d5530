------------------------------- MODULE StreamPage -------------------------------
(***************************************************************************)
(* The cockpit's stream page: one component that stays mounted while the   *)
(* operator moves from stream to stream, reads the stream on every pushed  *)
(* frame, and writes to it by requests whose answers come when they come.  *)
(* The daemon's part is what the page depends on: whether an attach is     *)
(* refused because of open children or a live worker, and how many         *)
(* sessions the stream has had.                                            *)
(***************************************************************************)
EXTENDS Naturals, FiniteSets

CONSTANTS
  Stream, NoStream,
  MaxLoads,     \* reads of the page on their way at once
  MaxActs,      \* requests the operator makes
  MaxChanges    \* changes of the streams that are not the operator's

VARIABLES
  record,   \* the streams, as the daemon has them
  changes,
  frame,    \* a cockpit frame is on its way to the browser
  open,     \* the stream whose page is open, if it is not the inbox
  loads,    \* GET /api/streams/:id, on their way
  page,     \* the payload that came last
  acts,     \* the requests made and not yet answered
  made,     \* how many requests were made
  busy,     \* the one the page waits for
  draft,    \* history: the stream the text in the composer was typed on
  picker,   \* the open session picker: its role, and, history, where it was opened
  choice,   \* history: where the choice that is remembered was made
  confirm,  \* history: the stream whose refusal the open dialog tells
  panel     \* the Land panel: the request it waits for, and, history, whose result it shows

daemon == <<record, changes>>
local == <<draft, picker, choice, confirm, busy>>
pageVars == <<daemon, frame, open, loads, page, acts, made, local, panel>>

NoLoad == [of |-> NoStream, got |-> {}]
NoPage == [of |-> NoStream, is |-> {}]
NoPicker == [role |-> "none", on |-> NoStream]
NoResult == [waits |-> 0, shows |-> NoStream]
Slot == 1..MaxLoads

PageInit ==
  /\ record \in [Stream -> [live : {FALSE}, children : BOOLEAN, sessions : {0}, human : {"open"}]]
  /\ changes = 0 /\ frame = FALSE /\ open = NoStream
  /\ loads = [i \in Slot |-> NoLoad] /\ page = NoPage /\ acts = {} /\ made = 0
  /\ draft = NoStream /\ picker = NoPicker /\ choice = NoStream /\ confirm = NoStream
  /\ busy = 0 /\ panel = NoResult

Shown == open # NoStream /\ page.of = open
Payload == CHOOSE r \in page.is : TRUE
Finished(r) == r.human \in {"landed", "closed"}

-------------------------------------------------------------------------------
(* The daemon *)

\* After a change a frame is pushed.
Written == frame' = (frame \/ record' # record)

\* What an agent, another client or a child stream does.
Change(s) ==
  /\ changes < MaxChanges /\ changes' = changes + 1
  /\ \/ record[s].live /\ record' = [record EXCEPT ![s].live = FALSE]
     \/ record' = [record EXCEPT ![s].children = ~@]
  /\ Written
  /\ UNCHANGED <<open, loads, page, acts, made, local, panel>>

\* What each request does to a stream, and what it answers.
Outcome(a) ==
  LET r == record[a.on]
      worker == [r EXCEPT !.live = TRUE, !.sessions = @ + 1]
  IN CASE a.verb = "say"      -> {<<"ok", r>>}
       [] a.verb = "reviewer" -> {<<"ok", [r EXCEPT !.sessions = @ + 1]>>, <<"failed", r>>}
       [] a.verb = "worker"   -> IF r.children /\ ~a.force THEN {<<"child", r>>}
                                 ELSE IF r.live \/ r.human = "landed" THEN {<<"failed", r>>}
                                 ELSE {<<"ok", worker>>}
       [] a.verb = "stop"     -> {<<"ok", [r EXCEPT !.live = FALSE]>>}
       [] a.verb = "close"    -> {<<"ok", [r EXCEPT !.human = "closed"]>>}
       [] a.verb = "land"     -> IF r.live \/ Finished(r) THEN {<<"failed", r>>}
                                 ELSE {<<"ok", [r EXCEPT !.human = "landed"]>>, <<"ok", r>>}

\* handleStreamRoute
Handle(a) ==
  /\ a.answer = "none"
  /\ \E outcome \in Outcome(a) :
       /\ acts' = (acts \ {a}) \cup {[a EXCEPT !.answer = outcome[1]]}
       /\ record' = [record EXCEPT ![a.on] = outcome[2]]
  /\ Written
  /\ UNCHANGED <<changes, open, loads, page, made, local, panel>>

\* buildStreamPage
ReadPage(i) ==
  /\ loads[i].of # NoStream /\ loads[i].got = {}
  /\ loads' = [loads EXCEPT ![i].got = {record[loads[i].of]}]
  /\ UNCHANGED <<daemon, frame, open, page, acts, made, local, panel>>

-------------------------------------------------------------------------------
(* The page reads *)

\* A read of stream s is sent; one of an unmounted page is not waited for.
Asked(s) ==
  LET free == {i \in Slot : loads[i] = NoLoad} IN
  free # {} /\ loads' = [loads EXCEPT ![CHOOSE i \in free : \A j \in free : i <= j].of = s]

\* A frame comes, pushed or read by refresh(): the page is read again.
FrameComes ==
  /\ frame /\ frame' = FALSE
  /\ IF open = NoStream THEN UNCHANGED loads ELSE Asked(open)
  /\ UNCHANGED <<daemon, open, page, acts, made, local, panel>>

\* The panel is keyed by the stream and the number of its sessions.
PanelOf(p) == IF Shown /\ p.of = open /\ \A r \in p.is : r.sessions = Payload.sessions
              THEN panel ELSE NoResult

\* The payload of whichever read comes is what the page has.
Loaded(i) ==
  /\ loads[i].got # {}
  /\ loads' = [loads EXCEPT ![i] = NoLoad]
  /\ page' = [of |-> loads[i].of, is |-> loads[i].got]
  /\ panel' = PanelOf(page')
  /\ UNCHANGED <<daemon, frame, open, acts, made, local>>

-------------------------------------------------------------------------------
(* The operator moves *)

\* Another stream: the composer, the picker and the dialog start over; a
\* request that is on its way is still waited for.
Reset == /\ draft' = NoStream /\ picker' = NoPicker /\ confirm' = NoStream
         /\ UNCHANGED <<choice, busy>>

\* Also what `New stream` does when its answer comes.
Select(s) ==
  /\ s # open /\ open' = s
  /\ Asked(s) /\ Reset
  /\ panel' = NoResult
  /\ UNCHANGED <<daemon, frame, page, acts, made>>

\* The inbox: the page is unmounted, and no answer reaches it any more.
Leave ==
  /\ open # NoStream /\ open' = NoStream
  /\ loads' = [i \in Slot |-> NoLoad] /\ page' = NoPage
  /\ draft' = NoStream /\ picker' = NoPicker /\ choice' = NoStream /\ confirm' = NoStream
  /\ busy' = 0 /\ panel' = NoResult
  /\ acts' = {[a EXCEPT !.mounted = FALSE] : a \in acts}
  /\ UNCHANGED <<daemon, frame, made>>

-------------------------------------------------------------------------------
(* The operator acts *)

Idle == Shown /\ busy = 0

\* The composer is disabled while a request is on its way.
Type ==
  /\ Idle /\ draft = NoStream /\ draft' = open
  /\ UNCHANGED <<daemon, frame, open, loads, page, acts, made, picker, choice, confirm, busy, panel>>

Send(verb, force, from, told) ==
  /\ made < MaxActs /\ made' = made + 1
  /\ acts' = acts \cup {[no |-> made + 1, verb |-> verb, on |-> page.of, force |-> force, from |-> from,
                         told |-> told, mounted |-> TRUE, answer |-> "none"]}

\* act(): one request of the page at a time.
Act(verb, force, from, told) ==
  Send(verb, force, from, told) /\ busy' = made + 1

Say ==
  /\ Idle /\ draft # NoStream
  /\ Act("say", FALSE, draft, NoStream)
  /\ UNCHANGED <<daemon, frame, open, loads, page, draft, picker, choice, confirm, panel>>

StopOrClose(verb) ==
  /\ Idle
  /\ CASE verb = "stop" -> Payload.live
       [] verb = "close" -> ~Finished(Payload)
  /\ Act(verb, FALSE, open, NoStream)
  /\ UNCHANGED <<daemon, frame, open, loads, page, draft, picker, choice, confirm, panel>>

\* Attach, Review and Resolve open the picker first; Resolve has the force of one who was
\* told of the conflict.
OpenPicker(role) ==
  /\ Shown
  /\ CASE role = "worker" -> busy = 0 /\ ~Payload.live /\ Payload.human # "landed"
       [] role = "reviewer" -> busy = 0
       [] role = "resolve" -> panel.waits = 0 /\ ~Payload.live /\ Payload.human # "landed"
  /\ picker' = [role |-> role, on |-> open]
  /\ UNCHANGED <<daemon, frame, open, loads, page, acts, made, draft, choice, confirm, busy, panel>>

CancelPicker ==
  /\ Shown /\ picker # NoPicker /\ picker' = NoPicker
  /\ UNCHANGED <<daemon, frame, open, loads, page, acts, made, draft, choice, confirm, busy, panel>>

StartSession ==
  /\ Idle /\ picker # NoPicker
  /\ choice' = picker.on
  /\ Act(IF picker.role = "reviewer" THEN "reviewer" ELSE "worker", picker.role = "resolve", picker.on, NoStream)
  /\ UNCHANGED <<daemon, frame, open, loads, page, draft, picker, confirm, panel>>

\* "Attach anyway"
AttachAnyway ==
  /\ Idle /\ confirm # NoStream
  /\ Act("worker", TRUE, choice, confirm)
  /\ UNCHANGED <<daemon, frame, open, loads, page, draft, picker, choice, confirm, panel>>

KeepRefused ==
  /\ Shown /\ confirm # NoStream /\ confirm' = NoStream
  /\ UNCHANGED <<daemon, frame, open, loads, page, acts, made, draft, picker, choice, busy, panel>>

\* The Land panel has a request of its own.
Land ==
  /\ Shown /\ panel.waits = 0 /\ ~Finished(Payload)
  /\ Send("land", FALSE, open, NoStream)
  /\ panel' = [waits |-> made + 1, shows |-> NoStream]
  /\ UNCHANGED <<daemon, frame, open, loads, page, local>>

\* An answer comes: the page, or the panel, that made the request shows it, if it still is
\* there; the stream it was made on is read again, and the page's refresh() asks for a frame.
Answered(a) ==
  /\ a.answer # "none" /\ acts' = acts \ {a}
  /\ frame' = (frame \/ a.verb # "land")
  /\ IF a.mounted THEN Asked(a.on) ELSE UNCHANGED loads
  /\ IF a.no # busy THEN UNCHANGED local
     ELSE /\ busy' = 0
          /\ draft' = IF a.verb = "say" THEN NoStream ELSE draft
          /\ picker' = IF a.verb \in {"worker", "reviewer"} /\ a.answer # "failed" THEN NoPicker ELSE picker
          /\ confirm' = IF a.answer = "child" THEN a.on
                        ELSE IF a.told # NoStream /\ a.answer = "ok" THEN NoStream ELSE confirm
          /\ UNCHANGED choice
  /\ panel' = IF a.no = panel.waits THEN [waits |-> 0, shows |-> a.on] ELSE panel
  /\ UNCHANGED <<daemon, open, page, made>>

-------------------------------------------------------------------------------

PageNext ==
  \/ \E s \in Stream : Change(s) \/ Select(s)
  \/ \E a \in acts : Handle(a) \/ Answered(a)
  \/ \E i \in Slot : ReadPage(i) \/ Loaded(i)
  \/ FrameComes \/ Leave \/ Type \/ Say \/ StartSession \/ CancelPicker \/ AttachAnyway \/ KeepRefused \/ Land
  \/ \E verb \in {"stop", "close"} : StopOrClose(verb)
  \/ \E role \in {"worker", "reviewer", "resolve"} : OpenPicker(role)

\* The daemon answers what it is asked and pushes a frame after what it wrote.
Fairness ==
  /\ WF_pageVars(FrameComes) /\ \A i \in Slot : WF_pageVars(ReadPage(i)) /\ WF_pageVars(Loaded(i))

PageSpec == PageInit /\ [][PageNext]_pageVars /\ Fairness

-------------------------------------------------------------------------------
(* Properties *)

\* A line is said on the stream it was typed on, and a session is started on the stream
\* its picker was opened on, though the composer and the picker outlive that stream's page
\* (what "Attach anyway" is made of does not, see ForcedAsRefused).
WrittenWhereMade == \A a \in acts : a.told = NoStream => a.from = a.on

\* The result a Land panel shows is that of the stream it stands under.
ResultIsOwn == panel.shows # NoStream => Shown /\ panel.shows = open

\* What was typed is lost only by saying it or by leaving its page, whatever answers come.
DraftIsKept ==
  [][draft # NoStream /\ draft' = NoStream =>
       open' # open \/ \E a \in acts \ acts' : a.verb = "say" /\ a.on = draft]_pageVars

-------------------------------------------------------------------------------
(* What the repository says and the code does not keep *)

\* StreamPage.tsx:270, "the server refused a worker on a parent with open children; this is
\* its reason", and the dialog's "This stream has open children": what is forced is the
\* attach that was refused.
ForcedAsRefused == \A a \in acts : a.told # NoStream => a.told = a.on

\* A page that stays open ends up showing its stream as it stays.
ShowsTheNewest ==
  \A s \in Stream : <>[](open = s) => <>[](page.of = s /\ \A r \in page.is : r = record[s])

\* One land at a time from one page: the panel starts over when a session is added.
OneLand == \A a, b \in acts : a.verb = "land" /\ b.verb = "land" /\ a.mounted /\ b.mounted /\ a.on = b.on => a = b
===============================================================================
