# A verification of agile-agents

agile-agents runs coding agents for one human. A daemon (`agiled`) keeps *streams* of
work; a stream may have a repository branch and worktree, agent *sessions* are attached
to it, they ask *questions*, their tool calls are checked by *rules* and may be routed to
the human as *gates*, and finished work is *landed* by merging the branch. This directory
holds TLA+ models of that daemon and its clients, the TLC runs that check them and proofs
about them.

Everything is translated from the code under `packages/`; `PROJECT.json` names, for each
definition, the lines it stands for. Paths below are relative to `packages/daemon/src/`
unless they start with another directory.

1. The system · 2. How the models are written · 3. The modules · 4. Runs · 5. Fairness ·
6. Proofs · 7. What is only model-checked · 8. What is not modelled · 9. Where the code and
its documents disagree · 10. What could be added

## 1. The system

The daemon is one Bun process, one event loop. It serves RPC on a unix socket (CLI, MCP
verbs, hook) and HTTP with a websocket (the web page). Records are YAML files, the log is
JSONL. Store updates run one after another behind a promise mutex and use synchronous
file calls, so they never wait for I/O in the middle. Handlers interleave where they
really wait: for a vendor's reply, a `git` child process, the classifier, a process exit.
Around it are other processes: the vendors' agents, `agile hook` or the Pi extension beside
each of them, command lines, browser pages, and the operator in the repositories.

| Component | State | Operations | Hard parts | Modules |
|---|---|---|---|---|
| `attach/service.ts` | a handle per (role, stream), `detaching`, exit promises; the sessions in the stream record | attach, onTurnEnd, deliverAnswer, deliverGateDecision, say, onExit, stop, stopAll | checks the record, awaits git, does not look again; deliveries race the end of a turn; nothing is rebuilt after a crash | Sessions, Slots |
| `runner/session.ts`, `acp-client/src/session.ts` | turn queue, `stopRequested`, `settled`; the client's slot, pending requests, pipes | prompt, stop, finish, exit; handshake, update, close | late answers, floods, hangs, time limits | Acp, Sessions |
| `runner/worktrees.ts` | branch ref, worktree directory | createWorktree | the branch claim is the only mutual exclusion of two first attaches | Sessions |
| `questions/` | question records | raise, answer, answerFromThread, supersede | an answer writes the stream's status for everybody | Sessions |
| `gates/service.ts`, `hook/route-band.ts` | gate records, breaker, delegate decisions in flight | request, respond, addNote, tick, consume; routeCall | answer against time-out, one approval for one call | Gates, Permits |
| `landing/` | the target ref, checkouts, the stream's end | land, markLanded; diff rules | awaits the classifier between checking a diff and merging it | Landing, ClassifierTier |
| `rules/`, `lessons/` | rule records, coalesced statistics | propose, accept, retire, update, recordFired; ensureBuiltinRules | lost statistics, half a start, stale lists | Rules, Cockpit |
| `classifier/` | the key and provider, in file and in memory | check, setKey, removeKey | requests that fail between two files of one diff | ClassifierTier |
| `permissions/` | none; the role tables, the never-list, pattern rules | decidePermission | chains, pipes and scripts; two tiers | Commands, Policy, Verdicts |
| `hook/`, agent registry | agent records with heartbeats | decide, register, heartbeat, unregister | whose call it is; callers that stopped waiting | Permissions, HookCalls |
| `store/`, `feed/`, `http.ts` | YAML records, `log/events.jsonl`, connections | update, append, tail, snapshot | a crash between a record and its event, half a line | Feed |
| `streams/` | the stream tree, threads | create, update, archive, append, page | cycles, pages of a thread that grows | Streams |
| `daemon.ts`, `lock.ts`, `cli` daemon commands | processes, port, pidfile, socket | start, stop | two starts, a crash between any two calls | Daemon |
| `tools/test-run.ts` | the `raw/` tree, paths in flight | run, sweep | a sweep beside other runs | RawLogs |
| `config.yaml`, `repos.yaml`, resolution order | session defaults | setSessionDefaults, `repo add`, prefill | stale forms, stale registries | Settings |
| `ui/` stream page, rules and settings screens | component state, requests in flight | attach, land, say, bulk decisions, saves | answers that come after the operator moved on | StreamPage, Cockpit, Settings |
| inbox | none: a projection | list | what it misses | Sessions, Cockpit |
| sandbox, docs, fixtures, vendor, spike | none | – | – | none |

Who calls whom. An RPC attach goes to AttachService, which cuts a worktree, records the
session in the stream and starts a runner; the runner speaks ACP with the agent's process
and reports turn ends and the exit back. An agent's tool call goes through its hook to the
daemon, which looks up whose call it is, judges it by policy and rules, asks the classifier
and may raise a gate; its verbs raise questions, propose rules and write lines. The human's
answer or decision goes to QuestionService or GateService, whose wrappers (wired in
`daemon.ts`) supersede the questions a decision settles, deliver it as a prompt and, for a
landing gate, run the merge. Landing and close start a retro session. Every mutation appends
an event, the tailer turns the log into frames, and pages read again when one comes.

Processes share four things: the records (through the daemon only), the registry and bus
files, the git repository, and the state home with its pidfile, log and `raw/` tree. Each of
the four has the module in which its races are: Sessions, HookCalls, Landing, and Daemon
with Feed and RawLogs.

`PROJECT.json` lists the hazards, each with its line and the properties that guard it, or a
note why none does.

## 2. How the models are written

An action is a handler, or the stretch of one between two places where it really waits. A
read and the write that depends on it are one step if only the store's mutex lies between
them, since the mutex runs synchronous functions in microtasks. Git commands, the steps of a
daemon's start, an append beside its record and the two writes of an ack are separate steps,
because another process or a kill can come between them.

A module that has parts of another's subject takes them as free choices: whether a call is
let through in HookCalls, what the classifier says in Gates, whether a gate was approved in
Permissions. The choices are at least as wide as what the other module does, so that a safety
property checked under them does not lean on it. Four compositions are explicit: Sessions
implements Slots; Gates implements Permits; Policy is built on Commands and used by Permissions
and Verdicts; Cockpit is the clients over Rules.

History variables (`fate`, `used`, `heard`, `seen`, `wrote`, …) are marked as such where they
are declared; they only say what happened.

Definitions that differ from one of the code's by a plausible bug (`ClaimBranchForced`,
`AckDeleteFirst`, …) stand before the definition they would replace, and are used by nothing
else: each property of a run fails under one of them.

## 3. The modules

### Sessions (with Slots, MCSessions, Sessions_proofs)

One stream with the sessions attached to it over its life.

| Variable | Code |
|---|---|
| `agent`, `human`, `session`, `queued`, `worktree` | the stream record: both status halves, `sessions[].status` and `.queued`, branch and worktree |
| `qstatus`, `asker`, `gstatus`, `caller` | question records, and gate records of routed calls; `spent` is `consumed_at` |
| `handle`, `detaching`, `attaching` | `AttachService.live`, `.detaching`, and the calls waiting in createWorktree |
| `runner`, `turns` | a session's runner: `opening` (session/new asked), `live`, `finishing` (stopped by the turn-end rule), `stopping` (by detach or shutdown), `settled`; its turn queue, the running turn first |
| `closing`, `awaited` | a daemon stop in progress and the sessions it waits for |
| `branch`, `proc` | the branch ref and who claimed it; vendor processes that exist |
| `fate` | history: where each line, answer and decision ended up |
| `outages` | the bound on crashes and stops of the daemon |

`Attach` is an attach with nothing to wait for; `AttachFirst`, `ClaimBranch`, `ClaimLost`,
`CheckoutFails` and `AttachResume` are the first attach of a worker, with the git calls
between. `Exit`, `Fail` and `Finish` are the runner's end together with the exit path and the
auto review it may start. `StopSessions` is `stop` for detach and shutdown. `TurnEndNext`,
`TurnEndWait` and `TurnEndStop` are the turn-end rule. `Raise`, `Answer`, `SayToThread`,
`SayToWorker`, `RouteCall`, `Retry`, `Respond` and `Close` are the human's and the agent's
calls. `Crash` and `Restart` forget everything that is not a record, a ref or a process.
`Inbox` is what `inbox.list` shows of the stream.

Choices the code leaves open are nondeterministic: whether git succeeds, whether a spawn
throws (`StartFailures`), whether a prompt fails, when a process dies, and which of two exit
paths writes last when a stop cuts a worker and a reviewer short together. A session whose
prompt failed may leave its process behind (`Fail` keeps it, `Reap` removes it).

`Slots` is the promise of attaching: one slot per role, taken only when empty, left for
good. `Sessions` implements it with the slots read from the record.

Properties. `RecordAgreesWithHandles`: the record calls a session live exactly when the
daemon can stop it. `QuietMeansWaiting`: a session between turns is idle and has something
open that will wake it. `TurnEndLosesNothing`: letting a session go loses no prompt.
`MarkersMatchQueue`: the markers on the page are the lines waiting. `DetachStartsNothing`: a
detached worker is not reviewed. `OneLivePerRole`, `ImplementsSlots`, and, with fairness,
`SessionsComeToRest` and `StopsComplete`.

Left out: parent streams and `--force`, the human's direct edits of a stream, thread text,
calls made by processes that survived a crash, and the second status write of an attach that
lost its record to another writer. A line's marker is written and removed with the queue in one
step; the code chains the two updates one behind the other (`attach/service.ts:557`), and that
order is not covered.

### Acp (MCAcp, Permissions_proofs)

The other half of a session: one agent process between `spawnSession` and the runner's turn
queue, down to the lines in the two pipes.

| Variables | Code |
|---|---|
| `registered`, `queue`, `stage`, `tried`, `stopRequested`, `settled`, `buffer`, `line` | `startAgentSession`: the first registry write, the queue and the turn it is at, the one retry after `authenticate`, the flags, the text still to be written of the open message, and the last thread line |
| `hello`, `opening`, `acpSessionId`, `inFlight`, `fold`, `pending`, `exited`, `killTimer` | the client: the `initialized` promise, the shared opening, the slot of the one prompt, the reply it folds, requests without an answer, `onDead`, the SIGKILL timer |
| `log` | history: what `output.log` has of the message that is open, or was last |
| `micro` | answers whose promises still have to run: an event of the loop waits for them |
| `toAgent`, `fromAgent`, `working`, `answered`, `opened`, `moded`, `authed`, `said`, `proc` | the pipes and the agent, which answers, fails, floods, hangs or dies as it likes |

`Receive` takes a line and `Settle` runs one promise to its end; the callbacks of one answer
are `Initialized`, `SessionAnswered`, `ModeAnswered`, `Authenticated` and `TurnAnswered`.

Properties. `RepliesAreOwn`: a turn ends as the agent ended that turn; what settles the slot
does not say whose it is, so this is the runner's doing. `PromptedInMode`: no prompt reaches
a session that has not its mode. `ReplyIsWritten`: the runner and the client cut the agent's
messages at the same places, so the reply of a completed turn is in `output.log` as one message.
`EndsWhole`: a session that was stopped or gave up has soon no process and no turn.

A text is its length. The runner writes a message that reaches `THREAD_BODY_MAX_CHARS` as it goes
(`ReceiveChunk`): the log gets each piece, the thread a line for each, clipped if one chunk made it
too long (`Clip`). So a long reply is several lines, the last of them its tail, and only a reply
that fits in a line is the last line. The client clamps what it folds (`Clamp`). Left out: the white
space that is trimmed off each piece (no chunk is blank), and a thread that cannot be written, which
the runner ignores.

### Gates (with Permits, MCGates, Gates_proofs)

The gates of routed tool calls, over all sessions: the attempts that raise and spend them,
the people and the delegate that answer them, and the note that goes back.

| Variable | Code |
|---|---|
| `gate`, `raised` | records under `gates/`: session, fingerprint, owner, answer, `decided_by`, the text of the note, `consumed_at` |
| `late` | gates whose deadline has passed; `Elapse` is the clock |
| `delegate` | `options.delegate` is set |
| `asks`, `tick` | delegate calls in flight for a note (`settleLater`); what each running tick still has to decide, with the notes it read |
| `hook`, `attempts` | locals of each PreToolUse call in flight: where it waits, the tier that routed it, the messages to ack, the approval found and the one spent |
| `saying` | the note of a decision that is written and has still to be announced |
| `sent`, `unread` | note messages in the bus inboxes, and those not moved to `done/` |
| `answers`, `uses`, `wrote`, `heard`, `cut` | history only: decisions and calls let through per gate, the last text written on it, messages put before the agent, notes whose announcement was cut off |

An attempt is `Begin` (inbox and the tiers before the classifier), then `Classify` where it
waits for the classifier, and the route band after either: `Match`, `Spend` or
`SpentAlready`, `Reuse`, `Raise`; `Finish` acks and answers. `Respond`, `AddNote` and
`Settle` answer a gate, and a text replaces the one before it, as it does in the record;
`StartTick`, `DecideTick` and `FailTick` are a tick with its delegate calls. A decision is the
write of its record; the `gate_resolved` event and the message to the agent come behind it in
`Deliver`, unless one of them cannot be written (`FailAnnounce`) or the daemon is killed in
between (`Restart`, which ends whatever is in flight): then the decision stands and the note is
never sent. Nothing else runs in between, as with all writes that only the mutex separates. The
list of the route band and `consume` are two steps although only microtasks lie between them, as
the code takes them to be. `breaker.yaml` is read by `request` and written by `trip` and `clear`
only, so that a signal is tripped is an input of `Raise`.

`Permits` is the promise of a gate, without records, inboxes or clocks: a call that is stopped is
asked about, the ask is answered, a yes lets that call of that agent through once. `Gates`
implements it with its records and the calls in flight; `request` is `Ask`, a decision `Answer`,
`consume` the one way through. Where there is a delegate the promise is weaker in two ways the code
needs: a tick answers again what was answered (`AnswerAgain`, which opens the gate anew), and a
call that has read a yes uses it even if the tick has denied the gate meanwhile, since `consume`
looks at `consumed_at` only. `DecisionStands` narrows the first to gates a tick had listed.

Properties. `ImplementsPermits`. `OneCallPerAnswer`: no more calls let through than answers given.
`DecisionStands`: only a tick that had listed the gate changes a decision. `NoteIsHeard`: once a
gate is decided, the last text a human wrote on it is about to be announced, in the inbox or before
the agent, unless its announcement was cut off; it needs room for the notes that wait (section 6
says how much), since messages that do not fit the context are acked all the same.
Proved only: `YesFitsCall`, what an attempt went through on was asked for its own call in its own
session; `DelegateWhenDue`, the delegate keeps to what is its to decide.

Assumed: a client sends one request per connection, as `cli/src/client.ts` does. (The socket
takes up all the lines of one chunk at once, `rpc.ts:176-199`, so a client that sent two
answers to one gate in one chunk could have both read it as pending.) What the tiers decide
is a free choice of each attempt; a call with no fingerprint is one that is denied. Nothing
but notes is written to these inboxes. `Fitting` counts messages where the code counts
characters, and a note is told whole where `deliverNote` cuts the message at
`MESSAGE_BODY_MAX_CHARS`. Without a delegate a tick writes only the `reason` of a gate, which nothing
reads, so it is no step.

### Landing (with MCLanding, Landing_proofs)

One stream, its branch and the target it lands on. A call of `land` is a process of its own;
a gate is named by the call that raised it.

| Variable | Code |
|---|---|
| `human`, `conflict`, `live` | the stream record: human status, `land_conflict`, whether a session is live |
| `branch`, `target` | the commits on both; a set, since nothing asks for their order |
| `worktree`, `checkout` | the stream's worktree, and the operator's checkout of the target: clean, `dirty` (tracked edits) or `stray` (an untracked file where the merge brings one) |
| `loop`, `pc` | which call holds the event loop, and how far each one is |
| `passed`, `noticed`, `seen`, `via` | locals of a call: `gateApproved`, a conflict on the record it read, the diff it read, the review it spent |
| `before`, `sha`, `tidy` | locals of `merge`: the target read, the merge commit, a checkout read as clean |
| `gkind`, `gstatus` | `land` and `classifier_review` gate records; `spent` is `consumed_at` |
| `pushed`, `lost` | history: the operator's commits on the target, and whether an edit was thrown away |

`land` waits for I/O once, for the classifier (`Ask`, then `Allowed`, `Denied` or `Routed`).
From there to its end it keeps the event loop, so no other handler runs, but each git
command is a process and `BeginMerge`, `Merge`, `UpdateRef` and `BringAlong` are separate
steps between which the operator may commit (`CommitOnTarget`) or edit (`EditCheckout`).
`Attach`, `WorkerEnds`, `Close` and `MarkLanded` are handlers and need the loop. `Approve` is
the wrapper that lands in the same call; `Press` is the button. `Crash` ends every running
call and leaves records, refs and checkouts.

Properties. `LandedStaysOnTarget`: what was reported as landed stays on the target.
`ApprovedIsMerged`: a land on an approval merges the diff that was shown. `ApprovalOpensOne`:
one merge per approval. `RefNeverRewinds`, no update of the ref takes a commit off the
target, is proved only.

"open" stands for both statuses that may land. Which diff rules are in scope and what the
classifier says are free choices of each call, as is `land_gate` of `LandGates`; an answer
that does not come is `Allowed` or `Denied` by the fail policy. Which commits conflict is a
fixed relation. `OutsideCommits` says whether the branch may get commits while no worker is
attached: `ApprovedIsMerged` holds only if not, since a person who commits on the branch
between the reading of the diff and the merge gets the new commits merged under the old
approval. Left out: the agent's status (Sessions), a crash with a live worker (its stream
never lands again until the record is put right), delegates (the shipped daemon wires none),
gate time-outs, a parent's branch as target, and the temporary worktree. `Spend` lists the approvals
and consumes one in one step; two lands that list the same one before either consumes it are not
covered (Gates has that of hook calls).

### Commands, Policy, Verdicts (MCVerdicts; proved in Streams_proofs)

Commands reads a command line: atoms of a chain, pipes, `sh -c` scripts one level down, git's
subcommand behind its global options, refspecs, redirections. A word is an element, and what the
code finds out from its characters (it starts with a dash, leads out of the worktree, holds a
`$`, fuses a flag with its value) is a set it belongs to. Policy judges: the never-list, the
engineer's and the reviewer's table, the four pattern checkers with what git says of the
worktree as `World`, `DecidePermission` for an ACP request and `GateVerdict` for a hook call.
Both are operators, with folds and recursive functions; a pass over the pattern rules ends at the
first that denies (`RulePass`), and the rules in scope are a list with gaps, so that "fewer rules"
is a restriction of it. Verdicts makes them a state machine
whose one step judges a call, so that TLC walks every role, set of accepted rules, request and
world of MCVerdicts. `VerdictsAssumption` says what the readers of a request hand over: only the
argument of a shell's `-c` has a script, a title gives a command or a path, the agent's built-in
tools do not report an edit, and a rule has one of the four patterns and an id.

Properties. `ChainIsNoLooser`: no part of an allowed chain, pipe or script would be refused on
its own. `TiersAgree`: hook and ACP judge a call alike and count the same rules, so that an
agent without a hook is held as tightly; two differences the comment names are excluded.
`RulesOnlyRestrict`: fewer rules allow no less.

### Permissions (MCPermissions, Permissions_proofs)

The order of a tool call at the daemon, over the agent registry. `process` and `record` are
the agents and their entries, `accepted` the human's rules, `call` the one being judged.
`Start`, `Refresh`, `Age`, `Exit`, `Finish`, `Crash` move the registry; `PreToolUse` resolves
the caller, `Decide`, `Route` and `AskClassifier` are the tiers, each with the rules as they
are when it runs; `HandleRequest` is the same call over ACP. Properties: `JudgedAsItself`, a
session on record is judged under its own role; `EnforcedThroughout`, a rule accepted from the
arrival of a call to its end has looked at a call that was allowed; `RemovedStaysRemoved`, no
late heartbeat brings a removed record back in place of the process that is gone.

### HookCalls (MCHookCalls, HookCalls_proofs)

One session's calls between the vendor, the caller (`agile hook` beside Claude, the extension
inside Pi), the socket and the handler, with the notes that ride on the answers. `client` and
`late` are the caller's side, which gives up after 2 or 5 seconds, `handler`, `verdict`,
`carries`, `todo` and `moving` the daemon's side, which runs on; `file` is where each note has
a copy, `heard` what was put before the model, `gate`, `yeses` and `spent` the approval,
`acks` and `beat` Pi's own requests. `DaemonDies` may come between the copy and the delete of
an ack. Properties: `EachRunHasItsYes`, whatever times out or dies, a guarded call runs only on
a yes of its own; `LostOnlyWithCaller`, a note that was acked unheard was carried by a call
whose caller had gone, or did not fit; `NotesLeaveCopies`.

Assumed: only notes of normal priority are sent, as in the code; Claude's own 5 s limit on a
hook never fires before the CLI's 2 s; both calls are guarded; a context holds one note at
least (`ContextCap`), so a single note longer than its 4000 characters is left out; the
hook is not run with `--fail-open`, under which a caller that gives up lets the call through.

### ClassifierTier (MCClassifierTier; proved in HookCalls_proofs)

A hook call or a land asks the classifier about every rule, in one request or one per file,
while the key, `config.yaml`, the opt-out and the accepted rules change. `Reply` and `AskFails`
are the requests, `HookSettles`, `HookErrs`, `LandSettles` and `LandErrs` what becomes of the
answers, `SetKey`, `RefuseKey`, `HandEdit`, `Restart` and `ChangeScope` the settings.
`HookErrs` are the two events of a call that may fail to be written, the classifier's before and the
decision's behind the counts. Probabilities are three bands. `cut` has the requests that carry a
prefix only: of a file over the budget (`truncateTo`), or of a hook's command or edit (`clip`).
Which are cut is a free choice. Properties: `PassedIsChecked`, what is let through was judged, on
what was sent of it, by every rule asked, or the thread says which was not; `BlameIsFair`, a
violation is counted for a call that was not let through, for an answer or a missing one, and every
denial has one. What a cut leaves out is not judged, and nothing says so: section 9.

### Rules, Cockpit (MCCockpit, Cockpit_proofs)

Rules has the records, the counters on disk, in memory (`pending`) and taken by a flush that still
writes (`flushing`), the built-ins a start creates, the stream tree a scope follows, and a daemon
that may be killed between any two writes. A flush clears the memory (`TakePending`) and then
writes rule by rule (`WriteStats`); where a write fails the rule's counters are gone (`DropStats`,
kept in `dropped`), and firings, edits and decisions come in between. A stop waits for one such
flush (`StopDaemon`, `ExitDaemon`). Cockpit
adds the clients: the rules screen with the list it loaded, its filter, ticks, bulk decision
and editor; `agile rules` and its seed; agents that propose. Properties: `CountsAreKept`, a
firing is counted once, on disk, in memory, in the flush, or dropped with a failed write;
`BuiltinsStandOnce`; `BulkDoesWhatItSays`, a bulk
decision touches only what was ticked and shown, and accounts for each; `SeedsOnce`.

Assumed: one start and one seed at a time; the operator does not give a built-in another
pattern kind (`BuiltinEdits` FALSE; with TRUE the property fails, section 9).

### Feed (proved in Daemon_proofs)

A mutation renames its record into place (`Put`) and appends its event (`AppendEvent`, or
`AppendCut` for an append cut short); the tailer polls, and publishes each batch and then a
cockpit frame; a page connects, hears a snapshot and frames in order, loses its connection and
comes back, and may ask for a frame over HTTP. `read.behind` is the tailer that began behind a
cut line. Properties: `NothingMissed`, a connected page has heard, has on its way or will be
read every event since its snapshot; `PagesCatchUp`, after the last fault a page is pushed the
frame of the records as they stay, provided the log can be read; so it is about kills, not about
appends cut short.

### Daemon (MCDaemon, Daemon_proofs)

Processes that become daemons (`Bind`, `LookAtLock`, `UnlinkLock`, `CreateLock`, `FillLock`,
`Listen`, then `StopHttp` … `Leave`) and terminals that type `start`, `start --foreground` and
`stop`; every system call is a step, and `Crash` may come between any two. Properties:
`ServingIsReachable`, a daemon that serves owns pidfile and socket; `StopLeavesNone`, a stop
that says nothing is left is right; `CommandsReturn`.

Assumed: one terminal in the run (two break things, section 9), so two starts never race for one
stale lock; a start never outlasts its 20 s; pids are not reused. A start that cannot listen gives
up its lock, its port and its process in one step (`CannotListen`, `daemon.ts:354-356`), so the
moment in which it still holds the port without a lock is missing, as is what `stop`'s `finally`
does after one of the steps before it threw.

### RawLogs (MCRawLogs; proved in Streams_proofs)

The `test_run` verb: runs over the shared `raw/` tree, each with two capture files its process
writes and a combined log, and the sweep after each (`Finish`) which spares what is registered
in `inFlightRawOutputPaths` and what is younger than the run. `Tick` is the clock, `Die` the
daemon. Properties, all proved: `PointerIsLive`, the log a run returns is there and whole;
`OlderSweepsSpareIt`, a sweep takes no log that had yet to be written when the sweeping run
started.

Assumed: mtimes have the granularity of `Date.now()`, a test's grandchildren do not outlive it,
and nobody else deletes files.

### Streams (MCStreams, Streams_proofs)

Creation, moves and archive with the parent checks as the code runs them; the tree the pages
draw; a thread that is appended to while it is read page by page, by `stream show` in two calls,
and by `read_stream`. Proved: `EveryStreamShown` (no set of streams is its own parents, so every
stream is drawn), `RecordsStayWritable`, `PagesReadWhole`, `ShowHasTheTail`.

### StreamPage (MCStreamPage; proved in Landing_proofs)

The stream page, one component that stays mounted while the operator moves between streams:
its payload, the reads and requests on their way, composer, session picker, refusal dialog and
Land panel. Proved: `WrittenWhereMade`, a line or session goes to the stream it was made on;
`DraftIsKept`; `ResultIsOwn`. The actions' error line is not modelled.

### Settings (MCSettings; proved in Cockpit_proofs)

The two files with session defaults, the rows of Settings screens with saves in flight, `repo
add` with its read before its write, edits by hand, and pickers from prefill to attach.
Proved: `SavedIsInFile`, `GetsWhatItNamed`, `UneditedIsDefault`. `addRepo` reads the registry
before its turn in the store's queue; only microtasks lie between, so that window is narrow.

## 4. Runs

Ids are model values, with symmetry where only safety is checked and they are
interchangeable. Deadlock is not checked except where noted: ids and bounds run out, and a
closed stream, a finished session or a stopped daemon may rest.

| Run | Instance | Why it is enough |
|---|---|---|
| `Sessions_turns` | a worker, a reviewer, 1 question, 1 gate, 1 line, 1 crash or stop | turns against answers, decisions, lines, detach and exit; beside the brief three prompts can wait behind a running one |
| `Sessions_life` | 2 workers, a retro, 1 question, failed spawns, fairness | two first attaches race for one branch; liveness. `OneLivePerRole` and `ImplementsSlots` are checked here without outages and proved with any number |
| `Landing` | 3 calls, 2 commits that conflict, both gate settings, a checkout, crashes | an approval raised by one call, spent by a second, looked for by a third |
| `Gates` | 2 sessions, 1 call, 3 attempts of which 2 at once, 2 gates, a tick, 2 texts for one of the gates, with and without a delegate | raise, answer, retry takes three attempts if another raced the retry; two gates let a tick wait for one while it has listed another; two texts are one to replace and one to stay |
| `Verdicts` | every shape of word and command the tables tell apart, alone and combined, both roles, every subset of the rules | single atoms, chains of two, pipes and scripts; a longer chain is folded the same way |
| `Permissions` | a worker and a reviewer on one worktree, a call for each tier, 1 pattern rule and 2 classifier rules | a call that carries no name can be taken for the other's; each tier decides some call |
| `Daemon` | 4 processes, 2 ports, 1 terminal, crashes at any point | a start that crashed, one that lost its port, one that was stopped, and one more |
| `Feed` | 2 records, 1 page, snapshots of 2 lines, 3 writes, 2 faults, 1 refresh | a log longer than a snapshot; a cut line and a broken connection, in either order. Pages share nothing |
| `Acp` | 2 turns, providers with and without mode and login, 3 updates, chunks of 1 and 2, lines of 2, replies of 3 | a late answer needs a turn before and a turn behind; three updates end one message and begin another, or overrun a line, and the clamp of the reply |
| `Cockpit` | 4 rule ids, 2 built-in kinds, 1 decision to seed, 2 streams, 2 firings, 1 fault, 3 acts | both built-ins, the seed and one rule of an agent's; the screen's stale list takes a load and two acts; one firing is flushed while the other comes |
| `HookCalls` | 2 retries of one guarded call, 3 notes of which 1 fits, Claude and Pi, 2 yeses, 2 deaths | one retry may hold the yes another is waiting for; two notes behind one that fits |
| `ClassifierTier` | 1 hook call, 1 land of a diff of up to two files, 2 rules (one critical), 1 edit, 1 fault | what one file's answer, another file's failure and a change between them make of each rule; any of the requests may be cut |

Four configurations are kept for the modules whose properties are proved. They check the
invariants the proofs start from, and are not among the runs of `PROJECT.json`, since the
theorems say more:

| Configuration | Instance |
|---|---|
| `RawLogs.cfg` | 2 runs, budget 1, output 1, 3 ticks, 1 death: 1.3 million states |
| `StreamPage.cfg` | 2 streams, 1 read at a time, 2 requests, 1 change: 3.0 million states |
| `Streams.cfg` | 3 streams, 5 writes, 5 lines, pages of 0 and 2: 3.5 million states |
| `Settings.cfg` | 1 repo, 1 screen, 1 picker, 1 edit: 164 363 states, with deadlock checked |

Each property of a run has a mutant in `PROJECT.json`: a plausible bug of the code, written
beside the definition it replaces, under which that run must fail. `TypeOK` of every module
(and `AcceptedIsEvaluable` and `TreeHasNoCycle` of Rules) holds in these instances too; it is
not listed with the runs, and where a proof needs it, it is proved.

## 5. Fairness

All of it is weak.

* Sessions, per session. `StoppedExits`: `close()` sends SIGTERM and arms a timer that sends
  SIGKILL (acp-client/src/session.ts:516-527), so a stopped process exits. `GitAnswers`: a
  git child process ends, well or badly. `VendorAnswers`: session/new and a prompt are
  answered; this is an assumption about the vendor, since the runner has no time limit of its
  own on a turn. Nothing is assumed of the human, of attaching, or of a process nobody
  stopped.
* Acp. The daemon's own steps: the first registry write, the runner's turns, taking what is
  in the pipe, the promises, the handshake's time limit, the SIGKILL timer, and the kernel's:
  a killed process exits and the exit is seen. Nothing is assumed of the agent.
* Daemon. Each process and each terminal goes on with its next system call; nothing is
  assumed of crashes or of what is typed.
* Feed. The event loop goes on with what it began, the poll is a timer, a page reconnects
  and is served.
* StreamPage. Frames and reads come in; none of its proofs uses it.

## 6. Proofs

Eight modules hold the proofs of fifteen; five of them prove two each and one three, which share
no variable. Each proof has an inductive invariant, some several, and theorems drawn from it.
Constants are arbitrary but for the named assumptions of the modules, which TLC evaluates on each
run: ids and marks for "none" are apart, bounds are naturals, built-in kinds and texts are wordings
of rules, requests have the shape their readers give them. Every safety property of a run is the
conclusion of a theorem; the theorems that need more than the assumptions say so.

| Module | Proves |
|---|---|
| `Sessions_proofs`, `Gates_proofs` | Sessions with Slots, Gates with Permits |
| `Permissions_proofs` | Permissions over Policy, Acp |
| `Landing_proofs` | Landing, StreamPage |
| `HookCalls_proofs` | HookCalls, ClassifierTier |
| `Cockpit_proofs` | Cockpit over Rules, Settings |
| `Daemon_proofs` | Daemon, Feed |
| `Streams_proofs` | Streams, RawLogs, Verdicts over Policy and Commands |

### Sessions

`Sessions_proofs` proves for all constants that satisfy `SessionsAssumption`: any number of
sessions, questions, gates and lines, any bounds.

* `TypeCorrect`: `TypeOK`, inductive as it stands.
* `OneLive`: `OneLivePerRole`. It is not inductive: an attach that waits for git records its
  session without looking again. `SlotInv` adds why that is safe. Only an attach that saw no
  worktree waits; while no worktree is recorded, no worker is (`WorkersFollowWorktree`);
  once it is, the branch belongs to an attach that is over (`ClaimsArePending`), so no
  waiting one can hold it; and a session the runner still runs is tracked and recorded as
  live (`HandlesAreLive`, `RunnersAreTracked`, `SlotsHoldTheirRole`), so an exit ends the
  one it should. `SlotsHold` is that invariant.
* `EndIsFinal`: `EndedStaysEnded`, from the same invariant.
* `Refinement`: `ImplementsSlots`. Each step keeps, takes or leaves each slot.
* `QueuesHold`, and from it `QuietSessionsWait` (`QuietMeansWaiting`), `MarkersAreTheQueue`
  (`MarkersMatchQueue`) and `LettingGoLosesNothing` (`TurnEndLosesNothing`). None of the three is
  inductive. `QueueInv` adds, per session, that an opening one has its brief and is recorded as
  running, so the first turn finds it so; that a finishing one has an empty queue; that one not
  recorded yet has no marker; and that a line is in a queue once and only after it was said, so
  the turn that starts takes away exactly its own marker.
* `RecordsAgree`: `RecordAgreesWithHandles`, from `SlotInv` and `AgreeInv`: as long as no outage
  was counted, what is recorded as live runs, and a daemon that is stopping has been counted.
* `DetachStarts`: `DetachStartsNothing`. What is being detached is recorded
  (`DetachingRecorded`), so its end is not the start of another session, and `AutoReviewers` is
  empty for it.

The argument goes by a few lemmas on what the building blocks `Begin`, `Finish` and
`StopSessions` change, and then one case per action.

### Landing and the stream page

`Landing_proofs` proves, for any calls, commits, conflicts and settings, `TypeCorrect`,
`LandedStays`, `OneLandPerAnswer` and `NoRewind` from one invariant `Inv`. `LoopIsHeld`: the
loop belongs to the one call that runs, so at most one is in the merge. `GatesAgree`: a gate's
call has ended, and a spent approval stays spent. `DiffTravels` follows the diff a call read
from the branch into the merge commit and onto the target; with the compare-and-swap of
`update-ref` it gives that the target only grows, except for the reset of a checkout, which
keeps everything landed. `MergesWhatWasShown` proves `ApprovedIsMerged` under
`OutsideCommits = FALSE`; `ShownIsKept` adds that from the spending to the update of the ref no
worker is live, so the branch stands still, and that what the operator adds to the target is
never part of the diff.

Of StreamPage, for any streams, reads and requests: `WrittenWhereMadeAlways`,
`DraftIsKeptAlways`, `ResultIsOwnAlways`. What the page remembers of a stream was put there
while that stream was open, and leaving it resets it; a result is dropped unless the panel
still waits for its request.

### Gates

`Gates_proofs` proves, for any sessions, calls, attempts in flight, ticks and bounds,
`TypeCorrect`, `OnceNotStanding`, `ApprovalFitsCall`, `DelegateInItsPlace` and `AnswerStands`
from one invariant `Inv`. `OneCallPerAnswer` needs `Credit`: a gate that is answered and not
spent has an answer left. A tick may mark a spent gate as unspent, but only with a new answer.
`Chosen` says what an attempt knows of the approval it is about to spend: the gate it found
fits its call, was answered and stays answered, since gates change in no other way (`Keeps`).
`Awaited` says for which gates a delegate is asked.

`NoteIsHeard` is not inductive, and not true of all bounds. `OnTheWay` follows the last text: it is
on its record while the gate waits (`NotesKept`), is with the decision, whose announcement may be cut
off, and then in a message (`NotesSaid`); nothing else is ever said about a gate than what was written
on it last (`SaidFaithfully`), since a decided gate takes no more text; and of the messages about a
gate one is unread or was put before its agent (`InReach`). The step that could lose it is the ack,
where a call moves all it found in the inbox to `done/` and shows what fits: `NotesFit` asks that one
message about each gate fits. `NotesThatFitAreHeard` proves `NoteIsHeard` of the behaviours where that
holds throughout, whatever else happens. The other two say when it does. `OneNoteIsHeard`: texts on
one gate at most; a delegate's late answer may send the note twice, but both messages are about that
gate. `WithoutDelegateNotesAreHeard`: no delegate (the shipped daemon wires none), and a context with
room for one message of each gate that is written on; each gate is then decided once (`SentOnce`), so
there are no more messages than such gates (`Noted` counts them). With a delegate, texts on two gates
and room for two messages, TLC refutes it (section 9).

`Refinement` is `ImplementsPermits`. `Permitting` is what it needs beside `Inv`: a call at rest is
about nothing and one in flight about something (`InFlight`), a gate that was raised waits or is
answered (`RaisedStand`), and without a delegate the approval a call is about to spend is one still
(`YesStands`), because nobody else answers twice. `HookGoes` sorts what a call's step may do into
five kinds (it begins, looks, asks, uses an approval, ends) and `GateGoes` every other step into an
answer, an answer over another, or neither; `PermitStep` maps each to its step of Permits or to none.

### Permissions

`Permissions_proofs`, for any sessions, rules, payloads, requests and worlds: `AlwaysJudgedAsItself`,
`AlwaysEnforcedThroughout`, `RemovedAlwaysStaysRemoved` and `PermissionsAreTyped`. `CallIsKept`
follows one call: until it is over it has a session, the rules accepted throughout only shrink, and
between the tiers each of them was looked at by the pattern pass or is one of `StillToAsk`, the
rules without a pattern, which the classifier is asked. About the policy the proof needs two
facts: every part of a command has a verdict, and a call is allowed only after a pass in which no
rule denied, which has looked at every rule it was handed (`DecidedByPolicy`, `DecidedAtHook`).
`RemovedStaysRemoved` rests on `RunningIsListed`: a running process has its record, so its refresh
brings none back.

### The ACP client and the runner

The same module proves of Acp, for any turns, providers, updates and number of updates, and
whatever the agent answers, floods, fails or dies at: `AcpTypeCorrect`, `EveryReplyIsItsTurns`
(`RepliesAreOwn`), `NoTurnBeforeItsMode` (`PromptedInMode`) and `RepliesAreWritten`
(`ReplyIsWritten`), for any lengths and caps. None is inductive; the invariant is `AcpInv`.

* The replies. A turn's answer settles whatever is in the slot, so it must be shown that no other
  turn's can be on its way: `OneAbroad` says that only the turn the runner has sent is with the
  agent or on its way back, or the session is settled and no turn will be sent again. `InOnePlace`
  has each turn in one place once, `ComesAsTold` its answer as it was given. A flood settles the
  slot before the answer of its turn is read; `UpdatesFirst` (the pipe is in order) and
  `SettledIsOver` (the runner settles as it gives up) say that nobody takes that answer then.
* The mode. `ModeFirst`: from the first prompt on, a turn is sent after the whole opening, since the
  brief is queued before any other turn and `stage` comes back to idle only with the mode set, the
  session over, or the opening still to begin. `HelloFirst` and `DueIsAwaited` say what can be asked
  meanwhile.
* The reply. `SameCut`: while a turn is sent, client and runner are both silent, or both inside the
  same message or past its end; then (`Spoken`) the fold is the clamp of what the log has and the
  buffer still holds, however many lines the message was written in, and as long as it fits in one
  it was not cut.

The steps are first reduced to a few moves of each part (`StepMoves` for the turn, `PendingMoves`
for the requests, `SaysMoves` and `AskMoves` for the pipes); each part of the invariant is kept by
those. `RepliesAreWritten` has `"plan" \notin Update` as its hypothesis (section 9).

### Hook calls and the classifier

`HookCalls_proofs`, under `HookCallsAssumption`, for any calls, notes, vendors and deaths:
`TypeCorrect`, `GuardedRunsOnAYes` (`EachRunHasItsYes`), `HandlersHaveCallers`, `CopiesAreLeft`
(`NotesLeaveCopies`) and `NotesGoWithCallers` (`LostOnlyWithCaller`). For the yes, `Guard` says
that an answer that lets a guarded call run was paid for with a yes, and `Counted` that no more
were spent than given. `Waiters` ties a handler to a caller that waits or gave up, so an answer
to nobody runs nothing. `Moving` says that the note being acked is the oldest of those to ack
and is already in `done`, which is why a death repeats a note and never drops it. For the lost
notes, `Lost` says that a note with no file but in `done` was heard or has its excuse, and
`Keeps` that no step takes an excuse away before the note is heard: a handler that is acking
stays one until its caller is known to be gone or hears what fits. `Shown` says that Pi's own
acks are of notes it showed, or that did not fit.

Of ClassifierTier, for any rules, calls, files of a diff, edits and faults:
`PassedIsAlwaysChecked` and `BlameIsAlwaysFair`. `RepliesCounted` ties the number of answers to the
step a call is at; `WorstIsKept` says that what is kept of them is, for each rule asked, the worst
that came, so that one bad file is enough for the verdict however many follow. Both are about what
was sent: `cut` is arbitrary and no step looks at it.

### Streams, test runs and verdicts

`Streams_proofs`, under `StreamsAssumption`: `EveryStreamShownAlways`,
`RecordsStayWritableAlways`, `PagesReadWholeAlways`, `ShowHasTheTailAlways`. `NoKnot`, no
non-empty set of streams is closed under parents, is inductive although a move checks only the
new parent's chain: a knot the move closed would hold the moved stream, and then its new parent
is below it. A parent check never refuses a record that stands, because a refusal would show
such a knot. Threads only grow, so what a page has shown stays a prefix.

Of RawLogs, for any runs, budget, outputs and deaths: `PointersAreLive` and
`OlderSweepsSpareThem`. Until it has returned, what a run has on disk is registered, and a
sweep spares what is registered, so the log grows by exactly what was captured; a run that had
yet to combine its log when another started gives it a time stamp no earlier than that start,
and a sweep spares those.

Of Verdicts, under `VerdictsAssumption`, for any rules, requests, payloads, worlds and tables of
words: `RulesOnlyEverRestrict`, `TiersAlwaysAgree` and `ChainsAreNoLooser`. The invariant is that
what is recorded of a call is what the policy answers to it (`RecordIsDecision`); the rest is about
the policy. `AllowedExactly` and `DecidedExactly` say when it allows: the role's table does, and none
of the rules denies (`PassDenies`), whichever comes first. The first two theorems follow, the second
since both tiers read the same command and path out of a call. The third says that a part of a chain,
taken alone, is read no worse than within it, however long the chain. Its argument has three parts:

* What a fold over a list computes. No induction scheme can be instantiated here (section 7), so
  each is written out as a function from a count of items to what was gathered, which exists and is
  stepwise (`FoldIsStepwise`), and what holds of it up to a count is shown by the smallest count
  where it would not (`UpTo`, from `SmallestPlace`).
* The atoms of a part are atoms of the command (`PartsAtoms`): the same words, only that a first
  part is not behind a pipe, which can take a refusal away and never adds one (`PartDeniedLess`).
* A command that is allowed as harmless, where every atom is, has parts that are
  (`PartsAreAllowed`). A merge is the exception `ChainIsNoLooser` names: it is judged by the branch
  that is checked out when it runs, so alone it may be refused.

### Rules, the cockpit and the settings

`Cockpit_proofs`, for any rules, kinds, texts, streams, lists and bounds: `CountersAreKept`,
`BuiltinsAlwaysStandOnce`, `BulkAlwaysDoesWhatItSays`, `SeedsAlwaysOnce`, `AcceptedAlwaysEvaluable`
and `RulesAreTyped`. The thirty actions of the clients and the daemon do one of three things to the
records (`RuleSteps`): keep them, create one, or change one; what a creation and a change may do is
`Created` and `Changed`. None of the properties is inductive. `CountsAreKept` needs that nothing is
pending or being flushed in a daemon that does not serve (`NothingPending`); what a flush takes from
memory it has still to write (`TakenIsKept`), and each write moves a rule's counters to the file or
drops them (`FlushedIsKept`). `BulkDoesWhatItSays` needs `BulkAddsUp`: what was shown is
what is left, decided and failed. `SeedsOnce` needs that a running seed knows every text that was
proposed (`SeedKnows`), and since a form saves every field as it was when it was opened, that an old
list or form says of a rule's text what it still says or what was marked as reworded (`OldLists`,
`OldForm`). `BuiltinsStandOnce` holds under `~BuiltinEdits` (section 9 has what happens otherwise)
and needs that none of a missing kind is there before it is written (`BuiltinsAreThere`).

Of Settings, under `NamesApart` (the marks for "none" are not values): `SavesStand`,
`PickersAreObeyed`, `DefaultsComeBack`. The last one is that the order of resolution is
idempotent: what a picker was filled with, sent back as flags, resolves to itself.

### The daemon and its feed

`Daemon_proofs`, for any number of processes and ports, with a crash between any two system calls:
`ServingIsAlwaysReachable` and `StopAlwaysLeavesNone`. They are about one terminal, `Command = {t}`;
with two they are false (section 9). `Owned` is the invariant: from create to release the pidfile is its owner's
(`OwnersAreNamed`), nobody else but a dead process is named (`NamedWasOwner`), who unlinks or creates
takes the lock from nobody (`TakenFromNobody`). That last one is where the lock alone is not enough
(a pidfile with no pid in it yet reads as stale): it holds because a process on its way to its pid
has the terminal waiting for it (`EarlyIsAwaited`), and because the terminal starts another only when
all are over (`TerminalKnows`). `DaemonIsTyped` holds for any number of terminals.

Of Feed, for any records, pages, snapshots, writes, kills, cut appends and broken connections:
`NothingIsEverMissed` and `FeedIsTyped`. `HeardOrComing` is the property made inductive: an event a
connected page should know is not read yet, is in a frame on its way, or was heard with no snapshot
behind it that would replace what was heard; `OfTheLog` says that a snapshot comes first on its wire
and that frames are of lines there are. A batch goes to each subscriber with every line that parses,
and a page subscribes before its snapshot is read from the file, so an event may come twice and never
not at all.

## 7. What is only model-checked

* Every liveness property: `SessionsComeToRest`, `StopsComplete`, `EndsWhole`,
  `CommandsReturn`, `PagesCatchUp`. TLAPS has no fairness and no ENABLED here.
* Of Commands: that the recursive functions over the words of one command (git's subcommand behind
  its options, prefixes) compute what one would expect. That would be an induction over data, whose
  theorems in the library the installed provers cannot instantiate; the proofs about Verdicts hold
  whatever they say of a word.
* Of Acp: `ReplyIsWritten` where an agent sends plans. There it fails (section 9), and the theorem and
  the run leave them out.
* `TreeHasNoCycle` of Rules, which follows the chain of a stream with a recursive function; of the
  stream tree itself, Streams proves that no knot is closed.
* The definitions of section 9, which TLC refutes.

## 8. What is not modelled

* Sandbox command lines, document reads, schema validation, rendering, the pruning report and
  evals: functions of their arguments and the disk.
* The diff and preflight reads of landing, `status`, `gate list` and the other single calls of
  the CLI and the page: the environment of the models makes the writes such calls lead to.
* `session/load`, the replay ring and file-system requests of the ACP client, and
  `resolveHil`: nothing in the daemon calls them.
* The retro's quota of three proposals, and the pi extension's distillation of large results.
* `trip` and `clear` of the gates' breaker, which only write the file `request` reads.
* The smaller gaps named with each module in section 3: the chained marker writes of a line
  (Sessions), list and consume of a land's approval (Landing), the last steps of a start that cannot
  listen and two starts at once (Daemon), `--fail-open` (HookCalls), white space and unwritable
  threads (Acp), the length of a note (Gates).
* Temp files, fsync and renames of the store below "a record is replaced whole". A rename is
  atomic; durability over a power cut is the file system's.
* Fixtures, `vendor/` and `spike/` are not part of the running system.

## 9. Where the code and its documents disagree

Each of these is a definition of its module that TLC refutes; the constants to reproduce it
are those of the run named, changed as said.

Sessions and inbox
* `OneWorkerProcess`: `design/cockpit-design.md` says one live worker at a time. Detach
  settles a session in a turn at once, its process dies later, and an attach in between starts
  a second worker in the same worktree. (Session {w1, w2, r1}, no gate or line.)
* `BusyMeansStoppable`: an attach that completes while the daemon is stopping leaves a session
  recorded as live that no later daemon can stop. (The same, MaxOutages 1.)
* `WaitingIsListed`: the inbox is everything that waits for the human (`inbox/service.ts:2`).
  A stream may say `waiting_on_you` with no item, when its question is superseded, or idle on
  a gate that was approved and never retried (`attach/service.ts:427-443`). (`Sessions_turns`
  with Session {w1}, no line, no outage.)
* `WorkingIsWorked`: a reviewer asks and is answered, and the stream is `working` with no
  worker (`design/cockpit-design.md:616`). (`Sessions_turns` without line, gate or outage.)

Landing and gates
* `LandableWhenMerged`: `land` requires a landable stream without a live worker "before
  landing touches git", but checks it before it waits for the classifier and not after. (2 calls.)
* `OperatorKeepsWork`: a target that moved is never overwritten by the update of the ref,
  but may be by the `reset --hard` of a checkout read as clean before it. (2 calls.)
* `YesLetsThrough`: the human's yes "lets exactly that call through once", but a call
  allowed by it after the policy tier goes on to the classifier tier, which may deny it or
  route it again with the approval already spent. (Delegates {FALSE}.)
* `HumanAnswerStands`: a delegate's decision is persisted "unless a human answered first";
  `tick` asks the delegate and writes its decision over the human's answer. (2 ticks,
  Delegates {TRUE}.)
* A gate that was denied may still let a call through: the call found it approved, the delegate a
  tick had asked answers with a denial, and `consume` "decides" by a read of its own
  (`gates/service.ts:491`), but asks it for `consumed_at` only. (`ImplementsPermits`, without the second
  alternative of `Let`'s guard, Delegates {TRUE}.)
* A note that is not heard, although "the waiting agent hears it once the gate is decided"
  (`gates/service.ts:408`), in four ways. A later text replaces it on the record before the gate is
  decided (`gates/service.ts:401`, `:417`): `EachTextIsHeard`. The daemon is killed, or the event
  cannot be written, after the decision and before the message; nothing sends it later
  (`NoteIsHeard` without `cut`). A long one is cut at `MESSAGE_BODY_MAX_CHARS` (not in the model). And
  with several notes, messages that do not fit a call's context are acked with the others, while
  a delegate's late decision sends a note a second time, which takes the place of another's:
  `NoteIsHeard` with Delegates {TRUE}, Session {s1}, Call {c1, c2}, Text {x1}, ContextCap 2,
  MaxNoted 2.

Hook, permissions, classifier
* `PatternRulesAlwaysDeny`: a call the policy tier routes is not held against the pattern rules,
  so a human's yes lets it through although one of them matches. `NeverJudgedAsAnother`: a call
  that names a session without a record is judged as the only live one of its worktree, although
  "Role comes from the record, never inferred" (`hook/service.ts:8`). (`Permissions`.)
* `AckedIsHeard`: "the waiting agent hears it once the gate is decided" (`gates/service.ts:408`);
  not if its caller stopped waiting while the handler acked. `YesIsUsed`: a yes may be spent by
  a call whose caller has blocked it. `LetGoIsGone`: a heartbeat that arrives after the
  unregister leaves a bare record, though "an unregistered agent throws". (`HookCalls`.)
* `OneBadFileIsBad`: "One bad file makes the whole diff bad" (`landing/diff-rules.ts:193`); if a
  later file's request fails, the answers already there are thrown away and a rule that is not
  critical passes unchecked. `DeniersAreBlamed`: of two rules that deny a hook call the second is
  counted as fired, of a land as violated (`diff-rules.ts:159`). `RefusedIsUnsaved`: "Could not save
  the classifier key" (`http.ts:432`), yet it is in the file. (`ClassifierTier`.)
* `PassedIsJudgedWhole`: a file of a diff over the classifier's budget, and a command or edit over the
  hook's, is asked about by its first part only ("a prefix still answers for what fits",
  `landing/diff-rules.ts:80`). What passes so passes as judged: no line on the thread tells of the
  cut, as it does of a rule that was not checked. (`ClassifierTier`.)
* The hook asks the classifier about rules of every stage (`rules/service.ts:93`). The
  classifier's time limit ends before the body of the answer is read. Rules that an outage left
  unchecked are counted as fired, so a report's "never violated" may come from outages.
* A custom MCP tool that edits is not path-checked by the hook's pattern rules but is over ACP;
  `npx cow ; foo` is routed where `foo` alone is denied.

Rules
* `GlobalRulesBind`: an accepted global rule binds every stream. `stream.update` takes a parent
  that has no record; `ancestorsOf` then throws below it, the hook catches, and no rule binds. One
  rule file that cannot be read does the same for every stream. (`Cockpit`.)
* `BuiltinsStandOnce` with BuiltinEdits TRUE: a built-in given another pattern kind is created
  again at the next start (`rules/builtins.ts:8`). Two starts, or two seeds, at once do too.
* A save of the rules editor has no version check, nor has accept; a list that comes late may
  replace a newer one. A firing recorded after a stop's last flush is lost, as are a rule's counters
  when their write fails. "Every rule, with pending counters merged in" (`rules/service.ts:267`)
  shows too few while a flush has taken them and not yet written them.

Daemon and feed
* `StopSparesTheNext`: "don't clobber a lock another process now holds" (`lock.ts`): a stop that
  has seen its daemon go removes a pidfile that a next daemon has just taken. (2 processes, 1
  port, 2 terminals.) With two terminals `ServingIsReachable` and `StopLeavesNone` fail as well: a
  start that saw no daemon clears the pidfile another's daemon has filled by then, and a stop sees
  none while a daemon is on its way to its pid.
* `ShownCatchesUp`: the answer of `GET /api/cockpit` may overwrite a newer pushed frame and stand
  until the next change. (`Feed`, 2 writes, no fault.) A torn line in the log makes the snapshot
  of every later connection throw; one in a thread makes the thread unreadable.

Agents
* `BriefIsHeard`: if the first registry write fails the brief is never sent and the session
  stays. (`Acp`, MaxUpdates 0.) `plan` and `session_info_update` end the runner's message and
  not the client's fold; a `set_mode` refused with -32000 passes for a missing login; a
  handshake that times out with no turn in flight leaves the session open.

Test runs, streams, pages, settings
* `OverlapSparesIt`, `OverBudgetIsOwn` (`tools/test-run.ts:446`, `:61`): a log returned while another
  run was going on may fall to a third's sweep, and a run may be told its log is over the budget
  when its neighbours' are. (`RawLogs.cfg`.)
* `ReadStreamIsNewest` (`verbs.ts:119`): `read_stream` takes the last lines of the first page of a
  long thread. (`Streams.cfg`, 1 stream, 2 lines.)
* `ForcedAsRefused`: the dialog's "attach anyway" forces what is refused now, not what it told.
  `ShowsTheNewest`: two reads may be answered out of order (MaxLoads 2, MaxActs 0). `OneLand`: the
  Land button can be pressed twice (1 stream, MaxActs 3). (`StreamPage.cfg`.)
* `SavedIsShown`: a row edited during its save shows `saved` over unsaved text. `SavedIsResolved`:
  the answers of two saves may come out of order (no picker, MaxEdits 2). `SaveKeepsTheRest`: a save
  sends all three fields as the row first had them (no picker). `AddIsAdditive` (`store/store.ts:609`):
  `repo add` may write back what another changed, and replaces an entry it finds (2 repos, no
  screen, MaxEdits 2). `StartIsDefault`: an untouched picker attaches what the default was (no
  screen, MaxEdits 2). (`Settings.cfg`.)
* Defaults resolve field by field, so a home's model named for one vendor goes with a repo's other
  vendor; a vendor the picker does not know is shown as its first option and sent as it is.

## 10. What could be added

* `Permits` in place of the gates that Landing, Sessions and HookCalls have of their own.
* Two daemons on one home in Rules, and the retro's quota.
