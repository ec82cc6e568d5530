------------------------------- MODULE HookCalls -------------------------------
(* One session's tool calls on their way to the daemon and back: the `agile hook`
   process Claude runs, or the extension inside Pi, the JSON-RPC socket between
   them, the daemon's handler, and the session's inbox whose notes ride on the
   answers.  The caller stops waiting after two (CLI) or five (Pi) seconds, closes
   its socket and blocks the call; the handler, which may wait up to 25 seconds for
   the classifier, runs on.  The daemon may die and start again.  What the verdict
   of a call is is Policy's affair, and who makes it Permissions'; how a gate comes
   to be decided is Gates'.  Notes are the only messages anything sends a session
   (gates/service.ts:452), so the urgent and low ones of the hook are left out. *)
EXTENDS Naturals, FiniteSets, FiniteSetsExt

CONSTANTS
  Vendors,     \* a subset of {"claude", "pi"}: how the session is hooked
  Note,        \* the notes that may be put in its inbox, numbered in send order
  Call,        \* its tool calls
  Guarded,     \* those that need a human's yes, retries of one command
  ContextCap,  \* how many notes one answer's context holds: one at least, so a note longer
               \* than the whole context is left out
  MaxYes,      \* how often the human says yes
  MaxDeaths,   \* how often the daemon dies
  NoNote

ASSUME HookCallsAssumption ==
  /\ Vendors \subseteq {"claude", "pi"} /\ Vendors # {}
  /\ Note \subseteq Nat /\ NoNote \notin Note
  /\ Guarded \subseteq Call
  /\ ContextCap \in Nat \ {0} /\ {MaxYes, MaxDeaths} \subseteq Nat

VARIABLES
  vendor, alive,  \* the session: its vendor, and whether its process runs
  registry,       \* its agent record: "full", "bare" (a heartbeat's), or "none"
  up, deaths,     \* whether the daemon runs, and how often it died
  file,           \* where each note has a file: in "inbox", in "done"
  heard,          \* the notes whose text was put before the model
  client,         \* what the vendor's side of each call does
  late,           \* calls whose caller stopped waiting, or got an error
  handler,        \* what the daemon's side does
  verdict,        \* the handler's decision
  carries, todo,  \* the notes a handler took along, and those it must still ack
  moving,         \* the note it has copied to `done` and not yet deleted
  gate,           \* the call's gate: "none", "pending", "approved" or "denied"
  yeses, spent,   \* how often the human said yes, and the calls that used a yes
  acks, beat      \* Pi: `bus.ack` requests, and a `bus.heartbeat`, on their way

session == <<vendor, alive, registry>>
daemon == <<up, deaths>>
inbox == <<file, heard>>
caller == <<client, late>>
server == <<handler, verdict, carries, todo, moving>>
approval == <<gate, yeses, spent>>
pi == <<acks, beat>>
vars == <<session, daemon, inbox, caller, server, approval, pi>>

Init ==
  /\ vendor \in Vendors /\ alive = TRUE /\ registry = "full"
  /\ up = TRUE /\ deaths = 0
  /\ file = [n \in Note |-> {}] /\ heard = {}
  /\ client = [c \in Call |-> "idle"] /\ late = {}
  /\ handler = [c \in Call |-> "none"] /\ verdict = [c \in Call |-> "none"]
  /\ carries = [c \in Call |-> {}] /\ todo = [c \in Call |-> {}]
  /\ moving = [c \in Call |-> NoNote]
  /\ gate = "none" /\ yeses = 0 /\ spent = {}
  /\ acks = {} /\ beat = FALSE

Busy == {"routing", "asking", "acking"}
Poll == {n \in Note : "inbox" \in file[n]}

\* The oldest notes that fit; the rest is dropped from the text.
Fitting(notes) == {n \in notes : Cardinality({k \in notes : k <= n}) <= ContextCap}
formatInboxMessage(notes) == Fitting(notes)

-------------------------------------------------------------------------------
(* The vendor's side *)

\* The vendor is about to run a tool and asks.  A daemon that is not there is
\* answered for: the CLI prints a deny (or is missing: exit 2), the extension blocks.
Request(c) ==
  /\ alive /\ client[c] = "idle"
  /\ IF up
     THEN /\ client' = [client EXCEPT ![c] = "waiting"]
          /\ handler' = [handler EXCEPT ![c] = "sent"]
     ELSE client' = [client EXCEPT ![c] = "blocked"] /\ UNCHANGED handler
  /\ UNCHANGED <<session, daemon, inbox, late, verdict, carries, todo, moving, approval, pi>>

runHook(c) == vendor = "claude" /\ Request(c)
ToolCallHandler(c) == vendor = "pi" /\ Request(c)

\* Mutant: a call nobody answered goes ahead.
GiveUpOpen(c) ==
  /\ client[c] = "waiting"
  /\ client' = [client EXCEPT ![c] = "ran"] /\ late' = late \cup {c}
  /\ UNCHANGED <<session, daemon, inbox, server, approval, pi>>

\* callRpc's timer: the socket is destroyed and the call blocked.
GiveUp(c) ==
  /\ client[c] = "waiting"
  /\ client' = [client EXCEPT ![c] = "blocked"] /\ late' = late \cup {c}
  /\ UNCHANGED <<session, daemon, inbox, server, approval, pi>>

\* The verdict as the vendor understands it.
toolCallResult(v) == IF v = "allow" THEN "ran" ELSE "blocked"

\* Mutant: a deny is printed without its context.
ReceiveBare(c) ==
  IF client[c] = "waiting" /\ alive
  THEN /\ client' = [client EXCEPT ![c] = toolCallResult(verdict'[c])]
       /\ heard' = heard \cup IF verdict'[c] = "allow" THEN Fitting(carries[c]) ELSE {}
  ELSE UNCHANGED <<client, heard>>

\* An answer reaches a caller that still waits: the tool runs or does not, and the
\* notes in the answer are context for the model.
Receive(c) ==
  IF client[c] = "waiting" /\ alive
  THEN /\ client' = [client EXCEPT ![c] = toolCallResult(verdict'[c])]
       /\ heard' = heard \cup Fitting(carries[c])
  ELSE UNCHANGED <<client, heard>>

\* Before a turn Pi asks for the notes itself, shows what fits and acks them all,
\* each with a request it does not wait for.
BeforeAgentStart ==
  /\ vendor = "pi" /\ alive /\ up /\ Poll # {}
  /\ heard' = heard \cup formatInboxMessage(Poll)
  /\ acks' = acks \cup Poll
  /\ UNCHANGED <<session, daemon, file, caller, server, approval, beat>>

Heartbeat ==
  /\ vendor = "pi" /\ alive /\ up /\ ~beat /\ beat' = TRUE
  /\ UNCHANGED <<session, daemon, inbox, caller, server, approval, acks>>

\* The process ends; what it waited for ends with it.
Exit ==
  /\ alive /\ alive' = FALSE
  /\ client' = [c \in Call |-> IF client[c] = "waiting" THEN "blocked" ELSE client[c]]
  /\ late' = late \cup {c \in Call : client[c] = "waiting"}
  /\ UNCHANGED <<vendor, registry, daemon, inbox, server, approval, pi>>

-------------------------------------------------------------------------------
(* The daemon's side *)

\* preToolUse: the caller is looked up, the inbox polled (not for Pi, which has no
\* `additionalContext`), the verdict computed.  The guarded call goes to the
\* route band; the classifier is asked only about a call the tiers above allow.
Decide(c) ==
  /\ up /\ handler[c] = "sent"
  /\ IF registry = "full"
     THEN /\ LET taken == IF vendor = "claude" THEN Poll ELSE {} IN
               /\ carries' = [carries EXCEPT ![c] = taken]
               /\ todo' = [todo EXCEPT ![c] = taken]
          /\ \E v \in IF c \in Guarded THEN {"ask"} ELSE {"allow", "deny"} :
               /\ verdict' = [verdict EXCEPT ![c] = v]
               /\ handler' = [handler EXCEPT ![c] =
                    CASE v = "ask" -> "routing" [] v = "allow" -> "asking" [] OTHER -> "acking"]
     ELSE /\ verdict' = [verdict EXCEPT ![c] = "deny"]
          /\ handler' = [handler EXCEPT ![c] = "acking"]
          /\ UNCHANGED <<carries, todo>>
  /\ UNCHANGED <<session, daemon, inbox, caller, moving, approval, pi>>

\* The route band: a yes is used up by the call it lets through; without one the
\* call is denied, and a gate raised unless one is open.  A no stays the answer.
Route(c) ==
  /\ up /\ handler[c] = "routing"
  /\ IF gate = "approved"
     THEN /\ gate' = "none" /\ spent' = spent \cup {c}
          /\ verdict' = [verdict EXCEPT ![c] = "allow"]
          /\ handler' = [handler EXCEPT ![c] = "asking"]
     ELSE /\ gate' = IF gate = "none" THEN "pending" ELSE gate
          /\ UNCHANGED spent
          /\ verdict' = [verdict EXCEPT ![c] = "deny"]
          /\ handler' = [handler EXCEPT ![c] = "acking"]
  /\ UNCHANGED <<session, daemon, inbox, caller, carries, todo, moving, yeses, pi>>

\* The classifier answers, times out or has no rule in scope.
AskClassifier(c) ==
  /\ up /\ handler[c] = "asking"
  /\ \E v \in {"allow", "deny"} : verdict' = [verdict EXCEPT ![c] = v]
  /\ handler' = [handler EXCEPT ![c] = "acking"]
  /\ UNCHANGED <<session, daemon, inbox, caller, carries, todo, moving, approval, pi>>

\* Mutant: the inbox file is deleted first.
AckDeleteFirst(c) ==
  /\ up /\ handler[c] = "acking" /\ todo[c] # {}
  /\ LET n == Min(todo[c]) IN
     IF moving[c] = NoNote /\ "inbox" \in file[n]
     THEN /\ file' = [file EXCEPT ![n] = @ \ {"inbox"}]
          /\ moving' = [moving EXCEPT ![c] = n] /\ UNCHANGED todo
     ELSE /\ file' = [file EXCEPT ![n] = @ \cup {"done"}]
          /\ moving' = [moving EXCEPT ![c] = NoNote]
          /\ todo' = [todo EXCEPT ![c] = @ \ {n}]
  /\ UNCHANGED <<session, daemon, heard, caller, handler, verdict, carries, approval, pi>>

\* ackAll: note by note, `done` is written, then the inbox file deleted.  A note
\* another handler acked first needs neither.
Ack(c) ==
  /\ up /\ handler[c] = "acking" /\ todo[c] # {}
  /\ LET n == Min(todo[c]) IN
     IF moving[c] = NoNote /\ "inbox" \in file[n]
     THEN /\ file' = [file EXCEPT ![n] = @ \cup {"done"}]
          /\ moving' = [moving EXCEPT ![c] = n] /\ UNCHANGED todo
     ELSE /\ file' = [file EXCEPT ![n] = @ \ {"inbox"}]
          /\ moving' = [moving EXCEPT ![c] = NoNote]
          /\ todo' = [todo EXCEPT ![c] = @ \ {n}]
  /\ UNCHANGED <<session, daemon, heard, caller, handler, verdict, carries, approval, pi>>

\* An ack that throws is passed over; what it had written stays.
AckFails(c) ==
  /\ up /\ handler[c] = "acking" /\ todo[c] # {}
  /\ todo' = [todo EXCEPT ![c] = @ \ {Min(@)}]
  /\ moving' = [moving EXCEPT ![c] = NoNote]
  /\ UNCHANGED <<session, daemon, inbox, caller, handler, verdict, carries, approval, pi>>

\* The heartbeat, a gate or the log could not be written: the caller gets an error,
\* which blocks the call.
HandlerThrows(c) ==
  /\ up
  /\ handler[c] \in {"sent", "routing"} \/ (handler[c] = "acking" /\ todo[c] = {})
  /\ handler' = [handler EXCEPT ![c] = "done"]
  /\ client' = [client EXCEPT ![c] = IF @ = "waiting" THEN "blocked" ELSE @]
  /\ late' = late \cup {c}
  /\ UNCHANGED <<session, daemon, inbox, verdict, carries, todo, moving, approval, pi>>

\* The answer is written to the socket, if the socket is still there.
Answer(c) ==
  /\ up /\ handler[c] = "acking" /\ todo[c] = {}
  /\ handler' = [handler EXCEPT ![c] = "done"]
  /\ UNCHANGED <<verdict, carries, todo, moving>>
  /\ Receive(c)
  /\ UNCHANGED <<session, daemon, file, late, approval, pi>>

\* `bus.ack`, in two writes as above; Pi reads no answer.
AckForPi(n) ==
  /\ up /\ n \in acks
  /\ IF "inbox" \in file[n] /\ "done" \notin file[n]
     THEN file' = [file EXCEPT ![n] = @ \cup {"done"}] /\ UNCHANGED acks
     ELSE file' = [file EXCEPT ![n] = @ \ {"inbox"}] /\ acks' = acks \ {n}
  /\ UNCHANGED <<session, daemon, heard, caller, server, approval, beat>>

\* `bus.heartbeat` registers a sender it does not know.
BeatArrives ==
  /\ up /\ beat /\ beat' = FALSE
  /\ registry' = IF registry = "none" THEN "bare" ELSE registry
  /\ UNCHANGED <<vendor, alive, daemon, inbox, caller, server, approval, acks>>

\* The runner lets the session go, before its process ends or after.
Unregister ==
  /\ up /\ registry = "full" /\ registry' = "none"
  /\ UNCHANGED <<vendor, alive, daemon, inbox, caller, server, approval, pi>>

\* A note on a decided gate is put into the inbox of the agent that waits.
DeliverNote(n) ==
  /\ up /\ file[n] = {} /\ \A k \in Note : k < n => file[k] # {}
  /\ file' = [file EXCEPT ![n] = {"inbox"}]
  /\ UNCHANGED <<session, daemon, heard, caller, server, approval, pi>>

Approve ==
  /\ up /\ gate = "pending" /\ yeses < MaxYes
  /\ gate' = "approved" /\ yeses' = yeses + 1
  /\ UNCHANGED <<session, daemon, inbox, caller, server, spent, pi>>

Deny ==
  /\ up /\ gate = "pending" /\ gate' = "denied"
  /\ UNCHANGED <<session, daemon, inbox, caller, server, yeses, spent, pi>>

\* Its sockets close, so callers learn at once; requests on their way are lost, as
\* is what handlers were doing.  The session's processes outlive a killed daemon.
DaemonDies ==
  /\ up /\ deaths < MaxDeaths /\ up' = FALSE /\ deaths' = deaths + 1
  /\ client' = [c \in Call |-> IF client[c] = "waiting" THEN "blocked" ELSE client[c]]
  /\ late' = late \cup {c \in Call : client[c] = "waiting"}
  /\ handler' = [c \in Call |-> IF handler[c] \in Busy \cup {"sent"} THEN "done" ELSE handler[c]]
  /\ todo' = [c \in Call |-> {}] /\ moving' = [c \in Call |-> NoNote]
  /\ acks' = {} /\ beat' = FALSE
  /\ UNCHANGED <<session, inbox, verdict, carries, approval>>

DaemonStarts ==
  /\ ~up /\ up' = TRUE
  /\ UNCHANGED <<session, deaths, inbox, caller, server, approval, pi>>

-------------------------------------------------------------------------------

Next ==
  \/ \E c \in Call : \/ runHook(c) \/ ToolCallHandler(c) \/ GiveUp(c) \/ Decide(c) \/ Route(c)
                     \/ AskClassifier(c) \/ Ack(c) \/ AckFails(c) \/ HandlerThrows(c) \/ Answer(c)
  \/ \E n \in Note : AckForPi(n) \/ DeliverNote(n)
  \/ BeforeAgentStart \/ Heartbeat \/ BeatArrives \/ Exit \/ Unregister
  \/ Approve \/ Deny \/ DaemonDies \/ DaemonStarts

Spec == Init /\ [][Next]_vars

-------------------------------------------------------------------------------
(* Properties *)

TypeOK ==
  /\ vendor \in Vendors /\ alive \in BOOLEAN /\ registry \in {"full", "bare", "none"}
  /\ up \in BOOLEAN /\ deaths \in 0..MaxDeaths
  /\ file \in [Note -> SUBSET {"inbox", "done"}] /\ heard \in SUBSET Note
  /\ client \in [Call -> {"idle", "waiting", "ran", "blocked"}] /\ late \in SUBSET Call
  /\ handler \in [Call -> {"none", "sent", "done"} \cup Busy]
  /\ verdict \in [Call -> {"none", "allow", "deny", "ask"}]
  /\ carries \in [Call -> SUBSET Note] /\ todo \in [Call -> SUBSET Note]
  /\ moving \in [Call -> Note \cup {NoNote}]
  /\ gate \in {"none", "pending", "approved", "denied"} /\ yeses \in 0..MaxYes
  /\ spent \in SUBSET Call /\ acks \in SUBSET Note /\ beat \in BOOLEAN

\* cli hook.ts:17, "fail-closed": whatever times out, dies or retries, a guarded
\* call runs only on a yes of its own, and no yes opens two calls.
EachRunHasItsYes ==
  /\ \A c \in Guarded : client[c] = "ran" => c \in spent
  /\ Cardinality(spent) + (IF gate = "approved" THEN 1 ELSE 0) <= yeses

\* A note is lost only with a caller: one that left the inbox unheard was carried
\* by a call whose caller stopped waiting or got an error, or is still on its way in an answer, or
\* did not fit in the context it was acked for.
LostOnlyWithCaller ==
  \A n \in Note : file[n] = {"done"} /\ n \notin heard =>
    \/ \E c \in Call : n \in Fitting(carries[c]) /\ (c \in late \/ handler[c] = "acking")
    \/ \E c \in Call : n \in carries[c] \ Fitting(carries[c])
    \/ vendor = "pi" /\ \E k \in heard : k < n

\* A note stays in the inbox until its copy is in `done`: dying between the two
\* writes repeats it and never drops it.
NotesLeaveCopies == [][\A n \in Note : file[n] # {} => file'[n] # {}]_vars

-------------------------------------------------------------------------------
(* What the repository says and the code does not keep *)

\* gates/service.ts:408, "the waiting agent hears it once the gate is decided":
\* a note that left the inbox was heard.
AckedIsHeard ==
  \A n \in Note : file[n] = {"done"} =>
    n \in heard \/ \E c \in Call : n \in Fitting(carries[c]) /\ handler[c] = "acking"

\* route-band.ts: "the human's yes lets exactly that call through once".
YesIsUsed == \A c \in spent : handler[c] = "done" /\ verdict[c] = "allow" => client[c] = "ran"

\* store.ts heartbeat: "an unregistered agent throws": a session that was let go
\* has no record.
LetGoIsGone == registry # "bare"
===============================================================================
