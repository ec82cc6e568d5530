------------------------------ MODULE Daemon_proofs ------------------------------
(***************************************************************************)
(* What the daemon's life promises for any number of processes and ports,  *)
(* and that a page misses nothing it is told, for any records, pages, log  *)
(* lines, kills and cut appends. The terminal's promises need that one     *)
(* terminal starts and stops daemons: with two, TLC shows a start that saw *)
(* no daemon clear the pidfile of another's.                               *)
(***************************************************************************)
EXTENDS Daemon, Feed, FiniteSetTheorems, TLAPS

\* A process on its way to the lock, with the lock, and with nothing.
Early == {"open", "bound", "unlink", "create"}
Owning == {"fill", "locked", "serving", "closing", "unbound", "closed"}
Over == {"none", "released", "exited"}

\* The pidfile is its owner's from the create to the release.
OwnersAreNamed ==
  \A p \in Pid : proc[p] \in Owning => pidfile = [by |-> p, filled |-> proc[p] # "fill"]

\* ... and names nobody else but the dead.
NamedWasOwner == pidfile # None => proc[pidfile.by] \in Owning \cup {"exited"}

\* A process that has not come to its pid yet is waited for by a terminal.
EarlyIsAwaited ==
  \A p \in Pid : proc[p] \in Early \cup {"fill"} =>
    \E c \in Command : command[c].at \in {"start", "foreground"} /\ command[c].pid = p

\* Who takes the lock takes it from nobody.
TakenFromNobody ==
  \A p \in Pid : proc[p] \in {"unlink", "create"} => \A q \in Pid : proc[q] \notin Owning

\* What a terminal may rely on when it starts a daemon or says that none runs.
TerminalKnows ==
  \A c \in Command :
    /\ \/ command[c].at \in {"clear", "spawn", "nothing"}
       \/ command[c].at = "idle" /\ command[c].said \in {"stopped", "not running"}
       => \A p \in Pid : proc[p] \in Over
    /\ command[c].at \in {"start", "stop"} => \A p \in Pid \ {command[c].pid} : proc[p] \in Over

\* Who serves has the socket, and a terminal that waits waits for a process.
OwnSocket == \A p \in Pid : proc[p] = "serving" => socket = p
AwaitsSome == \A c \in Command : command[c].at \in {"start", "foreground", "stop"} => command[c].pid \in Pid

\* The lock is one process's at a time: because it is taken from nobody who lives, because a
\* process on its way to it has a terminal waiting, and because that terminal starts another
\* only when all are over.
Owned ==
  /\ OwnersAreNamed /\ NamedWasOwner /\ EarlyIsAwaited /\ TakenFromNobody
  /\ TerminalKnows /\ OwnSocket /\ AwaitsSome

\* The process p comes to a phase, and changes nothing but the files.
Comes(p, phase) ==
  /\ proc' = [proc EXCEPT ![p] = phase] /\ UNCHANGED <<port, command>>

\* A process ends, and gives the lock back or leaves it.
Ends(p) ==
  /\ Alive(p) /\ Comes(p, "exited") /\ Unbind(p) /\ UNCHANGED socket
  /\ pidfile' = pidfile \/ (proc[p] = "locked" /\ pidfile' = Released(p))

USE DEF Comes

LEMMA Phases ==
  ASSUME TypeOK, NEW p \in Pid, NEW phase, Comes(p, phase)
  PROVE \A q \in Pid : proc'[q] = IF q = p THEN phase ELSE proc[q]
  BY DEF TypeOK

LEMMA EndsKeeps ==
  ASSUME TypeOK, Owned, NEW p \in Pid, Ends(p)
  PROVE Owned'
<1>1. /\ \A q \in Pid : proc'[q] = IF q = p THEN "exited" ELSE proc[q]
      /\ command' = command /\ socket' = socket /\ proc[p] \notin {"none", "exited"}
      /\ pidfile' = pidfile \/ (proc[p] = "locked" /\ pidfile' = Released(p))
  BY Phases DEF Ends, Alive
<1>0. pidfile \in {None} \cup [by : Pid, filled : BOOLEAN] /\ None \notin Pid
  BY DaemonAssumption DEF TypeOK
<1> USE DEF Owned
<1>2. OwnersAreNamed'
  <2> SUFFICES ASSUME NEW q \in Pid, proc'[q] \in Owning
               PROVE pidfile' = [by |-> q, filled |-> proc'[q] # "fill"]
    BY DEF OwnersAreNamed
  <2>1. q # p /\ proc'[q] = proc[q] BY <1>1 DEF Owning
  <2>2. pidfile = [by |-> q, filled |-> proc[q] # "fill"] BY <2>1 DEF OwnersAreNamed
  <2>3. pidfile.by = q BY <2>2
  <2>4. pidfile # [by |-> p, filled |-> TRUE] BY <2>1, <2>3
  <2> QED BY <1>1, <2>1, <2>2, <2>4 DEF Released
<1>3. NamedWasOwner' BY <1>0, <1>1 DEF NamedWasOwner, Released, Owning
<1>4. EarlyIsAwaited' BY <1>1 DEF EarlyIsAwaited, Early
<1>5. TakenFromNobody' BY <1>1 DEF TakenFromNobody, Owning
<1>6. TerminalKnows' BY <1>1 DEF TerminalKnows, Over
<1>7. OwnSocket' /\ AwaitsSome' BY <1>1 DEF OwnSocket, AwaitsSome
<1> QED BY <1>2, <1>3, <1>4, <1>5, <1>6, <1>7

\* Steps within a part of a process's life change nothing that others see.
LEMMA QuietKeeps ==
  ASSUME TypeOK, Owned, NEW p \in Pid, NEW phase, Comes(p, phase), UNCHANGED <<pidfile, socket>>,
         \/ proc[p] = "open" /\ phase = "bound"
         \/ proc[p] = "serving" /\ phase = "closing"
         \/ proc[p] = "closing" /\ phase = "unbound"
  PROVE Owned'
<1>1. /\ \A q \in Pid : proc'[q] = IF q = p THEN phase ELSE proc[q]
      /\ command' = command
  BY Phases
<1>0. pidfile \in {None} \cup [by : Pid, filled : BOOLEAN] BY DEF TypeOK
<1> USE DEF Owned
<1>2. OwnersAreNamed' BY <1>1 DEF OwnersAreNamed, Owning
<1>3. NamedWasOwner' BY <1>0, <1>1 DEF NamedWasOwner, Owning
<1>4. EarlyIsAwaited' BY <1>1 DEF EarlyIsAwaited, Early
<1>5. TakenFromNobody' BY <1>1 DEF TakenFromNobody, Owning
<1>6. TerminalKnows' BY <1>1 DEF TerminalKnows, Over
<1>7. OwnSocket' /\ AwaitsSome' BY <1>1 DEF OwnSocket, AwaitsSome
<1> QED BY <1>2, <1>3, <1>4, <1>5, <1>6, <1>7

\* Whoever the pidfile names and lives has the lock; and who has it and has filled it is named.
LEMMA RunningOwns ==
  ASSUME TypeOK, Owned
  PROVE RunningPid = {p \in Pid : proc[p] \in Owning \ {"fill"}}
<1>0. pidfile \in {None} \cup [by : Pid, filled : BOOLEAN] /\ None \notin Pid
  BY DaemonAssumption DEF TypeOK
<1>1. ASSUME NEW p \in RunningPid PROVE proc[p] \in Owning \ {"fill"}
  <2>1. pidfile = [by |-> p, filled |-> TRUE] /\ proc[p] # "exited" BY <1>1 DEF RunningPid, Alive
  <2>2. proc[p] = "fill" => pidfile = [by |-> p, filled |-> FALSE]
    BY DEF Owned, OwnersAreNamed, Owning, RunningPid
  <2>3. proc[p] # "fill" BY <2>1, <2>2
  <2>4. pidfile.by = p BY <2>1
  <2>5. pidfile # None
    <3>1. [by |-> p, filled |-> TRUE] \in [by : Pid, filled : BOOLEAN] BY DEF RunningPid
    <3> QED BY <2>1, <3>1, DaemonAssumption
  <2> QED BY <2>1, <2>3, <2>4, <2>5 DEF Owned, NamedWasOwner
<1>2. ASSUME NEW p \in Pid, proc[p] \in Owning \ {"fill"} PROVE p \in RunningPid
  BY <1>2 DEF Owned, OwnersAreNamed, RunningPid, Alive, Owning
<1> QED BY <1>1, <1>2 DEF RunningPid

LEMMA LookKeeps ==
  ASSUME TypeOK, Owned, NEW t, Command = {t}, NEW p \in Pid, NEW phase, Comes(p, phase),
         UNCHANGED <<pidfile, socket>>, proc[p] = "bound",
         \/ pidfile = None /\ phase = "create"
         \/ RunningPid = {} /\ phase = "unlink"
  PROVE Owned'
<1>1. /\ \A q \in Pid : proc'[q] = IF q = p THEN phase ELSE proc[q]
      /\ command' = command
  BY Phases
<1>0. pidfile \in {None} \cup [by : Pid, filled : BOOLEAN] /\ None \notin Pid
  BY DaemonAssumption DEF TypeOK
<1> USE DEF Owned
<1>2. OwnersAreNamed' BY <1>1 DEF OwnersAreNamed, Owning
<1>3. NamedWasOwner' BY <1>0, <1>1 DEF NamedWasOwner, Owning
<1>4. EarlyIsAwaited' BY <1>1 DEF EarlyIsAwaited, Early
<1>5. TakenFromNobody'
  <2>1. \A q \in Pid : proc[q] \notin Owning
    <3>1. CASE pidfile = None
      <4>1. ASSUME NEW q \in Pid, proc[q] \in Owning PROVE FALSE
        <5>1. pidfile = [by |-> q, filled |-> proc[q] # "fill"] BY <4>1 DEF OwnersAreNamed
        <5>2. [by |-> q, filled |-> proc[q] # "fill"] \in [by : Pid, filled : BOOLEAN] OBVIOUS
        <5> QED BY <3>1, <5>1, <5>2, DaemonAssumption
      <4> QED BY <4>1
    <3>2. CASE RunningPid = {}
      <4>1. \A q \in Pid : proc[q] \notin Owning \ {"fill"} BY <3>2, RunningOwns
      <4>2. \A q \in Pid : proc[q] # "fill"
        <5>1. ASSUME NEW q \in Pid, proc[q] = "fill" PROVE FALSE
          <6>1. command[t].pid = p /\ command[t].pid = q BY <5>1 DEF EarlyIsAwaited, Early
          <6> QED BY <5>1, <6>1
        <5> QED BY <5>1
      <4> QED BY <4>1, <4>2
    <3> QED BY <3>1, <3>2
  <2> QED BY <1>1, <2>1 DEF TakenFromNobody, Owning
<1>6. TerminalKnows' BY <1>1 DEF TerminalKnows, Over
<1>7. OwnSocket' /\ AwaitsSome' BY <1>1 DEF OwnSocket, AwaitsSome
<1> QED BY <1>2, <1>3, <1>4, <1>5, <1>6, <1>7

LEMMA UnlinkKeeps ==
  ASSUME TypeOK, Owned, NEW p \in Pid, Comes(p, "create"), proc[p] = "unlink", pidfile' = None, UNCHANGED socket
  PROVE Owned'
<1>1. /\ \A q \in Pid : proc'[q] = IF q = p THEN "create" ELSE proc[q]
      /\ command' = command
  BY Phases
<1> USE DEF Owned
<1>8. \A q \in Pid : proc[q] \notin Owning BY DEF TakenFromNobody
<1>2. OwnersAreNamed' BY <1>1, <1>8 DEF OwnersAreNamed, Owning
<1>3. NamedWasOwner' BY DEF NamedWasOwner
<1>4. EarlyIsAwaited' BY <1>1 DEF EarlyIsAwaited, Early
<1>5. TakenFromNobody' BY <1>1, <1>8 DEF TakenFromNobody, Owning
<1>6. TerminalKnows' BY <1>1 DEF TerminalKnows, Over
<1>7. OwnSocket' /\ AwaitsSome' BY <1>1 DEF OwnSocket, AwaitsSome
<1> QED BY <1>2, <1>3, <1>4, <1>5, <1>6, <1>7

LEMMA CreateKeeps ==
  ASSUME TypeOK, Owned, NEW t, Command = {t}, NEW p \in Pid, Comes(p, "fill"), proc[p] = "create",
         pidfile' = [by |-> p, filled |-> FALSE], UNCHANGED socket
  PROVE Owned'
<1>1. /\ \A q \in Pid : proc'[q] = IF q = p THEN "fill" ELSE proc[q]
      /\ command' = command
  BY Phases
<1> USE DEF Owned
<1>8. \A q \in Pid : proc[q] \notin Owning BY DEF TakenFromNobody
<1>9. \A q \in Pid \ {p} : proc[q] \notin Early
  <2>1. ASSUME NEW q \in Pid, proc[q] \in Early PROVE q = command[t].pid BY <2>1 DEF EarlyIsAwaited
  <2>2. p = command[t].pid BY <2>1 DEF Early
  <2> QED BY <2>1, <2>2
<1>2. OwnersAreNamed' BY <1>1, <1>8 DEF OwnersAreNamed, Owning
<1>3. NamedWasOwner' BY <1>1 DEF NamedWasOwner, Owning
<1>4. EarlyIsAwaited' BY <1>1 DEF EarlyIsAwaited, Early
<1>5. TakenFromNobody' BY <1>1, <1>9 DEF TakenFromNobody, Owning, Early
<1>6. TerminalKnows' BY <1>1 DEF TerminalKnows, Over
<1>7. OwnSocket' /\ AwaitsSome' BY <1>1 DEF OwnSocket, AwaitsSome
<1> QED BY <1>2, <1>3, <1>4, <1>5, <1>6, <1>7

LEMMA FillKeeps ==
  ASSUME TypeOK, Owned, NEW p \in Pid, FillLock(p)
  PROVE Owned'
<1>1. /\ \A q \in Pid : proc'[q] = IF q = p THEN "locked" ELSE proc[q]
      /\ command' = command /\ socket' = socket /\ proc[p] = "fill"
  BY Phases DEF FillLock, Become
<1> USE DEF Owned
<1>8. pidfile = [by |-> p, filled |-> FALSE] /\ pidfile' = [by |-> p, filled |-> TRUE]
  <2>1. pidfile = [by |-> p, filled |-> FALSE] BY <1>1 DEF OwnersAreNamed, Owning
  <2> QED BY <2>1 DEF FillLock
<1>2. OwnersAreNamed'
  <2> SUFFICES ASSUME NEW q \in Pid, proc'[q] \in Owning
               PROVE q = p
    BY <1>1, <1>8 DEF OwnersAreNamed
  <2>1. proc[q] \in Owning BY <1>1 DEF Owning
  <2>2. pidfile = [by |-> q, filled |-> proc[q] # "fill"] BY <2>1 DEF OwnersAreNamed
  <2>3. pidfile.by = q BY <2>2
  <2> QED BY <1>8, <2>3
<1>3. NamedWasOwner' BY <1>1, <1>8 DEF NamedWasOwner, Owning
<1>4. EarlyIsAwaited' BY <1>1 DEF EarlyIsAwaited, Early
<1>5. TakenFromNobody' BY <1>1 DEF TakenFromNobody, Owning
<1>6. TerminalKnows' BY <1>1 DEF TerminalKnows, Over
<1>7. OwnSocket' /\ AwaitsSome' BY <1>1 DEF OwnSocket, AwaitsSome
<1> QED BY <1>2, <1>3, <1>4, <1>5, <1>6, <1>7

\* Only one process owns the lock at a time.
LEMMA OneOwner ==
  ASSUME Owned, NEW p \in Pid, NEW q \in Pid, proc[p] \in Owning, proc[q] \in Owning
  PROVE p = q
<1>1. pidfile = [by |-> p, filled |-> proc[p] # "fill"] BY DEF Owned, OwnersAreNamed
<1>2. pidfile = [by |-> q, filled |-> proc[q] # "fill"] BY DEF Owned, OwnersAreNamed
<1>3. pidfile.by = p /\ pidfile.by = q BY <1>1, <1>2
<1> QED BY <1>3

LEMMA ListenKeeps ==
  ASSUME TypeOK, Owned, NEW p \in Pid, Listen(p)
  PROVE Owned'
<1>1. /\ \A q \in Pid : proc'[q] = IF q = p THEN "serving" ELSE proc[q]
      /\ command' = command /\ pidfile' = pidfile /\ socket' = p /\ proc[p] = "locked"
  BY Phases DEF Listen, Become
<1>0. pidfile \in {None} \cup [by : Pid, filled : BOOLEAN] BY DEF TypeOK
<1>8. \A q \in Pid : proc[q] \in Owning => q = p BY <1>1, OneOwner DEF Owning
<1> USE DEF Owned
<1>2. OwnersAreNamed' BY <1>1 DEF OwnersAreNamed, Owning
<1>3. NamedWasOwner' BY <1>0, <1>1 DEF NamedWasOwner, Owning
<1>4. EarlyIsAwaited' BY <1>1 DEF EarlyIsAwaited, Early
<1>5. TakenFromNobody' BY <1>1 DEF TakenFromNobody, Owning
<1>6. TerminalKnows' BY <1>1 DEF TerminalKnows, Over
<1>7. OwnSocket' /\ AwaitsSome' BY <1>1, <1>8 DEF OwnSocket, AwaitsSome, Owning
<1> QED BY <1>2, <1>3, <1>4, <1>5, <1>6, <1>7

LEMMA CloseKeeps ==
  ASSUME TypeOK, Owned, NEW p \in Pid, CloseRpc(p)
  PROVE Owned'
<1>1. /\ \A q \in Pid : proc'[q] = IF q = p THEN "closed" ELSE proc[q]
      /\ command' = command /\ pidfile' = pidfile /\ proc[p] = "unbound"
  BY Phases DEF CloseRpc, Become
<1>0. pidfile \in {None} \cup [by : Pid, filled : BOOLEAN] BY DEF TypeOK
<1>8. \A q \in Pid : proc[q] \in Owning => q = p BY <1>1, OneOwner DEF Owning
<1> USE DEF Owned
<1>2. OwnersAreNamed' BY <1>1 DEF OwnersAreNamed, Owning
<1>3. NamedWasOwner' BY <1>0, <1>1 DEF NamedWasOwner, Owning
<1>4. EarlyIsAwaited' BY <1>1 DEF EarlyIsAwaited, Early
<1>5. TakenFromNobody' BY <1>1 DEF TakenFromNobody, Owning
<1>6. TerminalKnows' BY <1>1 DEF TerminalKnows, Over
<1>7. OwnSocket' /\ AwaitsSome' BY <1>1, <1>8 DEF OwnSocket, AwaitsSome, Owning
<1> QED BY <1>2, <1>3, <1>4, <1>5, <1>6, <1>7

LEMMA ReleaseKeeps ==
  ASSUME TypeOK, Owned, NEW p \in Pid, ReleaseLock(p)
  PROVE Owned'
<1>1. /\ \A q \in Pid : proc'[q] = IF q = p THEN "released" ELSE proc[q]
      /\ command' = command /\ socket' = socket /\ proc[p] = "closed"
  BY Phases DEF ReleaseLock, Become
<1>8. \A q \in Pid : proc[q] \in Owning => q = p BY <1>1, OneOwner DEF Owning
<1>9. pidfile' = None
  <2>1. pidfile = [by |-> p, filled |-> TRUE] BY <1>1 DEF Owned, OwnersAreNamed, Owning
  <2> QED BY <2>1 DEF ReleaseLock, Released
<1> USE DEF Owned
<1>2. OwnersAreNamed' BY <1>1, <1>8 DEF OwnersAreNamed, Owning
<1>3. NamedWasOwner' BY <1>9 DEF NamedWasOwner
<1>4. EarlyIsAwaited' BY <1>1 DEF EarlyIsAwaited, Early
<1>5. TakenFromNobody' BY <1>1 DEF TakenFromNobody, Owning
<1>6. TerminalKnows' BY <1>1 DEF TerminalKnows, Over
<1>7. OwnSocket' /\ AwaitsSome' BY <1>1, <1>8 DEF OwnSocket, AwaitsSome, Owning
<1> QED BY <1>2, <1>3, <1>4, <1>5, <1>6, <1>7

LEMMA DaemonStepKeeps ==
  ASSUME TypeOK, Owned, NEW t, Command = {t}, NEW p \in Pid, DaemonStep(p) \/ Terminate(p) \/ Crash(p)
  PROVE Owned'
<1> USE DEF Become, Exit, Alive
<1>1. CASE Ends(p) BY <1>1, EndsKeeps
<1>2. CASE Bind(p)
  <2>1. Ends(p) \/ (proc[p] = "open" /\ Comes(p, "bound") /\ UNCHANGED <<pidfile, socket>>)
    BY <1>2 DEF Bind, Ends
  <2> QED BY <1>1, <2>1, QuietKeeps
<1>3. CASE LookAtLock(p)
  <2>1. \/ Ends(p)
        \/ /\ proc[p] = "bound" /\ UNCHANGED <<pidfile, socket>>
           /\ \/ pidfile = None /\ Comes(p, "create")
              \/ RunningPid = {} /\ Comes(p, "unlink")
    BY <1>3 DEF LookAtLock, Ends, Held
  <2> QED BY <1>1, <2>1, LookKeeps
<1>4. CASE UnlinkLock(p)
  <2>1. \/ Ends(p)
        \/ proc[p] = "unlink" /\ pidfile' = None /\ UNCHANGED socket /\ Comes(p, "create")
    BY <1>4 DEF UnlinkLock, Ends
  <2> QED BY <1>1, <2>1, UnlinkKeeps
<1>5. CASE CreateLock(p)
  <2>1. \/ Ends(p)
        \/ /\ proc[p] = "create" /\ pidfile' = [by |-> p, filled |-> FALSE] /\ UNCHANGED socket
           /\ Comes(p, "fill")
    BY <1>5 DEF CreateLock, Ends
  <2> QED BY <1>1, <2>1, CreateKeeps
<1>6. CASE FillLock(p) BY <1>6, FillKeeps
<1>7. CASE Listen(p) BY <1>7, ListenKeeps
<1>8. CASE CannotListen(p)
  <2>1. Ends(p) BY <1>8 DEF CannotListen, Ends
  <2> QED BY <1>1, <2>1
<1>9. CASE StopHttp(p)
  <2>1. proc[p] = "closing" /\ Comes(p, "unbound") /\ UNCHANGED <<pidfile, socket>>
    BY <1>9 DEF StopHttp
  <2> QED BY <2>1, QuietKeeps
<1>10. CASE CloseRpc(p) BY <1>10, CloseKeeps
<1>11. CASE ReleaseLock(p) BY <1>11, ReleaseKeeps
<1>12. CASE Leave(p) \/ Crash(p)
  <2>1. Ends(p) BY <1>12 DEF Leave, Crash, Ends
  <2> QED BY <1>1, <2>1
<1>13. CASE Terminate(p)
  <2>1. proc[p] = "serving" /\ Comes(p, "closing") /\ UNCHANGED <<pidfile, socket>>
    BY <1>13 DEF Terminate, Signalled
  <2> QED BY <2>1, QuietKeeps
<1> QED
  BY <1>2, <1>3, <1>4, <1>5, <1>6, <1>7, <1>8, <1>9, <1>10, <1>11, <1>12, <1>13 DEF DaemonStep

-------------------------------------------------------------------------------
(* The terminal *)

LEMMA Lines ==
  ASSUME TypeOK, NEW c \in Command, NEW at, NEW q, NEW said,
         command' = [command EXCEPT ![c] = [at |-> at, pid |-> q, said |-> said]]
  PROVE command'[c].at = at /\ command'[c].pid = q /\ command'[c].said = said
  BY DEF TypeOK

\* A terminal at its prompt, and what has come to its pid.
LEMMA PromptSeesAll ==
  ASSUME TypeOK, Owned, NEW t, Command = {t}, command[t].at \notin {"start", "foreground"}
  PROVE /\ \A p \in Pid : proc[p] \notin Early \cup {"fill"}
        /\ RunningPid = {} => \A p \in Pid : proc[p] \in Over
        /\ \A p \in RunningPid : \A q \in Pid \ {p} : proc[q] \in Over
<1>1. \A p \in Pid : proc[p] \notin Early \cup {"fill"} BY DEF Owned, EarlyIsAwaited
<1>2. \A p \in Pid : proc[p] \in Early \cup Owning \cup Over
  BY DEF TypeOK, Phase, Early, Owning, Over
<1>3. RunningPid = {p \in Pid : proc[p] \in Owning \ {"fill"}} BY RunningOwns
<1>4. \A p, q \in Pid : proc[p] \in Owning /\ proc[q] \in Owning => p = q BY OneOwner
<1> QED BY <1>1, <1>2, <1>3, <1>4

\* A terminal says or begins something, and what it knows is so.
LEMMA TerminalKeeps ==
  ASSUME TypeOK, Owned, NEW t, Command = {t}, UNCHANGED <<proc, socket>>,
         NEW at, NEW q, NEW said, command' = [command EXCEPT ![t] = [at |-> at, pid |-> q, said |-> said]],
         pidfile' = pidfile \/ (pidfile' = None /\ \A p \in Pid : proc[p] \in Over),
         \A p \in Pid : proc[p] \in Early \cup {"fill"} =>
           command[t].pid = q /\ at \in {"start", "foreground"},
         at \in {"clear", "spawn", "nothing"} \/ (at = "idle" /\ said \in {"stopped", "not running"})
           => \A p \in Pid : proc[p] \in Over,
         at \in {"start", "foreground", "stop"} => q \in Pid,
         at \in {"start", "stop"} => \A p \in Pid \ {q} : proc[p] \in Over
  PROVE Owned'
<1>1. command'[t].at = at /\ command'[t].pid = q /\ command'[t].said = said BY Lines
<1> USE DEF Owned
<1>2. OwnersAreNamed' BY DEF OwnersAreNamed, Owning, Over
<1>3. NamedWasOwner' BY DEF NamedWasOwner
<1>4. EarlyIsAwaited' BY <1>1 DEF EarlyIsAwaited
<1>5. TakenFromNobody' BY DEF TakenFromNobody
<1>6. TerminalKnows' BY <1>1 DEF TerminalKnows
<1>7. OwnSocket' /\ AwaitsSome' BY <1>1 DEF OwnSocket, AwaitsSome
<1> QED BY <1>2, <1>3, <1>4, <1>5, <1>6, <1>7

LEMMA SpawnKeeps ==
  ASSUME TypeOK, Owned, NEW t, Command = {t}, NEW p \in Pid, proc[p] = "none",
         \A q \in Pid : proc'[q] = IF q = p THEN "open" ELSE proc[q],
         UNCHANGED <<pidfile, socket>>,
         NEW at \in {"start", "foreground"}, command'[t].at = at, command'[t].pid = p,
         command[t].at \in {"idle", "spawn"},
         at = "start" => \A q \in Pid : proc[q] \in Over
  PROVE Owned'
<1>9. \A q \in Pid : proc[q] \notin Early \cup {"fill"} BY PromptSeesAll
<1>0. pidfile \in {None} \cup [by : Pid, filled : BOOLEAN] BY DEF TypeOK
<1> USE DEF Owned
<1>2. OwnersAreNamed' BY DEF OwnersAreNamed, Owning
<1>3. NamedWasOwner' BY <1>0 DEF NamedWasOwner, Owning
<1>4. EarlyIsAwaited' BY <1>9 DEF EarlyIsAwaited
<1>5. TakenFromNobody' BY <1>9 DEF TakenFromNobody, Early
<1>6. TerminalKnows' BY DEF TerminalKnows
<1>7. OwnSocket' BY DEF OwnSocket
<1>10. AwaitsSome' BY DEF AwaitsSome
<1> QED BY <1>2, <1>3, <1>4, <1>5, <1>6, <1>7, <1>10

LEMMA StopKeeps ==
  ASSUME TypeOK, Owned, NEW t, Command = {t}, Stop(t)
  PROVE Owned'
<1>0. command[t].at = "idle" BY DEF Stop
<1>1. CASE RunningPid = {} /\ Goto(t, "nothing", None) /\ UNCHANGED <<proc, pidfile, socket>>
  BY <1>0, <1>1, PromptSeesAll, TerminalKeeps DEF Goto
<1>2. ASSUME NEW p \in RunningPid, Goto(t, "stop", p), UNCHANGED <<port, pidfile, socket>>,
             IF Signalled(p) = "exited" THEN Exit(p) ELSE Become(p, Signalled(p)) /\ UNCHANGED listener
      PROVE Owned'
  <2>1. p \in Pid /\ proc[p] \in Owning \ {"fill"} BY RunningOwns
  <2>2. PICK phase \in Phase :
          /\ proc' = [proc EXCEPT ![p] = phase]
          /\ phase = proc[p] \/ phase = "exited" \/ (phase = "closing" /\ proc[p] = "serving")
    BY <1>2, <2>1 DEF Signalled, Exit, Become, Phase
  <2>3. \A q \in Pid : proc'[q] = IF q = p THEN phase ELSE proc[q] BY <2>1, <2>2 DEF TypeOK
  <2>4. command'[t].at = "stop" /\ command'[t].pid = p BY <1>2, Lines DEF Goto
  <2>5. \A q \in Pid \ {p} : proc[q] \in Over BY <1>0, <1>2, PromptSeesAll
  <2>6. pidfile = [by |-> p, filled |-> TRUE] BY <2>1 DEF Owned, OwnersAreNamed
  <2> USE DEF Owned
  <2>7. OwnersAreNamed' BY <1>2, <2>1, <2>2, <2>3, <2>5, <2>6 DEF OwnersAreNamed, Owning, Over
  <2>8. NamedWasOwner' BY <1>2, <2>1, <2>2, <2>3, <2>6 DEF NamedWasOwner, Owning
  <2>9. EarlyIsAwaited' BY <2>1, <2>2, <2>3, <2>5 DEF EarlyIsAwaited, Early, Over, Owning
  <2>10. TakenFromNobody' BY <2>1, <2>2, <2>3, <2>5 DEF TakenFromNobody, Over, Owning
  <2>11. TerminalKnows' BY <2>3, <2>4, <2>5 DEF TerminalKnows
  <2>12. OwnSocket' /\ AwaitsSome' BY <1>2, <2>1, <2>2, <2>3, <2>4 DEF OwnSocket, AwaitsSome
  <2> QED BY <2>7, <2>8, <2>9, <2>10, <2>11, <2>12
<1> QED BY <1>1, <1>2 DEF Stop

\* With every process over, the terminal may say anything, and the pidfile may go.
LEMMA OverKeeps ==
  ASSUME TypeOK, Owned, NEW t, Command = {t}, UNCHANGED <<proc, socket>>,
         NEW at \in {"idle", "clear", "spawn", "nothing"}, NEW q, NEW said,
         command' = [command EXCEPT ![t] = [at |-> at, pid |-> q, said |-> said]],
         pidfile' = pidfile \/ pidfile' = None,
         \A p \in Pid : proc[p] \in Over
  PROVE Owned'
<1>1. \A p \in Pid : proc[p] \notin Early \cup {"fill"} BY DEF Early, Over
<1> QED BY <1>1, TerminalKeeps

\* With no process on its way to its pid, it may come back to the prompt.
LEMMA PromptKeeps ==
  ASSUME TypeOK, Owned, NEW t, Command = {t}, UNCHANGED <<proc, pidfile, socket>>,
         NEW q, NEW said, said \notin {"stopped", "not running"},
         Say(t, said, q), \A p \in Pid : proc[p] \notin Early \cup {"fill"}
  PROVE Owned'
<1> DEFINE at == "idle"
<1>1. /\ command' = [command EXCEPT ![t] = [at |-> at, pid |-> q, said |-> said]]
      /\ at \notin {"clear", "spawn", "nothing", "start", "foreground", "stop"}
  BY DEF Say
<1> HIDE DEF at
<1> QED BY <1>1, TerminalKeeps

LEMMA TerminalStepKeeps ==
  ASSUME TypeOK, Owned, NEW t, Command = {t},
         CommandStep(t) \/ Start(t) \/ Foreground(t) \/ Stop(t) \/ StopTimesOut(t)
  PROVE Owned'
<1>1. CASE ClearStale(t)
  <2>1. \A p \in Pid : proc[p] \in Over BY <1>1 DEF ClearStale, Owned, TerminalKnows
  <2> QED BY <1>1, <2>1, OverKeeps DEF ClearStale, Goto
<1>2. CASE Spawn(t)
  <2>1. \A p \in Pid : proc[p] \in Over BY <1>2 DEF Spawn, Owned, TerminalKnows
  <2>2. PICK p \in Pid : proc[p] = "none" /\ Become(p, "open") /\ Goto(t, "start", p)
    BY <1>2 DEF Spawn
  <2>3. \A q \in Pid : proc'[q] = IF q = p THEN "open" ELSE proc[q] BY <2>2 DEF Become, TypeOK
  <2>4. command'[t].at = "start" /\ command'[t].pid = p BY <2>2, Lines DEF Goto
  <2>5. UNCHANGED <<pidfile, socket>> /\ command[t].at = "spawn" BY <1>2 DEF Spawn
  <2>6. proc[p] = "none" BY <2>2
  <2> QED BY <2>1, <2>3, <2>4, <2>5, <2>6, SpawnKeeps
<1>3. CASE AwaitStart(t)
  <2> DEFINE child == command[t].pid
  <2>1. PICK q \in Pid, said \in {"did not start", "started"} : Say(t, said, q)
    BY <1>3 DEF AwaitStart, RunningPid, Owned, AwaitsSome
  <2>2. \A p \in Pid : proc[p] \in Early \cup {"fill"} => p = child
    BY DEF Owned, EarlyIsAwaited
  <2>3. proc[child] \notin Early \cup {"fill"}
    <3>1. CASE proc[child] \in {"exited", "serving"} BY <3>1 DEF Early
    <3>2. ASSUME command[t].at = "start", NEW p \in RunningPid
          PROVE proc[child] \notin Early \cup {"fill"}
      <4>1. p \in Pid /\ proc[p] \in Owning \ {"fill"} BY <3>2, RunningOwns
      <4>2. p = child BY <3>2, <4>1 DEF Owned, TerminalKnows, Over, Owning
      <4> QED BY <4>1, <4>2 DEF Early, Owning
    <3> QED BY <1>3, <3>1, <3>2 DEF AwaitStart
  <2>4. \A p \in Pid : proc[p] \notin Early \cup {"fill"} BY <2>2, <2>3
  <2>5. UNCHANGED <<proc, pidfile, socket>> BY <1>3 DEF AwaitStart
  <2>6. said \notin {"stopped", "not running"} BY <2>1
  <2> QED BY <2>1, <2>4, <2>5, <2>6, PromptKeeps
<1>4. CASE NothingToStop(t)
  <2>1. \A p \in Pid : proc[p] \in Over BY <1>4 DEF NothingToStop, Owned, TerminalKnows
  <2> QED BY <1>4, <2>1, OverKeeps DEF NothingToStop, Say
<1>5. CASE AwaitStop(t)
  <2>1. \A p \in Pid : proc[p] \in Over
    BY <1>5 DEF AwaitStop, Gone, Alive, Owned, TerminalKnows, Over
  <2> QED BY <1>5, <2>1, OverKeeps DEF AwaitStop, Say
<1>6. CASE Start(t)
  <2>0. command[t].at = "idle" BY <1>6 DEF Start
  <2>1. CASE RunningPid = {} /\ Goto(t, "clear", None)
    <3>1. \A p \in Pid : proc[p] \in Over BY <2>0, <2>1, PromptSeesAll
    <3> QED BY <1>6, <2>1, <3>1, OverKeeps DEF Start, Goto
  <2>2. ASSUME NEW p \in RunningPid, Say(t, "already running", p) PROVE Owned'
    <3>1. \A q \in Pid : proc[q] \notin Early \cup {"fill"} BY <2>0, PromptSeesAll
    <3>2. UNCHANGED <<proc, pidfile, socket>> BY <1>6 DEF Start
    <3> QED BY <2>2, <3>1, <3>2, PromptKeeps
  <2> QED BY <1>6, <2>1, <2>2 DEF Start
<1>7. CASE Foreground(t)
  <2>1. PICK p \in Pid : proc[p] = "none" /\ Become(p, "open") /\ Goto(t, "foreground", p)
    BY <1>7 DEF Foreground
  <2>3. \A q \in Pid : proc'[q] = IF q = p THEN "open" ELSE proc[q] BY <2>1 DEF Become, TypeOK
  <2>4. command'[t].at = "foreground" /\ command'[t].pid = p BY <2>1, Lines DEF Goto
  <2>5. UNCHANGED <<pidfile, socket>> /\ command[t].at = "idle" BY <1>7 DEF Foreground
  <2>6. proc[p] = "none" BY <2>1
  <2> QED BY <2>3, <2>4, <2>5, <2>6, SpawnKeeps
<1>8. CASE Stop(t) BY <1>8, StopKeeps
<1>9. CASE StopTimesOut(t)
  <2>0. command[t].at = "stop" /\ UNCHANGED <<proc, pidfile, socket>> BY <1>9 DEF StopTimesOut
  <2>1. \A p \in Pid : proc[p] \notin Early \cup {"fill"} BY <2>0, PromptSeesAll
  <2>2. PICK q : Say(t, "did not exit", q) BY <1>9 DEF StopTimesOut
  <2> QED BY <2>0, <2>1, <2>2, PromptKeeps
<1> QED BY <1>1, <1>2, <1>3, <1>4, <1>5, <1>6, <1>7, <1>8, <1>9 DEF CommandStep

-------------------------------------------------------------------------------
(* Types *)

LEMMA InitTyped == Init => TypeOK
<1> SUFFICES ASSUME Init PROVE TypeOK OBVIOUS
<1>1. proc \in [Pid -> Phase] /\ port \in [Pid -> Port] BY DEF Init, Phase
<1>2. listener \in [Port -> Pid \cup {None}] /\ \A n \in Port : listener[n] = None BY DEF Init
<1>3. pidfile = None /\ socket = None BY DEF Init
<1>4. command \in [Command -> [at : Step, pid : Pid \cup {None}, said : Report]]
  BY DEF Init, Step, Report
<1> QED BY <1>1, <1>2, <1>3, <1>4 DEF TypeOK

LEMMA InitOwned == Init => Owned
<1> SUFFICES ASSUME Init PROVE Owned OBVIOUS
<1>1. \A p \in Pid : proc[p] = "none" BY DEF Init
<1>2. \A c \in Command : command[c].at = "idle" /\ command[c].said = "" BY DEF Init
<1>3. pidfile = None BY DEF Init
<1>4. OwnersAreNamed /\ NamedWasOwner /\ OwnSocket
  BY <1>1, <1>3 DEF OwnersAreNamed, NamedWasOwner, OwnSocket, Owning
<1>5. EarlyIsAwaited /\ TakenFromNobody BY <1>1 DEF EarlyIsAwaited, TakenFromNobody, Early
<1>6. TerminalKnows /\ AwaitsSome BY <1>2 DEF TerminalKnows, AwaitsSome
<1> QED BY <1>4, <1>5, <1>6 DEF Owned

\* Who ends, or gives its port back, listens nowhere.
LEMMA UnboundTyped ==
  ASSUME TypeOK, NEW p \in Pid, NEW phase \in Phase, Comes(p, phase), Unbind(p),
         pidfile' \in {None} \cup [by : Pid, filled : BOOLEAN], socket' \in Pid \cup {None}
  PROVE TypeOK'
  BY DEF TypeOK, Unbind, Alive

LEMMA ComesTyped ==
  ASSUME TypeOK, NEW p \in Pid, NEW phase \in Phase \ {"none", "exited"}, Comes(p, phase),
         UNCHANGED listener,
         pidfile' \in {None} \cup [by : Pid, filled : BOOLEAN], socket' \in Pid \cup {None}
  PROVE TypeOK'
  BY DEF TypeOK, Alive

LEMMA DaemonStepTyped ==
  ASSUME TypeOK, NEW p \in Pid, DaemonStep(p) \/ Terminate(p) \/ Crash(p)
  PROVE TypeOK'
<1> USE DEF Become
<1>0. /\ pidfile \in {None} \cup [by : Pid, filled : BOOLEAN] /\ socket \in Pid \cup {None}
      /\ Released(p) \in {None} \cup [by : Pid, filled : BOOLEAN]
  BY DEF TypeOK, Released
<1>1. CASE Exit(p) /\ UNCHANGED <<port, socket, command>> /\ pidfile' \in {pidfile, None, Released(p)}
  BY <1>0, <1>1, UnboundTyped DEF Exit, Phase
<1>2. CASE Bind(p)
  <2>1. CASE listener[port[p]] = None
    <3>1. /\ \A q \in Pid : proc'[q] = IF q = p THEN "bound" ELSE proc[q]
          /\ proc' \in [Pid -> Phase] /\ port' = port
      BY <1>2, <2>1 DEF Bind, TypeOK, Phase
    <3>2. /\ listener' \in [Port -> Pid \cup {None}]
          /\ \A n \in Port : listener'[n] = IF n = port[p] THEN p ELSE listener[n]
      BY <1>2, <2>1 DEF Bind, TypeOK
    <3>3. \A n \in Port : listener[n] = None \/ (port[listener[n]] = n /\ Alive(listener[n]))
      BY DEF TypeOK
    <3>4. \A n \in Port : listener'[n] = None \/ (port'[listener'[n]] = n /\ proc'[listener'[n]] \notin {"none", "exited"})
      <4> SUFFICES ASSUME NEW n \in Port, listener'[n] # None
                   PROVE port'[listener'[n]] = n /\ proc'[listener'[n]] \notin {"none", "exited"}
        OBVIOUS
      <4>1. listener'[n] \in Pid BY <3>2
      <4> QED BY <3>1, <3>2, <3>3, <4>1 DEF Alive
    <3>5. UNCHANGED <<pidfile, socket, command>> BY <1>2 DEF Bind
    <3> QED BY <3>1, <3>2, <3>4, <3>5 DEF TypeOK, Alive
  <2> QED BY <1>1, <1>2, <2>1 DEF Bind
<1>3. CASE LookAtLock(p)
  <2>1. \/ Exit(p) /\ UNCHANGED <<port, pidfile, socket, command>>
        \/ Comes(p, "create") /\ UNCHANGED <<listener, pidfile, socket>>
        \/ Comes(p, "unlink") /\ UNCHANGED <<listener, pidfile, socket>>
    BY <1>3 DEF LookAtLock
  <2> QED BY <1>0, <1>1, <2>1, ComesTyped DEF Phase
<1>4. CASE UnlinkLock(p)
  <2>1. \/ Exit(p) /\ UNCHANGED <<port, socket, command>> /\ pidfile' = None
        \/ Comes(p, "create") /\ UNCHANGED <<listener, socket>> /\ pidfile' = None
    BY <1>4 DEF UnlinkLock
  <2> QED BY <1>0, <1>1, <2>1, ComesTyped DEF Phase
<1>5. CASE CreateLock(p)
  <2>2. [by |-> p, filled |-> FALSE] \in [by : Pid, filled : BOOLEAN] OBVIOUS
  <2>1. \/ Exit(p) /\ UNCHANGED <<port, pidfile, socket, command>>
        \/ /\ Comes(p, "fill") /\ UNCHANGED <<listener, socket>>
           /\ pidfile' \in {None} \cup [by : Pid, filled : BOOLEAN]
    BY <1>5, <2>2 DEF CreateLock
  <2> QED BY <1>0, <1>1, <2>1, ComesTyped DEF Phase
<1>6. CASE FillLock(p)
  <2>1. Comes(p, "locked") /\ UNCHANGED <<listener, socket>> BY <1>6 DEF FillLock
  <2>2. pidfile' \in {pidfile, [by |-> p, filled |-> TRUE]}
    <3>1. CASE pidfile = [by |-> p, filled |-> FALSE]
      <4>1. pidfile' = [pidfile EXCEPT !.filled = TRUE] BY <1>6, <3>1 DEF FillLock
      <4> QED BY <3>1, <4>1
    <3> QED BY <1>6, <3>1 DEF FillLock
  <2>3. [by |-> p, filled |-> TRUE] \in [by : Pid, filled : BOOLEAN] OBVIOUS
  <2> QED BY <1>0, <2>1, <2>2, <2>3, ComesTyped DEF Phase
<1>7. CASE Listen(p)
  <2>1. Comes(p, "serving") /\ UNCHANGED <<listener, pidfile>> /\ socket' = p BY <1>7 DEF Listen
  <2> QED BY <1>0, <2>1, ComesTyped DEF Phase
<1>8. CASE CannotListen(p) \/ Leave(p) \/ Crash(p) BY <1>1, <1>8 DEF CannotListen, Leave, Crash
<1>9. CASE StopHttp(p)
  <2>1. Comes(p, "unbound") /\ Unbind(p) /\ UNCHANGED <<pidfile, socket>> BY <1>9 DEF StopHttp
  <2> QED BY <1>0, <2>1, UnboundTyped DEF Phase
<1>10. CASE CloseRpc(p)
  <2>1. Comes(p, "closed") /\ UNCHANGED <<listener, pidfile>> /\ socket' = None
    BY <1>10 DEF CloseRpc
  <2> QED BY <1>0, <2>1, ComesTyped DEF Phase
<1>11. CASE ReleaseLock(p)
  <2>1. Comes(p, "released") /\ UNCHANGED <<listener, socket>> /\ pidfile' = Released(p)
    BY <1>11 DEF ReleaseLock
  <2> QED BY <1>0, <2>1, ComesTyped DEF Phase
<1>12. CASE Terminate(p)
  <2>1. Comes(p, "closing") /\ UNCHANGED <<listener, pidfile, socket>>
    BY <1>12 DEF Terminate, Signalled
  <2> QED BY <1>0, <2>1, ComesTyped DEF Phase
<1> QED
  BY <1>2, <1>3, <1>4, <1>5, <1>6, <1>7, <1>8, <1>9, <1>10, <1>11, <1>12 DEF DaemonStep

\* What a terminal says or begins is one of its lines.
LEMMA LinesTyped ==
  ASSUME TypeOK, NEW c \in Command, NEW at \in Step, NEW q \in Pid \cup {None}, NEW said \in Report,
         command' = [command EXCEPT ![c] = [at |-> at, pid |-> q, said |-> said]]
  PROVE command' \in [Command -> [at : Step, pid : Pid \cup {None}, said : Report]]
  BY DEF TypeOK

LEMMA CommandTyped ==
  ASSUME TypeOK, NEW c \in Command,
         CommandStep(c) \/ Start(c) \/ Foreground(c) \/ Stop(c) \/ StopTimesOut(c)
  PROVE command' \in [Command -> [at : Step, pid : Pid \cup {None}, said : Report]]
<1>0. command[c].pid \in Pid \cup {None} BY DEF TypeOK
<1>1. ASSUME NEW at \in Step, NEW q \in Pid \cup {None}, Goto(c, at, q)
      PROVE command' \in [Command -> [at : Step, pid : Pid \cup {None}, said : Report]]
  <2>1. "" \in Report BY DEF Report
  <2> QED BY <1>1, <2>1, LinesTyped DEF Goto
<1>2. ASSUME NEW said \in Report, NEW q \in Pid \cup {None}, Say(c, said, q)
      PROVE command' \in [Command -> [at : Step, pid : Pid \cup {None}, said : Report]]
  <2>1. "idle" \in Step BY DEF Step
  <2> QED BY <1>2, <2>1, LinesTyped DEF Say
<1>3. {"clear", "spawn", "start", "foreground", "stop", "nothing"} \subseteq Step BY DEF Step
<1>4. Report = {"", "already running", "started", "did not start", "stopped", "not running", "did not exit"}
  BY DEF Report
<1>5. CASE ClearStale(c) \/ Spawn(c) \/ Foreground(c)
  BY <1>1, <1>3, <1>5 DEF ClearStale, Spawn, Foreground
<1>6. CASE AwaitStart(c) BY <1>0, <1>2, <1>4, <1>6 DEF AwaitStart, RunningPid
<1>7. CASE NothingToStop(c) \/ AwaitStop(c) \/ StopTimesOut(c)
  BY <1>0, <1>2, <1>4, <1>7 DEF NothingToStop, AwaitStop, StopTimesOut
<1>8. CASE Start(c) BY <1>1, <1>2, <1>3, <1>4, <1>8 DEF Start, RunningPid
<1>9. CASE Stop(c) BY <1>1, <1>3, <1>9 DEF Stop, RunningPid
<1> QED BY <1>5, <1>6, <1>7, <1>8, <1>9 DEF CommandStep

\* A process that comes to another phase leaves the ports as they were, or gives its own back.
LEMMA PortsTyped ==
  ASSUME TypeOK, NEW p \in Pid, NEW phase \in Phase \ {"none"},
         proc' = [proc EXCEPT ![p] = phase], UNCHANGED port,
         phase = "exited" => Unbind(p), phase # "exited" => UNCHANGED listener
  PROVE /\ proc' \in [Pid -> Phase] /\ port' \in [Pid -> Port]
        /\ listener' \in [Port -> Pid \cup {None}]
        /\ \A n \in Port : listener'[n] = None \/ (port'[listener'[n]] = n /\ proc'[listener'[n]] \notin {"none", "exited"})
  BY DEF TypeOK, Unbind, Alive

LEMMA TerminalStepTyped ==
  ASSUME TypeOK, NEW c \in Command,
         CommandStep(c) \/ Start(c) \/ Foreground(c) \/ Stop(c) \/ StopTimesOut(c)
  PROVE TypeOK'
<1>1. command' \in [Command -> [at : Step, pid : Pid \cup {None}, said : Report]] BY CommandTyped
<1>2. pidfile' \in {pidfile, None} /\ socket' = socket
  BY
  DEF CommandStep, ClearStale, Spawn, AwaitStart, NothingToStop, AwaitStop, Start, Foreground, Stop,
         StopTimesOut
<1>3. /\ proc' \in [Pid -> Phase] /\ port' \in [Pid -> Port]
      /\ listener' \in [Port -> Pid \cup {None}]
      /\ \A n \in Port : listener'[n] = None \/ (port'[listener'[n]] = n /\ proc'[listener'[n]] \notin {"none", "exited"})
  <2>1. CASE UNCHANGED <<proc, port, listener>> BY <2>1 DEF TypeOK, Alive
  <2>2. CASE Spawn(c) \/ Foreground(c)
    <3>1. PICK p \in Pid : Become(p, "open") BY <2>2 DEF Spawn, Foreground
    <3>2. UNCHANGED <<port, listener>> BY <2>2 DEF Spawn, Foreground
    <3> QED BY <3>1, <3>2, PortsTyped DEF Become, Phase
  <2>3. CASE Stop(c)
    <3>1. ASSUME NEW p \in RunningPid, UNCHANGED port,
                 IF Signalled(p) = "exited" THEN Exit(p) ELSE Become(p, Signalled(p)) /\ UNCHANGED listener
          PROVE /\ proc' \in [Pid -> Phase] /\ port' \in [Pid -> Port]
                /\ listener' \in [Port -> Pid \cup {None}]
                /\ \A n \in Port : listener'[n] = None \/ (port'[listener'[n]] = n /\ proc'[listener'[n]] \notin {"none", "exited"})
      <4>1. p \in Pid /\ Signalled(p) \in Phase \ {"none"} BY DEF RunningPid, Signalled, Phase
      <4> QED BY <3>1, <4>1, PortsTyped DEF Exit, Become
    <3> QED BY <2>1, <2>3, <3>1 DEF Stop
  <2> QED
    BY <2>1, <2>2, <2>3
    DEF CommandStep, ClearStale, AwaitStart, NothingToStop, AwaitStop, Start, StopTimesOut
<1> QED BY <1>1, <1>2, <1>3 DEF TypeOK, Alive

-------------------------------------------------------------------------------
(* The theorems *)

LEMMA InvKept ==
  ASSUME NEW t, Command = {t}, TypeOK, Owned, [Next]_vars
  PROVE TypeOK' /\ Owned'
<1>1. ASSUME NEW p \in Pid, DaemonStep(p) \/ Terminate(p) \/ Crash(p) PROVE TypeOK' /\ Owned'
  BY <1>1, DaemonStepTyped, DaemonStepKeeps
<1>2. CASE CommandStep(t) \/ Start(t) \/ Foreground(t) \/ Stop(t) \/ StopTimesOut(t)
  BY <1>2, TerminalStepTyped, TerminalStepKeeps
<1>3. CASE UNCHANGED vars
  <2>1. TypeOK' BY <1>3 DEF vars, TypeOK, Alive
  <2>2. OwnersAreNamed' /\ NamedWasOwner' /\ OwnSocket' /\ AwaitsSome'
    BY <1>3 DEF vars, Owned, OwnersAreNamed, NamedWasOwner, OwnSocket, AwaitsSome
  <2>3. EarlyIsAwaited' /\ TakenFromNobody' /\ TerminalKnows'
    BY <1>3 DEF vars, Owned, EarlyIsAwaited, TakenFromNobody, TerminalKnows
  <2> QED BY <2>1, <2>2, <2>3 DEF Owned
<1> QED BY <1>1, <1>2, <1>3 DEF Next

\* The lock, the ports and the terminals hold what they may, and who is gone listens nowhere;
\* for any number of terminals.
THEOREM DaemonIsTyped == Spec => []TypeOK
<1>1. ASSUME TypeOK, [Next]_vars PROVE TypeOK'
  <2>1. CASE UNCHANGED vars BY <1>1, <2>1 DEF vars, TypeOK, Alive
  <2> QED BY <1>1, <2>1, DaemonStepTyped, TerminalStepTyped DEF Next
<1> QED BY <1>1, InitTyped, PTL DEF Spec

\* With one terminal the pidfile names the one process that took the lock, until it gives it back
\* (acquireLock, release).
THEOREM OwnedAlways == ASSUME NEW t, Command = {t} PROVE Spec => [](TypeOK /\ Owned)
<1>1. Init => TypeOK /\ Owned BY InitTyped, InitOwned
<1>2. TypeOK /\ Owned /\ [Next]_vars => (TypeOK /\ Owned)' BY InvKept
<1> QED BY <1>1, <1>2, PTL DEF Spec

\* A daemon that serves is the one the pidfile names and the socket leads to, whatever crashed
\* between any two system calls (acquireLock, startRpcServer).
THEOREM ServingIsAlwaysReachable == ASSUME NEW t, Command = {t} PROVE Spec => []ServingIsReachable
<1>1. Owned => ServingIsReachable
  BY DEF Owned, OwnersAreNamed, OwnSocket, Owning, ServingIsReachable
<1> QED BY <1>1, OwnedAlways, PTL

\* When `stop` says stopped, or not running, no daemon lives (runDaemonStop).
THEOREM StopAlwaysLeavesNone == ASSUME NEW t, Command = {t} PROVE Spec => []StopLeavesNone
<1>1. Owned => StopLeavesNone BY DEF Owned, TerminalKnows, StopLeavesNone, Over
<1> QED BY <1>1, OwnedAlways, PTL

-------------------------------------------------------------------------------
(* The feed: for any records, pages and lines. *)

\* The frames on a wire, and what a page is.
Message ==
  [type : {"cockpit"}, frame : Frame] \cup [type : {"event"}, line : Nat] \cup [type : {"snapshot"}, lines : SUBSET Nat]

PageState == [cockpit : Frame, pushed : Frame, heard : SUBSET Nat, since : Nat, asked : Nat]

\* What the log, the tailer, the wires and the pages may hold; only a daemon that runs has
\* connections.
Typed ==
  /\ running \in BOOLEAN /\ version \in Frame /\ pending \in BOOLEAN /\ torn \in BOOLEAN
  /\ log \in Seq({"event", "bad"})
  /\ read \in [lines : Nat, behind : BOOLEAN] /\ read.lines <= Len(log)
  /\ pending => running
  /\ open \subseteq Page /\ (~running => open = {})
  /\ wire \in [Page -> Seq(Message)]
  /\ answers \in [Page -> SUBSET Frame]
  /\ page \in [Page -> PageState]

\* What is on its way is of lines there are, and a snapshot comes first.
OfTheLog ==
  \A p \in Page :
    /\ page[p].heard \subseteq DOMAIN log
    /\ \A k \in DOMAIN wire[p] :
         /\ wire[p][k].type = "event" => wire[p][k].line \in DOMAIN log
         /\ wire[p][k].type = "snapshot" => k = 1 /\ wire[p][k].lines \subseteq DOMAIN log

\* A line a page is still to be told.
Coming(p, i) ==
  \/ i \in Unread
  \/ \E k \in DOMAIN wire[p] :
       \/ wire[p][k] = EventFrame(i)
       \/ wire[p][k].type = "snapshot" /\ i \in wire[p][k].lines

\* Until the snapshot has come, what was heard on an earlier connection does not count.
HeardOrComing ==
  \A p \in open : \A i \in DOMAIN log :
    log[i] = "event" /\ i + SnapshotLimit > page[p].since =>
      \/ Coming(p, i)
      \/ i \in page[p].heard /\ \A k \in DOMAIN wire[p] : wire[p][k].type # "snapshot"

\* A line a page has yet to hear is still in the file, or in a frame before which no snapshot
\* can take back what was heard.
IInv == Typed /\ OfTheLog /\ HeardOrComing

LEMMA InitKept == FeedInit => IInv
<1> SUFFICES ASSUME FeedInit PROVE IInv OBVIOUS
<1>1. NoFrame \in Frame BY DEF NoFrame, Frame
<1>2. <<>> \in Seq(Message) /\ DOMAIN <<>> = {} /\ <<>> \in Seq({"event", "bad"}) /\ Len(<<>>) = 0
  OBVIOUS
<1>3. Typed
  <2>1. page \in [Page -> PageState]
    BY <1>1 DEF FeedInit, PageState
  <2>2. read \in [lines : Nat, behind : BOOLEAN] /\ read.lines = 0 BY DEF FeedInit
  <2>3. wire \in [Page -> Seq(Message)] /\ answers \in [Page -> SUBSET Frame] BY <1>2 DEF FeedInit
  <2>4. log \in Seq({"event", "bad"}) /\ Len(log) = 0 /\ version \in Frame /\ open = {}
    BY <1>1, <1>2 DEF FeedInit
  <2>5. running \in BOOLEAN /\ pending \in BOOLEAN /\ torn \in BOOLEAN /\ (pending => running)
    BY DEF FeedInit
  <2>6. read.lines <= Len(log) BY <2>2, <2>4
  <2>7. open \subseteq Page /\ (~running => open = {}) BY <2>4
  <2> QED BY <2>1, <2>2, <2>3, <2>4, <2>5, <2>6, <2>7 DEF Typed
<1>4. OfTheLog BY <1>2 DEF FeedInit, OfTheLog
<1>5. HeardOrComing BY DEF FeedInit, HeardOrComing
<1> QED BY <1>3, <1>4, <1>5 DEF IInv

\* Steps that leave the lines, the pages and what is on its way to them.
LEMMA FeedQuietKeeps ==
  ASSUME IInv, UNCHANGED <<log, open, wire, page>>, read'.lines = read.lines, Typed'
  PROVE IInv'
<1>1. Unread' = Unread BY DEF Unread
<1>2. OfTheLog' BY DEF IInv, OfTheLog
<1>3. HeardOrComing' BY <1>1 DEF IInv, HeardOrComing, Coming
<1> QED BY <1>2, <1>3 DEF IInv

LEMMA PutKeeps == ASSUME IInv, NEW r \in Record, Put(r) PROVE IInv'
<1>1. version' \in Frame BY DEF IInv, Typed, Put, Frame
<1>2. Typed' BY <1>1 DEF IInv, Typed, Put
<1>3. UNCHANGED <<log, open, wire, page, read>> BY DEF Put
<1> QED BY <1>2, <1>3, FeedQuietKeeps

LEMMA AppendCutKeeps == ASSUME IInv, AppendCut PROVE IInv'
<1>1. read' = [read EXCEPT !.behind = FALSE] /\ read \in [lines : Nat, behind : BOOLEAN]
  BY DEF AppendCut, IInv, Typed
<1>2. read'.lines = read.lines /\ read' \in [lines : Nat, behind : BOOLEAN] BY <1>1
<1>3. Typed' BY <1>2 DEF IInv, Typed, AppendCut
<1>4. UNCHANGED <<log, open, wire, page>> BY DEF AppendCut
<1> QED BY <1>2, <1>3, <1>4, FeedQuietKeeps

LEMMA AppendEventKeeps == ASSUME IInv, AppendEvent PROVE IInv'
<1> DEFINE line == IF torn THEN "bad" ELSE "event"
<1>1. log' = Append(log, line) /\ line \in {"event", "bad"} /\ log \in Seq({"event", "bad"})
      /\ UNCHANGED <<running, version, read, open, wire, answers, page>> /\ torn' = FALSE /\ pending' = FALSE
  BY DEF AppendEvent, IInv, Typed
<1> HIDE DEF line
<1>2. /\ log' \in Seq({"event", "bad"}) /\ Len(log') = Len(log) + 1 /\ Len(log) \in Nat
      /\ DOMAIN log = 1 .. Len(log) /\ DOMAIN log' = 1 .. Len(log) + 1
      /\ \A i \in DOMAIN log : log'[i] = log[i]
  BY <1>1
<1>3. Typed'
  <2>1. read.lines \in Nat /\ read.lines <= Len(log) BY DEF IInv, Typed
  <2>2. read.lines <= Len(log') BY <1>2, <2>1
  <2> QED BY <1>1, <1>2, <2>2 DEF IInv, Typed
<1>4. OfTheLog' BY <1>1, <1>2 DEF IInv, OfTheLog
<1>5. Unread \subseteq Unread' /\ Len(log) + 1 \in Unread'
  BY <1>1, <1>2 DEF Unread, IInv, Typed
<1>6. HeardOrComing'
  <2> SUFFICES ASSUME NEW p \in open, NEW i \in DOMAIN log', log'[i] = "event", i + SnapshotLimit > page[p].since
               PROVE Coming(p, i)' \/ (i \in page[p].heard /\ \A k \in DOMAIN wire[p] : wire[p][k].type # "snapshot")
    BY <1>1 DEF HeardOrComing
  <2>1. CASE i = Len(log) + 1 BY <1>5, <2>1 DEF Coming
  <2>2. CASE i \in DOMAIN log
    <3>1. log[i] = "event" BY <1>2, <2>2
    <3>2. Coming(p, i) => Coming(p, i)' BY <1>1, <1>5 DEF Coming
    <3> QED BY <2>2, <3>1, <3>2 DEF IInv, HeardOrComing
  <2> QED BY <1>2, <2>1, <2>2
<1> QED BY <1>3, <1>4, <1>6 DEF IInv

LEMMA RestartKeeps == ASSUME IInv, StartDaemon \/ StopDaemon PROVE IInv'
<1>1. open' = {} /\ UNCHANGED <<log, page, version>> BY DEF IInv, Typed, StartDaemon, StopDaemon
<1>2. Typed'
  <2>1. Len(log) \in Nat /\ <<>> \in Seq(Message) BY DEF IInv, Typed
  <2>2. CASE StartDaemon BY <2>1, <2>2 DEF IInv, Typed, StartDaemon
  <2>3. CASE StopDaemon BY <2>1, <2>3 DEF IInv, Typed, StopDaemon
  <2> QED BY <2>2, <2>3
<1>3. OfTheLog'
  <2>1. CASE StartDaemon BY <2>1 DEF IInv, OfTheLog, StartDaemon
  <2>2. CASE StopDaemon BY <2>2 DEF IInv, OfTheLog, StopDaemon
  <2> QED BY <2>1, <2>2
<1>4. HeardOrComing' BY <1>1 DEF HeardOrComing
<1> QED BY <1>2, <1>3, <1>4 DEF IInv

\* The frames of a batch: each line there is, then the cockpit, and no snapshot.
LEMMA BatchIs ==
  ASSUME IInv, NEW S \in SUBSET DOMAIN log, NEW lines \in InOrder(S)
  PROVE /\ Batch(lines) \in Seq(Message)
        /\ \A k \in DOMAIN Batch(lines) :
             /\ Batch(lines)[k].type # "snapshot"
             /\ Batch(lines)[k].type = "event" => Batch(lines)[k].line \in S
        /\ \A i \in S : \E k \in DOMAIN Batch(lines) : Batch(lines)[k] = EventFrame(i)
<1>1. DOMAIN log = 1 .. Len(log) /\ Len(log) \in Nat BY DEF IInv, Typed
<1>2. IsFiniteSet(S)
  <2>1. IsFiniteSet(1 .. Len(log)) BY <1>1, FS_Interval
  <2> QED BY <1>1, <2>1, FS_Subset
<1>3. Cardinality(S) \in Nat BY <1>2, FS_CardinalityType
<1> DEFINE n == Cardinality(S)
           events == [i \in DOMAIN lines |-> EventFrame(lines[i])]
<1>4. lines \in [1 .. n -> S] /\ Range(lines) = S BY DEF InOrder
<1>5. \A i \in S : \E k \in 1 .. n : lines[k] = i BY <1>4 DEF Range
<1>6. lines \in Seq(S) /\ Len(lines) = n /\ DOMAIN lines = 1 .. n BY <1>3, <1>4
<1>7. \A i \in S : EventFrame(i) \in Message /\ EventFrame(i).type = "event" /\ EventFrame(i).line = i
  BY <1>1 DEF EventFrame, Message
<1>8. events \in Seq(Message) /\ Len(events) = n /\ \A k \in 1 .. n : events[k] = EventFrame(lines[k])
  BY <1>3, <1>4, <1>6, <1>7
<1>9. Cockpit(CockpitFrame) \in Message /\ Cockpit(CockpitFrame).type = "cockpit"
  BY DEF Cockpit, CockpitFrame, Message, IInv, Typed
<1>10. CASE lines = <<>>
  <2>1. Batch(lines) = <<>> BY <1>10 DEF Batch
  <2>2. S = {} BY <1>5, <1>6, <1>10
  <2> QED BY <2>1, <2>2
<1>11. CASE lines # <<>>
  <2>1. Batch(lines) = events \o <<Cockpit(CockpitFrame)>> BY <1>11 DEF Batch
  <2> HIDE DEF events, n
  <2>2. /\ Batch(lines) \in Seq(Message) /\ DOMAIN Batch(lines) = 1 .. n + 1
        /\ \A k \in 1 .. n : Batch(lines)[k] = EventFrame(lines[k])
        /\ Batch(lines)[n + 1] = Cockpit(CockpitFrame)
    BY <1>3, <1>8, <1>9, <2>1 DEF n
  <2>3. \A k \in 1 .. n : lines[k] \in S BY <1>4
  <2>4. \A k \in 1 .. n + 1 : k \in 1 .. n \/ k = n + 1 BY <1>3 DEF n
  <2>5. 1 .. n \subseteq 1 .. n + 1 BY <1>3 DEF n
  <2> QED BY <1>5, <1>7, <1>9, <2>2, <2>3, <2>4, <2>5
<1> QED BY <1>10, <1>11

\* A batch goes to all who have subscribed, with every line there is to tell.
LEMMA PollKeeps == ASSUME IInv, Poll PROVE IInv'
<1>0. PICK S : S = {i \in Unread : Parses(i)} OBVIOUS
<1>1. PICK lines \in InOrder(S) : wire' = Publish(Batch(lines)) BY <1>0 DEF Poll
<1>2. S \in SUBSET DOMAIN log BY <1>0 DEF Unread
<1>20. /\ Batch(lines) \in Seq(Message)
       /\ \A k \in DOMAIN Batch(lines) :
            /\ Batch(lines)[k].type # "snapshot"
            /\ Batch(lines)[k].type = "event" => Batch(lines)[k].line \in S
       /\ \A i \in S : \E k \in DOMAIN Batch(lines) : Batch(lines)[k] = EventFrame(i)
  BY <1>2, BatchIs
<1>21. PICK new : new = Batch(lines) OBVIOUS
<1>3. /\ new \in Seq(Message)
      /\ \A k \in DOMAIN new :
           /\ new[k].type # "snapshot"
           /\ new[k].type = "event" => new[k].line \in S
      /\ \A i \in S : \E k \in DOMAIN new : new[k] = EventFrame(i)
  BY <1>20, <1>21
<1>4. \A i \in Unread : log[i] = "event" => i \in S BY <1>0 DEF Parses
<1>5. /\ wire' = [p \in Page |-> IF p \in open THEN wire[p] \o new ELSE <<>>]
      /\ read' = [lines |-> Len(log), behind |-> FALSE]
      /\ UNCHANGED <<running, version, pending, log, torn, open, answers, page>>
  BY <1>1, <1>21 DEF Poll, Publish
<1>6. \A p \in open : wire[p] \in Seq(Message) /\ p \in Page BY DEF IInv, Typed
<1>7. \A p \in open :
        /\ wire'[p] \in Seq(Message)
        /\ \A k \in DOMAIN wire[p] : k \in DOMAIN wire'[p] /\ wire'[p][k] = wire[p][k]
        /\ \A k \in DOMAIN wire'[p] : \/ k \in DOMAIN wire[p] /\ wire'[p][k] = wire[p][k]
                                      \/ \E j \in DOMAIN new : wire'[p][k] = new[j]
        /\ \A j \in DOMAIN new : \E k \in DOMAIN wire'[p] : wire'[p][k] = new[j]
  <2> TAKE p \in open
  <2>1. wire'[p] = wire[p] \o new BY <1>5, <1>6
  <2>2. /\ DOMAIN wire[p] = 1 .. Len(wire[p]) /\ Len(wire[p]) \in Nat /\ DOMAIN new = 1 .. Len(new) /\ Len(new) \in Nat
        /\ wire'[p] \in Seq(Message) /\ DOMAIN wire'[p] = 1 .. Len(wire[p]) + Len(new)
        /\ \A k \in 1 .. Len(wire[p]) + Len(new) :
             wire'[p][k] = IF k <= Len(wire[p]) THEN wire[p][k] ELSE new[k - Len(wire[p])]
    BY <1>3, <1>6, <2>1
  <2>3. ASSUME NEW j \in DOMAIN new
        PROVE j + Len(wire[p]) \in DOMAIN wire'[p] /\ wire'[p][j + Len(wire[p])] = new[j]
    <3> DEFINE k == j + Len(wire[p])
    <3>1. k \in 1 .. Len(wire[p]) + Len(new) /\ ~(k <= Len(wire[p])) /\ k - Len(wire[p]) = j BY <2>2
    <3> HIDE DEF k
    <3>2. wire'[p][k] = new[k - Len(wire[p])] /\ k \in DOMAIN wire'[p] BY <2>2, <3>1
    <3> QED BY <3>1, <3>2 DEF k
  <2>4. \A k \in DOMAIN wire'[p] : k \in DOMAIN wire[p] \/ k - Len(wire[p]) \in DOMAIN new BY <2>2
  <2>5. \A k \in DOMAIN wire[p] : k \in DOMAIN wire'[p] /\ wire'[p][k] = wire[p][k] BY <2>2
  <2>6. \A k \in DOMAIN wire'[p] : k \notin DOMAIN wire[p] => wire'[p][k] = new[k - Len(wire[p])]
    BY <2>2
  <2>7. \A k \in DOMAIN wire'[p] : \/ k \in DOMAIN wire[p] /\ wire'[p][k] = wire[p][k]
                                   \/ \E j \in DOMAIN new : wire'[p][k] = new[j]
    BY <2>4, <2>5, <2>6
  <2> QED BY <2>2, <2>3, <2>5, <2>7
<1>8. \A p \in Page \ open : wire'[p] = <<>> BY <1>5
<1>9. Typed'
  <2>1. wire' \in [Page -> Seq(Message)]
    <3>1. \A p \in Page : wire'[p] \in Seq(Message)
      <4>1. <<>> \in Seq(Message) OBVIOUS
      <4> QED BY <1>7, <1>8, <4>1
    <3>2. wire' = [p \in Page |-> wire'[p]] BY <1>5
    <3> QED BY <3>1, <3>2
  <2>2. Len(log) \in Nat BY DEF IInv, Typed
  <2> QED BY <1>5, <2>1, <2>2 DEF IInv, Typed
<1>10. OfTheLog'
  <2> SUFFICES ASSUME NEW p \in Page, NEW k \in DOMAIN wire'[p]
               PROVE /\ wire'[p][k].type = "event" => wire'[p][k].line \in DOMAIN log
                     /\ wire'[p][k].type = "snapshot" => k = 1 /\ wire'[p][k].lines \subseteq DOMAIN log
    BY <1>5 DEF OfTheLog, IInv
  <2>1. p \in open BY <1>8
  <2>2. CASE k \in DOMAIN wire[p] /\ wire'[p][k] = wire[p][k] BY <2>2 DEF IInv, OfTheLog
  <2>3. CASE \E j \in DOMAIN new : wire'[p][k] = new[j] BY <1>2, <1>3, <2>3
  <2> QED BY <1>7, <2>1, <2>2, <2>3
<1>11. HeardOrComing'
  <2> SUFFICES ASSUME NEW p \in open, NEW i \in DOMAIN log, log[i] = "event", i + SnapshotLimit > page[p].since
               PROVE Coming(p, i)' \/ (i \in page[p].heard /\ \A k \in DOMAIN wire'[p] : wire'[p][k].type # "snapshot")
    BY <1>5 DEF HeardOrComing
  <2>1. CASE i \in Unread
    <3>1. i \in S BY <1>4, <2>1
    <3>2. PICK j \in DOMAIN new : new[j] = EventFrame(i) BY <1>3, <3>1
    <3>3. PICK k \in DOMAIN wire'[p] : wire'[p][k] = new[j] BY <1>7
    <3> QED BY <3>2, <3>3 DEF Coming
  <2>2. ASSUME NEW k \in DOMAIN wire[p],
               wire[p][k] = EventFrame(i) \/ (wire[p][k].type = "snapshot" /\ i \in wire[p][k].lines)
        PROVE Coming(p, i)'
    <3>1. k \in DOMAIN wire'[p] /\ wire'[p][k] = wire[p][k] BY <1>7
    <3> QED BY <2>2, <3>1 DEF Coming
  <2>3. CASE i \in page[p].heard /\ \A k \in DOMAIN wire[p] : wire[p][k].type # "snapshot"
    <3>1. \A k \in DOMAIN wire'[p] : wire'[p][k].type # "snapshot" BY <1>3, <1>7, <2>3
    <3> QED BY <2>3, <3>1
  <2> QED BY <2>1, <2>2, <2>3 DEF IInv, HeardOrComing, Coming
<1> QED BY <1>9, <1>10, <1>11 DEF IInv

\* A page that connects is sent the tail of the log first.
LEMMA ConnectKeeps == ASSUME IInv, NEW p \in Page, Connect(p) PROVE IInv'
<1> DEFINE first == Snapshot(RecentEvents)
           second == Cockpit(CockpitFrame)
<1>1. /\ wire' = [wire EXCEPT ![p] = Opening] /\ page' = [page EXCEPT ![p].since = Len(log)]
      /\ open' = open \cup {p} /\ running
      /\ UNCHANGED <<running, version, pending, log, torn, read, answers>>
  BY DEF Connect
<1>2. Len(log) \in Nat /\ DOMAIN log = 1 .. Len(log) BY DEF IInv, Typed
<1>3. /\ first \in Message /\ first.type = "snapshot" /\ first.lines = RecentEvents
      /\ RecentEvents \subseteq DOMAIN log
  <2>1. RecentEvents \in SUBSET DOMAIN log BY DEF RecentEvents
  <2>2. RecentEvents \in SUBSET Nat BY <1>2, <2>1
  <2> QED BY <2>1, <2>2 DEF Snapshot, Message
<1>4. second \in Message /\ second.type = "cockpit"
  BY DEF Cockpit, CockpitFrame, Message, IInv, Typed
<1>5. Opening = <<first, second>> BY DEF Opening
<1> HIDE DEF first, second
<1>6. Opening \in Seq(Message) /\ DOMAIN Opening = {1, 2} /\ Opening[1] = first /\ Opening[2] = second
  BY <1>3, <1>4, <1>5
<1>7. \A q \in Page : /\ wire'[q] = IF q = p THEN Opening ELSE wire[q]
                      /\ page'[q].heard = page[q].heard
                      /\ page'[q].since = IF q = p THEN Len(log) ELSE page[q].since
  BY <1>1 DEF IInv, Typed, PageState
<1>8. Typed'
  <2>1. page' \in [Page -> PageState]
    BY <1>1, <1>2 DEF IInv, Typed, PageState
  <2>2. wire' \in [Page -> Seq(Message)] BY <1>1, <1>6 DEF IInv, Typed
  <2> QED BY <1>1, <2>1, <2>2 DEF IInv, Typed
<1>9. OfTheLog'
  <2> SUFFICES ASSUME NEW q \in Page
               PROVE /\ page[q].heard \subseteq DOMAIN log
                     /\ \A k \in DOMAIN wire'[q] :
                          /\ wire'[q][k].type = "event" => wire'[q][k].line \in DOMAIN log
                          /\ wire'[q][k].type = "snapshot" => k = 1 /\ wire'[q][k].lines \subseteq DOMAIN log
    BY <1>1, <1>7 DEF OfTheLog
  <2>1. CASE q = p BY <1>3, <1>4, <1>6, <1>7, <2>1 DEF IInv, OfTheLog
  <2>2. CASE q # p BY <1>7, <2>2 DEF IInv, OfTheLog
  <2> QED BY <2>1, <2>2
<1>10. Unread' = Unread BY <1>1 DEF Unread
<1>11. HeardOrComing'
  <2> SUFFICES ASSUME NEW q \in open \cup {p}, NEW i \in DOMAIN log, log[i] = "event",
                      i + SnapshotLimit > page'[q].since
               PROVE \/ Coming(q, i)'
                     \/ i \in page[q].heard /\ \A k \in DOMAIN wire'[q] : wire'[q][k].type # "snapshot"
    BY <1>1, <1>7 DEF HeardOrComing, IInv, Typed
  <2>1. CASE q = p
    <3>1. i \in RecentEvents BY <1>7, <2>1 DEF RecentEvents
    <3>2. 1 \in DOMAIN wire'[q] /\ wire'[q][1] = first BY <1>6, <1>7, <2>1
    <3> QED BY <1>3, <3>1, <3>2 DEF Coming
  <2>2. CASE q # p
    <3>1. q \in open /\ q \in Page BY <2>2 DEF IInv, Typed
    <3>2. wire'[q] = wire[q] /\ page'[q].since = page[q].since BY <1>7, <2>2, <3>1
    <3>3. Coming(q, i)' <=> Coming(q, i) BY <1>10, <3>2 DEF Coming
    <3> QED BY <3>1, <3>2, <3>3 DEF IInv, HeardOrComing
  <2> QED BY <2>1, <2>2
<1> QED BY <1>8, <1>9, <1>11 DEF IInv

\* The snapshot replaces what was heard, an event adds to it, and neither loses a line.
LEMMA ReceiveKeeps == ASSUME IInv, NEW p \in Page, Receive(p) PROVE IInv'
<1>0. PICK frame : frame = Head(wire[p]) OBVIOUS
<1>1. /\ wire[p] # <<>> /\ wire' = [wire EXCEPT ![p] = Tail(wire[p])]
      /\ UNCHANGED <<running, version, pending, log, torn, read, open, answers>>
  BY DEF Receive
<1>2. /\ wire[p] \in Seq(Message) /\ Len(wire[p]) \in Nat \ {0} /\ DOMAIN wire[p] = 1 .. Len(wire[p])
      /\ frame = wire[p][1] /\ frame \in Message /\ 1 \in DOMAIN wire[p]
      /\ Tail(wire[p]) \in Seq(Message) /\ DOMAIN Tail(wire[p]) = 1 .. Len(wire[p]) - 1
      /\ \A k \in 1 .. Len(wire[p]) - 1 : Tail(wire[p])[k] = wire[p][k + 1]
  <2>1. wire[p] \in Seq(Message) BY DEF IInv, Typed
  <2>2. Len(wire[p]) \in Nat \ {0} /\ DOMAIN wire[p] = 1 .. Len(wire[p]) BY <1>1, <2>1
  <2>3. frame = wire[p][1] /\ frame \in Message /\ 1 \in DOMAIN wire[p] BY <1>0, <1>1, <2>1, <2>2
  <2>4. /\ Tail(wire[p]) \in Seq(Message) /\ DOMAIN Tail(wire[p]) = 1 .. Len(wire[p]) - 1
        /\ \A k \in 1 .. Len(wire[p]) - 1 : Tail(wire[p])[k] = wire[p][k + 1]
    BY <1>1, <2>1, <2>2
  <2> QED BY <2>1, <2>2, <2>3, <2>4
\* What stays on the wire was there, one place further, and is no snapshot.
<1>3. \A k \in DOMAIN Tail(wire[p]) : /\ k + 1 \in DOMAIN wire[p] /\ Tail(wire[p])[k] = wire[p][k + 1]
                                      /\ Tail(wire[p])[k].type # "snapshot"
                                      /\ Tail(wire[p])[k].type = "event" => Tail(wire[p])[k].line \in DOMAIN log
  <2> TAKE k \in DOMAIN Tail(wire[p])
  <2>1. k \in Nat /\ k + 1 \in DOMAIN wire[p] /\ k + 1 # 1 /\ Tail(wire[p])[k] = wire[p][k + 1]
    BY <1>2
  <2> QED BY <2>1 DEF IInv, OfTheLog
<1>4. \A k \in DOMAIN wire[p] : k = 1 \/ \E j \in DOMAIN Tail(wire[p]) : Tail(wire[p])[j] = wire[p][k]
  <2> SUFFICES ASSUME NEW k \in DOMAIN wire[p], k # 1
               PROVE \E j \in DOMAIN Tail(wire[p]) : Tail(wire[p])[j] = wire[p][k]
    OBVIOUS
  <2>1. k - 1 \in DOMAIN Tail(wire[p]) /\ (k - 1) + 1 = k BY <1>2
  <2> QED BY <1>3, <2>1
<1>5. page[p] \in PageState BY DEF IInv, Typed
<1>6. frame.type \in {"snapshot", "event", "cockpit"} BY <1>2 DEF Message
<1>7. /\ frame.type = "snapshot" => frame.lines \in SUBSET Nat /\ frame.lines \subseteq DOMAIN log
      /\ frame.type = "event" => frame.line \in Nat /\ frame.line \in DOMAIN log
      /\ frame.type = "cockpit" => frame.frame \in Frame
  BY <1>2 DEF Message, IInv, OfTheLog
<1>8. PICK mine : page' = [page EXCEPT ![p] = mine]
        /\ (frame.type = "snapshot" => mine = [page[p] EXCEPT !.heard = frame.lines])
        /\ (frame.type = "event" => mine = [page[p] EXCEPT !.heard = @ \cup {frame.line}])
        /\ (frame.type = "cockpit" => mine = [page[p] EXCEPT !.cockpit = frame.frame, !.pushed = frame.frame])
  <2> DEFINE next ==
        CASE frame.type = "snapshot" -> [page[p] EXCEPT !.heard = frame.lines]
          [] frame.type = "event"    -> [page[p] EXCEPT !.heard = @ \cup {frame.line}]
          [] frame.type = "cockpit"  -> [page[p] EXCEPT !.cockpit = frame.frame, !.pushed = frame.frame]
  <2>1. page' = [page EXCEPT ![p] = next] BY <1>0 DEF Receive, IInv, Typed
  <2>2. /\ frame.type = "snapshot" => next = [page[p] EXCEPT !.heard = frame.lines]
        /\ frame.type = "event" => next = [page[p] EXCEPT !.heard = @ \cup {frame.line}]
        /\ frame.type = "cockpit" => next = [page[p] EXCEPT !.cockpit = frame.frame, !.pushed = frame.frame]
    OBVIOUS
  <2> HIDE DEF next
  <2> QED BY <2>1, <2>2
<1>81. /\ mine \in PageState /\ mine.since = page[p].since
       /\ frame.type = "snapshot" => mine.heard = frame.lines
       /\ frame.type = "event" => mine.heard = page[p].heard \cup {frame.line}
       /\ frame.type = "cockpit" => mine.heard = page[p].heard
  <2> USE DEF PageState
  <2>1. CASE frame.type = "snapshot" BY <1>5, <1>7, <1>8, <2>1
  <2>2. CASE frame.type = "event"
    <3>1. page[p].heard \cup {frame.line} \in SUBSET Nat BY <1>5, <1>7, <2>2
    <3> QED BY <1>5, <1>8, <2>2, <3>1
  <2>3. CASE frame.type = "cockpit" BY <1>5, <1>7, <1>8, <2>3
  <2> QED BY <1>6, <2>1, <2>2, <2>3
<1>82. page' \in [Page -> PageState] BY <1>8, <1>81 DEF IInv, Typed
<1>9. /\ page'[p].since = page[p].since
      /\ \A q \in Page \ {p} : page'[q] = page[q] /\ wire'[q] = wire[q]
      /\ wire'[p] = Tail(wire[p])
      /\ frame.type = "snapshot" => page'[p].heard = frame.lines
      /\ frame.type = "event" => page'[p].heard = page[p].heard \cup {frame.line}
      /\ frame.type = "cockpit" => page'[p].heard = page[p].heard
  <2>1. page'[p] = mine /\ \A q \in Page \ {p} : page'[q] = page[q] BY <1>8 DEF IInv, Typed
  <2>2. wire'[p] = Tail(wire[p]) /\ \A q \in Page \ {p} : wire'[q] = wire[q] BY <1>1 DEF IInv, Typed
  <2> QED BY <1>81, <2>1, <2>2
<1>10. Typed'
  <2>1. wire' \in [Page -> Seq(Message)] BY <1>1, <1>2 DEF IInv, Typed
  <2> QED BY <1>1, <1>82, <2>1 DEF IInv, Typed
<1>11. OfTheLog'
  <2> SUFFICES ASSUME NEW q \in Page
               PROVE /\ page'[q].heard \subseteq DOMAIN log
                     /\ \A k \in DOMAIN wire'[q] :
                          /\ wire'[q][k].type = "event" => wire'[q][k].line \in DOMAIN log
                          /\ wire'[q][k].type = "snapshot" => k = 1 /\ wire'[q][k].lines \subseteq DOMAIN log
    BY <1>1 DEF OfTheLog
  <2>1. CASE q = p BY <1>3, <1>6, <1>7, <1>9, <2>1 DEF IInv, OfTheLog
  <2>2. CASE q # p BY <1>9, <2>2 DEF IInv, OfTheLog
  <2> QED BY <2>1, <2>2
<1>12. Unread' = Unread BY <1>1 DEF Unread
<1>13. HeardOrComing'
  <2> SUFFICES ASSUME NEW q \in open, NEW i \in DOMAIN log, log[i] = "event", i + SnapshotLimit > page'[q].since
               PROVE \/ Coming(q, i)'
                     \/ i \in page'[q].heard /\ \A k \in DOMAIN wire'[q] : wire'[q][k].type # "snapshot"
    BY <1>1 DEF HeardOrComing
  <2>0. q \in Page BY DEF IInv, Typed
  <2>1. CASE q # p
    <3>1. Coming(q, i)' <=> Coming(q, i) BY <1>9, <1>12, <2>0, <2>1 DEF Coming
    <3> QED BY <1>9, <2>0, <2>1, <3>1 DEF IInv, HeardOrComing
  <2>2. CASE q = p
    <3>1. \A k \in DOMAIN wire'[q] : wire'[q][k].type # "snapshot" BY <1>3, <1>9, <2>2
    <3>2. CASE i \in Unread BY <1>12, <3>2 DEF Coming
    <3>3. ASSUME NEW k \in DOMAIN wire[p], k # 1,
                 wire[p][k] = EventFrame(i) \/ (wire[p][k].type = "snapshot" /\ i \in wire[p][k].lines)
          PROVE Coming(q, i)'
      <4>1. PICK j \in DOMAIN wire'[q] : wire'[q][j] = wire[p][k] BY <1>4, <1>9, <2>2, <3>3
      <4> QED BY <3>3, <4>1 DEF Coming
    <3>4. CASE frame = EventFrame(i)
      <4>1. frame.type = "event" /\ frame.line = i BY <3>4 DEF EventFrame
      <4> QED BY <1>9, <2>2, <3>1, <4>1
    <3>5. CASE frame.type = "snapshot" /\ i \in frame.lines BY <1>9, <2>2, <3>1, <3>5
    <3>6. CASE i \in page[p].heard /\ \A k \in DOMAIN wire[p] : wire[p][k].type # "snapshot"
      <4>1. frame.type # "snapshot" BY <1>2, <3>6
      <4> QED BY <1>6, <1>9, <2>2, <3>1, <3>6, <4>1
    <3>7. \/ Coming(p, i)
          \/ i \in page[p].heard /\ \A k \in DOMAIN wire[p] : wire[p][k].type # "snapshot"
      BY <1>9, <2>2 DEF IInv, HeardOrComing
    <3> QED BY <1>2, <3>2, <3>3, <3>4, <3>5, <3>6, <3>7 DEF Coming
  <2> QED BY <2>1, <2>2
<1> QED BY <1>10, <1>11, <1>13 DEF IInv

LEMMA DisconnectKeeps == ASSUME IInv, NEW p \in Page, Disconnect(p) PROVE IInv'
<1>1. /\ open' = open \ {p} /\ wire' = [wire EXCEPT ![p] = <<>>]
      /\ UNCHANGED <<running, version, pending, log, torn, read, answers, page>>
  BY DEF Disconnect
<1>2. <<>> \in Seq(Message) /\ DOMAIN <<>> = {} OBVIOUS
<1>3. Typed'
  <2>1. wire' \in [Page -> Seq(Message)] BY <1>1, <1>2 DEF IInv, Typed
  <2> QED BY <1>1, <2>1 DEF IInv, Typed
<1>4. \A q \in Page : wire'[q] = IF q = p THEN <<>> ELSE wire[q] BY <1>1 DEF IInv, Typed
<1>5. OfTheLog' BY <1>1, <1>2, <1>4 DEF IInv, OfTheLog
<1>6. Unread' = Unread BY <1>1 DEF Unread
<1>7. HeardOrComing'
  <2> SUFFICES ASSUME NEW q \in open \ {p}, NEW i \in DOMAIN log, log[i] = "event", i + SnapshotLimit > page[q].since
               PROVE \/ Coming(q, i)'
                     \/ i \in page[q].heard /\ \A k \in DOMAIN wire'[q] : wire'[q][k].type # "snapshot"
    BY <1>1 DEF HeardOrComing
  <2>1. wire'[q] = wire[q] BY <1>4 DEF IInv, Typed
  <2>2. Coming(q, i)' <=> Coming(q, i) BY <1>6, <2>1 DEF Coming
  <2> QED BY <2>1, <2>2 DEF IInv, HeardOrComing
<1> QED BY <1>3, <1>5, <1>7 DEF IInv

LEMMA AnswerKeeps == ASSUME IInv, NEW p \in Page, Refresh(p) \/ Answer(p) PROVE IInv'
<1>1. UNCHANGED <<running, version, pending, log, torn, read, open, wire>> BY DEF Refresh, Answer
<1>2. /\ page' \in [Page -> PageState]
      /\ answers' \in [Page -> SUBSET Frame]
      /\ \A q \in Page : page'[q].heard = page[q].heard /\ page'[q].since = page[q].since
  <2>1. CASE Refresh(p)
    <3>1. /\ page' = [page EXCEPT ![p] = [page[p] EXCEPT !.asked = @ + 1]]
          /\ answers' = [answers EXCEPT ![p] = answers[p] \cup {version}]
      BY <2>1 DEF Refresh, CockpitFrame
    <3>2. [page[p] EXCEPT !.asked = @ + 1] \in PageState
      <4>1. page[p] \in PageState BY DEF IInv, Typed
      <4> QED BY <4>1 DEF PageState
    <3>3. page' \in [Page -> PageState] BY <3>1, <3>2 DEF IInv, Typed
    <3>4. answers' \in [Page -> SUBSET Frame] BY <3>1 DEF IInv, Typed
    <3>5. \A q \in Page : page'[q].heard = page[q].heard /\ page'[q].since = page[q].since
      <4>1. page[p] \in PageState /\ \A q \in Page : page'[q] = IF q = p THEN [page[p] EXCEPT !.asked = @ + 1] ELSE page[q]
        BY <3>1 DEF IInv, Typed
      <4> QED BY <4>1 DEF PageState
    <3> QED BY <3>3, <3>4, <3>5
  <2>2. CASE Answer(p)
    <3>1. PICK v \in answers[p] : /\ page' = [page EXCEPT ![p].cockpit = v]
                                  /\ answers' = [answers EXCEPT ![p] = @ \ {v}]
      BY <2>2 DEF Answer
    <3>2. v \in Frame BY DEF IInv, Typed
    <3> QED BY <3>1, <3>2 DEF IInv, Typed, PageState
  <2> QED BY <2>1, <2>2
<1>3. Typed' BY <1>1, <1>2 DEF IInv, Typed
<1>4. OfTheLog' BY <1>1, <1>2 DEF IInv, OfTheLog
<1>5. Unread' = Unread BY <1>1 DEF Unread
<1>6. HeardOrComing'
  <2> SUFFICES ASSUME NEW q \in open, NEW i \in DOMAIN log, log[i] = "event", i + SnapshotLimit > page[q].since
               PROVE \/ Coming(q, i)'
                     \/ i \in page[q].heard /\ \A k \in DOMAIN wire[q] : wire[q][k].type # "snapshot"
    BY <1>1, <1>2 DEF HeardOrComing, IInv, Typed
  <2>1. Coming(q, i)' <=> Coming(q, i) BY <1>1, <1>5 DEF Coming
  <2> QED BY <2>1 DEF IInv, HeardOrComing
<1> QED BY <1>3, <1>4, <1>6 DEF IInv

LEMMA NextKeeps == IInv /\ [FeedNext]_feedVars => IInv'
<1> SUFFICES ASSUME IInv, [FeedNext]_feedVars PROVE IInv' OBVIOUS
<1>1. ASSUME NEW p \in Page, Connect(p) \/ Receive(p) \/ Disconnect(p) \/ Refresh(p) \/ Answer(p)
      PROVE IInv'
  BY <1>1, ConnectKeeps, ReceiveKeeps, DisconnectKeeps, AnswerKeeps
<1>2. CASE UNCHANGED feedVars
  <2>1. Typed' BY <1>2 DEF feedVars, IInv, Typed
  <2> QED BY <1>2, <2>1, FeedQuietKeeps DEF feedVars
<1> QED
  BY <1>1, <1>2, PutKeeps, AppendEventKeeps, AppendCutKeeps, RestartKeeps, PollKeeps DEF FeedNext

\* The invariant of the feed, for any pages, any number of writes, kills and broken connections.
THEOREM FeedInvariant == FeedSpec => []IInv
  BY InitKept, NextKeeps, PTL DEF FeedSpec

\* A page has heard only lines there are and shows a frame of the records.
THEOREM FeedIsTyped == FeedSpec => []FeedTypeOK
<1>1. IInv => FeedTypeOK
  <2> SUFFICES ASSUME IInv PROVE FeedTypeOK OBVIOUS
  <2>1. read.lines \in 0 .. Len(log) /\ read.behind \in BOOLEAN BY DEF IInv, Typed
  <2>2. \A p \in Page : page[p].heard \subseteq DOMAIN log /\ page[p].cockpit \in Frame
    BY DEF IInv, Typed, OfTheLog, PageState
  <2> QED BY <2>1, <2>2 DEF IInv, Typed, FeedTypeOK
<1> QED BY <1>1, FeedInvariant, PTL

\* A connected page misses no event that parses, from the first the snapshot carried, whatever
\* was cut, killed or reconnected before (open in http.ts, pollNow).
THEOREM NothingIsEverMissed == FeedSpec => []NothingMissed
<1>1. IInv => NothingMissed
  <2> SUFFICES ASSUME IInv, NEW p \in open, NEW i \in DOMAIN log, log[i] = "event", i + SnapshotLimit > page[p].since
               PROVE \/ i \in page[p].heard \cup Unread
                     \/ \E f \in OnItsWay(p) : f = EventFrame(i) \/ (f.type = "snapshot" /\ i \in f.lines)
    BY DEF NothingMissed
  <2> QED BY DEF IInv, HeardOrComing, Coming, OnItsWay
<1> QED BY <1>1, FeedInvariant, PTL
===============================================================================
