--------------------------------- MODULE Daemon ---------------------------------
(***************************************************************************)
(* One daemon per state home.  `agile daemon start` looks for a running    *)
(* daemon in the pidfile, clears a stale one, spawns a child and waits for *)
(* the pidfile to name a live process; the child binds its port, takes the *)
(* lock, which is that same pidfile, and then its unix socket.             *)
(* `agile daemon stop` signals the pid it finds and waits for the process  *)
(* to be gone.  The commands and the daemons are processes: between any    *)
(* two of their system calls another may run, and any of them may crash.   *)
(***************************************************************************)
EXTENDS Naturals, FiniteSets

CONSTANTS
  Pid,       \* the processes that may become daemons, each once
  Port,      \* the ports a start may be configured with
  Command,   \* the terminals commands are typed in
  None

ASSUME DaemonAssumption == None \notin Pid \cup [by : Pid, filled : BOOLEAN] /\ Port # {}

VARIABLES
  proc,      \* where each process is
  port,      \* the port it was started for
  listener,  \* who listens on each port
  pidfile,   \* None, or [by, filled]: who created it, and whether its pid is in it yet
  socket,    \* who bound the socket file, or None
  command    \* what each terminal is at: [at, pid, said]

vars == <<proc, port, listener, pidfile, socket, command>>

Phase == {"none", "open", "bound", "unlink", "create", "fill", "locked", "serving",
          "closing", "unbound", "closed", "released", "exited"}
Step == {"idle", "clear", "spawn", "start", "foreground", "stop", "nothing"}
Report == {"", "already running", "started", "did not start", "stopped", "not running", "did not exit"}

Alive(p) == proc[p] \notin {"none", "exited"}

\* runningPid: the pid in the pidfile, if it is a number and the process lives.
RunningPid == {p \in Pid : pidfile = [by |-> p, filled |-> TRUE] /\ Alive(p)}

Init ==
  /\ proc = [p \in Pid |-> "none"] /\ port \in [Pid -> Port]
  /\ listener = [n \in Port |-> None]
  /\ pidfile = None /\ socket = None
  /\ command = [c \in Command |-> [at |-> "idle", pid |-> None, said |-> ""]]

-------------------------------------------------------------------------------
(* The daemon *)

Become(p, phase) == proc' = [proc EXCEPT ![p] = phase]

\* server.stop(true), or the kernel when the process is gone.
Unbind(p) == listener' = [n \in Port |-> IF listener[n] = p THEN None ELSE listener[n]]

\* startDaemon failed, or the process was killed: files stay as they are.
Exit(p) == Become(p, "exited") /\ Unbind(p)

\* startHttpServer, before the lock: a port in use ends the start.
Bind(p) ==
  /\ proc[p] = "open"
  /\ IF listener[port[p]] = None
     THEN Become(p, "bound") /\ listener' = [listener EXCEPT ![port[p]] = p]
     ELSE Exit(p)
  /\ UNCHANGED <<port, pidfile, socket, command>>

\* Mutant: the pid in the file is not asked whether it lives.
HeldBlindly(p) == FALSE

\* The lock file names a process that lives.
Held(p) == RunningPid # {}

\* acquireLock: respect a live holder, reclaim a stale file.  A file that has no pid in
\* it yet reads as stale.
LookAtLock(p) ==
  /\ proc[p] = "bound"
  /\ CASE pidfile = None -> Become(p, "create") /\ UNCHANGED listener
       [] pidfile # None /\ Held(p) -> Exit(p)
       [] OTHER -> Become(p, "unlink") /\ UNCHANGED listener
  /\ UNCHANGED <<port, pidfile, socket, command>>

\* unlinkSync removes whatever is there by now, and throws when nothing is.
UnlinkLock(p) ==
  /\ proc[p] = "unlink"
  /\ IF pidfile = None THEN Exit(p) ELSE Become(p, "create") /\ UNCHANGED listener
  /\ pidfile' = None
  /\ UNCHANGED <<port, socket, command>>

\* The exclusive create; EEXIST is a lost race.
CreateLock(p) ==
  /\ proc[p] = "create"
  /\ IF pidfile = None
     THEN /\ Become(p, "fill") /\ pidfile' = [by |-> p, filled |-> FALSE]
          /\ UNCHANGED listener
     ELSE Exit(p) /\ UNCHANGED pidfile
  /\ UNCHANGED <<port, socket, command>>

\* The pid goes into the file that was created, unlinked or not.
FillLock(p) ==
  /\ proc[p] = "fill"
  /\ Become(p, "locked")
  /\ pidfile' = IF pidfile = [by |-> p, filled |-> FALSE] THEN [pidfile EXCEPT !.filled = TRUE] ELSE pidfile
  /\ UNCHANGED <<port, listener, socket, command>>

\* startRpcServer unlinks the socket file that is there and binds its own.
Listen(p) ==
  /\ proc[p] = "locked"
  /\ Become(p, "serving") /\ socket' = p
  /\ UNCHANGED <<port, listener, pidfile, command>>

\* release: only a file that still names this process.
Released(p) == IF pidfile = [by |-> p, filled |-> TRUE] THEN None ELSE pidfile

\* The socket cannot be bound: the lock is given back and the start fails.
CannotListen(p) ==
  /\ proc[p] = "locked"
  /\ Exit(p) /\ pidfile' = Released(p)
  /\ UNCHANGED <<port, socket, command>>

\* SIGTERM ends a process that has not installed its handlers; one that serves begins to stop.
Signalled(p) == IF proc[p] = "serving" THEN "closing"
                ELSE IF proc[p] \in {"closing", "unbound", "closed", "released"} THEN proc[p]
                ELSE "exited"

\* From outside: Ctrl-C, a kill.
Terminate(p) ==
  /\ proc[p] = "serving"
  /\ Become(p, Signalled(p))
  /\ UNCHANGED <<port, listener, pidfile, socket, command>>

\* stop(): the sessions, then the HTTP server ...
StopHttp(p) ==
  /\ proc[p] = "closing"
  /\ Become(p, "unbound") /\ Unbind(p)
  /\ UNCHANGED <<port, pidfile, socket, command>>

\* ... the RPC server, whose close unlinks the socket file that is there ...
CloseRpc(p) ==
  /\ proc[p] = "unbound"
  /\ Become(p, "closed") /\ socket' = None
  /\ UNCHANGED <<port, listener, pidfile, command>>

\* ... and last the lock.
ReleaseLock(p) ==
  /\ proc[p] = "closed"
  /\ Become(p, "released") /\ pidfile' = Released(p)
  /\ UNCHANGED <<port, listener, socket, command>>

Leave(p) ==
  /\ proc[p] = "released"
  /\ Exit(p)
  /\ UNCHANGED <<port, pidfile, socket, command>>

Crash(p) ==
  /\ Alive(p)
  /\ Exit(p)
  /\ UNCHANGED <<port, pidfile, socket, command>>

-------------------------------------------------------------------------------
(* The commands *)

Goto(c, at, p) == command' = [command EXCEPT ![c] = [at |-> at, pid |-> p, said |-> ""]]
Say(c, said, p) == command' = [command EXCEPT ![c] = [at |-> "idle", pid |-> p, said |-> said]]

\* Bound: a start is typed while there is a process left for it.
Spare == Cardinality({p \in Pid : proc[p] = "none"}) > Cardinality({c \in Command : command[c].at \in {"clear", "spawn"}})

\* runDaemonStart: a daemon that runs is left alone.
Start(c) ==
  /\ command[c].at = "idle" /\ Spare
  /\ \/ /\ RunningPid = {}
        /\ Goto(c, "clear", None)
     \/ \E p \in RunningPid : Say(c, "already running", p)
  /\ UNCHANGED <<proc, port, listener, pidfile, socket>>

\* The pidfile was stale when it was looked at; it is removed as it is now.
ClearStale(c) ==
  /\ command[c].at = "clear"
  /\ pidfile' = None /\ Goto(c, "spawn", None)
  /\ UNCHANGED <<proc, port, listener, socket>>

Spawn(c) ==
  /\ command[c].at = "spawn"
  /\ \E p \in Pid : proc[p] = "none" /\ Become(p, "open") /\ Goto(c, "start", p)
  /\ UNCHANGED <<port, listener, pidfile, socket>>

\* `start --foreground` is the daemon itself: it looks for no other.
Foreground(c) ==
  /\ command[c].at = "idle" /\ Spare
  /\ \E p \in Pid : proc[p] = "none" /\ Become(p, "open") /\ Goto(c, "foreground", p)
  /\ UNCHANGED <<port, listener, pidfile, socket>>

\* Mutant: a parent that waits for the pidfile only.
AwaitPidfile(c) ==
  /\ LET child == command[c].pid IN
     \/ /\ command[c].at = "start" /\ proc[child] # "exited"
        /\ \E p \in RunningPid : Say(c, "started", p)
     \/ /\ command[c].at = "foreground" /\ proc[child] \in {"serving", "exited"}
        /\ Say(c, IF proc[child] = "serving" THEN "started" ELSE "did not start", child)
  /\ UNCHANGED <<proc, port, listener, pidfile, socket>>

\* The parent polls: a child that exited has failed, whatever the pidfile says.
AwaitStart(c) ==
  /\ command[c].at \in {"start", "foreground"}
  /\ LET child == command[c].pid IN
     \/ proc[child] = "exited" /\ Say(c, "did not start", child)
     \/ /\ command[c].at = "start" /\ proc[child] # "exited"
        /\ \E p \in RunningPid : Say(c, "started", p)
     \/ /\ command[c].at = "foreground" /\ proc[child] = "serving"
        /\ Say(c, "started", child)
  /\ UNCHANGED <<proc, port, listener, pidfile, socket>>

\* runDaemonStop: SIGTERM to the pid in the file ...
Stop(c) ==
  /\ command[c].at = "idle"
  /\ \/ /\ RunningPid = {}
        /\ Goto(c, "nothing", None) /\ UNCHANGED <<proc, listener>>
     \/ \E p \in RunningPid :
          /\ Goto(c, "stop", p)
          /\ IF Signalled(p) = "exited" THEN Exit(p) ELSE Become(p, Signalled(p)) /\ UNCHANGED listener
  /\ UNCHANGED <<port, pidfile, socket>>

\* ... or nothing to stop, and a stale pidfile to clear.
NothingToStop(c) ==
  /\ command[c].at = "nothing"
  /\ pidfile' = None /\ Say(c, "not running", None)
  /\ UNCHANGED <<proc, port, listener, socket>>

\* Mutant: the command does not wait for the process to be gone.
GoneAtOnce(p) == TRUE

Gone(p) == ~Alive(p)

\* A poll finds the process gone, and the pidfile, if there is one, left behind.
AwaitStop(c) ==
  /\ command[c].at = "stop" /\ Gone(command[c].pid)
  /\ pidfile' = None /\ Say(c, "stopped", command[c].pid)
  /\ UNCHANGED <<proc, port, listener, socket>>

\* The daemon takes longer to stop its sessions than the command waits.
StopTimesOut(c) ==
  /\ command[c].at = "stop" /\ Alive(command[c].pid)
  /\ Say(c, "did not exit", command[c].pid)
  /\ UNCHANGED <<proc, port, listener, pidfile, socket>>

DaemonStep(p) ==
  \/ Bind(p) \/ LookAtLock(p) \/ UnlinkLock(p) \/ CreateLock(p) \/ FillLock(p)
  \/ Listen(p) \/ CannotListen(p) \/ StopHttp(p) \/ CloseRpc(p) \/ ReleaseLock(p) \/ Leave(p)

CommandStep(c) == ClearStale(c) \/ Spawn(c) \/ AwaitStart(c) \/ NothingToStop(c) \/ AwaitStop(c)

Next ==
  \/ \E p \in Pid : DaemonStep(p) \/ Terminate(p) \/ Crash(p)
  \/ \E c \in Command : CommandStep(c) \/ Start(c) \/ Foreground(c) \/ Stop(c) \/ StopTimesOut(c)

\* Every process keeps running until it is killed, and a command polls until it is answered.
Fairness ==
  /\ \A p \in Pid : WF_vars(DaemonStep(p))
  /\ \A c \in Command : WF_vars(CommandStep(c))

Spec == Init /\ [][Next]_vars /\ Fairness

-------------------------------------------------------------------------------
TypeOK ==
  /\ proc \in [Pid -> Phase] /\ port \in [Pid -> Port]
  /\ listener \in [Port -> Pid \cup {None}]
  /\ \A n \in Port : listener[n] = None \/ (port[listener[n]] = n /\ Alive(listener[n]))
  /\ pidfile \in {None} \cup [by : Pid, filled : BOOLEAN]
  /\ socket \in Pid \cup {None}
  /\ command \in [Command -> [at : Step, pid : Pid \cup {None}, said : Report]]

\* A daemon that serves can be found: the pidfile names it and the socket is its own, so
\* status, stop and every other command reach it (lock.ts, startRpcServer).
ServingIsReachable ==
  \A p \in Pid : proc[p] = "serving" => pidfile = [by |-> p, filled |-> TRUE] /\ socket = p

\* A stop that says there is nothing left is right: no process serves, is about to, or holds
\* a port (runDaemonStop).
StopLeavesNone ==
  \A c \in Command : command[c].at = "idle" /\ command[c].said \in {"stopped", "not running"} =>
    \A p \in Pid : proc[p] \in {"none", "released", "exited"}

\* A stop clears the pidfile its daemon may have left behind, never that of a daemon that
\* serves by then: "don't clobber a lock another process now holds" (lock.ts).
StopSparesTheNext ==
  [][\A c \in Command : command[c].at = "stop" /\ command'[c].said = "stopped" =>
       \A p \in Pid : proc[p] = "serving" /\ pidfile = [by |-> p, filled |-> TRUE] => pidfile' = pidfile]_vars

\* Every command that was typed comes back to the prompt, whoever crashes meanwhile.
CommandsReturn ==
  \A c \in Command : command[c].at # "idle" ~> command[c].at = "idle"
===============================================================================
