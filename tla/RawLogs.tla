-------------------------------- MODULE RawLogs --------------------------------
(* The `test_run` verb: several runs of one worktree's tests at once.  Each has two
   capture files that its process writes and one combined log whose path the agent
   is given; after every run a sweep deletes the oldest files of the `raw/` tree
   down to a budget.  The clock is Date.now() and a file's mtime alike, and several
   events may share a tick.  What a failure looks like in the output is left out. *)
EXTENDS Naturals, FiniteSetsExt, Functions

CONSTANTS
  Run,
  Budget,       \* MAX_RETAINED_RAW_OUTPUT_BYTES
  MaxOutput,    \* how much a process writes to each stream
  MaxTime,      \* bound on the clock
  MaxDeaths     \* bound on the daemon's deaths

VARIABLES
  now,
  phase,       \* how far each run is
  startedAt,   \* runStartedAt
  size, mtime, \* the files there are: how long, and when last written
  inFlight,    \* inFlightRawOutputPaths
  wrote,       \* history: what the run's process has written to each stream
  seen,        \* history: the phases a run found when it started
  overBudget,  \* the runs told `raw_output_over_budget`
  deaths

files == <<size, mtime>>
history == <<wrote, seen>>
logsVars == <<now, phase, startedAt, files, inFlight, history, overBudget, deaths>>

Streams == {"out", "err"}
Captures(r) == {r} \X Streams
Log(r) == <<r, "log">>
Paths(r) == Captures(r) \cup {Log(r)}
Disk == DOMAIN size
Bytes(paths) == SumFunctionOnSet(size, paths)
Active == {"running", "exited", "read", "half", "combined"}
Phase == Active \cup {"idle", "refused", "orphan", "failed", "returned"}

LogsInit ==
  /\ now = 0
  /\ phase = [r \in Run |-> "idle"] /\ startedAt = [r \in Run |-> 0]
  /\ size = <<>> /\ mtime = <<>> /\ inFlight = {}
  /\ wrote = [r \in Run |-> [s \in Streams |-> 0]] /\ seen = [r \in Run |-> <<>>]
  /\ overBudget = {} /\ deaths = 0

\* A file grows by n bytes, if it is still there; or it is created with them.
Grow(path, n) ==
  /\ size' = [size EXCEPT ![path] = @ + n]
  /\ mtime' = [mtime EXCEPT ![path] = now]

CreateFiles(paths, n) ==
  /\ size' = [p \in Disk \cup paths |-> IF p \in paths THEN n ELSE size[p]]
  /\ mtime' = [p \in Disk \cup paths |-> IF p \in paths THEN now ELSE mtime[p]]

Enter(r, p) == phase' = [phase EXCEPT ![r] = p]

-------------------------------------------------------------------------------
(* A run *)

\* No test command, a directory outside the worktree: nothing is started.
Refuse(r) ==
  /\ phase[r] = "idle" /\ Enter(r, "refused")
  /\ UNCHANGED <<now, startedAt, files, inFlight, history, overBudget, deaths>>

\* The start time is taken, the three paths are registered, the process spawned.
Start(r) ==
  /\ phase[r] = "idle" /\ Enter(r, "running")
  /\ startedAt' = [startedAt EXCEPT ![r] = now]
  /\ inFlight' = inFlight \cup Paths(r)
  /\ CreateFiles(Captures(r), 0)
  /\ seen' = [seen EXCEPT ![r] = phase]
  /\ UNCHANGED <<now, wrote, overBudget, deaths>>

\* The process writes; it outlives a killed daemon.
Write(r, s) ==
  /\ phase[r] \in {"running", "orphan"} /\ wrote[r][s] < MaxOutput
  /\ wrote' = [wrote EXCEPT ![r][s] = @ + 1]
  /\ IF <<r, s>> \in Disk THEN Grow(<<r, s>>, 1) ELSE UNCHANGED files
  /\ UNCHANGED <<now, phase, startedAt, inFlight, seen, overBudget, deaths>>

\* It ends, or is killed at the timeout.
ProcessEnds(r) ==
  /\ phase[r] = "running" /\ Enter(r, "exited")
  /\ UNCHANGED <<now, startedAt, files, inFlight, history, overBudget, deaths>>

\* A run that fails lets go of its paths; what it wrote stays for a later sweep.
Fail(r) ==
  /\ Enter(r, "failed") /\ inFlight' = inFlight \ Paths(r)
  /\ UNCHANGED <<now, startedAt, files, history, overBudget, deaths>>

\* The tails are read for the failures in them; a capture that is gone cannot be.
readCappedTail(r) ==
  /\ phase[r] = "exited"
  /\ IF Captures(r) \subseteq Disk
     THEN /\ Enter(r, "read")
          /\ UNCHANGED <<now, startedAt, files, inFlight, history, overBudget, deaths>>
     ELSE Fail(r)

\* The captures are copied into the log one after the other.
CombineOut(r) ==
  /\ phase[r] = "read" /\ Enter(r, "half")
  /\ CreateFiles({Log(r)}, IF <<r, "out">> \in Disk THEN size[<<r, "out">>] ELSE 0)
  /\ UNCHANGED <<now, startedAt, inFlight, history, overBudget, deaths>>

CombineErr(r) ==
  /\ phase[r] = "half" /\ Enter(r, "combined")
  /\ IF {Log(r), <<r, "err">>} \subseteq Disk /\ size[<<r, "err">>] > 0
     THEN Grow(Log(r), size[<<r, "err">>])
     ELSE UNCHANGED files
  /\ UNCHANGED <<now, startedAt, inFlight, history, overBudget, deaths>>

\* A full disk, say.
CombineFails(r) == phase[r] = "half" /\ Fail(r)

\* Neither its own files, nor those of a run in flight, nor what was written since
\* it started.
Prunable(r, disk) == {p \in disk : p \notin inFlight /\ mtime[p] < startedAt[r]}

\* The files a sweep may delete: the oldest, while the total is over the budget.
Pruned(r, disk) ==
  LET prunable == Prunable(r, disk) IN
  IF Bytes(disk) <= Budget \/ prunable = {} THEN {{}}
  ELSE {gone \in SUBSET prunable :
          /\ \A p \in gone, q \in prunable \ gone : mtime[p] <= mtime[q]
          /\ Bytes(disk \ gone) <= Budget \/ gone = prunable
          /\ \E last \in gone : /\ \A p \in gone : mtime[p] <= mtime[last]
                                /\ Bytes(disk \ (gone \ {last})) > Budget}

\* In one step: the captures go, the tree is swept, the result is made, the paths
\* are let go of.
Finish(r) ==
  /\ phase[r] = "combined" /\ Enter(r, "returned")
  /\ LET disk == Disk \ Captures(r) IN
     \E gone \in Pruned(r, disk) :
       /\ size' = Restrict(size, disk \ gone) /\ mtime' = Restrict(mtime, disk \ gone)
       /\ overBudget' = IF Bytes(disk \ gone) > Budget THEN overBudget \cup {r} ELSE overBudget
  /\ inFlight' = inFlight \ Paths(r)
  /\ UNCHANGED <<now, startedAt, history, deaths>>

-------------------------------------------------------------------------------

Tick ==
  /\ now < MaxTime /\ now' = now + 1
  /\ UNCHANGED <<phase, startedAt, files, inFlight, history, overBudget, deaths>>

\* kill -9 and a start: the files stay, nobody knows whose they are.
Die ==
  /\ deaths < MaxDeaths /\ deaths' = deaths + 1
  /\ phase' = [r \in Run |-> IF phase[r] = "running" THEN "orphan"
                             ELSE IF phase[r] \in Active THEN "failed" ELSE phase[r]]
  /\ inFlight' = {}
  /\ UNCHANGED <<now, startedAt, files, history, overBudget>>

LogsNext ==
  \/ \E r \in Run : \/ Refuse(r) \/ Start(r) \/ \E s \in Streams : Write(r, s)
                    \/ ProcessEnds(r) \/ readCappedTail(r) \/ CombineOut(r) \/ CombineErr(r)
                    \/ CombineFails(r) \/ Finish(r)
  \/ Tick \/ Die

LogsSpec == LogsInit /\ [][LogsNext]_logsVars

-------------------------------------------------------------------------------
(* Properties *)

LogsTypeOK ==
  /\ now \in Nat /\ deaths \in Nat
  /\ phase \in [Run -> Phase]
  /\ startedAt \in [Run -> Nat]
  /\ Disk \subseteq UNION {Paths(r) : r \in Run}
  /\ size \in [Disk -> Nat] /\ mtime \in [Disk -> Nat]
  /\ inFlight \subseteq UNION {Paths(r) : r \in Run}
  /\ wrote \in [Run -> [Streams -> Nat]] /\ seen \in [Run -> {<<>>} \cup [Run -> Phase]]
  /\ overBudget \subseteq Run

Returns(r) == phase[r] = "combined" /\ phase'[r] = "returned"

\* test-run.ts:56, "the pointer is always live": whatever other runs swept meanwhile, the
\* log a run returns is there, with everything its process wrote.
PointerIsLive ==
  [][\A r \in Run : Returns(r) =>
       Log(r) \in Disk' /\ size'[Log(r)] = wrote[r]["out"] + wrote[r]["err"]]_logsVars

\* No sweep takes a log that had yet to be written when the sweeping run began: what an
\* agent was given while that run was going on stays readable.
OlderSweepsSpareIt ==
  [][\A r, s \in Run : Returns(s) /\ Log(r) \in Disk \ Disk' /\ phase[r] = "returned" =>
       seen[s][r] \in {"half", "combined", "returned"}]_logsVars

-------------------------------------------------------------------------------
(* What the repository says and the code does not keep *)

\* test-run.ts:446, "a run's raw_output survives every sweep by a run that started
\* before or during it".
OverlapSparesIt ==
  [][\A r, s \in Run : Returns(s) /\ Log(r) \in Disk \ Disk' /\ phase[r] = "returned" =>
       seen[s][r] = "returned"]_logsVars

\* test-run.ts:61, "This run's own log alone exceeds the retained-bytes budget".
OverBudgetIsOwn ==
  [][\A r \in Run : Returns(r) /\ r \in overBudget' => size'[Log(r)] > Budget]_logsVars
===============================================================================
