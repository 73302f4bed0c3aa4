------------------------------ MODULE ChildProcess ------------------------------
(***************************************************************************)
(* SubprocessRunner.run and the two that stand on it: PathToolResolver,    *)
(* which runs every tool it finds with --version, and the capability list, *)
(* which resolves the tools of backups and restores one after the other.   *)
(*                                                                         *)
(* communicate() ends when the child has exited and nobody holds its pipes *)
(* any longer: its descendants may.  At the deadline, or when the operator *)
(* presses Ctrl-C, the child is polled, terminated, given five seconds,    *)
(* killed, and waited for without a deadline.                              *)
(***************************************************************************)
EXTENDS Naturals, Sequences, FiniteSets

CONSTANTS
  Tools,      \* pg_dump, pg_restore, psql
  Jobs,       \* what is run: sequences of runs
  MaxCtrlC,   \* bound: how often the operator presses Ctrl-C
  MaxMoves    \* bound: how often a tool is installed or removed

\* One run: the tool, whether it is a probe (resolve, then --version with a
\* timeout of ten seconds) or the work itself, and whether it has a timeout.
Run == [tool : Tools, probe : BOOLEAN, timed : BOOLEAN]

\* A job is a backup or a restore, which needs every tool it probes, or a
\* capability query, which reports those it misses.
Job == [needed : BOOLEAN, runs : Seq(Run)]

ASSUME JobsAssumption == \A job \in Jobs :
  job \in Job /\ job.runs # <<>> /\ \A i \in DOMAIN job.runs :
    job.runs[i].probe => job.runs[i].timed
\* list_capabilities resolves every tool, each for one capability only.
ASSUME QueryAssumption == \A job \in Jobs : ~job.needed =>
  /\ \A i, j \in DOMAIN job.runs : job.runs[i].tool = job.runs[j].tool => i = j
  /\ \A tool \in Tools : \E i \in DOMAIN job.runs : job.runs[i].tool = tool
  /\ \A i \in DOMAIN job.runs : job.runs[i].probe
ASSUME ToolsAssumption == {"pg_dump", "pg_restore", "psql"} \subseteq Tools
ASSUME LimitsAssumption == MaxCtrlC \in Nat /\ MaxMoves \in Nat

VARIABLES
  job,        \* what is done
  turn,       \* the run it has come to
  stage,      \* where run() is
  child,      \* the state of the child of this run
  holders,    \* whether descendants of the child hold its pipes
  reason,     \* why the child is being stopped
  sent,       \* the signals sent to the child of this run
  available,  \* tool -> what which said of it
  missed,     \* the tools that were not there when they were resolved
  installed,  \* the tools on PATH
  moves,      \* how often that has changed
  presses,    \* how often Ctrl-C was pressed
  returned,   \* the results run() has returned, with what held then
  outcome     \* what the job ended in

path == <<installed, moves>>
process == <<child, holders, sent>>
ledger == <<available, missed, returned>>
childVars ==
  <<job, turn, stage, reason, presses, outcome, process, path, ledger>>

ProcessResult == [ok : BOOLEAN, own : BOOLEAN, whole : BOOLEAN]

ProcessTypeOK ==
  /\ job \in Jobs
  /\ turn \in DOMAIN job.runs
  /\ stage \in {"resolving", "launching", "running", "stopping", "killing", "ended"}
  /\ child \in {"none", "running", "succeeded", "failed", "slain"}
  /\ holders \in BOOLEAN
  /\ reason \in {"none", "timeout", "interrupt"}
  /\ sent \subseteq {"TERM", "KILL"}
  /\ available \in [Tools -> BOOLEAN]
  /\ missed \subseteq Tools /\ installed \subseteq Tools
  /\ moves \in 0 .. MaxMoves /\ presses \in 0 .. MaxCtrlC
  /\ returned \subseteq ProcessResult
  /\ outcome \in {"none", "done", "tool missing", "tool failed", "not started",
                  "timeout", "interrupt", "KeyboardInterrupt"}

\* A probe begins with which, the work itself with Popen, on the path its probe
\* has found.
Entrance(run) == IF run.probe THEN "resolving" ELSE "launching"

ProcessInit ==
  /\ job \in Jobs /\ turn = 1
  /\ stage = Entrance(job.runs[1]) /\ child = "none" /\ holders = FALSE
  /\ reason = "none" /\ sent = {}
  /\ available = [t \in Tools |-> FALSE] /\ missed = {}
  /\ installed \in SUBSET Tools /\ moves = 0 /\ presses = 0
  /\ returned = {} /\ outcome = "none"

This == job.runs[turn]
Dead == child \in {"succeeded", "failed", "slain"}

-----------------------------------------------------------------------------
(* The child, its descendants, and whoever installs tools.                  *)

ChildExits ==
  /\ child = "running"
  /\ child' \in {"succeeded", "failed"}
  /\ UNCHANGED <<job, turn, stage, reason, presses, outcome, holders, sent,
                 path, ledger>>

\* SIGTERM may be handled or ignored; SIGKILL may not.
ChildIsSlain ==
  /\ child = "running" /\ sent # {}
  /\ child' = "slain"
  /\ UNCHANGED <<job, turn, stage, reason, presses, outcome, holders, sent,
                 path, ledger>>

\* A descendant inherits the pipes, or the last of them lets them go.
HoldersMove ==
  /\ child = "running" \/ holders
  /\ holders' = ~holders
  /\ UNCHANGED <<job, turn, stage, reason, presses, outcome, child, sent,
                 path, ledger>>

ToolMoves(tool) ==
  /\ stage \in {"resolving", "launching"} /\ moves < MaxMoves
  /\ installed' = IF tool \in installed THEN installed \ {tool}
                  ELSE installed \cup {tool}
  /\ moves' = moves + 1
  /\ UNCHANGED <<job, turn, stage, reason, presses, outcome, process, ledger>>

-----------------------------------------------------------------------------
(* Resolving and starting.                                                  *)

JobEnds(how) ==
  /\ stage' = "ended" /\ outcome' = how
  /\ UNCHANGED <<job, turn>>

\* On to the next run, or to the end of the job.
Proceed ==
  IF turn < Len(job.runs)
  THEN /\ turn' = turn + 1 /\ stage' = Entrance(job.runs[turn + 1])
       /\ UNCHANGED <<job, outcome>>
  ELSE JobEnds("done")

OnPath == This.tool \in installed

ToolIsFound ==
  /\ stage = "resolving" /\ OnPath
  /\ available' = [available EXCEPT ![This.tool] = TRUE]
  /\ stage' = "launching"
  /\ UNCHANGED <<job, turn, outcome, reason, presses, process, path, missed, returned>>

\* which finds nothing: _require_tool raises, a capability notes it.
ToolIsMissing ==
  /\ stage = "resolving" /\ ~OnPath
  /\ available' = [available EXCEPT ![This.tool] = FALSE]
  /\ missed' = missed \cup {This.tool}
  /\ IF job.needed THEN JobEnds("tool missing") ELSE Proceed
  /\ UNCHANGED <<reason, presses, process, path, returned>>

StartChild ==
  /\ stage = "launching" /\ OnPath
  /\ stage' = "running" /\ child' = "running"
  /\ holders' = FALSE /\ sent' = {} /\ reason' = "none"
  /\ UNCHANGED <<job, turn, presses, outcome, path, ledger>>

\* The file is gone since which or since the probe, or cannot be executed: an
\* OSError, which nobody translates and which ends a capability query too.
StartFails ==
  /\ stage = "launching"
  /\ JobEnds("not started")
  /\ UNCHANGED <<reason, presses, process, path, ledger>>

-----------------------------------------------------------------------------
(* communicate, the deadline and Ctrl-C.                                    *)

\* wait() in place of communicate(): the pipes are not read to their end.
DrainedOnExit == Dead

Drained == Dead /\ ~holders

\* A backup or restore goes no further with a tool that has failed: a probe
\* without a version, a dump or a load that returns another code than 0.
Communicated ==
  /\ stage = "running" /\ Drained
  /\ returned' = returned \cup {[ok |-> child = "succeeded", own |-> sent = {},
                                 whole |-> ~holders]}
  /\ IF job.needed /\ child # "succeeded" THEN JobEnds("tool failed") ELSE Proceed
  /\ UNCHANGED <<reason, presses, process, path, available, missed>>

\* _terminate_process: nothing to do for a child that has exited, although
\* others may still hold its pipes.
Terminate(why) ==
  /\ reason' = why
  /\ IF Dead
     THEN JobEnds(why) /\ UNCHANGED sent
     ELSE /\ stage' = "stopping" /\ sent' = {"TERM"}
          /\ UNCHANGED <<job, turn, outcome>>
  /\ UNCHANGED <<child, holders, path, ledger>>

DeadlinePasses ==
  /\ stage = "running" /\ This.timed
  /\ Terminate("timeout")
  /\ UNCHANGED presses

\* The child is of the same process group and may exit on its own SIGINT.
CtrlC ==
  /\ stage = "running" /\ presses < MaxCtrlC
  /\ presses' = presses + 1
  /\ Terminate("interrupt")

\* Ctrl-C while the child is being stopped: nothing catches it there.
CtrlCAgain ==
  /\ stage \in {"stopping", "killing"} /\ presses < MaxCtrlC
  /\ presses' = presses + 1
  /\ JobEnds("KeyboardInterrupt")
  /\ UNCHANGED <<reason, process, path, ledger>>

\* Five seconds are over: kill() does nothing to a child that has exited.
GraceEndsUnkilled ==
  /\ stage = "stopping"
  /\ JobEnds(reason)
  /\ UNCHANGED <<reason, presses, process, path, ledger>>

GraceEndsTerminated ==
  /\ stage = "stopping"
  /\ stage' = "killing"
  /\ UNCHANGED <<job, turn, outcome, reason, presses, process, path, ledger>>

GraceEnds ==
  /\ stage = "stopping"
  /\ stage' = "killing"
  /\ sent' = IF Dead THEN sent ELSE sent \cup {"KILL"}
  /\ UNCHANGED <<job, turn, outcome, reason, presses, child, holders, path,
                 ledger>>

ChildIsReaped ==
  /\ stage \in {"stopping", "killing"} /\ Dead /\ ~holders
  /\ JobEnds(reason)
  /\ UNCHANGED <<reason, presses, process, path, ledger>>

-----------------------------------------------------------------------------
(* What the capability query prints.                                        *)

Required(name) ==
  IF name = "backup.create" THEN {"pg_dump"} ELSE {"pg_restore", "psql"}

\* Faulty: a capability is there as soon as one of its tools is.
CapabilityOfAny(name) ==
  IF \A t \in Required(name) : ~available[t] THEN "unavailable tool"
  ELSE "available"

Capability(name) ==
  IF \E t \in Required(name) : ~available[t] THEN "unavailable tool"
  ELSE "available"

-----------------------------------------------------------------------------

Starting == ToolIsFound \/ StartChild \/ ToolIsMissing \/ StartFails
Stopping == DeadlinePasses \/ GraceEnds \/ ChildIsReaped

ProcessNext ==
  \/ Starting \/ Communicated \/ Stopping \/ CtrlC \/ CtrlCAgain
  \/ ChildExits \/ ChildIsSlain \/ HoldersMove
  \/ \E tool \in Tools : ToolMoves(tool)

ProcessSpec == ProcessInit /\ [][ProcessNext]_childVars

\* The program and its timers go on and a killed child dies; that a child
\* exits by itself is promised by no one, that its descendants let go of the
\* pipes once it is dead is assumed.
ProcessFairness ==
  /\ WF_childVars(Starting)
  /\ WF_childVars(Communicated)
  /\ WF_childVars(Stopping)
  /\ WF_childVars("KILL" \in sent /\ ChildIsSlain)
  /\ WF_childVars(Dead /\ holders /\ HoldersMove)

FairProcessSpec == ProcessSpec /\ ProcessFairness

-----------------------------------------------------------------------------
(* Properties.                                                              *)

\* Once the job has ended no child of it is running, whatever the child made
\* of SIGTERM and whoever held its pipes; only a second Ctrl-C, which leaves
\* _terminate_process half-way, may leave one behind (process.py).
NoChildIsLeft ==
  stage = "ended" /\ outcome # "KeyboardInterrupt" => child # "running"

\* A ProcessResult is the child's own: it was not signalled, and its output
\* was read to the end.  A child that exits just as the deadline passes is
\* reported as timed out and never as done.
ResultsAreTheChildsOwn ==
  /\ \A result \in returned : result.own /\ result.whole
  /\ outcome = "done" => reason = "none" /\ "slain" # child

\* Tools come and go between the probes, and between a probe's which and its
\* start.  A capability query that answers has looked every tool up, and prints a
\* capability as available exactly when none of the tools it needs was missing as
\* it was looked up, whichever other capability they are for
\* (capabilities.py:66-87, tools.py:20-30).
AvailabilityIsEarned ==
  outcome = "done" /\ ~job.needed =>
    \A name \in {"backup.create", "backup.restore"} :
      Capability(name) = "available" <=> Required(name) \cap missed = {}

\* A job whose runs all have timeouts comes to an end, although a child may
\* ignore SIGTERM or hang for ever.
TimedJobsEnd ==
  (\A i \in DOMAIN job.runs : job.runs[i].timed) ~> stage = "ended"
=============================================================================
