--------------------------- MODULE ChildProcessProofs ---------------------------
(***************************************************************************)
(* Theorems about ChildProcess, for every set of tools and every job.      *)
(***************************************************************************)
EXTENDS ChildProcess, SequenceTheorems, TLAPS

-----------------------------------------------------------------------------
(* Type correctness.                                                        *)

LEMMA InitTyped == ProcessInit => ProcessTypeOK
<1> SUFFICES ASSUME ProcessInit PROVE ProcessTypeOK
  OBVIOUS
<1>1. job.runs \in Seq(Run) /\ job.runs # <<>>
  BY JobsAssumption DEF ProcessInit, Job
<1>2. Len(job.runs) \in Nat /\ Len(job.runs) # 0
  BY <1>1, EmptySeq
<1>3. 1 \in DOMAIN job.runs
  BY <1>1, <1>2
<1>4. 0 \in 0 .. MaxMoves /\ 0 \in 0 .. MaxCtrlC
  BY LimitsAssumption
<1>5. turn \in DOMAIN job.runs
  BY <1>3 DEF ProcessInit
<1>6. available \in [Tools -> BOOLEAN]
  BY DEF ProcessInit
<1>. QED BY <1>4, <1>5, <1>6 DEF ProcessInit, Entrance, ProcessTypeOK

\* On to the next run: the turn stays within the job.
LEMMA ProceedTyped ==
  ASSUME ProcessTypeOK, Proceed
  PROVE  /\ job' \in Jobs /\ turn' \in DOMAIN job'.runs
         /\ stage' \in {"resolving", "launching", "ended"}
         /\ outcome' \in {outcome, "done"}
<1>1. job \in Jobs /\ job.runs \in Seq(Run)
  BY JobsAssumption DEF ProcessTypeOK, Job
<1>a. turn \in DOMAIN job.runs
  BY DEF ProcessTypeOK
<1>2. turn \in 1 .. Len(job.runs) /\ Len(job.runs) \in Nat
  BY <1>1, <1>a
<1>3. CASE turn < Len(job.runs)
  <2>1. /\ job' = job /\ turn' = turn + 1 /\ stage' \in {"resolving", "launching"}
        /\ outcome' = outcome
    BY <1>3 DEF Proceed, Entrance
  <2>2. turn + 1 \in DOMAIN job.runs
    BY <1>1, <1>2, <1>3
  <2>. QED BY <1>1, <2>1, <2>2
<1>4. CASE ~(turn < Len(job.runs))
  BY <1>4 DEF Proceed, JobEnds, ProcessTypeOK
<1>. QED BY <1>3, <1>4

LEMMA StepTyped == ProcessTypeOK /\ [ProcessNext]_childVars => ProcessTypeOK'
<1> SUFFICES ASSUME ProcessTypeOK, [ProcessNext]_childVars PROVE ProcessTypeOK'
  OBVIOUS
<1>0. This.tool \in Tools
  <2>1. job.runs \in Seq(Run)
    BY JobsAssumption DEF ProcessTypeOK, Job
  <2>2. turn \in DOMAIN job.runs
    BY DEF ProcessTypeOK
  <2>3. job.runs[turn] \in Run
    BY <2>1, <2>2
  <2>. QED BY <2>3 DEF This, Run
<1>1. CASE ToolIsFound \/ StartChild
  BY <1>1, <1>0 DEF ToolIsFound, StartChild, ProcessTypeOK, path, process, ledger
<1>2. CASE ToolIsMissing
  <2>1. CASE job.needed
    BY <1>2, <2>1, <1>0 DEF ToolIsMissing, ProcessTypeOK, JobEnds, path, process
  <2>2. CASE ~job.needed
    BY <1>2, <2>2, <1>0, ProceedTyped DEF ToolIsMissing, ProcessTypeOK, path, process
  <2>. QED BY <2>1, <2>2
<1>3. CASE StartFails
  BY <1>3 DEF StartFails, ProcessTypeOK, JobEnds, path, process, ledger
<1>4. CASE Communicated
  <2>1. [ok |-> child = "succeeded", own |-> sent = {}, whole |-> ~holders]
          \in ProcessResult
    BY DEF ProcessResult, ProcessTypeOK
  <2>2. CASE job.needed /\ child # "succeeded"
    BY <1>4, <2>1, <2>2 DEF Communicated, JobEnds, ProcessTypeOK, path, process
  <2>3. CASE ~(job.needed /\ child # "succeeded")
    BY <1>4, <2>1, <2>3, ProceedTyped DEF Communicated, ProcessTypeOK, path, process
  <2>. QED BY <2>2, <2>3
<1>a. ASSUME presses < MaxCtrlC, presses' = presses + 1 PROVE presses' \in 0 .. MaxCtrlC
  <2>1. presses \in 0 .. MaxCtrlC
    BY DEF ProcessTypeOK
  <2>. QED BY <1>a, <2>1, LimitsAssumption
<1>5. CASE DeadlinePasses \/ CtrlC
  <2>1. presses' \in 0 .. MaxCtrlC
    BY <1>5, <1>a DEF DeadlinePasses, CtrlC, ProcessTypeOK
  <2>2. PICK why \in {"timeout", "interrupt"} : Terminate(why)
    BY <1>5 DEF DeadlinePasses, CtrlC
  <2>3. CASE Dead
    BY <2>1, <2>2, <2>3 DEF Terminate, ProcessTypeOK, JobEnds, path, ledger
  <2>4. CASE ~Dead
    BY <2>1, <2>2, <2>4 DEF Terminate, ProcessTypeOK, path, ledger
  <2>. QED BY <2>3, <2>4
<1>6. CASE CtrlCAgain
  BY <1>6, <1>a DEF CtrlCAgain, ProcessTypeOK, JobEnds, path, process, ledger
<1>7. CASE GraceEnds
  BY <1>7 DEF GraceEnds, ProcessTypeOK, path, ledger
<1>8. CASE ChildIsReaped
  <2>1. reason \in {"none", "timeout", "interrupt"}
    BY DEF ProcessTypeOK
  <2>. QED BY <1>8, <2>1 DEF ChildIsReaped, ProcessTypeOK, JobEnds, path, process, ledger
<1>9. CASE ChildExits \/ ChildIsSlain \/ HoldersMove
  BY <1>9 DEF ChildExits, ChildIsSlain, HoldersMove, ProcessTypeOK, path, ledger
<1>10. CASE \E tool \in Tools : ToolMoves(tool)
  <2>1. PICK tool \in Tools : ToolMoves(tool)
    BY <1>10
  <2>2. installed' \subseteq Tools
    BY <2>1 DEF ToolMoves, ProcessTypeOK
  <2>a. moves \in 0 .. MaxMoves
    BY DEF ProcessTypeOK
  <2>3. moves' \in 0 .. MaxMoves
    BY <2>1, <2>a, LimitsAssumption DEF ToolMoves
  <2>. QED BY <2>1, <2>2, <2>3 DEF ToolMoves, ProcessTypeOK, process, ledger
<1>11. CASE UNCHANGED childVars
  BY <1>11 DEF childVars, path, process, ledger, ProcessTypeOK
<1>. QED
  BY <1>1, <1>2, <1>3, <1>4, <1>5, <1>6, <1>7, <1>8, <1>9, <1>10, <1>11
     DEF ProcessNext, Starting, Stopping

\* Every variable of a run keeps its type.
THEOREM ProcessTyped == ProcessSpec => []ProcessTypeOK
BY InitTyped, StepTyped, PTL DEF ProcessSpec

-----------------------------------------------------------------------------
(* What is left of a child, and what is reported of it.                     *)

(***************************************************************************)
(* A run that stops its child has a reason to and has signalled it; until  *)
(* then nobody has, so that a child that died died by itself.  A child     *)
(* that runs is watched by run(), unless a second Ctrl-C made it give up.  *)
(***************************************************************************)
Watched ==
  child = "running" =>
    stage \in {"running", "stopping", "killing"} \/ outcome = "KeyboardInterrupt"

Undisturbed ==
  stage \in {"resolving", "launching", "running"} => reason = "none" /\ sent = {}

StoppedForAReason ==
  stage \in {"stopping", "killing"} => reason \in {"timeout", "interrupt"}

NoneYet == stage # "ended" => outcome = "none"

ProcessInv ==
  /\ ProcessTypeOK
  /\ Watched /\ Undisturbed /\ StoppedForAReason /\ NoneYet
  /\ child = "slain" => sent # {}
  /\ stage = "ended" => outcome # "none"
  /\ ResultsAreTheChildsOwn

LEMMA InitWatched == ProcessInit => ProcessInv
BY InitTyped
   DEF ProcessInit, ProcessInv, Watched, Undisturbed, StoppedForAReason, NoneYet,
       ResultsAreTheChildsOwn, Entrance

LEMMA ProceedOutcome ==
  ASSUME Proceed
  PROVE  /\ stage' \in {"resolving", "launching", "ended"}
         /\ stage' # "ended" => outcome' = outcome
         /\ stage' = "ended" => outcome' = "done"
BY DEF Proceed, JobEnds, Entrance

LEMMA StepWatched == ProcessInv /\ [ProcessNext]_childVars => ProcessInv'
<1> SUFFICES ASSUME ProcessInv, [ProcessNext]_childVars PROVE ProcessInv'
  OBVIOUS
<1> USE DEF Watched, Undisturbed, StoppedForAReason, NoneYet, ResultsAreTheChildsOwn
<1>0. ProcessTypeOK'
  BY StepTyped DEF ProcessInv
<1>1. CASE ToolIsFound \/ StartChild
  BY <1>0, <1>1 DEF ToolIsFound, StartChild, ProcessInv, process, ledger
<1>2. CASE ToolIsMissing
  <2>1. CASE job.needed
    BY <1>0, <1>2, <2>1 DEF ToolIsMissing, ProcessInv, JobEnds, process
  <2>2. CASE ~job.needed
    BY <1>0, <1>2, <2>2, ProceedOutcome DEF ToolIsMissing, ProcessInv, process
  <2>. QED BY <2>1, <2>2
<1>3. CASE StartFails
  BY <1>0, <1>3 DEF StartFails, ProcessInv, JobEnds, process, ledger
<1>4. CASE Communicated
  <2>1. child \in {"succeeded", "failed", "slain"} /\ ~holders /\ sent = {}
    BY <1>4 DEF Communicated, Drained, Dead, ProcessInv
  <2> DEFINE own == sent = {}
             new == [ok |-> child = "succeeded", own |-> own, whole |-> ~holders]
  <2>2. \A result \in returned' : result.own /\ result.whole
    <3>1. \A result \in returned : result.own /\ result.whole
      BY DEF ProcessInv
    <3>2. new.own = own /\ new.whole = ~holders
      BY Zenon
    <3>3. own /\ ~holders
      BY <2>1
    <3>4. returned' = returned \cup {new}
      BY <1>4 DEF Communicated
    <3> HIDE DEF new
    <3>. QED BY <3>1, <3>2, <3>3, <3>4, Zenon
  <2>3. reason = "none" /\ child # "slain" /\ outcome = "none"
    BY <1>4, <2>1 DEF Communicated, ProcessInv
  <2>4. UNCHANGED <<reason, child, holders, sent>>
    BY <1>4 DEF Communicated, process
  <2>5. /\ stage' \in {"resolving", "launching", "ended"}
        /\ stage' # "ended" => outcome' = outcome
        /\ stage' = "ended" => outcome' \in {"done", "tool failed"}
    BY <1>4, ProceedOutcome DEF Communicated, JobEnds
  <2>. QED BY <1>0, <2>1, <2>2, <2>3, <2>4, <2>5 DEF ProcessInv
<1>5. CASE DeadlinePasses \/ CtrlC
  <2>1. PICK why \in {"timeout", "interrupt"} : Terminate(why) /\ stage = "running"
    BY <1>5 DEF DeadlinePasses, CtrlC
  <2>2. CASE Dead
    BY <1>0, <2>1, <2>2 DEF Dead, Terminate, ProcessInv, JobEnds, ledger
  <2>3. CASE ~Dead
    BY <1>0, <2>1, <2>3 DEF Dead, Terminate, ProcessInv, ledger
  <2>. QED BY <2>2, <2>3
<1>6. CASE CtrlCAgain
  BY <1>0, <1>6 DEF CtrlCAgain, ProcessInv, JobEnds, process, ledger
<1>7. CASE GraceEnds
  BY <1>0, <1>7 DEF GraceEnds, ProcessInv, ledger
<1>8. CASE ChildIsReaped
  BY <1>0, <1>8 DEF ChildIsReaped, Dead, ProcessInv, JobEnds, process, ledger
<1>9. CASE ChildExits \/ ChildIsSlain \/ HoldersMove
  BY <1>0, <1>9 DEF ChildExits, ChildIsSlain, HoldersMove, ProcessInv, ledger
<1>10. CASE \E tool \in Tools : ToolMoves(tool)
  BY <1>0, <1>10 DEF ToolMoves, ProcessInv, process, ledger
<1>11. CASE UNCHANGED childVars
  BY <1>0, <1>11 DEF childVars, process, ledger, ProcessInv
<1>. QED
  BY <1>1, <1>2, <1>3, <1>4, <1>5, <1>6, <1>7, <1>8, <1>9, <1>10, <1>11
     DEF ProcessNext, Starting, Stopping

\* When a job has ended none of its children runs, unless Ctrl-C was pressed
\* while one was being stopped (SubprocessRunner.run, _terminate_process).
THEOREM NoChildLeft == ProcessSpec => []NoChildIsLeft
<1>1. ProcessInv => NoChildIsLeft
  BY DEF ProcessInv, Watched, NoChildIsLeft
<1>. QED BY <1>1, InitWatched, StepWatched, PTL DEF ProcessSpec

\* What run() returns is the exit and the whole output of a child nobody has
\* signalled; a job is done only if none of its runs was stopped.
THEOREM ResultsOwn == ProcessSpec => []ResultsAreTheChildsOwn
<1>1. ProcessInv => ResultsAreTheChildsOwn
  BY DEF ProcessInv
<1>. QED BY <1>1, InitWatched, StepWatched, PTL DEF ProcessSpec

-----------------------------------------------------------------------------
(***************************************************************************)
(* What a capability query knows of its tools.  A tool it has looked up is *)
(* that of a run it has come to, so that no tool is looked up twice: what  *)
(* was missing then is never found later, and once the query is done every *)
(* tool has been found or missed.                                          *)
(***************************************************************************)
LookedUp(tool) ==
  \E i \in 1 .. turn :
    job.runs[i].tool = tool /\ (i = turn => stage # "resolving")

Consistent ==
  /\ outcome = "done" => turn = Len(job.runs) /\ stage = "ended"
  /\ ~job.needed => \A tool \in Tools :
       /\ available[tool] \/ tool \in missed => LookedUp(tool)
       /\ LookedUp(tool) => (available[tool] <=> tool \notin missed)

LEMMA Progress ==
  ASSUME ProcessTypeOK
  PROVE  /\ turn \in DOMAIN job.runs /\ turn \in 1 .. Len(job.runs)
         /\ turn \in 1 .. turn
         /\ Len(job.runs) \in Nat /\ DOMAIN job.runs = 1 .. Len(job.runs)
         /\ This.tool \in Tools /\ job \in Jobs
         /\ available \in [Tools -> BOOLEAN]
<1>1. job.runs \in Seq(Run) /\ turn \in DOMAIN job.runs
  BY JobsAssumption DEF ProcessTypeOK, Job
<1>2. job.runs[turn] \in Run
  BY <1>1
<1>3. Len(job.runs) \in Nat /\ DOMAIN job.runs = 1 .. Len(job.runs)
  BY <1>1
<1>4. turn \in 1 .. Len(job.runs)
  BY <1>1, <1>3
<1>5. turn \in 1 .. turn
  BY <1>3, <1>4
<1>6. This.tool \in Tools
  BY <1>2 DEF This, Run
<1>. QED BY <1>1, <1>3, <1>4, <1>5, <1>6 DEF ProcessTypeOK

LEMMA InitConsistent == ProcessInit => Consistent
<1> SUFFICES ASSUME ProcessInit PROVE Consistent
  OBVIOUS
<1>1. ASSUME ~job.needed PROVE stage = "resolving"
  <2>1. ProcessTypeOK
    BY InitTyped
  <2>2. job.runs[1].probe
    BY <1>1, <2>1, Progress, QueryAssumption DEF ProcessInit
  <2>. QED BY <2>2 DEF ProcessInit, Entrance
<1>2. ASSUME ~job.needed, NEW tool \in Tools PROVE ~LookedUp(tool)
  BY <1>1, <1>2 DEF ProcessInit, LookedUp
<1>. QED BY <1>2 DEF ProcessInit, Consistent

\* The runs a query has come to are looked up once it goes on to the next.
LEMMA ProceedLookedUp ==
  ASSUME ProcessTypeOK, Proceed, stage # "ended", ~job.needed, NEW tool \in Tools
  PROVE  LookedUp(tool)' <=> (LookedUp(tool) \/ tool = This.tool)
<1>1. CASE turn < Len(job.runs)
  <2>1. job' = job /\ turn' = turn + 1 /\ turn + 1 \in DOMAIN job.runs
    BY <1>1, Progress DEF Proceed
  <2>2. stage' = "resolving"
    BY <1>1, <2>1, Progress, QueryAssumption DEF Proceed, Entrance
  <2>3. \A i : i \in 1 .. turn' /\ i # turn' <=> i \in 1 .. turn
    BY <2>1, Progress
  <2>4. LookedUp(tool)' <=> \E i \in 1 .. turn : job.runs[i].tool = tool
    BY <2>1, <2>2, <2>3 DEF LookedUp
  <2>. QED BY <2>4, Progress DEF LookedUp, This
<1>2. CASE ~(turn < Len(job.runs))
  <2>1. UNCHANGED <<job, turn>> /\ stage' = "ended"
    BY <1>2 DEF Proceed, JobEnds
  <2>. QED BY <2>1, Progress DEF LookedUp, This
<1>. QED BY <1>1, <1>2

LEMMA ProceedDone ==
  ASSUME ProcessTypeOK, Proceed, Consistent, stage # "ended"
  PROVE  outcome' = "done" => turn' = Len(job'.runs) /\ stage' = "ended"
BY Progress DEF Proceed, JobEnds, Consistent

LEMMA StepConsistent ==
  ProcessTypeOK /\ Consistent /\ [ProcessNext]_childVars => Consistent'
<1> SUFFICES ASSUME ProcessTypeOK, Consistent, [ProcessNext]_childVars
             PROVE  Consistent'
  OBVIOUS
<1>1. CASE ToolIsFound
  <2>1. /\ stage = "resolving" /\ stage' = "launching"
        /\ UNCHANGED <<job, turn, missed, outcome>>
        /\ available' = [available EXCEPT ![This.tool] = TRUE]
    BY <1>1 DEF ToolIsFound
  <2>2. \A tool : LookedUp(tool)' <=> LookedUp(tool) \/ tool = This.tool
    BY <2>1, Progress DEF LookedUp, This
  <2>3. ~job.needed => This.tool \notin missed
    <3> SUFFICES ASSUME ~job.needed, LookedUp(This.tool) PROVE FALSE
      BY Progress DEF Consistent
    <3>1. PICK i \in 1 .. turn : job.runs[i].tool = This.tool /\ i # turn
      BY <2>1 DEF LookedUp
    <3>. QED BY <3>1, Progress, QueryAssumption DEF This
  <2>. QED BY <2>1, <2>2, <2>3, Progress DEF Consistent
<1>2. CASE ToolIsMissing
  <2>1. /\ available' = [available EXCEPT ![This.tool] = FALSE]
        /\ missed' = missed \cup {This.tool} /\ stage = "resolving"
        /\ IF job.needed THEN JobEnds("tool missing") ELSE Proceed
    BY <1>2 DEF ToolIsMissing
  <2>2. CASE job.needed
    BY <2>1, <2>2 DEF JobEnds, Consistent
  <2>3. CASE ~job.needed
    <3>1. Proceed /\ job' = job
      BY <2>1, <2>3 DEF Proceed, JobEnds
    <3>2. \A tool \in Tools : LookedUp(tool)' <=> LookedUp(tool) \/ tool = This.tool
      BY <2>1, <2>3, <3>1, ProceedLookedUp
    <3>. QED BY <2>1, <2>3, <3>1, <3>2, Progress, ProceedDone DEF Consistent
  <2>. QED BY <2>2, <2>3
<1>3. CASE Communicated
  <2>1. /\ stage = "running" /\ UNCHANGED <<available, missed>>
        /\ IF job.needed /\ child # "succeeded" THEN JobEnds("tool failed") ELSE Proceed
    BY <1>3 DEF Communicated
  <2>2. CASE job.needed
    <3>1. job' = job
      BY <2>1 DEF Proceed, JobEnds
    <3>. QED BY <2>1, <2>2, <3>1, ProceedDone DEF JobEnds, Consistent
  <2>3. CASE ~job.needed
    <3>1. Proceed /\ job' = job
      BY <2>1, <2>3 DEF Proceed, JobEnds
    <3>2. LookedUp(This.tool)
      BY <2>1, Progress DEF LookedUp, This
    <3>3. \A tool \in Tools : LookedUp(tool)' <=> LookedUp(tool)
      BY <2>1, <2>3, <3>1, <3>2, ProceedLookedUp
    <3>. QED BY <2>1, <2>3, <3>1, <3>3, ProceedDone DEF Consistent
  <2>. QED BY <2>2, <2>3
<1>4. CASE StartChild \/ StartFails \/ CtrlCAgain \/ ChildIsReaped
  <2>1. /\ stage \in {"launching", "stopping", "killing"}
        /\ stage' \in {"running", "ended"}
        /\ outcome' = outcome \/ outcome' = reason
             \/ outcome' \in {"not started", "KeyboardInterrupt"}
        /\ UNCHANGED <<job, turn, available, missed>>
    BY <1>4 DEF StartChild, StartFails, CtrlCAgain, ChildIsReaped, JobEnds, ledger
  <2>2. reason # "done"
    BY DEF ProcessTypeOK
  <2>3. \A tool : LookedUp(tool)' <=> LookedUp(tool)
    BY <2>1 DEF LookedUp
  <2>. QED BY <2>1, <2>2, <2>3 DEF Consistent
<1>5. CASE DeadlinePasses \/ CtrlC
  <2>1. PICK why \in {"timeout", "interrupt"} : Terminate(why) /\ stage = "running"
    BY <1>5 DEF DeadlinePasses, CtrlC
  <2>2. /\ stage' \in {"stopping", "ended"} /\ outcome' \in {why, outcome}
        /\ UNCHANGED <<job, turn, available, missed>>
    BY <2>1 DEF Terminate, JobEnds, ledger
  <2>. QED BY <2>1, <2>2 DEF Consistent, LookedUp
<1>6. CASE GraceEnds
  BY <1>6 DEF GraceEnds, ledger, Consistent, LookedUp
<1>7. CASE ChildExits \/ ChildIsSlain \/ HoldersMove \/ \E tool \in Tools : ToolMoves(tool)
  BY <1>7 DEF ChildExits, ChildIsSlain, HoldersMove, ToolMoves, ledger, Consistent, LookedUp
<1>8. CASE UNCHANGED childVars
  BY <1>8 DEF childVars, ledger, Consistent, LookedUp
<1>. QED
  BY <1>1, <1>2, <1>3, <1>4, <1>5, <1>6, <1>7, <1>8
     DEF ProcessNext, Starting, Stopping

(***************************************************************************)
(* A capability query that answers prints a capability as available if and *)
(* only if none of its tools was missing when it was looked up, however    *)
(* often tools are installed and removed during the query (capabilities.py *)
(* and resolve of PathToolResolver).                                       *)
(***************************************************************************)
THEOREM AvailabilityEarned == ProcessSpec => []AvailabilityIsEarned
<1>1. ASSUME ProcessTypeOK, Consistent PROVE AvailabilityIsEarned
  <2> SUFFICES ASSUME outcome = "done", ~job.needed,
                      NEW name \in {"backup.create", "backup.restore"}
               PROVE  Capability(name) = "available" <=> Required(name) \cap missed = {}
    BY DEF AvailabilityIsEarned
  <2>1. turn = Len(job.runs) /\ stage = "ended"
    BY <1>1 DEF Consistent
  <2>2. \A tool \in Tools : LookedUp(tool)
    BY <1>1, <2>1, Progress, QueryAssumption DEF LookedUp
  <2>3. \A tool \in Tools : available[tool] <=> tool \notin missed
    BY <1>1, <2>2 DEF Consistent
  <2>4. Required(name) \subseteq Tools
    BY ToolsAssumption DEF Required
  <2>. QED BY <2>3, <2>4 DEF Capability
<1>. QED BY <1>1, InitTyped, StepTyped, InitConsistent, StepConsistent, PTL DEF ProcessSpec
================================================================================
