--------------------------- MODULE RestoreLifecycle ---------------------------
(***************************************************************************)
(* Runs of `backup restore PATH --database NAME [--create | --clean]`      *)
(* against one target database and one archive path                        *)
(* (application/operations/restore.py: RestoreService;                     *)
(* adapters/postgresql/restore.py: PostgreSQLRestoreAdapter;               *)
(* adapters/postgresql/restore_database.py).                               *)
(*                                                                         *)
(* Nothing is locked between two looks at the world: the archive and its   *)
(* sidecar are files found by name, which `backup create --force` may      *)
(* replace at any time, and the target is a database found by name on      *)
(* separate connections, which other clients may create or drop.  Policy,  *)
(* consent and audit are GuardedMutation's subject.                        *)
(***************************************************************************)
CONSTANTS
  Restore,    \* the runs of the command
  Creating,   \* those given --create
  Cleaning,   \* those given --clean
  Parallel,   \* those given --jobs with more than one
  Exclusive,  \* those that their operator does not run beside another one
  Droppable,  \* whether other clients may drop the target during a run
  Version,    \* the backups that the archive path may hold
  Plain,      \* those in plain SQL, which psql restores
  Other,      \* the other clients of the server
  None        \* no file, no database

ASSUME RestoreAssumption ==
  /\ Creating \subseteq Restore /\ Cleaning \subseteq Restore
  /\ Parallel \subseteq Restore
  /\ Creating \cap Cleaning = {}
  /\ Exclusive \subseteq Restore
  /\ Droppable \in BOOLEAN
  /\ Plain \subseteq Version
  /\ Other \notin Restore
  /\ None \notin Version

VARIABLES
  pc,         \* where each run is
  executing,  \* the runs that are past their plan and its approval
  artifact,   \* what the archive path holds
  sidecar,    \* the backup that the sidecar beside it describes
  backup,     \* the backup each run has loaded from the sidecar
  database,   \* the target
  tool,       \* the state of each run's pg_restore or psql
  archive     \* the artifacts that the processes of each run's tool have opened

files == <<artifact, sidecar>>
vars == <<pc, executing, artifact, sidecar, backup, database, tool, archive>>

(***************************************************************************)
(* A database: who created it, the runs whose tool wrote to it, whether    *)
(* tools that wrote to it last did so at the same time, and the archives   *)
(* that were read to restore it from end to end, if it still holds them.   *)
(***************************************************************************)
Database == [by : Restore \cup {Other}, writers : SUBSET Restore,
             mixed : BOOLEAN, restored : SUBSET Version]

Empty(owner) ==
  [by |-> owner, writers |-> {}, mixed |-> FALSE, restored |-> {}]

ASSUME NoneIsNoDatabase == None \notin Database

Loaded == {"loaded", "validated", "planned", "approved"}
Executing == {"checked", "created", "running", "restored"}
Active == {"seen"} \cup Loaded \cup Executing
Ended == {"succeeded", "failed", "crashed"}

Goto(r, from, to) == pc[r] = from /\ pc' = [pc EXCEPT ![r] = to]

Init ==
  /\ pc = [r \in Restore |-> "new"]
  /\ executing = {}
  /\ artifact \in Version /\ sidecar = artifact
  /\ backup = [r \in Restore |-> None]
  /\ database \in {None, Empty(Other)}
  /\ tool = [r \in Restore |-> "idle"]
  /\ archive = [r \in Restore |-> {}]

-----------------------------------------------------------------------------
(***************************************************************************)
(* The checks, which plan_restore makes before the operator is asked and   *)
(* restore makes again afterwards: load_backup finds the artifact and      *)
(* reads the sidecar, validate_backup compares the artifact with it,       *)
(* validate_restore looks at the target.                                   *)
(***************************************************************************)
Busy(r) == pc[r] \in Active \/ tool[r] # "idle"

MayStart(r) ==
  \A q \in Restore \ {r} : Busy(q) => q \notin Exclusive /\ r \notin Exclusive

SeeArchive(r) ==
  /\ pc[r] = "approved" \/ (pc[r] = "new" /\ MayStart(r))
  /\ artifact # None
  /\ pc' = [pc EXCEPT ![r] = "seen"]
  /\ UNCHANGED <<executing, files, backup, database, tool, archive>>

LoadSidecar(r) ==
  /\ sidecar # None
  /\ Goto(r, "seen", "loaded")
  /\ backup' = [backup EXCEPT ![r] = sidecar]
  /\ UNCHANGED <<executing, files, database, tool, archive>>

\* Size and checksum agree with the sidecar; pg_restore --list likes the archive.
ValidateBackup(r) ==
  /\ artifact = backup[r]
  /\ Goto(r, "loaded", "validated")
  /\ UNCHANGED <<executing, files, backup, database, tool, archive>>

(***************************************************************************)
(* --create wants no target, --clean an existing one and a custom archive, *)
(* and so does --jobs; a run with neither finds no target it may use.      *)
(***************************************************************************)
TargetAllowed(r) ==
  /\ r \in Parallel => backup[r] \notin Plain
  /\ \/ r \in Creating /\ database = None
     \/ r \in Cleaning /\ database # None /\ backup[r] \notin Plain

ValidateRestore(r) ==
  /\ TargetAllowed(r)
  /\ Goto(r, "validated", IF r \in executing THEN "checked" ELSE "planned")
  /\ UNCHANGED <<executing, files, backup, database, tool, archive>>

Approve(r) ==
  /\ Goto(r, "planned", "approved")
  /\ executing' = executing \cup {r}
  /\ UNCHANGED <<files, backup, database, tool, archive>>

(***************************************************************************)
(* A check fails, or cannot be made (a tool, a version, a connection), or  *)
(* the operator or the policy declines.                                    *)
(***************************************************************************)
ChecksFail(r) ==
  /\ pc[r] \in {"seen"} \cup Loaded \/ (pc[r] = "new" /\ MayStart(r))
  /\ pc' = [pc EXCEPT ![r] = "failed"]
  /\ UNCHANGED <<executing, files, backup, database, tool, archive>>

-----------------------------------------------------------------------------
\* Mutant: a target that exists by now is taken for the one to create.
CreateTargetIfMissing(r) ==
  /\ r \in Creating
  /\ Goto(r, "checked", "created")
  /\ database' = IF database = None THEN Empty(r) ELSE database
  /\ UNCHANGED <<executing, files, backup, tool, archive>>

(***************************************************************************)
(* CREATE DATABASE, which refuses an existing name.  The connection may    *)
(* be lost after the server has created the database.                      *)
(***************************************************************************)
CreateTarget(r) ==
  /\ r \in Creating
  /\ database = None
  /\ database' = Empty(r)
  /\ Goto(r, "checked", "created") \/ Goto(r, "checked", "failed")
  /\ UNCHANGED <<executing, files, backup, tool, archive>>

CreateFails(r) ==
  /\ r \in Creating
  /\ Goto(r, "checked", "failed")
  /\ UNCHANGED <<executing, files, backup, database, tool, archive>>

StartTool(r) ==
  /\ Goto(r, IF r \in Creating THEN "created" ELSE "checked", "running")
  /\ tool' = [tool EXCEPT ![r] = "started"]
  /\ UNCHANGED <<executing, files, backup, database, archive>>

(***************************************************************************)
(* The tool opens the archive and connects to the target, both by name.    *)
(* (psql connects first; it writes nothing before it has opened the file.) *)
(* The tool of a crashed run may live on.                                  *)
(***************************************************************************)
ToolOpens(r) ==
  /\ tool[r] = "started" /\ artifact # None
  /\ tool' = [tool EXCEPT ![r] = "opened"]
  /\ archive' = [archive EXCEPT ![r] = {artifact}]
  /\ UNCHANGED <<pc, executing, files, backup, database>>

Connected == {r \in Restore : tool[r] = "connected"}

ToolConnects(r) ==
  /\ tool[r] = "opened" /\ database # None
  /\ tool' = [tool EXCEPT ![r] = "connected"]
  /\ database' = [database EXCEPT !.writers = @ \cup {r},
                                  !.mixed = Connected # {},
                                  !.restored = {}]
  /\ UNCHANGED <<pc, executing, files, backup, archive>>

(***************************************************************************)
(* A worker of pg_restore --jobs opens the archive once more, by name.     *)
(* (That it connects once more, too, is left out.)                         *)
(***************************************************************************)
WorkerOpens(r) ==
  /\ r \in Parallel
  /\ tool[r] = "connected" /\ artifact # None
  /\ archive' = [archive EXCEPT ![r] = @ \cup {artifact}]
  /\ UNCHANGED <<pc, executing, files, backup, database, tool>>

ToolSucceeds(r) ==
  /\ tool[r] = "connected"
  /\ tool' = [tool EXCEPT ![r] = "idle"]
  /\ database' = [database EXCEPT !.restored = IF database.mixed THEN {} ELSE archive[r]]
  /\ pc' = [pc EXCEPT ![r] = IF @ = "running" THEN "restored" ELSE @]
  /\ UNCHANGED <<executing, files, backup, archive>>

\* Mutant: the exit code is not looked at.
ToolFailureIgnored(r) ==
  /\ tool[r] # "idle"
  /\ tool' = [tool EXCEPT ![r] = "idle"]
  /\ pc' = [pc EXCEPT ![r] = IF @ = "running" THEN "restored" ELSE @]
  /\ UNCHANGED <<executing, files, backup, database, archive>>

\* --exit-on-error or ON_ERROR_STOP, the timeout, Ctrl-C: what was done stays.
ToolFails(r) ==
  /\ tool[r] # "idle"
  /\ tool' = [tool EXCEPT ![r] = "idle"]
  /\ pc' = [pc EXCEPT ![r] = IF @ = "running" THEN "failed" ELSE @]
  /\ UNCHANGED <<executing, files, backup, database, archive>>

\* verify_target connects by name and finds the schema public.
Verify(r) ==
  /\ database # None
  /\ Goto(r, "restored", "succeeded")
  /\ UNCHANGED <<executing, files, backup, database, tool, archive>>

VerifyFails(r) ==
  /\ Goto(r, "restored", "failed")
  /\ UNCHANGED <<executing, files, backup, database, tool, archive>>

\* The process dies; its tool dies with it or lives on.
Crash(r) ==
  /\ pc[r] \in Active
  /\ pc' = [pc EXCEPT ![r] = "crashed"]
  /\ tool' \in {tool, [tool EXCEPT ![r] = "idle"]}
  /\ UNCHANGED <<executing, files, backup, database, archive>>

-----------------------------------------------------------------------------
(***************************************************************************)
(* Successive runs of `backup create --force` on the archive path, as a    *)
(* reader of the two names sees them: the pair is set aside, a new one (or *)
(* after a failure the old one) takes its names, an artifact whose sidecar *)
(* cannot follow is withdrawn.                                             *)
(***************************************************************************)
ReplaceArchive ==
  /\ \/ artifact # None /\ sidecar # None /\ artifact' = None /\ UNCHANGED sidecar
     \/ artifact = None /\ sidecar # None /\ sidecar' = None /\ UNCHANGED artifact
     \/ artifact = None /\ sidecar = None /\ artifact' \in Version /\ UNCHANGED sidecar
     \/ artifact # None /\ sidecar = None /\ sidecar' = artifact /\ UNCHANGED artifact
     \/ artifact # None /\ sidecar = None /\ artifact' = None /\ UNCHANGED sidecar
  /\ UNCHANGED <<pc, executing, backup, database, tool, archive>>

OthersCreate ==
  /\ database = None
  /\ database' = Empty(Other)
  /\ UNCHANGED <<pc, executing, files, backup, tool, archive>>

\* DROP DATABASE is refused while anyone is connected.
OthersDrop ==
  /\ Droppable \/ \A r \in Restore : ~ Busy(r)
  /\ database # None /\ Connected = {}
  /\ database' = None
  /\ UNCHANGED <<pc, executing, files, backup, tool, archive>>

Check(r) ==
  \/ SeeArchive(r) \/ LoadSidecar(r) \/ ValidateBackup(r)
  \/ ValidateRestore(r) \/ Approve(r) \/ ChecksFail(r)

Execute(r) ==
  \/ CreateTarget(r) \/ CreateFails(r) \/ StartTool(r)
  \/ ToolOpens(r) \/ ToolConnects(r) \/ WorkerOpens(r) \/ ToolSucceeds(r)
  \/ ToolFails(r)
  \/ Verify(r) \/ VerifyFails(r)

Step(r) == Check(r) \/ Execute(r)

Next ==
  \/ \E r \in Restore : Step(r) \/ Crash(r)
  \/ ReplaceArchive \/ OthersCreate \/ OthersDrop

Spec == Init /\ [][Next]_vars

-----------------------------------------------------------------------------
(***************************************************************************)
(* Properties.                                                             *)
(***************************************************************************)
\* Every variable has its type; a run that has loaded a backup has one, and a
\* tool that is past opening its archive has one (RestoreService.restore).
TypeOK ==
  /\ pc \in [Restore -> {"new"} \cup Active \cup Ended]
  /\ executing \subseteq Restore
  /\ artifact \in Version \cup {None} /\ sidecar \in Version \cup {None}
  /\ backup \in [Restore -> Version \cup {None}]
  /\ database \in Database \cup {None}
  /\ tool \in [Restore -> {"idle", "started", "opened", "connected"}]
  /\ archive \in [Restore -> SUBSET Version]
  /\ \A r \in Restore : pc[r] \in Loaded \cup Executing => backup[r] # None
  /\ \A r \in Restore : tool[r] \in {"opened", "connected"} => archive[r] # {}

(***************************************************************************)
(* No implicit overwrite (19_RESTORE_GUIDE, the section so named): unless  *)
(* --clean was given, a run writes only to a database that it created      *)
(* itself, whoever creates the target between its checks and its CREATE    *)
(* DATABASE.                                                               *)
(***************************************************************************)
NoImplicitOverwrite ==
  database # None =>
    \A r \in database.writers : r \in Cleaning \/ database.by = r

(***************************************************************************)
(* A run that reports success leaves in the target what its tool has read, *)
(* restored from end to end, and nothing written over it by another run;   *)
(* without --jobs that is one archive, whenever the path was given another *)
(* one, and with --jobs it may be the parts of several                     *)
(* (restore_backup: exit code, then verify_target).                        *)
(***************************************************************************)
Whole(r) ==
  /\ archive[r] # {} /\ database.restored = archive[r]
  /\ r \notin Parallel => \E v \in Version : archive[r] = {v}

SuccessMeansRestored ==
  [][\A r \in Restore :
       pc[r] # "succeeded" /\ pc'[r] = "succeeded" => database' # None /\ Whole(r)']_vars
===============================================================================
