--------------------------- MODULE BackupFileStore ---------------------------
(***************************************************************************)
(* Runs of `backup create PATH [--force]` against one destination path, at *)
(* the granularity of the file-system calls they make                      *)
(* (adapters/postgresql/backup.py: PostgreSQLBackupAdapter.create_backup;  *)
(* infrastructure/backup_files.py: LocalBackupFileStore).                  *)
(*                                                                         *)
(* An attempt is one run of the command: it executes once and a retry is   *)
(* another attempt.  Attempts are separate operating-system processes that *)
(* share the destination directory, so every call that reads or changes a  *)
(* directory entry is an action of its own.  A file is identified by the   *)
(* attempt that created it: an attempt creates at most one artifact file   *)
(* (through pg_dump) and at most one sidecar file.                         *)
(*                                                                         *)
(* Directory entries hold files; hard links and renames move file          *)
(* identities between entries, exactly as os.link and os.replace do, and a *)
(* file stays writable through pg_dump's descriptor whatever its name is.  *)
(***************************************************************************)

CONSTANTS
  Attempt,   \* the runs of the command
  Forced,    \* those given --force
  Overlap,   \* whether one run may start while another is in progress
  Failable,  \* the calls the file system may refuse (a subset of Call)
  None       \* no file, no content

(***************************************************************************)
(* The calls an OSError can come from besides a missing or existing entry. *)
(* "restore" stands for every call of the rollback handler.                *)
(***************************************************************************)
Call == {"link", "moveArtifact", "moveMetadata", "put", "restore", "unlink"}

(***************************************************************************)
(* The content of an artifact file: the attempt whose pg_dump last opened  *)
(* (created or truncated) it, whether that pg_dump has written its last    *)
(* byte, and the other attempts whose pg_dump wrote into it since.  Size   *)
(* and SHA-256 identify a content.                                         *)
(***************************************************************************)
Content == [opened : Attempt, whole : BOOLEAN, mixed : SUBSET Attempt]

ASSUME AttemptAssumption ==
  /\ Forced \subseteq Attempt
  /\ None \notin Attempt \cup Content
  /\ Overlap \in BOOLEAN
  /\ Failable \subseteq Call

VARIABLES
  pc,            \* where each attempt is in create_backup
  dir,           \* the four shared directory entries
  artRollback,   \* the attempt's <final>.rollback.<token> entry
  metaRollback,  \* the attempt's <metadata>.rollback.<token> entry
  dump,          \* the content of each artifact file
  child,         \* the artifact file the attempt's pg_dump has open
  described      \* the content the attempt's metadata (hence its sidecar) describes

files == <<dir, artRollback, metaRollback>>
vars == <<pc, dir, artRollback, metaRollback, dump, child, described>>

Entry == {"final", "meta", "tmp", "metaTmp"}
File == Attempt \cup {None}

\* A dump that one pg_dump wrote from its first byte to its last, alone.
Complete(c) == c # None /\ c.whole /\ c.mixed = {}

\* The content once a, another process that has the file open, wrote to it.
Mixed(c, a) == IF c.opened = a THEN c ELSE [c EXCEPT !.mixed = @ \cup {a}]

-----------------------------------------------------------------------------
(***************************************************************************)
(* Program locations, in the order of the code.                            *)
(***************************************************************************)
Finalizing == {"staged", "artifactLinked", "withdraw", "metaLinked",
               "tmpRemoved", "artifactSeen", "artifactMoved", "metaSeen",
               "metaMoved", "artifactPut", "replaced", "rollback", "unlinkMeta",
               "restoreArtifact", "restoreMeta"}
Cleaning == {"cleanup", "cleanupMeta"}
Active == {"destChecked", "prepared", "dumping", "dumped", "described"}
            \cup Finalizing \cup Cleaning
Ended == {"succeeded", "failed", "crashed"}
Location == {"new"} \cup Active \cup Ended

Goto(a, from, to) == pc[a] = from /\ pc' = [pc EXCEPT ![a] = to]

Init ==
  /\ pc = [a \in Attempt |-> "new"]
  /\ dir = [e \in Entry |-> None]
  /\ artRollback = [a \in Attempt |-> None]
  /\ metaRollback = [a \in Attempt |-> None]
  /\ dump = [a \in Attempt |-> None]
  /\ child = [a \in Attempt |-> None]
  /\ described = [a \in Attempt |-> None]

-----------------------------------------------------------------------------
(***************************************************************************)
(* The options are validated, and prepare reads the four entries and       *)
(* creates none of them, the destination pair before the temporary pair.   *)
(* Options or a directory that are refused, like a destination in use,     *)
(* raise outside the try of create_backup: nothing is cleaned up.          *)
(***************************************************************************)
CheckDestination(a) ==
  /\ pc[a] = "new"
  /\ Overlap \/ \A b \in Attempt : pc[b] \notin Active
  /\ \/ /\ a \in Forced \/ (dir["final"] = None /\ dir["meta"] = None)
        /\ pc' = [pc EXCEPT ![a] = "destChecked"]
     \/ pc' = [pc EXCEPT ![a] = "failed"]
  /\ UNCHANGED <<files, dump, child, described>>

CheckTemporaries(a) ==
  /\ \/ /\ dir["tmp"] = None /\ dir["metaTmp"] = None
        /\ Goto(a, "destChecked", "prepared")
     \/ /\ dir["tmp"] # None \/ dir["metaTmp"] # None
        /\ Goto(a, "destChecked", "failed")
  /\ UNCHANGED <<files, dump, child, described>>

(***************************************************************************)
(* The tool, version and server checks, and a pg_dump that fails before it *)
(* opens its output: the exceptions inside the try of create_backup.       *)
(***************************************************************************)
ToolCheckFails(a) ==
  /\ Goto(a, "prepared", "cleanup")
  /\ UNCHANGED <<files, dump, child, described>>

(***************************************************************************)
(* pg_dump opens <final>.partial for writing: it creates the file, or      *)
(* truncates the one it finds there.                                       *)
(***************************************************************************)
DumpOpens(a) ==
  /\ Goto(a, "prepared", "dumping")
  /\ LET f == IF dir["tmp"] = None THEN a ELSE dir["tmp"] IN
       /\ dir' = [dir EXCEPT !["tmp"] = f]
       /\ dump' = [dump EXCEPT ![f] =
                      [opened |-> a, whole |-> FALSE, mixed |-> {}]]
       /\ child' = [child EXCEPT ![a] = f]
  /\ UNCHANGED <<artRollback, metaRollback, described>>

(***************************************************************************)
(* pg_dump writes its last byte and exits; SubprocessRunner.run returns.   *)
(* The pg_dump of a crashed run may outlive it and still finish.           *)
(***************************************************************************)
DumpEnds(a) ==
  /\ child[a] # None
  /\ dump' = [dump EXCEPT ![child[a]] =
                 IF @.opened = a THEN [@ EXCEPT !.whole = TRUE] ELSE Mixed(@, a)]
  /\ child' = [child EXCEPT ![a] = None]
  /\ pc' = [pc EXCEPT ![a] = IF @ = "dumping" THEN "dumped" ELSE @]
  /\ UNCHANGED <<files, described>>

(***************************************************************************)
(* The pg_dump of a stops early, with or without a write of its own to a   *)
(* file another attempt has truncated since.                               *)
(***************************************************************************)
ChildStops(a) ==
  /\ child' = [child EXCEPT ![a] = None]
  /\ \/ UNCHANGED dump
     \/ /\ child[a] # None
        /\ dump' = [dump EXCEPT ![child[a]] = Mixed(@, a)]

\* Mutant: the exit code of pg_dump is not looked at.
DumpFailureIgnored(a) ==
  /\ Goto(a, "dumping", "dumped")
  /\ ChildStops(a)
  /\ UNCHANGED <<files, described>>

(***************************************************************************)
(* A non-zero exit, the timeout or Ctrl-C: the runner reaps the child      *)
(* before it raises, so nothing writes to the file afterwards.             *)
(***************************************************************************)
DumpFails(a) ==
  /\ Goto(a, "dumping", "cleanup")
  /\ ChildStops(a)
  /\ UNCHANGED <<files, described>>

(***************************************************************************)
(* secure_artifact, inspect and sha256 work on the NAME <final>.partial,   *)
(* whatever file it is by now.  A refused chmod or read is an error too.   *)
(***************************************************************************)
Describe(a) ==
  /\ dir["tmp"] # None
  /\ Goto(a, "dumped", "described")
  /\ described' = [described EXCEPT ![a] = dump[dir["tmp"]]]
  /\ UNCHANGED <<files, dump, child>>

DescribeFails(a) ==
  /\ Goto(a, "dumped", "cleanup")
  /\ UNCHANGED <<files, dump, child, described>>

\* _write_metadata: O_CREAT | O_EXCL on <metadata>.partial.
WriteMetadata(a) ==
  /\ dir["metaTmp"] = None
  /\ Goto(a, "described", "staged")
  /\ dir' = [dir EXCEPT !["metaTmp"] = a]
  /\ UNCHANGED <<artRollback, metaRollback, dump, child, described>>

\* Mutants: no cleanup after this error; a half-written sidecar passes for one.
WriteMetadataFailsUncleaned(a) ==
  /\ Goto(a, "described", "failed")
  /\ dir' = [dir EXCEPT !["metaTmp"] = IF @ = None THEN a ELSE @]
  /\ UNCHANGED <<artRollback, metaRollback, dump, child, described>>

WriteMetadataFailsTorn(a) ==
  /\ dir["metaTmp"] = None
  /\ Goto(a, "described", "cleanup")
  /\ dir' = [dir EXCEPT !["metaTmp"] = a]
  /\ described' = [described EXCEPT ![a] =
                      [opened |-> None, whole |-> FALSE, mixed |-> {}]]
  /\ UNCHANGED <<artRollback, metaRollback, dump, child>>

\* The entry exists already, or writing the new file failed half-way.
WriteMetadataFails(a) ==
  /\ Goto(a, "described", "cleanup")
  /\ \/ /\ dir["metaTmp"] # None
        /\ UNCHANGED <<dir, described>>
     \/ /\ dir["metaTmp"] = None
        /\ dir' = [dir EXCEPT !["metaTmp"] = a]
        /\ described' = [described EXCEPT ![a] = None]
  /\ UNCHANGED <<artRollback, metaRollback, dump, child>>

-----------------------------------------------------------------------------
(***************************************************************************)
(* finalize without --force: link the artifact, link the sidecar, remove   *)
(* the two temporary names.                                                *)
(***************************************************************************)

LinkArtifact(a) ==
  /\ a \notin Forced
  /\ dir["tmp"] # None /\ dir["final"] = None
  /\ Goto(a, "staged", "artifactLinked")
  /\ dir' = [dir EXCEPT !["final"] = dir["tmp"]]
  /\ UNCHANGED <<artRollback, metaRollback, dump, child, described>>

\* Mutant: the handler ignores artifact_link_created and metadata_link_created.
LinkArtifactFailsUnlinking(a) ==
  /\ a \notin Forced
  /\ dir["tmp"] = None \/ dir["final"] # None \/ "link" \in Failable
  /\ Goto(a, "staged", "cleanup")
  /\ dir' = [dir EXCEPT !["final"] = None, !["meta"] = None]
  /\ UNCHANGED <<artRollback, metaRollback, dump, child, described>>

LinkArtifactFails(a) ==
  /\ a \notin Forced
  /\ dir["tmp"] = None \/ dir["final"] # None \/ "link" \in Failable
  /\ Goto(a, "staged", "cleanup")
  /\ UNCHANGED <<files, dump, child, described>>

LinkMetadata(a) ==
  /\ dir["metaTmp"] # None /\ dir["meta"] = None
  /\ Goto(a, "artifactLinked", "metaLinked")
  /\ dir' = [dir EXCEPT !["meta"] = dir["metaTmp"]]
  /\ UNCHANGED <<artRollback, metaRollback, dump, child, described>>

LinkMetadataFails(a) ==
  /\ dir["metaTmp"] = None \/ dir["meta"] # None \/ "link" \in Failable
  /\ Goto(a, "artifactLinked", "withdraw")
  /\ UNCHANGED <<files, dump, child, described>>

\* The handler of a failed link removes the artifact this run linked, by name.
WithdrawArtifact(a) ==
  /\ Goto(a, "withdraw", "cleanup")
  /\ \/ dir' = [dir EXCEPT !["final"] = None]
     \/ "unlink" \in Failable /\ UNCHANGED dir
  /\ UNCHANGED <<artRollback, metaRollback, dump, child, described>>

(***************************************************************************)
(* The two final unlink calls are outside finalize's try and do not accept *)
(* a missing entry: their exception reaches create_backup's handler.       *)
(***************************************************************************)
RemoveEntry(a, e, from, to) ==
  /\ \/ /\ dir[e] # None
        /\ dir' = [dir EXCEPT ![e] = None]
        /\ Goto(a, from, to)
     \/ /\ dir[e] = None \/ "unlink" \in Failable
        /\ Goto(a, from, "cleanup")
        /\ UNCHANGED dir
  /\ UNCHANGED <<artRollback, metaRollback, dump, child, described>>

RemoveTemporary(a) == RemoveEntry(a, "tmp", "metaLinked", "tmpRemoved")
RemoveMetadataTemporary(a) == RemoveEntry(a, "metaTmp", "tmpRemoved", "succeeded")

-----------------------------------------------------------------------------
(***************************************************************************)
(* finalize with --force: _replace_with_rollback.  The existing pair is    *)
(* moved aside under this run's own token, the new pair takes its names,   *)
(* and the pair set aside is unlinked.                                     *)
(***************************************************************************)

SeeArtifact(a) ==
  /\ a \in Forced
  /\ Goto(a, "staged", IF dir["final"] = None THEN "artifactMoved" ELSE "artifactSeen")
  /\ UNCHANGED <<files, dump, child, described>>

\* Mutant: the existing artifact is unlinked, not moved aside.
UnlinkArtifactFirst(a) ==
  /\ dir["final"] # None
  /\ Goto(a, "artifactSeen", "artifactMoved")
  /\ dir' = [dir EXCEPT !["final"] = None]
  /\ UNCHANGED <<artRollback, metaRollback, dump, child, described>>

MoveArtifactAside(a) ==
  /\ dir["final"] # None
  /\ Goto(a, "artifactSeen", "artifactMoved")
  /\ artRollback' = [artRollback EXCEPT ![a] = dir["final"]]
  /\ dir' = [dir EXCEPT !["final"] = None]
  /\ UNCHANGED <<metaRollback, dump, child, described>>

SeeMetadata(a) ==
  /\ Goto(a, "artifactMoved", IF dir["meta"] = None THEN "metaMoved" ELSE "metaSeen")
  /\ UNCHANGED <<files, dump, child, described>>

MoveMetadataAside(a) ==
  /\ dir["meta"] # None
  /\ Goto(a, "metaSeen", "metaMoved")
  /\ metaRollback' = [metaRollback EXCEPT ![a] = dir["meta"]]
  /\ dir' = [dir EXCEPT !["meta"] = None]
  /\ UNCHANGED <<artRollback, dump, child, described>>

\* What is left of the old name of file f once os.replace has given it the name of
\* file g: nothing, except that a rename between two links of one file does nothing.
LeftBehind(f, g) == IF f = g THEN f ELSE None

PutArtifact(a) ==
  /\ dir["tmp"] # None
  /\ Goto(a, "metaMoved", "artifactPut")
  /\ dir' = [dir EXCEPT !["final"] = dir["tmp"],
                         !["tmp"] = LeftBehind(dir["tmp"], dir["final"])]
  /\ UNCHANGED <<artRollback, metaRollback, dump, child, described>>

PutMetadata(a) ==
  /\ dir["metaTmp"] # None
  /\ Goto(a, "artifactPut", "replaced")
  /\ dir' = [dir EXCEPT !["meta"] = dir["metaTmp"],
                         !["metaTmp"] = LeftBehind(dir["metaTmp"], dir["meta"])]
  /\ UNCHANGED <<artRollback, metaRollback, dump, child, described>>

(***************************************************************************)
(* One of the four os.replace calls raises, because its source has gone    *)
(* since it was seen or staged, or because the file system refuses: on to  *)
(* the handler.                                                            *)
(***************************************************************************)
ReplaceFails(a) ==
  /\ \/ /\ dir["final"] = None \/ "moveArtifact" \in Failable
        /\ Goto(a, "artifactSeen", "rollback")
     \/ /\ dir["meta"] = None \/ "moveMetadata" \in Failable
        /\ Goto(a, "metaSeen", "rollback")
     \/ /\ dir["tmp"] = None \/ "put" \in Failable
        /\ Goto(a, "metaMoved", "rollback")
     \/ /\ dir["metaTmp"] = None \/ "put" \in Failable
        /\ Goto(a, "artifactPut", "rollback")
  /\ UNCHANGED <<files, dump, child, described>>

DiscardRollback(a) ==
  /\ \/ /\ Goto(a, "replaced", "succeeded")
        /\ artRollback' = [artRollback EXCEPT ![a] = None]
        /\ metaRollback' = [metaRollback EXCEPT ![a] = None]
     \/ /\ "unlink" \in Failable
        /\ Goto(a, "replaced", "cleanup")
        /\ artRollback' \in {artRollback, [artRollback EXCEPT ![a] = None]}
        /\ UNCHANGED metaRollback
  /\ UNCHANGED <<dir, dump, child, described>>

(***************************************************************************)
(* The handler of _replace_with_rollback: unlink whatever the destination  *)
(* names hold, then move back what this run had set aside.                 *)
(***************************************************************************)
RollbackUnlinkFinal(a) ==
  /\ Goto(a, "rollback", "unlinkMeta")
  /\ dir' = [dir EXCEPT !["final"] = None]
  /\ UNCHANGED <<artRollback, metaRollback, dump, child, described>>

RollbackUnlinkMetadata(a) ==
  /\ Goto(a, "unlinkMeta", "restoreArtifact")
  /\ dir' = [dir EXCEPT !["meta"] = None]
  /\ UNCHANGED <<artRollback, metaRollback, dump, child, described>>

RestoreArtifact(a) ==
  /\ Goto(a, "restoreArtifact", "restoreMeta")
  /\ dir' = [dir EXCEPT !["final"] =
               IF artRollback[a] = None THEN @ ELSE artRollback[a]]
  /\ artRollback' = [artRollback EXCEPT ![a] = LeftBehind(@, dir["final"])]
  /\ UNCHANGED <<metaRollback, dump, child, described>>

\* Mutant: only the artifact is moved back.
RestoreMetadataForgotten(a) ==
  /\ Goto(a, "restoreMeta", "cleanup")
  /\ UNCHANGED <<files, dump, child, described>>

RestoreMetadata(a) ==
  /\ Goto(a, "restoreMeta", "cleanup")
  /\ dir' = [dir EXCEPT !["meta"] =
               IF metaRollback[a] = None THEN @ ELSE metaRollback[a]]
  /\ metaRollback' = [metaRollback EXCEPT ![a] = LeftBehind(@, dir["meta"])]
  /\ UNCHANGED <<artRollback, dump, child, described>>

\* An OSError inside the handler leaves it at once.
RollbackFails(a) ==
  /\ "restore" \in Failable
  /\ pc[a] \in {"rollback", "unlinkMeta", "restoreArtifact", "restoreMeta"}
  /\ pc' = [pc EXCEPT ![a] = "cleanup"]
  /\ UNCHANGED <<files, dump, child, described>>

-----------------------------------------------------------------------------
(***************************************************************************)
(* create_backup's handler: cleanup_temporary unlinks both temporary       *)
(* names, whoever created them, and the exception is re-raised.            *)
(***************************************************************************)
CleanupEntry(a, e, from, to) ==
  /\ \/ /\ dir' = [dir EXCEPT ![e] = None]
        /\ Goto(a, from, to)
     \/ /\ "unlink" \in Failable /\ dir[e] # None
        /\ Goto(a, from, "failed")
        /\ UNCHANGED dir
  /\ UNCHANGED <<artRollback, metaRollback, dump, child, described>>

CleanupTemporary(a) == CleanupEntry(a, "tmp", "cleanup", "cleanupMeta")
CleanupMetadataTemporary(a) == CleanupEntry(a, "metaTmp", "cleanupMeta", "failed")

(***************************************************************************)
(* The process dies (SIGKILL, power loss, a KeyboardInterrupt outside the  *)
(* runner: create_backup handles Exception only).  Its pg_dump may survive.*)
(***************************************************************************)
Crash(a) ==
  /\ pc[a] \in Active
  /\ pc' = [pc EXCEPT ![a] = "crashed"]
  /\ UNCHANGED <<child, dump>> \/ ChildStops(a)
  /\ UNCHANGED <<files, described>>

(***************************************************************************)
(* The operator removes stale .partial files when no run is in progress.   *)
(***************************************************************************)
RemoveStaleTemporaries ==
  /\ \A a \in Attempt : pc[a] \notin Active
  /\ dir["tmp"] # None \/ dir["metaTmp"] # None
  /\ dir' = [dir EXCEPT !["tmp"] = None, !["metaTmp"] = None]
  /\ UNCHANGED <<pc, artRollback, metaRollback, dump, child, described>>

-----------------------------------------------------------------------------
Prepare(a) == CheckDestination(a) \/ CheckTemporaries(a)

RunPgDump(a) == ToolCheckFails(a) \/ DumpOpens(a) \/ DumpEnds(a) \/ DumpFails(a)

Stage(a) ==
  Describe(a) \/ DescribeFails(a) \/ WriteMetadata(a) \/ WriteMetadataFails(a)

Publish(a) ==
  \/ LinkArtifact(a) \/ LinkArtifactFails(a)
  \/ LinkMetadata(a) \/ LinkMetadataFails(a) \/ WithdrawArtifact(a)
  \/ RemoveTemporary(a) \/ RemoveMetadataTemporary(a)

Replace(a) ==
  \/ SeeArtifact(a) \/ MoveArtifactAside(a)
  \/ SeeMetadata(a) \/ MoveMetadataAside(a)
  \/ PutArtifact(a) \/ PutMetadata(a) \/ ReplaceFails(a) \/ DiscardRollback(a)

Rollback(a) ==
  \/ RollbackUnlinkFinal(a) \/ RollbackUnlinkMetadata(a)
  \/ RestoreArtifact(a) \/ RestoreMetadata(a) \/ RollbackFails(a)

Cleanup(a) == CleanupTemporary(a) \/ CleanupMetadataTemporary(a)

Step(a) ==
  Prepare(a) \/ RunPgDump(a) \/ Stage(a) \/ Publish(a) \/ Replace(a)
    \/ Rollback(a) \/ Cleanup(a)

Next == (\E a \in Attempt : Step(a) \/ Crash(a)) \/ RemoveStaleTemporaries

Spec == Init /\ [][Next]_vars

-----------------------------------------------------------------------------
(***************************************************************************)
(* Properties.                                                             *)
(***************************************************************************)
\* Every variable has its type.
TypeOK ==
  /\ pc \in [Attempt -> Location]
  /\ dir \in [Entry -> File]
  /\ artRollback \in [Attempt -> File]
  /\ metaRollback \in [Attempt -> File]
  /\ dump \in [Attempt -> Content \cup {None}]
  /\ child \in [Attempt -> File]
  /\ described \in [Attempt -> Content \cup {None}]

NoneActive == \A a \in Attempt : pc[a] \notin Active

\* The sidecar file s describes the artifact file f, and f is a complete dump.
Describes(s, f) ==
  s # None /\ f # None /\ Complete(dump[f]) /\ described[s] = dump[f]

(***************************************************************************)
(* Whatever fails or crashes, and wherever, a destination that shows both  *)
(* an artifact and a sidecar shows a complete dump and the sidecar that    *)
(* describes it: a failed dump, an old artifact under a new sidecar, or a  *)
(* new artifact under an old sidecar is never mistaken for a backup        *)
(* (18_BACKUP_GUIDE, "Temporary files").                                   *)
(***************************************************************************)
PublishedPairIsSound ==
  dir["final"] # None /\ dir["meta"] # None => Describes(dir["meta"], dir["final"])

\* The artifact and sidecar files still reachable under the destination's names.
ArtifactsKept == {dir["final"]} \cup {artRollback[a] : a \in Attempt}
SidecarsKept == {dir["meta"]} \cup {metaRollback[a] : a \in Attempt}

(***************************************************************************)
(* Once a run has reported success, some complete backup and its sidecar   *)
(* remain in the directory, at the destination or under a rollback name,   *)
(* through every later run, its failures and its crashes.                  *)
(***************************************************************************)
BackupSurvives ==
  (\E a \in Attempt : pc[a] = "succeeded") =>
    \E f \in ArtifactsKept, s \in SidecarsKept : Describes(s, f)

(***************************************************************************)
(* Without --force a published pair is never unlinked, replaced or moved,  *)
(* by any number of concurrent runs in any interleaving.                   *)
(***************************************************************************)
PublishedIsNeverTouched ==
  [][dir["final"] # None /\ dir["meta"] # None =>
       dir'["final"] = dir["final"] /\ dir'["meta"] = dir["meta"]]_vars

(***************************************************************************)
(* Of any number of concurrent runs without --force, at most one reports   *)
(* success: os.link is the arbiter.                                        *)
(***************************************************************************)
AtMostOneSuccess ==
  \A a, b \in Attempt : pc[a] = "succeeded" /\ pc[b] = "succeeded" => a = b

(***************************************************************************)
(* A run that reported failure has not published its backup                *)
(* (18_BACKUP_GUIDE, "Audit lifecycle": FAILED for an execution failure,   *)
(* SUCCEEDED for a successful finalization).                               *)
(***************************************************************************)
FailureIsTruthful ==
  \A a \in Attempt : pc[a] = "failed" => ~ (dir["final"] # None /\ dir["meta"] = a)

(***************************************************************************)
(* When every run has ended, temporary files are left only if one of them  *)
(* was killed (18_BACKUP_GUIDE: "If an exception occurs during backup      *)
(* creation, temporary files are cleaned up").                             *)
(***************************************************************************)
TemporariesAreCleanedUp ==
  NoneActive /\ (\A a \in Attempt : pc[a] # "crashed") =>
    dir["tmp"] = None /\ dir["metaTmp"] = None

(***************************************************************************)
(* When no run is in progress, an artifact at the destination has its      *)
(* sidecar beside it (CHANGELOG, 0.5.0a1: "Atomic finalization of artifact *)
(* and metadata sidecar").                                                 *)
(***************************************************************************)
FinalizationIsAtomic ==
  NoneActive /\ dir["final"] # None => dir["meta"] # None

(***************************************************************************)
(* When every run has ended and none was killed, a destination where a run *)
(* reported success is not left without artifact or sidecar                *)
(* (18_BACKUP_GUIDE, "Audit lifecycle": SUCCEEDED for a successful         *)
(* finalization).                                                          *)
(***************************************************************************)
DestinationIsNotLeftBare ==
  /\ \A a \in Attempt : pc[a] \notin Active /\ pc[a] # "crashed"
  /\ \E a \in Attempt : pc[a] = "succeeded"
  => dir["final"] # None /\ dir["meta"] # None

-----------------------------------------------------------------------------
(***************************************************************************)
(* Runs that follow one another implement BackupSlot, as long as the       *)
(* rollback handler's own calls and the moves that set the old pair aside  *)
(* do not fail.  The destination shows a backup when it holds both files;  *)
(* a backup is kept when both its files are somewhere in the directory.    *)
(***************************************************************************)
Shown == IF dir["final"] # None THEN dir["meta"] ELSE None

Replacing(a) ==
  pc[a] \in {"artifactMoved", "metaSeen", "metaMoved", "artifactPut", "replaced",
             "rollback", "unlinkMeta", "restoreArtifact", "restoreMeta"}

\* The sidecar of the pair that the forced run in progress has set aside.
SidecarAside(a) ==
  CASE artRollback[a] # None /\ pc[a] \in {"artifactMoved", "metaSeen"} -> dir["meta"]
    [] artRollback[a] # None /\ pc[a] \notin {"artifactMoved", "metaSeen"} -> metaRollback[a]
    [] OTHER -> IF pc[a] = "restoreMeta" /\ dir["final"] # None
                THEN metaRollback[a] ELSE None

Aside ==
  LET owners == {a \in Attempt : Replacing(a) /\ SidecarAside(a) # None}
  IN  IF owners = {} THEN None ELSE SidecarAside(CHOOSE a \in owners : TRUE)

Kept == {s \in SidecarsKept : \E f \in ArtifactsKept : Describes(s, f)}

RunOutcome == [a \in Attempt |-> IF pc[a] \in Ended THEN pc[a] ELSE "pending"]

Slot == INSTANCE BackupSlot
          WITH shown <- Shown, aside <- Aside, kept <- Kept, outcome <- RunOutcome

ImplementsSlot == Slot!Spec
=============================================================================
