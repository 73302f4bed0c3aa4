-------------------------- MODULE MCBackupFileStore --------------------------
(***************************************************************************)
(* BackupFileStore on small sets of runs.  Runs that are all forced, or    *)
(* all unforced, are interchangeable.                                      *)
(***************************************************************************)
EXTENDS BackupFileStore, TLC

SameKind == Permutations(Forced) \cup Permutations(Attempt \ Forced)
=============================================================================
