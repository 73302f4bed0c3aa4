-------------------------- MODULE MCRestoreLifecycle --------------------------
(* RestoreLifecycle for TLC: two runs race to create the target, a third one  *)
(* cleans it, and one of each kind restores with --jobs.                      *)
EXTENDS RestoreLifecycle

CONSTANTS r1, r2, r3

MCRestore == {r1, r2, r3}
MCCreating == {r1, r2}
MCCleaning == {r3}
MCParallel == {r2, r3}
===============================================================================
