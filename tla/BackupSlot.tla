----------------------------- MODULE BackupSlot -----------------------------
(***************************************************************************)
(* What a destination path promises to whoever loads a backup from it,     *)
(* when runs of `backup create` follow one another: at every moment it     *)
(* shows one complete backup or none; a run that fails leaves it showing   *)
(* what it showed before; a run that succeeds leaves it showing that run's *)
(* backup; a backup that a run reported is not lost.                       *)
(*                                                                         *)
(* Only the replacement by a forced run is not instantaneous: the backup   *)
(* shown is set aside, and the new one shown, in two steps.  A run killed  *)
(* between the two leaves nothing shown, but the old backup in the         *)
(* directory.                                                              *)
(***************************************************************************)
CONSTANTS Attempt, Forced, None

VARIABLES
  shown,    \* the run whose backup load_backup finds, or None
  aside,    \* the backup a forced run in progress has set aside, or None
  kept,     \* the runs whose backup is somewhere in the directory
  outcome   \* how each run ended

vars == <<shown, aside, kept, outcome>>

Init ==
  /\ shown = None
  /\ aside = None
  /\ kept = {}
  /\ outcome = [a \in Attempt |-> "pending"]

Ends(a, how) == outcome[a] = "pending" /\ outcome' = [outcome EXCEPT ![a] = how]

Displace(a) ==
  /\ a \in Forced
  /\ outcome[a] = "pending"
  /\ shown # None
  /\ shown' = None /\ aside' = shown
  /\ UNCHANGED <<kept, outcome>>

Show(a) ==
  /\ outcome[a] = "pending"
  /\ shown = None
  /\ shown' = a
  /\ kept' = kept \cup {a}
  /\ UNCHANGED <<aside, outcome>>

Reinstate ==
  /\ shown = None /\ aside # None
  /\ shown' = aside /\ aside' = None
  /\ UNCHANGED <<kept, outcome>>

\* Older backups may be deleted only now, with the new one shown and complete.
Succeed(a) ==
  /\ Ends(a, "succeeded")
  /\ shown = a
  /\ aside' = None
  /\ kept' \in {K \in SUBSET kept : a \in K}
  /\ UNCHANGED shown

Fail(a) ==
  /\ Ends(a, "failed")
  /\ shown # a /\ aside = None
  /\ UNCHANGED <<shown, aside, kept>>

Crash(a) ==
  /\ Ends(a, "crashed")
  /\ aside' = None
  /\ UNCHANGED <<shown, kept>>

Next ==
  \/ \E a \in Attempt :
       Displace(a) \/ Show(a) \/ Succeed(a) \/ Fail(a) \/ Crash(a)
  \/ Reinstate

Spec == Init /\ [][Next]_vars
=============================================================================
