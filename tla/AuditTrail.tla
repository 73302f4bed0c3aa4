------------------------------ MODULE AuditTrail ------------------------------
(***************************************************************************)
(* What the audit file promises about one guarded mutation: the events     *)
(* that carry its correlation id form one lifecycle, and the target is      *)
(* changed only while that lifecycle is open.  GuardedMutation implements   *)
(* this specification; the five services share it.                         *)
(***************************************************************************)
EXTENDS Sequences

VARIABLES
  trail,    \* the events recorded under the correlation id, oldest first
  touched   \* whether the target has been changed, or will be

vars == <<trail, touched>>

Closed == {"BLOCKED", "FAILED", "SUCCEEDED"}

Init == trail = << >> /\ touched = FALSE

\* The request is turned down before anything ran.
Refuse == trail = << >> /\ trail' = <<"BLOCKED">> /\ UNCHANGED touched

\* The intent is on record before anything runs.
Open == trail = << >> /\ trail' = <<"STARTED">> /\ UNCHANGED touched

\* The one effect of an open lifecycle.
Apply == trail = <<"STARTED">> /\ touched' = TRUE /\ UNCHANGED trail

\* The lifecycle is closed by one event, which never claims an effect that
\* did not happen nor denies one that did.
Close ==
  /\ trail = <<"STARTED">>
  /\ \E event \in Closed :
       /\ event = "SUCCEEDED" => touched
       /\ event = "BLOCKED" => ~touched
       /\ trail' = Append(trail, event)
  /\ UNCHANGED touched

Next == Refuse \/ Open \/ Apply \/ Close

Spec == Init /\ [][Next]_vars
===============================================================================
