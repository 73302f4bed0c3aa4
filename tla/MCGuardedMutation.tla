--------------------------- MODULE MCGuardedMutation ---------------------------
(* The whole of what an invocation may be asked, for TLC.                     *)
EXTENDS GuardedMutation

EveryCommand == Command
EveryConfig == ResolvedConnectionConfig
EveryContext == CLIContext
EveryChoice == MutationOptions

\* A smaller instance: one command per service.
OneOfEach ==
  {c \in Command :
     /\ c.operation \in {"role.drop", "query.cancel", "reindex",
                         "backup.create", "backup.restore"}
     /\ c.grade = "plain"
     /\ c.subject = "ordinary"}

OneConfig == {[environment |-> "staging", read_only |-> FALSE]}
===============================================================================
