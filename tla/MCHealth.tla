-------------------------------- MODULE MCHealth --------------------------------
(* HealthSuite with few kinds of session: ages on, between and beyond the     *)
(* thresholds, a session that hides from our role, one that waits.            *)
EXTENDS HealthSuite

Session(state, query, xact, waits, shown) ==
  [state |-> state, query |-> query, xact |-> xact, waits |-> waits,
   shown |-> shown]

MCActivity ==
  {Session("idle", 0, 0, FALSE, TRUE),
   Session("active", 1, 2, FALSE, TRUE),
   Session("active", 2, 3, TRUE, FALSE),
   Session("aborted", 0, 2, FALSE, TRUE)}

Pair(warning, critical) == [warning |-> warning, critical |-> critical]

Thresholds(usage, ages, locks) ==
  [connection_usage |-> usage, long_queries |-> ages,
   long_transactions |-> ages, idle_transactions |-> ages,
   waiting_locks |-> locks]

MCConfigs ==
  {Thresholds(Pair(50, 100), Pair(1, 2), Pair(1, 2)),
   Thresholds(Pair(Unset, 67), Pair(2, Unset), Pair(Unset, 1)),
   Thresholds(Pair(50, 100), Pair(2, 2), Pair(1, 2))}

MCPolicies ==
  {DefaultPolicy, [allowed |-> {}, forbidden |-> {}, limit |-> 4],
   [DefaultPolicy EXCEPT !.limit = 0]}
===============================================================================
