------------------------------ MODULE HealthSuite ------------------------------
(***************************************************************************)
(* pydbadmin health check, and the monitoring snapshot with its export.    *)
(*                                                                         *)
(* Six checks run one after the other, each on connections of its own, on  *)
(* a server whose sessions come, go and change between any two reads.  A   *)
(* check classifies what it read by a pair of thresholds; the runner turns *)
(* a check that raises into a result; the report is their aggregate and    *)
(* the exit code follows from it.  A snapshot reads its metrics first, on  *)
(* two more connections, and its export validates them before any leaves.  *)
(*                                                                         *)
(* A session is what the queries tell apart: its state, the ages of its    *)
(* query and of its transaction, whether it waits for a lock, and whether  *)
(* our role is shown its row.                                              *)
(***************************************************************************)
EXTENDS Integers, Sequences, FiniteSets, FiniteSetsExt

CONSTANTS
  Clients,       \* the clients that may be connected
  Activity,      \* the sessions they may have
  Capacity,      \* max_connections
  Databases,     \* the databases whose size is read
  HealthConfigs, \* the threshold configurations that may be asked for
  Policies,      \* the cardinality policies an export may have
  MaxMoves,      \* bound: how often the sessions change during one command
  MaxFailures,   \* bound: how many connections or statements fail
  Unset          \* no session, no threshold, no result yet

SessionState == {"idle", "active", "in_xact", "aborted"}

ASSUME ActivityAssumption == \A a \in Activity :
  /\ a.state \in SessionState
  /\ a.query \in Nat /\ a.xact \in Nat /\ a.query <= a.xact
  /\ a.waits \in BOOLEAN /\ a.shown \in BOOLEAN
  /\ a.waits => a.state = "active"

ASSUME CapacityAssumption == Capacity \in Nat \ {0}
ASSUME MovesAssumption == MaxMoves \in Nat /\ MaxFailures \in Nat
ASSUME ClientsAssumption == IsFiniteSet(Clients)
ASSUME DatabasesAssumption == Databases # {}

\* How the command ends: what it prints, and for health check the exit code.
Endings == {"usage", "error", "escaped", "captured", "exit 0", "exit 1"}

ASSUME UnsetAssumption == Unset \notin Activity \cup Int \cup Endings

Suite == <<"connectivity", "connection_usage", "long_queries",
           "long_transactions", "idle_transactions", "waiting_locks">>

Measured == {Suite[n] : n \in 2 .. Len(Suite)}

HealthStatus == {"ok", "warning", "critical", "unknown"}

ASSUME ConfigsAssumption == \A config \in HealthConfigs : \A check \in Measured :
  {config[check].warning, config[check].critical} \subseteq Int \cup {Unset}

VARIABLES
  sessions,   \* client -> its session, or Unset
  moves,      \* how often they have changed
  failures,   \* how many connections and statements have failed
  request,    \* what is asked: thresholds, fail_on_warning, snapshot, policy
  phase,      \* what the command does next
  waiting,    \* the sessions the first read of waiting_locks found
  results,    \* the results so far, in the order of the suite
  batch,      \* the metrics of the snapshot
  delivered,  \* what the exporter was given, or Unset
  verdict,    \* how the command ended
  was         \* measured check -> the values it could have measured so far

healthVars ==
  <<sessions, moves, failures, request, phase, waiting, results, batch,
    delivered, verdict, was>>

-----------------------------------------------------------------------------
(* Thresholds and what the checks read.                                     *)

ValidThreshold(t) ==
  /\ \A bound \in {t.warning, t.critical} : bound # Unset => bound >= 0
  /\ (t.warning # Unset /\ t.critical # Unset) => t.warning < t.critical

ValidConfig(config) == \A check \in Measured : ValidThreshold(config[check])

Reached(value, bound) == bound # Unset /\ value >= bound

\* Faulty: the bounds themselves are still healthy.
StatusAbove(value, t) ==
  CASE t.critical # Unset /\ value > t.critical -> "critical"
    [] t.warning # Unset /\ value > t.warning -> "warning"
    [] OTHER -> "ok"

StatusForThreshold(value, t) ==
  CASE Reached(value, t.critical) -> "critical"
    [] Reached(value, t.warning) /\ ~Reached(value, t.critical) -> "warning"
    [] OTHER -> "ok"

Connected == {c \in Clients : sessions[c] # Unset}

\* The rows our role is shown; of the others pg_stat_activity gives a pid, a
\* database and a user, and NULL for all that the queries filter on.
Visible == {c \in Connected : sessions[c].shown}

ActiveQueries == {c \in Visible : sessions[c].state = "active"}
OpenTransactions == {c \in Visible : sessions[c].state # "idle"}
IdleTransactions ==
  {c \in OpenTransactions : sessions[c].state \in {"in_xact", "aborted"}}

\* pg_locks and pg_blocking_pids hide nothing.
LockWaiters == {c \in Connected : sessions[c].waits}

Oldest(ages) == Max(ages \cup {0})

\* What a check measures on the server as it is.  The statistics query counts
\* the connection it runs on, the lists leave it out.
Measure(check) ==
  CASE check = "connection_usage" ->
         (100 * (Cardinality(Visible) + 1)) \div Capacity
    [] check = "long_queries" -> Oldest({sessions[c].query : c \in ActiveQueries})
    [] check = "long_transactions" ->
         Oldest({sessions[c].xact : c \in OpenTransactions})
    [] check = "idle_transactions" ->
         Oldest({sessions[c].xact : c \in IdleTransactions})
    [] check = "waiting_locks" -> Cardinality(LockWaiters)

StatusNow(check) == StatusForThreshold(Measure(check), request.thresholds[check])

-----------------------------------------------------------------------------
(* Metrics and their export.                                                *)

\* CORE_METRIC_REGISTRY: the label names of every core metric.
Registry ==
  [name \in {"connections.total", "connections.active", "connections.idle",
             "connections.idle_in_transaction",
             "connections.utilization_ratio", "database.size_bytes"} |->
    IF name = "database.size_bytes" THEN {"database"} ELSE {}]

\* A metric by its name and its labels; the label of a size is its database.
ConnectionMetrics ==
  {[name |-> name, labels |-> << >>] :
     name \in (DOMAIN Registry) \ {"database.size_bytes"}}

\* Faulty: the sizes are told apart by nothing.
UnlabelledSizeMetrics == {[name |-> "database.size_bytes", labels |-> << >>]}

SizeMetrics ==
  {[name |-> "database.size_bytes", labels |-> [database |-> d]] : d \in Databases}

LabelNames(metric) == DOMAIN metric.labels

Admits(policy, metric) ==
  /\ LabelNames(metric) \cap policy.forbidden = {}
  /\ LabelNames(metric) \subseteq policy.allowed
  /\ Cardinality(LabelNames(metric)) <= policy.limit

\* MetricCardinalityPolicy() without arguments.
DefaultPolicy ==
  [allowed |-> {"profile", "environment", "database", "status"},
   forbidden |-> {"pid", "query", "query_text", "client_address", "client_ip"},
   limit |-> 4]

ASSUME PoliciesAssumption == \A p \in Policies :
  p.allowed \cap p.forbidden = {} /\ p.limit \in Nat

\* What leaves through the exporter: nothing when one metric is turned down.
Exported(policy, metrics) ==
  IF \A m \in metrics : Admits(policy, m) THEN metrics ELSE {}

-----------------------------------------------------------------------------
HealthTypeOK ==
  /\ sessions \in [Clients -> Activity \cup {Unset}]
  /\ moves \in 0 .. MaxMoves /\ failures \in 0 .. MaxFailures
  /\ request.thresholds \in HealthConfigs /\ request.policy \in Policies \cup {DefaultPolicy}
  /\ phase \in {"start", "statistics", "sizes", "probe", "blocking", "report",
                "ended"} \cup {Suite[n] : n \in 1 .. Len(Suite)}
  /\ waiting \subseteq Clients
  /\ Len(results) <= Len(Suite)
  /\ \A n \in 1 .. Len(results) :
       results[n].name = Suite[n] /\ results[n].status \in HealthStatus
  /\ batch \subseteq ConnectionMetrics \cup SizeMetrics
  /\ delivered \in {Unset} \cup SUBSET batch
  /\ verdict \in Endings \cup {Unset}
  /\ was \in [Measured -> SUBSET Nat]

HealthInit ==
  /\ sessions \in [Clients -> Activity \cup {Unset}]
  /\ Cardinality(Connected) <= Capacity
  /\ moves = 0 /\ failures = 0
  /\ request \in
       [thresholds : HealthConfigs, strict : BOOLEAN, snapshot : {FALSE},
        policy : {DefaultPolicy}]
       \cup [thresholds : HealthConfigs, strict : {FALSE}, snapshot : {TRUE},
             policy : Policies]
  /\ request.snapshot => ValidConfig(request.thresholds)
  /\ phase = "start"
  /\ waiting = {}
  /\ results = << >>
  /\ batch = {}
  /\ delivered = Unset
  /\ verdict = Unset
  /\ was = [check \in Measured |-> {}]

\* Every step of the command leaves the server alone.
Untouched == UNCHANGED <<sessions, moves, request, was>>

\* A client connects, leaves, or goes on to something else.
SessionMoves(c) ==
  /\ phase # "ended" /\ moves < MaxMoves
  /\ \E activity \in (Activity \cup {Unset}) \ {sessions[c]} :
       sessions' = [sessions EXCEPT ![c] = activity]
  /\ Cardinality(Connected') <= Capacity
  /\ moves' = moves + 1
  /\ was' = IF phase = "start" THEN was
            ELSE [check \in Measured |-> was[check] \cup {Measure(check)'}]
  /\ UNCHANGED <<failures, request, phase, waiting, results, batch, delivered,
                 verdict>>

\* A connection is refused for sure only when no slot is left.
Room == Cardinality(Connected) < Capacity

Fails == failures < MaxFailures \/ ~Room
CountFailure == failures' = IF failures < MaxFailures THEN failures + 1 ELSE failures

-----------------------------------------------------------------------------
(* The command.                                                             *)

\* The thresholds are built: a pair that is negative or the wrong way round is
\* a usage error.  Then the profile is resolved.
UsageError ==
  /\ phase = "start" /\ ~ValidConfig(request.thresholds)
  /\ phase' = "ended" /\ verdict' = "usage"
  /\ Untouched
  /\ UNCHANGED <<failures, waiting, results, batch, delivered>>

Begin ==
  /\ phase = "start" /\ ValidConfig(request.thresholds)
  /\ phase' = IF request.snapshot THEN "statistics" ELSE Suite[1]
  /\ was' = [check \in Measured |-> {Measure(check)}]
  /\ UNCHANGED <<sessions, moves, failures, request, waiting, results, batch,
                 delivered, verdict>>

\* A configuration or a secret that cannot be resolved.
ResolveFails ==
  /\ phase = "start" /\ failures < MaxFailures
  /\ ValidConfig(request.thresholds)
  /\ failures' = failures + 1
  /\ phase' = "ended" /\ verdict' = "error"
  /\ Untouched
  /\ UNCHANGED <<waiting, results, batch, delivered>>

\* collect_metrics: the statistics, then the sizes.
Collect ==
  /\ phase \in {"statistics", "sizes"} /\ Room
  /\ IF phase = "statistics"
       THEN batch' = ConnectionMetrics /\ phase' = "sizes"
       ELSE batch' = batch \cup SizeMetrics /\ phase' = Suite[1]
  /\ Untouched
  /\ UNCHANGED <<failures, waiting, results, delivered, verdict>>

\* Any failure there is the end of the snapshot.
CollectFails ==
  /\ phase \in {"statistics", "sizes"} /\ Fails
  /\ CountFailure
  /\ batch' = {}
  /\ phase' = "ended" /\ verdict' = "error"
  /\ Untouched
  /\ UNCHANGED <<waiting, results, delivered>>

\* The next check of the suite, or the report after the last one.
AfterResults(rs) == IF Len(rs) < Len(Suite) THEN Suite[Len(rs) + 1] ELSE "report"

Result(name, status) == [name |-> name, status |-> status]

EndCheck(name, status) ==
  /\ results' = Append(results, Result(name, status))
  /\ phase' = AfterResults(results')

\* The connectivity probe has a connection, and then an answer.
ProbeConnects ==
  /\ phase = "connectivity" /\ Room
  /\ phase' = "probe"
  /\ Untouched
  /\ UNCHANGED <<failures, waiting, results, batch, delivered, verdict>>

ProbeAnswers ==
  /\ phase = "probe"
  /\ EndCheck("connectivity", "ok")
  /\ Untouched
  /\ UNCHANGED <<failures, waiting, batch, delivered, verdict>>

\* The probe's own statement is outside the translation of driver errors: what
\* it raises is no PyDBAdminError and leaves through the runner.
ProbeBreaks ==
  /\ phase = "probe" /\ failures < MaxFailures
  /\ failures' = failures + 1
  /\ phase' = "ended" /\ verdict' = "escaped"
  /\ batch' = {}
  /\ Untouched
  /\ UNCHANGED <<waiting, results, delivered>>

\* A check whose connection or statement fails: the runner makes it a result.
\* Faulty: whatever fails is unknown.
StatusOfUnknown(check) == "unknown"

StatusOfFailure(check) == IF check = "connectivity" THEN "critical" ELSE "unknown"

CheckFails ==
  /\ phase \in {Suite[n] : n \in 1 .. Len(Suite)} \cup {"blocking"} /\ Fails
  /\ CountFailure
  /\ LET check == Suite[Len(results) + 1]
     IN  EndCheck(check, StatusOfFailure(check))
  /\ waiting' = {}
  /\ Untouched
  /\ UNCHANGED <<batch, delivered, verdict>>

\* The checks that read once.
CheckReads ==
  /\ phase \in Measured \ {"waiting_locks"} /\ Room
  /\ EndCheck(phase, StatusNow(phase))
  /\ Untouched
  /\ UNCHANGED <<failures, waiting, batch, delivered, verdict>>

\* waiting_locks reads the waiting locks, and the blocking chain on another
\* connection, and counts the sessions that are in either.
ReadWaitingLocks ==
  /\ phase = "waiting_locks" /\ Room
  /\ waiting' = LockWaiters
  /\ phase' = "blocking"
  /\ Untouched
  /\ UNCHANGED <<failures, results, batch, delivered, verdict>>

\* Faulty: only the sessions both reads found.
BothWaited(first, second) == first \cap second

EitherWaited(first, second) == first \cup second

ReadBlocking ==
  /\ phase = "blocking" /\ Room
  /\ LET waited == Cardinality(EitherWaited(waiting, LockWaiters))
     IN  EndCheck("waiting_locks",
           StatusForThreshold(waited, request.thresholds["waiting_locks"]))
  /\ waiting' = {}
  /\ Untouched
  /\ UNCHANGED <<failures, batch, delivered, verdict>>

\* HealthReport.from_checks.
Aggregate(statuses) ==
  CASE "critical" \in statuses -> "critical"
    [] "warning" \in statuses /\ "critical" \notin statuses -> "warning"
    [] statuses \subseteq {"unknown"} -> "unknown"
    [] OTHER -> "ok"

Statuses(rs) == {rs[n].status : n \in 1 .. Len(rs)}

Overall == Aggregate(Statuses(results))

\* The report of health check is printed and the exit code follows it; that of
\* a snapshot goes to the caller, who exports its metrics.
Report ==
  /\ phase = "report"
  /\ phase' = "ended"
  /\ IF request.snapshot
       THEN /\ verdict' = "captured"
            /\ delivered' = Exported(request.policy, batch)
       ELSE /\ verdict' = IF \/ Overall = "critical"
                             \/ request.strict /\ Overall = "warning"
                            THEN "exit 1" ELSE "exit 0"
            /\ delivered' = delivered
  /\ Untouched
  /\ UNCHANGED <<failures, waiting, results, batch>>

HealthStep ==
  \/ UsageError \/ Begin \/ ResolveFails \/ Collect \/ CollectFails
  \/ ProbeConnects \/ ProbeAnswers \/ ProbeBreaks
  \/ CheckFails \/ CheckReads \/ ReadWaitingLocks \/ ReadBlocking
  \/ Report

HealthNext == HealthStep \/ \E c \in Clients : SessionMoves(c)

HealthSpec == HealthInit /\ [][HealthNext]_healthVars

-----------------------------------------------------------------------------
(* What the report says of the server.                                      *)

Reported == verdict \in {"exit 0", "exit 1", "captured"}

Severity == [ok |-> 0, warning |-> 1, critical |-> 2]

\* The server moves under the six checks, so a report describes no moment; but
\* every status in it that is not unknown is one the check would have found at
\* some moment of the command (checks/*.py, runner.py).  waiting_locks adds up
\* two moments: it may be graver than every moment was, never milder.
EveryStatusWasTrue ==
  \A n \in 2 .. Len(results) :
    results[n].status # "unknown" =>
      \E value \in was[results[n].name] :
        LET then == StatusForThreshold(value, request.thresholds[results[n].name])
        IN  IF results[n].name = "waiting_locks"
              THEN Severity[then] <= Severity[results[n].status]
              ELSE then = results[n].status

\* A measure that was at or above its critical threshold all the time the
\* command ran, and that the check could read, makes the report critical and
\* the exit code 1, whatever becomes of the other checks (base.py:22-31,
\* health.py:55-75, cli/commands/health.py:104-107).
CriticalIsNotHidden ==
  Reported =>
    \A n \in 2 .. Len(results) :
      LET critical == request.thresholds[results[n].name].critical
      IN  /\ results[n].status # "unknown"
          /\ critical # Unset
          /\ \A value \in was[results[n].name] : value >= critical
          => Overall = "critical" /\ verdict # "exit 0"

\* A command that exits 0 has reached the server and read no critical measure,
\* with --fail-on-warning no warning either; so a report of the default suite
\* is never UNKNOWN as a whole (runner.py:25-36).
AllClearIsEarned ==
  verdict = "exit 0" =>
    /\ results[1] = Result("connectivity", "ok")
    /\ Overall \in (IF request.strict THEN {"ok"} ELSE {"ok", "warning"})

\* A snapshot has every metric of the registry under its own labels, and its
\* export is all of it or nothing; the default policy lets all of it out
\* (service.py:39-78, exporters.py:18-28, cardinality.py:34-54).
ExportIsWhole ==
  verdict = "captured" =>
    /\ {m.name : m \in batch} = DOMAIN Registry
    /\ \A m \in batch : LabelNames(m) = Registry[m.name]
    /\ delivered \in {batch, {}}
    /\ request.policy = DefaultPolicy => delivered = batch

\* CHANGELOG.md:173: the runner isolates the failures of a check, so that a
\* connectivity failure is CRITICAL and any other UNKNOWN.
FailuresAreIsolated == verdict # "escaped"
=============================================================================
