------------------------------ MODULE Maintenance ------------------------------
(***************************************************************************)
(* One VACUUM, ANALYZE or REINDEX in the maintenance adapter: the check of *)
(* the target when the command is planned and again when it is executed,   *)
(* each on a connection of its own, then a session that is given its       *)
(* timeouts and runs the statement.  Everybody else may create, drop and   *)
(* replace relations at any time, hold the lock the statement needs, or    *)
(* cancel it; another invocation may watch its progress.                   *)
(*                                                                         *)
(* The catalog holds one name per schema, the one the command is about.    *)
(* Timeouts are counted in tenths of a millisecond.                        *)
(***************************************************************************)
EXTENDS Integers, Sequences

CONSTANTS
  Schemas,       \* schemas of the database, "public" among them
  SearchPath,    \* the search_path of the role: a sequence of schemas
  Commands,      \* the commands that may be given
  LongestTimeout,\* the longest timeout the server takes: INT_MAX milliseconds
  Units,         \* bound: the powers of ten a timeout may be rounded to, 1 among them
  MaxOid,        \* bound: how many relations are ever created
  MaxBlocks,     \* bound: the largest block count a progress view shows
  None           \* no relation, no schema, no timeout, no value

ASSUME SearchPathAssumption == SearchPath \in Seq(Schemas)
ASSUME PublicAssumption == "public" \in Schemas
ASSUME BoundsAssumption ==
  MaxOid \in Nat \ {0} /\ MaxBlocks \in Nat /\ LongestTimeout \in Nat

\* The relkinds that count here: r, p and m are tables, i and I indexes.
Relkind == {"table", "index"}
Relation == [oid : 1 .. MaxOid, relkind : Relkind]

ASSUME NoneAssumption ==
  /\ None \notin Schemas \cup Nat
  /\ None \notin Relation

\* "target" is None for the whole database, else a name with its schema, or
\* without one, or with a database.  _validate_timeouts admits what is > 0.
Target ==
  [schema : Schemas \cup {None}, database : BOOLEAN]

Timeout == (Nat \ {0}) \cup {None}

Command ==
  [operation : {"vacuum", "analyze"}, target : Target \cup {None},
   concurrently : {FALSE}, statement_timeout : Timeout, lock_timeout : Timeout]
  \cup
  [operation : {"reindex index", "reindex table"}, target : Target,
   concurrently : BOOLEAN, statement_timeout : Timeout, lock_timeout : Timeout]

ASSUME CommandsAssumption == \A c \in Commands : c \in Command

\* f"{seconds:g}" keeps six significant digits: what is left of n tenths of a
\* millisecond is a multiple of u.
Coarsens(u, n) == n < 1000000 * u /\ (u = 1 \/ n >= 100000 * u)

ASSUME UnitsAssumption ==
  /\ Units \subseteq Nat \ {0}
  /\ \A c \in Commands : \A n \in {c.statement_timeout, c.lock_timeout} :
       n # None => \E u \in Units : Coarsens(u, n)

VARIABLES
  catalog,    \* schema -> what the name denotes there, or None
  created,    \* how many relations have been created
  moved,      \* whether the catalog has changed since the last check
  held,       \* whether others hold a lock the statement conflicts with
  english,    \* whether the server's messages are in English
  recent,     \* whether the server is PostgreSQL 12 or newer
  owner,      \* whether the role owns the relations
  namesake,   \* whether a name the server may cite contains the word "timeout"
  cmd,        \* the command
  stage,      \* how far it is
  checked,    \* the relation the last check found
  session,    \* the timeouts in force in the executing session, in ms
  processed,  \* the relation the statement has worked on, or None
  leftover,   \* whether an invalid index was left behind
  cause,      \* what stopped the statement, if anything did
  result,     \* how the command ended
  progress    \* what the last look at the progress view gave

world == <<catalog, created, moved, held>>
fixed == <<english, recent, owner, namesake, cmd>>
maintenanceVars ==
  <<world, fixed, stage, checked, session, processed, leftover, cause,
    result, progress>>

MaintenanceResult ==
  {"none", "unsupported", "not_found", "failed", "timed_out", "succeeded"}

MaintenanceTypeOK ==
  /\ catalog \in [Schemas -> Relation \cup {None}]
  /\ created \in 0 .. MaxOid
  /\ {moved, held, english, recent, owner, namesake, leftover} \subseteq BOOLEAN
  /\ cmd \in Commands
  /\ stage \in {"planning", "planned", "executing", "setting", "waiting",
                "running", "ended"}
  /\ checked \in Relation \cup {None}
  /\ session \in [statement : Nat, lock : Nat]
  /\ processed \in Relation \cup {None}
  /\ cause \in {"none", "timer", "operator", "connection"}
  /\ result \in MaintenanceResult
  /\ progress \in (0 .. 100) \cup {None}

-----------------------------------------------------------------------------
(* Checking the target.                                                     *)

Expected ==
  IF cmd.operation = "reindex index" THEN "index" ELSE "table"

\* Faulty: the schema of the target is not passed on.
LookedInPublic == catalog["public"]

\* _require_relation looks an unqualified name up in public.
Looked ==
  IF cmd.target.schema = None THEN catalog["public"]
  ELSE catalog[cmd.target.schema]

\* validate_vacuum, validate_analyze, validate_reindex: what they raise, or
\* "none".  The version is looked at last.
Verdict ==
  IF cmd.target = None THEN "none"
  ELSE IF cmd.target.database THEN "unsupported"
  ELSE IF Looked = None \/ Looked.relkind # Expected THEN "not_found"
  ELSE IF cmd.concurrently /\ ~recent THEN "unsupported"
  ELSE "none"

MaintenanceInit ==
  /\ created = MaxOid - 1
  /\ catalog \in {c \in [Schemas -> [oid : 1 .. created, relkind : Relkind]
                                      \cup {None}] :
       \A s, t \in Schemas : s # t /\ c[s] # None /\ c[t] # None
                               => c[s].oid # c[t].oid}
  /\ moved = FALSE
  /\ held \in BOOLEAN
  /\ english \in BOOLEAN /\ recent \in BOOLEAN /\ owner \in BOOLEAN
  /\ namesake \in BOOLEAN
  /\ cmd \in Commands
  /\ stage = "planning"
  /\ checked = None
  /\ session = [statement |-> 0, lock |-> 0]
  /\ processed = None
  /\ leftover = FALSE
  /\ cause = "none"
  /\ result = "none"
  /\ progress = None

End(how) == stage' = "ended" /\ result' = how

Check(next) ==
  /\ IF Verdict # "none" THEN End(Verdict) ELSE stage' = next /\ UNCHANGED result
  /\ checked' = IF Verdict = "none" /\ cmd.target # None THEN Looked ELSE None
  /\ moved' = FALSE
  /\ UNCHANGED <<catalog, created, held, fixed, session, processed, leftover,
                 cause, progress>>

\* plan_vacuum, plan_analyze, plan_reindex.
PlanCheck == stage = "planning" /\ Check("planned")

\* The operator consents; the adapter checks again before it executes.
ExecuteCheck == stage = "planned" /\ Check("executing")

-----------------------------------------------------------------------------
(* Executing.                                                               *)

\* n / unit as a whole number, rounded half to even.
Nearest(n, unit) ==
  LET whole == n \div unit
      twice == 2 * (n % unit)
  IN IF twice > unit \/ (twice = unit /\ whole % 2 = 1) THEN whole + 1 ELSE whole

\* f"{seconds:g}s", in tenths of a millisecond.
Written(n) == LET u == CHOOSE u \in Units : Coarsens(u, n) IN u * Nearest(n, u)

\* The server reads a whole number of milliseconds.  Before PostgreSQL 12 it
\* reads digits only: neither a fraction nor, from 1e+06 on, an exponent.
Milliseconds(n) == Nearest(Written(n), 10)
Legible(n) == recent \/ (Written(n) % 10000 = 0 /\ Written(n) \div 10000 < 1000000)

Accepted(timeout) ==
  timeout # None => Legible(timeout) /\ Milliseconds(timeout) <= LongestTimeout

\* Faulty: whole seconds are handed to the server.
InForceSeconds(timeout) == IF timeout = None THEN 0 ELSE timeout \div 10000

InForce(timeout) == IF timeout = None THEN 0 ELSE Milliseconds(timeout)

OpenSession ==
  /\ stage = "executing"
  /\ stage' = "setting"
  /\ UNCHANGED <<world, fixed, checked, session, processed, leftover, cause,
                 result, progress>>

\* _apply_timeout, twice: set_config for the session of the statement.
ApplyTimeouts ==
  /\ stage = "setting"
  /\ Accepted(cmd.statement_timeout) /\ Accepted(cmd.lock_timeout)
  /\ session' = [statement |-> InForce(cmd.statement_timeout),
                 lock |-> InForce(cmd.lock_timeout)]
  /\ stage' = "waiting"
  /\ UNCHANGED <<world, fixed, checked, processed, leftover, cause,
                 result, progress>>

\* set_config refuses the value (22023): the statement is not sent.
TimeoutRefused ==
  /\ stage = "setting"
  /\ ~(Accepted(cmd.statement_timeout) /\ Accepted(cmd.lock_timeout))
  /\ End("failed")
  /\ UNCHANGED <<world, fixed, checked, session, processed, leftover, cause,
                 progress>>

\* The relation the statement names: an identifier without a schema is
\* resolved along the search_path, when the lock is granted.
Resolved ==
  IF cmd.target.schema # None THEN catalog[cmd.target.schema]
  ELSE LET found == {n \in DOMAIN SearchPath : catalog[SearchPath[n]] # None}
       IN IF found = {} THEN None
          ELSE catalog[SearchPath[CHOOSE n \in found : \A m \in found : n <= m]]

\* VACUUM and ANALYZE skip, with a warning, a relation that is not a table
\* or that the role may not maintain.
Skips(relation) ==
  /\ cmd.operation \in {"vacuum", "analyze"}
  /\ relation.relkind # "table" \/ ~owner

Refuses(relation) ==
  /\ cmd.operation \in {"reindex index", "reindex table"}
  /\ relation.relkind # Expected \/ ~owner

\* Without a target every relation the role may maintain is worked on.
BeginDatabase ==
  /\ stage = "waiting" /\ ~held
  /\ cmd.target = None
  /\ stage' = "running"
  /\ UNCHANGED <<world, fixed, checked, session, processed, leftover, cause,
                 result, progress>>

BeginStatement ==
  /\ stage = "waiting" /\ ~held
  /\ cmd.target # None
  /\ Resolved # None /\ ~Refuses(Resolved)
  /\ stage' = "running"
  /\ processed' = IF Skips(Resolved) THEN None ELSE Resolved
  /\ UNCHANGED <<world, fixed, checked, session, leftover, cause, result,
                 progress>>

BeginRefused ==
  /\ stage = "waiting" /\ ~held
  /\ cmd.target # None
  /\ Resolved # None => Refuses(Resolved)
  /\ End("failed")
  /\ UNCHANGED <<world, fixed, checked, session, processed, leftover, cause,
                 progress>>

Complete ==
  /\ stage = "running"
  /\ End("succeeded")
  /\ UNCHANGED <<world, fixed, checked, session, processed, leftover, cause,
                 progress>>

\* REINDEX CONCURRENTLY that is stopped half-way leaves its new index behind.
Stopped == leftover' = (stage = "running" /\ cmd.concurrently)

\* Faulty: the sqlstate alone decides.
IsTimeoutSqlstate(sqlstate, word) == sqlstate \in {"57014", "55P03"}

\* _is_timeout_error: one of two sqlstates and the word "timeout" in the text of
\* the error.
IsTimeoutError(sqlstate, word) == sqlstate \in {"57014", "55P03"} /\ word

\* str(error) is not the message alone.  Once a statement works on something it
\* may carry a CONTEXT line that says on what ("while scanning block 7 of
\* relation ..."), and that name may contain the word.
Working == stage = "running" /\ (cmd.target # None => processed # None)
Wordings(message) == {message} \cup (IF Working /\ namesake THEN {TRUE} ELSE {})

Raise(why, sqlstate, message) ==
  /\ cause' = why
  /\ \E word \in Wordings(message) :
       End(IF IsTimeoutError(sqlstate, word) THEN "timed_out" ELSE "failed")
  /\ Stopped
  /\ UNCHANGED <<world, fixed, checked, session, processed, progress>>

StatementTimesOut ==
  /\ stage \in {"waiting", "running"} /\ session.statement > 0
  /\ Raise("timer", "57014", english)

LockTimesOut ==
  /\ stage = "waiting" /\ session.lock > 0 /\ held
  /\ Raise("timer", "55P03", english)

\* query cancel: "canceling statement due to user request".
OthersCancel ==
  /\ stage \in {"waiting", "running"}
  /\ Raise("operator", "57014", FALSE)

\* The connection cannot be opened, breaks, or the session is terminated.
ConnectionFails ==
  /\ stage # "ended"
  /\ Raise("connection", "57P01", FALSE)

Server ==
  \/ BeginDatabase \/ BeginStatement \/ BeginRefused \/ Complete
  \/ StatementTimesOut \/ LockTimesOut

Program == PlanCheck \/ OpenSession \/ ApplyTimeouts \/ TimeoutRefused

-----------------------------------------------------------------------------
(* Everybody else.                                                          *)

OthersDrop(schema) ==
  /\ catalog[schema] # None
  /\ catalog' = [catalog EXCEPT ![schema] = None]
  /\ moved' = TRUE
  /\ UNCHANGED <<created, held>>

OthersCreate(schema, relkind) ==
  /\ catalog[schema] = None /\ created < MaxOid
  /\ created' = created + 1
  /\ catalog' = [catalog EXCEPT ![schema] =
       [oid |-> created + 1, relkind |-> relkind]]
  /\ moved' = TRUE
  /\ UNCHANGED held

OthersLock == held' = ~held /\ UNCHANGED <<catalog, created, moved>>

Others ==
  /\ stage \notin {"running", "ended"}
  /\ \/ \E schema \in Schemas :
          \/ OthersDrop(schema)
          \/ \E relkind \in Relkind : OthersCreate(schema, relkind)
     \/ OthersLock
  /\ UNCHANGED <<fixed, stage, checked, session, processed, leftover, cause,
                 result, progress>>

\* _map_progress of one row.  The counts are read while the statement runs: the
\* relation may have grown past its total, and a phase may have no total.
Percent(completed, total) ==
  IF completed = None \/ total = None THEN None
  ELSE IF total = 0 THEN None
  ELSE IF completed > total THEN 100
  ELSE (100 * completed) \div total

WatchProgress ==
  /\ stage = "running"
  /\ \E completed, total \in (0 .. MaxBlocks) \cup {None} :
       progress' = Percent(completed, total)
  /\ UNCHANGED <<world, fixed, stage, checked, session, processed, leftover,
                 cause, result>>

MaintenanceNext ==
  Program \/ ExecuteCheck \/ Server \/ OthersCancel \/ ConnectionFails \/ Others
    \/ WatchProgress

MaintenanceSpec == MaintenanceInit /\ [][MaintenanceNext]_maintenanceVars

\* The program goes on with what it began, and so does the server: it begins a
\* statement nobody keeps waiting, completes it, and lets its timers run out.
\* Nobody has to consent to a plan, nor to release a lock.
MaintenanceFairness ==
  WF_maintenanceVars(Program) /\ WF_maintenanceVars(Server)

FairMaintenanceSpec == MaintenanceSpec /\ MaintenanceFairness

-----------------------------------------------------------------------------
(* Properties.                                                              *)

Qualified == IF cmd.target = None THEN FALSE ELSE cmd.target.schema # None

\* A success means that the statement worked, from end to end, on the very
\* relation the last check found and of the kind the command is about, for a
\* qualified target whose role owns it and which nobody moved in between.
SuccessMeansProcessed ==
  /\ result = "succeeded" => cause = "none" /\ ~leftover
  /\ result = "succeeded" /\ owner /\ ~moved /\ Qualified =>
       processed = checked /\ processed.relkind = Expected

\* "Maintenance preflight validates relation targets before execution"
\* (README.md:451), whichever way the target is written.
CheckedTargetIsProcessed ==
  result = "succeeded" /\ owner /\ ~moved => processed = checked

\* With English messages a statement stopped by its timeout is reported as timed
\* out.  One that an operator cancelled has the same sqlstate: it is taken for a
\* timeout only when it was already at work on something whose name contains the
\* word, and one whose connection broke never is.
TimeoutsAreToldApart ==
  /\ result = "timed_out" =>
       \/ cause = "timer"
       \/ cause = "operator" /\ namesake /\ (cmd.target # None => processed # None)
  /\ cause = "timer" /\ english => result = "timed_out"

\* A command that is given a timeout of more than half a millisecond ends,
\* even when nobody ever releases the lock it waits for.
BoundedCommandsEnd ==
  (stage = "executing" /\ \E timeout \in {cmd.statement_timeout, cmd.lock_timeout} :
                             timeout # None /\ timeout > 5)
    ~> (stage = "ended")
===============================================================================
