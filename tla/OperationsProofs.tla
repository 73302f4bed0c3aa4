---------------------------- MODULE OperationsProofs -----------------------------
(***************************************************************************)
(* Theorems about what an operator has the program tend and watch:         *)
(* Maintenance, for every set of schemas, every search_path and every      *)
(* command; HealthSuite, for any number of clients, every configuration of *)
(* thresholds and any number of moves and failures.                        *)
(***************************************************************************)
EXTENDS Maintenance, HealthSuite, FiniteSetTheorems, WellFoundedInduction, TLAPS

\* Every set of natural numbers has a least element, if it has any.
LEMMA LeastOf ==
  ASSUME NEW S \in SUBSET Nat, S # {}
  PROVE  \E n \in S : \A m \in S : n <= m
<1>1. IsWellFoundedOn(OpToRel(<, Nat), Nat)
  BY NatLessThanWellFounded, Zenon
<1>2. \A x, y \in Nat : y < x => <<y, x>> \in OpToRel(<, Nat)
  BY DEF OpToRel
<1>3. \E R : IsWellFoundedOn(R, Nat) /\ \A x, y \in Nat : y < x => <<y, x>> \in R
  BY <1>1, <1>2, Zenon
<1>4. PICK R : IsWellFoundedOn(R, Nat) /\ \A x, y \in Nat : y < x => <<y, x>> \in R
  BY <1>3
<1>5. PICK x \in S : \A y \in S : ~ (<<y, x>> \in R)
  <2>1. \E x \in S : \A y \in S : ~ (<<y, x>> \in R)
    BY <1>4, WFMin
  <2>. QED BY <2>1
<1>6. ASSUME NEW y \in S PROVE x <= y
  <2>1. ~(y < x) /\ x \in Nat /\ y \in Nat
    BY <1>4, <1>5
  <2>. QED BY <2>1
<1>. QED BY <1>6

-----------------------------------------------------------------------------
(* One maintenance command.                                                 *)

\* The name of the target is schema-qualified and denotes, where it says, the
\* relation the last check has found, of the kind the command is about.
Found ==
  /\ checked = catalog[cmd.target.schema]
  /\ checked # None /\ checked.relkind = Expected

(***************************************************************************)
(* What holds between the check and the end.  "moved" is what the schedule *)
(* adds to it: as long as nobody touched the catalog since the check, a    *)
(* qualified target still denotes what was checked, and once the statement *)
(* runs that relation is what it works on.                                 *)
(***************************************************************************)
Underway ==
  /\ cmd \in Command
  /\ result # "succeeded" =>
       /\ stage \in {"planned", "executing", "setting", "waiting"} /\ ~moved /\ Qualified
            => Found
       /\ stage = "running" /\ ~moved /\ Qualified /\ owner
            => Found /\ processed = checked
  /\ stage # "ended" => cause = "none" /\ ~leftover /\ result = "none"
  /\ english \in BOOLEAN
  /\ SuccessMeansProcessed
  /\ TimeoutsAreToldApart

LEMMA InitUnderway == MaintenanceInit => Underway
BY CommandsAssumption
   DEF MaintenanceInit, Underway, SuccessMeansProcessed, TimeoutsAreToldApart

\* A check that says nothing has found a relation of the expected kind.
LEMMA CheckFinds ==
  ASSUME Underway, NEW next, Check(next), Verdict = "none", Qualified
  PROVE  Found'
<1>1. cmd.target # None /\ cmd.target.schema # None
  BY DEF Qualified
<1>2. Looked = catalog[cmd.target.schema] /\ Looked # None /\ Looked.relkind = Expected
  BY <1>1 DEF Verdict, Looked
<1>3. checked' = Looked /\ catalog' = catalog /\ cmd' = cmd
  BY <1>1 DEF Check, fixed
<1>. QED BY <1>2, <1>3 DEF Found, Expected

LEMMA Verdicts == Verdict \in {"none", "unsupported", "not_found"}
BY DEF Verdict

LEMMA StepUnderway == Underway /\ [MaintenanceNext]_maintenanceVars => Underway'
<1> SUFFICES ASSUME Underway, [MaintenanceNext]_maintenanceVars PROVE Underway'
  OBVIOUS
<1> USE DEF SuccessMeansProcessed, TimeoutsAreToldApart
<1>f. ASSUME UNCHANGED fixed
      PROVE  cmd' \in Command /\ cmd' = cmd /\ owner' = owner /\ english' = english
             /\ namesake' = namesake
             /\ (Qualified' <=> Qualified) /\ Expected' = Expected
  BY <1>f DEF fixed, Underway, Qualified, Expected
<1>1. ASSUME NEW next \in {"planned", "executing"}, Check(next),
             stage \in {"planning", "planned"}
      PROVE  Underway'
  <2>1. CASE Verdict = "none"
    <3>1. /\ stage' = next /\ result' = result /\ UNCHANGED <<leftover, cause>>
          /\ UNCHANGED fixed
      BY <1>1, <2>1 DEF Check
    <3>2. Qualified' => Found'
      BY <1>f, <1>1, <2>1, <3>1, CheckFinds
    <3>. QED BY <1>f, <1>1, <3>1, <3>2 DEF Underway
  <2>2. CASE Verdict # "none"
    <3>1. /\ stage' = "ended" /\ result' \in {"unsupported", "not_found"}
          /\ UNCHANGED <<leftover, cause>> /\ UNCHANGED fixed
      BY <1>1, <2>2, Verdicts DEF Check, End
    <3>. QED BY <1>f, <1>1, <3>1 DEF Underway
  <2>. QED BY <2>1, <2>2
<1>2. CASE OpenSession \/ ApplyTimeouts
  <2>1. UNCHANGED <<catalog, moved, checked, processed, leftover, cause, result>>
        /\ UNCHANGED fixed
    BY <1>2 DEF OpenSession, ApplyTimeouts, world
  <2>2. stage \in {"executing", "setting"} /\ stage' \in {"setting", "waiting"}
    BY <1>2 DEF OpenSession, ApplyTimeouts
  <2>3. Found => Found'
    BY <1>f, <2>1 DEF Found
  <2>. QED BY <1>f, <2>1, <2>2, <2>3 DEF Underway
<1>3. CASE TimeoutRefused \/ BeginRefused
  <2>1. stage # "ended" /\ stage' = "ended" /\ result' = "failed"
        /\ UNCHANGED <<leftover, cause>> /\ UNCHANGED fixed
    BY <1>3 DEF TimeoutRefused, BeginRefused, End
  <2>. QED BY <1>f, <2>1 DEF Underway
<1>4. CASE BeginDatabase
  <2>1. ~Qualified /\ stage = "waiting" /\ stage' = "running"
        /\ UNCHANGED <<leftover, cause, result>> /\ UNCHANGED fixed
    BY <1>4 DEF BeginDatabase, Qualified
  <2>. QED BY <1>f, <2>1 DEF Underway
<1>5. CASE BeginStatement
  <2>1. /\ stage = "waiting" /\ stage' = "running"
        /\ UNCHANGED <<catalog, moved, checked, leftover, cause, result>>
        /\ UNCHANGED fixed
        /\ processed' = IF Skips(Resolved) THEN None ELSE Resolved
    BY <1>5 DEF BeginStatement, world
  <2>2. ASSUME ~moved, Qualified, owner PROVE Found /\ processed' = checked
    <3>1. Found /\ Resolved = checked
      BY <2>1, <2>2 DEF Underway, Found, Resolved, Qualified
    <3>2. ~Skips(Resolved)
      <4>1. cmd.operation \in {"vacuum", "analyze"} => checked.relkind = "table"
        BY <3>1 DEF Found, Expected
      <4>. QED BY <2>2, <3>1, <4>1 DEF Skips
    <3>. QED BY <2>1, <3>1, <3>2
  <2>3. Found => Found'
    BY <1>f, <2>1 DEF Found
  <2>. QED BY <1>f, <2>1, <2>2, <2>3 DEF Underway
<1>6. CASE Complete
  <2>1. /\ stage = "running" /\ stage' = "ended" /\ result' = "succeeded"
        /\ UNCHANGED <<catalog, moved, checked, processed, leftover, cause>>
        /\ UNCHANGED fixed
    BY <1>6 DEF Complete, End, world
  <2>2. Found => checked.relkind = Expected
    BY DEF Found
  <2>. QED BY <1>f, <2>1, <2>2 DEF Underway
<1>7. ASSUME NEW why \in {"timer", "operator", "connection"}, NEW sqlstate,
             NEW message \in BOOLEAN, Raise(why, sqlstate, message), stage # "ended",
             why = "connection" => sqlstate = "57P01",
             why = "operator" => ~message,
             why = "timer" => sqlstate \in {"57014", "55P03"} /\ message = english
      PROVE  Underway'
  <2>1. PICK word \in Wordings(message) :
          result' = IF IsTimeoutError(sqlstate, word) THEN "timed_out" ELSE "failed"
    BY <1>7 DEF Raise, End
  <2>2. stage' = "ended" /\ cause' = why /\ processed' = processed /\ UNCHANGED fixed
    BY <1>7 DEF Raise, End
  <2>3. result' = "timed_out" =>
          \/ why = "timer"
          \/ why = "operator" /\ namesake /\ (cmd.target # None => processed # None)
    BY <1>7, <2>1 DEF IsTimeoutError, Wordings, Working
  <2>4. why = "timer" /\ english => result' = "timed_out"
    BY <1>7, <2>1 DEF IsTimeoutError, Wordings
  <2>5. result' \in {"timed_out", "failed"}
    BY <2>1
  <2>. QED BY <1>f, <2>2, <2>3, <2>4, <2>5 DEF Underway
<1>8. CASE StatementTimesOut \/ LockTimesOut
  <2>1. PICK sqlstate \in {"57014", "55P03"} : Raise("timer", sqlstate, english)
    BY <1>8 DEF StatementTimesOut, LockTimesOut
  <2>2. stage # "ended"
    BY <1>8 DEF StatementTimesOut, LockTimesOut
  <2>. QED BY <1>7, <2>1, <2>2 DEF Underway
<1>9. CASE OthersCancel \/ ConnectionFails
  <2>1. stage # "ended"
    BY <1>9 DEF OthersCancel, ConnectionFails
  <2>2. CASE OthersCancel
    BY <1>7, <2>1, <2>2 DEF OthersCancel
  <2>3. CASE ConnectionFails
    BY <1>7, <2>1, <2>3 DEF ConnectionFails
  <2>. QED BY <1>9, <2>2, <2>3
<1>10. CASE Others
  <2>1. /\ stage \notin {"running", "ended"}
        /\ UNCHANGED <<stage, checked, processed, leftover, cause, result>>
        /\ UNCHANGED fixed
        /\ moved' \/ UNCHANGED <<catalog, moved>>
    BY <1>10 DEF Others, OthersDrop, OthersCreate, OthersLock
  <2>2. Found /\ UNCHANGED catalog => Found'
    BY <1>f, <2>1 DEF Found
  <2>. QED BY <1>f, <2>1, <2>2 DEF Underway
<1>11. CASE WatchProgress \/ UNCHANGED maintenanceVars
  <2>1. UNCHANGED <<catalog, moved, stage, checked, processed, leftover, cause, result>>
        /\ UNCHANGED fixed
    BY <1>11 DEF WatchProgress, maintenanceVars, world
  <2>2. Found => Found'
    BY <1>f, <2>1 DEF Found
  <2>. QED BY <1>f, <2>1, <2>2 DEF Underway
<1>12. CASE PlanCheck \/ ExecuteCheck
  BY <1>1, <1>12 DEF PlanCheck, ExecuteCheck
<1>. QED
  BY <1>2, <1>3, <1>4, <1>5, <1>6, <1>8, <1>9, <1>10, <1>11, <1>12
     DEF MaintenanceNext, Program, Server

\* A reported success is a statement that ran to its end, and, for a qualified
\* target of the role's own that nobody moved, on the relation the preflight
\* found there, whatever the search_path says.
THEOREM SuccessProcessed == MaintenanceSpec => []SuccessMeansProcessed
<1>1. Underway => SuccessMeansProcessed
  BY DEF Underway
<1>. QED BY <1>1, InitUnderway, StepUnderway, PTL DEF MaintenanceSpec

\* What a timer ended is reported as a timeout wherever messages are in English;
\* what an operator cancelled, only when the server named, for what the statement
\* was working on, something that contains the word.
THEOREM TimeoutsTold == MaintenanceSpec => []TimeoutsAreToldApart
<1>1. Underway => TimeoutsAreToldApart
  BY DEF Underway
<1>. QED BY <1>1, InitUnderway, StepUnderway, PTL DEF MaintenanceSpec

-----------------------------------------------------------------------------
(***************************************************************************)
(* The types of Maintenance.  A progress never shows more than 100, though *)
(* the counts it is made of are read while the relation grows; a timeout   *)
(* in force is a whole number of milliseconds; and an unqualified name is  *)
(* resolved to a relation of the first schema of the path that has one.    *)
(***************************************************************************)
LEMMA PercentInRange ==
  ASSUME NEW completed \in Nat \cup {None}, NEW total \in Nat \cup {None}
  PROVE  Percent(completed, total) \in (0 .. 100) \cup {None}
<1>1. CASE completed \in Nat /\ total \in Nat /\ total # 0 /\ completed <= total
  <2> DEFINE q == (100 * completed) \div total
  <2>1. q \in Int /\ total * q <= 100 * completed /\ 100 * completed < total * q + total
    BY <1>1, SMT
  <2> HIDE DEF q
  <2>2. q >= 0
    BY <1>1, <2>1, SMT
  <2>3. q <= 100
    BY <1>1, <2>1, SMT
  <2>. QED BY <1>1, <2>1, <2>2, <2>3 DEF Percent, q
<1>2. CASE ~(completed \in Nat /\ total \in Nat /\ total # 0 /\ completed <= total)
  BY <1>2 DEF Percent
<1>. QED BY <1>1, <1>2

LEMMA NearestNatural ==
  ASSUME NEW n \in Nat, NEW unit \in Nat \ {0} PROVE Nearest(n, unit) \in Nat
<1>1. n \div unit \in Nat
  OBVIOUS
<1>. QED BY <1>1 DEF Nearest

LEMMA MillisecondsNatural ==
  ASSUME NEW n \in Nat, \E u \in Units : Coarsens(u, n)
  PROVE  Milliseconds(n) \in Nat
<1> DEFINE unit == CHOOSE u \in Units : Coarsens(u, n)
<1>1. unit \in Units
  OBVIOUS
<1>2. unit \in Nat \ {0}
  BY <1>1, UnitsAssumption
<1> HIDE DEF unit
<1>3. Nearest(n, unit) \in Nat
  BY <1>2, NearestNatural
<1>4. unit * Nearest(n, unit) \in Nat
  BY <1>2, <1>3
<1>5. Written(n) = unit * Nearest(n, unit)
  BY DEF Written, unit
<1>. QED BY <1>4, <1>5, NearestNatural DEF Milliseconds

\* What a name stands for is a relation, on either way to it.
LEMMA NamesARelation ==
  ASSUME MaintenanceTypeOK, cmd.target # None
  PROVE  Looked \in Relation \cup {None} /\ Resolved \in Relation \cup {None}
<1>1. cmd.target \in Target
  BY CommandsAssumption DEF MaintenanceTypeOK, Command
<1>2. cmd.target.schema \in Schemas \cup {None}
  BY <1>1 DEF Target
<1>3. Looked \in Relation \cup {None}
  BY <1>2, PublicAssumption DEF Looked, MaintenanceTypeOK
<1> DEFINE found == {n \in DOMAIN SearchPath : catalog[SearchPath[n]] # None}
           first == CHOOSE n \in found : \A m \in found : n <= m
<1>4. found # {} => first \in DOMAIN SearchPath
  <2>1. DOMAIN SearchPath \subseteq Nat
    BY SearchPathAssumption
  <2>2. found # {} => \E n \in found : \A m \in found : n <= m
    BY <2>1, LeastOf
  <2>. QED BY <2>2
<1>5. \A n \in DOMAIN SearchPath : SearchPath[n] \in Schemas
  BY SearchPathAssumption
<1>6. found # {} => catalog[SearchPath[first]] \in Relation \cup {None}
  BY <1>4, <1>5 DEF MaintenanceTypeOK
<1>7. cmd.target.schema = None =>
        Resolved = IF found = {} THEN None ELSE catalog[SearchPath[first]]
  BY DEF Resolved
<1> HIDE DEF found, first
<1>8. Resolved \in Relation \cup {None}
  <2>1. CASE cmd.target.schema = None
    BY <1>6, <1>7, <2>1
  <2>2. CASE cmd.target.schema # None
    BY <1>2, <2>2 DEF Resolved, MaintenanceTypeOK
  <2>. QED BY <2>1, <2>2
<1>. QED BY <1>3, <1>8

LEMMA InitMaintained == MaintenanceInit => MaintenanceTypeOK
<1> SUFFICES ASSUME MaintenanceInit PROVE MaintenanceTypeOK
  OBVIOUS
<1>1. created \in 0 .. MaxOid /\ created <= MaxOid
  BY BoundsAssumption DEF MaintenanceInit
<1>2. [oid : 1 .. created, relkind : Relkind] \subseteq Relation
  BY <1>1, BoundsAssumption DEF Relation
<1>3. catalog \in [Schemas -> Relation \cup {None}]
  BY <1>2 DEF MaintenanceInit
<1>. QED BY <1>1, <1>3 DEF MaintenanceInit, MaintenanceTypeOK, MaintenanceResult

LEMMA ChecksMaintained ==
  ASSUME MaintenanceTypeOK, NEW next \in {"planned", "executing"}, Check(next)
  PROVE  MaintenanceTypeOK'
<1>1. checked' \in Relation \cup {None}
  <2>1. CASE cmd.target = None
    BY <2>1 DEF Check
  <2>2. CASE cmd.target # None
    BY <2>2, NamesARelation DEF Check
  <2>. QED BY <2>1, <2>2
<1>2. /\ stage' \in {"planned", "executing", "ended"}
      /\ result' \in MaintenanceResult
  BY Verdicts DEF Check, End, MaintenanceTypeOK, MaintenanceResult
<1>. QED BY <1>1, <1>2 DEF Check, MaintenanceTypeOK, fixed

LEMMA ProgramMaintained ==
  ASSUME MaintenanceTypeOK, OpenSession \/ ApplyTimeouts \/ TimeoutRefused
  PROVE  MaintenanceTypeOK'
<1>1. CASE OpenSession \/ TimeoutRefused
  BY <1>1 DEF OpenSession, TimeoutRefused, End, MaintenanceTypeOK, MaintenanceResult,
              fixed, world
<1>2. CASE ApplyTimeouts
  <2>1. cmd \in Command
    BY CommandsAssumption DEF MaintenanceTypeOK
  <2>2. cmd.statement_timeout \in Timeout /\ cmd.lock_timeout \in Timeout
    BY <2>1 DEF Command
  <2>3. /\ InForce(cmd.statement_timeout) \in Nat
        /\ InForce(cmd.lock_timeout) \in Nat
    <3>1. ASSUME NEW timeout \in {cmd.statement_timeout, cmd.lock_timeout}
          PROVE  InForce(timeout) \in Nat
      <4>1. CASE timeout = None
        BY <4>1 DEF InForce
      <4>2. CASE timeout # None
        <5>1. timeout \in Nat
          BY <2>2, <4>2 DEF Timeout
        <5>2. \E u \in Units : Coarsens(u, timeout)
          BY <4>2, UnitsAssumption DEF MaintenanceTypeOK
        <5>. QED BY <4>2, <5>1, <5>2, MillisecondsNatural DEF InForce
      <4>. QED BY <4>1, <4>2
    <3>. QED BY <3>1
  <2>4. session' \in [statement : Nat, lock : Nat]
    BY <1>2, <2>2, <2>3 DEF ApplyTimeouts
  <2>. QED BY <1>2, <2>4 DEF ApplyTimeouts, MaintenanceTypeOK, fixed, world
<1>. QED BY <1>1, <1>2

LEMMA ServerMaintained ==
  ASSUME MaintenanceTypeOK,
         Server \/ OthersCancel \/ ConnectionFails \/ WatchProgress
  PROVE  MaintenanceTypeOK'
<1>1. CASE BeginDatabase \/ BeginRefused \/ Complete
  BY <1>1 DEF BeginDatabase, BeginRefused, Complete, End, MaintenanceTypeOK,
              MaintenanceResult, fixed, world
<1>2. CASE BeginStatement
  <2>1. processed' \in Relation \cup {None}
    BY <1>2, NamesARelation DEF BeginStatement
  <2>. QED BY <1>2, <2>1 DEF BeginStatement, MaintenanceTypeOK, fixed, world
<1>3. ASSUME NEW why \in {"timer", "operator", "connection"}, NEW sqlstate,
             NEW message, Raise(why, sqlstate, message)
      PROVE  MaintenanceTypeOK'
  <2>1. leftover' \in BOOLEAN
    <3>1. cmd.concurrently \in BOOLEAN
      BY CommandsAssumption DEF MaintenanceTypeOK, Command
    <3>. QED BY <1>3, <3>1 DEF Raise, Stopped
  <2>2. stage' = "ended" /\ result' \in {"timed_out", "failed"}
    BY <1>3 DEF Raise, End
  <2>. QED BY <1>3, <2>1, <2>2
           DEF Raise, MaintenanceTypeOK, MaintenanceResult, fixed, world
<1>4. CASE StatementTimesOut \/ LockTimesOut \/ OthersCancel \/ ConnectionFails
  BY <1>3, <1>4 DEF StatementTimesOut, LockTimesOut, OthersCancel, ConnectionFails
<1>5. CASE WatchProgress
  <2>1. (0 .. MaxBlocks) \cup {None} \subseteq Nat \cup {None}
    BY BoundsAssumption
  <2>2. progress' \in (0 .. 100) \cup {None}
    BY <1>5, <2>1, PercentInRange DEF WatchProgress
  <2>. QED BY <1>5, <2>2 DEF WatchProgress, MaintenanceTypeOK, fixed, world
<1>. QED BY <1>1, <1>2, <1>4, <1>5 DEF Server

LEMMA OthersMaintained == ASSUME MaintenanceTypeOK, Others PROVE MaintenanceTypeOK'
<1>1. /\ catalog' \in [Schemas -> Relation \cup {None}]
      /\ created' \in 0 .. MaxOid /\ {moved', held'} \subseteq BOOLEAN
  <2>1. ASSUME NEW schema \in Schemas, OthersDrop(schema)
        PROVE  catalog' \in [Schemas -> Relation \cup {None}]
    BY <2>1 DEF OthersDrop, MaintenanceTypeOK
  <2>2. ASSUME NEW schema \in Schemas, NEW relkind \in Relkind,
               OthersCreate(schema, relkind)
        PROVE  /\ catalog' \in [Schemas -> Relation \cup {None}]
               /\ created' \in 0 .. MaxOid
    <3>1. created \in 0 .. MaxOid /\ created < MaxOid
      BY <2>2 DEF OthersCreate, MaintenanceTypeOK
    <3>2. created + 1 \in 1 .. MaxOid
      BY <3>1, BoundsAssumption
    <3>3. [oid |-> created + 1, relkind |-> relkind] \in Relation
      BY <3>2 DEF Relation
    <3>. QED BY <2>2, <3>2, <3>3, BoundsAssumption DEF OthersCreate, MaintenanceTypeOK
  <2>3. CASE OthersLock
    BY <2>3 DEF Others, OthersLock, MaintenanceTypeOK
  <2>. QED BY <2>1, <2>2, <2>3
           DEF Others, OthersDrop, OthersCreate, MaintenanceTypeOK
<1>. QED BY <1>1 DEF Others, MaintenanceTypeOK, fixed

THEOREM MaintenanceTyped == MaintenanceSpec => []MaintenanceTypeOK
<1>1. MaintenanceTypeOK /\ [MaintenanceNext]_maintenanceVars => MaintenanceTypeOK'
  <2> SUFFICES ASSUME MaintenanceTypeOK, [MaintenanceNext]_maintenanceVars
               PROVE  MaintenanceTypeOK'
    OBVIOUS
  <2>1. CASE PlanCheck \/ ExecuteCheck
    BY <2>1, ChecksMaintained DEF PlanCheck, ExecuteCheck
  <2>2. CASE UNCHANGED maintenanceVars
    BY <2>2 DEF maintenanceVars, fixed, world, MaintenanceTypeOK
  <2>. QED BY <2>1, <2>2, ProgramMaintained, ServerMaintained, OthersMaintained
           DEF MaintenanceNext, Program
<1>. QED BY <1>1, InitMaintained, PTL DEF MaintenanceSpec

-----------------------------------------------------------------------------
(* The health suite.                                                        *)

LEMMA SuiteInOrder ==
  /\ Len(Suite) = 6
  /\ Suite[1] = "connectivity" /\ Suite[2] = "connection_usage"
  /\ Suite[3] = "long_queries" /\ Suite[4] = "long_transactions"
  /\ Suite[5] = "idle_transactions" /\ Suite[6] = "waiting_locks"
BY DEF Suite

LEMMA MeasuredChecks ==
  Measured = {"connection_usage", "long_queries", "long_transactions",
              "idle_transactions", "waiting_locks"}
BY SuiteInOrder DEF Measured

\* What a check measures depends on the sessions alone.
LEMMA SameMeasure ==
  ASSUME UNCHANGED sessions, NEW check
  PROVE  Measure(check)' = Measure(check)
BY DEF Measure, Visible, Connected, ActiveQueries, OpenTransactions, IdleTransactions,
       LockWaiters, Oldest

ResultRow == [name : {Suite[n] : n \in 1 .. 6}, status : HealthStatus]

(***************************************************************************)
(* What a status rests on: a value the check could have measured during    *)
(* the command, or for waiting_locks a count that is no lower than one.    *)
(***************************************************************************)
Backed(check, status) ==
  \E value \in was[check] :
    IF check = "waiting_locks"
      THEN /\ value \in Nat
           /\ \E count \in Nat :
                /\ count >= value
                /\ status = StatusForThreshold(count, request.thresholds[check])
      ELSE status = StatusForThreshold(value, request.thresholds[check])

Sound(n) ==
  /\ results[n].name = Suite[n]
  /\ n = 1 => results[n].status \in {"ok", "critical"}
  /\ n > 1 /\ results[n].status # "unknown" => Backed(Suite[n], results[n].status)

\* How many results there are when the command is where it is.
Progress ==
  /\ phase \in {"start", "statistics", "sizes", "probe"} => Len(results) = 0
  /\ \A n \in 1 .. 6 : phase = Suite[n] => Len(results) = n - 1
  /\ phase = "blocking" => Len(results) = 5
  /\ phase = "report" => Len(results) = 6

Concluded ==
  /\ phase # "ended" => verdict = Unset
  /\ Reported => phase = "ended" /\ Len(results) = 6
  /\ verdict = "exit 0" => Overall # "critical" /\ (request.strict => Overall # "warning")

(***************************************************************************)
(* The suite, wherever it is.  What a check would measure now is among the *)
(* values it could have measured, until the command has ended; that is     *)
(* what makes a status true of some moment whenever its check is run.      *)
(***************************************************************************)
SuiteInv ==
  /\ request.thresholds \in HealthConfigs
  /\ waiting \subseteq Clients
  /\ phase \notin {"start", "ended"} =>
       \A check \in Measured : Measure(check) \in was[check]
  /\ results \in Seq(ResultRow) /\ Len(results) <= 6
  /\ Progress
  /\ \A n \in 1 .. Len(results) : Sound(n)
  /\ Concluded

LEMMA InitSuite == HealthInit => SuiteInv
<1> SUFFICES ASSUME HealthInit PROVE SuiteInv
  OBVIOUS
<1>1. results = << >> /\ Len(results) = 0 /\ results \in Seq(ResultRow)
  BY DEF HealthInit
<1>2. request.thresholds \in HealthConfigs /\ waiting = {} /\ phase = "start"
  BY DEF HealthInit
<1>3. Progress
  BY <1>1, <1>2, SuiteInOrder DEF Progress
<1>4. Concluded
  BY <1>2, UnsetAssumption DEF HealthInit, Concluded, Reported, Endings
<1>. QED BY <1>1, <1>2, <1>3, <1>4 DEF SuiteInv

\* A result that is there stays what it is, and rests on what it rested on.
LEMMA SoundStays ==
  ASSUME NEW n, Sound(n), UNCHANGED request, results'[n] = results[n],
         n > 1 => was[Suite[n]] \subseteq was'[Suite[n]]
  PROVE  Sound(n)'
BY DEF Sound, Backed

\* A step by which no check ends.
LEMMA NoResultKeeps ==
  ASSUME SuiteInv, Untouched, UNCHANGED results, waiting' \subseteq Clients,
         phase # "start", phase # "ended", Progress', Concluded'
  PROVE  SuiteInv'
<1>1. /\ UNCHANGED <<sessions, request, was>>
      /\ \A check : Measure(check)' = Measure(check)
  BY SameMeasure DEF Untouched
<1>2. \A n \in 1 .. Len(results') : Sound(n)'
  BY <1>1, SoundStays DEF SuiteInv
<1>3. \A check \in Measured : Measure(check)' \in was'[check]
  BY <1>1 DEF SuiteInv
<1>. QED BY <1>1, <1>2, <1>3 DEF SuiteInv

\* The next check of the suite ends.
LEMMA EndCheckKeeps ==
  ASSUME SuiteInv, NEW n \in 1 .. 6, n = Len(results) + 1,
         NEW status \in HealthStatus, EndCheck(Suite[n], status),
         Untouched, UNCHANGED verdict, waiting' \subseteq Clients,
         phase # "start", phase # "ended",
         n = 1 => status \in {"ok", "critical"},
         n > 1 /\ status # "unknown" => Backed(Suite[n], status)
  PROVE  SuiteInv'
<1> DEFINE row == Result(Suite[n], status)
<1>1. /\ UNCHANGED <<sessions, request, was>>
      /\ \A check : Measure(check)' = Measure(check)
  BY SameMeasure DEF Untouched
<1>2. /\ results' = Append(results, row) /\ phase' = AfterResults(results')
      /\ row \in ResultRow /\ row.name = Suite[n] /\ row.status = status
  BY SuiteInOrder DEF EndCheck, Result, ResultRow
<1>3. results \in Seq(ResultRow) /\ Len(results) \in Nat
  BY DEF SuiteInv
<1> HIDE DEF row
<1>4. /\ results' \in Seq(ResultRow) /\ Len(results') = n
      /\ \A k \in 1 .. Len(results) : results'[k] = results[k]
      /\ results'[n] = row
  BY <1>2, <1>3
<1>5. Sound(n)'
  <2>1. Backed(Suite[n], status)' <=> Backed(Suite[n], status)
    BY <1>1 DEF Backed
  <2>. QED BY <1>2, <1>4, <2>1 DEF Sound
<1>6. \A k \in 1 .. Len(results') : Sound(k)'
  <2>1. ASSUME NEW k \in 1 .. Len(results') PROVE Sound(k)'
    <3>1. CASE k = n
      BY <1>5, <3>1
    <3>2. CASE k # n
      <4>1. k \in 1 .. Len(results)
        BY <1>3, <1>4, <3>2
      <4>2. Sound(k) /\ results'[k] = results[k]
        BY <1>4, <4>1 DEF SuiteInv
      <4>. QED BY <1>1, <4>2, SoundStays
    <3>. QED BY <3>1, <3>2
  <2>. QED BY <2>1
<1>7. \A check \in Measured : Measure(check)' \in was'[check]
  BY <1>1 DEF SuiteInv
<1>8. phase' = IF n < 6 THEN Suite[n + 1] ELSE "report"
  BY <1>2, <1>4, SuiteInOrder DEF AfterResults
<1>9. Progress'
  BY <1>4, <1>8, SuiteInOrder DEF Progress
<1>10. phase' # "ended"
  BY <1>8, SuiteInOrder
<1>11. Concluded'
  BY <1>10, UnsetAssumption DEF SuiteInv, Concluded, Reported, Endings
<1>. QED BY <1>1, <1>4, <1>6, <1>7, <1>9, <1>11 DEF SuiteInv

\* The command ends without a report.
LEMMA UnreportedKeeps ==
  ASSUME SuiteInv, Untouched, UNCHANGED results, waiting' \subseteq Clients,
         phase' = "ended", verdict' \in {"usage", "error", "escaped"}
  PROVE  SuiteInv'
<1>1. \A n \in 1 .. Len(results') : Sound(n)'
  BY SoundStays DEF SuiteInv, Untouched
<1>2. Progress'
  BY SuiteInOrder DEF Progress
<1>3. Concluded'
  BY DEF Concluded, Reported
<1>. QED BY <1>1, <1>2, <1>3 DEF SuiteInv, Untouched

LEMMA BeginKeeps == ASSUME SuiteInv, Begin PROVE SuiteInv'
<1>1. /\ UNCHANGED <<sessions, request, results, waiting, verdict>>
      /\ phase = "start" /\ phase' \in {"statistics", "connectivity"}
      /\ was' = [check \in Measured |-> {Measure(check)}]
  BY SuiteInOrder DEF Begin
<1>2. Len(results) = 0
  BY <1>1 DEF SuiteInv, Progress
<1>3. \A check \in Measured : Measure(check)' \in was'[check]
  BY <1>1, SameMeasure
<1>4. Progress'
  BY <1>1, <1>2, SuiteInOrder DEF Progress
<1>5. Concluded'
  BY <1>1, UnsetAssumption DEF SuiteInv, Concluded, Reported, Endings
<1>. QED BY <1>1, <1>2, <1>3, <1>4, <1>5 DEF SuiteInv

\* Steps on the way to a check, or within one.
LEMMA OnTheWayKeeps ==
  ASSUME SuiteInv, Collect \/ ProbeConnects \/ ReadWaitingLocks PROVE SuiteInv'
<1>1. Untouched /\ UNCHANGED <<results, verdict>> /\ waiting' \subseteq Clients
  BY DEF Collect, ProbeConnects, ReadWaitingLocks, LockWaiters, Connected, SuiteInv
<1>2. /\ phase # "start" /\ phase # "ended"
      /\ \/ phase' \in {"sizes", "connectivity", "probe"} /\ Len(results) = 0
         \/ phase' = "blocking" /\ Len(results) = 5
  <2>1. CASE Collect
    BY <2>1, SuiteInOrder DEF Collect, SuiteInv, Progress
  <2>2. CASE ProbeConnects
    BY <2>2, SuiteInOrder DEF ProbeConnects, SuiteInv, Progress
  <2>3. CASE ReadWaitingLocks
    <3>1. phase = "waiting_locks" /\ phase' = "blocking"
      BY <2>3 DEF ReadWaitingLocks
    <3>2. 6 \in 1 .. 6 /\ phase = Suite[6]
      BY <3>1, SuiteInOrder
    <3>3. Len(results) = 6 - 1
      BY <3>2 DEF SuiteInv, Progress
    <3>. QED BY <3>1, <3>3
  <2>. QED BY <2>1, <2>2, <2>3
<1>3. Progress'
  BY <1>1, <1>2, SuiteInOrder DEF Progress
<1>4. Concluded'
  BY <1>1, <1>2, UnsetAssumption DEF SuiteInv, Concluded, Reported, Endings
<1>. QED BY <1>1, <1>2, <1>3, <1>4, NoResultKeeps

LEMMA ProbeKeeps == ASSUME SuiteInv, ProbeAnswers PROVE SuiteInv'
<1>1. /\ Len(results) = 0 /\ phase # "start" /\ phase # "ended"
      /\ EndCheck(Suite[1], "ok")
      /\ Untouched /\ UNCHANGED <<verdict, waiting>>
  BY SuiteInOrder DEF ProbeAnswers, SuiteInv, Progress
<1>. QED BY <1>1, EndCheckKeeps DEF SuiteInv, HealthStatus

LEMMA FailureKeeps == ASSUME SuiteInv, CheckFails PROVE SuiteInv'
<1> DEFINE n == Len(results) + 1
<1>1. n \in 1 .. 6 /\ phase # "start" /\ phase # "ended"
  <2>1. phase \in {Suite[k] : k \in 1 .. 6} \cup {"blocking"}
    BY SuiteInOrder DEF CheckFails
  <2>2. CASE phase = "blocking"
    <3>1. Len(results) = 5
      BY <2>2 DEF SuiteInv, Progress
    <3>. QED BY <2>2, <3>1
  <2>3. CASE \E k \in 1 .. 6 : phase = Suite[k]
    <3>1. PICK k \in 1 .. 6 : phase = Suite[k]
      BY <2>3
    <3>2. Len(results) = k - 1
      BY <3>1 DEF SuiteInv, Progress
    <3>3. phase # "start" /\ phase # "ended"
      BY <3>1, SuiteInOrder
    <3>. QED BY <3>2, <3>3
  <2>. QED BY <2>1, <2>2, <2>3
<1>2. /\ EndCheck(Suite[n], StatusOfFailure(Suite[n]))
      /\ Untouched /\ UNCHANGED verdict /\ waiting' = {}
  BY DEF CheckFails
<1>3. /\ n = 1 => StatusOfFailure(Suite[n]) = "critical"
      /\ n # 1 => StatusOfFailure(Suite[n]) = "unknown"
  BY <1>1, SuiteInOrder DEF StatusOfFailure
<1> HIDE DEF n
<1>4. StatusOfFailure(Suite[n]) \in HealthStatus
  BY <1>3 DEF HealthStatus
<1>. QED BY <1>1, <1>2, <1>3, <1>4, EndCheckKeeps DEF n

LEMMA ThresholdStatus ==
  ASSUME NEW value, NEW t
  PROVE  StatusForThreshold(value, t) \in HealthStatus \ {"unknown"}
BY DEF StatusForThreshold, HealthStatus

LEMMA ReadKeeps == ASSUME SuiteInv, CheckReads PROVE SuiteInv'
<1>1. PICK n \in 2 .. 5 : phase = Suite[n]
  BY SuiteInOrder, MeasuredChecks DEF CheckReads
<1>2. /\ n = Len(results) + 1 /\ phase # "start" /\ phase # "ended"
      /\ phase \in Measured /\ phase # "waiting_locks"
  BY <1>1, SuiteInOrder, MeasuredChecks DEF CheckReads, SuiteInv, Progress
<1>3. /\ EndCheck(Suite[n], StatusNow(phase))
      /\ Untouched /\ UNCHANGED <<verdict, waiting>>
  BY <1>1 DEF CheckReads
<1>4. Backed(Suite[n], StatusNow(phase))
  BY <1>1, <1>2 DEF SuiteInv, Backed, StatusNow
<1>5. StatusNow(phase) \in HealthStatus
  BY ThresholdStatus DEF StatusNow
<1>. QED BY <1>1, <1>2, <1>3, <1>4, <1>5, EndCheckKeeps DEF SuiteInv

\* The two reads of waiting_locks together count no fewer sessions than the
\* second alone.
LEMMA CountedTwice ==
  ASSUME SuiteInv
  PROVE  /\ Measure("waiting_locks") \in Nat
         /\ Cardinality(EitherWaited(waiting, LockWaiters)) \in Nat
         /\ Measure("waiting_locks") <= Cardinality(EitherWaited(waiting, LockWaiters))
<1>1. EitherWaited(waiting, LockWaiters) \subseteq Clients
  BY DEF SuiteInv, EitherWaited, LockWaiters, Connected
<1>2. IsFiniteSet(EitherWaited(waiting, LockWaiters))
  BY <1>1, ClientsAssumption, FS_Subset
<1>3. LockWaiters \subseteq EitherWaited(waiting, LockWaiters)
  BY DEF EitherWaited
<1>4. Measure("waiting_locks") = Cardinality(LockWaiters)
  BY DEF Measure
<1>. QED BY <1>2, <1>3, <1>4, FS_Subset, FS_CardinalityType

LEMMA BlockingKeeps == ASSUME SuiteInv, ReadBlocking PROVE SuiteInv'
<1> DEFINE count == Cardinality(EitherWaited(waiting, LockWaiters))
           status == StatusForThreshold(count, request.thresholds["waiting_locks"])
<1>1. /\ Len(results) = 5 /\ phase # "start" /\ phase # "ended"
      /\ EndCheck(Suite[6], status)
      /\ Untouched /\ UNCHANGED verdict /\ waiting' = {}
  BY SuiteInOrder DEF ReadBlocking, SuiteInv, Progress
<1>2. Measure("waiting_locks") \in was["waiting_locks"]
  BY <1>1, MeasuredChecks DEF SuiteInv
<1>3. Backed(Suite[6], status)
  BY <1>2, CountedTwice, SuiteInOrder DEF Backed
<1>4. status \in HealthStatus
  BY ThresholdStatus
<1> HIDE DEF status
<1>. QED BY <1>1, <1>3, <1>4, EndCheckKeeps

LEMMA ReportKeeps == ASSUME SuiteInv, Report PROVE SuiteInv'
<1>1. /\ Untouched /\ UNCHANGED <<results, waiting>>
      /\ phase = "report" /\ phase' = "ended" /\ Len(results) = 6
  BY DEF Report, SuiteInv, Progress
<1>2. \A n \in 1 .. Len(results') : Sound(n)'
  BY <1>1, SoundStays DEF SuiteInv, Untouched
<1>3. Progress'
  BY <1>1, SuiteInOrder DEF Progress
<1>4. Overall' = Overall /\ request' = request
  BY <1>1 DEF Overall, Untouched
<1>5. verdict' = "exit 0" => Overall # "critical" /\ (request.strict => Overall # "warning")
  BY DEF Report
<1>6. Concluded'
  BY <1>1, <1>4, <1>5 DEF Concluded
<1>. QED BY <1>1, <1>2, <1>3, <1>6 DEF SuiteInv, Untouched

LEMMA MovesKeep == ASSUME SuiteInv, NEW c \in Clients, SessionMoves(c) PROVE SuiteInv'
<1>1. /\ UNCHANGED <<request, phase, waiting, results, verdict>>
      /\ was' = IF phase = "start" THEN was
                ELSE [check \in Measured |-> was[check] \cup {Measure(check)'}]
  BY DEF SessionMoves
<1>2. \A check \in Measured :
        /\ was[check] \subseteq was'[check]
        /\ phase # "start" => Measure(check)' \in was'[check]
  BY <1>1
<1>3. \A n \in 1 .. Len(results') : Sound(n)'
  <2>1. ASSUME NEW n \in 1 .. Len(results) PROVE Sound(n)'
    <3>1. n \in 1 .. 6 /\ Sound(n)
      BY DEF SuiteInv
    <3>2. n > 1 => Suite[n] \in Measured
      BY <3>1, SuiteInOrder DEF Measured
    <3>. QED BY <1>1, <1>2, <3>1, <3>2, SoundStays
  <2>. QED BY <1>1, <2>1
<1>4. Progress' /\ Concluded'
  BY <1>1 DEF SuiteInv, Progress, Concluded, Reported, Overall
<1>. QED BY <1>1, <1>2, <1>3, <1>4 DEF SuiteInv

LEMMA StepSuite == SuiteInv /\ [HealthNext]_healthVars => SuiteInv'
<1> SUFFICES ASSUME SuiteInv, [HealthNext]_healthVars PROVE SuiteInv'
  OBVIOUS
<1>1. CASE UsageError \/ ResolveFails \/ CollectFails \/ ProbeBreaks
  BY <1>1, UnreportedKeeps
     DEF UsageError, ResolveFails, CollectFails, ProbeBreaks, SuiteInv
<1>2. CASE \E c \in Clients : SessionMoves(c)
  BY <1>2, MovesKeep
<1>3. CASE UNCHANGED healthVars
  <2>1. /\ UNCHANGED <<sessions, request, phase, waiting, results, verdict, was>>
        /\ \A check : Measure(check)' = Measure(check)
    BY <1>3, SameMeasure DEF healthVars
  <2>2. \A n \in 1 .. Len(results') : Sound(n)'
    BY <2>1, SoundStays DEF SuiteInv
  <2>3. Progress' /\ Concluded'
    BY <2>1 DEF SuiteInv, Progress, Concluded, Reported, Overall
  <2>. QED BY <2>1, <2>2, <2>3 DEF SuiteInv
<1>. QED
  BY <1>1, <1>2, <1>3, BeginKeeps, OnTheWayKeeps, ProbeKeeps, FailureKeeps, ReadKeeps,
     BlockingKeeps, ReportKeeps
     DEF HealthNext, HealthStep

LEMMA SuiteAlways == HealthSpec => []SuiteInv
BY InitSuite, StepSuite, PTL DEF HealthSpec

\* The more a check measures, the graver its status.
LEMMA StatusMonotone ==
  ASSUME NEW t, {t.warning, t.critical} \subseteq Int \cup {Unset},
         NEW low \in Nat, NEW high \in Nat, low <= high
  PROVE  Severity[StatusForThreshold(low, t)] <= Severity[StatusForThreshold(high, t)]
<1>1. Reached(low, t.critical) => Reached(high, t.critical)
  BY DEF Reached
<1>2. Reached(low, t.warning) => Reached(high, t.warning)
  BY DEF Reached
<1>3. Severity["ok"] = 0 /\ Severity["warning"] = 1 /\ Severity["critical"] = 2
  BY DEF Severity
<1>. QED BY <1>1, <1>2, <1>3 DEF StatusForThreshold

\* Where the results are the suite's, a status that is not unknown is backed.
LEMMA ResultBacked ==
  ASSUME SuiteInv, NEW n \in 2 .. Len(results), results[n].status # "unknown"
  PROVE  /\ n \in 2 .. 6 /\ results[n].name = Suite[n] /\ Suite[n] \in Measured
         /\ Backed(Suite[n], results[n].status)
         /\ LET t == request.thresholds[Suite[n]]
            IN  {t.warning, t.critical} \subseteq Int \cup {Unset}
<1>1. n \in 2 .. 6 /\ Sound(n)
  BY DEF SuiteInv
<1>2. Suite[n] \in Measured
  BY <1>1, SuiteInOrder DEF Measured
<1>3. LET t == request.thresholds[Suite[n]]
      IN  {t.warning, t.critical} \subseteq Int \cup {Unset}
  BY <1>2, ConfigsAssumption DEF SuiteInv
<1>. QED BY <1>1, <1>2, <1>3 DEF Sound

(***************************************************************************)
(* However the sessions move under the six checks, every status that is    *)
(* not unknown is one that its check would have found at some moment of    *)
(* the command; for waiting_locks, which adds up two moments, it may be    *)
(* graver, never milder (application/health/checks, runner.py).            *)
(***************************************************************************)
THEOREM StatusesTrue == HealthSpec => []EveryStatusWasTrue
<1>1. SuiteInv => EveryStatusWasTrue
  <2> SUFFICES ASSUME SuiteInv, NEW n \in 2 .. Len(results),
                      results[n].status # "unknown"
               PROVE  \E value \in was[Suite[n]] :
                        LET then == StatusForThreshold(value, request.thresholds[Suite[n]])
                        IN  IF Suite[n] = "waiting_locks"
                              THEN Severity[then] <= Severity[results[n].status]
                              ELSE then = results[n].status
    BY ResultBacked DEF EveryStatusWasTrue
  <2> DEFINE t == request.thresholds[Suite[n]]
  <2>1. Backed(Suite[n], results[n].status) /\ {t.warning, t.critical} \subseteq Int \cup {Unset}
    BY ResultBacked
  <2>2. CASE Suite[n] # "waiting_locks"
    BY <2>1, <2>2 DEF Backed
  <2>3. CASE Suite[n] = "waiting_locks"
    <3> HIDE DEF t
    <3>1. PICK value \in was[Suite[n]], count \in Nat :
            /\ value \in Nat /\ count >= value
            /\ results[n].status = StatusForThreshold(count, t)
      BY <2>1, <2>3 DEF Backed, t
    <3>2. Severity[StatusForThreshold(value, t)] <= Severity[StatusForThreshold(count, t)]
      BY <2>1, <3>1, StatusMonotone
    <3>. QED BY <2>3, <3>1, <3>2 DEF t
  <2>. QED BY <2>2, <2>3
<1>. QED BY <1>1, SuiteAlways, PTL

(***************************************************************************)
(* A measure that was critical all the time the command ran, and that its  *)
(* check could read, makes the report critical and the exit code 1,        *)
(* whatever the other checks find or fail with (health.py, base.py,        *)
(* cli/commands/health.py).                                                *)
(***************************************************************************)
THEOREM CriticalShown == HealthSpec => []CriticalIsNotHidden
<1>1. SuiteInv => CriticalIsNotHidden
  <2> SUFFICES ASSUME SuiteInv, Reported, NEW n \in 2 .. Len(results),
                      results[n].status # "unknown",
                      request.thresholds[Suite[n]].critical # Unset,
                      \A value \in was[Suite[n]] :
                        value >= request.thresholds[Suite[n]].critical
               PROVE  Overall = "critical" /\ verdict # "exit 0"
    BY ResultBacked DEF CriticalIsNotHidden
  <2> DEFINE t == request.thresholds[Suite[n]]
  <2>1. Backed(Suite[n], results[n].status) /\ {t.warning, t.critical} \subseteq Int \cup {Unset}
    BY ResultBacked
  <2> HIDE DEF t
  <2>2. results[n].status = "critical"
    <3>1. t.critical \in Int /\ \A value \in was[Suite[n]] : value >= t.critical
      BY <2>1 DEF t
    <3>2. PICK value \in was[Suite[n]] :
            IF Suite[n] = "waiting_locks"
              THEN /\ value \in Nat
                   /\ \E count \in Nat :
                        /\ count >= value /\ results[n].status = StatusForThreshold(count, t)
              ELSE results[n].status = StatusForThreshold(value, t)
      BY <2>1 DEF Backed, t
    <3>3. t.critical # Unset
      BY DEF t
    <3>4. \E reached : /\ reached >= t.critical
                       /\ results[n].status = StatusForThreshold(reached, t)
      BY <3>1, <3>2
    <3>. QED BY <3>3, <3>4 DEF StatusForThreshold, Reached
  <2>3. "critical" \in Statuses(results)
    <3>1. n \in 1 .. Len(results)
      BY DEF SuiteInv
    <3>. QED BY <2>2, <3>1 DEF Statuses
  <2>4. Overall = "critical"
    BY <2>3 DEF Overall, Aggregate
  <2>. QED BY <2>4 DEF SuiteInv, Concluded
<1>. QED BY <1>1, SuiteAlways, PTL

\* A report whose aggregate is not critical has a connectivity that was found
\* ok, and so is not unknown.
LEMMA ClearReport ==
  ASSUME SuiteInv, Len(results) = 6, Overall # "critical",
         request.strict => Overall # "warning"
  PROVE  /\ results[1] = Result("connectivity", "ok")
         /\ Overall \in (IF request.strict THEN {"ok"} ELSE {"ok", "warning"})
<1>1. 1 \in 1 .. Len(results) /\ results \in Seq(ResultRow)
  BY DEF SuiteInv
<1>2. Sound(1) /\ results[1] \in ResultRow
  <2>1. Sound(1)
    BY <1>1 DEF SuiteInv
  <2>. QED BY <1>1, <2>1
<1>3. /\ results[1].name = "connectivity" /\ results[1].status \in {"ok", "critical"}
      /\ results[1].status \in Statuses(results)
  BY <1>1, <1>2, SuiteInOrder DEF Sound, Statuses
<1>4. results[1].status = "ok" /\ Overall # "unknown"
  BY <1>3 DEF Overall, Aggregate
<1>5. results[1] = Result("connectivity", "ok")
  BY <1>2, <1>3, <1>4 DEF ResultRow, Result
<1>6. Overall \in {"critical", "warning", "unknown", "ok"}
  BY DEF Overall, Aggregate
<1>. QED BY <1>4, <1>5, <1>6

(***************************************************************************)
(* A command that exits 0 has reached the server and read no critical      *)
(* measure, with --fail-on-warning no warning either; its report is not    *)
(* UNKNOWN as a whole (runner.py).                                         *)
(***************************************************************************)
THEOREM ClearEarned == HealthSpec => []AllClearIsEarned
<1>1. SuiteInv => AllClearIsEarned
  <2>1. SuiteInv /\ verdict = "exit 0" =>
          /\ Len(results) = 6 /\ Overall # "critical"
          /\ request.strict => Overall # "warning"
    BY Zenon DEF SuiteInv, Concluded, Reported
  <2>. QED BY Zenon, <2>1, ClearReport DEF AllClearIsEarned
<1>. QED BY <1>1, SuiteAlways, PTL

-----------------------------------------------------------------------------
(***************************************************************************)
(* The types of the suite.  What is measured is a natural number: a count, *)
(* a percentage, or the greatest of finitely many ages.  That a finite set *)
(* has a greatest element is shown on a least subset that has none.        *)
(***************************************************************************)
LEMMA GreatestOf ==
  ASSUME NEW S \in SUBSET Nat, IsFiniteSet(S), S # {}
  PROVE  \E n \in S : \A m \in S : n >= m
<1> DEFINE HasGreatest(T) == \E n \in T : \A m \in T : n >= m
           Lacking     == {T \in SUBSET S : T # {} /\ ~HasGreatest(T)}
<1>1. SUFFICES ASSUME ~HasGreatest(S) PROVE FALSE
  OBVIOUS
<1>2. S \in Lacking
  BY <1>1
<1>3. IsWellFoundedOn(StrictSubsetOrdering(S), SUBSET S)
  BY FS_StrictSubsetOrderingWellFounded, FS_FiniteSubsetsOfFinite
<1>4. Lacking \subseteq SUBSET S /\ Lacking # {}
  BY <1>2
<1>5. PICK T \in Lacking : \A U \in Lacking : ~(<<U, T>> \in StrictSubsetOrdering(S))
  <2> HIDE DEF Lacking
  <2>. QED BY <1>3, <1>4, WFMin
<1>6. T \in SUBSET S /\ T # {} /\ ~HasGreatest(T)
  BY <1>5
<1>7. PICK x \in T : TRUE
  BY <1>6
<1>8. T \ {x} \notin Lacking
  <2>1. <<T \ {x}, T>> \in StrictSubsetOrdering(S)
    BY <1>6, <1>7 DEF StrictSubsetOrdering
  <2>. QED BY <1>5, <2>1
<1>9. T \ {x} = {} \/ HasGreatest(T \ {x})
  BY <1>6, <1>8
<1>10. CASE T \ {x} = {}
  BY <1>6, <1>7, <1>10
<1>11. CASE HasGreatest(T \ {x})
  <2>1. PICK n \in T \ {x} : \A m \in T \ {x} : n >= m
    BY <1>11
  <2>2. CASE n >= x
    <3>1. \A m \in T : n >= m
      BY <2>1, <2>2
    <3>. QED BY <1>6, <2>1, <3>1
  <2>3. CASE ~(n >= x)
    <3>1. \A m \in T : x >= m
      BY <1>6, <1>7, <2>1, <2>3
    <3>. QED BY <1>6, <1>7, <3>1
  <2>. QED BY <2>2, <2>3
<1>. QED BY <1>9, <1>10, <1>11

\* The oldest of the ages some clients have.
LEMMA OldestNatural ==
  ASSUME NEW some \in SUBSET Clients, NEW age \in [some -> Nat]
  PROVE  Oldest({age[c] : c \in some}) \in Nat
<1> DEFINE ages == {age[c] : c \in some}
<1>1. age \in Surjection(some, ages)
  BY DEF Surjection
<1>2. IsFiniteSet(ages)
  BY <1>1, ClientsAssumption, FS_Subset, FS_Surjection
<1>3. IsFiniteSet(ages \cup {0}) /\ ages \cup {0} \in SUBSET Nat
  BY <1>2, FS_AddElement
<1> HIDE DEF ages
<1>4. \E n \in ages \cup {0} : \A m \in ages \cup {0} : n >= m
  BY <1>3, GreatestOf
<1>. QED BY <1>3, <1>4 DEF Oldest, Max, ages

Peopled == sessions \in [Clients -> Activity \cup {Unset}]

LEMMA MeasuredNatural ==
  ASSUME Peopled, NEW check \in Measured PROVE Measure(check) \in Nat
<1>1. \A c \in Connected :
        /\ sessions[c] \in Activity
        /\ sessions[c].query \in Nat /\ sessions[c].xact \in Nat
  BY ActivityAssumption DEF Connected, Peopled
<1>2. /\ Visible \subseteq Connected /\ LockWaiters \subseteq Connected
      /\ ActiveQueries \subseteq Connected /\ OpenTransactions \subseteq Connected
      /\ IdleTransactions \subseteq Connected /\ Connected \subseteq Clients
  BY DEF Visible, LockWaiters, ActiveQueries, OpenTransactions, IdleTransactions,
         Connected
<1>3. CASE check = "connection_usage"
  <2>1. Cardinality(Visible) \in Nat
    BY <1>2, ClientsAssumption, FS_Subset, FS_CardinalityType
  <2>2. \A n \in Nat : (100 * (n + 1)) \div Capacity \in Nat
    BY CapacityAssumption
  <2>. QED BY <1>3, <2>1, <2>2 DEF Measure
<1>4. CASE check = "long_queries"
  <2>1. [c \in ActiveQueries |-> sessions[c].query] \in [ActiveQueries -> Nat]
    BY <1>1, <1>2
  <2>2. Oldest({[c \in ActiveQueries |-> sessions[c].query][d] : d \in ActiveQueries}) \in Nat
    BY <1>2, <2>1, OldestNatural
  <2>3. {[c \in ActiveQueries |-> sessions[c].query][d] : d \in ActiveQueries}
          = {sessions[c].query : c \in ActiveQueries}
    OBVIOUS
  <2>. QED BY <1>4, <2>2, <2>3 DEF Measure
<1>5. CASE check \in {"long_transactions", "idle_transactions"}
  <2>1. ASSUME NEW some \in SUBSET Connected
        PROVE  Oldest({sessions[c].xact : c \in some}) \in Nat
    <3>1. [c \in some |-> sessions[c].xact] \in [some -> Nat]
      BY <1>1
    <3>2. Oldest({[c \in some |-> sessions[c].xact][d] : d \in some}) \in Nat
      BY <1>2, <3>1, OldestNatural
    <3>3. {[c \in some |-> sessions[c].xact][d] : d \in some}
            = {sessions[c].xact : c \in some}
      OBVIOUS
    <3>. QED BY <3>2, <3>3
  <2>. QED BY <1>2, <1>5, <2>1 DEF Measure
<1>6. CASE check = "waiting_locks"
  BY <1>2, <1>6, ClientsAssumption, FS_Subset, FS_CardinalityType DEF Measure
<1>. QED BY <1>3, <1>4, <1>5, <1>6, MeasuredChecks

Measurable == \A check \in Measured : Measure(check) \in Nat

LEMMA MeasuresNatural == Peopled => Measurable
BY MeasuredNatural DEF Measurable

LEMMA NextMeasuresNatural == Peopled' => Measurable'
BY MeasuresNatural, PTL

(***************************************************************************)
(* The metrics of a snapshot by where it is: none before the statistics,   *)
(* all of them from the first check on; the exporter is given nothing      *)
(* before the end, and at the end what the policy lets through.            *)
(***************************************************************************)
AllMetrics == ConnectionMetrics \cup SizeMetrics

Checking == {Suite[n] : n \in 1 .. 6} \cup {"probe", "blocking", "report"}

Gathered ==
  /\ batch \subseteq AllMetrics
  /\ ~request.snapshot => phase \notin {"statistics", "sizes"}
  /\ request.snapshot /\ phase = "sizes" => batch = ConnectionMetrics
  /\ request.snapshot /\ phase \in Checking => batch = AllMetrics
  /\ phase # "ended" => delivered = Unset /\ verdict = Unset
  /\ delivered \in {Unset, Exported(request.policy, batch)}
  /\ verdict = "captured" =>
       request.snapshot /\ batch = AllMetrics /\ delivered = Exported(request.policy, batch)

Counted ==
  /\ moves \in 0 .. MaxMoves /\ failures \in 0 .. MaxFailures
  /\ request.policy \in Policies \cup {DefaultPolicy}
  /\ phase \in {"start", "statistics", "sizes", "ended"} \cup Checking
  /\ verdict \in Endings \cup {Unset}
  /\ was \in [Measured -> SUBSET Nat]

TypedInv == SuiteInv /\ Peopled /\ Gathered /\ Counted

LEMMA CheckingPhases ==
  Checking = {"connectivity", "connection_usage", "long_queries", "long_transactions",
              "idle_transactions", "waiting_locks", "probe", "blocking", "report"}
BY SuiteInOrder DEF Checking

LEMMA InitTyped == HealthInit => Peopled /\ Gathered /\ Counted
<1> SUFFICES ASSUME HealthInit PROVE Peopled /\ Gathered /\ Counted
  OBVIOUS
<1>1. /\ phase = "start" /\ batch = {} /\ delivered = Unset /\ verdict = Unset
      /\ moves = 0 /\ failures = 0 /\ was = [check \in Measured |-> {}]
  BY DEF HealthInit
<1>2. request.policy \in Policies \cup {DefaultPolicy}
  BY DEF HealthInit
<1>3. Peopled
  BY DEF HealthInit, Peopled
<1>4. Gathered
  BY <1>1, CheckingPhases, UnsetAssumption DEF Gathered, Endings
<1>5. Counted
  BY <1>1, <1>2, MovesAssumption DEF Counted
<1>. QED BY <1>3, <1>4, <1>5

\* What a check that ends leaves to be done next.
LEMMA NextOfCheck ==
  ASSUME NEW check, NEW status, EndCheck(check, status), SuiteInv
  PROVE  phase' \in Checking \ {"probe", "blocking"}
<1>1. results' = Append(results, Result(check, status)) /\ phase' = AfterResults(results')
  BY DEF EndCheck
<1>2. Len(results') = Len(results) + 1 /\ Len(results) \in Nat
  BY <1>1 DEF SuiteInv
<1>3. phase' = IF Len(results') < 6 THEN Suite[Len(results') + 1] ELSE "report"
  BY <1>1, SuiteInOrder DEF AfterResults
<1>4. CASE Len(results') < 6
  <2>1. Len(results') + 1 \in 1 .. 6
    BY <1>2, <1>4
  <2>2. phase' = Suite[Len(results') + 1]
    BY <1>3, <1>4
  <2> DEFINE k == Len(results') + 1
  <2> HIDE DEF k
  <2>3. k \in 1 .. 6 /\ phase' = Suite[k]
    BY <2>1, <2>2 DEF k
  <2>. QED BY <2>3, SuiteInOrder, CheckingPhases
<1>5. CASE ~(Len(results') < 6)
  BY <1>3, <1>5, CheckingPhases
<1>. QED BY <1>4, <1>5

LEMMA FailuresCounted ==
  ASSUME Counted, CountFailure PROVE failures' \in 0 .. MaxFailures
BY MovesAssumption DEF Counted, CountFailure

\* Steps within a check, and from one check to the next.
LEMMA CheckingTyped ==
  ASSUME TypedInv,
         \/ ProbeConnects \/ ProbeAnswers \/ CheckFails \/ CheckReads
         \/ ReadWaitingLocks \/ ReadBlocking
  PROVE  Peopled' /\ Gathered' /\ Counted'
<1>1. Untouched /\ UNCHANGED <<batch, delivered, verdict>>
  BY DEF ProbeConnects, ProbeAnswers, CheckFails, CheckReads, ReadWaitingLocks,
         ReadBlocking
<1>2. failures' \in 0 .. MaxFailures
  BY FailuresCounted
     DEF ProbeConnects, ProbeAnswers, CheckFails, CheckReads, ReadWaitingLocks,
         ReadBlocking, TypedInv, Counted
<1>3. phase \in Checking
  BY CheckingPhases, MeasuredChecks, SuiteInOrder
     DEF ProbeConnects, ProbeAnswers, CheckFails, CheckReads, ReadWaitingLocks,
         ReadBlocking, Checking
<1>4. phase' \in Checking
  <2>1. CASE ProbeConnects \/ ReadWaitingLocks
    BY <2>1, CheckingPhases DEF ProbeConnects, ReadWaitingLocks
  <2>2. CASE ProbeAnswers \/ CheckFails \/ CheckReads \/ ReadBlocking
    <3>1. \E check, status : EndCheck(check, status)
      BY <2>2 DEF ProbeAnswers, CheckFails, CheckReads, ReadBlocking
    <3>. QED BY <3>1, NextOfCheck DEF TypedInv
  <2>. QED BY <2>1, <2>2
<1>5. phase # "ended" /\ phase' \notin {"ended", "statistics", "sizes"}
  BY <1>3, <1>4, CheckingPhases
<1>6. Gathered'
  <2>1. Exported(request.policy, batch)' = Exported(request.policy, batch)
    BY <1>1 DEF Untouched, Exported, Admits
  <2>. QED BY <1>1, <1>3, <1>4, <1>5, <2>1 DEF TypedInv, Gathered, Untouched
<1>7. Peopled' /\ Counted'
  BY <1>1, <1>2, <1>4 DEF TypedInv, Peopled, Counted, Untouched
<1>. QED BY <1>6, <1>7

\* The command ends before the report.
LEMMA BrokenTyped ==
  ASSUME TypedInv, UsageError \/ ResolveFails \/ CollectFails \/ ProbeBreaks
  PROVE  Peopled' /\ Gathered' /\ Counted'
<1>1. /\ Untouched /\ UNCHANGED delivered
      /\ phase' = "ended" /\ verdict' \in {"usage", "error", "escaped"}
      /\ batch' \in {batch, {}} /\ phase # "ended"
  BY CheckingPhases DEF UsageError, ResolveFails, CollectFails, ProbeBreaks
<1>2. failures' \in 0 .. MaxFailures
  BY FailuresCounted, MovesAssumption
     DEF UsageError, ResolveFails, CollectFails, ProbeBreaks, TypedInv, Counted
<1>3. Gathered'
  BY <1>1, CheckingPhases DEF TypedInv, Gathered, Untouched
<1>4. Peopled' /\ Counted'
  BY <1>1, <1>2 DEF TypedInv, Peopled, Counted, Untouched, Endings
<1>. QED BY <1>3, <1>4

LEMMA CollectTyped ==
  ASSUME TypedInv, Collect PROVE Peopled' /\ Gathered' /\ Counted'
<1>1. /\ Untouched /\ UNCHANGED <<failures, delivered, verdict>>
      /\ \/ phase = "statistics" /\ batch' = ConnectionMetrics /\ phase' = "sizes"
         \/ phase = "sizes" /\ batch' = batch \cup SizeMetrics /\ phase' = "connectivity"
  BY SuiteInOrder DEF Collect
<1>2. request.snapshot /\ delivered = Unset /\ verdict = Unset
  BY <1>1 DEF TypedInv, Gathered
<1>3. phase' = "connectivity" => batch' = AllMetrics
  BY <1>1, <1>2 DEF TypedInv, Gathered, AllMetrics
<1>4. Gathered'
  BY <1>1, <1>2, <1>3, CheckingPhases, UnsetAssumption
     DEF Gathered, Untouched, AllMetrics, Endings
<1>5. Peopled' /\ Counted'
  BY <1>1, CheckingPhases DEF TypedInv, Peopled, Counted, Untouched
<1>. QED BY <1>4, <1>5

LEMMA BeginTyped ==
  ASSUME TypedInv, Begin PROVE Peopled' /\ Gathered' /\ Counted'
<1>1. /\ UNCHANGED <<sessions, moves, failures, request, batch, delivered, verdict>>
      /\ phase = "start"
      /\ phase' = IF request.snapshot THEN "statistics" ELSE "connectivity"
      /\ was' = [check \in Measured |-> {Measure(check)}]
  BY SuiteInOrder DEF Begin
<1>2. was' \in [Measured -> SUBSET Nat]
  BY <1>1, MeasuresNatural DEF TypedInv, Measurable
<1>3. Gathered'
  BY <1>1, CheckingPhases, UnsetAssumption DEF TypedInv, Gathered, Endings
<1>4. Peopled' /\ Counted'
  BY <1>1, <1>2, CheckingPhases DEF TypedInv, Peopled, Counted
<1>. QED BY <1>3, <1>4

LEMMA ReportTyped ==
  ASSUME TypedInv, Report PROVE Peopled' /\ Gathered' /\ Counted'
<1>1. /\ Untouched /\ UNCHANGED <<failures, batch>>
      /\ phase = "report" /\ phase' = "ended"
      /\ \/ /\ request.snapshot /\ verdict' = "captured"
            /\ delivered' = Exported(request.policy, batch)
         \/ verdict' \in {"exit 0", "exit 1"} /\ delivered' = delivered
  BY DEF Report
<1>2. Exported(request.policy, batch)' = Exported(request.policy, batch)
  BY <1>1 DEF Untouched, Exported, Admits
<1>3. Gathered'
  BY <1>1, <1>2, CheckingPhases DEF TypedInv, Gathered, Untouched
<1>4. Peopled' /\ Counted'
  BY <1>1 DEF TypedInv, Peopled, Counted, Untouched, Endings
<1>. QED BY <1>3, <1>4

LEMMA MovesTyped ==
  ASSUME TypedInv, NEW c \in Clients, SessionMoves(c)
  PROVE  Peopled' /\ Gathered' /\ Counted'
<1>1. /\ UNCHANGED <<failures, request, phase, batch, delivered, verdict>>
      /\ moves < MaxMoves /\ moves' = moves + 1
      /\ was' = IF phase = "start" THEN was
                ELSE [check \in Measured |-> was[check] \cup {Measure(check)'}]
  BY DEF SessionMoves
<1>2. Peopled'
  BY DEF SessionMoves, TypedInv, Peopled
<1>3. was' \in [Measured -> SUBSET Nat]
  BY <1>1, <1>2, NextMeasuresNatural DEF TypedInv, Counted, Measurable
<1>4. Gathered'
  BY <1>1 DEF TypedInv, Gathered, Exported, Admits
<1>5. Counted'
  BY <1>1, <1>3, MovesAssumption DEF TypedInv, Counted
<1>. QED BY <1>2, <1>4, <1>5

LEMMA TypedAlways == HealthSpec => []TypedInv
<1>1. HealthInit => TypedInv
  BY InitSuite, InitTyped DEF TypedInv
<1>2. TypedInv /\ [HealthNext]_healthVars => TypedInv'
  <2> SUFFICES ASSUME TypedInv, [HealthNext]_healthVars PROVE TypedInv'
    OBVIOUS
  <2>1. SuiteInv'
    BY StepSuite DEF TypedInv
  <2>2. CASE UNCHANGED healthVars
    BY <2>1, <2>2 DEF healthVars, TypedInv, Peopled, Gathered, Counted, Exported, Admits
  <2>3. CASE HealthNext
    <3>1. Peopled' /\ Gathered' /\ Counted'
      BY <2>3, CheckingTyped, BrokenTyped, CollectTyped, BeginTyped, ReportTyped,
         MovesTyped
         DEF HealthNext, HealthStep
    <3>. QED BY <2>1, <3>1 DEF TypedInv
  <2>. QED BY <2>2, <2>3
<1>. QED BY <1>1, <1>2, PTL DEF HealthSpec

(***************************************************************************)
(* The types of the suite: no more than one result per check, in their     *)
(* order, each with a status of its own kind; metrics of the registry      *)
(* alone, and nothing given to an exporter that is not among them.         *)
(***************************************************************************)
THEOREM HealthTyped == HealthSpec => []HealthTypeOK
<1>1. TypedInv => HealthTypeOK
  <2> SUFFICES ASSUME TypedInv PROVE HealthTypeOK
    OBVIOUS
  <2>1. delivered \in {Unset} \cup SUBSET batch
    BY DEF TypedInv, Gathered, Exported
  <2>2. \A n \in 1 .. Len(results) :
          results[n].name = Suite[n] /\ results[n].status \in HealthStatus
    <3>1. \A n \in 1 .. Len(results) : Sound(n) /\ results[n] \in ResultRow
      BY DEF TypedInv, SuiteInv
    <3>. QED BY <3>1 DEF Sound, ResultRow
  <2>3. phase \in {"start", "statistics", "sizes", "probe", "blocking", "report",
                   "ended"} \cup {Suite[n] : n \in 1 .. Len(Suite)}
    BY SuiteInOrder DEF TypedInv, Counted, Checking
  <2>. QED BY <2>1, <2>2, <2>3, SuiteInOrder
           DEF TypedInv, SuiteInv, Peopled, Gathered, Counted, AllMetrics, HealthTypeOK
<1>. QED BY <1>1, TypedAlways, PTL

\* The labels of a metric are those the registry has for it, and the default
\* policy admits them.
LEMMA MetricLabels ==
  /\ {m.name : m \in AllMetrics} = DOMAIN Registry
  /\ \A m \in AllMetrics :
       LabelNames(m) = Registry[m.name] /\ Admits(DefaultPolicy, m)
<1>1. ASSUME NEW m \in ConnectionMetrics
      PROVE  /\ m.name \in (DOMAIN Registry) \ {"database.size_bytes"}
             /\ LabelNames(m) = {}
  BY <1>1 DEF ConnectionMetrics, LabelNames
<1>2. ASSUME NEW m \in SizeMetrics
      PROVE  m.name = "database.size_bytes" /\ LabelNames(m) = {"database"}
  BY <1>2 DEF SizeMetrics, LabelNames
<1>3. \A name \in (DOMAIN Registry) \ {"database.size_bytes"} :
        \E m \in ConnectionMetrics : m.name = name
  <2>1. ASSUME NEW name \in (DOMAIN Registry) \ {"database.size_bytes"}
        PROVE  [name |-> name, labels |-> << >>] \in ConnectionMetrics
    BY <2>1 DEF ConnectionMetrics
  <2>. QED BY <2>1
<1>4. "database.size_bytes" \in DOMAIN Registry /\ \E m \in SizeMetrics : TRUE
  BY DatabasesAssumption DEF Registry, SizeMetrics
<1>5. \A m \in AllMetrics : LabelNames(m) = Registry[m.name]
  BY <1>1, <1>2 DEF AllMetrics, Registry
<1>6. \A m \in AllMetrics : Admits(DefaultPolicy, m)
  <2>1. Cardinality({}) = 0 /\ Cardinality({"database"}) = 1
    BY FS_EmptySet, FS_Singleton
  <2>2. \A m \in AllMetrics : LabelNames(m) \in {{}, {"database"}}
    BY <1>1, <1>2 DEF AllMetrics
  <2>. QED BY <2>1, <2>2 DEF Admits, DefaultPolicy
<1>7. {m.name : m \in AllMetrics} = DOMAIN Registry
  <2>1. \A m \in AllMetrics : m.name \in DOMAIN Registry
    BY <1>1, <1>2, <1>4 DEF AllMetrics
  <2>2. \A name \in DOMAIN Registry : \E m \in AllMetrics : m.name = name
    BY <1>2, <1>3, <1>4 DEF AllMetrics
  <2>. QED BY <2>1, <2>2
<1>. QED BY <1>5, <1>6, <1>7

(***************************************************************************)
(* A snapshot that is captured has every metric of the registry under its  *)
(* own labels; its export is all of it or nothing, whatever the policy,    *)
(* and all of it under the default one (service.py, exporters.py,          *)
(* cardinality.py).                                                        *)
(***************************************************************************)
THEOREM ExportWhole == HealthSpec => []ExportIsWhole
<1>1. TypedInv => ExportIsWhole
  <2> SUFFICES ASSUME TypedInv, verdict = "captured" PROVE ExportIsWhole
    BY DEF ExportIsWhole
  <2>1. batch = AllMetrics /\ delivered = Exported(request.policy, batch)
    BY DEF TypedInv, Gathered
  <2>2. delivered \in {batch, {}}
    BY <2>1 DEF Exported
  <2>3. request.policy = DefaultPolicy => delivered = batch
    BY <2>1, MetricLabels DEF Exported
  <2>. QED BY <2>1, <2>2, <2>3, MetricLabels DEF ExportIsWhole
<1>. QED BY <1>1, TypedAlways, PTL
================================================================================
