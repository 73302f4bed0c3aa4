------------------------------- MODULE Inspection -------------------------------
(***************************************************************************)
(* One command of the CLI that goes to the server, from its arguments to   *)
(* the exit code: the profile is read and checked, its secret fetched, and *)
(* then every read of the command opens a connection of its own, so that a *)
(* description is put together from several snapshots of the catalog.      *)
(* Others create, drop, alter and rename relations meanwhile, hold locks,  *)
(* and the network and the server fail in the ways the adapter translates. *)
(*                                                                         *)
(* "listing" stands for every command of one read and no target: databases,*)
(* schemas, tables, views, indexes, sessions, queries, transactions, waits *)
(* and locks.  "statement" is a mutation sent with executor.execute.       *)
(***************************************************************************)
EXTENDS Integers, Sequences, FiniteSets

CONSTANTS
  Labels,      \* names a relation may bear in the schema asked about
  Asking,      \* the label the commands ask about
  Requests,    \* the commands that may be given
  Documents,   \* the configuration files there may be
  Versions,    \* the server_version_num of the servers there may be
  MaxDdl,      \* bound: how many times others change the catalog
  Absent       \* no relation, no value

ASSUME AskingAssumption == Asking \in Labels
ASSUME MaxDdlAssumption == MaxDdl \in Nat
ASSUME VersionsAssumption == Versions \subseteq Nat

Described == {"table", "view", "index"}

ASSUME AbsentAssumption ==
  Absent \notin [of : [oid : Nat, kind : Described, version : Nat],
                 known : BOOLEAN]

Request ==
  [kind : Described \cup {"listing", "server", "test", "statement"},
   profile : {"none", "blank", "unknown", "chosen"},
   name : {"plain", "malformed", "database"}]

ASSUME RequestsAssumption == Requests \subseteq Request

\* A profile of the file.  "fields" sums up the string, boolean and enumerated
\* fields: "sound", or "bad" when one is missing, blank or of another type.
\* "namesake" is whether the host, database or user has the word "timeout" in it.
Entry ==
  [fields : {"sound", "bad"}, port : Int, connect : Int \cup {Absent},
   secret : {"none", "env", "other", "bad"}, namesake : BOOLEAN]

\* The file: not there, not to be read (a directory, or forbidden), not UTF-8,
\* or not TOML with a table of connections, or the profiles it holds, by name.
ASSUME DocumentsAssumption == \A file \in Documents :
  /\ file.state \in {"missing", "unreadable", "undecodable", "garbled", "read"}
  /\ \A name \in DOMAIN file.profiles : file.profiles[name] \in Entry

CatalogRelation == [oid : 1 .. MaxDdl + 2, kind : Described, version : 0 .. MaxDdl]

\* What one read brings back: the relation its row is about, and whether the
\* functions it calls still found the relation there.
Part == [of : CatalogRelation, known : BOOLEAN]

VARIABLES
  document,    \* the configuration file
  exported,    \* whether the variable the secret refers to is defined
  version,     \* server_version_num
  named,       \* label -> the relation that bears it
  ddl,         \* how many times others have changed the catalog
  barred,      \* whether others hold ACCESS EXCLUSIVE on what is asked about
  request,     \* the command
  at,          \* how far it is
  deadline,    \* connect_timeout of the resolved profile
  sample,      \* the row the read under way has found
  parts,       \* what the reads so far have brought back
  opened,      \* how many connections it has opened
  applied,     \* how many times its statement has taken effect
  cause,       \* what has gone wrong, in the world
  code,        \* the exit code
  borne        \* what Asking has denoted since the first snapshot

given == <<document, exported, version, request>>
catalogue == <<named, ddl, barred, borne>>
progress == <<at, deadline, sample, parts, opened, applied, cause, code>>
inspectionVars == <<given, catalogue, progress>>

Error ==
  {"ConfigurationError", "ProfileNotFoundError", "SecretResolutionError",
   "DatabaseConnectionError", "DatabaseConnectionTimeoutError",
   "AuthenticationError", "AuthorizationError", "DatabaseOperationError",
   "ResourceNotFoundError", "CapabilityNotAvailableError", "InternalError"}

\* What may go wrong in the world outside the program.
Cause ==
  {"nothing", "usage", "configuration", "refused", "unreachable", "silent",
   "denied", "broken"}

InspectionTypeOK ==
  /\ document \in Documents /\ exported \in BOOLEAN /\ version \in Versions
  /\ named \in [Labels -> CatalogRelation \cup {Absent}]
  /\ ddl \in 0 .. MaxDdl
  /\ barred \in BOOLEAN
  /\ request \in Requests
  /\ at \in {"arguments", "resolving", "opening", "executing", "waiting",
             "answering", "presenting", "ended"}
  /\ deadline \in Int
  /\ sample \in CatalogRelation \cup {Absent}
  /\ \A i \in DOMAIN parts : parts[i] \in Part \cup {Absent}
  /\ opened \in Nat /\ opened <= 3 /\ Len(parts) <= opened
  /\ applied \in 0 .. 3
  /\ cause \in Cause
  /\ code \in {Absent} \cup 0 .. 9
  /\ borne \subseteq CatalogRelation \cup {Absent}

InspectionInit ==
  /\ document \in Documents /\ exported \in BOOLEAN /\ version \in Versions
  /\ request \in Requests
  /\ \E kind \in Described, there \in SUBSET Labels :
       named = [l \in Labels |->
         IF l \notin there THEN Absent
         ELSE [oid |-> IF l = Asking THEN 1 ELSE 2, kind |-> kind,
               version |-> 0]]
  /\ ddl = 0 /\ barred = FALSE
  /\ at = "arguments" /\ deadline = 0
  /\ sample = Absent /\ parts = <<>> /\ opened = 0 /\ applied = 0
  /\ cause = "nothing" /\ code = Absent /\ borne = {}

-----------------------------------------------------------------------------
(* Everybody else.                                                          *)

\* What happens before the first snapshot of a description is the start of
\* the behaviour, and what happens after the last no one sees.
Looking == borne # {} /\ at # "ended"

Changes(now) ==
  /\ Looking
  /\ ddl < MaxDdl /\ ddl' = ddl + 1
  /\ named' = now
  /\ borne' = borne \cup {now[Asking]}
  /\ UNCHANGED <<barred, given, progress>>

OthersDropIt(l) ==
  named[l] # Absent /\ Changes([named EXCEPT ![l] = Absent])

OthersCreateIt(l, kind) ==
  /\ named[l] = Absent
  /\ Changes([named EXCEPT ![l] =
       [oid |-> ddl + 3, kind |-> kind, version |-> 0]])

OthersAlterIt(l) ==
  named[l] # Absent /\ Changes([named EXCEPT ![l].version = @ + 1])

\* Two relations swap names, or one takes a free name, in one transaction.
OthersRename(l, m) ==
  /\ named[l] # Absent /\ l # m
  /\ Changes([named EXCEPT ![l] = named[m], ![m] = named[l]])

\* Somebody locks the relation, or lets go: it counts only while the command
\* waits for the server.
OthersBar ==
  /\ at = "waiting"
  /\ barred' = ~barred
  /\ UNCHANGED <<named, ddl, borne, given, progress>>

OthersChange ==
  \/ \E l \in Labels :
       \/ OthersDropIt(l) \/ OthersAlterIt(l)
       \/ \E kind \in Described : OthersCreateIt(l, kind)
       \/ \E m \in Labels : OthersRename(l, m)
  \/ OthersBar

-----------------------------------------------------------------------------
(* Errors, as the command sees them.                                        *)

\* The classes of the hierarchy an error belongs to.
Classes(error) ==
  CASE error \in {"ProfileNotFoundError", "SecretResolutionError"} ->
         {error, "ConfigurationError"}
    [] error \in {"DatabaseConnectionTimeoutError", "AuthenticationError"} ->
         {error, "DatabaseConnectionError"}
    [] OTHER -> {error}

\* The tests of exit_code_for_error, in their order.  The last one, code 8,
\* is for tools, backups, restores and maintenance.
ExitTests ==
  <<[code |-> 2, classes |-> {"ConfigurationError"}],
    [code |-> 9, classes |-> {"DatabaseConnectionTimeoutError",
                              "OperationTimeoutError"}],
    [code |-> 4, classes |-> {"AuthenticationError", "AuthorizationError"}],
    [code |-> 3, classes |-> {"DatabaseConnectionError"}],
    [code |-> 5, classes |-> {"ResourceNotFoundError"}],
    [code |-> 6, classes |-> {"CapabilityNotAvailableError"}],
    [code |-> 7, classes |-> {"SafetyPolicyError"}]>>

Meets(error, i) == ExitTests[i].classes \cap Classes(error) # {}

\* The same with the connection errors tested before their subclasses.
ExitCodeBroadFirst(error) ==
  IF "DatabaseConnectionError" \in Classes(error) THEN 3
  ELSE LET met == {i \in DOMAIN ExitTests : Meets(error, i)}
       IN  IF met = {} THEN 1
           ELSE ExitTests[CHOOSE i \in met : \A j \in met : i <= j].code

ExitCode(error) ==
  LET met == {i \in DOMAIN ExitTests : Meets(error, i)}
  IN  IF met = {} THEN 1
      ELSE ExitTests[CHOOSE i \in met : \A j \in met : i <= j].code

\* The commands that catch ValueError too; the others end in a traceback.
CatchesValueError == request.kind \in Described \cup {"statement"}

CodeOf(error) ==
  IF error = "ValueError" THEN (IF CatchesValueError THEN 2 ELSE 1)
  ELSE ExitCode(error)

Ends(why, exit) ==
  /\ at' = "ended" /\ cause' = why /\ code' = exit
  /\ UNCHANGED <<catalogue, given, deadline, sample, parts, opened, applied>>

-----------------------------------------------------------------------------
(* Arguments, profile and secret.                                           *)

\* connect_seconds > 0 is all that keeps the deadline from being none: libpq
\* takes 0 for no timeout.
ValidTimeoutOrZero(seconds) == seconds = Absent \/ seconds >= 0

ValidTimeout(seconds) == seconds = Absent \/ seconds > 0

ValidEntry(entry) ==
  /\ entry.fields = "sound"
  /\ entry.port \in 1 .. 65535
  /\ entry.secret # "bad"
  /\ ValidTimeout(entry.connect)

\* The default is left to the dataclass, which is given None.
ConnectSeconds(entry) == IF entry.connect = Absent THEN 10 ELSE entry.connect

\* What _load_profiles, get_connection_profile and the resolver raise, or
\* "none".  Every profile of the file is parsed, whichever is asked for.  Of what
\* read_text may raise only FileNotFoundError is translated: UnicodeDecodeError
\* is a ValueError, and no command catches another OSError.
ResolutionError ==
  LET profiles == document.profiles IN
  IF request.profile = "blank" \/ document.state = "undecodable" THEN "ValueError"
  ELSE IF document.state = "unreadable" THEN "OSError"
  ELSE IF \/ document.state # "read"
          \/ \E name \in DOMAIN profiles : ~ValidEntry(profiles[name])
    THEN "ConfigurationError"
  ELSE IF request.profile = "unknown" \/ "chosen" \notin DOMAIN profiles
    THEN "ProfileNotFoundError"
  ELSE IF \/ profiles["chosen"].secret = "other"
          \/ profiles["chosen"].secret = "env" /\ ~exported
    THEN "SecretResolutionError"
  ELSE "none"

\* --connection is there, and the name has one to three components.
ParseArguments ==
  /\ at = "arguments"
  /\ IF \/ request.profile = "none"
        \/ request.kind \in Described /\ request.name = "malformed"
     THEN Ends("usage", 2)
     ELSE /\ at' = "resolving"
          /\ UNCHANGED <<catalogue, given, deadline, sample, parts, opened,
                         applied, cause, code>>

\* The service is built, which resolves the profile; a name with a database
\* is refused by the adapter before any query.
Resolve ==
  /\ at = "resolving"
  /\ IF ResolutionError # "none"
     THEN Ends("configuration", CodeOf(ResolutionError))
     ELSE IF request.kind \in Described /\ request.name = "database"
     THEN Ends("usage", CodeOf("CapabilityNotAvailableError"))
     ELSE /\ at' = "opening"
          /\ deadline' = ConnectSeconds(document.profiles["chosen"])
          /\ UNCHANGED <<catalogue, given, sample, parts, opened, applied,
                         cause, code>>

-----------------------------------------------------------------------------
(* One read: connect, execute, fetch, close.                                *)

\* What a describe command asks, a connection each.
Reads ==
  CASE request.kind = "table" -> <<"summary", "columns", "constraints">>
    [] request.kind = "view" -> <<"summary", "columns", "definition">>
    [] request.kind = "index" -> <<"summary", "definition">>
    [] OTHER -> <<"rows">>

Read == Reads[Len(parts) + 1]

\* One relkind filter for the columns of tables and views.
KindsReadAlike ==
  CASE request.kind = "listing" -> Described
    [] request.kind \in {"table", "view"} /\ Read = "columns" -> {"table"}
    [] request.kind \in Described -> {request.kind}
    [] OTHER -> {}

\* The kinds its WHERE clause lets through: the columns of a table are those
\* of whatever bears the name.
KindsRead ==
  CASE request.kind = "listing" -> Described
    [] request.kind = "table" /\ Read = "columns" -> Described
    [] request.kind \in Described -> {request.kind}
    [] OTHER -> {}

\* pg_total_relation_size, pg_relation_size and pg_get_viewdef lock the
\* relation; pg_get_indexdef and the plain columns of the catalog do not.
Locks ==
  \/ request.kind \in {"table", "index", "listing"} /\ Len(parts) = 0
  \/ request.kind = "view" /\ Read = "definition"

ConnectionOpens ==
  /\ at = "opening"
  /\ at' = "executing" /\ opened' = opened + 1
  /\ UNCHANGED <<catalogue, given, deadline, sample, parts, applied, cause,
                 code>>

\* The driver reports SQLSTATE 28000 or 28P01.
ConnectionIsRefused ==
  at = "opening" /\ Ends("refused", CodeOf("AuthenticationError"))

\* Any other failure.  The text of the error may name the host, the database or
\* the user, and "timeout" is looked for in all of it.
ConnectionFailsOutright ==
  /\ at = "opening"
  /\ \E word \in {FALSE, document.profiles["chosen"].namesake} :
       Ends("unreachable",
            CodeOf(IF word THEN "DatabaseConnectionTimeoutError"
                   ELSE "DatabaseConnectionError"))

ConnectTimesOut ==
  /\ at = "opening" /\ deadline > 0
  /\ Ends("silent", CodeOf("DatabaseConnectionTimeoutError"))

\* The server takes the snapshot of the statement, or carries it out.
Executes ==
  /\ at = "executing"
  /\ at' = "waiting"
  /\ sample' = IF named[Asking] # Absent /\ named[Asking].kind \in KindsRead
               THEN named[Asking] ELSE Absent
  /\ borne' = IF request.kind \in Described THEN borne \cup {named[Asking]}
              ELSE borne
  /\ applied' = applied + (IF request.kind = "statement" THEN 1 ELSE 0)
  /\ UNCHANGED <<named, ddl, barred, given, deadline, parts, opened, cause,
                 code>>

\* SQLSTATE 42501.  The connection tester does not translate its errors.
ExecutionIsDenied ==
  /\ at = "executing"
  /\ Ends("denied", IF request.kind = "test" THEN 1
                    ELSE CodeOf("AuthorizationError"))

\* The statement is sent again when the connection breaks under it.
ExecutionBreaksAndRetries ==
  /\ at \in {"executing", "waiting"}
  /\ \/ /\ at' = "opening"
        /\ opened < 3
        /\ UNCHANGED <<catalogue, given, deadline, sample, parts, opened,
                       applied, cause, code>>
     \/ Ends("broken", CodeOf("DatabaseOperationError"))

\* Any other error, among them a connection that breaks after the server has
\* carried the statement out.
ExecutionBreaks ==
  /\ at \in {"executing", "waiting"}
  /\ Ends("broken", CodeOf("DatabaseOperationError"))

\* The functions of the query see the catalog as it is when they run.
ServerAnswers ==
  /\ at = "waiting"
  /\ ~(barred /\ sample # Absent /\ Locks)
  /\ at' = "answering"
  /\ parts' = Append(parts,
       IF sample = Absent THEN Absent
       ELSE [of |-> sample,
             known |-> \E l \in Labels :
               named[l] # Absent /\ named[l].oid = sample.oid])
  /\ UNCHANGED <<catalogue, given, deadline, sample, opened, applied, cause,
                 code>>

Continue ==
  /\ at = "answering"
  /\ IF request.kind \in Described /\ parts[1] = Absent
     THEN Ends("nothing", CodeOf("ResourceNotFoundError"))
     ELSE /\ at' = IF Len(parts) < Len(Reads) THEN "opening" ELSE "presenting"
          /\ UNCHANGED <<catalogue, given, deadline, sample, parts, opened,
                         applied, cause, code>>

\* The detail row of an index is optional, as the definition of a view is.
IndexIsBuiltRegardless == TRUE

IndexIsBuilt == request.kind = "index" => parts[2] # Absent

\* The rows are mapped.  A server before PostgreSQL 10 is a ValueError, which
\* neither server info nor connection test catches.
Present ==
  /\ at = "presenting"
  /\ Ends("nothing",
       IF ~IndexIsBuilt THEN CodeOf("InternalError")
       ELSE IF request.kind \in {"server", "test"} /\ version < 100000
            THEN CodeOf("ValueError") ELSE 0)

-----------------------------------------------------------------------------

CommandSteps == ParseArguments \/ Resolve \/ Continue \/ Present

Remote ==
  \/ ConnectionOpens \/ ConnectionIsRefused \/ ConnectionFailsOutright
  \/ ConnectTimesOut \/ Executes \/ ExecutionIsDenied \/ ExecutionBreaks
  \/ ServerAnswers

InspectionNext == CommandSteps \/ Remote \/ OthersChange

InspectionSpec == InspectionInit /\ [][InspectionNext]_inspectionVars

\* The program goes on and the timer of libpq rings; nobody promises that a
\* silent host ever answers.  The server carries statements out, whoever bars
\* the relation ends its transaction, and a waiter is not passed over.
InspectionFairness ==
  /\ WF_inspectionVars(CommandSteps)
  /\ WF_inspectionVars(ConnectTimesOut)
  /\ WF_inspectionVars(Executes)
  /\ WF_inspectionVars(barred /\ OthersBar)
  /\ SF_inspectionVars(ServerAnswers)

FairInspectionSpec == InspectionSpec /\ InspectionFairness

-----------------------------------------------------------------------------
(* Properties.                                                              *)

Answered == at = "ended" /\ code = 0

Namesake == document.profiles["chosen"].namesake

\* The exit code tells what happened, as the error hierarchy, the order of
\* the tests in exit_code_for_error and the except clauses of the commands
\* combine: 0 only for a command nothing went wrong with, 2 only before any
\* connection, 3, 4 and 9 for what the driver reported (9 for an attempt that
\* timed out, or that failed otherwise with the word in one of its names), 5 only
\* if at some moment no relation of that kind bore the name, 6 for a name with a
\* database.
ExitCodeTellsTheCause ==
  at = "ended" =>
    /\ code = 0 => cause = "nothing"
    /\ code = 2 => cause \in {"usage", "configuration"} /\ opened = 0
    /\ code = 3 => cause = "unreachable"
    /\ cause = "silent" => code = 9
    /\ code = 9 => cause = "silent" \/ (cause = "unreachable" /\ Namesake)
    /\ cause = "unreachable" => code = 3 \/ code = 9
    /\ cause = "refused" => code = 4
    /\ code = 4 => cause \in {"refused", "denied"}
    /\ code = 5 => \E r \in borne : r = Absent \/ r.kind # request.kind
    /\ code = 6 => request.name = "database" /\ opened = 0

\* A description is printed only of something that was there: every part of
\* it comes from a relation that bore the name since the first read, the
\* summary is of the right kind, and an index has its definition row
\* (describe_table, describe_view, describe_index: two or three connections).
DescriptionIsWitnessed ==
  Answered /\ request.kind \in Described =>
    /\ \A i \in DOMAIN parts : parts[i] # Absent =>
         \E r \in borne : r # Absent /\ r.oid = parts[i].of.oid
    /\ parts[1].of.kind = request.kind
    /\ request.kind = "index" => parts[2] # Absent

\* When the name denoted one and the same relation throughout, the
\* description is whole: every part is there, is of that relation, and no
\* function of the queries came back with NULL.
QuietDescriptionIsWhole ==
  Answered /\ request.kind \in Described =>
    \A r \in borne : borne = {r} =>
      \A i \in DOMAIN parts : parts[i] = [of |-> r, known |-> TRUE]

\* A statement that is reported done was carried out once, none is ever
\* carried out twice, although its reply may be lost, and one that is
\* reported with a code of its own was not carried out: only the general
\* failure, code 1, leaves it open (PostgreSQLExecutor.execute).
StatementIsSentOnce ==
  /\ applied <= 1
  /\ at = "ended" /\ code \notin {0, 1} => applied = 0
  /\ Answered /\ request.kind = "statement" => applied = 1

\* Every command comes to an end, also when the host never answers: each
\* connection attempt has a deadline (TimeoutConfig, connect_timeout).
EveryInspectionEnds == <>(at = "ended")
=============================================================================
