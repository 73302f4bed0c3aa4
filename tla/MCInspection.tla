------------------------------ MODULE MCInspection ------------------------------
(* What the program reads, for TLC: a behaviour is one command that goes to   *)
(* the server, one history of roles and privileges with the listings of it,   *)
(* or one job of the child process runner.                                    *)
EXTENDS Inspection, ChildProcess, MCRoleAccess

VARIABLE part

-----------------------------------------------------------------------------
(* One file of each kind, with entries at the boundaries.                     *)

Profile(fields, port, connect, secret) ==
  [fields |-> fields, port |-> port, connect |-> connect, secret |-> secret,
   namesake |-> FALSE]

Sound == Profile("sound", 65535, Absent, "env")

Holding(profiles) == [state |-> "read", profiles |-> profiles]

MCDocuments ==
  {[state |-> state, profiles |-> <<>>] : state \in {"missing", "unreadable",
                                                         "undecodable", "garbled"}}
  \cup {Holding([other |-> Sound]), Holding([chosen |-> Sound]),
        Holding([chosen |-> [Sound EXCEPT !.namesake = TRUE]])}
  \cup {Holding([chosen |-> entry, other |-> Sound]) :
          entry \in {Profile("sound", 1, 1, "none"),
                     Profile("sound", 5432, 0, "none"),
                     Profile("sound", 5432, 1, "other")}}
  \cup {Holding([chosen |-> Sound, other |-> entry]) :
          entry \in {Profile("sound", 65536, 1, "none"),
                     Profile("sound", 0, 1, "none"),
                     Profile("bad", 5432, 1, "none"),
                     Profile("sound", 5432, 1, "bad")}}

Ask(kind, profile, name) == [kind |-> kind, profile |-> profile, name |-> name]

MCRequests ==
  {Ask(kind, "chosen", "plain") :
     kind \in {"table", "view", "index", "listing", "server", "test",
               "statement"}}
  \cup {Ask(kind, profile, "plain") :
          kind \in {"table", "listing"}, profile \in {"none", "blank", "unknown"}}
  \cup {Ask("view", "chosen", name) : name \in {"malformed", "database"}}

-----------------------------------------------------------------------------
(* A capability query, and a backup with and without a timeout.               *)

Probe(tool) == [tool |-> tool, probe |-> TRUE, timed |-> TRUE]
Work(tool, timed) == [tool |-> tool, probe |-> FALSE, timed |-> timed]

MCJobs ==
  {[needed |-> FALSE,
    runs |-> <<Probe("pg_dump"), Probe("pg_restore"), Probe("psql")>>]}
  \cup {[needed |-> TRUE, runs |-> <<Probe("pg_dump"), Work("pg_dump", timed)>>] :
          timed \in BOOLEAN}

-----------------------------------------------------------------------------

InspectionIdle ==
  /\ document = CHOOSE d \in Documents : TRUE
  /\ exported = FALSE /\ version = CHOOSE v \in Versions : TRUE
  /\ request = CHOOSE r \in Requests : TRUE
  /\ named = [l \in Labels |-> Absent] /\ ddl = 0 /\ barred = FALSE
  /\ at = "ended" /\ deadline = 0 /\ sample = Absent /\ parts = <<>>
  /\ opened = 0 /\ applied = 0 /\ cause = "nothing" /\ code = 1 /\ borne = {}

RolesIdle ==
  /\ roles = CHOOSE r \in InitialRoles : TRUE
  /\ memberships = {} /\ owner = [o \in Objects |-> Dba]
  /\ acl = [r \in Relations |-> Unset]
  /\ statements = MaxStatements /\ described = Unset /\ reply = Nothing

ProcessIdle ==
  /\ job = (CHOOSE j \in Jobs : TRUE) /\ turn = 1
  /\ stage = "ended" /\ outcome = "not started"
  /\ child = "none" /\ holders = FALSE /\ reason = "none" /\ sent = {}
  /\ available = [t \in Tools |-> FALSE] /\ missed = {}
  /\ installed = {} /\ moves = 0 /\ presses = 0 /\ returned = {}

ReadingInit ==
  \/ part = "inspection" /\ InspectionInit /\ RolesIdle /\ ProcessIdle
  \/ part = "roles" /\ RoleInit /\ InspectionIdle /\ ProcessIdle
  \/ part = "process" /\ ProcessInit /\ InspectionIdle /\ RolesIdle

ReadingNext ==
  \/ /\ part = "inspection" /\ InspectionNext
     /\ UNCHANGED <<part, accessVars, childVars>>
  \/ /\ part = "roles" /\ RoleNext
     /\ UNCHANGED <<part, inspectionVars, childVars>>
  \/ /\ part = "process" /\ ProcessNext
     /\ UNCHANGED <<part, inspectionVars, accessVars>>

ReadingSpec ==
  /\ ReadingInit
  /\ [][ReadingNext]_<<part, inspectionVars, accessVars, childVars>>
  /\ InspectionFairness
  /\ ProcessFairness
===============================================================================
