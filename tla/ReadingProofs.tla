------------------------------ MODULE ReadingProofs ------------------------------
(***************************************************************************)
(* Theorems about the commands that read: Inspection, for every set of     *)
(* labels, every request and every configuration file; and BlockingChain,  *)
(* for every set of sessions, every filter and any number of changes to    *)
(* the lock table.                                                         *)
(***************************************************************************)
EXTENDS Inspection, BlockingChain, FiniteSetTheorems, TLAPS

-----------------------------------------------------------------------------
(* The exit codes: the first test an error meets decides.                   *)

LEMMA TestsInOrder ==
  /\ DOMAIN ExitTests = 1 .. 7
  /\ ExitTests[1] = [code |-> 2, classes |-> {"ConfigurationError"}]
  /\ ExitTests[2] = [code |-> 9, classes |-> {"DatabaseConnectionTimeoutError",
                                              "OperationTimeoutError"}]
  /\ ExitTests[3] = [code |-> 4, classes |-> {"AuthenticationError",
                                              "AuthorizationError"}]
  /\ ExitTests[4] = [code |-> 3, classes |-> {"DatabaseConnectionError"}]
  /\ ExitTests[5] = [code |-> 5, classes |-> {"ResourceNotFoundError"}]
  /\ ExitTests[6] = [code |-> 6, classes |-> {"CapabilityNotAvailableError"}]
  /\ ExitTests[7] = [code |-> 7, classes |-> {"SafetyPolicyError"}]
BY DEF ExitTests

LEMMA FirstTestDecides ==
  ASSUME NEW error, NEW i \in 1 .. 7, Meets(error, i),
         \A j \in 1 .. 7 : j < i => ~Meets(error, j)
  PROVE  ExitCode(error) = ExitTests[i].code
<1> DEFINE met == {k \in DOMAIN ExitTests : Meets(error, k)}
<1>1. i \in met /\ \A j \in met : j \in 1 .. 7 /\ i <= j
  BY TestsInOrder
<1>2. ExitCode(error) =
        IF met = {} THEN 1
        ELSE ExitTests[CHOOSE k \in met : \A j \in met : k <= j].code
  BY Zenon DEF ExitCode
<1> HIDE DEF met
<1>3. \A k \in met : (\A j \in met : k <= j) => k = i
  BY <1>1
<1>4. (CHOOSE k \in met : \A j \in met : k <= j) = i
  BY <1>1, <1>3
<1>. QED BY <1>1, <1>2, <1>4

LEMMA NoTestDecides ==
  ASSUME NEW error, \A j \in 1 .. 7 : ~Meets(error, j)
  PROVE  ExitCode(error) = 1
BY TestsInOrder DEF ExitCode

LEMMA ExitCodes ==
  /\ ExitCode("ConfigurationError") = 2
  /\ ExitCode("ProfileNotFoundError") = 2
  /\ ExitCode("SecretResolutionError") = 2
  /\ ExitCode("DatabaseConnectionError") = 3
  /\ ExitCode("DatabaseConnectionTimeoutError") = 9
  /\ ExitCode("AuthenticationError") = 4
  /\ ExitCode("AuthorizationError") = 4
  /\ ExitCode("DatabaseOperationError") = 1
  /\ ExitCode("ResourceNotFoundError") = 5
  /\ ExitCode("CapabilityNotAvailableError") = 6
  /\ ExitCode("InternalError") = 1
  /\ ExitCode("OSError") = 1
<1>1. \A error \in {"ConfigurationError", "ProfileNotFoundError",
                    "SecretResolutionError"} : ExitCode(error) = 2
  <2> TAKE error \in {"ConfigurationError", "ProfileNotFoundError",
                      "SecretResolutionError"}
  <2>1. Meets(error, 1)
    BY TestsInOrder DEF Meets, Classes
  <2>. QED BY <2>1, FirstTestDecides, TestsInOrder
<1>2. ExitCode("DatabaseConnectionTimeoutError") = 9
  <2>1. /\ Meets("DatabaseConnectionTimeoutError", 2)
        /\ ~Meets("DatabaseConnectionTimeoutError", 1)
    BY TestsInOrder DEF Meets, Classes
  <2>. QED BY <2>1, FirstTestDecides, TestsInOrder
<1>3. \A error \in {"AuthenticationError", "AuthorizationError"} : ExitCode(error) = 4
  <2> TAKE error \in {"AuthenticationError", "AuthorizationError"}
  <2>1. Meets(error, 3) /\ ~Meets(error, 1) /\ ~Meets(error, 2)
    BY TestsInOrder DEF Meets, Classes
  <2>. QED BY <2>1, FirstTestDecides, TestsInOrder
<1>4. ExitCode("DatabaseConnectionError") = 3
  <2>1. /\ Meets("DatabaseConnectionError", 4)
        /\ \A j \in {1, 2, 3} : ~Meets("DatabaseConnectionError", j)
    BY TestsInOrder DEF Meets, Classes
  <2>. QED BY <2>1, FirstTestDecides, TestsInOrder
<1>5. ExitCode("ResourceNotFoundError") = 5
  <2>1. /\ Meets("ResourceNotFoundError", 5)
        /\ \A j \in {1, 2, 3, 4} : ~Meets("ResourceNotFoundError", j)
    BY TestsInOrder DEF Meets, Classes
  <2>. QED BY <2>1, FirstTestDecides, TestsInOrder
<1>6. ExitCode("CapabilityNotAvailableError") = 6
  <2>1. /\ Meets("CapabilityNotAvailableError", 6)
        /\ \A j \in {1, 2, 3, 4, 5} : ~Meets("CapabilityNotAvailableError", j)
    BY TestsInOrder DEF Meets, Classes
  <2>. QED BY <2>1, FirstTestDecides, TestsInOrder
<1>7. \A error \in {"DatabaseOperationError", "InternalError", "OSError"} :
        ExitCode(error) = 1
  <2> TAKE error \in {"DatabaseOperationError", "InternalError", "OSError"}
  <2>1. \A j \in {1, 2, 3, 4, 5, 6, 7} : ~Meets(error, j)
    BY TestsInOrder DEF Meets, Classes
  <2>. QED BY <2>1, NoTestDecides
<1>. QED BY <1>1, <1>2, <1>3, <1>4, <1>5, <1>6, <1>7

LEMMA CommandCodes ==
  /\ CodeOf("AuthenticationError") = 4
  /\ CodeOf("AuthorizationError") = 4
  /\ CodeOf("DatabaseConnectionError") = 3
  /\ CodeOf("DatabaseConnectionTimeoutError") = 9
  /\ CodeOf("DatabaseOperationError") = 1
  /\ CodeOf("ResourceNotFoundError") = 5
  /\ CodeOf("CapabilityNotAvailableError") = 6
  /\ CodeOf("InternalError") = 1
  /\ request.kind \in {"server", "test"} => CodeOf("ValueError") = 1
  /\ ResolutionError # "none" => CodeOf(ResolutionError) \in {1, 2}
<1>1. ResolutionError \in {"ValueError", "OSError", "ConfigurationError",
                           "ProfileNotFoundError", "SecretResolutionError", "none"}
  BY DEF ResolutionError
<1>. QED BY <1>1, ExitCodes DEF CodeOf, CatchesValueError, Described

-----------------------------------------------------------------------------
(***************************************************************************)
(* How far a command is, what it has read, and what its name has denoted   *)
(* meanwhile.  The name is in "borne" from the first snapshot on, whatever *)
(* others do, so that a name which denoted one relation only still denotes *)
(* it at every read.                                                       *)
(***************************************************************************)
Seen == [oid : Nat, kind : Described, version : Nat]

Shaped ==
  /\ ddl \in Nat
  /\ named \in [Labels -> Seen \cup {Absent}]
  /\ sample \in Seen \cup {Absent}
  /\ parts \in Seq([of : Seen, known : BOOLEAN] \cup {Absent})

Describing == request.kind \in Described

\* At some moment no relation of that kind bore the name.
Missing == \E r \in borne : r = Absent \/ r.kind # request.kind

Reached ==
  /\ at \in {"arguments", "resolving"} => parts = <<>> /\ opened = 0
  /\ at \in {"opening", "executing", "waiting"} => Len(parts) < Len(Reads)
  /\ at = "answering" => Len(parts) \in 1 .. Len(Reads)
  /\ at = "presenting" => Len(parts) = Len(Reads)
  /\ at # "ended" =>
       applied = IF request.kind = "statement" /\ at \in {"waiting", "answering", "presenting"}
                 THEN 1 ELSE 0
  /\ Describing /\ (parts # <<>> \/ at \in {"waiting", "answering", "presenting"}) =>
       borne # {}
  /\ at # "ended" /\ borne # {} => named[Asking] \in borne

Witnessed ==
  Describing =>
    /\ \A i \in DOMAIN parts : parts[i] # Absent =>
         \E r \in borne : r # Absent /\ r.oid = parts[i].of.oid
    /\ at = "waiting" /\ sample # Absent => sample \in borne
    /\ at = "waiting" /\ parts = <<>> =>
         IF sample = Absent THEN Missing ELSE sample.kind = request.kind
    /\ parts # <<>> =>
         IF parts[1] = Absent THEN at \in {"answering", "ended"} /\ Missing
         ELSE parts[1].of.kind = request.kind

Quiet ==
  Describing =>
    \A r \in borne : borne = {r} =>
      /\ at = "waiting" => (sample = r \/ (parts = <<>> /\ sample = Absent))
      /\ \A i \in DOMAIN parts :
           parts[i] = [of |-> r, known |-> TRUE] \/ parts[1] = Absent

\* What is so at the end.
Complete ==
  Answered /\ Describing =>
    /\ parts # <<>> /\ parts[1] # Absent
    /\ request.kind = "index" => parts[2] # Absent

Concluded ==
  at = "ended" => Complete /\ ExitCodeTellsTheCause /\ StatementIsSentOnce

ReadingInv == Shaped /\ Reached /\ Witnessed /\ Quiet /\ Concluded

LEMMA InitReading == InspectionInit => ReadingInv
<1> SUFFICES ASSUME InspectionInit PROVE ReadingInv
  OBVIOUS
<1>1. Len(Reads) >= 1
  BY DEF Reads
<1>2. named \in [Labels -> Seen \cup {Absent}]
  BY DEF InspectionInit, Seen
<1>3. Shaped
  BY <1>2 DEF InspectionInit, Shaped
<1>4. parts = <<>> /\ borne = {} /\ at = "arguments" /\ opened = 0 /\ applied = 0
  BY DEF InspectionInit
<1>. QED BY <1>3, <1>4 DEF ReadingInv, Reached, Witnessed, Quiet, Concluded

\* How many reads a command makes.
LEMMA HowManyReads ==
  /\ Len(Reads) \in 1 .. 3
  /\ Describing => Len(Reads) >= 2
  /\ request.kind = "statement" => Len(Reads) = 1
BY DEF Reads, Describing, Described

-----------------------------------------------------------------------------
(* The end of a command.                                                    *)

\* What an exit code owes to its cause.
Justified(why, exit) ==
  /\ exit = 0 =>
       /\ why = "nothing"
       /\ Describing => /\ parts # <<>> /\ parts[1] # Absent
                        /\ request.kind = "index" => parts[2] # Absent
       /\ request.kind = "statement" => applied = 1
  /\ exit = 2 => why \in {"usage", "configuration"} /\ opened = 0
  /\ exit = 3 => why = "unreachable"
  /\ why = "silent" => exit = 9
  /\ exit = 9 => why = "silent" \/ (why = "unreachable" /\ Namesake)
  /\ why = "unreachable" => exit = 3 \/ exit = 9
  /\ why = "refused" => exit = 4
  /\ exit = 4 => why \in {"refused", "denied"}
  /\ exit = 5 => Missing
  /\ exit = 6 => request.name = "database" /\ opened = 0
  /\ exit \notin {0, 1} => applied = 0

LEMMA EndKeeps ==
  ASSUME ReadingInv, at # "ended", NEW why, NEW exit, Ends(why, exit),
         Justified(why, exit)
  PROVE  ReadingInv'
<1>1. /\ at' = "ended" /\ cause' = why /\ code' = exit
      /\ UNCHANGED <<named, ddl, barred, borne, document, exported, version, request,
                     deadline, sample, parts, opened, applied>>
  BY DEF Ends, catalogue, given
<1>2. applied \in {0, 1}
  BY DEF ReadingInv, Reached
<1>3. Shaped'
  BY <1>1 DEF ReadingInv, Shaped
<1>4. Reached'
  BY <1>1 DEF ReadingInv, Reached, Describing
<1>5. Witnessed'
  BY <1>1 DEF ReadingInv, Witnessed, Describing, Missing
<1>6. Quiet'
  BY <1>1 DEF ReadingInv, Quiet, Describing
<1>7. Complete'
  BY <1>1 DEF Justified, Complete, Answered, Describing
<1>8. ExitCodeTellsTheCause'
  BY <1>1 DEF Justified, Missing, ExitCodeTellsTheCause, Namesake
<1>9. StatementIsSentOnce'
  BY <1>1, <1>2 DEF Justified, StatementIsSentOnce, Answered
<1>. QED BY <1>3, <1>4, <1>5, <1>6, <1>7, <1>8, <1>9 DEF ReadingInv, Concluded

LEMMA ArgumentsKeep ==
  ASSUME ReadingInv, ParseArguments \/ Resolve PROVE ReadingInv'
<1>1. /\ at \in {"arguments", "resolving"} /\ at # "ended"
      /\ opened = 0 /\ applied = 0 /\ parts = <<>>
  BY DEF ReadingInv, Reached, ParseArguments, Resolve
<1>2. CASE ParseArguments /\ Ends("usage", 2)
  BY <1>1, <1>2, EndKeeps DEF Justified
<1>3. CASE Resolve /\ ResolutionError # "none" /\ Ends("configuration", CodeOf(ResolutionError))
  <2>1. CodeOf(ResolutionError) \in {1, 2}
    BY <1>3, CommandCodes
  <2>2. Justified("configuration", CodeOf(ResolutionError))
    BY <1>1, <2>1 DEF Justified
  <2>. QED BY <1>1, <1>3, <2>2, EndKeeps
<1>4. CASE /\ Resolve /\ request.kind \in Described /\ request.name = "database"
           /\ Ends("usage", CodeOf("CapabilityNotAvailableError"))
  <2>1. Justified("usage", CodeOf("CapabilityNotAvailableError"))
    BY <1>1, <1>4, CommandCodes DEF Justified
  <2>. QED BY <1>1, <1>4, <2>1, EndKeeps
<1>5. CASE /\ at' \in {"resolving", "opening"}
           /\ UNCHANGED <<catalogue, given, sample, parts, opened, applied, cause, code>>
  <2>1. /\ UNCHANGED <<named, ddl, barred, borne, document, exported, version, request,
                       sample, parts, opened, applied, cause, code>>
    BY <1>5 DEF catalogue, given
  <2>2. Len(Reads) >= 1 /\ Len(parts) = 0 /\ Reads' = Reads
    BY <1>1, <2>1, HowManyReads DEF Reads
  <2>3. Reached'
    BY <1>1, <1>5, <2>1, <2>2 DEF ReadingInv, Reached, Describing
  <2>4. Witnessed' /\ Quiet' /\ Shaped'
    BY <1>1, <1>5, <2>1 DEF ReadingInv, Witnessed, Quiet, Shaped, Describing, Missing
  <2>. QED BY <1>5, <2>3, <2>4 DEF ReadingInv, Concluded
<1>. QED BY <1>2, <1>3, <1>4, <1>5 DEF ParseArguments, Resolve

\* The ways the connection and the statement fail.
LEMMA FailuresKeep ==
  ASSUME ReadingInv,
         \/ ConnectionIsRefused \/ ConnectionFailsOutright \/ ConnectTimesOut
         \/ ExecutionIsDenied \/ ExecutionBreaks
  PROVE  ReadingInv'
<1>1. CASE ConnectionIsRefused
  <2>1. at = "opening" /\ applied = 0 /\ Ends("refused", 4)
    BY <1>1, CommandCodes DEF ConnectionIsRefused, ReadingInv, Reached
  <2>. QED BY <2>1, EndKeeps DEF Justified
<1>2. CASE ConnectionFailsOutright
  <2>1. PICK exit \in {3, 9} :
          Ends("unreachable", exit) /\ (exit = 9 => Namesake)
    <3>1. PICK word \in {FALSE, document.profiles["chosen"].namesake} :
            Ends("unreachable",
                 CodeOf(IF word THEN "DatabaseConnectionTimeoutError"
                        ELSE "DatabaseConnectionError"))
      BY <1>2 DEF ConnectionFailsOutright
    <3>2. CASE word
      <4>1. Ends("unreachable", 9)
        BY <3>1, <3>2, CommandCodes
      <4>2. Namesake
        BY <3>2 DEF Namesake
      <4>. QED BY <4>1, <4>2
    <3>3. CASE ~word
      <4>1. Ends("unreachable", 3)
        BY <3>1, <3>3, CommandCodes
      <4>. QED BY <4>1
    <3>. QED BY <3>2, <3>3
  <2>2. at = "opening" /\ applied = 0
    BY <1>2 DEF ConnectionFailsOutright, ReadingInv, Reached
  <2>3. Justified("unreachable", exit)
    BY <2>1, <2>2 DEF Justified
  <2>. QED BY <2>1, <2>2, <2>3, EndKeeps
<1>3. CASE ConnectTimesOut
  <2>1. at = "opening" /\ applied = 0 /\ Ends("silent", 9)
    BY <1>3, CommandCodes DEF ConnectTimesOut, ReadingInv, Reached
  <2>2. Justified("silent", 9)
    BY <2>1 DEF Justified
  <2>. QED BY <2>1, <2>2, EndKeeps
<1>4. CASE ExecutionIsDenied
  <2>1. PICK exit \in {1, 4} : Ends("denied", exit)
    BY <1>4, CommandCodes DEF ExecutionIsDenied
  <2>2. at = "executing" /\ applied = 0
    BY <1>4 DEF ExecutionIsDenied, ReadingInv, Reached
  <2>3. Justified("denied", exit)
    BY <2>2 DEF Justified
  <2>. QED BY <2>1, <2>2, <2>3, EndKeeps
<1>5. CASE ExecutionBreaks
  <2>1. at # "ended" /\ Ends("broken", 1)
    BY <1>5, CommandCodes DEF ExecutionBreaks
  <2>. QED BY <2>1, EndKeeps DEF Justified
<1>. QED BY <1>1, <1>2, <1>3, <1>4, <1>5

\* The end of a read, and of the command.
LEMMA ContinueKeeps == ASSUME ReadingInv, Continue PROVE ReadingInv'
<1>1. at = "answering" /\ Len(parts) \in 1 .. Len(Reads) /\ parts # <<>>
  BY HowManyReads DEF ReadingInv, Reached, Shaped, Continue
<1>2. CASE Describing /\ parts[1] = Absent
  <2>1. Ends("nothing", 5)
    BY <1>2, CommandCodes DEF Continue, Describing
  <2>2. Missing /\ applied = 0
    BY <1>1, <1>2 DEF ReadingInv, Witnessed, Reached, Describing, Described
  <2>. QED BY <1>1, <2>1, <2>2, EndKeeps DEF Justified
<1>3. CASE ~ (Describing /\ parts[1] = Absent)
  <2>1. /\ at' = IF Len(parts) < Len(Reads) THEN "opening" ELSE "presenting"
        /\ UNCHANGED <<named, ddl, barred, borne, document, exported, version, request,
                       deadline, sample, parts, opened, applied, cause, code>>
    BY <1>3 DEF Continue, Describing, catalogue, given
  <2>2. Reads' = Reads /\ Len(parts) \in Nat /\ Len(Reads) \in Nat
    BY <1>1, <2>1, HowManyReads DEF Reads, ReadingInv, Shaped
  <2>3. request.kind = "statement" => at' = "presenting"
    <3>1. request.kind = "statement" => Len(Reads) = 1
      BY HowManyReads
    <3>2. Len(Reads) = 1 => ~ (Len(parts) < Len(Reads))
      BY <1>1, <2>2
    <3>. QED BY <2>1, <3>1, <3>2
  <2>4. Reached'
    BY <1>1, <2>1, <2>2, <2>3 DEF ReadingInv, Reached, Describing
  <2>5. Witnessed'
    BY <1>1, <1>3, <2>1 DEF ReadingInv, Witnessed, Describing, Missing
  <2>6. Shaped' /\ Quiet' /\ at' # "ended"
    BY <2>1 DEF ReadingInv, Shaped, Quiet, Describing
  <2>. QED BY <2>4, <2>5, <2>6 DEF ReadingInv, Concluded
<1>. QED BY <1>2, <1>3

LEMMA PresentKeeps == ASSUME ReadingInv, Present PROVE ReadingInv'
<1>1. at = "presenting" /\ Len(parts) = Len(Reads) /\ parts # <<>>
  BY HowManyReads DEF ReadingInv, Reached, Shaped, Present
<1>2. applied = IF request.kind = "statement" THEN 1 ELSE 0
  BY <1>1 DEF ReadingInv, Reached
<1>3. Describing => parts[1] # Absent
  BY <1>1 DEF ReadingInv, Witnessed
<1>4. PICK exit \in {0, 1} : Ends("nothing", exit) /\ (exit = 0 => IndexIsBuilt)
  BY CommandCodes DEF Present
<1>5. Justified("nothing", exit)
  BY <1>1, <1>2, <1>3, <1>4 DEF Justified, IndexIsBuilt
<1>. QED BY <1>1, <1>4, <1>5, EndKeeps

-----------------------------------------------------------------------------
(* The reads.                                                               *)

LEMMA OpenKeeps == ASSUME ReadingInv, ConnectionOpens PROVE ReadingInv'
<1>1. /\ at = "opening" /\ at' = "executing"
      /\ UNCHANGED <<named, ddl, barred, borne, document, exported, version, request,
                     deadline, sample, parts, applied, cause, code>>
  BY DEF ConnectionOpens, catalogue, given
<1>2. Reads' = Reads
  BY <1>1 DEF Reads
<1>. QED BY <1>1, <1>2
     DEF ReadingInv, Shaped, Reached, Witnessed, Quiet, Concluded, Describing, Missing

\* Every read but the first is of whatever has the kind that was asked for.
LEMMA LaterReads ==
  ASSUME Describing, parts # <<>>, parts \in Seq([of : Seen, known : BOOLEAN] \cup {Absent}),
         Len(parts) < Len(Reads)
  PROVE  request.kind \in KindsRead
BY DEF Describing, KindsRead, Described

LEMMA FirstRead ==
  ASSUME Describing, parts = <<>> PROVE KindsRead = {request.kind}
BY DEF Describing, KindsRead, Described, Read, Reads

LEMMA ExecuteKeeps == ASSUME ReadingInv, Executes PROVE ReadingInv'
<1>1. /\ at = "executing" /\ at' = "waiting"
      /\ sample' = IF named[Asking] # Absent /\ named[Asking].kind \in KindsRead
                   THEN named[Asking] ELSE Absent
      /\ borne' = IF Describing THEN borne \cup {named[Asking]} ELSE borne
      /\ applied' = applied + (IF request.kind = "statement" THEN 1 ELSE 0)
      /\ UNCHANGED <<named, ddl, document, exported, version, request, deadline, parts,
                     opened, cause, code>>
  BY DEF Executes, given, Describing
<1>2. Reads' = Reads /\ Describing' = Describing
  BY <1>1 DEF Reads, Describing
<1>3. named[Asking] \in Seen \cup {Absent}
  BY AskingAssumption DEF ReadingInv, Shaped
<1>4. Shaped'
  BY <1>1, <1>3 DEF ReadingInv, Shaped
<1>5. Reached'
  BY <1>1, <1>2 DEF ReadingInv, Reached
<1>6. Witnessed'
  <2> SUFFICES ASSUME Describing PROVE Witnessed'
    BY <1>2 DEF Witnessed
  <2>1. borne \subseteq borne' /\ named[Asking] \in borne' /\ (Missing => Missing')
    BY <1>1 DEF Missing
  <2>2. parts = <<>> =>
          IF sample' = Absent THEN Missing' ELSE sample'.kind = request.kind
    BY <1>1, <2>1, FirstRead DEF Missing
  <2>3. \A n \in DOMAIN parts : parts[n] # Absent =>
          \E r \in borne' : r # Absent /\ r.oid = parts[n].of.oid
    BY <2>1 DEF ReadingInv, Witnessed
  <2>4. parts # <<>> => parts[1] # Absent /\ parts[1].of.kind = request.kind
    BY <1>1 DEF ReadingInv, Witnessed
  <2>5. sample' # Absent => sample' \in borne'
    BY <1>1, <2>1
  <2>. QED BY <1>1, <2>2, <2>3, <2>4, <2>5 DEF Witnessed
<1>7. Quiet'
  <2> SUFFICES ASSUME Describing, NEW r \in borne', borne' = {r}
               PROVE  /\ sample' = r \/ (parts = <<>> /\ sample' = Absent)
                      /\ \A n \in DOMAIN parts :
                           parts[n] = [of |-> r, known |-> TRUE] \/ parts[1] = Absent
    BY <1>1, <1>2 DEF Quiet
  <2>1. named[Asking] = r /\ borne \subseteq {r}
    BY <1>1
  <2>2. CASE parts = <<>>
    BY <1>1, <2>1, <2>2
  <2>3. CASE parts # <<>>
    <3>1. borne = {r} /\ parts[1] # Absent /\ parts[1].of.kind = request.kind
      BY <1>1, <2>1, <2>3 DEF ReadingInv, Reached, Witnessed
    <3>2. \A n \in DOMAIN parts : parts[n] = [of |-> r, known |-> TRUE]
      BY <3>1 DEF ReadingInv, Quiet
    <3>3. 1 \in DOMAIN parts
      BY <2>3 DEF ReadingInv, Shaped
    <3>4. r # Absent /\ r.kind = request.kind
      BY <3>1, <3>2, <3>3 DEF ReadingInv, Witnessed
    <3>5. request.kind \in KindsRead
      BY <1>1, <2>3, LaterReads DEF ReadingInv, Reached, Shaped
    <3>. QED BY <1>1, <2>1, <3>2, <3>4, <3>5
  <2>. QED BY <2>2, <2>3
<1>. QED BY <1>1, <1>4, <1>5, <1>6, <1>7 DEF ReadingInv, Concluded

LEMMA AnswerKeeps == ASSUME ReadingInv, ServerAnswers PROVE ReadingInv'
<1> DEFINE part == IF sample = Absent THEN Absent
                   ELSE [of |-> sample,
                         known |-> \E l \in Labels :
                           named[l] # Absent /\ named[l].oid = sample.oid]
<1>1. /\ at = "waiting" /\ at' = "answering" /\ parts' = Append(parts, part)
      /\ UNCHANGED <<named, ddl, barred, borne, document, exported, version, request,
                     deadline, sample, opened, applied, cause, code>>
  BY DEF ServerAnswers, catalogue, given
<1>2. Reads' = Reads /\ Describing' = Describing /\ Missing' = Missing
  BY <1>1 DEF Reads, Describing, Missing
<1>3. part \in [of : Seen, known : BOOLEAN] \cup {Absent}
  BY DEF ReadingInv, Shaped
<1>4. /\ sample = Absent => part = Absent
      /\ part # Absent => sample # Absent /\ part.of = sample
  OBVIOUS
<1>13. sample # Absent => part # Absent
  <2> SUFFICES ASSUME sample # Absent PROVE part # Absent
    OBVIOUS
  <2>1. sample \in Seen /\ part \in [of : Seen, known : BOOLEAN]
    BY DEF ReadingInv, Shaped
  <2> HIDE DEF part
  <2>. QED BY <2>1, AbsentAssumption DEF Seen
<1>5. (\E l \in Labels : named[l] # Absent /\ named[l].oid = sample.oid)
        /\ sample # Absent => part = [of |-> sample, known |-> TRUE]
  OBVIOUS
<1> HIDE DEF part
<1>6. parts \in Seq([of : Seen, known : BOOLEAN] \cup {Absent}) /\ Len(parts) \in Nat
  BY DEF ReadingInv, Shaped
<1>7. /\ parts' \in Seq([of : Seen, known : BOOLEAN] \cup {Absent})
      /\ Len(parts') = Len(parts) + 1 /\ parts' # <<>>
      /\ DOMAIN parts' = 1 .. Len(parts) + 1 /\ DOMAIN parts = 1 .. Len(parts)
      /\ \A n \in 1 .. Len(parts) : parts'[n] = parts[n]
      /\ parts'[Len(parts) + 1] = part
  BY <1>1, <1>3, <1>6
<1>8. parts = <<>> <=> Len(parts) = 0
  BY <1>6
<1>9. Shaped'
  BY <1>1, <1>7 DEF ReadingInv, Shaped
<1>10. Reached'
  BY <1>1, <1>2, <1>6, <1>7, HowManyReads DEF ReadingInv, Reached
<1>11. Witnessed'
  <2> SUFFICES ASSUME Describing PROVE Witnessed'
    BY <1>2 DEF Witnessed
  <2>1. part # Absent => \E r \in borne : r # Absent /\ r.oid = part.of.oid
    BY <1>1, <1>4 DEF ReadingInv, Witnessed
  <2>2. \A n \in 1 .. Len(parts) : parts[n] # Absent =>
          \E r \in borne : r # Absent /\ r.oid = parts[n].of.oid
    BY <1>7 DEF ReadingInv, Witnessed
  <2>3. \A n \in DOMAIN parts' : parts'[n] # Absent =>
          \E r \in borne' : r # Absent /\ r.oid = parts'[n].of.oid
    BY <1>1, <1>6, <1>7, <2>1, <2>2
  <2>4. IF parts'[1] = Absent THEN Missing' ELSE parts'[1].of.kind = request.kind
    <3>1. CASE parts = <<>>
      <4>1. parts'[1] = part
        BY <1>7, <1>8, <3>1
      <4>2. IF sample = Absent THEN Missing ELSE sample.kind = request.kind
        BY <1>1, <3>1 DEF ReadingInv, Witnessed
      <4>3. CASE sample = Absent
        BY <1>2, <1>4, <4>1, <4>2, <4>3
      <4>4. CASE sample # Absent
        <5>1. sample \in borne /\ sample.kind = request.kind
          BY <1>1, <4>2, <4>4 DEF ReadingInv, Witnessed
        <5>. QED BY <1>2, <1>4, <1>13, <4>1, <4>4, <5>1
      <4>. QED BY <4>3, <4>4
    <3>2. CASE parts # <<>>
      <4>1. parts'[1] = parts[1]
        BY <1>6, <1>7, <1>8, <3>2
      <4>. QED BY <1>1, <1>2, <3>2, <4>1 DEF ReadingInv, Witnessed
    <3>. QED BY <3>1, <3>2
  <2>. QED BY <1>1, <1>7, <2>3, <2>4 DEF Witnessed
<1>12. Quiet'
  <2> SUFFICES ASSUME Describing, NEW r \in borne, borne = {r}, NEW n \in DOMAIN parts'
               PROVE  parts'[n] = [of |-> r, known |-> TRUE] \/ parts'[1] = Absent
    BY <1>1, <1>2 DEF Quiet
  <2>1. named[Asking] = r
    BY <1>1 DEF ReadingInv, Reached
  <2>2. (sample = r \/ (parts = <<>> /\ sample = Absent))
    BY <1>1 DEF ReadingInv, Quiet
  <2>3. CASE parts = <<>>
    <3>1. parts'[1] = part /\ n = 1
      BY <1>7, <1>8, <2>3
    <3>2. CASE sample = Absent
      BY <1>4, <3>1, <3>2
    <3>3. CASE sample # Absent
      BY <1>5, <2>1, <2>2, <3>1, <3>3, AskingAssumption
    <3>. QED BY <3>2, <3>3
  <2>4. CASE parts # <<>>
    <3>1. /\ parts[1] # Absent /\ sample = r
          /\ 1 \in DOMAIN parts
      BY <1>1, <1>6, <1>8, <2>2, <2>4 DEF ReadingInv, Witnessed
    <3>2. r # Absent
      BY <3>1 DEF ReadingInv, Witnessed
    <3>3. part = [of |-> r, known |-> TRUE]
      BY <1>5, <2>1, <3>1, <3>2, AskingAssumption
    <3>4. \A k \in DOMAIN parts : parts[k] = [of |-> r, known |-> TRUE]
      BY <3>1 DEF ReadingInv, Quiet
    <3>. QED BY <1>6, <1>7, <3>3, <3>4
  <2>. QED BY <2>3, <2>4
<1>. QED BY <1>1, <1>9, <1>10, <1>11, <1>12 DEF ReadingInv, Concluded

-----------------------------------------------------------------------------
(* Everybody else.                                                          *)

LEMMA ChangesKeep ==
  ASSUME ReadingInv, NEW now \in [Labels -> Seen \cup {Absent}], Changes(now)
  PROVE  ReadingInv'
<1>1. /\ at # "ended" /\ borne # {} /\ ddl' = ddl + 1 /\ named' = now
      /\ borne' = borne \cup {named'[Asking]}
      /\ UNCHANGED <<document, exported, version, request, at, deadline, sample, parts,
                     opened, applied, cause, code>>
  BY DEF Changes, Looking, given, progress
<1>2. Reads' = Reads /\ Describing' = Describing /\ (Missing => Missing')
  BY <1>1 DEF Reads, Describing, Missing
<1>3. Shaped'
  BY <1>1 DEF ReadingInv, Shaped
<1>4. Reached'
  BY <1>1, <1>2 DEF ReadingInv, Reached
<1>5. Witnessed'
  BY <1>1, <1>2 DEF ReadingInv, Witnessed
<1>6. \A r \in borne' : borne' = {r} => borne = {r} /\ r \in borne
  BY <1>1
<1>7. Quiet'
  BY <1>1, <1>2, <1>6 DEF ReadingInv, Quiet
<1>. QED BY <1>1, <1>3, <1>4, <1>5, <1>7 DEF ReadingInv, Concluded

LEMMA OthersKeep == ASSUME ReadingInv, OthersChange PROVE ReadingInv'
<1>1. named \in [Labels -> Seen \cup {Absent}] /\ ddl \in Nat
  BY DEF ReadingInv, Shaped
<1>2. ASSUME NEW l \in Labels, OthersDropIt(l) PROVE ReadingInv'
  BY <1>1, <1>2, ChangesKeep DEF OthersDropIt
<1>3. ASSUME NEW l \in Labels, NEW kind \in Described, OthersCreateIt(l, kind)
      PROVE  ReadingInv'
  <2>1. [oid |-> ddl + 3, kind |-> kind, version |-> 0] \in Seen
    BY <1>1 DEF Seen
  <2>. QED BY <1>1, <1>3, <2>1, ChangesKeep DEF OthersCreateIt
<1>4. ASSUME NEW l \in Labels, OthersAlterIt(l) PROVE ReadingInv'
  <2>1. named[l] \in Seen
    BY <1>1, <1>4 DEF OthersAlterIt
  <2>2. [named[l] EXCEPT !.version = @ + 1] \in Seen
    BY <2>1 DEF Seen
  <2>3. [named EXCEPT ![l].version = @ + 1] \in [Labels -> Seen \cup {Absent}]
    BY <1>1, <2>2
  <2>. QED BY <1>4, <2>3, ChangesKeep DEF OthersAlterIt
<1>5. ASSUME NEW l \in Labels, NEW m \in Labels, OthersRename(l, m) PROVE ReadingInv'
  <2>1. [named EXCEPT ![l] = named[m], ![m] = named[l]] \in [Labels -> Seen \cup {Absent}]
    BY <1>1
  <2>. QED BY <1>5, <2>1, ChangesKeep DEF OthersRename
<1>6. CASE OthersBar
  BY <1>6 DEF OthersBar, given, progress, ReadingInv, Shaped, Reached, Witnessed, Quiet,
              Concluded, Complete, Answered, Describing, Missing, Reads,
              ExitCodeTellsTheCause, Namesake, StatementIsSentOnce
<1>. QED BY <1>2, <1>3, <1>4, <1>5, <1>6 DEF OthersChange

LEMMA StepReading == ReadingInv /\ [InspectionNext]_inspectionVars => ReadingInv'
<1>1. CASE UNCHANGED inspectionVars
  BY <1>1 DEF inspectionVars, given, catalogue, progress, ReadingInv, Shaped, Reached,
              Witnessed, Quiet, Concluded, Complete, Answered, Describing, Missing, Reads,
              ExitCodeTellsTheCause, Namesake, StatementIsSentOnce
<1>. QED BY <1>1, ArgumentsKeep, FailuresKeep, ContinueKeeps, PresentKeeps, OpenKeeps,
            ExecuteKeeps, AnswerKeeps, OthersKeep
         DEF InspectionNext, CommandSteps, Remote

LEMMA Reading == InspectionSpec => []ReadingInv
BY InitReading, StepReading, PTL DEF InspectionSpec

(***************************************************************************)
(* The exit code tells what happened, whatever file, request and server    *)
(* there is: the order of the tests in exit_code_for_error and the except  *)
(* clauses of the commands keep the causes apart.                          *)
(***************************************************************************)
THEOREM ExitCodeTells == InspectionSpec => []ExitCodeTellsTheCause
<1>1. ReadingInv => ExitCodeTellsTheCause
  BY DEF ReadingInv, Concluded, ExitCodeTellsTheCause
<1>. QED BY <1>1, Reading, PTL

(***************************************************************************)
(* A statement is carried out once at most, it was carried out when the    *)
(* command reports success, and it was not when the command ends with a    *)
(* code of its own (PostgreSQLExecutor.execute opens one connection).      *)
(***************************************************************************)
THEOREM SentOnce == InspectionSpec => []StatementIsSentOnce
<1>1. ReadingInv => StatementIsSentOnce
  BY DEF ReadingInv, Reached, Concluded, StatementIsSentOnce, Answered
<1>. QED BY <1>1, Reading, PTL

(***************************************************************************)
(* However others create, drop, alter and rename between the reads of one  *)
(* describe command, each part it prints is of a relation that bore the    *)
(* name meanwhile, the summary of one of the right kind.                   *)
(***************************************************************************)
THEOREM DescriptionWitnessed == InspectionSpec => []DescriptionIsWitnessed
<1>1. ReadingInv => DescriptionIsWitnessed
  BY DEF ReadingInv, Witnessed, Concluded, Complete, Describing, Answered,
         DescriptionIsWitnessed
<1>. QED BY <1>1, Reading, PTL

(***************************************************************************)
(* A describe command during which its name denoted one relation and that  *)
(* relation did not change prints a whole description of it, whatever      *)
(* happened to the other names.                                            *)
(***************************************************************************)
THEOREM QuietWhole == InspectionSpec => []QuietDescriptionIsWhole
<1>1. ReadingInv => QuietDescriptionIsWhole
  BY DEF ReadingInv, Quiet, Concluded, Complete, Describing, Answered,
         QuietDescriptionIsWhole
<1>. QED BY <1>1, Reading, PTL

-----------------------------------------------------------------------------
(***************************************************************************)
(* The types of a command.  A relation is never older in the catalog than  *)
(* the changes others have made, and a connection is opened for each part  *)
(* that has been read and for the one that is being read: that bounds the  *)
(* connections by the reads.                                               *)
(***************************************************************************)
Bounded ==
  /\ parts \in Seq(Part \cup {Absent})
  /\ \A l \in Labels : named[l] # Absent =>
       named[l].oid <= ddl + 2 /\ named[l].version <= ddl
  /\ at # "ended" =>
       opened = Len(parts) + (IF at \in {"executing", "waiting"} THEN 1 ELSE 0)

CommandTyped == ReadingInv /\ InspectionTypeOK /\ Bounded

LEMMA InitCommand == InspectionInit => InspectionTypeOK /\ Bounded
<1> SUFFICES ASSUME InspectionInit PROVE InspectionTypeOK /\ Bounded
  OBVIOUS
<1>1. PICK kind \in Described, there \in SUBSET Labels :
        named = [l \in Labels |->
          IF l \notin there THEN Absent
          ELSE [oid |-> IF l = Asking THEN 1 ELSE 2, kind |-> kind, version |-> 0]]
  BY DEF InspectionInit
<1>2. \A n \in {1, 2} : [oid |-> n, kind |-> kind, version |-> 0] \in CatalogRelation
  BY MaxDdlAssumption DEF CatalogRelation
<1>3. named \in [Labels -> CatalogRelation \cup {Absent}]
  BY <1>1, <1>2
<1>4. \A l \in Labels : named[l] # Absent => named[l].oid <= 2 /\ named[l].version <= 0
  BY <1>1
<1>5. InspectionTypeOK
  <2>1. /\ document \in Documents /\ exported \in BOOLEAN /\ version \in Versions
        /\ request \in Requests /\ ddl = 0 /\ barred = FALSE
        /\ at = "arguments" /\ deadline = 0 /\ sample = Absent /\ parts = <<>>
        /\ opened = 0 /\ applied = 0 /\ cause = "nothing" /\ code = Absent /\ borne = {}
    BY DEF InspectionInit
  <2>2. 0 \in 0 .. MaxDdl
    BY MaxDdlAssumption
  <2>3. (\A n \in DOMAIN parts : parts[n] \in Part \cup {Absent}) /\ Len(parts) <= opened
    BY <2>1
  <2>4. opened \in Nat /\ opened <= 3 /\ applied \in 0 .. 3 /\ deadline \in Int
    BY <2>1
  <2>5. /\ sample \in CatalogRelation \cup {Absent} /\ code \in {Absent} \cup 0 .. 9
        /\ borne \subseteq CatalogRelation \cup {Absent} /\ barred \in BOOLEAN
        /\ cause \in Cause /\ ddl \in 0 .. MaxDdl
    BY <2>1, <2>2 DEF Cause
  <2>. QED BY <1>3, <2>1, <2>3, <2>4, <2>5, Zenon DEF InspectionTypeOK
<1>6. Bounded
  BY <1>4 DEF InspectionInit, Bounded
<1>. QED BY <1>5, <1>6

LEMMA EndTyped ==
  ASSUME CommandTyped, NEW why \in Cause, NEW exit \in 0 .. 9, Ends(why, exit)
  PROVE  InspectionTypeOK' /\ Bounded'
BY DEF CommandTyped, InspectionTypeOK, Bounded, Ends, catalogue, given

\* The deadline is a number, the default or that of the profile.
LEMMA ResolveTyped ==
  ASSUME CommandTyped, ParseArguments \/ Resolve PROVE InspectionTypeOK' /\ Bounded'
<1>1. CodeOf(ResolutionError) \in 0 .. 9 \/ ResolutionError = "none"
  BY CommandCodes
<1>2. CodeOf("CapabilityNotAvailableError") \in 0 .. 9
  BY CommandCodes
<1>3. CASE \E why \in {"usage", "configuration"}, exit \in 0 .. 9 : Ends(why, exit)
  BY <1>3, EndTyped DEF Cause
<1>4. CASE /\ ParseArguments /\ at = "arguments" /\ at' = "resolving"
           /\ UNCHANGED <<catalogue, given, deadline, sample, parts, opened, applied,
                          cause, code>>
  BY <1>4 DEF CommandTyped, InspectionTypeOK, Bounded, catalogue, given
<1>5. CASE /\ ResolutionError = "none" /\ at = "resolving" /\ at' = "opening"
           /\ deadline' = ConnectSeconds(document.profiles["chosen"])
           /\ UNCHANGED <<catalogue, given, sample, parts, opened, applied, cause, code>>
  <2>1. "chosen" \in DOMAIN document.profiles
    BY <1>5 DEF ResolutionError
  <2>2. document.profiles["chosen"] \in Entry
    BY <2>1, DocumentsAssumption DEF CommandTyped, InspectionTypeOK
  <2>3. deadline' \in Int
    BY <1>5, <2>2 DEF ConnectSeconds, Entry
  <2>. QED BY <1>5, <2>3 DEF CommandTyped, InspectionTypeOK, Bounded, catalogue, given
<1>. QED BY <1>1, <1>2, <1>3, <1>4, <1>5 DEF ParseArguments, Resolve

LEMMA FailuresTyped ==
  ASSUME CommandTyped,
         \/ ConnectionIsRefused \/ ConnectionFailsOutright \/ ConnectTimesOut
         \/ ExecutionIsDenied \/ ExecutionBreaks
  PROVE  InspectionTypeOK' /\ Bounded'
<1>1. \E why \in {"refused", "unreachable", "silent", "denied", "broken"},
         exit \in 0 .. 9 : Ends(why, exit)
  BY CommandCodes
     DEF ConnectionIsRefused, ConnectionFailsOutright, ConnectTimesOut,
         ExecutionIsDenied, ExecutionBreaks
<1>. QED BY <1>1, EndTyped DEF Cause

\* The end of a read, and of the command.
LEMMA ContinueTyped ==
  ASSUME CommandTyped, Continue \/ Present PROVE InspectionTypeOK' /\ Bounded'
<1>1. CASE \E exit \in 0 .. 9 : Ends("nothing", exit)
  BY <1>1, EndTyped DEF Cause
<1>2. CASE /\ at = "answering" /\ at' \in {"opening", "presenting"}
           /\ UNCHANGED <<catalogue, given, deadline, sample, parts, opened, applied,
                          cause, code>>
  BY <1>2 DEF CommandTyped, InspectionTypeOK, Bounded, catalogue, given
<1>. QED BY <1>1, <1>2, CommandCodes DEF Continue, Present

LEMMA OpenTyped ==
  ASSUME CommandTyped, ConnectionOpens PROVE InspectionTypeOK' /\ Bounded'
<1>1. /\ at = "opening" /\ at' = "executing" /\ opened' = opened + 1
      /\ UNCHANGED <<catalogue, given, deadline, sample, parts, applied, cause, code>>
  BY DEF ConnectionOpens
<1>2. Len(parts) < Len(Reads) /\ Len(Reads) <= 3 /\ Len(Reads) \in Nat
  <2>1. Len(parts) < Len(Reads)
    BY <1>1 DEF CommandTyped, ReadingInv, Reached
  <2>2. Len(Reads) \in 1 .. 3
    BY HowManyReads
  <2>3. \A n \in 1 .. 3 : n <= 3 /\ n \in Nat
    OBVIOUS
  <2>. QED BY <2>1, <2>2, <2>3, Zenon
<1>3. opened = Len(parts) /\ Len(parts) \in Nat
  BY <1>1 DEF CommandTyped, Bounded
<1>. QED BY <1>1, <1>2, <1>3
     DEF CommandTyped, InspectionTypeOK, Bounded, catalogue, given

LEMMA ExecuteTyped ==
  ASSUME CommandTyped, Executes PROVE InspectionTypeOK' /\ Bounded'
<1>1. /\ at = "executing" /\ at' = "waiting"
      /\ sample' \in {named[Asking], Absent}
      /\ borne' \in {borne, borne \cup {named[Asking]}}
      /\ applied' \in {applied, applied + 1}
      /\ UNCHANGED <<named, ddl, barred, given, deadline, parts, opened, cause, code>>
  BY DEF Executes, CommandTyped, InspectionTypeOK
<1>2. named[Asking] \in CatalogRelation \cup {Absent}
  BY AskingAssumption DEF CommandTyped, InspectionTypeOK
<1>3. applied = 0
  BY <1>1 DEF CommandTyped, ReadingInv, Reached
<1>. QED BY <1>1, <1>2, <1>3 DEF CommandTyped, InspectionTypeOK, Bounded, given

LEMMA AnswerTyped ==
  ASSUME CommandTyped, ServerAnswers PROVE InspectionTypeOK' /\ Bounded'
<1>1. PICK part \in Part \cup {Absent} :
        /\ at = "waiting" /\ at' = "answering" /\ parts' = Append(parts, part)
        /\ UNCHANGED <<catalogue, given, deadline, sample, opened, applied, cause, code>>
  BY DEF ServerAnswers, CommandTyped, InspectionTypeOK, Part
<1>2. parts \in Seq(Part \cup {Absent}) /\ opened = Len(parts) + 1
  BY <1>1 DEF CommandTyped, Bounded
<1>3. /\ parts' \in Seq(Part \cup {Absent}) /\ Len(parts') = Len(parts) + 1
      /\ \A n \in DOMAIN parts' : parts'[n] \in Part \cup {Absent}
  BY <1>1, <1>2
<1>. QED BY <1>1, <1>2, <1>3
     DEF CommandTyped, InspectionTypeOK, Bounded, catalogue, given

LEMMA ChangesTyped ==
  ASSUME CommandTyped, NEW now \in [Labels -> CatalogRelation \cup {Absent}], Changes(now),
         \A l \in Labels : now[l] # Absent =>
           now[l].oid <= ddl + 3 /\ now[l].version <= ddl + 1
  PROVE  InspectionTypeOK' /\ Bounded'
<1>1. /\ ddl < MaxDdl /\ ddl' = ddl + 1 /\ named' = now
      /\ borne' = borne \cup {now[Asking]}
      /\ UNCHANGED <<barred, given, progress>>
  BY DEF Changes
<1>2. ddl \in 0 .. MaxDdl /\ now[Asking] \in CatalogRelation \cup {Absent}
  BY AskingAssumption DEF CommandTyped, InspectionTypeOK
<1>3. ddl' \in 0 .. MaxDdl
  BY <1>1, <1>2, MaxDdlAssumption
<1>4. \A l \in Labels : named'[l] # Absent =>
        named'[l].oid <= ddl' + 2 /\ named'[l].version <= ddl'
  BY <1>1, <1>2
<1>. QED BY <1>1, <1>2, <1>3, <1>4
     DEF CommandTyped, InspectionTypeOK, Bounded, given, progress

LEMMA OthersTyped ==
  ASSUME CommandTyped, OthersChange PROVE InspectionTypeOK' /\ Bounded'
<1>1. /\ named \in [Labels -> CatalogRelation \cup {Absent}] /\ ddl \in 0 .. MaxDdl
      /\ \A l \in Labels : named[l] # Absent =>
           /\ named[l].oid <= ddl + 2 /\ named[l].version <= ddl
           /\ named[l].oid \in Nat /\ named[l].version \in Nat
  BY DEF CommandTyped, InspectionTypeOK, Bounded, CatalogRelation
<1>2. \A l \in Labels : named[l] # Absent =>
        named[l].oid <= ddl + 3 /\ named[l].version <= ddl + 1
  BY <1>1
<1>3. ASSUME NEW l \in Labels, OthersDropIt(l) PROVE InspectionTypeOK' /\ Bounded'
  BY <1>1, <1>2, <1>3, ChangesTyped DEF OthersDropIt
<1>4. ASSUME NEW l \in Labels, NEW kind \in Described, OthersCreateIt(l, kind)
      PROVE  InspectionTypeOK' /\ Bounded'
  <2> DEFINE it == [oid |-> ddl + 3, kind |-> kind, version |-> 0]
             now == [named EXCEPT ![l] = it]
  <2>1. ddl < MaxDdl /\ Changes(now)
    BY <1>4 DEF OthersCreateIt, Changes
  <2>2. it \in CatalogRelation /\ it.oid = ddl + 3 /\ it.version = 0
    BY <1>1, <2>1, MaxDdlAssumption DEF CatalogRelation
  <2> HIDE DEF it
  <2>3. /\ now \in [Labels -> CatalogRelation \cup {Absent}]
        /\ \A m \in Labels : now[m] # Absent =>
             now[m].oid <= ddl + 3 /\ now[m].version <= ddl + 1
    BY <1>1, <1>2, <2>2
  <2>. QED BY <2>1, <2>3, ChangesTyped
<1>5. ASSUME NEW l \in Labels, OthersAlterIt(l) PROVE InspectionTypeOK' /\ Bounded'
  <2> DEFINE it == [named[l] EXCEPT !.version = @ + 1]
             now == [named EXCEPT ![l].version = @ + 1]
  <2>1. ddl < MaxDdl /\ Changes(now) /\ named[l] \in CatalogRelation
    BY <1>1, <1>5 DEF OthersAlterIt, Changes
  <2>2. /\ it \in CatalogRelation /\ it.oid = named[l].oid
        /\ it.version = named[l].version + 1
    <3>1. named[l].version + 1 \in 0 .. MaxDdl
      BY <1>1, <2>1, MaxDdlAssumption, AbsentAssumption, <1>5
         DEF CatalogRelation, OthersAlterIt
    <3>. QED BY <2>1, <3>1 DEF CatalogRelation
  <2>3. now = [named EXCEPT ![l] = it]
    OBVIOUS
  <2> HIDE DEF it, now
  <2>4. /\ now \in [Labels -> CatalogRelation \cup {Absent}]
        /\ \A m \in Labels : now[m] # Absent =>
             now[m].oid <= ddl + 3 /\ now[m].version <= ddl + 1
    BY <1>1, <1>2, <1>5, <2>2, <2>3 DEF OthersAlterIt
  <2>. QED BY <2>1, <2>4, ChangesTyped
<1>6. ASSUME NEW l \in Labels, NEW m \in Labels, OthersRename(l, m)
      PROVE  InspectionTypeOK' /\ Bounded'
  <2> DEFINE now == [named EXCEPT ![l] = named[m], ![m] = named[l]]
  <2>1. /\ now \in [Labels -> CatalogRelation \cup {Absent}]
        /\ \A k \in Labels : now[k] \in {named[k], named[l], named[m]}
    BY <1>1
  <2>2. \A k \in Labels : now[k] # Absent =>
          now[k].oid <= ddl + 3 /\ now[k].version <= ddl + 1
    BY <1>2, <2>1
  <2>3. Changes(now)
    BY <1>6 DEF OthersRename
  <2> HIDE DEF now
  <2>. QED BY <2>1, <2>2, <2>3, ChangesTyped
<1>7. CASE OthersBar
  BY <1>7 DEF OthersBar, given, progress, CommandTyped, InspectionTypeOK, Bounded
<1>. QED BY <1>3, <1>4, <1>5, <1>6, <1>7 DEF OthersChange

(***************************************************************************)
(* The types of a command: three connections at the most, one for every    *)
(* part, and an exit code from 0 to 9.                                     *)
(***************************************************************************)
THEOREM InspectionTyped == InspectionSpec => []InspectionTypeOK
<1>1. InspectionInit => CommandTyped
  BY InitReading, InitCommand DEF CommandTyped
<1>2. CommandTyped /\ [InspectionNext]_inspectionVars => CommandTyped'
  <2> SUFFICES ASSUME CommandTyped, [InspectionNext]_inspectionVars PROVE CommandTyped'
    OBVIOUS
  <2>1. ReadingInv'
    BY StepReading DEF CommandTyped
  <2>2. CASE UNCHANGED inspectionVars
    BY <2>1, <2>2
       DEF inspectionVars, given, catalogue, progress, CommandTyped, InspectionTypeOK, Bounded
  <2>3. CASE InspectionNext
    BY <2>1, <2>3, ResolveTyped, FailuresTyped, ContinueTyped, OpenTyped, ExecuteTyped,
       AnswerTyped, OthersTyped
       DEF InspectionNext, CommandSteps, Remote, CommandTyped
  <2>. QED BY <2>2, <2>3
<1>3. CommandTyped => InspectionTypeOK
  BY DEF CommandTyped
<1>. QED BY <1>1, <1>2, <1>3, PTL DEF InspectionSpec

-----------------------------------------------------------------------------
(* The blocking chain.                                                      *)

Pid == Sessions \cup {Prepared}

\* A row of the chain: its path visits no pid twice, leads from the root to
\* the blocker, and whoever is blocked is a session.
Simple(row) ==
  /\ row.path \in Seq(Pid) /\ Len(row.path) >= 2
  /\ \A m, n \in 1 .. Len(row.path) : row.path[m] = row.path[n] => m = n
  /\ row.path[1] = row.root_pid
  /\ row.path[Len(row.path)] = row.blocking_pid
  /\ row.path[Len(row.path) - 1] = row.blocked_pid
  /\ row.blocked_pid \in Sessions

(***************************************************************************)
(* What the query keeps.  No session waits for itself, whatever becomes of *)
(* the lock table: the first row of a chain relies on it, the others are   *)
(* guarded by the path.                                                    *)
(***************************************************************************)
ChainInv ==
  /\ waits \in Graph
  /\ \A s \in Sessions : s \notin waits[s]
  /\ todo \subseteq Sessions
  /\ working \subseteq chain
  /\ \A row \in chain : Simple(row)

LEMMA InitChain == ChainInit => ChainInv
BY AskedAssumption DEF ChainInit, ChainInv, Graph

LEMMA FirstRowSimple ==
  ASSUME ChainInv, NEW root \in Sessions, NEW b \in waits[root]
  PROVE  Simple(Row(root, root, b, <<root, b>>))
<1>1. b \in Pid /\ b # root
  BY DEF ChainInv, Graph, Pid
<1>2. <<root, b>> \in Seq(Pid) /\ Len(<<root, b>>) = 2
  BY <1>1 DEF Pid
<1>. QED BY <1>1, <1>2 DEF Simple, Row

LEMMA NextRowSimple ==
  ASSUME ChainInv, NEW row \in chain, NEW b \in Blockers(row.blocking_pid),
         ~OnPath(b, row.path)
  PROVE  Simple(Row(row.root_pid, row.blocking_pid, b, Append(row.path, b)))
<1> DEFINE path == row.path
           next == Append(path, b)
<1>1. row.blocking_pid \in Sessions /\ b \in Pid
  BY DEF Blockers, ChainInv, Graph, Pid
<1>2. Simple(row)
  BY DEF ChainInv
<1>3. path \in Seq(Pid) /\ Len(path) \in Nat /\ Len(path) >= 2
  BY <1>2 DEF Simple
<1>4. /\ next \in Seq(Pid) /\ Len(next) = Len(path) + 1
      /\ \A n \in 1 .. Len(path) : next[n] = path[n]
      /\ next[Len(path) + 1] = b
  BY <1>1, <1>3
<1>5. \A n \in 1 .. Len(path) : path[n] # b
  BY DEF OnPath
<1>6. \A m, n \in 1 .. Len(path) : path[m] = path[n] => m = n
  BY <1>2 DEF Simple
<1>7. /\ path[1] = row.root_pid /\ path[Len(path)] = row.blocking_pid
  BY <1>2 DEF Simple
<1> HIDE DEF path, next
<1>8. \A m, n \in 1 .. Len(next) : next[m] = next[n] => m = n
  BY <1>3, <1>4, <1>5, <1>6
<1>9. next[1] = row.root_pid /\ next[Len(next) - 1] = row.blocking_pid /\ next[Len(next)] = b
  BY <1>3, <1>4, <1>7
<1>10. Simple([root_pid |-> row.root_pid, blocked_pid |-> row.blocking_pid,
               blocking_pid |-> b, path |-> next])
  BY <1>1, <1>3, <1>4, <1>8, <1>9 DEF Simple
<1>. QED BY <1>10 DEF Row, path, next

LEMMA StartKeepsChain ==
  ASSUME ChainInv, NEW root \in todo, StartChain(root) PROVE ChainInv'
<1>1. root \in Sessions
  BY DEF ChainInv
<1>. QED BY <1>1, FirstRowSimple DEF ChainInv, StartChain

LEMMA ExtendKeepsChain ==
  ASSUME ChainInv, NEW row \in working, ExtendChain(row) PROVE ChainInv'
<1>1. row \in chain
  BY DEF ChainInv
<1>. QED BY <1>1, NextRowSimple DEF ChainInv, ExtendChain

LEMMA ChangeKeepsChain ==
  ASSUME ChainInv, LockTableChanges PROVE ChainInv'
BY DEF ChainInv, LockTableChanges, Graph

LEMMA StepChain == ChainInv /\ [ChainNext]_chainVars => ChainInv'
<1>1. CASE UNCHANGED chainVars
  BY <1>1 DEF chainVars, ChainInv
<1>. QED BY <1>1, StartKeepsChain, ExtendKeepsChain, ChangeKeepsChain
     DEF ChainNext, Unfold

(***************************************************************************)
(* However the lock table changes while the chain is followed, no path     *)
(* visits a pid twice and every row continues a chain from its root.       *)
(***************************************************************************)
THEOREM ChainsSimple == ChainSpec => []ChainsAreSimple
<1>1. ChainInv => ChainsAreSimple
  BY DEF ChainInv, Simple, ChainsAreSimple
<1>. QED BY <1>1, InitChain, StepChain, PTL DEF ChainSpec

\* A way through pids, none of them twice, is not longer than there are pids.
ChainsAreShort == \A row \in chain : Len(row.path) <= Cardinality(Sessions) + 1

(***************************************************************************)
(* Where there are finitely many sessions no chain goes on for ever, not   *)
(* even on a lock table that changes under the query: its path holds every *)
(* session and the one pid of the prepared transactions once at the most,  *)
(* which is what the guard on the path in LIST_BLOCKING is for.            *)
(***************************************************************************)
THEOREM ChainsShort ==
  IsFiniteSet(Sessions) => (ChainSpec => []ChainsAreShort)
<1> SUFFICES ASSUME IsFiniteSet(Sessions) PROVE ChainSpec => []ChainsAreShort
  OBVIOUS
<1>1. IsFiniteSet(Pid) /\ Cardinality(Pid) <= Cardinality(Sessions) + 1
  <2>1. /\ IsFiniteSet(Pid)
        /\ Cardinality(Pid) = IF Prepared \in Sessions THEN Cardinality(Sessions)
                              ELSE Cardinality(Sessions) + 1
    BY FS_AddElement, Zenon DEF Pid
  <2>2. Cardinality(Sessions) \in Nat
    BY FS_CardinalityType
  <2>. QED BY <2>1, <2>2
<1>2. ASSUME NEW row, Simple(row) PROVE Len(row.path) <= Cardinality(Sessions) + 1
  <2>1. row.path \in Seq(Pid) /\ Len(row.path) \in Nat
    BY <1>2 DEF Simple
  <2>2. row.path \in Injection(1 .. Len(row.path), Pid)
    <3>1. row.path \in [1 .. Len(row.path) -> Pid]
      BY <2>1
    <3>2. \A m, n \in 1 .. Len(row.path) : row.path[m] = row.path[n] => m = n
      BY <1>2 DEF Simple
    <3>. QED BY <3>1, <3>2 DEF Injection, IsInjective
  <2>3. Cardinality(1 .. Len(row.path)) <= Cardinality(Pid)
    BY <1>1, <2>2, FS_Injection
  <2>4. Cardinality(1 .. Len(row.path)) = Len(row.path)
    BY <2>1, FS_Interval
  <2>5. Cardinality(Pid) \in Nat /\ Cardinality(Sessions) \in Nat
    BY <1>1, FS_CardinalityType
  <2>. QED BY <1>1, <2>1, <2>3, <2>4, <2>5
<1>3. ChainInv => ChainsAreShort
  BY <1>2 DEF ChainInv, ChainsAreShort
<1>. QED BY <1>3, InitChain, StepChain, PTL DEF ChainSpec

-----------------------------------------------------------------------------
(* The blocking chain on a lock table that stays still.                     *)

ShownFor(root) == {row.blocking_pid : row \in {r \in chain : r.root_pid = root}}

(***************************************************************************)
(* As long as the lock table has not changed: every row is an edge of the  *)
(* graph on a way from a root that was asked for, and what is shown for a  *)
(* root grows to a closed set - the root's own blockers are shown once its *)
(* chain is started, a blocker's blockers once its row is extended, since  *)
(* those the path bars from a second visit are the root or shown already.  *)
(***************************************************************************)
StillInv ==
  /\ changes \in Nat
  /\ todo \subseteq roots /\ roots \subseteq Sessions
  /\ changes = 0 =>
       /\ \A row \in chain :
            /\ row.root_pid \in roots
            /\ row.blocking_pid \in waits[row.blocked_pid]
            /\ row.blocking_pid \in Reachable(row.root_pid)
            /\ \A n \in 2 .. Len(row.path) : row.path[n] \in ShownFor(row.root_pid)
       /\ \A root \in roots \ todo : waits[root] \subseteq ShownFor(root)
       /\ \A row \in chain \ working :
            Blockers(row.blocking_pid) \subseteq ShownFor(row.root_pid) \cup {row.root_pid}

LEMMA InitStill == ChainInit => StillInv
BY AskedAssumption DEF ChainInit, StillInv

\* What a session waits for is reachable, and so are a reachable pid's blockers.
LEMMA ReachableGrows ==
  ASSUME waits \in Graph, NEW root \in Sessions
  PROVE  /\ waits[root] \subseteq Reachable(root)
         /\ \A p \in Reachable(root) : Blockers(p) \subseteq Reachable(root)
BY DEF Graph, Reachable, Closed, Blockers

\* Nothing is reachable outside a closed set that holds the root's blockers.
LEMMA ReachableIsLeast ==
  ASSUME NEW root \in Sessions, NEW pids \in SUBSET Pid,
         waits[root] \subseteq pids, Closed(pids)
  PROVE  Reachable(root) \subseteq pids
BY DEF Reachable, Pid

LEMMA SameReachable ==
  ASSUME UNCHANGED waits
  PROVE  \A root : Reachable(root)' = Reachable(root)
BY DEF Reachable, Closed, Blockers

LEMMA StartKeepsStill ==
  ASSUME ChainInv, StillInv, NEW root \in todo, StartChain(root) PROVE StillInv'
<1> DEFINE rows == {Row(root, root, b, <<root, b>>) : b \in waits[root]}
<1>1. /\ root \in Sessions /\ root \in roots
      /\ todo' = todo \ {root}
      /\ chain' = chain \cup rows /\ working' = working \cup rows
      /\ UNCHANGED <<waits, changes, roots>>
  BY DEF StartChain, ChainInv, StillInv
<1>2. \A r : Reachable(r)' = Reachable(r)
  BY <1>1, SameReachable
<1>3. \A r : ShownFor(r) \subseteq ShownFor(r)'
  BY <1>1 DEF ShownFor
<1>4. \A row \in rows :
        /\ row.root_pid = root /\ row.blocked_pid = root
        /\ row.blocking_pid \in waits[root]
        /\ Len(row.path) = 2 /\ row.path[2] = row.blocking_pid
  BY DEF Row
<1>5. waits[root] \subseteq ShownFor(root)'
  <2>1. ASSUME NEW b \in waits[root] PROVE b \in ShownFor(root)'
    <3>1. Row(root, root, b, <<root, b>>) \in chain'
      BY <1>1
    <3>. QED BY <3>1 DEF ShownFor, Row
  <2>. QED BY <2>1
<1> HIDE DEF rows
<1>6. waits[root] \subseteq Reachable(root)
  BY <1>1, ReachableGrows DEF ChainInv
<1>7. /\ changes' \in Nat /\ todo' \subseteq roots' /\ roots' \subseteq Sessions
  BY <1>1 DEF StillInv
<1>8. ASSUME changes' = 0, NEW row \in chain'
      PROVE  /\ row.root_pid \in roots'
             /\ row.blocking_pid \in waits'[row.blocked_pid]
             /\ row.blocking_pid \in Reachable(row.root_pid)'
             /\ \A n \in 2 .. Len(row.path) : row.path[n] \in ShownFor(row.root_pid)'
  <2>1. CASE row \in chain
    <3>1. /\ row.root_pid \in roots
          /\ row.blocking_pid \in waits[row.blocked_pid]
          /\ row.blocking_pid \in Reachable(row.root_pid)
          /\ \A n \in 2 .. Len(row.path) : row.path[n] \in ShownFor(row.root_pid)
      BY <1>1, <1>8, <2>1 DEF StillInv
    <3>. QED BY <1>1, <1>2, <1>3, <3>1
  <2>2. CASE row \in rows
    <3>1. \A n \in 2 .. 2 : n = 2
      OBVIOUS
    <3>. QED BY <1>1, <1>2, <1>4, <1>5, <1>6, <2>2, <3>1
  <2>. QED BY <1>1, <2>1, <2>2
<1>9. ASSUME changes' = 0, NEW r \in roots' \ todo' PROVE waits'[r] \subseteq ShownFor(r)'
  BY <1>1, <1>3, <1>5, <1>9 DEF StillInv
<1>10. ASSUME changes' = 0, NEW row \in chain' \ working'
       PROVE  Blockers(row.blocking_pid)' \subseteq ShownFor(row.root_pid)' \cup {row.root_pid}
  <2>1. row \in chain \ working
    BY <1>1
  <2>. QED BY <1>1, <1>3, <1>10, <2>1 DEF StillInv, Blockers
<1>. QED BY <1>7, <1>8, <1>9, <1>10 DEF StillInv

LEMMA ExtendKeepsStill ==
  ASSUME ChainInv, StillInv, NEW row \in working, ExtendChain(row) PROVE StillInv'
<1> DEFINE fresh == {p \in Blockers(row.blocking_pid) : ~OnPath(p, row.path)}
           next == {Row(row.root_pid, row.blocking_pid, b, Append(row.path, b)) :
                      b \in fresh}
<1>1. /\ todo = {} /\ row \in chain
      /\ working' = (working \ {row}) \cup (next \ chain)
      /\ chain' = chain \cup next
      /\ UNCHANGED <<waits, changes, roots, todo>>
  BY DEF ExtendChain, ChainInv
<1>2. \A r : Reachable(r)' = Reachable(r)
  BY <1>1, SameReachable
<1>3. \A r : ShownFor(r) \subseteq ShownFor(r)'
  BY <1>1 DEF ShownFor
<1>4. Simple(row)
  BY <1>1 DEF ChainInv
<1>5. ASSUME NEW new \in next
      PROVE  /\ new.root_pid = row.root_pid /\ new.blocked_pid = row.blocking_pid
             /\ new.blocking_pid \in Blockers(row.blocking_pid)
             /\ new.path = Append(row.path, new.blocking_pid)
  BY DEF Row
<1>6. fresh \subseteq ShownFor(row.root_pid)'
  <2>1. ASSUME NEW b \in fresh PROVE b \in ShownFor(row.root_pid)'
    <3>1. Row(row.root_pid, row.blocking_pid, b, Append(row.path, b)) \in chain'
      BY <1>1
    <3>. QED BY <3>1 DEF ShownFor, Row
  <2>. QED BY <2>1
<1>7. Blockers(row.blocking_pid) \subseteq fresh \cup {row.path[n] : n \in 1 .. Len(row.path)}
  BY DEF OnPath
<1> HIDE DEF fresh, next
<1>8. /\ changes' \in Nat /\ todo' \subseteq roots' /\ roots' \subseteq Sessions
  BY <1>1 DEF StillInv
<1>9. ASSUME changes' = 0, NEW other \in chain'
      PROVE  /\ other.root_pid \in roots'
             /\ other.blocking_pid \in waits'[other.blocked_pid]
             /\ other.blocking_pid \in Reachable(other.root_pid)'
             /\ \A n \in 2 .. Len(other.path) : other.path[n] \in ShownFor(other.root_pid)'
  <2>1. CASE other \in chain
    <3>1. /\ other.root_pid \in roots
          /\ other.blocking_pid \in waits[other.blocked_pid]
          /\ other.blocking_pid \in Reachable(other.root_pid)
          /\ \A n \in 2 .. Len(other.path) : other.path[n] \in ShownFor(other.root_pid)
      BY <1>1, <1>9, <2>1 DEF StillInv
    <3>. QED BY <1>1, <1>2, <1>3, <3>1
  <2>2. CASE other \in next
    <3>1. row.root_pid \in roots /\ row.root_pid \in Sessions
      BY <1>1, <1>9 DEF StillInv
    <3>2. other.blocking_pid \in waits[row.blocking_pid]
      BY <1>5, <2>2 DEF Blockers
    <3>3. other.blocking_pid \in Reachable(row.root_pid)
      <4>1. row.blocking_pid \in Reachable(row.root_pid)
        BY <1>1, <1>9 DEF StillInv
      <4>. QED BY <1>5, <2>2, <3>1, <4>1, ReachableGrows DEF ChainInv
    <3>4. ASSUME NEW n \in 2 .. Len(other.path)
          PROVE  other.path[n] \in ShownFor(other.root_pid)'
      <4>1. /\ row.path \in Seq(Pid) /\ Len(row.path) \in Nat
            /\ other.blocking_pid \in Pid
        <5>1. row.path \in Seq(Pid)
          BY <1>4 DEF Simple
        <5>2. other.blocking_pid \in Blockers(row.blocking_pid)
          BY <1>5, <2>2
        <5>3. Blockers(row.blocking_pid) \subseteq Pid
          BY DEF ChainInv, Graph, Pid, Blockers
        <5>. QED BY <5>1, <5>2, <5>3
      <4>2. /\ Len(other.path) = Len(row.path) + 1
            /\ n <= Len(row.path) => other.path[n] = row.path[n]
            /\ n = Len(row.path) + 1 => other.path[n] = other.blocking_pid
        BY <1>5, <2>2, <4>1
      <4>3. CASE n <= Len(row.path)
        <5>1. row.path[n] \in ShownFor(row.root_pid)
          BY <1>1, <1>9, <4>1, <4>3 DEF StillInv
        <5>. QED BY <1>3, <1>5, <2>2, <4>2, <4>3, <5>1
      <4>4. CASE n = Len(row.path) + 1
        BY <1>1, <2>2, <4>2, <4>4 DEF ShownFor
      <4>. QED BY <4>1, <4>2, <4>3, <4>4
    <3>. QED BY <1>1, <1>2, <1>5, <2>2, <3>1, <3>2, <3>3, <3>4
  <2>. QED BY <1>1, <2>1, <2>2
<1>10. ASSUME changes' = 0, NEW r \in roots' \ todo' PROVE waits'[r] \subseteq ShownFor(r)'
  BY <1>1, <1>3, <1>10 DEF StillInv
<1>11. ASSUME changes' = 0, NEW other \in chain' \ working'
       PROVE  Blockers(other.blocking_pid)' \subseteq
                ShownFor(other.root_pid)' \cup {other.root_pid}
  <2>1. Blockers(other.blocking_pid)' = Blockers(other.blocking_pid)
    BY <1>1 DEF Blockers
  <2>2. CASE other = row
    <3>1. ASSUME NEW n \in 1 .. Len(row.path)
          PROVE  row.path[n] \in ShownFor(row.root_pid)' \cup {row.root_pid}
      <4>1. CASE n = 1
        BY <1>4, <4>1 DEF Simple
      <4>2. CASE n # 1
        <5>1. n \in 2 .. Len(row.path)
          BY <4>2
        <5>. QED BY <1>1, <1>3, <1>11, <5>1 DEF StillInv
      <4>. QED BY <4>1, <4>2
    <3>. QED BY <1>6, <1>7, <2>1, <2>2, <3>1
  <2>3. CASE other # row
    <3>1. other \in chain \ working
      BY <1>1, <2>3
    <3>. QED BY <1>1, <1>3, <1>11, <2>1, <3>1 DEF StillInv
  <2>. QED BY <2>2, <2>3
<1>. QED BY <1>8, <1>9, <1>10, <1>11 DEF StillInv

LEMMA ChangeKeepsStill ==
  ASSUME StillInv, LockTableChanges PROVE StillInv'
BY DEF StillInv, LockTableChanges

LEMMA StepStill == ChainInv /\ StillInv /\ [ChainNext]_chainVars => StillInv'
<1>1. CASE UNCHANGED chainVars
  BY <1>1, SameReachable DEF chainVars, StillInv, ShownFor, Blockers
<1>. QED BY <1>1, StartKeepsStill, ExtendKeepsStill, ChangeKeepsStill
     DEF ChainNext, Unfold

\* Once no root is to be started and no row extended, what is shown is closed.
LEMMA DoneIsExact ==
  ASSUME ChainInv, StillInv, ChainDone, changes = 0, NEW root \in roots
  PROVE  ShownFor(root) = Reachable(root) \ {root}
<1>1. root \in Sessions /\ waits[root] \subseteq ShownFor(root)
  BY DEF StillInv, ChainDone
<1>2. ShownFor(root) \subseteq Reachable(root) \ {root}
  <2>1. ASSUME NEW row \in chain, row.root_pid = root
        PROVE  row.blocking_pid \in Reachable(root) /\ row.blocking_pid # root
    <3>1. Simple(row)
      BY DEF ChainInv
    <3>2. Len(row.path) \in Nat /\ Len(row.path) >= 2
      BY <3>1 DEF Simple
    <3>3. row.path[Len(row.path)] # row.path[1]
      BY <3>1, <3>2 DEF Simple
    <3>. QED BY <2>1, <3>1, <3>3 DEF Simple, StillInv
  <2>. QED BY <2>1 DEF ShownFor
<1>3. Reachable(root) \subseteq ShownFor(root) \cup {root}
  <2> DEFINE pids == ShownFor(root) \cup {root}
  <2>1. pids \in SUBSET Pid
    BY <1>1, <1>2 DEF Reachable, Pid
  <2>2. ASSUME NEW p \in pids PROVE Blockers(p) \subseteq pids
    <3>1. CASE p = root
      BY <1>1, <3>1 DEF Blockers
    <3>2. CASE p # root
      <4>1. PICK row \in chain : row.root_pid = root /\ row.blocking_pid = p
        BY <2>2, <3>2 DEF ShownFor
      <4>. QED BY <4>1 DEF StillInv, ChainDone
    <3>. QED BY <3>1, <3>2
  <2>3. Closed(pids) /\ waits[root] \subseteq pids
    BY <1>1, <2>2 DEF Closed
  <2> HIDE DEF pids
  <2>4. Reachable(root) \subseteq pids
    BY <1>1, <2>1, <2>3, ReachableIsLeast
  <2>. QED BY <2>4 DEF pids
<1>. QED BY <1>2, <1>3

(***************************************************************************)
(* On a lock table that stays still the listing is exact, for any number   *)
(* of sessions, any waits-for graph and any filter: each session asked for *)
(* is shown with everybody it waits for, directly or through others, and   *)
(* with nobody else (adapters/postgresql/runtime.py, LIST_BLOCKING).       *)
(***************************************************************************)
THEOREM NoneLost == ChainSpec => []NoBlockerIsLost
<1>1. ChainInv /\ StillInv => NoBlockerIsLost
  <2> SUFFICES ASSUME ChainInv, StillInv, ChainDone, changes = 0
               PROVE  /\ \A root \in roots : ShownFor(root) = Reachable(root) \ {root}
                      /\ \A row \in chain : row.blocking_pid \in waits[row.blocked_pid]
    BY DEF NoBlockerIsLost, ShownFor
  <2>. QED BY DoneIsExact DEF StillInv
<1>. QED BY <1>1, InitChain, StepChain, InitStill, StepStill, PTL DEF ChainSpec
==================================================================================
