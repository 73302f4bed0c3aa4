------------------------- MODULE GuardedMutationProofs -------------------------
(***************************************************************************)
(* What TLAPS proves of GuardedMutation, for every set of commands,        *)
(* profiles, contexts and options.                                        *)
(*                                                                         *)
(* The properties speak of the moment the target changes, and consent,      *)
(* policy and dry run are decided several steps earlier.  The inductive     *)
(* invariant therefore carries each decision from the stage that takes it   *)
(* to the stage that relies on it: Planned, Consented, Admitted, and the    *)
(* state of the audit file at every stage (OnFile).                        *)
(***************************************************************************)
EXTENDS GuardedMutation, SequenceTheorems, TLAPS

-----------------------------------------------------------------------------
(* The risk tables.                                                         *)

\* Every command of every service has one of the four risk levels.
LEMMA RiskIsKnown ==
  ASSUME NEW c \in Command
  PROVE  BaseRisk(c) \in RiskLevel
BY DEF Command, BaseRisk, SecurityRisk, RoleRisk, RuntimeRisk,
       MaintenanceRisk, BackupRisk, RestoreRisk, RiskLevel

\* Escalation stays within the levels, makes production's high risks critical,
\* and never makes a routine of what needed a yes.
LEMMA EscalationIsMonotone ==
  ASSUME NEW risk \in RiskLevel, NEW environment
  PROVE  LET escalated == EscalateForEnvironment(risk, environment)
         IN  /\ escalated \in RiskLevel
             /\ escalated >= risk
             /\ risk # LOW => escalated # LOW
             /\ environment # "production" => escalated = risk
             /\ environment = "production" /\ risk = HIGH => escalated = CRITICAL
             /\ escalated = CRITICAL =>
                  \/ risk = CRITICAL
                  \/ environment = "production" /\ risk = HIGH
BY SMT DEF EscalateForEnvironment, RiskLevel, LOW, MEDIUM, HIGH, CRITICAL

\* A typed target is required exactly of the critical risks, and nothing only
\* of the low ones.
LEMMA ConfirmationFollowsRisk ==
  ASSUME NEW risk \in RiskLevel
  PROVE  /\ ConfirmationForRisk(risk) \in ConfirmationLevel
         /\ ConfirmationForRisk(risk) = "none" <=> risk = LOW
         /\ ConfirmationForRisk(risk) = "type_target" <=> risk = CRITICAL
BY SMT DEF ConfirmationForRisk, ConfirmationLevel, RiskLevel, LOW, MEDIUM,
           HIGH, CRITICAL

\* A plan is well typed and asks for the proof its command needs.
LEMMA PlanAsksEnough ==
  ASSUME NEW c \in Command, NEW environment
  PROVE  LET p == PlanOf(c, environment)
         IN  /\ p \in Plans
             /\ p.confirmation = "type_target" <=>
                  \/ BaseRisk(c) = CRITICAL
                  \/ environment = "production" /\ BaseRisk(c) = HIGH
             /\ p.confirmation = "none" <=> BaseRisk(c) = LOW
<1> DEFINE risk == EscalateForEnvironment(BaseRisk(c), environment)
<1>1. BaseRisk(c) \in RiskLevel
  BY RiskIsKnown
<1>2. /\ risk \in RiskLevel
      /\ risk = CRITICAL <=>
           \/ BaseRisk(c) = CRITICAL
           \/ environment = "production" /\ BaseRisk(c) = HIGH
      /\ risk = LOW <=> BaseRisk(c) = LOW
  BY <1>1, SMT DEF EscalateForEnvironment, RiskLevel, LOW, MEDIUM, HIGH, CRITICAL
<1>3. /\ ConfirmationForRisk(risk) \in ConfirmationLevel
      /\ ConfirmationForRisk(risk) = "none" <=> risk = LOW
      /\ ConfirmationForRisk(risk) = "type_target" <=> risk = CRITICAL
  BY <1>2, ConfirmationFollowsRisk
<1>4. PlanOf(c, environment) =
        [risk |-> risk, confirmation |-> ConfirmationForRisk(risk)]
  BY DEF PlanOf
<1> QED
  BY <1>2, <1>3, <1>4 DEF Plans

-----------------------------------------------------------------------------
(* The inductive invariant.                                                 *)

\* The plan is the one of the command at hand.
PlanIsOwn == plan = PlanOf(command, config.environment)

\* The options say nothing that the operator did not.
Heard ==
  /\ options \in MutationOptions
  /\ options.confirmed_target = "exact" => said.target = "exact"
  /\ options.approved => said.yes \/ plan.confirmation = "none"

\* Admission: no dry run, a policy that allows, an approval that suffices.
Cleared == ~options.dry_run /\ PolicyAllows /\ Approved

Planned == pc \notin {"planning", "ended"} => PlanIsOwn

Consented ==
  pc \notin {"planning", "consenting", "ended"} => Heard

Admitted ==
  /\ pc \in {"revalidating", "starting", "acting"} => Cleared
  /\ touched => PlanIsOwn /\ Heard /\ Cleared

\* The audit file and the target at every stage.
OnFile ==
  /\ pc # "ended" => outcome = "none"
  /\ pc \notin {"acting", "recording", "ended"} => trail = << >> /\ ~touched
  /\ pc = "acting" => trail = <<"STARTED">> /\ ~touched
  /\ pc = "recording" =>
       /\ ~options.dry_run
       /\ \/ trail = << >> /\ verdict = "BLOCKED" /\ ~touched
          \/ trail = <<"STARTED">> /\ verdict = "SUCCEEDED" /\ touched
          \/ trail = <<"STARTED">> /\ verdict = "BLOCKED" /\ ~touched
          \/ trail = <<"STARTED">> /\ verdict = "FAILED"

\* A dry run asked for on the command line is a dry run for the service.
DryRunIsPassedOn ==
  pc \notin {"planning", "consenting", "ended"} =>
    (context # None /\ context.dry_run => options.dry_run)

IInv ==
  /\ TypeOK
  /\ Planned
  /\ Consented
  /\ Admitted
  /\ OnFile
  /\ DryRunIsPassedOn
  /\ DryRunIsInert
  /\ ResultsAreOnRecord

\* The lifecycles a service can write, event by event.
LEMMA Events ==
  ASSUME NEW event \in Event
  PROVE  /\ << >> \in Seq(Event)
         /\ Append(<< >>, event) = <<event>>
         /\ Append(<<"STARTED">>, event) = <<"STARTED", event>>
         /\ <<event>> \in Seq(Event)
         /\ <<"STARTED", event>> \in Seq(Event)
<1>1. "STARTED" \in Event
  BY DEF Event
<1>2. /\ <<"STARTED">> \in Seq(Event)
      /\ <<"STARTED", event>> \in Seq(Event)
      /\ Append(<<"STARTED">>, event) \in Seq(Event)
      /\ Len(Append(<<"STARTED">>, event)) = 2
  BY <1>1
<1>3. \A i \in 1 .. 2 :
        Append(<<"STARTED">>, event)[i] = <<"STARTED", event>>[i]
  BY <1>1
<1>4. Append(<<"STARTED">>, event) = <<"STARTED", event>>
  BY <1>2, <1>3, SeqEqual
<1> QED
  BY <1>2, <1>4

\* The options the command line settles on are well typed and say nothing the
\* flags did not, whatever the plan asks.
LEMMA FlagsAreHeard ==
  ASSUME command \in Command, context \in CLIContext
  PROVE  /\ ConfirmTarget \in Proof
         /\ ResolvedOptions \in MutationOptions
         /\ ResolvedOptions.confirmed_target \in {"none", ConfirmTarget}
         /\ ResolvedOptions.approved =>
              context.assume_yes \/ plan.confirmation = "none"
         /\ context.dry_run => ResolvedOptions.dry_run
<1>1. ConfirmTarget \in Proof
  BY DEF ConfirmTarget, CLIContext, Proof
<1>2. /\ context.dry_run \in BOOLEAN
      /\ context.assume_yes \in BOOLEAN
  BY DEF CLIContext
<1> QED
  BY <1>1, <1>2 DEF ResolvedOptions, DryRun, Typing, Approving,
                    MutationOptions, Proof

LEMMA InitInv == Init => IInv
<1> SUFFICES ASSUME Init
             PROVE  IInv
  OBVIOUS
<1>1. said \in Words
  BY DEF Init, Words, Proof
<1>2. TypeOK
  <2>1. trail \in Seq(Event) /\ pc \in Stage /\ outcome \in Outcome
    BY DEF Init, Stage, Outcome
  <2> QED
    BY <1>1, <2>1 DEF Init, TypeOK
<1>3. Planned /\ Consented /\ DryRunIsPassedOn
  BY DEF Init, Planned, Consented, DryRunIsPassedOn
<1>4. Admitted /\ OnFile
  BY DEF Init, Admitted, OnFile
<1>5. DryRunIsInert /\ ResultsAreOnRecord
  BY DEF Init, DryRunIsInert, ResultsAreOnRecord
<1> QED
  BY <1>2, <1>3, <1>4, <1>5 DEF IInv

LEMMA StepInv == IInv /\ [Next]_vars => IInv'
<1> SUFFICES ASSUME IInv, [Next]_vars
             PROVE  IInv'
  OBVIOUS
<1> USE DEF IInv, TypeOK, Planned, PlanIsOwn, Consented, Admitted, OnFile,
        DryRunIsPassedOn, DryRunIsInert, ResultsAreOnRecord,
        Heard, Cleared, asked, Stage, Words, Proof, Event, Outcome, End,
        PolicyAllows, SecurityAllows, BackupAllows, ProfileAllows, Approved
<1> command \in Command /\ (context # None => context \in CLIContext)
  BY CommandsAssumption, ContextsAssumption
<1>1. CASE Plan
  <2>1. plan' \in Plans
    BY <1>1, PlanAsksEnough DEF Plan
  <2> QED
    BY <1>1, <2>1 DEF Plan
<1>2. CASE PlanFails
  BY <1>2 DEF PlanFails
<1>3. CASE Resolve
  <2>1. /\ options' \in MutationOptions
        /\ said' \in Words
        /\ context.dry_run => options'.dry_run
    BY <1>3, FlagsAreHeard DEF Resolve, CLIContext
  <2>2. Heard'
    BY <1>3, <2>1, FlagsAreHeard DEF Resolve
  <2> QED
    BY <1>3, <2>1, <2>2 DEF Resolve
<1>4. CASE PromptForTarget
  <2>1. /\ options' \in MutationOptions
        /\ said' \in Words
        /\ ~context.dry_run
    BY <1>4, FlagsAreHeard DEF PromptForTarget, Typing, MustAsk, MutationOptions, CLIContext
  <2>2. Heard'
    BY <1>4, <2>1 DEF PromptForTarget, Typing
  <2> QED
    BY <1>4, <2>1, <2>2 DEF PromptForTarget
<1>5. CASE PromptForApproval
  <2>1. /\ options' \in MutationOptions
        /\ said' \in Words
        /\ ~context.dry_run
    BY <1>5, FlagsAreHeard DEF PromptForApproval, Approving, MustAsk, MutationOptions, CLIContext
  <2>2. Heard'
    BY <1>5, <2>1 DEF PromptForApproval, Approving
  <2> QED
    BY <1>5, <2>1, <2>2 DEF PromptForApproval
<1>6. CASE AbandonPrompt
  BY <1>6 DEF AbandonPrompt
<1>7. CASE CallerChooses
  <2>1. /\ options' \in MutationOptions
        /\ said' \in Words
    BY <1>7, ChoicesAssumption DEF CallerChooses, MutationOptions
  <2>2. Heard'
    BY <1>7, <2>1 DEF CallerChooses
  <2> QED
    BY <1>7, <2>1, <2>2 DEF CallerChooses
<1>8. CASE ReturnPlan
  BY <1>8 DEF ReturnPlan
<1>9. CASE Refuse
  BY <1>9 DEF Refuse
<1>10. CASE Admit
  BY <1>10 DEF Admit
<1>11. CASE Revalidate
  BY <1>11 DEF Revalidate
<1>12. CASE RevalidateFails
  BY <1>12 DEF RevalidateFails
<1>13. CASE Start
  <2>1. trail' = <<"STARTED">> /\ trail' \in Seq(Event)
    BY <1>13, Events DEF Start
  <2>2. ~(context # None /\ context.dry_run) /\ ~options.dry_run
    BY <1>13 DEF Start
  <2> QED
    BY <1>13, <2>1, <2>2 DEF Start
<1>14. CASE StartUnrecorded
  BY <1>14 DEF StartUnrecorded
<1>15. CASE Act
  BY <1>15 DEF Act
<1>16. CASE ActFails
  BY <1>16 DEF ActFails
<1>17. CASE ActDenied
  BY <1>17 DEF ActDenied
<1>18. CASE Record
  <2>1. /\ verdict \in Event
        /\ \/ trail' = <<"BLOCKED">> /\ verdict = "BLOCKED" /\ ~touched
           \/ trail' = <<"STARTED", "SUCCEEDED">> /\ verdict = "SUCCEEDED" /\ touched
           \/ trail' = <<"STARTED", "BLOCKED">> /\ verdict = "BLOCKED" /\ ~touched
           \/ trail' = <<"STARTED", "FAILED">> /\ verdict = "FAILED"
        /\ trail' \in Seq(Event)
    BY <1>18, Events DEF Record
  <2> QED
    BY <1>18, <2>1 DEF Record, OutcomeOf
<1>19. CASE RecordFails
  BY <1>19 DEF RecordFails
<1>20. CASE Crash
  BY <1>20 DEF Crash
<1>21. CASE UNCHANGED vars
  BY <1>21 DEF vars
<1> QED
  BY <1>1, <1>2, <1>3, <1>4, <1>5, <1>6, <1>7, <1>8, <1>9, <1>10, <1>11, <1>12, <1>13, <1>14, <1>15, <1>16, <1>17, <1>18, <1>19, <1>20, <1>21
     DEF Next, Step, Planning, Consenting, Admitting, Executing, Reporting

LEMMA Invariance == Spec => []IInv
BY InitInv, StepInv, PTL DEF Spec

-----------------------------------------------------------------------------
(* The theorems.                                                            *)

\* Every variable keeps its type, for every set of commands and profiles.
THEOREM TypeCorrect == Spec => []TypeOK
<1>1. IInv => TypeOK
  BY DEF IInv
<1> QED
  BY <1>1, Invariance, PTL

\* A critical operation changes its target only after its exact name was
\* typed, and --yes is never enough for it (cli/safety.py, _enforce_approval).
THEOREM ConsentHolds == Spec => []ConsentIsGenuine
<1>1. ASSUME IInv
      PROVE  ConsentIsGenuine
  <2> SUFFICES ASSUME touched
               PROVE  /\ IsCritical => said.target = "exact"
                      /\ NeedsYes => said.yes
    BY DEF ConsentIsGenuine
  <2>1. PlanIsOwn /\ Heard /\ Cleared
    BY <1>1 DEF IInv, Admitted
  <2>2. command \in Command
    BY <1>1, CommandsAssumption DEF IInv, TypeOK
  <2>3. /\ plan.confirmation = "type_target" <=> IsCritical
        /\ plan.confirmation = "none" <=> BaseRisk(command) = LOW
    BY <2>1, <2>2, PlanAsksEnough DEF PlanIsOwn, IsCritical
  <2>4. CASE IsCritical
    <3>1. options.confirmed_target = "exact"
      BY <2>1, <2>3, <2>4 DEF Cleared, Approved
    <3> QED
      BY <2>1, <2>4, <3>1 DEF Heard, NeedsYes
  <2>5. CASE NeedsYes
    <3>1. /\ plan.confirmation # "type_target"
          /\ plan.confirmation # "none"
      BY <2>3, <2>5 DEF NeedsYes
    <3>2. options.approved
      BY <2>1, <3>1 DEF Cleared, Approved
    <3> QED
      BY <2>1, <2>5, <3>1, <3>2 DEF Heard, NeedsYes
  <2> QED
    BY <2>4, <2>5
<1> QED
  BY <1>1, Invariance, PTL

\* No dry run changes anything or writes an event.
THEOREM DryRunHolds == Spec => []DryRunIsInert
<1>1. IInv => DryRunIsInert
  BY DEF IInv
<1> QED
  BY <1>1, Invariance, PTL

\* Read-only profiles, unclassified environments and protected roles fail
\* closed in every service (_enforce_policy).
THEOREM PolicyHolds == Spec => []PolicyIsRespected
<1>1. ASSUME IInv
      PROVE  PolicyIsRespected
  <2>1. touched => PolicyAllows
    BY <1>1 DEF IInv, Admitted, Cleared
  <2>2. command \in Command
    BY <1>1, CommandsAssumption DEF IInv, TypeOK
  <2>3. /\ command.service \in {"security", "runtime", "maintenance", "backup",
                                "restore"}
        /\ command.grade = "force" => command.service = "backup"
        /\ command.operation \in {"role.create", "role.alter", "role.drop"} =>
             command.service = "security"
    BY <2>2 DEF Command, SecurityCommand, RuntimeCommand, MaintenanceCommand,
                BackupCommand, RestoreCommand, Asked
  <2> QED
    BY <2>1, <2>3 DEF PolicyIsRespected, PolicyAllows, SecurityAllows,
                      BackupAllows, ProfileAllows
<1> QED
  BY <1>1, Invariance, PTL

\* What the caller is told is on record.
THEOREM ResultsHold == Spec => []ResultsAreOnRecord
<1>1. IInv => ResultsAreOnRecord
  BY DEF IInv
<1> QED
  BY <1>1, Invariance, PTL

-----------------------------------------------------------------------------
(* Refinement of the shared audit lifecycle.                                *)

\* Every step of a service is a step of the lifecycle or leaves it alone.
LEMMA TrailStep ==
  IInv /\ IInv' /\ [Next]_vars => [Trail!Next]_(Trail!vars)
<1> SUFFICES ASSUME IInv, IInv', [Next]_vars
             PROVE  [Trail!Next]_(Trail!vars)
  OBVIOUS
<1>1. CASE UNCHANGED <<trail, touched>>
  BY <1>1 DEF Trail!vars
<1>2. CASE Start
  <2>1. trail = << >>
    BY <1>2 DEF IInv, OnFile, Start
  <2>2. trail' = <<"STARTED">>
    BY <1>2, <2>1, Events DEF Start, Event
  <2> QED
    BY <1>2, <2>1, <2>2 DEF Start, Trail!Next, Trail!Open
<1>3. CASE Act \/ ActFails \/ (Crash /\ pc = "acting")
  <2>1. trail = <<"STARTED">> /\ ~touched
    BY <1>3 DEF IInv, OnFile, Act, ActFails
  <2>2. touched' \in BOOLEAN /\ UNCHANGED trail
    BY <1>3 DEF Act, ActFails, Crash
  <2>3. CASE touched'
    BY <2>1, <2>2, <2>3 DEF Trail!Next, Trail!Apply
  <2>4. CASE ~touched'
    BY <2>1, <2>2, <2>4 DEF Trail!vars, IInv, TypeOK
  <2> QED
    BY <2>3, <2>4
<1>4. CASE Record
  <2>1. /\ trail' = Append(trail, verdict)
        /\ UNCHANGED touched
        /\ verdict \in Event
    BY <1>4 DEF Record, IInv, OnFile, Event
  <2>2. CASE trail = << >>
    <3>1. verdict = "BLOCKED"
      BY <1>4, <2>2 DEF Record, IInv, OnFile
    <3>2. trail' = <<"BLOCKED">>
      BY <2>1, <2>2, <3>1, Events
    <3> QED
      BY <2>1, <2>2, <3>2 DEF Trail!Next, Trail!Refuse
  <2>3. CASE trail = <<"STARTED">>
    <3>1. /\ verdict \in Trail!Closed
          /\ verdict = "SUCCEEDED" => touched
          /\ verdict = "BLOCKED" => ~touched
      BY <1>4, <2>3 DEF Record, IInv, OnFile, Trail!Closed
    <3> QED
      BY <2>1, <2>3, <3>1 DEF Trail!Next, Trail!Close
  <2> QED
    BY <1>4, <2>2, <2>3 DEF Record, IInv, OnFile
<1>5. CASE Crash /\ pc # "acting"
  BY <1>5 DEF Crash, Trail!vars
<1>6. CASE ActDenied \/ StartUnrecorded \/ RecordFails
  BY <1>6 DEF ActDenied, StartUnrecorded, RecordFails, Trail!vars
<1>7. CASE Planning
  BY <1>7 DEF Planning, Plan, PlanFails, Trail!vars
<1>8. CASE Consenting
  BY <1>8 DEF Consenting, Resolve, PromptForTarget, PromptForApproval,
              AbandonPrompt, CallerChooses, Trail!vars
<1>9. CASE Admitting
  BY <1>9 DEF Admitting, ReturnPlan, Refuse, Admit, Revalidate,
              RevalidateFails, Trail!vars
<1> QED
  BY <1>1, <1>2, <1>3, <1>4, <1>5, <1>6, <1>7, <1>8, <1>9
     DEF Next, Step, Executing, Reporting, vars

\* Every service implements the audit lifecycle of AuditTrail: no effect
\* without an event that announced it, one closing event, and no closing event
\* that claims more or less than happened (_execute of the five services).
THEOREM TrailImplemented == Spec => ImplementsTrail
<1>1. Init => Trail!Init
  BY DEF Init, Trail!Init
<1> QED
  BY <1>1, TrailStep, Invariance, PTL DEF Spec, Trail!Spec, ImplementsTrail
===============================================================================
