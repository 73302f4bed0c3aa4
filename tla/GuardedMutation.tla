--------------------------- MODULE GuardedMutation ---------------------------
(***************************************************************************)
(* One administrative mutation, from the command line or the Python API to *)
(* its last audit event: plan, consent, policy, approval, the STARTED       *)
(* event, the adapter's action and the event that closes the lifecycle.     *)
(* The five services (security, runtime, maintenance, backup, restore)      *)
(* share this pipeline and differ in their risk tables, their policies,     *)
(* their preflights and what their adapter may answer.                     *)
(*                                                                         *)
(* An invocation keeps no state that another one reads: the audit file is   *)
(* opened for append and an event is one write, so the events of one        *)
(* correlation id are the whole of what it shares.  One invocation is       *)
(* therefore enough; the constants range over everything it may be asked.   *)
(***************************************************************************)
EXTENDS Naturals, Sequences

LOW == 10
MEDIUM == 20
HIGH == 30
CRITICAL == 40
RiskLevel == {LOW, MEDIUM, HIGH, CRITICAL}

EnvironmentName ==
  {"development", "testing", "staging", "production", "unknown"}

ConfirmationLevel == {"none", "simple", "explicit", "type_target"}

-----------------------------------------------------------------------------
(* Commands.  "grade" is what the risk tables look at, "subject" what the   *)
(* protected-role policy looks at.                                          *)

Asked(service, operations, grades, subjects) ==
  [service : {service}, operation : operations, grade : grades,
   subject : subjects]

\* The role named is an ordinary one, a built-in one (pg_...) or the one in
\* use; a membership names two, and one of them is looked at.
RoleSubject == {"ordinary", "builtin", "self"}

SecurityCommand ==
  Asked("security", {"role.create", "role.alter"},
        {"plain", "elevated", "superuser"}, RoleSubject)
  \cup Asked("security", {"role.drop"}, {"plain"}, RoleSubject)
  \cup Asked("security", {"membership.add", "access.grant"},
             {"plain", "delegating"}, RoleSubject)
  \cup Asked("security", {"membership.remove", "access.revoke"}, {"plain"},
             RoleSubject)

RuntimeCommand ==
  Asked("runtime", {"query.cancel", "session.terminate"}, {"plain"},
        {"ordinary"})

MaintenanceCommand ==
  Asked("maintenance", {"vacuum"}, {"plain", "full"}, {"ordinary"})
  \cup Asked("maintenance", {"analyze", "reindex"}, {"plain"}, {"ordinary"})

BackupCommand ==
  Asked("backup", {"backup.create"}, {"plain", "force"}, {"ordinary"})

RestoreCommand ==
  Asked("restore", {"backup.restore"}, {"plain"}, {"ordinary"})

Command ==
  SecurityCommand \cup RuntimeCommand \cup MaintenanceCommand
  \cup BackupCommand \cup RestoreCommand

\* A target proof as the plan sees it: the exact string, another one, none.
Proof == {"exact", "other", "none"}

MutationOptions ==
  [dry_run : BOOLEAN, approved : BOOLEAN, confirmed_target : Proof]

\* The root options of the command line and the subcommand's --confirm-target.
CLIContext ==
  [dry_run : BOOLEAN, assume_yes : BOOLEAN, non_interactive : BOOLEAN,
   confirm_target : Proof]

ResolvedConnectionConfig ==
  [environment : EnvironmentName, read_only : BOOLEAN]

CONSTANTS
  Commands,   \* the commands an invocation may carry
  Configs,    \* the resolved connection profiles it may run under
  Contexts,   \* the command-line contexts it may be given
  Choices,    \* the MutationOptions a Python caller may pass
  None        \* no plan yet, no options yet

ASSUME CommandsAssumption == Commands \subseteq Command
ASSUME ConfigsAssumption == Configs \subseteq ResolvedConnectionConfig
ASSUME ContextsAssumption == Contexts \subseteq CLIContext
ASSUME ChoicesAssumption == Choices \subseteq MutationOptions

-----------------------------------------------------------------------------
VARIABLES
  command,    \* what is asked
  config,     \* the profile it is asked under
  context,    \* the command-line context, or None for a Python caller
  pc,         \* how far the invocation is
  plan,       \* risk and confirmation of the OperationPlan
  options,    \* the MutationOptions handed to the service
  said,       \* what the operator themself expressed: yes, and a typed target
  verdict,    \* the lifecycle event the invocation is about to record
  trail,      \* the events of its correlation id in the audit file
  touched,    \* whether the target is changed, or the server still will
  outcome     \* how the invocation ended for its caller

asked == <<command, config, context>>
vars == <<asked, pc, plan, options, said, verdict, trail, touched, outcome>>

Stage ==
  {"planning", "consenting", "admitting", "revalidating", "starting",
   "acting", "recording", "ended"}

Event == {"BLOCKED", "STARTED", "FAILED", "SUCCEEDED"}

Outcome ==
  {"none", "planned", "succeeded", "refused", "failed", "rejected",
   "unrecorded", "abandoned", "crashed"}

Init ==
  /\ command \in Commands
  /\ config \in Configs
  /\ context \in Contexts \cup {None}
  /\ pc = "planning"
  /\ plan = None
  /\ options = None
  /\ said = [yes |-> FALSE, target |-> "none"]
  /\ verdict = "none"
  /\ trail = << >>
  /\ touched = FALSE
  /\ outcome = "none"

End(result) == pc' = "ended" /\ outcome' = result

-----------------------------------------------------------------------------
(* Planning.                                                                *)

RoleRisk(grade) ==
  CASE grade = "superuser" -> CRITICAL
    [] grade = "elevated" -> HIGH
    [] OTHER -> MEDIUM

SecurityRisk(c) ==
  CASE c.operation \in {"role.create", "role.alter"} -> RoleRisk(c.grade)
    [] c.operation \in {"role.drop", "access.revoke"} -> HIGH
    [] c.grade = "delegating" -> HIGH
    [] OTHER -> MEDIUM

RuntimeRisk(c) == IF c.operation = "session.terminate" THEN HIGH ELSE MEDIUM

MaintenanceRisk(c) ==
  IF c.operation = "reindex" \/ c.grade = "full" THEN HIGH ELSE MEDIUM

BackupRisk(c) == IF c.grade = "force" THEN MEDIUM ELSE LOW

RestoreRisk(c) == HIGH

BaseRisk(c) ==
  CASE c.service = "security" -> SecurityRisk(c)
    [] c.service = "runtime" -> RuntimeRisk(c)
    [] c.service = "maintenance" -> MaintenanceRisk(c)
    [] c.service = "backup" -> BackupRisk(c)
    [] OTHER -> RestoreRisk(c)

EscalateForEnvironment(risk, environment) ==
  IF environment # "production" THEN risk
  ELSE IF risk = MEDIUM THEN HIGH
  ELSE IF risk = HIGH THEN CRITICAL
  ELSE risk

ConfirmationForRisk(risk) ==
  IF risk = LOW THEN "none"
  ELSE IF risk = MEDIUM THEN "simple"
  ELSE IF risk = HIGH THEN "explicit"
  ELSE "type_target"

PlanOf(c, environment) ==
  LET risk == EscalateForEnvironment(BaseRisk(c), environment)
  IN  [risk |-> risk, confirmation |-> ConfirmationForRisk(risk)]

Plan ==
  /\ pc = "planning"
  /\ plan' = PlanOf(command, config.environment)
  /\ pc' = "consenting"
  /\ UNCHANGED <<asked, options, said, verdict, trail, touched, outcome>>

\* Maintenance looks its target up while planning, and restore loads and
\* validates the archive and its target: either may refuse to plan.
PlanFails ==
  /\ pc = "planning"
  /\ command.service \in {"maintenance", "restore"}
  /\ End("rejected")
  /\ UNCHANGED <<asked, plan, options, said, verdict, trail, touched>>

-----------------------------------------------------------------------------
(* Consent: cli/safety.py, and the options of a Python caller.              *)

Approving(yes) == [dry_run |-> FALSE, approved |-> yes,
                   confirmed_target |-> "none"]

Typing(proof) == [dry_run |-> FALSE, approved |-> FALSE,
                  confirmed_target |-> proof]

DryRun == [dry_run |-> TRUE, approved |-> FALSE, confirmed_target |-> "none"]

\* --confirm-target of the subcommand; backup create has no such option.
ConfirmTarget ==
  IF command.service = "backup" THEN "none" ELSE context.confirm_target

\* mutant of ResolvedOptions: --yes also answers the typed-target prompt
YesTypesTheTarget ==
  IF context.dry_run THEN DryRun
  ELSE IF plan.confirmation = "type_target"
  THEN Typing(IF context.assume_yes THEN "exact" ELSE ConfirmTarget)
  ELSE Approving(plan.confirmation = "none" \/ context.assume_yes)

\* The options mutation_options returns without asking anything.
ResolvedOptions ==
  IF context.dry_run THEN DryRun
  ELSE IF plan.confirmation = "type_target" THEN Typing(ConfirmTarget)
  ELSE Approving(plan.confirmation = "none" \/ context.assume_yes)

\* It asks when a proof is missing and the session is interactive.
MustAsk ==
  /\ ~context.dry_run
  /\ ~context.non_interactive
  /\ \/ plan.confirmation = "type_target" /\ ConfirmTarget = "none"
     \/ plan.confirmation \in {"simple", "explicit"} /\ ~context.assume_yes

Resolve ==
  /\ pc = "consenting"
  /\ context # None
  /\ ~MustAsk
  /\ options' = ResolvedOptions
  /\ said' = [yes |-> context.assume_yes, target |-> ConfirmTarget]
  /\ pc' = "admitting"
  /\ UNCHANGED <<asked, plan, verdict, trail, touched, outcome>>

PromptForTarget ==
  /\ pc = "consenting"
  /\ context # None
  /\ MustAsk
  /\ plan.confirmation = "type_target"
  /\ \E answer \in {"exact", "other"} :
       /\ options' = Typing(answer)
       /\ said' = [yes |-> context.assume_yes, target |-> answer]
  /\ pc' = "admitting"
  /\ UNCHANGED <<asked, plan, verdict, trail, touched, outcome>>

PromptForApproval ==
  /\ pc = "consenting"
  /\ context # None
  /\ MustAsk
  /\ plan.confirmation # "type_target"
  /\ \E answer \in BOOLEAN :
       /\ options' = Approving(answer)
       /\ said' = [yes |-> answer, target |-> ConfirmTarget]
  /\ pc' = "admitting"
  /\ UNCHANGED <<asked, plan, verdict, trail, touched, outcome>>

\* The prompt is interrupted, or standard input ends.
AbandonPrompt ==
  /\ pc = "consenting"
  /\ context # None
  /\ MustAsk
  /\ End("abandoned")
  /\ UNCHANGED <<asked, plan, options, said, verdict, trail, touched>>

\* A Python caller states the options itself.
CallerChooses ==
  /\ pc = "consenting"
  /\ context = None
  /\ options' \in Choices
  /\ said' = [yes |-> options'.approved, target |-> options'.confirmed_target]
  /\ pc' = "admitting"
  /\ UNCHANGED <<asked, plan, verdict, trail, touched, outcome>>

-----------------------------------------------------------------------------
(* Admission.                                                               *)

ProfileAllows == ~config.read_only /\ config.environment # "unknown"

\* A built-in role is protected by its name as the target of role.create,
\* role.alter and role.drop alone: its memberships and privileges are not.
SecurityAllows ==
  /\ ProfileAllows
  /\ ~ /\ command.operation \in {"role.create", "role.alter", "role.drop"}
       /\ command.subject = "builtin"
  /\ ~(command.operation = "role.drop" /\ command.subject = "self")

BackupAllows == ~(command.grade = "force" /\ config.environment = "unknown")

\* mutant of PolicyAllows: the read-only flag is only read by the mutations
\* of roles and privileges
PolicyForgetsReadOnly ==
  /\ command.service = "security" => SecurityAllows
  /\ command.service = "backup" => BackupAllows
  /\ command.service \in {"runtime", "maintenance", "restore"} =>
       config.environment # "unknown"

PolicyAllows ==
  /\ command.service = "security" => SecurityAllows
  /\ command.service = "backup" => BackupAllows
  /\ command.service \in {"runtime", "maintenance", "restore"} => ProfileAllows

\* Restore has no branch for "none": its plans are never low risk.
Approved ==
  \/ plan.confirmation = "none" /\ command.service # "restore"
  \/ plan.confirmation = "type_target" /\ options.confirmed_target = "exact"
  \/ plan.confirmation # "type_target" /\ options.approved

ReturnPlan ==
  /\ pc = "admitting"
  /\ options.dry_run
  /\ End("planned")
  /\ UNCHANGED <<asked, plan, options, said, verdict, trail, touched>>

Refuse ==
  /\ pc = "admitting"
  /\ ~options.dry_run
  /\ ~(PolicyAllows /\ Approved)
  /\ verdict' = "BLOCKED"
  /\ pc' = "recording"
  /\ UNCHANGED <<asked, plan, options, said, trail, touched, outcome>>

\* mutant of Admit: the dry-run check is lost
AdmitDryRun ==
  /\ pc = "admitting"
  /\ PolicyAllows
  /\ Approved
  /\ pc' = IF command.service = "restore" THEN "revalidating" ELSE "starting"
  /\ UNCHANGED <<asked, plan, options, said, verdict, trail, touched, outcome>>

Admit ==
  /\ pc = "admitting"
  /\ ~options.dry_run
  /\ PolicyAllows
  /\ Approved
  /\ pc' = IF command.service = "restore" THEN "revalidating" ELSE "starting"
  /\ UNCHANGED <<asked, plan, options, said, verdict, trail, touched, outcome>>

\* Restore loads and validates the archive again once approved, outside the
\* blocks that audit.
Revalidate ==
  /\ pc = "revalidating"
  /\ pc' = "starting"
  /\ UNCHANGED <<asked, plan, options, said, verdict, trail, touched, outcome>>

RevalidateFails ==
  /\ pc = "revalidating"
  /\ End("rejected")
  /\ UNCHANGED <<asked, plan, options, said, verdict, trail, touched>>

-----------------------------------------------------------------------------
(* Execution.                                                               *)

Start ==
  /\ pc = "starting"
  /\ trail' = Append(trail, "STARTED")
  /\ pc' = "acting"
  /\ UNCHANGED <<asked, plan, options, said, verdict, touched, outcome>>

\* mutant of StartUnrecorded: an unavailable audit file is shrugged off
StartAnyway ==
  /\ pc = "starting"
  /\ pc' = "acting"
  /\ UNCHANGED <<asked, plan, options, said, verdict, trail, touched, outcome>>

\* The audit file cannot be opened or written: AuditUnavailableError leaves
\* the service before the adapter is called.
StartUnrecorded ==
  /\ pc = "starting"
  /\ End("unrecorded")
  /\ UNCHANGED <<asked, plan, options, said, verdict, trail, touched>>

Act ==
  /\ pc = "acting"
  /\ touched' = TRUE
  /\ verdict' = "SUCCEEDED"
  /\ pc' = "recording"
  /\ UNCHANGED <<asked, plan, options, said, trail, outcome>>

\* An exception out of the adapter: refused by the server, timed out, or the
\* connection or the tool lost after the server had, or may have, done it.
ActFails ==
  /\ pc = "acting"
  /\ touched' \in BOOLEAN
  /\ verdict' = "FAILED"
  /\ pc' = "recording"
  /\ UNCHANGED <<asked, plan, options, said, trail, outcome>>

\* mutant of ActDenied: the PolicyDeniedError is passed on without an event
ActDeniedUnaudited ==
  /\ pc = "acting"
  /\ command.service = "runtime"
  /\ End("rejected")
  /\ UNCHANGED <<asked, plan, options, said, verdict, trail, touched>>

\* The signal statement declined a backend that must not be signalled.
ActDenied ==
  /\ pc = "acting"
  /\ command.service = "runtime"
  /\ verdict' = "BLOCKED"
  /\ pc' = "recording"
  /\ UNCHANGED <<asked, plan, options, said, trail, touched, outcome>>

OutcomeOf(event) ==
  IF event = "SUCCEEDED" THEN "succeeded"
  ELSE IF event = "BLOCKED" THEN "refused"
  ELSE "failed"

Record ==
  /\ pc = "recording"
  /\ trail' = Append(trail, verdict)
  /\ End(OutcomeOf(verdict))
  /\ UNCHANGED <<asked, plan, options, said, verdict, touched>>

\* mutant of RecordFails: the result is returned all the same
RecordFailsSilently ==
  /\ pc = "recording"
  /\ End(OutcomeOf(verdict))
  /\ UNCHANGED <<asked, plan, options, said, verdict, trail, touched>>

\* The last event is lost: AuditUnavailableError replaces the result, or the
\* exception that was being reported.
RecordFails ==
  /\ pc = "recording"
  /\ End("unrecorded")
  /\ UNCHANGED <<asked, plan, options, said, verdict, trail, touched>>

\* The process dies, or Ctrl-C raises KeyboardInterrupt, which no handler of
\* the services catches; the server may be left with the statement.
Crash ==
  /\ pc # "ended"
  /\ IF pc = "acting" THEN touched' \in BOOLEAN ELSE UNCHANGED touched
  /\ End("crashed")
  /\ UNCHANGED <<asked, plan, options, said, verdict, trail>>

-----------------------------------------------------------------------------
Planning == Plan \/ PlanFails
Consenting ==
  \/ Resolve
  \/ PromptForTarget
  \/ PromptForApproval
  \/ AbandonPrompt
  \/ CallerChooses
Admitting == ReturnPlan \/ Refuse \/ Admit \/ Revalidate \/ RevalidateFails
Executing == Start \/ StartUnrecorded \/ Act \/ ActFails \/ ActDenied
Reporting == Record \/ RecordFails

Step == Planning \/ Consenting \/ Admitting \/ Executing \/ Reporting

Next == Step \/ Crash

Spec == Init /\ [][Next]_vars

\* The interpreter runs on, prompts are answered, the server and the tools
\* come back.
FairSpec == Spec /\ WF_vars(Step)

-----------------------------------------------------------------------------
Plans == [risk : RiskLevel, confirmation : ConfirmationLevel]

Words == [yes : BOOLEAN, target : Proof]

\* Every variable has its type; plans carry one of the four risk levels and
\* one of the four confirmation levels.
TypeOK ==
  /\ command \in Commands
  /\ config \in Configs
  /\ context \in Contexts \cup {None}
  /\ pc \in Stage
  /\ plan \in Plans \cup {None}
  /\ options \in MutationOptions \cup {None}
  /\ said \in Words
  /\ verdict \in {"none", "BLOCKED", "FAILED", "SUCCEEDED"}
  /\ trail \in Seq(Event)
  /\ touched \in BOOLEAN
  /\ outcome \in Outcome

\* What is at stake: the operations that need the operator to type their
\* target, and the ones that need a yes.
IsCritical ==
  \/ BaseRisk(command) = CRITICAL
  \/ config.environment = "production" /\ BaseRisk(command) = HIGH

NeedsYes == ~IsCritical /\ BaseRisk(command) # LOW

\* Whatever the order of flags, prompts and escalation, a target is changed
\* only if the operator typed it exactly when the operation is critical where
\* it runs, or said yes when it is not but is no routine: --yes never stands
\* in for the typed target (cli/safety.py, _enforce_approval).
ConsentIsGenuine ==
  touched => /\ IsCritical => said.target = "exact"
             /\ NeedsYes => said.yes

\* A dry run neither changes its target nor writes an audit event, however it
\* is combined with --yes, --confirm-target or a low risk (_execute's first
\* return and mutation_options).
DryRunIsInert ==
  \/ context # None /\ context.dry_run
  \/ options # None /\ options.dry_run
  => ~touched /\ trail = << >>

\* Nothing is changed under a read-only profile or an unclassified
\* environment, except that a backup may be written; a built-in role is not
\* created, altered or dropped in any environment, nor is the role in use
\* dropped (_enforce_policy of the five services).
PolicyIsRespected ==
  touched =>
    /\ command.service # "backup" =>
         ~config.read_only /\ config.environment # "unknown"
    /\ command.grade = "force" => config.environment # "unknown"
    /\ command.subject = "builtin" =>
         command.operation \notin {"role.create", "role.alter", "role.drop"}
    /\ command.subject = "self" => command.operation # "role.drop"

\* What the caller is told is what the audit file says: success, refusal and
\* failure are reported only once their event is on record (_execute, and
\* AuditUnavailableError of infrastructure/audit/jsonl.py).
ResultsAreOnRecord ==
  /\ outcome = "succeeded" => trail = <<"STARTED", "SUCCEEDED">> /\ touched
  /\ outcome = "failed" => trail = <<"STARTED", "FAILED">>
  /\ outcome = "refused" =>
       trail \in {<<"BLOCKED">>, <<"STARTED", "BLOCKED">>} /\ ~touched

\* The restore guide: a restore that fails is audited as FAILED.  Here: an
\* execution the service turns down after the operator's consent has left an
\* event behind.
RejectionsAreOnRecord ==
  outcome = "rejected" /\ options # None => trail # << >>

\* A lifecycle that was opened is closed, unless the process died or the
\* audit file could not be written (the except blocks of _execute).
StartedIsClosed ==
  trail = <<"STARTED">> ~>
    Len(trail) = 2 \/ outcome \in {"unrecorded", "crashed"}

Trail == INSTANCE AuditTrail

\* Every service keeps the shared audit lifecycle: the intent is on record
\* before the target can change, one event closes it, and it claims neither
\* more nor less than happened.
ImplementsTrail == Trail!Spec
===============================================================================
