------------------------------ MODULE MCOperations ------------------------------
(* What an operator has the program watch and tend, for TLC: a behaviour is   *)
(* one run of the health suite or of the snapshot, or one maintenance         *)
(* command.                                                                   *)
EXTENDS MCHealth, MCMaintenance

VARIABLE part

HealthIdle ==
  /\ sessions = [c \in Clients |-> Unset] /\ moves = 0 /\ failures = 0
  /\ request = [thresholds |-> CHOOSE t \in HealthConfigs : TRUE,
                strict |-> FALSE, snapshot |-> FALSE, policy |-> DefaultPolicy]
  /\ phase = "ended" /\ verdict = "error"
  /\ waiting = {} /\ results = <<>> /\ batch = {} /\ delivered = Unset
  /\ was = [check \in Measured |-> {}]

MaintenanceIdle ==
  /\ catalog = [s \in Schemas |-> None] /\ created = 0
  /\ moved = FALSE /\ held = FALSE
  /\ english = TRUE /\ recent = TRUE /\ owner = TRUE /\ namesake = FALSE
  /\ cmd = CHOOSE c \in Commands : TRUE
  /\ stage = "ended" /\ result = "failed"
  /\ checked = None /\ processed = None /\ progress = None
  /\ session = [statement |-> 0, lock |-> 0]
  /\ leftover = FALSE /\ cause = "none"

OperationsInit ==
  \/ part = "health" /\ HealthInit /\ MaintenanceIdle
  \/ part = "maintenance" /\ MaintenanceInit /\ HealthIdle

OperationsNext ==
  \/ part = "health" /\ HealthNext /\ UNCHANGED <<part, maintenanceVars>>
  \/ part = "maintenance" /\ MaintenanceNext /\ UNCHANGED <<part, healthVars>>

OperationsSpec ==
  /\ OperationsInit
  /\ [][OperationsNext]_<<part, healthVars, maintenanceVars>>
  /\ MaintenanceFairness
===============================================================================
