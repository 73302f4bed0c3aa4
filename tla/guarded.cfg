SPECIFICATION FairSpec
CONSTANTS
  Commands <- EveryCommand
  Configs <- EveryConfig
  Contexts <- EveryContext
  Choices <- EveryChoice
  None = None
INVARIANTS ConsentIsGenuine DryRunIsInert PolicyIsRespected ResultsAreOnRecord
PROPERTIES ImplementsTrail StartedIsClosed
CHECK_DEADLOCK FALSE
