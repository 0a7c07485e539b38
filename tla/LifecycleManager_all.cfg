SPECIFICATION FairSpec
CONSTANTS
  N = 3
  Attempts = 3
  Faults = {"timeout", "boot", "channel", "config"}
  MaxActivations = 3
CHECK_DEADLOCK FALSE
INVARIANTS TypeOK MasterOutlivesDrivers ContainerSurvives ManagerTellsTheTruth
PROPERTIES StartUpSequence UseSpec TransitionsComplete
