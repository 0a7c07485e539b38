SPECIFICATION FairSpec
CONSTANTS
  Configurations <- AllConfigurations
  BootAttempts = 3
  Batch = 1
CHECK_DEADLOCK FALSE
INVARIANTS TypeOK BootedWhenAdded SafeInOperation LoopIsSafe
PROPERTIES NoMessageLost DeactivateReturns StatesArePublished
