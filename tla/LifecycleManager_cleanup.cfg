SPECIFICATION Spec
CONSTANTS
  N = 1
  Attempts = 2
  Faults = {"timeout"}
  MaxActivations = 1
CHECK_DEADLOCK FALSE
PROPERTIES
  CleanupAfterDeactivate
