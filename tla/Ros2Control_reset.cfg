SPECIFICATION MCSpec
CONSTANTS
  Configurations <- JustReset
  Handlers <- Triggers
  Half = 2
  MaxSwitches = 0
  MaxFailures = 0
CHECK_DEADLOCK FALSE
INVARIANTS ResetReports
