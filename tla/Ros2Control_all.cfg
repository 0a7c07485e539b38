SPECIFICATION FairMCSpec
CONSTANTS
  Configurations <- AllConfigurations
  Handlers <- Triggers
  Half = 2
  MaxSwitches = 2
  MaxFailures = 1
CHECK_DEADLOCK FALSE
INVARIANTS TypeOK AnswersOwn EnabledWhileActive
PROPERTIES CallsReturn SentWhole LatestSent LastPublished SwitchTakes
