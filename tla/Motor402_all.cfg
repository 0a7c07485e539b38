SPECIFICATION FairMCSpec
CONSTANTS
  services = services
  ros2_control = ros2_control
  Timer = Timer
  Clients = {services, ros2_control}
  MayDo <- Everything
  Modes = {"Position"}
  SwitchingState = "Switched_On"
  HomingSupported = TRUE
  Garbage <- Memory
  MaxFaults = 1
  MaxTimeouts = 1
  Uses = {"states", "disabling", "modes", "again", "halting"}
INVARIANTS TypeOK PromiseHolds QuickStopStands
PROPERTIES OperationsReturn SetPointsInMode QuickStopEnds
