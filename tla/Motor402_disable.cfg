SPECIFICATION MCSpec
CONSTANTS
  services = services
  ros2_control = ros2_control
  Timer = Timer
  Clients = {services}
  MayDo <- Everything
  Modes = {"Position"}
  SwitchingState = "Switched_On"
  HomingSupported = TRUE
  Garbage <- Memory
  MaxFaults = 0
  MaxTimeouts = 0
  Uses = {"disabling"}
PROPERTIES DisableSwitchesOff
