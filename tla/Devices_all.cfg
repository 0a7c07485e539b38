SPECIFICATION MCSpec
CONSTANTS
  Configurations <- BusConfigurations
  Attempts = 3
  MaxLists = 1
  Dwell = 3
  Full = 2
  MaxCalls = 3
  MaxFaults = 1
  MaxLosses = 1
CHECK_DEADLOCK FALSE
INVARIANTS TypeOK ContainerKeepsOrder
PROPERTIES UseSpec InitEndsHere ValuesArrive ValveObeys
