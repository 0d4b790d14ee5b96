CONSTANTS
  NUM_FLOORS = 2
  MAX_OCCUPANCY = 1
  PER_LED = 2
  NoFloor = NoFloor
  Requests <- FormRequests
  Stray <- AnyInt
SPECIFICATION Spec
INVARIANT OledAtRest
