CONSTANTS
  NUM_FLOORS = 2
  MAX_OCCUPANCY = 1
  PER_LED = 1
  NoFloor = NoFloor
  Requests <- AnyRequests
  Stray <- Garbage
SPECIFICATION Spec
PROPERTY Mended
