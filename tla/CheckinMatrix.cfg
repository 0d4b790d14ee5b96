CONSTANTS
  NUM_FLOORS = 1
  MAX_OCCUPANCY = 50
  PER_LED = 10
  NoFloor = NoFloor
  Requests <- SetRequests
  Stray <- Garbage
SPECIFICATION Spec
INVARIANT FullRowLit
