SPECIFICATION FairSpec
CONSTANTS
  Clients = {p}
  BufferSize = 2
  MaxEvents = 4
  MaxBreaks = 2
  Faults = {"fetch", "drop", "reload", "stall", "slow", "restart"}
INVARIANTS TypeOK Contiguous ShowsRoster NoRepeat
PROPERTIES CatchesUp
CHECK_DEADLOCK FALSE
