SPECIFICATION FairSpec
CONSTANTS
  Sessions = {1, 2}
  Emails = {a, b}
  Enrolled = {a}
  Handlers = {g}
  Sweeper = Sweeper
  None = None
  MaxFaults = 1
  MaxCrashes = 1
INVARIANTS TypeOK Findable AddedIsSaved
PROPERTIES OwnWindow Reaped
CHECK_DEADLOCK FALSE
