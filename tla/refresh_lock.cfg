SPECIFICATION FairSpec
CONSTANTS
  Emails = {e, f}
  Pollers = {p}
  Revalidators = {v}
  Switches = {s}
  AutoSwitches = {a}
  None = None
  PoolSize = 3
  MaxDrops = 1
  Faults = {"deadline", "delete", "shutdown"}
INVARIANTS TypeOK ExclusiveUntilForgotten NoGhostHolder
PROPERTIES EveryoneEnds
CHECK_DEADLOCK FALSE
