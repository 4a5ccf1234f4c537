SPECIFICATION FairSpec
CONSTANTS
  Accounts = {1, 2, 3}
  Handlers = {h}
  Tick = Tick
  None = None
  MaxOps = 1
  MaxMisses = 1
  MaxUse = 2
  Failures = {"error", "half", "deadline"}
  Elsewhere = {1, 2, 3}
  Starts <- MCStarts
INVARIANTS TypeOK LogChains
PROPERTIES Relief
