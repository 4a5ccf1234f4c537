SPECIFICATION Spec
CONSTANTS
  Accounts = {1, 2}
  Handlers = {}
  Tick = Tick
  None = None
  MaxOps = 0
  MaxMisses = 0
  MaxUse = 6
  Failures = {}
  Elsewhere = {}
  Starts <- MCStartFirst
PROPERTIES PickHasRoom
