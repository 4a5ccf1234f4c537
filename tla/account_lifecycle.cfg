SPECIFICATION Spec
CONSTANTS
  Tick = Tick
  Revalidators = {r}
  Logins = {l}
  None = None
  MaxFam = 1
  MaxGen = 2
  MaxDeletes = 1
  MaxFaults = 1
INVARIANTS TypeOK
PROPERTIES LoginWins EntryPoints Unflagged Flagged
CHECK_DEADLOCK FALSE
