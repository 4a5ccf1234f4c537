SPECIFICATION Spec
CONSTANTS
  Accounts = {a, b, c}
  Workers = {w1, w2}
  None = None
  Standard = Standard
  MaxGen = 1
  Ops = {"switch", "delete"}
  Faults = {"add", "crash"}
  CliRaces = TRUE
  CliFlat = FALSE
SYMMETRY Symmetry
INVARIANTS EraseComplete CrashConsistent
