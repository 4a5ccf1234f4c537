SPECIFICATION Spec
CONSTANTS
  Accounts = {a, b, c}
  Workers = {w1, w2}
  None = None
  Standard = Standard
  MaxGen = 1
  Ops = {"switch"}
  Faults = {}
  CliRaces = FALSE
  CliFlat = FALSE
SYMMETRY Symmetry
INVARIANTS NoTokenLost
