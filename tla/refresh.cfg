SPECIFICATION Spec
CONSTANTS
  Pollers = {p}
  Revalidators = {r1, r2}
  None = None
  MaxGen = 3
  EscalateAfter = 2
  Switching = TRUE
  Faults = {"read", "write", "transient", "lost", "crash"}
SYMMETRY Symmetry
INVARIANTS TypeOK
PROPERTIES LossPoints RevocationPoints
