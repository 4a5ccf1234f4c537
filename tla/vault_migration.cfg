SPECIFICATION Spec
CONSTANTS
  Accounts = {a, b}
  None = None
  Bare = Bare
  Layouts <- SomeLayouts
  Standards <- SomeStandards
  MaxGen = 1
  MaxFaults = 2
SYMMETRY Symmetry
INVARIANTS TypeOK SameActive OneActive
PROPERTIES Promised MigrationLosses
