SPECIFICATION Spec
CONSTANTS
  Accounts = {a, b}
  Workers = {w1, w2}
  None = None
  Standard = Standard
  MaxGen = 1
  Ops = {"switch", "login", "relogin", "revoke"}
  Faults = {"read", "delete", "timeout", "add", "file", "crash"}
  CliRaces = TRUE
  CliFlat = TRUE
SYMMETRY Symmetry
INVARIANTS TypeOK NoCrossedCredentials
PROPERTIES IdentityFollowsStandard TokenLossPoints
