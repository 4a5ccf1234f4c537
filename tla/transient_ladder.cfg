SPECIFICATION FairSpec
CONSTANTS
  EscalateAfter = 5
  Ceiling = 20
  BackoffMax = 6
  None = None
INVARIANTS TypeOK Forgotten
PROPERTIES Gradual Judged
