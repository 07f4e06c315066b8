CONSTANTS
  None = None
  Desks <- MCDesks
  Rereadings <- MCRereadings
  PolicyBook <- MCPolicyBook
  MaxCommits = 1
  IncludeSeeded = TRUE
  Historical = "CLM-S"
SPECIFICATION Spec
INVARIANT WellFormed
INVARIANT ReachesClaim
INVARIANT ScaffoldingApart
INVARIANT DuplicatesStay
INVARIANT TilesCount
CHECK_DEADLOCK FALSE
