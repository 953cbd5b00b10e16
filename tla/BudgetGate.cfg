SPECIFICATION Spec
CONSTANTS
  Jobs = {j1, j2}
  Paths <- OrgAndTeam
  EnvPaths <- OrgAndTeam
  Amounts = {1, 2}
  Costs = {1, 3}
  Caps = {2}
  Periods = {"day"}
  Span <- DailySpan
  RESERVATION_TTL = 1
  RequireEnvelope = FALSE
  MaxOverrun = 1
  LiveAdmin = TRUE
  PeriodChanges = FALSE
  MaxTime = 2
  MaxJournal = 2
INVARIANT TypeOK
 
PROPERTY GateHolds
PROPERTY HoldsLastTheirTTL
SYMMETRY JobSymmetry
CHECK_DEADLOCK FALSE
