SPECIFICATION FairSpec
CONSTANTS
  Jobs = {j1, j2}
  Paths <- OrgAndTeam
  EnvPaths <- OrgAndTeam
  Amounts = {1, 2}
  Costs = {1}
  Caps = {2}
  Periods = {"day", "total"}
  Span <- DailySpan
  RESERVATION_TTL = 1
  RequireEnvelope = TRUE
  MaxOverrun = 0
  LiveAdmin = FALSE
  PeriodChanges = TRUE
  MaxTime = 2
  MaxJournal = 1
INVARIANT NoOverrun
PROPERTY StaleHoldsExpire
CHECK_DEADLOCK FALSE
