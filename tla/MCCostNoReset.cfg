SPECIFICATION CostSpec
CONSTANTS
  t1 = t1  u1 = u1  u2 = u2  m1 = m1  m2 = m2  m3 = m3
  Users <- MCUsers
  Teams <- MCTeams
  Runs <- MCRuns
  userOf <- MCUserOf
  teamOf <- MCTeamOf
  Cap = 2
  QuotaAmounts <- MCQuotas
  PeriodDays = 1
  RunCostLimit = 2
  Overlap = 1
  LastDay = 2
INVARIANTS QuotaResets
CHECK_DEADLOCK FALSE
