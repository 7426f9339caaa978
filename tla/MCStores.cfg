SPECIFICATION MCSpec
CONSTANTS
  svc1 = svc1  svc2 = svc2  acct = acct  k1 = k1  k2 = k2
  s1 = s1  s2 = s2  u1 = u1  u2 = u2
  t1 = t1  m1 = m1  m2 = m2  m3 = m3
  NoKey = NoKey
  NoDump = NoDump
  Sessions = {s1, s2}
  Calls = {1, 2, 3}
  NoCall = 0
  Services <- MCServices
  Accounts <- MCAccounts
  Keys <- MCKeys
  LegacyKeys <- MCKeys
  Order <- MCOrder
  Unjournalled = {}
  Requests = {1, 2, 3}
  MaxEdits = 1
  MaxStops = 1
  Users <- MCUsers
  Teams <- MCTeams
  Runs <- MCRuns
  userOf <- MCUserOf
  teamOf <- MCTeamOf
  Cap = 2
  QuotaAmounts <- MCQuotas
  PeriodDays = 1
  RunCostLimit = 2
  Overlap = 1
  LastDay = 1
  PageSize = 1
  MaxLogged = 2
  MaxFetches = 3
  RowUsers <- MCRowUsers
  Searches = {1, 2}
  MaxRank = 1
  MaxNear = 1
  AnswerCap = 1
  FetchCap = 2
  MaxRows = 2
SYMMETRY MCSymmetry
INVARIANTS PartsTypeOK NoSecretLost RefsBacked KeyIdHonest AcknowledgedHolds
  MemoryHolds InjectionAlerted OverrunBounded NothingHidden ArchivesHold SearchHolds
PROPERTIES AppendOnly
CHECK_DEADLOCK FALSE
