SPECIFICATION MCSpec
CONSTANTS
  p1 = p1  p2 = p2
  Patches <- MCPatches
  MaxInFlight = 2
  Calls = {c1}
  Versions = {1, 2}
  NoFile = NoFile
  Torn = Torn
  NoManifest = NoManifest
  MaxCalls = 2
  Pieces = 2
  Histories <- MCHistories
  Terms <- MCTerms
  Texts <- MCTexts
  RetrySettings <- MCRetries
  TaskLength = 60
  Sessions = {1, 2}
  NoSession = 0
  AnalysedTools = {1, 2}
  MaxSessions = 2
  RecentEvents = 4
  SessionEvents = 4
  MaxEvents = 3
  MaxJobs = 2
  Messages = {1}
  MaxSteps = 2
  MaxStops = 1
  ScreenedSessions = {1}
  ScreenedCalls = {1}
  SeverityOf <- MCSeverityOf
  Contents <- MCContents
  MaxScreened = 3
INVARIANTS PartsTypeOK OnlyApprovedApplied PatchesAgree RegistryHolds AnswersAreTrue
  NothingMisreported AttemptsApart FindingsMatchLog ClosedOnce ScoresHold
PROPERTIES AppliedIsFinal AllAnswered DoneStaysDone
CHECK_DEADLOCK FALSE
