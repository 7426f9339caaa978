SPECIFICATION AnalysisSpec
CHECK_DEADLOCK FALSE
CONSTANTS
  Sessions = {1}
  NoSession = 0
  AnalysedTools = {1, 2}
  MaxSessions = 1
  RecentEvents = 5
  SessionEvents = 4
  MaxEvents = 4
  MaxJobs = 1
INVARIANT LoopsAreLoops
