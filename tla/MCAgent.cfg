SPECIFICATION MCSpec
CONSTANTS
  s1 = s1  m1 = m1  m2 = m2  a1 = a1  a2 = a2  a3 = a3  b1 = b1
  NoCall = NoCall
  MaxTurns = 2
  Sessions <- MCSessions
  Runs <- MCRuns
  Calls <- MCCalls
  runOf <- MCRunOf
  sessionOf <- MCSessionOf
INVARIANTS TypeOK GatedNeedsGrant ConversationPaired ConversationAudited EndedRunLeavesNothing
PROPERTIES RunsEnd
CHECK_DEADLOCK FALSE
