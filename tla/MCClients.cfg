SPECIFICATION MCSpec
CONSTANTS
  r1 = r1  r2 = r2  r3 = r3  r4 = r4  r5 = r5
  i1 = i1  i2 = i2  i3 = i3
  s1 = s1  s2 = s2
  NoRequest = NoRequest
  Requests <- MCRequests
  CallIds <- MCCallIds
  Sessions <- MCSessions
  idOf <- MCIdOf
  sessionOf <- MCSessionOf
  Texts = {1, 2}
  NoSession = NoSession
  Turns = {1, 2}
  MaxChunks = 2
  MaxMessages = 3
  MaxSessions = 2
  MaxSockets = 3
  MaxRefreshes = 2
  MaxAsked = 1
  a = a  b = b
  Sockets <- MCSockets
  MaxPerWindow = 2
  Window = 3
  LastTick = 5
  MaxCloses = 1
  Items = {1}
  PerMinute = 2
  MaxFlights = 2
  MaxFailures = 1
INVARIANTS TypeOK EntriesHold RepliesHold  BurstBounded GateAgrees
PROPERTIES UsersServed TerminationDeniesAll KeepsContract
CHECK_DEADLOCK FALSE
