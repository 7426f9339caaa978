SPECIFICATION ProviderSpec
CHECK_DEADLOCK FALSE
CONSTANTS
  MaxCalls = 2
  Pieces = 2
  Histories <- MCHistories
INVARIANT TokensReported
