SPECIFICATION Spec
CONSTANTS
  svc1 = svc1  svc2 = svc2  acct = acct  k1 = k1  k2 = k2
  NoKey = NoKey
  Services <- MCServices
  Accounts <- MCAccounts
  Keys <- MCKeys
  LegacyKeys <- MCKeys
INVARIANTS InjectsOwnSecret
