CONSTANTS
  None = None
  Park = Park
  Drive = Drive
  Signals <- MCSignals
  NumSignals <- MCNumSignals
  Values <- MCValues
  RuleSets <- MCRuleSets
  Stamps = {0}
  MIN_INTERVAL_MS = 1
  U64Max = 6
  MaxTime = 4
SPECIFICATION HSpec
INVARIANTS
  RateBound
  LastLoggedIsLastRecord
PROPERTIES
  LogsOnlyChanges
  CaughtUp
