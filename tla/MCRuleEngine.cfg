CONSTANTS
  None = None
  Park = Park
  Drive = Drive
  Signals <- MCSignals
  NumSignals <- MCNumSignals
  Values <- MCValues
  RuleSets <- MCRuleSets
  Stamps = {0, 1}
  MIN_INTERVAL_MS = 1
  U64Max = 6
  MaxTime = 5
SPECIFICATION Spec
INVARIANTS
  TypeOK
  NoDeadRule
  DriftBounded
PROPERTIES
  ImplementsContract
  TickQuiesces
  DeadlineExact
