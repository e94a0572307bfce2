CONSTANTS
  None = None
  Signals = {"speed"}
  NumSignals = {"speed"}
  Values <- MCValues
  RuleSets <- MCRuleSets
  Stamps = {0}
  MIN_INTERVAL_MS = 1
  U64Max = 8
  MaxTime = 3
  SAMPLE_QUEUE = 2
  RECORD_QUEUE = 1
  IDLE_SLEEP = 3
SPECIFICATION TaskSpec
PROPERTIES
  ReceivedInTime
