CONSTANTS
  None = None
  NonFinite = NonFinite
  Sizes <- MCSizes
  BASE = 4
  BadNames = {"Gear"}
  Configs <- MCConfigs
  Actives = {None, 1}
  ANY_MODEL = "*"
  MAX_RULES = 3
  MIN_INTERVAL_MS = 1
  MAX_CONDITION_CHARS = 8
  MAX_CONDITION_DEPTH = 2
  AllowedOperators = {"_&&_"}
  BadIds = {"A!"}
  MIN_FILE_BYTES = 2
  U64Max = 9
  MayFail = TRUE
  Unreadable = Unreadable
SPECIFICATION Spec
CHECK_DEADLOCK FALSE
INVARIANTS
  TypeOK
  ReportsExactly
  EngineGetsRuleSet
  CompiledFaithfully
PROPERTIES
  Ends
