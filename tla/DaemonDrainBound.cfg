CONSTANTS
  SAMPLE_QUEUE = 1
  RECORD_QUEUE = 1
  MaxSamples = 1
  MaxRecords = 1
  MaxBatch = 1
  Faults = {"hang"}
SPECIFICATION FairSpec
PROPERTIES
  DrainBounded
