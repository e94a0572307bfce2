CONSTANTS
  SAMPLE_QUEUE = 1
  RECORD_QUEUE = 1
  MaxSamples = 2
  MaxRecords = 2
  MaxBatch = 2
  Faults = {"recv_error", "hang"}
SPECIFICATION LiveSpec
PROPERTIES
  SignalExits
  IngestFailureExits
  SamplesEvaluated
