CONSTANTS
  SAMPLE_QUEUE = 1
  RECORD_QUEUE = 1
  MaxSamples = 3
  MaxRecords = 3
  MaxBatch = 2
  Faults = {"recv_error", "signal_error", "ingest_panic", "engine_panic", "output_panic", "write_error", "flush_error", "hang"}
SPECIFICATION Spec
INVARIANTS
  TypeOK
  RecordsAccounted
  SamplesInOrder
  LossHasCause
  CleanExit
  ClosesInOrder
