SPECIFICATION Spec
CONSTANTS
  Limits = {1, 3}
  MaxBytes = 4
  BUFFER = 3
  Lengths = {1, 4}
  Faults = {"write", "remove", "rename", "open", "crash"}
  MaxLines = 5
  MaxFaults = 2
  None = None
INVARIANTS TypeOK KeepsHistory SizeBounded DamageBounded
PROPERTY ShedsOldestFirst
