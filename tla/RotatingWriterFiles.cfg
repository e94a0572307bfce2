SPECIFICATION Spec
CONSTANTS
  Limits = {1, 3}
  MaxBytes = 4
  BUFFER = 3
  Lengths = {1, 4}
  MaxLines = 5
  MaxFaults = 2
  None = None
  Faults = {"reconfigure"}
PROPERTY FilesBounded
