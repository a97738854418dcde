CONSTANTS
  MaxSize = 2
  MaxFiles = 2
  KeepDays = 1
  Days = {1, 2, 3}
  MaxWrite = 3
  MaxBytes = 8
SPECIFICATION Spec
INVARIANTS TypeOK InOrder
PROPERTIES LosesOnlyOldest
