CONSTANTS
  Nodes = {n1, n2}
  Schedulers = {s1, s2}
  Checkers = {k1}
  None = None
  MaxDown = 3
SPECIFICATION FairSpec
INVARIANTS TypeOK StopJoins
PROPERTIES WaitNotReused StopCompletes KeepsProbing
