CONSTANTS
  Callers = {c1, c2}
  Pids = {p1, p2}
  None = None
  MaxAttempts = 2
SPECIFICATION FairSpec
INVARIANTS
  TypeOK
  CoreTracked
  QuietStop
PROPERTIES
  StopReaps
  NoLaunchAfterStop
  CallsReturn
  ImplementsFairly
