SPECIFICATION Spec
CONSTANTS
  Space = " "
  Dash = "-"
  Dropped <- MCDropped
  Inputs <- MCInputs
  Edits <- MCEdits
  MaxRuns = 2
  Nil = Nil
  Torn = Torn
INVARIANTS TypeOK Routed ConnectsFresh ExitClean
PROPERTIES OwnerEndsCore SignalEnds
CHECK_DEADLOCK FALSE
