SPECIFICATION Spec
CONSTANTS
  Space = " "
  Dash = "-"
  Dropped <- MCDropped
  Inputs <- MCInputs
  Edits <- MCEdits
  MaxRuns = 2
  Nil = Nil
  Torn = Torn
INVARIANTS StaysUsable
CHECK_DEADLOCK FALSE
