SPECIFICATION Spec
CONSTANTS
  Modes = {"rule", "global"}
  Feeds = {"f1", "f2"}
  Placeholder <- MCPlaceholder
  UserConfigs <- MCUserConfigs
  Nil = Nil
  Absent = Absent
  Torn = Torn
INVARIANTS TypeOK SavedIsCurrent CoreCurrent
PROPERTIES FailureKeepsFiles
