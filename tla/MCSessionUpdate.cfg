CONSTANTS
  Threads = {t1, t2}
  Cfgs = {g1, g2, g3, g4}
  Managers = {m1, m2}
  Calls = {"start", "startAtEpoch", "stop", "restart", "update", "tick", "import", "flush"}
  Nil = Nil
SPECIFICATION Spec
SYMMETRY Symmetry
INVARIANTS TypeOK SessionBelongs StopOvertakes
PROPERTIES StopClean OnlyWatcherForgets
