CONSTANTS
  Threads = {t1, t2}
  Cfgs = {g1, g2, g3}
  Managers = {m1}
  Calls = {"start", "stop", "update"}
  Nil = Nil
SPECIFICATION FairSpec
PROPERTIES CallsReturn TerminalExitIsPublished
