CONSTANTS
  Threads = {t1, t2}
  Cfgs = {g1, g2, g3, g4}
  Managers = {m1, m2}
  Calls = {"start", "stop", "flush"}
  Nil = Nil
SPECIFICATION Spec
SYMMETRY Symmetry
INVARIANT NoOrphan
