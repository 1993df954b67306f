SPECIFICATION Spec
CONSTANTS
  h1 = h1
  h2 = h2
  Hosts = {h1, h2}
  Scanners = {s1}
  Sweepers = {o1}
  f1 = f1
  f2 = f2
  f3 = f3
  Files = {f1, f2, f3}
  LockTries = 2
  MaxKills = 1
  Nobody = Nobody
  NoFile = NoFile
INVARIANTS LockIsFindable NeverLost ScanMissesNobody
PROPERTIES StoppingIsKept
SYMMETRY Symmetry
CHECK_DEADLOCK FALSE
