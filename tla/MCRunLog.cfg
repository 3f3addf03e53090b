SPECIFICATION Spec
CONSTANTS
  p1 = p1
  p2 = p2
  None = None
  main = main
  inner = inner
  leaf = leaf
  bad = bad
  script = script
  x = x
  y = y
  z = z
  Proc = {p1, p2}
  Calls = {main, inner, leaf, bad}
  Script = script
  Body <- MCBody
  Fleeting = {leaf}
  MaxFaults = 1
SYMMETRY Processes
CHECK_DEADLOCK FALSE
INVARIANTS
  TypeOK
  LogIsWhole
  LogIsExact
  LatestIsReadable
