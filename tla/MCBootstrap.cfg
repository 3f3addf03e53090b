SPECIFICATION FairSpec
CONSTANTS
  a = a
  b = b
  c = c
  v0 = v0
  v1 = v1
  v2 = v2
  src = src
  ext = ext
  old = old
  None = None
  Run = {a, b, c}
  Version = {v0, v1, v2}
  File = {src, ext, old}
  Tree <- MCTree
  BuildInput = {ext}
  Wants <- MCWants
  Before = {v0, None}
  Mortal = {a}
  Ageing = "abandoned"
INVARIANTS
  TypeOK
  ManifestIsTrue
  ManifestIsExact
  RunsItsVersion
PROPERTIES
  EveryRunDecided
