SPECIFICATION FairSpec
CONSTANTS
  r = r
  h0 = h0
  main = main
  nowhere = nowhere
  x = x
  y = y
  Remote = {r}
  Local = h0
  Main = main
  Nowhere = nowhere
  Input = {x, y}
  Inputs <- MCInputs
  Batches = 2
  MaxLines = 12
  MaxBehind = 1
  MaxModes = 1
  Capacity <- MCCapacity
  Configs <- MCConfigs
  Known <- MCKnown
CHECK_DEADLOCK FALSE
INVARIANTS
  CountsAreTrue
PROPERTIES
  ForecastIsTrue
  EndIsShown
