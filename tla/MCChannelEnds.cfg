SPECIFICATION FairSpec
CONSTANTS
  Chan = {c1}
  Obj <- MCObj
  Kids <- MCKids
  Input <- MCInput
  Looked = {2}
  Made = {4}
  Param = 1
  Told = 2
  Pipe = 1
  MaxAsks = 1
  MaxClears = 0
  Directs = {FALSE}
  Stuck = {}
  Forced = {FALSE}
  Uncarried = {}
  Prints = {"huge"}
  c1 = c1
PROPERTIES
  EveryAskEnds
  KilledEnds
CHECK_DEADLOCK FALSE
