SPECIFICATION Spec
CONSTANTS
  Chan = {c1}
  Obj <- MCObj
  Kids <- MCKids
  Input <- MCInput
  Looked = {2}
  Made = {4}
  Param = 1
  Told = 2
  Pipe = 1
  MaxAsks = 1
  MaxClears = 1
  Directs = {TRUE, FALSE}
  Stuck = {}
  Forced = {TRUE, FALSE}
  Uncarried = {}
  Prints = {"huge", "more"}
  c1 = c1
INVARIANTS
  CrossesOnce
  NamedIsRebuilt
  OneExchange
  OutcomeIsTrue
  RecordsAreWhole
  NothingEscapes
CHECK_DEADLOCK FALSE
