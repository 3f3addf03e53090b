SPECIFICATION Spec
CONSTANTS
  p1 = p1
  p2 = p2
  Proc = {p1, p2}
  Obj <- MCObj
  Kids <- MCKids
  Result = {3, 4}
  MaxClears = 1
  MaxCrashes = 1
INVARIANTS
  TypeOK
  WholeUnlessTorn
  RaisesOnlyWhenTorn
PROPERTIES
  ComputedIsKept
