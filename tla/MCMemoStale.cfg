SPECIFICATION Spec
CONSTANTS
  outer = outer
  inner = inner
  Branch = Branch
  Raised = Raised
  Missing = Missing
  a1 = a1
  a2 = a2
  Actor = {a1}
  Fn = {outer, inner}
  Key = {"a", "b", "x", "y"}
  Path <- MCPath
  Tree <- MCTree
  Given <- MCGiven
  Loc <- MCLoc
  Start <- MCStart
  Does <- MCDoes
  Then <- MCThen
  Means <- MCMeans
  Result = {1, 2, 3, 5}
  WholeInner = TRUE
  Debugging = FALSE
INVARIANTS
  EveryRecordSound
