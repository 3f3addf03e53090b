SPECIFICATION Spec
CONSTANTS
  top = top
  g = g
  h = h
  m1 = m1
  m2 = m2
  cf = cf
  cg = cg
  cm1 = cm1
  cm2 = cm2
  lambda = lambda
  K = K
  D = D
  pkg = pkg
  sub = sub
  leaf = leaf
  s = s
  u = u
  one = one
  two = two
  list = list
  list2 = list2
  array = array
  lists = lists
  arrays = arrays
  x = x
  y = y
  z = z
  p = p
  q = q
  Nothing = Nothing
  Fn = {top, g, h, m1, m2}
  Root = top
  Code = {cf, cg, cm1, cm2, lambda}
  Cls = {K, D}
  Mod = {pkg, sub, leaf}
  Outside = {s, u}
  Const = {one, two}
  Mutable = {list, list2, array}
  TypeOf <- MCTypeOf
  Name = {x, y, z, p, q}
  CodeOf <- MCCodeOf
  Inner <- MCInner
  Bases <- MCBases
  Sub <- MCSub
  Names <- MCNames
  Bindings <- MCBindings
  Captures <- MCCaptures
  Methods <- MCMethods
  Editable = {"signature"}
  MaxEdits = 1
  MaxRuns = 2
CHECK_DEADLOCK FALSE
INVARIANTS
  HitIsCurrent
