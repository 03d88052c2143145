SPECIFICATION Spec
CONSTANTS
  a = a
  cp = cp
  d = d
  e = e
  x = x
  z = z
  own = own
  branch = branch
  Ops = {a, cp, d, e, x, z}
  Memories = {own, branch}
  Kind <- MCKind
  Mem <- MCMem
  Dest <- MCDest
  After <- MCAfter
  Nothing = Nothing
  MaxStops = 1
INVARIANT CopyIsSnapshot
CHECK_DEADLOCK FALSE
