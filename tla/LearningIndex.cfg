SPECIFICATION Spec
CONSTANTS
  r1 = r1
  r2 = r2
  x = x
  y = y
  w1 = w1
  w2 = w2
  Row = {r1, r2}
  Text = {x, y}
  Writer = {w1, w2}
  MaxWrites = 2
  MaxFaults = 1
  None = None
INVARIANTS IInv NoRequestLost
PROPERTY EventuallyIndexed
CHECK_DEADLOCK FALSE
