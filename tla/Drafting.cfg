SPECIFICATION Spec
CONSTANTS
  auto = auto
  g1 = g1
  s1 = s1
  s2 = s2
  x = x
  Gen = {auto, g1}
  Pipeline = {auto}
  Staff = {s1, s2}
  Edit = {x}
  MaxDrafts = 2
  MaxEvents = 2
  MaxTakeovers = 1
  None = None
INVARIANTS IInv Seen
PROPERTY ApprovesCurrentText
CHECK_DEADLOCK FALSE
SYMMETRY Symmetry
