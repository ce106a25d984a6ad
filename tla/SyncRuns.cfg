SPECIFICATION FairSpec
CONSTANTS
  p1 = p1
  p2 = p2
  Inquiry = {1, 2}
  Process = {p1, p2}
  App = p1
  Manual = {p2}
  Threshold = 2
  MaxGone = 1
  MaxFails = 1
  MaxCrashes = 1
  None = None
  Dead = Dead
INVARIANTS IInv MarkedHonestly
PROPERTIES Mirrored
CHECK_DEADLOCK FALSE
