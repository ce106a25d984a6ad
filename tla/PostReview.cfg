SPECIFICATION Spec
CONSTANTS
  a = a
  b = b
  auto = auto
  s1 = s1
  s2 = s2
  Body = {a, b}
  Poster = {auto}
  Pipeline = auto
  Staff = {s1, s2}
  MaxVersions = 3
  MaxEdits = 1
  None = None
INVARIANTS TypeOK PendingMeansPosting OneCorrectionInFlight RecordedWasShown
CHECK_DEADLOCK FALSE
PROPERTY HistoryCatchesUp
