SPECIFICATION MarketSpec
CONSTANTS
  c = c
  t1 = t1
  staff = staff
  auto = auto
  x = x
  y = y
  Inquiry = {c}
  Target = {t1}
  Answer = {x, y}
  Poster = {staff, auto}
  Staff = {staff}
  Put = {}
  Coupang = {t1}
  targetOf <- MCTarget
  MaxRetries = 1
  MaxAttempts = 2
  MaxDrafts = 2
  MaxReviews = 2
  TrustErrors = TRUE
  None = None
INVARIANT IInv
PROPERTIES SendsCurrentText
CHECK_DEADLOCK FALSE
SYMMETRY MCSymmetry
