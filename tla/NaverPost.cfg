SPECIFICATION Spec
CONSTANTS
  i1 = i1
  i2 = i2
  t1 = t1
  staff = staff
  auto = auto
  Inquiry = {i1, i2}
  Target = {t1}
  Answer = {x}
  Poster = {staff, auto}
  Staff = {staff}
  Put = {t1}
  targetOf <- MCSiblings
  MaxRetries = 1
  MaxAttempts = 2
  MaxDrafts = 1
  MaxReviews = 0
  TrustErrors = TRUE
  None = None
INVARIANTS IInv OneLiveAttempt StatusAgrees AtMostOneWrite NoForgottenWrite PostedIsPublished
PROPERTIES Settled ImplementsPostOnce
CHECK_DEADLOCK FALSE
SYMMETRY MCSymmetry
