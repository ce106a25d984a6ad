SPECIFICATION FairSpec
CONSTANTS
  e1 = e1
  naver = naver
  app = app
  sidecar = sidecar
  Event = {e1}
  Market = {naver}
  Process = {app}
  App = app
  SideMarket = naver
  marketOf <- MCNaverOnly
  MaxRetries = 1
  Retries = {1}
  MaxClaims = 2
  LeftOn = {naver}
  Switchable = {naver}
  Mortal = {app}
  None = None
  Dead = Dead
INVARIANTS IInv
PROPERTIES ClaimEnds PendingServed UnknownTurnsOff
CHECK_DEADLOCK FALSE
