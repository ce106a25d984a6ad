SPECIFICATION FairSpec
CONSTANTS
  e1 = e1
  naver = naver
  app = app
  sidecar = sidecar
  Event = {e1}
  Market = {naver}
  Process = {app, sidecar}
  App = app
  SideMarket = naver
  marketOf <- MCNaverOnly
  MaxRetries = 0
  Retries = {1}
  MaxClaims = 1
  LeftOn = {naver}
  Switchable = {}
  Mortal = {sidecar}
  None = None
  Dead = Dead
PROPERTIES SendingEnds
CHECK_DEADLOCK FALSE
