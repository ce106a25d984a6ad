SPECIFICATION FairSpec
CONSTANTS
  e1 = e1
  naver = naver
  app = app
  sidecar = sidecar
  Event = {e1}
  Market = {naver}
  Process = {app}
  App = app
  SideMarket = naver
  marketOf <- MCNaverOnly
  MaxRetries = 1
  Retries = {1}
  MaxClaims = 1
  LeftOn = {}
  Switchable = {naver}
  Mortal = {app}
  None = None
  Dead = Dead
PROPERTIES SendingRecovered
CHECK_DEADLOCK FALSE
