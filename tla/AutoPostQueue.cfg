SPECIFICATION Spec
CONSTANTS
  e1 = e1
  naver = naver
  app = app
  sidecar = sidecar
  Event = {e1}
  Market = {naver}
  Process = {app, sidecar}
  App = app
  SideMarket = naver
  marketOf <- MCNaverOnly
  MaxRetries = 0
  Retries = {0}
  MaxClaims = 3
  LeftOn = {}
  Switchable = {}
  Mortal = {}
  None = None
  Dead = Dead
INVARIANTS OneSender FailedSendsBounded
PROPERTIES SettledByItsClaim
CHECK_DEADLOCK FALSE
