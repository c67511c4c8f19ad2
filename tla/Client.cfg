SPECIFICATION ClientFairSpec
CONSTANTS
  Clients <- AllConfigs
  BodyLen = 2
INVARIANTS BodyWhole ResponseReadable
PROPERTIES CanceledRequestEnds LosersReleased
