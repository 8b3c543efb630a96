\* A client that asks for as much as it may.
SPECIFICATION Spec
CONSTANTS
  Channels = {c1}
  Limits <- PositiveLimits
  MaxLimit = 2
  MsgBound = 4
PROPERTIES NothingMissed
