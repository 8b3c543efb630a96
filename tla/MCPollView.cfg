\* The limits are on both sides of the cap, and 0 and a negative one.
SPECIFICATION Spec
CONSTANTS
  Channels = {c1, c2}
  Limits <- AllLimits
  MaxLimit = 2
  MsgBound = 4
INVARIANTS TypeOK MissedOnlyWhenFull
PROPERTIES RereadsOnlyWithoutCursor
