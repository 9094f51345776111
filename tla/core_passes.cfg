SPECIFICATION PartSpec
CONSTANTS
  None = None
  Old = {1, 2, 3, 4}
  New = {11}
  Entry = 1
  MaxEdges = 4
  Whole = TRUE
  SlowLimit = 1
INVARIANTS DominatorsExact Promised
PROPERTIES SplitsCover Found
CHECK_DEADLOCK FALSE
