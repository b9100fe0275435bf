CONSTANTS
  B = 4
  Strings <- SomeStrings
  Ids <- SomeIds
  Longest = 4
SPECIFICATION Spec
INVARIANT RoundTrip
INVARIANT CutKeepsPrefix
CHECK_DEADLOCK FALSE
