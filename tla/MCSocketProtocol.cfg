SPECIFICATION FairSpec
CONSTANTS
  Radix = 3
  Strings <- MCStrings
  BuffSize = 4
  NetCap = 5
  MaxStrings = 2
PROPERTIES
  ImplementsChannel
  Delivered
CHECK_DEADLOCK FALSE
