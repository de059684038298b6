SPECIFICATION FairSpec
CONSTANTS
  Modes <- MCAll
  MaxUp = 1
  MaxDown = 1
  OutLimit = 1
  WireLimit = 2
  WireRoom = 1
  HeaderUnits = 1
PROPERTIES RelayEnds
CHECK_DEADLOCK FALSE
