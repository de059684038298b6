\* A relay or a carrier that has ended stays so: no deadlock check.
SPECIFICATION MCSpec
CONSTANTS
  Modes <- MCAll
  MaxUp = 2
  MaxDown = 2
  OutLimit = 2
  WireLimit = 3
  WireRoom = 2
  HeaderUnits = 1
INVARIANTS EndsBehindData DeadlineMatchesWaiting CarrierFaithful 
CHECK_DEADLOCK FALSE
