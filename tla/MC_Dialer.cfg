\* A caller need not call again after a connection: no deadlock check.
CONSTANTS
  a1 = a1
  a2 = a2
  b1 = b1
  b2 = b2
  None = None
  Six <- MCSix
  Four <- MCFour
  Answers <- MCAnswers
  Fixed <- MCFixed
  Preferred <- MCPreferred
  AddressLimit = 3
  FamilyWait = 1
  AttemptDelay = 2
  Timeouts = {3}
  MaxNow = 4
SPECIFICATION FairSpec
INVARIANTS AttemptsAccounted
PROPERTIES DialingEnds
CHECK_DEADLOCK FALSE
