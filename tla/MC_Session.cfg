CONSTANTS
  Timeouts = {0, 2, 4}
  MaxDepth = 1
  MaxNow = 7
  Thread = {1, 2}
  NoThread = 0
  MaxClients = 1
  MaxAccepts = 3
  Plans <- Sessions
SPECIFICATION MCSpec
INVARIANTS DeadlineKept SessionsReleased ClientServed VisionFaithful WindowsAgree PeerRespected Http1Faithful
