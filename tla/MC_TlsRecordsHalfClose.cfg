SPECIFICATION Spec
CONSTANTS
    RekeyLimit = 2
    HardLimit = 4
    MaxSent = 2
    MaxUpdates = 1
    MaxTickets = 0
INVARIANTS ResponseSurvivesHalfClose
CHECK_DEADLOCK FALSE
