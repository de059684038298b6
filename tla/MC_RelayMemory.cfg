CONSTANTS
  Directions = {"relay"}
  Limit = 8
  Relays = {v, p}
  Vision = {v}
  PrepareCredit = 2
  InputLimit = 2
  OutputLimit = 2
  StashLimit = 1
SPECIFICATION Spec
INVARIANTS  NoLostWakeup
