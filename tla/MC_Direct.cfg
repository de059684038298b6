\* The relay ends, a client is done, and a peer may stay silent: no deadlock check.
CONSTANTS
  MaxBytes = 2
  Chunk = 2
  Window = 1
  a = a
  b = b
  c1 = c1
  c2 = c2
  Clients = {c1, c2}
  Addresses = {a, b}
  NoAddress = none
  Answers <- MCAnswers
SPECIFICATION MCSpec
INVARIANTS BypassesExact
PROPERTIES ImplementsPipe DirectEnds
CHECK_DEADLOCK FALSE
