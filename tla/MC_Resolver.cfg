CONSTANTS
  Queries = {q1, q2, q3}
  Workers = {w1, w2}
  QueueLimit = 3
  NoQuery = NoQuery
SPECIFICATION LinkedSpec
SYMMETRY Symmetry
INVARIANTS OwnedOnce NoIdleWorker ListIsQueue
