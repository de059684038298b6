CONSTANTS
  Directions = {"upload", "relay"}
  Upload = "upload"
  Relay = "relay"
  Limit = 4
  Sizes <- MCSizes
  Budgets = {b1, b2}
  Blocks = {p1, p2, p3}
  Waiters = {w1}
  Wanted = 2
  NoBlock = NoBlock
  c1 = c1
  c2 = c2
  transcript1 = transcript1
  hello1 = hello1
  transcript2 = transcript2
  post2 = post2
  Buffers = {transcript1, hello1, transcript2, post2}
  Connections = {c1, c2}
  Conn <- MCConn
  Counted = {transcript1, hello1, transcript2}
  BufferLimit <- MCBufferLimit
  ConnectionLimit = 5
  TotalLimit = 9
  First = 1
  Doublings = 3
  Appends = {1, 3}
SPECIFICATION MCSpec
SYMMETRY Symmetry
INVARIANTS MemoryAccounted NoLostWakeup TlsMemoryExact
