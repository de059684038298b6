CONSTANTS
  RekeyLimit = 1
  HardLimit = 3
  MaxSent = 2
  MaxUpdates = 1
  MaxTickets = 1
  p1 = p1
  p2 = p2
  h1 = h1
  h2 = h2
  d1 = d1
  d2 = d2
  Proc = {p1, p2}
  Host = {h1, h2}
  Pin = {d1, d2}
  MaxSize = 3
  Left <- MCLeft
  None = None
  Caller = {p1, p2}
  Site = {h1}
  Addr = {d1, d2}
  NoAddr = NoAddr
  TLS_ENDPOINT_CACHE_SIZE = 2
  TLS_AES_FALLBACK_CACHE_SIZE = 2
SPECIFICATION MCSpec
SYMMETRY Symmetry
INVARIANTS KeysKept EndsForCause AcceptedIsPinned Authenticated HonestServerAccepted ServerReached
PROPERTIES PinsKept EndpointsKept
