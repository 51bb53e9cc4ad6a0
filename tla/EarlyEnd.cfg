CONSTANTS
  c1 = c1
  k1 = k1
  k2 = k2
  Consumer = c1
  Closers <- MCClosers
  Records = 3
  MinPage = 0
  MaxPage = 2
  PeerFails = FALSE
  MaxLeft = 0
SPECIFICATION Spec
INVARIANT StopsAtTheEnd
CHECK_DEADLOCK FALSE
