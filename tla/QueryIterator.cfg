CONSTANTS
  c1 = c1
  k1 = k1
  k2 = k2
  Consumer = c1
  Closers <- MCClosers
  Records = 5
  MinPage = 0
  MaxPage = 3
  PeerFails = TRUE
  MaxLeft = 2
SPECIFICATION IteratingSpec
INVARIANTS
  TypeOK
  NothingDropped
  StopMeansAll
  OneClose
PROPERTIES
  ImplementsStream
  CloseReachesPeer
  IterationEnds
CHECK_DEADLOCK FALSE
