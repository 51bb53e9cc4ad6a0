CONSTANTS
  t1 = t1
  t2 = t2
  r1 = r1
  r2 = r2
  r3 = r3
  r4 = r4
  NoReq = NoReq
  Tx <- MCTx
  Req <- MCReq
  TxOf <- MCTxOf
  Kinds = {"RESPONSE", "ERROR"}
  FaultKinds = {"cancel"}
  MaxFaults = 1
SPECIFICATION Spec
INVARIANT
  QueueMovesOn
CHECK_DEADLOCK FALSE
