CONSTANTS
  t1 = t1
  t2 = t2
  NoTx = NoTx
  Tx <- MCTx
  Silent = {t2}
  Outcomes = {"ask", "ok", "error", "nothing", "raise"}
  Ends = {"eof", "nil", "cancel"}
  OddTypes = {"REGISTERED", "READY", "OTHER"}
  MaxAsks = 2
  MaxOdd = 1
SPECIFICATION FairSpec
INVARIANTS
  TypeOK
  OnlyOddFramesRefused
  CompletedOnce
PROPERTIES
  ImplementsConnection
  AnsweredTransactionsFinish
  ClosedConnectionEnds
CHECK_DEADLOCK FALSE
