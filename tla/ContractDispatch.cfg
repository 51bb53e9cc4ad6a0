CONSTANTS
  i1 = i1
  i2 = i2
  Inv <- MCInv
  Contracts <- MCContracts
  MaxContracts = 2
  Fn <- MCFn
  Upper <- MCUpper
  Rank <- MCRank
  NoName = ""
  SystemName = "org.hyperledger.fabric"
  Classes = {"Asset", "Owner"}
  MaxParams = 2
  Files <- MCFiles
  FilePairs <- MCFilePairs
  Requests <- MCRequests
SPECIFICATION Spec
INVARIANTS
  TypeOK
  OwnContext
  RoutedRight
  GoodCallsRun
  UncheckedOnlyByFile
  RefsResolve
  AnswerTellsAll
  NothingAfterError
  AfterSeesResult
CHECK_DEADLOCK FALSE
