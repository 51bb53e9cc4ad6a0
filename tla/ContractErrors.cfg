CONSTANTS
  i1 = i1
  i2 = i2
  Inv <- MCInv
  Contracts <- MCOptional
  MaxContracts = 1
  Fn <- MCFn
  Upper <- MCUpper
  Rank <- MCRank
  NoName = ""
  SystemName = "org.hyperledger.fabric"
  Classes = {"Asset", "Owner"}
  MaxParams = 2
  Files <- MCFiles
  FilePairs <- MCNoFile
  Requests <- MCRequestsOptional
SPECIFICATION Spec
INVARIANT
  PairsAsDocumented
CHECK_DEADLOCK FALSE
