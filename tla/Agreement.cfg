SPECIFICATION AgreementSpec
CHECK_DEADLOCK FALSE
CONSTANTS
  N = 4
  Block <- MCBlock
  Genesis = "g"
  Parent <- MCParent
  Height <- MCHeight
  Producer <- MCProducer
  WithoutTxs = {}
  Invalid = {}
  Unsigned = {}
  EnableEmptyBlock = FALSE
  None = "none"
  MaxPayloadCacheNum = 10
  UintModulus = 65536
  OnLineFirst = {}
  WalterLevel = 1
  SyncLimit = 1
  Silent = {}
  MaxRounds <- MCMaxRounds
  MaxView = 1
  MaxStarts = 1
INVARIANTS Agreement
