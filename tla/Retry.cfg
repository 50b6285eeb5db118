SPECIFICATION FairSpec
CHECK_DEADLOCK FALSE
CONSTANTS
  N = 2
  Block <- MCBlock
  Genesis = "g"
  Parent <- MCParent
  Height <- MCHeight
  Producer <- MCProducer
  WithoutTxs = {}
  Invalid = {}
  Unsigned = {"u"}
  EnableEmptyBlock = FALSE
  None = "none"
  MaxPayloadCacheNum = 10
  UintModulus = 65536
  OnLineFirst = {}
  WalterLevel = 1
  SyncLimit = 1
  Silent = {}
  MaxRounds <- MCMaxRounds
  MaxView = 0
  MaxStarts = 0
INVARIANTS CoreInv CertifiedCommit OneContentEarly
PROPERTIES RoundTerminates
