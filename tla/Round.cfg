SPECIFICATION ToldSpec
CHECK_DEADLOCK FALSE
CONSTANTS
  N = 3
  Block <- MCBlock
  Genesis = "g"
  Parent <- MCParent
  Height <- MCHeight
  Producer <- MCProducer
  WithoutTxs = {"b"}
  Invalid = {"x"}
  Unsigned = {"u"}
  EnableEmptyBlock = FALSE
  None = "none"
  MaxPayloadCacheNum = 10
  UintModulus = 65536
  OnLineFirst = {}
  WalterLevel = 1
  SyncLimit = 1
  Silent = {}
  MaxRounds <- MCMaxRounds
  MaxView = 0
  MaxStarts = 0
INVARIANTS TypeOK CertifiedCommit ChainCertified
PROPERTIES ImplementsVoting
