SPECIFICATION BftSpec
CHECK_DEADLOCK FALSE
CONSTANTS
  N = 2
  Block <- MCBlock
  Genesis = "g"
  Parent <- MCParent
  Height <- MCHeight
  None = "none"
  Invalid = {"x"}
  Unsigned = {}
  Serial = TRUE
  FirstChains <- MCFirstChains
  MaxRounds <- MCMaxRounds
INVARIANTS RoundInv StoredVerified CertifiedUnlessAbandoned CrashOnlyAbandoned
PROPERTIES RoundAnnounced VotesUnlessAbandoned
