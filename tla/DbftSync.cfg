SPECIFICATION FocusSpec
CHECK_DEADLOCK FALSE
CONSTANTS
  N = 2
  Block <- MCBlock
  Genesis = "g"
  Parent <- MCParent
  Height <- MCHeight
  None = "none"
  Invalid = {}
  Unsigned = {"x"}
  Serial = FALSE
  FirstChains <- MCFirstChains
  MaxRounds <- MCMaxRounds
  OnLineFirst = {0, 1}
  MaxView = 2
  Impatient <- MCImpatient
PROPERTIES SyncSurvived
