SPECIFICATION Spec
CONSTANTS
  N = 4
  Block <- MCBlock
  Genesis = "g"
  Parent <- MCParent
  Height <- MCHeight
INVARIANTS VotingInv ParentAgreement Finality
