SPECIFICATION SoloSpec
CHECK_DEADLOCK FALSE
CONSTANTS
  Account = {0, 1, 2}
  Local = 0
  None = None
  SoloAccount = 0
  MaxUint64 = 3
  Uint8Modulus = 2
  Capacity = 1
  MaxHeight = 4
  MaxCalls = 2
INVARIANTS SoloTypeOK OneMasterAtMost MasterKept
PROPERTIES GoodBlockDecided KeepsProducing
