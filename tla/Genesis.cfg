SPECIFICATION Spec
CHECK_DEADLOCK FALSE
CONSTANTS
  N = 3
  CurrentHeight <- MCCurrentHeight
  FirstMaster <- MCFirstMaster
  FirstView <- MCFirstView
  Running = {}
  Down = {}
INVARIANTS OnlineInv OnlineCertificate
PROPERTIES AllOnline
