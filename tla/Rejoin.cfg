SPECIFICATION Spec
CHECK_DEADLOCK FALSE
CONSTANTS
  N = 4
  CurrentHeight <- MCCurrentHeight
  FirstMaster <- MCFirstMaster
  FirstView <- MCFirstView
  Running = {0, 2}
  Down = {}
INVARIANTS RunningSurvive RejoinAgreement
