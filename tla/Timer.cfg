SPECIFICATION Spec
CHECK_DEADLOCK FALSE
CONSTANTS
  Thread = {"event", "user"}
  EventThread = "event"
  MaxCalls = 4
INVARIANTS DeliveredOnce
PROPERTIES  CallsReturn
