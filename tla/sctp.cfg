SPECIFICATION Spec
CONSTANTS
  Sessions = {s1, s2}
  TimerKinds = {"MessageSend"}
  MaxPackets = 2
  MaxDatagrams = 1
INVARIANTS Conveyed 
PROPERTY Flows
CHECK_DEADLOCK FALSE
