SPECIFICATION Spec
CONSTANTS
  Span = 3
  MinuteSlots = 2
  Payloads = {1}
  Limits = {8}
  WatchInterval = 1
  MaxLate = 1
  MaxTime = 4
  MaxPackets = 3
  MaxControl = 2
  MaxLost = 1
INVARIANT Halves
PROPERTIES ViolationsTrue KeepsPromise
CHECK_DEADLOCK FALSE
