SPECIFICATION Spec
CONSTANTS
  Modulus = 3
  MaxSavedPackets = 2
  MaxSavedBytes = 4
  MaxPacketAge = 2
  MinResendInterval = 1
  CleanupInterval = 2
  Sizes = {1, 3}
  Renumbers = {0}
  MaxFailures = 1
  MaxSends = 4
  MaxQueued = 1
  MaxTime = 3
INVARIANTS TypeOK HistoryKeeps Unambiguous
PROPERTY RetransmitPaced
CHECK_DEADLOCK FALSE
