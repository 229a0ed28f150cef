SPECIFICATION Spec
CONSTANTS
  Modulus = 24
  FrameSizes = {2, 3}
  InitialFrame = 3
  ClippingWindow = 6
  NackDelays = {1}
  ResendIntervals = {2}
  GiveUpAfter = 3
  SequenceTimeout = 3
  FirstIds = {21}
  Steps = {1, 2, 7, 22, 23}
  WatchInterval = 5
  MaxLate = 1
  Commands = {"reset_resends", "set_frame_size", "configure", "close"}
  MaxTime = 11
  MaxPackets = 4
INVARIANTS TypeOK   MissingBounded
PROPERTIES NothingForgotten  RequestsPaced
CHECK_DEADLOCK FALSE
