SPECIFICATION FairSpec
CONSTANTS
  MaxOutgoing = 1
  Orderings = {FALSE}
  Early = TRUE
  MaxOpened = 2
  MaxMessages = 1
  MaxCloses = 2
INVARIANTS TypeOK OpenTogether AckedIsAccepted RightChannel
PROPERTIES  ResetsRequested 
CHECK_DEADLOCK FALSE
