SPECIFICATION Spec
CONSTANTS
  Modulus = 65536
  MaskBits = 16
  ClippingWindow = 256
  FirstIds = {100, 65530}
  MaxAsked = 4
INVARIANT LostAreRequested
CHECK_DEADLOCK FALSE
