SPECIFICATION Spec
CONSTANTS
  a = a
  b = b
  a1 = a1
  a2 = a2
  b1 = b1
  Peer = {a, b}
  Media = {"audio"}
  Ssrc <- TwoAndNone
  ChannelsAllow = {a}
  Initiators = {a}
INVARIANTS OwnerIsLine
