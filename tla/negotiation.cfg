SPECIFICATION FairSpec
CONSTANTS
  a = a
  b = b
  a1 = a1
  a2 = a2
  b1 = b1
  Peer = {a, b}
  Media = {"audio"}
  Ssrc <- OneEach
  ChannelsAllow = {a}
  Initiators = {a, b}
INVARIANTS LinesConsistent OfferAwaited Agreement ChangesPending
PROPERTIES LinesKeepTheirPlace Renegotiates
