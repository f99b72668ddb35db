SPECIFICATION Spec
CONSTANTS
  e1 = e1
  p1 = p1
  e2 = e2
  p2 = p2
  e3 = e3
  p3 = p3
  NoPeerId = NoPeerId
  NoEndPoint = NoEndPoint
  EndPoints <- TwoEndPoints
  PeerIds <- TwoPeerIds
  Pieces = {1}
  MaxReads = 1
  PeerHandshakes <- AllHandshakes
  ReadsMayFail = FALSE
  ReadsMayBeLost = FALSE
  NDEBUG = FALSE
INVARIANTS
  OnExtendedAssertionHolds
CHECK_DEADLOCK FALSE
