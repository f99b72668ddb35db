SPECIFICATION FairSpec
CONSTANTS
  e1 = e1
  p1 = p1
  e2 = e2
  p2 = p2
  e3 = e3
  p3 = p3
  NoPeerId = NoPeerId
  NoEndPoint = NoEndPoint
  EndPoints <- TwoEndPoints
  PeerIds <- TwoPeerIds
  Pieces = {1, 2}
  MaxReads = 2
  PeerHandshakes <- CorrectHandshakes
  ReadsMayFail = TRUE
  ReadsMayBeLost = FALSE
  NDEBUG = FALSE
INVARIANTS
  MembersHaveMapping
  OnExtendedAssertionHolds
  AddToSessionAssertionHolds
  OutstandingWillBeRead
PROPERTIES
  OnlyRefusalsStarve
  RegistrationsEnd
CHECK_DEADLOCK FALSE
