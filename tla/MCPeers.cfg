SPECIFICATION Spec
CONSTANTS
  e1 = e1
  p1 = p1
  e2 = e2
  p2 = p2
  e3 = e3
  p3 = p3
  NoPeerId = NoPeerId
  NoEndPoint = NoEndPoint
  EndPoints <- ThreeEndPoints
  PeerIds <- ThreePeerIds
  Pieces = {1}
  MaxReads = 2
  PeerHandshakes <- AllHandshakes
  ReadsMayFail = TRUE
  ReadsMayBeLost = TRUE
  NDEBUG = TRUE
SYMMETRY PeerSymmetry
INVARIANTS
  TypeOK
  PeersIndexed
  MembersHaveCompletedHandshake
  SupportedPeersInSession
  SupportedIffMapped
  AnnouncedMatchesSession
  BannedPeersAreOut
PROPERTIES
  JoinsWithMapping
  
CHECK_DEADLOCK FALSE
