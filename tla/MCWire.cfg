SPECIFICATION FairSpec
CONSTANTS
  NumMessages = 2
  Clients <- TwoClients
  MinimumMessageIds = {254, 255}
  OtherIds = {20}
  MaxInFlight = 3
INVARIANTS
  TypeOK
  NeverDroppedForHandshake
  QuietEndsAgree
  DecodedAsSent
PROPERTIES
  StartedEndsJoin
  ImplementsTorrentPlugin
