SPECIFICATION FairSpec
CONSTANTS
  t1 = t1
  NoRequest = NoRequest
  InfoHashes <- OneTorrent
  Kinds <- AllKinds
  MaxSubmits = 2
  AlertLimit = 2
  Lossy = FALSE
INVARIANTS
  TypeOK
  PluginsMatchTorrents
  NoAssertionFails
PROPERTIES
  ImplementsService
