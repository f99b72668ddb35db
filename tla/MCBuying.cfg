SPECIFICATION FairSpec
CONSTANTS
  s1 = s1
  s2 = s2
  NumPieces = 3
  NoPiece = NoPiece
  Sellers = {s1, s2}
  MaxPriority = 1
  BoughtMayFail = FALSE
INVARIANTS
  TypeOK
  PicksFirstOfHighestPriority
  SessionKnowsPieces
  ArrivedIsChecked
PROPERTIES
  BuysWhatIsMissing
  DownloadCompletes
