SPECIFICATION Spec
CONSTANTS
  t1 = t1
  NoRequest = NoRequest
  InfoHashes <- OneTorrent
  Kinds <- SessionKinds
  MaxSubmits = 3
  AlertLimit = 1
  Lossy = TRUE
INVARIANTS
  AnswersAreCurrent
  InOrderOfSubmission
PROPERTIES
  MatchedUntilRemovalDropped
CHECK_DEADLOCK FALSE
