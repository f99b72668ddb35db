SPECIFICATION Spec
CONSTANTS
  NumMessages = 2
  MinimumMessageIds <- MCMinimumMessageIds
  OtherPlugins <- MCOtherPlugins
  ForeignDictionaries <- MCForeignDictionaries
INVARIANTS
  EmptyOrBijective
CHECK_DEADLOCK FALSE
