SPECIFICATION Spec
CONSTANTS
  NumMessages = 2
  MinimumMessageIds <- MCMinimumMessageIds
  OtherPlugins <- MCOtherPlugins
  ForeignDictionaries <- MCForeignDictionaries
INVARIANTS
  TypeOK
  RoundTrip
  NeverMistakenForUninstall
  LookupInvertsId
  UninstallRecognised
CHECK_DEADLOCK FALSE
