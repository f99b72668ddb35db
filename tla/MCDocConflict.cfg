SPECIFICATION Spec
CONSTANTS
  NumMessages = 2
  Clients <- TwoClients
  MinimumMessageIds = {20, 21}
  OtherIds = {20}
  MaxInFlight = 2
INVARIANTS
  NoConflictWithOtherPlugins
