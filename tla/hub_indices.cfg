\* A client unregistered while its handler works on it.
SPECIFICATION Spec
CONSTANTS
  c1 = c1
  c2 = c2
  Clients <- TwoClients
  NoClient = NoClient
  MinPlayers = 1
  MaxPlayers = 2
  MaxVersion = 3
CHECK_DEADLOCK FALSE
INVARIANT IndicesCoordinated
