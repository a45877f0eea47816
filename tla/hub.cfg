\* Two connections and two players, under fairness of the goroutines: joins,
\* resumptions on the other connection, a game, closing of the room and of the hub.
SPECIFICATION FairSpec
CONSTANTS
  c1 = c1
  c2 = c2
  Clients <- TwoClients
  NoClient = NoClient
  MinPlayers = 1
  MaxPlayers = 2
  MaxVersion = 2
CHECK_DEADLOCK FALSE
INVARIANTS TypeOK NoOrphan LastConnectWins
PROPERTIES DeadConnectionsLeave ClosedHubEmpties
