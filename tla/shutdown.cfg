SPECIFICATION FairSpec
CONSTANTS
    Clients = {c1, c2}
    Ticker = Ticker
    Free = Free
    MaxSteps = 2
INVARIANTS
    TypeOK
    ToldIsDurable
    TickerMeetsOpenStore
    RequestsServed
PROPERTIES
    ToldOnlyIfSavable
    ShutdownCompletes
