SPECIFICATION Spec
CONSTANTS
    r1 = r1
    r2 = r2
    spot = spot
    perp = perp
    wallet = wallet
    Nothing = Nothing
    Requests <- MCRequests
    Spot <- MCSpot
    Coins <- MCCoins
    Derivatives <- MCDerivatives
    Connections <- MCConnections
    Movements <- MCMovements
    Transfers <- MCTransfers
    Quote <- MCQuote
    Results <- MCResults
    MaxAge = 1
    Day = 2
    Ranges <- MCRanges
    MaxTime = 3
    Lag = 1
    MaxReadings = 4
    MaxPrices = 2
    MaxRequests = 2
    None <- MCNone
SYMMETRY Symmetric
CHECK_DEADLOCK FALSE
INVARIANTS
    TypeOK
    
    NetWorthIsTrue
    ReturnIsReal
    BackfillCovers
    NeverTwiceADay
