SPECIFICATION Spec
CONSTANTS
    r1 = r1  r2 = r2  pay = pay  idle = idle  buy = buy  sell = sell
    usdc = usdc  dai = dai  Native = Native  NoBlock = NoBlock
    Runs <- OneRun
    Txs <- TokenTxs
    Contracts <- OneToken
    Chain <- SomeHistory
    Requests <- Ranges
    Faults = {"error", "lag"}
    FirstBlock = 2
    MaxBlock = 3
    Confirmations = 1
    Lookback = 2
    MaxSpan = 3
    ScanMax = 2
    ChunkSize = 2
    MaxContracts = 1
INVARIANTS TypeOK CursorCovers OnlyConfirmedIsPosted
PROPERTY SucceededIsWhole
CHECK_DEADLOCK FALSE
