SPECIFICATION Spec
CONSTANTS
    r1 = r1  r2 = r2  pay = pay  idle = idle  buy = buy  sell = sell
    usdc = usdc  dai = dai  Native = Native  NoBlock = NoBlock
    Runs <- TwoRuns
    Txs <- SomeTxs
    Contracts <- TwoTokens
    Chain <- SomeHistory
    Requests <- Hashes
    Faults = {"lag"}
    FirstBlock = 1
    MaxBlock = 2
    Confirmations = 0
    Lookback = 4
    MaxSpan = 5
    ScanMax = 4
    ChunkSize = 4
    MaxContracts = 1
INVARIANT PostedOnce
SYMMETRY RunSymmetry
CHECK_DEADLOCK FALSE
