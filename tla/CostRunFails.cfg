SPECIFICATION Spec
CONSTANTS
    Runs <- FifoRun
    Ledger <- WithdrawLedger
    Accounts <- MCAccounts
    Assets <- MCAssets
    Par <- MCPar
    AsOf = 4
    Balances <- NoBalances
INVARIANT RunCompletes
CHECK_DEADLOCK FALSE
