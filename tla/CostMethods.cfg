SPECIFICATION Spec
CONSTANTS
    Runs <- MCRuns
    Ledger <- MCLedger
    Accounts <- MCAccounts
    Assets <- MCAssets
    Par <- MCPar
    AsOf = 4
    Balances <- MCBalances
INVARIANTS
    TypeOK
    InventoryIsHoldings
    CostIsConserved
    MethodsAgree
    
    KnownCostIsBacked
CHECK_DEADLOCK FALSE
