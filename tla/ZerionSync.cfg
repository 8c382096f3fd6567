SPECIFICATION Spec
CONSTANTS
    r1 = r1
    r2 = r2
    w1 = w1
    w2 = w2
    NoRow = NoRow
    Runs <- MCRuns
    Workers <- MCWorkers
    Transactions <- MCTransactions
    Wallet <- MCWallet
    ListedAt <- MCListedAt
    ChangesAt <- MCChangesAt
    PageSize = 1
    RunBudgets = {1, 3}
    DailyLimit = 5
    DailyBudget = 3
    ServerLimits = {4}
    Gap = 1
    ServerGaps = {1}
    Cooldown = 1
    Day = 2
    MaxTime = 2
    MaxRuns = 3
    None <- MCNone
SYMMETRY Symmetric
VIEW Unlabelled
CHECK_DEADLOCK FALSE
INVARIANTS
    TypeOK
    WithinBudget
    StoredOnce
PROPERTIES
    SlotsSpaced
    CoolsDown
    ImplementsReader
