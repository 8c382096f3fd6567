SPECIFICATION Spec
CONSTANTS
    r1 = r1
    r2 = r2
    a = a
    b = b
    x = x
    NoDate = NoDate
    Runs <- MCRuns
    Events <- MCEvents
    Assets <- MCAssets
    Symbols <- MCSymbols
    History <- MCHistory
    Held <- MCHeld
    Open <- MCOpen
    Requests <- MCRequests
    NoTime <- MCNoTime
    MaxTime = 3
    MaxSyncs = 3
    Day = 2
    Overlap = 1
    Lookback = 2
    Span = 2
    PageSize = 2
    MaxRecords <- MCMaxRecords
SYMMETRY Symmetric
VIEW Unlabelled
CHECK_DEADLOCK FALSE
INVARIANTS
    TypeOK
    PostedOnce
    
    NothingLingers
    OneReading
    OpenPositionsShown
PROPERTIES
    SucceededIsWhole
    ImplementsReader
