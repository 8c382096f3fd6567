SPECIFICATION FairSpec
CONSTANTS
    r1 = r1  r2 = r2  r3 = r3  r4 = r4
    s1 = s1  s2 = s2  s3 = s3  d1 = d1  d2 = d2
    Requests <- TwoRequests
    MaxOpen = 2
    Sources <- MCSources
    Destinations <- MCDestinations
    Pairs <- MCPairs
    Evidence <- MCEvidence
    Ambiguous <- MCAmbiguous
    Windows <- WholeHistory
PROPERTIES EveryRequestEnds 
CHECK_DEADLOCK FALSE
