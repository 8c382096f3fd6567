SPECIFICATION Spec
CONSTANTS
    r1 = r1  r2 = r2  r3 = r3  r4 = r4
    s1 = s1  s2 = s2  s3 = s3  d1 = d1  d2 = d2
    Requests <- FourRequests
    MaxOpen = 1
    Sources <- MCSources
    Destinations <- MCDestinations
    Pairs <- MCPairs
    Evidence <- MCEvidence
    Ambiguous <- MCAmbiguous
    Windows <- TwoWindows
SYMMETRY RequestSymmetry
INVARIANT CandidateAgreesWithGroup
PROPERTIES RunIsGreedy UserVerdictsStand
CHECK_DEADLOCK FALSE
