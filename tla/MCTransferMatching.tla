-------------------------- MODULE MCTransferMatching --------------------------
(* Instances of TransferMatching for TLC. *)
EXTENDS TransferMatching, TLC

CONSTANTS r1, r2, r3, r4,     \* requests
          s1, s2, s3,         \* withdrawals
          d1, d2              \* deposits

TwoRequests   == {r1, r2}
ThreeRequests == {r1, r2, r3}
FourRequests  == {r1, r2, r3, r4}
RequestSymmetry == Permutations(Requests)

MCSources      == {s1, s2, s3}
MCDestinations == {d1, d2}

\* s1 competes for both deposits, d2 for both withdrawals; s3's entries are
\* ambiguous, so the code never pairs it.
MCPairs == {<<s1, d1>>, <<s1, d2>>, <<s2, d2>>, <<s3, d1>>}

MCAmbiguous == {s3}

\* Same hash and asset throughout, so the scores are 100 and 90, which a run
\* matches by itself, and 80, which it leaves to review.
SameTransfer(amount, time) ==
    [hash |-> TRUE, asset |-> TRUE, amount |-> amount, time |-> time]

MCEvidence == [p \in Pairs |->
    IF p[2] = d1 THEN SameTransfer("close", "close")
    ELSE IF p[1] = s1 THEN SameTransfer("tolerable", "close")
    ELSE SameTransfer("tolerable", "days")]

\* A run sees everything, or a period with s1 and only its second-best deposit.
WholeHistory == {Events}
TwoWindows   == {Events, Events \ {d1}}
=============================================================================
