------------------------------ MODULE MCDashboard ------------------------------
(***************************************************************************)
(* Snapshots on a small instance: an exchange with a spot account and a    *)
(* derivative one, a wallet with a coin, two days of two instants.         *)
(***************************************************************************)
EXTENDS Dashboard, TLC

CONSTANTS r1, r2, spot, perp, wallet, Nothing

MCRequests == {r1, r2}
MCSpot == {spot, wallet}
MCCoins == {wallet}
MCDerivatives == {perp}
MCConnections == {{spot, perp}}
MCNone == Nothing

\* Both days, the end of one and the beginning of the other, the end of the last.
MCRanges == {<<0, 3>>, <<1, 2>>, <<3, 3>>}

Movement(account, at, amount, kind) ==
    [account |-> account, at |-> at, amount |-> amount, kind |-> kind]
Opening == {Movement(spot, 0, 4, "transfer"), Movement(wallet, 0, 1, "transfer")}

\* Money goes from the spot account to the derivatives and is under way for an
\* instant; later there is a deposit.
Margin == [source |-> Movement(spot, 1, -1, "transfer"),
           destination |-> Movement(perp, 2, 1, "transfer")]
Deposit == Movement(spot, 2, 5, "transfer")
Loan == Movement(spot, 3, 8, "borrow")

MCMovements == Opening \cup {Margin.source, Margin.destination, Deposit, Loan}
MCTransfers == {Margin}
MCQuote == [t \in 0..3 |-> <<10, 10, 20, 20>>[t + 1]]
MCResults == [d \in {perp} |-> [t \in 0..3 |-> IF t < 3 THEN 0 ELSE 2]]

Symmetric == Permutations(MCRequests)
=============================================================================
