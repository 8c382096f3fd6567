---------------------------- MODULE MCExchangeSync ----------------------------
(***************************************************************************)
(* The exchange connectors on a small instance: two syncs, five items, a   *)
(* clock of three ticks, two days of two instants.                         *)
(***************************************************************************)
EXTENDS ExchangeSync, TLC

CONSTANTS r1, r2, a, b, x, NoDate

MCRuns == {r1, r2}
MCEvents == 1..5
MCAssets == {a, b}
MCSymbols == {x}
MCNoTime == NoDate

Thing(product, kind, time, seen, final, posts) ==
    [product |-> product, kind |-> kind, symbol |-> x, time |-> time,
     seen |-> seen, final |-> final, posts |-> posts]

\* A deposit that is pending for a while, three trades of which two share an
\* instant and one is listed late, and an income that is not posted.
MCHistory == <<
    Thing("spot", "transfer", 1, 1, 2, TRUE),
    Thing("linear", "trade", 0, 0, 0, TRUE),
    Thing("linear", "trade", 1, 2, 2, TRUE),
    Thing("spot", "trade", 1, 1, 1, TRUE),
    Thing("linear", "income", 1, 1, 1, FALSE)>>

\* One asset is gone from the second day on; one position is opened on the day
\* the other is closed.
MCHeld == [t \in 0..3 |->
    [p \in {"spot", "linear", "inverse"} |->
        IF p # "spot" THEN {} ELSE IF t < 2 THEN {a, b} ELSE {b}]]
MCOpen == [t \in 0..3 |-> [p \in {"spot", "linear", "inverse"} |->
    IF (p = "linear" /\ t < 3) \/ (p = "inverse" /\ t > 2) THEN {x} ELSE {}]]

Ask(products, symbols, start, end) ==
    [products |-> products, symbols |-> symbols, start |-> start, end |-> end]

\* Everything, but no market of the inverse futures named; a range of the spot account.
MCRequests == {
    Ask({"spot", "linear", "inverse"},
        [p \in {"spot", "linear", "inverse"} |-> IF p = "inverse" THEN {} ELSE {x}],
        NoDate, NoDate),
    Ask({"spot"}, [p \in {"spot", "linear", "inverse"} |-> {x}], 1, 2)}

Symmetric == Permutations(MCRuns)

\* How a sync ended is looked at in the step that ends it.
Unlabelled ==
    <<world, database, begun, [r \in Runs |-> IF At(r, "idle") THEN Idle("none") ELSE run[r]]>>

MCMaxRecords == [k \in {"transfer", "trade", "income"} |-> 4]
=============================================================================
