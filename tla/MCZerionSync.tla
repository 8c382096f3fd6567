----------------------------- MODULE MCZerionSync -----------------------------
(***************************************************************************)
(* The Zerion shadow sync on a small instance: two runs, three             *)
(* transactions on pages of one, a day of two instants and the next one.   *)
(***************************************************************************)
EXTENDS ZerionSync, TLC

CONSTANTS r1, r2, w1, w2, NoRow

MCRuns == {r1, r2}
MCWorkers == {w1, w2}
MCTransactions == 1..3
MCWallet == 0
MCNone == NoRow

\* The newest transaction is listed after the others; the payload of the first
\* and the positions change.
MCListedAt == <<0, 0, 1>>
MCChangesAt == [e \in 0..3 |-> IF e < 2 THEN 1 ELSE 9]

Symmetric == Permutations(MCRuns) \cup Permutations(MCWorkers)

\* How a run ended is looked at in the step that ends it.
Unlabelled ==
    <<workers, now, source, quota, cursor, raw, begun, history,
      [r \in Runs |-> IF At(r, "idle") THEN Idle("none") ELSE run[r]]>>
=============================================================================
