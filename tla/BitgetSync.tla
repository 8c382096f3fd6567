------------------------------- MODULE BitgetSync -------------------------------
(***************************************************************************)
(* BitgetSyncService (backend/app/connectors/bitget): an account for each  *)
(* product, one transaction for them all, no cursor.  Snapshots are dated  *)
(* with the midnight of the day.                                           *)
(***************************************************************************)
EXTENDS ExchangeHistory

BitgetPlan(r, q) ==
    /\ provider = "bitget" /\ q.products # {}
    /\ Begin(r, q, Midnight(now), Start(q), q.products, "check")

BitgetCheck(r) == provider = "bitget" /\ CheckKey(r, "balances")

BitgetBalancesAndPositions(r) ==
    LET s == run[r]
        Spot(session) == Balances(Once(session, "spot"), "spot", Held[now]["spot"], {})
        Future(session, product) ==
          IF product \in s.todo
          THEN Balances(Positions(session, product, product, Open[now][product]),
                        product, Held[now][product] \cup {"equity"}, {})
          ELSE session
        spot == IF "spot" \in s.todo THEN Spot(s) ELSE s
    IN /\ provider = "bitget" /\ At(r, "balances")
       /\ Become(r, [Future(Future(spot, "linear"), "inverse") EXCEPT !.pc = "wallet"])

\* The pages of each window of a range.
BitgetPages(product, kind, start, end) == Listed(product, kind, Windowed(start, end))

BitgetWalletHistory(r) ==
    LET s == run[r]
        listed == BitgetPages("spot", "transfer", s.from, s.end)
    IN /\ provider = "bitget" /\ At(r, "wallet")
       /\ Become(r, [Store(s, listed, {e \in listed : IsFinal(e)}) EXCEPT
            !.pc = "history", !.due = Due({<<"spot", "transfer">>}, {}, s.from, s.end)])

\* Fills and bills are kept by the exchange for 90 days.
Kept(s) == Later(s.from, Minus(s.end, Lookback))

BitgetSpotFills(s) ==
    LET asked == s.todo \cap {"spot"}
        fills == {e \in BitgetPages("spot", "trade", Kept(s), s.end) :
                    asked # {} /\ History[e].symbol \in Wanted(s.request)}
    IN [Store(s, fills, New(fills)) EXCEPT
          !.warned = @ \/ (Kept(s) # s.from /\ asked # {}),
          !.due = @ \cup Due(asked \X {"trade"}, Wanted(s.request), s.from, s.end)]

\* Fills are posted when first seen, bills unless they are posted.
BitgetFutures(s) ==
    LET asked == s.todo \cap Futures
        Answer(kind) == UNION {BitgetPages(p, kind, Kept(s), s.end) : p \in asked}
        filled == Store(s, Answer("trade"), New(Answer("trade")))
    IN [Store(filled, Answer("income"), Answer("income")) EXCEPT
          !.warned = @ \/ (Kept(s) # s.from /\ asked # {}),
          !.due = @ \cup Due(asked \X {"trade", "income"}, Symbols, s.from, s.end)]

BitgetHistory(r) ==
    /\ provider = "bitget" /\ At(r, "history")
    /\ Become(r, [BitgetFutures(BitgetSpotFills(run[r])) EXCEPT !.pc = "commit"])

BitgetCommit(r) ==
    /\ provider = "bitget" /\ At(r, "commit") /\ ~Collides(run[r])
    /\ Save(run[r]) /\ Stay
    /\ run' = [run EXCEPT ![r] = Finished(run[r])]

BitgetFails(r) ==
    /\ provider = "bitget"
    /\ \/ GivesUp(r, {"check", "balances", "wallet", "history"})
       \/ At(r, "commit") /\ Collides(run[r])
    /\ Stop(r, "failed")

BitgetStep(r) ==
    \/ BitgetCheck(r) \/ BitgetBalancesAndPositions(r) \/ BitgetWalletHistory(r)
    \/ BitgetHistory(r) \/ BitgetCommit(r) \/ BitgetFails(r)
=============================================================================
