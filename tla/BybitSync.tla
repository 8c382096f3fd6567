------------------------------- MODULE BybitSync -------------------------------
(***************************************************************************)
(* BybitSyncService (backend/app/connectors/bybit): one unified account    *)
(* and one transaction; no cursor, every sync reads its whole range again. *)
(* Snapshots are dated with the midnight of the day.                       *)
(***************************************************************************)
EXTENDS ExchangeHistory

BybitPlan(r, q) ==
    /\ provider = "bybit" /\ q.products # {}
    /\ Begin(r, q, Midnight(now), Start(q), q.products, "check")

BybitCheck(r) == provider = "bybit" /\ CheckKey(r, "balances")

BybitBalances(s) ==
    Balances(s, "spot", (UNION {Held[now][p] : p \in Products}) \cup {"equity"}, {})

\* One raw event for each product of the futures, linear before inverse.
BybitPositions(s) ==
    LET Read(session, product) ==
          IF product \in s.todo
          THEN Positions(session, "spot", product, Open[now][product]) ELSE session
    IN [Read(Read(s, "linear"), "inverse") EXCEPT !.warned = "inverse" \in s.todo]

BybitState(r) ==
    /\ provider = "bybit" /\ At(r, "balances")
    /\ Become(r, [BybitPositions(BybitBalances(run[r])) EXCEPT !.pc = "wallet"])

\* The pages of each window of the range.
Paged(s, product, kind) == Listed(product, kind, Windowed(s.from, s.end))

\* Mutant: a transfer is looked at once only.
BybitPostedOf(listed) == {e \in New(listed) : IsFinal(e)}

\* What is posted of the transfers that are listed: all that are final by now.
BybitPosted(listed) == {e \in listed : IsFinal(e)}

BybitWalletHistory(r) ==
    LET s == run[r]
        listed == Paged(s, "spot", "transfer")
    IN /\ provider = "bybit" /\ At(r, "wallet")
       /\ Become(r, [Store(s, listed, BybitPosted(listed)) EXCEPT
            !.pc = "history", !.due = Due({<<"spot", "transfer">>}, {}, s.from, s.end)])

\* The transaction log of the account without its trades; the trades of spot
\* come from the executions, of all markets unless some were named.
BybitTransactions(r) ==
    LET s == run[r]
        log == Paged(s, "linear", "income") \cup Paged(s, "inverse", "income")
        fills == {e \in Paged(s, "spot", "trade") :
                    "spot" \in s.todo /\ History[e].symbol \in Wanted(s.request)}
        kinds == (Futures \X {"income"}) \cup ((s.todo \cap {"spot"}) \X {"trade"})
    IN /\ provider = "bybit" /\ At(r, "history")
       /\ Become(r, [Store(Store(s, log, log), fills, New(fills)) EXCEPT
            !.pc = "commit",
            !.due = @ \cup Due(kinds, Wanted(s.request), s.from, s.end)])

BybitCommit(r) ==
    /\ provider = "bybit" /\ At(r, "commit") /\ ~Collides(run[r])
    /\ Save(run[r]) /\ Stay
    /\ run' = [run EXCEPT ![r] = Finished(run[r])]

BybitFails(r) ==
    /\ provider = "bybit"
    /\ \/ GivesUp(r, {"check", "balances", "wallet", "history"})
       \/ At(r, "commit") /\ Collides(run[r])
    /\ Stop(r, "failed")

BybitStep(r) ==
    \/ BybitCheck(r) \/ BybitState(r) \/ BybitWalletHistory(r)
    \/ BybitTransactions(r) \/ BybitCommit(r) \/ BybitFails(r)
=============================================================================
