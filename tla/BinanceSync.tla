------------------------------ MODULE BinanceSync ------------------------------
(***************************************************************************)
(* BinanceSyncService (backend/app/connectors/binance): each product is an *)
(* account, a transaction and a cursor of its own.  Snapshots are dated    *)
(* with the midnight of the day.                                           *)
(***************************************************************************)
EXTENDS ExchangeHistory

BinancePlan(r, q) ==
    /\ provider = "binance" /\ q.products # {}
    /\ Begin(r, q, Midnight(now), Start(q), q.products, "check")

BinanceCheck(r) == provider = "binance" /\ CheckKey(r, "history")

BinanceStart(s, product) ==
    IF s.request.start # NoTime \/ cursor[product] = NoTime THEN s.start
    ELSE Later(s.start, Minus(cursor[product], Overlap))

\* Mutant: forgets the assets that are gone.
BinanceBalancesKeep(s, account) == Balances(s, account, Held[now][account], {})

\* The accounts' balances; what was held before and is not listed is now zero.
BinanceBalances(s, account) ==
    Balances(s, account, Held[now][account], Known(account) \ Held[now][account])

\* Mutant: the raw event stays as it was first seen.
TransfersUnrefreshed(s, listed) == Store(s, listed, {e \in listed : IsFinal(e)})

\* Mutant: treats a transfer like a trade, which is final when it is first seen.
TransfersOnce(s, listed) == Store(s, listed, {e \in New(listed) : IsFinal(e)})

\* A transfer is posted as soon as it is listed as final, with its raw event
\* brought up to date.
Transfers(s, listed) ==
    LET final == {e \in listed : IsFinal(e)}
    IN [Store(s, listed, final) EXCEPT !.refreshed = @ \cup Unposted(final)]

Trades(s, listed) == Store(s, listed, New(listed))

\* The history of a product counts as whole when its markets were named.
Covered(symbols) == symbols # {}

\* What the collector asks for.
WalletHistory(start, end) == Listed("spot", "transfer", Windowed(start, end))

Traded(product, symbols, instants) ==
    {e \in Listed(product, "trade", instants) : History[e].symbol \in symbols}

SpotTrades(symbols, start, end) == Traded("spot", symbols, start..end)

FuturesTrades(product, symbols, start, end) == Traded(product, symbols, Windowed(start, end))

FuturesIncome(product, start, end) == Listed(product, "income", Windowed(start, end))

\* The products in the order of the request, which here is always the same.
Turn(s) == IF "spot" \in s.todo THEN "spot" ELSE IF "linear" \in s.todo THEN "linear" ELSE "inverse"

BinanceSpot(r) ==
    LET s == run[r]
        from == BinanceStart(s, "spot")
        symbols == s.request.symbols["spot"]
        transfers == WalletHistory(from, s.end)
        trades == SpotTrades(symbols, from, s.end)
        state == BinanceBalances(Once(s, "spot"), "spot")
    IN /\ provider = "binance" /\ At(r, "history") /\ Turn(s) = "spot"
       /\ Become(r, [Trades(Transfers(state, transfers), trades) EXCEPT
            !.pc = "commit", !.product = "spot", !.from = from,
            !.complete = Covered(symbols), !.warned = @ \/ ~Covered(symbols),
            !.due = @ \cup Due({"spot"} \X {"transfer", "trade"}, symbols, from, s.end)])

\* Without markets in the request, those with a position are asked for.
Markets(s, product) ==
    LET symbols == s.request.symbols[product]
    IN IF symbols # {} THEN symbols ELSE Open[now][product]

\* Commissions, which have no posting of their own, are ignored.
Income(s, listed) ==
    [Store(s, listed, New(listed)) EXCEPT
        !.ignored = @ \cup {e \in New(listed) : ~History[e].posts}]

\* The exchange keeps the income of USD-M futures for 90 days and their trades
\* for twice as long.
Reach(product, kept, start, end) ==
    IF product = "linear" THEN Later(start, Minus(end, kept)) ELSE start

BinanceFutures(r, product) ==
    LET s == run[r]
        symbols == s.request.symbols[product]
        start == BinanceStart(s, product)
        traded == Reach(product, 2 * Lookback, start, s.end)
        from == Reach(product, Lookback, start, s.end)
        trades == FuturesTrades(product, Markets(s, product), traded, s.end)
        income == FuturesIncome(product, from, s.end)
        state == Positions(BinanceBalances(s, product), product, product, Open[now][product])
    IN /\ provider = "binance" /\ At(r, "history") /\ Turn(s) = product
       /\ Become(r, [Income(Trades(state, trades), income) EXCEPT
            !.pc = "commit", !.product = product, !.from = from,
            !.complete = Covered(symbols),
            !.warned = @ \/ from # start \/ ~Covered(symbols),
            !.due = @ \cup Due({product} \X {"trade", "income"}, symbols, from, s.end)])

BinanceCommit(r) ==
    LET s == run[r]
        rest == s.todo \ {s.product}
    IN /\ provider = "binance" /\ At(r, "commit") /\ ~Collides(s)
       /\ Save(s)
       /\ IF s.complete THEN Move(s.product, s) ELSE Stay
       /\ run' = [run EXCEPT ![r] =
            IF rest = {} THEN Finished(s)
            ELSE [Cleared(s) EXCEPT !.pc = "history", !.todo = rest,
                                    !.done = @ \cup {s.product}]]

\* A call fails, or an insert collides: the product is rolled back and
\* the products after it are not tried.
BinanceFails(r) ==
    /\ provider = "binance"
    /\ \/ GivesUp(r, {"check", "history"})
       \/ At(r, "commit") /\ Collides(run[r])
    /\ Stop(r, IF run[r].done # {} THEN "partial" ELSE "failed")

BinanceStep(r) ==
    \/ BinanceCheck(r) \/ BinanceSpot(r)
    \/ \E product \in Futures : BinanceFutures(r, product)
    \/ BinanceCommit(r) \/ BinanceFails(r)
=============================================================================
