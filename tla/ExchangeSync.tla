------------------------------ MODULE ExchangeSync ------------------------------
(***************************************************************************)
(* The four exchange connectors over the tables and the exchange they      *)
(* share.  A connection is of one provider.  Syncs of it may overlap:      *)
(* nothing keeps a second request from starting while one is running.      *)
(***************************************************************************)
EXTENDS BinanceSync, HyperliquidSync, BybitSync, BitgetSync

Plan(r, q) ==
    \/ BinancePlan(r, q) \/ HyperliquidPlan(r, q) \/ BybitPlan(r, q) \/ BitgetPlan(r, q)

Step(r) == BinanceStep(r) \/ HyperliquidStep(r) \/ BybitStep(r) \/ BitgetStep(r)

Init ==
    /\ provider \in Providers
    /\ now = 0
    /\ key \in {"read", "trade"}
    /\ cursor = [p \in Products |-> NoTime]
    /\ since = [p \in Products |-> 0]
    /\ raw = [e \in Events |-> "absent"]
    /\ stale = {}
    /\ posted = [e \in Events |-> 0]
    /\ days = {}
    /\ balances = {}
    /\ positions = {}
    /\ marker = [p \in Products |-> NoMarker]
    /\ open = [p \in Products |-> {}]
    /\ begun = 0
    /\ run = [r \in Runs |-> Idle("none")]

Next ==
    \/ Tick
    \/ \E r \in Runs, q \in Requests : Plan(r, q)
    \/ \E r \in Runs : Step(r)
    \/ \E r \in Runs : Crash(r)

Spec == Init /\ [][Next]_vars

-----------------------------------------------------------------------------
TypeOK ==
    /\ provider \in Providers
    /\ now \in Instants
    /\ key \in {"read", "trade"}
    /\ cursor \in [Products -> Instants \cup {NoTime}]
    /\ since \in [Products -> Instants]
    /\ raw \in [Events -> {"absent", "received", "normalized", "ignored"}]
    /\ stale \subseteq Events
    /\ posted \in [Events -> Nat]
    /\ days \subseteq Scopes \X Instants
    /\ balances \subseteq BalanceRow
    /\ positions \subseteq PositionRow
    /\ marker \in [Products -> Marker]
    /\ open \in [Products -> SUBSET (Products \X Symbols)]
    /\ begun \in 0..MaxSyncs
    /\ run \in [Runs -> Session]

Posted == {e \in Events : posted[e] > 0}

\* An item of the exchange is in the ledger once, however often it was read,
\* by however many syncs at a time, and whatever failed between.
PostedOnce == \A e \in Events : posted[e] <= 1

\* Hyperliquid keeps everything in one account under one cursor.
ResourceOf(exchange, e) == IF exchange = "hyperliquid" THEN "spot" ELSE History[e].product

\* The markets whose trades every request asks Binance for that names any of the product.
Followed == [p \in Products |->
    {x \in Symbols : \A q \in Requests : q.symbols[p] # {} => x \in q.symbols[p]}]

\* Hyperliquid is read without its inverse products, which it has not; one cursor
\* of Binance stands for all markets of the product, whichever were asked for.
Tracked(exchange, e) ==
    IF exchange = "hyperliquid" THEN History[e].product # "inverse"
    ELSE History[e].kind = "trade" => History[e].symbol \in Followed[History[e].product]

\* The items that are final before a later sync no longer asks for them.
Prompt == [exchange \in Providers |->
    {e \in Events : /\ History[e].posts /\ Tracked(exchange, e)
                    /\ History[e].final <= TimeOf(e) + Overlap}]

\* What the cursors and the starts of the ranges before them stand for.
Promised(exchange, cursors, starts) ==
    {e \in Prompt[exchange] :
       LET c == cursors[ResourceOf(exchange, e)]
       IN /\ c # NoTime /\ TimeOf(e) + Overlap <= c
          /\ starts[ResourceOf(exchange, e)] <= TimeOf(e)}

\* A sync that ends "succeeded" leaves nothing out of the ledger that was final
\* in its range when it read the history.
SucceededIsWhole ==
    [][\A r \in Runs : run[r].pc # "idle" /\ run'[r] = Idle("succeeded")
                         => \A e \in run[r].due : posted'[e] > 0]_vars

\* The raw event behind a Binance ledger event shows the item as it was final.
EvidenceIsCurrent == provider = "binance" => Posted \cap stale = {}

\* An asset whose balance was on record when an account was read again, on a
\* later date, has a balance of that later date too, if only zero.
NothingLingers ==
    provider \in {"binance", "hyperliquid"} =>
      \A b, c \in {x \in balances : x.asset # "equity"} :
        b.account = c.account /\ b.as_of < c.as_of /\ b.stored < c.read
          => Taken(b.account, b.asset, c.as_of)

\* The Hyperliquid balances of one date come from one reading of the account.
OneReading ==
    provider = "hyperliquid" =>
      \A b, c \in balances : b.as_of = c.as_of => b.read = c.read

\* The positions the dashboard takes: those of the account's newest raw event.
Shown(account) ==
    {<<p.scope, p.symbol>> :
       p \in {x \in positions : /\ x.account = account /\ x.scope = marker[account].scope
                                /\ x.as_of = marker[account].as_of}}

\* Every open position the newest sync was told of is on the dashboard.
OpenPositionsShown ==
    provider # "bybit" => \A a \in Products : open[a] \subseteq Shown(a)

\* The same of Bybit, whose one account holds the positions of two products.
BybitPositionsShown ==
    provider = "bybit" => \A a \in Products : open[a] \subseteq Shown(a)

-----------------------------------------------------------------------------
(* The connectors with a cursor are readers of the exchange's history. *)

Reader == INSTANCE HistoryReader WITH
    Items <- Events,
    Promises <- LAMBDA m : Promised(m[1], m[2], m[3]),
    delivered <- Posted,
    mark <- <<provider, cursor, since>>

\* What was posted stays posted.  What lies behind a cursor by more than the overlap
\* is never read again: it is in the ledger, even if it was listed late or the
\* cursor was moved by hand.
ImplementsReader == Reader!Spec

=============================================================================
