---------------------------- MODULE ExchangeHistory ----------------------------
(***************************************************************************)
(* What the exchange connectors share (backend/app/connectors): the        *)
(* exchange they read, the tables they write, and one sync's session.      *)
(*                                                                         *)
(* A connection belongs to one exchange.  A sync asks it what the accounts *)
(* hold now and for its history of some range, and stores: a raw event for *)
(* every item, a ledger event for every item that is final, snapshots of   *)
(* balances and positions.  The exchange lists an item some time after it  *)
(* happened, and a deposit or withdrawal turns final later still.          *)
(*                                                                         *)
(* "spot" also names the connection's own account; "linear" stands for     *)
(* Binance USD-M, Bybit linear, the stable-coin futures of Bitget and the  *)
(* perpetuals of Hyperliquid, "inverse" for the coin-margined products.    *)
(***************************************************************************)
EXTENDS Integers, FiniteSets

CONSTANTS
    Runs,         \* syncs in progress at the same time
    Events,       \* the items of the exchange's history, in its order
    Assets, Symbols,
    History,      \* what each item is: see Item
    Held, Open,   \* assets held and markets with a position: instant, product
    Requests,     \* what users ask for: see SyncRequest
    NoTime,       \* no cursor row, no date in the request
    MaxTime,      \* bound: the clock stops here
    MaxSyncs,     \* bound: the syncs that are begun
    Day,          \* instants in a UTC day
    Overlap,      \* how far before its cursor a sync starts (5 minutes)
    Lookback,     \* the default range (90 days)
    Span,         \* the longest range an endpoint takes
    PageSize,     \* Hyperliquid: the items of a full page
    MaxRecords    \* Hyperliquid: the items of each kind read at most

Instants == 0..MaxTime
Products == {"spot", "linear", "inverse"}
Futures  == {"linear", "inverse"}
Kinds    == {"transfer", "trade", "income"}
Providers == {"binance", "hyperliquid", "bybit", "bitget"}

\* seen: when the exchange begins to list it.  final: when its status is final.
\* posts: it has an amount that belongs in the ledger.
Item == [product : Products, kind : Kinds, symbol : Symbols,
         time : Instants, seen : Instants, final : Instants, posts : BOOLEAN]

SyncRequest == [products : SUBSET Products, symbols : [Products -> SUBSET Symbols],
                start : Instants \cup {NoTime}, end : Instants \cup {NoTime}]

ASSUME ConstantsAssumption ==
    /\ NoTime \notin Int
    /\ {MaxTime, MaxSyncs, Overlap, Lookback, Day, Span} \subseteq Nat \ {0}
    /\ PageSize \in Nat \ {0} /\ MaxRecords \in [Kinds -> Nat \ {0}]
    /\ Events \subseteq Nat /\ IsFiniteSet(Events)
    /\ History \in [Events -> Item]
    /\ \A e \in Events : /\ History[e].time <= History[e].seen
                         /\ History[e].seen <= History[e].final
                         /\ History[e].kind # "transfer" => History[e].seen = History[e].final
                         /\ History[e].kind = "transfer" => History[e].product = "spot"
                         /\ History[e].kind = "income" => History[e].product # "spot"
    /\ Held \in [Instants -> [Products -> SUBSET Assets]]
    /\ Open \in [Instants -> [Products -> SUBSET Symbols]]
    /\ Requests \subseteq SyncRequest
    /\ "equity" \notin Assets

VARIABLES
    provider,   \* the exchange of the connection
    now,        \* the clock
    key,        \* what the API key may do: "read" or "trade"
    cursor,     \* SyncCursor.last_synced_at of each resource
    since,      \* history: where the range began that was read up to the cursor
    raw,        \* RawEvent.status of each item, "absent" without a row
    stale,      \* items whose raw payload is of the time before they were final
    posted,     \* how many LedgerEvents each item has
    days,       \* the raw events stored once a day
    balances,   \* BalanceSnapshot and AccountEquitySnapshot rows
    positions,  \* PositionSnapshot rows
    marker,     \* the newest raw event of kind "positions" of each account
    open,       \* history: the positions the newest sync of the account was told of
    begun,      \* how many syncs have begun
    run         \* the session of each sync

world    == <<provider, now, key>>
database == <<cursor, since, raw, stale, posted, days, balances, positions, marker, open>>
vars     == <<world, database, begun, run>>

TimeOf(e) == History[e].time
IsFinal(e) == now >= History[e].final
Later(a, b) == IF a > b THEN a ELSE b
Lesser(a, b) == IF a < b THEN a ELSE b
\* Mutant: a time before the first one.
MinusBelow(a, b) == a - b

Minus(a, b) == IF a > b THEN a - b ELSE 0
Midnight(t) == t - (t % Day)

\* held: a positive quantity, when it was read.  stored: when it was committed.
BalanceRow  == [account : Products, asset : Assets \cup {"equity"}, as_of : Instants,
                held : BOOLEAN, read : Instants, stored : Instants]
PositionRow == [account : Products, scope : Products, as_of : Instants, symbol : Symbols]
Marker      == [scope : Products, as_of : Instants]
NoMarker    == [scope |-> "spot", as_of |-> 0]
Scopes      == Products \cup {"key", "public"}

PCs == {"idle", "check", "balances", "wallet", "history", "commit"}
Statuses == {"none", "running", "succeeded", "partial", "failed"}
Session == [pc : PCs, status : Statuses, request : Requests \cup {NoTime},
            start : Instants, end : Instants, from : Instants, observed : Instants,
            todo : SUBSET Products, done : SUBSET Products, product : Products,
            ahead : BOOLEAN, complete : BOOLEAN, warned : BOOLEAN,
            raws : SUBSET Events, pending : SUBSET Events, ignored : SUBSET Events,
            refreshed : SUBSET Events, posts : SUBSET Events, due : SUBSET Events,
            days : SUBSET (Scopes \X Instants), rows : SUBSET BalanceRow,
            opened : SUBSET PositionRow, marked : SUBSET Products,
            marker : [Products -> Marker], told : SUBSET Products,
            open : [Products -> SUBSET (Products \X Symbols)]]

Idle(status) ==
    [pc |-> "idle", status |-> status, request |-> NoTime, start |-> 0, end |-> 0,
     from |-> 0, observed |-> 0, todo |-> {}, done |-> {}, product |-> "spot",
     ahead |-> FALSE, complete |-> TRUE, warned |-> FALSE,
     raws |-> {}, pending |-> {}, ignored |-> {},
     refreshed |-> {}, posts |-> {}, due |-> {}, days |-> {}, rows |-> {}, opened |-> {},
     marked |-> {}, marker |-> [p \in Products |-> NoMarker], told |-> {},
     open |-> [p \in Products |-> {}]]

\* A session without the rows of the transaction it has committed.
Cleared(s) ==
    [Idle(s.status) EXCEPT !.pc = s.pc, !.request = s.request, !.start = s.start,
        !.end = s.end, !.from = s.from, !.observed = s.observed, !.todo = s.todo,
        !.done = s.done, !.ahead = s.ahead, !.warned = s.warned, !.due = s.due]

At(r, pc) == run[r].pc = pc

\* Steps that change nothing but the session.
Become(r, session) ==
    /\ run' = [run EXCEPT ![r] = session]
    /\ UNCHANGED <<world, database, begun>>

-----------------------------------------------------------------------------
(* The exchange. *)

Tick ==
    /\ now < MaxTime
    /\ now' = now + 1
    /\ UNCHANGED <<provider, key, database, begun, run>>

\* The instants that consecutive windows of at most Span ask for.  The last one
\* ends before the end of the range when the windows fit it exactly.
Windowed(start, end) == {t \in start..end : t < end \/ ((end - start) % Span) # 0}

Listed(product, kind, instants) ==
    {e \in Events : /\ History[e].product = product /\ History[e].kind = kind
                    /\ TimeOf(e) \in instants /\ now >= History[e].seen}

\* What a sync of the range that is told everything has to have posted.
Due(kinds, symbols, start, end) ==
    {e \in Events : /\ <<History[e].product, History[e].kind>> \in kinds
                    /\ History[e].posts /\ now >= History[e].final
                    /\ start <= TimeOf(e) /\ TimeOf(e) < end
                    /\ History[e].kind = "trade" => History[e].symbol \in symbols}

\* Bybit and Bitget list the trades of all markets unless some were named.
Wanted(q) == IF q.symbols["spot"] = {} THEN Symbols ELSE q.symbols["spot"]

-----------------------------------------------------------------------------
(* The ledger writer: what a session will insert. *)

New(events) == {e \in events : raw[e] = "absent"}

Unposted(events) == {e \in events : History[e].posts /\ posted[e] = 0}

Store(s, listed, posting) ==
    [s EXCEPT !.raws = @ \cup New(listed),
              !.pending = @ \cup {e \in New(listed) : ~IsFinal(e)},
              !.posts = @ \cup Unposted(posting)]

Known(account) == {b.asset : b \in {c \in balances : c.account = account}}

Taken(account, asset, as_of) ==
    \E b \in balances : b.account = account /\ b.asset = asset /\ b.as_of = as_of

\* listed: what the exchange says is held.  missing: what is recorded as gone.
Balances(s, account, listed, missing) ==
    LET new == {a \in listed \cup missing : ~Taken(account, a, s.observed)}
    IN [s EXCEPT !.rows = @ \cup
          {[account |-> account, asset |-> a, as_of |-> s.observed,
            held |-> a \in listed, read |-> now, stored |-> 0] : a \in new}]

Once(s, scope) == [s EXCEPT !.days = @ \cup ({<<scope, s.observed>>} \ days)]

\* Mutant: nothing is stored beside a raw event that is there.
PositionsOnce(s, account, scope, symbols) ==
    LET fresh == <<scope, s.observed>> \notin days
        rows  == {[account |-> account, scope |-> scope, as_of |-> s.observed,
                   symbol |-> x] : x \in symbols}
    IN [Once(s, scope) EXCEPT
          !.opened = IF fresh THEN @ \cup rows ELSE @,
          !.marked = IF fresh THEN @ \cup {account} ELSE @,
          !.marker[account] = IF fresh THEN [scope |-> scope, as_of |-> s.observed] ELSE @,
          !.told = @ \cup {account},
          !.open[account] = @ \cup ({scope} \X symbols)]

\* The raw event of the positions of one scope, and a row for each open one.
Positions(s, account, scope, symbols) ==
    LET fresh == <<scope, s.observed>> \notin days
        rows  == {[account |-> account, scope |-> scope, as_of |-> s.observed,
                   symbol |-> x] : x \in symbols}
    IN [Once(s, scope) EXCEPT
          !.opened = @ \cup (rows \ positions),
          !.marked = IF fresh THEN @ \cup {account} ELSE @,
          !.marker[account] = IF fresh THEN [scope |-> scope, as_of |-> s.observed] ELSE @,
          !.told = @ \cup {account},
          !.open[account] = @ \cup ({scope} \X symbols)]

-----------------------------------------------------------------------------
(* A sync. *)

End(q) == IF q.end = NoTime THEN now ELSE q.end
Start(q) == IF q.start = NoTime THEN Minus(End(q), Lookback) ELSE q.start

\* observed: the as_of of the snapshots.  from: where the history is read from.
Begin(r, q, observed, from, todo, pc) ==
    /\ At(r, "idle") /\ Start(q) < End(q) /\ begun < MaxSyncs
    /\ begun' = begun + 1
    /\ run' = [run EXCEPT ![r] = [Idle("running") EXCEPT
                  !.pc = pc, !.request = q, !.start = Start(q), !.end = End(q), !.from = from,
                  !.observed = observed, !.todo = todo, !.ahead = End(q) > now]]
    /\ UNCHANGED <<world, database>>

\* The transaction is rolled back and the run's row gets its last status.
Stop(r, status) == Become(r, Idle(status))

\* The keys of the API that can trade or withdraw are refused.
CheckKey(r, next) ==
    /\ At(r, "check")
    /\ IF key = "trade" THEN Stop(r, "failed")
       ELSE Become(r, [Once(run[r], "key") EXCEPT !.pc = next])

\* Mutant: no unique index on the raw event of a ledger event.
CollidesUnlessPosted(s) ==
    \/ \E e \in s.raws : raw[e] # "absent"
    \/ s.days \cap days # {}

\* A unique index refuses what somebody else has inserted since it was looked for.
Collides(s) ==
    \/ \E e \in s.raws : raw[e] # "absent"
    \/ \E e \in s.posts : posted[e] > 0
    \/ s.days \cap days # {}
    \/ \E b \in s.rows : Taken(b.account, b.asset, b.as_of)
    \/ s.opened \cap positions # {}

RawAfter(s, e) ==
    IF e \in s.posts THEN "normalized"
    ELSE IF e \in s.ignored THEN "ignored"
    ELSE IF e \in s.raws THEN "received" ELSE raw[e]

Save(s) ==
    /\ raw' = [e \in Events |-> RawAfter(s, e)]
    /\ stale' = (stale \ s.refreshed) \cup s.pending
    /\ posted' = [e \in Events |-> IF e \in s.posts THEN posted[e] + 1 ELSE posted[e]]
    /\ days' = days \cup s.days
    /\ balances' = balances \cup {[b EXCEPT !.stored = now] : b \in s.rows}
    /\ positions' = positions \cup s.opened
    /\ marker' = [a \in Products |-> IF a \in s.marked /\ s.observed >= marker[a].as_of
                                     THEN s.marker[a] ELSE marker[a]]
    /\ open' = [a \in Products |-> IF a \in s.told /\ s.observed >= marker[a].as_of
                                   THEN s.open[a] ELSE open[a]]
    /\ UNCHANGED <<world, begun>>

Stay == UNCHANGED <<cursor, since>>

\* history: a range that does not begin the overlap before the old cursor leaves a
\* gap behind it, and one that ends in the future is not promised at all.
Began(resource, s) ==
    IF s.ahead THEN s.end
    ELSE IF cursor[resource] = NoTime \/ s.from > Minus(cursor[resource], Overlap) THEN s.from
    ELSE Lesser(since[resource], s.from)

Move(resource, s) ==
    /\ cursor' = [cursor EXCEPT ![resource] = s.end]
    /\ since' = [since EXCEPT ![resource] = Began(resource, s)]

Finished(s) == Idle(IF s.warned THEN "partial" ELSE "succeeded")

\* A call fails for good: the client has no retry left, or the answer is an error
\* that is not tried again.
GivesUp(r, stages) == run[r].pc \in stages

\* The process dies: the run's row stays as it is.
Crash(r) == ~At(r, "idle") /\ Stop(r, "running")
=============================================================================
