------------------------------- MODULE Dashboard -------------------------------
(***************************************************************************)
(* The snapshots of a portfolio's net worth                                *)
(* (backend/app/services/dashboard.py).  Requests of several threads take  *)
(* one snapshot of an instant, or one of each day of a range, while syncs, *)
(* prices and transfer matches change the rows they are computed from.  A  *)
(* session reads in several statements of a READ COMMITTED database and    *)
(* commits the cost run before it reads what is valued with it.            *)
(*                                                                         *)
(* Every amount is what really was there: the database differs from the    *)
(* world only in which instants it has read.  An account holds one asset.  *)
(***************************************************************************)
EXTENDS Integers, FiniteSets, FiniteSetsExt

CONSTANTS
    Requests,     \* the sessions there may be at the same time
    Spot,         \* accounts whose holdings are valued by cost positions
    Coins,        \* those of Spot that do not hold dollars
    Derivatives,  \* accounts whose equity is authoritative
    Connections,  \* the accounts that one sync reads together; the others are kept by hand
    Movements,    \* deposits, withdrawals and loans
    Transfers,    \* the pairs of movements that are one transfer
    Quote,        \* the price of a coin at each instant
    Results,      \* what the derivatives have gained at each instant
    MaxAge,       \* valuation_max_age_hours
    Day,          \* instants in a UTC day
    Ranges,       \* the ranges that are backfilled: first and last instant
    MaxTime,      \* bound: the clock stops here
    Lag,          \* bound: how long a sync takes, or a price is written late
    MaxReadings,  \* bound: the readings stored
    MaxPrices,    \* bound: the prices stored
    MaxRequests,  \* bound: the requests
    None          \* no value, no snapshot

Accounts == Spot \cup Derivatives
Instants == 0..MaxTime
DayOf(t) == t \div Day
Days == {DayOf(t) : t \in Instants}
Smaller(a, b) == IF a < b THEN a ELSE b

\* Accounts, movements and transfers are finitely many; a movement is part of one
\* transfer at most, the two legs of which do not change what there is.
ASSUME ConstantsAssumption ==
    /\ IsFiniteSet(Accounts) /\ IsFiniteSet(Movements) /\ IsFiniteSet(Transfers)
    /\ Coins \subseteq Spot /\ Spot \cap Derivatives = {}
    /\ UNION Connections \subseteq Accounts
    /\ \A m \in Movements :
         /\ m.account \in Accounts /\ m.at \in Nat /\ m.amount \in Int
         /\ m.kind \in {"transfer", "borrow"}
    /\ \A t \in Transfers :
         /\ {t.source, t.destination} \subseteq Movements
         /\ t.source.amount + t.destination.amount = 0
         /\ t.source.at <= t.destination.at
         /\ {t.source.account, t.destination.account} \cap Coins = {}
    /\ \A t, u \in Transfers :
         t # u => {t.source, t.destination} \cap {u.source, u.destination} = {}
    /\ Quote \in [Instants -> Nat] /\ Results \in [Derivatives -> [Instants -> Int]]
    /\ {MaxAge, MaxTime, Lag, MaxReadings, MaxPrices, MaxRequests} \subseteq Nat
    /\ Ranges \subseteq {range \in Instants \X Instants : range[1] <= range[2]}
    /\ Day \in Nat \ {0} /\ None \notin Int

-----------------------------------------------------------------------------
(* What really happened. *)

Total(amount) == MapThenSumSet(LAMBDA x : amount[x], DOMAIN amount)

PriceIn(a, t) == IF a \in Coins THEN Quote[t] ELSE 1
Moved(a, set, t) == Total([m \in {m \in set : m.account = a /\ m.at <= t} |-> m.amount])
Held == [a \in Accounts |-> [t \in Instants |->
            Moved(a, Movements, t) + (IF a \in Derivatives THEN Results[a][t] ELSE 0)]]
Worth == [t \in Instants |-> Total([a \in Accounts |-> Held[a][t] * PriceIn(a, t)])]

\* What holding the coins and trading the derivatives has earned.
Earned == [t \in Instants \ {0} |->
    Total([a \in Coins |-> Held[a][t - 1] * (Quote[t] - Quote[t - 1])])
      + Total([a \in Derivatives |-> Results[a][t] - Results[a][t - 1]])]
Return(s, t) == Total([u \in (s + 1)..t |-> Earned[u]])

InFlight(t) == \E x \in Transfers : x.source.at <= t /\ t < x.destination.at
Lent(s, t) == \E m \in Movements : m.kind = "borrow" /\ s < m.at /\ m.at <= t

-----------------------------------------------------------------------------
VARIABLES
    now,        \* the clock
    readings,   \* when each account's balances or equity were read
    prices,     \* the instants whose price is stored
    posted,     \* the movements in the ledger
    matched,    \* the transfers with a group that is active
    runs,       \* the cost runs
    snapshots,  \* the PortfolioSnapshots
    asked,      \* how many requests there were
    request     \* the session of each request

evidence == <<readings, prices, posted, matched>>
vars == <<now, evidence, runs, snapshots, asked, request>>

PCs == {"idle", "next", "cost", "value", "reconcile", "insert"}
Amounts == [Spot -> Int]
Run == [id : Nat, of : Instants, status : {"running", "succeeded", "failed"},
        held : Amounts]
Snapshot == [at : Instants, run : Nat, nav : Int \cup {None}, flow : Int \cup {None},
             pnl : Int \cup {None}]

\* Of the last three groups of fields, the first is the summary's, the second
\* the snapshot's, the third history: what was known when a capture began.
Session ==
    [pc : PCs, backfill : BOOLEAN, first : Instants, last : Instants, day : Nat,
     skip : SUBSET Days, done : BOOLEAN, target : Instants, recalculate : BOOLEAN,
     run : Nat,
     nav : Int \cup {None}, priced : Instants \cup {None}, equity : [Derivatives -> Int \cup {None}],
     base : Instants \cup {None}, flow : Int \cup {None}, pnl : Int \cup {None},
     had : SUBSET Days, floor : [Accounts -> Instants \cup {None}], known : BOOLEAN]

NoRows == [a \in Spot |-> 0]
Nobody == [d \in Derivatives |-> None]
Idle == [pc |-> "idle", backfill |-> FALSE, first |-> 0, last |-> 0, day |-> 0,
         skip |-> {}, done |-> FALSE, target |-> 0, recalculate |-> TRUE, run |-> 0,
         nav |-> None, priced |-> None, equity |-> Nobody,
         base |-> None, flow |-> None, pnl |-> None,
         had |-> {}, floor |-> [a \in Accounts |-> None], known |-> FALSE]

At(r, pc) == request[r].pc = pc
Become(r, session) == request' = [request EXCEPT ![r] = session]
RunOf(id) == CHOOSE c \in runs : c.id = id
SnapshotOf(t) == CHOOSE s \in snapshots : s.at = t

LatestOf(set) == IF set = {} THEN None ELSE Max(set)
ReadAt(a, t) == LatestOf({u \in Instants : u <= t /\ [account |-> a, at |-> u] \in readings})
PriceAt(t) == LatestOf({u \in prices : u <= t})
Fresh(seen, t) == seen # None /\ t - seen <= MaxAge

-----------------------------------------------------------------------------
(* What other parts of the program write. *)

\* One transaction stores what the accounts held at an instant, the instant
\* the sync had begun, and posts their movements so far.
Sync(c, t) ==
    /\ t \in (now - Lag)..now /\ ~([account : c, at : {t}] \subseteq readings)
    /\ readings' = readings \cup [account : c, at : {t}]
    /\ Cardinality(readings') <= MaxReadings
    /\ posted' = posted \cup {m \in Movements : m.account \in c /\ m.at <= t}
    /\ UNCHANGED <<now, prices, matched, runs, snapshots, asked, request>>

WritePrice(t) ==
    /\ Cardinality(prices) < MaxPrices /\ t \in (now - Lag)..now \ prices
    /\ prices' = prices \cup {t}
    /\ UNCHANGED <<now, readings, posted, matched, runs, snapshots, asked, request>>

\* A transfer is matched, or its group rejected.
Match(x) ==
    /\ {x.source, x.destination} \subseteq posted
    /\ \/ x \notin matched /\ matched' = matched \cup {x}
       \/ x \in matched /\ matched' = matched \ {x}
    /\ UNCHANGED <<now, readings, prices, posted, runs, snapshots, asked, request>>

Tick ==
    /\ now < MaxTime
    /\ now' = now + 1
    /\ UNCHANGED <<evidence, runs, snapshots, asked, request>>

-----------------------------------------------------------------------------
(* The service. *)

\* What the evidence says already when a capture of t begins; history.
Known(t) ==
    /\ \A m \in Movements : m.at <= t => m \in posted
    /\ \A m \in Movements : (m.at <= t /\ m.account \in Coins) => m.at \in prices

\* The runs that are complete (SUCCEEDED or PARTIAL), up to the instant t.
Completed(t) == {c \in runs : c.status = "succeeded" /\ c.of <= t}
LastRun(t) == LET newest == Max({c.of : c \in Completed(t)})
              IN Max({c.id : c \in {c \in Completed(t) : c.of = newest}})

\* An error ends the request; a backfill leaves the days it has committed.
Stop(r) == Become(r, Idle)

\* A capture begins: no snapshot of the instant may exist; a cost run is begun
\* and committed, or the last one is taken, whatever instant it is of.
Begin(r, s, t) ==
    LET started == [s EXCEPT !.target = t, !.known = Known(t),
                             !.floor = [a \in Accounts |-> ReadAt(a, t)]]
        id == Cardinality(runs) + 1
    IN  IF \E x \in snapshots : x.at = t
        THEN Stop(r) /\ UNCHANGED runs
        ELSE IF s.recalculate
        THEN /\ runs' = runs \cup {[id |-> id, of |-> t, status |-> "running", held |-> NoRows]}
             /\ Become(r, [started EXCEPT !.pc = "cost", !.run = id])
        ELSE /\ UNCHANGED runs
             /\ IF Completed(t) = {} THEN Stop(r)
                ELSE Become(r, [started EXCEPT !.pc = "value", !.run = LastRun(t)])

\* A snapshot of now or of an instant before, of a new cost run or the last one.
Capture(r, t, recalculate) ==
    /\ At(r, "idle") /\ asked < MaxRequests /\ t <= now
    /\ Begin(r, [Idle EXCEPT !.recalculate = recalculate], t)
    /\ asked' = asked + 1
    /\ UNCHANGED <<now, evidence, snapshots>>

\* Mutant: the days that have a snapshot are looked for between start and end.
DatesBetween(first, last) == {DayOf(x.at) : x \in {x \in snapshots : first <= x.at /\ x.at <= last}}

\* The dates that have a snapshot are read once, from a day before to a day after.
ExistingDates(first, last) ==
    {DayOf(x.at) : x \in {x \in snapshots : first - Day <= x.at /\ x.at <= last + Day}}

Backfill(r, first, end) == LET last == Smaller(end, now) IN
    /\ At(r, "idle") /\ asked < MaxRequests /\ first <= now
    /\ Become(r, [Idle EXCEPT !.pc = "next", !.backfill = TRUE,
                    !.first = first, !.last = last, !.day = DayOf(first),
                    !.skip = ExistingDates(first, last),
                    !.had = {DayOf(x.at) : x \in snapshots}])
    /\ asked' = asked + 1
    /\ UNCHANGED <<now, evidence, runs, snapshots>>

\* Mutant: a day ends at midnight.
DayTargetMidnight(s, d) == Smaller((d + 1) * Day, s.last)

\* The last instant of a day, or of the range when that is earlier.
DayTarget(s, d) == Smaller((d + 1) * Day - 1, s.last)

\* The days that have a snapshot are skipped.
NextDay(r) ==
    LET s == request[r]
        rest == (s.day..DayOf(s.last)) \ s.skip
    IN  /\ At(r, "next")
        /\ IF rest = {}
           THEN /\ Become(r, [Idle EXCEPT !.first = s.first, !.last = s.last, !.done = TRUE])
                /\ UNCHANGED runs
           ELSE Begin(r, [s EXCEPT !.day = Min(rest)], DayTarget(s, Min(rest)))
        /\ UNCHANGED <<now, evidence, snapshots, asked>>

\* The quantity of a cost position: the newest balance of an account that has
\* one, or what the ledger leaves.
Quantity(a, t) == IF ReadAt(a, t) # None THEN Held[a][ReadAt(a, t)] ELSE Moved(a, posted, t)

Settle(r, status, held) ==
    runs' = {IF c.id = request[r].run THEN [c EXCEPT !.status = status, !.held = held] ELSE c :
             c \in runs}

Cost(r) == LET s == request[r] IN
    /\ At(r, "cost")
    /\ \/ /\ Settle(r, "succeeded", [a \in Spot |-> Quantity(a, s.target)])
          /\ Become(r, [s EXCEPT !.pc = "value"])
       \/ Settle(r, "failed", NoRows) /\ Stop(r)
    /\ UNCHANGED <<now, evidence, snapshots, asked>>

-----------------------------------------------------------------------------
(* The summary: everything is valued at the instant of the run. *)

\* A price that is not fresh is no price; positions of no quantity have no row.
Priced(c) == \A a \in Coins : c.held[a] > 0 => Fresh(PriceAt(c.of), c.of)

\* An account that was never read is not stale.
FreshBalances(c) == \A a \in Spot : ReadAt(a, c.of) # None => Fresh(ReadAt(a, c.of), c.of)

FreshEquities(c) == \A d \in Derivatives : Fresh(ReadAt(d, c.of), c.of)

Borrowed(c) == \E m \in posted : m.kind = "borrow" /\ m.at <= c.of

\* Mutant: the coins are valued at the price of the moment.
SpotValueNow(c) ==
    Total([a \in Spot |-> IF c.held[a] <= 0 THEN 0 ELSE c.held[a] * PriceIn(a, PriceAt(now))])

SpotValue(c) ==
    Total([a \in Spot |-> IF c.held[a] <= 0 THEN 0 ELSE c.held[a] * PriceIn(a, PriceAt(c.of))])
PerpEquity(c) == Total([d \in Derivatives |-> Held[d][ReadAt(d, c.of)]])

\* The equities, the prices and the ages of the balances are read.
Value(r) == LET s == request[r]  c == RunOf(s.run) IN
    /\ At(r, "value")
    /\ LET complete == Priced(c) /\ FreshBalances(c) /\ FreshEquities(c) /\ ~Borrowed(c)
       IN Become(r, [s EXCEPT !.pc = "reconcile",
                       !.nav = IF complete THEN SpotValue(c) + PerpEquity(c) ELSE None,
                       !.priced = PriceAt(c.of),
                       !.equity = [d \in Derivatives |-> ReadAt(d, c.of)]])
    /\ UNCHANGED <<now, evidence, runs, snapshots, asked>>

\* Mutant: the run is taken for the balances.
ReconciledAnyway(c) == TRUE

\* The run's quantities are compared with the newest balances.
Reconciled(c) ==
    \A a \in Spot : ReadAt(a, c.of) # None => Held[a][ReadAt(a, c.of)] = c.held[a]

-----------------------------------------------------------------------------
(* The snapshot. *)

\* Mutant: the instant of the snapshot before counts again.
WindowClosed(s, t) == {m \in posted : m.kind = "transfer" /\ s <= m.at /\ m.at <= t}

\* What entered or left after the snapshot before and is in no active group.
Window(s, t) == {m \in posted : m.kind = "transfer" /\ s < m.at /\ m.at <= t}
Internal == {x.source : x \in matched} \cup {x.destination : x \in matched}

ExternalFlow(s, t) == LET events == Window(s, t) \ Internal IN
    IF \E m \in events : m.account \in Coins /\ ~Fresh(PriceAt(m.at), m.at) THEN None
    ELSE Total([m \in events |-> m.amount * PriceIn(m.account, PriceAt(m.at))])

Previous(t) == LatestOf({x.at : x \in {x \in snapshots : x.at < t}})

\* The balances, the snapshot before and the flow since are read.
Reconcile(r) ==
    LET s == request[r]
        base == Previous(s.target)
        nav == IF Reconciled(RunOf(s.run)) THEN s.nav ELSE None
        flow == IF base = None THEN None ELSE ExternalFlow(base, s.target)
        known == base # None /\ nav # None /\ flow # None
    IN  /\ At(r, "reconcile")
        /\ Become(r, [s EXCEPT
             !.pc = "insert", !.nav = nav, !.base = base, !.flow = flow,
             !.pnl = IF known /\ SnapshotOf(base).nav # None
                     THEN nav - SnapshotOf(base).nav - flow ELSE None])
        /\ UNCHANGED <<now, evidence, runs, snapshots, asked>>

\* Mutant: the index is not unique.
NeverTaken(t) == FALSE

\* The unique index on the portfolio and the instant.
Taken(t) == \E x \in snapshots : x.at = t

Insert(r) == LET s == request[r] IN
    /\ At(r, "insert")
    /\ IF Taken(s.target) THEN Stop(r) /\ UNCHANGED snapshots
       ELSE /\ snapshots' = snapshots \cup
                 {[at |-> s.target, run |-> s.run, nav |-> s.nav, flow |-> s.flow, pnl |-> s.pnl]}
            /\ Become(r, IF ~s.backfill THEN Idle ELSE
                  [Idle EXCEPT !.pc = "next", !.backfill = TRUE, !.first = s.first, !.last = s.last,
                               !.day = s.day + 1, !.skip = s.skip, !.had = s.had])
    /\ UNCHANGED <<now, evidence, runs, asked>>

\* The server dies, or the database fails: what was committed stays.
Crash(r) ==
    /\ ~At(r, "idle")
    /\ Stop(r)
    /\ UNCHANGED <<now, evidence, runs, snapshots, asked>>

-----------------------------------------------------------------------------
\* The portfolio has been set up and synced at the first instant.
Init ==
    /\ now = 0 /\ readings = [account : UNION Connections, at : {0}] /\ prices = {0}
    /\ posted = {m \in Movements : m.at = 0} /\ matched = {}
    /\ runs = {} /\ snapshots = {}
    /\ asked = 0
    /\ request = [r \in Requests |-> Idle]

Serve(r) ==
    \/ \E t \in Instants, recalculate \in BOOLEAN : Capture(r, t, recalculate)
    \/ \E range \in Ranges : Backfill(r, range[1], range[2])
    \/ NextDay(r) \/ Cost(r) \/ Value(r) \/ Reconcile(r) \/ Insert(r) \/ Crash(r)

Next ==
    \/ \E c \in Connections, t \in Instants : Sync(c, t)
    \/ \E t \in Instants : WritePrice(t)
    \/ \E x \in Transfers : Match(x)
    \/ Tick
    \/ \E r \in Requests : Serve(r)

Spec == Init /\ [][Next]_vars

-----------------------------------------------------------------------------
(* Properties. *)

\* The database's own constraints: an instant has one snapshot.
TypeOK ==
    /\ now \in Instants
    /\ readings \subseteq [account : Accounts, at : 0..now]
    /\ prices \subseteq 0..now
    /\ posted \subseteq Movements
    /\ matched \subseteq Transfers
    /\ runs \subseteq Run
    /\ snapshots \subseteq Snapshot
    /\ \A x, y \in snapshots : x.at = y.at => x = y
    /\ asked \in 0..MaxRequests
    /\ request \in [Requests -> Session]

Valued(s) == s.pc = "insert" /\ s.nav # None
OwnRun(s) == RunOf(s.run).of = s.target

\* A net worth that is given, of a run of its own instant, leaves out nothing
\* the database held when it was asked for: each balance and equity is one of
\* that time or a newer one, and no price is older than the limit.  Syncs may
\* commit between any two of the reads, also between a run and its use.
AsNewAsAsked ==
    \A r \in Requests : LET s == request[r]  held == RunOf(s.run).held IN
        (Valued(s) /\ OwnRun(s)) =>
          /\ \A a \in Spot : s.floor[a] # None =>
               \E u \in s.floor[a]..s.target : held[a] = Held[a][u]
          /\ \A d \in Derivatives : s.floor[d] # None => s.equity[d] >= s.floor[d]
          /\ \A a \in Coins : held[a] > 0 => Fresh(s.priced, s.target)

\* A net worth that is given is what the portfolio was worth, whatever syncs and
\* prices came between the reads: when the run is the request's own, it began with
\* every account of a connection read at that instant and every movement until
\* then in the ledger, no account was overdrawn, and the price was of that instant.
NetWorthIsTrue ==
    \A r \in Requests : LET s == request[r] IN
        (/\ Valued(s) /\ s.recalculate /\ s.known
         /\ \A a \in UNION Connections : s.floor[a] = s.target
         /\ \A a \in Spot : Held[a][s.target] >= 0
         /\ s.priced = s.target)
        => s.nav = Worth[s.target]

\* Ending net worth less starting net worth less flow is what was earned:
\* when both ends are worth what they say, all movements were known and no
\* transfer was under way at either end, a snapshot's return is the gain of its
\* coins and derivatives since the snapshot before, whatever was deposited,
\* withdrawn and moved, matched or not.  A run of the snapshot's own instant finds
\* what was borrowed; an older one may not.
ReturnIsReal ==
    \A r \in Requests : LET s == request[r] IN
        (/\ Valued(s) /\ s.pnl # None /\ s.known
         /\ s.nav = Worth[s.target] /\ SnapshotOf(s.base).nav = Worth[s.base]
         /\ ~InFlight(s.base) /\ ~InFlight(s.target)
         /\ OwnRun(s) \/ ~Lent(s.base, s.target))
        => s.pnl = Return(s.base, s.target)

\* A backfill that came to its end has left no day of its range without a
\* snapshot, whoever took it and whatever else was captured meanwhile.
BackfillCovers ==
    \A r \in Requests : request[r].done =>
        \A d \in DayOf(request[r].first)..DayOf(request[r].last) :
            \E x \in snapshots : DayOf(x.at) = d

\* A backfill adds a snapshot only to the day it is at, and to no day that had
\* one when it began, also when its range begins or ends within that day.
NeverTwiceADay ==
    \A r \in Requests : LET s == request[r] IN
        (s.backfill /\ s.pc \notin {"idle", "next"}) =>
            DayOf(s.target) = s.day /\ s.day \notin s.had
=============================================================================
