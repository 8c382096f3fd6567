--------------------------- MODULE ExchangeSyncProofs ---------------------------
(***************************************************************************)
(* What the exchange syncs keep, for every history, clock, request and     *)
(* number of overlapping syncs.  An inductive invariant has a part for     *)
(* each kind of row; each part says what the tables hold and what a        *)
(* session in progress is about to insert.                                 *)
(***************************************************************************)
EXTENDS ExchangeSync, HyperliquidProofs

-----------------------------------------------------------------------------
(* The inductive invariant. *)

\* A session before it has read anything, and one without items of the history.
NoItems(s) == s.raws = {} /\ s.pending = {} /\ s.posts = {} /\ s.ignored = {}
\* Nor balances,
NoRows(s) == s.rows = {}
\* nor positions.
NoPositions(s) ==
    /\ s.told = {} /\ s.marked = {} /\ \A a \in Products : s.open[a] = {}
    /\ \A d \in s.days : d[1] \notin Products

\* What a session has not read yet at its stage.
Staged(s) ==
    s.pc # "idle" =>
      /\ s.request \in Requests
      /\ ~s.ahead => s.end <= now
      /\ s.observed <= now
      /\ s.pc \in {"check", "balances"} => NoItems(s) /\ NoRows(s) /\ NoPositions(s) /\ s.due = {}
      /\ provider = "binance" /\ s.pc = "history" => NoItems(s) /\ NoRows(s) /\ NoPositions(s)
      /\ provider = "hyperliquid" /\ s.pc = "history" => NoItems(s)

\* Items that are final when they are listed, and are posted when first seen.
AtOnce(e) == provider = "hyperliquid" \/ History[e].kind # "transfer"

\* A raw event precedes the ledger event, and for such an item comes with it.
Ledger ==
    /\ PostedOnce
    /\ \A e \in Posted : raw[e] # "absent"
    /\ \A e \in Events : raw[e] # "absent" /\ AtOnce(e) /\ History[e].posts => e \in Posted
    /\ \A e \in stale : raw[e] # "absent"
    /\ EvidenceIsCurrent

\* What a session is about to write of the ledger.
LedgerOf(s) ==
    /\ s.pending \subseteq s.raws /\ s.ignored \subseteq s.raws
    /\ \A e \in s.raws : AtOnce(e) /\ History[e].posts => e \in s.posts \cup Posted
    /\ provider = "binance" =>
         s.pending \cap s.posts = {} /\ s.posts \subseteq s.raws \cup s.refreshed

\* The items a session's cursor would promise of the range it has read.
Resource(s) == IF provider = "hyperliquid" THEN "spot" ELSE s.product
\* The session has asked for the time of e.
InRange(s, e) ==
    /\ History[e].posts /\ Tracked(provider, e) /\ ResourceOf(provider, e) = Resource(s)
    /\ History[e].final <= TimeOf(e) + Overlap
    /\ s.from <= TimeOf(e) /\ TimeOf(e) + Overlap <= s.end

\* What a session knows to be due it has posted, or is about to post.
Answers(s) ==
    /\ s.pc # "idle" /\ ~s.warned => s.due \subseteq s.posts \cup Posted
    /\ s.pc = "commit" /\ s.complete /\ ~s.ahead /\ provider \in {"binance", "hyperliquid"} =>
         \A e \in Events : InRange(s, e) => e \in s.posts \cup Posted

\* Every balance was read before it was stored.
BalanceRows ==
    /\ \A b \in balances : b.read <= now /\ b.stored <= now
    /\ NothingLingers
    /\ OneReading
    /\ provider = "hyperliquid" => \A b \in balances : <<"linear", b.as_of>> \in days

\* The balances of a session are of its date; those it knew of are among them.
BalancesOf(s) ==
    /\ \A b \in s.rows : b.as_of = s.observed /\ b.read <= now
    /\ provider \in {"binance", "hyperliquid"} =>
         \A b \in balances, c \in s.rows :
           /\ b.asset # "equity" /\ c.asset # "equity"
           /\ b.account = c.account /\ b.stored < c.read
           => \/ Taken(b.account, b.asset, s.observed)
              \/ \E d \in s.rows : d.account = b.account /\ d.asset = b.asset
    /\ provider = "hyperliquid" => \A b, c \in s.rows : b.read = c.read
    /\ provider = "hyperliquid" /\ s.pc # "idle" =>
         /\ <<"linear", s.observed>> \notin days
         /\ s.pc = "balances" \/ <<"linear", s.observed>> \in s.days

\* No two syncs of a Hyperliquid account are of the same instant.
Distinct ==
    provider = "hyperliquid" =>
      \A q, r \in Runs : ~At(q, "idle") /\ ~At(r, "idle") /\ run[q].observed = run[r].observed
                           => q = r

\* The account that a product's positions are of.
Belongs(scope, account) ==
    IF provider = "hyperliquid" THEN scope = "linear" /\ account = "spot" ELSE scope = account

\* The row of an open position,
PositionOf(account, scope, as_of, x) ==
    [account |-> account, scope |-> scope, as_of |-> as_of, symbol |-> x]

\* The marker of an account is the newest day of its scope.
PositionRows ==
    provider # "bybit" =>
      /\ OpenPositionsShown
      /\ \A a \in Products : marker[a] = NoMarker \/ Belongs(marker[a].scope, a)
      /\ \A a \in Products, scope \in Futures, t \in Instants :
           <<scope, t>> \in days /\ Belongs(scope, a) => marker[a].scope = scope /\ t <= marker[a].as_of

\* The positions of an account a session was told of are there, or it is about to
\* insert them.
ToldOf(s, a, scope) ==
    /\ Belongs(scope, a)
    /\ \A p \in s.open[a] :
         p[1] = scope /\ PositionOf(a, scope, s.observed, p[2]) \in s.opened \cup positions
    /\ IF a \in s.marked THEN s.marker[a] = [scope |-> scope, as_of |-> s.observed]
       ELSE <<scope, s.observed>> \in days

\* The rows of positions that a session is about to insert, and those it was told of.
PositionsOf(s) ==
    provider # "bybit" =>
      /\ s.marked \subseteq s.told
      /\ \A d \in s.days : d[1] \in Futures =>
           d[2] = s.observed /\ \E a \in s.marked : Belongs(d[1], a)
      /\ \A a \in Products \ s.told : s.open[a] = {}
      /\ \A a \in s.told : \E scope \in Futures : ToldOf(s, a, scope)

\* What holds of one session,
SessionSound(s) ==
    Staged(s) /\ LedgerOf(s) /\ Answers(s) /\ BalancesOf(s) /\ PositionsOf(s)

\* The cursors promise what is posted.
Promises == Promised(provider, cursor, since) \subseteq Posted

\* and of the tables and all sessions: the inductive invariant.
Sound ==
    /\ TypeOK /\ Ledger /\ Promises /\ BalanceRows /\ Distinct /\ PositionRows
    /\ \A r \in Runs : SessionSound(run[r])

-----------------------------------------------------------------------------
(* Types of what the steps are made of. *)

LEMMA Sizes ==
    /\ MaxTime \in Nat /\ MaxSyncs \in Nat /\ Overlap \in Nat \ {0} /\ Lookback \in Nat
    /\ Day \in Nat \ {0} /\ Span \in Nat \ {0} /\ NoTime \notin Int
    /\ 0 \in Instants /\ Instants \subseteq Nat
    /\ "equity" \notin Assets
  BY ConstantsAssumption DEF Instants

\* The labels of a session, the outcomes, products and scopes are what they say.
LEMMA Labels ==
    /\ "idle" \in PCs /\ "check" \in PCs /\ "balances" \in PCs /\ "wallet" \in PCs
    /\ "history" \in PCs /\ "commit" \in PCs
    /\ "none" \in Statuses /\ "running" \in Statuses /\ "succeeded" \in Statuses
    /\ "partial" \in Statuses /\ "failed" \in Statuses
    /\ "spot" \in Products /\ "linear" \in Products /\ "inverse" \in Products
    /\ "spot" \in Scopes /\ "linear" \in Scopes /\ "inverse" \in Scopes
    /\ "key" \in Scopes /\ "public" \in Scopes
    /\ TRUE \in BOOLEAN /\ FALSE \in BOOLEAN
  BY DEF PCs, Statuses, Products, Scopes

\* Sessions, with names for the sets of sets in them.
EventSets == SUBSET Events
ProductSets == SUBSET Products
DaySets == SUBSET (Scopes \X Instants)
RowSets == SUBSET BalanceRow
PositionSets == SUBSET PositionRow
Markers == [Products -> Marker]
OpenMarkets == [Products -> SUBSET (Products \X Symbols)]

\* The sessions, with sets of rows that have a name.
LEMMA SessionIs ==
    Session =
      [pc : PCs, status : Statuses, request : Requests \cup {NoTime},
       start : Instants, end : Instants, from : Instants, observed : Instants,
       todo : ProductSets, done : ProductSets, product : Products,
       ahead : BOOLEAN, complete : BOOLEAN, warned : BOOLEAN,
       raws : EventSets, pending : EventSets, ignored : EventSets,
       refreshed : EventSets, posts : EventSets, due : EventSets,
       days : DaySets, rows : RowSets, opened : PositionSets, marked : ProductSets,
       marker : Markers, told : ProductSets, open : OpenMarkets]
  BY DEF Session, EventSets, ProductSets, DaySets, RowSets, PositionSets, Markers, OpenMarkets

\* What two sessions have in common.
SameRequest(t, s) ==
    /\ t.status = s.status /\ t.request = s.request /\ t.start = s.start /\ t.end = s.end
    /\ t.observed = s.observed /\ t.todo = s.todo /\ t.done = s.done /\ t.ahead = s.ahead
\* The same warnings and markers,
SameFlags(t, s) ==
    /\ t.from = s.from /\ t.product = s.product
    /\ t.complete = s.complete /\ t.warned = s.warned
\* the same items,
SameItems(t, s) ==
    /\ t.raws = s.raws /\ t.pending = s.pending /\ t.ignored = s.ignored
    /\ t.refreshed = s.refreshed /\ t.posts = s.posts /\ t.due = s.due
\* and the same positions.
SamePositions(t, s) ==
    /\ t.opened = s.opened /\ t.marked = s.marked /\ t.marker = s.marker
    /\ t.told = s.told /\ t.open = s.open

\* Sessions that are alike to a third are alike.
LEMMA SameChain ==
    ASSUME NEW a, NEW b, NEW c
    PROVE  /\ SameRequest(a, b) /\ SameRequest(b, c) => SameRequest(a, c)
           /\ SamePositions(a, b) /\ SamePositions(b, c) => SamePositions(a, c)
  BY Zenon DEF SameRequest, SamePositions

\* What the operators of a session do to it.
StoredIn(t, s, listed, posting) ==
    /\ t.pc = s.pc /\ SameRequest(t, s) /\ SameFlags(t, s) /\ SamePositions(t, s)
    /\ t.rows = s.rows /\ t.days = s.days
    /\ t.ignored = s.ignored /\ t.refreshed = s.refreshed /\ t.due = s.due
    /\ t.raws = s.raws \cup New(listed)
    /\ t.pending = s.pending \cup {e \in New(listed) : ~IsFinal(e)}
    /\ t.posts = s.posts \cup Unposted(posting)
\* What Balances adds to the rows of a session,
RowsIn(t, s, account, listed, missing) ==
    /\ s.rows \subseteq t.rows
    /\ \A b \in t.rows \ s.rows :
         /\ b.account = account /\ b.as_of = s.observed /\ b.read = now
         /\ b.asset \in listed \cup missing
    /\ \A a \in listed \cup missing :
         \/ Taken(account, a, s.observed)
         \/ \E b \in t.rows : b.account = account /\ b.asset = a
\* and the rest, which it leaves alone.
BalancedIn(t, s, account, listed, missing) ==
    /\ t.pc = s.pc
    /\ SameRequest(t, s) /\ SameFlags(t, s) /\ SameItems(t, s) /\ SamePositions(t, s)
    /\ t.days = s.days /\ RowsIn(t, s, account, listed, missing)
\* What Once adds for an account without positions.
OnceIn(t, s, scope) ==
    /\ t.pc = s.pc
    /\ SameRequest(t, s) /\ SameFlags(t, s) /\ SameItems(t, s) /\ SamePositions(t, s)
    /\ t.rows = s.rows
    /\ t.days = s.days \cup ({<<scope, s.observed>>} \ days)
\* What Positions adds to the positions,
OpenedIn(t, s, account, scope, symbols) ==
    /\ t.days = s.days \cup ({<<scope, s.observed>>} \ days)
    /\ s.opened \subseteq t.opened
    /\ \A x \in symbols : PositionOf(account, scope, s.observed, x) \in t.opened \cup positions
    /\ t.told = s.told \cup {account}
    /\ t.open = [s.open EXCEPT ![account] = @ \cup ({scope} \X symbols)]
    /\ IF <<scope, s.observed>> \notin days
       THEN /\ t.marked = s.marked \cup {account}
            /\ t.marker = [s.marker EXCEPT ![account] = [scope |-> scope, as_of |-> s.observed]]
       ELSE t.marked = s.marked /\ t.marker = s.marker
\* and the rest, which it leaves alone.
PositionedIn(t, s, account, scope, symbols) ==
    /\ t.pc = s.pc /\ SameRequest(t, s) /\ SameFlags(t, s) /\ SameItems(t, s)
    /\ t.rows = s.rows /\ OpenedIn(t, s, account, scope, symbols)

\* The parts of a session that has nothing in hand.
LEMMA EmptyParts ==
    /\ {} \in EventSets /\ {} \in ProductSets /\ {} \in DaySets /\ {} \in RowSets
    /\ {} \in PositionSets
    /\ [p \in Products |-> NoMarker] \in Markers
    /\ [p \in Products |-> {}] \in OpenMarkets
<1>1. NoMarker \in Marker
  BY Sizes, Labels DEF NoMarker, Marker
<1> QED
  BY <1>1 DEF EventSets, ProductSets, DaySets, RowSets, PositionSets, Markers, OpenMarkets

\* A session without any row, for the parts of the invariant.
Blank(s) ==
    /\ NoItems(s) /\ s.rows = {} /\ s.told = {} /\ s.marked = {} /\ s.days = {} /\ s.due = {}
    /\ s.opened = {} /\ s.refreshed = {}
    /\ s.complete = TRUE /\ s.warned = FALSE
    /\ \A a \in Products : s.open[a] = {}

\* A session that is over has nothing in hand.
LEMMA IdleIs ==
    ASSUME NEW status \in Statuses
    PROVE  /\ Idle(status) \in Session /\ Idle(status).pc = "idle"
           /\ Idle(status).status = status /\ Blank(Idle(status))
<1>1. PICK s : s = Idle(status)
  OBVIOUS
<1>2. s \in Session
  BY <1>1, Sizes, Labels, EmptyParts, SessionIs, Zenon DEF Idle
<1>3. /\ s.pc = "idle" /\ s.status = status /\ s.raws = {} /\ s.pending = {} /\ s.posts = {}
      /\ s.ignored = {}
      /\ s.rows = {} /\ s.told = {} /\ s.marked = {} /\ s.days = {} /\ s.due = {}
      /\ s.opened = {} /\ s.refreshed = {} /\ s.complete = TRUE /\ s.warned = FALSE
      /\ s.open = [p \in Products |-> {}]
  BY <1>1, Zenon DEF Idle
<1> QED
  BY <1>1, <1>2, <1>3 DEF Blank, NoItems

\* What is new of a list is part of it.
LEMMA NewIs ==
    ASSUME NEW listed \in SUBSET Events
    PROVE  /\ New(listed) \in EventSets /\ Unposted(listed) \in EventSets
           /\ {e \in New(listed) : ~IsFinal(e)} \in EventSets
           /\ \A e \in listed : IsFinal(e) => e \in listed
  BY DEF New, Unposted, EventSets

\* _store leaves a session as StoredIn says,
LEMMA StoreIs ==
    ASSUME NEW s \in Session, NEW listed \in SUBSET Events, NEW posting \in SUBSET Events
    PROVE  \E t \in Session : t = Store(s, listed, posting) /\ StoredIn(t, s, listed, posting)
<1> DEFINE raws == s.raws \cup New(listed)
           pending == s.pending \cup {e \in New(listed) : ~IsFinal(e)}
           posts == s.posts \cup Unposted(posting)
<1>1. raws \in EventSets /\ pending \in EventSets /\ posts \in EventSets
  BY DEF Session, EventSets, New, Unposted
<1>2. PICK t : t = [s EXCEPT !.raws = raws, !.pending = pending, !.posts = posts]
  OBVIOUS
<1>3. t = Store(s, listed, posting)
  BY <1>2, Zenon DEF Store
<1> HIDE DEF raws, pending, posts
<1>4. t \in Session
  BY <1>1, <1>2, SessionIs, Zenon
<1>5. /\ t.pc = s.pc /\ SameRequest(t, s) /\ SameFlags(t, s) /\ SamePositions(t, s)
      /\ t.rows = s.rows /\ t.days = s.days
      /\ t.ignored = s.ignored /\ t.refreshed = s.refreshed /\ t.due = s.due
      /\ t.raws = raws /\ t.pending = pending /\ t.posts = posts
  BY <1>1, <1>2, SessionIs, Zenon DEF SameRequest, SameFlags, SamePositions
<1> QED
  BY <1>3, <1>4, <1>5 DEF raws, pending, posts, StoredIn

\* the balances as BalancedIn says,
LEMMA BalancesIs ==
    ASSUME TypeOK, NEW s \in Session, NEW account \in Products,
           NEW listed \in SUBSET (Assets \cup {"equity"}),
           NEW missing \in SUBSET (Assets \cup {"equity"})
    PROVE  \E t \in Session :
             t = Balances(s, account, listed, missing) /\ BalancedIn(t, s, account, listed, missing)
<1> DEFINE new == {a \in listed \cup missing : ~Taken(account, a, s.observed)}
           row(a) == [account |-> account, asset |-> a, as_of |-> s.observed,
                      held |-> a \in listed, read |-> now, stored |-> 0]
           rows == s.rows \cup {row(a) : a \in new}
<1>1. \A a \in new : /\ row(a) \in BalanceRow
                     /\ row(a).account = account /\ row(a).as_of = s.observed
                     /\ row(a).read = now /\ row(a).asset = a
  <2>1. now \in Instants /\ 0 \in Instants /\ s.observed \in Instants
    BY Sizes DEF TypeOK, Session
  <2> QED
    BY <2>1 DEF BalanceRow
<1>2. rows \in RowSets
  BY <1>1 DEF Session, RowSets
<1>3. PICK t : t = [s EXCEPT !.rows = rows]
  OBVIOUS
<1>4. t = Balances(s, account, listed, missing)
  BY <1>3, Zenon DEF Balances
<1>5. \A b \in rows \ s.rows :
        /\ b.account = account /\ b.as_of = s.observed /\ b.read = now
        /\ b.asset \in listed \cup missing
  BY <1>1
<1>6. \A a \in listed \cup missing :
        Taken(account, a, s.observed) \/ \E b \in rows : b.account = account /\ b.asset = a
  BY <1>1
<1>7. s.rows \subseteq rows
  OBVIOUS
<1> HIDE DEF rows
<1>8. t \in Session
  BY <1>2, <1>3, SessionIs, Zenon
<1>9. /\ t.pc = s.pc /\ SameRequest(t, s) /\ SameFlags(t, s) /\ SameItems(t, s)
      /\ SamePositions(t, s) /\ t.days = s.days /\ t.rows = rows
  BY <1>2, <1>3, SessionIs, Zenon DEF SameRequest, SameFlags, SameItems, SamePositions
<1> QED
  BY <1>4, <1>5, <1>6, <1>7, <1>8, <1>9 DEF BalancedIn, RowsIn

\* an account without positions as OnceIn says,
LEMMA OnceIs ==
    ASSUME NEW s \in Session, NEW scope \in Scopes
    PROVE  \E t \in Session : t = Once(s, scope) /\ OnceIn(t, s, scope)
<1> DEFINE new == s.days \cup ({<<scope, s.observed>>} \ days)
<1>1. new \in DaySets
  BY DEF Session, DaySets
<1>2. PICK t : t = [s EXCEPT !.days = new]
  OBVIOUS
<1>3. t = Once(s, scope)
  BY <1>2, Zenon DEF Once
<1> HIDE DEF new
<1>4. t \in Session
  BY <1>1, <1>2, SessionIs, Zenon
<1>5. /\ t.pc = s.pc /\ SameRequest(t, s) /\ SameFlags(t, s) /\ SameItems(t, s)
      /\ SamePositions(t, s) /\ t.rows = s.rows /\ t.days = new
  BY <1>1, <1>2, SessionIs, Zenon DEF SameRequest, SameFlags, SameItems, SamePositions
<1> QED
  BY <1>3, <1>4, <1>5 DEF new, OnceIn

\* and the positions as PositionedIn says.
LEMMA PositionsIs ==
    ASSUME NEW s \in Session, NEW account \in Products, NEW scope \in Products,
           NEW symbols \in SUBSET Symbols
    PROVE  \E t \in Session :
             /\ t = Positions(s, account, scope, symbols)
             /\ PositionedIn(t, s, account, scope, symbols)
<1> DEFINE fresh == <<scope, s.observed>> \notin days
           rows == {[account |-> account, scope |-> scope, as_of |-> s.observed,
                     symbol |-> x] : x \in symbols}
           mark == [scope |-> scope, as_of |-> s.observed]
           opened == s.opened \cup (rows \ positions)
           marked == IF fresh THEN s.marked \cup {account} ELSE s.marked
           marker2 == [s.marker EXCEPT ![account] = IF fresh THEN mark ELSE @]
           told == s.told \cup {account}
           open2 == [s.open EXCEPT ![account] = @ \cup ({scope} \X symbols)]
<1>1. PICK o \in Session : o = Once(s, scope) /\ OnceIn(o, s, scope)
  <2>1. scope \in Scopes
    BY DEF Scopes
  <2> QED
    BY <2>1, OnceIs
<1>2. PICK t : t = [o EXCEPT !.opened = opened, !.marked = marked, !.marker = marker2,
                             !.told = told, !.open = open2]
  OBVIOUS
<1>3. t = Positions(s, account, scope, symbols)
  BY <1>1, <1>2, Zenon DEF Positions, OnceIn, SamePositions
<1>4. s.observed \in Instants /\ mark \in Marker
  BY DEF Session, Marker
<1>5. /\ opened \in PositionSets /\ marked \in ProductSets /\ marker2 \in Markers
      /\ told \in ProductSets /\ open2 \in OpenMarkets
  <2>1. rows \in PositionSets
    BY <1>4 DEF PositionRow, PositionSets
  <2>2. s.marker \in Markers /\ s.open \in OpenMarkets /\ s.opened \in PositionSets
    BY DEF Session, Markers, OpenMarkets, PositionSets
  <2>3. s.marked \in ProductSets /\ s.told \in ProductSets
    BY DEF Session, ProductSets
  <2> HIDE DEF rows, mark
  <2>4. opened \in PositionSets /\ marked \in ProductSets /\ told \in ProductSets
    BY <2>1, <2>2, <2>3 DEF PositionSets, ProductSets
  <2>5. marker2 \in Markers
    BY <1>4, <2>2 DEF Markers
  <2>6. open2 \in OpenMarkets
    BY <2>2 DEF OpenMarkets
  <2> QED
    BY <2>4, <2>5, <2>6
<1>6. \A x \in symbols : PositionOf(account, scope, s.observed, x) \in opened \cup positions
  BY DEF PositionOf
<1>7. IF fresh THEN marked = s.marked \cup {account} /\ marker2 = [s.marker EXCEPT ![account] = mark]
      ELSE marked = s.marked /\ marker2 = s.marker
  <2>1. s.marker \in Markers
    BY DEF Session, Markers
  <2> QED
    BY <2>1 DEF Markers
<1>8. s.opened \subseteq opened
  OBVIOUS
<1> HIDE DEF opened, marked, marker2, told, open2
<1>9. t \in Session
  BY <1>2, <1>5, SessionIs, Zenon
<1>10. /\ t.pc = o.pc /\ SameRequest(t, o) /\ SameFlags(t, o) /\ SameItems(t, o)
       /\ t.rows = o.rows /\ t.days = o.days
       /\ t.opened = opened /\ t.marked = marked /\ t.marker = marker2 /\ t.told = told
       /\ t.open = open2
  BY <1>2, <1>5, SessionIs, ZenonT(60) DEF SameRequest, SameFlags, SameItems
<1>11. SameRequest(t, s) /\ SameFlags(t, s) /\ SameItems(t, s)
  BY <1>1, <1>10 DEF SameRequest, SameFlags, SameItems, OnceIn
<1>12. t.pc = s.pc /\ t.rows = s.rows /\ t.days = s.days \cup ({<<scope, s.observed>>} \ days)
  BY <1>1, <1>10 DEF OnceIn
<1> QED
  BY <1>3, <1>6, <1>7, <1>8, <1>9, <1>10, <1>11, <1>12 DEF told, open2, PositionedIn, OpenedIn

\* Every run has a session.
LEMMA SessionOf ==
    ASSUME TypeOK, NEW r \in Runs
    PROVE  run[r] \in Session
  BY DEF TypeOK

\* What an exchange tells of an account.
LEMMA AskedFor ==
    ASSUME TypeOK, NEW p \in Products
    PROVE  /\ now \in Instants
           /\ Held[now][p] \in SUBSET (Assets \cup {"equity"}) /\ "equity" \notin Held[now][p]
           /\ Open[now][p] \in SUBSET Symbols
           /\ Known(p) \in SUBSET (Assets \cup {"equity"})
<1>1. now \in Instants
  BY DEF TypeOK
<1>2. Held[now][p] \in SUBSET Assets /\ Open[now][p] \in SUBSET Symbols
  BY <1>1, ConstantsAssumption
<1>3. Known(p) \in SUBSET (Assets \cup {"equity"})
  BY DEF TypeOK, BalanceRow, Known
<1> QED
  BY <1>1, <1>2, <1>3, Sizes

\* What the deposits and withdrawals of Binance add to a session.
TransferredIn(t, s, listed) ==
    LET final == {e \in listed : IsFinal(e)}
    IN /\ t.pc = s.pc /\ SameRequest(t, s) /\ SameFlags(t, s) /\ SamePositions(t, s)
       /\ t.rows = s.rows /\ t.days = s.days /\ t.due = s.due /\ t.ignored = s.ignored
       /\ t.raws = s.raws \cup New(listed)
       /\ t.pending = s.pending \cup {e \in New(listed) : ~IsFinal(e)}
       /\ t.posts = s.posts \cup Unposted(final)
       /\ t.refreshed = s.refreshed \cup Unposted(final)

\* They add that, and nothing else.
LEMMA TransfersIs ==
    ASSUME NEW s \in Session, NEW listed \in SUBSET Events
    PROVE  \E t \in Session :
             t = Transfers(s, listed) /\ TransferredIn(t, s, listed)
<1> DEFINE final == {e \in listed : IsFinal(e)}
           refreshed == s.refreshed \cup Unposted(final)
<1>1. PICK o \in Session : o = Store(s, listed, final) /\ StoredIn(o, s, listed, final)
  <2>1. final \in SUBSET Events
    OBVIOUS
  <2> HIDE DEF final
  <2> QED
    BY <2>1, StoreIs, Zenon
<1>2. PICK t : t = [o EXCEPT !.refreshed = refreshed]
  OBVIOUS
<1>3. t = Transfers(s, listed)
  BY <1>1, <1>2, Zenon DEF Transfers, StoredIn
<1>4. refreshed \in EventSets
  BY DEF Session, EventSets, Unposted
<1> HIDE DEF refreshed, final
<1>5. t \in Session
  BY <1>2, <1>4, SessionIs, Zenon
<1>6. /\ t.pc = o.pc /\ SameRequest(t, o) /\ SameFlags(t, o) /\ SamePositions(t, o)
      /\ t.rows = o.rows /\ t.days = o.days /\ t.due = o.due /\ t.ignored = o.ignored
      /\ t.raws = o.raws /\ t.pending = o.pending /\ t.posts = o.posts
      /\ t.refreshed = refreshed
  BY <1>2, <1>4, SessionIs, Zenon DEF SameRequest, SameFlags, SamePositions
<1>7. SameRequest(t, s) /\ SameFlags(t, s) /\ SamePositions(t, s)
  BY <1>1, <1>6 DEF SameRequest, SameFlags, SamePositions, StoredIn
<1> QED
  BY <1>1, <1>3, <1>5, <1>6, <1>7, ZenonT(60) DEF refreshed, final, StoredIn, TransferredIn

\* A reading step of one product of Binance.
LEMMA BinanceSpotIs ==
    ASSUME TypeOK, NEW r \in Runs, NEW s \in Session, s = run[r], BinanceSpot(r)
    PROVE  LET from == BinanceStart(s, "spot")
               symbols == s.request.symbols["spot"]
               transfers == WalletHistory(from, s.end)
               trades == SpotTrades(symbols, from, s.end)
               final == {e \in transfers : IsFinal(e)}
           IN \E t \in Session :
                /\ Become(r, t) /\ t.pc = "commit" /\ t.product = "spot" /\ SameRequest(t, s)
                /\ t.from = from /\ t.complete = Covered(symbols)
                /\ t.warned = (s.warned \/ ~Covered(symbols))
                /\ t.due = s.due \cup Due({"spot"} \X {"transfer", "trade"}, symbols, from, s.end)
                /\ t.raws = (s.raws \cup New(transfers)) \cup New(trades)
                /\ t.pending = (s.pending \cup {e \in New(transfers) : ~IsFinal(e)})
                                 \cup {e \in New(trades) : ~IsFinal(e)}
                /\ t.posts = (s.posts \cup Unposted(final)) \cup Unposted(New(trades))
                /\ t.refreshed = s.refreshed \cup Unposted(final)
                /\ t.ignored = s.ignored
                /\ SamePositions(t, s)
                /\ t.days = s.days \cup ({<<"spot", s.observed>>} \ days)
                /\ RowsIn(t, s, "spot", Held[now]["spot"], Known("spot") \ Held[now]["spot"])
<1> DEFINE from == BinanceStart(s, "spot")
           symbols == s.request.symbols["spot"]
           transfers == WalletHistory(from, s.end)
           trades == SpotTrades(symbols, from, s.end)
           final == {e \in transfers : IsFinal(e)}
           held == Held[now]["spot"]
           missing == Known("spot") \ held
           complete == Covered(symbols)
           warned == s.warned \/ ~Covered(symbols)
           more == Due({"spot"} \X {"transfer", "trade"}, symbols, from, s.end)
<1>1. /\ transfers \in SUBSET Events /\ trades \in SUBSET Events /\ New(trades) \in SUBSET Events
      /\ more \in SUBSET Events
  BY DEF WalletHistory, SpotTrades, Traded, Listed, New, Due
<1>2. held \in SUBSET (Assets \cup {"equity"}) /\ missing \in SUBSET (Assets \cup {"equity"})
  BY AskedFor, Labels
<1>4. from \in Instants
  <2>1. s.start \in Instants /\ cursor["spot"] \in Instants \cup {NoTime}
    BY Labels DEF Session, TypeOK
  <2> QED
    BY <2>1, Sizes DEF BinanceStart, Later, Minus, Instants
<1>5. complete \in BOOLEAN /\ warned \in BOOLEAN
  BY DEF Covered
<1>6. PICK o \in Session : o = Once(s, "spot") /\ OnceIn(o, s, "spot")
  BY OnceIs, Labels, Zenon
<1>7. o.observed = s.observed
  BY <1>6 DEF SameRequest, OnceIn
<1> HIDE DEF held, missing
<1>8. PICK p \in Session :
        p = Balances(o, "spot", held, missing) /\ BalancedIn(p, o, "spot", held, missing)
  BY <1>2, BalancesIs, Labels, Zenon
<1>9. p = BinanceBalances(Once(s, "spot"), "spot")
  BY <1>6, <1>8, Zenon DEF BinanceBalances, held, missing
<1> HIDE DEF transfers, trades, complete, warned, more, from
<1>10. PICK q \in Session : q = Transfers(p, transfers) /\ TransferredIn(q, p, transfers)
  BY <1>1, TransfersIs, Zenon
<1>11. PICK u \in Session :
         u = Store(q, trades, New(trades)) /\ StoredIn(u, q, trades, New(trades))
  BY <1>1, StoreIs, Zenon
<1> DEFINE due == u.due \cup more
<1>12. PICK t : t = [u EXCEPT !.pc = "commit", !.product = "spot", !.from = from,
                              !.complete = complete, !.warned = warned, !.due = due]
  OBVIOUS
<1>13. due \in EventSets
  BY <1>1 DEF Session, EventSets
<1>14. u.warned = s.warned
  BY <1>6, <1>8, <1>10, <1>11 DEF SameFlags, OnceIn, BalancedIn, TransferredIn, StoredIn
<1>15. Become(r, t)
  <2>1. t = [u EXCEPT !.pc = "commit", !.product = "spot", !.from = from,
                      !.complete = complete, !.warned = u.warned \/ ~Covered(symbols),
                      !.due = due]
    BY <1>12, <1>14 DEF warned
  <2>2. u = Trades(Transfers(BinanceBalances(Once(s, "spot"), "spot"), transfers), trades)
    BY <1>9, <1>10, <1>11, Zenon DEF Trades
  <2> QED
    BY <2>1, <2>2 DEF BinanceSpot, transfers, trades, complete, from, due, more
<1> HIDE DEF due
<1>16. t \in Session
  BY <1>4, <1>5, <1>12, <1>13, Labels, SessionIs, ZenonT(60)
<1>17. /\ t.pc = "commit" /\ t.product = "spot" /\ t.from = from /\ t.complete = complete
       /\ t.warned = warned /\ t.due = due
       /\ SameRequest(t, u) /\ SamePositions(t, u)
       /\ t.rows = u.rows /\ t.days = u.days /\ t.raws = u.raws /\ t.pending = u.pending
       /\ t.posts = u.posts /\ t.refreshed = u.refreshed /\ t.ignored = u.ignored
  BY <1>4, <1>5, <1>12, <1>13, Labels, SessionIs, ZenonT(60) DEF SameRequest, SamePositions
<1>18. SameRequest(t, s)
  <2>1. SameRequest(o, s) /\ SameRequest(p, o) /\ SameRequest(q, p) /\ SameRequest(u, q)
    BY <1>6, <1>8, <1>10, <1>11 DEF OnceIn, BalancedIn, TransferredIn, StoredIn
  <2>2. SameRequest(p, s)
    BY <2>1, SameChain, Zenon
  <2>3. SameRequest(t, q)
    BY <1>17, <2>1, SameChain, Zenon
  <2>4. SameRequest(q, s)
    BY <2>1, <2>2, SameChain, Zenon
  <2> QED
    BY <2>3, <2>4, SameChain, Zenon
<1>19. SamePositions(t, s)
  <2>1. SamePositions(o, s) /\ SamePositions(p, o) /\ SamePositions(q, p) /\ SamePositions(u, q)
    BY <1>6, <1>8, <1>10, <1>11 DEF OnceIn, BalancedIn, TransferredIn, StoredIn
  <2>2. SamePositions(p, s)
    BY <2>1, SameChain, Zenon
  <2>3. SamePositions(t, q)
    BY <1>17, <2>1, SameChain, Zenon
  <2>4. SamePositions(q, s)
    BY <2>1, <2>2, SameChain, Zenon
  <2> QED
    BY <2>3, <2>4, SameChain, Zenon
<1>20. SameItems(p, s)
  BY <1>6, <1>8 DEF SameItems, OnceIn, BalancedIn
<1>21. /\ t.due = s.due \cup more
       /\ t.raws = (s.raws \cup New(transfers)) \cup New(trades)
       /\ t.refreshed = s.refreshed \cup Unposted(final) /\ t.ignored = s.ignored
  <2>1. t.due = s.due \cup more
    BY <1>10, <1>11, <1>17, <1>20 DEF SameItems, due, TransferredIn, StoredIn
  <2>2. t.raws = (s.raws \cup New(transfers)) \cup New(trades)
    BY <1>10, <1>11, <1>17, <1>20, Zenon DEF SameItems, TransferredIn, StoredIn
  <2>3. t.refreshed = s.refreshed \cup Unposted(final)
    BY <1>10, <1>11, <1>17, <1>20, Zenon DEF SameItems, TransferredIn, StoredIn
  <2>4. t.ignored = s.ignored
    BY <1>10, <1>11, <1>17, <1>20, Zenon DEF SameItems, TransferredIn, StoredIn
  <2> QED
    BY <2>1, <2>2, <2>3, <2>4
<1>22. /\ t.pending = (s.pending \cup {e \in New(transfers) : ~IsFinal(e)})
                        \cup {e \in New(trades) : ~IsFinal(e)}
       /\ t.posts = (s.posts \cup Unposted(final)) \cup Unposted(New(trades))
  BY <1>10, <1>11, <1>17, <1>20, Zenon DEF SameItems, TransferredIn, StoredIn
<1>23. t.rows = p.rows /\ o.rows = s.rows /\ t.days = o.days
  BY <1>6, <1>8, <1>10, <1>11, <1>17 DEF OnceIn, BalancedIn, TransferredIn, StoredIn
<1>24. t.days = s.days \cup ({<<"spot", s.observed>>} \ days)
  BY <1>6, <1>23 DEF OnceIn
<1>25. RowsIn(t, s, "spot", held, missing)
  BY <1>7, <1>8, <1>23 DEF BalancedIn, RowsIn
<1> QED
  BY <1>15, <1>16, <1>17, <1>18, <1>19, <1>21, <1>22, <1>24, <1>25
     DEF complete, warned, more, from, transfers, trades, held, missing

\* The income of a product: stored like the rest, some of it ignored.
IncomeIn(t, s, listed) ==
    /\ t.pc = s.pc /\ SameRequest(t, s) /\ SameFlags(t, s) /\ SamePositions(t, s)
    /\ t.rows = s.rows /\ t.days = s.days
    /\ t.refreshed = s.refreshed /\ t.due = s.due
    /\ t.ignored \subseteq s.ignored \cup New(listed)
    /\ t.raws = s.raws \cup New(listed)
    /\ t.pending = s.pending \cup {e \in New(listed) : ~IsFinal(e)}
    /\ t.posts = s.posts \cup Unposted(New(listed))

\* The income of a futures account adds what IncomeIn says.
LEMMA IncomeIs ==
    ASSUME NEW s \in Session, NEW listed \in SUBSET Events
    PROVE  \E t \in Session : t = Income(s, listed) /\ IncomeIn(t, s, listed)
<1> DEFINE ignored == s.ignored \cup {e \in New(listed) : ~History[e].posts}
<1>1. PICK o \in Session : o = Store(s, listed, New(listed)) /\ StoredIn(o, s, listed, New(listed))
  <2>1. New(listed) \in SUBSET Events
    BY DEF New
  <2> QED
    BY <2>1, StoreIs, Zenon
<1>2. PICK t : t = [o EXCEPT !.ignored = ignored]
  OBVIOUS
<1>3. t = Income(s, listed)
  BY <1>1, <1>2, Zenon DEF Income, StoredIn
<1>4. ignored \in EventSets
  BY DEF Session, EventSets, New
<1>8. ignored \subseteq s.ignored \cup New(listed)
  OBVIOUS
<1> HIDE DEF ignored
<1>5. t \in Session
  BY <1>2, <1>4, SessionIs, Zenon
<1>6. /\ t.pc = o.pc /\ SameRequest(t, o) /\ SameFlags(t, o) /\ SamePositions(t, o)
      /\ t.rows = o.rows /\ t.days = o.days /\ t.due = o.due
      /\ t.raws = o.raws /\ t.pending = o.pending /\ t.posts = o.posts
      /\ t.refreshed = o.refreshed /\ t.ignored = ignored
  BY <1>2, <1>4, SessionIs, Zenon DEF SameRequest, SameFlags, SamePositions
<1>7. SameRequest(t, s) /\ SameFlags(t, s) /\ SamePositions(t, s)
  BY <1>1, <1>6 DEF SameRequest, SameFlags, SamePositions, StoredIn
<1> QED
  BY <1>1, <1>3, <1>5, <1>6, <1>7, <1>8, Zenon DEF StoredIn, IncomeIn

\* The ranges the futures of Binance are read of.
TradesFrom(s, product) == Reach(product, 2 * Lookback, BinanceStart(s, product), s.end)
\* and where that of the income starts.
IncomeFrom(s, product) == Reach(product, Lookback, BinanceStart(s, product), s.end)

\* Both are instants, and the trades are read from no later.
LEMMA RangeIs ==
    ASSUME TypeOK, NEW s \in Session, NEW product \in Products
    PROVE  /\ BinanceStart(s, product) \in Instants
           /\ TradesFrom(s, product) \in Instants /\ IncomeFrom(s, product) \in Instants
           /\ TradesFrom(s, product) <= IncomeFrom(s, product)
<1>1. s.start \in Instants /\ s.end \in Instants /\ cursor[product] \in Instants \cup {NoTime}
  BY DEF Session, TypeOK
<1>2. BinanceStart(s, product) \in Instants
  BY <1>1, Sizes DEF BinanceStart, Later, Minus, Instants
<1> HIDE DEF BinanceStart
<1>3. \A start, end \in Instants :
        /\ Reach(product, 2 * Lookback, start, end) \in Instants
        /\ Reach(product, Lookback, start, end) \in Instants
        /\ Reach(product, 2 * Lookback, start, end) <= Reach(product, Lookback, start, end)
  BY Sizes DEF Reach, Later, Minus, Instants
<1> QED
  BY <1>1, <1>2, <1>3 DEF TradesFrom, IncomeFrom

\* What the futures phase of Binance reads, in full.
LEMMA BinanceFuturesIs ==
    ASSUME TypeOK, NEW r \in Runs, NEW s \in Session, s = run[r],
           NEW product \in Futures, BinanceFutures(r, product)
    PROVE  LET symbols == s.request.symbols[product]
               from == IncomeFrom(s, product)
               trades == FuturesTrades(product, Markets(s, product), TradesFrom(s, product), s.end)
               income == FuturesIncome(product, from, s.end)
               held == Held[now][product]
           IN \E t \in Session :
                /\ Become(r, t) /\ t.pc = "commit" /\ t.product = product /\ SameRequest(t, s)
                /\ t.from = from /\ t.complete = Covered(symbols)
                /\ t.warned = (s.warned \/ from # BinanceStart(s, product) \/ ~Covered(symbols))
                /\ t.due = s.due \cup Due({product} \X {"trade", "income"}, symbols, from, s.end)
                /\ t.raws = (s.raws \cup New(trades)) \cup New(income)
                /\ t.pending = (s.pending \cup {e \in New(trades) : ~IsFinal(e)})
                                 \cup {e \in New(income) : ~IsFinal(e)}
                /\ t.posts = (s.posts \cup Unposted(New(trades))) \cup Unposted(New(income))
                /\ t.refreshed = s.refreshed
                /\ t.ignored \subseteq s.ignored \cup New(income)
                /\ OpenedIn(t, s, product, product, Open[now][product])
                /\ RowsIn(t, s, product, held, Known(product) \ held)
<1> DEFINE symbols == s.request.symbols[product]
           from == IncomeFrom(s, product)
           trades == FuturesTrades(product, Markets(s, product), TradesFrom(s, product), s.end)
           income == FuturesIncome(product, from, s.end)
           held == Held[now][product]
           missing == Known(product) \ held
           symbols2 == Open[now][product]
           complete == Covered(symbols)
           warned == s.warned \/ from # BinanceStart(s, product) \/ ~Covered(symbols)
           more == Due({product} \X {"trade", "income"}, symbols, from, s.end)
<1>0. product \in Products
  BY DEF Futures, Products
<1>1. /\ trades \in SUBSET Events /\ income \in SUBSET Events /\ New(trades) \in SUBSET Events
      /\ more \in SUBSET Events
  BY DEF FuturesTrades, FuturesIncome, Traded, Listed, New, Due
<1>2. /\ held \in SUBSET (Assets \cup {"equity"}) /\ missing \in SUBSET (Assets \cup {"equity"})
      /\ symbols2 \in SUBSET Symbols
  BY <1>0, AskedFor
<1>3. from \in Instants
  BY <1>0, RangeIs
<1>4. complete \in BOOLEAN /\ warned \in BOOLEAN
  BY DEF Covered
<1> HIDE DEF held, missing, symbols2
<1>5. PICK p \in Session :
        p = Balances(s, product, held, missing) /\ BalancedIn(p, s, product, held, missing)
  BY <1>0, <1>2, BalancesIs, Zenon
<1>6. p = BinanceBalances(s, product)
  BY <1>5, Zenon DEF BinanceBalances, held, missing
<1>7. PICK o \in Session :
        o = Positions(p, product, product, symbols2) /\ PositionedIn(o, p, product, product, symbols2)
  BY <1>0, <1>2, PositionsIs, Zenon
<1> HIDE DEF trades, income, complete, warned, more, from
<1>8. PICK q \in Session : q = Store(o, trades, New(trades)) /\ StoredIn(q, o, trades, New(trades))
  BY <1>1, StoreIs, Zenon
<1>9. PICK u \in Session : u = Income(q, income) /\ IncomeIn(u, q, income)
  BY <1>1, IncomeIs, Zenon
<1> DEFINE due == u.due \cup more
<1>10. PICK t : t = [u EXCEPT !.pc = "commit", !.product = product, !.from = from,
                              !.complete = complete, !.warned = warned, !.due = due]
  OBVIOUS
<1>11. due \in EventSets
  BY <1>1 DEF Session, EventSets
<1>12. u.warned = s.warned
  BY <1>5, <1>7, <1>8, <1>9 DEF SameFlags, BalancedIn, PositionedIn, StoredIn, IncomeIn
<1>13. Become(r, t)
  <2>1. t = [u EXCEPT !.pc = "commit", !.product = product, !.from = from, !.complete = complete,
                      !.warned = u.warned \/ from # BinanceStart(s, product) \/ ~Covered(symbols),
                      !.due = due]
    BY <1>10, <1>12 DEF warned
  <2>2. u = Income(Trades(Positions(BinanceBalances(s, product), product, product, symbols2),
                          trades), income)
    BY <1>6, <1>7, <1>8, <1>9, Zenon DEF Trades
  <2> QED
    BY <2>1, <2>2, ZenonT(60) DEF BinanceFutures, trades, income, complete, from, due, more, symbols2,
                      TradesFrom, IncomeFrom
<1> HIDE DEF due
<1>14. t \in Session
  BY <1>0, <1>3, <1>4, <1>10, <1>11, Labels, SessionIs, ZenonT(60)
<1>15. /\ t.pc = "commit" /\ t.product = product /\ t.from = from /\ t.complete = complete
       /\ t.warned = warned /\ t.due = due
       /\ SameRequest(t, u) /\ SamePositions(t, u)
       /\ t.rows = u.rows /\ t.days = u.days /\ t.raws = u.raws /\ t.pending = u.pending
       /\ t.posts = u.posts /\ t.refreshed = u.refreshed /\ t.ignored = u.ignored
  BY <1>0, <1>3, <1>4, <1>10, <1>11, Labels, SessionIs, ZenonT(60) DEF SameRequest, SamePositions
<1>16. SameRequest(t, s)
  <2>1. SameRequest(p, s) /\ SameRequest(o, p) /\ SameRequest(q, o) /\ SameRequest(u, q)
    BY <1>5, <1>7, <1>8, <1>9 DEF BalancedIn, PositionedIn, StoredIn, IncomeIn
  <2>2. SameRequest(o, s)
    BY <2>1, SameChain, Zenon
  <2>3. SameRequest(t, q)
    BY <1>15, <2>1, SameChain, Zenon
  <2>4. SameRequest(q, s)
    BY <2>1, <2>2, SameChain, Zenon
  <2> QED
    BY <2>3, <2>4, SameChain, Zenon
<1>17. SameItems(o, s)
  BY <1>5, <1>7 DEF SameItems, BalancedIn, PositionedIn
<1>18. /\ t.due = s.due \cup more
       /\ t.raws = (s.raws \cup New(trades)) \cup New(income)
       /\ t.refreshed = s.refreshed /\ t.ignored \subseteq s.ignored \cup New(income)
  <2>1. t.due = s.due \cup more /\ t.refreshed = s.refreshed
    BY <1>8, <1>9, <1>15, <1>17 DEF SameItems, due, StoredIn, IncomeIn
  <2>2. t.raws = (s.raws \cup New(trades)) \cup New(income)
    BY <1>8, <1>9, <1>15, <1>17, Zenon DEF SameItems, StoredIn, IncomeIn
  <2>3. t.ignored \subseteq s.ignored \cup New(income)
    BY <1>8, <1>9, <1>15, <1>17, Zenon DEF SameItems, StoredIn, IncomeIn
  <2> QED
    BY <2>1, <2>2, <2>3
<1>19. /\ t.pending = (s.pending \cup {e \in New(trades) : ~IsFinal(e)})
                        \cup {e \in New(income) : ~IsFinal(e)}
       /\ t.posts = (s.posts \cup Unposted(New(trades))) \cup Unposted(New(income))
  BY <1>8, <1>9, <1>15, <1>17, Zenon DEF SameItems, StoredIn, IncomeIn
<1>20. /\ SamePositions(t, o) /\ t.days = o.days /\ t.rows = p.rows
       /\ SamePositions(p, s) /\ p.days = s.days /\ p.observed = s.observed
  <2>1. SamePositions(q, o) /\ SamePositions(u, q) /\ q.days = o.days /\ u.days = q.days
    BY <1>8, <1>9 DEF StoredIn, IncomeIn
  <2>2. SamePositions(u, o)
    BY <2>1, SameChain, Zenon
  <2>3. SamePositions(t, o)
    BY <1>15, <2>2, SameChain, Zenon
  <2>4. t.rows = p.rows
    BY <1>7, <1>8, <1>9, <1>15 DEF PositionedIn, StoredIn, IncomeIn
  <2>5. SamePositions(p, s) /\ p.days = s.days /\ p.observed = s.observed
    BY <1>5 DEF BalancedIn, SameRequest
  <2> QED
    BY <1>15, <2>1, <2>3, <2>4, <2>5
<1>21. OpenedIn(t, s, product, product, symbols2)
  BY <1>7, <1>20 DEF PositionedIn, OpenedIn, SamePositions
<1>22. RowsIn(t, s, product, held, missing)
  BY <1>5, <1>20 DEF BalancedIn, RowsIn
<1> QED
  BY <1>13, <1>14, <1>15, <1>16, <1>18, <1>19, <1>21, <1>22
     DEF complete, warned, more, from, trades, income, held, missing, symbols2

-----------------------------------------------------------------------------
(* Steps that leave the tables alone. *)

\* A session in progress is at most one of an instant, at Hyperliquid.
Apart(r, t) ==
    provider = "hyperliquid" /\ t.pc # "idle" =>
      \A q \in Runs \ {r} : ~At(q, "idle") => run[q].observed # t.observed

\* If the new session is sound, so is all that was.
LEMMA SessionMoves ==
    ASSUME Sound, NEW r \in Runs, NEW t \in Session, SessionSound(t), Apart(r, t),
           run' = [run EXCEPT ![r] = t], begun' \in 0..MaxSyncs,
           UNCHANGED <<world, database>>
    PROVE  Sound'
<1>1. /\ provider' = provider /\ now' = now /\ key' = key /\ cursor' = cursor /\ since' = since
      /\ raw' = raw /\ stale' = stale /\ posted' = posted /\ days' = days
      /\ balances' = balances /\ positions' = positions /\ marker' = marker /\ open' = open
  BY DEF world, database
<1>2. run' \in [Runs -> Session] /\ \A q \in Runs : run'[q] = IF q = r THEN t ELSE run[q]
  BY DEF Sound, TypeOK
<1>3. TypeOK'
  <2>1. TypeOK
    BY DEF Sound
  <2> QED
    BY <1>1, <1>2, <2>1 DEF TypeOK
<1>4. Ledger' /\ Promises'
  <2>1. Ledger /\ Promises
    BY DEF Sound
  <2>2. Ledger'
    BY <1>1, <2>1 DEF Ledger, PostedOnce, Posted, AtOnce, EvidenceIsCurrent
  <2>3. Promises'
    BY <1>1, <2>1 DEF Promises, Promised, Posted, Tracked, ResourceOf, Followed
  <2> QED
    BY <2>2, <2>3
<1>5. BalanceRows' /\ PositionRows'
  <2>1. BalanceRows /\ PositionRows
    BY DEF Sound
  <2>2. BalanceRows'
    BY <1>1, <2>1 DEF BalanceRows, NothingLingers, OneReading, Taken
  <2>3. PositionRows'
    BY <1>1, <2>1 DEF PositionRows, OpenPositionsShown, Shown, Belongs
  <2> QED
    BY <2>2, <2>3
<1>6. Distinct'
  <2>1. Distinct
    BY DEF Sound
  <2> QED
    BY <1>1, <1>2, <2>1 DEF Distinct, Apart, At
<1>7. ASSUME NEW q \in Runs
      PROVE  SessionSound(run[q])'
  <2>1. PICK u : u = run'[q]
    OBVIOUS
  <2>2. SessionSound(u)
    BY <1>2, <2>1 DEF Sound
  <2>3. Staged(run[q])'
    BY <1>1, <2>1, <2>2 DEF SessionSound, Staged, NoItems, NoRows, NoPositions
  <2>4. LedgerOf(run[q])'
    BY <1>1, <2>1, <2>2 DEF SessionSound, LedgerOf, AtOnce, Posted
  <2>5. Answers(run[q])'
    BY <1>1, <2>1, <2>2
       DEF SessionSound, Answers, InRange, Posted, Resource, ResourceOf, Tracked, Followed
  <2>6. BalancesOf(run[q])'
    BY <1>1, <2>1, <2>2 DEF SessionSound, BalancesOf, Taken
  <2>7. PositionsOf(run[q])'
    <3>1. ASSUME provider # "bybit", NEW a \in u.told
          PROVE  \E scope \in Futures : ToldOf(run[q], a, scope)'
      <4>1. PICK scope \in Futures : ToldOf(u, a, scope)
        BY <2>2, <3>1 DEF SessionSound, PositionsOf
      <4>2. ToldOf(run[q], a, scope)'
        BY <1>1, <2>1, <4>1 DEF ToldOf, Belongs, PositionOf
      <4> QED
        BY <4>2
    <3>2. provider # "bybit" =>
            /\ u.marked \subseteq u.told
            /\ \A d \in u.days : d[1] \in Futures =>
                 d[2] = u.observed /\ \E a \in u.marked : Belongs(d[1], a)
            /\ \A a \in Products \ u.told : u.open[a] = {}
      BY <2>2 DEF SessionSound, PositionsOf
    <3>3. provider # "bybit" =>
            (/\ run[q].marked \subseteq run[q].told
             /\ \A d \in run[q].days : d[1] \in Futures =>
                  d[2] = run[q].observed /\ \E a \in run[q].marked : Belongs(d[1], a)
             /\ \A a \in Products \ run[q].told : run[q].open[a] = {})'
      BY <1>1, <2>1, <3>2 DEF Belongs
    <3> QED
      BY <1>1, <2>1, <3>1, <3>3 DEF PositionsOf
  <2> QED
    BY <2>3, <2>4, <2>5, <2>6, <2>7 DEF SessionSound
<1> QED
  BY <1>3, <1>4, <1>5, <1>6, <1>7 DEF Sound

\* Reading: an answer of the exchange, taken into a session of the same instant.
Reading(r) ==
    \E t \in Session :
       /\ Become(r, t) /\ SessionSound(t) /\ t.observed = run[r].observed
       /\ ~At(r, "idle") /\ t.pc # "idle"

\* Such a step keeps the inductive invariant.
LEMMA Reads ==
    ASSUME Sound, NEW r \in Runs, Reading(r)
    PROVE  Sound'
<1>1. PICK t \in Session : /\ Become(r, t) /\ SessionSound(t)
                           /\ t.observed = run[r].observed /\ ~At(r, "idle")
  BY DEF Reading
<1>2. Apart(r, t)
  BY <1>1 DEF Sound, Distinct, Apart
<1>3. begun' \in 0..MaxSyncs /\ UNCHANGED <<world, database>> /\ run' = [run EXCEPT ![r] = t]
  BY <1>1 DEF Become, Sound, TypeOK
<1> QED
  BY <1>1, <1>2, <1>3, SessionMoves

\* A session that has nothing in hand is sound.
LEMMA BlankIsSound ==
    ASSUME NEW s \in Session, Blank(s), s.pc = "idle" \/ s.request \in Requests,
           s.pc # "commit", ~s.ahead => s.end <= now, s.observed <= now,
           provider = "hyperliquid" => s.pc \in {"idle", "balances"},
           provider = "hyperliquid" /\ s.pc # "idle" => <<"linear", s.observed>> \notin days
    PROVE  SessionSound(s)
<1>1. Staged(s)
  BY DEF Staged, Blank, NoItems, NoRows, NoPositions
<1>2. LedgerOf(s) /\ Answers(s)
  BY DEF LedgerOf, Answers, Blank, NoItems
<1>3. BalancesOf(s)
  BY DEF BalancesOf, Blank
<1>4. PositionsOf(s)
  BY DEF PositionsOf, Blank
<1> QED
  BY <1>1, <1>2, <1>3, <1>4 DEF SessionSound

\* The times of a session that is over.
LEMMA IdleFields ==
    ASSUME NEW status
    PROVE  Idle(status).observed = 0 /\ Idle(status).end = 0 /\ Idle(status).ahead = FALSE
  BY Zenon DEF Idle

\* A sync that fails, or whose process dies, leaves no rows behind.
LEMMA Stops ==
    ASSUME Sound, NEW r \in Runs, NEW status \in Statuses, Stop(r, status)
    PROVE  Sound'
<1>1. PICK t : t = Idle(status)
  OBVIOUS
<1>2. t \in Session /\ t.pc = "idle" /\ Blank(t) /\ t.observed = 0 /\ t.end = 0
  BY <1>1, IdleIs, IdleFields, Zenon
<1>3. SessionSound(t)
  <2>1. now \in Nat
    BY Sizes DEF Sound, TypeOK
  <2>2. t.end <= now /\ t.observed <= now
    BY <1>2, <2>1
  <2> QED
    BY <1>2, <2>2, BlankIsSound
<1>4. Apart(r, t)
  BY <1>2 DEF Apart
<1>5. begun' \in 0..MaxSyncs /\ UNCHANGED <<world, database>> /\ run' = [run EXCEPT ![r] = t]
  BY <1>1 DEF Stop, Become, Sound, TypeOK
<1> QED
  BY <1>2, <1>3, <1>4, <1>5, SessionMoves

\* The key is looked at before anything is read.
LEMMA KeyIsChecked ==
    ASSUME Sound, NEW r \in Runs, NEW next \in PCs, CheckKey(r, next),
           next \in {"balances", "history"}, provider # "hyperliquid"
    PROVE  Reading(r) \/ Stop(r, "failed")
<1>1. CASE key = "trade"
  BY <1>1 DEF CheckKey
<1>2. CASE key # "trade"
  <2>1. PICK s \in Session : s = run[r] /\ SessionSound(s) /\ s.pc = "check"
    BY DEF Sound, TypeOK, CheckKey, At
  <2>2. PICK o \in Session : o = Once(s, "key") /\ OnceIn(o, s, "key")
    BY Labels, OnceIs, Zenon
  <2>3. PICK t : t = [o EXCEPT !.pc = next]
    OBVIOUS
  <2>4. Become(r, t)
    BY <1>2, <2>1, <2>2, <2>3 DEF CheckKey
  <2>5. t \in Session
    BY <2>3, SessionIs, Zenon
  <2>6. /\ t.pc = next /\ SameRequest(t, o) /\ SameItems(t, o) /\ SamePositions(t, o)
        /\ SameFlags(t, o) /\ t.rows = o.rows /\ t.days = o.days
    BY <2>3, SessionIs, ZenonT(60) DEF SameRequest, SameFlags, SameItems, SamePositions
  <2>7. /\ t.request = s.request /\ t.ahead = s.ahead /\ t.end = s.end
        /\ t.observed = s.observed
    BY <2>2, <2>6 DEF OnceIn, SameRequest
  <2>8. /\ t.raws = s.raws /\ t.pending = s.pending /\ t.posts = s.posts /\ t.due = s.due
        /\ t.ignored = s.ignored /\ t.rows = s.rows
    BY <2>2, <2>6 DEF OnceIn, SameItems
  <2>9. t.told = s.told /\ t.marked = s.marked /\ t.open = s.open
    BY <2>2, <2>6 DEF OnceIn, SamePositions
  <2>10. t.days = s.days \cup ({<<"key", s.observed>>} \ days)
    BY <2>2, <2>6 DEF OnceIn
  <2>11. NoItems(s) /\ NoRows(s) /\ NoPositions(s) /\ s.due = {} /\ s.request \in Requests
    BY <2>1 DEF SessionSound, Staged
  <2>12. NoItems(t) /\ NoRows(t) /\ t.due = {}
    BY <2>8, <2>11 DEF NoItems, NoRows
  <2>13. NoPositions(t)
    BY <2>9, <2>10, <2>11 DEF NoPositions, Products
  <2>14. SessionSound(t)
    <3>1. Staged(t)
      BY <2>1, <2>6, <2>7, <2>11, <2>12, <2>13 DEF SessionSound, Staged
    <3>2. LedgerOf(t) /\ Answers(t)
      BY <2>6, <2>12 DEF LedgerOf, Answers, NoItems
    <3>3. BalancesOf(t)
      BY <2>12 DEF BalancesOf, NoRows
    <3>4. PositionsOf(t)
      BY <2>13 DEF PositionsOf, NoPositions, Futures, Products
    <3> QED
      BY <3>1, <3>2, <3>3, <3>4 DEF SessionSound
  <2> QED
    BY <2>1, <2>4, <2>5, <2>6, <2>7, <2>14 DEF At, Reading
<1> QED
  BY <1>1, <1>2

\* A sync begins: the range it asks for, and an instant of its own at Hyperliquid.
LEMMA Begins ==
    ASSUME Sound, NEW r \in Runs, NEW q \in Requests, NEW observed \in Instants,
           NEW from \in Instants, NEW todo \in ProductSets, NEW pc \in {"check", "balances"},
           Begin(r, q, observed, from, todo, pc), observed <= now,
           provider = "hyperliquid" =>
             /\ pc = "balances" /\ observed = now /\ <<"linear", now>> \notin days
             /\ \A x \in Runs : run[x].pc # "idle" => run[x].observed # now
    PROVE  Sound'
<1> DEFINE ahead == End(q) > now
           start == Start(q)
           end == End(q)
<1>1. PICK i \in Session : i = Idle("running") /\ Blank(i)
  BY IdleIs, Labels, Zenon
<1>2. PICK t : t = [i EXCEPT !.pc = pc, !.request = q, !.start = start, !.end = end,
                             !.from = from, !.observed = observed, !.todo = todo,
                             !.ahead = ahead]
  OBVIOUS
<1>3. /\ run' = [run EXCEPT ![r] = t] /\ begun' = begun + 1 /\ begun < MaxSyncs
      /\ UNCHANGED <<world, database>>
  BY <1>1, <1>2 DEF Begin
<1>4. now \in Instants /\ begun \in 0..MaxSyncs
  BY DEF Sound, TypeOK
<1>5. end \in Instants /\ start \in Instants
  <2>1. q.end \in Instants \cup {NoTime} /\ q.start \in Instants \cup {NoTime}
    BY ConstantsAssumption DEF SyncRequest
  <2>2. end \in Instants
    BY <1>4, <2>1 DEF End
  <2>3. start \in Instants
    BY <2>1, <2>2, Sizes DEF Start, Minus, Instants
  <2> QED
    BY <2>2, <2>3
<1>6. ahead \in BOOLEAN /\ pc \in PCs /\ q \in Requests \cup {NoTime}
  BY Labels
<1>7. ~ahead => end <= now
  BY <1>4, <1>5, Sizes DEF Instants
<1> HIDE DEF ahead, start, end
<1>8. t \in Session
  BY <1>2, <1>5, <1>6, SessionIs, Zenon
<1>9. /\ t.pc = pc /\ t.request = q /\ t.end = end /\ t.observed = observed /\ t.ahead = ahead
      /\ SameItems(t, i) /\ SamePositions(t, i) /\ t.rows = i.rows /\ t.days = i.days
      /\ t.complete = i.complete /\ t.warned = i.warned
  BY <1>2, <1>5, <1>6, SessionIs, Zenon DEF SameItems, SamePositions
<1>10. Blank(t)
  BY <1>1, <1>9 DEF Blank, NoItems, SameItems, SamePositions
<1>11. SessionSound(t)
  BY <1>7, <1>8, <1>9, <1>10, BlankIsSound
<1>12. Apart(r, t)
  BY <1>9 DEF Apart, At
<1>13. begun' \in 0..MaxSyncs
  BY <1>3, <1>4, Sizes
<1> QED
  BY <1>3, <1>8, <1>11, <1>12, <1>13, SessionMoves

\* The plan of a sync keeps the inductive invariant.
LEMMA PlansAreSound ==
    ASSUME Sound, NEW r \in Runs, NEW q \in Requests, Plan(r, q)
    PROVE  Sound'
<1>1. now \in Instants /\ cursor["spot"] \in Instants \cup {NoTime}
  BY Labels DEF Sound, TypeOK
<1>2. Midnight(now) \in Instants /\ Midnight(now) <= now
  <2>1. now % Day \in 0..now
    BY <1>1, Sizes DEF Instants
  <2> QED
    BY <1>1, <2>1, Sizes DEF Midnight, Instants
<1>3. Start(q) \in Instants /\ HyperliquidStart(q) \in Instants
  <2>1. q.end \in Instants \cup {NoTime} /\ q.start \in Instants \cup {NoTime}
    BY ConstantsAssumption DEF SyncRequest
  <2>2. End(q) \in Instants
    BY <1>1, <2>1 DEF End
  <2>3. Start(q) \in Instants
    BY <2>1, <2>2, Sizes DEF Start, Minus, Instants
  <2> HIDE DEF Start
  <2>4. HyperliquidStart(q) \in Instants
    BY <1>1, <2>3, Sizes DEF HyperliquidStart, Later, Minus, Instants
  <2> QED
    BY <2>3, <2>4
<1>4. q.products \in ProductSets
  BY ConstantsAssumption DEF SyncRequest, ProductSets
<1> DEFINE todo == {"linear"} \cup (q.products \cap {"spot"})
<1>5. todo \in ProductSets
  BY Labels DEF ProductSets
<1>6. CASE provider # "hyperliquid"
  <2>1. Begin(r, q, Midnight(now), Start(q), q.products, "check")
    BY <1>6 DEF Plan, BinancePlan, BybitPlan, BitgetPlan, HyperliquidPlan
  <2> HIDE DEF Midnight, Start
  <2> QED
    BY <1>2, <1>3, <1>4, <1>6, <2>1, Begins
<1>7. CASE provider = "hyperliquid"
  <2>1. /\ Begin(r, q, now, HyperliquidStart(q), todo, "balances")
        /\ <<"linear", now>> \notin days
        /\ \A x \in Runs : run[x].pc # "idle" => run[x].observed # now
    BY <1>7 DEF Plan, BinancePlan, BybitPlan, BitgetPlan, HyperliquidPlan, Observed
  <2>2. now <= now
    BY <1>1, Sizes DEF Instants
  <2> HIDE DEF todo
  <2> QED
    BY <1>1, <1>3, <1>5, <1>7, <2>1, <2>2, Begins
<1> QED
  BY <1>6, <1>7

-----------------------------------------------------------------------------
(* What the exchange lists, and what a sync of it owes. *)

LEMMA ItemIs ==
    ASSUME NEW e \in Events
    PROVE  /\ History[e].product \in Products /\ History[e].kind \in Kinds
           /\ History[e].symbol \in Symbols /\ TimeOf(e) \in Nat
           /\ History[e].seen \in Nat /\ History[e].final \in Nat
           /\ TimeOf(e) <= History[e].seen /\ History[e].seen <= History[e].final
           /\ History[e].kind # "transfer" => History[e].seen = History[e].final
           /\ History[e].kind = "transfer" => History[e].product = "spot"
           /\ History[e].kind = "income" => History[e].product # "spot"
  BY ConstantsAssumption, Sizes DEF Item, TimeOf, Instants

\* Only a transfer is listed before it is final.
LEMMA ListedIs ==
    ASSUME TypeOK, NEW product, NEW kind, NEW instants
    PROVE  /\ Listed(product, kind, instants) \in SUBSET Events
           /\ \A e \in Listed(product, kind, instants) :
                /\ History[e].product = product /\ History[e].kind = kind
                /\ kind # "transfer" => IsFinal(e)
  BY ItemIs DEF Listed, IsFinal

\* An item that a range is owed is listed in it.
LEMMA DueIsListed ==
    ASSUME TypeOK, NEW kinds, NEW symbols, NEW start \in Instants, NEW end \in Instants,
           NEW from \in Instants, from <= start,
           NEW e \in Due(kinds, symbols, start, end)
    PROVE  /\ e \in Events /\ History[e].posts /\ IsFinal(e)
           /\ <<History[e].product, History[e].kind>> \in kinds
           /\ History[e].kind = "trade" => History[e].symbol \in symbols
           /\ e \in Listed(History[e].product, History[e].kind, from..end)
           /\ e \in Listed(History[e].product, History[e].kind, Windowed(from, end))
<1>1. /\ e \in Events /\ History[e].posts /\ now >= History[e].final
      /\ <<History[e].product, History[e].kind>> \in kinds
      /\ start <= TimeOf(e) /\ TimeOf(e) < end
      /\ History[e].kind = "trade" => History[e].symbol \in symbols
  BY DEF Due
<1>2. TimeOf(e) \in Nat /\ History[e].seen <= History[e].final /\ History[e].seen \in Nat
      /\ History[e].final \in Nat
  BY <1>1, ItemIs
<1>3. now \in Nat /\ from \in Nat /\ start \in Nat /\ end \in Nat
  BY Sizes DEF TypeOK
<1>4. now >= History[e].seen
  BY <1>1, <1>2, <1>3
<1>5. TimeOf(e) \in from..end /\ TimeOf(e) < end
  BY <1>1, <1>2, <1>3
<1> QED
  BY <1>1, <1>4, <1>5 DEF Listed, Windowed, IsFinal

\* What is new is posted, what is not has been.
LEMMA NewIsPosted ==
    ASSUME Ledger, TypeOK, NEW listed \in SUBSET Events, NEW e \in listed,
           History[e].posts, AtOnce(e)
    PROVE  e \in Unposted(New(listed)) \cup Posted
<1>1. CASE raw[e] = "absent"
  <2>1. posted[e] \in Nat
    BY DEF TypeOK
  <2> QED
    BY <1>1, <2>1 DEF New, Unposted, Posted
<1>2. CASE raw[e] # "absent"
  BY <1>2 DEF Ledger
<1> QED
  BY <1>1, <1>2

\* What has still to be posted, and what was.
LEMMA UnpostedIs ==
    ASSUME TypeOK, NEW events \in SUBSET Events
    PROVE  /\ Unposted(events) \subseteq events
           /\ \A e \in events : History[e].posts => e \in Unposted(events) \cup Posted
<1>1. \A e \in Events : posted[e] \in Nat
  BY DEF TypeOK
<1> QED
  BY <1>1 DEF Unposted, Posted

\* What a cursor would promise of a range that has ended is final.
LEMMA InRangeIs ==
    ASSUME TypeOK, NEW t \in Session, t.end <= now, NEW e \in Events, InRange(t, e)
    PROVE  /\ History[e].posts /\ now >= History[e].final
           /\ t.from <= TimeOf(e) /\ TimeOf(e) < t.end
<1>1. /\ History[e].final \in Nat /\ TimeOf(e) \in Nat /\ now \in Nat /\ t.end \in Nat
      /\ t.from \in Nat
  BY ItemIs, Sizes DEF TypeOK, Session
<1>2. /\ History[e].posts /\ History[e].final <= TimeOf(e) + Overlap
      /\ t.from <= TimeOf(e) /\ TimeOf(e) + Overlap <= t.end
  BY DEF InRange
<1> QED
  BY <1>1, <1>2, Sizes

\* The same of one product of Binance, of which markets were named.
LEMMA BinanceRangeIsDue ==
    ASSUME TypeOK, provider = "binance", NEW t \in Session, t.request \in Requests,
           t.end <= now, t.request.symbols[t.product] # {}, NEW e \in Events, InRange(t, e)
    PROVE  LET symbols == t.request.symbols[t.product]
           IN /\ t.product = "spot" =>
                   e \in Due({"spot"} \X {"transfer", "trade"}, symbols, t.from, t.end)
              /\ t.product # "spot" =>
                   e \in Due({t.product} \X {"trade", "income"}, symbols, t.from, t.end)
<1>1. /\ History[e].posts /\ now >= History[e].final
      /\ t.from <= TimeOf(e) /\ TimeOf(e) < t.end
  BY InRangeIs
<1>2. History[e].product = t.product
  BY DEF InRange, ResourceOf, Resource
<1>3. History[e].kind = "trade" => History[e].symbol \in t.request.symbols[t.product]
  <2>1. t.product \in Products
    BY DEF Session
  <2>2. Followed[t.product] \subseteq t.request.symbols[t.product]
    BY <2>1 DEF Followed
  <2> QED
    BY <1>2, <2>2 DEF InRange, Tracked
<1>4. /\ History[e].kind \in {"transfer", "trade", "income"}
      /\ History[e].kind = "transfer" => History[e].product = "spot"
      /\ History[e].kind = "income" => History[e].product # "spot"
  BY ItemIs DEF Kinds
<1>5. CASE t.product = "spot"
  <2>1. <<History[e].product, History[e].kind>> \in {"spot"} \X {"transfer", "trade"}
    BY <1>2, <1>4, <1>5
  <2> QED
    BY <1>1, <1>3, <1>5, <2>1 DEF Due
<1>6. CASE t.product # "spot"
  <2>1. <<History[e].product, History[e].kind>> \in {t.product} \X {"trade", "income"}
    BY <1>2, <1>4, <1>6
  <2> QED
    BY <1>1, <1>3, <1>6, <2>1 DEF Due
<1> QED
  BY <1>5, <1>6

\* Known and held balances make up all that a reading has to cover.
LEMMA RowsAreSound ==
    ASSUME TypeOK, provider = "binance", NEW s \in Session, NEW t \in Session,
           NEW account \in Products, NoRows(s), t.observed = s.observed,
           RowsIn(t, s, account, Held[now][account], Known(account) \ Held[now][account])
    PROVE  BalancesOf(t)
<1>1. \A b \in t.rows : /\ b.account = account /\ b.as_of = t.observed /\ b.read = now
                        /\ b.asset \in Held[now][account] \cup Known(account)
  BY DEF NoRows, RowsIn
<1>2. now <= now
  BY Sizes DEF TypeOK
<1>3. ASSUME NEW b \in balances, b.account = account
      PROVE  \/ Taken(account, b.asset, t.observed)
             \/ \E d \in t.rows : d.account = account /\ d.asset = b.asset
  BY <1>3 DEF RowsIn, Known
<1> QED
  BY <1>1, <1>2, <1>3 DEF BalancesOf

\* The positions of an account that was not told of before.
LEMMA OpenedIsSound ==
    ASSUME TypeOK, NEW s \in Session, NEW t \in Session, PositionsOf(s),
           NEW scope \in Futures, NEW account \in Products, Belongs(scope, account),
           account \notin s.told, NEW symbols \in SUBSET Symbols, t.observed = s.observed,
           OpenedIn(t, s, account, scope, symbols)
    PROVE  PositionsOf(t)
<1> SUFFICES ASSUME provider # "bybit"
             PROVE  PositionsOf(t)
  BY DEF PositionsOf
<1> DEFINE day == <<scope, s.observed>>
           mark == [scope |-> scope, as_of |-> s.observed]
<1>1. /\ s.marked \subseteq s.told
      /\ \A d \in s.days : d[1] \in Futures =>
           d[2] = s.observed /\ \E a \in s.marked : Belongs(d[1], a)
      /\ \A a \in Products \ s.told : s.open[a] = {}
      /\ \A a \in s.told : \E f \in Futures : ToldOf(s, a, f)
  BY DEF PositionsOf
<1>2. /\ t.days = s.days \cup ({day} \ days)
      /\ s.opened \subseteq t.opened
      /\ \A x \in symbols : PositionOf(account, scope, s.observed, x) \in t.opened \cup positions
      /\ t.told = s.told \cup {account}
      /\ t.open = [s.open EXCEPT ![account] = @ \cup ({scope} \X symbols)]
      /\ IF day \notin days
         THEN t.marked = s.marked \cup {account} /\ t.marker = [s.marker EXCEPT ![account] = mark]
         ELSE t.marked = s.marked /\ t.marker = s.marker
  BY DEF OpenedIn
<1>3. /\ s.open \in [Products -> SUBSET (Products \X Symbols)]
      /\ s.marker \in [Products -> Marker]
  BY DEF Session
<1>4. t.open[account] = {scope} \X symbols /\ \A a \in Products \ {account} : t.open[a] = s.open[a]
  BY <1>1, <1>2, <1>3
<1>5. \A a \in Products \ {account} : t.marker[a] = s.marker[a] /\ (a \in t.marked <=> a \in s.marked)
  BY <1>2, <1>3
<1>6. IF day \notin days THEN account \in t.marked /\ t.marker[account] = mark
      ELSE account \notin t.marked
  BY <1>1, <1>2, <1>3
<1>7. t.marked \subseteq t.told
  BY <1>1, <1>2
<1>8. ASSUME NEW d \in t.days, d[1] \in Futures
      PROVE  d[2] = t.observed /\ \E a \in t.marked : Belongs(d[1], a)
  <2>1. CASE d \in s.days
    <3>1. d[2] = s.observed /\ \E a \in s.marked : Belongs(d[1], a)
      BY <1>1, <1>8, <2>1
    <3>2. s.marked \subseteq t.marked
      BY <1>2
    <3> QED
      BY <3>1, <3>2
  <2>2. CASE d \notin s.days
    <3>1. d = day /\ day \notin days
      BY <1>2, <2>2
    <3>2. account \in t.marked /\ d[1] = scope /\ d[2] = s.observed
      BY <1>6, <3>1
    <3> QED
      BY <3>2
  <2> QED
    BY <2>1, <2>2
<1>9. \A a \in Products \ t.told : t.open[a] = {}
  BY <1>1, <1>2, <1>4
<1>10. ASSUME NEW a \in t.told
       PROVE  \E f \in Futures : ToldOf(t, a, f)
  <2>1. CASE a = account
    <3>1. ASSUME NEW p \in t.open[a]
          PROVE  p[1] = scope /\ PositionOf(a, scope, t.observed, p[2]) \in t.opened \cup positions
      BY <1>2, <1>4, <2>1, <3>1
    <3>2. IF a \in t.marked THEN t.marker[a] = [scope |-> scope, as_of |-> t.observed]
          ELSE <<scope, t.observed>> \in days
      BY <1>6, <2>1
    <3> QED
      BY <2>1, <3>1, <3>2 DEF ToldOf
  <2>2. CASE a # account
    <3>1. PICK f \in Futures : ToldOf(s, a, f)
      BY <1>1, <1>2, <2>2
    <3>2. a \in Products
      BY <1>2, <2>2 DEF Session
    <3>3. ToldOf(t, a, f)
      <4>1. /\ t.open[a] = s.open[a] /\ t.marker[a] = s.marker[a]
            /\ a \in t.marked <=> a \in s.marked
        BY <1>4, <1>5, <2>2, <3>2
      <4> QED
        BY <1>2, <3>1, <4>1 DEF ToldOf
    <3> QED
      BY <3>3
  <2> QED
    BY <2>1, <2>2
<1> QED
  BY <1>7, <1>8, <1>9, <1>10 DEF PositionsOf

\* A step that reads no positions.
LEMMA SamePositionsAreSound ==
    ASSUME NEW s, NEW t, PositionsOf(s), SamePositions(t, s), t.observed = s.observed,
           \A d \in t.days : d[1] \in Futures => d \in s.days
    PROVE  PositionsOf(t)
<1>1. \A a, scope : ToldOf(s, a, scope) => ToldOf(t, a, scope)
  BY DEF ToldOf, SamePositions
<1> QED
  BY <1>1 DEF PositionsOf, SamePositions

\* A reading of spot: transfers that are final are posted with their raw events
\* brought up to date, trades are posted with theirs.
LEMMA BinanceSpotIsSound ==
    ASSUME Sound, NEW r \in Runs, BinanceSpot(r)
    PROVE  Reading(r)
<1> DEFINE s == run[r]
           from == BinanceStart(s, "spot")
           symbols == s.request.symbols["spot"]
           transfers == WalletHistory(from, s.end)
           trades == SpotTrades(symbols, from, s.end)
           final == {e \in transfers : IsFinal(e)}
           more == Due({"spot"} \X {"transfer", "trade"}, symbols, from, s.end)
<1>1. /\ TypeOK /\ Ledger /\ SessionSound(s) /\ s \in Session
      /\ provider = "binance" /\ s.pc = "history"
  BY DEF Sound, TypeOK, BinanceSpot, At
<1>2. /\ s.request \in Requests /\ (~s.ahead => s.end <= now) /\ s.observed <= now
      /\ NoItems(s) /\ NoRows(s) /\ NoPositions(s)
      /\ (~s.warned => s.due \subseteq Posted) /\ PositionsOf(s)
  <2>1. Staged(s) /\ Answers(s) /\ PositionsOf(s)
    BY <1>1 DEF SessionSound
  <2> QED
    BY <1>1, <2>1 DEF Staged, Answers, NoItems
<1>3. PICK t \in Session :
        /\ Become(r, t) /\ t.pc = "commit" /\ t.product = "spot" /\ SameRequest(t, s)
        /\ t.from = from /\ t.complete = Covered(symbols)
        /\ t.warned = (s.warned \/ ~Covered(symbols))
        /\ t.due = s.due \cup more
        /\ t.raws = (s.raws \cup New(transfers)) \cup New(trades)
        /\ t.pending = (s.pending \cup {e \in New(transfers) : ~IsFinal(e)})
                         \cup {e \in New(trades) : ~IsFinal(e)}
        /\ t.posts = (s.posts \cup Unposted(final)) \cup Unposted(New(trades))
        /\ t.refreshed = s.refreshed \cup Unposted(final)
        /\ t.ignored = s.ignored
        /\ SamePositions(t, s)
        /\ t.days = s.days \cup ({<<"spot", s.observed>>} \ days)
        /\ RowsIn(t, s, "spot", Held[now]["spot"], Known("spot") \ Held[now]["spot"])
  <2> HIDE DEF from, symbols, transfers, trades, final, more, s
  <2> USE DEF s
  <2> QED
    BY <1>1, BinanceSpotIs DEF from, symbols, transfers, trades, final, more
<1>4. /\ t.request = s.request /\ t.end = s.end /\ t.ahead = s.ahead /\ t.observed = s.observed
  BY <1>3 DEF SameRequest
<1>5. /\ transfers \in SUBSET Events /\ trades \in SUBSET Events
      /\ \A e \in trades : IsFinal(e) /\ History[e].kind = "trade"
      /\ \A e \in transfers : History[e].kind = "transfer"
  BY <1>1, ListedIs DEF WalletHistory, SpotTrades, Traded
<1>6. from \in Instants /\ s.end \in Instants
  BY <1>1, RangeIs, Labels DEF Session
<1> HIDE DEF s, from
<1>7. \A e \in more :
        \/ e \in final
        \/ e \in trades /\ History[e].posts
  <2> SUFFICES ASSUME NEW e \in more
               PROVE  \/ e \in final
                      \/ e \in trades /\ History[e].posts
    OBVIOUS
  <2>0. from <= from
    BY <1>6, Sizes
  <2>1. /\ e \in Events /\ History[e].posts /\ IsFinal(e)
        /\ <<History[e].product, History[e].kind>> \in {"spot"} \X {"transfer", "trade"}
        /\ History[e].kind = "trade" => History[e].symbol \in symbols
        /\ e \in Listed(History[e].product, History[e].kind, from..s.end)
        /\ e \in Listed(History[e].product, History[e].kind, Windowed(from, s.end))
    <3> DEFINE kinds == {"spot"} \X {"transfer", "trade"}
    <3>1. e \in Due(kinds, symbols, from, s.end)
      OBVIOUS
    <3> HIDE DEF kinds, symbols
    <3>2. TypeOK /\ from \in Instants /\ s.end \in Instants
      BY <1>1, <1>6
    <3>3. /\ e \in Events /\ History[e].posts /\ IsFinal(e)
          /\ <<History[e].product, History[e].kind>> \in kinds
          /\ History[e].kind = "trade" => History[e].symbol \in symbols
          /\ e \in Listed(History[e].product, History[e].kind, from..s.end)
          /\ e \in Listed(History[e].product, History[e].kind, Windowed(from, s.end))
      BY <2>0, <3>1, <3>2, DueIsListed
    <3> QED
      BY <3>3 DEF kinds
  <2>2. CASE History[e].kind = "transfer"
    BY <2>1, <2>2 DEF WalletHistory
  <2>3. CASE History[e].kind = "trade"
    BY <2>1, <2>3 DEF SpotTrades, Traded
  <2> QED
    BY <2>1, <2>2, <2>3
<1> HIDE DEF transfers, trades, symbols
<1>8. /\ \A e \in trades : History[e].posts => e \in Unposted(New(trades)) \cup Posted
      /\ Unposted(New(trades)) \subseteq New(trades) /\ New(trades) \subseteq trades
      /\ New(transfers) \subseteq transfers
  BY <1>1, <1>5, NewIsPosted, UnpostedIs DEF AtOnce, New
<1>9. /\ \A e \in final : History[e].posts => e \in Unposted(final) \cup Posted
      /\ Unposted(final) \subseteq final
  <2>1. final \in SUBSET Events
    BY <1>5
  <2> HIDE DEF final
  <2> QED
    BY <1>1, <2>1, UnpostedIs
<1>10. \A e \in more : History[e].posts
  BY DEF Due
<1>11. more \subseteq t.posts \cup Posted
  BY <1>3, <1>7, <1>8, <1>9, <1>10
<1>12. LedgerOf(t)
  <2>1. t.pending \subseteq t.raws /\ t.ignored \subseteq t.raws
    BY <1>2, <1>3 DEF NoItems
  <2>2. \A e \in t.raws : AtOnce(e) /\ History[e].posts => e \in t.posts \cup Posted
    BY <1>1, <1>2, <1>3, <1>5, <1>8 DEF NoItems, AtOnce
  <2>3. t.pending \cap t.posts = {}
    <3>1. \A e \in t.pending : e \in transfers /\ ~IsFinal(e)
      BY <1>2, <1>3, <1>5, <1>8 DEF NoItems
    <3>2. \A e \in t.posts : IsFinal(e)
      BY <1>2, <1>3, <1>5, <1>8, <1>9 DEF NoItems
    <3> QED
      BY <3>1, <3>2
  <2>4. t.posts \subseteq t.raws \cup t.refreshed
    BY <1>2, <1>3, <1>8 DEF NoItems
  <2> QED
    BY <2>1, <2>2, <2>3, <2>4 DEF LedgerOf
<1>13. Answers(t)
  <2>1. ~t.warned => t.due \subseteq t.posts \cup Posted
    BY <1>2, <1>3, <1>11
  <2>2. ASSUME t.complete, ~t.ahead, NEW e \in Events, InRange(t, e)
        PROVE  e \in t.posts \cup Posted
    <3>1. t.request.symbols[t.product] # {}
      BY <1>3, <1>4, <2>2 DEF Covered, symbols
    <3>2. e \in more
      BY <1>1, <1>2, <1>3, <1>4, <2>2, <3>1, BinanceRangeIsDue DEF symbols
    <3> QED
      BY <1>11, <3>2
  <2> QED
    BY <1>1, <2>1, <2>2 DEF Answers
<1>14. BalancesOf(t)
  BY <1>1, <1>2, <1>3, <1>4, Labels, RowsAreSound
<1>15. PositionsOf(t)
  <2>1. \A d \in t.days : d[1] \in Futures => d \in s.days
    BY <1>3 DEF Futures
  <2> QED
    BY <1>2, <1>3, <1>4, <2>1, SamePositionsAreSound
<1>16. SessionSound(t)
  <2>1. Staged(t)
    BY <1>1, <1>2, <1>3, <1>4 DEF Staged
  <2> QED
    BY <1>12, <1>13, <1>14, <1>15, <2>1 DEF SessionSound
<1> QED
  BY <1>1, <1>3, <1>4, <1>16 DEF At, s, Reading

\* A reading of futures: the trades reach further back than the income, and both
\* are posted when they are first seen.
LEMMA BinanceFuturesIsSound ==
    ASSUME Sound, NEW r \in Runs, NEW product \in Futures, BinanceFutures(r, product)
    PROVE  Reading(r)
<1> DEFINE s == run[r]
           symbols == s.request.symbols[product]
           from == IncomeFrom(s, product)
           early == TradesFrom(s, product)
           markets == Markets(s, product)
           trades == FuturesTrades(product, markets, early, s.end)
           income == FuturesIncome(product, from, s.end)
           more == Due({product} \X {"trade", "income"}, symbols, from, s.end)
<1>1. /\ TypeOK /\ Ledger /\ SessionSound(s) /\ s \in Session
      /\ provider = "binance" /\ s.pc = "history"
  BY DEF Sound, TypeOK, BinanceFutures, At
<1>2. /\ s.request \in Requests /\ (~s.ahead => s.end <= now) /\ s.observed <= now
      /\ NoItems(s) /\ NoRows(s) /\ NoPositions(s)
      /\ (~s.warned => s.due \subseteq Posted) /\ PositionsOf(s)
  <2>1. Staged(s) /\ Answers(s) /\ PositionsOf(s)
    BY <1>1 DEF SessionSound
  <2> QED
    BY <1>1, <2>1 DEF Staged, Answers, NoItems
<1>3. PICK t \in Session :
        /\ Become(r, t) /\ t.pc = "commit" /\ t.product = product /\ SameRequest(t, s)
        /\ t.from = from /\ t.complete = Covered(symbols)
        /\ t.warned = (s.warned \/ from # BinanceStart(s, product) \/ ~Covered(symbols))
        /\ t.due = s.due \cup more
        /\ t.raws = (s.raws \cup New(trades)) \cup New(income)
        /\ t.pending = (s.pending \cup {e \in New(trades) : ~IsFinal(e)})
                         \cup {e \in New(income) : ~IsFinal(e)}
        /\ t.posts = (s.posts \cup Unposted(New(trades))) \cup Unposted(New(income))
        /\ t.refreshed = s.refreshed
        /\ t.ignored \subseteq s.ignored \cup New(income)
        /\ OpenedIn(t, s, product, product, Open[now][product])
        /\ RowsIn(t, s, product, Held[now][product], Known(product) \ Held[now][product])
  <2> HIDE DEF from, symbols, trades, income, more, s, early, markets
  <2> USE DEF s
  <2> QED
    BY <1>1, BinanceFuturesIs DEF from, symbols, trades, income, more, early, markets
<1>4. /\ t.request = s.request /\ t.end = s.end /\ t.ahead = s.ahead /\ t.observed = s.observed
  BY <1>3 DEF SameRequest
<1>5. /\ trades \in SUBSET Events /\ income \in SUBSET Events
      /\ \A e \in trades : IsFinal(e) /\ History[e].kind = "trade"
      /\ \A e \in income : IsFinal(e) /\ History[e].kind = "income"
  BY <1>1, ListedIs DEF FuturesTrades, FuturesIncome, Traded
<1>6. from \in Instants /\ early \in Instants /\ early <= from /\ s.end \in Instants
      /\ product \in Products /\ product # "spot"
  <2>1. product \in Products /\ product # "spot"
    BY DEF Futures, Products
  <2> QED
    BY <1>1, <2>1, RangeIs DEF Session
<1> HIDE DEF s, from, early
<1>7. ASSUME NEW e \in more
      PROVE  e \in trades \cup income /\ History[e].posts
  <2> DEFINE kinds == {product} \X {"trade", "income"}
  <2>0. from <= from
    BY <1>6, Sizes
  <2>1. e \in Due(kinds, symbols, from, s.end)
    OBVIOUS
  <2> HIDE DEF kinds, symbols
  <2>2. TypeOK
    BY <1>1
  <2>3. /\ e \in Events /\ History[e].posts
        /\ <<History[e].product, History[e].kind>> \in kinds
        /\ History[e].kind = "trade" => History[e].symbol \in symbols
        /\ e \in Listed(History[e].product, History[e].kind, Windowed(from, s.end))
    BY <1>6, <2>0, <2>1, <2>2, DueIsListed
  <2>4. e \in Listed(History[e].product, History[e].kind, Windowed(early, s.end))
    BY <1>6, <2>1, <2>2, DueIsListed
  <2>5. History[e].product = product /\ History[e].kind \in {"trade", "income"}
    BY <2>3 DEF kinds
  <2>6. CASE History[e].kind = "trade"
    <3>1. History[e].symbol \in markets
      BY <2>3, <2>6 DEF symbols, Markets
    <3> QED
      BY <2>3, <2>4, <2>5, <2>6, <3>1 DEF FuturesTrades, Traded
  <2>7. CASE History[e].kind = "income"
    BY <2>3, <2>5, <2>7 DEF FuturesIncome
  <2> QED
    BY <2>3, <2>5, <2>6, <2>7
<1> HIDE DEF trades, income, symbols, markets, more
<1>8. \A e \in Events : History[e].kind # "transfer" => AtOnce(e)
  BY DEF AtOnce
<1>9. /\ \A e \in trades : History[e].posts => e \in Unposted(New(trades)) \cup Posted
      /\ \A e \in income : History[e].posts => e \in Unposted(New(income)) \cup Posted
      /\ Unposted(New(trades)) \subseteq New(trades) /\ New(trades) \subseteq trades
      /\ Unposted(New(income)) \subseteq New(income) /\ New(income) \subseteq income
  BY <1>1, <1>5, <1>8, NewIsPosted, UnpostedIs DEF New
<1>10. more \subseteq t.posts \cup Posted
  BY <1>3, <1>7, <1>9
<1>11. LedgerOf(t)
  <2>1. t.pending = {} /\ t.ignored \subseteq t.raws
    BY <1>2, <1>3, <1>5, <1>9 DEF NoItems
  <2>2. \A e \in t.raws : AtOnce(e) /\ History[e].posts => e \in t.posts \cup Posted
    BY <1>2, <1>3, <1>9 DEF NoItems
  <2>3. t.posts \subseteq t.raws \cup t.refreshed
    BY <1>2, <1>3, <1>9 DEF NoItems
  <2> QED
    BY <2>1, <2>2, <2>3 DEF LedgerOf
<1>12. Answers(t)
  <2>1. ~t.warned => t.due \subseteq t.posts \cup Posted
    BY <1>2, <1>3, <1>10
  <2>2. ASSUME t.complete, ~t.ahead, NEW e \in Events, InRange(t, e)
        PROVE  e \in t.posts \cup Posted
    <3>1. t.request.symbols[t.product] # {}
      BY <1>3, <1>4, <2>2 DEF Covered, symbols
    <3>2. t.request \in Requests /\ t.end <= now
      BY <1>2, <1>4, <2>2
    <3>3. e \in Due({t.product} \X {"trade", "income"}, t.request.symbols[t.product], t.from, t.end)
      BY <1>1, <1>3, <1>6, <2>2, <3>1, <3>2, BinanceRangeIsDue
    <3>4. e \in more
      BY <1>3, <1>4, <3>3 DEF symbols, more
    <3> QED
      BY <1>10, <3>4
  <2> QED
    BY <1>1, <2>1, <2>2 DEF Answers
<1>13. BalancesOf(t)
  BY <1>1, <1>2, <1>3, <1>4, <1>6, RowsAreSound
<1>14. PositionsOf(t)
  <2>1. Belongs(product, product) /\ product \notin s.told
    BY <1>1, <1>2 DEF Belongs, NoPositions
  <2>2. Open[now][product] \in SUBSET Symbols
    BY <1>1, <1>6, AskedFor
  <2> QED
    BY <1>1, <1>2, <1>3, <1>4, <1>6, <2>1, <2>2, OpenedIsSound
<1>15. SessionSound(t)
  <2>1. Staged(t)
    BY <1>1, <1>2, <1>3, <1>4 DEF Staged
  <2> QED
    BY <1>11, <1>12, <1>13, <1>14, <2>1 DEF SessionSound
<1> QED
  BY <1>1, <1>3, <1>4, <1>15 DEF At, s, Reading

\* Positions, equity and balances of a Hyperliquid account, all of one instant.
LEMMA HyperliquidStateIsSound ==
    ASSUME Sound, NEW r \in Runs, HyperliquidState(r)
    PROVE  Reading(r)
<1> DEFINE s == run[r]
           market == Open[now]["linear"]
           held == Held[now]["spot"]
           missing == Known("spot") \ (held \cup {"equity"})
           dated == {<<"public", Midnight(s.observed)>>} \ days
<1>1. /\ TypeOK /\ Ledger /\ SessionSound(s) /\ s \in Session
      /\ provider = "hyperliquid" /\ s.pc = "balances"
  BY DEF Sound, TypeOK, HyperliquidState, At
<1>2. /\ s.request \in Requests /\ (~s.ahead => s.end <= now) /\ s.observed <= now
      /\ NoItems(s) /\ NoRows(s) /\ NoPositions(s) /\ s.due = {} /\ PositionsOf(s)
      /\ <<"linear", s.observed>> \notin days
  <2>1. Staged(s) /\ PositionsOf(s) /\ BalancesOf(s)
    BY <1>1 DEF SessionSound
  <2> QED
    BY <1>1, <2>1 DEF Staged, BalancesOf
<1>3. /\ market \in SUBSET Symbols /\ held \in SUBSET (Assets \cup {"equity"})
      /\ missing \in SUBSET (Assets \cup {"equity"}) /\ {"equity"} \in SUBSET (Assets \cup {"equity"})
      /\ {} \in SUBSET (Assets \cup {"equity"}) /\ now \in Instants /\ "equity" \notin held
  BY <1>1, AskedFor, Labels
<1> HIDE DEF market, held, missing, s
<1>4. PICK p \in Session : /\ p = Positions(s, "spot", "linear", market)
                           /\ PositionedIn(p, s, "spot", "linear", market)
  BY <1>1, <1>3, Labels, PositionsIs, Zenon
<1>5. PICK b \in Session : /\ b = Balances(p, "spot", {"equity"}, {})
                           /\ BalancedIn(b, p, "spot", {"equity"}, {})
  BY <1>1, <1>3, Labels, BalancesIs, Zenon
<1> DEFINE more == b.days \cup dated
<1>6. PICK u : u = [b EXCEPT !.days = more]
  OBVIOUS
<1>7. more \in DaySets
  <2>1. s.observed \in Instants
    BY <1>1 DEF Session
  <2>2. Midnight(s.observed) \in Instants
    <3>1. s.observed % Day \in 0..s.observed
      BY <2>1, Sizes DEF Instants
    <3> QED
      BY <2>1, <3>1, Sizes DEF Midnight, Instants
  <2> QED
    BY <2>2, Labels DEF Session, DaySets
<1> HIDE DEF more
<1>8. u \in Session
  BY <1>6, <1>7, SessionIs, Zenon
<1>9. /\ u.pc = b.pc /\ SameRequest(u, b) /\ SameFlags(u, b) /\ SameItems(u, b)
      /\ SamePositions(u, b) /\ u.rows = b.rows /\ u.days = more
  BY <1>6, <1>7, SessionIs, ZenonT(60) DEF SameRequest, SameFlags, SameItems, SamePositions
<1>10. u.observed = s.observed /\ u.todo = s.todo /\ p.observed = s.observed
  BY <1>4, <1>5, <1>9 DEF SameRequest, PositionedIn, BalancedIn
<1>11. \A c \in u.rows : c.account = "spot" /\ c.as_of = s.observed /\ c.read = now /\ c.asset = "equity"
  <2>1. p.rows = {}
    BY <1>2, <1>4 DEF NoRows, PositionedIn
  <2> QED
    BY <1>5, <1>9, <1>10, <2>1 DEF BalancedIn, RowsIn
<1>12. PICK v \in Session :
         /\ v = (IF "spot" \in s.todo THEN SpotBalances(u) ELSE u)
         /\ v.pc = u.pc /\ SameRequest(v, u) /\ SameFlags(v, u) /\ SameItems(v, u)
         /\ SamePositions(v, u) /\ v.days = u.days
         /\ \A c \in v.rows : /\ c.account = "spot" /\ c.as_of = s.observed /\ c.read = now
                              /\ c.asset # "equity" => "spot" \in s.todo
         /\ "spot" \in s.todo => \A a \in held \cup missing :
              Taken("spot", a, s.observed) \/ \E d \in v.rows : d.account = "spot" /\ d.asset = a
  <2>1. CASE "spot" \in s.todo
    <3>1. PICK v \in Session : /\ v = Balances(u, "spot", held, missing)
                               /\ BalancedIn(v, u, "spot", held, missing)
      BY <1>1, <1>3, <1>8, Labels, BalancesIs, Zenon
    <3>2. v = SpotBalances(u)
      BY <3>1, Zenon DEF SpotBalances, held, missing
    <3>3. \A c \in v.rows : c.account = "spot" /\ c.as_of = s.observed /\ c.read = now
      BY <1>10, <1>11, <3>1 DEF BalancedIn, RowsIn
    <3>4. \A a \in held \cup missing :
            Taken("spot", a, s.observed) \/ \E d \in v.rows : d.account = "spot" /\ d.asset = a
      BY <1>10, <3>1 DEF BalancedIn, RowsIn
    <3>5. /\ v.pc = u.pc /\ SameRequest(v, u) /\ SameFlags(v, u) /\ SameItems(v, u)
          /\ SamePositions(v, u) /\ v.days = u.days
      BY <3>1 DEF BalancedIn
    <3> QED
      BY <2>1, <3>2, <3>3, <3>4, <3>5
  <2>2. CASE "spot" \notin s.todo
    <3>1. /\ SameRequest(u, u) /\ SameFlags(u, u) /\ SameItems(u, u) /\ SamePositions(u, u)
      BY DEF SameRequest, SameFlags, SameItems, SamePositions
    <3> QED
      BY <1>8, <1>11, <2>2, <3>1
  <2> QED
    BY <2>1, <2>2
<1>13. PICK t : t = [v EXCEPT !.pc = "history"]
  OBVIOUS
<1>14. Become(r, t)
  <2>1. u = [b EXCEPT !.days = @ \cup ({<<"public", Midnight(s.observed)>>} \ days)]
    BY <1>6 DEF more
  <2> QED
    BY <1>4, <1>5, <1>12, <1>13, <2>1 DEF HyperliquidState, s, market
<1>15. t \in Session
  BY <1>13, Labels, SessionIs, Zenon
<1>16. /\ t.pc = "history" /\ SameRequest(t, v) /\ SameFlags(t, v) /\ SameItems(t, v)
       /\ SamePositions(t, v) /\ t.rows = v.rows /\ t.days = v.days
  BY <1>13, Labels, SessionIs, ZenonT(60) DEF SameRequest, SameFlags, SameItems, SamePositions
<1>17. /\ t.request = s.request /\ t.end = s.end /\ t.ahead = s.ahead /\ t.observed = s.observed
  BY <1>4, <1>5, <1>9, <1>12, <1>16 DEF SameRequest, PositionedIn, BalancedIn
<1>18. NoItems(t) /\ t.due = {}
  <2>1. SameItems(t, s)
    BY <1>4, <1>5, <1>9, <1>12, <1>16 DEF SameItems, PositionedIn, BalancedIn
  <2> QED
    BY <1>2, <2>1 DEF SameItems, NoItems
<1>19. PositionsOf(p)
  BY <1>1, <1>2, <1>3, <1>4, <1>10, Labels, OpenedIsSound
     DEF Belongs, NoPositions, PositionedIn, Futures
<1>20. t.days = p.days \cup dated /\ SamePositions(t, p)
  BY <1>5, <1>9, <1>12, <1>16 DEF SamePositions, BalancedIn, more
<1>21. PositionsOf(t)
  <2>1. \A d \in t.days : d[1] \in Futures => d \in p.days
    BY <1>20 DEF Futures
  <2>2. t.observed = p.observed
    BY <1>10, <1>17
  <2> QED
    BY <1>19, <1>20, <2>1, <2>2, SamePositionsAreSound
<1>22. <<"linear", t.observed>> \in t.days
  BY <1>2, <1>4, <1>17, <1>20 DEF PositionedIn, OpenedIn
<1>23. BalancesOf(t)
  <2>1. \A c \in t.rows : c.as_of = t.observed /\ c.read <= now
    BY <1>3, <1>12, <1>16, <1>17, Sizes
  <2>2. \A c, d \in t.rows : c.read = d.read
    BY <1>12, <1>16
  <2>3. ASSUME NEW b0 \in balances, NEW c \in t.rows, b0.asset # "equity", c.asset # "equity",
               b0.account = c.account
        PROVE  \/ Taken(b0.account, b0.asset, t.observed)
               \/ \E d \in t.rows : d.account = b0.account /\ d.asset = b0.asset
    <3>1. b0.account = "spot" /\ "spot" \in s.todo
      BY <1>12, <1>16, <2>3
    <3>2. b0.asset \in held \cup missing
      BY <2>3, <3>1 DEF Known, missing
    <3> QED
      BY <1>12, <1>16, <1>17, <3>1, <3>2
  <2> QED
    BY <1>2, <1>16, <1>17, <1>22, <2>1, <2>2, <2>3 DEF BalancesOf
<1>24. SessionSound(t)
  <2>1. Staged(t)
    BY <1>1, <1>2, <1>16, <1>17, <1>18 DEF Staged
  <2>2. LedgerOf(t) /\ Answers(t)
    BY <1>16, <1>18 DEF LedgerOf, Answers, NoItems
  <2> QED
    BY <1>21, <1>23, <2>1, <2>2 DEF SessionSound
<1> QED
  BY <1>1, <1>14, <1>15, <1>17, <1>24, <1>16 DEF At, s, Reading

\* The history of a Hyperliquid account, as whole as its pages are.
LEMMA HyperliquidHistoryIsSound ==
    ASSUME Sound, NEW r \in Runs, HyperliquidHistory(r)
    PROVE  Reading(r)
<1> DEFINE s == run[r]
           listed(k) == HyperliquidListed(k, s.from, s.end)
           answer == [k \in Kinds |-> Pages(listed(k), s.from, MaxRecords[k])]
           new == New(UNION {answer[k].items : k \in Kinds})
           complete == \A k \in Kinds : ~answer[k].truncated
           empty == {e \in new : ~History[e].posts}
           warned == ~complete \/ Unsupported(new) # {}
           due == Due({"spot", "linear"} \X Kinds, Symbols, s.from, s.end)
<1>1. /\ TypeOK /\ Ledger /\ SessionSound(s) /\ s \in Session
      /\ provider = "hyperliquid" /\ s.pc = "history"
  BY DEF Sound, TypeOK, HyperliquidHistory, At
<1>2. /\ s.request \in Requests /\ (~s.ahead => s.end <= now) /\ s.observed <= now
      /\ NoItems(s) /\ PositionsOf(s) /\ BalancesOf(s)
  <2>1. Staged(s) /\ PositionsOf(s) /\ BalancesOf(s)
    BY <1>1 DEF SessionSound
  <2> QED
    BY <1>1, <2>1 DEF Staged
<1>3. s.from \in Instants /\ s.end \in Instants /\ s.from \in Int
  <2>1. s.from \in Instants /\ s.end \in Instants
    BY <1>1 DEF Session
  <2> HIDE DEF s
  <2> QED
    BY <2>1, Sizes DEF Instants
<1>4. \A k \in Kinds : listed(k) \in SUBSET Events /\ \A e \in listed(k) : IsFinal(e)
  BY <1>1, ListedIs DEF HyperliquidListed
<1>5. \A k \in Kinds : MaxRecords[k] \in Nat
  BY ConstantsAssumption
<1> HIDE DEF s, listed
<1>6. \A k \in Kinds : Whole(listed(k), s.from, answer[k])
  <2> SUFFICES ASSUME NEW k \in Kinds
               PROVE  Whole(listed(k), s.from, Pages(listed(k), s.from, MaxRecords[k]))
    OBVIOUS
  <2>1. listed(k) \in SUBSET Events /\ MaxRecords[k] \in Nat
    BY <1>4, <1>5
  <2> QED
    BY <1>3, <2>1, FillsAreWhole
<1>7. complete \in BOOLEAN
  <2> SUFFICES \A k \in Kinds : answer[k].truncated \in BOOLEAN
    OBVIOUS
  <2> HIDE DEF answer
  <2> QED
    BY <1>6 DEF Whole
<1> HIDE DEF answer
<1>8. new \in SUBSET Events /\ \A e \in new : IsFinal(e) /\ raw[e] = "absent"
  BY <1>4, <1>6 DEF Whole, New
<1>9. complete => \A k \in Kinds : \A e \in listed(k) :
        s.from <= TimeOf(e) => e \in answer[k].items
  BY <1>6 DEF Whole
<1>10. ASSUME complete, NEW k \in Kinds, NEW e \in listed(k), s.from <= TimeOf(e)
       PROVE  e \in new \/ raw[e] # "absent"
  BY <1>9, <1>10 DEF New
<1>11. empty \in EventSets /\ due \in EventSets /\ warned \in BOOLEAN /\ (~warned => complete)
  BY <1>8 DEF EventSets, Due
<1> HIDE DEF new, complete, warned, empty
<1>12. PICK u \in Session : u = Store(s, new, new) /\ StoredIn(u, s, new, new)
  BY <1>1, <1>8, StoreIs, Zenon
<1>13. PICK t : t = [u EXCEPT !.pc = "commit", !.ignored = empty, !.complete = complete,
                              !.warned = warned, !.due = due]
  OBVIOUS
<1>14. Become(r, t)
  BY <1>12, <1>13 DEF HyperliquidHistory, s, listed, answer, new, complete, warned, empty
<1> HIDE DEF due
<1>15. t \in Session
  BY <1>7, <1>11, <1>13, Labels, SessionIs, Zenon
<1>16. /\ t.pc = "commit" /\ t.ignored = empty /\ t.complete = complete /\ t.warned = warned
       /\ t.due = due /\ t.request = u.request /\ t.end = u.end /\ t.ahead = u.ahead
       /\ t.observed = u.observed /\ t.from = u.from
  BY <1>7, <1>11, <1>13, Labels, SessionIs, Zenon
<1>17. /\ SamePositions(t, u) /\ t.rows = u.rows /\ t.days = u.days
       /\ t.raws = u.raws /\ t.pending = u.pending /\ t.posts = u.posts
  BY <1>7, <1>11, <1>13, Labels, SessionIs, Zenon DEF SamePositions
<1>18. /\ t.request = s.request /\ t.end = s.end /\ t.ahead = s.ahead /\ t.observed = s.observed
       /\ t.from = s.from
  BY <1>12, <1>16 DEF StoredIn, SameRequest, SameFlags
<1>19. SamePositions(t, s) /\ t.rows = s.rows /\ t.days = s.days
  BY <1>12, <1>17 DEF StoredIn, SamePositions
<1>20. t.raws = new /\ t.pending = {} /\ t.posts = Unposted(new)
  <2>1. New(new) = new
    BY <1>8 DEF New
  <2>2. t.raws = New(new) /\ t.posts = Unposted(new) /\ t.pending = {e \in New(new) : ~IsFinal(e)}
    BY <1>2, <1>12, <1>17 DEF StoredIn, NoItems
  <2> QED
    BY <1>8, <2>1, <2>2
<1>21. \A e \in new : History[e].posts => e \in t.posts \cup Posted
  BY <1>1, <1>8, <1>20, UnpostedIs
<1>22. LedgerOf(t)
  BY <1>1, <1>16, <1>20, <1>21 DEF LedgerOf, empty
<1>23. ASSUME complete, NEW e \in due
       PROVE  e \in t.posts \cup Posted
  <2> DEFINE kinds == {"spot", "linear"} \X Kinds
  <2>1. e \in Due(kinds, Symbols, s.from, s.end) /\ TypeOK /\ s.from <= s.from
    BY <1>1, <1>3, Sizes DEF due
  <2> HIDE DEF kinds
  <2>2. /\ e \in Events /\ History[e].posts /\ IsFinal(e)
        /\ <<History[e].product, History[e].kind>> \in kinds
        /\ e \in Listed(History[e].product, History[e].kind, s.from..s.end)
    BY <1>3, <2>1, DueIsListed
  <2>3. History[e].kind \in Kinds /\ History[e].product \in {"spot", "linear"}
    BY <2>2 DEF kinds
  <2>4. e \in listed(History[e].kind) /\ s.from <= TimeOf(e)
    <3>1. TimeOf(e) \in s.from..s.end
      BY <2>2 DEF Listed
    <3> QED
      BY <2>2, <2>3, <3>1 DEF listed, HyperliquidListed
  <2>5. e \in new \/ raw[e] # "absent"
    BY <1>10, <1>23, <2>3, <2>4
  <2>6. raw[e] # "absent" => e \in Posted
    BY <1>1, <2>2 DEF Ledger, AtOnce
  <2> QED
    BY <1>21, <2>2, <2>5, <2>6
<1>24. Answers(t)
  <2>1. ~t.warned => t.due \subseteq t.posts \cup Posted
    BY <1>11, <1>16, <1>23
  <2>2. ASSUME t.complete, ~t.ahead, NEW e \in Events, InRange(t, e)
        PROVE  e \in t.posts \cup Posted
    <3>1. /\ History[e].posts /\ now >= History[e].final
          /\ t.from <= TimeOf(e) /\ TimeOf(e) < t.end
      BY <1>1, <1>2, <1>15, <1>18, <2>2, InRangeIs
    <3>2. History[e].product \in {"spot", "linear"} /\ History[e].kind \in Kinds
          /\ History[e].symbol \in Symbols
      BY <1>1, <2>2, ItemIs DEF InRange, Tracked, Products
    <3>3. e \in due
      BY <1>18, <3>1, <3>2 DEF due, Due
    <3> QED
      BY <1>16, <1>23, <2>2, <3>3
  <2> QED
    BY <2>1, <2>2 DEF Answers
<1>25. BalancesOf(t)
  BY <1>1, <1>2, <1>16, <1>18, <1>19 DEF BalancesOf
<1>26. PositionsOf(t)
  BY <1>2, <1>18, <1>19, SamePositionsAreSound
<1>27. SessionSound(t)
  <2>1. Staged(t)
    BY <1>1, <1>2, <1>16, <1>18 DEF Staged
  <2> QED
    BY <1>22, <1>24, <1>25, <1>26, <2>1 DEF SessionSound
<1> QED
  BY <1>1, <1>14, <1>15, <1>18, <1>27, <1>16 DEF At, s, Reading

-----------------------------------------------------------------------------
(* Bybit and Bitget, whose syncs have no cursor. *)

\* What a session of theirs has to keep while it reads.
LEMMA PlainIsSound ==
    ASSUME TypeOK, provider \in {"bybit", "bitget"}, NEW s \in Session, SessionSound(s), NEW t,
           s.pc # "idle", t.pc \in {"wallet", "history", "commit"},
           t.request = s.request, t.end = s.end, t.ahead = s.ahead, t.observed = s.observed,
           LedgerOf(t), PositionsOf(t),
           ~t.warned => t.due \subseteq t.posts \cup Posted,
           \A b \in t.rows : b \in s.rows \/ (b.as_of = s.observed /\ b.read = now)
    PROVE  SessionSound(t)
<1>1. Staged(t)
  BY DEF SessionSound, Staged
<1>2. Answers(t)
  BY DEF Answers
<1>3. BalancesOf(t)
  <2>1. now <= now
    BY Sizes DEF TypeOK, Instants
  <2>2. \A b \in t.rows : b.as_of = t.observed /\ b.read <= now
    BY <2>1 DEF SessionSound, BalancesOf
  <2> QED
    BY <2>2 DEF BalancesOf
<1> QED
  BY <1>1, <1>2, <1>3 DEF SessionSound

\* One product's positions at Bybit, when they are asked for.
LEMMA BybitReads ==
    ASSUME TypeOK, NEW s \in Session, NEW product \in Futures, NEW asked \in BOOLEAN
    PROVE  \E t \in Session :
             /\ t = IF asked THEN Positions(s, "spot", product, Open[now][product]) ELSE s
             /\ t.pc = s.pc /\ SameRequest(t, s) /\ SameItems(t, s) /\ t.rows = s.rows
<1>1. product \in Products /\ Open[now][product] \in SUBSET Symbols
  BY AskedFor DEF Futures, Products
<1>2. CASE asked
  <2>1. PICK t \in Session : /\ t = Positions(s, "spot", product, Open[now][product])
                             /\ PositionedIn(t, s, "spot", product, Open[now][product])
    BY <1>1, Labels, PositionsIs, Zenon
  <2>2. t.pc = s.pc /\ SameRequest(t, s) /\ SameItems(t, s) /\ t.rows = s.rows
    BY <2>1 DEF PositionedIn
  <2> QED
    BY <1>2, <2>1, <2>2
<1>3. CASE ~asked
  BY <1>3 DEF SameRequest, SameItems
<1> QED
  BY <1>2, <1>3

\* The balances and positions of Bybit.
LEMMA BybitStateIsSound ==
    ASSUME Sound, NEW r \in Runs, BybitState(r)
    PROVE  Reading(r)
<1> DEFINE s == run[r]
           held == (UNION {Held[now][p] : p \in Products}) \cup {"equity"}
           linear == "linear" \in s.todo
           inverse == "inverse" \in s.todo
<1>1. /\ TypeOK /\ SessionSound(s) /\ s \in Session
      /\ provider = "bybit" /\ s.pc = "balances"
  BY DEF Sound, TypeOK, BybitState, At
<1>2. NoItems(s) /\ NoRows(s) /\ s.due = {}
  BY <1>1 DEF SessionSound, Staged
<1>3. held \in SUBSET (Assets \cup {"equity"}) /\ {} \in SUBSET (Assets \cup {"equity"})
  BY <1>1, AskedFor
<1> HIDE DEF s, held
<1>4. PICK b \in Session : b = Balances(s, "spot", held, {}) /\ BalancedIn(b, s, "spot", held, {})
  BY <1>1, <1>3, Labels, BalancesIs, Zenon
<1>5. b = BybitBalances(s) /\ b.todo = s.todo
  BY <1>4, Zenon DEF BybitBalances, held, BalancedIn, SameRequest
<1>6. linear \in BOOLEAN /\ inverse \in BOOLEAN /\ "linear" \in Futures /\ "inverse" \in Futures
  BY DEF Futures
<1> HIDE DEF linear, inverse
<1>7. PICK l \in Session :
        /\ l = IF linear THEN Positions(b, "spot", "linear", Open[now]["linear"]) ELSE b
        /\ l.pc = b.pc /\ SameRequest(l, b) /\ SameItems(l, b) /\ l.rows = b.rows
  BY <1>1, <1>6, BybitReads, Zenon
<1>8. PICK u \in Session :
        /\ u = IF inverse THEN Positions(l, "spot", "inverse", Open[now]["inverse"]) ELSE l
        /\ u.pc = l.pc /\ SameRequest(u, l) /\ SameItems(u, l) /\ u.rows = l.rows
  BY <1>1, <1>6, BybitReads, Zenon
<1>9. PICK v : v = [u EXCEPT !.warned = inverse]
  OBVIOUS
<1>10. v = BybitPositions(b)
  BY <1>5, <1>7, <1>8, <1>9 DEF BybitPositions, linear, inverse
<1>11. PICK t : t = [v EXCEPT !.pc = "wallet"]
  OBVIOUS
<1>12. Become(r, t)
  BY <1>5, <1>10, <1>11 DEF BybitState, s
<1>13. v \in Session
  BY <1>6, <1>9, SessionIs, Zenon
<1>14. SameRequest(v, u) /\ SameItems(v, u) /\ v.rows = u.rows
  BY <1>6, <1>9, SessionIs, Zenon DEF SameRequest, SameItems
<1>15. t \in Session
  BY <1>11, <1>13, Labels, SessionIs, Zenon
<1>16. t.pc = "wallet" /\ SameRequest(t, v) /\ SameItems(t, v) /\ t.rows = v.rows
  BY <1>11, <1>13, Labels, SessionIs, Zenon DEF SameRequest, SameItems
<1>17. SameRequest(t, s)
  BY <1>4, <1>7, <1>8, <1>14, <1>16 DEF BalancedIn, SameRequest
<1>18. SameItems(t, s)
  BY <1>4, <1>7, <1>8, <1>14, <1>16 DEF BalancedIn, SameItems
<1>19. LedgerOf(t) /\ t.due = {}
  BY <1>1, <1>2, <1>18 DEF LedgerOf, NoItems, SameItems
<1>20. PositionsOf(t)
  BY <1>1 DEF PositionsOf
<1>21. \A c \in t.rows : c \in s.rows \/ (c.as_of = s.observed /\ c.read = now)
  BY <1>4, <1>7, <1>8, <1>14, <1>16 DEF BalancedIn, RowsIn
<1>22. t.request = s.request /\ t.end = s.end /\ t.ahead = s.ahead /\ t.observed = s.observed
  BY <1>17 DEF SameRequest
<1>23. SessionSound(t)
  BY <1>1, <1>16, <1>19, <1>20, <1>21, <1>22, PlainIsSound
<1> QED
  BY <1>1, <1>12, <1>15, <1>22, <1>23, <1>16 DEF At, s, Reading

\* Storing items keeps the ledger in order if those that are final when they are
\* first seen are among the posted.
LEMMA StoreKeepsLedger ==
    ASSUME TypeOK, provider \in {"bybit", "bitget"}, NEW s \in Session, NEW t, LedgerOf(s),
           NEW listed \in SUBSET Events, NEW posting \in SUBSET Events,
           StoredIn(t, s, listed, posting),
           \A e \in New(listed) : History[e].kind # "transfer" /\ History[e].posts => e \in posting
    PROVE  /\ LedgerOf(t) /\ s.posts \subseteq t.posts
           /\ \A e \in posting : History[e].posts => e \in t.posts \cup Posted
<1>1. /\ t.raws = s.raws \cup New(listed) /\ t.ignored = s.ignored
      /\ t.pending = s.pending \cup {e \in New(listed) : ~IsFinal(e)}
      /\ t.posts = s.posts \cup Unposted(posting)
  BY DEF StoredIn
<1>2. \A e \in posting : History[e].posts => e \in Unposted(posting) \cup Posted
  BY UnpostedIs
<1>3. New(listed) \subseteq Events
  BY DEF New
<1> QED
  BY <1>1, <1>2, <1>3 DEF LedgerOf, AtOnce

\* The deposits and withdrawals of both.
LEMMA WalletIsSound ==
    ASSUME Sound, NEW r \in Runs, provider \in {"bybit", "bitget"}, At(r, "wallet"),
           LET s == run[r]
               listed == Listed("spot", "transfer", Windowed(s.from, s.end))
           IN Become(r, [Store(s, listed, {e \in listed : IsFinal(e)}) EXCEPT !.pc = "history",
                           !.due = Due({<<"spot", "transfer">>}, {}, s.from, s.end)])
    PROVE  Reading(r)
<1> DEFINE s == run[r]
           listed == Listed("spot", "transfer", Windowed(s.from, s.end))
           final == {e \in listed : IsFinal(e)}
           kinds == {<<"spot", "transfer">>}
           due == Due(kinds, {}, s.from, s.end)
<1>1. /\ TypeOK /\ Ledger /\ SessionSound(s) /\ s \in Session /\ s.pc = "wallet"
  BY DEF Sound, TypeOK, At
<1>2. LedgerOf(s) /\ PositionsOf(s)
  BY <1>1 DEF SessionSound
<1>3. s.from \in Instants /\ s.end \in Instants
  BY <1>1 DEF Session
<1>4. listed \in SUBSET Events /\ \A e \in listed : History[e].kind = "transfer"
  BY <1>1, ListedIs
<1>5. final \in SUBSET Events /\ due \in EventSets
  BY <1>4 DEF EventSets, Due
<1> HIDE DEF s, final, due
<1>6. PICK u \in Session : u = Store(s, listed, final) /\ StoredIn(u, s, listed, final)
  <2> HIDE DEF listed
  <2> QED
    BY <1>1, <1>4, <1>5, StoreIs, Zenon
<1>7. PICK t : t = [u EXCEPT !.pc = "history", !.due = due]
  OBVIOUS
<1>8. Become(r, t)
  BY <1>6, <1>7 DEF s, final, due
<1> HIDE DEF listed
<1>9. t \in Session
  BY <1>5, <1>7, Labels, SessionIs, Zenon
<1>10. /\ t.pc = "history" /\ t.due = due /\ SameRequest(t, u) /\ SameFlags(t, u)
       /\ SamePositions(t, u) /\ t.rows = u.rows /\ t.days = u.days
       /\ t.raws = u.raws /\ t.pending = u.pending /\ t.ignored = u.ignored
       /\ t.refreshed = u.refreshed /\ t.posts = u.posts
  BY <1>5, <1>7, Labels, SessionIs, Zenon DEF SameRequest, SameFlags, SamePositions
<1>11. /\ t.request = s.request /\ t.end = s.end /\ t.ahead = s.ahead /\ t.observed = s.observed
  BY <1>6, <1>10 DEF StoredIn, SameRequest
<1>12. SamePositions(t, s) /\ t.rows = s.rows /\ t.days = s.days
  BY <1>6, <1>10 DEF StoredIn, SamePositions
<1>13. LedgerOf(u) /\ \A e \in final : History[e].posts => e \in u.posts \cup Posted
  <2>1. \A e \in New(listed) : History[e].kind = "transfer"
    BY <1>4 DEF New
  <2> QED
    BY <1>1, <1>2, <1>4, <1>5, <1>6, <2>1, StoreKeepsLedger
<1>14. LedgerOf(t)
  BY <1>10, <1>13 DEF LedgerOf
<1>15. ASSUME NEW e \in due
       PROVE  e \in final /\ History[e].posts
  <2>1. e \in Due(kinds, {}, s.from, s.end) /\ TypeOK /\ s.from <= s.from
    BY <1>1, <1>3, Sizes DEF due, Instants
  <2> HIDE DEF kinds
  <2>2. /\ History[e].posts /\ IsFinal(e)
        /\ <<History[e].product, History[e].kind>> \in kinds
        /\ e \in Listed(History[e].product, History[e].kind, Windowed(s.from, s.end))
    BY <1>3, <2>1, DueIsListed
  <2> QED
    BY <2>2 DEF kinds, final, listed
<1>16. PositionsOf(t)
  BY <1>2, <1>11, <1>12, SamePositionsAreSound
<1>17. t.due \subseteq t.posts \cup Posted
  BY <1>10, <1>13, <1>15
<1>18. SessionSound(t)
  BY <1>1, <1>10, <1>11, <1>12, <1>14, <1>16, <1>17, PlainIsSound
<1> QED
  BY <1>1, <1>8, <1>9, <1>11, <1>18, <1>10 DEF At, s, Reading

\* The transaction log of Bybit without the trades in it, and its executions.
LEMMA BybitTransactionsAreSound ==
    ASSUME Sound, NEW r \in Runs, BybitTransactions(r)
    PROVE  Reading(r)
<1> DEFINE s == run[r]
           log == Paged(s, "linear", "income") \cup Paged(s, "inverse", "income")
           fills == {e \in Paged(s, "spot", "trade") :
                       "spot" \in s.todo /\ History[e].symbol \in Wanted(s.request)}
           kinds == (Futures \X {"income"}) \cup ((s.todo \cap {"spot"}) \X {"trade"})
           wanted == Wanted(s.request)
           more == Due(kinds, wanted, s.from, s.end)
<1>1. /\ TypeOK /\ Ledger /\ SessionSound(s) /\ s \in Session /\ s.pc = "history"
      /\ provider = "bybit"
  BY DEF Sound, TypeOK, BybitTransactions, At
<1>2. LedgerOf(s) /\ Answers(s)
  BY <1>1 DEF SessionSound
<1>3. s.from \in Instants /\ s.end \in Instants
  BY <1>1 DEF Session
<1>4. /\ log \in SUBSET Events /\ fills \in SUBSET Events /\ New(fills) \in SUBSET Events
      /\ \A e \in fills : History[e].kind = "trade"
  BY <1>1, ListedIs DEF Paged, New
<1>5. more \in SUBSET Events
  BY DEF Due
<1> HIDE DEF s, more
<1>6. ASSUME NEW e \in more
      PROVE  History[e].posts /\ e \in log \cup fills
  <2>1. e \in Due(kinds, wanted, s.from, s.end) /\ TypeOK /\ s.from <= s.from
    BY <1>1, <1>3, Sizes DEF more, Instants
  <2> HIDE DEF kinds, wanted
  <2>2. /\ History[e].posts /\ <<History[e].product, History[e].kind>> \in kinds
        /\ History[e].kind = "trade" => History[e].symbol \in wanted
        /\ e \in Listed(History[e].product, History[e].kind, Windowed(s.from, s.end))
    BY <1>3, <2>1, DueIsListed
  <2>3. \/ History[e].product \in {"linear", "inverse"} /\ History[e].kind = "income"
        \/ History[e].product = "spot" /\ "spot" \in s.todo /\ History[e].kind = "trade"
    BY <2>2 DEF kinds, Futures
  <2> QED
    BY <2>2, <2>3 DEF wanted, Paged
<1> HIDE DEF log, fills
<1>7. PICK p \in Session : p = Store(s, log, log) /\ StoredIn(p, s, log, log)
  BY <1>1, <1>4, StoreIs, Zenon
<1>8. PICK u \in Session : u = Store(p, fills, New(fills)) /\ StoredIn(u, p, fills, New(fills))
  BY <1>4, StoreIs, Zenon
<1> DEFINE due == u.due \cup more
<1>9. due \in EventSets
  BY <1>5 DEF Session, EventSets
<1>10. PICK t : t = [u EXCEPT !.pc = "commit", !.due = due]
  OBVIOUS
<1>11. Become(r, t)
  BY <1>7, <1>8, <1>10 DEF BybitTransactions, s, log, fills, more
<1> HIDE DEF due
<1>12. t \in Session
  BY <1>9, <1>10, Labels, SessionIs, Zenon
<1>13. /\ t.pc = "commit" /\ t.due = due /\ SameRequest(t, u) /\ SameFlags(t, u)
       /\ t.rows = u.rows
       /\ t.raws = u.raws /\ t.pending = u.pending /\ t.ignored = u.ignored
       /\ t.refreshed = u.refreshed /\ t.posts = u.posts
  BY <1>9, <1>10, Labels, SessionIs, Zenon DEF SameRequest, SameFlags
<1>14. /\ t.request = s.request /\ t.end = s.end /\ t.ahead = s.ahead /\ t.observed = s.observed
       /\ t.warned = s.warned /\ t.rows = s.rows /\ t.due = s.due \cup more
  BY <1>7, <1>8, <1>13 DEF StoredIn, SameRequest, SameFlags, due
<1>15. /\ LedgerOf(p) /\ s.posts \subseteq p.posts
       /\ \A e \in log : History[e].posts => e \in p.posts \cup Posted
  <2>1. New(log) \subseteq log
    BY DEF New
  <2> QED
    BY <1>1, <1>2, <1>4, <1>7, <2>1, StoreKeepsLedger
<1>16. /\ LedgerOf(u) /\ p.posts \subseteq u.posts
       /\ \A e \in New(fills) : History[e].posts => e \in u.posts \cup Posted
  BY <1>1, <1>4, <1>8, <1>15, StoreKeepsLedger
<1>17. \A e \in fills : History[e].posts => e \in u.posts \cup Posted
  <2> SUFFICES ASSUME NEW e \in fills, History[e].posts
               PROVE  e \in u.posts \cup Posted
    OBVIOUS
  <2>1. CASE raw[e] = "absent"
    BY <1>16, <2>1 DEF New
  <2>2. CASE raw[e] # "absent"
    BY <1>1, <1>4, <2>2 DEF Ledger, AtOnce
  <2> QED
    BY <2>1, <2>2
<1>18. ~t.warned => t.due \subseteq t.posts \cup Posted
  BY <1>1, <1>2, <1>6, <1>13, <1>14, <1>15, <1>16, <1>17 DEF Answers
<1>19. LedgerOf(t)
  BY <1>13, <1>16 DEF LedgerOf
<1>20. PositionsOf(t)
  BY <1>1 DEF PositionsOf
<1>21. SessionSound(t)
  BY <1>1, <1>13, <1>14, <1>18, <1>19, <1>20, PlainIsSound
<1> QED
  BY <1>1, <1>11, <1>12, <1>14, <1>21, <1>13 DEF At, s, Reading

\* A session that has read on, without items of the history.
ReadOn(t, s) ==
    /\ t.pc = s.pc /\ SameRequest(t, s) /\ SameItems(t, s)
    /\ \A b \in t.rows : b \in s.rows \/ (b.as_of = s.observed /\ b.read = now)

\* The spot account of Bitget,
LEMMA BitgetSpotReads ==
    ASSUME TypeOK, NEW s \in Session, PositionsOf(s), NEW asked \in BOOLEAN
    PROVE  \E t \in Session :
             /\ t = IF asked THEN Balances(Once(s, "spot"), "spot", Held[now]["spot"], {}) ELSE s
             /\ ReadOn(t, s) /\ t.told = s.told /\ PositionsOf(t)
<1> DEFINE held == Held[now]["spot"]
<1>1. held \in SUBSET (Assets \cup {"equity"}) /\ {} \in SUBSET (Assets \cup {"equity"})
  BY AskedFor, Labels
<1>2. CASE asked
  <2> HIDE DEF held
  <2>1. PICK o \in Session : o = Once(s, "spot") /\ OnceIn(o, s, "spot")
    BY OnceIs, Labels, Zenon
  <2>2. PICK t \in Session : t = Balances(o, "spot", held, {}) /\ BalancedIn(t, o, "spot", held, {})
    BY <1>1, BalancesIs, Labels, Zenon
  <2>3. SameRequest(t, s) /\ o.observed = s.observed /\ t.observed = s.observed
    BY <2>1, <2>2 DEF OnceIn, BalancedIn, SameRequest
  <2>4. SameItems(t, s) /\ t.pc = s.pc
    BY <2>1, <2>2 DEF OnceIn, BalancedIn, SameItems
  <2>5. SamePositions(t, s)
    BY <2>1, <2>2 DEF OnceIn, BalancedIn, SamePositions
  <2>6. \A b \in t.rows : b \in s.rows \/ (b.as_of = s.observed /\ b.read = now)
    BY <2>1, <2>2, <2>3 DEF OnceIn, BalancedIn, RowsIn
  <2>7. PositionsOf(t)
    <3>1. \A d \in t.days : d[1] \in Futures => d \in s.days
      BY <2>1, <2>2 DEF OnceIn, BalancedIn, Futures
    <3> QED
      BY <2>3, <2>5, <3>1, SamePositionsAreSound
  <2>8. ReadOn(t, s) /\ t.told = s.told
    BY <2>3, <2>4, <2>5, <2>6 DEF ReadOn, SamePositions
  <2> QED
    BY <1>2, <2>1, <2>2, <2>7, <2>8 DEF held
<1>3. CASE ~asked
  BY <1>3 DEF ReadOn, SameRequest, SameItems
<1> QED
  BY <1>2, <1>3

\* one of its futures accounts,
LEMMA BitgetFutureReads ==
    ASSUME TypeOK, provider = "bitget", NEW s \in Session, PositionsOf(s), NEW asked \in BOOLEAN,
           NEW product \in Futures, product \notin s.told
    PROVE  \E t \in Session :
             /\ t = IF asked THEN Balances(Positions(s, product, product, Open[now][product]),
                                           product, Held[now][product] \cup {"equity"}, {})
                    ELSE s
             /\ ReadOn(t, s) /\ t.told \subseteq s.told \cup {product} /\ PositionsOf(t)
<1> DEFINE held == Held[now][product] \cup {"equity"}
           market == Open[now][product]
<1>1. product \in Products
  BY DEF Futures, Products
<1>2. /\ held \in SUBSET (Assets \cup {"equity"}) /\ {} \in SUBSET (Assets \cup {"equity"})
      /\ market \in SUBSET Symbols
  BY <1>1, AskedFor
<1>3. CASE asked
  <2> HIDE DEF held, market
  <2>1. PICK o \in Session : /\ o = Positions(s, product, product, market)
                             /\ PositionedIn(o, s, product, product, market)
    BY <1>1, <1>2, PositionsIs, Zenon
  <2>2. PICK t \in Session : t = Balances(o, product, held, {}) /\ BalancedIn(t, o, product, held, {})
    BY <1>1, <1>2, BalancesIs, Zenon
  <2>3. SameRequest(t, s) /\ o.observed = s.observed /\ t.observed = s.observed
    BY <2>1, <2>2 DEF PositionedIn, BalancedIn, SameRequest
  <2>4. SameItems(t, s) /\ t.pc = s.pc
    BY <2>1, <2>2 DEF PositionedIn, BalancedIn, SameItems
  <2>5. \A b \in t.rows : b \in s.rows \/ (b.as_of = s.observed /\ b.read = now)
    BY <2>1, <2>2, <2>3 DEF PositionedIn, BalancedIn, RowsIn
  <2>6. PositionsOf(o)
    <3>1. Belongs(product, product)
      BY DEF Belongs
    <3> QED
      BY <1>1, <1>2, <2>1, <2>3, <3>1, OpenedIsSound DEF PositionedIn
  <2>7. PositionsOf(t)
    <3>1. SamePositions(t, o) /\ t.days = o.days /\ t.observed = o.observed
      BY <2>2, <2>3 DEF BalancedIn
    <3> QED
      BY <2>6, <3>1, SamePositionsAreSound
  <2>8. t.told = s.told \cup {product}
    BY <2>1, <2>2 DEF PositionedIn, OpenedIn, BalancedIn, SamePositions
  <2>9. ReadOn(t, s)
    BY <2>3, <2>4, <2>5 DEF ReadOn
  <2> QED
    BY <1>3, <2>1, <2>2, <2>7, <2>8, <2>9 DEF held, market
<1>4. CASE ~asked
  BY <1>4 DEF ReadOn, SameRequest, SameItems
<1> QED
  BY <1>3, <1>4

\* and both of them together.
LEMMA BitgetStateIsSound ==
    ASSUME Sound, NEW r \in Runs, BitgetBalancesAndPositions(r)
    PROVE  Reading(r)
<1> DEFINE s == run[r]
           spot == "spot" \in s.todo
           linear == "linear" \in s.todo
           inverse == "inverse" \in s.todo
           Spot(session) == Balances(Once(session, "spot"), "spot", Held[now]["spot"], {})
           Future(session, product) ==
             Balances(Positions(session, product, product, Open[now][product]),
                      product, Held[now][product] \cup {"equity"}, {})
<1>1. /\ TypeOK /\ SessionSound(s) /\ s \in Session
      /\ provider = "bitget" /\ s.pc = "balances"
  BY DEF Sound, TypeOK, BitgetBalancesAndPositions, At
<1>2. NoItems(s) /\ NoRows(s) /\ s.due = {} /\ s.told = {} /\ PositionsOf(s)
  BY <1>1 DEF SessionSound, Staged, NoPositions
<1>3. /\ spot \in BOOLEAN /\ linear \in BOOLEAN /\ inverse \in BOOLEAN
      /\ "linear" \in Futures /\ "inverse" \in Futures
  BY DEF Futures
<1>4. PICK a \in Session : /\ a = (IF spot THEN Spot(s) ELSE s)
                           /\ ReadOn(a, s) /\ a.told = s.told /\ PositionsOf(a)
  <2> HIDE DEF s, spot
  <2> QED
    BY <1>1, <1>2, <1>3, BitgetSpotReads, Zenon
<1>5. PICK b \in Session :
        /\ b = (IF linear THEN Future(a, "linear") ELSE a)
        /\ ReadOn(b, a) /\ b.told \subseteq a.told \cup {"linear"} /\ PositionsOf(b)
  <2>1. "linear" \notin a.told
    BY <1>2, <1>4
  <2> HIDE DEF s, linear
  <2> QED
    BY <1>1, <1>3, <1>4, <2>1, BitgetFutureReads, Zenon
<1>6. PICK c \in Session :
        /\ c = (IF inverse THEN Future(b, "inverse") ELSE b)
        /\ ReadOn(c, b) /\ c.told \subseteq b.told \cup {"inverse"} /\ PositionsOf(c)
  <2>1. "inverse" \notin b.told
    BY <1>2, <1>4, <1>5
  <2> HIDE DEF s, inverse
  <2> QED
    BY <1>1, <1>3, <1>5, <2>1, BitgetFutureReads, Zenon
<1>7. PICK t : t = [c EXCEPT !.pc = "wallet"]
  OBVIOUS
<1>8. Become(r, t)
  <2> HIDE DEF Spot, Future
  <2>1. Become(r, [(IF inverse THEN Future((IF linear THEN Future((IF spot THEN Spot(s) ELSE s), "linear")
                                            ELSE (IF spot THEN Spot(s) ELSE s)), "inverse")
                    ELSE (IF linear THEN Future((IF spot THEN Spot(s) ELSE s), "linear")
                          ELSE (IF spot THEN Spot(s) ELSE s)))
                   EXCEPT !.pc = "wallet"])
    BY Zenon DEF BitgetBalancesAndPositions, Spot, Future
  <2> QED
    BY <1>4, <1>5, <1>6, <1>7, <2>1, Zenon
<1> HIDE DEF s, spot, linear, inverse, Spot, Future
<1>9. t \in Session
  BY <1>7, Labels, SessionIs, Zenon
<1>10. /\ t.pc = "wallet" /\ SameRequest(t, c) /\ SameItems(t, c) /\ SamePositions(t, c)
       /\ t.rows = c.rows /\ t.days = c.days
  BY <1>7, Labels, SessionIs, Zenon DEF SameRequest, SameItems, SamePositions
<1>11. SameRequest(t, s) /\ a.observed = s.observed /\ b.observed = s.observed /\ t.observed = s.observed
       /\ c.observed = s.observed
  BY <1>4, <1>5, <1>6, <1>10 DEF ReadOn, SameRequest
<1>12. SameItems(t, s)
  BY <1>4, <1>5, <1>6, <1>10 DEF ReadOn, SameItems
<1>13. LedgerOf(t) /\ t.due = {}
  BY <1>1, <1>2, <1>12 DEF LedgerOf, NoItems, SameItems
<1>14. PositionsOf(t)
  BY <1>6, <1>10, <1>11, SamePositionsAreSound
<1>15. \A x \in t.rows : x \in s.rows \/ (x.as_of = s.observed /\ x.read = now)
  BY <1>4, <1>5, <1>6, <1>10, <1>11 DEF ReadOn
<1>16. t.request = s.request /\ t.end = s.end /\ t.ahead = s.ahead
  BY <1>11 DEF SameRequest
<1>17. SessionSound(t)
  BY <1>1, <1>10, <1>11, <1>13, <1>14, <1>15, <1>16, PlainIsSound
<1> QED
  BY <1>1, <1>8, <1>9, <1>11, <1>17, <1>10 DEF At, s, Reading

\* A session that has read items of the history, and answers for them.
Answered(s) == LedgerOf(s) /\ (~s.warned => s.due \subseteq s.posts \cup Posted)
\* A part of the history adds items and keeps what was answered before.
HistoryOn(t, s) ==
    /\ t.pc = s.pc /\ SameRequest(t, s) /\ t.from = s.from /\ SamePositions(t, s)
    /\ t.rows = s.rows /\ t.days = s.days /\ Answered(t)

\* The times that a history is read between.
LEMMA KeptIs ==
    ASSUME NEW s \in Session
    PROVE  Kept(s) \in Instants /\ s.from \in Instants /\ s.end \in Instants
<1>1. s.from \in Instants /\ s.end \in Instants
  BY DEF Session
<1> QED
  BY <1>1, Sizes DEF Kept, Later, Minus, Instants

\* The spot fills of Bitget,
LEMMA BitgetFillsAre ==
    ASSUME TypeOK, Ledger, provider = "bitget", NEW s \in Session, Answered(s)
    PROVE  \E t \in Session : t = BitgetSpotFills(s) /\ HistoryOn(t, s)
<1> DEFINE asked == s.todo \cap {"spot"}
           wanted == Wanted(s.request)
           fills == {e \in BitgetPages("spot", "trade", Kept(s), s.end) :
                       asked # {} /\ History[e].symbol \in wanted}
           kinds == asked \X {"trade"}
           more == Due(kinds, wanted, s.from, s.end)
           warned == s.warned \/ (Kept(s) # s.from /\ asked # {})
           due == s.due \cup more
<1>1. /\ fills \in SUBSET Events /\ New(fills) \in SUBSET Events
      /\ \A e \in fills : History[e].kind = "trade"
  BY ListedIs DEF BitgetPages, New
<1>2. more \in SUBSET Events /\ due \in EventSets /\ warned \in BOOLEAN
  BY DEF Due, Session, EventSets
<1> HIDE DEF fills
<1>3. PICK u \in Session : u = Store(s, fills, New(fills)) /\ StoredIn(u, s, fills, New(fills))
  BY <1>1, StoreIs, Zenon
<1>4. PICK t : t = [u EXCEPT !.warned = warned, !.due = due]
  OBVIOUS
<1>5. t = BitgetSpotFills(s)
  <2>1. u.warned = s.warned /\ u.due = s.due
    BY <1>3 DEF StoredIn, SameFlags
  <2>2. t = [u EXCEPT !.warned = u.warned \/ (Kept(s) # s.from /\ asked # {}),
                      !.due = u.due \cup more]
    BY <1>4, <2>1
  <2> QED
    BY <1>3, <2>2 DEF BitgetSpotFills, fills
<1>6. ASSUME ~warned, NEW e \in more
      PROVE  e \in fills /\ History[e].posts
  <2>1. e \in Due(kinds, wanted, s.from, s.end)
    OBVIOUS
  <2>2. Kept(s) \in Instants /\ s.from \in Instants /\ s.end \in Instants /\ s.from <= s.from
    BY KeptIs, Sizes DEF Instants
  <2> HIDE DEF kinds, wanted
  <2>3. /\ History[e].posts /\ <<History[e].product, History[e].kind>> \in kinds
        /\ History[e].kind = "trade" => History[e].symbol \in wanted
        /\ e \in Listed(History[e].product, History[e].kind, Windowed(s.from, s.end))
    BY <2>1, <2>2, DueIsListed
  <2>4. History[e].product = "spot" /\ History[e].kind = "trade" /\ asked # {}
    BY <2>3 DEF kinds
  <2>5. Kept(s) = s.from
    BY <1>6, <2>4
  <2> QED
    BY <2>3, <2>4, <2>5 DEF fills, BitgetPages
<1> HIDE DEF more
<1>7. /\ LedgerOf(u) /\ s.posts \subseteq u.posts
      /\ \A e \in New(fills) : History[e].posts => e \in u.posts \cup Posted
  BY <1>1, <1>3, StoreKeepsLedger DEF Answered
<1>8. \A e \in fills : History[e].posts => e \in u.posts \cup Posted
  <2> SUFFICES ASSUME NEW e \in fills, History[e].posts
               PROVE  e \in u.posts \cup Posted
    OBVIOUS
  <2>1. CASE raw[e] = "absent"
    BY <1>7, <2>1 DEF New
  <2>2. CASE raw[e] # "absent"
    BY <1>1, <2>2 DEF Ledger, AtOnce
  <2> QED
    BY <2>1, <2>2
<1>9. ~warned => due \subseteq u.posts \cup Posted
  BY <1>6, <1>7, <1>8 DEF Answered
<1> HIDE DEF warned, due
<1>10. t \in Session
  BY <1>2, <1>4, SessionIs, Zenon
<1>11. /\ t.pc = u.pc /\ SameRequest(t, u) /\ t.from = u.from /\ SamePositions(t, u)
       /\ t.rows = u.rows /\ t.days = u.days /\ t.warned = warned /\ t.due = due
       /\ t.raws = u.raws /\ t.pending = u.pending /\ t.ignored = u.ignored
       /\ t.refreshed = u.refreshed /\ t.posts = u.posts
  BY <1>2, <1>4, SessionIs, Zenon DEF SameRequest, SamePositions
<1>12. /\ t.pc = s.pc /\ t.from = s.from /\ t.rows = s.rows /\ t.days = s.days
       /\ SameRequest(t, s) /\ SamePositions(t, s)
  BY <1>3, <1>11 DEF StoredIn, SameRequest, SameFlags, SamePositions
<1>13. Answered(t)
  BY <1>7, <1>9, <1>11 DEF Answered, LedgerOf
<1> QED
  BY <1>5, <1>10, <1>12, <1>13 DEF HistoryOn

\* those of its futures accounts,
LEMMA BitgetFuturesAre ==
    ASSUME TypeOK, Ledger, provider = "bitget", NEW s \in Session, Answered(s)
    PROVE  \E t \in Session : t = BitgetFutures(s) /\ HistoryOn(t, s)
<1> DEFINE asked == s.todo \cap Futures
           fills == UNION {BitgetPages(p, "trade", Kept(s), s.end) : p \in asked}
           bills == UNION {BitgetPages(p, "income", Kept(s), s.end) : p \in asked}
           kinds == asked \X {"trade", "income"}
           more == Due(kinds, Symbols, s.from, s.end)
           warned == s.warned \/ (Kept(s) # s.from /\ asked # {})
           due == s.due \cup more
<1>1. /\ fills \in SUBSET Events /\ bills \in SUBSET Events
      /\ \A e \in fills : History[e].kind = "trade"
      /\ \A e \in bills : History[e].kind = "income"
  BY ListedIs DEF BitgetPages
<1>2. more \in SUBSET Events /\ due \in EventSets /\ warned \in BOOLEAN
  BY DEF Due, Session, EventSets
<1> HIDE DEF fills, bills
<1>3. New(fills) \in SUBSET Events
  BY <1>1 DEF New
<1>4. PICK p \in Session : p = Store(s, fills, New(fills)) /\ StoredIn(p, s, fills, New(fills))
  BY <1>1, <1>3, StoreIs, Zenon
<1>5. PICK u \in Session : u = Store(p, bills, bills) /\ StoredIn(u, p, bills, bills)
  BY <1>1, StoreIs, Zenon
<1>6. PICK t : t = [u EXCEPT !.warned = warned, !.due = due]
  OBVIOUS
<1>7. t = BitgetFutures(s)
  <2>1. u.warned = s.warned /\ u.due = s.due
    BY <1>4, <1>5 DEF StoredIn, SameFlags
  <2>2. t = [u EXCEPT !.warned = u.warned \/ (Kept(s) # s.from /\ asked # {}),
                      !.due = u.due \cup more]
    BY <1>6, <2>1
  <2> QED
    BY <1>4, <1>5, <2>2 DEF BitgetFutures, fills, bills
<1>8. ASSUME ~warned, NEW e \in more
      PROVE  e \in fills \cup bills /\ History[e].posts
  <2>1. e \in Due(kinds, Symbols, s.from, s.end)
    OBVIOUS
  <2>2. Kept(s) \in Instants /\ s.from \in Instants /\ s.end \in Instants /\ s.from <= s.from
    BY KeptIs, Sizes DEF Instants
  <2> HIDE DEF kinds
  <2>3. /\ History[e].posts /\ <<History[e].product, History[e].kind>> \in kinds
        /\ e \in Listed(History[e].product, History[e].kind, Windowed(s.from, s.end))
    BY <2>1, <2>2, DueIsListed
  <2>4. History[e].product \in asked /\ History[e].kind \in {"trade", "income"}
    BY <2>3 DEF kinds
  <2>5. Kept(s) = s.from
    BY <1>8, <2>4
  <2> QED
    BY <2>3, <2>4, <2>5 DEF fills, bills, BitgetPages
<1> HIDE DEF more
<1>9. /\ LedgerOf(p) /\ s.posts \subseteq p.posts
      /\ \A e \in New(fills) : History[e].posts => e \in p.posts \cup Posted
  BY <1>1, <1>3, <1>4, StoreKeepsLedger DEF Answered
<1>10. /\ LedgerOf(u) /\ p.posts \subseteq u.posts
       /\ \A e \in bills : History[e].posts => e \in u.posts \cup Posted
  <2>1. New(bills) \subseteq bills
    BY DEF New
  <2> QED
    BY <1>1, <1>5, <1>9, <2>1, StoreKeepsLedger
<1>11. \A e \in fills : History[e].posts => e \in p.posts \cup Posted
  <2> SUFFICES ASSUME NEW e \in fills, History[e].posts
               PROVE  e \in p.posts \cup Posted
    OBVIOUS
  <2>1. CASE raw[e] = "absent"
    BY <1>9, <2>1 DEF New
  <2>2. CASE raw[e] # "absent"
    BY <1>1, <2>2 DEF Ledger, AtOnce
  <2> QED
    BY <2>1, <2>2
<1>12. ~warned => due \subseteq u.posts \cup Posted
  BY <1>8, <1>9, <1>10, <1>11 DEF Answered
<1> HIDE DEF warned, due
<1>13. t \in Session
  BY <1>2, <1>6, SessionIs, Zenon
<1>14. /\ t.pc = u.pc /\ SameRequest(t, u) /\ t.from = u.from /\ SamePositions(t, u)
       /\ t.rows = u.rows /\ t.days = u.days /\ t.warned = warned /\ t.due = due
       /\ t.raws = u.raws /\ t.pending = u.pending /\ t.ignored = u.ignored
       /\ t.refreshed = u.refreshed /\ t.posts = u.posts
  BY <1>2, <1>6, SessionIs, ZenonT(60) DEF SameRequest, SamePositions
<1>15. /\ t.pc = s.pc /\ t.from = s.from /\ t.rows = s.rows /\ t.days = s.days
       /\ SameRequest(t, s) /\ SamePositions(t, s)
  BY <1>4, <1>5, <1>14 DEF StoredIn, SameRequest, SameFlags, SamePositions
<1>16. Answered(t)
  BY <1>10, <1>12, <1>14 DEF Answered, LedgerOf
<1> QED
  BY <1>7, <1>13, <1>15, <1>16 DEF HistoryOn

\* and both of them together.
LEMMA BitgetHistoryIsSound ==
    ASSUME Sound, NEW r \in Runs, BitgetHistory(r)
    PROVE  Reading(r)
<1> DEFINE s == run[r]
<1>1. /\ TypeOK /\ Ledger /\ SessionSound(s) /\ s \in Session
      /\ provider = "bitget" /\ s.pc = "history"
  BY DEF Sound, TypeOK, BitgetHistory, At
<1>2. Answered(s) /\ PositionsOf(s)
  BY <1>1 DEF SessionSound, Answers, Answered
<1> HIDE DEF s
<1>3. PICK f \in Session : f = BitgetSpotFills(s) /\ HistoryOn(f, s)
  BY <1>1, <1>2, BitgetFillsAre, Zenon
<1>4. Answered(f)
  BY <1>3 DEF HistoryOn
<1>5. PICK u \in Session : u = BitgetFutures(f) /\ HistoryOn(u, f)
  BY <1>1, <1>4, BitgetFuturesAre, Zenon
<1>6. PICK t : t = [u EXCEPT !.pc = "commit"]
  OBVIOUS
<1>7. Become(r, t)
  BY <1>3, <1>5, <1>6 DEF BitgetHistory, s
<1>8. t \in Session
  BY <1>6, Labels, SessionIs, Zenon
<1>9. /\ t.pc = "commit" /\ SameRequest(t, u) /\ SameFlags(t, u) /\ SameItems(t, u)
      /\ SamePositions(t, u) /\ t.rows = u.rows /\ t.days = u.days
  BY <1>6, Labels, SessionIs, Zenon DEF SameRequest, SameFlags, SameItems, SamePositions
<1>10. SameRequest(t, s)
  BY <1>3, <1>5, <1>9 DEF HistoryOn, SameRequest
<1>11. SamePositions(t, s) /\ t.rows = s.rows /\ t.days = s.days
  BY <1>3, <1>5, <1>9 DEF HistoryOn, SamePositions
<1>12. Answered(t)
  BY <1>5, <1>9 DEF HistoryOn, Answered, LedgerOf, SameItems, SameFlags
<1>13. t.request = s.request /\ t.end = s.end /\ t.ahead = s.ahead /\ t.observed = s.observed
  BY <1>10 DEF SameRequest
<1>14. PositionsOf(t)
  BY <1>2, <1>11, <1>13, SamePositionsAreSound
<1>15. SessionSound(t)
  BY <1>1, <1>9, <1>11, <1>12, <1>13, <1>14, PlainIsSound DEF Answered
<1> QED
  BY <1>1, <1>7, <1>8, <1>13, <1>15, <1>9 DEF At, s, Reading

-----------------------------------------------------------------------------
(* The commits. *)

\* What the commits of all exchanges have in common.
Commits(r) ==
    LET s == run[r]
    IN /\ At(r, "commit") /\ ~Collides(s) /\ Save(s)
       /\ \/ Stay
          \/ /\ s.complete /\ provider \in {"binance", "hyperliquid"}
             /\ Move(Resource(s), s)

\* A commit keeps the types.
LEMMA CommitTypes ==
    ASSUME TypeOK, NEW r \in Runs, Commits(r), run' \in [Runs -> Session]
    PROVE  TypeOK'
<1> DEFINE s == run[r]
<1>1. /\ s \in Session /\ Save(s) /\ now \in Instants
      /\ Stay \/ Move(Resource(s), s)
  BY DEF TypeOK, Commits
<1>2. /\ s.raws \in SUBSET Events /\ s.pending \in SUBSET Events /\ s.posts \in SUBSET Events
      /\ s.days \in SUBSET (Scopes \X Instants) /\ s.rows \in SUBSET BalanceRow
      /\ s.opened \in SUBSET PositionRow /\ s.marker \in [Products -> Marker]
      /\ s.open \in [Products -> SUBSET (Products \X Symbols)]
      /\ s.end \in Instants /\ s.from \in Instants /\ Resource(s) \in Products
  BY <1>1, Labels DEF Session, Resource
<1> HIDE DEF s
<1>3. raw' \in [Events -> {"absent", "received", "normalized", "ignored"}]
  <2>1. raw' = [e \in Events |-> RawAfter(s, e)]
    BY <1>1 DEF Save
  <2>2. \A e \in Events : RawAfter(s, e) \in {"absent", "received", "normalized", "ignored"}
    BY DEF RawAfter, TypeOK
  <2> QED
    BY <2>1, <2>2
<1>4. stale' \subseteq Events
  BY <1>1, <1>2 DEF Save, TypeOK
<1>5. posted' \in [Events -> Nat]
  BY <1>1 DEF Save, TypeOK
<1>6. days' \subseteq Scopes \X Instants /\ positions' \subseteq PositionRow
  BY <1>1, <1>2 DEF Save, TypeOK
<1>7. balances' \subseteq BalanceRow
  <2>1. \A b \in s.rows : [b EXCEPT !.stored = now] \in BalanceRow
    BY <1>1, <1>2 DEF BalanceRow
  <2> QED
    BY <1>1, <2>1 DEF Save, TypeOK
<1>8. marker' \in [Products -> Marker]
  BY <1>1, <1>2 DEF Save, TypeOK
<1>9. open' \in [Products -> SUBSET (Products \X Symbols)]
  BY <1>1, <1>2 DEF Save, TypeOK
<1>10. cursor' \in [Products -> Instants \cup {NoTime}] /\ since' \in [Products -> Instants]
  <2>1. CASE Stay
    BY <2>1 DEF Stay, TypeOK
  <2>2. CASE Move(Resource(s), s)
    <3>1. cursor' \in [Products -> Instants \cup {NoTime}]
      BY <1>2, <2>2 DEF Move, TypeOK
    <3>2. Began(Resource(s), s) \in Instants
      BY <1>2 DEF Began, Lesser, TypeOK
    <3> QED
      BY <2>2, <3>1, <3>2 DEF Move, TypeOK
  <2> QED
    BY <1>1, <2>1, <2>2
<1>11. provider' = provider /\ now' = now /\ key' = key /\ begun' = begun
  BY <1>1 DEF Save, world
<1> QED
  BY <1>3, <1>4, <1>5, <1>6, <1>7, <1>8, <1>9, <1>10, <1>11 DEF TypeOK

\* What a commit posts, and that it takes nothing back.
LEMMA CommitPosts ==
    ASSUME TypeOK, NEW r \in Runs, Commits(r)
    PROVE  /\ Posted' = Posted \cup run[r].posts
           /\ provider' = provider /\ now' = now
<1> DEFINE s == run[r]
<1>1. Save(s) /\ s.posts \in SUBSET Events
  BY DEF TypeOK, Session, Commits
<1> HIDE DEF s
<1>2. \A e \in Events : posted'[e] = IF e \in s.posts THEN posted[e] + 1 ELSE posted[e]
  BY <1>1 DEF Save
<1>3. \A e \in Events : posted[e] \in Nat
  BY DEF TypeOK
<1>4. Posted' = Posted \cup s.posts
  BY <1>1, <1>2, <1>3 DEF Posted
<1>5. provider' = provider /\ now' = now
  BY <1>1 DEF Save, world
<1> QED
  BY <1>4, <1>5 DEF s

\* A unique index keeps each item to one raw event and one ledger event.
LEMMA CommitKeepsLedger ==
    ASSUME Sound, NEW r \in Runs, Commits(r)
    PROVE  Ledger'
<1> DEFINE s == run[r]
<1>1. /\ TypeOK /\ Ledger /\ LedgerOf(s) /\ ~Collides(s) /\ Save(s)
      /\ provider' = provider /\ Posted' = Posted \cup s.posts
  BY CommitPosts DEF Sound, SessionSound, Commits
<1>2. s.raws \subseteq Events /\ s.posts \subseteq Events
  BY <1>1 DEF TypeOK, Session
<1> HIDE DEF s
<1>3. /\ \A e \in s.raws : raw[e] = "absent"
      /\ \A e \in s.posts : ~(posted[e] > 0)
  BY <1>1 DEF Collides
<1>4. /\ \A e \in Events : posted'[e] = IF e \in s.posts THEN posted[e] + 1 ELSE posted[e]
      /\ \A e \in Events : raw'[e] = RawAfter(s, e)
      /\ stale' = (stale \ s.refreshed) \cup s.pending
  BY <1>1 DEF Save
<1>5. \A e \in Events : posted[e] \in Nat
  BY <1>1 DEF TypeOK
<1>6. PostedOnce'
  BY <1>1, <1>3, <1>4, <1>5 DEF Ledger, PostedOnce
<1>7. \A e \in Events : raw[e] # "absent" \/ e \in s.posts \cup s.raws => raw'[e] # "absent"
  BY <1>4 DEF RawAfter
<1>8. \A e \in Posted' : raw'[e] # "absent"
  BY <1>1, <1>2, <1>7 DEF Ledger, Posted
<1>9. ASSUME NEW e \in Events, raw'[e] # "absent", AtOnce(e), History[e].posts
      PROVE  e \in Posted'
  <2>1. \/ e \in s.posts \/ e \in s.raws \/ raw[e] # "absent"
    BY <1>1, <1>4, <1>9 DEF RawAfter, LedgerOf
  <2> QED
    BY <1>1, <1>9, <2>1 DEF Ledger, LedgerOf
<1>10. \A e \in stale' : raw'[e] # "absent"
  BY <1>1, <1>2, <1>4, <1>7 DEF Ledger, LedgerOf, TypeOK
<1>11. EvidenceIsCurrent'
  <2> SUFFICES ASSUME provider = "binance", NEW e \in Posted', e \in stale'
               PROVE  FALSE
    BY <1>1 DEF EvidenceIsCurrent
  <2>1. /\ s.pending \cap s.posts = {} /\ s.posts \subseteq s.raws \cup s.refreshed
        /\ s.pending \subseteq s.raws /\ Posted \cap stale = {}
    BY <1>1 DEF Ledger, LedgerOf, EvidenceIsCurrent
  <2>2. CASE e \in s.posts
    <3>1. e \in stale \ s.refreshed
      BY <1>4, <2>1, <2>2
    <3>2. e \in s.raws
      BY <2>1, <2>2, <3>1
    <3> QED
      BY <1>1, <1>3, <3>1, <3>2 DEF Ledger
  <2>3. CASE e \in Posted
    <3>1. e \in s.pending
      BY <1>4, <2>1, <2>3
    <3> QED
      BY <1>1, <1>3, <2>1, <2>3, <3>1 DEF Ledger
  <2> QED
    BY <1>1, <2>2, <2>3
<1>12. \A e \in Events : AtOnce(e)' <=> AtOnce(e)
  BY <1>1 DEF AtOnce
<1> QED
  BY <1>1, <1>6, <1>8, <1>9, <1>10, <1>11, <1>12 DEF Ledger

\* What cursors promise, by element.
LEMMA PromisedIs ==
    ASSUME TypeOK, NEW cursors, NEW starts
    PROVE  /\ Promised(provider, cursors, starts) \subseteq Events
           /\ \A e \in Events : e \in Promised(provider, cursors, starts) <=>
                /\ History[e].posts /\ Tracked(provider, e)
                /\ History[e].final <= TimeOf(e) + Overlap
                /\ cursors[ResourceOf(provider, e)] # NoTime
                /\ starts[ResourceOf(provider, e)] <= TimeOf(e)
                /\ TimeOf(e) + Overlap <= cursors[ResourceOf(provider, e)]
<1>1. provider \in Providers
  BY DEF TypeOK
<1>2. Promised(provider, cursors, starts) \subseteq Prompt[provider]
  BY DEF Promised
<1>3. Prompt[provider] = {e \in Events : /\ History[e].posts /\ Tracked(provider, e)
                                         /\ History[e].final <= TimeOf(e) + Overlap}
  BY <1>1 DEF Prompt
<1> QED
  BY <1>2, <1>3 DEF Promised

\* A cursor that moves promises what the session has read, or what it did before.
LEMMA CommitKeepsPromises ==
    ASSUME Sound, NEW r \in Runs, Commits(r)
    PROVE  Promises'
<1> DEFINE s == run[r]
           res == Resource(s)
<1>1. /\ TypeOK /\ Promises /\ Answers(s) /\ Staged(s) /\ s.pc = "commit" /\ s \in Session
      /\ provider' = provider /\ Posted' = Posted \cup s.posts
  BY CommitPosts DEF Sound, SessionSound, TypeOK, Commits, At
<1>2. \A e \in Events : e \in Promised(provider, cursor, since) => e \in Posted
  BY <1>1 DEF Promises
<1>3. CASE Stay
  <2>1. Promised(provider', cursor', since') = Promised(provider, cursor, since)
    BY <1>1, <1>3 DEF Stay
  <2> QED
    BY <1>1, <2>1 DEF Promises
<1>4. CASE s.complete /\ provider \in {"binance", "hyperliquid"} /\ Move(res, s)
  <2>1. /\ s.from \in Nat /\ s.end \in Nat /\ res \in Products
        /\ cursor[res] \in Nat \cup {NoTime} /\ since[res] \in Nat
    <3>1. s.from \in Instants /\ s.end \in Instants /\ s.product \in Products
      BY <1>1 DEF Session
    <3>2. res \in Products
      BY <3>1, Labels DEF Resource
    <3> HIDE DEF res, s
    <3>3. cursor[res] \in Instants \cup {NoTime} /\ since[res] \in Instants
      BY <1>1, <3>2 DEF TypeOK
    <3> QED
      BY <3>1, <3>2, <3>3, Sizes
  <2> HIDE DEF res
  <2>2. /\ \A p \in Products : p # res => cursor'[p] = cursor[p] /\ since'[p] = since[p]
        /\ cursor'[res] = s.end /\ since'[res] = Began(res, s)
    BY <1>1, <1>4, <2>1 DEF Move, TypeOK
  <2>3. ASSUME NEW e \in Events, e \in Promised(provider, cursor', since')
        PROVE  e \in Posted'
    <3>1. /\ History[e].posts /\ Tracked(provider, e)
          /\ cursor'[ResourceOf(provider, e)] # NoTime
          /\ History[e].final <= TimeOf(e) + Overlap
          /\ since'[ResourceOf(provider, e)] <= TimeOf(e)
          /\ TimeOf(e) + Overlap <= cursor'[ResourceOf(provider, e)]
      BY <1>1, <2>3, PromisedIs
    <3>2. ResourceOf(provider, e) \in Products /\ TimeOf(e) \in Nat
      BY ItemIs, Labels DEF ResourceOf
    <3>3. CASE ResourceOf(provider, e) # res
      <4>1. e \in Promised(provider, cursor, since)
        BY <1>1, <2>2, <3>1, <3>2, <3>3, PromisedIs
      <4> QED
        BY <1>1, <1>2, <4>1
    <3>4. CASE ResourceOf(provider, e) = res
      <4>1. Began(res, s) <= TimeOf(e) /\ TimeOf(e) + Overlap <= s.end
        BY <2>2, <3>1, <3>4
      <4>2. ~s.ahead
        BY <2>1, <3>2, <4>1, Sizes DEF Began
      <4>3. CASE s.from <= TimeOf(e)
        <5>1. InRange(s, e)
          BY <3>1, <3>4, <4>1, <4>3 DEF InRange, res
        <5> QED
          BY <1>1, <1>4, <4>2, <5>1 DEF Answers
      <4>4. CASE ~(s.from <= TimeOf(e))
        <5>1. /\ cursor[res] # NoTime /\ ~(s.from > Minus(cursor[res], Overlap))
              /\ Began(res, s) = Lesser(since[res], s.from)
          BY <3>2, <4>1, <4>2, <4>4 DEF Began
        <5>2. since[res] <= TimeOf(e)
          BY <2>1, <3>2, <4>1, <4>4, <5>1 DEF Lesser
        <5>3. TimeOf(e) + Overlap <= cursor[res]
          BY <2>1, <3>2, <4>4, <5>1, Sizes DEF Minus
        <5>4. e \in Promised(provider, cursor, since)
          BY <1>1, <3>1, <3>4, <5>1, <5>2, <5>3, PromisedIs
        <5> QED
          BY <1>1, <1>2, <5>4
      <4> QED
        BY <4>3, <4>4
    <3> QED
      BY <3>3, <3>4
  <2>4. Promised(provider, cursor', since') \subseteq Events
    BY <1>1, PromisedIs
  <2> QED
    BY <1>1, <2>3, <2>4 DEF Promises
<1> QED
  BY <1>3, <1>4 DEF Commits

\* The balances of a session go on record with those it knew of.
LEMMA CommitKeepsBalances ==
    ASSUME Sound, NEW r \in Runs, Commits(r)
    PROVE  BalanceRows'
<1> DEFINE s == run[r]
           rows == {[b EXCEPT !.stored = now] : b \in s.rows}
<1>1. /\ TypeOK /\ BalanceRows /\ BalancesOf(s) /\ s.pc = "commit" /\ s \in Session
      /\ provider' = provider /\ now' = now /\ Save(s)
  BY CommitPosts DEF Sound, SessionSound, TypeOK, Commits, At
<1>2. now \in Nat /\ s.observed \in Nat
  BY <1>1, Sizes DEF TypeOK, Session
<1>3. s.rows \subseteq BalanceRow /\ balances \subseteq BalanceRow
  BY <1>1 DEF TypeOK, Session
<1> HIDE DEF s
<1>4. balances' = balances \cup rows /\ days' = days \cup s.days
  BY <1>1 DEF Save
<1>5. \A b \in rows : /\ b.as_of = s.observed /\ b.stored = now /\ b.read <= now
                      /\ \E c \in s.rows : /\ b.account = c.account /\ b.asset = c.asset
                                           /\ b.read = c.read
  BY <1>1, <1>3 DEF BalancesOf, BalanceRow
<1>6. \A c \in s.rows : \E b \in rows : b.account = c.account /\ b.asset = c.asset
  <2> SUFFICES ASSUME NEW c \in s.rows
               PROVE  \E b \in rows : b.account = c.account /\ b.asset = c.asset
    OBVIOUS
  <2>1. PICK b : b = [c EXCEPT !.stored = now]
    OBVIOUS
  <2>2. b.account = c.account /\ b.asset = c.asset
    BY <1>3, <2>1 DEF BalanceRow
  <2>3. b \in rows
    BY <2>1
  <2> QED
    BY <2>2, <2>3
<1> HIDE DEF rows
<1>7. \A account, asset, as_of : Taken(account, asset, as_of) =>
        \E b \in balances' : b.account = account /\ b.asset = asset /\ b.as_of = as_of
  BY <1>4 DEF Taken
<1>8. \A b \in balances' : b.read <= now /\ b.stored <= now
  BY <1>1, <1>2, <1>4, <1>5 DEF BalanceRows
<1>9. ASSUME provider \in {"binance", "hyperliquid"},
             NEW b \in balances', NEW c \in balances', b.asset # "equity", c.asset # "equity",
             b.account = c.account, b.as_of < c.as_of, b.stored < c.read
      PROVE  \E d \in balances' : d.account = b.account /\ d.asset = b.asset /\ d.as_of = c.as_of
  <2>1. b \in balances
    <3>1. c.read <= now
      BY <1>8
    <3>2. ASSUME b \in rows
          PROVE  FALSE
      <4>1. b.stored = now
        BY <1>5, <3>2
      <4>2. c.read \in Nat
        <5>1. c.read \in Instants
          BY <1>3, <1>4, <1>5 DEF BalanceRow
        <5> QED
          BY <5>1, Sizes
      <4> QED
        BY <1>2, <1>9, <3>1, <4>1, <4>2
    <3> QED
      BY <1>4, <3>2
  <2>2. CASE c \in balances
    <3>1. Taken(b.account, b.asset, c.as_of)
      BY <1>1, <1>9, <2>1, <2>2 DEF BalanceRows, NothingLingers
    <3> QED
      BY <1>7, <3>1
  <2>3. CASE c \in rows
    <3>1. PICK x \in s.rows : c.account = x.account /\ c.asset = x.asset /\ c.read = x.read
      BY <1>5, <2>3
    <3>2. \/ Taken(b.account, b.asset, s.observed)
          \/ \E d \in s.rows : d.account = b.account /\ d.asset = b.asset
      BY <1>1, <1>9, <2>1, <3>1 DEF BalancesOf
    <3> QED
      BY <1>4, <1>5, <1>6, <1>7, <2>3, <3>2
  <2> QED
    BY <1>4, <2>2, <2>3
<1>10. NothingLingers'
  BY <1>1, <1>9 DEF NothingLingers, Taken
<1>11. ASSUME provider = "hyperliquid"
       PROVE  /\ \A b \in balances' : <<"linear", b.as_of>> \in days'
              /\ \A b, c \in balances' : b.as_of = c.as_of => b.read = c.read
  <2>1. /\ <<"linear", s.observed>> \notin days /\ <<"linear", s.observed>> \in s.days
        /\ \A b, c \in s.rows : b.read = c.read
        /\ \A b \in balances : <<"linear", b.as_of>> \in days
        /\ \A b, c \in balances : b.as_of = c.as_of => b.read = c.read
    BY <1>1, <1>11 DEF BalancesOf, BalanceRows, OneReading
  <2>2. \A b \in balances' : <<"linear", b.as_of>> \in days'
    BY <1>4, <1>5, <2>1
  <2>3. \A b \in balances, c \in rows : b.as_of # c.as_of
    BY <1>5, <2>1
  <2>4. \A b, c \in rows : b.read = c.read
    BY <1>5, <2>1
  <2> QED
    BY <1>4, <2>1, <2>2, <2>3, <2>4
<1> QED
  BY <1>1, <1>8, <1>10, <1>11 DEF BalanceRows, OneReading

\* The positions of a session go on record, and its markers are the newest if no
\* other sync has been there with a later date.
LEMMA CommitKeepsPositions ==
    ASSUME Sound, NEW r \in Runs, Commits(r)
    PROVE  PositionRows'
<1> SUFFICES ASSUME provider # "bybit"
             PROVE  PositionRows'
  BY CommitPosts DEF PositionRows, Sound
<1> DEFINE s == run[r]
           wins(a) == s.observed >= marker[a].as_of
<1>1. /\ TypeOK /\ PositionRows /\ PositionsOf(s) /\ s \in Session
      /\ provider' = provider /\ Save(s)
  BY CommitPosts DEF Sound, SessionSound, TypeOK, Commits
<1>2. /\ OpenPositionsShown
      /\ \A a \in Products : marker[a] = NoMarker \/ Belongs(marker[a].scope, a)
      /\ \A a \in Products, scope \in Futures, t \in Instants :
           <<scope, t>> \in days /\ Belongs(scope, a) => marker[a].scope = scope /\ t <= marker[a].as_of
  BY <1>1 DEF PositionRows
<1>3. /\ s.marked \subseteq s.told /\ s.told \subseteq Products /\ s.observed \in Instants
      /\ \A d \in s.days : d[1] \in Futures =>
           d[2] = s.observed /\ \E a \in s.marked : Belongs(d[1], a)
      /\ \A a \in s.told : \E scope \in Futures : ToldOf(s, a, scope)
      /\ s.days \subseteq Scopes \X Instants
  BY <1>1 DEF PositionsOf, Session
<1> HIDE DEF s
<1>4. /\ days' = days \cup s.days /\ positions' = positions \cup s.opened
      /\ \A a \in Products :
           /\ marker'[a] = IF a \in s.marked /\ wins(a) THEN s.marker[a] ELSE marker[a]
           /\ open'[a] = IF a \in s.told /\ wins(a) THEN s.open[a] ELSE open[a]
  BY <1>1 DEF Save
<1>5. \A a \in Products : marker[a].as_of \in Nat /\ s.observed \in Nat /\ marker[a] \in Marker
  <2> SUFFICES ASSUME NEW a \in Products
               PROVE  marker[a].as_of \in Nat /\ s.observed \in Nat /\ marker[a] \in Marker
    OBVIOUS
  <2>1. marker[a] \in Marker
    BY <1>1 DEF TypeOK
  <2>2. marker[a].as_of \in Instants
    BY <2>1 DEF Marker
  <2> QED
    BY <1>3, <2>1, <2>2, Sizes
<1> HIDE DEF wins
<1>6. \A x, y \in Futures : \A a \in Products : Belongs(x, a) /\ Belongs(y, a) => x = y
  BY DEF Belongs
<1>7. \A x \in Futures : \A a, b \in Products : Belongs(x, a) /\ Belongs(x, b) => a = b
  BY DEF Belongs
<1>8. ASSUME NEW a \in s.marked
      PROVE  \E scope \in Futures : /\ Belongs(scope, a)
                                    /\ s.marker[a] = [scope |-> scope, as_of |-> s.observed]
  BY <1>3, <1>8 DEF ToldOf
<1>9. ASSUME NEW a \in Products
      PROVE  marker'[a] = NoMarker \/ Belongs(marker'[a].scope, a)
  <2>1. CASE a \in s.marked /\ wins(a)
    <3>1. PICK scope \in Futures : /\ Belongs(scope, a)
                                   /\ s.marker[a] = [scope |-> scope, as_of |-> s.observed]
      BY <1>8, <2>1
    <3> QED
      BY <1>4, <2>1, <3>1
  <2>2. CASE ~(a \in s.marked /\ wins(a))
    BY <1>2, <1>4, <2>2
  <2> QED
    BY <2>1, <2>2
<1>10. ASSUME NEW a \in Products, NEW scope \in Futures, NEW t \in Instants,
              <<scope, t>> \in days', Belongs(scope, a)
       PROVE  marker'[a].scope = scope /\ t <= marker'[a].as_of
  <2>0. t \in Nat
    BY Sizes
  <2>1. CASE a \in s.marked /\ wins(a)
    <3>1. marker'[a] = [scope |-> scope, as_of |-> s.observed]
      BY <1>4, <1>6, <1>8, <1>10, <2>1
    <3>2. t <= s.observed
      <4>1. CASE <<scope, t>> \in days
        <5>1. t <= marker[a].as_of
          BY <1>2, <1>10, <4>1
        <5> QED
          BY <1>5, <2>0, <2>1, <5>1 DEF wins
      <4>2. CASE <<scope, t>> \in s.days
        <5>1. t = s.observed
          BY <1>3, <4>2
        <5> QED
          BY <2>0, <5>1
      <4> QED
        BY <1>4, <1>10, <4>1, <4>2
    <3> QED
      BY <3>1, <3>2
  <2>2. CASE ~(a \in s.marked /\ wins(a))
    <3>1. marker'[a] = marker[a]
      BY <1>4, <2>2
    <3>2. CASE <<scope, t>> \in days
      BY <1>2, <1>10, <3>1, <3>2
    <3>3. CASE <<scope, t>> \in s.days
      <4>1. t = s.observed /\ a \in s.marked
        BY <1>3, <1>7, <1>10, <3>3
      <4>2. ~(s.observed >= marker[a].as_of)
        BY <2>2, <4>1 DEF wins
      <4>3. t <= marker[a].as_of
        BY <1>5, <4>1, <4>2
      <4>4. marker[a] # NoMarker
        BY <1>5, <4>2 DEF NoMarker
      <4>5. \E x \in Futures : x = marker[a].scope /\ Belongs(x, a)
        BY <1>1, <1>2, <1>5, <1>10, <4>4 DEF Belongs
      <4> QED
        BY <1>6, <1>10, <3>1, <4>3, <4>5
    <3> QED
      BY <1>4, <1>10, <3>2, <3>3
  <2> QED
    BY <2>1, <2>2
<1>11. ASSUME NEW a \in Products
       PROVE  open'[a] \subseteq Shown(a)'
  <2>0. Shown(a) = {<<p.scope, p.symbol>> :
                      p \in {x \in positions : /\ x.account = a /\ x.scope = marker[a].scope
                                               /\ x.as_of = marker[a].as_of}}
    BY DEF Shown
  <2>1. Shown(a)' = {<<p.scope, p.symbol>> :
                       p \in {x \in positions' : /\ x.account = a /\ x.scope = marker'[a].scope
                                                 /\ x.as_of = marker'[a].as_of}}
    BY DEF Shown
  <2>2. CASE a \in s.told /\ wins(a)
    <3>1. PICK scope \in Futures : ToldOf(s, a, scope)
      BY <1>3, <2>2
    <3>2. marker'[a].scope = scope /\ marker'[a].as_of = s.observed
      <4>1. CASE a \in s.marked
        BY <1>4, <2>2, <3>1, <4>1 DEF ToldOf
      <4>2. CASE a \notin s.marked
        <5>1. <<scope, s.observed>> \in days /\ Belongs(scope, a)
          BY <3>1, <4>2 DEF ToldOf
        <5>2. marker[a].scope = scope /\ s.observed <= marker[a].as_of
          BY <1>2, <1>3, <5>1
        <5>3. s.observed = marker[a].as_of
          BY <1>5, <2>2, <5>2 DEF wins
        <5> QED
          BY <1>4, <4>2, <5>2, <5>3
      <4> QED
        BY <4>1, <4>2
    <3>3. ASSUME NEW p \in s.open[a]
          PROVE  p \in Shown(a)'
      <4>1. /\ p[1] = scope
            /\ PositionOf(a, scope, s.observed, p[2]) \in positions'
        BY <1>4, <3>1 DEF ToldOf
      <4>2. PICK row : row = PositionOf(a, scope, s.observed, p[2])
        OBVIOUS
      <4>3. /\ row.account = a /\ row.scope = scope /\ row.as_of = s.observed
            /\ row.symbol = p[2]
        BY <4>2 DEF PositionOf
      <4>4. p = <<p[1], p[2]>>
        <5>1. p \in Products \X Symbols
          BY <1>1 DEF Session
        <5> QED
          BY <5>1
      <4> QED
        BY <2>1, <3>2, <4>1, <4>2, <4>3, <4>4
    <3>4. open'[a] = s.open[a]
      BY <1>4, <2>2
    <3> QED
      BY <3>3, <3>4
  <2>3. CASE ~(a \in s.told /\ wins(a))
    <3>1. open'[a] = open[a] /\ marker'[a] = marker[a]
      BY <1>3, <1>4, <2>3
    <3>2. Shown(a) \subseteq Shown(a)'
      BY <1>4, <2>0, <2>1, <3>1
    <3> QED
      BY <1>2, <3>1, <3>2 DEF OpenPositionsShown
  <2> QED
    BY <2>2, <2>3
<1>12. \A x, a : Belongs(x, a)' <=> Belongs(x, a)
  BY <1>1 DEF Belongs
<1>13. OpenPositionsShown'
  BY <1>11 DEF OpenPositionsShown
<1> QED
  BY <1>9, <1>10, <1>12, <1>13 DEF PositionRows

\* What another sync has read stays true of the tables.
LEMMA CommitKeepsOthers ==
    ASSUME Sound, NEW r \in Runs, Commits(r), NEW u \in Session, NEW q \in Runs,
           q # r, u = run[q], run'[q] = u
    PROVE  SessionSound(run[q])'
<1> DEFINE s == run[r]
<1>1. /\ TypeOK /\ SessionSound(s) /\ SessionSound(u) /\ s \in Session /\ s.pc = "commit"
      /\ provider' = provider /\ now' = now /\ Posted' = Posted \cup s.posts /\ Save(s)
  BY CommitPosts DEF Sound, TypeOK, Commits, At
<1>2. provider = "hyperliquid" /\ u.pc # "idle" => u.observed # s.observed
  BY <1>1 DEF Sound, Distinct, At
<1> HIDE DEF s
<1>3. /\ balances' = balances \cup {[b EXCEPT !.stored = now] : b \in s.rows}
      /\ positions' = positions \cup s.opened /\ days' = days \cup s.days
  BY <1>1 DEF Save
<1>4. Staged(run[q])'
  BY <1>1 DEF SessionSound, Staged, NoItems, NoRows, NoPositions
<1>5. LedgerOf(run[q])'
  BY <1>1 DEF SessionSound, LedgerOf, AtOnce
<1>6. Answers(run[q])'
  BY <1>1 DEF SessionSound, Answers, InRange, Resource, ResourceOf, Tracked, Followed
<1>7. BalancesOf(run[q])'
  <2>1. \A b \in u.rows : b.as_of = u.observed /\ b.read <= now
    BY <1>1 DEF SessionSound, BalancesOf
  <2>2. ASSUME provider \in {"binance", "hyperliquid"}, NEW b \in balances', NEW c \in u.rows,
               b.asset # "equity", c.asset # "equity", b.account = c.account, b.stored < c.read
        PROVE  \/ \E x \in balances' : /\ x.account = b.account /\ x.asset = b.asset
                                       /\ x.as_of = u.observed
               \/ \E d \in u.rows : d.account = b.account /\ d.asset = b.asset
    <3>1. b \in balances
      <4>1. ASSUME b \notin balances
            PROVE  FALSE
        <5>1. PICK x \in s.rows : b = [x EXCEPT !.stored = now]
          BY <1>3, <4>1
        <5>2. x \in BalanceRow /\ c \in BalanceRow
          BY <1>1, <5>1 DEF Session
        <5>3. b.stored = now /\ c.read \in Instants
          BY <5>1, <5>2 DEF BalanceRow
        <5>4. now \in Nat /\ c.read \in Nat
          BY <1>1, <5>3, Sizes DEF TypeOK
        <5>5. c.read <= now
          BY <2>1
        <5> QED
          BY <2>2, <5>3, <5>4, <5>5
      <4> QED
        BY <4>1
    <3>2. \/ Taken(b.account, b.asset, u.observed)
          \/ \E d \in u.rows : d.account = b.account /\ d.asset = b.asset
      BY <1>1, <2>2, <3>1 DEF SessionSound, BalancesOf
    <3> QED
      BY <1>3, <3>2 DEF Taken
  <2>3. provider = "hyperliquid" => \A b, c \in u.rows : b.read = c.read
    BY <1>1 DEF SessionSound, BalancesOf
  <2>4. provider = "hyperliquid" /\ u.pc # "idle" =>
          /\ <<"linear", u.observed>> \notin days'
          /\ u.pc = "balances" \/ <<"linear", u.observed>> \in u.days
    <3>1. ASSUME provider = "hyperliquid", <<"linear", u.observed>> \in s.days
          PROVE  u.observed = s.observed
      BY <1>1, <3>1 DEF SessionSound, PositionsOf, Futures
    <3> QED
      BY <1>1, <1>2, <1>3, <3>1 DEF SessionSound, BalancesOf
  <2> QED
    BY <1>1, <2>1, <2>2, <2>3, <2>4 DEF BalancesOf, Taken
<1>8. PositionsOf(run[q])'
  <2>1. ASSUME provider # "bybit", NEW a \in u.told
        PROVE  \E scope \in Futures : ToldOf(run[q], a, scope)'
    <3>1. PICK scope \in Futures : ToldOf(u, a, scope)
      BY <1>1, <2>1 DEF SessionSound, PositionsOf
    <3>2. ToldOf(run[q], a, scope)'
      BY <1>1, <1>3, <3>1 DEF ToldOf, Belongs, PositionOf
    <3> QED
      BY <3>2
  <2>2. provider # "bybit" =>
          /\ u.marked \subseteq u.told
          /\ \A d \in u.days : d[1] \in Futures =>
               d[2] = u.observed /\ \E a \in u.marked : Belongs(d[1], a)
          /\ \A a \in Products \ u.told : u.open[a] = {}
    BY <1>1 DEF SessionSound, PositionsOf
  <2>3. provider # "bybit" =>
          (/\ run[q].marked \subseteq run[q].told
           /\ \A d \in run[q].days : d[1] \in Futures =>
                d[2] = run[q].observed /\ \E a \in run[q].marked : Belongs(d[1], a)
           /\ \A a \in Products \ run[q].told : run[q].open[a] = {})'
    BY <1>1, <2>2 DEF Belongs
  <2> QED
    BY <1>1, <2>1, <2>3 DEF PositionsOf
<1> QED
  BY <1>4, <1>5, <1>6, <1>7, <1>8 DEF SessionSound

\* A session without the rows it has committed.
Emptied(t) ==
    /\ NoItems(t) /\ t.rows = {} /\ t.told = {} /\ t.marked = {} /\ t.days = {}
    /\ \A a \in Products : t.open[a] = {}

\* It is over, or has the next product of Binance before it.
Goes(t, s) ==
    \/ t.pc = "idle"
    \/ /\ t.pc = "history" /\ provider = "binance"
       /\ t.request = s.request /\ t.end = s.end /\ t.ahead = s.ahead /\ t.observed = s.observed
       /\ t.warned = s.warned /\ t.due = s.due

\* A commit keeps the inductive invariant.
LEMMA CommitIsSound ==
    ASSUME Sound, NEW r \in Runs, Commits(r), NEW t \in Session, Emptied(t), Goes(t, run[r]),
           run' = [run EXCEPT ![r] = t]
    PROVE  Sound'
<1> DEFINE s == run[r]
<1>1. /\ TypeOK /\ SessionSound(s) /\ s \in Session /\ s.pc = "commit"
      /\ provider' = provider /\ now' = now /\ Posted' = Posted \cup s.posts
  BY CommitPosts DEF Sound, TypeOK, Commits, At
<1>2. run' \in [Runs -> Session] /\ \A q \in Runs : run'[q] = IF q = r THEN t ELSE run[q]
  BY <1>1 DEF TypeOK
<1>3. TypeOK'
  BY <1>1, <1>2, CommitTypes
<1>4. Ledger' /\ Promises' /\ BalanceRows' /\ PositionRows'
  BY CommitKeepsLedger, CommitKeepsPromises, CommitKeepsBalances, CommitKeepsPositions
<1>5. Distinct'
  <2>1. Distinct
    BY DEF Sound
  <2> QED
    BY <1>1, <1>2, <2>1 DEF Distinct, At, Goes
<1>6. SessionSound(run[r])'
  <2> HIDE DEF s
  <2>1. t = run'[r]
    BY <1>2
  <2>2. t.pc # "idle" =>
          /\ provider = "binance" /\ t.pc = "history" /\ t.request \in Requests
          /\ ~t.ahead => t.end <= now
          /\ t.observed <= now
          /\ ~t.warned => t.due \subseteq Posted'
    <3>1. Goes(t, s)
      BY DEF s
    <3> QED
      BY <1>1, <3>1 DEF Goes, SessionSound, Staged, Answers
  <2>3. Staged(run[r])'
    BY <1>1, <2>1, <2>2 DEF Staged, NoItems, NoRows, NoPositions, Emptied
  <2>4. LedgerOf(run[r])'
    BY <2>1 DEF LedgerOf, Emptied, NoItems
  <2>5. Answers(run[r])'
    <3>1. t.pc # "idle" /\ ~t.warned => t.due \subseteq t.posts \cup Posted'
      BY <2>2
    <3>2. t.pc # "commit"
      BY <2>2
    <3> QED
      BY <2>1, <3>1, <3>2 DEF Answers
  <2>6. BalancesOf(run[r])'
    <3>1. t.pc # "idle" => provider' # "hyperliquid"
      BY <1>1, <2>2
    <3> QED
      BY <2>1, <3>1 DEF BalancesOf, Emptied
  <2>7. PositionsOf(run[r])'
    BY <2>1 DEF PositionsOf, Emptied
  <2> QED
    BY <2>3, <2>4, <2>5, <2>6, <2>7 DEF SessionSound
<1>7. ASSUME NEW q \in Runs
      PROVE  SessionSound(run[q])'
  <2>1. CASE q = r
    BY <1>6, <2>1
  <2>2. CASE q # r
    <3>1. PICK u \in Session : u = run[q] /\ run'[q] = u
      BY <1>1, <1>2, <2>2 DEF TypeOK
    <3> QED
      BY <2>2, <3>1, CommitKeepsOthers
  <2> QED
    BY <2>1, <2>2
<1> QED
  BY <1>3, <1>4, <1>5, <1>7 DEF Sound

\* A run that ends has nothing left in hand, and succeeds when nothing was missing.
LEMMA FinishedIs ==
    ASSUME NEW s \in Session
    PROVE  /\ Finished(s) \in Session /\ Emptied(Finished(s)) /\ Finished(s).pc = "idle"
           /\ Finished(s).status # "succeeded" <=> s.warned
<1> DEFINE status == IF s.warned THEN "partial" ELSE "succeeded"
<1>1. status \in Statuses /\ s.warned \in BOOLEAN
  BY Labels DEF Session
<1>2. PICK t : t = Idle(status)
  OBVIOUS
<1> HIDE DEF status
<1>3. t \in Session /\ t.pc = "idle" /\ t.status = status /\ Blank(t)
  BY <1>1, <1>2, IdleIs, Zenon
<1>4. t = Finished(s)
  BY <1>2 DEF Finished, status
<1>5. Emptied(t)
  BY <1>3 DEF Emptied, Blank
<1> QED
  BY <1>1, <1>3, <1>4, <1>5 DEF status

\* Binance goes on with nothing in hand.
LEMMA ClearedIs ==
    ASSUME NEW s \in Session, NEW rest \in ProductSets, NEW product \in Products
    PROVE  \E t \in Session :
             /\ t = [Cleared(s) EXCEPT !.pc = "history", !.todo = rest, !.done = @ \cup {product}]
             /\ Emptied(t) /\ t.pc = "history"
             /\ t.request = s.request /\ t.end = s.end /\ t.ahead = s.ahead
             /\ t.observed = s.observed /\ t.warned = s.warned /\ t.due = s.due
<1>1. PICK i \in Session : i = Idle(s.status) /\ Blank(i)
  <2>1. s.status \in Statuses
    BY DEF Session
  <2> QED
    BY <2>1, IdleIs, Zenon
<1>2. PICK u : u = [i EXCEPT !.pc = s.pc, !.request = s.request, !.start = s.start,
        !.end = s.end, !.from = s.from, !.observed = s.observed, !.todo = s.todo,
        !.done = s.done, !.ahead = s.ahead, !.warned = s.warned, !.due = s.due]
  OBVIOUS
<1>3. u = Cleared(s)
  BY <1>1, <1>2, Zenon DEF Cleared
<1>4. /\ s.pc \in PCs /\ s.request \in Requests \cup {NoTime} /\ s.start \in Instants
      /\ s.end \in Instants /\ s.from \in Instants /\ s.observed \in Instants
      /\ s.todo \in ProductSets /\ s.done \in ProductSets /\ s.ahead \in BOOLEAN
      /\ s.warned \in BOOLEAN /\ s.due \in EventSets
  BY DEF Session, ProductSets, EventSets
<1>5. u \in Session
  BY <1>2, <1>4, SessionIs, Zenon
<1>6. /\ u.request = s.request /\ u.end = s.end /\ u.ahead = s.ahead /\ u.done = s.done
      /\ u.observed = s.observed /\ u.warned = s.warned /\ u.due = s.due
  BY <1>2, <1>4, SessionIs, Zenon
<1>7. /\ SamePositions(u, i) /\ u.rows = i.rows /\ u.days = i.days /\ u.raws = i.raws
      /\ u.pending = i.pending /\ u.posts = i.posts /\ u.ignored = i.ignored
  BY <1>2, <1>4, SessionIs, Zenon DEF SamePositions
<1> DEFINE done == s.done \cup {product}
<1>8. PICK t : t = [u EXCEPT !.pc = "history", !.todo = rest, !.done = done]
  OBVIOUS
<1>9. t = [Cleared(s) EXCEPT !.pc = "history", !.todo = rest, !.done = @ \cup {product}]
  BY <1>3, <1>6, <1>8
<1>10. done \in ProductSets
  BY <1>4 DEF ProductSets
<1> HIDE DEF done
<1>11. t \in Session
  BY <1>5, <1>8, <1>10, Labels, SessionIs, Zenon
<1>12. /\ t.pc = "history" /\ t.request = u.request /\ t.end = u.end /\ t.ahead = u.ahead
       /\ t.observed = u.observed /\ t.warned = u.warned /\ t.due = u.due
  BY <1>5, <1>8, <1>10, Labels, SessionIs, Zenon
<1>13. /\ SamePositions(t, u) /\ t.rows = u.rows /\ t.days = u.days /\ t.raws = u.raws
       /\ t.pending = u.pending /\ t.posts = u.posts /\ t.ignored = u.ignored
  BY <1>5, <1>8, <1>10, Labels, SessionIs, Zenon DEF SamePositions
<1>14. Emptied(t)
  BY <1>1, <1>7, <1>13 DEF Emptied, Blank, NoItems, SamePositions
<1> QED
  BY <1>6, <1>9, <1>11, <1>12, <1>14

\* The commits of the four exchanges.
EachCommit(r) == BinanceCommit(r) \/ HyperliquidCommit(r) \/ BybitCommit(r) \/ BitgetCommit(r)

\* The commit of each connector is one of these.
LEMMA CommitGoes ==
    ASSUME Sound, NEW r \in Runs, EachCommit(r)
    PROVE  /\ Commits(r)
           /\ \E t \in Session : /\ Emptied(t) /\ Goes(t, run[r])
                                 /\ run' = [run EXCEPT ![r] = t]
                                 /\ t.pc = "idle" /\ t.status = "succeeded" => ~run[r].warned
<1> DEFINE s == run[r]
           rest == s.todo \ {s.product}
<1>1. s \in Session /\ TypeOK
  BY DEF Sound, TypeOK
<1>2. rest \in ProductSets /\ s.product \in Products /\ s.complete \in BOOLEAN
  BY <1>1 DEF Session, ProductSets
<1>3. Commits(r)
  BY DEF EachCommit, BinanceCommit, HyperliquidCommit, BybitCommit, BitgetCommit, Commits, Resource
<1>4. \/ run' = [run EXCEPT ![r] = Finished(s)]
      \/ /\ provider = "binance"
         /\ run' = [run EXCEPT ![r] = [Cleared(s) EXCEPT !.pc = "history", !.todo = rest,
                                                         !.done = @ \cup {s.product}]]
  BY DEF EachCommit, BinanceCommit, HyperliquidCommit, BybitCommit, BitgetCommit
<1> HIDE DEF s, rest
<1>5. CASE run' = [run EXCEPT ![r] = Finished(s)]
  <2>1. /\ Finished(s) \in Session /\ Emptied(Finished(s)) /\ Goes(Finished(s), s)
        /\ Finished(s).status = "succeeded" => ~s.warned
    BY <1>1, FinishedIs DEF Goes
  <2> QED
    BY <1>3, <1>5, <2>1 DEF s
<1>6. CASE /\ provider = "binance"
           /\ run' = [run EXCEPT ![r] = [Cleared(s) EXCEPT !.pc = "history", !.todo = rest,
                                                           !.done = @ \cup {s.product}]]
  <2>1. PICK t \in Session :
          /\ t = [Cleared(s) EXCEPT !.pc = "history", !.todo = rest, !.done = @ \cup {s.product}]
          /\ Emptied(t) /\ t.pc = "history"
          /\ t.request = s.request /\ t.end = s.end /\ t.ahead = s.ahead
          /\ t.observed = s.observed /\ t.warned = s.warned /\ t.due = s.due
    BY <1>1, <1>2, ClearedIs, ZenonT(60)
  <2>2. Goes(t, s) /\ t.pc # "idle"
    BY <1>6, <2>1 DEF Goes
  <2>3. run' = [run EXCEPT ![r] = t]
    BY <1>6, <2>1, Zenon
  <2> QED
    BY <1>3, <2>1, <2>2, <2>3 DEF s
<1> QED
  BY <1>4, <1>5, <1>6

-----------------------------------------------------------------------------
(* Every step. *)

\* A step of a sync reads, ends it without success, or commits.
LEMMA StepIs ==
    ASSUME Sound, NEW r \in Runs, Step(r)
    PROVE  \/ Reading(r) \/ EachCommit(r)
           \/ \E status \in {"partial", "failed"} : Stop(r, status)
<1>1. CASE BinanceStep(r)
  <2>1. CASE BinanceCheck(r)
    BY <2>1, Labels, KeyIsChecked DEF BinanceCheck
  <2>2. CASE BinanceSpot(r)
    BY <2>2, BinanceSpotIsSound
  <2>3. CASE \E product \in Futures : BinanceFutures(r, product)
    BY <2>3, BinanceFuturesIsSound
  <2>4. CASE BinanceCommit(r) \/ BinanceFails(r)
    BY <2>4 DEF BinanceFails, EachCommit
  <2> QED
    BY <1>1, <2>1, <2>2, <2>3, <2>4 DEF BinanceStep
<1>2. CASE HyperliquidStep(r)
  <2>1. CASE HyperliquidState(r)
    BY <2>1, HyperliquidStateIsSound
  <2>2. CASE HyperliquidHistory(r)
    BY <2>2, HyperliquidHistoryIsSound
  <2>3. CASE HyperliquidCommit(r) \/ HyperliquidFails(r)
    BY <2>3 DEF HyperliquidFails, EachCommit
  <2> QED
    BY <1>2, <2>1, <2>2, <2>3 DEF HyperliquidStep
<1>3. CASE BybitStep(r)
  <2>1. CASE BybitCheck(r)
    BY <2>1, Labels, KeyIsChecked DEF BybitCheck
  <2>2. CASE BybitState(r)
    BY <2>2, BybitStateIsSound
  <2>3. CASE BybitWalletHistory(r)
    BY <2>3, WalletIsSound DEF BybitWalletHistory, BybitPosted, Paged
  <2>4. CASE BybitTransactions(r)
    BY <2>4, BybitTransactionsAreSound
  <2>5. CASE BybitCommit(r) \/ BybitFails(r)
    BY <2>5 DEF BybitFails, EachCommit
  <2> QED
    BY <1>3, <2>1, <2>2, <2>3, <2>4, <2>5 DEF BybitStep
<1>4. CASE BitgetStep(r)
  <2>1. CASE BitgetCheck(r)
    BY <2>1, Labels, KeyIsChecked DEF BitgetCheck
  <2>2. CASE BitgetBalancesAndPositions(r)
    BY <2>2, BitgetStateIsSound
  <2>3. CASE BitgetWalletHistory(r)
    BY <2>3, WalletIsSound DEF BitgetWalletHistory, BitgetPages
  <2>4. CASE BitgetHistory(r)
    BY <2>4, BitgetHistoryIsSound
  <2>5. CASE BitgetCommit(r) \/ BitgetFails(r)
    BY <2>5 DEF BitgetFails, EachCommit
  <2> QED
    BY <1>4, <2>1, <2>2, <2>3, <2>4, <2>5 DEF BitgetStep
<1> QED
  BY <1>1, <1>2, <1>3, <1>4 DEF Step

\* Time passes: what was read and promised stays read and promised.
LEMMA TickIsSound ==
    ASSUME Sound, Tick
    PROVE  Sound'
<1>1. /\ provider' = provider /\ key' = key /\ cursor' = cursor /\ since' = since
      /\ raw' = raw /\ stale' = stale /\ posted' = posted /\ days' = days
      /\ balances' = balances /\ positions' = positions /\ marker' = marker /\ open' = open
      /\ begun' = begun /\ run' = run /\ now' = now + 1 /\ now < MaxTime
  BY DEF Tick, database
<1>2. TypeOK
  BY DEF Sound
<1>3. now \in Nat /\ now' \in Instants /\ \A t \in Instants : t <= now => t <= now'
  BY <1>1, <1>2, Sizes DEF TypeOK, Instants
<1>4. TypeOK'
  BY <1>1, <1>2, <1>3 DEF TypeOK
<1>5. Ledger' /\ Promises'
  <2>1. Ledger /\ Promises
    BY DEF Sound
  <2>2. Ledger'
    BY <1>1, <2>1 DEF Ledger, PostedOnce, Posted, AtOnce, EvidenceIsCurrent
  <2>3. Promises'
    BY <1>1, <2>1 DEF Promises, Promised, Posted, Tracked, ResourceOf, Followed
  <2> QED
    BY <2>2, <2>3
<1>6. BalanceRows'
  <2>1. BalanceRows
    BY DEF Sound
  <2>2. \A b \in balances : b.read \in Instants /\ b.stored \in Instants
    BY <1>2 DEF TypeOK, BalanceRow
  <2>3. NothingLingers' /\ OneReading'
    BY <1>1, <2>1 DEF BalanceRows, NothingLingers, OneReading, Taken
  <2> QED
    BY <1>1, <1>3, <2>1, <2>2, <2>3 DEF BalanceRows
<1>7. PositionRows' /\ Distinct'
  <2>1. PositionRows /\ Distinct
    BY DEF Sound
  <2>2. PositionRows'
    BY <1>1, <2>1 DEF PositionRows, OpenPositionsShown, Shown, Belongs
  <2>3. Distinct'
    BY <1>1, <2>1 DEF Distinct, At
  <2> QED
    BY <2>2, <2>3
<1>8. ASSUME NEW q \in Runs
      PROVE  SessionSound(run[q])'
  <2>1. PICK u \in Session : u = run[q] /\ u = run'[q]
    BY <1>1, <1>2 DEF TypeOK
  <2>2. SessionSound(u)
    BY <2>1 DEF Sound
  <2>3. Staged(run[q])'
    <3>1. u.end \in Instants /\ u.observed \in Instants
      BY DEF Session
    <3>2. (~u.ahead /\ u.end <= now => u.end <= now') /\ (u.observed <= now => u.observed <= now')
      BY <1>3, <3>1
    <3> QED
      BY <1>1, <2>1, <2>2, <3>2 DEF SessionSound, Staged, NoItems, NoRows, NoPositions
  <2>4. LedgerOf(run[q])'
    BY <1>1, <2>1, <2>2 DEF SessionSound, LedgerOf, AtOnce, Posted
  <2>5. Answers(run[q])'
    BY <1>1, <2>1, <2>2
       DEF SessionSound, Answers, InRange, Posted, Resource, ResourceOf, Tracked, Followed
  <2>6. BalancesOf(run[q])'
    <3>1. \A b \in u.rows : b.read <= now => b.read <= now'
      <4>1. \A b \in u.rows : b.read \in Instants
        BY DEF Session, BalanceRow
      <4> QED
        BY <1>3, <4>1
    <3> QED
      BY <1>1, <2>1, <2>2, <3>1 DEF SessionSound, BalancesOf, Taken
  <2>7. PositionsOf(run[q])'
    <3>1. ASSUME provider # "bybit", NEW a \in u.told
          PROVE  \E scope \in Futures : ToldOf(run[q], a, scope)'
      <4>1. PICK scope \in Futures : ToldOf(u, a, scope)
        BY <2>2, <3>1 DEF SessionSound, PositionsOf
      <4>2. ToldOf(run[q], a, scope)'
        BY <1>1, <2>1, <4>1 DEF ToldOf, Belongs, PositionOf
      <4> QED
        BY <4>2
    <3>2. provider # "bybit" =>
            /\ u.marked \subseteq u.told
            /\ \A d \in u.days : d[1] \in Futures =>
                 d[2] = u.observed /\ \E a \in u.marked : Belongs(d[1], a)
            /\ \A a \in Products \ u.told : u.open[a] = {}
      BY <2>2 DEF SessionSound, PositionsOf
    <3>3. provider # "bybit" =>
            (/\ run[q].marked \subseteq run[q].told
             /\ \A d \in run[q].days : d[1] \in Futures =>
                  d[2] = run[q].observed /\ \E a \in run[q].marked : Belongs(d[1], a)
             /\ \A a \in Products \ run[q].told : run[q].open[a] = {})'
      BY <1>1, <2>1, <3>2 DEF Belongs
    <3> QED
      BY <1>1, <2>1, <3>1, <3>3 DEF PositionsOf
  <2> QED
    BY <2>3, <2>4, <2>5, <2>6, <2>7 DEF SessionSound
<1> QED
  BY <1>4, <1>5, <1>6, <1>7, <1>8 DEF Sound

\* The first state is sound,
LEMMA InitIsSound == Init => Sound
<1> SUFFICES ASSUME Init
             PROVE  Sound
  OBVIOUS
<1>1. PICK i \in Session : i = Idle("none") /\ i.pc = "idle" /\ Blank(i)
  BY IdleIs, Labels, Zenon
<1>2. \A r \in Runs : run[r] = i
  BY <1>1 DEF Init
<1>3. i.observed = 0 /\ i.end = 0
  BY <1>1, IdleFields, Zenon
<1>4. SessionSound(i)
  <2>1. i.end <= now /\ i.observed <= now
    BY <1>3 DEF Init
  <2> QED
    BY <1>1, <2>1, BlankIsSound
<1>5. TypeOK
  <2>1. run \in [Runs -> Session]
    BY <1>1 DEF Init
  <2>2. begun \in 0..MaxSyncs /\ now \in Instants
    BY Sizes DEF Init
  <2>3. marker \in [Products -> Marker]
    BY EmptyParts DEF Init, Markers
  <2>4. since \in [Products -> Instants]
    BY Sizes DEF Init
  <2>5. open \in [Products -> SUBSET (Products \X Symbols)]
    BY DEF Init
  <2> QED
    BY <2>1, <2>2, <2>3, <2>4, <2>5 DEF Init, TypeOK
<1>6. Posted = {}
  BY DEF Init, Posted
<1>7. Ledger
  BY <1>6 DEF Init, Ledger, PostedOnce, EvidenceIsCurrent
<1>8. Promises
  <2>1. \A e \in Events : ResourceOf(provider, e) \in Products
    BY ItemIs, Labels DEF ResourceOf
  <2> QED
    BY <1>5, <2>1, PromisedIs DEF Init, Promises
<1>9. BalanceRows
  BY DEF Init, BalanceRows, NothingLingers, OneReading
<1>10. Distinct
  BY <1>1, <1>2 DEF Distinct, At
<1>11. PositionRows
  BY DEF Init, PositionRows, OpenPositionsShown
<1> QED
  BY <1>2, <1>4, <1>5, <1>7, <1>8, <1>9, <1>10, <1>11 DEF Sound

\* a step that changes nothing keeps it so,
LEMMA StutterIsSound ==
    ASSUME Sound, UNCHANGED vars
    PROVE  Sound'
<1>1. /\ UNCHANGED <<world, database>> /\ begun' = begun /\ run' = run
  BY DEF vars
<1>2. CASE Runs = {}
  <2>1. /\ provider' = provider /\ now' = now /\ key' = key /\ cursor' = cursor
        /\ since' = since /\ raw' = raw /\ stale' = stale /\ posted' = posted /\ days' = days
        /\ balances' = balances /\ positions' = positions /\ marker' = marker /\ open' = open
    BY <1>1 DEF world, database
  <2>2. TypeOK'
    BY <1>1, <2>1 DEF Sound, TypeOK
  <2>3. Ledger'
    BY <2>1 DEF Sound, Ledger, PostedOnce, Posted, AtOnce, EvidenceIsCurrent
  <2>4. Promises'
    BY <2>1 DEF Sound, Promises, Promised, Posted, Tracked, ResourceOf, Followed
  <2>5. BalanceRows'
    BY <2>1 DEF Sound, BalanceRows, NothingLingers, OneReading, Taken
  <2>6. PositionRows'
    BY <2>1 DEF Sound, PositionRows, OpenPositionsShown, Shown, Belongs
  <2>7. Distinct'
    BY <1>2 DEF Distinct
  <2> QED
    BY <1>2, <2>2, <2>3, <2>4, <2>5, <2>6, <2>7 DEF Sound
<1>3. CASE Runs # {}
  <2>1. PICK r \in Runs : TRUE
    BY <1>3
  <2>2. PICK t \in Session : t = run[r] /\ SessionSound(t)
    BY DEF Sound, TypeOK
  <2>3. run' = [run EXCEPT ![r] = t] /\ begun' \in 0..MaxSyncs
    BY <1>1, <2>2 DEF Sound, TypeOK
  <2>4. Apart(r, t)
    BY <2>2 DEF Sound, Distinct, Apart, At
  <2> QED
    BY <1>1, <2>2, <2>3, <2>4, SessionMoves
<1> QED
  BY <1>2, <1>3

\* every step keeps it so,
LEMMA NextIsSound == Sound /\ [Next]_vars => Sound'
<1> SUFFICES ASSUME Sound, [Next]_vars
             PROVE  Sound'
  OBVIOUS
<1>1. CASE Tick
  BY <1>1, TickIsSound
<1>2. ASSUME NEW r \in Runs, NEW q \in Requests, Plan(r, q)
      PROVE  Sound'
  BY <1>2, PlansAreSound
<1>3. ASSUME NEW r \in Runs, Step(r)
      PROVE  Sound'
  <2>1. CASE Reading(r)
    BY <2>1, Reads
  <2>2. CASE EachCommit(r)
    BY <2>2, CommitGoes, CommitIsSound
  <2>3. CASE \E status \in {"partial", "failed"} : Stop(r, status)
    BY <2>3, Stops, Labels
  <2> QED
    BY <1>3, <2>1, <2>2, <2>3, StepIs
<1>4. ASSUME NEW r \in Runs, Crash(r)
      PROVE  Sound'
  BY <1>4, Stops, Labels DEF Crash
<1>5. CASE UNCHANGED vars
  BY <1>5, StutterIsSound
<1> QED
  BY <1>1, <1>2, <1>3, <1>4, <1>5 DEF Next

\* and so every state is.
LEMMA AlwaysSound == Spec => []Sound
  BY InitIsSound, NextIsSound, PTL DEF Spec

-----------------------------------------------------------------------------
(* What follows. *)

\* The tables and the sessions have the columns the models and connectors give them.
THEOREM TypeCorrect == Spec => []TypeOK
<1>1. Sound => TypeOK
  BY DEF Sound
<1> QED
  BY <1>1, AlwaysSound, PTL

\* However many syncs of a connection overlap, fail or are repeated, an item of
\* the exchange is in the ledger once.
THEOREM LedgerHasEachOnce == Spec => []PostedOnce
<1>1. Sound => PostedOnce
  BY DEF Sound, Ledger
<1> QED
  BY <1>1, AlwaysSound, PTL

\* What Binance calls final is posted with a raw event of the time it was final,
\* whichever sync saw it first.
THEOREM EvidenceStaysCurrent == Spec => []EvidenceIsCurrent
<1>1. Sound => EvidenceIsCurrent
  BY DEF Sound, Ledger
<1> QED
  BY <1>1, AlwaysSound, PTL

\* At Binance and Hyperliquid an asset that was on record when the account was read
\* again has a balance of the later date too.
THEOREM NothingEverLingers == Spec => []NothingLingers
<1>1. Sound => NothingLingers
  BY DEF Sound, BalanceRows
<1> QED
  BY <1>1, AlwaysSound, PTL

\* The Hyperliquid balances of one instant were read together, by one sync.
THEOREM ReadingsAreWhole == Spec => []OneReading
<1>1. Sound => OneReading
  BY DEF Sound, BalanceRows
<1> QED
  BY <1>1, AlwaysSound, PTL

\* The dashboard shows every open position the newest sync was told of.
THEOREM PositionsAreShown == Spec => []OpenPositionsShown
<1>1. Sound => OpenPositionsShown
  BY DEF Sound, PositionRows, OpenPositionsShown
<1> QED
  BY <1>1, AlwaysSound, PTL

\* What a step does to the ledger and to the session of one sync.
LEMMA StepEnds ==
    ASSUME Sound, [Next]_vars, NEW r \in Runs, run[r].pc # "idle", run'[r].pc = "idle",
           run'[r].status = "succeeded"
    PROVE  run[r].due \subseteq Posted'
<1>0. TypeOK
  BY DEF Sound
<1>1. \/ EachCommit(r)
      \/ Reading(r)
      \/ \E status \in {"partial", "failed", "running"} : Stop(r, status)
      \/ \E q \in Runs \ {r} : Reading(q) \/ EachCommit(q) \/ Crash(q)
                               \/ \E status \in {"partial", "failed"} : Stop(q, status)
      \/ \E q \in Runs, x \in Requests : Plan(q, x)
      \/ run' = run
  BY StepIs DEF Next, Tick, Crash, vars
<1>2. CASE EachCommit(r)
  <2>1. PICK t \in Session : /\ run' = [run EXCEPT ![r] = t]
                             /\ t.pc = "idle" /\ t.status = "succeeded" => ~run[r].warned
    BY <1>2, CommitGoes
  <2>2. run'[r] = t
    BY <1>0, <2>1 DEF TypeOK
  <2>3. Commits(r) /\ run[r].pc = "commit" /\ ~run[r].warned
    BY <1>2, <2>1, <2>2, CommitGoes DEF Commits, At
  <2>4. run[r].due \subseteq run[r].posts \cup Posted
    BY <2>3 DEF Sound, SessionSound, Answers
  <2> QED
    BY <1>0, <2>3, <2>4, CommitPosts
<1>3. CASE Reading(r)
  BY <1>0, <1>3 DEF Reading, Become, TypeOK
<1>4. ASSUME NEW status \in {"partial", "failed", "running"}, Stop(r, status)
      PROVE  FALSE
  <2>1. run'[r] = Idle(status)
    BY <1>0, <1>4 DEF Stop, Become, TypeOK
  <2>2. status \in Statuses
    BY Labels
  <2>3. run'[r].status = status
    BY <2>1, <2>2, IdleIs, Zenon
  <2> QED
    BY <2>3
<1>5. ASSUME NEW q \in Runs \ {r},
             \/ Reading(q) \/ EachCommit(q) \/ Crash(q)
             \/ \E status \in {"partial", "failed"} : Stop(q, status)
      PROVE  run'[r] = run[r]
  <2>1. \E t : run' = [run EXCEPT ![q] = t]
    <3>1. CASE EachCommit(q)
      BY <3>1, CommitGoes
    <3>2. CASE ~EachCommit(q)
      BY <1>5, <3>2 DEF Reading, Crash, Stop, Become
    <3> QED
      BY <3>1, <3>2
  <2> QED
    BY <1>0, <2>1 DEF TypeOK
<1>6. ASSUME NEW q \in Runs, NEW x \in Requests, Plan(q, x)
      PROVE  run'[r] = run[r]
  <2>1. /\ run[q].pc = "idle"
        /\ \E t : run' = [run EXCEPT ![q] = t]
    BY <1>6 DEF Plan, BinancePlan, HyperliquidPlan, BybitPlan, BitgetPlan, Begin, At
  <2> QED
    BY <1>0, <2>1 DEF TypeOK
<1> QED
  BY <1>1, <1>2, <1>3, <1>4, <1>5, <1>6

\* A sync that ends "succeeded" has everything in the ledger that was final in its
\* range when it read the history, whichever sync posted it.
THEOREM SuccessIsWhole == Spec => SucceededIsWhole
<1> DEFINE SucceedsWhole == \A r \in Runs : run[r].pc # "idle" /\ run'[r] = Idle("succeeded")
                                        => \A e \in run[r].due : posted'[e] > 0
<1>1. Sound /\ [Next]_vars => SucceedsWhole
  <2> SUFFICES ASSUME Sound, [Next]_vars, NEW r \in Runs, run[r].pc # "idle",
                      run'[r] = Idle("succeeded"), NEW e \in run[r].due
               PROVE  posted'[e] > 0
    OBVIOUS
  <2>1. run'[r].pc = "idle" /\ run'[r].status = "succeeded"
    BY IdleIs, Labels, Zenon
  <2>2. e \in Posted'
    BY <2>1, StepEnds
  <2> QED
    BY <2>2 DEF Posted
<1>2. Spec => [][SucceedsWhole]_vars
  BY <1>1, AlwaysSound, PTL DEF Spec
<1> QED
  BY <1>2 DEF SucceededIsWhole

\* The ledger only grows.
LEMMA PostedGrows ==
    ASSUME Sound, [Next]_vars
    PROVE  Posted \subseteq Posted'
<1>1. \/ posted' = posted
      \/ \E r \in Runs : EachCommit(r)
  BY StepIs, ZenonT(60) DEF Next, Tick, Plan, BinancePlan, HyperliquidPlan, BybitPlan, BitgetPlan, Begin,
                Reading, Become, Crash, Stop, vars, database
<1>2. CASE posted' = posted
  BY <1>2 DEF Posted
<1>3. ASSUME NEW r \in Runs, EachCommit(r)
      PROVE  Posted \subseteq Posted'
  BY <1>3, CommitGoes, CommitPosts DEF Sound
<1> QED
  BY <1>1, <1>2, <1>3

\* A connector with a cursor is a reader of the exchange's history: what it posts
\* stays posted, and what its cursor stands for has been posted.
THEOREM ConnectorsRead == Spec => ImplementsReader
<1>1. Init => Reader!Init
  <2> SUFFICES ASSUME Init
               PROVE  Reader!Init
    OBVIOUS
  <2>1. Posted = {}
    BY DEF Init, Posted
  <2>2. Promised(provider, cursor, since) = {}
    BY <2>1, InitIsSound DEF Sound, Promises
  <2> QED
    BY <2>1, <2>2 DEF Reader!Init
<1>2. Sound /\ Sound' /\ [Next]_vars => [Reader!Deliver]_<<Posted, <<provider, cursor, since>>>>
  <2> SUFFICES ASSUME Sound, Sound', [Next]_vars
               PROVE  Reader!Deliver
    OBVIOUS
  <2>1. Posted \subseteq Posted' /\ Posted' \subseteq Events
    BY PostedGrows DEF Posted
  <2>2. Promised(provider', cursor', since') \subseteq Posted'
    BY DEF Sound, Promises
  <2> QED
    BY <2>1, <2>2 DEF Reader!Deliver
<1> QED
  BY <1>1, <1>2, AlwaysSound, PTL DEF Spec, ImplementsReader, Reader!Spec

=============================================================================
