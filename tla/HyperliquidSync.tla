---------------------------- MODULE HyperliquidSync ----------------------------
(***************************************************************************)
(* HyperliquidSyncService (backend/app/connectors/perp_dex/hyperliquid):   *)
(* one account, one transaction, one cursor.  Snapshots carry the instant  *)
(* the sync began.  The history is paged through by time, and only what is *)
(* final is listed.                                                        *)
(***************************************************************************)
EXTENDS ExchangeHistory

HyperliquidStart(q) ==
    IF q.start # NoTime \/ cursor["spot"] = NoTime THEN Start(q)
    ELSE Later(Start(q), Minus(cursor["spot"], Overlap))

\* Mutant: dated like the snapshots of the other exchanges.
ObservedDaily == Midnight(now)

\* The instant of the sync itself.
Observed == now

\* Two syncs never begin in the same microsecond.
HyperliquidPlan(r, q) ==
    /\ provider = "hyperliquid"
    /\ <<"linear", now>> \notin days
    /\ \A x \in Runs : run[x].pc # "idle" => run[x].observed # now
    /\ Begin(r, q, Observed, HyperliquidStart(q),
             {"linear"} \cup (q.products \cap {"spot"}), "balances")

SpotBalances(s) ==
    LET held == Held[now]["spot"]
    IN Balances(s, "spot", held, Known("spot") \ (held \cup {"equity"}))

\* Positions and equity; the balances of the spot account when they are asked for.
HyperliquidState(r) ==
    LET s == run[r]
        perp == Balances(Positions(s, "spot", "linear", Open[now]["linear"]),
                         "spot", {"equity"}, {})
        public == [perp EXCEPT !.days = @ \cup ({<<"public", Midnight(s.observed)>>} \ days)]
    IN /\ provider = "hyperliquid" /\ At(r, "balances")
       /\ Become(r, [(IF "spot" \in s.todo THEN SpotBalances(public) ELSE public)
                       EXCEPT !.pc = "history"])

Earlier(d, e) == TimeOf(d) < TimeOf(e) \/ (TimeOf(d) = TimeOf(e) /\ d < e)

Earliest(n, events) ==
    {e \in events : Cardinality({d \in events : Earlier(d, e)}) < n}

\* The next page begins with the last instant that was read.
NextPage(got) == CHOOSE t \in {TimeOf(e) : e \in got} : \A e \in got : TimeOf(e) <= t

\* The items of the range, page after page, and whether some may be missing.
Pages(items, start, limit) ==
    LET Read[got \in SUBSET items] ==
          LET first == IF got = {} THEN start ELSE NextPage(got)
              page == Earliest(PageSize, {e \in items : TimeOf(e) >= first})
              all == got \cup page
          IN IF page = {} THEN [items |-> got, truncated |-> FALSE]
             ELSE IF Cardinality(all) >= limit
                  THEN [items |-> Earliest(limit, all), truncated |-> TRUE]
             ELSE IF Cardinality(page) < PageSize THEN [items |-> all, truncated |-> FALSE]
             ELSE IF all = got THEN [items |-> got, truncated |-> TRUE]
             ELSE Read[all]
    IN Read[{}]

HyperliquidListed(kind, start, end) ==
    UNION {{e \in Listed(p, kind, start..end) : IsFinal(e)} : p \in {"spot", "linear"}}

\* Updates of a type that is not known, or of nothing.
Unsupported(events) == {e \in events : History[e].kind = "transfer" /\ ~History[e].posts}

\* Fills, funding and other updates, posted when first seen.  An update that is
\* not supported is kept raw with a warning, a fill or a funding of nothing without.
HyperliquidHistory(r) ==
    LET s == run[r]
        answer == [k \in Kinds |->
                     Pages(HyperliquidListed(k, s.from, s.end), s.from, MaxRecords[k])]
        new == New(UNION {answer[k].items : k \in Kinds})
        complete == \A k \in Kinds : ~answer[k].truncated
        empty == {e \in new : ~History[e].posts}
    IN /\ provider = "hyperliquid" /\ At(r, "history")
       /\ Become(r, [Store(s, new, new) EXCEPT
            !.pc = "commit", !.ignored = empty, !.complete = complete,
            !.warned = ~complete \/ Unsupported(new) # {},
            !.due = Due({"spot", "linear"} \X Kinds, Symbols, s.from, s.end)])

HyperliquidCommit(r) ==
    LET s == run[r]
    IN /\ provider = "hyperliquid" /\ At(r, "commit") /\ ~Collides(s)
       /\ Save(s)
       /\ IF s.complete THEN Move("spot", s) ELSE Stay
       /\ run' = [run EXCEPT ![r] = Finished(s)]

HyperliquidFails(r) ==
    /\ provider = "hyperliquid"
    /\ \/ GivesUp(r, {"balances", "history"})
       \/ At(r, "commit") /\ Collides(run[r])
    /\ Stop(r, "failed")

HyperliquidStep(r) ==
    \/ HyperliquidState(r) \/ HyperliquidHistory(r)
    \/ HyperliquidCommit(r) \/ HyperliquidFails(r)
=============================================================================
