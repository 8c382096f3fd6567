------------------------------ MODULE ZerionSync ------------------------------
(***************************************************************************)
(* The Zerion shadow sync of one wallet (backend/app/connectors/zerion): a *)
(* run makes up to three requests - the newest transactions, the positions,*)
(* one older page of transactions - and stores what they return as raw     *)
(* events.  Each request is first reserved in the quota row of the UTC     *)
(* day, and what the answer's headers say of the quota is recorded there   *)
(* afterwards.  Runs are threads of one or of several worker processes.    *)
(***************************************************************************)
EXTENDS Integers, FiniteSets

CONSTANTS
    Runs,          \* runs in progress at the same time
    Workers,       \* the worker processes there may be
    Transactions,  \* the wallet's transactions, in the order they are listed
    Wallet,        \* the wallet's positions
    ListedAt,      \* when the API begins to list each transaction
    ChangesAt,     \* when the payload of a transaction or the wallet changes
    PageSize,      \* transactions on a page
    RunBudgets,    \* what max_requests_per_run may be
    DailyLimit, DailyBudget,  \* the settings' requests per day
    ServerLimits,  \* the requests per day that an answer's headers may name
    Gap, ServerGaps,          \* time between requests: by the settings, by headers
    Cooldown,      \* time between syncs
    Day,           \* instants in a UTC day
    MaxTime,       \* bound: the clock stops here
    MaxRuns,       \* bound: the runs that are begun
    None           \* no row, no URL, no header

Instants == 0..MaxTime
DayOf(t) == t \div Day
Days == {DayOf(t) : t \in Instants}
Versions == {1, 2}

ASSUME ConstantsAssumption ==
    /\ IsFiniteSet(Runs) /\ IsFiniteSet(Workers) /\ IsFiniteSet(Transactions)
    /\ Transactions \subseteq Nat \ {0}
    /\ Wallet \notin Transactions
    /\ ListedAt \in [Transactions -> Nat]
    /\ \A d, e \in Transactions : d < e => ListedAt[d] <= ListedAt[e]
    /\ ChangesAt \in [Transactions \cup {Wallet} -> Nat]
    /\ RunBudgets \subseteq 1..3
    /\ {PageSize, DailyLimit, DailyBudget, Gap, Cooldown, Day} \subseteq Nat \ {0}
    /\ {MaxTime, MaxRuns} \subseteq Nat
    /\ DailyBudget <= DailyLimit
    /\ ServerLimits \cup ServerGaps \subseteq Nat \ {0}
    /\ None \notin Int

VARIABLES
    workers,  \* the processes of this deployment
    now,      \* the clock
    source,   \* the AccountDataSource: enabled, budget of a run, next_sync_after
    quota,    \* the ProviderQuotaUsage of each day
    cursor,   \* the ProviderSyncCursor of the backfill
    raw,      \* the raw events
    begun,    \* how many runs have begun
    run,      \* the session of each run
    top,      \* history: the newest transaction the cursor stands for
    ended,    \* history: when a run that had made a request last ended
    slot,     \* history: the last slot that was reserved in each day's row
    sent      \* history: the requests made on each day's quota

history == <<top, ended, slot, sent>>
vars == <<workers, now, source, quota, cursor, raw, begun, run, history>>

Larger(a, b) == IF a > b THEN a ELSE b
Smaller(a, b) == IF a < b THEN a ELSE b

\* remaining and gap: what the last recorded headers say, 0 for no gap.
Usage == [count : Nat, limit : Nat, budget : Nat, next : Nat,
          remaining : Nat \cup {None}, gap : Nat]
NewUsage == [count |-> 0, limit |-> DailyLimit, budget |-> DailyBudget, next |-> 0,
             remaining |-> None, gap |-> 0]

\* A backfill page begins after the transaction "url".
Cursor == [url : Transactions \cup {None}, complete : BOOLEAN]

ASSUME RowAssumption == None \notin Usage \cup Cursor

\* A revision's identity holds its payload's hash, as that of positions does.
Row == [item : Transactions \cup {Wallet}, version : Versions, revision : BOOLEAN]

PCs == {"idle", "reserve", "send", "record", "write", "page", "store", "save", "finish"}
Wants == {"recent", "positions", "older"}
Statuses == {"none", "running", "succeeded", "partial", "failed"}
Session == [pc : PCs, status : Statuses, worker : Workers \cup {None}, budget : 1..3, used : 0..3,
            want : Wants, asked : Instants, wake : Nat, day : Days, pages : 0..3,
            cursor : Cursor \cup {None}, top : Nat, url : Transactions \cup {None},
            complete : BOOLEAN, warned : BOOLEAN,
            ok : BOOLEAN, page : SUBSET ((Transactions \cup {Wallet}) \X Versions),
            remaining : Nat \cup {None}, limit : Nat \cup {None}, gap : Nat,
            usage : Usage \cup {None}, rows : SUBSET Row]

Idle(status) ==
    [pc |-> "idle", status |-> status, worker |-> None, budget |-> 1, used |-> 0,
     want |-> "recent", asked |-> 0, wake |-> 0, day |-> 0, pages |-> 0,
     cursor |-> None, top |-> 0, url |-> None, complete |-> FALSE, warned |-> FALSE,
     ok |-> TRUE, page |-> {}, remaining |-> None, limit |-> None, gap |-> 0,
     usage |-> None, rows |-> {}]

At(r, pc) == run[r].pc = pc
Become(r, session) == run' = [run EXCEPT ![r] = session]

-----------------------------------------------------------------------------
(* The service's sync. *)

\* The operator creates the source or switches it; its limits are the settings'.
Configure ==
    /\ source' = [source EXCEPT !.enabled = ~@]
    /\ UNCHANGED <<workers, now, quota, cursor, raw, begun, run, history>>

\* A sync is refused while the source is disabled or cooling down.
Begin(r, w) ==
    /\ At(r, "idle") /\ begun < MaxRuns
    /\ source.enabled /\ source.next <= now
    /\ begun' = begun + 1
    /\ Become(r, [Idle("running") EXCEPT
                    !.pc = "reserve", !.worker = w, !.budget = source.budget,
                    !.asked = now, !.cursor = cursor])
    /\ UNCHANGED <<workers, now, source, quota, cursor, raw, history>>

\* Mutant: a run that failed may be tried again at once.
CooledWhenDone(s, status) ==
    IF s.used > 0 /\ status # "failed" THEN now + Cooldown ELSE source.next

\* Mutant: the cooldown is taken off.
CooledBackwards(s, status) == IF s.used > 0 THEN now - Cooldown ELSE source.next

\* A run that has made a request delays the next one, however it ended.
Cooled(s, status) == IF s.used > 0 THEN now + Cooldown ELSE source.next

\* The run's row gets its last status, after a rollback of what is not committed.
End(r, status) ==
    /\ source' = [source EXCEPT !.next = Cooled(run[r], status)]
    /\ ended' = IF run[r].used > 0 THEN now ELSE ended
    /\ Become(r, Idle(status))

\* After an exception that says why Zerion has no more for this run.
Partly(s) == IF s.pages > 0 THEN "partial" ELSE "failed"

-----------------------------------------------------------------------------
(* The governor.  The lock of a process is held while a reservation is made *)
(* and while headers are recorded; a reservation also waits for those of    *)
(* other processes, a recording does not.                                   *)

Locked(w) == \E r \in Runs : At(r, "write") /\ run[r].worker = w

UsageOf(day) == IF quota[day] = None THEN NewUsage ELSE quota[day]

Spent(u) == u.count >= Smaller(u.budget, DailyBudget)

\* The part of the provider's own limit that is left for others.
Kept(u) == Larger(0, u.limit - u.budget)

ReserveReached(u) == u.remaining # None /\ u.remaining <= Kept(u)

Reserve(r) ==
    LET s == run[r]
        day == DayOf(s.asked)
        u == UsageOf(day)
        next == Larger(s.asked, u.next)
    IN /\ At(r, "reserve") /\ ~Locked(s.worker)
       /\ ~ReserveReached(u) /\ ~Spent(u)
       /\ quota' = [quota EXCEPT ![day] =
            [u EXCEPT !.count = @ + 1, !.next = next + Larger(Gap, u.gap)]]
       /\ slot' = [slot EXCEPT ![day] = next]
       /\ Become(r, [s EXCEPT !.pc = "send", !.used = @ + 1, !.asked = 0, !.day = day,
                              !.wake = now + (next - s.asked)])
       /\ UNCHANGED <<workers, now, source, cursor, raw, begun, top, ended, sent>>

\* The budget of the day is used up.
Refuse(r) ==
    LET u == UsageOf(DayOf(run[r].asked))
    IN /\ At(r, "reserve") /\ ~Locked(run[r].worker)
       /\ ReserveReached(u) \/ Spent(u)
       /\ End(r, Partly(run[r]))
       /\ UNCHANGED <<workers, now, quota, cursor, raw, begun, top, slot, sent>>

-----------------------------------------------------------------------------
(* The API. *)

VersionAt(item, t) == IF t < ChangesAt[item] THEN 1 ELSE 2

\* The newest transactions, or the newest of those older than "url".
Page(url) ==
    LET older == {e \in Transactions : ListedAt[e] <= now /\ (url = None \/ e < url)}
    IN {e \in older : Cardinality({d \in older : d > e}) < PageSize}

Oldest(page) == CHOOSE e \in page : \A d \in page : e <= d
Newest(page) == CHOOSE e \in page : \A d \in page : d <= e

\* The link to the page after this one, if there is one.
Link(page) ==
    IF \E e \in Transactions : page # {} /\ \A d \in page : e < d
    THEN Oldest(page) ELSE None

\* Where the backfill goes on: at the cursor, else behind the newest page.
Candidate(s) ==
    IF s.cursor = None THEN s.url
    ELSE IF s.cursor.complete THEN None
    ELSE IF s.cursor.url # None THEN s.cursor.url ELSE s.url

\* What an answer with a page holds.
Read(s) ==
    LET Versioned(items) == {<<e, VersionAt(e, now)>> : e \in items}
        recent == Page(None)
        older == Page(Candidate(s))
    IN CASE s.want = "recent" ->
              [s EXCEPT !.page = Versioned(recent), !.url = Link(recent),
                        !.top = IF recent = {} THEN 0 ELSE Newest(recent)]
         [] s.want = "positions" -> [s EXCEPT !.page = Versioned({Wallet})]
         [] s.want = "older" ->
              [s EXCEPT !.page = Versioned(older), !.url = Link(older),
                        !.complete = Link(older) = None]

Made(s) == [sent EXCEPT ![s.day] = @ + 1]

\* The request gets no answer.
Lose(r) ==
    /\ At(r, "send") /\ run[r].wake <= now
    /\ End(r, Partly(run[r]))
    /\ sent' = Made(run[r])
    /\ UNCHANGED <<workers, now, quota, cursor, raw, begun, top, slot>>

\* An answer with headers that say what the API's limit for the day is, how much
\* of it is left, and the gap it wants.
Answer(r, ok, limit, remaining, gap) ==
    LET s == run[r]
        heard == [IF ok THEN Read(s) ELSE s EXCEPT !.wake = 0, !.day = 0]
    IN /\ At(r, "send") /\ s.wake <= now
       /\ Become(r, [heard EXCEPT !.pc = "record", !.ok = ok, !.asked = now,
                                  !.limit = limit, !.remaining = remaining, !.gap = gap])
       /\ sent' = Made(s)
       /\ UNCHANGED <<workers, now, source, quota, cursor, raw, begun, top, ended, slot>>

\* A page without such headers.
AnswerOnly(r) ==
    LET s == run[r]
    IN /\ At(r, "send") /\ s.wake <= now
       /\ Become(r, [Read(s) EXCEPT !.pc = "page", !.wake = 0, !.day = 0])
       /\ sent' = Made(s)
       /\ UNCHANGED <<workers, now, source, quota, cursor, raw, begun, top, ended, slot>>

-----------------------------------------------------------------------------
(* The headers are recorded. *)

\* Mutant: what was read does not count.
NextAfterAlone(read, safe) == safe

\* The next slot may only be moved back.
NextAfter(read, safe) == Larger(read, safe)

Tightened(limit) == Larger(1, (limit * 9) \div 10)

RecordRead(r) ==
    LET s == run[r]
    IN /\ At(r, "record") /\ ~Locked(s.worker)
       /\ Become(r, [s EXCEPT !.pc = "write", !.usage = quota[DayOf(s.asked)]])
       /\ UNCHANGED <<workers, now, source, quota, cursor, raw, begun, history>>

\* Mutant: the whole row is written as it was read.
RecordedWhole(u, s) ==
    [s.usage EXCEPT !.remaining = s.remaining, !.gap = s.gap,
                    !.next = NextAfter(@, s.asked + s.gap)]

\* Only the columns that differ from what was read are written.
Recorded(u, s) ==
    LET read == s.usage
        next == NextAfter(read.next, s.asked + s.gap)
    IN [u EXCEPT
         !.remaining = s.remaining, !.gap = s.gap,
         !.next = IF next # read.next THEN next ELSE @,
         !.limit = IF s.limit < read.limit THEN s.limit ELSE @,
         !.budget = IF Tightened(s.limit) < read.budget THEN Tightened(s.limit) ELSE @]

\* HTTP 429 and other refusals end the run, there is no retry.
RecordWrite(r) ==
    LET s == run[r]
        day == DayOf(s.asked)
    IN /\ At(r, "write")
       /\ quota' = IF s.usage = None THEN quota
                   ELSE [quota EXCEPT ![day] = Recorded(quota[day], s)]
       /\ IF s.ok
          THEN /\ Become(r, [s EXCEPT !.pc = "page", !.usage = None, !.asked = 0,
                               !.limit = None, !.remaining = None, !.gap = 0])
               /\ UNCHANGED <<source, ended>>
          ELSE End(r, Partly(s))
       /\ UNCHANGED <<workers, now, cursor, raw, begun, top, slot, sent>>

-----------------------------------------------------------------------------
(* The pages are stored. *)

Base(item) == {x \in raw : x.item = item /\ ~x.revision}

\* Mutant: whatever is stored, the payload's revision is stored beside it.
NewRowTwice(item, version) ==
    IF Base(item) = {} THEN {[item |-> item, version |-> version, revision |-> item = Wallet]}
    ELSE {[item |-> item, version |-> version, revision |-> TRUE]} \ raw

\* A payload that is stored is not stored again; one that differs from the first
\* of its transaction is stored beside it.
NewRow(item, version) ==
    IF \E x \in raw : x.item = item /\ x.version = version THEN {}
    ELSE {[item |-> item, version |-> version, revision |-> item = Wallet \/ Base(item) # {}]}

Look(r) ==
    LET s == run[r]
    IN /\ At(r, "page")
       /\ Become(r, [s EXCEPT !.pc = "store", !.pages = @ + 1,
                              !.rows = UNION {NewRow(p[1], p[2]) : p \in s.page}])
       /\ UNCHANGED <<workers, now, source, quota, cursor, raw, begun, history>>

\* The unique index on the identity of a raw event.
Collides(rows) ==
    \E x \in rows, y \in raw : /\ x.item = y.item /\ x.revision = y.revision
                               /\ x.revision => x.version = y.version

\* What the collector does after a page.
Ask(s, want) == [s EXCEPT !.pc = "reserve", !.want = want, !.asked = now]

\* Mutant: what the budget does not allow counts as done.
BackfillGivesUp(s) ==
    LET candidate == Candidate(s)
    IN IF candidate # None /\ s.used < s.budget THEN Ask(s, "older")
       ELSE [s EXCEPT !.pc = "save", !.url = candidate, !.complete = TRUE,
                      !.warned = @ \/ candidate # None]

\* The older page is asked for if there is one and the run's budget allows it.
Backfill(s) ==
    LET candidate == Candidate(s)
    IN IF candidate # None /\ s.used < s.budget THEN Ask(s, "older")
       ELSE [s EXCEPT !.pc = "save", !.url = candidate, !.complete = candidate = None,
                      !.warned = @ \/ candidate # None]

After(s) ==
    CASE s.want = "recent" /\ s.used < s.budget -> Ask(s, "positions")
      [] s.want = "recent" /\ s.used >= s.budget -> Backfill([s EXCEPT !.warned = TRUE])
      [] s.want = "positions" -> Backfill(s)
      [] s.want = "older" -> [s EXCEPT !.pc = "save"]

\* more: the positions do not fit their page.
Store(r, more) ==
    LET s == run[r]
        stored == [s EXCEPT !.page = {}, !.rows = {},
                            !.warned = @ \/ (s.want = "positions" /\ more)]
    IN /\ At(r, "store") /\ ~Collides(s.rows)
       /\ raw' = raw \cup s.rows
       /\ Become(r, After(stored))
       /\ UNCHANGED <<workers, now, source, quota, cursor, begun, history>>

\* An insert collides, or anything else goes wrong with the database.
Fail(r) ==
    /\ run[r].pc \in {"store", "save"}
    /\ End(r, "failed")
    /\ UNCHANGED <<workers, now, quota, cursor, raw, begun, top, slot, sent>>

\* The row is the one that was read, if there was one: only the columns that
\* differ from it are written.
Saved(s) ==
    IF s.cursor = None \/ cursor = None THEN [url |-> s.url, complete |-> s.complete]
    ELSE [url |-> IF s.url # s.cursor.url THEN s.url ELSE cursor.url,
          complete |-> IF s.complete # s.cursor.complete THEN s.complete ELSE cursor.complete]

Save(r) ==
    LET s == run[r]
    IN /\ At(r, "save")
       /\ cursor' = Saved(s)
       /\ top' = IF cursor = None THEN s.top
                 ELSE IF s.cursor = None THEN Smaller(top, s.top) ELSE top
       /\ Become(r, [s EXCEPT !.pc = "finish",
                              !.status = IF s.warned THEN "partial" ELSE "succeeded"])
       /\ UNCHANGED <<workers, now, source, quota, raw, begun, ended, slot, sent>>

Finish(r) ==
    /\ At(r, "finish")
    /\ End(r, run[r].status)
    /\ UNCHANGED <<workers, now, quota, cursor, raw, begun, top, slot, sent>>

\* The process dies: the run's row stays as it is.
Crash(r) ==
    /\ ~At(r, "idle")
    /\ Become(r, Idle("running"))
    /\ UNCHANGED <<workers, now, source, quota, cursor, raw, begun, history>>

Tick ==
    /\ now < MaxTime
    /\ now' = now + 1
    /\ UNCHANGED <<workers, source, quota, cursor, raw, begun, run, history>>

Init ==
    /\ workers \in {w \in SUBSET Workers : w # {}}
    /\ now = 0
    /\ source \in [enabled : {FALSE}, budget : RunBudgets, next : {0}]
    /\ quota = [d \in Days |-> None]
    /\ cursor = None
    /\ raw = {}
    /\ begun = 0
    /\ run = [r \in Runs |-> Idle("none")]
    /\ top = 0
    /\ ended = None
    /\ slot = [d \in Days |-> 0]
    /\ sent = [d \in Days |-> 0]

Request(r) ==
    \/ Reserve(r) \/ Refuse(r) \/ Lose(r) \/ AnswerOnly(r)
    \/ \E ok \in BOOLEAN, limit \in ServerLimits, gap \in ServerGaps :
         \E remaining \in {0, limit} : Answer(r, ok, limit, remaining, gap)
    \/ RecordRead(r) \/ RecordWrite(r)

Next ==
    \/ Tick
    \/ Configure
    \/ \E r \in Runs, w \in workers : Begin(r, w)
    \/ \E r \in Runs : Request(r)
    \/ \E r \in Runs : Look(r) \/ (\E more \in BOOLEAN : Store(r, more))
    \/ \E r \in Runs : Fail(r) \/ Save(r) \/ Finish(r) \/ Crash(r)

Spec == Init /\ [][Next]_vars

-----------------------------------------------------------------------------
TypeOK ==
    /\ workers \in SUBSET Workers
    /\ now \in Instants
    /\ source \in [enabled : BOOLEAN, budget : 1..3, next : Nat]
    /\ quota \in [Days -> Usage \cup {None}]
    /\ cursor \in Cursor \cup {None}
    /\ raw \subseteq Row
    /\ begun \in 0..MaxRuns
    /\ run \in [Runs -> Session]
    /\ top \in Nat
    /\ ended \in Instants \cup {None}
    /\ slot \in [Days -> Nat]
    /\ sent \in [Days -> Nat]

\* The requests made on a day's quota stay within the daily budget, whichever
\* processes make them and wherever they die.
WithinBudget == \A d \in Days : sent[d] <= DailyBudget

\* In one process the slots of a day are apart by the gap of the settings, even
\* while answers are recorded between the reservations.
SlotsSpaced ==
    [][\A d \in Days :
         Cardinality(workers) = 1 /\ quota[d] # None /\ quota'[d].count > quota[d].count
           => slot'[d] >= slot[d] + Gap]_vars

\* A payload is stored once: a revision never repeats what is stored, be it by
\* an earlier run or by one in progress.
StoredOnce == \A x, y \in raw : x.item = y.item /\ x.version = y.version => x = y

\* A sync begins a cooldown after the end of the last one that made a request,
\* however that one ended.
CoolsDown ==
    [][begun' > begun /\ ended # None => now >= ended + Cooldown]_vars

\* The transactions the cursor stands for: those listed when its first page was
\* read, down to where the backfill goes on.
Promised(c, newest) ==
    IF c = None THEN {}
    ELSE {e \in Transactions : e <= newest /\ (c.complete \/ (c.url # None /\ c.url <= e))}

\* The backfill is a reader of the wallet's history: what the cursor has passed
\* is stored, and stays so.
Reader == INSTANCE HistoryReader WITH
    Items <- Transactions,
    Promises <- LAMBDA m : Promised(m[1], m[2]),
    delivered <- {x.item : x \in raw} \cap Transactions,
    mark <- <<cursor, top>>

ImplementsReader == Reader!Spec
=============================================================================
