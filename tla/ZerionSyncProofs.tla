--------------------------- MODULE ZerionSyncProofs ---------------------------
(***************************************************************************)
(* What Zerion shadow syncs keep, for any number of runs and workers, any  *)
(* list of transactions and any clock: the types, the request budget, the  *)
(* cooldown, the spacing of request slots, the payloads stored once, and   *)
(* that the backfill reads a history as HistoryReader promises.            *)
(***************************************************************************)
EXTENDS ZerionSync, FiniteLemmas

-----------------------------------------------------------------------------
(* The inductive invariants. *)

\* What is left of a run's budget, and what its answers may hold, at each stage.
Stage(s) ==
    /\ s.used <= s.budget
    /\ s.pc = "reserve" => s.used < s.budget /\ s.pages <= s.used
    /\ s.pc \in {"send", "record", "write", "page"} => s.pages < s.used
    /\ s.pc = "store" => s.pages <= s.used
    /\ s.pc \in {"record", "write"} => s.limit # None

\* The row that was read is not removed.
Recording(s) == s.pc = "write" /\ s.usage # None => quota[DayOf(s.asked)] # None

\* The types, and the stage of every session.
Typed == TypeOK /\ \A r \in Runs : Stage(run[r]) /\ Recording(run[r])

\* The requests of a day that are reserved and not yet made.
Waiting(d) == {r \in Runs : At(r, "send") /\ run[r].day = d}

\* Every request made or waiting was counted, and no more is counted than the budget.
CountOf(row) == IF row = None THEN 0 ELSE row.count
\* A day's row counts every request made for that day, and of those still to be
\* answered no more than it counts.
Counted ==
    \A d \in Days :
        /\ sent[d] + Cardinality(Waiting(d)) <= CountOf(quota[d])
        /\ CountOf(quota[d]) <= DailyBudget

\* The end of the last run that made a request is in the cooldown.
Cooling == ended # None => source.next >= ended + Cooldown

\* In one process a single run records headers at a time, nobody writes the row
\* it has read, and the row's next slot is a gap away.
OneWriter ==
    Cardinality(workers) = 1 =>
        /\ \A r \in Runs : ~At(r, "idle") => run[r].worker \in workers
        /\ \A r, q \in Runs : At(r, "write") /\ At(q, "write") => r = q
        /\ \A r \in Runs : At(r, "write") => run[r].usage = quota[DayOf(run[r].asked)]
        /\ \A d \in Days : quota[d] # None => quota[d].next >= slot[d] + Gap

\* The payload of an item is stored, with no version to its name.
HasBase(item) == \E y \in raw : y.item = item /\ ~y.revision

\* A run in progress holds rows of different items; those that are revisions have
\* a base already, one that is not of the same version.
Apart(s) ==
    /\ \A p, q \in s.page : p[1] = q[1] => p = q
    /\ \A x, y \in s.rows : x.item = y.item => x = y
    /\ \A x \in s.rows :
         /\ x.item = Wallet => x.revision
         /\ x.revision /\ x.item # Wallet =>
              \E y \in raw : y.item = x.item /\ ~y.revision /\ y.version # x.version

\* What is stored has one base for each transaction and none for the positions;
\* a revision of a transaction has a base.
RowsApart ==
    /\ StoredOnce
    /\ \A x, y \in raw : x.item = y.item /\ ~x.revision /\ ~y.revision => x = y
    /\ \A x \in raw : x.item = Wallet => x.revision
    /\ \A x \in raw : x.revision /\ x.item # Wallet => HasBase(x.item)
    /\ \A r \in Runs : Apart(run[r])

\* What a run knows once it has read its page, and where it would go on.
Stored == {x.item : x \in raw} \cap Transactions
\* The block of e is old enough for Zerion to list it.
Listed(e) == ListedAt[e] <= now
\* The page in hand is the one the session wants.
HasRead(s) ==
    s.pc \in {"page", "store", "save"} \/ (s.pc \in {"record", "write"} /\ s.ok)
\* The session has read the newest page.
KnowsTop(s) == s.want # "recent" \/ HasRead(s)
\* What the session or the tables hold.
Holds(s) == Stored \cup {p[1] : p \in s.page}
\* The number below which the session reads on.
Below(s) == IF s.cursor = None THEN s.top ELSE top
\* How far a session has read, as the cursor says it.
Position(s) == [url |-> s.url, complete |-> s.complete]

\* The cursor a run has read is still kept, for a history that ends no later.
BeganWell(s) ==
    s.cursor # None =>
      /\ cursor # None
      /\ Promised(s.cursor, top) \subseteq Stored
      /\ s.cursor.url # None => Listed(s.cursor.url)

\* A page is held between its answer and its storing.
PageIsHeld(s) ==
    /\ s.pc = "save" \/ ~HasRead(s) => s.page = {}
    /\ s.pc = "store" => \A p \in s.page : p[1] \in Stored \cup {x.item : x \in s.rows} \cup {Wallet}

\* The newest transaction of the run's first page is no older than the cursor's.
TopIsRead(s) ==
    /\ \A e \in Transactions : e <= s.top => Listed(e)
    /\ s.cursor # None => \A e \in Transactions : e <= top => e <= s.top

\* Where a run goes on after its older page stands for what it holds then; before
\* that it holds what is not older than the link behind its first page.
ReadSoFar(s) ==
    IF s.pc = "save" \/ (s.want = "older" /\ HasRead(s))
    THEN Promised(Position(s), Below(s)) \subseteq Holds(s)
    ELSE \A e \in Transactions :
           e <= s.top /\ (s.url = None \/ s.url <= e) => e \in Holds(s)

\* What is true of a session that reads, in four parts.
Reading(s) ==
    /\ BeganWell(s)
    /\ s.url # None => Listed(s.url)
    /\ PageIsHeld(s)
    /\ KnowsTop(s) => TopIsRead(s) /\ ReadSoFar(s)
    /\ s.want = "older" /\ ~HasRead(s) => Candidate(s) # None

\* Whatever the stored cursor promises is stored, and every session reads on.
Reads ==
    /\ Promised(cursor, top) \subseteq Stored
    /\ \A e \in Transactions : e <= top => Listed(e)
    /\ cursor # None /\ cursor.url # None => Listed(cursor.url)
    /\ \A r \in Runs : run[r].pc \notin {"idle", "finish"} => Reading(run[r])

-----------------------------------------------------------------------------
(* Type correctness. *)

LEMMA Sizes ==
    /\ {PageSize, DailyLimit, DailyBudget, Gap, Cooldown, Day} \subseteq Nat \ {0}
    /\ MaxTime \in Nat /\ MaxRuns \in Nat
    /\ ServerLimits \subseteq Nat \ {0} /\ ServerGaps \subseteq Nat \ {0}
    /\ None \notin Int
  BY ConstantsAssumption

\* The labels of a session and the outcomes of a run are what they say.
LEMMA Labels ==
    /\ "idle" \in PCs /\ "reserve" \in PCs /\ "send" \in PCs /\ "record" \in PCs
    /\ "write" \in PCs /\ "page" \in PCs /\ "store" \in PCs /\ "save" \in PCs
    /\ "finish" \in PCs
    /\ "recent" \in Wants /\ "positions" \in Wants /\ "older" \in Wants
    /\ "none" \in Statuses /\ "running" \in Statuses /\ "succeeded" \in Statuses
    /\ "partial" \in Statuses /\ "failed" \in Statuses
  BY DEF PCs, Wants, Statuses

\* Sessions, with names for the sets of sets in them.
Pages == SUBSET ((Transactions \cup {Wallet}) \X Versions)
\* Sets of rows.
RowSets == SUBSET Row

\* The sessions, with sets of pages and of rows that have a name.
LEMMA SessionIs ==
    Session =
      [pc : PCs, status : Statuses, worker : Workers \cup {None}, budget : 1..3, used : 0..3,
       want : Wants, asked : Instants, wake : Nat, day : Days, pages : 0..3,
       cursor : Cursor \cup {None}, top : Nat, url : Transactions \cup {None},
       complete : BOOLEAN, warned : BOOLEAN, ok : BOOLEAN, page : Pages,
       remaining : Nat \cup {None}, limit : Nat \cup {None}, gap : Nat,
       usage : Usage \cup {None}, rows : RowSets]
  BY DEF Session, Pages, RowSets

\* Every instant lies on a day of the model.
LEMMA DayType ==
    ASSUME NEW t \in Instants
    PROVE  DayOf(t) \in Days
  BY DEF Days

\* The first instant and its day.
LEMMA FirstDay == 0 \in Instants /\ 0 \in Days
<1>1. 0 \in Instants
  BY Sizes DEF Instants
<1>2. DayOf(0) = 0
  BY Sizes DEF DayOf
<1> QED
  BY <1>1, <1>2, DayType

\* A session that is over has nothing in hand.
LEMMA IdleType ==
    ASSUME NEW status \in Statuses
    PROVE  /\ Idle(status) \in Session
           /\ Idle(status).pc = "idle" /\ Idle(status).status = status
           /\ Idle(status).page = {} /\ Idle(status).rows = {}
           /\ Idle(status).want = "recent" /\ Idle(status).url = None
           /\ Idle(status).used = 0 /\ Idle(status).pages = 0
  BY FirstDay DEF Idle, Session, PCs, Wants

\* A session that is over is at no stage.
LEMMA IdleStage ==
    ASSUME NEW status \in Statuses
    PROVE  Stage(Idle(status)) /\ Recording(Idle(status))'
  BY DEF Idle, Stage, Recording

\* The rows of the quota are never removed.
RowsStay == \A d \in Days : quota[d] # None => quota'[d] # None

\* What a run has read and where it goes on are the same in two sessions.
Alike(t, s) ==
    /\ t.worker = s.worker /\ t.cursor = s.cursor /\ t.want = s.want
    /\ t.page = s.page /\ t.rows = s.rows
    /\ t.url = s.url /\ t.complete = s.complete /\ t.top = s.top

\* Everything but the sessions has its type after a step.
RestTyped ==
    /\ workers' \in SUBSET Workers
    /\ now' \in Instants
    /\ source' \in [enabled : BOOLEAN, budget : 1..3, next : Nat]
    /\ quota' \in [Days -> Usage \cup {None}]
    /\ cursor' \in Cursor \cup {None}
    /\ raw' \subseteq Row
    /\ begun' \in 0..MaxRuns
    /\ top' \in Nat
    /\ ended' \in Instants \cup {None}
    /\ slot' \in [Days -> Nat]
    /\ sent' \in [Days -> Nat]

\* A run's step: the others keep their stage.
LEMMA StepType ==
    ASSUME Typed, NEW r \in Runs, NEW s \in Session, Become(r, s), RowsStay,
           Stage(s), Recording(s)', RestTyped
    PROVE  Typed'
<1>1. run' \in [Runs -> Session] /\ \A q \in Runs : run'[q] = IF q = r THEN s ELSE run[q]
  BY DEF Typed, TypeOK, Become
<1>2. TypeOK'
  BY <1>1 DEF TypeOK, RestTyped
<1>3. ASSUME NEW q \in Runs
      PROVE  Stage(run'[q]) /\ Recording(run[q])'
  <2>1. CASE q = r
    BY <1>1, <2>1 DEF Recording
  <2>2. CASE q # r
    <3>1. /\ run'[q] = run[q] /\ run[q].asked \in Instants
          /\ Stage(run[q]) /\ Recording(run[q])
      BY <1>1, <2>2 DEF Typed, TypeOK, Session
    <3>2. DayOf(run[q].asked) \in Days
      BY <3>1, DayType
    <3> QED
      BY <3>1, <3>2 DEF Recording, RowsStay
  <2> QED
    BY <2>1, <2>2
<1> QED
  BY <1>2, <1>3 DEF Typed

\* The steps of the service before and between the requests.
LEMMA BeginType ==
    ASSUME Typed, NEW r \in Runs, NEW w \in workers, Begin(r, w)
    PROVE  /\ Typed'
           /\ \E t \in Session :
                /\ Become(r, t) /\ t.pc = "reserve" /\ t.worker = w /\ t.cursor = cursor
                /\ t.want = "recent" /\ t.page = {} /\ t.rows = {} /\ t.url = None
<1> DEFINE i == Idle("running")
<1>0. i \in Session
  BY IdleType, Labels
<1>1. /\ i.used = 0 /\ i.pages = 0
      /\ i.want = "recent" /\ i.page = {} /\ i.rows = {} /\ i.url = None
  BY IdleType, Labels
<1>2. /\ w \in Workers \cup {None} /\ source.budget \in 1..3
      /\ now \in Instants /\ cursor \in Cursor \cup {None}
  BY DEF Typed, TypeOK
<1> HIDE DEF i
<1>3. PICK t : t = [i EXCEPT !.pc = "reserve", !.worker = w, !.budget = source.budget,
                             !.asked = now, !.cursor = cursor]
  OBVIOUS
<1>4. /\ t.pc = "reserve" /\ t.used = 0 /\ t.budget = source.budget /\ t.pages = 0
      /\ t.worker = w /\ t.cursor = cursor /\ t.want = "recent" /\ t.page = {} /\ t.rows = {}
      /\ t.url = None
  BY <1>0, <1>1, <1>3, SessionIs, Zenon
<1>5. t \in Session
  BY <1>0, <1>2, <1>3, Labels, SessionIs, ZenonT(60)
<1>6. Stage(t) /\ Recording(t)'
  BY <1>2, <1>4 DEF Stage, Recording
<1>7. RestTyped
  <2>1. begun' \in 0..MaxRuns
    BY Sizes DEF Begin, Typed, TypeOK
  <2> QED
    BY <2>1 DEF RestTyped, Begin, Typed, TypeOK, history
<1>8. RowsStay /\ Become(r, t)
  BY <1>3 DEF RowsStay, Begin, i
<1> QED
  BY <1>4, <1>5, <1>6, <1>7, <1>8, StepType

\* _quota finds a row or starts an empty one.
LEMMA UsageType ==
    ASSUME Typed, NEW d \in Days
    PROVE  UsageOf(d) \in Usage
<1>1. NewUsage \in Usage
  BY Sizes DEF NewUsage, Usage
<1> QED
  BY <1>1 DEF UsageOf, Typed, TypeOK

\* A run that ends takes the cooldown with it.
LEMMA EndType ==
    ASSUME Typed, NEW r \in Runs, NEW status \in Statuses, End(r, status),
           UNCHANGED <<workers, now, cursor, raw, begun, top, slot>>,
           quota' \in [Days -> Usage \cup {None}], RowsStay, sent' \in [Days -> Nat]
    PROVE  /\ Typed'
           /\ \E t \in Session : Become(r, t) /\ t.pc = "idle" /\ t.page = {} /\ t.rows = {}
<1>1. /\ now \in Nat /\ now \in Instants
      /\ run[r].used \in Nat
      /\ source \in [enabled : BOOLEAN, budget : 1..3, next : Nat]
      /\ ended \in Instants \cup {None}
  BY DEF Typed, TypeOK, Session, Instants
<1>2. Cooled(run[r], status) \in Nat
  BY <1>1, Sizes DEF Cooled
<1>3. /\ source' \in [enabled : BOOLEAN, budget : 1..3, next : Nat]
      /\ ended' \in Instants \cup {None}
      /\ Become(r, Idle(status))
  BY <1>1, <1>2 DEF End
<1>4. /\ Idle(status) \in Session /\ Idle(status).pc = "idle"
      /\ Idle(status).page = {} /\ Idle(status).rows = {}
      /\ Stage(Idle(status)) /\ Recording(Idle(status))'
  BY IdleType, IdleStage
<1>5. RestTyped
  BY <1>3 DEF RestTyped, Typed, TypeOK
<1> QED
  BY <1>3, <1>4, <1>5, StepType

\* reserve_request counts the request before it is sent, in the row of the day it
\* read from its clock.
LEMMA ReserveType ==
    ASSUME Typed, NEW r \in Runs, Reserve(r)
    PROVE  /\ Typed'
           /\ \E t \in Session :
                /\ Become(r, t) /\ Alike(t, run[r])
                /\ t.pc = "send" /\ t.day = DayOf(run[r].asked)
           /\ \E row \in Usage :
                /\ quota' = [quota EXCEPT ![DayOf(run[r].asked)] = row]
                /\ row.count = UsageOf(DayOf(run[r].asked)).count + 1
                /\ row.next >= slot'[DayOf(run[r].asked)] + Gap
<1> DEFINE s == run[r]
           day == DayOf(s.asked)
           u == UsageOf(day)
           next == Larger(s.asked, u.next)
           row == [u EXCEPT !.count = @ + 1, !.next = next + Larger(Gap, u.gap)]
<1>1. /\ s \in Session /\ Stage(s) /\ s.pc = "reserve" /\ now \in Instants
      /\ s.asked \in Instants /\ s.used \in 0..3 /\ s.budget \in 1..3 /\ s.pages \in 0..3
  BY DEF Typed, TypeOK, Reserve, At, Session
<1>2. day \in Days /\ u \in Usage
  BY <1>1, DayType, UsageType
<1>3. /\ quota' = [quota EXCEPT ![day] = row]
      /\ slot' = [slot EXCEPT ![day] = next]
  BY DEF Reserve
<1>4. PICK t : t = [s EXCEPT !.pc = "send", !.used = @ + 1, !.asked = 0, !.day = day,
                             !.wake = now + (next - s.asked)]
  OBVIOUS
<1>5. Become(r, t)
  BY <1>4 DEF Reserve
<1> HIDE DEF u, day, s
<1>6. next \in Nat /\ next >= s.asked /\ s.asked \in Nat /\ u.gap \in Nat /\ u.count \in Nat
  BY <1>1, <1>2 DEF Instants, Usage, Larger
<1> HIDE DEF next
<1>7. now + (next - s.asked) \in Nat
  BY <1>1, <1>6 DEF Instants
<1>8. s.used < s.budget /\ s.pages <= s.used /\ s.used + 1 \in 0..3
  BY <1>1 DEF Stage
<1>9. /\ t.pc = "send" /\ t.used = s.used + 1 /\ t.budget = s.budget /\ t.pages = s.pages
      /\ t.day = day /\ Alike(t, s)
  BY <1>1, <1>4, SessionIs, Zenon DEF Alike
<1>10. t \in Session
  BY <1>1, <1>2, <1>4, <1>7, <1>8, FirstDay, Labels, SessionIs, ZenonT(60)
<1>11. Stage(t) /\ Recording(t)'
  BY <1>1, <1>8, <1>9 DEF Stage, Recording
<1>12. row \in Usage /\ row.count = u.count + 1 /\ row.next >= next + Gap
  <2>1. Larger(Gap, u.gap) \in Nat /\ Larger(Gap, u.gap) >= Gap
    BY <1>6, Sizes DEF Larger
  <2>2. u.count + 1 \in Nat /\ next + Larger(Gap, u.gap) \in Nat
    BY <1>6, <2>1
  <2>3. row.count = u.count + 1 /\ row.next = next + Larger(Gap, u.gap)
    BY <1>2, Zenon DEF Usage
  <2>4. row \in Usage
    BY <1>2, <2>2, Zenon DEF Usage
  <2>5. row.next >= next + Gap
    BY <1>6, <2>1, <2>3, Sizes
  <2> QED
    BY <2>3, <2>4, <2>5
<1> HIDE DEF row
<1>13. row # None
  BY <1>12, RowAssumption
<1>14. quota' \in [Days -> Usage \cup {None}] /\ slot' \in [Days -> Nat]
  BY <1>3, <1>6, <1>12 DEF Typed, TypeOK
<1>15. RowsStay
  BY <1>3, <1>13 DEF RowsStay, Typed, TypeOK
<1>16. RestTyped
  BY <1>14 DEF RestTyped, Reserve, Typed, TypeOK
<1>17. slot'[day] = next
  BY <1>2, <1>3 DEF Typed, TypeOK
<1> QED
  BY <1>3, <1>12, <1>17, <1>5, <1>9, <1>10, <1>11, <1>15, <1>16, StepType DEF s, day, u

\* The parts of a session that the steps below ask about.
LEMMA SessionOf ==
    ASSUME Typed, NEW r \in Runs
    PROVE  /\ run[r] \in Session /\ Stage(run[r]) /\ Recording(run[r])
           /\ run[r].asked \in Instants /\ DayOf(run[r].asked) \in Days
           /\ run[r].day \in Days /\ run[r].status \in Statuses
           /\ run[r].used \in 0..3 /\ run[r].budget \in 1..3 /\ run[r].pages \in 0..3
           /\ now \in Instants
<1>1. run[r] \in Session /\ Stage(run[r]) /\ Recording(run[r]) /\ now \in Instants
  BY DEF Typed, TypeOK
<1> QED
  BY <1>1, DayType DEF Session

\* The outcome of a run that could not read everything.
LEMMA PartlyType ==
    ASSUME NEW s
    PROVE  Partly(s) \in Statuses
  BY Labels DEF Partly

\* What a session has asked for so far, by day.
LEMMA SentType ==
    ASSUME Typed, NEW r \in Runs
    PROVE  Made(run[r]) \in [Days -> Nat]
  BY SessionOf DEF Made, Typed, TypeOK

\* Steps that end a run and leave the quota as it is.
LEMMA EndsType ==
    ASSUME Typed, NEW r \in Runs, Refuse(r) \/ Lose(r) \/ Fail(r) \/ Finish(r)
    PROVE  /\ Typed'
           /\ \E t \in Session : Become(r, t) /\ t.pc = "idle" /\ t.page = {} /\ t.rows = {}
<1>1. /\ UNCHANGED <<workers, now, quota, cursor, raw, begun, top, slot>>
      /\ \E status \in Statuses : End(r, status)
  BY PartlyType, SessionOf, Labels DEF Refuse, Lose, Fail, Finish
<1>2. sent' \in [Days -> Nat]
  BY SentType DEF Refuse, Lose, Fail, Finish, Typed, TypeOK
<1>3. quota' \in [Days -> Usage \cup {None}] /\ RowsStay
  BY <1>1 DEF Typed, TypeOK, RowsStay
<1> QED
  BY <1>1, <1>2, <1>3, EndType

\* A crash leaves the session with nothing.
LEMMA CrashType ==
    ASSUME Typed, NEW r \in Runs, Crash(r)
    PROVE  /\ Typed'
           /\ \E t \in Session : Become(r, t) /\ t.pc = "idle" /\ t.page = {} /\ t.rows = {}
<1>1. /\ Idle("running") \in Session /\ Idle("running").pc = "idle"
      /\ Idle("running").page = {} /\ Idle("running").rows = {}
      /\ Stage(Idle("running")) /\ Recording(Idle("running"))'
  BY IdleType, IdleStage, Labels
<1>2. RestTyped /\ RowsStay
  BY DEF RestTyped, RowsStay, Crash, Typed, TypeOK, history
<1> QED
  BY <1>1, <1>2, StepType DEF Crash

\* A step of no run.
LEMMA ClockType ==
    ASSUME Typed, Tick \/ Configure \/ UNCHANGED vars
    PROVE  Typed'
<1>1. run' = run /\ quota' = quota
  BY DEF Tick, Configure, vars
<1>2. RestTyped
  <2>1. now' \in Instants
    BY Sizes DEF Tick, Configure, vars, Typed, TypeOK, Instants
  <2>2. source' \in [enabled : BOOLEAN, budget : 1..3, next : Nat]
    BY DEF Tick, Configure, vars, Typed, TypeOK
  <2> QED
    BY <2>1, <2>2 DEF RestTyped, Tick, Configure, vars, history, Typed, TypeOK
<1>3. TypeOK'
  BY <1>1, <1>2 DEF RestTyped, Typed, TypeOK
<1> QED
  BY <1>1, <1>3 DEF Typed, Recording

\* record_response reads the row of the day the request was made.
LEMMA RecordReadType ==
    ASSUME Typed, NEW r \in Runs, RecordRead(r)
    PROVE  /\ Typed'
           /\ \E t \in Session :
                /\ Become(r, t) /\ Alike(t, run[r]) /\ t.pc = "write" /\ t.ok = run[r].ok
                /\ t.asked = run[r].asked /\ t.usage = quota[DayOf(run[r].asked)]
<1> DEFINE s == run[r]
           read == quota[DayOf(s.asked)]
<1>1. /\ s \in Session /\ Stage(s) /\ s.pc = "record"
      /\ s.asked \in Instants /\ DayOf(s.asked) \in Days
  BY SessionOf DEF RecordRead, At
<1>2. read \in Usage \cup {None}
  BY <1>1 DEF Typed, TypeOK
<1>3. PICK t : t = [s EXCEPT !.pc = "write", !.usage = read]
  OBVIOUS
<1>4. Become(r, t) /\ quota' = quota
  BY <1>3 DEF RecordRead, history
<1> HIDE DEF s
<1>5. /\ t.pc = "write" /\ t.used = s.used /\ t.budget = s.budget /\ t.pages = s.pages
      /\ t.limit = s.limit /\ t.usage = read /\ t.asked = s.asked /\ t.ok = s.ok /\ Alike(t, s)
  BY <1>1, <1>3, SessionIs, Zenon DEF Alike
<1>6. t \in Session
  BY <1>1, <1>2, <1>3, Labels, SessionIs, ZenonT(60)
<1>7. Stage(t) /\ Recording(t)'
  BY <1>1, <1>4, <1>5 DEF Stage, Recording, DayOf
<1>8. RestTyped /\ RowsStay
  BY DEF RestTyped, RowsStay, RecordRead, Typed, TypeOK, history
<1> QED
  BY <1>4, <1>5, <1>6, <1>7, <1>8, StepType DEF s

-----------------------------------------------------------------------------
(* Pages. *)

LEMMA OldestIs ==
    ASSUME NEW P \in SUBSET Transactions, P # {}
    PROVE  Oldest(P) \in P /\ \A d \in P : Oldest(P) <= d
<1>1. IsFiniteSet(P) /\ P \subseteq Int
  <2>1. IsFiniteSet(Transactions) /\ Transactions \subseteq Int
    BY ConstantsAssumption
  <2>2. IsFiniteSet(P)
    BY <2>1, FS_Subset, Zenon
  <2> QED
    BY <2>1, <2>2
<1>2. \E e \in P : \A d \in P : e <= d
  BY <1>1, Least
<1> QED
  BY <1>2 DEF Oldest

\* The newest of some transactions is one of them, and as new as any.
LEMMA NewestIs ==
    ASSUME NEW P \in SUBSET Transactions, P # {}
    PROVE  Newest(P) \in P /\ \A d \in P : d <= Newest(P)
<1>1. IsFiniteSet(P) /\ P \subseteq Int
  <2>1. IsFiniteSet(Transactions) /\ Transactions \subseteq Int
    BY ConstantsAssumption
  <2>2. IsFiniteSet(P)
    BY <2>1, FS_Subset, Zenon
  <2> QED
    BY <2>1, <2>2
<1>2. \E e \in P : \A d \in P : d <= e
  BY <1>1, Greatest
<1> QED
  BY <1>2 DEF Newest

\* A page lists transactions,
LEMMA PageType ==
    ASSUME NEW url
    PROVE  Page(url) \in SUBSET Transactions
  BY DEF Page

\* and its link, if it has one, leads on from a transaction.
LEMMA LinkType ==
    ASSUME NEW P \in SUBSET Transactions
    PROVE  Link(P) \in Transactions \cup {None}
<1>1. CASE P = {}
  BY <1>1 DEF Link
<1>2. CASE P # {}
  BY <1>2, OldestIs DEF Link
<1> QED
  BY <1>1, <1>2

\* The items of a page with the versions they have now.
Versioned(items) == {<<e, VersionAt(e, now)>> : e \in items}

\* A payload has one version at a time.
LEMMA VersionedType ==
    ASSUME NEW items \in SUBSET (Transactions \cup {Wallet})
    PROVE  /\ Versioned(items) \in Pages
           /\ {p[1] : p \in Versioned(items)} = items
           /\ \A p, q \in Versioned(items) : p[1] = q[1] => p = q
<1>1. \A e \in items : VersionAt(e, now) \in Versions
  BY DEF VersionAt, Versions
<1>2. \A p \in Versioned(items) : \E e \in items : p = <<e, VersionAt(e, now)>> /\ p[1] = e
  BY DEF Versioned
<1>3. ASSUME NEW e \in items
      PROVE  \E p \in Versioned(items) : p[1] = e
  <2>1. <<e, VersionAt(e, now)>> \in Versioned(items)
    BY DEF Versioned
  <2> QED
    BY <2>1
<1>4. Versioned(items) \in Pages
  BY <1>1, <1>2 DEF Pages
<1>5. {p[1] : p \in Versioned(items)} = items
  BY <1>2, <1>3
<1>6. \A p, q \in Versioned(items) : p[1] = q[1] => p = q
  BY <1>2
<1> QED
  BY <1>4, <1>5, <1>6

\* What an answer with a page changes.
LEMMA ReadIs ==
    ASSUME NEW s \in Session
    PROVE  Read(s) =
             CASE s.want = "recent" ->
                    [s EXCEPT !.page = Versioned(Page(None)), !.url = Link(Page(None)),
                              !.top = IF Page(None) = {} THEN 0 ELSE Newest(Page(None))]
               [] s.want = "positions" -> [s EXCEPT !.page = Versioned({Wallet})]
               [] s.want = "older" ->
                    [s EXCEPT !.page = Versioned(Page(Candidate(s))), !.url = Link(Page(Candidate(s))),
                              !.complete = Link(Page(Candidate(s))) = None]
  BY DEF Read, Versioned

\* Reading an answer fills the page and leaves the rest of the session alone.
LEMMA ReadType ==
    ASSUME NEW s \in Session, NEW t, t = Read(s)
    PROVE  /\ t \in Session
           /\ t.pc = s.pc /\ t.status = s.status /\ t.worker = s.worker /\ t.budget = s.budget
           /\ t.used = s.used /\ t.want = s.want /\ t.pages = s.pages /\ t.cursor = s.cursor
           /\ t.usage = s.usage /\ t.rows = s.rows /\ t.limit = s.limit
           /\ s.want = "recent" =>
                /\ t.page = Versioned(Page(None)) /\ t.url = Link(Page(None))
                /\ t.top = IF Page(None) = {} THEN 0 ELSE Newest(Page(None))
                /\ t.complete = s.complete
           /\ s.want = "positions" =>
                /\ t.page = Versioned({Wallet}) /\ t.url = s.url /\ t.top = s.top
                /\ t.complete = s.complete
           /\ s.want = "older" =>
                /\ t.page = Versioned(Page(Candidate(s))) /\ t.url = Link(Page(Candidate(s)))
                /\ t.complete = (Link(Page(Candidate(s))) = None) /\ t.top = s.top
<1>1. s.want \in Wants
  BY Zenon DEF Session
<1>2. CASE s.want = "recent"
  <2> DEFINE P == Page(None)
             n == IF P = {} THEN 0 ELSE Newest(P)
  <2>1. t = [s EXCEPT !.page = Versioned(P), !.url = Link(P), !.top = n]
    BY <1>2, ReadIs
  <2>2. P \in SUBSET Transactions
    BY PageType
  <2> HIDE DEF P
  <2>3. /\ Versioned(P) \in Pages
        /\ Link(P) \in Transactions \cup {None}
    BY <2>2, VersionedType, LinkType
  <2>4. n \in Nat
    BY <2>2, NewestIs, ConstantsAssumption
  <2> HIDE DEF n
  <2>5. t \in Session
    BY <2>1, <2>3, <2>4, SessionIs, ZenonT(60)
  <2>6. /\ t.pc = s.pc /\ t.status = s.status /\ t.worker = s.worker /\ t.budget = s.budget
        /\ t.used = s.used /\ t.want = s.want /\ t.pages = s.pages /\ t.cursor = s.cursor
        /\ t.usage = s.usage /\ t.rows = s.rows /\ t.limit = s.limit
        /\ t.page = Versioned(P) /\ t.url = Link(P) /\ t.top = n /\ t.complete = s.complete
    BY <2>1, ZenonT(60) DEF Session
  <2> QED
    BY <1>2, <2>5, <2>6 DEF P, n
<1>3. CASE s.want = "positions"
  <2>1. t = [s EXCEPT !.page = Versioned({Wallet})]
    BY <1>3, ReadIs
  <2>2. Versioned({Wallet}) \in Pages
    BY VersionedType
  <2>3. t \in Session
    BY <2>1, <2>2, SessionIs, ZenonT(60)
  <2>4. /\ t.pc = s.pc /\ t.status = s.status /\ t.worker = s.worker /\ t.budget = s.budget
        /\ t.used = s.used /\ t.want = s.want /\ t.pages = s.pages /\ t.cursor = s.cursor
        /\ t.usage = s.usage /\ t.rows = s.rows /\ t.limit = s.limit
        /\ t.page = Versioned({Wallet}) /\ t.url = s.url /\ t.top = s.top /\ t.complete = s.complete
    BY <2>1, Zenon DEF Session
  <2> QED
    BY <1>3, <2>3, <2>4
<1>4. CASE s.want = "older"
  <2> DEFINE P == Page(Candidate(s))
             c == Link(P) = None
  <2>1. t = [s EXCEPT !.page = Versioned(P), !.url = Link(P), !.complete = c]
    BY <1>4, ReadIs
  <2>2. P \in SUBSET Transactions
    BY PageType
  <2> HIDE DEF P
  <2>3. /\ Versioned(P) \in Pages
        /\ Link(P) \in Transactions \cup {None}
    BY <2>2, VersionedType, LinkType
  <2>4. c \in BOOLEAN
    OBVIOUS
  <2> HIDE DEF c
  <2>5. t \in Session
    <3>1. PICK v : v = [s EXCEPT !.page = Versioned(P), !.url = Link(P)]
      OBVIOUS
    <3>2. v \in Session
      BY <2>3, <3>1, SessionIs, ZenonT(60)
    <3>3. [v EXCEPT !.complete = c] \in Session
      BY <2>4, <3>2, SessionIs, ZenonT(60)
    <3> QED
      BY <2>1, <3>1, <3>3
  <2>6. /\ t.pc = s.pc /\ t.status = s.status /\ t.worker = s.worker /\ t.budget = s.budget
        /\ t.used = s.used /\ t.want = s.want /\ t.pages = s.pages /\ t.cursor = s.cursor
        /\ t.usage = s.usage /\ t.rows = s.rows /\ t.limit = s.limit
        /\ t.page = Versioned(P) /\ t.url = Link(P) /\ t.complete = c /\ t.top = s.top
    BY <2>1, ZenonT(60) DEF Session
  <2> QED
    BY <1>4, <2>5, <2>6 DEF P, c
<1> QED
  BY <1>1, <1>2, <1>3, <1>4 DEF Wants

-----------------------------------------------------------------------------
(* Answers. *)

LEMMA AnswerType ==
    ASSUME Typed, NEW r \in Runs, NEW ok \in BOOLEAN, NEW limit \in ServerLimits,
           NEW gap \in ServerGaps, NEW remaining \in {0, limit},
           Answer(r, ok, limit, remaining, gap)
    PROVE  /\ Typed'
           /\ \E t \in Session :
                /\ Become(r, t) /\ Alike(t, IF ok THEN Read(run[r]) ELSE run[r])
                /\ t.pc = "record" /\ t.ok = ok /\ t.asked = now
<1> DEFINE s == run[r]
           read == IF ok THEN Read(s) ELSE s
<1>1. /\ s \in Session /\ Stage(s) /\ s.pc = "send" /\ now \in Instants
  BY SessionOf DEF Answer, At
<1>2. PICK t : t = [read EXCEPT !.wake = 0, !.day = 0, !.pc = "record", !.ok = ok, !.asked = now,
                                !.limit = limit, !.remaining = remaining, !.gap = gap]
  OBVIOUS
<1>3. Become(r, t)
  BY <1>2 DEF Answer
<1>4. sent' = Made(s) /\ UNCHANGED <<workers, now, source, quota, cursor, raw, begun, top, ended, slot>>
  BY DEF Answer
<1>5. Made(s) \in [Days -> Nat]
  BY SentType
<1> HIDE DEF s
<1>6. /\ read \in Session /\ read.used = s.used /\ read.budget = s.budget /\ read.pages = s.pages
  BY <1>1, ReadType
<1> HIDE DEF read
<1>7. /\ limit \in Nat /\ limit \in Nat \cup {None} /\ limit # None
      /\ remaining \in Nat \cup {None} /\ gap \in Nat
  BY Sizes
<1>8. /\ t.pc = "record" /\ t.used = read.used /\ t.budget = read.budget /\ t.pages = read.pages
      /\ t.limit = limit /\ t.ok = ok /\ t.asked = now /\ Alike(t, read)
  BY <1>2, <1>6, SessionIs, Zenon DEF Alike
<1>9. t \in Session
  <2>1. 0 \in Nat /\ 0 \in Days /\ "record" \in PCs
    BY FirstDay, Labels
  <2>2. PICK u : u = [read EXCEPT !.wake = 0, !.day = 0, !.pc = "record", !.ok = ok]
    OBVIOUS
  <2>3. u \in Session
    BY <1>6, <2>1, <2>2, SessionIs, ZenonT(60)
  <2>4. t = [u EXCEPT !.asked = now, !.limit = limit, !.remaining = remaining, !.gap = gap]
    BY <1>2, <2>2, Zenon
  <2> QED
    BY <1>1, <1>7, <2>3, <2>4, SessionIs, ZenonT(60)
<1>10. Stage(t) /\ Recording(t)'
  BY <1>1, <1>6, <1>7, <1>8 DEF Stage, Recording
<1>11. RestTyped /\ RowsStay
  BY <1>4, <1>5 DEF RestTyped, RowsStay, Typed, TypeOK
<1> QED
  BY <1>3, <1>8, <1>9, <1>10, <1>11, StepType DEF read, s

\* An answer without a transaction list only fills the page.
LEMMA AnswerOnlyType ==
    ASSUME Typed, NEW r \in Runs, AnswerOnly(r)
    PROVE  /\ Typed'
           /\ \E t \in Session : Become(r, t) /\ Alike(t, Read(run[r])) /\ t.pc = "page"
<1> DEFINE s == run[r]
           read == Read(s)
<1>1. /\ s \in Session /\ Stage(s) /\ s.pc = "send"
  BY SessionOf DEF AnswerOnly, At
<1>2. PICK t : t = [read EXCEPT !.pc = "page", !.wake = 0, !.day = 0]
  OBVIOUS
<1>3. Become(r, t)
  BY <1>2 DEF AnswerOnly
<1>4. sent' = Made(s) /\ UNCHANGED <<workers, now, source, quota, cursor, raw, begun, top, ended, slot>>
  BY DEF AnswerOnly
<1>5. Made(s) \in [Days -> Nat]
  BY SentType
<1> HIDE DEF s
<1>6. /\ read \in Session /\ read.used = s.used /\ read.budget = s.budget /\ read.pages = s.pages
  BY <1>1, ReadType
<1> HIDE DEF read
<1>7. /\ t.pc = "page" /\ t.used = read.used /\ t.budget = read.budget /\ t.pages = read.pages
      /\ Alike(t, read)
  BY <1>2, <1>6, SessionIs, Zenon DEF Alike
<1>8. t \in Session
  BY <1>2, <1>6, FirstDay, Labels, SessionIs, ZenonT(60)
<1>9. Stage(t) /\ Recording(t)'
  BY <1>1, <1>6, <1>7 DEF Stage, Recording
<1>10. RestTyped /\ RowsStay
  BY <1>4, <1>5 DEF RestTyped, RowsStay, Typed, TypeOK
<1> QED
  BY <1>3, <1>7, <1>8, <1>9, <1>10, StepType DEF read, s

\* What is written back keeps the count that is in the row.
LEMMA RecordedType ==
    ASSUME NEW s \in Session, NEW u \in Usage, s.usage \in Usage, s.limit # None
    PROVE  Recorded(u, s) \in Usage /\ Recorded(u, s).count = u.count
<1> DEFINE read == s.usage
           next == NextAfter(read.next, s.asked + s.gap)
           n == IF next # read.next THEN next ELSE u.next
           l == IF s.limit < read.limit THEN s.limit ELSE u.limit
           b == IF Tightened(s.limit) < read.budget THEN Tightened(s.limit) ELSE u.budget
<1>1. /\ s.asked \in Nat /\ s.gap \in Nat /\ s.remaining \in Nat \cup {None} /\ s.limit \in Nat
      /\ read.next \in Nat /\ u.next \in Nat /\ u.limit \in Nat /\ u.budget \in Nat
      /\ u.count \in Nat
  BY DEF Session, Usage, Instants
<1> HIDE DEF read
<1>2. n \in Nat
  BY <1>1 DEF NextAfter, Larger
<1>3. l \in Nat /\ b \in Nat
  BY <1>1 DEF Tightened, Larger
<1>4. Recorded(u, s) = [u EXCEPT !.remaining = s.remaining, !.gap = s.gap, !.next = n,
                                 !.limit = l, !.budget = b]
  BY DEF Recorded, read
<1> HIDE DEF n, l, b
<1>5. Recorded(u, s).count = u.count
  BY <1>4, Zenon DEF Usage
<1>6. Recorded(u, s) \in Usage
  BY <1>1, <1>2, <1>3, <1>4, Zenon DEF Usage
<1> QED
  BY <1>5, <1>6

\* record_response writes what the server said and leaves every count alone.
LEMMA RecordWriteType ==
    ASSUME Typed, NEW r \in Runs, RecordWrite(r)
    PROVE  /\ Typed'
           /\ \E t \in Session :
                /\ Become(r, t)
                /\ \/ run[r].ok /\ t.pc = "page" /\ Alike(t, run[r])
                   \/ ~run[r].ok /\ t.pc = "idle" /\ t.page = {} /\ t.rows = {}
           /\ RowsStay /\ \A d \in Days : CountOf(quota'[d]) = CountOf(quota[d])
<1> DEFINE s == run[r]
           day == DayOf(s.asked)
           row == Recorded(quota[day], s)
<1>1. /\ s \in Session /\ Stage(s) /\ Recording(s) /\ s.pc = "write" /\ day \in Days
  BY SessionOf DEF RecordWrite, At
<1>2. quota' = IF s.usage = None THEN quota ELSE [quota EXCEPT ![day] = row]
  BY DEF RecordWrite
<1>3. /\ quota' \in [Days -> Usage \cup {None}] /\ RowsStay
      /\ \A d \in Days : CountOf(quota'[d]) = CountOf(quota[d])
  <2>1. CASE s.usage = None
    BY <1>2, <2>1 DEF RowsStay, Typed, TypeOK
  <2>2. CASE s.usage # None
    <3>1. s.usage \in Usage /\ s.limit # None /\ quota[day] \in Usage
      BY <1>1, <2>2 DEF Session, Stage, Recording, Typed, TypeOK
    <3> HIDE DEF s
    <3>2. row \in Usage /\ row # None /\ row.count = quota[day].count /\ quota[day] # None
      BY <1>1, <3>1, RecordedType, RowAssumption
    <3> HIDE DEF row, day
    <3> QED
      BY <1>1, <1>2, <2>2, <3>2 DEF RowsStay, Typed, TypeOK, CountOf
  <2> QED
    BY <2>1, <2>2
<1>4. CASE s.ok
  <2>1. PICK t : t = [s EXCEPT !.pc = "page", !.usage = None, !.asked = 0,
                               !.limit = None, !.remaining = None, !.gap = 0]
    OBVIOUS
  <2>2. Become(r, t)
    BY <1>4, <2>1 DEF RecordWrite
  <2>3. UNCHANGED <<workers, now, source, cursor, raw, begun, top, ended, slot, sent>>
    BY <1>4 DEF RecordWrite
  <2> HIDE DEF s
  <2>4. /\ t.pc = "page" /\ t.used = s.used /\ t.budget = s.budget /\ t.pages = s.pages
        /\ Alike(t, s)
    BY <1>1, <2>1, SessionIs, Zenon DEF Alike
  <2>5. None \in Usage \cup {None} /\ None \in Nat \cup {None} /\ 0 \in Nat
    OBVIOUS
  <2>6. t \in Session
    BY <1>1, <2>1, <2>5, FirstDay, Labels, SessionIs, Zenon
  <2>7. Stage(t) /\ Recording(t)'
    BY <1>1, <2>4 DEF Stage, Recording
  <2>8. RestTyped
    BY <1>3, <2>3 DEF RestTyped, Typed, TypeOK
  <2> QED
    BY <1>3, <1>4, <2>2, <2>4, <2>6, <2>7, <2>8, StepType DEF s
<1>5. CASE ~s.ok
  <2>1. /\ End(r, Partly(s)) /\ UNCHANGED <<workers, now, cursor, raw, begun, top, slot>>
        /\ sent' = sent
    BY <1>5 DEF RecordWrite
  <2>2. sent' \in [Days -> Nat]
    BY <2>1 DEF Typed, TypeOK
  <2> QED
    BY <1>3, <1>5, <2>1, <2>2, PartlyType, EndType
<1> QED
  BY <1>4, <1>5

-----------------------------------------------------------------------------
(* Storing. *)

LEMMA NewRowType ==
    ASSUME NEW item \in Transactions \cup {Wallet}, NEW version \in Versions
    PROVE  /\ NewRow(item, version) \in RowSets
           /\ \A x \in NewRow(item, version) : x.item = item /\ x.version = version
<1> DEFINE new == [item |-> item, version |-> version, revision |-> item = Wallet \/ Base(item) # {}]
<1>1. new \in Row /\ new.item = item /\ new.version = version
  BY DEF Row
<1>2. NewRow(item, version) = {} \/ NewRow(item, version) = {new}
  BY DEF NewRow
<1> HIDE DEF new
<1> QED
  BY <1>1, <1>2 DEF RowSets

\* The rows that a run finds to be new on a page.
NewRows(page) == UNION {NewRow(p[1], p[2]) : p \in page}

\* They are rows, each of them for a payload of the page.
LEMMA NewRowsType ==
    ASSUME NEW page \in Pages
    PROVE  /\ NewRows(page) \in RowSets
           /\ \A x \in NewRows(page) : \E p \in page : x \in NewRow(p[1], p[2])
           /\ \A p \in page : NewRow(p[1], p[2]) \subseteq NewRows(page)
<1>1. \A p \in page : p[1] \in Transactions \cup {Wallet} /\ p[2] \in Versions
  BY DEF Pages
<1>2. \A p \in page : NewRow(p[1], p[2]) \in RowSets
  BY <1>1, NewRowType
<1>3. \A x \in NewRows(page) : \E p \in page : x \in NewRow(p[1], p[2])
  BY DEF NewRows
<1>4. \A p \in page : NewRow(p[1], p[2]) \subseteq NewRows(page)
  BY DEF NewRows
<1>5. NewRows(page) \in RowSets
  BY <1>2, <1>3 DEF RowSets
<1> QED
  BY <1>3, <1>4, <1>5

\* _store_payload selects the rows it will add.
LEMMA LookType ==
    ASSUME Typed, NEW r \in Runs, Look(r)
    PROVE  /\ Typed'
           /\ \E t \in Session :
                /\ Become(r, t) /\ t.pc = "store" /\ t.rows = NewRows(run[r].page)
                /\ t.worker = run[r].worker /\ t.cursor = run[r].cursor /\ t.want = run[r].want
                /\ t.page = run[r].page
                /\ t.url = run[r].url /\ t.complete = run[r].complete /\ t.top = run[r].top
<1> DEFINE s == run[r]
           rows == NewRows(s.page)
<1>1. /\ s \in Session /\ Stage(s) /\ s.pc = "page" /\ s.pages \in 0..3 /\ s.used \in 0..3
      /\ s.budget \in 1..3
  BY SessionOf DEF Look, At
<1>2. PICK t : t = [s EXCEPT !.pc = "store", !.pages = @ + 1, !.rows = rows]
  OBVIOUS
<1>3. Become(r, t) /\ UNCHANGED <<workers, now, source, quota, cursor, raw, begun, history>>
  BY <1>2 DEF Look, NewRows
<1> HIDE DEF s
<1>4. s.page \in Pages
  BY <1>1, SessionIs, Zenon
<1>5. rows \in RowSets
  BY <1>4, NewRowsType
<1> HIDE DEF rows
<1>6. s.pages + 1 \in 0..3 /\ s.pages + 1 <= s.used
  BY <1>1 DEF Stage
<1>7. /\ t.pc = "store" /\ t.used = s.used /\ t.budget = s.budget /\ t.pages = s.pages + 1
      /\ t.rows = rows /\ t.worker = s.worker /\ t.cursor = s.cursor /\ t.want = s.want
      /\ t.page = s.page /\ t.url = s.url /\ t.complete = s.complete /\ t.top = s.top
  BY <1>1, <1>2, SessionIs, Zenon
<1>8. t \in Session
  BY <1>1, <1>2, <1>5, <1>6, Labels, SessionIs, ZenonT(60)
<1>9. Stage(t) /\ Recording(t)'
  BY <1>1, <1>6, <1>7 DEF Stage, Recording
<1>10. RestTyped /\ RowsStay
  BY <1>3 DEF RestTyped, RowsStay, Typed, TypeOK, history
<1> QED
  BY <1>3, <1>7, <1>8, <1>9, <1>10, StepType DEF s, rows

\* The page a backfill asks for next.
LEMMA CandidateType ==
    ASSUME NEW s \in Session
    PROVE  Candidate(s) \in Transactions \cup {None}
<1>1. /\ s.url \in Transactions \cup {None}
      /\ s.cursor # None => s.cursor.url \in Transactions \cup {None}
  BY DEF Session, Cursor
<1> QED
  BY <1>1 DEF Candidate

\* A run asks for the next page.
LEMMA AskType ==
    ASSUME NEW s \in Session, NEW want \in Wants, now \in Instants, NEW t, t = Ask(s, want)
    PROVE  /\ t \in Session /\ t.pc = "reserve" /\ t.want = want
           /\ t.status = s.status /\ t.worker = s.worker /\ t.budget = s.budget /\ t.used = s.used
           /\ t.pages = s.pages /\ t.cursor = s.cursor /\ t.top = s.top /\ t.url = s.url
           /\ t.complete = s.complete /\ t.page = s.page /\ t.rows = s.rows
<1>1. t = [s EXCEPT !.pc = "reserve", !.want = want, !.asked = now]
  BY DEF Ask
<1>2. t \in Session
  BY <1>1, Labels, SessionIs, ZenonT(60)
<1> QED
  BY <1>1, <1>2, SessionIs, ZenonT(60)

\* A run turns to the older page, or is done.
LEMMA BackfillType ==
    ASSUME NEW s \in Session, now \in Instants, NEW t, t = Backfill(s)
    PROVE  /\ t \in Session
           /\ t.status = s.status /\ t.worker = s.worker /\ t.budget = s.budget /\ t.used = s.used
           /\ t.pages = s.pages /\ t.cursor = s.cursor /\ t.top = s.top
           /\ t.page = s.page /\ t.rows = s.rows
           /\ \/ /\ t.pc = "reserve" /\ t.want = "older" /\ s.used < s.budget
                 /\ Candidate(s) # None /\ t.url = s.url /\ t.complete = s.complete
              \/ /\ t.pc = "save" /\ t.want = s.want
                 /\ t.url = Candidate(s) /\ t.complete = (Candidate(s) = None)
<1> DEFINE c == Candidate(s)
<1>1. CASE c # None /\ s.used < s.budget
  <2>1. t = Ask(s, "older")
    BY <1>1 DEF Backfill
  <2> QED
    BY <1>1, <2>1, AskType, Labels
<1>2. CASE ~(c # None /\ s.used < s.budget)
  <2> DEFINE d == c = None
             w == s.warned \/ c # None
  <2>1. t = [s EXCEPT !.pc = "save", !.url = c, !.complete = d, !.warned = w]
    BY <1>2, Zenon DEF Backfill
  <2>2. c \in Transactions \cup {None} /\ d \in BOOLEAN /\ w \in BOOLEAN
    BY CandidateType
  <2> HIDE DEF c, d, w
  <2>3. PICK v : v = [s EXCEPT !.pc = "save", !.url = c]
    OBVIOUS
  <2>4. v \in Session
    BY <2>2, <2>3, Labels, SessionIs, ZenonT(60)
  <2>5. PICK u : u = [v EXCEPT !.complete = d]
    OBVIOUS
  <2>6. u \in Session
    BY <2>2, <2>4, <2>5, SessionIs, ZenonT(60)
  <2>7. t = [u EXCEPT !.warned = w]
    BY <2>1, <2>3, <2>5
  <2>8. t \in Session
    BY <2>2, <2>6, <2>7, SessionIs, ZenonT(60)
  <2>9. /\ t.status = s.status /\ t.worker = s.worker /\ t.budget = s.budget /\ t.used = s.used
        /\ t.pages = s.pages /\ t.cursor = s.cursor /\ t.top = s.top
        /\ t.page = s.page /\ t.rows = s.rows
        /\ t.pc = "save" /\ t.want = s.want /\ t.url = c /\ t.complete = d
    BY <2>1, SessionIs, ZenonT(60)
  <2> QED
    BY <2>8, <2>9 DEF c, d
<1> QED
  BY <1>1, <1>2

\* Where a run goes on after its page: to the positions, to the older page, or to
\* save where the next run may go on.
Onward(s, t) ==
    \/ /\ s.want = "recent" /\ t.pc = "reserve" /\ t.want = "positions"
       /\ t.url = s.url /\ t.complete = s.complete
    \/ /\ s.want # "older" /\ t.pc = "reserve" /\ t.want = "older"
       /\ Candidate(s) # None /\ t.url = s.url /\ t.complete = s.complete
    \/ /\ s.want # "older" /\ t.pc = "save" /\ t.want = s.want
       /\ t.url = Candidate(s) /\ t.complete = (Candidate(s) = None)
    \/ /\ s.want = "older" /\ t.pc = "save" /\ t.want = s.want
       /\ t.url = s.url /\ t.complete = s.complete

\* What a run does after a page is stored.
LEMMA AfterType ==
    ASSUME NEW s \in Session, now \in Instants, s.used \in Nat, s.budget \in Nat,
           NEW t, t = After(s)
    PROVE  /\ t \in Session
           /\ t.status = s.status /\ t.worker = s.worker /\ t.budget = s.budget /\ t.used = s.used
           /\ t.pages = s.pages /\ t.cursor = s.cursor /\ t.top = s.top
           /\ t.page = s.page /\ t.rows = s.rows
           /\ t.pc \in {"reserve", "save"} /\ (t.pc = "reserve" => s.used < s.budget)
           /\ Onward(s, t)
<1>1. s.want \in Wants
  BY Zenon DEF Session
<1>2. CASE s.want = "recent" /\ s.used < s.budget
  <2>1. t = Ask(s, "positions")
    BY <1>2 DEF After
  <2> QED
    BY <1>2, <2>1, AskType, Labels DEF Onward
<1>3. CASE s.want = "recent" /\ s.used >= s.budget
  <2>1. PICK v : v = [s EXCEPT !.warned = TRUE]
    OBVIOUS
  <2>2. v \in Session
    BY <2>1, SessionIs, ZenonT(60)
  <2>3. /\ v.status = s.status /\ v.worker = s.worker /\ v.budget = s.budget /\ v.used = s.used
        /\ v.pages = s.pages /\ v.cursor = s.cursor /\ v.top = s.top /\ v.url = s.url
        /\ v.page = s.page /\ v.rows = s.rows /\ v.want = s.want
    BY <2>1, SessionIs, Zenon
  <2>4. Candidate(v) = Candidate(s)
    BY <2>3 DEF Candidate
  <2>5. t = Backfill(v)
    BY <1>3, <2>1 DEF After
  <2> QED
    BY <1>3, <2>2, <2>3, <2>4, <2>5, BackfillType DEF Onward
<1>4. CASE s.want = "positions"
  <2>1. t = Backfill(s)
    BY <1>4 DEF After
  <2> QED
    BY <1>4, <2>1, BackfillType DEF Onward
<1>5. CASE s.want = "older"
  <2>1. t = [s EXCEPT !.pc = "save"]
    BY <1>5 DEF After
  <2>2. t \in Session
    BY <2>1, Labels, SessionIs, ZenonT(60)
  <2>3. /\ t.status = s.status /\ t.worker = s.worker /\ t.budget = s.budget /\ t.used = s.used
        /\ t.pages = s.pages /\ t.cursor = s.cursor /\ t.top = s.top
        /\ t.page = s.page /\ t.rows = s.rows /\ t.pc = "save" /\ t.want = s.want
        /\ t.url = s.url /\ t.complete = s.complete
    BY <2>1, SessionIs, Zenon
  <2> QED
    BY <1>5, <2>2, <2>3 DEF Onward
<1> QED
  BY <1>1, <1>2, <1>3, <1>4, <1>5 DEF Wants

\* The session after its page is stored.
LEMMA StoredSession ==
    ASSUME NEW s \in Session, NEW w \in BOOLEAN,
           NEW t, t = [s EXCEPT !.page = {}, !.rows = {}, !.warned = w]
    PROVE  /\ t \in Session
           /\ t.pc = s.pc /\ t.status = s.status /\ t.worker = s.worker /\ t.budget = s.budget
           /\ t.used = s.used /\ t.pages = s.pages /\ t.cursor = s.cursor /\ t.top = s.top
           /\ t.url = s.url /\ t.complete = s.complete /\ t.want = s.want
           /\ t.page = {} /\ t.rows = {} /\ Candidate(t) = Candidate(s)
<1>1. {} \in Pages /\ {} \in RowSets
  BY DEF Pages, RowSets
<1>2. PICK v : v = [s EXCEPT !.page = {}, !.rows = {}]
  OBVIOUS
<1>3. v \in Session
  BY <1>1, <1>2, SessionIs, ZenonT(60)
<1>4. [v EXCEPT !.warned = w] \in Session
  BY <1>3, SessionIs, ZenonT(60)
<1>5. t \in Session
  BY <1>2, <1>4
<1>6. /\ t.pc = s.pc /\ t.status = s.status /\ t.worker = s.worker /\ t.budget = s.budget
      /\ t.used = s.used /\ t.pages = s.pages /\ t.cursor = s.cursor /\ t.top = s.top
      /\ t.url = s.url /\ t.complete = s.complete /\ t.want = s.want
      /\ t.page = {} /\ t.rows = {}
  BY SessionIs, Zenon
<1> QED
  BY <1>5, <1>6 DEF Candidate

\* Storing a page empties the session's hands and moves it on.
LEMMA StoreType ==
    ASSUME Typed, NEW r \in Runs, NEW more \in BOOLEAN, Store(r, more)
    PROVE  /\ Typed'
           /\ \E t \in Session :
                /\ Become(r, t) /\ t.worker = run[r].worker /\ t.cursor = run[r].cursor
                /\ t.top = run[r].top /\ t.page = {} /\ t.rows = {}
                /\ Onward(run[r], t)
<1> DEFINE s == run[r]
<1>1. /\ s \in Session /\ Stage(s) /\ s.pc = "store" /\ now \in Instants
      /\ s.pages \in 0..3 /\ s.used \in 0..3 /\ s.budget \in 1..3
  BY SessionOf DEF Store, At
<1> DEFINE w == s.warned \/ (s.want = "positions" /\ more)
<1>2. PICK v : v = [s EXCEPT !.page = {}, !.rows = {}, !.warned = w]
  OBVIOUS
<1>3. PICK t : t = After(v)
  OBVIOUS
<1>4. Become(r, t) /\ raw' = raw \cup s.rows
  BY <1>2, <1>3 DEF Store
<1>5. UNCHANGED <<workers, now, source, quota, cursor, begun, history>>
  BY DEF Store
<1>a. w \in BOOLEAN
  OBVIOUS
<1> HIDE DEF s, w
<1>6. /\ v \in Session /\ v.pages = s.pages /\ v.used = s.used /\ v.budget = s.budget
      /\ v.worker = s.worker /\ v.cursor = s.cursor /\ v.top = s.top /\ v.url = s.url
      /\ v.complete = s.complete /\ v.want = s.want /\ v.page = {} /\ v.rows = {}
      /\ Candidate(v) = Candidate(s)
  BY <1>1, <1>2, <1>a, StoredSession, ZenonT(60)
<1>7. v.used \in Nat /\ v.budget \in Nat
  BY <1>1, <1>6
<1>8. /\ t \in Session /\ t.budget = v.budget /\ t.used = v.used /\ t.pages = v.pages
      /\ t.worker = v.worker /\ t.cursor = v.cursor /\ t.top = v.top
      /\ t.page = v.page /\ t.rows = v.rows /\ Onward(v, t)
      /\ t.pc \in {"reserve", "save"} /\ (t.pc = "reserve" => v.used < v.budget)
  BY <1>1, <1>3, <1>6, <1>7, AfterType
<1>9. Stage(t) /\ Recording(t)'
  BY <1>1, <1>6, <1>8 DEF Stage, Recording
<1>10. s.rows \subseteq Row
  BY <1>1 DEF Session
<1>11. RestTyped /\ RowsStay
  BY <1>4, <1>5, <1>10 DEF RestTyped, RowsStay, Typed, TypeOK, history
<1>12. Onward(s, t)
  BY <1>6, <1>8 DEF Onward
<1> QED
  BY <1>4, <1>6, <1>8, <1>9, <1>11, <1>12, StepType DEF s

\* The cursor that is saved is a cursor.
LEMMA SavedType ==
    ASSUME Typed, NEW s \in Session
    PROVE  Saved(s) \in Cursor
<1>1. /\ s.url \in Transactions \cup {None} /\ s.complete \in BOOLEAN
      /\ s.cursor \in Cursor \cup {None} /\ cursor \in Cursor \cup {None}
  BY DEF Session, Typed, TypeOK
<1> QED
  BY <1>1 DEF Saved, Cursor

\* Saving the cursor leads to the end of the run.
LEMMA SaveType ==
    ASSUME Typed, NEW r \in Runs, Save(r)
    PROVE  /\ Typed'
           /\ \E t \in Session : Become(r, t) /\ Alike(t, run[r]) /\ t.pc = "finish"
<1> DEFINE s == run[r]
           status == IF s.warned THEN "partial" ELSE "succeeded"
<1>1. /\ s \in Session /\ Stage(s) /\ s.pc = "save"
      /\ s.pages \in 0..3 /\ s.used \in 0..3 /\ s.budget \in 1..3
  BY SessionOf DEF Save, At
<1>2. PICK t : t = [s EXCEPT !.pc = "finish", !.status = status]
  OBVIOUS
<1>3. Become(r, t) /\ cursor' = Saved(s)
  BY <1>2 DEF Save
<1>4. top' = IF cursor = None THEN s.top
             ELSE IF s.cursor = None THEN Smaller(top, s.top) ELSE top
  BY DEF Save
<1>5. UNCHANGED <<workers, now, source, quota, raw, begun, ended, slot, sent>>
  BY DEF Save
<1> HIDE DEF s
<1>6. cursor' \in Cursor
  BY <1>1, <1>3, SavedType
<1>7. top' \in Nat
  BY <1>1, <1>4 DEF Session, Smaller, Typed, TypeOK
<1>8. status \in Statuses
  BY Labels
<1> HIDE DEF status
<1>9. /\ t.pc = "finish" /\ t.used = s.used /\ t.budget = s.budget /\ t.pages = s.pages
      /\ Alike(t, s)
  BY <1>1, <1>2, SessionIs, Zenon DEF Alike
<1>10. t \in Session
  BY <1>1, <1>2, <1>8, Labels, SessionIs, ZenonT(60)
<1>11. Stage(t) /\ Recording(t)'
  BY <1>1, <1>9 DEF Stage, Recording
<1>12. RestTyped /\ RowsStay
  BY <1>5, <1>6, <1>7 DEF RestTyped, RowsStay, Typed, TypeOK
<1> QED
  BY <1>3, <1>9, <1>10, <1>11, <1>12, StepType DEF s

\* The first state is well typed,
LEMMA InitType ==
    ASSUME Init
    PROVE  Typed
<1>1. Idle("none") \in Session /\ Stage(Idle("none")) /\ Idle("none").pc = "idle"
  BY IdleType, IdleStage, Labels
<1>2. \A r \in Runs : run[r] = Idle("none")
  BY DEF Init
<1>3. \A r \in Runs : Stage(run[r]) /\ Recording(run[r])
  BY <1>1, <1>2 DEF Recording
<1>4. source \in [enabled : BOOLEAN, budget : 1..3, next : Nat]
  <2>1. \A b \in RunBudgets : b \in 1..3
    BY ConstantsAssumption
  <2>2. source \in [enabled : {FALSE}, budget : RunBudgets, next : {0}]
    BY DEF Init
  <2>3. 0 \in Nat
    OBVIOUS
  <2> QED
    BY <2>1, <2>2, <2>3, Zenon
<1>5. now \in Instants /\ begun \in 0..MaxRuns
  BY FirstDay, Sizes DEF Init
<1>6. TypeOK
  BY <1>1, <1>4, <1>5 DEF Init, TypeOK
<1> QED
  BY <1>3, <1>6 DEF Typed

\* every step keeps it so,
LEMMA NextType ==
    ASSUME Typed, [Next]_vars
    PROVE  Typed'
<1>1. CASE Tick \/ Configure \/ UNCHANGED vars
  BY <1>1, ClockType
<1>2. CASE \E r \in Runs, w \in workers : Begin(r, w)
  BY <1>2, BeginType
<1>3. CASE \E r \in Runs : Request(r)
  BY <1>3, ReserveType, EndsType, AnswerOnlyType, AnswerType, RecordReadType, RecordWriteType
     DEF Request
<1>4. CASE \E r \in Runs : Look(r) \/ (\E more \in BOOLEAN : Store(r, more))
  BY <1>4, LookType, StoreType
<1>5. CASE \E r \in Runs : Fail(r) \/ Save(r) \/ Finish(r) \/ Crash(r)
  BY <1>5, EndsType, SaveType, CrashType
<1> QED
  BY <1>1, <1>2, <1>3, <1>4, <1>5 DEF Next

\* and so every state is.
LEMMA AlwaysTyped == Spec => []Typed
<1>1. Init => Typed
  BY InitType
<1>2. Typed /\ [Next]_vars => Typed'
  BY NextType
<1> QED
  BY <1>1, <1>2, PTL DEF Spec

\* The rows, the sessions and the clock are what the code may make of them.
THEOREM TypeCorrect == Spec => []TypeOK
<1>1. Typed => TypeOK
  BY DEF Typed
<1> QED
  BY <1>1, AlwaysTyped, PTL

-----------------------------------------------------------------------------
(* The daily budget. *)

LEMMA CountType ==
    ASSUME Typed, NEW d \in Days
    PROVE  CountOf(quota[d]) \in Nat /\ sent[d] \in Nat
<1>1. quota[d] \in Usage \cup {None} /\ sent[d] \in Nat
  BY DEF Typed, TypeOK
<1> QED
  BY <1>1 DEF CountOf, Usage

\* Only the run that takes a step comes to wait or waits no more.
LEMMA WaitingStep ==
    ASSUME Typed, NEW r \in Runs, NEW t, Become(r, t), NEW d \in Days
    PROVE  /\ IsFiniteSet(Waiting(d)) /\ Cardinality(Waiting(d)) \in Nat
           /\ Waiting(d)' = IF t.pc = "send" /\ t.day = d THEN Waiting(d) \cup {r}
                            ELSE Waiting(d) \ {r}
<1>1. IsFiniteSet(Runs) /\ Waiting(d) \in SUBSET Runs
  BY ConstantsAssumption DEF Waiting
<1>2. IsFiniteSet(Waiting(d)) /\ Cardinality(Waiting(d)) \in Nat
  BY <1>1, FS_Subset, FS_CardinalityType
<1>3. \A q \in Runs : run'[q] = IF q = r THEN t ELSE run[q]
  BY DEF Typed, TypeOK, Become
<1>4. Waiting(d)' = IF t.pc = "send" /\ t.day = d THEN Waiting(d) \cup {r} ELSE Waiting(d) \ {r}
  BY <1>3 DEF Waiting, At
<1> QED
  BY <1>2, <1>4

\* A request that was waiting may be made; nothing else is counted or comes to wait.
LEMMA CountedKept ==
    ASSUME Typed, Counted, NEW r \in Runs, NEW t, Become(r, t), t.pc # "send",
           \A d \in Days : CountOf(quota'[d]) = CountOf(quota[d]),
           sent' = sent \/ (At(r, "send") /\ sent' = Made(run[r]))
    PROVE  Counted'
<1> SUFFICES ASSUME NEW d \in Days
             PROVE  /\ sent'[d] + Cardinality(Waiting(d)') <= CountOf(quota'[d])
                    /\ CountOf(quota'[d]) <= DailyBudget
  BY DEF Counted
<1>1. /\ IsFiniteSet(Waiting(d)) /\ Cardinality(Waiting(d)) \in Nat
      /\ Waiting(d)' = Waiting(d) \ {r}
  BY WaitingStep
<1>2. Cardinality(Waiting(d) \ {r}) =
        IF r \in Waiting(d) THEN Cardinality(Waiting(d)) - 1 ELSE Cardinality(Waiting(d))
  BY <1>1, FS_RemoveElement
<1>3. /\ sent[d] + Cardinality(Waiting(d)) <= CountOf(quota[d])
      /\ CountOf(quota[d]) <= DailyBudget
      /\ CountOf(quota[d]) \in Nat /\ sent[d] \in Nat
      /\ CountOf(quota'[d]) = CountOf(quota[d])
  BY CountType DEF Counted
<1>4. CASE sent' = sent
  BY <1>1, <1>2, <1>3, <1>4
<1>5. CASE At(r, "send") /\ sent' = Made(run[r])
  <2>1. sent'[d] = IF run[r].day = d THEN sent[d] + 1 ELSE sent[d]
    BY <1>5 DEF Made, Typed, TypeOK
  <2>2. run[r].day = d => r \in Waiting(d)
    BY <1>5 DEF Waiting
  <2> QED
    BY <1>1, <1>2, <1>3, <2>1, <2>2
<1> QED
  BY <1>4, <1>5

\* A reservation is counted, and made only below the budget.
LEMMA CountedReserve ==
    ASSUME Typed, Counted, NEW r \in Runs, Reserve(r)
    PROVE  Counted'
<1> DEFINE day == DayOf(run[r].asked)
           u == UsageOf(day)
<1>1. PICK t \in Session : Become(r, t) /\ t.pc = "send" /\ t.day = day
  BY ReserveType
<1>2. run[r].pc = "reserve" /\ ~Spent(u) /\ sent' = sent /\ day \in Days
  BY SessionOf DEF Reserve, At
<1>3. u \in Usage /\ u.count = CountOf(quota[day])
  BY <1>2, UsageType DEF UsageOf, CountOf, NewUsage
<1>4. u.count < DailyBudget /\ u.count \in Nat
  BY <1>2, <1>3, Sizes DEF Spent, Smaller, Usage
<1>5. PICK row \in Usage : quota' = [quota EXCEPT ![day] = row] /\ row.count = u.count + 1
  BY ReserveType
<1> HIDE DEF u
<1>6. CountOf(row) = u.count + 1
  BY <1>5, RowAssumption DEF CountOf
<1>7. \A d \in Days : quota'[d] = IF d = day THEN row ELSE quota[d]
  BY <1>5 DEF Typed, TypeOK
<1> HIDE DEF day
<1> SUFFICES ASSUME NEW d \in Days
             PROVE  /\ sent'[d] + Cardinality(Waiting(d)') <= CountOf(quota'[d])
                    /\ CountOf(quota'[d]) <= DailyBudget
  BY DEF Counted
<1>8. /\ sent[d] + Cardinality(Waiting(d)) <= CountOf(quota[d])
      /\ CountOf(quota[d]) <= DailyBudget
      /\ CountOf(quota[d]) \in Nat /\ sent[d] \in Nat
  BY CountType DEF Counted
<1>9. /\ IsFiniteSet(Waiting(d)) /\ Cardinality(Waiting(d)) \in Nat
      /\ Waiting(d)' = IF day = d THEN Waiting(d) \cup {r} ELSE Waiting(d) \ {r}
  BY <1>1, WaitingStep
<1>10. r \notin Waiting(d)
  BY <1>2 DEF Waiting, At
<1>11. CASE d = day
  <2>1. Cardinality(Waiting(d) \cup {r}) = Cardinality(Waiting(d)) + 1
    BY <1>9, <1>10, FS_AddElement
  <2> QED
    BY <1>2, <1>3, <1>4, <1>6, <1>7, <1>8, <1>9, <1>11, <2>1, Sizes
<1>12. CASE d # day
  <2>1. Waiting(d)' = Waiting(d)
    BY <1>9, <1>10, <1>12
  <2> QED
    BY <1>2, <1>7, <1>8, <1>12, <2>1
<1> QED
  BY <1>11, <1>12

\* Steps of the runs after which no request is newly waiting.
LEMMA CountedSteps ==
    ASSUME Typed, Counted, NEW r \in Runs,
           \/ \E w \in workers : Begin(r, w)
           \/ Refuse(r) \/ Lose(r) \/ Fail(r) \/ Finish(r) \/ Crash(r)
           \/ \E ok \in BOOLEAN, limit \in ServerLimits, gap \in ServerGaps :
                \E remaining \in {0, limit} : Answer(r, ok, limit, remaining, gap)
           \/ AnswerOnly(r) \/ RecordRead(r) \/ RecordWrite(r)
           \/ Look(r) \/ (\E more \in BOOLEAN : Store(r, more)) \/ Save(r)
    PROVE  Counted'
<1>1. CASE RecordWrite(r)
  <2>1. \E t \in Session : Become(r, t) /\ t.pc # "send"
    BY <1>1, RecordWriteType
  <2>2. (\A d \in Days : CountOf(quota'[d]) = CountOf(quota[d])) /\ sent' = sent
    BY <1>1, RecordWriteType DEF RecordWrite
  <2> QED
    BY <2>1, <2>2, CountedKept
<1>2. CASE Lose(r) \/ AnswerOnly(r)
           \/ \E ok \in BOOLEAN, limit \in ServerLimits, gap \in ServerGaps :
                \E remaining \in {0, limit} : Answer(r, ok, limit, remaining, gap)
  <2>1. \E t \in Session : Become(r, t) /\ t.pc # "send"
    BY <1>2, EndsType, AnswerOnlyType, AnswerType
  <2>2. quota' = quota /\ At(r, "send") /\ sent' = Made(run[r])
    BY <1>2 DEF Lose, AnswerOnly, Answer
  <2> QED
    BY <2>1, <2>2, CountedKept
<1>3. CASE \/ \E w \in workers : Begin(r, w)
           \/ Refuse(r) \/ Fail(r) \/ Finish(r) \/ Crash(r) \/ RecordRead(r)
           \/ Look(r) \/ (\E more \in BOOLEAN : Store(r, more)) \/ Save(r)
  <2>1. \E t \in Session : Become(r, t) /\ t.pc # "send"
    BY <1>3, BeginType, EndsType, CrashType, RecordReadType, LookType, StoreType, SaveType
       DEF Onward
  <2>2. quota' = quota /\ sent' = sent
    BY <1>3 DEF Begin, Refuse, Fail, Finish, Crash, RecordRead, Look, Store, Save, history
  <2> QED
    BY <2>1, <2>2, CountedKept
<1> QED
  BY <1>1, <1>2, <1>3

\* No request has been made yet,
LEMMA InitCounted ==
    ASSUME Init
    PROVE  Counted
<1>1. \A d \in Days : Waiting(d) = {}
  BY IdleType, Labels DEF Init, Waiting, At
<1>2. \A d \in Days : quota[d] = None /\ sent[d] = 0
  BY DEF Init
<1> QED
  BY <1>1, <1>2, FS_EmptySet, Sizes DEF Counted, CountOf

\* and every step counts the requests it makes.
LEMMA NextCounted ==
    ASSUME Typed, Counted, [Next]_vars
    PROVE  Counted'
<1>1. CASE Tick \/ Configure \/ UNCHANGED vars
  BY <1>1 DEF Tick, Configure, vars, history, Counted, Waiting, At
<1>2. CASE \E r \in Runs : Reserve(r)
  BY <1>2, CountedReserve
<1>3. CASE ~(Tick \/ Configure \/ UNCHANGED vars) /\ ~(\E r \in Runs : Reserve(r))
  BY <1>3, CountedSteps DEF Next, Request
<1> QED
  BY <1>1, <1>2, <1>3

\* No day's requests exceed its budget, in however many processes the runs are
\* and wherever they end.
THEOREM BudgetKept == Spec => []WithinBudget
<1>1. Init => Counted
  BY InitCounted
<1>2. Typed /\ Counted /\ [Next]_vars => Counted'
  BY NextCounted
<1>3. Typed /\ Counted => WithinBudget
  <2> SUFFICES ASSUME Typed, Counted, NEW d \in Days
               PROVE  sent[d] <= DailyBudget
    BY DEF WithinBudget
  <2>1. Waiting(d) \in SUBSET Runs /\ IsFiniteSet(Runs)
    BY ConstantsAssumption DEF Waiting
  <2>2. Cardinality(Waiting(d)) \in Nat
    BY <2>1, FS_Subset, FS_CardinalityType
  <2> QED
    BY <2>2, CountType, Sizes DEF Counted
<1> QED
  BY <1>1, <1>2, <1>3, AlwaysTyped, PTL DEF Spec

-----------------------------------------------------------------------------
(* The cooldown. *)

LEMMA EndCools ==
    ASSUME Typed, Cooling, NEW r \in Runs, NEW status, End(r, status)
    PROVE  Cooling'
<1>1. now \in Nat /\ source.next \in Nat
  BY DEF Typed, TypeOK, Instants
<1>2. source'.next = Cooled(run[r], status) /\ ended' = IF run[r].used > 0 THEN now ELSE ended
  BY DEF End, Typed, TypeOK
<1>3. CASE run[r].used > 0
  BY <1>1, <1>2, <1>3, Sizes DEF Cooled, Cooling
<1>4. CASE ~(run[r].used > 0)
  BY <1>1, <1>2, <1>4 DEF Cooled, Cooling
<1> QED
  BY <1>3, <1>4

\* Every step leaves the cooldown in place,
LEMMA NextCooling ==
    ASSUME Typed, Cooling, [Next]_vars
    PROVE  Cooling'
<1>1. CASE source' = source /\ ended' = ended
  BY <1>1 DEF Cooling
<1>2. CASE Configure
  BY <1>2 DEF Configure, Cooling, history, Typed, TypeOK
<1>3. CASE \E r \in Runs : \E status \in Statuses : End(r, status)
  BY <1>3, EndCools
<1>4. CASE \E r \in Runs : Request(r)
  <2>1. PICK r \in Runs : Request(r)
    BY <1>4
  <2>2. CASE Refuse(r) \/ Lose(r) \/ RecordWrite(r)
    BY <1>1, <1>3, <2>2, PartlyType DEF Refuse, Lose, RecordWrite
  <2>3. CASE \/ Reserve(r) \/ AnswerOnly(r) \/ RecordRead(r)
             \/ \E ok \in BOOLEAN, limit \in ServerLimits, gap \in ServerGaps :
                  \E remaining \in {0, limit} : Answer(r, ok, limit, remaining, gap)
    BY <1>1, <2>3 DEF Reserve, AnswerOnly, RecordRead, Answer, history
  <2> QED
    BY <2>1, <2>2, <2>3 DEF Request
<1>5. CASE \E r \in Runs : Fail(r) \/ Finish(r)
  BY <1>3, <1>5, SessionOf, Labels DEF Fail, Finish
<1>6. CASE \/ Tick \/ UNCHANGED vars
           \/ \E r \in Runs, w \in workers : Begin(r, w)
           \/ \E r \in Runs : Look(r) \/ (\E more \in BOOLEAN : Store(r, more))
           \/ \E r \in Runs : Save(r) \/ Crash(r)
  BY <1>1, <1>6 DEF Tick, vars, history, Begin, Look, Store, Save, Crash
<1> QED
  BY <1>2, <1>4, <1>5, <1>6 DEF Next

\* and so it always is.
LEMMA AlwaysCooling == Spec => []Cooling
<1>1. Init => Cooling
  BY DEF Init, Cooling
<1>2. Typed /\ Cooling /\ [Next]_vars => Cooling'
  BY NextCooling
<1> QED
  BY <1>1, <1>2, AlwaysTyped, PTL DEF Spec

\* No sync begins before the cooldown of the last one that made a request is over,
\* however that one ended.
THEOREM SyncsCoolDown == Spec => CoolsDown
<1>1. Typed /\ Cooling /\ [Next]_vars =>
        [begun' > begun /\ ended # None => now >= ended + Cooldown]_vars
  <2> SUFFICES ASSUME Typed, Cooling, [Next]_vars, begun' > begun, ended # None
               PROVE  now >= ended + Cooldown
    OBVIOUS
  <2>1. begun \in Nat /\ now \in Nat /\ source.next \in Nat /\ ended \in Nat
    BY DEF Typed, TypeOK, Instants
  <2>2. \E r \in Runs, w \in workers : Begin(r, w)
    <3>1. begun' # begun
      BY <2>1
    <3> QED
      BY <3>1, ZenonT(60) DEF Next, Tick, Configure, Request, Reserve, Refuse, Lose, AnswerOnly, Answer,
                  RecordRead, RecordWrite, Look, Store, Fail, Save, Finish, Crash, vars
  <2> QED
    BY <2>1, <2>2, Sizes DEF Begin, Cooling
<1> QED
  BY <1>1, AlwaysTyped, AlwaysCooling, PTL DEF Spec, CoolsDown

-----------------------------------------------------------------------------
(* The slots of one process. *)

LEMMA OneWorker ==
    ASSUME Cardinality(workers) = 1, Typed
    PROVE  \E w \in Workers : workers = {w}
<1>1. IsFiniteSet(Workers) /\ workers \in SUBSET Workers
  BY ConstantsAssumption DEF Typed, TypeOK
<1>2. IsFiniteSet(workers)
  BY <1>1, FS_Subset
<1>3. \E w : workers = {w}
  BY <1>2, FS_Singleton
<1> QED
  BY <1>1, <1>3

\* A run that does not come to write leaves the row to the one that does.
LEMMA OneWriterKept ==
    ASSUME Typed, OneWriter, NEW r \in Runs, NEW t, Become(r, t), t.pc # "write",
           t.pc = "idle" \/ t.worker \in workers \/ (~At(r, "idle") /\ t.worker = run[r].worker),
           workers' = workers, quota' = quota, slot' = slot
    PROVE  OneWriter'
<1>1. \A q \in Runs : run'[q] = IF q = r THEN t ELSE run[q]
  BY DEF Typed, TypeOK, Become
<1> SUFFICES ASSUME Cardinality(workers) = 1
             PROVE  /\ \A q \in Runs : ~At(q, "idle")' => run'[q].worker \in workers
                    /\ \A p, q \in Runs : At(p, "write")' /\ At(q, "write")' => p = q
                    /\ \A q \in Runs : At(q, "write")' => run'[q].usage = quota[DayOf(run'[q].asked)]
                    /\ \A d \in Days : quota[d] # None => quota[d].next >= slot[d] + Gap
  BY DEF OneWriter, At, DayOf
<1> QED
  BY <1>1 DEF OneWriter, At

\* A worker reserves a slot a gap later than the last one.
LEMMA OneWriterReserve ==
    ASSUME Typed, OneWriter, NEW r \in Runs, Reserve(r)
    PROVE  /\ OneWriter'
           /\ Cardinality(workers) = 1 =>
                \A d \in Days : quota[d] # None /\ quota'[d].count > quota[d].count
                                  => slot'[d] >= slot[d] + Gap
<1> DEFINE day == DayOf(run[r].asked)
           u == UsageOf(day)
<1>1. PICK t \in Session : Become(r, t) /\ Alike(t, run[r]) /\ t.pc = "send"
  BY ReserveType
<1>2. PICK row \in Usage : quota' = [quota EXCEPT ![day] = row] /\ row.next >= slot'[day] + Gap
  BY ReserveType
<1>3. /\ run[r].pc = "reserve" /\ ~Locked(run[r].worker) /\ workers' = workers
      /\ slot' = [slot EXCEPT ![day] = Larger(run[r].asked, u.next)]
  BY DEF Reserve, At
<1>4. day \in Days /\ u \in Usage /\ run[r].asked \in Nat /\ u.next \in Nat
  BY SessionOf, UsageType DEF Instants, Usage
<1>5. /\ \A d \in Days : quota'[d] = IF d = day THEN row ELSE quota[d]
      /\ \A d \in Days : slot'[d] = IF d = day THEN Larger(run[r].asked, u.next) ELSE slot[d]
      /\ \A q \in Runs : run'[q] = IF q = r THEN t ELSE run[q]
  BY <1>1, <1>2, <1>3, <1>4 DEF Typed, TypeOK, Become
<1>6. \A d \in Days : /\ slot[d] \in Nat
                      /\ quota[d] # None => quota[d].next \in Nat /\ quota[d].count \in Nat
  BY DEF Typed, TypeOK, Usage
<1> SUFFICES ASSUME Cardinality(workers) = 1
             PROVE  /\ OneWriter'
                    /\ \A d \in Days : quota[d] # None /\ quota'[d].count > quota[d].count
                                         => slot'[d] >= slot[d] + Gap
  BY <1>3 DEF OneWriter
<1>7. PICK w \in Workers : workers = {w}
  BY OneWorker
<1>8. \A q \in Runs : ~At(q, "write")
  BY <1>3, <1>7 DEF OneWriter, Locked, At
<1>9. OneWriter'
  <2>1. \A q \in Runs : ~At(q, "idle")' => run'[q].worker \in workers
    BY <1>1, <1>3, <1>5 DEF OneWriter, At, Alike
  <2>2. \A q \in Runs : ~At(q, "write")'
    BY <1>1, <1>5, <1>8 DEF At
  <2>3. \A d \in Days : quota'[d] # None => quota'[d].next >= slot'[d] + Gap
    BY <1>2, <1>5 DEF OneWriter
  <2> QED
    BY <1>3, <2>1, <2>2, <2>3 DEF OneWriter
<1>10. ASSUME NEW d \in Days, quota[d] # None, quota'[d].count > quota[d].count
       PROVE  slot'[d] >= slot[d] + Gap
  <2>1. d = day
    BY <1>5, <1>6, <1>10
  <2>2. u = quota[d] /\ quota[d].next >= slot[d] + Gap
    BY <1>10, <2>1 DEF UsageOf, OneWriter
  <2> QED
    BY <1>4, <1>5, <1>6, <2>1, <2>2, Sizes DEF Larger
<1> QED
  BY <1>9, <1>10

\* A worker that reads the row has no other session between its read and write.
LEMMA OneWriterRead ==
    ASSUME Typed, OneWriter, NEW r \in Runs, RecordRead(r)
    PROVE  OneWriter'
<1> DEFINE day == DayOf(run[r].asked)
<1>1. PICK t \in Session : /\ Become(r, t) /\ Alike(t, run[r]) /\ t.asked = run[r].asked
                           /\ t.usage = quota[day]
  BY RecordReadType
<1>2. /\ run[r].pc = "record" /\ ~Locked(run[r].worker)
      /\ workers' = workers /\ quota' = quota /\ slot' = slot
  BY DEF RecordRead, At, history
<1>3. \A q \in Runs : run'[q] = IF q = r THEN t ELSE run[q]
  BY <1>1 DEF Typed, TypeOK, Become
<1> SUFFICES ASSUME Cardinality(workers) = 1
             PROVE  /\ \A q \in Runs : ~At(q, "idle")' => run'[q].worker \in workers
                    /\ \A p, q \in Runs : At(p, "write")' /\ At(q, "write")' => p = q
                    /\ \A q \in Runs : At(q, "write")' => run'[q].usage = quota[DayOf(run'[q].asked)]
                    /\ \A d \in Days : quota[d] # None => quota[d].next >= slot[d] + Gap
  BY <1>2 DEF OneWriter, At, DayOf
<1>4. PICK w \in Workers : workers = {w}
  BY OneWorker
<1>5. \A q \in Runs : ~At(q, "write")
  BY <1>2, <1>4 DEF OneWriter, Locked, At
<1>6. \A q \in Runs : ~At(q, "idle")' => run'[q].worker \in workers
  BY <1>1, <1>2, <1>3 DEF OneWriter, At, Alike
<1>7. \A q \in Runs : At(q, "write")' => q = r
  BY <1>3, <1>5 DEF At
<1> QED
  BY <1>1, <1>3, <1>6, <1>7 DEF OneWriter

\* The next slot in the row that was read is only moved back.
LEMMA RecordedNext ==
    ASSUME NEW s \in Session, NEW u \in Usage, s.usage = u, s.limit # None
    PROVE  Recorded(u, s).next >= u.next /\ Recorded(u, s).next \in Nat /\ u.next \in Nat
<1> DEFINE next == NextAfter(u.next, s.asked + s.gap)
           l == IF s.limit < u.limit THEN s.limit ELSE u.limit
           b == IF Tightened(s.limit) < u.budget THEN Tightened(s.limit) ELSE u.budget
<1>1. s.asked \in Nat /\ s.gap \in Nat /\ u.next \in Nat
  BY DEF Session, Usage, Instants
<1>2. next \in Nat /\ next >= u.next
  BY <1>1 DEF NextAfter, Larger
<1>3. Recorded(u, s) = [u EXCEPT !.remaining = s.remaining, !.gap = s.gap,
                                 !.next = IF next # u.next THEN next ELSE u.next,
                                 !.limit = l, !.budget = b]
  BY DEF Recorded
<1> HIDE DEF next, l, b
<1>4. Recorded(u, s).next = IF next # u.next THEN next ELSE u.next
  BY <1>3, Zenon DEF Usage
<1> QED
  BY <1>1, <1>2, <1>4

\* It writes back the row that it read, or an earlier slot of another day.
LEMMA OneWriterWrite ==
    ASSUME Typed, OneWriter, NEW r \in Runs, RecordWrite(r)
    PROVE  OneWriter'
<1> DEFINE s == run[r]
           day == DayOf(s.asked)
           row == Recorded(quota[day], s)
<1>1. PICK t \in Session : /\ Become(r, t)
                           /\ t.pc = "idle" \/ (t.pc = "page" /\ t.worker = s.worker)
  BY RecordWriteType DEF Alike
<1>2. /\ s.pc = "write" /\ workers' = workers /\ slot' = slot
      /\ quota' = IF s.usage = None THEN quota ELSE [quota EXCEPT ![day] = row]
  BY DEF RecordWrite, At
<1>3. \A q \in Runs : run'[q] = IF q = r THEN t ELSE run[q]
  BY <1>1 DEF Typed, TypeOK, Become
<1>4. s \in Session /\ Stage(s) /\ Recording(s) /\ day \in Days /\ quota[day] \in Usage \cup {None}
  BY SessionOf DEF Typed, TypeOK
<1> SUFFICES ASSUME Cardinality(workers) = 1
             PROVE  /\ \A q \in Runs : ~At(q, "idle")' => run'[q].worker \in workers
                    /\ \A q \in Runs : ~At(q, "write")'
                    /\ \A d \in Days : quota'[d] # None => quota'[d].next >= slot[d] + Gap
  BY <1>2 DEF OneWriter, At, DayOf
<1>5. \A q \in Runs : ~At(q, "idle")' => run'[q].worker \in workers
  BY <1>1, <1>2, <1>3 DEF OneWriter, At
<1>6. \A q \in Runs : ~At(q, "write")'
  BY <1>1, <1>2, <1>3 DEF OneWriter, At
<1>7. CASE s.usage = None
  BY <1>2, <1>5, <1>6, <1>7 DEF OneWriter
<1>8. CASE s.usage # None
  <2>1. s.usage = quota[day] /\ quota[day] \in Usage /\ s.limit # None
    BY <1>2, <1>4, <1>8 DEF OneWriter, At, Stage
  <2>2. quota[day].next >= slot[day] + Gap /\ slot[day] \in Nat
    BY <1>4, <1>8, <2>1 DEF OneWriter, Typed, TypeOK
  <2> HIDE DEF s, day
  <2>3. row.next >= quota[day].next /\ row.next \in Nat /\ quota[day].next \in Nat
    BY <1>4, <2>1, RecordedNext
  <2> HIDE DEF row
  <2>4. \A d \in Days : quota'[d] = IF d = day THEN row ELSE quota[d]
    BY <1>2, <1>4, <1>8 DEF Typed, TypeOK
  <2>5. row.next >= slot[day] + Gap
    BY <2>2, <2>3, Sizes
  <2> QED
    BY <1>5, <1>6, <2>4, <2>5 DEF OneWriter
<1> QED
  BY <1>7, <1>8

\* The other steps leave the slots alone.
LEMMA OneWriterSteps ==
    ASSUME Typed, OneWriter, NEW r \in Runs,
           \/ \E w \in workers : Begin(r, w)
           \/ Refuse(r) \/ Lose(r) \/ Fail(r) \/ Finish(r) \/ Crash(r)
           \/ \E ok \in BOOLEAN, limit \in ServerLimits, gap \in ServerGaps :
                \E remaining \in {0, limit} : Answer(r, ok, limit, remaining, gap)
           \/ AnswerOnly(r)
           \/ Look(r) \/ (\E more \in BOOLEAN : Store(r, more)) \/ Save(r)
    PROVE  OneWriter'
<1>1. workers' = workers /\ quota' = quota /\ slot' = slot
  BY DEF Begin, Refuse, Lose, Fail, Finish, Crash, Answer, AnswerOnly, Look, Store, Save, history
<1>2. \E t \in Session :
        /\ Become(r, t) /\ t.pc # "write"
        /\ t.pc = "idle" \/ t.worker \in workers \/ (~At(r, "idle") /\ t.worker = run[r].worker)
  <2>1. CASE \E w \in workers : Begin(r, w)
    BY <2>1, BeginType
  <2>2. CASE Refuse(r) \/ Lose(r) \/ Fail(r) \/ Finish(r) \/ Crash(r)
    BY <2>2, EndsType, CrashType
  <2>3. CASE \E ok \in BOOLEAN, limit \in ServerLimits, gap \in ServerGaps :
               \E remaining \in {0, limit} : Answer(r, ok, limit, remaining, gap)
    <3>1. At(r, "send") /\ run[r] \in Session
      BY <2>3, SessionOf DEF Answer
    <3>2. \E t \in Session : \E ok \in BOOLEAN :
            /\ Become(r, t) /\ Alike(t, IF ok THEN Read(run[r]) ELSE run[r]) /\ t.pc = "record"
      BY <2>3, AnswerType
    <3> QED
      BY <3>1, <3>2, ReadType DEF Alike, At
  <2>4. CASE AnswerOnly(r)
    <3>1. At(r, "send") /\ run[r] \in Session
      BY <2>4, SessionOf DEF AnswerOnly
    <3> QED
      BY <2>4, <3>1, AnswerOnlyType, ReadType DEF Alike, At
  <2>5. CASE Look(r) \/ (\E more \in BOOLEAN : Store(r, more)) \/ Save(r)
    <3>1. ~At(r, "idle")
      BY <2>5 DEF Look, Store, Save, At
    <3> QED
      BY <2>5, <3>1, LookType, StoreType, SaveType DEF Alike, Onward
  <2> QED
    BY <2>1, <2>2, <2>3, <2>4, <2>5
<1> QED
  BY <1>1, <1>2, OneWriterKept

\* No session is recording in the first state,
LEMMA InitOneWriter ==
    ASSUME Init
    PROVE  OneWriter
<1>1. \A r \in Runs : At(r, "idle")
  BY IdleType, Labels DEF Init, At
<1> QED
  BY <1>1 DEF OneWriter, At, Init

\* no step makes one record what another worker has changed,
LEMMA NextOneWriter ==
    ASSUME Typed, OneWriter, [Next]_vars
    PROVE  OneWriter'
<1>1. CASE Tick \/ Configure \/ UNCHANGED vars
  BY <1>1 DEF Tick, Configure, vars, history, OneWriter, At
<1>2. CASE ~(Tick \/ Configure \/ UNCHANGED vars)
  BY <1>2, OneWriterReserve, OneWriterRead, OneWriterWrite, OneWriterSteps DEF Next, Request
<1> QED
  BY <1>1, <1>2

\* and so none ever does.
LEMMA AlwaysOneWriter == Spec => []OneWriter
<1>1. Init => OneWriter
  BY InitOneWriter
<1>2. Typed /\ OneWriter /\ [Next]_vars => OneWriter'
  BY NextOneWriter
<1> QED
  BY <1>1, <1>2, AlwaysTyped, PTL DEF Spec

\* Where one process serves all runs, two slots of a day are never closer than the
\* settings' gap, whatever answers are recorded between them.
THEOREM SlotsStaySpaced == Spec => SlotsSpaced
<1> DEFINE A == \A d \in Days :
                  Cardinality(workers) = 1 /\ quota[d] # None /\ quota'[d].count > quota[d].count
                    => slot'[d] >= slot[d] + Gap
<1>1. Typed /\ OneWriter /\ [Next]_vars => [A]_vars
  <2> SUFFICES ASSUME Typed, OneWriter, [Next]_vars, Cardinality(workers) = 1, NEW d \in Days,
                      quota[d] # None, quota'[d].count > quota[d].count
               PROVE  slot'[d] >= slot[d] + Gap
    OBVIOUS
  <2>1. CASE \E r \in Runs : Reserve(r)
    BY <2>1, OneWriterReserve
  <2>2. CASE ~\E r \in Runs : Reserve(r)
    <3>1. CASE \E r \in Runs : RecordWrite(r)
      <4>1. CountOf(quota'[d]) = CountOf(quota[d]) /\ RowsStay
        BY <3>1, RecordWriteType
      <4>2. quota'[d].count = quota[d].count /\ quota[d].count \in Nat
        BY <4>1 DEF CountOf, RowsStay, Typed, TypeOK, Usage
      <4> QED
        BY <4>2
    <3>2. CASE ~\E r \in Runs : RecordWrite(r)
      <4>1. quota' = quota
        BY <2>2, <3>2 DEF Next, Tick, Configure, Begin, Request, Refuse, Lose, AnswerOnly, Answer,
                  RecordRead, Look, Store, Fail, Save, Finish, Crash, vars
      <4> QED
        BY <4>1 DEF Typed, TypeOK, Usage
    <3> QED
      BY <3>1, <3>2
  <2> QED
    BY <2>1, <2>2
<1> QED
  BY <1>1, AlwaysTyped, AlwaysOneWriter, PTL DEF Spec, SlotsSpaced

-----------------------------------------------------------------------------
(* The raw events. *)

\* Nothing is stored, and a run changes what it holds.
LEMMA RowsApartKept ==
    ASSUME Typed, RowsApart, NEW r \in Runs, NEW t, Become(r, t), Apart(t), raw' = raw
    PROVE  RowsApart'
<1>1. \A q \in Runs : run'[q] = IF q = r THEN t ELSE run[q]
  BY DEF Typed, TypeOK, Become
<1>2. StoredOnce'
  BY DEF RowsApart, StoredOnce
<1>3. \A q \in Runs : Apart(run'[q])
  BY <1>1 DEF RowsApart
<1>4. \A q \in Runs : Apart(run[q])'
  BY <1>3 DEF Apart
<1> QED
  BY <1>2, <1>4 DEF RowsApart, HasBase

\* What is selected is missing in the table.
LEMMA RowsApartLook ==
    ASSUME Typed, RowsApart, NEW r \in Runs, Look(r)
    PROVE  RowsApart'
<1> DEFINE s == run[r]
<1>1. PICK t \in Session : Become(r, t) /\ t.page = s.page /\ t.rows = NewRows(s.page)
  BY LookType
<1>2. raw' = raw
  BY DEF Look
<1>3. s \in Session /\ Apart(s)
  BY SessionOf DEF RowsApart
<1> HIDE DEF s
<1>4. s.page \in Pages
  BY <1>3, SessionIs, Zenon
<1>5. \A p \in s.page : p[1] \in Transactions \cup {Wallet} /\ p[2] \in Versions
  BY <1>4 DEF Pages
<1>6. ASSUME NEW x \in NewRows(s.page)
      PROVE  \E p \in s.page :
               /\ x = [item |-> p[1], version |-> p[2],
                       revision |-> p[1] = Wallet \/ Base(p[1]) # {}]
               /\ ~\E y \in raw : y.item = p[1] /\ y.version = p[2]
  <2>1. PICK p \in s.page : x \in NewRow(p[1], p[2])
    BY <1>4, <1>6, NewRowsType
  <2>2. ~\E y \in raw : y.item = p[1] /\ y.version = p[2]
    BY <2>1, Zenon DEF NewRow
  <2>3. x = [item |-> p[1], version |-> p[2],
             revision |-> p[1] = Wallet \/ Base(p[1]) # {}]
    BY <2>1, <2>2, Zenon DEF NewRow
  <2> QED
    BY <2>2, <2>3
<1>7. \A x, y \in t.rows : x.item = y.item => x = y
  BY <1>1, <1>3, <1>6 DEF Apart
<1>8. ASSUME NEW x \in t.rows
      PROVE  /\ x.item = Wallet => x.revision
             /\ x.revision /\ x.item # Wallet =>
                  \E y \in raw : y.item = x.item /\ ~y.revision /\ y.version # x.version
  <2>1. PICK p \in s.page :
          /\ x = [item |-> p[1], version |-> p[2],
                  revision |-> p[1] = Wallet \/ Base(p[1]) # {}]
          /\ ~\E y \in raw : y.item = p[1] /\ y.version = p[2]
    BY <1>1, <1>6
  <2>2. /\ x.item = p[1] /\ x.version = p[2]
        /\ x.revision = (p[1] = Wallet \/ Base(p[1]) # {})
    BY <2>1
  <2>3. Base(p[1]) # {} => \E y \in raw : y.item = p[1] /\ ~y.revision
    BY DEF Base
  <2> QED
    BY <2>1, <2>2, <2>3
<1>9. Apart(t)
  BY <1>1, <1>3, <1>7, <1>8 DEF Apart
<1> QED
  BY <1>1, <1>2, <1>9, RowsApartKept

\* One insert leaves the rows of another session's page apart from the table.
LEMMA RowsApartStore ==
    ASSUME Typed, RowsApart, NEW r \in Runs, NEW more \in BOOLEAN, Store(r, more)
    PROVE  RowsApart'
<1> DEFINE rows == run[r].rows
<1>1. PICK t \in Session : Become(r, t) /\ t.page = {} /\ t.rows = {}
  BY StoreType
<1>2. raw' = raw \cup rows /\ ~Collides(rows)
  BY DEF Store
<1>3. Apart(run[r]) /\ run[r] \in Session
  BY SessionOf DEF RowsApart
<1>4. rows \in SUBSET Row /\ raw \in SUBSET Row
  BY <1>3 DEF Session, Typed, TypeOK
<1>5. \A x \in raw \cup rows : x.revision \in BOOLEAN
  BY <1>4 DEF Row
<1>6. /\ \A x, y \in rows : x.item = y.item => x = y
      /\ \A x \in rows :
           /\ x.item = Wallet => x.revision
           /\ x.revision /\ x.item # Wallet =>
                \E y \in raw : y.item = x.item /\ ~y.revision /\ y.version # x.version
  BY <1>3 DEF Apart
<1>7. \A q \in Runs : run'[q] = IF q = r THEN t ELSE run[q]
  BY <1>1 DEF Typed, TypeOK, Become
<1> HIDE DEF rows
<1>8. ASSUME NEW x \in rows, NEW y \in raw, x.item = y.item
      PROVE  x.version # y.version /\ (x.revision \/ y.revision)
  <2>1. ~(x.revision = y.revision /\ (x.revision => x.version = y.version))
    BY <1>2, <1>8 DEF Collides
  <2>2. CASE x.revision
    <3>1. CASE y.revision
      BY <1>5, <2>1, <2>2, <3>1
    <3>2. CASE ~y.revision
      <4>1. x.item # Wallet
        BY <1>8, <3>2 DEF RowsApart
      <4>2. PICK z \in raw : z.item = x.item /\ ~z.revision /\ z.version # x.version
        BY <1>6, <2>2, <4>1
      <4>3. z = y
        BY <1>8, <3>2, <4>2 DEF RowsApart
      <4> QED
        BY <2>2, <4>2, <4>3
    <3> QED
      BY <3>1, <3>2
  <2>3. CASE ~x.revision
    <3>1. y.revision
      BY <1>5, <2>1, <2>3
    <3>2. x.item # Wallet
      BY <1>6, <2>3
    <3>3. PICK z \in raw : z.item = x.item /\ ~z.revision
      BY <1>8, <3>1, <3>2 DEF RowsApart, HasBase
    <3>4. Collides(rows)
      BY <1>5, <2>3, <3>3 DEF Collides
    <3> QED
      BY <1>2, <3>4
  <2> QED
    BY <2>2, <2>3
<1>9. StoredOnce'
  <2>1. \A x, y \in raw : x.item = y.item /\ x.version = y.version => x = y
    BY DEF RowsApart, StoredOnce
  <2> QED
    BY <1>2, <1>6, <1>8, <2>1 DEF StoredOnce
<1>10. \A x, y \in raw \cup rows : x.item = y.item /\ ~x.revision /\ ~y.revision => x = y
  <2>1. \A x, y \in raw : x.item = y.item /\ ~x.revision /\ ~y.revision => x = y
    BY DEF RowsApart
  <2> QED
    BY <1>6, <1>8, <2>1
<1>11. \A x \in raw \cup rows : x.item = Wallet => x.revision
  BY <1>6 DEF RowsApart
<1>12. \A x \in raw \cup rows : x.revision /\ x.item # Wallet => HasBase(x.item)'
  BY <1>2, <1>6 DEF RowsApart, HasBase
<1>13. ASSUME NEW q \in Runs
       PROVE  Apart(run[q])'
  <2>1. CASE q = r
    BY <1>1, <1>7, <2>1 DEF Apart
  <2>2. CASE q # r
    <3>1. run'[q] = run[q] /\ Apart(run[q])
      BY <1>7, <2>2 DEF RowsApart
    <3> QED
      BY <1>2, <3>1 DEF Apart
  <2> QED
    BY <2>1, <2>2
<1> QED
  BY <1>2, <1>9, <1>10, <1>11, <1>12, <1>13 DEF RowsApart

\* A page has one version of a payload.
LEMMA ReadApart ==
    ASSUME NEW s \in Session, Apart(s), NEW t, Alike(t, Read(s))
    PROVE  Apart(t)
<1>1. s.want \in Wants
  BY Zenon DEF Session
<1>2. Read(s).rows = s.rows
  BY ReadType
<1>3. \E items \in SUBSET (Transactions \cup {Wallet}) : Read(s).page = Versioned(items)
  <2>1. Page(None) \in SUBSET Transactions /\ Page(Candidate(s)) \in SUBSET Transactions
    BY PageType
  <2> QED
    BY <1>1, <2>1, ReadType DEF Wants
<1>4. \A p, q \in Read(s).page : p[1] = q[1] => p = q
  BY <1>3, VersionedType
<1> QED
  BY <1>2, <1>4 DEF Alike, Apart

\* The other steps insert nothing.
LEMMA RowsApartSteps ==
    ASSUME Typed, RowsApart, NEW r \in Runs,
           \/ \E w \in workers : Begin(r, w)
           \/ Reserve(r) \/ Refuse(r) \/ Lose(r) \/ Fail(r) \/ Finish(r) \/ Crash(r)
           \/ \E ok \in BOOLEAN, limit \in ServerLimits, gap \in ServerGaps :
                \E remaining \in {0, limit} : Answer(r, ok, limit, remaining, gap)
           \/ AnswerOnly(r) \/ RecordRead(r) \/ RecordWrite(r) \/ Save(r)
    PROVE  RowsApart'
<1>1. raw' = raw
  BY DEF Begin, Reserve, Refuse, Lose, Fail, Finish, Crash, Answer, AnswerOnly, RecordRead,
         RecordWrite, Save, history
<1>2. run[r] \in Session /\ Apart(run[r])
  BY SessionOf DEF RowsApart
<1>3. \A t : Alike(t, run[r]) => Apart(t)
  BY <1>2 DEF Alike, Apart
<1>4. \A t : t.page = {} /\ t.rows = {} => Apart(t)
  BY DEF Apart
<1>5. \E t \in Session : Become(r, t) /\ Apart(t)
  <2>1. CASE \/ \E w \in workers : Begin(r, w)
             \/ Refuse(r) \/ Lose(r) \/ Fail(r) \/ Finish(r) \/ Crash(r)
    BY <1>4, <2>1, BeginType, EndsType, CrashType
  <2>2. CASE Reserve(r) \/ RecordRead(r) \/ RecordWrite(r) \/ Save(r)
    BY <1>3, <1>4, <2>2, ReserveType, RecordReadType, RecordWriteType, SaveType
  <2>3. CASE \/ \E ok \in BOOLEAN, limit \in ServerLimits, gap \in ServerGaps :
                  \E remaining \in {0, limit} : Answer(r, ok, limit, remaining, gap)
             \/ AnswerOnly(r)
    <3>1. \E t \in Session : \E ok \in BOOLEAN :
            Become(r, t) /\ Alike(t, IF ok THEN Read(run[r]) ELSE run[r])
      BY <2>3, AnswerType, AnswerOnlyType, ZenonT(60)
    <3> QED
      BY <1>2, <1>3, <3>1, ReadApart
  <2> QED
    BY <2>1, <2>2, <2>3
<1> QED
  BY <1>1, <1>5, RowsApartKept

\* The tables are empty at first,
LEMMA InitRowsApart ==
    ASSUME Init
    PROVE  RowsApart
<1>1. \A r \in Runs : run[r].page = {} /\ run[r].rows = {}
  BY IdleType, Labels DEF Init
<1> QED
  BY <1>1 DEF RowsApart, StoredOnce, Apart, Init

\* and every step keeps the payloads apart.
LEMMA NextRowsApart ==
    ASSUME Typed, RowsApart, [Next]_vars
    PROVE  RowsApart'
<1>1. CASE Tick \/ Configure \/ UNCHANGED vars
  <2>1. raw' = raw /\ run' = run
    BY <1>1 DEF Tick, Configure, vars
  <2> QED
    BY <2>1 DEF RowsApart, StoredOnce, HasBase, Apart
<1>2. CASE ~(Tick \/ Configure \/ UNCHANGED vars)
  BY <1>2, RowsApartLook, RowsApartStore, RowsApartSteps DEF Next, Request
<1> QED
  BY <1>1, <1>2

\* No payload is stored twice, whatever runs look and store at the same time.
THEOREM PayloadsStoredOnce == Spec => []StoredOnce
<1>1. Init => RowsApart
  BY InitRowsApart
<1>2. Typed /\ RowsApart /\ [Next]_vars => RowsApart'
  BY NextRowsApart
<1>3. RowsApart => StoredOnce
  BY DEF RowsApart
<1> QED
  BY <1>1, <1>2, <1>3, AlwaysTyped, PTL DEF Spec

-----------------------------------------------------------------------------
(* The reader of the history. *)

\* The transactions that a page may show.
Older(url) == {e \in Transactions : Listed(e) /\ (url = None \/ e < url)}

\* A page is the newest of what is older than its link.
LEMMA PageIs ==
    ASSUME NEW url
    PROVE  Page(url) = {e \in Older(url) : Cardinality({d \in Older(url) : d > e}) < PageSize}
  BY DEF Page, Older, Listed

\* A page has its newest transactions, without a gap.
LEMMA PageFacts ==
    ASSUME NEW url, NEW P, P = Page(url)
    PROVE  /\ P \in SUBSET Transactions /\ P \subseteq Older(url)
           /\ P = {} => Older(url) = {}
           /\ P # {} => \A e \in Older(url) : e <= Newest(P)
           /\ \A d \in P, e \in Older(url) : d <= e => e \in P
<1> DEFINE O == Older(url)
           newer(e) == {d \in O : d > e}
<1>1. P = {e \in O : Cardinality(newer(e)) < PageSize}
  BY PageIs
<1>2. IsFiniteSet(Transactions) /\ \A e \in Transactions : e \in Int
  BY ConstantsAssumption
<1>3. O \in SUBSET Transactions
  BY DEF Older
<1> HIDE DEF O
<1>4. IsFiniteSet(O) /\ \A e \in O : e \in Int
  BY <1>2, <1>3, FS_Subset
<1>5. \A e : newer(e) \in SUBSET O
  OBVIOUS
<1>6. \A e : IsFiniteSet(newer(e)) /\ Cardinality(newer(e)) \in Nat
  <2> TAKE e
  <2>1. newer(e) \in SUBSET O
    BY <1>5
  <2> HIDE DEF newer
  <2> QED
    BY <1>4, <2>1, FS_Subset, FS_CardinalityType
<1>7. P \in SUBSET O /\ P \in SUBSET Transactions
  BY <1>1, <1>3
<1>8. ASSUME NEW d \in P, NEW e \in O, d <= e
      PROVE  e \in P
  <2>1. newer(e) \in SUBSET newer(d)
    BY <1>4, <1>7, <1>8
  <2>2. Cardinality(newer(d)) < PageSize
    BY <1>1
  <2> HIDE DEF newer
  <2>3. Cardinality(newer(e)) <= Cardinality(newer(d))
    BY <1>6, <2>1, FS_Subset
  <2> QED
    BY <1>1, <1>6, <2>2, <2>3, Sizes
<1>9. ASSUME O # {}
      PROVE  P # {} /\ \A e \in O : e <= Newest(P)
  <2>1. PICK g \in O : \A d \in O : d <= g
    <3>1. O \subseteq Int
      BY <1>4
    <3> QED
      BY <1>4, <1>9, <3>1, Greatest
  <2>2. newer(g) = {}
    BY <1>4, <2>1
  <2>3. Cardinality(newer(g)) = 0
    BY <2>2, FS_EmptySet
  <2>4. g \in P
    BY <1>1, <2>3, Sizes
  <2>5. Newest(P) \in P /\ g <= Newest(P)
    BY <1>7, <2>4, NewestIs
  <2> QED
    BY <1>4, <1>7, <2>1, <2>4, <2>5
<1> QED
  BY <1>7, <1>8, <1>9 DEF O

\* What may be on a page and is not older than its link is on it.
LEMMA LinkFacts ==
    ASSUME NEW url, NEW P, P = Page(url), NEW e \in Older(url),
           Link(P) = None \/ Link(P) <= e
    PROVE  e \in P
<1>1. P \in SUBSET Transactions /\ P # {} /\ e \in Transactions
  BY PageFacts DEF Older
<1>2. \A d \in Transactions : d \in Int
  BY ConstantsAssumption
<1>3. CASE \E d \in Transactions : \A f \in P : d < f
  <2>1. Link(P) = Oldest(P) /\ Oldest(P) \in P
    BY <1>1, <1>3, OldestIs DEF Link
  <2>2. Oldest(P) # None
    BY <1>1, <1>2, <2>1, Sizes
  <2> QED
    BY <2>1, <2>2, PageFacts
<1>4. CASE ~\E d \in Transactions : \A f \in P : d < f
  <2>1. PICK f \in P : ~(e < f)
    BY <1>1, <1>4
  <2>2. f <= e
    BY <1>1, <1>2, <2>1
  <2> QED
    BY <2>2, PageFacts
<1> QED
  BY <1>3, <1>4

\* A link leads on from a transaction that is listed.
LEMMA LinkListed ==
    ASSUME NEW url, Link(Page(url)) # None
    PROVE  Listed(Link(Page(url)))
<1>1. Page(url) \in SUBSET Transactions /\ Page(url) \subseteq Older(url)
  BY PageFacts
<1>2. Page(url) # {} /\ Link(Page(url)) = Oldest(Page(url))
  BY DEF Link
<1> QED
  BY <1>1, <1>2, OldestIs DEF Older

\* Transactions are listed in their order.
LEMMA ListedInOrder ==
    ASSUME Typed, NEW d \in Transactions, NEW e \in Transactions, d <= e, Listed(e)
    PROVE  Listed(d)
<1>1. d \in Int /\ e \in Int /\ ListedAt[d] \in Nat /\ ListedAt[e] \in Nat /\ now \in Nat
  BY ConstantsAssumption DEF Typed, TypeOK, Instants
<1>2. d = e \/ d < e
  BY <1>1
<1>3. ListedAt[d] <= ListedAt[e]
  BY <1>1, <1>2, ConstantsAssumption
<1> QED
  BY <1>1, <1>3 DEF Listed

\* What a step may do to what the other runs know.
Onwards ==
    /\ Stored \subseteq Stored'
    /\ \A e \in Transactions : Listed(e) => Listed(e)'
    /\ cursor # None => cursor' # None /\ \A e \in Transactions : e <= top' => e <= top

\* What a cursor promises, by element.
LEMMA PromisedIs ==
    ASSUME NEW c, NEW n
    PROVE  /\ c = None => Promised(c, n) = {}
           /\ c # None => \A e \in Transactions :
                e \in Promised(c, n) <=>
                  e <= n /\ (c.complete \/ (c.url # None /\ c.url <= e))
           /\ Promised(c, n) \in SUBSET Transactions
  BY DEF Promised

\* A session reads on while others store more.
LEMMA ReadingStays ==
    ASSUME Typed, NEW s \in Session, Reading(s), Onwards
    PROVE  Reading(s)'
<1>1. BeganWell(s)'
  <2> SUFFICES ASSUME s.cursor # None
               PROVE  /\ cursor' # None
                      /\ Promised(s.cursor, top') \subseteq Stored'
                      /\ s.cursor.url # None => Listed(s.cursor.url)'
    BY DEF BeganWell
  <2>1. /\ cursor # None /\ Promised(s.cursor, top) \subseteq Stored
        /\ s.cursor.url # None => Listed(s.cursor.url) /\ s.cursor.url \in Transactions
    BY DEF Reading, BeganWell, Session, Cursor
  <2>2. Promised(s.cursor, top') \subseteq Promised(s.cursor, top)
    BY <2>1, PromisedIs DEF Onwards
  <2> QED
    BY <2>1, <2>2 DEF Onwards
<1>2. s.url # None => Listed(s.url)'
  BY DEF Reading, Session, Onwards
<1>3. PageIsHeld(s)'
  BY DEF Reading, PageIsHeld, HasRead, Onwards
<1>4. ASSUME KnowsTop(s)
      PROVE  TopIsRead(s)'
  <2>1. TopIsRead(s) /\ BeganWell(s)
    BY <1>4 DEF Reading
  <2> QED
    BY <2>1 DEF TopIsRead, BeganWell, Onwards
<1>5. ASSUME KnowsTop(s)
      PROVE  ReadSoFar(s)'
  <2>1. Holds(s) \subseteq Holds(s)' /\ ReadSoFar(s) /\ BeganWell(s)
    BY <1>5 DEF Reading, Holds, Onwards
  <2>2. CASE s.pc = "save" \/ (s.want = "older" /\ HasRead(s))
    <3>1. Position(s) # None
      BY RowAssumption DEF Position, Cursor, Session
    <3>2. Promised(Position(s), Below(s)') \subseteq Promised(Position(s), Below(s))
      BY <2>1, <3>1, PromisedIs DEF Below, BeganWell, Onwards
    <3> QED
      BY <2>1, <2>2, <3>2 DEF ReadSoFar, HasRead
  <2>3. CASE ~(s.pc = "save" \/ (s.want = "older" /\ HasRead(s)))
    BY <2>1, <2>3 DEF ReadSoFar, HasRead
  <2> QED
    BY <2>2, <2>3
<1> QED
  BY <1>1, <1>2, <1>3, <1>4, <1>5 DEF Reading, KnowsTop, HasRead, Candidate

\* A run that changes what it knows, and leaves the cursor and what is stored.
LEMMA ReadsKept ==
    ASSUME Typed, Reads, NEW r \in Runs, NEW t, Become(r, t), UNCHANGED <<now, cursor, top, raw>>,
           t.pc \notin {"idle", "finish"} => Reading(t)
    PROVE  Reads'
<1>1. \A q \in Runs : run'[q] = IF q = r THEN t ELSE run[q]
  BY DEF Typed, TypeOK, Become
<1>2. \A s : Reading(s) => Reading(s)'
  BY DEF Reading, BeganWell, PageIsHeld, HasRead, KnowsTop, TopIsRead, ReadSoFar, Holds, Below,
         Position, Stored, Listed, Candidate
<1>3. \A q \in Runs : run'[q].pc \notin {"idle", "finish"} => Reading(run'[q])
  BY <1>1 DEF Reads
<1>4. \A q \in Runs : (run[q].pc \notin {"idle", "finish"} => Reading(run[q]))'
  BY <1>2, <1>3
<1> QED
  BY <1>4 DEF Reads, Stored, Listed

\* Between a request and its answer, and while headers are recorded, a run learns
\* nothing of the history.
LEMMA ReadingAlike ==
    ASSUME NEW s \in Session, NEW t \in Session, Alike(t, s), Reading(s),
           HasRead(t) <=> HasRead(s), t.pc # "save", t.pc # "store", s.pc # "save"
    PROVE  Reading(t)
<1>1. BeganWell(t) /\ (t.url # None => Listed(t.url))
  BY DEF Reading, BeganWell, Alike
<1>2. PageIsHeld(t)
  BY DEF Reading, PageIsHeld, Alike
<1>3. KnowsTop(t) => KnowsTop(s)
  BY DEF KnowsTop, Alike
<1>4. KnowsTop(t) => TopIsRead(t)
  BY <1>3 DEF Reading, TopIsRead, Alike
<1>5. Holds(t) = Holds(s) /\ Below(t) = Below(s) /\ Position(t) = Position(s)
  BY DEF Holds, Below, Position, Alike
<1>6. KnowsTop(t) => ReadSoFar(t)
  BY <1>3, <1>5 DEF Reading, ReadSoFar, Alike
<1>7. t.want = "older" /\ ~HasRead(t) => Candidate(t) # None
  BY DEF Reading, Candidate, Alike
<1> QED
  BY <1>1, <1>2, <1>4, <1>6, <1>7 DEF Reading

\* The newest page,
LEMMA ReadingRecent ==
    ASSUME Typed, Reads, NEW s \in Session, Reading(s), s.want = "recent",
           NEW t \in Session, Alike(t, Read(s)), HasRead(t), t.pc # "save", t.pc # "store"
    PROVE  Reading(t)
<1> DEFINE P == Page(None)
<1>1. /\ t.cursor = s.cursor /\ t.want = "recent" /\ t.page = Versioned(P) /\ t.url = Link(P)
      /\ t.top = IF P = {} THEN 0 ELSE Newest(P)
  BY ReadType DEF Alike
<1>2. /\ P \in SUBSET Transactions /\ \A e \in P : Listed(e)
      /\ P = {} => \A e \in Transactions : ~Listed(e)
      /\ P # {} => \A e \in Transactions : Listed(e) => e <= Newest(P)
  BY PageFacts DEF Older
<1>3. {p[1] : p \in t.page} = P
  BY <1>1, <1>2, VersionedType
<1>4. P # {} => Newest(P) \in P
  BY <1>2, NewestIs
<1>5. t.url # None => Listed(t.url)
  BY <1>1, LinkListed
<1>6. ASSUME NEW e \in Transactions, e <= t.top
      PROVE  Listed(e)
  <2>1. P # {}
    BY <1>1, <1>6, ConstantsAssumption
  <2> QED
    BY <1>1, <1>2, <1>4, <1>6, <2>1, ListedInOrder
<1>7. ASSUME NEW e \in Transactions, Listed(e)
      PROVE  e <= t.top
  BY <1>1, <1>2, <1>7
<1>8. ASSUME NEW e \in Transactions, e <= t.top, t.url = None \/ t.url <= e
      PROVE  e \in P
  <2>1. e \in Older(None)
    BY <1>6, <1>8 DEF Older
  <2> QED
    BY <1>1, <1>8, <2>1, LinkFacts
<1> HIDE DEF P
<1>9. BeganWell(t)
  BY <1>1 DEF Reading, BeganWell
<1>10. PageIsHeld(t)
  BY DEF PageIsHeld
<1>11. TopIsRead(t)
  BY <1>6, <1>7 DEF TopIsRead, Reads
<1>12. ReadSoFar(t)
  BY <1>1, <1>3, <1>8 DEF ReadSoFar, Holds
<1> QED
  BY <1>5, <1>9, <1>10, <1>11, <1>12 DEF Reading

\* the positions,
LEMMA ReadingPositions ==
    ASSUME Typed, Reads, NEW s \in Session, Reading(s), s.want = "positions", ~HasRead(s),
           s.pc # "save",
           NEW t \in Session, Alike(t, Read(s)), HasRead(t), t.pc # "save", t.pc # "store"
    PROVE  Reading(t)
<1>1. /\ t.cursor = s.cursor /\ t.want = "positions" /\ t.url = s.url /\ t.top = s.top
      /\ t.complete = s.complete
  BY ReadType DEF Alike
<1>2. s.page = {}
  BY DEF Reading, PageIsHeld
<1>3. BeganWell(t) /\ (t.url # None => Listed(t.url))
  BY <1>1 DEF Reading, BeganWell
<1>4. PageIsHeld(t)
  BY DEF PageIsHeld
<1>5. TopIsRead(t)
  BY <1>1 DEF Reading, KnowsTop, TopIsRead
<1>6. ReadSoFar(t)
  <2>1. \A e \in Transactions : e <= s.top /\ (s.url = None \/ s.url <= e) => e \in Holds(s)
    BY DEF Reading, KnowsTop, ReadSoFar
  <2>2. Holds(s) \subseteq Holds(t)
    BY <1>2 DEF Holds
  <2> QED
    BY <1>1, <2>1, <2>2 DEF ReadSoFar
<1> QED
  BY <1>1, <1>3, <1>4, <1>5, <1>6 DEF Reading

\* Where the backfill goes on, what is not older is promised by the cursor or was
\* on the run's first page.
LEMMA CandidateCovers ==
    ASSUME NEW s \in Session, BeganWell(s), TopIsRead(s),
           \A e \in Transactions : e <= s.top /\ (s.url = None \/ s.url <= e) => e \in Holds(s),
           NEW e \in Transactions, e <= Below(s), Candidate(s) = None \/ Candidate(s) <= e
    PROVE  e \in Holds(s)
<1>1. CASE s.cursor = None
  BY <1>1 DEF Candidate, Below
<1>2. CASE s.cursor # None
  <2>1. e <= top /\ e <= s.top
    BY <1>2 DEF Below, TopIsRead
  <2>2. e \in Promised(s.cursor, top) => e \in Holds(s)
    BY <1>2 DEF BeganWell, Holds
  <2>3. CASE s.cursor.complete
    BY <1>2, <2>1, <2>2, <2>3, PromisedIs
  <2>4. CASE ~s.cursor.complete /\ s.cursor.url # None
    BY <1>2, <2>1, <2>2, <2>4, PromisedIs DEF Candidate
  <2>5. CASE ~s.cursor.complete /\ s.cursor.url = None
    BY <1>2, <2>1, <2>5 DEF Candidate
  <2> QED
    BY <2>3, <2>4, <2>5
<1> QED
  BY <1>1, <1>2

\* and an older page are read as promised.
LEMMA ReadingOlder ==
    ASSUME Typed, Reads, NEW s \in Session, Reading(s), s.want = "older", ~HasRead(s),
           s.pc # "save",
           NEW t \in Session, Alike(t, Read(s)), HasRead(t), t.pc # "save", t.pc # "store"
    PROVE  Reading(t)
<1> DEFINE c == Candidate(s)
           P == Page(c)
<1>1. /\ t.cursor = s.cursor /\ t.want = "older" /\ t.page = Versioned(P) /\ t.url = Link(P)
      /\ t.complete = (Link(P) = None) /\ t.top = s.top
  BY ReadType DEF Alike
<1>2. P \in SUBSET Transactions
  BY PageType
<1>3. {p[1] : p \in t.page} = P
  BY <1>1, <1>2, VersionedType
<1>4. s.page = {} /\ c # None /\ c \in Transactions \cup {None}
  BY CandidateType DEF Reading, PageIsHeld
<1>5. t.url # None => Listed(t.url)
  BY <1>1, LinkListed
<1>6. BeganWell(t) /\ BeganWell(s)
  BY <1>1 DEF Reading, BeganWell
<1>7. PageIsHeld(t)
  BY DEF PageIsHeld
<1>8. TopIsRead(t) /\ TopIsRead(s)
  BY <1>1 DEF Reading, KnowsTop, TopIsRead
<1>9. \A e \in Transactions : e <= s.top /\ (s.url = None \/ s.url <= e) => e \in Holds(s)
  BY DEF Reading, KnowsTop, ReadSoFar
<1>10. ASSUME NEW e \in Transactions, e <= Below(s), Link(P) = None \/ Link(P) <= e
       PROVE  e \in Holds(t)
  <2>1. Listed(e)
    BY <1>8, <1>10 DEF TopIsRead, Below, Reads
  <2>2. CASE e < c
    <3>1. e \in Older(c)
      BY <2>1, <2>2 DEF Older
    <3>2. e \in P
      BY <1>10, <3>1, LinkFacts
    <3> QED
      BY <1>3, <3>2 DEF Holds
  <2>3. CASE ~(e < c)
    <3>1. c <= e
      <4> HIDE DEF c
      <4>1. c \in Transactions
        BY <1>4
      <4> QED
        BY <2>3, <4>1, ConstantsAssumption
    <3>2. e \in Holds(s)
      BY <1>6, <1>8, <1>9, <1>10, <3>1, CandidateCovers
    <3> QED
      BY <1>4, <3>2 DEF Holds
  <2> QED
    BY <2>2, <2>3
<1> HIDE DEF P, c
<1>11. Promised(Position(t), Below(t)) \subseteq Holds(t)
  <2>1. Position(t) # None /\ Position(t).url = t.url /\ Position(t).complete = t.complete
    BY RowAssumption DEF Position, Cursor, Session
  <2>2. Below(t) = Below(s)
    BY <1>1 DEF Below
  <2>3. ASSUME NEW e \in Promised(Position(t), Below(t))
        PROVE  e \in Holds(t)
    <3>1. e \in Transactions /\ e <= Below(s) /\ (t.complete \/ (t.url # None /\ t.url <= e))
      BY <2>1, <2>2, PromisedIs
    <3> QED
      BY <1>1, <1>10, <3>1
  <2> QED
    BY <2>3
<1>12. ReadSoFar(t)
  BY <1>1, <1>11 DEF ReadSoFar
<1> QED
  BY <1>5, <1>6, <1>7, <1>8, <1>12 DEF Reading

\* A page that is answered is read.
LEMMA ReadingAnswer ==
    ASSUME Typed, Reads, NEW s \in Session, Reading(s), s.pc = "send",
           NEW t \in Session, Alike(t, Read(s)), HasRead(t), t.pc # "save", t.pc # "store"
    PROVE  Reading(t)
<1>1. s.want \in {"recent", "positions", "older"}
  BY Zenon DEF Session, Wants
<1>2. ~HasRead(s)
  BY DEF HasRead
<1> QED
  BY <1>1, <1>2, ReadingRecent, ReadingPositions, ReadingOlder

\* What is selected is what is still missing of the page.
LEMMA ReadingLook ==
    ASSUME Typed, Reads, NEW s \in Session, Reading(s), s.pc = "page",
           NEW t \in Session, t.pc = "store", t.rows = NewRows(s.page), t.cursor = s.cursor,
           t.want = s.want, t.page = s.page, t.url = s.url, t.complete = s.complete,
           t.top = s.top
    PROVE  Reading(t)
<1>1. HasRead(s) /\ HasRead(t)
  BY DEF HasRead
<1>2. BeganWell(t) /\ (t.url # None => Listed(t.url))
  BY DEF Reading, BeganWell
<1>3. s.page \in Pages
  BY SessionIs, Zenon
<1>4. ASSUME NEW p \in s.page
      PROVE  p[1] \in Stored \cup {x.item : x \in t.rows} \cup {Wallet}
  <2>1. p[1] \in Transactions \cup {Wallet} /\ p[2] \in Versions
    BY <1>3 DEF Pages
  <2>2. CASE \E x \in raw : x.item = p[1]
    BY <2>1, <2>2 DEF Stored
  <2>3. CASE ~\E x \in raw : x.item = p[1]
    <3>1. NewRow(p[1], p[2]) \subseteq t.rows
      BY <1>3, NewRowsType
    <3>4. NewRow(p[1], p[2]) # {}
      BY <2>3 DEF NewRow
    <3>2. PICK x \in NewRow(p[1], p[2]) : x \in t.rows
      BY <3>1, <3>4
    <3>3. x.item = p[1]
      BY <2>1, <3>2, NewRowType
    <3> QED
      BY <3>2, <3>3
  <2> QED
    BY <2>2, <2>3
<1>5. PageIsHeld(t)
  BY <1>1, <1>4 DEF PageIsHeld
<1>6. TopIsRead(t)
  BY <1>1 DEF Reading, KnowsTop, TopIsRead
<1>7. Holds(t) = Holds(s) /\ Below(t) = Below(s) /\ Position(t) = Position(s)
  BY DEF Holds, Below, Position
<1>8. ReadSoFar(t)
  BY <1>1, <1>7 DEF Reading, KnowsTop, ReadSoFar
<1> QED
  BY <1>1, <1>2, <1>5, <1>6, <1>8 DEF Reading

\* A new session has read nothing and holds the stored cursor.
LEMMA ReadingBegin ==
    ASSUME Reads, NEW t, t.pc = "reserve", t.cursor = cursor, t.want = "recent", t.page = {},
           t.url = None
    PROVE  Reading(t)
  BY DEF Reads, Reading, BeganWell, PageIsHeld, HasRead, KnowsTop

\* When its page is stored a run has where it goes on.
LEMMA ReadingStore ==
    ASSUME Typed, Reads, NEW r \in Runs, NEW more \in BOOLEAN, Store(r, more)
    PROVE  Reads'
<1>1. PICK s \in Session : s = run[r]
  BY SessionOf
<1>2. PICK t \in Session : /\ Become(r, t) /\ t.cursor = s.cursor /\ t.top = s.top
                           /\ t.page = {} /\ t.rows = {} /\ Onward(s, t)
  BY <1>1, StoreType
<1>3. raw' = raw \cup s.rows /\ now' = now /\ cursor' = cursor /\ top' = top /\ s.pc = "store"
  BY <1>1 DEF Store, At, history
<1>4. Reading(s)
  BY <1>1, <1>3 DEF Reads
<1>5. \A q \in Runs : run'[q] = IF q = r THEN t ELSE run[q]
  BY <1>2 DEF Typed, TypeOK, Become
<1>6. Onwards
  BY <1>3 DEF Onwards, Stored, Listed
<1>7. BeganWell(s) /\ TopIsRead(s) /\ ReadSoFar(s) /\ PageIsHeld(s)
  BY <1>3, <1>4 DEF Reading, KnowsTop, HasRead
<1>8. ASSUME NEW e \in Transactions, e \in Holds(s)
      PROVE  e \in Stored'
  <2>1. e \in Stored \/ \E p \in s.page : p[1] = e
    BY <1>8 DEF Holds
  <2>2. e \in Stored \/ e \in {x.item : x \in s.rows}
    BY <1>3, <1>7, <2>1, ConstantsAssumption DEF PageIsHeld
  <2> QED
    BY <1>3, <2>2 DEF Stored
<1>9. BeganWell(t)' /\ TopIsRead(t)'
  <2>1. BeganWell(t) /\ TopIsRead(t)
    BY <1>2, <1>7 DEF BeganWell, TopIsRead
  <2> QED
    BY <1>3, <1>6, <2>1 DEF BeganWell, TopIsRead, Onwards, Listed
<1>10. PageIsHeld(t)'
  BY <1>2 DEF PageIsHeld, Onward
<1>11. t.url # None => Listed(t.url)'
  <2>1. s.url # None => Listed(s.url)
    BY <1>4 DEF Reading
  <2>2. Candidate(s) # None => Listed(Candidate(s))
    BY <1>7, <2>1 DEF Candidate, BeganWell
  <2>3. t.url # None => Listed(t.url)
    BY <1>2, <2>1, <2>2 DEF Onward
  <2> QED
    BY <1>3, <2>3 DEF Listed
<1>12. ASSUME t.pc = "reserve"
       PROVE  Reading(t)'
  <2>1. s.want # "older" /\ t.url = s.url
    BY <1>2, <1>12 DEF Onward
  <2>2. \A e \in Transactions : e <= s.top /\ (s.url = None \/ s.url <= e) => e \in Holds(s)
    BY <1>3, <1>7, <2>1 DEF ReadSoFar
  <2>3. ReadSoFar(t)'
    BY <1>2, <1>8, <1>12, <2>1, <2>2 DEF ReadSoFar, HasRead, Holds
  <2>4. t.want = "older" => Candidate(t) # None
    BY <1>2, <1>12 DEF Onward, Candidate
  <2> QED
    BY <1>9, <1>10, <1>11, <2>3, <2>4 DEF Reading, Candidate
<1>13. ASSUME t.pc = "save"
       PROVE  Reading(t)'
  <2>1. Position(t) # None /\ Position(t).url = t.url /\ Position(t).complete = t.complete
    BY RowAssumption DEF Position, Cursor, Session
  <2>2. Below(t)' = Below(s)
    BY <1>2, <1>3 DEF Below
  <2>3. ASSUME NEW e \in Transactions, e <= Below(s),
               t.complete \/ (t.url # None /\ t.url <= e)
        PROVE  e \in Holds(s)
    <3>1. CASE s.want # "older"
      <4>1. t.url = Candidate(s) /\ t.complete = (Candidate(s) = None)
        BY <1>2, <1>13, <3>1 DEF Onward
      <4>2. \A d \in Transactions : d <= s.top /\ (s.url = None \/ s.url <= d) => d \in Holds(s)
        BY <1>3, <1>7, <3>1 DEF ReadSoFar
      <4> QED
        BY <1>7, <2>3, <4>1, <4>2, CandidateCovers
    <3>2. CASE s.want = "older"
      <4>1. t.url = s.url /\ t.complete = s.complete
        BY <1>2, <1>13, <3>2 DEF Onward
      <4>2. Position(t) = Position(s)
        BY <4>1 DEF Position
      <4>3. Promised(Position(s), Below(s)) \subseteq Holds(s)
        BY <1>3, <1>7, <3>2 DEF ReadSoFar, HasRead
      <4> QED
        BY <2>1, <2>3, <4>2, <4>3, PromisedIs
    <3> QED
      BY <3>1, <3>2
  <2>4. Promised(Position(t), Below(t)') \subseteq Stored'
    <3>1. ASSUME NEW e \in Promised(Position(t), Below(s))
          PROVE  e \in Stored'
      <4>1. e \in Transactions /\ e <= Below(s) /\ (t.complete \/ (t.url # None /\ t.url <= e))
        BY <2>1, PromisedIs
      <4> QED
        BY <1>8, <2>3, <4>1
    <3> QED
      BY <2>2, <3>1
  <2>5. ReadSoFar(t)'
    BY <1>13, <2>4 DEF ReadSoFar, Holds
  <2> QED
    BY <1>9, <1>10, <1>11, <1>13, <2>5 DEF Reading, HasRead
<1>14. Reading(t)'
  BY <1>2, <1>12, <1>13 DEF Onward
<1>15. ASSUME NEW q \in Runs, run'[q].pc \notin {"idle", "finish"}
       PROVE  Reading(run[q])'
  <2>1. CASE q = r
    BY <1>5, <1>14, <2>1
  <2>2. CASE q # r
    <3>1. PICK v \in Session : v = run[q]
      BY SessionOf
    <3>2. run'[q] = v /\ Reading(v)
      BY <1>5, <1>15, <2>2, <3>1 DEF Reads
    <3>3. Reading(v)'
      BY <1>6, <3>2, ReadingStays
    <3> QED
      BY <3>2, <3>3
  <2> QED
    BY <2>1, <2>2
<1>16. Promised(cursor', top') \subseteq Stored'
  BY <1>3, <1>6 DEF Reads, Onwards
<1> QED
  BY <1>3, <1>15, <1>16 DEF Reads, Listed

\* The cursor that is saved stands for what is stored.
LEMMA ReadingSave ==
    ASSUME Typed, Reads, NEW r \in Runs, Save(r)
    PROVE  Reads'
<1>1. PICK s \in Session : s = run[r]
  BY SessionOf
<1>2. PICK t \in Session : Become(r, t) /\ t.pc = "finish"
  BY SaveType
<1>3. s.pc = "save" /\ cursor' = Saved(s) /\ raw' = raw /\ now' = now
  BY <1>1 DEF Save, At
<1>4. top' = IF cursor = None THEN s.top
             ELSE IF s.cursor = None THEN Smaller(top, s.top) ELSE top
  BY <1>1 DEF Save
<1>5. Reading(s) /\ top \in Nat /\ s.top \in Nat
  BY <1>1, <1>3 DEF Reads, Session, Typed, TypeOK
<1>6. BeganWell(s) /\ TopIsRead(s) /\ ReadSoFar(s) /\ PageIsHeld(s)
  BY <1>3, <1>5 DEF Reading, KnowsTop, HasRead
<1>7. \A q \in Runs : run'[q] = IF q = r THEN t ELSE run[q]
  BY <1>2 DEF Typed, TypeOK, Become
<1>8. cursor' # None
  BY <1>3, SavedType, RowAssumption
<1>9. Stored' = Stored /\ (\A e \in Transactions : Listed(e)' = Listed(e))
  BY <1>3 DEF Stored, Listed
<1>10. \A e \in Transactions : e \in Int
  BY ConstantsAssumption
<1>11. cursor # None => \A e \in Transactions : e <= top' => e <= top
  BY <1>4, <1>5, <1>10 DEF Smaller
<1>12. Onwards
  BY <1>8, <1>9, <1>11 DEF Onwards
<1>13. ASSUME NEW e \in Transactions, e <= Below(s),
              s.complete \/ (s.url # None /\ s.url <= e)
       PROVE  e \in Stored
  <2>1. Position(s) # None /\ Position(s).url = s.url /\ Position(s).complete = s.complete
    BY RowAssumption DEF Position, Cursor, Session
  <2>2. Promised(Position(s), Below(s)) \subseteq Holds(s) /\ s.page = {}
    BY <1>3, <1>6 DEF ReadSoFar, PageIsHeld
  <2>3. e \in Promised(Position(s), Below(s))
    BY <1>13, <2>1, PromisedIs
  <2> QED
    BY <2>2, <2>3 DEF Holds
<1>14. s.url # None => Listed(s.url)
  BY <1>5 DEF Reading
<1>15. /\ Promised(cursor', top') \subseteq Stored
       /\ \A e \in Transactions : e <= top' => Listed(e)
       /\ cursor'.url # None => Listed(cursor'.url)
  <2>1. CASE s.cursor = None \/ cursor = None
    <3>1. s.cursor = None
      BY <1>6, <2>1 DEF BeganWell
    <3>2. cursor'.url = s.url /\ cursor'.complete = s.complete
      BY <1>3, <2>1 DEF Saved
    <3>3. \A e \in Transactions : e <= top' => e <= s.top
      BY <1>4, <1>5, <1>10, <3>1 DEF Smaller
    <3>4. Promised(cursor', top') \subseteq Stored
      BY <1>8, <1>13, <3>1, <3>2, <3>3, PromisedIs DEF Below
    <3>5. \A e \in Transactions : e <= top' => Listed(e)
      BY <1>6, <3>3 DEF TopIsRead
    <3>6. cursor'.url # None => Listed(cursor'.url)
      BY <1>14, <3>2
    <3> QED
      BY <3>4, <3>5, <3>6
  <2>2. CASE s.cursor # None /\ cursor # None
    <3>1. top' = top
      BY <1>4, <2>2
    <3>2. /\ cursor'.url = s.url \/ cursor'.url = cursor.url
          /\ cursor'.complete => s.complete \/ cursor.complete
      BY <1>3, <2>2 DEF Saved, Session, Cursor
    <3>3. Promised(cursor, top) \subseteq Stored
      BY DEF Reads
    <3>4. Promised(cursor', top') \subseteq Stored
      BY <1>8, <1>13, <2>2, <3>1, <3>2, <3>3, PromisedIs DEF Below
    <3>5. cursor'.url # None => Listed(cursor'.url)
      BY <1>14, <2>2, <3>2 DEF Reads
    <3> QED
      BY <3>1, <3>4, <3>5 DEF Reads
  <2> QED
    BY <2>1, <2>2
<1>16. ASSUME NEW q \in Runs, run'[q].pc \notin {"idle", "finish"}
       PROVE  Reading(run[q])'
  <2>1. q # r
    BY <1>2, <1>7, <1>16
  <2>2. PICK v \in Session : v = run[q]
    BY SessionOf
  <2>3. run'[q] = v /\ Reading(v)
    BY <1>7, <1>16, <2>1, <2>2 DEF Reads
  <2>4. Reading(v)'
    BY <1>12, <2>3, ReadingStays
  <2> QED
    BY <2>3, <2>4
<1>17. cursor' \in Cursor
  BY <1>3, SavedType
<1> QED
  BY <1>9, <1>15, <1>16, <1>17 DEF Reads, Cursor

\* What is read stays so while time passes.
LEMMA ReadsTick ==
    ASSUME Typed, Reads, Tick \/ Configure \/ UNCHANGED vars
    PROVE  Reads'
<1>1. UNCHANGED <<run, cursor, top, raw>>
  BY DEF Tick, Configure, vars, history
<1>2. \A e \in Transactions : Listed(e) => Listed(e)'
  BY ConstantsAssumption DEF Listed, Tick, Configure, vars, Typed, TypeOK, Instants
<1>3. Onwards
  BY <1>1, <1>2 DEF Onwards, Stored
<1>4. ASSUME NEW q \in Runs, run'[q].pc \notin {"idle", "finish"}
      PROVE  Reading(run[q])'
  <2>1. PICK v \in Session : v = run[q]
    BY SessionOf
  <2>2. run'[q] = v /\ Reading(v)
    BY <1>1, <1>4, <2>1 DEF Reads
  <2>3. Reading(v)'
    BY <1>3, <2>2, ReadingStays
  <2> QED
    BY <2>2, <2>3
<1>5. cursor \in Cursor \cup {None}
  BY DEF Typed, TypeOK
<1> QED
  BY <1>1, <1>2, <1>4, <1>5 DEF Reads, Stored, Cursor

\* The steps that store nothing keep what is promised.
LEMMA ReadsSteps ==
    ASSUME Typed, Reads, NEW r \in Runs,
           \/ \E w \in workers : Begin(r, w)
           \/ Reserve(r) \/ Refuse(r) \/ Lose(r) \/ Fail(r) \/ Finish(r) \/ Crash(r)
           \/ \E ok \in BOOLEAN, limit \in ServerLimits, gap \in ServerGaps :
                \E remaining \in {0, limit} : Answer(r, ok, limit, remaining, gap)
           \/ AnswerOnly(r) \/ RecordRead(r) \/ RecordWrite(r) \/ Look(r)
    PROVE  Reads'
<1>1. UNCHANGED <<now, cursor, top, raw>>
  BY DEF Begin, Reserve, Refuse, Lose, Fail, Finish, Crash, Answer, AnswerOnly, RecordRead,
         RecordWrite, Look, history
<1>2. PICK s \in Session : s = run[r]
  BY SessionOf
<1>3. s.pc \notin {"idle", "finish"} => Reading(s)
  BY <1>2 DEF Reads
<1>4. \E t \in Session : Become(r, t) /\ (t.pc \notin {"idle", "finish"} => Reading(t))
  <2>1. CASE \E w \in workers : Begin(r, w)
    BY <2>1, BeginType, ReadingBegin
  <2>2. CASE Refuse(r) \/ Lose(r) \/ Fail(r) \/ Finish(r) \/ Crash(r)
    BY <2>2, EndsType, CrashType
  <2>3. CASE Reserve(r)
    <3>1. PICK t \in Session : Become(r, t) /\ Alike(t, s) /\ t.pc = "send"
      BY <1>2, <2>3, ReserveType
    <3>2. s.pc = "reserve"
      BY <1>2, <2>3 DEF Reserve, At
    <3>3. Reading(t)
      BY <1>3, <3>1, <3>2, ReadingAlike DEF HasRead
    <3> QED
      BY <3>1, <3>3
  <2>4. CASE \/ \E ok \in BOOLEAN, limit \in ServerLimits, gap \in ServerGaps :
                  \E remaining \in {0, limit} : Answer(r, ok, limit, remaining, gap)
             \/ AnswerOnly(r)
    <3>1. \E t \in Session : \E ok \in BOOLEAN :
            /\ Become(r, t) /\ Alike(t, IF ok THEN Read(s) ELSE s)
            /\ (t.pc = "page" /\ ok) \/ (t.pc = "record" /\ t.ok = ok)
      BY <1>2, <2>4, AnswerType, AnswerOnlyType
    <3>2. PICK t \in Session, ok \in BOOLEAN :
            /\ Become(r, t) /\ Alike(t, IF ok THEN Read(s) ELSE s)
            /\ (t.pc = "page" /\ ok) \/ (t.pc = "record" /\ t.ok = ok)
      BY <3>1
    <3>3. s.pc = "send"
      BY <1>2, <2>4 DEF Answer, AnswerOnly, At
    <3>4. CASE ok
      BY <1>3, <3>2, <3>3, <3>4, ReadingAnswer DEF HasRead
    <3>5. CASE ~ok
      BY <1>3, <3>2, <3>3, <3>5, ReadingAlike DEF HasRead
    <3> QED
      BY <3>2, <3>4, <3>5
  <2>5. CASE RecordRead(r)
    <3>1. PICK t \in Session : Become(r, t) /\ Alike(t, s) /\ t.pc = "write" /\ t.ok = s.ok
      BY <1>2, <2>5, RecordReadType
    <3>2. s.pc = "record"
      BY <1>2, <2>5 DEF RecordRead, At
    <3> QED
      BY <1>3, <3>1, <3>2, ReadingAlike DEF HasRead
  <2>6. CASE RecordWrite(r)
    <3>1. PICK t \in Session : /\ Become(r, t)
                               /\ t.pc = "idle" \/ (s.ok /\ t.pc = "page" /\ Alike(t, s))
      BY <1>2, <2>6, RecordWriteType
    <3>2. s.pc = "write"
      BY <1>2, <2>6 DEF RecordWrite, At
    <3> QED
      BY <1>3, <3>1, <3>2, ReadingAlike DEF HasRead
  <2>7. CASE Look(r)
    <3>1. PICK t \in Session :
            /\ Become(r, t) /\ t.pc = "store" /\ t.rows = NewRows(s.page) /\ t.cursor = s.cursor
            /\ t.want = s.want /\ t.page = s.page /\ t.url = s.url /\ t.complete = s.complete
            /\ t.top = s.top
      BY <1>2, <2>7, LookType
    <3>2. s.pc = "page"
      BY <1>2, <2>7 DEF Look, At
    <3> QED
      BY <1>3, <3>1, <3>2, ReadingLook
  <2> QED
    BY <2>1, <2>2, <2>3, <2>4, <2>5, <2>6, <2>7
<1> QED
  BY <1>1, <1>4, ReadsKept

\* Nothing is promised at first,
LEMMA InitReads ==
    ASSUME Init
    PROVE  Reads
<1>1. \A r \in Runs : run[r].pc = "idle"
  BY IdleType, Labels DEF Init
<1>2. cursor = None /\ top = 0 /\ \A e \in Transactions : ~(e <= 0)
  BY ConstantsAssumption DEF Init
<1> QED
  BY <1>1, <1>2, PromisedIs DEF Reads

\* every step keeps what is promised,
LEMMA NextReads ==
    ASSUME Typed, Reads, [Next]_vars
    PROVE  Reads'
<1>1. CASE Tick \/ Configure \/ UNCHANGED vars
  BY <1>1, ReadsTick
<1>2. CASE ~(Tick \/ Configure \/ UNCHANGED vars)
  BY <1>2, ReadsSteps, ReadingStore, ReadingSave DEF Next, Request
<1> QED
  BY <1>1, <1>2

\* and so it is always kept.
LEMMA AlwaysReads == Spec => []Reads
<1>1. Init => Reads
  BY InitReads
<1>2. Typed /\ Reads /\ [Next]_vars => Reads'
  BY NextReads
<1> QED
  BY <1>1, <1>2, AlwaysTyped, PTL DEF Spec

\* The backfill is a reader of the wallet's history: what the cursor has passed is
\* stored for good, whichever runs move it, in whatever order they save.
THEOREM BackfillReads == Spec => ImplementsReader
<1>1. Init => Reader!Init
  BY PromisedIs DEF Init, Reader!Init
<1>2. Typed /\ [Next]_vars => Stored \subseteq Stored'
  <2> SUFFICES ASSUME Typed, [Next]_vars
               PROVE  raw \subseteq raw'
    BY DEF Stored
  <2> QED
    BY ZenonT(60) DEF Next, Tick, Configure, Begin, Request, Reserve, Refuse, Lose, AnswerOnly, Answer,
           RecordRead, RecordWrite, Look, Store, Fail, Save, Finish, Crash, vars
<1>3. Typed /\ Reads' /\ [Next]_vars => [Reader!Deliver]_<<Stored, <<cursor, top>>>>
  <2> SUFFICES ASSUME Typed, Reads', [Next]_vars
               PROVE  Reader!Deliver
    OBVIOUS
  <2>1. Stored \subseteq Stored' /\ Stored' \subseteq Transactions
    BY <1>2 DEF Stored
  <2>2. Promised(cursor', top') \subseteq Stored'
    BY DEF Reads
  <2> QED
    BY <2>1, <2>2 DEF Reader!Deliver, Stored
<1> QED
  BY <1>1, <1>3, AlwaysTyped, AlwaysReads, PTL DEF Spec, ImplementsReader, Reader!Spec, Stored

=============================================================================
