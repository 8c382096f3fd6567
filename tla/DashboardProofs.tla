---------------------------- MODULE DashboardProofs ----------------------------
(***************************************************************************)
(* Proofs about Dashboard: that a backfill covers its days, takes no day   *)
(* that had a snapshot, that a net worth is as new as it was asked and is  *)
(* what the portfolio was worth, and that a return is what was earned.     *)
(***************************************************************************)
EXTENDS Dashboard, FiniteLemmas

-----------------------------------------------------------------------------
(* What the rows and sessions are, their amounts left aside. *)

\* The fields of a session.
Fields == DOMAIN Idle

\* The fields of a cost run.
RunFields == {"id", "of", "status", "held"}

\* A session but for what it has read.
ShapedSession(s) ==
    /\ DOMAIN s = Fields
    /\ s.pc \in PCs /\ s.backfill \in BOOLEAN /\ s.done \in BOOLEAN
    /\ s.first \in Instants /\ s.last \in Instants /\ s.target \in Instants
    /\ s.day \in Nat
    /\ s.floor \in [Accounts -> Instants \cup {None}]

\* A run but for its quantities.
ShapedRun(c) ==
    /\ DOMAIN c = RunFields
    /\ c.id \in Nat /\ c.of \in Instants
    /\ c.status \in {"running", "succeeded", "failed"}

\* The session's run has a status.
RunIs(s, status) == \E c \in runs : c.id = s.run /\ c.status = status

\* The cost runs: each has its number.
Rows ==
    /\ IsFiniteSet(runs)
    /\ \A c \in runs : ShapedRun(c) /\ c.id \in 1..Cardinality(runs)
    /\ \A b, c \in runs : b.id = c.id => b = c

\* The invariant's part on rows and sessions.
Shape ==
    /\ now \in Instants
    /\ Rows
    /\ \A x \in snapshots : x.at \in Instants
    /\ DOMAIN request = Requests
    /\ \A r \in Requests : ShapedSession(request[r])

-----------------------------------------------------------------------------
(* The days of a backfill. *)

\* Someone took a snapshot of the day.
DayHasSnapshot(d) == \E x \in snapshots : DayOf(x.at) = d
\* The days of its range.
RangeDays(s) == DayOf(s.first)..DayOf(s.last)

\* A backfill has covered the days before the one it is at, skips only days that
\* have a snapshot, and every day of its range that had one when it began.
Steady(s) ==
    /\ DayOf(s.first) <= s.day
    /\ \A d \in DayOf(s.first)..(s.day - 1) : DayHasSnapshot(d)
    /\ \A d \in s.skip : DayHasSnapshot(d)
    /\ s.had \cap RangeDays(s) \subseteq s.skip

\* The day it is at, once it has chosen it.
Chosen(s) == DayOf(s.target) = s.day /\ s.day \in RangeDays(s) \ s.skip

\* What holds of a session wherever it is.
Daily(s) ==
    /\ s.backfill /\ s.pc # "idle" => Steady(s)
    /\ s.backfill /\ s.pc \notin {"idle", "next"} => Chosen(s)
    /\ s.pc = "next" => s.backfill
    /\ s.done => s.pc = "idle" /\ \A d \in RangeDays(s) : DayHasSnapshot(d)

\* The inductive invariant of the days.
DailyInv == Shape /\ \A r \in Requests : Daily(request[r])

-----------------------------------------------------------------------------
(* What a net worth is made of. *)

\* No reading is lost: what was there when a capture began is there, or newer.
AsNew(seen, floor, t) == floor # None => seen # None /\ floor <= seen /\ seen <= t

\* Since a capture began.
Begun(s) == \A a \in Accounts : AsNew(ReadAt(a, s.target), s.floor[a], s.target)

\* The equities and prices that are valued are of its instant.
Evident(s) ==
    s.nav # None /\ OwnRun(s) =>
        /\ \A d \in Derivatives : AsNew(s.equity[d], s.floor[d], s.target)
        /\ \A a \in Coins : RunOf(s.run).held[a] > 0 => Fresh(s.priced, s.target)

\* The quantities of its run were read no earlier than it began.
Grounded(s) ==
    s.nav # None /\ OwnRun(s) =>
        \A a \in Spot : s.floor[a] # None =>
            \E u \in s.floor[a]..s.target : RunOf(s.run).held[a] = Held[a][u]

\* What holds of a session wherever it is.
Honest(s) ==
    /\ s.pc \in {"cost", "value", "reconcile", "insert"} => Begun(s)
    /\ s.pc = "cost" => RunIs(s, "running")
    /\ s.pc \in {"value", "reconcile", "insert"} => RunIs(s, "succeeded")
    /\ s.pc \in {"reconcile", "insert"} => Evident(s)
    /\ s.pc = "insert" => Grounded(s)

\* A cost run is one request's, until it ends.
OneEach ==
    \A q, r \in Requests :
        At(q, "cost") /\ At(r, "cost") /\ request[q].run = request[r].run => q = r

\* The inductive invariant of a net worth.
HonestInv == Shape /\ OneEach /\ \A r \in Requests : Honest(request[r])

-----------------------------------------------------------------------------
(* Instants, days and the newest of a set. *)

\* An instant is on the day whose bounds it is between.
LEMMA DayIs ==
  ASSUME NEW t \in Nat
  PROVE  /\ DayOf(t) \in Nat
         /\ DayOf(t) * Day <= t /\ t < DayOf(t) * Day + Day
         /\ \A d \in Nat : d * Day <= t /\ t < d * Day + Day => DayOf(t) = d
<1>1. Day \in Nat \ {0}
  BY ConstantsAssumption
<1>2. ASSUME NEW a \in Nat, NEW b \in Nat \ {0}
      PROVE  a \div b \in Nat /\ b * (a \div b) <= a /\ a < b * (a \div b) + b
  OBVIOUS
<1>3. ASSUME NEW a \in Nat, NEW b \in Nat \ {0}, NEW d \in Nat, d * b <= a, a < d * b + b
      PROVE  a \div b = d
  BY <1>3
<1>4. ASSUME NEW b \in Nat, NEW d \in Nat
      PROVE  b * d = d * b
  OBVIOUS
<1>5. \A d \in Nat : d * Day <= t /\ t < d * Day + Day => t \div Day = d
  BY <1>1, <1>3
<1>6. t \div Day \in Nat /\ Day * (t \div Day) <= t /\ t < Day * (t \div Day) + Day
  BY <1>1, <1>2
<1> DEFINE d == t \div Day
<1>7. Day * d = d * Day
  BY <1>1, <1>4, <1>6
<1> QED
  BY <1>5, <1>6, <1>7 DEF DayOf

\* Later instants are on later days.
LEMMA DaysGrow ==
  ASSUME NEW s \in Nat, NEW t \in Nat, s <= t
  PROVE  DayOf(s) <= DayOf(t)
<1> DEFINE c == DayOf(s)  d == DayOf(t)
<1>1. /\ c \in Nat /\ c * Day <= s /\ d \in Nat /\ t < d * Day + Day /\ Day \in Nat \ {0}
  BY DayIs, ConstantsAssumption
<1> HIDE DEF c, d
<1>2. ASSUME NEW a \in Nat, NEW b \in Nat, NEW k \in Nat \ {0}, a * k < b * k + k
      PROVE  a <= b
  <2>1. SUFFICES ASSUME b + 1 <= a PROVE FALSE
    BY <1>2
  <2>2. (b + 1) * k <= a * k
    BY <2>1, <1>2
  <2>3. (b + 1) * k = b * k + k
    OBVIOUS
  <2> QED
    BY <1>2, <2>2, <2>3
<1>3. c * Day \in Nat /\ d * Day \in Nat
  BY <1>1
<1>4. c * Day < d * Day + Day
  BY <1>1, <1>3
<1> QED
  BY <1>1, <1>2, <1>4 DEF c, d

\* The instant at which a day of the range is captured is on that day.
LEMMA TargetDay ==
  ASSUME NEW s, s.last \in Instants, NEW d \in Nat, d <= DayOf(s.last)
  PROVE  DayTarget(s, d) \in Instants /\ DayOf(DayTarget(s, d)) = d
<1> DEFINE end == (d + 1) * Day - 1
           last == s.last
<1>1. last \in Nat /\ MaxTime \in Nat /\ last <= MaxTime /\ Day \in Nat \ {0}
  BY ConstantsAssumption DEF Instants
<1>2. d * Day \in Nat /\ end = d * Day + Day - 1
  BY <1>1
<1>3. end \in Nat
  BY <1>1, <1>2
<1>4. DayOf(end) = d
  <2>1. d * Day <= end /\ end < d * Day + Day
    BY <1>1, <1>2
  <2> HIDE DEF end
  <2> QED
    BY <1>3, <2>1, DayIs
<1> HIDE DEF end, last
<1>5. CASE last <= end
  <2>1. DayOf(last) <= d
    BY <1>1, <1>3, <1>4, <1>5, DaysGrow
  <2>2. DayOf(last) \in Nat /\ d <= DayOf(last)
    BY <1>1, DayIs DEF last
  <2>3. DayTarget(s, d) = last
    BY <1>1, <1>3, <1>5 DEF DayTarget, Smaller, end, last
  <2> QED
    BY <2>1, <2>2, <2>3 DEF last
<1>6. CASE ~ (last <= end)
  <2>1. DayTarget(s, d) = end
    BY <1>1, <1>3, <1>6 DEF DayTarget, Smaller, end, last
  <2>2. end \in Instants
    BY <1>1, <1>3, <1>6 DEF Instants
  <2> QED
    BY <1>4, <2>1, <2>2
<1> QED
  BY <1>5, <1>6

\* An instant on a day of the range is less than a day outside it.
LEMMA DaysNear ==
  ASSUME NEW t \in Nat, NEW first \in Nat, NEW last \in Nat,
         DayOf(t) \in DayOf(first)..DayOf(last)
  PROVE  first - Day <= t /\ t <= last + Day
<1> DEFINE c == DayOf(first)  d == DayOf(t)  e == DayOf(last)
<1>1. /\ c \in Nat /\ first < c * Day + Day
      /\ d \in Nat /\ d * Day <= t /\ t < d * Day + Day
      /\ e \in Nat /\ e * Day <= last
      /\ Day \in Nat \ {0}
  BY DayIs, ConstantsAssumption
<1>2. c <= d /\ d <= e
  BY <1>1
<1> HIDE DEF c, d, e
<1>3. ASSUME NEW a \in Nat, NEW b \in Nat, NEW k \in Nat, a <= b
      PROVE  a * k <= b * k /\ a * k \in Nat /\ b * k \in Nat
  BY <1>3
<1>4. c * Day <= d * Day /\ d * Day <= e * Day /\ {c * Day, d * Day, e * Day} \subseteq Nat
  BY <1>1, <1>2, <1>3
<1> QED
  BY <1>1, <1>4

\* Max finds the greatest of a set of instants,
LEMMA NewestOf ==
  ASSUME NEW S, S \subseteq Nat, IsFiniteSet(S), S # {}
  PROVE  Max(S) \in S /\ \A x \in S : x <= Max(S)
<1> S \subseteq Int
  OBVIOUS
<1>1. \E e \in S : \A d \in S : d <= e
  BY Greatest
<1>2. \E e \in S : \A d \in S : e >= d
  BY <1>1
<1> QED
  BY <1>2 DEF Max

\* and Min the least.
LEMMA FirstOf ==
  ASSUME NEW S, S \subseteq Nat, IsFiniteSet(S), S # {}
  PROVE  Min(S) \in S /\ \A x \in S : Min(S) <= x
<1> S \subseteq Int
  OBVIOUS
<1>1. \E e \in S : \A d \in S : e <= d
  BY Least
<1> QED
  BY <1>1 DEF Min

\* The newest instant of a set, if it has one.
LEMMA LatestIs ==
  ASSUME NEW S, S \subseteq Instants
  PROVE  /\ LatestOf(S) = None <=> S = {}
         /\ LatestOf(S) # None => LatestOf(S) \in S
         /\ \A x \in S : LatestOf(S) # None /\ x <= LatestOf(S)
<1>1. IsFiniteSet(Instants) /\ Instants \subseteq Nat /\ None \notin Instants
  BY FS_Interval, ConstantsAssumption DEF Instants
<1>2. IsFiniteSet(S) /\ S \subseteq Nat
  BY <1>1, FS_Subset
<1>3. CASE S = {}
  BY <1>3 DEF LatestOf
<1>4. CASE S # {}
  BY <1>1, <1>2, <1>4, NewestOf DEF LatestOf
<1> QED
  BY <1>3, <1>4

\* When an account was read last.
LEMMA ReadIs ==
  ASSUME NEW a, NEW t
  PROVE  ReadAt(a, t) # None =>
           ReadAt(a, t) \in Instants /\ ReadAt(a, t) <= t
             /\ [account |-> a, at |-> ReadAt(a, t)] \in readings
<1> DEFINE S == {u \in Instants : u <= t /\ [account |-> a, at |-> u] \in readings}
<1>1. S \subseteq Instants /\ ReadAt(a, t) = LatestOf(S)
  BY DEF ReadAt
<1>2. \A u \in S : u \in Instants /\ u <= t /\ [account |-> a, at |-> u] \in readings
  OBVIOUS
<1> HIDE DEF S
<1> QED
  BY <1>1, <1>2, LatestIs

-----------------------------------------------------------------------------
(* The rows and sessions keep their shape. *)

\* A session that has ended.
LEMMA IdleShape ==
  /\ ShapedSession(Idle)
  /\ Idle.pc = "idle" /\ ~ Idle.backfill /\ ~ Idle.done
<1>1. 0 \in Instants
  BY ConstantsAssumption DEF Instants
<1> QED
  BY <1>1 DEF ShapedSession, Fields, Idle, PCs

\* A run is found by its number.
LEMMA RunOfIs ==
  ASSUME Rows, NEW c \in runs
  PROVE  RunOf(c.id) = c
  BY DEF RunOf, Rows

\* A new run has the next number.
StartedRun(t) == [id |-> Cardinality(runs) + 1, of |-> t, status |-> "running", held |-> NoRows]

\* The rows keep their shape.
LEMMA StartKeepsRows ==
  ASSUME Rows, NEW t \in Instants, runs' = runs \cup {StartedRun(t)}
  PROVE  /\ Rows'
         /\ \A c \in runs : c.id # Cardinality(runs) + 1
<1> DEFINE n == Cardinality(runs)
<1>1. n \in Nat /\ \A c \in runs : c.id \in 1..n
  BY FS_CardinalityType DEF Rows
<1>2. \A c \in runs : c.id # n + 1
  BY <1>1
<1> DEFINE new == StartedRun(t)
<1>3. /\ ShapedRun(new) /\ new.id = n + 1 /\ runs' = runs \cup {new}
  BY <1>1 DEF ShapedRun, StartedRun, RunFields
<1> HIDE DEF new
<1>4. IsFiniteSet(runs') /\ Cardinality(runs') = n + 1
  BY <1>2, <1>3, FS_AddElement DEF Rows
<1> HIDE DEF n
<1>5. \A c \in runs' : ShapedRun(c) /\ c.id \in 1..(n + 1)
  BY <1>1, <1>3 DEF Rows
<1>6. \A b, c \in runs' : b.id = c.id => b = c
  BY <1>2, <1>3 DEF Rows
<1> QED
  BY <1>2, <1>4, <1>5, <1>6 DEF Rows, n

\* A run that is settled keeps its number and its instant.
LEMMA SettleKeepsRows ==
  ASSUME Rows, NEW r, NEW status \in {"succeeded", "failed"}, NEW held,
         Settle(r, status, held)
  PROVE  /\ Rows'
         /\ \A c \in runs : c.id # request[r].run => c \in runs'
         /\ \A c \in runs : c.id = request[r].run =>
                [c EXCEPT !.status = status, !.held = held] \in runs'
<1> DEFINE f == [c \in runs |-> IF c.id = request[r].run
                                THEN [c EXCEPT !.status = status, !.held = held] ELSE c]
<1>1. runs' = {f[c] : c \in runs}
  BY DEF Settle
<1>2. \A c \in runs : f[c].id = c.id /\ ShapedRun(f[c]) /\ f[c].id \in 1..Cardinality(runs)
  BY DEF Rows, ShapedRun, RunFields
<1>3. f \in Bijection(runs, runs')
  <2>1. DOMAIN f = runs /\ f \in [runs -> runs']
    BY <1>1
  <2> HIDE DEF f
  <2>2. \A a, b \in runs : f[a] = f[b] => a = b
    BY <1>2 DEF Rows
  <2> QED
    BY <1>1, <2>1, <2>2 DEF Bijection, Injection, Surjection, IsInjective
<1>4. IsFiniteSet(runs') /\ Cardinality(runs') = Cardinality(runs)
  BY <1>3, FS_Bijection DEF Rows, ExistsBijection
<1>5. Rows'
  <2> HIDE DEF f
  <2>1. \A c \in runs' : ShapedRun(c) /\ c.id \in 1..Cardinality(runs')
    BY <1>1, <1>2, <1>4
  <2>2. \A b, c \in runs' : b.id = c.id => b = c
    BY <1>1, <1>2 DEF Rows
  <2> QED
    BY <1>4, <2>1, <2>2 DEF Rows
<1> QED
  BY <1>1, <1>5

\* What a capture does not change of its session.
SameDays(n, s) ==
    /\ n.backfill = s.backfill /\ n.done = s.done
    /\ n.first = s.first /\ n.last = s.last /\ n.day = s.day
    /\ n.skip = s.skip /\ n.had = s.had

\* A capture that begins, with a new cost run or with the last one.
Begins(n, s, t) ==
    /\ ShapedSession(n) /\ SameDays(n, s) /\ n.target = t
    /\ n.floor = [a \in Accounts |-> ReadAt(a, t)]
    /\ \/ n.pc = "cost" /\ n.run = Cardinality(runs) + 1 /\ runs' = runs \cup {StartedRun(t)}
       \/ n.pc = "value" /\ runs' = runs /\ RunIs(n, "succeeded")

\* The last run is one that is complete.
LEMMA LastRunIs ==
  ASSUME Rows, NEW t, Completed(t) # {}
  PROVE  \E c \in runs : c.id = LastRun(t) /\ c.status = "succeeded"
<1> DEFINE ofs == {c.of : c \in Completed(t)}
           last == {c \in Completed(t) : c.of = Max(ofs)}
           ids == {c.id : c \in last}
<1>1. Completed(t) \subseteq runs /\ \A c \in Completed(t) : c.status = "succeeded"
  BY DEF Completed
<1>2. ofs \subseteq Instants /\ ofs # {}
  BY <1>1 DEF Rows, ShapedRun
<1> HIDE DEF ofs
<1>3. IsFiniteSet(ofs) /\ ofs \subseteq Nat
  <2>1. IsFiniteSet(Instants) /\ Instants \subseteq Nat
    BY FS_Interval, ConstantsAssumption DEF Instants
  <2> QED
    BY <1>2, <2>1, FS_Subset
<1>4. Max(ofs) \in ofs
  BY <1>2, <1>3, NewestOf
<1>5. last # {}
  BY <1>4 DEF ofs
<1>6. ids # {} /\ ids \subseteq 1..Cardinality(runs)
  BY <1>1, <1>5 DEF Rows
<1>7. LastRun(t) = Max(ids)
  BY DEF LastRun, ofs
<1>8. \A i \in ids : \E c \in runs : c.id = i /\ c.status = "succeeded"
  BY <1>1
<1> HIDE DEF ids
<1>9. IsFiniteSet(ids) /\ ids \subseteq Nat
  <2>1. Cardinality(runs) \in Nat
    BY FS_CardinalityType DEF Rows
  <2>2. IsFiniteSet(1..Cardinality(runs)) /\ 1..Cardinality(runs) \subseteq Nat
    BY <2>1, FS_Interval
  <2> QED
    BY <1>6, <2>2, FS_Subset
<1>10. Max(ids) \in ids
  BY <1>6, <1>9, NewestOf
<1> QED
  BY <1>7, <1>8, <1>10

\* A capture is refused, or begins.
LEMMA BeginIs ==
  ASSUME Rows, NEW r, NEW s, ShapedSession(s), NEW t \in Instants, Begin(r, s, t)
  PROVE  \/ Become(r, Idle) /\ runs' = runs
         \/ \E n : Begins(n, s, t) /\ Become(r, n)
<1> DEFINE floor == [a \in Accounts |-> ReadAt(a, t)]
           started == [s EXCEPT !.target = t, !.known = Known(t), !.floor = floor]
           cost  == [started EXCEPT !.pc = "cost", !.run = Cardinality(runs) + 1]
           value == [started EXCEPT !.pc = "value", !.run = LastRun(t)]
<1>1. floor \in [Accounts -> Instants \cup {None}]
  BY ReadIs
<1>2. ShapedSession(cost) /\ cost.pc = "cost" /\ cost.run = Cardinality(runs) + 1
      /\ cost.target = t /\ cost.floor = floor /\ SameDays(cost, s)
  <2> HIDE DEF floor
  <2> QED
    BY <1>1 DEF ShapedSession, Fields, Idle, PCs, SameDays
<1>3. ShapedSession(value) /\ value.pc = "value" /\ value.run = LastRun(t)
      /\ value.target = t /\ value.floor = floor /\ SameDays(value, s)
  <2> HIDE DEF floor
  <2> QED
    BY <1>1 DEF ShapedSession, Fields, Idle, PCs, SameDays
<1>4. \/ Become(r, Idle) /\ runs' = runs
      \/ runs' = runs \cup {StartedRun(t)} /\ Become(r, cost)
      \/ runs' = runs /\ Completed(t) # {} /\ Become(r, value)
  BY Zenon DEF Begin, Stop, StartedRun
<1> HIDE DEF cost, value, started
<1>5. CASE runs' = runs \cup {StartedRun(t)} /\ Become(r, cost)
  BY <1>2, <1>5 DEF Begins
<1>6. CASE runs' = runs /\ Completed(t) # {} /\ Become(r, value)
  <2>1. RunIs(value, "succeeded")
    BY <1>3, <1>6, LastRunIs DEF RunIs
  <2>2. Begins(value, s, t)
    BY <1>3, <1>6, <2>1 DEF Begins
  <2> QED
    BY <1>6, <2>2
<1> QED
  BY <1>4, <1>5, <1>6

-----------------------------------------------------------------------------
(* What each action does to the rows and to its session. *)

\* The rows and the session of a request that moves.
Moves(r, n) == ShapedSession(n) /\ Become(r, n) /\ Rows'

\* A capture that begins keeps the rows' shape.
LEMMA BeginsMoves ==
  ASSUME Rows, NEW r, NEW n, NEW s, NEW t \in Instants, Become(r, n), Begins(n, s, t)
  PROVE  Moves(r, n)
<1>1. CASE runs' = runs \cup {StartedRun(t)}
  BY <1>1, StartKeepsRows DEF Begins, Moves
<1>2. CASE runs' = runs
  BY <1>2 DEF Rows, Begins, Moves
<1> QED
  BY <1>1, <1>2 DEF Begins

\* A snapshot of one instant begins.
LEMMA CaptureIs ==
  ASSUME Shape, NEW r \in Requests, NEW t \in Instants, NEW recalculate \in BOOLEAN,
         Capture(r, t, recalculate)
  PROVE  /\ UNCHANGED <<now, evidence, snapshots>>
         /\ \E n : /\ Moves(r, n) /\ ~ n.backfill /\ ~ n.done
                   /\ \/ n = Idle /\ runs' = runs
                      \/ \E s : Begins(n, s, t)
<1> DEFINE s == [Idle EXCEPT !.recalculate = recalculate]
<1>1. ShapedSession(s) /\ ~ s.backfill /\ ~ s.done
  BY IdleShape DEF ShapedSession, Fields, Idle
<1>2. UNCHANGED <<now, evidence, snapshots>> /\ Begin(r, s, t)
  BY DEF Capture
<1> HIDE DEF s
<1>3. CASE Become(r, Idle) /\ runs' = runs
  <2>1. Moves(r, Idle)
    BY <1>3, IdleShape DEF Moves, Shape, Rows
  <2> QED
    BY <1>2, <1>3, <2>1, IdleShape
<1>4. CASE \E n : Begins(n, s, t) /\ Become(r, n)
  <2>1. PICK n : Begins(n, s, t) /\ Become(r, n)
    BY <1>4
  <2>2. Moves(r, n)
    BY <2>1, BeginsMoves DEF Shape
  <2> QED
    BY <1>1, <1>2, <2>1, <2>2 DEF Begins, SameDays
<1> QED
  BY <1>1, <1>2, <1>3, <1>4, BeginIs DEF Shape

\* A backfill begins: what it has to skip is read.
LEMMA BackfillIs ==
  ASSUME Shape, NEW r \in Requests, NEW first \in Instants, NEW end \in Instants,
         first <= end, Backfill(r, first, end)
  PROVE  /\ UNCHANGED <<now, evidence, runs, snapshots>>
         /\ \E last \in Instants : \E n :
              /\ Moves(r, n)
              /\ n.pc = "next" /\ n.backfill /\ ~ n.done
              /\ n.first = first /\ n.last = last /\ n.day = DayOf(first)
              /\ n.skip = ExistingDates(first, last)
              /\ n.had = {DayOf(x.at) : x \in snapshots}
<1> DEFINE last == Smaller(end, now)
           skip == ExistingDates(first, last)
           had == {DayOf(x.at) : x \in snapshots}
           n == [Idle EXCEPT !.pc = "next", !.backfill = TRUE,
                    !.first = first, !.last = last, !.day = DayOf(first),
                    !.skip = skip, !.had = had]
<1>1. last \in Instants
  BY DEF Smaller, Shape
<1>2. DayOf(first) \in Nat
  BY DayIs, ConstantsAssumption DEF Instants
<1>3. UNCHANGED <<now, evidence, runs, snapshots>> /\ Become(r, n)
  BY DEF Backfill
<1> HIDE DEF last, skip, had
<1>4. /\ ShapedSession(n) /\ n.pc = "next" /\ n.backfill /\ ~ n.done
      /\ n.first = first /\ n.last = last /\ n.day = DayOf(first)
      /\ n.skip = skip /\ n.had = had
  BY <1>1, <1>2, IdleShape DEF ShapedSession, Fields, Idle, PCs
<1> HIDE DEF n
<1>5. Rows'
  BY <1>3 DEF Shape, Rows
<1> QED
  BY <1>1, <1>3, <1>4, <1>5 DEF Moves, skip, had

\* A backfill ends, or goes to the next day that has no snapshot.
LEMMA NextDayIs ==
  ASSUME Shape, NEW r \in Requests, NextDay(r), NEW s, s = request[r]
  PROVE  /\ s.pc = "next" /\ UNCHANGED <<now, evidence, snapshots>>
         /\ \E n :
              /\ Moves(r, n)
              /\ \/ /\ runs' = runs /\ n.pc = "idle" /\ ~ n.backfill /\ n.done
                    /\ n.first = s.first /\ n.last = s.last
                    /\ (s.day..DayOf(s.last)) \subseteq s.skip
                 \/ runs' = runs /\ n = Idle
                 \/ \E d \in (s.day..DayOf(s.last)) \ s.skip, t \in Instants : \E u :
                      /\ \A e \in s.day..(d - 1) : e \in s.skip
                      /\ DayOf(t) = d
                      /\ n.backfill = s.backfill /\ n.done = s.done
                      /\ n.first = s.first /\ n.last = s.last /\ n.day = d
                      /\ n.skip = s.skip /\ n.had = s.had
                      /\ Begins(n, u, t)
<1> DEFINE rest == (s.day..DayOf(s.last)) \ s.skip
<1>1. /\ s.pc = "next" /\ UNCHANGED <<now, evidence, snapshots>>
      /\ IF rest = {}
         THEN /\ Become(r, [Idle EXCEPT !.first = s.first, !.last = s.last, !.done = TRUE])
              /\ UNCHANGED runs
         ELSE Begin(r, [s EXCEPT !.day = Min(rest)], DayTarget(s, Min(rest)))
  BY DEF NextDay, At
<1>2. ShapedSession(s) /\ Rows
  BY DEF Shape
<1>3. s.first \in Instants /\ s.last \in Instants /\ s.day \in Nat
  BY <1>2 DEF ShapedSession
<1>4. DayOf(s.last) \in Nat
  <2>1. s.last \in Nat
    BY <1>3 DEF Instants
  <2> QED
    BY <2>1, DayIs
<1>5. CASE rest = {}
  <2> DEFINE n == [Idle EXCEPT !.first = s.first, !.last = s.last, !.done = TRUE]
  <2>1. Become(r, n) /\ runs' = runs
    BY <1>1, <1>5
  <2>2. /\ ShapedSession(n) /\ n.pc = "idle" /\ ~ n.backfill /\ n.done
        /\ n.first = s.first /\ n.last = s.last
    BY <1>3, IdleShape DEF ShapedSession, Fields, Idle, PCs
  <2> HIDE DEF n
  <2>3. Moves(r, n)
    BY <1>2, <2>1, <2>2 DEF Moves, Rows
  <2> QED
    BY <1>1, <1>5, <2>1, <2>2, <2>3
<1>6. CASE rest # {}
  <2>1. IsFiniteSet(rest) /\ rest \subseteq Nat
    <3>1. s.day \in Int /\ DayOf(s.last) \in Int
      BY <1>3, <1>4
    <3>2. IsFiniteSet(s.day..DayOf(s.last))
      BY <3>1, FS_Interval
    <3> QED
      BY <1>3, <1>4, <3>2, FS_Subset
  <2> DEFINE d == Min(rest)
             t == DayTarget(s, d)
             u == [s EXCEPT !.day = d]
  <2>2. d \in rest /\ \A e \in rest : d <= e
    BY <1>6, <2>1, FirstOf
  <2>3. Begin(r, u, t)
    BY <1>1, <1>6
  <2> HIDE DEF d
  <2>4. d \in Nat /\ d <= DayOf(s.last) /\ d \in (s.day..DayOf(s.last)) \ s.skip
    BY <1>3, <1>4, <2>1, <2>2
  <2>5. t \in Instants /\ DayOf(t) = d
    BY <1>3, <2>4, TargetDay
  <2> HIDE DEF t
  <2>6. \A e \in s.day..(d - 1) : e \in s.skip
    BY <1>3, <1>4, <2>2, <2>4
  <2>7. /\ ShapedSession(u) /\ u.day = d
        /\ u.backfill = s.backfill /\ u.done = s.done /\ u.first = s.first
        /\ u.last = s.last /\ u.skip = s.skip /\ u.had = s.had
    BY <1>2, <2>4 DEF ShapedSession, Fields, Idle
  <2> HIDE DEF u
  <2>8. CASE Become(r, Idle) /\ runs' = runs
    <3>1. Moves(r, Idle)
      BY <1>2, <2>8, IdleShape DEF Moves, Rows
    <3> QED
      BY <1>1, <2>8, <3>1
  <2>9. CASE \E n : Begins(n, u, t) /\ Become(r, n)
    <3>1. PICK n : Begins(n, u, t) /\ Become(r, n)
      BY <2>9
    <3>2. Moves(r, n)
      BY <1>2, <2>5, <3>1, BeginsMoves
    <3>3. /\ n.backfill = s.backfill /\ n.done = s.done
          /\ n.first = s.first /\ n.last = s.last /\ n.day = d
          /\ n.skip = s.skip /\ n.had = s.had
      BY <2>7, <3>1 DEF Begins, SameDays
    <3>4. \E e \in (s.day..DayOf(s.last)) \ s.skip, i \in Instants : \E v :
            /\ \A f \in s.day..(e - 1) : f \in s.skip
            /\ DayOf(i) = e
            /\ n.backfill = s.backfill /\ n.done = s.done
            /\ n.first = s.first /\ n.last = s.last /\ n.day = e
            /\ n.skip = s.skip /\ n.had = s.had
            /\ Begins(n, v, i)
      BY <2>4, <2>5, <2>6, <3>1, <3>3
    <3> QED
      BY <1>1, <3>2, <3>4
  <2> QED
    BY <1>2, <2>3, <2>5, <2>7, <2>8, <2>9, BeginIs
<1> QED
  BY <1>5, <1>6

\* A capture that goes on.
Continues(n, s) ==
    SameDays(n, s) /\ n.target = s.target /\ n.floor = s.floor /\ n.run = s.run

\* The cost run ends.
LEMMA CostIs ==
  ASSUME Shape, NEW r \in Requests, Cost(r), NEW s, s = request[r]
  PROVE  /\ s.pc = "cost" /\ UNCHANGED <<now, evidence, snapshots>>
         /\ \E n :
              /\ Moves(r, n)
              /\ \/ /\ n.pc = "value" /\ Continues(n, s)
                    /\ Settle(r, "succeeded", [a \in Spot |-> Quantity(a, s.target)])
                 \/ n = Idle /\ Settle(r, "failed", NoRows)
<1>1. /\ s.pc = "cost" /\ UNCHANGED <<now, evidence, snapshots>>
      /\ \/ /\ Settle(r, "succeeded", [a \in Spot |-> Quantity(a, s.target)])
            /\ Become(r, [s EXCEPT !.pc = "value"])
         \/ Settle(r, "failed", NoRows) /\ Become(r, Idle)
  BY DEF Cost, At, Stop
<1>2. ShapedSession(s) /\ Rows
  BY DEF Shape
<1>3. CASE /\ Settle(r, "succeeded", [a \in Spot |-> Quantity(a, s.target)])
           /\ Become(r, [s EXCEPT !.pc = "value"])
  <2> DEFINE n == [s EXCEPT !.pc = "value"]
  <2>1. ShapedSession(n) /\ n.pc = "value" /\ Continues(n, s)
    BY <1>2 DEF ShapedSession, Fields, Idle, PCs, Continues, SameDays
  <2>2. Rows'
    BY <1>2, <1>3, SettleKeepsRows
  <2> HIDE DEF n
  <2> QED
    BY <1>1, <1>3, <2>1, <2>2 DEF Moves, n
<1>4. CASE Settle(r, "failed", NoRows) /\ Become(r, Idle)
  <2>1. Rows'
    BY <1>2, <1>4, SettleKeepsRows
  <2> QED
    BY <1>1, <1>4, <2>1, IdleShape DEF Moves
<1> QED
  BY <1>1, <1>3, <1>4

\* The summary is read,
LEMMA ValueIs ==
  ASSUME Shape, NEW r \in Requests, Value(r), NEW s, s = request[r]
  PROVE  /\ s.pc = "value" /\ UNCHANGED <<now, evidence, runs, snapshots>>
         /\ \E n :
              /\ Moves(r, n) /\ n.pc = "reconcile" /\ Continues(n, s)
              /\ n.nav # None => Priced(RunOf(s.run)) /\ FreshEquities(RunOf(s.run))
              /\ n.priced = PriceAt(RunOf(s.run).of)
              /\ n.equity = [d \in Derivatives |-> ReadAt(d, RunOf(s.run).of)]
<1> DEFINE c == RunOf(s.run)
           complete == Priced(c) /\ FreshBalances(c) /\ FreshEquities(c) /\ ~ Borrowed(c)
           nav == IF complete THEN SpotValue(c) + PerpEquity(c) ELSE None
           priced == PriceAt(c.of)
           equity == [d \in Derivatives |-> ReadAt(d, c.of)]
           n == [s EXCEPT !.pc = "reconcile", !.nav = nav, !.priced = priced, !.equity = equity]
<1>1. s.pc = "value" /\ UNCHANGED <<now, evidence, runs, snapshots>> /\ Become(r, n)
  BY DEF Value, At
<1>2. ShapedSession(s) /\ Rows'
  BY <1>1 DEF Shape, Rows
<1>3. nav # None => Priced(RunOf(s.run)) /\ FreshEquities(RunOf(s.run))
  OBVIOUS
<1>4. priced = PriceAt(RunOf(s.run).of) /\ equity = [d \in Derivatives |-> ReadAt(d, RunOf(s.run).of)]
  OBVIOUS
<1> HIDE DEF nav, priced, equity, c
<1>5. /\ ShapedSession(n) /\ n.pc = "reconcile" /\ Continues(n, s)
      /\ n.nav = nav /\ n.priced = priced /\ n.equity = equity
  BY <1>2 DEF ShapedSession, Fields, Idle, PCs, Continues, SameDays
<1> HIDE DEF n
<1> QED
  BY <1>1, <1>2, <1>3, <1>4, <1>5 DEF Moves

\* and compared with the balances.
LEMMA ReconcileIs ==
  ASSUME Shape, NEW r \in Requests, Reconcile(r), NEW s, s = request[r]
  PROVE  /\ s.pc = "reconcile" /\ UNCHANGED <<now, evidence, runs, snapshots>>
         /\ \E n :
              /\ Moves(r, n) /\ n.pc = "insert" /\ Continues(n, s)
              /\ n.nav # None => n.nav = s.nav /\ Reconciled(RunOf(s.run))
              /\ n.priced = s.priced /\ n.equity = s.equity
<1> DEFINE base == Previous(s.target)
           nav == IF Reconciled(RunOf(s.run)) THEN s.nav ELSE None
           flow == IF base = None THEN None ELSE ExternalFlow(base, s.target)
           known == base # None /\ nav # None /\ flow # None
           pnl == IF known /\ SnapshotOf(base).nav # None
                  THEN nav - SnapshotOf(base).nav - flow ELSE None
           n == [s EXCEPT !.pc = "insert", !.nav = nav, !.base = base, !.flow = flow, !.pnl = pnl]
<1>1. s.pc = "reconcile" /\ UNCHANGED <<now, evidence, runs, snapshots>> /\ Become(r, n)
  BY DEF Reconcile, At
<1>2. ShapedSession(s) /\ Rows'
  BY <1>1 DEF Shape, Rows
<1>3. nav # None => nav = s.nav /\ Reconciled(RunOf(s.run))
  OBVIOUS
<1> HIDE DEF nav, base, flow, pnl
<1>4. /\ ShapedSession(n) /\ n.pc = "insert" /\ Continues(n, s)
      /\ n.nav = nav /\ n.priced = s.priced /\ n.equity = s.equity
  BY <1>2 DEF ShapedSession, Fields, Idle, PCs, Continues, SameDays
<1> HIDE DEF n
<1> QED
  BY <1>1, <1>2, <1>3, <1>4 DEF Moves

\* The snapshot is stored, unless there is one; a backfill goes to the day after.
LEMMA InsertIs ==
  ASSUME Shape, NEW r \in Requests, Insert(r), NEW s, s = request[r]
  PROVE  /\ s.pc = "insert" /\ UNCHANGED <<now, evidence, runs>>
         /\ \E n :
              /\ Moves(r, n)
              /\ \/ n = Idle /\ snapshots' = snapshots
                 \/ \E x : /\ x.at = s.target /\ snapshots' = snapshots \cup {x}
                           /\ \/ n = Idle
                              \/ /\ s.backfill /\ n.backfill /\ ~ n.done /\ n.pc = "next"
                                 /\ n.first = s.first /\ n.last = s.last /\ n.day = s.day + 1
                                 /\ n.skip = s.skip /\ n.had = s.had
<1> DEFINE x == [at |-> s.target, run |-> s.run, nav |-> s.nav, flow |-> s.flow, pnl |-> s.pnl]
           first == s.first  last == s.last  day == s.day + 1  skip == s.skip  had == s.had
           n == [Idle EXCEPT !.pc = "next", !.backfill = TRUE, !.first = first, !.last = last,
                             !.day = day, !.skip = skip, !.had = had]
<1>1. /\ s.pc = "insert" /\ UNCHANGED <<now, evidence, runs>>
      /\ \/ Become(r, Idle) /\ snapshots' = snapshots
         \/ snapshots' = snapshots \cup {x} /\ ~ s.backfill /\ Become(r, Idle)
         \/ snapshots' = snapshots \cup {x} /\ s.backfill /\ Become(r, n)
  BY Zenon DEF Insert, At, Stop
<1>2. ShapedSession(s) /\ Rows'
  BY <1>1 DEF Shape, Rows
<1>3. x.at = s.target
  OBVIOUS
<1> HIDE DEF x
<1>4. first \in Instants /\ last \in Instants /\ day \in Nat
  BY <1>2 DEF ShapedSession
<1> HIDE DEF first, last, day, skip, had
<1>5. /\ ShapedSession(n) /\ n.backfill /\ ~ n.done /\ n.pc = "next"
      /\ n.first = first /\ n.last = last /\ n.day = day /\ n.skip = skip /\ n.had = had
  BY <1>4, IdleShape DEF ShapedSession, Fields, Idle, PCs
<1> HIDE DEF n
<1>6. CASE Become(r, Idle)
  BY <1>1, <1>2, <1>3, <1>6, IdleShape DEF Moves
<1>7. CASE snapshots' = snapshots \cup {x} /\ s.backfill /\ Become(r, n)
  BY <1>1, <1>2, <1>3, <1>7, <1>5 DEF Moves, first, last, day, skip, had
<1> QED
  BY <1>1, <1>6, <1>7

\* A session that dies.
LEMMA CrashIs ==
  ASSUME Shape, NEW r \in Requests, Crash(r)
  PROVE  UNCHANGED <<now, evidence, runs, snapshots>> /\ Moves(r, Idle)
BY IdleShape DEF Crash, Stop, Moves, Shape, Rows

-----------------------------------------------------------------------------
(* A backfill covers its days, and takes none twice. *)

\* Snapshots stay, and so does what was said of the days they cover.
LEMMA DailyStays ==
  ASSUME NEW s, Daily(s), snapshots \subseteq snapshots'
  PROVE  Daily(s)'
<1>1. \A d : DayHasSnapshot(d) => DayHasSnapshot(d)'
  BY DEF DayHasSnapshot
<1>2. RangeDays(s)' = RangeDays(s)
  BY DEF RangeDays
<1>3. Steady(s) => Steady(s)'
  BY <1>1, <1>2 DEF Steady
<1>4. Chosen(s) => Chosen(s)'
  BY <1>2 DEF Chosen
<1> QED
  BY <1>1, <1>2, <1>3, <1>4 DEF Daily

\* An ended session says nothing of days.
LEMMA DailyIdle == Daily(Idle)
BY IdleShape DEF Daily

\* A session goes on being of the same days.
LEMMA DailyContinues ==
  ASSUME NEW s, NEW n, Daily(s), s.pc \notin {"idle", "next"}, ~ s.done \/ s.pc = "idle",
         Continues(n, s), n.pc \notin {"idle", "next"}
  PROVE  Daily(n)
BY DEF Daily, Steady, Chosen, Continues, SameDays, RangeDays

\* A session's move keeps the invariant if what it becomes has it.
LEMMA DailyMoves ==
  ASSUME DailyInv, NEW r \in Requests, NEW n, Moves(r, n), Daily(n)',
         now' = now, snapshots \subseteq snapshots', \A x \in snapshots' : x.at \in Instants
  PROVE  DailyInv'
<1>1. /\ DOMAIN request' = Requests /\ request'[r] = n
      /\ \A q \in Requests : q # r => request'[q] = request[q]
  BY DEF Moves, Become, DailyInv, Shape
<1>2. Shape'
  BY <1>1 DEF DailyInv, Shape, Moves
<1>3. ASSUME NEW q \in Requests
      PROVE  Daily(request[q])'
  <2>1. CASE q = r
    BY <1>1, <2>1 DEF Daily, Steady, Chosen, DayHasSnapshot, RangeDays
  <2>2. CASE q # r
    <3>1. PICK s : s = request[q]
      OBVIOUS
    <3>2. Daily(s)'
      BY <3>1, DailyStays DEF DailyInv
    <3>3. request'[q] = s
      BY <1>1, <2>2, <3>1
    <3> QED
      BY <3>2, <3>3 DEF Daily, Steady, Chosen, DayHasSnapshot, RangeDays
  <2> QED
    BY <2>1, <2>2
<1> QED
  BY <1>2, <1>3 DEF DailyInv

\* The days that are skipped have a snapshot, and are all that have one in the range.
LEMMA SkippedAre ==
  ASSUME Shape, NEW first \in Instants, NEW last \in Instants
  PROVE  /\ \A d \in ExistingDates(first, last) : DayHasSnapshot(d)
         /\ {DayOf(x.at) : x \in snapshots} \cap (DayOf(first)..DayOf(last))
              \subseteq ExistingDates(first, last)
<1>1. \A d \in ExistingDates(first, last) : DayHasSnapshot(d)
  BY DEF ExistingDates, DayHasSnapshot
<1>2. ASSUME NEW x \in snapshots, DayOf(x.at) \in DayOf(first)..DayOf(last)
      PROVE  DayOf(x.at) \in ExistingDates(first, last)
  <2>1. x.at \in Nat /\ first \in Nat /\ last \in Nat
    BY DEF Shape, Instants
  <2>2. first - Day <= x.at /\ x.at <= last + Day
    BY <1>2, <2>1, DaysNear
  <2> QED
    BY <2>2 DEF ExistingDates
<1> QED
  BY <1>1, <1>2

\* At first there is no session,
LEMMA DailyInit == Init => DailyInv
<1> SUFFICES ASSUME Init PROVE DailyInv
  OBVIOUS
<1>1. 0 \in Instants
  BY ConstantsAssumption DEF Instants
<1>2. Rows
  BY FS_EmptySet DEF Init, Rows
<1>3. DOMAIN request = Requests /\ \A r \in Requests : request[r] = Idle
  BY DEF Init
<1>4. Shape
  BY <1>1, <1>2, <1>3, IdleShape DEF Init, Shape
<1> QED
  BY <1>3, <1>4, DailyIdle DEF DailyInv

\* a step of a session keeps the invariant,
LEMMA DailyServe ==
  ASSUME DailyInv, NEW r \in Requests, Serve(r)
  PROVE  DailyInv'
<1> USE DEF DailyInv
<1>1. PICK s : s = request[r]
  OBVIOUS
<1>2. ShapedSession(s) /\ Daily(s) /\ Shape
  BY <1>1 DEF Shape
<1>3. ASSUME NEW n, Moves(r, n), Daily(n), now' = now, snapshots' = snapshots
      PROVE  DailyInv'
  <2>1. Daily(n)'
    BY <1>3, DailyStays
  <2>2. \A x \in snapshots' : x.at \in Instants
    BY <1>3 DEF Shape
  <2> QED
    BY <1>3, <2>1, <2>2, DailyMoves
<1>4. CASE \E t \in Instants, recalculate \in BOOLEAN : Capture(r, t, recalculate)
  <2>1. PICK t \in Instants, recalculate \in BOOLEAN : Capture(r, t, recalculate)
    BY <1>4
  <2>2. PICK n : /\ Moves(r, n) /\ ~ n.backfill /\ ~ n.done
                 /\ \/ n = Idle /\ runs' = runs
                    \/ \E u : Begins(n, u, t)
    BY <1>2, <2>1, CaptureIs
  <2>3. now' = now /\ snapshots' = snapshots
    BY <1>2, <2>1, CaptureIs
  <2>4. n.pc # "next"
    BY <2>2, IdleShape DEF Begins
  <2>5. Daily(n)
    BY <2>2, <2>4 DEF Daily
  <2> QED
    BY <1>3, <2>2, <2>3, <2>5
<1>5. CASE \E range \in Ranges : Backfill(r, range[1], range[2])
  <2>1. PICK range \in Ranges : Backfill(r, range[1], range[2])
    BY <1>5
  <2>2. PICK first, end : first = range[1] /\ end = range[2]
    OBVIOUS
  <2>3. first \in Instants /\ end \in Instants /\ first <= end /\ Backfill(r, first, end)
    BY <2>1, <2>2, ConstantsAssumption
  <2>4. now' = now /\ snapshots' = snapshots
    BY <1>2, <2>3, BackfillIs
  <2>5. \E last \in Instants : \E n :
              /\ Moves(r, n)
              /\ n.pc = "next" /\ n.backfill /\ ~ n.done
              /\ n.first = first /\ n.last = last /\ n.day = DayOf(first)
              /\ n.skip = ExistingDates(first, last)
              /\ n.had = {DayOf(x.at) : x \in snapshots}
    BY <1>2, <2>3, BackfillIs
  <2>6. PICK last \in Instants : \E n :
              /\ Moves(r, n)
              /\ n.pc = "next" /\ n.backfill /\ ~ n.done
              /\ n.first = first /\ n.last = last /\ n.day = DayOf(first)
              /\ n.skip = ExistingDates(first, last)
              /\ n.had = {DayOf(x.at) : x \in snapshots}
    BY <2>5
  <2>7. PICK n :
              /\ Moves(r, n)
              /\ n.pc = "next" /\ n.backfill /\ ~ n.done
              /\ n.first = first /\ n.last = last /\ n.day = DayOf(first)
              /\ n.skip = ExistingDates(first, last)
              /\ n.had = {DayOf(x.at) : x \in snapshots}
    BY <2>6
  <2>8. DayOf(first) \in Nat
    BY <2>3, DayIs DEF Instants
  <2>9. DayOf(n.first)..(n.day - 1) = {} /\ DayOf(n.first) <= n.day
    BY <2>7, <2>8
  <2>10. Steady(n)
    BY <1>2, <2>3, <2>7, <2>9, SkippedAre DEF Steady, RangeDays
  <2>11. Daily(n)
    BY <2>7, <2>10 DEF Daily
  <2> QED
    BY <1>3, <2>4, <2>7, <2>11
<1>6. CASE NextDay(r)
  <2>1. s.pc = "next" /\ now' = now /\ snapshots' = snapshots
    BY <1>1, <1>2, <1>6, NextDayIs
  <2>2. PICK n :
              /\ Moves(r, n)
              /\ \/ /\ runs' = runs /\ n.pc = "idle" /\ ~ n.backfill /\ n.done
                    /\ n.first = s.first /\ n.last = s.last
                    /\ (s.day..DayOf(s.last)) \subseteq s.skip
                 \/ runs' = runs /\ n = Idle
                 \/ \E d \in (s.day..DayOf(s.last)) \ s.skip, t \in Instants : \E u :
                      /\ \A e \in s.day..(d - 1) : e \in s.skip
                      /\ DayOf(t) = d
                      /\ n.backfill = s.backfill /\ n.done = s.done
                      /\ n.first = s.first /\ n.last = s.last /\ n.day = d
                      /\ n.skip = s.skip /\ n.had = s.had
                      /\ Begins(n, u, t)
    BY <1>1, <1>2, <1>6, NextDayIs
  <2>3. s.backfill /\ Steady(s) /\ ~ s.done
    BY <1>2, <2>1 DEF Daily
  <2>4. s.day \in Nat /\ DayOf(s.first) \in Nat /\ DayOf(s.last) \in Nat
    <3>1. s.first \in Nat /\ s.last \in Nat /\ s.day \in Nat
      BY <1>2 DEF ShapedSession, Instants
    <3> QED
      BY <3>1, DayIs
  <2>5. CASE /\ n.pc = "idle" /\ ~ n.backfill /\ n.done
             /\ n.first = s.first /\ n.last = s.last
             /\ (s.day..DayOf(s.last)) \subseteq s.skip
    <3>1. ASSUME NEW d \in DayOf(s.first)..DayOf(s.last)
          PROVE  DayHasSnapshot(d)
      <4>1. CASE d <= s.day - 1
        <5>1. d \in DayOf(s.first)..(s.day - 1)
          BY <2>4, <4>1
        <5> QED
          BY <2>3, <5>1 DEF Steady
      <4>2. CASE s.day <= d
        BY <2>3, <2>4, <2>5, <4>2 DEF Steady
      <4> QED
        BY <2>4, <4>1, <4>2
    <3>2. Daily(n)
      BY <2>5, <3>1 DEF Daily, RangeDays
    <3> QED
      BY <1>3, <2>1, <2>2, <3>2
  <2>6. CASE n = Idle
    BY <1>3, <2>1, <2>2, <2>6, DailyIdle
  <2>7. CASE \E d \in (s.day..DayOf(s.last)) \ s.skip, t \in Instants : \E u :
                      /\ \A e \in s.day..(d - 1) : e \in s.skip
                      /\ DayOf(t) = d
                      /\ n.backfill = s.backfill /\ n.done = s.done
                      /\ n.first = s.first /\ n.last = s.last /\ n.day = d
                      /\ n.skip = s.skip /\ n.had = s.had
                      /\ Begins(n, u, t)
    <3>1. PICK d \in (s.day..DayOf(s.last)) \ s.skip, t \in Instants : \E u :
                      /\ \A e \in s.day..(d - 1) : e \in s.skip
                      /\ DayOf(t) = d
                      /\ n.backfill = s.backfill /\ n.done = s.done
                      /\ n.first = s.first /\ n.last = s.last /\ n.day = d
                      /\ n.skip = s.skip /\ n.had = s.had
                      /\ Begins(n, u, t)
      BY <2>7
    <3>2. n.target = t /\ n.pc \in {"cost", "value"}
      BY <3>1 DEF Begins
    <3>3. DayOf(s.first) <= d /\ d \in RangeDays(s)
      BY <2>3, <2>4, <3>1 DEF Steady, RangeDays
    <3>4. ASSUME NEW e \in DayOf(s.first)..(d - 1)
          PROVE  DayHasSnapshot(e)
      <4>1. CASE e <= s.day - 1
        <5>1. e \in DayOf(s.first)..(s.day - 1)
          BY <2>4, <4>1
        <5> QED
          BY <2>3, <5>1 DEF Steady
      <4>2. CASE s.day <= e
        <5>1. e \in s.day..(d - 1)
          BY <2>4, <3>1, <4>2
        <5> QED
          BY <2>3, <3>1, <5>1 DEF Steady
      <4> QED
        BY <2>4, <4>1, <4>2
    <3>5. Steady(n)
      BY <2>3, <3>1, <3>3, <3>4 DEF Steady, RangeDays
    <3>6. Chosen(n)
      BY <3>1, <3>2, <3>3 DEF Chosen, RangeDays
    <3>7. Daily(n)
      BY <2>3, <3>1, <3>2, <3>5, <3>6 DEF Daily
    <3> QED
      BY <1>3, <2>1, <2>2, <3>7
  <2> QED
    BY <2>2, <2>5, <2>6, <2>7
<1>7. ASSUME NEW n, Moves(r, n), s.pc \notin {"idle", "next"}, n.pc \notin {"idle", "next"},
             Continues(n, s), now' = now, snapshots' = snapshots
      PROVE  DailyInv'
  <2>1. ~ s.done
    BY <1>2, <1>7 DEF Daily
  <2>2. Daily(n)
    BY <1>2, <1>7, <2>1, DailyContinues
  <2> QED
    BY <1>3, <1>7, <2>2
<1>8. CASE Cost(r)
  <2>1. PICK n :
              /\ Moves(r, n)
              /\ \/ n.pc = "value" /\ Continues(n, s)
                 \/ n = Idle
    BY <1>1, <1>2, <1>8, CostIs
  <2>2. s.pc = "cost" /\ now' = now /\ snapshots' = snapshots
    BY <1>1, <1>2, <1>8, CostIs
  <2> QED
    BY <1>3, <1>7, <2>1, <2>2, DailyIdle
<1>9. CASE Value(r)
  BY <1>1, <1>2, <1>7, <1>9, ValueIs
<1>10. CASE Reconcile(r)
  BY <1>1, <1>2, <1>7, <1>10, ReconcileIs
<1>11. CASE Insert(r)
  <2>1. s.pc = "insert" /\ now' = now
    BY <1>1, <1>2, <1>11, InsertIs
  <2>2. PICK n :
              /\ Moves(r, n)
              /\ \/ n = Idle /\ snapshots' = snapshots
                 \/ \E x : /\ x.at = s.target /\ snapshots' = snapshots \cup {x}
                           /\ \/ n = Idle
                              \/ /\ s.backfill /\ n.backfill /\ ~ n.done /\ n.pc = "next"
                                 /\ n.first = s.first /\ n.last = s.last /\ n.day = s.day + 1
                                 /\ n.skip = s.skip /\ n.had = s.had
    BY <1>1, <1>2, <1>11, InsertIs
  <2>3. CASE n = Idle /\ snapshots' = snapshots
    BY <1>3, <2>1, <2>2, <2>3, DailyIdle
  <2>4. CASE \E x : /\ x.at = s.target /\ snapshots' = snapshots \cup {x}
                    /\ \/ n = Idle
                       \/ /\ s.backfill /\ n.backfill /\ ~ n.done /\ n.pc = "next"
                          /\ n.first = s.first /\ n.last = s.last /\ n.day = s.day + 1
                          /\ n.skip = s.skip /\ n.had = s.had
    <3>1. PICK x : /\ x.at = s.target /\ snapshots' = snapshots \cup {x}
                    /\ \/ n = Idle
                       \/ /\ s.backfill /\ n.backfill /\ ~ n.done /\ n.pc = "next"
                          /\ n.first = s.first /\ n.last = s.last /\ n.day = s.day + 1
                          /\ n.skip = s.skip /\ n.had = s.had
      BY <2>4
    <3>2. \A y \in snapshots' : y.at \in Instants
      BY <1>2, <3>1 DEF Shape, ShapedSession
    <3>3. snapshots \subseteq snapshots'
      BY <3>1
    <3>4. CASE n = Idle
      <4>1. Daily(n)'
        BY <3>3, <3>4, DailyIdle, DailyStays
      <4> QED
        BY <2>1, <2>2, <3>2, <3>3, <4>1, DailyMoves
    <3>5. CASE /\ s.backfill /\ n.backfill /\ ~ n.done /\ n.pc = "next"
               /\ n.first = s.first /\ n.last = s.last /\ n.day = s.day + 1
               /\ n.skip = s.skip /\ n.had = s.had
      <4>1. Daily(s)'
        BY <1>2, <3>3, DailyStays
      <4>2. Steady(s)' /\ Chosen(s)'
        BY <2>1, <3>5, <4>1 DEF Daily
      <4>3. DayHasSnapshot(s.day)'
        BY <3>1, <4>2 DEF Chosen, DayHasSnapshot
      <4>4. s.day \in Nat /\ DayOf(s.first) \in Nat
        <5>1. s.first \in Nat /\ s.day \in Nat
          BY <1>2 DEF ShapedSession, Instants
        <5> QED
          BY <5>1, DayIs
      <4>5. \A d \in DayOf(s.first)..((s.day + 1) - 1) : d = s.day \/ d \in DayOf(s.first)..(s.day - 1)
        BY <4>4
      <4>6. \A d \in DayOf(n.first)..(n.day - 1) : DayHasSnapshot(d)'
        BY <3>5, <4>2, <4>3, <4>5 DEF Steady
      <4>7. Steady(n)'
        BY <3>5, <4>2, <4>4, <4>6 DEF Steady, RangeDays
      <4>8. Daily(n)'
        BY <3>5, <4>7 DEF Daily
      <4> QED
        BY <2>1, <2>2, <3>2, <3>3, <4>8, DailyMoves
    <3> QED
      BY <3>1, <3>4, <3>5
  <2> QED
    BY <2>2, <2>3, <2>4
<1>12. CASE Crash(r)
  <2>1. now' = now /\ snapshots' = snapshots /\ Moves(r, Idle)
    BY <1>2, <1>12, CrashIs
  <2> QED
    BY <1>3, <2>1, DailyIdle
<1> QED
  BY <1>4, <1>5, <1>6, <1>8, <1>9, <1>10, <1>11, <1>12 DEF Serve

\* and so does every other step.
LEMMA DailyStep == DailyInv /\ [Next]_vars => DailyInv'
<1> SUFFICES ASSUME DailyInv, [Next]_vars
             PROVE  DailyInv'
  OBVIOUS
<1>1. ASSUME UNCHANGED <<runs, snapshots, request>>, now' \in Instants
      PROVE  DailyInv'
  BY <1>1 DEF DailyInv, Shape, Rows, Daily, Steady, Chosen, DayHasSnapshot, RangeDays
<1>2. now \in Instants
  BY DEF DailyInv, Shape
<1>3. CASE \E c \in Connections, t \in Instants : Sync(c, t)
  BY <1>1, <1>2, <1>3 DEF Sync
<1>4. CASE \E t \in Instants : WritePrice(t)
  BY <1>1, <1>2, <1>4 DEF WritePrice
<1>5. CASE \E x \in Transfers : Match(x)
  BY <1>1, <1>2, <1>5 DEF Match
<1>6. CASE Tick
  <2>1. now' \in Instants
    BY <1>2, <1>6, ConstantsAssumption DEF Tick, Instants
  <2> QED
    BY <1>1, <1>6, <2>1 DEF Tick
<1>7. CASE \E r \in Requests : Serve(r)
  BY <1>7, DailyServe
<1>8. CASE UNCHANGED vars
  BY <1>1, <1>2, <1>8 DEF vars
<1> QED
  BY <1>3, <1>4, <1>5, <1>6, <1>7, <1>8 DEF Next

\* The days are covered as they are said to be.
LEMMA DailyHolds == Spec => []DailyInv
BY DailyInit, DailyStep, PTL DEF Spec

\* A backfill that came to its end has left no day of its range without a
\* snapshot (backfill_snapshots: its loop over the dates).
THEOREM CoversEveryDay == Spec => []BackfillCovers
<1>1. DailyInv => BackfillCovers
  BY DEF DailyInv, Daily, BackfillCovers, RangeDays, DayHasSnapshot
<1> QED
  BY <1>1, DailyHolds, PTL

\* A backfill captures the day it is at, and no day that had a snapshot when it
\* began, also in part (backfill_snapshots: the dates that exist, and target_at).
THEOREM EachDayOnce == Spec => []NeverTwiceADay
<1>1. DailyInv => NeverTwiceADay
  <2> SUFFICES ASSUME DailyInv, NEW s, Daily(s), s.backfill, s.pc \notin {"idle", "next"}
               PROVE  DayOf(s.target) = s.day /\ s.day \notin s.had
    BY DEF DailyInv, NeverTwiceADay
  <2> QED
    BY DEF Daily, Steady, Chosen
<1> QED
  BY <1>1, DailyHolds, PTL

-----------------------------------------------------------------------------
(* A net worth is as new as it was asked for. *)

\* What was read last grows older only as readings are lost.
LEMMA ReadGrows ==
  ASSUME NEW a, NEW t, readings \subseteq readings', ReadAt(a, t) # None
  PROVE  ReadAt(a, t)' # None /\ ReadAt(a, t) <= ReadAt(a, t)' /\ ReadAt(a, t)' <= t
         /\ ReadAt(a, t)' \in Instants /\ ReadAt(a, t) \in Instants
<1> DEFINE u == ReadAt(a, t)
           S == {v \in Instants : v <= t /\ [account |-> a, at |-> v] \in readings}
<1>1. u \in Instants /\ u <= t /\ [account |-> a, at |-> u] \in readings
  BY ReadIs
<1>2. u \in S'
  BY <1>1
<1>3. S' \subseteq Instants /\ ReadAt(a, t)' = LatestOf(S')
  BY DEF ReadAt, LatestOf
<1>4. \A v \in S' : v \in Instants /\ v <= t
  OBVIOUS
<1> HIDE DEF S, u
<1>5. LatestOf(S') # None /\ LatestOf(S') \in S' /\ u <= LatestOf(S')
  BY <1>2, <1>3, LatestIs
<1> QED
  BY <1>1, <1>3, <1>4, <1>5 DEF u

\* What is as new as asked stays so.
LEMMA AsNewGrows ==
  ASSUME NEW a, NEW t, NEW floor \in Instants \cup {None}, readings \subseteq readings',
         AsNew(ReadAt(a, t), floor, t)
  PROVE  AsNew(ReadAt(a, t)', floor, t)
<1>1. SUFFICES ASSUME floor # None
               PROVE  ReadAt(a, t)' # None /\ floor <= ReadAt(a, t)' /\ ReadAt(a, t)' <= t
  BY DEF AsNew
<1>2. ReadAt(a, t) # None /\ floor <= ReadAt(a, t)
  BY <1>1 DEF AsNew
<1>3. /\ ReadAt(a, t)' # None /\ ReadAt(a, t) <= ReadAt(a, t)' /\ ReadAt(a, t)' <= t
      /\ ReadAt(a, t)' \in Instants /\ ReadAt(a, t) \in Instants
  BY <1>2, ReadGrows
<1>4. floor \in Int /\ ReadAt(a, t) \in Int /\ ReadAt(a, t)' \in Int
  BY <1>1, <1>3 DEF Instants
<1> QED
  BY <1>2, <1>3, <1>4

\* A complete run stays what it is.
LEMMA RunStays ==
  ASSUME Rows, Rows', NEW s, RunIs(s, "succeeded"),
         \A c \in runs : c.status = "succeeded" => c \in runs'
  PROVE  RunIs(s, "succeeded")' /\ RunOf(s.run)' = RunOf(s.run)
<1>1. PICK c \in runs : c.id = s.run /\ c.status = "succeeded"
  BY DEF RunIs
<1>2. c \in runs' /\ RunOf(s.run) = c
  BY <1>1 DEF RunOf, Rows
<1>3. RunOf(s.run)' = c
  BY <1>1, <1>2 DEF RunOf, Rows
<1> QED
  BY <1>1, <1>2, <1>3 DEF RunIs

\* What is said of a session stays true as rows are added.
LEMMA HonestStays ==
  ASSUME Rows, Rows', NEW s, ShapedSession(s), Honest(s),
         readings \subseteq readings',
         \A c \in runs : c.status = "succeeded" => c \in runs',
         s.pc = "cost" => RunIs(s, "running")'
  PROVE  Honest(s)'
<1>1. Begun(s) => Begun(s)'
  <2> SUFFICES ASSUME Begun(s), NEW a \in Accounts
               PROVE  AsNew(ReadAt(a, s.target)', s.floor[a], s.target)
    BY DEF Begun, AsNew
  <2>1. s.floor[a] \in Instants \cup {None}
    BY DEF ShapedSession
  <2> QED
    BY <2>1, AsNewGrows DEF Begun
<1>2. CASE RunIs(s, "succeeded")
  <2>1. RunIs(s, "succeeded")' /\ RunOf(s.run)' = RunOf(s.run)
    BY <1>2, RunStays
  <2>2. Evident(s) => Evident(s)'
    BY <2>1 DEF Evident, OwnRun, AsNew, Fresh
  <2>3. Grounded(s) => Grounded(s)'
    BY <2>1 DEF Grounded, OwnRun
  <2> QED
    BY <1>1, <2>1, <2>2, <2>3 DEF Honest
<1>3. CASE ~ RunIs(s, "succeeded")
  BY <1>1, <1>3 DEF Honest
<1> QED
  BY <1>2, <1>3

\* A session's move keeps the invariant if what it becomes has it.
LEMMA HonestMoves ==
  ASSUME HonestInv, NEW r \in Requests, NEW n, Moves(r, n), Honest(n)',
         now' = now, readings' = readings, \A x \in snapshots' : x.at \in Instants,
         \A c \in runs : c.status = "succeeded" => c \in runs',
         \A q \in Requests, c \in runs :
             q # r /\ At(q, "cost") /\ c.id = request[q].run => c \in runs',
         \A q \in Requests : q # r /\ At(q, "cost") /\ n.pc = "cost" => request[q].run # n.run
  PROVE  HonestInv'
<1>1. /\ DOMAIN request' = Requests /\ request'[r] = n
      /\ \A q \in Requests : q # r => request'[q] = request[q]
  BY DEF Moves, Become, HonestInv, Shape
<1>2. Shape'
  BY <1>1 DEF HonestInv, Shape, Moves
<1>3. OneEach'
  BY <1>1 DEF HonestInv, OneEach, At
<1>4. ASSUME NEW q \in Requests
      PROVE  Honest(request[q])'
  <2>1. CASE q = r
    <3>1. request'[q] = n
      BY <1>1, <2>1
    <3> QED
      BY <3>1 DEF Honest, Begun, Evident, Grounded, OwnRun, AsNew, RunIs, RunOf, ReadAt, Fresh
  <2>2. CASE q # r
    <3>1. PICK s : s = request[q]
      OBVIOUS
    <3>2. Honest(s) /\ ShapedSession(s) /\ Rows /\ Rows'
      BY <3>1 DEF HonestInv, Shape, Moves
    <3>3. s.pc = "cost" => RunIs(s, "running")'
      BY <2>2, <3>1, <3>2 DEF Honest, RunIs, At
    <3>4. Honest(s)'
      BY <3>2, <3>3, HonestStays
    <3>5. request'[q] = s
      BY <1>1, <2>2, <3>1
    <3> QED
      BY <3>4, <3>5 DEF Honest, Begun, Evident, Grounded, OwnRun, AsNew, RunIs, RunOf, ReadAt, Fresh
  <2> QED
    BY <2>1, <2>2
<1> QED
  BY <1>2, <1>3, <1>4 DEF HonestInv

\* A capture that begins has lost nothing.
LEMMA HonestBegins ==
  ASSUME Rows, NEW r, NEW n, NEW s, NEW t \in Instants, Begins(n, s, t), readings' = readings
  PROVE  Honest(n)'
<1>1. n.target = t /\ n.floor = [a \in Accounts |-> ReadAt(a, t)] /\ n.pc \in {"cost", "value"}
  BY DEF Begins
<1>2. \A a \in Accounts : ReadAt(a, t)' = ReadAt(a, t)
  BY DEF ReadAt
<1>3. \A a \in Accounts : AsNew(ReadAt(a, t), ReadAt(a, t), t)
  <2> SUFFICES ASSUME NEW a \in Accounts, ReadAt(a, t) # None
               PROVE  ReadAt(a, t) <= ReadAt(a, t) /\ ReadAt(a, t) <= t
    BY DEF AsNew
  <2>1. ReadAt(a, t) \in Instants /\ ReadAt(a, t) <= t
    BY ReadIs
  <2> QED
    BY <2>1 DEF Instants
<1>4. Begun(n)'
  BY <1>1, <1>2, <1>3 DEF Begun, AsNew
<1>5. CASE n.pc = "cost"
  <2>1. PICK c : c = StartedRun(t)
    OBVIOUS
  <2>2. c.id = n.run /\ c.status = "running" /\ c \in runs'
    BY <1>5, <2>1 DEF Begins, StartedRun
  <2>3. RunIs(n, "running")'
    BY <2>2 DEF RunIs
  <2> QED
    BY <1>4, <1>5, <2>3 DEF Honest
<1>6. CASE n.pc = "value"
  <2>1. RunIs(n, "succeeded")'
    BY <1>6 DEF Begins, RunIs
  <2> QED
    BY <1>4, <1>6, <2>1 DEF Honest
<1> QED
  BY <1>1, <1>5, <1>6

\* A capture that begins keeps the invariant: a new run is no other's.
LEMMA HonestBegun ==
  ASSUME HonestInv, NEW r \in Requests, NEW n, NEW u, NEW t \in Instants,
         Moves(r, n), Begins(n, u, t),
         now' = now, readings' = readings, snapshots' = snapshots
  PROVE  HonestInv'
<1>1. Rows /\ Honest(n)'
  BY HonestBegins DEF HonestInv, Shape
<1>2. \A c \in runs : c \in runs'
  BY DEF Begins
<1>3. ASSUME NEW q \in Requests, q # r, At(q, "cost"), n.pc = "cost"
      PROVE  request[q].run # n.run
  <2>1. PICK c \in runs : c.id = request[q].run
    BY <1>3 DEF HonestInv, Honest, RunIs, At
  <2>2. n.run = Cardinality(runs) + 1 /\ runs' = runs \cup {StartedRun(t)}
    BY <1>3 DEF Begins
  <2> QED
    BY <1>1, <2>1, <2>2, StartKeepsRows
<1>4. \A x \in snapshots' : x.at \in Instants
  BY DEF HonestInv, Shape
<1> QED
  BY <1>1, <1>2, <1>3, <1>4, HonestMoves

\* What was said before a step is said after one that reads only.
LEMMA HonestSame ==
  ASSUME NEW n, Honest(n), readings' = readings, runs' = runs
  PROVE  Honest(n)'
BY DEF Honest, Begun, Evident, Grounded, OwnRun, AsNew, RunIs, RunOf, ReadAt, Fresh

\* At first there is no session,
LEMMA HonestInit == Init => HonestInv
<1> SUFFICES ASSUME Init PROVE HonestInv
  OBVIOUS
<1>1. Shape
  BY DailyInit DEF DailyInv
<1>2. \A r \in Requests : request[r].pc = "idle"
  BY IdleShape DEF Init
<1> QED
  BY <1>1, <1>2 DEF HonestInv, OneEach, At, Honest

\* a step of a session keeps the invariant,
LEMMA HonestServe ==
  ASSUME HonestInv, NEW r \in Requests, Serve(r)
  PROVE  HonestInv'
<1>1. PICK s : s = request[r]
  OBVIOUS
<1>2. Shape /\ Rows /\ ShapedSession(s) /\ Honest(s)
  BY <1>1 DEF HonestInv, Shape
<1>3. ASSUME NEW n, Moves(r, n), Honest(n)', n.pc # "cost",
             now' = now, readings' = readings, runs' = runs, \A x \in snapshots' : x.at \in Instants
      PROVE  HonestInv'
  <2>1. \A c \in runs : c \in runs'
    BY <1>3
  <2> QED
    BY <1>3, <2>1, HonestMoves
<1>4. \A x \in snapshots : x.at \in Instants
  BY <1>2 DEF Shape
<1>5. CASE \E t \in Instants, recalculate \in BOOLEAN : Capture(r, t, recalculate)
  <2>1. PICK t \in Instants, recalculate \in BOOLEAN : Capture(r, t, recalculate)
    BY <1>5
  <2>2. now' = now /\ readings' = readings /\ snapshots' = snapshots
    BY <1>2, <2>1, CaptureIs DEF evidence
  <2>3. PICK n : /\ Moves(r, n)
                 /\ \/ n = Idle /\ runs' = runs
                    \/ \E u : Begins(n, u, t)
    BY <1>2, <2>1, CaptureIs
  <2>4. CASE n = Idle /\ runs' = runs
    <3>1. n.pc = "idle"
      BY <2>4, IdleShape
    <3> QED
      BY <1>3, <1>4, <2>2, <2>3, <2>4, <3>1 DEF Honest
  <2>5. CASE \E u : Begins(n, u, t)
    BY <2>2, <2>3, <2>5, HonestBegun
  <2> QED
    BY <2>3, <2>4, <2>5
<1>6. CASE \E range \in Ranges : Backfill(r, range[1], range[2])
  <2>1. PICK range \in Ranges : Backfill(r, range[1], range[2])
    BY <1>6
  <2>2. PICK first, end : first = range[1] /\ end = range[2]
    OBVIOUS
  <2>3. first \in Instants /\ end \in Instants /\ first <= end /\ Backfill(r, first, end)
    BY <2>1, <2>2, ConstantsAssumption
  <2>4. now' = now /\ readings' = readings /\ runs' = runs /\ snapshots' = snapshots
    BY <1>2, <2>3, BackfillIs DEF evidence
  <2>5. PICK n : Moves(r, n) /\ n.pc = "next"
    BY <1>2, <2>3, BackfillIs
  <2> QED
    BY <1>3, <1>4, <2>4, <2>5 DEF Honest
<1>7. CASE NextDay(r)
  <2>1. now' = now /\ readings' = readings /\ snapshots' = snapshots
    BY <1>1, <1>2, <1>7, NextDayIs DEF evidence
  <2>2. PICK n : /\ Moves(r, n)
                 /\ \/ runs' = runs /\ n.pc = "idle"
                    \/ runs' = runs /\ n = Idle
                    \/ \E t \in Instants : \E u : Begins(n, u, t)
    BY <1>1, <1>2, <1>7, NextDayIs
  <2>3. CASE runs' = runs /\ (n.pc = "idle" \/ n = Idle)
    <3>1. n.pc = "idle"
      BY <2>3, IdleShape
    <3> QED
      BY <1>3, <1>4, <2>1, <2>2, <2>3, <3>1 DEF Honest
  <2>4. CASE \E t \in Instants : \E u : Begins(n, u, t)
    BY <2>1, <2>2, <2>4, HonestBegun
  <2> QED
    BY <2>2, <2>3, <2>4
<1>8. CASE Cost(r)
  <2>1. s.pc = "cost" /\ now' = now /\ readings' = readings /\ snapshots' = snapshots
    BY <1>1, <1>2, <1>8, CostIs DEF evidence
  <2>2. PICK n :
              /\ Moves(r, n)
              /\ \/ /\ n.pc = "value" /\ Continues(n, s)
                    /\ Settle(r, "succeeded", [a \in Spot |-> Quantity(a, s.target)])
                 \/ n = Idle /\ Settle(r, "failed", NoRows)
    BY <1>1, <1>2, <1>8, CostIs
  <2>3. PICK c \in runs : c.id = s.run /\ c.status = "running"
    BY <1>2, <2>1 DEF Honest, RunIs
  <2>4. \A b \in runs : b.status = "succeeded" => b.id # s.run
    BY <1>2, <2>3 DEF Rows
  <2>5. \A q \in Requests : q # r /\ At(q, "cost") => request[q].run # s.run
    BY <1>1, <2>1 DEF HonestInv, OneEach, At
  <2>6. ASSUME \A b \in runs : b.id # s.run => b \in runs', Honest(n)', n.pc # "cost"
        PROVE  HonestInv'
    <3>1. \A b \in runs : b.status = "succeeded" => b \in runs'
      BY <2>4, <2>6
    <3>2. \A q \in Requests, b \in runs :
             q # r /\ At(q, "cost") /\ b.id = request[q].run => b \in runs'
      BY <2>5, <2>6
    <3>3. \A x \in snapshots' : x.at \in Instants
      BY <1>4, <2>1
    <3> QED
      BY <2>1, <2>2, <2>6, <3>1, <3>2, <3>3, HonestMoves
  <2>7. CASE /\ n.pc = "value" /\ Continues(n, s)
             /\ Settle(r, "succeeded", [a \in Spot |-> Quantity(a, s.target)])
    <3>1. PICK held : held = [a \in Spot |-> Quantity(a, s.target)]
      OBVIOUS
    <3>2. /\ \A b \in runs : b.id # s.run => b \in runs'
          /\ [c EXCEPT !.status = "succeeded", !.held = held] \in runs'
      BY <1>1, <1>2, <2>3, <2>7, <3>1, SettleKeepsRows
    <3>3. RunIs(n, "succeeded")'
      <4>1. PICK b : b = [c EXCEPT !.status = "succeeded", !.held = held]
        OBVIOUS
      <4>2. b.id = n.run /\ b.status = "succeeded"
        BY <1>2, <2>3, <2>7, <4>1 DEF Rows, ShapedRun, RunFields, Continues
      <4> QED
        BY <3>2, <4>1, <4>2 DEF RunIs
    <3>4. Begun(n)'
      BY <1>2, <2>1, <2>7 DEF Honest, Begun, AsNew, ReadAt, Continues
    <3>5. Honest(n)'
      BY <2>7, <3>3, <3>4 DEF Honest
    <3> QED
      BY <2>6, <2>7, <3>2, <3>5
  <2>8. CASE n = Idle /\ Settle(r, "failed", NoRows)
    <3>1. \A b \in runs : b.id # s.run => b \in runs'
      BY <1>1, <1>2, <2>8, SettleKeepsRows
    <3>2. n.pc = "idle"
      BY <2>8, IdleShape
    <3> QED
      BY <2>6, <3>1, <3>2 DEF Honest
  <2> QED
    BY <2>2, <2>7, <2>8
<1>9. CASE Value(r)
  <2>1. s.pc = "value" /\ now' = now /\ readings' = readings /\ runs' = runs /\ snapshots' = snapshots
    BY <1>1, <1>2, <1>9, ValueIs DEF evidence
  <2>2. PICK n :
              /\ Moves(r, n) /\ n.pc = "reconcile" /\ Continues(n, s)
              /\ n.nav # None => Priced(RunOf(s.run)) /\ FreshEquities(RunOf(s.run))
              /\ n.priced = PriceAt(RunOf(s.run).of)
              /\ n.equity = [d \in Derivatives |-> ReadAt(d, RunOf(s.run).of)]
    BY <1>1, <1>2, <1>9, ValueIs
  <2>3. Begun(n) /\ RunIs(n, "succeeded")
    BY <1>2, <2>1, <2>2 DEF Honest, Begun, RunIs, Continues
  <2>4. Evident(n)
    <3>1. SUFFICES ASSUME n.nav # None, OwnRun(n)
                   PROVE  /\ \A d \in Derivatives : AsNew(n.equity[d], n.floor[d], n.target)
                          /\ \A a \in Coins : RunOf(n.run).held[a] > 0 => Fresh(n.priced, n.target)
      BY DEF Evident
    <3>2. n.run = s.run /\ RunOf(s.run).of = n.target
      BY <2>2, <3>1 DEF Continues, OwnRun
    <3>3. \A d \in Derivatives : n.equity[d] = ReadAt(d, n.target)
      BY <2>2, <3>2
    <3>4. \A d \in Derivatives : AsNew(ReadAt(d, n.target), n.floor[d], n.target)
      BY <2>3 DEF Begun, Accounts
    <3>5. \A a \in Coins : RunOf(n.run).held[a] > 0 => Fresh(n.priced, n.target)
      BY <2>2, <3>1, <3>2 DEF Priced
    <3> QED
      BY <3>3, <3>4, <3>5
  <2>5. Honest(n)
    BY <2>2, <2>3, <2>4 DEF Honest
  <2>6. Honest(n)'
    BY <2>1, <2>5, HonestSame
  <2> QED
    BY <1>3, <1>4, <2>1, <2>2, <2>6
<1>10. CASE Reconcile(r)
  <2>1. s.pc = "reconcile" /\ now' = now /\ readings' = readings /\ runs' = runs /\ snapshots' = snapshots
    BY <1>1, <1>2, <1>10, ReconcileIs DEF evidence
  <2>2. PICK n :
              /\ Moves(r, n) /\ n.pc = "insert" /\ Continues(n, s)
              /\ n.nav # None => n.nav = s.nav /\ Reconciled(RunOf(s.run))
              /\ n.priced = s.priced /\ n.equity = s.equity
    BY <1>1, <1>2, <1>10, ReconcileIs
  <2>3. Begun(n) /\ RunIs(n, "succeeded") /\ Evident(n)
    BY <1>2, <2>1, <2>2 DEF Honest, Begun, RunIs, Continues, Evident, OwnRun
  <2>4. Grounded(n)
    <3>1. SUFFICES ASSUME n.nav # None, OwnRun(n), NEW a \in Spot, n.floor[a] # None
                   PROVE  \E u \in n.floor[a]..n.target : RunOf(n.run).held[a] = Held[a][u]
      BY DEF Grounded
    <3>2. n.run = s.run /\ RunOf(s.run).of = n.target
      BY <2>2, <3>1 DEF Continues, OwnRun
    <3>3. AsNew(ReadAt(a, n.target), n.floor[a], n.target)
      BY <2>3 DEF Begun, Accounts
    <3>4. ReadAt(a, n.target) # None /\ n.floor[a] <= ReadAt(a, n.target) /\ ReadAt(a, n.target) <= n.target
      BY <3>1, <3>3 DEF AsNew
    <3>5. RunOf(n.run).held[a] = Held[a][ReadAt(a, n.target)]
      BY <2>2, <3>1, <3>2, <3>4 DEF Reconciled
    <3>6. ReadAt(a, n.target) \in Instants /\ n.floor[a] \in Instants /\ n.target \in Instants
      BY <2>2, <3>1, <3>4, ReadIs DEF Moves, ShapedSession, Accounts
    <3>7. ReadAt(a, n.target) \in n.floor[a]..n.target
      BY <3>4, <3>6 DEF Instants
    <3> QED
      BY <3>5, <3>7
  <2>5. Honest(n)
    BY <2>2, <2>3, <2>4 DEF Honest
  <2>6. Honest(n)'
    BY <2>1, <2>5, HonestSame
  <2> QED
    BY <1>3, <1>4, <2>1, <2>2, <2>6
<1>11. CASE Insert(r)
  <2>1. now' = now /\ readings' = readings /\ runs' = runs
    BY <1>1, <1>2, <1>11, InsertIs DEF evidence
  <2>2. PICK n :
              /\ Moves(r, n) /\ (n = Idle \/ n.pc = "next")
              /\ \/ snapshots' = snapshots
                 \/ \E x : x.at = s.target /\ snapshots' = snapshots \cup {x}
    BY <1>1, <1>2, <1>11, InsertIs
  <2>3. n.pc \in {"idle", "next"}
    BY <2>2, IdleShape
  <2>4. \A x \in snapshots' : x.at \in Instants
    BY <1>2, <1>4, <2>2 DEF ShapedSession
  <2> QED
    BY <1>3, <2>1, <2>2, <2>3, <2>4 DEF Honest
<1>12. CASE Crash(r)
  <2>1. /\ now' = now /\ readings' = readings /\ runs' = runs /\ snapshots' = snapshots
        /\ Moves(r, Idle)
    BY <1>2, <1>12, CrashIs DEF evidence
  <2>2. PICK n : n = Idle
    OBVIOUS
  <2>3. n.pc = "idle"
    BY <2>2, IdleShape
  <2> QED
    BY <1>3, <1>4, <2>1, <2>2, <2>3 DEF Honest
<1> QED
  BY <1>5, <1>6, <1>7, <1>8, <1>9, <1>10, <1>11, <1>12 DEF Serve

\* readings that are added keep it,
LEMMA HonestGrows ==
  ASSUME HonestInv, UNCHANGED <<runs, snapshots, request>>, now' \in Instants,
         readings \subseteq readings'
  PROVE  HonestInv'
<1>1. Shape'
  BY DEF HonestInv, Shape, Rows
<1>2. ASSUME NEW q \in Requests
      PROVE  Honest(request[q])'
  <2>1. PICK s : s = request[q]
    OBVIOUS
  <2>2. Rows /\ Rows' /\ ShapedSession(s) /\ Honest(s)
    BY <1>1, <2>1 DEF HonestInv, Shape
  <2>3. s.pc = "cost" => RunIs(s, "running")'
    BY <2>2 DEF Honest, RunIs
  <2>4. Honest(s)'
    BY <2>2, <2>3, HonestStays
  <2>5. request'[q] = s
    BY <2>1
  <2> QED
    BY <2>4, <2>5 DEF Honest, Begun, Evident, Grounded, OwnRun, AsNew, RunIs, RunOf, ReadAt, Fresh
<1> QED
  BY <1>1, <1>2 DEF HonestInv, OneEach, At

\* and so does every other step.
LEMMA HonestStep == HonestInv /\ [Next]_vars => HonestInv'
<1> SUFFICES ASSUME HonestInv, [Next]_vars
             PROVE  HonestInv'
  OBVIOUS
<1>1. now \in Instants
  BY DEF HonestInv, Shape
<1>2. CASE \E c \in Connections, t \in Instants : Sync(c, t)
  BY <1>1, <1>2, HonestGrows DEF Sync
<1>3. CASE \E t \in Instants : WritePrice(t)
  BY <1>1, <1>3, HonestGrows DEF WritePrice
<1>4. CASE \E x \in Transfers : Match(x)
  BY <1>1, <1>4, HonestGrows DEF Match
<1>5. CASE Tick
  <2>1. now' \in Instants
    BY <1>1, <1>5, ConstantsAssumption DEF Tick, Instants
  <2> QED
    BY <1>5, <2>1, HonestGrows DEF Tick, evidence
<1>6. CASE \E r \in Requests : Serve(r)
  BY <1>6, HonestServe
<1>7. CASE UNCHANGED vars
  BY <1>1, <1>7, HonestGrows DEF vars, evidence
<1> QED
  BY <1>2, <1>3, <1>4, <1>5, <1>6, <1>7 DEF Next

\* A net worth that is given leaves out nothing that was there when it was asked
\* for, whatever commits between its reads (_reconcile_run_quantities).
THEOREM NetWorthIsCurrent == Spec => []AsNewAsAsked
<1>1. HonestInv => AsNewAsAsked
  <2> SUFFICES ASSUME NEW s, ShapedSession(s), Honest(s), Valued(s), OwnRun(s)
               PROVE  /\ \A a \in Spot : s.floor[a] # None =>
                           \E u \in s.floor[a]..s.target : RunOf(s.run).held[a] = Held[a][u]
                      /\ \A d \in Derivatives : s.floor[d] # None => s.equity[d] >= s.floor[d]
                      /\ \A a \in Coins : RunOf(s.run).held[a] > 0 => Fresh(s.priced, s.target)
    BY DEF HonestInv, Shape, AsNewAsAsked
  <2>1. Evident(s) /\ Grounded(s) /\ s.nav # None
    BY DEF Honest, Valued
  <2>2. ASSUME NEW d \in Derivatives, s.floor[d] # None
        PROVE  s.equity[d] >= s.floor[d]
    BY <2>1, <2>2 DEF Evident, AsNew
  <2> QED
    BY <2>1, <2>2 DEF Evident, Grounded
<1> QED
  BY <1>1, HonestInit, HonestStep, PTL DEF Spec
-----------------------------------------------------------------------------
(* Net worths, flows and what is earned are sums. *)

\* A total is a sum over its domain,
LEMMA TotalIs ==
  ASSUME NEW f, IsFiniteSet(DOMAIN f), \A x \in DOMAIN f : f[x] \in Int
  PROVE  Total(f) = SumOf(f, DOMAIN f) /\ Total(f) \in Int
<1>1. Total(f) = SumOf(f, DOMAIN f)
  BY MapSumIs DEF Total
<1>2. Numbers(f, DOMAIN f)
  BY DEF Numbers
<1> QED
  BY <1>1, <1>2, SumAny

\* to which nothing adds nothing.
LEMMA SumWithin ==
  ASSUME NEW F, NEW S, Numbers(F, S), NEW R, R \subseteq S, \A x \in S \ R : F[x] = 0
  PROVE  SumOf(F, S) = SumOf(F, R)
<1> DEFINE Q == S \ R
<1>1. SumOf(F, S) = SumOf(F, R) + SumOf(F, Q)
  BY SumParts
<1>2. Numbers(F, R) /\ Numbers(F, Q)
  BY FS_Subset DEF Numbers
<1>3. \A x \in Q : F[x] * 1 = F[x] * 0
  BY <1>2 DEF Numbers
<1> HIDE DEF Q
<1>4. SumOf(F, Q) * 1 = SumOf(F, Q) * 0
  BY <1>2, <1>3, SumScaled
<1>5. SumOf(F, Q) \in Int /\ SumOf(F, R) \in Int
  BY <1>2, SumAny
<1>6. SumOf(F, Q) = 0
  BY <1>4, <1>5
<1> QED
  BY <1>1, <1>5, <1>6

\* The amounts of the movements, and their values when they happened.
Amount == [m \in Movements |-> m.amount]
Dollars == [m \in Movements |-> m.amount * PriceIn(m.account, m.at)]

\* The movements until now.
Ripe == {m \in Movements : m.at \in Instants}

\* The movements of an account at an instant, and of all after one.
Arriving(a, t) == {m \in Movements : m.account = a /\ m.at = t}
Since(s, t) == {m \in Movements : s < m.at /\ m.at <= t}

\* Prices are numbers.
LEMMA PriceIs ==
  ASSUME NEW a, NEW t \in Instants
  PROVE  PriceIn(a, t) \in Nat
BY ConstantsAssumption DEF PriceIn

\* and so are amounts.
LEMMA AmountsAre ==
  /\ Numbers(Amount, Movements) /\ Numbers(Dollars, Ripe)
  /\ \A S \in SUBSET Movements : Numbers(Amount, S) /\ SumOf(Amount, S) \in Int
  /\ \A S \in SUBSET Ripe : Numbers(Dollars, S) /\ SumOf(Dollars, S) \in Int
<1>1. Numbers(Amount, Movements)
  BY ConstantsAssumption DEF Amount, Numbers
<1>2. \A m \in Ripe : m \in Movements /\ m.amount \in Int /\ PriceIn(m.account, m.at) \in Nat
  BY PriceIs, ConstantsAssumption DEF Ripe
<1>3. \A m \in Ripe : Dollars[m] \in Int
  BY <1>2 DEF Dollars
<1>4. Numbers(Dollars, Ripe)
  BY <1>3, FS_Subset, ConstantsAssumption DEF Numbers, Ripe
<1>5. \A S \in SUBSET Movements : Numbers(Amount, S)
  BY <1>1, FS_Subset DEF Numbers
<1>6. \A S \in SUBSET Ripe : Numbers(Dollars, S)
  BY <1>4, FS_Subset DEF Numbers
<1> QED
  BY <1>1, <1>4, <1>5, <1>6, SumAny

\* What was moved is the sum of the amounts.
LEMMA MovedIs ==
  ASSUME NEW a, NEW set \in SUBSET Movements, NEW t
  PROVE  /\ Moved(a, set, t) = SumOf(Amount, {m \in set : m.account = a /\ m.at <= t})
         /\ Moved(a, set, t) \in Int
<1> DEFINE S == {m \in set : m.account = a /\ m.at <= t}
           f == [m \in S |-> m.amount]
<1>1. S \in SUBSET Movements /\ \A m \in S : f[m] = Amount[m] /\ f[m] \in Int
  BY ConstantsAssumption DEF Amount
<1> HIDE DEF S
<1>2. Numbers(Amount, S) /\ SumOf(Amount, S) \in Int
  BY <1>1, AmountsAre
<1>3. DOMAIN f = S /\ IsFiniteSet(S)
  BY <1>2 DEF Numbers
<1> HIDE DEF f
<1>4. Total(f) = SumOf(f, S)
  BY <1>1, <1>3, TotalIs
<1>5. SumOf(f, S) = SumOf(Amount, S)
  BY <1>1, <1>2, SumSame
<1> QED
  BY <1>2, <1>4, <1>5 DEF Moved, S, f

\* An account holds what was moved, and a derivative one what it has gained.
LEMMA HeldIs ==
  ASSUME NEW a \in Accounts, NEW t \in Instants
  PROVE  /\ Held[a][t] = SumOf(Amount, {m \in Movements : m.account = a /\ m.at <= t})
                           + (IF a \in Derivatives THEN Results[a][t] ELSE 0)
         /\ Held[a][t] \in Int
<1>1. Held[a][t] = Moved(a, Movements, t) + (IF a \in Derivatives THEN Results[a][t] ELSE 0)
  BY DEF Held
<1>2. /\ Moved(a, Movements, t) = SumOf(Amount, {m \in Movements : m.account = a /\ m.at <= t})
      /\ Moved(a, Movements, t) \in Int
  BY MovedIs
<1>3. a \in Derivatives => Results[a][t] \in Int
  BY ConstantsAssumption
<1> QED
  BY <1>1, <1>2, <1>3

\* From one instant to the next it changes by what arrives and what is gained.
LEMMA HeldStep ==
  ASSUME NEW a \in Accounts, NEW t \in Instants, t # 0
  PROVE  Held[a][t] = Held[a][t - 1] + SumOf(Amount, Arriving(a, t))
                        + (IF a \in Derivatives THEN Results[a][t] - Results[a][t - 1] ELSE 0)
<1> DEFINE Until(u) == {m \in Movements : m.account = a /\ m.at <= u}
<1>1. t \in Nat /\ t - 1 \in Instants
  BY ConstantsAssumption DEF Instants
<1>2. /\ Until(t - 1) \subseteq Until(t) /\ Until(t) \ Until(t - 1) = Arriving(a, t)
      /\ Until(t) \in SUBSET Movements /\ Until(t - 1) \in SUBSET Movements
      /\ Arriving(a, t) \in SUBSET Movements
  BY <1>1, ConstantsAssumption DEF Arriving
<1>3. /\ Held[a][t] = SumOf(Amount, Until(t)) + (IF a \in Derivatives THEN Results[a][t] ELSE 0)
      /\ Held[a][t - 1] = SumOf(Amount, Until(t - 1))
                            + (IF a \in Derivatives THEN Results[a][t - 1] ELSE 0)
  BY <1>1, HeldIs
<1> HIDE DEF Until
<1>4. SumOf(Amount, Until(t)) = SumOf(Amount, Until(t - 1)) + SumOf(Amount, Arriving(a, t))
  BY <1>2, AmountsAre, SumParts
<1>5. a \in Derivatives => Results[a][t] \in Int /\ Results[a][t - 1] \in Int
  BY <1>1, ConstantsAssumption
<1>6. /\ SumOf(Amount, Until(t - 1)) \in Int /\ SumOf(Amount, Arriving(a, t)) \in Int
  BY <1>2, AmountsAre
<1> QED
  BY <1>3, <1>4, <1>5, <1>6

\* What each account is worth at an instant.
WorthOf(t) == [a \in Accounts |-> Held[a][t] * PriceIn(a, t)]

\* The portfolio is worth the sum.
LEMMA WorthIs ==
  ASSUME NEW t \in Instants
  PROVE  /\ Numbers(WorthOf(t), Accounts)
         /\ Worth[t] = SumOf(WorthOf(t), Accounts) /\ Worth[t] \in Int
<1>1. ASSUME NEW a \in Accounts
      PROVE  WorthOf(t)[a] \in Int
  <2>1. Held[a][t] \in Int /\ PriceIn(a, t) \in Nat
    BY HeldIs, PriceIs
  <2> QED
    BY <2>1 DEF WorthOf
<1>2. DOMAIN WorthOf(t) = Accounts /\ IsFiniteSet(Accounts)
  BY ConstantsAssumption DEF WorthOf
<1>3. Worth[t] = Total(WorthOf(t))
  BY DEF Worth, WorthOf
<1> QED
  BY <1>1, <1>2, <1>3, TotalIs DEF Numbers

\* The worth of an amount at two prices.
LEMMA Revalued ==
  ASSUME NEW h \in Int, NEW g \in Int, NEW p \in Int, NEW q \in Int
  PROVE  (h + g) * q = h * p + h * (q - p) + g * q
OBVIOUS

\* What an account is worth changes by the price of its coins, by its gains, and by
\* what arrives.
LEMMA AccountStep ==
  ASSUME NEW a \in Accounts, NEW t \in Instants, t # 0
  PROVE  WorthOf(t)[a] = WorthOf(t - 1)[a]
           + (IF a \in Coins THEN Held[a][t - 1] * (Quote[t] - Quote[t - 1]) ELSE 0)
           + (IF a \in Derivatives THEN Results[a][t] - Results[a][t - 1] ELSE 0)
           + SumOf(Dollars, Arriving(a, t))
<1> DEFINE h == Held[a][t - 1]
           g == SumOf(Amount, Arriving(a, t))
           d == IF a \in Derivatives THEN Results[a][t] - Results[a][t - 1] ELSE 0
           p == PriceIn(a, t - 1)
           q == PriceIn(a, t)
<1>1. t - 1 \in Instants
  BY ConstantsAssumption DEF Instants
<1>2. Held[a][t] = h + g + d
  BY HeldStep
<1>3. h \in Int /\ p \in Int /\ q \in Int
  <2>1. PriceIn(a, t - 1) \in Nat /\ PriceIn(a, t) \in Nat
    BY <1>1, PriceIs
  <2>2. Held[a][t - 1] \in Int
    BY <1>1, HeldIs
  <2> QED
    BY <2>1, <2>2
<1>4. g \in Int
  BY AmountsAre DEF Arriving
<1>5. d \in Int
  BY <1>1, ConstantsAssumption
<1>6. WorthOf(t)[a] = Held[a][t] * q /\ WorthOf(t - 1)[a] = h * p
  BY DEF WorthOf
<1>7. SumOf(Dollars, Arriving(a, t)) = g * q
  <2> DEFINE S == Arriving(a, t)
  <2>1. S \in SUBSET Ripe /\ S \in SUBSET Movements
    BY DEF Arriving, Ripe
  <2>2. Numbers(Amount, S) /\ Numbers(Dollars, S) /\ SumOf(Dollars, S) \in Int
    BY <2>1, AmountsAre
  <2>3. \A m \in S : Amount[m] * q = Dollars[m] * 1
    <3> SUFFICES ASSUME NEW m \in S PROVE Amount[m] * q = Dollars[m] * 1
      OBVIOUS
    <3>1. m \in Movements /\ m.account = a /\ m.at = t
      BY DEF Arriving
    <3>2. Dollars[m] = Amount[m] * q /\ Dollars[m] \in Int
      BY <2>2, <3>1 DEF Dollars, Amount, Numbers
    <3> QED
      BY <3>2
  <2> HIDE DEF S, q
  <2>4. SumOf(Amount, S) * q = SumOf(Dollars, S) * 1
    BY <1>3, <2>2, <2>3, SumScaled
  <2> QED
    BY <2>2, <2>4 DEF S
<1>8. CASE a \in Coins
  <2>1. d = 0 /\ p = Quote[t - 1] /\ q = Quote[t]
    BY <1>8, ConstantsAssumption DEF PriceIn
  <2> HIDE DEF h, g, d, p, q
  <2>2. WorthOf(t)[a] = (h + g) * q
    BY <1>2, <1>3, <1>4, <1>6, <2>1
  <2>3. WorthOf(t)[a] = h * p + h * (q - p) + g * q
    BY <1>3, <1>4, <2>2, Revalued
  <2>4. h * p \in Int /\ h * (q - p) \in Int /\ g * q \in Int
    BY <1>3, <1>4
  <2> QED
    BY <1>6, <1>7, <1>8, <2>1, <2>3, <2>4 DEF d, h
<1>9. CASE a \notin Coins
  <2>1. p = 1 /\ q = 1
    BY <1>9 DEF PriceIn
  <2> HIDE DEF h, g, d, p, q
  <2>2. WorthOf(t)[a] = h + g + d /\ WorthOf(t - 1)[a] = h /\ SumOf(Dollars, Arriving(a, t)) = g
    BY <1>2, <1>3, <1>4, <1>5, <1>6, <1>7, <2>1
  <2>3. WorthOf(t)[a] = WorthOf(t - 1)[a] + 0 + d + SumOf(Dollars, Arriving(a, t))
    BY <1>3, <1>4, <1>5, <2>2
  <2> QED
    BY <1>9, <2>3 DEF d
<1> QED
  BY <1>8, <1>9

\* The same of the portfolio.
LEMMA WorthStep ==
  ASSUME NEW t \in Instants, t # 0
  PROVE  /\ Earned[t] \in Int
         /\ Worth[t] = Worth[t - 1] + Earned[t] + SumOf(Dollars, {m \in Movements : m.at = t})
<1> DEFINE C == [a \in Accounts |-> IF a \in Coins THEN Held[a][t - 1] * (Quote[t] - Quote[t - 1]) ELSE 0]
           D == [a \in Accounts |-> IF a \in Derivatives THEN Results[a][t] - Results[a][t - 1] ELSE 0]
           X == [a \in Accounts |-> SumOf(Dollars, Arriving(a, t))]
           W == WorthOf(t)
           V == WorthOf(t - 1)
           VC == [a \in Accounts |-> V[a] + C[a]]
           VCD == [a \in Accounts |-> VC[a] + D[a]]
           c == [a \in Coins |-> Held[a][t - 1] * (Quote[t] - Quote[t - 1])]
           d == [a \in Derivatives |-> Results[a][t] - Results[a][t - 1]]
           S == {m \in Movements : m.at = t}
<1>1. t - 1 \in Instants /\ Coins \subseteq Accounts /\ Derivatives \subseteq Accounts /\ IsFiniteSet(Accounts)
  BY ConstantsAssumption DEF Instants, Accounts
<1>2. Numbers(W, Accounts) /\ Numbers(V, Accounts)
  BY <1>1, WorthIs
<1>3. Numbers(C, Accounts)
  <2>1. \A a \in Coins : Held[a][t - 1] \in Int
    BY <1>1, HeldIs
  <2>2. Quote[t] - Quote[t - 1] \in Int
    BY <1>1, ConstantsAssumption
  <2>3. \A a \in Accounts : C[a] \in Int
    BY <2>1, <2>2
  <2> QED
    BY <1>1, <2>3 DEF Numbers
<1>4. Numbers(D, Accounts)
  <2>1. \A a \in Accounts : D[a] \in Int
    BY <1>1, ConstantsAssumption
  <2> QED
    BY <1>1, <2>1 DEF Numbers
<1>5. Numbers(X, Accounts) /\ SumOf(Dollars, S) = SumOf(X, Accounts)
  <2> DEFINE f == [m \in S |-> m.account]
  <2>1. S \in SUBSET Ripe /\ \A m \in S : m.account \in Accounts
    BY ConstantsAssumption DEF Ripe
  <2>2. Numbers(Dollars, S)
    BY <2>1, AmountsAre
  <2>3. \A a \in Accounts : Arriving(a, t) = Fibre(f, S, a)
    BY DEF Arriving, Fibre
  <2>4. \A a \in Accounts : X[a] = SumOf(Dollars, Fibre(f, S, a))
    BY <2>3
  <2>5. \A m \in S : f[m] \in Accounts
    BY <2>1
  <2> HIDE DEF X, S, f
  <2> QED
    BY <1>1, <2>2, <2>4, <2>5, SumFibres
<1>6. \A a \in Accounts : W[a] = VCD[a] + X[a]
  BY AccountStep
<1>7. \A a \in Accounts : VC[a] = V[a] + C[a] /\ VCD[a] = VC[a] + D[a]
  OBVIOUS
<1>8. SumOf(C, Accounts) = SumOf(c, Coins) /\ SumOf(D, Accounts) = SumOf(d, Derivatives)
  <2>1. /\ \A a \in Accounts \ Coins : C[a] = 0
        /\ \A a \in Accounts \ Derivatives : D[a] = 0
    OBVIOUS
  <2>2. (\A a \in Coins : c[a] = C[a]) /\ (\A a \in Derivatives : d[a] = D[a])
    BY <1>1
  <2> HIDE DEF C, D, c, d
  <2>3. SumOf(C, Accounts) = SumOf(C, Coins) /\ SumOf(D, Accounts) = SumOf(D, Derivatives)
    BY <1>1, <1>3, <1>4, <2>1, SumWithin
  <2>4. Numbers(C, Coins) /\ Numbers(D, Derivatives)
    BY <1>1, <1>3, <1>4, FS_Subset DEF Numbers
  <2> QED
    BY <2>2, <2>3, <2>4, SumSame
<1>9. Earned[t] = SumOf(c, Coins) + SumOf(d, Derivatives)
  <2>1. Earned[t] = Total(c) + Total(d)
    BY <1>1 DEF Earned
  <2>2. /\ DOMAIN c = Coins /\ \A a \in Coins : c[a] = C[a]
        /\ DOMAIN d = Derivatives /\ \A a \in Derivatives : d[a] = D[a]
    BY <1>1
  <2>3. IsFiniteSet(Coins) /\ IsFiniteSet(Derivatives)
    BY <1>1, FS_Subset
  <2> HIDE DEF C, D, c, d
  <2>4. (\A a \in Coins : c[a] \in Int) /\ (\A a \in Derivatives : d[a] \in Int)
    BY <1>1, <1>3, <1>4, <2>2 DEF Numbers
  <2> QED
    BY <2>1, <2>2, <2>3, <2>4, TotalIs
<1> HIDE DEF C, D, X, W, V, VC, VCD, c, d, S
<1>10. Numbers(VC, Accounts) /\ Numbers(VCD, Accounts)
  <2>1. \A a \in Accounts : VC[a] \in Int /\ VCD[a] \in Int
    BY <1>2, <1>3, <1>4, <1>7 DEF Numbers
  <2> QED
    BY <1>1, <2>1 DEF Numbers
<1>11. /\ SumOf(VC, Accounts) = SumOf(V, Accounts) + SumOf(C, Accounts)
       /\ SumOf(VCD, Accounts) = SumOf(VC, Accounts) + SumOf(D, Accounts)
       /\ SumOf(W, Accounts) = SumOf(VCD, Accounts) + SumOf(X, Accounts)
  BY <1>2, <1>3, <1>4, <1>5, <1>6, <1>7, <1>10, SumPlus
<1>12. /\ SumOf(V, Accounts) \in Int /\ SumOf(C, Accounts) \in Int /\ SumOf(D, Accounts) \in Int
       /\ SumOf(X, Accounts) \in Int
  BY <1>2, <1>3, <1>4, <1>5, SumAny
<1>13. Worth[t] = SumOf(W, Accounts) /\ Worth[t - 1] = SumOf(V, Accounts)
  BY <1>1, WorthIs DEF W, V
<1> QED
  BY <1>5, <1>8, <1>9, <1>11, <1>12, <1>13 DEF S

\* Over a period: worth grows by what is earned and by the movements.
LEMMA WorthGrows ==
  ASSUME NEW s \in Instants, NEW t \in Instants, s <= t
  PROVE  /\ Return(s, t) \in Int /\ SumOf(Dollars, Since(s, t)) \in Int
         /\ Worth[t] = Worth[s] + Return(s, t) + SumOf(Dollars, Since(s, t))
<1> DEFINE P(u) == /\ Return(s, u) \in Int /\ SumOf(Dollars, Since(s, u)) \in Int
                   /\ Worth[u] = Worth[s] + Return(s, u) + SumOf(Dollars, Since(s, u))
           Bad == {u \in s..t : ~P(u)}
<1>1. s \in Nat /\ t \in Nat /\ s..t \subseteq Instants
  BY ConstantsAssumption DEF Instants
<1> SUFFICES ASSUME Bad # {}
             PROVE  FALSE
  <2>1. t \in s..t
    BY <1>1
  <2> HIDE DEF P
  <2>2. P(t)
    BY <2>1
  <2> QED
    BY <2>2 DEF P
<1>2. Bad \subseteq Int /\ IsFiniteSet(Bad)
  <2>1. IsFiniteSet(s..t) /\ Bad \subseteq s..t /\ s..t \subseteq Int
    BY <1>1, FS_Interval
  <2> QED
    BY <2>1, FS_Subset
<1>3. PICK u \in Bad : \A v \in Bad : u <= v
  <2> HIDE DEF Bad
  <2> QED
    BY <1>2, Least
<1>4. u \in Nat /\ u \in Instants /\ s <= u /\ u <= t /\ ~P(u)
  BY <1>1, <1>3
<1> DEFINE E == [v \in (s + 1)..u |-> Earned[v]]
<1>5. \A v \in (s + 1)..u : v \in Instants /\ v # 0 /\ Earned[v] \in Int
  <2> SUFFICES ASSUME NEW v \in (s + 1)..u
               PROVE  v \in Instants /\ v # 0 /\ Earned[v] \in Int
    OBVIOUS
  <2>1. v \in s..t /\ v # 0
    BY <1>1, <1>4
  <2> QED
    BY <1>1, <2>1, WorthStep
<1>6. DOMAIN E = (s + 1)..u /\ Numbers(E, (s + 1)..u)
  <2>1. IsFiniteSet((s + 1)..u)
    BY <1>1, <1>4, FS_Interval
  <2> QED
    BY <1>5, <2>1 DEF Numbers
<1>7. Return(s, u) = SumOf(E, (s + 1)..u) /\ Return(s, u) \in Int
  <2>1. Return(s, u) = Total(E)
    BY DEF Return
  <2> HIDE DEF E
  <2> QED
    BY <1>6, <2>1, TotalIs DEF Numbers
<1>8. Since(s, u) \in SUBSET Ripe
  BY <1>1, <1>4, ConstantsAssumption DEF Since, Ripe, Instants
<1>9. Numbers(Dollars, Since(s, u)) /\ SumOf(Dollars, Since(s, u)) \in Int
  BY <1>8, AmountsAre
<1>10. CASE u = s
  <2>1. (s + 1)..u = {} /\ Since(s, u) = {}
    BY <1>1, <1>10, ConstantsAssumption DEF Since
  <2> HIDE DEF E
  <2>2. Return(s, u) = 0 /\ SumOf(Dollars, Since(s, u)) = 0
    BY <1>7, <2>1, SumEmpty
  <2>3. Worth[s] \in Int
    BY WorthIs
  <2> QED
    BY <1>4, <1>7, <1>9, <1>10, <2>2, <2>3
<1>11. CASE u # s
  <2> DEFINE w == u - 1
             e == [v \in (s + 1)..w |-> Earned[v]]
             N == {m \in Movements : m.at = u}
  <2>1. w \in s..t /\ w \in Instants /\ w < u /\ u # 0 /\ s <= w
    BY <1>1, <1>4, <1>11
  <2>2. P(w)
    BY <1>3, <1>4, <2>1
  <2>3. (s + 1)..u = ((s + 1)..w) \cup {u} /\ u \notin (s + 1)..w /\ (s + 1)..w \subseteq (s + 1)..u
    BY <1>1, <1>4, <2>1
  <2>4. \A v \in (s + 1)..w : e[v] = E[v]
    BY <2>3
  <2>5. E[u] = Earned[u] /\ u \in (s + 1)..u
    BY <2>3
  <2>6. Return(s, w) = Total(e) /\ DOMAIN e = (s + 1)..w
    BY DEF Return
  <2> HIDE DEF E, e
  <2>7. Numbers(E, (s + 1)..w)
    BY <1>6, <2>3, FS_Subset DEF Numbers
  <2>8. Return(s, w) = SumOf(E, (s + 1)..w)
    <3>1. IsFiniteSet((s + 1)..w) /\ \A v \in (s + 1)..w : e[v] \in Int
      BY <2>4, <2>7 DEF Numbers
    <3> QED
      <4>1. Total(e) = SumOf(e, (s + 1)..w)
        BY <2>6, <3>1, TotalIs
      <4>2. SumOf(e, (s + 1)..w) = SumOf(E, (s + 1)..w)
        <5> HIDE DEF w
        <5> QED
          BY <2>4, <2>7, SumSame
      <4> QED
        BY <2>6, <4>1, <4>2
  <2>9. Return(s, u) = Return(s, w) + Earned[u]
    <3> DEFINE I == (s + 1)..w
               J == (s + 1)..u
    <3>1. Numbers(E, J) /\ I \in SUBSET J /\ u \in J /\ u \notin I /\ J = I \cup {u}
      BY <1>6, <2>3, <2>5
    <3>2. Return(s, u) = SumOf(E, J) /\ Return(s, w) = SumOf(E, I)
      BY <1>7, <2>8
    <3> HIDE DEF I, J
    <3>3. SumOf(E, I \cup {u}) = SumOf(E, I) + E[u]
      BY <3>1, SumMore
    <3> QED
      BY <2>5, <3>1, <3>2, <3>3
  <2>10. Since(s, u) \ Since(s, w) = N /\ Since(s, w) \subseteq Since(s, u)
    BY <1>1, <1>4, <2>1, ConstantsAssumption DEF Since
  <2>11. SumOf(Dollars, Since(s, u)) = SumOf(Dollars, Since(s, w)) + SumOf(Dollars, N)
    <3> HIDE DEF N
    <3> QED
      BY <1>9, <2>10, SumParts
  <2>12. Earned[u] \in Int /\ Worth[u] = Worth[w] + Earned[u] + SumOf(Dollars, N)
    BY <1>4, <2>1, WorthStep
  <2>13. SumOf(Dollars, N) \in Int
    <3>1. N \in SUBSET Ripe
      BY <1>4 DEF Ripe
    <3> QED
      BY <3>1, AmountsAre
  <2>14. Worth[s] \in Int
    BY WorthIs
  <2>15. Worth[w] = Worth[s] + Return(s, w) + SumOf(Dollars, Since(s, w))
         /\ Return(s, w) \in Int /\ SumOf(Dollars, Since(s, w)) \in Int
    BY <2>2
  <2>16. Worth[u] = Worth[w] + Earned[u] + SumOf(Dollars, N)
    BY <2>12
  <2> HIDE DEF N, w
  <2>17. Worth[u] = Worth[s] + Return(s, u) + SumOf(Dollars, Since(s, u))
    BY <2>9, <2>11, <2>12, <2>13, <2>14, <2>15, <2>16
  <2> QED
    BY <1>4, <1>7, <1>9, <2>17
<1> QED
  BY <1>10, <1>11

-----------------------------------------------------------------------------
(* Flows. *)

\* A price that is found is that of an instant,
LEMMA PriceFound ==
  ASSUME prices \subseteq Instants, NEW t
  PROVE  /\ PriceAt(t) \in Instants \cup {None} /\ (PriceAt(t) # None => PriceAt(t) \in Instants)
         /\ t \in prices => PriceAt(t) = t
<1> DEFINE S == {u \in prices : u <= t}
<1>1. S \subseteq Instants /\ PriceAt(t) = LatestOf(S)
  BY DEF PriceAt
<1>2. t \in prices => t \in Nat /\ t \in S
  BY ConstantsAssumption DEF Instants
<1>3. \A u \in S : u \in Nat /\ u <= t
  BY <1>1 DEF Instants
<1> HIDE DEF S
<1>4. /\ LatestOf(S) # None => LatestOf(S) \in S
      /\ \A x \in S : LatestOf(S) # None /\ x <= LatestOf(S)
  BY <1>1, LatestIs
<1>5. t \in prices => PriceAt(t) = t
  <2> SUFFICES ASSUME t \in prices PROVE PriceAt(t) = t
    OBVIOUS
  <2>1. LatestOf(S) \in Nat /\ t \in Nat /\ t <= LatestOf(S) /\ LatestOf(S) <= t
    BY <1>2, <1>3, <1>4
  <2> QED
    BY <1>1, <2>1
<1> QED
  BY <1>1, <1>4, <1>5

\* A flow that is given is a number.
LEMMA FlowIn ==
  ASSUME prices \subseteq Instants, posted \subseteq Movements,
         NEW b \in Instants, NEW t \in Instants
  PROVE  ExternalFlow(b, t) \in Int \cup {None}
<1> DEFINE S == Window(b, t) \ Internal
           f == [m \in S |-> m.amount * PriceIn(m.account, PriceAt(m.at))]
<1>1. S \in SUBSET Movements /\ \A m \in S : m.at \in Instants
  <2>1. S \in SUBSET posted /\ \A m \in S : b < m.at /\ m.at <= t
    BY DEF Window
  <2> HIDE DEF S
  <2> QED
    BY <2>1, ConstantsAssumption DEF Instants
<1>2. CASE \E m \in S : m.account \in Coins /\ ~Fresh(PriceAt(m.at), m.at)
  BY <1>2 DEF ExternalFlow
<1>3. CASE ~ \E m \in S : m.account \in Coins /\ ~Fresh(PriceAt(m.at), m.at)
  <2>1. ExternalFlow(b, t) = Total(f)
    BY <1>3 DEF ExternalFlow
  <2> HIDE DEF S
  <2>2. ASSUME NEW m \in S
        PROVE  f[m] \in Int
    <3>1. m.amount \in Int
      BY <1>1, ConstantsAssumption
    <3>2. m.account \in Coins => PriceAt(m.at) \in Instants
      BY <1>1, <1>3, PriceFound DEF Fresh
    <3>3. PriceIn(m.account, PriceAt(m.at)) \in Int
      <4>1. CASE m.account \in Coins
        <5>1. PriceIn(m.account, PriceAt(m.at)) \in Nat
          BY <3>2, <4>1, PriceIs
        <5> QED
          BY <5>1
      <4>2. CASE m.account \notin Coins
        BY <4>2 DEF PriceIn
      <4> QED
        BY <4>1, <4>2
    <3> QED
      BY <3>1, <3>3
  <2>3. DOMAIN f = S /\ IsFiniteSet(S)
    BY <1>1, FS_Subset, ConstantsAssumption
  <2> HIDE DEF f
  <2> QED
    BY <2>1, <2>2, <2>3, TotalIs
<1> QED
  BY <1>2, <1>3

\* The legs of some transfers.
Legs(set) == {x.source : x \in set} \cup {x.destination : x \in set}

\* Transfers that are whole within a period leave its movements' sum unchanged.
LEMMA LegsCancel ==
  ASSUME NEW W, W \subseteq Ripe, NEW T, T \subseteq Transfers, Legs(T) \subseteq W
  PROVE  SumOf(Dollars, Legs(T)) = 0
<1> DEFINE Parts == {s \in SUBSET T : SumOf(Dollars, Legs(s)) = 0}
<1>1. IsFiniteSet(T)
  BY FS_Subset, ConstantsAssumption
<1>2. {} \in Parts
  <2>1. Legs({}) = {}
    BY DEF Legs
  <2> QED
    BY <2>1, SumEmpty
<1>3. ASSUME NEW s \in Parts, NEW x \in T, s \subseteq T, x \notin s
      PROVE  s \cup {x} \in Parts
  <2> DEFINE pair == {x.source, x.destination}
             all == Legs(s) \cup pair
  <2>1. Legs(s \cup {x}) = all
    BY DEF Legs
  <2>2. /\ x.source \in Ripe /\ x.destination \in Ripe
        /\ x.source \in Movements /\ x.destination \in Movements
        /\ x.source.amount \in Int /\ x.destination.amount \in Int
        /\ x.source.amount + x.destination.amount = 0
        /\ x.source.account \notin Coins /\ x.destination.account \notin Coins
    BY <1>3, ConstantsAssumption DEF Legs, Ripe
  <2>3. all \in SUBSET Ripe /\ Legs(s) \in SUBSET Ripe
    BY <1>3, <2>2 DEF Legs
  <2>4. all \ Legs(s) = pair
    <3>1. \A y \in s : {x.source, x.destination} \cap {y.source, y.destination} = {}
      BY <1>3, ConstantsAssumption
    <3> QED
      BY <3>1 DEF Legs
  <2>5. Dollars[x.source] = x.source.amount /\ Dollars[x.destination] = x.destination.amount
    BY <2>2 DEF Dollars, PriceIn
  <2>6. SumOf(Dollars, pair) = 0
    <3>1. Numbers(Dollars, pair)
      <4>1. pair \in SUBSET Ripe
        BY <2>2
      <4> QED
        BY <4>1, AmountsAre
    <3>2. SumOf(Dollars, pair) = Dollars[x.source] + SumOf(Dollars, pair \ {x.source})
      BY <3>1, SumAny
    <3>3. CASE x.source = x.destination
      <4>1. pair \ {x.source} = {}
        BY <3>3
      <4>2. SumOf(Dollars, pair \ {x.source}) = 0
        BY <4>1, SumEmpty
      <4> QED
        BY <2>2, <2>5, <3>2, <3>3, <4>2
    <3>4. CASE x.source # x.destination
      <4>1. pair \ {x.source} = {x.destination} /\ {x.destination} \in SUBSET Ripe
        BY <2>2, <3>4
      <4>2. Numbers(Dollars, {x.destination}) /\ {x.destination} \ {x.destination} = {}
        BY <4>1, AmountsAre
      <4>3. SumOf(Dollars, {x.destination}) = Dollars[x.destination] + 0
        BY <4>2, SumAny, SumEmpty
      <4> HIDE DEF pair
      <4>4. SumOf(Dollars, pair \ {x.source}) = x.destination.amount
        <5>1. SumOf(Dollars, {x.destination}) = x.destination.amount
          BY <2>2, <2>5, <4>3
        <5> QED
          BY <4>1, <5>1
      <4>5. SumOf(Dollars, pair) = x.source.amount + x.destination.amount
        BY <2>5, <3>2, <4>4
      <4> QED
        BY <2>2, <4>5
    <3> QED
      BY <3>3, <3>4
  <2> HIDE DEF pair
  <2>7. SumOf(Dollars, all) = SumOf(Dollars, Legs(s)) + SumOf(Dollars, pair)
    <3>1. Numbers(Dollars, all) /\ Legs(s) \subseteq all
      BY <2>3, AmountsAre
    <3> HIDE DEF all
    <3>2. SumOf(Dollars, all) = SumOf(Dollars, Legs(s)) + SumOf(Dollars, all \ Legs(s))
      BY <3>1, SumParts
    <3> QED
      BY <2>4, <3>2
  <2>8. SumOf(Dollars, Legs(s)) = 0
    BY <1>3
  <2> QED
    BY <1>3, <2>1, <2>6, <2>7, <2>8
<1> HIDE DEF Parts
<1>4. T \in Parts
  BY <1>1, <1>2, <1>3, GrowPart
<1> QED
  BY <1>4 DEF Parts

\* When all movements were known and no transfer was under way, the flow of a
\* period without loans is the value of all that was moved in it.
LEMMA FlowIs ==
  ASSUME prices \subseteq Instants, posted \subseteq Movements, matched \subseteq Transfers,
         NEW b \in Instants, NEW t \in Instants, b < t,
         Known(t), ~ InFlight(b), ~ InFlight(t), ~ Lent(b, t),
         ExternalFlow(b, t) # None
  PROVE  ExternalFlow(b, t) = SumOf(Dollars, Since(b, t))
<1> DEFINE W == Since(b, t)
           S == W \ Internal
           f == [m \in S |-> m.amount * PriceIn(m.account, PriceAt(m.at))]
           T == {x \in matched : x.source \in W}
<1>1. W \in SUBSET Movements /\ W \in SUBSET Ripe
  BY ConstantsAssumption DEF Since, Ripe, Instants
<1>2. \A m \in W : m \in posted /\ m.kind = "transfer" /\ m.at <= t
  BY ConstantsAssumption DEF Since, Known, Lent
<1>3. Window(b, t) = W
  BY <1>2 DEF Window, Since
<1>4. ExternalFlow(b, t) = Total(f)
  <2>1. Window(b, t) \ Internal = S
    BY <1>3
  <2> HIDE DEF S, W
  <2> QED
    BY <2>1, Zenon DEF ExternalFlow
<1>5. \A m \in S : f[m] = Dollars[m]
  <2> SUFFICES ASSUME NEW m \in S PROVE f[m] = Dollars[m]
    OBVIOUS
  <2>1. m \in Movements /\ m.at <= t
    BY <1>1, <1>2
  <2>2. m.account \in Coins => m.at \in prices
    BY <2>1 DEF Known
  <2>3. PriceIn(m.account, PriceAt(m.at)) = PriceIn(m.account, m.at)
    BY <2>2, PriceFound DEF PriceIn
  <2> QED
    BY <2>1, <2>3 DEF Dollars
<1>6. Internal \cap W = Legs(T)
  <2>1. ASSUME NEW x \in matched
        PROVE  x.source \in W <=> x.destination \in W
    <3>1. /\ x \in Transfers /\ x.source \in Movements /\ x.destination \in Movements
          /\ x.source.at \in Nat /\ x.destination.at \in Nat
          /\ x.source.at <= x.destination.at
      BY <2>1, ConstantsAssumption
    <3>2. ~(x.source.at <= b /\ b < x.destination.at) /\ ~(x.source.at <= t /\ t < x.destination.at)
      BY <3>1 DEF InFlight
    <3>3. b \in Nat /\ t \in Nat
      BY DEF Instants
    <3> QED
      BY <3>1, <3>2, <3>3 DEF Since
  <2> QED
    BY <2>1 DEF Internal, Legs
<1>7. SumOf(Dollars, Legs(T)) = 0
  <2>1. T \subseteq Transfers /\ Legs(T) \subseteq W
    BY <1>6
  <2> HIDE DEF T, W
  <2> QED
    BY <1>1, <2>1, LegsCancel
<1>8. SumOf(Dollars, W) = SumOf(Dollars, Legs(T)) + SumOf(Dollars, S)
  <2>1. Numbers(Dollars, W) /\ Legs(T) \subseteq W /\ W \ Legs(T) = S
    BY <1>1, <1>6, AmountsAre
  <2> HIDE DEF T, W, S
  <2>2. SumOf(Dollars, W) = SumOf(Dollars, Legs(T)) + SumOf(Dollars, W \ Legs(T))
    BY <2>1, SumParts
  <2> QED
    BY <2>1, <2>2
<1>9. Numbers(Dollars, S) /\ SumOf(Dollars, S) \in Int
  BY <1>1, AmountsAre
<1>10. Total(f) = SumOf(Dollars, S)
  <2>1. DOMAIN f = S /\ IsFiniteSet(S)
    BY <1>9 DEF Numbers
  <2> HIDE DEF f, S
  <2>2. Total(f) = SumOf(f, S)
    <3>1. \A m \in S : f[m] \in Int
      BY <1>5, <1>9 DEF Numbers
    <3> QED
      BY <2>1, <3>1, TotalIs
  <2> QED
    BY <1>5, <1>9, <2>2, SumSame
<1> QED
  BY <1>4, <1>7, <1>8, <1>9, <1>10

-----------------------------------------------------------------------------
(* Types, and what a return is made of. *)

\* The return that a snapshot will have is the growth of its net worth less the
\* flow, and the flow is what was moved if that can be known.
Returned(s) ==
    s.pc = "insert" /\ s.pnl # None =>
        /\ s.base \in Instants /\ s.base < s.target /\ s.nav \in Int /\ s.flow \in Int
        /\ \E x \in snapshots : x.at = s.base /\ x.nav \in Int /\ s.pnl = s.nav - x.nav - s.flow
        /\ (s.known /\ ~ InFlight(s.base) /\ ~ InFlight(s.target) /\ ~ Lent(s.base, s.target))
             => s.flow = SumOf(Dollars, Since(s.base, s.target))

\* A net worth of a run of its own instant is given only when nothing was borrowed.
Unlent(s) == \A m \in Movements : m.kind = "borrow" => ~ (m.at <= s.target)

\* What holds of a session wherever it is.
Real(s) ==
    /\ s.pc \in {"cost", "value", "reconcile", "insert"} /\ s.known => Known(s.target)
    /\ s.pc \in {"reconcile", "insert"} /\ s.known /\ s.nav # None /\ OwnRun(s) => Unlent(s)
    /\ Returned(s)

\* The inductive invariant of returns.
RealInv == HonestInv /\ TypeOK /\ \A r \in Requests : Real(request[r])

\* Instants are numbers.
LEMMA InstantsAre ==
  /\ Instants \subseteq Nat /\ IsFiniteSet(Instants) /\ 0 \in Instants /\ None \notin Int
  /\ \A t \in Instants : DayOf(t) \in Days /\ DayOf(t) \in Nat
<1>1. Instants \subseteq Nat /\ IsFiniteSet(Instants) /\ 0 \in Instants /\ None \notin Int
  BY FS_Interval, ConstantsAssumption DEF Instants
<1> QED
  BY <1>1, DayIs DEF Days

\* A session that has ended.
LEMMA IdleTyped == Idle \in Session /\ Idle.pc = "idle"
BY InstantsAre DEF Idle, Session, PCs, Nobody

\* What is read when a capture begins are instants.
LEMMA FloorIs ==
  ASSUME NEW t
  PROVE  [a \in Accounts |-> ReadAt(a, t)] \in [Accounts -> Instants \cup {None}]
BY ReadIs

\* A run that is complete is one of the rows.
LEMMA OwnRunIs ==
  ASSUME Rows, TypeOK, NEW s, RunIs(s, "succeeded")
  PROVE  RunOf(s.run) \in runs /\ RunOf(s.run) \in Run
BY RunOfIs DEF RunIs, TypeOK

\* What a capture that begins becomes.
LEMMA TypedBegin ==
  ASSUME TypeOK, Rows, NEW r, NEW s \in Session, NEW t \in Instants, Begin(r, s, t)
  PROVE  /\ runs \subseteq runs' /\ runs' \subseteq Run
         /\ \E n \in Session :
              /\ Become(r, n)
              /\ \/ n.pc = "idle"
                 \/ n.pc \in {"cost", "value"} /\ n.target = t /\ n.known = Known(t)
<1> DEFINE floor == [a \in Accounts |-> ReadAt(a, t)]
           known == Known(t)
           started == [s EXCEPT !.target = t, !.known = known, !.floor = floor]
           next  == Cardinality(runs) + 1
           cost  == [started EXCEPT !.pc = "cost", !.run = next]
           last  == LastRun(t)
           value == [started EXCEPT !.pc = "value", !.run = last]
           row   == [id |-> next, of |-> t, status |-> "running", held |-> NoRows]
<1>1. \/ Become(r, Idle) /\ runs' = runs
      \/ runs' = runs \cup {row} /\ Become(r, cost)
      \/ runs' = runs /\ Completed(t) # {} /\ Become(r, value)
  BY Zenon DEF Begin, Stop
<1>2. floor \in [Accounts -> Instants \cup {None}]
  BY FloorIs
<1>3. known \in BOOLEAN
  BY DEF Known
<1>4. next \in Nat
  BY FS_CardinalityType DEF Rows
<1>5. row \in Run
  BY <1>4 DEF Run, Amounts, NoRows
<1>6. Completed(t) # {} => last \in Nat
  BY LastRunIs DEF Rows, ShapedRun
<1> HIDE DEF row, next, last, floor, known
<1>7. cost \in Session /\ cost.pc = "cost" /\ cost.target = t /\ cost.known = known
  BY <1>2, <1>3, <1>4, ZenonT(40) DEF Session, PCs
<1>8. Completed(t) # {} =>
        value \in Session /\ value.pc = "value" /\ value.target = t /\ value.known = known
  BY <1>2, <1>3, <1>6 DEF Session, PCs
<1> HIDE DEF cost, value
<1>9. runs \subseteq Run
  BY DEF TypeOK
<1>10. CASE Become(r, Idle) /\ runs' = runs
  BY <1>9, <1>10, IdleTyped
<1>11. CASE runs' = runs \cup {row} /\ Become(r, cost)
  BY <1>5, <1>7, <1>9, <1>11 DEF known
<1>12. CASE runs' = runs /\ Completed(t) # {} /\ Become(r, value)
  BY <1>8, <1>9, <1>12 DEF known
<1> QED
  BY <1>1, <1>10, <1>11, <1>12

\* A quantity is a number,
LEMMA QuantityIs ==
  ASSUME TypeOK, NEW a \in Spot, NEW t
  PROVE  Quantity(a, t) \in Int
<1>1. a \in Accounts /\ posted \in SUBSET Movements
  BY DEF Accounts, TypeOK
<1> QED
  BY <1>1, ReadIs, HeldIs, MovedIs DEF Quantity

\* and so is a net worth whose prices and equities are fresh.
LEMMA NetWorthIs ==
  ASSUME TypeOK, NEW c \in Run, Priced(c), FreshEquities(c)
  PROVE  SpotValue(c) + PerpEquity(c) \in Int
<1> DEFINE f == [a \in Spot |-> IF c.held[a] <= 0 THEN 0 ELSE c.held[a] * PriceIn(a, PriceAt(c.of))]
           g == [d \in Derivatives |-> Held[d][ReadAt(d, c.of)]]
<1>1. prices \subseteq Instants
  BY ConstantsAssumption DEF TypeOK, Instants
<1>2. ASSUME NEW a \in Spot
      PROVE  f[a] \in Int
  <2>1. c.held[a] \in Int
    BY DEF Run, Amounts
  <2>2. ASSUME c.held[a] > 0
        PROVE  PriceIn(a, PriceAt(c.of)) \in Int
    <3>1. CASE a \in Coins
      <4>1. PriceAt(c.of) \in Instants
        BY <1>1, <2>2, <3>1, PriceFound DEF Priced, Fresh
      <4>2. PriceIn(a, PriceAt(c.of)) \in Nat
        BY <4>1, PriceIs
      <4> QED
        BY <4>2
    <3>2. CASE a \notin Coins
      BY <3>2 DEF PriceIn
    <3> QED
      BY <3>1, <3>2
  <2>3. CASE c.held[a] <= 0
    BY <2>3
  <2>4. CASE ~ (c.held[a] <= 0)
    BY <2>1, <2>2, <2>4
  <2> QED
    BY <2>3, <2>4
<1>3. ASSUME NEW d \in Derivatives
      PROVE  g[d] \in Int
  BY ReadIs, HeldIs DEF FreshEquities, Fresh, Accounts
<1>4. IsFiniteSet(Spot) /\ IsFiniteSet(Derivatives)
  BY FS_Subset, ConstantsAssumption DEF Accounts
<1>5. SpotValue(c) = Total(f) /\ PerpEquity(c) = Total(g)
  BY DEF SpotValue, PerpEquity
<1>6. DOMAIN f = Spot /\ DOMAIN g = Derivatives
  OBVIOUS
<1> HIDE DEF f, g
<1>7. Total(f) \in Int /\ Total(g) \in Int
  BY <1>2, <1>3, <1>4, <1>6, TotalIs
<1> QED
  BY <1>5, <1>7

\* The snapshot before is one of the rows.
LEMMA PreviousIs ==
  ASSUME TypeOK, NEW t \in Instants
  PROVE  Previous(t) # None =>
           /\ Previous(t) \in Instants /\ Previous(t) < t
           /\ SnapshotOf(Previous(t)) \in snapshots /\ SnapshotOf(Previous(t)).at = Previous(t)
           /\ SnapshotOf(Previous(t)).nav \in Int \cup {None}
<1> DEFINE S == {x.at : x \in {x \in snapshots : x.at < t}}
           p == Previous(t)
<1>1. \A x \in snapshots : x.at \in Instants /\ x.nav \in Int \cup {None}
  BY DEF TypeOK, Snapshot
<1>2. S \subseteq Instants
  BY <1>1
<1>3. p = LatestOf(S)
  BY DEF Previous
<1>4. \A u \in S : u < t /\ \E x \in snapshots : x.at = u
  OBVIOUS
<1> HIDE DEF S
<1>5. p # None => p \in S
  BY <1>2, <1>3, LatestIs
<1>6. ASSUME p # None
      PROVE  p \in Instants /\ p < t /\ \E x \in snapshots : x.at = p
  BY <1>2, <1>4, <1>5, <1>6
<1> HIDE DEF p
<1>7. (\E x \in snapshots : x.at = p) => SnapshotOf(p) \in snapshots /\ SnapshotOf(p).at = p
  BY DEF SnapshotOf
<1> QED
  BY <1>1, <1>6, <1>7 DEF p

\* A complete run stays in the database.
KeepsRuns == \A c \in runs : c.status = "succeeded" => c \in runs'

\* What is said of a session stays true as evidence and rows are added.
LEMMA RealStays ==
  ASSUME Rows, Rows', NEW s, Real(s), Honest(s), KeepsRuns,
         posted \subseteq posted', prices \subseteq prices', snapshots \subseteq snapshots'
  PROVE  Real(s)'
<1>1. Known(s.target) => Known(s.target)'
  BY DEF Known
<1>2. s.pc \in {"reconcile", "insert"} => (OwnRun(s)' <=> OwnRun(s))
  <2> SUFFICES ASSUME s.pc \in {"reconcile", "insert"} PROVE OwnRun(s)' <=> OwnRun(s)
    OBVIOUS
  <2>1. RunIs(s, "succeeded")
    BY DEF Honest
  <2>2. RunOf(s.run)' = RunOf(s.run)
    BY <2>1, RunStays DEF KeepsRuns
  <2> QED
    BY <2>2 DEF OwnRun
<1>3. Returned(s)'
  BY DEF Real, Returned, InFlight, Lent, Dollars, Since, PriceIn
<1> QED
  BY <1>1, <1>2, <1>3 DEF Real, Unlent

\* A session's move keeps the invariant if what it becomes has it.
LEMMA RealMoves ==
  ASSUME RealInv, HonestInv', NEW r \in Requests, NEW n \in Session, Become(r, n), Real(n)',
         UNCHANGED <<now, evidence>>, KeepsRuns, runs' \subseteq Run,
         snapshots \subseteq snapshots', snapshots' \subseteq Snapshot,
         \A x, y \in snapshots' : x.at = y.at => x = y,
         asked' \in 0..MaxRequests
  PROVE  RealInv'
<1>1. request \in [Requests -> Session]
  BY DEF RealInv, TypeOK
<1>2. /\ request' \in [Requests -> Session] /\ request'[r] = n
      /\ \A q \in Requests : q # r => request'[q] = request[q]
  BY <1>1 DEF Become
<1>3. TypeOK'
  BY <1>2 DEF RealInv, TypeOK, evidence
<1>4. ASSUME NEW q \in Requests
      PROVE  Real(request[q])'
  <2>1. CASE q = r
    <3>1. request'[q] = n
      BY <1>2, <2>1
    <3> QED
      BY <3>1 DEF Real, Known, OwnRun, RunOf, Unlent, Returned
  <2>2. CASE q # r
    <3>1. PICK s : s = request[q]
      OBVIOUS
    <3>2. Real(s) /\ Honest(s) /\ Rows /\ Rows'
      BY <3>1 DEF RealInv, HonestInv, Shape
    <3>3. Real(s)'
      BY <3>2, RealStays DEF evidence
    <3>4. request'[q] = s
      BY <1>2, <2>2, <3>1
    <3> QED
      BY <3>3, <3>4 DEF Real, Known, OwnRun, RunOf, Unlent, Returned
  <2> QED
    BY <2>1, <2>2
<1> QED
  BY <1>3, <1>4 DEF RealInv

\* A capture that begins knows what the evidence says.
LEMMA RealBegins ==
  ASSUME RealInv, HonestInv', NEW r \in Requests, NEW s \in Session, NEW t \in Instants,
         Begin(r, s, t), UNCHANGED <<now, evidence, snapshots>>, asked' \in 0..MaxRequests
  PROVE  RealInv'
<1>1. /\ runs \subseteq runs' /\ runs' \subseteq Run
      /\ \E n \in Session :
           /\ Become(r, n)
           /\ \/ n.pc = "idle"
              \/ n.pc \in {"cost", "value"} /\ n.target = t /\ n.known = Known(t)
  BY TypedBegin DEF RealInv, HonestInv, Shape
<1>2. PICK n \in Session :
           /\ Become(r, n)
           /\ \/ n.pc = "idle"
              \/ n.pc \in {"cost", "value"} /\ n.target = t /\ n.known = Known(t)
  BY <1>1
<1>3. Known(t)' = Known(t)
  BY DEF Known, evidence
<1>4. Real(n)'
  BY <1>2, <1>3 DEF Real, Returned
<1>5. snapshots' \subseteq Snapshot /\ \A x, y \in snapshots' : x.at = y.at => x = y
  BY DEF RealInv, TypeOK
<1>6. KeepsRuns
  BY <1>1 DEF KeepsRuns
<1> QED
  BY <1>1, <1>2, <1>4, <1>5, <1>6, RealMoves

\* So does what writes other rows only.
LEMMA RealReads ==
  ASSUME RealInv, HonestInv', NEW r \in Requests, NEW n \in Session, Become(r, n), Real(n),
         UNCHANGED <<now, evidence, runs, snapshots>>, asked' \in 0..MaxRequests
  PROVE  RealInv'
<1>1. Real(n)'
  BY DEF Real, Known, OwnRun, RunOf, Unlent, Returned, evidence, InFlight, Lent, Dollars, Since, PriceIn
<1>2. /\ runs' \subseteq Run /\ snapshots' \subseteq Snapshot
      /\ \A x, y \in snapshots' : x.at = y.at => x = y
  BY DEF RealInv, TypeOK
<1> QED
  BY <1>1, <1>2, RealMoves DEF KeepsRuns

\* At first there is no session.
LEMMA RealInit == Init => RealInv
<1> SUFFICES ASSUME Init PROVE RealInv
  OBVIOUS
<1>1. \A a \in UNION Connections : a \in Accounts
  BY ConstantsAssumption
<1>2. readings \subseteq [account : Accounts, at : 0..0]
  BY <1>1 DEF Init
<1>3. now = 0 /\ prices = {0} /\ posted \subseteq Movements /\ matched = {}
  BY DEF Init
<1>4. runs = {} /\ snapshots = {} /\ asked = 0 /\ request \in [Requests -> Session]
  BY IdleTyped DEF Init
<1>5. asked \in 0..MaxRequests
  BY <1>4, ConstantsAssumption
<1>6. TypeOK
  BY <1>2, <1>3, <1>4, <1>5, InstantsAre DEF TypeOK
<1>7. \A r \in Requests : request[r].pc = "idle"
  BY IdleTyped DEF Init
<1> QED
  BY <1>6, <1>7, HonestInit DEF RealInv, Real, Returned

\* A day of a range that is backfilled.
LEMMA DatesAre ==
  ASSUME TypeOK, NEW first, NEW last
  PROVE  ExistingDates(first, last) \subseteq Days /\ {DayOf(x.at) : x \in snapshots} \subseteq Days
<1>1. \A x \in snapshots : x.at \in Instants
  BY DEF TypeOK, Snapshot
<1> QED
  BY <1>1, InstantsAre DEF ExistingDates

\* One of the requests more.
LEMMA AskedIs ==
  ASSUME TypeOK, asked < MaxRequests
  PROVE  asked + 1 \in 0..MaxRequests
BY ConstantsAssumption DEF TypeOK

\* A snapshot of one instant,
LEMMA RealCapture ==
  ASSUME RealInv, HonestInv', NEW r \in Requests, NEW t \in Instants, NEW recalculate \in BOOLEAN,
         Capture(r, t, recalculate)
  PROVE  RealInv'
<1> DEFINE s == [Idle EXCEPT !.recalculate = recalculate]
<1>1. s \in Session
  BY IdleTyped DEF Session
<1>2. Begin(r, s, t) /\ UNCHANGED <<now, evidence, snapshots>>
  BY DEF Capture
<1>3. asked' \in 0..MaxRequests
  BY AskedIs DEF Capture, RealInv
<1> HIDE DEF s
<1> QED
  BY <1>1, <1>2, <1>3, RealBegins

\* a backfill,
LEMMA RealBackfill ==
  ASSUME RealInv, HonestInv', NEW r \in Requests, NEW first \in Instants, NEW end \in Instants,
         Backfill(r, first, end)
  PROVE  RealInv'
<1> DEFINE last == Smaller(end, now)
           skip == ExistingDates(first, last)
           had == {DayOf(x.at) : x \in snapshots}
           day == DayOf(first)
           n == [Idle EXCEPT !.pc = "next", !.backfill = TRUE,
                    !.first = first, !.last = last, !.day = day, !.skip = skip, !.had = had]
<1>1. Become(r, n) /\ UNCHANGED <<now, evidence, runs, snapshots>>
  BY DEF Backfill
<1>2. last \in Instants /\ day \in Nat /\ skip \subseteq Days /\ had \subseteq Days
  BY DatesAre, InstantsAre DEF Smaller, RealInv, TypeOK
<1>3. asked' \in 0..MaxRequests
  BY AskedIs DEF Backfill, RealInv
<1> HIDE DEF last, skip, had, day
<1>4. n \in Session /\ n.pc = "next"
  BY <1>2, IdleTyped DEF Session, PCs
<1> HIDE DEF n
<1>5. Real(n)
  BY <1>4 DEF Real, Returned
<1> QED
  BY <1>1, <1>3, <1>4, <1>5, RealReads

\* The first day of a backfill that is left, and its instant.
LEMMA RestIs ==
  ASSUME NEW s \in Session, (s.day..DayOf(s.last)) \ s.skip # {}
  PROVE  LET day == Min((s.day..DayOf(s.last)) \ s.skip)
         IN  [s EXCEPT !.day = day] \in Session /\ DayTarget(s, day) \in Instants
<1> DEFINE rest == (s.day..DayOf(s.last)) \ s.skip
           day == Min(rest)
<1>1. s.last \in Instants /\ s.day \in Nat
  BY DEF Session
<1>2. DayOf(s.last) \in Nat
  BY <1>1, InstantsAre
<1>3. rest \subseteq Nat /\ IsFiniteSet(rest)
  <2>1. s.day \in Int /\ DayOf(s.last) \in Int /\ s.day..DayOf(s.last) \subseteq Nat
    BY <1>1, <1>2
  <2>2. IsFiniteSet(s.day..DayOf(s.last))
    BY <2>1, FS_Interval
  <2> QED
    BY <2>1, <2>2, FS_Subset
<1>4. day \in rest
  BY <1>3, FirstOf
<1>5. day \in Nat /\ day <= DayOf(s.last)
  BY <1>1, <1>2, <1>4
<1> HIDE DEF day
<1>6. DayTarget(s, day) \in Instants
  BY <1>1, <1>5, TargetDay
<1>7. [s EXCEPT !.day = day] \in Session
  BY <1>5 DEF Session
<1> QED
  BY <1>6, <1>7 DEF day, rest

\* its next day,
LEMMA RealNextDay ==
  ASSUME RealInv, HonestInv', NEW r \in Requests, NextDay(r)
  PROVE  RealInv'
<1> DEFINE s == request[r]
           rest == (s.day..DayOf(s.last)) \ s.skip
           day == Min(rest)
           n == [Idle EXCEPT !.first = s.first, !.last = s.last, !.done = TRUE]
           u == [s EXCEPT !.day = day]
           t == DayTarget(s, day)
<1>1. /\ UNCHANGED <<now, evidence, snapshots, asked>>
      /\ IF rest = {} THEN Become(r, n) /\ UNCHANGED runs ELSE Begin(r, u, t)
  BY Zenon DEF NextDay
<1>2. s \in Session /\ asked \in 0..MaxRequests
  BY DEF RealInv, TypeOK
<1>3. s.first \in Instants /\ s.last \in Instants
  BY <1>2 DEF Session
<1>4. CASE rest = {}
  <2>1. n \in Session /\ n.pc = "idle"
    BY <1>3, IdleTyped DEF Session
  <2>2. Become(r, n) /\ UNCHANGED runs
    BY <1>1, <1>4
  <2> HIDE DEF n
  <2>3. Real(n)
    BY <2>1 DEF Real, Returned
  <2> QED
    BY <1>1, <1>2, <2>1, <2>2, <2>3, RealReads
<1>5. CASE rest # {}
  <2>1. u \in Session /\ t \in Instants
    BY <1>2, <1>5, RestIs
  <2>2. Begin(r, u, t)
    BY <1>1, <1>5
  <2> HIDE DEF u, t
  <2> QED
    BY <1>1, <1>2, <2>1, <2>2, RealBegins
<1> QED
  BY <1>4, <1>5

\* the end of a cost run,
LEMMA RealCost ==
  ASSUME RealInv, HonestInv', NEW r \in Requests, Cost(r)
  PROVE  RealInv'
<1> DEFINE s == request[r]
           held == [a \in Spot |-> Quantity(a, s.target)]
           n == [s EXCEPT !.pc = "value"]
<1>1. /\ s.pc = "cost" /\ UNCHANGED <<now, evidence, snapshots, asked>>
      /\ \/ Settle(r, "succeeded", held) /\ Become(r, n)
         \/ Settle(r, "failed", NoRows) /\ Become(r, Idle)
  BY DEF Cost, At, Stop
<1>2. /\ s \in Session /\ runs \subseteq Run /\ Rows /\ Honest(s) /\ Real(s)
      /\ asked' \in 0..MaxRequests
      /\ snapshots' \subseteq Snapshot /\ \A x, y \in snapshots' : x.at = y.at => x = y
  BY <1>1 DEF RealInv, TypeOK, HonestInv, Shape
<1>3. held \in Amounts /\ NoRows \in Amounts
  <2>1. \A a \in Spot : Quantity(a, s.target) \in Int
    BY QuantityIs DEF RealInv
  <2> QED
    BY <2>1 DEF Amounts, NoRows
<1> HIDE DEF held
<1>4. ASSUME NEW status \in {"succeeded", "failed"}, NEW h \in Amounts, Settle(r, status, h)
      PROVE  runs' \subseteq Run /\ KeepsRuns
  <2>1. \A c \in runs : [c EXCEPT !.status = status, !.held = h] \in Run
    BY <1>2 DEF Run
  <2>2. runs' \subseteq Run
    BY <1>2, <1>4, <2>1 DEF Settle
  <2>3. PICK c \in runs : c.id = s.run /\ c.status = "running"
    BY <1>1, <1>2 DEF Honest, RunIs
  <2>4. \A b \in runs : b.status = "succeeded" => b.id # s.run
    BY <1>2, <2>3 DEF Rows
  <2>5. \A b \in runs : b.id # s.run => b \in runs'
    BY <1>2, <1>4, SettleKeepsRows
  <2> QED
    BY <2>2, <2>4, <2>5 DEF KeepsRuns
<1>5. CASE Settle(r, "succeeded", held) /\ Become(r, n)
  <2>1. n \in Session /\ n.pc = "value" /\ n.known = s.known /\ n.target = s.target
    BY <1>2 DEF Session, PCs
  <2> HIDE DEF n
  <2>2. PICK m : m = n
    OBVIOUS
  <2>3. Real(m)'
    <3>1. m.known => Known(m.target)
      BY <1>1, <1>2, <2>1, <2>2 DEF Real
    <3>2. m.known => Known(m.target)'
      BY <1>1, <3>1 DEF Known, evidence
    <3>3. m.pc = "value"
      BY <2>1, <2>2
    <3> QED
      BY <3>2, <3>3 DEF Real, Returned
  <2>4. runs' \subseteq Run /\ KeepsRuns
    BY <1>3, <1>4, <1>5
  <2> QED
    BY <1>1, <1>2, <1>5, <2>1, <2>2, <2>3, <2>4, RealMoves
<1>6. CASE Settle(r, "failed", NoRows) /\ Become(r, Idle)
  <2>1. runs' \subseteq Run /\ KeepsRuns
    BY <1>3, <1>4, <1>6
  <2>2. Idle \in Session /\ Real(Idle)'
    BY IdleTyped DEF Real, Returned
  <2> QED
    BY <1>1, <1>2, <1>6, <2>1, <2>2, RealMoves
<1> QED
  BY <1>1, <1>5, <1>6

\* the summary,
LEMMA RealValue ==
  ASSUME RealInv, HonestInv', NEW r \in Requests, Value(r)
  PROVE  RealInv'
<1> DEFINE s == request[r]
           c == RunOf(s.run)
           complete == Priced(c) /\ FreshBalances(c) /\ FreshEquities(c) /\ ~ Borrowed(c)
           nav == IF complete THEN SpotValue(c) + PerpEquity(c) ELSE None
           priced == PriceAt(c.of)
           equity == [d \in Derivatives |-> ReadAt(d, c.of)]
           n == [s EXCEPT !.pc = "reconcile", !.nav = nav, !.priced = priced, !.equity = equity]
<1>1. s.pc = "value" /\ UNCHANGED <<now, evidence, runs, snapshots, asked>> /\ Become(r, n)
  BY DEF Value, At
<1>2. /\ s \in Session /\ Honest(s) /\ Real(s) /\ Rows /\ TypeOK
      /\ asked' \in 0..MaxRequests
  BY <1>1 DEF RealInv, TypeOK, HonestInv, Shape
<1>3. c \in Run
  BY <1>1, <1>2, OwnRunIs DEF Honest
<1>4. nav \in Int \cup {None} /\ (nav # None => ~ Borrowed(c))
  BY <1>2, <1>3, NetWorthIs
<1>5. priced \in Instants \cup {None}
  <2>1. prices \subseteq Instants
    BY <1>2, ConstantsAssumption DEF TypeOK, Instants
  <2> QED
    BY <2>1, PriceFound
<1>6. equity \in [Derivatives -> Int \cup {None}]
  <2>1. PICK t : t = c.of
    OBVIOUS
  <2>2. \A d \in Derivatives : ReadAt(d, t) \in Int \cup {None}
    <3> SUFFICES ASSUME NEW d \in Derivatives PROVE ReadAt(d, t) \in Int \cup {None}
      OBVIOUS
    <3>1. ReadAt(d, t) # None => ReadAt(d, t) \in Nat
      BY ReadIs, InstantsAre
    <3> QED
      BY <3>1
  <2> QED
    BY <2>1, <2>2
<1>7. nav # None /\ s.known /\ OwnRun(s) => Unlent(s)
  <2> SUFFICES ASSUME nav # None, s.known, OwnRun(s), NEW m \in Movements, m.kind = "borrow", m.at <= s.target
               PROVE  FALSE
    BY DEF Unlent
  <2>1. m \in posted
    BY <1>1, <1>2 DEF Real, Known
  <2>2. c.of = s.target
    BY DEF OwnRun
  <2> QED
    BY <1>4, <2>1, <2>2 DEF Borrowed
<1> HIDE DEF nav, priced, equity, c
<1>8. /\ n \in Session /\ n.pc = "reconcile" /\ n.nav = nav /\ n.run = s.run
      /\ n.target = s.target /\ n.known = s.known
  BY <1>2, <1>4, <1>5, <1>6 DEF Session, PCs
<1> HIDE DEF n
<1>9. Real(n)
  BY <1>1, <1>2, <1>7, <1>8 DEF Real, Returned, OwnRun, Unlent
<1> QED
  BY <1>1, <1>2, <1>8, <1>9, RealReads

\* the flow and the return, with what they leave in the session,
Reckoned(s, nav, base, flow, pnl) ==
    [s EXCEPT !.pc = "insert", !.nav = nav, !.base = base, !.flow = flow, !.pnl = pnl]

\* which stays one,
LEMMA StillSession ==
  ASSUME NEW s \in Session, NEW nav \in Int \cup {None}, NEW base \in Instants \cup {None},
         NEW flow \in Int \cup {None}, NEW pnl \in Int \cup {None}
  PROVE  Reckoned(s, nav, base, flow, pnl) \in Session
<1> DEFINE a == [s EXCEPT !.pc = "insert"]
           b == [a EXCEPT !.nav = nav]
           c == [b EXCEPT !.base = base]
           d == [c EXCEPT !.flow = flow]
           e == [d EXCEPT !.pnl = pnl]
<1>1. a \in Session
  BY DEF Session, PCs
<1> HIDE DEF a
<1>2. b \in Session
  BY <1>1 DEF Session
<1> HIDE DEF b
<1>3. c \in Session
  BY <1>2 DEF Session
<1> HIDE DEF c
<1>4. d \in Session
  BY <1>3 DEF Session
<1> HIDE DEF d
<1>5. e \in Session
  BY <1>4 DEF Session
<1> QED
  BY <1>5 DEF a, b, c, d, e, Reckoned

\* and by which the return is real;
LEMMA RealReconcile ==
  ASSUME RealInv, HonestInv', NEW r \in Requests, Reconcile(r)
  PROVE  RealInv'
<1> DEFINE s == request[r]
           base == Previous(s.target)
           before == SnapshotOf(base)
           nav == IF Reconciled(RunOf(s.run)) THEN s.nav ELSE None
           flow == IF base = None THEN None ELSE ExternalFlow(base, s.target)
           known == base # None /\ nav # None /\ flow # None
           pnl == IF known /\ before.nav # None THEN nav - before.nav - flow ELSE None
           n == [s EXCEPT !.pc = "insert", !.nav = nav, !.base = base, !.flow = flow, !.pnl = pnl]
<1>1. s.pc = "reconcile" /\ UNCHANGED <<now, evidence, runs, snapshots, asked>> /\ Become(r, n)
  BY Zenon DEF Reconcile, At
<1>2. /\ s \in Session /\ Honest(s) /\ Real(s) /\ Rows /\ TypeOK
      /\ asked' \in 0..MaxRequests
  BY <1>1 DEF RealInv, TypeOK, HonestInv, Shape
<1>3. s.target \in Instants /\ s.nav \in Int \cup {None}
  BY <1>2 DEF Session
<1>4. base # None =>
        /\ base \in Instants /\ base < s.target
        /\ before \in snapshots /\ before.at = base /\ before.nav \in Int \cup {None}
  BY <1>2, <1>3, PreviousIs
<1>5. base \in Instants \cup {None} /\ (nav = s.nav \/ nav = None)
  BY <1>4
<1>6. /\ prices \subseteq Instants /\ posted \subseteq Movements /\ matched \subseteq Transfers
  BY <1>2, ConstantsAssumption DEF TypeOK, Instants
<1>7. flow \in Int \cup {None}
  BY <1>3, <1>4, <1>6, FlowIn
<1>8. base # None /\ flow # None /\ s.known /\ ~ InFlight(base) /\ ~ InFlight(s.target) /\ ~ Lent(base, s.target)
        => flow = SumOf(Dollars, Since(base, s.target))
  <2> SUFFICES ASSUME base # None, flow # None, s.known, ~ InFlight(base), ~ InFlight(s.target),
                      ~ Lent(base, s.target)
               PROVE  flow = SumOf(Dollars, Since(base, s.target))
    OBVIOUS
  <2>1. flow = ExternalFlow(base, s.target)
    OBVIOUS
  <2>2. Known(s.target)
    BY <1>1, <1>2 DEF Real
  <2>3. base \in Instants /\ base < s.target
    BY <1>4
  <2> HIDE DEF base, flow
  <2> QED
    BY <1>3, <1>6, <2>1, <2>2, <2>3, FlowIs
<1>9. pnl # None =>
        base # None /\ nav # None /\ flow # None /\ before.nav # None /\ pnl = nav - before.nav - flow
  OBVIOUS
<1> HIDE DEF base, before, nav, flow, pnl, known
<1>10. nav \in Int \cup {None}
  BY <1>3, <1>5
<1>11. pnl \in Int \cup {None}
  <2> SUFFICES ASSUME pnl # None PROVE pnl \in Int
    OBVIOUS
  <2>1. /\ base # None /\ nav # None /\ flow # None /\ before.nav # None
        /\ pnl = nav - before.nav - flow
    BY <1>9
  <2>2. nav \in Int /\ flow \in Int /\ before.nav \in Int
    BY <1>4, <1>7, <1>10, <2>1
  <2> QED
    BY <2>1, <2>2
<1>12. n \in Session
  <2>1. s \in Session
    BY <1>2
  <2>2. base \in Instants \cup {None}
    BY <1>5
  <2>3. Reckoned(s, nav, base, flow, pnl) \in Session
    BY ONLY <2>1, <2>2, <1>7, <1>10, <1>11, StillSession
  <2> QED
    BY <2>3 DEF Reckoned
<1>13. /\ n.pc = "insert" /\ n.run = s.run /\ n.target = s.target
       /\ n.known = s.known /\ n.nav = nav /\ n.base = base /\ n.flow = flow /\ n.pnl = pnl
  BY <1>2 DEF Session
<1> HIDE DEF n
<1>14. Returned(n)
  <2> SUFFICES ASSUME n.pnl # None
               PROVE
        /\ n.base \in Instants /\ n.base < n.target /\ n.nav \in Int /\ n.flow \in Int
        /\ \E x \in snapshots : x.at = n.base /\ x.nav \in Int /\ n.pnl = n.nav - x.nav - n.flow
        /\ (n.known /\ ~ InFlight(n.base) /\ ~ InFlight(n.target) /\ ~ Lent(n.base, n.target))
             => n.flow = SumOf(Dollars, Since(n.base, n.target))
    BY DEF Returned
  <2>1. base # None /\ nav # None /\ flow # None /\ before.nav # None /\ pnl = nav - before.nav - flow
    BY <1>9, <1>13
  <2>2. base \in Instants /\ base < s.target /\ nav \in Int /\ flow \in Int
    BY <1>4, <1>7, <1>10, <2>1
  <2>3. before \in snapshots /\ before.at = base /\ before.nav \in Int
    BY <1>4, <2>1
  <2> QED
    BY <1>8, <1>13, <2>1, <2>2, <2>3
<1>15. Real(n)
  BY <1>1, <1>2, <1>5, <1>13, <1>14 DEF Real, OwnRun, Unlent
<1> QED
  BY <1>1, <1>2, <1>12, <1>15, RealReads

\* and the insertion.
LEMMA RealInsert ==
  ASSUME RealInv, HonestInv', NEW r \in Requests, Insert(r)
  PROVE  RealInv'
<1> DEFINE s == request[r]
           x == [at |-> s.target, run |-> s.run, nav |-> s.nav, flow |-> s.flow, pnl |-> s.pnl]
           first == s.first  last == s.last  day == s.day + 1  skip == s.skip  had == s.had
           n == [Idle EXCEPT !.pc = "next", !.backfill = TRUE, !.first = first, !.last = last,
                             !.day = day, !.skip = skip, !.had = had]
<1>1. /\ UNCHANGED <<now, evidence, runs, asked>>
      /\ \/ Become(r, Idle) /\ snapshots' = snapshots
         \/ ~ Taken(s.target) /\ snapshots' = snapshots \cup {x} /\ (Become(r, Idle) \/ Become(r, n))
  BY Zenon DEF Insert, At, Stop
<1>2. s \in Session /\ TypeOK /\ runs' \subseteq Run /\ asked' \in 0..MaxRequests
  BY <1>1 DEF RealInv, TypeOK
<1>3. x \in Snapshot /\ x.at = s.target
  BY <1>2 DEF Session, Snapshot
<1> HIDE DEF x
<1>4. /\ snapshots \subseteq snapshots' /\ snapshots' \subseteq Snapshot
      /\ \A y, z \in snapshots' : y.at = z.at => y = z
  <2>1. ~ Taken(s.target) => \A y \in snapshots : y.at # x.at
    BY <1>3 DEF Taken
  <2> QED
    BY <1>1, <1>2, <1>3, <2>1 DEF TypeOK
<1>5. first \in Instants /\ last \in Instants /\ day \in Nat /\ skip \subseteq Days /\ had \subseteq Days
  BY <1>2 DEF Session
<1> HIDE DEF first, last, day, skip, had
<1>6. n \in Session /\ n.pc = "next"
  BY <1>5, IdleTyped DEF Session, PCs
<1> HIDE DEF n
<1>7. PICK m \in Session : m.pc \in {"idle", "next"} /\ Become(r, m)
  BY <1>1, <1>6, IdleTyped
<1>8. Real(m)'
  BY <1>7 DEF Real, Returned
<1> QED
  BY <1>1, <1>2, <1>4, <1>7, <1>8, RealMoves DEF KeepsRuns

\* A session that dies does too.
LEMMA RealCrash ==
  ASSUME RealInv, HonestInv', NEW r \in Requests, Crash(r)
  PROVE  RealInv'
<1>1. Become(r, Idle) /\ UNCHANGED <<now, evidence, runs, snapshots, asked>>
  BY DEF Crash, Stop
<1>2. Idle \in Session /\ Real(Idle)
  BY IdleTyped DEF Real, Returned
<1>3. asked' \in 0..MaxRequests
  BY <1>1 DEF RealInv, TypeOK
<1> QED
  BY <1>1, <1>2, <1>3, RealReads

\* Evidence that is added keeps the invariant,
LEMMA RealGrows ==
  ASSUME RealInv, HonestInv', UNCHANGED <<runs, snapshots, asked, request>>,
         now' \in Instants, now <= now',
         readings' \subseteq [account : Accounts, at : 0..now'],
         prices \subseteq prices', prices' \subseteq 0..now',
         posted \subseteq posted', posted' \subseteq Movements, matched' \subseteq Transfers
  PROVE  RealInv'
<1>1. TypeOK'
  BY DEF RealInv, TypeOK
<1>2. ASSUME NEW q \in Requests
      PROVE  Real(request[q])'
  <2>1. PICK s : s = request[q]
    OBVIOUS
  <2>2. Real(s) /\ Honest(s) /\ Rows /\ Rows'
    BY <2>1 DEF RealInv, HonestInv, Shape
  <2>3. Real(s)'
    BY <2>2, RealStays DEF KeepsRuns
  <2>4. request'[q] = s
    BY <2>1
  <2> QED
    BY <2>3, <2>4 DEF Real, Known, OwnRun, RunOf, Unlent, Returned
<1> QED
  BY <1>1, <1>2 DEF RealInv

\* and so does every other step.
LEMMA RealStep == RealInv /\ [Next]_vars => RealInv'
<1> SUFFICES ASSUME RealInv, [Next]_vars
             PROVE  RealInv'
  OBVIOUS
<1>1. HonestInv'
  BY HonestStep DEF RealInv
<1>2. /\ now \in Instants /\ now \in Nat /\ now <= now
      /\ readings \subseteq [account : Accounts, at : 0..now] /\ prices \subseteq 0..now
      /\ posted \subseteq Movements /\ matched \subseteq Transfers
  BY InstantsAre DEF RealInv, TypeOK
<1>3. CASE \E c \in Connections, t \in Instants : Sync(c, t)
  <2>1. PICK c \in Connections, t \in Instants : Sync(c, t)
    BY <1>3
  <2>2. c \subseteq Accounts /\ t \in 0..now
    BY <1>2, <2>1, InstantsAre, ConstantsAssumption DEF Sync
  <2>3. readings' \subseteq [account : Accounts, at : 0..now]
    BY <1>2, <2>1, <2>2 DEF Sync
  <2>4. posted \subseteq posted' /\ posted' \subseteq Movements
    BY <1>2, <2>1 DEF Sync
  <2> QED
    BY <1>1, <1>2, <2>1, <2>3, <2>4, RealGrows DEF Sync
<1>4. CASE \E t \in Instants : WritePrice(t)
  <2>1. PICK t \in Instants : WritePrice(t)
    BY <1>4
  <2>2. t \in 0..now
    BY <1>2, <2>1, InstantsAre DEF WritePrice
  <2> QED
    BY <1>1, <1>2, <2>1, <2>2, RealGrows DEF WritePrice
<1>5. CASE \E x \in Transfers : Match(x)
  <2>1. matched' \subseteq Transfers /\ UNCHANGED <<now, readings, prices, posted, runs, snapshots, asked, request>>
    BY <1>2, <1>5 DEF Match
  <2> QED
    BY <1>1, <1>2, <2>1, RealGrows
<1>6. CASE Tick
  <2>1. now' \in Instants /\ now <= now' /\ 0..now \subseteq 0..now'
    BY <1>2, <1>6, ConstantsAssumption DEF Tick, Instants
  <2>2. UNCHANGED <<readings, prices, posted, matched, runs, snapshots, asked, request>>
    BY <1>6 DEF Tick, evidence
  <2>3. readings' \subseteq [account : Accounts, at : 0..now'] /\ prices' \subseteq 0..now'
    BY <1>2, <2>1, <2>2
  <2> QED
    BY <1>1, <1>2, <2>1, <2>2, <2>3, RealGrows
<1>7. CASE \E r \in Requests : Serve(r)
  <2>1. PICK r \in Requests : Serve(r)
    BY <1>7
  <2>2. CASE \E t \in Instants, recalculate \in BOOLEAN : Capture(r, t, recalculate)
    BY <1>1, <2>2, RealCapture
  <2>3. CASE \E range \in Ranges : Backfill(r, range[1], range[2])
    <3>1. PICK range \in Ranges : Backfill(r, range[1], range[2])
      BY <2>3
    <3>2. range[1] \in Instants /\ range[2] \in Instants
      BY ConstantsAssumption
    <3> QED
      BY <1>1, <3>1, <3>2, RealBackfill
  <2>4. CASE NextDay(r)
    BY <1>1, <2>4, RealNextDay
  <2>5. CASE Cost(r)
    BY <1>1, <2>5, RealCost
  <2>6. CASE Value(r)
    BY <1>1, <2>6, RealValue
  <2>7. CASE Reconcile(r)
    BY <1>1, <2>7, RealReconcile
  <2>8. CASE Insert(r)
    BY <1>1, <2>8, RealInsert
  <2>9. CASE Crash(r)
    BY <1>1, <2>9, RealCrash
  <2> QED
    BY <2>1, <2>2, <2>3, <2>4, <2>5, <2>6, <2>7, <2>8, <2>9 DEF Serve
<1>8. CASE UNCHANGED vars
  BY <1>1, <1>2, <1>8, RealGrows DEF vars, evidence
<1> QED
  BY <1>3, <1>4, <1>5, <1>6, <1>7, <1>8 DEF Next

\* So it holds of every state.
LEMMA RealHolds == Spec => []RealInv
BY RealInit, RealStep, PTL DEF Spec

\* Rows and sessions have their types: a net worth, flow or return that is given
\* is a number, and an instant has one snapshot (portfolio_snapshot_identity).
THEOREM TypeCorrect == Spec => []TypeOK
<1>1. RealInv => TypeOK
  BY DEF RealInv
<1> QED
  BY <1>1, RealHolds, PTL

\* Net worth less net worth less flow is what was earned, whatever was deposited,
\* moved and matched meanwhile, and whoever else wrote (capture_snapshot,
\* _external_flow).
THEOREM ReturnsAreReal == Spec => []ReturnIsReal
<1>1. RealInv => ReturnIsReal
  <2> SUFFICES ASSUME RealInv, NEW r \in Requests, NEW s, s = request[r],
                      Valued(s), s.pnl # None, s.known,
                      s.nav = Worth[s.target], SnapshotOf(s.base).nav = Worth[s.base],
                      ~ InFlight(s.base), ~ InFlight(s.target),
                      OwnRun(s) \/ ~ Lent(s.base, s.target)
               PROVE  s.pnl = Return(s.base, s.target)
    BY DEF ReturnIsReal
  <2>1. Real(s) /\ s.pc = "insert" /\ s.nav # None /\ s.target \in Instants
    BY DEF RealInv, Valued, TypeOK, Session
  <2>2. PICK x \in snapshots : x.at = s.base /\ x.nav \in Int /\ s.pnl = s.nav - x.nav - s.flow
    BY <2>1 DEF Real, Returned
  <2>3. /\ s.base \in Instants /\ s.base < s.target
        /\ (~ Lent(s.base, s.target) => s.flow = SumOf(Dollars, Since(s.base, s.target)))
    BY <2>1 DEF Real, Returned
  <2>4. ~ Lent(s.base, s.target)
    BY <2>1 DEF Real, Unlent, Lent
  <2>5. SnapshotOf(s.base) = x
    BY <2>2 DEF SnapshotOf, RealInv, TypeOK
  <2>6. s.base <= s.target
    <3>1. s.base \in Nat /\ s.target \in Nat
      BY <2>1, <2>3, InstantsAre
    <3> QED
      BY <2>3, <3>1
  <2>7. /\ Return(s.base, s.target) \in Int /\ SumOf(Dollars, Since(s.base, s.target)) \in Int
        /\ Worth[s.target] = Worth[s.base] + Return(s.base, s.target) + SumOf(Dollars, Since(s.base, s.target))
    BY <2>1, <2>3, <2>6, WorthGrows
  <2>8. Worth[s.base] \in Int
    BY <2>3, WorthIs
  <2>9. s.pnl = Worth[s.target] - Worth[s.base] - SumOf(Dollars, Since(s.base, s.target))
    BY <2>2, <2>3, <2>4, <2>5
  <2> QED
    BY <2>7, <2>8, <2>9
<1> QED
  BY <1>1, RealHolds, PTL

-----------------------------------------------------------------------------
(* A net worth is what the portfolio was worth. *)

\* The accounts that no sync reads, and the readings there are.
ByHand == Spot \ UNION Connections
Connected == \A x \in readings : x.account \in UNION Connections

\* What quantities are worth at the price of an instant, with the equities read.
Valuation(held, priced, equity) ==
    Total([a \in Spot |-> IF held[a] <= 0 THEN 0 ELSE held[a] * PriceIn(a, priced)])
      + Total([d \in Derivatives |-> Held[d][equity[d]]])

\* A session's new run is of its instant; complete, it has what the ledger had of
\* the accounts kept by hand; and its net worth is what the run's quantities and
\* the equities it read are worth.
Exact(s) ==
    /\ s.recalculate /\ s.pc \in {"cost", "value", "reconcile", "insert"} =>
         \E c \in runs : c.id = s.run /\ c.of = s.target
    /\ s.recalculate /\ s.known /\ s.pc \in {"value", "reconcile", "insert"} =>
         \E c \in runs : /\ c.id = s.run /\ c.status = "succeeded"
                         /\ \A a \in ByHand : c.held[a] = Held[a][s.target]
    /\ s.pc \in {"reconcile", "insert"} /\ s.nav # None =>
         /\ \A d \in Derivatives : d \in UNION Connections
         /\ \E c \in runs : /\ c.id = s.run /\ c.status = "succeeded"
                            /\ s.nav = Valuation(c.held, s.priced, s.equity)

\* The inductive invariant of net worths.
ExactInv == RealInv /\ Connected /\ \A r \in Requests : Exact(request[r])

\* A run stays of its instant.
KeepsOf == \A c \in runs : \E b \in runs' : b.id = c.id /\ b.of = c.of

\* What is said of a session stays true as runs are added and completed.
LEMMA ExactStays ==
  ASSUME NEW s, Exact(s), KeepsRuns, KeepsOf
  PROVE  Exact(s)'
<1>1. ASSUME NEW c \in runs
      PROVE  \E b \in runs' : b.id = c.id /\ b.of = c.of
  BY DEF KeepsOf
<1>2. ASSUME NEW c \in runs, c.status = "succeeded"
      PROVE  c \in runs'
  BY <1>2 DEF KeepsRuns
<1>3. ASSUME s.recalculate, s.pc \in {"cost", "value", "reconcile", "insert"}
      PROVE  \E c \in runs' : c.id = s.run /\ c.of = s.target
  <2>1. PICK c \in runs : c.id = s.run /\ c.of = s.target
    BY <1>3 DEF Exact
  <2> QED
    BY <1>1, <2>1
<1>4. ASSUME s.recalculate, s.known, s.pc \in {"value", "reconcile", "insert"}
      PROVE  \E c \in runs' : /\ c.id = s.run /\ c.status = "succeeded"
                              /\ \A a \in ByHand : c.held[a] = Held[a][s.target]
  <2>1. PICK c \in runs : /\ c.id = s.run /\ c.status = "succeeded"
                          /\ \A a \in ByHand : c.held[a] = Held[a][s.target]
    BY <1>4 DEF Exact
  <2> QED
    BY <1>2, <2>1
<1>5. ASSUME s.pc \in {"reconcile", "insert"}, s.nav # None
      PROVE  /\ \A d \in Derivatives : d \in UNION Connections
             /\ \E c \in runs' : /\ c.id = s.run /\ c.status = "succeeded"
                                 /\ s.nav = Valuation(c.held, s.priced, s.equity)
  <2>1. PICK c \in runs : /\ c.id = s.run /\ c.status = "succeeded"
                          /\ s.nav = Valuation(c.held, s.priced, s.equity)
    BY <1>5 DEF Exact
  <2>2. \A d \in Derivatives : d \in UNION Connections
    BY <1>5 DEF Exact
  <2> QED
    BY <1>2, <2>1, <2>2
<1> QED
  BY <1>3, <1>4, <1>5 DEF Exact

\* A session's move keeps the invariant if what it becomes has it.
LEMMA ExactMoves ==
  ASSUME ExactInv, RealInv', NEW r \in Requests, NEW n, Become(r, n), Exact(n)',
         readings' = readings, KeepsRuns, KeepsOf
  PROVE  ExactInv'
<1>1. request \in [Requests -> Session]
  BY DEF ExactInv, RealInv, TypeOK
<1>2. request'[r] = n /\ \A q \in Requests : q # r => request'[q] = request[q]
  BY <1>1 DEF Become
<1>3. ASSUME NEW q \in Requests
      PROVE  Exact(request[q])'
  <2>1. CASE q = r
    <3>1. request'[q] = n
      BY <1>2, <2>1
    <3> QED
      BY <3>1 DEF Exact
  <2>2. CASE q # r
    <3>1. PICK s : s = request[q]
      OBVIOUS
    <3>2. Exact(s)'
      BY <3>1, ExactStays DEF ExactInv
    <3>3. request'[q] = s
      BY <1>2, <2>2, <3>1
    <3> QED
      BY <3>2, <3>3 DEF Exact
  <2> QED
    BY <2>1, <2>2
<1>4. Connected'
  BY DEF Connected, ExactInv
<1> QED
  BY <1>3, <1>4 DEF ExactInv

\* So does one that writes no run.
LEMMA ExactReads ==
  ASSUME ExactInv, RealInv', NEW r \in Requests, NEW n, Become(r, n), Exact(n),
         UNCHANGED <<readings, runs>>
  PROVE  ExactInv'
<1>1. KeepsRuns /\ KeepsOf
  BY DEF KeepsRuns, KeepsOf
<1>2. Exact(n)'
  BY <1>1, ExactStays
<1> QED
  BY <1>1, <1>2, ExactMoves

\* A session at no run owes nothing.
LEMMA ExactNone ==
  ASSUME NEW n, n.pc \in {"idle", "next"}
  PROVE  Exact(n)
BY DEF Exact

\* A capture that begins has a new run of its instant, or is of an older one.
LEMMA ExactBegins ==
  ASSUME ExactInv, RealInv', NEW r \in Requests, NEW s \in Session, NEW t \in Instants,
         Begin(r, s, t), readings' = readings
  PROVE  ExactInv'
<1> DEFINE floor == [a \in Accounts |-> ReadAt(a, t)]
           known == Known(t)
           started == [s EXCEPT !.target = t, !.known = known, !.floor = floor]
           next  == Cardinality(runs) + 1
           cost  == [started EXCEPT !.pc = "cost", !.run = next]
           last  == LastRun(t)
           value == [started EXCEPT !.pc = "value", !.run = last]
           row   == [id |-> next, of |-> t, status |-> "running", held |-> NoRows]
<1>1. \/ Become(r, Idle) /\ runs' = runs
      \/ runs' = runs \cup {row} /\ Become(r, cost)
      \/ runs' = runs /\ ~ s.recalculate /\ Become(r, value)
  BY Zenon DEF Begin, Stop
<1>2. row.id = next /\ row.of = t
  OBVIOUS
<1> HIDE DEF row, next, last, floor, known
<1>3. cost.pc = "cost" /\ cost.target = t /\ cost.run = next
  BY DEF Session
<1>4. value.pc = "value" /\ value.recalculate = s.recalculate
  BY DEF Session
<1> HIDE DEF cost, value
<1>5. KeepsRuns /\ KeepsOf
  BY <1>1 DEF KeepsRuns, KeepsOf
<1>6. CASE Become(r, Idle) /\ runs' = runs
  BY <1>6, IdleTyped, ExactNone, ExactReads
<1>7. CASE runs' = runs \cup {row} /\ Become(r, cost)
  <2>1. PICK m : m = cost
    OBVIOUS
  <2>2. row \in runs' /\ row.id = m.run /\ row.of = m.target /\ m.pc = "cost"
    BY <1>2, <1>3, <1>7, <2>1
  <2>3. Exact(m)'
    BY <2>2 DEF Exact
  <2> QED
    BY <1>5, <1>7, <2>1, <2>3, ExactMoves
<1>8. CASE runs' = runs /\ ~ s.recalculate /\ Become(r, value)
  <2>1. Exact(value)
    BY <1>4, <1>8 DEF Exact
  <2> QED
    BY <1>8, <2>1, ExactReads
<1> QED
  BY <1>1, <1>6, <1>7, <1>8

\* The run that is settled is the session's own.
LEMMA SettleKeeps ==
  ASSUME RealInv, NEW r \in Requests, At(r, "cost"),
         NEW status \in {"succeeded", "failed"}, NEW held, Settle(r, status, held)
  PROVE  /\ KeepsRuns /\ KeepsOf
         /\ \E b \in runs' : b.id = request[r].run /\ b.status = status /\ b.held = held
<1>1. /\ Rows /\ Honest(request[r]) /\ runs \subseteq Run
  BY DEF RealInv, HonestInv, Shape, TypeOK
<1>2. PICK c \in runs : c.id = request[r].run /\ c.status = "running"
  BY <1>1 DEF Honest, RunIs, At
<1>3. /\ \A b \in runs : b.id # request[r].run => b \in runs'
      /\ [c EXCEPT !.status = status, !.held = held] \in runs'
  <2>1. /\ \A b \in runs : b.id # request[r].run => b \in runs'
        /\ \A b \in runs : b.id = request[r].run =>
              [b EXCEPT !.status = status, !.held = held] \in runs'
    BY <1>1, SettleKeepsRows, Zenon
  <2> QED
    BY <1>2, <2>1, Zenon
<1>4. PICK b : b = [c EXCEPT !.status = status, !.held = held]
  OBVIOUS
<1>5. b.id = c.id /\ b.of = c.of /\ b.status = status /\ b.held = held
  BY <1>1, <1>4 DEF Run
<1>6. \A d \in runs : d.id = request[r].run => d = c
  BY <1>1, <1>2 DEF Rows
<1>7. b \in runs'
  BY <1>3, <1>4
<1>8. KeepsRuns
  BY <1>2, <1>3, <1>6 DEF KeepsRuns
<1>9. KeepsOf
  <2> SUFFICES ASSUME NEW d \in runs
               PROVE  \E e \in runs' : e.id = d.id /\ e.of = d.of
    BY DEF KeepsOf
  <2>1. CASE d = c
    BY <1>5, <1>7, <2>1
  <2>2. CASE d # c
    BY <1>3, <1>6, <2>2
  <2> QED
    BY <2>1, <2>2
<1> QED
  BY <1>2, <1>5, <1>7, <1>8, <1>9

\* What the ledger has of an account kept by hand, it holds.
LEMMA ByHandIs ==
  ASSUME Connected, NEW a \in ByHand, NEW t \in Instants, Known(t), posted \subseteq Movements
  PROVE  Quantity(a, t) = Held[a][t]
<1>1. a \in Accounts /\ a \notin Derivatives /\ a \notin UNION Connections
  BY ConstantsAssumption DEF ByHand, Accounts
<1>2. ReadAt(a, t) = None
  <2> SUFFICES ASSUME ReadAt(a, t) # None PROVE FALSE
    OBVIOUS
  <2>1. PICK x : x = [account |-> a, at |-> ReadAt(a, t)]
    OBVIOUS
  <2>2. x \in readings /\ x.account = a
    BY <2>1, ReadIs
  <2> QED
    BY <1>1, <2>2 DEF Connected
<1> DEFINE S == {m \in Movements : m.account = a /\ m.at <= t}
<1>3. {m \in posted : m.account = a /\ m.at <= t} = S
  BY DEF Known
<1>4. Moved(a, posted, t) = SumOf(Amount, {m \in posted : m.account = a /\ m.at <= t})
  BY MovedIs
<1>5. Held[a][t] = SumOf(Amount, S) + 0
  BY <1>1, HeldIs
<1>6. SumOf(Amount, S) \in Int
  BY AmountsAre
<1>7. Quantity(a, t) = Moved(a, posted, t)
  BY <1>2 DEF Quantity
<1>8. Moved(a, posted, t) = SumOf(Amount, S)
  BY <1>3, <1>4
<1> HIDE DEF S
<1> QED
  BY <1>5, <1>6, <1>7, <1>8

\* The end of a cost run,
LEMMA ExactCost ==
  ASSUME ExactInv, RealInv', NEW r \in Requests, Cost(r)
  PROVE  ExactInv'
<1> DEFINE s == request[r]
           held == [a \in Spot |-> Quantity(a, s.target)]
           n == [s EXCEPT !.pc = "value"]
<1>1. /\ s.pc = "cost" /\ UNCHANGED <<now, evidence, snapshots, asked>>
      /\ \/ Settle(r, "succeeded", held) /\ Become(r, n)
         \/ Settle(r, "failed", NoRows) /\ Become(r, Idle)
  BY DEF Cost, At, Stop
<1>2. s \in Session /\ Real(s) /\ Exact(s) /\ Connected /\ RealInv /\ posted \subseteq Movements
  BY DEF ExactInv, RealInv, TypeOK
<1>3. readings' = readings /\ At(r, "cost")
  BY <1>1 DEF evidence, At
<1>4. s.known => \A a \in ByHand : held[a] = Held[a][s.target]
  <2> SUFFICES ASSUME s.known, NEW a \in ByHand
               PROVE  held[a] = Held[a][s.target]
    OBVIOUS
  <2>1. Known(s.target) /\ s.target \in Instants
    BY <1>1, <1>2 DEF Real, Session
  <2>2. a \in Spot
    BY DEF ByHand
  <2>3. Quantity(a, s.target) = Held[a][s.target]
    BY <1>2, <2>1, ByHandIs
  <2> QED
    BY <2>2, <2>3
<1> HIDE DEF held
<1>5. CASE Settle(r, "succeeded", held) /\ Become(r, n)
  <2>1. /\ n.pc = "value" /\ n.recalculate = s.recalculate /\ n.known = s.known
        /\ n.run = s.run /\ n.target = s.target
    BY <1>2 DEF Session
  <2> HIDE DEF n
  <2>2. PICK m, h, u : m = n /\ h = held /\ u = s
    OBVIOUS
  <2>3. KeepsRuns /\ KeepsOf /\ \E b \in runs' : b.id = u.run /\ b.status = "succeeded" /\ b.held = h
    BY <1>2, <1>3, <1>5, <2>2, SettleKeeps
  <2>4. PICK b \in runs' : b.id = u.run /\ b.status = "succeeded" /\ b.held = h
    BY <2>3
  <2>5. Exact(u)'
    BY <1>2, <2>2, <2>3, ExactStays
  <2>6. u.pc = "cost" /\ (u.known => \A a \in ByHand : h[a] = Held[a][u.target])
    BY <1>1, <1>4, <2>2
  <2>7. /\ m.pc = "value" /\ m.recalculate = u.recalculate /\ m.known = u.known
        /\ m.run = u.run /\ m.target = u.target
    BY <2>1, <2>2
  <2>8. m.recalculate => \E c \in runs' : c.id = m.run /\ c.of = m.target
    BY <2>5, <2>6, <2>7 DEF Exact
  <2>9. m.known => /\ b.id = m.run /\ b.status = "succeeded"
                   /\ \A a \in ByHand : b.held[a] = Held[a][m.target]
    BY <2>4, <2>6, <2>7
  <2>10. Exact(m)'
    BY <2>7, <2>8, <2>9 DEF Exact
  <2> QED
    BY <1>3, <1>5, <2>2, <2>3, <2>10, ExactMoves
<1>6. CASE Settle(r, "failed", NoRows) /\ Become(r, Idle)
  <2>1. KeepsRuns /\ KeepsOf
    BY <1>2, <1>3, <1>6, SettleKeeps
  <2>2. Exact(Idle)'
    BY IdleTyped DEF Exact
  <2> QED
    BY <1>3, <1>6, <2>1, <2>2, ExactMoves
<1> QED
  BY <1>1, <1>5, <1>6

\* the summary,
LEMMA ExactValue ==
  ASSUME ExactInv, RealInv', NEW r \in Requests, Value(r)
  PROVE  ExactInv'
<1> DEFINE s == request[r]
           c == RunOf(s.run)
           complete == Priced(c) /\ FreshBalances(c) /\ FreshEquities(c) /\ ~ Borrowed(c)
           nav == IF complete THEN SpotValue(c) + PerpEquity(c) ELSE None
           priced == PriceAt(c.of)
           equity == [d \in Derivatives |-> ReadAt(d, c.of)]
           n == [s EXCEPT !.pc = "reconcile", !.nav = nav, !.priced = priced, !.equity = equity]
<1>1. s.pc = "value" /\ UNCHANGED <<now, evidence, runs, snapshots, asked>> /\ Become(r, n)
  BY DEF Value, At
<1>2. s \in Session /\ Honest(s) /\ Exact(s) /\ Rows /\ Connected
  BY DEF ExactInv, RealInv, TypeOK, HonestInv, Shape
<1>3. c \in runs /\ c.id = s.run /\ c.status = "succeeded"
  BY <1>1, <1>2, RunOfIs DEF Honest, RunIs
<1>4. nav # None => FreshEquities(c) /\ nav = SpotValue(c) + PerpEquity(c)
  OBVIOUS
<1>5. SpotValue(c) + PerpEquity(c) = Valuation(c.held, priced, equity)
  BY DEF SpotValue, PerpEquity, Valuation
<1>6. ASSUME nav # None, NEW d \in Derivatives
      PROVE  d \in UNION Connections
  <2>1. ReadAt(d, c.of) # None
    BY <1>4, <1>6 DEF FreshEquities, Fresh
  <2>2. [account |-> d, at |-> ReadAt(d, c.of)] \in readings
    BY <2>1, ReadIs
  <2> QED
    BY <1>2, <2>2 DEF Connected
<1> HIDE DEF nav, priced, equity, c
<1>7. /\ n.pc = "reconcile" /\ n.nav = nav /\ n.priced = priced /\ n.equity = equity
      /\ n.run = s.run /\ n.target = s.target /\ n.known = s.known /\ n.recalculate = s.recalculate
  BY <1>2 DEF Session
<1> HIDE DEF n
<1>8. n.recalculate => \E b \in runs : b.id = n.run /\ b.of = n.target
  BY <1>1, <1>2, <1>7 DEF Exact
<1>9. n.recalculate /\ n.known =>
        \E b \in runs : /\ b.id = n.run /\ b.status = "succeeded"
                        /\ \A a \in ByHand : b.held[a] = Held[a][n.target]
  BY <1>1, <1>2, <1>7 DEF Exact
<1>10. n.nav # None => n.nav = Valuation(c.held, n.priced, n.equity)
  BY <1>4, <1>5, <1>7
<1>11. Exact(n)
  BY <1>3, <1>6, <1>7, <1>8, <1>9, <1>10 DEF Exact
<1> QED
  BY <1>1, <1>11, ExactReads DEF evidence

\* and the reconciliation.
LEMMA ExactReconcile ==
  ASSUME ExactInv, RealInv', NEW r \in Requests, Reconcile(r)
  PROVE  ExactInv'
<1> DEFINE s == request[r]
           base == Previous(s.target)
           before == SnapshotOf(base)
           nav == IF Reconciled(RunOf(s.run)) THEN s.nav ELSE None
           flow == IF base = None THEN None ELSE ExternalFlow(base, s.target)
           known == base # None /\ nav # None /\ flow # None
           pnl == IF known /\ before.nav # None THEN nav - before.nav - flow ELSE None
           n == [s EXCEPT !.pc = "insert", !.nav = nav, !.base = base, !.flow = flow, !.pnl = pnl]
<1>1. s.pc = "reconcile" /\ UNCHANGED <<now, evidence, runs, snapshots, asked>> /\ Become(r, n)
  BY Zenon DEF Reconcile, At
<1>2. s \in Session /\ Exact(s)
  BY DEF ExactInv, RealInv, TypeOK
<1>3. nav = s.nav \/ nav = None
  OBVIOUS
<1> HIDE DEF base, before, nav, flow, pnl, known
<1>4. /\ n.pc = "insert" /\ n.nav = nav /\ n.priced = s.priced /\ n.equity = s.equity
      /\ n.run = s.run /\ n.target = s.target /\ n.known = s.known /\ n.recalculate = s.recalculate
  BY <1>2 DEF Session
<1> HIDE DEF n
<1>5. Exact(n)
  BY <1>1, <1>2, <1>3, <1>4 DEF Exact
<1> QED
  BY <1>1, <1>5, ExactReads DEF evidence

\* A step of a session keeps the invariant,
LEMMA ExactServe ==
  ASSUME ExactInv, RealInv', NEW r \in Requests, Serve(r)
  PROVE  ExactInv'
<1> DEFINE s == request[r]
<1>1. s \in Session /\ Idle \in Session
  BY IdleTyped DEF ExactInv, RealInv, TypeOK
<1>0. PICK v : v = s
  OBVIOUS
<1>10. Shape /\ ShapedSession(v)
  BY <1>0 DEF ExactInv, RealInv, HonestInv, Shape
<1>2. CASE \E t \in Instants, recalculate \in BOOLEAN : Capture(r, t, recalculate)
  <2>1. PICK t \in Instants, recalculate \in BOOLEAN : Capture(r, t, recalculate)
    BY <1>2
  <2> DEFINE u == [Idle EXCEPT !.recalculate = recalculate]
  <2>2. u \in Session
    BY <1>1 DEF Session
  <2>3. Begin(r, u, t) /\ readings' = readings
    BY <2>1 DEF Capture, evidence
  <2> HIDE DEF u
  <2> QED
    BY <2>2, <2>3, ExactBegins
<1>3. CASE \E range \in Ranges : Backfill(r, range[1], range[2])
  <2>1. PICK range \in Ranges : Backfill(r, range[1], range[2])
    BY <1>3
  <2>2. \E n : Become(r, n) /\ n.pc = "next"
    <3>1. PICK first, end : first = range[1] /\ end = range[2]
      OBVIOUS
    <3>2. first \in Instants /\ end \in Instants /\ first <= end /\ Backfill(r, first, end)
      BY <2>1, <3>1, ConstantsAssumption
    <3> QED
      BY <1>10, <3>2, BackfillIs DEF Moves
  <2>3. UNCHANGED <<readings, runs>>
    BY <2>1 DEF Backfill, evidence
  <2> QED
    BY <2>2, <2>3, ExactNone, ExactReads
<1>4. CASE NextDay(r)
  <2> DEFINE rest == (s.day..DayOf(s.last)) \ s.skip
             day == Min(rest)
             n == [Idle EXCEPT !.first = s.first, !.last = s.last, !.done = TRUE]
             u == [s EXCEPT !.day = day]
             t == DayTarget(s, day)
  <2>1. /\ UNCHANGED <<now, evidence, snapshots, asked>>
        /\ IF rest = {} THEN Become(r, n) /\ UNCHANGED runs ELSE Begin(r, u, t)
    BY <1>4, Zenon DEF NextDay
  <2>2. CASE rest = {}
    <3>1. n.pc = "idle"
      BY IdleTyped DEF Session
    <3> HIDE DEF n
    <3> QED
      BY <2>1, <2>2, <3>1, ExactNone, ExactReads DEF evidence
  <2>3. CASE rest # {}
    <3>1. u \in Session /\ t \in Instants
      BY <1>1, <2>3, RestIs
    <3> HIDE DEF u, t
    <3> QED
      BY <2>1, <2>3, <3>1, ExactBegins DEF evidence
  <2> QED
    BY <2>2, <2>3
<1>5. CASE Cost(r)
  BY <1>5, ExactCost
<1>6. CASE Value(r)
  BY <1>6, ExactValue
<1>7. CASE Reconcile(r)
  BY <1>7, ExactReconcile
<1>8. CASE Insert(r)
  <2>1. \E n : Become(r, n) /\ n.pc \in {"idle", "next"}
    BY <1>0, <1>8, <1>10, InsertIs, IdleTyped DEF Moves
  <2>2. UNCHANGED <<readings, runs>>
    BY <1>8 DEF Insert, evidence
  <2> QED
    BY <2>1, <2>2, ExactNone, ExactReads
<1>9. CASE Crash(r)
  <2>1. Become(r, Idle) /\ UNCHANGED <<readings, runs>>
    BY <1>9 DEF Crash, Stop, evidence
  <2> QED
    BY <2>1, IdleTyped, ExactNone, ExactReads
<1> QED
  BY <1>2, <1>3, <1>4, <1>5, <1>6, <1>7, <1>8, <1>9 DEF Serve

\* and so does every other step.
LEMMA ExactStep == ExactInv /\ [Next]_vars => ExactInv'
<1> SUFFICES ASSUME ExactInv, [Next]_vars
             PROVE  ExactInv'
  OBVIOUS
<1>1. RealInv'
  BY RealStep DEF ExactInv
<1>2. ASSUME UNCHANGED <<runs, request>>, Connected'
      PROVE  ExactInv'
  <2>1. KeepsRuns /\ KeepsOf
    BY <1>2 DEF KeepsRuns, KeepsOf
  <2>2. ASSUME NEW q \in Requests
        PROVE  Exact(request[q])'
    <3>1. PICK s : s = request[q]
      OBVIOUS
    <3>2. Exact(s)'
      BY <2>1, <3>1, ExactStays DEF ExactInv
    <3>3. request'[q] = s
      BY <1>2, <3>1
    <3> QED
      BY <3>2, <3>3 DEF Exact
  <2> QED
    BY <1>1, <1>2, <2>2 DEF ExactInv
<1>3. readings' = readings => Connected'
  BY DEF Connected, ExactInv
<1>4. CASE \E c \in Connections, t \in Instants : Sync(c, t)
  <2>1. PICK c \in Connections, t \in Instants : Sync(c, t)
    BY <1>4
  <2>2. readings' = readings \cup [account : c, at : {t}] /\ UNCHANGED <<runs, request>>
    BY <2>1 DEF Sync
  <2>3. \A x \in [account : c, at : {t}] : x.account \in UNION Connections
    OBVIOUS
  <2>4. Connected'
    BY <2>2, <2>3 DEF Connected, ExactInv
  <2> QED
    BY <1>2, <2>2, <2>4
<1>5. CASE \E t \in Instants : WritePrice(t)
  BY <1>2, <1>3, <1>5 DEF WritePrice
<1>6. CASE \E x \in Transfers : Match(x)
  BY <1>2, <1>3, <1>6 DEF Match
<1>7. CASE Tick
  BY <1>2, <1>3, <1>7 DEF Tick, evidence
<1>8. CASE \E r \in Requests : Serve(r)
  BY <1>1, <1>8, ExactServe
<1>9. CASE UNCHANGED vars
  BY <1>2, <1>3, <1>9 DEF vars, evidence
<1> QED
  BY <1>4, <1>5, <1>6, <1>7, <1>8, <1>9 DEF Next

\* At first nothing is valued.
LEMMA ExactInit == Init => ExactInv
<1> SUFFICES ASSUME Init PROVE ExactInv
  OBVIOUS
<1>1. \A r \in Requests : Exact(request[r])
  BY IdleTyped, ExactNone DEF Init
<1>2. Connected
  BY DEF Init, Connected
<1> QED
  BY <1>1, <1>2, RealInit DEF ExactInv

\* When each quantity and equity is what was held at an instant, none of them
\* overdrawn, their value at its prices is the worth of the portfolio.
LEMMA ValuationIs ==
  ASSUME NEW t \in Instants, NEW held, NEW equity,
         \A a \in Spot : held[a] = Held[a][t] /\ Held[a][t] >= 0,
         \A d \in Derivatives : equity[d] = t
  PROVE  Valuation(held, t, equity) = Worth[t]
<1> DEFINE f == [a \in Spot |-> IF held[a] <= 0 THEN 0 ELSE held[a] * PriceIn(a, t)]
           g == [d \in Derivatives |-> Held[d][equity[d]]]
           W == WorthOf(t)
<1>1. /\ Numbers(W, Accounts) /\ Worth[t] = SumOf(W, Accounts)
      /\ Spot \subseteq Accounts /\ Accounts \ Spot = Derivatives
  BY WorthIs, ConstantsAssumption DEF Accounts
<1>2. Numbers(W, Spot) /\ Numbers(W, Derivatives)
  <2>1. Derivatives \subseteq Accounts
    BY DEF Accounts
  <2> HIDE DEF W
  <2> QED
    BY <1>1, <2>1, FS_Subset DEF Numbers
<1>3. ASSUME NEW a \in Spot
      PROVE  f[a] = W[a]
  <2>1. a \in Accounts /\ Held[a][t] \in Int /\ PriceIn(a, t) \in Nat
    BY HeldIs, PriceIs DEF Accounts
  <2>2. W[a] = Held[a][t] * PriceIn(a, t)
    BY <2>1 DEF WorthOf
  <2>3. f[a] = IF Held[a][t] <= 0 THEN 0 ELSE Held[a][t] * PriceIn(a, t)
    OBVIOUS
  <2>4. Held[a][t] <= 0 => Held[a][t] = 0
    BY <2>1
  <2> HIDE DEF f, W
  <2>5. CASE Held[a][t] <= 0
    <3>1. W[a] = 0 * PriceIn(a, t) /\ f[a] = 0
      BY <2>2, <2>3, <2>4, <2>5
    <3> QED
      BY <2>1, <3>1
  <2>6. CASE ~ (Held[a][t] <= 0)
    BY <2>2, <2>3, <2>6
  <2> QED
    BY <2>5, <2>6
<1>4. ASSUME NEW d \in Derivatives
      PROVE  g[d] = W[d]
  <2>1. d \in Accounts /\ d \notin Coins
    BY ConstantsAssumption DEF Accounts
  <2>2. Held[d][t] \in Int
    BY <2>1, HeldIs
  <2>3. W[d] = Held[d][t] * 1
    BY <2>1 DEF WorthOf, PriceIn
  <2>4. g[d] = Held[d][t]
    OBVIOUS
  <2> QED
    BY <2>2, <2>3, <2>4
<1>5. DOMAIN f = Spot /\ DOMAIN g = Derivatives
  OBVIOUS
<1>6. Valuation(held, t, equity) = Total(f) + Total(g)
  BY DEF Valuation
<1> HIDE DEF f, g, W
<1>7. Total(f) = SumOf(f, Spot) /\ Total(g) = SumOf(g, Derivatives)
  BY <1>2, <1>3, <1>4, <1>5, TotalIs DEF Numbers
<1>8. SumOf(f, Spot) = SumOf(W, Spot) /\ SumOf(g, Derivatives) = SumOf(W, Derivatives)
  BY <1>2, <1>3, <1>4, SumSame
<1>9. SumOf(W, Accounts) = SumOf(W, Spot) + SumOf(W, Derivatives)
  BY <1>1, SumParts
<1> QED
  BY <1>1, <1>6, <1>7, <1>8, <1>9

\* A net worth of the request's own run is what the portfolio was worth, when all
\* was read and posted before it began and the price was of its instant
\* (capture_snapshot, _summary, _reconcile_run_quantities).
THEOREM NetWorthsAreTrue == Spec => []NetWorthIsTrue
<1>1. ExactInv => NetWorthIsTrue
  <2> SUFFICES ASSUME ExactInv, NEW r \in Requests, NEW s, s = request[r],
                      Valued(s), s.recalculate, s.known,
                      \A a \in UNION Connections : s.floor[a] = s.target,
                      \A a \in Spot : Held[a][s.target] >= 0,
                      s.priced = s.target
               PROVE  s.nav = Worth[s.target]
    BY DEF NetWorthIsTrue
  <2>1. /\ Exact(s) /\ Honest(s) /\ Rows /\ s.pc = "insert" /\ s.nav # None
        /\ s.target \in Instants
    BY DEF ExactInv, RealInv, HonestInv, Shape, Valued, TypeOK, Session
  <2>2. PICK c \in runs : c.id = s.run /\ s.nav = Valuation(c.held, s.priced, s.equity)
    BY <2>1 DEF Exact
  <2>3. c.of = s.target /\ \A a \in ByHand : c.held[a] = Held[a][s.target]
    <3>1. PICK b \in runs : b.id = s.run /\ b.of = s.target
      BY <2>1 DEF Exact
    <3>2. PICK d \in runs : d.id = s.run /\ \A a \in ByHand : d.held[a] = Held[a][s.target]
      BY <2>1 DEF Exact
    <3>3. b = c /\ d = c
      BY <2>1, <2>2, <3>1, <3>2 DEF Rows
    <3> QED
      BY <3>1, <3>2, <3>3
  <2>4. RunOf(s.run) = c
    BY <2>1, <2>2, RunOfIs
  <2>5. /\ \A d \in Derivatives : AsNew(s.equity[d], s.floor[d], s.target)
        /\ \A a \in Spot : s.floor[a] # None => \E u \in s.floor[a]..s.target : c.held[a] = Held[a][u]
    BY <2>1, <2>3, <2>4 DEF Honest, Evident, Grounded, OwnRun
  <2>6. s.target \in Nat /\ s.target # None
    <3>1. s.target \in Nat
      BY <2>1, InstantsAre
    <3> QED
      BY <3>1, InstantsAre
  <2>7. ASSUME NEW a \in Spot
        PROVE  c.held[a] = Held[a][s.target]
    <3>1. CASE a \in UNION Connections
      <4>1. PICK u \in s.target..s.target : c.held[a] = Held[a][u]
        BY <2>5, <2>6, <3>1
      <4>2. u = s.target
        BY <2>6
      <4> QED
        BY <4>1, <4>2
    <3>2. CASE a \notin UNION Connections
      BY <2>3, <3>2 DEF ByHand
    <3> QED
      BY <3>1, <3>2
  <2>8. ASSUME NEW d \in Derivatives
        PROVE  s.equity[d] = s.target
    <3>1. d \in UNION Connections
      BY <2>1 DEF Exact
    <3>2. s.target <= s.equity[d] /\ s.equity[d] <= s.target
      BY <2>5, <2>6, <3>1 DEF AsNew
    <3>3. s.equity[d] \in Int \cup {None} /\ s.equity[d] # None
      BY <2>5, <2>6, <3>1 DEF ExactInv, RealInv, TypeOK, Session, AsNew
    <3> QED
      BY <2>6, <3>2, <3>3
  <2>9. Valuation(c.held, s.target, s.equity) = Worth[s.target]
    BY <2>1, <2>7, <2>8, ValuationIs
  <2> QED
    BY <2>2, <2>9
<1> QED
  BY <1>1, ExactInit, ExactStep, PTL DEF Spec
================================================================================
