--------------------------- MODULE TransferMatching ---------------------------
(***************************************************************************)
(* Transfer matching: linking a withdrawal of one account with the deposit *)
(* of another (backend/app/services/transfer_matching.py).                 *)
(*                                                                         *)
(* Every HTTP request is a process of this module.  It runs one operation  *)
(* of TransferMatchingService in one database session, statement by        *)
(* statement, interleaved with the other open requests under PostgreSQL's  *)
(* READ COMMITTED isolation: a SELECT sees what is committed (and what the *)
(* session itself flushed), an UPDATE or INSERT holds its row until the    *)
(* transaction ends, SELECT ... FOR UPDATE waits for the row's holder.     *)
(*                                                                         *)
(* The session is SQLAlchemy's with autoflush off: an object keeps the     *)
(* value it was loaded with, and a flush writes only the attributes whose  *)
(* value differs from the loaded one.                                      *)
(***************************************************************************)
EXTENDS Naturals, FiniteSets

CONSTANTS
    Requests,     \* the HTTP requests that ever arrive
    MaxOpen,      \* bound: how many of them are in progress at once
    Sources,      \* posted withdraw / transfer_out ledger events
    Destinations, \* posted deposit / transfer_in ledger events
    Pairs,        \* the (source, destination) pairs held by different accounts
    Evidence,     \* what the two legs of a pair have in common
    Ambiguous,    \* events whose entries name no single account and asset
    Windows       \* the sets of events a run's history_start/history_end admit

Events == Sources \cup Destinations

EvidenceType == [hash   : BOOLEAN,                       \* same tx_hash
                 asset  : BOOLEAN,                       \* same canonical asset
                 amount : {"close", "tolerable", "far"}, \* < 0.1%, <= 5%, more
                 time   : {"close", "days", "month", "far"}]
                                       \* < 30 min, <= 72 h, <= 30 days, more

ASSUME ConstantsAssumption ==
    /\ Sources \cap Destinations = {}
    /\ Pairs \subseteq Sources \X Destinations
    /\ Evidence \in [Pairs -> EvidenceType]
    /\ Ambiguous \subseteq Events
    /\ Windows \subseteq SUBSET Events
    /\ "free" \notin Requests
    /\ MaxOpen \in Nat

-----------------------------------------------------------------------------
(* Scoring: pure functions of the two legs. *)

Legs(p) == {p[1], p[2]}

Points(condition, points) == IF condition THEN points ELSE 0

Score(p) == Points(Evidence[p].hash, 60)
          + Points(Evidence[p].asset, 20)
          + Points(Evidence[p].amount = "close", 10)
          + Points(Evidence[p].time = "close", 10)

\* The pairs a run stores a candidate for.  Destinations are looked up by asset
\* and by hash, so a pair that shares neither is never considered.
Plausible(p) ==
    \/ Evidence[p].hash /\ Evidence[p].time # "far"
    \/ /\ ~Evidence[p].hash
       /\ Evidence[p].asset
       /\ Evidence[p].amount # "far"
       /\ Evidence[p].time \in {"close", "days"}

AutoScore   == 90     \* settings.transfer_auto_score
ReviewScore == 70     \* settings.transfer_review_score

StatusForScore(p) == IF Score(p) >= AutoScore THEN "AUTO_MATCHED"
                     ELSE IF Score(p) >= ReviewScore THEN "NEEDS_REVIEW"
                     ELSE "UNMATCHED"

\* _load_legs drops an event whose entries are ambiguous, _leg_for_event rejects it.
HasLegs(p) == Legs(p) \cap Ambiguous = {}

-----------------------------------------------------------------------------
Absent == "absent"     \* no such row
Free   == "free"       \* no transaction holds the row

CandidateStatus == {"UNMATCHED", "NEEDS_REVIEW", "AUTO_MATCHED",
                    "CONFIRMED", "REJECTED", "IGNORED"}
GroupStatus     == {"AUTO_MATCHED", "CONFIRMED", "UNMATCHED"}
MutableCandidateStatuses == {"UNMATCHED", "NEEDS_REVIEW"}
SettledStatuses == {"CONFIRMED", "REJECTED", "IGNORED"}

Kinds == {"run", "confirm", "manual", "unmatch", "ignore"}
PCs == {"idle", "score", "insert", "survey", "match", "lock", "ignore",
        "reject", "commit", "finish", "failed", "done", "crashed"}

VARIABLES
    \* committed rows
    candidate,    \* transfer_candidates: the status of each pair's candidate
    group,        \* transfer_groups: group[p][r], the group request r made for p
    run,          \* transfer_match_runs: the row of each matching request
    \* row locks held by open transactions
    eventLock,    \* ledger_events rows, FOR UPDATE
    rowLock,      \* transfer_candidates rows and unique keys written by a flush
    \* the session of each request
    kind,         \* the operation it runs
    pc,           \* its next statement
    target,       \* the pairs (at most one) it is locking or inserting
    loaded,       \* the candidate statuses as loaded or last flushed
    mem,          \* the candidate statuses of its objects
    todo,         \* the pairs left to score, then the candidates left to match
    used,         \* used_events
    activePairs,  \* active_pairs
    pending,      \* the pairs whose group it has inserted and not committed
    edit          \* the existing groups whose status its commit overwrites

database == <<candidate, group, run>>
locks    == <<eventLock, rowLock>>
session  == <<target, loaded, mem, todo, used, activePairs, pending, edit>>
vars     == <<database, locks, kind, pc, session>>

Nothing == [p \in Pairs |-> Absent]

TypeOK ==
    /\ candidate \in [Pairs -> CandidateStatus \cup {Absent}]
    /\ group \in [Pairs -> [Requests -> GroupStatus \cup {Absent}]]
    /\ run \in [Requests -> {"RUNNING", "SUCCEEDED", "PARTIAL", "FAILED", Absent}]
    /\ eventLock \in [Events -> Requests \cup {Free}]
    /\ rowLock \in [Pairs -> Requests \cup {Free}]
    /\ kind \in [Requests -> Kinds]
    /\ pc \in [Requests -> PCs]
    /\ target \in [Requests -> SUBSET Pairs]
    /\ loaded \in [Requests -> [Pairs -> CandidateStatus \cup {Absent}]]
    /\ mem \in [Requests -> [Pairs -> CandidateStatus \cup {Absent}]]
    /\ todo \in [Requests -> SUBSET Pairs]
    /\ used \in [Requests -> SUBSET Events]
    /\ activePairs \in [Requests -> SUBSET Pairs]
    /\ pending \in [Requests -> SUBSET Pairs]
    /\ edit \in [Requests -> SUBSET (Pairs \X Requests)]

Init ==
    /\ candidate = Nothing
    /\ group = [p \in Pairs |-> [r \in Requests |-> Absent]]
    /\ run = [r \in Requests |-> Absent]
    /\ eventLock = [e \in Events |-> Free]
    /\ rowLock = [p \in Pairs |-> Free]
    /\ kind = [r \in Requests |-> "run"]
    /\ pc = [r \in Requests |-> "idle"]
    /\ target = [r \in Requests |-> {}]
    /\ loaded = [r \in Requests |-> Nothing]
    /\ mem = [r \in Requests |-> Nothing]
    /\ todo = [r \in Requests |-> {}]
    /\ used = [r \in Requests |-> {}]
    /\ activePairs = [r \in Requests |-> {}]
    /\ pending = [r \in Requests |-> {}]
    /\ edit = [r \in Requests |-> {}]

-----------------------------------------------------------------------------
(* Groups and sessions. *)

ActiveStatus(s) == s \in {"AUTO_MATCHED", "CONFIRMED"}

\* The groups, named by pair and creating request, a SELECT of request r returns
\* as active: the committed ones and those r itself inserted.
ActiveGroups == {g \in Pairs \X Requests : ActiveStatus(group[g[1]][g[2]])}
\* Mutant: groups not yet confirmed by a user do not count.
VisibleGroupsConfirmed(r) ==
    {g \in Pairs \X Requests : group[g[1]][g[2]] = "CONFIRMED"} \cup (pending[r] \X {r})
VisibleGroups(r) == ActiveGroups \cup (pending[r] \X {r})

OnEvents(groups, events) == {g \in groups : Legs(g[1]) \cap events # {}}

Open(r) == pc[r] \notin {"idle", "done", "crashed"}

\* Mutant: _create_group reads the events without locking them.
HoldsLegsUnlocked(r, p) == TRUE
HoldsLegs(r, p) == \A e \in Legs(p) : eventLock[e] = r

\* The candidate rows the next flush of r writes, and whether it may: another
\* transaction that wrote one of them makes the flush wait.
Dirty(r)    == {p \in Pairs : mem[r][p] # loaded[r][p]}
CanFlush(r) == \A p \in Dirty(r) : rowLock[p] \in {r, Free}

Goto(r, next) == pc' = [pc EXCEPT ![r] = next]

Flush(r) ==
    /\ CanFlush(r)
    /\ rowLock' = [p \in Pairs |-> IF p \in Dirty(r) THEN r ELSE rowLock[p]]
    /\ loaded' = [loaded EXCEPT ![r] = mem[r]]

\* Mutant: the session is dropped, its transaction left open.
ReleaseSessionOnly(r, next) ==
    /\ UNCHANGED locks
    /\ Goto(r, next)
    /\ target' = [target EXCEPT ![r] = {}]
    /\ loaded' = [loaded EXCEPT ![r] = Nothing]
    /\ mem' = [mem EXCEPT ![r] = Nothing]
    /\ todo' = [todo EXCEPT ![r] = {}]
    /\ used' = [used EXCEPT ![r] = {}]
    /\ activePairs' = [activePairs EXCEPT ![r] = {}]
    /\ pending' = [pending EXCEPT ![r] = {}]
    /\ edit' = [edit EXCEPT ![r] = {}]

\* The transaction and the session end: every row it held is free again.
Release(r, next) ==
    /\ eventLock' = [e \in Events |-> IF eventLock[e] = r THEN Free ELSE eventLock[e]]
    /\ rowLock' = [p \in Pairs |-> IF rowLock[p] = r THEN Free ELSE rowLock[p]]
    /\ Goto(r, next)
    /\ target' = [target EXCEPT ![r] = {}]
    /\ loaded' = [loaded EXCEPT ![r] = Nothing]
    /\ mem' = [mem EXCEPT ![r] = Nothing]
    /\ todo' = [todo EXCEPT ![r] = {}]
    /\ used' = [used EXCEPT ![r] = {}]
    /\ activePairs' = [activePairs EXCEPT ![r] = {}]
    /\ pending' = [pending EXCEPT ![r] = {}]
    /\ edit' = [edit EXCEPT ![r] = {}]

\* Mutant: run() lets the exception escape instead of recording it.
RollbackUnrecorded(r) ==
    /\ Release(r, "done")
    /\ UNCHANGED <<database, kind>>

\* An exception: the transaction is undone.  run() catches it and goes on to
\* record the failure; for the other operations the request is over.
Rollback(r) ==
    /\ Release(r, IF kind[r] = "run" THEN "failed" ELSE "done")
    /\ UNCHANGED <<database, kind>>

Begin(r, k, next) ==
    /\ pc[r] = "idle"
    /\ Cardinality({q \in Requests : Open(q)}) < MaxOpen
    /\ kind' = [kind EXCEPT ![r] = k]
    /\ Goto(r, next)

\* The session loads the candidate of p, and sets its status to s.
Load(r, p, s) ==
    /\ loaded' = [loaded EXCEPT ![r][p] = candidate[p]]
    /\ mem' = [mem EXCEPT ![r][p] = s]

-----------------------------------------------------------------------------
(* The automatic run. *)

StartRun(r) ==
    /\ Begin(r, "run", "score")
    /\ run' = [run EXCEPT ![r] = "RUNNING"]
    /\ \E w \in Windows :
          todo' = [todo EXCEPT ![r] =
                     {p \in Pairs : Legs(p) \subseteq w /\ HasLegs(p) /\ Plausible(p)}]
    /\ UNCHANGED <<candidate, group, locks, target, loaded, mem, used, activePairs,
                   pending, edit>>

\* Mutant: rescoring does not look at MUTABLE_CANDIDATE_STATUSES.
RescoreAny(r, p) ==
    /\ pc[r] = "score"
    /\ p \in todo[r]
    /\ candidate[p] # Absent
    /\ Load(r, p, StatusForScore(p))
    /\ todo' = [todo EXCEPT ![r] = @ \ {p}]
    /\ UNCHANGED <<database, locks, kind, pc, target, used, activePairs, pending, edit>>

\* _score_and_persist on a pair that has a candidate: its status follows the
\* score again unless it is matched or a user has ruled on it.
Rescore(r, p) ==
    /\ pc[r] = "score"
    /\ p \in todo[r]
    /\ candidate[p] # Absent
    /\ Load(r, p, IF candidate[p] \in MutableCandidateStatuses
                  THEN StatusForScore(p) ELSE candidate[p])
    /\ todo' = [todo EXCEPT ![r] = @ \ {p}]
    /\ UNCHANGED <<database, locks, kind, pc, target, used, activePairs, pending, edit>>

\* ... and on one that has none: the SELECT found no row, the INSERT is next.
ScoreNew(r, p) ==
    /\ pc[r] = "score"
    /\ p \in todo[r]
    /\ candidate[p] = Absent
    /\ mem' = [mem EXCEPT ![r][p] = StatusForScore(p)]
    /\ todo' = [todo EXCEPT ![r] = @ \ {p}]
    /\ target' = [target EXCEPT ![r] = {p}]
    /\ Goto(r, "insert")
    /\ UNCHANGED <<database, locks, kind, loaded, used, activePairs, pending, edit>>

\* session.add and flush of a new candidate; the unique constraint on the pair
\* makes it wait for a concurrent insert of the same row ...
InsertCandidate(r, p) ==
    /\ pc[r] = "insert"
    /\ p \in target[r]
    /\ candidate[p] = Absent
    /\ Flush(r)
    /\ \/ /\ kind[r] = "run"
          /\ Goto(r, "score")
          /\ target' = [target EXCEPT ![r] = {}]
       \/ /\ kind[r] = "manual"
          /\ Goto(r, "lock")
          /\ UNCHANGED target
    /\ UNCHANGED <<database, eventLock, kind, mem, todo, used, activePairs, pending, edit>>

\* ... and fail when that one commits.
DuplicateCandidate(r, p) ==
    /\ pc[r] = "insert"
    /\ p \in target[r]
    /\ candidate[p] # Absent
    /\ CanFlush(r)
    /\ Rollback(r)

\* _auto_match reads the active groups once, and keeps the candidates whose
\* score and status, as this session knows it, make them eligible.
SurveyGroups(r) ==
    /\ pc[r] = "score"
    /\ todo[r] = {}
    /\ activePairs' = [activePairs EXCEPT ![r] = {g[1] : g \in ActiveGroups}]
    /\ used' = [used EXCEPT ![r] = UNION {Legs(g[1]) : g \in ActiveGroups}]
    /\ todo' = [todo EXCEPT ![r] = {p \in Pairs : /\ mem[r][p] \notin SettledStatuses \cup {Absent}
                                                  /\ Score(p) >= AutoScore}]
    /\ Goto(r, "match")
    /\ UNCHANGED <<database, locks, kind, target, loaded, mem, pending, edit>>

\* Mutant: the eligible candidates are not sorted.
IsNextUnsorted(r, p) ==
    /\ pc[r] = "match"
    /\ p \in todo[r]

\* Candidates are taken best score first; the time, amount and identifier that
\* break ties are left open.
IsNext(r, p) ==
    /\ pc[r] = "match"
    /\ p \in todo[r]
    /\ \A q \in todo[r] : Score(q) <= Score(p)

\* A candidate one of whose events the session believes taken is set aside.
BlockCandidate(r, p) ==
    /\ IsNext(r, p)
    /\ Legs(p) \cap used[r] # {}
    /\ mem' = [mem EXCEPT ![r][p] = IF p \in activePairs[r] THEN @ ELSE "NEEDS_REVIEW"]
    /\ todo' = [todo EXCEPT ![r] = @ \ {p}]
    /\ UNCHANGED <<database, locks, kind, pc, target, loaded, used, activePairs, pending, edit>>

PickCandidate(r, p) ==
    /\ IsNext(r, p)
    /\ Legs(p) \cap used[r] = {}
    /\ target' = [target EXCEPT ![r] = {p}]
    /\ todo' = [todo EXCEPT ![r] = @ \ {p}]
    /\ Goto(r, "lock")
    /\ UNCHANGED <<database, locks, kind, loaded, mem, used, activePairs, pending, edit>>

-----------------------------------------------------------------------------
(* _create_group. *)

\* SELECT ... FOR UPDATE, one row at a time, in whatever order the plan takes.
LockEvent(r, e) ==
    /\ pc[r] = "lock"
    /\ \E p \in target[r] : e \in Legs(p)
    /\ eventLock[e] = Free
    /\ eventLock' = [eventLock EXCEPT ![e] = r]
    /\ UNCHANGED <<database, rowLock, kind, pc, session>>

MatchedStatus(r) == IF kind[r] = "run" THEN "AUTO_MATCHED" ELSE "CONFIRMED"

\* What the caller does with the group _create_group returns.
Matched(r, p) ==
    /\ mem' = [mem EXCEPT ![r][p] = MatchedStatus(r)]
    /\ used' = [used EXCEPT ![r] = IF kind[r] = "run" THEN @ \cup Legs(p) ELSE @]
    /\ target' = [target EXCEPT ![r] = {}]
    /\ Goto(r, IF kind[r] = "run" THEN "match" ELSE "commit")

\* Both events are held and neither is in an active group.
InsertGroup(r, p) ==
    /\ pc[r] = "lock"
    /\ p \in target[r]
    /\ HoldsLegs(r, p)
    /\ OnEvents(VisibleGroups(r), Legs(p)) = {}
    /\ Flush(r)
    /\ pending' = [pending EXCEPT ![r] = @ \cup {p}]
    /\ Matched(r, p)
    /\ UNCHANGED <<database, eventLock, kind, todo, activePairs, edit>>

\* The conflicting group is this very pair's: a user's request confirms it.
JoinGroup(r, p) ==
    /\ pc[r] = "lock"
    /\ p \in target[r]
    /\ HoldsLegs(r, p)
    /\ \E g \in OnEvents(VisibleGroups(r), Legs(p)) :
          /\ g[1] = p
          /\ edit' = [edit EXCEPT ![r] =
                        IF kind[r] # "run" /\ group[p][g[2]] # "CONFIRMED" THEN {g} ELSE {}]
    /\ Matched(r, p)
    /\ UNCHANGED <<database, locks, kind, loaded, todo, activePairs, pending>>

\* The conflicting group is another pair's: ValueError.
RefuseGroup(r, p) ==
    /\ pc[r] = "lock"
    /\ p \in target[r]
    /\ HoldsLegs(r, p)
    /\ \E g \in OnEvents(VisibleGroups(r), Legs(p)) : g[1] # p
    /\ Rollback(r)

-----------------------------------------------------------------------------
(* The operations of a user.  One that is refused at its first SELECT changes *)
(* nothing and is left out.                                                   *)

StartConfirm(r, p) ==
    /\ Begin(r, "confirm", "lock")
    /\ candidate[p] \notin {Absent, "IGNORED"}
    /\ HasLegs(p)
    /\ Load(r, p, candidate[p])
    /\ target' = [target EXCEPT ![r] = {p}]
    /\ UNCHANGED <<database, locks, todo, used, activePairs, pending, edit>>

StartManual(r, p) ==
    /\ Begin(r, "manual", IF candidate[p] = Absent THEN "insert" ELSE "lock")
    /\ HasLegs(p)
    /\ Load(r, p, "CONFIRMED")
    /\ target' = [target EXCEPT ![r] = {p}]
    /\ UNCHANGED <<database, locks, todo, used, activePairs, pending, edit>>

StartUnmatch(r, g) ==
    /\ Begin(r, "unmatch", "reject")
    /\ ActiveStatus(group[g[1]][g[2]])
    /\ target' = [target EXCEPT ![r] = {g[1]}]
    /\ edit' = [edit EXCEPT ![r] = {g}]
    /\ UNCHANGED <<database, locks, loaded, mem, todo, used, activePairs, pending>>

\* Mutant: unmatch leaves the candidate as it was.
RejectCandidateSkipped(r, p) ==
    /\ pc[r] = "reject"
    /\ p \in target[r]
    /\ Load(r, p, candidate[p])
    /\ Goto(r, "commit")
    /\ UNCHANGED <<database, locks, kind, target, todo, used, activePairs, pending, edit>>

\* unmatch goes on to the group's candidate.
RejectCandidate(r, p) ==
    /\ pc[r] = "reject"
    /\ p \in target[r]
    /\ Load(r, p, "REJECTED")
    /\ Goto(r, "commit")
    /\ UNCHANGED <<database, locks, kind, target, todo, used, activePairs, pending, edit>>

StartIgnore(r, p) ==
    /\ Begin(r, "ignore", "ignore")
    /\ candidate[p] # Absent
    /\ Load(r, p, candidate[p])
    /\ target' = [target EXCEPT ![r] = {p}]
    /\ UNCHANGED <<database, locks, todo, used, activePairs, pending, edit>>

IgnoreCandidate(r, p) ==
    /\ pc[r] = "ignore"
    /\ p \in target[r]
    /\ OnEvents(ActiveGroups, Legs(p)) = {}
    /\ mem' = [mem EXCEPT ![r][p] = "IGNORED"]
    /\ Goto(r, "commit")
    /\ UNCHANGED <<database, locks, kind, target, loaded, todo, used, activePairs, pending, edit>>

RefuseIgnore(r, p) ==
    /\ pc[r] = "ignore"
    /\ p \in target[r]
    /\ OnEvents(ActiveGroups, Legs(p)) # {}
    /\ Rollback(r)

-----------------------------------------------------------------------------
(* The end of a transaction. *)

AtCommit(r) == \/ pc[r] = "commit"
               \/ pc[r] = "match" /\ todo[r] = {}

Written(r) == Dirty(r) \cup {p \in Pairs : rowLock[p] = r}

\* Mutant: unmatch gives the group its candidate's new status.
GroupAfterRejected(r, p, i) ==
    IF i = r /\ p \in pending[r] THEN MatchedStatus(r)
    ELSE IF <<p, i>> \in edit[r]
         THEN IF kind[r] = "unmatch" THEN "REJECTED" ELSE "CONFIRMED"
         ELSE group[p][i]

GroupAfter(r, p, i) ==
    IF i = r /\ p \in pending[r] THEN MatchedStatus(r)
    ELSE IF <<p, i>> \in edit[r]
         THEN IF kind[r] = "unmatch" THEN "UNMATCHED" ELSE "CONFIRMED"
         ELSE group[p][i]

Commit(r) ==
    /\ AtCommit(r)
    /\ CanFlush(r)
    /\ candidate' = [p \in Pairs |-> IF p \in Written(r) THEN mem[r][p] ELSE candidate[p]]
    /\ group' = [p \in Pairs |-> [i \in Requests |-> GroupAfter(r, p, i)]]
    /\ Release(r, IF kind[r] = "run" THEN "finish" ELSE "done")
    /\ UNCHANGED <<run, kind>>

\* _finish, in a transaction of its own.
Finish(r) ==
    /\ pc[r] = "finish"
    /\ \E warned \in {FALSE, Ambiguous # {}} :
          run' = [run EXCEPT ![r] = IF warned THEN "PARTIAL" ELSE "SUCCEEDED"]
    /\ Goto(r, "done")
    /\ UNCHANGED <<candidate, group, locks, kind, session>>

FinishFailed(r) ==
    /\ pc[r] = "failed"
    /\ run' = [run EXCEPT ![r] = "FAILED"]
    /\ Goto(r, "done")
    /\ UNCHANGED <<candidate, group, locks, kind, session>>

\* A statement fails: the deadlock detector chose this transaction, or the
\* connection was lost.  The first _finish is inside the try block too.
Abort(r) ==
    /\ Open(r)
    /\ pc[r] # "failed"
    /\ Rollback(r)

\* The server process dies; PostgreSQL undoes what was not committed.
Crash(r) ==
    /\ Open(r)
    /\ Release(r, "crashed")
    /\ UNCHANGED <<database, kind>>

-----------------------------------------------------------------------------
Start(r) ==
    \/ StartRun(r)
    \/ \E p \in Pairs : StartConfirm(r, p) \/ StartManual(r, p) \/ StartIgnore(r, p)
    \/ \E g \in Pairs \X Requests : StartUnmatch(r, g)

Step(r) ==
    \/ \E p \in Pairs :
          \/ Rescore(r, p) \/ ScoreNew(r, p)
          \/ InsertCandidate(r, p) \/ DuplicateCandidate(r, p)
          \/ BlockCandidate(r, p) \/ PickCandidate(r, p)
          \/ InsertGroup(r, p) \/ JoinGroup(r, p) \/ RefuseGroup(r, p)
          \/ RejectCandidate(r, p) \/ IgnoreCandidate(r, p) \/ RefuseIgnore(r, p)
    \/ \E e \in Events : LockEvent(r, e)
    \/ SurveyGroups(r)
    \/ Commit(r)
    \/ Finish(r) \/ FinishFailed(r)

Next == \E r \in Requests : Start(r) \/ Step(r) \/ Abort(r) \/ Crash(r)

Spec == Init /\ [][Next]_vars

\* The rows request r is waiting for, by who holds them.
WaitsFor(r) ==
    {eventLock[e] : e \in IF pc[r] = "lock" THEN UNION {Legs(p) : p \in target[r]} ELSE {}}
    \cup {rowLock[p] : p \in IF pc[r] \in {"insert", "lock", "commit"} \/ AtCommit(r)
                             THEN Dirty(r) ELSE {}}

Deadlocked(r) == \E S \in SUBSET Requests :
                    r \in S /\ \A q \in S : WaitsFor(q) \cap (S \ {q}) # {}

\* A request in progress keeps executing, and PostgreSQL's deadlock detector
\* aborts a transaction of every cycle of waiting ones.
Fairness == \A r \in Requests : /\ WF_vars(Step(r))
                                /\ WF_vars(Deadlocked(r) /\ Abort(r))

FairSpec == Spec /\ Fairness

-----------------------------------------------------------------------------
(* Properties. *)

\* "A ledger event can belong to only one active Transfer Group" (README.md):
\* whatever requests race for it, no event is in two groups that are both
\* auto-matched or confirmed.  Cost basis moves each lot once because of it.
UniqueActive ==
    \A g, h \in ActiveGroups : Legs(g[1]) \cap Legs(h[1]) # {} => g = h

\* Why UniqueActive holds.  Each part is kept by every step only in company of
\* the others.
\* A session that has nothing in flight has no uncommitted group ...
CleanStart ==
    \A r \in Requests :
        /\ pc[r] = "idle" => pending[r] = {} /\ edit[r] = {}
        /\ pc[r] \in {"score", "match"} => kind[r] = "run"
        /\ pc[r] \in {"insert", "lock"} =>
              \/ kind[r] = "run"
              \/ kind[r] \in {"confirm", "manual"} /\ pending[r] = {} /\ edit[r] = {}

\* ... the groups it inserted are on events it holds, that no committed group
\* and no other of its own groups is on ...
PendingProtected ==
    \A r \in Requests : \A p \in pending[r] :
        /\ HoldsLegs(r, p)
        /\ OnEvents(ActiveGroups, Legs(p)) = {}
        /\ \A q \in pending[r] : Legs(p) \cap Legs(q) # {} => p = q

\* ... and the group it is about to confirm is on events it holds, where no other
\* group can become active, even if that group is unmatched in the meantime.
EditProtected ==
    \A r \in Requests : kind[r] \in {"confirm", "manual"} =>
        \A g \in edit[r] :
            /\ HoldsLegs(r, g[1])
            /\ OnEvents(ActiveGroups, Legs(g[1])) \subseteq {g}
            /\ pending[r] = {}
            /\ edit[r] = {g}

\* Only the operations that set a group's status have one to set.
EditKinds == \A r \in Requests : edit[r] # {} => kind[r] \in {"confirm", "manual", "unmatch"}

IInv == /\ TypeOK
        /\ UniqueActive
        /\ CleanStart
        /\ PendingProtected
        /\ EditProtected
        /\ EditKinds

\* How each pair is linked, for the abstract register of links.
LinkOf(p) == IF \E r \in Requests : group[p][r] = "CONFIRMED" THEN "CONFIRMED"
             ELSE IF \E r \in Requests : group[p][r] = "AUTO_MATCHED" THEN "AUTO_MATCHED"
             ELSE "none"

Registry == INSTANCE TransferRegistry WITH link <- [p \in Pairs |-> LinkOf(p)]

\* The sessions, locks and races of this module implement the register: a run
\* only adds links between free events, never weakens a confirmed one, and a
\* link goes only by a user's unmatch.
ImplementsRegistry == Registry!Spec

\* When requests do not overlap, a candidate is marked matched or confirmed
\* exactly while a group of its pair is, whatever sequence of runs, decisions,
\* failures and crashes came before.
CandidateAgreesWithGroup ==
    \A p \in Pairs : \A s \in {"AUTO_MATCHED", "CONFIRMED"} :
        candidate[p] = s <=> \E r \in Requests : group[p][r] = s

RunCommits(r) == kind[r] = "run" /\ AtCommit(r) /\ pc'[r] = "finish"

\* When requests do not overlap, a run leaves no certain pair it scored with both
\* events free, and sets a pair aside only for an older group or for a pair that
\* scores at least as well: "Scores from 90-100 are automatically grouped" and
\* "competing candidates are never allowed to reuse" an event (README.md).
RunIsGreedy ==
    [][\A r \in Requests : RunCommits(r) =>
         \A p \in Pairs :
            mem[r][p] \notin SettledStatuses \cup {Absent} /\ Score(p) >= AutoScore =>
               \E g \in OnEvents(ActiveGroups', Legs(p)) :
                  g \in ActiveGroups \/ Score(g[1]) >= Score(p)]_vars

\* When requests do not overlap, a run overrides no user: candidates confirmed,
\* rejected or ignored stay so, and so does every group.
UserVerdictsStand ==
    [][\A r \in Requests : RunCommits(r) =>
         /\ \A p \in Pairs : candidate[p] \in SettledStatuses => candidate'[p] = candidate[p]
         /\ \A g \in ActiveGroups : group'[g[1]][g[2]] = group[g[1]][g[2]]]_vars

\* Every request that starts ends, and releases what it held: requests that
\* wait for each other's events or candidates do not wait for ever.
EveryRequestEnds == \A r \in Requests : Open(r) ~> ~Open(r)

\* The row of a matching run does not stay RUNNING unless its process died.
RunRowSettles == \A r \in Requests :
    run[r] = "RUNNING" ~> run[r] # "RUNNING" \/ pc[r] = "crashed"
=============================================================================
