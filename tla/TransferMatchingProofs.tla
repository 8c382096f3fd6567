------------------------ MODULE TransferMatchingProofs ------------------------
(***************************************************************************)
(* Proofs about TransferMatching, for any sets of requests and pairs.      *)
(***************************************************************************)
EXTENDS TransferMatching, FiniteSetTheorems, TLAPS

-----------------------------------------------------------------------------
(* Type correctness. *)

\* A pair has legs, and they are events.
LEMMA LegsInEvents ==
    ASSUME NEW p \in Pairs
    PROVE  Legs(p) \subseteq Events /\ Legs(p) # {}
  BY ConstantsAssumption DEF Legs, Events

\* A score gives one of the candidate statuses.
LEMMA StatusForScoreType ==
    ASSUME NEW p
    PROVE  StatusForScore(p) \in CandidateStatus
  BY DEF StatusForScore, CandidateStatus

\* Ending a session leaves every variable its type.
LEMMA ReleaseType ==
    ASSUME TypeOK, NEW r \in Requests, NEW next \in PCs, Release(r, next),
           UNCHANGED <<database, kind>>
    PROVE  TypeOK'
  BY DEF TypeOK, Release, Goto, database, Nothing, Absent, Free

\* The first step of a request keeps the types.
LEMMA StartType ==
    ASSUME TypeOK, NEW r \in Requests, Start(r)
    PROVE  TypeOK'
  <1> USE DEF TypeOK, Begin, Goto, Load, database, locks, PCs, Kinds
  <1>1. CASE StartRun(r)
    BY <1>1 DEF StartRun
  <1>2. ASSUME NEW p \in Pairs, StartConfirm(r, p)
        PROVE  TypeOK'
    BY <1>2 DEF StartConfirm
  <1>3. ASSUME NEW p \in Pairs, StartManual(r, p)
        PROVE  TypeOK'
    BY <1>3 DEF StartManual, CandidateStatus
  <1>4. ASSUME NEW p \in Pairs, StartIgnore(r, p)
        PROVE  TypeOK'
    BY <1>4 DEF StartIgnore
  <1>5. ASSUME NEW g \in Pairs \X Requests, StartUnmatch(r, g)
        PROVE  TypeOK'
    BY <1>5 DEF StartUnmatch
  <1>6. QED
    BY <1>1, <1>2, <1>3, <1>4, <1>5 DEF Start

\* A commit keeps the types.
LEMMA CommitType ==
    ASSUME TypeOK, NEW r \in Requests, Commit(r)
    PROVE  TypeOK'
  <1>1. /\ candidate' \in [Pairs -> CandidateStatus \cup {Absent}]
        /\ run' \in [Requests -> {"RUNNING", "SUCCEEDED", "PARTIAL", "FAILED", Absent}]
        /\ kind' \in [Requests -> Kinds]
    BY DEF TypeOK, Commit
  <1>2. \A p \in Pairs, i \in Requests : GroupAfter(r, p, i) \in GroupStatus \cup {Absent}
    BY DEF TypeOK, GroupAfter, MatchedStatus, GroupStatus
  <1>3. group' \in [Pairs -> [Requests -> GroupStatus \cup {Absent}]]
    BY <1>2 DEF Commit
  <1>4. PICK next \in PCs : Release(r, next)
    BY DEF Commit, PCs
  <1>5. QED
    BY <1>1, <1>3, <1>4 DEF TypeOK, Release, Goto, Nothing, Absent, Free

\* Every step of a request keeps the types.
LEMMA StepType ==
    ASSUME TypeOK, NEW r \in Requests, Step(r)
    PROVE  TypeOK'
  <1> USE DEF TypeOK, Goto, Load, database, locks, session, PCs, Kinds
  <1>1. ASSUME NEW p \in Pairs, Rescore(r, p)
        PROVE  TypeOK'
    BY <1>1, StatusForScoreType DEF Rescore
  <1>2. ASSUME NEW p \in Pairs, ScoreNew(r, p)
        PROVE  TypeOK'
    BY <1>2, StatusForScoreType DEF ScoreNew
  <1>3. ASSUME NEW p \in Pairs, InsertCandidate(r, p)
        PROVE  TypeOK'
    BY <1>3 DEF InsertCandidate, Flush
  <1>4. ASSUME Rollback(r)
        PROVE  TypeOK'
    <2>1. PICK next \in PCs : Release(r, next)
      BY <1>4 DEF Rollback
    <2>2. QED
      BY <1>4, <2>1, ReleaseType DEF Rollback
  <1>5. ASSUME NEW p \in Pairs, BlockCandidate(r, p)
        PROVE  TypeOK'
    BY <1>5 DEF BlockCandidate, IsNext, CandidateStatus
  <1>6. ASSUME NEW p \in Pairs, PickCandidate(r, p)
        PROVE  TypeOK'
    BY <1>6 DEF PickCandidate, IsNext
  <1>7. ASSUME NEW p \in Pairs, Matched(r, p)
        PROVE  /\ mem' \in [Requests -> [Pairs -> CandidateStatus \cup {Absent}]]
               /\ used' \in [Requests -> SUBSET Events]
               /\ target' \in [Requests -> SUBSET Pairs]
               /\ pc' \in [Requests -> PCs]
    BY <1>7, LegsInEvents DEF Matched, MatchedStatus, CandidateStatus
  <1>8. ASSUME NEW p \in Pairs, InsertGroup(r, p)
        PROVE  TypeOK'
    <2>1. rowLock' \in [Pairs -> Requests \cup {Free}]
          /\ loaded' \in [Requests -> [Pairs -> CandidateStatus \cup {Absent}]]
      BY <1>8 DEF InsertGroup, Flush
    <2>2. pending' \in [Requests -> SUBSET Pairs]
      BY <1>8 DEF InsertGroup
    <2>3. QED
      BY <1>7, <1>8, <2>1, <2>2 DEF InsertGroup
  <1>9. ASSUME NEW p \in Pairs, JoinGroup(r, p)
        PROVE  TypeOK'
    <2>1. edit' \in [Requests -> SUBSET (Pairs \X Requests)]
      <3>1. VisibleGroups(r) \subseteq Pairs \X Requests
        BY DEF VisibleGroups, ActiveGroups
      <3>2. QED
        BY <1>9, <3>1 DEF JoinGroup, OnEvents
    <2>2. QED
      BY <1>7, <1>9, <2>1 DEF JoinGroup
  <1>10. ASSUME NEW p \in Pairs, RejectCandidate(r, p)
         PROVE  TypeOK'
    BY <1>10 DEF RejectCandidate, CandidateStatus
  <1>11. ASSUME NEW p \in Pairs, IgnoreCandidate(r, p)
         PROVE  TypeOK'
    BY <1>11 DEF IgnoreCandidate, CandidateStatus
  <1>12. ASSUME NEW e \in Events, LockEvent(r, e)
         PROVE  TypeOK'
    BY <1>12 DEF LockEvent
  <1>13. CASE SurveyGroups(r)
    <2>1. \A g \in ActiveGroups : g[1] \in Pairs /\ Legs(g[1]) \subseteq Events
      BY LegsInEvents DEF ActiveGroups
    <2>2. QED
      BY <1>13, <2>1 DEF SurveyGroups
  <1>14. CASE Finish(r)
    BY <1>14 DEF Finish
  <1>15. CASE FinishFailed(r)
    BY <1>15 DEF FinishFailed
  <1>16. QED
    BY <1>1, <1>2, <1>3, <1>4, <1>5, <1>6, <1>8, <1>9, <1>10, <1>11, <1>12, <1>13, <1>14,
       <1>15, CommitType DEF Step, DuplicateCandidate, RefuseGroup, RefuseIgnore

\* The initial state has the types.
LEMMA TypeInit == Init => TypeOK
  BY ConstantsAssumption DEF Init, TypeOK, Nothing, PCs, Kinds

\* Every step keeps the types.
LEMMA TypeStep == TypeOK /\ [Next]_vars => TypeOK'
  <1> SUFFICES ASSUME TypeOK, [Next]_vars
               PROVE  TypeOK'
    OBVIOUS
  <1>1. CASE UNCHANGED vars
    BY <1>1 DEF TypeOK, vars, database, locks, session
  <1>2. ASSUME NEW r \in Requests, Abort(r) \/ Crash(r)
        PROVE  TypeOK'
    <2>1. PICK next \in PCs : Release(r, next) /\ UNCHANGED <<database, kind>>
      BY <1>2 DEF Abort, Crash, Rollback, PCs
    <2>2. QED
      BY <2>1, ReleaseType
  <1>3. QED
    BY <1>1, <1>2, StartType, StepType DEF Next

\* Every variable keeps its type, for any number of requests, events and pairs.
THEOREM TypeCorrect == Spec => []TypeOK
  BY TypeInit, TypeStep, PTL DEF Spec

-----------------------------------------------------------------------------
(* An event belongs to one active group.                                   *)

\* What one request holds, no other does.
LEMMA HeldApart ==
    ASSUME NEW r, NEW q, r # q,
           NEW p \in Pairs, NEW o \in Pairs,
           HoldsLegs(r, p), HoldsLegs(q, o)
    PROVE  Legs(p) \cap Legs(o) = {}
  BY DEF HoldsLegs

\* What an operation is about to edit is a group.
LEMMA EditedPair ==
    ASSUME TypeOK, NEW q \in Requests, NEW g \in edit[q]
    PROVE  g \in Pairs \X Requests /\ g[1] \in Pairs /\ g[2] \in Requests
  <1>1. edit[q] \subseteq Pairs \X Requests
    BY DEF TypeOK
  <1>2. QED
    BY <1>1

\* The parts of the invariant that speak of sessions.
Sessions == CleanStart /\ PendingProtected /\ EditProtected /\ EditKinds

\* A step that inserts, edits and commits no group, and frees no event, keeps
\* them: the steps of scoring, waiting and deciding.
LEMMA Frame ==
    ASSUME IInv,
           UNCHANGED <<group, kind, pending, edit>>,
           \A e \in Events, r \in Requests : eventLock[e] = r => eventLock'[e] = r,
           CleanStart'
    PROVE  UniqueActive' /\ Sessions'
  <1>1. ActiveGroups' = ActiveGroups
    BY DEF ActiveGroups
  <1>2. \A r \in Requests, p \in Pairs : HoldsLegs(r, p) => HoldsLegs(r, p)'
    BY LegsInEvents DEF HoldsLegs
  <1>3. UniqueActive'
    BY <1>1 DEF IInv, UniqueActive
  <1>5. PendingProtected'
    BY <1>1, <1>2 DEF IInv, PendingProtected, OnEvents, TypeOK
  <1>6. EditProtected'
    <2> SUFFICES ASSUME NEW q \in Requests, kind[q] \in {"confirm", "manual"},
                        NEW g \in edit[q]
                 PROVE  /\ HoldsLegs(q, g[1])'
                        /\ OnEvents(ActiveGroups, Legs(g[1])) \subseteq {g}
                        /\ pending[q] = {}
                        /\ edit[q] = {g}
      BY <1>1 DEF EditProtected, OnEvents
    <2>1. g[1] \in Pairs
      BY EditedPair DEF IInv
    <2>2. QED
      BY <1>2, <2>1 DEF IInv, EditProtected
  <1>7. EditKinds'
    BY DEF IInv, EditKinds
  <1>8. QED
    BY <1>3, <1>5, <1>6, <1>7 DEF Sessions

\* The same for a request that begins: its session was empty.
LEMMA BeginFrame ==
    ASSUME IInv, NEW r \in Requests, NEW k \in Kinds, NEW next \in PCs,
           Begin(r, k, next), next # "idle",
           next \in {"insert", "lock"} => k \in {"confirm", "manual"},
           next \in {"score", "match"} => k = "run",
           UNCHANGED <<group, eventLock, pending>>,
           \/ UNCHANGED edit
           \/ k = "unmatch" /\ \E g \in Pairs \X Requests : edit' = [edit EXCEPT ![r] = {g}]
    PROVE  UniqueActive' /\ Sessions'
  <1> USE DEF Begin, Goto
  <1>1. ActiveGroups' = ActiveGroups
    BY DEF ActiveGroups
  <1>2. \A q \in Requests, p \in Pairs : HoldsLegs(q, p) => HoldsLegs(q, p)'
    BY DEF HoldsLegs
  <1>3. pending[r] = {} /\ edit[r] = {}
    BY DEF IInv, CleanStart
  <1>4. \A q \in Requests \ {r} : kind'[q] = kind[q] /\ pc'[q] = pc[q] /\ edit'[q] = edit[q]
    BY DEF IInv, TypeOK
  <1>5. /\ kind'[r] = k /\ pc'[r] = next
        /\ k # "unmatch" => edit'[r] = {}
    BY <1>3 DEF IInv, TypeOK
  <1>6. UniqueActive'
    BY <1>1 DEF IInv, UniqueActive
  <1>7. CleanStart'
    BY <1>3, <1>4, <1>5 DEF IInv, CleanStart
  <1>8. PendingProtected'
    BY <1>1, <1>2 DEF IInv, PendingProtected, OnEvents, TypeOK
  <1>9. EditProtected'
    <2> SUFFICES ASSUME NEW q \in Requests, kind'[q] \in {"confirm", "manual"},
                        NEW g \in edit'[q]
                 PROVE  /\ HoldsLegs(q, g[1])'
                        /\ OnEvents(ActiveGroups, Legs(g[1])) \subseteq {g}
                        /\ pending[q] = {}
                        /\ edit'[q] = {g}
      BY <1>1 DEF EditProtected, OnEvents
    <2>1. q # r /\ kind[q] \in {"confirm", "manual"} /\ g \in edit[q] /\ edit'[q] = edit[q]
      BY <1>4, <1>5
    <2>2. g[1] \in Pairs
      BY <2>1, EditedPair DEF IInv
    <2>3. QED
      BY <1>2, <2>1, <2>2 DEF IInv, EditProtected
  <1>10. EditKinds'
    BY <1>4, <1>5 DEF IInv, EditKinds
  <1>11. QED
    BY <1>6, <1>7, <1>8, <1>9, <1>10 DEF Sessions

\* The first step of a request keeps the invariant.
LEMMA StartKeeps ==
    ASSUME IInv, NEW r \in Requests, Start(r)
    PROVE  UniqueActive' /\ Sessions'
  <1> USE BeginFrame DEF PCs, Kinds, database, locks
  <1>1. CASE StartRun(r)
    BY <1>1 DEF StartRun
  <1>2. ASSUME NEW p \in Pairs, StartConfirm(r, p)
        PROVE  UniqueActive' /\ Sessions'
    BY <1>2 DEF StartConfirm
  <1>3. ASSUME NEW p \in Pairs, StartManual(r, p)
        PROVE  UniqueActive' /\ Sessions'
    BY <1>3 DEF StartManual
  <1>4. ASSUME NEW p \in Pairs, StartIgnore(r, p)
        PROVE  UniqueActive' /\ Sessions'
    BY <1>4 DEF StartIgnore
  <1>5. ASSUME NEW g \in Pairs \X Requests, StartUnmatch(r, g)
        PROVE  UniqueActive' /\ Sessions'
    BY <1>5 DEF StartUnmatch
  <1>6. QED
    BY <1>1, <1>2, <1>3, <1>4, <1>5 DEF Start

\* The end of a transaction that leaves the groups as they are: a rollback, a crash.
LEMMA ReleaseKeeps ==
    ASSUME IInv, NEW r \in Requests, NEW next \in {"finish", "failed", "done", "crashed"},
           Release(r, next), UNCHANGED <<group, kind>>
    PROVE  UniqueActive' /\ Sessions'
  <1> USE DEF Release, Goto
  <1>1. ActiveGroups' = ActiveGroups
    BY DEF ActiveGroups
  <1>2. \A q \in Requests \ {r}, p \in Pairs : HoldsLegs(q, p) => HoldsLegs(q, p)'
    BY LegsInEvents DEF HoldsLegs
  <1>3. pending'[r] = {} /\ edit'[r] = {} /\ pc'[r] = next
    BY DEF IInv, TypeOK
  <1>4. \A q \in Requests \ {r} : pending'[q] = pending[q] /\ edit'[q] = edit[q] /\ pc'[q] = pc[q]
    BY DEF IInv, TypeOK
  <1>5. UniqueActive'
    BY <1>1 DEF IInv, UniqueActive
  <1>6. CleanStart'
    BY <1>3, <1>4 DEF IInv, CleanStart
  <1>7. PendingProtected'
    BY <1>1, <1>2, <1>3, <1>4 DEF IInv, PendingProtected, OnEvents, TypeOK
  <1>8. EditProtected'
    <2> SUFFICES ASSUME NEW q \in Requests, kind[q] \in {"confirm", "manual"},
                        NEW g \in edit'[q]
                 PROVE  /\ HoldsLegs(q, g[1])'
                        /\ OnEvents(ActiveGroups, Legs(g[1])) \subseteq {g}
                        /\ pending'[q] = {}
                        /\ edit'[q] = {g}
      BY <1>1 DEF EditProtected, OnEvents
    <2>1. q # r /\ g \in edit[q]
      BY <1>3, <1>4
    <2>2. g[1] \in Pairs
      BY <2>1, EditedPair DEF IInv
    <2>3. QED
      BY <1>2, <1>4, <2>1, <2>2 DEF IInv, EditProtected
  <1>9. EditKinds'
    BY <1>3, <1>4 DEF IInv, EditKinds
  <1>10. QED
    BY <1>5, <1>6, <1>7, <1>8, <1>9 DEF Sessions

-----------------------------------------------------------------------------
(* Inserting a group, and taking over the one that is there.               *)

\* A group is inserted on events that are held and free.
LEMMA InsertKeeps ==
    ASSUME IInv, NEW r \in Requests, NEW p \in Pairs, InsertGroup(r, p)
    PROVE  UniqueActive' /\ Sessions'
  <1> USE DEF InsertGroup, Matched, Goto, database
  <1>1. ActiveGroups' = ActiveGroups
    BY DEF ActiveGroups
  <1>2. \A q \in Requests, o \in Pairs : HoldsLegs(q, o) => HoldsLegs(q, o)'
    BY DEF HoldsLegs
  <1>3. /\ pending'[r] = pending[r] \cup {p}
        /\ \A q \in Requests \ {r} : pending'[q] = pending[q] /\ pc'[q] = pc[q]
        /\ pc'[r] \notin {"idle", "insert", "lock", "score"}
        /\ pc'[r] = "match" => kind[r] = "run"
    BY DEF IInv, TypeOK
  <1>4. kind[r] \in {"confirm", "manual"} => edit[r] = {}
    BY DEF IInv, CleanStart
  <1>5. UniqueActive'
    BY <1>1 DEF IInv, UniqueActive
  <1>6. CleanStart'
    BY <1>3 DEF IInv, CleanStart
  <1>7. PendingProtected'
    <2>1. OnEvents(ActiveGroups, Legs(p)) = {}
      BY DEF OnEvents, VisibleGroups
    <2>2. \A q \in pending[r] : Legs(p) \cap Legs(q) = {}
      <3>1. SUFFICES ASSUME NEW q \in pending[r], Legs(q) \cap Legs(p) # {}
                     PROVE  FALSE
        OBVIOUS
      <3>2. <<q, r>> \in VisibleGroups(r)
        BY DEF VisibleGroups
      <3>3. <<q, r>> \in OnEvents(VisibleGroups(r), Legs(p))
        BY <3>1, <3>2 DEF OnEvents
      <3>4. QED
        BY <3>3
    <2>3. HoldsLegs(r, p)
      OBVIOUS
    <2>4. ASSUME NEW q \in Requests, NEW o \in pending'[q]
          PROVE  /\ HoldsLegs(q, o)
                 /\ OnEvents(ActiveGroups, Legs(o)) = {}
                 /\ \A n \in pending'[q] : Legs(o) \cap Legs(n) # {} => o = n
      BY <1>3, <2>1, <2>2, <2>3, <2>4 DEF IInv, PendingProtected
    <2>5. \A q \in Requests : pending'[q] \subseteq Pairs
      BY <1>3 DEF IInv, TypeOK
    <2>6. QED
      BY <1>1, <1>2, <2>4, <2>5 DEF PendingProtected, OnEvents
  <1>8. EditProtected'
    <2> SUFFICES ASSUME NEW q \in Requests, kind[q] \in {"confirm", "manual"},
                        NEW g \in edit[q]
                 PROVE  /\ HoldsLegs(q, g[1])'
                        /\ OnEvents(ActiveGroups, Legs(g[1])) \subseteq {g}
                        /\ pending'[q] = {}
                        /\ edit[q] = {g}
      BY <1>1 DEF EditProtected, OnEvents
    <2>1. q # r
      BY <1>4
    <2>2. g[1] \in Pairs
      BY EditedPair DEF IInv
    <2>3. QED
      BY <1>2, <1>3, <2>1, <2>2 DEF IInv, EditProtected
  <1>9. EditKinds'
    BY DEF IInv, EditKinds
  <1>10. QED
    BY <1>5, <1>6, <1>7, <1>8, <1>9 DEF Sessions

\* and joining a group that is there already.
LEMMA JoinKeeps ==
    ASSUME IInv, NEW r \in Requests, NEW p \in Pairs, JoinGroup(r, p)
    PROVE  UniqueActive' /\ Sessions'
  <1> USE DEF JoinGroup, Matched, Goto, database, locks
  <1>1. PICK g \in OnEvents(VisibleGroups(r), Legs(p)) :
           /\ g[1] = p
           /\ edit' = [edit EXCEPT ![r] =
                         IF kind[r] # "run" /\ group[p][g[2]] # "CONFIRMED" THEN {g} ELSE {}]
    OBVIOUS
  <1>2. ActiveGroups' = ActiveGroups
    BY DEF ActiveGroups
  <1>3. \A q \in Requests, o \in Pairs : HoldsLegs(q, o) => HoldsLegs(q, o)'
    BY DEF HoldsLegs
  <1>4. /\ edit'[r] \subseteq {g}
        /\ kind[r] = "run" => edit'[r] = {}
        /\ \A q \in Requests \ {r} : edit'[q] = edit[q] /\ pc'[q] = pc[q]
        /\ pc'[r] \notin {"idle", "insert", "lock", "score"}
        /\ pc'[r] = "match" => kind[r] = "run"
    <2>1. edit \in [Requests -> SUBSET (Pairs \X Requests)] /\ pc \in [Requests -> PCs]
      BY DEF IInv, TypeOK
    <2>2. pc' = [pc EXCEPT ![r] = IF kind[r] = "run" THEN "match" ELSE "commit"]
      OBVIOUS
    <2> HIDE DEF JoinGroup, Matched, Goto
    <2>3. QED
      BY <1>1, <2>1, <2>2
  <1>5. UniqueActive'
    BY <1>2 DEF IInv, UniqueActive
  <1>6. CleanStart'
    BY <1>4 DEF IInv, CleanStart
  <1>7. PendingProtected'
    BY <1>2, <1>3 DEF IInv, PendingProtected, OnEvents, TypeOK
  <1>8. EditProtected'
    <2> SUFFICES ASSUME NEW q \in Requests, kind[q] \in {"confirm", "manual"},
                        NEW h \in edit'[q]
                 PROVE  /\ HoldsLegs(q, h[1])'
                        /\ OnEvents(ActiveGroups, Legs(h[1])) \subseteq {h}
                        /\ pending[q] = {}
                        /\ edit'[q] = {h}
      BY <1>2 DEF EditProtected, OnEvents
    <2>1. CASE q # r
      <3>1. h \in edit[q] /\ edit'[q] = edit[q]
        BY <1>4, <2>1
      <3>2. h[1] \in Pairs
        BY <3>1, EditedPair DEF IInv
      <3>3. QED
        BY <1>3, <3>1, <3>2 DEF IInv, EditProtected
    <2>2. CASE q = r
      <3>1. h = g /\ edit'[q] = {h} /\ HoldsLegs(q, p)'
        BY <1>3, <1>4, <2>2
      <3>2. pending[r] = {}
        BY <2>2 DEF IInv, CleanStart
      <3>3. g \in ActiveGroups
        BY <1>1, <3>2 DEF OnEvents, VisibleGroups
      <3>4. ASSUME NEW f \in OnEvents(ActiveGroups, Legs(p))
            PROVE  f = g
        <4>1. f \in ActiveGroups /\ Legs(f[1]) \cap Legs(g[1]) # {}
          BY <1>1 DEF OnEvents
        <4>2. QED
          BY <3>3, <4>1 DEF IInv, UniqueActive
      <3>5. QED
        BY <1>1, <2>2, <3>1, <3>2, <3>4
    <2>3. QED
      BY <2>1, <2>2
  <1>9. EditKinds'
    <2>1. kind[r] \in {"run", "confirm", "manual"}
      BY DEF IInv, CleanStart
    <2>2. QED
      BY <1>4, <2>1 DEF IInv, EditKinds
  <1>10. QED
    BY <1>5, <1>6, <1>7, <1>8, <1>9 DEF Sessions

-----------------------------------------------------------------------------
(* The commit.                                                             *)

\* The groups that are active after a commit were active, or are the ones the
\* request inserted or the one it confirmed: all on events it holds.
LEMMA CommittedGroups ==
    ASSUME IInv, NEW r \in Requests, Commit(r), NEW g \in ActiveGroups'
    PROVE  \/ g \in ActiveGroups
           \/ g[2] = r /\ g[1] \in pending[r]
           \/ g \in edit[r] /\ kind[r] \in {"confirm", "manual"}
  <1>1. g \in Pairs \X Requests /\ g = <<g[1], g[2]>> /\ g[1] \in Pairs /\ g[2] \in Requests
    BY DEF ActiveGroups
  <1>2. group'[g[1]][g[2]] = GroupAfter(r, g[1], g[2])
    BY <1>1 DEF Commit
  <1>3. ActiveStatus(GroupAfter(r, g[1], g[2]))
    BY <1>2 DEF ActiveGroups
  <1>4. CASE <<g[1], g[2]>> \in edit[r]
    <2>1. kind[r] # "unmatch" \/ (g[2] = r /\ g[1] \in pending[r])
      BY <1>3, <1>4 DEF GroupAfter, ActiveStatus
    <2>2. kind[r] \in {"confirm", "manual", "unmatch"}
      BY <1>4 DEF IInv, EditKinds
    <2>3. QED
      BY <1>1, <1>4, <2>1, <2>2
  <1>5. CASE <<g[1], g[2]>> \notin edit[r]
    BY <1>1, <1>3, <1>5 DEF GroupAfter, ActiveGroups
  <1>6. QED
    BY <1>4, <1>5

\* A group that becomes active at a commit is on events the request holds, where
\* no group but itself was active.
LEMMA NewGroups ==
    ASSUME IInv, NEW r \in Requests, Commit(r), NEW g \in ActiveGroups', g \notin ActiveGroups
    PROVE  /\ HoldsLegs(r, g[1])
           /\ \A h \in ActiveGroups' : Legs(g[1]) \cap Legs(h[1]) # {} => g = h
  <1>0. g \in Pairs \X Requests /\ g[1] \in Pairs /\ g[2] \in Requests /\ g = <<g[1], g[2]>>
    BY DEF ActiveGroups
  <1>1. CASE g[2] = r /\ g[1] \in pending[r]
    <2>1. HoldsLegs(r, g[1]) /\ OnEvents(ActiveGroups, Legs(g[1])) = {}
      BY <1>1 DEF IInv, PendingProtected
    <2>2. ASSUME NEW h \in ActiveGroups', Legs(g[1]) \cap Legs(h[1]) # {}
          PROVE  g = h
      <3>1. h \notin ActiveGroups
        BY <2>1, <2>2 DEF OnEvents
      <3>2. h \notin edit[r] \/ kind[r] \notin {"confirm", "manual"}
        BY <1>1 DEF IInv, EditProtected
      <3>3. h[2] = r /\ h[1] \in pending[r]
        BY <3>1, <3>2, CommittedGroups
      <3>4. g[1] = h[1]
        BY <1>1, <2>2, <3>3 DEF IInv, PendingProtected
      <3>5. h = <<h[1], h[2]>>
        BY DEF ActiveGroups
      <3>6. QED
        BY <1>0, <1>1, <3>3, <3>4, <3>5
    <2>3. QED
      BY <2>1, <2>2
  <1>2. CASE g \in edit[r] /\ kind[r] \in {"confirm", "manual"}
    <2>1. /\ HoldsLegs(r, g[1])
          /\ OnEvents(ActiveGroups, Legs(g[1])) \subseteq {g}
          /\ pending[r] = {}
          /\ edit[r] = {g}
      BY <1>2 DEF IInv, EditProtected
    <2>2. ASSUME NEW h \in ActiveGroups', Legs(g[1]) \cap Legs(h[1]) # {}
          PROVE  g = h
      <3>1. CASE h \in ActiveGroups
        <4>1. h \in OnEvents(ActiveGroups, Legs(g[1]))
          BY <2>2, <3>1 DEF OnEvents
        <4>2. QED
          BY <2>1, <4>1
      <3>2. CASE h \notin ActiveGroups
        BY <2>1, <3>2, CommittedGroups
      <3>3. QED
        BY <3>1, <3>2
    <2>3. QED
      BY <2>1, <2>2
  <1>3. QED
    BY <1>1, <1>2, CommittedGroups

\* A commit keeps the invariant: what it writes is on events it has locked.
LEMMA CommitKeeps ==
    ASSUME IInv, NEW r \in Requests, Commit(r)
    PROVE  UniqueActive' /\ Sessions'
  <1>0. PICK next \in {"finish", "done"} : Release(r, next) /\ UNCHANGED kind
    BY DEF Commit
  <1> USE DEF Release, Goto
  <1>1. \A q \in Requests \ {r}, p \in Pairs : HoldsLegs(q, p) => HoldsLegs(q, p)'
    BY <1>0, LegsInEvents DEF HoldsLegs
  <1>2. pending'[r] = {} /\ edit'[r] = {} /\ pc'[r] = next
    BY <1>0 DEF IInv, TypeOK
  <1>3. \A q \in Requests \ {r} : pending'[q] = pending[q] /\ edit'[q] = edit[q] /\ pc'[q] = pc[q]
    BY <1>0 DEF IInv, TypeOK
  <1>4. UniqueActive'
    <2> SUFFICES ASSUME NEW g \in ActiveGroups', NEW h \in ActiveGroups',
                        Legs(g[1]) \cap Legs(h[1]) # {}
                 PROVE  g = h
      BY DEF UniqueActive
    <2>1. CASE g \in ActiveGroups /\ h \in ActiveGroups
      BY <2>1 DEF IInv, UniqueActive
    <2>2. CASE g \notin ActiveGroups
      BY <2>2, NewGroups
    <2>3. CASE h \notin ActiveGroups
      <3>1. Legs(h[1]) \cap Legs(g[1]) # {}
        OBVIOUS
      <3>2. QED
        BY <2>3, <3>1, NewGroups
    <2>4. QED
      BY <2>1, <2>2, <2>3
  \* Seen from another request, the events it holds gain no group.
  <1>5. ASSUME NEW q \in Requests \ {r}, NEW p \in Pairs, HoldsLegs(q, p),
               NEW g \in OnEvents(ActiveGroups', Legs(p))
        PROVE  g \in OnEvents(ActiveGroups, Legs(p))
    <2>1. g \in ActiveGroups' /\ g[1] \in Pairs /\ Legs(g[1]) \cap Legs(p) # {}
      BY DEF OnEvents, ActiveGroups
    <2>2. g \in ActiveGroups
      <3>1. SUFFICES ASSUME g \notin ActiveGroups
                     PROVE  FALSE
        OBVIOUS
      <3>2. HoldsLegs(r, g[1])
        BY <2>1, <3>1, NewGroups
      <3>3. QED
        BY <1>5, <2>1, <3>2, HeldApart
    <2>3. QED
      BY <2>1, <2>2 DEF OnEvents
  <1>6. CleanStart'
    BY <1>0, <1>2, <1>3 DEF IInv, CleanStart
  <1>7. PendingProtected'
    <2> SUFFICES ASSUME NEW q \in Requests, NEW p \in pending'[q]
                 PROVE  /\ HoldsLegs(q, p)'
                        /\ OnEvents(ActiveGroups', Legs(p)) = {}
                        /\ \A o \in pending'[q] : Legs(p) \cap Legs(o) # {} => p = o
      BY DEF PendingProtected, OnEvents
    <2>1. q # r /\ p \in pending[q] /\ pending'[q] = pending[q]
      BY <1>2, <1>3
    <2>2. p \in Pairs
      BY <2>1 DEF IInv, TypeOK
    <2>3. /\ HoldsLegs(q, p)
          /\ OnEvents(ActiveGroups, Legs(p)) = {}
          /\ \A o \in pending[q] : Legs(p) \cap Legs(o) # {} => p = o
      BY <2>1 DEF IInv, PendingProtected
    <2>4. QED
      BY <1>1, <1>5, <2>1, <2>2, <2>3
  <1>8. EditProtected'
    <2> SUFFICES ASSUME NEW q \in Requests, kind[q] \in {"confirm", "manual"},
                        NEW g \in edit'[q]
                 PROVE  /\ HoldsLegs(q, g[1])'
                        /\ OnEvents(ActiveGroups', Legs(g[1])) \subseteq {g}
                        /\ pending'[q] = {}
                        /\ edit'[q] = {g}
      BY <1>0 DEF EditProtected, OnEvents
    <2>1. q # r /\ g \in edit[q] /\ pending'[q] = pending[q] /\ edit'[q] = edit[q]
      BY <1>2, <1>3
    <2>2. g[1] \in Pairs
      BY <2>1, EditedPair DEF IInv
    <2>3. /\ HoldsLegs(q, g[1])
          /\ OnEvents(ActiveGroups, Legs(g[1])) \subseteq {g}
          /\ pending[q] = {}
          /\ edit[q] = {g}
      BY <2>1 DEF IInv, EditProtected
    <2>4. QED
      BY <1>1, <1>5, <2>1, <2>2, <2>3
  <1>9. EditKinds'
    BY <1>0, <1>2, <1>3 DEF IInv, EditKinds
  <1>10. QED
    BY <1>4, <1>6, <1>7, <1>8, <1>9 DEF Sessions

-----------------------------------------------------------------------------
\* Every step of a request keeps the invariant.
LEMMA StepKeeps ==
    ASSUME IInv, NEW r \in Requests, Step(r)
    PROVE  UniqueActive' /\ Sessions'
  <1> USE DEF Goto, database, locks, session
  <1>t. /\ pc \in [Requests -> PCs]
        /\ eventLock \in [Events -> Requests \cup {Free}]
        /\ Free \notin Requests
        /\ pc[r] \in {"score", "match"} => kind[r] = "run"
    BY ConstantsAssumption DEF IInv, TypeOK, Free, CleanStart
  \* Steps that leave groups, edits and event locks alone.
  <1>1. ASSUME UNCHANGED <<group, kind, pending, edit, eventLock>>,
               \/ UNCHANGED pc
               \/ \E next \in {"score", "match", "insert", "lock", "commit", "done"} :
                     /\ pc' = [pc EXCEPT ![r] = next]
                     /\ next \in {"score", "match"} => kind[r] = "run"
                     /\ next \in {"insert", "lock"} =>
                           kind[r] = "run" \/ pc[r] \in {"insert", "lock"}
        PROVE  UniqueActive' /\ Sessions'
    <2>1. CleanStart'
      BY <1>t, <1>1 DEF IInv, CleanStart
    <2>2. QED
      BY <1>1, <2>1, Frame
  <1>2. ASSUME NEW p \in Pairs, Rescore(r, p)
        PROVE  UniqueActive' /\ Sessions'
    BY <1>1, <1>2 DEF Rescore
  <1>3. ASSUME NEW p \in Pairs, ScoreNew(r, p)
        PROVE  UniqueActive' /\ Sessions'
    BY <1>t, <1>1, <1>3 DEF ScoreNew
  <1>4. ASSUME NEW p \in Pairs, InsertCandidate(r, p)
        PROVE  UniqueActive' /\ Sessions'
    BY <1>1, <1>4 DEF InsertCandidate
  <1>5. ASSUME NEW p \in Pairs, BlockCandidate(r, p)
        PROVE  UniqueActive' /\ Sessions'
    BY <1>1, <1>5 DEF BlockCandidate
  <1>6. ASSUME NEW p \in Pairs, PickCandidate(r, p)
        PROVE  UniqueActive' /\ Sessions'
    BY <1>t, <1>1, <1>6 DEF PickCandidate, IsNext
  <1>7. ASSUME NEW p \in Pairs, RejectCandidate(r, p) \/ IgnoreCandidate(r, p)
        PROVE  UniqueActive' /\ Sessions'
    BY <1>1, <1>7 DEF RejectCandidate, IgnoreCandidate
  <1>8. CASE SurveyGroups(r)
    BY <1>t, <1>1, <1>8 DEF SurveyGroups
  <1>9. CASE Finish(r) \/ FinishFailed(r)
    BY <1>1, <1>9 DEF Finish, FinishFailed
  \* Acquiring an event takes it from nobody.
  <1>10. ASSUME NEW e \in Events, LockEvent(r, e)
         PROVE  UniqueActive' /\ Sessions'
    <2>1. \A f \in Events, q \in Requests : eventLock[f] = q => eventLock'[f] = q
      BY <1>t, <1>10 DEF LockEvent
    <2>2. UNCHANGED <<group, kind, pending, edit, pc>>
      BY <1>10 DEF LockEvent
    <2>3. CleanStart'
      BY <2>2 DEF IInv, CleanStart
    <2>4. QED
      BY <2>1, <2>2, <2>3, Frame
  <1>11. ASSUME Rollback(r)
         PROVE  UniqueActive' /\ Sessions'
    BY <1>11, ReleaseKeeps DEF Rollback
  <1>12. QED
    BY <1>2, <1>3, <1>4, <1>5, <1>6, <1>7, <1>8, <1>9, <1>10, <1>11, InsertKeeps, JoinKeeps,
       CommitKeeps DEF Step, DuplicateCandidate, RefuseGroup, RefuseIgnore

\* The invariant is inductive.
LEMMA Inductive == IInv /\ [Next]_vars => IInv'
  <1> SUFFICES ASSUME IInv, [Next]_vars
               PROVE  UniqueActive' /\ Sessions' /\ TypeOK'
    BY DEF IInv, Sessions
  <1>1. TypeOK'
    BY TypeStep DEF IInv
  <1>2. CASE UNCHANGED vars
    <2>1. UNCHANGED <<group, kind, pc, pending, edit, eventLock>>
      BY <1>2 DEF vars, database, locks, session
    <2>2. CleanStart'
      BY <2>1 DEF IInv, CleanStart
    <2>3. QED
      BY <1>1, <2>1, <2>2, Frame
  <1>3. ASSUME NEW r \in Requests, Abort(r) \/ Crash(r)
        PROVE  UniqueActive' /\ Sessions'
    BY <1>3, ReleaseKeeps DEF Abort, Crash, Rollback, database
  <1>4. QED
    BY <1>1, <1>2, <1>3, StartKeeps, StepKeeps DEF Next

\* and holds at first.
LEMMA InvariantInit == Init => IInv
  <1>1. Init => TypeOK
    BY TypeInit
  <1>2. Init => ActiveGroups = {}
    BY DEF Init, ActiveGroups, ActiveStatus, Absent
  <1>3. QED
    BY <1>1, <1>2 DEF Init, IInv, UniqueActive, CleanStart, PendingProtected,
       EditProtected, EditKinds

\* A ledger event belongs to one active group, for any number of concurrent
\* runs and user operations, whatever aborts or crashes.
THEOREM EventInOneActiveGroup == Spec => []UniqueActive
  <1>1. IInv => UniqueActive
    BY DEF IInv
  <1>2. QED
    BY <1>1, InvariantInit, Inductive, PTL DEF Spec

-----------------------------------------------------------------------------
(* The register of links.                                                  *)

\* A user's request has one group at most to insert or to change.
OneLink ==
    \A r \in Requests : kind[r] # "run" =>
        /\ \A p, q \in pending[r] : p = q
        /\ kind[r] \in {"unmatch", "ignore"} => pending[r] = {}
        /\ \A g, h \in edit[r] : g = h

\* It is empty until the request has a pair, and again when its session ends.
LEMMA OneLinkStep == IInv /\ OneLink /\ [Next]_vars => OneLink'
<1> SUFFICES ASSUME IInv, OneLink, [Next]_vars
             PROVE  OneLink'
  OBVIOUS
<1>t. /\ kind \in [Requests -> Kinds] /\ pending \in [Requests -> SUBSET Pairs]
      /\ edit \in [Requests -> SUBSET (Pairs \X Requests)] /\ pc \in [Requests -> PCs]
  BY DEF IInv, TypeOK
<1>1. ASSUME UNCHANGED <<kind, pending, edit>>
      PROVE  OneLink'
  BY <1>1 DEF OneLink
\* A request that begins has no group yet.
<1>2. ASSUME NEW r \in Requests, NEW k \in Kinds, NEW next, Begin(r, k, next), UNCHANGED pending,
             UNCHANGED edit \/ \E g : edit' = [edit EXCEPT ![r] = {g}]
      PROVE  OneLink'
  <2>1. pending[r] = {} /\ edit[r] = {}
    BY <1>2 DEF IInv, CleanStart, Begin
  <2>2. \A g, h \in edit'[r] : g = h
    BY <1>t, <1>2, <2>1
  <2>3. \A q \in Requests \ {r} : kind'[q] = kind[q] /\ pending'[q] = pending[q] /\ edit'[q] = edit[q]
    BY <1>t, <1>2 DEF Begin
  <2> QED
    BY <1>2, <2>1, <2>2, <2>3 DEF OneLink
<1>3. ASSUME NEW r \in Requests, NEW next, Release(r, next), UNCHANGED kind
      PROVE  OneLink'
  <2>1. pending'[r] = {} /\ edit'[r] = {}
    BY <1>t, <1>3 DEF Release
  <2>2. \A q \in Requests \ {r} : pending'[q] = pending[q] /\ edit'[q] = edit[q]
    BY <1>t, <1>3 DEF Release
  <2> QED
    BY <1>3, <2>1, <2>2 DEF OneLink
<1>4. ASSUME NEW r \in Requests, NEW p \in Pairs, InsertGroup(r, p)
      PROVE  OneLink'
  <2>1. kind[r] = "run" \/ (kind[r] \in {"confirm", "manual"} /\ pending[r] = {})
    BY <1>4 DEF IInv, CleanStart, InsertGroup
  <2>2. /\ pending'[r] = pending[r] \cup {p} /\ kind' = kind /\ edit' = edit
        /\ \A q \in Requests \ {r} : pending'[q] = pending[q]
    BY <1>t, <1>4 DEF InsertGroup
  <2> QED
    BY <2>1, <2>2 DEF OneLink
<1>5. ASSUME NEW r \in Requests, NEW p \in Pairs, JoinGroup(r, p)
      PROVE  OneLink'
  <2>1. PICK g : edit' = [edit EXCEPT ![r] =
                   IF kind[r] # "run" /\ group[p][g[2]] # "CONFIRMED" THEN {g} ELSE {}]
    BY <1>5 DEF JoinGroup
  <2>2. kind' = kind /\ pending' = pending
    BY <1>5 DEF JoinGroup
  <2>3. \A f, h \in edit'[r] : f = h
    BY <1>t, <2>1
  <2>4. \A q \in Requests \ {r} : edit'[q] = edit[q]
    BY <1>t, <2>1
  <2> QED
    BY <2>2, <2>3, <2>4 DEF OneLink
<1>6. ASSUME NEW r \in Requests, Rollback(r)
      PROVE  OneLink'
  BY <1>3, <1>6 DEF Rollback
<1>7. ASSUME NEW r \in Requests, Start(r)
      PROVE  OneLink'
  <2> USE DEF Kinds
  <2>1. CASE StartRun(r)
    BY <1>2, <2>1 DEF StartRun
  <2>2. ASSUME NEW p \in Pairs, StartConfirm(r, p) \/ StartIgnore(r, p)
        PROVE  OneLink'
    BY <1>2, <2>2 DEF StartConfirm, StartIgnore
  <2>3. ASSUME NEW p \in Pairs, StartManual(r, p)
        PROVE  OneLink'
    BY <1>2, <2>3 DEF StartManual
  <2>4. ASSUME NEW g \in Pairs \X Requests, StartUnmatch(r, g)
        PROVE  OneLink'
    BY <1>2, <2>4 DEF StartUnmatch
  <2> QED
    BY <1>7, <2>1, <2>2, <2>3, <2>4 DEF Start
<1>8. ASSUME NEW r \in Requests, Step(r)
      PROVE  OneLink'
  <2> USE DEF session
  <2>1. ASSUME NEW p \in Pairs, \/ Rescore(r, p) \/ ScoreNew(r, p) \/ InsertCandidate(r, p)
                                \/ BlockCandidate(r, p) \/ PickCandidate(r, p)
                                \/ RejectCandidate(r, p) \/ IgnoreCandidate(r, p)
        PROVE  OneLink'
    BY <1>1, <2>1 DEF Rescore, ScoreNew, InsertCandidate, BlockCandidate, PickCandidate,
                      RejectCandidate, IgnoreCandidate
  <2>2. ASSUME NEW e \in Events, LockEvent(r, e)
        PROVE  OneLink'
    BY <1>1, <2>2 DEF LockEvent
  <2>3. CASE SurveyGroups(r) \/ Finish(r) \/ FinishFailed(r)
    BY <1>1, <2>3 DEF SurveyGroups, Finish, FinishFailed
  <2>4. CASE Commit(r)
    BY <1>3, <2>4 DEF Commit
  <2> QED
    BY <1>4, <1>5, <1>6, <1>8, <2>1, <2>2, <2>3, <2>4
       DEF Step, DuplicateCandidate, RefuseGroup, RefuseIgnore
<1>9. ASSUME NEW r \in Requests, Abort(r) \/ Crash(r)
      PROVE  OneLink'
  BY <1>3, <1>6, <1>9 DEF Abort, Crash
<1>10. CASE UNCHANGED vars
  BY <1>1, <1>10 DEF vars, session
<1> QED
  BY <1>7, <1>8, <1>9, <1>10 DEF Next

\* A pair is linked while a group of it is active.
LEMMA LinkIs ==
    ASSUME NEW p \in Pairs
    PROVE  /\ LinkOf(p) # "none" <=> \E r \in Requests : <<p, r>> \in ActiveGroups
           /\ LinkOf(p) \in {"none", "AUTO_MATCHED", "CONFIRMED"}
<1>1. \A r \in Requests : <<p, r>> \in ActiveGroups <=> group[p][r] \in {"AUTO_MATCHED", "CONFIRMED"}
  BY DEF ActiveGroups, ActiveStatus
<1> QED
  BY <1>1 DEF LinkOf

\* The one active group of a pair says how it is linked.
LEMMA LinkOfGroup ==
    ASSUME UniqueActive, NEW p \in Pairs, NEW r \in Requests, <<p, r>> \in ActiveGroups
    PROVE  LinkOf(p) = group[p][r]
<1>1. ASSUME NEW i \in Requests, <<p, i>> \in ActiveGroups
      PROVE  i = r
  <2>1. Legs(p) # {}
    BY LegsInEvents
  <2>2. Legs(<<p, i>>[1]) \cap Legs(<<p, r>>[1]) # {}
    BY <2>1
  <2>3. <<p, i>> = <<p, r>>
    BY <1>1, <2>2 DEF UniqueActive
  <2> QED
    BY <2>3
<1>2. \A i \in Requests : group[p][i] \in {"AUTO_MATCHED", "CONFIRMED"} => <<p, i>> \in ActiveGroups
  BY DEF ActiveGroups, ActiveStatus
<1>3. group[p][r] \in {"AUTO_MATCHED", "CONFIRMED"}
  BY DEF ActiveGroups, ActiveStatus
<1> QED
  BY <1>1, <1>2, <1>3 DEF LinkOf

\* Linked pairs share no event.
LEMMA LinksDisjoint ==
    ASSUME UniqueActive, NEW p \in Pairs, NEW q \in Pairs,
           LinkOf(p) # "none", LinkOf(q) # "none", Legs(p) \cap Legs(q) # {}
    PROVE  p = q
<1>1. PICK i \in Requests : <<p, i>> \in ActiveGroups
  BY LinkIs
<1>2. PICK j \in Requests : <<q, j>> \in ActiveGroups
  BY LinkIs
<1>3. Legs(<<p, i>>[1]) \cap Legs(<<q, j>>[1]) # {}
  OBVIOUS
<1>4. <<p, i>> = <<q, j>>
  BY <1>1, <1>2, <1>3 DEF UniqueActive
<1> QED
  BY <1>4

\* What an active group says of the link of its pair, before and after a step.
LinkFacts ==
    UniqueActive => \A p \in Pairs :
        /\ LinkOf(p) # "none" <=> \E r \in Requests : <<p, r>> \in ActiveGroups
        /\ LinkOf(p) \in {"none", "AUTO_MATCHED", "CONFIRMED"}
        /\ \A r \in Requests : <<p, r>> \in ActiveGroups => LinkOf(p) = group[p][r]
        /\ \A q \in Pairs :
             LinkOf(p) # "none" /\ LinkOf(q) # "none" /\ Legs(p) \cap Legs(q) # {} => p = q

\* The facts hold of any groups, so before a step and after it.
LEMMA LinksAre == LinkFacts /\ LinkFacts'
<1>1. LinkFacts
  BY LinkIs, LinkOfGroup, LinksDisjoint DEF LinkFacts
<1> QED
  BY <1>1, PTL

\* A commit links pairs that are free, confirms one, dissolves one, or does nothing.
LEMMA CommitLinks ==
    ASSUME IInv, OneLink, NEW r \in Requests, Commit(r)
    PROVE  [Registry!Next]_([p \in Pairs |-> LinkOf(p)])
<1> DEFINE links == [p \in Pairs |-> LinkOf(p)]
<1>1. UniqueActive /\ UniqueActive'
  BY CommitKeeps DEF IInv
<1>2. \A p \in Pairs :
        /\ LinkOf(p) # "none" <=> \E i \in Requests : <<p, i>> \in ActiveGroups
        /\ \A i \in Requests : <<p, i>> \in ActiveGroups => LinkOf(p) = group[p][i]
  BY <1>1, LinksAre DEF LinkFacts
<1>3. \A p \in Pairs :
        /\ LinkOf(p)' # "none" <=> \E i \in Requests : <<p, i>> \in ActiveGroups'
        /\ \A i \in Requests : <<p, i>> \in ActiveGroups' => LinkOf(p)' = group'[p][i]
        /\ \A q \in Pairs :
             LinkOf(p)' # "none" /\ LinkOf(q)' # "none" /\ Legs(p) \cap Legs(q) # {} => p = q
  BY <1>1, LinksAre DEF LinkFacts
<1>4. \A p \in Pairs, i \in Requests :
        /\ group'[p][i] = GroupAfter(r, p, i)
        /\ <<p, i>> \in ActiveGroups <=> group[p][i] \in {"AUTO_MATCHED", "CONFIRMED"}
        /\ <<p, i>> \in ActiveGroups' <=> group'[p][i] \in {"AUTO_MATCHED", "CONFIRMED"}
  BY DEF Commit, ActiveGroups, ActiveStatus
<1>5. /\ pending[r] \subseteq Pairs /\ edit[r] \subseteq Pairs \X Requests
      /\ edit[r] # {} => kind[r] \in {"confirm", "manual", "unmatch"}
      /\ kind[r] \in Kinds
  BY DEF IInv, TypeOK, EditKinds
<1>6. \A p \in pending[r], i \in Requests : <<p, i>> \notin ActiveGroups
  <2> SUFFICES ASSUME NEW p \in pending[r], NEW i \in Requests, <<p, i>> \in ActiveGroups
               PROVE  FALSE
    OBVIOUS
  <2>1. <<p, i>> \in OnEvents(ActiveGroups, Legs(p))
    BY <1>5, LegsInEvents DEF OnEvents
  <2> QED
    BY <2>1 DEF IInv, PendingProtected
\* The groups of the pairs it does not touch are as they were, and so are the links.
<1>7. ASSUME NEW p \in Pairs, p \notin pending[r], \A i \in Requests : <<p, i>> \notin edit[r]
      PROVE  LinkOf(p)' = LinkOf(p)
  <2>1. \A i \in Requests : group'[p][i] = group[p][i]
    BY <1>4, <1>7 DEF GroupAfter
  <2> QED
    BY <2>1 DEF LinkOf
\* A group it inserts links its pair.
<1>8. ASSUME NEW p \in pending[r]
      PROVE  LinkOf(p)' = MatchedStatus(r) /\ LinkOf(p) = "none"
  <2>1. p \in Pairs
    BY <1>5
  <2>2. group'[p][r] = MatchedStatus(r)
    BY <1>4, <2>1 DEF GroupAfter
  <2>3. <<p, r>> \in ActiveGroups'
    BY <1>4, <2>1, <2>2 DEF MatchedStatus
  <2> QED
    BY <1>2, <1>3, <1>6, <2>1, <2>2, <2>3
<1>9. CASE kind[r] = "run"
  <2> DEFINE S == pending[r]
  <2>1. edit[r] = {} /\ MatchedStatus(r) = "AUTO_MATCHED"
    BY <1>5, <1>9 DEF MatchedStatus
  <2>2. links' = [p \in Pairs |-> IF p \in S THEN "AUTO_MATCHED" ELSE links[p]]
    BY <1>7, <1>8, <2>1
  <2>3. S \cap Registry!Linked(links) = {}
    BY <1>8 DEF Registry!Linked
  <2>4. Registry!Disjoint(Registry!Linked(links'))
    BY <1>3 DEF Registry!Disjoint, Registry!Linked
  <2>5. Registry!AutoMatch(S)
    BY <2>2, <2>3, <2>4 DEF Registry!AutoMatch
  <2> QED
    BY <1>5, <2>5 DEF Registry!Next
<1>10. CASE kind[r] = "unmatch" /\ edit[r] # {}
  <2>1. PICK g \in edit[r] : TRUE
    BY <1>10
  <2>2. edit[r] = {g} /\ pending[r] = {}
    BY <1>10, <2>1 DEF OneLink
  <2>3. PICK p \in Pairs, i \in Requests : g = <<p, i>>
    BY <1>5, <2>1
  <2>4. group'[p][i] = "UNMATCHED"
    BY <1>4, <1>10, <2>2, <2>3 DEF GroupAfter
  <2>5. \A j \in Requests : j # i => group'[p][j] = group[p][j]
    BY <1>4, <2>2, <2>3 DEF GroupAfter
  <2>6. \A q \in Pairs : q # p => LinkOf(q)' = LinkOf(q)
    BY <1>7, <2>2, <2>3
  <2>7. CASE <<p, i>> \in ActiveGroups
    <3>1. ASSUME NEW j \in Requests, <<p, j>> \in ActiveGroups'
          PROVE  FALSE
      <4>1. j # i
        BY <1>4, <2>4, <3>1
      <4>2. <<p, j>> \in ActiveGroups
        BY <1>4, <2>5, <3>1, <4>1
      <4>3. Legs(<<p, j>>[1]) \cap Legs(<<p, i>>[1]) # {}
        BY LegsInEvents
      <4>4. <<p, j>> = <<p, i>>
        BY <1>1, <2>7, <4>2, <4>3 DEF UniqueActive
      <4> QED
        BY <4>1, <4>4
    <3>2. LinkOf(p)' = "none"
      BY <1>3, <3>1
    <3>3. links' = [links EXCEPT ![p] = "none"]
      BY <2>6, <3>2
    <3> QED
      BY <3>3 DEF Registry!Next, Registry!Unmatch
  <2>8. CASE <<p, i>> \notin ActiveGroups
    <3>1. group[p][i] \notin {"AUTO_MATCHED", "CONFIRMED"}
      BY <1>4, <2>8
    <3>2. \A j \in Requests, s \in {"AUTO_MATCHED", "CONFIRMED"} : group'[p][j] = s <=> group[p][j] = s
      BY <2>4, <2>5, <3>1
    <3>3. LinkOf(p)' = LinkOf(p)
      BY <3>2 DEF LinkOf
    <3> QED
      BY <2>6, <3>3
  <2> QED
    BY <2>7, <2>8
<1>11. CASE kind[r] \in {"confirm", "manual"} /\ edit[r] # {}
  <2>1. PICK g \in edit[r] : TRUE
    BY <1>11
  <2>2. edit[r] = {g} /\ pending[r] = {}
    BY <1>11, <2>1 DEF IInv, EditProtected
  <2>3. PICK p \in Pairs, i \in Requests : g = <<p, i>>
    BY <1>5, <2>1
  <2>4. group'[p][i] = "CONFIRMED"
    BY <1>4, <1>11, <2>2, <2>3 DEF GroupAfter
  <2>5. LinkOf(p)' = "CONFIRMED"
    BY <1>3, <1>4, <2>4
  <2>6. \A q \in Pairs : q # p => LinkOf(q)' = LinkOf(q)
    BY <1>7, <2>2, <2>3
  <2>7. links' = [links EXCEPT ![p] = "CONFIRMED"]
    BY <2>5, <2>6
  <2>8. Registry!Disjoint(Registry!Linked(links'))
    BY <1>3 DEF Registry!Disjoint, Registry!Linked
  <2> QED
    BY <2>7, <2>8 DEF Registry!Next, Registry!Confirm
<1>12. CASE kind[r] # "run" /\ edit[r] = {} /\ pending[r] # {}
  <2>1. PICK p \in pending[r] : TRUE
    BY <1>12
  <2>2. pending[r] = {p} /\ MatchedStatus(r) = "CONFIRMED" /\ p \in Pairs
    BY <1>5, <1>12, <2>1 DEF OneLink, MatchedStatus
  <2>3. LinkOf(p)' = "CONFIRMED"
    BY <1>8, <2>1, <2>2
  <2>4. \A q \in Pairs : q # p => LinkOf(q)' = LinkOf(q)
    BY <1>7, <1>12, <2>2
  <2>5. links' = [links EXCEPT ![p] = "CONFIRMED"]
    BY <2>3, <2>4
  <2>6. Registry!Disjoint(Registry!Linked(links'))
    BY <1>3 DEF Registry!Disjoint, Registry!Linked
  <2> QED
    BY <2>2, <2>5, <2>6 DEF Registry!Next, Registry!Confirm
<1>13. CASE edit[r] = {} /\ pending[r] = {}
  BY <1>7, <1>13
<1> QED
  BY <1>5, <1>9, <1>10, <1>11, <1>12, <1>13

\* Every other step leaves the links as they are.
LEMMA OtherLinks ==
    ASSUME group' = group
    PROVE  [p \in Pairs |-> LinkOf(p)]' = [p \in Pairs |-> LinkOf(p)]
BY DEF LinkOf

\* The sessions, locks and races implement the register of links: what cost basis
\* and dashboard read of transfers (_create_group, unmatch, confirm).
THEOREM MatchingKeepsRegistry == Spec => ImplementsRegistry
<1>1. Init => Registry!Init
  BY DEF Init, Registry!Init, LinkOf, Absent
<1>2. IInv /\ OneLink /\ [Next]_vars => [Registry!Next]_([p \in Pairs |-> LinkOf(p)])
  <2> SUFFICES ASSUME IInv, OneLink, [Next]_vars
               PROVE  [Registry!Next]_([p \in Pairs |-> LinkOf(p)])
    OBVIOUS
  <2> USE DEF database
  <2>1. CASE group' = group
    BY <2>1, OtherLinks
  <2>2. ASSUME NEW r \in Requests, Start(r) \/ Abort(r) \/ Crash(r)
        PROVE  group' = group
    BY <2>2 DEF Start, StartRun, StartConfirm, StartManual, StartIgnore, StartUnmatch,
                Abort, Crash, Rollback
  <2>3. ASSUME NEW r \in Requests, Step(r), ~ Commit(r)
        PROVE  group' = group
    BY <2>3 DEF Step, Rescore, ScoreNew, InsertCandidate, DuplicateCandidate, BlockCandidate,
                PickCandidate, InsertGroup, JoinGroup, RefuseGroup, RejectCandidate,
                IgnoreCandidate, RefuseIgnore, LockEvent, SurveyGroups, Finish, FinishFailed,
                Rollback
  <2>4. CASE UNCHANGED vars
    BY <2>4, <2>1 DEF vars
  <2> QED
    BY <2>1, <2>2, <2>3, <2>4, CommitLinks DEF Next
<1>3. Init => IInv /\ OneLink
  <2>1. Init => IInv
    BY InvariantInit
  <2>2. Init => OneLink
    BY DEF Init, OneLink
  <2> QED
    BY <2>1, <2>2
<1> QED
  BY <1>1, <1>2, <1>3, Inductive, OneLinkStep, PTL DEF Spec, ImplementsRegistry, Registry!Spec

-----------------------------------------------------------------------------
(* Requests that do not overlap.                                           *)

\* The bound under which they are stated; and what it makes of the open requests.
Serial == MaxOpen <= 1

OneOpen == \A q, r \in Requests : Open(q) /\ Open(r) => q = r

\* The steps at which a request has a session.
Active == {"score", "insert", "match", "lock", "ignore", "reject", "commit"}

\* What the candidates will be once the session has committed.
View(r, p) == IF mem[r][p] = Absent THEN candidate[p] ELSE mem[r][p]

\* A request without a session holds nothing.
Empty(r) ==
    /\ mem[r] = Nothing /\ loaded[r] = Nothing
    /\ target[r] = {} /\ pending[r] = {}
    /\ \A p \in Pairs : rowLock[p] # r

\* What it has loaded is what is stored, but for what it has flushed.
Current(r) == \A p \in Pairs :
    /\ rowLock[p] = r \/ loaded[r][p] \in {Absent, candidate[p]}
    /\ mem[r][p] = Absent => loaded[r][p] = Absent /\ rowLock[p] # r

\* A user's request has done nothing yet but to its own pair.
Asked(r) ==
    /\ pending[r] = {}
    /\ \E p \in Pairs :
         /\ target[r] = {p}
         /\ \A q \in Pairs : q # p => View(r, q) = candidate[q]
         /\ kind[r] = "unmatch" =>
               \E i \in Requests : edit[r] = {<<p, i>>} /\ <<p, i>> \in ActiveGroups

\* What the session is about to commit agrees.
Agreed(r) ==
    \A p \in Pairs : \A s \in {"AUTO_MATCHED", "CONFIRMED"} :
        View(r, p) = s <=> \E i \in Requests : GroupAfter(r, p, i) = s

\* A run that scores changes what is open to it, as the score says.
Scored(r) ==
    /\ pending[r] = {}
    /\ \A p \in Pairs :
         \/ View(r, p) = candidate[p]
         \/ /\ candidate[p] \in MutableCandidateStatuses \cup {Absent}
            /\ View(r, p) = StatusForScore(p)

\* What a run still has to decide.
Picked(r) == IF pc[r] = "lock" THEN target[r] ELSE {}
Undecided(r) == todo[r] \cup Picked(r)
Eligible(r, p) == mem[r][p] \notin SettledStatuses \cup {Absent} /\ Score(p) >= AutoScore

\* A run that matches knows the groups there are,
Informed(r) ==
    /\ activePairs[r] = {g[1] : g \in ActiveGroups}
    /\ used[r] = UNION {Legs(g[1]) : g \in VisibleGroups(r)}
    /\ pc[r] = "lock" =>
         \E p \in Pairs : target[r] = {p} /\ p \notin todo[r] /\ Legs(p) \cap used[r] = {}

\* leaves alone what is settled, and marks what it groups,
Orderly(r) ==
    \A p \in Pairs :
        /\ candidate[p] \in SettledStatuses => View(r, p) = candidate[p] /\ p \notin Undecided(r)
        /\ candidate[p] \notin SettledStatuses => View(r, p) \notin SettledStatuses
        /\ candidate[p] = "AUTO_MATCHED" => View(r, p) = "AUTO_MATCHED"
        /\ View(r, p) = "AUTO_MATCHED" =>
              candidate[p] = "AUTO_MATCHED" \/ p \in pending[r] \cup Undecided(r)
        /\ p \in pending[r] => View(r, p) = "AUTO_MATCHED" /\ p \notin Undecided(r)

\* and has passed over no pair but for a better one.
Greedy(r) ==
    /\ \A p \in Pairs : Eligible(r, p) =>
         \/ p \in Undecided(r)
         \/ \E g \in OnEvents(VisibleGroups(r), Legs(p)) :
               g \in ActiveGroups \/ Score(g[1]) >= Score(p)
    /\ \A p \in todo[r], q \in pending[r] \cup Picked(r) : Score(p) <= Score(q)

\* All of it, by where the request is.
SessionInv(r) ==
    /\ pc[r] \notin Active => Empty(r)
    /\ Current(r)
    /\ pc[r] = "reject" => kind[r] = "unmatch"
    /\ pc[r] = "ignore" => kind[r] = "ignore"
    /\ pc[r] = "commit" => kind[r] # "run" /\ Agreed(r)
    /\ kind[r] # "run" /\ pc[r] \in {"insert", "lock", "reject", "ignore"} => Asked(r)
    /\ kind[r] = "run" /\ pc[r] \in {"score", "insert"} => Scored(r)
    /\ pc[r] \in {"score", "match"} => target[r] = {}
    /\ kind[r] = "run" /\ pc[r] \in {"match", "lock"} => Informed(r) /\ Orderly(r) /\ Greedy(r)

\* The inductive invariant of requests that do not overlap.
SerialInv == IInv /\ OneOpen /\ CandidateAgreesWithGroup /\ \A r \in Requests : SessionInv(r)

\* Of the requests but r none has a session, and none gets one.
Others(r) == \A q \in Requests \ {r} :
    /\ ~ Open(q)
    /\ pc'[q] = pc[q] /\ mem'[q] = mem[q] /\ loaded'[q] = loaded[q]
    /\ target'[q] = target[q] /\ pending'[q] = pending[q]
    /\ \A p \in Pairs : rowLock'[p] = q => rowLock[p] = q

\* What they are is as before.
LEMMA OthersKeep ==
  ASSUME SerialInv, NEW r \in Requests, Others(r), NEW q \in Requests, q # r
  PROVE  SessionInv(q)'
<1>1. pc[q] \in {"idle", "done", "crashed"}
  BY DEF Others, Open
<1>2. Empty(q)
  BY <1>1 DEF SerialInv, SessionInv, Active
<1>3. pc'[q] \notin Active
  BY <1>1 DEF Others, Active
<1>4. Empty(q)'
  BY <1>2 DEF Others, Empty, Nothing
<1>5. Current(q)'
  <2>1. \A p \in Pairs : mem'[q][p] = Absent /\ loaded'[q][p] = Absent /\ rowLock'[p] # q
    BY <1>4 DEF Empty, Nothing
  <2> QED
    BY <2>1 DEF Current
<1> QED
  BY <1>3, <1>4, <1>5 DEF SessionInv, Active

\* A step that changes no candidate and no group keeps them in agreement.
LEMMA AgreeKeeps ==
  ASSUME CandidateAgreesWithGroup, UNCHANGED <<candidate, group>>
  PROVE  CandidateAgreesWithGroup'
BY DEF CandidateAgreesWithGroup

\* The session sets the status of one candidate.
Sets(r, p, s) ==
    /\ candidate' = candidate
    /\ mem' = [mem EXCEPT ![r][p] = s]
    /\ \/ UNCHANGED <<loaded, rowLock>>
       \/ loaded' = [loaded EXCEPT ![r][p] = candidate[p]] /\ UNCHANGED rowLock
       \/ Flush(r)

\* Of the others it knows what it knew.
LEMMA SetView ==
  ASSUME TypeOK, NEW r \in Requests, NEW p \in Pairs, NEW s \in CandidateStatus,
         Current(r), Sets(r, p, s)
  PROVE  /\ Current(r)'
         /\ mem'[r][p] = s /\ View(r, p)' = s
         /\ \A q \in Pairs : q # p => mem'[r][q] = mem[r][q] /\ View(r, q)' = View(r, q)
<1> USE DEF Sets
<1>1. /\ mem \in [Requests -> [Pairs -> CandidateStatus \cup {Absent}]]
      /\ loaded \in [Requests -> [Pairs -> CandidateStatus \cup {Absent}]]
      /\ rowLock \in [Pairs -> Requests \cup {Free}]
  BY DEF TypeOK
<1>2. s # Absent
  BY DEF CandidateStatus, Absent
<1>3. mem'[r][p] = s /\ \A q \in Pairs : q # p => mem'[r][q] = mem[r][q]
  BY <1>1
<1>4. View(r, p)' = s /\ \A q \in Pairs : q # p => View(r, q)' = View(r, q)
  BY <1>2, <1>3 DEF View
<1>5. Current(r)'
  <2>1. CASE UNCHANGED <<loaded, rowLock>>
    BY <1>2, <1>3, <2>1 DEF Current
  <2>2. CASE loaded' = [loaded EXCEPT ![r][p] = candidate[p]] /\ UNCHANGED rowLock
    <3>1. loaded'[r][p] = candidate[p] /\ \A q \in Pairs : q # p => loaded'[r][q] = loaded[r][q]
      BY <1>1, <2>2
    <3> QED
      BY <1>2, <1>3, <2>2, <3>1 DEF Current
  <2>3. CASE Flush(r)
    <3>1. /\ loaded'[r] = mem[r]
          /\ \A q \in Pairs : rowLock'[q] = IF mem[r][q] # loaded[r][q] THEN r ELSE rowLock[q]
      BY <1>1, <2>3 DEF Flush, Dirty
    <3> QED
      BY <1>2, <1>3, <3>1 DEF Current
  <2> QED
    BY <2>1, <2>2, <2>3
<1> QED
  BY <1>3, <1>4, <1>5

\* The session sets none.
LEMMA SameView ==
  ASSUME TypeOK, NEW r \in Requests, Current(r), UNCHANGED <<candidate, mem>>,
         UNCHANGED <<loaded, rowLock>> \/ Flush(r)
  PROVE  Current(r)' /\ \A p \in Pairs : View(r, p)' = View(r, p)
<1>1. \A p \in Pairs : View(r, p)' = View(r, p)
  BY DEF View
<1>2. CASE UNCHANGED <<loaded, rowLock>>
  BY <1>1, <1>2 DEF Current
<1>3. CASE Flush(r)
  <2>1. /\ loaded'[r] = mem[r]
        /\ \A q \in Pairs : rowLock'[q] = IF mem[r][q] # loaded[r][q] THEN r ELSE rowLock[q]
    BY <1>3 DEF Flush, Dirty, TypeOK
  <2> QED
    BY <1>1, <2>1 DEF Current
<1> QED
  BY <1>2, <1>3

\* The session ends.
LEMMA ReleaseEmpties ==
  ASSUME TypeOK, NEW r \in Requests, NEW next \in {"finish", "failed", "done", "crashed"},
         Release(r, next)
  PROVE  SessionInv(r)'
<1>1. pc'[r] = next
  BY DEF TypeOK, Release, Goto
<1>2. Empty(r)'
  <2>1. /\ mem'[r] = Nothing /\ loaded'[r] = Nothing /\ target'[r] = {} /\ pending'[r] = {}
    BY DEF TypeOK, Release
  <2>2. \A p \in Pairs : rowLock'[p] # r
    BY ConstantsAssumption DEF Release, Free
  <2> QED
    BY <2>1, <2>2 DEF Empty, Nothing
<1>3. Current(r)'
  <2>1. \A p \in Pairs : mem'[r][p] = Absent /\ loaded'[r][p] = Absent /\ rowLock'[p] # r
    BY <1>2 DEF Empty, Nothing
  <2> QED
    BY <2>1 DEF Current
<1> QED
  BY <1>1, <1>2, <1>3 DEF SessionInv, Active

\* A commit stores what the session has made of the candidates.
LEMMA CommitView ==
  ASSUME TypeOK, NEW r \in Requests, Current(r), Commit(r)
  PROVE  \A p \in Pairs : candidate'[p] = View(r, p)
<1> SUFFICES ASSUME NEW p \in Pairs
             PROVE  candidate'[p] = View(r, p)
  OBVIOUS
<1>1. candidate'[p] = IF mem[r][p] # loaded[r][p] \/ rowLock[p] = r THEN mem[r][p] ELSE candidate[p]
  BY DEF Commit, Written, Dirty
<1> QED
  BY <1>1 DEF Current, View

\* No other request is open.
Alone(r) == \A q \in Requests \ {r} : ~ Open(q)

\* While a request is open, no other is.
LEMMA AloneInProgress ==
  ASSUME OneOpen, NEW r \in Requests, Open(r)
  PROVE  Alone(r)
BY DEF OneOpen, Alone

\* At a bound of one a request begins when none is open.
LEMMA AloneAtBegin ==
  ASSUME Serial, OneOpen, NEW r \in Requests, NEW k, NEW next, Begin(r, k, next)
  PROVE  Alone(r)
<1> DEFINE S == {q \in Requests : Open(q)}
<1> SUFFICES ASSUME NEW q \in Requests, Open(q)
             PROVE  FALSE
  BY DEF Alone
<1>1. S = {q}
  BY DEF OneOpen
<1>2. Cardinality(S) = 1
  BY <1>1, FS_Singleton
<1>3. Cardinality(S) < MaxOpen
  BY DEF Begin
<1> QED
  BY <1>2, <1>3, ConstantsAssumption DEF Serial

\* A step touches no session but the one of its request.
LEMMA StartTouches ==
  ASSUME Serial, TypeOK, OneOpen, NEW r \in Requests, Start(r)
  PROVE  Others(r)
<1> USE DEF TypeOK, Goto, Load, Begin, Others, Alone, database, locks
<1>1. ASSUME Alone(r), StartRun(r)
      PROVE  Others(r)
  BY <1>1 DEF StartRun
<1>2. ASSUME Alone(r), NEW p \in Pairs, StartConfirm(r, p) \/ StartManual(r, p) \/ StartIgnore(r, p)
      PROVE  Others(r)
  BY <1>2 DEF StartConfirm, StartManual, StartIgnore
<1>3. ASSUME Alone(r), NEW g \in Pairs \X Requests, StartUnmatch(r, g)
      PROVE  Others(r)
  BY <1>3 DEF StartUnmatch
<1>4. Alone(r)
  BY AloneAtBegin DEF Start, StartRun, StartConfirm, StartManual, StartIgnore, StartUnmatch
<1> QED
  BY <1>1, <1>2, <1>3, <1>4 DEF Start

\* A session that ends leaves the others.
LEMMA ReleaseTouches ==
  ASSUME TypeOK, NEW r \in Requests, Alone(r), NEW next, Release(r, next)
  PROVE  Others(r)
BY ConstantsAssumption DEF TypeOK, Others, Alone, Release, Goto, Free

\* ... and a flush, what they hold and know.
LEMMA FlushTouches ==
  ASSUME TypeOK, NEW r \in Requests, Flush(r)
  PROVE  \A q \in Requests \ {r} :
           /\ loaded'[q] = loaded[q]
           /\ \A p \in Pairs : rowLock'[p] = q => rowLock[p] = q
BY DEF TypeOK, Flush

\* So does every step after the first.
LEMMA StepTouches ==
  ASSUME TypeOK, OneOpen, NEW r \in Requests, Step(r) \/ Abort(r) \/ Crash(r)
  PROVE  Alone(r) /\ Others(r)
<1>0. Open(r)
  <2> USE DEF Open
  <2>1. ASSUME Step(r) PROVE pc[r] \notin {"idle", "done", "crashed"}
    BY <2>1 DEF Step, Rescore, ScoreNew, InsertCandidate, DuplicateCandidate, BlockCandidate,
       PickCandidate, IsNext, InsertGroup, JoinGroup, RefuseGroup, RejectCandidate, IgnoreCandidate,
       RefuseIgnore, LockEvent, SurveyGroups, Commit, AtCommit, Finish, FinishFailed
  <2> QED
    BY <2>1 DEF Abort, Crash
<1>1. Alone(r)
  BY <1>0, AloneInProgress
<1>2. ASSUME NEW p \in Pairs,
             \/ Rescore(r, p) \/ ScoreNew(r, p) \/ BlockCandidate(r, p) \/ PickCandidate(r, p)
             \/ RejectCandidate(r, p) \/ IgnoreCandidate(r, p)
      PROVE  Others(r)
  BY <1>1, <1>2 DEF Others, Alone, TypeOK, Goto, Load, locks, Rescore, ScoreNew, BlockCandidate,
     PickCandidate, RejectCandidate, IgnoreCandidate
<1>3. ASSUME NEW p \in Pairs, InsertCandidate(r, p) \/ InsertGroup(r, p)
      PROVE  Others(r)
  <2>1. Flush(r)
    BY <1>3 DEF InsertCandidate, InsertGroup
  <2>2. \A q \in Requests \ {r} : pc'[q] = pc[q] /\ mem'[q] = mem[q] /\ target'[q] = target[q]
                                  /\ pending'[q] = pending[q]
    BY <1>3 DEF TypeOK, Goto, Matched, InsertCandidate, InsertGroup
  <2> QED
    BY <1>1, <2>1, <2>2, FlushTouches DEF Others, Alone
<1>4. ASSUME NEW p \in Pairs, JoinGroup(r, p)
      PROVE  Others(r)
  BY <1>1, <1>4 DEF Others, Alone, TypeOK, Goto, Matched, JoinGroup, locks
<1>5. CASE SurveyGroups(r) \/ Finish(r) \/ FinishFailed(r) \/ \E e \in Events : LockEvent(r, e)
  BY <1>1, <1>5 DEF Others, Alone, TypeOK, Goto, locks, session, SurveyGroups, Finish, FinishFailed,
     LockEvent
<1>6. ASSUME NEW next, Release(r, next)
      PROVE  Others(r)
  BY <1>1, <1>6, ReleaseTouches
<1>7. ASSUME Rollback(r)
      PROVE  Others(r)
  BY <1>6, <1>7 DEF Rollback
<1>8. CASE Commit(r) \/ Abort(r) \/ Crash(r)
  BY <1>1, <1>6, <1>7, <1>8 DEF Commit, Abort, Crash
<1> QED
  BY <1>1, <1>2, <1>3, <1>4, <1>5, <1>7, <1>8 DEF Step, DuplicateCandidate, RefuseGroup, RefuseIgnore

\* A request that begins has done nothing but to the pair it is asked about.
LEMMA StartOrderly ==
  ASSUME SerialInv, NEW r \in Requests, Start(r)
  PROVE  SessionInv(r)'
<1>0. /\ TypeOK
      /\ pc[r] = "idle" /\ Empty(r) /\ Current(r)
  <2>1. pc[r] = "idle"
    BY DEF Start, StartRun, StartConfirm, StartManual, StartIgnore, StartUnmatch, Begin
  <2> QED
    BY <2>1 DEF SerialInv, SessionInv, IInv, Active
<1>1. CASE StartRun(r)
  <2>1. /\ pc'[r] = "score" /\ kind'[r] = "run"
        /\ UNCHANGED <<candidate, mem, loaded, rowLock, target, pending>>
    BY <1>0, <1>1 DEF TypeOK, StartRun, Begin, Goto, locks
  <2>2. Current(r)' /\ \A p \in Pairs : View(r, p)' = candidate'[p]
    BY <1>0, <2>1 DEF Current, View, Empty, Nothing
  <2> QED
    BY <1>0, <2>1, <2>2 DEF SessionInv, Active, Scored, Empty
<1>2. ASSUME NEW p \in Pairs, StartConfirm(r, p) \/ StartManual(r, p) \/ StartIgnore(r, p)
      PROVE  SessionInv(r)'
  <2>1. PICK s \in CandidateStatus : Load(r, p, s)
    BY <1>0, <1>2 DEF StartConfirm, StartManual, StartIgnore, CandidateStatus, TypeOK
  <2>2. /\ pc'[r] \in {"insert", "lock", "ignore"} /\ kind'[r] \in {"confirm", "manual", "ignore"}
        /\ pc'[r] = "ignore" => kind'[r] = "ignore"
        /\ UNCHANGED <<candidate, rowLock, pending>>
        /\ target'[r] = {p}
    BY <1>0, <1>2 DEF TypeOK, StartConfirm, StartManual, StartIgnore, Begin, Goto, locks, database
  <2>3. /\ Current(r)'
        /\ \A q \in Pairs : q # p => View(r, q)' = View(r, q)
    <3>1. Sets(r, p, s)
      BY <2>1, <2>2 DEF Load, Sets
    <3> QED
      BY <1>0, <3>1, SetView
  <2>4. Asked(r)'
    <3>1. \A q \in Pairs : q # p => View(r, q)' = candidate'[q]
      BY <1>0, <2>2, <2>3 DEF View, Empty, Nothing
    <3> QED
      BY <1>0, <2>2, <3>1 DEF Asked, Empty
  <2> QED
    BY <2>2, <2>3, <2>4 DEF SessionInv, Active
<1>3. ASSUME NEW g \in Pairs \X Requests, StartUnmatch(r, g)
      PROVE  SessionInv(r)'
  <2>1. /\ pc'[r] = "reject" /\ kind'[r] = "unmatch" /\ target'[r] = {g[1]} /\ edit'[r] = {g}
        /\ UNCHANGED <<candidate, group, mem, loaded, rowLock, pending>>
        /\ g \in ActiveGroups
    BY <1>0, <1>3 DEF TypeOK, StartUnmatch, Begin, Goto, locks, database, ActiveGroups
  <2>2. Current(r)' /\ \A p \in Pairs : View(r, p)' = candidate'[p]
    BY <1>0, <2>1 DEF Current, View, Empty, Nothing
  <2>3. Asked(r)'
    <3>1. g[1] \in Pairs /\ g[2] \in Requests /\ g = <<g[1], g[2]>>
      OBVIOUS
    <3>2. g \in ActiveGroups'
      BY <2>1 DEF ActiveGroups
    <3> QED
      BY <1>0, <2>1, <2>2, <3>1, <3>2 DEF Asked, Empty
  <2> QED
    BY <2>1, <2>2, <2>3 DEF SessionInv, Active
<1> QED
  BY <1>1, <1>2, <1>3 DEF Start

\* A run that scores goes by the score, and by nothing else.
LEMMA ScoringOrderly ==
  ASSUME SerialInv, NEW r \in Requests, NEW p \in Pairs, Rescore(r, p) \/ ScoreNew(r, p)
  PROVE  SessionInv(r)'
<1>1. /\ TypeOK /\ pc[r] = "score" /\ kind[r] = "run" /\ target[r] = {}
      /\ Current(r) /\ Scored(r)
  BY DEF SerialInv, SessionInv, IInv, CleanStart, Rescore, ScoreNew
<1>2. UNCHANGED <<candidate, rowLock, pending, kind>>
  BY DEF Rescore, ScoreNew, locks, database
<1>3. PICK s \in CandidateStatus :
        /\ mem' = [mem EXCEPT ![r][p] = s]
        /\ \/ loaded' = [loaded EXCEPT ![r][p] = candidate[p]] \/ UNCHANGED loaded
        /\ \/ s = candidate[p]
           \/ candidate[p] \in MutableCandidateStatuses \cup {Absent} /\ s = StatusForScore(p)
  <2>1. candidate[p] \in CandidateStatus \cup {Absent} /\ StatusForScore(p) \in CandidateStatus
    BY <1>1, StatusForScoreType DEF TypeOK
  <2> QED
    BY <2>1 DEF Rescore, ScoreNew, Load
<1>4. /\ Current(r)' /\ View(r, p)' = s
      /\ \A q \in Pairs : q # p => View(r, q)' = View(r, q)
  <2>1. Sets(r, p, s)
    BY <1>2, <1>3 DEF Sets
  <2> QED
    BY <1>1, <2>1, SetView
<1>5. Scored(r)'
  <2>1. ASSUME NEW q \in Pairs
        PROVE  \/ View(r, q)' = candidate[q]
               \/ /\ candidate[q] \in MutableCandidateStatuses \cup {Absent}
                  /\ View(r, q)' = StatusForScore(q)
    BY <1>1, <1>3, <1>4 DEF Scored
  <2> QED
    BY <1>1, <1>2, <2>1 DEF Scored
<1>6. \/ pc'[r] = "score" /\ target'[r] = {}
      \/ pc'[r] = "insert"
  BY <1>1 DEF TypeOK, Rescore, ScoreNew, Goto
<1> QED
  BY <1>1, <1>2, <1>4, <1>5, <1>6 DEF SessionInv, Active

\* An insert of a candidate changes what is stored, not what the session knows.
LEMMA InsertOrderly ==
  ASSUME SerialInv, NEW r \in Requests, NEW p \in Pairs, InsertCandidate(r, p)
  PROVE  SessionInv(r)'
<1>1. /\ TypeOK /\ pc[r] = "insert" /\ Current(r)
      /\ kind[r] = "run" => Scored(r)
      /\ kind[r] # "run" => Asked(r)
  BY DEF SerialInv, SessionInv, IInv, InsertCandidate
<1>2. UNCHANGED <<candidate, group, pending, kind, edit, mem>> /\ Flush(r)
  BY DEF InsertCandidate, database
<1>3. Current(r)' /\ \A q \in Pairs : View(r, q)' = View(r, q)
  BY <1>1, <1>2, SameView
<1>4. CASE kind[r] = "run"
  <2>1. pc'[r] = "score" /\ target'[r] = {}
    BY <1>1, <1>4 DEF TypeOK, InsertCandidate, Goto
  <2>2. Scored(r)'
    BY <1>1, <1>2, <1>3, <1>4 DEF Scored
  <2> QED
    BY <1>2, <1>3, <1>4, <2>1, <2>2 DEF SessionInv, Active
<1>5. CASE kind[r] = "manual"
  <2>1. pc'[r] = "lock" /\ target'[r] = target[r]
    BY <1>1, <1>5 DEF TypeOK, InsertCandidate, Goto
  <2>2. Asked(r)'
    BY <1>1, <1>2, <1>3, <1>5, <2>1 DEF Asked, ActiveGroups
  <2> QED
    BY <1>2, <1>3, <1>5, <2>1, <2>2 DEF SessionInv, Active
<1> QED
  BY <1>4, <1>5 DEF InsertCandidate

\* A score that reaches the automatic mark, and none else, marks the pair.
LEMMA AutomaticScore ==
  ASSUME NEW p, StatusForScore(p) = "AUTO_MATCHED"
  PROVE  Score(p) >= AutoScore
BY DEF StatusForScore

\* What a run surveys is all there is, and it has decided nothing yet.
LEMMA SurveyOrderly ==
  ASSUME SerialInv, NEW r \in Requests, SurveyGroups(r)
  PROVE  SessionInv(r)'
<1>1. /\ TypeOK /\ pc[r] = "score" /\ kind[r] = "run" /\ target[r] = {}
      /\ Current(r) /\ Scored(r) /\ CandidateAgreesWithGroup
  BY DEF SerialInv, SessionInv, IInv, CleanStart, SurveyGroups
<1>2. /\ UNCHANGED <<candidate, group, kind, mem, loaded, rowLock, pending, target>>
      /\ pc'[r] = "match"
      /\ activePairs'[r] = {g[1] : g \in ActiveGroups}
      /\ used'[r] = UNION {Legs(g[1]) : g \in ActiveGroups}
      /\ todo'[r] = {p \in Pairs : Eligible(r, p)}
  BY <1>1 DEF TypeOK, SurveyGroups, Goto, locks, database, Eligible
<1>3. Current(r)' /\ \A p \in Pairs : View(r, p)' = View(r, p)
  BY <1>1, <1>2, SameView
<1>4. /\ ActiveGroups' = ActiveGroups
      /\ VisibleGroups(r)' = ActiveGroups
      /\ Undecided(r)' = todo'[r] /\ Picked(r)' = {}
      /\ \A p \in Pairs : Eligible(r, p)' <=> Eligible(r, p)
  BY <1>1, <1>2 DEF ActiveGroups, VisibleGroups, Scored, Undecided, Picked, Eligible
<1>5. Informed(r)'
  BY <1>2, <1>4 DEF Informed
<1>6. Orderly(r)'
  <2>1. ASSUME NEW p \in Pairs
        PROVE  /\ candidate[p] \in SettledStatuses => View(r, p) = candidate[p] /\ ~ Eligible(r, p)
               /\ candidate[p] \notin SettledStatuses => View(r, p) \notin SettledStatuses
               /\ candidate[p] = "AUTO_MATCHED" => View(r, p) = "AUTO_MATCHED"
               /\ View(r, p) = "AUTO_MATCHED" => candidate[p] = "AUTO_MATCHED" \/ Eligible(r, p)
    <3> USE DEF SettledStatuses, MutableCandidateStatuses, Absent
    <3>1. \/ View(r, p) = candidate[p]
          \/ /\ candidate[p] \in MutableCandidateStatuses \cup {Absent}
             /\ View(r, p) = StatusForScore(p)
      BY <1>1 DEF Scored
    <3>2. StatusForScore(p) \in MutableCandidateStatuses \cup {"AUTO_MATCHED"}
      BY DEF StatusForScore
    <3>3. View(r, p) = "AUTO_MATCHED" /\ candidate[p] # "AUTO_MATCHED" => Eligible(r, p)
      BY <3>1, AutomaticScore DEF View, Eligible
    <3>4. candidate[p] \in SettledStatuses => ~ Eligible(r, p)
      BY <3>1 DEF View, Eligible
    <3> QED
      BY <3>1, <3>2, <3>3, <3>4
  <2> QED
    BY <1>1, <1>2, <1>3, <1>4, <2>1 DEF Orderly, Scored
<1>7. Greedy(r)'
  BY <1>1, <1>2, <1>4 DEF Greedy, Scored
<1> QED
  BY <1>1, <1>2, <1>3, <1>5, <1>6, <1>7 DEF SessionInv, Active

\* What a run knows as it takes the next candidate.
LEMMA Matching ==
  ASSUME SerialInv, NEW r \in Requests, NEW p \in Pairs, IsNext(r, p)
  PROVE  /\ TypeOK /\ kind[r] = "run" /\ target[r] = {} /\ Current(r)
         /\ Informed(r) /\ Orderly(r) /\ Greedy(r)
         /\ Picked(r) = {} /\ Undecided(r) = todo[r]
BY DEF SerialInv, SessionInv, IInv, CleanStart, IsNext, Picked, Undecided

\* A candidate set aside is blocked by a group that is older or scores as well.
LEMMA BlockOrderly ==
  ASSUME SerialInv, NEW r \in Requests, NEW p \in Pairs, BlockCandidate(r, p)
  PROVE  SessionInv(r)'
<1>1. /\ TypeOK /\ kind[r] = "run" /\ target[r] = {} /\ Current(r)
      /\ Informed(r) /\ Orderly(r) /\ Greedy(r)
      /\ Picked(r) = {} /\ Undecided(r) = todo[r]
      /\ pc[r] = "match" /\ p \in todo[r] /\ Legs(p) \cap used[r] # {}
      /\ CandidateAgreesWithGroup
  BY Matching DEF SerialInv, BlockCandidate, IsNext
<1>2. /\ UNCHANGED <<candidate, group, kind, pc, loaded, rowLock, pending, target, used, activePairs>>
      /\ todo'[r] = todo[r] \ {p}
  BY <1>1 DEF TypeOK, BlockCandidate, locks, database
<1>3. /\ ActiveGroups' = ActiveGroups
      /\ VisibleGroups(r)' = VisibleGroups(r)
      /\ Picked(r)' = {} /\ Undecided(r)' = todo[r] \ {p}
  BY <1>1, <1>2 DEF ActiveGroups, VisibleGroups, Undecided, Picked
<1>4. p \in activePairs[r] => candidate[p] = "AUTO_MATCHED"
  <2> SUFFICES ASSUME p \in activePairs[r]
               PROVE  candidate[p] = "AUTO_MATCHED"
    OBVIOUS
  <2>1. PICK g \in ActiveGroups : g[1] = p
    BY <1>1 DEF Informed
  <2>2. group[p][g[2]] \in {"AUTO_MATCHED", "CONFIRMED"} /\ g[2] \in Requests
    BY <2>1 DEF ActiveGroups, ActiveStatus
  <2>3. candidate[p] \in {"AUTO_MATCHED", "CONFIRMED"}
    BY <1>1, <2>2 DEF CandidateAgreesWithGroup
  <2> QED
    BY <1>1, <2>3 DEF Orderly, SettledStatuses
<1>5. p \notin activePairs[r] => candidate[p] # "AUTO_MATCHED"
  <2> SUFFICES ASSUME candidate[p] = "AUTO_MATCHED"
               PROVE  p \in activePairs[r]
    OBVIOUS
  <2>1. PICK i \in Requests : group[p][i] = "AUTO_MATCHED"
    BY <1>1 DEF CandidateAgreesWithGroup
  <2>2. <<p, i>> \in ActiveGroups
    BY <2>1 DEF ActiveGroups, ActiveStatus
  <2> QED
    BY <1>1, <2>2 DEF Informed
<1>6. /\ Current(r)'
      /\ \A q \in Pairs : q # p => View(r, q)' = View(r, q) /\ mem'[r][q] = mem[r][q]
      /\ View(r, p)' = IF p \in activePairs[r] THEN View(r, p) ELSE "NEEDS_REVIEW"
  <2>1. CASE p \in activePairs[r]
    <3>1. mem' = mem
      BY <1>1, <2>1 DEF TypeOK, BlockCandidate
    <3> QED
      BY <1>1, <1>2, <2>1, <3>1, SameView
  <2>2. CASE p \notin activePairs[r]
    <3>1. Sets(r, p, "NEEDS_REVIEW")
      BY <1>2, <2>2 DEF BlockCandidate, Sets
    <3> QED
      BY <1>1, <2>2, <3>1, SetView DEF CandidateStatus
  <2> QED
    BY <2>1, <2>2
<1>7. Informed(r)'
  BY <1>1, <1>2, <1>3 DEF Informed
<1>8. Orderly(r)'
  <2>1. ASSUME NEW q \in Pairs
        PROVE  /\ candidate[q] \in SettledStatuses => View(r, q)' = candidate[q] /\ q \notin todo[r] \ {p}
               /\ candidate[q] \notin SettledStatuses => View(r, q)' \notin SettledStatuses
               /\ candidate[q] = "AUTO_MATCHED" => View(r, q)' = "AUTO_MATCHED"
               /\ View(r, q)' = "AUTO_MATCHED" =>
                     candidate[q] = "AUTO_MATCHED" \/ q \in pending[r] \cup (todo[r] \ {p})
               /\ q \in pending[r] => View(r, q)' = "AUTO_MATCHED" /\ q \notin todo[r] \ {p}
    BY <1>1, <1>4, <1>5, <1>6 DEF Orderly, SettledStatuses
  <2> QED
    BY <1>2, <1>3, <2>1 DEF Orderly
<1>9. Greedy(r)'
  <2>1. \E g \in OnEvents(VisibleGroups(r), Legs(p)) : g \in ActiveGroups \/ Score(g[1]) >= Score(p)
    <3>1. PICK g \in VisibleGroups(r) : Legs(g[1]) \cap Legs(p) # {}
      BY <1>1 DEF Informed
    <3>2. g \in ActiveGroups \/ g[1] \in pending[r]
      BY <3>1 DEF VisibleGroups
    <3>3. g[1] \in pending[r] => Score(p) <= Score(g[1])
      BY <1>1 DEF Greedy
    <3>4. g[1] \in pending[r] => Score(g[1]) >= Score(p)
      BY <3>3 DEF Score, Points
    <3> QED
      BY <3>1, <3>2, <3>4 DEF OnEvents
  <2>2. ASSUME NEW q \in Pairs, q # p, Eligible(r, q)'
        PROVE  \/ q \in todo[r] \ {p}
               \/ \E g \in OnEvents(VisibleGroups(r), Legs(q)) :
                     g \in ActiveGroups \/ Score(g[1]) >= Score(q)
    <3>1. Eligible(r, q)
      BY <1>6, <2>2 DEF Eligible
    <3> QED
      BY <1>1, <2>2, <3>1 DEF Greedy
  <2>3. \A q \in todo'[r], o \in pending[r] \cup {} : Score(q) <= Score(o)
    BY <1>1, <1>2 DEF Greedy
  <2> QED
    BY <1>2, <1>3, <2>1, <2>2, <2>3 DEF Greedy, OnEvents
<1> QED
  BY <1>1, <1>2, <1>6, <1>7, <1>8, <1>9 DEF SessionInv, Active

\* A candidate it picks is on free events, and none that is left scores better.
LEMMA PickOrderly ==
  ASSUME SerialInv, NEW r \in Requests, NEW p \in Pairs, PickCandidate(r, p)
  PROVE  SessionInv(r)'
<1>1. /\ TypeOK /\ kind[r] = "run" /\ target[r] = {} /\ Current(r)
      /\ Informed(r) /\ Orderly(r) /\ Greedy(r)
      /\ Picked(r) = {} /\ Undecided(r) = todo[r]
      /\ pc[r] = "match" /\ p \in todo[r] /\ Legs(p) \cap used[r] = {}
      /\ \A q \in todo[r] : Score(q) <= Score(p)
  BY Matching DEF PickCandidate, IsNext
<1>2. /\ UNCHANGED <<candidate, group, kind, mem, loaded, rowLock, pending, used, activePairs>>
      /\ todo'[r] = todo[r] \ {p} /\ target'[r] = {p} /\ pc'[r] = "lock"
  BY <1>1 DEF TypeOK, PickCandidate, Goto, locks, database
<1>3. /\ ActiveGroups' = ActiveGroups
      /\ VisibleGroups(r)' = VisibleGroups(r)
      /\ Picked(r)' = {p} /\ Undecided(r)' = todo[r]
      /\ \A q \in Pairs : Eligible(r, q)' <=> Eligible(r, q)
  BY <1>1, <1>2 DEF ActiveGroups, VisibleGroups, Undecided, Picked, Eligible
<1>4. Current(r)' /\ \A q \in Pairs : View(r, q)' = View(r, q)
  BY <1>1, <1>2, SameView
<1>5. Informed(r)'
  BY <1>1, <1>2, <1>3 DEF Informed
<1>6. Orderly(r)'
  BY <1>1, <1>2, <1>3, <1>4 DEF Orderly
<1>7. Greedy(r)'
  BY <1>1, <1>2, <1>3 DEF Greedy
<1> QED
  BY <1>1, <1>2, <1>4, <1>5, <1>6, <1>7 DEF SessionInv, Active

\* A session that no step has touched, nor the rows it reads, is as it was.
LEMMA Unmoved ==
  ASSUME NEW r \in Requests, SessionInv(r),
         UNCHANGED <<candidate, group, kind, pc, rowLock, session>>
  PROVE  SessionInv(r)'
<1> USE DEF session
<1>1. /\ ActiveGroups' = ActiveGroups /\ VisibleGroups(r)' = VisibleGroups(r)
      /\ Picked(r)' = Picked(r) /\ Undecided(r)' = Undecided(r)
      /\ \A p \in Pairs : View(r, p)' = View(r, p) /\ (Eligible(r, p)' <=> Eligible(r, p))
      /\ \A p \in Pairs, i \in Requests : GroupAfter(r, p, i)' = GroupAfter(r, p, i)
  BY DEF ActiveGroups, VisibleGroups, Picked, Undecided, View, Eligible, GroupAfter, MatchedStatus
<1>2. (Empty(r) => Empty(r)') /\ (Current(r) => Current(r)')
  BY DEF Empty, Current, Nothing
<1>3. Asked(r) => Asked(r)'
  BY <1>1 DEF Asked
<1>4. Agreed(r) => Agreed(r)'
  BY <1>1 DEF Agreed
<1>5. Scored(r) => Scored(r)'
  BY <1>1 DEF Scored
<1>6. Informed(r) => Informed(r)'
  BY <1>1 DEF Informed
<1>7. Orderly(r) => Orderly(r)'
  BY <1>1 DEF Orderly
<1>8. Greedy(r) => Greedy(r)'
  BY <1>1 DEF Greedy
<1> QED
  BY <1>2, <1>3, <1>4, <1>5, <1>6, <1>7, <1>8 DEF SessionInv

\* Waiting for an event changes nothing a session knows.
LEMMA LockOrderly ==
  ASSUME SerialInv, NEW r \in Requests, NEW e \in Events, LockEvent(r, e)
  PROVE  SessionInv(r)'
BY Unmoved DEF SerialInv, LockEvent, database

\* The groups of one pair share its events, so one of them is active at most.
LEMMA OneGroupActive ==
  ASSUME IInv, NEW p \in Pairs, NEW i \in Requests, NEW j \in Requests,
         <<p, i>> \in ActiveGroups, <<p, j>> \in ActiveGroups
  PROVE  i = j
BY LegsInEvents DEF IInv, UniqueActive

\* An event without a group has no pair with one.
LEMMA NoGroupOn ==
  ASSUME NEW p \in Pairs, OnEvents(ActiveGroups, Legs(p)) = {}, NEW i \in Requests
  PROVE  group[p][i] \notin {"AUTO_MATCHED", "CONFIRMED"}
<1> SUFFICES ASSUME group[p][i] \in {"AUTO_MATCHED", "CONFIRMED"}
             PROVE  FALSE
  OBVIOUS
<1>1. <<p, i>> \in OnEvents(ActiveGroups, Legs(p))
  BY LegsInEvents DEF OnEvents, ActiveGroups, ActiveStatus
<1> QED
  BY <1>1

\* The group a user's request inserts is the one its candidate will speak of.
LEMMA UserInserts ==
  ASSUME SerialInv, NEW r \in Requests, NEW p \in Pairs, InsertGroup(r, p), kind[r] # "run"
  PROVE  SessionInv(r)'
<1>1. /\ IInv /\ TypeOK /\ pc[r] = "lock" /\ Current(r) /\ Asked(r) /\ p \in target[r]
      /\ edit[r] = {} /\ pending[r] = {} /\ kind[r] \in {"confirm", "manual"}
      /\ CandidateAgreesWithGroup
  BY DEF SerialInv, SessionInv, IInv, CleanStart, InsertGroup
<1>2. /\ UNCHANGED <<candidate, group, kind, edit>>
      /\ Flush(r)
      /\ mem' = [mem EXCEPT ![r][p] = "CONFIRMED"]
      /\ pending'[r] = {p} /\ target'[r] = {} /\ pc'[r] = "commit"
  BY <1>1 DEF TypeOK, InsertGroup, Matched, MatchedStatus, Goto, database
<1>3. /\ Current(r)' /\ View(r, p)' = "CONFIRMED"
      /\ \A q \in Pairs : q # p => View(r, q)' = View(r, q)
  <2>1. Sets(r, p, "CONFIRMED")
    BY <1>2 DEF Sets
  <2> QED
    BY <1>1, <2>1, SetView DEF CandidateStatus
<1>4. \A q \in Pairs : q # p => View(r, q)' = candidate[q]
  BY <1>1, <1>3 DEF Asked
<1>5. \A i \in Requests : group[p][i] \notin {"AUTO_MATCHED", "CONFIRMED"}
  <2>1. OnEvents(ActiveGroups, Legs(p)) = {}
    BY DEF InsertGroup, OnEvents, VisibleGroups
  <2> QED
    BY <2>1, NoGroupOn
<1>6. \A q \in Pairs, i \in Requests :
        GroupAfter(r, q, i)' = IF i = r /\ q = p THEN "CONFIRMED" ELSE group[q][i]
  BY <1>1, <1>2 DEF GroupAfter, MatchedStatus
<1>7. Agreed(r)'
  <2>1. ASSUME NEW q \in Pairs, NEW s \in {"AUTO_MATCHED", "CONFIRMED"}
        PROVE  View(r, q)' = s <=> \E i \in Requests : GroupAfter(r, q, i)' = s
    <3>1. CASE q = p
      BY <1>3, <1>5, <1>6, <3>1
    <3>2. CASE q # p
      BY <1>1, <1>4, <1>6, <3>2 DEF CandidateAgreesWithGroup
    <3> QED
      BY <3>1, <3>2
  <2> QED
    BY <2>1 DEF Agreed
<1> QED
  BY <1>1, <1>2, <1>3, <1>7 DEF SessionInv, Active

\* The one it joins has its events to itself; the request confirms both.
LEMMA UserJoins ==
  ASSUME SerialInv, NEW r \in Requests, NEW p \in Pairs, JoinGroup(r, p), kind[r] # "run"
  PROVE  SessionInv(r)'
<1>1. /\ IInv /\ TypeOK /\ pc[r] = "lock" /\ Current(r) /\ Asked(r) /\ p \in target[r]
      /\ edit[r] = {} /\ pending[r] = {} /\ kind[r] \in {"confirm", "manual"}
      /\ CandidateAgreesWithGroup
  BY DEF SerialInv, SessionInv, IInv, CleanStart, JoinGroup
<1>2. PICK j \in Requests :
        /\ <<p, j>> \in ActiveGroups
        /\ edit'[r] = IF group[p][j] # "CONFIRMED" THEN {<<p, j>>} ELSE {}
  <2>1. PICK g \in ActiveGroups : g[1] = p /\ edit' = [edit EXCEPT ![r] =
               IF kind[r] # "run" /\ group[p][g[2]] # "CONFIRMED" THEN {g} ELSE {}]
    BY <1>1 DEF JoinGroup, OnEvents, VisibleGroups
  <2>2. g = <<p, g[2]>> /\ g[2] \in Requests
    BY <2>1 DEF ActiveGroups
  <2>3. edit'[r] = IF group[p][g[2]] # "CONFIRMED" THEN {g} ELSE {}
    BY <1>1, <2>1 DEF TypeOK
  <2> QED
    BY <2>2, <2>3
<1>3. /\ UNCHANGED <<candidate, group, kind, pending, loaded, rowLock>>
      /\ mem' = [mem EXCEPT ![r][p] = "CONFIRMED"]
      /\ target'[r] = {} /\ pc'[r] = "commit"
  BY <1>1 DEF TypeOK, JoinGroup, Matched, MatchedStatus, Goto, database, locks
<1>4. /\ Current(r)' /\ View(r, p)' = "CONFIRMED"
      /\ \A q \in Pairs : q # p => View(r, q)' = View(r, q)
  <2>1. Sets(r, p, "CONFIRMED")
    BY <1>3 DEF Sets
  <2> QED
    BY <1>1, <2>1, SetView DEF CandidateStatus
<1>5. \A q \in Pairs : q # p => View(r, q)' = candidate[q]
  BY <1>1, <1>4 DEF Asked
<1>6. \A i \in Requests : i # j => group[p][i] \notin {"AUTO_MATCHED", "CONFIRMED"}
  BY <1>1, <1>2, OneGroupActive DEF ActiveGroups, ActiveStatus
<1>7. \A q \in Pairs, i \in Requests :
        GroupAfter(r, q, i)' = IF i = j /\ q = p THEN "CONFIRMED" ELSE group[q][i]
  BY <1>1, <1>2, <1>3 DEF GroupAfter
<1>8. Agreed(r)'
  <2>1. ASSUME NEW q \in Pairs, NEW s \in {"AUTO_MATCHED", "CONFIRMED"}
        PROVE  View(r, q)' = s <=> \E i \in Requests : GroupAfter(r, q, i)' = s
    <3>1. CASE q = p
      BY <1>4, <1>6, <1>7, <3>1
    <3>2. CASE q # p
      BY <1>1, <1>5, <1>7, <3>2 DEF CandidateAgreesWithGroup
    <3> QED
      BY <3>1, <3>2
  <2> QED
    BY <2>1 DEF Agreed
<1> QED
  BY <1>1, <1>3, <1>4, <1>8 DEF SessionInv, Active

\* An unmatched pair has lost its group and its mark.
LEMMA RejectOrderly ==
  ASSUME SerialInv, NEW r \in Requests, NEW p \in Pairs, RejectCandidate(r, p)
  PROVE  SessionInv(r)'
<1>1. /\ IInv /\ TypeOK /\ pc[r] = "reject" /\ kind[r] = "unmatch" /\ Current(r) /\ Asked(r)
      /\ p \in target[r] /\ CandidateAgreesWithGroup
  BY DEF SerialInv, SessionInv, IInv, RejectCandidate
<1>2. PICK j \in Requests : edit[r] = {<<p, j>>} /\ <<p, j>> \in ActiveGroups
  BY <1>1 DEF Asked
<1>3. /\ UNCHANGED <<candidate, group, kind, pending, edit>>
      /\ Sets(r, p, "REJECTED")
      /\ pending[r] = {} /\ pc'[r] = "commit"
  BY <1>1 DEF TypeOK, RejectCandidate, Load, Goto, Sets, database, locks, Asked
<1>4. /\ Current(r)' /\ View(r, p)' = "REJECTED"
      /\ \A q \in Pairs : q # p => View(r, q)' = View(r, q)
  BY <1>1, <1>3, SetView DEF CandidateStatus
<1>5. \A q \in Pairs : q # p => View(r, q)' = candidate[q]
  BY <1>1, <1>4 DEF Asked
<1>6. \A i \in Requests : i # j => group[p][i] \notin {"AUTO_MATCHED", "CONFIRMED"}
  BY <1>1, <1>2, OneGroupActive DEF ActiveGroups, ActiveStatus
<1>7. \A q \in Pairs, i \in Requests :
        GroupAfter(r, q, i)' = IF i = j /\ q = p THEN "UNMATCHED" ELSE group[q][i]
  BY <1>1, <1>2, <1>3 DEF GroupAfter
<1>8. Agreed(r)'
  <2>1. ASSUME NEW q \in Pairs, NEW s \in {"AUTO_MATCHED", "CONFIRMED"}
        PROVE  View(r, q)' = s <=> \E i \in Requests : GroupAfter(r, q, i)' = s
    <3>1. CASE q = p
      BY <1>4, <1>6, <1>7, <3>1
    <3>2. CASE q # p
      BY <1>1, <1>5, <1>7, <3>2 DEF CandidateAgreesWithGroup
    <3> QED
      BY <3>1, <3>2
  <2> QED
    BY <2>1 DEF Agreed
<1> QED
  BY <1>1, <1>3, <1>4, <1>8 DEF SessionInv, Active

\* An ignored pair had no group to lose.
LEMMA IgnoreOrderly ==
  ASSUME SerialInv, NEW r \in Requests, NEW p \in Pairs, IgnoreCandidate(r, p)
  PROVE  SessionInv(r)'
<1>1. /\ IInv /\ TypeOK /\ pc[r] = "ignore" /\ kind[r] = "ignore" /\ Current(r) /\ Asked(r)
      /\ p \in target[r] /\ CandidateAgreesWithGroup /\ edit[r] = {}
  BY DEF SerialInv, SessionInv, IInv, EditKinds, IgnoreCandidate
<1>2. /\ UNCHANGED <<candidate, group, kind, pending, edit>>
      /\ Sets(r, p, "IGNORED")
      /\ pending[r] = {} /\ pc'[r] = "commit"
  BY <1>1 DEF TypeOK, IgnoreCandidate, Goto, Sets, database, locks, Asked
<1>3. /\ Current(r)' /\ View(r, p)' = "IGNORED"
      /\ \A q \in Pairs : q # p => View(r, q)' = View(r, q)
  BY <1>1, <1>2, SetView DEF CandidateStatus
<1>4. \A q \in Pairs : q # p => View(r, q)' = candidate[q]
  BY <1>1, <1>3 DEF Asked
<1>5. \A i \in Requests : group[p][i] \notin {"AUTO_MATCHED", "CONFIRMED"}
  BY NoGroupOn DEF IgnoreCandidate
<1>6. \A q \in Pairs, i \in Requests : GroupAfter(r, q, i)' = group[q][i]
  BY <1>1, <1>2 DEF GroupAfter
<1>7. Agreed(r)'
  <2>1. ASSUME NEW q \in Pairs, NEW s \in {"AUTO_MATCHED", "CONFIRMED"}
        PROVE  View(r, q)' = s <=> \E i \in Requests : GroupAfter(r, q, i)' = s
    <3>1. CASE q = p
      BY <1>3, <1>5, <1>6, <3>1
    <3>2. CASE q # p
      BY <1>1, <1>4, <1>6, <3>2 DEF CandidateAgreesWithGroup
    <3> QED
      BY <3>1, <3>2
  <2> QED
    BY <2>1 DEF Agreed
<1> QED
  BY <1>1, <1>2, <1>3, <1>7 DEF SessionInv, Active

\* The pair a run groups takes its events out of what is left to decide.
LEMMA RunInserts ==
  ASSUME SerialInv, NEW r \in Requests, NEW p \in Pairs, InsertGroup(r, p), kind[r] = "run"
  PROVE  SessionInv(r)'
<1>1. /\ TypeOK /\ pc[r] = "lock" /\ Current(r) /\ Informed(r) /\ Orderly(r) /\ Greedy(r)
      /\ target[r] = {p} /\ p \notin todo[r]
  BY DEF SerialInv, SessionInv, IInv, Informed, InsertGroup
<1>2. /\ UNCHANGED <<candidate, group, kind, todo, activePairs>>
      /\ Sets(r, p, "AUTO_MATCHED")
      /\ pending'[r] = pending[r] \cup {p} /\ target'[r] = {} /\ pc'[r] = "match"
      /\ used'[r] = used[r] \cup Legs(p)
  BY <1>1 DEF TypeOK, InsertGroup, Matched, MatchedStatus, Goto, database, Sets
<1>3. /\ ActiveGroups' = ActiveGroups
      /\ VisibleGroups(r)' = VisibleGroups(r) \cup {<<p, r>>}
      /\ Picked(r) = {p} /\ Undecided(r) = todo[r] \cup {p}
      /\ Picked(r)' = {} /\ Undecided(r)' = todo[r]
  BY <1>1, <1>2 DEF ActiveGroups, VisibleGroups, Picked, Undecided
<1>4. /\ Current(r)' /\ View(r, p)' = "AUTO_MATCHED"
      /\ \A q \in Pairs : q # p => View(r, q)' = View(r, q) /\ mem'[r][q] = mem[r][q]
  BY <1>1, <1>2, SetView DEF CandidateStatus
<1>5. Informed(r)'
  <2>1. \A S, e : e \in UNION {Legs(g[1]) : g \in S} <=> \E g \in S : e \in Legs(g[1])
    OBVIOUS
  <2>2. UNION {Legs(g[1]) : g \in VisibleGroups(r) \cup {<<p, r>>}}
        = (UNION {Legs(g[1]) : g \in VisibleGroups(r)}) \cup Legs(p)
    <3> SUFFICES ASSUME NEW e
                 PROVE  e \in UNION {Legs(g[1]) : g \in VisibleGroups(r) \cup {<<p, r>>}}
                        <=> e \in (UNION {Legs(g[1]) : g \in VisibleGroups(r)}) \cup Legs(p)
      OBVIOUS
    <3>1. (e \in Legs(p) \/ \E g \in VisibleGroups(r) : e \in Legs(g[1]))
          <=> \E g \in VisibleGroups(r) \cup {<<p, r>>} : e \in Legs(g[1])
      <4>1. Legs(<<p, r>>[1]) = Legs(p) /\ <<p, r>> \in VisibleGroups(r) \cup {<<p, r>>}
        OBVIOUS
      <4>2. \A g \in VisibleGroups(r) \cup {<<p, r>>} : g \in VisibleGroups(r) \/ g = <<p, r>>
        OBVIOUS
      <4> QED
        BY <4>1, <4>2, Zenon
    <3> QED
      BY <2>1, <3>1
  <2>3. used[r] = UNION {Legs(g[1]) : g \in VisibleGroups(r)}
        /\ activePairs[r] = {g[1] : g \in ActiveGroups}
    BY <1>1 DEF Informed
  <2>4. used'[r] = UNION {Legs(g[1]) : g \in VisibleGroups(r)'}
    BY <1>2, <1>3, <2>2, <2>3
  <2>5. activePairs'[r] = {g[1] : g \in ActiveGroups'}
    BY <1>2, <1>3, <2>3
  <2>6. pc'[r] # "lock"
    BY <1>2
  <2> QED
    BY <2>4, <2>5, <2>6 DEF Informed
<1>6. Orderly(r)'
  <2>1. ASSUME NEW q \in Pairs
        PROVE  /\ candidate[q] \in SettledStatuses => View(r, q)' = candidate[q] /\ q \notin todo[r]
               /\ candidate[q] \notin SettledStatuses => View(r, q)' \notin SettledStatuses
               /\ candidate[q] = "AUTO_MATCHED" => View(r, q)' = "AUTO_MATCHED"
               /\ View(r, q)' = "AUTO_MATCHED" =>
                     candidate[q] = "AUTO_MATCHED" \/ q \in pending[r] \cup {p} \cup todo[r]
               /\ q \in pending[r] \cup {p} => View(r, q)' = "AUTO_MATCHED" /\ q \notin todo[r]
    BY <1>1, <1>3, <1>4 DEF Orderly, SettledStatuses
  <2> QED
    BY <1>2, <1>3, <2>1 DEF Orderly
<1>7. Greedy(r)'
  <2>1. Score(p) >= Score(p)
    BY DEF Score, Points
  <2>2. <<p, r>> \in OnEvents(VisibleGroups(r)', Legs(p))
    BY <1>3, LegsInEvents DEF OnEvents
  <2>3. ASSUME NEW q \in Pairs, q # p, Eligible(r, q)'
        PROVE  \/ q \in todo[r]
               \/ \E g \in OnEvents(VisibleGroups(r)', Legs(q)) :
                     g \in ActiveGroups \/ Score(g[1]) >= Score(q)
    <3>1. Eligible(r, q)
      BY <1>4, <2>3 DEF Eligible
    <3>2. \/ q \in todo[r]
          \/ \E g \in OnEvents(VisibleGroups(r), Legs(q)) :
                g \in ActiveGroups \/ Score(g[1]) >= Score(q)
      BY <1>1, <1>3, <2>3, <3>1 DEF Greedy
    <3> QED
      BY <1>3, <3>2 DEF OnEvents
  <2>4. \A q \in todo'[r], o \in pending'[r] \cup {} : Score(q) <= Score(o)
    BY <1>1, <1>2, <1>3 DEF Greedy
  <2>5. \A q \in Pairs : Eligible(r, q)' =>
         \/ q \in Undecided(r)'
         \/ \E g \in OnEvents(VisibleGroups(r)', Legs(q)) :
               g \in ActiveGroups' \/ Score(g[1]) >= Score(q)
    <3> SUFFICES ASSUME NEW q \in Pairs, Eligible(r, q)'
                 PROVE  \/ q \in todo[r]
                        \/ \E g \in OnEvents(VisibleGroups(r)', Legs(q)) :
                              g \in ActiveGroups \/ Score(g[1]) >= Score(q)
      BY <1>3
    <3>1. CASE q = p
      <4>1. Score(<<p, r>>[1]) >= Score(q)
        BY <2>1, <3>1
      <4> QED
        BY <2>2, <3>1, <4>1
    <3>2. CASE q # p
      BY <2>3, <3>2
    <3> QED
      BY <3>1, <3>2
  <2>6. \A q \in todo'[r], o \in pending'[r] \cup Picked(r)' : Score(q) <= Score(o)
    BY <1>3, <2>4
  <2> QED
    BY <2>5, <2>6 DEF Greedy, OnEvents
<1> QED
  BY <1>1, <1>2, <1>4, <1>5, <1>6, <1>7 DEF SessionInv, Active

\* Alone, a run finds no group on the events it has picked but its own.
LEMMA RunNeverJoins ==
  ASSUME SerialInv, NEW r \in Requests, NEW p \in Pairs, JoinGroup(r, p), kind[r] = "run"
  PROVE  FALSE
<1>1. pc[r] = "lock" /\ Informed(r) /\ Legs(p) \cap used[r] = {}
  BY DEF SerialInv, SessionInv, Informed, JoinGroup
<1>2. PICK g \in VisibleGroups(r) : g[1] = p
  BY DEF JoinGroup, OnEvents
<1> QED
  BY <1>1, <1>2, LegsInEvents DEF Informed

\* What is past the commit holds nothing.
LEMMA FinishOrderly ==
  ASSUME SerialInv, NEW r \in Requests, Finish(r) \/ FinishFailed(r)
  PROVE  SessionInv(r)'
<1>1. /\ TypeOK /\ pc[r] \in {"finish", "failed"} /\ Empty(r) /\ Current(r)
      /\ UNCHANGED <<candidate, rowLock, session>> /\ pc' = [pc EXCEPT ![r] = "done"]
  BY DEF SerialInv, SessionInv, IInv, Active, Finish, FinishFailed, locks, Goto
<1>2. pc'[r] = "done"
  BY <1>1 DEF TypeOK
<1>3. Empty(r)' /\ Current(r)'
  BY <1>1 DEF Empty, Current, session, Nothing
<1> QED
  BY <1>2, <1>3 DEF SessionInv, Active

\* When a run has nothing left to decide, candidates and groups agree.
LEMMA MatchedAgreed ==
  ASSUME SerialInv, NEW r \in Requests, kind[r] = "run", pc[r] = "match", todo[r] = {}
  PROVE  Agreed(r)
<1>1. /\ CandidateAgreesWithGroup /\ Orderly(r) /\ Undecided(r) = {} /\ edit[r] = {}
  BY DEF SerialInv, SessionInv, IInv, EditKinds, Undecided, Picked
<1>2. \A p \in Pairs, i \in Requests :
        GroupAfter(r, p, i) = IF i = r /\ p \in pending[r] THEN "AUTO_MATCHED" ELSE group[p][i]
  BY <1>1 DEF GroupAfter, MatchedStatus
<1> SUFFICES ASSUME NEW p \in Pairs
             PROVE  \A s \in {"AUTO_MATCHED", "CONFIRMED"} :
                      View(r, p) = s <=> \E i \in Requests : GroupAfter(r, p, i) = s
  BY DEF Agreed
<1>3. View(r, p) = "CONFIRMED" <=> \E i \in Requests : GroupAfter(r, p, i) = "CONFIRMED"
  <2>1. View(r, p) = "CONFIRMED" <=> candidate[p] = "CONFIRMED"
    BY <1>1 DEF Orderly, SettledStatuses
  <2>2. candidate[p] = "CONFIRMED" <=> \E i \in Requests : group[p][i] = "CONFIRMED"
    BY <1>1 DEF CandidateAgreesWithGroup
  <2>3. p \in pending[r] => View(r, p) # "CONFIRMED"
    BY <1>1 DEF Orderly
  <2> QED
    BY <1>2, <2>1, <2>2, <2>3
<1>4. View(r, p) = "AUTO_MATCHED" <=> \E i \in Requests : GroupAfter(r, p, i) = "AUTO_MATCHED"
  <2>1. candidate[p] = "AUTO_MATCHED" <=> \E i \in Requests : group[p][i] = "AUTO_MATCHED"
    BY <1>1 DEF CandidateAgreesWithGroup
  <2>2. View(r, p) = "AUTO_MATCHED" <=> candidate[p] = "AUTO_MATCHED" \/ p \in pending[r]
    BY <1>1 DEF Orderly
  <2> QED
    BY <1>2, <2>1, <2>2
<1> QED
  BY <1>3, <1>4

\* What is about to be committed agrees, whoever commits it.
LEMMA CommitAgreed ==
  ASSUME SerialInv, NEW r \in Requests, AtCommit(r)
  PROVE  Agreed(r)
BY MatchedAgreed DEF AtCommit, SerialInv, SessionInv, IInv, CleanStart

\* A commit leaves candidates and groups in agreement.
LEMMA CommitAgrees ==
  ASSUME SerialInv, NEW r \in Requests, Commit(r)
  PROVE  CandidateAgreesWithGroup'
<1>1. Agreed(r)
  BY CommitAgreed DEF Commit
<1>2. \A p \in Pairs : candidate'[p] = View(r, p)
  BY CommitView DEF SerialInv, SessionInv, IInv
<1>3. \A p \in Pairs, i \in Requests : group'[p][i] = GroupAfter(r, p, i)
  BY DEF Commit
<1> QED
  BY <1>1, <1>2, <1>3 DEF Agreed, CandidateAgreesWithGroup

\* Every step of a request keeps its session in order.
LEMMA StepOrderly ==
  ASSUME SerialInv, NEW r \in Requests, Step(r) \/ Abort(r) \/ Crash(r)
  PROVE  SessionInv(r)'
<1>1. ASSUME NEW next \in {"finish", "failed", "done", "crashed"}, Release(r, next)
      PROVE  SessionInv(r)'
  BY <1>1, ReleaseEmpties DEF SerialInv, IInv
<1>2. ASSUME Rollback(r) \/ Commit(r) \/ Abort(r) \/ Crash(r)
      PROVE  SessionInv(r)'
  BY <1>1, <1>2 DEF Rollback, Commit, Abort, Crash
<1>3. ASSUME NEW p \in Pairs, InsertGroup(r, p) \/ JoinGroup(r, p)
      PROVE  SessionInv(r)'
  BY <1>3, RunInserts, UserInserts, RunNeverJoins, UserJoins
<1> QED
  BY <1>2, <1>3, ScoringOrderly, InsertOrderly, SurveyOrderly, BlockOrderly, PickOrderly, LockOrderly,
     RejectOrderly, IgnoreOrderly, FinishOrderly
     DEF Step, DuplicateCandidate, RefuseGroup, RefuseIgnore

\* Only a commit changes the candidates or the groups.
LEMMA OnlyCommits ==
  ASSUME NEW r \in Requests, Start(r) \/ Step(r) \/ Abort(r) \/ Crash(r)
  PROVE  Commit(r) \/ UNCHANGED <<candidate, group>>
BY DEF Start, Step, Abort, Crash, Rollback, database, StartRun, StartConfirm, StartManual, StartIgnore,
   StartUnmatch, Rescore, ScoreNew, InsertCandidate, DuplicateCandidate, BlockCandidate, PickCandidate,
   InsertGroup, JoinGroup, RefuseGroup, RejectCandidate, IgnoreCandidate, RefuseIgnore, LockEvent,
   SurveyGroups, Finish, FinishFailed

\* The invariant of requests that do not overlap is inductive.
LEMMA SerialInductive ==
  ASSUME Serial
  PROVE  SerialInv /\ [Next]_vars => SerialInv'
<1> SUFFICES ASSUME SerialInv, [Next]_vars
             PROVE  SerialInv'
  OBVIOUS
<1>1. IInv'
  BY Inductive DEF SerialInv
<1>2. ASSUME NEW r \in Requests, Start(r) \/ Step(r) \/ Abort(r) \/ Crash(r)
      PROVE  SerialInv'
  <2>1. Others(r)
    BY <1>2, StartTouches, StepTouches DEF SerialInv, IInv
  <2>2. OneOpen'
    BY <2>1 DEF Others, OneOpen, Open
  <2>3. CandidateAgreesWithGroup'
    BY <1>2, OnlyCommits, CommitAgrees, AgreeKeeps DEF SerialInv
  <2>4. SessionInv(r)'
    BY <1>2, StartOrderly, StepOrderly
  <2>5. \A q \in Requests : SessionInv(q)'
    BY <2>1, <2>4, OthersKeep
  <2> QED
    BY <1>1, <2>2, <2>3, <2>5 DEF SerialInv
<1>3. CASE UNCHANGED vars
  <2>1. OneOpen' /\ CandidateAgreesWithGroup'
    BY <1>3 DEF SerialInv, OneOpen, Open, CandidateAgreesWithGroup, vars, database
  <2>2. ASSUME NEW r \in Requests
        PROVE  SessionInv(r)'
    <3>1. SessionInv(r)
      BY DEF SerialInv
    <3> QED
      BY <1>3, <3>1, Unmoved DEF vars, database, locks
  <2> QED
    BY <1>1, <2>1, <2>2 DEF SerialInv
<1> QED
  BY <1>2, <1>3 DEF Next

\* It holds at first.
LEMMA SerialInit == Init => SerialInv
<1> SUFFICES ASSUME Init
             PROVE  SerialInv
  OBVIOUS
<1>1. OneOpen /\ CandidateAgreesWithGroup
  BY DEF Init, OneOpen, Open, CandidateAgreesWithGroup, Nothing, Absent
<1>2. ASSUME NEW r \in Requests
      PROVE  SessionInv(r)
  <2>1. pc[r] = "idle"
    BY DEF Init
  <2>2. Empty(r) /\ Current(r)
    BY ConstantsAssumption DEF Init, Empty, Current, Nothing, Free
  <2> QED
    BY <2>1, <2>2 DEF SessionInv, Active
<1> QED
  BY <1>1, <1>2, InvariantInit DEF SerialInv

\* When requests do not overlap, a candidate is marked matched or confirmed
\* exactly while a group of its pair is, for any number of requests and pairs.
THEOREM CandidatesAgree ==
  ASSUME Serial
  PROVE  Spec => []CandidateAgreesWithGroup
<1>1. SerialInv => CandidateAgreesWithGroup
  BY DEF SerialInv
<1> QED
  BY <1>1, SerialInit, SerialInductive, PTL DEF Spec

\* A request that matched and is past it has committed.
LEMMA OnlyCommitFinishes ==
  ASSUME TypeOK, NEW q \in Requests, Start(q) \/ Step(q) \/ Abort(q) \/ Crash(q),
         NEW r \in Requests, pc[r] # "finish", pc'[r] = "finish"
  PROVE  Commit(r)
<1>1. \/ Commit(q) \/ pc' = pc
      \/ \E next \in PCs \ {"finish"} : pc' = [pc EXCEPT ![q] = next]
  <2> USE DEF Goto, PCs
  <2>1. ASSUME Start(q)
        PROVE  \E next \in PCs \ {"finish"} : pc' = [pc EXCEPT ![q] = next]
    BY <2>1 DEF Start, Begin, StartRun, StartConfirm, StartManual, StartIgnore, StartUnmatch
  <2>2. ASSUME Rollback(q) \/ Crash(q)
        PROVE  \E next \in PCs \ {"finish"} : pc' = [pc EXCEPT ![q] = next]
    BY <2>2 DEF Rollback, Crash, Release
  <2>3. ASSUME NEW p \in Pairs, InsertGroup(q, p) \/ JoinGroup(q, p)
        PROVE  \E next \in PCs \ {"finish"} : pc' = [pc EXCEPT ![q] = next]
    BY <2>3 DEF InsertGroup, JoinGroup, Matched
  <2>4. ASSUME NEW p \in Pairs,
               \/ Rescore(q, p) \/ ScoreNew(q, p) \/ InsertCandidate(q, p)
               \/ BlockCandidate(q, p) \/ PickCandidate(q, p)
               \/ RejectCandidate(q, p) \/ IgnoreCandidate(q, p)
        PROVE  pc' = pc \/ \E next \in PCs \ {"finish"} : pc' = [pc EXCEPT ![q] = next]
    BY <2>4 DEF Rescore, ScoreNew, InsertCandidate, BlockCandidate, PickCandidate, RejectCandidate,
       IgnoreCandidate
  <2>5. ASSUME SurveyGroups(q) \/ Finish(q) \/ FinishFailed(q) \/ \E e \in Events : LockEvent(q, e)
        PROVE  pc' = pc \/ \E next \in PCs \ {"finish"} : pc' = [pc EXCEPT ![q] = next]
    BY <2>5 DEF SurveyGroups, Finish, FinishFailed, LockEvent
  <2> QED
    BY <2>1, <2>2, <2>3, <2>4, <2>5
       DEF Step, Abort, DuplicateCandidate, RefuseGroup, RefuseIgnore
<1>2. Commit(q) => \E next : pc' = [pc EXCEPT ![q] = next]
  BY DEF Commit, Release, Goto
<1>3. pc \in [Requests -> PCs]
  BY DEF TypeOK
<1> QED
  BY <1>1, <1>2, <1>3

\* A run commits what its matching has decided: everything.
LEMMA RunCommit ==
  ASSUME SerialInv, [Next]_vars, NEW r \in Requests, RunCommits(r)
  PROVE  /\ Commit(r) /\ TypeOK /\ kind[r] = "run"
         /\ Undecided(r) = {} /\ edit[r] = {}
         /\ Orderly(r) /\ Greedy(r) /\ Current(r)
<1>1. /\ TypeOK /\ kind[r] = "run" /\ pc[r] = "match" /\ todo[r] = {} /\ edit[r] = {}
      /\ Orderly(r) /\ Greedy(r) /\ Current(r)
  BY DEF SerialInv, SessionInv, IInv, EditKinds, RunCommits, AtCommit
<1>2. Undecided(r) = {}
  BY <1>1 DEF Undecided, Picked
<1>3. Commit(r)
  BY <1>1, OnlyCommitFinishes DEF RunCommits, Next, vars
<1> QED
  BY <1>1, <1>2, <1>3

\* Its groups, and those it saw, are then active.
LEMMA RunShows ==
  ASSUME TypeOK, NEW r \in Requests, Commit(r), kind[r] = "run", edit[r] = {},
         NEW g \in VisibleGroups(r)
  PROVE  g \in ActiveGroups'
<1>1. g[1] \in Pairs /\ g[2] \in Requests /\ g = <<g[1], g[2]>>
  BY DEF TypeOK, VisibleGroups, ActiveGroups
<1>2. group'[g[1]][g[2]] = IF g[2] = r /\ g[1] \in pending[r] THEN "AUTO_MATCHED"
                           ELSE group[g[1]][g[2]]
  BY <1>1 DEF Commit, GroupAfter, MatchedStatus
<1> QED
  BY <1>1, <1>2 DEF VisibleGroups, ActiveGroups, ActiveStatus

\* When requests do not overlap, a run leaves no certain pair it scored with both
\* events free, and sets one aside only for an older or an equally good group.
THEOREM RunsAreGreedy ==
  ASSUME Serial
  PROVE  Spec => RunIsGreedy
<1>1. SerialInv /\ [Next]_vars =>
        [\A r \in Requests : RunCommits(r) =>
           \A p \in Pairs :
              mem[r][p] \notin SettledStatuses \cup {Absent} /\ Score(p) >= AutoScore =>
                 \E g \in OnEvents(ActiveGroups', Legs(p)) :
                    g \in ActiveGroups \/ Score(g[1]) >= Score(p)]_vars
  <2> SUFFICES ASSUME SerialInv, [Next]_vars, NEW r \in Requests, RunCommits(r), NEW p \in Pairs,
                      Eligible(r, p)
               PROVE  \E g \in OnEvents(ActiveGroups', Legs(p)) :
                         g \in ActiveGroups \/ Score(g[1]) >= Score(p)
    BY DEF Eligible
  <2>1. /\ Commit(r) /\ TypeOK /\ kind[r] = "run" /\ edit[r] = {}
        /\ Undecided(r) = {} /\ Greedy(r)
    BY RunCommit
  <2>2. PICK g \in OnEvents(VisibleGroups(r), Legs(p)) :
          g \in ActiveGroups \/ Score(g[1]) >= Score(p)
    BY <2>1 DEF Greedy
  <2>3. g \in ActiveGroups'
    BY <2>1, <2>2, RunShows DEF OnEvents
  <2> QED
    BY <2>2, <2>3 DEF OnEvents
<1> QED
  BY <1>1, SerialInit, SerialInductive, PTL DEF Spec, RunIsGreedy

\* When requests do not overlap, a run overrides no user: what is confirmed,
\* rejected or ignored stays so, and so does every group.
THEOREM UsersPrevail ==
  ASSUME Serial
  PROVE  Spec => UserVerdictsStand
<1>1. SerialInv /\ [Next]_vars =>
        [\A r \in Requests : RunCommits(r) =>
           /\ \A p \in Pairs : candidate[p] \in SettledStatuses => candidate'[p] = candidate[p]
           /\ \A g \in ActiveGroups : group'[g[1]][g[2]] = group[g[1]][g[2]]]_vars
  <2> SUFFICES ASSUME SerialInv, [Next]_vars, NEW r \in Requests, RunCommits(r)
               PROVE  /\ \A p \in Pairs : candidate[p] \in SettledStatuses => candidate'[p] = candidate[p]
                      /\ \A g \in ActiveGroups : group'[g[1]][g[2]] = group[g[1]][g[2]]
    OBVIOUS
  <2>1. Commit(r) /\ TypeOK /\ Orderly(r) /\ Current(r) /\ edit[r] = {}
    BY RunCommit
  <2>2. ASSUME NEW p \in Pairs, candidate[p] \in SettledStatuses
        PROVE  candidate'[p] = candidate[p]
    BY <2>1, <2>2, CommitView DEF Orderly
  <2>3. ASSUME NEW g \in ActiveGroups
        PROVE  group'[g[1]][g[2]] = group[g[1]][g[2]]
    <3>1. g[1] \in Pairs /\ g[2] \in Requests
      BY DEF ActiveGroups
    <3>2. g[1] \notin pending[r]
      <4> SUFFICES ASSUME g[1] \in pending[r]
                   PROVE  FALSE
        OBVIOUS
      <4>1. OnEvents(ActiveGroups, Legs(g[1])) = {}
        BY DEF SerialInv, IInv, PendingProtected
      <4>2. g \in OnEvents(ActiveGroups, Legs(g[1]))
        BY <3>1, LegsInEvents DEF OnEvents
      <4> QED
        BY <4>1, <4>2
    <3> QED
      BY <2>1, <3>1, <3>2 DEF Commit, GroupAfter
  <2> QED
    BY <2>2, <2>3
<1> QED
  BY <1>1, SerialInit, SerialInductive, PTL DEF Spec, UserVerdictsStand
================================================================================
