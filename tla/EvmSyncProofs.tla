---------------------------- MODULE EvmSyncProofs ----------------------------
(***************************************************************************)
(* Proofs about EvmSync: its types; no transaction is posted twice; the     *)
(* block cursor covers what it claims; only confirmed transactions are     *)
(* posted; a run that succeeded missed nothing.                            *)
(***************************************************************************)
EXTENDS EvmSync, TLAPS

-----------------------------------------------------------------------------
(* Type correctness. *)

\* Giving a session a well-typed value keeps the types.
LEMMA BecomeType ==
  ASSUME TypeOK, NEW r \in Runs, NEW s \in Session, Become(r, s),
         s.pc # "idle" => s.request \in Requests
  PROVE  TypeOK'
  BY DEF TypeOK, Become, At, chain, database

\* A session that has ended is well typed.
LEMMA IdleType ==
  ASSUME NEW status \in Statuses
  PROVE  Idle(status) \in Session
  BY ConstantsAssumption DEF Idle, Session, PCs, Blocks

\* Subtraction that stops at zero.
LEMMA MinusType ==
  ASSUME NEW a \in Nat, NEW b \in Nat
  PROVE  Minus(a, b) \in Nat /\ Minus(a, b) <= a
  BY DEF Minus

\* A head is a block of the chain, and no later than the true one.
LEMMA HeadsType ==
  ASSUME TypeOK, NEW latest \in Heads
  PROVE  latest \in 0..head /\ latest \in Blocks
  BY ConstantsAssumption DEF Heads, TypeOK, Blocks

\* The planned range.
LEMMA RangeType ==
  ASSUME TypeOK, NEW request \in Requests, NEW confirmed \in Blocks
  PROVE  LET to == ToBlock(request, confirmed)
         IN /\ to \in Blocks
            /\ FromBlock(request, to) \in 0..to
            /\ FromBlock(request, to) \in Blocks
<1>1. /\ request.from_block \in Blocks \cup {NoBlock}
      /\ request.to_block \in Blocks \cup {NoBlock}
  BY ConstantsAssumption DEF EvmSyncRequest
<1>2. ToBlock(request, confirmed) \in Blocks
  BY <1>1 DEF ToBlock
<1>3. ASSUME NEW to \in Blocks
      PROVE  FromBlock(request, to) \in 0..to
  <2>1. Lookback \in Nat /\ to \in Nat /\ to + 1 \in Nat
    BY ConstantsAssumption DEF Blocks
  <2>2. Minus(to + 1, Lookback) \in Nat
    BY <2>1, MinusType
  <2>3. cursor # NoBlock => cursor + 1 \in Nat
    BY DEF TypeOK, Blocks
  <2>4. request.from_block # NoBlock => request.from_block \in Nat
    BY <1>1 DEF Blocks
  <2> QED
    BY <2>2, <2>3, <2>4, ConstantsAssumption DEF FromBlock, Blocks
<1> DEFINE to == ToBlock(request, confirmed)
<1>4. to \in Blocks /\ FromBlock(request, to) \in 0..to
  BY <1>2, <1>3
<1>5. FromBlock(request, to) \in Blocks
  <2> HIDE DEF to
  <2> QED BY <1>4, ConstantsAssumption DEF Blocks
<1> QED
  BY <1>4, <1>5

\* Planning keeps the types.
LEMMA PlanType ==
  ASSUME TypeOK, NEW r \in Runs, NEW request \in Requests, Plan(r, request)
  PROVE  TypeOK'
<1>1. PICK latest \in Heads :
        LET confirmed == Minus(latest, Confirmations)
            to   == ToBlock(request, confirmed)
            from == FromBlock(request, to)
        IN Become(r, Planned(request, from, to))
  BY Zenon DEF Plan
<1> DEFINE confirmed == Minus(latest, Confirmations)
           to   == ToBlock(request, confirmed)
           from == FromBlock(request, to)
<1>2. confirmed \in Blocks
  <2>1. latest \in Nat /\ latest <= MaxBlock /\ Confirmations \in Nat
    BY HeadsType, ConstantsAssumption DEF Blocks
  <2>2. Minus(latest, Confirmations) \in Nat /\ Minus(latest, Confirmations) <= latest
    BY <2>1, MinusType
  <2> QED
    BY <2>1, <2>2, ConstantsAssumption DEF Blocks
<1>3. to \in Blocks /\ from \in Blocks
  BY <1>2, RangeType
<1> HIDE DEF from, to, confirmed
<1>4. Planned(request, from, to) \in Session /\ Planned(request, from, to).request = request
  <2>1. Idle("running") \in Session
    BY IdleType DEF Statuses
  <2> QED
    BY <1>3, <2>1 DEF Planned, Session, PCs
<1>5. Become(r, Planned(request, from, to))
  BY <1>1 DEF from, to, confirmed
<1> QED
  BY <1>4, <1>5, BecomeType

\* The steps that drop the session.
LEMMA DropType ==
  ASSUME TypeOK, NEW r \in Runs, NEW status \in Statuses, Become(r, Idle(status))
  PROVE  TypeOK'
  BY IdleType, BecomeType DEF Idle

\* Each field that a reading step sets keeps the session one, and its request.
LEMMA SetField ==
  ASSUME NEW s \in Session
  PROVE  /\ \A v \in PCs :
            LET n == [s EXCEPT !.pc = v] IN n \in Session /\ n.request = s.request
         /\ \A v \in SUBSET Txs :
            LET n == [s EXCEPT !.hashes = v] IN n \in Session /\ n.request = s.request
         /\ \A v \in SUBSET Contracts :
            LET n == [s EXCEPT !.tokens = v] IN n \in Session /\ n.request = s.request
         /\ \A v \in SUBSET Txs :
            LET n == [s EXCEPT !.txs = v] IN n \in Session /\ n.request = s.request
         /\ \A v \in SUBSET Txs :
            LET n == [s EXCEPT !.receipts = v] IN n \in Session /\ n.request = s.request
         /\ \A v \in SUBSET Blocks :
            LET n == [s EXCEPT !.blocks = v] IN n \in Session /\ n.request = s.request
         /\ \A v \in BOOLEAN :
            LET n == [s EXCEPT !.failed = v] IN n \in Session /\ n.request = s.request
         /\ \A v \in BOOLEAN :
            LET n == [s EXCEPT !.warned = v] IN n \in Session /\ n.request = s.request
<1>1. \A v \in PCs :
            LET n == [s EXCEPT !.pc = v] IN n \in Session /\ n.request = s.request
  BY DEF Session
<1>2. \A v \in SUBSET Txs :
            LET n == [s EXCEPT !.hashes = v] IN n \in Session /\ n.request = s.request
  BY DEF Session
<1>3. \A v \in SUBSET Contracts :
            LET n == [s EXCEPT !.tokens = v] IN n \in Session /\ n.request = s.request
  BY DEF Session
<1>4. \A v \in SUBSET Txs :
            LET n == [s EXCEPT !.txs = v] IN n \in Session /\ n.request = s.request
  BY DEF Session
<1>5. \A v \in SUBSET Txs :
            LET n == [s EXCEPT !.receipts = v] IN n \in Session /\ n.request = s.request
  BY DEF Session
<1>6. \A v \in SUBSET Blocks :
            LET n == [s EXCEPT !.blocks = v] IN n \in Session /\ n.request = s.request
  BY DEF Session
<1>7. \A v \in BOOLEAN :
            LET n == [s EXCEPT !.failed = v] IN n \in Session /\ n.request = s.request
  BY DEF Session
<1>8. \A v \in BOOLEAN :
            LET n == [s EXCEPT !.warned = v] IN n \in Session /\ n.request = s.request
  BY DEF Session
<1> QED
  BY <1>1, <1>2, <1>3, <1>4, <1>5, <1>6, <1>7, <1>8

\* The steps that read the node put sets of the right kind into the session.
LEMMA CollectType ==
  ASSUME TypeOK, NEW r \in Runs,
         TransferLogs(r) \/ NativeTransactions(r) \/ HydrateTransactions(r)
             \/ HydrateReceiptsAndBlocks(r)
  PROVE  TypeOK'
<1> DEFINE s == run[r]
<1>1. s \in Session /\ s.request \in Requests
  BY DEF TypeOK, At, TransferLogs, NativeTransactions, HydrateTransactions,
         HydrateReceiptsAndBlocks
<1>2. \A t \in Txs : BlockOf(t) \in Blocks
  BY ConstantsAssumption DEF BlockOf, Transaction
<1>3. \A answer : Has(answer, "error") \in BOOLEAN /\ Answered(answer) \subseteq DOMAIN answer
  BY DEF Has, Answered
<1>4. CASE TransferLogs(r)
  <2>1. PICK answer \in [Filters(s.from, s.to) -> Answers] : Become(r, LogsRead(s, answer))
    BY <1>4 DEF TransferLogs
  <2>2. s.request.transaction_hashes \cup LoggedTxs(answer) \subseteq Txs
    BY <1>1, ConstantsAssumption DEF EvmSyncRequest, LoggedTxs
  <2>3. LoggedTokens(answer) \subseteq Contracts
    BY DEF LoggedTokens
  <2>4. LogsRead(s, answer) \in Session /\ LogsRead(s, answer).request = s.request
    <3> DEFINE a == [s EXCEPT !.pc = "native"]
               b == [a EXCEPT !.hashes = s.request.transaction_hashes \cup LoggedTxs(answer)]
               c == [b EXCEPT !.tokens = LoggedTokens(answer)]
               d == [c EXCEPT !.failed = Has(answer, "error")]
    <3> HIDE DEF s
    <3>1. a \in Session /\ a.request = s.request
      BY <1>1, SetField DEF PCs
    <3> HIDE DEF a
    <3>2. b \in Session /\ b.request = s.request
      BY <3>1, <2>2, SetField
    <3> HIDE DEF b
    <3>3. c \in Session /\ c.request = s.request
      BY <3>2, <2>3, SetField
    <3> HIDE DEF c
    <3>4. d \in Session /\ d.request = s.request
      BY <3>3, <1>3, SetField
    <3> HIDE DEF d
    <3> USE DEF a, b, c, d
    <3> QED
      BY <3>4 DEF LogsRead
  <2> QED
    BY <1>1, <2>1, <2>4, BecomeType
<1>5. CASE NativeTransactions(r)
  <2>1. PICK answer \in [NativeWindow(s.from, s.to) -> Answers],
             refused \in {FALSE, "error" \in Answers} :
          Become(r, NativeRead(s, answer, refused))
    BY <1>5 DEF NativeTransactions
  <2>2. Answered(answer) \subseteq Blocks
    <3>1. s.from \in Blocks /\ s.to \in Blocks
      BY <1>1 DEF Session
    <3> HIDE DEF s
    <3>2. NativeWindow(s.from, s.to) \subseteq Blocks
      <4>1. ScanMax \in Nat \ {0} /\ MaxBlock \in Nat
        BY ConstantsAssumption
      <4> QED
        BY <3>1, <4>1 DEF NativeWindow, Blocks
    <3> QED
      BY <3>2, <1>3 DEF s
  <2>3. (s.failed \/ Has(answer, "error")) \in BOOLEAN
        /\ (refused \/ s.to - s.from + 1 > ScanMax) \in BOOLEAN
    BY Zenon
  <2>4. NativeRead(s, answer, refused) \in Session
        /\ NativeRead(s, answer, refused).request = s.request
    <3> DEFINE a == [s EXCEPT !.pc = "transactions"]
               b == [a EXCEPT !.blocks = Answered(answer)]
               c == [b EXCEPT !.txs = {t \in Txs : Chain[t].direct /\ BlockOf(t) \in Answered(answer)}]
               d == [c EXCEPT !.failed = (s.failed \/ Has(answer, "error"))]
               e == [d EXCEPT !.warned = (refused \/ s.to - s.from + 1 > ScanMax)]
    <3> HIDE DEF s
    <3>1. a \in Session /\ a.request = s.request
      BY <1>1, SetField DEF PCs
    <3> HIDE DEF a
    <3>2. b \in Session /\ b.request = s.request
      BY <3>1, <2>2, SetField
    <3> HIDE DEF b
    <3>3. c \in Session /\ c.request = s.request
      BY <3>2, SetField
    <3> HIDE DEF c
    <3>4. d \in Session /\ d.request = s.request
      BY <3>3, <2>3, SetField
    <3> HIDE DEF d
    <3>5. e \in Session /\ e.request = s.request
      BY <3>4, <2>3, SetField
    <3> HIDE DEF e
    <3> USE DEF a, b, c, d, e
    <3> QED
      BY <3>5 DEF NativeRead
  <2> QED
    BY <1>1, <2>1, <2>4, BecomeType
<1>6. CASE HydrateTransactions(r)
  <2>1. PICK answer \in [s.hashes \ s.txs -> Answers] :
          Become(r, TransactionsRead(s, answer))
    BY <1>6 DEF HydrateTransactions
  <2>2. Answered(answer) \subseteq Txs /\ s.txs \subseteq Txs
    BY <1>1, <1>3 DEF Session
  <2>3. (s.failed \/ Has(answer, "error")) \in BOOLEAN
        /\ (s.warned \/ Has(answer, "error")) \in BOOLEAN
    BY Zenon
  <2>4. TransactionsRead(s, answer) \in Session
        /\ TransactionsRead(s, answer).request = s.request
    <3> DEFINE a == [s EXCEPT !.pc = "receipts"]
               b == [a EXCEPT !.hashes = {}]
               c == [b EXCEPT !.txs = s.txs \cup {t \in Answered(answer) : BlockOf(t) <= head}]
               d == [c EXCEPT !.failed = (s.failed \/ Has(answer, "error"))]
               e == [d EXCEPT !.warned = (s.warned \/ Has(answer, "error"))]
    <3> HIDE DEF s
    <3>1. a \in Session /\ a.request = s.request
      BY <1>1, SetField DEF PCs
    <3> HIDE DEF a
    <3>2. b \in Session /\ b.request = s.request
      BY <3>1, SetField
    <3> HIDE DEF b
    <3>3. c \in Session /\ c.request = s.request
      BY <3>2, <2>2, SetField
    <3> HIDE DEF c
    <3>4. d \in Session /\ d.request = s.request
      BY <3>3, <2>3, SetField
    <3> HIDE DEF d
    <3>5. e \in Session /\ e.request = s.request
      BY <3>4, <2>3, SetField
    <3> HIDE DEF e
    <3> USE DEF a, b, c, d, e
    <3> QED
      BY <3>5 DEF TransactionsRead
  <2> QED
    BY <1>1, <2>1, <2>4, BecomeType
<1>7. CASE HydrateReceiptsAndBlocks(r)
  <2>1. PICK receipt \in [s.txs -> Answers] :
          LET asked == {BlockOf(t) : t \in {u \in s.txs : receipt[u] # "error"}}
          IN \E block \in [asked \ s.blocks -> Answers] :
               Become(r, ReceiptsRead(s, receipt, block))
    BY <1>7 DEF HydrateReceiptsAndBlocks
  <2> DEFINE asked == {BlockOf(t) : t \in {u \in s.txs : receipt[u] # "error"}}
  <2>2. PICK block \in [asked \ s.blocks -> Answers] :
          Become(r, ReceiptsRead(s, receipt, block))
    BY <2>1
  <2>3. /\ Answered(receipt) \subseteq Txs
        /\ Answered(block) \subseteq Blocks /\ s.blocks \subseteq Blocks
    BY <1>1, <1>2, <1>3 DEF Session
  <2>4. (s.failed \/ Has(receipt, "error") \/ Has(block, "error")) \in BOOLEAN
        /\ (s.warned \/ Has(receipt, "error") \/ Has(block, "error")) \in BOOLEAN
    BY Zenon
  <2>5. ReceiptsRead(s, receipt, block) \in Session
        /\ ReceiptsRead(s, receipt, block).request = s.request
    <3> DEFINE a == [s EXCEPT !.pc = "persist"]
               b == [a EXCEPT !.receipts = Answered(receipt)]
               c == [b EXCEPT !.blocks = s.blocks \cup Answered(block)]
               d == [c EXCEPT !.failed = (s.failed \/ Has(receipt, "error") \/ Has(block, "error"))]
               e == [d EXCEPT !.warned = (s.warned \/ Has(receipt, "error") \/ Has(block, "error"))]
    <3> HIDE DEF s
    <3>1. a \in Session /\ a.request = s.request
      BY <1>1, SetField DEF PCs
    <3> HIDE DEF a
    <3>2. b \in Session /\ b.request = s.request
      BY <3>1, <2>3, SetField
    <3> HIDE DEF b
    <3>3. c \in Session /\ c.request = s.request
      BY <3>2, <2>3, SetField
    <3> HIDE DEF c
    <3>4. d \in Session /\ d.request = s.request
      BY <3>3, <2>4, SetField
    <3> HIDE DEF d
    <3>5. e \in Session /\ e.request = s.request
      BY <3>4, <2>4, SetField
    <3> HIDE DEF e
    <3> USE DEF a, b, c, d, e
    <3> QED
      BY <3>5 DEF ReceiptsRead
  <2> QED
    BY <1>1, <2>2, <2>5, BecomeType
<1> QED
  BY <1>4, <1>5, <1>6, <1>7

LEMMA LearnType ==
  ASSUME NEW s \in Session, NEW contracts \in SUBSET Contracts,
         NEW metadata \in [Unknown(s, contracts) -> Answers]
  PROVE  /\ Learn(metadata, s) \in Session
         /\ Learn(metadata, s).request = s.request
<1>1. DOMAIN metadata \subseteq Contracts /\ Answered(metadata) \subseteq Contracts
  BY DEF Unknown, Answered
<1>2. Has(metadata, "error") \in BOOLEAN
  BY DEF Has
<1> QED
  BY <1>1, <1>2 DEF Learn, Session

\* The steps that prepare what the transaction will store.
LEMMA PrepareType ==
  ASSUME TypeOK, NEW r \in Runs, PersistTransactions(r) \/ SyncBalances(r)
  PROVE  TypeOK'
<1> DEFINE s == run[r]
<1>1. s \in Session /\ s.request \in Requests
  BY DEF TypeOK, At, PersistTransactions, SyncBalances
<1>2. CASE PersistTransactions(r)
  <2> DEFINE touched == UNION {Tokens(t) : t \in Posts(s)}
  <2>1. PICK kept \in SUBSET Contracts, metadata \in [Unknown(s, touched) -> Answers] :
          Become(r, Persisted(s, kept, metadata))
    BY <1>2 DEF PersistTransactions
  <2>2. /\ Todo(s) \subseteq Txs /\ Posts(s) \subseteq Txs
        /\ {t \in s.txs : raw[t] = "absent"} \subseteq Txs
    BY <1>1 DEF Todo, Posts, Session
  <2>3. touched \subseteq Contracts
    BY <2>2, ConstantsAssumption DEF Tokens, Transaction
  <2> DEFINE capped == kept # s.request.token_contracts \cup KnownContracts \cup s.tokens
             z == [s EXCEPT
                     !.pc = "balances",
                     !.fresh = {t \in s.txs : raw[t] = "absent"},
                     !.posts = Posts(s),
                     !.unposted = Todo(s) \ s.receipts,
                     !.contracts = kept,
                     !.warned = s.warned \/ Todo(s) \ s.receipts # {} \/ capped]
  <2>4. z \in Session /\ z.request = s.request /\ z.learned = s.learned /\ z.guessed = s.guessed
    <3>1. (s.warned \/ Todo(s) \ s.receipts # {} \/ capped) \in BOOLEAN
      BY Zenon
    <3> HIDE DEF s, capped
    <3> QED
      BY <1>1, <2>2, <3>1 DEF Session, PCs
  <2>5. Persisted(s, kept, metadata) = Learn(metadata, z)
    BY DEF Persisted
  <2>6. Unknown(z, touched) = Unknown(s, touched)
    <3> HIDE DEF z, s, touched
    <3> QED
      BY <2>4 DEF Unknown
  <2>7. Learn(metadata, z) \in Session /\ Learn(metadata, z).request = s.request
    <3> HIDE DEF z, s, touched
    <3> QED
      BY <2>3, <2>4, <2>6, LearnType
  <2> HIDE DEF z
  <2> QED
    BY <1>1, <2>1, <2>5, <2>7, BecomeType
<1>3. CASE SyncBalances(r)
  <2>1. PICK block \in IF s.to \in s.blocks THEN {"value"} ELSE Answers,
             answer \in [s.contracts \cup {Native} -> Answers],
             metadata \in [Unknown(s, s.contracts) -> Answers] :
          Become(r, BalancesRead(s, block, answer, metadata))
    BY <1>3 DEF SyncBalances
  <2> DEFINE z == [s EXCEPT !.pc = "commit",
                            !.rows = NewRows(s, block = "value", answer),
                            !.warned = s.warned \/ Has(answer, "error")]
  <2>2. NewRows(s, block = "value", answer) \subseteq BalanceRow
    <3> HIDE DEF s
    <3>1. s.to \in Blocks /\ s.contracts \cup {Native} \subseteq Contracts \cup {Native}
      BY <1>1 DEF Session
    <3>2. \A dated \in BOOLEAN : NewRows(s, dated, answer) \subseteq BalanceRow
      BY <3>1 DEF NewRows, BalanceRow
    <3> QED
      BY <3>2
  <2>3. z \in Session /\ z.request = s.request /\ z.learned = s.learned /\ z.guessed = s.guessed
    <3>1. (s.warned \/ Has(answer, "error")) \in BOOLEAN
      BY Zenon
    <3> HIDE DEF s
    <3> QED
      BY <1>1, <2>2, <3>1 DEF Session, PCs
  <2>4. BalancesRead(s, block, answer, metadata) = Learn(metadata, z)
    BY DEF BalancesRead
  <2>5. Unknown(z, s.contracts) = Unknown(s, s.contracts) /\ s.contracts \subseteq Contracts
    <3> HIDE DEF z, s
    <3> QED
      BY <1>1, <2>3 DEF Unknown, Session
  <2>6. Learn(metadata, z) \in Session /\ Learn(metadata, z).request = s.request
    <3> HIDE DEF z, s
    <3> QED
      BY <2>3, <2>5, LearnType
  <2> HIDE DEF z
  <2> QED
    BY <1>1, <2>1, <2>4, <2>6, BecomeType
<1> QED
  BY <1>2, <1>3

\* So does a commit.
LEMMA CommitType ==
  ASSUME TypeOK, NEW r \in Runs, Commit(r)
  PROVE  TypeOK'
<1> DEFINE s == run[r]
<1>1. s \in Session
  BY DEF TypeOK
<1>2. run' \in [Runs -> Session] /\ \A q \in Runs : ~ At(q, "idle")' => run'[q].request \in Requests
  <2>1. [s EXCEPT !.pc = "finish"] \in Session
        /\ [s EXCEPT !.pc = "finish"].request = s.request
    <3> HIDE DEF s
    <3> QED BY <1>1 DEF Session, PCs
  <2>2. s.request \in Requests
    BY DEF TypeOK, Commit, At
  <2>3. run' = [run EXCEPT ![r] = [s EXCEPT !.pc = "finish"]]
    BY DEF Commit
  <2> HIDE DEF s
  <2> QED
    BY <2>1, <2>2, <2>3 DEF TypeOK, At
<1>3. raw' \in [Txs -> RawStatuses]
  <2>1. \A t \in Txs : RawAfter(s, t) \in RawStatuses
    BY DEF RawAfter, RawStatuses, TypeOK
  <2> QED
    BY <2>1 DEF Commit
<1>4. posted' \in [Txs -> Nat]
  BY DEF Commit, TypeOK
<1>5. misdated' \subseteq Txs
  BY <1>1 DEF Commit, TypeOK, Session
<1>6. decimals' \in [Contracts -> {"absent", "known", "fallback"}]
  BY DEF Commit, TypeOK
<1>7. balances' \subseteq BalanceRow
  <2>1. balances' = balances \cup s.rows
    BY DEF Commit
  <2> HIDE DEF s
  <2> QED
    BY <1>1, <2>1 DEF TypeOK, Session
<1>8. cursor' \in Blocks \cup {NoBlock} /\ since' \in Blocks \cup {NoBlock}
  <2>1. UpdateCursor(s)
    BY DEF Commit
  <2> HIDE DEF s
  <2> QED
    BY <1>1, <2>1 DEF UpdateCursor, TypeOK, Session
<1>9. UNCHANGED <<head, node>>
  BY DEF Commit, chain
<1> QED
  BY <1>2, <1>3, <1>4, <1>5, <1>6, <1>7, <1>8, <1>9 DEF TypeOK

\* The initial state has the types.
LEMMA TypeInit == Init => TypeOK
<1> SUFFICES ASSUME Init PROVE TypeOK
  OBVIOUS
<1>1. Idle("none") \in Session /\ Idle("none").pc = "idle"
  BY IdleType DEF Statuses, Idle
<1> QED
  BY <1>1, ConstantsAssumption DEF Init, TypeOK, RawStatuses, At

\* Every step keeps the types.
LEMMA TypeStep == TypeOK /\ [Next]_vars => TypeOK'
<1> SUFFICES ASSUME TypeOK, [Next]_vars PROVE TypeOK'
  OBVIOUS
<1>1. CASE Mine
  BY <1>1, ConstantsAssumption DEF Mine, TypeOK, database, Blocks, At
<1>2. CASE Recover
  BY <1>2 DEF Recover, TypeOK, database, At
<1>3. ASSUME NEW r \in Runs, NEW request \in Requests,
             Plan(r, request) \/ RefuseRange(r, request)
      PROVE  TypeOK'
  BY <1>3, PlanType, DropType DEF RefuseRange, Fail, Statuses
<1>4. ASSUME NEW r \in Runs, Step(r) \/ Crash(r)
      PROVE  TypeOK'
  <2>1. CASE BalancesFail(r) \/ Duplicate(r) \/ Finish(r) \/ Crash(r)
    BY <2>1, DropType DEF BalancesFail, Duplicate, Finish, Crash, Fail, Statuses
  <2> QED
    BY <1>4, <2>1, CollectType, PrepareType, CommitType DEF Step
<1>5. CASE UNCHANGED vars
  BY <1>5 DEF vars, chain, database, TypeOK, At
<1> QED
  BY <1>1, <1>2, <1>3, <1>4, <1>5 DEF Next

\* Every variable keeps its type, for any chain, any requests and any number of
\* overlapping syncs.
THEOREM EvmTypeCorrect == Spec => []TypeOK
  BY TypeInit, TypeStep, PTL DEF Spec

-----------------------------------------------------------------------------
(* A transaction is posted once. *)

\* Every step but a commit leaves the database as it is.
LEMMA OnlyCommitWrites ==
  ASSUME [Next]_vars
  PROVE  UNCHANGED database \/ \E r \in Runs : Commit(r)
<1>1. ASSUME NEW r \in Runs, NEW request \in Requests,
             Plan(r, request) \/ RefuseRange(r, request)
      PROVE  UNCHANGED database
  BY <1>1, Zenon DEF Plan, RefuseRange, Fail, Become
<1>2. ASSUME NEW r \in Runs, Step(r) \/ Crash(r)
      PROVE  UNCHANGED database \/ Commit(r)
  <2>1. ASSUME TransferLogs(r) \/ NativeTransactions(r) \/ HydrateTransactions(r)
               \/ HydrateReceiptsAndBlocks(r)
        PROVE  UNCHANGED database
    BY <2>1, Zenon DEF TransferLogs, NativeTransactions, HydrateTransactions,
       HydrateReceiptsAndBlocks, Become
  <2>2. ASSUME PersistTransactions(r) \/ SyncBalances(r)
        PROVE  UNCHANGED database
    BY <2>2, Zenon DEF PersistTransactions, SyncBalances, Become
  <2> QED
    BY <1>2, <2>1, <2>2 DEF Step, Crash, BalancesFail, Duplicate, Finish, Fail, Become
<1> QED
  BY <1>1, <1>2 DEF Next, Mine, Recover, vars

\* Nothing is posted at first.
LEMMA PostedInit == Init => PostedOnce
  BY DEF Init, PostedOnce

\* What a session posts has no event: otherwise it collides.
LEMMA CommitPosts ==
  ASSUME TypeOK, PostedOnce, NEW r \in Runs, Commit(r)
  PROVE  PostedOnce'
<1> DEFINE s == run[r]
<1>1. \A t \in Txs : /\ raw'[t] = RawAfter(s, t)
                     /\ posted'[t] = IF t \in s.posts THEN posted[t] + 1 ELSE posted[t]
  BY DEF Commit
<1>2. \A t \in Txs : posted[t] \in Nat
  BY DEF TypeOK
<1>3. \A t \in s.posts : ~ (posted[t] > 0)
  BY DEF Commit, Collides
<1> SUFFICES ASSUME NEW t \in Txs
             PROVE  posted'[t] <= 1 /\ (posted'[t] = 1 <=> raw'[t] = "normalized")
  BY DEF PostedOnce
<1>4. CASE t \in s.posts
  BY <1>1, <1>2, <1>3, <1>4 DEF RawAfter
<1>5. CASE t \notin s.posts
  BY <1>1, <1>2, <1>5 DEF RawAfter, PostedOnce
<1> QED
  BY <1>4, <1>5

\* Every step keeps PostedOnce.
LEMMA PostedStep == TypeOK /\ PostedOnce /\ [Next]_vars => PostedOnce'
<1> SUFFICES ASSUME TypeOK, PostedOnce, [Next]_vars PROVE PostedOnce'
  OBVIOUS
<1>1. CASE UNCHANGED database
  BY <1>1 DEF database, PostedOnce
<1> QED
  BY <1>1, OnlyCommitWrites, CommitPosts

\* However many syncs overlap, fail, die and are repeated, a transaction has at
\* most one ledger event, and it has one exactly when its raw event says so.
THEOREM NoDoublePosting == Spec => []PostedOnce
<1>1. Spec => []TypeOK
  BY EvmTypeCorrect
<1> QED
  BY <1>1, PostedInit, PostedStep, PTL DEF Spec

-----------------------------------------------------------------------------
(* The cursor. *)

\* A node that never answers null, and first syncs that do not overlap or that
\* look back to the first block.
Careful == /\ "null" \notin Faults
           /\ (\A q, r \in Runs : q = r) \/ MaxBlock < Lookback

\* Without errors everything that was asked was answered.
LEMMA AllAnswered ==
  ASSUME "null" \notin Faults, NEW S, NEW answer \in [S -> Answers],
         ~ Has(answer, "error")
  PROVE  Answered(answer) = S
<1>1. DOMAIN answer = S /\ \A call \in S : answer[call] \in Answers
  OBVIOUS
<1>2. \A call \in S : answer[call] # "error"
  BY <1>1 DEF Has
<1>3. \A x \in Answers : x \in {"value", "error"}
  BY DEF Answers
<1>4. \A call \in S : answer[call] = "value"
  BY <1>1, <1>2, <1>3
<1> QED
  BY <1>1, <1>4 DEF Answered

\* The database stays and the chain does not shrink: so does all that a session has.
LEMMA ProgressStays ==
  ASSUME TypeOK, NEW s, Progress(s), UNCHANGED database,
         s.to \in Nat, head' \in Nat, head <= head'
  PROVE  Progress(s)'
<1>1. head \in Nat
  BY ConstantsAssumption DEF TypeOK, Blocks
<1>2. Ranged(s) => Ranged(s)'
  BY <1>1 DEF Ranged
<1>3. /\ Resumes(s) => Resumes(s)'
      /\ Handled(s) => Handled(s)'
  BY DEF Resumes, Handled, Settled, database, Automatic
<1>4. /\ Logged(s) => Logged(s)'
      /\ Scanned(s) => Scanned(s)'
      /\ Found(s) => Found(s)'
      /\ Receipted(s) => Receipted(s)'
  BY DEF Logged, Scanned, Found, Receipted, Complete, InRange
<1> QED
  BY <1>2, <1>3, <1>4 DEF Progress

\* A step that changes only the session of r keeps the invariant if the new
\* session has what its stage asks.
LEMMA BecomeKeeps ==
  ASSUME IInv, TypeOK', NEW r \in Runs, NEW s, Become(r, s), Progress(s)
  PROVE  IInv'
<1>1. UNCHANGED database /\ head' = head
  BY DEF Become, chain
<1>2. run' = [run EXCEPT ![r] = s] /\ run \in [Runs -> Session] /\ run' \in [Runs -> Session]
  BY DEF Become, IInv, TypeOK
<1>3. PostedOnce' /\ CursorCovers' /\ (cursor = NoBlock <=> since = NoBlock)'
  BY <1>1 DEF IInv, PostedOnce, CursorCovers, Settled, database
<1>4. ASSUME NEW x, x.to \in Nat, Progress(x)
      PROVE  Progress(x)'
  <2>1. TypeOK /\ head \in Nat
    BY ConstantsAssumption DEF IInv, TypeOK, Blocks
  <2>2. head' \in Nat /\ head <= head'
    BY <1>1, <2>1
  <2> QED
    BY <1>1, <1>4, <2>1, <2>2, ProgressStays
<1>5. ASSUME NEW q \in Runs
      PROVE  Progress(run[q])'
  <2>1. Progress(run'[q])
    BY <1>2 DEF IInv
  <2>2. run'[q].to \in Nat
    BY <1>2 DEF Blocks, Session
  <2> QED
    BY <1>4, <2>1, <2>2 DEF Progress, Ranged, Resumes, Logged, Scanned, Found,
       Receipted, Handled, Settled, Complete, Automatic, InRange
<1> QED
  BY <1>3, <1>5 DEF IInv

\* A planned range ends at a confirmed block, whatever head the node reported.
LEMMA PlannedRange ==
  ASSUME TypeOK, NEW request \in Requests, NEW latest \in Heads, NEW to, NEW from,
         to = ToBlock(request, Minus(latest, Confirmations)),
         from = FromBlock(request, to),
         ~ Refused(from, to, Minus(latest, Confirmations))
  PROVE  /\ to \in Blocks /\ from \in Blocks /\ from <= to
         /\ to <= Minus(head, Confirmations) /\ to <= head
<1> DEFINE confirmed == Minus(latest, Confirmations)
<1>1. /\ latest \in Nat /\ latest <= head /\ latest <= MaxBlock
      /\ head \in Nat /\ Confirmations \in Nat
  BY HeadsType, ConstantsAssumption DEF TypeOK, Blocks
<1>2. /\ confirmed \in Nat /\ confirmed <= latest
      /\ confirmed <= Minus(head, Confirmations) /\ Minus(head, Confirmations) <= head
      /\ Minus(head, Confirmations) \in Nat
  BY <1>1, MinusType DEF Minus
<1>3. confirmed \in Blocks
  <2> HIDE DEF confirmed
  <2> QED
    BY <1>1, <1>2, ConstantsAssumption DEF Blocks
<1>4. ~ Refused(from, to, confirmed)
  OBVIOUS
<1>5. to \in Blocks /\ from \in 0 .. to /\ from \in Blocks
  BY <1>3, RangeType
<1> HIDE DEF confirmed
<1>6. to <= confirmed
  BY <1>2, <1>4, <1>5 DEF Refused, Blocks
<1> QED
  BY <1>1, <1>2, <1>5, <1>6 DEF Blocks

\* A planned range ends at a block the chain has and continues what is covered.
LEMMA PlanKeeps ==
  ASSUME IInv, TypeOK', NEW r \in Runs, NEW request \in Requests, Plan(r, request)
  PROVE  IInv'
<1>1. PICK latest \in Heads :
        LET confirmed == Minus(latest, Confirmations)
            to   == ToBlock(request, confirmed)
            from == FromBlock(request, to)
        IN /\ ~ Refused(from, to, confirmed)
           /\ Become(r, Planned(request, from, to))
  BY Zenon DEF Plan
<1> DEFINE confirmed == Minus(latest, Confirmations)
           to   == ToBlock(request, confirmed)
           from == FromBlock(request, to)
           s    == Planned(request, from, to)
<1>2. TypeOK /\ ~ Refused(from, to, confirmed)
  BY <1>1 DEF IInv
<1>4. to \in Blocks /\ from \in Blocks /\ from <= to /\ to <= head
  BY <1>2, PlannedRange
<1>6. Automatic(s) => from = (LET wanted == IF cursor # NoBlock THEN cursor + 1
                                            ELSE Minus(to + 1, Lookback)
                              IN IF wanted > to THEN to ELSE wanted)
  <2>1. s.request = request
    BY DEF Planned, Idle
  <2> HIDE DEF s, to
  <2> QED
    BY <2>1 DEF Automatic, FromBlock
<1> HIDE DEF from, to, confirmed
<1>7. s.from = from /\ s.to = to /\ s.pc = "logs"
  BY DEF Planned, Idle
<1> HIDE DEF s
<1>8. Ranged(s)
  BY <1>4, <1>7 DEF Ranged
<1>9. ASSUME Automatic(s), since # NoBlock, NEW t \in Txs, BlockOf(t) \in since .. (s.from - 1)
      PROVE  Settled(t)
  <2>1. cursor # NoBlock /\ cursor \in Nat /\ since \in Nat
    BY <1>2, <1>9 DEF IInv, TypeOK, Blocks
  <2>2. BlockOf(t) \in since .. cursor
    BY <1>4, <1>6, <1>7, <1>9, <2>1 DEF Blocks
  <2> QED
    BY <2>1, <2>2 DEF IInv, CursorCovers
<1>10. ASSUME Automatic(s), since = NoBlock, MaxBlock < Lookback
       PROVE  s.from = 0
  <2>1. cursor = NoBlock
    BY <1>10 DEF IInv
  <2>2. Lookback \in Nat /\ to \in Nat /\ to <= MaxBlock
    BY <1>4, ConstantsAssumption DEF Blocks
  <2>3. Minus(to + 1, Lookback) = 0
    BY <1>10, <2>2, ConstantsAssumption DEF Minus
  <2> QED
    BY <1>6, <1>7, <1>10, <2>1, <2>2, <2>3
<1>11. Progress(s)
  BY <1>7, <1>8, <1>9, <1>10 DEF Progress, Resumes
<1>12. Become(r, s)
  BY <1>1 DEF s, from, to, confirmed
<1> QED
  BY <1>11, <1>12, BecomeKeeps

\* The steps that drop the session.
LEMMA DropKeeps ==
  ASSUME IInv, TypeOK', NEW r \in Runs, NEW s, s.pc = "idle", Become(r, s)
  PROVE  IInv'
<1>1. Progress(s)
  BY DEF Progress
<1> QED
  BY <1>1, BecomeKeeps

\* The range of a session, and what holds of it by the range alone.
SameRange(n, s) == n.from = s.from /\ n.to = s.to /\ n.request = s.request

\* They carry over to the next stage.
LEMMA SameRangeKeeps ==
  ASSUME NEW s, NEW n, SameRange(n, s), Ranged(s), Resumes(s)
  PROVE  Ranged(n) /\ Resumes(n)
  BY DEF SameRange, Ranged, Resumes, Automatic

\* Each block of the range is in some chunk, so every log of the range is found.
LEMMA LogsFound ==
  ASSUME "null" \notin Faults, NEW s \in Session,
         NEW answer \in [Filters(s.from, s.to) -> Answers]
  PROVE  Logged(LogsRead(s, answer))
<1> DEFINE n == LogsRead(s, answer)
<1>1. /\ SameRange(n, s)
      /\ n.hashes = s.request.transaction_hashes \cup LoggedTxs(answer)
      /\ n.failed = Has(answer, "error")
  BY DEF LogsRead, Session, SameRange
<1> HIDE DEF n
<1> SUFFICES ASSUME ~ n.failed, NEW t \in Txs, InRange(n, t), Tokens(t) # {}
             PROVE  t \in n.hashes
  BY DEF Logged, n
<1>2. Answered(answer) = Filters(s.from, s.to)
  BY <1>1, AllAnswered
<1>3. PICK kind \in {"sent", "received"} : Chain[t][kind] # {}
  BY DEF Tokens
<1> DEFINE chunk == Chunk(s.from, s.to, BlockOf(t))
<1>4. BlockOf(t) \in s.from .. s.to
  BY <1>1 DEF InRange, SameRange
<1>5. BlockOf(t) \in chunk /\ <<chunk, kind>> \in Filters(s.from, s.to)
  BY <1>4 DEF Chunk, Filters
<1>6. LoggedBy(<<chunk, kind>>, t) # {}
  BY <1>3, <1>5 DEF LoggedBy
<1> HIDE DEF chunk
<1> QED
  BY <1>1, <1>2, <1>5, <1>6, Zenon DEF LoggedTxs

\* So a session that reads the logs keeps the invariant.
LEMMA LogsKeep ==
  ASSUME IInv, TypeOK', Careful, NEW r \in Runs, TransferLogs(r)
  PROVE  IInv'
<1> DEFINE s == run[r]
<1>1. PICK answer \in [Filters(s.from, s.to) -> Answers] : Become(r, LogsRead(s, answer))
  BY Zenon DEF TransferLogs
<1> DEFINE n == LogsRead(s, answer)
<1>2. s \in Session /\ s.pc = "logs" /\ Progress(s)
  BY DEF IInv, TypeOK, TransferLogs, At
<1>3. SameRange(n, s) /\ n.pc = "native"
  BY <1>2 DEF LogsRead, Session, SameRange
<1>4. Logged(n)
  BY <1>2, LogsFound DEF Careful
<1>5. Become(r, n)
  BY <1>1
<1> HIDE DEF n, s
<1>7. Progress(n)
  BY <1>2, <1>3, <1>4, SameRangeKeeps DEF Progress
<1> QED
  BY <1>5, <1>7, BecomeKeeps

\* A window that is not capped is the whole range.
LEMMA WindowScanned ==
  ASSUME "null" \notin Faults, NEW s \in Session,
         NEW answer \in [NativeWindow(s.from, s.to) -> Answers], NEW refused
  PROVE  /\ Scanned(NativeRead(s, answer, refused))
         /\ Logged(s) => Logged(NativeRead(s, answer, refused))
<1> DEFINE n == NativeRead(s, answer, refused)
<1>1. /\ SameRange(n, s) /\ n.hashes = s.hashes
      /\ n.txs = {t \in Txs : Chain[t].direct /\ BlockOf(t) \in Answered(answer)}
      /\ n.failed = (s.failed \/ Has(answer, "error"))
  BY DEF NativeRead, Session, SameRange
<1> HIDE DEF n
<1>2. Logged(s) => Logged(n)
  BY <1>1 DEF Logged, InRange, SameRange
<1>3. ASSUME Complete(n), NEW t \in Txs, InRange(n, t), Chain[t].direct
      PROVE  t \in n.txs
  <2>1. s.from \in Nat /\ s.to \in Nat /\ ScanMax \in Nat
    BY ConstantsAssumption DEF Session, Blocks
  <2>2. s.to - s.from + 1 <= ScanMax
    BY <1>1, <1>3 DEF Complete, SameRange
  <2>3. NativeWindow(s.from, s.to) = s.from .. s.to
    BY <2>1, <2>2 DEF NativeWindow
  <2>4. Answered(answer) = s.from .. s.to
    BY <1>1, <1>3, <2>3, AllAnswered DEF Complete
  <2> QED
    BY <1>1, <1>3, <2>4 DEF InRange, SameRange
<1> QED
  BY <1>2, <1>3 DEF Scanned, n

\* So a session that scans for native transactions keeps the invariant.
LEMMA NativeKeeps ==
  ASSUME IInv, TypeOK', Careful, NEW r \in Runs, NativeTransactions(r)
  PROVE  IInv'
<1> DEFINE s == run[r]
<1>1. PICK answer \in [NativeWindow(s.from, s.to) -> Answers],
           refused \in {FALSE, "error" \in Answers} : Become(r, NativeRead(s, answer, refused))
  BY Zenon DEF NativeTransactions
<1> DEFINE n == NativeRead(s, answer, refused)
<1>2. s \in Session /\ s.pc = "native" /\ Progress(s)
  BY DEF IInv, TypeOK, NativeTransactions, At
<1>3. SameRange(n, s) /\ n.pc = "transactions"
  BY <1>2 DEF NativeRead, Session, SameRange
<1>4. Scanned(n) /\ Logged(n)
  BY <1>2, WindowScanned DEF Careful, Progress
<1>5. Become(r, n)
  BY <1>1
<1> HIDE DEF n, s
<1>7. Progress(n)
  BY <1>2, <1>3, <1>4, SameRangeKeeps DEF Progress
<1> QED
  BY <1>5, <1>7, BecomeKeeps

\* Every transaction of the range is direct or has tokens, and was mined.
LEMMA RangeFound ==
  ASSUME "null" \notin Faults, TypeOK, NEW s \in Session,
         Ranged(s), Logged(s), Scanned(s),
         NEW answer \in [s.hashes \ s.txs -> Answers]
  PROVE  Found(TransactionsRead(s, answer))
<1> DEFINE n == TransactionsRead(s, answer)
<1>1. /\ SameRange(n, s)
      /\ n.txs = s.txs \cup {t \in Answered(answer) : BlockOf(t) <= head}
      /\ n.failed = (s.failed \/ Has(answer, "error"))
  BY DEF TransactionsRead, Session, SameRange
<1>2. s.from \in Nat /\ s.to \in Nat /\ head \in Nat
  BY ConstantsAssumption DEF Session, Blocks, TypeOK
<1> HIDE DEF n
<1> SUFFICES ASSUME Complete(n), NEW t \in Txs, InRange(n, t)
             PROVE  t \in n.txs
  BY DEF Found, n
<1>3. Complete(s) /\ InRange(s, t)
  BY <1>1 DEF Complete, InRange, SameRange
<1>4. BlockOf(t) <= head
  <2>1. s.to <= head /\ BlockOf(t) \in s.from .. s.to
    BY <1>3 DEF Ranged, InRange
  <2> QED
    BY <1>2, <2>1
<1>5. CASE t \in s.txs
  BY <1>1, <1>5
<1>6. CASE t \notin s.txs
  <2>1. Tokens(t) # {}
    BY <1>3, <1>6, ConstantsAssumption DEF Scanned, Tokens
  <2>2. t \in s.hashes
    BY <1>3, <2>1 DEF Logged, Complete
  <2>3. Answered(answer) = s.hashes \ s.txs
    BY <1>1, AllAnswered DEF Complete
  <2> QED
    BY <1>1, <1>4, <1>6, <2>2, <2>3
<1> QED
  BY <1>5, <1>6

\* So a session that reads the transactions keeps the invariant.
LEMMA TransactionsKeep ==
  ASSUME IInv, TypeOK', Careful, NEW r \in Runs, HydrateTransactions(r)
  PROVE  IInv'
<1> DEFINE s == run[r]
<1>1. PICK answer \in [s.hashes \ s.txs -> Answers] : Become(r, TransactionsRead(s, answer))
  BY Zenon DEF HydrateTransactions
<1> DEFINE n == TransactionsRead(s, answer)
<1>2. s \in Session /\ s.pc = "transactions" /\ Progress(s)
  BY DEF IInv, TypeOK, HydrateTransactions, At
<1>3. SameRange(n, s) /\ n.pc = "receipts"
  BY <1>2 DEF TransactionsRead, Session, SameRange
<1>4. Found(n)
  BY <1>2, RangeFound DEF Careful, Progress, IInv
<1>5. Become(r, n)
  BY <1>1
<1> HIDE DEF n, s
<1>7. Progress(n)
  BY <1>2, <1>3, <1>4, SameRangeKeeps DEF Progress
<1> QED
  BY <1>5, <1>7, BecomeKeeps

\* Every transaction has its receipt.
LEMMA ReceiptsKeep ==
  ASSUME IInv, TypeOK', Careful, NEW r \in Runs, HydrateReceiptsAndBlocks(r)
  PROVE  IInv'
<1> DEFINE s == run[r]
<1>1. PICK receipt \in [s.txs -> Answers] :
        LET asked == {BlockOf(t) : t \in {u \in run[r].txs : receipt[u] # "error"}}
        IN \E block \in [asked \ run[r].blocks -> Answers] :
             Become(r, ReceiptsRead(run[r], receipt, block))
  BY Zenon DEF HydrateReceiptsAndBlocks
<1>2. PICK block : Become(r, ReceiptsRead(s, receipt, block))
  BY <1>1, Zenon
<1> DEFINE n == ReceiptsRead(s, receipt, block)
<1>3. s \in Session /\ s.pc = "receipts" /\ Progress(s)
  BY DEF IInv, TypeOK, HydrateReceiptsAndBlocks, At
<1>4. /\ SameRange(n, s) /\ n.pc = "persist" /\ n.txs = s.txs
      /\ n.receipts = Answered(receipt)
      /\ n.failed = (s.failed \/ Has(receipt, "error") \/ Has(block, "error"))
  BY <1>3 DEF ReceiptsRead, Session, SameRange
<1>5. Become(r, n)
  BY <1>2
<1> HIDE DEF n, s
<1>6. Found(n)
  BY <1>3, <1>4 DEF Progress, Found, Complete, InRange, SameRange
<1>7. Receipted(n)
  BY <1>4, AllAnswered DEF Receipted, Careful
<1>8. Progress(n)
  BY <1>3, <1>4, <1>6, <1>7, SameRangeKeeps DEF Progress
<1> QED
  BY <1>5, <1>8, BecomeKeeps

\* What lacks an event and has a receipt and legs is to be posted.
LEMMA MissingHandled ==
  ASSUME TypeOK, NEW s \in Session, Receipted(s), NEW kept, NEW metadata
  PROVE  Handled(Persisted(s, kept, metadata))
<1> DEFINE n == Persisted(s, kept, metadata)
<1>1. n.txs = s.txs /\ n.posts = Posts(s) /\ n.failed = s.failed
  BY DEF Persisted, Learn, Session
<1>2. s.txs \subseteq Txs /\ \A t \in Txs : posted[t] \in Nat
  BY DEF Session, TypeOK
<1> HIDE DEF n
<1> SUFFICES ASSUME ~ n.failed, NEW t \in n.txs, HasLegs(t), ~ (posted[t] > 0)
             PROVE  t \in n.posts
  BY DEF Handled, n
<1>3. t \in s.txs /\ t \in s.receipts
  BY <1>1 DEF Receipted
<1>4. posted[t] = 0
  BY <1>2, <1>3
<1> QED
  BY <1>1, <1>3, <1>4 DEF Posts, Todo

\* So a session that prepares what it stores keeps the invariant.
LEMMA PersistKeeps ==
  ASSUME IInv, TypeOK', NEW r \in Runs, PersistTransactions(r)
  PROVE  IInv'
<1> DEFINE s == run[r]
<1>1. PICK kept \in SUBSET Contracts,
           metadata \in [Unknown(s, UNION {Tokens(t) : t \in Posts(s)}) -> Answers] :
        Become(r, Persisted(s, kept, metadata))
  BY Zenon DEF PersistTransactions
<1> DEFINE n == Persisted(s, kept, metadata)
<1>2. s \in Session /\ s.pc = "persist" /\ Progress(s)
  BY DEF IInv, TypeOK, PersistTransactions, At
<1>3. /\ SameRange(n, s) /\ n.pc = "balances" /\ n.txs = s.txs
      /\ n.receipts = s.receipts /\ n.failed = s.failed
  BY <1>2 DEF Persisted, Learn, Session, SameRange
<1>4. Become(r, n)
  BY <1>1
<1>5. Handled(n)
  BY <1>2, MissingHandled DEF Progress, IInv
<1> HIDE DEF n, s
<1>6. Found(n) /\ Receipted(n)
  BY <1>2, <1>3 DEF Progress, Found, Receipted, Complete, InRange, SameRange
<1>8. Progress(n)
  BY <1>2, <1>3, <1>5, <1>6, SameRangeKeeps DEF Progress
<1> QED
  BY <1>4, <1>8, BecomeKeeps

\* Reading balances changes none of it.
LEMMA BalancesKeep ==
  ASSUME IInv, TypeOK', NEW r \in Runs, SyncBalances(r)
  PROVE  IInv'
<1> DEFINE s == run[r]
<1>1. PICK block, answer, metadata : Become(r, BalancesRead(s, block, answer, metadata))
  BY Zenon DEF SyncBalances
<1> DEFINE n == BalancesRead(s, block, answer, metadata)
<1>2. s \in Session /\ s.pc = "balances" /\ Progress(s)
  BY DEF IInv, TypeOK, SyncBalances, At
<1>3. /\ SameRange(n, s) /\ n.pc = "commit" /\ n.txs = s.txs
      /\ n.receipts = s.receipts /\ n.posts = s.posts /\ n.failed = s.failed
  BY <1>2 DEF BalancesRead, Learn, Session, SameRange
<1>4. Become(r, n)
  BY <1>1
<1> HIDE DEF n, s
<1>5. Found(n) /\ Receipted(n) /\ Handled(n)
  BY <1>2, <1>3 DEF Progress, Found, Receipted, Handled, Complete, InRange, SameRange
<1>6. Progress(n)
  BY <1>2, <1>3, <1>5, SameRangeKeeps DEF Progress
<1> QED
  BY <1>4, <1>6, BecomeKeeps

\* A commit only adds events, and what was settled stays so.
LEMMA CommitSettles ==
  ASSUME TypeOK, NEW r \in Runs, Commit(r)
  PROVE  /\ \A t \in Txs : posted'[t] \in Nat /\ posted'[t] >= posted[t]
         /\ \A t \in run[r].posts : posted'[t] > 0
         /\ \A t \in Txs : Settled(t) => Settled(t)'
<1> DEFINE s == run[r]
<1>1. \A t \in Txs : /\ raw'[t] = RawAfter(s, t)
                     /\ posted'[t] = IF t \in s.posts THEN posted[t] + 1 ELSE posted[t]
  BY DEF Commit
<1>2. (\A t \in Txs : posted[t] \in Nat) /\ s.posts \subseteq Txs
  BY DEF TypeOK, Session
<1> HIDE DEF s
<1>3. \A t \in Txs : raw[t] # "absent" => raw'[t] # "absent"
  BY <1>1 DEF RawAfter
<1>4. \A t \in Txs : posted'[t] \in Nat /\ posted'[t] >= posted[t]
  BY <1>1, <1>2
<1>5. \A t \in s.posts : posted'[t] > 0
  BY <1>1, <1>2
<1>6. \A t \in Txs : Settled(t) => Settled(t)'
  BY <1>2, <1>3, <1>4 DEF Settled, HasLegs, Tokens
<1> QED
  BY <1>4, <1>5, <1>6 DEF s

\* A session that missed nothing settles every transaction of its range.
LEMMA CommitCovers ==
  ASSUME TypeOK, PostedOnce, NEW r \in Runs, Commit(r), Complete(run[r]),
         Found(run[r]), Handled(run[r]),
         NEW t \in Txs, InRange(run[r], t)
  PROVE  Settled(t)'
<1> DEFINE s == run[r]
<1>1. s.posts \subseteq Txs
  BY DEF TypeOK, Session
<1>2. t \in s.txs
  BY DEF Found
<1>3. /\ raw'[t] = RawAfter(s, t)
      /\ posted'[t] = IF t \in s.posts THEN posted[t] + 1 ELSE posted[t]
      /\ posted[t] \in Nat /\ raw[t] \in RawStatuses
  BY DEF Commit, TypeOK
<1>4. posted[t] > 0 => raw[t] = "normalized"
  BY <1>3 DEF PostedOnce
<1>5. HasLegs(t) => posted[t] > 0 \/ t \in s.posts
  BY <1>2 DEF Handled, Complete
<1> HIDE DEF s
<1>6. raw'[t] # "absent"
  BY <1>2, <1>3, <1>4 DEF RawAfter
<1>7. HasLegs(t) => posted'[t] > 0
  BY <1>3, <1>5
<1> QED
  BY <1>6, <1>7 DEF Settled, HasLegs, Tokens

\* How a commit moves the cursor.
LEMMA CommitCursor ==
  ASSUME IInv, NEW r \in Runs, Commit(r)
  PROVE  /\ since' = since \/ (since = NoBlock /\ since' = run[r].from)
         /\ (cursor' = cursor /\ since' = since)
              \/ (cursor' = run[r].to /\ since' # NoBlock
                    /\ Complete(run[r]) /\ Automatic(run[r]))
         /\ (cursor' = NoBlock) <=> (since' = NoBlock)
<1>1. run[r].from \in Nat /\ run[r].to \in Nat
  BY DEF IInv, TypeOK, Session, Blocks
<1>2. run[r].from # NoBlock /\ run[r].to # NoBlock
  BY <1>1, ConstantsAssumption
<1>3. (cursor = NoBlock) <=> (since = NoBlock)
  BY DEF IInv
<1>4. UpdateCursor(run[r])
  BY DEF Commit
<1>5. CASE MovesCursor(run[r])
  <2>1. cursor' = run[r].to /\ since' = IF since = NoBlock THEN run[r].from ELSE since
    BY <1>4, <1>5 DEF UpdateCursor
  <2>2. Complete(run[r]) /\ Automatic(run[r])
    BY <1>5 DEF MovesCursor, Complete, Automatic
  <2> QED
    BY <1>2, <2>1, <2>2
<1>6. CASE ~ MovesCursor(run[r])
  BY <1>3, <1>4, <1>6 DEF UpdateCursor
<1> QED
  BY <1>5, <1>6

\* Below its range the cursor is covered already, and its range is settled now.
LEMMA CommitKeepsCover ==
  ASSUME IInv, NEW r \in Runs, Commit(r)
  PROVE  CursorCovers'
<1> SUFFICES ASSUME cursor' # NoBlock, NEW t \in Txs, BlockOf(t) \in since' .. cursor'
             PROVE  Settled(t)'
  BY DEF CursorCovers, BlockOf
<1>1. Settled(t) => Settled(t)'
  BY CommitSettles DEF IInv
<1>2. CASE cursor' = cursor /\ since' = since
  BY <1>1, <1>2 DEF IInv, CursorCovers
<1>3. CASE cursor' = run[r].to /\ Complete(run[r]) /\ Automatic(run[r]) /\ since' # NoBlock
  <2> DEFINE s == run[r]
  <2>1. s.from \in Nat /\ s.to \in Nat /\ BlockOf(t) \in Nat
    BY ConstantsAssumption DEF IInv, TypeOK, Session, Blocks, BlockOf, Transaction
  <2>2. s.pc = "commit" /\ Progress(s)
    BY DEF Commit, At, IInv
  <2>3. CASE BlockOf(t) >= s.from
    BY <1>3, <2>1, <2>2, <2>3, CommitCovers DEF InRange, IInv, Progress
  <2>4. CASE BlockOf(t) < s.from
    <3>1. since # NoBlock /\ since' = since
      <4>1. since' = since \/ (since = NoBlock /\ since' = s.from)
        BY CommitCursor
      <4> QED
        BY <1>3, <2>1, <2>4, <4>1
    <3>2. since \in Nat
      BY <3>1 DEF IInv, TypeOK, Blocks
    <3>3. BlockOf(t) \in since .. (s.from - 1)
      BY <2>1, <2>4, <3>1, <3>2
    <3>4. Settled(t)
      BY <1>3, <2>2, <3>1, <3>3 DEF Progress, Resumes
    <3> QED
      BY <1>1, <3>4
  <2> QED
    BY <2>1, <2>3, <2>4
<1> QED
  BY <1>2, <1>3, CommitCursor

\* The other sessions lose nothing by a commit: events are only added, and a
\* first sync that may overlap begins at the first block.
LEMMA CommitKeepsOthers ==
  ASSUME IInv, Careful, NEW r \in Runs, Commit(r), NEW q \in Runs, q # r
  PROVE  Progress(run[q])'
<1>1. MaxBlock < Lookback
  BY DEF Careful
<1>2. run'[q] = run[q] /\ head' = head
  BY DEF Commit, IInv, TypeOK, chain
<1> DEFINE s == run[q]
<1>3. Progress(s) /\ s.txs \subseteq Txs /\ s.from \in Nat
  BY DEF IInv, TypeOK, Session, Blocks
<1> HIDE DEF s
<1>4. ASSUME Resumes(s), Automatic(s), since' # NoBlock,
             NEW t \in Txs, BlockOf(t) \in since' .. (s.from - 1)
      PROVE  Settled(t)'
  <2>1. CASE since = NoBlock
    <3>1. s.from = 0
      BY <1>1, <1>4, <2>1 DEF Resumes
    <3>2. since' \in Nat
      BY <1>4, <2>1, CommitCursor DEF IInv, TypeOK, Session, Blocks
    <3> QED
      BY <1>4, <3>1, <3>2
  <2>2. CASE since # NoBlock
    <3>1. since' = since
      BY <2>2, CommitCursor
    <3>2. Settled(t)
      BY <1>4, <2>2, <3>1 DEF Resumes
    <3> QED
      BY <3>2, CommitSettles DEF IInv
  <2> QED
    BY <2>1, <2>2
<1>5. ASSUME Resumes(s), Automatic(s), since' = NoBlock
      PROVE  s.from = 0
  <2>1. since = NoBlock
    BY <1>5, CommitCursor
  <2> QED
    BY <1>1, <1>5, <2>1 DEF Resumes
<1>6. ASSUME Handled(s), ~ s.failed, NEW t \in s.txs, HasLegs(t)
      PROVE  posted'[t] > 0 \/ t \in s.posts
  <2>1. posted[t] > 0 \/ t \in s.posts
    BY <1>6 DEF Handled
  <2>2. posted'[t] \in Nat /\ posted'[t] >= posted[t] /\ posted[t] \in Nat
    BY <1>3, CommitSettles DEF IInv, TypeOK
  <2> QED
    BY <2>1, <2>2
<1>7. s = run[q] /\ s = run'[q]
  BY <1>2 DEF s
<1>8. Resumes(s) => Resumes(run[q])'
  BY <1>4, <1>5, <1>7 DEF Resumes, Automatic
<1>9. Handled(s) => Handled(run[q])'
  BY <1>6, <1>7 DEF Handled, HasLegs, Tokens
<1>10. /\ Ranged(s) => Ranged(run[q])'
       /\ Logged(s) => Logged(run[q])'
       /\ Scanned(s) => Scanned(run[q])'
       /\ Found(s) => Found(run[q])'
       /\ Receipted(s) => Receipted(run[q])'
  BY <1>2, <1>7 DEF Ranged, Logged, Scanned, Found, Receipted, Complete, InRange, BlockOf, Tokens
<1> QED
  BY <1>3, <1>7, <1>8, <1>9, <1>10 DEF Progress

\* A commit keeps the invariant.
LEMMA CommitKeeps ==
  ASSUME IInv, TypeOK', Careful, NEW r \in Runs, Commit(r)
  PROVE  IInv'
<1>1. PostedOnce'
  BY CommitPosts DEF IInv
<1>2. CursorCovers' /\ (cursor = NoBlock <=> since = NoBlock)'
  BY CommitKeepsCover, CommitCursor
<1>3. ASSUME NEW q \in Runs
      PROVE  Progress(run[q])'
  <2>1. CASE q = r
    <3>1. run'[q].pc = "finish"
      BY <2>1 DEF Commit, IInv, TypeOK, Session
    <3> QED
      BY <3>1 DEF Progress
  <2>2. CASE q # r
    BY <2>2, CommitKeepsOthers
  <2> QED
    BY <2>1, <2>2
<1> QED
  BY <1>1, <1>2, <1>3 DEF IInv

\* So do the steps of the chain and the node, and stuttering.
LEMMA MineKeeps ==
  ASSUME IInv, TypeOK', Mine \/ Recover \/ UNCHANGED vars
  PROVE  IInv'
<1>1. UNCHANGED database /\ run' = run /\ head \in Nat /\ (head' = head \/ head' = head + 1)
  BY ConstantsAssumption DEF IInv, TypeOK, Blocks, Mine, Recover, vars, chain
<1>2. PostedOnce' /\ CursorCovers' /\ (cursor = NoBlock <=> since = NoBlock)'
  BY <1>1 DEF IInv, PostedOnce, CursorCovers, Settled, database
<1>3. ASSUME NEW x, x.to \in Nat, Progress(x)
      PROVE  Progress(x)'
  <2>1. head' \in Nat /\ head <= head' /\ TypeOK
    BY <1>1 DEF IInv
  <2> QED
    BY <1>1, <1>3, <2>1, ProgressStays
<1>4. ASSUME NEW q \in Runs
      PROVE  Progress(run[q])'
  <2>1. Progress(run'[q]) /\ run'[q].to \in Nat
    BY <1>1 DEF IInv, TypeOK, Session, Blocks
  <2> QED
    BY <1>3, <2>1 DEF Progress, Ranged, Resumes, Logged, Scanned, Found,
       Receipted, Handled, Settled, Complete, Automatic, InRange
<1> QED
  BY <1>2, <1>4 DEF IInv

\* IInv is inductive when the node and the first syncs are as Careful says.
LEMMA StepKeeps == IInv /\ Careful /\ [Next]_vars => IInv'
<1> SUFFICES ASSUME IInv, Careful, [Next]_vars PROVE IInv'
  OBVIOUS
<1>1. TypeOK'
  BY TypeStep DEF IInv
<1>2. CASE Mine \/ Recover \/ UNCHANGED vars
  BY <1>1, <1>2, MineKeeps
<1>3. ASSUME NEW r \in Runs, NEW status, Become(r, Idle(status))
      PROVE  IInv'
  BY <1>1, <1>3, DropKeeps DEF Idle
<1>4. ASSUME NEW r \in Runs, NEW request \in Requests,
             Plan(r, request) \/ RefuseRange(r, request)
      PROVE  IInv'
  <2>1. CASE Plan(r, request)
    BY <1>1, <2>1, PlanKeeps
  <2>2. CASE RefuseRange(r, request)
    BY <1>3, <2>2, Zenon DEF RefuseRange, Fail
  <2> QED
    BY <1>4, <2>1, <2>2
<1>5. ASSUME NEW r \in Runs, Step(r) \/ Crash(r)
      PROVE  IInv'
  <2>1. CASE TransferLogs(r) \/ NativeTransactions(r) \/ HydrateTransactions(r)
             \/ HydrateReceiptsAndBlocks(r)
    BY <1>1, <2>1, LogsKeep, NativeKeeps, TransactionsKeep, ReceiptsKeep
  <2>2. CASE PersistTransactions(r) \/ SyncBalances(r) \/ Commit(r)
    BY <1>1, <2>2, PersistKeeps, BalancesKeep, CommitKeeps
  <2>3. CASE BalancesFail(r) \/ Duplicate(r) \/ Finish(r) \/ Crash(r)
    BY <1>3, <2>3 DEF BalancesFail, Duplicate, Finish, Crash, Fail
  <2> QED
    BY <1>5, <2>1, <2>2, <2>3 DEF Step
<1> QED
  BY <1>2, <1>4, <1>5 DEF Next

\* It holds at first.
LEMMA CursorInit == Init => IInv
<1> SUFFICES ASSUME Init PROVE IInv
  OBVIOUS
<1>1. TypeOK /\ PostedOnce
  BY TypeInit, PostedInit
<1>2. CursorCovers /\ (cursor = NoBlock <=> since = NoBlock)
  BY DEF Init, CursorCovers
<1>3. \A r \in Runs : Progress(run[r])
  BY DEF Init, Progress, Idle
<1> QED
  BY <1>1, <1>2, <1>3 DEF IInv

\* With a node that answers or errs but is never null, and first syncs that do
\* not overlap or look back to the first block, the cursor covers what it claims:
\* for every chain, every list of requests and every interleaving.
THEOREM CursorIsHonest ==
  ASSUME Careful
  PROVE  Spec => []CursorCovers
<1>1. Init => IInv
  BY CursorInit
<1>2. IInv /\ [Next]_vars => IInv'
  BY StepKeeps
<1>3. IInv => CursorCovers
  BY DEF IInv
<1> QED
  BY <1>1, <1>2, <1>3, PTL DEF Spec
-----------------------------------------------------------------------------
(* What is posted is confirmed. *)

\* Requests for ranges only: a transaction given by its hash is taken as it is.
RangesOnly == \A request \in Requests : request.transaction_hashes = {}

\* A session's range is confirmed, and what it gathers is not past the range.
Confirmed(s) ==
    /\ s.to <= Minus(head, Confirmations)
    /\ \A t \in s.hashes \cup s.txs \cup s.posts : BlockOf(t) <= s.to

\* The inductive invariant behind OnlyConfirmedIsPosted: the head only grows, so
\* a range that was confirmed when it was planned stays confirmed.
ConfirmedInv ==
    /\ TypeOK
    /\ OnlyConfirmedIsPosted
    /\ \A r \in Runs : Confirmed(run[r])

\* The last confirmed block is a number,
LEMMA ConfirmedType ==
  ASSUME TypeOK
  PROVE  Minus(head, Confirmations) \in Nat
<1>1. head \in Nat /\ Confirmations \in Nat
  BY ConstantsAssumption DEF TypeOK, Blocks
<1> QED
  BY <1>1 DEF Minus

\* and grows with the chain.
LEMMA ConfirmedGrows ==
  ASSUME TypeOK, TypeOK', head' >= head
  PROVE  /\ Minus(head, Confirmations)' \in Nat
         /\ Minus(head, Confirmations) <= Minus(head, Confirmations)'
<1>1. head \in Nat /\ head' \in Nat /\ Confirmations \in Nat
  BY ConstantsAssumption DEF TypeOK, Blocks
<1>2. Minus(head, Confirmations)' = Minus(head', Confirmations)
  BY DEF Minus
<1>3. ASSUME NEW a \in Nat, NEW b \in Nat, NEW c \in Nat, b >= a
      PROVE  Minus(b, c) \in Nat /\ Minus(a, c) <= Minus(b, c)
  BY <1>3 DEF Minus
<1> QED
  BY <1>1, <1>2, <1>3

\* A step that changes only the session of r keeps the invariant if the new
\* session gathers only what is confirmed.
LEMMA BecomeConfirmed ==
  ASSUME ConfirmedInv, TypeOK', NEW r \in Runs, NEW s, Become(r, s), Confirmed(s)
  PROVE  ConfirmedInv'
<1>1. posted' = posted /\ head' = head
  BY DEF Become, chain, database
<1>2. \A q \in Runs : run'[q] = IF q = r THEN s ELSE run[q]
  BY DEF Become, ConfirmedInv, TypeOK
<1>3. OnlyConfirmedIsPosted'
  BY <1>1 DEF ConfirmedInv, OnlyConfirmedIsPosted, Minus, BlockOf
<1>4. ASSUME NEW q \in Runs
      PROVE  Confirmed(run[q])'
  <2>1. Confirmed(run'[q])
    BY <1>2 DEF ConfirmedInv
  <2> QED
    BY <1>1, <2>1 DEF Confirmed, Minus, BlockOf
<1> QED
  BY <1>3, <1>4 DEF ConfirmedInv

\* A session without a range has nothing.
LEMMA DropConfirmed ==
  ASSUME ConfirmedInv, TypeOK', NEW r \in Runs, NEW status, Become(r, Idle(status))
  PROVE  ConfirmedInv'
<1>1. Minus(head, Confirmations) \in Nat
  BY ConfirmedType DEF ConfirmedInv
<1>2. Confirmed(Idle(status))
  BY <1>1 DEF Confirmed, Idle
<1> QED
  BY <1>2, BecomeConfirmed

\* A planned range is confirmed.
LEMMA PlanConfirmed ==
  ASSUME ConfirmedInv, TypeOK', NEW r \in Runs, NEW request \in Requests, Plan(r, request)
  PROVE  ConfirmedInv'
<1>1. PICK latest \in Heads :
        LET confirmed == Minus(latest, Confirmations)
            to   == ToBlock(request, confirmed)
            from == FromBlock(request, to)
        IN /\ ~ Refused(from, to, confirmed)
           /\ Become(r, Planned(request, from, to))
  BY Zenon DEF Plan
<1> DEFINE to   == ToBlock(request, Minus(latest, Confirmations))
           from == FromBlock(request, to)
<1>2. ~ Refused(from, to, Minus(latest, Confirmations)) /\ Become(r, Planned(request, from, to))
  BY <1>1
<1>3. to <= Minus(head, Confirmations)
  BY <1>2, PlannedRange DEF ConfirmedInv
<1> HIDE DEF from, to
<1>4. Confirmed(Planned(request, from, to))
  BY <1>3 DEF Confirmed, Planned, Idle
<1> QED
  BY <1>2, <1>4, BecomeConfirmed

\* What the logs and the scan find is in the range that was asked for.
LEMMA GatherConfirmed ==
  ASSUME ConfirmedInv, TypeOK', RangesOnly, NEW r \in Runs,
         TransferLogs(r) \/ NativeTransactions(r) \/ HydrateTransactions(r)
             \/ HydrateReceiptsAndBlocks(r)
  PROVE  ConfirmedInv'
<1> DEFINE s == run[r]
<1>1. s \in Session /\ s.request \in Requests /\ Confirmed(s)
  BY DEF ConfirmedInv, TypeOK, At, TransferLogs, NativeTransactions,
         HydrateTransactions, HydrateReceiptsAndBlocks
<1>2. s.from \in Nat /\ s.to \in Nat
  BY <1>1 DEF Session, Blocks
<1>3. CASE TransferLogs(r)
  <2>1. PICK answer \in [Filters(s.from, s.to) -> Answers] : Become(r, LogsRead(s, answer))
    BY <1>3, Zenon DEF TransferLogs
  <2>2. ASSUME NEW t \in LoggedTxs(answer)
        PROVE  BlockOf(t) <= s.to
    <3>1. PICK f \in Filters(s.from, s.to) : BlockOf(t) \in f[1]
      BY DEF LoggedTxs, LoggedBy, Answered
    <3>2. f[1] \subseteq s.from .. s.to
      BY DEF Filters, Chunk
    <3> QED
      BY <1>2, <3>1, <3>2
  <2>3. s.request.transaction_hashes = {}
    BY <1>1 DEF RangesOnly
  <2> DEFINE n == LogsRead(s, answer)
  <2>4. n.to = s.to /\ n.txs = s.txs /\ n.posts = s.posts
        /\ n.hashes = s.request.transaction_hashes \cup LoggedTxs(answer)
    BY <1>1 DEF LogsRead, Session
  <2>5. Become(r, n)
    BY <2>1
  <2> HIDE DEF n, s
  <2>6. Confirmed(n)
    BY <1>1, <2>2, <2>3, <2>4 DEF Confirmed
  <2> QED
    BY <2>5, <2>6, BecomeConfirmed
<1>4. CASE NativeTransactions(r)
  <2>1. PICK answer \in [NativeWindow(s.from, s.to) -> Answers],
             refused \in {FALSE, "error" \in Answers} : Become(r, NativeRead(s, answer, refused))
    BY <1>4, Zenon DEF NativeTransactions
  <2>2. \A b \in Answered(answer) : b <= s.to
    BY <1>2, ConstantsAssumption DEF Answered, NativeWindow
  <2> DEFINE n == NativeRead(s, answer, refused)
  <2>3. n.to = s.to /\ n.hashes = s.hashes /\ n.posts = s.posts
        /\ n.txs = {t \in Txs : Chain[t].direct /\ BlockOf(t) \in Answered(answer)}
    BY <1>1 DEF NativeRead, Session
  <2>4. Become(r, n)
    BY <2>1
  <2> HIDE DEF n, s
  <2>5. Confirmed(n)
    BY <1>1, <2>2, <2>3 DEF Confirmed
  <2> QED
    BY <2>4, <2>5, BecomeConfirmed
<1>5. CASE HydrateTransactions(r)
  <2>1. PICK answer \in [s.hashes \ s.txs -> Answers] : Become(r, TransactionsRead(s, answer))
    BY <1>5, Zenon DEF HydrateTransactions
  <2> DEFINE n == TransactionsRead(s, answer)
  <2>2. n.to = s.to /\ n.hashes = {} /\ n.posts = s.posts /\ n.txs \subseteq s.txs \cup s.hashes
    BY <1>1 DEF TransactionsRead, Session, Answered
  <2>3. Become(r, n)
    BY <2>1
  <2> HIDE DEF n, s
  <2>4. Confirmed(n)
    BY <1>1, <2>2 DEF Confirmed
  <2> QED
    BY <2>3, <2>4, BecomeConfirmed
<1>6. CASE HydrateReceiptsAndBlocks(r)
  <2>1. PICK receipt, block : Become(r, ReceiptsRead(s, receipt, block))
    BY <1>6, Zenon DEF HydrateReceiptsAndBlocks
  <2> DEFINE n == ReceiptsRead(s, receipt, block)
  <2>2. n.to = s.to /\ n.hashes = s.hashes /\ n.posts = s.posts /\ n.txs = s.txs
    BY <1>1 DEF ReceiptsRead, Session
  <2>3. Become(r, n)
    BY <2>1
  <2> HIDE DEF n, s
  <2>4. Confirmed(n)
    BY <1>1, <2>2 DEF Confirmed
  <2> QED
    BY <2>3, <2>4, BecomeConfirmed
<1> QED
  BY <1>3, <1>4, <1>5, <1>6

\* What is posted is among what was gathered.
LEMMA PrepareConfirmed ==
  ASSUME ConfirmedInv, TypeOK', NEW r \in Runs, PersistTransactions(r) \/ SyncBalances(r)
  PROVE  ConfirmedInv'
<1> DEFINE s == run[r]
<1>1. s \in Session /\ Confirmed(s)
  BY DEF ConfirmedInv, TypeOK
<1>2. CASE PersistTransactions(r)
  <2>1. PICK kept, metadata : Become(r, Persisted(s, kept, metadata))
    BY <1>2, Zenon DEF PersistTransactions
  <2> DEFINE n == Persisted(s, kept, metadata)
  <2>2. n.to = s.to /\ n.hashes = s.hashes /\ n.txs = s.txs /\ n.posts \subseteq s.txs
    BY <1>1 DEF Persisted, Learn, Session, Posts, Todo
  <2>3. Become(r, n)
    BY <2>1
  <2> HIDE DEF n, s
  <2>4. Confirmed(n)
    BY <1>1, <2>2 DEF Confirmed
  <2> QED
    BY <2>3, <2>4, BecomeConfirmed
<1>3. CASE SyncBalances(r)
  <2>1. PICK block, answer, metadata : Become(r, BalancesRead(s, block, answer, metadata))
    BY <1>3, Zenon DEF SyncBalances
  <2> DEFINE n == BalancesRead(s, block, answer, metadata)
  <2>2. n.to = s.to /\ n.hashes = s.hashes /\ n.txs = s.txs /\ n.posts = s.posts
    BY <1>1 DEF BalancesRead, Learn, Session
  <2>3. Become(r, n)
    BY <2>1
  <2> HIDE DEF n, s
  <2>4. Confirmed(n)
    BY <1>1, <2>2 DEF Confirmed
  <2> QED
    BY <2>3, <2>4, BecomeConfirmed
<1> QED
  BY <1>1, <1>2, <1>3

\* A commit posts what its session gathered, and the chain only grows.
LEMMA CommitConfirmed ==
  ASSUME ConfirmedInv, TypeOK', NEW r \in Runs, Commit(r)
  PROVE  ConfirmedInv'
<1> DEFINE s == run[r]
<1>1. s \in Session /\ Confirmed(s) /\ head' = head
  BY DEF ConfirmedInv, TypeOK, Commit, chain
<1>2. \A q \in Runs : run'[q] = IF q = r THEN [s EXCEPT !.pc = "finish"] ELSE run[q]
  BY DEF Commit, ConfirmedInv, TypeOK
<1>3. \A t \in Txs : posted'[t] > 0 => posted[t] > 0 \/ t \in s.posts
  BY DEF Commit
<1> HIDE DEF s
<1>4. /\ Minus(head, Confirmations) \in Nat /\ s.to \in Nat
      /\ \A t \in Txs : BlockOf(t) \in Nat
  BY <1>1, ConfirmedType, ConstantsAssumption
     DEF ConfirmedInv, Session, Blocks, BlockOf, Transaction
<1>5. \A t \in s.posts : BlockOf(t) <= s.to /\ s.to <= Minus(head, Confirmations)
  BY <1>1 DEF Confirmed
<1>6. \A t \in Txs : t \in s.posts => BlockOf(t) <= Minus(head, Confirmations)
  BY <1>4, <1>5
<1>7. OnlyConfirmedIsPosted'
  BY <1>1, <1>3, <1>6 DEF ConfirmedInv, OnlyConfirmedIsPosted, Minus, BlockOf
<1>8. ASSUME NEW q \in Runs
      PROVE  Confirmed(run[q])'
  <2>1. Confirmed(run'[q])
    <3>1. CASE q = r
      <4>1. Confirmed([s EXCEPT !.pc = "finish"])
        BY <1>1 DEF Confirmed, Session
      <4> QED
        BY <1>2, <3>1, <4>1
    <3>2. CASE q # r
      BY <1>2, <3>2 DEF ConfirmedInv
    <3> QED
      BY <3>1, <3>2
  <2> QED
    BY <1>1, <2>1 DEF Confirmed, Minus, BlockOf
<1> QED
  BY <1>7, <1>8 DEF ConfirmedInv

\* So do the steps of the chain and the node, and stuttering.
LEMMA MineConfirmed ==
  ASSUME ConfirmedInv, TypeOK', Mine \/ Recover \/ UNCHANGED vars
  PROVE  ConfirmedInv'
<1>1. posted' = posted /\ run' = run /\ head' >= head
  BY ConstantsAssumption
     DEF ConfirmedInv, TypeOK, Blocks, Mine, Recover, vars, chain, database
<1>2. /\ Minus(head, Confirmations) \in Nat
      /\ Minus(head, Confirmations)' \in Nat
      /\ Minus(head, Confirmations) <= Minus(head, Confirmations)'
  BY <1>1, ConfirmedType, ConfirmedGrows DEF ConfirmedInv
<1>3. /\ \A t \in Txs : BlockOf(t) \in Nat
      /\ \A q \in Runs : run[q].to \in Nat
  BY ConstantsAssumption DEF ConfirmedInv, TypeOK, Session, Blocks, BlockOf, Transaction
<1>4. OnlyConfirmedIsPosted'
  BY <1>1, <1>2, <1>3 DEF ConfirmedInv, OnlyConfirmedIsPosted, BlockOf
<1>5. \A q \in Runs : Confirmed(run[q])'
  BY <1>1, <1>2, <1>3 DEF ConfirmedInv, Confirmed, BlockOf
<1> QED
  BY <1>4, <1>5 DEF ConfirmedInv

\* ConfirmedInv holds at first.
LEMMA ConfirmedInit == Init => ConfirmedInv
<1> SUFFICES ASSUME Init PROVE ConfirmedInv
  OBVIOUS
<1>1. TypeOK
  BY TypeInit
<1>2. Minus(head, Confirmations) \in Nat
  BY <1>1, ConfirmedType
<1> QED
  BY <1>1, <1>2 DEF Init, ConfirmedInv, OnlyConfirmedIsPosted, Confirmed, Idle

\* Every step keeps it, if users ask for ranges only.
LEMMA ConfirmedStep == ConfirmedInv /\ RangesOnly /\ [Next]_vars => ConfirmedInv'
<1> SUFFICES ASSUME ConfirmedInv, RangesOnly, [Next]_vars PROVE ConfirmedInv'
  OBVIOUS
<1>1. TypeOK'
  BY TypeStep DEF ConfirmedInv
<1>2. CASE Mine \/ Recover \/ UNCHANGED vars
  BY <1>1, <1>2, MineConfirmed
<1>3. ASSUME NEW r \in Runs, NEW request \in Requests,
             Plan(r, request) \/ RefuseRange(r, request)
      PROVE  ConfirmedInv'
  <2>1. CASE Plan(r, request)
    BY <1>1, <2>1, PlanConfirmed
  <2>2. CASE RefuseRange(r, request)
    BY <1>1, <2>2, DropConfirmed, Zenon DEF RefuseRange, Fail
  <2> QED
    BY <1>3, <2>1, <2>2
<1>4. ASSUME NEW r \in Runs, Step(r) \/ Crash(r)
      PROVE  ConfirmedInv'
  <2>1. CASE BalancesFail(r) \/ Duplicate(r) \/ Finish(r) \/ Crash(r)
    BY <1>1, <2>1, DropConfirmed DEF BalancesFail, Duplicate, Finish, Crash, Fail
  <2> QED
    BY <1>1, <1>4, <2>1, GatherConfirmed, PrepareConfirmed, CommitConfirmed DEF Step
<1> QED
  BY <1>2, <1>3, <1>4 DEF Next

\* While users ask for ranges, whatever head a lagging node reports, and however
\* syncs overlap and fail, no transaction has a ledger event that is not buried
\* under the required confirmations.
THEOREM PostedIsConfirmed ==
  ASSUME RangesOnly
  PROVE  Spec => []OnlyConfirmedIsPosted
<1>1. Init => ConfirmedInv
  BY ConfirmedInit
<1>2. ConfirmedInv /\ [Next]_vars => ConfirmedInv'
  BY ConfirmedStep
<1>3. ConfirmedInv => OnlyConfirmedIsPosted
  BY DEF ConfirmedInv
<1> QED
  BY <1>1, <1>2, <1>3, PTL DEF Spec
-----------------------------------------------------------------------------
(* A run that succeeded missed nothing. *)

\* What a session has, at each stage, if it has neither failed nor warned: a range
\* that was scanned in full, the blocks of its transactions, a row of each balance.
Uncapped(s) == ~ s.warned => s.to - s.from + 1 <= ScanMax
Dated(s)    == ~ s.failed => \A t \in s.txs : BlockOf(t) \in s.blocks
Covered(s, rows) == \A asset \in s.contracts \cup {Native} :
    \E row \in balances \cup rows : row.block = s.to /\ row.asset = asset
Weighed(s)  == ~ s.warned => Covered(s, s.rows)

\* Before its commit a session holds what it owes; after it, it is whole.
Unsaved(s) ==
    /\ s.pc \notin {"idle", "finish"} => Ranged(s)
    /\ s.pc \in {"native", "transactions"} => Logged(s)
    /\ s.pc = "transactions" => Scanned(s)
    /\ s.pc \in {"transactions", "receipts", "persist", "balances", "commit"} => Uncapped(s)
    /\ s.pc \in {"receipts", "persist", "balances", "commit"} => Found(s)
    /\ s.pc \in {"persist", "balances", "commit"} => Receipted(s) /\ Dated(s)
    /\ s.pc \in {"balances", "commit"} => Handled(s) /\ s.posts \subseteq s.txs
    /\ s.pc = "commit" => Weighed(s)

Saved(s) == s.pc = "finish" =>
    /\ \A t \in s.posts : posted[t] > 0
    /\ ~ s.failed /\ ~ s.warned => Whole(s)

\* Without null answers every balance is read and has its block's time.
TrueRows(rows) == \A row \in rows : row.read /\ row.dated

\* The inductive invariant behind SucceededIsWhole: what is misdated is posted, so
\* that a session cannot post it once more, and stays as it is.
WholeInv ==
    /\ TypeOK
    /\ PostedOnce
    /\ \A t \in misdated : posted[t] > 0
    /\ TrueRows(balances)
    /\ \A r \in Runs : TrueRows(run[r].rows) /\ Unsaved(run[r]) /\ Saved(run[r])

\* Nothing that a session has or owes is lost while the database only gains:
\* events, raw events, rows; and misdates only what had no event.
Gains ==
    /\ head' \in Nat /\ head <= head'
    /\ \A t \in Txs : posted'[t] \in Nat /\ posted'[t] >= posted[t]
    /\ \A t \in Txs : Settled(t) => Settled(t)'
    /\ balances \subseteq balances'
    /\ \A t \in misdated' : t \in misdated \/ posted[t] = 0

LEMMA GainsKeep ==
  ASSUME TypeOK, Gains, NEW s \in Session, Unsaved(s), Saved(s)
  PROVE  Unsaved(s)' /\ Saved(s)'
<1>1. /\ s.txs \subseteq Txs /\ s.posts \subseteq Txs /\ s.to \in Nat
      /\ head \in Nat /\ \A t \in Txs : posted[t] \in Nat
  BY ConstantsAssumption DEF Session, TypeOK, Blocks
<1>2. Ranged(s) => Ranged(s)'
  BY <1>1 DEF Ranged, Gains
<1>3. /\ Logged(s) => Logged(s)'
      /\ Scanned(s) => Scanned(s)'
      /\ Uncapped(s) => Uncapped(s)'
      /\ Found(s) => Found(s)'
      /\ Receipted(s) => Receipted(s)'
      /\ Dated(s) => Dated(s)'
  BY DEF Logged, Scanned, Uncapped, Found, Receipted, Dated, Complete, InRange, BlockOf, Tokens
<1>4. Handled(s) => Handled(s)'
  <2>1. \A t \in s.txs : posted[t] > 0 => posted'[t] > 0
    BY <1>1 DEF Gains
  <2> QED
    BY <2>1 DEF Handled, HasLegs, Tokens
<1>5. Weighed(s) => Weighed(s)'
  BY DEF Weighed, Covered, Gains
<1>6. Unsaved(s)'
  BY <1>2, <1>3, <1>4, <1>5 DEF Unsaved
<1>7. ASSUME s.pc = "finish"
      PROVE  /\ \A t \in s.posts : posted'[t] > 0
             /\ Whole(s) => Whole(s)'
  <2>1. \A t \in s.posts : posted[t] > 0
    BY <1>7 DEF Saved
  <2>2. \A t \in s.posts : posted'[t] > 0
    BY <1>1, <2>1 DEF Gains
  <2>3. s.posts \cap misdated = {} => s.posts \cap misdated' = {}
    BY <1>1, <2>1 DEF Gains
  <2>4. Whole(s) => Whole(s)'
    BY <2>3 DEF Whole, Gains, BlockOf
  <2> QED
    BY <2>2, <2>4
<1>8. Saved(s)'
  BY <1>7 DEF Saved
<1> QED
  BY <1>6, <1>8

\* A database that does not change gains.
LEMMA SameGains ==
  ASSUME TypeOK, UNCHANGED database, head' \in Nat, head <= head'
  PROVE  Gains
<1>1. \A t \in Txs : posted[t] \in Nat
  BY DEF TypeOK
<1> QED
  BY <1>1 DEF Gains, database, Settled, HasLegs, Tokens

\* So a session keeps what it has over a step that gains and leaves it in order.
LEMMA SessionKeeps ==
  ASSUME WholeInv, Gains, NEW q \in Runs,
         run'[q] \in Session, Unsaved(run'[q]), Saved(run'[q])
  PROVE  Unsaved(run[q])' /\ Saved(run[q])'
<1>1. ASSUME NEW s \in Session, Unsaved(s), Saved(s)
      PROVE  Unsaved(s)' /\ Saved(s)'
  BY <1>1, GainsKeep DEF WholeInv
<1> QED
  BY <1>1 DEF Unsaved, Saved, Ranged, Logged, Scanned, Uncapped, Found, Receipted, Dated,
     Handled, Weighed, Covered, Whole, Settled, Complete, InRange

\* A step that changes only the session of r keeps the invariant if the new
\* session has what its stage asks.
LEMMA BecomeWhole ==
  ASSUME WholeInv, TypeOK', NEW r \in Runs, NEW s, Become(r, s),
         TrueRows(s.rows), Unsaved(s), s.pc # "finish"
  PROVE  WholeInv'
<1>1. UNCHANGED database /\ head' = head /\ head \in Nat
  BY ConstantsAssumption DEF Become, chain, WholeInv, TypeOK, Blocks
<1>2. Gains
  BY <1>1, SameGains DEF WholeInv
<1>3. \A q \in Runs : run'[q] = (IF q = r THEN s ELSE run[q]) /\ run'[q] \in Session
  BY DEF Become, WholeInv, TypeOK
<1>4. PostedOnce' /\ (\A t \in misdated : posted[t] > 0)' /\ TrueRows(balances)'
  BY <1>1 DEF WholeInv, PostedOnce, database, TrueRows
<1>5. ASSUME NEW q \in Runs
      PROVE  TrueRows(run[q].rows)' /\ Unsaved(run[q])' /\ Saved(run[q])'
  <2>1. run'[q] \in Session /\ TrueRows(run'[q].rows) /\ Unsaved(run'[q]) /\ Saved(run'[q])
    BY <1>3 DEF WholeInv, Saved
  <2>2. TrueRows(run[q].rows)'
    BY <2>1 DEF TrueRows
  <2> QED
    BY <1>2, <2>1, <2>2, SessionKeeps
<1> QED
  BY <1>4, <1>5 DEF WholeInv
\* The steps that drop the session.
LEMMA DropWhole ==
  ASSUME WholeInv, TypeOK', NEW r \in Runs, NEW status, Become(r, Idle(status))
  PROVE  WholeInv'
<1>1. /\ TrueRows(Idle(status).rows) /\ Unsaved(Idle(status))
      /\ Idle(status).pc # "finish"
  BY DEF TrueRows, Unsaved, Idle
<1> QED
  BY <1>1, BecomeWhole

\* A planned session has its range.
LEMMA PlanWhole ==
  ASSUME WholeInv, TypeOK', NEW r \in Runs, NEW request \in Requests, Plan(r, request)
  PROVE  WholeInv'
<1>1. PICK latest \in Heads :
        LET confirmed == Minus(latest, Confirmations)
            to   == ToBlock(request, confirmed)
            from == FromBlock(request, to)
        IN /\ ~ Refused(from, to, confirmed)
           /\ Become(r, Planned(request, from, to))
  BY Zenon DEF Plan
<1> DEFINE to   == ToBlock(request, Minus(latest, Confirmations))
           from == FromBlock(request, to)
           s    == Planned(request, from, to)
<1>2. ~ Refused(from, to, Minus(latest, Confirmations)) /\ Become(r, s)
  BY <1>1
<1>3. from <= to /\ to <= head
  BY <1>2, PlannedRange DEF WholeInv
<1> HIDE DEF from, to
<1>4. s.from = from /\ s.to = to /\ s.pc = "logs" /\ s.rows = {}
  BY DEF Planned, Idle
<1> HIDE DEF s
<1>5. TrueRows(s.rows) /\ Unsaved(s)
  BY <1>3, <1>4 DEF TrueRows, Unsaved, Ranged
<1> QED
  BY <1>2, <1>4, <1>5, BecomeWhole

\* Reading the logs and scanning for native transactions.
LEMMA ScanWhole ==
  ASSUME "null" \notin Faults, WholeInv, TypeOK', NEW r \in Runs,
         TransferLogs(r) \/ NativeTransactions(r)
  PROVE  WholeInv'
<1> DEFINE s == run[r]
<1>1. s \in Session /\ TrueRows(s.rows) /\ Unsaved(s)
  BY DEF WholeInv, TypeOK
<1>2. CASE TransferLogs(r)
  <2>1. PICK answer \in [Filters(s.from, s.to) -> Answers] : Become(r, LogsRead(s, answer))
    BY <1>2, Zenon DEF TransferLogs
  <2> DEFINE n == LogsRead(s, answer)
  <2>2. s.pc = "logs" /\ SameRange(n, s) /\ n.pc = "native" /\ n.rows = s.rows
    BY <1>1, <1>2 DEF TransferLogs, At, LogsRead, Session, SameRange
  <2>3. Logged(n) /\ Become(r, n)
    BY <1>1, <2>1, LogsFound
  <2> HIDE DEF n, s
  <2>4. Unsaved(n)
    BY <1>1, <2>2, <2>3 DEF Unsaved, Ranged, SameRange
  <2> QED
    BY <1>1, <2>2, <2>3, <2>4, BecomeWhole
<1>3. CASE NativeTransactions(r)
  <2>1. PICK answer \in [NativeWindow(s.from, s.to) -> Answers],
             refused \in {FALSE, "error" \in Answers} : Become(r, NativeRead(s, answer, refused))
    BY <1>3, Zenon DEF NativeTransactions
  <2> DEFINE n == NativeRead(s, answer, refused)
  <2>2. /\ s.pc = "native" /\ SameRange(n, s) /\ n.pc = "transactions" /\ n.rows = s.rows
        /\ s.to - s.from + 1 > ScanMax => n.warned
    BY <1>1, <1>3 DEF NativeTransactions, At, NativeRead, Session, SameRange
  <2>3. Scanned(n) /\ Logged(n) /\ Become(r, n)
    BY <1>1, <2>1, <2>2, WindowScanned DEF Unsaved
  <2>4. s.from \in Nat /\ s.to \in Nat /\ ScanMax \in Nat
    BY <1>1, ConstantsAssumption DEF Session, Blocks
  <2> HIDE DEF n, s
  <2>5. Uncapped(n)
    BY <2>2, <2>4 DEF Uncapped, SameRange
  <2>6. Unsaved(n)
    BY <1>1, <2>2, <2>3, <2>5 DEF Unsaved, Ranged, SameRange
  <2> QED
    BY <1>1, <2>2, <2>3, <2>6, BecomeWhole
<1> QED
  BY <1>2, <1>3

\* Reading transactions, receipts and blocks.
LEMMA HydrateWhole ==
  ASSUME "null" \notin Faults, WholeInv, TypeOK', NEW r \in Runs,
         HydrateTransactions(r) \/ HydrateReceiptsAndBlocks(r)
  PROVE  WholeInv'
<1> DEFINE s == run[r]
<1>1. s \in Session /\ TrueRows(s.rows) /\ Unsaved(s)
  BY DEF WholeInv, TypeOK
<1>2. CASE HydrateTransactions(r)
  <2>1. PICK answer \in [s.hashes \ s.txs -> Answers] : Become(r, TransactionsRead(s, answer))
    BY <1>2, Zenon DEF HydrateTransactions
  <2> DEFINE n == TransactionsRead(s, answer)
  <2>2. /\ s.pc = "transactions" /\ SameRange(n, s) /\ n.pc = "receipts" /\ n.rows = s.rows
        /\ n.warned = (s.warned \/ Has(answer, "error"))
    BY <1>1, <1>2 DEF HydrateTransactions, At, TransactionsRead, Session, SameRange
  <2>3. Found(n) /\ Become(r, n)
    BY <1>1, <2>1, <2>2, RangeFound DEF Unsaved, WholeInv
  <2> HIDE DEF n, s
  <2>4. Uncapped(n)
    BY <1>1, <2>2 DEF Unsaved, Uncapped, SameRange
  <2>5. Unsaved(n)
    BY <1>1, <2>2, <2>3, <2>4 DEF Unsaved, Ranged, SameRange
  <2> QED
    BY <1>1, <2>2, <2>3, <2>5, BecomeWhole
<1>3. CASE HydrateReceiptsAndBlocks(r)
  <2>1. PICK receipt \in [s.txs -> Answers] :
          LET asked == {BlockOf(t) : t \in {u \in run[r].txs : receipt[u] # "error"}}
          IN \E block \in [asked \ run[r].blocks -> Answers] :
               Become(r, ReceiptsRead(run[r], receipt, block))
    BY <1>3, Zenon DEF HydrateReceiptsAndBlocks
  <2> DEFINE asked == {BlockOf(t) : t \in {u \in s.txs : receipt[u] # "error"}}
  <2>2. PICK block \in [asked \ s.blocks -> Answers] : Become(r, ReceiptsRead(s, receipt, block))
    BY <2>1, Zenon
  <2> DEFINE n == ReceiptsRead(s, receipt, block)
  <2>3. /\ s.pc = "receipts" /\ SameRange(n, s) /\ n.pc = "persist" /\ n.rows = s.rows
        /\ n.txs = s.txs /\ n.receipts = Answered(receipt)
        /\ n.blocks = s.blocks \cup Answered(block)
        /\ n.failed = (s.failed \/ Has(receipt, "error") \/ Has(block, "error"))
        /\ n.warned = (s.warned \/ Has(receipt, "error") \/ Has(block, "error"))
    BY <1>1, <1>3 DEF HydrateReceiptsAndBlocks, At, ReceiptsRead, Session, SameRange
  <2>4. Become(r, n)
    BY <2>2
  <2> HIDE DEF n, s
  <2>5. ASSUME ~ n.failed
        PROVE  s.txs = n.receipts /\ \A t \in s.txs : BlockOf(t) \in n.blocks
    <3>1. Answered(receipt) = s.txs
      BY <2>3, <2>5, AllAnswered
    <3>2. Answered(block) = asked \ s.blocks
      BY <2>3, <2>5, AllAnswered
    <3>3. \A t \in s.txs : receipt[t] # "error"
      BY <3>1 DEF Answered
    <3> QED
      BY <2>3, <3>1, <3>2, <3>3
  <2>6. Receipted(n) /\ Dated(n)
    BY <2>3, <2>5 DEF Receipted, Dated
  <2>7. Found(n) /\ Uncapped(n) /\ Ranged(n)
    BY <1>1, <2>3 DEF Unsaved, Found, Uncapped, Ranged, Complete, InRange, SameRange
  <2>8. Unsaved(n)
    BY <2>3, <2>6, <2>7 DEF Unsaved
  <2> QED
    BY <1>1, <2>3, <2>4, <2>8, BecomeWhole
<1> QED
  BY <1>2, <1>3

\* Preparing what the transaction stores.
LEMMA PersistWhole ==
  ASSUME WholeInv, TypeOK', NEW r \in Runs, PersistTransactions(r)
  PROVE  WholeInv'
<1> DEFINE s == run[r]
<1>1. s \in Session /\ TrueRows(s.rows) /\ Unsaved(s) /\ s.pc = "persist"
  BY DEF WholeInv, TypeOK, PersistTransactions, At
<1>2. PICK kept, metadata : Become(r, Persisted(s, kept, metadata))
  BY Zenon DEF PersistTransactions
<1> DEFINE n == Persisted(s, kept, metadata)
<1>3. /\ SameRange(n, s) /\ n.pc = "balances" /\ n.rows = s.rows
      /\ n.txs = s.txs /\ n.receipts = s.receipts /\ n.blocks = s.blocks
      /\ n.failed = s.failed /\ (s.warned => n.warned) /\ n.posts \subseteq s.txs
  BY <1>1 DEF Persisted, Learn, Session, SameRange, Posts, Todo
<1>4. Handled(n) /\ Become(r, n)
  BY <1>1, <1>2, MissingHandled DEF WholeInv, Unsaved
<1> HIDE DEF n, s
<1>5. Found(n) /\ Uncapped(n) /\ Ranged(n) /\ Receipted(n) /\ Dated(n)
  BY <1>1, <1>3 DEF Unsaved, Found, Uncapped, Ranged, Receipted, Dated, Complete, InRange, SameRange
<1>6. Unsaved(n)
  BY <1>3, <1>4, <1>5 DEF Unsaved
<1> QED
  BY <1>1, <1>3, <1>4, <1>6, BecomeWhole

\* The rows of a session without null answers, and that no balance lacks one.
LEMMA RowsAreTrue ==
  ASSUME "null" \notin Faults, TrueRows(balances), NEW s,
         NEW answer \in [s.contracts \cup {Native} -> Answers]
  PROVE  /\ TrueRows(NewRows(s, TRUE, answer))
         /\ ~ Has(answer, "error") => Covered(s, NewRows(s, TRUE, answer))
<1>1. \A x \in Answers : x \in {"value", "error"}
  BY DEF Answers
<1>2. \A row \in NewRows(s, TRUE, answer) : answer[row.asset] = "value" /\ row.read /\ row.dated
  BY <1>1 DEF NewRows
<1>3. ASSUME ~ Has(answer, "error"), NEW asset \in s.contracts \cup {Native},
             ~ \E row \in balances : row.block = s.to /\ row.asset = asset
      PROVE  \E row \in NewRows(s, TRUE, answer) : row.block = s.to /\ row.asset = asset
  <2> DEFINE row == [block |-> s.to, asset |-> asset, read |-> TRUE, dated |-> TRUE]
  <2>1. answer[asset] = "value"
    BY <1>1, <1>3 DEF Has
  <2>2. row \in NewRows(s, TRUE, answer)
    BY <1>3, <2>1 DEF NewRows
  <2> QED
    BY <2>2
<1> QED
  BY <1>2, <1>3 DEF TrueRows, Covered

\* Reading the balances.
LEMMA BalancesWhole ==
  ASSUME "null" \notin Faults, WholeInv, TypeOK', NEW r \in Runs, SyncBalances(r)
  PROVE  WholeInv'
<1> DEFINE s == run[r]
<1>1. s \in Session /\ TrueRows(balances) /\ Unsaved(s) /\ s.pc = "balances"
  BY DEF WholeInv, TypeOK, SyncBalances, At
<1>2. PICK block \in IF s.to \in s.blocks THEN {"value"} ELSE Answers,
           answer \in [s.contracts \cup {Native} -> Answers],
           metadata \in [Unknown(s, s.contracts) -> Answers] :
        block # "error" /\ Become(r, BalancesRead(s, block, answer, metadata))
  BY Zenon DEF SyncBalances
<1>3. block = "value"
  BY <1>2 DEF Answers
<1> DEFINE n == BalancesRead(s, block, answer, metadata)
<1>4. /\ SameRange(n, s) /\ n.pc = "commit" /\ n.rows = NewRows(s, TRUE, answer)
      /\ n.txs = s.txs /\ n.receipts = s.receipts /\ n.blocks = s.blocks
      /\ n.posts = s.posts /\ n.contracts = s.contracts
      /\ n.failed = s.failed /\ (s.warned \/ Has(answer, "error") => n.warned)
  <2> DEFINE fields == DOMAIN s
             warned == s.warned \/ Has(answer, "error")
             learned == Has(metadata, "error")
             z == [s EXCEPT !.pc = "commit",
                            !.rows = NewRows(s, block = "value", answer),
                            !.warned = warned]
             more == z.warned \/ learned
  <2>1. n = Learn(metadata, z)
    BY DEF BalancesRead
  <2>2. NewRows(s, block = "value", answer) = NewRows(s, TRUE, answer)
    BY <1>3
  <2> HIDE DEF s, n
  <2>3. {"from", "to", "request", "pc", "rows", "txs", "receipts", "blocks", "posts",
         "contracts", "failed", "learned", "guessed", "warned"} \subseteq fields
    BY <1>1 DEF Session
  <2> HIDE DEF fields
  <2>4. /\ DOMAIN z = fields /\ SameRange(z, s) /\ z.pc = "commit"
        /\ z.txs = s.txs /\ z.receipts = s.receipts /\ z.blocks = s.blocks
        /\ z.posts = s.posts /\ z.contracts = s.contracts /\ z.failed = s.failed
    BY <2>3 DEF SameRange, fields
  <2>5. /\ z.rows = NewRows(s, TRUE, answer)
        /\ z.warned = warned
    <3> HIDE DEF warned
    <3> QED
      BY <2>2, <2>3 DEF fields
  <2> HIDE DEF z
  <2>6. /\ SameRange(n, z) /\ n.pc = z.pc /\ n.rows = z.rows
        /\ n.txs = z.txs /\ n.receipts = z.receipts /\ n.blocks = z.blocks
        /\ n.posts = z.posts /\ n.contracts = z.contracts /\ n.failed = z.failed
    BY <2>1, <2>3, <2>4 DEF Learn, SameRange
  <2>7. n.warned = more
    <3>1. n = [z EXCEPT !.learned = z.learned \cup Answered(metadata),
                        !.guessed = z.guessed \cup (DOMAIN metadata \ Answered(metadata)),
                        !.warned = more]
      BY <2>1 DEF Learn
    <3> HIDE DEF more
    <3> QED
      BY <2>3, <2>4, <3>1
  <2>8. s.warned \/ Has(answer, "error") => n.warned
    BY <2>5, <2>7, Zenon
  <2> QED
    BY <2>4, <2>5, <2>6, <2>8 DEF SameRange
<1>5. Become(r, n)
  BY <1>2
<1> HIDE DEF n, s
<1>6. TrueRows(n.rows) /\ Weighed(n)
  <2>1. /\ TrueRows(NewRows(s, TRUE, answer))
        /\ ~ Has(answer, "error") => Covered(s, NewRows(s, TRUE, answer))
    <3>1. TrueRows(balances) /\ answer \in [s.contracts \cup {Native} -> Answers]
      BY <1>1, <1>2
    <3> QED
      BY <3>1, RowsAreTrue
  <2>2. ~ n.warned => ~ Has(answer, "error")
    BY <1>4, Zenon
  <2>3. TrueRows(n.rows)
    BY <1>4, <2>1
  <2>4. /\ n.to = s.to /\ n.contracts = s.contracts
        /\ n.rows = NewRows(s, TRUE, answer)
    BY <1>4 DEF SameRange
  <2>5. Weighed(n)
    BY <2>1, <2>2, <2>4 DEF Weighed, Covered
  <2> QED
    BY <2>3, <2>5
<1>7. /\ Found(n) /\ Uncapped(n) /\ Ranged(n) /\ Receipted(n) /\ Dated(n)
      /\ Handled(n) /\ n.posts \subseteq n.txs
  BY <1>1, <1>4
     DEF Unsaved, Found, Uncapped, Ranged, Receipted, Dated, Handled, Complete, InRange, SameRange
<1>8. Unsaved(n)
  BY <1>4, <1>6, <1>7 DEF Unsaved
<1> QED
  BY <1>4, <1>5, <1>6, <1>8, BecomeWhole
\* A commit gains: it posts only what had no event.
LEMMA CommitGains ==
  ASSUME WholeInv, TypeOK', NEW r \in Runs, Commit(r)
  PROVE  Gains
<1>1. head' = head /\ head \in Nat
  BY ConstantsAssumption DEF Commit, chain, WholeInv, TypeOK, Blocks
<1>2. /\ \A t \in Txs : posted'[t] \in Nat /\ posted'[t] >= posted[t]
      /\ \A t \in Txs : Settled(t) => Settled(t)'
  BY CommitSettles DEF WholeInv
<1>3. balances \subseteq balances'
  BY DEF Commit
<1>4. \A t \in misdated' : t \in misdated \/ posted[t] = 0
  <2>1. run[r].posts \subseteq Txs /\ \A t \in Txs : posted[t] \in Nat
    BY DEF WholeInv, TypeOK, Session
  <2>2. \A t \in run[r].posts : ~ (posted[t] > 0)
    BY DEF Commit, Collides
  <2>3. misdated' \subseteq misdated \cup run[r].posts
    BY DEF Commit
  <2> QED
    BY <2>1, <2>2, <2>3
<1> QED
  BY <1>1, <1>2, <1>3, <1>4 DEF Gains

\* A session that neither failed nor warned is whole once it commits.
LEMMA CommitIsWhole ==
  ASSUME WholeInv, TypeOK', NEW r \in Runs, Commit(r), NEW n,
         n = [run[r] EXCEPT !.pc = "finish"], ~ n.failed, ~ n.warned
  PROVE  /\ \A t \in Txs : BlockOf(t) \in n.from .. n.to => Settled(t)'
         /\ n.posts \cap misdated' = {}
         /\ \A asset \in n.contracts \cup {Native} : \E row \in balances' :
                row.block = n.to /\ row.asset = asset /\ row.read /\ row.dated
<1> DEFINE s == run[r]
<1>1. s \in Session /\ s.pc = "commit" /\ Unsaved(s) /\ TrueRows(s.rows) /\ TrueRows(balances)
  BY DEF WholeInv, TypeOK, Commit, At
<1>2. /\ n.from = s.from /\ n.to = s.to /\ n.posts = s.posts /\ n.contracts = s.contracts
      /\ ~ s.failed /\ ~ s.warned
  BY <1>1 DEF Session
<1>3. /\ balances' = balances \cup s.rows
      /\ misdated' = misdated \cup {t \in s.posts : BlockOf(t) \notin s.blocks}
      /\ \A t \in s.posts : ~ (posted[t] > 0)
  BY DEF Commit, Collides
<1>4. Complete(s) /\ Found(s) /\ Handled(s)
  BY <1>1, <1>2 DEF Unsaved, Uncapped, Complete
<1>5. ASSUME NEW t \in Txs, BlockOf(t) \in s.from .. s.to
      PROVE  Settled(t)'
  BY <1>4, <1>5, CommitCovers DEF WholeInv, InRange
<1> HIDE DEF s
<1>6. s.posts \cap misdated' = {}
  <2>1. \A t \in s.posts : BlockOf(t) \in s.blocks
    BY <1>1, <1>2 DEF Unsaved, Dated
  <2>2. \A t \in s.posts : t \notin misdated
    BY <1>3 DEF WholeInv
  <2> QED
    BY <1>3, <2>1, <2>2
<1>7. \A asset \in s.contracts \cup {Native} : \E row \in balances' :
          row.block = s.to /\ row.asset = asset /\ row.read /\ row.dated
  BY <1>1, <1>2, <1>3 DEF Unsaved, Weighed, Covered, TrueRows
<1> QED
  BY <1>2, <1>5, <1>6, <1>7

\* A commit keeps the invariant.
LEMMA CommitWhole ==
  ASSUME WholeInv, TypeOK', NEW r \in Runs, Commit(r)
  PROVE  WholeInv'
<1>1. Gains
  BY CommitGains
<1>2. PostedOnce'
  BY CommitPosts DEF WholeInv
<1> DEFINE s == run[r]
           n == [s EXCEPT !.pc = "finish"]
<1>3. /\ s \in Session /\ TrueRows(s.rows) /\ s.posts \subseteq Txs
      /\ run' = [run EXCEPT ![r] = n]
  BY DEF WholeInv, TypeOK, Session, Commit
<1>4. n.pc = "finish" /\ n.rows = s.rows /\ n.posts = s.posts
  BY <1>3 DEF Session
<1>5. \A t \in s.posts : posted'[t] > 0
  BY CommitSettles DEF WholeInv
<1>6. (\A t \in misdated : posted[t] > 0)'
  <2>1. /\ misdated' \subseteq misdated \cup s.posts /\ misdated \subseteq Txs
        /\ \A t \in misdated : posted[t] > 0
        /\ \A t \in Txs : posted[t] \in Nat
    BY DEF Commit, WholeInv, TypeOK
  <2> HIDE DEF s
  <2> QED
    BY <1>1, <1>5, <2>1 DEF Gains
<1>7. TrueRows(balances)'
  <2>1. balances' = balances \cup s.rows
    BY DEF Commit
  <2> HIDE DEF s
  <2> QED
    BY <1>3, <2>1 DEF WholeInv, TrueRows
<1>8. \A q \in Runs : run'[q] = (IF q = r THEN n ELSE run[q]) /\ run'[q] \in Session
  BY <1>3 DEF WholeInv, TypeOK
<1>9. ASSUME NEW q \in Runs
      PROVE  TrueRows(run[q].rows)' /\ Unsaved(run[q])' /\ Saved(run[q])'
  <2>1. CASE q = r
    <3>1. run'[q] = n
      BY <1>8, <2>1
    <3>2. ~ n.failed /\ ~ n.warned =>
            /\ \A t \in Txs : BlockOf(t) \in n.from .. n.to => Settled(t)'
            /\ n.posts \cap misdated' = {}
            /\ \A asset \in n.contracts \cup {Native} : \E row \in balances' :
                   row.block = n.to /\ row.asset = asset /\ row.read /\ row.dated
      <4> HIDE DEF n
      <4> QED
        BY CommitIsWhole DEF n
    <3> HIDE DEF n, s
    <3>3. TrueRows(run[q].rows)'
      BY <1>3, <1>4, <3>1 DEF TrueRows
    <3>4. Unsaved(run[q])'
      BY <1>4, <3>1 DEF Unsaved
    <3>5. Saved(run[q])'
      BY <1>4, <1>5, <3>1, <3>2 DEF Saved, Whole, BlockOf
    <3> QED
      BY <3>3, <3>4, <3>5
  <2>2. CASE q # r
    <3>1. run'[q] = run[q] /\ run'[q] \in Session
      BY <1>8, <2>2
    <3>2. TrueRows(run[q].rows)'
      BY <3>1 DEF WholeInv, TrueRows
    <3> QED
      BY <1>1, <3>1, <3>2, SessionKeeps DEF WholeInv
  <2> QED
    BY <2>1, <2>2
<1> QED
  BY <1>2, <1>6, <1>7, <1>9 DEF WholeInv

\* So do the steps of the chain and the node, and stuttering.
LEMMA MineWhole ==
  ASSUME WholeInv, TypeOK', Mine \/ Recover \/ UNCHANGED vars
  PROVE  WholeInv'
<1>1. UNCHANGED database /\ run' = run /\ head' \in Nat /\ head <= head'
  BY ConstantsAssumption DEF WholeInv, TypeOK, Blocks, Mine, Recover, vars, chain
<1>2. Gains
  BY <1>1, SameGains DEF WholeInv
<1>3. PostedOnce' /\ (\A t \in misdated : posted[t] > 0)' /\ TrueRows(balances)'
  BY <1>1 DEF WholeInv, PostedOnce, database, TrueRows
<1>4. ASSUME NEW q \in Runs
      PROVE  TrueRows(run[q].rows)' /\ Unsaved(run[q])' /\ Saved(run[q])'
  <2>1. /\ run'[q] \in Session /\ Unsaved(run'[q]) /\ Saved(run'[q])
        /\ TrueRows(run[q].rows)'
    BY <1>1 DEF WholeInv, TypeOK, TrueRows
  <2> QED
    BY <1>2, <2>1, SessionKeeps
<1> QED
  BY <1>3, <1>4 DEF WholeInv

\* WholeInv holds at first.
LEMMA WholeInit == Init => WholeInv
<1> SUFFICES ASSUME Init PROVE WholeInv
  OBVIOUS
<1>1. TypeOK /\ PostedOnce
  BY TypeInit, PostedInit
<1> QED
  BY <1>1 DEF Init, WholeInv, TrueRows, Unsaved, Saved, Idle

\* Every step keeps it, if the node is never null.
LEMMA WholeStep == WholeInv /\ "null" \notin Faults /\ [Next]_vars => WholeInv'
<1> SUFFICES ASSUME WholeInv, "null" \notin Faults, [Next]_vars PROVE WholeInv'
  OBVIOUS
<1>1. TypeOK'
  BY TypeStep DEF WholeInv
<1>2. CASE Mine \/ Recover \/ UNCHANGED vars
  BY <1>1, <1>2, MineWhole
<1>3. ASSUME NEW r \in Runs, NEW request \in Requests,
             Plan(r, request) \/ RefuseRange(r, request)
      PROVE  WholeInv'
  <2>1. CASE Plan(r, request)
    BY <1>1, <2>1, PlanWhole
  <2>2. CASE RefuseRange(r, request)
    BY <1>1, <2>2, DropWhole, Zenon DEF RefuseRange, Fail
  <2> QED
    BY <1>3, <2>1, <2>2
<1>4. ASSUME NEW r \in Runs, Step(r) \/ Crash(r)
      PROVE  WholeInv'
  <2>1. CASE BalancesFail(r) \/ Duplicate(r) \/ Finish(r) \/ Crash(r)
    BY <1>1, <2>1, DropWhole DEF BalancesFail, Duplicate, Finish, Crash, Fail
  <2> QED
    BY <1>1, <1>4, <2>1, ScanWhole, HydrateWhole, PersistWhole, BalancesWhole, CommitWhole
       DEF Step
<1> QED
  BY <1>2, <1>3, <1>4 DEF Next

\* With a node that answers or errs but is never null, whatever overlaps, dies or
\* is repeated, a run that ends SUCCEEDED has every transaction of its range
\* stored and posted, what it posted dated by its block, and every balance read.
THEOREM SuccessIsWhole ==
  ASSUME "null" \notin Faults
  PROVE  Spec => SucceededIsWhole
<1> DEFINE EndsWhole == \A r \in Runs :
             Finish(r) /\ run'[r].status = "succeeded" => Whole(run[r])
<1>1. WholeInv => EndsWhole
  <2> SUFFICES ASSUME WholeInv, NEW r \in Runs, Finish(r), run'[r].status = "succeeded"
               PROVE  Whole(run[r])
    OBVIOUS
  <2>1. run[r].pc = "finish" /\ Saved(run[r])
    BY DEF Finish, At, WholeInv
  <2>2. run'[r] = Idle(IF run[r].warned \/ run[r].failed THEN "partial" ELSE "succeeded")
    BY DEF Finish, Become, WholeInv, TypeOK
  <2>3. ~ run[r].warned /\ ~ run[r].failed
    BY <2>2 DEF Idle
  <2> QED
    BY <2>1, <2>3 DEF Saved
<1>2. Init => WholeInv
  BY WholeInit
<1>3. WholeInv /\ [Next]_vars => WholeInv'
  BY WholeStep
<1>4. Spec => [][EndsWhole]_vars
  BY <1>1, <1>2, <1>3, PTL DEF Spec
<1> QED
  BY <1>4 DEF SucceededIsWhole
=============================================================================
