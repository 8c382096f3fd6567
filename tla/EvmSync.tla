------------------------------- MODULE EvmSync -------------------------------
(***************************************************************************)
(* Synchronising one EVM wallet (backend/app/connectors/evm).              *)
(*                                                                         *)
(* A sync reads a range of confirmed blocks from a JSON-RPC node, stores   *)
(* the wallet's transactions as raw events, posts them to the ledger,      *)
(* records the balances at the last block of the range and, when it missed *)
(* nothing, moves the block cursor there.  Everything it stores it stores  *)
(* in one transaction; the run row has commits of its own.                 *)
(*                                                                         *)
(* Two requests may overlap, the chain grows meanwhile, and each call to   *)
(* the node is answered with its value, with an error that outlived the    *)
(* client's retries, or with a null result, which the client passes on.    *)
(***************************************************************************)
EXTENDS Integers, FiniteSets

CONSTANTS
    Runs,          \* sync requests in progress at the same time
    Txs,           \* the wallet's transactions
    Contracts,     \* token contracts
    Native,        \* the chain's own asset
    NoBlock,       \* no cursor row, no block in the request
    MaxBlock,      \* bound: the chain stops growing here
    FirstBlock,    \* the block number at which the model begins
    Chain,         \* what each transaction does: see Transaction
    Requests,      \* the requests users send
    Faults,        \* what may be wrong with the node: see NodeFaults
    Confirmations, Lookback, MaxSpan, ScanMax, ChunkSize, MaxContracts

Blocks == 0..MaxBlock

\* direct: the wallet is its sender or recipient.  sent, received: the tokens
\* its Transfer logs move out of and into the wallet.  pays: it moves the native
\* asset, as value or as gas.
Transaction == [block : Blocks, direct : BOOLEAN, pays : BOOLEAN,
                sent : SUBSET Contracts, received : SUBSET Contracts]

EvmSyncRequest == [from_block : Blocks \cup {NoBlock}, to_block : Blocks \cup {NoBlock},
                   token_contracts : SUBSET Contracts,
                   transaction_hashes : SUBSET Txs]

NodeFaults == {"error", "null", "lag"}

ASSUME ConstantsAssumption ==
    /\ NoBlock \notin Int
    /\ Native \notin Contracts
    /\ MaxBlock \in Nat /\ FirstBlock \in Blocks
    /\ Confirmations \in Nat /\ MaxContracts \in Nat
    /\ {Lookback, MaxSpan, ScanMax, ChunkSize} \subseteq Nat \ {0}
    /\ Chain \in [Txs -> Transaction]
    /\ \A t \in Txs : Chain[t].direct \/ Chain[t].sent \cup Chain[t].received # {}
    /\ Requests \subseteq EvmSyncRequest
    /\ Faults \subseteq NodeFaults

VARIABLES
    head,       \* the chain's latest block
    node,       \* "flaky", or "sound" once it answers everything with its value
    cursor,     \* SyncCursor.cursor_value: the last block synced
    since,      \* history: where the first automatic sync began
    raw,        \* RawEvent.status of each transaction, "absent" without a row
    posted,     \* how many LedgerEvents each transaction has
    misdated,   \* transactions whose event has the clock's time, not the block's
    decimals,   \* Asset of each contract: "absent", "known", or the fallback
    balances,   \* the BalanceSnapshot rows
    run         \* the session of each sync

chain    == <<head, node>>
database == <<cursor, since, raw, posted, misdated, decimals, balances>>
vars     == <<chain, database, run>>

Tokens(t)    == Chain[t].sent \cup Chain[t].received
HasLegs(t)   == Chain[t].pays \/ Tokens(t) # {}
BlockOf(t)   == Chain[t].block
Minus(a, b)  == IF a > b THEN a - b ELSE 0

\* A balance of an asset at a block.  read: FALSE when the node said null, which
\* the code takes for zero.  dated: FALSE when its time is the clock's.
BalanceRow == [block : Blocks, asset : Contracts \cup {Native},
               read : BOOLEAN, dated : BOOLEAN]

PCs == {"idle", "logs", "native", "transactions", "receipts", "persist",
        "balances", "commit", "finish"}
Statuses == {"none", "running", "succeeded", "partial", "failed"}

Session == [pc : PCs, status : Statuses, request : Requests \cup {NoBlock},
            from : Blocks, to : Blocks,
            hashes : SUBSET Txs, tokens : SUBSET Contracts,
            txs : SUBSET Txs, receipts : SUBSET Txs, blocks : SUBSET Blocks,
            failed : BOOLEAN, warned : BOOLEAN,
            fresh : SUBSET Txs, posts : SUBSET Txs, unposted : SUBSET Txs,
            contracts : SUBSET Contracts, learned : SUBSET Contracts,
            guessed : SUBSET Contracts, rows : SUBSET BalanceRow]

Idle(status) ==
    [pc |-> "idle", status |-> status, request |-> NoBlock, from |-> 0, to |-> 0,
     hashes |-> {}, tokens |-> {}, txs |-> {}, receipts |-> {}, blocks |-> {},
     failed |-> FALSE, warned |-> FALSE, fresh |-> {}, posts |-> {},
     unposted |-> {}, contracts |-> {}, learned |-> {}, guessed |-> {}, rows |-> {}]

RawStatuses == {"absent", "failed", "ignored", "normalized"}

Init ==
    /\ head = FirstBlock /\ node = "flaky"
    /\ cursor = NoBlock /\ since = NoBlock
    /\ raw = [t \in Txs |-> "absent"]
    /\ posted = [t \in Txs |-> 0]
    /\ misdated = {}
    /\ decimals = [c \in Contracts |-> "absent"]
    /\ balances = {}
    /\ run = [r \in Runs |-> Idle("none")]

-----------------------------------------------------------------------------
(* The node. *)

Mine ==
    /\ head < MaxBlock
    /\ head' = head + 1
    /\ UNCHANGED <<node, database, run>>

Recover ==
    /\ node = "flaky"
    /\ node' = "sound"
    /\ UNCHANGED <<head, database, run>>

\* How a call may be answered.
Answers == {"value"} \cup (IF node = "sound" THEN {} ELSE Faults \cap {"error", "null"})

\* What eth_blockNumber may say: a node that lags says less, a null is read as 0.
Heads == IF node = "sound" THEN {head}
         ELSE {head} \cup (IF "lag" \in Faults THEN 0..head ELSE {})
                     \cup (IF "null" \in Faults THEN {0} ELSE {})

Has(answers, kind) == \E call \in DOMAIN answers : answers[call] = kind

-----------------------------------------------------------------------------
(* Planning: which blocks a request means. *)

At(r, pc) == run[r].pc = pc

\* Steps that change nothing but the session.
Become(r, session) ==
    /\ run' = [run EXCEPT ![r] = session]
    /\ UNCHANGED <<chain, database>>

Fail(r) == Become(r, Idle("failed"))

ToBlock(request, confirmed) ==
    IF request.to_block # NoBlock THEN request.to_block ELSE confirmed

FromBlock(request, to) ==
    LET wanted == IF request.from_block # NoBlock THEN request.from_block
                  ELSE IF cursor # NoBlock THEN cursor + 1
                  ELSE Minus(to + 1, Lookback)
    IN IF wanted > to THEN to ELSE wanted

\* Mutant: lets an explicit to_block run ahead of the confirmed head.
RefusedSpanOnly(from, to, confirmed) == to - from + 1 > MaxSpan

Refused(from, to, confirmed) == to > confirmed \/ to - from + 1 > MaxSpan

Planned(request, from, to) ==
    [Idle("running") EXCEPT
        !.pc = "logs", !.request = request, !.from = from, !.to = to]

Plan(r, request) == \E latest \in Heads :
    LET confirmed == Minus(latest, Confirmations)
        to   == ToBlock(request, confirmed)
        from == FromBlock(request, to)
    IN /\ At(r, "idle")
       /\ ~ Refused(from, to, confirmed)
       /\ Become(r, Planned(request, from, to))

\* A range the settings do not allow, or a node that does not say its head.
RefuseRange(r, request) == \E latest \in Heads :
    LET confirmed == Minus(latest, Confirmations)
        to == ToBlock(request, confirmed)
    IN /\ At(r, "idle")
       /\ Refused(FromBlock(request, to), to, confirmed) \/ "error" \in Answers
       /\ Fail(r)

-----------------------------------------------------------------------------
(* Collecting: calls to the node, no access to the database. *)

\* Mutant: takes the end of the range for exclusive.
ChunkShort(from, to, b) ==
    {c \in from..(to - 1) : (c - from) \div ChunkSize = (b - from) \div ChunkSize}

\* eth_getLogs is asked for one chunk of blocks at a time, once for the tokens
\* that left the wallet and once for those that came.
Chunk(from, to, b) ==
    {c \in from..to : (c - from) \div ChunkSize = (b - from) \div ChunkSize}

Filters(from, to) ==
    {Chunk(from, to, b) : b \in from..to} \X {"sent", "received"}

LoggedBy(filter, t) == IF BlockOf(t) \in filter[1] THEN Chain[t][filter[2]] ELSE {}

Answered(answer) == {call \in DOMAIN answer : answer[call] = "value"}

LoggedTokens(answer) ==
    {c \in Contracts : \E f \in Answered(answer), t \in Txs : c \in LoggedBy(f, t)}

LoggedTxs(answer) == {t \in Txs : \E f \in Answered(answer) : LoggedBy(f, t) # {}}

LogsRead(s, answer) ==
    [s EXCEPT
        !.pc = "native",
        !.hashes = s.request.transaction_hashes \cup LoggedTxs(answer),
        !.tokens = LoggedTokens(answer),
        !.failed = Has(answer, "error")]

TransferLogs(r) ==
    /\ At(r, "logs")
    /\ \E answer \in [Filters(run[r].from, run[r].to) -> Answers] :
           Become(r, LogsRead(run[r], answer))

NativeWindow(from, to) ==
    (IF to - from + 1 > ScanMax THEN to - ScanMax + 1 ELSE from) .. to

NativeRead(s, answer, refused) ==
    [s EXCEPT
        !.pc = "transactions",
        !.blocks = Answered(answer),
        !.txs = {t \in Txs : Chain[t].direct /\ BlockOf(t) \in Answered(answer)},
        !.failed = s.failed \/ Has(answer, "error"),
        !.warned = refused \/ s.to - s.from + 1 > ScanMax]

\* Blocks are read in batches; a batch that is refused is read block by block.
NativeTransactions(r) ==
    /\ At(r, "native")
    /\ \E answer \in [NativeWindow(run[r].from, run[r].to) -> Answers],
          refused \in {FALSE, "error" \in Answers} :
         /\ Has(answer, "error") => refused
         /\ Become(r, NativeRead(run[r], answer, refused))

\* The node knows what is mined.
TransactionsRead(s, answer) ==
    [s EXCEPT
        !.pc = "receipts",
        !.hashes = {},
        !.txs = s.txs \cup {t \in Answered(answer) : BlockOf(t) <= head},
        !.failed = s.failed \/ Has(answer, "error"),
        !.warned = s.warned \/ Has(answer, "error")]

HydrateTransactions(r) ==
    /\ At(r, "transactions")
    /\ \E answer \in [run[r].hashes \ run[r].txs -> Answers] :
           Become(r, TransactionsRead(run[r], answer))

ReceiptsRead(s, receipt, block) ==
    [s EXCEPT
        !.pc = "persist",
        !.receipts = Answered(receipt),
        !.blocks = s.blocks \cup Answered(block),
        !.failed = s.failed \/ Has(receipt, "error") \/ Has(block, "error"),
        !.warned = s.warned \/ Has(receipt, "error") \/ Has(block, "error")]

\* The block of a transaction whose receipt call failed is not asked for.
HydrateReceiptsAndBlocks(r) ==
    /\ At(r, "receipts")
    /\ \E receipt \in [run[r].txs -> Answers] :
         LET asked == {BlockOf(t) : t \in {u \in run[r].txs : receipt[u] # "error"}}
         IN \E block \in [asked \ run[r].blocks -> Answers] :
              Become(r, ReceiptsRead(run[r], receipt, block))

-----------------------------------------------------------------------------
(* Storing: one database transaction, from the first look-up to the commit. *)

\* The contracts of the wallet that some snapshot has a balance of.
KnownContracts == {row.asset : row \in balances} \ {Native}

\* Which balances are read: requested contracts first, then known ones, then
\* those the logs discovered, up to the cap.
Capped(kept, requested, discovered) ==
    LET all == requested \cup KnownContracts \cup discovered
        before(c) == IF c \in requested THEN {} ELSE requested \cup
                     (IF c \in KnownContracts THEN {} ELSE KnownContracts)
    IN /\ kept \subseteq all
       /\ Cardinality(kept) <= MaxContracts
       /\ kept = all \/ Cardinality(kept) = MaxContracts
       /\ \A c \in kept : before(c) \subseteq kept

\* A token seen for the first time is described by its contract; when the calls
\* fail, and when they answer null, it gets 18 decimals.
Learn(metadata, s) ==
    [s EXCEPT
        !.learned = s.learned \cup Answered(metadata),
        !.guessed = s.guessed \cup (DOMAIN metadata \ Answered(metadata)),
        !.warned  = s.warned \/ Has(metadata, "error")]

Unknown(s, contracts) ==
    {c \in contracts : decimals[c] = "absent"} \ (s.learned \cup s.guessed)

\* The transactions that have no ledger event yet, and those of them to post.
Todo(s)  == {t \in s.txs : posted[t] = 0}
Posts(s) == {t \in Todo(s) \cap s.receipts : HasLegs(t)}

Persisted(s, kept, metadata) ==
    Learn(metadata, [s EXCEPT
        !.pc = "balances",
        !.fresh = {t \in s.txs : raw[t] = "absent"},
        !.posts = Posts(s),
        !.unposted = Todo(s) \ s.receipts,
        !.contracts = kept,
        !.warned = \/ s.warned
                   \/ Todo(s) \ s.receipts # {}
                   \/ kept # s.request.token_contracts \cup KnownContracts \cup s.tokens])

PersistTransactions(r) ==
    /\ At(r, "persist")
    /\ \E kept \in SUBSET Contracts,
          metadata \in [Unknown(run[r], UNION {Tokens(t) : t \in Posts(run[r])}) -> Answers] :
         /\ Capped(kept, run[r].request.token_contracts, run[r].tokens)
         /\ Become(r, Persisted(run[r], kept, metadata))

\* The rows the session adds: one for each balance that was answered, unless a
\* row of the same time is there.
NewRows(s, dated, answer) ==
    {row \in [block : {s.to}, asset : {a \in DOMAIN answer : answer[a] # "error"},
              read : BOOLEAN, dated : {dated}] :
        /\ row.read = (answer[row.asset] = "value")
        /\ ~ dated \/ \A other \in balances :
               ~ (other.dated /\ other.block = s.to /\ other.asset = row.asset)}

BalancesRead(s, block, answer, metadata) ==
    Learn(metadata, [s EXCEPT
        !.pc = "commit",
        !.rows = NewRows(s, block = "value", answer),
        !.warned = s.warned \/ Has(answer, "error")])

\* The block of the snapshot gives its time; it is asked for unless it was read.
SyncBalances(r) ==
    /\ At(r, "balances")
    /\ \E block \in IF run[r].to \in run[r].blocks THEN {"value"} ELSE Answers,
          answer \in [run[r].contracts \cup {Native} -> Answers],
          metadata \in [Unknown(run[r], run[r].contracts) -> Answers] :
         /\ block # "error" /\ answer[Native] # "error"
         /\ Become(r, BalancesRead(run[r], block, answer, metadata))

\* Without its native balance or the snapshot's block the whole sync fails.
BalancesFail(r) ==
    /\ At(r, "balances")
    /\ "error" \in Answers
    /\ Fail(r)

\* Mutant: no unique index at all.
CollidesNever(s) == FALSE

\* The unique indexes: of two sessions that insert a row, the second fails.
Collides(s) ==
    \/ \E t \in s.fresh : raw[t] # "absent"
    \/ \E t \in s.posts : posted[t] > 0
    \/ \E c \in s.learned \cup s.guessed : decimals[c] # "absent"
    \/ \E row \in s.rows, other \in balances :
         row.dated /\ other.dated /\ row.block = other.block /\ row.asset = other.asset

Duplicate(r) ==
    /\ At(r, "commit")
    /\ Collides(run[r])
    /\ Fail(r)

\* Mutant: forgets the failed ranges.
MovesCursorAnyway(s) ==
    /\ s.to - s.from + 1 <= ScanMax
    /\ s.request.from_block = NoBlock /\ s.request.to_block = NoBlock

MovesCursor(s) ==
    /\ ~ s.failed
    /\ s.to - s.from + 1 <= ScanMax
    /\ s.request.from_block = NoBlock /\ s.request.to_block = NoBlock

\* Mutant: forgets raw.status = IGNORED.
RawAfterUnset(s, t) ==
    IF t \in s.posts THEN "normalized"
    ELSE IF t \notin s.txs \/ posted[t] > 0 THEN raw[t]
    ELSE IF t \in s.unposted THEN "received" ELSE "ignored"

RawAfter(s, t) ==
    IF t \in s.posts THEN "normalized"
    ELSE IF t \notin s.txs \/ posted[t] > 0 THEN raw[t]
    ELSE IF t \in s.unposted THEN "failed" ELSE "ignored"

\* Mutant: sets the cursor of a new row only.
UpdateCursorOnce(s) ==
    IF MovesCursor(s) /\ cursor = NoBlock
    THEN cursor' = s.to /\ since' = s.from
    ELSE UNCHANGED <<cursor, since>>

UpdateCursor(s) ==
    IF MovesCursor(s)
    THEN /\ cursor' = s.to
         /\ since' = IF since = NoBlock THEN s.from ELSE since
    ELSE UNCHANGED <<cursor, since>>

Commit(r) ==
    LET s == run[r] IN
    /\ At(r, "commit")
    /\ ~ Collides(s)
    /\ raw' = [t \in Txs |-> RawAfter(s, t)]
    /\ posted' = [t \in Txs |-> IF t \in s.posts THEN posted[t] + 1 ELSE posted[t]]
    /\ misdated' = misdated \cup {t \in s.posts : BlockOf(t) \notin s.blocks}
    /\ decimals' = [c \in Contracts |-> IF c \in s.learned THEN "known"
                                        ELSE IF c \in s.guessed THEN "fallback"
                                        ELSE decimals[c]]
    /\ balances' = balances \cup s.rows
    /\ UpdateCursor(s)
    /\ run' = [run EXCEPT ![r].pc = "finish"]
    /\ UNCHANGED chain

Finish(r) ==
    /\ At(r, "finish")
    /\ Become(r, Idle(IF run[r].warned \/ run[r].failed THEN "partial" ELSE "succeeded"))

\* The server dies: the session is lost, the run row stays RUNNING.  Once the
\* node is sound the server is taken to stay up, which only CatchesUp relies on.
Crash(r) ==
    /\ ~ At(r, "idle") /\ node = "flaky"
    /\ Become(r, Idle("running"))

Step(r) ==
    \/ TransferLogs(r) \/ NativeTransactions(r) \/ HydrateTransactions(r)
    \/ HydrateReceiptsAndBlocks(r) \/ PersistTransactions(r)
    \/ SyncBalances(r) \/ BalancesFail(r)
    \/ Duplicate(r) \/ Commit(r) \/ Finish(r)

Next ==
    \/ Mine \/ Recover
    \/ \E r \in Runs, request \in Requests : Plan(r, request) \/ RefuseRange(r, request)
    \/ \E r \in Runs : Step(r) \/ Crash(r)

Spec == Init /\ [][Next]_vars

\* Users keep asking for incremental syncs and the node recovers at last.
Incremental == {request \in Requests :
                  request.from_block = NoBlock /\ request.to_block = NoBlock}

FairSpec ==
    /\ Spec
    /\ WF_vars(Recover)
    /\ \A r \in Runs : /\ WF_vars(Step(r))
                      /\ \A request \in Incremental : SF_vars(Plan(r, request))

-----------------------------------------------------------------------------
(* Properties. *)

\* Every variable keeps its type: states of the rows, bounds of blocks, fields of
\* a session.
TypeOK ==
    /\ head \in Blocks /\ node \in {"flaky", "sound"}
    /\ cursor \in Blocks \cup {NoBlock} /\ since \in Blocks \cup {NoBlock}
    /\ raw \in [Txs -> RawStatuses]
    /\ posted \in [Txs -> Nat]
    /\ misdated \subseteq Txs
    /\ decimals \in [Contracts -> {"absent", "known", "fallback"}]
    /\ balances \subseteq BalanceRow
    /\ run \in [Runs -> Session]
    /\ \A r \in Runs : ~ At(r, "idle") => run[r].request \in Requests

\* What a sync owes a transaction: its raw event, and its ledger event if it
\* moves anything.
Settled(t) == raw[t] # "absent" /\ (HasLegs(t) => posted[t] > 0)

\* The cursor speaks the truth: behind it, from where the first automatic sync
\* began, the wallet has no transaction that was not stored and posted
\* (sync.py run: failed ranges and a capped native scan keep the cursor).
CursorCovers == cursor # NoBlock =>
    \A t \in Txs : BlockOf(t) \in since..cursor => Settled(t)

\* However syncs overlap, die and are repeated, a transaction is posted to the
\* ledger at most once, and its raw event says so.
PostedOnce == \A t \in Txs :
    posted[t] <= 1 /\ (posted[t] = 1 <=> raw[t] = "normalized")

\* What a session has, at each stage, if nothing failed so far.
InRange(s, t) == BlockOf(t) \in s.from .. s.to
Complete(s)   == ~ s.failed /\ s.to - s.from + 1 <= ScanMax
Automatic(s)  == s.request.from_block = NoBlock /\ s.request.to_block = NoBlock

Ranged(s)    == s.from <= s.to /\ s.to <= head
Resumes(s)   == Automatic(s) =>
    /\ since # NoBlock => \A t \in Txs : BlockOf(t) \in since .. (s.from - 1) => Settled(t)
    /\ since = NoBlock /\ MaxBlock < Lookback => s.from = 0
Logged(s)    == ~ s.failed =>
    \A t \in Txs : InRange(s, t) /\ Tokens(t) # {} => t \in s.hashes
Scanned(s)   == Complete(s) => \A t \in Txs : InRange(s, t) /\ Chain[t].direct => t \in s.txs
Found(s)     == Complete(s) => \A t \in Txs : InRange(s, t) => t \in s.txs
Receipted(s) == ~ s.failed => s.txs \subseteq s.receipts
Handled(s)   == ~ s.failed =>
    \A t \in s.txs : HasLegs(t) => posted[t] > 0 \/ t \in s.posts

Progress(s) ==
    /\ s.pc \notin {"idle", "finish"} => Ranged(s) /\ Resumes(s)
    /\ s.pc \in {"native", "transactions"} => Logged(s)
    /\ s.pc = "transactions" => Scanned(s)
    /\ s.pc \in {"receipts", "persist", "balances", "commit"} => Found(s)
    /\ s.pc \in {"persist", "balances", "commit"} => Receipted(s)
    /\ s.pc \in {"balances", "commit"} => Handled(s)

\* The inductive invariant behind CursorCovers: each stage of a session that has
\* recorded no failed range holds all it should, the range continues what is
\* covered, and what is settled stays settled.
IInv ==
    /\ TypeOK
    /\ PostedOnce
    /\ CursorCovers
    /\ cursor = NoBlock <=> since = NoBlock
    /\ \A r \in Runs : Progress(run[r])

\* Syncs of block ranges post nothing the chain may still take back, whatever
\* head a lagging node reports.
OnlyConfirmedIsPosted == \A t \in Txs :
    posted[t] > 0 => BlockOf(t) <= Minus(head, Confirmations)

\* What a run read and settled in full.
Whole(s) ==
    /\ \A t \in Txs : BlockOf(t) \in s.from..s.to => Settled(t)
    /\ s.posts \cap misdated = {}
    /\ \A asset \in s.contracts \cup {Native} : \E row \in balances :
           row.block = s.to /\ row.asset = asset /\ row.read /\ row.dated

\* A run that is reported SUCCEEDED missed nothing: each transaction of its
\* range is posted, those it posted at the time of their blocks, and each balance
\* was read.
SucceededIsWhole == [][
    \A r \in Runs : Finish(r) /\ run'[r].status = "succeeded" => Whole(run[r])]_vars

\* Incremental syncs catch up: once a block is confirmed, and the node answers
\* again, the cursor reaches it.
CatchesUp == \A b \in Blocks :
    (head >= b + Confirmations) ~> (cursor # NoBlock /\ cursor >= b)
=============================================================================
