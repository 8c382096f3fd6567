------------------------------ MODULE CostBasis ------------------------------
(***************************************************************************)
(* Cost basis runs: CostBasisService.calculate rebuilds lots, realized PnL *)
(* and position costs from a portfolio's posted ledger events              *)
(* (backend/app/services/cost_basis.py).                                   *)
(*                                                                         *)
(* Several runs, of different methods, rebuild the same ledger in          *)
(* lockstep, so that what they conclude can be compared.  They share       *)
(* nothing but the ledger.  Each event handled is one step, whose kind and *)
(* amounts are chosen among the forms of Ledger as the runs advance.       *)
(*                                                                         *)
(* An event is a record of at most one debit (out), one credit (in) and    *)
(* one fee; an entry of quantity 0 is an absent one.                       *)
(***************************************************************************)
EXTENDS LotBook, SequencesExt

CONSTANTS
    Runs,       \* the cost basis runs: records of a method and an order of ids
    Ledger,     \* the forms of ledger events
    Accounts,
    Assets,
    Par,        \* assets valued at one dollar: USD, USDT, USDC
    AsOf,       \* the runs' as_of, and bound: the number of events, one per tick
    Balances    \* what the latest balance snapshots of the accounts may say

Kinds == {"buy", "disposal", "transfer", "inline", "inflow", "outflow", "fee", "income", "airdrop",
          "repay", "borrow", "adjust", "derivative"}

Keys == Accounts \X Assets

\* LedgerEntry: quantities are positive, prices and costs are not negative.
EntryType(x) == /\ x.quantity \in Nat
                /\ x.quantity > 0 => <<x.account, x.asset>> \in Keys
                /\ IsCost(x.price)

\* A transfer group has both its legs.
EventType(e) == /\ e.kind \in Kinds
                /\ EntryType(e.out) /\ EntryType(e.in) /\ EntryType(e.fee)
                /\ e.kind = "transfer" => e.out.quantity > 0 /\ e.in.quantity > 0
                /\ IsCost(e.override)
                /\ e.delay \in Nat
                /\ e.embedded \in BOOLEAN

ASSUME CostAssumption ==
    /\ \A r \in Runs : /\ r.method \in {"FIFO", "LIFO", "AVERAGE_COST"}
                       /\ r.ids \in {"ascending", "descending"}
    /\ \A e \in Ledger : EventType(e)
    /\ AsOf \in Nat
    /\ \A b \in Balances : /\ DOMAIN b \subseteq Accounts
                           /\ \A a \in DOMAIN b : \A x \in DOMAIN b[a] : b[a][x] \in Int

VARIABLES
    books,      \* what each run has rebuilt
    positions,  \* the position snapshots each run ends with
    clock,      \* the time of the next event
    held        \* what the accounts really hold, by the meaning of the events

vars == <<books, positions, clock, held>>

-----------------------------------------------------------------------------
(* Books. *)

EmptyBook == [lots    |-> <<>>,
              pnl     |-> <<>>,      \* realized_pnl_records
              missing |-> [k \in Keys |-> 0],   \* what _consume could not find
              entered |-> 0,         \* known cost of the lots created, transfers aside,
              spent   |-> 0,         \* and of the pieces consumed, transfers aside
              warned  |-> FALSE,
              status  |-> "RUNNING",
              rounds  |-> FALSE]     \* a share did not come out even

\* calculate catches the exception, rolls back and records FAILED.
FailedBook == [EmptyBook EXCEPT !.status = "FAILED"]

Value(x) == IF x.asset \in Par \/ x.quantity = 0 THEN x.quantity
            ELSE IF Known(x.price) THEN x.quantity * x.price
            ELSE Unknown

Plus(x, y)  == IF Known(x) /\ Known(y) THEN x + y ELSE Unknown
Either(x, y) == IF Known(x) THEN x ELSE y
AtLeast0(x) == IF x < 0 THEN 0 ELSE x

\* The book after c has been consumed of x.  The cost that a transfer
\* carries on stays in the books.
Debited(book, x, quantity, use, c) ==
    LET k     == <<x.account, x.asset>>
        short == quantity - Quantity(c.pieces)
        cost  == KnownCost(c.pieces)
    IN  [book EXCEPT !.lots       = c.lots,
                     !.missing[k] = @ + short,
                     !.warned     = @ \/ short > 0,
                     !.spent      = @ + IF use = "carried" THEN 0 ELSE AtLeast0(cost),
                     !.status     = IF c.fails THEN "FAILED" ELSE @,
                     !.rounds     = @ \/ c.rounds]

\* _consume with its warning.
Debit(run, book, x, quantity, at, use) ==
    LET c == Consume(run, book.lots, x.account, x.asset, quantity, at)
    IN  [pieces |-> c.pieces,
         book   |-> IF quantity = 0 THEN book ELSE Debited(book, x, quantity, use, c)]

Warn(book) == [book EXCEPT !.warned = TRUE]

Spend(run, book, x, at) == Debit(run, book, x, x.quantity, at, "spent").book

Credit(book, x, quantity, cost, at) ==
    IF quantity <= 0 THEN book
    ELSE [book EXCEPT !.lots = AddLot(@, NewLot(x.account, x.asset, quantity, cost, at)),
                      !.entered = @ + IF Known(cost) THEN cost ELSE 0,
                      !.warned  = @ \/ ~Known(cost)]

\* _add_pnl: proceeds - cost is the realized PnL, unknown if one of them is.
\* covered is the quantity of the consumption rows behind the record.
AddPnl(book, category, quantity, covered, proceeds, cost) ==
    [book EXCEPT !.pnl = Append(@, [category |-> category, quantity |-> quantity,
                                    covered |-> covered, proceeds |-> proceeds, cost |-> cost])]

\* An entry consumed and at once recorded as an expense.
Expense(run, book, x, at) ==
    LET d == Debit(run, book, x, x.quantity, at, "spent")
    IN  IF x.quantity = 0 THEN book
        ELSE AddPnl(d.book, "fee", x.quantity, Quantity(d.pieces), 0, KnownCost(d.pieces))

-----------------------------------------------------------------------------
(* The handlers of _process_event. *)

\* A fee in the asset received reduces what is received; another is consumed.
SameAssetFee(e) == IF e.fee.asset = e.in.asset /\ e.fee.account = e.in.account
                   THEN e.fee.quantity ELSE 0
NetQuantity(e)  == e.in.quantity - SameAssetFee(e)
SpendFee(run, book, e, at) == IF e.fee.asset = e.in.asset THEN book ELSE Spend(run, book, e.fee, at)

\* _process_buy
Bought(run, book, e, at) ==
    LET fee   == IF e.fee.asset = e.in.asset THEN 0 ELSE Value(e.fee)
        net   == NetQuantity(e)
        price == IF Known(e.in.price) THEN net * e.in.price ELSE Unknown
        cost  == Either(e.override, Either(Plus(Value(e.out), fee), price))
        paid  == SpendFee(run, Spend(run, book, e.out, at), e, at)
    IN  IF e.in.quantity = 0 THEN Warn(book)
        ELSE IF net <= 0 THEN Warn(paid)
        ELSE Credit(paid, e.in, net, cost, at)

\* _process_disposal: sell, swap, liquidation
Disposed(run, book, e, at) ==
    LET gross    == Either(Value(e.in), Value(e.out))
        proceeds == IF Known(gross) /\ Known(Value(e.fee)) THEN AtLeast0(gross - Value(e.fee)) ELSE Unknown
        d        == Debit(run, book, e.out, e.out.quantity, at, "spent")
        sold     == IF e.out.quantity = 0 THEN book
                    ELSE AddPnl(d.book, "spot", e.out.quantity, Quantity(d.pieces),
                                proceeds, KnownCost(d.pieces))
    IN  Credit(SpendFee(run, sold, e, at), e.in, NetQuantity(e), proceeds, at)

\* The lots a transfer creates from the pieces it consumed, in proportion to what
\* arrived, and one of unknown cost for what arrived beyond them.
CarriedCost(e, piece) == IF Known(piece.cost) THEN Share(piece.cost, e.in.quantity, e.out.quantity)
                         ELSE Unknown

Carry(book, e, pieces, arrives) ==
    LET order   == SetToSeq(DOMAIN pieces)
        moved   == [n \in DOMAIN order |->
                      NewLot(e.in.account, e.in.asset,
                             Share(pieces[order[n]].quantity, e.in.quantity, e.out.quantity),
                             CarriedCost(e, pieces[order[n]]), arrives)]
        created == Total([n \in DOMAIN moved |-> moved[n].quantity])
        carried == [book EXCEPT
                      !.lots    = IF DOMAIN pieces = {} THEN @ ELSE Flushed(@) \o moved,
                      !.warned  = @ \/ \E n \in DOMAIN moved : ~Known(moved[n].cost),
                      !.rounds  = @ \/ \E i \in DOMAIN pieces :
                                          \/ Rounds(pieces[i].quantity, e.in.quantity, e.out.quantity)
                                          \/ Known(pieces[i].cost)
                                             /\ Rounds(pieces[i].cost, e.in.quantity, e.out.quantity)]
    IN  Credit(carried, e.in, e.in.quantity - created, Unknown, arrives)

\* _process_internal_transfer: a withdrawal and a deposit linked by a transfer
\* group, handled at the withdrawal; the deposit itself is skipped.
FeeAmount(e) == IF e.fee.quantity > 0 THEN e.fee.quantity ELSE AtLeast0(e.out.quantity - e.in.quantity)
FeeAsset(e)  == IF e.fee.quantity > 0 THEN e.fee.asset ELSE e.out.asset

\* Mutant: a same-asset fee is always taken for part of the amount sent.
FeeAlwaysEmbedded(e) == FeeAmount(e) > 0 /\ FeeAsset(e) = e.out.asset

FeeIsEmbedded(e) == /\ FeeAmount(e) > 0
                    /\ FeeAsset(e) = e.out.asset
                    /\ e.out.quantity - e.in.quantity = FeeAmount(e)

\* The part of the cost that did not arrive is the fee's.
Haircut(book, e, cost) ==
    [AddPnl(book, "fee", FeeAmount(e), FeeAmount(e), 0, cost) EXCEPT !.spent = @ + AtLeast0(cost)]

CostLeftBehind(e, pieces) ==
    LET carried == Total([i \in DOMAIN pieces |-> CarriedCost(e, pieces[i])])
    IN  IF Known(KnownCost(pieces)) THEN AtLeast0(KnownCost(pieces) - carried) ELSE Unknown

ExtraFee(e) == [account |-> e.out.account, asset |-> FeeAsset(e), quantity |-> FeeAmount(e)]

Transferred(run, book, e, at) ==
    LET d     == Debit(run, book, e.out, e.out.quantity, at, "carried")
        moved == Carry(d.book, e, d.pieces, at + e.delay)
    IN  IF at + e.delay > AsOf THEN Warn(book)     \* the deposit's entries are not loaded
        ELSE IF FeeAmount(e) = 0 THEN moved
        ELSE IF FeeIsEmbedded(e) THEN Haircut(moved, e, CostLeftBehind(e, d.pieces))
        ELSE Expense(run, moved, ExtraFee(e), at)

\* _process_inline_internal_transfer: both legs in one event
TransferredInline(run, book, e, at) ==
    LET d == Debit(run, book, e.out, e.out.quantity, at, "carried")
    IN  IF e.out.quantity = 0 \/ e.in.quantity = 0 THEN Warn(book)
        ELSE Expense(run, Carry(d.book, e, d.pieces, at), e.fee, at)

\* _process_external_inflow, _process_external_outflow
Received(run, book, e, at) ==
    Credit(book, e.in, e.in.quantity, Either(e.override, Value(e.in)), at)

Withdrawn(run, book, e, at) == Warn(Expense(run, Spend(run, book, e.out, at), e.fee, at))

\* _process_fee_event: an expense that has no value is recorded as zero
FeePaid(run, book, e, at) ==
    LET d    == Debit(run, book, e.fee, e.fee.quantity, at, "spent")
        cost == Either(Value(e.fee), KnownCost(d.pieces))
    IN  AddPnl(d.book, "fee", e.fee.quantity, Quantity(d.pieces), 0, IF Known(cost) THEN cost ELSE 0)

\* _process_income: an airdrop without a price is worth nothing
Income(run, book, e, at) ==
    LET value  == IF e.kind = "airdrop" THEN Either(Value(e.in), 0) ELSE Value(e.in)
        earned == AddPnl(Credit(book, e.in, e.in.quantity, Either(e.override, value), at),
                         "income", e.in.quantity, e.in.quantity, value, 0)
        d      == Debit(run, book, e.out, e.out.quantity, at, "spent")
    IN  IF e.in.quantity > 0 THEN earned
        ELSE AddPnl(d.book, "income", e.out.quantity, Quantity(d.pieces), 0,
                    Either(Value(e.out), KnownCost(d.pieces)))

\* REPAY, BORROW and _process_manual_adjustment
Repaid(run, book, e, at)   == Spend(run, Spend(run, book, e.out, at), e.fee, at)
Borrowed(run, book, e, at) == Warn(Credit(book, e.in, e.in.quantity, Unknown, at))
Adjusted(run, book, e, at) ==
    Spend(run, Credit(book, e.in, e.in.quantity, Either(e.override, Value(e.in)), at), e.out, at)

\* _process_derivative: PnL only, and none at all if a value is missing
Settled(run, book, e, at) ==
    LET cost == Plus(Value(e.out), Value(e.fee))
    IN  IF Known(Value(e.in)) /\ Known(cost) THEN AddPnl(book, "derivative", 0, 0, Value(e.in), cost)
        ELSE Warn(AddPnl(book, "derivative", 0, 0, Unknown, Unknown))

-----------------------------------------------------------------------------
(* Steps. *)

Init ==
    /\ books = [r \in Runs |-> EmptyBook]
    /\ positions = [r \in Runs |-> <<>>]
    /\ clock = 1
    /\ held = [k \in Keys |-> 0]

\* An event's effect on what the accounts hold.  embedded tells the two
\* conventions apart: the amount sent includes the network fee, or not.
Held(e) ==
    [k \in Keys |->
        held[k] + (IF k = <<e.in.account, e.in.asset>> THEN e.in.quantity ELSE 0)
                - (IF k = <<e.out.account, e.out.asset>> THEN e.out.quantity ELSE 0)
                - (IF k = <<e.fee.account, e.fee.asset>> /\ ~e.embedded THEN e.fee.quantity ELSE 0)]

Post(handled, holdings) ==
    /\ clock <= AsOf
    /\ \A r \in Runs : ~handled[r].rounds
    /\ books' = [r \in Runs |-> IF books[r].status = "FAILED" \/ handled[r].status = "FAILED"
                                THEN FailedBook ELSE handled[r]]
    /\ held' = holdings
    /\ clock' = clock + 1
    /\ UNCHANGED positions

Buy(e) == /\ e.kind = "buy"
          /\ Post([r \in Runs |-> Bought(r, books[r], e, clock)], Held(e))

Disposal(e) == /\ e.kind = "disposal"
               /\ Post([r \in Runs |-> Disposed(r, books[r], e, clock)], Held(e))

\* Until it arrives, a transfer counts at its source.
InternalTransfer(e) ==
    /\ e.kind = "transfer"
    /\ Post([r \in Runs |-> Transferred(r, books[r], e, clock)],
            IF clock + e.delay <= AsOf THEN Held(e) ELSE held)

InlineInternalTransfer(e) ==
    /\ e.kind = "inline"
    /\ Post([r \in Runs |-> TransferredInline(r, books[r], e, clock)], Held(e))

ExternalInflow(e) == /\ e.kind = "inflow"
                     /\ Post([r \in Runs |-> Received(r, books[r], e, clock)], Held(e))

ExternalOutflow(e) == /\ e.kind = "outflow"
                      /\ Post([r \in Runs |-> Withdrawn(r, books[r], e, clock)], Held(e))

FeeEvent(e) == /\ e.kind = "fee"
               /\ Post([r \in Runs |-> FeePaid(r, books[r], e, clock)], Held(e))

IncomeEvent(e) == /\ e.kind \in {"income", "airdrop"}
                  /\ Post([r \in Runs |-> Income(r, books[r], e, clock)], Held(e))

Repay(e) == /\ e.kind = "repay"
            /\ Post([r \in Runs |-> Repaid(r, books[r], e, clock)], Held(e))

Borrow(e) == /\ e.kind = "borrow"
             /\ Post([r \in Runs |-> Borrowed(r, books[r], e, clock)], Held(e))

ManualAdjustment(e) == /\ e.kind = "adjust"
                       /\ Post([r \in Runs |-> Adjusted(r, books[r], e, clock)], Held(e))

Derivative(e) == /\ e.kind = "derivative"
                 /\ Post([r \in Runs |-> Settled(r, books[r], e, clock)], held)

\* _create_position_snapshots: the latest balance snapshot of an account, if it
\* has one, is what it holds, and an asset it leaves out is zero; the cost is
\* carried as far as the lots explain that quantity.
OpenLots(book, k) == Selected(book.lots, k[1], k[2], AsOf)

\* Mutant: the cost is scaled up to a quantity the lots do not explain.
CalculatedCostScaled(book, k, quantity) ==
    LET S     == OpenLots(book, k)
        units == Remaining(book.lots, S)
        cost  == IF \E i \in S : ~Known(book.lots[i].left) THEN Unknown
                 ELSE Total([i \in S |-> book.lots[i].left])
    IN  IF quantity = units THEN cost
        ELSE IF Known(cost) /\ units > 0 THEN Share(cost, quantity, units)
        ELSE Unknown

CalculatedCost(book, k, quantity) ==
    LET S     == OpenLots(book, k)
        units == Remaining(book.lots, S)
        cost  == IF \E i \in S : ~Known(book.lots[i].left) THEN Unknown
                 ELSE Total([i \in S |-> book.lots[i].left])
    IN  IF quantity = units THEN cost
        ELSE IF Known(cost) /\ units > 0 /\ quantity < units THEN Share(cost, quantity, units)
        ELSE Unknown

PositionQuantity(book, k, b) ==
    IF k[1] \notin DOMAIN b THEN Remaining(book.lots, OpenLots(book, k))
    ELSE IF k[2] \in DOMAIN b[k[1]] THEN b[k[1]][k[2]] ELSE 0

Positions(book, b) ==
    [k \in {j \in Keys : PositionQuantity(book, j, b) > 0} |->
        [quantity |-> PositionQuantity(book, k, b),
         cost     |-> CalculatedCost(book, k, PositionQuantity(book, k, b))]]

\* The commit stores every row.
Closed(book) == [book EXCEPT !.status = IF book.warned THEN "PARTIAL" ELSE "SUCCEEDED",
                             !.lots   = Flushed(@)]

Finish ==
    /\ clock <= AsOf + 1
    /\ \E b \in Balances :
          positions' = [r \in Runs |-> IF books[r].status = "FAILED" THEN <<>>
                                       ELSE Positions(books[r], b)]
    /\ books' = [r \in Runs |-> IF books[r].status = "FAILED" THEN books[r] ELSE Closed(books[r])]
    /\ clock' = AsOf + 2
    /\ UNCHANGED held

Next ==
    \/ \E e \in Ledger :
          \/ Buy(e) \/ Disposal(e) \/ InternalTransfer(e) \/ InlineInternalTransfer(e)
          \/ ExternalInflow(e) \/ ExternalOutflow(e) \/ FeeEvent(e) \/ IncomeEvent(e)
          \/ Repay(e) \/ Borrow(e) \/ ManualAdjustment(e) \/ Derivative(e)
    \/ Finish

Spec == Init /\ [][Next]_vars

-----------------------------------------------------------------------------
(* Properties. *)

LotType(lot) ==
    /\ lot.account \in Accounts
    /\ lot.asset \in Assets
    /\ lot.acquired \in Int
    /\ lot.quantity \in Nat
    /\ lot.stored \in 0..lot.quantity
    /\ lot.remaining \in 0..lot.stored
    /\ IF Known(lot.cost) THEN lot.cost \in Nat /\ lot.left \in 0..lot.cost ELSE lot.left = Unknown

TypeOK ==
    /\ clock \in 1..(AsOf + 2)
    /\ held \in [Keys -> Int]
    /\ \A r \in Runs :
          /\ books[r].status \in {"RUNNING", "SUCCEEDED", "PARTIAL", "FAILED"}
          /\ books[r].warned \in BOOLEAN
          /\ books[r].missing \in [Keys -> Nat]
          /\ \A i \in DOMAIN books[r].lots : LotType(books[r].lots[i])

Live(r) == books[r].status # "FAILED"

KeyLots(r, k) == {i \in DOMAIN books[r].lots : /\ books[r].lots[i].account = k[1]
                                               /\ books[r].lots[i].asset = k[2]}

\* The events whose entries all have a meaning for their handler: a fee in the asset
\* received is no larger than what is received, at the same account; a transfer sends
\* what arrives, plus the fee if the amount sent includes it; and an entry that the
\* handler never looks at is absent.
Absent(x) == x.quantity = 0

BalancedTrade(e) ==
    /\ e.fee.asset = e.in.asset => e.fee.quantity = SameAssetFee(e) /\ NetQuantity(e) >= 0
    /\ e.kind = "buy" /\ Absent(e.in) => Absent(e.out) /\ Absent(e.fee)

BalancedTransfer(e) ==
    \/ /\ e.out.quantity = e.in.quantity
       /\ \/ Absent(e.fee)
          \/ ~e.embedded /\ e.fee.account = e.out.account
    \/ /\ e.out.quantity > e.in.quantity
       /\ \/ Absent(e.fee)
          \/ /\ e.embedded /\ e.fee.asset = e.out.asset
             /\ e.fee.quantity = e.out.quantity - e.in.quantity

Balanced(e) ==
    /\ e.kind # "transfer" => ~e.embedded
    /\ e.kind \in {"buy", "disposal"} => BalancedTrade(e)
    /\ e.kind = "transfer" => BalancedTransfer(e)
    /\ e.kind = "inline" => e.out.quantity = e.in.quantity /\ ~Absent(e.in)
    /\ e.kind \in {"outflow", "repay", "fee"} => Absent(e.in)
    /\ e.kind \in {"inflow", "borrow", "fee"} => Absent(e.out)
    /\ e.kind \in {"inflow", "borrow", "income", "airdrop", "adjust"} => Absent(e.fee)
    /\ e.kind \in {"income", "airdrop"} => Absent(e.in) \/ Absent(e.out)

LedgerIsBalanced == \A e \in Ledger : Balanced(e)

\* No double debit and no ghost balance (the comment in _process_internal_transfer):
\* by whatever purchases, sales, transfers and fees it got there, a run's inventory
\* is what the accounts hold, plus what it reported it could not find.
InventoryIsHoldings ==
    \A r \in Runs : Live(r) =>
        \A k \in Keys : Remaining(books[r].lots, KeyLots(r, k)) = held[k] + books[r].missing[k]

Complete(r) == /\ \A i \in DOMAIN books[r].lots : Known(books[r].lots[i].left)
               /\ \A k \in Keys : books[r].missing[k] = 0

\* Cost neither appears nor disappears on the way through transfers, partial
\* consumption and fees: what is left in the lots is what entered less what the
\* dispositions and the recorded transfer fees took.
CostIsConserved ==
    \A r \in Runs : Live(r) /\ Complete(r) =>
        Total([i \in DOMAIN books[r].lots |-> books[r].lots[i].left])
           = books[r].entered - books[r].spent

\* The method decides which lots are used up, never how much is found: FIFO, LIFO
\* and average cost report the same shortages on the same ledger.
MethodsAgree ==
    \A r, q \in Runs : Live(r) /\ Live(q) => books[r].missing = books[q].missing

SameResult(r, q) == books[r].pnl = books[q].pnl /\ positions[r] = positions[q]

\* Runs of the default method are "rebuildable from the same ledger"
\* (test_cost_basis_phase6.py:294): two of them realize the same gains and end with
\* the same positions, whatever the random identifiers of their lots.
AverageIsRebuildable ==
    \A r, q \in Runs : /\ {r.method, q.method} = {"AVERAGE_COST"}
                       /\ Live(r) /\ Live(q)
                       => SameResult(r, q)

\* "Cost can be carried only when the ledger fully explains the observed quantity":
\* a position with a known cost is no larger than the run's inventory of it, and
\* costs no more than what is left in its lots.
KnownCostIsBacked ==
    \A r \in Runs : \A k \in DOMAIN positions[r] : Known(positions[r][k].cost) =>
        /\ positions[r][k].quantity <= held[k] + books[r].missing[k]
        /\ \A i \in KeyLots(r, k) :
              books[r].lots[i].remaining > 0 /\ books[r].lots[i].acquired <= AsOf
                 => Known(books[r].lots[i].left)
        /\ positions[r][k].cost <=
              Total([i \in KeyLots(r, k) |-> AtLeast0(books[r].lots[i].left)])

\* A run may "choose fifo or lifo", and where a cost cannot be determined it
\* "returns partial and an explicit warning" (README.md): a ledger that takes no
\* more than the accounts hold does not make it fail.
RunCompletes == (\A k \in Keys : held[k] >= 0) => \A r \in Runs : Live(r)
=============================================================================
