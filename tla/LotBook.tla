------------------------------- MODULE LotBook -------------------------------
(***************************************************************************)
(* The lots of one cost basis run: _create_lot, _consume and their helpers *)
(* (backend/app/services/cost_basis.py), as pure functions.                *)
(*                                                                         *)
(* Quantities and amounts are integers; the code's Decimals and its        *)
(* EPSILON only blur what happens below the smallest unit.  A share that   *)
(* does not come out even is reported by Rounds, and the modules above     *)
(* leave out the ledgers that need one.                                    *)
(*                                                                         *)
(* A run works in one session with autoflush off.  The SELECT of _consume  *)
(* filters on the remaining_quantity of the rows, that is, on what the     *)
(* last flush stored, and then computes with the objects in memory: a lot  *)
(* has both, as stored and remaining.                                      *)
(***************************************************************************)
EXTENDS Integers, Sequences, FiniteSetsExt

Unknown == -1          \* None: a cost, price or value that cannot be determined

Known(x) == x # Unknown

IsCost(x) == Known(x) => x \in Nat

Clamp(x, high) == IF x \in 0..high THEN x ELSE IF x < 0 THEN 0 ELSE high

\* x * (part / whole), and whether it fails to come out even.
Share(x, part, whole)  == (x * part) \div whole
Rounds(x, part, whole) == (x * part) % whole # 0

\* The sum of some amounts, as sum(...) of Python.
Total(amount) == MapThenSumSet(LAMBDA i : amount[i], DOMAIN amount)

-----------------------------------------------------------------------------
(* Which lots a debit may use, and in which order. *)

\* The random identifiers that break the ties of acquired_at grow with the lots'
\* order of creation in some runs, and against it in others.
Older(run, lots, i, j) ==
    \/ lots[i].acquired < lots[j].acquired
    \/ /\ lots[i].acquired = lots[j].acquired
       /\ IF run.ids = "ascending" THEN i < j ELSE j < i

Precedes(run, lots, i, j) ==
    IF run.method = "LIFO" THEN Older(run, lots, j, i) ELSE Older(run, lots, i, j)

Selected(lots, account, asset, at) ==
    {i \in DOMAIN lots : /\ lots[i].account = account
                         /\ lots[i].asset = asset
                         /\ lots[i].stored > 0
                         /\ lots[i].acquired <= at}

Remaining(lots, S) == Total([i \in S |-> lots[i].remaining])

Ahead(run, lots, S, i) == Remaining(lots, {j \in S : Precedes(run, lots, j, i)})

-----------------------------------------------------------------------------
(* How much of each selected lot a debit of quantity takes. *)

\* Mutant: only the first lot is used.
TakeFirstOnly(run, lots, S, quantity, i) ==
    IF \E j \in S : Precedes(run, lots, j, i) THEN 0 ELSE Clamp(quantity, lots[i].remaining)

TakeOrdered(run, lots, S, quantity, i) ==
    Clamp(quantity - Ahead(run, lots, S, i), lots[i].remaining)

\* Mutant: the quantity is not limited to what the lots hold.
TakeAverageUnlimited(lots, S, quantity, i) ==
    LET total == Remaining(lots, S)
    IN  IF total = 0 THEN 0 ELSE Share(lots[i].remaining, quantity, total)

TakeAverage(lots, S, quantity, i) ==
    LET total == Remaining(lots, S)
    IN  IF total = 0 THEN 0
        ELSE Clamp(Share(lots[i].remaining, Clamp(quantity, total), total), lots[i].remaining)

\* Mutant: the average method takes the lots in order too.
TakeAlwaysOrdered(run, lots, S, quantity, i) == TakeOrdered(run, lots, S, quantity, i)

Take(run, lots, S, quantity, i) ==
    IF run.method = "AVERAGE_COST" THEN TakeAverage(lots, S, quantity, i)
    ELSE TakeOrdered(run, lots, S, quantity, i)

\* take / before_quantity of a lot that is stored with a remainder and exhausted
\* in memory is 0 / 0: decimal.InvalidOperation.
DividesByZero(run, lots, S, quantity) ==
    \E i \in S :
       /\ lots[i].remaining = 0
       /\ IF run.method = "AVERAGE_COST"
          THEN quantity > 0 /\ Remaining(lots, S) > 0 /\ Known(lots[i].left)
          ELSE Ahead(run, lots, S, i) < quantity

\* The cost of a piece: what is left of the lot's cost, in proportion.
PieceCost(lot, take) ==
    IF ~Known(lot.left) THEN Unknown
    ELSE IF lot.remaining = 0 THEN 0
    ELSE Share(lot.left, take, lot.remaining)

\* Mutant: the lot keeps its whole cost.
AfterTakeCostKept(lot, take) == [lot EXCEPT !.remaining = @ - take]

AfterTake(lot, take) ==
    [lot EXCEPT !.remaining = @ - take,
                !.left = IF Known(@) THEN Clamp(@ - PieceCost(lot, take), @) ELSE Unknown]

\* _consume: the lots afterwards and the pieces taken.
Consume(run, lots, account, asset, quantity, at) ==
    LET S    == Selected(lots, account, asset, at)
        take == [i \in S |-> Take(run, lots, S, quantity, i)]
    IN  [lots   |-> [i \in DOMAIN lots |-> IF i \in S THEN AfterTake(lots[i], take[i]) ELSE lots[i]],
         pieces |-> [i \in {j \in S : take[j] > 0} |->
                       [quantity |-> take[i], cost |-> PieceCost(lots[i], take[i])]],
         fails  |-> DividesByZero(run, lots, S, quantity),
         rounds |-> \E i \in S :
                       \/ /\ run.method = "AVERAGE_COST"
                          /\ Remaining(lots, S) > 0
                          /\ Rounds(lots[i].remaining, Clamp(quantity, Remaining(lots, S)), Remaining(lots, S))
                       \/ /\ Known(lots[i].left)
                          /\ lots[i].remaining > 0
                          /\ Rounds(lots[i].left, take[i], lots[i].remaining)]

-----------------------------------------------------------------------------
(* Pieces. *)

Quantity(pieces) == Total([i \in DOMAIN pieces |-> pieces[i].quantity])

\* _known_cost
KnownCost(pieces) ==
    IF DOMAIN pieces = {} \/ \E i \in DOMAIN pieces : ~Known(pieces[i].cost) THEN Unknown
    ELSE Total([i \in DOMAIN pieces |-> pieces[i].cost])

-----------------------------------------------------------------------------
NewLot(account, asset, quantity, cost, at) ==
    [account |-> account, asset |-> asset, acquired |-> at, quantity |-> quantity,
     remaining |-> quantity, stored |-> quantity, cost |-> cost, left |-> cost]

\* session.flush: every row is stored as it is in memory.
Flushed(lots) == [i \in DOMAIN lots |-> [lots[i] EXCEPT !.stored = lots[i].remaining]]

\* _create_lot adds a row and flushes.
AddLot(lots, lot) == Append(Flushed(lots), lot)
=============================================================================
