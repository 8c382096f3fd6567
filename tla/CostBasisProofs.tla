---------------------------- MODULE CostBasisProofs ----------------------------
(***************************************************************************)
(* Proofs about cost basis runs, for every ledger, set of runs and balance *)
(* snapshots.                                                              *)
(*                                                                         *)
(* The sums that a run keeps (what remains in its lots, what is left of    *)
(* their costs) follow from what one _consume takes of each lot: it finds  *)
(* as much as there is, or as is asked for, whatever the method.  From     *)
(* there the argument goes up: a debit, a credit, a transfer, a handler,   *)
(* an event, a run.  At each level a named relation between the book       *)
(* before and the book after says what changed (Takes, Gets, Carries,      *)
(* Handles, Posted), and the inductive invariant Reconciled says that      *)
(* every book adds up.                                                     *)
(*                                                                         *)
(* Two more invariants rest on it: Backed, for the positions a run ends    *)
(* with, and Level, which compares runs of different methods.              *)
(***************************************************************************)
EXTENDS CostBasis, FiniteLemmas

-----------------------------------------------------------------------------
(* Shares and sums. *)

\* What Total adds up is the sum over its domain.
LEMMA TotalIs ==
    ASSUME NEW f, IsFiniteSet(DOMAIN f)
    PROVE  Total(f) = SumOf(f, DOMAIN f)
BY MapSumIs DEF Total

\* Arithmetic that the provers need spelled out,
LEMMA Products ==
    /\ \A a, b \in Nat : a * b \in Nat
    /\ \A a, b, c \in Nat : a <= b => a * c <= b * c
    /\ \A a, b \in Int, c \in Nat : c > 0 /\ a * c <= b * c => a <= b
    /\ \A a, b \in Int, c \in Nat : c > 0 /\ a * c = b * c => a = b
    /\ \A a, b, c \in Int : (a + b) * c = a * c + b * c
    /\ \A a, b \in Int : a * b = b * a /\ a * b \in Int
OBVIOUS

\* and what division leaves.
LEMMA Division ==
    ASSUME NEW a \in Int, NEW b \in Int, b > 0
    PROVE  /\ a \div b \in Int
           /\ a % b \in 0..(b - 1)
           /\ a = b * (a \div b) + (a % b)
<1>1. a = b * (a \div b) + (a % b)
  OBVIOUS
<1>2. a \div b \in Int /\ a % b \in 0..(b - 1)
  OBVIOUS
<1> QED
  BY <1>1, <1>2

\* A share of a number is a number, never more than its part of the whole, and
\* exactly that if it comes out even.
LEMMA Shares ==
    ASSUME NEW x \in Nat, NEW part \in Nat, NEW whole \in Nat, whole > 0
    PROVE  /\ Share(x, part, whole) \in Nat
           /\ Share(x, part, whole) * whole <= x * part
           /\ part <= whole => Share(x, part, whole) <= x
           /\ part = whole => Share(x, part, whole) = x
           /\ ~Rounds(x, part, whole) => Share(x, part, whole) * whole = x * part
<1> DEFINE p == x * part
           s == p \div whole
<1>1. p \in Nat
  BY Products
<1>2. s \in Int /\ s * whole + (p % whole) = p /\ p % whole \in 0..(whole - 1)
  <2> HIDE DEF p
  <2>1. p = whole * (p \div whole) + (p % whole)
    BY <1>1, Division
  <2>2. p \div whole \in Int /\ p % whole \in 0..(whole - 1)
    BY <1>1, Division
  <2> QED
    BY <2>1, <2>2, Products
<1> DEFINE r == p % whole
<1>9. r \in 0..(whole - 1) /\ s * whole + r = p
  BY <1>2
<1> HIDE DEF s, p, r
<1>8. s * whole \in Int
  BY <1>2, Products
<1>3. s * whole <= p
  BY <1>1, <1>8, <1>9
<1>4. s \in Nat
  <2>1. CASE s < 0
    <3>1. (s + 1) * whole <= 0 * whole
      BY <1>2, <2>1
    <3>2. (s + 1) * whole = s * whole + 1 * whole
      BY <1>2, Products
    <3> QED
      BY <1>1, <1>8, <1>9, <3>1, <3>2
  <2> QED
    BY <1>2, <2>1
<1>5. part <= whole => s <= x
  <2>1. p = part * x /\ x * whole = whole * x
    BY DEF p
  <2>2. part <= whole => p <= x * whole
    BY <2>1, Products
  <2> QED
    BY <1>1, <1>2, <1>3, <2>2, Products
<1>6. part = whole => s = x
  <2>1. part = whole => x * part = x * whole
    OBVIOUS
  <2>2. ASSUME part = whole PROVE s >= x
    <3>1. p = x * whole
      BY <2>2 DEF p
    <3>2. s < x => (s + 1) * whole <= x * whole
      BY <1>4, Products
    <3>3. (s + 1) * whole = s * whole + 1 * whole
      BY <1>2, Products
    <3> QED
      BY <1>8, <1>9, <1>1, <1>4, <3>1, <3>2, <3>3
  <2> QED
    BY <1>4, <1>5, <2>2
<1>7. p % whole = 0 => s * whole = p
  BY <1>1, <1>8, <1>9 DEF r
<1> QED
  BY <1>3, <1>4, <1>5, <1>6, <1>7 DEF Share, Rounds, s, p

\* A share that comes out even is the part of the whole that it should be.
LEMMA EvenShare ==
    ASSUME NEW x \in Nat, NEW part \in Nat, NEW whole \in Nat, whole > 0, ~Rounds(x, part, whole)
    PROVE  Share(x, part, whole) * whole = x * part
BY Shares

\* An amount is clamped to what there is.
LEMMA Clamps ==
    ASSUME NEW x, NEW high \in Nat
    PROVE  /\ Clamp(x, high) \in 0..high
           /\ x \in Nat => Clamp(x, high) = IF x <= high THEN x ELSE high
           /\ x \in Int /\ x < 0 => Clamp(x, high) = 0
BY DEF Clamp

-----------------------------------------------------------------------------
(* Lots, and what a debit takes of each. *)

\* What a lot looks like; LotType says how its numbers are related.
LotSet == [account : Accounts, asset : Assets, acquired : Int, quantity : Nat,
           remaining : Nat, stored : Nat, cost : Int, left : Int]

\* The lots of a run.
GoodLots(lots) == lots \in Seq(LotSet) /\ \A i \in DOMAIN lots : LotType(lots[i])

\* What is left in each lot, and of its cost.
Rem(lots)  == [i \in DOMAIN lots |-> lots[i].remaining]
Left(lots) == [i \in DOMAIN lots |-> lots[i].left]

\* The lots of an account and asset acquired at some moments.
LotsOf(lots, k, D) == {i \in DOMAIN lots : /\ lots[i].account = k[1]
                                           /\ lots[i].asset = k[2]
                                           /\ lots[i].acquired \in D}

\* What is left in them.
Stock(lots, k, D) == SumOf(Rem(lots), LotsOf(lots, k, D))

\* The lots are finitely many, and their numbers are numbers.
LEMMA LotFacts ==
    ASSUME NEW lots, GoodLots(lots)
    PROVE  /\ IsFiniteSet(DOMAIN lots) /\ DOMAIN lots \subseteq Nat
           /\ \A S : S \subseteq DOMAIN lots => IsFiniteSet(S)
           /\ \A i \in DOMAIN lots : /\ lots[i] \in LotSet /\ LotType(lots[i])
                                     /\ Rem(lots)[i] = lots[i].remaining
                                     /\ lots[i].remaining \in Nat
                                     /\ lots[i].stored \in Nat
                                     /\ lots[i].acquired \in Int
                                     /\ Left(lots)[i] = lots[i].left
                                     /\ Known(lots[i].left) => lots[i].left \in Nat
                                     /\ lots[i].left \in Int
<1>1. Len(lots) \in Nat /\ DOMAIN lots = 1..Len(lots)
  BY DEF GoodLots
<1>2. IsFiniteSet(DOMAIN lots)
  BY <1>1, FS_Interval
<1>3. \A S : S \subseteq DOMAIN lots => IsFiniteSet(S)
  BY <1>2, FS_Subset
<1>4. ASSUME NEW i \in DOMAIN lots
      PROVE  /\ lots[i] \in LotSet /\ LotType(lots[i])
             /\ Rem(lots)[i] = lots[i].remaining
             /\ lots[i].remaining \in Nat
             /\ lots[i].stored \in Nat
             /\ lots[i].acquired \in Int
             /\ Left(lots)[i] = lots[i].left
             /\ Known(lots[i].left) => lots[i].left \in Nat
             /\ lots[i].left \in Int
  <2>1. lots[i] \in LotSet /\ LotType(lots[i])
    BY DEF GoodLots
  <2>2. Known(lots[i].left) => lots[i].left \in Nat
    BY <2>1 DEF LotType, Known, Unknown
  <2> QED
    BY <2>1, <2>2 DEF LotSet, Rem, Left
<1> QED
  BY <1>1, <1>2, <1>3, <1>4

\* What remains in some lots is a sum.
LEMMA RemainingIs ==
    ASSUME NEW lots, GoodLots(lots), NEW S, S \subseteq DOMAIN lots
    PROVE  /\ Remaining(lots, S) = SumOf(Rem(lots), S)
           /\ Remaining(lots, S) \in Nat
<1> DEFINE f == [i \in S |-> lots[i].remaining]
<1>1. IsFiniteSet(S) /\ \A i \in S : Rem(lots)[i] \in Nat /\ f[i] = Rem(lots)[i]
  BY LotFacts
<1>2. Total(f) = SumOf(f, S)
  BY <1>1, TotalIs
<1>3. SumOf(f, S) = SumOf(Rem(lots), S)
  <2> HIDE DEF f
  <2> QED
    BY <1>1, SumSame DEF Numbers
<1>4. SumOf(Rem(lots), S) \in Nat
  BY <1>1, SumNat
<1> QED
  BY <1>2, <1>3, <1>4 DEF Remaining

\* _consume selects from the run's lots only.
LEMMA SelectedFacts ==
    ASSUME NEW lots, GoodLots(lots), NEW account, NEW asset, NEW at
    PROVE  Selected(lots, account, asset, at) \subseteq DOMAIN lots
BY DEF Selected

\* No lot gives more than it has.
LEMMA TakeBound ==
    ASSUME NEW run, NEW lots, GoodLots(lots), NEW S, S \subseteq DOMAIN lots, NEW quantity,
           NEW i \in S
    PROVE  Take(run, lots, S, quantity, i) \in 0..lots[i].remaining
<1>1. lots[i].remaining \in Nat
  BY LotFacts
<1>2. 0 \in 0..lots[i].remaining
  BY <1>1
<1>3. \A x : Clamp(x, lots[i].remaining) \in 0..lots[i].remaining
  BY <1>1, Clamps
<1> QED
  BY <1>2, <1>3 DEF Take, TakeAverage, TakeOrdered

\* The lesser of two numbers.
Less(x, y) == IF x <= y THEN x ELSE y

\* FIFO and LIFO use the lots up one after another,
LEMMA OrderIsStrict ==
    ASSUME NEW run, NEW lots, GoodLots(lots)
    PROVE  /\ \A x \in DOMAIN lots : ~Precedes(run, lots, x, x)
           /\ \A x, y, z \in DOMAIN lots :
                 Precedes(run, lots, x, y) /\ Precedes(run, lots, y, z) => Precedes(run, lots, x, z)
           /\ \A x, y \in DOMAIN lots :
                 x = y \/ Precedes(run, lots, x, y) \/ Precedes(run, lots, y, x)
<1>1. \A x \in DOMAIN lots : x \in Int /\ lots[x].acquired \in Int
  BY LotFacts
<1> QED
  BY <1>1 DEF Precedes, Older

\* so that they take what there is, or what is asked for if that is less.
LEMMA OrderedTotal ==
    ASSUME NEW run, NEW lots, GoodLots(lots), NEW S, S \subseteq DOMAIN lots,
           NEW quantity \in Nat, NEW take, \A i \in S : take[i] = TakeOrdered(run, lots, S, quantity, i)
    PROVE  SumOf(take, S) = Less(quantity, SumOf(Rem(lots), S))
<1> DEFINE Down(T) == \A i \in T, j \in S : Precedes(run, lots, j, i) => j \in T
           Exact(T) == SumOf(take, T) = Less(quantity, SumOf(Rem(lots), T))
           Q == {T \in SUBSET S : Down(T) /\ ~Exact(T)}
<1>1. IsFiniteSet(S) /\ \A T \in SUBSET S : IsFiniteSet(T)
  BY LotFacts
<1>2. \A i \in S : /\ Rem(lots)[i] = lots[i].remaining /\ Rem(lots)[i] \in Nat
                   /\ take[i] = Clamp(quantity - Ahead(run, lots, S, i), Rem(lots)[i])
                   /\ take[i] \in Nat
  <2> SUFFICES ASSUME NEW i \in S
               PROVE  /\ Rem(lots)[i] = lots[i].remaining /\ Rem(lots)[i] \in Nat
                      /\ take[i] = Clamp(quantity - Ahead(run, lots, S, i), Rem(lots)[i])
                      /\ take[i] \in Nat
    OBVIOUS
  <2>1. Rem(lots)[i] = lots[i].remaining /\ Rem(lots)[i] \in Nat
    BY LotFacts
  <2>2. take[i] = Clamp(quantity - Ahead(run, lots, S, i), Rem(lots)[i])
    BY <2>1 DEF TakeOrdered
  <2>3. take[i] \in Nat
    BY <2>1, <2>2, Clamps
  <2> QED
    BY <2>1, <2>2, <2>3
<1>3. SUFFICES ASSUME Q # {}
               PROVE  FALSE
  <2>1. Down(S)
    OBVIOUS
  <2> QED
    BY <2>1
<1>4. PICK T \in Q : \A V \in Q : V \subseteq T => V = T
  <2>1. Q \subseteq SUBSET S
    OBVIOUS
  <2> HIDE DEF Q
  <2> QED
    BY <1>1, <1>3, <2>1, SmallestPart
<1>5. T \subseteq S /\ Down(T) /\ ~Exact(T)
  OBVIOUS
<1>6. T # {}
  <2> SUFFICES ASSUME T = {}
               PROVE  FALSE
    OBVIOUS
  <2>1. SumOf(take, {}) = 0 /\ SumOf(Rem(lots), {}) = 0
    BY SumEmpty
  <2>2. Less(quantity, 0) = 0
    BY DEF Less
  <2>3. Exact({})
    BY <2>1, <2>2
  <2> QED
    BY <1>5, <2>3, Zenon
<1>7. PICK m \in T : \A x \in T : x # m => Precedes(run, lots, x, m)
  <2> DEFINE R == {p \in S \X S : Precedes(run, lots, p[1], p[2])}
  <2>1. \A x, y \in S : <<x, y>> \in R <=> Precedes(run, lots, x, y)
    OBVIOUS
  <2> HIDE DEF R
  <2>2. /\ \A x \in T : <<x, x>> \notin R
        /\ \A x, y, z \in T : <<x, y>> \in R /\ <<y, z>> \in R => <<x, z>> \in R
        /\ \A x, y \in T : x = y \/ <<x, y>> \in R \/ <<y, x>> \in R
    BY <1>5, <2>1, OrderIsStrict
  <2>3. IsFiniteSet(T)
    BY <1>1, <1>5
  <2>4. \E m \in T : \A x \in T : x # m => <<x, m>> \in R
    <3> HIDE DEF Q, Down, Exact
    <3> QED
      BY <1>6, <2>2, <2>3, LastOf
  <2> QED
    BY <1>5, <2>1, <2>4
<1> DEFINE V == T \ {m}
<1>8. V = {j \in S : Precedes(run, lots, j, m)}
  BY <1>5, <1>7, OrderIsStrict
<1>9. Down(V)
  BY <1>5, <1>7, <1>8, OrderIsStrict
<1>10. Exact(V)
  BY <1>4, <1>5, <1>9
<1>11. Ahead(run, lots, S, m) = SumOf(Rem(lots), V)
  <2>1. V \subseteq DOMAIN lots
    BY <1>5
  <2>2. Remaining(lots, V) = SumOf(Rem(lots), V)
    <3> HIDE DEF V
    <3> QED
      BY <2>1, RemainingIs
  <2> HIDE DEF V
  <2> QED
    BY <1>8, <2>2 DEF Ahead
<1>12. /\ Numbers(take, S) /\ Numbers(Rem(lots), S)
       /\ V \in SUBSET S /\ m \in S /\ m \notin V /\ V \cup {m} = T
  BY <1>1, <1>2, <1>5 DEF Numbers
<1> DEFINE a == SumOf(Rem(lots), V)
           r == Rem(lots)[m]
<1>13. a \in Nat /\ r \in Nat
  BY <1>1, <1>2, <1>5, SumNat
<1> HIDE DEF V, Q, Down
<1>14. SumOf(take, V \cup {m}) = SumOf(take, V) + take[m]
  BY <1>12, SumMore
<1>15. SumOf(Rem(lots), V \cup {m}) = SumOf(Rem(lots), V) + Rem(lots)[m]
  BY <1>12, SumMore
<1>16. SumOf(take, T) = Less(quantity, a) + Clamp(quantity - a, r)
  <2>1. SumOf(take, T) = SumOf(take, V) + take[m]
    BY <1>12, <1>14, Zenon
  <2>2. take[m] = Clamp(quantity - a, r)
    BY <1>2, <1>11, <1>12
  <2> QED
    BY <1>10, <2>1, <2>2
<1>17. SumOf(Rem(lots), T) = a + r
  BY <1>12, <1>15, Zenon
<1>18. Less(quantity, a) + Clamp(quantity - a, r) = Less(quantity, a + r)
  <2> HIDE DEF a, r
  <2>1. CASE quantity < a
    BY <1>13, <2>1, Clamps DEF Less
  <2>2. CASE quantity >= a
    BY <1>13, <2>2, Clamps DEF Less
  <2> QED
    BY <1>13, <2>1, <2>2
<1>19. Exact(T)
  <2> HIDE DEF a, r
  <2> QED
    BY <1>16, <1>17, <1>18
<1> QED
  BY <1>5, <1>19

\* Average cost takes no more than that, and just as much if the shares come out
\* even.
LEMMA AverageTotal ==
    ASSUME NEW lots, GoodLots(lots), NEW S, S \subseteq DOMAIN lots,
           NEW quantity \in Nat, NEW take, \A i \in S : take[i] = TakeAverage(lots, S, quantity, i)
    PROVE  LET total == SumOf(Rem(lots), S)
           IN  /\ SumOf(take, S) \in Nat
               /\ SumOf(take, S) <= Less(quantity, total)
               /\ (total > 0 => \A i \in S : ~Rounds(lots[i].remaining, Clamp(quantity, total), total))
                     => SumOf(take, S) = Less(quantity, total)
<1> DEFINE total == SumOf(Rem(lots), S)
           m == Clamp(quantity, total)
<1>1. IsFiniteSet(S) /\ \A i \in S : Rem(lots)[i] = lots[i].remaining /\ Rem(lots)[i] \in Nat
  BY LotFacts
<1>2. total \in Nat /\ Remaining(lots, S) = total
  BY RemainingIs
<1> HIDE DEF total
<1>3. m \in Nat /\ m <= total /\ m = Less(quantity, total)
  BY <1>2, Clamps DEF Less
<1> HIDE DEF m
<1>4. ASSUME total > 0, NEW i \in S
      PROVE  /\ take[i] \in Nat
             /\ take[i] * total <= Rem(lots)[i] * m
             /\ ~Rounds(lots[i].remaining, m, total) => take[i] * total = Rem(lots)[i] * m
  <2> DEFINE x == Rem(lots)[i]
             s == Share(x, m, total)
  <2>1. x \in Nat /\ x = lots[i].remaining
    BY <1>1
  <2> HIDE DEF x
  <2>2. s \in Nat /\ s <= x /\ s * total <= x * m /\ (~Rounds(x, m, total) => s * total = x * m)
    <3>1. /\ s \in Nat
          /\ s * total <= x * m
          /\ m <= total => s <= x
      BY <1>2, <1>3, <1>4, <2>1, Shares
    <3>2. ASSUME ~Rounds(x, m, total)
          PROVE  s * total = x * m
      BY <1>2, <1>3, <1>4, <2>1, <3>2, EvenShare
    <3> QED
      BY <1>3, <3>1, <3>2
  <2>3. take[i] = Clamp(s, x)
    BY <1>2, <1>4, <2>1 DEF TakeAverage, m
  <2> HIDE DEF s
  <2>4. take[i] = s
    BY <2>1, <2>2, <2>3, Clamps
  <2> QED
    BY <2>1, <2>2, <2>4 DEF x
<1>5. CASE total = 0
  <2>1. \A i \in S : take[i] = 0
    BY <1>2, <1>5 DEF TakeAverage
  <2>2. Numbers(take, S)
    BY <1>1, <2>1 DEF Numbers
  <2>3. \A i \in S : take[i] * 1 = Rem(lots)[i] * 0
    BY <1>1, <2>1
  <2>4. Numbers(Rem(lots), S)
    BY <1>1 DEF Numbers
  <2>5. SumOf(take, S) * 1 = SumOf(Rem(lots), S) * 0
    BY <2>2, <2>3, <2>4, SumScaled
  <2>6. SumOf(take, S) \in Int /\ SumOf(Rem(lots), S) \in Int
    BY <2>2, <2>4, SumAny
  <2>7. SumOf(take, S) = 0
    BY <2>5, <2>6
  <2> QED
    BY <1>2, <1>5, <2>7 DEF Less, total
<1>6. CASE total > 0
  <2>1. Numbers(take, S) /\ Numbers(Rem(lots), S) /\ \A i \in S : take[i] \in Nat
    BY <1>1, <1>4, <1>6 DEF Numbers
  <2>2. SumOf(take, S) \in Nat
    BY <1>1, <2>1, SumNat
  <2>3. SumOf(take, S) * total <= total * m
    <3>1. \A i \in S : take[i] * total <= Rem(lots)[i] * m
      BY <1>4, <1>6
    <3>2. (\A i \in S : take[i] * total <= Rem(lots)[i] * m) =>
             SumOf(take, S) * total <= SumOf(Rem(lots), S) * m
      BY <1>2, <1>3, <2>1, SumScaled
    <3> QED
      BY <3>1, <3>2 DEF total
  <2>4. (\A i \in S : ~Rounds(lots[i].remaining, m, total)) => SumOf(take, S) * total = total * m
    <3>1. (\A i \in S : ~Rounds(lots[i].remaining, m, total)) =>
             \A i \in S : take[i] * total = Rem(lots)[i] * m
      BY <1>4, <1>6
    <3>2. (\A i \in S : take[i] * total = Rem(lots)[i] * m) =>
             SumOf(take, S) * total = SumOf(Rem(lots), S) * m
      BY <1>2, <1>3, <2>1, SumScaled
    <3> QED
      BY <3>1, <3>2 DEF total
  <2>5. total * m = m * total
    BY <1>2, <1>3, Products
  <2>6. SumOf(take, S) <= m
    BY <1>2, <1>3, <1>6, <2>2, <2>3, <2>5, Products
  <2>7. (\A i \in S : ~Rounds(lots[i].remaining, m, total)) => SumOf(take, S) = m
    <3>1. SumOf(take, S) * total = m * total => SumOf(take, S) = m
      BY <1>2, <1>3, <1>6, <2>2, Products
    <3> QED
      BY <2>4, <2>5, <3>1
  <2> QED
    BY <1>2, <1>3, <1>6, <2>2, <2>6, <2>7 DEF total, m
<1> QED
  BY <1>2, <1>5, <1>6 DEF total

-----------------------------------------------------------------------------
(* _consume. *)

\* The moments up to one: the lots acquired then are those a debit may use.
Past(at) == {t \in Int : t <= at}

\* The pieces taken: parts of lots at parts of their costs.
Pieces(pieces) ==
    /\ IsFiniteSet(DOMAIN pieces)
    /\ \A i \in DOMAIN pieces : /\ pieces[i].quantity \in Nat /\ pieces[i].quantity > 0
                                /\ Known(pieces[i].cost) => pieces[i].cost \in Nat

\* A piece costs no more than what is left of its lot's cost.
LEMMA PieceCostBound ==
    ASSUME NEW lots, GoodLots(lots), NEW i \in DOMAIN lots, NEW take \in 0..lots[i].remaining
    PROVE  /\ Known(lots[i].left) => PieceCost(lots[i], take) \in 0..lots[i].left
           /\ ~Known(lots[i].left) => PieceCost(lots[i], take) = Unknown
<1>1. /\ lots[i].remaining \in Nat /\ take \in Nat /\ take <= lots[i].remaining
      /\ Known(lots[i].left) => lots[i].left \in Nat
  BY LotFacts
<1>2. Known(lots[i].left) /\ lots[i].remaining > 0 =>
         /\ Share(lots[i].left, take, lots[i].remaining) \in Nat
         /\ Share(lots[i].left, take, lots[i].remaining) <= lots[i].left
  BY <1>1, Shares
<1> QED
  BY <1>1, <1>2 DEF PieceCost

\* What is taken of a lot leaves a lot.
LEMMA AfterTakeKeeps ==
    ASSUME NEW lots, GoodLots(lots), NEW i \in DOMAIN lots, NEW take \in 0..lots[i].remaining
    PROVE  LET lot == AfterTake(lots[i], take)
           IN  /\ lot \in LotSet /\ LotType(lot)
               /\ lot.account = lots[i].account /\ lot.asset = lots[i].asset
               /\ lot.acquired = lots[i].acquired /\ lot.stored = lots[i].stored
               /\ lot.remaining = lots[i].remaining - take
               /\ Known(lots[i].left) <=> Known(lot.left)
               /\ Known(lot.left) => lot.left = lots[i].left - PieceCost(lots[i], take)
<1> DEFINE c == PieceCost(lots[i], take)
           lot == AfterTake(lots[i], take)
           lft == IF Known(lots[i].left) THEN Clamp(lots[i].left - c, lots[i].left) ELSE Unknown
<1>1. lots[i] \in LotSet /\ LotType(lots[i]) /\ (Known(lots[i].left) => lots[i].left \in Nat)
  BY LotFacts
<1>2. lot = [lots[i] EXCEPT !.remaining = lots[i].remaining - take, !.left = lft]
  BY <1>1 DEF AfterTake, LotSet
<1>3. Known(lots[i].left) => lft = lots[i].left - c /\ lft \in 0..lots[i].left
  <2>1. Known(lots[i].left) => c \in 0..lots[i].left
    BY PieceCostBound
  <2> HIDE DEF c
  <2>2. Known(lots[i].left) => lots[i].left - c \in Nat /\ lots[i].left - c <= lots[i].left
    BY <1>1, <2>1
  <2> QED
    BY <1>1, <2>2, Clamps
<1>4. ~Known(lots[i].left) => lft = Unknown
  OBVIOUS
<1> HIDE DEF c, lft
<1>5. /\ lot.account = lots[i].account /\ lot.asset = lots[i].asset
      /\ lot.acquired = lots[i].acquired /\ lot.stored = lots[i].stored
      /\ lot.quantity = lots[i].quantity /\ lot.cost = lots[i].cost
      /\ lot.remaining = lots[i].remaining - take /\ lot.left = lft
  BY <1>1, <1>2 DEF LotSet
<1>6. lft \in Int
  BY <1>1, <1>3, <1>4 DEF Unknown
<1>7. lots[i].remaining - take \in Nat /\ lots[i].remaining - take \in 0..lots[i].stored
  BY <1>1 DEF LotType, LotSet
<1>8. lot \in LotSet
  BY <1>1, <1>2, <1>6, <1>7 DEF LotSet
<1> HIDE DEF lot
<1>9. LotType(lot)
  <2>1. Known(lots[i].cost) <=> Known(lots[i].left)
    BY <1>1 DEF LotType, Known, Unknown
  <2> QED
    BY <1>1, <1>3, <1>4, <1>5, <1>7, <2>1 DEF LotType
<1>10. Known(lots[i].left) <=> Known(lft)
  BY <1>3, <1>4 DEF Known, Unknown
<1> QED
  BY <1>3, <1>5, <1>8, <1>9, <1>10 DEF lot, c

\* What _consume takes of the lots it selects.
Taken(run, lots, account, asset, quantity, at) ==
    [i \in Selected(lots, account, asset, at) |->
        Take(run, lots, Selected(lots, account, asset, at), quantity, i)]

\* The lots afterwards are the same lots, with less in them.
LEMMA ConsumeLots ==
    ASSUME NEW run, NEW lots, GoodLots(lots), NEW account, NEW asset, NEW quantity, NEW at
    PROVE  LET c == Consume(run, lots, account, asset, quantity, at)
               S == Selected(lots, account, asset, at)
               take == Taken(run, lots, account, asset, quantity, at)
           IN  /\ GoodLots(c.lots) /\ DOMAIN c.lots = DOMAIN lots
               /\ \A i \in S : i \in DOMAIN lots /\ take[i] \in 0..lots[i].remaining
               /\ \A i \in DOMAIN lots :
                     /\ i \in S => c.lots[i] = AfterTake(lots[i], take[i])
                     /\ i \notin S => c.lots[i] = lots[i]
<1> DEFINE S == Selected(lots, account, asset, at)
           take == Taken(run, lots, account, asset, quantity, at)
           c == Consume(run, lots, account, asset, quantity, at)
           after == [i \in DOMAIN lots |-> IF i \in S THEN AfterTake(lots[i], take[i]) ELSE lots[i]]
<1>1. S \subseteq DOMAIN lots
  BY SelectedFacts
<1>2. c.lots = after
  BY DEF Consume, Taken
<1>3. \A i \in S : take[i] \in 0..lots[i].remaining
  BY <1>1, TakeBound DEF Taken
<1> HIDE DEF S, take, c
<1>4. \A i \in DOMAIN lots : after[i] \in LotSet /\ LotType(after[i])
  BY <1>1, <1>3, AfterTakeKeeps, LotFacts
<1>5. Len(lots) \in Nat /\ DOMAIN lots = 1..Len(lots)
  BY DEF GoodLots
<1>6. after \in Seq(LotSet)
  <2>1. after \in [1..Len(lots) -> LotSet]
    BY <1>4, <1>5
  <2> HIDE DEF after
  <2> QED
    BY <1>5, <2>1
<1>7. GoodLots(after)
  BY <1>4, <1>6 DEF GoodLots
<1> QED
  BY <1>1, <1>2, <1>3, <1>7 DEF S, take, c

\* The pieces are what was taken of each lot,
LEMMA ConsumePieces ==
    ASSUME NEW run, NEW lots, GoodLots(lots), NEW account, NEW asset, NEW quantity, NEW at
    PROVE  LET c == Consume(run, lots, account, asset, quantity, at)
               S == Selected(lots, account, asset, at)
               take == Taken(run, lots, account, asset, quantity, at)
           IN  /\ Pieces(c.pieces)
               /\ DOMAIN c.pieces = {i \in S : take[i] > 0}
               /\ \A i \in DOMAIN c.pieces : /\ c.pieces[i].quantity = take[i]
                                             /\ c.pieces[i].cost = PieceCost(lots[i], take[i])
<1> DEFINE S == Selected(lots, account, asset, at)
           take == Taken(run, lots, account, asset, quantity, at)
           c == Consume(run, lots, account, asset, quantity, at)
<1>1. \A i \in S : i \in DOMAIN lots /\ take[i] \in 0..lots[i].remaining /\ lots[i].remaining \in Nat
  BY ConsumeLots, LotFacts
<1>2. c.pieces = [i \in {j \in S : take[j] > 0} |->
                     [quantity |-> take[i], cost |-> PieceCost(lots[i], take[i])]]
  BY DEF Consume, Taken
<1> HIDE DEF S, take, c
<1>3. /\ DOMAIN c.pieces = {i \in S : take[i] > 0}
      /\ \A i \in DOMAIN c.pieces : /\ c.pieces[i].quantity = take[i]
                                    /\ c.pieces[i].cost = PieceCost(lots[i], take[i])
  BY <1>2
<1>4. IsFiniteSet(DOMAIN c.pieces)
  <2>1. DOMAIN c.pieces \subseteq DOMAIN lots
    BY <1>1, <1>3
  <2> QED
    BY <2>1, LotFacts
<1>5. ASSUME NEW i \in DOMAIN c.pieces
      PROVE  /\ c.pieces[i].quantity \in Nat /\ c.pieces[i].quantity > 0
             /\ Known(c.pieces[i].cost) => c.pieces[i].cost \in Nat
  <2>1. i \in DOMAIN lots /\ take[i] \in 0..lots[i].remaining /\ take[i] > 0
        /\ (Known(lots[i].left) => lots[i].left \in Nat)
    BY <1>1, <1>3, LotFacts
  <2>2. /\ Known(lots[i].left) => PieceCost(lots[i], take[i]) \in 0..lots[i].left
        /\ ~Known(lots[i].left) => PieceCost(lots[i], take[i]) = Unknown
    BY <2>1, PieceCostBound
  <2>3. Known(PieceCost(lots[i], take[i])) => PieceCost(lots[i], take[i]) \in Nat
    BY <2>1, <2>2 DEF Known
  <2> QED
    BY <1>1, <1>3, <2>1, <2>3
<1> QED
  BY <1>3, <1>4, <1>5 DEF Pieces, S, take, c

\* The quantity of some pieces is a sum.
LEMMA QuantityIs ==
    ASSUME NEW pieces, Pieces(pieces)
    PROVE  LET q == [i \in DOMAIN pieces |-> pieces[i].quantity]
           IN  Quantity(pieces) = SumOf(q, DOMAIN pieces) /\ Quantity(pieces) \in Nat
<1> DEFINE q == [i \in DOMAIN pieces |-> pieces[i].quantity]
<1>1. IsFiniteSet(DOMAIN pieces) /\ \A i \in DOMAIN pieces : q[i] \in Nat
  BY DEF Pieces
<1>2. DOMAIN q = DOMAIN pieces /\ Quantity(pieces) = Total(q)
  BY DEF Quantity
<1> HIDE DEF q
<1> QED
  BY <1>1, <1>2, TotalIs, SumNat DEF q

\* and are as much as was taken.
LEMMA FoundIs ==
    ASSUME NEW run, NEW lots, GoodLots(lots), NEW account, NEW asset, NEW quantity, NEW at
    PROVE  LET take == Taken(run, lots, account, asset, quantity, at)
           IN  Quantity(Consume(run, lots, account, asset, quantity, at).pieces)
                  = SumOf(take, Selected(lots, account, asset, at))
<1> DEFINE S == Selected(lots, account, asset, at)
           take == Taken(run, lots, account, asset, quantity, at)
           pieces == Consume(run, lots, account, asset, quantity, at).pieces
           T == DOMAIN pieces
           q == [i \in T |-> pieces[i].quantity]
<1>1. \A i \in S : i \in DOMAIN lots /\ take[i] \in 0..lots[i].remaining /\ lots[i].remaining \in Nat
  BY ConsumeLots, LotFacts
<1>2. T = {i \in S : take[i] > 0} /\ Pieces(pieces) /\ \A i \in T : q[i] = take[i]
  BY ConsumePieces
<1>3. Quantity(pieces) = SumOf(q, T)
  BY <1>2, QuantityIs
<1> HIDE DEF S, take, pieces, T, q
<1>4. Numbers(take, S) /\ Numbers(take, T) /\ Numbers(take, S \ T) /\ T \subseteq S
  <2>1. IsFiniteSet(S) /\ T \subseteq S
    BY <1>1, <1>2, LotFacts
  <2>2. \A i \in S : take[i] \in Int
    BY <1>1
  <2> QED
    BY <2>1, <2>2, FS_Subset DEF Numbers
<1>5. SumOf(q, T) = SumOf(take, T)
  BY <1>2, <1>4, SumSame
<1>6. SumOf(take, S) = SumOf(take, T) + SumOf(take, S \ T)
  BY <1>4, SumParts
<1>7. SumOf(take, S \ T) = 0
  <2>1. \A i \in S \ T : take[i] * 1 = take[i] * 0
    BY <1>1, <1>2
  <2>2. (\A i \in S \ T : take[i] * 1 = take[i] * 0) =>
           SumOf(take, S \ T) * 1 = SumOf(take, S \ T) * 0
    BY <1>4, SumScaled
  <2>3. SumOf(take, S \ T) \in Int
    BY <1>4, SumAny
  <2> QED
    BY <2>1, <2>2, <2>3
<1>8. SumOf(take, T) \in Int
  BY <1>4, SumAny
<1> QED
  BY <1>3, <1>5, <1>6, <1>7, <1>8 DEF S, take, pieces

\* The lots _consume selects hold all there is at that moment: those it leaves out
\* are empty.
LEMMA SelectedStock ==
    ASSUME NEW lots, GoodLots(lots), NEW account, NEW asset, NEW at \in Int
    PROVE  SumOf(Rem(lots), Selected(lots, account, asset, at)) = Stock(lots, <<account, asset>>, Past(at))
<1> DEFINE S == Selected(lots, account, asset, at)
           L == LotsOf(lots, <<account, asset>>, Past(at))
<1>1. S \subseteq L /\ L \subseteq DOMAIN lots
  BY LotFacts DEF Selected, LotsOf, Past
<1>2. \A i \in L \ S : lots[i].stored \in Nat /\ ~(lots[i].stored > 0)
  BY LotFacts DEF Selected, LotsOf, Past
<1> HIDE DEF S, L
<1>3. \A i \in L \ S : Rem(lots)[i] * 1 = Rem(lots)[i] * 0
  <2> SUFFICES ASSUME NEW i \in L \ S
               PROVE  Rem(lots)[i] = 0
    OBVIOUS
  <2>1. LotType(lots[i]) /\ Rem(lots)[i] = lots[i].remaining /\ lots[i].stored = 0
    BY <1>1, <1>2, LotFacts
  <2> QED
    BY <2>1 DEF LotType
<1>4. Numbers(Rem(lots), L) /\ Numbers(Rem(lots), L \ S) /\ Numbers(Rem(lots), S)
  BY <1>1, LotFacts DEF Numbers
<1>5. SumOf(Rem(lots), L) = SumOf(Rem(lots), S) + SumOf(Rem(lots), L \ S)
  BY <1>1, <1>4, SumParts
<1>6. SumOf(Rem(lots), L \ S) * 1 = SumOf(Rem(lots), L \ S) * 0
  <2>1. (\A i \in L \ S : Rem(lots)[i] * 1 = Rem(lots)[i] * 0) =>
           SumOf(Rem(lots), L \ S) * 1 = SumOf(Rem(lots), L \ S) * 0
    BY <1>4, SumScaled
  <2> QED
    BY <1>3, <2>1
<1>7. SumOf(Rem(lots), L \ S) \in Int /\ SumOf(Rem(lots), S) \in Int
  BY <1>4, SumAny
<1>8. SumOf(Rem(lots), L) = SumOf(Rem(lots), S)
  BY <1>5, <1>6, <1>7
<1> QED
  BY <1>8 DEF Stock, S, L

\* What _consume finds: no more than is asked for, and as much as there is of it if
\* the shares come out even.
LEMMA FoundBound ==
    ASSUME NEW run, NEW lots, GoodLots(lots), NEW account, NEW asset,
           NEW quantity \in Nat, NEW at \in Int
    PROVE  LET c == Consume(run, lots, account, asset, quantity, at)
               there == Stock(lots, <<account, asset>>, Past(at))
           IN  /\ Quantity(c.pieces) \in Nat
               /\ Quantity(c.pieces) <= quantity
               /\ ~c.rounds => Quantity(c.pieces) = Less(quantity, there)
<1> DEFINE S == Selected(lots, account, asset, at)
           take == Taken(run, lots, account, asset, quantity, at)
           c == Consume(run, lots, account, asset, quantity, at)
           there == Stock(lots, <<account, asset>>, Past(at))
<1>1. Quantity(c.pieces) = SumOf(take, S)
  BY FoundIs
<1>2. SumOf(Rem(lots), S) = there
  BY SelectedStock
<1>3. S \subseteq DOMAIN lots
  BY SelectedFacts
<1>4. Remaining(lots, S) = there /\ there \in Nat
  <2> HIDE DEF S
  <2> QED
    BY <1>2, <1>3, RemainingIs
<1>5. CASE run.method = "AVERAGE_COST"
  <2>1. \A i \in S : take[i] = TakeAverage(lots, S, quantity, i)
    BY <1>5 DEF Taken, Take
  <2>2. ~c.rounds /\ there > 0 => \A i \in S : ~Rounds(lots[i].remaining, Clamp(quantity, there), there)
    BY <1>4, <1>5 DEF Consume
  <2> HIDE DEF S, take, c, there
  <2>3. /\ SumOf(take, S) \in Nat /\ SumOf(take, S) <= Less(quantity, there)
        /\ (there > 0 => \A i \in S : ~Rounds(lots[i].remaining, Clamp(quantity, there), there))
                     => SumOf(take, S) = Less(quantity, there)
    BY <1>2, <1>3, <2>1, AverageTotal
  <2>4. Less(quantity, there) <= quantity
    BY <1>4 DEF Less
  <2>5. Less(quantity, there) \in Nat
    BY <1>4 DEF Less
  <2> QED
    BY <1>1, <2>2, <2>3, <2>4, <2>5 DEF c, there
<1>6. CASE run.method # "AVERAGE_COST"
  <2>1. \A i \in S : take[i] = TakeOrdered(run, lots, S, quantity, i)
    BY <1>6 DEF Taken, Take
  <2> HIDE DEF S, take, c, there
  <2>2. SumOf(take, S) = Less(quantity, there)
    BY <1>2, <1>3, <2>1, OrderedTotal
  <2> QED
    BY <1>1, <1>4, <2>2 DEF Less, c, there
<1> QED
  BY <1>5, <1>6

\* What is found is missing in the stock afterwards, and no other stock changes.
LEMMA ConsumeStock ==
    ASSUME NEW run, NEW lots, GoodLots(lots), NEW account, NEW asset, NEW quantity, NEW at \in Int,
           NEW k \in Keys, NEW D, Past(at) \subseteq D
    PROVE  LET c == Consume(run, lots, account, asset, quantity, at)
           IN  Stock(c.lots, k, D) = Stock(lots, k, D)
                  - (IF k = <<account, asset>> THEN Quantity(c.pieces) ELSE 0)
<1> DEFINE S == Selected(lots, account, asset, at)
           take == Taken(run, lots, account, asset, quantity, at)
           c == Consume(run, lots, account, asset, quantity, at)
           L == LotsOf(lots, k, D)
           new == c.lots
           A == Rem(lots)
           B == Rem(new)
<1>1. Quantity(c.pieces) = SumOf(take, S)
  BY FoundIs
<1>2. /\ GoodLots(new) /\ DOMAIN new = DOMAIN lots
      /\ \A i \in S : i \in DOMAIN lots /\ take[i] \in 0..lots[i].remaining
      /\ \A i \in DOMAIN lots : /\ i \in S => new[i] = AfterTake(lots[i], take[i])
                                /\ i \notin S => new[i] = lots[i]
  BY ConsumeLots
<1>3. S = {i \in DOMAIN lots : /\ lots[i].account = account
                               /\ lots[i].asset = asset
                               /\ lots[i].stored > 0
                               /\ lots[i].acquired <= at}
  BY DEF Selected
<1> HIDE DEF S, take, c
<1>4. \A i \in DOMAIN lots :
        /\ new[i].account = lots[i].account /\ new[i].asset = lots[i].asset
        /\ new[i].acquired = lots[i].acquired
        /\ A[i] \in Int /\ B[i] \in Int
        /\ i \in S => take[i] \in Int /\ A[i] = B[i] + take[i]
        /\ i \notin S => B[i] = A[i]
  <2> SUFFICES ASSUME NEW i \in DOMAIN lots
               PROVE  /\ new[i].account = lots[i].account /\ new[i].asset = lots[i].asset
                      /\ new[i].acquired = lots[i].acquired
                      /\ A[i] \in Int /\ B[i] \in Int
                      /\ i \in S => take[i] \in Int /\ A[i] = B[i] + take[i]
                      /\ i \notin S => B[i] = A[i]
    OBVIOUS
  <2>1. /\ A[i] = lots[i].remaining /\ A[i] \in Nat
        /\ B[i] = new[i].remaining /\ B[i] \in Nat
    BY <1>2, LotFacts
  <2>2. CASE i \in S
    <3>1. /\ new[i].account = lots[i].account /\ new[i].asset = lots[i].asset
          /\ new[i].acquired = lots[i].acquired
          /\ new[i].remaining = lots[i].remaining - take[i]
          /\ take[i] \in 0..lots[i].remaining
      BY <1>2, <2>2, AfterTakeKeeps
    <3> HIDE DEF A, B, new
    <3> QED
      BY <2>1, <2>2, <3>1
  <2>3. CASE i \notin S
    BY <1>2, <2>1, <2>3
  <2> QED
    BY <2>2, <2>3
<1>5. LotsOf(new, k, D) = L
  BY <1>2, <1>4 DEF LotsOf
<1> HIDE DEF new
<1>6. L \subseteq DOMAIN lots /\ S \subseteq DOMAIN lots
  BY <1>3 DEF LotsOf
<1> HIDE DEF A, B
<1>7. Numbers(A, L) /\ Numbers(B, L)
  <2>1. IsFiniteSet(L)
    BY <1>6, LotFacts
  <2> HIDE DEF L
  <2> QED
    BY <1>4, <1>6, <2>1 DEF Numbers
<1>8. Stock(lots, k, D) = SumOf(A, L) /\ Stock(new, k, D) = SumOf(B, L)
  <2> HIDE DEF L
  <2>1. Stock(new, k, D) = SumOf(B, LotsOf(new, k, D))
    BY DEF Stock, B
  <2>2. Stock(new, k, D) = SumOf(B, L)
    BY <1>5, <2>1, Zenon
  <2> QED
    BY <2>2 DEF Stock, A, L
<1>9. CASE k = <<account, asset>>
  <2>1. S \subseteq L
    BY <1>3, <1>9, LotFacts DEF LotsOf, Past
  <2> HIDE DEF L
  <2>2. Numbers(A, S) /\ Numbers(B, S) /\ Numbers(take, S)
    <3>1. IsFiniteSet(S)
      BY <1>6, LotFacts
    <3> QED
      BY <1>4, <1>6, <3>1 DEF Numbers
  <2>3. SumOf(A, S) = SumOf(B, S) + SumOf(take, S)
    <3>1. \A i \in S : A[i] = B[i] + take[i]
      BY <1>4, <1>6
    <3>2. (\A i \in S : A[i] = B[i] + take[i]) => SumOf(A, S) = SumOf(B, S) + SumOf(take, S)
      BY <2>2, SumPlus
    <3> QED
      BY <3>1, <3>2
  <2>4. /\ SumOf(A, L) = SumOf(A, S) + SumOf(A, L \ S)
        /\ SumOf(B, L) = SumOf(B, S) + SumOf(B, L \ S)
    BY <1>7, <2>1, SumParts
  <2>5. SumOf(B, L \ S) = SumOf(A, L \ S)
    <3>1. Numbers(A, L \ S)
      BY <1>7, FS_Subset DEF Numbers
    <3>2. \A i \in L \ S : B[i] = A[i]
      BY <1>4, <1>6
    <3> QED
      BY <3>1, <3>2, SumSame
  <2>6. /\ SumOf(A, S) \in Int /\ SumOf(B, S) \in Int /\ SumOf(take, S) \in Int
        /\ SumOf(A, L) \in Int /\ SumOf(B, L) \in Int
    BY <1>7, <2>2, SumAny
  <2>7. SumOf(A, L \ S) \in Int
    BY <1>7, FS_Subset, SumAny DEF Numbers
  <2>8. SumOf(B, L) = SumOf(A, L) - SumOf(take, S)
    BY <2>3, <2>4, <2>5, <2>6, <2>7
  <2> QED
    BY <1>1, <1>8, <1>9, <2>8 DEF new, c
<1>10. CASE k # <<account, asset>>
  <2>1. L \cap S = {}
    BY <1>3, <1>10 DEF LotsOf, Keys
  <2>2. \A i \in L : B[i] = A[i]
    BY <1>4, <1>6, <2>1
  <2> HIDE DEF L
  <2>3. SumOf(B, L) = SumOf(A, L)
    BY <1>7, <2>2, SumSame
  <2>4. SumOf(A, L) \in Int
    BY <1>7, SumAny
  <2> QED
    BY <1>8, <1>10, <2>3, <2>4 DEF new, c
<1> QED
  BY <1>9, <1>10

-----------------------------------------------------------------------------
(* Costs. *)

\* The costs of pieces, and of lots, that are all known.
Costs(pieces)  == [i \in DOMAIN pieces |-> pieces[i].cost]

\* Pieces and lots whose costs are all known, and the cost that lots carry.
AllPriced(pieces) == \A i \in DOMAIN pieces : Known(pieces[i].cost)
AllKnown(lots) == \A i \in DOMAIN lots : Known(lots[i].left)
Carrying(lots) == SumOf(Left(lots), DOMAIN lots)

\* The cost of some pieces, if it is known, is the sum of theirs.
LEMMA KnownCostIs ==
    ASSUME NEW pieces, Pieces(pieces)
    PROVE  /\ Known(KnownCost(pieces)) => KnownCost(pieces) \in Nat
           /\ AllPriced(pieces) =>
                 /\ SumOf(Costs(pieces), DOMAIN pieces) \in Nat
                 /\ AtLeast0(KnownCost(pieces)) = SumOf(Costs(pieces), DOMAIN pieces)
                 /\ ~Known(KnownCost(pieces)) <=> DOMAIN pieces = {}
<1> DEFINE costs == Costs(pieces)
           S == DOMAIN pieces
           total == SumOf(costs, S)
<1>1. IsFiniteSet(S) /\ DOMAIN costs = S /\ \A i \in S : costs[i] = pieces[i].cost
  BY DEF Pieces, Costs
<1>2. AllPriced(pieces) => \A i \in S : costs[i] \in Nat
  BY <1>1 DEF Pieces, AllPriced
<1>3. AllPriced(pieces) => total \in Nat
  <2> HIDE DEF costs
  <2> QED
    BY <1>1, <1>2, SumNat
<1>4. AllPriced(pieces) /\ S # {} => KnownCost(pieces) = total
  <2>1. AllPriced(pieces) /\ S # {} => KnownCost(pieces) = Total(costs)
    BY DEF KnownCost, AllPriced, Costs
  <2>2. Total(costs) = total
    <3> HIDE DEF costs
    <3> QED
      BY <1>1, TotalIs
  <2> QED
    BY <2>1, <2>2
<1>5. ~AllPriced(pieces) \/ S = {} => KnownCost(pieces) = Unknown
  BY DEF KnownCost, AllPriced
<1>6. S = {} => total = 0
  BY SumEmpty
<1> HIDE DEF costs, total
<1>7. AllPriced(pieces) => /\ AtLeast0(KnownCost(pieces)) = total
                           /\ ~Known(KnownCost(pieces)) <=> DOMAIN pieces = {}
  <2>1. CASE S = {}
    BY <1>5, <1>6, <2>1 DEF AtLeast0, Known, Unknown
  <2>2. CASE S # {}
    BY <1>3, <1>4, <2>2 DEF AtLeast0, Known, Unknown
  <2> QED
    BY <2>1, <2>2
<1>8. Known(KnownCost(pieces)) => KnownCost(pieces) \in Nat
  BY <1>3, <1>4, <1>5 DEF Known
<1> QED
  BY <1>3, <1>7, <1>8 DEF costs, total

\* The cost of what is consumed leaves the lots, and nothing else does.
LEMMA ConsumeCost ==
    ASSUME NEW run, NEW lots, GoodLots(lots), NEW account, NEW asset, NEW quantity, NEW at
    PROVE  LET c == Consume(run, lots, account, asset, quantity, at)
           IN  /\ AllKnown(c.lots) <=> AllKnown(lots)
               /\ AllKnown(lots) => /\ AllPriced(c.pieces)
                                    /\ Carrying(c.lots) = Carrying(lots)
                                          - SumOf(Costs(c.pieces), DOMAIN c.pieces)
<1> DEFINE S == Selected(lots, account, asset, at)
           take == Taken(run, lots, account, asset, quantity, at)
           c == Consume(run, lots, account, asset, quantity, at)
           new == c.lots
           N == DOMAIN lots
           T == DOMAIN c.pieces
           A == Left(lots)
           B == Left(new)
           C == Costs(c.pieces)
<1>1. /\ GoodLots(new) /\ DOMAIN new = N
      /\ \A i \in S : i \in N /\ take[i] \in 0..lots[i].remaining
      /\ \A i \in N : /\ i \in S => new[i] = AfterTake(lots[i], take[i])
                      /\ i \notin S => new[i] = lots[i]
  BY ConsumeLots
<1>2. /\ Pieces(c.pieces)
      /\ T = {i \in S : take[i] > 0}
      /\ \A i \in T : c.pieces[i].cost = PieceCost(lots[i], take[i])
  BY ConsumePieces
<1> HIDE DEF S, take, c
<1>3. \A i \in N : /\ i \in S => lots[i].remaining \in Nat
                   /\ Known(new[i].left) <=> Known(lots[i].left)
  BY <1>1, AfterTakeKeeps, LotFacts
<1>4. AllKnown(new) <=> AllKnown(lots)
  BY <1>1, <1>3 DEF AllKnown
<1> SUFFICES ASSUME AllKnown(lots)
             PROVE  AllPriced(c.pieces) /\ Carrying(new) = Carrying(lots) - SumOf(C, T)
  BY <1>4 DEF c
<1>5. \A i \in N : Known(lots[i].left) /\ A[i] = lots[i].left /\ A[i] \in Nat
  BY LotFacts DEF AllKnown
<1>6. \A i \in N : B[i] = new[i].left /\ B[i] \in Int /\ Known(new[i].left)
  BY <1>1, <1>4, LotFacts DEF AllKnown
<1>7. \A i \in T : i \in N /\ C[i] = PieceCost(lots[i], take[i]) /\ C[i] \in Nat /\ A[i] = B[i] + C[i]
  <2> SUFFICES ASSUME NEW i \in T
               PROVE  /\ i \in N /\ C[i] = PieceCost(lots[i], take[i]) /\ C[i] \in Nat
                      /\ A[i] = B[i] + C[i]
    OBVIOUS
  <2>1. i \in S /\ i \in N /\ C[i] = PieceCost(lots[i], take[i])
    BY <1>1, <1>2 DEF Costs
  <2>2. C[i] \in 0..lots[i].left
    BY <1>1, <1>5, <2>1, PieceCostBound
  <2>3. new[i].left = lots[i].left - PieceCost(lots[i], take[i])
    BY <1>1, <1>6, <2>1, AfterTakeKeeps
  <2> HIDE DEF A, B, C, T, new
  <2> QED
    BY <1>5, <1>6, <2>1, <2>2, <2>3
<1>8. \A i \in N \ T : B[i] = A[i]
  <2> SUFFICES ASSUME NEW i \in N \ T
               PROVE  new[i].left = lots[i].left
    BY <1>5, <1>6
  <2>1. CASE i \in S
    <3>1. take[i] = 0
      BY <1>1, <1>2, <1>3, <2>1
    <3>2. PieceCost(lots[i], 0) = 0
      <4> DEFINE rem == lots[i].remaining
                 lft == lots[i].left
      <4>1. rem \in Nat /\ lft \in Nat /\ Known(lft)
        BY <1>5, LotFacts
      <4>2. rem > 0 => Share(lft, 0, rem) \in Nat /\ Share(lft, 0, rem) * rem <= 0 * rem
        <5>1. rem > 0 => Share(lft, 0, rem) \in Nat /\ Share(lft, 0, rem) * rem <= lft * 0
          <6> HIDE DEF rem, lft
          <6> QED
            BY <4>1, Shares
        <5> QED
          BY <4>1, <5>1
      <4>3. rem > 0 => Share(lft, 0, rem) = 0
        <5> HIDE DEF rem, lft
        <5> QED
          BY <4>1, <4>2, Products
      <4> QED
        BY <4>1, <4>3 DEF PieceCost
    <3>3. new[i].left = lots[i].left - PieceCost(lots[i], take[i])
      BY <1>1, <1>6, <2>1, AfterTakeKeeps
    <3> HIDE DEF A, B, T, new
    <3> QED
      BY <1>5, <3>1, <3>2, <3>3
  <2>2. CASE i \notin S
    BY <1>1, <2>2
  <2> QED
    BY <2>1, <2>2
<1>9. AllPriced(c.pieces)
  <2>1. \A i \in T : C[i] = c.pieces[i].cost
    BY DEF Costs
  <2> HIDE DEF C
  <2>2. \A i \in T : c.pieces[i].cost \in Nat
    BY <1>7, <2>1
  <2> QED
    BY <2>2 DEF AllPriced, Known, Unknown
<1> HIDE DEF A, B, C, new
<1>10. T \subseteq N /\ IsFiniteSet(N) /\ IsFiniteSet(T)
  BY <1>7, LotFacts
<1> HIDE DEF N, T
<1>11. /\ Numbers(A, N) /\ Numbers(B, N) /\ Numbers(A, T) /\ Numbers(B, T) /\ Numbers(C, T)
       /\ Numbers(A, N \ T) /\ Numbers(B, N \ T)
  BY <1>5, <1>6, <1>7, <1>10, FS_Subset DEF Numbers
<1>12. SumOf(A, T) = SumOf(B, T) + SumOf(C, T)
  <2>1. \A i \in T : A[i] = B[i] + C[i]
    BY <1>7
  <2>2. (\A i \in T : A[i] = B[i] + C[i]) => SumOf(A, T) = SumOf(B, T) + SumOf(C, T)
    BY <1>11, SumPlus
  <2> QED
    BY <2>1, <2>2
<1>13. /\ SumOf(A, N) = SumOf(A, T) + SumOf(A, N \ T)
       /\ SumOf(B, N) = SumOf(B, T) + SumOf(B, N \ T)
  BY <1>10, <1>11, SumParts
<1>14. SumOf(B, N \ T) = SumOf(A, N \ T)
  BY <1>8, <1>11, SumSame
<1>15. /\ SumOf(A, T) \in Int /\ SumOf(B, T) \in Int /\ SumOf(C, T) \in Int
       /\ SumOf(A, N \ T) \in Int
  BY <1>11, SumAny
<1>16. SumOf(B, N) = SumOf(A, N) - SumOf(C, T)
  BY <1>12, <1>13, <1>14, <1>15
<1>17. Carrying(new) = SumOf(B, N) /\ Carrying(lots) = SumOf(A, N)
  BY <1>1 DEF Carrying, A, B, N
<1> QED
  BY <1>9, <1>16, <1>17

-----------------------------------------------------------------------------
(* Books. *)

\* The fields of a book.
Fields == {"lots", "pnl", "missing", "entered", "spent", "warned", "status", "rounds"}

\* A book that a run may have.
GoodBook(b) ==
    /\ DOMAIN b = Fields
    /\ GoodLots(b.lots)
    /\ b.missing \in [Keys -> Nat]
    /\ b.entered \in Int /\ b.spent \in Int
    /\ b.warned \in BOOLEAN /\ b.rounds \in BOOLEAN
    /\ b.status \in {"RUNNING", "SUCCEEDED", "PARTIAL", "FAILED"}

\* What a book says is held: its inventory less what it could not find.
Net(b, k) == Stock(b.lots, k, Int) - b.missing[k]

\* A book that explains everything, and the cost that it would have made or lost.
Whole(b)   == AllKnown(b.lots) /\ \A k \in Keys : b.missing[k] = 0
Balance(b) == Carrying(b.lots) - b.entered + b.spent

\* A stock is a natural number.
LEMMA StockIsNat ==
    ASSUME NEW lots, GoodLots(lots), NEW k, NEW D
    PROVE  Stock(lots, k, D) \in Nat
<1>1. LotsOf(lots, k, D) \subseteq DOMAIN lots
  BY DEF LotsOf
<1>2. IsFiniteSet(LotsOf(lots, k, D)) /\ \A i \in LotsOf(lots, k, D) : Rem(lots)[i] \in Nat
  BY <1>1, LotFacts
<1> QED
  BY <1>2, SumNat DEF Stock

\* The numbers of a book are numbers.
LEMMA BookFacts ==
    ASSUME NEW b, GoodBook(b)
    PROVE  /\ GoodLots(b.lots)
           /\ Carrying(b.lots) \in Int /\ b.entered \in Int /\ b.spent \in Int /\ Balance(b) \in Int
           /\ \A k \in Keys : Stock(b.lots, k, Int) \in Nat /\ b.missing[k] \in Nat /\ Net(b, k) \in Int
<1>1. GoodLots(b.lots) /\ b.entered \in Int /\ b.spent \in Int
  BY DEF GoodBook
<1>2. Numbers(Left(b.lots), DOMAIN b.lots)
  BY <1>1, LotFacts DEF Numbers
<1>3. Carrying(b.lots) \in Int
  BY <1>2, SumAny DEF Carrying
<1>4. \A k \in Keys : Stock(b.lots, k, Int) \in Nat /\ b.missing[k] \in Nat
  BY <1>1, StockIsNat DEF GoodBook
<1> QED
  BY <1>1, <1>3, <1>4 DEF Net, Balance

\* Pieces that add up to nothing are none.
LEMMA NoPieces ==
    ASSUME NEW pieces, Pieces(pieces), Quantity(pieces) = 0
    PROVE  DOMAIN pieces = {}
<1> DEFINE S == DOMAIN pieces
           q == [i \in S |-> pieces[i].quantity]
<1>1. IsFiniteSet(S) /\ \A i \in S : q[i] \in Nat /\ q[i] > 0
  BY DEF Pieces
<1>2. SumOf(q, S) = 0
  BY QuantityIs
<1>3. ASSUME NEW i \in S
      PROVE  FALSE
  <2> HIDE DEF q
  <2>1. SumOf(q, {i}) <= SumOf(q, S)
    BY <1>1, SumNat
  <2>2. Numbers(q, {i})
    <3>1. IsFiniteSet({i})
      BY <1>1, FS_Subset
    <3> QED
      BY <1>1, <3>1 DEF Numbers
  <2>3. SumOf(q, {i}) = q[i] + SumOf(q, {i} \ {i})
    BY <2>2, SumAny
  <2>4. {i} \ {i} = {}
    OBVIOUS
  <2>5. SumOf(q, {i} \ {i}) = 0
    BY <2>4, SumEmpty, Zenon
  <2> QED
    BY <1>1, <1>2, <2>1, <2>3, <2>5
<1> QED
  BY <1>3

\* What _consume does to a book.
LEMMA DebitedFields ==
    ASSUME NEW b, GoodBook(b), NEW x, NEW quantity, NEW use, NEW c
    PROVE  LET d == Debited(b, x, quantity, use, c)
               short == quantity - Quantity(c.pieces)
           IN  /\ DOMAIN d = Fields
               /\ d.lots = c.lots
               /\ d.pnl = b.pnl
               /\ d.missing = [b.missing EXCEPT ![<<x.account, x.asset>>] = @ + short]
               /\ d.entered = b.entered
               /\ d.spent = b.spent + IF use = "carried" THEN 0 ELSE AtLeast0(KnownCost(c.pieces))
               /\ d.warned = (b.warned \/ short > 0)
               /\ d.status = IF c.fails THEN "FAILED" ELSE b.status
               /\ d.rounds = (b.rounds \/ c.rounds)
<1>1. DOMAIN b = Fields
  BY DEF GoodBook
<1> QED
  BY <1>1 DEF Debited, Fields

\* The account and asset of an entry.
KeyOf(x) == <<x.account, x.asset>>

\* An amount of an entry, which may fail to be one.
Enters(x, quantity) == quantity \in Int /\ (quantity > 0 => KeyOf(x) \in Keys)

\* What of an amount at x is at k.
Part(k, x, quantity) == IF k = KeyOf(x) THEN quantity ELSE 0

\* An amount of the cost leaves the book, and none appears.
Loses(b, c, amount) == Whole(c) => Whole(b) /\ Balance(c) = Balance(b) - amount

\* No cost appears or disappears.
Keeps(b, c) == Whole(c) => Whole(b) /\ Balance(c) = Balance(b)

\* The cost of pieces that does not leave the book for good.
CarriedOn(pieces, use) == IF use = "carried" THEN SumOf(Costs(pieces), DOMAIN pieces) ELSE 0

\* A debit takes its quantity off what the book says is held, found or not, and its
\* cost off what the lots carry.
Takes(b, x, quantity, use, d) ==
    /\ GoodBook(d.book)
    /\ Pieces(d.pieces) /\ Quantity(d.pieces) \in Nat /\ Quantity(d.pieces) <= quantity
    /\ \A k \in Keys : Net(d.book, k) = Net(b, k) - Part(k, x, quantity)
    /\ Whole(d.book) => AllPriced(d.pieces)
    /\ Loses(b, d.book, CarriedOn(d.pieces, use))

\* That is what _consume with its warning does.
LEMMA DebitKeeps ==
    ASSUME NEW run, NEW b, GoodBook(b), NEW x, NEW quantity, quantity \in Nat, NEW at \in Int, NEW use
    PROVE  Takes(b, x, quantity, use, Debit(run, b, x, quantity, at, use))
<1> DEFINE c == Consume(run, b.lots, x.account, x.asset, quantity, at)
           d == Debit(run, b, x, quantity, at, use)
           n == Quantity(c.pieces)
           cost == SumOf(Costs(c.pieces), DOMAIN c.pieces)
           k0 == KeyOf(x)
           db == Debited(b, x, quantity, use, c)
<1>1. d.pieces = c.pieces /\ d.book = IF quantity = 0 THEN b ELSE db
  BY DEF Debit
<1>2. Pieces(c.pieces) /\ n \in Nat /\ n <= quantity
  <2>1. GoodLots(b.lots)
    BY DEF GoodBook
  <2>2. Pieces(c.pieces)
    BY <2>1, ConsumePieces
  <2>3. n \in Nat /\ n <= quantity
    BY <2>1, FoundBound
  <2> QED
    BY <2>2, <2>3
<1>3. GoodLots(c.lots)
  BY ConsumeLots DEF GoodBook
<1>4. \A k \in Keys : Stock(c.lots, k, Int) = Stock(b.lots, k, Int) - (IF k = k0 THEN n ELSE 0)
  <2>1. Past(at) \subseteq Int
    BY DEF Past
  <2> HIDE DEF c
  <2> QED
    BY <2>1, ConsumeStock DEF GoodBook, KeyOf, c
<1>5. /\ AllKnown(c.lots) <=> AllKnown(b.lots)
      /\ AllKnown(b.lots) => AllPriced(c.pieces) /\ Carrying(c.lots) = Carrying(b.lots) - cost
  BY ConsumeCost DEF GoodBook
<1>6. /\ Known(KnownCost(c.pieces)) => KnownCost(c.pieces) \in Nat
      /\ AllPriced(c.pieces) => cost \in Nat /\ AtLeast0(KnownCost(c.pieces)) = cost
  BY <1>2, KnownCostIs
<1>7. AtLeast0(KnownCost(c.pieces)) \in Nat
  BY <1>6 DEF AtLeast0, Known, Unknown
<1> DEFINE short == quantity - n
<1>8. short \in Nat
  BY <1>2
<1>9. /\ DOMAIN db = Fields
      /\ db.lots = c.lots
      /\ db.missing = [b.missing EXCEPT ![k0] = @ + short]
      /\ db.entered = b.entered
      /\ db.spent = b.spent + IF use = "carried" THEN 0 ELSE AtLeast0(KnownCost(c.pieces))
      /\ db.warned = (b.warned \/ short > 0)
      /\ db.status = IF c.fails THEN "FAILED" ELSE b.status
      /\ db.rounds = (b.rounds \/ c.rounds)
  BY DebitedFields DEF KeyOf
<1>10. c.rounds \in BOOLEAN
  BY DEF Consume
<1> HIDE DEF c, d, n, cost, db, short, k0
<1>11. /\ db.missing \in [Keys -> Nat]
       /\ \A k \in Keys : db.missing[k] = b.missing[k] + IF k = k0 THEN short ELSE 0
  <2> DEFINE M == b.missing
  <2>1. M \in [Keys -> Nat]
    BY DEF GoodBook
  <2>2. db.missing = [M EXCEPT ![k0] = M[k0] + short]
    BY <1>9
  <2> HIDE DEF M
  <2>3. DOMAIN db.missing = Keys
    BY <2>1, <2>2
  <2>4. \A k \in Keys : db.missing[k] = M[k] + IF k = k0 THEN short ELSE 0
    BY <1>8, <2>1, <2>2
  <2>5. \A k \in Keys : db.missing[k] \in Nat
    BY <1>8, <2>1, <2>4
  <2>6. db.missing = [k \in Keys |-> db.missing[k]]
    BY <2>2, <2>3
  <2> QED
    BY <2>4, <2>5, <2>6 DEF M
<1>12. GoodBook(db)
  <2>1. db.spent \in Int
    BY <1>7, <1>9 DEF GoodBook
  <2> QED
    BY <1>3, <1>9, <1>10, <1>11, <2>1 DEF GoodBook
<1>13. \A k \in Keys : Net(db, k) = Net(b, k) - Part(k, x, quantity)
  <2> SUFFICES ASSUME NEW k \in Keys
               PROVE  Net(db, k) = Net(b, k) - Part(k, x, quantity)
    OBVIOUS
  <2>1. Stock(b.lots, k, Int) \in Nat /\ b.missing[k] \in Nat
    BY BookFacts
  <2>2. db.missing[k] = b.missing[k] + IF k = k0 THEN quantity - n ELSE 0
    BY <1>11 DEF short
  <2>3. Stock(db.lots, k, Int) = Stock(b.lots, k, Int) - (IF k = k0 THEN n ELSE 0)
    BY <1>4, <1>9
  <2> QED
    BY <1>2, <2>1, <2>2, <2>3 DEF Net, Part, k0
<1>14. ASSUME Whole(db)
       PROVE  /\ Whole(b) /\ AllPriced(c.pieces)
              /\ Balance(db) = Balance(b) - CarriedOn(c.pieces, use)
  <2>1. AllKnown(b.lots)
    BY <1>5, <1>9, <1>14 DEF Whole
  <2>2. \A k \in Keys : b.missing[k] = 0
    BY <1>8, <1>11, <1>14, BookFacts DEF Whole
  <2>3. AllPriced(c.pieces) /\ Carrying(db.lots) = Carrying(b.lots) - cost /\ cost \in Nat
    BY <1>5, <1>6, <1>9, <2>1
  <2>4. db.spent = b.spent + IF use = "carried" THEN 0 ELSE cost
    BY <1>6, <1>9, <2>3
  <2>5. Carrying(b.lots) \in Int /\ b.entered \in Int /\ b.spent \in Int
    BY BookFacts
  <2>6. Balance(db) = Balance(b) - CarriedOn(c.pieces, use)
    BY <1>9, <2>3, <2>4, <2>5 DEF Balance, CarriedOn, cost
  <2> QED
    BY <2>1, <2>2, <2>3, <2>6 DEF Whole
<1>15. CASE quantity = 0
  <2>1. DOMAIN c.pieces = {}
    BY <1>2, <1>15, NoPieces DEF n
  <2>2. cost = 0 /\ AllPriced(c.pieces)
    BY <2>1, SumEmpty DEF cost, AllPriced
  <2>3. d.book = b
    BY <1>1, <1>15
  <2>4. \A k \in Keys : Net(b, k) = Net(b, k) - Part(k, x, quantity)
    BY <1>15, BookFacts DEF Part
  <2>5. Balance(b) = Balance(b) - CarriedOn(c.pieces, use)
    BY <2>2, BookFacts DEF CarriedOn, cost
  <2> QED
    BY <1>1, <1>2, <2>2, <2>3, <2>4, <2>5 DEF d, cost, n, k0, Loses, Takes
<1>16. CASE quantity > 0
  <2>1. d.book = db
    BY <1>1, <1>16
  <2> QED
    BY <1>1, <1>2, <1>12, <1>13, <1>14, <2>1 DEF d, cost, n, k0, Loses, Takes
<1> QED
  BY <1>15, <1>16

\* The numbers that are added up over lots are integers.
LEMMA LotNumbers ==
    ASSUME NEW lots, GoodLots(lots)
    PROVE  \A i \in DOMAIN lots : Rem(lots)[i] \in Int /\ Left(lots)[i] \in Int
BY LotFacts

\* A flush changes nothing of a lot but what is stored.
LEMMA FlushFields ==
    ASSUME NEW lots, GoodLots(lots)
    PROVE  /\ DOMAIN Flushed(lots) = DOMAIN lots
           /\ \A i \in DOMAIN lots :
                 /\ Flushed(lots)[i] \in LotSet /\ LotType(Flushed(lots)[i])
                 /\ Flushed(lots)[i].account = lots[i].account
                 /\ Flushed(lots)[i].asset = lots[i].asset
                 /\ Flushed(lots)[i].acquired = lots[i].acquired
                 /\ Flushed(lots)[i].remaining = lots[i].remaining
                 /\ Flushed(lots)[i].left = lots[i].left
<1> DEFINE new == Flushed(lots)
<1>1. DOMAIN new = DOMAIN lots
  BY DEF Flushed
<1>2. ASSUME NEW i \in DOMAIN lots
      PROVE  /\ new[i] \in LotSet /\ LotType(new[i])
             /\ new[i].account = lots[i].account /\ new[i].asset = lots[i].asset
             /\ new[i].acquired = lots[i].acquired /\ new[i].remaining = lots[i].remaining
             /\ new[i].left = lots[i].left
  <2>1. lots[i] \in LotSet /\ LotType(lots[i])
    BY LotFacts
  <2>2. new[i] = [lots[i] EXCEPT !.stored = lots[i].remaining]
    BY DEF Flushed
  <2>3. /\ new[i] \in LotSet
        /\ new[i].account = lots[i].account /\ new[i].asset = lots[i].asset
        /\ new[i].acquired = lots[i].acquired /\ new[i].remaining = lots[i].remaining
        /\ new[i].left = lots[i].left /\ new[i].cost = lots[i].cost
        /\ new[i].quantity = lots[i].quantity /\ new[i].stored = lots[i].remaining
    BY <2>1, <2>2 DEF LotSet
  <2> HIDE DEF new
  <2>4. LotType(new[i])
    BY <2>1, <2>3 DEF LotType, LotSet
  <2> QED
    BY <2>3, <2>4
<1> QED
  BY <1>1, <1>2

\* A flush stores the rows, and changes nothing that is in memory.
LEMMA FlushKeeps ==
    ASSUME NEW lots, GoodLots(lots)
    PROVE  /\ GoodLots(Flushed(lots))
           /\ \A k, D : Stock(Flushed(lots), k, D) = Stock(lots, k, D)
           /\ AllKnown(Flushed(lots)) <=> AllKnown(lots)
           /\ Carrying(Flushed(lots)) = Carrying(lots)
<1> DEFINE new == Flushed(lots)
<1>1. Len(lots) \in Nat /\ DOMAIN lots = 1..Len(lots) /\ DOMAIN new = DOMAIN lots
  BY DEF GoodLots, Flushed
<1>2. \A i \in DOMAIN lots :
             /\ new[i] \in LotSet /\ LotType(new[i])
             /\ new[i].account = lots[i].account /\ new[i].asset = lots[i].asset
             /\ new[i].acquired = lots[i].acquired /\ new[i].remaining = lots[i].remaining
             /\ new[i].left = lots[i].left
  BY FlushFields
<1> HIDE DEF new
<1>3. GoodLots(new)
  <2>1. new = [i \in 1..Len(lots) |-> new[i]]
    BY <1>1 DEF new, Flushed
  <2>2. new \in [1..Len(lots) -> LotSet]
    BY <1>1, <1>2, <2>1
  <2>3. new \in Seq(LotSet)
    BY <1>1, <2>2
  <2> QED
    BY <1>1, <1>2, <2>3 DEF GoodLots
<1>4. Rem(new) = Rem(lots) /\ Left(new) = Left(lots)
  BY <1>1, <1>2 DEF Rem, Left
<1>5. \A k, D : LotsOf(new, k, D) = LotsOf(lots, k, D)
  BY <1>1, <1>2 DEF LotsOf
<1>6. \A k, D : Stock(new, k, D) = Stock(lots, k, D)
  <2> SUFFICES ASSUME NEW k, NEW D
               PROVE  Stock(new, k, D) = Stock(lots, k, D)
    OBVIOUS
  <2>1. LotsOf(new, k, D) = LotsOf(lots, k, D)
    BY <1>5
  <2> QED
    BY <1>4, <2>1, Zenon DEF Stock
<1>7. Carrying(new) = Carrying(lots)
  BY <1>1, <1>4, Zenon DEF Carrying
<1>8. AllKnown(new) <=> AllKnown(lots)
  BY <1>1, <1>2 DEF AllKnown
<1> QED
  BY <1>3, <1>6, <1>7, <1>8 DEF new

\* What is added up over the lots of two sequences is added up over those of each.
UpTo(P, n) == P \subseteq 1..n
Shifted(Q, n) == {i + n : i \in Q}
Joins(F, G, H, n, m) == /\ \A i \in 1..n : F[i] = G[i] /\ G[i] \in Int
                        /\ \A i \in 1..m : F[i + n] = H[i] /\ H[i] \in Int

\* Adding up over a concatenation.
LEMMA SumConcat ==
    ASSUME NEW n \in Nat, NEW m \in Nat, NEW F, NEW G, NEW H, Joins(F, G, H, n, m),
           NEW P, UpTo(P, n), NEW Q, UpTo(Q, m)
    PROVE  SumOf(F, P \cup Shifted(Q, n)) = SumOf(G, P) + SumOf(H, Q)
<1> DEFINE I == {i + n : i \in Q}
           f == [i \in Q |-> i + n]
           L == P \cup I
<1>0. /\ \A i \in 1..n : F[i] = G[i] /\ G[i] \in Int
      /\ \A i \in 1..m : F[i + n] = H[i] /\ H[i] \in Int
  BY DEF Joins
<1>1. IsFiniteSet(P) /\ IsFiniteSet(Q) /\ I \cap P = {}
  <2>1. IsFiniteSet(1..n) /\ IsFiniteSet(1..m)
    BY FS_Interval
  <2>2. I \cap P = {}
    BY DEF UpTo
  <2>3. P \subseteq 1..n /\ Q \subseteq 1..m
    BY DEF UpTo
  <2> QED
    BY <2>1, <2>2, <2>3, FS_Subset
<1>2. Renames(f, Q, I)
  BY DEF Renames, UpTo
<1>4. I \subseteq (n + 1)..(n + m)
  BY DEF UpTo
<1>5. IsFiniteSet(I)
  <2>1. IsFiniteSet((n + 1)..(n + m))
    BY FS_Interval
  <2> HIDE DEF I
  <2> QED
    BY <1>4, <2>1, FS_Subset
<1>6. \A i \in Q : H[i] = F[f[i]] /\ H[i] \in Int
  BY <1>0 DEF UpTo
<1>7. \A j \in I : F[j] \in Int
  BY <1>0 DEF UpTo
<1>14. L = P \cup Shifted(Q, n)
  BY DEF Shifted
<1> HIDE DEF I, f
<1>8. SumOf(H, Q) = SumOf(F, I)
  <2>1. Numbers(H, Q) /\ Numbers(F, I)
    BY <1>1, <1>5, <1>6, <1>7 DEF Numbers
  <2> QED
    BY <1>2, <1>6, <2>1, SumRenamed
<1>9. L \ P = I
  BY <1>1
<1>3. P \subseteq L
  OBVIOUS
<1>10. Numbers(F, L)
  <2>1. IsFiniteSet(L)
    BY <1>1, <1>5, FS_Union
  <2>2. \A i \in L : F[i] \in Int
    BY <1>0, <1>7 DEF UpTo
  <2> QED
    BY <2>1, <2>2 DEF Numbers
<1> HIDE DEF L
<1>11. SumOf(F, L) = SumOf(F, P) + SumOf(F, L \ P)
  BY <1>3, <1>10, SumParts
<1>12. SumOf(F, L) = SumOf(F, P) + SumOf(F, I)
  BY <1>9, <1>11, Zenon
<1>13. SumOf(F, P) = SumOf(G, P)
  <2>1. Numbers(G, P) /\ \A i \in P : F[i] = G[i]
    BY <1>0, <1>1 DEF Numbers, UpTo
  <2> QED
    BY <2>1, SumSame
<1>15. SumOf(F, L) = SumOf(G, P) + SumOf(H, Q)
  BY <1>8, <1>12, <1>13
<1> QED
  BY <1>14, <1>15, Zenon

\* More lots add what they have.
LEMMA ConcatKeeps ==
    ASSUME NEW a, GoodLots(a), NEW b, GoodLots(b)
    PROVE  /\ GoodLots(a \o b)
           /\ \A k, D : Stock(a \o b, k, D) = Stock(a, k, D) + Stock(b, k, D)
           /\ AllKnown(a \o b) <=> AllKnown(a) /\ AllKnown(b)
           /\ Carrying(a \o b) = Carrying(a) + Carrying(b)
<1> DEFINE n == Len(a)
           m == Len(b)
           ab == a \o b
<1>1. /\ n \in Nat /\ DOMAIN a = 1..n /\ m \in Nat /\ DOMAIN b = 1..m
      /\ DOMAIN ab = 1..(n + m)
      /\ \A i \in 1..n : ab[i] = a[i]
      /\ \A i \in 1..m : ab[i + n] = b[i]
      /\ ab \in Seq(LotSet)
  BY DEF GoodLots
<1> HIDE DEF n, m, ab
<1>2. \A i \in 1..(n + m) : i \in 1..n \/ (i - n \in 1..m /\ ab[i] = b[i - n])
  <2> SUFFICES ASSUME NEW i \in 1..(n + m), i \notin 1..n
               PROVE  i - n \in 1..m /\ ab[i] = b[i - n]
    OBVIOUS
  <2>1. i - n \in 1..m /\ (i - n) + n = i
    BY <1>1
  <2> QED
    BY <1>1, <2>1
<1>3. GoodLots(ab)
  BY <1>1, <1>2 DEF GoodLots
<1>4. /\ \A i \in 1..n : Rem(ab)[i] = Rem(a)[i] /\ Left(ab)[i] = Left(a)[i]
      /\ \A i \in 1..m : Rem(ab)[i + n] = Rem(b)[i] /\ Left(ab)[i + n] = Left(b)[i]
      /\ \A i \in 1..(n + m) : Rem(ab)[i] \in Int /\ Left(ab)[i] \in Int
      /\ \A i \in 1..n : Rem(a)[i] \in Int /\ Left(a)[i] \in Int
      /\ \A i \in 1..m : Rem(b)[i] \in Int /\ Left(b)[i] \in Int
  <2>1. \A i \in 1..(n + m) : Rem(ab)[i] \in Int /\ Left(ab)[i] \in Int
    BY <1>1, <1>3, LotNumbers
  <2>2. /\ \A i \in 1..n : Rem(a)[i] \in Int /\ Left(a)[i] \in Int
        /\ \A i \in 1..m : Rem(b)[i] \in Int /\ Left(b)[i] \in Int
    BY <1>1, LotNumbers
  <2>3. \A i \in 1..n : Rem(ab)[i] = Rem(a)[i] /\ Left(ab)[i] = Left(a)[i]
    BY <1>1 DEF Rem, Left
  <2>4. \A i \in 1..m : i + n \in 1..(n + m)
    BY <1>1
  <2>5. \A i \in 1..m : Rem(ab)[i + n] = Rem(b)[i] /\ Left(ab)[i + n] = Left(b)[i]
    BY <1>1, <2>4 DEF Rem, Left
  <2> QED
    BY <2>1, <2>2, <2>3, <2>5
<1>6. ASSUME NEW k, NEW D
      PROVE  Stock(ab, k, D) = Stock(a, k, D) + Stock(b, k, D)
  <2> DEFINE P == LotsOf(a, k, D)
             Q == LotsOf(b, k, D)
             L == LotsOf(ab, k, D)
  <2>1. UpTo(P, n) /\ UpTo(Q, m)
    BY <1>1 DEF LotsOf, UpTo
  <2>2. L = P \cup Shifted(Q, n)
    <3>1. \A i \in 1..m : i + n \in 1..(n + m)
      BY <1>1
    <3>2. \A i \in L : i \in P \cup {j + n : j \in Q}
      <4> SUFFICES ASSUME NEW i \in L, i \notin P
                   PROVE  i \in {j + n : j \in Q}
        OBVIOUS
      <4>1. i - n \in Q
        BY <1>1, <1>2 DEF LotsOf
      <4>2. i = (i - n) + n
        BY <1>1 DEF LotsOf
      <4> HIDE DEF Q
      <4> QED
        BY <4>1, <4>2
    <3>3. P \subseteq L
      BY <1>1 DEF LotsOf
    <3>4. \A j \in Q : j + n \in L
      BY <1>1, <2>1, <3>1 DEF LotsOf, UpTo
    <3> HIDE DEF P, Q, L
    <3> QED
      BY <3>2, <3>3, <3>4 DEF Shifted
  <2> HIDE DEF P, Q, L
  <2>3. SumOf(Rem(ab), L) = SumOf(Rem(a), P) + SumOf(Rem(b), Q)
    <3>1. Joins(Rem(ab), Rem(a), Rem(b), n, m)
      BY <1>4 DEF Joins
    <3>2. SumOf(Rem(ab), P \cup Shifted(Q, n)) = SumOf(Rem(a), P) + SumOf(Rem(b), Q)
      BY <1>1, <2>1, <3>1, SumConcat
    <3> QED
      BY <2>2, <3>2, Zenon
  <2> QED
    BY <2>3 DEF Stock, P, Q, L
<1>7. Carrying(ab) = Carrying(a) + Carrying(b)
  <2>1. 1..(n + m) = (1..n) \cup Shifted(1..m, n)
    <3>1. \A i \in 1..(n + m) : i \in 1..n \/ (i - n \in 1..m /\ i = (i - n) + n)
      BY <1>1, <1>2
    <3>2. \A i \in 1..m : i + n \in 1..(n + m)
      BY <1>1
    <3>3. 1..n \subseteq 1..(n + m)
      BY <1>1
    <3> QED
      BY <3>1, <3>2, <3>3 DEF Shifted
  <2>3. UpTo(1..n, n) /\ UpTo(1..m, m)
    BY DEF UpTo
  <2>2. SumOf(Left(ab), 1..(n + m)) = SumOf(Left(a), 1..n) + SumOf(Left(b), 1..m)
    <3>1. Joins(Left(ab), Left(a), Left(b), n, m)
      BY <1>4 DEF Joins
    <3>2. SumOf(Left(ab), (1..n) \cup Shifted(1..m, n)) = SumOf(Left(a), 1..n) + SumOf(Left(b), 1..m)
      BY <1>1, <2>3, <3>1, SumConcat
    <3> QED
      BY <2>1, <3>2, Zenon
  <2> QED
    BY <1>1, <2>2 DEF Carrying
<1>8. AllKnown(ab) <=> AllKnown(a) /\ AllKnown(b)
  <2>1. AllKnown(a) /\ AllKnown(b) => AllKnown(ab)
    BY <1>1, <1>2 DEF AllKnown
  <2>2. AllKnown(ab) => AllKnown(a) /\ AllKnown(b)
    <3>1. 1..n \subseteq 1..(n + m) /\ \A i \in 1..m : i + n \in 1..(n + m)
      BY <1>1
    <3> QED
      BY <1>1, <3>1 DEF AllKnown
  <2> QED
    BY <2>1, <2>2
<1> QED
  BY <1>3, <1>6, <1>7, <1>8 DEF ab

\* Lots of one account and asset that were acquired at one moment.
Uniform(lots, k, at) ==
    \A i \in DOMAIN lots : /\ lots[i].account = k[1] /\ lots[i].asset = k[2]
                           /\ lots[i].acquired = at

\* Their stock is all they have, for their key once they are acquired, and else nothing.
LEMMA UniformStock ==
    ASSUME NEW lots, GoodLots(lots), NEW k0 \in Keys, NEW at \in Int, Uniform(lots, k0, at)
    PROVE  \A k \in Keys : \A D : Stock(lots, k, D) = IF k = k0 /\ at \in D THEN SumOf(Rem(lots), DOMAIN lots) ELSE 0
<1> SUFFICES ASSUME NEW k \in Keys, NEW D
             PROVE  Stock(lots, k, D) = IF k = k0 /\ at \in D THEN SumOf(Rem(lots), DOMAIN lots) ELSE 0
  OBVIOUS
<1>1. CASE k = k0 /\ at \in D
  <2>1. LotsOf(lots, k, D) = DOMAIN lots
    BY <1>1 DEF LotsOf, Uniform
  <2>2. Stock(lots, k, D) = SumOf(Rem(lots), DOMAIN lots)
    BY <2>1, Zenon DEF Stock
  <2> QED
    BY <1>1, <2>2
<1>2. CASE ~(k = k0 /\ at \in D)
  <2>1. k = <<k[1], k[2]>> /\ k0 = <<k0[1], k0[2]>>
    BY DEF Keys
  <2>2. LotsOf(lots, k, D) = {}
    BY <1>2, <2>1 DEF LotsOf, Uniform
  <2>3. Stock(lots, k, D) = SumOf(Rem(lots), {})
    BY <2>2, Zenon DEF Stock
  <2> QED
    BY <1>2, <2>3, SumEmpty
<1> QED
  BY <1>1, <1>2

\* A new lot is a lot.
LEMMA NewLotKeeps ==
    ASSUME NEW account \in Accounts, NEW asset \in Assets, NEW quantity \in Nat,
           NEW cost, Known(cost) => cost \in Nat, NEW at \in Int
    PROVE  LET lot == NewLot(account, asset, quantity, cost, at)
           IN  /\ lot \in LotSet /\ LotType(lot)
               /\ lot.account = account /\ lot.asset = asset /\ lot.acquired = at
               /\ lot.remaining = quantity /\ lot.left = cost
<1>1. cost \in Int
  BY DEF Known, Unknown
<1> QED
  BY <1>1 DEF NewLot, LotSet, LotType, Known, Unknown

\* _create_lot adds a lot.
LEMMA AddLotKeeps ==
    ASSUME NEW lots, GoodLots(lots), NEW account \in Accounts, NEW asset \in Assets,
           NEW quantity \in Nat, NEW cost, Known(cost) => cost \in Nat, NEW at \in Int
    PROVE  LET new == AddLot(lots, NewLot(account, asset, quantity, cost, at))
           IN  /\ GoodLots(new)
               /\ \A k \in Keys : \A D : Stock(new, k, D) = Stock(lots, k, D)
                     + IF k = <<account, asset>> /\ at \in D THEN quantity ELSE 0
               /\ AllKnown(new) <=> AllKnown(lots) /\ Known(cost)
               /\ Known(cost) => Carrying(new) = Carrying(lots) + cost
<1> DEFINE lot == NewLot(account, asset, quantity, cost, at)
           old == Flushed(lots)
           one == <<lot>>
           k0 == <<account, asset>>
           new == AddLot(lots, lot)
<1>1. /\ GoodLots(old)
      /\ \A k, D : Stock(old, k, D) = Stock(lots, k, D)
      /\ AllKnown(old) <=> AllKnown(lots)
      /\ Carrying(old) = Carrying(lots)
  BY FlushKeeps
<1>2. /\ lot \in LotSet /\ LotType(lot)
      /\ lot.account = account /\ lot.asset = asset /\ lot.acquired = at
      /\ lot.remaining = quantity /\ lot.left = cost
  BY NewLotKeeps
<1>3. new = Append(old, lot)
  BY DEF AddLot
<1> HIDE DEF lot, old
<1>4. Append(old, lot) = old \o one
  BY <1>1, <1>2 DEF GoodLots
<1>5. GoodLots(one) /\ DOMAIN one = {1} /\ one[1] = lot
  BY <1>2 DEF GoodLots
<1> HIDE DEF one, new
<1>6. /\ GoodLots(new)
      /\ \A k, D : Stock(new, k, D) = Stock(old, k, D) + Stock(one, k, D)
      /\ AllKnown(new) <=> AllKnown(old) /\ AllKnown(one)
      /\ Carrying(new) = Carrying(old) + Carrying(one)
  <2>1. new = old \o one
    BY <1>3, <1>4
  <2> QED
    BY <1>1, <1>5, <2>1, ConcatKeeps
<1>7. \A F : F[1] \in Int => SumOf(F, {1}) = F[1]
  <2> SUFFICES ASSUME NEW F, F[1] \in Int
               PROVE  SumOf(F, {1}) = F[1]
    OBVIOUS
  <2>1. Numbers(F, {1})
    <3>1. IsFiniteSet({1})
      BY FS_Singleton, Zenon
    <3> QED
      BY <3>1 DEF Numbers
  <2>2. SumOf(F, {1}) = F[1] + SumOf(F, {1} \ {1})
    BY <2>1, SumAny
  <2>3. {1} \ {1} = {}
    OBVIOUS
  <2>4. SumOf(F, {1} \ {1}) = 0
    BY <2>3, SumEmpty, Zenon
  <2> QED
    BY <2>2, <2>4
<1>8. SumOf(Rem(one), DOMAIN one) = quantity
  <2>1. Rem(one)[1] = quantity
    BY <1>2, <1>5, LotFacts
  <2>2. SumOf(Rem(one), {1}) = quantity
    BY <1>7, <2>1
  <2> QED
    BY <1>5, <2>2, Zenon
<1>9. Carrying(one) = cost
  <2>1. Left(one)[1] = cost /\ cost \in Int
    BY <1>2, <1>5, LotFacts DEF Known, Unknown
  <2>2. SumOf(Left(one), {1}) = cost
    BY <1>7, <2>1
  <2> QED
    BY <1>5, <2>2, Zenon DEF Carrying
<1>10. \A k \in Keys : \A D : Stock(one, k, D) = IF k = k0 /\ at \in D THEN quantity ELSE 0
  <2>1. k0 \in Keys /\ k0[1] = account /\ k0[2] = asset
    BY DEF Keys
  <2>2. Uniform(one, k0, at)
    BY <1>2, <1>5, <2>1 DEF Uniform
  <2> HIDE DEF k0
  <2> QED
    BY <1>5, <1>8, <2>1, <2>2, UniformStock
<1>11. AllKnown(one) <=> Known(cost)
  BY <1>2, <1>5 DEF AllKnown
<1> QED
  BY <1>1, <1>6, <1>9, <1>10, <1>11 DEF new, lot, k0

\* What comes in adds to what the book says is held.
Gets(b, c, x, quantity) == /\ GoodBook(c) /\ Keeps(b, c)
                           /\ \A k \in Keys : Net(c, k) = Net(b, k) + Part(k, x, AtLeast0(quantity))

\* That is what creating a lot does.
LEMMA CreditKeeps ==
    ASSUME NEW b, GoodBook(b), NEW x, NEW quantity, Enters(x, quantity),
           NEW cost, IsCost(cost), NEW at \in Int
    PROVE  Gets(b, Credit(b, x, quantity, cost, at), x, quantity)
<1> DEFINE c == Credit(b, x, quantity, cost, at)
<1>0. quantity \in Int /\ (quantity > 0 => KeyOf(x) \in Keys) /\ (Known(cost) => cost \in Nat)
  BY DEF Enters, IsCost
<1>1. CASE quantity <= 0
  <2>1. c = b
    BY <1>1 DEF Credit
  <2>2. \A k \in Keys : Part(k, x, AtLeast0(quantity)) = 0
    BY <1>0, <1>1 DEF Part, AtLeast0
  <2> QED
    BY <2>1, <2>2, BookFacts DEF Keeps, Gets
<1>2. CASE quantity > 0
  <2> DEFINE new == AddLot(b.lots, NewLot(x.account, x.asset, quantity, cost, at))
             n == IF Known(cost) THEN cost ELSE 0
  <2>1. /\ DOMAIN c = Fields
        /\ c.lots = new /\ c.missing = b.missing
        /\ c.entered = b.entered + n
        /\ c.spent = b.spent /\ c.warned = (b.warned \/ ~Known(cost))
        /\ c.status = b.status /\ c.rounds = b.rounds
    <3>1. DOMAIN b = Fields
      BY DEF GoodBook
    <3>2. c = [b EXCEPT !.lots = new, !.entered = @ + n, !.warned = @ \/ ~Known(cost)]
      BY <1>0, <1>2 DEF Credit
    <3> HIDE DEF new, n, c
    <3> QED
      BY <3>1, <3>2 DEF Fields
  <2>2. x.account \in Accounts /\ x.asset \in Assets /\ quantity \in Nat /\ GoodLots(b.lots)
    BY <1>0, <1>2 DEF KeyOf, Keys, GoodBook
  <2>3. /\ GoodLots(new)
        /\ \A k \in Keys : \A D : Stock(new, k, D) = Stock(b.lots, k, D)
                 + IF k = KeyOf(x) /\ at \in D THEN quantity ELSE 0
        /\ AllKnown(new) <=> AllKnown(b.lots) /\ Known(cost)
        /\ Known(cost) => Carrying(new) = Carrying(b.lots) + cost
    BY <1>0, <2>2, AddLotKeeps DEF KeyOf
  <2> HIDE DEF new, c
  <2>4. n \in Nat
    BY <1>0
  <2>5. GoodBook(c)
    <3>1. c.entered \in Int
      BY <2>1, <2>4, BookFacts
    <3> QED
      BY <2>1, <2>3, <3>1 DEF GoodBook
  <2>6. \A k \in Keys : Net(c, k) = Net(b, k) + Part(k, x, AtLeast0(quantity))
    <3> SUFFICES ASSUME NEW k \in Keys
                 PROVE  Net(c, k) = Net(b, k) + Part(k, x, AtLeast0(quantity))
      OBVIOUS
    <3>1. Stock(c.lots, k, Int) = Stock(b.lots, k, Int) + IF k = KeyOf(x) THEN quantity ELSE 0
      BY <2>1, <2>3
    <3>2. Stock(b.lots, k, Int) \in Nat /\ b.missing[k] \in Nat
      BY BookFacts
    <3> QED
      BY <1>0, <1>2, <2>1, <3>1, <3>2 DEF Net, Part, AtLeast0
  <2>7. ASSUME Whole(c)
        PROVE  Whole(b) /\ Balance(c) = Balance(b)
    <3>1. Known(cost) /\ AllKnown(b.lots) /\ \A k \in Keys : b.missing[k] = 0
      BY <2>1, <2>3, <2>7 DEF Whole
    <3>2. Carrying(c.lots) = Carrying(b.lots) + cost /\ c.entered = b.entered + cost /\ cost \in Nat
      BY <1>0, <2>1, <2>3, <3>1
    <3>3. Carrying(b.lots) \in Int /\ b.entered \in Int /\ b.spent \in Int
      BY BookFacts
    <3> QED
      BY <2>1, <3>1, <3>2, <3>3 DEF Whole, Balance
  <2> QED
    BY <2>5, <2>6, <2>7 DEF c, Keeps, Gets
<1> QED
  BY <1>0, <1>1, <1>2

\* What comes in is there from the moment it arrives.
Adds(b, c, x, quantity, when) ==
    /\ b.rounds => c.rounds
    /\ c.missing = b.missing
    /\ \A k \in Keys : \A D :
          Stock(c.lots, k, D) = Stock(b.lots, k, D) + IF when \in D THEN Part(k, x, quantity) ELSE 0

\* A lot created adds its quantity to the stock.
LEMMA CreditAdds ==
    ASSUME NEW b, GoodBook(b), NEW x, NEW quantity, Enters(x, quantity),
           NEW cost, IsCost(cost), NEW when \in Int
    PROVE  Adds(b, Credit(b, x, quantity, cost, when), x, AtLeast0(quantity), when)
<1> DEFINE c == Credit(b, x, quantity, cost, when)
<1>1. quantity \in Int /\ (quantity > 0 => KeyOf(x) \in Keys) /\ (Known(cost) => cost \in Nat)
  BY DEF Enters, IsCost
<1>2. \A k \in Keys : \A D : Stock(b.lots, k, D) \in Nat
  BY StockIsNat DEF GoodBook
<1>3. CASE quantity <= 0
  <2>1. c = b
    BY <1>3 DEF Credit
  <2>2. \A k \in Keys : Part(k, x, AtLeast0(quantity)) = 0
    BY <1>1, <1>3 DEF Part, AtLeast0
  <2>3. \A k \in Keys : \A D : Stock(b.lots, k, D) = Stock(b.lots, k, D)
           + IF when \in D THEN Part(k, x, AtLeast0(quantity)) ELSE 0
    BY <1>2, <2>2
  <2> QED
    BY <2>1, <2>3 DEF Adds
<1>4. CASE quantity > 0
  <2> DEFINE new == AddLot(b.lots, NewLot(x.account, x.asset, quantity, cost, when))
  <2>1. c.lots = new /\ c.missing = b.missing /\ c.rounds = b.rounds
    <3>1. DOMAIN b = Fields
      BY DEF GoodBook
    <3>2. c = [b EXCEPT !.lots = new,
                        !.entered = @ + (IF Known(cost) THEN cost ELSE 0),
                        !.warned = @ \/ ~Known(cost)]
      BY <1>1, <1>4 DEF Credit
    <3> HIDE DEF new, c
    <3> QED
      BY <3>1, <3>2 DEF Fields
  <2>2. x.account \in Accounts /\ x.asset \in Assets /\ quantity \in Nat /\ GoodLots(b.lots)
    BY <1>1, <1>4 DEF KeyOf, Keys, GoodBook
  <2>3. \A k \in Keys : \A D : Stock(new, k, D) = Stock(b.lots, k, D)
           + IF k = KeyOf(x) /\ when \in D THEN quantity ELSE 0
    BY <1>1, <2>2, AddLotKeeps DEF KeyOf
  <2> HIDE DEF new, c
  <2>4. \A k \in Keys : \A D : Stock(c.lots, k, D) = Stock(b.lots, k, D)
           + IF when \in D THEN Part(k, x, AtLeast0(quantity)) ELSE 0
    BY <1>1, <1>4, <2>1, <2>3 DEF Part, AtLeast0
  <2> QED
    BY <2>1, <2>4 DEF Adds, c
<1> QED
  BY <1>1, <1>3, <1>4

-----------------------------------------------------------------------------
(* Transfers. *)

\* The pieces in some order.
LEMMA InOrder ==
    ASSUME NEW S, IsFiniteSet(S)
    PROVE  /\ Cardinality(S) \in Nat
           /\ DOMAIN SetToSeq(S) = 1..Cardinality(S)
           /\ Renames(SetToSeq(S), DOMAIN SetToSeq(S), S)
<1> DEFINE n == Cardinality(S)
           f == SetToSeq(S)
<1>1. n \in Nat /\ ExistsBijection(1..n, S)
  BY FS_CardinalityType
<1>2. \E g \in [1..n -> S] : IsInjective(g)
  BY <1>1 DEF ExistsBijection, Bijection, Injection
<1>3. f \in [1..n -> S] /\ IsInjective(f)
  <2>1. f = CHOOSE g \in [1..n -> S] : IsInjective(g)
    BY DEF SetToSeq
  <2> HIDE DEF f, n
  <2> QED
    BY <1>2, <2>1
<1>4. f \in Injection(1..n, S)
  BY <1>3 DEF Injection
<1>5. IsFiniteSet(1..n) /\ Cardinality(1..n) = n
  BY <1>1, FS_Interval
<1>6. f \in Surjection(1..n, S)
  BY <1>4, <1>5, FS_Injection
<1> QED
  BY <1>1, <1>3, <1>6 DEF Renames, IsInjective, Surjection

\* The lots a transfer creates.
MovedLots(e, pieces, arrives) ==
    [n \in DOMAIN SetToSeq(DOMAIN pieces) |->
        NewLot(e.in.account, e.in.asset,
               Share(pieces[SetToSeq(DOMAIN pieces)[n]].quantity, e.in.quantity, e.out.quantity),
               CarriedCost(e, pieces[SetToSeq(DOMAIN pieces)[n]]), arrives)]

\* What of the quantities and of the costs of the pieces arrives.
Arrived(e, pieces) == [i \in DOMAIN pieces |->
                         Share(pieces[i].quantity, e.in.quantity, e.out.quantity)]
Brought(e, pieces) == [i \in DOMAIN pieces |-> CarriedCost(e, pieces[i])]

\* A withdrawal and the deposit it arrives as.
Amounts(e) == /\ e.out.quantity \in Nat /\ e.in.quantity \in Nat
              /\ e.in.quantity > 0 => KeyOf(e.in) \in Keys

\* What arrives of a piece is a number, and no more than its part.
LEMMA PieceArrives ==
    ASSUME NEW e, Amounts(e), e.out.quantity > 0, NEW pieces, Pieces(pieces), NEW i \in DOMAIN pieces
    PROVE  /\ Arrived(e, pieces)[i] \in Nat
           /\ Arrived(e, pieces)[i] * e.out.quantity <= pieces[i].quantity * e.in.quantity
           /\ Known(pieces[i].cost) <=> Known(Brought(e, pieces)[i])
           /\ Known(pieces[i].cost) =>
                 /\ Brought(e, pieces)[i] \in Nat
                 /\ e.in.quantity <= e.out.quantity => Brought(e, pieces)[i] <= pieces[i].cost
                 /\ e.in.quantity = e.out.quantity => Brought(e, pieces)[i] = pieces[i].cost
<1> DEFINE q == pieces[i].quantity
           c == pieces[i].cost
           in == e.in.quantity
           out == e.out.quantity
<1>1. q \in Nat /\ in \in Nat /\ out \in Nat /\ out > 0 /\ (Known(c) => c \in Nat)
  BY DEF Pieces, Amounts
<1>2. Arrived(e, pieces)[i] = Share(q, in, out)
  BY DEF Arrived
<1>3. Brought(e, pieces)[i] = IF Known(c) THEN Share(c, in, out) ELSE Unknown
  BY DEF Brought, CarriedCost
<1> HIDE DEF q, c, in, out
<1>4. Share(q, in, out) \in Nat /\ Share(q, in, out) * out <= q * in
  BY <1>1, Shares
<1>5. Known(c) => /\ Share(c, in, out) \in Nat
                  /\ in <= out => Share(c, in, out) <= c
                  /\ in = out => Share(c, in, out) = c
  BY <1>1, Shares
<1>6. Known(c) <=> Known(Brought(e, pieces)[i])
  BY <1>3, <1>5 DEF Known, Unknown
<1> QED
  BY <1>2, <1>3, <1>4, <1>5, <1>6 DEF q, c, in, out

\* No more arrives than the deposit says.
LEMMA ArrivedBound ==
    ASSUME NEW e, Amounts(e), NEW pieces, Pieces(pieces), Quantity(pieces) <= e.out.quantity
    PROVE  /\ SumOf(Arrived(e, pieces), DOMAIN pieces) \in Nat
           /\ SumOf(Arrived(e, pieces), DOMAIN pieces) <= e.in.quantity
           /\ DOMAIN pieces # {} => e.out.quantity > 0
<1> DEFINE S == DOMAIN pieces
           q == [i \in S |-> pieces[i].quantity]
           a == Arrived(e, pieces)
           in == e.in.quantity
           out == e.out.quantity
           total == SumOf(a, S)
<1>1. Quantity(pieces) = SumOf(q, S) /\ Quantity(pieces) \in Nat
  BY QuantityIs
<1>2. in \in Nat /\ out \in Nat /\ IsFiniteSet(S) /\ \A i \in S : q[i] = pieces[i].quantity /\ q[i] \in Nat
  BY DEF Amounts, Pieces
<1>3. CASE S = {}
  <2>1. SumOf(a, {}) = 0
    BY SumEmpty
  <2> HIDE DEF a
  <2>2. total = 0
    BY <1>3, <2>1, Zenon
  <2> QED
    BY <1>2, <1>3, <2>2 DEF a
<1>4. CASE S # {}
  <2>1. out > 0
    BY <1>1, <1>2, <1>4, NoPieces
  <2>2. \A i \in S : a[i] \in Nat /\ a[i] * out <= q[i] * in
    BY <1>2, <2>1, PieceArrives
  <2> HIDE DEF S, q, a, in, out
  <2>3. Numbers(a, S) /\ Numbers(q, S)
    BY <1>2, <2>2 DEF Numbers
  <2>4. total \in Nat
    BY <1>2, <2>2, SumNat
  <2>5. total * out <= SumOf(q, S) * in
    <3>1. (\A i \in S : a[i] * out <= q[i] * in) => total * out <= SumOf(q, S) * in
      BY <1>2, <2>3, SumScaled
    <3> QED
      BY <2>2, <3>1
  <2>6. SumOf(q, S) * in <= out * in
    <3>1. SumOf(q, S) <= out /\ SumOf(q, S) \in Nat
      BY <1>1 DEF out
    <3> QED
      BY <1>2, <3>1, Products
  <2> HIDE DEF total
  <2>7. total * out <= in * out
    <3>1. /\ total * out \in Int /\ SumOf(q, S) * in \in Int /\ out * in \in Int
          /\ out * in = in * out
      BY <1>1, <1>2, <2>4, Products
    <3> QED
      BY <2>5, <2>6, <3>1
  <2>8. total <= in
    BY <1>2, <2>1, <2>4, <2>7, Products
  <2> QED
    BY <2>1, <2>4, <2>8 DEF total, S, a, in, out
<1> QED
  BY <1>3, <1>4

\* The lots created are as much as arrives of the pieces, at what arrives of their cost.
LEMMA MovedKeeps ==
    ASSUME NEW e, Amounts(e), NEW pieces, Pieces(pieces), Quantity(pieces) <= e.out.quantity,
           DOMAIN pieces # {}, KeyOf(e.in) \in Keys, NEW arrives \in Int
    PROVE  LET moved == MovedLots(e, pieces, arrives)
           IN  /\ GoodLots(moved) /\ Uniform(moved, KeyOf(e.in), arrives)
               /\ SumOf(Rem(moved), DOMAIN moved) = SumOf(Arrived(e, pieces), DOMAIN pieces)
               /\ Total([n \in DOMAIN moved |-> moved[n].quantity]) = SumOf(Arrived(e, pieces), DOMAIN pieces)
               /\ AllKnown(moved) <=> AllPriced(pieces)
               /\ AllPriced(pieces) => Carrying(moved) = SumOf(Brought(e, pieces), DOMAIN pieces)
<1> DEFINE S == DOMAIN pieces
           order == SetToSeq(S)
           N == DOMAIN order
           moved == MovedLots(e, pieces, arrives)
           a == Arrived(e, pieces)
           g == Brought(e, pieces)
           Q == [n \in DOMAIN moved |-> moved[n].quantity]
<1>1. e.out.quantity > 0
  BY ArrivedBound
<1>2. IsFiniteSet(S)
  BY DEF Pieces
<1>3. Cardinality(S) \in Nat /\ N = 1..Cardinality(S) /\ Renames(order, N, S)
  BY <1>2, InOrder
<1>4. \A i \in S : /\ a[i] \in Nat
                   /\ Known(pieces[i].cost) <=> Known(g[i])
                   /\ Known(g[i]) => g[i] \in Nat
  BY <1>1, PieceArrives
<1>5. \A n \in N : order[n] \in S
  BY <1>3 DEF Renames
<1>6. /\ DOMAIN moved = N
      /\ \A n \in N : moved[n] = NewLot(e.in.account, e.in.asset, a[order[n]], g[order[n]], arrives)
  BY <1>5 DEF MovedLots, Arrived, Brought
<1>7. e.in.account \in Accounts /\ e.in.asset \in Assets
  BY DEF KeyOf, Keys
<1> HIDE DEF N, order, moved, a, g
<1>8. \A n \in N : LET lot == moved[n]
                   IN  /\ lot \in LotSet /\ LotType(lot)
                       /\ lot.account = e.in.account /\ lot.asset = e.in.asset /\ lot.acquired = arrives
                       /\ lot.remaining = a[order[n]] /\ lot.left = g[order[n]]
                       /\ lot.quantity = a[order[n]]
  <2> SUFFICES ASSUME NEW n \in N
               PROVE  LET lot == moved[n]
                      IN  /\ lot \in LotSet /\ LotType(lot)
                          /\ lot.account = e.in.account /\ lot.asset = e.in.asset /\ lot.acquired = arrives
                          /\ lot.remaining = a[order[n]] /\ lot.left = g[order[n]]
                          /\ lot.quantity = a[order[n]]
    OBVIOUS
  <2>1. a[order[n]] \in Nat /\ (Known(g[order[n]]) => g[order[n]] \in Nat)
    BY <1>4, <1>5
  <2>2. moved[n].quantity = a[order[n]]
    BY <1>6 DEF NewLot
  <2> QED
    BY <1>6, <1>7, <2>1, <2>2, NewLotKeeps
<1>9. GoodLots(moved)
  <2>1. moved = [n \in 1..Cardinality(S) |-> moved[n]]
    BY <1>3, <1>6 DEF moved, MovedLots, N, order
  <2>2. moved \in [1..Cardinality(S) -> LotSet]
    BY <1>3, <1>8, <2>1
  <2>3. moved \in Seq(LotSet)
    BY <1>3, <2>2
  <2> QED
    BY <1>6, <1>8, <2>3 DEF GoodLots
<1>10. Uniform(moved, KeyOf(e.in), arrives)
  BY <1>6, <1>8 DEF Uniform, KeyOf
<1>11. IsFiniteSet(N) /\ \A n \in N : Rem(moved)[n] = a[order[n]] /\ Left(moved)[n] = g[order[n]]
  BY <1>6, <1>8, <1>9, LotFacts
<1>12. Numbers(a, S) /\ Numbers(Rem(moved), N)
  <2>1. \A n \in N : Rem(moved)[n] \in Int
    BY <1>6, <1>9, LotNumbers
  <2> QED
    BY <1>2, <1>4, <1>11, <2>1 DEF Numbers
<1>13. SumOf(Rem(moved), N) = SumOf(a, S)
  BY <1>3, <1>11, <1>12, SumRenamed
<1>14. Total(Q) = SumOf(a, S)
  <2>1. DOMAIN Q = N /\ \A n \in N : Q[n] = Rem(moved)[n]
    BY <1>6, <1>8, <1>11
  <2> HIDE DEF Q
  <2>2. Total(Q) = SumOf(Q, N)
    BY <1>11, <2>1, TotalIs
  <2>3. SumOf(Q, N) = SumOf(Rem(moved), N)
    BY <1>12, <2>1, SumSame
  <2> QED
    BY <1>13, <2>2, <2>3
<1>15. AllKnown(moved) <=> AllPriced(pieces)
  <2>1. AllPriced(pieces) => AllKnown(moved)
    BY <1>4, <1>5, <1>6, <1>8 DEF AllKnown, AllPriced
  <2>2. ASSUME AllKnown(moved), NEW i \in S
        PROVE  Known(pieces[i].cost)
    <3>1. PICK n \in N : order[n] = i
      BY <1>3 DEF Renames
    <3>2. Known(g[order[n]])
      BY <1>6, <1>8, <2>2 DEF AllKnown
    <3> QED
      BY <1>4, <3>1, <3>2
  <2> QED
    BY <2>1, <2>2 DEF AllPriced
<1>16. ASSUME AllPriced(pieces)
       PROVE  Carrying(moved) = SumOf(g, S)
  <2>1. Numbers(g, S)
    BY <1>2, <1>4, <1>16 DEF Numbers, AllPriced
  <2>2. Numbers(Left(moved), N)
    <3>1. \A n \in N : Left(moved)[n] \in Int
      BY <1>6, <1>9, LotNumbers
    <3> QED
      BY <1>11, <3>1 DEF Numbers
  <2>3. SumOf(Left(moved), N) = SumOf(g, S)
    BY <1>3, <1>11, <2>1, <2>2, SumRenamed
  <2> QED
    BY <1>6, <2>3 DEF Carrying
<1> QED
  BY <1>6, <1>9, <1>10, <1>13, <1>14, <1>15, <1>16 DEF moved, a, g

\* What arrives adds to what the book says is held, and brings the cost along.
LEMMA CarryKeeps ==
    ASSUME NEW b, GoodBook(b), NEW e, Amounts(e), NEW pieces, Pieces(pieces),
           Quantity(pieces) <= e.out.quantity, e.out.quantity > 0 => KeyOf(e.in) \in Keys,
           NEW arrives \in Int
    PROVE  LET c == Carry(b, e, pieces, arrives)
           IN  /\ GoodBook(c)
               /\ Adds(b, c, e.in, e.in.quantity, arrives)
               /\ \A k \in Keys : Net(c, k) = Net(b, k) + Part(k, e.in, e.in.quantity)
               /\ Whole(c) => /\ Whole(b)
                              /\ Balance(c) = Balance(b) + SumOf(Brought(e, pieces), DOMAIN pieces)
<1> DEFINE S == DOMAIN pieces
           moved == MovedLots(e, pieces, arrives)
           created == SumOf(Arrived(e, pieces), S)
           brought == SumOf(Brought(e, pieces), S)
           lots == IF S = {} THEN b.lots ELSE Flushed(b.lots) \o moved
           warned == \E n \in DOMAIN moved : ~Known(moved[n].cost)
           rounds == \E i \in S : \/ Rounds(pieces[i].quantity, e.in.quantity, e.out.quantity)
                                  \/ Known(pieces[i].cost)
                                     /\ Rounds(pieces[i].cost, e.in.quantity, e.out.quantity)
           carried == [b EXCEPT !.lots = lots, !.warned = @ \/ warned, !.rounds = @ \/ rounds]
           c == Carry(b, e, pieces, arrives)
<1>1. created \in Nat /\ created <= e.in.quantity /\ (S # {} => e.out.quantity > 0)
  BY ArrivedBound
<1>2. e.in.quantity \in Nat /\ (e.in.quantity > 0 => KeyOf(e.in) \in Keys)
  BY DEF Amounts
<1>3. Total([n \in DOMAIN moved |-> moved[n].quantity]) = created
  <2>1. CASE S # {}
    BY <1>1, <2>1, MovedKeeps
  <2>2. CASE S = {}
    <3>1. DOMAIN moved = {}
      <4>1. IsFiniteSet(S) /\ Cardinality(S) = 0
        BY <2>2, FS_EmptySet, Zenon
      <4>2. DOMAIN moved = 1..Cardinality(S)
        BY <4>1, InOrder DEF MovedLots
      <4> QED
        BY <4>1, <4>2
    <3> DEFINE f == [n \in DOMAIN moved |-> moved[n].quantity]
    <3>2. DOMAIN f = {}
      BY <3>1
    <3> HIDE DEF f
    <3>3. Total(f) = SumOf(f, DOMAIN f)
      <4>1. IsFiniteSet(DOMAIN f)
        BY <3>2, FS_EmptySet, Zenon
      <4> QED
        BY <4>1, TotalIs
    <3>4. Total(f) = SumOf(f, {})
      BY <3>2, <3>3, Zenon
    <3>5. created = SumOf(Arrived(e, pieces), {})
      BY <2>2, Zenon
    <3> QED
      BY <3>4, <3>5, SumEmpty DEF f
  <2> QED
    BY <2>1, <2>2
<1>4. c = Credit(carried, e.in, e.in.quantity - created, Unknown, arrives)
  BY <1>3 DEF Carry, MovedLots
<1>5. /\ DOMAIN carried = Fields
      /\ carried.lots = lots /\ carried.missing = b.missing
      /\ carried.entered = b.entered /\ carried.spent = b.spent
      /\ carried.warned = (b.warned \/ warned) /\ carried.rounds = (b.rounds \/ rounds)
      /\ carried.status = b.status
  <2>1. DOMAIN b = Fields
    BY DEF GoodBook
  <2> HIDE DEF lots, warned, rounds
  <2> QED
    BY <2>1 DEF Fields
<1>6. GoodLots(b.lots) /\ GoodLots(Flushed(b.lots))
  BY FlushKeeps DEF GoodBook
<1>7. warned \in BOOLEAN /\ rounds \in BOOLEAN
  OBVIOUS
<1> HIDE DEF carried, warned, rounds, c
<1>8. /\ GoodLots(lots)
      /\ \A k \in Keys : \A D : Stock(lots, k, D) = Stock(b.lots, k, D)
                               + IF k = KeyOf(e.in) /\ arrives \in D THEN created ELSE 0
      /\ AllKnown(lots) => AllKnown(b.lots) /\ Carrying(lots) = Carrying(b.lots) + brought
  <2>1. CASE S = {}
    <3>1. created = SumOf(Arrived(e, pieces), {}) /\ brought = SumOf(Brought(e, pieces), {})
      BY <2>1, Zenon
    <3>2. created = 0 /\ brought = 0 /\ lots = b.lots
      BY <2>1, <3>1, SumEmpty
    <3> HIDE DEF lots, created, brought
    <3>3. \A k \in Keys : \A D : Stock(b.lots, k, D) = Stock(b.lots, k, D)
                                  + IF k = KeyOf(e.in) /\ arrives \in D THEN 0 ELSE 0
      BY <1>6, StockIsNat
    <3>4. Carrying(b.lots) = Carrying(b.lots) + 0
      BY BookFacts
    <3> QED
      BY <1>6, <3>2, <3>3, <3>4
  <2>2. CASE S # {}
    <3>1. KeyOf(e.in) \in Keys
      BY <1>1, <2>2
    <3>2. /\ GoodLots(moved) /\ Uniform(moved, KeyOf(e.in), arrives)
          /\ SumOf(Rem(moved), DOMAIN moved) = created
          /\ AllKnown(moved) <=> AllPriced(pieces)
          /\ AllPriced(pieces) => Carrying(moved) = brought
      BY <2>2, <3>1, MovedKeeps
    <3>3. lots = Flushed(b.lots) \o moved
      BY <2>2
    <3> HIDE DEF lots, moved, created, brought
    <3>4. /\ GoodLots(lots)
          /\ \A k, D : Stock(lots, k, D) = Stock(Flushed(b.lots), k, D) + Stock(moved, k, D)
          /\ AllKnown(lots) <=> AllKnown(Flushed(b.lots)) /\ AllKnown(moved)
          /\ Carrying(lots) = Carrying(Flushed(b.lots)) + Carrying(moved)
      BY <1>6, <3>2, <3>3, ConcatKeeps
    <3>5. /\ \A k, D : Stock(Flushed(b.lots), k, D) = Stock(b.lots, k, D)
          /\ AllKnown(Flushed(b.lots)) <=> AllKnown(b.lots)
          /\ Carrying(Flushed(b.lots)) = Carrying(b.lots)
      BY <1>6, FlushKeeps
    <3>6. \A k \in Keys : \A D : Stock(moved, k, D)
                                  = IF k = KeyOf(e.in) /\ arrives \in D THEN created ELSE 0
      <4>1. \A k \in Keys : \A D : Stock(moved, k, D) = IF k = KeyOf(e.in) /\ arrives \in D
                                  THEN SumOf(Rem(moved), DOMAIN moved) ELSE 0
        BY <3>1, <3>2, UniformStock
      <4> QED
        BY <3>2, <4>1
    <3> QED
      BY <3>2, <3>4, <3>5, <3>6
  <2> QED
    BY <2>1, <2>2
<1> HIDE DEF lots, created, brought
<1>9. GoodBook(carried)
  BY <1>5, <1>7, <1>8 DEF GoodBook
<1>10. \A k \in Keys : Net(carried, k) = Net(b, k) + IF k = KeyOf(e.in) THEN created ELSE 0
  <2> SUFFICES ASSUME NEW k \in Keys
               PROVE  Net(carried, k) = Net(b, k) + IF k = KeyOf(e.in) THEN created ELSE 0
    OBVIOUS
  <2>1. Stock(b.lots, k, Int) \in Nat /\ b.missing[k] \in Nat
    BY BookFacts
  <2>2. Stock(carried.lots, k, Int) = Stock(b.lots, k, Int) + IF k = KeyOf(e.in) THEN created ELSE 0
    BY <1>5, <1>8
  <2> QED
    BY <1>1, <1>5, <2>1, <2>2 DEF Net
<1>11. ASSUME Whole(carried)
       PROVE  Whole(b) /\ Balance(carried) = Balance(b) + brought
  <2>1. AllKnown(lots) /\ \A k \in Keys : b.missing[k] = 0
    BY <1>5, <1>11 DEF Whole
  <2>2. AllKnown(b.lots) /\ Carrying(carried.lots) = Carrying(b.lots) + brought
    BY <1>5, <1>8, <2>1
  <2>3. Carrying(b.lots) \in Int /\ b.entered \in Int /\ b.spent \in Int /\ Carrying(carried.lots) \in Int
    BY <1>9, BookFacts
  <2>4. brought \in Int
    <3>1. AllPriced(pieces)
      <4>1. CASE S = {}
        BY <4>1 DEF AllPriced
      <4>2. CASE S # {}
        <5>1. KeyOf(e.in) \in Keys
          BY <1>1, <4>2
        <5>2. GoodLots(moved) /\ (AllKnown(moved) <=> AllPriced(pieces))
          BY <4>2, <5>1, MovedKeeps
        <5>3. lots = Flushed(b.lots) \o moved
          BY <4>2 DEF lots
        <5> HIDE DEF moved
        <5> QED
          BY <1>6, <2>1, <5>2, <5>3, ConcatKeeps
      <4> QED
        BY <4>1, <4>2
    <3>2. Numbers(Brought(e, pieces), S)
      <4>1. \A i \in S : Brought(e, pieces)[i] \in Nat
        BY <1>1, <3>1, PieceArrives DEF AllPriced
      <4> QED
        BY <4>1 DEF Numbers, Pieces
    <3> QED
      BY <3>2, SumAny DEF brought
  <2>5. Balance(carried) = Balance(b) + brought
    BY <1>5, <2>2, <2>3, <2>4 DEF Balance
  <2> QED
    BY <2>1, <2>2, <2>5 DEF Whole
<1> DEFINE rest == e.in.quantity - created
<1>12. rest \in Int /\ (rest > 0 => KeyOf(e.in) \in Keys)
  BY <1>1, <1>2
<1>13. /\ GoodBook(c) /\ Keeps(carried, c)
       /\ \A k \in Keys : Net(c, k) = Net(carried, k) + Part(k, e.in, AtLeast0(rest))
  <2>1. IsCost(Unknown) /\ Enters(e.in, rest)
    BY <1>12 DEF IsCost, Enters, Known
  <2>2. c = Credit(carried, e.in, rest, Unknown, arrives)
    BY <1>4
  <2> HIDE DEF rest, c, carried
  <2> QED
    BY <1>9, <2>1, <2>2, CreditKeeps DEF Gets
<1>14. Adds(b, c, e.in, e.in.quantity, arrives)
  <2>1. Enters(e.in, rest) /\ IsCost(Unknown)
    BY <1>12 DEF IsCost, Enters, Known
  <2>2. c = Credit(carried, e.in, rest, Unknown, arrives)
    BY <1>4
  <2>3. AtLeast0(rest) = e.in.quantity - created
    BY <1>1, <1>2 DEF AtLeast0
  <2> HIDE DEF rest, c, carried
  <2>4. Adds(carried, c, e.in, AtLeast0(rest), arrives)
    BY <1>9, <2>1, <2>2, CreditAdds
  <2>5. ASSUME NEW k \in Keys, NEW D
        PROVE  Stock(c.lots, k, D) = Stock(b.lots, k, D)
                  + IF arrives \in D THEN Part(k, e.in, e.in.quantity) ELSE 0
    <3>1. Stock(b.lots, k, D) \in Nat
      BY <1>6, StockIsNat
    <3>2. Stock(carried.lots, k, D) = Stock(b.lots, k, D)
             + IF k = KeyOf(e.in) /\ arrives \in D THEN created ELSE 0
      BY <1>5, <1>8
    <3>3. Stock(c.lots, k, D) = Stock(carried.lots, k, D)
             + IF arrives \in D THEN Part(k, e.in, e.in.quantity - created) ELSE 0
      BY <2>3, <2>4 DEF Adds
    <3> QED
      BY <1>1, <1>2, <3>1, <3>2, <3>3 DEF Part
  <2>6. c.missing = b.missing /\ (b.rounds => c.rounds)
    BY <1>5, <2>4 DEF Adds
  <2> QED
    BY <2>5, <2>6 DEF Adds
<1>15. \A k \in Keys : Net(c, k) = Net(b, k) + Part(k, e.in, e.in.quantity)
  <2> SUFFICES ASSUME NEW k \in Keys
               PROVE  Net(c, k) = Net(b, k) + Part(k, e.in, e.in.quantity)
    OBVIOUS
  <2>1. Net(b, k) \in Int
    BY BookFacts
  <2> HIDE DEF c, carried
  <2>2. Net(c, k) = Net(carried, k) + Part(k, e.in, AtLeast0(rest))
    BY <1>13
  <2>3. Net(carried, k) = Net(b, k) + Part(k, e.in, created)
    BY <1>10 DEF Part
  <2>4. AtLeast0(rest) = e.in.quantity - created
    BY <1>1, <1>2 DEF AtLeast0
  <2> QED
    BY <1>1, <1>2, <2>1, <2>2, <2>3, <2>4 DEF Part
<1> QED
  BY <1>11, <1>13, <1>14, <1>15 DEF c, brought, Keeps

\* Costs that are known, or not, combine to such costs.
LEMMA CostsAdd ==
    ASSUME NEW x, IsCost(x), NEW y, IsCost(y)
    PROVE  /\ IsCost(Plus(x, y)) /\ IsCost(Either(x, y))
           /\ AtLeast0(x) \in Nat
           /\ Known(x) => AtLeast0(x) = x
<1> DEFINE z == Plus(x, y)
<1>1. CASE Known(x)
  BY <1>1 DEF IsCost, Plus, Either, AtLeast0, Known, Unknown
<1>2. CASE ~Known(x)
  BY <1>2 DEF IsCost, Plus, Either, AtLeast0, Known, Unknown
<1> QED
  BY <1>1, <1>2

\* The value of an entry is a cost.
LEMMA ValueIs ==
    ASSUME NEW x, EntryType(x)
    PROVE  IsCost(Value(x))
<1> DEFINE n == x.quantity
           p == x.price
<1>1. n \in Nat /\ (Known(p) => p \in Nat)
  BY DEF EntryType, IsCost
<1>2. Value(x) = IF x.asset \in Par \/ n = 0 THEN n ELSE IF Known(p) THEN n * p ELSE Unknown
  BY DEF Value
<1> HIDE DEF n, p
<1>3. Known(p) => n * p \in Nat
  BY <1>1
<1> QED
  BY <1>1, <1>2, <1>3 DEF IsCost, Known

\* A record of realized PnL, or a warning, changes nothing else.
Notes(b, c) == /\ GoodBook(c) /\ Keeps(b, c)
               /\ \A k \in Keys : Net(c, k) = Net(b, k)

\* A record changes nothing else,
LEMMA AddPnlKeeps ==
    ASSUME NEW b, GoodBook(b), NEW category, NEW quantity, NEW covered, NEW proceeds, NEW cost
    PROVE  Notes(b, AddPnl(b, category, quantity, covered, proceeds, cost))
<1> DEFINE c == AddPnl(b, category, quantity, covered, proceeds, cost)
<1>1. /\ DOMAIN c = Fields
      /\ c.lots = b.lots /\ c.missing = b.missing /\ c.entered = b.entered /\ c.spent = b.spent
      /\ c.warned = b.warned /\ c.rounds = b.rounds /\ c.status = b.status
  BY DEF AddPnl, GoodBook, Fields
<1> HIDE DEF c
<1>2. GoodBook(c)
  BY <1>1 DEF GoodBook
<1>3. Keeps(b, c) /\ \A k \in Keys : Net(c, k) = Net(b, k)
  BY <1>1 DEF Keeps, Whole, Balance, Net
<1> QED
  BY <1>2, <1>3 DEF c, Notes

\* and neither does a warning.
LEMMA WarnKeeps ==
    ASSUME NEW b, GoodBook(b)
    PROVE  Notes(b, Warn(b))
<1> DEFINE c == Warn(b)
<1>1. /\ DOMAIN c = Fields
      /\ c.lots = b.lots /\ c.missing = b.missing /\ c.entered = b.entered /\ c.spent = b.spent
      /\ c.warned = TRUE /\ c.rounds = b.rounds /\ c.status = b.status
  BY DEF Warn, GoodBook, Fields
<1> HIDE DEF c
<1>2. GoodBook(c)
  BY <1>1 DEF GoodBook
<1>3. Keeps(b, c) /\ \A k \in Keys : Net(c, k) = Net(b, k)
  BY <1>1 DEF Keeps, Whole, Balance, Net
<1> QED
  BY <1>2, <1>3 DEF c, Notes

\* What is paid leaves the book with its cost,
Pays(b, c, x, quantity) == /\ GoodBook(c) /\ Keeps(b, c)
                           /\ \A k \in Keys : Net(c, k) = Net(b, k) - Part(k, x, quantity)

\* whatever is recorded of it,
LEMMA PaymentKeeps ==
    ASSUME NEW run, NEW b, GoodBook(b), NEW x, NEW quantity, quantity \in Nat, NEW at \in Int
    PROVE  LET d == Debit(run, b, x, quantity, at, "spent")
           IN  Pays(b, d.book, x, quantity) /\ IsCost(KnownCost(d.pieces))
<1> DEFINE use == "spent"
           d == Debit(run, b, x, quantity, at, use)
           gone == CarriedOn(d.pieces, use)
<1> HIDE DEF use
<1>1. /\ GoodBook(d.book) /\ Pieces(d.pieces)
      /\ \A k \in Keys : Net(d.book, k) = Net(b, k) - Part(k, x, quantity)
      /\ Loses(b, d.book, gone)
  <2>1. Takes(b, x, quantity, use, d)
    BY DebitKeeps
  <2> QED
    BY <2>1 DEF Takes
<1> HIDE DEF d
<1>2. IsCost(KnownCost(d.pieces))
  BY <1>1, KnownCostIs DEF IsCost
<1>3. gone = 0
  BY DEF use, CarriedOn
<1>4. Balance(b) - 0 = Balance(b)
  BY BookFacts
<1> HIDE DEF gone
<1>5. Keeps(b, d.book)
  BY <1>1, <1>3, <1>4 DEF Keeps, Loses
<1> QED
  BY <1>1, <1>2, <1>5, Zenon DEF d, use, Pays

\* spent by itself, or
LEMMA SpendKeeps ==
    ASSUME NEW run, NEW b, GoodBook(b), NEW x, x.quantity \in Nat, NEW at \in Int
    PROVE  Pays(b, Spend(run, b, x, at), x, x.quantity)
BY PaymentKeeps DEF Spend

\* recorded as an expense or not.
LEMMA ExpenseKeeps ==
    ASSUME NEW run, NEW b, GoodBook(b), NEW x, x.quantity \in Nat, NEW at \in Int
    PROVE  Pays(b, Expense(run, b, x, at), x, x.quantity)
<1> DEFINE d == Debit(run, b, x, x.quantity, at, "spent")
           c == AddPnl(d.book, "fee", x.quantity, Quantity(d.pieces), 0, KnownCost(d.pieces))
<1>1. x.quantity \in Nat
  OBVIOUS
<1>2. Pays(b, d.book, x, x.quantity)
  BY <1>1, PaymentKeeps
<1> HIDE DEF d
<1>3. Notes(d.book, c)
  BY <1>2, AddPnlKeeps DEF Pays
<1>4. Expense(run, b, x, at) = IF x.quantity = 0 THEN b ELSE c
  BY DEF Expense, d
<1>5. x.quantity = 0 => \A k \in Keys : Net(b, k) = Net(b, k) - Part(k, x, x.quantity)
  BY BookFacts DEF Part
<1> HIDE DEF c
<1> QED
  BY <1>2, <1>3, <1>4, <1>5 DEF Keeps, Pays, Notes

\* The cost that a transfer leaves behind leaves the book.
LEMMA HaircutKeeps ==
    ASSUME NEW b, GoodBook(b), NEW e, NEW cost, IsCost(cost)
    PROVE  LET c == Haircut(b, e, cost)
           IN  /\ GoodBook(c)
               /\ \A k \in Keys : Net(c, k) = Net(b, k)
               /\ Whole(c) => Whole(b) /\ Balance(c) = Balance(b) + AtLeast0(cost)
<1> DEFINE a == AddPnl(b, "fee", FeeAmount(e), FeeAmount(e), 0, cost)
           c == Haircut(b, e, cost)
<1>1. GoodBook(a) /\ Keeps(b, a) /\ \A k \in Keys : Net(a, k) = Net(b, k)
  BY AddPnlKeeps DEF Notes
<1>2. c = [a EXCEPT !.spent = @ + AtLeast0(cost)]
  BY DEF Haircut
<1> HIDE DEF a, c
<1>3. /\ DOMAIN c = Fields
      /\ c.lots = a.lots /\ c.missing = a.missing /\ c.entered = a.entered
      /\ c.spent = a.spent + AtLeast0(cost)
      /\ c.warned = a.warned /\ c.rounds = a.rounds /\ c.status = a.status
  BY <1>1, <1>2 DEF GoodBook, Fields
<1>4. AtLeast0(cost) \in Nat
  BY CostsAdd
<1>5. GoodBook(c)
  BY <1>1, <1>3, <1>4 DEF GoodBook
<1>6. \A k \in Keys : Net(c, k) = Net(a, k)
  BY <1>3 DEF Net
<1>7. Whole(c) => Whole(a)
  BY <1>3 DEF Whole
<1>8. Balance(c) = Balance(a) + AtLeast0(cost)
  BY <1>1, <1>3, <1>4, BookFacts DEF Balance
<1> QED
  BY <1>1, <1>5, <1>6, <1>7, <1>8 DEF Keeps, c

\* A transfer brings no more cost than it takes, and all of it if all arrives.
LEMMA BroughtBound ==
    ASSUME NEW e, Amounts(e), NEW pieces, Pieces(pieces), Quantity(pieces) <= e.out.quantity,
           AllPriced(pieces)
    PROVE  LET taken   == SumOf(Costs(pieces), DOMAIN pieces)
               brought == SumOf(Brought(e, pieces), DOMAIN pieces)
           IN  /\ taken \in Nat /\ brought \in Nat
               /\ e.in.quantity <= e.out.quantity => brought <= taken
               /\ e.in.quantity = e.out.quantity => brought = taken
<1> DEFINE S == DOMAIN pieces
           C == Costs(pieces)
           B == Brought(e, pieces)
           in == e.in.quantity
           out == e.out.quantity
<1>1. IsFiniteSet(S) /\ (S # {} => out > 0)
  BY ArrivedBound DEF Pieces
<1>2. ASSUME NEW i \in S
      PROVE  /\ C[i] = pieces[i].cost /\ C[i] \in Nat /\ B[i] \in Nat
             /\ in <= out => B[i] <= C[i]
             /\ in = out => B[i] = C[i]
  <2>1. Known(pieces[i].cost) /\ pieces[i].cost \in Nat
    BY DEF AllPriced, Pieces
  <2> QED
    BY <1>1, <2>1, PieceArrives DEF Costs
<1> HIDE DEF C, B, in, out
<1>3. SumOf(C, S) \in Nat /\ SumOf(B, S) \in Nat
  BY <1>1, <1>2, SumNat
<1>4. Numbers(C, S) /\ Numbers(B, S)
  BY <1>1, <1>2 DEF Numbers
<1>5. ASSUME in = out
      PROVE  SumOf(B, S) = SumOf(C, S)
  BY <1>2, <1>4, <1>5, SumSame
<1>6. ASSUME in <= out
      PROVE  SumOf(B, S) <= SumOf(C, S)
  <2>1. \A i \in S : B[i] * 1 <= C[i] * 1
    BY <1>2, <1>6
  <2>2. SumOf(B, S) * 1 <= SumOf(C, S) * 1
    BY <1>4, <2>1, SumScaled
  <2> QED
    BY <1>3, <2>2
<1> QED
  BY <1>3, <1>5, <1>6 DEF C, B, in, out

\* What is left behind is what was taken less what arrived.
LEMMA LeftBehind ==
    ASSUME NEW e, Amounts(e), NEW pieces, Pieces(pieces), Quantity(pieces) <= e.out.quantity
    PROVE  LET left    == CostLeftBehind(e, pieces)
               taken   == SumOf(Costs(pieces), DOMAIN pieces)
               brought == SumOf(Brought(e, pieces), DOMAIN pieces)
           IN  /\ IsCost(left)
               /\ AllPriced(pieces) /\ e.in.quantity <= e.out.quantity =>
                     AtLeast0(left) = taken - brought
<1> DEFINE S == DOMAIN pieces
           B == Brought(e, pieces)
           taken == SumOf(Costs(pieces), S)
           brought == SumOf(B, S)
           known == KnownCost(pieces)
           left == CostLeftBehind(e, pieces)
<1>1. Total(B) = brought
  <2>1. IsFiniteSet(DOMAIN B) /\ DOMAIN B = S
    BY DEF Pieces, Brought
  <2> HIDE DEF B
  <2> QED
    BY <2>1, TotalIs
<1>2. left = IF Known(known) THEN AtLeast0(known - brought) ELSE Unknown
  BY <1>1 DEF CostLeftBehind, Brought
<1>3. Known(known) => known \in Nat /\ AllPriced(pieces)
  BY KnownCostIs DEF KnownCost, AllPriced, Known
<1>4. AllPriced(pieces) => /\ taken \in Nat /\ brought \in Nat
                           /\ e.in.quantity <= e.out.quantity => brought <= taken
                           /\ AtLeast0(known) = taken
                           /\ ~Known(known) => S = {}
  BY BroughtBound, KnownCostIs
<1>5. S = {} => taken = 0 /\ brought = 0
  BY SumEmpty
<1> HIDE DEF known, taken, brought, left, S
<1>6. IsCost(left)
  BY <1>2, <1>3, <1>4 DEF IsCost, AtLeast0, Known
<1>7. ASSUME AllPriced(pieces) /\ e.in.quantity <= e.out.quantity
      PROVE  AtLeast0(left) = taken - brought
  <2>1. CASE Known(known)
    BY <1>2, <1>3, <1>4, <1>7, <2>1 DEF AtLeast0
  <2>2. CASE ~Known(known)
    BY <1>2, <1>4, <1>5, <1>7, <2>2 DEF AtLeast0, Unknown
  <2> QED
    BY <2>1, <2>2
<1> QED
  BY <1>6, <1>7 DEF taken, brought, left, S

-----------------------------------------------------------------------------
(* Events. *)

\* What an event changes at an account and asset.
Change(e, k) == Part(k, e.in, e.in.quantity) - Part(k, e.out, e.out.quantity)
                   - IF e.embedded THEN 0 ELSE Part(k, e.fee, e.fee.quantity)

\* A handler leaves a book that follows the event and explains where the cost went.
Follows(b, c, e) == Keeps(b, c) /\ \A k \in Keys : Net(c, k) = Net(b, k) + Change(e, k)
Handles(b, c, e) == GoodBook(c) /\ (Balanced(e) => Follows(b, c, e))

\* The quantities and costs of an event's entries are numbers.
LEMMA EntryFacts ==
    ASSUME NEW e, EventType(e)
    PROVE  /\ EntryType(e.out) /\ EntryType(e.in) /\ EntryType(e.fee)
           /\ e.out.quantity \in Nat /\ e.in.quantity \in Nat /\ e.fee.quantity \in Nat
           /\ IsCost(e.override) /\ IsCost(Value(e.out)) /\ IsCost(Value(e.in)) /\ IsCost(Value(e.fee))
           /\ Amounts(e) /\ Enters(e.in, e.in.quantity)
           /\ SameAssetFee(e) \in Nat /\ NetQuantity(e) \in Int
           /\ NetQuantity(e) > 0 => KeyOf(e.in) \in Keys
<1>1. /\ EntryType(e.out) /\ EntryType(e.in) /\ EntryType(e.fee) /\ IsCost(e.override)
  BY DEF EventType
<1>2. IsCost(Value(e.out)) /\ IsCost(Value(e.in)) /\ IsCost(Value(e.fee))
  BY <1>1, ValueIs
<1>3. e.out.quantity \in Nat /\ e.in.quantity \in Nat /\ e.fee.quantity \in Nat
  BY <1>1 DEF EntryType
<1>4. Amounts(e) /\ Enters(e.in, e.in.quantity)
  BY <1>1, <1>3 DEF Amounts, Enters, EntryType, KeyOf
<1>5. SameAssetFee(e) \in Nat
  BY <1>3 DEF SameAssetFee
<1>6. NetQuantity(e) \in Int /\ (NetQuantity(e) > 0 => KeyOf(e.in) \in Keys)
  BY <1>3, <1>4, <1>5 DEF NetQuantity, Amounts
<1> QED
  BY <1>1, <1>2, <1>3, <1>4, <1>5, <1>6

\* Net and the parts of an event are numbers.
LEMMA ChangeFacts ==
    ASSUME NEW e, EventType(e), NEW b, GoodBook(b), NEW k \in Keys
    PROVE  /\ Net(b, k) \in Int
           /\ Part(k, e.in, e.in.quantity) \in Nat
           /\ Part(k, e.out, e.out.quantity) \in Nat
           /\ Part(k, e.fee, e.fee.quantity) \in Nat
           /\ Change(e, k) \in Int
BY EntryFacts, BookFacts DEF Part, Change

\* What is taken and carried on arrives.
Carries(b, c, e, left) ==
    /\ GoodBook(c) /\ IsCost(left)
    /\ \A k \in Keys : Net(c, k) = Net(b, k) - Part(k, e.out, e.out.quantity)
                                             + Part(k, e.in, e.in.quantity)
    /\ Whole(c) /\ e.in.quantity = e.out.quantity => Whole(b) /\ Balance(c) = Balance(b)
    /\ Whole(c) /\ e.in.quantity <= e.out.quantity =>
          Whole(b) /\ Balance(c) + AtLeast0(left) = Balance(b)

\* A transfer's debit and its carrying on, taken together.
LEMMA CarriedKeeps ==
    ASSUME NEW run, NEW b, GoodBook(b), NEW e, EventType(e), NEW at \in Int, NEW arrives \in Int,
           KeyOf(e.in) \in Keys
    PROVE  LET d == Debit(run, b, e.out, e.out.quantity, at, "carried")
           IN  Carries(b, Carry(d.book, e, d.pieces, arrives), e, CostLeftBehind(e, d.pieces))
<1> DEFINE use == "carried"
           d == Debit(run, b, e.out, e.out.quantity, at, use)
           c == Carry(d.book, e, d.pieces, arrives)
           left == CostLeftBehind(e, d.pieces)
           taken == SumOf(Costs(d.pieces), DOMAIN d.pieces)
           brought == SumOf(Brought(e, d.pieces), DOMAIN d.pieces)
           gone == CarriedOn(d.pieces, use)
<1> HIDE DEF use
<1>1. e.out.quantity \in Nat /\ e.in.quantity \in Nat /\ Amounts(e)
  BY EntryFacts
<1>2. /\ GoodBook(d.book)
      /\ Pieces(d.pieces) /\ Quantity(d.pieces) <= e.out.quantity
      /\ \A k \in Keys : Net(d.book, k) = Net(b, k) - Part(k, e.out, e.out.quantity)
      /\ Whole(d.book) => AllPriced(d.pieces)
      /\ Loses(b, d.book, gone)
  <2>1. Takes(b, e.out, e.out.quantity, use, d)
    BY <1>1, DebitKeeps
  <2> HIDE DEF d
  <2> QED
    BY <2>1 DEF Takes
<1>3. gone = taken
  BY DEF use, CarriedOn
<1> HIDE DEF d, gone
<1>4. Quantity(d.pieces) <= e.out.quantity
  BY <1>2
<1>5. /\ GoodBook(c)
      /\ \A k \in Keys : Net(c, k) = Net(d.book, k) + Part(k, e.in, e.in.quantity)
      /\ Whole(c) => Whole(d.book) /\ Balance(c) = Balance(d.book) + brought
  BY <1>1, <1>2, <1>4, CarryKeeps
<1>6. /\ IsCost(left)
      /\ AllPriced(d.pieces) /\ e.in.quantity <= e.out.quantity => AtLeast0(left) = taken - brought
  BY <1>1, <1>2, <1>4, LeftBehind
<1>7. AllPriced(d.pieces) => /\ taken \in Nat /\ brought \in Nat
                             /\ e.in.quantity = e.out.quantity => brought = taken
  BY <1>1, <1>2, <1>4, BroughtBound
<1>8. Balance(b) \in Int
  BY BookFacts
<1> HIDE DEF c, left, taken, brought
<1>9. \A k \in Keys : Net(c, k) = Net(b, k) - Part(k, e.out, e.out.quantity) + Part(k, e.in, e.in.quantity)
  BY <1>2, <1>5
<1>10. ASSUME Whole(c), e.in.quantity = e.out.quantity
       PROVE  Whole(b) /\ Balance(c) = Balance(b)
  BY <1>2, <1>3, <1>5, <1>7, <1>8, <1>10 DEF Loses
<1>11. ASSUME Whole(c), e.in.quantity <= e.out.quantity
       PROVE  Whole(b) /\ Balance(c) + AtLeast0(left) = Balance(b)
  BY <1>2, <1>3, <1>5, <1>6, <1>7, <1>8, <1>11 DEF Loses
<1> QED
  BY <1>5, <1>6, <1>9, <1>10, <1>11, Zenon DEF c, left, d, use, Carries

\* The costs that the handlers book are costs.
BuyCost(e) ==
    Either(e.override,
           Either(Plus(Value(e.out), IF e.fee.asset = e.in.asset THEN 0 ELSE Value(e.fee)),
                  IF Known(e.in.price) THEN NetQuantity(e) * e.in.price ELSE Unknown))

Gross(e)    == Either(Value(e.in), Value(e.out))
Proceeds(e) == IF Known(Gross(e)) /\ Known(Value(e.fee)) THEN AtLeast0(Gross(e) - Value(e.fee))
               ELSE Unknown

Earnings(e) == IF e.kind = "airdrop" THEN Either(Value(e.in), 0) ELSE Value(e.in)

\* All of them are, once there is something to book them for.
LEMMA CostsBooked ==
    ASSUME NEW e, EventType(e)
    PROVE  /\ NetQuantity(e) > 0 => IsCost(BuyCost(e))
           /\ IsCost(Proceeds(e))
           /\ IsCost(Either(e.override, Value(e.in)))
           /\ IsCost(Either(e.override, Earnings(e)))
<1>1. /\ NetQuantity(e) \in Int /\ EntryType(e.in) /\ IsCost(e.override)
      /\ IsCost(Value(e.in)) /\ IsCost(Value(e.out)) /\ IsCost(Value(e.fee))
  BY EntryFacts
<1>2. NetQuantity(e) > 0 => IsCost(BuyCost(e))
  <2> DEFINE fee   == IF e.fee.asset = e.in.asset THEN 0 ELSE Value(e.fee)
             net   == NetQuantity(e)
             price == IF Known(e.in.price) THEN net * e.in.price ELSE Unknown
  <2>1. IsCost(fee)
    BY <1>1 DEF IsCost
  <2>2. net > 0 => IsCost(price)
    <3> DEFINE p == e.in.price
    <3>1. Known(p) => p \in Nat
      BY <1>1 DEF EntryType, IsCost
    <3> HIDE DEF p, net
    <3>2. net > 0 /\ Known(p) => net * p \in Nat
      BY <1>1, <3>1, Products DEF net
    <3> QED
      BY <3>2 DEF IsCost, Known, p
  <2>3. BuyCost(e) = Either(e.override, Either(Plus(Value(e.out), fee), price))
    BY DEF BuyCost
  <2> HIDE DEF fee, price, net
  <2>4. IsCost(Plus(Value(e.out), fee))
    BY <1>1, <2>1, CostsAdd
  <2>5. net > 0 => IsCost(Either(Plus(Value(e.out), fee), price))
    BY <2>2, <2>4, CostsAdd
  <2> QED
    BY <1>1, <2>3, <2>5, CostsAdd DEF net
<1>3. IsCost(Proceeds(e))
  <2> DEFINE g == Gross(e)
             f == Value(e.fee)
  <2>1. IsCost(g)
    BY <1>1, CostsAdd DEF Gross
  <2>2. Proceeds(e) = IF Known(g) /\ Known(f) THEN AtLeast0(g - f) ELSE Unknown
    BY DEF Proceeds
  <2> HIDE DEF g, f
  <2>3. Known(g) /\ Known(f) => g - f \in Int
    BY <1>1, <2>1 DEF IsCost, f
  <2> QED
    BY <2>2, <2>3 DEF IsCost, AtLeast0, Known
<1>4. IsCost(Earnings(e))
  <2>1. IsCost(0)
    BY DEF IsCost
  <2> QED
    BY <1>1, <2>1, CostsAdd DEF Earnings
<1> QED
  BY <1>1, <1>2, <1>3, <1>4, CostsAdd

\* A fee in the asset received is not consumed,
LEMMA SpendFeeKeeps ==
    ASSUME NEW run, NEW b, GoodBook(b), NEW e, EventType(e), NEW at \in Int
    PROVE  Pays(b, SpendFee(run, b, e, at), e.fee,
                IF e.fee.asset = e.in.asset THEN 0 ELSE e.fee.quantity)
<1>1. e.fee.quantity \in Nat
  BY EntryFacts
<1>2. Pays(b, Spend(run, b, e.fee, at), e.fee, e.fee.quantity)
  BY <1>1, SpendKeeps
<1>3. Pays(b, b, e.fee, 0)
  <2>1. \A k \in Keys : Net(b, k) = Net(b, k) - Part(k, e.fee, 0)
    BY BookFacts DEF Part
  <2> QED
    BY <2>1 DEF Pays, Keeps
<1> QED
  BY <1>2, <1>3 DEF SpendFee

\* but received less of.
LEMMA ReceivedNet ==
    ASSUME NEW e, EventType(e), BalancedTrade(e), NEW k \in Keys
    PROVE  Part(k, e.in, AtLeast0(NetQuantity(e)))
              - Part(k, e.fee, IF e.fee.asset = e.in.asset THEN 0 ELSE e.fee.quantity)
              = Part(k, e.in, e.in.quantity) - Part(k, e.fee, e.fee.quantity)
<1>1. e.in.quantity \in Nat /\ e.fee.quantity \in Nat
  BY EntryFacts
<1>2. CASE e.fee.asset = e.in.asset /\ e.fee.account = e.in.account
  <2>1. NetQuantity(e) = e.in.quantity - e.fee.quantity /\ NetQuantity(e) >= 0
    BY <1>2 DEF BalancedTrade, NetQuantity, SameAssetFee
  <2>2. KeyOf(e.fee) = KeyOf(e.in)
    BY <1>2 DEF KeyOf
  <2> QED
    BY <1>1, <1>2, <2>1, <2>2 DEF Part, AtLeast0
<1>3. CASE ~(e.fee.asset = e.in.asset /\ e.fee.account = e.in.account)
  <2>1. SameAssetFee(e) = 0
    BY <1>3 DEF SameAssetFee
  <2>2. NetQuantity(e) = e.in.quantity /\ AtLeast0(NetQuantity(e)) = e.in.quantity
    BY <1>1, <2>1 DEF NetQuantity, AtLeast0
  <2>3. e.fee.asset = e.in.asset => e.fee.quantity = 0
    BY <2>1 DEF BalancedTrade
  <2> QED
    BY <1>1, <2>2, <2>3 DEF Part
<1> QED
  BY <1>2, <1>3

\* _process_buy: what is paid goes out, and what is left of the purchase after its fee comes in.
LEMMA BoughtHandles ==
    ASSUME NEW run, NEW b, GoodBook(b), NEW e, EventType(e), e.kind = "buy", NEW at \in Int
    PROVE  Handles(b, Bought(run, b, e, at), e)
<1> DEFINE net   == NetQuantity(e)
           cost  == BuyCost(e)
           spent == Spend(run, b, e.out, at)
           paid  == SpendFee(run, spent, e, at)
           c     == Credit(paid, e.in, net, cost, at)
           eaten == IF e.fee.asset = e.in.asset THEN 0 ELSE e.fee.quantity
           whole == Bought(run, b, e, at)
<1>1. whole = IF e.in.quantity = 0 THEN Warn(b) ELSE IF net <= 0 THEN Warn(paid) ELSE c
  BY DEF Bought, BuyCost
<1>2. /\ net \in Int /\ (net > 0 => KeyOf(e.in) \in Keys)
      /\ e.out.quantity \in Nat
  BY EntryFacts
<1>3. Pays(b, spent, e.out, e.out.quantity)
  BY <1>2, SpendKeeps
<1>4. Pays(spent, paid, e.fee, eaten)
  BY <1>3, SpendFeeKeeps DEF Pays
<1>5. net > 0 => IsCost(cost)
  BY CostsBooked
<1>6. net > 0 => Gets(paid, c, e.in, net)
  <2> HIDE DEF cost, paid, net
  <2> QED
    BY <1>2, <1>4, <1>5, CreditKeeps DEF Enters, Pays
<1>7. Notes(b, Warn(b)) /\ Notes(paid, Warn(paid))
  BY <1>4, WarnKeeps DEF Pays
<1> HIDE DEF net, paid, spent, c, eaten, cost, whole
<1>8. GoodBook(whole) /\ Keeps(b, whole)
  BY <1>1, <1>2, <1>3, <1>4, <1>6, <1>7 DEF Pays, Gets, Notes, Keeps
<1>9. ASSUME Balanced(e), NEW k \in Keys
      PROVE  Net(whole, k) = Net(b, k) + Change(e, k)
  <2>1. BalancedTrade(e) /\ ~e.embedded
    BY <1>9 DEF Balanced
  <2>2. /\ Net(b, k) \in Int
        /\ Part(k, e.in, e.in.quantity) \in Nat
        /\ Part(k, e.out, e.out.quantity) \in Nat
        /\ Part(k, e.fee, e.fee.quantity) \in Nat
    BY ChangeFacts
  <2>3. Change(e, k) = Part(k, e.in, e.in.quantity) - Part(k, e.out, e.out.quantity)
                          - Part(k, e.fee, e.fee.quantity)
    BY <2>1 DEF Change
  <2>4. CASE e.in.quantity = 0
    <3>1. e.out.quantity = 0 /\ e.fee.quantity = 0
      BY <2>1, <2>4 DEF BalancedTrade, Absent
    <3>2. Net(whole, k) = Net(b, k)
      BY <1>1, <1>7, <2>4 DEF Notes
    <3> QED
      BY <2>2, <2>3, <2>4, <3>1, <3>2 DEF Part
  <2>5. CASE e.in.quantity # 0
    <3>1. Net(paid, k) = Net(b, k) - Part(k, e.out, e.out.quantity) - Part(k, e.fee, eaten)
      BY <1>3, <1>4 DEF Pays
    <3>2. Net(whole, k) = Net(paid, k) + Part(k, e.in, AtLeast0(net))
      <4>1. CASE net > 0
        BY <1>1, <1>2, <1>6, <2>5, <4>1 DEF Gets
      <4>2. CASE net <= 0
        <5>1. net = 0
          BY <1>2, <2>1, <4>2, EntryFacts DEF BalancedTrade, net, NetQuantity, SameAssetFee
        <5>2. Part(k, e.in, AtLeast0(net)) = 0
          BY <5>1 DEF Part, AtLeast0
        <5>3. Net(paid, k) \in Int
          BY <1>4, BookFacts DEF Pays, Notes
        <5> QED
          BY <1>1, <1>7, <2>5, <4>2, <5>2, <5>3 DEF Notes
      <4> QED
        BY <1>2, <4>1, <4>2
    <3>3. Part(k, e.in, AtLeast0(net)) - Part(k, e.fee, eaten)
             = Part(k, e.in, e.in.quantity) - Part(k, e.fee, e.fee.quantity)
      BY <2>1, ReceivedNet DEF net, eaten
    <3>4. Part(k, e.fee, eaten) \in Int /\ Part(k, e.in, AtLeast0(net)) \in Int
      BY <1>2, EntryFacts DEF Part, eaten, AtLeast0
    <3> QED
      BY <2>2, <2>3, <3>1, <3>2, <3>3, <3>4
  <2> QED
    BY <2>4, <2>5
<1> QED
  BY <1>8, <1>9 DEF Handles, Follows, whole

\* _process_disposal: what is sold goes out, and what is left of the proceeds after the fee comes in.
LEMMA DisposedHandles ==
    ASSUME NEW run, NEW b, GoodBook(b), NEW e, EventType(e), e.kind = "disposal", NEW at \in Int
    PROVE  Handles(b, Disposed(run, b, e, at), e)
<1> DEFINE proceeds == Proceeds(e)
           d     == Debit(run, b, e.out, e.out.quantity, at, "spent")
           noted == AddPnl(d.book, "spot", e.out.quantity, Quantity(d.pieces), proceeds, KnownCost(d.pieces))
           sold  == IF e.out.quantity = 0 THEN b ELSE noted
           paid  == SpendFee(run, sold, e, at)
           net   == NetQuantity(e)
           c     == Credit(paid, e.in, net, proceeds, at)
           eaten == IF e.fee.asset = e.in.asset THEN 0 ELSE e.fee.quantity
           whole == Disposed(run, b, e, at)
<1>1. whole = c
  BY DEF Disposed, Proceeds, Gross
<1>2. /\ net \in Int /\ (net > 0 => KeyOf(e.in) \in Keys)
      /\ e.out.quantity \in Nat
  BY EntryFacts
<1>3. IsCost(proceeds)
  BY CostsBooked
<1>4. Pays(b, d.book, e.out, e.out.quantity)
  BY <1>2, PaymentKeeps
<1>5. Notes(d.book, noted)
  <2> HIDE DEF d, proceeds
  <2> QED
    BY <1>4, AddPnlKeeps DEF Pays
<1> HIDE DEF d, noted
<1>6. Pays(b, sold, e.out, e.out.quantity)
  <2>1. \A k \in Keys : Net(b, k) = Net(b, k) - Part(k, e.out, 0)
    BY BookFacts DEF Part
  <2> QED
    BY <1>4, <1>5, <2>1 DEF Pays, Notes, Keeps
<1>7. Pays(sold, paid, e.fee, eaten)
  BY <1>6, SpendFeeKeeps DEF Pays
<1>8. Gets(paid, c, e.in, net)
  <2> HIDE DEF proceeds, paid, net
  <2> QED
    BY <1>2, <1>3, <1>7, CreditKeeps DEF Enters, Pays
<1> HIDE DEF net, paid, sold, c, eaten, whole
<1>9. GoodBook(c) /\ Keeps(b, c)
  BY <1>6, <1>7, <1>8 DEF Pays, Gets, Keeps
<1>10. ASSUME Balanced(e), NEW k \in Keys
       PROVE  Net(c, k) = Net(b, k) + Change(e, k)
  <2>1. BalancedTrade(e) /\ ~e.embedded
    BY <1>10 DEF Balanced
  <2>2. /\ Net(b, k) \in Int
        /\ Part(k, e.in, e.in.quantity) \in Nat
        /\ Part(k, e.out, e.out.quantity) \in Nat
        /\ Part(k, e.fee, e.fee.quantity) \in Nat
    BY ChangeFacts
  <2>3. Change(e, k) = Part(k, e.in, e.in.quantity) - Part(k, e.out, e.out.quantity)
                          - Part(k, e.fee, e.fee.quantity)
    BY <2>1 DEF Change
  <2>4. Net(c, k) = Net(b, k) - Part(k, e.out, e.out.quantity) - Part(k, e.fee, eaten)
                       + Part(k, e.in, AtLeast0(net))
    BY <1>6, <1>7, <1>8 DEF Pays, Gets
  <2>5. Part(k, e.in, AtLeast0(net)) - Part(k, e.fee, eaten)
           = Part(k, e.in, e.in.quantity) - Part(k, e.fee, e.fee.quantity)
    BY <2>1, ReceivedNet DEF net, eaten
  <2>6. Part(k, e.fee, eaten) \in Int /\ Part(k, e.in, AtLeast0(net)) \in Int
    BY <1>2, EntryFacts DEF Part, eaten, AtLeast0
  <2> QED
    BY <2>2, <2>3, <2>4, <2>5, <2>6
<1> QED
  BY <1>1, <1>9, <1>10 DEF Handles, Follows, whole

\* A transfer that arrives in time moves its cost along; the fee is either what did
\* not arrive, or consumed besides.
LEMMA TransferredHandles ==
    ASSUME NEW run, NEW b, GoodBook(b), NEW e, EventType(e), e.kind = "transfer", NEW at \in Int
    PROVE  LET c == Transferred(run, b, e, at)
           IN  /\ at + e.delay <= AsOf => Handles(b, c, e)
               /\ at + e.delay > AsOf => Notes(b, c)
<1> DEFINE d     == Debit(run, b, e.out, e.out.quantity, at, "carried")
           moved == Carry(d.book, e, d.pieces, at + e.delay)
           left  == CostLeftBehind(e, d.pieces)
           cut   == Haircut(moved, e, left)
           extra == Expense(run, moved, ExtraFee(e), at)
           c     == Transferred(run, b, e, at)
<1>1. c = IF at + e.delay > AsOf THEN Warn(b)
          ELSE IF FeeAmount(e) = 0 THEN moved
          ELSE IF FeeIsEmbedded(e) THEN cut ELSE extra
  BY DEF Transferred
<1>2. /\ e.in.quantity \in Nat /\ e.out.quantity \in Nat /\ e.fee.quantity \in Nat
      /\ e.in.quantity > 0 /\ e.out.quantity > 0 /\ KeyOf(e.in) \in Keys
  BY EntryFacts DEF EventType, EntryType, KeyOf
<1>3. at + e.delay \in Int
  BY DEF EventType
<1>4. Carries(b, moved, e, left)
  BY <1>2, <1>3, CarriedKeeps
<1> HIDE DEF d, moved, left
<1>5. /\ GoodBook(cut)
      /\ \A k \in Keys : Net(cut, k) = Net(moved, k)
      /\ Whole(cut) => Whole(moved) /\ Balance(cut) = Balance(moved) + AtLeast0(left)
  BY <1>4, HaircutKeeps DEF Carries
<1>6. /\ ExtraFee(e).quantity = FeeAmount(e) /\ FeeAmount(e) \in Nat
      /\ KeyOf(ExtraFee(e)) = <<e.out.account, FeeAsset(e)>>
  BY <1>2 DEF ExtraFee, FeeAmount, AtLeast0, KeyOf
<1>7. Pays(moved, extra, ExtraFee(e), FeeAmount(e))
  BY <1>4, <1>6, ExpenseKeeps DEF Carries
<1>8. Notes(b, Warn(b))
  BY WarnKeeps
<1> HIDE DEF cut, extra, c
<1>9. ASSUME at + e.delay <= AsOf
      PROVE  Handles(b, c, e)
  <2>1. c = IF FeeAmount(e) = 0 THEN moved ELSE IF FeeIsEmbedded(e) THEN cut ELSE extra
    BY <1>1, <1>3, <1>9, CostAssumption
  <2>2. GoodBook(c)
    BY <1>4, <1>5, <1>7, <2>1 DEF Carries, Pays
  <2>3. ASSUME Balanced(e)
        PROVE  Keeps(b, c) /\ \A k \in Keys : Net(c, k) = Net(b, k) + Change(e, k)
    <3>1. /\ FeeIsEmbedded(e) \/ e.out.quantity = e.in.quantity
          /\ \/ Absent(e.fee)
             \/ FeeIsEmbedded(e) /\ e.embedded
             \/ ~FeeIsEmbedded(e) /\ ~e.embedded /\ e.fee.account = e.out.account
      <4>1. BalancedTransfer(e)
        BY <1>6, <2>3 DEF Balanced
      <4>2. /\ e.out.quantity \in Nat /\ e.in.quantity \in Nat /\ e.fee.quantity \in Nat
        BY <1>2
      <4> QED
        BY <4>1, <4>2 DEF BalancedTransfer, FeeIsEmbedded, FeeAmount, FeeAsset, AtLeast0, Absent
    <3>2. CASE FeeIsEmbedded(e)
      <4>1. c = cut /\ e.in.quantity <= e.out.quantity
        BY <1>2, <1>6, <2>1, <3>2 DEF FeeIsEmbedded
      <4>2. Keeps(b, c)
        <5>1. AtLeast0(left) \in Nat
          BY <1>4, CostsAdd DEF Carries
        <5> QED
          BY <1>2, <1>4, <1>5, <4>1, <5>1, BookFacts DEF Carries, Keeps
      <4>3. ASSUME NEW k \in Keys
            PROVE  Net(c, k) = Net(b, k) + Change(e, k)
        <5>1. e.embedded \/ Part(k, e.fee, e.fee.quantity) = 0
          BY <3>1, <3>2 DEF Absent, Part
        <5>2. Change(e, k) = Part(k, e.in, e.in.quantity) - Part(k, e.out, e.out.quantity)
          BY <5>1, ChangeFacts DEF Change
        <5>3. Net(c, k) = Net(b, k) - Part(k, e.out, e.out.quantity) + Part(k, e.in, e.in.quantity)
          BY <1>4, <1>5, <4>1 DEF Carries
        <5> QED
          BY <5>2, <5>3, ChangeFacts
      <4> QED
        BY <4>2, <4>3
    <3>3. CASE ~FeeIsEmbedded(e)
      <4>1. e.in.quantity = e.out.quantity
        BY <3>1, <3>3
      <4>2. FeeAmount(e) = e.fee.quantity /\ (FeeAmount(e) > 0 => FeeAsset(e) = e.fee.asset)
        BY <1>2, <4>1 DEF FeeAmount, FeeAsset, AtLeast0
      <4>3. c = IF e.fee.quantity = 0 THEN moved ELSE extra
        BY <2>1, <3>3, <4>2
      <4>4. Keeps(b, moved)
        BY <1>4, <4>1 DEF Carries, Keeps
      <4>5. Keeps(b, c)
        BY <1>7, <4>3, <4>4 DEF Pays, Keeps
      <4>6. ASSUME NEW k \in Keys
            PROVE  Net(c, k) = Net(b, k) + Change(e, k)
        <5>1. Net(moved, k) = Net(b, k) - Part(k, e.out, e.out.quantity) + Part(k, e.in, e.in.quantity)
          BY <1>4 DEF Carries
        <5>2. Net(c, k) = Net(moved, k) - Part(k, e.fee, e.fee.quantity)
          <6>1. CASE e.fee.quantity = 0
            BY <1>4, <4>3, <6>1, BookFacts DEF Carries, Part
          <6>2. CASE e.fee.quantity # 0
            <7>1. KeyOf(ExtraFee(e)) = KeyOf(e.fee)
              BY <1>2, <1>6, <3>1, <3>3, <4>2, <6>2 DEF Absent, KeyOf
            <7> QED
              BY <1>7, <4>2, <4>3, <6>2, <7>1 DEF Pays, Part
          <6> QED
            BY <6>1, <6>2
        <5>3. Change(e, k) = Part(k, e.in, e.in.quantity) - Part(k, e.out, e.out.quantity)
                                - Part(k, e.fee, e.fee.quantity)
          <6>1. ~e.embedded \/ Part(k, e.fee, e.fee.quantity) = 0
            BY <3>1, <3>3 DEF Absent, Part
          <6> QED
            BY <6>1, ChangeFacts DEF Change
        <5> QED
          BY <5>1, <5>2, <5>3, ChangeFacts
      <4> QED
        BY <4>5, <4>6
    <3> QED
      BY <3>2, <3>3
  <2> QED
    BY <2>2, <2>3 DEF Handles, Follows
<1>10. ASSUME at + e.delay > AsOf
       PROVE  Notes(b, c)
  BY <1>1, <1>8, <1>10
<1> QED
  BY <1>9, <1>10 DEF c

\* _process_inline_internal_transfer: as much arrives as was sent, and the fee is consumed besides.
LEMMA TransferredInlineHandles ==
    ASSUME NEW run, NEW b, GoodBook(b), NEW e, EventType(e), e.kind = "inline", NEW at \in Int
    PROVE  Handles(b, TransferredInline(run, b, e, at), e)
<1> DEFINE d     == Debit(run, b, e.out, e.out.quantity, at, "carried")
           moved == Carry(d.book, e, d.pieces, at)
           left  == CostLeftBehind(e, d.pieces)
           extra == Expense(run, moved, e.fee, at)
           c     == TransferredInline(run, b, e, at)
<1>1. c = IF e.out.quantity = 0 \/ e.in.quantity = 0 THEN Warn(b) ELSE extra
  BY DEF TransferredInline
<1>2. e.in.quantity \in Nat /\ e.out.quantity \in Nat /\ e.fee.quantity \in Nat
  BY EntryFacts
<1>3. Notes(b, Warn(b))
  BY WarnKeeps
<1>4. CASE e.out.quantity = 0 \/ e.in.quantity = 0
  <2>1. ~Balanced(e)
    BY <1>4 DEF Balanced, Absent
  <2> HIDE DEF c
  <2> QED
    BY <1>1, <1>3, <1>4, <2>1 DEF Handles, Notes, c
<1>5. CASE ~(e.out.quantity = 0 \/ e.in.quantity = 0)
  <2>1. KeyOf(e.in) \in Keys
    BY <1>2, <1>5, EntryFacts DEF Amounts
  <2>2. Carries(b, moved, e, left)
    BY <2>1, CarriedKeeps
  <2> HIDE DEF moved, left
  <2>3. Pays(moved, extra, e.fee, e.fee.quantity)
    BY <1>2, <2>2, ExpenseKeeps DEF Carries
  <2> HIDE DEF extra, c
  <2>4. c = extra
    BY <1>1, <1>5
  <2>5. ASSUME Balanced(e)
        PROVE  Follows(b, c, e)
    <3>1. e.in.quantity = e.out.quantity /\ ~e.embedded
      BY <2>5 DEF Balanced
    <3>2. Keeps(b, c)
      BY <2>2, <2>3, <2>4, <3>1 DEF Carries, Pays, Keeps
    <3>3. ASSUME NEW k \in Keys
          PROVE  Net(c, k) = Net(b, k) + Change(e, k)
      <4>1. Net(c, k) = Net(b, k) - Part(k, e.out, e.out.quantity) + Part(k, e.in, e.in.quantity)
                           - Part(k, e.fee, e.fee.quantity)
        BY <2>2, <2>3, <2>4, ChangeFacts DEF Carries, Pays
      <4> QED
        BY <3>1, <4>1, ChangeFacts DEF Change
    <3> QED
      BY <3>2, <3>3 DEF Follows
  <2> QED
    BY <2>3, <2>4, <2>5 DEF Handles, Pays, c
<1> QED
  BY <1>4, <1>5

\* _process_external_inflow: what is received comes in.
LEMMA ReceivedHandles ==
    ASSUME NEW run, NEW b, GoodBook(b), NEW e, EventType(e), e.kind = "inflow", NEW at \in Int
    PROVE  Handles(b, Received(run, b, e, at), e)
<1> DEFINE cost == Either(e.override, Value(e.in))
           c == Received(run, b, e, at)
<1>1. c = Credit(b, e.in, e.in.quantity, cost, at)
  BY DEF Received
<1>2. IsCost(cost)
  BY CostsBooked
<1>3. Enters(e.in, e.in.quantity) /\ e.in.quantity \in Nat
  BY EntryFacts
<1> HIDE DEF cost, c
<1>4. Gets(b, c, e.in, e.in.quantity)
  BY <1>1, <1>2, <1>3, CreditKeeps
<1>5. ASSUME Balanced(e), NEW k \in Keys
      PROVE  Net(c, k) = Net(b, k) + Change(e, k)
  <2>1. Absent(e.out) /\ Absent(e.fee)
    BY <1>5 DEF Balanced
  <2>2. Net(c, k) = Net(b, k) + Part(k, e.in, e.in.quantity)
    BY <1>3, <1>4 DEF Gets, AtLeast0
  <2>3. Part(k, e.out, e.out.quantity) = 0 /\ Part(k, e.fee, e.fee.quantity) = 0
    BY <2>1 DEF Absent, Part
  <2> QED
    BY <2>2, <2>3, ChangeFacts DEF Change
<1> QED
  BY <1>4, <1>5 DEF Handles, Follows, Gets, c

\* _process_external_outflow: what is sent goes out, and so does its fee.
LEMMA WithdrawnHandles ==
    ASSUME NEW run, NEW b, GoodBook(b), NEW e, EventType(e), e.kind = "outflow", NEW at \in Int
    PROVE  Handles(b, Withdrawn(run, b, e, at), e)
<1> DEFINE s == Spend(run, b, e.out, at)
           x == Expense(run, s, e.fee, at)
           c == Warn(x)
<1>1. e.out.quantity \in Nat /\ e.fee.quantity \in Nat
  BY EntryFacts
<1>2. Pays(b, s, e.out, e.out.quantity)
  BY <1>1, SpendKeeps
<1> HIDE DEF s
<1>3. Pays(s, x, e.fee, e.fee.quantity)
  <2>1. GoodBook(s)
    BY <1>2 DEF Pays
  <2> QED
    BY <1>1, <2>1, ExpenseKeeps
<1> HIDE DEF x
<1>4. Notes(x, c)
  BY <1>3, WarnKeeps DEF Pays
<1> HIDE DEF c
<1>5. GoodBook(c) /\ Keeps(b, c)
  BY <1>2, <1>3, <1>4 DEF Pays, Notes, Keeps
<1>6. ASSUME Balanced(e), NEW k \in Keys
      PROVE  Net(c, k) = Net(b, k) + Change(e, k)
  <2>1. Absent(e.in) /\ ~e.embedded
    BY <1>6 DEF Balanced
  <2>2. Net(c, k) = Net(b, k) - Part(k, e.out, e.out.quantity) - Part(k, e.fee, e.fee.quantity)
    BY <1>2, <1>3, <1>4 DEF Pays, Notes
  <2>3. Part(k, e.in, e.in.quantity) = 0
    BY <2>1 DEF Absent, Part
  <2> QED
    BY <2>1, <2>2, <2>3, ChangeFacts DEF Change
<1>7. Withdrawn(run, b, e, at) = c
  BY DEF Withdrawn, c, x, s
<1> QED
  BY <1>5, <1>6, <1>7 DEF Handles, Follows

\* _process_fee_event: the fee goes out.
LEMMA FeePaidHandles ==
    ASSUME NEW run, NEW b, GoodBook(b), NEW e, EventType(e), e.kind = "fee", NEW at \in Int
    PROVE  Handles(b, FeePaid(run, b, e, at), e)
<1> DEFINE d    == Debit(run, b, e.fee, e.fee.quantity, at, "spent")
           cost == Either(Value(e.fee), KnownCost(d.pieces))
           c    == AddPnl(d.book, "fee", e.fee.quantity, Quantity(d.pieces), 0, IF Known(cost) THEN cost ELSE 0)
<1>1. e.fee.quantity \in Nat
  BY EntryFacts
<1>2. Pays(b, d.book, e.fee, e.fee.quantity)
  BY <1>1, PaymentKeeps
<1> HIDE DEF d
<1>3. Notes(d.book, c)
  BY <1>2, AddPnlKeeps DEF Pays
<1> HIDE DEF c
<1>4. GoodBook(c) /\ Keeps(b, c)
  BY <1>2, <1>3 DEF Pays, Notes, Keeps
<1>5. ASSUME Balanced(e), NEW k \in Keys
      PROVE  Net(c, k) = Net(b, k) + Change(e, k)
  <2>1. Absent(e.in) /\ Absent(e.out) /\ ~e.embedded
    BY <1>5 DEF Balanced
  <2>2. Net(c, k) = Net(b, k) - Part(k, e.fee, e.fee.quantity)
    BY <1>2, <1>3 DEF Pays, Notes
  <2>3. Part(k, e.in, e.in.quantity) = 0 /\ Part(k, e.out, e.out.quantity) = 0
    BY <2>1 DEF Absent, Part
  <2> QED
    BY <2>1, <2>2, <2>3, ChangeFacts DEF Change
<1>6. FeePaid(run, b, e, at) = c
  BY DEF FeePaid, c, d
<1> QED
  BY <1>4, <1>5, <1>6 DEF Handles, Follows

\* _process_income: what is earned comes in, and income that is negative goes out.
LEMMA IncomeHandles ==
    ASSUME NEW run, NEW b, GoodBook(b), NEW e, EventType(e), e.kind \in {"income", "airdrop"},
           NEW at \in Int
    PROVE  Handles(b, Income(run, b, e, at), e)
<1> DEFINE value    == Earnings(e)
           cost     == Either(e.override, value)
           credited == Credit(b, e.in, e.in.quantity, cost, at)
           earned   == AddPnl(credited, "income", e.in.quantity, e.in.quantity, value, 0)
           d        == Debit(run, b, e.out, e.out.quantity, at, "spent")
           paid     == AddPnl(d.book, "income", e.out.quantity, Quantity(d.pieces), 0,
                              Either(Value(e.out), KnownCost(d.pieces)))
           c        == Income(run, b, e, at)
<1>1. c = IF e.in.quantity > 0 THEN earned ELSE paid
  BY DEF Income, Earnings
<1>2. /\ e.out.quantity \in Nat /\ e.in.quantity \in Nat
      /\ Enters(e.in, e.in.quantity)
  BY EntryFacts
<1>3. IsCost(cost)
  BY CostsBooked
<1> HIDE DEF cost
<1>4. Gets(b, credited, e.in, e.in.quantity)
  BY <1>2, <1>3, CreditKeeps
<1> HIDE DEF credited
<1>5. Notes(credited, earned)
  BY <1>4, AddPnlKeeps DEF Gets
<1>6. Pays(b, d.book, e.out, e.out.quantity)
  BY <1>2, PaymentKeeps
<1> HIDE DEF d
<1>7. Notes(d.book, paid)
  BY <1>6, AddPnlKeeps DEF Pays
<1> HIDE DEF earned, paid, c
<1>8. GoodBook(c) /\ Keeps(b, c)
  BY <1>1, <1>4, <1>5, <1>6, <1>7 DEF Gets, Pays, Notes, Keeps
<1>9. ASSUME Balanced(e), NEW k \in Keys
      PROVE  Net(c, k) = Net(b, k) + Change(e, k)
  <2>1. Absent(e.fee) /\ (Absent(e.in) \/ Absent(e.out))
    BY <1>9 DEF Balanced
  <2>2. Part(k, e.fee, e.fee.quantity) = 0
    BY <2>1 DEF Absent, Part
  <2>3. CASE e.in.quantity > 0
    <3>1. Part(k, e.out, e.out.quantity) = 0
      BY <2>1, <2>3 DEF Absent, Part
    <3>2. Net(c, k) = Net(b, k) + Part(k, e.in, e.in.quantity)
      BY <1>1, <1>2, <1>4, <1>5, <2>3 DEF Gets, Notes, AtLeast0
    <3> QED
      BY <2>2, <3>1, <3>2, ChangeFacts DEF Change
  <2>4. CASE ~(e.in.quantity > 0)
    <3>1. Part(k, e.in, e.in.quantity) = 0
      BY <1>2, <2>4 DEF Part
    <3>2. Net(c, k) = Net(b, k) - Part(k, e.out, e.out.quantity)
      BY <1>1, <1>6, <1>7, <2>4 DEF Pays, Notes
    <3> QED
      BY <2>2, <3>1, <3>2, ChangeFacts DEF Change
  <2> QED
    BY <2>3, <2>4
<1> QED
  BY <1>8, <1>9 DEF Handles, Follows, c

\* A repayment goes out with its fee.
LEMMA RepaidHandles ==
    ASSUME NEW run, NEW b, GoodBook(b), NEW e, EventType(e), e.kind = "repay", NEW at \in Int
    PROVE  Handles(b, Repaid(run, b, e, at), e)
<1> DEFINE s == Spend(run, b, e.out, at)
           c == Spend(run, s, e.fee, at)
<1>1. e.out.quantity \in Nat /\ e.fee.quantity \in Nat
  BY EntryFacts
<1>2. Pays(b, s, e.out, e.out.quantity)
  BY <1>1, SpendKeeps
<1> HIDE DEF s
<1>3. Pays(s, c, e.fee, e.fee.quantity)
  <2>1. GoodBook(s)
    BY <1>2 DEF Pays
  <2> QED
    BY <1>1, <2>1, SpendKeeps
<1> HIDE DEF c
<1>4. GoodBook(c) /\ Keeps(b, c)
  BY <1>2, <1>3 DEF Pays, Keeps
<1>5. ASSUME Balanced(e), NEW k \in Keys
      PROVE  Net(c, k) = Net(b, k) + Change(e, k)
  <2>1. Absent(e.in) /\ ~e.embedded
    BY <1>5 DEF Balanced
  <2>2. Net(c, k) = Net(b, k) - Part(k, e.out, e.out.quantity) - Part(k, e.fee, e.fee.quantity)
    BY <1>2, <1>3 DEF Pays
  <2>3. Part(k, e.in, e.in.quantity) = 0
    BY <2>1 DEF Absent, Part
  <2> QED
    BY <2>1, <2>2, <2>3, ChangeFacts DEF Change
<1>6. Repaid(run, b, e, at) = c
  BY DEF Repaid, c, s
<1> QED
  BY <1>4, <1>5, <1>6 DEF Handles, Follows

\* What is borrowed comes in, at an unknown cost.
LEMMA BorrowedHandles ==
    ASSUME NEW run, NEW b, GoodBook(b), NEW e, EventType(e), e.kind = "borrow", NEW at \in Int
    PROVE  Handles(b, Borrowed(run, b, e, at), e)
<1> DEFINE g == Credit(b, e.in, e.in.quantity, Unknown, at)
           c == Warn(g)
<1>1. IsCost(Unknown)
  BY DEF IsCost, Known
<1>2. Enters(e.in, e.in.quantity) /\ e.in.quantity \in Nat
  BY EntryFacts
<1>3. Gets(b, g, e.in, e.in.quantity)
  BY <1>1, <1>2, CreditKeeps
<1> HIDE DEF g
<1>4. Notes(g, c)
  BY <1>3, WarnKeeps DEF Gets
<1> HIDE DEF c
<1>5. GoodBook(c) /\ Keeps(b, c)
  BY <1>3, <1>4 DEF Gets, Notes, Keeps
<1>6. ASSUME Balanced(e), NEW k \in Keys
      PROVE  Net(c, k) = Net(b, k) + Change(e, k)
  <2>1. Absent(e.out) /\ Absent(e.fee)
    BY <1>6 DEF Balanced
  <2>2. Net(c, k) = Net(b, k) + Part(k, e.in, e.in.quantity)
    BY <1>2, <1>3, <1>4 DEF Gets, Notes, AtLeast0
  <2>3. Part(k, e.out, e.out.quantity) = 0 /\ Part(k, e.fee, e.fee.quantity) = 0
    BY <2>1 DEF Absent, Part
  <2> QED
    BY <2>2, <2>3, ChangeFacts DEF Change
<1>7. Borrowed(run, b, e, at) = c
  BY DEF Borrowed, c, g
<1> QED
  BY <1>5, <1>6, <1>7 DEF Handles, Follows

\* _process_manual_adjustment: an adjustment comes in, goes out, or both.
LEMMA AdjustedHandles ==
    ASSUME NEW run, NEW b, GoodBook(b), NEW e, EventType(e), e.kind = "adjust", NEW at \in Int
    PROVE  Handles(b, Adjusted(run, b, e, at), e)
<1> DEFINE cost == Either(e.override, Value(e.in))
           g == Credit(b, e.in, e.in.quantity, cost, at)
           c == Spend(run, g, e.out, at)
<1>1. IsCost(cost)
  BY CostsBooked
<1>2. Enters(e.in, e.in.quantity) /\ e.in.quantity \in Nat /\ e.out.quantity \in Nat
  BY EntryFacts
<1> HIDE DEF cost
<1>3. Gets(b, g, e.in, e.in.quantity)
  BY <1>1, <1>2, CreditKeeps
<1> HIDE DEF g
<1>4. Pays(g, c, e.out, e.out.quantity)
  BY <1>2, <1>3, SpendKeeps DEF Gets
<1> HIDE DEF c
<1>5. GoodBook(c) /\ Keeps(b, c)
  BY <1>3, <1>4 DEF Gets, Pays, Keeps
<1>6. ASSUME Balanced(e), NEW k \in Keys
      PROVE  Net(c, k) = Net(b, k) + Change(e, k)
  <2>1. Absent(e.fee)
    BY <1>6 DEF Balanced
  <2>2. Net(c, k) = Net(b, k) + Part(k, e.in, e.in.quantity) - Part(k, e.out, e.out.quantity)
    BY <1>2, <1>3, <1>4, ChangeFacts DEF Gets, Pays, AtLeast0
  <2>3. Part(k, e.fee, e.fee.quantity) = 0
    BY <2>1 DEF Absent, Part
  <2> QED
    BY <2>2, <2>3, ChangeFacts DEF Change
<1>7. Adjusted(run, b, e, at) = c
  BY DEF Adjusted, c, g, cost
<1> QED
  BY <1>5, <1>6, <1>7 DEF Handles, Follows

\* _process_derivative only records PnL.
LEMMA SettledNotes ==
    ASSUME NEW run, NEW b, GoodBook(b), NEW e, NEW at
    PROVE  Notes(b, Settled(run, b, e, at))
<1> DEFINE cost == Plus(Value(e.out), Value(e.fee))
           x == AddPnl(b, "derivative", 0, 0, Value(e.in), cost)
           y == AddPnl(b, "derivative", 0, 0, Unknown, Unknown)
<1>1. Notes(b, x) /\ Notes(b, y)
  BY AddPnlKeeps
<1>2. Settled(run, b, e, at) = IF Known(Value(e.in)) /\ Known(cost) THEN x ELSE Warn(y)
  BY DEF Settled
<1> HIDE DEF x, y
<1>3. Notes(y, Warn(y))
  BY <1>1, WarnKeeps DEF Notes
<1>4. Notes(b, Warn(y))
  BY <1>1, <1>3 DEF Notes, Keeps
<1> QED
  BY <1>1, <1>2, <1>4

-----------------------------------------------------------------------------
(* Steps. *)

\* A run's book says what the accounts hold, and where the cost went.
Agrees(b) == /\ \A k \in Keys : Net(b, k) = held[k]
             /\ Whole(b) => Balance(b) = 0

\* The inductive invariant: every book adds up.
Reconciled ==
    /\ clock \in 1..(AsOf + 2)
    /\ held \in [Keys -> Int]
    /\ \A r \in Runs : GoodBook(books[r])
    /\ LedgerIsBalanced => \A r \in Runs : Live(r) => Agrees(books[r])

\* An empty book is one that adds up to nothing.
LEMMA EmptyBookGood ==
    /\ GoodBook(EmptyBook) /\ GoodBook(FailedBook)
    /\ \A k \in Keys : Net(EmptyBook, k) = 0
    /\ Balance(EmptyBook) = 0
<1>1. GoodLots(<<>>)
  BY DEF GoodLots
<1>2. GoodBook(EmptyBook)
  BY <1>1 DEF GoodBook, EmptyBook, Fields
<1>3. GoodBook(FailedBook)
  <2>1. /\ DOMAIN FailedBook = Fields /\ FailedBook.lots = <<>>
        /\ FailedBook.missing = [k \in Keys |-> 0] /\ FailedBook.entered = 0 /\ FailedBook.spent = 0
        /\ FailedBook.warned = FALSE /\ FailedBook.rounds = FALSE /\ FailedBook.status = "FAILED"
    BY DEF FailedBook, EmptyBook, Fields
  <2> DEFINE b == FailedBook
  <2> HIDE DEF b
  <2>2. b.missing \in [Keys -> Nat]
    BY <2>1 DEF b
  <2>3. GoodLots(b.lots)
    BY <1>1, <2>1 DEF b
  <2>4. b.warned \in BOOLEAN /\ b.rounds \in BOOLEAN
    BY <2>1 DEF b
  <2>5. GoodBook(b)
    BY <2>1, <2>2, <2>3, <2>4 DEF GoodBook, b
  <2> QED
    BY <2>5 DEF b
<1>4. ASSUME NEW k \in Keys
      PROVE  Net(EmptyBook, k) = 0
  <2>1. EmptyBook.lots = <<>> /\ EmptyBook.missing[k] = 0
    BY DEF EmptyBook
  <2>2. LotsOf(<<>>, k, Int) = {}
    BY DEF LotsOf
  <2>3. Stock(<<>>, k, Int) = 0
    BY <2>2, SumEmpty, Zenon DEF Stock
  <2> QED
    BY <2>1, <2>3 DEF Net
<1>5. Balance(EmptyBook) = 0
  <2>1. EmptyBook.lots = <<>> /\ EmptyBook.entered = 0 /\ EmptyBook.spent = 0
    BY DEF EmptyBook
  <2>2. DOMAIN <<>> = {}
    OBVIOUS
  <2>3. Carrying(<<>>) = 0
    BY <2>2, SumEmpty, Zenon DEF Carrying
  <2> QED
    BY <2>1, <2>3 DEF Balance
<1> QED
  BY <1>2, <1>3, <1>4, <1>5

\* Runs begin with empty books.
LEMMA InitReconciled ==
    ASSUME Init
    PROVE  Reconciled
<1>1. clock \in 1..(AsOf + 2) /\ held \in [Keys -> Int] /\ \A k \in Keys : held[k] = 0
  BY CostAssumption DEF Init
<1>2. \A r \in Runs : books[r] = EmptyBook
  BY DEF Init
<1> QED
  BY <1>1, <1>2, EmptyBookGood DEF Reconciled, Agrees

\* The books that the runs are handed for an event, and what the accounts then hold.
Posted(handled, holdings) ==
    /\ holdings \in [Keys -> Int]
    /\ \A r \in Runs : GoodBook(handled[r])
    /\ LedgerIsBalanced => \A r \in Runs :
          /\ Keeps(books[r], handled[r])
          /\ \A k \in Keys : Net(handled[r], k) = Net(books[r], k) + (holdings[k] - held[k])

\* Posting such books keeps every book adding up: a run that fails starts over, empty.
LEMMA PostReconciles ==
    ASSUME Reconciled, NEW handled, NEW holdings, Posted(handled, holdings), Post(handled, holdings)
    PROVE  Reconciled'
<1>1. /\ clock <= AsOf /\ clock' = clock + 1 /\ held' = holdings
      /\ \A r \in Runs : books'[r] = IF books[r].status = "FAILED" \/ handled[r].status = "FAILED"
                                     THEN FailedBook ELSE handled[r]
  BY DEF Post
<1>2. clock' \in 1..(AsOf + 2) /\ held' \in [Keys -> Int]
  BY <1>1, CostAssumption DEF Reconciled, Posted
<1>3. \A r \in Runs : GoodBook(books'[r])
  BY <1>1, EmptyBookGood DEF Posted
<1>4. ASSUME LedgerIsBalanced, NEW r \in Runs, books'[r].status # "FAILED"
      PROVE  Agrees(books[r])'
  <2>1. books'[r] = handled[r] /\ books[r].status # "FAILED"
    BY <1>1, <1>4 DEF FailedBook, EmptyBook
  <2>2. Agrees(books[r])
    BY <1>4, <2>1 DEF Reconciled, Live
  <2>3. Whole(handled[r]) => Balance(handled[r]) = 0
    BY <1>4, <2>2 DEF Posted, Agrees, Keeps
  <2>4. ASSUME NEW k \in Keys
        PROVE  Net(handled[r], k) = held'[k]
    <3>1. Net(handled[r], k) = held[k] + (holdings[k] - held[k])
      BY <1>4, <2>2 DEF Posted, Agrees
    <3> QED
      BY <1>1, <3>1 DEF Reconciled, Posted
  <2> QED
    BY <2>1, <2>3, <2>4 DEF Agrees
<1> QED
  BY <1>2, <1>3, <1>4 DEF Reconciled, Live

\* Closing a book stores its rows and sets its status.
LEMMA ClosedKeeps ==
    ASSUME NEW b, GoodBook(b)
    PROVE  Notes(b, Closed(b)) /\ Closed(b).status # "FAILED"
<1> DEFINE c == Closed(b)
<1>1. /\ DOMAIN c = Fields
      /\ c.lots = Flushed(b.lots) /\ c.missing = b.missing /\ c.entered = b.entered
      /\ c.spent = b.spent /\ c.warned = b.warned /\ c.rounds = b.rounds
      /\ c.status \in {"PARTIAL", "SUCCEEDED"}
  BY DEF Closed, GoodBook, Fields
<1> HIDE DEF c
<1>2. GoodLots(b.lots)
  BY DEF GoodBook
<1>3. /\ GoodLots(c.lots)
      /\ \A k, D : Stock(c.lots, k, D) = Stock(b.lots, k, D)
      /\ AllKnown(c.lots) <=> AllKnown(b.lots)
      /\ Carrying(c.lots) = Carrying(b.lots)
  BY <1>1, <1>2, FlushKeeps
<1>4. GoodBook(c)
  BY <1>1, <1>3 DEF GoodBook
<1>5. Keeps(b, c) /\ \A k \in Keys : Net(c, k) = Net(b, k)
  BY <1>1, <1>3 DEF Keeps, Whole, Balance, Net
<1> QED
  BY <1>1, <1>4, <1>5 DEF c, Notes

\* The end of the runs changes no inventory.
LEMMA FinishReconciles ==
    ASSUME Reconciled, Finish
    PROVE  Reconciled'
<1>1. /\ clock' = AsOf + 2 /\ held' = held
      /\ \A r \in Runs : books'[r] = IF books[r].status = "FAILED" THEN books[r] ELSE Closed(books[r])
  BY DEF Finish
<1>2. \A r \in Runs : GoodBook(books[r]) /\ Notes(books[r], Closed(books[r]))
  BY ClosedKeeps DEF Reconciled
<1>3. \A r \in Runs : GoodBook(books'[r])
  BY <1>1, <1>2 DEF Notes
<1>4. ASSUME LedgerIsBalanced, NEW r \in Runs, books'[r].status # "FAILED"
      PROVE  Agrees(books[r])'
  <2>1. books[r].status # "FAILED" /\ books'[r] = Closed(books[r])
    BY <1>1, <1>4
  <2>2. Agrees(books[r])
    BY <1>4, <2>1 DEF Reconciled, Live
  <2> QED
    BY <1>1, <1>2, <2>1, <2>2 DEF Notes, Agrees, Keeps
<1> QED
  BY <1>1, <1>3, <1>4, CostAssumption DEF Reconciled, Live

\* Books that all follow an event are fit to be posted for it,
LEMMA HandledPosted ==
    ASSUME Reconciled, NEW e \in Ledger, NEW handled,
           \A r \in Runs : Handles(books[r], handled[r], e)
    PROVE  Posted(handled, Held(e))
<1>1. EventType(e)
  BY CostAssumption
<1>2. ASSUME NEW k \in Keys
      PROVE  Held(e)[k] = held[k] + Change(e, k) /\ Held(e)[k] \in Int /\ held[k] \in Int
  <2>1. held[k] \in Int
    BY DEF Reconciled
  <2>2. /\ Part(k, e.in, e.in.quantity) \in Nat
        /\ Part(k, e.out, e.out.quantity) \in Nat
        /\ Part(k, e.fee, e.fee.quantity) \in Nat
    BY <1>1, EntryFacts DEF Part
  <2>3. Held(e)[k] = held[k] + Part(k, e.in, e.in.quantity) - Part(k, e.out, e.out.quantity)
                       - (IF e.embedded THEN 0 ELSE Part(k, e.fee, e.fee.quantity))
    BY DEF Held, Part, KeyOf
  <2> QED
    BY <2>1, <2>2, <2>3 DEF Change
<1>3. Held(e) \in [Keys -> Int]
  <2>1. Held(e) = [k \in Keys |-> Held(e)[k]]
    BY DEF Held
  <2> QED
    BY <1>2, <2>1
<1>4. \A r \in Runs : GoodBook(handled[r])
  BY DEF Handles
<1>5. ASSUME LedgerIsBalanced, NEW r \in Runs
      PROVE  /\ Keeps(books[r], handled[r])
             /\ \A k \in Keys : Net(handled[r], k) = Net(books[r], k) + (Held(e)[k] - held[k])
  <2>1. Follows(books[r], handled[r], e)
    BY <1>5 DEF LedgerIsBalanced, Handles
  <2>2. ASSUME NEW k \in Keys
        PROVE  Net(handled[r], k) = Net(books[r], k) + (Held(e)[k] - held[k])
    <3>1. Change(e, k) \in Int
      BY <1>1, ChangeFacts DEF Reconciled
    <3>2. Held(e)[k] - held[k] = Change(e, k)
      BY <1>2, <3>1
    <3> QED
      BY <2>1, <3>2 DEF Follows
  <2> QED
    BY <2>1, <2>2 DEF Follows
<1> QED
  BY <1>3, <1>4, <1>5 DEF Posted

\* and so are books that take no notice of one that changes no holding.
LEMMA NotedPosted ==
    ASSUME Reconciled, NEW handled, \A r \in Runs : Notes(books[r], handled[r])
    PROVE  Posted(handled, held)
<1>1. held \in [Keys -> Int]
  BY DEF Reconciled
<1>2. \A r \in Runs : GoodBook(handled[r]) /\ Keeps(books[r], handled[r])
  BY DEF Notes
<1>3. ASSUME NEW r \in Runs, NEW k \in Keys
      PROVE  Net(handled[r], k) = Net(books[r], k) + (held[k] - held[k])
  <2>1. Net(handled[r], k) = Net(books[r], k)
    BY DEF Notes
  <2>2. Net(books[r], k) \in Int
    BY BookFacts DEF Reconciled
  <2> QED
    BY <1>1, <2>1, <2>2
<1> QED
  BY <1>1, <1>2, <1>3 DEF Posted

\* Every event leaves the books reconciled.
LEMMA EventReconciles ==
    ASSUME Reconciled, NEW e \in Ledger,
           \/ Buy(e) \/ Disposal(e) \/ InternalTransfer(e) \/ InlineInternalTransfer(e)
           \/ ExternalInflow(e) \/ ExternalOutflow(e) \/ FeeEvent(e) \/ IncomeEvent(e)
           \/ Repay(e) \/ Borrow(e) \/ ManualAdjustment(e) \/ Derivative(e)
    PROVE  Reconciled'
<1>1. EventType(e) /\ clock \in Int /\ \A r \in Runs : GoodBook(books[r])
  BY CostAssumption DEF Reconciled
<1>2. ASSUME NEW handled, NEW holdings, Post(handled, holdings), Posted(handled, holdings)
      PROVE  Reconciled'
  BY <1>2, PostReconciles
<1>3. ASSUME NEW handled, \A r \in Runs : Handles(books[r], handled[r], e), Post(handled, Held(e))
      PROVE  Reconciled'
  BY <1>2, <1>3, HandledPosted
<1>4. ASSUME Buy(e)
      PROVE  Reconciled'
  <2> DEFINE handled == [r \in Runs |-> Bought(r, books[r], e, clock)]
  <2>1. Post(handled, Held(e))
    BY <1>4 DEF Buy
  <2>2. \A r \in Runs : Handles(books[r], Bought(r, books[r], e, clock), e)
    BY <1>1, <1>4, BoughtHandles DEF Buy
  <2>3. \A r \in Runs : Handles(books[r], handled[r], e)
    BY <2>2
  <2> HIDE DEF handled
  <2> QED
    BY <1>3, <2>1, <2>3
<1>5. ASSUME Disposal(e)
      PROVE  Reconciled'
  <2> DEFINE handled == [r \in Runs |-> Disposed(r, books[r], e, clock)]
  <2>1. Post(handled, Held(e))
    BY <1>5 DEF Disposal
  <2>2. \A r \in Runs : Handles(books[r], Disposed(r, books[r], e, clock), e)
    BY <1>1, <1>5, DisposedHandles DEF Disposal
  <2>3. \A r \in Runs : Handles(books[r], handled[r], e)
    BY <2>2
  <2> HIDE DEF handled
  <2> QED
    BY <1>3, <2>1, <2>3
<1>6. ASSUME InlineInternalTransfer(e)
      PROVE  Reconciled'
  <2> DEFINE handled == [r \in Runs |-> TransferredInline(r, books[r], e, clock)]
  <2>1. Post(handled, Held(e))
    BY <1>6 DEF InlineInternalTransfer
  <2>2. \A r \in Runs : Handles(books[r], TransferredInline(r, books[r], e, clock), e)
    BY <1>1, <1>6, TransferredInlineHandles DEF InlineInternalTransfer
  <2>3. \A r \in Runs : Handles(books[r], handled[r], e)
    BY <2>2
  <2> HIDE DEF handled
  <2> QED
    BY <1>3, <2>1, <2>3
<1>7. ASSUME ExternalInflow(e)
      PROVE  Reconciled'
  <2> DEFINE handled == [r \in Runs |-> Received(r, books[r], e, clock)]
  <2>1. Post(handled, Held(e))
    BY <1>7 DEF ExternalInflow
  <2>2. \A r \in Runs : Handles(books[r], Received(r, books[r], e, clock), e)
    BY <1>1, <1>7, ReceivedHandles DEF ExternalInflow
  <2>3. \A r \in Runs : Handles(books[r], handled[r], e)
    BY <2>2
  <2> HIDE DEF handled
  <2> QED
    BY <1>3, <2>1, <2>3
<1>8. ASSUME ExternalOutflow(e)
      PROVE  Reconciled'
  <2> DEFINE handled == [r \in Runs |-> Withdrawn(r, books[r], e, clock)]
  <2>1. Post(handled, Held(e))
    BY <1>8 DEF ExternalOutflow
  <2>2. \A r \in Runs : Handles(books[r], Withdrawn(r, books[r], e, clock), e)
    BY <1>1, <1>8, WithdrawnHandles DEF ExternalOutflow
  <2>3. \A r \in Runs : Handles(books[r], handled[r], e)
    BY <2>2
  <2> HIDE DEF handled
  <2> QED
    BY <1>3, <2>1, <2>3
<1>9. ASSUME FeeEvent(e)
      PROVE  Reconciled'
  <2> DEFINE handled == [r \in Runs |-> FeePaid(r, books[r], e, clock)]
  <2>1. Post(handled, Held(e))
    BY <1>9 DEF FeeEvent
  <2>2. \A r \in Runs : Handles(books[r], FeePaid(r, books[r], e, clock), e)
    BY <1>1, <1>9, FeePaidHandles DEF FeeEvent
  <2>3. \A r \in Runs : Handles(books[r], handled[r], e)
    BY <2>2
  <2> HIDE DEF handled
  <2> QED
    BY <1>3, <2>1, <2>3
<1>10. ASSUME IncomeEvent(e)
      PROVE  Reconciled'
  <2> DEFINE handled == [r \in Runs |-> Income(r, books[r], e, clock)]
  <2>1. Post(handled, Held(e))
    BY <1>10 DEF IncomeEvent
  <2>2. \A r \in Runs : Handles(books[r], Income(r, books[r], e, clock), e)
    BY <1>1, <1>10, IncomeHandles DEF IncomeEvent
  <2>3. \A r \in Runs : Handles(books[r], handled[r], e)
    BY <2>2
  <2> HIDE DEF handled
  <2> QED
    BY <1>3, <2>1, <2>3
<1>11. ASSUME Repay(e)
      PROVE  Reconciled'
  <2> DEFINE handled == [r \in Runs |-> Repaid(r, books[r], e, clock)]
  <2>1. Post(handled, Held(e))
    BY <1>11 DEF Repay
  <2>2. \A r \in Runs : Handles(books[r], Repaid(r, books[r], e, clock), e)
    BY <1>1, <1>11, RepaidHandles DEF Repay
  <2>3. \A r \in Runs : Handles(books[r], handled[r], e)
    BY <2>2
  <2> HIDE DEF handled
  <2> QED
    BY <1>3, <2>1, <2>3
<1>12. ASSUME Borrow(e)
      PROVE  Reconciled'
  <2> DEFINE handled == [r \in Runs |-> Borrowed(r, books[r], e, clock)]
  <2>1. Post(handled, Held(e))
    BY <1>12 DEF Borrow
  <2>2. \A r \in Runs : Handles(books[r], Borrowed(r, books[r], e, clock), e)
    BY <1>1, <1>12, BorrowedHandles DEF Borrow
  <2>3. \A r \in Runs : Handles(books[r], handled[r], e)
    BY <2>2
  <2> HIDE DEF handled
  <2> QED
    BY <1>3, <2>1, <2>3
<1>13. ASSUME ManualAdjustment(e)
      PROVE  Reconciled'
  <2> DEFINE handled == [r \in Runs |-> Adjusted(r, books[r], e, clock)]
  <2>1. Post(handled, Held(e))
    BY <1>13 DEF ManualAdjustment
  <2>2. \A r \in Runs : Handles(books[r], Adjusted(r, books[r], e, clock), e)
    BY <1>1, <1>13, AdjustedHandles DEF ManualAdjustment
  <2>3. \A r \in Runs : Handles(books[r], handled[r], e)
    BY <2>2
  <2> HIDE DEF handled
  <2> QED
    BY <1>3, <2>1, <2>3
<1>14. ASSUME InternalTransfer(e)
      PROVE  Reconciled'
  <2> DEFINE handled == [r \in Runs |-> Transferred(r, books[r], e, clock)]
             intime == clock + e.delay <= AsOf
  <2>1. Post(handled, IF intime THEN Held(e) ELSE held) /\ e.kind = "transfer"
    BY <1>14 DEF InternalTransfer
  <2>2. \A r \in Runs : /\ intime => Handles(books[r], Transferred(r, books[r], e, clock), e)
                        /\ clock + e.delay > AsOf => Notes(books[r], Transferred(r, books[r], e, clock))
    BY <1>1, <2>1, TransferredHandles
  <2>3. \A r \in Runs : /\ intime => Handles(books[r], handled[r], e)
                        /\ ~intime => Notes(books[r], handled[r])
    <3>1. ~intime => clock + e.delay > AsOf
      BY <1>1, CostAssumption DEF EventType
    <3> QED
      BY <2>2, <3>1
  <2> HIDE DEF handled, intime
  <2>4. CASE intime
    BY <1>3, <2>1, <2>3, <2>4
  <2>5. CASE ~intime
    BY <1>2, <2>1, <2>3, <2>5, NotedPosted
  <2> QED
    BY <2>4, <2>5
<1>15. ASSUME Derivative(e)
      PROVE  Reconciled'
  <2> DEFINE handled == [r \in Runs |-> Settled(r, books[r], e, clock)]
  <2>1. Post(handled, held)
    BY <1>15 DEF Derivative
  <2>2. \A r \in Runs : Notes(books[r], Settled(r, books[r], e, clock))
    BY <1>1, SettledNotes
  <2>3. \A r \in Runs : Notes(books[r], handled[r])
    BY <2>2
  <2> HIDE DEF handled
  <2> QED
    BY <1>2, <2>1, <2>3, NotedPosted
<1> QED
  BY <1>4, <1>5, <1>6, <1>7, <1>8, <1>9, <1>10, <1>11, <1>12, <1>13, <1>14, <1>15

\* Every step keeps the books adding up,
LEMMA StepReconciles ==
    ASSUME Reconciled, [Next]_vars
    PROVE  Reconciled'
<1>1. CASE Finish
  BY <1>1, FinishReconciles
<1>2. CASE UNCHANGED vars
  BY <1>2 DEF vars, Reconciled, Live, Agrees
<1>3. CASE \E e \in Ledger :
              \/ Buy(e) \/ Disposal(e) \/ InternalTransfer(e) \/ InlineInternalTransfer(e)
              \/ ExternalInflow(e) \/ ExternalOutflow(e) \/ FeeEvent(e) \/ IncomeEvent(e)
              \/ Repay(e) \/ Borrow(e) \/ ManualAdjustment(e) \/ Derivative(e)
  BY <1>3, EventReconciles
<1> QED
  BY <1>1, <1>2, <1>3 DEF Next

\* so they always do.
LEMMA AlwaysReconciled == Spec => []Reconciled
<1>1. Init => Reconciled
  BY InitReconciled
<1>2. Reconciled /\ [Next]_vars => Reconciled'
  BY StepReconciles
<1> QED
  BY <1>1, <1>2, PTL DEF Spec

-----------------------------------------------------------------------------
(* What the books prove. *)

\* What is known of a book covers its part of the type invariant.
LEMMA BookType ==
    ASSUME NEW b, GoodBook(b)
    PROVE  /\ b.status \in {"RUNNING", "SUCCEEDED", "PARTIAL", "FAILED"}
           /\ b.warned \in BOOLEAN
           /\ b.missing \in [Keys -> Nat]
           /\ \A i \in DOMAIN b.lots : LotType(b.lots[i])
BY DEF GoodBook, GoodLots

\* The books, lots and clock of CostBasisService.calculate are always of their type: for
\* every ledger and every set of runs, no lot ever holds more than it was created with,
\* or keeps more of its cost.
THEOREM TypeCorrect == Spec => []TypeOK
<1>1. Reconciled => TypeOK
  BY BookType DEF Reconciled, TypeOK
<1> QED
  BY <1>1, AlwaysReconciled, PTL

\* The lots of an account and asset, whenever they were acquired,
LEMMA KeyLotsAre ==
    ASSUME NEW r \in Runs, GoodBook(books[r]), NEW k
    PROVE  /\ KeyLots(r, k) = LotsOf(books[r].lots, k, Int)
           /\ KeyLots(r, k) \subseteq DOMAIN books[r].lots
<1>1. \A i \in DOMAIN books[r].lots : books[r].lots[i].acquired \in Int
  BY LotFacts DEF GoodBook
<1> QED
  BY <1>1 DEF KeyLots, LotsOf

\* hold the run's inventory of it.
LEMMA Inventory ==
    ASSUME NEW r \in Runs, GoodBook(books[r]), NEW k
    PROVE  Remaining(books[r].lots, KeyLots(r, k)) = Stock(books[r].lots, k, Int)
<1>1. KeyLots(r, k) = LotsOf(books[r].lots, k, Int) /\ KeyLots(r, k) \subseteq DOMAIN books[r].lots
  BY KeyLotsAre
<1>2. GoodLots(books[r].lots)
  BY DEF GoodBook
<1>3. Remaining(books[r].lots, KeyLots(r, k)) = SumOf(Rem(books[r].lots), KeyLots(r, k))
  BY <1>1, <1>2, RemainingIs
<1> QED
  BY <1>1, <1>3, Zenon DEF Stock

\* No double debit and no ghost balance: on every ledger whose events have a meaning for
\* their handlers, and with every method, the inventory that _process_event rebuilds is
\* what the accounts hold, plus what the run reported it could not find.
THEOREM InventoryFollows == LedgerIsBalanced => (Spec => []InventoryIsHoldings)
<1> SUFFICES ASSUME LedgerIsBalanced
             PROVE  Spec => []InventoryIsHoldings
  OBVIOUS
<1>1. Reconciled => InventoryIsHoldings
  <2> SUFFICES ASSUME Reconciled, NEW r \in Runs, Live(r), NEW k \in Keys
               PROVE  Remaining(books[r].lots, KeyLots(r, k)) = held[k] + books[r].missing[k]
    BY DEF InventoryIsHoldings
  <2>1. GoodBook(books[r]) /\ Agrees(books[r]) /\ held[k] \in Int
    BY DEF Reconciled
  <2>2. Stock(books[r].lots, k, Int) \in Nat /\ books[r].missing[k] \in Nat
    BY <2>1, BookFacts
  <2>3. Stock(books[r].lots, k, Int) - books[r].missing[k] = held[k]
    BY <2>1 DEF Agrees, Net
  <2>4. Remaining(books[r].lots, KeyLots(r, k)) = Stock(books[r].lots, k, Int)
    BY <2>1, Inventory
  <2> QED
    BY <2>1, <2>2, <2>3, <2>4
<1> QED
  BY <1>1, AlwaysReconciled, PTL

\* On every such ledger, _consume, the transfers and the fees neither make nor lose cost: a
\* run that found everything carries on what entered its books and was not spent.
THEOREM CostConserved == LedgerIsBalanced => (Spec => []CostIsConserved)
<1> SUFFICES ASSUME LedgerIsBalanced
             PROVE  Spec => []CostIsConserved
  OBVIOUS
<1>1. Reconciled => CostIsConserved
  <2> SUFFICES ASSUME Reconciled, NEW r \in Runs, Live(r), Complete(r)
               PROVE  Total([i \in DOMAIN books[r].lots |-> books[r].lots[i].left])
                         = books[r].entered - books[r].spent
    BY DEF CostIsConserved
  <2>1. GoodBook(books[r]) /\ Agrees(books[r])
    BY DEF Reconciled
  <2>2. Whole(books[r])
    BY DEF Complete, Whole, AllKnown
  <2>3. Balance(books[r]) = 0
    BY <2>1, <2>2 DEF Agrees
  <2>4. /\ Carrying(books[r].lots) \in Int
        /\ books[r].entered \in Int /\ books[r].spent \in Int
    BY <2>1, BookFacts
  <2>5. Total(Left(books[r].lots)) = Carrying(books[r].lots)
    <3>1. DOMAIN Left(books[r].lots) = DOMAIN books[r].lots
      BY DEF Left
    <3>2. IsFiniteSet(DOMAIN books[r].lots)
      BY <2>1, LotFacts DEF GoodBook
    <3>3. Total(Left(books[r].lots)) = SumOf(Left(books[r].lots), DOMAIN Left(books[r].lots))
      BY <3>1, <3>2, TotalIs
    <3> QED
      BY <3>1, <3>3, Zenon DEF Carrying
  <2>6. Total([i \in DOMAIN books[r].lots |-> books[r].lots[i].left]) = Carrying(books[r].lots)
    BY <2>5 DEF Left
  <2> QED
    BY <2>3, <2>4, <2>6 DEF Balance
<1> QED
  BY <1>1, AlwaysReconciled, PTL

-----------------------------------------------------------------------------
(* Positions. *)

\* The quantity and cost of a position, as its lots back them.
Worth(lots, k)  == [i \in LotsOf(lots, k, Int) |-> AtLeast0(lots[i].left)]
Priced(lots, k) == \A i \in LotsOf(lots, k, Int) :
                      lots[i].remaining > 0 /\ lots[i].acquired <= AsOf => Known(lots[i].left)

Backs(lots, k, quantity, cost) == /\ quantity <= Stock(lots, k, Int)
                                  /\ Priced(lots, k)
                                  /\ cost <= Total(Worth(lots, k))

\* The open lots are those with something left in them, and hold no more than the inventory.
LEMMA OpenStock ==
    ASSUME NEW b, GoodBook(b), NEW k \in Keys
    PROVE  /\ OpenLots(b, k) \subseteq LotsOf(b.lots, k, Int)
           /\ LotsOf(b.lots, k, Int) \subseteq DOMAIN b.lots
           /\ \A i \in LotsOf(b.lots, k, Int) :
                 b.lots[i].remaining > 0 /\ b.lots[i].acquired <= AsOf => i \in OpenLots(b, k)
           /\ Remaining(b.lots, OpenLots(b, k)) \in Nat
           /\ Remaining(b.lots, OpenLots(b, k)) <= Stock(b.lots, k, Int)
<1> DEFINE S == OpenLots(b, k)
           L == LotsOf(b.lots, k, Int)
<1>1. GoodLots(b.lots)
  BY DEF GoodBook
<1>2. \A i \in DOMAIN b.lots : /\ LotType(b.lots[i]) /\ b.lots[i].acquired \in Int
                               /\ b.lots[i].stored \in Nat /\ b.lots[i].remaining \in Nat
                               /\ Rem(b.lots)[i] \in Nat
  BY <1>1, LotFacts
<1>3. S \subseteq L /\ L \subseteq DOMAIN b.lots
  BY <1>2 DEF OpenLots, Selected, LotsOf
<1>4. ASSUME NEW i \in L, b.lots[i].remaining > 0, b.lots[i].acquired <= AsOf
      PROVE  i \in S
  <2>1. b.lots[i].stored > 0
    BY <1>2, <1>3, <1>4 DEF LotType
  <2> QED
    BY <1>3, <1>4, <2>1 DEF OpenLots, Selected, LotsOf
<1> HIDE DEF S, L
<1>5. Remaining(b.lots, S) = SumOf(Rem(b.lots), S) /\ Remaining(b.lots, S) \in Nat
  BY <1>1, <1>3, RemainingIs
<1>6. SumOf(Rem(b.lots), S) <= SumOf(Rem(b.lots), L)
  <2>1. IsFiniteSet(L)
    BY <1>1, <1>3, LotFacts
  <2> QED
    BY <1>2, <1>3, <2>1, SumNat
<1> QED
  BY <1>3, <1>4, <1>5, <1>6 DEF S, L, Stock

\* What is left of their costs is part of what is left in all the lots.
LEMMA OpenCost ==
    ASSUME NEW b, GoodBook(b), NEW k \in Keys, \A i \in OpenLots(b, k) : Known(b.lots[i].left)
    PROVE  /\ Total([i \in OpenLots(b, k) |-> b.lots[i].left]) \in Nat
           /\ Total([i \in OpenLots(b, k) |-> b.lots[i].left]) <= Total(Worth(b.lots, k))
<1> DEFINE S == OpenLots(b, k)
           L == LotsOf(b.lots, k, Int)
           F == [i \in S |-> b.lots[i].left]
           G == [i \in L |-> AtLeast0(b.lots[i].left)]
<1>1. GoodLots(b.lots)
  BY DEF GoodBook
<1>2. S \subseteq L /\ L \subseteq DOMAIN b.lots
  BY OpenStock
<1>3. IsFiniteSet(S) /\ IsFiniteSet(L)
  BY <1>1, <1>2, LotFacts
<1>4. \A i \in L : G[i] \in Nat
  BY <1>1, <1>2, LotFacts DEF AtLeast0
<1>5. \A i \in S : F[i] \in Nat /\ G[i] = F[i]
  BY <1>1, <1>2, LotFacts DEF AtLeast0
<1>6. Total(F) = SumOf(F, S)
  <2>1. DOMAIN F = S
    OBVIOUS
  <2> HIDE DEF F, S
  <2> QED
    BY <1>3, <2>1, TotalIs, Zenon
<1>7. Total(G) = SumOf(G, L)
  <2>1. DOMAIN G = L
    OBVIOUS
  <2> HIDE DEF G, L
  <2> QED
    BY <1>3, <2>1, TotalIs, Zenon
<1>8. G = Worth(b.lots, k)
  BY DEF Worth
<1>9. F = [i \in OpenLots(b, k) |-> b.lots[i].left]
  OBVIOUS
<1> HIDE DEF F, G, S, L
<1>10. SumOf(G, S) = SumOf(F, S)
  BY <1>3, <1>5, SumSame DEF Numbers
<1>11. SumOf(F, S) \in Nat
  BY <1>3, <1>5, SumNat
<1>12. SumOf(G, S) <= SumOf(G, L)
  BY <1>2, <1>3, <1>4, SumNat
<1> QED
  BY <1>6, <1>7, <1>8, <1>9, <1>10, <1>11, <1>12

\* A cost that is determined at all is backed by the open lots.
LEMMA CalculatedBacked ==
    ASSUME NEW b, GoodBook(b), NEW k \in Keys, NEW quantity \in Int, quantity > 0,
           Known(CalculatedCost(b, k, quantity))
    PROVE  Backs(b.lots, k, quantity, CalculatedCost(b, k, quantity))
<1> DEFINE S == OpenLots(b, k)
           units == Remaining(b.lots, S)
           all == Total([i \in S |-> b.lots[i].left])
           cost == CalculatedCost(b, k, quantity)
<1>1. /\ \A i \in S : Known(b.lots[i].left)
      /\ \/ quantity = units /\ cost = all
         \/ quantity < units /\ cost = Share(all, quantity, units)
  BY DEF CalculatedCost, Known
<1>2. units \in Nat /\ units <= Stock(b.lots, k, Int)
  BY OpenStock
<1>3. all \in Nat /\ all <= Total(Worth(b.lots, k))
  BY <1>1, OpenCost
<1>4. Priced(b.lots, k)
  BY <1>1, OpenStock DEF Priced
<1>5. Stock(b.lots, k, Int) \in Nat
  BY StockIsNat DEF GoodBook
<1>6. Total(Worth(b.lots, k)) \in Int
  <2> DEFINE G == Worth(b.lots, k)
             L == LotsOf(b.lots, k, Int)
  <2>1. GoodLots(b.lots) /\ L \subseteq DOMAIN b.lots /\ DOMAIN G = L
    BY DEF GoodBook, LotsOf, Worth
  <2>2. \A i \in L : G[i] \in Int
    BY <2>1, LotFacts DEF AtLeast0, Worth
  <2>3. IsFiniteSet(L)
    BY <2>1, LotFacts
  <2> HIDE DEF G, L
  <2>4. Total(G) = SumOf(G, L)
    BY <2>1, <2>3, TotalIs, Zenon
  <2>5. SumOf(G, L) \in Int
    BY <2>2, <2>3, SumAny DEF Numbers
  <2> QED
    BY <2>4, <2>5 DEF G
<1> HIDE DEF S, units, all, cost
<1>7. quantity <= units /\ cost <= all
  <2>1. CASE quantity = units /\ cost = all
    BY <1>2, <1>3, <2>1
  <2>2. CASE quantity < units /\ cost = Share(all, quantity, units)
    <3>1. quantity \in Nat /\ units > 0
      BY <1>2, <2>2
    <3>2. Share(all, quantity, units) \in Nat /\ Share(all, quantity, units) <= all
      BY <1>2, <1>3, <2>2, <3>1, Shares
    <3> QED
      BY <1>2, <2>2, <3>2
  <2> QED
    BY <1>1, <2>1, <2>2
<1>8. cost \in Int
  <2>1. CASE quantity = units /\ cost = all
    BY <1>3, <2>1
  <2>2. CASE quantity < units /\ cost = Share(all, quantity, units)
    <3>1. quantity \in Nat /\ units > 0
      BY <1>2, <2>2
    <3> QED
      BY <1>2, <1>3, <2>2, <3>1, Shares
  <2> QED
    BY <1>1, <2>1, <2>2
<1> QED
  BY <1>2, <1>3, <1>4, <1>5, <1>6, <1>7, <1>8 DEF Backs, cost

\* Storing the rows takes nothing away from it.
LEMMA FlushBacks ==
    ASSUME NEW lots, GoodLots(lots), NEW k, NEW quantity, NEW cost, Backs(lots, k, quantity, cost)
    PROVE  Backs(Flushed(lots), k, quantity, cost)
<1> DEFINE new == Flushed(lots)
           L == LotsOf(lots, k, Int)
<1>1. /\ DOMAIN new = DOMAIN lots
      /\ \A i \in DOMAIN lots :
             /\ new[i].account = lots[i].account /\ new[i].asset = lots[i].asset
             /\ new[i].acquired = lots[i].acquired /\ new[i].remaining = lots[i].remaining
             /\ new[i].left = lots[i].left
  BY FlushFields
<1> HIDE DEF new
<1>2. LotsOf(new, k, Int) = L /\ L \subseteq DOMAIN lots
  BY <1>1 DEF LotsOf
<1> HIDE DEF L
<1>3. Worth(new, k) = [i \in L |-> AtLeast0(new[i].left)]
  BY <1>2, Zenon DEF Worth
<1>4. [i \in L |-> AtLeast0(new[i].left)] = [i \in L |-> AtLeast0(lots[i].left)]
  BY <1>1, <1>2
<1>5. Worth(new, k) = Worth(lots, k)
  BY <1>3, <1>4, Zenon DEF Worth, L
<1>6. Priced(lots, k) => Priced(new, k)
  BY <1>1, <1>2 DEF Priced, L
<1>7. Stock(new, k, Int) = Stock(lots, k, Int)
  BY FlushKeeps DEF new
<1> QED
  BY <1>5, <1>6, <1>7 DEF Backs, new

\* Until a run ends it has no positions, and what it ends with is backed.
Backed == /\ clock <= AsOf + 1 => \A r \in Runs : positions[r] = <<>>
          /\ \A r \in Runs : \A k \in DOMAIN positions[r] :
                /\ k \in Keys
                /\ Live(r)
                /\ Known(positions[r][k].cost) =>
                      Backs(books[r].lots, k, positions[r][k].quantity, positions[r][k].cost)

\* The positions a run ends with are backed,
LEMMA FinishBacks ==
    ASSUME Reconciled, Finish
    PROVE  Backed'
<1>1. PICK s \in Balances :
         positions' = [r \in Runs |-> IF books[r].status = "FAILED" THEN <<>>
                                      ELSE Positions(books[r], s)]
  BY DEF Finish
<1>2. ~(clock' <= AsOf + 1)
  BY CostAssumption DEF Finish
<1>3. ASSUME NEW r \in Runs, NEW k \in DOMAIN positions'[r]
      PROVE  /\ k \in Keys
             /\ Live(r)'
             /\ Known(positions'[r][k].cost) =>
                   Backs(books'[r].lots, k, positions'[r][k].quantity, positions'[r][k].cost)
  <2> DEFINE b == books[r]
             quantity == PositionQuantity(b, k, s)
  <2>1. GoodBook(b)
    BY DEF Reconciled
  <2>2. b.status # "FAILED" /\ positions'[r] = Positions(b, s)
    BY <1>1, <1>3
  <2>3. books'[r] = Closed(b)
    BY <2>2 DEF Finish
  <2>4. Closed(b).status # "FAILED" /\ Closed(b).lots = Flushed(b.lots)
    <3>1. DOMAIN b = Fields
      BY <2>1 DEF GoodBook
    <3> HIDE DEF b
    <3> QED
      BY <3>1 DEF Closed, Fields
  <2>5. k \in Keys /\ quantity > 0
    BY <1>3, <2>2 DEF Positions
  <2>6. positions'[r][k] = [quantity |-> quantity, cost |-> CalculatedCost(b, k, quantity)]
    BY <2>2, <2>5 DEF Positions
  <2>7. quantity \in Int
    <3>1. Remaining(b.lots, OpenLots(b, k)) \in Nat
      BY <2>1, <2>5, OpenStock
    <3>2. \A a \in DOMAIN s : \A x \in DOMAIN s[a] : s[a][x] \in Int
      BY CostAssumption
    <3> QED
      BY <3>1, <3>2 DEF PositionQuantity
  <2> HIDE DEF b, quantity
  <2>8. ASSUME Known(CalculatedCost(b, k, quantity))
        PROVE  Backs(Flushed(b.lots), k, quantity, CalculatedCost(b, k, quantity))
    <3>1. Backs(b.lots, k, quantity, CalculatedCost(b, k, quantity))
      BY <2>1, <2>5, <2>7, <2>8, CalculatedBacked
    <3>2. GoodLots(b.lots)
      BY <2>1 DEF GoodBook
    <3> QED
      BY <3>1, <3>2, FlushBacks
  <2> QED
    BY <2>3, <2>4, <2>5, <2>6, <2>8 DEF Live
<1> QED
  BY <1>2, <1>3 DEF Backed

\* and no other step has any.
LEMMA StepBacks ==
    ASSUME Reconciled, Backed, [Next]_vars
    PROVE  Backed'
<1>1. CASE Finish
  BY <1>1, FinishBacks
<1>2. CASE UNCHANGED vars
  BY <1>2 DEF vars, Backed, Live
<1>3. CASE clock <= AsOf /\ clock' = clock + 1 /\ UNCHANGED positions
  <2>1. \A r \in Runs : positions'[r] = <<>>
    BY <1>3, CostAssumption DEF Backed, Reconciled
  <2> QED
    BY <2>1 DEF Backed
<1>4. CASE \E e \in Ledger :
              \/ Buy(e) \/ Disposal(e) \/ InternalTransfer(e) \/ InlineInternalTransfer(e)
              \/ ExternalInflow(e) \/ ExternalOutflow(e) \/ FeeEvent(e) \/ IncomeEvent(e)
              \/ Repay(e) \/ Borrow(e) \/ ManualAdjustment(e) \/ Derivative(e)
  <2>1. clock <= AsOf /\ clock' = clock + 1 /\ UNCHANGED positions
    BY <1>4 DEF Buy, Disposal, InternalTransfer, InlineInternalTransfer, ExternalInflow,
                ExternalOutflow, FeeEvent, IncomeEvent, Repay, Borrow, ManualAdjustment,
                Derivative, Post
  <2> QED
    BY <1>3, <2>1
<1> QED
  BY <1>1, <1>2, <1>4 DEF Next

\* Cost is carried only as far as the ledger explains the observed quantity: on every such
\* ledger, and whatever the balance snapshots say, a position whose cost is known is no
\* larger than the run's inventory of it, and costs no more than what is left in its lots.
THEOREM KnownCostBacked == LedgerIsBalanced => (Spec => []KnownCostIsBacked)
<1> SUFFICES ASSUME LedgerIsBalanced
             PROVE  Spec => []KnownCostIsBacked
  OBVIOUS
<1>1. Init => Backed
  BY DEF Init, Backed
<1>2. Reconciled /\ Backed /\ [Next]_vars => Backed'
  BY StepBacks
<1>3. Reconciled /\ Backed => KnownCostIsBacked
  <2> SUFFICES ASSUME Reconciled, Backed, NEW r \in Runs, NEW k \in DOMAIN positions[r],
                      Known(positions[r][k].cost)
               PROVE  /\ positions[r][k].quantity <= held[k] + books[r].missing[k]
                      /\ \A i \in KeyLots(r, k) :
                            books[r].lots[i].remaining > 0 /\ books[r].lots[i].acquired <= AsOf
                               => Known(books[r].lots[i].left)
                      /\ positions[r][k].cost <=
                            Total([i \in KeyLots(r, k) |-> AtLeast0(books[r].lots[i].left)])
    BY DEF KnownCostIsBacked
  <2>1. /\ k \in Keys /\ Live(r)
        /\ Backs(books[r].lots, k, positions[r][k].quantity, positions[r][k].cost)
    BY DEF Backed
  <2>2. GoodBook(books[r]) /\ Agrees(books[r]) /\ held[k] \in Int
    BY <2>1 DEF Reconciled
  <2>3. Stock(books[r].lots, k, Int) \in Nat /\ books[r].missing[k] \in Nat
    BY <2>1, <2>2, BookFacts
  <2>4. Stock(books[r].lots, k, Int) - books[r].missing[k] = held[k]
    BY <2>1, <2>2 DEF Agrees, Net
  <2>5. Stock(books[r].lots, k, Int) = held[k] + books[r].missing[k]
    BY <2>2, <2>3, <2>4
  <2>6. KeyLots(r, k) = LotsOf(books[r].lots, k, Int)
    BY <2>2, KeyLotsAre
  <2>7. positions[r][k].quantity <= held[k] + books[r].missing[k]
    BY <2>1, <2>5 DEF Backs
  <2>8. Worth(books[r].lots, k) = [i \in KeyLots(r, k) |-> AtLeast0(books[r].lots[i].left)]
    BY <2>6, Zenon DEF Worth
  <2> QED
    BY <2>1, <2>6, <2>7, <2>8 DEF Backs, Priced
<1> QED
  BY <1>1, <1>2, <1>3, AlwaysReconciled, PTL DEF Spec

-----------------------------------------------------------------------------
(* What a run finds does not depend on its method. *)

\* A debit finds what there is, or what is asked for if that is less, and reports
\* the rest; unless a share did not come out even.
Eats(b, c, x, quantity, at) ==
    LET found == Less(quantity, Stock(b.lots, KeyOf(x), Past(at)))
    IN  /\ b.rounds => c.rounds
        /\ c.rounds \/ \A k \in Keys :
              /\ c.missing[k] = b.missing[k] + Part(k, x, quantity - found)
              /\ \A D : Past(at) \subseteq D =>
                    Stock(c.lots, k, D) = Stock(b.lots, k, D) - Part(k, x, found)

\* That is what _consume finds, by each of the methods.
LEMMA DebitEats ==
    ASSUME NEW run, NEW b, GoodBook(b), NEW x, NEW quantity, quantity \in Nat, NEW at \in Int, NEW use
    PROVE  Eats(b, Debit(run, b, x, quantity, at, use).book, x, quantity, at)
<1> DEFINE c == Consume(run, b.lots, x.account, x.asset, quantity, at)
           d == Debit(run, b, x, quantity, at, use).book
           n == Quantity(c.pieces)
           there == Stock(b.lots, KeyOf(x), Past(at))
           db == Debited(b, x, quantity, use, c)
<1>1. d = IF quantity = 0 THEN b ELSE db
  BY DEF Debit
<1>2. /\ db.lots = c.lots
      /\ db.missing = [b.missing EXCEPT ![KeyOf(x)] = @ + (quantity - n)]
      /\ db.rounds = (b.rounds \/ c.rounds)
  BY DebitedFields DEF KeyOf
<1>3. GoodLots(b.lots) /\ b.missing \in [Keys -> Nat] /\ b.rounds \in BOOLEAN
  BY DEF GoodBook
<1>4. there \in Nat
  BY <1>3, StockIsNat
<1>5. ~c.rounds => n = Less(quantity, there)
  BY <1>3, FoundBound DEF KeyOf
<1>6. \A k \in Keys : \A D : Past(at) \subseteq D =>
         Stock(c.lots, k, D) = Stock(b.lots, k, D) - (IF k = KeyOf(x) THEN n ELSE 0)
  <2> HIDE DEF c
  <2> QED
    BY <1>3, ConsumeStock DEF KeyOf, c
<1>7. n \in Nat
  BY <1>3, FoundBound
<1>8. \A k \in Keys : \A D : Stock(b.lots, k, D) \in Nat
  BY <1>3, StockIsNat
<1>9. b.rounds => d.rounds
  BY <1>1, <1>2, <1>3
<1> HIDE DEF c, d, n, there, db
<1>10. CASE quantity = 0
  <2>1. d = b /\ Less(quantity, there) = 0
    BY <1>1, <1>4, <1>10 DEF Less
  <2>2. \A k \in Keys : Part(k, x, 0) = 0 /\ b.missing[k] \in Nat
    BY <1>3 DEF Part
  <2>3. \A k \in Keys : /\ d.missing[k] = b.missing[k] + Part(k, x, 0)
                        /\ \A D : Stock(d.lots, k, D) = Stock(b.lots, k, D) - Part(k, x, 0)
    BY <1>8, <2>1, <2>2
  <2>4. quantity - Less(quantity, there) = 0
    BY <1>10, <2>1
  <2> QED
    BY <1>9, <2>1, <2>3, <2>4 DEF Eats, there, d
<1>11. CASE quantity > 0
  <2>1. d = db
    BY <1>1, <1>11
  <2>2. ASSUME ~d.rounds, NEW k \in Keys
        PROVE  /\ d.missing[k] = b.missing[k] + Part(k, x, quantity - n)
               /\ \A D : Past(at) \subseteq D =>
                     Stock(d.lots, k, D) = Stock(b.lots, k, D) - Part(k, x, n)
    <3>1. d.missing[k] = b.missing[k] + Part(k, x, quantity - n)
      BY <1>2, <1>3, <2>1 DEF Part
    <3>2. d.lots = c.lots
      BY <1>2, <2>1
    <3> QED
      BY <1>6, <3>1, <3>2 DEF Part
  <2>3. ~d.rounds => n = Less(quantity, there)
    BY <1>2, <1>5, <2>1
  <2> QED
    BY <1>9, <2>2, <2>3 DEF Eats, there, d
<1> QED
  BY <1>10, <1>11

\* Two books that have found the same until now, and will find the same from now on.
Alike(b, c, at) == \A k \in Keys :
    /\ b.missing[k] = c.missing[k]
    /\ \A t \in Int : t >= at => Stock(b.lots, k, Past(t)) = Stock(c.lots, k, Past(t))

Same(b, c, at) == /\ GoodBook(b) /\ GoodBook(c)
                  /\ b.rounds \/ c.rounds \/ Alike(b, c, at)

\* Debits of the same quantity find the same in both,
LEMMA EatAlike ==
    ASSUME NEW b, NEW c, NEW at \in Int, Same(b, c, at), NEW x, NEW quantity, quantity \in Nat,
           NEW b2, GoodBook(b2), NEW c2, GoodBook(c2),
           Eats(b, b2, x, quantity, at), Eats(c, c2, x, quantity, at)
    PROVE  Same(b2, c2, at)
<1> DEFINE n == Less(quantity, Stock(b.lots, KeyOf(x), Past(at)))
           m == Less(quantity, Stock(c.lots, KeyOf(x), Past(at)))
<1> SUFFICES ASSUME ~b2.rounds, ~c2.rounds
             PROVE  Alike(b2, c2, at)
  BY DEF Same
<1>1. Alike(b, c, at)
  BY DEF Same, Eats
<1>2. \A t \in Int : t >= at => Past(at) \subseteq Past(t)
  BY DEF Past
<1>3. /\ \A k \in Keys : b2.missing[k] = b.missing[k] + Part(k, x, quantity - n)
      /\ \A k \in Keys, t \in Int : t >= at =>
            Stock(b2.lots, k, Past(t)) = Stock(b.lots, k, Past(t)) - Part(k, x, n)
  BY <1>2 DEF Eats
<1>4. /\ \A k \in Keys : c2.missing[k] = c.missing[k] + Part(k, x, quantity - m)
      /\ \A k \in Keys, t \in Int : t >= at =>
            Stock(c2.lots, k, Past(t)) = Stock(c.lots, k, Past(t)) - Part(k, x, m)
  BY <1>2 DEF Eats
<1>5. KeyOf(x) \in Keys => n = m
  BY <1>1 DEF Alike
<1> HIDE DEF n, m
<1>6. \A k \in Keys : /\ Part(k, x, quantity - n) = Part(k, x, quantity - m)
                      /\ Part(k, x, n) = Part(k, x, m)
  BY <1>5 DEF Part
<1> QED
  BY <1>1, <1>3, <1>4, <1>6 DEF Alike

\* and what comes in makes no difference.
LEMMA AddAlike ==
    ASSUME NEW b, NEW c, NEW at \in Int, Same(b, c, at), NEW x, NEW quantity, NEW when,
           NEW b2, GoodBook(b2), NEW c2, GoodBook(c2),
           Adds(b, b2, x, quantity, when), Adds(c, c2, x, quantity, when)
    PROVE  Same(b2, c2, at)
<1> SUFFICES ASSUME ~b2.rounds, ~c2.rounds
             PROVE  Alike(b2, c2, at)
  BY DEF Same
<1>1. Alike(b, c, at)
  BY DEF Same, Adds
<1> QED
  BY <1>1 DEF Alike, Adds

\* What is neither lots nor shortages makes no difference.
Leaves(b, c) == /\ GoodBook(b) => GoodBook(c)
                /\ c.lots = b.lots /\ c.missing = b.missing /\ c.rounds = b.rounds

\* So books stay alike.
LEMMA LeaveAlike ==
    ASSUME NEW b, NEW c, NEW at, Same(b, c, at), NEW b2, NEW c2, Leaves(b, b2), Leaves(c, c2)
    PROVE  Same(b2, c2, at)
BY DEF Same, Leaves, Alike

\* Warnings and records of PnL are of that kind,
LEMMA NotesLeave ==
    ASSUME NEW b, GoodBook(b)
    PROVE  /\ Leaves(b, Warn(b))
           /\ \A category, quantity, covered, proceeds, cost :
                 Leaves(b, AddPnl(b, category, quantity, covered, proceeds, cost))
<1>1. DOMAIN b = Fields
  BY DEF GoodBook
<1>2. /\ Warn(b).lots = b.lots /\ Warn(b).missing = b.missing /\ Warn(b).rounds = b.rounds
      /\ GoodBook(Warn(b))
  BY <1>1, WarnKeeps DEF Warn, Fields, Notes
<1>3. ASSUME NEW category, NEW quantity, NEW covered, NEW proceeds, NEW cost
      PROVE  Leaves(b, AddPnl(b, category, quantity, covered, proceeds, cost))
  <2> DEFINE a == AddPnl(b, category, quantity, covered, proceeds, cost)
  <2>1. a.lots = b.lots /\ a.missing = b.missing /\ a.rounds = b.rounds
    BY <1>1 DEF AddPnl, Fields
  <2>2. GoodBook(a)
    BY AddPnlKeeps DEF Notes
  <2> HIDE DEF a
  <2> QED
    BY <2>1, <2>2 DEF a, Leaves
<1> QED
  BY <1>2, <1>3 DEF Leaves

\* and so is the cost that a transfer leaves behind.
LEMMA HaircutLeaves ==
    ASSUME NEW b, GoodBook(b), NEW e, NEW cost, IsCost(cost)
    PROVE  Leaves(b, Haircut(b, e, cost))
<1> DEFINE a == AddPnl(b, "fee", FeeAmount(e), FeeAmount(e), 0, cost)
           c == Haircut(b, e, cost)
<1>1. Leaves(b, a) /\ GoodBook(a)
  BY NotesLeave DEF Leaves
<1>2. c = [a EXCEPT !.spent = @ + AtLeast0(cost)]
  BY DEF Haircut
<1>3. GoodBook(c)
  BY HaircutKeeps
<1> HIDE DEF a, c
<1>4. c.lots = a.lots /\ c.missing = a.missing /\ c.rounds = a.rounds
  BY <1>1, <1>2 DEF GoodBook, Fields
<1> QED
  BY <1>1, <1>3, <1>4 DEF Leaves, c

\* Two runs of any methods consume the same of books that are alike,
LEMMA DebitAlike ==
    ASSUME NEW r, NEW q, NEW b, NEW c, NEW at \in Int, Same(b, c, at),
           NEW x, NEW quantity, quantity \in Nat, NEW use
    PROVE  Same(Debit(r, b, x, quantity, at, use).book, Debit(q, c, x, quantity, at, use).book, at)
<1> DEFINE b2 == Debit(r, b, x, quantity, at, use).book
           c2 == Debit(q, c, x, quantity, at, use).book
<1>1. GoodBook(b) /\ GoodBook(c)
  BY DEF Same
<1>2. GoodBook(b2) /\ GoodBook(c2)
  <2>1. /\ Takes(b, x, quantity, use, Debit(r, b, x, quantity, at, use))
        /\ Takes(c, x, quantity, use, Debit(q, c, x, quantity, at, use))
    BY <1>1, DebitKeeps
  <2> QED
    BY <2>1 DEF Takes
<1>3. Eats(b, b2, x, quantity, at) /\ Eats(c, c2, x, quantity, at)
  BY <1>1, DebitEats
<1> HIDE DEF b2, c2
<1>4. Same(b2, c2, at)
  BY <1>2, <1>3, EatAlike
<1> QED
  BY <1>4 DEF b2, c2

\* for what is spent
LEMMA SpendAlike ==
    ASSUME NEW r, NEW q, NEW b, NEW c, NEW at \in Int, Same(b, c, at), NEW x, x.quantity \in Nat
    PROVE  Same(Spend(r, b, x, at), Spend(q, c, x, at), at)
BY DebitAlike DEF Spend

\* and what is recorded as an expense,
LEMMA ExpenseAlike ==
    ASSUME NEW r, NEW q, NEW b, NEW c, NEW at \in Int, Same(b, c, at), NEW x, x.quantity \in Nat
    PROVE  Same(Expense(r, b, x, at), Expense(q, c, x, at), at)
<1> DEFINE d == Debit(r, b, x, x.quantity, at, "spent")
           f == Debit(q, c, x, x.quantity, at, "spent")
           d2 == AddPnl(d.book, "fee", x.quantity, Quantity(d.pieces), 0, KnownCost(d.pieces))
           f2 == AddPnl(f.book, "fee", x.quantity, Quantity(f.pieces), 0, KnownCost(f.pieces))
<1>1. Same(d.book, f.book, at)
  BY DebitAlike
<1>2. Expense(r, b, x, at) = IF x.quantity = 0 THEN b ELSE d2
  BY DEF Expense
<1>3. Expense(q, c, x, at) = IF x.quantity = 0 THEN c ELSE f2
  BY DEF Expense
<1> HIDE DEF d, f
<1>4. Leaves(d.book, d2) /\ Leaves(f.book, f2)
  BY <1>1, NotesLeave DEF Same
<1> HIDE DEF d2, f2
<1>5. Same(d2, f2, at)
  BY <1>1, <1>4, LeaveAlike
<1> QED
  BY <1>2, <1>3, <1>5

\* and receive the same.
LEMMA CreditAlike ==
    ASSUME NEW b, NEW c, NEW at \in Int, Same(b, c, at), NEW x, NEW quantity, Enters(x, quantity),
           NEW cost, IsCost(cost), NEW when \in Int
    PROVE  Same(Credit(b, x, quantity, cost, when), Credit(c, x, quantity, cost, when), at)
<1> DEFINE b2 == Credit(b, x, quantity, cost, when)
           c2 == Credit(c, x, quantity, cost, when)
<1>1. GoodBook(b) /\ GoodBook(c)
  BY DEF Same
<1>2. GoodBook(b2) /\ GoodBook(c2)
  <2>1. Gets(b, b2, x, quantity) /\ Gets(c, c2, x, quantity)
    BY <1>1, CreditKeeps
  <2> QED
    BY <2>1 DEF Gets
<1>3. Adds(b, b2, x, AtLeast0(quantity), when) /\ Adds(c, c2, x, AtLeast0(quantity), when)
  BY <1>1, CreditAdds
<1> HIDE DEF b2, c2
<1>4. Same(b2, c2, at)
  BY <1>2, <1>3, AddAlike
<1> QED
  BY <1>4 DEF b2, c2

\* A transfer moves what the deposit says, whatever the lots it is taken from.
Sent(run, b, e, at) == Debit(run, b, e.out, e.out.quantity, at, "carried")
Arrives(run, b, e, at, when) == Carry(Sent(run, b, e, at).book, e, Sent(run, b, e, at).pieces, when)

\* So it arrives alike.
LEMMA CarryAlike ==
    ASSUME NEW r, NEW q, NEW b, NEW c, NEW at \in Int, Same(b, c, at), NEW e, EventType(e),
           KeyOf(e.in) \in Keys, NEW when \in Int
    PROVE  Same(Arrives(r, b, e, at, when), Arrives(q, c, e, at, when), at)
<1> DEFINE b1 == Sent(r, b, e, at)
           c1 == Sent(q, c, e, at)
           b2 == Carry(b1.book, e, b1.pieces, when)
           c2 == Carry(c1.book, e, c1.pieces, when)
<1>1. Amounts(e) /\ e.out.quantity \in Nat
  BY EntryFacts
<1>2. Same(b1.book, c1.book, at)
  BY <1>1, DebitAlike DEF Sent
<1>3. /\ Pieces(b1.pieces) /\ Quantity(b1.pieces) <= e.out.quantity
      /\ Pieces(c1.pieces) /\ Quantity(c1.pieces) <= e.out.quantity
  <2> DEFINE use == "carried"
  <2> HIDE DEF use
  <2>1. /\ Takes(b, e.out, e.out.quantity, use, Debit(r, b, e.out, e.out.quantity, at, use))
        /\ Takes(c, e.out, e.out.quantity, use, Debit(q, c, e.out, e.out.quantity, at, use))
    BY <1>1, DebitKeeps DEF Same
  <2> QED
    BY <2>1 DEF Takes, Sent, use
<1>4. GoodBook(b1.book) /\ GoodBook(c1.book)
  BY <1>2 DEF Same
<1> HIDE DEF b1, c1
<1>5. /\ GoodBook(b2) /\ Adds(b1.book, b2, e.in, e.in.quantity, when)
      /\ GoodBook(c2) /\ Adds(c1.book, c2, e.in, e.in.quantity, when)
  BY <1>1, <1>3, <1>4, CarryKeeps
<1> HIDE DEF b2, c2
<1>6. Same(b2, c2, at)
  BY <1>2, <1>5, AddAlike
<1> QED
  BY <1>6 DEF Arrives, b1, c1, b2, c2

\* Books that are alike stay alike in the hands of _process_event.
LEMMA SpendFeeAlike ==
    ASSUME NEW r, NEW q, NEW b, NEW c, NEW at \in Int, Same(b, c, at), NEW e, EventType(e)
    PROVE  Same(SpendFee(r, b, e, at), SpendFee(q, c, e, at), at)
<1>1. e.fee.quantity \in Nat
  BY EntryFacts
<1> QED
  BY <1>1, SpendAlike DEF SpendFee

\* A purchase,
LEMMA BoughtAlike ==
    ASSUME NEW r, NEW q, NEW b, NEW c, NEW at \in Int, Same(b, c, at), NEW e, EventType(e)
    PROVE  Same(Bought(r, b, e, at), Bought(q, c, e, at), at)
<1> DEFINE net == NetQuantity(e)
           cost == BuyCost(e)
           b1 == Spend(r, b, e.out, at)
           c1 == Spend(q, c, e.out, at)
           b2 == SpendFee(r, b1, e, at)
           c2 == SpendFee(q, c1, e, at)
           b3 == Credit(b2, e.in, net, cost, at)
           c3 == Credit(c2, e.in, net, cost, at)
<1>1. /\ Bought(r, b, e, at) = IF e.in.quantity = 0 THEN Warn(b) ELSE IF net <= 0 THEN Warn(b2) ELSE b3
      /\ Bought(q, c, e, at) = IF e.in.quantity = 0 THEN Warn(c) ELSE IF net <= 0 THEN Warn(c2) ELSE c3
  BY DEF Bought, BuyCost
<1>2. /\ e.out.quantity \in Nat /\ Enters(e.in, net) /\ net \in Int
      /\ net > 0 => IsCost(cost)
  BY EntryFacts, CostsBooked DEF Enters
<1> HIDE DEF net, cost
<1>3. Same(b1, c1, at)
  BY <1>2, SpendAlike
<1> HIDE DEF b1, c1
<1>4. Same(b2, c2, at)
  BY <1>3, SpendFeeAlike
<1> HIDE DEF b2, c2
<1>5. net > 0 => Same(b3, c3, at)
  BY <1>2, <1>4, CreditAlike
<1>6. /\ Leaves(b, Warn(b)) /\ Leaves(c, Warn(c)) /\ Leaves(b2, Warn(b2)) /\ Leaves(c2, Warn(c2))
  BY <1>4, NotesLeave DEF Same
<1>7. Same(Warn(b), Warn(c), at) /\ Same(Warn(b2), Warn(c2), at)
  BY <1>4, <1>6, LeaveAlike
<1> HIDE DEF b3, c3
<1> QED
  BY <1>1, <1>2, <1>5, <1>7

\* a sale or swap,
LEMMA DisposedAlike ==
    ASSUME NEW r, NEW q, NEW b, NEW c, NEW at \in Int, Same(b, c, at), NEW e, EventType(e)
    PROVE  Same(Disposed(r, b, e, at), Disposed(q, c, e, at), at)
<1> DEFINE proceeds == Proceeds(e)
           net == NetQuantity(e)
           d == Debit(r, b, e.out, e.out.quantity, at, "spent")
           f == Debit(q, c, e.out, e.out.quantity, at, "spent")
           d2 == AddPnl(d.book, "spot", e.out.quantity, Quantity(d.pieces), proceeds, KnownCost(d.pieces))
           f2 == AddPnl(f.book, "spot", e.out.quantity, Quantity(f.pieces), proceeds, KnownCost(f.pieces))
           b1 == IF e.out.quantity = 0 THEN b ELSE d2
           c1 == IF e.out.quantity = 0 THEN c ELSE f2
           b2 == SpendFee(r, b1, e, at)
           c2 == SpendFee(q, c1, e, at)
<1>1. /\ Disposed(r, b, e, at) = Credit(b2, e.in, net, proceeds, at)
      /\ Disposed(q, c, e, at) = Credit(c2, e.in, net, proceeds, at)
  BY DEF Disposed, Proceeds, Gross
<1>2. e.out.quantity \in Nat /\ Enters(e.in, net) /\ IsCost(proceeds)
  BY EntryFacts, CostsBooked DEF Enters
<1> HIDE DEF net, proceeds
<1>3. Same(d.book, f.book, at)
  BY <1>2, DebitAlike
<1> HIDE DEF d, f
<1>4. Leaves(d.book, d2) /\ Leaves(f.book, f2)
  BY <1>3, NotesLeave DEF Same
<1> HIDE DEF d2, f2
<1>5. Same(d2, f2, at)
  BY <1>3, <1>4, LeaveAlike
<1>6. Same(b1, c1, at)
  BY <1>5
<1> HIDE DEF b1, c1
<1>7. Same(b2, c2, at)
  BY <1>6, SpendFeeAlike
<1> HIDE DEF b2, c2
<1> QED
  BY <1>1, <1>2, <1>7, CreditAlike

\* a transfer between accounts,
LEMMA TransferredAlike ==
    ASSUME NEW r, NEW q, NEW b, NEW c, NEW at \in Int, Same(b, c, at),
           NEW e, EventType(e), e.kind = "transfer"
    PROVE  Same(Transferred(r, b, e, at), Transferred(q, c, e, at), at)
<1> DEFINE d  == Sent(r, b, e, at)
           f  == Sent(q, c, e, at)
           b1 == Arrives(r, b, e, at, at + e.delay)
           c1 == Arrives(q, c, e, at, at + e.delay)
           b2 == Haircut(b1, e, CostLeftBehind(e, d.pieces))
           c2 == Haircut(c1, e, CostLeftBehind(e, f.pieces))
           b3 == Expense(r, b1, ExtraFee(e), at)
           c3 == Expense(q, c1, ExtraFee(e), at)
<1>1. /\ Transferred(r, b, e, at) = IF at + e.delay > AsOf THEN Warn(b)
                                    ELSE IF FeeAmount(e) = 0 THEN b1
                                    ELSE IF FeeIsEmbedded(e) THEN b2 ELSE b3
      /\ Transferred(q, c, e, at) = IF at + e.delay > AsOf THEN Warn(c)
                                    ELSE IF FeeAmount(e) = 0 THEN c1
                                    ELSE IF FeeIsEmbedded(e) THEN c2 ELSE c3
  BY DEF Transferred, Arrives, Sent
<1>2. /\ e.out.quantity \in Nat /\ e.in.quantity \in Nat /\ e.fee.quantity \in Nat
      /\ at + e.delay \in Int
      /\ KeyOf(e.in) \in Keys
  BY EntryFacts DEF EventType, EntryType, KeyOf
<1>3. Same(b1, c1, at)
  BY <1>2, CarryAlike
<1>4. IsCost(CostLeftBehind(e, d.pieces)) /\ IsCost(CostLeftBehind(e, f.pieces))
  <2>1. /\ Carries(b, Arrives(r, b, e, at, at), e, CostLeftBehind(e, d.pieces))
        /\ Carries(c, Arrives(q, c, e, at, at), e, CostLeftBehind(e, f.pieces))
    BY <1>2, CarriedKeeps DEF Same, Arrives, Sent
  <2> QED
    BY <2>1 DEF Carries
<1> HIDE DEF b1, c1, d, f
<1>5. Leaves(b1, b2) /\ Leaves(c1, c2)
  BY <1>3, <1>4, HaircutLeaves DEF Same
<1>6. ExtraFee(e).quantity \in Nat
  BY <1>2 DEF ExtraFee, FeeAmount, AtLeast0
<1>7. Same(b3, c3, at)
  BY <1>3, <1>6, ExpenseAlike
<1> HIDE DEF b2, c2, b3, c3
<1>8. Same(b2, c2, at)
  BY <1>3, <1>5, LeaveAlike
<1>9. Leaves(b, Warn(b)) /\ Leaves(c, Warn(c))
  BY NotesLeave DEF Same
<1>10. Same(Warn(b), Warn(c), at)
  BY <1>9, LeaveAlike
<1> QED
  BY <1>1, <1>3, <1>7, <1>8, <1>10

\* a transfer in one event,
LEMMA TransferredInlineAlike ==
    ASSUME NEW r, NEW q, NEW b, NEW c, NEW at \in Int, Same(b, c, at), NEW e, EventType(e)
    PROVE  Same(TransferredInline(r, b, e, at), TransferredInline(q, c, e, at), at)
<1> DEFINE b1 == Arrives(r, b, e, at, at)
           c1 == Arrives(q, c, e, at, at)
<1>1. /\ TransferredInline(r, b, e, at) = IF e.out.quantity = 0 \/ e.in.quantity = 0 THEN Warn(b)
                                          ELSE Expense(r, b1, e.fee, at)
      /\ TransferredInline(q, c, e, at) = IF e.out.quantity = 0 \/ e.in.quantity = 0 THEN Warn(c)
                                          ELSE Expense(q, c1, e.fee, at)
  BY DEF TransferredInline, Arrives, Sent
<1>2. /\ e.in.quantity \in Nat /\ e.fee.quantity \in Nat
      /\ e.in.quantity > 0 => KeyOf(e.in) \in Keys
  BY EntryFacts DEF Amounts
<1>3. e.in.quantity > 0 => Same(b1, c1, at)
  BY <1>2, CarryAlike
<1> HIDE DEF b1, c1
<1>4. e.in.quantity > 0 => Same(Expense(r, b1, e.fee, at), Expense(q, c1, e.fee, at), at)
  BY <1>2, <1>3, ExpenseAlike
<1>5. Leaves(b, Warn(b)) /\ Leaves(c, Warn(c))
  BY NotesLeave DEF Same
<1>6. Same(Warn(b), Warn(c), at)
  BY <1>5, LeaveAlike
<1> QED
  BY <1>1, <1>2, <1>4, <1>6

\* what comes in, by adjustment or as a loan too,
LEMMA ReceivedAlike ==
    ASSUME NEW r, NEW q, NEW b, NEW c, NEW at \in Int, Same(b, c, at), NEW e, EventType(e)
    PROVE  /\ Same(Received(r, b, e, at), Received(q, c, e, at), at)
           /\ Same(Adjusted(r, b, e, at), Adjusted(q, c, e, at), at)
           /\ Same(Borrowed(r, b, e, at), Borrowed(q, c, e, at), at)
<1> DEFINE cost == Either(e.override, Value(e.in))
           b1 == Credit(b, e.in, e.in.quantity, cost, at)
           c1 == Credit(c, e.in, e.in.quantity, cost, at)
           b2 == Credit(b, e.in, e.in.quantity, Unknown, at)
           c2 == Credit(c, e.in, e.in.quantity, Unknown, at)
<1>1. Enters(e.in, e.in.quantity) /\ IsCost(cost) /\ IsCost(Unknown) /\ e.out.quantity \in Nat
  BY EntryFacts, CostsBooked DEF IsCost, Known
<1> HIDE DEF cost
<1>2. Same(b1, c1, at) /\ Same(b2, c2, at)
  BY <1>1, CreditAlike
<1>3. /\ Received(r, b, e, at) = b1 /\ Received(q, c, e, at) = c1
      /\ Adjusted(r, b, e, at) = Spend(r, b1, e.out, at)
      /\ Adjusted(q, c, e, at) = Spend(q, c1, e.out, at)
      /\ Borrowed(r, b, e, at) = Warn(b2) /\ Borrowed(q, c, e, at) = Warn(c2)
  BY DEF Received, Adjusted, Borrowed, cost
<1> HIDE DEF b1, c1, b2, c2
<1>4. Same(Spend(r, b1, e.out, at), Spend(q, c1, e.out, at), at)
  BY <1>1, <1>2, SpendAlike
<1>5. Leaves(b2, Warn(b2)) /\ Leaves(c2, Warn(c2))
  BY <1>2, NotesLeave DEF Same
<1>6. Same(Warn(b2), Warn(c2), at)
  BY <1>2, <1>5, LeaveAlike
<1> QED
  BY <1>2, <1>3, <1>4, <1>6

\* what goes out,
LEMMA WithdrawnAlike ==
    ASSUME NEW r, NEW q, NEW b, NEW c, NEW at \in Int, Same(b, c, at), NEW e, EventType(e)
    PROVE  /\ Same(Withdrawn(r, b, e, at), Withdrawn(q, c, e, at), at)
           /\ Same(Repaid(r, b, e, at), Repaid(q, c, e, at), at)
<1> DEFINE b1 == Spend(r, b, e.out, at)
           c1 == Spend(q, c, e.out, at)
           b2 == Expense(r, b1, e.fee, at)
           c2 == Expense(q, c1, e.fee, at)
<1>1. e.out.quantity \in Nat /\ e.fee.quantity \in Nat
  BY EntryFacts
<1>2. Same(b1, c1, at)
  BY <1>1, SpendAlike
<1>3. /\ Withdrawn(r, b, e, at) = Warn(b2) /\ Withdrawn(q, c, e, at) = Warn(c2)
      /\ Repaid(r, b, e, at) = Spend(r, b1, e.fee, at)
      /\ Repaid(q, c, e, at) = Spend(q, c1, e.fee, at)
  BY DEF Withdrawn, Repaid
<1> HIDE DEF b1, c1
<1>4. Same(b2, c2, at)
  BY <1>1, <1>2, ExpenseAlike
<1>5. Same(Spend(r, b1, e.fee, at), Spend(q, c1, e.fee, at), at)
  BY <1>1, <1>2, SpendAlike
<1> HIDE DEF b2, c2
<1>6. Leaves(b2, Warn(b2)) /\ Leaves(c2, Warn(c2))
  BY <1>4, NotesLeave DEF Same
<1>7. Same(Warn(b2), Warn(c2), at)
  BY <1>4, <1>6, LeaveAlike
<1> QED
  BY <1>3, <1>5, <1>7

\* a fee,
LEMMA FeePaidAlike ==
    ASSUME NEW r, NEW q, NEW b, NEW c, NEW at \in Int, Same(b, c, at), NEW e, EventType(e)
    PROVE  Same(FeePaid(r, b, e, at), FeePaid(q, c, e, at), at)
<1> DEFINE d == Debit(r, b, e.fee, e.fee.quantity, at, "spent")
           f == Debit(q, c, e.fee, e.fee.quantity, at, "spent")
<1>1. e.fee.quantity \in Nat
  BY EntryFacts
<1>2. Same(d.book, f.book, at)
  BY <1>1, DebitAlike
<1>3. Leaves(d.book, FeePaid(r, b, e, at)) /\ Leaves(f.book, FeePaid(q, c, e, at))
  BY <1>2, NotesLeave DEF Same, FeePaid
<1> HIDE DEF d, f
<1> QED
  BY <1>2, <1>3, LeaveAlike

\* income,
LEMMA IncomeAlike ==
    ASSUME NEW r, NEW q, NEW b, NEW c, NEW at \in Int, Same(b, c, at), NEW e, EventType(e)
    PROVE  Same(Income(r, b, e, at), Income(q, c, e, at), at)
<1> DEFINE cost == Either(e.override, Earnings(e))
           b1 == Credit(b, e.in, e.in.quantity, cost, at)
           c1 == Credit(c, e.in, e.in.quantity, cost, at)
           d  == Debit(r, b, e.out, e.out.quantity, at, "spent")
           f  == Debit(q, c, e.out, e.out.quantity, at, "spent")
<1>1. Enters(e.in, e.in.quantity) /\ IsCost(cost) /\ e.out.quantity \in Nat
  BY EntryFacts, CostsBooked
<1>2. Same(d.book, f.book, at)
  BY <1>1, DebitAlike
<1>3. Same(b1, c1, at)
  <2> HIDE DEF cost
  <2> QED
    BY <1>1, CreditAlike
<1>4. /\ Income(r, b, e, at) = IF e.in.quantity > 0
                               THEN AddPnl(b1, "income", e.in.quantity, e.in.quantity, Earnings(e), 0)
                               ELSE AddPnl(d.book, "income", e.out.quantity, Quantity(d.pieces), 0,
                                           Either(Value(e.out), KnownCost(d.pieces)))
      /\ Income(q, c, e, at) = IF e.in.quantity > 0
                               THEN AddPnl(c1, "income", e.in.quantity, e.in.quantity, Earnings(e), 0)
                               ELSE AddPnl(f.book, "income", e.out.quantity, Quantity(f.pieces), 0,
                                           Either(Value(e.out), KnownCost(f.pieces)))
  BY DEF Income, Earnings
<1> HIDE DEF b1, c1, d, f
<1>5. CASE e.in.quantity > 0
  <2>1. Leaves(b1, Income(r, b, e, at)) /\ Leaves(c1, Income(q, c, e, at))
    BY <1>3, <1>4, <1>5, NotesLeave DEF Same
  <2> QED
    BY <1>3, <2>1, LeaveAlike
<1>6. CASE ~(e.in.quantity > 0)
  <2>1. Leaves(d.book, Income(r, b, e, at)) /\ Leaves(f.book, Income(q, c, e, at))
    BY <1>2, <1>4, <1>6, NotesLeave DEF Same
  <2> QED
    BY <1>2, <2>1, LeaveAlike
<1> QED
  BY <1>5, <1>6

\* and a derivative's settlement.
LEMMA SettledAlike ==
    ASSUME NEW r, NEW q, NEW b, NEW c, NEW at \in Int, Same(b, c, at), NEW e, EventType(e)
    PROVE  Same(Settled(r, b, e, at), Settled(q, c, e, at), at)
<1>1. ASSUME NEW run, NEW s, GoodBook(s)
      PROVE  Leaves(s, Settled(run, s, e, at))
  <2> DEFINE cost == Plus(Value(e.out), Value(e.fee))
             x == AddPnl(s, "derivative", 0, 0, Value(e.in), cost)
             y == AddPnl(s, "derivative", 0, 0, Unknown, Unknown)
  <2>1. Settled(run, s, e, at) = IF Known(Value(e.in)) /\ Known(cost) THEN x ELSE Warn(y)
    BY DEF Settled
  <2>2. Leaves(s, x) /\ Leaves(s, y) /\ GoodBook(y)
    BY <1>1, NotesLeave DEF Leaves
  <2> HIDE DEF x, y
  <2>3. Leaves(y, Warn(y))
    BY <2>2, NotesLeave
  <2>4. Leaves(s, Warn(y))
    BY <2>2, <2>3 DEF Leaves
  <2> QED
    BY <2>1, <2>2, <2>4
<1>2. Leaves(b, Settled(r, b, e, at)) /\ Leaves(c, Settled(q, c, e, at))
  BY <1>1 DEF Same
<1> QED
  BY <1>2, LeaveAlike

\* All runs that have not failed have found the same.
Level == \A r, q \in Runs : Live(r) /\ Live(q) => Alike(books[r], books[q], clock)

\* Books that are alike at a moment are alike later.
LEMMA AlikeLater ==
    ASSUME NEW b, NEW c, NEW at \in Int, Alike(b, c, at), NEW later \in Int, at <= later
    PROVE  Alike(b, c, later)
BY DEF Alike

\* Posting books that are alike keeps the runs level,
LEMMA PostLevel ==
    ASSUME Reconciled, Level, NEW handled, NEW holdings, Post(handled, holdings),
           \A r, q \in Runs : Same(books[r], books[q], clock) => Same(handled[r], handled[q], clock)
    PROVE  Level'
<1>1. /\ clock \in Int /\ clock' = clock + 1
      /\ \A r \in Runs : /\ ~handled[r].rounds
                         /\ books'[r] = IF books[r].status = "FAILED" \/ handled[r].status = "FAILED"
                                        THEN FailedBook ELSE handled[r]
  BY DEF Post, Reconciled
<1> SUFFICES ASSUME NEW r \in Runs, NEW q \in Runs, books'[r].status # "FAILED", books'[q].status # "FAILED"
             PROVE  Alike(books'[r], books'[q], clock')
  BY DEF Level, Live
<1>2. /\ books[r].status # "FAILED" /\ books'[r] = handled[r]
      /\ books[q].status # "FAILED" /\ books'[q] = handled[q]
  BY <1>1 DEF FailedBook, EmptyBook
<1>3. Same(books[r], books[q], clock)
  BY <1>2 DEF Level, Live, Same, Reconciled
<1>4. Alike(handled[r], handled[q], clock)
  <2>1. Same(handled[r], handled[q], clock)
    BY <1>3
  <2> QED
    BY <1>1, <2>1 DEF Same
<1>5. Alike(handled[r], handled[q], clock + 1)
  BY <1>1, <1>4, AlikeLater
<1> QED
  BY <1>1, <1>2, <1>5

\* and so does their end.
LEMMA FinishLevel ==
    ASSUME Reconciled, Level, Finish
    PROVE  Level'
<1>1. /\ clock \in Int /\ clock' \in Int /\ clock <= clock'
      /\ \A r \in Runs : books'[r] = IF books[r].status = "FAILED" THEN books[r] ELSE Closed(books[r])
  BY CostAssumption DEF Finish, Reconciled
<1> SUFFICES ASSUME NEW r \in Runs, NEW q \in Runs, books'[r].status # "FAILED", books'[q].status # "FAILED"
             PROVE  Alike(books'[r], books'[q], clock')
  BY DEF Level, Live
<1>2. /\ books[r].status # "FAILED" /\ books'[r] = Closed(books[r])
      /\ books[q].status # "FAILED" /\ books'[q] = Closed(books[q])
  BY <1>1
<1>3. Alike(books[r], books[q], clock')
  <2>1. Alike(books[r], books[q], clock)
    BY <1>2 DEF Level, Live
  <2> QED
    BY <1>1, <2>1, AlikeLater
<1>4. ASSUME NEW b, GoodBook(b)
      PROVE  /\ Closed(b).missing = b.missing
             /\ \A k, D : Stock(Closed(b).lots, k, D) = Stock(b.lots, k, D)
  <2>1. DOMAIN b = Fields /\ GoodLots(b.lots)
    BY <1>4 DEF GoodBook
  <2>2. Closed(b).missing = b.missing /\ Closed(b).lots = Flushed(b.lots)
    BY <2>1 DEF Closed, Fields
  <2>3. \A k, D : Stock(Flushed(b.lots), k, D) = Stock(b.lots, k, D)
    BY <2>1, FlushKeeps
  <2> QED
    BY <2>2, <2>3
<1>5. GoodBook(books[r]) /\ GoodBook(books[q])
  BY DEF Reconciled
<1> QED
  BY <1>2, <1>3, <1>4, <1>5 DEF Alike

\* Every step keeps the runs level.
LEMMA StepLevels ==
    ASSUME Reconciled, Level, [Next]_vars
    PROVE  Level'
<1>1. clock \in Int
  BY DEF Reconciled
<1>2. \A e \in Ledger : EventType(e)
  BY CostAssumption
<1>3. CASE Finish
  BY <1>3, FinishLevel
<1>4. CASE UNCHANGED vars
  BY <1>4 DEF vars, Level, Live
<1>5. ASSUME NEW e \in Ledger, Buy(e)
      PROVE  Level'
  <2> DEFINE handled == [r \in Runs |-> Bought(r, books[r], e, clock)]
  <2>1. Post(handled, Held(e))
    BY <1>5 DEF Buy
  <2>2. \A r, q \in Runs : Same(books[r], books[q], clock) =>
           Same(Bought(r, books[r], e, clock), Bought(q, books[q], e, clock), clock)
    BY <1>1, <1>2, BoughtAlike
  <2>3. \A r, q \in Runs : Same(books[r], books[q], clock) => Same(handled[r], handled[q], clock)
    BY <2>2
  <2> HIDE DEF handled
  <2> QED
    BY <2>1, <2>3, PostLevel
<1>6. ASSUME NEW e \in Ledger, Disposal(e)
      PROVE  Level'
  <2> DEFINE handled == [r \in Runs |-> Disposed(r, books[r], e, clock)]
  <2>1. Post(handled, Held(e))
    BY <1>6 DEF Disposal
  <2>2. \A r, q \in Runs : Same(books[r], books[q], clock) =>
           Same(Disposed(r, books[r], e, clock), Disposed(q, books[q], e, clock), clock)
    BY <1>1, <1>2, DisposedAlike
  <2>3. \A r, q \in Runs : Same(books[r], books[q], clock) => Same(handled[r], handled[q], clock)
    BY <2>2
  <2> HIDE DEF handled
  <2> QED
    BY <2>1, <2>3, PostLevel
<1>7. ASSUME NEW e \in Ledger, InternalTransfer(e)
      PROVE  Level'
  <2> DEFINE handled == [r \in Runs |-> Transferred(r, books[r], e, clock)]
  <2>1. Post(handled, IF clock + e.delay <= AsOf THEN Held(e) ELSE held) /\ e.kind = "transfer"
    BY <1>7 DEF InternalTransfer
  <2>2. \A r, q \in Runs : Same(books[r], books[q], clock) =>
           Same(Transferred(r, books[r], e, clock), Transferred(q, books[q], e, clock), clock)
    BY <1>1, <1>2, <2>1, TransferredAlike
  <2>3. \A r, q \in Runs : Same(books[r], books[q], clock) => Same(handled[r], handled[q], clock)
    BY <2>2
  <2> HIDE DEF handled
  <2> QED
    BY <2>1, <2>3, PostLevel
<1>8. ASSUME NEW e \in Ledger, InlineInternalTransfer(e)
      PROVE  Level'
  <2> DEFINE handled == [r \in Runs |-> TransferredInline(r, books[r], e, clock)]
  <2>1. Post(handled, Held(e))
    BY <1>8 DEF InlineInternalTransfer
  <2>2. \A r, q \in Runs : Same(books[r], books[q], clock) =>
           Same(TransferredInline(r, books[r], e, clock), TransferredInline(q, books[q], e, clock), clock)
    BY <1>1, <1>2, TransferredInlineAlike
  <2>3. \A r, q \in Runs : Same(books[r], books[q], clock) => Same(handled[r], handled[q], clock)
    BY <2>2
  <2> HIDE DEF handled
  <2> QED
    BY <2>1, <2>3, PostLevel
<1>9. ASSUME NEW e \in Ledger, ExternalInflow(e)
      PROVE  Level'
  <2> DEFINE handled == [r \in Runs |-> Received(r, books[r], e, clock)]
  <2>1. Post(handled, Held(e))
    BY <1>9 DEF ExternalInflow
  <2>2. \A r, q \in Runs : Same(books[r], books[q], clock) =>
           Same(Received(r, books[r], e, clock), Received(q, books[q], e, clock), clock)
    BY <1>1, <1>2, ReceivedAlike
  <2>3. \A r, q \in Runs : Same(books[r], books[q], clock) => Same(handled[r], handled[q], clock)
    BY <2>2
  <2> HIDE DEF handled
  <2> QED
    BY <2>1, <2>3, PostLevel
<1>10. ASSUME NEW e \in Ledger, ExternalOutflow(e)
      PROVE  Level'
  <2> DEFINE handled == [r \in Runs |-> Withdrawn(r, books[r], e, clock)]
  <2>1. Post(handled, Held(e))
    BY <1>10 DEF ExternalOutflow
  <2>2. \A r, q \in Runs : Same(books[r], books[q], clock) =>
           Same(Withdrawn(r, books[r], e, clock), Withdrawn(q, books[q], e, clock), clock)
    BY <1>1, <1>2, WithdrawnAlike
  <2>3. \A r, q \in Runs : Same(books[r], books[q], clock) => Same(handled[r], handled[q], clock)
    BY <2>2
  <2> HIDE DEF handled
  <2> QED
    BY <2>1, <2>3, PostLevel
<1>11. ASSUME NEW e \in Ledger, FeeEvent(e)
      PROVE  Level'
  <2> DEFINE handled == [r \in Runs |-> FeePaid(r, books[r], e, clock)]
  <2>1. Post(handled, Held(e))
    BY <1>11 DEF FeeEvent
  <2>2. \A r, q \in Runs : Same(books[r], books[q], clock) =>
           Same(FeePaid(r, books[r], e, clock), FeePaid(q, books[q], e, clock), clock)
    BY <1>1, <1>2, FeePaidAlike
  <2>3. \A r, q \in Runs : Same(books[r], books[q], clock) => Same(handled[r], handled[q], clock)
    BY <2>2
  <2> HIDE DEF handled
  <2> QED
    BY <2>1, <2>3, PostLevel
<1>12. ASSUME NEW e \in Ledger, IncomeEvent(e)
      PROVE  Level'
  <2> DEFINE handled == [r \in Runs |-> Income(r, books[r], e, clock)]
  <2>1. Post(handled, Held(e))
    BY <1>12 DEF IncomeEvent
  <2>2. \A r, q \in Runs : Same(books[r], books[q], clock) =>
           Same(Income(r, books[r], e, clock), Income(q, books[q], e, clock), clock)
    BY <1>1, <1>2, IncomeAlike
  <2>3. \A r, q \in Runs : Same(books[r], books[q], clock) => Same(handled[r], handled[q], clock)
    BY <2>2
  <2> HIDE DEF handled
  <2> QED
    BY <2>1, <2>3, PostLevel
<1>13. ASSUME NEW e \in Ledger, Repay(e)
      PROVE  Level'
  <2> DEFINE handled == [r \in Runs |-> Repaid(r, books[r], e, clock)]
  <2>1. Post(handled, Held(e))
    BY <1>13 DEF Repay
  <2>2. \A r, q \in Runs : Same(books[r], books[q], clock) =>
           Same(Repaid(r, books[r], e, clock), Repaid(q, books[q], e, clock), clock)
    BY <1>1, <1>2, WithdrawnAlike
  <2>3. \A r, q \in Runs : Same(books[r], books[q], clock) => Same(handled[r], handled[q], clock)
    BY <2>2
  <2> HIDE DEF handled
  <2> QED
    BY <2>1, <2>3, PostLevel
<1>14. ASSUME NEW e \in Ledger, Borrow(e)
      PROVE  Level'
  <2> DEFINE handled == [r \in Runs |-> Borrowed(r, books[r], e, clock)]
  <2>1. Post(handled, Held(e))
    BY <1>14 DEF Borrow
  <2>2. \A r, q \in Runs : Same(books[r], books[q], clock) =>
           Same(Borrowed(r, books[r], e, clock), Borrowed(q, books[q], e, clock), clock)
    BY <1>1, <1>2, ReceivedAlike
  <2>3. \A r, q \in Runs : Same(books[r], books[q], clock) => Same(handled[r], handled[q], clock)
    BY <2>2
  <2> HIDE DEF handled
  <2> QED
    BY <2>1, <2>3, PostLevel
<1>15. ASSUME NEW e \in Ledger, ManualAdjustment(e)
      PROVE  Level'
  <2> DEFINE handled == [r \in Runs |-> Adjusted(r, books[r], e, clock)]
  <2>1. Post(handled, Held(e))
    BY <1>15 DEF ManualAdjustment
  <2>2. \A r, q \in Runs : Same(books[r], books[q], clock) =>
           Same(Adjusted(r, books[r], e, clock), Adjusted(q, books[q], e, clock), clock)
    BY <1>1, <1>2, ReceivedAlike
  <2>3. \A r, q \in Runs : Same(books[r], books[q], clock) => Same(handled[r], handled[q], clock)
    BY <2>2
  <2> HIDE DEF handled
  <2> QED
    BY <2>1, <2>3, PostLevel
<1>16. ASSUME NEW e \in Ledger, Derivative(e)
      PROVE  Level'
  <2> DEFINE handled == [r \in Runs |-> Settled(r, books[r], e, clock)]
  <2>1. Post(handled, held)
    BY <1>16 DEF Derivative
  <2>2. \A r, q \in Runs : Same(books[r], books[q], clock) =>
           Same(Settled(r, books[r], e, clock), Settled(q, books[q], e, clock), clock)
    BY <1>1, <1>2, SettledAlike
  <2>3. \A r, q \in Runs : Same(books[r], books[q], clock) => Same(handled[r], handled[q], clock)
    BY <2>2
  <2> HIDE DEF handled
  <2> QED
    BY <2>1, <2>3, PostLevel
<1> QED
  BY <1>3, <1>4, <1>5, <1>6, <1>7, <1>8, <1>9, <1>10, <1>11, <1>12, <1>13, <1>14, <1>15, <1>16 DEF Next

\* The method decides which lots are used up, never how much is found: on every ledger,
\* balanced or not, the runs that succeed report the same shortages, whether _consume goes
\* by FIFO, by LIFO or by average cost.
THEOREM MethodsAlwaysAgree == Spec => []MethodsAgree
<1>1. Init => Level
  BY DEF Init, Level, Alike
<1>2. Reconciled /\ Level /\ [Next]_vars => Level'
  BY StepLevels
<1>3. Reconciled /\ Level => MethodsAgree
  <2> SUFFICES ASSUME Reconciled, Level, NEW r \in Runs, NEW q \in Runs, Live(r), Live(q)
               PROVE  books[r].missing = books[q].missing
    BY DEF MethodsAgree
  <2>1. books[r].missing \in [Keys -> Nat] /\ books[q].missing \in [Keys -> Nat]
    BY DEF Reconciled, GoodBook
  <2>2. \A k \in Keys : books[r].missing[k] = books[q].missing[k]
    BY DEF Level, Alike
  <2> QED
    BY <2>1, <2>2
<1> QED
  BY <1>1, <1>2, <1>3, AlwaysReconciled, PTL DEF Spec

-----------------------------------------------------------------------------
(* Identifiers of lots.  They enter a run only through Precedes, and the average  *)
(* cost method never asks for it: two average cost runs do the same at every call *)
(* of _consume, in every handler, and their books are equal after every event.    *)

\* Runs of the default method.
Average(r) == r.method = "AVERAGE_COST"

\* Whatever was rebuilt so far, all average cost runs have rebuilt the same.
SameBooks == \A r, q \in Runs : Average(r) /\ Average(q) =>
                books[r] = books[q] /\ positions[r] = positions[q]

\* _consume takes the same from each lot in two average cost runs,
LEMMA ConsumeIgnoresIds ==
    ASSUME NEW r, NEW q, Average(r), Average(q),
           NEW lots, NEW account, NEW asset, NEW quantity, NEW at
    PROVE  Consume(r, lots, account, asset, quantity, at)
              = Consume(q, lots, account, asset, quantity, at)
BY DEF Consume, Take, DividesByZero, Average

\* so what _consume adds to a book is the same,
LEMMA DebitIgnoresIds ==
    ASSUME NEW r, NEW q, Average(r), Average(q),
           NEW book, NEW x, NEW quantity, NEW at, NEW use
    PROVE  Debit(r, book, x, quantity, at, use) = Debit(q, book, x, quantity, at, use)
<1>1. Consume(r, book.lots, x.account, x.asset, quantity, at)
        = Consume(q, book.lots, x.account, x.asset, quantity, at)
  BY ConsumeIgnoresIds
<1> QED
  BY <1>1 DEF Debit

\* for what is paid and for what is recorded as an expense as well,
LEMMA SpendIgnoresIds ==
    ASSUME NEW r, NEW q, Average(r), Average(q), NEW book, NEW x, NEW at
    PROVE  /\ Spend(r, book, x, at) = Spend(q, book, x, at)
           /\ Expense(r, book, x, at) = Expense(q, book, x, at)
<1>1. Debit(r, book, x, x.quantity, at, "spent") = Debit(q, book, x, x.quantity, at, "spent")
  BY DebitIgnoresIds
<1> QED
  BY <1>1 DEF Spend, Expense

\* and every handler of _process_event leaves the same book behind.
LEMMA HandlersIgnoreIds ==
    ASSUME NEW r, NEW q, Average(r), Average(q), NEW book, NEW e, NEW at
    PROVE  /\ Bought(r, book, e, at) = Bought(q, book, e, at)
           /\ Disposed(r, book, e, at) = Disposed(q, book, e, at)
           /\ Transferred(r, book, e, at) = Transferred(q, book, e, at)
           /\ TransferredInline(r, book, e, at) = TransferredInline(q, book, e, at)
           /\ Received(r, book, e, at) = Received(q, book, e, at)
           /\ Withdrawn(r, book, e, at) = Withdrawn(q, book, e, at)
           /\ FeePaid(r, book, e, at) = FeePaid(q, book, e, at)
           /\ Income(r, book, e, at) = Income(q, book, e, at)
           /\ Repaid(r, book, e, at) = Repaid(q, book, e, at)
           /\ Borrowed(r, book, e, at) = Borrowed(q, book, e, at)
           /\ Adjusted(r, book, e, at) = Adjusted(q, book, e, at)
           /\ Settled(r, book, e, at) = Settled(q, book, e, at)
<1>1. \A b, x, n, use : Debit(r, b, x, n, at, use) = Debit(q, b, x, n, at, use)
  BY DebitIgnoresIds
<1>2. \A b, x : /\ Spend(r, b, x, at) = Spend(q, b, x, at)
                /\ Expense(r, b, x, at) = Expense(q, b, x, at)
  BY SpendIgnoresIds
<1>3. \A b : SpendFee(r, b, e, at) = SpendFee(q, b, e, at)
  BY <1>2 DEF SpendFee
<1>4. Bought(r, book, e, at) = Bought(q, book, e, at)
  BY <1>2, <1>3 DEF Bought
<1>5. Disposed(r, book, e, at) = Disposed(q, book, e, at)
  BY <1>1, <1>3 DEF Disposed
<1>6. Transferred(r, book, e, at) = Transferred(q, book, e, at)
  BY <1>1, <1>2 DEF Transferred
<1>7. TransferredInline(r, book, e, at) = TransferredInline(q, book, e, at)
  BY <1>1, <1>2 DEF TransferredInline
<1>8. Withdrawn(r, book, e, at) = Withdrawn(q, book, e, at)
  BY <1>2 DEF Withdrawn
<1>9. FeePaid(r, book, e, at) = FeePaid(q, book, e, at)
  BY <1>1 DEF FeePaid
<1>10. Income(r, book, e, at) = Income(q, book, e, at)
  BY <1>1 DEF Income
<1>11. /\ Repaid(r, book, e, at) = Repaid(q, book, e, at)
       /\ Adjusted(r, book, e, at) = Adjusted(q, book, e, at)
  BY <1>2 DEF Repaid, Adjusted
<1>12. /\ Received(r, book, e, at) = Received(q, book, e, at)
       /\ Borrowed(r, book, e, at) = Borrowed(q, book, e, at)
       /\ Settled(r, book, e, at) = Settled(q, book, e, at)
  BY DEF Received, Borrowed, Settled
<1> QED
  BY <1>4, <1>5, <1>6, <1>7, <1>8, <1>9, <1>10, <1>11, <1>12

\* Finish keeps them equal too: the runs see the same balance snapshots.
LEMMA FinishKeepsSame ==
    ASSUME SameBooks, Finish
    PROVE  SameBooks'
BY DEF SameBooks, Finish

\* No step tells two average cost runs apart.
LEMMA StepKeepsSame ==
    ASSUME SameBooks, [Next]_vars
    PROVE  SameBooks'
<1>1. ASSUME NEW r \in Runs, NEW q \in Runs, Average(r) /\ Average(q)
      PROVE  books[r] = books[q]
  BY <1>1 DEF SameBooks
<1>2. CASE Finish
  BY <1>2, FinishKeepsSame
<1>3. CASE UNCHANGED vars
  BY <1>3 DEF SameBooks, vars
<1>4. ASSUME NEW e \in Ledger, Buy(e)
      PROVE  SameBooks'
  <2>1. \A r, q \in Runs : Average(r) /\ Average(q) =>
           Bought(r, books[r], e, clock) = Bought(q, books[q], e, clock)
    BY <1>1, HandlersIgnoreIds
  <2> QED
    BY <2>1, <1>4 DEF Buy, Post, SameBooks
<1>5. ASSUME NEW e \in Ledger, Disposal(e)
      PROVE  SameBooks'
  <2>1. \A r, q \in Runs : Average(r) /\ Average(q) =>
           Disposed(r, books[r], e, clock) = Disposed(q, books[q], e, clock)
    BY <1>1, HandlersIgnoreIds
  <2> QED
    BY <2>1, <1>5 DEF Disposal, Post, SameBooks
<1>6. ASSUME NEW e \in Ledger, InternalTransfer(e)
      PROVE  SameBooks'
  <2>1. \A r, q \in Runs : Average(r) /\ Average(q) =>
           Transferred(r, books[r], e, clock) = Transferred(q, books[q], e, clock)
    BY <1>1, HandlersIgnoreIds
  <2> QED
    BY <2>1, <1>6 DEF InternalTransfer, Post, SameBooks
<1>7. ASSUME NEW e \in Ledger, InlineInternalTransfer(e)
      PROVE  SameBooks'
  <2>1. \A r, q \in Runs : Average(r) /\ Average(q) =>
           TransferredInline(r, books[r], e, clock) = TransferredInline(q, books[q], e, clock)
    BY <1>1, HandlersIgnoreIds
  <2> QED
    BY <2>1, <1>7 DEF InlineInternalTransfer, Post, SameBooks
<1>8. ASSUME NEW e \in Ledger, ExternalInflow(e)
      PROVE  SameBooks'
  <2>1. \A r, q \in Runs : Average(r) /\ Average(q) =>
           Received(r, books[r], e, clock) = Received(q, books[q], e, clock)
    BY <1>1, HandlersIgnoreIds
  <2> QED
    BY <2>1, <1>8 DEF ExternalInflow, Post, SameBooks
<1>9. ASSUME NEW e \in Ledger, ExternalOutflow(e)
      PROVE  SameBooks'
  <2>1. \A r, q \in Runs : Average(r) /\ Average(q) =>
           Withdrawn(r, books[r], e, clock) = Withdrawn(q, books[q], e, clock)
    BY <1>1, HandlersIgnoreIds
  <2> QED
    BY <2>1, <1>9 DEF ExternalOutflow, Post, SameBooks
<1>10. ASSUME NEW e \in Ledger, FeeEvent(e)
      PROVE  SameBooks'
  <2>1. \A r, q \in Runs : Average(r) /\ Average(q) =>
           FeePaid(r, books[r], e, clock) = FeePaid(q, books[q], e, clock)
    BY <1>1, HandlersIgnoreIds
  <2> QED
    BY <2>1, <1>10 DEF FeeEvent, Post, SameBooks
<1>11. ASSUME NEW e \in Ledger, IncomeEvent(e)
      PROVE  SameBooks'
  <2>1. \A r, q \in Runs : Average(r) /\ Average(q) =>
           Income(r, books[r], e, clock) = Income(q, books[q], e, clock)
    BY <1>1, HandlersIgnoreIds
  <2> QED
    BY <2>1, <1>11 DEF IncomeEvent, Post, SameBooks
<1>12. ASSUME NEW e \in Ledger, Repay(e)
      PROVE  SameBooks'
  <2>1. \A r, q \in Runs : Average(r) /\ Average(q) =>
           Repaid(r, books[r], e, clock) = Repaid(q, books[q], e, clock)
    BY <1>1, HandlersIgnoreIds
  <2> QED
    BY <2>1, <1>12 DEF Repay, Post, SameBooks
<1>13. ASSUME NEW e \in Ledger, Borrow(e)
      PROVE  SameBooks'
  <2>1. \A r, q \in Runs : Average(r) /\ Average(q) =>
           Borrowed(r, books[r], e, clock) = Borrowed(q, books[q], e, clock)
    BY <1>1, HandlersIgnoreIds
  <2> QED
    BY <2>1, <1>13 DEF Borrow, Post, SameBooks
<1>14. ASSUME NEW e \in Ledger, ManualAdjustment(e)
      PROVE  SameBooks'
  <2>1. \A r, q \in Runs : Average(r) /\ Average(q) =>
           Adjusted(r, books[r], e, clock) = Adjusted(q, books[q], e, clock)
    BY <1>1, HandlersIgnoreIds
  <2> QED
    BY <2>1, <1>14 DEF ManualAdjustment, Post, SameBooks
<1>15. ASSUME NEW e \in Ledger, Derivative(e)
      PROVE  SameBooks'
  <2>1. \A r, q \in Runs : Average(r) /\ Average(q) =>
           Settled(r, books[r], e, clock) = Settled(q, books[q], e, clock)
    BY <1>1, HandlersIgnoreIds
  <2> QED
    BY <2>1, <1>15 DEF Derivative, Post, SameBooks
<1> QED
  BY <1>2, <1>3, <1>4, <1>5, <1>6, <1>7, <1>8, <1>9, <1>10, <1>11, <1>12, <1>13, <1>14, <1>15 DEF Next

\* Lots acquired at the same moment, which FIFO and LIFO use up in a random order,
\* make no difference to the default method: on every ledger, whatever the balance
\* snapshots say, two average cost runs (_consume_average) realize the same gains
\* and end with the same positions.
THEOREM AverageRebuildable == Spec => []AverageIsRebuildable
<1>1. Init => SameBooks
  BY DEF Init, SameBooks
<1>2. SameBooks /\ [Next]_vars => SameBooks'
  BY StepKeepsSame
<1>3. SameBooks => AverageIsRebuildable
  <2> SUFFICES ASSUME SameBooks, NEW r \in Runs, NEW q \in Runs,
                      {r.method, q.method} = {"AVERAGE_COST"}
               PROVE  SameResult(r, q)
    BY DEF AverageIsRebuildable
  <2>1. r.method = "AVERAGE_COST" /\ q.method = "AVERAGE_COST"
    OBVIOUS
  <2>2. books[r] = books[q] /\ positions[r] = positions[q]
    BY <2>1 DEF SameBooks, Average
  <2> QED
    BY <2>2 DEF SameResult
<1> QED
  BY <1>1, <1>2, <1>3, PTL DEF Spec
=============================================================================
