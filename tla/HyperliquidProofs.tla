---------------------------- MODULE HyperliquidProofs ----------------------------
(***************************************************************************)
(* The fills of Hyperliquid, read page by page: what _paginate_fills       *)
(* returns is an answer to the whole range, or says that it is cut off.    *)
(***************************************************************************)
EXTENDS HyperliquidSync, FiniteLemmas

\* Where the next page starts,
First(start, got) == IF got = {} THEN start ELSE NextPage(got)
\* and what it lists.
Page(items, start, got) == Earliest(PageSize, {e \in items : TimeOf(e) >= First(start, got)})

\* What is read once `got' has been, when f says it of more.
Further(items, start, limit, f, got) ==
    LET page == Page(items, start, got)
        all == got \cup page
    IN IF page = {} THEN [items |-> got, truncated |-> FALSE]
             ELSE IF Cardinality(all) >= limit
                  THEN [items |-> Earliest(limit, all), truncated |-> TRUE]
             ELSE IF Cardinality(page) < PageSize THEN [items |-> all, truncated |-> FALSE]
             ELSE IF all = got THEN [items |-> got, truncated |-> TRUE]
             ELSE f[all]

\* The loop over the pages, as a function of what has been read.
Loop(items, start, limit) ==
    CHOOSE f : f = [got \in SUBSET items |-> Further(items, start, limit, f, got)]

\* _paginate_fills starts it with nothing.
LEMMA PagesIs ==
    ASSUME NEW items, NEW start, NEW limit
    PROVE  Pages(items, start, limit) = Loop(items, start, limit)[{}]
  BY Zenon DEF Pages, Loop, Further, Page, First

\* The first events of a set: they come before the others, and fewer than asked
\* for are all there are.
LEMMA EarliestIs ==
    ASSUME NEW events \in SUBSET Events, NEW n \in Nat
    PROVE  /\ Earliest(n, events) \subseteq events
           /\ \A e \in events, m \in Earliest(n, events) :
                TimeOf(e) < TimeOf(m) => e \in Earliest(n, events)
           /\ Cardinality(Earliest(n, events)) < n => events \subseteq Earliest(n, events)
<1> DEFINE Before(e) == {d \in events : Earlier(d, e)}
           E == Earliest(n, events)
<1>1. \A e \in events : TimeOf(e) \in Int /\ e \in Int
  BY ConstantsAssumption DEF TimeOf, Item, Instants
<1>2. IsFiniteSet(events)
  BY ConstantsAssumption, FS_Subset
<1>3. \A e \in events : IsFiniteSet(Before(e)) /\ Cardinality(Before(e)) \in Nat
  BY <1>2, FS_Subset, FS_CardinalityType
<1>4. E \subseteq events /\ \A e \in events : e \in E <=> Cardinality(Before(e)) < n
  BY DEF Earliest
<1>5. \A e, m \in events : Earlier(e, m) => Before(e) \subseteq Before(m)
  BY <1>1 DEF Earlier
<1>6. \A e, m \in events : TimeOf(e) < TimeOf(m) => Earlier(e, m)
  BY DEF Earlier
<1>7. \A e, m \in events : Before(e) \subseteq Before(m) => Cardinality(Before(e)) <= Cardinality(Before(m))
  BY <1>3, FS_Subset
<1>8. ASSUME NEW e \in events, NEW m \in E, Earlier(e, m)
      PROVE  e \in E
  <2>1. Cardinality(Before(e)) <= Cardinality(Before(m)) /\ m \in events
    BY <1>4, <1>5, <1>7, <1>8
  <2>2. Cardinality(Before(m)) < n
    BY <1>4, <2>1
  <2>3. Cardinality(Before(e)) < n
    <3> HIDE DEF Before
    <3> QED
      BY <1>3, <2>1, <2>2
  <2> QED
    BY <1>4, <2>3
<1>9. ASSUME Cardinality(E) < n, NEW x \in events \ E
      PROVE  FALSE
  <2> DEFINE T == {Before(e) : e \in events \ E}
  <2>1. T \subseteq SUBSET events /\ T # {}
    OBVIOUS
  <2> HIDE DEF T
  <2>2. \E U \in T : \A V \in T : V \subseteq U => V = U
    BY <1>2, <2>1, SmallestPart
  <2> HIDE DEF Before
  <2>3. PICK e \in events \ E : \A d \in events \ E : Before(d) \subseteq Before(e) => Before(d) = Before(e)
    BY <2>2 DEF T
  <2> USE DEF Before
  <2>4. \A d \in Before(e) : d \notin Before(d) /\ d \in events /\ Earlier(d, e)
    BY <1>1 DEF Earlier
  <2>5. Before(e) \subseteq E
    BY <1>5, <2>3, <2>4
  <2>6. IsFiniteSet(E) /\ Cardinality(E) \in Nat
    BY <1>2, <1>4, FS_Subset, FS_CardinalityType
  <2>7. Cardinality(Before(e)) <= Cardinality(E)
    BY <2>5, <2>6, FS_Subset
  <2>8. ~(Cardinality(Before(e)) < n)
    BY <1>4, <2>3
  <2> HIDE DEF Before, E
  <2> QED
    BY <1>3, <1>9, <2>6, <2>7, <2>8
<1> HIDE DEF E, Before
<1> QED
  BY <1>4, <1>6, <1>8, <1>9 DEF E

\* The loop over the pages ends: a page that brings nothing new is the last one.
LEMMA LoopIs ==
    ASSUME NEW items, IsFiniteSet(items), NEW start, NEW limit
    PROVE  \A got \in SUBSET items :
             Loop(items, start, limit)[got] =
               Further(items, start, limit, Loop(items, start, limit), got)
<1> DEFINE Left(n) == {got \in SUBSET items : Cardinality(items \ got) <= n}
           F(f, got) == Further(items, start, limit, f, got)
           Solved(n) == \E f : f = [got \in Left(n) |-> F(f, got)]
           All(got) == got \cup Page(items, start, got)
<1>1. \A got \in SUBSET items : All(got) \in SUBSET items
  BY DEF Page, Earliest
<1>2. \A got \in SUBSET items : IsFiniteSet(items \ got) /\ Cardinality(items \ got) \in Nat
  BY FS_Subset, FS_CardinalityType
<1>3. \A f, g, got : (All(got) # got => f[All(got)] = g[All(got)]) => F(f, got) = F(g, got)
  BY Zenon DEF Further
<1>4. \A got \in SUBSET items :
        All(got) # got => Cardinality(items \ All(got)) < Cardinality(items \ got)
  <2> SUFFICES ASSUME NEW got \in SUBSET items, All(got) # got
               PROVE  Cardinality(items \ All(got)) < Cardinality(items \ got)
    OBVIOUS
  <2>1. items \ All(got) \subseteq items \ got /\ items \ All(got) # items \ got
    BY <1>1
  <2>2. All(got) \in SUBSET items
    BY <1>1
  <2>3. IsFiniteSet(items \ got) /\ Cardinality(items \ got) \in Nat
    BY <1>2
  <2>4. IsFiniteSet(items \ All(got)) /\ Cardinality(items \ All(got)) \in Nat
    BY <1>2, <2>2
  <2> DEFINE A == items \ All(got)
             B == items \ got
  <2> HIDE DEF A, B
  <2>5. A \in SUBSET B /\ A # B
    BY <2>1 DEF A, B
  <2>6. Cardinality(A) <= Cardinality(B) /\ Cardinality(A) # Cardinality(B)
    BY <2>3, <2>5, FS_Subset DEF B
  <2>7. Cardinality(A) < Cardinality(B)
    BY <2>3, <2>4, <2>6 DEF A, B
  <2> QED
    BY <2>7 DEF A, B
<1> HIDE DEF F, All
<1>5. Solved(0)
  <2> DEFINE g == [got \in Left(0) |-> F(<<>>, got)]
  <2>1. ASSUME NEW got \in Left(0)
        PROVE  All(got) = got
    <3>1. All(got) \in SUBSET items /\ got \in SUBSET items
      BY <1>1
    <3>2. Cardinality(items \ got) \in Nat /\ Cardinality(items \ All(got)) \in Nat
      BY <1>2, <3>1
    <3>3. Cardinality(items \ got) <= 0
      OBVIOUS
    <3>4. ~(Cardinality(items \ All(got)) < Cardinality(items \ got))
      BY <3>2, <3>3
    <3> QED
      BY <1>4, <3>1, <3>4
  <2>2. \A got \in Left(0) : F(<<>>, got) = F(g, got)
    BY <1>3, <2>1, Zenon
  <2>3. g = [got \in Left(0) |-> F(g, got)]
    BY <2>2, Zenon
  <2> QED
    BY <2>3
<1>6. ASSUME NEW n \in Nat, Solved(n)
      PROVE  Solved(n + 1)
  <2>1. PICK f : f = [got \in Left(n) |-> F(f, got)]
    BY <1>6
  <2> DEFINE g == [got \in Left(n + 1) |-> F(f, got)]
  <2>2. Left(n) \subseteq Left(n + 1)
    BY <1>2
  <2>3. \A got \in Left(n) : g[got] = f[got]
    BY <2>1, <2>2
  <2>4. \A got \in Left(n + 1) : All(got) # got => All(got) \in Left(n)
    <3> SUFFICES ASSUME NEW got \in Left(n + 1), All(got) # got
                 PROVE  All(got) \in Left(n)
      OBVIOUS
    <3>1. All(got) \in SUBSET items /\ got \in SUBSET items
      BY <1>1
    <3>2. Cardinality(items \ got) \in Nat /\ Cardinality(items \ All(got)) \in Nat
      BY <1>2, <3>1
    <3>3. Cardinality(items \ got) <= n + 1
      OBVIOUS
    <3>4. Cardinality(items \ All(got)) < Cardinality(items \ got)
      BY <1>4, <3>1
    <3>5. Cardinality(items \ All(got)) <= n
      BY <3>2, <3>3, <3>4
    <3> QED
      BY <3>1, <3>5
  <2> HIDE DEF Left
  <2>5. \A got \in Left(n + 1) : All(got) # got => f[All(got)] = g[All(got)]
    BY <2>3, <2>4, Zenon
  <2> HIDE DEF g
  <2>6. \A got \in Left(n + 1) : F(f, got) = F(g, got)
    BY <1>3, <2>5, Zenon
  <2> USE DEF g
  <2>7. g = [got \in Left(n + 1) |-> F(g, got)]
    BY <2>6, Zenon
  <2> HIDE DEF g
  <2> QED
    BY <2>7
<1> HIDE DEF Solved
<1>7. Cardinality(items) \in Nat
  BY FS_CardinalityType
<1>8. \A n \in 0..Cardinality(items) : Solved(n)
  <2> DEFINE S == {n \in 0..Cardinality(items) : ~Solved(n)}
  <2>1. IsFiniteSet(S)
    <3>1. IsFiniteSet(0..Cardinality(items))
      BY <1>7, FS_Interval
    <3> QED
      BY <3>1, FS_Subset
  <2>2. S \subseteq Int
    BY <1>7
  <2>3. ASSUME S # {}
        PROVE  FALSE
    <3>1. PICK n \in S : \A m \in S : n <= m
      BY <2>1, <2>2, <2>3, Least
    <3>2. n # 0 /\ n - 1 \in Nat /\ n - 1 \in 0..Cardinality(items) /\ n - 1 < n
      BY <1>5, <1>7, <3>1
    <3>3. Solved(n - 1)
      BY <2>2, <3>1, <3>2
    <3>4. Solved((n - 1) + 1)
      BY <1>6, <3>2, <3>3
    <3>5. (n - 1) + 1 = n
      BY <2>2, <3>1
    <3> QED
      BY <3>1, <3>4, <3>5
  <2> QED
    BY <2>3
<1>9. Left(Cardinality(items)) = SUBSET items
  <2>1. \A got \in SUBSET items : Cardinality(items \ got) <= Cardinality(items)
    BY FS_Subset
  <2> QED
    BY <2>1
<1>10. Solved(Cardinality(items))
  BY <1>7, <1>8
<1> HIDE DEF Left
<1>11. \E f : f = [got \in SUBSET items |-> F(f, got)]
  BY <1>9, <1>10, Zenon DEF Solved
<1>12. Loop(items, start, limit) = [got \in SUBSET items |-> F(Loop(items, start, limit), got)]
  BY <1>11, Zenon DEF Loop, F
<1> QED
  BY <1>12, Zenon DEF F

\* The last instant of some events is the time of one, and none is later.
LEMMA NextPageIs ==
    ASSUME NEW got \in SUBSET Events, got # {}
    PROVE  /\ \E e \in got : TimeOf(e) = NextPage(got)
           /\ \A e \in got : TimeOf(e) <= NextPage(got)
<1> DEFINE T == {TimeOf(e) : e \in got}
<1>1. T # {} /\ T \subseteq Instants
  <2>1. \A e \in got : TimeOf(e) \in Instants
    BY ConstantsAssumption DEF TimeOf, Item
  <2> QED
    BY <2>1
<1>2. IsFiniteSet(T) /\ T \subseteq Int
  <2>1. IsFiniteSet(Instants) /\ Instants \subseteq Int
    BY ConstantsAssumption, FS_Interval DEF Instants
  <2> QED
    BY <1>1, <2>1, FS_Subset
<1> HIDE DEF T
<1>3. \E t \in T : \A u \in T : u <= t
  BY <1>1, <1>2, Greatest
<1>4. \E t \in {TimeOf(e) : e \in got} : \A e \in got : TimeOf(e) <= t
  BY <1>3 DEF T
<1> QED
  BY <1>4 DEF NextPage

\* What the loop has read before a page: all of the range before its first instant.
Behind(items, start, got) ==
    \A e \in items : start <= TimeOf(e) /\ TimeOf(e) < First(start, got) => e \in got

\* What the loop returns: items, all of the range unless it says otherwise.
Whole(items, start, answer) ==
    /\ answer.items \subseteq items
    /\ answer.truncated \in BOOLEAN
    /\ ~answer.truncated => \A e \in items : start <= TimeOf(e) => e \in answer.items

\* Reading a page leaves nothing out behind it.
LEMMA BehindStays ==
    ASSUME NEW items \in SUBSET Events, NEW start \in Int, NEW got \in SUBSET items,
           Behind(items, start, got), Page(items, start, got) # {}
    PROVE  Behind(items, start, got \cup Page(items, start, got))
<1> DEFINE page == Page(items, start, got)
           all == got \cup page
           rest == {e \in items : TimeOf(e) >= First(start, got)}
<1>1. rest \in SUBSET Events /\ PageSize \in Nat
  BY ConstantsAssumption
<1> HIDE DEF rest
<1>2. /\ page \subseteq rest
      /\ \A e \in rest, m \in page : TimeOf(e) < TimeOf(m) => e \in page
  BY <1>1, EarliestIs DEF Page, rest
<1>3. all \in SUBSET Events /\ all # {}
  BY <1>1, <1>2
<1> HIDE DEF page
<1>4. PICK m \in all : TimeOf(m) = NextPage(all)
  BY <1>3, NextPageIs
<1>5. First(start, all) = TimeOf(m)
  BY <1>3, <1>4 DEF First
<1>6. \A e \in Events : TimeOf(e) \in Int
  BY ConstantsAssumption DEF TimeOf, Item, Instants
<1>7. got # {} => First(start, got) = NextPage(got)
  BY DEF First
<1>8. m \in got => TimeOf(m) <= First(start, got) /\ First(start, got) \in Int
  BY <1>6, <1>7, NextPageIs
<1>9. First(start, got) \in Int
  <2>1. CASE got = {}
    BY <2>1 DEF First
  <2>2. CASE got # {}
    BY <1>6, <1>7, <2>2, NextPageIs
  <2> QED
    BY <2>1, <2>2
<1>10. ASSUME NEW e \in items, start <= TimeOf(e), TimeOf(e) < TimeOf(m)
       PROVE  e \in all
  <2>1. CASE TimeOf(e) < First(start, got)
    BY <1>10, <2>1 DEF Behind
  <2>2. CASE ~(TimeOf(e) < First(start, got))
    <3>1. e \in rest
      BY <1>6, <1>9, <2>2 DEF rest
    <3>2. m \notin got
      BY <1>3, <1>6, <1>8, <1>10, <2>2
    <3> QED
      BY <1>2, <1>10, <3>1, <3>2
  <2> QED
    BY <2>1, <2>2
<1> QED
  BY <1>5, <1>10 DEF Behind, page

\* A page that is not full is the last one.
LEMMA LastPage ==
    ASSUME NEW items \in SUBSET Events, NEW start \in Int, NEW got \in SUBSET items,
           Behind(items, start, got), Cardinality(Page(items, start, got)) < PageSize
    PROVE  \A e \in items : start <= TimeOf(e) => e \in got \cup Page(items, start, got)
<1> DEFINE rest == {e \in items : TimeOf(e) >= First(start, got)}
<1>1. rest \in SUBSET Events /\ PageSize \in Nat
  BY ConstantsAssumption
<1> HIDE DEF rest
<1>2. rest \subseteq Page(items, start, got)
  BY <1>1, EarliestIs DEF Page, rest
<1>3. First(start, got) \in Int /\ \A e \in items : TimeOf(e) \in Int
  <2>1. \A e \in Events : TimeOf(e) \in Int
    BY ConstantsAssumption DEF TimeOf, Item, Instants
  <2>2. CASE got = {}
    BY <2>1, <2>2 DEF First
  <2>3. CASE got # {}
    BY <2>1, <2>3, NextPageIs DEF First
  <2> QED
    BY <2>2, <2>3
<1> QED
  BY <1>2, <1>3 DEF Behind, rest

\* If one more page leads to a whole answer, so does what was read before.
LEMMA FurtherIs ==
    ASSUME NEW items \in SUBSET Events, NEW start \in Int, NEW limit \in Nat,
           NEW got \in SUBSET items, Behind(items, start, got), NEW f,
           LET all == got \cup Page(items, start, got)
           IN all # got => Whole(items, start, f[all])
    PROVE  Whole(items, start, Further(items, start, limit, f, got))
<1> DEFINE page == Page(items, start, got)
           all == got \cup page
           answer == Further(items, start, limit, f, got)
<1>1. page \subseteq items
  BY DEF Page, Earliest
<1>2. Cardinality(page) < PageSize => \A e \in items : start <= TimeOf(e) => e \in all
  BY LastPage
<1>3. page = {} => Cardinality(page) < PageSize
  BY ConstantsAssumption, FS_EmptySet
<1>4. all # got => Whole(items, start, f[all])
  OBVIOUS
<1>5. Earliest(limit, all) \subseteq all
  BY DEF Earliest
<1>6. \/ page = {} /\ answer = [items |-> got, truncated |-> FALSE]
      \/ answer = [items |-> Earliest(limit, all), truncated |-> TRUE]
      \/ Cardinality(page) < PageSize /\ answer = [items |-> all, truncated |-> FALSE]
      \/ answer = [items |-> got, truncated |-> TRUE]
      \/ all # got /\ answer = f[all]
  BY Zenon DEF Further
<1> SUFFICES Whole(items, start, answer)
  OBVIOUS
<1> HIDE DEF page, answer
<1>7. CASE page = {} /\ answer = [items |-> got, truncated |-> FALSE]
  BY <1>2, <1>3, <1>7 DEF Whole
<1>8. CASE answer = [items |-> Earliest(limit, all), truncated |-> TRUE]
  BY <1>1, <1>5, <1>8 DEF Whole
<1>9. CASE Cardinality(page) < PageSize /\ answer = [items |-> all, truncated |-> FALSE]
  BY <1>1, <1>2, <1>9 DEF Whole
<1>10. CASE answer = [items |-> got, truncated |-> TRUE]
  BY <1>10 DEF Whole
<1>11. CASE all # got /\ answer = f[all]
  BY <1>4, <1>11
<1> QED
  BY <1>6, <1>7, <1>8, <1>9, <1>10, <1>11

\* The pages of a range hold all its items unless they are said to be truncated.
THEOREM FillsAreWhole ==
    ASSUME NEW items \in SUBSET Events, NEW start \in Int, NEW limit \in Nat
    PROVE  Whole(items, start, Pages(items, start, limit))
<1> DEFINE f == Loop(items, start, limit)
           Bad == {got \in SUBSET items : Behind(items, start, got) /\ ~Whole(items, start, f[got])}
           Left(got) == items \ got
<1>1. IsFiniteSet(items)
  BY ConstantsAssumption, FS_Subset
<1>2. \A got \in SUBSET items : f[got] = Further(items, start, limit, f, got)
  BY <1>1, LoopIs
<1> HIDE DEF f
<1>3. ASSUME Bad # {}
      PROVE  FALSE
  <2> DEFINE T == {Left(got) : got \in Bad}
  <2>1. T \subseteq SUBSET items /\ T # {}
    BY <1>3
  <2> HIDE DEF T
  <2>2. PICK U \in T : \A V \in T : V \subseteq U => V = U
    BY <1>1, <2>1, SmallestPart
  <2>3. PICK got \in Bad : U = Left(got)
    BY DEF T
  <2> DEFINE all == got \cup Page(items, start, got)
  <2>4. all \in SUBSET items /\ got \subseteq all
    BY DEF Page, Earliest
  <2>5. ASSUME all # got
        PROVE  Whole(items, start, f[all])
    <3>1. Page(items, start, got) # {}
      BY <2>5
    <3>2. Behind(items, start, all)
      BY <3>1, BehindStays
    <3> HIDE DEF all
    <3>3. Left(all) \subseteq U /\ Left(all) # U
      BY <2>3, <2>4, <2>5
    <3>4. all \notin Bad
      BY <2>2, <3>3 DEF T
    <3> QED
      BY <2>4, <3>2, <3>4
  <2>6. Whole(items, start, Further(items, start, limit, f, got))
    BY <2>5, FurtherIs
  <2>7. f[got] = Further(items, start, limit, f, got)
    BY <1>2, Zenon
  <2> QED
    BY <2>6, <2>7
<1>4. Behind(items, start, {})
  BY ConstantsAssumption DEF Behind, First, TimeOf, Item, Instants
<1>5. Whole(items, start, f[{}])
  BY <1>3, <1>4
<1> QED
  BY <1>5, PagesIs, Zenon DEF f
=============================================================================
