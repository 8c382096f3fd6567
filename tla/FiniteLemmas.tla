------------------------------ MODULE FiniteLemmas ------------------------------
(***************************************************************************)
(* The first and the last of finitely many numbers: that CHOOSE finds one. *)
(* Sums over finite sets, as MapThenSumSet computes them: that they depend *)
(* on nothing but the numbers, and add up from their parts.                *)
(***************************************************************************)
EXTENDS Integers, FiniteSets, FiniteSetsExt, FiniteSetTheorems, WellFoundedInduction, TLAPS

\* A set of finitely many sets has one that no other is a part of.
LEMMA SmallestPart ==
    \A S, T : IsFiniteSet(S) /\ T \subseteq SUBSET S /\ T # {} =>
        \E U \in T : \A V \in T : V \subseteq U => V = U
<1> SUFFICES ASSUME NEW S, NEW T, IsFiniteSet(S), T \subseteq SUBSET S, T # {}
             PROVE  \E U \in T : \A V \in T : V \subseteq U => V = U
  OBVIOUS
<1>1. IsWellFoundedOn(StrictSubsetOrdering(S), FiniteSubsetsOf(S))
  BY FS_StrictSubsetOrderingWellFounded
<1>2. T \subseteq FiniteSubsetsOf(S)
  BY FS_FiniteSubsetsOfFinite
<1>3. \E U \in T : \A V \in T : ~(<<V, U>> \in StrictSubsetOrdering(S))
  BY <1>1, <1>2, WFMin
<1>4. \A U \in T, V \in T : V \subseteq U /\ V # U => <<V, U>> \in StrictSubsetOrdering(S)
  BY DEF StrictSubsetOrdering
<1> QED
  BY <1>3, <1>4

\* A finite set of numbers that is not empty has a least element,
LEMMA Least ==
    ASSUME NEW S, IsFiniteSet(S), S # {}
    PROVE  S \subseteq Int => \E e \in S : \A d \in S : e <= d
<1> DEFINE Down(x) == {d \in S : d <= x}
           T == {Down(x) : x \in S}
<1>1. T \subseteq SUBSET S
  OBVIOUS
<1>2. T # {}
  OBVIOUS
<1> HIDE DEF T
<1>3. PICK U \in T : \A V \in T : V \subseteq U => V = U
  BY <1>1, <1>2, SmallestPart
<1>4. PICK e \in S : U = Down(e)
  BY DEF T
<1>5. ASSUME S \subseteq Int, NEW d \in S, d < e
      PROVE  FALSE
  <2>1. d \in Int /\ e \in Int
    BY <1>5
  <2>2. \A x \in Down(d) : x \in U
    BY <2>1, <1>4, <1>5
  <2>3. e \in U /\ e \notin Down(d)
    BY <2>1, <1>4, <1>5
  <2>4. Down(d) \in T
    BY DEF T
  <2> QED
    BY <1>3, <2>2, <2>3, <2>4
<1> QED
  BY <1>5

\* and a greatest one.
LEMMA Greatest ==
    ASSUME NEW S, IsFiniteSet(S), S # {}
    PROVE  S \subseteq Int => \E e \in S : \A d \in S : d <= e
<1> DEFINE Up(x) == {d \in S : x <= d}
           T == {Up(x) : x \in S}
<1>1. T \subseteq SUBSET S
  OBVIOUS
<1>2. T # {}
  OBVIOUS
<1> HIDE DEF T
<1>3. PICK U \in T : \A V \in T : V \subseteq U => V = U
  BY <1>1, <1>2, SmallestPart
<1>4. PICK e \in S : U = Up(e)
  BY DEF T
<1>5. ASSUME S \subseteq Int, NEW d \in S, e < d
      PROVE  FALSE
  <2>1. d \in Int /\ e \in Int
    BY <1>5
  <2>2. \A x \in Up(d) : x \in U
    BY <2>1, <1>4, <1>5
  <2>3. e \in U /\ e \notin Up(d)
    BY <2>1, <1>4, <1>5
  <2>4. Up(d) \in T
    BY DEF T
  <2> QED
    BY <1>3, <2>2, <2>3, <2>4
<1> QED
  BY <1>5

-----------------------------------------------------------------------------
(* Sums over finite sets. *)

\* The element that a fold over a set takes out first.
Pick(s) == CHOOSE x \in s : TRUE

\* The fold of MapThenSumSet over S, which the sum of F over S is the value of.
IsFold(F, S, fold) ==
    fold = [s \in SUBSET S |-> IF s = {} THEN 0 ELSE F[Pick(s)] + fold[s \ {Pick(s)}]]

\* The sum of F over S.
SumOf(F, S) == (CHOOSE fold : IsFold(F, S, fold))[S]

\* It is an element.
LEMMA PickIn == ASSUME NEW s, s # {} PROVE Pick(s) \in s
BY DEF Pick

\* There is at most one fold.
LEMMA OneFold ==
  ASSUME NEW F, NEW S, IsFiniteSet(S), NEW a, IsFold(F, S, a), NEW b, IsFold(F, S, b)
  PROVE  a = b
<1> DEFINE T == {s \in SUBSET S : a[s] # b[s]}
<1>1. a = [s \in SUBSET S |-> a[s]] /\ b = [s \in SUBSET S |-> b[s]]
  BY DEF IsFold
<1>2. \A s \in SUBSET S :
        /\ a[s] = IF s = {} THEN 0 ELSE F[Pick(s)] + a[s \ {Pick(s)}]
        /\ b[s] = IF s = {} THEN 0 ELSE F[Pick(s)] + b[s \ {Pick(s)}]
  BY DEF IsFold
<1>3. T = {}
  <2> SUFFICES ASSUME T # {}
               PROVE  FALSE
    OBVIOUS
  <2>1. PICK U \in T : \A V \in T : V \subseteq U => V = U
    <3> HIDE DEF T
    <3>1. T \subseteq SUBSET S
      BY DEF T
    <3> QED
      BY <3>1, SmallestPart
  <2>2. U # {}
    BY <1>2, <2>1
  <2>3. Pick(U) \in U
    BY <2>2, PickIn
  <2>4. a[U \ {Pick(U)}] = b[U \ {Pick(U)}]
    BY <2>1, <2>3
  <2> QED
    BY <1>2, <2>1, <2>2, <2>4
<1>4. \A s \in SUBSET S : a[s] = b[s]
  BY <1>3
<1>5. [s \in SUBSET S |-> a[s]] = [s \in SUBSET S |-> b[s]]
  BY <1>4
<1> QED
  BY <1>1, <1>5

\* What the sum of a set is if every part of it has a fold.
Folded(F, S) ==
    SumOf(F, S) = IF S = {} THEN 0 ELSE F[Pick(S)] + SumOf(F, S \ {Pick(S)})

\* A fold over a finite set is what its definition says of every part of it.
LEMMA FoldStep ==
  ASSUME NEW F, NEW S, IsFiniteSet(S), \A s \in SUBSET S : s # S => Folded(F, s)
  PROVE  Folded(F, S)
<1> DEFINE g == [s \in SUBSET S |-> IF s = {} THEN 0 ELSE F[Pick(s)] + SumOf(F, s \ {Pick(s)})]
           c == CHOOSE fold : IsFold(F, S, fold)
<1>1. \A s \in SUBSET S : s # S => g[s] = SumOf(F, s)
  BY DEF Folded
<1>2. IsFold(F, S, g)
  <2>1. ASSUME NEW s \in SUBSET S, s # {}
        PROVE  g[s \ {Pick(s)}] = SumOf(F, s \ {Pick(s)})
    <3>1. s \ {Pick(s)} \in SUBSET S /\ s \ {Pick(s)} # S
      BY <2>1, PickIn
    <3> HIDE DEF g
    <3> QED
      BY <1>1, <3>1
  <2>2. \A s \in SUBSET S : g[s] = IF s = {} THEN 0 ELSE F[Pick(s)] + g[s \ {Pick(s)}]
    BY <2>1
  <2>3. g = [s \in SUBSET S |-> g[s]]
    OBVIOUS
  <2> HIDE DEF g
  <2>4. [s \in SUBSET S |-> g[s]]
        = [s \in SUBSET S |-> IF s = {} THEN 0 ELSE F[Pick(s)] + g[s \ {Pick(s)}]]
    BY <2>2
  <2> QED
    BY <2>3, <2>4 DEF IsFold
<1>3. IsFold(F, S, c)
  <2> HIDE DEF g
  <2>1. \E fold : IsFold(F, S, fold)
    BY <1>2
  <2> QED
    BY <2>1
<1>4. c = g
  <2> HIDE DEF g, c
  <2> QED
    BY <1>2, <1>3, OneFold
<1>5. SumOf(F, S) = c[S]
  BY DEF SumOf
<1>6. c[S] = g[S]
  <2> HIDE DEF c, g
  <2> QED
    BY <1>4
<1> QED
  BY <1>5, <1>6 DEF Folded

\* The sum of a finite set is one of its elements and the sum of the rest.
LEMMA SumStep ==
  ASSUME NEW F, NEW S, IsFiniteSet(S)
  PROVE  Folded(F, S)
<1> DEFINE T == {s \in SUBSET S : ~ Folded(F, s)}
<1> SUFFICES ASSUME T # {}
             PROVE  FALSE
  OBVIOUS
<1>1. T \subseteq SUBSET S
  OBVIOUS
<1>2. PICK U \in T : \A V \in T : V \subseteq U => V = U
  <2> HIDE DEF T
  <2> QED
    BY <1>1, SmallestPart
<1>3. IsFiniteSet(U)
  BY FS_Subset
<1>4. \A s \in SUBSET U : s # U => Folded(F, s)
  BY <1>2
<1> QED
  BY <1>3, <1>4, FoldStep

\* Whatever holds of the empty set, and of a set with one more element if it holds
\* of the set, holds of every finite set: Parts are the parts it holds of.
LEMMA GrowPart ==
  ASSUME NEW S, IsFiniteSet(S), NEW Parts, {} \in Parts,
         \A s \in Parts, x \in S : s \subseteq S /\ x \notin s => s \cup {x} \in Parts
  PROVE  S \in Parts
<1> DEFINE T == {s \in SUBSET S : s \notin Parts}
<1> SUFFICES ASSUME T # {}
             PROVE  FALSE
  OBVIOUS
<1>1. PICK U \in T : \A V \in T : V \subseteq U => V = U
  <2>1. T \subseteq SUBSET S
    OBVIOUS
  <2> HIDE DEF T
  <2> QED
    BY <2>1, SmallestPart
<1>2. PICK x \in U : TRUE
  OBVIOUS
<1>3. U \ {x} \in Parts
  BY <1>1, <1>2
<1>4. (U \ {x}) \cup {x} \in Parts
  BY <1>2, <1>3
<1>5. (U \ {x}) \cup {x} = U
  BY <1>2
<1> QED
  BY <1>4, <1>5

\* Finitely many numbers, indexed by S.
Numbers(F, S) == IsFiniteSet(S) /\ \A x \in S : F[x] \in Int

\* The sum over nothing is zero,
LEMMA SumEmpty == ASSUME NEW F PROVE SumOf(F, {}) = 0
  BY SumStep, FS_EmptySet DEF Folded

\* A sum of integers is an integer, and it does not matter which is added last.
LEMMA SumAny ==
  ASSUME NEW F, NEW S, Numbers(F, S)
  PROVE  /\ SumOf(F, S) \in Int
         /\ \A x \in S : SumOf(F, S) = F[x] + SumOf(F, S \ {x})
<1> DEFINE P(s) == /\ SumOf(F, s) \in Int
                   /\ \A x \in s : SumOf(F, s) = F[x] + SumOf(F, s \ {x})
           T == {s \in SUBSET S : ~ P(s)}
<1> SUFFICES ASSUME T # {}
             PROVE  FALSE
  OBVIOUS
<1>1. PICK U \in T : \A V \in T : V \subseteq U => V = U
  <2>1. T \subseteq SUBSET S
    OBVIOUS
  <2> HIDE DEF T
  <2> QED
    BY <2>1, SmallestPart DEF Numbers
<1>2. \A V : V \subseteq U /\ V # U => P(V)
  BY <1>1
<1>3. IsFiniteSet(U) /\ \A x \in U : F[x] \in Int
  BY FS_Subset DEF Numbers
<1> DEFINE p == Pick(U)
<1>4. U # {}
  <2> SUFFICES ASSUME U = {}
               PROVE  FALSE
    OBVIOUS
  <2>1. P({})
    BY SumEmpty
  <2>2. ~ P(U)
    OBVIOUS
  <2> HIDE DEF P
  <2> QED
    BY <2>1, <2>2, Zenon
<1>5. p \in U /\ SumOf(F, U) = F[p] + SumOf(F, U \ {p})
  BY <1>3, <1>4, SumStep, PickIn DEF Folded
<1>6. SumOf(F, U) \in Int
  <2>1. SumOf(F, U \ {p}) \in Int
    BY <1>2, <1>5
  <2> QED
    BY <1>3, <1>5, <2>1
<1>7. ASSUME NEW x \in U
      PROVE  SumOf(F, U) = F[x] + SumOf(F, U \ {x})
  <2>1. CASE x = p
    BY <1>5, <2>1
  <2>2. CASE x # p
    <3> DEFINE rest == (U \ {p}) \ {x}
    <3>1. SumOf(F, U \ {p}) = F[x] + SumOf(F, rest)
      BY <1>2, <1>5, <2>2
    <3>2. SumOf(F, U \ {x}) = F[p] + SumOf(F, (U \ {x}) \ {p})
      BY <1>2, <1>5, <2>2
    <3>3. SumOf(F, U \ {x}) = F[p] + SumOf(F, rest)
      <4>1. (U \ {x}) \ {p} = rest
        OBVIOUS
      <4> HIDE DEF p, rest
      <4> QED
        BY <3>2, <4>1, Zenon
    <3>4. SumOf(F, rest) \in Int
      BY <1>2, <1>5
    <3>5. F[x] \in Int /\ F[p] \in Int
      BY <1>3, <1>5
    <3> HIDE DEF rest, p
    <3> QED
      BY <1>5, <3>1, <3>3, <3>4, <3>5
  <2> QED
    BY <2>1, <2>2
<1> QED
  BY <1>1, <1>6, <1>7

\* One more element.
LEMMA SumMore ==
  ASSUME NEW F, NEW S, Numbers(F, S), NEW s \in SUBSET S, NEW x \in S, x \notin s
  PROVE  /\ SumOf(F, s) \in Int /\ F[x] \in Int
         /\ SumOf(F, s \cup {x}) = SumOf(F, s) + F[x]
<1>1. Numbers(F, s) /\ Numbers(F, s \cup {x})
  BY FS_Subset, FS_AddElement DEF Numbers
<1>2. (s \cup {x}) \ {x} = s
  OBVIOUS
<1>3. F[x] \in Int
  BY DEF Numbers
<1>4. SumOf(F, s) \in Int
  BY <1>1, SumAny
<1>5. SumOf(F, s \cup {x}) = F[x] + SumOf(F, (s \cup {x}) \ {x})
  BY <1>1, SumAny
<1>6. SumOf(F, s \cup {x}) = F[x] + SumOf(F, s)
  BY <1>2, <1>5, Zenon
<1> QED
  BY <1>3, <1>4, <1>6

\* A sum depends on the elements only.
LEMMA SumSame ==
  ASSUME NEW F, NEW G, NEW S, Numbers(F, S), \A x \in S : G[x] = F[x]
  PROVE  SumOf(G, S) = SumOf(F, S)
<1> DEFINE Parts == {s \in SUBSET S : SumOf(G, s) = SumOf(F, s)}
<1>1. Numbers(G, S)
  BY DEF Numbers
<1>2. {} \in Parts
  BY SumEmpty
<1>3. ASSUME NEW s \in Parts, NEW x \in S, s \subseteq S, x \notin s
      PROVE  s \cup {x} \in Parts
  <2>1. SumOf(F, s \cup {x}) = SumOf(F, s) + F[x]
    BY <1>3, SumMore
  <2>2. SumOf(G, s \cup {x}) = SumOf(G, s) + G[x]
    BY <1>1, <1>3, SumMore
  <2> QED
    BY <1>3, <2>1, <2>2
<1> HIDE DEF Parts
<1>4. S \in Parts
  BY <1>2, <1>3, GrowPart DEF Numbers
<1> QED
  BY <1>4 DEF Parts

\* A sum adds up from its parts.
LEMMA SumParts ==
  ASSUME NEW F, NEW S, Numbers(F, S), NEW R, R \subseteq S
  PROVE  SumOf(F, S) = SumOf(F, R) + SumOf(F, S \ R)
<1> DEFINE Q == S \ R
           Parts == {s \in SUBSET Q : SumOf(F, R \cup s) = SumOf(F, R) + SumOf(F, s)}
<1>0. Numbers(F, R) /\ Numbers(F, Q)
  BY FS_Subset DEF Numbers
<1>1. SumOf(F, R) \in Int
  BY <1>0, SumAny
<1>2. {} \in Parts
  BY <1>1, SumEmpty
<1>3. ASSUME NEW s \in Parts, NEW x \in Q, s \subseteq Q, x \notin s
      PROVE  s \cup {x} \in Parts
  <2>1. SumOf(F, s) \in Int /\ F[x] \in Int /\ SumOf(F, s \cup {x}) = SumOf(F, s) + F[x]
    BY <1>0, <1>3, SumMore
  <2>2. SumOf(F, (R \cup s) \cup {x}) = SumOf(F, R \cup s) + F[x]
    <3> DEFINE union == R \cup s
    <3>1. union \in SUBSET S /\ x \in S /\ x \notin union
      BY <1>3
    <3> HIDE DEF union, Parts
    <3>2. SumOf(F, union \cup {x}) = SumOf(F, union) + F[x]
      BY <3>1, SumMore
    <3> QED
      BY <3>2 DEF union
  <2>3. (R \cup s) \cup {x} = R \cup (s \cup {x})
    OBVIOUS
  <2>4. SumOf(F, R \cup (s \cup {x})) = SumOf(F, R \cup s) + F[x]
    BY <2>2, <2>3, Zenon
  <2>5. SumOf(F, R \cup (s \cup {x})) = SumOf(F, R) + SumOf(F, s \cup {x})
    BY <1>1, <1>3, <2>1, <2>4
  <2> QED
    BY <1>3, <2>5
<1>4. Q \in Parts
  <2> HIDE DEF Parts
  <2> QED
    BY <1>0, <1>2, <1>3, GrowPart DEF Numbers
<1>5. R \cup Q = S
  OBVIOUS
<1> QED
  BY <1>4, <1>5

\* Sums of proportional numbers are in the same proportion, and so for bounds.
LEMMA SumScaled ==
  ASSUME NEW F, NEW G, NEW S, Numbers(F, S), Numbers(G, S), NEW c \in Int, NEW d \in Int
  PROVE  /\ (\A x \in S : F[x] * c = G[x] * d) => SumOf(F, S) * c = SumOf(G, S) * d
         /\ (\A x \in S : F[x] * c <= G[x] * d) => SumOf(F, S) * c <= SumOf(G, S) * d
<1> DEFINE Equal == {s \in SUBSET S : SumOf(F, s) * c = SumOf(G, s) * d}
           Less == {s \in SUBSET S : SumOf(F, s) * c <= SumOf(G, s) * d}
<1>1. {} \in Equal /\ {} \in Less
  BY SumEmpty
<1>2. ASSUME NEW s, s \subseteq S, NEW x \in S, x \notin s
      PROVE  \E a, b, f, g \in Int :
                /\ SumOf(F, s) = a /\ SumOf(G, s) = b /\ F[x] = f /\ G[x] = g
                /\ SumOf(F, s \cup {x}) * c = a * c + f * c
                /\ SumOf(G, s \cup {x}) * d = b * d + g * d
  <2>1. SumOf(F, s) \in Int /\ F[x] \in Int /\ SumOf(F, s \cup {x}) = SumOf(F, s) + F[x]
    BY <1>2, SumMore
  <2>2. SumOf(G, s) \in Int /\ G[x] \in Int /\ SumOf(G, s \cup {x}) = SumOf(G, s) + G[x]
    BY <1>2, SumMore
  <2>3. \A a, f, e \in Int : (a + f) * e = a * e + f * e
    OBVIOUS
  <2> QED
    BY <2>1, <2>2, <2>3
<1>3. \A a, b, f, g \in Int : a * c \in Int /\ b * d \in Int /\ f * c \in Int /\ g * d \in Int
  OBVIOUS
<1>4. ASSUME \A x \in S : F[x] * c = G[x] * d
      PROVE  S \in Equal
  <2>1. ASSUME NEW s \in Equal, NEW x \in S, s \subseteq S, x \notin s
        PROVE  s \cup {x} \in Equal
    <3>1. PICK a, b, f, g \in Int :
                /\ SumOf(F, s) = a /\ SumOf(G, s) = b /\ F[x] = f /\ G[x] = g
                /\ SumOf(F, s \cup {x}) * c = a * c + f * c
                /\ SumOf(G, s \cup {x}) * d = b * d + g * d
      BY <1>2, <2>1
    <3>2. a * c = b * d /\ f * c = g * d
      BY <1>4, <2>1, <3>1
    <3>3. SumOf(F, s \cup {x}) * c = SumOf(G, s \cup {x}) * d
      BY <3>1, <3>2
    <3> QED
      BY <2>1, <3>3
  <2> HIDE DEF Equal
  <2> QED
    BY <1>1, <2>1, GrowPart DEF Numbers
<1>5. ASSUME \A x \in S : F[x] * c <= G[x] * d
      PROVE  S \in Less
  <2>1. ASSUME NEW s \in Less, NEW x \in S, s \subseteq S, x \notin s
        PROVE  s \cup {x} \in Less
    <3>1. PICK a, b, f, g \in Int :
                /\ SumOf(F, s) = a /\ SumOf(G, s) = b /\ F[x] = f /\ G[x] = g
                /\ SumOf(F, s \cup {x}) * c = a * c + f * c
                /\ SumOf(G, s \cup {x}) * d = b * d + g * d
      BY <1>2, <2>1
    <3>2. a * c <= b * d /\ f * c <= g * d
      BY <1>5, <2>1, <3>1
    <3>3. a * c + f * c <= b * d + g * d
      BY <1>3, <3>2
    <3> QED
      BY <2>1, <3>1, <3>3
  <2> HIDE DEF Less
  <2> QED
    BY <1>1, <2>1, GrowPart DEF Numbers
<1> QED
  BY <1>4, <1>5

\* A sum of sums.
LEMMA SumPlus ==
  ASSUME NEW F, NEW G, NEW H, NEW S, Numbers(F, S), Numbers(G, S), Numbers(H, S)
  PROVE  (\A x \in S : H[x] = F[x] + G[x]) => SumOf(H, S) = SumOf(F, S) + SumOf(G, S)
<1> DEFINE Parts == {s \in SUBSET S : SumOf(H, s) = SumOf(F, s) + SumOf(G, s)}
<1>1. {} \in Parts
  BY SumEmpty
<1>2. ASSUME \A x \in S : H[x] = F[x] + G[x],
             NEW s \in Parts, NEW x \in S, s \subseteq S, x \notin s
      PROVE  s \cup {x} \in Parts
  <2>0. SumOf(H, s) = SumOf(F, s) + SumOf(G, s) /\ H[x] = F[x] + G[x] /\ s \in SUBSET S
    BY <1>2
  <2>5. x \notin s
    BY <1>2
  <2> HIDE DEF Parts
  <2>1. SumOf(F, s) \in Int /\ F[x] \in Int /\ SumOf(F, s \cup {x}) = SumOf(F, s) + F[x]
    BY <2>0, <2>5, SumMore
  <2>2. SumOf(G, s) \in Int /\ G[x] \in Int /\ SumOf(G, s \cup {x}) = SumOf(G, s) + G[x]
    BY <2>0, <2>5, SumMore, ZenonT(30)
  <2>3. SumOf(H, s \cup {x}) = SumOf(H, s) + H[x]
    BY <2>0, <2>5, SumMore
  <2>4. SumOf(H, s \cup {x}) = SumOf(F, s \cup {x}) + SumOf(G, s \cup {x})
    BY <2>0, <2>1, <2>2, <2>3
  <2> QED
    BY <1>2, <2>4 DEF Parts
<1>3. ASSUME \A x \in S : H[x] = F[x] + G[x]
      PROVE  S \in Parts
  <2> HIDE DEF Parts
  <2> QED
    BY <1>1, <1>2, <1>3, GrowPart DEF Numbers
<1> QED
  BY <1>3

\* A sum of natural numbers is one, and none of its parts is larger.
LEMMA SumNat ==
  ASSUME NEW F, NEW S, IsFiniteSet(S), \A x \in S : F[x] \in Nat
  PROVE  /\ SumOf(F, S) \in Nat
         /\ \A R \in SUBSET S : SumOf(F, R) \in Nat /\ SumOf(F, R) <= SumOf(F, S)
<1> DEFINE Parts == {s \in SUBSET S : SumOf(F, s) \in Nat}
<1>0. Numbers(F, S)
  BY DEF Numbers
<1>1. {} \in Parts
  BY SumEmpty
<1>2. ASSUME NEW s \in Parts, NEW x \in S, s \subseteq S, x \notin s
      PROVE  s \cup {x} \in Parts
  <2>1. SumOf(F, s \cup {x}) = SumOf(F, s) + F[x]
    BY <1>0, <1>2, SumMore
  <2> QED
    BY <1>2, <2>1
<1>3. ASSUME NEW R \in SUBSET S
      PROVE  R \in Parts
  <2>1. \A s \in Parts, x \in R : s \subseteq R /\ x \notin s => s \cup {x} \in Parts
    BY <1>2
  <2> HIDE DEF Parts
  <2> QED
    BY <1>1, <2>1, FS_Subset, GrowPart
<1>4. ASSUME NEW R \in SUBSET S
      PROVE  SumOf(F, R) \in Nat /\ SumOf(F, R) <= SumOf(F, S)
  <2>1. SumOf(F, R) \in Nat /\ SumOf(F, S \ R) \in Nat
    BY <1>3
  <2>2. SumOf(F, S) = SumOf(F, R) + SumOf(F, S \ R)
    BY <1>0, SumParts
  <2> QED
    BY <2>1, <2>2
<1> QED
  BY <1>3, <1>4

\* A sum counted by other names.
Renames(f, A, B) == /\ f \in [A -> B]
                    /\ \A a, b \in A : f[a] = f[b] => a = b
                    /\ \A b \in B : \E a \in A : f[a] = b

\* A sum does not depend on the names that its numbers are counted by.
LEMMA SumRenamed ==
  ASSUME NEW A, NEW B, NEW F, NEW G, NEW f, Renames(f, A, B),
         Numbers(F, A), Numbers(G, B), \A a \in A : F[a] = G[f[a]]
  PROVE  SumOf(F, A) = SumOf(G, B)
<1>0. /\ f \in [A -> B]
      /\ \A a, b \in A : f[a] = f[b] => a = b
      /\ \A b \in B : \E a \in A : f[a] = b
  BY DEF Renames
<1> DEFINE Image(s) == {f[a] : a \in s}
           Parts == {s \in SUBSET A : SumOf(F, s) = SumOf(G, Image(s))}
<1>1. {} \in Parts
  <2>1. Image({}) = {}
    OBVIOUS
  <2> QED
    BY <2>1, SumEmpty
<1>2. ASSUME NEW s \in Parts, NEW x \in A, s \subseteq A, x \notin s
      PROVE  s \cup {x} \in Parts
  <2>1. SumOf(F, s \cup {x}) = SumOf(F, s) + F[x]
    BY <1>2, SumMore
  <2>2. /\ Image(s) \subseteq B /\ f[x] \in B /\ f[x] \notin Image(s)
        /\ Image(s \cup {x}) = Image(s) \cup {f[x]}
    BY <1>0, <1>2
  <2>3. SumOf(G, Image(s) \cup {f[x]}) = SumOf(G, Image(s)) + G[f[x]]
    <3> HIDE DEF Image
    <3> QED
      BY <2>2, SumMore
  <2> QED
    BY <1>2, <2>1, <2>2, <2>3
<1>3. A \in Parts
  <2> HIDE DEF Parts
  <2> QED
    BY <1>1, <1>2, GrowPart DEF Numbers
<1>4. Image(A) = B
  BY <1>0
<1> QED
  BY <1>3, <1>4

\* There is a fold.
LEMMA TheFold ==
  ASSUME NEW F, NEW S, IsFiniteSet(S)
  PROVE  IsFold(F, S, CHOOSE fold : IsFold(F, S, fold))
<1> DEFINE g == [s \in SUBSET S |-> SumOf(F, s)]
<1>1. ASSUME NEW s \in SUBSET S
      PROVE  /\ g[s] = SumOf(F, s)
             /\ SumOf(F, s) = IF s = {} THEN 0 ELSE F[Pick(s)] + SumOf(F, s \ {Pick(s)})
  BY FS_Subset, SumStep DEF Folded
<1>2. \A s \in SUBSET S : g[s] = IF s = {} THEN 0 ELSE F[Pick(s)] + g[s \ {Pick(s)}]
  <2> SUFFICES ASSUME NEW s \in SUBSET S
               PROVE  g[s] = IF s = {} THEN 0 ELSE F[Pick(s)] + g[s \ {Pick(s)}]
    OBVIOUS
  <2>1. g[s \ {Pick(s)}] = SumOf(F, s \ {Pick(s)})
    BY <1>1
  <2> HIDE DEF g
  <2> QED
    BY <1>1, <2>1
<1>3. g = [s \in SUBSET S |-> g[s]]
  OBVIOUS
<1> HIDE DEF g
<1>4. [s \in SUBSET S |-> g[s]]
      = [s \in SUBSET S |-> IF s = {} THEN 0 ELSE F[Pick(s)] + g[s \ {Pick(s)}]]
  BY <1>2
<1>5. \E fold : IsFold(F, S, fold)
  BY <1>3, <1>4 DEF IsFold
<1> QED
  BY <1>5

\* MapThenSumSet is such a sum.
LEMMA MapSumIs ==
  ASSUME NEW f, IsFiniteSet(DOMAIN f)
  PROVE  MapThenSumSet(LAMBDA x : f[x], DOMAIN f) = SumOf(f, DOMAIN f)
<1> DEFINE S == DOMAIN f
           A(fold) == fold = [s \in SUBSET S |-> IF s = {} THEN 0
                                ELSE f[Pick(s)] + fold[s \ {Pick(s)}]]
<1>1. ASSUME NEW fold
      PROVE  A(fold) <=> IsFold(f, S, fold)
  BY DEF IsFold
<1>2. MapThenSumSet(LAMBDA x : f[x], DOMAIN f) = (CHOOSE fold : A(fold))[S]
  BY DEF MapThenSumSet, MapThenFoldSet, Pick
<1> HIDE DEF A
<1>3. A(CHOOSE fold : A(fold))
  BY <1>1, TheFold
<1>4. IsFold(f, S, CHOOSE fold : A(fold))
  BY <1>1, <1>3
<1>5. (CHOOSE fold : A(fold)) = (CHOOSE fold : IsFold(f, S, fold))
  BY <1>4, TheFold, OneFold
<1> QED
  BY <1>2, <1>5 DEF SumOf

\* What f sends to one value.
Fibre(f, S, a) == {x \in S : f[x] = a}

\* Numbers may be added up in such parts.
LEMMA SumFibres ==
  ASSUME NEW F, NEW S, Numbers(F, S), NEW A, IsFiniteSet(A),
         NEW f, \A x \in S : f[x] \in A,
         NEW G, \A a \in A : G[a] = SumOf(F, Fibre(f, S, a))
  PROVE  Numbers(G, A) /\ SumOf(F, S) = SumOf(G, A)
<1> DEFINE On(s) == {x \in S : f[x] \in s}
           Parts == {s \in SUBSET A : SumOf(F, On(s)) = SumOf(G, s)}
<1>1. \A R \in SUBSET S : Numbers(F, R) /\ SumOf(F, R) \in Int
  BY FS_Subset, SumAny DEF Numbers
<1>2. Numbers(G, A)
  <2>1. \A a \in A : Fibre(f, S, a) \in SUBSET S
    BY DEF Fibre
  <2>2. \A a \in A : G[a] \in Int
    BY <1>1, <2>1
  <2> QED
    BY <2>2 DEF Numbers
<1>3. {} \in Parts
  <2>1. On({}) = {}
    OBVIOUS
  <2> QED
    BY <2>1, SumEmpty
<1>4. ASSUME NEW s \in Parts, NEW a \in A, s \subseteq A, a \notin s
      PROVE  s \cup {a} \in Parts
  <2> DEFINE fibre == Fibre(f, S, a)
  <2>1. On(s) \subseteq On(s \cup {a}) /\ On(s \cup {a}) \ On(s) = fibre /\ On(s \cup {a}) \in SUBSET S
        /\ On(s) \in SUBSET S /\ fibre \in SUBSET S
    BY <1>4 DEF Fibre
  <2>2. SumOf(F, On(s \cup {a})) = SumOf(F, On(s)) + SumOf(F, fibre)
    <3> DEFINE all == On(s \cup {a})
               part == On(s)
    <3>1. Numbers(F, all) /\ part \subseteq all /\ all \ part = fibre
      BY <1>1, <2>1
    <3> HIDE DEF Parts, On, fibre, all, part
    <3>2. SumOf(F, all) = SumOf(F, part) + SumOf(F, all \ part)
      BY <3>1, SumParts
    <3>3. SumOf(F, all) = SumOf(F, part) + SumOf(F, fibre)
      BY <3>1, <3>2
    <3> QED
      BY <3>3 DEF all, part
  <2>3. SumOf(G, s \cup {a}) = SumOf(G, s) + G[a]
    BY <1>2, <1>4, SumMore
  <2> QED
    BY <1>4, <2>2, <2>3
<1> HIDE DEF On
<1>5. A \in Parts
  <2> HIDE DEF Parts
  <2>1. \A s \in Parts, a \in A : s \subseteq A /\ a \notin s => s \cup {a} \in Parts
    BY <1>4
  <2> QED
    BY <1>3, <2>1, GrowPart
<1>6. On(A) = S
  BY DEF On
<1> QED
  BY <1>2, <1>5, <1>6
\* Of finitely many elements in a strict order one is the last.
LEMMA LastOf ==
  ASSUME NEW T, IsFiniteSet(T), T # {}, NEW R,
         \A x \in T : <<x, x>> \notin R,
         \A x, y, z \in T : <<x, y>> \in R /\ <<y, z>> \in R => <<x, z>> \in R,
         \A x, y \in T : x = y \/ <<x, y>> \in R \/ <<y, x>> \in R
  PROVE  \E m \in T : \A x \in T : x # m => <<x, m>> \in R
<1> DEFINE After(x) == {y \in T : <<x, y>> \in R}
           Q == {After(x) : x \in T}
<1>1. Q \subseteq SUBSET T /\ Q # {}
  <2>1. \A x \in T : After(x) \subseteq T
    OBVIOUS
  <2> HIDE DEF After
  <2>2. PICK x \in T : TRUE
    OBVIOUS
  <2>3. \A U \in Q : U \subseteq T
    BY <2>1
  <2>4. Q # {}
    BY <2>2
  <2> QED
    BY <2>3, <2>4
<1>2. PICK U \in Q : \A V \in Q : V \subseteq U => V = U
  <2> HIDE DEF Q
  <2> QED
    BY <1>1, SmallestPart
<1>3. PICK m \in T : U = After(m)
  OBVIOUS
<1>4. ASSUME NEW x \in T, x # m, <<x, m>> \notin R
      PROVE  FALSE
  <2>1. <<m, x>> \in R
    BY <1>4
  <2>2. After(x) \subseteq After(m)
    BY <2>1
  <2>3. After(x) = After(m)
    <3>1. After(x) \in Q
      OBVIOUS
    <3> HIDE DEF After, Q
    <3> QED
      BY <1>2, <1>3, <2>2, <3>1
  <2>4. x \in After(m)
    BY <2>1
  <2>5. x \notin After(x)
    OBVIOUS
  <2> QED
    BY <2>3, <2>4, <2>5
<1> QED
  BY <1>4
=============================================================================
