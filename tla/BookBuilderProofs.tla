------------------------- MODULE BookBuilderProofs -------------------------
(***************************************************************************)
(* Sorting, collapsing and printing for any engine: any number of orders,  *)
(* prices and shares.                                                      *)
(***************************************************************************)
EXTENDS BookBuilder, FiniteSetTheorems, NaturalsInduction, WellFoundedInduction, TLAPS

-----------------------------------------------------------------------------
(***************************************************************************)
(* Sums over finite sets.  SumFunctionOnSet takes the elements in an order *)
(* of its own; the sum does not depend on it.                              *)
(***************************************************************************)
LEMMA LeastNat ==
  ASSUME NEW T \in SUBSET Nat, T # {}
  PROVE  \E x \in T : \A y \in T : x <= y
<1>1. PICK x \in T : \A y \in T : ~(<<y, x>> \in OpToRel(<, Nat))
  BY NatLessThanWellFounded, WFMin, Zenon
<1>2. ASSUME NEW y \in T PROVE x <= y
  <2>1. ~(<<y, x>> \in OpToRel(<, Nat))
    BY <1>1, Zenon
  <2>2. ~(y < x)
    BY <2>1, Zenon DEF OpToRel
  <2> QED
    BY <2>2
<1> QED
  BY <1>2

\* What holds of 0 and of each number after one of which it holds, holds of all.
LEMMA Climb ==
  ASSUME NEW T, 0 \in T, \A n \in Nat : n \in T => n + 1 \in T
  PROVE  Nat \subseteq T
<1> SUFFICES ASSUME Nat \ T # {} PROVE FALSE
  OBVIOUS
<1>1. PICK n \in Nat \ T : \A m \in Nat \ T : n <= m
  <2> DEFINE B == Nat \ T
  <2>1. B \in SUBSET Nat /\ B # {}
    OBVIOUS
  <2> HIDE DEF B
  <2>2. \E x \in B : \A y \in B : x <= y
    BY <2>1, LeastNat
  <2> QED
    BY <2>2 DEF B
<1>2. n # 0 /\ n - 1 \in Nat /\ n - 1 \in T
  BY <1>1
<1> QED
  BY <1>1, <1>2

Taken(s) == CHOOSE x \in s : TRUE

\* One step of the sum over s, given the sums of smaller sets.
SumStep(f, g, s) == IF s = {} THEN 0 ELSE f[Taken(s)] + g[s \ {Taken(s)}]

IsSum(f, S, g) == g = [s \in SUBSET S |-> SumStep(f, g, s)]

LEMMA SumUnfolds ==
  ASSUME NEW f, NEW S
  PROVE  SumFunctionOnSet(f, S) = (CHOOSE g : IsSum(f, S, g))[S]
BY DEF SumFunctionOnSet, FoldFunctionOnSet, MapThenFoldSet, IsSum, SumStep, Taken

\* The partial sums exist: those of the sets up to one size give those of the next.
LEMMA SumExists ==
  ASSUME NEW S, IsFiniteSet(S), NEW f, \A x \in S : f[x] \in Nat
  PROVE  \E g \in [SUBSET S -> Nat] : IsSum(f, S, g)
<1> DEFINE Good(g, n) == \A s \in SUBSET S : Cardinality(s) <= n => g[s] = SumStep(f, g, s)
           T == {n \in Nat : \E g \in [SUBSET S -> Nat] : Good(g, n)}
<1>0. \A s \in SUBSET S : IsFiniteSet(s) /\ Cardinality(s) \in Nat /\ Cardinality(s) <= Cardinality(S)
  BY FS_Subset, FS_CardinalityType
<1>1. ASSUME NEW s \in SUBSET S, s # {}
      PROVE  /\ Taken(s) \in s /\ s \ {Taken(s)} \in SUBSET S
             /\ Cardinality(s \ {Taken(s)}) = Cardinality(s) - 1
  <2>1. Taken(s) \in s
    BY <1>1 DEF Taken
  <2> QED
    BY <2>1, <1>0, FS_RemoveElement
<1>2. 0 \in T
  <2> DEFINE g == [s \in SUBSET S |-> 0]
  <2>1. g \in [SUBSET S -> Nat]
    OBVIOUS
  <2>2. ASSUME NEW s \in SUBSET S, Cardinality(s) <= 0 PROVE g[s] = SumStep(f, g, s)
    <3>1. s = {}
      BY <2>2, <1>0, FS_EmptySet
    <3> QED
      BY <3>1 DEF SumStep
  <2>3. Good(g, 0)
    BY <2>2
  <2> HIDE DEF g, Good
  <2> QED
    BY <2>1, <2>3
<1>3. ASSUME NEW n \in Nat, n \in T PROVE n + 1 \in T
  <2>1. PICK g \in [SUBSET S -> Nat] : Good(g, n)
    BY <1>3
  <2> DEFINE h == [s \in SUBSET S |-> SumStep(f, g, s)]
  <2>2. h \in [SUBSET S -> Nat]
    <3> SUFFICES ASSUME NEW s \in SUBSET S PROVE SumStep(f, g, s) \in Nat
      OBVIOUS
    <3>1. CASE s = {}
      BY <3>1 DEF SumStep
    <3>2. CASE s # {}
      <4>1. f[Taken(s)] \in Nat /\ g[s \ {Taken(s)}] \in Nat
        BY <3>2, <1>1
      <4> QED
        BY <4>1, <3>2 DEF SumStep
    <3> QED
      BY <3>1, <3>2
  <2>3. ASSUME NEW s \in SUBSET S, Cardinality(s) <= n + 1 PROVE h[s] = SumStep(f, h, s)
    <3>1. CASE s = {}
      BY <3>1 DEF SumStep
    <3>2. CASE s # {}
      <4> DEFINE t == s \ {Taken(s)}
      <4>1. t \in SUBSET S /\ Cardinality(t) <= n
        BY <3>2, <2>3, <1>1, <1>0
      <4>2. g[t] = SumStep(f, g, t)
        BY <4>1, <2>1
      <4>3. h[t] = g[t]
        BY <4>1, <4>2
      <4> HIDE DEF h
      <4> QED
        BY <3>2, <4>3 DEF SumStep, h
    <3> QED
      BY <3>1, <3>2
  <2>4. Good(h, n + 1)
    BY <2>3
  <2> HIDE DEF h, Good
  <2> QED
    BY <2>2, <2>4
<1>4. Cardinality(S) \in T
  <2> HIDE DEF T
  <2>1. Nat \subseteq T
    BY <1>2, <1>3, Climb
  <2> QED
    BY <2>1, FS_CardinalityType
<1>5. PICK g \in [SUBSET S -> Nat] : Good(g, Cardinality(S))
  BY <1>4
<1>6. g = [s \in SUBSET S |-> SumStep(f, g, s)]
  <2>1. \A s \in SUBSET S : g[s] = SumStep(f, g, s)
    BY <1>5, <1>0
  <2> QED
    BY <2>1
<1> QED
  BY <1>6 DEF IsSum

\* The partial sums are the same wherever the recursion started.
LEMMA SumAgrees ==
  ASSUME NEW D, IsFiniteSet(D), NEW S \in SUBSET D, NEW f,
         NEW g, IsSum(f, D, g), NEW h, IsSum(f, S, h)
  PROVE  \A s \in SUBSET S : g[s] = h[s]
<1> DEFINE T == {n \in Nat : \A s \in SUBSET S : Cardinality(s) = n => g[s] = h[s]}
<1>1. \A s \in SUBSET S : IsFiniteSet(s) /\ Cardinality(s) \in Nat
  BY FS_Subset, FS_CardinalityType
<1>2. \A s \in SUBSET S : g[s] = SumStep(f, g, s) /\ h[s] = SumStep(f, h, s)
  BY DEF IsSum
<1>3. 0 \in T
  <2>1. ASSUME NEW s \in SUBSET S, Cardinality(s) = 0 PROVE g[s] = h[s]
    <3>1. s = {}
      BY <1>1, <2>1, FS_EmptySet
    <3> QED
      BY <3>1, <1>2 DEF SumStep
  <2> QED
    BY <2>1
<1>4. ASSUME NEW n \in Nat, n \in T PROVE n + 1 \in T
  <2>1. ASSUME NEW s \in SUBSET S, Cardinality(s) = n + 1 PROVE g[s] = h[s]
    <3> DEFINE t == s \ {Taken(s)}
    <3>1. s # {}
      BY <2>1, FS_EmptySet
    <3>2. Taken(s) \in s
      BY <3>1 DEF Taken
    <3>3. t \in SUBSET S /\ Cardinality(t) = n
      BY <3>2, <2>1, <1>1, FS_RemoveElement
    <3>4. g[t] = h[t]
      BY <3>3, <1>4
    <3> QED
      BY <3>1, <3>4, <1>2 DEF SumStep
  <2> QED
    BY <2>1
<1> HIDE DEF T
<1>5. Nat \subseteq T
  BY <1>3, <1>4, Climb
<1> QED
  BY <1>1, <1>5 DEF T

\* Whichever element is taken out first, the partial sums are the same.
LEMMA SumTakesAny ==
  ASSUME NEW D, IsFiniteSet(D), NEW f, \A x \in D : f[x] \in Nat,
         NEW g \in [SUBSET D -> Nat], IsSum(f, D, g)
  PROVE  \A s \in SUBSET D : \A x \in s : g[s] = f[x] + g[s \ {x}]
<1> DEFINE T == {n \in Nat : \A s \in SUBSET D : Cardinality(s) = n =>
                                \A x \in s : g[s] = f[x] + g[s \ {x}]}
<1>1. \A s \in SUBSET D : IsFiniteSet(s) /\ Cardinality(s) \in Nat
  BY FS_Subset, FS_CardinalityType
<1>2. \A s \in SUBSET D : g[s] = SumStep(f, g, s)
  BY DEF IsSum
<1>3. 0 \in T
  <2>1. \A s \in SUBSET D : Cardinality(s) = 0 => s = {}
    BY <1>1, FS_EmptySet
  <2> QED
    BY <2>1
<1>4. ASSUME NEW n \in Nat, n \in T PROVE n + 1 \in T
  <2>1. ASSUME NEW s \in SUBSET D, Cardinality(s) = n + 1, NEW x \in s
        PROVE  g[s] = f[x] + g[s \ {x}]
    <3> DEFINE c == Taken(s)
               both == (s \ {x}) \ {c}
    <3>1. c \in s
      BY DEF Taken
    <3>2. g[s] = f[c] + g[s \ {c}]
      BY <3>1, <1>2 DEF SumStep
    <3> HIDE DEF c
    <3>3. CASE x = c
      BY <3>2, <3>3
    <3>4. CASE x # c
      <4>1. /\ s \ {c} \in SUBSET D /\ Cardinality(s \ {c}) = n
            /\ s \ {x} \in SUBSET D /\ Cardinality(s \ {x}) = n
        BY <3>1, <2>1, <1>1, FS_RemoveElement
      <4>2. x \in s \ {c} /\ c \in s \ {x} /\ (s \ {c}) \ {x} = both
        BY <3>1, <3>4
      <4>3. g[s \ {c}] = f[x] + g[both]
        <5>1. g[s \ {c}] = f[x] + g[(s \ {c}) \ {x}]
          BY <4>1, <4>2, <1>4
        <5> QED
          BY <5>1, <4>2
      <4>4. g[s \ {x}] = f[c] + g[both]
        BY <4>1, <4>2, <1>4
      <4>5. f[c] \in Nat /\ f[x] \in Nat /\ g[both] \in Nat
        BY <3>1
      <4> HIDE DEF both
      <4> QED
        BY <3>2, <4>3, <4>4, <4>5
    <3> QED
      BY <3>3, <3>4
  <2> QED
    BY <2>1
<1> HIDE DEF T
<1>5. Nat \subseteq T
  BY <1>3, <1>4, Climb
<1> QED
  BY <1>1, <1>5 DEF T

\* What SumFunctionOnSet computes: 0 of nothing, and one element more adds its value.
LEMMA SumFacts ==
  ASSUME NEW D, IsFiniteSet(D), NEW f, \A x \in D : f[x] \in Nat
  PROVE  /\ SumFunctionOnSet(f, {}) = 0
         /\ \A S \in SUBSET D : SumFunctionOnSet(f, S) \in Nat
         /\ \A S \in SUBSET D : \A x \in D \ S :
              SumFunctionOnSet(f, S \cup {x}) = f[x] + SumFunctionOnSet(f, S)
<1>1. PICK g \in [SUBSET D -> Nat] : IsSum(f, D, g)
  BY SumExists
<1>2. ASSUME NEW S \in SUBSET D PROVE SumFunctionOnSet(f, S) = g[S]
  <2>1. IsFiniteSet(S) /\ \A x \in S : f[x] \in Nat
    BY FS_Subset
  <2> DEFINE h == CHOOSE k : IsSum(f, S, k)
  <2>2. IsSum(f, S, h)
    <3>1. \E k : IsSum(f, S, k)
      BY <2>1, SumExists
    <3> QED
      BY <3>1, Zenon
  <2>3. SumFunctionOnSet(f, S) = h[S]
    BY SumUnfolds
  <2> HIDE DEF h
  <2>4. g[S] = h[S]
    BY <1>1, <2>2, SumAgrees
  <2> QED
    BY <2>3, <2>4
<1>3. g[{}] = 0
  BY <1>1 DEF IsSum, SumStep
<1>4. ASSUME NEW S \in SUBSET D, NEW x \in D \ S PROVE g[S \cup {x}] = f[x] + g[S]
  <2>1. S \cup {x} \in SUBSET D /\ x \in S \cup {x} /\ (S \cup {x}) \ {x} = S
    OBVIOUS
  <2>2. g[S \cup {x}] = f[x] + g[(S \cup {x}) \ {x}]
    BY <2>1, <1>1, SumTakesAny
  <2> QED
    BY <2>1, <2>2
<1>5. \A S \in SUBSET D : \A x \in D \ S : S \cup {x} \in SUBSET D
  OBVIOUS
<1>6. {} \in SUBSET D
  OBVIOUS
<1> QED
  BY <1>1, <1>2, <1>3, <1>4, <1>5, <1>6

\* Sums over two sets whose elements correspond are equal.
LEMMA SumCorresponds ==
  ASSUME NEW D, IsFiniteSet(D), NEW f, \A x \in D : f[x] \in Nat,
         NEW E, IsFiniteSet(E), NEW g, \A y \in E : g[y] \in Nat,
         NEW b, \A x \in D : b[x] \in E /\ g[b[x]] = f[x],
         \A x, y \in D : b[x] = b[y] => x = y
  PROVE  SumFunctionOnSet(f, D) = SumFunctionOnSet(g, {b[x] : x \in D})
<1> DEFINE Img(S) == {b[x] : x \in S}
           T == {n \in Nat : \A S \in SUBSET D : Cardinality(S) = n =>
                               SumFunctionOnSet(f, S) = SumFunctionOnSet(g, Img(S))}
<1>1. \A S \in SUBSET D : IsFiniteSet(S) /\ Cardinality(S) \in Nat
  BY FS_Subset, FS_CardinalityType
<1>2. 0 \in T
  <2>1. ASSUME NEW S \in SUBSET D, Cardinality(S) = 0
        PROVE  SumFunctionOnSet(f, S) = SumFunctionOnSet(g, Img(S))
    <3>1. S = {}
      BY <1>1, <2>1, FS_EmptySet
    <3>2. Img(S) = {}
      BY <3>1
    <3> HIDE DEF Img
    <3> QED
      BY <3>1, <3>2, SumFacts
  <2> QED
    BY <2>1
<1>3. ASSUME NEW n \in Nat, n \in T PROVE n + 1 \in T
  <2>1. ASSUME NEW S \in SUBSET D, Cardinality(S) = n + 1
        PROVE  SumFunctionOnSet(f, S) = SumFunctionOnSet(g, Img(S))
    <3>0. Cardinality({}) = 0
      BY FS_EmptySet, Zenon
    <3>1. S # {}
      BY <2>1, <3>0
    <3>2. PICK x \in S : TRUE
      BY <3>1
    <3> DEFINE R == S \ {x}
    <3>3. R \in SUBSET D /\ Cardinality(R) = n /\ S = R \cup {x} /\ x \in D \ R
      <4>1. IsFiniteSet(S)
        BY <1>1
      <4>2. Cardinality(S \ {x}) = IF x \in S THEN Cardinality(S) - 1 ELSE Cardinality(S)
        BY <4>1, FS_RemoveElement, Zenon
      <4> QED
        BY <3>2, <4>2, <2>1
    <3>4. Img(R) \in SUBSET E /\ b[x] \in E \ Img(R) /\ Img(S) = Img(R) \cup {b[x]}
      BY <3>2, <3>3
    <3>5. SumFunctionOnSet(f, R) = SumFunctionOnSet(g, Img(R))
      BY <3>3, <1>3
    <3> HIDE DEF R, Img
    <3>6. SumFunctionOnSet(f, R \cup {x}) = f[x] + SumFunctionOnSet(f, R)
      BY <3>3, SumFacts
    <3>7. SumFunctionOnSet(g, Img(R) \cup {b[x]}) = g[b[x]] + SumFunctionOnSet(g, Img(R))
      BY <3>4, SumFacts
    <3> QED
      BY <3>2, <3>3, <3>4, <3>5, <3>6, <3>7
  <2> QED
    BY <2>1
<1>4. Nat \subseteq T
  <2> HIDE DEF T
  <2> QED
    BY <1>2, <1>3, Climb
<1>5. D \in SUBSET D
  OBVIOUS
<1> QED
  BY <1>1, <1>4, <1>5

-----------------------------------------------------------------------------
(***************************************************************************)
(* Sorting.  operator< orders the entries of a book totally, so the number *)
(* of entries before one is different for each, and every index has its    *)
(* entry.                                                                  *)
(***************************************************************************)
Entry == [price : Nat, shares : 0 .. ShareLimit - 1, reference : Nat]

LEMMA BeforeIsTotal ==
  ASSUME NEW a \in Entry, NEW b \in Entry, NEW c \in Entry
  PROVE  /\ ~Before(a, a)
         /\ Before(a, b) /\ Before(b, c) => Before(a, c)
         /\ a # b => Before(a, b) \/ Before(b, a)
<1>1. /\ a.price \in Nat /\ a.shares \in Nat /\ a.reference \in Nat
      /\ b.price \in Nat /\ b.shares \in Nat /\ b.reference \in Nat
      /\ c.price \in Nat /\ c.shares \in Nat /\ c.reference \in Nat
  BY EngineAssumption DEF Entry
<1>2. a # b => a.price # b.price \/ a.shares # b.shares \/ a.reference # b.reference
  BY DEF Entry
<1>3. ~Before(a, a)
  BY <1>1 DEF Before
<1>4. Before(a, b) /\ Before(b, c) => Before(a, c)
  BY <1>1 DEF Before
<1>5. a # b => Before(a, b) \/ Before(b, a)
  BY <1>1, <1>2 DEF Before
<1> QED
  BY <1>3, <1>4, <1>5

Rank(orders, o) == Cardinality({p \in orders : Before(p, o)})

LEMMA RankType ==
  ASSUME NEW orders \in SUBSET Entry, IsFiniteSet(orders), NEW o \in orders
  PROVE  Rank(orders, o) \in 0 .. Cardinality(orders) - 1
<1> DEFINE L == {p \in orders : Before(p, o)}
<1>1. L \in SUBSET (orders \ {o})
  BY BeforeIsTotal
<1>2. IsFiniteSet(orders \ {o}) /\ Cardinality(orders \ {o}) = Cardinality(orders) - 1
  BY FS_RemoveElement
<1> HIDE DEF L
<1>3. IsFiniteSet(L) /\ Cardinality(L) <= Cardinality(orders) - 1
  BY <1>1, <1>2, FS_Subset
<1>4. Cardinality(L) \in Nat /\ Cardinality(orders) \in Nat
  BY <1>3, FS_CardinalityType
<1> QED
  BY <1>3, <1>4 DEF Rank, L

\* An entry before another one has the lower rank.
LEMMA RankIncreases ==
  ASSUME NEW orders \in SUBSET Entry, IsFiniteSet(orders), NEW a \in orders, NEW b \in orders,
         Before(a, b)
  PROVE  Rank(orders, a) < Rank(orders, b)
<1> DEFINE K == {p \in orders : Before(p, a)}
           L == {p \in orders : Before(p, b)}
<1>1. a \in L /\ a \notin K /\ K \in SUBSET (L \ {a})
  BY BeforeIsTotal
<1>2. L \in SUBSET orders
  OBVIOUS
<1> HIDE DEF K, L
<1>3. IsFiniteSet(L) /\ Cardinality(L) \in Nat
  BY <1>2, FS_Subset, FS_CardinalityType
<1>4. IsFiniteSet(L \ {a}) /\ Cardinality(L \ {a}) = Cardinality(L) - 1
  BY <1>1, <1>3, FS_RemoveElement
<1>5. IsFiniteSet(K) /\ Cardinality(K) <= Cardinality(L) - 1
  BY <1>1, <1>4, FS_Subset
<1>6. Cardinality(K) \in Nat
  BY <1>5, FS_CardinalityType
<1> QED
  BY <1>3, <1>5, <1>6 DEF Rank, K, L

\* Every index of the sorted book has the entry of its rank.
LEMMA EveryRank ==
  ASSUME NEW orders \in SUBSET Entry, IsFiniteSet(orders),
         NEW i \in 1 .. Cardinality(orders)
  PROVE  \E o \in orders : Rank(orders, o) = i - 1
<1> DEFINE n == Cardinality(orders)
           f == [o \in orders |-> Rank(orders, o)]
<1>1. n \in Nat
  BY FS_CardinalityType
<1>2. f \in [orders -> 0 .. n - 1]
  BY RankType
<1>3. ASSUME NEW a \in orders, NEW b \in orders, f[a] = f[b] PROVE a = b
  <2> SUFFICES ASSUME a # b PROVE FALSE
    OBVIOUS
  <2>1. Rank(orders, a) = Rank(orders, b) /\ Rank(orders, a) \in Nat
    BY <1>3, RankType
  <2>2. CASE Before(a, b)
    BY <2>1, <2>2, RankIncreases
  <2>3. CASE Before(b, a)
    BY <2>1, <2>3, RankIncreases
  <2> QED
    BY <2>2, <2>3, BeforeIsTotal
<1>4. f \in Injection(orders, 0 .. n - 1)
  BY <1>2, <1>3 DEF Injection, IsInjective
<1> HIDE DEF f, n
<1>5. IsFiniteSet(0 .. n - 1) /\ Cardinality(0 .. n - 1) = n
  <2>1. 0 \in Int /\ n - 1 \in Int
    BY <1>1
  <2>2. /\ IsFiniteSet(0 .. n - 1)
        /\ Cardinality(0 .. n - 1) = IF 0 > n - 1 THEN 0 ELSE (n - 1) - 0 + 1
    BY <2>1, FS_Interval
  <2> QED
    BY <1>1, <2>2
<1>6. Cardinality(orders) = n
  BY DEF n
<1>7. f \in Surjection(orders, 0 .. n - 1)
  BY <1>4, <1>5, <1>6, FS_Injection
<1>8. i - 1 \in 0 .. n - 1
  BY <1>1, <1>6
<1>9. \E o \in orders : f[o] = i - 1
  BY <1>7, <1>8 DEF Surjection
<1> QED
  BY <1>9 DEF f

\* What std::sort leaves: the entries of the map, each once, in the order of operator<.
LEMMA SortedFacts ==
  ASSUME NEW orders \in SUBSET Entry, IsFiniteSet(orders)
  PROVE  /\ Sorted(orders) \in Seq(orders)
         /\ Len(Sorted(orders)) = Cardinality(orders)
         /\ \A o \in orders : \E i \in 1 .. Cardinality(orders) : Sorted(orders)[i] = o
         /\ \A i, j \in 1 .. Cardinality(orders) :
              i < j => Before(Sorted(orders)[i], Sorted(orders)[j])
<1> DEFINE n == Cardinality(orders)
           t == Sorted(orders)
<1>1. n \in Nat
  BY FS_CardinalityType
<1>2. t = [i \in 1 .. n |-> CHOOSE o \in orders : Rank(orders, o) = i - 1]
  BY DEF Sorted, Rank
<1> HIDE DEF n, t
<1>3. ASSUME NEW i \in 1 .. n PROVE t[i] \in orders /\ Rank(orders, t[i]) = i - 1
  <2>1. \E o \in orders : Rank(orders, o) = i - 1
    BY EveryRank DEF n
  <2>2. t[i] = CHOOSE o \in orders : Rank(orders, o) = i - 1
    BY <1>2
  <2> QED
    BY <2>1, <2>2
<1>4. t \in Seq(orders) /\ Len(t) = n
  <2>1. t \in [1 .. n -> orders]
    BY <1>2, <1>3
  <2> QED
    BY <1>1, <2>1
<1>5. ASSUME NEW i \in 1 .. n, NEW o \in orders, Rank(orders, o) = i - 1 PROVE t[i] = o
  <2> SUFFICES ASSUME t[i] # o PROVE FALSE
    OBVIOUS
  <2>1. t[i] \in orders /\ Rank(orders, t[i]) = i - 1
    BY <1>3
  <2>2. CASE Before(t[i], o)
    BY <1>5, <2>1, <2>2, RankIncreases
  <2>3. CASE Before(o, t[i])
    BY <1>5, <2>1, <2>3, RankIncreases
  <2> QED
    BY <2>1, <2>2, <2>3, BeforeIsTotal
<1>6. ASSUME NEW o \in orders PROVE \E i \in 1 .. n : t[i] = o
  <2>1. Rank(orders, o) \in 0 .. n - 1
    BY RankType DEF n
  <2>2. Rank(orders, o) + 1 \in 1 .. n /\ (Rank(orders, o) + 1) - 1 = Rank(orders, o)
    BY <1>1, <2>1
  <2>3. t[Rank(orders, o) + 1] = o
    BY <1>5, <2>2
  <2> QED
    BY <2>2, <2>3
<1>7. ASSUME NEW i \in 1 .. n, NEW j \in 1 .. n, i < j PROVE Before(t[i], t[j])
  <2>1. /\ t[i] \in orders /\ Rank(orders, t[i]) = i - 1
        /\ t[j] \in orders /\ Rank(orders, t[j]) = j - 1
    BY <1>3
  <2>2. t[i] # t[j]
    BY <1>1, <1>7, <2>1
  <2>3. ~Before(t[j], t[i])
    <3> SUFFICES ASSUME Before(t[j], t[i]) PROVE FALSE
      OBVIOUS
    <3>1. Rank(orders, t[j]) < Rank(orders, t[i])
      BY <2>1, RankIncreases
    <3> QED
      BY <1>1, <1>7, <2>1, <3>1
  <2> QED
    BY <2>1, <2>2, <2>3, BeforeIsTotal
<1> QED
  BY <1>4, <1>6, <1>7 DEF n, t

-----------------------------------------------------------------------------
(***************************************************************************)
(* The book of a side.                                                     *)
(***************************************************************************)
\* The book of a side is its map, sorted.
SortedBook(s) ==
  /\ book[s] \in Seq(Entry)
  /\ Len(book[s]) = Cardinality(Held(s))
  /\ \A i \in 1 .. Len(book[s]) :
       /\ book[s][i].reference \in Held(s)
       /\ book[s][i].price = engine[s][book[s][i].reference].price
       /\ book[s][i].shares = engine[s][book[s][i].reference].shares
  /\ \A r \in Held(s) : \E i \in 1 .. Len(book[s]) : book[s][i].reference = r
  /\ \A i, j \in 1 .. Len(book[s]) : i < j => Before(book[s][i], book[s][j])

LEMMA HeldFacts ==
  ASSUME engine \in Engines, NEW s \in Sides
  PROVE  /\ IsFiniteSet(Held(s)) /\ Held(s) \subseteq Refs
         /\ \A r \in Held(s) : r \in Nat /\ engine[s][r] \in Order
         /\ \A r \in Held(s) : /\ engine[s][r].price \in Nat
                               /\ engine[s][r].shares \in 0 .. ShareLimit - 1
                               /\ SharesOf(s)[r] = engine[s][r].shares
                               /\ SharesOf(s)[r] \in Nat
<1>1. Held(s) \in SUBSET Refs
  BY DEF Held
<1>2. IsFiniteSet(Held(s))
  BY <1>1, BuilderAssumption, FS_Subset
<1>3. engine[s] \in OrderMap
  BY DEF Engines
<1>4. \A r \in Held(s) : engine[s][r] \in Order
  BY <1>1, <1>3 DEF OrderMap, Held, Holds
<1>5. \A r \in Held(s) : engine[s][r].price \in Nat /\ engine[s][r].shares \in 0 .. ShareLimit - 1
  BY <1>4 DEF Order
<1>6. \A r \in Held(s) : SharesOf(s)[r] = engine[s][r].shares
  BY DEF SharesOf
<1>7. \A r \in Held(s) : SharesOf(s)[r] \in Nat
  BY <1>5, <1>6, EngineAssumption
<1>8. \A r \in Held(s) : r \in Nat
  BY <1>1, BuilderAssumption
<1> QED
  BY <1>1, <1>2, <1>4, <1>5, <1>6, <1>7, <1>8

LEMMA MakesSortedBook ==
  ASSUME engine \in Engines, NEW s \in Sides
  PROVE  LET t == make_book(engine[s])
         IN  /\ t \in Seq(Entry)
             /\ Len(t) = Cardinality(Held(s))
             /\ \A i \in 1 .. Len(t) :
                  /\ t[i].reference \in Held(s)
                  /\ t[i].price = engine[s][t[i].reference].price
                  /\ t[i].shares = engine[s][t[i].reference].shares
             /\ \A r \in Held(s) : \E i \in 1 .. Len(t) : t[i].reference = r
             /\ \A i, j \in 1 .. Len(t) : i < j => Before(t[i], t[j])
<1> DEFINE E(r) == [price |-> engine[s][r].price, shares |-> engine[s][r].shares, reference |-> r]
           f == [r \in Held(s) |-> E(r)]
           orders == {E(r) : r \in Held(s)}
           t == make_book(engine[s])
<1>1. t = Sorted(orders)
  BY DEF make_book, Held, Holds
<1>2. \A r \in Held(s) : E(r) \in Entry
  BY HeldFacts DEF Entry
<1>3. orders \in SUBSET Entry
  BY <1>2
<1>4. IsFiniteSet(orders) /\ Cardinality(orders) = Cardinality(Held(s))
  <2>1. f \in [Held(s) -> orders]
    OBVIOUS
  <2>2. \A a, b \in Held(s) : f[a] = f[b] => a = b
    <3>1. \A a \in Held(s) : f[a].reference = a
      OBVIOUS
    <3> HIDE DEF f
    <3> QED
      BY <3>1
  <2>3. \A o \in orders : \E r \in Held(s) : f[r] = o
    OBVIOUS
  <2> HIDE DEF f, orders
  <2>4. f \in Bijection(Held(s), orders)
    BY <2>1, <2>2, <2>3 DEF Bijection, Injection, Surjection, IsInjective
  <2>5. ExistsBijection(Held(s), orders)
    BY <2>4 DEF ExistsBijection
  <2> QED
    BY <2>5, HeldFacts, FS_Bijection
<1>5. \A o \in orders : /\ o.reference \in Held(s)
                        /\ o.price = engine[s][o.reference].price
                        /\ o.shares = engine[s][o.reference].shares
  OBVIOUS
<1>6. \A r \in Held(s) : \E o \in orders : o.reference = r
  <2>1. \A r \in Held(s) : E(r) \in orders /\ E(r).reference = r
    OBVIOUS
  <2> QED
    BY <2>1
<1> HIDE DEF t, orders
<1>7. /\ t \in Seq(orders)
      /\ Len(t) = Cardinality(Held(s))
      /\ \A o \in orders : \E i \in 1 .. Len(t) : t[i] = o
      /\ \A i, j \in 1 .. Len(t) : i < j => Before(t[i], t[j])
  BY <1>1, <1>3, <1>4, SortedFacts
<1>8. t \in Seq(Entry) /\ \A i \in 1 .. Len(t) : t[i] \in orders
  BY <1>3, <1>7
<1>9. \A r \in Held(s) : \E i \in 1 .. Len(t) : t[i].reference = r
  BY <1>6, <1>7
<1> QED
  BY <1>5, <1>7, <1>8, <1>9 DEF t

\* What the order of a book means for its prices and references.
LEMMA BookOrder ==
  ASSUME NEW s \in Sides, SortedBook(s)
  PROVE  /\ \A i \in 1 .. Len(book[s]) : book[s][i] \in Entry
         /\ \A i, j \in 1 .. Len(book[s]) : i <= j => book[s][i].price <= book[s][j].price
         /\ \A i, j \in 1 .. Len(book[s]) : book[s][i].reference = book[s][j].reference => i = j
<1> DEFINE n == Len(book[s])
<1>1. n \in Nat /\ \A i \in 1 .. n : book[s][i] \in Entry
  BY DEF SortedBook
<1>2. \A i \in 1 .. n : /\ book[s][i].price \in Nat /\ book[s][i].shares \in Nat
                        /\ book[s][i].reference \in Nat
  BY <1>1, EngineAssumption DEF Entry
<1> HIDE DEF n
<1>3. \A i, j \in 1 .. n : i < j => Before(book[s][i], book[s][j])
  BY DEF SortedBook, n
<1>4. \A i, j \in 1 .. n : i <= j => book[s][i].price <= book[s][j].price
  <2>1. ASSUME NEW i \in 1 .. n, NEW j \in 1 .. n, i < j
        PROVE  book[s][i].price <= book[s][j].price
    <3>1. Before(book[s][i], book[s][j])
      BY <1>3, <2>1
    <3> QED
      BY <1>2, <3>1 DEF Before
  <2>2. ASSUME NEW i \in 1 .. n, NEW j \in 1 .. n, i <= j
        PROVE  book[s][i].price <= book[s][j].price
    <3>1. i < j \/ i = j
      BY <1>1, <2>2
    <3> QED
      BY <1>2, <2>1, <3>1
  <2> QED
    BY <2>2
<1>5. ASSUME NEW i \in 1 .. n, NEW j \in 1 .. n, i < j
      PROVE  book[s][i].reference # book[s][j].reference
  <2> SUFFICES ASSUME book[s][i].reference = book[s][j].reference PROVE FALSE
    OBVIOUS
  <2>1. book[s][i].price = book[s][j].price /\ book[s][i].shares = book[s][j].shares
    BY DEF SortedBook, n
  <2>2. Before(book[s][i], book[s][j])
    BY <1>3, <1>5
  <2> QED
    BY <1>2, <2>1, <2>2 DEF Before
<1>6. \A i, j \in 1 .. n : book[s][i].reference = book[s][j].reference => i = j
  <2>1. \A i, j \in 1 .. n : i = j \/ i < j \/ j < i
    BY <1>1
  <2> QED
    BY <1>5, <2>1
<1> QED
  BY <1>1, <1>4, <1>6 DEF n

-----------------------------------------------------------------------------
(***************************************************************************)
(* The one pass over the book.  The lines t are the first n orders,        *)
(* collapsed, when they have their prices, in increasing order, each with  *)
(* the total of the orders at its price among these n.                     *)
(***************************************************************************)
RefsUpTo(s, n, price) ==
  {book[s][k].reference : k \in {i \in 1 .. n : book[s][i].price = price}}

Increasing(t) == \A i, j \in 1 .. Len(t) : i < j => t[i].price < t[j].price

Collapsed(s, t, n) ==
  /\ Increasing(t)
  /\ \A i \in 1 .. Len(t) :
       /\ \E k \in 1 .. n : book[s][k].price = t[i].price
       /\ t[i].shares = SumFunctionOnSet(SharesOf(s), RefsUpTo(s, n, t[i].price)) % ShareLimit
  /\ \A k \in 1 .. n : \E i \in 1 .. Len(t) : t[i].price = book[s][k].price

\* What print_books and print_collapsed_books print of the book as it is.
Printed ==
  IF Shown["buy"] = <<>> \/ Shown["sell"] = <<>>
  THEN EmptySides
  ELSE [s \in Sides |->
          [i \in 1 .. Len(Shown[s]) |->
             LET o == Reverse(Shown[s])[i]
             IN  [price |-> o.price, shares |-> o.shares, bar |-> build_bar(o.shares, the_max)]]]

BookType ==
  /\ engine \in Engines
  /\ collapse \in BOOLEAN
  /\ pc \in {"make", "first", "loop", "print", "done"}
  /\ side \in Sides
  /\ book \in [Sides -> Seq(Entry)]
  /\ collapsed \in [Sides -> Seq(Order)]

\* The books that have been made are sorted.
Made ==
  /\ pc = "make" => side = "buy" \/ SortedBook("buy")
  /\ pc # "make" => SortedBook("buy") /\ SortedBook("sell")

\* Nothing has been collapsed of a side whose turn has not come.
Untouched ==
  /\ pc = "make" => collapsed = EmptySides
  /\ pc = "first" => collapsed[side] = <<>>
  /\ pc \in {"first", "loop"} /\ side = "buy" => collapsed["sell"] = <<>>

\* In the loop, src - 1 orders have been collapsed and dest is the last line.
Looping ==
  pc = "loop" =>
    /\ src \in 2 .. Len(book[side]) + 1
    /\ dest = Len(collapsed[side]) /\ dest >= 1
    /\ collapsed[side][dest].price = book[side][src - 1].price
    /\ Collapsed(side, collapsed[side], src - 1)

\* The sides that are over have been collapsed as a whole.
Over ==
  /\ pc \in {"first", "loop"} /\ side = "sell" => Collapsed("buy", collapsed["buy"], Len(book["buy"]))
  /\ pc \in {"print", "done"} /\ collapse => \A s \in Sides : Collapsed(s, collapsed[s], Len(book[s]))

Printing ==
  /\ pc # "done" => lines = EmptySides
  /\ pc = "done" => lines = Printed

BookInv == BookType /\ Made /\ Untouched /\ Looping /\ Over /\ Printing

-----------------------------------------------------------------------------
(***************************************************************************)
(* Arithmetic of the shares field.                                         *)
(***************************************************************************)
LEMMA DivMod ==
  ASSUME NEW d \in Nat \ {0}, NEW u \in Nat
  PROVE  u % d \in 0 .. d - 1 /\ u \div d \in Nat /\ u = d * (u \div d) + (u % d)
OBVIOUS

LEMMA DivIs ==
  ASSUME NEW d \in Nat \ {0}, NEW q \in Nat, NEW r \in 0 .. d - 1, NEW n \in Nat, n = d * q + r
  PROVE  n \div d = q /\ n % d = r
<1> DEFINE p == n \div d
           t == n % d
<1>1. t \in 0 .. d - 1 /\ p \in Nat /\ n = d * p + t
  BY DivMod
<1> HIDE DEF p, t
<1>2. p < q => d * p + d <= d * q
  BY <1>1
<1>3. q < p => d * q + d <= d * p
  BY <1>1
<1> DEFINE a == d * p
           b == d * q
<1>4. /\ a \in Int /\ b \in Int /\ a + t = b + r
      /\ (p < q => a + d <= b) /\ (q < p => b + d <= a) /\ (p = q => a = b)
  BY <1>1, <1>2, <1>3
<1> HIDE DEF a, b
<1>5. p = q
  BY <1>1, <1>4
<1>6. t = r
  BY <1>1, <1>4, <1>5
<1> QED
  BY <1>5, <1>6 DEF p, t

\* Adding to a sum that has wrapped gives the sum as the field holds it.
LEMMA PlusWraps ==
  ASSUME NEW a \in Nat, NEW b \in Nat
  PROVE  PlusShares(a % ShareLimit, b) = (b + a) % ShareLimit
<1> DEFINE L == ShareLimit
           k == a \div L
           r == a % L
           c == r + b
           j == c \div L
           q == c % L
<1>1. L \in Nat \ {0}
  BY EngineAssumption
<1>2. r \in 0 .. L - 1 /\ k \in Nat /\ a = L * k + r
  BY <1>1, DivMod
<1> HIDE DEF L, k, r
<1>3. c \in Nat
  BY <1>2, <1>1
<1>4. q \in 0 .. L - 1 /\ j \in Nat /\ c = L * j + q
  BY <1>1, <1>3, DivMod
<1> HIDE DEF j, q
<1>5. b + a = L * (k + j) + q
  <2>1. L * (k + j) = L * k + L * j
    BY <1>1, <1>2, <1>4
  <2> DEFINE x == L * k
             y == L * j
  <2>2. x \in Nat /\ y \in Nat
    BY <1>1, <1>2, <1>4
  <2>3. a = x + r /\ r + b = y + q
    BY <1>2, <1>4
  <2> HIDE DEF x, y
  <2>4. b + a = x + y + q
    BY <2>2, <2>3, <1>1, <1>2, <1>4
  <2> QED
    BY <2>1, <2>4 DEF x, y
<1>6. (b + a) % L = q
  <2> DEFINE h == k + j
             m == b + a
  <2>1. h \in Nat /\ m \in Nat /\ m = L * h + q
    BY <1>2, <1>4, <1>5
  <2> HIDE DEF h, m
  <2>2. m % L = q
    BY <1>1, <1>4, <2>1, DivIs
  <2> QED
    BY <2>2 DEF m
<1> QED
  BY <1>6 DEF PlusShares, L, r, q

LEMMA SmallMod ==
  ASSUME NEW a \in 0 .. ShareLimit - 1
  PROVE  a % ShareLimit = a
<1>1. ShareLimit \in Nat \ {0} /\ a \in Nat /\ a = ShareLimit * 0 + a
  BY EngineAssumption
<1> QED
  BY <1>1, DivIs

-----------------------------------------------------------------------------
(***************************************************************************)
(* One order more.                                                         *)
(***************************************************************************)
LEMMA TotalGrows ==
  ASSUME engine \in Engines, NEW s \in Sides, SortedBook(s),
         NEW n \in 1 .. Len(book[s]), NEW price
  PROVE  /\ SumFunctionOnSet(SharesOf(s), RefsUpTo(s, n - 1, price)) \in Nat
         /\ SumFunctionOnSet(SharesOf(s), RefsUpTo(s, n, price)) =
              IF book[s][n].price = price
              THEN book[s][n].shares + SumFunctionOnSet(SharesOf(s), RefsUpTo(s, n - 1, price))
              ELSE SumFunctionOnSet(SharesOf(s), RefsUpTo(s, n - 1, price))
<1> DEFINE R == RefsUpTo(s, n - 1, price)
           r == book[s][n].reference
<1>1. Len(book[s]) \in Nat
  BY DEF SortedBook
<1>2. /\ 1 .. n = (1 .. n - 1) \cup {n}
      /\ n \in Nat /\ n - 1 \in Nat /\ n \notin 1 .. n - 1
      /\ 1 .. n - 1 \subseteq 1 .. Len(book[s])
  BY <1>1
<1>3. r \in Held(s) /\ book[s][n].shares = SharesOf(s)[r]
  BY HeldFacts DEF SortedBook
<1>4. R \in SUBSET Held(s)
  BY <1>2 DEF RefsUpTo, SortedBook
<1>5. r \notin R
  BY <1>2, BookOrder DEF RefsUpTo
<1>6. RefsUpTo(s, n, price) = IF book[s][n].price = price THEN R \cup {r} ELSE R
  BY <1>2 DEF RefsUpTo
<1> HIDE DEF R, r
<1>7. IsFiniteSet(Held(s)) /\ \A x \in Held(s) : SharesOf(s)[x] \in Nat
  BY HeldFacts
<1>8. /\ SumFunctionOnSet(SharesOf(s), R) \in Nat
      /\ SumFunctionOnSet(SharesOf(s), R \cup {r}) = SharesOf(s)[r] + SumFunctionOnSet(SharesOf(s), R)
  BY <1>3, <1>4, <1>5, <1>7, SumFacts
<1> QED
  BY <1>3, <1>6, <1>8 DEF R

\* No order among the first n has the price: the total is nothing yet.
LEMMA NewTotal ==
  ASSUME engine \in Engines, NEW s \in Sides, NEW n, NEW price,
         \A k \in 1 .. n : book[s][k].price # price
  PROVE  SumFunctionOnSet(SharesOf(s), RefsUpTo(s, n, price)) = 0
<1>1. RefsUpTo(s, n, price) = {}
  BY DEF RefsUpTo
<1>2. IsFiniteSet(Held(s)) /\ \A x \in Held(s) : SharesOf(s)[x] \in Nat
  BY HeldFacts
<1> QED
  BY <1>1, <1>2, SumFacts

\* The lines before the first order: one line, of this order.
LEMMA FirstCollapsed ==
  ASSUME engine \in Engines, NEW s \in Sides, SortedBook(s), book[s] # <<>>
  PROVE  /\ <<Line(book[s][1])>> \in Seq(Order)
         /\ Len(book[s]) \in Nat /\ Len(book[s]) >= 1
         /\ Collapsed(s, <<Line(book[s][1])>>, 1)
<1> DEFINE o == book[s][1]
           t == <<Line(o)>>
<1>1. Len(book[s]) \in Nat /\ Len(book[s]) >= 1
  BY DEF SortedBook
<1>2. o \in Entry
  BY <1>1, BookOrder
<1>3. o.price \in Nat /\ o.shares \in 0 .. ShareLimit - 1
  BY <1>2 DEF Entry
<1>4. SumFunctionOnSet(SharesOf(s), RefsUpTo(s, 1 - 1, o.price)) = 0
  BY NewTotal
<1>5. SumFunctionOnSet(SharesOf(s), RefsUpTo(s, 1, o.price)) = o.shares
  <2>1. 1 \in 1 .. Len(book[s])
    BY <1>1
  <2>2. SumFunctionOnSet(SharesOf(s), RefsUpTo(s, 1, o.price)) =
          o.shares + SumFunctionOnSet(SharesOf(s), RefsUpTo(s, 1 - 1, o.price))
    BY <2>1, TotalGrows
  <2> QED
    BY <1>3, <1>4, <2>2, EngineAssumption
<1>6. o.shares % ShareLimit = o.shares
  BY <1>3, SmallMod
<1> HIDE DEF o
<1>7. /\ Len(t) = 1 /\ t[1].price = o.price /\ t[1].shares = o.shares
      /\ t \in Seq(Order)
  BY <1>3 DEF Line, Order
<1> HIDE DEF t
<1>8. \A i \in 1 .. 1 : i = 1
  OBVIOUS
<1>9. Increasing(t)
  BY <1>7 DEF Increasing
<1>10. Collapsed(s, t, 1)
  BY <1>5, <1>6, <1>7, <1>8, <1>9 DEF Collapsed, o
<1> QED
  BY <1>1, <1>7, <1>10 DEF t, o

\* The order has the price of the last line: its shares are added there.
LEMMA AddsToLast ==
  ASSUME engine \in Engines, NEW s \in Sides, SortedBook(s),
         NEW t \in Seq(Order), NEW n \in 1 .. Len(book[s]) - 1, Collapsed(s, t, n),
         NEW last, last = Len(t), last >= 1, t[last].price = book[s][n + 1].price,
         NEW u, Len(u) = last, \A i \in 1 .. last : i # last => u[i] = t[i],
         u[last].price = t[last].price,
         u[last].shares = PlusShares(t[last].shares, book[s][n + 1].shares)
  PROVE  Collapsed(s, u, n + 1)
<1> DEFINE o == book[s][n + 1]
           Total(k, p) == SumFunctionOnSet(SharesOf(s), RefsUpTo(s, k, p))
<1>1. Len(book[s]) \in Nat /\ Len(t) \in Nat
  BY DEF SortedBook
<1>2. /\ n \in Nat /\ n + 1 \in 1 .. Len(book[s]) /\ (n + 1) - 1 = n
      /\ 1 .. n + 1 = (1 .. n) \cup {n + 1} /\ last \in 1 .. Len(t)
  BY <1>1
<1>3. o \in Entry
  BY <1>2, BookOrder
<1>4. o.shares \in Nat /\ o.shares \in 0 .. ShareLimit - 1
  BY <1>3, EngineAssumption DEF Entry
<1>5. \A p : /\ Total(n, p) \in Nat
             /\ Total(n + 1, p) = IF o.price = p THEN o.shares + Total(n, p) ELSE Total(n, p)
  <2> SUFFICES ASSUME NEW p
               PROVE  /\ Total(n, p) \in Nat
                      /\ Total(n + 1, p) = IF o.price = p THEN o.shares + Total(n, p) ELSE Total(n, p)
    OBVIOUS
  <2> QED
    BY <1>2, TotalGrows
<1> HIDE DEF Total, o
<1>6. \A i \in 1 .. Len(t) : t[i].price \in Nat /\ t[i].shares \in 0 .. ShareLimit - 1 /\ t[i] \in Order
  <2>1. \A i \in 1 .. Len(t) : t[i] \in Order
    OBVIOUS
  <2> QED
    BY <2>1 DEF Order
<1>7. PlusShares(t[last].shares, o.shares) = Total(n + 1, o.price) % ShareLimit
  <2>1. t[last].shares = Total(n, o.price) % ShareLimit
    BY <1>2 DEF Collapsed, Total, o
  <2>2. PlusShares(t[last].shares, o.shares) = (o.shares + Total(n, o.price)) % ShareLimit
    BY <1>4, <1>5, <2>1, PlusWraps
  <2> QED
    BY <1>5, <2>2
<1>9. /\ Len(u) = Len(t)
      /\ \A i \in 1 .. Len(t) : u[i].price = t[i].price
      /\ \A i \in 1 .. Len(t) : i # last => u[i] = t[i]
      /\ u[last].shares = PlusShares(t[last].shares, o.shares)
  BY DEF o
<1>10. Increasing(u)
  <2>1. Increasing(t)
    BY DEF Collapsed
  <2>2. ASSUME NEW i \in 1 .. Len(u), NEW j \in 1 .. Len(u), i < j PROVE u[i].price < u[j].price
    <3>1. i \in 1 .. Len(t) /\ j \in 1 .. Len(t)
      BY <1>9
    <3>2. t[i].price < t[j].price
      BY <2>1, <2>2, <3>1 DEF Increasing
    <3> QED
      BY <1>9, <3>1, <3>2
  <2> QED
    BY <2>2 DEF Increasing
<1>11. ASSUME NEW i \in 1 .. Len(u)
       PROVE  /\ \E k \in 1 .. n + 1 : book[s][k].price = u[i].price
              /\ u[i].shares = Total(n + 1, u[i].price) % ShareLimit
  <2>1. CASE i = last
    <3>1. u[i].price = o.price
      BY <1>2, <1>9, <2>1 DEF o
    <3>2. book[s][n + 1].price = u[i].price /\ n + 1 \in 1 .. n + 1
      BY <1>2, <3>1 DEF o
    <3> QED
      BY <1>7, <1>9, <2>1, <3>1, <3>2
  <2>2. CASE i # last
    <3>1. i \in 1 .. Len(t) /\ i < last /\ u[i] = t[i]
      BY <1>1, <1>9, <2>2
    <3>2. t[i].price < t[last].price
      BY <1>2, <3>1 DEF Collapsed, Increasing
    <3>3. t[i].price # o.price
      BY <1>2, <1>6, <3>1, <3>2 DEF o
    <3>4. t[i].shares = Total(n, t[i].price) % ShareLimit
      BY <3>1 DEF Collapsed, Total
    <3>5. \E k \in 1 .. n : book[s][k].price = t[i].price
      BY <3>1 DEF Collapsed
    <3> QED
      BY <1>2, <1>5, <3>1, <3>3, <3>4, <3>5
  <2> QED
    BY <2>1, <2>2
<1>12. ASSUME NEW k \in 1 .. n + 1 PROVE \E i \in 1 .. Len(u) : u[i].price = book[s][k].price
  <2>1. CASE k = n + 1
    BY <1>2, <1>9, <2>1
  <2>2. CASE k \in 1 .. n
    BY <1>9, <2>2 DEF Collapsed
  <2> QED
    BY <1>2, <2>1, <2>2
<1>13. Collapsed(s, u, n + 1)
  BY <1>10, <1>11, <1>12 DEF Collapsed, Total
<1> QED
  BY <1>13

\* Appending at the end of the lines is what emplace_hint does with a price above all others.
LEMMA EmplacedLast ==
  ASSUME NEW t \in Seq(Order), NEW o, o.price \in Nat, \A i \in 1 .. Len(t) : t[i].price < o.price
  PROVE  /\ EmplaceLine(t, o) = Append(t, Line(o))
         /\ LineOf(EmplaceLine(t, o), o.price) = Len(t) + 1
<1> DEFINE m == Len(t)
           I == {i \in 1 .. m : t[i].price < o.price}
           u == Append(t, Line(o))
<1>1. m \in Nat /\ \A i \in 1 .. m : t[i] \in Order
  OBVIOUS
<1>2. \A i \in 1 .. m : t[i].price \in Nat /\ t[i].price # o.price
  BY <1>1 DEF Order
<1>3. I = 1 .. m
  OBVIOUS
<1>4. Cardinality(I) = m
  <2> HIDE DEF m, I
  <2>1. 1 \in Int /\ m \in Int
    BY <1>1
  <2>2. Cardinality(1 .. m) = IF 1 > m THEN 0 ELSE m - 1 + 1
    BY <2>1, FS_Interval
  <2> QED
    BY <1>1, <1>3, <2>2
<1>5. EmplaceLine(t, o) = InsertAt(t, 1 + Cardinality(I), Line(o))
  BY <1>2 DEF EmplaceLine
<1>6. InsertAt(t, 1 + m, Line(o)) = u
  <2>1. InsertAt(t, 1 + m, Line(o)) = SubSeq(t, 1, (1 + m) - 1) \o <<Line(o)>> \o SubSeq(t, 1 + m, Len(t))
    BY DEF InsertAt
  <2>2. SubSeq(t, 1, (1 + m) - 1) = t /\ SubSeq(t, 1 + m, Len(t)) = <<>>
    BY <1>1
  <2>3. t \o <<Line(o)>> = u
    OBVIOUS
  <2>4. u \o <<>> = u
    OBVIOUS
  <2> QED
    BY <2>1, <2>2, <2>3, <2>4
<1>7. EmplaceLine(t, o) = u
  <2> HIDE DEF u, I, m
  <2> QED
    BY <1>4, <1>5, <1>6
<1>8. /\ Len(u) = m + 1 /\ \A i \in 1 .. m : u[i] = t[i]
      /\ u[m + 1] = Line(o)
  OBVIOUS
<1>9. u[m + 1].price = o.price
  BY <1>8 DEF Line
<1>10. LineOf(u, o.price) = m + 1
  <2> HIDE DEF u, m
  <2>1. \A i \in 1 .. Len(u) : u[i].price = o.price <=> i = m + 1
    BY <1>1, <1>2, <1>8, <1>9
  <2>2. m + 1 \in 1 .. Len(u)
    BY <1>1, <1>8
  <2> QED
    BY <2>1, <2>2 DEF LineOf
<1> QED
  BY <1>7, <1>10

\* The order has another price than the last line: it is above all lines, and gets its own.
LEMMA AddsALine ==
  ASSUME engine \in Engines, NEW s \in Sides, SortedBook(s),
         NEW t \in Seq(Order), NEW n \in 1 .. Len(book[s]) - 1, Collapsed(s, t, n),
         NEW last, last = Len(t), last >= 1, t[last].price = book[s][n].price,
         t[last].price # book[s][n + 1].price
  PROVE  LET o == book[s][n + 1]
             u == EmplaceLine(t, o)
         IN  /\ u \in Seq(Order) /\ Len(u) = last + 1 /\ LineOf(u, o.price) = last + 1
             /\ u[last + 1].price = o.price
             /\ Collapsed(s, u, n + 1)
<1> DEFINE o == book[s][n + 1]
           u == EmplaceLine(t, o)
           Total(k, p) == SumFunctionOnSet(SharesOf(s), RefsUpTo(s, k, p))
<1>1. Len(book[s]) \in Nat /\ Len(t) \in Nat
  BY DEF SortedBook
<1>2. /\ n \in Nat /\ n + 1 \in 1 .. Len(book[s]) /\ (n + 1) - 1 = n /\ n \in 1 .. Len(book[s])
      /\ 1 .. n + 1 = (1 .. n) \cup {n + 1} /\ last \in 1 .. Len(t)
      /\ 1 .. n \subseteq 1 .. Len(book[s])
  BY <1>1
<1>3. o \in Entry
  BY <1>2, BookOrder
<1>4. o.shares \in 0 .. ShareLimit - 1 /\ o.price \in Nat
  BY <1>3 DEF Entry
<1>5. \A p : /\ Total(n, p) \in Nat
             /\ Total(n + 1, p) = IF o.price = p THEN o.shares + Total(n, p) ELSE Total(n, p)
  <2> SUFFICES ASSUME NEW p
               PROVE  /\ Total(n, p) \in Nat
                      /\ Total(n + 1, p) = IF o.price = p THEN o.shares + Total(n, p) ELSE Total(n, p)
    OBVIOUS
  <2> QED
    BY <1>2, TotalGrows
<1>6. \A i \in 1 .. Len(t) : t[i].price \in Nat /\ t[i] \in Order
  <2>1. \A i \in 1 .. Len(t) : t[i] \in Order
    OBVIOUS
  <2> QED
    BY <2>1 DEF Order
<1>7. \A k \in 1 .. n : book[s][k].price <= book[s][n].price /\ book[s][k].price \in Nat
  <2>1. \A k \in 1 .. n : k \in 1 .. Len(book[s]) /\ k <= n
    BY <1>2
  <2>2. \A k \in 1 .. n : book[s][k] \in Entry
    BY <2>1, BookOrder
  <2> QED
    BY <1>2, <2>1, <2>2, BookOrder DEF Entry
<1>8. book[s][n].price < o.price
  <2>1. book[s][n].price <= o.price
    BY <1>2, BookOrder
  <2>2. book[s][n].price \in Nat
    BY <1>2, <1>7
  <2> QED
    BY <1>4, <2>1, <2>2
<1>9. \A k \in 1 .. n : book[s][k].price < o.price
  BY <1>4, <1>7, <1>8
<1>10. \A i \in 1 .. Len(t) : t[i].price < o.price
  BY <1>9 DEF Collapsed
<1> HIDE DEF o
<1>11. u = Append(t, Line(o)) /\ LineOf(u, o.price) = Len(t) + 1
  BY <1>4, <1>10, EmplacedLast
<1>12. Line(o) \in Order /\ Line(o).price = o.price /\ Line(o).shares = o.shares
  BY <1>4 DEF Line, Order
<1> HIDE DEF u, Total
<1>13. /\ u \in Seq(Order) /\ Len(u) = last + 1
       /\ \A i \in 1 .. last : u[i] = t[i]
       /\ u[last + 1] = Line(o)
  BY <1>11, <1>12
<1>14. Increasing(u)
  <2>1. ASSUME NEW i \in 1 .. Len(u), NEW j \in 1 .. Len(u), i < j
        PROVE  u[i].price < u[j].price
    <3>1. i \in 1 .. Len(t) /\ (j \in 1 .. Len(t) \/ j = last + 1)
      BY <1>1, <1>13, <2>1
    <3>2. CASE j \in 1 .. Len(t)
      BY <1>13, <2>1, <3>1, <3>2 DEF Collapsed, Increasing
    <3>3. CASE j = last + 1
      BY <1>10, <1>12, <1>13, <3>1, <3>3
    <3> QED
      BY <3>1, <3>2, <3>3
  <2> QED
    BY <2>1 DEF Increasing
<1>15. Total(n, o.price) = 0
  <2>1. \A k \in 1 .. n : book[s][k].price # o.price
    BY <1>4, <1>7, <1>9
  <2> QED
    BY <2>1, NewTotal DEF Total
<1>16. ASSUME NEW i \in 1 .. Len(u)
       PROVE  /\ \E k \in 1 .. n + 1 : book[s][k].price = u[i].price
              /\ u[i].shares = Total(n + 1, u[i].price) % ShareLimit
  <2>1. CASE i = last + 1
    <3>1. u[i].price = o.price /\ u[i].shares = o.shares
      BY <1>12, <1>13, <2>1
    <3>2. Total(n + 1, o.price) = o.shares
      BY <1>4, <1>5, <1>15, EngineAssumption
    <3>3. o.shares % ShareLimit = o.shares
      BY <1>4, SmallMod
    <3>4. book[s][n + 1].price = u[i].price /\ n + 1 \in 1 .. n + 1
      BY <1>2, <3>1 DEF o
    <3> QED
      BY <3>1, <3>2, <3>3, <3>4
  <2>2. CASE i # last + 1
    <3>1. i \in 1 .. Len(t) /\ u[i] = t[i]
      BY <1>1, <1>13, <2>2
    <3>2. t[i].price # o.price
      BY <1>4, <1>6, <1>10, <3>1
    <3>3. t[i].shares = Total(n, t[i].price) % ShareLimit
      BY <3>1 DEF Collapsed, Total
    <3>4. \E k \in 1 .. n : book[s][k].price = t[i].price
      BY <3>1 DEF Collapsed
    <3> QED
      BY <1>2, <1>5, <3>1, <3>2, <3>3, <3>4
  <2> QED
    BY <2>1, <2>2
<1>17. ASSUME NEW k \in 1 .. n + 1 PROVE \E i \in 1 .. Len(u) : u[i].price = book[s][k].price
  <2>1. CASE k = n + 1
    <3>1. last + 1 \in 1 .. Len(u) /\ u[last + 1].price = book[s][k].price
      BY <1>1, <1>12, <1>13, <2>1 DEF o
    <3> QED
      BY <3>1
  <2>2. CASE k \in 1 .. n
    <3>1. PICK i \in 1 .. Len(t) : t[i].price = book[s][k].price
      BY <2>2 DEF Collapsed
    <3>2. i \in 1 .. Len(u) /\ u[i] = t[i]
      BY <1>1, <1>13
    <3> QED
      BY <3>1, <3>2
  <2> QED
    BY <1>2, <2>1, <2>2
<1>18. Collapsed(s, u, n + 1)
  BY <1>14, <1>16, <1>17 DEF Collapsed, Total
<1> QED
  BY <1>11, <1>12, <1>13, <1>18 DEF u, o

-----------------------------------------------------------------------------
(***************************************************************************)
(* The invariant.                                                          *)
(***************************************************************************)
\* A sorted book stays one: only MakeBook changes a book, and nothing changes the engine.
LEMMA SortedFrame ==
  ASSUME engine' = engine, NEW s, book'[s] = book[s], SortedBook(s)
  PROVE  SortedBook(s)'
<1>1. Held(s)' = Held(s)
  BY Zenon DEF Held, Holds
<1> QED
  BY <1>1 DEF SortedBook

\* Lines that are the first n orders, collapsed, stay so.
LEMMA CollapsedFrame ==
  ASSUME engine' = engine, book' = book, NEW s, NEW t, NEW n, Collapsed(s, t, n)
  PROVE  Collapsed(s, t, n)'
<1>1. SharesOf(s)' = SharesOf(s)
  BY Zenon DEF SharesOf, Held, Holds
<1>2. \A p : RefsUpTo(s, n, p)' = RefsUpTo(s, n, p)
  BY Zenon DEF RefsUpTo
<1> QED
  BY <1>1, <1>2 DEF Collapsed, Increasing

LEMMA BookInit == Init => BookInv
<1> SUFFICES ASSUME Init PROVE BookInv
  OBVIOUS
<1>1. EmptySides \in [Sides -> Seq(Entry)] /\ EmptySides \in [Sides -> Seq(Order)]
  BY DEF EmptySides
<1>2. BookType
  BY <1>1, BuilderAssumption DEF Init, BookType, Sides
<1>3. Made /\ Untouched /\ Looping /\ Over /\ Printing
  BY DEF Init, Made, Untouched, Looping, Over, Printing
<1> QED
  BY <1>2, <1>3 DEF BookInv

LEMMA MakeBookHolds ==
  ASSUME BookInv, MakeBook
  PROVE  BookInv'
<1>1. /\ engine' = engine /\ collapse' = collapse /\ collapsed' = collapsed /\ lines' = lines
      /\ pc = "make" /\ engine \in Engines /\ side \in Sides
      /\ book \in [Sides -> Seq(Entry)]
      /\ book' = [book EXCEPT ![side] = make_book(engine[side])]
      /\ collapsed = EmptySides /\ lines = EmptySides
  BY DEF MakeBook, BookInv, BookType, Untouched, Printing
<1>2. ASSUME NEW s \in Sides, side = s PROVE SortedBook(s)'
  <2>1. Held(s)' = Held(s)
    BY <1>1, Zenon DEF Held, Holds
  <2>2. book'[s] = make_book(engine[s])
    BY <1>1, <1>2
  <2> DEFINE t == make_book(engine[s])
  <2>3. /\ t \in Seq(Entry) /\ Len(t) = Cardinality(Held(s))
        /\ \A i \in 1 .. Len(t) : /\ t[i].reference \in Held(s)
                                  /\ t[i].price = engine[s][t[i].reference].price
                                  /\ t[i].shares = engine[s][t[i].reference].shares
        /\ \A r \in Held(s) : \E i \in 1 .. Len(t) : t[i].reference = r
        /\ \A i, j \in 1 .. Len(t) : i < j => Before(t[i], t[j])
    BY <1>1, MakesSortedBook
  <2> HIDE DEF t
  <2>4. book'[s] = t
    BY <2>2 DEF t
  <2> QED
    BY <1>1, <2>1, <2>3, <2>4 DEF SortedBook
<1>3. book' \in [Sides -> Seq(Entry)]
  <2>1. make_book(engine[side]) \in Seq(Entry)
    BY <1>1, MakesSortedBook
  <2> QED
    BY <1>1, <2>1
<1>4. "buy" \in Sides /\ "sell" \in Sides /\ (side = "buy" \/ side = "sell")
  BY <1>1 DEF Sides
<1>5. CASE side = "buy"
  <2>1. side' = "sell" /\ pc' = "make"
    BY <1>5 DEF MakeBook
  <2>2. SortedBook("buy")'
    BY <1>2, <1>4, <1>5
  <2>3. BookType' /\ Made'
    BY <1>1, <1>3, <1>4, <2>1, <2>2 DEF BookInv, BookType, Made
  <2>4. Untouched' /\ Looping' /\ Over' /\ Printing'
    BY <1>1, <2>1 DEF Untouched, Looping, Over, Printing
  <2> QED
    BY <2>3, <2>4 DEF BookInv
<1>6. CASE side = "sell"
  <2>1. side' = "buy" /\ pc' = IF collapse THEN "first" ELSE "print"
    BY <1>6 DEF MakeBook, BookInv, BookType
  <2>2. SortedBook("sell")'
    BY <1>2, <1>4, <1>6
  <2>3. SortedBook("buy")'
    <3>1. SortedBook("buy") /\ book'["buy"] = book["buy"]
      BY <1>1, <1>4, <1>6 DEF BookInv, Made
    <3> QED
      BY <1>1, <3>1, SortedFrame
  <2>4. BookType'
    BY <1>1, <1>3, <1>4, <2>1 DEF BookInv, BookType
  <2>5. Made'
    BY <2>1, <2>2, <2>3 DEF Made
  <2>6. Untouched' /\ Looping' /\ Over' /\ Printing'
    BY <1>1, <1>4, <2>1 DEF Untouched, Looping, Over, Printing, EmptySides
  <2> QED
    BY <2>4, <2>5, <2>6 DEF BookInv
<1> QED
  BY <1>4, <1>5, <1>6

\* collapse_book is over for a side.
LEMMA NextSideHolds ==
  ASSUME BookInv, pc \in {"first", "loop"}, NextSide,
         \A s \in Sides : side = s => Collapsed(s, collapsed[s], Len(book[s])),
         UNCHANGED <<engine, collapse, book, src, dest, collapsed, lines>>
  PROVE  BookInv'
<1>1. /\ engine' = engine /\ collapse' = collapse /\ collapsed' = collapsed /\ lines' = lines
      /\ book' = book /\ side' = "sell" /\ pc' = IF side = "buy" THEN "first" ELSE "print"
      /\ "buy" \in Sides /\ "sell" \in Sides /\ (side = "buy" \/ side = "sell")
      /\ \A s \in Sides : s = "buy" \/ s = "sell"
  BY DEF NextSide, BookInv, BookType, Sides
<1>2. BookType'
  BY <1>1 DEF BookInv, BookType
<1>3. Made'
  <2>1. SortedBook("buy") /\ SortedBook("sell")
    BY DEF BookInv, Made
  <2>2. SortedBook("buy")' /\ SortedBook("sell")'
    BY <1>1, <2>1, SortedFrame
  <2> QED
    BY <2>2 DEF Made
<1>4. ASSUME NEW s \in Sides, Collapsed(s, collapsed[s], Len(book[s]))
      PROVE  Collapsed(s, collapsed[s], Len(book[s]))'
  BY <1>1, <1>4, CollapsedFrame
<1>5. Looping' /\ Printing'
  BY <1>1 DEF Looping, BookInv, Printing
<1>6. Untouched'
  BY <1>1 DEF Untouched, BookInv
<1>7. Over'
  <2>1. CASE side = "buy"
    BY <1>1, <1>4, <2>1 DEF Over
  <2>2. CASE side = "sell"
    <3>1. Collapsed("buy", collapsed["buy"], Len(book["buy"]))
      BY <2>2 DEF BookInv, Over
    <3>2. \A s \in Sides : Collapsed(s, collapsed[s], Len(book[s]))'
      BY <1>1, <1>4, <2>2, <3>1
    <3> QED
      BY <1>1, <2>2, <3>2 DEF Over
  <2> QED
    BY <1>1, <2>1, <2>2
<1> QED
  BY <1>2, <1>3, <1>5, <1>6, <1>7 DEF BookInv

LEMMA CollapseEmptyHolds ==
  ASSUME BookInv, CollapseEmpty
  PROVE  BookInv'
<1>1. ASSUME NEW s \in Sides, side = s PROVE Collapsed(s, collapsed[s], Len(book[s]))
  <2>1. collapsed[s] = <<>> /\ book[s] = <<>>
    BY <1>1 DEF BookInv, Untouched, CollapseEmpty
  <2>2. Len(collapsed[s]) = 0 /\ Len(book[s]) = 0 /\ 1 .. 0 = {}
    BY <2>1
  <2> QED
    BY <2>2 DEF Collapsed, Increasing
<1> QED
  BY <1>1, NextSideHolds DEF CollapseEmpty

LEMMA CollapseEndHolds ==
  ASSUME BookInv, CollapseEnd
  PROVE  BookInv'
<1>1. ASSUME NEW s \in Sides, side = s PROVE Collapsed(s, collapsed[s], Len(book[s]))
  <2>1. /\ pc = "loop" /\ src > Len(book[s]) /\ src \in 2 .. Len(book[s]) + 1
        /\ Collapsed(s, collapsed[s], src - 1) /\ book[s] \in Seq(Entry)
    BY <1>1 DEF BookInv, BookType, Looping, CollapseEnd
  <2>2. src - 1 = Len(book[s])
    <3>1. Len(book[s]) \in Nat
      BY <2>1
    <3> QED
      BY <2>1, <3>1
  <2> QED
    BY <2>1, <2>2
<1> QED
  BY <1>1, NextSideHolds DEF CollapseEnd

\* A step in the pass over one side: the lines of this side are t, the first n orders
\* collapsed, and the loop goes on with the next.
LEMMA LoopHolds ==
  ASSUME BookInv, pc \in {"first", "loop"}, pc' = "loop",
         engine' = engine, collapse' = collapse, side' = side, book' = book, lines' = lines,
         NEW t \in Seq(Order), NEW n \in 1 .. Len(book[side]),
         collapsed' = [collapsed EXCEPT ![side] = t],
         src' = n + 1, dest' = Len(t), Len(t) >= 1,
         \A s \in Sides : side = s => t[Len(t)].price = book[s][n].price /\ Collapsed(s, t, n)
  PROVE  BookInv'
<1>1. /\ "buy" \in Sides /\ "sell" \in Sides /\ side \in Sides
      /\ collapsed \in [Sides -> Seq(Order)]
      /\ \A s \in Sides : s = "buy" \/ s = "sell"
  BY DEF BookInv, BookType, Sides
<1>2. BookType'
  BY <1>1 DEF BookInv, BookType
<1>3. Made'
  <2>1. SortedBook("buy") /\ SortedBook("sell")
    BY DEF BookInv, Made
  <2>2. SortedBook("buy")' /\ SortedBook("sell")'
    BY <2>1, SortedFrame
  <2> QED
    BY <2>2 DEF Made
<1>4. Printing'
  BY DEF BookInv, Printing
<1>5. Untouched'
  BY <1>1 DEF BookInv, Untouched
<1>6. Over'
  <2>1. SUFFICES ASSUME side = "sell" PROVE Collapsed("buy", collapsed["buy"], Len(book["buy"]))'
    BY DEF Over
  <2>2. Collapsed("buy", collapsed["buy"], Len(book["buy"])) /\ collapsed'["buy"] = collapsed["buy"]
    BY <1>1, <2>1 DEF BookInv, Over
  <2> QED
    BY <2>2, CollapsedFrame
<1>7. Len(book[side]) \in Nat
  BY <1>1 DEF BookInv, BookType
<1>8. /\ collapsed'[side'] = t /\ src' - 1 = n
      /\ src' \in 2 .. Len(book[side]) + 1
  BY <1>1, <1>7
<1>9. t[Len(t)].price = book[side][n].price /\ Collapsed(side, t, n)
  BY <1>1
<1>10. Collapsed(side, collapsed[side], src - 1)'
  BY <1>8, <1>9, CollapsedFrame
<1>11. Looping'
  BY <1>8, <1>9, <1>10 DEF Looping
<1> QED
  BY <1>2, <1>3, <1>4, <1>5, <1>6, <1>11 DEF BookInv

LEMMA CollapseFirstHolds ==
  ASSUME BookInv, CollapseFirst
  PROVE  BookInv'
<1> DEFINE t == <<Line(book[side][1])>>
<1>1. /\ pc = "first" /\ pc' = "loop" /\ book[side] # <<>>
      /\ engine' = engine /\ collapse' = collapse /\ side' = side /\ book' = book /\ lines' = lines
      /\ collapsed' = [collapsed EXCEPT ![side] = t]
      /\ src' = 2 /\ dest' = 1
  BY DEF CollapseFirst
<1>2. engine \in Engines /\ side \in Sides /\ SortedBook(side)
  BY <1>1 DEF BookInv, BookType, Made, Sides
<1>3. /\ t \in Seq(Order) /\ Len(book[side]) \in Nat /\ Len(book[side]) >= 1
      /\ Collapsed(side, t, 1)
  BY <1>1, <1>2, FirstCollapsed
<1>4. Len(t) = 1 /\ t[1].price = book[side][1].price
  BY DEF Line
<1> HIDE DEF t
<1>5. 1 \in 1 .. Len(book[side]) /\ src' = 1 + 1 /\ dest' = Len(t) /\ Len(t) >= 1
  BY <1>1, <1>3, <1>4
<1>6. t[Len(t)].price = book[side][1].price
  BY <1>4
<1>7. \A s \in Sides : side = s => t[Len(t)].price = book[s][1].price /\ Collapsed(s, t, 1)
  BY <1>3, <1>6
<1> QED
  BY <1>1, <1>3, <1>5, <1>7, LoopHolds

LEMMA CollapseStepHolds ==
  ASSUME BookInv, CollapseStep
  PROVE  BookInv'
<1> DEFINE n == src - 1
           o == book[side][src]
           t == collapsed[side]
           add == [t EXCEPT ![dest].shares = PlusShares(@, o.shares)]
           new == EmplaceLine(t, o)
<1>1. /\ pc = "loop" /\ pc' = "loop" /\ src <= Len(book[side]) /\ src' = src + 1
      /\ engine' = engine /\ collapse' = collapse /\ side' = side /\ book' = book /\ lines' = lines
  BY DEF CollapseStep
<1>2. /\ engine \in Engines /\ side \in Sides /\ SortedBook(side)
      /\ collapsed \in [Sides -> Seq(Order)] /\ t \in Seq(Order)
      /\ Len(book[side]) \in Nat
  BY <1>1 DEF BookInv, BookType, Made, Sides
<1>3. /\ src \in 2 .. Len(book[side]) + 1 /\ dest = Len(t) /\ dest >= 1
      /\ t[dest].price = book[side][n].price /\ Collapsed(side, t, n)
  BY <1>1 DEF BookInv, Looping
<1>4. /\ n \in 1 .. Len(book[side]) - 1 /\ n + 1 = src /\ src \in 1 .. Len(book[side])
      /\ o = book[side][n + 1] /\ src' = src + 1
  BY <1>1, <1>2, <1>3
<1>5. CASE t[dest].price = o.price
  <2>1. collapsed' = [collapsed EXCEPT ![side] = add] /\ dest' = dest
    <3>1. collapsed' = [collapsed EXCEPT ![side][dest].shares = PlusShares(@, o.shares)] /\ dest' = dest
      BY <1>5 DEF CollapseStep
    <3> QED
      BY <3>1
  <2> HIDE DEF n, o, t
  <2>2. /\ add \in Seq(Order) /\ Len(add) = dest
        /\ add[dest].price = o.price /\ Collapsed(side, add, n + 1)
    <3> DEFINE y == t[dest]
               v == PlusShares(y.shares, o.shares)
               x == [y EXCEPT !.shares = v]
    <3>1. add = [t EXCEPT ![dest] = x]
      OBVIOUS
    <3>2. y \in Order /\ dest \in 1 .. Len(t) /\ Len(t) \in Nat
      BY <1>2, <1>3
    <3>3. v \in 0 .. ShareLimit - 1
      <4>1. o \in Entry
        BY <1>2, <1>4, BookOrder
      <4>2. y.shares + o.shares \in Nat
        BY <3>2, <4>1, EngineAssumption DEF Order, Entry
      <4> QED
        BY <4>2, DivMod, EngineAssumption DEF PlusShares
    <3> HIDE DEF y, v
    <3>4. x \in Order /\ x.price = y.price /\ x.shares = v
      BY <3>2, <3>3 DEF Order
    <3> HIDE DEF x, add
    <3>5. /\ add \in Seq(Order) /\ Len(add) = dest /\ add[dest] = x
          /\ \A i \in 1 .. dest : i # dest => add[i] = t[i]
      BY <1>2, <1>3, <3>1, <3>2, <3>4
    <3>6. /\ add[dest].price = t[dest].price
          /\ add[dest].shares = PlusShares(t[dest].shares, book[side][n + 1].shares)
          /\ t[dest].price = book[side][n + 1].price
      BY <1>4, <1>5, <3>4, <3>5 DEF y, v
    <3>7. Collapsed(side, add, n + 1)
      BY <1>2, <1>3, <1>4, <3>5, <3>6, AddsToLast
    <3> QED
      BY <1>5, <3>5, <3>6, <3>7
  <2> HIDE DEF add
  <2>3. \A s \in Sides : side = s => add[Len(add)].price = book[s][src].price /\ Collapsed(s, add, src)
    BY <1>4, <2>2 DEF o
  <2> QED
    BY <1>1, <1>3, <1>4, <2>1, <2>2, <2>3, LoopHolds
<1>6. CASE t[dest].price # o.price
  <2>1. collapsed' = [collapsed EXCEPT ![side] = new] /\ dest' = LineOf(new, o.price)
    BY <1>6 DEF CollapseStep
  <2> HIDE DEF n, o, t
  <2>2. /\ new \in Seq(Order) /\ Len(new) = dest + 1 /\ LineOf(new, o.price) = dest + 1
        /\ new[dest + 1].price = o.price /\ Collapsed(side, new, n + 1)
    BY <1>2, <1>3, <1>4, <1>6, AddsALine
  <2> HIDE DEF new
  <2>3. \A s \in Sides : side = s => new[Len(new)].price = book[s][src].price /\ Collapsed(s, new, src)
    BY <1>4, <2>2 DEF o
  <2>4. Len(new) >= 1
    BY <1>3, <2>2 DEF t
  <2> QED
    BY <1>1, <1>4, <2>1, <2>2, <2>3, <2>4, LoopHolds
<1> QED
  BY <1>5, <1>6

MaxOf(b) == Max(UNION {{b[s][i].shares : i \in 1 .. Len(b[s])} : s \in Sides})

LEMMA PrintedFrame ==
  ASSUME collapse' = collapse, book' = book, collapsed' = collapsed
  PROVE  Printed' = Printed
<1>1. Shown' = Shown
  BY DEF Shown
<1>2. the_max = MaxOf(Shown) /\ the_max' = MaxOf(Shown')
  BY DEF the_max, MaxOf
<1>3. the_max' = the_max
  BY <1>1, <1>2
<1> QED
  BY <1>1, <1>3, Zenon DEF Printed

LEMMA PrintBooksHolds ==
  ASSUME BookInv, PrintBooks
  PROVE  BookInv'
<1>1. /\ pc = "print" /\ pc' = "done" /\ lines' = Printed
      /\ engine' = engine /\ collapse' = collapse /\ side' = side /\ book' = book
      /\ collapsed' = collapsed
  BY DEF PrintBooks, Printed
<1>2. BookType'
  BY <1>1 DEF BookInv, BookType
<1>3. Made'
  <2>1. SortedBook("buy") /\ SortedBook("sell")
    BY <1>1 DEF BookInv, Made
  <2>2. SortedBook("buy")' /\ SortedBook("sell")'
    BY <1>1, <2>1, SortedFrame
  <2> QED
    BY <2>2 DEF Made
<1>4. Untouched' /\ Looping'
  BY <1>1 DEF Untouched, Looping
<1>5. Over'
  <2>1. ASSUME NEW s \in Sides, collapse PROVE Collapsed(s, collapsed[s], Len(book[s]))'
    <3>1. Collapsed(s, collapsed[s], Len(book[s]))
      BY <1>1, <2>1 DEF BookInv, Over
    <3> QED
      BY <1>1, <3>1, CollapsedFrame
  <2> QED
    BY <1>1, <2>1 DEF Over
<1>6. Printed' = Printed
  BY <1>1, PrintedFrame
<1>7. Printing'
  BY <1>1, <1>6 DEF Printing
<1> QED
  BY <1>2, <1>3, <1>4, <1>5, <1>7 DEF BookInv

LEMMA BookStutters ==
  ASSUME BookInv, UNCHANGED vars
  PROVE  BookInv'
<1>1. /\ engine' = engine /\ collapse' = collapse /\ side' = side /\ book' = book /\ pc' = pc
      /\ collapsed' = collapsed /\ lines' = lines /\ src' = src /\ dest' = dest
  BY DEF vars
<1>2. BookType' /\ Untouched'
  BY <1>1 DEF BookInv, BookType, Untouched
<1>3. Made'
  <2>1. \A s \in Sides : SortedBook(s) => SortedBook(s)'
    BY <1>1, SortedFrame
  <2> QED
    BY <1>1, <2>1 DEF BookInv, Made, Sides
<1>4. Over'
  <2>1. \A s \in Sides : Collapsed(s, collapsed[s], Len(book[s])) =>
                           Collapsed(s, collapsed[s], Len(book[s]))'
    BY <1>1, CollapsedFrame
  <2> QED
    BY <1>1, <2>1 DEF BookInv, Over, Sides
<1>5. Looping'
  <2>1. Collapsed(side, collapsed[side], src - 1) => Collapsed(side, collapsed[side], src - 1)'
    BY <1>1, CollapsedFrame
  <2> QED
    BY <1>1, <2>1 DEF BookInv, Looping
<1>6. Printing'
  BY <1>1, PrintedFrame DEF BookInv, Printing
<1> QED
  BY <1>2, <1>3, <1>4, <1>5, <1>6 DEF BookInv

LEMMA BookInvariance == Spec => []BookInv
<1>1. BookInv /\ [Next]_vars => BookInv'
  BY MakeBookHolds, CollapseEmptyHolds, CollapseFirstHolds, CollapseStepHolds, CollapseEndHolds,
     PrintBooksHolds, BookStutters DEF Next, Done
<1> QED
  BY <1>1, BookInit, PTL DEF Spec

-----------------------------------------------------------------------------
(***************************************************************************)
(* The properties.                                                         *)
(***************************************************************************)
LEMMA WholeBook ==
  ASSUME engine \in Engines, NEW s \in Sides, SortedBook(s)
  PROVE  /\ \A price : RefsUpTo(s, Len(book[s]), price) = OrdersAt(s, price)
         /\ PricesOn(s) = {book[s][k].price : k \in 1 .. Len(book[s])}
<1> DEFINE n == Len(book[s])
<1>1. /\ \A i \in 1 .. n : /\ book[s][i].reference \in Held(s)
                           /\ book[s][i].price = engine[s][book[s][i].reference].price
      /\ \A r \in Held(s) : \E i \in 1 .. n : book[s][i].reference = r
  BY DEF SortedBook
<1> HIDE DEF n
<1>2. ASSUME NEW price PROVE RefsUpTo(s, n, price) = OrdersAt(s, price)
  <2>1. ASSUME NEW r \in RefsUpTo(s, n, price) PROVE r \in OrdersAt(s, price)
    BY <1>1 DEF RefsUpTo, OrdersAt
  <2>2. ASSUME NEW r \in OrdersAt(s, price) PROVE r \in RefsUpTo(s, n, price)
    <3>1. r \in Held(s) /\ engine[s][r].price = price
      BY DEF OrdersAt
    <3>2. PICK i \in 1 .. n : book[s][i].reference = r
      BY <1>1, <3>1
    <3>3. book[s][i].price = price
      BY <1>1, <3>1, <3>2
    <3> QED
      BY <3>2, <3>3 DEF RefsUpTo
  <2> QED
    BY <2>1, <2>2
<1>3. PricesOn(s) = {book[s][k].price : k \in 1 .. n}
  <2>1. ASSUME NEW p \in PricesOn(s) PROVE p \in {book[s][k].price : k \in 1 .. n}
    <3>1. PICK r \in Held(s) : p = engine[s][r].price
      BY DEF PricesOn
    <3>2. PICK i \in 1 .. n : book[s][i].reference = r
      BY <1>1
    <3> QED
      BY <1>1, <3>1, <3>2
  <2>2. \A k \in 1 .. n : book[s][k].price \in PricesOn(s)
    BY <1>1 DEF PricesOn
  <2> QED
    BY <2>1, <2>2
<1> QED
  BY <1>2, <1>3 DEF n

\* The one-pass collapse loses no order and merges no two prices, for any engine: its lines
\* are the prices of the map in increasing order, each with its total as the field holds it.
THEOREM CollapseAlwaysSums == Spec => []CollapsedIsTheSum
<1>1. ASSUME BookInv, pc \in {"print", "done"}, collapse, NEW s \in Sides
      PROVE  /\ Len(collapsed[s]) = Cardinality(PricesOn(s))
             /\ \A i \in 1 .. Len(collapsed[s]) :
                  /\ collapsed[s][i].price \in PricesOn(s)
                  /\ collapsed[s][i].shares = SharesAt(s, collapsed[s][i].price) % ShareLimit
                  /\ i > 1 => collapsed[s][i - 1].price < collapsed[s][i].price
  <2> DEFINE t == collapsed[s]
             n == Len(book[s])
             m == Len(t)
             f == [i \in 1 .. m |-> t[i].price]
  <2>1. engine \in Engines /\ SortedBook(s) /\ Collapsed(s, t, n) /\ t \in Seq(Order)
    BY <1>1 DEF BookInv, BookType, Made, Over, Sides
  <2>2. m \in Nat /\ \A i \in 1 .. m : t[i] \in Order
    BY <2>1
  <2>3. \A i \in 1 .. m : t[i].price \in Nat
    BY <2>2 DEF Order
  <2>4. Increasing(t)
    BY <2>1 DEF Collapsed
  <2>5. \A i \in 1 .. m : t[i].price \in PricesOn(s)
    BY <2>1, WholeBook DEF Collapsed
  <2>6. \A i \in 1 .. m : t[i].shares = SharesAt(s, t[i].price) % ShareLimit
    BY <2>1, WholeBook DEF Collapsed, SharesAt
  <2>7. ASSUME NEW p \in PricesOn(s) PROVE \E i \in 1 .. m : t[i].price = p
    <3>1. PricesOn(s) = {book[s][k].price : k \in 1 .. n}
      BY <2>1, WholeBook
    <3>2. PICK k \in 1 .. n : book[s][k].price = p
      BY <3>1
    <3> QED
      BY <2>1, <3>2 DEF Collapsed
  <2> HIDE DEF t, n, m
  <2>8. \A i, j \in 1 .. m : i < j => t[i].price < t[j].price
    BY <2>4 DEF Increasing, m
  <2>9. ASSUME NEW i \in 1 .. m, NEW j \in 1 .. m, t[i].price = t[j].price PROVE i = j
    <3>1. ~(i < j) /\ ~(j < i)
      BY <2>3, <2>8, <2>9
    <3> QED
      BY <2>2, <3>1
  <2>10. Cardinality(PricesOn(s)) = m
    <3>1. f \in [1 .. m -> PricesOn(s)]
      BY <2>5
    <3>2. \A i, j \in 1 .. m : f[i] = f[j] => i = j
      BY <2>9
    <3>3. \A p \in PricesOn(s) : \E i \in 1 .. m : f[i] = p
      BY <2>7
    <3> HIDE DEF f
    <3>4. f \in Bijection(1 .. m, PricesOn(s))
      BY <3>1, <3>2, <3>3 DEF Bijection, Injection, Surjection, IsInjective
    <3>5. ExistsBijection(1 .. m, PricesOn(s))
      BY <3>4 DEF ExistsBijection
    <3> QED
      BY <2>2, <3>5, FS_CountingElements
  <2>11. \A i \in 1 .. m : i > 1 => t[i - 1].price < t[i].price
    <3>1. \A i \in 1 .. m : i > 1 => i - 1 \in 1 .. m /\ i - 1 < i
      BY <2>2
    <3> QED
      BY <2>8, <3>1
  <2> QED
    BY <2>5, <2>6, <2>10, <2>11 DEF t, m
<1>2. BookInv => CollapsedIsTheSum
  BY <1>1 DEF CollapsedIsTheSum
<1> QED
  BY <1>2, BookInvariance, PTL

LEMMA Products ==
  ASSUME NEW k \in Nat, NEW a \in Nat, NEW b \in Nat, a <= b
  PROVE  k * a \in Nat /\ k * b \in Nat /\ k * a <= k * b
OBVIOUS

LEMMA DivGrows ==
  ASSUME NEW g \in Nat \ {0}, NEW m \in Nat, NEW n \in Nat, m <= n
  PROVE  m \div g \in Nat /\ n \div g \in Nat /\ m \div g <= n \div g
<1> DEFINE p == m \div g
           q == n \div g
           r == m % g
           s == n % g
<1>1. /\ p \in Nat /\ q \in Nat /\ r \in 0 .. g - 1 /\ s \in 0 .. g - 1
      /\ m = g * p + r /\ n = g * q + s
  BY DivMod
<1> HIDE DEF p, q, r, s
<1>2. q < p => g * q + g <= g * p
  BY <1>1
<1> DEFINE a == g * p
           b == g * q
<1>3. a \in Nat /\ b \in Nat /\ m = a + r /\ n = b + s /\ (q < p => b + g <= a)
  BY <1>1, <1>2
<1> HIDE DEF a, b
<1>4. p <= q
  BY <1>1, <1>3
<1> QED
  BY <1>1, <1>4 DEF p, q

\* A bar is never longer than the longest, and more shares never give a shorter one.
LEMMA BarFacts ==
  ASSUME NEW c \in Nat, NEW d \in Nat, NEW m \in Nat, c <= m, d <= m
  PROVE  /\ build_bar(c, m) \in 0 .. MaxLength
         /\ c <= d => build_bar(c, m) <= build_bar(d, m)
         /\ build_bar(m, m) = MaxLength
<1>1. MaxLength \in Nat
  BY BuilderAssumption
<1>2. ASSUME NEW x \in Nat, x < m
      PROVE  /\ build_bar(x, m) = (MaxLength * x) \div m
             /\ MaxLength * x \in Nat
             /\ build_bar(x, m) \in 0 .. MaxLength
  <2>1. m \in Nat \ {0}
    BY <1>2
  <2>2. MaxLength * x \in Nat /\ MaxLength * m \in Nat /\ MaxLength * x <= MaxLength * m
    BY <1>1, <1>2, Products
  <2>3. (MaxLength * m) \div m = MaxLength
    <3>1. MaxLength * m = m * MaxLength + 0 /\ 0 \in 0 .. m - 1
      BY <1>1, <2>1
    <3> DEFINE y == MaxLength * m
    <3>2. y \in Nat /\ y = m * MaxLength + 0
      BY <2>2, <3>1
    <3> HIDE DEF y
    <3>3. y \div m = MaxLength
      BY <1>1, <2>1, <3>1, <3>2, DivIs
    <3> QED
      BY <3>3 DEF y
  <2>4. build_bar(x, m) = (MaxLength * x) \div m
    BY <1>2 DEF build_bar
  <2> DEFINE y == MaxLength * x
             z == MaxLength * m
  <2>5. y \in Nat /\ z \in Nat /\ y <= z
    BY <2>2
  <2> HIDE DEF y, z
  <2>6. y \div m \in Nat /\ y \div m <= z \div m
    BY <2>1, <2>5, DivGrows
  <2>7. y \div m \in 0 .. MaxLength
    BY <1>1, <2>3, <2>6 DEF z
  <2> QED
    BY <2>2, <2>4, <2>7 DEF y
<1>3. ASSUME NEW x \in Nat, x <= m, ~(x < m) PROVE build_bar(x, m) = MaxLength
  BY <1>3 DEF build_bar
<1>4. build_bar(c, m) \in 0 .. MaxLength
  BY <1>1, <1>2, <1>3
<1>5. ASSUME c <= d PROVE build_bar(c, m) <= build_bar(d, m)
  <2>1. CASE d < m
    <3>1. c < m
      BY <1>5, <2>1
    <3> DEFINE y == MaxLength * c
               z == MaxLength * d
    <3>2. y \in Nat /\ z \in Nat /\ y <= z
      BY <1>1, <1>5, Products
    <3>3. build_bar(c, m) = y \div m /\ build_bar(d, m) = z \div m
      BY <1>2, <2>1, <3>1
    <3> HIDE DEF y, z
    <3>4. m \in Nat \ {0}
      BY <2>1
    <3> QED
      BY <3>2, <3>3, <3>4, DivGrows
  <2>2. CASE ~(d < m)
    BY <1>1, <1>3, <1>4, <2>2
  <2> QED
    BY <2>1, <2>2
<1>6. build_bar(m, m) = MaxLength
  BY <1>3
<1> QED
  BY <1>4, <1>5, <1>6

\* The lines that are shown, collapsed or not, have prices and shares that fit the field.
LEMMA ShownType ==
  ASSUME BookInv, NEW s \in Sides
  PROVE  /\ Len(Shown[s]) \in Nat
         /\ \A i \in 1 .. Len(Shown[s]) : /\ Shown[s][i].price \in Nat
                                          /\ Shown[s][i].shares \in 0 .. ShareLimit - 1
<1>1. book[s] \in Seq(Entry) /\ collapsed[s] \in Seq(Order)
  BY DEF BookInv, BookType
<1>2. CASE collapse
  <2>1. Shown[s] \in Seq(Order)
    BY <1>1, <1>2 DEF Shown
  <2>2. Len(Shown[s]) \in Nat /\ \A i \in 1 .. Len(Shown[s]) : Shown[s][i] \in Order
    BY <2>1
  <2> QED
    BY <2>2 DEF Order
<1>3. CASE ~collapse
  <2>1. Shown[s] \in Seq(Entry)
    BY <1>1, <1>3 DEF Shown
  <2>2. Len(Shown[s]) \in Nat /\ \A i \in 1 .. Len(Shown[s]) : Shown[s][i] \in Entry
    BY <2>1
  <2> QED
    BY <2>2 DEF Entry
<1> QED
  BY <1>2, <1>3

\* The scale is the number of shares of a line, and none has more.
LEMMA TheMax ==
  ASSUME BookInv, \E s \in Sides : Shown[s] # <<>>
  PROVE  /\ the_max \in Nat
         /\ \A s \in Sides : \A i \in 1 .. Len(Shown[s]) : Shown[s][i].shares <= the_max
         /\ \E s \in Sides : \E i \in 1 .. Len(Shown[s]) : Shown[s][i].shares = the_max
<1> DEFINE S == UNION {{Shown[s][i].shares : i \in 1 .. Len(Shown[s])} : s \in Sides}
           L == ShareLimit - 1
           T == {L - x : x \in S}
<1>1. S \subseteq 0 .. L /\ L \in Nat
  BY ShownType, EngineAssumption
<1>2. S # {}
  <2>1. PICK s \in Sides : Shown[s] # <<>>
    OBVIOUS
  <2>2. Shown[s] \in Seq(Entry) \/ Shown[s] \in Seq(Order)
    BY DEF BookInv, BookType, Shown
  <2>3. 1 \in 1 .. Len(Shown[s])
    BY <2>1, <2>2
  <2>4. Shown[s][1].shares \in S
    BY <2>3
  <2> QED
    BY <2>4
<1>3. the_max = CHOOSE x \in S : \A y \in S : x >= y
  BY DEF the_max, Max
<1>4. \A s \in Sides : \A i \in 1 .. Len(Shown[s]) : Shown[s][i].shares \in S
  OBVIOUS
<1>5. \A x \in S : \E s \in Sides : \E i \in 1 .. Len(Shown[s]) : Shown[s][i].shares = x
  OBVIOUS
<1> HIDE DEF S, L
<1>6. \E x \in S : \A y \in S : x >= y
  <2>1. T \in SUBSET Nat /\ T # {}
    <3>1. \A x \in S : x \in 0 .. L
      BY <1>1
    <3>2. \A x \in S : L - x \in Nat
      BY <1>1, <3>1
    <3> QED
      BY <1>2, <3>2
  <2>2. \A x \in S : L - x \in T
    OBVIOUS
  <2>3. \A z \in T : \E x \in S : z = L - x
    OBVIOUS
  <2> HIDE DEF T
  <2>4. PICK z \in T : \A y \in T : z <= y
    BY <2>1, LeastNat
  <2>5. PICK x \in S : z = L - x
    BY <2>3
  <2>6. ASSUME NEW y \in S PROVE x >= y
    <3>1. z <= L - y
      BY <2>2, <2>4
    <3>2. x \in Int /\ y \in Int /\ L \in Int
      BY <1>1
    <3> QED
      BY <2>5, <3>1, <3>2
  <2> QED
    BY <2>6
<1>7. the_max \in S /\ \A y \in S : the_max >= y
  BY <1>3, <1>6
<1>8. \A y \in S : y \in Nat /\ y <= the_max
  <2>1. \A y \in S : y \in Nat
    BY <1>1
  <2> QED
    BY <1>7, <2>1
<1> QED
  BY <1>4, <1>5, <1>7, <1>8

\* What is printed of a side, line by line.
LEMMA PrintedLines ==
  ASSUME BookInv, pc = "done", NEW s \in Sides
  PROVE  \/ lines[s] = <<>> /\ \E x \in Sides : Shown[x] = <<>>
         \/ /\ \A x \in Sides : Shown[x] # <<>>
            /\ Len(lines[s]) = Len(Shown[s]) /\ DOMAIN lines[s] = 1 .. Len(Shown[s])
            /\ \A i \in 1 .. Len(Shown[s]) :
                 LET o == Shown[s][Len(Shown[s]) - i + 1]
                 IN  /\ lines[s][i].price = o.price
                     /\ lines[s][i].shares = o.shares
                     /\ lines[s][i].bar = build_bar(o.shares, the_max)
<1>1. lines = Printed
  BY DEF BookInv, Printing
<1>2. CASE Shown["buy"] = <<>> \/ Shown["sell"] = <<>>
  BY <1>1, <1>2 DEF Printed, EmptySides, Sides
<1>3. CASE ~(Shown["buy"] = <<>> \/ Shown["sell"] = <<>>)
  <2> DEFINE n == Len(Shown[s])
             L(i) == LET o == Reverse(Shown[s])[i]
                     IN  [price |-> o.price, shares |-> o.shares, bar |-> build_bar(o.shares, the_max)]
  <2>1. lines[s] = [i \in 1 .. n |-> L(i)]
    BY <1>1, <1>3 DEF Printed
  <2>2. n \in Nat
    BY ShownType
  <2>3. \A i \in 1 .. n : Reverse(Shown[s])[i] = Shown[s][(n - i) + 1]
    BY DEF Reverse
  <2>4. \A x \in Sides : Shown[x] # <<>>
    BY <1>3 DEF Sides
  <2> HIDE DEF n
  <2>5. Len(lines[s]) = n /\ DOMAIN lines[s] = 1 .. n
    <3> HIDE DEF L
    <3> QED
      BY <2>1, <2>2
  <2>6. ASSUME NEW i \in 1 .. n
        PROVE  LET o == Shown[s][n - i + 1]
               IN  /\ lines[s][i].price = o.price
                   /\ lines[s][i].shares = o.shares
                   /\ lines[s][i].bar = build_bar(o.shares, the_max)
    <3> DEFINE o == Reverse(Shown[s])[i]
               bar == build_bar(o.shares, the_max)
    <3>1. lines[s][i] = [price |-> o.price, shares |-> o.shares, bar |-> bar]
      BY <2>1
    <3>2. o = Shown[s][n - i + 1]
      BY <2>3
    <3>3. bar = build_bar(Shown[s][n - i + 1].shares, the_max)
      BY <3>2
    <3> HIDE DEF o, bar
    <3>4. lines[s][i].price = o.price /\ lines[s][i].shares = o.shares /\ lines[s][i].bar = bar
      BY <3>1
    <3> QED
      BY <3>2, <3>3, <3>4
  <2> QED
    BY <2>4, <2>5, <2>6 DEF n
<1> QED
  BY <1>2, <1>3

\* The bars of the two sides share one scale, for any engine and any longest bar: none is
\* too long, more shares never have the shorter bar, and the longest line is full.
THEOREM BarsAlwaysToScale == Spec => []BarsToScale
<1> DEFINE all == UNION {{lines[s][i] : i \in 1 .. Len(lines[s])} : s \in Sides}
<1>1. ASSUME BookInv, \A s \in Sides : lines[s] = <<>> PROVE all = {}
  <2>1. \A s \in Sides : 1 .. Len(lines[s]) = {}
    <3>1. Len(<<>>) = 0 /\ 1 .. 0 = {}
      OBVIOUS
    <3> QED
      BY <1>1, <3>1
  <2> QED
    BY <2>1
<1>2. ASSUME BookInv, pc = "done", \A s \in Sides : Shown[s] # <<>>
      PROVE  /\ \A x \in all : \E s \in Sides : \E k \in 1 .. Len(Shown[s]) :
                  x.shares = Shown[s][k].shares /\ x.bar = build_bar(Shown[s][k].shares, the_max)
             /\ \A s \in Sides : \A k \in 1 .. Len(Shown[s]) : \E x \in all :
                  x.shares = Shown[s][k].shares /\ x.bar = build_bar(Shown[s][k].shares, the_max)
  <2>1. ASSUME NEW s \in Sides
        PROVE  /\ Len(Shown[s]) \in Nat /\ Len(lines[s]) = Len(Shown[s])
               /\ \A i \in 1 .. Len(Shown[s]) :
                    /\ lines[s][i].shares = Shown[s][Len(Shown[s]) - i + 1].shares
                    /\ lines[s][i].bar = build_bar(Shown[s][Len(Shown[s]) - i + 1].shares, the_max)
    <3>1. Len(Shown[s]) \in Nat
      BY <1>2, ShownType
    <3> QED
      BY <1>2, <3>1, PrintedLines
  <2>2. ASSUME NEW x \in all
        PROVE  \E s \in Sides : \E k \in 1 .. Len(Shown[s]) :
                 x.shares = Shown[s][k].shares /\ x.bar = build_bar(Shown[s][k].shares, the_max)
    <3>1. PICK s \in Sides : \E i \in 1 .. Len(lines[s]) : x = lines[s][i]
      OBVIOUS
    <3>2. PICK i \in 1 .. Len(lines[s]) : x = lines[s][i]
      BY <3>1
    <3>3. i \in 1 .. Len(Shown[s]) /\ Len(Shown[s]) - i + 1 \in 1 .. Len(Shown[s])
      BY <2>1
    <3> QED
      BY <2>1, <3>2, <3>3
  <2>3. ASSUME NEW s \in Sides, NEW k \in 1 .. Len(Shown[s])
        PROVE  \E x \in all :
                 x.shares = Shown[s][k].shares /\ x.bar = build_bar(Shown[s][k].shares, the_max)
    <3> DEFINE i == Len(Shown[s]) - k + 1
    <3>1. i \in 1 .. Len(Shown[s]) /\ Len(Shown[s]) - i + 1 = k
      BY <2>1
    <3> HIDE DEF i
    <3>2. lines[s][i] \in all
      <4>1. i \in 1 .. Len(lines[s])
        BY <2>1, <3>1
      <4> QED
        BY <4>1
    <3> HIDE DEF all
    <3> QED
      BY <2>1, <3>1, <3>2
  <2> QED
    BY <2>2, <2>3
<1>3. ASSUME BookInv PROVE BarsToScale
  <2>1. pc # "done" => \A s \in Sides : lines[s] = <<>>
    BY <1>3 DEF BookInv, Printing, EmptySides
  <2>2. CASE \A s \in Sides : lines[s] = <<>>
    BY <1>1, <1>3, <2>2 DEF BarsToScale
  <2>3. CASE ~\A s \in Sides : lines[s] = <<>>
    <3>1. pc = "done" /\ \A s \in Sides : Shown[s] # <<>>
      BY <1>3, <2>1, <2>3, PrintedLines
    <3>2. "buy" \in Sides
      BY DEF Sides
    <3>3. /\ the_max \in Nat
          /\ \A s \in Sides : \A i \in 1 .. Len(Shown[s]) : Shown[s][i].shares <= the_max
          /\ \E s \in Sides : \E i \in 1 .. Len(Shown[s]) : Shown[s][i].shares = the_max
      BY <1>3, <3>1, <3>2, TheMax
    <3>4. \A s \in Sides : \A i \in 1 .. Len(Shown[s]) : Shown[s][i].shares \in Nat
      BY <1>3, ShownType, EngineAssumption
    <3>5. /\ \A x \in all : \E s \in Sides : \E k \in 1 .. Len(Shown[s]) :
               x.shares = Shown[s][k].shares /\ x.bar = build_bar(Shown[s][k].shares, the_max)
          /\ \A s \in Sides : \A k \in 1 .. Len(Shown[s]) : \E x \in all :
               x.shares = Shown[s][k].shares /\ x.bar = build_bar(Shown[s][k].shares, the_max)
      BY <1>2, <1>3, <3>1
    <3> HIDE DEF all
    <3>6. \A x \in all : /\ x.shares \in Nat /\ x.shares <= the_max
                         /\ x.bar = build_bar(x.shares, the_max)
      BY <3>3, <3>4, <3>5
    <3>7. \A x \in all : x.bar \in 0 .. MaxLength
      BY <3>3, <3>6, BarFacts
    <3>8. \A x, y \in all : x.shares <= y.shares => x.bar <= y.bar
      BY <3>3, <3>6, BarFacts
    <3>9. \E x \in all : x.bar = MaxLength
      <4>1. PICK s \in Sides : \E i \in 1 .. Len(Shown[s]) : Shown[s][i].shares = the_max
        BY <3>3
      <4>2. PICK i \in 1 .. Len(Shown[s]) : Shown[s][i].shares = the_max
        BY <4>1
      <4>3. PICK x \in all : x.bar = build_bar(the_max, the_max)
        BY <3>5, <4>2
      <4>4. build_bar(the_max, the_max) = MaxLength
        BY <3>3, BarFacts
      <4> QED
        BY <4>3, <4>4
    <3> QED
      BY <3>7, <3>8, <3>9 DEF BarsToScale, all
  <2> QED
    BY <2>2, <2>3
<1> QED
  BY <1>3, BookInvariance, PTL

\* A detailed book with two sides leaves no order out, for any engine: the lines of a side
\* are the orders of its map, from the highest price down.
THEOREM EveryOrderAlwaysPrinted == Spec => []EveryOrderPrinted
<1>1. ASSUME BookInv, pc = "done", ~collapse, \A s \in Sides : PricesOn(s) # {}, NEW s \in Sides
      PROVE  /\ \A price \in PricesOn(s) : PrintedAt(s, price) = SharesAt(s, price)
             /\ Len(lines[s]) = Cardinality(Held(s))
             /\ \A i \in 1 .. Len(lines[s]) - 1 : lines[s][i].price >= lines[s][i + 1].price
  <2> DEFINE n == Len(book[s])
             b == [i \in 1 .. n |-> book[s][n - i + 1].reference]
  <2>1. /\ engine \in Engines /\ SortedBook(s) /\ n \in Nat
        /\ \A x \in Sides : SortedBook(x)
    <3>1. engine \in Engines /\ \A x \in Sides : SortedBook(x)
      BY <1>1 DEF BookInv, BookType, Made, Sides
    <3>2. SortedBook(s) /\ book[s] \in Seq(Entry)
      BY <3>1 DEF SortedBook
    <3> QED
      BY <3>1, <3>2
  <2>2. \A x \in Sides : Shown[x] = book[x] /\ Shown[x] # <<>>
    <3>1. Shown = book
      BY <1>1 DEF Shown
    <3>2. ASSUME NEW x \in Sides PROVE book[x] # <<>>
      <4>1. PricesOn(x) = {book[x][k].price : k \in 1 .. Len(book[x])}
        BY <2>1, WholeBook
      <4>2. Len(<<>>) = 0 /\ 1 .. 0 = {}
        OBVIOUS
      <4> QED
        BY <1>1, <4>1, <4>2
    <3> QED
      BY <3>1, <3>2
  <2>3. /\ Len(lines[s]) = n /\ DOMAIN lines[s] = 1 .. n
        /\ \A i \in 1 .. n : /\ lines[s][i].price = book[s][n - i + 1].price
                             /\ lines[s][i].shares = book[s][n - i + 1].shares
    BY <1>1, <2>2, PrintedLines
  <2>4. n = Cardinality(Held(s))
    BY <2>1 DEF SortedBook
  <2>5. \A k \in 1 .. n : /\ book[s][k].reference \in Held(s)
                          /\ book[s][k].price = engine[s][book[s][k].reference].price
                          /\ book[s][k].shares = SharesOf(s)[book[s][k].reference]
                          /\ book[s][k].shares \in Nat /\ book[s][k].price \in Nat
    <3>1. \A k \in 1 .. n : /\ book[s][k].reference \in Held(s)
                            /\ book[s][k].price = engine[s][book[s][k].reference].price
                            /\ book[s][k].shares = engine[s][book[s][k].reference].shares
      BY <2>1 DEF SortedBook
    <3>2. \A r \in Held(s) : /\ engine[s][r].price \in Nat /\ SharesOf(s)[r] \in Nat
                             /\ SharesOf(s)[r] = engine[s][r].shares
      BY <2>1, HeldFacts
    <3> HIDE DEF n
    <3> QED
      BY <3>1, <3>2
  <2>6. \A r \in Held(s) : \E k \in 1 .. n : book[s][k].reference = r
    BY <2>1 DEF SortedBook
  <2>7. \A i, j \in 1 .. n : i <= j => book[s][i].price <= book[s][j].price
    BY <2>1, BookOrder
  <2>8. \A i, j \in 1 .. n : book[s][i].reference = book[s][j].reference => i = j
    BY <2>1, BookOrder
  <2> HIDE DEF n
  <2>9. \A i \in 1 .. n : n - i + 1 \in 1 .. n /\ n - (n - i + 1) + 1 = i
    BY <2>1
  <2>10. ASSUME NEW price PROVE PrintedAt(s, price) = SharesAt(s, price)
    <3> DEFINE D == {i \in 1 .. n : lines[s][i].price = price}
               f == [i \in 1 .. n |-> lines[s][i].shares]
               g == SharesOf(s)
    <3>1. PrintedAt(s, price) = SumFunctionOnSet(f, D)
      BY <2>3 DEF PrintedAt
    <3>2. IsFiniteSet(D)
      <4>1. D \in SUBSET (1 .. n)
        OBVIOUS
      <4> HIDE DEF D
      <4>2. IsFiniteSet(1 .. n)
        BY <2>1, FS_Interval
      <4> QED
        BY <4>1, <4>2, FS_Subset
    <3>3. \A i \in D : f[i] \in Nat
      BY <2>3, <2>5, <2>9
    <3>4. IsFiniteSet(Held(s)) /\ \A r \in Held(s) : g[r] \in Nat
      BY <2>1, HeldFacts
    <3>5. \A i \in D : b[i] \in Held(s) /\ g[b[i]] = f[i]
      BY <2>3, <2>5, <2>9
    <3>6. \A i, j \in D : b[i] = b[j] => i = j
      <4>1. ASSUME NEW i \in 1 .. n, NEW j \in 1 .. n, b[i] = b[j] PROVE i = j
        <5>1. n - i + 1 = n - j + 1
          BY <2>8, <2>9, <4>1
        <5> QED
          BY <2>1, <5>1
      <4> QED
        BY <4>1
    <3>7. {b[i] : i \in D} = OrdersAt(s, price)
      <4>1. ASSUME NEW i \in D PROVE b[i] \in OrdersAt(s, price)
        BY <2>3, <2>5, <2>9 DEF OrdersAt
      <4>2. ASSUME NEW r \in OrdersAt(s, price) PROVE \E i \in D : b[i] = r
        <5>1. r \in Held(s) /\ engine[s][r].price = price
          BY DEF OrdersAt
        <5>2. PICK k \in 1 .. n : book[s][k].reference = r
          BY <2>6, <5>1
        <5> DEFINE i == n - k + 1
        <5>3. i \in 1 .. n /\ n - i + 1 = k
          BY <2>9
        <5> HIDE DEF i
        <5>4. b[i] = r
          BY <5>2, <5>3
        <5>5. lines[s][i].price = price
          BY <2>3, <2>5, <5>1, <5>2, <5>3
        <5> QED
          BY <5>3, <5>4, <5>5
      <4> QED
        BY <4>1, <4>2
    <3> HIDE DEF D, f, g, b
    <3>8. SumFunctionOnSet(f, D) = SumFunctionOnSet(g, {b[i] : i \in D})
      BY <3>2, <3>3, <3>4, <3>5, <3>6, SumCorresponds
    <3> QED
      BY <3>1, <3>7, <3>8 DEF SharesAt, g
  <2>11. ASSUME NEW i \in 1 .. n - 1 PROVE lines[s][i].price >= lines[s][i + 1].price
    <3>1. /\ i \in 1 .. n /\ i + 1 \in 1 .. n /\ n - i + 1 \in 1 .. n
          /\ n - (i + 1) + 1 \in 1 .. n /\ n - (i + 1) + 1 <= n - i + 1
      BY <2>1
    <3>2. book[s][n - (i + 1) + 1].price <= book[s][n - i + 1].price
      BY <2>7, <3>1
    <3>3. book[s][n - (i + 1) + 1].price \in Nat /\ book[s][n - i + 1].price \in Nat
      BY <2>5, <3>1
    <3>4. /\ lines[s][i].price = book[s][n - i + 1].price
          /\ lines[s][i + 1].price = book[s][n - (i + 1) + 1].price
      BY <2>3, <3>1
    <3> QED
      BY <3>2, <3>3, <3>4
  <2> QED
    BY <2>3, <2>4, <2>10, <2>11
<1>2. BookInv => EveryOrderPrinted
  BY <1>1 DEF EveryOrderPrinted
<1> QED
  BY <1>2, BookInvariance, PTL
=============================================================================
