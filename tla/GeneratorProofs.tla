--------------------------- MODULE GeneratorProofs ---------------------------
(***************************************************************************)
(* The transactions of the log: where they are stamped, which of them are  *)
(* errors and that none is missing, for any number of generators, days,    *)
(* iterations and errors, whoever removes the table in between.            *)
(***************************************************************************)
EXTENDS Generator, FiniteSetTheorems, TLAPS

-----------------------------------------------------------------------------
(***************************************************************************)
(* Instants.                                                               *)
(***************************************************************************)
LEMMA DivMod ==
  ASSUME NEW d \in Nat \ {0}, NEW u \in Nat
  PROVE  u % d \in 0 .. d - 1 /\ u \div d \in Nat /\ u = d * (u \div d) + (u % d)
OBVIOUS

LEMMA Multiples ==
  ASSUME NEW d \in Nat \ {0}, NEW a \in Int, NEW b \in Int, a < b
  PROVE  a * d + d <= b * d
OBVIOUS

LEMMA DivModUnique ==
  ASSUME NEW d \in Nat \ {0}, NEW u \in Nat, NEW q \in Nat, NEW r \in 0 .. d - 1, u = q * d + r
  PROVE  u \div d = q /\ u % d = r
<1> DEFINE x == u \div d
           y == u % d
<1>1. y \in 0 .. d - 1 /\ x \in Nat /\ u = d * x + y
  BY DivMod
<1> HIDE DEF x, y
<1>2. ~(q < x)
  BY <1>1, Multiples
<1>3. ~(x < q)
  BY <1>1, Multiples
<1> QED
  BY <1>1, <1>2, <1>3 DEF x, y

\* Command lines the generators run with.
Good(c) ==
  /\ c.days \in Nat /\ c.errors \in Nat
  /\ c.iterations \in Nat \ {0}
  /\ c.iterations <= 8 * Hour

LEMMA Constants ==
  /\ Hour \in Nat \ {0}
  /\ Entries \in Nat
  /\ \A c \in Configs : Good(c)
  /\ \A d \in FirstWeekdays : d \in 0 .. 6
  /\ "earlier" \notin Generators
  /\ NoTable \notin AnyTable
BY GeneratorAssumption DEF Good

LEMMA GoodNoConfig == Good(NoConfig)
BY Constants DEF Good, NoConfig

Part(c) == (8 * Hour) \div c.iterations

LEMMA PartOK ==
  ASSUME NEW c, Good(c)
  PROVE  /\ Part(c) \in Nat \ {0}
         /\ \A i \in 0 .. c.iterations - 1 : i * Part(c) \in 0 .. 8 * Hour - 1
         /\ \A i, j \in 0 .. c.iterations - 1 : i < j => i * Part(c) < j * Part(c)
<1> DEFINE H == 8 * Hour
           n == c.iterations
           q == H \div n
           r == H % n
<1>1. H \in Nat /\ n \in Nat \ {0} /\ n <= H
  BY Constants DEF Good
<1> HIDE DEF H, n
<1>2. r \in 0 .. n - 1 /\ q \in Nat /\ H = n * q + r
  BY <1>1, DivMod
<1>3. Part(c) = q
  BY DEF Part, H, n
<1> HIDE DEF q, r
<1>4. q # 0
  BY <1>1, <1>2
<1>5. ASSUME NEW i \in 0 .. n - 1, NEW j \in 0 .. n, i < j PROVE i * q \in Nat /\ i * q + q <= j * q
  BY <1>1, <1>2, <1>4, <1>5, Multiples
<1>6. ASSUME NEW i \in 0 .. n - 1 PROVE i * q \in 0 .. H - 1
  <2>1. i * q \in Nat /\ i * q + q <= n * q
    BY <1>1, <1>5
  <2>2. n * q \in Nat /\ n * q <= H
    BY <1>1, <1>2
  <2> DEFINE a == i * q
             b == n * q
  <2> HIDE DEF a, b
  <2>3. a \in Nat /\ a + q <= b /\ b \in Nat /\ b <= H
    BY <2>1, <2>2 DEF a, b
  <2>4. a \in 0 .. H - 1
    BY <1>1, <1>2, <1>4, <2>3
  <2> QED
    BY <2>4 DEF a
<1>7. ASSUME NEW i \in 0 .. n - 1, NEW j \in 0 .. n - 1, i < j PROVE i * q < j * q
  <2>1. i * q \in Nat /\ i * q + q <= j * q /\ j * q \in Nat
    BY <1>1, <1>2, <1>5, <1>7
  <2> DEFINE a == i * q
             b == j * q
  <2> HIDE DEF a, b
  <2>2. a < b
    BY <1>2, <1>4, <2>1 DEF a, b
  <2> QED
    BY <2>2 DEF a, b
<1> QED
  BY <1>2, <1>3, <1>4, <1>6, <1>7 DEF H, n

\* A transaction of a day is stamped on that day, from nine to five.
LEMMA StampOK ==
  ASSUME NEW c, Good(c), NEW d \in Nat, NEW i \in 0 .. c.iterations - 1
  PROVE  /\ Stamp(c, d, i) \in Nat
         /\ Stamp(c, d, i) \div (24 * Hour) = d
         /\ Stamp(c, d, i) % (24 * Hour) = 9 * Hour + i * Part(c)
         /\ i * Part(c) \in 0 .. 8 * Hour - 1
<1> DEFINE x == i * Part(c)
           D == 24 * Hour
<1>1. x \in 0 .. 8 * Hour - 1
  BY PartOK
<1>2. Stamp(c, d, i) = d * 24 * Hour + 9 * Hour + x
  BY DEF Stamp, Part
<1> HIDE DEF x
<1>3. D \in Nat \ {0} /\ 9 * Hour + x \in 0 .. D - 1 /\ x \in Nat
  BY <1>1, Constants
<1>4. d * 24 * Hour = d * D /\ d * D \in Nat
  BY Constants
<1>5. Stamp(c, d, i) = d * D + (9 * Hour + x)
  BY <1>2, <1>3, <1>4, Constants
<1> HIDE DEF D
<1>6. d * D + (9 * Hour + x) \in Nat
  BY <1>3, <1>4
<1>7. Stamp(c, d, i) \div D = d /\ Stamp(c, d, i) % D = 9 * Hour + x
  BY <1>3, <1>5, <1>6, DivModUnique
<1> QED
  BY <1>1, <1>5, <1>6, <1>7 DEF D, x

LEMMA StampsDiffer ==
  ASSUME NEW c, Good(c), NEW d \in Nat,
         NEW i \in 0 .. c.iterations - 1, NEW j \in 0 .. c.iterations - 1, i # j
  PROVE  Stamp(c, d, i) # Stamp(c, d, j)
<1>1. i * Part(c) # j * Part(c) /\ i * Part(c) \in Nat /\ j * Part(c) \in Nat
  <2>1. i < j \/ j < i
    BY DEF Good
  <2> QED
    BY <2>1, PartOK, Constants
<1>2. 9 * Hour + i * Part(c) # 9 * Hour + j * Part(c)
  BY <1>1, Constants
<1> QED
  BY <1>2, StampOK

\* skip_weekend moves to a working day, and never back.
LEMMA SkipsWeekend ==
  ASSUME first \in 0 .. 6, NEW d \in Nat
  PROVE  skip_weekend(d) \in Nat /\ d <= skip_weekend(d) /\ Weekday(skip_weekend(d)) \in 1 .. 5
<1>1. Weekday(d) \in 0 .. 6
  BY DEF Weekday
<1>2. CASE Weekday(d) = 0
  <2>1. skip_weekend(d) = d + 1
    BY <1>2 DEF skip_weekend
  <2>2. Weekday(d + 1) = 1
    BY <1>2 DEF Weekday
  <2> QED
    BY <2>1, <2>2
<1>3. CASE Weekday(d) = 6
  <2>1. skip_weekend(d) = d + 2
    BY <1>3 DEF skip_weekend
  <2>2. Weekday(d + 2) = 1
    BY <1>3 DEF Weekday
  <2> QED
    BY <2>1, <2>2
<1>4. CASE Weekday(d) \in 1 .. 5
  <2>1. skip_weekend(d) = d
    BY <1>4 DEF skip_weekend
  <2> QED
    BY <1>4, <2>1
<1> QED
  BY <1>1, <1>2, <1>3, <1>4

LEMMA IterationsOK ==
  ASSUME NEW c, Good(c), NEW n \in iterations_count(c.iterations)
  PROVE  n \in Nat /\ 1 <= n /\ n <= c.iterations /\ c.iterations \div 2 <= n
BY DEF Good, iterations_count

-----------------------------------------------------------------------------
(***************************************************************************)
(* The transactions of a day: as many as were drawn, each at an instant of *)
(* its own, and the errors among them.                                     *)
(***************************************************************************)
Transaction(g, c, k, d, i) ==
  [by |-> g, ts |-> Stamp(c, d, i), error |-> should_generate_error(c, k, i)]

Numbered(g, c, k, d, a, b) == {Transaction(g, c, k, d, i) : i \in a .. b - 1}

DayRows(g, c, k, d, n) == Numbered(g, c, k, d, 0, n)

Middle(c) == c.days \div 2

\* Different instants: a set of transactions of a day has as many as their numbers.
LEMMA CountTransactions ==
  ASSUME NEW g, NEW c, Good(c), NEW k, NEW d \in Nat, NEW a \in Nat, NEW b \in Nat,
         a <= b, b <= c.iterations
  PROVE  /\ IsFiniteSet(Numbered(g, c, k, d, a, b))
         /\ Cardinality(Numbered(g, c, k, d, a, b)) = b - a
<1> DEFINE T == Numbered(g, c, k, d, a, b)
           S == a .. b - 1
           f == [i \in S |-> Transaction(g, c, k, d, i)]
<1>1. IsFiniteSet(S) /\ Cardinality(S) = b - a
  <2>1. a \in Int /\ b - 1 \in Int
    OBVIOUS
  <2>2. IsFiniteSet(S) /\ Cardinality(S) = IF a > b - 1 THEN 0 ELSE (b - 1) - a + 1
    BY <2>1, FS_Interval
  <2> QED
    BY <2>2
<1>2. \A i \in S : i \in 0 .. c.iterations - 1
  BY DEF Good
<1> HIDE DEF S
<1>3. f \in [S -> T]
  BY DEF S, Numbered
<1>4. ASSUME NEW i \in S, NEW j \in S, f[i] = f[j] PROVE i = j
  <2>1. Transaction(g, c, k, d, i).ts = Transaction(g, c, k, d, j).ts
    BY <1>4
  <2>2. Stamp(c, d, i) = Stamp(c, d, j)
    BY <2>1 DEF Transaction
  <2> QED
    BY <1>2, <2>2, StampsDiffer
<1>5. \A t \in T : \E i \in S : f[i] = t
  BY DEF S, Numbered
<1> HIDE DEF f, T
<1>6. f \in Bijection(S, T)
  BY <1>3, <1>4, <1>5 DEF Bijection, Injection, Surjection, IsInjective
<1>7. ExistsBijection(S, T)
  BY <1>6 DEF ExistsBijection
<1> QED
  BY <1>1, <1>7, FS_Bijection DEF T

DayOK(R, g, c, k, d, n) ==
  /\ IsFiniteSet(R) /\ Cardinality(R) = n
  /\ \A r \in R :
       /\ r.by = g /\ r.ts \in Nat /\ DateOf(r) = d
       /\ r.error \in BOOLEAN /\ (r.error => k = Middle(c))
       /\ r.ts % (24 * Hour) >= 9 * Hour /\ r.ts % (24 * Hour) < 17 * Hour
  /\ R # {}
  /\ n \in Nat

LEMMA DayRowsOK ==
  ASSUME NEW g, NEW c, Good(c), NEW k \in Nat, NEW d \in Nat, NEW n \in iterations_count(c.iterations)
  PROVE  DayOK(DayRows(g, c, k, d, n), g, c, k, d, n)
<1>1. n \in Nat /\ 1 <= n /\ n <= c.iterations
  BY IterationsOK
<1>2. \A i \in 0 .. n - 1 : i \in 0 .. c.iterations - 1
  BY <1>1 DEF Good
<1>3. IsFiniteSet(DayRows(g, c, k, d, n)) /\ Cardinality(DayRows(g, c, k, d, n)) = n
  <2>1. 0 \in Nat /\ 0 <= n /\ n - 0 = n
    BY <1>1
  <2> QED
    BY <1>1, <2>1, CountTransactions DEF DayRows
<1>4. ASSUME NEW r \in DayRows(g, c, k, d, n)
      PROVE  /\ r.by = g /\ r.ts \in Nat /\ DateOf(r) = d
             /\ r.error \in BOOLEAN /\ (r.error => k = Middle(c))
             /\ r.ts % (24 * Hour) >= 9 * Hour /\ r.ts % (24 * Hour) < 17 * Hour
  <2>1. PICK i \in 0 .. n - 1 : r = Transaction(g, c, k, d, i)
    BY DEF DayRows, Numbered
  <2>2. r.by = g /\ r.ts = Stamp(c, d, i) /\ r.error = should_generate_error(c, k, i)
    BY <2>1 DEF Transaction
  <2>3. /\ Stamp(c, d, i) \in Nat
        /\ Stamp(c, d, i) \div (24 * Hour) = d
        /\ Stamp(c, d, i) % (24 * Hour) = 9 * Hour + i * Part(c)
        /\ i * Part(c) \in 0 .. 8 * Hour - 1
    BY <1>2, StampOK
  <2> DEFINE x == i * Part(c)
  <2> HIDE DEF x
  <2>4. /\ Stamp(c, d, i) % (24 * Hour) = 9 * Hour + x /\ x \in 0 .. 8 * Hour - 1
    BY <2>3 DEF x
  <2>5. 9 * Hour + x >= 9 * Hour /\ 9 * Hour + x < 17 * Hour
    BY <2>4, Constants
  <2>6. /\ should_generate_error(c, k, i) \in BOOLEAN
        /\ should_generate_error(c, k, i) => k = Middle(c)
    BY DEF should_generate_error, Middle
  <2> QED
    BY <2>2, <2>3, <2>4, <2>5, <2>6 DEF DateOf
<1>5. DayRows(g, c, k, d, n) # {}
  <2>1. 0 \in 0 .. n - 1
    BY <1>1
  <2> QED
    BY <2>1 DEF DayRows, Numbered
<1> QED
  BY <1>1, <1>3, <1>4, <1>5 DEF DayOK

\* On the day in the middle there are as many errors as were asked for, or nothing else.
LEMMA DayErrors ==
  ASSUME NEW g, NEW c, Good(c), NEW d \in Nat, NEW n \in iterations_count(c.iterations),
         NEW W, W = {r \in DayRows(g, c, Middle(c), d, n) : r.error}
  PROVE  /\ Cardinality(W) = c.errors \/ W = DayRows(g, c, Middle(c), d, n)
         /\ c.errors > 0 => W # {}
<1> DEFINE k == Middle(c)
           E(i) == should_generate_error(c, k, i)
           half == c.iterations \div 2
<1>1. n \in Nat /\ 1 <= n /\ n <= c.iterations /\ half <= n
  BY IterationsOK
<1>2. /\ c.errors \in Nat /\ c.iterations \in Nat /\ half \in Nat /\ half <= c.iterations
  BY DEF Good
<1>3. W = {Transaction(g, c, k, d, i) : i \in {i \in 0 .. n - 1 : E(i)}}
  BY DEF DayRows, Numbered, Transaction
<1>4. DayRows(g, c, k, d, n) = {Transaction(g, c, k, d, i) : i \in 0 .. n - 1}
  BY DEF DayRows, Numbered
<1>5. CASE c.iterations < c.errors
  <2>1. \A i \in 0 .. n - 1 : E(i)
    BY <1>5 DEF should_generate_error, Middle
  <2>2. {i \in 0 .. n - 1 : E(i)} = 0 .. n - 1
    BY <2>1
  <2>3. 0 \in 0 .. n - 1
    BY <1>1
  <2> QED
    BY <1>3, <1>4, <2>2, <2>3
<1>6. CASE c.iterations >= c.errors /\ half < c.errors
  <2>1. \A i \in 0 .. n - 1 : E(i) <=> i < c.errors
    BY <1>1, <1>2, <1>6 DEF should_generate_error, Middle
  <2>2. CASE n <= c.errors
    <3>1. {i \in 0 .. n - 1 : E(i)} = 0 .. n - 1
      BY <1>1, <1>2, <2>1, <2>2
    <3>2. 0 \in 0 .. n - 1
      BY <1>1
    <3> QED
      BY <1>3, <1>4, <3>1, <3>2
  <2>3. CASE c.errors < n
    <3>1. {i \in 0 .. n - 1 : E(i)} = 0 .. c.errors - 1
      BY <1>1, <1>2, <2>1, <2>3
    <3>2. W = Numbered(g, c, k, d, 0, c.errors)
      BY <1>3, <3>1 DEF Numbered
    <3>3. 0 \in Nat /\ 0 <= c.errors /\ c.errors - 0 = c.errors /\ c.errors <= c.iterations
      BY <1>2, <1>6
    <3>4. Cardinality(W) = c.errors
      BY <1>2, <3>2, <3>3, CountTransactions
    <3>5. c.errors > 0 => 0 \in 0 .. c.errors - 1
      BY <1>2
    <3> QED
      BY <3>2, <3>4, <3>5 DEF Numbered
  <2> QED
    BY <1>1, <1>2, <2>2, <2>3
<1>7. CASE half >= c.errors
  <2> DEFINE a == half - c.errors
  <2>1. a \in Nat /\ a <= half /\ half - a = c.errors
    BY <1>2, <1>7
  <2>2. \A i \in 0 .. n - 1 : E(i) <=> i >= a /\ i < half
    BY <1>1, <1>2, <1>7 DEF should_generate_error, Middle
  <2> HIDE DEF a, half
  <2>3. {i \in 0 .. n - 1 : E(i)} = a .. half - 1
    BY <1>1, <1>2, <2>1, <2>2
  <2>4. W = Numbered(g, c, k, d, a, half)
    BY <1>3, <2>3 DEF Numbered
  <2>5. Cardinality(W) = c.errors
    BY <1>2, <2>1, <2>4, CountTransactions
  <2>6. c.errors > 0 => a \in a .. half - 1
    BY <1>2, <2>1
  <2> QED
    BY <2>4, <2>5, <2>6 DEF Numbered
<1> QED
  BY <1>2, <1>5, <1>6, <1>7

-----------------------------------------------------------------------------
(***************************************************************************)
(* The invariant.  The days of a generator go up, so that a batch is never *)
(* of a day that is in the table already; a batch is pushed as a whole, so *)
(* that the day with the errors is there as a whole or not at all; and a   *)
(* table that is a generator's own has been there since it was created.    *)
(***************************************************************************)
Labels == {"idle", "entries", "remove", "create", "init", "day", "push", "done", "failed"}

Types ==
  /\ first \in 0 .. 6
  /\ table = NoTable \/ table \in AnyTable
  /\ pc \in [Generators -> Labels]
  /\ cfg \in [Generators -> {NoConfig} \cup Configs]
  /\ days \in [Generators -> Nat]
  /\ it_day \in [Generators -> Nat]
  /\ batch \in [Generators -> SUBSET AnyRow]
  /\ generated \in [Generators -> Nat]

Owns(g) == table # NoTable /\ table.owner = g

Order(g) ==
  /\ days[g] <= cfg[g].days
  /\ pc[g] \in {"idle", "entries", "remove", "create", "init"} =>
       days[g] = 0 /\ generated[g] = 0 /\ RowsOf(g) = {}
  /\ Owns(g) => pc[g] \notin {"idle", "entries", "remove", "create"}
  /\ pc[g] \in {"day", "push"} => \A r \in RowsOf(g) : DateOf(r) < it_day[g]
  /\ pc[g] \notin {"push", "failed"} => batch[g] = {}
  /\ pc[g] = "push" =>
       /\ days[g] < cfg[g].days
       /\ Weekday(it_day[g]) \in 1 .. 5
       /\ \E n \in iterations_count(cfg[g].iterations) :
            batch[g] = DayRows(g, cfg[g], days[g], it_day[g], n)
  /\ pc[g] = "done" => days[g] = cfg[g].days

SameDate(g, d) == {r \in RowsOf(g) : DateOf(r) = d}

Errors(g) ==
  \A r \in RowsOf(g) : r.error =>
    /\ days[g] > Middle(cfg[g])
    /\ \E n \in iterations_count(cfg[g].iterations) :
         SameDate(g, DateOf(r)) = DayRows(g, cfg[g], Middle(cfg[g]), DateOf(r), n)
    /\ \A x \in RowsOf(g) : x.error => DateOf(x) = DateOf(r)

Complete(g) ==
  Owns(g) /\ pc[g] # "failed" =>
    /\ IsFiniteSet(RowsOf(g)) /\ IsFiniteSet(batch[g])
    /\ Cardinality(RowsOf(g)) + Cardinality(batch[g]) = generated[g]
    /\ IsFiniteSet(Dates(g)) /\ Cardinality(Dates(g)) = days[g]
    /\ days[g] > Middle(cfg[g]) /\ cfg[g].errors > 0 => \E r \in RowsOf(g) : r.error

DatesBefore(g, d) == {x \in Dates(g) : x < d}

Centred(g) ==
  Owns(g) => \A r \in RowsOf(g) :
               r.error => Cardinality(DatesBefore(g, DateOf(r))) = Middle(cfg[g])

Log(g) == Order(g) /\ Errors(g) /\ Complete(g) /\ Centred(g)

Inv == Types /\ RowsInSession /\ \A g \in Generators : Log(g)

LEMMA CfgOK ==
  ASSUME Types, NEW g \in Generators
  PROVE  /\ Good(cfg[g]) /\ cfg[g].days \in Nat
         /\ Middle(cfg[g]) \in Nat /\ (cfg[g].days > 0 => Middle(cfg[g]) < cfg[g].days)
<1>1. Good(cfg[g])
  BY Constants, GoodNoConfig DEF Types
<1>2. cfg[g].days \in Nat
  BY <1>1 DEF Good
<1> QED
  BY <1>1, <1>2 DEF Middle

LEMMA DatesOK ==
  ASSUME Types, NEW g \in Generators
  PROVE  \A r \in RowsOf(g) : DateOf(r) \in Nat
<1>1. \A r \in RowsOf(g) : r.ts \in Nat
  BY DEF RowsOf, AllRows, Types, AnyTable, AnyRow
<1>2. 24 * Hour \in Nat \ {0}
  BY Constants
<1> QED
  BY <1>1, <1>2, DivMod DEF DateOf

LEMMA InitHolds == Init => Inv
<1> SUFFICES ASSUME Init PROVE Inv
  OBVIOUS
<1>1. AllRows = {}
  BY DEF Init, AllRows, OldTable
<1>2. Types
  <2>1. table = NoTable \/ table \in AnyTable
    BY DEF Init, OldTable, AnyTable
  <2> QED
    BY <2>1, Constants DEF Init, Types, Labels
<1>3. ASSUME NEW g \in Generators PROVE Log(g)
  <2>1. RowsOf(g) = {} /\ pc[g] = "idle" /\ days[g] = 0 /\ generated[g] = 0 /\ batch[g] = {}
    BY <1>1 DEF Init, RowsOf
  <2>2. ~Owns(g)
    BY Constants DEF Init, Owns, OldTable
  <2>3. days[g] <= cfg[g].days
    BY <1>2, <2>1, CfgOK
  <2> QED
    BY <2>1, <2>2, <2>3 DEF Log, Order, Errors, Complete, Centred
<1>4. RowsInSession
  BY <1>1 DEF RowsInSession
<1> QED
  BY <1>2, <1>3, <1>4 DEF Inv

\* What a generator's log is depends on.
LEMMA LogStays ==
  ASSUME NEW g \in Generators, Types, Log(g), first' = first,
         days'[g] = days[g], it_day'[g] = it_day[g], generated'[g] = generated[g],
         batch'[g] = batch[g], cfg'[g] = cfg[g], pc'[g] = pc[g],
         RowsOf(g)' = RowsOf(g) \/ RowsOf(g)' = {},
         Owns(g)' => Owns(g) /\ RowsOf(g)' = RowsOf(g)
  PROVE  Log(g)'
<1>1. Order(g)'
  BY DEF Log, Order, Weekday
<1>2. Errors(g)'
  BY DEF Log, Errors, SameDate
<1>3. Complete(g)'
  BY DEF Log, Complete, Dates
<1>4. Centred(g)'
  BY DEF Log, Centred, DatesBefore, Dates, DateOf
<1> QED
  BY <1>1, <1>2, <1>3, <1>4 DEF Log

\* A generator that fails needs no more.
LEMMA LogFails ==
  ASSUME NEW g \in Generators, Types, Log(g), first' = first,
         days'[g] = days[g], it_day'[g] = it_day[g], generated'[g] = generated[g],
         batch'[g] = batch[g], cfg'[g] = cfg[g], pc'[g] = "failed",
         RowsOf(g)' = RowsOf(g) \/ RowsOf(g)' = {},
         Owns(g)' => Owns(g) /\ RowsOf(g)' = RowsOf(g)
  PROVE  Log(g)'
<1>1. Order(g)'
  BY DEF Log, Order
<1>2. Errors(g)'
  BY DEF Log, Errors, SameDate
<1>3. Complete(g)'
  BY DEF Complete
<1>4. Centred(g)'
  BY DEF Log, Centred, DatesBefore, Dates, DateOf
<1> QED
  BY <1>1, <1>2, <1>3, <1>4 DEF Log

LEMMA SameTable ==
  ASSUME table' = table
  PROVE  AllRows' = AllRows /\ \A g \in Generators : RowsOf(g)' = RowsOf(g) /\ Owns(g)' = Owns(g)
BY DEF AllRows, RowsOf, Owns

LEMMA CreateHolds ==
  ASSUME Inv, NEW g \in Generators, CreateTable(g)
  PROVE  RowsInSession' /\ \A h \in Generators : Log(h)'
<1>1. /\ pc[g] = "create" /\ first' = first
      /\ UNCHANGED <<cfg, days, it_day, batch, generated>> /\ Types /\ pc \in [Generators -> Labels]
  BY DEF CreateTable, locals, Inv, Types
<1>2. CASE table # NoTable
  <2>1. table' = table /\ pc' = [pc EXCEPT ![g] = "failed"]
    BY <1>2 DEF CreateTable, GoTo
  <2>2. RowsInSession'
    BY <1>1, <2>1, SameTable DEF Inv, RowsInSession, Weekday
  <2>3. ASSUME NEW h \in Generators PROVE Log(h)'
    <3>1. CASE h = g
      BY <1>1, <2>1, <3>1, SameTable, LogFails DEF Inv
    <3>2. CASE h # g
      BY <1>1, <2>1, <3>2, SameTable, LogStays DEF Inv
    <3> QED
      BY <3>1, <3>2
  <2> QED
    BY <2>2, <2>3
<1>3. CASE table = NoTable
  <2>1. table' = [owner |-> g, rows |-> {}] /\ pc' = [pc EXCEPT ![g] = "init"]
    BY <1>3 DEF CreateTable, GoTo
  <2>2. AllRows' = {} /\ AllRows = {}
    BY <1>3, <2>1 DEF AllRows
  <2>3. \A h \in Generators : RowsOf(h)' = {} /\ RowsOf(h) = {} /\ (Owns(h)' => h = g)
    BY <2>1, <2>2 DEF RowsOf, Owns
  <2>4. RowsInSession'
    BY <2>2 DEF RowsInSession
  <2>5. ASSUME NEW h \in Generators PROVE Log(h)'
    <3>1. CASE h = g
      <4>1. pc'[g] = "init"
        BY <1>1, <2>1
      <4>2. days[g] = 0 /\ generated[g] = 0 /\ batch[g] = {} /\ days[g] <= cfg[g].days
        BY <1>1 DEF Inv, Log, Order
      <4>3. Order(g)'
        BY <1>1, <2>3, <4>1, <4>2 DEF Order
      <4>4. Errors(g)'
        BY <2>3 DEF Errors
      <4>5. Complete(g)'
        <5>1. RowsOf(g)' = {} /\ batch'[g] = {} /\ Dates(g)' = {} /\ days'[g] = 0 /\ generated'[g] = 0
          BY <1>1, <2>3, <4>2 DEF Dates
        <5>2. IsFiniteSet({}) /\ Cardinality({}) = 0 /\ 0 + 0 = 0
          BY FS_EmptySet
        <5>3. Middle(cfg[g]) \in Nat /\ ~(0 > Middle(cfg[g]))
          BY <1>1, CfgOK
        <5> QED
          BY <1>1, <5>1, <5>2, <5>3 DEF Complete
      <4>6. Centred(g)'
        BY <2>3 DEF Centred
      <4> QED
        BY <3>1, <4>3, <4>4, <4>5, <4>6 DEF Log
    <3>2. CASE h # g
      BY <1>1, <2>1, <2>3, <3>2, LogStays DEF Inv
    <3> QED
      BY <3>1, <3>2
  <2> QED
    BY <2>4, <2>5
<1> QED
  BY <1>2, <1>3

LEMMA RemoveHolds ==
  ASSUME Inv, NEW g \in Generators, RemoveTable(g)
  PROVE  RowsInSession' /\ \A h \in Generators : Log(h)'
<1>1. /\ pc[g] = "remove" /\ first' = first /\ table' = NoTable
      /\ pc' = [pc EXCEPT ![g] = IF table = NoTable THEN "failed" ELSE "create"]
      /\ UNCHANGED <<cfg, days, it_day, batch, generated>> /\ Types /\ pc \in [Generators -> Labels]
  BY DEF RemoveTable, locals, GoTo, Inv, Types
<1>2. AllRows' = {} /\ \A h \in Generators : RowsOf(h)' = {} /\ ~Owns(h)'
  BY <1>1 DEF AllRows, RowsOf, Owns
<1>3. RowsInSession'
  BY <1>2 DEF RowsInSession
<1>4. ASSUME NEW h \in Generators PROVE Log(h)'
  <2>1. CASE h # g
    BY <1>1, <1>2, <2>1, LogStays DEF Inv
  <2>2. CASE h = g
    <3>1. pc'[g] \in {"failed", "create"}
      BY <1>1
    <3>2. days[g] = 0 /\ generated[g] = 0 /\ batch[g] = {} /\ days[g] <= cfg[g].days
      BY <1>1 DEF Inv, Log, Order
    <3>3. Order(g)' /\ Errors(g)' /\ Complete(g)' /\ Centred(g)'
      BY <1>1, <1>2, <3>1, <3>2 DEF Order, Errors, Complete, Centred
    <3> QED
      BY <2>2, <3>3 DEF Log
  <2> QED
    BY <2>1, <2>2
<1> QED
  BY <1>3, <1>4

LEMMA GenerateHolds ==
  ASSUME Inv, NEW g \in Generators, NEW n, GenerateDay(g, n)
  PROVE  Types' /\ RowsInSession' /\ \A h \in Generators : Log(h)'
<1> DEFINE d == skip_weekend(it_day[g])
           c == cfg[g]
<1>1. /\ pc[g] = "day" /\ days[g] < c.days /\ n \in iterations_count(c.iterations)
      /\ it_day' = [it_day EXCEPT ![g] = d]
      /\ batch' = [batch EXCEPT ![g] = @ \cup Rows(g, d, n)]
      /\ generated' = [generated EXCEPT ![g] = @ + n]
      /\ pc' = [pc EXCEPT ![g] = "push"]
      /\ UNCHANGED <<first, table, cfg, days>>
  BY DEF GenerateDay, GoTo, db
<1>2. Types /\ Log(g) /\ Good(c) /\ c.days \in Nat
  BY CfgOK DEF Inv
<1>3. it_day[g] \in Nat /\ days[g] \in Nat /\ first \in 0 .. 6 /\ generated[g] \in Nat
  BY <1>2 DEF Types
<1>4. d \in Nat /\ it_day[g] <= d /\ Weekday(d) \in 1 .. 5
  BY <1>3, SkipsWeekend
<1>5. Rows(g, d, n) = DayRows(g, c, days[g], d, n)
  BY DEF Rows, DayRows, Numbered, Transaction
<1> HIDE DEF d, c
<1>6. /\ IsFiniteSet(Rows(g, d, n)) /\ Cardinality(Rows(g, d, n)) = n /\ n \in Nat
      /\ \A r \in Rows(g, d, n) : r.by = g /\ r.ts \in Nat /\ r.error \in BOOLEAN
  <2> DEFINE R == DayRows(g, c, days[g], d, n)
  <2>1. DayOK(R, g, c, days[g], d, n)
    BY <1>1, <1>2, <1>3, <1>4, DayRowsOK
  <2> HIDE DEF R
  <2>2. Rows(g, d, n) = R
    BY <1>5 DEF R
  <2> QED
    BY <2>1, <2>2, Zenon DEF DayOK
<1>7. batch[g] = {} /\ batch'[g] = Rows(g, d, n)
  BY <1>1, <1>2 DEF Log, Order, Types
<1>8. Types'
  <2>1. Rows(g, d, n) \subseteq AnyRow
    <3>1. \A r \in Rows(g, d, n) : r = [by |-> r.by, ts |-> r.ts, error |-> r.error]
      BY DEF Rows
    <3> QED
      BY <1>6, <3>1 DEF AnyRow
  <2> QED
    BY <1>1, <1>2, <1>3, <1>4, <1>6, <2>1 DEF Types, Labels
<1>9. RowsInSession'
  BY <1>1, SameTable DEF Inv, RowsInSession, Weekday
<1>10. Order(g)'
  <2>1. \A r \in RowsOf(g) : DateOf(r) < d
    <3>1. \A r \in RowsOf(g) : DateOf(r) < it_day[g]
      BY <1>1, <1>2 DEF Log, Order
    <3>2. \A r \in RowsOf(g) : DateOf(r) \in Nat
      BY <1>2, DatesOK
    <3> QED
      BY <1>3, <1>4, <3>1, <3>2
  <2>2. pc'[g] = "push" /\ it_day'[g] = d /\ days'[g] = days[g] /\ cfg'[g] = c
    BY <1>1, <1>2 DEF Types, c
  <2>3. days[g] <= c.days
    BY <1>1, <1>2, <1>3
  <2> QED
    BY <1>1, <1>4, <1>5, <1>7, <2>1, <2>2, <2>3, SameTable DEF Order, Weekday
<1>11. Errors(g)'
  BY <1>1, <1>2, SameTable DEF Log, Errors, SameDate
<1>12. Complete(g)'
  <2> SUFFICES ASSUME Owns(g), pc'[g] # "failed"
               PROVE  /\ IsFiniteSet(RowsOf(g)) /\ IsFiniteSet(batch'[g])
                      /\ Cardinality(RowsOf(g)) + Cardinality(batch'[g]) = generated'[g]
                      /\ IsFiniteSet(Dates(g)) /\ Cardinality(Dates(g)) = days[g]
                      /\ days[g] > Middle(cfg[g]) /\ cfg[g].errors > 0 => \E r \in RowsOf(g) : r.error
    BY <1>1, SameTable DEF Complete, Dates
  <2>1. /\ IsFiniteSet(RowsOf(g))
        /\ Cardinality(RowsOf(g)) + Cardinality(batch[g]) = generated[g]
        /\ IsFiniteSet(Dates(g)) /\ Cardinality(Dates(g)) = days[g]
        /\ days[g] > Middle(cfg[g]) /\ cfg[g].errors > 0 => \E r \in RowsOf(g) : r.error
    BY <1>1, <1>2 DEF Log, Complete
  <2>2. Cardinality(batch[g]) = 0 /\ Cardinality(RowsOf(g)) \in Nat
    BY <1>7, <2>1, FS_EmptySet, FS_CardinalityType
  <2>3. generated'[g] = generated[g] + n
    BY <1>1, <1>2 DEF Types
  <2>4. Cardinality(RowsOf(g)) + Cardinality(batch'[g]) = generated'[g]
    BY <1>6, <1>7, <2>1, <2>2, <2>3
  <2> QED
    BY <1>6, <1>7, <2>1, <2>4
<1>13. Centred(g)'
  BY <1>1, <1>2, SameTable DEF Log, Centred, DatesBefore, Dates, DateOf
<1>14. ASSUME NEW h \in Generators PROVE Log(h)'
  <2>1. CASE h = g
    BY <1>10, <1>11, <1>12, <1>13, <2>1 DEF Log
  <2>2. CASE h # g
    <3>1. /\ days'[h] = days[h] /\ it_day'[h] = it_day[h] /\ generated'[h] = generated[h]
          /\ batch'[h] = batch[h] /\ cfg'[h] = cfg[h] /\ pc'[h] = pc[h]
      BY <1>1, <1>2, <2>2 DEF Types
    <3> QED
      BY <1>1, <1>2, <3>1, SameTable, LogStays DEF Inv
  <2> QED
    BY <2>1, <2>2
<1> QED
  BY <1>8, <1>9, <1>14

\* The rows of the table after a push.
LEMMA RowsAfterPush ==
  ASSUME Inv, NEW g \in Generators, table # NoTable, pc[g] = "push",
         table' = [table EXCEPT !.rows = @ \cup batch[g]]
  PROVE  /\ table \in AnyTable /\ table' \in AnyTable /\ table' # NoTable
         /\ table'.owner = table.owner
         /\ AllRows = table.rows /\ AllRows' = AllRows \cup batch[g]
         /\ RowsOf(g)' = RowsOf(g) \cup batch[g]
         /\ \A h \in Generators : h # g => RowsOf(h)' = RowsOf(h)
         /\ \A r \in batch[g] : r.by = g
<1>1. Types /\ Order(g) /\ Good(cfg[g])
  BY CfgOK DEF Inv, Log
<1>2. table \in AnyTable /\ batch[g] \subseteq AnyRow /\ days[g] \in Nat /\ it_day[g] \in Nat
  BY <1>1 DEF Types
<1>3. table' \in AnyTable /\ table'.owner = table.owner /\ table'.rows = table.rows \cup batch[g]
  BY <1>2 DEF AnyTable
<1>4. table' # NoTable
  BY <1>3, Constants
<1>5. AllRows = table.rows /\ AllRows' = AllRows \cup batch[g]
  BY <1>3, <1>4 DEF AllRows
<1>6. \A r \in batch[g] : r.by = g
  <2>1. PICK n \in iterations_count(cfg[g].iterations) :
          batch[g] = DayRows(g, cfg[g], days[g], it_day[g], n)
    BY <1>1 DEF Order
  <2>2. \A r \in DayRows(g, cfg[g], days[g], it_day[g], n) : r.by = g
    BY <1>1, <1>2, DayRowsOK DEF DayOK
  <2> QED
    BY <2>1, <2>2
<1>7. RowsOf(g)' = RowsOf(g) \cup batch[g]
  BY <1>5, <1>6 DEF RowsOf
<1>8. \A h \in Generators : h # g => RowsOf(h)' = RowsOf(h)
  BY <1>5, <1>6 DEF RowsOf
<1> QED
  BY <1>2, <1>3, <1>4, <1>5, <1>6, <1>7, <1>8

LEMMA PushHolds ==
  ASSUME Inv, NEW g \in Generators, Push(g)
  PROVE  Types' /\ RowsInSession' /\ \A h \in Generators : Log(h)'
<1> DEFINE d == it_day[g]
           k == days[g]
           c == cfg[g]
           B == batch[g]
           R == RowsOf(g)
<1>1. pc[g] = "push" /\ first' = first /\ cfg' = cfg /\ generated' = generated
  BY DEF Push
<1>2. Types /\ Order(g) /\ Errors(g) /\ Complete(g) /\ Centred(g) /\ Log(g)
  BY DEF Inv, Log
<1>3. Good(c) /\ c.days \in Nat /\ Middle(c) \in Nat /\ d \in Nat /\ k \in Nat
  BY <1>2, CfgOK DEF Types
<1>4. CASE table = NoTable
  <2>1. /\ pc' = [pc EXCEPT ![g] = "failed"]
        /\ UNCHANGED <<table, days, it_day, batch>>
    BY <1>4 DEF Push, GoTo
  <2>2. Types'
    BY <1>1, <1>2, <2>1 DEF Types, Labels
  <2>3. RowsInSession'
    BY <1>1, <2>1, SameTable DEF Inv, RowsInSession, Weekday
  <2>4. pc'[g] = "failed" /\ \A h \in Generators : h # g => pc'[h] = pc[h]
    BY <1>2, <2>1 DEF Types
  <2>5. ASSUME NEW h \in Generators PROVE Log(h)'
    <3>1. CASE h = g
      BY <1>1, <1>2, <2>1, <2>4, <3>1, SameTable, LogFails
    <3>2. CASE h # g
      BY <1>1, <1>2, <2>1, <2>4, <3>2, SameTable, LogStays DEF Inv
    <3> QED
      BY <3>1, <3>2
  <2> QED
    BY <2>2, <2>3, <2>5
<1>5. CASE table # NoTable
  <2>1. /\ table' = [table EXCEPT !.rows = @ \cup batch[g]]
        /\ batch' = [batch EXCEPT ![g] = {}]
        /\ days' = [days EXCEPT ![g] = @ + 1]
        /\ it_day' = [it_day EXCEPT ![g] = @ + 1]
        /\ pc' = [pc EXCEPT ![g] = "day"]
    BY <1>5 DEF Push, GoTo
  <2>2. /\ table \in AnyTable /\ table' \in AnyTable /\ table' # NoTable
        /\ table'.owner = table.owner
        /\ AllRows' = AllRows \cup B
        /\ RowsOf(g)' = R \cup B
        /\ \A h \in Generators : h # g => RowsOf(h)' = RowsOf(h)
    BY <1>1, <1>5, <2>1, RowsAfterPush
  <2>3. /\ batch'[g] = {} /\ days'[g] = k + 1 /\ it_day'[g] = d + 1 /\ pc'[g] = "day"
        /\ cfg'[g] = c /\ generated'[g] = generated[g]
    BY <1>1, <1>2, <2>1 DEF Types
  <2>4. PICK n \in iterations_count(c.iterations) : B = DayRows(g, c, k, d, n)
    BY <1>1, <1>2 DEF Order
  <2>5. /\ IsFiniteSet(B) /\ Cardinality(B) = n /\ B # {} /\ n \in Nat
        /\ \A r \in B :
             /\ DateOf(r) = d /\ (r.error => k = Middle(c))
             /\ r.ts % (24 * Hour) >= 9 * Hour /\ r.ts % (24 * Hour) < 17 * Hour
    <3>1. DayOK(DayRows(g, c, k, d, n), g, c, k, d, n)
      BY <1>3, DayRowsOK
    <3> HIDE DEF B, c, d, k
    <3> QED
      BY <2>4, <3>1, Zenon DEF DayOK
  <2>6. \A r \in R : DateOf(r) < d /\ DateOf(r) \in Nat
    BY <1>1, <1>2, DatesOK DEF Order
  <2>7. Weekday(d) \in 1 .. 5 /\ k < c.days
    BY <1>1, <1>2 DEF Order
  <2>8. \A r \in R : DateOf(r) # d /\ ~(DateOf(r) > d)
    BY <1>3, <2>6
  <2> HIDE DEF B, R, c, d, k
  <2>9. R \cap B = {}
    BY <2>5, <2>8
  <2>10. Types'
    BY <1>1, <1>2, <2>1, <2>2 DEF Types, Labels
  <2>11. RowsInSession'
    <3>1. \A r \in B : Weekday(DateOf(r)) \in 1 .. 5
      BY <2>5, <2>7
    <3>2. \A r \in AllRows : /\ Weekday(DateOf(r)) \in 1 .. 5
                             /\ r.ts % (24 * Hour) >= 9 * Hour
                             /\ r.ts % (24 * Hour) < 17 * Hour
      BY DEF Inv, RowsInSession
    <3>3. \A x : Weekday(x)' = Weekday(x)
      BY <1>1 DEF Weekday
    <3> QED
      BY <2>2, <2>5, <3>1, <3>2, <3>3 DEF RowsInSession, DateOf
  <2>12. Order(g)'
    <3>1. \A r \in R \cup B : DateOf(r) < d + 1
      <4>1. d < d + 1
        BY <1>3 DEF d
      <4>2. \A r \in R : DateOf(r) < d + 1
        BY <1>3, <2>6 DEF d
      <4> QED
        BY <2>5, <4>1, <4>2
    <3>2. k + 1 <= c.days
      BY <1>3, <2>7 DEF k, c
    <3> QED
      BY <2>2, <2>3, <3>1, <3>2 DEF Order, DateOf
  <2>13. Errors(g)'
    <3>1. \A r \in R : r.error => k > Middle(c)
      BY <1>2 DEF Errors, R, c, k
    <3>2. k + 1 > Middle(c) \/ ~(k >= Middle(c))
      BY <1>3 DEF k, c
    <3>3. CASE k = Middle(c)
      <4>1. \A r \in R : ~r.error
        BY <1>3, <3>1, <3>3 DEF k, c
      <4>2. {r \in R \cup B : DateOf(r) = d} = B
        BY <2>5, <2>8
      <4>3. {r \in RowsOf(g)' : DateOf(r) = d} = B
        BY <2>2, <4>2
      <4>4. k + 1 > Middle(c)
        BY <1>3, <3>3 DEF k, c
      <4>5. ASSUME NEW r \in RowsOf(g)', r.error PROVE r \in B /\ DateOf(r) = d
        BY <2>2, <2>5, <4>1, <4>5
      <4>6. ASSUME NEW r \in RowsOf(g)', r.error
            PROVE  /\ days'[g] > Middle(cfg'[g])
                   /\ \E m \in iterations_count(cfg'[g].iterations) :
                        SameDate(g, DateOf(r))'
                          = DayRows(g, cfg'[g], Middle(cfg'[g]), DateOf(r), m)
                   /\ \A x \in RowsOf(g)' : x.error => DateOf(x) = DateOf(r)
        <5>1. DateOf(r) = d
          BY <4>5, <4>6
        <5>2. SameDate(g, DateOf(r))' = B
          BY <4>3, <5>1 DEF SameDate, DateOf
        <5>3. B = DayRows(g, c, Middle(c), d, n)
          BY <2>4, <3>3
        <5> QED
          BY <2>3, <2>4, <4>4, <4>5, <5>1, <5>2, <5>3
      <4> QED
        BY <4>6 DEF Errors, DateOf
    <3>4. CASE k # Middle(c)
      <4>1. \A r \in B : ~r.error
        BY <2>5, <3>4
      <4>2. ASSUME NEW r \in RowsOf(g)', r.error
            PROVE  /\ days'[g] > Middle(cfg'[g])
                   /\ \E m \in iterations_count(cfg'[g].iterations) :
                        SameDate(g, DateOf(r))'
                          = DayRows(g, cfg'[g], Middle(cfg'[g]), DateOf(r), m)
                   /\ \A x \in RowsOf(g)' : x.error => DateOf(x) = DateOf(r)
        <5>1. r \in R /\ DateOf(r) # d
          BY <2>2, <2>8, <4>1, <4>2
        <5>2. /\ k > Middle(c)
              /\ \E m \in iterations_count(c.iterations) :
                   SameDate(g, DateOf(r)) = DayRows(g, c, Middle(c), DateOf(r), m)
              /\ \A x \in R : x.error => DateOf(x) = DateOf(r)
          BY <1>2, <4>2, <5>1 DEF Errors, R, c, k
        <5>3. k + 1 > Middle(c)
          BY <1>3, <5>2 DEF k, c
        <5>4. {x \in R \cup B : DateOf(x) = DateOf(r)} = {x \in R : DateOf(x) = DateOf(r)}
          BY <2>5, <5>1
        <5>5. SameDate(g, DateOf(r))' = SameDate(g, DateOf(r))
          BY <2>2, <5>4 DEF SameDate, DateOf, R
        <5> QED
          BY <2>2, <2>3, <4>1, <5>2, <5>3, <5>5
      <4> QED
        BY <4>2 DEF Errors, DateOf
    <3> QED
      BY <3>3, <3>4
  <2>14. Complete(g)'
    <3> SUFFICES ASSUME Owns(g)'
                 PROVE  /\ IsFiniteSet(R \cup B) /\ IsFiniteSet({})
                        /\ Cardinality(R \cup B) + Cardinality({}) = generated[g]
                        /\ IsFiniteSet(Dates(g)') /\ Cardinality(Dates(g)') = k + 1
                        /\ k + 1 > Middle(c) /\ c.errors > 0 => \E r \in R \cup B : r.error
      BY <2>2, <2>3 DEF Complete
    <3>1. Owns(g) /\ pc[g] # "failed"
      BY <1>1, <1>5, <2>2 DEF Owns
    <3>2. /\ IsFiniteSet(R) /\ Cardinality(R) + Cardinality(B) = generated[g]
          /\ IsFiniteSet(Dates(g)) /\ Cardinality(Dates(g)) = k
          /\ k > Middle(c) /\ c.errors > 0 => \E r \in R : r.error
      BY <1>2, <3>1 DEF Complete, R, B, k, c
    <3>3. Cardinality(R \cup B) = Cardinality(R) + Cardinality(B) - Cardinality(R \cap B)
      BY <2>5, <3>2, FS_Union
    <3>4. IsFiniteSet(R \cup B) /\ IsFiniteSet({}) /\ Cardinality({}) = 0
      BY <2>5, <3>2, FS_Union, FS_EmptySet
    <3>5. Cardinality(R \cup B) + Cardinality({}) = generated[g]
      <4>1. Cardinality(R) \in Nat /\ Cardinality(B) \in Nat /\ Cardinality(R \cap B) = 0
        BY <2>5, <2>9, <3>2, <3>4, FS_CardinalityType
      <4>2. Cardinality(R \cup B) + Cardinality({}) = Cardinality(R) + Cardinality(B)
        BY <3>3, <3>4, <4>1
      <4> QED
        BY <3>2, <4>2
    <3>6. Dates(g)' = Dates(g) \cup {d} /\ d \notin Dates(g)
      <4>1. {DateOf(r) : r \in R \cup B} = {DateOf(r) : r \in R} \cup {d}
        BY <2>5
      <4>2. Dates(g) = {DateOf(r) : r \in R} /\ Dates(g)' = {DateOf(r) : r \in R \cup B}
        BY <2>2 DEF Dates, R, DateOf
      <4> QED
        BY <2>8, <4>1, <4>2
    <3>7. IsFiniteSet(Dates(g)') /\ Cardinality(Dates(g)') = k + 1
      BY <3>2, <3>6, FS_AddElement
    <3>8. ASSUME k + 1 > Middle(c), c.errors > 0 PROVE \E r \in R \cup B : r.error
      <4>1. CASE k = Middle(c)
        <5> DEFINE W == {r \in DayRows(g, c, Middle(c), d, n) : r.error}
        <5>1. W # {}
          BY <1>3, <3>8, DayErrors DEF d, c
        <5> QED
          BY <2>4, <4>1, <5>1
      <4>2. CASE k # Middle(c)
        <5>1. k > Middle(c)
          BY <1>3, <3>8, <4>2 DEF k, c
        <5> QED
          BY <3>2, <3>8, <5>1
      <4> QED
        BY <4>1, <4>2
    <3> QED
      BY <3>4, <3>5, <3>7, <3>8
  <2>15. Centred(g)'
    <3> SUFFICES ASSUME Owns(g)', NEW r \in RowsOf(g)', r.error
                 PROVE  Cardinality(DatesBefore(g, DateOf(r))') = Middle(c)
      BY <2>3 DEF Centred, DateOf
    <3>1. Owns(g) /\ pc[g] # "failed"
      BY <1>1, <1>5, <2>2 DEF Owns
    <3>2. Dates(g) = {DateOf(x) : x \in R} /\ Dates(g)' = {DateOf(x) : x \in R} \cup {d}
      <4>1. {DateOf(x) : x \in R \cup B} = {DateOf(x) : x \in R} \cup {d}
        BY <2>5
      <4>2. Dates(g) = {DateOf(x) : x \in R} /\ Dates(g)' = {DateOf(x) : x \in R \cup B}
        BY <2>2 DEF Dates, R, DateOf
      <4> QED
        BY <4>1, <4>2
    <3>3. \A x \in Dates(g) : x < d /\ x \in Nat
      BY <2>6, <3>2
    <3>4. ASSUME NEW e \in Nat, e <= d PROVE DatesBefore(g, e)' = DatesBefore(g, e)
      <4>1. ~(d < e)
        BY <1>3, <3>4 DEF d
      <4> QED
        BY <3>2, <4>1 DEF DatesBefore
    <3>5. CASE r \in B
      <4>1. DateOf(r) = d /\ k = Middle(c)
        BY <2>5, <3>5
      <4>2. DatesBefore(g, DateOf(r))' = Dates(g)
        <5>1. DateOf(r) \in Nat /\ DateOf(r) <= d
          BY <1>3, <4>1 DEF d
        <5>2. DatesBefore(g, DateOf(r))' = DatesBefore(g, DateOf(r))
          BY <3>4, <5>1 DEF DatesBefore
        <5>3. DatesBefore(g, DateOf(r)) = Dates(g)
          BY <3>3, <4>1 DEF DatesBefore
        <5> QED
          BY <5>2, <5>3
      <4>3. Cardinality(Dates(g)) = k
        BY <1>2, <3>1 DEF Complete, k
      <4> QED
        BY <4>1, <4>2, <4>3
    <3>6. CASE r \in R
      <4>1. DateOf(r) \in Nat /\ DateOf(r) <= d
        BY <1>3, <2>6, <3>6 DEF d
      <4>2. Cardinality(DatesBefore(g, DateOf(r))) = Middle(c)
        BY <1>2, <3>1, <3>6 DEF Centred, R, c
      <4> QED
        BY <3>4, <4>1, <4>2 DEF DatesBefore
    <3> QED
      BY <2>2, <3>5, <3>6
  <2>16. ASSUME NEW h \in Generators PROVE Log(h)'
    <3>1. CASE h = g
      BY <2>12, <2>13, <2>14, <2>15, <3>1 DEF Log
    <3>2. CASE h # g
      <4>1. /\ days'[h] = days[h] /\ it_day'[h] = it_day[h] /\ generated'[h] = generated[h]
            /\ batch'[h] = batch[h] /\ cfg'[h] = cfg[h] /\ pc'[h] = pc[h]
        BY <1>1, <1>2, <2>1, <3>2 DEF Types
      <4>2. RowsOf(h)' = RowsOf(h) /\ (Owns(h)' => Owns(h))
        BY <1>5, <2>2, <3>2 DEF Owns
      <4> QED
        BY <1>1, <1>2, <4>1, <4>2, LogStays DEF Inv
    <3> QED
      BY <3>1, <3>2
  <2> QED
    BY <2>10, <2>11, <2>16
<1> QED
  BY <1>4, <1>5

\* Start, CreateEntry, GetMetadata, InitBatch, Finish and Fail write no row.
Still(g) ==
  /\ UNCHANGED <<first, table, days, it_day, batch, generated>>
  /\ \A h \in Generators : h # g => pc'[h] = pc[h] /\ cfg'[h] = cfg[h]

LEMMA StillHolds ==
  ASSUME Inv, NEW g \in Generators, Still(g), Types', Log(g)'
  PROVE  Inv'
<1>1. RowsInSession'
  BY SameTable DEF Still, Inv, RowsInSession, Weekday
<1>2. ASSUME NEW h \in Generators, h # g PROVE Log(h)'
  BY <1>2, SameTable, LogStays DEF Still, Inv
<1> QED
  BY <1>1, <1>2 DEF Inv

LEMMA StartHolds ==
  ASSUME Inv, NEW g \in Generators, NEW c \in Configs, Start(g, c)
  PROVE  Inv'
<1>1. /\ pc[g] = "idle" /\ cfg' = [cfg EXCEPT ![g] = c] /\ pc' = [pc EXCEPT ![g] = "entries"]
      /\ UNCHANGED <<first, table, days, it_day, batch, generated>>
      /\ Types /\ Log(g)
  BY DEF Start, GoTo, db, Inv
<1>2. Types'
  BY <1>1 DEF Types, Labels
<1>3. Still(g) /\ pc'[g] = "entries" /\ cfg'[g] = c
  BY <1>1 DEF Still, Types
<1>4. days[g] = 0 /\ generated[g] = 0 /\ RowsOf(g) = {} /\ batch[g] = {} /\ ~Owns(g)
  BY <1>1 DEF Log, Order
<1>5. 0 <= c.days
  BY Constants DEF Good
<1>6. Log(g)'
  BY <1>1, <1>3, <1>4, <1>5, SameTable DEF Log, Order, Errors, Complete, Centred
<1> QED
  BY <1>2, <1>3, <1>6, StillHolds

\* The actions that only move a generator on.
LEMMA MoveHolds ==
  ASSUME Inv, NEW g \in Generators, NEW label \in Labels,
         UNCHANGED <<first, table, cfg, days, it_day, batch, generated>>,
         pc' = [pc EXCEPT ![g] = label],
         \/ label = "failed"
         \/ pc[g] = "entries" /\ label = "create" /\ table = NoTable
         \/ pc[g] = "entries" /\ label = "remove"
         \/ pc[g] = "init" /\ label = "day"
         \/ pc[g] = "day" /\ label = "done" /\ days[g] >= cfg[g].days
  PROVE  Inv'
<1>1. Types /\ Log(g) /\ Order(g) /\ Errors(g) /\ Complete(g) /\ Centred(g)
  BY DEF Inv, Log
<1>2. Types'
  BY <1>1 DEF Types
<1>3. Still(g) /\ pc'[g] = label
  BY <1>1 DEF Still, Types
<1>4. /\ RowsOf(g)' = RowsOf(g) /\ Owns(g)' = Owns(g)
      /\ days[g] \in Nat /\ cfg[g].days \in Nat
  BY <1>1, SameTable, CfgOK DEF Types
<1>5. CASE label = "failed"
  BY <1>1, <1>2, <1>3, <1>4, <1>5, LogFails, StillHolds
<1>6. CASE label # "failed"
  <2>1. pc[g] # "failed" /\ (pc[g] = "day" => label = "done" /\ days[g] = cfg[g].days)
    BY <1>1, <1>4, <1>6 DEF Order
  <2>2. Order(g)'
    <3>1. CASE pc[g] = "entries"
      BY <1>1, <1>3, <1>4, <1>6, <3>1 DEF Order
    <3>2. CASE pc[g] = "init"
      BY <1>1, <1>3, <1>4, <1>6, <3>2 DEF Order
    <3>3. CASE pc[g] = "day"
      BY <1>1, <1>3, <1>4, <1>6, <2>1, <3>3 DEF Order
    <3> QED
      BY <1>6, <3>1, <3>2, <3>3
  <2>3. Errors(g)'
    BY <1>1, <1>4 DEF Errors, SameDate
  <2>4. Complete(g)'
    BY <1>1, <1>4, <2>1 DEF Complete, Dates
  <2>5. Centred(g)'
    BY <1>1, <1>4 DEF Centred, DatesBefore, Dates, DateOf
  <2> QED
    BY <1>2, <1>3, <2>2, <2>3, <2>4, <2>5, StillHolds DEF Log
<1> QED
  BY <1>5, <1>6

LEMMA CreateEntryHolds ==
  ASSUME Inv, NEW g \in Generators, CreateEntry(g)
  PROVE  Inv'
<1>1. UNCHANGED <<first, table, pc, cfg, days, it_day, batch, generated>>
  BY DEF CreateEntry
<1>2. Types' /\ Still(g)
  BY <1>1 DEF Inv, Types, Still
<1>3. Log(g)'
  BY <1>1, SameTable, LogStays DEF Inv
<1> QED
  BY <1>2, <1>3, StillHolds

LEMMA NextHolds == Inv /\ [Next]_vars => Inv'
<1> SUFFICES ASSUME Inv, [Next]_vars PROVE Inv'
  OBVIOUS
<1>1. CASE UNCHANGED vars
  <2>1. UNCHANGED <<first, table, pc, cfg, days, it_day, batch, generated>>
    BY <1>1 DEF vars, db, locals
  <2>2. Types' /\ RowsInSession'
    BY <2>1, SameTable DEF Inv, Types, RowsInSession, Weekday
  <2>3. \A h \in Generators : Log(h)'
    BY <2>1, SameTable, LogStays DEF Inv
  <2> QED
    BY <2>2, <2>3 DEF Inv
<1>2. ASSUME NEW g \in Generators, NEW c \in Configs, Start(g, c) PROVE Inv'
  BY <1>2, StartHolds
<1>3. ASSUME NEW g \in Generators, CreateEntry(g) PROVE Inv'
  BY <1>3, CreateEntryHolds
<1>4. ASSUME NEW g \in Generators, GetMetadata(g) PROVE Inv'
  <2>1. CASE table = NoTable
    <3>1. "create" \in Labels
      BY DEF Labels
    <3> QED
      BY <1>4, <2>1, <3>1, MoveHolds DEF GetMetadata, GoTo, db, locals
  <2>2. CASE table # NoTable
    <3>1. "remove" \in Labels
      BY DEF Labels
    <3> QED
      BY <1>4, <2>2, <3>1, MoveHolds DEF GetMetadata, GoTo, db, locals
  <2> QED
    BY <2>1, <2>2
<1>5. ASSUME NEW g \in Generators, RemoveTable(g) PROVE Inv'
  <2>1. Types'
    BY <1>5 DEF Inv, Types, RemoveTable, GoTo, locals, Labels
  <2> QED
    BY <1>5, <2>1, RemoveHolds DEF Inv
<1>6. ASSUME NEW g \in Generators, CreateTable(g) PROVE Inv'
  <2>1. [owner |-> g, rows |-> {}] \in AnyTable
    BY DEF AnyTable
  <2>2. Types'
    BY <1>6, <2>1 DEF Inv, Types, CreateTable, GoTo, locals, Labels
  <2> QED
    BY <1>6, <2>2, CreateHolds DEF Inv
<1>7. ASSUME NEW g \in Generators, InitBatch(g) PROVE Inv'
  <2>1. "failed" \in Labels /\ "day" \in Labels
    BY DEF Labels
  <2>2. CASE table = NoTable
    BY <1>7, <2>1, <2>2, MoveHolds DEF InitBatch, GoTo, db, locals
  <2>3. CASE table # NoTable
    BY <1>7, <2>1, <2>3, MoveHolds DEF InitBatch, GoTo, db, locals
  <2> QED
    BY <2>2, <2>3
<1>8. ASSUME NEW g \in Generators, NEW n, GenerateDay(g, n) PROVE Inv'
  BY <1>8, GenerateHolds DEF Inv
<1>9. ASSUME NEW g \in Generators, Push(g) PROVE Inv'
  BY <1>9, PushHolds DEF Inv
<1>10. ASSUME NEW g \in Generators, Finish(g) PROVE Inv'
  <2>1. "done" \in Labels
    BY DEF Labels
  <2> QED
    BY <1>10, <2>1, MoveHolds DEF Finish, GoTo, db, locals
<1>11. ASSUME NEW g \in Generators, Fail(g) PROVE Inv'
  <2>1. "failed" \in Labels
    BY DEF Labels
  <2> QED
    BY <1>11, <2>1, MoveHolds DEF Fail, GoTo, db, locals
<1> QED
  BY <1>1, <1>2, <1>3, <1>4, <1>5, <1>6, <1>7, <1>8, <1>9, <1>10, <1>11 DEF Next, Advance

LEMMA InvAlways == Spec => []Inv
BY InitHolds, NextHolds, PTL DEF Spec

-----------------------------------------------------------------------------
(***************************************************************************)
(* What the invariant says of the log.                                     *)
(***************************************************************************)
LEMMA InvErrors == Inv => ErrorsInTheMiddle
<1> SUFFICES ASSUME Inv PROVE ErrorsInTheMiddle
  OBVIOUS
<1>1. ASSUME NEW g \in Generators,
             NEW W, W = {r \in RowsOf(g) : r.error},
             NEW D, D = {r \in RowsOf(g) : \E w \in W : DateOf(w) = DateOf(r)}
      PROVE  /\ Cardinality({DateOf(r) : r \in W}) <= 1
             /\ W # {} => Cardinality(W) = cfg[g].errors \/ W = D
             /\ Owns(g) =>
                  /\ \A w \in W : Cardinality(DatesBefore(g, DateOf(w))) = cfg[g].days \div 2
                  /\ W = {} /\ pc[g] = "done" => cfg[g].days = 0 \/ cfg[g].errors = 0
  <2>1. Types /\ Order(g) /\ Errors(g) /\ Complete(g) /\ Centred(g) /\ Good(cfg[g])
    BY CfgOK DEF Inv, Log
  <2>2. CASE W = {}
    <3>1. {DateOf(r) : r \in W} = {}
      BY <2>2
    <3>2. Cardinality({DateOf(r) : r \in W}) <= 1
      BY <3>1, FS_EmptySet
    <3>3. ASSUME pc[g] = "done", Owns(g) PROVE cfg[g].days = 0 \/ cfg[g].errors = 0
      <4>1. days[g] = cfg[g].days /\ ~(days[g] > Middle(cfg[g]) /\ cfg[g].errors > 0)
        BY <1>1, <2>1, <2>2, <3>3 DEF Order, Complete
      <4>2. cfg[g].days \in Nat /\ cfg[g].errors \in Nat
        BY <2>1 DEF Good
      <4>3. cfg[g].days > 0 => cfg[g].days > Middle(cfg[g])
        BY <2>1, <4>2, CfgOK
      <4> QED
        BY <4>1, <4>2, <4>3
    <3> QED
      BY <2>2, <3>2, <3>3
  <2>3. CASE W # {}
    <3>1. PICK w \in W : TRUE
      BY <2>3
    <3>2. w \in RowsOf(g) /\ w.error
      BY <1>1, <3>1
    <3> DEFINE d == DateOf(w)
               c == cfg[g]
    <3>3. PICK n \in iterations_count(c.iterations) :
            SameDate(g, d) = DayRows(g, c, Middle(c), d, n)
      BY <2>1, <3>2 DEF Errors
    <3>4. \A x \in RowsOf(g) : x.error => DateOf(x) = d
      BY <2>1, <3>2 DEF Errors
    <3>5. d \in Nat
      BY <2>1, <3>2, DatesOK
    <3> HIDE DEF d
    <3>6. {DateOf(r) : r \in W} = {d}
      BY <1>1, <3>1, <3>4 DEF d
    <3>7. Cardinality({DateOf(r) : r \in W}) <= 1
      <4>1. Cardinality({d}) = 1
        BY FS_Singleton
      <4> QED
        BY <3>6, <4>1
    <3>8. D = SameDate(g, d)
      BY <1>1, <3>1, <3>4 DEF SameDate, d
    <3>9. W = {r \in DayRows(g, c, Middle(c), d, n) : r.error}
      BY <1>1, <3>3, <3>4 DEF SameDate
    <3>10. Cardinality(W) = c.errors \/ W = DayRows(g, c, Middle(c), d, n)
      BY <2>1, <3>5, <3>9, DayErrors
    <3>11. ASSUME Owns(g)
           PROVE  \A x \in W : Cardinality(DatesBefore(g, DateOf(x))) = cfg[g].days \div 2
      BY <1>1, <2>1, <3>11 DEF Centred, Middle
    <3> QED
      BY <2>3, <3>3, <3>7, <3>8, <3>10, <3>11
  <2> QED
    BY <2>2, <2>3
<1> QED
  BY <1>1 DEF ErrorsInTheMiddle, Owns, DatesBefore

LEMMA InvComplete == Inv => FinishedLogComplete
<1> SUFFICES ASSUME Inv, NEW g \in Generators, pc[g] = "done", Owns(g)
             PROVE  Cardinality(RowsOf(g)) = generated[g] /\ Cardinality(Dates(g)) = cfg[g].days
  BY DEF FinishedLogComplete, Owns
<1>1. Order(g) /\ Complete(g)
  BY DEF Inv, Log
<1>2. batch[g] = {} /\ days[g] = cfg[g].days
  BY <1>1 DEF Order
<1>3. /\ IsFiniteSet(RowsOf(g)) /\ Cardinality(RowsOf(g)) + Cardinality(batch[g]) = generated[g]
      /\ Cardinality(Dates(g)) = days[g]
  BY <1>1 DEF Complete
<1>4. Cardinality(RowsOf(g)) \in Nat /\ Cardinality(batch[g]) = 0
  BY <1>2, <1>3, FS_CardinalityType, FS_EmptySet
<1> QED
  BY <1>2, <1>3, <1>4

\* Every transaction of the table is stamped on a working day, from nine to five
\* (skip_weekend, and the instants that generate_transaction_log computes).
THEOREM RowsAlwaysInSession == Spec => []RowsInSession
<1>1. Inv => RowsInSession
  BY DEF Inv
<1> QED
  BY <1>1, InvAlways, PTL

\* The errors of a generator are on one day, and there are as many as were asked for
\* (should_generate_error), or all of that day's transactions are errors; in a table of
\* its own that day is the one in the middle of those asked for.
THEOREM ErrorsAlwaysInTheMiddle == Spec => []ErrorsInTheMiddle
BY InvErrors, InvAlways, PTL

\* A generator that ends well on its own table left all its transactions in it, on as
\* many days as asked (generate_transaction_log, push_to_db), whatever the others do.
THEOREM FinishedLogAlwaysComplete == Spec => []FinishedLogComplete
BY InvComplete, InvAlways, PTL
=============================================================================
