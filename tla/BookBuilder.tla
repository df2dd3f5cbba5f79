---------------------------- MODULE BookBuilder ----------------------------
(***************************************************************************)
(* From the engine's maps to the printed book: make_book sorts each map,   *)
(* collapse_book adds up the shares of each price in one pass, and the     *)
(* print functions draw one bar per line, scaled to the longest line of    *)
(* the two sides.                                                          *)
(***************************************************************************)
EXTENDS OrderEngine, Sequences, FiniteSets, FiniteSetsExt, SequencesExt, Functions

CONSTANTS
  Inputs,     \* the engine states to print
  MaxLength   \* length of the longest bar (20 in the code)

ASSUME BuilderAssumption ==
  /\ Inputs \subseteq Engines
  /\ Refs \subseteq Nat /\ IsFiniteSet(Refs)
  /\ MaxLength \in Nat

VARIABLES
  engine,     \* the engine, which printing does not change
  collapse,   \* the collapsed option
  pc,         \* "make", "first", "loop", "print" or "done"
  side,       \* the side being built or collapsed
  book,       \* the order_book of each side
  src,        \* it_src: the index of the next order to collapse
  dest,       \* it_dest: the index of the last collapsed line
  collapsed,  \* the collapsed_book of each side, in the order of its prices
  lines       \* the lines printed for each side

vars == <<engine, collapse, pc, side, book, src, dest, collapsed, lines>>

\* Mutant: shares are compared first.
BeforeByShares(a, b) ==
  \/ a.shares < b.shares
  \/ a.shares = b.shares /\ a.price < b.price
  \/ a.shares = b.shares /\ a.price = b.price /\ a.reference < b.reference

\* operator< of pair<order, reference>: by price, then shares, then reference.
Before(a, b) ==
  \/ a.price < b.price
  \/ a.price = b.price /\ a.shares < b.shares
  \/ a.price = b.price /\ a.shares = b.shares /\ a.reference < b.reference

\* std::sort: the order at index i has i - 1 orders before it.
Sorted(orders) ==
  [i \in 1 .. Cardinality(orders) |->
     CHOOSE o \in orders : Cardinality({p \in orders : Before(p, o)}) = i - 1]

\* Mutant: a map of orders instead of a multimap.
MapBook(m) ==
  LET orders == {[price |-> m[r].price, shares |-> m[r].shares, reference |-> 0] :
                   r \in {x \in Refs : m[x] # Absent}}
  IN  Sorted(orders)

make_book(m) ==
  LET orders == {[price |-> m[r].price, shares |-> m[r].shares, reference |-> r] :
                   r \in {x \in Refs : m[x] # Absent}}
  IN  Sorted(orders)

\* Addition in the unsigned shares field.
PlusShares(a, b) == (a + b) % ShareLimit

build_bar(current, max) ==
  IF current >= max THEN MaxLength ELSE (MaxLength * current) \div max

EmptySides == [s \in Sides |-> <<>>]

Init ==
  /\ engine \in Inputs
  /\ collapse \in BOOLEAN
  /\ pc = "make"
  /\ side = "buy"
  /\ book = EmptySides
  /\ src = 0
  /\ dest = 0
  /\ collapsed = EmptySides
  /\ lines = EmptySides

\* buying_book, then selling_book.
MakeBook ==
  /\ pc = "make"
  /\ book' = [book EXCEPT ![side] = make_book(engine[side])]
  /\ side' = IF side = "buy" THEN "sell" ELSE "buy"
  /\ pc' = CASE side = "buy" -> "make"
             [] side = "sell" /\ collapse  -> "first"
             [] side = "sell" /\ ~collapse -> "print"
  /\ UNCHANGED <<engine, collapse, src, dest, collapsed, lines>>

\* The end of collapse_book for one side.
NextSide ==
  /\ side' = "sell"
  /\ pc' = IF side = "buy" THEN "first" ELSE "print"

CollapseEmpty ==
  /\ pc = "first"
  /\ book[side] = <<>>
  /\ NextSide
  /\ UNCHANGED <<engine, collapse, book, src, dest, collapsed, lines>>

Line(o) == [price |-> o.price, shares |-> o.shares]

CollapseFirst ==
  /\ pc = "first"
  /\ book[side] # <<>>
  /\ collapsed' = [collapsed EXCEPT ![side] = <<Line(book[side][1])>>]
  /\ src' = 2
  /\ dest' = 1
  /\ pc' = "loop"
  /\ UNCHANGED <<engine, collapse, side, book, lines>>

\* emplace_hint leaves the map alone when it already holds the price.
EmplaceLine(s, o) ==
  IF \E i \in 1 .. Len(s) : s[i].price = o.price
  THEN s
  ELSE InsertAt(s, 1 + Cardinality({i \in 1 .. Len(s) : s[i].price < o.price}), Line(o))

LineOf(s, price) == CHOOSE i \in 1 .. Len(s) : s[i].price = price

CollapseStep ==
  /\ pc = "loop"
  /\ src <= Len(book[side])
  /\ LET o == book[side][src]
         s == collapsed[side]
     IN  IF s[dest].price = o.price
         THEN /\ collapsed' = [collapsed EXCEPT ![side][dest].shares = PlusShares(@, o.shares)]
              /\ UNCHANGED dest
         ELSE /\ collapsed' = [collapsed EXCEPT ![side] = EmplaceLine(s, o)]
              /\ dest' = LineOf(EmplaceLine(s, o), o.price)
  /\ src' = src + 1
  /\ UNCHANGED <<engine, collapse, pc, side, book, lines>>

CollapseEnd ==
  /\ pc = "loop"
  /\ src > Len(book[side])
  /\ NextSide
  /\ UNCHANGED <<engine, collapse, book, src, dest, collapsed, lines>>

\* print_books and print_collapsed_books: both sides or nothing, best price last.
Shown == IF collapse THEN collapsed ELSE book

\* Mutant: the scale of a collapsed book is that of the detailed one.
DetailedMax == Max(UNION {{book[s][i].shares : i \in 1 .. Len(book[s])} : s \in Sides})

the_max == Max(UNION {{Shown[s][i].shares : i \in 1 .. Len(Shown[s])} : s \in Sides})

PrintBooks ==
  /\ pc = "print"
  /\ lines' =
       IF Shown["buy"] = <<>> \/ Shown["sell"] = <<>>
       THEN EmptySides
       ELSE [s \in Sides |->
               [i \in 1 .. Len(Shown[s]) |->
                  LET o == Reverse(Shown[s])[i]
                  IN  [price |-> o.price, shares |-> o.shares,
                       bar |-> build_bar(o.shares, the_max)]]]
  /\ pc' = "done"
  /\ UNCHANGED <<engine, collapse, side, book, src, dest, collapsed>>

Done == pc = "done" /\ UNCHANGED vars

Next ==
  \/ MakeBook
  \/ CollapseEmpty
  \/ CollapseFirst
  \/ CollapseStep
  \/ CollapseEnd
  \/ PrintBooks
  \/ Done

Spec == Init /\ [][Next]_vars

-----------------------------------------------------------------------------
Held(s)            == {r \in Refs : Holds(engine, s, r)}
OrdersAt(s, price) == {r \in Held(s) : engine[s][r].price = price}
PricesOn(s)        == {engine[s][r].price : r \in Held(s)}
SharesOf(s)        == [r \in Held(s) |-> engine[s][r].shares]
SharesAt(s, price) == SumFunctionOnSet(SharesOf(s), OrdersAt(s, price))

PrintedAt(s, price) ==
  SumFunctionOnSet([i \in DOMAIN lines[s] |-> lines[s][i].shares],
                   {i \in DOMAIN lines[s] : lines[s][i].price = price})

\* The one-pass collapse loses no order and merges no two prices: a side of the
\* collapsed book has one line per price of the map, in increasing order, with the
\* total of that price as the unsigned field holds it.
CollapsedIsTheSum ==
  pc \in {"print", "done"} /\ collapse =>
    \A s \in Sides :
      /\ Len(collapsed[s]) = Cardinality(PricesOn(s))
      /\ \A i \in 1 .. Len(collapsed[s]) :
           /\ collapsed[s][i].price \in PricesOn(s)
           /\ collapsed[s][i].shares = SharesAt(s, collapsed[s][i].price) % ShareLimit
           /\ i > 1 => collapsed[s][i - 1].price < collapsed[s][i].price

\* The bars of the two sides share one scale: no bar is longer than MaxLength, a
\* line with more shares never has the shorter bar, and the longest line is full.
BarsToScale ==
  LET all == UNION {{lines[s][i] : i \in 1 .. Len(lines[s])} : s \in Sides}
  IN  /\ \A x \in all : x.bar \in 0 .. MaxLength
      /\ \A x, y \in all : x.shares <= y.shares => x.bar <= y.bar
      /\ all # {} => \E x \in all : x.bar = MaxLength

\* A detailed book with two sides leaves no order out: the lines of a side are the
\* orders of its map, from the highest price down.
EveryOrderPrinted ==
  pc = "done" /\ ~collapse /\ (\A s \in Sides : PricesOn(s) # {}) =>
    \A s \in Sides :
      /\ \A price \in PricesOn(s) : PrintedAt(s, price) = SharesAt(s, price)
      /\ Len(lines[s]) = Cardinality(Held(s))
      /\ \A i \in 1 .. Len(lines[s]) - 1 : lines[s][i].price >= lines[s][i + 1].price
=============================================================================
