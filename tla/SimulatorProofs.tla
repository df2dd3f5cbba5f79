-------------------------- MODULE SimulatorProofs --------------------------
(***************************************************************************)
(* However many simulators race for the tables, and however many products, *)
(* brokers and traders there are, they do not all fail unless the database *)
(* does; few rows are torn; a program that reads only whole rows sees      *)
(* every insert as one step, in the order of the instants; a simulator     *)
(* that ends well has written every row it set out to write; and the       *)
(* trades have been made from quotes that are in the tables.               *)
(***************************************************************************)
EXTENDS Simulator, SequenceTheorems, FiniteSetTheorems, WellFoundedInduction, TLAPS

Labels == {"idle", "entries", "run", "create", "tag", "done", "failed"}

AnyColumns == Seq(Range(QuoteColumns) \cup Range(TradeColumns)) \ {<<>>}

AnyInsert(names) == [table : names, rows : SUBSET AnyRow, columns : AnyColumns]

TypeOK ==
  /\ tables \in [Names -> AnyTable \cup {NoTable}]
  /\ pc \in [Simulators -> Labels]
  /\ cfg \in [Simulators -> [fast : BOOLEAN, iterations : Nat]]
  /\ step \in [Simulators -> Nat \ {0}]
  /\ round \in [Simulators -> Nat]
  /\ clock \in [Simulators -> Nat]
  /\ broken \in Nat

(***************************************************************************)
(* Where a simulator is.  A simulator inserts only when its tables have    *)
(* been created, and only into these.                                      *)
(***************************************************************************)
Placed ==
  \A s \in Simulators :
    /\ pc[s] \in {"idle", "entries"} => step[s] = 1 /\ inserts[s] = <<>>
    /\ pc[s] \in {"create", "tag"} => step[s] <= Len(Setup(s))
    /\ inserts[s] # <<>> => step[s] > Len(Setup(s))

Destined ==
  /\ inserts = [s \in Simulators |-> inserts[s]]
  /\ \A s \in Simulators : inserts[s] \in Seq(AnyInsert(Range(Setup(s))))

(***************************************************************************)
(* A table that a simulator has created is missing only while some         *)
(* simulator is about to create it.                                        *)
(***************************************************************************)
Making(name) == \E y \in Simulators : pc[y] = "create" /\ Setup(y)[step[y]] = name

Passed(s) == {k \in 1 .. Len(Setup(s)) : k < step[s] \/ (k = step[s] /\ pc[s] = "tag")}

Kept ==
  \A s \in Simulators : \A k \in Passed(s) : Exists(Setup(s)[k]) \/ Making(Setup(s)[k])

\* A simulator that no other one has made fail yet, or will by what it has done.
Safe(z) == pc[z] # "failed" /\ (pc[z] = "create" => ~Exists(Setup(z)[step[z]]))

Survivor == Simulators # {} => \E z \in Simulators : Safe(z)

Inv == TypeOK /\ Placed /\ Destined /\ (broken = 0 => Kept /\ Survivor)

-----------------------------------------------------------------------------
(***************************************************************************)
(* The sequence of tables that main creates.                               *)
(***************************************************************************)
LEMMA DivMod ==
  ASSUME NEW n \in Nat \ {0}, NEW a \in Nat, NEW b \in 0 .. n - 1
  PROVE  (a * n + b) \div n = a /\ (a * n + b) % n = b
<1> DEFINE m == a * n + b
           q == m \div n
<1>1. m \in Nat
  OBVIOUS
<1>2. q \in Int /\ m = n * q + (m % n) /\ m % n \in 0 .. n - 1
  BY <1>1
<1> HIDE DEF q
<1>3. n * (q - a) = b - (m % n)
  BY <1>2
<1>4. CASE q > a
  BY <1>2, <1>3, <1>4
<1>5. CASE q < a
  BY <1>2, <1>3, <1>5
<1> QED
  BY <1>2, <1>4, <1>5 DEF q

\* The length and the elements of a list.
LEMMA ListProperties ==
  ASSUME NEW list, IsList(list)
  PROVE  /\ Len(list) \in Nat \ {0}
         /\ \A i \in 1 .. Len(list) : list[i] \in Range(list)
         /\ \A x \in Range(list) : \E i \in 1 .. Len(list) : x = list[i]
<1>1. Len(list) \in Nat /\ DOMAIN list = 1 .. Len(list)
  BY LenProperties DEF IsList
<1>2. Len(list) > 0
  BY DEF IsList
<1> QED
  BY <1>1, <1>2 DEF Range

LEMMA Lists ==
  /\ NB \in Nat \ {0} /\ NP \in Nat \ {0} /\ NT \in Nat \ {0}
  /\ NB * NP \in Nat
  /\ \A i \in 1 .. NB : Brokers[i] \in Range(Brokers)
  /\ \A i \in 1 .. NP : Products[i] \in Range(Products)
  /\ \A i \in 1 .. NT : Traders[i] \in Range(Traders)
  /\ \A b \in Range(Brokers) : \E i \in 1 .. NB : b = Brokers[i]
  /\ \A p \in Range(Products) : \E i \in 1 .. NP : p = Products[i]
  /\ \A t \in Range(Traders) : \E i \in 1 .. NT : t = Traders[i]
<1>1. IsList(Brokers) /\ IsList(Products) /\ IsList(Traders)
  BY SimulatorAssumption
<1>2. NB \in Nat \ {0} /\ NP \in Nat \ {0} /\ NT \in Nat \ {0}
  BY <1>1, ListProperties DEF NB, NP, NT
<1>3. NB * NP \in Nat
  BY <1>2
<1> QED
  BY <1>1, <1>2, <1>3, ListProperties DEF NB, NP, NT

LEMMA ProductTables ==
  /\ create_products_ts \in Seq(QuoteTables)
  /\ Len(create_products_ts) = NB * NP
  /\ QuoteTables \subseteq Range(create_products_ts)
<1>1. \A i \in 1 .. NB * NP :
        /\ ((i - 1) \div NP) + 1 \in 1 .. NB
        /\ ((i - 1) % NP) + 1 \in 1 .. NP
  <2> SUFFICES ASSUME NEW i \in 1 .. NB * NP
               PROVE  /\ ((i - 1) \div NP) + 1 \in 1 .. NB
                      /\ ((i - 1) % NP) + 1 \in 1 .. NP
    OBVIOUS
  <2> DEFINE m == i - 1
             q == m \div NP
  <2>1. m \in Nat /\ m < NB * NP
    BY Lists
  <2>2. NP \in Nat \ {0} /\ NB \in Nat
    BY Lists
  <2> HIDE DEF m
  <2>3. q \in Int /\ m = NP * q + (m % NP) /\ m % NP \in 0 .. NP - 1
    BY <2>1, <2>2
  <2> HIDE DEF q
  <2>4. q >= 0
    BY <2>1, <2>2, <2>3
  <2>5. NP * (q - NB) < 0
    BY <2>1, <2>2, <2>3
  <2>6. ~(q >= NB)
    BY <2>2, <2>3, <2>5
  <2> QED
    BY <2>2, <2>3, <2>4, <2>6 DEF m, q
<1>2. ASSUME NEW i \in 1 .. NB * NP PROVE create_products_ts[i] \in QuoteTables
  <2>1. PICK b \in 1 .. NB, p \in 1 .. NP :
          b = ((i - 1) \div NP) + 1 /\ p = ((i - 1) % NP) + 1
    BY <1>1
  <2>2. create_products_ts[i] = QuoteTable(Brokers[b], Products[p])
    BY <2>1 DEF create_products_ts
  <2> QED
    BY <2>2, Lists DEF QuoteTables
<1>3. create_products_ts \in [1 .. NB * NP -> QuoteTables]
  BY <1>2 DEF create_products_ts
<1>4. create_products_ts \in Seq(QuoteTables)
  BY <1>3, Lists, SeqDef
<1>5. Len(create_products_ts) = NB * NP
  BY <1>3, <1>4, Lists, LenProperties
<1>6. ASSUME NEW b \in Range(Brokers), NEW p \in Range(Products)
      PROVE  QuoteTable(b, p) \in Range(create_products_ts)
  <2>1. PICK i \in 1 .. NB : b = Brokers[i]
    BY Lists
  <2>2. PICK j \in 1 .. NP : p = Products[j]
    BY Lists
  <2> DEFINE k == (i - 1) * NP + (j - 1) + 1
  <2>3. k - 1 = (i - 1) * NP + (j - 1)
    BY Lists
  <2>4. (k - 1) \div NP = i - 1 /\ (k - 1) % NP = j - 1
    <3>1. NP \in Nat \ {0} /\ i - 1 \in Nat /\ j - 1 \in 0 .. NP - 1
      BY Lists
    <3>2. /\ ((i - 1) * NP + (j - 1)) \div NP = i - 1
          /\ ((i - 1) * NP + (j - 1)) % NP = j - 1
      BY <3>1, DivMod
    <3> QED
      BY <2>3, <3>2
  <2>5. k \in 1 .. NB * NP
    <3>1. (NB - i) * NP >= 0
      BY Lists
    <3>2. NB * NP = (NB - i) * NP + (i - 1) * NP + NP
      BY Lists
    <3>3. (i - 1) * NP >= 0
      BY Lists
    <3> QED
      BY <3>1, <3>2, <3>3, Lists
  <2> HIDE DEF k
  <2>6. create_products_ts[k] = QuoteTable(b, p)
    BY <2>1, <2>2, <2>4, <2>5, Lists DEF create_products_ts
  <2> QED
    BY <1>3, <2>5, <2>6 DEF Range
<1> QED
  BY <1>4, <1>5, <1>6 DEF QuoteTables

LEMMA TraderTableSeq ==
  /\ traders_ts_creator \in Seq(TraderTables)
  /\ Len(traders_ts_creator) = NT
  /\ TraderTables \subseteq Range(traders_ts_creator)
<1>1. traders_ts_creator \in [1 .. NT -> TraderTables]
  BY Lists DEF traders_ts_creator, TraderTables
<1>2. traders_ts_creator \in Seq(TraderTables)
  BY <1>1, Lists, SeqDef
<1>3. Len(traders_ts_creator) = NT
  BY <1>1, <1>2, Lists, LenProperties
<1>4. TraderTables \subseteq Range(traders_ts_creator)
  <2> SUFFICES ASSUME NEW t \in Range(Traders)
               PROVE  TraderTable(t) \in Range(traders_ts_creator)
    BY DEF TraderTables
  <2>1. PICK i \in 1 .. NT : t = Traders[i]
    BY Lists
  <2>2. traders_ts_creator[i] = TraderTable(t)
    BY <2>1 DEF traders_ts_creator
  <2> QED
    BY <1>1, <2>2 DEF Range
<1> QED
  BY <1>2, <1>3, <1>4

\* What main has created when it starts to trade.
LEMMA SetupType ==
  ASSUME TypeOK, NEW s \in Simulators
  PROVE  /\ Setup(s) \in Seq(Names)
         /\ Len(Setup(s)) \in Nat
         /\ QuoteTables \subseteq Range(Setup(s))
         /\ ~cfg[s].fast => TraderTables \subseteq Range(Setup(s))
<1> DEFINE c == create_products_ts
           t == traders_ts_creator
<1>1. c \in Seq(Names) /\ t \in Seq(Names)
  BY ProductTables, TraderTableSeq, SeqMonotonic DEF Names
<1> HIDE DEF c, t
<1>2. /\ c \o t \in Seq(Names)
      /\ Len(c \o t) = NB * NP + NT
      /\ \A i \in 1 .. NB * NP + NT :
           (c \o t)[i] = IF i <= NB * NP THEN c[i] ELSE t[i - NB * NP]
  <2>1. Len(c) = NB * NP /\ Len(t) = NT
    BY ProductTables, TraderTableSeq DEF c, t
  <2>2. /\ c \o t \in Seq(Names)
        /\ Len(c \o t) = Len(c) + Len(t)
        /\ \A i \in 1 .. Len(c) + Len(t) :
             (c \o t)[i] = IF i <= Len(c) THEN c[i] ELSE t[i - Len(c)]
    BY <1>1, ConcatProperties
  <2> QED
    BY <2>1, <2>2, Zenon
<1>3. DOMAIN c = 1 .. NB * NP /\ DOMAIN t = 1 .. NT /\ DOMAIN (c \o t) = 1 .. NB * NP + NT
  <2>1. Len(c) = NB * NP /\ Len(t) = NT
    BY ProductTables, TraderTableSeq DEF c, t
  <2> QED
    BY <1>1, <1>2, <2>1, LenProperties
<1>4. Range(c) \subseteq Range(c \o t)
  BY <1>2, <1>3, Lists DEF Range
<1>5. Range(t) \subseteq Range(c \o t)
  <2> SUFFICES ASSUME NEW j \in 1 .. NT PROVE t[j] \in Range(c \o t)
    BY <1>3 DEF Range
  <2>1. NB * NP + j \in 1 .. NB * NP + NT /\ ~(NB * NP + j <= NB * NP)
    BY Lists
  <2>2. (NB * NP + j) - NB * NP = j
    BY Lists
  <2> QED
    BY <1>2, <1>3, <2>1, <2>2 DEF Range
<1> QED
  BY <1>1, <1>2, <1>4, <1>5, ProductTables, TraderTableSeq, LenProperties DEF Setup, c, t

-----------------------------------------------------------------------------
(***************************************************************************)
(* The inserts that a turn or a batch leaves to make.                      *)
(***************************************************************************)
LEMMA LeastNat ==
  ASSUME NEW T \in SUBSET Nat, T # {}
  PROVE  \E x \in T : \A y \in T : x <= y
<1>1. PICK x \in T : \A y \in T : ~(<<y, x>> \in OpToRel(<, Nat))
  BY NatLessThanWellFounded, WFMin, Zenon
<1>2. ASSUME NEW y \in T PROVE x <= y
  <2>1. ~(<<y, x>> \in OpToRel(<, Nat))
    BY <1>1, Zenon
  <2>2. ~(y < x)
    BY <2>1, Zenon DEF OpToRel
  <2> QED
    BY <2>2
<1> QED
  BY <1>2

\* Whoever chooses, the choice is one of the quotes; and one who does not cheat takes none
\* that is dearer than another.
LEMMA ChooseType ==
  ASSUME NEW quotes, \A b \in 1 .. NB : quotes[b].price \in Nat, NEW trader
  PROVE  /\ choose_quote(trader, quotes) \subseteq 1 .. NB
         /\ trader \notin Cheaters =>
              \A b \in choose_quote(trader, quotes) : \A i \in 1 .. NB : quotes[b].price <= quotes[i].price
<1>1. \E m \in {quotes[b].price : b \in 1 .. NB} :
        \A q \in {quotes[b].price : b \in 1 .. NB} : m <= q
  <2>1. 1 \in 1 .. NB
    BY Lists
  <2>2. quotes[1].price \in {quotes[b].price : b \in 1 .. NB}
    BY <2>1
  <2> QED
    BY <2>2, LeastNat
<1>2. PICK m \in Nat :
        /\ \E b \in 1 .. NB : quotes[b].price = m
        /\ \A b \in 1 .. NB : m <= quotes[b].price
  BY <1>1
<1> DEFINE cheapest == {b \in 1 .. NB : quotes[b].price = m}
<1>3. PICK b \in cheapest : \A c \in cheapest : b <= c
  <2>1. cheapest \in SUBSET Nat /\ cheapest # {}
    BY <1>2, Lists
  <2> HIDE DEF cheapest
  <2> QED
    BY <2>1, LeastNat
<1>4. \A c \in 1 .. NB : \/ quotes[b].price < quotes[c].price
                         \/ quotes[b].price = quotes[c].price /\ b <= c
  BY <1>2, <1>3
<1> DEFINE g == greedy(quotes)
<1>5. /\ g \in 1 .. NB
      /\ \A c \in 1 .. NB : \/ quotes[g].price < quotes[c].price
                            \/ quotes[g].price = quotes[c].price /\ g <= c
  BY <1>3, <1>4 DEF greedy
<1> HIDE DEF g
<1>6. \A i \in 1 .. NB : quotes[g].price <= quotes[i].price
  BY <1>5
<1>7. choose_quote(trader, quotes) = IF trader \in Cheaters THEN {1, g} ELSE {g}
  BY DEF choose_quote, g
<1> QED
  BY <1>5, <1>6, <1>7, Lists

LEMMA RowType ==
  ASSUME NEW s \in Simulators, NEW at \in Nat, NEW p \in Range(Products),
         NEW b \in Range(Brokers), NEW price \in Nat
  PROVE  Row(s, at, p, b, price) \in AnyRow
BY DEF Row, AnyRow

LEMMA ColumnsType == QuoteColumns \in AnyColumns /\ TradeColumns \in AnyColumns
<1>1. IsList(QuoteColumns) /\ IsList(TradeColumns)
  BY SimulatorAssumption
<1>2. QuoteColumns \in Seq(Range(QuoteColumns)) /\ TradeColumns \in Seq(Range(TradeColumns))
  BY <1>1 DEF IsList
<1>3. /\ QuoteColumns \in Seq(Range(QuoteColumns) \cup Range(TradeColumns))
      /\ TradeColumns \in Seq(Range(QuoteColumns) \cup Range(TradeColumns))
  BY <1>2, SeqMonotonic
<1>4. QuoteColumns # <<>> /\ TradeColumns # <<>>
  BY <1>1, EmptySeq DEF IsList
<1> QED
  BY <1>3, <1>4 DEF AnyColumns

LEMMA TurnInserts ==
  ASSUME TypeOK, Destined, NEW s \in Simulators, NEW p \in Range(Products), NEW closes \in Market,
         TraderTurn(s, p, closes)
  PROVE  /\ inserts'[s] \in Seq(AnyInsert(Range(Setup(s))))
         /\ inserts' = [inserts EXCEPT ![s] = inserts'[s]]
<1> DEFINE trader == Traders[(round[s] % NT) + 1]
           quotes == get_quotes(s, p, closes)
           AI == AnyInsert(Range(Setup(s)))
           trade(b) == [table   |-> TraderTable(trader),
                        rows    |-> {Row(s, clock[s] + NB + 1, p, Brokers[b], quotes[b].price)},
                        columns |-> TradeColumns]
           quoted == [i \in 1 .. NB |->
                        [table   |-> QuoteTable(Brokers[i], p),
                         rows    |-> {quotes[i]},
                         columns |-> QuoteColumns]]
<1>1. trader \in Range(Traders)
  <2>1. round[s] \in Nat /\ NT \in Nat \ {0}
    BY Lists DEF TypeOK
  <2>2. (round[s] % NT) + 1 \in 1 .. NT
    BY <2>1
  <2> QED
    BY <2>2, Lists
<1>2. \A i \in 1 .. NB : closes[i] \in Nat
  BY SimulatorAssumption DEF NB
<1>3. \A i \in 1 .. NB : quotes[i] \in AnyRow /\ quotes[i].price = closes[i]
  <2> SUFFICES ASSUME NEW i \in 1 .. NB
               PROVE  quotes[i] \in AnyRow /\ quotes[i].price = closes[i]
    OBVIOUS
  <2>1. quotes[i] = Row(s, clock[s] + i, p, Brokers[i], closes[i])
    BY DEF get_quotes
  <2>2. clock[s] + i \in Nat
    BY Lists DEF TypeOK
  <2> QED
    BY <1>2, <2>1, <2>2, Lists, RowType DEF Row
<1>4. PICK b \in choose_quote(trader, quotes) :
        inserts' = [inserts EXCEPT ![s] = <<trade(b)>> \o quoted]
  BY DEF TraderTurn
<1>5. b \in 1 .. NB
  BY <1>2, <1>3, ChooseType
<1>6. TraderTables \subseteq Range(Setup(s)) /\ QuoteTables \subseteq Range(Setup(s))
  BY SetupType DEF TraderTurn
<1>7. trade(b) \in AI
  <2>1. Row(s, clock[s] + NB + 1, p, Brokers[b], quotes[b].price) \in AnyRow
    <3>1. clock[s] + NB + 1 \in Nat
      BY Lists DEF TypeOK
    <3> QED
      BY <1>2, <1>3, <1>5, <3>1, Lists, RowType
  <2>2. TraderTable(trader) \in Range(Setup(s))
    BY <1>1, <1>6 DEF TraderTables
  <2> QED
    BY <2>1, <2>2, ColumnsType DEF AnyInsert
<1>8. \A i \in 1 .. NB : quoted[i] \in AI
  <2>1. \A i \in 1 .. NB : QuoteTable(Brokers[i], p) \in Range(Setup(s))
    BY <1>6, Lists DEF QuoteTables
  <2> QED
    BY <1>3, <2>1, ColumnsType DEF AnyInsert
<1> HIDE DEF AI
<1>9. quoted \in Seq(AI)
  <2>1. quoted \in [1 .. NB -> AI]
    BY <1>8
  <2> HIDE DEF quoted
  <2> QED
    BY <2>1, Lists, SeqDef
<1> HIDE DEF quoted, trade
<1>10. <<trade(b)>> \o quoted \in Seq(AI)
  <2>1. <<trade(b)>> \in Seq(AI)
    BY <1>7
  <2> QED
    BY <1>9, <2>1, ConcatProperties
<1> QED
  BY <1>4, <1>10 DEF AI, Destined

LEMMA BatchInserts ==
  ASSUME TypeOK, Destined, NEW s \in Simulators,
         NEW closes \in [1 .. MinIterations -> {prices[1] : prices \in Market}],
         FastBatch(s, closes)
  PROVE  /\ inserts'[s] \in Seq(AnyInsert(Range(Setup(s))))
         /\ inserts' = [inserts EXCEPT ![s] = inserts'[s]]
<1> DEFINE rows == {Row(s, clock[s] + i, Products[1], Brokers[1], closes[i]) : i \in 1 .. MinIterations}
           batch == [table |-> FastTable, rows |-> rows, columns |-> QuoteColumns]
<1>1. 1 \in 1 .. NB /\ 1 \in 1 .. NP
  BY Lists
<1>2. \A i \in 1 .. MinIterations : closes[i] \in Nat
  <2>1. \A prices \in Market : prices[1] \in Nat
    BY <1>1, SimulatorAssumption DEF NB
  <2> QED
    BY <2>1
<1>3. rows \subseteq AnyRow
  <2> SUFFICES ASSUME NEW i \in 1 .. MinIterations
               PROVE  Row(s, clock[s] + i, Products[1], Brokers[1], closes[i]) \in AnyRow
    OBVIOUS
  <2>1. clock[s] + i \in Nat
    BY SimulatorAssumption DEF TypeOK
  <2> QED
    BY <1>1, <1>2, <2>1, Lists, RowType
<1>4. FastTable \in Range(Setup(s))
  BY <1>1, SetupType, Lists DEF FastTable, QuoteTables
<1> HIDE DEF rows
<1>5. batch \in AnyInsert(Range(Setup(s)))
  BY <1>3, <1>4, ColumnsType DEF AnyInsert
<1>6. inserts' = [inserts EXCEPT ![s] = <<batch>>]
  BY DEF FastBatch, rows
<1> HIDE DEF batch
<1>7. <<batch>> \in Seq(AnyInsert(Range(Setup(s))))
  BY <1>5
<1> QED
  BY <1>6, <1>7 DEF Destined

\* What is left after a column is inserted.
LEMMA LessInserts ==
  ASSUME NEW names, NEW s \in Simulators, inserts[s] \in Seq(AnyInsert(names)), inserts[s] # <<>>
  PROVE  OneColumnLess(s) \in Seq(AnyInsert(names))
<1> DEFINE AI == AnyInsert(names)
           todo == inserts[s]
<1>1. Insert(s) \in AI /\ Tail(todo) \in Seq(AI) /\ Insert(s) = todo[1] /\ 1 \in 1 .. Len(todo)
  BY HeadTailProperties, EmptySeq, LenProperties DEF Insert
<1>2. CASE Len(Insert(s).columns) = 1
  BY <1>1, <1>2 DEF OneColumnLess
<1>3. CASE Len(Insert(s).columns) # 1
  <2> DEFINE first == todo[1]
             cut == [first EXCEPT !.columns = Tail(first.columns)]
  <2>1. first.columns \in AnyColumns
    BY <1>1 DEF AnyInsert
  <2>2. Tail(first.columns) \in AnyColumns
    <3> DEFINE C == Range(QuoteColumns) \cup Range(TradeColumns)
    <3>1. first.columns \in Seq(C) /\ first.columns # <<>>
      BY <2>1 DEF AnyColumns
    <3> HIDE DEF C, first
    <3>2. Tail(first.columns) \in Seq(C) /\ Len(Tail(first.columns)) = Len(first.columns) - 1
      BY <3>1, HeadTailProperties
    <3>3. Len(first.columns) \in Nat \ {0, 1}
      BY <1>1, <1>3, <3>1, EmptySeq DEF first
    <3>4. Len(Tail(first.columns)) # 0
      BY <3>2, <3>3
    <3>5. Tail(first.columns) # <<>>
      BY <3>4, EmptySeq
    <3> QED
      BY <3>2, <3>5 DEF AnyColumns, C
  <2>3. cut \in AI
    BY <1>1, <2>2 DEF AnyInsert
  <2>4. OneColumnLess(s) = [todo EXCEPT ![1] = cut]
    BY <1>1, <1>3 DEF OneColumnLess
  <2> HIDE DEF cut, AI
  <2> QED
    BY <1>1, <2>3, <2>4, ExceptSeq DEF AI
<1> QED
  BY <1>2, <1>3

-----------------------------------------------------------------------------
(***************************************************************************)
(* Tables, and what a step leaves alone.                                   *)
(***************************************************************************)
LEMMA TableUpdate ==
  ASSUME TypeOK, NEW name \in Names, NEW new \in AnyTable,
         tables' = [tables EXCEPT ![name] = new]
  PROVE  /\ tables' \in [Names -> AnyTable \cup {NoTable}]
         /\ tables'[name] # NoTable
         /\ \A n \in Names : Exists(n) => Exists(n)'
         /\ \A n \in Names \ {name} : Exists(n)' <=> Exists(n)
<1>1. NoTable \notin AnyTable
  BY SimulatorAssumption
<1>2. tables \in [Names -> AnyTable \cup {NoTable}]
  BY DEF TypeOK
<1> QED
  BY <1>1, <1>2 DEF Exists

LEMMA EmptyTableType ==
  ASSUME NEW s \in Simulators, NEW name PROVE EmptyTable(s, name) \in AnyTable
BY DEF EmptyTable, AnyTable, TableWith, ColumnsOf

LEMMA TagType ==
  ASSUME NEW t \in AnyTable PROVE [t EXCEPT !.tagged = TRUE] \in AnyTable
BY DEF AnyTable, TableWith

LEMMA ColumnType ==
  ASSUME NEW t \in AnyTable, NEW c, NEW rows \in SUBSET AnyRow
  PROVE  [t EXCEPT !.columns = [t.columns EXCEPT ![c] = t.columns[c] \cup rows]] \in AnyTable
<1>1. ASSUME NEW columns, t \in TableWith(columns)
      PROVE  [t EXCEPT !.columns = [t.columns EXCEPT ![c] = t.columns[c] \cup rows]]
               \in TableWith(columns)
  <2>1. t.columns \in [Range(columns) -> SUBSET AnyRow]
    BY <1>1 DEF TableWith
  <2>2. [t.columns EXCEPT ![c] = t.columns[c] \cup rows] \in [Range(columns) -> SUBSET AnyRow]
    BY <2>1
  <2> QED
    BY <1>1, <2>2 DEF TableWith
<1> QED
  BY <1>1 DEF AnyTable

LEMMA SameSetup ==
  ASSUME cfg' = cfg, NEW x PROVE Setup(x)' = Setup(x)
BY DEF Setup

LEMMA NameOf ==
  ASSUME TypeOK, NEW s \in Simulators, NEW k \in 1 .. Len(Setup(s))
  PROVE  Setup(s)[k] \in Names
BY SetupType, ElementOfSeq

LEMMA DestinedQuiet ==
  ASSUME Destined, cfg' = cfg, inserts' = inserts PROVE Destined'
BY SameSetup DEF Destined

\* Nobody goes to a table or leaves one, and no table disappears.
LEMMA KeptQuiet ==
  ASSUME TypeOK, Kept, cfg' = cfg, step' = step,
         \A x \in Simulators : /\ pc[x] = "create" => pc'[x] = "create"
                               /\ pc'[x] = "tag" => pc[x] = "tag",
         \A n \in Names : Exists(n) => Exists(n)'
  PROVE  Kept'
<1> SUFFICES ASSUME NEW x \in Simulators, NEW k \in Passed(x)'
             PROVE  Exists(Setup(x)[k])' \/ Making(Setup(x)[k])'
  BY SameSetup DEF Kept
<1>1. k \in Passed(x) /\ k \in 1 .. Len(Setup(x))
  BY SameSetup DEF Passed
<1>2. Setup(x)[k] \in Names
  BY <1>1, NameOf
<1>3. Setup(x)' = Setup(x)
  BY SameSetup
<1>4. CASE Exists(Setup(x)[k])
  BY <1>2, <1>3, <1>4 DEF Exists
<1>5. CASE Making(Setup(x)[k])
  <2>1. PICK y \in Simulators : pc[y] = "create" /\ Setup(y)[step[y]] = Setup(x)[k]
    BY <1>5 DEF Making
  <2>2. Setup(y)' = Setup(y)
    BY SameSetup
  <2> QED
    BY <1>3, <2>1, <2>2 DEF Making
<1> QED
  BY <1>1, <1>4, <1>5 DEF Kept

-----------------------------------------------------------------------------
(***************************************************************************)
(* One lemma for each action.                                              *)
(***************************************************************************)
LEMMA InitInv == Init => Inv
<1> SUFFICES ASSUME Init PROVE Inv
  OBVIOUS
<1>1. TypeOK
  BY DEF Init, TypeOK, Labels, NoConfig
<1>2. Placed
  BY DEF Init, Placed
<1>3. Destined
  BY EmptySeq DEF Init, Destined
<1>4. Kept
  BY DEF Init, Kept, Passed
<1>5. Survivor
  BY DEF Init, Survivor, Safe
<1> QED
  BY <1>1, <1>2, <1>3, <1>4, <1>5 DEF Inv

LEMMA StartStep ==
  ASSUME Inv, NEW s \in Simulators, NEW c \in Configs[s], Start(s, c) PROVE Inv'
<1> USE DEF Inv
<1>1. /\ pc[s] = "idle" /\ pc' = [pc EXCEPT ![s] = "entries"]
      /\ cfg' = [cfg EXCEPT ![s] = c]
      /\ UNCHANGED <<tables, broken, step, round, clock, inserts>>
  BY DEF Start, GoTo, db
<1>2. TypeOK'
  <2>1. c \in [fast : BOOLEAN, iterations : Nat]
    BY SimulatorAssumption
  <2> QED
    BY <1>1, <2>1 DEF TypeOK, Labels
<1>3. \A x \in Simulators \ {s} : Setup(x)' = Setup(x) /\ pc'[x] = pc[x]
  BY <1>1 DEF Setup, TypeOK
<1>4. step[s] = 1 /\ inserts[s] = <<>> /\ pc'[s] = "entries"
  BY <1>1 DEF Placed, TypeOK
<1>5. Placed'
  BY <1>1, <1>3, <1>4 DEF Placed
<1>6. Destined'
  BY <1>1, <1>3, <1>4, EmptySeq DEF Destined
<1>7. Kept => Kept'
  <2> SUFFICES ASSUME Kept, NEW x \in Simulators, NEW k \in Passed(x)'
               PROVE  Exists(Setup(x)[k])' \/ Making(Setup(x)[k])'
    BY DEF Kept
  <2>1. x # s
    BY <1>1, <1>4 DEF Passed
  <2>2. k \in Passed(x) /\ Setup(x)' = Setup(x)
    BY <1>1, <1>3, <2>1 DEF Passed
  <2>3. Making(Setup(x)[k]) => Making(Setup(x)[k])'
    BY <1>1, <1>3, <2>2 DEF Making
  <2> QED
    BY <1>1, <2>2, <2>3 DEF Kept, Exists
<1>8. Survivor'
  BY <1>4 DEF Survivor, Safe
<1> QED
  BY <1>1, <1>2, <1>5, <1>6, <1>7, <1>8

\* The steps in which a simulator that works goes on, and touches no table.
LEMMA LocalStep ==
  ASSUME Inv, NEW s \in Simulators,
         \/ CreateEntries(s)
         \/ \E p \in Range(Products), closes \in Market : TraderTurn(s, p, closes)
         \/ \E closes \in [1 .. MinIterations -> {prices[1] : prices \in Market}] :
              FastBatch(s, closes)
         \/ Finish(s)
  PROVE  Inv'
<1> USE DEF Inv
<1>1. /\ UNCHANGED <<tables, broken, cfg, step>>
      /\ pc' = [pc EXCEPT ![s] = pc'[s]]
      /\ pc[s] \in {"entries", "run"} /\ pc'[s] \in {"run", "done"}
  BY DEF CreateEntries, TraderTurn, FastBatch, Finish, GoTo, db, locals, Ready, TypeOK
<1> DEFINE Queued ==
             /\ inserts' = [inserts EXCEPT ![s] = inserts'[s]]
             /\ inserts'[s] \in Seq(AnyInsert(Range(Setup(s))))
             /\ inserts'[s] # inserts[s] => step[s] > Len(Setup(s))
             /\ round' \in [Simulators -> Nat] /\ clock' \in [Simulators -> Nat]
<1>2. Queued
  <2>1. ASSUME NEW p \in Range(Products), NEW closes \in Market, TraderTurn(s, p, closes)
        PROVE  Queued
    <3>1. round' \in [Simulators -> Nat] /\ clock' \in [Simulators -> Nat]
      <4>1. /\ round' = [round EXCEPT ![s] = @ + 1]
            /\ clock' = [clock EXCEPT ![s] = @ + NB + 1]
        BY <2>1 DEF TraderTurn
      <4>2. /\ round \in [Simulators -> Nat] /\ clock \in [Simulators -> Nat]
            /\ round[s] + 1 \in Nat /\ clock[s] + NB + 1 \in Nat
        BY Lists DEF TypeOK
      <4> QED
        BY <4>1, <4>2
    <3>2. step[s] > Len(Setup(s))
      BY <2>1 DEF TraderTurn, Ready
    <3> QED
      BY <2>1, <3>1, <3>2, TurnInserts
  <2>2. ASSUME NEW closes \in [1 .. MinIterations -> {prices[1] : prices \in Market}],
               FastBatch(s, closes)
        PROVE  Queued
    <3>1. round' \in [Simulators -> Nat] /\ clock' \in [Simulators -> Nat]
      BY <2>2, SimulatorAssumption DEF FastBatch, next_start, TypeOK
    <3>2. step[s] > Len(Setup(s))
      BY <2>2 DEF FastBatch, Ready
    <3> QED
      BY <2>2, <3>1, <3>2, BatchInserts
  <2>3. CASE CreateEntries(s) \/ Finish(s)
    <3>1. UNCHANGED <<inserts, round, clock>>
      BY <2>3 DEF CreateEntries, Finish, locals
    <3> QED
      BY <3>1 DEF Destined, TypeOK
  <2> QED
    BY <2>1, <2>2, <2>3
<1>3. TypeOK'
  BY <1>1, <1>2 DEF TypeOK, Labels
<1>4. \A x \in Simulators : Setup(x)' = Setup(x)
  BY <1>1, SameSetup
<1>5. \A x \in Simulators \ {s} : pc'[x] = pc[x] /\ inserts'[x] = inserts[x]
  BY <1>1, <1>2 DEF TypeOK, Destined
<1>6. Placed'
  <2> SUFFICES ASSUME NEW x \in Simulators
               PROVE  /\ pc'[x] \in {"idle", "entries"} => step'[x] = 1 /\ inserts'[x] = <<>>
                      /\ pc'[x] \in {"create", "tag"} => step'[x] <= Len(Setup(x)')
                      /\ inserts'[x] # <<>> => step'[x] > Len(Setup(x)')
    BY DEF Placed
  <2>1. CASE x = s
    BY <1>1, <1>2, <1>4, <2>1 DEF Placed
  <2>2. CASE x # s
    BY <1>1, <1>4, <1>5, <2>2 DEF Placed
  <2> QED
    BY <2>1, <2>2
<1>7. Destined'
  BY <1>2, <1>4, <1>5 DEF Destined
<1>8. Kept => Kept'
  <2>1. \A x \in Simulators : /\ pc[x] = "create" => pc'[x] = "create"
                              /\ pc'[x] = "tag" => pc[x] = "tag"
    BY <1>1, <1>5
  <2>2. \A n \in Names : Exists(n) => Exists(n)'
    BY <1>1 DEF Exists
  <2> QED
    BY <1>1, <2>1, <2>2, KeptQuiet
<1>9. Survivor'
  BY <1>1 DEF Survivor, Safe
<1> QED
  BY <1>1, <1>3, <1>6, <1>7, <1>8, <1>9

\* The table is gone, and its remover is about to create it.
LEMMA RemoveStep ==
  ASSUME Inv, NEW s \in Simulators, RemoveTable(s) PROVE Inv'
<1> USE DEF Inv
<1> DEFINE name == Setup(s)[step[s]]
<1>1. /\ pc[s] = "run" /\ step[s] <= Len(Setup(s))
      /\ tables' = [tables EXCEPT ![name] = NoTable]
      /\ pc' = [pc EXCEPT ![s] = "create"]
      /\ UNCHANGED <<broken, cfg, step, round, clock, inserts>>
  BY DEF RemoveTable, GoTo, locals
<1>2. name \in Names
  <2>1. step[s] \in 1 .. Len(Setup(s))
    BY <1>1, SetupType DEF TypeOK
  <2> QED
    BY <2>1, NameOf
<1> HIDE DEF name
<1>3. TypeOK'
  BY <1>1, <1>2 DEF TypeOK, Labels
<1>4. \A x \in Simulators : Setup(x)' = Setup(x)
  BY <1>1, SameSetup
<1>5. pc'[s] = "create" /\ \A x \in Simulators \ {s} : pc'[x] = pc[x]
  BY <1>1 DEF TypeOK
<1>6. Placed'
  BY <1>1, <1>4, <1>5 DEF Placed
<1>7. Destined'
  BY <1>1, DestinedQuiet
<1>8. /\ tables'[name] = NoTable
      /\ \A n \in Names \ {name} : Exists(n)' <=> Exists(n)
  BY <1>1, <1>2 DEF Exists, TypeOK
<1>9. \E y \in Simulators : pc'[y] = "create" /\ Setup(y)'[step'[y]] = name
  BY <1>1, <1>4, <1>5 DEF name
<1>10. Kept => Kept'
  <2> SUFFICES ASSUME Kept, NEW x \in Simulators, NEW k \in Passed(x)'
               PROVE  Exists(Setup(x)[k])' \/ Making(Setup(x)[k])'
    BY DEF Kept
  <2>1. k \in Passed(x) /\ k \in 1 .. Len(Setup(x)) /\ Setup(x)' = Setup(x)
    BY <1>1, <1>4, <1>5 DEF Passed
  <2>2. Setup(x)[k] \in Names
    BY <2>1, NameOf
  <2>3. CASE Setup(x)[k] = name
    BY <1>9, <2>1, <2>3 DEF Making
  <2>4. CASE Setup(x)[k] # name /\ Exists(Setup(x)[k])
    BY <1>8, <2>1, <2>2, <2>4 DEF Exists
  <2>5. CASE Making(Setup(x)[k])
    <3>1. PICK y \in Simulators : pc[y] = "create" /\ Setup(y)[step[y]] = Setup(x)[k]
      BY <2>5 DEF Making
    <3>2. y # s
      BY <1>1, <3>1
    <3> QED
      BY <1>1, <1>4, <1>5, <2>1, <3>1, <3>2 DEF Making
  <2> QED
    BY <2>1, <2>3, <2>4, <2>5 DEF Kept
<1>11. Survivor'
  <2>1. Setup(s)'[step'[s]] = name
    BY <1>1, <1>4 DEF name
  <2>2. Safe(s)'
    BY <1>5, <1>8, <2>1 DEF Safe, Exists
  <2> QED
    BY <2>2 DEF Survivor
<1> QED
  BY <1>1, <1>3, <1>6, <1>7, <1>10, <1>11

\* The table is there, or was: only its creator waits no longer.
LEMMA CreateStep ==
  ASSUME Inv, NEW s \in Simulators, CreateTable(s) PROVE Inv'
<1> USE DEF Inv
<1> DEFINE name == Setup(s)[step[s]]
<1>1. /\ pc[s] = "create"
      /\ \/ /\ ~Exists(name)
            /\ tables' = [tables EXCEPT ![name] = EmptyTable(s, name)]
            /\ pc' = [pc EXCEPT ![s] = "tag"]
         \/ /\ Exists(name)
            /\ tables' = tables
            /\ pc' = [pc EXCEPT ![s] = "failed"]
      /\ UNCHANGED <<broken, cfg, step, round, clock, inserts>>
  BY DEF CreateTable, GoTo, locals, Exists
<1>2. step[s] \in 1 .. Len(Setup(s)) /\ name \in Names
  <2>1. step[s] \in 1 .. Len(Setup(s))
    BY <1>1, SetupType DEF TypeOK, Placed
  <2> QED
    BY <2>1, NameOf
<1> HIDE DEF name
<1>3. /\ tables'[name] # NoTable
      /\ \A n \in Names : Exists(n) => Exists(n)'
      /\ tables' \in [Names -> AnyTable \cup {NoTable}]
  <2>1. CASE tables' = tables /\ Exists(name)
    BY <2>1 DEF Exists, TypeOK
  <2>2. CASE tables' = [tables EXCEPT ![name] = EmptyTable(s, name)]
    <3>1. EmptyTable(s, name) \in AnyTable
      BY EmptyTableType
    <3> QED
      BY <1>2, <2>2, <3>1, TableUpdate DEF Exists
  <2> QED
    BY <1>1, <2>1, <2>2
<1>4. \A x \in Simulators : Setup(x)' = Setup(x)
  BY <1>1, SameSetup
<1>5. pc'[s] \in {"tag", "failed"} /\ \A x \in Simulators \ {s} : pc'[x] = pc[x]
  BY <1>1 DEF TypeOK
<1>6. TypeOK'
  BY <1>1, <1>3 DEF TypeOK, Labels
<1>7. Placed'
  <2>1. step[s] <= Len(Setup(s))
    BY <1>1 DEF Placed
  <2> QED
    BY <1>1, <1>4, <1>5, <2>1 DEF Placed
<1>8. Destined'
  BY <1>1, DestinedQuiet
<1>9. Kept => Kept'
  <2> SUFFICES ASSUME Kept, NEW x \in Simulators, NEW k \in Passed(x)'
               PROVE  Exists(Setup(x)[k])' \/ Making(Setup(x)[k])'
    BY DEF Kept
  <2>1. k \in 1 .. Len(Setup(x)) /\ Setup(x)' = Setup(x) /\ step' = step
    BY <1>1, <1>4 DEF Passed
  <2>2. Setup(x)[k] \in Names
    BY <2>1, NameOf
  <2>3. CASE Setup(x)[k] = name
    BY <1>3, <2>1, <2>3 DEF Exists
  <2>4. CASE Setup(x)[k] # name
    <3>1. k \in Passed(x)
      <4>1. CASE x = s
        BY <2>1, <2>4, <4>1 DEF Passed, name
      <4>2. CASE x # s
        BY <1>5, <2>1, <4>2 DEF Passed
      <4> QED
        BY <4>1, <4>2
    <3>2. CASE Exists(Setup(x)[k])
      BY <1>3, <2>1, <2>2, <3>2 DEF Exists
    <3>3. CASE Making(Setup(x)[k])
      <4>1. PICK y \in Simulators : pc[y] = "create" /\ Setup(y)[step[y]] = Setup(x)[k]
        BY <3>3 DEF Making
      <4>2. y # s
        BY <2>4, <4>1 DEF name
      <4> QED
        BY <1>1, <1>4, <1>5, <2>1, <4>1, <4>2 DEF Making
    <3> QED
      BY <3>1, <3>2, <3>3 DEF Kept
  <2> QED
    BY <2>3, <2>4
<1>10. Survivor => Survivor'
  <2>1. CASE pc'[s] = "tag"
    BY <2>1 DEF Survivor, Safe
  <2>2. CASE pc'[s] = "failed"
    <3> SUFFICES ASSUME Survivor PROVE \E z \in Simulators : Safe(z)'
      BY DEF Survivor
    <3>1. Exists(name) /\ tables' = tables
      BY <1>1, <2>2 DEF TypeOK
    <3>2. PICK z \in Simulators : Safe(z)
      BY DEF Survivor
    <3>3. z # s
      BY <1>1, <3>1, <3>2 DEF Safe, name
    <3>4. Safe(z)'
      BY <1>1, <1>4, <1>5, <3>1, <3>2, <3>3 DEF Safe, Exists
    <3> QED
      BY <3>4
  <2> QED
    BY <1>5, <2>1, <2>2
<1> QED
  BY <1>1, <1>6, <1>7, <1>8, <1>9, <1>10

\* The tag is set, or the table is gone and it does not matter.
LEMMA TagStep ==
  ASSUME Inv, NEW s \in Simulators, TagTable(s), pc'[s] # "failed" PROVE Inv'
<1> USE DEF Inv
<1> DEFINE name == Setup(s)[step[s]]
<1>1. /\ pc[s] = "tag"
      /\ \/ tables' = tables
         \/ /\ Exists(name)
            /\ tables' = [tables EXCEPT ![name] = [tables[name] EXCEPT !.tagged = TRUE]]
      /\ pc' = [pc EXCEPT ![s] = "run"]
      /\ step' = [step EXCEPT ![s] = @ + 1]
      /\ UNCHANGED <<broken, cfg, round, clock, inserts>>
  BY DEF TagTable, GoTo, Exists, TypeOK
<1>2. step[s] \in 1 .. Len(Setup(s)) /\ name \in Names
  <2>1. step[s] \in 1 .. Len(Setup(s))
    BY <1>1, SetupType DEF TypeOK, Placed
  <2> QED
    BY <2>1, NameOf
<1> HIDE DEF name
<1>3. /\ \A n \in Names : Exists(n) => Exists(n)'
      /\ tables' \in [Names -> AnyTable \cup {NoTable}]
  <2>1. CASE tables' = tables
    BY <2>1 DEF Exists, TypeOK
  <2>2. CASE Exists(name) /\ tables' = [tables EXCEPT ![name] = [tables[name] EXCEPT !.tagged = TRUE]]
    <3>1. tables[name] \in AnyTable
      BY <1>2, <2>2 DEF Exists, TypeOK
    <3> QED
      BY <1>2, <2>2, <3>1, TagType, TableUpdate
  <2> QED
    BY <1>1, <2>1, <2>2
<1>4. \A x \in Simulators : Setup(x)' = Setup(x)
  BY <1>1, SameSetup
<1>5. /\ pc'[s] = "run" /\ step'[s] = step[s] + 1
      /\ \A x \in Simulators \ {s} : pc'[x] = pc[x] /\ step'[x] = step[x]
  BY <1>1 DEF TypeOK
<1>6. TypeOK'
  BY <1>1, <1>3 DEF TypeOK, Labels
<1>7. Placed'
  <2>1. inserts[s] = <<>>
    BY <1>1, <1>2, SetupType DEF Placed, TypeOK
  <2> QED
    BY <1>1, <1>4, <1>5, <2>1 DEF Placed
<1>8. Destined'
  BY <1>1, DestinedQuiet
<1>9. Kept => Kept'
  <2> SUFFICES ASSUME Kept, NEW x \in Simulators, NEW k \in Passed(x)'
               PROVE  Exists(Setup(x)[k])' \/ Making(Setup(x)[k])'
    BY DEF Kept
  <2>1. k \in 1 .. Len(Setup(x)) /\ Setup(x)' = Setup(x)
    BY <1>4 DEF Passed
  <2>2. k \in Passed(x)
    <3>1. CASE x = s
      <4>1. k < step[s] + 1 /\ step[s] \in Nat /\ k \in Nat
        BY <1>5, <2>1, <3>1 DEF Passed, TypeOK
      <4>2. k < step[s] \/ k = step[s]
        BY <4>1
      <4> QED
        BY <1>1, <2>1, <3>1, <4>2 DEF Passed
    <3>2. CASE x # s
      BY <1>5, <2>1, <3>2 DEF Passed
    <3> QED
      BY <3>1, <3>2
  <2>3. Setup(x)[k] \in Names
    BY <2>1, NameOf
  <2>4. CASE Exists(Setup(x)[k])
    BY <1>3, <2>1, <2>3, <2>4 DEF Exists
  <2>5. CASE Making(Setup(x)[k])
    <3>1. PICK y \in Simulators : pc[y] = "create" /\ Setup(y)[step[y]] = Setup(x)[k]
      BY <2>5 DEF Making
    <3>2. y # s
      BY <1>1, <3>1
    <3> QED
      BY <1>4, <1>5, <2>1, <3>1, <3>2 DEF Making
  <2> QED
    BY <2>2, <2>4, <2>5 DEF Kept
<1>10. Survivor'
  BY <1>5 DEF Survivor, Safe
<1> QED
  BY <1>1, <1>6, <1>7, <1>8, <1>9, <1>10

\* The tag is not set, because the table is gone: whoever removed it is about to create it.
LEMMA NoTagStep ==
  ASSUME Inv, NEW s \in Simulators, TagTable(s), pc'[s] = "failed" PROVE Inv'
<1> USE DEF Inv
<1> DEFINE name == Setup(s)[step[s]]
<1>1. /\ pc[s] = "tag" /\ ~Exists(name)
      /\ pc' = [pc EXCEPT ![s] = "failed"]
      /\ UNCHANGED <<tables, step, broken, cfg, round, clock, inserts>>
  BY DEF TagTable, GoTo, Exists, TypeOK
<1>2. step[s] \in 1 .. Len(Setup(s))
  BY <1>1, SetupType DEF TypeOK, Placed
<1> HIDE DEF name
<1>3. \A x \in Simulators : Setup(x)' = Setup(x)
  BY <1>1, SameSetup
<1>4. \A x \in Simulators \ {s} : pc'[x] = pc[x]
  BY <1>1 DEF TypeOK
<1>5. TypeOK'
  BY <1>1 DEF TypeOK, Labels
<1>6. Placed'
  BY <1>1, <1>3, <1>4 DEF Placed
<1>7. Destined'
  BY <1>1, DestinedQuiet
<1>8. Kept => Kept'
  <2>1. \A x \in Simulators : /\ pc[x] = "create" => pc'[x] = "create"
                              /\ pc'[x] = "tag" => pc[x] = "tag"
    BY <1>1, <1>4
  <2>2. \A n \in Names : Exists(n) => Exists(n)'
    BY <1>1 DEF Exists
  <2> QED
    BY <1>1, <2>1, <2>2, KeptQuiet
<1>9. Kept => Survivor'
  <2> SUFFICES ASSUME Kept PROVE \E z \in Simulators : Safe(z)'
    BY DEF Survivor
  <2>1. step[s] \in Passed(s)
    BY <1>1, <1>2 DEF Passed
  <2>2. PICK y \in Simulators : pc[y] = "create" /\ Setup(y)[step[y]] = name
    BY <1>1, <2>1 DEF Kept, Making, name
  <2>3. y # s
    BY <1>1, <2>2
  <2>4. Safe(y)'
    BY <1>1, <1>3, <1>4, <2>2, <2>3 DEF Safe, Exists
  <2> QED
    BY <2>4
<1> QED
  BY <1>1, <1>5, <1>6, <1>7, <1>8, <1>9

\* An insert fails on a table that is gone; then whoever removed it is about to create
\* it, and will not fail.
LEMMA InsertStep ==
  ASSUME Inv, NEW s \in Simulators, InsertColumn(s) PROVE Inv'
<1> USE DEF Inv
<1> DEFINE name == Insert(s).table
           c == Head(Insert(s).columns)
<1>1. /\ pc[s] = "run" /\ inserts[s] # <<>>
      /\ \/ /\ ~Exists(name) /\ UNCHANGED <<tables, inserts>>
            /\ pc' = [pc EXCEPT ![s] = "failed"]
         \/ /\ Exists(name) /\ UNCHANGED pc
            /\ tables' = [tables EXCEPT ![name] =
                 [tables[name] EXCEPT !.columns =
                    [tables[name].columns EXCEPT ![c] = tables[name].columns[c] \cup Insert(s).rows]]]
            /\ inserts' = [inserts EXCEPT ![s] = OneColumnLess(s)]
      /\ UNCHANGED <<broken, cfg, step, round, clock>>
  BY DEF InsertColumn, GoTo, Exists
<1>2. Insert(s) \in AnyInsert(Range(Setup(s)))
  BY <1>1, HeadTailProperties DEF Insert, Destined
<1>3. name \in Range(Setup(s)) /\ Insert(s).rows \in SUBSET AnyRow
  BY <1>2 DEF AnyInsert
<1>4. PICK k \in 1 .. Len(Setup(s)) : name = Setup(s)[k]
  BY <1>3, SetupType, LenProperties DEF Range
<1>5. name \in Names
  BY <1>4, NameOf
<1>6. step[s] > Len(Setup(s))
  BY <1>1 DEF Placed
<1> HIDE DEF name, c
<1>7. /\ \A n \in Names : Exists(n) => Exists(n)'
      /\ tables' \in [Names -> AnyTable \cup {NoTable}]
  <2>1. CASE tables' = tables
    BY <2>1 DEF Exists, TypeOK
  <2>2. CASE tables' # tables
    <3>1. tables[name] \in AnyTable
      BY <1>1, <1>5, <2>2 DEF Exists, TypeOK
    <3> QED
      BY <1>1, <1>3, <1>5, <2>2, <3>1, ColumnType, TableUpdate
  <2> QED
    BY <2>1, <2>2
<1>8. \A x \in Simulators : Setup(x)' = Setup(x)
  BY <1>1, SameSetup
<1>9. /\ pc'[s] \in {"run", "failed"}
      /\ \A x \in Simulators \ {s} : pc'[x] = pc[x] /\ inserts'[x] = inserts[x]
  BY <1>1 DEF TypeOK, Destined
<1>10. TypeOK'
  BY <1>1, <1>7, <1>9 DEF TypeOK, Labels
<1>11. Placed'
  BY <1>1, <1>6, <1>8, <1>9 DEF Placed
<1>12. Destined'
  <2>1. OneColumnLess(s) \in Seq(AnyInsert(Range(Setup(s))))
    BY <1>1, LessInserts DEF Destined
  <2>2. inserts'[s] \in {inserts[s], OneColumnLess(s)}
    BY <1>1 DEF Destined
  <2>3. inserts' = [x \in Simulators |-> inserts'[x]]
    BY <1>1 DEF Destined
  <2> QED
    BY <1>8, <1>9, <2>1, <2>2, <2>3 DEF Destined
<1>13. Kept => Kept'
  <2>1. \A x \in Simulators : /\ pc[x] = "create" => pc'[x] = "create"
                              /\ pc'[x] = "tag" => pc[x] = "tag"
    BY <1>1, <1>9
  <2> QED
    BY <1>1, <1>7, <2>1, KeptQuiet
<1>14. Kept => Survivor'
  <2>1. CASE pc'[s] = "run"
    BY <2>1 DEF Survivor, Safe
  <2>2. CASE pc'[s] = "failed"
    <3> SUFFICES ASSUME Kept PROVE \E z \in Simulators : Safe(z)'
      BY DEF Survivor
    <3>1. ~Exists(name) /\ tables' = tables
      BY <1>1, <2>2
    <3>2. k \in Passed(s)
      BY <1>6, SetupType DEF Passed, TypeOK
    <3>3. PICK y \in Simulators : pc[y] = "create" /\ Setup(y)[step[y]] = name
      BY <1>4, <3>1, <3>2 DEF Kept, Making
    <3>4. y # s
      BY <1>1, <3>3
    <3>5. Safe(y)'
      BY <1>1, <1>8, <1>9, <3>1, <3>3, <3>4 DEF Safe, Exists
    <3> QED
      BY <3>5
  <2> QED
    BY <1>9, <2>1, <2>2
<1> QED
  BY <1>1, <1>10, <1>11, <1>12, <1>13, <1>14

\* The database fails: nothing more is claimed of the survivors.
LEMMA FailStep ==
  ASSUME Inv, NEW s \in Simulators, Fail(s) PROVE Inv'
<1> USE DEF Inv
<1>1. /\ pc[s] # "idle" /\ pc' = [pc EXCEPT ![s] = "failed"]
      /\ broken' = broken + 1
      /\ UNCHANGED <<tables, cfg, step, round, clock, inserts>>
  BY DEF Fail, GoTo, locals
<1>2. TypeOK' /\ broken' # 0
  BY <1>1 DEF TypeOK, Labels
<1>3. \A x \in Simulators : Setup(x)' = Setup(x)
  BY <1>1, SameSetup
<1>4. pc'[s] = "failed" /\ \A x \in Simulators \ {s} : pc'[x] = pc[x]
  BY <1>1 DEF TypeOK
<1>5. Placed'
  BY <1>1, <1>3, <1>4 DEF Placed
<1>6. Destined'
  BY <1>1, DestinedQuiet
<1> QED
  BY <1>2, <1>5, <1>6

LEMMA StutterStep == Inv /\ UNCHANGED vars => Inv'
<1> SUFFICES ASSUME Inv, UNCHANGED vars PROVE Inv'
  OBVIOUS
<1> USE DEF Inv
<1>1. UNCHANGED <<tables, broken, pc, cfg, step, round, clock, inserts>>
  BY DEF vars, db, locals
<1>2. \A x \in Simulators : Setup(x)' = Setup(x)
  BY <1>1, SameSetup
<1>3. TypeOK' /\ Placed'
  BY <1>1, <1>2 DEF TypeOK, Placed
<1>4. Destined'
  BY <1>1, DestinedQuiet
<1>5. Kept => Kept'
  BY <1>1, KeptQuiet DEF Exists
<1>6. Survivor => Survivor'
  BY <1>1, <1>2 DEF Survivor, Safe, Exists
<1> QED
  BY <1>1, <1>3, <1>4, <1>5, <1>6

LEMMA InvStep == Inv /\ [Next]_vars => Inv'
<1> SUFFICES ASSUME Inv, Next PROVE Inv'
  BY StutterStep
<1>1. PICK s \in Simulators : (\E c \in Configs[s] : Start(s, c)) \/ Advance(s) \/ Fail(s)
  BY DEF Next
<1>2. CASE Advance(s)
  BY <1>2, LocalStep, RemoveStep, CreateStep, TagStep, NoTagStep, InsertStep DEF Advance
<1> QED
  BY <1>1, <1>2, StartStep, FailStep

\* Simulators that remove, create and write to each other's tables do not all fail,
\* whatever their number and their command lines: a table that one of them misses is one
\* that another has removed and is about to create.
THEOREM SimulatorsSurvive == Spec => []SomeSimulatorSurvives
<1>1. Inv => SomeSimulatorSurvives
  BY DEF Inv, Survivor, Safe, SomeSimulatorSurvives
<1> QED
  BY <1>1, InitInv, InvStep, PTL DEF Spec

-----------------------------------------------------------------------------
(***************************************************************************)
(* Rows that are torn.  One table and one simulator's rows in it, whose    *)
(* insert has come to the column k.                                        *)
(***************************************************************************)
\* The rows of a table t with the columns C that have some column, and every column.
AllOf(t, C)   == {r \in AnyRow : \E j \in 1 .. Len(C) : r \in t.columns[C[j]]}
WholeOf(t, C) == {r \in AnyRow : \A j \in 1 .. Len(C) : r \in t.columns[C[j]]}
By(s, t, C)   == {r \in AllOf(t, C) : r.by = s}

\* The rows of the insert that has begun, and the column that is next in it, if it is one
\* of this table.
HandIn(todo, name) == IF todo # <<>> /\ todo[1].table = name THEN todo[1].rows ELSE {}

HandAt(todo, name) ==
  IF todo # <<>> /\ todo[1].table = name
  THEN Len(ColumnsOf(name)) - Len(todo[1].columns) + 1
  ELSE 1

Bound(s) == IF cfg[s].fast THEN MinIterations ELSE 1

\* The columns before k have the rows R in hand.  Of the others only the rows of one insert
\* are torn, in another's table, and they lack the first column.
Whole(s, t, C, R, k, bound) ==
  LET torn == By(s, t, C) \ (WholeOf(t, C) \cup R)
  IN  /\ \A j \in 1 .. k - 1 : R \subseteq t.columns[C[j]]
      /\ torn # {} =>
           /\ t.owner # s
           /\ IsFiniteSet(torn) /\ Cardinality(torn) <= bound
           /\ torn \cap t.columns[C[1]] = {}

\* The table was created by another simulator after s had begun to insert R: it has
\* nothing else of s, and the first column of R went to the table before it.
Cut(s, t, C, R, k) ==
  /\ k > 1 /\ t.owner # s
  /\ \A j \in 1 .. k - 1 : R \subseteq t.columns[C[j]] \/ R \cap t.columns[C[j]] = {}
  /\ R \cap t.columns[C[1]] = {}
  /\ By(s, t, C) \subseteq R

\* How far the insert of R has come: the columns from k on do not have it.
Written(s, t, C, R, k, bound) ==
  /\ \A j \in k .. Len(C) : R \cap t.columns[C[j]] = {}
  /\ Whole(s, t, C, R, k, bound) \/ Cut(s, t, C, R, k)

\* The columns that are left.
Suffix(left, C) ==
  /\ Len(left) <= Len(C)
  /\ \A j \in 1 .. Len(left) : left[j] = C[Len(C) - Len(left) + j]

\* The inserts that are left, in the order of their rows.
Queue(s, todo, now, bound) ==
  /\ todo \in Seq(AnyInsert(Names))
  /\ \A i \in 1 .. Len(todo) :
       /\ IsFiniteSet(todo[i].rows) /\ Cardinality(todo[i].rows) <= bound
       /\ \A r \in todo[i].rows : r.by = s /\ r.at <= now
       /\ Suffix(todo[i].columns, ColumnsOf(todo[i].table))
       /\ i > 1 => Len(todo[i].columns) = Len(ColumnsOf(todo[i].table))
  /\ \A i, j \in 1 .. Len(todo) :
       (i < j /\ todo[i].table = todo[j].table) =>
         \A q \in todo[i].rows, r \in todo[j].rows : q.at < r.at

\* The rows of s in a table are earlier than those that will come, but for the rows in hand.
Past(name, rows, todo, now) ==
  /\ \A q \in rows : q.at <= now
  /\ \A i \in 1 .. Len(todo) :
       todo[i].table = name =>
         \A q \in rows, r \in todo[i].rows : q.at < r.at \/ (i = 1 /\ q \in todo[1].rows)

TableOK(s, name, t, todo, now, bound) ==
  /\ Written(s, t, ColumnsOf(name), HandIn(todo, name), HandAt(todo, name), bound)
  /\ Past(name, By(s, t, ColumnsOf(name)), todo, now)

\* All tables.
Typed(T) == \A name \in Names : T[name] # NoTable => T[name] \in TableWith(ColumnsOf(name))

TablesOK(s, T, todo, now, bound) ==
  \A name \in Names : T[name] # NoTable => TableOK(s, name, T[name], todo, now, bound)

NoRows(s, T) == \A name \in Names : T[name] # NoTable => By(s, T[name], ColumnsOf(name)) = {}

Writes(s) ==
  /\ Queue(s, inserts[s], clock[s], Bound(s))
  /\ TablesOK(s, tables, inserts[s], clock[s], Bound(s))
  /\ pc[s] = "idle" => NoRows(s, tables)

TornInv == Typed(tables) /\ \A s \in Simulators : Writes(s)

-----------------------------------------------------------------------------
(***************************************************************************)
(* One table and one simulator, before and after a column is inserted.     *)
(***************************************************************************)
IsColumns(C) == IsList(C) /\ IsInjective(C)

With(t, c, R) == [t EXCEPT !.columns = [t.columns EXCEPT ![c] = t.columns[c] \cup R]]

LEMMA Cells ==
  ASSUME NEW C, IsColumns(C), NEW t \in TableWith(C)
  PROVE  /\ Len(C) \in Nat \ {0}
         /\ \A j \in 1 .. Len(C) : C[j] \in Range(C) /\ t.columns[C[j]] \subseteq AnyRow
         /\ \A i, j \in 1 .. Len(C) : C[i] = C[j] => i = j
         /\ \A c \in Range(C) : \E j \in 1 .. Len(C) : c = C[j]
         /\ t.columns \in [Range(C) -> SUBSET AnyRow]
<1>1. /\ Len(C) \in Nat \ {0}
      /\ \A j \in 1 .. Len(C) : C[j] \in Range(C)
      /\ \A c \in Range(C) : \E j \in 1 .. Len(C) : c = C[j]
  BY ListProperties DEF IsColumns
<1>2. DOMAIN C = 1 .. Len(C)
  BY LenProperties DEF IsColumns, IsList
<1>3. t.columns \in [Range(C) -> SUBSET AnyRow]
  BY DEF TableWith
<1> QED
  BY <1>1, <1>2, <1>3 DEF IsColumns, IsInjective

LEMMA CellsWith ==
  ASSUME NEW C, IsColumns(C), NEW t \in TableWith(C), NEW k \in 1 .. Len(C),
         NEW R \in SUBSET AnyRow
  PROVE  /\ With(t, C[k], R) \in TableWith(C)
         /\ With(t, C[k], R).owner = t.owner
         /\ With(t, C[k], R).columns[C[k]] = t.columns[C[k]] \cup R
         /\ \A j \in 1 .. Len(C) : j # k => With(t, C[k], R).columns[C[j]] = t.columns[C[j]]
<1> DEFINE D == [t.columns EXCEPT ![C[k]] = t.columns[C[k]] \cup R]
<1>1. t.columns \in [Range(C) -> SUBSET AnyRow] /\ C[k] \in Range(C)
  BY Cells
<1>2. D \in [Range(C) -> SUBSET AnyRow] /\ D[C[k]] = t.columns[C[k]] \cup R
  BY <1>1
<1>3. \A j \in 1 .. Len(C) : j # k => D[C[j]] = t.columns[C[j]]
  BY <1>1, Cells
<1> HIDE DEF D
<1>4. With(t, C[k], R) = [t EXCEPT !.columns = D]
  BY DEF With, D
<1>5. With(t, C[k], R).columns = D /\ With(t, C[k], R).owner = t.owner
  BY <1>4 DEF TableWith
<1>6. With(t, C[k], R) \in TableWith(C)
  BY <1>2, <1>4 DEF TableWith
<1> QED
  BY <1>2, <1>3, <1>5, <1>6

\* Rows of R come in, and nothing else changes.
LEMMA SetsWith ==
  ASSUME NEW C, IsColumns(C), NEW t \in TableWith(C), NEW k \in 1 .. Len(C),
         NEW R \in SUBSET AnyRow, NEW u, u = With(t, C[k], R)
  PROVE  /\ AllOf(u, C) = AllOf(t, C) \cup R
         /\ WholeOf(t, C) \subseteq WholeOf(u, C)
         /\ WholeOf(u, C) \ WholeOf(t, C) \subseteq R
<1>1. /\ u.columns[C[k]] = t.columns[C[k]] \cup R
      /\ \A j \in 1 .. Len(C) : j # k => u.columns[C[j]] = t.columns[C[j]]
  <2>1. /\ With(t, C[k], R).columns[C[k]] = t.columns[C[k]] \cup R
        /\ \A j \in 1 .. Len(C) : j # k => With(t, C[k], R).columns[C[j]] = t.columns[C[j]]
    BY CellsWith
  <2> QED
    BY <2>1
<1>2. AllOf(u, C) = AllOf(t, C) \cup R
  BY <1>1 DEF AllOf
<1>3. WholeOf(t, C) \subseteq WholeOf(u, C)
  BY <1>1 DEF WholeOf
<1>4. WholeOf(u, C) \ WholeOf(t, C) \subseteq R
  BY <1>1 DEF WholeOf
<1> QED
  BY <1>2, <1>3, <1>4

LEMMA WholeIsAll ==
  ASSUME NEW C, IsColumns(C), NEW t \in TableWith(C)
  PROVE  WholeOf(t, C) \subseteq AllOf(t, C)
<1>1. 1 \in 1 .. Len(C)
  BY Cells
<1> QED
  BY <1>1 DEF WholeOf, AllOf

\* A table that has just been created.
LEMMA WrittenEmpty ==
  ASSUME NEW s, NEW C, IsColumns(C), NEW t \in TableWith(C), NEW R, NEW k \in 1 .. Len(C), NEW bound,
         \A j \in 1 .. Len(C) : t.columns[C[j]] = {},
         k = 1 \/ t.owner # s
  PROVE  Written(s, t, C, R, k, bound) /\ By(s, t, C) = {}
<1>1. By(s, t, C) = {}
  BY DEF By, AllOf
<1>2. Len(C) \in Nat \ {0} /\ 1 \in 1 .. Len(C)
  BY Cells
<1>3. CASE k = 1
  <2>1. Whole(s, t, C, R, k, bound)
    BY <1>1, <1>3 DEF Whole
  <2> QED
    BY <1>1, <1>2, <2>1 DEF Written
<1>4. CASE k # 1
  <2>1. k > 1 /\ t.owner # s
    BY <1>2, <1>4
  <2>2. \A j \in 1 .. k - 1 : j \in 1 .. Len(C)
    BY <1>2
  <2>3. Cut(s, t, C, R, k)
    BY <1>1, <1>2, <2>1, <2>2 DEF Cut
  <2>4. \A j \in k .. Len(C) : j \in 1 .. Len(C)
    BY <1>2
  <2> QED
    BY <1>1, <2>3, <2>4 DEF Written
<1> QED
  BY <1>3, <1>4

\* A column that is not the last.
LEMMA WrittenColumn ==
  ASSUME NEW s, NEW C, IsColumns(C), NEW t \in TableWith(C), NEW R \in SUBSET AnyRow,
         NEW k \in 1 .. Len(C), k < Len(C), NEW bound, NEW u, u = With(t, C[k], R),
         \A r \in R : r.by = s,
         Written(s, t, C, R, k, bound)
  PROVE  Written(s, u, C, R, k + 1, bound)
<1>1. /\ u.owner = t.owner
      /\ u.columns[C[k]] = t.columns[C[k]] \cup R
      /\ \A j \in 1 .. Len(C) : j # k => u.columns[C[j]] = t.columns[C[j]]
  BY CellsWith
<1>2. Len(C) \in Nat \ {0} /\ k \in Nat /\ (k + 1) - 1 = k
  BY Cells
<1>3. \A j \in k + 1 .. Len(C) : R \cap u.columns[C[j]] = {}
  <2>1. \A j \in k + 1 .. Len(C) : j \in k .. Len(C) /\ j \in 1 .. Len(C) /\ j # k
    BY <1>2
  <2> QED
    BY <1>1, <2>1 DEF Written
<1>4. By(s, u, C) = By(s, t, C) \cup R
  BY SetsWith DEF By
<1>5. \A j \in 1 .. k : j = k \/ (j \in 1 .. k - 1 /\ j \in 1 .. Len(C) /\ j # k)
  BY <1>2
<1>6. ASSUME Whole(s, t, C, R, k, bound) PROVE Whole(s, u, C, R, k + 1, bound)
  <2>1. \A j \in 1 .. k : R \subseteq u.columns[C[j]]
    BY <1>1, <1>5, <1>6 DEF Whole
  <2> DEFINE T == By(s, t, C) \ (WholeOf(t, C) \cup R)
             U == By(s, u, C) \ (WholeOf(u, C) \cup R)
  <2>2. U = T
    BY <1>4, SetsWith
  <2>3. T # {} => /\ t.owner # s
                  /\ IsFiniteSet(T) /\ Cardinality(T) <= bound
                  /\ T \cap t.columns[C[1]] = {}
    BY <1>6 DEF Whole
  <2>4. T \cap R = {}
    OBVIOUS
  <2> HIDE DEF T, U
  <2>5. T \cap u.columns[C[1]] = T \cap t.columns[C[1]]
    <3>1. 1 \in 1 .. Len(C)
      BY <1>2
    <3> QED
      BY <1>1, <2>4, <3>1
  <2>6. U # {} => /\ u.owner # s
                  /\ IsFiniteSet(U) /\ Cardinality(U) <= bound
                  /\ U \cap u.columns[C[1]] = {}
    BY <1>1, <2>2, <2>3, <2>5
  <2> QED
    BY <1>2, <2>1, <2>6 DEF Whole, U
<1>7. ASSUME Cut(s, t, C, R, k) PROVE Cut(s, u, C, R, k + 1)
  <2>1. k > 1 /\ k + 1 > 1 /\ 1 \in 1 .. Len(C) /\ 1 # k
    BY <1>2, <1>7 DEF Cut
  <2>2. \A j \in 1 .. k : R \subseteq u.columns[C[j]] \/ R \cap u.columns[C[j]] = {}
    BY <1>1, <1>5, <1>7 DEF Cut
  <2> QED
    BY <1>1, <1>2, <1>4, <1>7, <2>1, <2>2 DEF Cut
<1> QED
  BY <1>3, <1>6, <1>7 DEF Written

\* The last column: nothing of the insert is in hand any more.
LEMMA WrittenLast ==
  ASSUME NEW s, NEW C, IsColumns(C), NEW t \in TableWith(C), NEW R \in SUBSET AnyRow,
         NEW bound, NEW u, u = With(t, C[Len(C)], R),
         \A r \in R : r.by = s, IsFiniteSet(R), bound \in Nat, Cardinality(R) <= bound,
         Written(s, t, C, R, Len(C), bound)
  PROVE  Written(s, u, C, {}, 1, bound)
<1> DEFINE k == Len(C)
<1>0. k \in 1 .. Len(C) /\ 1 \in 1 .. Len(C) /\ k \in Nat
  BY Cells
<1>1. /\ u.owner = t.owner
      /\ u.columns[C[k]] = t.columns[C[k]] \cup R
      /\ \A j \in 1 .. Len(C) : j # k => u.columns[C[j]] = t.columns[C[j]]
  BY <1>0, CellsWith
<1> DEFINE T == By(s, t, C) \ (WholeOf(t, C) \cup R)
           U == By(s, u, C) \ (WholeOf(u, C) \cup {})
<1>2. By(s, u, C) = By(s, t, C) \cup R
  BY <1>0, SetsWith DEF By
<1>3. U \subseteq T \cup R
  BY <1>0, <1>2, SetsWith
<1>4. \A j \in 1 .. Len(C) : j = k \/ j \in 1 .. k - 1
  BY <1>0
<1>5. CASE Whole(s, t, C, R, k, bound)
  <2>1. R \subseteq WholeOf(u, C)
    BY <1>1, <1>4, <1>5 DEF Whole, WholeOf
  <2>2. U = T
    <3>1. \A r \in T : r \notin R /\ r \notin WholeOf(t, C) /\ r \in By(s, t, C)
      OBVIOUS
    <3> QED
      BY <1>0, <1>2, <1>3, <2>1, <3>1, SetsWith
  <2>3. T # {} => /\ t.owner # s
                  /\ IsFiniteSet(T) /\ Cardinality(T) <= bound
                  /\ T \cap t.columns[C[1]] = {}
    BY <1>5 DEF Whole
  <2>4. T \cap u.columns[C[1]] = T \cap t.columns[C[1]]
    BY <1>0, <1>1
  <2> HIDE DEF T, U
  <2>5. U # {} => /\ u.owner # s
                  /\ IsFiniteSet(U) /\ Cardinality(U) <= bound
                  /\ U \cap u.columns[C[1]] = {}
    BY <1>1, <2>2, <2>3, <2>4
  <2> QED
    BY <2>5 DEF Written, Whole, U
<1>6. CASE Cut(s, t, C, R, k)
  <2>1. U \subseteq R /\ t.owner # s /\ 1 # k
    BY <1>0, <1>3, <1>6 DEF Cut
  <2>2. IsFiniteSet(U) /\ Cardinality(U) <= bound
    <3>1. IsFiniteSet(U) /\ Cardinality(U) <= Cardinality(R)
      BY <2>1, FS_Subset
    <3>2. Cardinality(U) \in Nat /\ Cardinality(R) \in Nat
      BY <3>1, FS_CardinalityType
    <3> QED
      BY <3>1, <3>2
  <2>3. U \cap u.columns[C[1]] = {}
    BY <1>0, <1>1, <1>6, <2>1 DEF Cut
  <2> HIDE DEF U
  <2> QED
    BY <1>1, <2>1, <2>2, <2>3 DEF Written, Whole, U
<1> QED
  BY <1>5, <1>6 DEF Written

\* The first column of an insert is next.
LEMMA WrittenNext ==
  ASSUME NEW s, NEW C, IsColumns(C), NEW t \in TableWith(C), NEW R \in SUBSET AnyRow, NEW bound,
         Written(s, t, C, {}, 1, bound),
         R \cap By(s, t, C) = {}, \A r \in R : r.by = s
  PROVE  Written(s, t, C, R, 1, bound)
<1>1. \A j \in 1 .. Len(C) : R \cap t.columns[C[j]] = {}
  <2>1. \A j \in 1 .. Len(C) : \A r \in t.columns[C[j]] : r \in AllOf(t, C)
    BY Cells DEF AllOf
  <2> QED
    BY <2>1 DEF By
<1>2. Whole(s, t, C, {}, 1, bound)
  BY DEF Written, Cut
<1>3. By(s, t, C) \ (WholeOf(t, C) \cup {}) = By(s, t, C) \ (WholeOf(t, C) \cup R)
  OBVIOUS
<1>4. Whole(s, t, C, R, 1, bound)
  BY <1>2, <1>3 DEF Whole
<1> QED
  BY <1>1, <1>4 DEF Written

RowsBy(s, R)    == R \in SUBSET AnyRow /\ \A r \in R : r.by = s
RowsNotBy(s, R) == R \in SUBSET AnyRow /\ \A r \in R : r.by # s

\* A column is inserted by another simulator.
LEMMA WrittenByOther ==
  ASSUME NEW s, NEW C, IsColumns(C), NEW t \in TableWith(C),
         NEW h \in 1 .. Len(C), NEW k \in 1 .. Len(C), NEW bound,
         NEW R, RowsBy(s, R), NEW Q, RowsNotBy(s, Q),
         Written(s, t, C, R, h, bound)
  PROVE  Written(s, With(t, C[k], Q), C, R, h, bound) /\ By(s, With(t, C[k], Q), C) = By(s, t, C)
<1> DEFINE u == With(t, C[k], Q)
<1> USE DEF RowsBy, RowsNotBy
<1>1. /\ u.owner = t.owner
      /\ u.columns[C[k]] = t.columns[C[k]] \cup Q
      /\ \A j \in 1 .. Len(C) : j # k => u.columns[C[j]] = t.columns[C[j]]
  BY CellsWith
<1> HIDE DEF u
<1>2. \A j \in 1 .. Len(C) : \A r : r.by = s => (r \in u.columns[C[j]] <=> r \in t.columns[C[j]])
  BY <1>1
<1>3. By(s, u, C) = By(s, t, C)
  BY SetsWith DEF By, u
<1>4. 1 \in 1 .. Len(C) /\ Len(C) \in Nat
  BY Cells
<1>5. \A j \in 1 .. h - 1 : j \in 1 .. Len(C)
  BY <1>4
<1>6. \A j \in h .. Len(C) : j \in 1 .. Len(C)
  BY <1>4
<1>7. \A j \in h .. Len(C) : R \cap u.columns[C[j]] = {}
  BY <1>2, <1>6 DEF Written
<1>8. ASSUME Whole(s, t, C, R, h, bound) PROVE Whole(s, u, C, R, h, bound)
  <2> DEFINE T == By(s, t, C) \ (WholeOf(t, C) \cup R)
             U == By(s, u, C) \ (WholeOf(u, C) \cup R)
  <2>1. U = T
    <3>1. \A r : r.by = s => (r \in WholeOf(u, C) <=> r \in WholeOf(t, C))
      BY <1>2 DEF WholeOf
    <3>2. \A r \in By(s, t, C) : r.by = s
      BY DEF By
    <3> QED
      BY <1>3, <3>1, <3>2
  <2>2. \A r \in T : r.by = s
    BY DEF By
  <2>3. T # {} => /\ t.owner # s
                  /\ IsFiniteSet(T) /\ Cardinality(T) <= bound
                  /\ T \cap t.columns[C[1]] = {}
    BY <1>8 DEF Whole
  <2> HIDE DEF T, U
  <2>4. U # {} => /\ u.owner # s
                  /\ IsFiniteSet(U) /\ Cardinality(U) <= bound
                  /\ U \cap u.columns[C[1]] = {}
    BY <1>1, <1>2, <1>4, <2>1, <2>2, <2>3
  <2>5. \A j \in 1 .. h - 1 : R \subseteq u.columns[C[j]]
    BY <1>2, <1>5, <1>8 DEF Whole
  <2> QED
    BY <2>4, <2>5 DEF Whole, U
<1>9. ASSUME Cut(s, t, C, R, h) PROVE Cut(s, u, C, R, h)
  <2>1. \A j \in 1 .. h - 1 : R \subseteq u.columns[C[j]] \/ R \cap u.columns[C[j]] = {}
    BY <1>2, <1>5, <1>9 DEF Cut
  <2>2. R \cap u.columns[C[1]] = {}
    BY <1>2, <1>4, <1>9 DEF Cut
  <2> QED
    BY <1>1, <1>3, <1>9, <2>1, <2>2 DEF Cut
<1> QED
  BY <1>3, <1>7, <1>8, <1>9 DEF Written, u

\* A tag changes nothing of this.
LEMMA WrittenSame ==
  ASSUME NEW s, NEW C, NEW t, NEW u, u.columns = t.columns, u.owner = t.owner,
         NEW R, NEW k, NEW bound
  PROVE  /\ By(s, u, C) = By(s, t, C)
         /\ AllOf(u, C) = AllOf(t, C) /\ WholeOf(u, C) = WholeOf(t, C)
         /\ Written(s, t, C, R, k, bound) => Written(s, u, C, R, k, bound)
<1>1. AllOf(u, C) = AllOf(t, C) /\ WholeOf(u, C) = WholeOf(t, C)
  BY DEF AllOf, WholeOf
<1> QED
  BY <1>1 DEF Written, Whole, Cut, By

-----------------------------------------------------------------------------
(***************************************************************************)
(* One simulator's inserts.                                                *)
(***************************************************************************)
LEMMA ColumnsOK ==
  ASSUME NEW name PROVE IsColumns(ColumnsOf(name))
BY SimulatorAssumption DEF ColumnsOf, IsColumns

\* The first insert of a queue, and its columns.
LEMMA FirstInsert ==
  ASSUME NEW s, NEW todo, NEW now, NEW bound, Queue(s, todo, now, bound), todo # <<>>
  PROVE  /\ Len(todo) \in Nat \ {0} /\ 1 \in 1 .. Len(todo) /\ Head(todo) = todo[1]
         /\ todo[1] \in AnyInsert(Names)
         /\ todo[1].table \in Names /\ todo[1].rows \in SUBSET AnyRow
         /\ Len(todo[1].columns) \in Nat \ {0}
         /\ HandIn(todo, todo[1].table) = todo[1].rows
         /\ HandAt(todo, todo[1].table) \in 1 .. Len(ColumnsOf(todo[1].table))
         /\ Head(todo[1].columns) = ColumnsOf(todo[1].table)[HandAt(todo, todo[1].table)]
<1> DEFINE I == todo[1]
           C == ColumnsOf(I.table)
<1>1. todo \in Seq(AnyInsert(Names))
  BY DEF Queue
<1>2. Len(todo) \in Nat \ {0} /\ 1 \in 1 .. Len(todo) /\ Head(todo) = I /\ I \in AnyInsert(Names)
  BY <1>1, LenProperties, EmptySeq, HeadTailProperties, ElementOfSeq
<1>3. I.table \in Names /\ I.rows \in SUBSET AnyRow /\ I.columns \in AnyColumns
  BY <1>2 DEF AnyInsert
<1>4. Suffix(I.columns, C)
  BY <1>2 DEF Queue
<1>5. Len(C) \in Nat
  BY ColumnsOK, ListProperties DEF IsColumns
<1>6. Len(I.columns) \in Nat \ {0} /\ Head(I.columns) = I.columns[1]
  BY <1>3, LenProperties, EmptySeq, HeadTailProperties DEF AnyColumns
<1> HIDE DEF I, C
<1>7. /\ Len(C) - Len(I.columns) + 1 \in 1 .. Len(C)
      /\ I.columns[1] = C[Len(C) - Len(I.columns) + 1]
  <2>1. Len(I.columns) <= Len(C) /\ 1 \in 1 .. Len(I.columns)
    BY <1>4, <1>6 DEF Suffix
  <2>2. I.columns[1] = C[Len(C) - Len(I.columns) + 1]
    BY <1>4, <2>1 DEF Suffix
  <2> QED
    BY <1>5, <1>6, <2>1, <2>2
<1>8. HandIn(todo, I.table) = I.rows /\ HandAt(todo, I.table) = Len(C) - Len(I.columns) + 1
  BY DEF HandIn, HandAt, I, C
<1> QED
  BY <1>2, <1>3, <1>6, <1>7, <1>8 DEF I, C

\* Rows of different instants are different.
LEMMA EarlierApart ==
  ASSUME NEW Q \in SUBSET AnyRow, NEW R \in SUBSET AnyRow,
         \A q \in Q, r \in R : q.at < r.at
  PROVE  R \cap Q = {}
<1>1. \A r \in AnyRow : ~(r.at < r.at)
  BY DEF AnyRow
<1> QED
  BY <1>1

LEMMA ByRows ==
  ASSUME NEW s, NEW t, NEW C PROVE By(s, t, C) \in SUBSET AnyRow
BY DEF By, AllOf

\* An insert starts, or none is left.
LEMMA NextInsert ==
  ASSUME NEW s, NEW name, NEW t \in TableWith(ColumnsOf(name)), NEW todo, NEW now, NEW bound,
         Queue(s, todo, now, bound),
         todo # <<>> => Len(todo[1].columns) = Len(ColumnsOf(todo[1].table)),
         Written(s, t, ColumnsOf(name), {}, 1, bound),
         NEW Q, Q = By(s, t, ColumnsOf(name)),
         \A q \in Q : q.at <= now,
         \A i \in 1 .. Len(todo) :
           todo[i].table = name => \A q \in Q, r \in todo[i].rows : q.at < r.at
  PROVE  TableOK(s, name, t, todo, now, bound)
<1> DEFINE C == ColumnsOf(name)
<1>1. Past(name, Q, todo, now)
  BY DEF Past
<1>2. CASE todo # <<>> /\ todo[1].table = name
  <2>1. /\ HandIn(todo, name) = todo[1].rows /\ todo[1].rows \in SUBSET AnyRow
        /\ 1 \in 1 .. Len(todo)
    BY <1>2, FirstInsert
  <2>2. HandAt(todo, name) = 1
    <3>1. Len(C) \in Nat
      BY ColumnsOK, ListProperties DEF IsColumns
    <3>2. HandAt(todo, name) = Len(C) - Len(C) + 1
      BY <1>2 DEF HandAt
    <3> QED
      BY <3>1, <3>2
  <2>3. \A r \in todo[1].rows : r.by = s
    BY <2>1 DEF Queue
  <2>4. todo[1].rows \cap Q = {}
    BY <1>2, <2>1, ByRows, EarlierApart
  <2>5. Written(s, t, C, todo[1].rows, 1, bound)
    BY <2>1, <2>3, <2>4, ColumnsOK, WrittenNext
  <2> QED
    BY <1>1, <2>1, <2>2, <2>5 DEF TableOK
<1>3. CASE ~(todo # <<>> /\ todo[1].table = name)
  <2>1. HandIn(todo, name) = {} /\ HandAt(todo, name) = 1
    BY <1>3 DEF HandIn, HandAt
  <2> QED
    BY <1>1, <2>1 DEF TableOK
<1> QED
  BY <1>2, <1>3

\* One column of the first insert less.
OneLess(todo) == [todo EXCEPT ![1] = [todo[1] EXCEPT !.columns = Tail(todo[1].columns)]]

\* One column of the first insert, which is not its last.
Shorter(s, todo, now, bound, rest) ==
  /\ Queue(s, rest, now, bound)
  /\ rest # <<>> /\ Len(rest) = Len(todo)
  /\ rest[1].table = todo[1].table
  /\ HandAt(rest, todo[1].table) = HandAt(todo, todo[1].table) + 1
  /\ HandAt(todo, todo[1].table) < Len(ColumnsOf(todo[1].table))
  /\ \A i \in 1 .. Len(todo) : rest[i].table = todo[i].table /\ rest[i].rows = todo[i].rows

LEMMA OneColumn ==
  ASSUME NEW s, NEW todo, NEW now, NEW bound, Queue(s, todo, now, bound), todo # <<>>,
         Len(todo[1].columns) # 1,
         NEW rest, rest = OneLess(todo)
  PROVE  Shorter(s, todo, now, bound, rest)
<1> DEFINE I == todo[1]
           C == ColumnsOf(I.table)
           L == Tail(I.columns)
           J == [I EXCEPT !.columns = L]
<1>1. /\ todo \in Seq(AnyInsert(Names)) /\ I \in AnyInsert(Names) /\ 1 \in 1 .. Len(todo)
      /\ Len(todo) \in Nat \ {0} /\ Len(I.columns) \in Nat \ {0}
  BY FirstInsert DEF Queue
<1>2. I.columns \in Seq(Range(QuoteColumns) \cup Range(TradeColumns)) /\ I.columns # <<>>
  BY <1>1 DEF AnyInsert, AnyColumns
<1>3. /\ L \in Seq(Range(QuoteColumns) \cup Range(TradeColumns))
      /\ Len(L) = Len(I.columns) - 1
      /\ \A j \in 1 .. Len(L) : L[j] = I.columns[j + 1]
  BY <1>2, HeadTailProperties
<1> DEFINE c == Len(C)
           l == Len(L)
           m == Len(I.columns)
<1>4. l \in Nat \ {0} /\ L # <<>> /\ m \in Nat \ {0} /\ l = m - 1
  <2>1. m \in Nat \ {0, 1} /\ l = m - 1
    BY <1>1, <1>3
  <2> HIDE DEF m, l
  <2>2. l \in Nat \ {0}
    BY <2>1
  <2>3. Len(L) # 0
    BY <2>2 DEF l
  <2> QED
    BY <2>1, <2>2, <2>3, EmptySeq
<1>5. J \in AnyInsert(Names) /\ J.table = I.table /\ J.rows = I.rows /\ J.columns = L
  <2> HIDE DEF L
  <2>1. L \in AnyColumns
    BY <1>3, <1>4 DEF AnyColumns
  <2> QED
    BY <1>1, <2>1 DEF AnyInsert
<1>6. Suffix(I.columns, C) /\ c \in Nat
  BY <1>1, ColumnsOK, ListProperties DEF Queue, IsColumns
<1> HIDE DEF J, L, C, c, l, m
<1>7. Suffix(L, C)
  <2>0. m <= c
    BY <1>6 DEF Suffix, c, m
  <2>1. Len(L) <= Len(C)
    <3>1. l <= c
      BY <1>4, <1>6, <2>0
    <3> QED
      BY <3>1 DEF l, c
  <2>2. ASSUME NEW j \in 1 .. Len(L) PROVE L[j] = C[Len(C) - Len(L) + j]
    <3>1. j \in 1 .. l /\ L[j] = I.columns[j + 1]
      BY <1>3 DEF l
    <3>2. j + 1 \in 1 .. m /\ c - m + (j + 1) = c - l + j
      BY <1>4, <1>6, <3>1
    <3>3. I.columns[j + 1] = C[c - m + (j + 1)]
      BY <1>6, <3>2 DEF Suffix, c, m
    <3> QED
      BY <3>1, <3>2, <3>3 DEF c, l
  <2> QED
    BY <2>1, <2>2 DEF Suffix
<1>8. /\ rest \in Seq(AnyInsert(Names)) /\ Len(rest) = Len(todo)
      /\ rest[1] = J /\ \A i \in 1 .. Len(todo) : i # 1 => rest[i] = todo[i]
  <2>1. rest = [todo EXCEPT ![1] = J]
    BY DEF J, L, OneLess
  <2>2. rest \in Seq(AnyInsert(Names)) /\ Len(rest) = Len(todo)
    <3> DEFINE AI == AnyInsert(Names)
    <3>1. todo \in Seq(AI) /\ J \in AI
      BY <1>1, <1>5
    <3> HIDE DEF AI
    <3>2. 1 \in 1 .. Len(todo)
      BY <1>1
    <3>3. [todo EXCEPT ![1] = J] \in Seq(AI) /\ Len([todo EXCEPT ![1] = J]) = Len(todo)
      BY <3>1, <3>2, ExceptSeq
    <3> QED
      BY <2>1, <3>3 DEF AI
  <2>3. DOMAIN todo = 1 .. Len(todo)
    BY <1>1, LenProperties
  <2> QED
    BY <1>1, <2>1, <2>2, <2>3
<1>9. rest # <<>>
  BY <1>1, <1>8, EmptySeq
<1>10. \A i \in 1 .. Len(todo) : rest[i].table = todo[i].table /\ rest[i].rows = todo[i].rows
  BY <1>5, <1>8
<1>11. Queue(s, rest, now, bound)
  <2>1. \A i \in 1 .. Len(rest) :
          /\ IsFiniteSet(rest[i].rows) /\ Cardinality(rest[i].rows) <= bound
          /\ \A r \in rest[i].rows : r.by = s /\ r.at <= now
    BY <1>8, <1>10 DEF Queue
  <2>2. \A i \in 1 .. Len(rest) : Suffix(rest[i].columns, ColumnsOf(rest[i].table))
    BY <1>5, <1>7, <1>8 DEF Queue, C
  <2>3. \A i \in 1 .. Len(rest) : i > 1 => Len(rest[i].columns) = Len(ColumnsOf(rest[i].table))
    BY <1>8 DEF Queue
  <2>4. \A i, j \in 1 .. Len(rest) :
          (i < j /\ rest[i].table = rest[j].table) =>
            \A q \in rest[i].rows, r \in rest[j].rows : q.at < r.at
    BY <1>8, <1>10 DEF Queue
  <2> QED
    BY <1>8, <2>1, <2>2, <2>3, <2>4 DEF Queue
<1>12. /\ HandAt(rest, I.table) = HandAt(todo, I.table) + 1
       /\ HandAt(todo, I.table) < Len(C)
  <2>1. HandAt(rest, I.table) = c - l + 1 /\ HandAt(todo, I.table) = c - m + 1
    BY <1>5, <1>8, <1>9 DEF HandAt, C, c, l, m
  <2>2. c - l + 1 = (c - m + 1) + 1 /\ c - m + 1 < c
    BY <1>4, <1>6
  <2> QED
    BY <2>1, <2>2 DEF c
<1> QED
  BY <1>5, <1>8, <1>9, <1>10, <1>11, <1>12 DEF Shorter, C

Put(t, todo) == With(t, Head(todo[1].columns), todo[1].rows)

\* The rows that a column of the first insert leaves in its table.
Inserted(s, todo, now, t, u) ==
  LET C == ColumnsOf(todo[1].table)
  IN  /\ By(s, u, C) = By(s, t, C) \cup todo[1].rows
      /\ u \in TableWith(C) /\ u.owner = t.owner
      /\ \A q \in By(s, u, C) : q.at <= now
      /\ \A i \in 1 .. Len(todo) :
           (i > 1 /\ todo[i].table = todo[1].table) =>
             \A q \in By(s, u, C), r \in todo[i].rows : q.at < r.at

LEMMA InsertedRows ==
  ASSUME NEW s, NEW todo, NEW now, NEW bound, Queue(s, todo, now, bound), todo # <<>>,
         NEW t \in TableWith(ColumnsOf(todo[1].table)),
         TableOK(s, todo[1].table, t, todo, now, bound)
  PROVE  Inserted(s, todo, now, t, Put(t, todo))
<1> DEFINE u == Put(t, todo)
<1>0. u = With(t, Head(todo[1].columns), todo[1].rows)
  BY DEF Put
<1> HIDE DEF u
<1> DEFINE name == todo[1].table
           C == ColumnsOf(name)
           k == HandAt(todo, name)
           R == todo[1].rows
<1>1. k \in 1 .. Len(C) /\ R \in SUBSET AnyRow /\ Head(todo[1].columns) = C[k] /\ 1 \in 1 .. Len(todo)
      /\ Len(todo) \in Nat
  BY FirstInsert
<1>2. \A r \in R : r.by = s /\ r.at <= now
  BY <1>1 DEF Queue
<1>3. Past(name, By(s, t, C), todo, now)
  BY DEF TableOK
<1>4. u = With(t, C[k], R) /\ IsColumns(C) /\ t \in TableWith(C)
  BY <1>0, <1>1, ColumnsOK
<1> HIDE DEF name, C, k, R
<1>5. AllOf(u, C) = AllOf(t, C) \cup R /\ u \in TableWith(C) /\ u.owner = t.owner
  BY <1>1, <1>4, SetsWith, CellsWith
<1>6. By(s, u, C) = By(s, t, C) \cup R
  BY <1>2, <1>5 DEF By
<1>7. \A q \in By(s, u, C) : q.at <= now
  BY <1>2, <1>3, <1>6 DEF Past
<1>8. ASSUME NEW i \in 1 .. Len(todo), i > 1, todo[i].table = name,
             NEW q \in By(s, u, C), NEW r \in todo[i].rows
      PROVE  q.at < r.at
  <2>1. CASE q \in R
    <3>1. 1 < i /\ todo[1].table = todo[i].table /\ q \in todo[1].rows
      BY <1>8, <2>1 DEF name, R
    <3> QED
      BY <1>1, <3>1 DEF Queue
  <2>2. CASE q \in By(s, t, C)
    BY <1>3, <1>8, <2>2 DEF Past
  <2> QED
    BY <1>6, <2>1, <2>2
<1> QED
  BY <1>5, <1>6, <1>7, <1>8 DEF Inserted, C, name, R, u

Rest(todo) == IF Len(todo[1].columns) = 1 THEN Tail(todo) ELSE OneLess(todo)

\* The queue and the tables of s when the next column is in table t.
AfterColumn(s, todo, now, bound, t) ==
  /\ Queue(s, Rest(todo), now, bound)
  /\ TableOK(s, todo[1].table, Put(t, todo), Rest(todo), now, bound)
  /\ \A n \in Names \ {todo[1].table} : \A v \in TableWith(ColumnsOf(n)) :
       TableOK(s, n, v, todo, now, bound) => TableOK(s, n, v, Rest(todo), now, bound)

\* One column of the first insert: the simulator's own tables.
LEMMA OwnColumn ==
  ASSUME NEW s, NEW todo, NEW now, NEW bound \in Nat, Queue(s, todo, now, bound), todo # <<>>,
         NEW t \in TableWith(ColumnsOf(todo[1].table)),
         TableOK(s, todo[1].table, t, todo, now, bound)
  PROVE  AfterColumn(s, todo, now, bound, t)
<1> DEFINE u == Put(t, todo)
           rest == Rest(todo)
<1> u = Put(t, todo) /\ rest = IF Len(todo[1].columns) = 1 THEN Tail(todo) ELSE OneLess(todo)
  BY DEF Rest
<1> HIDE DEF u, rest
<1> DEFINE name == todo[1].table
           C == ColumnsOf(name)
           k == HandAt(todo, name)
           R == todo[1].rows
<1>1. /\ k \in 1 .. Len(C) /\ R \in SUBSET AnyRow /\ Head(todo[1].columns) = C[k]
      /\ 1 \in 1 .. Len(todo) /\ Len(todo) \in Nat \ {0} /\ HandIn(todo, name) = R
      /\ Len(todo[1].columns) \in Nat \ {0}
  BY FirstInsert
<1>2. /\ \A r \in R : r.by = s
      /\ IsFiniteSet(R) /\ Cardinality(R) <= bound
  BY <1>1 DEF Queue
<1>3. /\ By(s, u, C) = By(s, t, C) \cup R
      /\ u \in TableWith(C)
      /\ \A q \in By(s, u, C) : q.at <= now
      /\ \A i \in 1 .. Len(todo) : (i > 1 /\ todo[i].table = name) =>
           \A q \in By(s, u, C), r \in todo[i].rows : q.at < r.at
  BY InsertedRows DEF Inserted
<1>4. Written(s, t, C, R, k, bound) /\ Past(name, By(s, t, C), todo, now)
  BY <1>1 DEF TableOK
<1>5. IsColumns(C) /\ t \in TableWith(C) /\ u = With(t, C[k], R)
  BY <1>1, ColumnsOK DEF Put
<1>6. CASE Len(todo[1].columns) # 1
  <2>1. rest = OneLess(todo)
    BY <1>6
  <2>2. /\ Queue(s, rest, now, bound) /\ rest # <<>> /\ Len(rest) = Len(todo)
        /\ rest[1].table = name /\ HandAt(rest, name) = k + 1 /\ k < Len(C)
        /\ \A i \in 1 .. Len(todo) : rest[i].table = todo[i].table /\ rest[i].rows = todo[i].rows
    <3>1. Shorter(s, todo, now, bound, rest)
      BY <1>6, <2>1, OneColumn
    <3> QED
      BY <3>1 DEF Shorter
  <2> HIDE DEF C, k, R, name
  <2>3. Written(s, u, C, R, k + 1, bound)
    BY <1>1, <1>2, <1>4, <1>5, <2>2, WrittenColumn
  <2>4. HandIn(rest, name) = R
    BY <1>1, <2>2 DEF HandIn, R
  <2>5. Past(name, By(s, u, C), rest, now)
    <3>1. ASSUME NEW i \in 1 .. Len(rest), rest[i].table = name,
                 NEW q \in By(s, u, C), NEW r \in rest[i].rows
          PROVE  q.at < r.at \/ (i = 1 /\ q \in rest[1].rows)
      <4>1. i \in 1 .. Len(todo) /\ todo[i].table = name /\ r \in todo[i].rows /\ rest[1].rows = R
        BY <1>1, <2>2, <3>1 DEF R
      <4>2. CASE i > 1
        BY <1>3, <3>1, <4>1, <4>2
      <4>3. CASE i = 1
        <5>1. q \in R \/ q \in By(s, t, C)
          BY <1>3, <3>1
        <5> QED
          BY <1>4, <4>1, <4>3, <5>1 DEF Past, R
      <4> QED
        BY <1>1, <4>1, <4>2, <4>3
    <3> QED
      BY <1>3, <3>1 DEF Past
  <2>6. TableOK(s, name, u, rest, now, bound)
    BY <2>2, <2>3, <2>4, <2>5 DEF TableOK, C
  <2>7. ASSUME NEW n \in Names \ {name}, NEW v, TableOK(s, n, v, todo, now, bound)
        PROVE  TableOK(s, n, v, rest, now, bound)
    <3>1. /\ HandIn(rest, n) = HandIn(todo, n) /\ HandAt(rest, n) = HandAt(todo, n)
      BY <2>2, <2>7 DEF HandIn, HandAt, name
    <3>2. Past(n, By(s, v, ColumnsOf(n)), rest, now)
      BY <2>2, <2>7 DEF Past, TableOK, name
    <3> QED
      BY <2>7, <3>1, <3>2 DEF TableOK
  <2> QED
    BY <2>2, <2>6, <2>7 DEF name, AfterColumn, u, rest
<1>7. CASE Len(todo[1].columns) = 1
  <2>1. rest = Tail(todo) /\ todo \in Seq(AnyInsert(Names))
    BY <1>7 DEF Queue
  <2>2. /\ rest \in Seq(AnyInsert(Names)) /\ Len(rest) = Len(todo) - 1
        /\ \A i \in 1 .. Len(rest) : rest[i] = todo[i + 1]
    BY <2>1, HeadTailProperties
  <2>3. k = Len(C)
    <3>1. k = Len(C) - 1 + 1 /\ Len(C) \in Nat
      BY <1>5, <1>7, Cells DEF HandAt
    <3> QED
      BY <3>1
  <2> HIDE DEF C, k, R, name
  <2>4. \A i \in 1 .. Len(rest) : i + 1 \in 1 .. Len(todo) /\ i + 1 > 1
    BY <1>1, <2>2
  <2>5. Queue(s, rest, now, bound)
    <3>1. \A i, j \in 1 .. Len(rest) : i < j => i + 1 < j + 1
      OBVIOUS
    <3>2. \A i \in 1 .. Len(rest) :
            /\ IsFiniteSet(rest[i].rows) /\ Cardinality(rest[i].rows) <= bound
            /\ \A r \in rest[i].rows : r.by = s /\ r.at <= now
            /\ Suffix(rest[i].columns, ColumnsOf(rest[i].table))
            /\ Len(rest[i].columns) = Len(ColumnsOf(rest[i].table))
      BY <2>2, <2>4 DEF Queue
    <3>3. \A i, j \in 1 .. Len(rest) :
            (i < j /\ rest[i].table = rest[j].table) =>
              \A q \in rest[i].rows, r \in rest[j].rows : q.at < r.at
      BY <2>2, <2>4, <3>1 DEF Queue
    <3> QED
      BY <2>2, <3>2, <3>3 DEF Queue
  <2>6. rest # <<>> => Len(rest[1].columns) = Len(ColumnsOf(rest[1].table))
    <3> SUFFICES ASSUME rest # <<>> PROVE Len(rest[1].columns) = Len(ColumnsOf(rest[1].table))
      OBVIOUS
    <3>1. 1 \in 1 .. Len(rest)
      BY <2>5, FirstInsert
    <3> QED
      BY <2>2, <2>4, <3>1 DEF Queue
  <2>7. Written(s, u, C, {}, 1, bound)
    BY <1>2, <1>4, <1>5, <1>1, <2>3, WrittenLast
  <2>8. \A i \in 1 .. Len(rest) :
          rest[i].table = name => \A q \in By(s, u, C), r \in rest[i].rows : q.at < r.at
    BY <1>3, <2>2, <2>4
  <2>9. TableOK(s, name, u, rest, now, bound)
    BY <1>3, <2>5, <2>6, <2>7, <2>8, NextInsert DEF C
  <2>10. ASSUME NEW n \in Names \ {name}, NEW v \in TableWith(ColumnsOf(n)),
                TableOK(s, n, v, todo, now, bound)
         PROVE  TableOK(s, n, v, rest, now, bound)
    <3>1. HandIn(todo, n) = {} /\ HandAt(todo, n) = 1
      BY <2>10 DEF HandIn, HandAt, name
    <3>2. Written(s, v, ColumnsOf(n), {}, 1, bound) /\ Past(n, By(s, v, ColumnsOf(n)), todo, now)
      BY <2>10, <3>1 DEF TableOK
    <3>3. \A q \in By(s, v, ColumnsOf(n)) : q.at <= now
      BY <3>2 DEF Past
    <3>4. ASSUME NEW i \in 1 .. Len(rest), rest[i].table = n,
                 NEW q \in By(s, v, ColumnsOf(n)), NEW r \in rest[i].rows
          PROVE  q.at < r.at
      <4>1. i + 1 \in 1 .. Len(todo) /\ i + 1 # 1 /\ todo[i + 1].table = n /\ r \in todo[i + 1].rows
        BY <2>2, <2>4, <3>4
      <4> QED
        BY <3>2, <4>1 DEF Past
    <3> QED
      BY <2>5, <2>6, <3>2, <3>3, <3>4, NextInsert
  <2> QED
    BY <2>5, <2>9, <2>10 DEF name, AfterColumn, u, rest
<1> QED
  BY <1>6, <1>7

\* What a simulator has in hand for a table.
LEMMA HandType ==
  ASSUME NEW s, NEW todo, NEW now, NEW bound, Queue(s, todo, now, bound), NEW name \in Names
  PROVE  /\ HandIn(todo, name) \in SUBSET AnyRow
         /\ \A r \in HandIn(todo, name) : r.by = s
         /\ HandAt(todo, name) \in 1 .. Len(ColumnsOf(name))
<1>1. CASE todo # <<>> /\ todo[1].table = name
  <2>1. 1 \in 1 .. Len(todo) /\ todo[1].rows \in SUBSET AnyRow
    BY <1>1, FirstInsert
  <2>2. \A r \in todo[1].rows : r.by = s
    BY <2>1 DEF Queue
  <2> QED
    BY <1>1, <2>1, <2>2, FirstInsert
<1>2. CASE ~(todo # <<>> /\ todo[1].table = name)
  <2>1. Len(ColumnsOf(name)) \in Nat \ {0}
    BY ColumnsOK, ListProperties DEF IsColumns
  <2> QED
    BY <1>2, <2>1 DEF HandIn, HandAt
<1> QED
  BY <1>1, <1>2

\* A column of another simulator.
LEMMA OtherColumn ==
  ASSUME NEW s, NEW todo, NEW now, NEW bound, Queue(s, todo, now, bound), NEW name \in Names,
         NEW t \in TableWith(ColumnsOf(name)), TableOK(s, name, t, todo, now, bound),
         NEW k \in 1 .. Len(ColumnsOf(name)), NEW Q \in SUBSET AnyRow, \A r \in Q : r.by # s,
         NEW u, u = With(t, ColumnsOf(name)[k], Q)
  PROVE  /\ TableOK(s, name, u, todo, now, bound)
         /\ By(s, u, ColumnsOf(name)) = By(s, t, ColumnsOf(name))
<1> DEFINE C == ColumnsOf(name)
           R == HandIn(todo, name)
           h == HandAt(todo, name)
<1>1. R \in SUBSET AnyRow /\ (\A r \in R : r.by = s) /\ h \in 1 .. Len(C)
  BY HandType
<1>2. Written(s, t, C, R, h, bound)
  BY DEF TableOK
<1>3. IsColumns(C) /\ t \in TableWith(C) /\ k \in 1 .. Len(C) /\ u = With(t, C[k], Q)
  BY ColumnsOK
<1> HIDE DEF C, R, h
<1>4. Written(s, With(t, C[k], Q), C, R, h, bound) /\ By(s, With(t, C[k], Q), C) = By(s, t, C)
  <2>1. RowsBy(s, R) /\ RowsNotBy(s, Q)
    BY <1>1 DEF RowsBy, RowsNotBy
  <2> QED
    BY <2>1, <1>1, <1>2, <1>3, WrittenByOther
<1>5. Written(s, u, C, R, h, bound) /\ By(s, u, C) = By(s, t, C)
  BY <1>3, <1>4
<1> QED
  BY <1>5 DEF TableOK, C, R, h

\* A table that has just been created by somebody who is not inserting.
LEMMA NewTable ==
  ASSUME NEW s, NEW todo, NEW now, NEW bound, Queue(s, todo, now, bound), NEW name \in Names,
         NEW x \in Simulators, todo = <<>> \/ x # s,
         NEW t, t = EmptyTable(x, name)
  PROVE  /\ t \in TableWith(ColumnsOf(name))
         /\ TableOK(s, name, t, todo, now, bound)
         /\ By(s, t, ColumnsOf(name)) = {} /\ WholeOf(t, ColumnsOf(name)) = {}
<1> DEFINE C == ColumnsOf(name)
<1>1. t \in TableWith(C) /\ t.owner = x /\ t.columns = [c \in Range(C) |-> {}]
  BY DEF EmptyTable, TableWith
<1>2. IsColumns(C)
  BY ColumnsOK
<1> HIDE DEF C
<1>3. \A j \in 1 .. Len(C) : t.columns[C[j]] = {}
  BY <1>1, <1>2, Cells
<1>4. HandAt(todo, name) \in 1 .. Len(C) /\ (HandAt(todo, name) = 1 \/ t.owner # s)
  BY <1>1, HandType DEF HandAt, C
<1>5. Written(s, t, C, HandIn(todo, name), HandAt(todo, name), bound) /\ By(s, t, C) = {}
  BY <1>1, <1>2, <1>3, <1>4, WrittenEmpty
<1>6. Past(name, By(s, t, C), todo, now)
  BY <1>5 DEF Past
<1>7. WholeOf(t, C) = {}
  <2>1. 1 \in 1 .. Len(C)
    BY <1>1, <1>2, Cells
  <2> QED
    BY <1>3, <2>1 DEF WholeOf
<1> QED
  BY <1>1, <1>5, <1>6, <1>7 DEF TableOK, C

\* Only the tag changes.
LEMMA TaggedTable ==
  ASSUME NEW s, NEW todo, NEW now, NEW bound, NEW name, NEW t \in TableWith(ColumnsOf(name)),
         NEW u, u = [t EXCEPT !.tagged = TRUE], TableOK(s, name, t, todo, now, bound)
  PROVE  /\ u \in TableWith(ColumnsOf(name)) /\ TableOK(s, name, u, todo, now, bound)
         /\ By(s, u, ColumnsOf(name)) = By(s, t, ColumnsOf(name))
         /\ WholeOf(u, ColumnsOf(name)) = WholeOf(t, ColumnsOf(name))
<1>1. u \in TableWith(ColumnsOf(name)) /\ u.columns = t.columns /\ u.owner = t.owner
  BY DEF TableWith
<1> QED
  BY <1>1, WrittenSame DEF TableOK

-----------------------------------------------------------------------------
(***************************************************************************)
(* All tables, and one lemma for each kind of step.                        *)
(***************************************************************************)
\* One table is replaced.
LEMMA Replaced ==
  ASSUME NEW s, NEW T, NEW name \in Names, NEW new, NEW todo, NEW now, NEW bound,
         T \in [Names -> AnyTable \cup {NoTable}],
         TablesOK(s, T, todo, now, bound),
         new = NoTable \/ TableOK(s, name, new, todo, now, bound)
  PROVE  TablesOK(s, [T EXCEPT ![name] = new], todo, now, bound)
BY DEF TablesOK

LEMMA ReplacedNoRows ==
  ASSUME NEW s, NEW T, NEW name \in Names, NEW new,
         T \in [Names -> AnyTable \cup {NoTable}],
         NoRows(s, T),
         new = NoTable \/ By(s, new, ColumnsOf(name)) = {}
  PROVE  NoRows(s, [T EXCEPT ![name] = new])
BY DEF NoRows

LEMMA ReplacedTyped ==
  ASSUME NEW T, NEW name \in Names, NEW new,
         T \in [Names -> AnyTable \cup {NoTable}], Typed(T),
         new = NoTable \/ new \in TableWith(ColumnsOf(name))
  PROVE  Typed([T EXCEPT ![name] = new])
BY DEF Typed

LEMMA TornInit == Init => TornInv
<1> SUFFICES ASSUME Init PROVE TornInv
  OBVIOUS
<1>1. Typed(tables)
  BY DEF Init, Typed
<1>2. ASSUME NEW s \in Simulators PROVE Writes(s)
  <2>1. inserts[s] = <<>> /\ \A name \in Names : tables[name] = NoTable
    BY DEF Init
  <2>2. Queue(s, inserts[s], clock[s], Bound(s))
    BY <2>1, EmptySeq DEF Queue
  <2> QED
    BY <2>1, <2>2 DEF Writes, TablesOK, NoRows
<1> QED
  BY <1>1, <1>2 DEF TornInv

\* Nothing that the invariant is about changes.
LEMMA TornQuiet ==
  ASSUME TornInv, UNCHANGED <<tables, inserts, clock, cfg>>,
         \A x \in Simulators : pc'[x] = "idle" => pc[x] = "idle"
  PROVE  TornInv'
<1>1. ASSUME NEW x \in Simulators PROVE Writes(x)'
  <2>1. Writes(x) /\ Bound(x)' = Bound(x)
    BY DEF TornInv, Bound
  <2> QED
    BY <2>1 DEF Writes
<1> QED
  BY <1>1 DEF TornInv

\* One table changes, and nothing else.
LEMMA TornTable ==
  ASSUME TypeOK, TornInv, NEW name \in Names, NEW new,
         tables' = [tables EXCEPT ![name] = new], UNCHANGED <<inserts, clock, cfg>>,
         \A x \in Simulators : pc'[x] = "idle" => pc[x] = "idle",
         \/ new = NoTable
         \/ /\ new \in TableWith(ColumnsOf(name))
            /\ \A x \in Simulators :
                 /\ TableOK(x, name, new, inserts[x], clock[x], Bound(x))
                 /\ pc[x] = "idle" => By(x, new, ColumnsOf(name)) = {}
  PROVE  TornInv'
<1>1. tables \in [Names -> AnyTable \cup {NoTable}]
  BY DEF TypeOK
<1>2. Typed(tables)'
  <2>1. Typed([tables EXCEPT ![name] = new])
    BY <1>1, ReplacedTyped DEF TornInv
  <2> QED
    BY <2>1
<1>3. ASSUME NEW x \in Simulators PROVE Writes(x)'
  <2>1. Writes(x) /\ Bound(x)' = Bound(x)
    BY DEF TornInv, Bound
  <2>2. TablesOK(x, [tables EXCEPT ![name] = new], inserts[x], clock[x], Bound(x))
    BY <1>1, <2>1, Replaced DEF Writes
  <2>3. pc'[x] = "idle" => NoRows(x, [tables EXCEPT ![name] = new])
    BY <1>1, <2>1, ReplacedNoRows DEF Writes
  <2> QED
    BY <2>1, <2>2, <2>3 DEF Writes
<1> QED
  BY <1>2, <1>3 DEF TornInv

\* A simulator that has no rows may get another bound.
LEMMA TornStart ==
  ASSUME Inv, TornInv, NEW s \in Simulators, NEW c, Start(s, c) PROVE TornInv'
<1>1. /\ pc[s] = "idle" /\ pc' = [pc EXCEPT ![s] = "entries"]
      /\ cfg' = [cfg EXCEPT ![s] = c]
      /\ UNCHANGED <<tables, inserts, clock>>
  BY DEF Start, GoTo, db
<1>2. inserts[s] = <<>> /\ pc'[s] = "entries"
  BY <1>1 DEF Inv, Placed, TypeOK
<1>3. ASSUME NEW x \in Simulators, x # s PROVE Writes(x)'
  <2>1. Writes(x) /\ Bound(x)' = Bound(x) /\ pc'[x] = pc[x]
    BY <1>1, <1>3 DEF TornInv, Bound, Inv, TypeOK
  <2> QED
    BY <1>1, <2>1 DEF Writes
<1>4. Writes(s)'
  <2>1. NoRows(s, tables)
    BY <1>1 DEF TornInv, Writes
  <2>2. Queue(s, <<>>, clock[s], Bound(s)')
    BY EmptySeq DEF Queue
  <2>3. ASSUME NEW name \in Names, tables[name] # NoTable
        PROVE  TableOK(s, name, tables[name], <<>>, clock[s], Bound(s)')
    <3>1. By(s, tables[name], ColumnsOf(name)) = {}
      BY <2>1, <2>3 DEF NoRows
    <3>2. HandIn(<<>>, name) = {} /\ HandAt(<<>>, name) = 1
      BY DEF HandIn, HandAt
    <3>3. Written(s, tables[name], ColumnsOf(name), {}, 1, Bound(s)')
      BY <3>1 DEF Written, Whole
    <3>4. Past(name, {}, <<>>, clock[s])
      BY DEF Past
    <3> QED
      BY <3>1, <3>2, <3>3, <3>4 DEF TableOK
  <2>4. TablesOK(s, tables, <<>>, clock[s], Bound(s)')
    BY <2>3 DEF TablesOK
  <2> QED
    BY <1>1, <1>2, <2>2, <2>4 DEF Writes
<1> QED
  BY <1>1, <1>3, <1>4 DEF TornInv

(***************************************************************************)
(* What the steps do to the tables.                                        *)
(***************************************************************************)
Working == \A x \in Simulators : pc'[x] = "idle" => pc[x] = "idle"

Rests == UNCHANGED <<inserts, clock, cfg>> /\ Working

Removes(name) == Rests /\ tables' = [tables EXCEPT ![name] = NoTable]

Creates(s, name) ==
  /\ Rests /\ ~Exists(name) /\ inserts[s] = <<>> /\ pc[s] # "idle"
  /\ tables' = [tables EXCEPT ![name] = EmptyTable(s, name)]

Tags(name) ==
  /\ Rests /\ Exists(name)
  /\ tables' = [tables EXCEPT ![name] = [tables[name] EXCEPT !.tagged = TRUE]]

Puts(s) ==
  LET todo == inserts[s]
      name == todo[1].table
  IN  /\ todo # <<>> /\ Exists(name) /\ UNCHANGED <<clock, cfg, pc>>
      /\ pc[s] # "idle"
      /\ tables' = [tables EXCEPT ![name] = Put(tables[name], todo)]
      /\ inserts' = [inserts EXCEPT ![s] = Rest(todo)]

\* The simulator is at a table of its own.
LEMMA AtTable ==
  ASSUME Inv, NEW s \in Simulators,
         pc[s] \in {"create", "tag"} \/ (pc[s] = "run" /\ step[s] <= Len(Setup(s)))
  PROVE  Setup(s)[step[s]] \in Names /\ inserts[s] = <<>>
<1>1. step[s] \in 1 .. Len(Setup(s))
  BY SetupType DEF Inv, TypeOK, Placed
<1>2. inserts[s] = <<>>
  <2>1. ~(step[s] > Len(Setup(s)))
    BY <1>1, SetupType DEF Inv
  <2> QED
    BY <2>1 DEF Inv, Placed
<1> QED
  BY <1>1, <1>2, NameOf DEF Inv

LEMMA RemoveEffect ==
  ASSUME Inv, NEW s \in Simulators, RemoveTable(s)
  PROVE  \E name \in Names : Removes(name)
<1>1. /\ pc[s] = "run" /\ step[s] <= Len(Setup(s))
      /\ tables' = [tables EXCEPT ![Setup(s)[step[s]]] = NoTable]
      /\ pc' = [pc EXCEPT ![s] = "create"]
      /\ UNCHANGED <<cfg, clock, inserts>>
  BY DEF RemoveTable, GoTo, locals
<1>2. Setup(s)[step[s]] \in Names
  BY <1>1, AtTable
<1>3. Working
  BY <1>1 DEF Working, Inv, TypeOK
<1> QED
  BY <1>1, <1>2, <1>3 DEF Removes, Rests

LEMMA CreateEffect ==
  ASSUME Inv, NEW s \in Simulators, CreateTable(s)
  PROVE  (Rests /\ tables' = tables) \/ \E name \in Names : Creates(s, name)
<1> DEFINE name == Setup(s)[step[s]]
<1>1. /\ pc[s] = "create"
      /\ \/ tables' = tables
         \/ ~Exists(name) /\ tables' = [tables EXCEPT ![name] = EmptyTable(s, name)]
      /\ pc' = [pc EXCEPT ![s] = pc'[s]] /\ pc'[s] # "idle"
      /\ UNCHANGED <<cfg, clock, inserts>>
  BY DEF CreateTable, GoTo, locals, Exists, Inv, TypeOK
<1>2. name \in Names /\ inserts[s] = <<>> /\ pc[s] # "idle"
  BY <1>1, AtTable
<1>3. Working
  BY <1>1 DEF Working, Inv, TypeOK
<1> HIDE DEF name
<1> QED
  BY <1>1, <1>2, <1>3 DEF Creates, Rests

LEMMA TagEffect ==
  ASSUME Inv, NEW s \in Simulators, TagTable(s)
  PROVE  (Rests /\ tables' = tables) \/ \E name \in Names : Tags(name)
<1> DEFINE name == Setup(s)[step[s]]
<1>1. /\ pc[s] = "tag"
      /\ \/ tables' = tables
         \/ /\ Exists(name)
            /\ tables' = [tables EXCEPT ![name] = [tables[name] EXCEPT !.tagged = TRUE]]
      /\ pc' = [pc EXCEPT ![s] = pc'[s]] /\ pc'[s] # "idle"
      /\ UNCHANGED <<cfg, clock, inserts>>
  BY DEF TagTable, GoTo, Exists, Inv, TypeOK
<1>2. name \in Names
  BY <1>1, AtTable
<1>3. Working
  BY <1>1 DEF Working, Inv, TypeOK
<1> HIDE DEF name
<1> QED
  BY <1>1, <1>2, <1>3 DEF Tags, Rests

LEMMA InsertEffect ==
  ASSUME Inv, TornInv, NEW s \in Simulators, InsertColumn(s)
  PROVE  (Rests /\ tables' = tables) \/ Puts(s)
<1> DEFINE todo == inserts[s]
           I == todo[1]
<1>1. pc[s] = "run" /\ todo # <<>> /\ UNCHANGED <<cfg, clock>>
  BY DEF InsertColumn
<1>2. Insert(s) = I
  BY <1>1, FirstInsert DEF Insert, TornInv, Writes
<1>3. CASE tables[Insert(s).table] = NoTable
  <2>1. UNCHANGED <<tables, inserts>> /\ pc' = [pc EXCEPT ![s] = "failed"]
    BY <1>3 DEF InsertColumn, GoTo
  <2>2. Working
    BY <2>1 DEF Working, Inv, TypeOK
  <2> QED
    BY <1>1, <2>1, <2>2 DEF Rests
<1>4. CASE tables[Insert(s).table] # NoTable
  <2> DEFINE c == Head(I.columns)
  <2>1. /\ tables' = [tables EXCEPT ![I.table] =
             [tables[I.table] EXCEPT !.columns =
                [tables[I.table].columns EXCEPT ![c] = tables[I.table].columns[c] \cup I.rows]]]
        /\ inserts' = [inserts EXCEPT ![s] = OneColumnLess(s)]
        /\ UNCHANGED pc
    BY <1>2, <1>4 DEF InsertColumn
  <2>2. tables' = [tables EXCEPT ![I.table] = Put(tables[I.table], todo)]
    BY <2>1 DEF Put, With
  <2>3. OneColumnLess(s) = Rest(todo)
    BY <1>2 DEF OneColumnLess, OneLess, Rest
  <2>4. Exists(I.table) /\ pc[s] # "idle"
    BY <1>1, <1>2, <1>4 DEF Exists
  <2> QED
    BY <1>1, <2>1, <2>2, <2>3, <2>4 DEF Puts
<1> QED
  BY <1>3, <1>4

LEMMA TornRemoves ==
  ASSUME Inv, TornInv, NEW name \in Names, Removes(name) PROVE TornInv'
BY TornTable DEF Removes, Rests, Working, Inv

LEMMA TornCreates ==
  ASSUME Inv, TornInv, NEW s \in Simulators, NEW name \in Names, Creates(s, name) PROVE TornInv'
<1> DEFINE new == EmptyTable(s, name)
<1>1. ASSUME NEW x \in Simulators
      PROVE  /\ new \in TableWith(ColumnsOf(name))
             /\ TableOK(x, name, new, inserts[x], clock[x], Bound(x))
             /\ By(x, new, ColumnsOf(name)) = {}
  <2>1. Queue(x, inserts[x], clock[x], Bound(x)) /\ (inserts[x] = <<>> \/ s # x)
    BY DEF Creates, TornInv, Writes
  <2> QED
    BY <2>1, NewTable
<1>2. tables' = [tables EXCEPT ![name] = new]
  BY DEF Creates
<1> HIDE DEF new
<1>3. new \in TableWith(ColumnsOf(name))
  BY <1>1
<1> QED
  BY <1>1, <1>2, <1>3, TornTable DEF Creates, Rests, Working, Inv

LEMMA TornTags ==
  ASSUME Inv, TornInv, NEW name \in Names, Tags(name) PROVE TornInv'
<1> DEFINE new == [tables[name] EXCEPT !.tagged = TRUE]
<1>1. tables[name] \in TableWith(ColumnsOf(name)) /\ tables[name] # NoTable
  BY DEF Tags, Exists, TornInv, Typed
<1>2. new \in TableWith(ColumnsOf(name))
  BY <1>1 DEF TableWith
<1>3. ASSUME NEW x \in Simulators
      PROVE  /\ TableOK(x, name, new, inserts[x], clock[x], Bound(x))
             /\ By(x, new, ColumnsOf(name)) = By(x, tables[name], ColumnsOf(name))
  <2>1. TableOK(x, name, tables[name], inserts[x], clock[x], Bound(x))
    BY <1>1 DEF TornInv, Writes, TablesOK
  <2> QED
    BY <1>1, <2>1, TaggedTable
<1>4. ASSUME NEW x \in Simulators, pc[x] = "idle" PROVE By(x, new, ColumnsOf(name)) = {}
  BY <1>1, <1>3, <1>4 DEF TornInv, Writes, NoRows
<1>5. tables' = [tables EXCEPT ![name] = new]
  BY DEF Tags
<1> HIDE DEF new
<1> QED
  BY <1>2, <1>3, <1>4, <1>5, TornTable DEF Tags, Rests, Working, Inv

\* The bound of a simulator.
LEMMA BoundType ==
  ASSUME NEW s PROVE Bound(s) \in Nat
BY SimulatorAssumption DEF Bound

\* What a column of s changes in the table, for s and for the others.
LEMMA TornPuts ==
  ASSUME Inv, TornInv, NEW s \in Simulators, Puts(s) PROVE TornInv'
<1> DEFINE todo == inserts[s]
           name == todo[1].table
           t == tables[name]
           new == Put(t, todo)
           rest == Rest(todo)
           k == HandAt(todo, name)
<1>1. /\ todo # <<>> /\ t # NoTable /\ UNCHANGED <<clock, cfg, pc>> /\ pc[s] # "idle"
      /\ tables' = [tables EXCEPT ![name] = new]
      /\ inserts' = [inserts EXCEPT ![s] = rest]
  BY DEF Puts, Exists
<1>2. Queue(s, todo, clock[s], Bound(s)) /\ TablesOK(s, tables, todo, clock[s], Bound(s))
  BY DEF TornInv, Writes
<1>3. /\ name \in Names /\ todo[1].rows \in SUBSET AnyRow /\ 1 \in 1 .. Len(todo)
      /\ k \in 1 .. Len(ColumnsOf(name))
      /\ Head(todo[1].columns) = ColumnsOf(name)[k]
  BY <1>1, <1>2, FirstInsert
<1>4. t \in TableWith(ColumnsOf(name)) /\ TableOK(s, name, t, todo, clock[s], Bound(s))
  BY <1>1, <1>2, <1>3 DEF TornInv, Typed, TablesOK
<1>5. new = With(t, ColumnsOf(name)[k], todo[1].rows)
  BY <1>3 DEF Put
<1>6. new \in TableWith(ColumnsOf(name))
  BY <1>3, <1>4, <1>5, ColumnsOK, CellsWith
<1>7. /\ Queue(s, rest, clock[s], Bound(s))
      /\ TableOK(s, name, new, rest, clock[s], Bound(s))
      /\ \A n \in Names \ {name} : \A v \in TableWith(ColumnsOf(n)) :
           TableOK(s, n, v, todo, clock[s], Bound(s)) => TableOK(s, n, v, rest, clock[s], Bound(s))
  <2>1. AfterColumn(s, todo, clock[s], Bound(s), t)
    BY <1>1, <1>2, <1>4, BoundType, OwnColumn
  <2> QED
    BY <2>1 DEF AfterColumn
<1>8. /\ inserts'[s] = rest
      /\ \A x \in Simulators \ {s} : inserts'[x] = inserts[x]
  BY <1>1 DEF Inv, Destined
<1>9. tables \in [Names -> AnyTable \cup {NoTable}] /\ Typed(tables)
  BY DEF Inv, TypeOK, TornInv
<1> HIDE DEF todo, name, t, new, rest, k
<1>10. Typed(tables)'
  <2>1. Typed([tables EXCEPT ![name] = new])
    BY <1>3, <1>6, <1>9, ReplacedTyped
  <2> QED
    BY <1>1, <2>1
<1>11. Writes(s)'
  <2>1. Bound(s)' = Bound(s)
    BY <1>1 DEF Bound
  <2>2. TablesOK(s, tables, todo, clock[s], Bound(s))
    BY <1>2
  <2>3. ASSUME NEW n \in Names, tables'[n] # NoTable
        PROVE  TableOK(s, n, tables'[n], rest, clock[s], Bound(s))
    <3>1. CASE n = name
      BY <1>1, <1>3, <1>7, <1>9, <3>1
    <3>2. CASE n # name
      <4>1. tables'[n] = tables[n]
        BY <1>1, <1>9, <3>2
      <4>2. TableOK(s, n, tables[n], todo, clock[s], Bound(s)) /\ tables[n] \in TableWith(ColumnsOf(n))
        BY <1>9, <2>2, <2>3, <4>1 DEF TablesOK, Typed
      <4> QED
        BY <1>7, <3>2, <4>1, <4>2
    <3> QED
      BY <3>1, <3>2
  <2>4. TablesOK(s, tables', rest, clock[s], Bound(s))
    BY <2>3 DEF TablesOK
  <2> QED
    BY <1>1, <1>7, <1>8, <2>1, <2>4 DEF Writes
<1>12. ASSUME NEW x \in Simulators, x # s PROVE Writes(x)'
  <2>1. Writes(x) /\ Bound(x)' = Bound(x) /\ inserts'[x] = inserts[x]
    BY <1>1, <1>8, <1>12 DEF TornInv, Bound
  <2>2. TableOK(x, name, t, inserts[x], clock[x], Bound(x))
    BY <1>1, <1>3, <2>1 DEF Writes, TablesOK, t
  <2>3. \A r \in todo[1].rows : r.by # x
    <3>1. \A r \in todo[1].rows : r.by = s
      BY <1>2, <1>3 DEF Queue
    <3> QED
      BY <1>12, <3>1
  <2>4. /\ TableOK(x, name, new, inserts[x], clock[x], Bound(x))
        /\ By(x, new, ColumnsOf(name)) = By(x, t, ColumnsOf(name))
    BY <1>3, <1>4, <1>5, <2>1, <2>2, <2>3, OtherColumn DEF Writes
  <2>5. TablesOK(x, [tables EXCEPT ![name] = new], inserts[x], clock[x], Bound(x))
    BY <1>3, <1>9, <2>1, <2>4, Replaced DEF Writes
  <2>6. pc[x] = "idle" => NoRows(x, [tables EXCEPT ![name] = new])
    <3> SUFFICES ASSUME pc[x] = "idle" PROVE NoRows(x, [tables EXCEPT ![name] = new])
      OBVIOUS
    <3>1. NoRows(x, tables)
      BY <2>1 DEF Writes
    <3>2. By(x, new, ColumnsOf(name)) = {}
      BY <1>1, <1>3, <2>4, <3>1 DEF NoRows, t
    <3> QED
      BY <1>3, <1>9, <3>1, <3>2, ReplacedNoRows
  <2> QED
    BY <1>1, <2>1, <2>5, <2>6 DEF Writes
<1> QED
  BY <1>10, <1>11, <1>12 DEF TornInv

\* Whole inserts of rows later than those before.
Fresh(s, todo, now, later, bound) ==
  /\ Queue(s, todo, later, bound)
  /\ now <= later
  /\ \A i \in 1 .. Len(todo) :
       /\ Len(todo[i].columns) = Len(ColumnsOf(todo[i].table))
       /\ \A r \in todo[i].rows : now < r.at

LEMMA FreshTables ==
  ASSUME NEW s, NEW T, NEW todo, NEW now \in Nat, NEW later \in Nat, NEW bound, Typed(T),
         TablesOK(s, T, <<>>, now, bound), Fresh(s, todo, now, later, bound)
  PROVE  TablesOK(s, T, todo, later, bound)
<1> SUFFICES ASSUME NEW name \in Names, T[name] # NoTable
             PROVE  TableOK(s, name, T[name], todo, later, bound)
  BY DEF TablesOK
<1> DEFINE Q == By(s, T[name], ColumnsOf(name))
<1>1. T[name] \in TableWith(ColumnsOf(name)) /\ TableOK(s, name, T[name], <<>>, now, bound)
  BY DEF Typed, TablesOK
<1>2. HandIn(<<>>, name) = {} /\ HandAt(<<>>, name) = 1
  BY DEF HandIn, HandAt
<1>3. Written(s, T[name], ColumnsOf(name), {}, 1, bound) /\ \A q \in Q : q.at <= now
  BY <1>1, <1>2 DEF TableOK, Past
<1>4. Q \in SUBSET AnyRow
  BY ByRows
<1> HIDE DEF Q
<1>5. \A q \in Q : q.at \in Nat
  BY <1>4 DEF AnyRow
<1>6. todo \in Seq(AnyInsert(Names)) /\ now <= later
  BY DEF Fresh, Queue
<1>7. \A q \in Q : q.at <= later
  BY <1>3, <1>5, <1>6
<1>8. ASSUME NEW i \in 1 .. Len(todo), NEW q \in Q, NEW r \in todo[i].rows PROVE q.at < r.at
  <2>1. todo[i].rows \in SUBSET AnyRow
    <3>1. todo[i] \in AnyInsert(Names)
      BY <1>6, ElementOfSeq
    <3> QED
      BY <3>1 DEF AnyInsert
  <2>2. r.at \in Nat /\ now < r.at
    BY <2>1 DEF Fresh, AnyRow
  <2> QED
    BY <1>3, <1>5, <2>2
<1>9. Queue(s, todo, later, bound)
  BY DEF Fresh
<1>10. todo # <<>> => Len(todo[1].columns) = Len(ColumnsOf(todo[1].table))
  <2> SUFFICES ASSUME todo # <<>> PROVE Len(todo[1].columns) = Len(ColumnsOf(todo[1].table))
    OBVIOUS
  <2>1. 1 \in 1 .. Len(todo)
    BY <1>9, FirstInsert
  <2> QED
    BY <2>1 DEF Fresh
<1> QED
  BY <1>1, <1>3, <1>7, <1>8, <1>9, <1>10, NextInsert DEF Q

\* A simulator that has no insert left gets new ones.
LEMMA TornFresh ==
  ASSUME Inv, TornInv, NEW s \in Simulators, inserts[s] = <<>>,
         UNCHANGED <<tables, cfg, pc>>, pc[s] # "idle", clock'[s] \in Nat,
         \A x \in Simulators \ {s} : inserts'[x] = inserts[x] /\ clock'[x] = clock[x],
         Fresh(s, inserts'[s], clock[s], clock'[s], Bound(s))
  PROVE  TornInv'
<1>1. ASSUME NEW x \in Simulators, x # s PROVE Writes(x)'
  <2>1. Writes(x) /\ Bound(x)' = Bound(x) /\ inserts'[x] = inserts[x] /\ clock'[x] = clock[x]
    BY <1>1 DEF TornInv, Bound
  <2> QED
    BY <2>1 DEF Writes
<1>2. Writes(s)'
  <2>1. Bound(s)' = Bound(s) /\ clock[s] \in Nat
    BY DEF Bound, Inv, TypeOK
  <2>2. TablesOK(s, tables, <<>>, clock[s], Bound(s)) /\ Typed(tables)
    BY DEF TornInv, Writes
  <2>3. TablesOK(s, tables, inserts'[s], clock'[s], Bound(s))
    BY <2>1, <2>2, FreshTables
  <2>4. Queue(s, inserts'[s], clock'[s], Bound(s))
    BY DEF Fresh
  <2> QED
    BY <2>1, <2>3, <2>4 DEF Writes
<1> QED
  BY <1>1, <1>2 DEF TornInv

LEMMA WholeSuffix ==
  ASSUME NEW C, IsColumns(C) PROVE Suffix(C, C)
<1>1. Len(C) \in Nat
  BY ListProperties DEF IsColumns
<1>2. \A j \in 1 .. Len(C) : Len(C) - Len(C) + j = j
  BY <1>1
<1> QED
  BY <1>1, <1>2 DEF Suffix

\* A table of a trader is none of quotes.
LEMMA TradersApart ==
  ASSUME NEW trader, NEW broker, NEW product PROVE TraderTable(trader) # QuoteTable(broker, product)
<1>1. Len(TraderTable(trader)) = 1 /\ Len(QuoteTable(broker, product)) = 2
  BY DEF TraderTable, QuoteTable
<1> QED
  BY <1>1

\* The rows of a batch, and their number.
LEMMA BatchSize ==
  ASSUME NEW n \in Nat, NEW R, NEW f \in Surjection(1 .. n, R)
  PROVE  IsFiniteSet(R) /\ Cardinality(R) <= n
<1>1. IsFiniteSet(1 .. n) /\ Cardinality(1 .. n) = n
  BY FS_Interval
<1>2. IsFiniteSet(R) /\ Cardinality(R) <= Cardinality(1 .. n)
  BY <1>1, FS_Surjection
<1> QED
  BY <1>1, <1>2

\* One insert of the turn or of the batch, of rows of the instants from a to b.
Single(s, I, a, b, bound) ==
  /\ I \in AnyInsert(Names)
  /\ I.columns = ColumnsOf(I.table)
  /\ IsFiniteSet(I.rows) /\ Cardinality(I.rows) <= bound
  /\ \A r \in I.rows : r.by = s /\ a <= r.at /\ r.at <= b

LEMMA SingleInsert ==
  ASSUME NEW s, NEW I, NEW a, NEW b, NEW bound, Single(s, I, a, b, bound)
  PROVE  /\ Suffix(I.columns, ColumnsOf(I.table)) /\ Len(I.columns) = Len(ColumnsOf(I.table))
         /\ \A r \in I.rows : r.at \in Nat
<1>1. I.rows \in SUBSET AnyRow
  BY DEF Single, AnyInsert
<1>2. \A r \in I.rows : r.at \in Nat
  BY <1>1 DEF AnyRow
<1> QED
  BY <1>2, ColumnsOK, WholeSuffix DEF Single

\* One row is one row.
LEMMA OneRow ==
  ASSUME NEW s \in Simulators, NEW r \in AnyRow, r.by = s, NEW name \in Names
  PROVE  Single(s, [table |-> name, rows |-> {r}, columns |-> ColumnsOf(name)], r.at, r.at, 1)
<1>1. IsFiniteSet({r}) /\ Cardinality({r}) <= 1
  <2>1. IsFiniteSet({r}) /\ Cardinality({r}) = 1
    BY FS_Singleton, Zenon
  <2> QED
    BY <2>1
<1>2. ColumnsOf(name) \in AnyColumns /\ r.at \in Nat
  BY ColumnsType DEF ColumnsOf, AnyRow
<1> DEFINE I == [table |-> name, rows |-> {r}, columns |-> ColumnsOf(name)]
<1>3. I \in AnyInsert(Names) /\ I.table = name /\ I.rows = {r} /\ I.columns = ColumnsOf(name)
  BY <1>2 DEF AnyInsert
<1> HIDE DEF I
<1>4. Single(s, I, r.at, r.at, 1)
  BY <1>1, <1>2, <1>3 DEF Single
<1> QED
  BY <1>4 DEF I

LEMMA FreshBatch ==
  ASSUME Inv, NEW s \in Simulators,
         NEW closes \in [1 .. MinIterations -> {prices[1] : prices \in Market}],
         FastBatch(s, closes)
  PROVE  /\ Fresh(s, inserts'[s], clock[s], clock'[s], Bound(s)) /\ clock'[s] \in Nat
         /\ \A x \in Simulators \ {s} : inserts'[x] = inserts[x] /\ clock'[x] = clock[x]
<1> DEFINE now == clock[s]
           later == clock[s] + MinIterations
           Of(i) == Row(s, clock[s] + i, Products[1], Brokers[1], closes[i])
           f == [i \in 1 .. MinIterations |-> Of(i)]
           rows == {Of(i) : i \in 1 .. MinIterations}
           batch == [table |-> FastTable, rows |-> rows, columns |-> QuoteColumns]
<1>1. now \in Nat /\ MinIterations \in Nat \ {0} /\ later \in Nat /\ now <= later
  BY SimulatorAssumption DEF Inv, TypeOK
<1>2. inserts' = [inserts EXCEPT ![s] = <<batch>>] /\ clock' = [clock EXCEPT ![s] = later]
  BY DEF FastBatch, next_start
<1>3. /\ inserts'[s] = <<batch>> /\ clock'[s] = later
      /\ \A x \in Simulators \ {s} : inserts'[x] = inserts[x] /\ clock'[x] = clock[x]
  <2> HIDE DEF batch, later
  <2> QED
    BY <1>2 DEF Inv, Destined, TypeOK
<1>4. Bound(s) = MinIterations
  BY DEF FastBatch, Bound
<1>5. \A i \in 1 .. MinIterations :
        Of(i).by = s /\ Of(i).at = now + i /\ now + 1 <= now + i /\ now + i <= later
  BY <1>1 DEF Row
<1>6. f \in Surjection(1 .. MinIterations, rows)
  BY DEF Surjection
<1>7. IsFiniteSet(rows) /\ Cardinality(rows) <= MinIterations
  BY <1>1, <1>6, BatchSize
<1>8. FastTable \in QuoteTables
  <2>1. 1 \in 1 .. NB /\ 1 \in 1 .. NP
    BY Lists
  <2> QED
    BY <2>1, Lists DEF FastTable, QuoteTables
<1>9. <<batch>> \in Seq(AnyInsert(Range(Setup(s))))
  BY <1>3, BatchInserts DEF Inv
<1>10. batch \in AnyInsert(Names)
  <2>1. batch \in AnyInsert(Range(Setup(s)))
    <3> HIDE DEF batch
    <3>1. 1 \in 1 .. Len(<<batch>>) /\ <<batch>>[1] = batch
      OBVIOUS
    <3> QED
      BY <1>9, <3>1, ElementOfSeq
  <2> QED
    BY <1>8, <2>1 DEF AnyInsert, Names
<1>11. Single(s, batch, now + 1, later, Bound(s))
  BY <1>4, <1>5, <1>7, <1>8, <1>10 DEF Single, ColumnsOf
<1> HIDE DEF batch, rows, later, now
<1>12. Fresh(s, <<batch>>, now, later, Bound(s))
  <2>1. Len(<<batch>>) = 1 /\ <<batch>>[1] = batch /\ <<batch>> \in Seq(AnyInsert(Names))
    BY <1>10
  <2>2. \A r \in batch.rows : r.by = s /\ now < r.at /\ r.at <= later
    <3>1. \A r \in batch.rows : r.at \in Nat
      BY <1>11, SingleInsert
    <3>2. \A r \in batch.rows : r.by = s /\ now + 1 <= r.at /\ r.at <= later
      BY <1>11 DEF Single
    <3> QED
      BY <1>1, <3>1, <3>2
  <2>3. IsFiniteSet(batch.rows) /\ Cardinality(batch.rows) <= Bound(s)
    BY <1>11 DEF Single
  <2>4. Suffix(batch.columns, ColumnsOf(batch.table)) /\ Len(batch.columns) = Len(ColumnsOf(batch.table))
    BY <1>11, SingleInsert
  <2>5. \A i \in 1 .. Len(<<batch>>) : i = 1
    BY <2>1
  <2>6. Queue(s, <<batch>>, later, Bound(s))
    BY <2>1, <2>2, <2>3, <2>4, <2>5 DEF Queue
  <2> QED
    BY <1>1, <2>1, <2>2, <2>4, <2>5, <2>6 DEF Fresh
<1> QED
  BY <1>1, <1>3, <1>12 DEF now, later

LEMMA FreshTurn ==
  ASSUME Inv, NEW s \in Simulators, NEW p \in Range(Products), NEW closes \in Market,
         TraderTurn(s, p, closes)
  PROVE  /\ Fresh(s, inserts'[s], clock[s], clock'[s], Bound(s)) /\ clock'[s] \in Nat
         /\ \A x \in Simulators \ {s} : inserts'[x] = inserts[x] /\ clock'[x] = clock[x]
<1> DEFINE now == clock[s]
           later == clock[s] + NB + 1
           trader == Traders[(round[s] % NT) + 1]
           quotes == get_quotes(s, p, closes)
           name == TraderTable(trader)
           traded(b) == Row(s, clock[s] + NB + 1, p, Brokers[b], quotes[b].price)
           trade(b) == [table |-> name, rows |-> {traded(b)}, columns |-> TradeColumns]
           quoted == [i \in 1 .. NB |->
                        [table   |-> QuoteTable(Brokers[i], p),
                         rows    |-> {quotes[i]},
                         columns |-> QuoteColumns]]
<1>1. now \in Nat /\ NB \in Nat \ {0} /\ later \in Nat /\ now <= later /\ now + NB + 1 = later
  BY Lists DEF Inv, TypeOK
<1>2. PICK b \in choose_quote(trader, quotes) :
        inserts' = [inserts EXCEPT ![s] = <<trade(b)>> \o quoted]
  BY DEF TraderTurn
<1>3. \A i \in 1 .. NB : closes[i] \in Nat
  BY SimulatorAssumption DEF NB
<1>4. \A i \in 1 .. NB :
        /\ quotes[i] \in AnyRow /\ quotes[i].price \in Nat
        /\ quotes[i].by = s /\ quotes[i].at = now + i
  <2> SUFFICES ASSUME NEW i \in 1 .. NB
               PROVE  /\ quotes[i] \in AnyRow /\ quotes[i].price \in Nat
                      /\ quotes[i].by = s /\ quotes[i].at = now + i
    OBVIOUS
  <2>1. quotes[i] = Row(s, clock[s] + i, p, Brokers[i], closes[i])
    BY DEF get_quotes
  <2>2. clock[s] + i \in Nat
    BY <1>1
  <2> QED
    BY <1>3, <2>1, <2>2, Lists, RowType DEF Row
<1> HIDE DEF quotes
<1>5. b \in 1 .. NB
  BY <1>2, <1>4, ChooseType
<1>6. traded(b) \in AnyRow /\ traded(b).by = s /\ traded(b).at = later
  BY <1>1, <1>4, <1>5, Lists, RowType DEF Row
<1>7. Bound(s) = 1
  BY DEF TraderTurn, Bound
<1>8. name \in Names /\ ColumnsOf(name) = TradeColumns /\ \A i \in 1 .. NB : name # QuoteTable(Brokers[i], p)
  <2>1. (round[s] % NT) + 1 \in 1 .. NT
    <3>1. round[s] \in Nat /\ NT \in Nat \ {0}
      BY Lists DEF Inv, TypeOK
    <3> QED
      BY <3>1
  <2>2. name \in TraderTables
    BY <2>1, Lists DEF TraderTables
  <2> HIDE DEF trader
  <2>3. name \notin QuoteTables
    BY TradersApart DEF QuoteTables
  <2> QED
    BY <2>2, <2>3, TradersApart DEF Names, ColumnsOf
<1>9. \A i \in 1 .. NB :
        QuoteTable(Brokers[i], p) \in Names /\ ColumnsOf(QuoteTable(Brokers[i], p)) = QuoteColumns
  <2>1. \A i \in 1 .. NB : QuoteTable(Brokers[i], p) \in QuoteTables
    BY Lists DEF QuoteTables
  <2> QED
    BY <2>1 DEF Names, ColumnsOf
<1> HIDE DEF later, now, name
<1>10. Single(s, trade(b), later, later, 1)
  <2> HIDE DEF traded
  <2>1. Single(s, [table |-> name, rows |-> {traded(b)}, columns |-> ColumnsOf(name)],
               traded(b).at, traded(b).at, 1)
    BY <1>6, <1>8, OneRow
  <2> QED
    BY <1>6, <1>8, <2>1
<1>11. ASSUME NEW i \in 1 .. NB PROVE Single(s, quoted[i], now + i, now + i, 1)
  <2> DEFINE n == QuoteTable(Brokers[i], p)
  <2>1. n \in Names /\ ColumnsOf(n) = QuoteColumns
    BY <1>9
  <2>2. quoted[i] = [table |-> n, rows |-> {quotes[i]}, columns |-> QuoteColumns]
    OBVIOUS
  <2> HIDE DEF n, quoted
  <2>3. Single(s, [table |-> n, rows |-> {quotes[i]}, columns |-> ColumnsOf(n)],
               quotes[i].at, quotes[i].at, 1)
    BY <1>4, <2>1, OneRow
  <2> QED
    BY <1>4, <2>1, <2>2, <2>3
<1>12. trade(b).table = name /\ \A i \in 1 .. NB : quoted[i].table = QuoteTable(Brokers[i], p)
  OBVIOUS
<1>13. quoted \in [1 .. NB -> AnyInsert(Names)]
  BY <1>11 DEF Single
<1> DEFINE first == trade(b)
           todo == <<first>> \o quoted
<1>14. first \in AnyInsert(Names) /\ first.table = name /\ Single(s, first, later, later, 1)
  BY <1>10, <1>12 DEF Single
<1> HIDE DEF quoted, first
<1>15. /\ todo \in Seq(AnyInsert(Names)) /\ Len(todo) = NB + 1 /\ todo[1] = first
       /\ \A i \in 1 .. NB + 1 : i = 1 \/ (i - 1 \in 1 .. NB /\ todo[i] = quoted[i - 1])
  <2> DEFINE AI == AnyInsert(Names)
  <2>1. quoted \in [1 .. NB -> AI] /\ first \in AI
    BY <1>13, <1>14
  <2> HIDE DEF AI
  <2>2. quoted \in Seq(AI)
    BY <1>1, <2>1, SeqDef
  <2>3. Len(quoted) = NB
    BY <1>1, <2>1, <2>2, LenProperties
  <2>4. <<first>> \in Seq(AI) /\ Len(<<first>>) = 1 /\ <<first>>[1] = first
    BY <2>1
  <2>5. /\ todo \in Seq(AI) /\ Len(todo) = 1 + NB
        /\ \A i \in 1 .. 1 + NB : todo[i] = IF i <= 1 THEN <<first>>[i] ELSE quoted[i - 1]
    BY <2>2, <2>3, <2>4, ConcatProperties
  <2> HIDE DEF todo
  <2>6. 1 + NB = NB + 1 /\ 1 \in 1 .. NB + 1
    BY <1>1
  <2>7. todo[1] = first
    BY <2>4, <2>5, <2>6
  <2>8. \A i \in 1 .. NB + 1 : i = 1 \/ (i - 1 \in 1 .. NB /\ todo[i] = quoted[i - 1])
    BY <1>1, <2>5, <2>6
  <2> QED
    BY <2>5, <2>6, <2>7, <2>8 DEF AI
<1> HIDE DEF todo
<1>16. Fresh(s, todo, now, later, 1)
  <2>1. ASSUME NEW i \in 1 .. Len(todo)
        PROVE  \E at \in Nat : /\ Single(s, todo[i], at, at, 1)
                               /\ now < at /\ at <= later
                               /\ i > 1 => at = now + (i - 1)
    <3>1. CASE i = 1
      <4>1. Single(s, todo[i], later, later, 1)
        BY <1>14, <1>15, <3>1
      <4> QED
        BY <1>1, <3>1, <4>1
    <3>2. CASE i # 1
      <4>1. i - 1 \in 1 .. NB /\ todo[i] = quoted[i - 1]
        BY <1>15, <3>2
      <4>2. Single(s, todo[i], now + (i - 1), now + (i - 1), 1)
        BY <1>11, <4>1
      <4>3. now + (i - 1) \in Nat /\ now < now + (i - 1) /\ now + (i - 1) <= later
        BY <1>1, <4>1
      <4> QED
        BY <4>2, <4>3
    <3> QED
      BY <3>1, <3>2
  <2>2. ASSUME NEW i \in 1 .. Len(todo)
        PROVE  /\ IsFiniteSet(todo[i].rows) /\ Cardinality(todo[i].rows) <= 1
               /\ \A r \in todo[i].rows : r.by = s /\ now < r.at /\ r.at <= later
               /\ \A r \in todo[i].rows : i > 1 => r.at = now + (i - 1)
               /\ Suffix(todo[i].columns, ColumnsOf(todo[i].table))
               /\ Len(todo[i].columns) = Len(ColumnsOf(todo[i].table))
    <3>1. PICK at \in Nat : /\ Single(s, todo[i], at, at, 1)
                            /\ now < at /\ at <= later
                            /\ i > 1 => at = now + (i - 1)
      BY <2>1
    <3>2. /\ Suffix(todo[i].columns, ColumnsOf(todo[i].table))
          /\ Len(todo[i].columns) = Len(ColumnsOf(todo[i].table))
          /\ \A r \in todo[i].rows : r.at \in Nat
      BY <3>1, SingleInsert
    <3>3. /\ IsFiniteSet(todo[i].rows) /\ Cardinality(todo[i].rows) <= 1
          /\ \A r \in todo[i].rows : r.by = s /\ at <= r.at /\ r.at <= at
      BY <3>1 DEF Single
    <3>4. \A r \in todo[i].rows : r.at = at
      BY <3>2, <3>3
    <3> QED
      BY <3>1, <3>2, <3>3, <3>4
  <2>3. ASSUME NEW i \in 1 .. Len(todo), NEW j \in 1 .. Len(todo), i < j, todo[i].table = todo[j].table,
               NEW q \in todo[i].rows, NEW r \in todo[j].rows
        PROVE  q.at < r.at
    <3>1. i \in 1 .. NB + 1 /\ j \in 1 .. NB + 1 /\ j > 1
      BY <1>1, <1>15, <2>3
    <3>2. i # 1
      BY <1>8, <1>12, <1>14, <1>15, <2>3, <3>1
    <3>3. q.at = now + (i - 1) /\ r.at = now + (j - 1)
      BY <2>2, <3>1, <3>2
    <3> QED
      BY <1>1, <2>3, <3>1, <3>3
  <2>4. Queue(s, todo, later, 1)
    BY <1>15, <2>2, <2>3 DEF Queue
  <2> QED
    BY <1>1, <2>2, <2>4 DEF Fresh
<1>17. clock' = [clock EXCEPT ![s] = later] /\ inserts' = [inserts EXCEPT ![s] = todo]
  BY <1>2 DEF TraderTurn, later, todo, first
<1>18. /\ inserts'[s] = todo /\ clock'[s] = later
       /\ \A x \in Simulators \ {s} : inserts'[x] = inserts[x] /\ clock'[x] = clock[x]
  BY <1>17 DEF Inv, Destined, TypeOK
<1> QED
  BY <1>1, <1>7, <1>16, <1>18 DEF now

\* What a step does, for all actions.
LEMMA StepEffect ==
  ASSUME Inv, TornInv, Next
  PROVE  \/ UNCHANGED tables
         \/ \E name \in Names : Removes(name)
         \/ \E s \in Simulators, name \in Names : Creates(s, name)
         \/ \E name \in Names : Tags(name)
         \/ \E s \in Simulators : Puts(s)
<1>1. PICK s \in Simulators : (\E c \in Configs[s] : Start(s, c)) \/ Advance(s) \/ Fail(s)
  BY DEF Next
<1>2. CASE RemoveTable(s) \/ CreateTable(s) \/ TagTable(s) \/ InsertColumn(s)
  BY <1>2, RemoveEffect, CreateEffect, TagEffect, InsertEffect
<1>3. CASE ~(RemoveTable(s) \/ CreateTable(s) \/ TagTable(s) \/ InsertColumn(s))
  BY <1>1, <1>3 DEF Advance, Start, CreateEntries, TraderTurn, FastBatch, Finish, Fail, db
<1> QED
  BY <1>2, <1>3

LEMMA TornStep == Inv /\ TornInv /\ [Next]_vars => TornInv'
<1> SUFFICES ASSUME Inv, TornInv, [Next]_vars PROVE TornInv'
  OBVIOUS
<1>1. ASSUME UNCHANGED vars PROVE TornInv'
  BY <1>1, TornQuiet DEF vars, db, locals
<1>2. ASSUME Rests, tables' = tables PROVE TornInv'
  BY <1>2, TornQuiet DEF Rests, Working
<1>3. ASSUME NEW s \in Simulators, RemoveTable(s) \/ CreateTable(s) \/ TagTable(s) \/ InsertColumn(s)
      PROVE  TornInv'
  BY <1>2, <1>3, RemoveEffect, CreateEffect, TagEffect, InsertEffect,
     TornRemoves, TornCreates, TornTags, TornPuts
<1>4. ASSUME NEW s \in Simulators, CreateEntries(s) \/ Finish(s) \/ Fail(s) PROVE TornInv'
  <2>1. UNCHANGED <<tables, inserts, clock, cfg>>
    BY <1>4 DEF CreateEntries, Finish, Fail, db, locals
  <2>2. pc' = [pc EXCEPT ![s] = pc'[s]] /\ pc'[s] # "idle"
    BY <1>4 DEF CreateEntries, Finish, Fail, GoTo, Inv, TypeOK
  <2>3. Working
    BY <2>2 DEF Working, Inv, TypeOK
  <2> QED
    BY <1>2, <2>1, <2>3 DEF Rests
<1>5. ASSUME NEW s \in Simulators, NEW p \in Range(Products), NEW closes \in Market,
             TraderTurn(s, p, closes)
      PROVE  TornInv'
  <2>1. inserts[s] = <<>> /\ UNCHANGED <<tables, cfg, pc>> /\ pc[s] # "idle"
    BY <1>5 DEF TraderTurn, Ready, db
  <2> QED
    BY <1>5, <2>1, FreshTurn, TornFresh
<1>6. ASSUME NEW s \in Simulators,
             NEW closes \in [1 .. MinIterations -> {prices[1] : prices \in Market}],
             FastBatch(s, closes)
      PROVE  TornInv'
  <2>1. inserts[s] = <<>> /\ UNCHANGED <<tables, cfg, pc>> /\ pc[s] # "idle"
    BY <1>6 DEF FastBatch, Ready, db
  <2> QED
    BY <1>6, <2>1, FreshBatch, TornFresh
<1>7. ASSUME NEW s \in Simulators, NEW c \in Configs[s], Start(s, c) PROVE TornInv'
  BY <1>7, TornStart
<1> QED
  BY <1>1, <1>3, <1>4, <1>5, <1>6, <1>7 DEF Next, Advance

LEMMA TornInvariance == Spec => [](Inv /\ TornInv)
<1>1. Init => Inv /\ TornInv
  BY InitInv, TornInit
<1>2. (Inv /\ TornInv) /\ [Next]_vars => (Inv /\ TornInv)'
  BY InvStep, TornStep
<1> QED
  BY <1>1, <1>2, PTL DEF Spec

-----------------------------------------------------------------------------
(***************************************************************************)
(* What a reader of the tables sees.                                       *)
(***************************************************************************)
LEMMA ReadColumns ==
  ASSUME NEW C, IsColumns(C), NEW t \in TableWith(C)
  PROVE  /\ UNION Range(t.columns) = AllOf(t, C)
         /\ {r \in UNION Range(t.columns) : \A rows \in Range(t.columns) : r \in rows} = WholeOf(t, C)
<1>1. t.columns \in [Range(C) -> SUBSET AnyRow]
  BY Cells
<1>2. \A rows \in Range(t.columns) : \E j \in 1 .. Len(C) : rows = t.columns[C[j]]
  BY <1>1, Cells DEF Range
<1>3. \A j \in 1 .. Len(C) : t.columns[C[j]] \in Range(t.columns) /\ t.columns[C[j]] \subseteq AnyRow
  BY <1>1, Cells DEF Range
<1>4. UNION Range(t.columns) = AllOf(t, C)
  BY <1>2, <1>3 DEF AllOf
<1>5. \A r \in AnyRow : (\A rows \in Range(t.columns) : r \in rows) <=> r \in WholeOf(t, C)
  BY <1>2, <1>3 DEF WholeOf
<1>6. AllOf(t, C) \subseteq AnyRow /\ WholeOf(t, C) \subseteq AllOf(t, C) /\ WholeOf(t, C) \subseteq AnyRow
  BY WholeIsAll DEF AllOf, WholeOf
<1> QED
  BY <1>4, <1>5, <1>6

\* The rows of all tables.
LEMMA Reading ==
  ASSUME TornInv, NEW name \in Names
  PROVE  /\ Exists(name) => /\ RowsIn(name) = AllOf(tables[name], ColumnsOf(name))
                            /\ WholeIn(name) = WholeOf(tables[name], ColumnsOf(name))
         /\ ~Exists(name) => RowsIn(name) = {} /\ WholeIn(name) = {}
<1>1. CASE Exists(name)
  <2>1. tables[name] \in TableWith(ColumnsOf(name)) /\ InColumns(name) = Range(tables[name].columns)
    BY <1>1 DEF TornInv, Typed, Exists, InColumns
  <2> QED
    BY <1>1, <2>1, ReadColumns, ColumnsOK DEF RowsIn, WholeIn
<1>2. CASE ~Exists(name)
  BY <1>2 DEF RowsIn, WholeIn, InColumns
<1> QED
  BY <1>1, <1>2

LEMMA TornInvTorn == TornInv => TornRows
<1> SUFFICES ASSUME TornInv, NEW s \in Simulators, NEW name \in Names,
                    RowsOf(s, name) \ (WholeIn(name) \cup InHand(s)) # {}
             PROVE  LET torn == RowsOf(s, name) \ (WholeIn(name) \cup InHand(s))
                    IN  /\ Owner(name) # s
                        /\ Cardinality(torn) <= IF cfg[s].fast THEN MinIterations ELSE 1
                        /\ torn \cap tables[name].columns[ColumnsOf(name)[1]] = {}
  BY DEF TornRows
<1> DEFINE torn == RowsOf(s, name) \ (WholeIn(name) \cup InHand(s))
           t == tables[name]
           C == ColumnsOf(name)
           R == HandIn(inserts[s], name)
           T == By(s, t, C) \ (WholeOf(t, C) \cup R)
<1>1. Exists(name) /\ RowsIn(name) = AllOf(t, C) /\ WholeIn(name) = WholeOf(t, C)
  BY Reading DEF RowsOf
<1>2. RowsOf(s, name) = By(s, t, C)
  BY <1>1 DEF RowsOf, By
<1>3. Queue(s, inserts[s], clock[s], Bound(s))
  BY DEF TornInv, Writes
<1>4. R \subseteq InHand(s)
  <2>1. CASE inserts[s] = <<>>
    BY <2>1 DEF HandIn
  <2>2. CASE inserts[s] # <<>>
    <3>1. Head(inserts[s]) = inserts[s][1]
      BY <1>3, <2>2, FirstInsert
    <3> QED
      BY <2>2, <3>1 DEF HandIn, InHand, Insert
  <2> QED
    BY <2>1, <2>2
<1>5. torn \subseteq T /\ torn # {}
  BY <1>1, <1>2, <1>4
<1>6. Written(s, t, C, R, HandAt(inserts[s], name), Bound(s))
  BY <1>1 DEF TornInv, Writes, TablesOK, TableOK, Exists
<1>7. ~Cut(s, t, C, R, HandAt(inserts[s], name))
  BY <1>5 DEF Cut
<1>8. /\ t.owner # s
      /\ IsFiniteSet(T) /\ Cardinality(T) <= Bound(s)
      /\ T \cap t.columns[C[1]] = {}
  BY <1>5, <1>6, <1>7 DEF Written, Whole
<1> HIDE DEF T, torn
<1>9. IsFiniteSet(torn) /\ Cardinality(torn) <= Cardinality(T)
  BY <1>5, <1>8, FS_Subset
<1>10. Cardinality(torn) <= Bound(s)
  <2>1. Cardinality(torn) \in Nat /\ Cardinality(T) \in Nat /\ Bound(s) \in Nat
    BY <1>8, <1>9, FS_CardinalityType, BoundType
  <2> QED
    BY <1>8, <1>9, <2>1
<1>11. Owner(name) # s
  BY <1>1, <1>8 DEF Owner
<1>12. torn \cap t.columns[C[1]] = {}
  BY <1>5, <1>8
<1> QED
  BY <1>10, <1>11, <1>12 DEF torn, Bound

\* Few rows are torn, whatever the number of simulators, of products, of traders and of
\* columns: only those of the inserts that another simulator's table has cut in two.
THEOREM FewRowsTorn == Spec => []TornRows
BY TornInvariance, TornInvTorn, PTL

\* The other tables are as they were.
LEMMA OtherTables ==
  ASSUME Inv, NEW name \in Names, NEW new, tables' = [tables EXCEPT ![name] = new]
  PROVE  /\ tables'[name] = new
         /\ \A n \in Names \ {name} : (Exists(n)' <=> Exists(n)) /\ WholeIn(n)' = WholeIn(n)
<1>1. tables'[name] = new /\ \A n \in Names \ {name} : tables'[n] = tables[n]
  BY DEF Inv, TypeOK
<1> QED
  BY <1>1 DEF Exists, WholeIn, RowsIn, InColumns

LEMMA ViewRemoves ==
  ASSUME Inv, TornInv, TornInv', NEW name \in Names, Removes(name)
  PROVE  [View!Next]_<<TablesThere, WholeThere>>
<1>1. tables'[name] = NoTable
      /\ \A n \in Names \ {name} : (Exists(n)' <=> Exists(n)) /\ WholeIn(n)' = WholeIn(n)
  BY OtherTables DEF Removes
<1>2. ~Exists(name)' /\ WholeIn(name)' = {}
  BY <1>1 DEF Exists, WholeIn, RowsIn, InColumns
<1>3. TablesThere' = TablesThere \ {name} /\ WholeThere' = [WholeThere EXCEPT ![name] = {}]
  BY <1>1, <1>2 DEF TablesThere, WholeThere
<1>4. CASE Exists(name)
  <2>1. name \in TablesThere
    BY <1>4 DEF TablesThere
  <2>2. View!Drop(name)
    BY <1>3, <2>1 DEF View!Drop
  <2> QED
    BY <2>2 DEF View!Next
<1>5. CASE ~Exists(name)
  <2>1. WholeIn(name) = {}
    BY <1>5, Reading
  <2>2. WholeThere' = WholeThere
    BY <1>1, <1>2, <2>1 DEF WholeThere
  <2>3. TablesThere' = TablesThere
    BY <1>3, <1>5 DEF TablesThere
  <2> QED
    BY <2>2, <2>3
<1> QED
  BY <1>4, <1>5

LEMMA ViewCreates ==
  ASSUME Inv, TornInv, TornInv', NEW s \in Simulators, NEW name \in Names, Creates(s, name)
  PROVE  View!Next
<1>1. /\ tables'[name] = EmptyTable(s, name) /\ ~Exists(name)
      /\ \A n \in Names \ {name} : (Exists(n)' <=> Exists(n)) /\ WholeIn(n)' = WholeIn(n)
  BY OtherTables DEF Creates
<1>2. Exists(name)'
  BY <1>1, EmptyTableType, SimulatorAssumption DEF Exists
<1>3. WholeIn(name)' = {}
  <2>1. WholeOf(EmptyTable(s, name), ColumnsOf(name)) = {}
    <3>1. Queue(s, inserts[s], clock[s], Bound(s)) /\ inserts[s] = <<>>
      BY DEF TornInv, Writes, Creates
    <3> QED
      BY <3>1, NewTable
  <2>2. WholeIn(name)' = WholeOf(tables'[name], ColumnsOf(name))
    <3>1. (TornInv => (Exists(name) => WholeIn(name) = WholeOf(tables[name], ColumnsOf(name))))'
      BY Reading, PTL
    <3> QED
      BY <1>2, <3>1
  <2> QED
    BY <1>1, <2>1, <2>2
<1>4. WholeIn(name) = {}
  BY <1>1, Reading
<1>5. WholeThere' = WholeThere
  BY <1>1, <1>3, <1>4 DEF WholeThere
<1>6. name \notin TablesThere /\ TablesThere' = TablesThere \cup {name}
  BY <1>1, <1>2 DEF TablesThere
<1>7. View!Create(name)
  BY <1>5, <1>6 DEF View!Create
<1> QED
  BY <1>7 DEF View!Next

LEMMA ViewTags ==
  ASSUME Inv, TornInv, TornInv', NEW name \in Names, Tags(name)
  PROVE  UNCHANGED <<TablesThere, WholeThere>>
<1> DEFINE t == tables[name]
           C == ColumnsOf(name)
<1>1. /\ tables'[name] = [t EXCEPT !.tagged = TRUE] /\ Exists(name)
      /\ \A n \in Names \ {name} : (Exists(n)' <=> Exists(n)) /\ WholeIn(n)' = WholeIn(n)
  BY OtherTables DEF Tags
<1>2. t \in TableWith(C) /\ t \in AnyTable
  BY <1>1 DEF TornInv, Typed, Exists, AnyTable, ColumnsOf
<1>3. Exists(name)'
  BY <1>1, <1>2, TagType, SimulatorAssumption DEF Exists
<1>4. tables'[name].columns = t.columns
  BY <1>1, <1>2 DEF TableWith
<1>5. WholeIn(name)' = WholeIn(name)
  BY <1>1, <1>3, <1>4 DEF WholeIn, RowsIn, InColumns
<1> QED
  BY <1>1, <1>3, <1>5 DEF TablesThere, WholeThere

\* The rows of a column come in whole or not at all, after those of s that are whole.
LEMMA ViewPuts ==
  ASSUME Inv, TornInv, TornInv', NEW s \in Simulators, Puts(s)
  PROVE  View!Next
<1>0. PICK name \in Names : name = inserts[s][1].table
  BY FirstInsert DEF Puts, TornInv, Writes
<1> DEFINE todo == inserts[s]
           C == ColumnsOf(name)
           t == tables[name]
           R == todo[1].rows
           k == HandAt(todo, name)
           u == With(t, C[k], R)
<1>1. Queue(s, todo, clock[s], Bound(s)) /\ todo # <<>> /\ Exists(name)
  BY <1>0 DEF Puts, TornInv, Writes
<1>2. /\ name \in Names /\ R \in SUBSET AnyRow /\ 1 \in 1 .. Len(todo)
      /\ k \in 1 .. Len(C) /\ Head(todo[1].columns) = C[k] /\ HandIn(todo, name) = R
  BY <1>0, <1>1, FirstInsert
<1>3. /\ t \in TableWith(C) /\ IsColumns(C)
      /\ Written(s, t, C, R, k, Bound(s)) /\ Past(name, By(s, t, C), todo, clock[s])
  BY <1>1, <1>2, ColumnsOK DEF TornInv, Writes, Typed, TablesOK, TableOK, Exists
<1>4. tables' = [tables EXCEPT ![name] = u]
  BY <1>0, <1>2 DEF Puts, Put
<1>5. \A r \in R : r.by = s
  BY <1>1, <1>2 DEF Queue
<1> HIDE DEF k, C, R, t, u, todo
<1>6. /\ tables'[name] = u
      /\ \A n \in Names \ {name} : (Exists(n)' <=> Exists(n)) /\ WholeIn(n)' = WholeIn(n)
  BY <1>2, <1>4, OtherTables
<1>7. u \in TableWith(C)
  BY <1>2, <1>3, CellsWith DEF u
<1>8. Exists(name)'
  <2>1. u \in AnyTable
    BY <1>7 DEF AnyTable, C, ColumnsOf
  <2> QED
    BY <1>6, <2>1, SimulatorAssumption DEF Exists
<1>9. WholeIn(name) = WholeOf(t, C)
  BY <1>1, <1>2, Reading DEF t, C
<1>10. WholeIn(name)' = WholeOf(u, C)
  <2>1. InColumns(name)' = Range(u.columns)
    BY <1>6, <1>8 DEF InColumns
  <2> QED
    BY <1>3, <1>7, <2>1, ReadColumns DEF WholeIn, RowsIn
<1>11. /\ WholeOf(t, C) \subseteq WholeOf(u, C)
       /\ WholeOf(u, C) \ WholeOf(t, C) \subseteq R
  BY <1>2, <1>3, SetsWith DEF u
<1>12. ASSUME NEW q \in WholeOf(t, C), NEW r \in WholeOf(u, C) \ WholeOf(t, C), q.by = r.by
       PROVE  q.at < r.at
  <2>1. r \in R /\ q.by = s
    BY <1>5, <1>11, <1>12
  <2>2. q \in By(s, t, C)
    BY <1>3, <2>1, WholeIsAll DEF By
  <2>3. q \notin R
    <3>1. k \in k .. Len(C)
      BY <1>2, <1>3, Cells
    <3>2. q \in t.columns[C[k]]
      BY <1>2 DEF WholeOf
    <3> QED
      BY <1>3, <3>1, <3>2 DEF Written
  <2>4. todo[1].table = name /\ todo[1].rows = R
    BY <1>0 DEF todo, R
  <2> QED
    BY <1>2, <1>3, <2>1, <2>2, <2>3, <2>4 DEF Past
<1>13. TablesThere' = TablesThere /\ name \in TablesThere
  BY <1>1, <1>2, <1>6, <1>8 DEF TablesThere
<1>14. /\ WholeThere[name] = WholeOf(t, C) /\ WholeThere'[name] = WholeOf(u, C)
       /\ WholeThere' = [WholeThere EXCEPT ![name] = WholeThere'[name]]
  BY <1>2, <1>6, <1>9, <1>10 DEF WholeThere
<1>15. View!Later(WholeOf(t, C), WholeOf(u, C) \ WholeOf(t, C))
  <2>1. \A q, r \in WholeOf(u, C) \ WholeOf(t, C) : q.by = r.by
    BY <1>5, <1>11
  <2> QED
    BY <1>12, <2>1 DEF View!Later
<1>16. View!Insert(name)
  BY <1>11, <1>13, <1>14, <1>15 DEF View!Insert
<1> QED
  BY <1>2, <1>16 DEF View!Next

\* To a program that reads only whole rows the inserts of every simulator are atomic and
\* in the order of their instants, whoever fails, is killed or has its tables removed.
THEOREM WholeRowsRefined == Spec => ReadersSeeWholeRows
<1>1. Init => View!Init
  <2> SUFFICES ASSUME Init PROVE View!Init
    OBVIOUS
  <2>1. \A name \in Names : ~Exists(name)
    BY DEF Init, Exists
  <2>2. TablesThere = {} /\ WholeThere = [name \in Names |-> {}]
    BY <2>1 DEF TablesThere, WholeThere, WholeIn, RowsIn, InColumns
  <2> QED
    BY <2>2 DEF View!Init
<1>2. (Inv /\ TornInv) /\ (Inv /\ TornInv)' /\ [Next]_vars => [View!Next]_<<TablesThere, WholeThere>>
  <2> SUFFICES ASSUME Inv, TornInv, TornInv', [Next]_vars
               PROVE  [View!Next]_<<TablesThere, WholeThere>>
    OBVIOUS
  <2>1. ASSUME UNCHANGED tables PROVE UNCHANGED <<TablesThere, WholeThere>>
    BY <2>1 DEF TablesThere, WholeThere, WholeIn, RowsIn, InColumns, Exists
  <2>2. CASE Next
    BY <2>1, <2>2, StepEffect, ViewRemoves, ViewCreates, ViewTags, ViewPuts
  <2>3. CASE UNCHANGED vars
    BY <2>1, <2>3 DEF vars, db
  <2> QED
    BY <2>2, <2>3
<1> QED
  BY <1>1, <1>2, TornInvariance, PTL DEF Spec, ReadersSeeWholeRows, View!Spec

-----------------------------------------------------------------------------
(***************************************************************************)
(* What a simulator has written.  Its ledger has, for each table, its rows *)
(* that are in the table, whole or not, and those it has still to insert:  *)
(* a column that goes in leaves the ledger alone, a turn or a batch adds   *)
(* to it, and rows leave it only when another simulator removes the table. *)
(***************************************************************************)
\* The rows of s that a table has or will have.
Due(todo, name) == UNION {todo[i].rows : i \in {j \in 1 .. Len(todo) : todo[j].table = name}}

Present(s, T, name) == IF T[name] = NoTable THEN {} ELSE By(s, T[name], ColumnsOf(name))

Ledger(s, T, todo) == [name \in Names |-> Present(s, T, name) \cup Due(todo, name)]

Mine(s, T) == {name \in Names : T[name] # NoTable /\ T[name].owner = s}

\* The instants of the trades of the first n turns, and those of the quotes.
TradeInstants(n) == {k * (NB + 1) : k \in 1 .. n}
QuoteInstants(n) == (1 .. n * (NB + 1)) \ TradeInstants(n)

\* Tables have rows of these instants only, and of all of them if none has been taken away.
Only(K, names, instants) == \A name \in names : \A r \in K[name] : r.at \in instants

Full(K, mine, names, instants) ==
  names \subseteq mine => \A i \in instants : \E name \in names : \E r \in K[name] : r.at = i

\* A quote of each broker comes with the trade, and one of them is the one that was taken;
QuotedBy(K, trade, b) ==
  \E name \in QuoteTables : \E q \in K[name] :
    q.at = trade.at - (NB + 1) + b /\ q.broker = Brokers[b]

TakenFrom(K, trade) ==
  \E name \in QuoteTables : \E q \in K[name] :
    /\ q.at \in trade.at - NB .. trade.at - 1
    /\ q.product = trade.product /\ q.broker = trade.broker /\ q.price = trade.price

Backed(K, mine) ==
  QuoteTables \subseteq mine =>
    \A name \in TraderTables : \A trade \in K[name] :
      TakenFrom(K, trade) /\ \A b \in 1 .. NB : QuotedBy(K, trade, b)

\* and a trader that is no cheater has taken none that is dearer than another.
Cheapest(K) ==
  \A t \in Range(Traders) \ Cheaters : \A trade \in K[TraderTable(t)] :
    \A name \in QuoteTables : \A q \in K[name] :
      q.at \in trade.at - NB .. trade.at - 1 => q.price >= trade.price

Trading(K, mine, n) ==
  /\ Only(K, TraderTables, TradeInstants(n)) /\ Full(K, mine, TraderTables, TradeInstants(n))
  /\ Only(K, QuoteTables, QuoteInstants(n)) /\ Full(K, mine, QuoteTables, QuoteInstants(n))
  /\ Backed(K, mine)
  /\ Cheapest(K)

Batches(K, mine, now) ==
  /\ Only(K, TraderTables, {}) /\ Only(K, QuoteTables, 1 .. now)
  /\ Full(K, mine, {FastTable}, 1 .. now)
  /\ \A q, r \in K[FastTable] : q.at = r.at => q = r

Booked(K, mine, fast, n, now) == IF fast THEN Batches(K, mine, now) ELSE Trading(K, mine, n)

Books(s) ==
  Booked(Ledger(s, tables, inserts[s]), Mine(s, tables), cfg[s].fast, round[s], clock[s])

\* How far a simulator has come.
Rounds(s) ==
  IF cfg[s].fast
  THEN /\ clock[s] = round[s] * MinIterations
       /\ cfg[s].iterations % MinIterations = 0
       /\ clock[s] <= cfg[s].iterations
  ELSE clock[s] = round[s] * (NB + 1) /\ round[s] <= cfg[s].iterations * NT

Progress(s) ==
  /\ Rounds(s)
  /\ step[s] <= Len(Setup(s)) => round[s] = 0
  /\ pc[s] = "done" =>
       /\ inserts[s] = <<>>
       /\ IF cfg[s].fast THEN clock[s] >= cfg[s].iterations ELSE round[s] >= cfg[s].iterations * NT

Entered(s) ==
  pc[s] \in {"run", "create", "tag", "done"} \/ round[s] # 0 =>
    Range(Products) \cup Range(Brokers) \subseteq entries

Tagged(s) ==
  \A name \in Mine(s, tables) :
    \/ tables[name].tagged
    \/ pc[s] = "failed"
    \/ pc[s] = "tag" /\ Setup(s)[step[s]] = name

\* The inserts that are left are those of the latest turn.
Pending(s) ==
  ~cfg[s].fast => \A name \in Names : \A r \in Due(inserts[s], name) : clock[s] - NB <= r.at

InOrder(s) == Books(s) /\ Progress(s) /\ Entered(s) /\ Tagged(s) /\ Pending(s)

LedgerInv == \A s \in Simulators : InOrder(s)

-----------------------------------------------------------------------------
LEMMA TableSets ==
  /\ TraderTables \subseteq Names /\ QuoteTables \subseteq Names /\ FastTable \in QuoteTables
  /\ \A t \in Range(Traders) : TraderTable(t) \in TraderTables
<1>1. 1 \in 1 .. NB /\ 1 \in 1 .. NP
  BY Lists
<1> QED
  BY <1>1, Lists DEF Names, FastTable, QuoteTables, TraderTables

\* Rows are taken away, and from whose tables they are is not the simulator any more.
Shrinks(K, mine, L, own) ==
  /\ \A name \in Names : L[name] \subseteq K[name]
  /\ own \subseteq mine
  /\ \A name \in own : L[name] = K[name]

LEMMA OnlyShrinks ==
  ASSUME NEW K, NEW mine, NEW L, NEW own, Shrinks(K, mine, L, own),
         NEW names \in SUBSET Names, NEW instants, Only(K, names, instants)
  PROVE  Only(L, names, instants)
BY DEF Shrinks, Only

LEMMA FullShrinks ==
  ASSUME NEW K, NEW mine, NEW L, NEW own, Shrinks(K, mine, L, own),
         NEW names \in SUBSET Names, NEW instants, Full(K, mine, names, instants)
  PROVE  Full(L, own, names, instants)
<1> SUFFICES ASSUME names \subseteq own, NEW i \in instants
             PROVE  \E name \in names : \E r \in L[name] : r.at = i
  BY DEF Full
<1>1. names \subseteq mine
  BY DEF Shrinks
<1>2. PICK name \in names : \E r \in K[name] : r.at = i
  BY <1>1 DEF Full
<1> QED
  BY <1>2 DEF Shrinks

LEMMA BookedShrinks ==
  ASSUME NEW K, NEW mine, NEW L, NEW own, NEW fast \in BOOLEAN, NEW n, NEW now,
         Shrinks(K, mine, L, own), Booked(K, mine, fast, n, now)
  PROVE  Booked(L, own, fast, n, now)
<1>1. \A name \in Names : L[name] \subseteq K[name]
  BY DEF Shrinks
<1>2. ASSUME fast PROVE Batches(L, own, now)
  <2>1. Batches(K, mine, now)
    BY <1>2 DEF Booked
  <2>2. {FastTable} \subseteq Names
    BY TableSets
  <2>3. Full(L, own, {FastTable}, 1 .. now)
    BY <2>1, <2>2, FullShrinks DEF Batches
  <2>4. Only(L, TraderTables, {}) /\ Only(L, QuoteTables, 1 .. now)
    BY <2>1, TableSets, OnlyShrinks DEF Batches
  <2>5. \A q, r \in L[FastTable] : q.at = r.at => q = r
    BY <1>1, <2>1, <2>2 DEF Batches
  <2> QED
    BY <2>3, <2>4, <2>5 DEF Batches
<1>3. ASSUME ~fast PROVE Trading(L, own, n)
  <2>1. Trading(K, mine, n)
    BY <1>3 DEF Booked
  <2>2. /\ Only(L, TraderTables, TradeInstants(n)) /\ Full(L, own, TraderTables, TradeInstants(n))
        /\ Only(L, QuoteTables, QuoteInstants(n)) /\ Full(L, own, QuoteTables, QuoteInstants(n))
    BY <2>1, TableSets, OnlyShrinks, FullShrinks DEF Trading
  <2>3. Backed(L, own)
    <3> SUFFICES ASSUME QuoteTables \subseteq own,
                        NEW name \in TraderTables, NEW trade \in L[name]
                 PROVE  TakenFrom(L, trade) /\ \A b \in 1 .. NB : QuotedBy(L, trade, b)
      BY DEF Backed
    <3>1. QuoteTables \subseteq mine /\ trade \in K[name]
      BY <1>1, TableSets DEF Shrinks
    <3>2. TakenFrom(K, trade) /\ \A b \in 1 .. NB : QuotedBy(K, trade, b)
      BY <2>1, <3>1 DEF Trading, Backed
    <3>3. \A m \in QuoteTables : L[m] = K[m]
      BY DEF Shrinks
    <3> QED
      BY <3>2, <3>3 DEF TakenFrom, QuotedBy
  <2>4. Cheapest(L)
    BY <1>1, <2>1, TableSets DEF Trading, Cheapest
  <2> QED
    BY <2>1, <2>2, <2>3, <2>4 DEF Trading
<1> QED
  BY <1>2, <1>3 DEF Booked

\* Before the first turn or batch.
LEMMA NoInstants == TradeInstants(0) = {} /\ QuoteInstants(0) = {} /\ 1 .. 0 = {}
<1>1. 1 .. 0 = {} /\ 0 * (NB + 1) = 0
  BY Lists
<1> QED
  BY <1>1 DEF TradeInstants, QuoteInstants

LEMMA BookedNone ==
  ASSUME NEW K, NEW mine, NEW fast \in BOOLEAN, Booked(K, mine, fast, 0, 0)
  PROVE  \A name \in Names : K[name] = {}
<1>1. Only(K, TraderTables, {}) /\ Only(K, QuoteTables, {})
  BY NoInstants DEF Booked, Trading, Batches
<1> QED
  BY <1>1 DEF Only, Names

LEMMA NoneBooked ==
  ASSUME NEW K, NEW mine, NEW fast \in BOOLEAN, \A name \in Names : K[name] = {}
  PROVE  Booked(K, mine, fast, 0, 0)
<1>1. /\ \A name \in TraderTables : K[name] = {}
      /\ \A name \in QuoteTables : K[name] = {}
      /\ K[FastTable] = {} /\ \A t \in Range(Traders) : K[TraderTable(t)] = {}
  BY TableSets
<1>2. Trading(K, mine, 0)
  BY <1>1, NoInstants DEF Trading, Only, Full, Backed, Cheapest
<1>3. Batches(K, mine, 0)
  BY <1>1, NoInstants DEF Batches, Only, Full
<1> QED
  BY <1>2, <1>3 DEF Booked

\* The instants of one more turn.
LEMMA MoreInstants ==
  ASSUME NEW n \in Nat, NEW now, now = n * (NB + 1)
  PROVE  /\ now \in Nat /\ (n + 1) * (NB + 1) = now + NB + 1
         /\ TradeInstants(n + 1) = TradeInstants(n) \cup {now + NB + 1}
         /\ QuoteInstants(n + 1) = QuoteInstants(n) \cup (now + 1 .. now + NB)
         /\ \A i \in TradeInstants(n) \cup QuoteInstants(n) : i \in Nat /\ i <= now
<1> DEFINE N == NB + 1
<1>1. N \in Nat \ {0} /\ now \in Nat /\ NB \in Nat \ {0} /\ N = NB + 1
  BY Lists
<1>2. now = n * N
  OBVIOUS
<1>3. (n + 1) * N = now + N
  BY <1>1, <1>2
<1>4. TradeInstants(n + 1) = TradeInstants(n) \cup {(n + 1) * N}
  <2>1. 1 .. n + 1 = (1 .. n) \cup {n + 1}
    OBVIOUS
  <2> QED
    BY <2>1 DEF TradeInstants
<1>5. \A k \in 1 .. n : k * N \in Nat /\ k * N <= now
  <2> SUFFICES ASSUME NEW k \in 1 .. n PROVE k * N \in Nat /\ k * N <= n * N
    BY <1>2
  <2> HIDE DEF N
  <2> QED
    BY <1>1
<1>6. \A i \in TradeInstants(n) : i \in Nat /\ i <= now
  BY <1>5 DEF TradeInstants
<1> HIDE DEF N
<1>7. QuoteInstants(n) = (1 .. now) \ TradeInstants(n)
  BY <1>1, <1>2 DEF QuoteInstants
<1>8. QuoteInstants(n + 1) = (1 .. now + N) \ (TradeInstants(n) \cup {now + N})
  BY <1>1, <1>3, <1>4 DEF QuoteInstants
<1>9. QuoteInstants(n + 1) = QuoteInstants(n) \cup (now + 1 .. now + NB)
  <2>1. ASSUME NEW i \in QuoteInstants(n + 1) PROVE i \in QuoteInstants(n) \cup (now + 1 .. now + NB)
    BY <1>1, <1>7, <1>8, <2>1
  <2>2. ASSUME NEW i \in QuoteInstants(n) PROVE i \in QuoteInstants(n + 1)
    BY <1>1, <1>7, <1>8, <2>2
  <2>3. ASSUME NEW i \in now + 1 .. now + NB PROVE i \in QuoteInstants(n + 1)
    <3>1. i \in Nat /\ i > now /\ i < now + N /\ i \in 1 .. now + N
      BY <1>1
    <3>2. i \notin TradeInstants(n)
      BY <1>6, <3>1
    <3> QED
      BY <1>1, <1>8, <3>1, <3>2
  <2> QED
    BY <2>1, <2>2, <2>3
<1>10. \A i \in QuoteInstants(n) : i \in Nat /\ i <= now
  BY <1>1, <1>7
<1> QED
  BY <1>1, <1>3, <1>4, <1>6, <1>9, <1>10

\* The rows of a turn that starts at the instant now.
QuoteRow(q, now, p, closes, i) ==
  q.at = now + i /\ q.product = p /\ q.broker = Brokers[i] /\ q.price = closes[i]

TradeRow(r, now, p, closes, b) ==
  r.at = now + NB + 1 /\ r.product = p /\ r.broker = Brokers[b] /\ r.price = closes[b]

Turn(todo, now, trader, p, closes, b) ==
  /\ trader \in Range(Traders) /\ b \in 1 .. NB
  /\ \A i \in 1 .. NB : closes[i] \in Nat
  /\ \A t \in Range(Traders) : \A r \in Due(todo, TraderTable(t)) :
       t = trader /\ TradeRow(r, now, p, closes, b)
  /\ \E r \in Due(todo, TraderTable(trader)) : TradeRow(r, now, p, closes, b)
  /\ \A name \in QuoteTables : \A q \in Due(todo, name) :
       \E i \in 1 .. NB : QuoteRow(q, now, p, closes, i)
  /\ \A i \in 1 .. NB : \E name \in QuoteTables : \E q \in Due(todo, name) :
       QuoteRow(q, now, p, closes, i)
  /\ trader \notin Cheaters => \A i \in 1 .. NB : closes[b] <= closes[i]

Adds(K, todo, L) == \A name \in Names : L[name] = K[name] \cup Due(todo, name)

LEMMA FullGrows ==
  ASSUME NEW K, NEW mine, NEW L, NEW names, \A name \in names : K[name] \subseteq L[name],
         NEW A, NEW B, Full(K, mine, names, A),
         \A i \in B : \E name \in names : \E r \in L[name] : r.at = i
  PROVE  Full(L, mine, names, A \cup B)
<1> SUFFICES ASSUME names \subseteq mine, NEW i \in A
             PROVE  \E name \in names : \E r \in L[name] : r.at = i
  BY DEF Full
<1>1. PICK name \in names : \E r \in K[name] : r.at = i
  BY DEF Full
<1> QED
  BY <1>1

LEMMA TurnBooks ==
  ASSUME NEW K, NEW mine, NEW L, NEW n \in Nat, NEW todo, NEW trader, NEW p, NEW closes, NEW b,
         Trading(K, mine, n), Turn(todo, n * (NB + 1), trader, p, closes, b), Adds(K, todo, L)
  PROVE  Trading(L, mine, n + 1)
<1> DEFINE now == n * (NB + 1)
<1> Turn(todo, now, trader, p, closes, b)
  OBVIOUS
<1>0. /\ now \in Nat /\ (n + 1) * (NB + 1) = now + NB + 1
      /\ TradeInstants(n + 1) = TradeInstants(n) \cup {now + NB + 1}
      /\ QuoteInstants(n + 1) = QuoteInstants(n) \cup (now + 1 .. now + NB)
      /\ \A i \in TradeInstants(n) : i \in Nat /\ i <= now
      /\ \A i \in QuoteInstants(n) : i \in Nat /\ i <= now
  BY MoreInstants
<1> HIDE DEF now
<1>1. NB \in Nat \ {0}
  BY Lists
<1>2. /\ \A name \in TraderTables : L[name] = K[name] \cup Due(todo, name)
      /\ \A name \in QuoteTables : L[name] = K[name] \cup Due(todo, name)
  BY TableSets DEF Adds
<1>3. \A name \in TraderTables : \A r \in Due(todo, name) :
        name = TraderTable(trader) /\ TradeRow(r, now, p, closes, b)
  BY DEF TraderTables, Turn
<1>4. /\ \A name \in TraderTables : \A r \in K[name] : r.at \in TradeInstants(n)
      /\ \A name \in QuoteTables : \A q \in K[name] : q.at \in QuoteInstants(n)
  BY DEF Trading, Only
<1>5. Only(L, TraderTables, TradeInstants(n + 1))
  BY <1>0, <1>2, <1>3, <1>4 DEF Only, TradeRow
<1>6. Only(L, QuoteTables, QuoteInstants(n + 1))
  <2> SUFFICES ASSUME NEW name \in QuoteTables, NEW q \in Due(todo, name)
               PROVE  q.at \in now + 1 .. now + NB
    BY <1>0, <1>2, <1>4 DEF Only
  <2>1. PICK i \in 1 .. NB : QuoteRow(q, now, p, closes, i)
    BY DEF Turn
  <2> QED
    BY <1>0, <1>1, <2>1 DEF QuoteRow
<1>7. Full(L, mine, TraderTables, TradeInstants(n + 1))
  <2>1. \E name \in TraderTables : \E r \in L[name] : r.at = now + NB + 1
    <3>1. PICK r \in Due(todo, TraderTable(trader)) : TradeRow(r, now, p, closes, b)
      BY DEF Turn
    <3>2. TraderTable(trader) \in TraderTables
      BY TableSets DEF Turn
    <3> QED
      BY <1>2, <3>1, <3>2 DEF TradeRow
  <2>2. \A i \in {now + NB + 1} : \E name \in TraderTables : \E r \in L[name] : r.at = i
    BY <2>1
  <2>3. Full(K, mine, TraderTables, TradeInstants(n)) /\ \A name \in TraderTables : K[name] \subseteq L[name]
    BY <1>2 DEF Trading
  <2>4. Full(L, mine, TraderTables, TradeInstants(n) \cup {now + NB + 1})
    BY <2>2, <2>3, FullGrows
  <2> QED
    BY <1>0, <2>4
<1>8. ASSUME NEW i \in 1 .. NB
      PROVE  \E name \in QuoteTables : \E q \in L[name] : QuoteRow(q, now, p, closes, i)
  <2>1. PICK name \in QuoteTables : \E q \in Due(todo, name) : QuoteRow(q, now, p, closes, i)
    BY DEF Turn
  <2> QED
    BY <1>2, <2>1
<1>9. Full(L, mine, QuoteTables, QuoteInstants(n + 1))
  <2>1. ASSUME NEW j \in now + 1 .. now + NB
        PROVE  \E name \in QuoteTables : \E r \in L[name] : r.at = j
    <3>1. j - now \in 1 .. NB /\ now + (j - now) = j
      BY <1>0, <1>1
    <3> QED
      BY <1>8, <3>1 DEF QuoteRow
  <2>2. Full(K, mine, QuoteTables, QuoteInstants(n)) /\ \A name \in QuoteTables : K[name] \subseteq L[name]
    BY <1>2 DEF Trading
  <2>3. Full(L, mine, QuoteTables, QuoteInstants(n) \cup (now + 1 .. now + NB))
    BY <2>1, <2>2, FullGrows
  <2> QED
    BY <1>0, <2>3
<1>10. Backed(L, mine)
  <2> SUFFICES ASSUME QuoteTables \subseteq mine, NEW name \in TraderTables, NEW trade \in L[name]
               PROVE  TakenFrom(L, trade) /\ \A c \in 1 .. NB : QuotedBy(L, trade, c)
    BY DEF Backed
  <2>1. CASE trade \in K[name]
    <3>1. TakenFrom(K, trade) /\ \A c \in 1 .. NB : QuotedBy(K, trade, c)
      BY <2>1 DEF Trading, Backed
    <3>2. \A m \in QuoteTables : K[m] \subseteq L[m]
      BY <1>2
    <3>3. TakenFrom(L, trade)
      BY <3>1, <3>2 DEF TakenFrom
    <3>4. ASSUME NEW c \in 1 .. NB PROVE QuotedBy(L, trade, c)
      <4>1. QuotedBy(K, trade, c)
        BY <3>1
      <4> QED
        BY <3>2, <4>1 DEF QuotedBy
    <3> QED
      BY <3>3, <3>4
  <2>2. CASE trade \in Due(todo, name)
    <3>1. TradeRow(trade, now, p, closes, b) /\ b \in 1 .. NB
      BY <1>3, <2>2 DEF Turn
    <3>2. trade.at = now + NB + 1
      BY <3>1 DEF TradeRow
    <3>3. \A c \in 1 .. NB : QuotedBy(L, trade, c)
      <4> SUFFICES ASSUME NEW c \in 1 .. NB PROVE QuotedBy(L, trade, c)
        OBVIOUS
      <4>1. PICK m \in QuoteTables : \E q \in L[m] : QuoteRow(q, now, p, closes, c)
        BY <1>8
      <4>2. now + c = trade.at - (NB + 1) + c
        BY <1>0, <1>1, <3>2
      <4> QED
        BY <4>1, <4>2 DEF QuotedBy, QuoteRow
    <3>4. TakenFrom(L, trade)
      <4>1. PICK m \in QuoteTables : \E q \in L[m] : QuoteRow(q, now, p, closes, b)
        BY <1>8, <3>1
      <4>2. now + b \in trade.at - NB .. trade.at - 1
        BY <1>0, <1>1, <3>1, <3>2
      <4> QED
        BY <3>1, <4>1, <4>2 DEF TakenFrom, QuoteRow, TradeRow
    <3> QED
      BY <3>3, <3>4
  <2> QED
    BY <1>2, <2>1, <2>2
<1>11. Cheapest(L)
  <2> SUFFICES ASSUME NEW t \in Range(Traders) \ Cheaters, NEW trade \in L[TraderTable(t)],
                      NEW m \in QuoteTables, NEW q \in L[m], q.at \in trade.at - NB .. trade.at - 1
               PROVE  q.price >= trade.price
    BY DEF Cheapest
  <2>1. TraderTable(t) \in TraderTables
    BY TableSets
  <2>2. trade \in K[TraderTable(t)] => trade.at \in Nat /\ trade.at <= now
    BY <1>0, <1>4, <2>1
  <2>3. q \in K[m] => q.at \in Nat /\ q.at <= now
    BY <1>0, <1>4
  <2>4. trade \in Due(todo, TraderTable(t)) => t = trader /\ TradeRow(trade, now, p, closes, b)
    BY DEF Turn
  <2>5. q \in Due(todo, m) => \E i \in 1 .. NB : QuoteRow(q, now, p, closes, i)
    BY DEF Turn
  <2>6. trade \in K[TraderTable(t)] \/ trade \in Due(todo, TraderTable(t))
    BY <1>2, <2>1
  <2>7. q \in K[m] \/ q \in Due(todo, m)
    BY <1>2
  <2>8. CASE trade \in K[TraderTable(t)] /\ q \in K[m]
    BY <2>8 DEF Trading, Cheapest
  <2>9. CASE trade \in K[TraderTable(t)] /\ q \in Due(todo, m)
    <3>1. PICK i \in 1 .. NB : QuoteRow(q, now, p, closes, i)
      BY <2>5, <2>9
    <3>2. q.at = now + i
      BY <3>1 DEF QuoteRow
    <3> QED
      BY <1>0, <1>1, <2>2, <2>9, <3>2
  <2>10. CASE trade \in Due(todo, TraderTable(t)) /\ q \in K[m]
    <3>1. trade.at = now + NB + 1
      BY <2>4, <2>10 DEF TradeRow
    <3> QED
      BY <1>0, <1>1, <2>3, <2>10, <3>1
  <2>11. CASE trade \in Due(todo, TraderTable(t)) /\ q \in Due(todo, m)
    <3>1. PICK i \in 1 .. NB : QuoteRow(q, now, p, closes, i)
      BY <2>5, <2>11
    <3>2. t = trader /\ trade.price = closes[b] /\ b \in 1 .. NB /\ q.price = closes[i]
      BY <2>4, <2>11, <3>1 DEF TradeRow, QuoteRow, Turn
    <3>3. closes[b] <= closes[i] /\ closes[b] \in Nat /\ closes[i] \in Nat
      BY <3>2 DEF Turn
    <3> QED
      BY <3>2, <3>3
  <2> QED
    BY <2>6, <2>7, <2>8, <2>9, <2>10, <2>11
<1> QED
  BY <1>5, <1>6, <1>7, <1>9, <1>10, <1>11 DEF Trading

\* The rows of a batch.
Batch(todo, now) ==
  /\ \A name \in TraderTables : Due(todo, name) = {}
  /\ \A name \in QuoteTables : \A r \in Due(todo, name) : r.at \in now + 1 .. now + MinIterations
  /\ \A i \in 1 .. MinIterations : \E r \in Due(todo, FastTable) : r.at = now + i
  /\ \A q, r \in Due(todo, FastTable) : q.at = r.at => q = r

LEMMA BatchBooks ==
  ASSUME NEW K, NEW mine, NEW L, NEW now \in Nat, NEW todo,
         Batches(K, mine, now), Batch(todo, now), Adds(K, todo, L)
  PROVE  Batches(L, mine, now + MinIterations)
<1>1. MinIterations \in Nat \ {0}
  BY SimulatorAssumption
<1>2. /\ \A name \in TraderTables : L[name] = K[name] \cup Due(todo, name)
      /\ \A name \in QuoteTables : L[name] = K[name] \cup Due(todo, name)
      /\ L[FastTable] = K[FastTable] \cup Due(todo, FastTable)
      /\ FastTable \in QuoteTables
  BY TableSets DEF Adds
<1>3. /\ \A name \in TraderTables : K[name] = {}
      /\ \A name \in QuoteTables : \A r \in K[name] : r.at \in 1 .. now
  BY DEF Batches, Only
<1>4. Only(L, TraderTables, {})
  BY <1>2, <1>3 DEF Only, Batch
<1>5. 1 .. now + MinIterations = (1 .. now) \cup (now + 1 .. now + MinIterations)
  BY <1>1
<1>6. Only(L, QuoteTables, 1 .. now + MinIterations)
  BY <1>2, <1>3, <1>5 DEF Only, Batch
<1>7. Full(L, mine, {FastTable}, 1 .. now + MinIterations)
  <2>1. ASSUME NEW j \in now + 1 .. now + MinIterations
        PROVE  \E name \in {FastTable} : \E r \in L[name] : r.at = j
    <3>1. j - now \in 1 .. MinIterations /\ now + (j - now) = j
      BY <1>1
    <3> QED
      BY <1>2, <3>1 DEF Batch
  <2>2. Full(K, mine, {FastTable}, 1 .. now) /\ \A name \in {FastTable} : K[name] \subseteq L[name]
    BY <1>2 DEF Batches
  <2>3. Full(L, mine, {FastTable}, (1 .. now) \cup (now + 1 .. now + MinIterations))
    BY <2>1, <2>2, FullGrows
  <2> QED
    BY <1>5, <2>3
<1>8. ASSUME NEW q \in L[FastTable], NEW r \in L[FastTable], q.at = r.at PROVE q = r
  <2>1. /\ q \in K[FastTable] => q.at \in 1 .. now
        /\ r \in K[FastTable] => r.at \in 1 .. now
        /\ q \in Due(todo, FastTable) => q.at \in now + 1 .. now + MinIterations
        /\ r \in Due(todo, FastTable) => r.at \in now + 1 .. now + MinIterations
    BY <1>2, <1>3 DEF Batch
  <2>2. (q \in K[FastTable] /\ r \in K[FastTable]) \/ (q \in Due(todo, FastTable) /\ r \in Due(todo, FastTable))
    BY <1>1, <1>2, <1>8, <2>1
  <2> QED
    BY <1>8, <2>2 DEF Batch, Batches
<1> QED
  BY <1>4, <1>6, <1>7, <1>8 DEF Batches

-----------------------------------------------------------------------------
(***************************************************************************)
(* What the steps do to the ledger.                                        *)
(***************************************************************************)
LEMMA LedgerAt ==
  ASSUME NEW s, NEW T, NEW todo, NEW name \in Names
  PROVE  Ledger(s, T, todo)[name] = Present(s, T, name) \cup Due(todo, name)
BY DEF Ledger

LEMMA DueIs ==
  ASSUME NEW todo, NEW name, NEW r
  PROVE  r \in Due(todo, name) <=> \E i \in 1 .. Len(todo) : todo[i].table = name /\ r \in todo[i].rows
BY DEF Due

LEMMA DueNone ==
  ASSUME NEW name PROVE Due(<<>>, name) = {}
<1>1. 1 .. Len(<<>>) = {}
  OBVIOUS
<1> QED
  BY <1>1, DueIs

\* A column goes, and at the last one the insert.
LEMMA DueRest ==
  ASSUME NEW s, NEW todo, NEW now, NEW bound, Queue(s, todo, now, bound), todo # <<>>, NEW name
  PROVE  /\ Due(Rest(todo), name) \subseteq Due(todo, name)
         /\ Due(todo, name) \subseteq Due(Rest(todo), name) \cup HandIn(todo, name)
         /\ HandIn(todo, name) \subseteq Due(todo, name)
<1> DEFINE rest == Rest(todo)
<1>1. Len(todo) \in Nat \ {0} /\ 1 \in 1 .. Len(todo) /\ todo \in Seq(AnyInsert(Names))
  BY FirstInsert DEF Queue
<1>2. HandIn(todo, name) = IF todo[1].table = name THEN todo[1].rows ELSE {}
  BY DEF HandIn
<1>3. HandIn(todo, name) \subseteq Due(todo, name)
  BY <1>1, <1>2, DueIs
<1>4. CASE Len(todo[1].columns) = 1
  <2>1. rest = Tail(todo)
    BY <1>4 DEF Rest
  <2>2. Len(rest) = Len(todo) - 1 /\ \A i \in 1 .. Len(rest) : rest[i] = todo[i + 1]
    BY <1>1, <2>1, HeadTailProperties
  <2> HIDE DEF rest
  <2>3. \A i \in 1 .. Len(rest) : i + 1 \in 1 .. Len(todo)
    BY <1>1, <2>2
  <2>4. \A i \in 1 .. Len(todo) : i = 1 \/ (i - 1 \in 1 .. Len(rest) /\ rest[i - 1] = todo[i])
    <3> SUFFICES ASSUME NEW i \in 1 .. Len(todo), i # 1
                 PROVE  i - 1 \in 1 .. Len(rest) /\ rest[i - 1] = todo[i]
      OBVIOUS
    <3>1. i - 1 \in 1 .. Len(rest) /\ (i - 1) + 1 = i
      BY <1>1, <2>2
    <3> QED
      BY <2>2, <3>1
  <2>5. ASSUME NEW r \in Due(rest, name) PROVE r \in Due(todo, name)
    <3>1. PICK i \in 1 .. Len(rest) : rest[i].table = name /\ r \in rest[i].rows
      BY DueIs
    <3> QED
      BY <2>2, <2>3, <3>1, DueIs
  <2>6. ASSUME NEW r \in Due(todo, name) PROVE r \in Due(rest, name) \cup HandIn(todo, name)
    <3>1. PICK i \in 1 .. Len(todo) : todo[i].table = name /\ r \in todo[i].rows
      BY DueIs
    <3>2. CASE i = 1
      BY <1>2, <3>1, <3>2
    <3>3. CASE i # 1
      BY <2>4, <3>1, <3>3, DueIs
    <3> QED
      BY <3>2, <3>3
  <2> QED
    BY <1>3, <2>5, <2>6 DEF rest
<1>5. CASE Len(todo[1].columns) # 1
  <2>1. rest = OneLess(todo)
    BY <1>5 DEF Rest
  <2>2. Shorter(s, todo, now, bound, rest)
    BY <1>5, <2>1, OneColumn
  <2> HIDE DEF rest
  <2>3. Len(rest) = Len(todo) /\ \A i \in 1 .. Len(todo) : rest[i].table = todo[i].table /\ rest[i].rows = todo[i].rows
    BY <2>2 DEF Shorter
  <2>4. Due(rest, name) = Due(todo, name)
    BY <2>3 DEF Due
  <2> QED
    BY <1>3, <2>4 DEF rest
<1> QED
  BY <1>4, <1>5

\* What the ledger of x depends on, and that it shrinks at most.
Follows(x) ==
  /\ cfg'[x] = cfg[x] /\ round'[x] = round[x] /\ clock'[x] = clock[x]
  /\ Shrinks(Ledger(x, tables, inserts[x]), Mine(x, tables),
             Ledger(x, tables', inserts'[x]), Mine(x, tables'))

LEMMA BooksFollow ==
  ASSUME TypeOK, NEW x \in Simulators, Books(x), Follows(x) PROVE Books(x)'
<1>1. cfg[x].fast \in BOOLEAN
  BY DEF TypeOK
<1> QED
  BY <1>1, BookedShrinks DEF Books, Follows

LEMMA SameFollows ==
  ASSUME NEW x \in Simulators, cfg'[x] = cfg[x], round'[x] = round[x], clock'[x] = clock[x],
         \A name \in Names : Ledger(x, tables', inserts'[x])[name] = Ledger(x, tables, inserts[x])[name],
         Mine(x, tables') \subseteq Mine(x, tables)
  PROVE  Follows(x)
<1>1. \A name \in Mine(x, tables') : name \in Names
  BY DEF Mine
<1> QED
  BY <1>1 DEF Follows, Shrinks

\* One table changes, but for x it is neither another's nor has it other rows.
LEMMA TableFollows ==
  ASSUME TypeOK, NEW x \in Simulators, UNCHANGED <<cfg, round, clock, inserts>>,
         NEW name \in Names, NEW new, tables' = [tables EXCEPT ![name] = new],
         Present(x, tables', name) = Present(x, tables, name),
         new # NoTable /\ new.owner = x => tables[name] # NoTable /\ tables[name].owner = x
  PROVE  Follows(x)
<1>1. tables'[name] = new /\ \A n \in Names : n # name => tables'[n] = tables[n]
  BY DEF TypeOK
<1>2. \A n \in Names : Present(x, tables', n) = Present(x, tables, n)
  BY <1>1 DEF Present
<1>3. Mine(x, tables') \subseteq Mine(x, tables)
  BY <1>1 DEF Mine
<1>4. \A n \in Names : Ledger(x, tables', inserts'[x])[n] = Ledger(x, tables, inserts[x])[n]
  BY <1>2 DEF Ledger
<1> QED
  BY <1>3, <1>4, SameFollows

LEMMA RemovesFollows ==
  ASSUME TypeOK, NEW x \in Simulators, NEW name \in Names, Removes(name), UNCHANGED round
  PROVE  Follows(x)
<1>1. UNCHANGED <<cfg, clock, inserts>> /\ tables' = [tables EXCEPT ![name] = NoTable]
  BY DEF Removes, Rests
<1>2. tables'[name] = NoTable /\ \A n \in Names : n # name => tables'[n] = tables[n]
  BY <1>1 DEF TypeOK
<1>3. /\ \A n \in Names : Present(x, tables', n) \subseteq Present(x, tables, n)
      /\ \A n \in Names : n # name => Present(x, tables', n) = Present(x, tables, n)
  BY <1>2 DEF Present
<1>4. Mine(x, tables') \subseteq Mine(x, tables) /\ name \notin Mine(x, tables') /\ Mine(x, tables') \subseteq Names
  BY <1>2 DEF Mine
<1>5. /\ \A n \in Names : Ledger(x, tables', inserts'[x])[n] \subseteq Ledger(x, tables, inserts[x])[n]
      /\ \A n \in Names : n # name =>
           Ledger(x, tables', inserts'[x])[n] = Ledger(x, tables, inserts[x])[n]
  BY <1>1, <1>3 DEF Ledger
<1> QED
  BY <1>1, <1>4, <1>5 DEF Follows, Shrinks

LEMMA TagsFollows ==
  ASSUME Inv, TornInv, NEW x \in Simulators, NEW name \in Names, Tags(name), UNCHANGED round
  PROVE  Follows(x)
<1> DEFINE new == [tables[name] EXCEPT !.tagged = TRUE]
<1>1. tables[name] \in TableWith(ColumnsOf(name)) /\ tables[name] # NoTable
  BY DEF Tags, Exists, TornInv, Typed
<1>2. TableOK(x, name, tables[name], inserts[x], clock[x], Bound(x))
  BY <1>1 DEF TornInv, Writes, TablesOK
<1>3. /\ By(x, new, ColumnsOf(name)) = By(x, tables[name], ColumnsOf(name))
      /\ new \in TableWith(ColumnsOf(name))
  BY <1>1, <1>2, TaggedTable
<1>4. new.owner = tables[name].owner
  BY <1>1 DEF TableWith
<1>5. UNCHANGED <<cfg, clock, inserts>> /\ tables' = [tables EXCEPT ![name] = new]
  BY DEF Tags, Rests
<1>6. new # NoTable
  BY <1>3, SimulatorAssumption DEF AnyTable, ColumnsOf
<1> HIDE DEF new
<1>7. tables'[name] = new
  BY <1>5 DEF Inv, TypeOK
<1>8. Present(x, tables', name) = Present(x, tables, name)
  BY <1>1, <1>3, <1>6, <1>7 DEF Present
<1> QED
  BY <1>1, <1>4, <1>5, <1>8, TableFollows DEF Inv

\* The one who creates the table has none to begin with.
LEMMA CreatesFollows ==
  ASSUME Inv, TornInv, NEW x \in Simulators, NEW s \in Simulators, NEW name \in Names,
         Creates(s, name), UNCHANGED round
  PROVE  /\ x # s => Follows(x)
         /\ \A n \in Names : Ledger(x, tables', inserts'[x])[n] = Ledger(x, tables, inserts[x])[n]
<1> DEFINE new == EmptyTable(s, name)
<1>1. /\ UNCHANGED <<cfg, clock, inserts>> /\ tables' = [tables EXCEPT ![name] = new]
      /\ tables[name] = NoTable
  BY DEF Creates, Rests, Exists
<1>2. new \in TableWith(ColumnsOf(name)) /\ By(x, new, ColumnsOf(name)) = {}
  <2>1. Queue(x, inserts[x], clock[x], Bound(x)) /\ (inserts[x] = <<>> \/ s # x)
    BY DEF Creates, TornInv, Writes
  <2> QED
    BY <2>1, NewTable
<1>3. new.owner = s
  BY DEF EmptyTable
<1> HIDE DEF new
<1>4. tables'[name] = new /\ \A n \in Names : n # name => tables'[n] = tables[n]
  BY <1>1 DEF Inv, TypeOK
<1>5. Present(x, tables', name) = Present(x, tables, name)
  BY <1>1, <1>2, <1>4 DEF Present
<1>6. \A n \in Names : Present(x, tables', n) = Present(x, tables, n)
  BY <1>4, <1>5 DEF Present
<1>7. \A n \in Names : Ledger(x, tables', inserts'[x])[n] = Ledger(x, tables, inserts[x])[n]
  BY <1>1, <1>6 DEF Ledger
<1>8. x # s => Follows(x)
  BY <1>1, <1>3, <1>5, TableFollows DEF Inv
<1> QED
  BY <1>7, <1>8

LEMMA PutsFollows ==
  ASSUME Inv, TornInv, NEW x \in Simulators, NEW s \in Simulators, Puts(s), UNCHANGED round
  PROVE  Follows(x)
<1> DEFINE todo == inserts[s]
           name == todo[1].table
           t == tables[name]
           new == Put(t, todo)
           k == HandAt(todo, name)
<1>1. /\ todo # <<>> /\ t # NoTable /\ UNCHANGED <<clock, cfg, pc>>
      /\ tables' = [tables EXCEPT ![name] = new]
      /\ inserts' = [inserts EXCEPT ![s] = Rest(todo)]
  BY DEF Puts, Exists
<1>2. Queue(s, todo, clock[s], Bound(s)) /\ TablesOK(s, tables, todo, clock[s], Bound(s))
  BY DEF TornInv, Writes
<1>3. /\ name \in Names /\ todo[1].rows \in SUBSET AnyRow /\ 1 \in 1 .. Len(todo)
      /\ k \in 1 .. Len(ColumnsOf(name))
      /\ Head(todo[1].columns) = ColumnsOf(name)[k]
      /\ HandIn(todo, name) = todo[1].rows
  BY <1>1, <1>2, FirstInsert
<1>4. t \in TableWith(ColumnsOf(name)) /\ TableOK(s, name, t, todo, clock[s], Bound(s))
  BY <1>1, <1>2, <1>3 DEF TornInv, Typed, TablesOK
<1>5. new = With(t, ColumnsOf(name)[k], todo[1].rows)
  BY <1>3 DEF Put
<1>6. new \in TableWith(ColumnsOf(name)) /\ new.owner = t.owner
  BY <1>3, <1>4, <1>5, ColumnsOK, CellsWith
<1>7. /\ inserts'[s] = Rest(todo)
      /\ \A y \in Simulators \ {s} : inserts'[y] = inserts[y]
  BY <1>1 DEF Inv, Destined
<1>8. \A n \in Names : n # name => HandIn(todo, n) = {}
  BY DEF HandIn
<1>9. \A n \in Names : /\ Due(Rest(todo), n) \subseteq Due(todo, n)
                       /\ Due(todo, n) \subseteq Due(Rest(todo), n) \cup HandIn(todo, n)
                       /\ HandIn(todo, n) \subseteq Due(todo, n)
  BY <1>1, <1>2, DueRest
<1>10. Inserted(s, todo, clock[s], t, new)
  BY <1>1, <1>2, <1>4, InsertedRows
<1>11. By(s, new, ColumnsOf(name)) = By(s, t, ColumnsOf(name)) \cup todo[1].rows
  BY <1>10 DEF Inserted
<1>12. new # NoTable
  BY <1>6, SimulatorAssumption DEF AnyTable, ColumnsOf
<1>13. \A r \in todo[1].rows : r.by = s
  BY <1>2, <1>3 DEF Queue
<1> HIDE DEF name, new, k
<1>14. tables'[name] = new /\ \A n \in Names : n # name => tables'[n] = tables[n]
  BY <1>1, <1>3 DEF Inv, TypeOK
<1>15. Mine(x, tables') \subseteq Mine(x, tables)
  BY <1>1, <1>6, <1>14 DEF Mine
<1>16. \A n \in Names : n # name => Present(x, tables', n) = Present(x, tables, n)
  BY <1>14 DEF Present
<1>17. CASE x = s
  <2>1. Present(x, tables', name) = Present(x, tables, name) \cup HandIn(todo, name)
    BY <1>1, <1>3, <1>11, <1>12, <1>14, <1>17 DEF Present
  <2>2. \A n \in Names : Present(x, tables', n) \cup Due(Rest(todo), n) = Present(x, tables, n) \cup Due(todo, n)
    <3> SUFFICES ASSUME NEW n \in Names
                 PROVE  Present(x, tables', n) \cup Due(Rest(todo), n) = Present(x, tables, n) \cup Due(todo, n)
      OBVIOUS
    <3>1. Present(x, tables', n) = Present(x, tables, n) \cup HandIn(todo, n)
      BY <1>8, <1>16, <2>1
    <3>2. Due(Rest(todo), n) \subseteq Due(todo, n) /\ HandIn(todo, n) \subseteq Due(todo, n)
      BY <1>9
    <3>3. Due(todo, n) \subseteq Due(Rest(todo), n) \cup HandIn(todo, n)
      BY <1>9
    <3> QED
      BY <3>1, <3>2, <3>3
  <2>3. \A n \in Names : Ledger(x, tables', inserts'[x])[n] = Ledger(x, tables, inserts[x])[n]
    BY <1>7, <1>17, <2>2 DEF Ledger
  <2> QED
    BY <1>1, <1>15, <2>3, SameFollows
<1>18. CASE x # s
  <2>1. TableOK(x, name, t, inserts[x], clock[x], Bound(x)) /\ Queue(x, inserts[x], clock[x], Bound(x))
    BY <1>1, <1>3 DEF TornInv, Writes, TablesOK, t
  <2>2. By(x, new, ColumnsOf(name)) = By(x, t, ColumnsOf(name))
    <3>1. \A r \in todo[1].rows : r.by # x
      BY <1>13, <1>18
    <3> HIDE DEF todo, t
    <3> QED
      BY <1>3, <1>4, <1>5, <2>1, <3>1, OtherColumn
  <2>3. Present(x, tables', name) = Present(x, tables, name)
    BY <1>1, <1>12, <1>14, <2>2 DEF Present
  <2>4. \A n \in Names : Ledger(x, tables', inserts'[x])[n] = Ledger(x, tables, inserts[x])[n]
    BY <1>7, <1>16, <1>18, <2>3 DEF Ledger
  <2> QED
    BY <1>1, <1>15, <2>4, SameFollows
<1> QED
  BY <1>17, <1>18

-----------------------------------------------------------------------------
(***************************************************************************)
(* The inserts of a turn and of a batch.                                   *)
(***************************************************************************)
LEMMA Prefixed ==
  ASSUME NEW first, NEW n \in Nat, NEW f, NEW rest, rest = [i \in 1 .. n |-> f[i]],
         NEW todo, todo = <<first>> \o rest
  PROVE  /\ Len(todo) = n + 1 /\ todo[1] = first /\ 1 \in 1 .. n + 1
         /\ \A i \in 1 .. n : i + 1 \in 1 .. n + 1 /\ todo[i + 1] = rest[i]
         /\ \A i \in 1 .. n + 1 : i = 1 \/ (i - 1 \in 1 .. n /\ todo[i] = rest[i - 1])
<1> DEFINE AI == {first} \cup {rest[i] : i \in 1 .. n}
<1>1. rest \in [1 .. n -> AI] /\ first \in AI
  OBVIOUS
<1> HIDE DEF AI
<1>2. rest \in Seq(AI)
  BY <1>1, SeqDef
<1>3. Len(rest) = n
  BY <1>1, <1>2, LenProperties
<1>4. <<first>> \in Seq(AI) /\ Len(<<first>>) = 1 /\ <<first>>[1] = first
  BY <1>1
<1>5. /\ Len(todo) = 1 + n
      /\ \A i \in 1 .. 1 + n : todo[i] = IF i <= 1 THEN <<first>>[i] ELSE rest[i - 1]
  BY <1>2, <1>3, <1>4, ConcatProperties
<1>6. \A i \in 1 .. n : i + 1 \in 1 .. 1 + n /\ ~(i + 1 <= 1) /\ (i + 1) - 1 = i
  OBVIOUS
<1>7. \A i \in 1 .. n + 1 : i \in 1 .. 1 + n /\ (i = 1 \/ (i - 1 \in 1 .. n /\ ~(i <= 1)))
  OBVIOUS
<1>8. 1 \in 1 .. n + 1 /\ n + 1 = 1 + n /\ 1 <= 1
  OBVIOUS
<1>9. todo[1] = first
  BY <1>4, <1>5, <1>8
<1>10. \A i \in 1 .. n : todo[i + 1] = rest[i]
  BY <1>5, <1>6
<1>11. \A i \in 1 .. n + 1 : i = 1 \/ (i - 1 \in 1 .. n /\ todo[i] = rest[i - 1])
  BY <1>5, <1>7
<1> QED
  BY <1>5, <1>6, <1>8, <1>9, <1>10, <1>11

LEMMA TurnShape ==
  ASSUME TypeOK, Destined, NEW s \in Simulators, NEW p \in Range(Products), NEW closes \in Market,
         TraderTurn(s, p, closes)
  PROVE  \E trader, b : Turn(inserts'[s], clock[s], trader, p, closes, b)
<1> DEFINE trader == Traders[(round[s] % NT) + 1]
           quotes == get_quotes(s, p, closes)
           traded(b) == Row(s, clock[s] + NB + 1, p, Brokers[b], quotes[b].price)
           trade(b) == [table |-> TraderTable(trader), rows |-> {traded(b)}, columns |-> TradeColumns]
           quoted == [i \in 1 .. NB |->
                        [table   |-> QuoteTable(Brokers[i], p),
                         rows    |-> {quotes[i]},
                         columns |-> QuoteColumns]]
<1>1. clock[s] \in Nat /\ NB \in Nat \ {0}
  BY Lists DEF TypeOK
<1>2. PICK b \in choose_quote(trader, quotes) :
        inserts' = [inserts EXCEPT ![s] = <<trade(b)>> \o quoted]
  BY DEF TraderTurn
<1>3. \A i \in 1 .. NB : closes[i] \in Nat
  BY SimulatorAssumption DEF NB
<1>4. \A i \in 1 .. NB : QuoteRow(quotes[i], clock[s], p, closes, i)
  BY DEF get_quotes, Row, QuoteRow
<1>5. \A i \in 1 .. NB : quotes[i].price = closes[i]
  BY <1>4 DEF QuoteRow
<1> HIDE DEF quotes
<1>6. b \in 1 .. NB /\ (trader \notin Cheaters => \A i \in 1 .. NB : closes[b] <= closes[i])
  <2>1. b \in 1 .. NB /\ (trader \notin Cheaters => \A i \in 1 .. NB : quotes[b].price <= quotes[i].price)
    BY <1>2, <1>3, <1>5, ChooseType
  <2> QED
    BY <1>5, <2>1
<1>7. TradeRow(traded(b), clock[s], p, closes, b)
  BY <1>5, <1>6 DEF Row, TradeRow
<1>8. trader \in Range(Traders)
  <2>1. round[s] \in Nat /\ NT \in Nat \ {0}
    BY Lists DEF TypeOK
  <2>2. (round[s] % NT) + 1 \in 1 .. NT
    BY <2>1
  <2> QED
    BY <2>2, Lists
<1>9. \A i \in 1 .. NB : quoted[i].table = QuoteTable(Brokers[i], p) /\ quoted[i].rows = {quotes[i]}
  OBVIOUS
<1>10. \A i \in 1 .. NB : QuoteTable(Brokers[i], p) \in QuoteTables
  BY Lists DEF QuoteTables
<1> DEFINE first == trade(b)
           todo == <<first>> \o quoted
<1>11. first.table = TraderTable(trader) /\ first.rows = {traded(b)}
  OBVIOUS
<1>12. inserts'[s] = todo
  BY <1>2 DEF Destined
<1> HIDE DEF first
<1>13. /\ Len(todo) = NB + 1 /\ todo[1] = first /\ 1 \in 1 .. NB + 1
       /\ \A i \in 1 .. NB : i + 1 \in 1 .. NB + 1 /\ todo[i + 1] = quoted[i]
       /\ \A i \in 1 .. NB + 1 : i = 1 \/ (i - 1 \in 1 .. NB /\ todo[i] = quoted[i - 1])
  <2> DEFINE g == quoted
  <2>1. quoted = [i \in 1 .. NB |-> g[i]]
    OBVIOUS
  <2> HIDE DEF quoted, g
  <2> QED
    BY <1>1, <2>1, Prefixed
<1> HIDE DEF todo, quoted, trader, traded
<1>14. ASSUME NEW t \in Range(Traders), NEW r \in Due(todo, TraderTable(t))
       PROVE  t = trader /\ r = traded(b)
  <2>1. PICK i \in 1 .. NB + 1 : todo[i].table = TraderTable(t) /\ r \in todo[i].rows
    BY <1>13, DueIs
  <2>2. i = 1
    <3>1. SUFFICES ASSUME i # 1 PROVE FALSE
      OBVIOUS
    <3>2. TraderTable(t) = QuoteTable(Brokers[i - 1], p)
      BY <1>9, <1>13, <2>1, <3>1
    <3> QED
      BY <3>2, TradersApart
  <2>3. TraderTable(t) = TraderTable(trader) /\ r = traded(b)
    BY <1>11, <1>13, <2>1, <2>2
  <2> QED
    BY <2>3 DEF TraderTable
<1>15. traded(b) \in Due(todo, TraderTable(trader))
  BY <1>11, <1>13, DueIs
<1>16. ASSUME NEW name \in QuoteTables, NEW q \in Due(todo, name)
       PROVE  \E i \in 1 .. NB : QuoteRow(q, clock[s], p, closes, i)
  <2>1. PICK i \in 1 .. NB + 1 : todo[i].table = name /\ q \in todo[i].rows
    BY <1>13, DueIs
  <2>2. i # 1
    <3>1. name # TraderTable(trader)
      BY TradersApart DEF QuoteTables
    <3> QED
      BY <1>11, <1>13, <2>1, <3>1
  <2>3. i - 1 \in 1 .. NB /\ q = quotes[i - 1]
    BY <1>9, <1>13, <2>1, <2>2
  <2> QED
    BY <1>4, <2>3
<1>17. ASSUME NEW i \in 1 .. NB
       PROVE  \E name \in QuoteTables : \E q \in Due(todo, name) : QuoteRow(q, clock[s], p, closes, i)
  <2>1. todo[i + 1].table = QuoteTable(Brokers[i], p) /\ quotes[i] \in todo[i + 1].rows
    BY <1>9, <1>13
  <2>2. quotes[i] \in Due(todo, QuoteTable(Brokers[i], p))
    BY <1>13, <2>1, DueIs
  <2> QED
    BY <1>4, <1>10, <2>2
<1>18. Turn(todo, clock[s], trader, p, closes, b)
  <2>1. \A t \in Range(Traders) : \A r \in Due(todo, TraderTable(t)) :
          t = trader /\ TradeRow(r, clock[s], p, closes, b)
    BY <1>7, <1>14
  <2>2. \E r \in Due(todo, TraderTable(trader)) : TradeRow(r, clock[s], p, closes, b)
    BY <1>7, <1>15
  <2> QED
    BY <1>3, <1>6, <1>8, <1>16, <1>17, <2>1, <2>2 DEF Turn
<1> QED
  BY <1>12, <1>18

LEMMA BatchShape ==
  ASSUME TypeOK, Destined, NEW s \in Simulators,
         NEW closes \in [1 .. MinIterations -> {prices[1] : prices \in Market}],
         FastBatch(s, closes)
  PROVE  Batch(inserts'[s], clock[s])
<1> DEFINE Of(i) == Row(s, clock[s] + i, Products[1], Brokers[1], closes[i])
           rows == {Of(i) : i \in 1 .. MinIterations}
           batch == [table |-> FastTable, rows |-> rows, columns |-> QuoteColumns]
           todo == <<batch>>
<1>1. clock[s] \in Nat /\ MinIterations \in Nat \ {0}
  BY SimulatorAssumption DEF TypeOK
<1>2. inserts'[s] = todo
  <2>1. inserts' = [inserts EXCEPT ![s] = todo]
    BY DEF FastBatch
  <2> HIDE DEF todo
  <2> QED
    BY <2>1 DEF Destined
<1>3. \A i \in 1 .. MinIterations : Of(i).at = clock[s] + i
  BY DEF Row
<1>4. batch.table = FastTable /\ batch.rows = rows
  OBVIOUS
<1> HIDE DEF batch, Of
<1>5. Len(todo) = 1 /\ todo[1] = batch /\ 1 \in 1 .. Len(todo) /\ \A i \in 1 .. Len(todo) : i = 1
  OBVIOUS
<1> HIDE DEF todo
<1>6. Due(todo, FastTable) = rows /\ \A name \in Names : name # FastTable => Due(todo, name) = {}
  BY <1>4, <1>5, DueIs
<1>7. \A name \in TraderTables : name \in Names /\ name # FastTable
  <2>1. \A t \in Range(Traders) : TraderTable(t) # FastTable
    BY TradersApart DEF FastTable
  <2> QED
    BY <2>1, TableSets DEF TraderTables
<1>8. \A i \in 1 .. MinIterations : clock[s] + i \in clock[s] + 1 .. clock[s] + MinIterations
  BY <1>1
<1>9. \A r \in rows : r.at \in clock[s] + 1 .. clock[s] + MinIterations
  BY <1>3, <1>8
<1>10. ASSUME NEW q \in rows, NEW r \in rows, q.at = r.at PROVE q = r
  <2>1. PICK i \in 1 .. MinIterations : q = Of(i)
    OBVIOUS
  <2>2. PICK j \in 1 .. MinIterations : r = Of(j)
    OBVIOUS
  <2>3. clock[s] + i = clock[s] + j
    BY <1>3, <1>10, <2>1, <2>2
  <2>4. i = j
    BY <1>1, <2>3
  <2> QED
    BY <2>1, <2>2, <2>4
<1>11. \A name \in QuoteTables : \A r \in Due(todo, name) : r.at \in clock[s] + 1 .. clock[s] + MinIterations
  BY <1>6, <1>9, TableSets
<1>12. \A i \in 1 .. MinIterations : \E r \in Due(todo, FastTable) : r.at = clock[s] + i
  BY <1>3, <1>6
<1> QED
  BY <1>2, <1>6, <1>7, <1>10, <1>11, <1>12 DEF Batch

-----------------------------------------------------------------------------
(***************************************************************************)
(* One lemma for each action.                                              *)
(***************************************************************************)
\* What x keeps for itself does not change.
Keeps(x) ==
  /\ cfg'[x] = cfg[x] /\ step'[x] = step[x] /\ round'[x] = round[x] /\ clock'[x] = clock[x]
  /\ inserts'[x] = inserts[x]

TagsKept(x) ==
  \A name \in Mine(x, tables') :
    name \in Mine(x, tables) /\ (tables[name].tagged => tables'[name].tagged)

LEMMA ProgressKeeps ==
  ASSUME NEW x, Keeps(x), Progress(x), pc'[x] = "done" => pc[x] = "done" PROVE Progress(x)'
<1>1. Setup(x)' = Setup(x) /\ Rounds(x)'
  BY DEF Keeps, Setup, Progress, Rounds
<1> QED
  BY <1>1 DEF Progress, Keeps

LEMMA PendingKeeps ==
  ASSUME NEW x, Keeps(x), Pending(x) PROVE Pending(x)'
BY DEF Keeps, Pending

LEMMA EnteredKeeps ==
  ASSUME NEW x, Keeps(x), Entered(x), entries \subseteq entries',
         pc'[x] \in {"run", "create", "tag", "done"} => pc[x] \in {"run", "create", "tag", "done"}
  PROVE  Entered(x)'
BY DEF Keeps, Entered

LEMMA QuietFollows ==
  ASSUME NEW x \in Simulators, Keeps(x), tables' = tables PROVE Follows(x) /\ TagsKept(x)
<1>1. Follows(x)
  BY SameFollows DEF Keeps
<1> QED
  BY <1>1 DEF TagsKept

LEMMA TableTags ==
  ASSUME TypeOK, NEW x, NEW name \in Names, NEW new, tables' = [tables EXCEPT ![name] = new],
         \/ new = NoTable \/ new.owner # x
         \/ /\ tables[name] # NoTable /\ new.owner = tables[name].owner
            /\ tables[name].tagged => new.tagged
  PROVE  TagsKept(x)
<1>1. tables'[name] = new /\ \A n \in Names : n # name => tables'[n] = tables[n]
  BY DEF TypeOK
<1> QED
  BY <1>1 DEF TagsKept, Mine

LEMMA RemovesTags ==
  ASSUME TypeOK, NEW x, NEW name \in Names, Removes(name) PROVE TagsKept(x)
BY TableTags DEF Removes

LEMMA CreatesTags ==
  ASSUME TypeOK, NEW s, NEW x, x # s, NEW name \in Names, Creates(s, name) PROVE TagsKept(x)
<1>1. EmptyTable(s, name).owner # x
  BY DEF EmptyTable
<1> QED
  BY <1>1, TableTags DEF Creates

LEMMA TagsTags ==
  ASSUME Inv, TornInv, NEW x, NEW name \in Names, Tags(name)
  PROVE  TagsKept(x) /\ tables'[name].tagged
<1> DEFINE new == [tables[name] EXCEPT !.tagged = TRUE]
<1>1. tables[name] \in TableWith(ColumnsOf(name)) /\ tables[name] # NoTable
  BY DEF Tags, Exists, TornInv, Typed
<1>2. new.owner = tables[name].owner /\ new.tagged
  BY <1>1 DEF TableWith
<1>3. tables' = [tables EXCEPT ![name] = new]
  BY DEF Tags
<1> HIDE DEF new
<1>4. tables'[name] = new
  BY <1>3 DEF Inv, TypeOK
<1> QED
  BY <1>1, <1>2, <1>3, <1>4, TableTags DEF Inv

LEMMA PutsTags ==
  ASSUME Inv, TornInv, NEW s \in Simulators, NEW x, Puts(s) PROVE TagsKept(x)
<1> DEFINE todo == inserts[s]
           name == todo[1].table
           new == Put(tables[name], todo)
<1>1. todo # <<>> /\ tables[name] # NoTable /\ tables' = [tables EXCEPT ![name] = new]
  BY DEF Puts, Exists
<1>2. name \in Names
  BY <1>1, FirstInsert DEF TornInv, Writes
<1>3. tables[name] \in TableWith(ColumnsOf(name))
  BY <1>1, <1>2 DEF TornInv, Typed
<1>4. new.owner = tables[name].owner /\ new.tagged = tables[name].tagged
  BY <1>3 DEF Put, With, TableWith
<1> HIDE DEF new, name
<1> QED
  BY <1>1, <1>2, <1>4, TableTags DEF Inv

LEMMA TagsKeep ==
  ASSUME NEW x, Keeps(x), TagsKept(x), Tagged(x), pc'[x] = pc[x] \/ pc'[x] = "failed" \/ pc[x] \notin {"failed", "tag"}
  PROVE  Tagged(x)'
<1>1. Setup(x)' = Setup(x)
  BY DEF Keeps, Setup
<1> SUFFICES ASSUME NEW name \in Mine(x, tables')
             PROVE  \/ tables'[name].tagged
                    \/ pc'[x] = "failed"
                    \/ pc'[x] = "tag" /\ Setup(x)[step[x]] = name
  BY <1>1 DEF Tagged, Keeps
<1>2. name \in Mine(x, tables) /\ (tables[name].tagged => tables'[name].tagged)
  BY DEF TagsKept
<1> QED
  BY <1>2 DEF Tagged

\* The simulators that the step is not of.
LEMMA OthersInOrder ==
  ASSUME TypeOK, NEW x \in Simulators, InOrder(x), Keeps(x), pc'[x] = pc[x], entries \subseteq entries',
         Follows(x), TagsKept(x)
  PROVE  InOrder(x)'
BY BooksFollow, ProgressKeeps, EnteredKeeps, TagsKeep, PendingKeeps DEF InOrder

\* Nothing but where the simulator is has changed, or somebody's table.
LEMMA MovesInOrder ==
  ASSUME TypeOK, NEW x \in Simulators, InOrder(x), Keeps(x), entries \subseteq entries',
         Follows(x), TagsKept(x), pc'[x] # "done",
         pc'[x] \in {"run", "create", "tag"} =>
           pc[x] \in {"run", "create", "tag"} \/ Range(Products) \cup Range(Brokers) \subseteq entries',
         pc'[x] = pc[x] \/ pc'[x] = "failed" \/ pc[x] \notin {"failed", "tag"}
  PROVE  InOrder(x)'
<1>1. Books(x)' /\ Progress(x)' /\ Tagged(x)' /\ Pending(x)'
  BY BooksFollow, ProgressKeeps, TagsKeep, PendingKeeps DEF InOrder
<1>2. Entered(x)'
  BY DEF Keeps, Entered, InOrder
<1> QED
  BY <1>1, <1>2 DEF InOrder

\* A simulator that is still at its tables has drawn no instant.
LEMMA NotYet ==
  ASSUME TypeOK, NEW s \in Simulators, InOrder(s), step[s] <= Len(Setup(s))
  PROVE  /\ round[s] = 0 /\ clock[s] = 0
         /\ \A name \in Names : Ledger(s, tables, inserts[s])[name] = {}
<1>1. cfg[s].fast \in BOOLEAN /\ NB \in Nat /\ MinIterations \in Nat
  BY Lists, SimulatorAssumption DEF TypeOK
<1>2. round[s] = 0 /\ Rounds(s)
  BY DEF InOrder, Progress
<1>3. clock[s] = 0
  BY <1>1, <1>2 DEF Rounds
<1>4. Booked(Ledger(s, tables, inserts[s]), Mine(s, tables), cfg[s].fast, 0, 0)
  BY <1>2, <1>3 DEF InOrder, Books
<1> QED
  BY <1>1, <1>2, <1>3, <1>4, BookedNone

LEMMA LedgerInit == Init => LedgerInv
<1> SUFFICES ASSUME Init, NEW s \in Simulators PROVE InOrder(s)
  BY DEF LedgerInv
<1>1. /\ inserts[s] = <<>> /\ round[s] = 0 /\ clock[s] = 0 /\ pc[s] = "idle" /\ cfg[s] = NoConfig
      /\ \A name \in Names : tables[name] = NoTable
  BY DEF Init
<1>2. cfg[s].fast = FALSE /\ cfg[s].iterations = 0
  BY <1>1 DEF NoConfig
<1>3. \A name \in Names : Ledger(s, tables, inserts[s])[name] = {}
  BY <1>1, DueNone DEF Ledger, Present
<1>4. Books(s)
  BY <1>1, <1>2, <1>3, NoneBooked DEF Books
<1>5. Progress(s)
  <2>1. NB \in Nat /\ NT \in Nat
    BY Lists
  <2>2. Rounds(s)
    BY <1>1, <1>2, <2>1 DEF Rounds
  <2> QED
    BY <1>1, <2>2 DEF Progress
<1>6. Entered(s) /\ Tagged(s) /\ Pending(s)
  BY <1>1, DueNone DEF Entered, Tagged, Mine, Pending
<1> QED
  BY <1>4, <1>5, <1>6 DEF InOrder

LEMMA LedgerStart ==
  ASSUME Inv, LedgerInv, NEW s \in Simulators, NEW c \in Configs[s], Start(s, c) PROVE InOrder(s)'
<1>1. /\ pc[s] = "idle" /\ c.iterations % MinIterations = 0
      /\ cfg' = [cfg EXCEPT ![s] = c] /\ pc' = [pc EXCEPT ![s] = "entries"]
      /\ UNCHANGED <<tables, step, round, clock, inserts>>
  BY DEF Start, GoTo, db
<1>2. pc'[s] = "entries" /\ cfg'[s] = c
  BY <1>1 DEF Inv, TypeOK
<1>3. c.fast \in BOOLEAN /\ c.iterations \in Nat
  BY SimulatorAssumption
<1>4. step[s] = 1 /\ inserts[s] = <<>>
  BY <1>1 DEF Inv, Placed
<1>5. step[s] <= Len(Setup(s))
  <2>1. Setup(s) \in Seq(Names) /\ Len(Setup(s)) \in Nat /\ FastTable \in Range(Setup(s))
    BY SetupType, TableSets DEF Inv
  <2>2. DOMAIN Setup(s) = 1 .. Len(Setup(s))
    BY <2>1, LenProperties
  <2>3. \E i \in 1 .. Len(Setup(s)) : TRUE
    BY <2>1, <2>2 DEF Range
  <2> QED
    BY <1>4, <2>1, <2>3
<1>6. InOrder(s) /\ TypeOK
  BY DEF LedgerInv, Inv
<1>7. /\ round[s] = 0 /\ clock[s] = 0
      /\ \A name \in Names : Ledger(s, tables, inserts[s])[name] = {}
  BY <1>5, <1>6, NotYet
<1>8. Booked(Ledger(s, tables, inserts[s]), Mine(s, tables), c.fast, 0, 0)
  BY <1>3, <1>7, NoneBooked
<1>9. Books(s)'
  BY <1>1, <1>2, <1>7, <1>8 DEF Books
<1>10. Rounds(s)'
  <2>1. NB \in Nat /\ NT \in Nat /\ MinIterations \in Nat \ {0}
    BY Lists, SimulatorAssumption
  <2>2. 0 <= c.iterations /\ 0 <= c.iterations * NT
    BY <1>3, <2>1
  <2> QED
    BY <1>1, <1>2, <1>7, <2>1, <2>2 DEF Rounds
<1>11. Progress(s)'
  BY <1>1, <1>2, <1>7, <1>10 DEF Progress
<1>12. Entered(s)' /\ Pending(s)'
  BY <1>1, <1>2, <1>4, <1>7, DueNone DEF Entered, Pending
<1>13. Tagged(s)'
  BY <1>1, <1>6 DEF Tagged, InOrder
<1> QED
  BY <1>9, <1>11, <1>12, <1>13 DEF InOrder

\* A simulator that fails leaves everything as it is.
LEMMA LedgerFails ==
  ASSUME TypeOK, NEW s \in Simulators, InOrder(s), Keeps(s), UNCHANGED <<tables, entries>>, pc'[s] = "failed"
  PROVE  InOrder(s)'
BY QuietFollows, MovesInOrder

LEMMA LedgerEntries ==
  ASSUME Inv, LedgerInv, NEW s \in Simulators, CreateEntries(s) PROVE InOrder(s)'
<1>1. /\ pc[s] = "entries" /\ pc' = [pc EXCEPT ![s] = "run"]
      /\ entries' = entries \cup Range(Products) \cup Range(Brokers)
      /\ UNCHANGED <<tables, cfg, step, round, clock, inserts>>
  BY DEF CreateEntries, GoTo, locals
<1>2. Keeps(s) /\ TypeOK /\ InOrder(s) /\ tables' = tables
  BY <1>1 DEF Keeps, LedgerInv, Inv
<1>3. Follows(s) /\ TagsKept(s)
  BY <1>2, QuietFollows
<1>4. pc'[s] = "run" /\ entries \subseteq entries'
  BY <1>1 DEF Inv, TypeOK
<1>5. Range(Products) \cup Range(Brokers) \subseteq entries'
  BY <1>1
<1> QED
  BY <1>1, <1>2, <1>3, <1>4, <1>5, MovesInOrder

LEMMA LedgerRemove ==
  ASSUME Inv, TornInv, LedgerInv, NEW s \in Simulators, RemoveTable(s) PROVE InOrder(s)'
<1>1. /\ pc[s] = "run" /\ pc' = [pc EXCEPT ![s] = "create"]
      /\ UNCHANGED <<entries, cfg, step, round, clock, inserts>>
  BY DEF RemoveTable, GoTo, locals
<1>2. PICK name \in Names : Removes(name)
  BY RemoveEffect
<1>3. Keeps(s) /\ TypeOK /\ InOrder(s)
  BY <1>1 DEF Keeps, LedgerInv, Inv
<1>4. Follows(s) /\ TagsKept(s)
  BY <1>1, <1>2, <1>3, RemovesFollows, RemovesTags
<1>5. pc'[s] = "create"
  BY <1>1 DEF Inv, TypeOK
<1> QED
  BY <1>1, <1>3, <1>4, <1>5, MovesInOrder

LEMMA LedgerCreate ==
  ASSUME Inv, TornInv, LedgerInv, NEW s \in Simulators, CreateTable(s) PROVE InOrder(s)'
<1> DEFINE name == Setup(s)[step[s]]
<1>1. pc[s] = "create" /\ UNCHANGED <<entries, cfg, step, round, clock, inserts>>
  BY DEF CreateTable, locals
<1>2. Keeps(s) /\ TypeOK /\ InOrder(s)
  BY <1>1 DEF Keeps, LedgerInv, Inv
<1>3. CASE tables[name] # NoTable
  <2>1. tables' = tables /\ pc' = [pc EXCEPT ![s] = "failed"]
    BY <1>3 DEF CreateTable, GoTo
  <2>2. pc'[s] = "failed"
    BY <2>1 DEF Inv, TypeOK
  <2> QED
    BY <1>1, <1>2, <2>1, <2>2, LedgerFails
<1>4. CASE tables[name] = NoTable
  <2>1. tables' = [tables EXCEPT ![name] = EmptyTable(s, name)] /\ pc' = [pc EXCEPT ![s] = "tag"]
    BY <1>4 DEF CreateTable, GoTo
  <2>2. name \in Names /\ inserts[s] = <<>> /\ step[s] <= Len(Setup(s))
    BY <1>1, AtTable DEF Inv, Placed
  <2>3. pc'[s] = "tag" /\ \A n \in Names : n # name => tables'[n] = tables[n]
    BY <2>1, <2>2 DEF Inv, TypeOK
  <2>4. Working
    BY <1>1, <2>1 DEF Working, Inv, TypeOK
  <2>5. Creates(s, name)
    BY <1>1, <1>4, <2>1, <2>2, <2>4 DEF Creates, Rests, Exists
  <2> HIDE DEF name
  <2>6. /\ round[s] = 0 /\ clock[s] = 0
        /\ \A n \in Names : Ledger(s, tables, inserts[s])[n] = {}
    BY <1>2, <2>2, NotYet
  <2>7. \A n \in Names : Ledger(s, tables', inserts'[s])[n] = {}
    BY <1>1, <2>2, <2>5, <2>6, CreatesFollows
  <2>8. cfg[s].fast \in BOOLEAN
    BY DEF Inv, TypeOK
  <2>9. Booked(Ledger(s, tables', inserts'[s]), Mine(s, tables'), cfg[s].fast, 0, 0)
    BY <2>7, <2>8, NoneBooked
  <2>10. Books(s)'
    BY <1>1, <2>6, <2>9 DEF Books
  <2>11. Progress(s)' /\ Pending(s)' /\ Entered(s)'
    BY <1>1, <1>2, <2>3, ProgressKeeps, PendingKeeps, EnteredKeeps DEF InOrder
  <2>12. Setup(s)' = Setup(s)
    BY <1>1 DEF Setup
  <2>13. Tagged(s)'
    <3> SUFFICES ASSUME NEW n \in Mine(s, tables'), n # name PROVE tables'[n].tagged
      BY <1>1, <2>3, <2>12 DEF Tagged, name
    <3>1. n \in Mine(s, tables) /\ tables'[n] = tables[n]
      BY <2>3 DEF Mine
    <3> QED
      BY <1>1, <1>2, <3>1 DEF InOrder, Tagged
  <2> QED
    BY <2>10, <2>11, <2>13 DEF InOrder
<1> QED
  BY <1>3, <1>4

LEMMA LedgerTag ==
  ASSUME Inv, TornInv, LedgerInv, NEW s \in Simulators, TagTable(s) PROVE InOrder(s)'
<1> DEFINE name == Setup(s)[step[s]]
<1>1. pc[s] = "tag" /\ UNCHANGED <<entries, cfg, round, clock, inserts>>
  BY DEF TagTable
<1>2. TypeOK /\ InOrder(s)
  BY DEF LedgerInv, Inv
<1>3. name \in Names /\ step[s] <= Len(Setup(s)) /\ step[s] \in Nat /\ Len(Setup(s)) \in Nat
  BY <1>1, AtTable, SetupType DEF Inv, Placed, TypeOK
<1>4. Setup(s)' = Setup(s)
  BY <1>1 DEF Setup
<1>5. CASE UNCHANGED <<tables, step>> /\ GoTo(s, "failed")
  <2>1. pc'[s] = "failed"
    BY <1>5 DEF GoTo, Inv, TypeOK
  <2>2. Keeps(s)
    BY <1>1, <1>5 DEF Keeps
  <2> QED
    BY <1>1, <1>2, <1>5, <2>1, <2>2, LedgerFails
<1>6. ASSUME tables' = IF tables[name] = NoTable THEN tables ELSE [tables EXCEPT ![name].tagged = TRUE],
             step' = [step EXCEPT ![s] = @ + 1], GoTo(s, "run")
      PROVE  InOrder(s)'
  <2>1. pc' = [pc EXCEPT ![s] = "run"] /\ pc'[s] = "run" /\ step'[s] = step[s] + 1
    BY <1>6 DEF GoTo, Inv, TypeOK
  <2>2. Working
    BY <2>1 DEF Working, Inv, TypeOK
  <2>3. tables[name] = NoTable \/ Tags(name)
    <3> SUFFICES ASSUME tables[name] # NoTable PROVE Tags(name)
      OBVIOUS
    <3>1. tables' = [tables EXCEPT ![name] = [tables[name] EXCEPT !.tagged = TRUE]]
      BY <1>6
    <3> QED
      BY <1>1, <2>2, <3>1 DEF Tags, Rests, Exists
  <2>4. tables[name] = NoTable => tables' = tables
    BY <1>6
  <2> HIDE DEF name
  <2>5. Follows(s) /\ TagsKept(s) /\ (name \in Mine(s, tables') => tables'[name].tagged)
    <3>1. CASE tables[name] = NoTable
      <4>1. tables' = tables
        BY <2>4, <3>1
      <4>2. Follows(s)
        BY <1>1, <4>1, SameFollows
      <4> QED
        BY <3>1, <4>1, <4>2 DEF TagsKept, Mine
    <3>2. CASE Tags(name)
      BY <1>1, <1>3, <3>2, TagsFollows, TagsTags
    <3> QED
      BY <2>3, <3>1, <3>2
  <2>6. Books(s)'
    BY <1>2, <2>5, BooksFollow DEF InOrder
  <2>7. Progress(s)'
    <3>1. Rounds(s)'
      BY <1>1, <1>2 DEF Rounds, InOrder, Progress
    <3>2. round[s] = 0
      BY <1>2, <1>3 DEF InOrder, Progress
    <3> QED
      BY <1>1, <2>1, <3>1, <3>2 DEF Progress
  <2>8. Entered(s)' /\ Pending(s)'
    BY <1>1, <1>2, <2>1 DEF InOrder, Entered, Pending
  <2>9. Tagged(s)'
    <3> SUFFICES ASSUME NEW n \in Mine(s, tables') PROVE tables'[n].tagged
      BY DEF Tagged
    <3>1. n \in Mine(s, tables) /\ (tables[n].tagged => tables'[n].tagged)
      BY <2>5 DEF TagsKept
    <3>2. tables[n].tagged \/ n = name
      BY <1>1, <1>2, <3>1 DEF InOrder, Tagged, name
    <3> QED
      BY <2>5, <3>1, <3>2
  <2> QED
    BY <2>6, <2>7, <2>8, <2>9 DEF InOrder
<1> QED
  BY <1>5, <1>6 DEF TagTable

LEMMA LedgerInsert ==
  ASSUME Inv, TornInv, LedgerInv, NEW s \in Simulators, InsertColumn(s) PROVE InOrder(s)'
<1>1. pc[s] = "run" /\ inserts[s] # <<>> /\ UNCHANGED <<entries, cfg, step, round, clock>>
  BY DEF InsertColumn
<1>2. TypeOK /\ InOrder(s)
  BY DEF LedgerInv, Inv
<1>3. CASE tables[Insert(s).table] = NoTable
  <2>1. UNCHANGED <<tables, inserts>> /\ pc' = [pc EXCEPT ![s] = "failed"]
    BY <1>3 DEF InsertColumn, GoTo
  <2>2. pc'[s] = "failed" /\ Keeps(s)
    BY <1>1, <2>1 DEF Keeps, Inv, TypeOK
  <2> QED
    BY <1>1, <1>2, <2>1, <2>2, LedgerFails
<1>4. CASE tables[Insert(s).table] # NoTable
  <2>1. pc' = pc /\ inserts'[s] = OneColumnLess(s)
    BY <1>4 DEF InsertColumn, Inv, Destined
  <2>2. Queue(s, inserts[s], clock[s], Bound(s)) /\ Insert(s) = inserts[s][1]
    BY <1>1, FirstInsert DEF Insert, TornInv, Writes
  <2>3. inserts'[s] = Rest(inserts[s])
    BY <2>1, <2>2 DEF OneColumnLess, OneLess, Rest
  <2>4. Follows(s) /\ TagsKept(s)
    <3>1. CASE Puts(s)
      BY <1>1, <3>1, PutsFollows, PutsTags
    <3>2. CASE Rests /\ tables' = tables
      <4>1. Keeps(s)
        BY <1>1, <3>2 DEF Keeps, Rests
      <4> QED
        BY <3>2, <4>1, QuietFollows
    <3> QED
      BY <3>1, <3>2, InsertEffect
  <2>5. Books(s)'
    BY <1>2, <2>4, BooksFollow DEF InOrder
  <2>6. Setup(s)' = Setup(s) /\ Rounds(s)'
    BY <1>1, <1>2 DEF Setup, Rounds, InOrder, Progress
  <2>7. Progress(s)' /\ Entered(s)'
    BY <1>1, <1>2, <2>1, <2>6 DEF InOrder, Progress, Entered
  <2>8. Tagged(s)'
    <3> SUFFICES ASSUME NEW n \in Mine(s, tables') PROVE tables'[n].tagged
      BY DEF Tagged
    <3>1. n \in Mine(s, tables) /\ (tables[n].tagged => tables'[n].tagged)
      BY <2>4 DEF TagsKept
    <3> QED
      BY <1>1, <1>2, <3>1 DEF InOrder, Tagged
  <2>9. Pending(s)'
    <3>1. \A name \in Names : Due(Rest(inserts[s]), name) \subseteq Due(inserts[s], name)
      BY <1>1, <2>2, DueRest
    <3> QED
      BY <1>1, <1>2, <2>3, <3>1 DEF InOrder, Pending
  <2> QED
    BY <2>5, <2>7, <2>8, <2>9 DEF InOrder
<1> QED
  BY <1>3, <1>4

\* How many turns are left.
LEMMA TurnsLeft ==
  ASSUME NEW n \in Nat, NEW k \in Nat
  PROVE  /\ n \div NT < k => n + 1 <= k * NT
         /\ n \div NT >= k => n >= k * NT
<1> DEFINE q == n \div NT
           r == n % NT
           a == q * NT
           b == k * NT
<1>1. NT \in Nat \ {0}
  BY Lists
<1>2. q \in Nat /\ r \in Nat /\ r < NT /\ n = a + r /\ a \in Nat /\ b \in Nat
  BY <1>1
<1>3. q < k => a + NT <= b
  <2> SUFFICES ASSUME q < k PROVE a + NT <= b
    OBVIOUS
  <2>1. PICK d \in Nat : k = q + 1 + d
    <3>1. k - (q + 1) \in Nat /\ k = q + 1 + (k - (q + 1))
      BY <1>2
    <3> QED
      BY <3>1
  <2> HIDE DEF q
  <2>2. b = a + NT + d * NT /\ d * NT \in Nat
    BY <1>1, <1>2, <2>1
  <2> QED
    BY <1>1, <1>2, <2>2
<1>4. q >= k => a >= b
  <2> SUFFICES ASSUME q >= k PROVE a >= b
    OBVIOUS
  <2>1. PICK d \in Nat : q = k + d
    <3>1. q - k \in Nat /\ q = k + (q - k)
      BY <1>2
    <3> QED
      BY <3>1
  <2> HIDE DEF q
  <2>2. a = b + d * NT /\ d * NT \in Nat
    BY <1>1, <1>2, <2>1
  <2> QED
    BY <1>1, <1>2, <2>2
<1> HIDE DEF a, b, r
<1> QED
  BY <1>1, <1>2, <1>3, <1>4

LEMMA BatchesLeft ==
  ASSUME NEW n \in Nat, NEW k \in Nat, k % MinIterations = 0, n * MinIterations < k
  PROVE  (n + 1) * MinIterations <= k /\ (n + 1) * MinIterations = n * MinIterations + MinIterations
<1> DEFINE M == MinIterations
           q == k \div M
<1>1. M \in Nat \ {0}
  BY SimulatorAssumption
<1>2. q \in Nat /\ k = q * M
  BY <1>1
<1>3. (n + 1) * M = n * M + M
  BY <1>1
<1> HIDE DEF M, q
<1>4. n < q
  <2> SUFFICES ASSUME n >= q PROVE FALSE
    BY <1>2
  <2>1. PICK d \in Nat : n = q + d
    <3>1. n - q \in Nat /\ n = q + (n - q)
      BY <1>2
    <3> QED
      BY <3>1
  <2>2. n * M = q * M + d * M /\ d * M \in Nat /\ q * M \in Nat
    BY <1>1, <1>2, <2>1
  <2>3. n * M < k
    BY DEF M
  <2> QED
    BY <1>2, <2>2, <2>3
<1>5. PICK d \in Nat : q = n + 1 + d
  <2>1. q - (n + 1) \in Nat /\ q = n + 1 + (q - (n + 1))
    BY <1>2, <1>4
  <2> QED
    BY <2>1
<1>6. k = n * M + M + d * M /\ d * M \in Nat /\ n * M \in Nat
  BY <1>1, <1>2, <1>5
<1>7. (n + 1) * M <= k
  BY <1>1, <1>3, <1>6
<1> QED
  BY <1>3, <1>7 DEF M

\* A turn or a batch adds its inserts to the ledger.
LEMMA LedgerAdds ==
  ASSUME NEW s, tables' = tables, inserts[s] = <<>>
  PROVE  /\ Adds(Ledger(s, tables, inserts[s]), inserts'[s], Ledger(s, tables', inserts'[s]))
         /\ Mine(s, tables') = Mine(s, tables)
BY DueNone DEF Adds, Ledger

LEMMA LedgerTurn ==
  ASSUME Inv, LedgerInv, NEW s \in Simulators, NEW p \in Range(Products), NEW closes \in Market,
         TraderTurn(s, p, closes)
  PROVE  InOrder(s)'
<1> DEFINE n == round[s]
           K == Ledger(s, tables, inserts[s])
           L == Ledger(s, tables', inserts'[s])
           mine == Mine(s, tables)
<1>1. /\ pc[s] = "run" /\ step[s] > Len(Setup(s)) /\ inserts[s] = <<>> /\ ~cfg[s].fast
      /\ n \div NT < cfg[s].iterations
      /\ clock' = [clock EXCEPT ![s] = @ + NB + 1]
      /\ round' = [round EXCEPT ![s] = @ + 1]
      /\ UNCHANGED <<entries, tables, pc, cfg, step>>
  BY DEF TraderTurn, Ready, db
<1>2. /\ n \in Nat /\ clock[s] \in Nat /\ cfg[s].iterations \in Nat /\ NB \in Nat \ {0}
      /\ clock'[s] = clock[s] + NB + 1 /\ round'[s] = n + 1
  BY <1>1, Lists DEF Inv, TypeOK
<1>3. InOrder(s) /\ clock[s] = n * (NB + 1)
  BY <1>1 DEF LedgerInv, InOrder, Progress, Rounds
<1>4. PICK trader, b : Turn(inserts'[s], clock[s], trader, p, closes, b)
  BY TurnShape DEF Inv
<1>5. Adds(K, inserts'[s], L) /\ Mine(s, tables') = mine
  BY <1>1, LedgerAdds
<1>6. Trading(K, mine, n)
  BY <1>1, <1>3 DEF InOrder, Books, Booked
<1> HIDE DEF K, L, mine, n
<1>7. Trading(L, mine, n + 1)
  BY <1>2, <1>3, <1>4, <1>5, <1>6, TurnBooks
<1>8. Books(s)'
  BY <1>1, <1>2, <1>5, <1>7 DEF Books, Booked, L
<1>9. clock'[s] = (n + 1) * (NB + 1)
  BY <1>2, <1>3, MoreInstants
<1>10. n + 1 <= cfg[s].iterations * NT
  BY <1>1, <1>2, TurnsLeft
<1>11. Rounds(s)'
  BY <1>1, <1>2, <1>9, <1>10 DEF Rounds
<1>12. Setup(s)' = Setup(s) /\ Len(Setup(s)) \in Nat /\ step[s] \in Nat
  BY <1>1, SetupType DEF Setup, Inv, TypeOK
<1>13. Progress(s)'
  <2>1. ~(step[s] <= Len(Setup(s)))
    BY <1>1, <1>12
  <2> QED
    BY <1>1, <1>11, <1>12, <2>1 DEF Progress
<1>14. Entered(s)'
  BY <1>1, <1>3 DEF InOrder, Entered
<1>15. Tagged(s)'
  BY <1>1, <1>3 DEF InOrder, Tagged
<1>16. Pending(s)'
  <2> SUFFICES ASSUME NEW name \in Names, NEW r \in Due(inserts'[s], name) PROVE clock'[s] - NB <= r.at
    BY DEF Pending
  <2>1. CASE name \in QuoteTables
    <3>1. PICK i \in 1 .. NB : QuoteRow(r, clock[s], p, closes, i)
      BY <1>4, <2>1 DEF Turn
    <3>2. r.at = clock[s] + i
      BY <3>1 DEF QuoteRow
    <3> QED
      BY <1>2, <3>2
  <2>2. CASE name \in TraderTables
    <3>1. PICK t \in Range(Traders) : name = TraderTable(t)
      BY <2>2 DEF TraderTables
    <3>2. r.at = clock[s] + NB + 1
      BY <1>4, <3>1 DEF Turn, TradeRow
    <3> QED
      BY <1>2, <3>2
  <2> QED
    BY <2>1, <2>2 DEF Names
<1> QED
  BY <1>8, <1>13, <1>14, <1>15, <1>16 DEF InOrder

LEMMA LedgerBatch ==
  ASSUME Inv, LedgerInv, NEW s \in Simulators,
         NEW closes \in [1 .. MinIterations -> {prices[1] : prices \in Market}],
         FastBatch(s, closes)
  PROVE  InOrder(s)'
<1> DEFINE n == round[s]
           K == Ledger(s, tables, inserts[s])
           L == Ledger(s, tables', inserts'[s])
           mine == Mine(s, tables)
<1>1. /\ pc[s] = "run" /\ step[s] > Len(Setup(s)) /\ inserts[s] = <<>> /\ cfg[s].fast
      /\ n * MinIterations < cfg[s].iterations
      /\ clock' = [clock EXCEPT ![s] = clock[s] + MinIterations]
      /\ round' = [round EXCEPT ![s] = @ + 1]
      /\ UNCHANGED <<entries, tables, pc, cfg, step>>
  BY DEF FastBatch, Ready, db, next_start
<1>2. /\ n \in Nat /\ clock[s] \in Nat /\ cfg[s].iterations \in Nat /\ MinIterations \in Nat \ {0}
      /\ clock'[s] = clock[s] + MinIterations /\ round'[s] = n + 1
  BY <1>1, SimulatorAssumption DEF Inv, TypeOK
<1>3. InOrder(s) /\ clock[s] = n * MinIterations /\ cfg[s].iterations % MinIterations = 0
  BY <1>1 DEF LedgerInv, InOrder, Progress, Rounds
<1>4. Batch(inserts'[s], clock[s])
  BY BatchShape DEF Inv
<1>5. Adds(K, inserts'[s], L) /\ Mine(s, tables') = mine
  BY <1>1, LedgerAdds
<1>6. Batches(K, mine, clock[s])
  BY <1>1, <1>3 DEF InOrder, Books, Booked
<1> HIDE DEF K, L, mine, n
<1>7. Batches(L, mine, clock[s] + MinIterations)
  BY <1>2, <1>4, <1>5, <1>6, BatchBooks
<1>8. Books(s)'
  BY <1>1, <1>2, <1>5, <1>7 DEF Books, Booked, L
<1>9. clock'[s] = (n + 1) * MinIterations /\ clock'[s] <= cfg[s].iterations
  BY <1>1, <1>2, <1>3, BatchesLeft
<1>10. Rounds(s)'
  BY <1>1, <1>2, <1>3, <1>9 DEF Rounds
<1>11. Setup(s)' = Setup(s) /\ Len(Setup(s)) \in Nat /\ step[s] \in Nat
  BY <1>1, SetupType DEF Setup, Inv, TypeOK
<1>12. Progress(s)'
  <2>1. ~(step[s] <= Len(Setup(s)))
    BY <1>1, <1>11
  <2> QED
    BY <1>1, <1>10, <1>11, <2>1 DEF Progress
<1>13. Entered(s)' /\ Tagged(s)' /\ Pending(s)'
  BY <1>1, <1>3 DEF InOrder, Entered, Tagged, Pending
<1> QED
  BY <1>8, <1>12, <1>13 DEF InOrder

LEMMA LedgerFinish ==
  ASSUME Inv, LedgerInv, NEW s \in Simulators, Finish(s) PROVE InOrder(s)'
<1>1. /\ pc[s] = "run" /\ step[s] > Len(Setup(s)) /\ inserts[s] = <<>>
      /\ IF cfg[s].fast
         THEN round[s] * MinIterations >= cfg[s].iterations
         ELSE round[s] \div NT >= cfg[s].iterations
      /\ pc' = [pc EXCEPT ![s] = "done"]
      /\ UNCHANGED <<entries, tables, cfg, step, round, clock, inserts>>
  BY DEF Finish, Ready, GoTo, db, locals
<1>2. /\ round[s] \in Nat /\ cfg[s].iterations \in Nat /\ pc'[s] = "done"
      /\ InOrder(s) /\ TypeOK /\ Keeps(s)
  BY <1>1 DEF Inv, TypeOK, LedgerInv, Keeps
<1>3. Follows(s) /\ TagsKept(s)
  BY <1>1, <1>2, QuietFollows
<1>4. Books(s)' /\ Pending(s)' /\ Entered(s)' /\ Tagged(s)'
  BY <1>1, <1>2, <1>3, BooksFollow, PendingKeeps, EnteredKeeps, TagsKeep DEF InOrder
<1>5. IF cfg[s].fast THEN clock[s] >= cfg[s].iterations ELSE round[s] >= cfg[s].iterations * NT
  <2>1. CASE cfg[s].fast
    BY <1>1, <1>2, <2>1 DEF InOrder, Progress, Rounds
  <2>2. CASE ~cfg[s].fast
    BY <1>1, <1>2, <2>2, TurnsLeft
  <2> QED
    BY <2>1, <2>2
<1>6. Progress(s)'
  <2>1. Setup(s)' = Setup(s) /\ Rounds(s)'
    BY <1>1, <1>2 DEF Setup, InOrder, Progress, Rounds
  <2> QED
    BY <1>1, <1>2, <1>5, <2>1 DEF InOrder, Progress
<1> QED
  BY <1>4, <1>6 DEF InOrder

LEMMA LedgerFail ==
  ASSUME Inv, LedgerInv, NEW s \in Simulators, Fail(s) PROVE InOrder(s)'
<1>1. pc' = [pc EXCEPT ![s] = "failed"] /\ UNCHANGED <<entries, tables, cfg, step, round, clock, inserts>>
  BY DEF Fail, GoTo, locals
<1>2. pc'[s] = "failed" /\ InOrder(s) /\ TypeOK /\ Keeps(s)
  BY <1>1 DEF Inv, TypeOK, LedgerInv, Keeps
<1> QED
  BY <1>1, <1>2, LedgerFails

\* What a step leaves alone.
Elsewhere(s) ==
  /\ entries \subseteq entries'
  /\ \A x \in Simulators \ {s} : Keeps(x) /\ pc'[x] = pc[x]

LEMMA StepElsewhere ==
  ASSUME TypeOK, Destined, NEW s \in Simulators,
         (\E c \in Configs[s] : Start(s, c)) \/ Advance(s) \/ Fail(s)
  PROVE  Elsewhere(s)
<1>1. /\ \E v : pc' = [pc EXCEPT ![s] = v]
      /\ \E v : cfg' = [cfg EXCEPT ![s] = v]
      /\ \E v : step' = [step EXCEPT ![s] = v]
      /\ \E v : round' = [round EXCEPT ![s] = v]
      /\ \E v : clock' = [clock EXCEPT ![s] = v]
      /\ \E v : inserts' = [inserts EXCEPT ![s] = v]
      /\ entries \subseteq entries'
  <2>1. /\ pc = [pc EXCEPT ![s] = pc[s]] /\ cfg = [cfg EXCEPT ![s] = cfg[s]]
        /\ step = [step EXCEPT ![s] = step[s]] /\ round = [round EXCEPT ![s] = round[s]]
        /\ clock = [clock EXCEPT ![s] = clock[s]] /\ inserts = [inserts EXCEPT ![s] = inserts[s]]
    BY DEF TypeOK, Destined
  <2>2. CASE \E c \in Configs[s] : Start(s, c)
    BY <2>1, <2>2 DEF Start, GoTo, db
  <2>3. CASE CreateEntries(s) \/ RemoveTable(s) \/ Finish(s) \/ Fail(s)
    BY <2>1, <2>3 DEF CreateEntries, RemoveTable, Finish, Fail, GoTo, db, locals
  <2>4. CASE CreateTable(s)
    BY <2>1, <2>4 DEF CreateTable, GoTo, locals
  <2>5. CASE TagTable(s)
    BY <2>1, <2>5 DEF TagTable, GoTo
  <2>6. CASE \E p \in Range(Products), closes \in Market : TraderTurn(s, p, closes)
    <3>1. PICK p \in Range(Products), closes \in Market : TraderTurn(s, p, closes)
      BY <2>6
    <3>2. \E v : inserts' = [inserts EXCEPT ![s] = v]
      BY <3>1, TurnInserts
    <3> QED
      BY <2>1, <3>1, <3>2 DEF TraderTurn, db
  <2>7. CASE \E closes \in [1 .. MinIterations -> {prices[1] : prices \in Market}] : FastBatch(s, closes)
    BY <2>1, <2>7 DEF FastBatch, db
  <2>8. CASE InsertColumn(s)
    BY <2>1, <2>8 DEF InsertColumn, GoTo
  <2> QED
    BY <2>2, <2>3, <2>4, <2>5, <2>6, <2>7, <2>8 DEF Advance
<1>2. ASSUME NEW x \in Simulators \ {s} PROVE Keeps(x) /\ pc'[x] = pc[x]
  BY <1>1 DEF Keeps, TypeOK, Destined
<1> QED
  BY <1>1, <1>2 DEF Elsewhere

\* What a step does to the tables is in order for the others.
LEMMA StepFollows ==
  ASSUME Inv, TornInv, NEW s \in Simulators,
         (\E c \in Configs[s] : Start(s, c)) \/ Advance(s) \/ Fail(s),
         NEW x \in Simulators \ {s}
  PROVE  Follows(x) /\ TagsKept(x)
<1>1. TypeOK /\ Keeps(x)
  BY StepElsewhere DEF Elsewhere, Inv
<1>2. ASSUME tables' = tables PROVE Follows(x) /\ TagsKept(x)
  BY <1>1, <1>2, QuietFollows
<1>3. CASE RemoveTable(s)
  <2>1. UNCHANGED round
    BY <1>3 DEF RemoveTable, locals
  <2> QED
    BY <1>1, <1>3, <2>1, RemoveEffect, RemovesFollows, RemovesTags
<1>4. CASE CreateTable(s)
  <2>1. UNCHANGED round
    BY <1>4 DEF CreateTable, locals
  <2> QED
    BY <1>1, <1>2, <1>4, <2>1, CreateEffect, CreatesFollows, CreatesTags
<1>5. CASE TagTable(s)
  <2>1. UNCHANGED round
    BY <1>5 DEF TagTable
  <2> QED
    BY <1>2, <1>5, <2>1, TagEffect, TagsFollows, TagsTags
<1>6. CASE InsertColumn(s)
  <2>1. UNCHANGED round
    BY <1>6 DEF InsertColumn
  <2> QED
    BY <1>2, <1>6, <2>1, InsertEffect, PutsFollows, PutsTags
<1>7. CASE ~(RemoveTable(s) \/ CreateTable(s) \/ TagTable(s) \/ InsertColumn(s))
  <2>1. tables' = tables
    BY <1>7 DEF Advance, Start, CreateEntries, TraderTurn, FastBatch, Finish, Fail, db
  <2> QED
    BY <1>2, <2>1
<1> QED
  BY <1>3, <1>4, <1>5, <1>6, <1>7

LEMMA LedgerStep == Inv /\ TornInv /\ LedgerInv /\ [Next]_vars => LedgerInv'
<1> SUFFICES ASSUME Inv, TornInv, LedgerInv, [Next]_vars PROVE LedgerInv'
  OBVIOUS
<1>1. CASE UNCHANGED vars
  <2> SUFFICES ASSUME NEW x \in Simulators PROVE InOrder(x)'
    BY DEF LedgerInv
  <2>1. Keeps(x) /\ UNCHANGED <<tables, entries, pc>> /\ InOrder(x) /\ TypeOK
    BY <1>1 DEF vars, db, locals, Keeps, LedgerInv, Inv
  <2>2. Follows(x) /\ TagsKept(x)
    BY <2>1, QuietFollows
  <2> QED
    BY <2>1, <2>2, OthersInOrder
<1>2. CASE Next
  <2>1. PICK s \in Simulators : (\E c \in Configs[s] : Start(s, c)) \/ Advance(s) \/ Fail(s)
    BY <1>2 DEF Next
  <2>2. ASSUME NEW x \in Simulators \ {s} PROVE InOrder(x)'
    <3>1. Follows(x) /\ TagsKept(x)
      BY <2>1, StepFollows
    <3>2. Keeps(x) /\ pc'[x] = pc[x] /\ entries \subseteq entries'
      BY <2>1, StepElsewhere DEF Elsewhere, Inv
    <3> QED
      BY <3>1, <3>2, OthersInOrder DEF LedgerInv, Inv
  <2>3. InOrder(s)'
    BY <2>1, LedgerStart, LedgerEntries, LedgerRemove, LedgerCreate, LedgerTag, LedgerTurn,
       LedgerBatch, LedgerInsert, LedgerFinish, LedgerFail DEF Advance
  <2> QED
    BY <2>2, <2>3 DEF LedgerInv
<1> QED
  BY <1>1, <1>2

LEMMA LedgerInvariance == Spec => [](Inv /\ TornInv /\ LedgerInv)
<1>1. Init => Inv /\ TornInv /\ LedgerInv
  BY InitInv, TornInit, LedgerInit
<1>2. (Inv /\ TornInv /\ LedgerInv) /\ [Next]_vars => (Inv /\ TornInv /\ LedgerInv)'
  BY InvStep, TornStep, LedgerStep
<1> QED
  BY <1>1, <1>2, PTL DEF Spec

-----------------------------------------------------------------------------
(***************************************************************************)
(* What a reader finds in the tables that have been left alone.            *)
(***************************************************************************)
LEMMA Booking ==
  ASSUME TornInv, NEW s \in Simulators, NEW name \in Names, NEW r \in WholeIn(name), r.by = s
  PROVE  r \in Ledger(s, tables, inserts[s])[name] /\ r \in AnyRow
<1>1. Exists(name) /\ WholeIn(name) = WholeOf(tables[name], ColumnsOf(name))
  BY Reading
<1>2. tables[name] \in TableWith(ColumnsOf(name)) /\ tables[name] # NoTable
  BY <1>1 DEF TornInv, Typed, Exists
<1>3. r \in AllOf(tables[name], ColumnsOf(name))
  BY <1>1, <1>2, ColumnsOK, WholeIsAll
<1>4. r \in Present(s, tables, name) /\ r \in AnyRow
  BY <1>2, <1>3 DEF Present, By, AllOf
<1> QED
  BY <1>4, LedgerAt

\* In a table of its own, a row of which no column is left to insert is whole.
LEMMA OwnWhole ==
  ASSUME TornInv, NEW s \in Simulators, NEW name \in Mine(s, tables),
         NEW r \in Ledger(s, tables, inserts[s])[name], r \notin Due(inserts[s], name)
  PROVE  r \in WholeIn(name) /\ r.by = s /\ r \in AnyRow
<1> DEFINE t == tables[name]
           C == ColumnsOf(name)
           R == HandIn(inserts[s], name)
<1>1. name \in Names /\ t # NoTable /\ t.owner = s
  BY DEF Mine
<1>2. r \in By(s, t, C)
  BY <1>1, LedgerAt DEF Present
<1>3. r.by = s /\ r \in AnyRow
  BY <1>2 DEF By, AllOf
<1>4. Queue(s, inserts[s], clock[s], Bound(s)) /\ TableOK(s, name, t, inserts[s], clock[s], Bound(s))
  BY <1>1 DEF TornInv, Writes, TablesOK
<1>5. R \subseteq Due(inserts[s], name)
  <2>1. CASE inserts[s] = <<>>
    BY <2>1 DEF HandIn
  <2>2. CASE inserts[s] # <<>>
    BY <1>4, <2>2, DueRest
  <2> QED
    BY <2>1, <2>2
<1>6. Whole(s, t, C, R, HandAt(inserts[s], name), Bound(s))
  BY <1>1, <1>4 DEF TableOK, Written, Cut
<1>7. By(s, t, C) \ (WholeOf(t, C) \cup R) = {}
  BY <1>1, <1>6 DEF Whole
<1>8. r \in WholeOf(t, C)
  BY <1>2, <1>5, <1>7
<1>9. WholeIn(name) = WholeOf(t, C)
  BY <1>1, Reading DEF Exists
<1> QED
  BY <1>3, <1>8, <1>9

LEMMA OwnRows ==
  ASSUME TornInv, NEW s \in Simulators, inserts[s] = <<>>, NEW names, names \subseteq Mine(s, tables)
  PROVE  {r \in UNION {WholeIn(name) : name \in names} : r.by = s} =
           UNION {Ledger(s, tables, inserts[s])[name] : name \in names}
<1>1. \A name \in names : name \in Mine(s, tables) /\ name \in Names /\ Due(inserts[s], name) = {}
  BY DueNone DEF Mine
<1>2. \A name \in names : \A r \in WholeIn(name) : r.by = s => r \in Ledger(s, tables, inserts[s])[name]
  BY <1>1, Booking
<1>3. \A name \in names : \A r \in Ledger(s, tables, inserts[s])[name] : r \in WholeIn(name) /\ r.by = s
  <2> SUFFICES ASSUME NEW name \in names, NEW r \in Ledger(s, tables, inserts[s])[name]
               PROVE  r \in WholeIn(name) /\ r.by = s
    OBVIOUS
  <2>1. name \in Mine(s, tables) /\ r \notin Due(inserts[s], name)
    BY <1>1
  <2> QED
    BY <2>1, OwnWhole
<1> QED
  BY <1>2, <1>3

LEMMA OwnerMine ==
  ASSUME NEW s \in Simulators, NEW name \in Names
  PROVE  Owner(name) = s <=> name \in Mine(s, tables)
BY SimulatorAssumption DEF Owner, Exists, Mine

LEMMA Counted ==
  ASSUME NEW n \in Nat, NEW S, NEW f \in [1 .. n -> S], \A i, j \in 1 .. n : f[i] = f[j] => i = j,
         \A x \in S : \E i \in 1 .. n : f[i] = x
  PROVE  IsFiniteSet(S) /\ Cardinality(S) = n
<1>1. f \in Bijection(1 .. n, S)
  BY DEF Bijection, Injection, Surjection, IsInjective
<1>2. ExistsBijection(1 .. n, S)
  BY <1>1 DEF ExistsBijection
<1>3. IsFiniteSet(1 .. n)
  BY FS_Interval
<1> QED
  BY <1>2, <1>3, FS_CountingElements, FS_Bijection

LEMMA TradeCount ==
  ASSUME NEW n \in Nat
  PROVE  /\ IsFiniteSet(TradeInstants(n)) /\ Cardinality(TradeInstants(n)) = n
         /\ TradeInstants(n) \subseteq 1 .. n * (NB + 1)
<1> DEFINE N == NB + 1
           f == [k \in 1 .. n |-> k * N]
<1>1. N \in Nat \ {0}
  BY Lists
<1>2. TradeInstants(n) = {k * N : k \in 1 .. n}
  BY DEF TradeInstants
<1> HIDE DEF N
<1>3. \A i, j \in 1 .. n : i * N = j * N => i = j
  BY <1>1
<1>4. \A k \in 1 .. n : k * N \in 1 .. n * N
  <2> SUFFICES ASSUME NEW k \in 1 .. n PROVE k * N \in 1 .. n * N
    OBVIOUS
  <2>1. k * N \in Nat /\ n * N \in Nat /\ 1 <= k * N /\ k * N <= n * N
    BY <1>1
  <2> QED
    BY <2>1
<1>5. /\ f \in [1 .. n -> TradeInstants(n)]
      /\ \A i, j \in 1 .. n : f[i] = f[j] => i = j
      /\ \A x \in TradeInstants(n) : \E i \in 1 .. n : f[i] = x
  BY <1>2, <1>3
<1> HIDE DEF f
<1>6. IsFiniteSet(TradeInstants(n)) /\ Cardinality(TradeInstants(n)) = n
  BY <1>5, Counted
<1>7. TradeInstants(n) \subseteq 1 .. n * N
  BY <1>2, <1>4
<1> QED
  BY <1>6, <1>7 DEF N

LEMMA QuoteCount ==
  ASSUME NEW n \in Nat
  PROVE  IsFiniteSet(QuoteInstants(n)) /\ Cardinality(QuoteInstants(n)) = n * NB
<1> DEFINE m == n * (NB + 1)
           T == TradeInstants(n)
<1>1. NB \in Nat /\ m \in Nat /\ m - n = n * NB
  BY Lists
<1>2. Cardinality(T) = n /\ T \subseteq 1 .. m
  BY TradeCount
<1>3. QuoteInstants(n) = (1 .. m) \ T
  BY DEF QuoteInstants
<1> HIDE DEF m, T
<1>4. IsFiniteSet(1 .. m) /\ Cardinality(1 .. m) = m
  <2>1. m \in Nat
    BY <1>1
  <2>2. m \in Int /\ 1 \in Int
    BY <2>1
  <2>3. IsFiniteSet(1 .. m) /\ Cardinality(1 .. m) = IF 1 > m THEN 0 ELSE m - 1 + 1
    BY <2>2, FS_Interval
  <2> QED
    BY <2>1, <2>3
<1>5. (1 .. m) \cap T = T
  BY <1>2
<1>6. IsFiniteSet((1 .. m) \ T) /\ Cardinality((1 .. m) \ T) = m - Cardinality((1 .. m) \cap T)
  BY <1>4, FS_Difference
<1> QED
  BY <1>1, <1>2, <1>3, <1>5, <1>6

LEMMA FastCount ==
  ASSUME NEW n \in Nat, NEW R, \A r \in R : r.at \in 1 .. n, \A i \in 1 .. n : \E r \in R : r.at = i,
         \A q, r \in R : q.at = r.at => q = r
  PROVE  Cardinality(R) = n /\ Cardinality({r.at : r \in R}) = n
<1> DEFINE f == [i \in 1 .. n |-> CHOOSE r \in R : r.at = i]
<1>1. \A i \in 1 .. n : f[i] \in R /\ f[i].at = i
  OBVIOUS
<1>2. f \in [1 .. n -> R]
  BY <1>1
<1> HIDE DEF f
<1>3. \A i, j \in 1 .. n : f[i] = f[j] => i = j
  BY <1>1
<1>4. \A x \in R : \E i \in 1 .. n : f[i] = x
  BY <1>1
<1>5. Cardinality(R) = n
  BY <1>2, <1>3, <1>4, Counted
<1>6. {r.at : r \in R} = 1 .. n
  OBVIOUS
<1>7. Cardinality(1 .. n) = n
  BY FS_Interval
<1> QED
  BY <1>5, <1>6, <1>7

\* The instants that a simulator's tables have.
LEMMA InstantsOf ==
  ASSUME NEW K, NEW mine, NEW names, names \subseteq mine, NEW instants,
         Only(K, names, instants), Full(K, mine, names, instants)
  PROVE  {r.at : r \in UNION {K[name] : name \in names}} = instants
<1>1. \A name \in names : \A r \in K[name] : r.at \in instants
  BY DEF Only
<1>2. \A i \in instants : \E name \in names : \E r \in K[name] : r.at = i
  BY DEF Full
<1> QED
  BY <1>1, <1>2

LEMMA LedgerComplete == Inv /\ TornInv /\ LedgerInv => FinishedComplete
<1> SUFFICES ASSUME Inv, TornInv, LedgerInv, NEW s \in Simulators, pc[s] = "done"
             PROVE  LET mine   == {name \in Names : Owner(name) = s}
                        Own(names) == {r \in UNION {WholeIn(name) : name \in names} : r.by = s}
                        rounds == cfg[s].iterations * NT
                    IN  /\ \A name \in mine : tables[name].tagged
                        /\ cfg[s].fast /\ FastTable \in mine =>
                             /\ Cardinality(Own({FastTable})) = cfg[s].iterations
                             /\ Cardinality({r.at : r \in Own({FastTable})}) = cfg[s].iterations
                        /\ ~cfg[s].fast /\ TraderTables \subseteq mine =>
                             Cardinality({r.at : r \in Own(TraderTables)}) = rounds
                        /\ ~cfg[s].fast /\ QuoteTables \subseteq mine =>
                             Cardinality({r.at : r \in Own(QuoteTables)}) = rounds * NB
  BY DEF FinishedComplete
<1> DEFINE mine == Mine(s, tables)
           Own(names) == {r \in UNION {WholeIn(name) : name \in names} : r.by = s}
           rounds == cfg[s].iterations * NT
           K == Ledger(s, tables, inserts[s])
<1>1. {name \in Names : Owner(name) = s} = mine
  BY OwnerMine DEF Mine
<1>2. InOrder(s) /\ inserts[s] = <<>>
  BY DEF LedgerInv, InOrder, Progress
<1>3. /\ cfg[s].iterations \in Nat /\ rounds \in Nat /\ round[s] \in Nat /\ clock[s] \in Nat
      /\ NT \in Nat
  BY Lists DEF Inv, TypeOK
<1>4. \A name \in mine : tables[name].tagged
  BY <1>2 DEF InOrder, Tagged
<1>5. ASSUME NEW names, names \subseteq mine PROVE Own(names) = UNION {K[name] : name \in names}
  BY <1>2, <1>5, OwnRows
<1>6. ASSUME cfg[s].fast, FastTable \in mine
      PROVE  /\ Cardinality(Own({FastTable})) = cfg[s].iterations
             /\ Cardinality({r.at : r \in Own({FastTable})}) = cfg[s].iterations
  <2>1. clock[s] = cfg[s].iterations
    BY <1>2, <1>3, <1>6 DEF InOrder, Progress, Rounds
  <2>2. Batches(K, mine, cfg[s].iterations)
    BY <1>2, <1>6, <2>1 DEF InOrder, Books, Booked
  <2>3. Own({FastTable}) = K[FastTable]
    <3>1. Own({FastTable}) = UNION {K[name] : name \in {FastTable}}
      BY <1>5, <1>6
    <3> HIDE DEF K, Own
    <3> QED
      BY <3>1
  <2> HIDE DEF K, mine, Own
  <2>4. /\ \A r \in K[FastTable] : r.at \in 1 .. cfg[s].iterations
        /\ \A i \in 1 .. cfg[s].iterations : \E r \in K[FastTable] : r.at = i
        /\ \A q, r \in K[FastTable] : q.at = r.at => q = r
    BY <1>6, <2>2, TableSets DEF Batches, Only, Full
  <2>5. Cardinality(K[FastTable]) = cfg[s].iterations /\ Cardinality({r.at : r \in K[FastTable]}) = cfg[s].iterations
    BY <1>3, <2>4, FastCount
  <2> QED
    BY <2>3, <2>5
<1>7. ASSUME ~cfg[s].fast PROVE Trading(K, mine, rounds)
  <2>1. round[s] = rounds
    BY <1>2, <1>3, <1>7 DEF InOrder, Progress, Rounds
  <2> QED
    BY <1>2, <1>7, <2>1 DEF InOrder, Books, Booked
<1>8. ASSUME ~cfg[s].fast, TraderTables \subseteq mine
      PROVE  Cardinality({r.at : r \in Own(TraderTables)}) = rounds
  <2>1. Own(TraderTables) = UNION {K[name] : name \in TraderTables}
    BY <1>5, <1>8
  <2> HIDE DEF K, mine, Own, rounds
  <2>2. {r.at : r \in UNION {K[name] : name \in TraderTables}} = TradeInstants(rounds)
    BY <1>7, <1>8, InstantsOf DEF Trading
  <2> QED
    BY <1>3, <2>1, <2>2, TradeCount
<1>9. ASSUME ~cfg[s].fast, QuoteTables \subseteq mine
      PROVE  Cardinality({r.at : r \in Own(QuoteTables)}) = rounds * NB
  <2>1. Own(QuoteTables) = UNION {K[name] : name \in QuoteTables}
    BY <1>5, <1>9
  <2> HIDE DEF K, mine, Own, rounds
  <2>2. {r.at : r \in UNION {K[name] : name \in QuoteTables}} = QuoteInstants(rounds)
    BY <1>7, <1>9, InstantsOf DEF Trading
  <2> QED
    BY <1>3, <2>1, <2>2, QuoteCount
<1> QED
  BY <1>1, <1>4, <1>6, <1>8, <1>9

\* A trade that is not of the latest turn was made a turn earlier at least.
LEMMA EarlierTrade ==
  ASSUME NEW n \in Nat, NEW at \in TradeInstants(n), at # n * (NB + 1)
  PROVE  at \in Nat /\ at + NB + 1 <= n * (NB + 1)
<1> DEFINE N == NB + 1
<1>1. N \in Nat \ {0} /\ NB \in Nat /\ N = NB + 1
  BY Lists
<1>2. PICK k \in 1 .. n : at = k * N
  BY DEF TradeInstants
<1>3. at # n * N
  OBVIOUS
<1> HIDE DEF N
<1>4. k # n /\ k <= n
  BY <1>2, <1>3
<1>5. PICK d \in Nat : n = k + 1 + d
  <2>1. n - (k + 1) \in Nat /\ n = k + 1 + (n - (k + 1))
    BY <1>4
  <2> QED
    BY <2>1
<1>6. n * N = k * N + N + d * N /\ k * N \in Nat /\ d * N \in Nat /\ n * N \in Nat
  BY <1>1, <1>5
<1>7. at \in Nat /\ at + N <= n * N
  BY <1>1, <1>2, <1>6
<1> QED
  BY <1>1, <1>7 DEF N

LEMMA LedgerBacked == Inv /\ TornInv /\ LedgerInv => TradesBacked
<1> SUFFICES ASSUME Inv, TornInv, LedgerInv,
                    NEW t \in 1 .. NT, NEW trade \in WholeIn(TraderTable(Traders[t]))
             PROVE  /\ {trade.product, trade.broker} \subseteq entries
                    /\ Traders[t] \notin Cheaters => \A q \in Quotes(trade) : q.price >= trade.price
                    /\ \/ inserts[trade.by] # <<>> /\ trade.at = clock[trade.by]
                       \/ QuoteTablesOf(trade.by) # QuoteTables
                       \/ /\ {q.broker : q \in Quotes(trade)} = Range(Brokers)
                          /\ \E q \in Quotes(trade) :
                               q.product = trade.product /\ q.broker = trade.broker /\ q.price = trade.price
  BY DEF TradesBacked
<1> DEFINE s == trade.by
           name == TraderTable(Traders[t])
           K == Ledger(s, tables, inserts[s])
           mine == Mine(s, tables)
<1>1. Traders[t] \in Range(Traders) /\ name \in TraderTables /\ name \in Names
  BY Lists, TableSets
<1>2. trade \in AnyRow
  <2>1. Exists(name) /\ WholeIn(name) = WholeOf(tables[name], ColumnsOf(name))
    BY <1>1, Reading
  <2> QED
    BY <2>1 DEF WholeOf
<1>3. /\ s \in Simulators /\ trade.at \in Nat
      /\ trade.product \in Range(Products) /\ trade.broker \in Range(Brokers)
  BY <1>2 DEF AnyRow
<1>4. trade \in K[name]
  BY <1>1, <1>3, Booking
<1>5. InOrder(s) /\ TypeOK /\ cfg[s].fast \in BOOLEAN /\ round[s] \in Nat /\ clock[s] \in Nat
  BY <1>3 DEF LedgerInv, Inv, TypeOK
<1> HIDE DEF s
<1>6. ~cfg[s].fast /\ Trading(K, mine, round[s])
  <2>1. Booked(K, mine, cfg[s].fast, round[s], clock[s])
    BY <1>5 DEF InOrder, Books
  <2> HIDE DEF K, mine, name
  <2>2. ~cfg[s].fast
    BY <1>1, <1>4, <2>1 DEF Booked, Batches, Only
  <2> QED
    BY <2>1, <2>2 DEF Booked
<1>7. trade.at \in TradeInstants(round[s]) /\ clock[s] = round[s] * (NB + 1)
  <2>1. clock[s] = round[s] * (NB + 1)
    BY <1>5, <1>6 DEF InOrder, Progress, Rounds
  <2> HIDE DEF K, mine, name
  <2> QED
    BY <1>1, <1>4, <1>6, <2>1 DEF Trading, Only
<1>8. {trade.product, trade.broker} \subseteq entries
  <2>1. round[s] # 0
    BY <1>7, NoInstants
  <2> QED
    BY <1>3, <1>5, <2>1 DEF InOrder, Entered
<1>9. \A q : q \in Quotes(trade) <=>
          /\ \E m \in QuoteTables : q \in WholeIn(m)
          /\ q.by = s /\ q.at \in trade.at - NB .. trade.at - 1
  BY DEF Quotes, s
<1>10. ASSUME Traders[t] \notin Cheaters, NEW q \in Quotes(trade) PROVE q.price >= trade.price
  <2>1. PICK m \in QuoteTables : q \in WholeIn(m)
    BY <1>9
  <2>2. q.by = s /\ q.at \in trade.at - NB .. trade.at - 1
    BY <1>9
  <2>3. q \in K[m]
    BY <1>3, <2>1, <2>2, Booking, TableSets
  <2> HIDE DEF K, mine
  <2> QED
    BY <1>1, <1>4, <1>6, <1>10, <2>2, <2>3 DEF Trading, Cheapest
<1>11. ASSUME ~(inserts[s] # <<>> /\ trade.at = clock[s]), QuoteTablesOf(s) = QuoteTables
       PROVE  /\ {q.broker : q \in Quotes(trade)} = Range(Brokers)
              /\ \E q \in Quotes(trade) :
                   q.product = trade.product /\ q.broker = trade.broker /\ q.price = trade.price
  <2>1. QuoteTables \subseteq mine
    BY <1>3, <1>11, OwnerMine, TableSets DEF QuoteTablesOf
  <2>2. NB \in Nat \ {0}
    BY Lists
  <2>3. ASSUME NEW m \in QuoteTables, NEW q \in K[m], q.at \in trade.at - NB .. trade.at - 1
        PROVE  q \in Quotes(trade) /\ q \in AnyRow
    <3>1. m \in mine /\ m \in Names
      BY <2>1, TableSets
    <3>2. q \notin Due(inserts[s], m)
      <4>1. CASE inserts[s] = <<>>
        BY <4>1, DueNone
      <4>2. CASE trade.at # clock[s]
        <5>1. trade.at \in Nat /\ trade.at + NB + 1 <= clock[s]
          BY <1>5, <1>7, <4>2, EarlierTrade
        <5>2. ~(clock[s] - NB <= q.at)
          BY <1>5, <2>2, <2>3, <5>1
        <5> QED
          BY <1>5, <1>6, <3>1, <5>2 DEF InOrder, Pending
      <4> QED
        BY <1>11, <4>1, <4>2
    <3>3. q \in WholeIn(m) /\ q.by = s /\ q \in AnyRow
      BY <1>3, <2>3, <3>1, <3>2, OwnWhole
    <3> QED
      BY <1>9, <2>3, <3>3
  <2>4. TakenFrom(K, trade) /\ \A b \in 1 .. NB : QuotedBy(K, trade, b)
    <3> HIDE DEF K, mine, name
    <3> QED
      BY <1>1, <1>4, <1>6, <2>1 DEF Trading, Backed
  <2> HIDE DEF K, mine, name
  <2>5. \E q \in Quotes(trade) :
          q.product = trade.product /\ q.broker = trade.broker /\ q.price = trade.price
    <3>1. PICK m \in QuoteTables : \E q \in K[m] :
            /\ q.at \in trade.at - NB .. trade.at - 1
            /\ q.product = trade.product /\ q.broker = trade.broker /\ q.price = trade.price
      BY <2>4 DEF TakenFrom
    <3> QED
      BY <2>3, <3>1
  <2>6. ASSUME NEW b \in 1 .. NB PROVE \E q \in Quotes(trade) : q.broker = Brokers[b]
    <3>1. QuotedBy(K, trade, b)
      BY <2>4
    <3>2. PICK m \in QuoteTables : \E q \in K[m] : q.at = trade.at - (NB + 1) + b /\ q.broker = Brokers[b]
      BY <3>1 DEF QuotedBy
    <3>3. trade.at - (NB + 1) + b \in trade.at - NB .. trade.at - 1
      BY <1>3, <2>2
    <3> QED
      BY <2>3, <3>2, <3>3
  <2>7. ASSUME NEW q \in Quotes(trade) PROVE q.broker \in Range(Brokers)
    <3>1. PICK m \in QuoteTables : q \in WholeIn(m)
      BY <1>9
    <3>2. q \in AnyRow
      BY <1>3, <1>9, <3>1, Booking, TableSets
    <3> QED
      BY <3>2 DEF AnyRow
  <2> QED
    BY <2>5, <2>6, <2>7, Lists
<1> QED
  BY <1>8, <1>10, <1>11 DEF s

\* A simulator that ends well has left every row it set out to write, whole and at an
\* instant of its own, in the tables that are still its own, and they are tagged.
THEOREM RunsComplete == Spec => []FinishedComplete
BY LedgerInvariance, LedgerComplete, PTL

\* Every trade that can be read whole comes from quotes that can be read whole, once its
\* turn is over and if nobody has taken the tables away.
THEOREM TradesAlwaysBacked == Spec => []TradesBacked
BY LedgerInvariance, LedgerBacked, PTL
=============================================================================
