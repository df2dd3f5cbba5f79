----------------------------- MODULE Simulator -----------------------------
(***************************************************************************)
(* The trading desk simulator: it enters the products and the brokers,     *)
(* removes and creates a table of quotes for each pair of them, and then   *)
(* either lets its traders trade in turn (each of them asks every broker   *)
(* for a quote, picks one, and the trade and the quotes are inserted), or, *)
(* with --fast, fills one table of quotes batch by batch.                  *)
(*                                                                         *)
(* Several simulators may run against one database.  A database call is    *)
(* one step: a row is inserted with one call per column.  Of a row we keep *)
(* its writer, its instant, its product, its broker and its price (the     *)
(* closing price of a quote, the value of a trade).                        *)
(***************************************************************************)
EXTENDS Integers, Sequences, FiniteSets, Functions

CONSTANTS
  Simulators,     \* processes that may run at the same time
  Configs,        \* Configs[s]: command lines s may be given: [fast, iterations]
  Products,       \* sequence of the products
  Brokers,        \* sequence of the brokers
  Traders,        \* sequence of the traders
  Cheaters,       \* the traders that are not greedy
  Market,         \* sequences of closing prices the brokers may quote, in their order
  MinIterations,  \* min_iterations
  QuoteColumns,   \* sequence of the columns of a table of quotes
  TradeColumns,   \* sequence of the columns of a trader's table
  MaxBroken,      \* calls that may fail for a reason of their own
  NoTable         \* stands for a table that does not exist

IsList(list) == list \in Seq(Range(list)) /\ Len(list) > 0

AnyRow ==
  [by : Simulators, at : Nat, product : Range(Products), broker : Range(Brokers), price : Nat]

TableWith(columns) ==
  [owner : Simulators, tagged : BOOLEAN, columns : [Range(columns) -> SUBSET AnyRow]]

AnyTable == TableWith(QuoteColumns) \cup TableWith(TradeColumns)

ASSUME SimulatorAssumption ==
  /\ Configs \in [Simulators -> SUBSET [fast : BOOLEAN, iterations : Nat]]
  /\ IsList(Products) /\ IsList(Brokers) /\ IsList(Traders)
  /\ IsList(QuoteColumns) /\ IsInjective(QuoteColumns)
  /\ IsList(TradeColumns) /\ IsInjective(TradeColumns)
  /\ Market \subseteq [1 .. Len(Brokers) -> Nat]
  /\ MinIterations \in Nat \ {0}
  /\ MaxBroken \in Nat
  /\ NoTable \notin AnyTable \cup Simulators

VARIABLES
  entries,   \* products and brokers in the database
  tables,    \* tables[name]: [owner, tagged, columns], or NoTable
  pc,        \* where each simulator is
  cfg,       \* its command line
  step,      \* its position in Setup
  round,     \* fast: batches generated; otherwise turns that traders have had
  clock,     \* instants it has drawn
  inserts,   \* inserts it has still to make: [table, rows, columns]
  broken     \* history: calls that have failed for a reason of their own

db     == <<entries, tables, broken>>
locals == <<cfg, step, round, clock, inserts>>
vars   == <<db, pc, locals>>

QuoteTable(broker, product) == <<broker, product>>
TraderTable(trader) == <<trader>>

QuoteTables  == {QuoteTable(b, p) : b \in Range(Brokers), p \in Range(Products)}
TraderTables == {TraderTable(t) : t \in Range(Traders)}
Names        == QuoteTables \cup TraderTables
ColumnsOf(name) == IF name \in QuoteTables THEN QuoteColumns ELSE TradeColumns

-----------------------------------------------------------------------------
NB == Len(Brokers)
NP == Len(Products)
NT == Len(Traders)

\* The tables that main creates before it trades, in their order: one for each product
\* of each broker, and one for each trader unless --fast.
create_products_ts ==
  [i \in 1 .. NB * NP |->
     QuoteTable(Brokers[((i - 1) \div NP) + 1], Products[((i - 1) % NP) + 1])]

traders_ts_creator == [i \in 1 .. NT |-> TraderTable(Traders[i])]

Setup(s) ==
  IF cfg[s].fast THEN create_products_ts ELSE create_products_ts \o traders_ts_creator

NoConfig == [fast |-> FALSE, iterations |-> 0]

Init ==
  /\ entries = {}
  /\ tables = [name \in Names |-> NoTable]
  /\ pc = [s \in Simulators |-> "idle"]
  /\ cfg = [s \in Simulators |-> NoConfig]
  /\ step = [s \in Simulators |-> 1]
  /\ round = [s \in Simulators |-> 0]
  /\ clock = [s \in Simulators |-> 0]
  /\ inserts = [s \in Simulators |-> <<>>]
  /\ broken = 0

GoTo(s, label) == pc' = [pc EXCEPT ![s] = label]

\* parse_config
Start(s, c) ==
  /\ pc[s] = "idle"
  /\ c.iterations % MinIterations = 0
  /\ cfg' = [cfg EXCEPT ![s] = c]
  /\ GoTo(s, "entries")
  /\ UNCHANGED <<db, step, round, clock, inserts>>

\* qdb_int_put, whose result is not looked at, and the tags, of every product and
\* broker.  Entries are only added, and not read: one step for all of them.
CreateEntries(s) ==
  /\ pc[s] = "entries"
  /\ entries' = entries \cup Range(Products) \cup Range(Brokers)
  /\ GoTo(s, "run")
  /\ UNCHANGED <<tables, broken, locals>>

\* Mutant: the result of qdb_remove is looked at.
RemoveChecked(s) ==
  /\ pc[s] = "run"
  /\ step[s] <= Len(Setup(s))
  /\ tables' = [tables EXCEPT ![Setup(s)[step[s]]] = NoTable]
  /\ GoTo(s, IF tables[Setup(s)[step[s]]] = NoTable THEN "failed" ELSE "create")
  /\ UNCHANGED <<entries, broken, locals>>

\* create_product_ts and create_trader_ts: qdb_remove, whose result is not looked at,
RemoveTable(s) ==
  /\ pc[s] = "run"
  /\ step[s] <= Len(Setup(s))
  /\ tables' = [tables EXCEPT ![Setup(s)[step[s]]] = NoTable]
  /\ GoTo(s, "create")
  /\ UNCHANGED <<entries, broken, locals>>

EmptyTable(s, name) ==
  [owner |-> s, tagged |-> FALSE, columns |-> [c \in Range(ColumnsOf(name)) |-> {}]]

\* qdb_ts_create, which fails if there is a table,
CreateTable(s) ==
  /\ pc[s] = "create"
  /\ LET name == Setup(s)[step[s]]
     IN  IF tables[name] = NoTable
         THEN /\ tables' = [tables EXCEPT ![name] = EmptyTable(s, name)]
              /\ GoTo(s, "tag")
         ELSE GoTo(s, "failed") /\ UNCHANGED tables
  /\ UNCHANGED <<entries, broken, locals>>

\* and qdb_attach_tag, whose result is not looked at: the table may be gone.  The tag is
\* tagged in turn, which fails if there is no such tag because nothing ever had it.
TagTable(s) ==
  /\ pc[s] = "tag"
  /\ LET name == Setup(s)[step[s]]
     IN  \/ /\ tables' = IF tables[name] = NoTable
                         THEN tables
                         ELSE [tables EXCEPT ![name].tagged = TRUE]
            /\ step' = [step EXCEPT ![s] = @ + 1]
            /\ GoTo(s, "run")
         \/ /\ tables[name] = NoTable
            /\ GoTo(s, "failed")
            /\ UNCHANGED <<tables, step>>
  /\ UNCHANGED <<entries, broken, cfg, round, clock, inserts>>

\* The loop is about to start or to go on.
Ready(s) == pc[s] = "run" /\ step[s] > Len(Setup(s)) /\ inserts[s] = <<>>

-----------------------------------------------------------------------------
Row(s, at, product, broker, price) ==
  [by |-> s, at |-> at, product |-> product, broker |-> broker, price |-> price]

\* One quote of each broker; each draws an instant.
get_quotes(s, p, closes) ==
  [b \in 1 .. NB |-> Row(s, clock[s] + b, p, Brokers[b], closes[b])]

\* The first of the cheapest quotes.
greedy(quotes) ==
  CHOOSE b \in 1 .. NB :
    \A c \in 1 .. NB :
      \/ quotes[b].price < quotes[c].price
      \/ quotes[b].price = quotes[c].price /\ b <= c

\* Mutant: the most expensive quote.
choose_dearest(trader, quotes) ==
  {CHOOSE b \in 1 .. NB : \A c \in 1 .. NB : quotes[b].price >= quotes[c].price}

choose_quote(trader, quotes) ==
  IF trader \in Cheaters THEN {1, greedy(quotes)} ELSE {greedy(quotes)}

\* The turn of the next trader, up to the inserts: the trade, then the quotes.
TraderTurn(s, p, closes) ==
  /\ Ready(s)
  /\ ~cfg[s].fast
  /\ round[s] \div NT < cfg[s].iterations
  /\ LET trader == Traders[(round[s] % NT) + 1]
         quotes == get_quotes(s, p, closes)
     IN  \E b \in choose_quote(trader, quotes) :
           inserts' = [inserts EXCEPT ![s] =
             <<[table   |-> TraderTable(trader),
                rows    |-> {Row(s, clock[s] + NB + 1, p, Brokers[b], quotes[b].price)},
                columns |-> TradeColumns]>>
             \o [i \in 1 .. NB |->
                  [table   |-> QuoteTable(Brokers[i], p),
                   rows    |-> {quotes[i]},
                   columns |-> QuoteColumns]]]
  /\ clock' = [clock EXCEPT ![s] = @ + NB + 1]
  /\ round' = [round EXCEPT ![s] = @ + 1]
  /\ UNCHANGED <<db, pc, cfg, step>>

FastTable == QuoteTable(Brokers[1], Products[1])

\* Mutant: generate returns the instant of the last row.
next_start_last(s) == clock[s] + MinIterations - 1

\* Mutant: the instants of the batches go back.
next_start_back(s) == clock[s] - MinIterations

\* The instant that generate returns.
next_start(s) == clock[s] + MinIterations

\* One batch of --fast, up to the inserts: a row per second.
FastBatch(s, closes) ==
  /\ Ready(s)
  /\ cfg[s].fast
  /\ round[s] * MinIterations < cfg[s].iterations
  /\ inserts' = [inserts EXCEPT ![s] =
       <<[table   |-> FastTable,
          rows    |-> {Row(s, clock[s] + i, Products[1], Brokers[1], closes[i]) : i \in 1 .. MinIterations},
          columns |-> QuoteColumns]>>]
  /\ clock' = [clock EXCEPT ![s] = next_start(s)]
  /\ round' = [round EXCEPT ![s] = @ + 1]
  /\ UNCHANGED <<db, pc, cfg, step>>

Insert(s) == Head(inserts[s])

\* Mutant: insert_into_qdb returns after the first column that was inserted.
NoColumnLeft(s) == Tail(inserts[s])

\* What is left after one column of the first insert.
OneColumnLess(s) ==
  IF Len(Insert(s).columns) = 1
  THEN Tail(inserts[s])
  ELSE [inserts[s] EXCEPT ![1].columns = Tail(@)]

\* insert_into_qdb, one column of one row or of one batch.
InsertColumn(s) ==
  /\ pc[s] = "run"
  /\ inserts[s] # <<>>
  /\ IF tables[Insert(s).table] = NoTable
     THEN GoTo(s, "failed") /\ UNCHANGED <<tables, inserts>>
     ELSE /\ tables' = [tables EXCEPT
               ![Insert(s).table].columns[Head(Insert(s).columns)] = @ \cup Insert(s).rows]
          /\ inserts' = [inserts EXCEPT ![s] = OneColumnLess(s)]
          /\ UNCHANGED pc
  /\ UNCHANGED <<entries, broken, cfg, step, round, clock>>

Finish(s) ==
  /\ Ready(s)
  /\ IF cfg[s].fast
     THEN round[s] * MinIterations >= cfg[s].iterations
     ELSE round[s] \div NT >= cfg[s].iterations
  /\ GoTo(s, "done")
  /\ UNCHANGED <<db, locals>>

Ended(s) == pc[s] \in {"done", "failed"}

\* throw_on_failure: a database call fails for a reason of its own, or the process is
\* killed.
Fail(s) ==
  /\ pc[s] # "idle"
  /\ ~Ended(s)
  /\ broken < MaxBroken
  /\ GoTo(s, "failed")
  /\ broken' = broken + 1
  /\ UNCHANGED <<entries, tables, locals>>

Advance(s) ==
  \/ CreateEntries(s)
  \/ RemoveTable(s)
  \/ CreateTable(s)
  \/ TagTable(s)
  \/ \E p \in Range(Products), closes \in Market : TraderTurn(s, p, closes)
  \/ \E closes \in [1 .. MinIterations -> {prices[1] : prices \in Market}] : FastBatch(s, closes)
  \/ InsertColumn(s)
  \/ Finish(s)

Next ==
  \E s \in Simulators :
    \/ \E c \in Configs[s] : Start(s, c)
    \/ Advance(s)
    \/ Fail(s)

Spec == Init /\ [][Next]_vars

-----------------------------------------------------------------------------
Exists(name)    == tables[name] # NoTable
InColumns(name) == IF Exists(name) THEN Range(tables[name].columns) ELSE {}
RowsIn(name)    == UNION InColumns(name)
WholeIn(name)   == {r \in RowsIn(name) : \A rows \in InColumns(name) : r \in rows}
RowsOf(s, name) == {r \in RowsIn(name) : r.by = s}
Owner(name)     == IF Exists(name) THEN tables[name].owner ELSE NoTable

\* The rows that the process has begun to insert, or was inserting when it failed.
InHand(s) == IF inserts[s] = <<>> THEN {} ELSE Insert(s).rows

\* Inserting column by column leaves torn rows, but few: in a table that it created
\* itself a simulator has only the row or batch in its hand torn; where another one has
\* removed and created the table meanwhile, at most the insert of that moment is torn
\* too, and it lacks its first column.
TornRows ==
  \A s \in Simulators, name \in Names :
    LET torn == RowsOf(s, name) \ (WholeIn(name) \cup InHand(s))
    IN  torn # {} =>
          /\ Owner(name) # s
          /\ Cardinality(torn) <= IF cfg[s].fast THEN MinIterations ELSE 1
          /\ torn \cap tables[name].columns[ColumnsOf(name)[1]] = {}

\* The quotes that a trade was made from have the instants right before its own.
Quotes(trade) ==
  {q \in UNION {WholeIn(name) : name \in QuoteTables} :
     q.by = trade.by /\ q.at \in trade.at - NB .. trade.at - 1}

QuoteTablesOf(s) == {name \in QuoteTables : Owner(name) = s}

\* The trade is inserted before its quotes.  Still, once the turn is over, a simulator
\* whose tables of quotes have been left alone has in them a quote of every broker for
\* the trade's product, the one the trader took among them and, for a greedy trader,
\* none cheaper; the turn may be over only in part for the latest trade.
TradesBacked ==
  \A t \in 1 .. NT : \A trade \in WholeIn(TraderTable(Traders[t])) :
    /\ {trade.product, trade.broker} \subseteq entries
    /\ Traders[t] \notin Cheaters => \A q \in Quotes(trade) : q.price >= trade.price
    /\ \/ inserts[trade.by] # <<>> /\ trade.at = clock[trade.by]
       \/ QuoteTablesOf(trade.by) # QuoteTables
       \/ /\ {q.broker : q \in Quotes(trade)} = Range(Brokers)
          /\ \E q \in Quotes(trade) :
               q.product = trade.product /\ q.broker = trade.broker /\ q.price = trade.price

\* A simulator that ends well has left, in each table that is still its own, every row
\* it set out to write, whole, each at an instant of its own; and these tables are
\* found by their tag.
FinishedComplete ==
  \A s \in Simulators : pc[s] = "done" =>
    LET mine   == {name \in Names : Owner(name) = s}
        Own(names) == {r \in UNION {WholeIn(name) : name \in names} : r.by = s}
        rounds == cfg[s].iterations * NT
    IN  /\ \A name \in mine : tables[name].tagged
        /\ cfg[s].fast /\ FastTable \in mine =>
             /\ Cardinality(Own({FastTable})) = cfg[s].iterations
             /\ Cardinality({r.at : r \in Own({FastTable})}) = cfg[s].iterations
        /\ ~cfg[s].fast /\ TraderTables \subseteq mine =>
             Cardinality({r.at : r \in Own(TraderTables)}) = rounds
        /\ ~cfg[s].fast /\ QuoteTables \subseteq mine =>
             Cardinality({r.at : r \in Own(QuoteTables)}) = rounds * NB

\* Simulators that race for the tables make one another fail, in creating a table that
\* another has just created or in writing to one that another has just removed; but
\* unless the database fails, one of them gets through.
SomeSimulatorSurvives ==
  broken = 0 => \/ \E s \in Simulators : pc[s] # "failed"
             \/ Simulators = {}

TablesThere == {name \in Names : Exists(name)}
WholeThere  == [name \in Names |-> WholeIn(name)]

View == INSTANCE WholeRows WITH there <- TablesThere, whole <- WholeThere

\* To a program that reads only whole rows, the inserts by column are atomic and in
\* order, whatever fails and whoever removes tables in between.
ReadersSeeWholeRows == View!Spec
=============================================================================
