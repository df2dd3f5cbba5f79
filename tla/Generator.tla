----------------------------- MODULE Generator -----------------------------
(***************************************************************************)
(* The transaction log generator: it writes the agents, counterparties and *)
(* securities, removes and creates the table, and then pushes one batch of *)
(* transactions per working day, a few of them erroneous.                  *)
(*                                                                         *)
(* Several generators may run against one database.  A database call is    *)
(* one step; filling the batch of a day is local and is one step too.  A   *)
(* transaction is abstracted to its generator, its instant and whether it  *)
(* is an error; time is in ticks since the first of January.               *)
(***************************************************************************)
EXTENDS Integers, FiniteSets

CONSTANTS
  Generators,     \* processes that may run at the same time
  Configs,        \* command lines: [days, iterations, errors]
  FirstWeekdays,  \* days of the week the year may start with, 0 for Sunday
  Entries,        \* number of agents, counterparties and securities together
  Hour,           \* ticks in an hour
  NoTable         \* stands for the absence of the table

min_iterations == 8

AnyRow   == [by : Generators, ts : Nat, error : BOOLEAN]
AnyTable == [owner : Generators \cup {"earlier"}, rows : SUBSET AnyRow]

\* A day's transactions are in memory: they are fewer than the nanoseconds of eight hours.
ASSUME GeneratorAssumption ==
  /\ Configs \subseteq [days : Nat, iterations : Nat \ {0}, errors : Nat]
  /\ \A c \in Configs : c.iterations <= 8 * Hour
  /\ FirstWeekdays \subseteq 0 .. 6
  /\ Entries \in Nat
  /\ Hour \in Nat \ {0}
  /\ "earlier" \notin Generators
  /\ NoTable \notin AnyTable

VARIABLES
  first,      \* the day of the week of the first of January
  entries,    \* keys of the agents, counterparties and securities in the database
  table,      \* tlog: [owner, rows], or NoTable
  pc,         \* where each generator is
  cfg,        \* its command line
  next_key,   \* keys it has written
  days,       \* index of the day
  it_day,     \* the date of the day, as a day of the year
  batch,      \* rows of the batch that are not pushed
  generated   \* history: transactions generated so far

db     == <<first, entries, table>>
locals == <<cfg, next_key, days, it_day, batch, generated>>
vars   == <<db, pc, locals>>

Weekday(day) == (first + day) % 7

\* Mutant: Saturday is moved by one day, like Sunday.
skip_one(day) == IF Weekday(day) \in {0, 6} THEN day + 1 ELSE day

skip_weekend(day) ==
  CASE Weekday(day) = 0 -> day + 1
    [] Weekday(day) = 6 -> day + 2
    [] OTHER            -> day

iterations_count(max) ==
  IF max < 20 THEN {max} ELSE max - (max \div 10) .. max

\* Mutant: the window of a long day starts in the middle.
error_from_the_middle(c, day, i) ==
  /\ day = c.days \div 2
  /\ \/ c.iterations < c.errors
     \/ c.iterations >= c.errors /\ i >= c.iterations \div 2 /\ i < c.iterations \div 2 + c.errors

should_generate_error(c, day, i) ==
  /\ day = c.days \div 2
  /\ \/ c.iterations < c.errors
     \/ /\ c.iterations >= c.errors
        /\ c.iterations \div 2 < c.errors
        /\ i < c.errors
     \/ /\ c.iterations \div 2 >= c.errors
        /\ i >= c.iterations \div 2 - c.errors
        /\ i < c.iterations \div 2

\* The instant of transaction i: from nine o'clock, the i-th part of eight hours.
Stamp(c, day, i) == day * 24 * Hour + 9 * Hour + i * ((8 * Hour) \div c.iterations)

-----------------------------------------------------------------------------
NoConfig == [days |-> 0, iterations |-> 1, errors |-> 0]

\* The table of a generator that ended earlier; its rows do not matter any more.
OldTable == [owner |-> "earlier", rows |-> {}]

Init ==
  /\ first \in FirstWeekdays
  /\ \/ table = NoTable  /\ entries = {}
     \/ table = OldTable /\ entries = 0 .. Entries - 1
  /\ pc = [g \in Generators |-> "idle"]
  /\ cfg = [g \in Generators |-> NoConfig]
  /\ next_key = [g \in Generators |-> 0]
  /\ days = [g \in Generators |-> 0]
  /\ it_day = [g \in Generators |-> 0]
  /\ batch = [g \in Generators |-> {}]
  /\ generated = [g \in Generators |-> 0]

GoTo(g, label) == pc' = [pc EXCEPT ![g] = label]

\* parse_config
Start(g, c) ==
  /\ pc[g] = "idle"
  /\ c.iterations >= min_iterations
  /\ cfg' = [cfg EXCEPT ![g] = c]
  /\ GoTo(g, "entries")
  /\ UNCHANGED <<db, next_key, days, it_day, batch, generated>>

\* create_entries for the agents, the counterparties, then the securities.
CreateEntry(g) ==
  /\ pc[g] = "entries"
  /\ next_key[g] < Entries
  /\ entries' = entries \cup {next_key[g]}
  /\ next_key' = [next_key EXCEPT ![g] = @ + 1]
  /\ UNCHANGED <<first, table, pc, cfg, days, it_day, batch, generated>>

\* create_table: qdb_get_metadata, qdb_remove if there is a table, qdb_ts_create.
GetMetadata(g) ==
  /\ pc[g] = "entries"
  /\ next_key[g] = Entries
  /\ GoTo(g, IF table = NoTable THEN "create" ELSE "remove")
  /\ UNCHANGED <<db, locals>>

\* Mutant: a table that is not there any more is waited for.
RemoveWaits(g) ==
  /\ pc[g] = "remove"
  /\ table # NoTable
  /\ table' = NoTable
  /\ GoTo(g, "create")
  /\ UNCHANGED <<first, entries, locals>>

RemoveTable(g) ==
  /\ pc[g] = "remove"
  /\ table' = NoTable
  /\ GoTo(g, IF table = NoTable THEN "failed" ELSE "create")
  /\ UNCHANGED <<first, entries, locals>>

CreateTable(g) ==
  /\ pc[g] = "create"
  /\ IF table = NoTable
     THEN table' = [owner |-> g, rows |-> {}] /\ GoTo(g, "init")
     ELSE GoTo(g, "failed") /\ UNCHANGED table
  /\ UNCHANGED <<first, entries, locals>>

\* init_batch_table needs the columns of the table.
InitBatch(g) ==
  /\ pc[g] = "init"
  /\ GoTo(g, IF table = NoTable THEN "failed" ELSE "day")
  /\ UNCHANGED <<db, locals>>

Rows(g, day, n) ==
  {[by |-> g, ts |-> Stamp(cfg[g], day, i),
    error |-> should_generate_error(cfg[g], days[g], i)] : i \in 0 .. n - 1}

\* One day of generate_transaction_log, up to push_to_db.
GenerateDay(g, n) ==
  /\ pc[g] = "day"
  /\ days[g] < cfg[g].days
  /\ n \in iterations_count(cfg[g].iterations)
  /\ it_day' = [it_day EXCEPT ![g] = skip_weekend(@)]
  /\ batch' = [batch EXCEPT ![g] = @ \cup Rows(g, skip_weekend(it_day[g]), n)]
  /\ generated' = [generated EXCEPT ![g] = @ + n]
  /\ GoTo(g, "push")
  /\ UNCHANGED <<db, cfg, next_key, days>>

\* Mutant: the iterator stays on the day.
PushSameDay(g) ==
  /\ pc[g] = "push"
  /\ IF table = NoTable
     THEN GoTo(g, "failed") /\ UNCHANGED <<table, days, batch>>
     ELSE /\ table' = [table EXCEPT !.rows = @ \cup batch[g]]
          /\ batch' = [batch EXCEPT ![g] = {}]
          /\ days' = [days EXCEPT ![g] = @ + 1]
          /\ GoTo(g, "day")
  /\ UNCHANGED <<first, entries, cfg, next_key, it_day, generated>>

\* push_to_db: all of the batch or nothing; then the next day.
Push(g) ==
  /\ pc[g] = "push"
  /\ IF table = NoTable
     THEN GoTo(g, "failed") /\ UNCHANGED <<table, days, it_day, batch>>
     ELSE /\ table' = [table EXCEPT !.rows = @ \cup batch[g]]
          /\ batch' = [batch EXCEPT ![g] = {}]
          /\ days' = [days EXCEPT ![g] = @ + 1]
          /\ it_day' = [it_day EXCEPT ![g] = @ + 1]
          /\ GoTo(g, "day")
  /\ UNCHANGED <<first, entries, cfg, next_key, generated>>

Finish(g) ==
  /\ pc[g] = "day"
  /\ days[g] >= cfg[g].days
  /\ GoTo(g, "done")
  /\ UNCHANGED <<db, locals>>

\* A database call fails for a reason of its own, or the process is killed.
Fail(g) ==
  /\ pc[g] \notin {"idle", "done", "failed"}
  /\ GoTo(g, "failed")
  /\ UNCHANGED <<db, locals>>

Advance(g) ==
  \/ CreateEntry(g)
  \/ GetMetadata(g)
  \/ RemoveTable(g)
  \/ CreateTable(g)
  \/ InitBatch(g)
  \/ \E n \in 0 .. cfg[g].iterations : GenerateDay(g, n)
  \/ Push(g)
  \/ Finish(g)

Next ==
  \E g \in Generators :
    \/ \E c \in Configs : Start(g, c)
    \/ Advance(g)
    \/ Fail(g)

\* The operating system runs every process; every database call returns.
Spec == Init /\ [][Next]_vars /\ \A g \in Generators : WF_vars(Advance(g))

-----------------------------------------------------------------------------
AllRows == IF table = NoTable THEN {} ELSE table.rows
RowsOf(g) == {r \in AllRows : r.by = g}
DateOf(r) == r.ts \div (24 * Hour)
Dates(g)  == {DateOf(r) : r \in RowsOf(g)}

\* Every transaction is stamped on a working day, from nine to five.
RowsInSession ==
  \A r \in AllRows :
    /\ Weekday(DateOf(r)) \in 1 .. 5
    /\ r.ts % (24 * Hour) >= 9 * Hour
    /\ r.ts % (24 * Hour) < 17 * Hour

\* "generate 10 errors somehow in the middle": all the errors of a generator are on
\* one day, and that day has as many as were asked for, or all of the day's
\* transactions are errors.  In a table of its own half of the days asked for come
\* before that day; and its log, once finished, has the errors.
ErrorsInTheMiddle ==
  \A g \in Generators :
    LET wrong == {r \in RowsOf(g) : r.error}
        day   == {r \in RowsOf(g) : \E w \in wrong : DateOf(w) = DateOf(r)}
    IN  /\ Cardinality({DateOf(r) : r \in wrong}) <= 1
        /\ wrong # {} => Cardinality(wrong) = cfg[g].errors \/ wrong = day
        /\ table # NoTable /\ table.owner = g =>
             /\ \A w \in wrong :
                  Cardinality({d \in Dates(g) : d < DateOf(w)}) = cfg[g].days \div 2
             /\ wrong = {} /\ pc[g] = "done" => cfg[g].days = 0 \/ cfg[g].errors = 0

\* A generator that ends well on a table that it created itself has left there every
\* transaction it generated, each at an instant of its own, on as many days as asked,
\* whatever other generators wrote to the table in the meantime.
FinishedLogComplete ==
  \A g \in Generators :
    pc[g] = "done" /\ table # NoTable /\ table.owner = g =>
      /\ Cardinality(RowsOf(g)) = generated[g]
      /\ Cardinality(Dates(g)) = cfg[g].days

\* Every generator ends, with its log written or with an error.
GeneratorEnds == \A g \in Generators : pc[g] = "entries" ~> pc[g] \in {"done", "failed"}
=============================================================================
