# A TLA+ model of the trading desk demo

This directory specifies, model-checks and partly proves the programs of the
repository: the Nasdaq order book (`nasdaq_exec`), its ITCH message reader, the
transaction log generator, and the trading desk simulator with its quotes and its clock. Paths below are relative to `src/src/`, the C++ sources.

* [The system](#the-system)
* [Modules](#modules)
* [Runs](#runs)
* [Bounds](#bounds)
* [Fairness](#fairness)
* [Proofs](#proofs)
* [Disagreements found](#disagreements-found)
* [Assumptions, and what is not modelled](#assumptions-and-what-is-not-modelled)
* [Plan](#plan)

## The system

The repository holds three command-line programs that share a QuasarDB database, and
a library of utilities.

| component | state | operations | hard behaviour |
|---|---|---|---|
| execution engine, `nasdaq_exec/itch_exec.hpp` | two maps reference → (price, shares), buy and sell | `run_order` → add, execute, cancel, delete, replace | records lost or ingested twice; unsigned shares; "buy first" lookup; double → integer prices |
| snapshots and point in time, `nasdaq_exec/nasdaq_exec.cpp` | blobs keyed by stock and quarter hour | `restore_snapshot`, `get_orders_records`, `store_snapshot` in `main` | processes race on the keys, orders are ingested meanwhile, a process dies between two calls, a blob is truncated |
| column reader, `get_orders_records` | seven columns | one range read each, then pairing by index | seven reads are not one read |
| book builder and printer | sorted book, collapsed book | `make_book`, `collapse_book`, `build_bar`, print | one pass over a sorted multimap, 32-bit sums, a scale that may be 0 |
| ITCH message reader, `nasdaq_exec/itch_messages.hpp` | cursor, bounded queue, counters | `read_next_message`, `decode`, `try_push` | decode ignores the frame's length; the queue is full; the buffer is cut |
| transaction log generator, `generator/generator.cpp` | entries, the `tlog` table, a batch | `create_entries`, `create_table`, `generate_transaction_log`, `push_to_db` | check/remove/create in three calls; failure between days; weekends; the error window |
| trading desk simulator, `simulator/` | tables of quotes and trades | remove, create and tag tables; a trader's turn; a fast batch; inserts column by column | partial rows; two simulators that remove each other's tables; the trade goes in before its quotes |
| quote generation, `simulator/quote_generator.hpp`, `broker.hpp` | a vector of prices, a margin per broker and product | `fill_values`, `request_quote`, `get_margin` | ranges that share an end and overwrite each other's prices |
| clock and timespec, `utils/time.cpp`, `precise_time.cpp`, `timespec.hpp`, `utils.cpp` | a real-time clock, or a counter and its offset | `timestamp`'s draw loop, `muldiv64`, saturating arithmetic | a coarse clock, a clock that is set back, 128-bit products |
| file access and text, `utils/file_*.hpp`, `stringify.*`, `humanize_number.*` | a stream's status | reads, conversions | short reads |

How they interact: another program (not in the repository) decodes ITCH files with the
message reader and ingests the orders as a time series, one table per stock.
`nasdaq_exec` is started with a stock and an instant. It restores the latest snapshot of
the day that is not after the instant (with `--point-in-time`), reads the orders from
there (or from midnight) to the instant, runs them on the engine, stores a snapshot if
that advances the latest one, and prints the book. The generator and the simulator are
independent programs that write their own tables; a simulator's traders ask its brokers for
quotes, which draw timestamps from the clock and prices from the generator. All interaction goes through the
database; inside a process only the message reader shares state with another thread,
through its queue.

What makes the parts correct, and where it is stated:

* the engine mirrors the exchange, and degrades gracefully when records are missing
  (`MirrorsExchange`, `EngineIsABook`, `NeverUnderstates`, `SharesInRange`,
  `SidesDisjoint`, `RetryHarmless`);
* the printed book is the replayed book whatever snapshot it came from
  (`PointInTimeBook`, `SnapshotsExact`, `SnapshotsStable`, `PlainReplayExact`,
  `RunsInRange`), where a snapshot is wrong it harms only who starts from it (`SoundBooks`),
  and every request ends (`RequestTerminates`);
* an assembled record is one row of the table (`RecordsAreRows`);
* the printed lines account for every order (`CollapsedIsTheSum`, `EveryOrderPrinted`,
  `BarsToScale`);
* the reader stays on frame boundaries and loses nothing (`InStep`, `NothingLost`,
  `CountersAddUp`, `AllConsumed`);
* a finished log is complete and plausible (`FinishedLogComplete`, `RowsInSession`,
  `ErrorsInTheMiddle`, `GeneratorEnds`);
* a reader of whole rows sees the simulator's inserts as atomic and in order
  (`ReadersSeeWholeRows`), few rows stay torn (`TornRows`), a trade is backed by its quotes
  (`TradesBacked`), a simulator that ends well has written everything
  (`FinishedComplete`), and racing simulators do not all fail (`SomeSimulatorSurvives`);
* a process never gives two quotes one timestamp, unless its clock was set back
  (`StampsIncrease`), a quote summarises its series (`AssertionsHold`, `QuoteCoherent`),
  the arithmetic is exact (`ArithmeticExact`), and every request is answered
  (`QuoteAnswered`).

## Modules

| module | models | code |
|---|---|---|
| `OrderEngine` | the two maps and `run_order` as operators | `itch_exec.hpp` 16-220 |
| `DisplayedBook` | the exchange's displayed book: the abstract specification | external: what the messages describe |
| `MarketFeed` | the exchange, a lossy and redelivering table, `main`'s loop body | `nasdaq_exec.cpp` 354-360, 382-385 |
| `PointInTime` | `main` of several `nasdaq_exec` processes over one database | `nasdaq_exec.cpp` 27-82, 193-271, 352-446 |
| `ColumnReader` | `get_orders_records` against ingestion | `nasdaq_exec.cpp` 96-178 |
| `BookBuilder` | maps → sorted book → collapsed book → lines | `itch_exec.hpp` 222-287, `nasdaq_exec.cpp` 181-191, 273-331, 392-414 |
| `ItchMessages`, `ItchReader` | message layouts; framing, queue, counters | `itch_messages.hpp`, `itch_status.hpp` |
| `Generator` | the generator process | `generator.cpp` |
| `WholeRows` | tables whose rows come in whole: the abstract specification | what a reader may expect |
| `Simulator` | several simulator processes over one database | `simulator.cpp`, `quote.cpp`, `trade.cpp`, `trader.hpp` |
| `TimeArithmetic` | `muldiv64` and the operators of `timespec`, as operators | `utils.cpp`, `timespec.hpp` |
| `Clock` | the draw loop of `timestamp()` over four clocks | `time.cpp`, `precise_time.cpp` |
| `QuoteGenerator` | `fill_values` and the call that starts it | `quote_generator.hpp` |
| `Broker` | `request_quote`: composes `Clock` and `QuoteGenerator` | `broker.hpp`, `quote.hpp` |
| `MC*` | values of the constants for TLC | |
| `*Proofs` | theorems | |

`PROJECT.json` maps every definition to its lines.

**Engine.** A map is a total function from `Refs` to orders or `Absent`; an engine is
indexed by the side. Prices are the feed's integers (1/10000 dollar). `convert_to_fix`
is `p \div 10`, less one for the members of `RoundsDown`: multiples of a thousandth
whose double product with 1000.0 falls below the integer. Shares wrap at `ShareLimit`
(2^32 in the code). `MarketFeed` instantiates `DisplayedBook` twice: once as the
exchange that produces the records, once (`View`) as the abstract specification that the
engine implements, with the map pair read as one book.

**Point in time.** Each client is a process with a program counter over `main`:
`idle → prefix → blob → fetch → run → done`, or `aborted` for the uncaught exception.
Each database call is one step; `RunOrder` is one iteration of the loop. A row of the
table carries, as a history variable, the book of its day right after it: that is the
reference against which snapshots and printed books are compared, computed with no
snapshot involved. `horizon` is the instant up to which ingestion is complete. Two more
history variables follow what the requests did to the snapshots: `sound[k]` says that the
snapshot of key `k` was taken at the instant the key names, once that was over, from an
engine that was `clean`; `clean[c]` says that the engine of client `c` stems from a sound
snapshot or from none. No guard reads them.
`Fail` covers both a call that throws and a killed process, at every step.

**Reader.** A message is its code and its size; `ItchMessages` gives the size of every
layout from the fields that `decode` takes.
The reader's position is in bytes, so one wrong field width shows as a position that is
not on a frame boundary.

**Generator.** A transaction is its generator, its instant and its error flag. One
database call is one step; `Fail` may strike at each.

**Simulator.** `Setup` is the sequence of tables that `main` removes, creates and tags, in
three calls each (`RemoveTable`, `CreateTable`, `TagTable`); the result of the removal and of
tagging the table is not looked at, but tagging the tag may fail when the table is gone. A trader's turn (`TraderTurn`) and a fast batch (`FastBatch`) compute locally and
leave in `inserts` the inserts to make: for a turn the trade first, then each broker's
quote. `InsertColumn` is one call: one column of one row, or of one batch. It finds the
table of that name that exists now, which another simulator may have created since.
`WholeRows` is what a reader may expect; the refinement mapping shows it the tables that
exist and the rows that have every column.

**Clock, quotes, brokers.** `Broker` is one simulator's `request_quote`, from the request to
the quote with its margin. Its clock is one of four: Linux's real-time clock, Windows'
precise one, and two clocks derived from a counter, on macOS and on old Windows, with
`muldiv64` on words of `Base` squared values. A reading that does not end the draw loop
leaves nothing behind, so the loop is one action with the loop's condition as its guard.
The recursion of `fill_values` is a stack of ranges; what its calls return and combine, the
least and the greatest price, is kept in `low` and `high`. Noise is any integer within the
amplitude of the generation.

## Runs

| run | shows |
|---|---|
| `feed` | Up to two lost records, a redelivery and a foreign record: no reference on both sides, no wrong price or side, never fewer shares than displayed, no wrapped share count, and a redelivery changes nothing. Until a record is lost the maps are the exchange's book, missed orders count only redeliveries and foreign records, and the engine implements `DisplayedBook` step by step. |
| `pit_aligned` | Two racing processes, requests on quarter hours that are over, ingestion and failure anywhere: printed books and stored snapshots are exact, and a stored snapshot never changes. |
| `pit_anyrequest` | Any request, future ones included, truncated blobs: plain replays stay exact, a snapshot that was taken as the scheme means it and a book that stems from such a one are exact whatever the other requests store, the loop runs the rows of its range and all of them, every request ends. |
| `pit_unaligned` | *violated*: a request between quarter hours stores its book under the earlier one. |
| `pit_damaged` | *violated*: a blob that fails to deserialize leaves its first part in the engine. |
| `pit_nomatch` | *violated*: a day with only later snapshots reaches `std::string{nullptr}`. |
| `columns` | Seven column reads while rows are appended: every record is one row. |
| `books` | Every pair of maps over three orders, and of four at one price: collapse, sort and bars. |
| `itch_reader` | Every buffer of up to three frames, cut or whole, against a queue of one. |
| `generator` | Two generators, any failure: session hours, error window, completeness. |
| `simulator` | Two simulators over the same tables, one call of which may fail anywhere: torn rows, backed trades, completeness, survival, and the refinement of `WholeRows`. |
| `broker` | Two quotes of two brokers over every clock, with time that goes by, stalls or is set back at any step: timestamps, prices, arithmetic, and an answer to every request. |

Deadlock is checked in `books` and in the point-in-time runs. It is not checked where
the system may stop: the exchange has used every reference, the table is full, the
buffer is read, the generators and the simulators are done, the quotes are given.

For each property of a passing run `PROJECT.json` names a mutant, a plausible bug in the
mapped definition (defined right before it and marked "Mutant"), under which TLC finds
the property violated.

## Bounds

* `MarketFeed`: three references are a replaced order, its successor and a bystander;
  two prices, one of which rounds down; shares up to 3 so that two partial executions
  leave something; `ShareLimit` 8 so that wrapping is visible. Two losses are needed for
  a lost add followed by a lost deletion. References are symmetric.
* `PointInTime`: `Day` is 6 and `Period` 2; instant 5 is the previous day's last, 8 and
  10 are boundaries with a restorable one before a requested one; rows are stamped
  before, at and after a boundary. Three rows suffice for one on each side of a snapshot
  and one at it. An order is added once and executed several times, so running a row
  twice or not at all changes the book.
* `ColumnReader`: four rows for seven reads, so that ingestion falls between any two.
* `BookBuilder`: sizes 1, 5, 7 with a limit of 8: sums that wrap, one of them (1 + 7)
  to 0. Three orders are two at a price beside a third, on either side; four orders of 1 and 7 at
  one price make the totals of both sides 0, and with them the scale of the bars.
* `ItchReader`: every message kind in three consecutive frames; cuts of 1 and 20 bytes;
  queue capacity 1, always full in some state.
* `Generator`: the year starts on a Sunday, a Thursday or a Saturday, and the command lines lie on both
  sides of each comparison in `should_generate_error` and `iterations_count`.
* `Simulator`: one simulator trades for two iterations of two traders, or fast for two
  batches of `MinIterations` = 2; the other one re-creates every table and stops, or trades
  fast, and is refused when its count is no multiple of the batch. That is enough for a
  table to be removed and created again within one insert, between two, and before
  the first. Two brokers with different prices tell a greedy trader from a cheater and the
  first quote from the last. Tables have two columns instead of five and four: rows are cut
  before the last column or after the first. `MaxBroken` is 1: a second failure would end
  the second simulator too.
* `Broker`: words of 16 values (`Base` 4), for which every product and quotient is
  checked, seconds of 3 units, a counter faster than the units and one slower, so that
  several ticks make one unit and one tick makes several. `MaxTime` 3 crosses a second; beyond it
  the clock ticks only for a loop that waits, so that the loop's end is never an effect of
  the bound. Series of 2 to 5 prices meet each case of the recursion: both halves, one,
  none, and a range of two.

## Fairness

`PointInTime` (`FairSpec`) and `Generator` assume weak fairness of each process's next
step: the operating system runs every process, and every database call returns or
fails. Ingestion, starting and failing are not fair. `ItchReader` assumes weak fairness
of the reading thread and of the consuming thread: the reader's loop spins until
`try_push` succeeds, so it relies on a consumer that does not stop. `Broker` assumes weak
fairness of the simulator's steps and of the clock: a clock that stops would make the
draw loop spin for ever. Setting the clock back is not fair and happens a bounded number of
times; somebody who keeps setting it back could keep the loop waiting. The `simulator` run
claims no liveness.

## Proofs

`tlapm` checks the following for all values of the constants that satisfy the named
assumptions of the modules (`EngineAssumption`, `FeedAssumption`, `TimeAssumption`,
`ReaderAssumption`, `GeneratorAssumption`, `SimulatorAssumption`, `BrokerAssumption`, ...).
An assumption says of a constant what the code fixes it to be, or what the command line
lets through; the ones that a proof turned out to need are named below.

* `MarketFeedProofs` starts with the engine: `RunOrderType`, and for each operation a lemma
  saying what it does to each entry of each map (`PointInTimeProofs` proves the few of these
  that it needs itself).
* `MarketFeedProofs`. The inductive invariant `Inv` is `TypeOK`, `SidesDisjoint`,
  `NeverUnderstates`, `SharesInRange` and two facts that make them inductive: a displayed
  reference has been used (`BookUsed`), and the reference that a delivered deletion or
  replacement ended is gone from the exchange and from the engine (`EndedGone`). The second
  is what makes a redelivery harmless: an ended reference never comes back. From `Inv` follow
  `TypeCorrect`, `SidesAlwaysDisjoint`, `EngineNeverUnderstates`, `SharesNeverWrap` and the
  action property `RetryIsHarmless`. `CompleteFeedMirrors` adds `Mirror`: until a record
  is lost the maps are the book. `EngineImplementsBook` is the refinement of `DisplayedBook`
  by the pair of maps until a record is lost. While `Mirror` holds, the book that the maps
  are read as is the exchange's with converted prices (`ViewIsBook`), so that an add, a
  reduction, a deletion and a replacement of the one are a step of the other (`AddView` to
  `ReplaceView`), and redelivered and foreign records are no step at all.
* `PointInTimeProofs`, for any request, over or not, on a boundary or not, and any damage:
  `TypeCorrect`, with the two facts that a client about to read a blob has chosen a key that
  holds one, and that a client running orders holds rows of the table (`InHand`). The
  inductive invariant `SnapInv` gives `SoundBooksAlwaysExact`, `RunsAlwaysInRange` and
  `PlainReplayAlwaysExact`. It says that each row's book follows from the one before
  (`Chained`), that a sound snapshot is exact and of an instant that is over (`SoundSnaps`;
  ingestion is later than all of these, so it cannot outdate one), and what each client
  holds at each point of `main`: a request (`Asked`), an empty engine before a snapshot is
  restored (`Fresh`) and no snapshot for a plain request (`Plain`), a snapshot of the
  requested day that is not late (`SnapOfDay`), a book up to where its range will start if it
  is clean (`Based`), the rows of its range (`Ranged`), the book of the rows run so far
  (`Running`), the answer (`Answered`). The step that needs care is `Fetch`: the first row of
  the range is the first that the restored book has not seen, because an instant has one rank
  (`OneRank`).
* `PointInTimeProofs`, under `OnlyAligned` (requests on quarter hours, instants that are
  over, undamaged blobs: the conditions of `pit_aligned`; `pit_unaligned` and `pit_damaged`
  show that the first and the last are needed): `PrintedBookExact`, `StoredBookExact` and
  the action property `RacesAreHarmless`. Under these conditions every snapshot and every
  client stays sound (`AllSound`), so the first two follow from `SoundBooks`. That ranks are
  unique also makes races harmless: two processes that store one key hold the one book of
  that instant.
* `ColumnReaderProofs`: `RecordsAlwaysRows`. Rows are only appended, so every column is the
  start of the table as it was when the column was read, and a column read later is no
  shorter. The records are counted by the first column read, so every other one has an
  entry for each of them, of the same row.
* `ItchReaderProofs`: `AlwaysInStep`, `NothingEverLost` and `CountersAlwaysAddUp`, for
  buffers of any number of frames, cut anywhere, and any capacity of the queue. The
  invariant says that the cursor is where the next frame starts or, while a message waits for
  room in the queue, already past it (`Position`), that the counters give the number of
  frames read and their bytes (`Counts`), and that what has been consumed and what is queued
  are, in this order, the messages of these frames (`Delivered`). The offsets of the frames are a recursive function; what it gives for
  every frame comes from the least frame for which it would not. `ReaderAssumption` says
  that a frame of a known kind has the size of its layout: `decode` does not look at
  the frame's length, so without it the reader would leave the frames.
* `GeneratorProofs`: `RowsAlwaysInSession`, `ErrorsAlwaysInTheMiddle` and
  `FinishedLogAlwaysComplete`, for any number of generators, days, transactions and errors.
  Days only go up, so a batch is of a day that has no row of this generator yet (`Order`);
  a batch comes in whole, so a day has all of its rows or none, and the errors are those of
  the middle day (`Errors`; `DayErrors` counts them); while the table is the generator's
  own, its rows and the batch in hand are all that was generated, on as many dates as days
  (`Complete`), and the dates before the one with the errors are half of those asked for
  (`Centred`). The instants of a day are different because a command line asks for no more
  iterations than a session of eight hours has ticks (nanoseconds in the code, which does not
  check it: beyond 2.9e13 iterations the increment would be 0).
* `SimulatorProofs`: `SimulatorsSurvive`. That somebody has not failed is not inductive: the
  last one may be about to. The invariant names a simulator that nobody has doomed
  (`Safe`: it has not failed, and if it is about to create a table, the table is not
  there), and says why there is always one (`Kept`): a table that a simulator has created
  is missing only while another one is about to create it, and that one is safe. So a
  creation that fails has a safe creator before it, and an insert or a tag that fails has a
  remover about to create. `Destined` and `Placed` say that inserts go only to tables of
  `Setup`, after all of it; that these are all the tables of quotes rests on the division
  and the remainder in `create_products_ts` (`DivMod`), and that a turn's rows are rows on
  the greedy choice being one of the quotes (`LeastNat`).
* `SimulatorProofs`: `FewRowsTorn` and `WholeRowsRefined`, the refinement of `WholeRows`, for
  any number of simulators, tables and columns. The invariant `TornInv` relates one
  simulator's queue of inserts to its rows in each table. The queue is in the order of the
  instants (`Queue`), and the rows in a table are earlier than those that will come
  (`Past`). The insert in hand has come to a column k: the columns from k on do not have its rows,
  and either those before do and whatever else is torn is one cut insert (`Whole`), or the table
  was created after the insert had begun, and has nothing of this simulator but a part of
  its rows (`Cut`). When the last column is in, `Cut` becomes `Whole` with that
  insert as the cut one; a second one cannot be cut in the same table, for a new table is empty.
  The refinement follows: a row becomes whole only with the last column of its insert,
  together with the others of its batch, and after all earlier ones.
* `SimulatorProofs`: `RunsComplete` and `TradesAlwaysBacked`. The invariant `LedgerInv` keeps
  the books of one simulator: in a table that is its own, the rows that are in and the rows
  that its queue has still to insert are together all that its turns have produced so far
  (`Books`, `Progress`). Drawing a turn or a batch adds to the queue, inserting a column moves
  nothing out of the sum, and rows are lost only with a table that another simulator
  removes, which is then no longer its own. When the queue is empty nothing is to come,
  and by `TornInv` what is there is whole. `Entered` (products and brokers come before their
  rows), `Tagged` (a table is tagged before the first turn) and `Pending` (the quotes of the
  latest trade are in the queue behind it) are what the two properties need beside. The proof
  needed one more assumption: the owner of a missing table (`NoTable`) is not a
  simulator.
* `BookBuilderProofs`: `CollapseAlwaysSums`, `BarsAlwaysToScale` and
  `EveryOrderAlwaysPrinted`, for every pair of maps. `std::sort` is stated by ranks: the
  order at index `i` has `i - 1` orders before it. The comparison of the pairs is a total
  order, so no two orders have one rank, and with finitely many orders every index has its
  entry (`EveryRank`, `SortedFacts`); this needed the assumption that `Refs` is finite, as
  64-bit references are. The sums in the properties are folds over a set, and that they do
  not depend on the order in which its elements are taken (`SumTakesAny`) is proved by a
  least counterexample (`LeastNat`), which stands in for induction. The inductive invariant
  `BookInv`: the books made so far are sorted (`Made`), a side not yet collapsed has no line
  (`Untouched`), in the loop the first `src - 1` orders are collapsed and `dest` is the last
  line (`Looping`), a side left behind is collapsed whole (`Over`), and the lines printed
  are the reversed book with its bars (`Printing`). It is the sorting that makes comparing
  with the last line enough: the next order is at its price or above every line
  (`AddsToLast`, `AddsALine`). The bars are to scale because the scale is a greatest element
  of a set of shares that is bounded (`TheMax`), and division grows with the dividend
  (`BarFacts`).
* `BrokerProofs`: `TimespecComputes`, that the carries, the borrows and the saturation of
  `timespec` compute sums, differences and distances of any two instants;
  `AssertionsAlwaysHold` and `QuotesAlwaysCoherent`, for any length of the series and any
  amplitude. The recursion
  of `fill_values` is a stack of ranges, and the invariant `Filling` says of it that each
  range has both of its ends filled (`Pending`), that a price that is not filled is inside
  a range of the stack (`Covered`), that the filled ones lie between the extremes
  (`Bounded`) and above the floor (`Prices`). That the floor of the last price is not above
  the initial price is an assumption (`BackFloor <= Initial`) which the proof needed, and
  which the prices in `dow_jones.cpp` meet.
* `BrokerProofs`: `ArithmeticAlwaysExact`, for every size of a word. `muldiv64` multiplies digit
  by digit into a double word, and divides that digit by digit with an estimate that is
  corrected at most twice; the lemmas follow each digit: no intermediate sum leaves its
  word, and the estimate is neither below the digit nor more than two above it.
  `StampsAlwaysIncrease` rests on it: with a counter of any frequency the clock's reading
  is the quotient that `muldiv64` should give, so it does not fall while the counter rises.
  Its hypothesis `InRange`, that the units counted so far fit a word (584 years of
  nanoseconds in the code), holds for the system clocks without condition.

Every safety invariant, action property and refinement of the passing runs is stated by a
theorem. Only model-checked is liveness (`RequestTerminates`, `AllConsumed`,
`GeneratorEnds`, `QuoteAnswered`), which is out of the prover's reach.

## Disagreements found

1. A snapshot is stored under the quarter hour before the instant it was taken at, so the
   orders in between are run twice by the next request (`pit_unaligned`). With requests on
   quarter hours only, the scheme is right (`pit_aligned`).
2. When a blob does not deserialize, the engine is not cleared before the day is
   replayed (`pit_damaged`).
3. The test for "no workable snapshot" comes after the use of the null pointer
   (`pit_nomatch`).

## Assumptions, and what is not modelled

* Only deletions and replacements are redelivered. An execution ingested twice takes its
  shares twice; nothing in the code can tell, and no property is claimed about it.
* Orders are ingested in the order of their timestamps, in `PointInTime` and in
  `ColumnReader`. A late order makes stored snapshots wrong and may mix the columns of two
  rows; the program that ingests is not in the repository.
* `Fetch` of `PointInTime` is one step although the code reads seven columns: for ingestion
  in order the records are the rows that were there at the first read (`RecordsAreRows`). The
  `override` of the original reference and the assertion on it (`nasdaq_exec.cpp` 150-155) are
  left out of `ColumnReader`: the seven reads and their pairing by index are what it is about.
* A snapshot's key is one that the program wrote, so its time parses; the early return for a
  time that does not (`nasdaq_exec.cpp` 258-259) is not reached.
* A frame has at least the byte of its kind (`ReaderAssumption`). `itch_messages.hpp`
  1080-1085 does not check for a length of 0; the format of the feed rules it out.
* `qdb_prefix_get` returns keys in their order, as `restore_snapshot` expects; a key's
  text is ordered like its instant. `qdb_blob_update` and `qdb_blob_get` are atomic.
* The instant 0 is never requested: a snapshot timestamp of 0 means "none".
* Requests of an instant that is not over store snapshots that later orders outdate;
  `pit_aligned` excludes them and `pit_anyrequest` says what still holds.
* `convert_to_fix` keeps three decimals, although the comment on the price field
  (`itch_exec.hpp` 25) speaks of four: prices that differ in the fourth become
  one line of the book. This is a limit of the representation; the properties of `feed` are stated
  at the engine's prices.
* Two generators that run at once stamp the same instants. A row of the model carries its
  writer, so both rows are kept: an assumption about the database. If it kept one row per
  timestamp, `FinishedLogComplete` would hold only for generators whose days do not meet. A
  batch push is taken to be all or nothing, also when it fails.
* The generator's random prices, volumes and choices are left out, and so are the
  layout of printed text, logging and parsing of the command line. (`generator.cpp` 231-234
  draws the number of lots from a range of volumes, so that `volume()` exceeds
  `max_volume`; nothing but the name states the bound.)
* The timestamps of two simulator processes are taken to be distinct: a row of one does not
  overwrite a row of the other. The products and the brokers are entered in one step,
  because nobody removes them, although `simulator.cpp` 187-215 enters a broker right before
  its tables; no property depends on it. The simulators start without tables: those of an
  earlier run are what a simulator that has failed leaves to the other one. The two
  `attach_tag` calls of a table (`quote.cpp` 33 and 35) are one step: what another simulator
  does between them has the effect it would have before or after both.
  `WholeRows` leaves open how many rows a step adds: it promises whole rows in order, not
  that a batch appears at once. `main`'s iteration counter is an `int` against a 64-bit bound:
  it overflows only after 2^31 turns, which is not reached.
* When Linux's clock is set back while the draw loop waits, the loop may end at an instant
  before the reference, because it compares seconds and nanoseconds one by one
  (`time.cpp` 115); `StampsIncrease` claims the order only between timestamps without a
  correction in between. On macOS the assertion in `time.cpp` 62 does not hold for a reading
  in the tick in which the clock was constructed; the model reads the clock as a build without
  assertions does.
* On macOS `muldiv64` is compiled to a 128-bit product and quotient; `MacNow` uses the
  portable code, which gives the same value (`ArithmeticExact`).
* `operator-=` and `delta` of `timespec` have no callers in the programs; they are checked
  in `TimespecExact` all the same, because they are the library's promise.
* Not modelled: `file_stream` and `file_mapping` (pure I/O, and no program of the repository
  uses them), the conversion of times and numbers to text and back (`stringify`, `mktime`,
  `humanize_number`; that a key's text is ordered like its instant is assumed, see
  above), the tables of constants in `dow_jones.cpp`, and vendored code.

## Plan

Every component that keeps state is modelled, and every safety property of the runs is
proved. What is left is the generator's random data: prices that never fall, volumes, and
whether an error's volume stands out.
