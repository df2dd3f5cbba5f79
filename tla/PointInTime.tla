---------------------------- MODULE PointInTime ----------------------------
(***************************************************************************)
(* nasdaq_exec answering "what was the order book at this instant?" from   *)
(* the orders of the day and from the snapshots that earlier requests left *)
(* in the database.                                                        *)
(*                                                                         *)
(* Every client is one process running main; the clients share the         *)
(* database.  A database call is one step, and between two steps of a      *)
(* client the other clients and the ingestion of orders may run.  Time is  *)
(* a natural number; a request has the resolution of a second and an order *)
(* may fall between two of them, so the unit is any fraction of a second.  *)
(***************************************************************************)
EXTENDS OrderEngine, Sequences

CONSTANTS
  Clients,         \* processes that may run nasdaq_exec at the same time
  Whens,           \* instants a request may name
  Stamps,          \* instants at which an order may be stamped
  Records,         \* order records that may be in the table
  Period,          \* the 15 minutes between snapshots
  Day,             \* the length of a day
  MaxRows,         \* bound on the rows of the table
  FutureRequests,  \* may a request name an instant that is not over yet?
  DamagedBlobs     \* may a stored snapshot be truncated?

ASSUME TimeAssumption ==
  /\ Whens \subseteq Nat \ {0}
  /\ Stamps \subseteq Nat
  /\ Records \subseteq OrderRecord
  /\ Period \in Nat \ {0}
  /\ Day \in Nat \ {0}
  /\ Day % Period = 0
  /\ MaxRows \in Nat
  /\ FutureRequests \in BOOLEAN
  /\ DamagedBlobs \in BOOLEAN
  /\ Absent \notin [state : Engines, readable : BOOLEAN]

VARIABLES
  table,    \* the orders table of the stock, in the order of its timestamps
  horizon,  \* every order stamped before this instant is in the table
  snaps,    \* the snapshot stored under each key, or Absent
  pc,       \* where each client is in main
  when,     \* range_end_ts
  pit,      \* the point-in-time option
  snap_ts,  \* timestamp of the snapshot in use, 0 for none
  engine,   \* the client's execution_engine
  lo, it, hi, \* orders is rows lo+1 .. hi of table; it of them precede the iterator
  settled,  \* history: was the requested instant over when the client started?
  sound,    \* history: was the snapshot of a key taken as the scheme means it?
  clean     \* history: does a client's engine stem from a sound snapshot, or from none?

db     == <<table, horizon, snaps, sound>>
locals == <<when, pit, snap_ts, engine, lo, it, hi, settled, clean>>
vars   == <<db, pc, locals>>

get_snapshot_timestamp(t) == t - (t % Period)

\* utils::extract_date, as the instant the day starts at.
DayOf(t) == t - (t % Day)

\* A snapshot key holds the truncated instant; midnight 1970 is never written.
Keys == {get_snapshot_timestamp(w) : w \in Whens}

Blob == [state : Engines, readable : BOOLEAN]
\* A row carries the book of its day right after it, a history variable.
Row  == [ts : Stamps, rec : Records, book : Engines]

-----------------------------------------------------------------------------
(***************************************************************************)
(* The book that the rows of a table imply, with no snapshot involved: the *)
(* day's orders stamped before t, run on an empty engine in their order.   *)
(***************************************************************************)
IsRank(rows, n, t) ==
  /\ n \in 0 .. Len(rows)
  /\ \A i \in 1 .. Len(rows) : i <= n <=> rows[i].ts < t

BookAfter(rows, n, day) ==
  IF n > 0 /\ DayOf(rows[n].ts) = day THEN rows[n].book ELSE EmptyEngine

IsBookAt(rows, e, t) ==
  \E n \in 0 .. Len(rows) : IsRank(rows, n, t) /\ e = BookAfter(rows, n, DayOf(t))

-----------------------------------------------------------------------------
Init ==
  /\ table = <<>>
  /\ horizon = 0
  /\ snaps = [k \in Keys |-> Absent]
  /\ pc = [c \in Clients |-> "idle"]
  /\ when = [c \in Clients |-> 0]
  /\ pit = [c \in Clients |-> FALSE]
  /\ snap_ts = [c \in Clients |-> 0]
  /\ engine = [c \in Clients |-> EmptyEngine]
  /\ lo = [c \in Clients |-> 0]
  /\ it = [c \in Clients |-> 0]
  /\ hi = [c \in Clients |-> 0]
  /\ settled = [c \in Clients |-> FALSE]
  /\ sound = [k \in Keys |-> FALSE]
  /\ clean = [c \in Clients |-> TRUE]

\* The ingestion of the feed appends orders in the order of their timestamps.
Ingest(ts, rec) ==
  /\ Len(table) < MaxRows
  /\ ts >= horizon
  /\ Len(table) > 0 => table[Len(table)].ts <= ts
  /\ table' = Append(table,
                [ts |-> ts, rec |-> rec,
                 book |-> run_order(BookAfter(table, Len(table), DayOf(ts)), rec)])
  /\ UNCHANGED <<horizon, snaps, sound, pc, locals>>

Settle(t) ==
  /\ t > horizon
  /\ horizon' = t
  /\ UNCHANGED <<table, snaps, sound, pc, locals>>

\* A stored snapshot loses its tail.
Damage(k) ==
  /\ DamagedBlobs
  /\ snaps[k] # Absent
  /\ snaps' = [snaps EXCEPT ![k] = [state |-> @.state, readable |-> FALSE]]
  /\ UNCHANGED <<table, horizon, sound, pc, locals>>

-----------------------------------------------------------------------------
\* A process starts: parse_config and get_time_range.
Start(c, w, p) ==
  /\ pc[c] = "idle"
  /\ FutureRequests \/ w <= horizon
  /\ when' = [when EXCEPT ![c] = w]
  /\ pit' = [pit EXCEPT ![c] = p]
  /\ settled' = [settled EXCEPT ![c] = w <= horizon]
  /\ pc' = [pc EXCEPT ![c] = IF p THEN "prefix" ELSE "fetch"]
  /\ UNCHANGED <<db, snap_ts, engine, lo, it, hi, clean>>

\* qdb_prefix_get: the keys of the requested day.
DayKeys(c) == {k \in Keys : snaps[k] # Absent /\ DayOf(k) = DayOf(when[c])}

\* Keys that do not sort after best_snap_key.
Workable(c) == {k \in DayKeys(c) : k <= get_snapshot_timestamp(when[c])}

(***************************************************************************)
(* restore_snapshot up to the blob: no key for the day means no snapshot;  *)
(* the loop leaves the last workable key in match, or the null pointer,    *)
(* which std::string{match} does not survive.                              *)
(***************************************************************************)
NoSnapshots(c) ==
  /\ pc[c] = "prefix"
  /\ DayKeys(c) = {}
  /\ pc' = [pc EXCEPT ![c] = "fetch"]
  /\ UNCHANGED <<db, locals>>

NullMatch(c) ==
  /\ pc[c] = "prefix"
  /\ DayKeys(c) # {}
  /\ Workable(c) = {}
  /\ pc' = [pc EXCEPT ![c] = "aborted"]
  /\ UNCHANGED <<db, locals>>

Match(c, k) ==
  /\ pc[c] = "prefix"
  /\ k \in Workable(c)
  /\ \A j \in Workable(c) : j <= k
  /\ snap_ts' = [snap_ts EXCEPT ![c] = k]
  /\ pc' = [pc EXCEPT ![c] = "blob"]
  /\ UNCHANGED <<db, when, pit, engine, lo, it, hi, settled, clean>>

(***************************************************************************)
(* qdb_blob_get and deserialize_state.  A truncated blob fills the buy map *)
(* with some of its entries and leaves the sell map empty, or fills the    *)
(* buy map and only some of the sell map; restore_snapshot then answers    *)
(* "no snapshot", and the engine keeps what was read.                      *)
(***************************************************************************)
HeldOn(e, s)    == {r \in Refs : Holds(e, s, r)}
KeepOnly(m, S)  == [r \in Refs |-> IF r \in S THEN m[r] ELSE Absent]
TwoMaps(b, s)   == [x \in Sides |-> IF x = "buy" THEN b ELSE s]
PartialReads(e) ==
  {TwoMaps(KeepOnly(e["buy"], S), KeepOnly(e["sell"], {})) : S \in SUBSET HeldOn(e, "buy")}
  \cup {TwoMaps(e["buy"], KeepOnly(e["sell"], S)) :
       S \in (SUBSET HeldOn(e, "sell")) \ {HeldOn(e, "sell")}}

RestoreBlob(c) ==
  /\ pc[c] = "blob"
  /\ snaps[snap_ts[c]].readable
  /\ engine' = [engine EXCEPT ![c] = snaps[snap_ts[c]].state]
  /\ clean' = [clean EXCEPT ![c] = sound[snap_ts[c]]]
  /\ pc' = [pc EXCEPT ![c] = "fetch"]
  /\ UNCHANGED <<db, when, pit, snap_ts, lo, it, hi, settled>>

DeserializeFails(c) ==
  /\ pc[c] = "blob"
  /\ ~snaps[snap_ts[c]].readable
  /\ \E e \in PartialReads(snaps[snap_ts[c]].state) : engine' = [engine EXCEPT ![c] = e]
  /\ snap_ts' = [snap_ts EXCEPT ![c] = 0]
  /\ clean' = [clean EXCEPT ![c] = FALSE]
  /\ pc' = [pc EXCEPT ![c] = "fetch"]
  /\ UNCHANGED <<db, when, pit, lo, it, hi, settled>>

\* Mutant: the whole day is fetched although a snapshot was restored.
AlwaysTheDay(c) == DayOf(when[c])

\* Mutant: upper_bound(snap_ts) skips the orders stamped at the snapshot's instant.
AfterTheSnapshot(c) == IF snap_ts[c] # 0 THEN snap_ts[c] + 1 ELSE DayOf(when[c])

\* get_orders_records over [snap_ts, when) or over [start of the day, when).
RangeStart(c) == IF snap_ts[c] # 0 THEN snap_ts[c] ELSE DayOf(when[c])

Fetch(c) ==
  /\ pc[c] = "fetch"
  /\ \E a, b \in 0 .. Len(table) :
       /\ IsRank(table, a, RangeStart(c))
       /\ IsRank(table, b, when[c])
       /\ lo' = [lo EXCEPT ![c] = a]
       /\ it' = [it EXCEPT ![c] = a]
       /\ hi' = [hi EXCEPT ![c] = b]
  /\ pc' = [pc EXCEPT ![c] = "run"]
  /\ UNCHANGED <<db, when, pit, snap_ts, engine, settled, clean>>

\* Mutant: the iterator is not advanced.
RunForever(c) ==
  /\ pc[c] = "run"
  /\ it[c] < hi[c]
  /\ engine' = [engine EXCEPT ![c] = run_order(@, table[it[c] + 1].rec)]
  /\ UNCHANGED <<db, pc, when, pit, snap_ts, lo, it, hi, settled, clean>>

\* Mutant: the loop runs the last record every time.
RunLast(c) ==
  /\ pc[c] = "run"
  /\ it[c] < hi[c]
  /\ engine' = [engine EXCEPT ![c] = run_order(@, table[hi[c]].rec)]
  /\ it' = [it EXCEPT ![c] = @ + 1]
  /\ UNCHANGED <<db, pc, when, pit, snap_ts, lo, hi, settled, clean>>

RunOrder(c) ==
  /\ pc[c] = "run"
  /\ it[c] < hi[c]
  /\ engine' = [engine EXCEPT ![c] = run_order(@, table[it[c] + 1].rec)]
  /\ it' = [it EXCEPT ![c] = @ + 1]
  /\ UNCHANGED <<db, pc, when, pit, snap_ts, lo, hi, settled, clean>>

MustStore(c) ==
  /\ pit[c]
  /\ lo[c] # hi[c]
  /\ snap_ts[c] < get_snapshot_timestamp(when[c])

SkipStore(c) ==
  /\ pc[c] = "run"
  /\ it[c] = hi[c]
  /\ ~MustStore(c)
  /\ pc' = [pc EXCEPT ![c] = "done"]
  /\ UNCHANGED <<db, locals>>

\* The snapshot counts as sound when the client's own book was, and when the key names
\* the instant of that book, which was over.
Stores(c, key, state) ==
  /\ snaps' = [snaps EXCEPT ![key] = [state |-> state, readable |-> TRUE]]
  /\ sound' = [sound EXCEPT ![key] = clean[c] /\ settled[c] /\ when[c] = key]
  /\ pc' = [pc EXCEPT ![c] = "done"]
  /\ UNCHANGED <<table, horizon, locals>>

\* Mutants: only the buy map is serialized; the instant is rounded up; the snapshot is
\* stored before the loop has run every order.
StoreBuyOnly(c) ==
  /\ pc[c] = "run"
  /\ it[c] = hi[c]
  /\ MustStore(c)
  /\ Stores(c, get_snapshot_timestamp(when[c]), [s \in {"buy"} |-> engine[c][s]])

StoreRoundedUp(c) ==
  /\ pc[c] = "run"
  /\ it[c] = hi[c]
  /\ MustStore(c)
  /\ Stores(c, get_snapshot_timestamp(when[c] + Period), engine[c])

StoreTooEarly(c) ==
  /\ pc[c] = "run"
  /\ MustStore(c)
  /\ Stores(c, get_snapshot_timestamp(when[c]), engine[c])

store_snapshot(c) ==
  /\ pc[c] = "run"
  /\ it[c] = hi[c]
  /\ MustStore(c)
  /\ Stores(c, get_snapshot_timestamp(when[c]), engine[c])

\* The process is gone; the next one starts with an empty engine and no snapshot.
Gone(c) ==
  /\ pc' = [pc EXCEPT ![c] = "idle"]
  /\ when' = [when EXCEPT ![c] = 0]
  /\ pit' = [pit EXCEPT ![c] = FALSE]
  /\ settled' = [settled EXCEPT ![c] = FALSE]
  /\ snap_ts' = [snap_ts EXCEPT ![c] = 0]
  /\ engine' = [engine EXCEPT ![c] = EmptyEngine]
  /\ lo' = [lo EXCEPT ![c] = 0]
  /\ it' = [it EXCEPT ![c] = 0]
  /\ hi' = [hi EXCEPT ![c] = 0]
  /\ clean' = [clean EXCEPT ![c] = TRUE]
  /\ UNCHANGED db

\* main prints the book and returns, or reports the exception and returns.
Exit(c) == pc[c] \in {"done", "aborted"} /\ Gone(c)

\* A database call fails (throw_on_failure), or the process is killed.
Fail(c) == pc[c] \in {"prefix", "blob", "fetch", "run"} /\ Gone(c)

\* The next step of main: what a process that is not stopped will do.
Advance(c) ==
  \/ NoSnapshots(c)
  \/ NullMatch(c)
  \/ \E k \in Keys : Match(c, k)
  \/ RestoreBlob(c)
  \/ DeserializeFails(c)
  \/ Fetch(c)
  \/ RunOrder(c)
  \/ SkipStore(c)
  \/ store_snapshot(c)

Next ==
  \/ \E ts \in Stamps, rec \in Records : Ingest(ts, rec)
  \/ \E t \in Whens : Settle(t)
  \/ \E k \in Keys : Damage(k)
  \/ \E c \in Clients :
       \/ \E w \in Whens, p \in BOOLEAN : Start(c, w, p)
       \/ Advance(c)
       \/ Exit(c)
       \/ Fail(c)

Spec == Init /\ [][Next]_vars

\* The operating system runs every process; every database call returns.
FairSpec == Spec /\ \A c \in Clients : WF_vars(Advance(c))

-----------------------------------------------------------------------------
PCs == {"idle", "prefix", "blob", "fetch", "run", "done", "aborted"}

\* The type of the database and of every client.
TypeOK ==
  /\ table \in Seq(Row)
  /\ horizon \in Nat
  /\ snaps \in [Keys -> Blob \cup {Absent}]
  /\ pc \in [Clients -> PCs]
  /\ when \in [Clients -> Whens \cup {0}]
  /\ pit \in [Clients -> BOOLEAN]
  /\ snap_ts \in [Clients -> Keys \cup {0}]
  /\ engine \in [Clients -> Engines]
  /\ lo \in [Clients -> Nat]
  /\ it \in [Clients -> Nat]
  /\ hi \in [Clients -> Nat]
  /\ settled \in [Clients -> BOOLEAN]
  /\ sound \in [Keys -> BOOLEAN]
  /\ clean \in [Clients -> BOOLEAN]

\* The book printed as "Order book for {} at {}" is the book that running all of
\* the day's orders before that instant gives, whatever snapshot it came from.
PointInTimeBook ==
  \A c \in Clients : pc[c] = "done" /\ settled[c] => IsBookAt(table, engine[c], when[c])

\* A request without the point-in-time option owes nothing to the snapshots: its
\* book is right in every state of the database.
PlainReplayExact ==
  \A c \in Clients : pc[c] = "done" /\ settled[c] /\ ~pit[c] => IsBookAt(table, engine[c], when[c])

\* A snapshot holds the book of the instant that its key names.
SnapshotsExact ==
  \A k \in Keys : snaps[k] # Absent => IsBookAt(table, snaps[k].state, k)

\* Requests that race for the same key write the same snapshot: qdb_blob_update
\* never changes what an earlier request stored.
SnapshotsStable == [][\A k \in Keys : snaps[k] # Absent => snaps'[k] = snaps[k]]_vars

\* A bad snapshot harms nobody but those who start from it.  Among requests between
\* boundaries, requests of instants that are not over and truncated blobs, a snapshot
\* is exact if it was taken on its boundary, once that was over, from an exact book;
\* and a request of an instant that was over prints the right book, on a boundary or
\* not, if it started from such a snapshot or from none.
SoundBooks ==
  /\ \A k \in Keys : snaps[k] # Absent /\ sound[k] => IsBookAt(table, snaps[k].state, k)
  /\ \A c \in Clients :
       pc[c] = "done" /\ settled[c] /\ clean[c] => IsBookAt(table, engine[c], when[c])

\* An order belongs to the requested day, is stamped at or after the snapshot in use,
\* if there is one, and before the requested instant.
InRange(c, t) == DayOf(when[c]) <= t /\ snap_ts[c] <= t /\ t < when[c]

\* The loop runs the rows of the half-open range from the snapshot, or from midnight
\* without one, to the requested instant, and no other row; if that instant was over
\* when the request started it leaves none out, whatever was ingested since.
RunsInRange ==
  \A c \in Clients :
    pc[c] \in {"run", "done"} =>
      /\ it[c] \in lo[c] .. hi[c]
      /\ hi[c] <= Len(table)
      /\ \A i \in 1 .. Len(table) :
           /\ i \in lo[c] + 1 .. hi[c] => InRange(c, table[i].ts)
           /\ settled[c] /\ InRange(c, table[i].ts) => i \in lo[c] + 1 .. hi[c]

\* "if (!match) return utils::timespec{}": a request that no snapshot of the day
\* can serve runs without one.
NoWorkableSnapshotIsNoSnapshot == \A c \in Clients : pc[c] # "aborted"

\* Every request ends: with a book, with an error, or because it was stopped.
RequestTerminates ==
  \A c \in Clients : pc[c] # "idle" ~> pc[c] \in {"done", "aborted", "idle"}
=============================================================================
