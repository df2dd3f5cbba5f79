------------------------- MODULE PointInTimeProofs -------------------------
(***************************************************************************)
(* Theorems about PointInTime.                                             *)
(***************************************************************************)
EXTENDS PointInTime, TLAPS

-----------------------------------------------------------------------------
(***************************************************************************)
(* Type correctness.                                                       *)
(***************************************************************************)

LEMMA EmptyEngineType == EmptyEngine \in Engines
BY DEF EmptyEngine, Engines, OrderMap

LEMMA PutType ==
  ASSUME NEW e \in Engines, NEW s \in Sides, NEW r \in Refs, NEW o \in Order \cup {Absent}
  PROVE  [e EXCEPT ![s] = [e[s] EXCEPT ![r] = o]] \in Engines
BY DEF Engines, OrderMap

\* Every operation of the engine puts an order into an entry of a map, empties one, or both.
LEMMA RunOrderType ==
  ASSUME NEW e \in Engines, NEW rec \in OrderRecord
  PROVE  run_order(e, rec) \in Engines
<1> DEFINE r == rec.reference
           n == rec.shares
           p == rec.price
           new == [price |-> convert_to_fix(p), shares |-> n]
           f == FoundOn(e, r)
<1>1. /\ rec.order_type \in OrderCodes \cup {"P"} /\ rec.is_buy \in BOOLEAN
      /\ r \in Refs /\ rec.new_reference \in Refs
      /\ n \in 0 .. ShareLimit - 1 /\ p \in Prices \cup {0}
  BY DEF OrderRecord
<1>2. new \in Order
  <2> HIDE DEF p
  <2>1. p \in Nat /\ (p \in RoundsDown => p > 0 /\ p % 10 = 0)
    <3>1. Prices \subseteq Nat
      BY EngineAssumption
    <3>2. \A x \in RoundsDown : x > 0 /\ x % 10 = 0
      BY EngineAssumption
    <3> QED
      BY <1>1, <3>1, <3>2
  <2>2. convert_to_fix(p) \in Nat
    BY <2>1 DEF convert_to_fix
  <2> QED
    BY <1>1, <2>2 DEF Order
<1>3. f \in Sides /\ (Known(e, r) => e[f][r] # Absent)
  BY DEF FoundOn, Sides, Known, Holds
<1>4. ASSUME NEW g \in Engines, NEW s \in Sides, NEW q \in Refs
      PROVE  run_add_order(g, s, q, n, p) \in Engines
  <2>1. [g EXCEPT ![s] = g[s]] = g
    BY DEF Engines
  <2> QED
    BY <1>2, <2>1, PutType DEF run_add_order, emplace
<1>5. [e EXCEPT ![f] = erase(e[f], r)] \in Engines
  BY <1>1, <1>3, PutType DEF erase
<1>6. run_execute_order(e, r, n) \in Engines
  <2>1. CASE Known(e, r)
    <3> DEFINE left == MinusShares(e[f][r].shares, n)
    <3>1. e[f][r] \in Order
      BY <1>1, <1>3, <2>1 DEF Engines, OrderMap
    <3>2. left \in 0 .. ShareLimit - 1
      BY <1>1, <3>1, EngineAssumption DEF MinusShares, Order
    <3>3. [price |-> e[f][r].price, shares |-> left] \in Order
      BY <3>1, <3>2 DEF Order
    <3> HIDE DEF left, f
    <3>4. [e EXCEPT ![f] = [e[f] EXCEPT ![r] = [price |-> e[f][r].price, shares |-> left]]] \in Engines
      BY <1>1, <1>3, <3>3, PutType
    <3> QED
      BY <1>5, <2>1, <3>4 DEF run_execute_order, ExecuteIn, left, f
  <2>2. CASE ~Known(e, r)
    BY <2>2 DEF run_execute_order
  <2> QED
    BY <2>1, <2>2
<1>7. run_delete_order(e, r) \in Engines
  BY <1>5 DEF run_delete_order
<1>8. run_replace_order(e, r, rec.new_reference, n, p) \in Engines
  BY <1>1, <1>3, <1>4, <1>5 DEF run_replace_order
<1>9. run_add_order(e, SideOf(rec.is_buy), r, n, p) \in Engines
  BY <1>1, <1>4 DEF SideOf, Sides
<1> HIDE DEF r, n, p, f, new
<1>10. run_order(e, rec) \in {run_add_order(e, SideOf(rec.is_buy), r, n, p), run_execute_order(e, r, n),
                              run_delete_order(e, r), run_replace_order(e, r, rec.new_reference, n, p), e}
  BY <1>1 DEF run_order, run_cancel_order, AddCodes, ExecuteCodes, OrderCodes, r, n, p
<1> QED
  BY <1>6, <1>7, <1>8, <1>9, <1>10

\* What a truncated blob leaves in the engine is a pair of order maps.
LEMMA PartialReadsType ==
  ASSUME NEW e \in Engines, NEW f \in PartialReads(e)
  PROVE  f \in Engines
<1>1. \A m \in OrderMap, S \in SUBSET Refs : KeepOnly(m, S) \in OrderMap
  BY DEF KeepOnly, OrderMap
<1>2. e["buy"] \in OrderMap /\ e["sell"] \in OrderMap
  BY DEF Engines, Sides
<1>3. \A b, s \in OrderMap : TwoMaps(b, s) \in Engines
  BY DEF TwoMaps, Engines, Sides
<1>4. CASE f \in {TwoMaps(KeepOnly(e["buy"], S), KeepOnly(e["sell"], {})) : S \in SUBSET HeldOn(e, "buy")}
  <2>1. PICK S \in SUBSET Refs : f = TwoMaps(KeepOnly(e["buy"], S), KeepOnly(e["sell"], {}))
    BY <1>4 DEF HeldOn
  <2> QED
    BY <1>1, <1>2, <1>3, <2>1
<1>5. CASE f \in {TwoMaps(e["buy"], KeepOnly(e["sell"], S)) :
                    S \in (SUBSET HeldOn(e, "sell")) \ {HeldOn(e, "sell")}}
  <2>1. PICK S \in SUBSET Refs : f = TwoMaps(e["buy"], KeepOnly(e["sell"], S))
    BY <1>5 DEF HeldOn
  <2> QED
    BY <1>1, <1>2, <1>3, <2>1
<1> QED
  BY <1>4, <1>5 DEF PartialReads

LEMMA BookAfterType ==
  ASSUME TypeOK, NEW n \in 0 .. Len(table), NEW day
  PROVE  BookAfter(table, n, day) \in Engines
<1>1. CASE n > 0 /\ DayOf(table[n].ts) = day
  <2>1. table[n] \in Row
    BY <1>1 DEF TypeOK
  <2> QED
    BY <1>1, <2>1 DEF BookAfter, Row
<1>2. CASE ~(n > 0 /\ DayOf(table[n].ts) = day)
  BY <1>2, EmptyEngineType DEF BookAfter
<1> QED
  BY <1>1, <1>2

LEMMA InitType == Init => TypeOK
<1> SUFFICES ASSUME Init PROVE TypeOK
  OBVIOUS
<1>1. table \in Seq(Row) /\ horizon \in Nat
  BY DEF Init
<1>2. snaps \in [Keys -> Blob \cup {Absent}]
  BY DEF Init
<1>3. engine \in [Clients -> Engines]
  BY EmptyEngineType DEF Init
<1> QED
  BY <1>1, <1>2, <1>3 DEF Init, TypeOK, PCs

\* The rows, snapshots and records are what their types say.
LEMMA RowFields ==
  ASSUME TypeOK, NEW i \in 1 .. Len(table)
  PROVE  /\ table[i] \in Row
         /\ table[i].ts \in Nat
         /\ table[i].ts \in Stamps
         /\ table[i].rec \in OrderRecord
         /\ table[i].book \in Engines
<1>1. table[i] \in Row
  BY DEF TypeOK
<1> QED
  BY <1>1, TimeAssumption DEF Row

LEMMA SnapFields ==
  ASSUME TypeOK, NEW k \in Keys, snaps[k] # Absent
  PROVE  snaps[k].state \in Engines /\ snaps[k].readable \in BOOLEAN
<1>1. snaps[k] \in Blob
  BY DEF TypeOK
<1> QED
  BY <1>1 DEF Blob

\* A client that is about to read a blob has chosen a key that holds one, and a client
\* that runs orders has rows of the table.
Chosen(c)  == pc[c] = "blob" => snap_ts[c] \in Keys /\ snaps[snap_ts[c]] # Absent
Fetched(c) == pc[c] = "run" => hi[c] <= Len(table)

InHand == \A c \in Clients : Chosen(c) /\ Fetched(c)

LEMMA TypeStep == TypeOK /\ InHand /\ [Next]_vars => TypeOK' /\ InHand'
<1> SUFFICES ASSUME TypeOK, InHand, [Next]_vars PROVE TypeOK' /\ InHand'
  OBVIOUS
<1>1. ASSUME NEW ts \in Stamps, NEW rec \in Records, Ingest(ts, rec)
      PROVE  TypeOK' /\ InHand'
  <2>1. run_order(BookAfter(table, Len(table), DayOf(ts)), rec) \in Engines
    <3>1. Len(table) \in 0 .. Len(table)
      BY DEF TypeOK
    <3>2. BookAfter(table, Len(table), DayOf(ts)) \in Engines
      BY <3>1, BookAfterType
    <3> QED
      BY <3>2, RunOrderType, TimeAssumption
  <2>2. [ts |-> ts, rec |-> rec, book |-> run_order(BookAfter(table, Len(table), DayOf(ts)), rec)] \in Row
    BY <2>1 DEF Row
  <2>3. table' \in Seq(Row)
    BY <1>1, <2>2 DEF Ingest, TypeOK
  <2>4. Len(table) <= Len(table')
    BY <1>1 DEF Ingest, TypeOK
  <2>5. TypeOK'
    BY <1>1, <2>3 DEF Ingest, TypeOK, locals
  <2>6. \A c \in Clients : Len(table) \in Nat /\ Len(table') \in Nat /\ hi[c] \in Nat
    BY <2>5 DEF TypeOK
  <2> QED
    BY <1>1, <2>4, <2>5, <2>6 DEF Ingest, InHand, Chosen, Fetched, locals
<1>2. ASSUME NEW t \in Whens, Settle(t)
      PROVE  TypeOK' /\ InHand'
  BY <1>2, TimeAssumption DEF Settle, TypeOK, InHand, Chosen, Fetched, locals
<1>3. ASSUME NEW k \in Keys, Damage(k)
      PROVE  TypeOK' /\ InHand'
  <2> DEFINE b == [state |-> snaps[k].state, readable |-> FALSE]
  <2>1. b \in Blob /\ b # Absent
    <3>1. snaps[k].state \in Engines
      BY <1>3, SnapFields DEF Damage
    <3>2. b \in [state : Engines, readable : BOOLEAN]
      BY <3>1
    <3> QED
      BY <3>2, TimeAssumption, Zenon DEF Blob
  <2>2. snaps' = [snaps EXCEPT ![k] = b]
    BY <1>3 DEF Damage
  <2> HIDE DEF b
  <2>3. /\ snaps' \in [Keys -> Blob \cup {Absent}]
        /\ \A j \in Keys : snaps[j] # Absent => snaps'[j] # Absent
    BY <2>1, <2>2 DEF TypeOK
  <2> QED
    BY <1>3, <2>3 DEF Damage, TypeOK, InHand, Chosen, Fetched, locals
<1>4. ASSUME NEW c \in Clients, NEW w \in Whens, NEW p \in BOOLEAN, Start(c, w, p)
      PROVE  TypeOK' /\ InHand'
  BY <1>4 DEF Start, TypeOK, InHand, Chosen, Fetched, db, PCs
<1>5. ASSUME NEW c \in Clients, Advance(c)
      PROVE  TypeOK' /\ InHand'
  <2>1. CASE NoSnapshots(c)
    BY <2>1 DEF NoSnapshots, TypeOK, InHand, Chosen, Fetched, db, locals, PCs
  <2>2. CASE NullMatch(c)
    BY <2>2 DEF NullMatch, TypeOK, InHand, Chosen, Fetched, db, locals, PCs
  <2>3. ASSUME NEW k \in Keys, Match(c, k)
        PROVE  TypeOK' /\ InHand'
    <3>1. snaps[k] # Absent
      BY <2>3 DEF Match, Workable, DayKeys
    <3> QED
      BY <2>3, <3>1 DEF Match, TypeOK, InHand, Chosen, Fetched, db, PCs
  <2>4. CASE RestoreBlob(c)
    <3>1. snaps[snap_ts[c]].state \in Engines
      BY <2>4, SnapFields DEF RestoreBlob, InHand, Chosen, Fetched
    <3> QED
      BY <2>4, <3>1 DEF RestoreBlob, TypeOK, InHand, Chosen, Fetched, db, PCs
  <2>5. CASE DeserializeFails(c)
    <3>1. snaps[snap_ts[c]].state \in Engines
      BY <2>5, SnapFields DEF DeserializeFails, InHand, Chosen, Fetched
    <3>2. PICK e \in PartialReads(snaps[snap_ts[c]].state) : engine' = [engine EXCEPT ![c] = e]
      BY <2>5 DEF DeserializeFails
    <3>3. e \in Engines
      BY <3>1, PartialReadsType
    <3> QED
      BY <2>5, <3>2, <3>3 DEF DeserializeFails, TypeOK, InHand, Chosen, Fetched, db, PCs
  <2>6. CASE Fetch(c)
    <3>1. PICK a, b \in 0 .. Len(table) :
            /\ lo' = [lo EXCEPT ![c] = a]
            /\ it' = [it EXCEPT ![c] = a]
            /\ hi' = [hi EXCEPT ![c] = b]
      BY <2>6 DEF Fetch
    <3>2. a \in Nat /\ b \in Nat
      BY DEF TypeOK
    <3> QED
      BY <2>6, <3>1, <3>2 DEF Fetch, TypeOK, InHand, Chosen, Fetched, db, PCs
  <2>7. CASE RunOrder(c)
    <3>1. it[c] + 1 \in 1 .. Len(table)
      BY <2>7 DEF RunOrder, TypeOK, InHand, Fetched
    <3>2. run_order(engine[c], table[it[c] + 1].rec) \in Engines
      BY <3>1, RowFields, RunOrderType DEF TypeOK
    <3>3. engine' \in [Clients -> Engines] /\ it' \in [Clients -> Nat]
      BY <2>7, <3>2 DEF RunOrder, TypeOK
    <3> QED
      BY <2>7, <3>3 DEF RunOrder, TypeOK, InHand, Chosen, Fetched, db
  <2>8. CASE SkipStore(c)
    BY <2>8 DEF SkipStore, TypeOK, InHand, Chosen, Fetched, db, locals, PCs
  <2>9. CASE store_snapshot(c)
    <3> DEFINE b == [state |-> engine[c], readable |-> TRUE]
    <3>1. b \in Blob /\ b # Absent
      <4>1. b \in [state : Engines, readable : BOOLEAN]
        BY DEF TypeOK
      <4> QED
        BY <4>1, TimeAssumption, Zenon DEF Blob
    <3>2. snaps' = [snaps EXCEPT ![get_snapshot_timestamp(when[c])] = b]
      BY <2>9 DEF store_snapshot, Stores
    <3> HIDE DEF b
    <3>3. /\ snaps' \in [Keys -> Blob \cup {Absent}]
          /\ \A j \in Keys : snaps[j] # Absent => snaps'[j] # Absent
      BY <3>1, <3>2 DEF TypeOK
    <3>4. sound' \in [Keys -> BOOLEAN]
      BY <2>9 DEF store_snapshot, Stores, TypeOK
    <3> QED
      BY <2>9, <3>3, <3>4 DEF store_snapshot, Stores, TypeOK, InHand, Chosen, Fetched, locals, PCs
  <2> QED
    BY <1>5, <2>1, <2>2, <2>3, <2>4, <2>5, <2>6, <2>7, <2>8, <2>9 DEF Advance
<1>6. ASSUME NEW c \in Clients, Gone(c)
      PROVE  TypeOK' /\ InHand'
  BY <1>6, EmptyEngineType DEF Gone, TypeOK, InHand, Chosen, Fetched, db, PCs
<1>7. CASE UNCHANGED vars
  BY <1>7 DEF vars, db, locals, TypeOK, InHand, Chosen, Fetched
<1> QED
  BY <1>1, <1>2, <1>3, <1>4, <1>5, <1>6, <1>7 DEF Next, Exit, Fail

\* For every set of clients, instants and records, the database and the clients stay
\* in their types: no handler reads a field or an entry that is not there.
THEOREM TypeCorrect == Spec => []TypeOK
<1>1. Init => TypeOK /\ InHand
  BY InitType DEF Init, InHand, Chosen, Fetched
<1> QED
  BY <1>1, TypeStep, PTL DEF Spec

-----------------------------------------------------------------------------
(***************************************************************************)
(* Days and periods.                                                       *)
(***************************************************************************)
LEMMA DivMod ==
  ASSUME NEW d \in Nat \ {0}, NEW t \in Nat
  PROVE  t % d \in 0 .. d - 1 /\ t \div d \in Nat /\ t = d * (t \div d) + (t % d)
OBVIOUS

LEMMA Below ==
  ASSUME NEW d \in Nat \ {0}, NEW a \in Nat, NEW b \in Nat, d * a < d * b + d
  PROVE  a <= b
<1> SUFFICES ASSUME a > b PROVE FALSE
  OBVIOUS
<1> DEFINE k == a - b - 1
<1>1. k \in Nat /\ a = b + 1 + k
  OBVIOUS
<1> HIDE DEF k
<1>2. d * a = d * b + d + d * k
  BY <1>1
<1>3. d * k >= 0
  BY <1>1
<1> QED
  BY <1>1, <1>2, <1>3

\* A day starts no later than its instants.
LEMMA DayStarts ==
  ASSUME NEW t \in Nat
  PROVE  DayOf(t) \in Nat /\ DayOf(t) <= t
<1>1. t % Day \in 0 .. Day - 1 /\ t \div Day \in Nat /\ t = Day * (t \div Day) + (t % Day)
  BY DivMod, TimeAssumption
<1>2. Day * (t \div Day) \in Nat
  BY <1>1, TimeAssumption
<1> QED
  BY <1>1, <1>2 DEF DayOf

\* An instant between the start of the day of w and w is of the day of w.
LEMMA SameDay ==
  ASSUME NEW t \in Nat, NEW w \in Nat, DayOf(w) <= t, t <= w
  PROVE  DayOf(t) = DayOf(w)
<1> DEFINE a == t \div Day
           b == w \div Day
<1>0. Day \in Nat \ {0}
  BY TimeAssumption
<1>1. t % Day \in 0 .. Day - 1 /\ a \in Nat /\ t = Day * a + (t % Day)
  BY <1>0, DivMod
<1>2. w % Day \in 0 .. Day - 1 /\ b \in Nat /\ w = Day * b + (w % Day)
  BY <1>0, DivMod
<1>3. w - (w % Day) <= t
  BY DEF DayOf
<1> HIDE DEF a, b
<1>4. Day * a \in Int /\ Day * b \in Int
  BY <1>0, <1>1, <1>2
<1>5. Day * a < Day * b + Day /\ Day * b < Day * a + Day
  BY <1>0, <1>1, <1>2, <1>3, <1>4
<1>6. a <= b /\ b <= a
  BY <1>0, <1>1, <1>2, <1>5, Below
<1>7. a = b
  BY <1>1, <1>2, <1>6
<1> QED
  BY <1>1, <1>2, <1>4, <1>7 DEF DayOf

LEMMA KeysNat == Keys \subseteq Nat
<1>1. \A w \in Whens : /\ w % Period \in 0 .. Period - 1
                      /\ w \div Period \in Nat
                      /\ w = Period * (w \div Period) + (w % Period)
  BY DivMod, TimeAssumption
<1>2. \A w \in Whens : Period * (w \div Period) \in Nat
  BY <1>1, TimeAssumption
<1> QED
  BY <1>1, <1>2, TimeAssumption DEF Keys, get_snapshot_timestamp

-----------------------------------------------------------------------------
(***************************************************************************)
(* Ranks and books of a table.                                             *)
(***************************************************************************)
\* An instant has one rank, so it has one book.
LEMMA OneRank ==
  ASSUME NEW rows, Len(rows) \in Nat, NEW t, NEW m, NEW n, IsRank(rows, m, t), IsRank(rows, n, t)
  PROVE  m = n
<1>1. m \in 0 .. Len(rows) /\ n \in 0 .. Len(rows)
  BY DEF IsRank
<1>2. m > n => m \in 1 .. Len(rows)
  BY <1>1
<1>3. n > m => n \in 1 .. Len(rows)
  BY <1>1
<1>4. \A i \in 1 .. Len(rows) : i <= m <=> i <= n
  BY DEF IsRank
<1> QED
  BY <1>1, <1>2, <1>3, <1>4

LEMMA OneBook ==
  ASSUME NEW rows, Len(rows) \in Nat, NEW t, NEW d, NEW e,
         IsBookAt(rows, d, t), IsBookAt(rows, e, t)
  PROVE  d = e
<1>1. PICK m \in 0 .. Len(rows) : IsRank(rows, m, t) /\ d = BookAfter(rows, m, DayOf(t))
  BY DEF IsBookAt
<1>2. PICK n \in 0 .. Len(rows) : IsRank(rows, n, t) /\ e = BookAfter(rows, n, DayOf(t))
  BY DEF IsBookAt
<1>3. m = n
  BY <1>1, <1>2, OneRank
<1> QED
  BY <1>1, <1>2, <1>3

\* A later order leaves the ranks and the books of earlier instants alone.
LEMMA AppendKeeps ==
  ASSUME NEW rows \in Seq(Row), NEW x \in Row, NEW t \in Nat, t <= x.ts
  PROVE  /\ \A n \in 0 .. Len(rows) : \A day :
              BookAfter(Append(rows, x), n, day) = BookAfter(rows, n, day)
         /\ \A n : IsRank(rows, n, t) => IsRank(Append(rows, x), n, t)
         /\ \A e : IsBookAt(rows, e, t) => IsBookAt(Append(rows, x), e, t)
<1> DEFINE more == Append(rows, x)
<1>1. /\ Len(rows) \in Nat
      /\ Len(more) = Len(rows) + 1
      /\ \A i \in 1 .. Len(rows) : more[i] = rows[i]
      /\ more[Len(rows) + 1] = x
  OBVIOUS
<1>2. x.ts \in Nat
  BY TimeAssumption DEF Row
<1> HIDE DEF more
<1>3. \A n \in 0 .. Len(rows) : \A day : BookAfter(more, n, day) = BookAfter(rows, n, day)
  BY <1>1 DEF BookAfter
<1>4. ASSUME NEW n, IsRank(rows, n, t) PROVE IsRank(more, n, t)
  <2>1. n \in 0 .. Len(rows) /\ n \in 0 .. Len(more)
    BY <1>1, <1>4 DEF IsRank
  <2>2. ASSUME NEW i \in 1 .. Len(more) PROVE i <= n <=> more[i].ts < t
    <3>1. CASE i \in 1 .. Len(rows)
      BY <1>1, <1>4, <3>1 DEF IsRank
    <3>2. CASE i = Len(rows) + 1
      BY <1>1, <1>2, <2>1, <3>2
    <3> QED
      BY <1>1, <3>1, <3>2
  <2> QED
    BY <2>1, <2>2 DEF IsRank
<1>5. ASSUME NEW e, IsBookAt(rows, e, t) PROVE IsBookAt(more, e, t)
  <2>1. PICK n \in 0 .. Len(rows) : IsRank(rows, n, t) /\ e = BookAfter(rows, n, DayOf(t))
    BY <1>5 DEF IsBookAt
  <2>2. IsRank(more, n, t) /\ e = BookAfter(more, n, DayOf(t)) /\ n \in 0 .. Len(more)
    BY <1>1, <1>3, <1>4, <2>1
  <2> QED
    BY <2>2 DEF IsBookAt
<1> QED
  BY <1>3, <1>4, <1>5 DEF more

\* Each row's book follows from the book before it on its day.
Chained ==
  \A i \in 1 .. Len(table) :
    table[i].book = run_order(BookAfter(table, i - 1, DayOf(table[i].ts)), table[i].rec)

\* The instants a client handles are natural numbers.
LEMMA Instants ==
  ASSUME TypeOK, NEW c \in Clients
  PROVE  /\ when[c] \in Nat /\ snap_ts[c] \in Nat /\ Keys \subseteq Nat /\ Whens \subseteq Nat
         /\ it[c] \in Nat /\ hi[c] \in Nat /\ lo[c] \in Nat /\ Len(table) \in Nat
<1>1. when[c] \in Whens \cup {0} /\ snap_ts[c] \in Keys \cup {0}
  BY DEF TypeOK
<1>2. Whens \subseteq Nat
  BY TimeAssumption
<1>3. it[c] \in Nat /\ hi[c] \in Nat /\ lo[c] \in Nat /\ Len(table) \in Nat
  BY DEF TypeOK
<1>4. \A t : (t \in Whens => t \in Nat) /\ (t \in Keys => t \in Nat)
  BY <1>2, KeysNat
<1>5. when[c] \in Nat /\ snap_ts[c] \in Nat
  BY <1>1, <1>4
<1> QED
  BY <1>2, <1>3, <1>5, KeysNat

(***************************************************************************)
(* What the loop of main keeps: the rows still to be run complete the book *)
(* in hand to the book of the requested instant.                           *)
(***************************************************************************)
Completes(c) ==
  /\ it[c] <= hi[c]
  /\ IsRank(table, hi[c], when[c])
  /\ \A i \in 1 .. Len(table) : i > it[c] => table[i].ts >= DayOf(when[c])
  /\ engine[c] = BookAfter(table, it[c], DayOf(when[c]))

\* The ingestion of an order disturbs nothing that is over.
LEMMA IngestKeeps ==
  ASSUME TypeOK, Chained, NEW ts \in Stamps, NEW rec \in Records, Ingest(ts, rec)
  PROVE  /\ ts \in Nat /\ ts >= horizon /\ Len(table) \in Nat /\ Len(table') = Len(table) + 1
         /\ \A i \in 1 .. Len(table) : table'[i] = table[i]
         /\ table'[Len(table) + 1].ts = ts
         /\ \A n \in 0 .. Len(table) : \A day : BookAfter(table', n, day) = BookAfter(table, n, day)
         /\ \A t \in Nat : t <= horizon =>
              /\ \A n : IsRank(table, n, t) => IsRank(table', n, t)
              /\ \A e : IsBookAt(table, e, t) => IsBookAt(table', e, t)
         /\ Chained'
<1> DEFINE x == [ts |-> ts, rec |-> rec,
                 book |-> run_order(BookAfter(table, Len(table), DayOf(ts)), rec)]
<1>1. run_order(BookAfter(table, Len(table), DayOf(ts)), rec) \in Engines
  <2>1. Len(table) \in 0 .. Len(table)
    BY DEF TypeOK
  <2>2. BookAfter(table, Len(table), DayOf(ts)) \in Engines
    BY <2>1, BookAfterType
  <2> QED
    BY <2>2, RunOrderType, TimeAssumption
<1>2. /\ x \in Row
      /\ x.ts = ts
      /\ x.rec = rec
      /\ x.book = run_order(BookAfter(table, Len(table), DayOf(ts)), rec)
  BY <1>1 DEF Row
<1>3. table' = Append(table, x) /\ ts >= horizon
  BY DEF Ingest
<1> HIDE DEF x
<1>4. /\ ts \in Nat /\ horizon \in Nat /\ table \in Seq(Row) /\ Len(table) \in Nat
      /\ Len(table') = Len(table) + 1
      /\ \A i \in 1 .. Len(table) : table'[i] = table[i]
      /\ table'[Len(table) + 1] = x
  BY <1>2, <1>3, TimeAssumption DEF TypeOK
<1>5. \A n \in 0 .. Len(table) : \A day : BookAfter(table', n, day) = BookAfter(table, n, day)
  <2>1. ts <= x.ts
    BY <1>2, <1>4
  <2> QED
    BY <1>2, <1>3, <1>4, <2>1, AppendKeeps
<1>6. ASSUME NEW t \in Nat, t <= horizon
      PROVE  /\ \A n : IsRank(table, n, t) => IsRank(table', n, t)
             /\ \A e : IsBookAt(table, e, t) => IsBookAt(table', e, t)
  <2>1. t <= x.ts
    BY <1>2, <1>3, <1>4, <1>6
  <2> QED
    BY <1>2, <1>3, <1>4, <2>1, AppendKeeps
<1>7. Chained'
  <2> SUFFICES ASSUME NEW i \in 1 .. Len(table')
               PROVE  table'[i].book =
                        run_order(BookAfter(table', i - 1, DayOf(table'[i].ts)), table'[i].rec)
    BY DEF Chained
  <2>1. i - 1 \in 0 .. Len(table)
    BY <1>4
  <2>2. BookAfter(table', i - 1, DayOf(table'[i].ts)) = BookAfter(table, i - 1, DayOf(table'[i].ts))
    BY <1>5, <2>1
  <2>3. CASE i \in 1 .. Len(table)
    BY <1>4, <2>2, <2>3 DEF Chained
  <2>4. CASE i = Len(table) + 1
    BY <1>2, <1>4, <2>2, <2>4
  <2> QED
    BY <1>4, <2>3, <2>4
<1> QED
  BY <1>2, <1>3, <1>4, <1>5, <1>6, <1>7

LEMMA IngestCompletes ==
  ASSUME TypeOK, Chained, NEW ts \in Stamps, NEW rec \in Records, Ingest(ts, rec),
         NEW c \in Clients, when[c] <= horizon, Completes(c)
  PROVE  Completes(c)'
<1>1. /\ when[c] \in Nat /\ it[c] \in Nat /\ hi[c] \in Nat /\ Len(table) \in Nat /\ horizon \in Nat
      /\ DayOf(when[c]) \in Nat /\ DayOf(when[c]) <= when[c]
  BY Instants, DayStarts DEF TypeOK
<1>2. when' = when /\ it' = it /\ hi' = hi /\ engine' = engine
  BY DEF Ingest, locals
<1>3. hi[c] \in 0 .. Len(table) /\ it[c] \in 0 .. Len(table)
  BY <1>1 DEF Completes, IsRank
<1>4. ASSUME NEW i \in 1 .. Len(table'), i > it[c] PROVE table'[i].ts >= DayOf(when[c])
  <2>1. /\ ts \in Nat /\ ts >= horizon /\ Len(table') = Len(table) + 1
        /\ \A j \in 1 .. Len(table) : table'[j] = table[j]
        /\ table'[Len(table) + 1].ts = ts
    BY IngestKeeps
  <2>2. CASE i \in 1 .. Len(table)
    BY <1>4, <2>1, <2>2 DEF Completes
  <2>3. CASE i = Len(table) + 1
    BY <1>1, <2>1, <2>3
  <2> QED
    BY <1>1, <2>1, <2>2, <2>3
<1>5. engine[c] = BookAfter(table', it[c], DayOf(when[c]))
  BY <1>3, IngestKeeps DEF Completes
<1>6. IsRank(table', hi[c], when[c])
  BY <1>1, IngestKeeps DEF Completes
<1> QED
  BY <1>2, <1>4, <1>5, <1>6 DEF Completes

\* What a client may start the loop from: nothing, or the book of its snapshot.
Founded(c) ==
  \/ snap_ts[c] = 0 /\ engine[c] = EmptyEngine
  \/ snap_ts[c] # 0 /\ IsBookAt(table, engine[c], snap_ts[c])

\* The snapshot in use is of the requested day and not after the requested instant.
SnapOfDay(c) ==
  snap_ts[c] # 0 => DayOf(snap_ts[c]) = DayOf(when[c]) /\ snap_ts[c] <= when[c]

LEMMA RangeOfDay ==
  ASSUME TypeOK, NEW c \in Clients, SnapOfDay(c)
  PROVE  /\ RangeStart(c) \in Nat
         /\ DayOf(when[c]) \in Nat
         /\ DayOf(when[c]) <= RangeStart(c)
         /\ RangeStart(c) <= when[c]
<1>1. when[c] \in Nat /\ snap_ts[c] \in Nat
  BY Instants
<1>2. /\ DayOf(when[c]) \in Nat /\ DayOf(when[c]) <= when[c]
      /\ DayOf(snap_ts[c]) <= snap_ts[c]
  BY <1>1, DayStarts
<1> QED
  BY <1>1, <1>2 DEF RangeStart, SnapOfDay

\* The range that is fetched does not end before it starts.
LEMMA FetchedRange ==
  ASSUME TypeOK, NEW c \in Clients, SnapOfDay(c),
         NEW a \in 0 .. Len(table), IsRank(table, a, RangeStart(c)),
         NEW b \in 0 .. Len(table), IsRank(table, b, when[c])
  PROVE  a <= b
<1>1. when[c] \in Nat /\ Len(table) \in Nat
  BY Instants
<1>2. RangeStart(c) \in Nat /\ RangeStart(c) <= when[c]
  BY RangeOfDay
<1> SUFFICES ASSUME a > b PROVE FALSE
  BY <1>1
<1>3. a \in 1 .. Len(table)
  BY <1>1
<1>4. table[a].ts \in Nat
  BY <1>3, RowFields
<1>5. table[a].ts < RangeStart(c)
  BY <1>1, <1>3 DEF IsRank
<1>6. ~(table[a].ts < when[c])
  BY <1>1, <1>3 DEF IsRank
<1> QED
  BY <1>1, <1>2, <1>4, <1>5, <1>6

\* The range that is fetched starts where the book in hand ends.
LEMMA FetchCompletes ==
  ASSUME TypeOK, NEW c \in Clients, Fetch(c), SnapOfDay(c), Founded(c)
  PROVE  Completes(c)'
<1>1. PICK a, b \in 0 .. Len(table) :
        /\ IsRank(table, a, RangeStart(c))
        /\ IsRank(table, b, when[c])
        /\ it' = [it EXCEPT ![c] = a]
        /\ hi' = [hi EXCEPT ![c] = b]
  BY DEF Fetch
<1>2. table' = table /\ when' = when /\ engine' = engine /\ it'[c] = a /\ hi'[c] = b
  BY <1>1 DEF Fetch, TypeOK, db
<1>3. when[c] \in Nat /\ snap_ts[c] \in Nat /\ Len(table) \in Nat
  BY Instants
<1>4. /\ RangeStart(c) \in Nat
      /\ DayOf(when[c]) \in Nat
      /\ DayOf(when[c]) <= RangeStart(c)
      /\ RangeStart(c) <= when[c]
  BY RangeOfDay
<1>5. engine[c] = BookAfter(table, a, DayOf(when[c]))
  <2>1. CASE snap_ts[c] = 0
    <3>1. RangeStart(c) = DayOf(when[c]) /\ engine[c] = EmptyEngine
      BY <2>1 DEF RangeStart, Founded
    <3>2. a > 0 => DayOf(table[a].ts) # DayOf(when[c])
      <4> SUFFICES ASSUME a > 0 PROVE DayOf(table[a].ts) # DayOf(when[c])
        OBVIOUS
      <4>1. a \in 1 .. Len(table)
        BY <1>3
      <4>2. table[a].ts \in Nat
        BY <4>1, RowFields
      <4>3. table[a].ts < DayOf(when[c])
        BY <1>1, <3>1, <4>1 DEF IsRank
      <4>4. DayOf(table[a].ts) <= table[a].ts /\ DayOf(table[a].ts) \in Nat
        BY <4>2, DayStarts
      <4> QED
        BY <1>4, <4>2, <4>3, <4>4
    <3> QED
      BY <3>1, <3>2 DEF BookAfter
  <2>2. CASE snap_ts[c] # 0
    <3>1. RangeStart(c) = snap_ts[c]
      BY <2>2 DEF RangeStart
    <3>2. PICK n \in 0 .. Len(table) : /\ IsRank(table, n, snap_ts[c])
                                      /\ engine[c] = BookAfter(table, n, DayOf(snap_ts[c]))
      BY <2>2 DEF Founded, IsBookAt
    <3>3. n = a
      BY <1>1, <1>3, <3>1, <3>2, OneRank
    <3> QED
      BY <2>2, <3>2, <3>3 DEF SnapOfDay
  <2> QED
    BY <2>1, <2>2
<1>6. a <= b
  BY <1>1, FetchedRange
<1>7. ASSUME NEW i \in 1 .. Len(table), i > a PROVE table[i].ts >= DayOf(when[c])
  <2>1. table[i].ts \in Nat
    BY RowFields
  <2>2. ~(table[i].ts < RangeStart(c))
    BY <1>1, <1>3, <1>7 DEF IsRank
  <2> QED
    BY <1>4, <2>1, <2>2
<1> QED
  BY <1>1, <1>2, <1>5, <1>6, <1>7 DEF Completes

\* The next row is of the requested day, so its book is that of the rows run so far.
LEMMA RunCompletes ==
  ASSUME TypeOK, Chained, NEW c \in Clients, RunOrder(c), Completes(c)
  PROVE  Completes(c)'
<1> DEFINE j == it[c] + 1
<1>1. /\ when' = when /\ hi' = hi /\ table' = table
      /\ it[c] < hi[c] /\ it'[c] = j
      /\ engine'[c] = run_order(engine[c], table[j].rec)
  BY DEF RunOrder, TypeOK, db
<1>2. when[c] \in Nat /\ it[c] \in Nat /\ hi[c] \in Nat /\ Len(table) \in Nat
  BY Instants
<1>3. j \in 1 .. Len(table) /\ j <= hi[c] /\ j > 0 /\ j - 1 = it[c] /\ j > it[c] /\ j \in Nat
  BY <1>1, <1>2 DEF Completes, IsRank
<1> HIDE DEF j
<1>4. DayOf(table[j].ts) = DayOf(when[c])
  <2>1. table[j].ts \in Nat
    BY <1>3, RowFields
  <2>2. DayOf(when[c]) <= table[j].ts
    <3>1. DayOf(when[c]) \in Nat
      BY <1>2, DayStarts
    <3> QED
      BY <1>3, <2>1, <3>1 DEF Completes
  <2>3. table[j].ts < when[c]
    BY <1>3 DEF Completes, IsRank
  <2> QED
    BY <1>2, <2>1, <2>2, <2>3, SameDay
<1>5. engine'[c] = BookAfter(table, j, DayOf(when[c]))
  <2>1. table[j].book = run_order(BookAfter(table, j - 1, DayOf(table[j].ts)), table[j].rec)
    BY <1>3 DEF Chained
  <2>2. BookAfter(table, j, DayOf(when[c])) = table[j].book
    BY <1>3, <1>4 DEF BookAfter
  <2> QED
    BY <1>1, <1>3, <1>4, <2>1, <2>2 DEF Completes
<1>6. \A i \in 1 .. Len(table) : i > j => table[i].ts >= DayOf(when[c])
  BY <1>2, <1>3 DEF Completes
<1> QED
  BY <1>1, <1>3, <1>5, <1>6 DEF Completes

\* At the end of the loop the engine holds the book of the requested instant.
LEMMA CompletedBook ==
  ASSUME NEW c \in Clients, it[c] = hi[c], Completes(c)
  PROVE  IsBookAt(table, engine[c], when[c])
<1>1. hi[c] \in 0 .. Len(table)
  BY DEF Completes, IsRank
<1> QED
  BY <1>1 DEF Completes, IsBookAt

-----------------------------------------------------------------------------
(***************************************************************************)
(* The inductive invariant, for any request: on a snapshot boundary or     *)
(* not, over or not, with damaged snapshots.  A sound snapshot is exact    *)
(* and of an instant that is over, so that no later order can change it;   *)
(* and a client that started from a sound snapshot, or from none, holds at *)
(* each point of main a book that the rows still to be run complete.       *)
(***************************************************************************)
SoundSnaps ==
  \A k \in Keys : snaps[k] # Absent /\ sound[k] =>
    k # 0 /\ k <= horizon /\ IsBookAt(table, snaps[k].state, k)

Asked(c) == pc[c] # "idle" => when[c] \in Whens /\ (settled[c] => when[c] <= horizon)

Fresh(c) == pc[c] \in {"idle", "prefix"} => engine[c] = EmptyEngine /\ snap_ts[c] = 0 /\ clean[c]

\* A request without the point-in-time option never comes near a snapshot.
Plain(c) == pc[c] # "idle" /\ ~pit[c] => clean[c] /\ pc[c] \notin {"prefix", "blob"}

Based(c) == pc[c] = "fetch" /\ clean[c] => Founded(c) /\ snap_ts[c] <= horizon

Ranged(c) ==
  pc[c] \in {"run", "done"} =>
    /\ it[c] \in lo[c] .. hi[c]
    /\ hi[c] <= Len(table)
    /\ \A i \in 1 .. Len(table) :
         /\ i \in lo[c] + 1 .. hi[c] => InRange(c, table[i].ts)
         /\ settled[c] /\ InRange(c, table[i].ts) => i \in lo[c] + 1 .. hi[c]

Running(c) == pc[c] = "run" /\ settled[c] /\ clean[c] => Completes(c)

Answered(c) == pc[c] = "done" /\ settled[c] /\ clean[c] => IsBookAt(table, engine[c], when[c])

Asking(c)    == Asked(c) /\ Fresh(c) /\ Plain(c) /\ SnapOfDay(c)
Answering(c) == Based(c) /\ Ranged(c) /\ Running(c) /\ Answered(c)

ClientInv(c) == Asking(c) /\ Answering(c)

SnapInv == Chained /\ SoundSnaps /\ \A c \in Clients : ClientInv(c)

LEMMA InitSnapInv == Init => SnapInv
BY DEF Init, SnapInv, Chained, SoundSnaps, ClientInv, Asking, Answering, Asked, Fresh, Plain,
   SnapOfDay, Based, Ranged, Running, Answered

\* A new row is stamped after everything that is over.
LEMMA IngestRanged ==
  ASSUME TypeOK, Chained, NEW ts \in Stamps, NEW rec \in Records, Ingest(ts, rec),
         NEW c \in Clients, Asked(c), Ranged(c)
  PROVE  Ranged(c)'
<1>1. UNCHANGED <<pc, locals>>
  BY DEF Ingest
<1>2. SUFFICES ASSUME pc[c] \in {"run", "done"}
               PROVE  /\ it[c] \in lo[c] .. hi[c]
                      /\ hi[c] <= Len(table')
                      /\ \A i \in 1 .. Len(table') :
                           /\ i \in lo[c] + 1 .. hi[c] => InRange(c, table'[i].ts)
                           /\ settled[c] /\ InRange(c, table'[i].ts) => i \in lo[c] + 1 .. hi[c]
  BY <1>1 DEF Ranged, InRange, locals
<1>3. /\ when[c] \in Nat /\ it[c] \in Nat /\ lo[c] \in Nat /\ hi[c] \in Nat /\ horizon \in Nat
      /\ hi[c] <= Len(table) /\ it[c] \in lo[c] .. hi[c]
  BY <1>2, Instants DEF TypeOK, Ranged
<1>4. /\ ts \in Nat /\ ts >= horizon /\ Len(table) \in Nat /\ Len(table') = Len(table) + 1
      /\ \A i \in 1 .. Len(table) : table'[i] = table[i]
      /\ table'[Len(table) + 1].ts = ts
  BY IngestKeeps
<1>5. ASSUME NEW i \in 1 .. Len(table')
      PROVE  /\ i \in lo[c] + 1 .. hi[c] => InRange(c, table'[i].ts)
             /\ settled[c] /\ InRange(c, table'[i].ts) => i \in lo[c] + 1 .. hi[c]
  <2>1. CASE i \in 1 .. Len(table)
    BY <1>2, <1>4, <2>1 DEF Ranged
  <2>2. CASE i = Len(table) + 1
    <3>1. ~(i \in lo[c] + 1 .. hi[c])
      BY <1>3, <1>4, <2>2
    <3>2. settled[c] => when[c] <= horizon
      BY <1>2 DEF Asked
    <3>3. settled[c] => ~InRange(c, ts)
      BY <1>3, <1>4, <3>2 DEF InRange
    <3> QED
      BY <1>4, <2>2, <3>1, <3>3
  <2> QED
    BY <1>4, <2>1, <2>2
<1>6. hi[c] <= Len(table')
  BY <1>3, <1>4
<1> QED
  BY <1>3, <1>5, <1>6

LEMMA IngestSnapInv ==
  ASSUME TypeOK, SnapInv, NEW ts \in Stamps, NEW rec \in Records, Ingest(ts, rec)
  PROVE  SnapInv'
<1>1. UNCHANGED <<horizon, snaps, sound, pc, locals>> /\ Chained
  BY DEF Ingest, SnapInv
<1>2. \A t \in Nat : t <= horizon => \A e : IsBookAt(table, e, t) => IsBookAt(table', e, t)
  BY <1>1, IngestKeeps
<1>3. SoundSnaps'
  <2> SUFFICES ASSUME NEW k \in Keys, snaps[k] # Absent, sound[k]
               PROVE  k # 0 /\ k <= horizon /\ IsBookAt(table', snaps[k].state, k)
    BY <1>1 DEF SoundSnaps
  <2> QED
    BY <1>2, KeysNat DEF SnapInv, SoundSnaps
<1>4. ASSUME NEW c \in Clients PROVE ClientInv(c)'
  <2>1. /\ when[c] \in Nat /\ snap_ts[c] \in Nat /\ horizon \in Nat
        /\ Asking(c) /\ Answering(c)
    BY Instants DEF SnapInv, ClientInv, TypeOK
  <2>2. Asking(c)'
    BY <1>1, <2>1 DEF Asking, Asked, Fresh, Plain, SnapOfDay, locals
  <2>3. Based(c)'
    <3>1. Founded(c) /\ snap_ts[c] <= horizon => Founded(c)'
      BY <1>1, <1>2, <2>1 DEF Founded, locals
    <3> QED
      BY <1>1, <2>1, <3>1 DEF Answering, Based, locals
  <2>4. Ranged(c)'
    BY <1>1, <2>1, IngestRanged DEF Asking, Answering
  <2>5. pc[c] \in {"run", "done"} /\ settled[c] => when[c] <= horizon
    BY <2>1 DEF Asking, Asked
  <2>6. Running(c)'
    <3>1. pc[c] = "run" /\ settled[c] /\ clean[c] => Completes(c)'
      BY <1>1, <2>1, <2>5, IngestCompletes DEF Answering, Running
    <3> QED
      BY <1>1, <3>1 DEF Running, locals
  <2>7. Answered(c)'
    <3>1. pc[c] = "done" /\ settled[c] /\ clean[c] => IsBookAt(table', engine[c], when[c])
      BY <1>2, <2>1, <2>5 DEF Answering, Answered
    <3> QED
      BY <1>1, <3>1 DEF Answered, locals
  <2> QED
    BY <2>2, <2>3, <2>4, <2>6, <2>7 DEF ClientInv, Answering
<1> QED
  BY <1>1, <1>3, <1>4, IngestKeeps DEF SnapInv

\* What a step that leaves the rows and a client's own state alone keeps for that client.
Untouched(c) ==
  /\ pc'[c] = pc[c]
  /\ when'[c] = when[c]
  /\ pit'[c] = pit[c]
  /\ snap_ts'[c] = snap_ts[c]
  /\ engine'[c] = engine[c]
  /\ lo'[c] = lo[c]
  /\ it'[c] = it[c]
  /\ hi'[c] = hi[c]
  /\ settled'[c] = settled[c]
  /\ clean'[c] = clean[c]

LEMMA UntouchedClient ==
  ASSUME TypeOK, TypeOK', NEW c \in Clients, ClientInv(c), Untouched(c),
         table' = table, horizon <= horizon'
  PROVE  ClientInv(c)'
<1>1. horizon \in Nat /\ horizon' \in Nat /\ when[c] \in Nat /\ snap_ts[c] \in Nat
  BY Instants DEF TypeOK
<1>2. Asking(c)'
  BY <1>1 DEF ClientInv, Untouched, Asking, Asked, Fresh, Plain, SnapOfDay
<1>3. Based(c)'
  BY <1>1 DEF ClientInv, Untouched, Answering, Based, Founded
<1>4. Ranged(c)'
  BY DEF ClientInv, Untouched, Answering, Ranged, InRange
<1>5. Running(c)' /\ Answered(c)'
  BY DEF ClientInv, Untouched, Answering, Running, Completes, Answered
<1> QED
  BY <1>2, <1>3, <1>4, <1>5 DEF ClientInv, Answering

\* A step of one client that leaves the database alone.
LEMMA LocalStep ==
  ASSUME TypeOK, TypeOK', SnapInv, NEW c \in Clients, UNCHANGED db,
         \A d \in Clients \ {c} : Untouched(d),
         ClientInv(c)'
  PROVE  SnapInv'
<1>1. Chained' /\ SoundSnaps'
  BY DEF SnapInv, Chained, SoundSnaps, db
<1>2. horizon <= horizon'
  BY DEF TypeOK, db
<1>3. ASSUME NEW d \in Clients \ {c} PROVE ClientInv(d)'
  BY <1>2, UntouchedClient DEF SnapInv, db
<1> QED
  BY <1>1, <1>3 DEF SnapInv

LEMMA StartSnapInv ==
  ASSUME TypeOK, TypeOK', SnapInv,
         NEW c \in Clients, NEW w \in Whens, NEW p \in BOOLEAN, Start(c, w, p)
  PROVE  SnapInv'
<1>1. UNCHANGED db /\ \A d \in Clients \ {c} : Untouched(d)
  BY DEF Start, Untouched, TypeOK
<1>2. /\ pc[c] = "idle"
      /\ pc'[c] = IF p THEN "prefix" ELSE "fetch"
      /\ when'[c] = w /\ pit'[c] = p
      /\ settled'[c] = (w <= horizon)
      /\ snap_ts'[c] = snap_ts[c] /\ engine'[c] = engine[c] /\ clean'[c] = clean[c]
  BY DEF Start, TypeOK
<1>3. engine[c] = EmptyEngine /\ snap_ts[c] = 0 /\ clean[c]
  BY <1>2 DEF SnapInv, ClientInv, Asking, Fresh
<1>4. Asking(c)'
  BY <1>1, <1>2, <1>3 DEF Asking, Asked, Fresh, Plain, SnapOfDay, db
<1>5. Answering(c)'
  <2>1. horizon' \in Nat
    BY DEF TypeOK
  <2> QED
    BY <1>2, <1>3, <2>1 DEF Answering, Based, Founded, Ranged, Running, Answered
<1> QED
  BY <1>1, <1>4, <1>5, LocalStep DEF ClientInv

LEMMA GoneSnapInv ==
  ASSUME TypeOK, TypeOK', SnapInv, NEW c \in Clients, Gone(c)
  PROVE  SnapInv'
<1>1. UNCHANGED db /\ \A d \in Clients \ {c} : Untouched(d)
  BY DEF Gone, Untouched, TypeOK
<1>2. pc'[c] = "idle" /\ engine'[c] = EmptyEngine /\ snap_ts'[c] = 0 /\ clean'[c] = TRUE
  BY DEF Gone, TypeOK
<1>3. ClientInv(c)'
  BY <1>2 DEF ClientInv, Asking, Answering, Asked, Fresh, Plain, SnapOfDay, Based, Ranged, Running, Answered
<1> QED
  BY <1>1, <1>3, LocalStep

\* No snapshot, no workable snapshot, or the latest workable one: of the requested day,
\* and not after the requested instant.
LEMMA PrefixSnapInv ==
  ASSUME TypeOK, TypeOK', SnapInv, NEW c \in Clients,
         NoSnapshots(c) \/ NullMatch(c) \/ \E k \in Keys : Match(c, k)
  PROVE  SnapInv'
<1>1. UNCHANGED db /\ \A d \in Clients \ {c} : Untouched(d)
  BY DEF NoSnapshots, NullMatch, Match, Untouched, TypeOK, locals
<1>2. /\ pc[c] = "prefix" /\ when[c] \in Whens /\ (settled[c] => when[c] <= horizon)
      /\ engine[c] = EmptyEngine /\ snap_ts[c] = 0 /\ pit[c] /\ horizon \in Nat
  BY DEF NoSnapshots, NullMatch, Match, SnapInv, ClientInv, Asking, Asked, Fresh, Plain, TypeOK
<1>3. CASE NoSnapshots(c) \/ NullMatch(c)
  <2>1. pc'[c] \in {"fetch", "aborted"} /\ UNCHANGED locals
    BY <1>3 DEF NoSnapshots, NullMatch, TypeOK
  <2>2. ClientInv(c)'
    BY <1>1, <1>2, <2>1
       DEF ClientInv, Asking, Answering, Asked, Fresh, Plain, SnapOfDay, Based, Founded, Ranged,
           Running, Answered, db, locals
  <2> QED
    BY <1>1, <2>2, LocalStep
<1>4. ASSUME NEW k \in Keys, Match(c, k) PROVE SnapInv'
  <2>1. /\ pc'[c] = "blob" /\ when'[c] = when[c] /\ snap_ts'[c] = k
        /\ pit'[c] = pit[c] /\ settled'[c] = settled[c]
    BY <1>4 DEF Match, TypeOK
  <2>2. DayOf(k) = DayOf(when[c]) /\ k <= get_snapshot_timestamp(when[c])
    BY <1>4 DEF Match, Workable, DayKeys
  <2>3. when[c] \in Nat /\ k \in Nat
    BY Instants, KeysNat
  <2>4. get_snapshot_timestamp(when[c]) \in Nat /\ get_snapshot_timestamp(when[c]) <= when[c]
    <3>1. when[c] % Period \in 0 .. Period - 1
      BY <2>3, DivMod, TimeAssumption
    <3>2. get_snapshot_timestamp(when[c]) \in Keys
      BY <1>2 DEF Keys
    <3> QED
      BY <2>3, <3>1, <3>2, KeysNat, TimeAssumption DEF get_snapshot_timestamp
  <2>5. SnapOfDay(c)'
    BY <2>1, <2>2, <2>3, <2>4 DEF SnapOfDay
  <2>6. ClientInv(c)'
    BY <1>1, <1>2, <2>1, <2>5
       DEF ClientInv, Asking, Answering, Asked, Fresh, Plain, Based, Ranged, Running, Answered, db
  <2> QED
    BY <1>1, <2>6, LocalStep
<1> QED
  BY <1>3, <1>4

\* What is restored from a sound snapshot is the book of its instant.
LEMMA BlobSnapInv ==
  ASSUME TypeOK, TypeOK', InHand, SnapInv, NEW c \in Clients,
         RestoreBlob(c) \/ DeserializeFails(c)
  PROVE  SnapInv'
<1>1. UNCHANGED db /\ \A d \in Clients \ {c} : Untouched(d)
  BY DEF RestoreBlob, DeserializeFails, Untouched, TypeOK
<1>2. /\ pc[c] = "blob" /\ pc'[c] = "fetch" /\ ClientInv(c) /\ pit[c]
      /\ when'[c] = when[c] /\ pit'[c] = pit[c] /\ settled'[c] = settled[c]
      /\ snap_ts'[c] \in {snap_ts[c], 0}
  BY DEF RestoreBlob, DeserializeFails, SnapInv, ClientInv, Asking, Plain, TypeOK
<1>3. Asking(c)'
  BY <1>1, <1>2 DEF ClientInv, Asking, Asked, Fresh, Plain, SnapOfDay, db
<1>4. Based(c)'
  <2>1. CASE RestoreBlob(c)
    <3>1. /\ engine'[c] = snaps[snap_ts[c]].state /\ clean'[c] = sound[snap_ts[c]]
          /\ snap_ts'[c] = snap_ts[c]
      BY <2>1 DEF RestoreBlob, TypeOK
    <3>2. snap_ts[c] \in Keys /\ snaps[snap_ts[c]] # Absent
      BY <1>2 DEF InHand, Chosen
    <3>3. sound[snap_ts[c]] => /\ snap_ts[c] # 0 /\ snap_ts[c] <= horizon
                               /\ IsBookAt(table, snaps[snap_ts[c]].state, snap_ts[c])
      BY <3>2 DEF SnapInv, SoundSnaps
    <3> QED
      BY <1>1, <3>1, <3>3 DEF Based, Founded, db
  <2>2. CASE DeserializeFails(c)
    <3>1. ~clean'[c]
      BY <2>2 DEF DeserializeFails, TypeOK
    <3> QED
      BY <3>1 DEF Based
  <2> QED
    BY <2>1, <2>2
<1>5. Answering(c)'
  BY <1>2, <1>4 DEF Answering, Ranged, Running, Answered
<1> QED
  BY <1>1, <1>3, <1>5, LocalStep DEF ClientInv

LEMMA FetchRanged ==
  ASSUME TypeOK, NEW c \in Clients, Fetch(c), SnapOfDay(c)
  PROVE  Ranged(c)'
<1>1. PICK a, b \in 0 .. Len(table) :
        /\ IsRank(table, a, RangeStart(c))
        /\ IsRank(table, b, when[c])
        /\ lo' = [lo EXCEPT ![c] = a]
        /\ it' = [it EXCEPT ![c] = a]
        /\ hi' = [hi EXCEPT ![c] = b]
  BY DEF Fetch
<1>2. /\ lo'[c] = a /\ it'[c] = a /\ hi'[c] = b /\ table' = table
      /\ when' = when /\ snap_ts' = snap_ts
  BY <1>1 DEF Fetch, TypeOK, db
<1>3. a <= b /\ a \in Nat /\ b \in Nat /\ Len(table) \in Nat /\ b <= Len(table)
  BY <1>1, FetchedRange, Instants
<1>4. /\ when[c] \in Nat /\ snap_ts[c] \in Nat
      /\ RangeStart(c) \in Nat /\ DayOf(when[c]) \in Nat /\ DayOf(when[c]) <= RangeStart(c)
  BY Instants, RangeOfDay
<1>5. snap_ts[c] <= RangeStart(c) /\ RangeStart(c) \in {snap_ts[c], DayOf(when[c])}
  BY <1>4 DEF RangeStart
<1>6. ASSUME NEW i \in 1 .. Len(table)
      PROVE  i \in a + 1 .. b <=> InRange(c, table[i].ts)
  <2>1. table[i].ts \in Nat
    BY RowFields
  <2>2. (i <= a <=> table[i].ts < RangeStart(c)) /\ (i <= b <=> table[i].ts < when[c])
    BY <1>1 DEF IsRank
  <2>3. InRange(c, table[i].ts) <=> RangeStart(c) <= table[i].ts /\ table[i].ts < when[c]
    BY <1>4, <1>5, <2>1 DEF InRange
  <2>4. i \in a + 1 .. b <=> ~(i <= a) /\ i <= b
    BY <1>3
  <2> QED
    BY <1>4, <2>1, <2>2, <2>3, <2>4
<1>7. \A t : InRange(c, t)' <=> InRange(c, t)
  BY <1>2 DEF InRange
<1> QED
  BY <1>2, <1>3, <1>6, <1>7 DEF Ranged

LEMMA FetchSnapInv ==
  ASSUME TypeOK, TypeOK', SnapInv, NEW c \in Clients, Fetch(c)
  PROVE  SnapInv'
<1>1. UNCHANGED db /\ \A d \in Clients \ {c} : Untouched(d)
  BY DEF Fetch, Untouched, TypeOK
<1>2. /\ pc[c] = "fetch" /\ pc'[c] = "run" /\ UNCHANGED <<when, pit, snap_ts, settled, clean>>
      /\ Asking(c) /\ Based(c)
  BY DEF Fetch, TypeOK, SnapInv, ClientInv, Answering
<1>3. Asking(c)'
  BY <1>1, <1>2 DEF Asking, Asked, Fresh, Plain, SnapOfDay, db
<1>4. clean[c] => Completes(c)'
  BY <1>2, FetchCompletes DEF Asking, Based
<1>5. Ranged(c)'
  BY <1>2, FetchRanged DEF Asking
<1>6. Answering(c)'
  BY <1>2, <1>4, <1>5 DEF Answering, Based, Running, Answered
<1> QED
  BY <1>1, <1>3, <1>6, LocalStep DEF ClientInv

LEMMA RunSnapInv ==
  ASSUME TypeOK, TypeOK', SnapInv, NEW c \in Clients, RunOrder(c)
  PROVE  SnapInv'
<1>1. UNCHANGED db /\ \A d \in Clients \ {c} : Untouched(d)
  BY DEF RunOrder, Untouched, TypeOK
<1>2. /\ pc[c] = "run" /\ pc'[c] = "run" /\ UNCHANGED <<when, pit, snap_ts, lo, hi, settled, clean>>
      /\ it'[c] = it[c] + 1 /\ it[c] < hi[c] /\ it[c] \in Nat /\ hi[c] \in Nat /\ lo[c] \in Nat
      /\ Asking(c) /\ Answering(c)
  BY Instants DEF RunOrder, TypeOK, SnapInv, ClientInv
<1>3. Asking(c)'
  BY <1>1, <1>2 DEF Asking, Asked, Fresh, Plain, SnapOfDay, db
<1>4. settled[c] /\ clean[c] => Completes(c)'
  BY <1>2, RunCompletes DEF SnapInv, Answering, Running
<1>5. Ranged(c)'
  <2>1. it[c] + 1 \in lo[c] .. hi[c]
    BY <1>2 DEF Answering, Ranged
  <2> QED
    BY <1>1, <1>2, <2>1 DEF Answering, Ranged, InRange, db
<1>6. Answering(c)'
  BY <1>2, <1>4, <1>5 DEF Answering, Based, Running, Answered
<1> QED
  BY <1>1, <1>3, <1>6, LocalStep DEF ClientInv

LEMMA EndOfRun ==
  ASSUME TypeOK, SnapInv, NEW c \in Clients, pc[c] = "run", it[c] = hi[c]
  PROVE  /\ when[c] \in Whens
         /\ settled[c] /\ clean[c] => IsBookAt(table, engine[c], when[c]) /\ when[c] <= horizon
BY CompletedBook DEF SnapInv, ClientInv, Asking, Answering, Running, Asked

\* main leaves the loop; its own state does not change any more.
LEMMA EndedClient ==
  ASSUME TypeOK, SnapInv, NEW c \in Clients, pc[c] = "run", it[c] = hi[c], pc'[c] = "done",
         UNCHANGED <<table, horizon, locals>>
  PROVE  ClientInv(c)'
<1>1. Asking(c) /\ Answering(c)
  BY DEF SnapInv, ClientInv
<1>2. Asking(c)'
  BY <1>1 DEF Asking, Asked, Fresh, Plain, SnapOfDay, locals
<1>3. Ranged(c)'
  BY <1>1 DEF Answering, Ranged, InRange, locals
<1>4. Answered(c)'
  BY EndOfRun DEF Answered, locals
<1> QED
  BY <1>2, <1>3, <1>4 DEF ClientInv, Answering, Based, Running

LEMMA SkipSnapInv ==
  ASSUME TypeOK, TypeOK', SnapInv, NEW c \in Clients, SkipStore(c)
  PROVE  SnapInv'
<1>1. UNCHANGED db /\ \A d \in Clients \ {c} : Untouched(d)
  BY DEF SkipStore, Untouched, TypeOK, locals
<1>2. ClientInv(c)'
  BY EndedClient DEF SkipStore, TypeOK, db
<1> QED
  BY <1>1, <1>2, LocalStep

\* A snapshot that counts as sound is the book of its key.
LEMMA StoredSnapshot ==
  ASSUME TypeOK, SnapInv, NEW c \in Clients, store_snapshot(c)
  PROVE  LET key == get_snapshot_timestamp(when[c])
             b   == [state |-> engine[c], readable |-> TRUE]
         IN  /\ key \in Keys /\ b # Absent
             /\ \A k \in Keys : /\ snaps'[k] = IF k = key THEN b ELSE snaps[k]
                                /\ k # key => sound'[k] = sound[k]
             /\ sound'[key] = (clean[c] /\ settled[c] /\ when[c] = key)
             /\ sound'[key] => key # 0 /\ key <= horizon /\ IsBookAt(table, engine[c], key)
<1> DEFINE key == get_snapshot_timestamp(when[c])
           b   == [state |-> engine[c], readable |-> TRUE]
<1>1. pc[c] = "run" /\ it[c] = hi[c]
  BY DEF store_snapshot
<1>2. /\ when[c] \in Whens
      /\ settled[c] /\ clean[c] => IsBookAt(table, engine[c], when[c]) /\ when[c] <= horizon
  BY <1>1, EndOfRun
<1>3. key \in Keys /\ when[c] # 0
  BY <1>2, TimeAssumption DEF Keys
<1>4. b # Absent
  <2>1. b \in [state : Engines, readable : BOOLEAN]
    BY DEF TypeOK
  <2> QED
    BY <2>1, TimeAssumption
<1>5. /\ snaps' = [snaps EXCEPT ![key] = b]
      /\ sound' = [sound EXCEPT ![key] = clean[c] /\ settled[c] /\ when[c] = key]
  BY DEF store_snapshot, Stores
<1> HIDE DEF key, b
<1>6. /\ \A k \in Keys : /\ snaps'[k] = IF k = key THEN b ELSE snaps[k]
                         /\ k # key => sound'[k] = sound[k]
      /\ sound'[key] = (clean[c] /\ settled[c] /\ when[c] = key)
  BY <1>3, <1>5 DEF TypeOK
<1>7. sound'[key] => key # 0 /\ key <= horizon /\ IsBookAt(table, engine[c], key)
  BY <1>2, <1>3, <1>6
<1> QED
  BY <1>3, <1>4, <1>6, <1>7 DEF key, b

LEMMA StoreSnapInv ==
  ASSUME TypeOK, TypeOK', SnapInv, NEW c \in Clients, store_snapshot(c)
  PROVE  SnapInv'
<1>1. UNCHANGED <<table, horizon, locals>> /\ \A d \in Clients \ {c} : Untouched(d)
  BY DEF store_snapshot, Stores, Untouched, TypeOK, locals
<1>2. Chained'
  BY <1>1 DEF SnapInv, Chained
<1>3. SoundSnaps'
  <2> SUFFICES ASSUME NEW k \in Keys, snaps'[k] # Absent, sound'[k]
               PROVE  k # 0 /\ k <= horizon /\ IsBookAt(table, snaps'[k].state, k)
    BY <1>1 DEF SoundSnaps
  <2>1. CASE k = get_snapshot_timestamp(when[c])
    <3>1. snaps'[k].state = engine[c]
      <4>1. snaps'[k] = [state |-> engine[c], readable |-> TRUE]
        BY <2>1, StoredSnapshot
      <4> QED
        BY <4>1
    <3>2. k # 0 /\ k <= horizon /\ IsBookAt(table, engine[c], k)
      BY <2>1, StoredSnapshot
    <3> QED
      BY <3>1, <3>2
  <2>2. CASE k # get_snapshot_timestamp(when[c])
    BY <2>2, StoredSnapshot DEF SnapInv, SoundSnaps
  <2> QED
    BY <2>1, <2>2
<1>4. ASSUME NEW d \in Clients \ {c} PROVE ClientInv(d)'
  <2>1. horizon <= horizon'
    BY <1>1 DEF TypeOK
  <2> QED
    BY <1>1, <2>1, UntouchedClient DEF SnapInv
<1>5. ClientInv(c)'
  BY <1>1, EndedClient DEF store_snapshot, Stores, TypeOK
<1> QED
  BY <1>2, <1>3, <1>4, <1>5 DEF SnapInv

LEMMA SnapStep == TypeOK /\ InHand /\ SnapInv /\ TypeOK' /\ [Next]_vars => SnapInv'
<1> SUFFICES ASSUME TypeOK, InHand, SnapInv, TypeOK', [Next]_vars PROVE SnapInv'
  OBVIOUS
<1>1. ASSUME NEW ts \in Stamps, NEW rec \in Records, Ingest(ts, rec) PROVE SnapInv'
  BY <1>1, IngestSnapInv
<1>2. CASE (\E t \in Whens : Settle(t)) \/ (\E k \in Keys : Damage(k)) \/ UNCHANGED vars
  <2>1. table' = table /\ sound' = sound /\ \A c \in Clients : Untouched(c)
    BY <1>2 DEF Settle, Damage, Untouched, vars, db, locals
  <2>2. horizon <= horizon' /\ horizon \in Nat /\ horizon' \in Nat
    BY <1>2, TimeAssumption DEF Settle, Damage, TypeOK, vars, db
  <2>3. \A k \in Keys : snaps'[k] # Absent => snaps[k] # Absent /\ snaps'[k].state = snaps[k].state
    <3>1. ASSUME NEW j \in Keys, Damage(j)
          PROVE  \A k \in Keys : snaps'[k] # Absent => snaps[k] # Absent /\ snaps'[k].state = snaps[k].state
      <4>1. /\ snaps[j] # Absent
            /\ snaps' = [snaps EXCEPT ![j] = [state |-> snaps[j].state, readable |-> FALSE]]
        BY <3>1 DEF Damage
      <4> QED
        BY <4>1 DEF TypeOK
    <3>2. CASE (\E t \in Whens : Settle(t)) \/ UNCHANGED vars
      BY <3>2 DEF Settle, vars, db
    <3> QED
      BY <1>2, <3>1, <3>2
  <2>4. \A c \in Clients : ClientInv(c)'
    BY <2>1, <2>2, UntouchedClient DEF SnapInv
  <2>5. SoundSnaps'
    <3> SUFFICES ASSUME NEW k \in Keys, snaps'[k] # Absent, sound[k]
                 PROVE  k # 0 /\ k <= horizon' /\ IsBookAt(table, snaps'[k].state, k)
      BY <2>1 DEF SoundSnaps
    <3>1. k # 0 /\ k <= horizon /\ IsBookAt(table, snaps[k].state, k)
      BY <2>3 DEF SnapInv, SoundSnaps
    <3>2. k \in Nat
      BY KeysNat
    <3> QED
      BY <2>2, <2>3, <3>1, <3>2
  <2> QED
    BY <2>1, <2>4, <2>5 DEF SnapInv, Chained
<1>3. ASSUME NEW c \in Clients, NEW w \in Whens, NEW p \in BOOLEAN, Start(c, w, p) PROVE SnapInv'
  BY <1>3, StartSnapInv
<1>4. ASSUME NEW c \in Clients, Advance(c) PROVE SnapInv'
  BY <1>4, PrefixSnapInv, BlobSnapInv, FetchSnapInv, RunSnapInv, SkipSnapInv, StoreSnapInv DEF Advance
<1>5. ASSUME NEW c \in Clients, Gone(c) PROVE SnapInv'
  BY <1>5, GoneSnapInv
<1> QED
  BY <1>1, <1>2, <1>3, <1>4, <1>5 DEF Next, Exit, Fail

LEMMA AlwaysSnapInv == Spec => [](TypeOK /\ InHand /\ SnapInv)
<1>1. Init => TypeOK /\ InHand /\ SnapInv
  BY InitType, InitSnapInv DEF Init, InHand, Chosen, Fetched
<1>2. TypeOK /\ InHand /\ SnapInv /\ [Next]_vars => TypeOK' /\ InHand' /\ SnapInv'
  BY TypeStep, SnapStep
<1> QED
  BY <1>1, <1>2, PTL DEF Spec

-----------------------------------------------------------------------------
(***************************************************************************)
(* What holds for any request and any damage to the blobs.                 *)
(***************************************************************************)
\* Among requests between boundaries, requests of the future and truncated blobs: a
\* snapshot taken on its boundary, once that was over, from an exact book is exact, and
\* whoever starts from such a snapshot, or from none, prints the right book of any
\* instant that was over.
THEOREM SoundBooksAlwaysExact == Spec => []SoundBooks
<1>1. SnapInv => SoundBooks
  BY DEF SnapInv, SoundSnaps, ClientInv, Answering, Answered, SoundBooks
<1> QED
  BY <1>1, AlwaysSnapInv, PTL

\* Whatever is requested and whatever is stored, the loop runs the rows from the snapshot
\* in use, or from midnight, to the requested instant, and no other; and all of them, if
\* that instant was over.
THEOREM RunsAlwaysInRange == Spec => []RunsInRange
<1>1. SnapInv => RunsInRange
  BY DEF SnapInv, ClientInv, Answering, Ranged, RunsInRange
<1> QED
  BY <1>1, AlwaysSnapInv, PTL

\* A request without the point-in-time option, for an instant that was over when it
\* started, prints the right book whatever snapshots other requests have left.
THEOREM PlainReplayAlwaysExact == Spec => []PlainReplayExact
<1>1. SnapInv => PlainReplayExact
  BY DEF SnapInv, ClientInv, Asking, Plain, Answering, Answered, PlainReplayExact
<1> QED
  BY <1>1, AlwaysSnapInv, PTL

-----------------------------------------------------------------------------
(***************************************************************************)
(* Requests on snapshot boundaries that are over, and no damaged snapshot: *)
(* every snapshot is sound and every client starts from one or from none.  *)
(***************************************************************************)
\* The conditions under which the snapshot scheme is right.
AlignedRequests == \A w \in Whens : w % Period = 0
OnlyAligned     == AlignedRequests /\ ~FutureRequests /\ ~DamagedBlobs

AllSound ==
  /\ \A k \in Keys : snaps[k] # Absent => sound[k] /\ snaps[k].readable
  /\ \A c \in Clients : clean[c] /\ (pc[c] # "idle" => settled[c])

LEMMA AllSoundStep ==
  ASSUME OnlyAligned
  PROVE  TypeOK /\ InHand /\ SnapInv /\ AllSound /\ [Next]_vars => AllSound'
<1> SUFFICES ASSUME TypeOK, InHand, SnapInv, AllSound, [Next]_vars PROVE AllSound'
  OBVIOUS
<1>1. ASSUME NEW ts \in Stamps, NEW rec \in Records, Ingest(ts, rec) PROVE AllSound'
  BY <1>1 DEF Ingest, AllSound, locals
<1>2. CASE (\E t \in Whens : Settle(t)) \/ (\E k \in Keys : Damage(k)) \/ UNCHANGED vars
  BY <1>2 DEF Settle, Damage, OnlyAligned, AllSound, vars, db, locals
<1>3. ASSUME NEW c \in Clients, NEW w \in Whens, NEW p \in BOOLEAN, Start(c, w, p) PROVE AllSound'
  BY <1>3 DEF Start, OnlyAligned, AllSound, TypeOK, db
<1>4. ASSUME NEW c \in Clients, Advance(c) PROVE AllSound'
  <2>1. pc[c] # "idle"
    BY <1>4 DEF Advance, NoSnapshots, NullMatch, Match, RestoreBlob, DeserializeFails, Fetch,
       RunOrder, SkipStore, store_snapshot
  <2>2. CASE NoSnapshots(c) \/ NullMatch(c) \/ SkipStore(c)
    BY <2>1, <2>2 DEF NoSnapshots, NullMatch, SkipStore, AllSound, TypeOK, db, locals
  <2>3. CASE (\E k \in Keys : Match(c, k)) \/ Fetch(c) \/ RunOrder(c)
    BY <2>1, <2>3 DEF Match, Fetch, RunOrder, AllSound, TypeOK, db
  <2>4. CASE RestoreBlob(c) \/ DeserializeFails(c)
    <3>1. sound[snap_ts[c]] /\ snaps[snap_ts[c]].readable
      BY <2>4 DEF RestoreBlob, DeserializeFails, InHand, Chosen, AllSound
    <3> QED
      BY <2>1, <2>4, <3>1 DEF RestoreBlob, DeserializeFails, AllSound, TypeOK, db
  <2>5. CASE store_snapshot(c)
    <3>1. pc[c] = "run" /\ it[c] = hi[c] /\ clean[c] /\ settled[c]
      BY <2>1, <2>5 DEF store_snapshot, AllSound
    <3>2. get_snapshot_timestamp(when[c]) = when[c]
      <4>1. when[c] \in Whens
        BY <3>1, EndOfRun
      <4>2. when[c] \in Nat /\ when[c] % Period = 0
        BY <4>1, TimeAssumption DEF OnlyAligned, AlignedRequests
      <4> QED
        BY <4>2 DEF get_snapshot_timestamp
    <3>3. \A k \in Keys : snaps'[k] # Absent => sound'[k] /\ snaps'[k].readable
      <4> SUFFICES ASSUME NEW k \in Keys, snaps'[k] # Absent PROVE sound'[k] /\ snaps'[k].readable
        OBVIOUS
      <4>1. CASE k = when[c]
        <5>1. snaps'[k] = [state |-> engine[c], readable |-> TRUE]
          BY <2>5, <3>2, <4>1, StoredSnapshot
        <5>2. sound'[k]
          BY <2>5, <3>1, <3>2, <4>1, StoredSnapshot
        <5> QED
          BY <5>1, <5>2
      <4>2. CASE k # when[c]
        <5>1. snaps'[k] = snaps[k] /\ sound'[k] = sound[k]
          BY <2>5, <3>2, <4>2, StoredSnapshot
        <5> QED
          BY <5>1 DEF AllSound
      <4> QED
        BY <4>1, <4>2
    <3>4. \A d \in Clients : clean'[d] /\ (pc'[d] # "idle" => settled'[d])
      BY <2>1, <2>5 DEF store_snapshot, Stores, AllSound, TypeOK, locals
    <3> QED
      BY <3>3, <3>4 DEF AllSound
  <2> QED
    BY <1>4, <2>2, <2>3, <2>4, <2>5 DEF Advance
<1>5. ASSUME NEW c \in Clients, Gone(c) PROVE AllSound'
  BY <1>5 DEF Gone, AllSound, TypeOK, db
<1> QED
  BY <1>1, <1>2, <1>3, <1>4, <1>5 DEF Next, Exit, Fail

LEMMA AlwaysAllSound ==
  ASSUME OnlyAligned
  PROVE  Spec => []AllSound
<1>1. Init => AllSound
  BY DEF Init, AllSound
<1>2. TypeOK /\ InHand /\ SnapInv /\ AllSound /\ [Next]_vars => AllSound'
  BY AllSoundStep
<1> QED
  BY <1>1, <1>2, AlwaysSnapInv, PTL DEF Spec

\* Requests on snapshot boundaries that are over, answered by any number of racing
\* processes while orders are ingested and processes fail: every printed book is the
\* book that running the whole day up to the requested instant gives.
THEOREM PrintedBookExact ==
  ASSUME OnlyAligned
  PROVE  Spec => []PointInTimeBook
<1>1. AllSound /\ SoundBooks => PointInTimeBook
  BY DEF AllSound, SoundBooks, PointInTimeBook
<1> QED
  BY <1>1, AlwaysAllSound, SoundBooksAlwaysExact, PTL

\* Under the same conditions every stored snapshot is the book of the instant that
\* its key names.
THEOREM StoredBookExact ==
  ASSUME OnlyAligned
  PROVE  Spec => []SnapshotsExact
<1>1. AllSound /\ SoundBooks => SnapshotsExact
  BY DEF AllSound, SoundBooks, SnapshotsExact
<1> QED
  BY <1>1, AlwaysAllSound, SoundBooksAlwaysExact, PTL

\* Under the same conditions no qdb_blob_update changes a stored snapshot: processes
\* that race for a key write the same bytes.
THEOREM RacesAreHarmless ==
  ASSUME OnlyAligned
  PROVE  Spec => SnapshotsStable
<1>1. TypeOK /\ SnapInv /\ AllSound /\ AllSound' /\ [Next]_vars =>
        [\A k \in Keys : snaps[k] # Absent => snaps'[k] = snaps[k]]_vars
  <2> SUFFICES ASSUME TypeOK, SnapInv, AllSound, AllSound', Next, NEW k \in Keys, snaps[k] # Absent
               PROVE  snaps'[k] = snaps[k]
    OBVIOUS
  <2>1. ASSUME NEW c \in Clients, store_snapshot(c) PROVE snaps'[k] = snaps[k]
    <3> DEFINE key == get_snapshot_timestamp(when[c])
    <3>1. CASE k = key
      <4>1. snaps'[k] = [state |-> engine[c], readable |-> TRUE] /\ snaps'[k] # Absent
        BY <2>1, <3>1, StoredSnapshot
      <4>2. IsBookAt(table, engine[c], k)
        BY <2>1, <3>1, <4>1, StoredSnapshot DEF AllSound
      <4>3. snaps[k].readable = TRUE /\ IsBookAt(table, snaps[k].state, k)
        BY SnapFields DEF SnapInv, SoundSnaps, AllSound
      <4>4. snaps[k].state = engine[c]
        BY <4>2, <4>3, OneBook DEF TypeOK
      <4>5. snaps[k] \in [state : Engines, readable : BOOLEAN]
        BY DEF TypeOK, Blob
      <4>6. snaps[k] = [state |-> engine[c], readable |-> TRUE]
        BY <4>3, <4>4, <4>5
      <4> QED
        BY <4>1, <4>6
    <3>2. CASE k # key
      BY <2>1, <3>2, StoredSnapshot
    <3> QED
      BY <3>1, <3>2
  <2>2. ~(\E j \in Keys : Damage(j))
    BY DEF Damage, OnlyAligned
  <2>3. ASSUME NEW c \in Clients, Gone(c) PROVE snaps' = snaps
    BY <2>3 DEF Gone, db
  <2>4. ASSUME NEW c \in Clients, Advance(c), ~store_snapshot(c) PROVE snaps' = snaps
    BY <2>4 DEF Advance, NoSnapshots, NullMatch, Match, RestoreBlob, DeserializeFails, Fetch,
       RunOrder, SkipStore, db
  <2>5. ASSUME NEW c \in Clients, NEW w \in Whens, NEW p \in BOOLEAN, Start(c, w, p)
        PROVE  snaps' = snaps
    BY <2>5 DEF Start, db
  <2>6. ASSUME NEW ts \in Stamps, NEW rec \in Records, Ingest(ts, rec) PROVE snaps' = snaps
    BY <2>6 DEF Ingest
  <2>7. ASSUME NEW t \in Whens, Settle(t) PROVE snaps' = snaps
    BY <2>7 DEF Settle
  <2> QED
    BY <2>1, <2>2, <2>3, <2>4, <2>5, <2>6, <2>7 DEF Next, Exit, Fail
<1> QED
  BY <1>1, AlwaysSnapInv, AlwaysAllSound, PTL DEF Spec, SnapshotsStable

=============================================================================
