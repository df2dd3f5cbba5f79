----------------------------- MODULE MarketFeed -----------------------------
(***************************************************************************)
(* The engine fed by the records of one trading day.                       *)
(*                                                                         *)
(* Every change of the exchange's book produces one order record.  The     *)
(* record reaches run_order, or it is missing from the table (a loss), or  *)
(* the table holds a deletion or a replacement a second time, anywhere     *)
(* later in the day (a redelivery: an ingestion that was retried).  The    *)
(* table may also hold messages that are no order messages.                *)
(***************************************************************************)
EXTENDS OrderEngine

CONSTANTS
  MaxOrderShares,  \* largest order the exchange accepts
  MaxLosses,       \* bound on the records that never reach the engine
  MaxRetries,      \* bound on the records that reach it again
  MaxForeign       \* bound on the records that are no order messages

Displayed == [side : Sides, price : Prices, shares : 1 .. MaxOrderShares]

ASSUME FeedAssumption ==
  /\ MaxOrderShares \in Nat \ {0}
  /\ MaxOrderShares < ShareLimit
  /\ MaxLosses \in Nat
  /\ MaxRetries \in Nat
  /\ MaxForeign \in Nat
  /\ Absent \notin [side : Sides, price : Nat, shares : Nat]

VARIABLES
  book, used,     \* the exchange
  engine,         \* the two order maps
  missed_orders,  \* main's count of run_order calls that returned false
  lost,           \* records that never reached the engine
  retried,        \* records that reached the engine again
  foreign,        \* records that are no order messages
  ended           \* delivered deletions and replacements

Exchange == INSTANCE DisplayedBook

vars == <<book, used, engine, missed_orders, lost, retried, foreign, ended>>

EndRecord == {rec \in OrderRecord : rec.order_type \in {"D", "U"}}

Init ==
  /\ Exchange!Init
  /\ engine = EmptyEngine
  /\ missed_orders = 0
  /\ lost = 0
  /\ retried = 0
  /\ foreign = 0
  /\ ended = {}

-----------------------------------------------------------------------------
\* main's loop body: run the order, count it when run_order returns false.
RunOne(rec) ==
  /\ engine' = run_order(engine, rec)
  /\ missed_orders' =
       IF run_order_result(engine, rec) THEN missed_orders ELSE missed_orders + 1

Deliver(rec) ==
  /\ RunOne(rec)
  /\ ended' = IF rec.order_type \in {"D", "U"} THEN ended \cup {rec} ELSE ended
  /\ UNCHANGED <<lost, retried, foreign>>

Lose ==
  /\ lost < MaxLosses
  /\ lost' = lost + 1
  /\ UNCHANGED <<engine, missed_orders, retried, foreign, ended>>

DeliverOrLose(rec) == Deliver(rec) \/ Lose

AddOrder(r, s, p, n) ==
  /\ Exchange!Add(r, s, p, n)
  /\ \E code \in AddCodes : DeliverOrLose(order_record(code, s = "buy", r, r, n, p))

ReduceOrder(r, n) ==
  /\ Exchange!Reduce(r, n)
  /\ \E code \in ExecuteCodes \cup {"X"} : DeliverOrLose(order_record(code, FALSE, r, r, n, 0))

DeleteOrder(r) ==
  /\ Exchange!Delete(r)
  /\ DeliverOrLose(order_record("D", FALSE, r, r, 0, 0))

ReplaceOrder(r, new_r, p, n) ==
  /\ Exchange!Replace(r, new_r, p, n)
  /\ DeliverOrLose(order_record("U", FALSE, r, new_r, n, p))

Redeliver(rec) ==
  /\ retried < MaxRetries
  /\ RunOne(rec)
  /\ retried' = retried + 1
  /\ UNCHANGED <<book, used, lost, foreign, ended>>

\* A record whose order_type is none of the order messages.
ForeignRecord(r) ==
  /\ foreign < MaxForeign
  /\ RunOne(order_record("P", FALSE, r, r, 0, 0))
  /\ foreign' = foreign + 1
  /\ UNCHANGED <<book, used, lost, retried, ended>>

Next ==
  \/ \E r \in Refs :
       \/ \E s \in Sides, p \in Prices, n \in 1 .. MaxOrderShares : AddOrder(r, s, p, n)
       \/ \E n \in 1 .. MaxOrderShares : ReduceOrder(r, n)
       \/ DeleteOrder(r)
       \/ \E new_r \in Refs, p \in Prices, n \in 1 .. MaxOrderShares :
            ReplaceOrder(r, new_r, p, n)
       \/ ForeignRecord(r)
  \/ \E rec \in ended : Redeliver(rec)

Spec == Init /\ [][Next]_vars

-----------------------------------------------------------------------------
\* The type of the exchange, the engine and the counters.
TypeOK ==
  /\ book \in [Refs -> Displayed \cup {Absent}]
  /\ used \subseteq Refs
  /\ engine \in Engines
  /\ missed_orders \in Nat
  /\ lost \in 0 .. MaxLosses
  /\ retried \in 0 .. MaxRetries
  /\ foreign \in 0 .. MaxForeign
  /\ ended \subseteq EndRecord

\* run_execute_order, run_delete_order and run_replace_order look in the buy map
\* and stop at the first hit: that is right only while no reference is in both
\* maps, and while a reference in a map is one the exchange has used.
SidesDisjoint ==
  \A r \in Refs :
    /\ ~(Holds(engine, "buy", r) /\ Holds(engine, "sell", r))
    /\ Known(engine, r) => r \in used

\* Whatever records are lost or redelivered, an order the exchange displays is
\* in the engine on its own side, at its own price and with no fewer shares than
\* displayed, or not at all.
NeverUnderstates ==
  \A r \in Refs, s \in Sides :
    Exchange!Live(r) /\ Holds(engine, s, r)
      => /\ book[r].side = s
         /\ engine[s][r].price = convert_to_fix(book[r].price)
         /\ engine[s][r].shares >= book[r].shares

\* The unsigned shares of an order never wrap around: no order is ever larger
\* than an order the exchange accepts, and none stays with 0 shares.
SharesInRange ==
  \A r \in Refs, s \in Sides :
    Holds(engine, s, r) => engine[s][r].shares \in 1 .. MaxOrderShares

\* The entry of reference r on side s in an engine that has missed nothing.
Mirrored(r, s) ==
  IF Exchange!Live(r) /\ book[r].side = s
  THEN [price |-> convert_to_fix(book[r].price), shares |-> book[r].shares]
  ELSE Absent

\* With no record lost the two maps are exactly the exchange's book, and main
\* counts no missed order except for redelivered and foreign records.
MirrorsExchange ==
  lost = 0 =>
    /\ \A r \in Refs, s \in Sides : engine[s][r] = Mirrored(r, s)
    /\ missed_orders = retried + foreign

\* A deletion or a replacement that is in the table twice changes nothing the
\* second time, however much of the day lies between the two.
RetryHarmless == [][retried' # retried => engine' = engine]_vars

-----------------------------------------------------------------------------
(***************************************************************************)
(* The engine as a displayed book, at the engine's own prices.             *)
(***************************************************************************)
EngineView ==
  [r \in Refs |->
     IF Known(engine, r)
     THEN LET s == FoundOn(engine, r)
          IN  [side |-> s, price |-> engine[s][r].price, shares |-> engine[s][r].shares]
     ELSE Absent]

EnginePrices == {convert_to_fix(p) : p \in Prices}

View == INSTANCE DisplayedBook WITH book <- EngineView, Prices <- EnginePrices

\* Until a record is lost the pair of maps behaves, step by step, as one order book.
EngineIsABook == View!Init /\ [][lost' = 0 => View!Next]_<<EngineView, used>>
=============================================================================
