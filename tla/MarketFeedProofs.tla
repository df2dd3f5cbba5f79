-------------------------- MODULE MarketFeedProofs --------------------------
(***************************************************************************)
(* The invariants of MarketFeed, for every set of references and prices,   *)
(* every order size and every number of losses and redeliveries.           *)
(***************************************************************************)
EXTENDS MarketFeed, TLAPS

-----------------------------------------------------------------------------
(***************************************************************************)
(* Facts about run_order that hold for every engine: it keeps the maps'    *)
(* types, and what each operation does to each entry.                      *)
(***************************************************************************)

\* The engine's price of a feed price is an unsigned integer: rounding down never
\* takes 0 below 0.
LEMMA ConvertType ==
  ASSUME NEW p \in Prices \cup {0}
  PROVE  convert_to_fix(p) \in Nat
<1>1. p \in Nat
  BY EngineAssumption
<1>2. CASE p \in RoundsDown
  <2>1. p > 0 /\ p % 10 = 0
    BY <1>2, EngineAssumption
  <2> QED
    BY <1>1, <1>2, <2>1 DEF convert_to_fix
<1>3. CASE p \notin RoundsDown
  BY <1>1, <1>3 DEF convert_to_fix
<1> QED
  BY <1>2, <1>3

\* Subtraction in the unsigned shares field stays in the field.
LEMMA MinusType ==
  ASSUME NEW a \in 0 .. ShareLimit - 1, NEW b \in 0 .. ShareLimit - 1
  PROVE  MinusShares(a, b) \in 0 .. ShareLimit - 1
BY EngineAssumption DEF MinusShares

LEMMA EmptyEngineType == EmptyEngine \in Engines
BY DEF EmptyEngine, Engines, OrderMap

\* A reference is looked up on one of the two sides, where it is held if it is known.
LEMMA FoundOnType ==
  ASSUME NEW e, NEW r
  PROVE  /\ FoundOn(e, r) \in Sides
         /\ Known(e, r) => Holds(e, FoundOn(e, r), r)
BY DEF FoundOn, Sides, Known

LEMMA AddType ==
  ASSUME NEW e \in Engines, NEW s \in Sides, NEW r \in Refs,
         NEW n \in 0 .. ShareLimit - 1, NEW p \in Prices \cup {0}
  PROVE  run_add_order(e, s, r, n, p) \in Engines
<1>1. [price |-> convert_to_fix(p), shares |-> n] \in Order
  BY ConvertType DEF Order
<1> QED
  BY <1>1 DEF run_add_order, emplace, Engines, OrderMap

LEMMA ExecuteType ==
  ASSUME NEW e \in Engines, NEW r \in Refs, NEW n \in 0 .. ShareLimit - 1
  PROVE  run_execute_order(e, r, n) \in Engines
<1> DEFINE s == FoundOn(e, r)
<1>1. CASE Known(e, r)
  <2>1. s \in Sides /\ e[s][r] # Absent
    BY <1>1, FoundOnType DEF Holds
  <2>2. e[s] \in OrderMap
    BY <2>1 DEF Engines
  <2>3. e[s][r] \in Order
    BY <2>1, <2>2 DEF OrderMap
  <2>4. MinusShares(e[s][r].shares, n) \in 0 .. ShareLimit - 1 /\ e[s][r].price \in Nat
    BY <2>3, MinusType DEF Order
  <2>5. [price |-> e[s][r].price, shares |-> MinusShares(e[s][r].shares, n)] \in Order
    BY <2>4 DEF Order
  <2>6. ExecuteIn(e[s], r, n) \in OrderMap
    BY <2>2, <2>5 DEF ExecuteIn, erase, OrderMap
  <2> QED
    BY <1>1, <2>1, <2>6 DEF run_execute_order, Engines
<1>2. CASE ~Known(e, r)
  BY <1>2 DEF run_execute_order
<1> QED
  BY <1>1, <1>2

LEMMA DeleteType ==
  ASSUME NEW e \in Engines, NEW r \in Refs
  PROVE  run_delete_order(e, r) \in Engines
BY FoundOnType DEF run_delete_order, erase, Engines, OrderMap

LEMMA ReplaceType ==
  ASSUME NEW e \in Engines, NEW r \in Refs, NEW new_r \in Refs,
         NEW n \in 0 .. ShareLimit - 1, NEW p \in Prices \cup {0}
  PROVE  run_replace_order(e, r, new_r, n, p) \in Engines
<1> DEFINE s == FoundOn(e, r)
           f == [e EXCEPT ![s] = erase(e[s], r)]
<1>1. s \in Sides
  BY FoundOnType
<1>2. f \in Engines
  BY <1>1 DEF erase, Engines, OrderMap
<1>3. run_add_order(f, s, new_r, n, p) \in Engines
  BY <1>1, <1>2, AddType
<1> QED
  BY <1>3 DEF run_replace_order

\* Whatever record the table holds, run_order leaves two maps of unsigned orders.
THEOREM RunOrderType ==
  ASSUME NEW e \in Engines, NEW rec \in OrderRecord
  PROVE  run_order(e, rec) \in Engines
<1>1. /\ rec.order_type \in OrderCodes \cup {"P"}
      /\ rec.is_buy \in BOOLEAN
      /\ rec.reference \in Refs
      /\ rec.new_reference \in Refs
      /\ rec.shares \in 0 .. ShareLimit - 1
      /\ rec.price \in Prices \cup {0}
  BY DEF OrderRecord
<1>2. CASE rec.order_type \in AddCodes
  <2>1. SideOf(rec.is_buy) \in Sides
    BY DEF SideOf, Sides
  <2>2. run_add_order(e, SideOf(rec.is_buy), rec.reference, rec.shares, rec.price) \in Engines
    BY <1>1, <2>1, AddType
  <2> QED
    BY <1>2, <2>2 DEF run_order, AddCodes, ExecuteCodes
<1>3. CASE rec.order_type \in ExecuteCodes \cup {"X"}
  <2>1. run_execute_order(e, rec.reference, rec.shares) \in Engines
    BY <1>1, ExecuteType
  <2> QED
    BY <1>3, <2>1 DEF run_order, run_cancel_order, AddCodes, ExecuteCodes
<1>4. CASE rec.order_type = "D"
  <2>1. run_delete_order(e, rec.reference) \in Engines
    BY <1>1, DeleteType
  <2> QED
    BY <1>4, <2>1 DEF run_order, AddCodes, ExecuteCodes
<1>5. CASE rec.order_type = "U"
  <2>1. run_replace_order(e, rec.reference, rec.new_reference, rec.shares, rec.price) \in Engines
    BY <1>1, ReplaceType
  <2> QED
    BY <1>5, <2>1 DEF run_order, AddCodes, ExecuteCodes
<1>6. CASE rec.order_type = "P"
  BY <1>6 DEF run_order, AddCodes, ExecuteCodes
<1> QED
  BY <1>1, <1>2, <1>3, <1>4, <1>5, <1>6 DEF OrderCodes

-----------------------------------------------------------------------------
(***************************************************************************)
(* What run_order does to each entry, record by record.                    *)
(***************************************************************************)
\* run_order dispatches on the message code.
LEMMA RunOrderCases ==
  ASSUME NEW e, NEW rec
  PROVE  /\ rec.order_type \in AddCodes =>
              run_order(e, rec) =
                run_add_order(e, SideOf(rec.is_buy), rec.reference, rec.shares, rec.price)
         /\ rec.order_type \in ExecuteCodes \cup {"X"} =>
              run_order(e, rec) = run_execute_order(e, rec.reference, rec.shares)
         /\ rec.order_type = "D" => run_order(e, rec) = run_delete_order(e, rec.reference)
         /\ rec.order_type = "U" =>
              run_order(e, rec) =
                run_replace_order(e, rec.reference, rec.new_reference, rec.shares, rec.price)
         /\ rec.order_type = "P" => run_order(e, rec) = e
BY DEF run_order, run_cancel_order, AddCodes, ExecuteCodes

\* An add fills an empty entry and touches no other.
LEMMA AddEntry ==
  ASSUME NEW e \in Engines, NEW s \in Sides, NEW r \in Refs, NEW n, NEW p,
         e[s][r] = Absent, NEW t \in Sides, NEW q \in Refs
  PROVE  run_add_order(e, s, r, n, p)[t][q] =
           IF t = s /\ q = r THEN [price |-> convert_to_fix(p), shares |-> n] ELSE e[t][q]
BY DEF run_add_order, emplace, Engines, OrderMap

\* An execution takes shares off the entry it finds, or changes nothing.
LEMMA ExecuteEntry ==
  ASSUME NEW e \in Engines, NEW r \in Refs, NEW n,
         NEW t \in Sides, NEW q \in Refs
  PROVE  run_execute_order(e, r, n)[t][q] =
           IF Known(e, r) /\ t = FoundOn(e, r) /\ q = r
           THEN IF MinusShares(e[t][q].shares, n) = 0
                THEN Absent
                ELSE [price |-> e[t][q].price, shares |-> MinusShares(e[t][q].shares, n)]
           ELSE e[t][q]
<1> DEFINE s == FoundOn(e, r)
<1>1. s \in Sides
  BY FoundOnType
<1>2. ExecuteIn(e[s], r, n)[q] =
        IF q = r
        THEN IF MinusShares(e[s][r].shares, n) = 0
             THEN Absent
             ELSE [price |-> e[s][r].price, shares |-> MinusShares(e[s][r].shares, n)]
        ELSE e[s][q]
  BY <1>1 DEF ExecuteIn, erase, Engines, OrderMap
<1>3. CASE Known(e, r)
  <2>1. run_execute_order(e, r, n)[t] = IF t = s THEN ExecuteIn(e[s], r, n) ELSE e[t]
    BY <1>1, <1>3 DEF run_execute_order, Engines
  <2> QED
    BY <1>2, <1>3, <2>1
<1>4. CASE ~Known(e, r)
  BY <1>4 DEF run_execute_order
<1> QED
  BY <1>3, <1>4

\* A deletion empties the entry it finds, or changes nothing.
LEMMA DeleteEntry ==
  ASSUME NEW e \in Engines, NEW r \in Refs, NEW t \in Sides, NEW q \in Refs
  PROVE  run_delete_order(e, r)[t][q] =
           IF Known(e, r) /\ t = FoundOn(e, r) /\ q = r THEN Absent ELSE e[t][q]
BY FoundOnType DEF run_delete_order, erase, Engines, OrderMap

\* A replacement by a reference that is not held empties the old entry and fills
\* the new one on the same side, or changes nothing.
LEMMA ReplaceEntry ==
  ASSUME NEW e \in Engines, NEW r \in Refs, NEW new_r \in Refs, NEW n, NEW p,
         new_r # r, ~Known(e, new_r),
         NEW t \in Sides, NEW q \in Refs
  PROVE  run_replace_order(e, r, new_r, n, p)[t][q] =
           IF Known(e, r) /\ t = FoundOn(e, r) /\ q = r THEN Absent
           ELSE IF Known(e, r) /\ t = FoundOn(e, r) /\ q = new_r
                THEN [price |-> convert_to_fix(p), shares |-> n]
                ELSE e[t][q]
<1> DEFINE s == FoundOn(e, r)
           f == [e EXCEPT ![s] = erase(e[s], r)]
<1>1. s \in Sides
  BY FoundOnType
<1>2. f \in Engines
  BY <1>1 DEF erase, Engines, OrderMap
<1>3. f[t][q] = IF t = s /\ q = r THEN Absent ELSE e[t][q]
  BY <1>1 DEF erase, Engines, OrderMap
<1>4. e[s][new_r] = Absent
  BY <1>1 DEF Known, Holds, Sides
<1>5. f[s][new_r] = Absent
  BY <1>1, <1>4 DEF erase, Engines, OrderMap
<1>6. run_replace_order(e, r, new_r, n, p) =
        IF Known(e, r) THEN run_add_order(f, s, new_r, n, p) ELSE e
  BY DEF run_replace_order
<1> HIDE DEF s, f
<1>7. run_add_order(f, s, new_r, n, p)[t][q] =
        IF t = s /\ q = new_r THEN [price |-> convert_to_fix(p), shares |-> n] ELSE f[t][q]
  BY <1>1, <1>2, <1>5, AddEntry
<1> QED
  BY <1>3, <1>6, <1>7 DEF s

-----------------------------------------------------------------------------
USE EngineAssumption, FeedAssumption

(***************************************************************************)
(* The strengthening that makes the safety properties inductive.  What the *)
(* exchange displays is under a used reference, so an add never meets an   *)
(* old entry; a reference that a delivered deletion or replacement ended   *)
(* is nowhere, so the same record finds nothing when it comes again.       *)
(***************************************************************************)
BookUsed == \A r \in Refs : book[r] # Absent => r \in used

EndedGone ==
  \A rec \in ended :
    /\ rec.reference \in used
    /\ book[rec.reference] = Absent
    /\ ~Known(engine, rec.reference)

Inv ==
  /\ TypeOK
  /\ BookUsed
  /\ EndedGone
  /\ SidesDisjoint
  /\ NeverUnderstates
  /\ SharesInRange

-----------------------------------------------------------------------------
\* No order is the mark of a missing one.
LEMMA AbsentIsNoOrder == Absent \notin Displayed
<1> SUFFICES ASSUME Absent \in Displayed PROVE FALSE
  OBVIOUS
<1>1. PICK s \in Sides, p \in Prices, n \in 1 .. MaxOrderShares :
        Absent = [side |-> s, price |-> p, shares |-> n]
  BY DEF Displayed
<1>2. p \in Nat /\ n \in Nat
  OBVIOUS
<1> QED
  BY <1>1, <1>2

\* A displayed order is not the mark of a missing one.
LEMMA DisplayedNotAbsent ==
  ASSUME TypeOK, NEW r \in Refs, book[r] # Absent
  PROVE  book[r] \in Displayed
BY DEF TypeOK

LEMMA InitInv == Init => Inv
<1> SUFFICES ASSUME Init PROVE Inv
  OBVIOUS
<1>1. TypeOK
  BY EmptyEngineType DEF Init, Exchange!Init, TypeOK
<1>2. \A s \in Sides, r \in Refs : engine[s][r] = Absent
  BY DEF Init, EmptyEngine
<1> QED
  BY <1>1, <1>2 DEF Init, Exchange!Init, Inv, BookUsed, EndedGone, SidesDisjoint,
     NeverUnderstates, SharesInRange, Exchange!Live, Holds, Known, Sides

\* A step that delivers or loses a record keeps the types of the engine and of the
\* counters.
LEMMA DeliverType ==
  ASSUME TypeOK, NEW rec \in OrderRecord, DeliverOrLose(rec)
  PROVE  /\ engine' \in Engines
         /\ missed_orders' \in Nat
         /\ lost' \in 0 .. MaxLosses
         /\ retried' \in 0 .. MaxRetries
         /\ foreign' \in 0 .. MaxForeign
         /\ ended' \subseteq EndRecord
<1>1. CASE Deliver(rec)
  <2>1. engine' \in Engines
    BY <1>1, RunOrderType DEF Deliver, RunOne, TypeOK
  <2>2. ended' \subseteq EndRecord
    BY <1>1 DEF Deliver, TypeOK, EndRecord
  <2> QED
    BY <1>1, <2>1, <2>2 DEF Deliver, RunOne, TypeOK
<1>2. CASE Lose
  BY <1>2 DEF Lose, TypeOK
<1> QED
  BY <1>1, <1>2 DEF DeliverOrLose

LEMMA TypeStep == TypeOK /\ [Next]_vars => TypeOK'
<1> SUFFICES ASSUME TypeOK, [Next]_vars PROVE TypeOK'
  OBVIOUS
<1>1. ASSUME NEW r \in Refs, NEW s \in Sides, NEW p \in Prices, NEW n \in 1 .. MaxOrderShares,
             AddOrder(r, s, p, n)
      PROVE  TypeOK'
  <2>1. PICK code \in AddCodes : DeliverOrLose(order_record(code, s = "buy", r, r, n, p))
    BY <1>1 DEF AddOrder
  <2>2. order_record(code, s = "buy", r, r, n, p) \in OrderRecord
    BY DEF order_record, OrderRecord, OrderCodes, AddCodes, ExecuteCodes
  <2>3. [side |-> s, price |-> p, shares |-> n] \in Displayed
    BY DEF Displayed
  <2> QED
    BY <1>1, <2>1, <2>2, <2>3, DeliverType DEF AddOrder, Exchange!Add, TypeOK
<1>2. ASSUME NEW r \in Refs, NEW n \in 1 .. MaxOrderShares, ReduceOrder(r, n)
      PROVE  TypeOK'
  <2>1. PICK code \in ExecuteCodes \cup {"X"} :
          DeliverOrLose(order_record(code, FALSE, r, r, n, 0))
    BY <1>2 DEF ReduceOrder
  <2>2. order_record(code, FALSE, r, r, n, 0) \in OrderRecord
    BY DEF order_record, OrderRecord, OrderCodes, AddCodes, ExecuteCodes
  <2>3. book[r] \in Displayed /\ n <= book[r].shares
    BY <1>2, DisplayedNotAbsent DEF ReduceOrder, Exchange!Reduce, Exchange!Live
  <2>4. n # book[r].shares =>
          [side |-> book[r].side, price |-> book[r].price, shares |-> book[r].shares - n]
            \in Displayed
    BY <2>3 DEF Displayed
  <2>5. book' \in [Refs -> Displayed \cup {Absent}]
    BY <1>2, <2>4 DEF ReduceOrder, Exchange!Reduce, TypeOK
  <2> QED
    BY <1>2, <2>1, <2>2, <2>5, DeliverType DEF ReduceOrder, Exchange!Reduce, TypeOK
<1>3. ASSUME NEW r \in Refs, DeleteOrder(r)
      PROVE  TypeOK'
  <2>1. order_record("D", FALSE, r, r, 0, 0) \in OrderRecord
    BY DEF order_record, OrderRecord, OrderCodes, AddCodes, ExecuteCodes
  <2> QED
    BY <1>3, <2>1, DeliverType DEF DeleteOrder, Exchange!Delete, TypeOK
<1>4. ASSUME NEW r \in Refs, NEW new_r \in Refs, NEW p \in Prices, NEW n \in 1 .. MaxOrderShares,
             ReplaceOrder(r, new_r, p, n)
      PROVE  TypeOK'
  <2>1. order_record("U", FALSE, r, new_r, n, p) \in OrderRecord
    BY DEF order_record, OrderRecord, OrderCodes, AddCodes, ExecuteCodes
  <2>2. book[r] \in Displayed
    BY <1>4, DisplayedNotAbsent DEF ReplaceOrder, Exchange!Replace, Exchange!Live
  <2>3. [side |-> book[r].side, price |-> p, shares |-> n] \in Displayed
    BY <2>2 DEF Displayed
  <2>4. book' \in [Refs -> Displayed \cup {Absent}]
    BY <1>4, <2>3 DEF ReplaceOrder, Exchange!Replace, TypeOK
  <2> QED
    BY <1>4, <2>1, <2>4, DeliverType DEF ReplaceOrder, Exchange!Replace, TypeOK
<1>5. ASSUME NEW r \in Refs, ForeignRecord(r)
      PROVE  TypeOK'
  <2> DEFINE rec == order_record("P", FALSE, r, r, 0, 0)
  <2>1. rec \in OrderRecord
    BY DEF order_record, OrderRecord
  <2>2. RunOne(rec)
    BY <1>5 DEF ForeignRecord
  <2> HIDE DEF rec
  <2>3. engine' \in Engines /\ missed_orders' \in Nat
    BY <2>1, <2>2, RunOrderType DEF RunOne, TypeOK
  <2> QED
    BY <1>5, <2>3 DEF ForeignRecord, TypeOK
<1>6. ASSUME NEW rec \in ended, Redeliver(rec)
      PROVE  TypeOK'
  <2>1. rec \in OrderRecord
    BY DEF TypeOK, EndRecord
  <2> QED
    BY <1>6, <2>1, RunOrderType DEF Redeliver, RunOne, TypeOK
<1>7. CASE UNCHANGED vars
  BY <1>7 DEF vars, TypeOK
<1> QED
  BY <1>1, <1>2, <1>3, <1>4, <1>5, <1>6, <1>7 DEF Next

\* The exchange's book, the two maps of unsigned orders and the counters keep their
\* types in every behaviour of the feed.
THEOREM TypeCorrect == Spec => []TypeOK
<1>1. Init => TypeOK
  BY InitInv DEF Inv
<1> QED
  BY <1>1, TypeStep, PTL DEF Spec

-----------------------------------------------------------------------------
(***************************************************************************)
(* What delivering each record does to every entry of the engine, to       *)
(* main's count of missed orders and to the ended references.              *)
(***************************************************************************)
LEMMA AddDelivered ==
  ASSUME TypeOK, NEW r \in Refs, NEW s \in Sides, NEW p, NEW n, NEW code \in AddCodes,
         engine[s][r] = Absent,
         Deliver(order_record(code, s = "buy", r, r, n, p))
  PROVE  /\ ended' = ended
         /\ missed_orders' = missed_orders
         /\ \A t \in Sides, q \in Refs :
              engine'[t][q] = IF t = s /\ q = r
                              THEN [price |-> convert_to_fix(p), shares |-> n]
                              ELSE engine[t][q]
<1> DEFINE rec == order_record(code, s = "buy", r, r, n, p)
<1>1. SideOf(s = "buy") = s
  BY DEF SideOf, Sides
<1>2. /\ rec.order_type = code /\ rec.is_buy = (s = "buy") /\ rec.reference = r
      /\ rec.shares = n /\ rec.price = p
  BY DEF order_record
<1>3. Deliver(rec)
  OBVIOUS
<1> HIDE DEF rec
<1>4. engine' = run_add_order(engine, s, r, n, p)
  BY <1>1, <1>2, <1>3, RunOrderCases DEF Deliver, RunOne
<1>5. ended' = ended /\ missed_orders' = missed_orders
  BY <1>2, <1>3 DEF Deliver, RunOne, run_order_result, AddCodes
<1> QED
  BY <1>4, <1>5, AddEntry DEF TypeOK

\* The entry of reference q on side t after taking n shares off r.
Reduced(r, n, t, q) ==
  IF Known(engine, r) /\ t = FoundOn(engine, r) /\ q = r
  THEN IF MinusShares(engine[t][q].shares, n) = 0
       THEN Absent
       ELSE [price |-> engine[t][q].price,
             shares |-> MinusShares(engine[t][q].shares, n)]
  ELSE engine[t][q]

LEMMA ReduceDelivered ==
  ASSUME TypeOK, NEW r \in Refs, NEW n, NEW code \in ExecuteCodes \cup {"X"},
         Deliver(order_record(code, FALSE, r, r, n, 0))
  PROVE  /\ ended' = ended
         /\ Known(engine, r) => missed_orders' = missed_orders
         /\ \A t \in Sides, q \in Refs :
              engine'[t][q] = Reduced(r, n, t, q)
<1> DEFINE rec == order_record(code, FALSE, r, r, n, 0)
<1>1. rec.order_type = code /\ rec.reference = r /\ rec.shares = n
  BY DEF order_record
<1>2. Deliver(rec)
  OBVIOUS
<1> HIDE DEF rec
<1>3. engine' = run_execute_order(engine, r, n)
  BY <1>1, <1>2, RunOrderCases DEF Deliver, RunOne
<1>4. ended' = ended /\ (Known(engine, r) => missed_orders' = missed_orders)
  BY <1>1, <1>2 DEF Deliver, RunOne, run_order_result, AddCodes, ExecuteCodes, OrderCodes
<1> QED
  BY <1>3, <1>4, ExecuteEntry DEF TypeOK, Reduced

LEMMA DeleteDelivered ==
  ASSUME TypeOK, NEW r \in Refs, Deliver(order_record("D", FALSE, r, r, 0, 0))
  PROVE  /\ \A rec \in ended' : rec \in ended \/ rec.reference = r
         /\ Known(engine, r) => missed_orders' = missed_orders
         /\ \A t \in Sides, q \in Refs :
              engine'[t][q] = IF Known(engine, r) /\ t = FoundOn(engine, r) /\ q = r
                              THEN Absent ELSE engine[t][q]
<1> DEFINE rec == order_record("D", FALSE, r, r, 0, 0)
<1>1. rec.order_type = "D" /\ rec.reference = r
  BY DEF order_record
<1>2. Deliver(rec)
  OBVIOUS
<1> HIDE DEF rec
<1>3. engine' = run_delete_order(engine, r)
  BY <1>1, <1>2, RunOrderCases DEF Deliver, RunOne
<1>4. /\ ended' = ended \cup {rec}
      /\ Known(engine, r) => missed_orders' = missed_orders
  BY <1>1, <1>2 DEF Deliver, RunOne, run_order_result, AddCodes, ExecuteCodes, OrderCodes
<1> QED
  BY <1>1, <1>3, <1>4, DeleteEntry DEF TypeOK

\* Every entry after replacing r by new_r.
EntriesReplaced(r, new_r, n, p) ==
  \A t \in Sides, q \in Refs :
    engine'[t][q] =
      IF Known(engine, r) /\ t = FoundOn(engine, r) /\ q = r THEN Absent
      ELSE IF Known(engine, r) /\ t = FoundOn(engine, r) /\ q = new_r
           THEN [price |-> convert_to_fix(p), shares |-> n]
           ELSE engine[t][q]

LEMMA ReplaceDelivered ==
  ASSUME TypeOK, NEW r \in Refs, NEW new_r \in Refs, NEW p, NEW n,
         new_r # r, ~Known(engine, new_r),
         Deliver(order_record("U", FALSE, r, new_r, n, p))
  PROVE  /\ \A rec \in ended' : rec \in ended \/ rec.reference = r
         /\ Known(engine, r) => missed_orders' = missed_orders
         /\ EntriesReplaced(r, new_r, n, p)
<1> DEFINE rec == order_record("U", FALSE, r, new_r, n, p)
<1>1. /\ rec.order_type = "U" /\ rec.reference = r /\ rec.new_reference = new_r
      /\ rec.shares = n /\ rec.price = p
  BY DEF order_record
<1>2. Deliver(rec)
  OBVIOUS
<1> HIDE DEF rec
<1>3. engine' = run_replace_order(engine, r, new_r, n, p)
  BY <1>1, <1>2, RunOrderCases DEF Deliver, RunOne
<1>4. /\ ended' = ended \cup {rec}
      /\ Known(engine, r) => missed_orders' = missed_orders
  BY <1>1, <1>2 DEF Deliver, RunOne, run_order_result, AddCodes, ExecuteCodes, OrderCodes
<1> QED
  BY <1>1, <1>3, <1>4, ReplaceEntry DEF TypeOK, EntriesReplaced

\* A deletion or a replacement that comes again finds nothing and changes nothing.
LEMMA RedeliverNothing ==
  ASSUME Inv, NEW rec \in ended, RunOne(rec)
  PROVE  engine' = engine /\ missed_orders' = missed_orders + 1
<1>1. rec.order_type \in {"D", "U"} /\ ~Known(engine, rec.reference)
  BY DEF Inv, TypeOK, EndRecord, EndedGone
<1>2. engine' = engine
  BY <1>1, RunOrderCases DEF RunOne, run_delete_order, run_replace_order
<1>3. ~run_order_result(engine, rec)
  BY <1>1 DEF run_order_result, AddCodes
<1> QED
  BY <1>2, <1>3 DEF RunOne

\* A record that is about no order changes nothing.
LEMMA ForeignNothing ==
  ASSUME NEW r \in Refs, RunOne(order_record("P", FALSE, r, r, 0, 0))
  PROVE  engine' = engine /\ missed_orders' = missed_orders + 1
<1> DEFINE rec == order_record("P", FALSE, r, r, 0, 0)
<1>1. rec.order_type = "P"
  BY DEF order_record
<1>2. RunOne(rec)
  OBVIOUS
<1> HIDE DEF rec
<1>3. engine' = engine
  BY <1>1, <1>2, RunOrderCases DEF RunOne
<1>4. ~run_order_result(engine, rec)
  BY <1>1 DEF run_order_result, AddCodes, ExecuteCodes, OrderCodes
<1> QED
  BY <1>2, <1>3, <1>4 DEF RunOne

-----------------------------------------------------------------------------
(***************************************************************************)
(* One lemma per action.  Each first says what the action does to every    *)
(* entry of the engine, from the lemmas on run_order, and then takes the   *)
(* conjuncts of the invariant one by one.                                  *)
(***************************************************************************)
LEMMA AddStep ==
  ASSUME Inv, TypeOK', NEW r \in Refs, NEW s \in Sides, NEW p \in Prices,
         NEW n \in 1 .. MaxOrderShares, AddOrder(r, s, p, n)
  PROVE  Inv'
<1> DEFINE new == [price |-> convert_to_fix(p), shares |-> n]
<1>1. /\ r \notin used
      /\ used' = used \cup {r}
      /\ book'[r] = [side |-> s, price |-> p, shares |-> n]
      /\ \A q \in Refs \ {r} : book'[q] = book[q]
  BY DEF AddOrder, Exchange!Add, Inv, TypeOK
<1>2. \A t \in Sides : engine[t][r] = Absent
  BY <1>1 DEF Inv, SidesDisjoint, Known, Holds, Sides
<1>3. PICK code \in AddCodes : DeliverOrLose(order_record(code, s = "buy", r, r, n, p))
  BY DEF AddOrder
<1>4. /\ ended' = ended
      /\ \A t \in Sides, q \in Refs : q # r => engine'[t][q] = engine[t][q]
      /\ \A t \in Sides : engine'[t][r] = Absent \/ (t = s /\ engine'[t][r] = new)
  <2>1. CASE Lose
    BY <1>2, <2>1 DEF Lose
  <2>2. CASE Deliver(order_record(code, s = "buy", r, r, n, p))
    BY <1>2, <2>2, AddDelivered DEF Inv
  <2> QED
    BY <1>3, <2>1, <2>2 DEF DeliverOrLose
<1>5. BookUsed'
  BY <1>1 DEF Inv, BookUsed
<1>6. EndedGone'
  <2> SUFFICES ASSUME NEW rec \in ended
               PROVE  /\ rec.reference \in used'
                      /\ book'[rec.reference] = Absent
                      /\ ~Known(engine, rec.reference)'
    BY <1>4 DEF EndedGone
  <2>1. rec.reference \in used /\ book[rec.reference] = Absent /\ ~Known(engine, rec.reference)
    BY DEF Inv, EndedGone
  <2>2. rec.reference \in Refs \ {r}
    BY <1>1, <2>1 DEF Inv, TypeOK
  <2> QED
    BY <1>1, <1>4, <2>1, <2>2 DEF Known, Holds, Sides
<1>7. SidesDisjoint'
  BY <1>1, <1>4 DEF Inv, SidesDisjoint, Known, Holds, Sides
<1>8. NeverUnderstates'
  <2> SUFFICES ASSUME NEW q \in Refs, NEW t \in Sides, book'[q] # Absent, engine'[t][q] # Absent
               PROVE  /\ book'[q].side = t
                      /\ engine'[t][q].price = convert_to_fix(book'[q].price)
                      /\ engine'[t][q].shares >= book'[q].shares
    BY DEF NeverUnderstates, Exchange!Live, Holds
  <2>1. CASE q = r
    BY <1>1, <1>4, <2>1
  <2>2. CASE q # r
    BY <1>1, <1>4, <2>2 DEF Inv, NeverUnderstates, Exchange!Live, Holds
  <2> QED
    BY <2>1, <2>2
<1>9. SharesInRange'
  BY <1>4 DEF Inv, SharesInRange, Holds
<1> QED
  BY <1>5, <1>6, <1>7, <1>8, <1>9 DEF Inv

LEMMA ReduceStep ==
  ASSUME Inv, TypeOK', NEW r \in Refs, NEW n \in 1 .. MaxOrderShares, ReduceOrder(r, n)
  PROVE  Inv'
<1>1. /\ used' = used
      /\ book[r] # Absent
      /\ book[r] \in Displayed
      /\ n <= book[r].shares
      /\ book'[r] = IF n = book[r].shares THEN Absent
                    ELSE [side |-> book[r].side, price |-> book[r].price,
                          shares |-> book[r].shares - n]
      /\ \A q \in Refs \ {r} : book'[q] = book[q]
  BY DisplayedNotAbsent DEF ReduceOrder, Exchange!Reduce, Exchange!Live, Inv, TypeOK
<1>2. PICK code \in ExecuteCodes \cup {"X"} : DeliverOrLose(order_record(code, FALSE, r, r, n, 0))
  BY DEF ReduceOrder
<1>3. \A t \in Sides : engine[t][r] # Absent =>
        /\ engine[t][r] \in Order
        /\ engine[t][r].shares \in n .. MaxOrderShares
        /\ engine[t][r].price = convert_to_fix(book[r].price)
        /\ book[r].side = t
        /\ engine[t][r].shares >= book[r].shares
  <2> SUFFICES ASSUME NEW t \in Sides, engine[t][r] # Absent
               PROVE  /\ engine[t][r] \in Order
                      /\ engine[t][r].shares \in n .. MaxOrderShares
                      /\ engine[t][r].price = convert_to_fix(book[r].price)
                      /\ book[r].side = t
                      /\ engine[t][r].shares >= book[r].shares
    OBVIOUS
  <2>1. engine[t][r] \in Order
    BY DEF Inv, TypeOK, Engines, OrderMap
  <2>2. engine[t][r].shares \in 1 .. MaxOrderShares
    BY DEF Inv, SharesInRange, Holds
  <2>3. /\ book[r].side = t
        /\ engine[t][r].price = convert_to_fix(book[r].price)
        /\ engine[t][r].shares >= book[r].shares
    BY <1>1 DEF Inv, NeverUnderstates, Exchange!Live, Holds
  <2> QED
    BY <1>1, <2>1, <2>2, <2>3 DEF Displayed
\* The engine has at least the displayed shares, so the subtraction does not wrap.
<1>4. /\ ended' = ended
      /\ \A t \in Sides, q \in Refs : q # r => engine'[t][q] = engine[t][q]
      /\ \A t \in Sides :
           \/ engine'[t][r] = engine[t][r]
           \/ engine[t][r] # Absent /\ engine'[t][r] = Absent
           \/ /\ engine[t][r] # Absent
              /\ engine[t][r].shares # n
              /\ engine'[t][r] = [price |-> engine[t][r].price, shares |-> engine[t][r].shares - n]
  <2>1. CASE Lose
    BY <2>1 DEF Lose
  <2>2. CASE Deliver(order_record(code, FALSE, r, r, n, 0))
    <3>1. TypeOK
      BY DEF Inv
    <3>2. ended' = ended
      BY <2>2, <3>1, ReduceDelivered
    <3>3. \A t \in Sides, q \in Refs : engine'[t][q] = Reduced(r, n, t, q)
      BY <2>2, <3>1, ReduceDelivered
    <3>4. Known(engine, r) => engine[FoundOn(engine, r)][r] # Absent
      BY FoundOnType DEF Holds
    <3>5. \A t \in Sides : engine[t][r] # Absent =>
            MinusShares(engine[t][r].shares, n) = engine[t][r].shares - n
      BY <1>3 DEF MinusShares
    <3>6. ASSUME NEW t \in Sides
          PROVE  \/ engine'[t][r] = engine[t][r]
                 \/ engine[t][r] # Absent /\ engine'[t][r] = Absent
                 \/ /\ engine[t][r] # Absent
                    /\ engine[t][r].shares # n
                    /\ engine'[t][r] = [price |-> engine[t][r].price,
                                        shares |-> engine[t][r].shares - n]
      <4>1. CASE Known(engine, r) /\ t = FoundOn(engine, r)
        <5>1. engine[t][r] # Absent /\ engine[t][r].shares \in Nat
          BY <1>3, <3>4, <4>1
        <5>2. MinusShares(engine[t][r].shares, n) = engine[t][r].shares - n
          BY <3>5, <5>1
        <5>3. engine'[t][r] = IF engine[t][r].shares - n = 0 THEN Absent
                ELSE [price |-> engine[t][r].price, shares |-> engine[t][r].shares - n]
          BY <3>3, <4>1, <5>2 DEF Reduced
        <5> QED
          BY <5>1, <5>3
      <4>2. CASE ~(Known(engine, r) /\ t = FoundOn(engine, r))
        BY <3>3, <4>2 DEF Reduced
      <4> QED
        BY <4>1, <4>2
    <3> QED
      BY <3>2, <3>3, <3>6 DEF Reduced
  <2> QED
    BY <1>2, <2>1, <2>2 DEF DeliverOrLose
<1>5. BookUsed'
  BY <1>1 DEF Inv, BookUsed
<1>6. EndedGone'
  <2> SUFFICES ASSUME NEW rec \in ended
               PROVE  /\ rec.reference \in used'
                      /\ book'[rec.reference] = Absent
                      /\ ~Known(engine, rec.reference)'
    BY <1>4 DEF EndedGone
  <2>1. rec.reference \in used /\ book[rec.reference] = Absent /\ ~Known(engine, rec.reference)
    BY DEF Inv, EndedGone
  <2>2. rec.reference \in Refs \ {r}
    BY <1>1, <2>1 DEF Inv, TypeOK
  <2> QED
    BY <1>1, <1>4, <2>1, <2>2 DEF Known, Holds, Sides
<1>7. SidesDisjoint'
  <2>1. \A t \in Sides, q \in Refs : engine'[t][q] # Absent => engine[t][q] # Absent
    BY <1>4
  <2> QED
    BY <1>1, <2>1 DEF Inv, SidesDisjoint, Known, Holds, Sides
<1>8. NeverUnderstates'
  <2> SUFFICES ASSUME NEW q \in Refs, NEW t \in Sides, book'[q] # Absent, engine'[t][q] # Absent
               PROVE  /\ book'[q].side = t
                      /\ engine'[t][q].price = convert_to_fix(book'[q].price)
                      /\ engine'[t][q].shares >= book'[q].shares
    BY DEF NeverUnderstates, Exchange!Live, Holds
  <2>1. CASE q = r
    <3>1. engine[t][r] # Absent
      BY <1>4, <2>1
    <3>2. /\ engine[t][r].shares \in Nat /\ book[r].shares \in Nat
          /\ book'[r] = [side |-> book[r].side, price |-> book[r].price,
                         shares |-> book[r].shares - n]
      BY <1>1, <1>3, <2>1, <3>1 DEF Order, Displayed
    <3>3. CASE engine'[t][r] = engine[t][r]
      BY <1>3, <2>1, <3>1, <3>2, <3>3
    <3>4. CASE engine'[t][r] = [price |-> engine[t][r].price, shares |-> engine[t][r].shares - n]
      BY <1>3, <2>1, <3>1, <3>2, <3>4
    <3> QED
      BY <1>4, <2>1, <3>3, <3>4
  <2>2. CASE q # r
    BY <1>1, <1>4, <2>2 DEF Inv, NeverUnderstates, Exchange!Live, Holds
  <2> QED
    BY <2>1, <2>2
<1>9. SharesInRange'
  <2> SUFFICES ASSUME NEW q \in Refs, NEW t \in Sides, engine'[t][q] # Absent
               PROVE  engine'[t][q].shares \in 1 .. MaxOrderShares
    BY DEF SharesInRange, Holds
  <2>1. CASE q = r
    <3>1. engine[t][r] # Absent
      BY <1>4, <2>1
    <3>2. CASE engine'[t][r] = engine[t][r]
      BY <1>3, <2>1, <3>1, <3>2
    <3>3. CASE /\ engine[t][r].shares # n
               /\ engine'[t][r] = [price |-> engine[t][r].price, shares |-> engine[t][r].shares - n]
      BY <1>3, <2>1, <3>1, <3>3
    <3> QED
      BY <1>4, <2>1, <3>2, <3>3
  <2>2. CASE q # r
    BY <1>4, <2>2 DEF Inv, SharesInRange, Holds
  <2> QED
    BY <2>1, <2>2
<1> QED
  BY <1>5, <1>6, <1>7, <1>8, <1>9 DEF Inv

LEMMA DeleteStep ==
  ASSUME Inv, TypeOK', NEW r \in Refs, DeleteOrder(r)
  PROVE  Inv'
<1>1. /\ used' = used
      /\ book[r] # Absent
      /\ book'[r] = Absent
      /\ \A q \in Refs \ {r} : book'[q] = book[q]
  BY DEF DeleteOrder, Exchange!Delete, Exchange!Live, Inv, TypeOK
<1>2. r \in used
  BY <1>1 DEF Inv, BookUsed
<1>3. /\ \A t \in Sides, q \in Refs : engine'[t][q] # Absent => engine'[t][q] = engine[t][q]
      /\ \A rec \in ended' : rec \in ended \/ (rec.reference = r /\ ~Known(engine, r)')
  <2>1. CASE Lose
    BY <2>1 DEF Lose
  <2>2. CASE Deliver(order_record("D", FALSE, r, r, 0, 0))
    <3>1. TypeOK
      BY DEF Inv
    <3>2. /\ \A rec \in ended' : rec \in ended \/ rec.reference = r
          /\ \A t \in Sides, q \in Refs :
               engine'[t][q] = IF Known(engine, r) /\ t = FoundOn(engine, r) /\ q = r
                               THEN Absent ELSE engine[t][q]
      BY <2>2, <3>1, DeleteDelivered
    <3>3. ~Known(engine, r)'
      BY <3>2, FoundOnType DEF Known, Holds, FoundOn, Sides, Inv, SidesDisjoint
    <3> QED
      BY <3>2, <3>3
  <2> QED
    BY <2>1, <2>2 DEF DeleteOrder, DeliverOrLose
<1>4. BookUsed'
  BY <1>1 DEF Inv, BookUsed
<1>5. EndedGone'
  <2> SUFFICES ASSUME NEW rec \in ended'
               PROVE  /\ rec.reference \in used'
                      /\ book'[rec.reference] = Absent
                      /\ ~Known(engine, rec.reference)'
    BY DEF EndedGone
  <2>1. CASE rec \in ended
    <3>1. rec.reference \in used /\ book[rec.reference] = Absent /\ ~Known(engine, rec.reference)
      BY <2>1 DEF Inv, EndedGone
    <3>2. rec.reference \in Refs \ {r}
      BY <1>1, <3>1 DEF Inv, TypeOK
    <3> QED
      BY <1>1, <1>3, <3>1, <3>2 DEF Known, Holds, Sides
  <2>2. CASE rec.reference = r /\ ~Known(engine, r)'
    BY <1>1, <1>2, <2>2
  <2> QED
    BY <1>3, <2>1, <2>2
<1>6. SidesDisjoint'
  BY <1>1, <1>3 DEF Inv, SidesDisjoint, Known, Holds, Sides
<1>7. NeverUnderstates'
  BY <1>1, <1>3 DEF Inv, NeverUnderstates, Exchange!Live, Holds
<1>8. SharesInRange'
  BY <1>3 DEF Inv, SharesInRange, Holds
<1> QED
  BY <1>4, <1>5, <1>6, <1>7, <1>8 DEF Inv

LEMMA ReplaceStep ==
  ASSUME Inv, TypeOK', NEW r \in Refs, NEW new_r \in Refs, NEW p \in Prices,
         NEW n \in 1 .. MaxOrderShares, ReplaceOrder(r, new_r, p, n)
  PROVE  Inv'
<1> DEFINE new == [price |-> convert_to_fix(p), shares |-> n]
<1>1. book[r] # Absent /\ new_r \notin used /\ used' = used \cup {new_r}
  BY DEF ReplaceOrder, Exchange!Replace, Exchange!Live
<1>2. r \in used /\ new_r # r
  BY <1>1 DEF Inv, BookUsed
<1>3. /\ book'[r] = Absent
      /\ book'[new_r] = [side |-> book[r].side, price |-> p, shares |-> n]
      /\ \A q \in Refs \ {r, new_r} : book'[q] = book[q]
  BY <1>1, <1>2 DEF ReplaceOrder, Exchange!Replace, Inv, TypeOK
<1>4. \A t \in Sides : engine[t][new_r] = Absent
  BY <1>1 DEF Inv, SidesDisjoint, Known, Holds, Sides
<1>5. \A t \in Sides : engine[t][r] # Absent => book[r].side = t
  BY <1>1 DEF Inv, NeverUnderstates, Exchange!Live, Holds
<1>6. /\ \A t \in Sides, q \in Refs :
           engine'[t][q] # Absent =>
             \/ q # new_r /\ engine'[t][q] = engine[t][q]
             \/ q = new_r /\ t = book[r].side /\ engine'[t][q] = new
      /\ \A rec \in ended' : rec \in ended \/ (rec.reference = r /\ ~Known(engine, r)')
  <2>1. CASE Lose
    BY <1>4, <2>1 DEF Lose
  <2>2. CASE Deliver(order_record("U", FALSE, r, new_r, n, p))
    <3>1. TypeOK
      BY DEF Inv
    <3>2. ~Known(engine, new_r)
      BY <1>4 DEF Known, Holds, Sides
    <3>3. new_r # r
      BY <1>2
    <3>4. \A rec \in ended' : rec \in ended \/ rec.reference = r
      BY <2>2, <3>1, <3>2, <3>3, ReplaceDelivered
    <3>5. EntriesReplaced(r, new_r, n, p)
      BY <2>2, <3>1, <3>2, <3>3, ReplaceDelivered
    <3>6. ~Known(engine, r)'
      BY <1>2, <3>5, FoundOnType
         DEF EntriesReplaced, Known, Holds, FoundOn, Sides, Inv, SidesDisjoint
    <3>7. Known(engine, r) => engine[FoundOn(engine, r)][r] # Absent
      BY FoundOnType DEF Holds
    <3> QED
      BY <1>4, <1>5, <3>4, <3>5, <3>6, <3>7 DEF EntriesReplaced
  <2> QED
    BY <2>1, <2>2 DEF ReplaceOrder, DeliverOrLose
<1>7. BookUsed'
  BY <1>1, <1>3 DEF Inv, BookUsed
<1>8. EndedGone'
  <2> SUFFICES ASSUME NEW rec \in ended'
               PROVE  /\ rec.reference \in used'
                      /\ book'[rec.reference] = Absent
                      /\ ~Known(engine, rec.reference)'
    BY DEF EndedGone
  <2>1. CASE rec \in ended
    <3>1. rec.reference \in used /\ book[rec.reference] = Absent /\ ~Known(engine, rec.reference)
      BY <2>1 DEF Inv, EndedGone
    <3>2. rec.reference \in Refs \ {r, new_r}
      BY <1>1, <3>1 DEF Inv, TypeOK
    <3> QED
      BY <1>1, <1>3, <1>6, <3>1, <3>2 DEF Known, Holds, Sides
  <2>2. CASE rec.reference = r /\ ~Known(engine, r)'
    BY <1>1, <1>2, <1>3, <2>2
  <2> QED
    BY <1>6, <2>1, <2>2
<1>9. SidesDisjoint'
  <2> HIDE DEF new
  <2> QED
    BY <1>1, <1>6 DEF Inv, SidesDisjoint, Known, Holds, Sides
<1>10. NeverUnderstates'
  <2> SUFFICES ASSUME NEW q \in Refs, NEW t \in Sides, book'[q] # Absent, engine'[t][q] # Absent
               PROVE  /\ book'[q].side = t
                      /\ engine'[t][q].price = convert_to_fix(book'[q].price)
                      /\ engine'[t][q].shares >= book'[q].shares
    BY DEF NeverUnderstates, Exchange!Live, Holds
  <2>1. CASE q = new_r
    BY <1>3, <1>6, <2>1
  <2>2. CASE q # new_r
    BY <1>3, <1>6, <2>2 DEF Inv, NeverUnderstates, Exchange!Live, Holds
  <2> QED
    BY <2>1, <2>2
<1>11. SharesInRange'
  BY <1>6 DEF Inv, SharesInRange, Holds
<1> QED
  BY <1>7, <1>8, <1>9, <1>10, <1>11 DEF Inv

\* The invariant depends only on the exchange, the engine and the ended references.
LEMMA InvUnchanged ==
  ASSUME Inv, TypeOK', UNCHANGED <<book, used, engine, ended>>
  PROVE  Inv'
BY DEF Inv, BookUsed, EndedGone, SidesDisjoint, NeverUnderstates, SharesInRange,
   Exchange!Live, Holds, Known

LEMMA InvStep == Inv /\ [Next]_vars => Inv'
<1> SUFFICES ASSUME Inv, [Next]_vars PROVE Inv'
  OBVIOUS
<1>1. TypeOK'
  BY TypeStep DEF Inv
<1>2. ASSUME NEW r \in Refs, NEW s \in Sides, NEW p \in Prices, NEW n \in 1 .. MaxOrderShares,
             AddOrder(r, s, p, n)
      PROVE  Inv'
  BY <1>1, <1>2, AddStep
<1>3. ASSUME NEW r \in Refs, NEW n \in 1 .. MaxOrderShares, ReduceOrder(r, n)
      PROVE  Inv'
  BY <1>1, <1>3, ReduceStep
<1>4. ASSUME NEW r \in Refs, DeleteOrder(r)
      PROVE  Inv'
  BY <1>1, <1>4, DeleteStep
<1>5. ASSUME NEW r \in Refs, NEW new_r \in Refs, NEW p \in Prices, NEW n \in 1 .. MaxOrderShares,
             ReplaceOrder(r, new_r, p, n)
      PROVE  Inv'
  BY <1>1, <1>5, ReplaceStep
<1>6. ASSUME NEW r \in Refs, ForeignRecord(r)
      PROVE  Inv'
  BY <1>1, <1>6, ForeignNothing, InvUnchanged DEF ForeignRecord
<1>7. ASSUME NEW rec \in ended, Redeliver(rec)
      PROVE  Inv'
  BY <1>1, <1>7, RedeliverNothing, InvUnchanged DEF Redeliver
<1>8. CASE UNCHANGED vars
  BY <1>1, <1>8, InvUnchanged DEF vars
<1> QED
  BY <1>2, <1>3, <1>4, <1>5, <1>6, <1>7, <1>8 DEF Next

\* The strengthened invariant holds in every behaviour.
THEOREM Invariance == Spec => []Inv
BY InitInv, InvStep, PTL DEF Spec

\* run_execute_order, run_delete_order and run_replace_order may stop at the first
\* map that holds the reference: no reference is ever in both.
THEOREM SidesAlwaysDisjoint == Spec => []SidesDisjoint
<1>1. Inv => SidesDisjoint
  BY DEF Inv
<1> QED
  BY <1>1, Invariance, PTL

\* However many records are lost or redelivered, the engine shows a displayed order
\* on its side, at its price, with no fewer shares than displayed, or not at all.
THEOREM EngineNeverUnderstates == Spec => []NeverUnderstates
<1>1. Inv => NeverUnderstates
  BY DEF Inv
<1> QED
  BY <1>1, Invariance, PTL

\* The unsigned subtraction of run_execute_order never wraps around.
THEOREM SharesNeverWrap == Spec => []SharesInRange
<1>1. Inv => SharesInRange
  BY DEF Inv
<1> QED
  BY <1>1, Invariance, PTL

\* Running a deletion or a replacement again, any time later, changes no map.
THEOREM RetryIsHarmless == Spec => RetryHarmless
<1>1. Inv /\ [Next]_vars => [retried' # retried => engine' = engine]_vars
  <2> SUFFICES ASSUME Inv, Next, retried' # retried PROVE engine' = engine
    OBVIOUS
  <2>1. ASSUME NEW rec \in ended, Redeliver(rec)
        PROVE  engine' = engine
    BY <2>1, RedeliverNothing DEF Redeliver
  <2>2. \A rec : ~DeliverOrLose(rec)
    BY DEF DeliverOrLose, Deliver, Lose
  <2>3. \A r : ~ForeignRecord(r)
    BY DEF ForeignRecord
  <2>4. \A r, s, p, n, new_r :
          ~AddOrder(r, s, p, n) /\ ~ReduceOrder(r, n) /\ ~DeleteOrder(r) /\ ~ReplaceOrder(r, new_r, p, n)
    BY <2>2 DEF AddOrder, ReduceOrder, DeleteOrder, ReplaceOrder
  <2> QED
    BY <2>1, <2>3, <2>4 DEF Next
<1> QED
  BY <1>1, Invariance, PTL DEF Spec, RetryHarmless

-----------------------------------------------------------------------------
(***************************************************************************)
(* A complete feed.                                                        *)
(***************************************************************************)
Mirror == \A r \in Refs, s \in Sides : engine[s][r] = Mirrored(r, s)

\* An engine that has missed nothing finds a displayed order on its own side.
LEMMA MirrorFinds ==
  ASSUME Inv, Mirror, NEW r \in Refs, book[r] # Absent
  PROVE  /\ book[r] \in Displayed
         /\ book[r].side \in Sides
         /\ Known(engine, r)
         /\ FoundOn(engine, r) = book[r].side
         /\ engine[book[r].side][r] =
              [price |-> convert_to_fix(book[r].price), shares |-> book[r].shares]
<1>1. book[r] \in Displayed
  BY DisplayedNotAbsent DEF Inv
<1>2. book[r].side \in Sides
  BY <1>1 DEF Displayed
<1>3. engine[book[r].side][r] =
        [price |-> convert_to_fix(book[r].price), shares |-> book[r].shares]
  BY <1>2 DEF Mirror, Mirrored, Exchange!Live
<1>4. [price |-> convert_to_fix(book[r].price), shares |-> book[r].shares] \in Order
  <2>1. book[r].price \in Prices \cup {0} /\ book[r].shares \in 0 .. ShareLimit - 1
    BY <1>1 DEF Displayed
  <2>2. convert_to_fix(book[r].price) \in Nat
    BY <2>1, ConvertType
  <2> QED
    BY <2>1, <2>2 DEF Order
<1>5. engine[book[r].side][r] # Absent
  BY <1>3, <1>4
<1>6. \A t \in Sides : t # book[r].side => engine[t][r] = Absent
  BY DEF Mirror, Mirrored
<1> QED
  BY <1>1, <1>2, <1>3, <1>5, <1>6 DEF Known, FoundOn, Holds, Sides

\* A reference that was never used is in no map.
LEMMA UnusedUnknown ==
  ASSUME Inv, NEW r \in Refs, r \notin used
  PROVE  ~Known(engine, r) /\ \A t \in Sides : engine[t][r] = Absent
BY DEF Inv, SidesDisjoint, Known, Holds, Sides

LEMMA MirrorAdd ==
  ASSUME Inv, Mirror, NEW r \in Refs, NEW s \in Sides, NEW p \in Prices,
         NEW n \in 1 .. MaxOrderShares, NEW code \in AddCodes, Exchange!Add(r, s, p, n),
         Deliver(order_record(code, s = "buy", r, r, n, p))
  PROVE  Mirror' /\ missed_orders' = missed_orders
<1>1. TypeOK /\ engine[s][r] = Absent
  BY UnusedUnknown DEF Exchange!Add, Inv
<1>2. /\ missed_orders' = missed_orders
      /\ \A t \in Sides, q \in Refs :
           engine'[t][q] = IF t = s /\ q = r
                           THEN [price |-> convert_to_fix(p), shares |-> n]
                           ELSE engine[t][q]
  BY <1>1, AddDelivered
<1>3. /\ book'[r] = [side |-> s, price |-> p, shares |-> n]
      /\ \A q \in Refs \ {r} : book'[q] = book[q]
  BY <1>1 DEF Exchange!Add, TypeOK
<1>4. [side |-> s, price |-> p, shares |-> n] \in Displayed
  BY DEF Displayed
<1> QED
  BY <1>2, <1>3, <1>4, UnusedUnknown, AbsentIsNoOrder
     DEF Exchange!Add, Mirror, Mirrored, Exchange!Live

LEMMA MirrorReduce ==
  ASSUME Inv, Mirror, NEW r \in Refs, NEW n \in 1 .. MaxOrderShares,
         NEW code \in ExecuteCodes \cup {"X"}, Exchange!Reduce(r, n),
         Deliver(order_record(code, FALSE, r, r, n, 0))
  PROVE  Mirror' /\ missed_orders' = missed_orders
<1> DEFINE s == book[r].side
<1>1. TypeOK
  BY DEF Inv
<1>2. book[r] # Absent /\ n <= book[r].shares
  BY DEF Exchange!Reduce, Exchange!Live
<1>3. /\ book[r] \in Displayed
      /\ s \in Sides
      /\ Known(engine, r)
      /\ FoundOn(engine, r) = s
      /\ engine[s][r] = [price |-> convert_to_fix(book[r].price), shares |-> book[r].shares]
  BY <1>2, MirrorFinds
<1>4. missed_orders' = missed_orders
  BY <1>1, <1>3, ReduceDelivered
<1>5. \A t \in Sides, q \in Refs : engine'[t][q] = Reduced(r, n, t, q)
  BY <1>1, ReduceDelivered
<1>6. MinusShares(book[r].shares, n) = book[r].shares - n
  BY <1>2, <1>3 DEF MinusShares, Displayed
<1>7. engine'[s][r] = IF n = book[r].shares THEN Absent
                      ELSE [price |-> convert_to_fix(book[r].price), shares |-> book[r].shares - n]
  <2>1. engine[s][r].shares = book[r].shares /\ engine[s][r].price = convert_to_fix(book[r].price)
    BY <1>3
  <2>2. book[r].shares \in Nat
    BY <1>3 DEF Displayed
  <2>3. engine'[s][r] = IF book[r].shares - n = 0 THEN Absent
                        ELSE [price |-> convert_to_fix(book[r].price), shares |-> book[r].shares - n]
    BY <1>3, <1>5, <1>6, <2>1 DEF Reduced
  <2> QED
    BY <2>2, <2>3
<1>8. \A t \in Sides, q \in Refs : ~(t = s /\ q = r) => engine'[t][q] = engine[t][q]
  BY <1>3, <1>5 DEF Reduced
<1>9. /\ book'[r] = IF n = book[r].shares THEN Absent
                    ELSE [side |-> s, price |-> book[r].price, shares |-> book[r].shares - n]
      /\ \A q \in Refs \ {r} : book'[q] = book[q]
  BY <1>1 DEF Exchange!Reduce, TypeOK
<1>10. n # book[r].shares =>
         [side |-> s, price |-> book[r].price, shares |-> book[r].shares - n] \in Displayed
  BY <1>2, <1>3 DEF Displayed
<1>11. Mirror'
  <2> SUFFICES ASSUME NEW q \in Refs, NEW t \in Sides
               PROVE  engine'[t][q] = Mirrored(q, t)'
    BY DEF Mirror
  <2>1. CASE q # r
    BY <1>8, <1>9, <2>1 DEF Mirror, Mirrored, Exchange!Live
  <2>2. CASE q = r /\ n = book[r].shares
    <3>1. engine'[t][r] = Absent
      BY <1>7, <1>8, <2>2 DEF Mirror, Mirrored
    <3> QED
      BY <1>9, <2>2, <3>1 DEF Mirrored, Exchange!Live
  <2>3. CASE q = r /\ n # book[r].shares
    <3>1. /\ book'[r] # Absent /\ book'[r].side = s /\ book'[r].price = book[r].price
          /\ book'[r].shares = book[r].shares - n
      BY <1>9, <1>10, <2>3, AbsentIsNoOrder
    <3>2. t # s => engine[t][r] = Absent
      BY DEF Mirror, Mirrored
    <3>3. t # s => engine'[t][r] = Absent
      BY <1>8, <3>2
    <3> QED
      BY <1>7, <2>3, <3>1, <3>3 DEF Mirrored, Exchange!Live
  <2> QED
    BY <2>1, <2>2, <2>3
<1> QED
  BY <1>4, <1>11

LEMMA MirrorDelete ==
  ASSUME Inv, Mirror, NEW r \in Refs, Exchange!Delete(r),
         Deliver(order_record("D", FALSE, r, r, 0, 0))
  PROVE  Mirror' /\ missed_orders' = missed_orders
<1>1. TypeOK /\ book[r] # Absent
  BY DEF Inv, Exchange!Delete, Exchange!Live
<1>2. Known(engine, r) /\ FoundOn(engine, r) = book[r].side
  BY <1>1, MirrorFinds
<1>3. /\ missed_orders' = missed_orders
      /\ \A t \in Sides, q \in Refs :
           engine'[t][q] = IF Known(engine, r) /\ t = FoundOn(engine, r) /\ q = r
                           THEN Absent ELSE engine[t][q]
  BY <1>1, <1>2, DeleteDelivered
<1>4. book'[r] = Absent /\ \A q \in Refs \ {r} : book'[q] = book[q]
  BY <1>1 DEF Exchange!Delete, TypeOK
<1>5. \A t \in Sides : engine'[t][r] = Absent
  <2> TAKE t \in Sides
  <2>1. t # book[r].side => engine[t][r] = Absent
    BY DEF Mirror, Mirrored
  <2> QED
    BY <1>2, <1>3, <2>1
<1>6. Mirror'
  <2> SUFFICES ASSUME NEW q \in Refs, NEW t \in Sides
               PROVE  engine'[t][q] = Mirrored(q, t)'
    BY DEF Mirror
  <2>1. CASE q = r
    BY <1>4, <1>5, <2>1 DEF Mirrored, Exchange!Live
  <2>2. CASE q # r
    BY <1>3, <1>4, <2>2 DEF Mirror, Mirrored, Exchange!Live
  <2> QED
    BY <2>1, <2>2
<1> QED
  BY <1>3, <1>6

LEMMA MirrorReplace ==
  ASSUME Inv, Mirror, NEW r \in Refs, NEW new_r \in Refs, NEW p \in Prices,
         NEW n \in 1 .. MaxOrderShares, Exchange!Replace(r, new_r, p, n),
         Deliver(order_record("U", FALSE, r, new_r, n, p))
  PROVE  Mirror' /\ missed_orders' = missed_orders
<1> DEFINE s == book[r].side
<1>1. TypeOK
  BY DEF Inv
<1>2. book[r] # Absent /\ new_r \notin used
  BY DEF Exchange!Replace, Exchange!Live
<1>3. new_r # r
  BY <1>2 DEF Inv, BookUsed
<1>4. ~Known(engine, new_r) /\ \A t \in Sides : engine[t][new_r] = Absent
  BY <1>2, UnusedUnknown
<1>5. Known(engine, r) /\ FoundOn(engine, r) = s /\ s \in Sides
  BY <1>2, MirrorFinds
<1>6. missed_orders' = missed_orders
  BY <1>1, <1>3, <1>4, <1>5, ReplaceDelivered
<1>7. EntriesReplaced(r, new_r, n, p)
  BY <1>1, <1>3, <1>4, ReplaceDelivered
<1>8. \A t \in Sides, q \in Refs :
        engine'[t][q] = IF t = s /\ q = r THEN Absent
                        ELSE IF t = s /\ q = new_r
                             THEN [price |-> convert_to_fix(p), shares |-> n]
                             ELSE engine[t][q]
  BY <1>5, <1>7 DEF EntriesReplaced
<1>9. /\ book'[r] = Absent
      /\ book'[new_r] = [side |-> s, price |-> p, shares |-> n]
      /\ \A q \in Refs \ {r, new_r} : book'[q] = book[q]
  BY <1>1, <1>3 DEF Exchange!Replace, TypeOK
<1>10. [side |-> s, price |-> p, shares |-> n] \in Displayed
  BY <1>5 DEF Displayed
<1>11. Mirror'
  <2> SUFFICES ASSUME NEW q \in Refs, NEW t \in Sides
               PROVE  engine'[t][q] = Mirrored(q, t)'
    BY DEF Mirror
  <2>1. CASE q = r
    BY <1>3, <1>8, <1>9, <2>1 DEF Mirror, Mirrored, Exchange!Live
  <2>2. CASE q = new_r
    <3>1. /\ book'[q] # Absent /\ book'[q].side = s /\ book'[q].price = p
          /\ book'[q].shares = n
      BY <1>9, <1>10, <2>2, AbsentIsNoOrder
    <3> QED
      BY <1>3, <1>4, <1>8, <2>2, <3>1 DEF Mirrored, Exchange!Live
  <2>3. CASE q # r /\ q # new_r
    BY <1>8, <1>9, <2>3 DEF Mirror, Mirrored, Exchange!Live
  <2> QED
    BY <2>1, <2>2, <2>3
<1> QED
  BY <1>6, <1>11

LEMMA MirrorStep == Inv /\ MirrorsExchange /\ [Next]_vars => MirrorsExchange'
<1> SUFFICES ASSUME Inv, MirrorsExchange, [Next]_vars, lost' = 0
             PROVE  Mirror' /\ missed_orders' = retried' + foreign'
  BY DEF MirrorsExchange, Mirror
<1>1. lost = 0 /\ ~Lose
  <2>1. lost \in Nat
    BY DEF Inv, TypeOK
  <2>2. ~Lose
    BY <2>1 DEF Lose
  <2>3. \A rec : DeliverOrLose(rec) => lost' = lost
    BY <2>2 DEF DeliverOrLose, Deliver
  <2> QED
    BY <2>2, <2>3 DEF Next, AddOrder, ReduceOrder, DeleteOrder, ReplaceOrder, ForeignRecord,
       Redeliver, vars
<1>2. Mirror /\ missed_orders = retried + foreign
  BY <1>1 DEF MirrorsExchange, Mirror
<1>3. \A rec : DeliverOrLose(rec) => Deliver(rec) /\ retried' = retried /\ foreign' = foreign
  BY <1>1 DEF DeliverOrLose, Deliver
<1>4. ASSUME NEW r \in Refs, NEW s \in Sides, NEW p \in Prices, NEW n \in 1 .. MaxOrderShares,
             AddOrder(r, s, p, n)
      PROVE  Mirror' /\ missed_orders' = retried' + foreign'
  BY <1>2, <1>3, <1>4, MirrorAdd DEF AddOrder
<1>5. ASSUME NEW r \in Refs, NEW n \in 1 .. MaxOrderShares, ReduceOrder(r, n)
      PROVE  Mirror' /\ missed_orders' = retried' + foreign'
  BY <1>2, <1>3, <1>5, MirrorReduce DEF ReduceOrder
<1>6. ASSUME NEW r \in Refs, DeleteOrder(r)
      PROVE  Mirror' /\ missed_orders' = retried' + foreign'
  BY <1>2, <1>3, <1>6, MirrorDelete DEF DeleteOrder
<1>7. ASSUME NEW r \in Refs, NEW new_r \in Refs, NEW p \in Prices, NEW n \in 1 .. MaxOrderShares,
             ReplaceOrder(r, new_r, p, n)
      PROVE  Mirror' /\ missed_orders' = retried' + foreign'
  BY <1>2, <1>3, <1>7, MirrorReplace DEF ReplaceOrder
<1>8. engine' = engine /\ book' = book => Mirror'
  BY <1>2 DEF Mirror, Mirrored, Exchange!Live
<1>9. ASSUME NEW r \in Refs, ForeignRecord(r)
      PROVE  Mirror' /\ missed_orders' = retried' + foreign'
  <2>1. engine' = engine /\ missed_orders' = missed_orders + 1
    BY <1>9, ForeignNothing DEF ForeignRecord
  <2> QED
    BY <1>2, <1>8, <1>9, <2>1 DEF ForeignRecord, Inv, TypeOK
<1>10. ASSUME NEW rec \in ended, Redeliver(rec)
       PROVE  Mirror' /\ missed_orders' = retried' + foreign'
  <2>1. engine' = engine /\ missed_orders' = missed_orders + 1
    BY <1>10, RedeliverNothing DEF Redeliver
  <2> QED
    BY <1>2, <1>8, <1>10, <2>1 DEF Redeliver, Inv, TypeOK
<1>11. CASE UNCHANGED vars
  BY <1>2, <1>8, <1>11 DEF vars
<1> QED
  BY <1>4, <1>5, <1>6, <1>7, <1>9, <1>10, <1>11 DEF Next

\* When no record of the day is missing, the two maps are the exchange's book, and
\* missed_orders counts the redelivered and the foreign records and nothing else.
THEOREM CompleteFeedMirrors == Spec => []MirrorsExchange
<1>1. Init => MirrorsExchange
  BY DEF Init, Exchange!Init, MirrorsExchange, Mirrored, Exchange!Live, EmptyEngine
<1> QED
  BY <1>1, MirrorStep, Invariance, PTL DEF Spec
-----------------------------------------------------------------------------
(***************************************************************************)
(* The pair of maps implements the abstract order book of DisplayedBook,   *)
(* at the engine's own prices, until a record is lost.  While the maps     *)
(* mirror the exchange, the book they are read as is the exchange's with   *)
(* converted prices; so each message of the exchange is a step of it, and  *)
(* redelivered and foreign records are none.                               *)
(***************************************************************************)
AtFix(o) ==
  IF o = Absent
  THEN Absent
  ELSE [side |-> o.side, price |-> convert_to_fix(o.price), shares |-> o.shares]

BookAtFix == [r \in Refs |-> AtFix(book[r])]

LEMMA ViewIsBook == Inv /\ Mirror => EngineView = BookAtFix
<1> SUFFICES ASSUME Inv, Mirror, NEW r \in Refs
             PROVE  EngineView[r] = AtFix(book[r])
  BY DEF EngineView, BookAtFix
<1>1. CASE book[r] = Absent
  <2>1. ~Known(engine, r)
    BY <1>1 DEF Mirror, Mirrored, Exchange!Live, Known, Holds, Sides
  <2> QED
    BY <1>1, <2>1 DEF EngineView, AtFix
<1>2. CASE book[r] # Absent
  <2> DEFINE s == book[r].side
  <2>1. s \in Sides /\ Known(engine, r) /\ FoundOn(engine, r) = s
    BY <1>2, MirrorFinds
  <2>2. engine[s][r] = [price |-> convert_to_fix(book[r].price), shares |-> book[r].shares]
    BY <1>2, <2>1 DEF Mirror, Mirrored, Exchange!Live
  <2> HIDE DEF s
  <2>3. EngineView[r] = [side |-> s, price |-> engine[s][r].price, shares |-> engine[s][r].shares]
    BY <2>1 DEF EngineView
  <2> QED
    BY <1>2, <2>2, <2>3 DEF AtFix, s
<1> QED
  BY <1>1, <1>2

\* An order that is displayed is an order of the view.
LEMMA AtFixLive ==
  ASSUME TypeOK, NEW r \in Refs, book[r] # Absent
  PROVE  /\ AtFix(book[r]) # Absent
         /\ AtFix(book[r]).side = book[r].side
         /\ AtFix(book[r]).shares = book[r].shares
         /\ book[r].shares \in 1 .. MaxOrderShares
<1>1. book[r] \in Displayed
  BY DisplayedNotAbsent
<1>2. book[r].side \in Sides /\ book[r].price \in Prices /\ book[r].shares \in 1 .. MaxOrderShares
  BY <1>1 DEF Displayed
<1>3. convert_to_fix(book[r].price) \in Nat
  BY <1>2, ConvertType
<1>4. AtFix(book[r]) \in [side : Sides, price : Nat, shares : Nat]
  BY <1>2, <1>3 DEF AtFix
<1> QED
  BY <1>2, <1>4 DEF AtFix

\* Each change of the exchange's book is one of the view.
LEMMA AddView ==
  ASSUME TypeOK, NEW r \in Refs, NEW s \in Sides, NEW p \in Prices, NEW n \in 1 .. MaxOrderShares,
         Exchange!Add(r, s, p, n), EngineView = BookAtFix, EngineView' = BookAtFix'
  PROVE  View!Next
<1> DEFINE o == [side |-> s, price |-> p, shares |-> n]
<1>1. o # Absent
  OBVIOUS
<1>2. AtFix(o) = [side |-> s, price |-> convert_to_fix(p), shares |-> n]
  BY <1>1 DEF AtFix
<1>3. BookAtFix' = [BookAtFix EXCEPT ![r] = AtFix(o)]
  BY DEF BookAtFix, Exchange!Add, TypeOK
<1>4. convert_to_fix(p) \in EnginePrices
  BY DEF EnginePrices
<1>5. View!Add(r, s, convert_to_fix(p), n)
  BY <1>2, <1>3 DEF View!Add, Exchange!Add
<1> QED
  BY <1>4, <1>5 DEF View!Next, View!Sides, Sides

LEMMA ReduceView ==
  ASSUME TypeOK, NEW r \in Refs, NEW n \in 1 .. MaxOrderShares,
         Exchange!Reduce(r, n), EngineView = BookAtFix, EngineView' = BookAtFix'
  PROVE  View!Next
<1>1. book[r] # Absent /\ n <= book[r].shares
  BY DEF Exchange!Reduce, Exchange!Live
<1> DEFINE o == [side |-> book[r].side, price |-> book[r].price, shares |-> book[r].shares - n]
           left == IF n = book[r].shares THEN Absent ELSE o
           v == BookAtFix[r]
<1>2. book' = [book EXCEPT ![r] = left]
  BY DEF Exchange!Reduce, TypeOK
<1>3. v # Absent /\ v.side = book[r].side /\ v.shares = book[r].shares
      /\ v.price = convert_to_fix(book[r].price)
  BY <1>1, AtFixLive DEF BookAtFix, AtFix
<1>4. n # book[r].shares => o \in Displayed
  BY <1>1, DisplayedNotAbsent DEF Displayed
<1>5. AtFix(left) =
        IF n = v.shares THEN Absent
        ELSE [side |-> v.side, price |-> v.price, shares |-> v.shares - n]
  BY <1>3, <1>4 DEF AtFix, Displayed
<1>6. BookAtFix' = [BookAtFix EXCEPT ![r] = AtFix(left)]
  BY <1>2 DEF BookAtFix, TypeOK
<1> HIDE DEF v, left, o
<1>7. View!Reduce(r, n)
  BY <1>1, <1>3, <1>5, <1>6 DEF View!Reduce, View!Live, Exchange!Reduce, v, BookAtFix
<1> QED
  BY <1>7 DEF View!Next

LEMMA DeleteView ==
  ASSUME TypeOK, NEW r \in Refs, Exchange!Delete(r),
         EngineView = BookAtFix, EngineView' = BookAtFix'
  PROVE  View!Next
<1>1. book[r] # Absent
  BY DEF Exchange!Delete, Exchange!Live
<1>2. BookAtFix[r] # Absent
  BY <1>1, AtFixLive DEF BookAtFix
<1>3. BookAtFix' = [BookAtFix EXCEPT ![r] = Absent]
  BY DEF BookAtFix, AtFix, Exchange!Delete, TypeOK
<1>4. View!Delete(r)
  BY <1>2, <1>3 DEF View!Delete, View!Live, Exchange!Delete
<1> QED
  BY <1>4 DEF View!Next

LEMMA ReplaceView ==
  ASSUME TypeOK, NEW r \in Refs, NEW new_r \in Refs, NEW p \in Prices,
         NEW n \in 1 .. MaxOrderShares, Exchange!Replace(r, new_r, p, n),
         EngineView = BookAtFix, EngineView' = BookAtFix'
  PROVE  View!Next
<1>1. book[r] # Absent
  BY DEF Exchange!Replace, Exchange!Live
<1> DEFINE o == [side |-> book[r].side, price |-> p, shares |-> n]
<1>2. o # Absent
  BY <1>1, DisplayedNotAbsent DEF Displayed
<1>3. /\ BookAtFix[r] # Absent
      /\ BookAtFix[r].side = book[r].side
  BY <1>1, AtFixLive DEF BookAtFix
<1>4. AtFix(o) = [side |-> BookAtFix[r].side, price |-> convert_to_fix(p), shares |-> n]
  BY <1>2, <1>3 DEF AtFix
<1>5. BookAtFix' = [BookAtFix EXCEPT ![r] = Absent, ![new_r] = AtFix(o)]
  BY DEF BookAtFix, AtFix, Exchange!Replace, TypeOK
<1>6. convert_to_fix(p) \in EnginePrices
  BY DEF EnginePrices
<1> HIDE DEF o
<1>7. View!Replace(r, new_r, convert_to_fix(p), n)
  BY <1>3, <1>4, <1>5 DEF View!Replace, View!Live, Exchange!Replace
<1> QED
  BY <1>6, <1>7 DEF View!Next

LEMMA ViewStep ==
  ASSUME TypeOK, Inv, Mirror, lost' = lost, [Next]_vars,
         EngineView = BookAtFix, EngineView' = BookAtFix'
  PROVE  View!Next \/ UNCHANGED <<EngineView, used>>
<1>1. ASSUME NEW r \in Refs, NEW s \in Sides, NEW p \in Prices, NEW n \in 1 .. MaxOrderShares,
             AddOrder(r, s, p, n)
      PROVE  View!Next
  BY <1>1, AddView DEF AddOrder
<1>2. ASSUME NEW r \in Refs, NEW n \in 1 .. MaxOrderShares, ReduceOrder(r, n)
      PROVE  View!Next
  BY <1>2, ReduceView DEF ReduceOrder
<1>3. ASSUME NEW r \in Refs, DeleteOrder(r) PROVE View!Next
  BY <1>3, DeleteView DEF DeleteOrder
<1>4. ASSUME NEW r \in Refs, NEW new_r \in Refs, NEW p \in Prices, NEW n \in 1 .. MaxOrderShares,
             ReplaceOrder(r, new_r, p, n)
      PROVE  View!Next
  BY <1>4, ReplaceView DEF ReplaceOrder
<1>5. book' = book => BookAtFix' = BookAtFix
  BY DEF BookAtFix
<1>6. CASE (\E r \in Refs : ForeignRecord(r)) \/ (\E rec \in ended : Redeliver(rec)) \/ UNCHANGED vars
  BY <1>5, <1>6 DEF ForeignRecord, Redeliver, vars
<1> QED
  BY <1>1, <1>2, <1>3, <1>4, <1>6 DEF Next

\* Spec implements the abstract book step by step until a record is lost: run_order's
\* two maps, searched buy first, are one order book.
THEOREM EngineImplementsBook == Spec => EngineIsABook
<1>1. Init => View!Init
  <2> SUFFICES ASSUME Init PROVE View!Init
    OBVIOUS
  <2>1. Inv /\ Mirror
    BY InitInv DEF Init, Exchange!Init, Mirror, Mirrored, Exchange!Live, EmptyEngine
  <2>2. EngineView = BookAtFix
    BY <2>1, ViewIsBook
  <2> QED
    BY <2>2 DEF Init, Exchange!Init, View!Init, BookAtFix, AtFix
<1>2. MirrorsExchange /\ lost = 0 => Mirror
  BY DEF MirrorsExchange, Mirror
<1>3. Inv /\ Inv' /\ [Next]_vars /\ lost' = 0 => lost = 0
  <2> SUFFICES ASSUME Inv, [Next]_vars, lost' = 0 PROVE lost = 0
    OBVIOUS
  <2>1. lost \in Nat /\ ~Lose
    BY DEF Inv, TypeOK, Lose
  <2> QED
    BY <2>1 DEF Next, AddOrder, ReduceOrder, DeleteOrder, ReplaceOrder, ForeignRecord,
       Redeliver, vars, DeliverOrLose, Deliver
<1>4. (Inv /\ MirrorsExchange /\ lost = 0 => EngineView = BookAtFix)'
  BY ViewIsBook, <1>2, PTL
<1>5. Inv /\ Inv' /\ MirrorsExchange /\ MirrorsExchange' /\ [Next]_vars
        => [lost' = 0 => View!Next]_<<EngineView, used>>
  <2> SUFFICES ASSUME Inv, Inv', MirrorsExchange, MirrorsExchange', [Next]_vars, lost' = 0
               PROVE  View!Next \/ UNCHANGED <<EngineView, used>>
    OBVIOUS
  <2>1. lost = 0
    BY <1>3
  <2>2. Mirror /\ EngineView = BookAtFix
    BY <1>2, <2>1, ViewIsBook
  <2>3. EngineView' = BookAtFix'
    BY <1>4
  <2> QED
    BY <2>1, <2>2, <2>3, ViewStep DEF Inv
<1> QED
  BY <1>1, <1>5, Invariance, CompleteFeedMirrors, PTL DEF Spec, EngineIsABook
=============================================================================
