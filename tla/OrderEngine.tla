---------------------------- MODULE OrderEngine ----------------------------
(***************************************************************************)
(* The order maps of itch::execution_engine and the operations that        *)
(* run_order dispatches to, as operators on an engine state.               *)
(*                                                                         *)
(* A map of the engine (robin_hood::unordered_flat_map) is a total         *)
(* function on the references; a reference the map does not hold is mapped *)
(* to Absent.  An engine is the pair of its two maps, indexed by the side. *)
(* A price is the integer of the feed, in ten-thousandths of a dollar.     *)
(***************************************************************************)
EXTENDS Integers

CONSTANTS
  Refs,        \* order reference numbers
  Prices,      \* prices the feed may carry, in 1/10000 of a dollar
  RoundsDown,  \* prices whose product by 1000.0 falls just below the integer
  ShareLimit,  \* number of values of the shares field (2^32 in the code)
  Absent       \* what a map holds for a reference that is not in it

Order == [price : Nat, shares : 0 .. ShareLimit - 1]

ASSUME EngineAssumption ==
  /\ Prices \subseteq Nat
  /\ RoundsDown \subseteq {p \in Prices : p > 0 /\ p % 10 = 0}
  /\ ShareLimit \in Nat \ {0}
  /\ Absent \notin Order

Sides == {"buy", "sell"}

OrderMap == [Refs -> Order \cup {Absent}]
Engines  == [Sides -> OrderMap]

EmptyEngine == [s \in Sides |-> [r \in Refs |-> Absent]]

SideOf(is_buy) == IF is_buy THEN "buy" ELSE "sell"

(***************************************************************************)
(* static_cast<uint32_t>(p * 1000.0): three decimals are kept, and the     *)
(* double product of an exact multiple of a thousandth may be a hair below *)
(* it (1.001 * 1000.0 is 1000.9999...), which truncation takes down by one.*)
(***************************************************************************)
convert_to_fix(p) == IF p \in RoundsDown THEN (p \div 10) - 1 ELSE p \div 10

(***************************************************************************)
(* Operations on one map: emplace leaves an existing entry alone, erase    *)
(* removes the entry, and shares -= n wraps like the unsigned field it is. *)
(***************************************************************************)
emplace(m, r, o) == IF m[r] = Absent THEN [m EXCEPT ![r] = o] ELSE m

erase(m, r) == [m EXCEPT ![r] = Absent]

MinusShares(a, b) == IF b <= a THEN a - b ELSE (a - b) + ShareLimit

\* Mutant: E falls through to X and the shares are taken twice, in a signed field.
ExecuteTwice(m, r, n) ==
  [m EXCEPT ![r] = [price |-> m[r].price, shares |-> m[r].shares - 2 * n]]

\* Mutant: an order without shares stays in the map.
ExecuteKeepsEmpty(m, r, n) ==
  [m EXCEPT ![r] = [price |-> m[r].price, shares |-> MinusShares(m[r].shares, n)]]

ExecuteIn(m, r, n) ==
  LET left == MinusShares(m[r].shares, n)
  IN  IF left = 0
      THEN erase(m, r)
      ELSE [m EXCEPT ![r] = [price |-> m[r].price, shares |-> left]]

(***************************************************************************)
(* The engine's lookup: the buy map first, the sell map if it is not there.*)
(***************************************************************************)
Holds(e, s, r) == e[s][r] # Absent
Known(e, r)    == Holds(e, "buy", r) \/ Holds(e, "sell", r)
FoundOn(e, r)  == IF Holds(e, "buy", r) THEN "buy" ELSE "sell"

run_add_order(e, s, r, n, p) ==
  [e EXCEPT ![s] = emplace(e[s], r, [price |-> convert_to_fix(p), shares |-> n])]

run_execute_order(e, r, n) ==
  LET s == FoundOn(e, r)
  IN  IF Known(e, r) THEN [e EXCEPT ![s] = ExecuteIn(e[s], r, n)] ELSE e

run_cancel_order(e, r, n) == run_execute_order(e, r, n)

\* Mutant: only the buy map is searched.
DeleteBuyOnly(e, r) ==
  IF Holds(e, "buy", r) THEN [e EXCEPT !["buy"] = erase(e["buy"], r)] ELSE e

run_delete_order(e, r) ==
  LET s == FoundOn(e, r)
  IN  IF Known(e, r) THEN [e EXCEPT ![s] = erase(e[s], r)] ELSE e

\* Mutant: the result of find is not checked.
ReplaceUnknown(e, r, new_r, n, p) ==
  LET s == FoundOn(e, r)
  IN  run_add_order([e EXCEPT ![s] = erase(e[s], r)], s, new_r, n, p)

\* Mutant: the replaced order is not erased.
ReplaceKeepsOld(e, r, new_r, n, p) ==
  IF Known(e, r) THEN run_add_order(e, FoundOn(e, r), new_r, n, p) ELSE e

\* Mutant: the new order is always a buy order.
ReplaceAsBuy(e, r, new_r, n, p) ==
  LET s == FoundOn(e, r)
  IN  IF Known(e, r)
      THEN run_add_order([e EXCEPT ![s] = erase(e[s], r)], "buy", new_r, n, p)
      ELSE e

run_replace_order(e, r, new_r, n, p) ==
  LET s == FoundOn(e, r)
  IN  IF Known(e, r)
      THEN run_add_order([e EXCEPT ![s] = erase(e[s], r)], s, new_r, n, p)
      ELSE e

(***************************************************************************)
(* order_record and run_order.  The order_type is the ITCH message code;   *)
(* fields the message does not carry hold any value and are not read.      *)
(***************************************************************************)
AddCodes     == {"A", "F"}
ExecuteCodes == {"E", "C"}
OrderCodes   == AddCodes \cup ExecuteCodes \cup {"X", "D", "U"}

\* "P" (a trade) stands for the messages that are not about an order.
OrderRecord ==
  [order_type : OrderCodes \cup {"P"}, is_buy : BOOLEAN, reference : Refs,
   new_reference : Refs, shares : 0 .. ShareLimit - 1, price : Prices \cup {0}]

order_record(code, is_buy, r, new_r, n, p) ==
  [order_type |-> code, is_buy |-> is_buy, reference |-> r,
   new_reference |-> new_r, shares |-> n, price |-> p]

run_order(e, rec) ==
  CASE rec.order_type \in AddCodes ->
         run_add_order(e, SideOf(rec.is_buy), rec.reference, rec.shares, rec.price)
    [] rec.order_type \in ExecuteCodes ->
         run_execute_order(e, rec.reference, rec.shares)
    [] rec.order_type = "X" ->
         run_cancel_order(e, rec.reference, rec.shares)
    [] rec.order_type = "D" ->
         run_delete_order(e, rec.reference)
    [] rec.order_type = "U" ->
         run_replace_order(e, rec.reference, rec.new_reference, rec.shares, rec.price)
    [] OTHER -> e

\* The value run_order returns; false is what main counts as a missed order.
run_order_result(e, rec) ==
  \/ rec.order_type \in AddCodes
  \/ rec.order_type \in OrderCodes \ AddCodes /\ Known(e, rec.reference)
=============================================================================
