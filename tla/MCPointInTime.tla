--------------------------- MODULE MCPointInTime ---------------------------
(***************************************************************************)
(* PointInTime for TLC: a day of three periods after a day of which only   *)
(* the last instant matters; an order that is added, and reduced by one.   *)
(***************************************************************************)
EXTENDS PointInTime, TLC

MCNoPrices == {}

MCRecords(r) ==
  {order_record("A", TRUE, r, r, 3, 10000),
   order_record("E", FALSE, r, r, 1, 0)}
MCOneOrder == UNION {MCRecords(r) : r \in Refs}

ClientSymmetry == Permutations(Clients)
=============================================================================
