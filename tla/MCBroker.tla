----------------------------- MODULE MCBroker -----------------------------
(***************************************************************************)
(* Broker for TLC: two brokers and two quotes, series of two to five       *)
(* prices, a counter that is faster than the units and one that is slower. *)
(***************************************************************************)
EXTENDS Broker

MCCounters == {[factor |-> 2, frequency |-> 5], [factor |-> 5, frequency |-> 3]}
=============================================================================
