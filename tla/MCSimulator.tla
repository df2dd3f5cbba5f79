---------------------------- MODULE MCSimulator ----------------------------
(***************************************************************************)
(* Simulator for TLC: two simulators, two brokers that quote one product,  *)
(* a greedy trader and a cheater.  One simulator may trade, four turns     *)
(* long; the other one re-creates every table without trading, or trades   *)
(* fast like the first.  Tables have a first and a last column instead of  *)
(* the code's five and four: a row is cut before its last column, or after *)
(* its first.                                                              *)
(***************************************************************************)
EXTENDS Simulator

CONSTANTS s1, s2

Trade(n) == [fast |-> FALSE, iterations |-> n]
Fast(n)  == [fast |-> TRUE, iterations |-> n]

MCConfigs ==
  [s \in Simulators |-> IF s = s1 THEN {Trade(2), Fast(4)} ELSE {Trade(0), Fast(2), Fast(3)}]

MCProducts     == <<"AAPL">>
MCBrokers      == <<"bloom", "tom">>
MCTraders      == <<"Bob", "Cobra">>
MCMarket       == {<<2, 1>>}
MCQuoteColumns == <<"volume", "close">>
MCTradeColumns == <<"product", "value">>
=============================================================================
