---------------------------- MODULE MCMarketFeed ----------------------------
(***************************************************************************)
(* MarketFeed for TLC: references are interchangeable model values.        *)
(***************************************************************************)
EXTENDS MarketFeed, TLC

MCPrices     == {10000, 10010}
MCRoundsDown == {10010}

RefSymmetry == Permutations(Refs)
=============================================================================
