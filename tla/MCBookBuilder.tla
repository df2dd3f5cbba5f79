--------------------------- MODULE MCBookBuilder ---------------------------
(***************************************************************************)
(* BookBuilder for TLC: every pair of maps over three references, two      *)
(* adjacent prices and three sizes, some of which overflow when added; and *)
(* every pair of maps over all four references with sizes 1 and 7 at one   *)
(* price, so that the totals of both sides may wrap to 0.                  *)
(***************************************************************************)
EXTENDS BookBuilder

MCNoPrices == {}
MCSizes    == {1, 5, 7}

Placed   == [side : Sides, order : [price : {1000, 1001}, shares : MCSizes]]
OnePrice == [side : Sides, order : [price : {1000}, shares : {1, 7}]]

Placements ==
  {f \in [Refs -> Placed \cup {Absent}] : f[4] = Absent} \cup [Refs -> OnePrice]

MCInputs ==
  {[s \in Sides |-> [r \in Refs |-> IF f[r] # Absent /\ f[r].side = s THEN f[r].order ELSE Absent]] :
     f \in Placements}
=============================================================================
