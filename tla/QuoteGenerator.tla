-------------------------- MODULE QuoteGenerator --------------------------
(***************************************************************************)
(* quote_generator: a series of prices between a first and a last one is   *)
(* filled by splitting ranges in the middle (after the diamond-square      *)
(* algorithm), with noise that gets smaller from generation to generation. *)
(*                                                                         *)
(* The recursion of fill_values is a stack of ranges that are still to be  *)
(* filled.  The minimum and the maximum that its calls return and combine  *)
(* are kept in low and high.  Prices are integers.                         *)
(***************************************************************************)
EXTENDS Integers, Sequences

CONSTANTS
  Initial,     \* _last: the product's initial price
  Amplitude,   \* the noise is between -Amplitude and Amplitude
  FillFloor,   \* least value that is filled in: 0.01
  BackFloor    \* least last value: 0.0001

\* The products of dow_jones.cpp start at 30.0 and above.
ASSUME GeneratorAssumption ==
  /\ Initial \in Nat \ {0}
  /\ BackFloor <= Initial
  /\ Amplitude \in Nat
  /\ BackFloor \in Nat \ {0}
  /\ FillFloor \in Nat /\ BackFloor <= FillFloor

VARIABLES
  values,    \* the prices; 0 where there is none yet
  ranges,    \* calls of fill_values still to be made: [first, last, generation]
  low, high  \* of the prices met so far

quoteVars == <<values, ranges, low, high>>

AtLeast(floor, price) == IF price < floor THEN floor ELSE price
Least(p, q)    == IF p < q THEN p ELSE q
Greatest(p, q) == IF p < q THEN q ELSE p

QuoteInit ==
  /\ values = <<>>
  /\ ranges = <<>>
  /\ low = 0
  /\ high = 0

\* operator(): the two ends, and the call for the whole range, last excluded.
Generate(volume) ==
  \E noise \in -Amplitude .. Amplitude :
    /\ values' = [i \in 1 .. volume |->
         CASE i = volume -> AtLeast(BackFloor, Initial + 2 * noise)
           [] i = 1 /\ i # volume -> Initial
           [] OTHER -> 0]
    /\ ranges' = <<[first |-> 1, last |-> volume + 1, generation |-> 1]>>
    /\ low' = Initial
    /\ high' = Initial

\* Mutant: the right half starts after the middle.
SplitAfter(range, middle) ==
  (IF middle - range.first >= 2
   THEN <<[first |-> range.first, last |-> middle + 1, generation |-> range.generation + 1]>>
   ELSE <<>>)
  \o (IF range.last - middle >= 2
      THEN <<[first |-> middle + 1, last |-> range.last, generation |-> range.generation + 1]>>
      ELSE <<>>)

\* The recursive calls: the left half with the middle, then the right half from it on.
Split(range, middle) ==
  (IF middle - range.first >= 2
   THEN <<[first |-> range.first, last |-> middle + 1, generation |-> range.generation + 1]>>
   ELSE <<>>)
  \o (IF range.last - middle >= 2
      THEN <<[first |-> middle, last |-> range.last, generation |-> range.generation + 1]>>
      ELSE <<>>)

\* One call of fill_values, up to its recursive calls.
Fill ==
  /\ ranges # <<>>
  /\ LET range  == Head(ranges)
         front  == values[range.first]
         back   == values[range.last - 1]
         middle == range.first + Greatest((range.last - range.first) \div 2, 1)
         share  == Amplitude \div range.generation
     IN  \E noise \in -share .. share :
           LET price == AtLeast(FillFloor, ((front + back) \div 2) + noise)
           IN  /\ values' = [values EXCEPT ![middle] = price]
               /\ low' = Least(low, Least(price, Least(front, back)))
               /\ high' = Greatest(high, Greatest(price, Greatest(front, back)))
               /\ ranges' = Split(range, middle) \o Tail(ranges)

Filled == values # <<>> /\ ranges = <<>>
=============================================================================
