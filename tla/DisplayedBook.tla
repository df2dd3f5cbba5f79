--------------------------- MODULE DisplayedBook ---------------------------
(***************************************************************************)
(* What an order book is: the orders the exchange displays, by reference.  *)
(* The exchange accepts an order under a reference it has never used, takes*)
(* shares off an order until none are left, deletes it, or replaces it by  *)
(* an order with a new reference on the same side.                         *)
(*                                                                         *)
(* The module stands for the ITCH feed, which is outside the repository,   *)
(* and is what the engine's pair of maps is shown to implement.            *)
(***************************************************************************)
EXTENDS Integers

CONSTANTS
  Refs,            \* order reference numbers
  Prices,          \* prices of orders
  MaxOrderShares,  \* largest order
  Absent           \* the book's value for a reference that is not displayed

VARIABLES
  book,  \* the displayed order of each reference, or Absent
  used   \* references used so far today

Sides     == {"buy", "sell"}
Displayed == [side : Sides, price : Prices, shares : 1 .. MaxOrderShares]

Live(r) == book[r] # Absent

BookType ==
  /\ book \in [Refs -> Displayed \cup {Absent}]
  /\ used \subseteq Refs

Init ==
  /\ book = [r \in Refs |-> Absent]
  /\ used = {}

Add(r, s, p, n) ==
  /\ r \notin used
  /\ book' = [book EXCEPT ![r] = [side |-> s, price |-> p, shares |-> n]]
  /\ used' = used \cup {r}

\* An execution or a partial cancel of n shares.
Reduce(r, n) ==
  /\ Live(r)
  /\ n <= book[r].shares
  /\ book' = [book EXCEPT ![r] =
                IF n = @.shares THEN Absent
                ELSE [side |-> @.side, price |-> @.price, shares |-> @.shares - n]]
  /\ UNCHANGED used

Delete(r) ==
  /\ Live(r)
  /\ book' = [book EXCEPT ![r] = Absent]
  /\ UNCHANGED used

Replace(r, new_r, p, n) ==
  /\ Live(r)
  /\ new_r \notin used
  /\ book' = [book EXCEPT ![r] = Absent,
                          ![new_r] = [side |-> book[r].side, price |-> p, shares |-> n]]
  /\ used' = used \cup {new_r}

Next ==
  \E r \in Refs :
    \/ \E s \in Sides, p \in Prices, n \in 1 .. MaxOrderShares : Add(r, s, p, n)
    \/ \E n \in 1 .. MaxOrderShares : Reduce(r, n)
    \/ Delete(r)
    \/ \E new_r \in Refs, p \in Prices, n \in 1 .. MaxOrderShares : Replace(r, new_r, p, n)

Spec == Init /\ [][Next]_<<book, used>>
=============================================================================
