----------------------------- MODULE WholeRows -----------------------------
(***************************************************************************)
(* What the simulator's tables promise to a program that reads them: a     *)
(* table appears empty and disappears as a whole; rows come in one at a    *)
(* time or several at once, with all of their columns; one writer's rows   *)
(* come in the order of their timestamps; no row ever changes.  How many   *)
(* rows a step adds is left open.                                          *)
(***************************************************************************)
EXTENDS Integers

CONSTANT Names   \* names of tables

VARIABLES
  there,   \* the tables that exist
  whole    \* whole[name]: the rows of the table that have every column

Init == there = {} /\ whole = [name \in Names |-> {}]

Create(name) ==
  /\ name \notin there
  /\ there' = there \cup {name}
  /\ UNCHANGED whole

Drop(name) ==
  /\ name \in there
  /\ there' = there \ {name}
  /\ whole' = [whole EXCEPT ![name] = {}]

\* The rows of the step are by one writer, and later than its rows in the table.
Later(old, new) ==
  /\ \A q, r \in new : q.by = r.by
  /\ \A q \in old, r \in new : q.by = r.by => q.at < r.at

Insert(name) ==
  /\ name \in there
  /\ whole[name] \subseteq whole'[name]
  /\ Later(whole[name], whole'[name] \ whole[name])
  /\ whole' = [whole EXCEPT ![name] = whole'[name]]
  /\ UNCHANGED there

Next == \E name \in Names : Create(name) \/ Drop(name) \/ Insert(name)

Spec == Init /\ [][Next]_<<there, whole>>
=============================================================================
