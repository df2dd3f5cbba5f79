---------------------------- MODULE ColumnReader ----------------------------
(***************************************************************************)
(* get_orders_records: seven separate reads, one per column of the orders  *)
(* table over one range, paired by index into order records, while the     *)
(* ingestion of orders goes on.                                            *)
(*                                                                         *)
(* What a column holds is abstracted to the row each value belongs to: an  *)
(* assembled record is right when its seven values come from one row.      *)
(***************************************************************************)
EXTENDS Integers, Sequences

CONSTANT
  Rows  \* rows that may be ingested

VARIABLES
  table,   \* the rows of the range, in the order of their timestamps
  pc,      \* "reading", "thrown" or "done"
  column   \* the values read so far, one sequence of rows per column

vars == <<table, pc, column>>

\* The columns in the order they are read.
Columns == <<"type", "reference", "original_reference", "new_reference",
             "is_buy", "shares", "price">>
TYPE == 1
REF  == 2

RowsIn(s) == {s[i] : i \in 1 .. Len(s)}

Init ==
  /\ table = <<>>
  /\ pc = "reading"
  /\ column = <<>>

\* A row is ingested as a whole, in the order of the timestamps.
Ingest(r) ==
  /\ r \notin RowsIn(table)
  /\ table' = Append(table, r)
  /\ UNCHANGED <<pc, column>>

\* get_ranges_int64 or get_ranges_double on the next column.
GetRanges ==
  /\ pc = "reading"
  /\ Len(column) < Len(Columns)
  /\ column' = Append(column, table)
  /\ UNCHANGED <<table, pc>>

\* A read fails: throw_on_failure.
ReadFails ==
  /\ pc = "reading"
  /\ Len(column) < Len(Columns)
  /\ pc' = "thrown"
  /\ UNCHANGED <<table, column>>

Coherent == Len(column[TYPE]) = Len(column[REF])

\* "incoherence column count"
Throw ==
  /\ pc = "reading"
  /\ Len(column) = Len(Columns)
  /\ ~Coherent
  /\ pc' = "thrown"
  /\ UNCHANGED <<table, column>>

Assemble ==
  /\ pc = "reading"
  /\ Len(column) = Len(Columns)
  /\ Coherent
  /\ pc' = "done"
  /\ UNCHANGED <<table, column>>

Next ==
  \/ \E r \in Rows : Ingest(r)
  \/ GetRanges
  \/ ReadFails
  \/ Throw
  \/ Assemble

Spec == Init /\ [][Next]_vars

-----------------------------------------------------------------------------
\* Mutant: the loop runs to the count of the last column.
RecordsOfLast == 1 .. Len(column[Len(Columns)])

\* The indices of the loop over order_type.count.
Records == 1 .. Len(column[TYPE])

\* The records are assembled by index from the seven columns, of which only two
\* have their counts compared: no index is past the end of a column, every record
\* is one row of the table, and together they are the first rows of the table.
RecordsAreRows ==
  pc = "done" =>
    \A i \in Records :
      /\ \A k \in 1 .. Len(Columns) : i <= Len(column[k]) /\ column[k][i] = column[TYPE][i]
      /\ column[TYPE][i] = table[i]
=============================================================================
