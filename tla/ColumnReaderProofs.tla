------------------------ MODULE ColumnReaderProofs ------------------------
(***************************************************************************)
(* The records that get_orders_records assembles are rows of the table,    *)
(* for any number of rows and whenever they are ingested.                  *)
(***************************************************************************)
EXTENDS ColumnReader, SequenceTheorems, TLAPS

StartOf(s, t) == Len(s) <= Len(t) /\ \A i \in 1 .. Len(s) : s[i] = t[i]

(***************************************************************************)
(* Rows are only appended, so every column is the start of the table at    *)
(* the time it was read, and a column read later is no shorter.            *)
(***************************************************************************)
Inv ==
  /\ table \in Seq(Rows)
  /\ pc \in {"reading", "thrown", "done"}
  /\ column \in Seq(Seq(Rows))
  /\ pc = "done" => Len(column) = Len(Columns)
  /\ \A k \in 1 .. Len(column) : StartOf(column[k], table)
  /\ \A k \in 1 .. Len(column) : \A j \in 1 .. k : Len(column[j]) <= Len(column[k])

LEMMA SevenColumns == Len(Columns) = 7
BY DEF Columns

\* A table that grows keeps its starts.
LEMMA StartOfAppend ==
  ASSUME NEW s \in Seq(Rows), NEW t \in Seq(Rows), NEW r \in Rows, StartOf(s, t)
  PROVE  StartOf(s, Append(t, r))
<1>1. /\ Len(s) \in Nat /\ Len(t) \in Nat /\ Len(Append(t, r)) = Len(t) + 1
      /\ \A i \in 1 .. Len(t) : Append(t, r)[i] = t[i]
  BY LenProperties
<1> QED
  BY <1>1 DEF StartOf

LEMMA InvStep == Inv /\ [Next]_vars => Inv'
<1> SUFFICES ASSUME Inv, [Next]_vars PROVE Inv'
  OBVIOUS
<1> USE DEF Inv
<1>1. ASSUME NEW r \in Rows, Ingest(r) PROVE Inv'
  <2>1. table' = Append(table, r) /\ pc' = pc /\ column' = column
    BY <1>1 DEF Ingest
  <2>2. table' \in Seq(Rows)
    BY <2>1
  <2>3. \A k \in 1 .. Len(column) : StartOf(column[k], table)'
    <3> SUFFICES ASSUME NEW k \in 1 .. Len(column) PROVE StartOf(column[k], table')
      BY <2>1 DEF StartOf
    <3>1. column[k] \in Seq(Rows)
      BY ElementOfSeq
    <3> QED
      BY <2>1, <3>1, StartOfAppend
  <2> QED
    BY <2>1, <2>2, <2>3
<1>2. CASE GetRanges
  <2>1. table' = table /\ pc' = pc /\ column' = Append(column, table) /\ pc = "reading"
    BY <1>2 DEF GetRanges
  <2> DEFINE n == Len(column)
  <2>2. n \in Nat
    BY LenProperties
  <2>3. /\ column' \in Seq(Seq(Rows)) /\ Len(column') = n + 1
        /\ \A k \in 1 .. n : column'[k] = column[k]
        /\ column'[n + 1] = table
    BY <2>1
  <2> HIDE DEF n
  <2>4. \A k \in 1 .. n + 1 : k \in 1 .. n \/ k = n + 1
    BY <2>2
  <2>5. StartOf(table, table)
    BY LenProperties DEF StartOf
  <2>6. \A k \in 1 .. n + 1 : StartOf(column'[k], table)
    BY <2>3, <2>4, <2>5 DEF n
  <2>7. ASSUME NEW k \in 1 .. n + 1, NEW j \in 1 .. k PROVE Len(column'[j]) <= Len(column'[k])
    <3>1. CASE k \in 1 .. n
      <4>1. j \in 1 .. n
        BY <2>2, <3>1
      <4> QED
        BY <2>3, <3>1, <4>1 DEF n
    <3>2. CASE k = n + 1
      <4>1. j \in 1 .. n + 1
        BY <2>2, <3>2
      <4> QED
        BY <2>3, <2>6, <3>2, <4>1 DEF StartOf
    <3> QED
      BY <2>4, <3>1, <3>2
  <2> QED
    BY <2>1, <2>3, <2>6, <2>7 DEF StartOf
<1>3. CASE ReadFails \/ Throw
  BY <1>3 DEF ReadFails, Throw, StartOf
<1>4. CASE Assemble
  BY <1>4 DEF Assemble, StartOf
<1>5. CASE UNCHANGED vars
  BY <1>5 DEF vars, StartOf
<1> QED
  BY <1>1, <1>2, <1>3, <1>4, <1>5 DEF Next

\* Whatever is ingested between the seven reads, every record that get_orders_records
\* assembles by index is one row of the table, although only two of the counts are
\* compared.
THEOREM RecordsAlwaysRows == Spec => []RecordsAreRows
<1>1. Init => Inv
  BY EmptySeq DEF Init, Inv
<1>2. Inv => RecordsAreRows
  <2> SUFFICES ASSUME Inv, pc = "done", NEW i \in Records
               PROVE  /\ \A k \in 1 .. Len(Columns) :
                           i <= Len(column[k]) /\ column[k][i] = column[TYPE][i]
                      /\ column[TYPE][i] = table[i]
    BY DEF RecordsAreRows
  <2>1. Len(column) = 7
    BY SevenColumns DEF Inv
  <2>2. \A k \in 1 .. 7 : /\ StartOf(column[k], table)
                          /\ Len(column[1]) <= Len(column[k])
                          /\ Len(column[k]) \in Nat
    BY <2>1, ElementOfSeq, LenProperties DEF Inv
  <2>3. i \in 1 .. Len(column[1])
    BY DEF Records, TYPE
  <2>4. ASSUME NEW k \in 1 .. 7 PROVE i \in 1 .. Len(column[k]) /\ column[k][i] = table[i]
    <3>1. i \in 1 .. Len(column[k])
      <4>1. Len(column[1]) <= Len(column[k]) /\ Len(column[1]) \in Nat /\ Len(column[k]) \in Nat
        BY <2>2
      <4> QED
        BY <2>3, <4>1
    <3> QED
      BY <2>2, <3>1 DEF StartOf
  <2> QED
    BY <2>4, SevenColumns DEF TYPE
<1> QED
  BY <1>1, <1>2, InvStep, PTL DEF Spec
=============================================================================
