-------------------------- MODULE ItchReaderProofs --------------------------
(***************************************************************************)
(* The reader stays in step with the frames, loses no message and counts   *)
(* every byte, for buffers of any length, cut anywhere, and queues of any  *)
(* capacity.                                                               *)
(***************************************************************************)
EXTENDS ItchReader, SequenceTheorems, WellFoundedInduction, TLAPS

-----------------------------------------------------------------------------
(***************************************************************************)
(* Recursive functions.                                                    *)
(***************************************************************************)
LEMMA LeastNat ==
  ASSUME NEW T \in SUBSET Nat, T # {}
  PROVE  \E x \in T : \A y \in T : x <= y
<1>1. PICK x \in T : \A y \in T : ~(<<y, x>> \in OpToRel(<, Nat))
  BY NatLessThanWellFounded, WFMin, Zenon
<1>2. ASSUME NEW y \in T PROVE x <= y
  <2>1. ~(<<y, x>> \in OpToRel(<, Nat))
    BY <1>1, Zenon
  <2>2. ~(y < x)
    BY <2>1, Zenon DEF OpToRel
  <2> QED
    BY <2>2
<1> QED
  BY <1>2

\* What holds of 0 and passes from each number to the next holds up to N.
LEMMA UpTo ==
  ASSUME NEW N \in Nat, NEW T, 0 \in T, \A n \in 1 .. N : n - 1 \in T => n \in T
  PROVE  0 .. N \subseteq T
<1> SUFFICES ASSUME ~(0 .. N \subseteq T) PROVE FALSE
  OBVIOUS
<1> DEFINE B == {n \in 0 .. N : n \notin T}
<1>1. B # {} /\ B \in SUBSET Nat
  OBVIOUS
<1>2. PICK m \in B : \A y \in B : m <= y
  BY <1>1, LeastNat
<1>3. m # 0 /\ m \in 1 .. N /\ m \notin T
  OBVIOUS
<1>4. m - 1 \in 0 .. N /\ ~(m <= m - 1)
  BY <1>3
<1>5. m - 1 \in T
  BY <1>2, <1>4
<1> QED
  BY <1>3, <1>5

\* A function on 0 .. N may be defined by its first value and a step.
Steps(N, D) == [1 .. N -> [D -> D]]

Follows(f, N, D, d, step) ==
  f \in [0 .. N -> D] /\ f[0] = d /\ \A n \in 1 .. N : f[n] = step[n][f[n - 1]]

LEMMA Recursion ==
  ASSUME NEW N \in Nat, NEW D, NEW d \in D, NEW step \in Steps(N, D)
  PROVE  \E f : Follows(f, N, D, d, step)
<1> DEFINE T == {m \in 0 .. N : \E f : Follows(f, m, D, d, step)}
<1>1. 0 \in T
  <2> DEFINE f == [n \in 0 .. 0 |-> d]
  <2>1. Follows(f, 0, D, d, step) /\ 0 \in 0 .. N
    BY DEF Follows
  <2> QED
    BY <2>1
<1>2. ASSUME NEW m \in 1 .. N, m - 1 \in T PROVE m \in T
  <2>1. PICK f : Follows(f, m - 1, D, d, step)
    BY <1>2
  <2> DEFINE g == [n \in 0 .. m |-> IF n = m THEN step[m][f[m - 1]] ELSE f[n]]
  <2>2. f[m - 1] \in D /\ step[m] \in [D -> D]
    BY <2>1 DEF Follows, Steps
  <2>3. \A n \in 0 .. m : n # m => n \in 0 .. m - 1
    OBVIOUS
  <2>4. g \in [0 .. m -> D]
    BY <2>1, <2>2, <2>3 DEF Follows
  <2>5. \A n \in 0 .. m - 1 : g[n] = f[n]
    OBVIOUS
  <2>6. g[0] = d
    BY <2>1 DEF Follows
  <2>7. ASSUME NEW n \in 1 .. m PROVE g[n] = step[n][g[n - 1]]
    <3>1. n - 1 \in 0 .. m - 1
      OBVIOUS
    <3>2. g[n - 1] = f[n - 1]
      BY <2>5, <3>1
    <3>3. CASE n = m
      BY <3>2, <3>3
    <3>4. CASE n # m
      <4>1. n \in 0 .. m - 1 /\ n \in 1 .. m - 1
        BY <3>4
      <4>2. g[n] = f[n]
        BY <2>5, <4>1
      <4> QED
        BY <2>1, <3>2, <4>1, <4>2 DEF Follows
    <3> QED
      BY <3>3, <3>4
  <2>8. m \in 0 .. N
    OBVIOUS
  <2> HIDE DEF g
  <2>9. Follows(g, m, D, d, step)
    BY <2>4, <2>6, <2>7 DEF Follows
  <2> QED
    BY <2>8, <2>9
<1> HIDE DEF T
<1>3. 0 .. N \subseteq T
  BY <1>1, <1>2, UpTo
<1>4. N \in T
  BY <1>3
<1> QED
  BY <1>4 DEF T

\* Each of the recursive functions of the model is a sum, or a sequence that grows: it has
\* its first value, and its other values follow from the ones before.
LEMMA Taking ==
  ASSUME NEW fields \in Seq(Nat)
  PROVE  /\ Taken(fields)[0] = 0
         /\ \A n \in 1 .. Len(fields) : Taken(fields)[n] = Taken(fields)[n - 1] + fields[n]
<1> DEFINE N == Len(fields)
           Def(t) == t = [n \in 0 .. N |-> IF n = 0 THEN 0 ELSE t[n - 1] + fields[n]]
           step == [n \in 1 .. N |-> [x \in Nat |-> x + fields[n]]]
<1>1. N \in Nat /\ \A n \in 1 .. N : fields[n] \in Nat
  OBVIOUS
<1> HIDE DEF N
<1>2. 0 \in Nat /\ step \in Steps(N, Nat)
  BY <1>1 DEF Steps
<1>3. \A n \in 1 .. N : n - 1 \in 0 .. N /\ n \in 0 .. N /\ n # 0 /\ 0 \in 0 .. N
  BY <1>1
<1> HIDE DEF step
<1>4. PICK t : Follows(t, N, Nat, 0, step)
  BY <1>1, <1>2, Recursion, Zenon
<1>5. \A n \in 1 .. N : t[n] = t[n - 1] + fields[n]
  BY <1>3, <1>4 DEF Follows, step
<1>6. \A n \in 0 .. N : t[n] = IF n = 0 THEN 0 ELSE t[n - 1] + fields[n]
  BY <1>1, <1>4, <1>5 DEF Follows
<1>7. Def(t)
  BY <1>4, <1>6 DEF Follows
<1>8. Taken(fields) = CHOOSE x : Def(x)
  BY DEF Taken, N
<1>9. Def(Taken(fields))
  BY <1>7, <1>8
<1>10. /\ Taken(fields)[0] = 0
       /\ \A n \in 1 .. N : Taken(fields)[n] = Taken(fields)[n - 1] + fields[n]
  BY <1>1, <1>3, <1>9
<1> QED
  BY <1>10 DEF N

\* The buffer as Init leaves it, for good.
BufferOK ==
  /\ buffer \in Seq(Frames)
  /\ Len(buffer) \in Nat
  /\ \A n \in 1 .. Len(buffer) : /\ buffer[n] \in Frames
                                /\ buffer[n].size \in Nat
                                /\ buffer[n].size > 0

LEMMA Offsets ==
  ASSUME BufferOK
  PROVE  /\ Offset[0] = 0
         /\ \A n \in 0 .. Len(buffer) : Offset[n] \in Nat
         /\ \A n \in 1 .. Len(buffer) : Offset[n] = Offset[n - 1] + 2 + buffer[n].size
<1> DEFINE N == Len(buffer)
           Def(t) == t = [n \in 0 .. N |-> IF n = 0 THEN 0 ELSE t[n - 1] + uint16 + buffer[n].size]
           step == [n \in 1 .. N |-> [x \in Nat |-> x + 2 + buffer[n].size]]
<1>1. N \in Nat /\ \A n \in 1 .. N : buffer[n].size \in Nat
  BY DEF BufferOK
<1> HIDE DEF N
<1>2. 0 \in Nat /\ step \in Steps(N, Nat)
  BY <1>1 DEF Steps
<1>3. \A n \in 1 .. N : n - 1 \in 0 .. N /\ n \in 0 .. N /\ n # 0 /\ 0 \in 0 .. N
  BY <1>1
<1> HIDE DEF step
<1>4. PICK t : Follows(t, N, Nat, 0, step)
  BY <1>1, <1>2, Recursion, Zenon
<1>5. \A n \in 1 .. N : t[n] = t[n - 1] + 2 + buffer[n].size
  BY <1>3, <1>4 DEF Follows, step
<1>6. \A n \in 0 .. N : t[n] = IF n = 0 THEN 0 ELSE t[n - 1] + uint16 + buffer[n].size
  BY <1>1, <1>4, <1>5 DEF Follows, uint16
<1>7. Def(t)
  BY <1>4, <1>6 DEF Follows
<1>8. Offset = CHOOSE x : Def(x)
  BY DEF Offset, N
<1>9. Def(Offset)
  BY <1>7, <1>8
<1>10. /\ Offset[0] = 0
       /\ \A n \in 1 .. N : Offset[n] = Offset[n - 1] + 2 + buffer[n].size
  BY <1>1, <1>3, <1>9 DEF uint16
<1>11. 0 .. N \subseteq {n \in 0 .. N : Offset[n] \in Nat}
  <2> DEFINE T == {n \in 0 .. N : Offset[n] \in Nat}
  <2>1. 0 \in T /\ \A n \in 1 .. N : n - 1 \in T => n \in T
    BY <1>1, <1>3, <1>10
  <2> HIDE DEF T
  <2>2. 0 .. N \subseteq T
    BY <1>1, <2>1, UpTo
  <2> QED
    BY <2>2 DEF T
<1> QED
  BY <1>10, <1>11 DEF N

\* Frames have bytes: no two of them start at the same place.
LEMMA OffsetsIncrease ==
  ASSUME BufferOK
  PROVE  \A i, j \in 0 .. Len(buffer) : i < j => Offset[i] < Offset[j]
<1> DEFINE N == Len(buffer)
           T == {j \in 0 .. N : \A i \in 0 .. j - 1 : Offset[i] < Offset[j]}
<1>1. /\ N \in Nat
      /\ \A n \in 0 .. N : Offset[n] \in Nat
      /\ \A n \in 1 .. N : Offset[n] = Offset[n - 1] + 2 + buffer[n].size /\ buffer[n].size \in Nat
  BY Offsets DEF BufferOK
<1> HIDE DEF N
<1>2. 0 \in T
  BY <1>1
<1>3. ASSUME NEW j \in 1 .. N, j - 1 \in T PROVE j \in T
  <2>1. j - 1 \in 0 .. N /\ j \in 0 .. N
    BY <1>1
  <2>2. Offset[j - 1] < Offset[j]
    BY <1>1, <2>1
  <2>3. ASSUME NEW i \in 0 .. j - 1 PROVE Offset[i] < Offset[j]
    <3>1. i = j - 1 \/ i \in 0 .. (j - 1) - 1
      BY <1>1
    <3>2. i \in 0 .. N
      BY <1>1
    <3> QED
      BY <1>1, <1>3, <2>1, <2>2, <3>1, <3>2
  <2> QED
    BY <2>1, <2>3
<1> HIDE DEF T
<1>4. 0 .. N \subseteq T
  BY <1>1, <1>2, <1>3, UpTo
<1>5. ASSUME NEW i \in 0 .. N, NEW j \in 0 .. N, i < j PROVE Offset[i] < Offset[j]
  <2>1. j \in T /\ i \in 0 .. j - 1
    BY <1>1, <1>4, <1>5
  <2> QED
    BY <2>1 DEF T
<1> QED
  BY <1>5 DEF N

\* Where frame n + 1 starts, FrameAt finds it.
LEMMA FrameFound ==
  ASSUME BufferOK, NEW n \in 0 .. Len(buffer) - 1
  PROVE  FrameAt(Offset[n]) = buffer[n + 1]
<1>1. Len(buffer) \in Nat
  BY DEF BufferOK
<1>2. n + 1 \in 1 .. Len(buffer) /\ n \in 0 .. Len(buffer) /\ (n + 1) - 1 = n
  BY <1>1
<1>3. ASSUME NEW i \in 1 .. Len(buffer), Offset[n] = StartOf(i) PROVE i = n + 1
  <2>1. i - 1 \in 0 .. Len(buffer) /\ Offset[n] = Offset[i - 1]
    BY <1>1, <1>3 DEF StartOf
  <2>2. ~(n < i - 1) /\ ~(i - 1 < n)
    BY <1>1, <1>2, <2>1, OffsetsIncrease, Offsets
  <2> QED
    BY <1>1, <1>2, <2>1, <2>2
<1>4. Offset[n] = StartOf(n + 1)
  BY <1>2 DEF StartOf
<1> QED
  BY <1>2, <1>3, <1>4 DEF FrameAt

LEMMA Among ==
  ASSUME BufferOK
  PROVE  /\ MessagesAmong[0] = <<>>
         /\ SkippedAmong[0] = 0
         /\ \A n \in 0 .. Len(buffer) : MessagesAmong[n] \in Seq(Frames) /\ SkippedAmong[n] \in Nat
         /\ \A n \in 1 .. Len(buffer) :
              /\ Decoded(buffer[n].code) =>
                   /\ MessagesAmong[n] = Append(MessagesAmong[n - 1], buffer[n])
                   /\ SkippedAmong[n] = SkippedAmong[n - 1]
              /\ ~Decoded(buffer[n].code) =>
                   /\ MessagesAmong[n] = MessagesAmong[n - 1]
                   /\ SkippedAmong[n] = SkippedAmong[n - 1] + buffer[n].size
<1> DEFINE N == Len(buffer)
           D(n) == Decoded(buffer[n].code)
           DefM(t) == t = [n \in 0 .. N |->
                             IF n = 0 THEN <<>>
                             ELSE IF D(n) THEN Append(t[n - 1], buffer[n])
                             ELSE t[n - 1]]
           DefS(t) == t = [n \in 0 .. N |->
                             IF n = 0 THEN 0
                             ELSE t[n - 1] + IF D(n) THEN 0 ELSE buffer[n].size]
           stepM == [n \in 1 .. N |->
                       [x \in Seq(Frames) |-> IF D(n) THEN Append(x, buffer[n]) ELSE x]]
           stepS == [n \in 1 .. N |->
                       [x \in Nat |-> x + IF D(n) THEN 0 ELSE buffer[n].size]]
<1>1. N \in Nat /\ \A n \in 1 .. N : buffer[n].size \in Nat /\ buffer[n] \in Frames
  BY DEF BufferOK
<1>2. MessagesAmong = (CHOOSE t : DefM(t)) /\ SkippedAmong = (CHOOSE t : DefS(t))
  BY DEF MessagesAmong, SkippedAmong
<1> HIDE DEF N, D
<1>3. 0 \in Nat /\ stepS \in Steps(N, Nat)
  BY <1>1 DEF Steps
<1>4. <<>> \in Seq(Frames) /\ stepM \in Steps(N, Seq(Frames))
  BY <1>1 DEF Steps
<1>5. \A n \in 1 .. N : n - 1 \in 0 .. N /\ n \in 0 .. N /\ n # 0
  BY <1>1
<1>6. 0 \in 0 .. N
  BY <1>1
<1> HIDE DEF stepM, stepS
<1>7. DefM(MessagesAmong)
  <2>1. PICK t : Follows(t, N, Seq(Frames), <<>>, stepM)
    BY <1>1, <1>4, Recursion, Zenon
  <2>2. \A n \in 1 .. N : t[n] = IF D(n) THEN Append(t[n - 1], buffer[n]) ELSE t[n - 1]
    BY <1>5, <2>1 DEF Follows, stepM
  <2>3. \A n \in 0 .. N : t[n] = IF n = 0 THEN <<>>
                                 ELSE IF D(n) THEN Append(t[n - 1], buffer[n])
                                 ELSE t[n - 1]
    <3> SUFFICES ASSUME NEW n \in 0 .. N
                 PROVE  t[n] = IF n = 0 THEN <<>>
                               ELSE IF D(n) THEN Append(t[n - 1], buffer[n])
                               ELSE t[n - 1]
      OBVIOUS
    <3>1. n = 0 \/ (n # 0 /\ n \in 1 .. N)
      BY <1>1
    <3> QED
      BY <2>1, <2>2, <3>1, Zenon DEF Follows
  <2>4. DefM(t)
    BY <2>1, <2>3 DEF Follows
  <2> QED
    BY <1>2, <2>4
<1>8. DefS(SkippedAmong)
  <2>1. PICK t : Follows(t, N, Nat, 0, stepS)
    BY <1>1, <1>3, Recursion, Zenon
  <2>2. \A n \in 1 .. N : t[n] = t[n - 1] + IF D(n) THEN 0 ELSE buffer[n].size
    BY <1>5, <2>1 DEF Follows, stepS
  <2>3. \A n \in 0 .. N : t[n] = IF n = 0 THEN 0
                                 ELSE t[n - 1] + IF D(n) THEN 0 ELSE buffer[n].size
    BY <1>1, <2>1, <2>2 DEF Follows
  <2>4. DefS(t)
    BY <2>1, <2>3 DEF Follows
  <2> QED
    BY <1>2, <2>4
<1>9. /\ MessagesAmong[0] = <<>>
      /\ \A n \in 1 .. N : MessagesAmong[n] =
           IF D(n) THEN Append(MessagesAmong[n - 1], buffer[n]) ELSE MessagesAmong[n - 1]
  BY <1>5, <1>6, <1>7, Zenon
<1>10. /\ SkippedAmong[0] = 0
       /\ \A n \in 1 .. N :
            SkippedAmong[n] = SkippedAmong[n - 1] + IF D(n) THEN 0 ELSE buffer[n].size
  BY <1>5, <1>6, <1>8, Zenon
<1> DEFINE T == {n \in 0 .. N : MessagesAmong[n] \in Seq(Frames) /\ SkippedAmong[n] \in Nat}
<1>11. 0 \in T
  BY <1>3, <1>4, <1>6, <1>9, <1>10, Zenon
<1>12. ASSUME NEW n \in 1 .. N, n - 1 \in T PROVE n \in T
  <2>1. n \in 0 .. N /\ MessagesAmong[n - 1] \in Seq(Frames) /\ SkippedAmong[n - 1] \in Nat
    BY <1>5, <1>12
  <2>2. MessagesAmong[n] \in Seq(Frames)
    <3>1. Append(MessagesAmong[n - 1], buffer[n]) \in Seq(Frames)
      BY <1>1, <2>1
    <3> QED
      BY <1>9, <2>1, <3>1, Zenon
  <2>3. SkippedAmong[n] \in Nat
    <3>1. SkippedAmong[n - 1] + 0 \in Nat /\ SkippedAmong[n - 1] + buffer[n].size \in Nat
      BY <1>1, <2>1
    <3> QED
      BY <1>10, <3>1, Zenon
  <2> QED
    BY <2>1, <2>2, <2>3
<1> HIDE DEF T
<1>13. 0 .. N \subseteq T
  BY <1>1, <1>11, <1>12, UpTo
<1>14. \A n \in 0 .. N : MessagesAmong[n] \in Seq(Frames) /\ SkippedAmong[n] \in Nat
  BY <1>13 DEF T
<1>15. ASSUME NEW n \in 1 .. N
       PROVE  /\ D(n) => /\ MessagesAmong[n] = Append(MessagesAmong[n - 1], buffer[n])
                         /\ SkippedAmong[n] = SkippedAmong[n - 1]
              /\ ~D(n) => /\ MessagesAmong[n] = MessagesAmong[n - 1]
                          /\ SkippedAmong[n] = SkippedAmong[n - 1] + buffer[n].size
  <2>1. SkippedAmong[n - 1] + 0 = SkippedAmong[n - 1]
    BY <1>5, <1>14
  <2> QED
    BY <1>9, <1>10, <2>1, Zenon
<1> QED
  BY <1>9, <1>10, <1>14, <1>15 DEF N, D

-----------------------------------------------------------------------------
(***************************************************************************)
(* decode takes what the exchange has sent.                                *)
(***************************************************************************)
\* The header is eleven bytes, and the other fields come on top of them.
LEMMA AfterHeader ==
  ASSUME NEW rest \in Seq(Nat)
  PROVE  /\ Header \o rest \in Seq(Nat)
         /\ Len(Header \o rest) = 4 + Len(rest)
         /\ Taken(Header \o rest)[4 + Len(rest)] = 11 + Taken(rest)[Len(rest)]
<1> DEFINE all == Header \o rest
           N == Len(rest)
           T == {n \in 0 .. N : Taken(rest)[n] \in Nat /\ Taken(all)[4 + n] = 11 + Taken(rest)[n]}
<1>1. /\ Header \in Seq(Nat) /\ Len(Header) = 4
      /\ Header[1] = 1 /\ Header[2] = 2 /\ Header[3] = 2 /\ Header[4] = 6
  BY DEF Header, char, uint16, timestamp
<1>2. N \in Nat /\ \A n \in 1 .. N : rest[n] \in Nat
  OBVIOUS
<1>3. /\ all \in Seq(Nat) /\ Len(all) = 4 + N
      /\ \A n \in 1 .. 4 + N : all[n] = IF n <= 4 THEN Header[n] ELSE rest[n - 4]
  <2>1. /\ all \in Seq(Nat) /\ Len(all) = Len(Header) + Len(rest)
        /\ \A n \in 1 .. Len(Header) + Len(rest) :
             all[n] = IF n <= Len(Header) THEN Header[n] ELSE rest[n - Len(Header)]
    BY <1>1, ConcatProperties, Zenon
  <2> HIDE DEF all
  <2> QED
    BY <1>1, <1>2, <2>1
<1> HIDE DEF all, N
<1>4. Taken(all)[4] = 11
  <2>1. Taken(all)[0] = 0 /\ \A n \in 1 .. 4 : Taken(all)[n] = Taken(all)[n - 1] + Header[n]
    <3>1. \A n \in 1 .. 4 : n \in 1 .. Len(all) /\ all[n] = Header[n]
      BY <1>2, <1>3
    <3>2. /\ Taken(all)[0] = 0
          /\ \A n \in 1 .. Len(all) : Taken(all)[n] = Taken(all)[n - 1] + all[n]
      BY <1>3, Taking
    <3> QED
      BY <3>1, <3>2
  <2>2. Taken(all)[1] = 1
    BY <1>1, <2>1
  <2>3. Taken(all)[2] = 3
    BY <1>1, <2>1, <2>2
  <2>4. Taken(all)[3] = 5
    BY <1>1, <2>1, <2>3
  <2> QED
    BY <1>1, <2>1, <2>4
<1>5. 0 \in T
  BY <1>2, <1>4, Taking
<1>6. ASSUME NEW n \in 1 .. N, n - 1 \in T PROVE n \in T
  <2>1. Taken(rest)[n] = Taken(rest)[n - 1] + rest[n]
    BY Taking DEF N
  <2>2. 4 + n \in 1 .. Len(all) /\ (4 + n) - 1 = 4 + (n - 1) /\ all[4 + n] = rest[n]
    BY <1>2, <1>3
  <2>3. Taken(all)[4 + n] = Taken(all)[4 + (n - 1)] + rest[n]
    BY <1>3, <2>2, Taking
  <2> QED
    BY <1>2, <1>6, <2>1, <2>3
<1> HIDE DEF T
<1>7. N \in T
  <2>1. 0 .. N \subseteq T
    BY <1>2, <1>5, <1>6, UpTo
  <2> QED
    BY <1>2, <2>1
<1> QED
  BY <1>3, <1>7 DEF all, N, T

\* The sums of few fields, and of the fourteen of a stock directory message.
LEMMA FewFields ==
  ASSUME NEW f \in Seq(Nat)
  PROVE  /\ Len(f) = 1 => Taken(f)[1] = f[1]
         /\ Len(f) = 2 => Taken(f)[2] = f[1] + f[2]
         /\ Len(f) = 3 => Taken(f)[3] = f[1] + f[2] + f[3]
         /\ Len(f) = 4 => Taken(f)[4] = f[1] + f[2] + f[3] + f[4]
         /\ Len(f) = 5 => Taken(f)[5] = f[1] + f[2] + f[3] + f[4] + f[5]
         /\ Len(f) = 6 => Taken(f)[6] = f[1] + f[2] + f[3] + f[4] + f[5] + f[6]
<1> DEFINE T == Taken(f)
<1>1. T[0] = 0 /\ \A n \in 1 .. Len(f) : T[n] = T[n - 1] + f[n] /\ f[n] \in Nat
  BY Taking
<1>2. Len(f) \in Nat
  OBVIOUS
<1> HIDE DEF T
<1>3. /\ Len(f) >= 1 => T[1] = T[0] + f[1] /\ f[1] \in Nat
      /\ Len(f) >= 2 => T[2] = T[1] + f[2] /\ f[2] \in Nat
      /\ Len(f) >= 3 => T[3] = T[2] + f[3] /\ f[3] \in Nat
      /\ Len(f) >= 4 => T[4] = T[3] + f[4] /\ f[4] \in Nat
      /\ Len(f) >= 5 => T[5] = T[4] + f[5] /\ f[5] \in Nat
      /\ Len(f) >= 6 => T[6] = T[5] + f[6] /\ f[6] \in Nat
  BY <1>1, <1>2
<1>4. Len(f) >= 1 => T[1] = f[1]
  BY <1>1, <1>2, <1>3
<1>5. Len(f) >= 2 => T[2] = f[1] + f[2]
  BY <1>1, <1>2, <1>3, <1>4
<1>6. Len(f) >= 3 => T[3] = f[1] + f[2] + f[3]
  BY <1>1, <1>2, <1>3, <1>5
<1>7. Len(f) >= 4 => T[4] = f[1] + f[2] + f[3] + f[4]
  BY <1>1, <1>2, <1>3, <1>6
<1>8. Len(f) >= 5 => T[5] = f[1] + f[2] + f[3] + f[4] + f[5]
  BY <1>1, <1>2, <1>3, <1>7
<1>9. Len(f) >= 6 => T[6] = f[1] + f[2] + f[3] + f[4] + f[5] + f[6]
  BY <1>1, <1>2, <1>3, <1>8
<1>10. \A n \in 1 .. 6 : Len(f) = n => Len(f) >= n
  BY <1>2
<1>11. 1 \in 1 .. 6 /\ 2 \in 1 .. 6 /\ 3 \in 1 .. 6 /\ 4 \in 1 .. 6 /\ 5 \in 1 .. 6 /\ 6 \in 1 .. 6
  OBVIOUS
<1> QED
  BY <1>4, <1>5, <1>6, <1>7, <1>8, <1>9, <1>10, <1>11, Zenon DEF T

LEMMA ManyFields ==
  ASSUME NEW f, f = <<8, 1, 1, 4, 1, 1, 2, 1, 1, 1, 1, 1, 4, 1>>
  PROVE  f \in Seq(Nat) /\ Len(f) = 14 /\ Taken(f)[14] = 28
<1>1. f \in Seq(Nat) /\ Len(f) = 14
  OBVIOUS
<1> DEFINE T == Taken(f)
<1>2. T[0] = 0 /\ \A n \in 1 .. 14 : T[n] = T[n - 1] + f[n]
  BY <1>1, Taking
<1> HIDE DEF T
<1>3. /\ T[1] = T[0] + f[1] /\ T[2] = T[1] + f[2] /\ T[3] = T[2] + f[3] /\ T[4] = T[3] + f[4]
      /\ T[5] = T[4] + f[5] /\ T[6] = T[5] + f[6] /\ T[7] = T[6] + f[7] /\ T[8] = T[7] + f[8]
      /\ T[9] = T[8] + f[9] /\ T[10] = T[9] + f[10] /\ T[11] = T[10] + f[11]
      /\ T[12] = T[11] + f[12] /\ T[13] = T[12] + f[13] /\ T[14] = T[13] + f[14]
  BY <1>2
<1> QED
  BY <1>1, <1>2, <1>3 DEF T

\* decode takes all of the message, and message_size is the size that is sent.
Sound(m) ==
  /\ Taken(m.fields)[Len(m.fields)] = m.message_size
  /\ m.code \in DOMAIN ItchSize
  /\ ItchSize[m.code] = m.message_size

LEMMA SoundRest ==
  ASSUME NEW m, NEW rest \in Seq(Nat), m.fields = Header \o rest,
         m.message_size = 11 + Taken(rest)[Len(rest)],
         m.code \in DOMAIN ItchSize, ItchSize[m.code] = m.message_size
  PROVE  Sound(m)
BY AfterHeader DEF Sound

LEMMA MessagesSound == \A m \in Messages : Sound(m)
<1> USE DEF char, uint16, uint32, uint64, timestamp, price, stock, mpid, sub_type, HeaderSize
<1>1. Sound(stock_directory)
  <2> DEFINE rest == <<stock, char, char, uint32, char, char, sub_type, char, char,
                       char, char, char, uint32, char>>
  <2>1. rest \in Seq(Nat) /\ 39 = 11 + Taken(rest)[Len(rest)]
    BY ManyFields
  <2>2. /\ stock_directory.fields = Header \o rest
        /\ stock_directory.message_size = 39 /\ stock_directory.code = "R"
    BY DEF stock_directory
  <2>3. "R" \in DOMAIN ItchSize /\ ItchSize["R"] = 39
    BY DEF ItchSize
  <2> HIDE DEF rest
  <2> QED
    BY <2>1, <2>2, <2>3, SoundRest, Zenon
<1>2. Sound(add_order_without_attribution)
  <2> DEFINE rest == <<uint64, char, uint32, stock, price>>
  <2>1. /\ rest \in Seq(Nat) /\ Len(rest) = 5
        /\ rest[1] = 8 /\ rest[2] = 1 /\ rest[3] = 4 /\ rest[4] = 8 /\ rest[5] = 4
    OBVIOUS
  <2>2. /\ add_order_without_attribution.fields = Header \o rest
        /\ add_order_without_attribution.message_size = 36 /\ add_order_without_attribution.code = "A"
    BY DEF add_order_without_attribution
  <2>3. "A" \in DOMAIN ItchSize /\ ItchSize["A"] = 36
    BY DEF ItchSize
  <2> HIDE DEF rest
  <2>4. Taken(rest)[5] = rest[1] + rest[2] + rest[3] + rest[4] + rest[5]
    BY <2>1, FewFields, Zenon
  <2>5. 36 = 11 + Taken(rest)[Len(rest)]
    BY <2>1, <2>4
  <2> QED
    BY <2>1, <2>2, <2>3, <2>5, SoundRest, Zenon
<1>3. Sound(add_order_with_attribution)
  <2> DEFINE rest == <<uint64, char, uint32, stock, price, mpid>>
  <2>1. /\ rest \in Seq(Nat) /\ Len(rest) = 6
        /\ rest[1] = 8 /\ rest[2] = 1 /\ rest[3] = 4 /\ rest[4] = 8 /\ rest[5] = 4 /\ rest[6] = 4
    OBVIOUS
  <2>2. /\ add_order_with_attribution.fields = Header \o rest
        /\ add_order_with_attribution.message_size = 40 /\ add_order_with_attribution.code = "F"
    BY DEF add_order_with_attribution
  <2>3. "F" \in DOMAIN ItchSize /\ ItchSize["F"] = 40
    BY DEF ItchSize
  <2> HIDE DEF rest
  <2>4. Taken(rest)[6] = rest[1] + rest[2] + rest[3] + rest[4] + rest[5] + rest[6]
    BY <2>1, FewFields, Zenon
  <2>5. 40 = 11 + Taken(rest)[Len(rest)]
    BY <2>1, <2>4
  <2> QED
    BY <2>1, <2>2, <2>3, <2>5, SoundRest, Zenon
<1>4. Sound(order_executed)
  <2> DEFINE rest == <<uint64, uint32, uint64>>
  <2>1. /\ rest \in Seq(Nat) /\ Len(rest) = 3
        /\ rest[1] = 8 /\ rest[2] = 4 /\ rest[3] = 8
    OBVIOUS
  <2>2. /\ order_executed.fields = Header \o rest
        /\ order_executed.message_size = 31 /\ order_executed.code = "E"
    BY DEF order_executed
  <2>3. "E" \in DOMAIN ItchSize /\ ItchSize["E"] = 31
    BY DEF ItchSize
  <2> HIDE DEF rest
  <2>4. Taken(rest)[3] = rest[1] + rest[2] + rest[3]
    BY <2>1, FewFields, Zenon
  <2>5. 31 = 11 + Taken(rest)[Len(rest)]
    BY <2>1, <2>4
  <2> QED
    BY <2>1, <2>2, <2>3, <2>5, SoundRest, Zenon
<1>5. Sound(order_executed_with_price)
  <2> DEFINE rest == <<uint64, uint32, uint64, char, price>>
  <2>1. /\ rest \in Seq(Nat) /\ Len(rest) = 5
        /\ rest[1] = 8 /\ rest[2] = 4 /\ rest[3] = 8 /\ rest[4] = 1 /\ rest[5] = 4
    OBVIOUS
  <2>2. /\ order_executed_with_price.fields = Header \o rest
        /\ order_executed_with_price.message_size = 36 /\ order_executed_with_price.code = "C"
    BY DEF order_executed_with_price
  <2>3. "C" \in DOMAIN ItchSize /\ ItchSize["C"] = 36
    BY DEF ItchSize
  <2> HIDE DEF rest
  <2>4. Taken(rest)[5] = rest[1] + rest[2] + rest[3] + rest[4] + rest[5]
    BY <2>1, FewFields, Zenon
  <2>5. 36 = 11 + Taken(rest)[Len(rest)]
    BY <2>1, <2>4
  <2> QED
    BY <2>1, <2>2, <2>3, <2>5, SoundRest, Zenon
<1>6. Sound(order_cancel)
  <2> DEFINE rest == <<uint64, uint32>>
  <2>1. /\ rest \in Seq(Nat) /\ Len(rest) = 2
        /\ rest[1] = 8 /\ rest[2] = 4
    OBVIOUS
  <2>2. /\ order_cancel.fields = Header \o rest
        /\ order_cancel.message_size = 23 /\ order_cancel.code = "X"
    BY DEF order_cancel
  <2>3. "X" \in DOMAIN ItchSize /\ ItchSize["X"] = 23
    BY DEF ItchSize
  <2> HIDE DEF rest
  <2>4. Taken(rest)[2] = rest[1] + rest[2]
    BY <2>1, FewFields, Zenon
  <2>5. 23 = 11 + Taken(rest)[Len(rest)]
    BY <2>1, <2>4
  <2> QED
    BY <2>1, <2>2, <2>3, <2>5, SoundRest, Zenon
<1>7. Sound(order_delete)
  <2> DEFINE rest == <<uint64>>
  <2>1. /\ rest \in Seq(Nat) /\ Len(rest) = 1
        /\ rest[1] = 8
    OBVIOUS
  <2>2. /\ order_delete.fields = Header \o rest
        /\ order_delete.message_size = 19 /\ order_delete.code = "D"
    BY DEF order_delete
  <2>3. "D" \in DOMAIN ItchSize /\ ItchSize["D"] = 19
    BY DEF ItchSize
  <2> HIDE DEF rest
  <2>4. Taken(rest)[1] = rest[1]
    BY <2>1, FewFields, Zenon
  <2>5. 19 = 11 + Taken(rest)[Len(rest)]
    BY <2>1, <2>4
  <2> QED
    BY <2>1, <2>2, <2>3, <2>5, SoundRest, Zenon
<1>8. Sound(order_replace)
  <2> DEFINE rest == <<uint64, uint64, uint32, price>>
  <2>1. /\ rest \in Seq(Nat) /\ Len(rest) = 4
        /\ rest[1] = 8 /\ rest[2] = 8 /\ rest[3] = 4 /\ rest[4] = 4
    OBVIOUS
  <2>2. /\ order_replace.fields = Header \o rest
        /\ order_replace.message_size = 35 /\ order_replace.code = "U"
    BY DEF order_replace
  <2>3. "U" \in DOMAIN ItchSize /\ ItchSize["U"] = 35
    BY DEF ItchSize
  <2> HIDE DEF rest
  <2>4. Taken(rest)[4] = rest[1] + rest[2] + rest[3] + rest[4]
    BY <2>1, FewFields, Zenon
  <2>5. 35 = 11 + Taken(rest)[Len(rest)]
    BY <2>1, <2>4
  <2> QED
    BY <2>1, <2>2, <2>3, <2>5, SoundRest, Zenon
<1>9. Sound(trade_cross)
  <2> DEFINE rest == <<uint64, stock, price, uint64, char>>
  <2>1. /\ rest \in Seq(Nat) /\ Len(rest) = 5
        /\ rest[1] = 8 /\ rest[2] = 8 /\ rest[3] = 4 /\ rest[4] = 8 /\ rest[5] = 1
    OBVIOUS
  <2>2. /\ trade_cross.fields = Header \o rest
        /\ trade_cross.message_size = 40 /\ trade_cross.code = "Q"
    BY DEF trade_cross
  <2>3. "Q" \in DOMAIN ItchSize /\ ItchSize["Q"] = 40
    BY DEF ItchSize
  <2> HIDE DEF rest
  <2>4. Taken(rest)[5] = rest[1] + rest[2] + rest[3] + rest[4] + rest[5]
    BY <2>1, FewFields, Zenon
  <2>5. 40 = 11 + Taken(rest)[Len(rest)]
    BY <2>1, <2>4
  <2> QED
    BY <2>1, <2>2, <2>3, <2>5, SoundRest, Zenon
<1>10. Sound(trade_non_cross)
  <2> DEFINE rest == <<uint64, char, uint32, stock, price, uint64>>
  <2>1. /\ rest \in Seq(Nat) /\ Len(rest) = 6
        /\ rest[1] = 8 /\ rest[2] = 1 /\ rest[3] = 4 /\ rest[4] = 8 /\ rest[5] = 4 /\ rest[6] = 8
    OBVIOUS
  <2>2. /\ trade_non_cross.fields = Header \o rest
        /\ trade_non_cross.message_size = 44 /\ trade_non_cross.code = "P"
    BY DEF trade_non_cross
  <2>3. "P" \in DOMAIN ItchSize /\ ItchSize["P"] = 44
    BY DEF ItchSize
  <2> HIDE DEF rest
  <2>4. Taken(rest)[6] = rest[1] + rest[2] + rest[3] + rest[4] + rest[5] + rest[6]
    BY <2>1, FewFields, Zenon
  <2>5. 44 = 11 + Taken(rest)[Len(rest)]
    BY <2>1, <2>4
  <2> QED
    BY <2>1, <2>2, <2>3, <2>5, SoundRest, Zenon
<1>11. Sound(broken_trade_order)
  <2> DEFINE rest == <<uint64>>
  <2>1. /\ rest \in Seq(Nat) /\ Len(rest) = 1
        /\ rest[1] = 8
    OBVIOUS
  <2>2. /\ broken_trade_order.fields = Header \o rest
        /\ broken_trade_order.message_size = 19 /\ broken_trade_order.code = "B"
    BY DEF broken_trade_order
  <2>3. "B" \in DOMAIN ItchSize /\ ItchSize["B"] = 19
    BY DEF ItchSize
  <2> HIDE DEF rest
  <2>4. Taken(rest)[1] = rest[1]
    BY <2>1, FewFields, Zenon
  <2>5. 19 = 11 + Taken(rest)[Len(rest)]
    BY <2>1, <2>4
  <2> QED
    BY <2>1, <2>2, <2>3, <2>5, SoundRest, Zenon
<1> QED
  BY <1>1, <1>2, <1>3, <1>4, <1>5, <1>6, <1>7, <1>8, <1>9, <1>10, <1>11 DEF Messages

LEMMA Constants ==
  /\ \A f \in Frames : f.size \in Nat /\ f.size > 0
  /\ \A f \in Frames : f.code \in DOMAIN ItchSize => f.size = ItchSize[f.code]
  /\ MaxFrames \in Nat
  /\ \A cut \in Cuts : cut \in Nat
<1>1. ASSUME NEW f \in Frames PROVE f.size \in Nat /\ f.size > 0
  <2>1. f \in [code : STRING, size : Nat \ {0}]
    BY ReaderAssumption
  <2>2. f.size \in Nat \ {0}
    BY <2>1
  <2> QED
    BY <2>2
<1> QED
  BY <1>1, ReaderAssumption

\* A message that is all there is taken whole.
LEMMA DecodeTakesFrame ==
  ASSUME NEW f \in Frames, Decoded(f.code), NEW n \in Int, n >= f.size
  PROVE  DecodeTakes(MessageOf(f.code), n) = f.size
<1> DEFINE m == MessageOf(f.code)
<1>1. m \in Messages /\ m.code = f.code
  BY DEF Decoded, MessageOf
<1> HIDE DEF m
<1>2. Sound(m)
  BY <1>1, MessagesSound
<1>3. f.size = m.message_size
  BY <1>1, <1>2, Constants, Zenon DEF Sound
<1>4. f.size \in Int /\ ~(n < f.size)
  BY Constants
<1>5. DecodeTakes(m, n) = f.size
  BY <1>2, <1>3, <1>4, Zenon DEF Sound, DecodeTakes
<1> QED
  BY <1>5 DEF m

-----------------------------------------------------------------------------
(***************************************************************************)
(* The invariant.  Between two calls p is where the next frame starts; while *)
(* a message waits to be pushed p is already past it.                       *)
(***************************************************************************)
Lengths ==
  /\ length \in Nat /\ length <= Offset[Len(buffer)]
  /\ p \in Nat /\ l \in Nat
  /\ p + l = length

Counts ==
  /\ read \in Nat /\ skipped \in Nat /\ loaded \in Nat
  /\ FramesRead \in 0 .. Len(buffer)
  /\ Offset[FramesRead] = 2 * FramesRead + loaded + SkippedAmong[FramesRead]

Position ==
  /\ pc \in {"call", "push", "end"}
  /\ pc = "call" => p = Offset[FramesRead]
  /\ pc = "push" => /\ FramesRead + 1 \in 1 .. Len(buffer)
                    /\ frame = buffer[FramesRead + 1]
                    /\ Decoded(frame.code)
                    /\ p = Offset[FramesRead + 1]

Delivered ==
  /\ queue \in Seq(Frames) /\ consumed \in Seq(Frames)
  /\ NothingLost

Inv == BufferOK /\ Lengths /\ Counts /\ Position /\ Delivered

LEMMA InitHolds == Init => Inv
<1> SUFFICES ASSUME Init PROVE Inv
  OBVIOUS
<1>1. BufferOK
  <2>1. PICK n \in 0 .. MaxFrames : buffer \in [1 .. n -> Frames]
    BY DEF Init
  <2>2. n \in Nat
    BY Constants
  <2>3. buffer \in Seq(Frames) /\ Len(buffer) = n
    BY <2>1, <2>2
  <2> QED
    BY <2>1, <2>2, <2>3, Constants DEF BufferOK
<1>2. Len(buffer) \in Nat /\ (Len(buffer) + 1) - 1 = Len(buffer)
  BY <1>1 DEF BufferOK
<1>3. Lengths
  <2>1. PICK cut \in Cuts : cut <= Offset[Len(buffer)] /\ length = Offset[Len(buffer)] - cut
    BY <1>2 DEF Init, StartOf
  <2>2. cut \in Nat /\ Offset[Len(buffer)] \in Nat
    BY <1>1, <1>2, Constants, Offsets
  <2> QED
    BY <2>1, <2>2 DEF Init, Lengths
<1>4. FramesRead = 0
  BY DEF Init, FramesRead
<1>5. Counts
  <2>1. Offset[0] = 0 /\ SkippedAmong[0] = 0
    BY <1>1, Offsets, Among
  <2> QED
    BY <1>2, <1>4, <2>1 DEF Init, Counts
<1>6. Position
  BY <1>1, <1>4, Offsets DEF Init, Position
<1>7. Delivered
  <2>1. consumed \o queue = <<>> /\ queue \in Seq(Frames) /\ consumed \in Seq(Frames)
    BY DEF Init
  <2> QED
    BY <1>1, <1>4, <2>1, Among DEF Delivered, NothingLost
<1> QED
  BY <1>1, <1>3, <1>5, <1>6, <1>7 DEF Inv

\* Nothing changes the buffer.
LEMMA BufferStays ==
  ASSUME buffer' = buffer
  PROVE  /\ Offset' = Offset /\ MessagesAmong' = MessagesAmong /\ SkippedAmong' = SkippedAmong
         /\ BufferOK => BufferOK'
BY DEF Offset, MessagesAmong, SkippedAmong, BufferOK

\* When a call finds two bytes there is a frame there, and this is the one FrameAt finds.
LEMMA AtFrame ==
  ASSUME Inv, pc = "call", l >= 2
  PROVE  /\ FramesRead + 1 \in 1 .. Len(buffer)
         /\ FrameAt(p) = buffer[FramesRead + 1]
         /\ buffer[FramesRead + 1] \in Frames
         /\ buffer[FramesRead + 1].size \in Nat
         /\ Offset[FramesRead + 1] = p + 2 + buffer[FramesRead + 1].size
<1> DEFINE k == FramesRead
<1>1. /\ BufferOK /\ Len(buffer) \in Nat /\ k \in 0 .. Len(buffer) /\ p = Offset[k]
      /\ p \in Nat /\ l \in Nat /\ length <= Offset[Len(buffer)] /\ p + l = length
  BY DEF Inv, BufferOK, Lengths, Counts, Position
<1> HIDE DEF k
<1>2. k # Len(buffer)
  BY <1>1
<1>3. k + 1 \in 1 .. Len(buffer) /\ k \in 0 .. Len(buffer) - 1 /\ (k + 1) - 1 = k
  BY <1>1, <1>2
<1>4. FrameAt(p) = buffer[k + 1]
  BY <1>1, <1>3, FrameFound
<1>5. buffer[k + 1] \in Frames /\ buffer[k + 1].size \in Nat
  BY <1>1, <1>3 DEF BufferOK
<1>6. Offset[k + 1] = Offset[k] + 2 + buffer[k + 1].size
  BY <1>1, <1>3, Offsets
<1> QED
  BY <1>1, <1>3, <1>4, <1>5, <1>6 DEF k

\* Appending to the queue appends to all that was pushed.
LEMMA AppendLast ==
  ASSUME NEW s \in Seq(Frames), NEW q \in Seq(Frames), NEW f \in Frames
  PROVE  s \o Append(q, f) = Append(s \o q, f)
OBVIOUS

\* One more frame is read.
LEMMA FrameCounted ==
  ASSUME Inv, FramesRead + 1 \in 1 .. Len(buffer)
  PROVE  /\ (FramesRead + 1) - 1 = FramesRead
         /\ buffer[FramesRead + 1].size \in Nat
         /\ Offset[FramesRead + 1] = Offset[FramesRead] + 2 + buffer[FramesRead + 1].size
         /\ Offset[FramesRead] \in Nat /\ SkippedAmong[FramesRead] \in Nat
BY Offsets, Among DEF Inv, Counts, BufferOK

LEMMA NextHolds == Inv /\ [Next]_vars => Inv'
<1> SUFFICES ASSUME Inv, [Next]_vars PROVE Inv'
  OBVIOUS
<1> DEFINE k == FramesRead
<1>1. /\ BufferOK /\ Lengths /\ Counts /\ Position /\ Delivered
  BY DEF Inv
<1>2. buffer' = buffer /\ length' = length
  BY DEF Next, Reader, NoHeader, ShortFrame, SkipMessage, DecodeMessage, Stall, Push, Pop, vars
<1>3. Offset' = Offset /\ MessagesAmong' = MessagesAmong /\ SkippedAmong' = SkippedAmong /\ BufferOK'
  BY <1>1, <1>2, BufferStays
<1>4. read \in Nat /\ skipped \in Nat /\ k = read + skipped /\ k \in 0 .. Len(buffer)
  BY <1>1 DEF Counts, FramesRead
<1>5. ASSUME read' = read, skipped' = skipped, loaded' = loaded
      PROVE  FramesRead' = FramesRead /\ Counts'
  BY <1>1, <1>2, <1>3, <1>5 DEF Counts, FramesRead
<1>6. ASSUME FramesRead' = FramesRead, queue' = queue, consumed' = consumed
      PROVE  Delivered'
  BY <1>1, <1>3, <1>6 DEF Delivered, NothingLost
<1>7. ASSUME p' = p, l' = l
      PROVE  Lengths'
  BY <1>1, <1>2, <1>3, <1>7 DEF Lengths
<1>8. ASSUME FramesRead' = FramesRead, p' = p, pc' = pc, frame' = frame
      PROVE  Position'
  BY <1>1, <1>2, <1>3, <1>8 DEF Position
<1>9. ASSUME NEW n \in Nat, n <= l, p' = p + n, l' = l - n
      PROVE  Lengths'
  BY <1>1, <1>2, <1>3, <1>9 DEF Lengths
<1>10. l \in Nat /\ p \in Nat
  BY <1>1 DEF Lengths
<1>11. CASE NoHeader
  <2>1. Counts' /\ Delivered' /\ Lengths'
    BY <1>5, <1>6, <1>7, <1>11 DEF NoHeader
  <2>2. Position'
    BY <1>11 DEF NoHeader, Position
  <2> QED
    BY <1>3, <2>1, <2>2 DEF Inv
<1>12. CASE ShortFrame
  <2>1. Counts' /\ Delivered'
    BY <1>5, <1>6, <1>12 DEF ShortFrame
  <2>2. Lengths'
    BY <1>9, <1>10, <1>12 DEF ShortFrame, Take, uint16
  <2>3. Position'
    BY <1>12 DEF ShortFrame, Position
  <2> QED
    BY <1>3, <2>1, <2>2, <2>3 DEF Inv
<1>13. CASE SkipMessage
  <2> DEFINE f == buffer[k + 1]
  <2>1. pc = "call" /\ l >= 2
    BY <1>13 DEF SkipMessage, Dispatch, uint16
  <2>2. /\ k + 1 \in 1 .. Len(buffer) /\ FrameAt(p) = f /\ f \in Frames /\ f.size \in Nat
        /\ Offset[k + 1] = p + 2 + f.size
    BY <2>1, AtFrame
  <2>3. ~Decoded(f.code) /\ l - 2 >= f.size /\ p' = p + (2 + f.size) /\ l' = l - (2 + f.size)
    BY <1>13, <2>2 DEF SkipMessage, Dispatch, Take, uint16
  <2>4. FramesRead' = k + 1
    BY <1>4, <1>13 DEF SkipMessage, FramesRead
  <2>5. /\ (k + 1) - 1 = k
        /\ Offset[k + 1] = Offset[k] + 2 + f.size
        /\ Offset[k] \in Nat /\ SkippedAmong[k] \in Nat
    BY <2>2, FrameCounted
  <2>6. MessagesAmong[k + 1] = MessagesAmong[k] /\ SkippedAmong[k + 1] = SkippedAmong[k] + f.size
    BY <1>1, <2>2, <2>3, <2>5, Among
  <2> HIDE DEF k, f
  <2>7. Lengths'
    <3>1. 2 + f.size \in Nat /\ 2 + f.size <= l
      BY <1>10, <2>2, <2>3
    <3> QED
      BY <1>9, <2>3, <3>1, Zenon
  <2>8. Counts'
    <3>1. /\ read' \in Nat /\ skipped' \in Nat /\ loaded' \in Nat /\ loaded' = loaded
          /\ loaded \in Nat /\ Offset[k] = 2 * k + loaded + SkippedAmong[k]
      BY <1>1, <1>4, <1>13 DEF SkipMessage, Counts, k
    <3>2. Offset[k + 1] = 2 * (k + 1) + loaded + SkippedAmong[k + 1]
      <4>1. k \in Nat
        BY <1>4
      <4> QED
        BY <2>2, <2>5, <2>6, <3>1, <4>1, SMTT(30)
    <3>3. k + 1 \in 0 .. Len(buffer)
      BY <1>4, <2>2
    <3> QED
      BY <1>2, <1>3, <2>4, <3>1, <3>2, <3>3 DEF Counts
  <2>9. Position'
    <3>1. pc' = "call"
      BY <1>13, <2>1 DEF SkipMessage
    <3>2. p' = Offset[k + 1]
      BY <1>10, <2>2, <2>3
    <3> QED
      BY <1>3, <2>4, <3>1, <3>2 DEF Position
  <2>10. Delivered'
    BY <1>1, <1>3, <1>13, <2>4, <2>6 DEF SkipMessage, Delivered, NothingLost, k
  <2> QED
    BY <1>3, <2>7, <2>8, <2>9, <2>10 DEF Inv
<1>14. CASE DecodeMessage
  <2> DEFINE f == buffer[k + 1]
  <2>1. pc = "call" /\ l >= 2
    BY <1>14 DEF DecodeMessage, Dispatch, uint16
  <2>2. /\ k + 1 \in 1 .. Len(buffer) /\ FrameAt(p) = f /\ f \in Frames /\ f.size \in Nat
        /\ Offset[k + 1] = p + 2 + f.size
    BY <2>1, AtFrame
  <2>3. /\ Decoded(f.code) /\ l - 2 >= f.size /\ l - 2 \in Int
    BY <1>10, <1>14, <2>2 DEF DecodeMessage, Dispatch, uint16
  <2>4. DecodeTakes(MessageOf(f.code), l - 2) = f.size
    BY <2>2, <2>3, DecodeTakesFrame
  <2>5. /\ p' = p + (2 + f.size) /\ l' = l - (2 + f.size)
        /\ frame' = f /\ pc' = "push"
    BY <1>14, <2>2, <2>4 DEF DecodeMessage, Take, uint16
  <2>6. Counts' /\ FramesRead' = k /\ Delivered'
    BY <1>5, <1>6, <1>14 DEF DecodeMessage
  <2> HIDE DEF f
  <2>7. Lengths'
    <3>1. 2 + f.size \in Nat /\ 2 + f.size <= l
      BY <1>10, <2>2, <2>3
    <3> QED
      BY <1>9, <2>5, <3>1, Zenon
  <2>8. p' = Offset[k + 1]
    BY <1>10, <2>2, <2>5
  <2>9. Position'
    BY <1>2, <1>3, <2>2, <2>3, <2>5, <2>6, <2>8 DEF Position, f
  <2> QED
    BY <1>3, <2>6, <2>7, <2>9 DEF Inv
<1>15. CASE Stall
  <2>1. Counts' /\ Delivered' /\ Lengths' /\ Position'
    BY <1>5, <1>6, <1>7, <1>8, <1>15 DEF Stall
  <2> QED
    BY <1>3, <2>1 DEF Inv
<1>16. CASE Push
  <2> DEFINE f == buffer[k + 1]
  <2>1. k + 1 \in 1 .. Len(buffer) /\ frame = f /\ Decoded(f.code) /\ p = Offset[k + 1]
    BY <1>1, <1>16 DEF Push, Position
  <2>2. f \in Frames
    BY <1>1, <2>1 DEF BufferOK
  <2>3. /\ (k + 1) - 1 = k /\ f.size \in Nat
        /\ Offset[k + 1] = Offset[k] + 2 + f.size
        /\ Offset[k] \in Nat /\ SkippedAmong[k] \in Nat
    BY <2>1, FrameCounted
  <2>4. MessagesAmong[k + 1] = Append(MessagesAmong[k], f) /\ SkippedAmong[k + 1] = SkippedAmong[k]
    BY <1>1, <2>1, <2>3, Among
  <2>5. FramesRead' = k + 1
    BY <1>4, <1>16 DEF Push, FramesRead
  <2>6. Lengths'
    BY <1>7, <1>16 DEF Push
  <2> HIDE DEF k, f
  <2>7. Counts'
    <3>1. /\ read' \in Nat /\ skipped' \in Nat /\ loaded' \in Nat /\ loaded' = loaded + f.size
          /\ loaded \in Nat /\ Offset[k] = 2 * k + loaded + SkippedAmong[k]
      BY <1>1, <1>4, <1>16, <2>1, <2>3 DEF Push, Counts, k
    <3>2. Offset[k + 1] = 2 * (k + 1) + loaded' + SkippedAmong[k + 1]
      <4>1. k \in Nat
        BY <1>4
      <4> QED
        BY <2>3, <2>4, <3>1, <4>1, SMTT(30)
    <3>3. k + 1 \in 0 .. Len(buffer)
      BY <1>4, <2>1
    <3> QED
      BY <1>2, <1>3, <2>5, <3>1, <3>2, <3>3 DEF Counts
  <2>8. Position'
    BY <1>3, <1>16, <2>1, <2>5 DEF Push, Position
  <2>9. Delivered'
    <3>1. queue \in Seq(Frames) /\ consumed \in Seq(Frames) /\ consumed \o queue = MessagesAmong[k]
      BY <1>1 DEF Delivered, NothingLost, k
    <3>2. queue' = Append(queue, f) /\ consumed' = consumed
      BY <1>16, <2>1 DEF Push
    <3>3. consumed \o Append(queue, f) = Append(consumed \o queue, f)
      BY <2>2, <3>1, AppendLast
    <3>4. Append(queue, f) \in Seq(Frames)
      BY <2>2, <3>1
    <3> QED
      BY <1>3, <2>4, <2>5, <3>1, <3>2, <3>3, <3>4 DEF Delivered, NothingLost
  <2> QED
    BY <1>3, <2>6, <2>7, <2>8, <2>9 DEF Inv
<1>17. CASE Pop
  <2>1. Counts' /\ Lengths' /\ FramesRead' = FramesRead /\ Position'
    BY <1>5, <1>7, <1>8, <1>17 DEF Pop
  <2>2. Delivered'
    <3>1. queue \in Seq(Frames) /\ consumed \in Seq(Frames) /\ queue # <<>>
      BY <1>1, <1>17 DEF Delivered, Pop
    <3>2. /\ Append(consumed, Head(queue)) \in Seq(Frames) /\ Tail(queue) \in Seq(Frames)
          /\ Append(consumed, Head(queue)) \o Tail(queue) = consumed \o queue
      BY <3>1
    <3> QED
      BY <1>1, <1>3, <1>17, <2>1, <3>2 DEF Pop, Delivered, NothingLost
  <2> QED
    BY <1>3, <2>1, <2>2 DEF Inv
<1>18. CASE UNCHANGED vars
  <2>1. Counts' /\ Delivered' /\ Lengths' /\ Position'
    BY <1>5, <1>6, <1>7, <1>8, <1>18 DEF vars
  <2> QED
    BY <1>3, <2>1 DEF Inv
<1> QED
  BY <1>11, <1>12, <1>13, <1>14, <1>15, <1>16, <1>17, <1>18 DEF Next, Reader

LEMMA InvAlways == Spec => []Inv
BY InitHolds, NextHolds, PTL DEF Spec

-----------------------------------------------------------------------------
\* The reader never leaves the boundaries of the frames: what each decode takes is what the
\* exchange has sent, so p after a message is where read_next_message finds the next length.
THEOREM AlwaysInStep == Spec => []InStep
<1>1. Inv => InStep
  <2> SUFFICES ASSUME Inv, pc # "end" PROVE AtBoundary(p)
    BY DEF Inv, Lengths, InStep
  <2>1. Len(buffer) \in Nat /\ FramesRead \in 0 .. Len(buffer)
    BY DEF Inv, BufferOK, Counts
  <2>2. CASE pc = "call"
    <3>1. p = StartOf(FramesRead + 1)
      BY <2>1, <2>2 DEF Inv, Position, StartOf
    <3> QED
      BY <2>1, <3>1 DEF AtBoundary
  <2>3. CASE pc = "push"
    <3>1. FramesRead + 1 \in 1 .. Len(buffer) /\ p = Offset[FramesRead + 1]
      BY <2>3 DEF Inv, Position
    <3>2. FramesRead + 2 \in 1 .. Len(buffer) + 1 /\ (FramesRead + 2) - 1 = FramesRead + 1
      BY <2>1, <3>1
    <3> QED
      BY <3>1, <3>2 DEF AtBoundary, StartOf
  <2> QED
    BY <2>2, <2>3 DEF Inv, Position
<1> QED
  BY <1>1, InvAlways, PTL

\* No message is lost, doubled or overtaken between the buffer and the consumer, however
\* long try_push fails and whatever the capacity of the queue.
THEOREM NothingEverLost == Spec => []NothingLost
<1>1. Inv => NothingLost
  BY DEF Inv, Delivered
<1> QED
  BY <1>1, InvAlways, PTL

\* messages_status accounts for every byte before the current frame.
THEOREM CountersAlwaysAddUp == Spec => []CountersAddUp
<1>1. Inv => CountersAddUp
  <2> SUFFICES ASSUME Inv, pc = "call"
               PROVE  /\ p = StartOf(FramesRead + 1)
                      /\ p = uint16 * FramesRead + loaded + SkippedAmong[FramesRead]
    BY DEF CountersAddUp
  <2>1. FramesRead \in Nat /\ p = Offset[FramesRead]
    BY DEF Inv, Counts, Position
  <2> QED
    BY <2>1 DEF Inv, Counts, StartOf, uint16
<1> QED
  BY <1>1, InvAlways, PTL
=============================================================================
