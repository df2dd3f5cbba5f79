---------------------------- MODULE BrokerProofs ----------------------------
(***************************************************************************)
(* Quotes and their timestamps, for any prices, volumes and margins, any   *)
(* second, any size of a word, any counter and any number of quotes and    *)
(* corrections of the clock.                                               *)
(***************************************************************************)
EXTENDS Broker, SequenceTheorems, TLAPS

-----------------------------------------------------------------------------
(***************************************************************************)
(* A timespec is a number of units.                                        *)
(***************************************************************************)
LEMMA DivMod ==
  ASSUME NEW d \in Nat \ {0}, NEW u \in Nat
  PROVE  u % d \in 0 .. d - 1 /\ u \div d \in Nat /\ u = d * (u \div d) + (u % d)
OBVIOUS

LEMMA Multiples ==
  ASSUME NEW d \in Nat \ {0}, NEW a \in Int, NEW b \in Int, a < b
  PROVE  a * d + d <= b * d
OBVIOUS

Timespecs == [sec : Nat, nsec : 0 .. Second - 1]

LEMMA SecondOK == Second \in Nat \ {0}
BY ArithmeticAssumption

LEMMA OfUnits ==
  ASSUME NEW u \in Nat
  PROVE  timespec(u) \in Timespecs /\ Units(timespec(u)) = u
<1>1. u % Second \in 0 .. Second - 1 /\ u \div Second \in Nat
      /\ u = Second * (u \div Second) + (u % Second)
  BY DivMod, SecondOK
<1> DEFINE q == u \div Second
           r == u % Second
<1> HIDE DEF q, r
<1>2. timespec(u) = [sec |-> q, nsec |-> r]
  BY DEF timespec, q, r
<1>3. r \in 0 .. Second - 1 /\ q \in Nat /\ u = Second * q + r
  BY <1>1 DEF q, r
<1>4. q * Second + r = u
  BY <1>3, SecondOK
<1> QED
  BY <1>2, <1>3, <1>4 DEF Timespecs, Units

LEMMA UnitsOrder ==
  ASSUME NEW s \in Timespecs, NEW t \in Timespecs
  PROVE  /\ Units(s) \in Nat
         /\ Earlier(s, t) <=> Units(s) < Units(t)
         /\ s = t <=> Units(s) = Units(t)
<1>1. /\ s.sec \in Nat /\ s.nsec \in Nat /\ s.nsec < Second
      /\ t.sec \in Nat /\ t.nsec \in Nat /\ t.nsec < Second
  BY SecondOK DEF Timespecs
<1>2. s.sec * Second \in Nat /\ t.sec * Second \in Nat
  BY <1>1, SecondOK
<1>3. s.sec < t.sec => s.sec * Second + Second <= t.sec * Second
  BY <1>1, SecondOK, Multiples
<1>4. t.sec < s.sec => t.sec * Second + Second <= s.sec * Second
  BY <1>1, SecondOK, Multiples
<1>5. s = [sec |-> s.sec, nsec |-> s.nsec] /\ t = [sec |-> t.sec, nsec |-> t.nsec]
  BY DEF Timespecs
<1> DEFINE a == s.sec * Second
           b == t.sec * Second
<1>6. /\ a \in Nat /\ b \in Nat /\ Units(s) = a + s.nsec /\ Units(t) = b + t.nsec
      /\ s.sec = t.sec => a = b
      /\ s.sec < t.sec => a + Second <= b
      /\ t.sec < s.sec => b + Second <= a
  BY <1>2, <1>3, <1>4 DEF Units
<1> HIDE DEF a, b
<1>7. Earlier(s, t) <=> Units(s) < Units(t)
  BY <1>1, <1>6, SecondOK DEF Earlier
<1>8. Units(s) = Units(t) => s.sec = t.sec /\ s.nsec = t.nsec
  BY <1>1, <1>6, SecondOK
<1> QED
  BY <1>1, <1>5, <1>6, <1>7, <1>8

LEMMA Same ==
  ASSUME NEW t \in Timespecs, NEW u \in Nat, Units(t) = u
  PROVE  t = timespec(u)
BY OfUnits, UnitsOrder

LEMMA Parts ==
  ASSUME NEW u \in Nat
  PROVE  /\ timespec(u).sec \in Nat /\ timespec(u).nsec \in Nat /\ timespec(u).nsec < Second
         /\ u = timespec(u).sec * Second + timespec(u).nsec
BY OfUnits, SecondOK DEF Timespecs, Units

LEMMA Adding ==
  ASSUME NEW m \in Nat, NEW n \in Nat
  PROVE  AddTo(timespec(m), n) = timespec(m + n)
<1> DEFINE t == timespec(m)
           k == t.nsec + n
           q == k \div Second
           r == k % Second
<1>1. t.sec \in Nat /\ t.nsec \in Nat /\ m = t.sec * Second + t.nsec
  BY Parts
<1> HIDE DEF t
<1>2. k \in Nat
  BY <1>1
<1> HIDE DEF k
<1>3. r \in 0 .. Second - 1 /\ q \in Nat /\ k = Second * q + r
  BY <1>2, DivMod, SecondOK
<1>4. AddTo(t, n) = [sec |-> t.sec + q, nsec |-> r]
  BY DEF AddTo, k
<1> HIDE DEF q, r
<1>5. (t.sec + q) * Second + r = m + n
  <2>1. (t.sec + q) * Second = t.sec * Second + Second * q
    BY <1>1, <1>3, SecondOK
  <2> QED
    BY <1>1, <1>3, <2>1, SecondOK DEF k
<1>6. AddTo(t, n) \in Timespecs /\ Units(AddTo(t, n)) = m + n
  BY <1>1, <1>3, <1>4, <1>5 DEF Timespecs, Units
<1>7. m + n \in Nat
  OBVIOUS
<1> QED
  BY <1>6, <1>7, Same DEF t

LEMMA Taking ==
  ASSUME NEW m \in Nat, NEW n \in Nat
  PROVE  TakeFrom(timespec(m), n) = timespec(Greatest(m - n, 0))
<1> DEFINE t == timespec(m)
           q == n \div Second
           r == n % Second
           sec == t.sec - q
           nsec == t.nsec - r
<1>1. t.sec \in Nat /\ t.nsec \in Nat /\ t.nsec < Second /\ m = t.sec * Second + t.nsec
  BY Parts
<1>2. r \in 0 .. Second - 1 /\ q \in Nat /\ n = Second * q + r
  BY DivMod, SecondOK
<1>3. TakeFrom(t, n) = CASE sec < 0 -> Zero
                         [] sec = 0 /\ nsec < 0 -> Zero
                         [] sec > 0 /\ nsec < 0 -> [sec |-> sec - 1, nsec |-> nsec + Second]
                         [] OTHER -> [sec |-> sec, nsec |-> nsec]
  BY DEF TakeFrom
<1> HIDE DEF t, q, r
<1>4. /\ sec \in Int /\ nsec \in Int /\ nsec < Second /\ -Second < nsec
      /\ sec * Second + nsec = m - n
  BY <1>1, <1>2, SecondOK
<1>5. sec < 0 => sec * Second + Second <= 0 * Second
  BY <1>4, SecondOK, Multiples
<1>6. 0 < sec => 0 * Second + Second <= sec * Second
  BY <1>4, SecondOK, Multiples
<1> HIDE DEF sec, nsec
<1>7. Zero = timespec(0)
  <2>1. Zero \in Timespecs /\ Units(Zero) = 0
    BY SecondOK DEF Zero, Timespecs, Units
  <2> QED
    BY <2>1, Same
<1>8. CASE sec < 0 \/ (sec = 0 /\ nsec < 0)
  <2>1. m - n < 0
    BY <1>4, <1>5, <1>8, SecondOK
  <2>2. Greatest(m - n, 0) = 0
    BY <2>1 DEF Greatest
  <2>3. TakeFrom(t, n) = Zero
    BY <1>3, <1>4, <1>8
  <2> QED
    BY <1>7, <2>2, <2>3 DEF t
<1>9. CASE sec > 0 /\ nsec < 0
  <2>1. m - n \in Nat /\ Greatest(m - n, 0) = m - n
    BY <1>4, <1>6, <1>9, SecondOK DEF Greatest
  <2>2. TakeFrom(t, n) = [sec |-> sec - 1, nsec |-> nsec + Second]
    BY <1>3, <1>4, <1>9
  <2>3. (sec - 1) * Second + (nsec + Second) = m - n
    BY <1>4, SecondOK
  <2>4. sec - 1 \in Nat /\ nsec + Second \in 0 .. Second - 1
    BY <1>4, <1>9, SecondOK
  <2>5. TakeFrom(t, n) \in Timespecs /\ Units(TakeFrom(t, n)) = m - n
    BY <2>2, <2>3, <2>4 DEF Timespecs, Units
  <2> QED
    BY <2>1, <2>5, Same DEF t
<1>10. CASE sec >= 0 /\ nsec >= 0
  <2>1. m - n \in Nat /\ Greatest(m - n, 0) = m - n
    BY <1>4, <1>6, <1>10, SecondOK DEF Greatest
  <2>2. TakeFrom(t, n) = [sec |-> sec, nsec |-> nsec]
    BY <1>3, <1>4, <1>10
  <2>3. TakeFrom(t, n) \in Timespecs /\ Units(TakeFrom(t, n)) = m - n
    BY <1>4, <1>10, <2>2, SecondOK DEF Timespecs, Units
  <2> QED
    BY <2>1, <2>3, Same DEF t
<1> QED
  BY <1>4, <1>8, <1>9, <1>10

LEMMA Difference ==
  ASSUME NEW m \in Nat, NEW n \in Nat
  PROVE  delta(timespec(m), timespec(n)) = Greatest(m - n, n - m)
<1> DEFINE s == timespec(m)
           t == timespec(n)
<1>1. /\ s.sec \in Nat /\ s.nsec \in Nat /\ m = s.sec * Second + s.nsec
      /\ t.sec \in Nat /\ t.nsec \in Nat /\ n = t.sec * Second + t.nsec
  BY Parts
<1>2. Earlier(t, s) <=> n < m
  BY OfUnits, UnitsOrder
<1> HIDE DEF s, t
<1>3. /\ (s.sec - t.sec) * Second + (s.nsec - t.nsec) = m - n
      /\ (t.sec - s.sec) * Second + (t.nsec - s.nsec) = n - m
  BY <1>1, SecondOK
<1>4. delta(s, t) = IF n < m THEN m - n ELSE n - m
  BY <1>2, <1>3 DEF delta
<1> QED
  BY <1>4 DEF Greatest, s, t

\* timespec computes like a number of units that stops at zero, with every carry and borrow,
\* whatever the second is and however long the durations are.
THEOREM TimespecComputes ==
  \A m, n \in Nat :
    /\ AddTo(timespec(m), n) = timespec(m + n)
    /\ TakeFrom(timespec(m), n) = timespec(Greatest(m - n, 0))
    /\ delta(timespec(m), timespec(n)) = Greatest(m - n, n - m)
BY Adding, Taking, Difference

-----------------------------------------------------------------------------
(***************************************************************************)
(* muldiv64, for every size of a word: it divides the whole product.       *)
(***************************************************************************)
LEMMA DivModInt ==
  ASSUME NEW d \in Nat \ {0}, NEW n \in Int
  PROVE  n % d \in 0 .. d - 1 /\ n \div d \in Int /\ n = d * (n \div d) + (n % d)
OBVIOUS

\* Quotient and remainder are unique.
LEMMA Between ==
  ASSUME NEW d \in Nat \ {0}, NEW p \in Int, NEW q \in Int, NEW r \in 0 .. d - 1,
         NEW s \in 0 .. d - 1, d * p + r = d * q + s
  PROVE  p = q /\ r = s
<1>1. p < q => d * p + d <= d * q
  OBVIOUS
<1>2. q < p => d * q + d <= d * p
  OBVIOUS
<1> DEFINE a == d * p
           b == d * q
<1>3. a \in Int /\ b \in Int /\ a + r = b + s /\ (p < q => a + d <= b) /\ (q < p => b + d <= a) /\ (p = q => a = b)
  BY <1>1, <1>2
<1> HIDE DEF a, b
<1>4. p = q
  BY <1>3
<1> QED
  BY <1>3, <1>4

LEMMA DivIs ==
  ASSUME NEW d \in Nat \ {0}, NEW q \in Int, NEW r \in 0 .. d - 1, NEW n \in Int, n = d * q + r
  PROVE  n \div d = q /\ n % d = r
BY DivModInt, Between

LEMMA BaseOK == Base \in Nat /\ Base >= 2 /\ Word \in Nat /\ Word = Base * Base /\ Word > Base
<1>1. Base \in Nat /\ Base >= 2
  BY ArithmeticAssumption
<1>2. Base * Base >= 2 * Base
  BY <1>1
<1> DEFINE w == Base * Base
<1>3. w \in Nat /\ w >= 2 * Base
  BY <1>1, <1>2
<1> HIDE DEF w
<1>4. w > Base
  BY <1>1, <1>3
<1> QED
  BY <1>1, <1>3, <1>4 DEF Word, w

LEMMA Nonzero == Base \in Nat \ {0} /\ Word \in Nat \ {0}
BY BaseOK

LEMMA SmallMod ==
  ASSUME NEW d \in Nat \ {0}, NEW x \in 0 .. d - 1
  PROVE  x % d = x /\ x \div d = 0
<1>1. x = d * 0 + x
  OBVIOUS
<1> QED
  BY <1>1, DivIs

LEMMA ProductMono ==
  ASSUME NEW a \in Nat, NEW b \in Nat, NEW m \in Nat, NEW n \in Nat, a <= m, b <= n
  PROVE  a * b \in Nat /\ a * b <= m * n
<1>1. a * b <= m * b
  OBVIOUS
<1>2. m * b <= m * n
  OBVIOUS
<1>3. a * b \in Nat /\ m * b \in Nat /\ m * n \in Nat
  OBVIOUS
<1> DEFINE x == a * b
           y == m * b
           z == m * n
<1> HIDE DEF x, y, z
<1>4. x <= y /\ y <= z /\ x \in Nat /\ y \in Nat /\ z \in Nat
  BY <1>1, <1>2, <1>3 DEF x, y, z
<1>5. x <= z
  BY <1>4
<1> QED
  BY <1>5, <1>3 DEF x, z

LEMMA TwoDigits ==
  ASSUME NEW h \in 0 .. Base - 1, NEW l \in 0 .. Base - 1
  PROVE  h * Base + l \in 0 .. Word - 1
<1>1. h * Base <= (Base - 1) * Base
  BY ProductMono, BaseOK
<1>2. (Base - 1) * Base = Word - Base /\ h * Base \in Nat
  BY BaseOK
<1> DEFINE x == h * Base
<1> HIDE DEF x
<1>3. x \in Nat /\ x <= Word - Base
  BY <1>1, <1>2 DEF x
<1> QED
  BY <1>3, BaseOK DEF x

LEMMA DigitProduct ==
  ASSUME NEW x \in 0 .. Base - 1, NEW y \in 0 .. Base - 1
  PROVE  x * y \in 0 .. (Word - 2 * Base) + 1
<1>1. x * y <= (Base - 1) * (Base - 1) /\ x * y \in Nat
  BY ProductMono, BaseOK
<1>2. (Base - 1) * (Base - 1) = Base * Base - 2 * Base + 1
  BY BaseOK
<1> DEFINE p == x * y
<1>3. p \in Nat /\ p <= Word - 2 * Base + 1
  BY <1>1, <1>2, BaseOK
<1> HIDE DEF p
<1>4. p \in 0 .. (Word - 2 * Base) + 1
  BY <1>3, BaseOK
<1> QED
  BY <1>4 DEF p

LEMMA SmallWord ==
  ASSUME NEW x \in 0 .. Word - 1
  PROVE  x % Word = x
BY SmallMod, BaseOK

\* The loop's condition says of a digit q of the quotient, without the words wrapping, that q
\* times the divisor is not more than the dividend.
LEMMA FitsMeans ==
  ASSUME NEW q \in Nat, NEW rhat \in Nat, NEW digit \in 0 .. Base - 1, NEW ch \in Nat,
         NEW cl \in 0 .. Base - 1
  PROVE  Fits(q, rhat, digit, cl) <=>
           q < Base /\ q * (ch * Base + cl) <= (q * ch + rhat) * Base + digit
<1> DEFINE qc == q * cl
           rb == rhat * Base
           z  == (q * ch) * Base
<1>1. q * (ch * Base + cl) = z + qc
  <2>1. q * (ch * Base + cl) = q * (ch * Base) + q * cl
    BY BaseOK
  <2>2. q * (ch * Base) = (q * ch) * Base
    BY BaseOK
  <2> QED
    BY <2>1, <2>2
<1>2. (q * ch + rhat) * Base = z + rb
  BY BaseOK
<1>3. qc \in Nat /\ rb \in Nat /\ z \in Nat
  BY BaseOK
<1>4. (z + qc <= z + rb + digit) <=> qc <= rb + digit
  <2> HIDE DEF qc, rb, z
  <2> QED
    BY <1>3
<1>5. SUFFICES ASSUME q < Base
               PROVE  Fits(q, rhat, digit, cl) <=> qc <= rb + digit
  <2> HIDE DEF qc, rb, z
  <2> QED
    BY <1>1, <1>2, <1>4, <1>5 DEF Fits
<1>6. qc \in 0 .. Word - 1 /\ Times(q, cl) = qc
  <2>1. qc \in 0 .. (Word - 2 * Base) + 1
    <3>1. q \in 0 .. Base - 1
      BY <1>5, BaseOK
    <3> QED
      BY <3>1, DigitProduct
  <2> HIDE DEF qc
  <2>2. qc \in 0 .. Word - 1
    BY <2>1, BaseOK
  <2> QED
    BY <2>2, SmallWord DEF Times, qc
<1>7. CASE rhat >= Base
  <2>1. Base * Base <= rhat * Base
    BY <1>7, ProductMono, BaseOK
  <2>2. Fits(q, rhat, digit, cl)
    BY <1>5, <1>7 DEF Fits
  <2>3. Word <= rb
    BY <2>1, BaseOK
  <2> HIDE DEF qc, rb, z
  <2>4. qc <= rb + digit
    BY <2>3, <1>6, <1>3, BaseOK
  <2> QED
    BY <2>2, <2>4
<1>8. CASE rhat < Base
  <2>1. rb + digit \in 0 .. Word - 1
    <3>1. rhat \in 0 .. Base - 1
      BY <1>8, BaseOK
    <3> QED
      BY <3>1, TwoDigits
  <2>2. rb \in 0 .. Word - 1
    <3> HIDE DEF qc, rb, z
    <3> QED
      BY <2>1, <1>3, BaseOK
  <2>3. Times(rhat, Base) = rb
    BY <2>2, SmallWord DEF Times
  <2>4. Plus(rb, digit) = rb + digit
    BY <2>1, SmallWord DEF Plus
  <2>5. ~ (rhat >= Base)
    BY <1>8, BaseOK
  <2> HIDE DEF qc, rb, z
  <2> QED
    BY <1>5, <1>6, <2>3, <2>4, <2>5 DEF Fits
<1> QED
  BY <1>7, <1>8, BaseOK

\* The first estimate that fits is the digit: the estimates go down from a number that is not
\* too small, and all that are too large fail.
LEMMA DigitIsQuotient ==
  ASSUME NEW p \in Nat, NEW digit \in 0 .. Base - 1, NEW ch \in Nat \ {0},
         NEW cl \in 0 .. Base - 1, p < ch * Base + cl
  PROVE  /\ QuotientDigit(p, digit, ch, cl) = (p * Base + digit) \div (ch * Base + cl)
         /\ QuotientDigit(p, digit, ch, cl) \in 0 .. Base - 1
<1> DEFINE D == ch * Base + cl
           N == p * Base + digit
           Q == N \div D
           e == p \div ch
           r == p % ch
           Good(q) == q < Base /\ q * D <= N
           FitsBy(n) == Fits((p \div ch) - n, (p % ch) + n * ch, digit, cl)
<1>1. D \in Nat \ {0} /\ N \in Nat
  <2>1. ch * Base >= 1 * Base
    BY BaseOK
  <2>2. ch * Base \in Nat /\ p * Base \in Nat
    BY BaseOK
  <2> QED
    BY <2>1, <2>2, BaseOK
<1>2. Q \in Nat /\ Q * D <= N /\ N < (Q + 1) * D
  <2>1. N % D \in 0 .. D - 1 /\ N \div D \in Nat /\ N = D * (N \div D) + (N % D)
    <3> HIDE DEF N, D
    <3> QED
      BY <1>1, DivMod
  <2> DEFINE R == N % D
  <2> HIDE DEF D, N, Q, R
  <2>3. R \in 0 .. D - 1 /\ Q \in Nat /\ N = D * Q + R
    BY <2>1 DEF Q, R
  <2>4. (Q + 1) * D = D * Q + D /\ Q * D = D * Q /\ D * Q \in Nat
    BY <1>1, <2>3
  <2> QED
    BY <1>1, <2>3, <2>4
<1>3. N < Base * D
  <2>1. p + 1 <= D
    BY <1>1
  <2>2. (p + 1) * Base <= D * Base
    BY <2>1, <1>1, ProductMono, BaseOK
  <2>3. (p + 1) * Base = p * Base + Base /\ D * Base = Base * D /\ p * Base \in Nat
    BY <1>1, BaseOK
  <2>4. N < p * Base + Base
    BY <2>3, BaseOK
  <2> QED
    BY <2>2, <2>3, <2>4, <1>1, BaseOK
<1>4. Good(Q)
  <2>1. Q >= Base => Base * D <= Q * D
    BY <1>2, <1>1, ProductMono, BaseOK
  <2> HIDE DEF Q, N, D
  <2>2. Base * D \in Nat /\ Q * D \in Nat
    BY <1>1, <1>2, BaseOK
  <2>3. ~ (Q >= Base)
    BY <2>1, <2>2, <1>2, <1>3, <1>1
  <2> QED
    BY <2>3, <1>2, BaseOK
<1>5. \A q \in Nat : q > Q => ~Good(q)
  <2> HIDE DEF Q, N, D
  <2>1. ASSUME NEW q \in Nat, q > Q
        PROVE  ~ (q * D <= N)
    <3>1. (Q + 1) * D <= q * D
      BY <2>1, <1>1, <1>2, ProductMono
    <3>2. (Q + 1) * D \in Nat /\ q * D \in Nat
      BY <1>1, <1>2
    <3> QED
      BY <3>1, <3>2, <1>1, <1>2
  <2> QED
    BY <2>1
<1>6. e \in Nat /\ r \in 0 .. ch - 1 /\ p = ch * e + r
  BY DivMod
<1>7. Q <= e
  <2>1. ASSUME Q > e
        PROVE  FALSE
    <3>1. (e + 1) * ch <= Q * ch
      BY <2>1, <1>2, <1>6, ProductMono
    <3>2. (e + 1) * ch = ch * e + ch
      BY <1>6
    <3>3. p + 1 <= Q * ch
      <4> HIDE DEF e, r, Q
      <4>1. ch * e \in Nat /\ Q * ch \in Nat
        BY <1>6, <1>2
      <4> QED
        BY <3>1, <3>2, <1>6, <4>1
    <3>4. (p + 1) * Base <= (Q * ch) * Base
      <4>1. Q * ch \in Nat
        BY <1>2
      <4> HIDE DEF Q
      <4> QED
        BY <3>3, <4>1, ProductMono, BaseOK
    <3>5. Q * D = (Q * ch) * Base + Q * cl
      <4> HIDE DEF Q
      <4>1. Q * D = Q * (ch * Base) + Q * cl
        BY <1>2, BaseOK
      <4>2. Q * (ch * Base) = (Q * ch) * Base
        BY <1>2, BaseOK
      <4> QED
        BY <4>1, <4>2
    <3>6. (p + 1) * Base = p * Base + Base
      BY BaseOK
    <3> DEFINE u == (Q * ch) * Base
               v == Q * cl
               w == p * Base
    <3>7. u \in Nat /\ v \in Nat /\ w \in Nat
      BY <1>2, BaseOK
    <3>8. N = w + digit
      OBVIOUS
    <3> HIDE DEF u, v, w, Q, N, D
    <3>9. w + Base <= u /\ u + v <= w + digit
      BY <3>4, <3>5, <3>6, <3>8, <1>2 DEF u, v, w
    <3> QED
      BY <3>9, <3>7, BaseOK
  <2> QED
    BY <2>1, <1>2, <1>6
<1>8. \A n \in 0 .. e : FitsBy(n) <=> Good(e - n)
  <2>1. ASSUME NEW n \in 0 .. e
        PROVE  FitsBy(n) <=> Good(e - n)
    <3>1. e - n \in Nat /\ n * ch \in Nat /\ r + n * ch \in Nat
      BY <1>6
    <3>2. (e - n) * ch + (r + n * ch) = p
      <4>1. (e - n) * ch = ch * e - n * ch
        BY <1>6
      <4> HIDE DEF e, r
      <4>2. ch * e \in Nat
        BY <1>6
      <4> QED
        BY <4>1, <4>2, <3>1, <1>6
    <3>3. Fits(e - n, r + n * ch, digit, cl) <=>
            e - n < Base /\ (e - n) * (ch * Base + cl) <= ((e - n) * ch + (r + n * ch)) * Base + digit
      <4> HIDE DEF e, r
      <4> QED
        BY <3>1, FitsMeans
    <3> QED
      BY <3>2, <3>3
  <2> QED
    BY <2>1
<1> DEFINE P(k) == k \in 0 .. e /\ FitsBy(k) /\ \A j \in 0 .. k - 1 : ~FitsBy(j)
<1>9. \A k : P(k) <=> k = e - Q
  <2> HIDE DEF Q, e, FitsBy, Good
  <2>1. e - Q \in 0 .. e /\ e - (e - Q) = Q
    BY <1>2, <1>6, <1>7
  <2>2. FitsBy(e - Q)
    BY <2>1, <1>8, <1>4
  <2>3. ASSUME NEW j \in 0 .. (e - Q) - 1
        PROVE  ~FitsBy(j)
    <3>1. j \in 0 .. e /\ e - j \in Nat /\ e - j > Q
      BY <1>2, <1>6, <1>7
    <3> QED
      BY <3>1, <1>5, <1>8
  <2>4. ASSUME NEW k \in 0 .. e, FitsBy(k), \A j \in 0 .. k - 1 : ~FitsBy(j)
        PROVE  k = e - Q
    <3>1. Good(e - k) /\ e - k \in Nat
      BY <2>4, <1>8, <1>6
    <3>2. ~ (e - k > Q)
      BY <3>1, <1>5
    <3>3. e - Q \notin 0 .. k - 1
      BY <2>2, <2>4
    <3> QED
      BY <3>2, <3>3, <2>1, <1>2, <1>6
  <2> QED
    BY <2>1, <2>2, <2>3, <2>4
<1>10. (CHOOSE k \in 0 .. e : FitsBy(k) /\ \A j \in 0 .. k - 1 : ~FitsBy(j)) = e - Q
  <2> HIDE DEF Q, FitsBy
  <2>1. e - Q \in 0 .. e /\ FitsBy(e - Q) /\ \A j \in 0 .. (e - Q) - 1 : ~FitsBy(j)
    BY <1>9
  <2>2. \A k \in 0 .. e : (FitsBy(k) /\ \A j \in 0 .. k - 1 : ~FitsBy(j)) => k = e - Q
    BY <1>9
  <2> HIDE DEF e
  <2> QED
    BY <2>1, <2>2
<1>11. QuotientDigit(p, digit, ch, cl) = e - (CHOOSE k \in 0 .. e : FitsBy(k) /\ \A j \in 0 .. k - 1 : ~FitsBy(j))
  BY DEF QuotientDigit
<1>12. e - (e - Q) = Q /\ Q \in 0 .. Base - 1
  BY <1>2, <1>4, <1>6, BaseOK
<1> QED
  BY <1>10, <1>11, <1>12

LEMMA WordDigits ==
  ASSUME NEW x \in 0 .. Word - 1
  PROVE  /\ x \div Base \in 0 .. Base - 1 /\ x % Base \in 0 .. Base - 1
         /\ x = (x \div Base) * Base + (x % Base)
<1> DEFINE h == x \div Base
           l == x % Base
<1>1. l \in 0 .. Base - 1 /\ h \in Nat /\ x = Base * h + l
  BY DivMod, BaseOK
<1> HIDE DEF h, l
<1>2. Base * h = h * Base /\ h * Base \in Nat
  BY <1>1, BaseOK
<1>3. h >= Base => Base * Base <= h * Base
  BY <1>1, BaseOK, ProductMono
<1> DEFINE y == h * Base
<1>4. y \in Nat /\ x = y + l /\ (h >= Base => Word <= y)
  BY <1>1, <1>2, <1>3, BaseOK
<1> HIDE DEF y
<1>5. h < Base
  BY <1>1, <1>4, BaseOK
<1> QED
  BY <1>1, <1>4, <1>5, BaseOK DEF h, l, y

\* r1 and r2 of LongDivision: what the first digit of the quotient leaves.
LowLeft(p, p1, q, cl)  == Minus(Plus(Times(p % Base, Base), p1), Times(q, cl))
HighLeft(p, r1, q, ch) == Minus(Plus(Times(p \div Base, Base), r1 \div Base), Times(q, ch))

LEMMA WordOps ==
  ASSUME NEW x \in Nat, NEW y \in Nat
  PROVE  /\ x + y < Word => Plus(x, y) = x + y
         /\ x * y < Word => Times(x, y) = x * y
<1>1. x * y \in Nat /\ x + y \in Nat
  OBVIOUS
<1> DEFINE m == x * y
           a == x + y
<1> HIDE DEF m, a
<1>2. (m < Word => m % Word = m) /\ (a < Word => a % Word = a)
  BY <1>1, SmallWord, BaseOK DEF m, a
<1> QED
  BY <1>2 DEF Plus, Times, m, a

LEMMA DigitTimes ==
  ASSUME NEW x \in 0 .. Base - 1, NEW y \in 0 .. Base - 1
  PROVE  Times(x, y) = x * y /\ x * y \in Nat /\ x * y <= Word - 2 * Base + 1
<1> DEFINE m == x * y
<1>1. m \in 0 .. (Word - 2 * Base) + 1
  BY DigitProduct
<1>2. x \in Nat /\ y \in Nat /\ (m < Word => Times(x, y) = m)
  BY WordOps
<1> HIDE DEF m
<1>3. m < Word /\ m \in Nat /\ m <= Word - 2 * Base + 1
  BY <1>1, BaseOK
<1> QED
  BY <1>2, <1>3 DEF m

LEMMA DigitShift ==
  ASSUME NEW h \in 0 .. Base - 1, NEW l \in 0 .. Base - 1
  PROVE  /\ Times(h, Base) = h * Base /\ h * Base \in Nat
         /\ Plus(h * Base, l) = h * Base + l /\ Plus(l, h * Base) = h * Base + l
         /\ h * Base + l \in 0 .. Word - 1
<1> DEFINE m == h * Base
<1>1. m + l \in 0 .. Word - 1 /\ m \in Nat
  BY TwoDigits, BaseOK
<1>2. m < Word => Times(h, Base) = m
  <2>1. h \in Nat /\ Base \in Nat
    BY BaseOK
  <2> QED
    BY <2>1, WordOps
<1> HIDE DEF m
<1>3. m < Word /\ m + l = l + m /\ l \in Nat /\ l + m < Word
  BY <1>1, BaseOK
<1>4. Plus(m, l) = m + l /\ Plus(l, m) = l + m
  BY <1>1, <1>3, WordOps
<1>5. Times(h, Base) = m /\ m \in Nat /\ Plus(m, l) = m + l /\ Plus(l, m) = m + l /\ m + l \in 0 .. Word - 1
  BY <1>1, <1>2, <1>3, <1>4
<1> QED
  BY <1>5 DEF m

\* The subtraction of the low half may borrow and wrap; the two halves still give the remainder.
LEMMA LeftOver ==
  ASSUME NEW D \in Base .. Word - 1, NEW p \in 0 .. D - 1, NEW p1 \in 0 .. Base - 1,
         NEW q \in 0 .. Base - 1, NEW R \in 0 .. D - 1, p * Base + p1 = q * D + R
  PROVE  LET r1 == LowLeft(p, p1, q, D % Base)
             r2 == HighLeft(p, r1, q, D \div Base)
         IN  Plus(r1 % Base, Times(r2 % Base, Base)) = R
<1> DEFINE ch == D \div Base
           cl == D % Base
           ph == p \div Base
           pl == p % Base
           x  == (pl * Base + p1) - q * cl
           r1 == x % Word
           k  == x \div Word
           rh == r1 \div Base
           rl == r1 % Base
           y  == (ph * Base + rh) - q * ch
           r2 == y % Word
           k2 == y \div Word
           z  == y + Base * k
<1>1. /\ ch \in 0 .. Base - 1 /\ cl \in 0 .. Base - 1 /\ D = ch * Base + cl
      /\ ph \in 0 .. Base - 1 /\ pl \in 0 .. Base - 1 /\ p = ph * Base + pl
  <2>1. D \in 0 .. Word - 1 /\ p \in 0 .. Word - 1
    BY BaseOK
  <2> QED
    BY <2>1, WordDigits
<1> HIDE DEF ch, cl, ph, pl
<1>2. x \in Int /\ LowLeft(p, p1, q, cl) = r1
  <2>1. Plus(Times(pl, Base), p1) = pl * Base + p1 /\ pl * Base + p1 \in Nat
    BY <1>1, DigitShift
  <2>2. Times(q, cl) = q * cl /\ q * cl \in Nat
    BY <1>1, DigitTimes
  <2> QED
    BY <2>1, <2>2 DEF LowLeft, Minus, pl
<1> HIDE DEF x
<1>3. r1 \in 0 .. Word - 1 /\ k \in Int /\ x = Word * k + r1
  BY <1>2, DivModInt, Nonzero
<1> HIDE DEF r1, k
<1>4. rh \in 0 .. Base - 1 /\ rl \in 0 .. Base - 1 /\ r1 = rh * Base + rl
  BY <1>3, WordDigits
<1>5. y \in Int /\ HighLeft(p, r1, q, ch) = r2
  <2>1. Plus(Times(ph, Base), rh) = ph * Base + rh /\ ph * Base + rh \in Nat
    BY <1>1, <1>4, DigitShift
  <2>2. Times(q, ch) = q * ch /\ q * ch \in Nat
    BY <1>1, DigitTimes
  <2> QED
    BY <2>1, <2>2 DEF HighLeft, Minus, ph
<1> HIDE DEF rh, rl
<1>6. r2 \in 0 .. Word - 1 /\ k2 \in Int /\ y = Word * k2 + r2
  <2> HIDE DEF y
  <2> QED
    BY <1>5, DivModInt, Nonzero
<1> HIDE DEF r2, k2
<1>7. R = Base * z + rl
  <2>1. p * Base = (ph * Base) * Base + pl * Base
    BY <1>1, BaseOK
  <2>2. q * D = (q * ch) * Base + q * cl
    <3>1. q * D = q * (ch * Base) + q * cl
      BY <1>1, BaseOK
    <3>2. q * (ch * Base) = (q * ch) * Base
      BY <1>1, BaseOK
    <3> QED
      BY <3>1, <3>2
  <2>3. Base * z = (ph * Base) * Base + rh * Base - (q * ch) * Base + Word * k
    <3> DEFINE u == ph * Base
               v == q * ch
    <3>1. u \in Int /\ v \in Int
      BY <1>1, BaseOK
    <3> HIDE DEF u, v
    <3>2. Base * ((u + rh) - v + Base * k) = u * Base + rh * Base - v * Base + Base * (Base * k)
      BY <3>1, <1>4, <1>3, BaseOK
    <3>3. Base * (Base * k) = Word * k
      BY <1>3, BaseOK
    <3> QED
      BY <3>2, <3>3 DEF u, v
  <2> DEFINE A == (ph * Base) * Base
             B == pl * Base
             C == (q * ch) * Base
             E == q * cl
             F == rh * Base
             G == Word * k
  <2>4. A \in Int /\ B \in Int /\ C \in Int /\ E \in Int /\ F \in Int /\ G \in Int
    BY <1>1, <1>3, <1>4, BaseOK
  <2>5. /\ A + B + p1 = C + E + R
        /\ B + p1 - E = G + F + rl
    <3>1. p * Base + p1 = q * D + R
      OBVIOUS
    <3>2. x = (B + p1) - E
      BY Zenon DEF x
    <3>3. A + B + p1 = C + E + R
      BY <2>1, <2>2, <3>1
    <3>4. r1 = F + rl /\ x = G + r1
      BY <1>3, <1>4
    <3> HIDE DEF A, B, C, E, F, G
    <3> QED
      BY <3>2, <3>3, <3>4, <2>4, <1>4, <1>3
  <2>6. Base * z = A + F - C + G
    BY <2>3
  <2> HIDE DEF A, B, C, E, F, G, z
  <2> QED
    BY <2>4, <2>5, <2>6, <1>4
<1>8. z \in Int
  BY <1>3, <1>5, BaseOK
<1>9. z \in 0 .. Base - 1 /\ R = z * Base + rl
  <2>1. R \in 0 .. Word - 1
    BY BaseOK
  <2>2. R \div Base = z
    <3> HIDE DEF z
    <3> QED
      BY <1>7, <1>8, <1>4, DivIs, BaseOK
  <2>3. R % Base = rl
    <3> HIDE DEF z
    <3> QED
      BY <1>7, <1>8, <1>4, DivIs, BaseOK
  <2> HIDE DEF z
  <2> QED
    BY <2>1, <2>2, <2>3, WordDigits
<1>10. r2 % Base = z
  <2> DEFINE j == (-k) - Base * k2
  <2>1. j \in Int
    BY <1>3, <1>6, BaseOK
  <2>2. r2 = Base * j + z
    <3>1. Base * j = -(Base * k) - Base * (Base * k2)
      BY <1>3, <1>6, BaseOK
    <3>2. Base * (Base * k2) = Word * k2
      BY <1>6, BaseOK
    <3> DEFINE a == Base * k
               b == Word * k2
               c == Base * j
    <3>3. a \in Int /\ b \in Int /\ c \in Int /\ c = -a - b
      BY <3>1, <3>2, <2>1, <1>3, <1>6, BaseOK
    <3>4. z = y + a /\ y = b + r2
      BY <1>6
    <3> HIDE DEF a, b, c, j, z, y
    <3>5. r2 = c + z
      BY <3>3, <3>4, <1>5, <1>6
    <3> QED
      BY <3>5 DEF c
  <2> HIDE DEF j, z
  <2> QED
    <3>1. r2 \in Int /\ z \in 0 .. Base - 1
      BY <1>6, <1>9, BaseOK
    <3> QED
      BY <3>1, <2>1, <2>2, DivIs, Nonzero
<1>11. Plus(rl, Times(z, Base)) = R
  <2> HIDE DEF z
  <2> QED
    BY <1>9, <1>4, DigitShift
<1>12. r1 = LowLeft(p, p1, q, D % Base) /\ r2 = HighLeft(p, r1, q, D \div Base)
  BY <1>2, <1>5 DEF ch, cl
<1> HIDE DEF z
<1> QED
  BY <1>10, <1>11, <1>12 DEF rl

\* The high word of the product.
High(mid, mid2, ah, bh) == Plus(Plus(mid \div Base, Times(ah, bh)), mid2 \div Base)

\* The product is complete: no partial sum of it wraps.
LEMMA LongProduct ==
  ASSUME NEW ah \in 0 .. Base - 1, NEW al \in 0 .. Base - 1,
         NEW bh \in 0 .. Base - 1, NEW bl \in 0 .. Base - 1
  PROVE  LET low1 == Times(al, bl)
             mid  == Plus(low1 \div Base, Times(al, bh))
             mid2 == Plus(mid % Base, Times(ah, bl))
         IN  /\ low1 % Base \in 0 .. Base - 1 /\ mid2 % Base \in 0 .. Base - 1
             /\ High(mid, mid2, ah, bh) \in 0 .. Word - 1
             /\ (ah * Base + al) * (bh * Base + bl) =
                  (High(mid, mid2, ah, bh) * Base + (mid2 % Base)) * Base + (low1 % Base)
<1> DEFINE low1 == Times(al, bl)
           mid  == Plus(low1 \div Base, Times(al, bh))
           mid2 == Plus(mid % Base, Times(ah, bl))
           ll == al * bl
           lh == al * bh
           hl == ah * bl
           hh == ah * bh
           c1 == low1 \div Base
           p0 == low1 % Base
           c2 == mid \div Base
           m0 == mid % Base
           c3 == mid2 \div Base
           p1 == mid2 % Base
<1>1. /\ low1 = ll /\ Times(al, bh) = lh /\ Times(ah, bl) = hl /\ Times(ah, bh) = hh
      /\ ll \in Nat /\ lh \in Nat /\ hl \in Nat /\ hh \in Nat
      /\ ll <= Word - 2 * Base + 1 /\ lh <= Word - 2 * Base + 1
      /\ hl <= Word - 2 * Base + 1 /\ hh <= Word - 2 * Base + 1
  BY DigitTimes
<1> DEFINE Small(n) == n \in Nat /\ n <= Word - 2 * Base + 1
<1>2. \A n : Small(n) => n \in 0 .. Word - 1
  BY BaseOK
<1> HIDE DEF ll, lh, hl, hh
<1>3. c1 \in 0 .. Base - 1 /\ p0 \in 0 .. Base - 1 /\ low1 = c1 * Base + p0
  <2>1. low1 \in 0 .. Word - 1
    BY <1>1, <1>2
  <2> HIDE DEF low1
  <2> QED
    BY <2>1, WordDigits
<1> HIDE DEF low1, c1, p0
<1>4. mid = c1 + lh /\ mid \in 0 .. Word - 1
  <2>1. c1 \in Nat /\ c1 + lh < Word /\ c1 + lh \in Nat
    BY <1>1, <1>3, BaseOK
  <2>2. mid = Plus(c1, lh)
    BY <1>1 DEF c1
  <2>3. mid = c1 + lh
    BY <2>1, <2>2, <1>1, WordOps
  <2> HIDE DEF mid
  <2> QED
    BY <2>1, <2>3, BaseOK
<1> HIDE DEF mid
<1>5. c2 \in 0 .. Base - 1 /\ m0 \in 0 .. Base - 1 /\ mid = c2 * Base + m0
  BY <1>4, WordDigits
<1> HIDE DEF c2, m0
<1>6. mid2 = m0 + hl /\ mid2 \in 0 .. Word - 1
  <2>1. m0 \in Nat /\ m0 + hl < Word /\ m0 + hl \in Nat
    BY <1>1, <1>5, BaseOK
  <2>2. mid2 = Plus(m0, hl)
    BY <1>1 DEF m0
  <2>3. mid2 = m0 + hl
    BY <2>1, <2>2, <1>1, WordOps
  <2> HIDE DEF mid2
  <2> QED
    BY <2>1, <2>3, BaseOK
<1> HIDE DEF mid2
<1>7. c3 \in 0 .. Base - 1 /\ p1 \in 0 .. Base - 1 /\ mid2 = c3 * Base + p1
  BY <1>6, WordDigits
<1> HIDE DEF c3, p1
<1> DEFINE P == High(mid, mid2, ah, bh)
<1>8. P = c2 + hh + c3 /\ P \in 0 .. Word - 1
  <2>1. /\ c2 \in Nat /\ c3 \in Nat /\ c2 + hh \in Nat /\ c2 + hh < Word
        /\ c2 + hh + c3 \in Nat /\ c2 + hh + c3 < Word
    BY <1>1, <1>5, <1>7, BaseOK
  <2>2. P = Plus(Plus(c2, hh), c3)
    BY <1>1 DEF High, c2, c3
  <2>3. Plus(c2, hh) = c2 + hh
    BY <2>1, <1>1, WordOps
  <2>4. Plus(c2 + hh, c3) = c2 + hh + c3
    BY <2>1, WordOps
  <2> HIDE DEF P
  <2> QED
    BY <2>1, <2>2, <2>3, <2>4, BaseOK
<1> HIDE DEF P
<1>9. (ah * Base + al) * (bh * Base + bl) = (hh * Base) * Base + hl * Base + lh * Base + ll
  <2> DEFINE x == ah * Base
             y == bh * Base
  <2>1. x \in Int /\ y \in Int
    BY BaseOK
  <2>2. (x + al) * (y + bl) = x * y + x * bl + al * y + al * bl
    <3> HIDE DEF x, y
    <3> QED
      BY <2>1
  <2>3. x * y = ((ah * bh) * Base) * Base
    BY BaseOK
  <2>4. x * bl = (ah * bl) * Base
    BY BaseOK
  <2>5. al * y = (al * bh) * Base
    BY BaseOK
  <2> QED
    BY <2>2, <2>3, <2>4, <2>5 DEF hh, hl, lh, ll
<1>10. (P * Base + p1) * Base + p0 = (hh * Base) * Base + hl * Base + lh * Base + ll
  <2> DEFINE pb == P * Base
             hb == hh * Base
             c2b == c2 * Base
             c3b == c3 * Base
             c1b == c1 * Base
             lhb == lh * Base
             hlb == hl * Base
  <2>1. /\ pb \in Int /\ hb \in Int /\ c2b \in Int /\ c3b \in Int /\ c1b \in Int
        /\ lhb \in Int /\ hlb \in Int
    BY <1>1, <1>3, <1>5, <1>7, <1>8, BaseOK
  <2>2. pb = c2b + hb + c3b
    BY <1>1, <1>5, <1>7, <1>8, BaseOK
  <2>3. ll = c1b + p0 /\ c1 + lh = c2b + m0 /\ m0 + hl = c3b + p1
    BY <1>1, <1>3, <1>4, <1>5, <1>6, <1>7
  <2> HIDE DEF pb, c2b, c3b, hb
  <2>4. (pb + p1) * Base = c2b * Base + hb * Base + c3b * Base + p1 * Base
    BY <2>1, <2>2, <1>7, BaseOK
  <2>5. c1b + lhb = c2b * Base + m0 * Base
    <3>1. (c1 + lh) * Base = (c2b + m0) * Base
      BY <2>3
    <3> QED
      BY <3>1, <2>1, <1>1, <1>3, <1>5, BaseOK
  <2>6. m0 * Base + hlb = c3b * Base + p1 * Base
    <3>1. (m0 + hl) * Base = (c3b + p1) * Base
      BY <2>3
    <3> QED
      BY <3>1, <2>1, <1>1, <1>7, <1>5, BaseOK
  <2> DEFINE A == c2b * Base
             B == hb * Base
             C == c3b * Base
             D == p1 * Base
             E == m0 * Base
             F == (pb + p1) * Base
  <2>7. A \in Int /\ B \in Int /\ C \in Int /\ D \in Int /\ E \in Int /\ F \in Int
    BY <2>1, <1>5, <1>7, BaseOK
  <2> HIDE DEF lhb, hlb, c1b
  <2>8. F = A + B + C + D /\ c1b + lhb = A + E /\ E + hlb = C + D
    BY <2>4, <2>5, <2>6
  <2> HIDE DEF A, B, C, D, E, F
  <2>9. F + p0 = B + hlb + lhb + ll
    BY <2>1, <2>3, <2>7, <2>8, <1>3, <1>1
  <2> QED
    BY <2>9 DEF F, B, hlb, lhb, pb, hb
<1> QED
  BY <1>3, <1>7, <1>8, <1>9, <1>10 DEF P, p0, p1, low1, mid, mid2

\* Scaling a and c by the same number wraps neither,
LEMMA Scaled ==
  ASSUME NEW c \in Base .. Word - 1, NEW a \in 1 .. c - 1
  PROVE  LET norm == (Word - 1) \div c
         IN  /\ norm \in Nat \ {0}
             /\ Times(c, norm) = c * norm /\ c * norm \in Base .. Word - 1
             /\ Times(a, norm) = a * norm /\ a * norm \in 0 .. c * norm - 1
<1> DEFINE norm == (Word - 1) \div c
           rest == (Word - 1) % c
           cn == c * norm
           an == a * norm
<1>1. c \in Nat \ {0} /\ Word - 1 \in Nat
  BY BaseOK
<1>2. norm \in Nat /\ rest \in 0 .. c - 1 /\ Word - 1 = c * norm + rest
  BY <1>1, DivMod
<1> HIDE DEF norm, rest
<1>3. norm # 0
  BY <1>1, <1>2, BaseOK
<1>4. c * 1 <= c * norm
  BY <1>1, <1>2, <1>3
<1>5. (a + 1) * norm <= c * norm
  BY <1>1, <1>2, ProductMono
<1>6. (a + 1) * norm = a * norm + norm
  BY <1>2
<1>7. cn \in Nat /\ an \in Nat
  BY <1>1, <1>2
<1>8. c <= cn /\ an + norm <= cn /\ Word - 1 = cn + rest
  BY <1>1, <1>2, <1>4, <1>5, <1>6
<1>9. /\ cn < Word => Times(c, norm) = cn
      /\ an < Word => Times(a, norm) = an
  BY <1>1, <1>2, WordOps
<1> HIDE DEF cn, an
<1>10. cn \in Base .. Word - 1 /\ an \in 0 .. cn - 1 /\ cn < Word /\ an < Word
  BY <1>1, <1>2, <1>3, <1>7, <1>8, BaseOK
<1> QED
  BY <1>2, <1>3, <1>9, <1>10 DEF cn, an, norm

\* and does not change the quotient.
LEMMA DivScaled ==
  ASSUME NEW n \in Nat, NEW c \in Nat \ {0}, NEW k \in Nat \ {0}
  PROVE  (n * k) \div (c * k) = n \div c
<1> DEFINE q == n \div c
           r == n % c
<1>1. q \in Nat /\ r \in 0 .. c - 1 /\ n = c * q + r
  BY DivMod
<1> HIDE DEF q, r
<1>2. n * k = (c * k) * q + r * k
  BY <1>1
<1>3. (r + 1) * k <= c * k /\ (r + 1) * k = r * k + k /\ r * k \in Nat /\ c * k \in Nat
  BY <1>1, ProductMono
<1>4. r * k \in 0 .. c * k - 1 /\ c * k \in Nat \ {0}
  <2> DEFINE x == r * k
             y == c * k
  <2>1. x + k <= y /\ x \in Nat /\ y \in Nat
    BY <1>3
  <2> HIDE DEF x, y
  <2>2. x \in 0 .. y - 1 /\ y \in Nat \ {0}
    BY <2>1
  <2> QED
    BY <2>2 DEF x, y
<1> DEFINE m == n * k
           d == c * k
           s == r * k
<1>5. m \in Int /\ d \in Nat \ {0} /\ s \in 0 .. d - 1 /\ m = d * q + s
  BY <1>1, <1>2, <1>4
<1> HIDE DEF m, d, s
<1>6. m \div d = q
  BY <1>1, <1>5, DivIs
<1> QED
  BY <1>6 DEF m, d, q

\* Dividing three digits by two, one digit of the quotient after the other.
LEMMA TwoSteps ==
  ASSUME NEW D \in Nat \ {0}, NEW N \in Nat, NEW p0 \in 0 .. Base - 1
  PROVE  (N * Base + p0) \div D = (N \div D) * Base + ((N % D) * Base + p0) \div D
<1> DEFINE q == N \div D
           R == N % D
           M == R * Base + p0
           q0 == M \div D
           s == M % D
<1>1. q \in Nat /\ R \in 0 .. D - 1 /\ N = D * q + R
  BY DivMod
<1> HIDE DEF q, R
<1>2. M \in Nat
  BY <1>1, BaseOK
<1>3. q0 \in Nat /\ s \in 0 .. D - 1 /\ M = D * q0 + s
  <2> HIDE DEF M
  <2> QED
    BY <1>2, DivMod
<1> HIDE DEF q0, s
<1>4. N * Base + p0 = D * (q * Base + q0) + s
  <2>1. N * Base = D * (q * Base) + R * Base
    BY <1>1, BaseOK
  <2>2. D * (q * Base + q0) = D * (q * Base) + D * q0
    BY <1>1, <1>3, BaseOK
  <2> DEFINE x == N * Base
             y == D * (q * Base)
             z == R * Base
             w == D * q0
  <2>3. x \in Int /\ y \in Int /\ z \in Int /\ w \in Int
    BY <1>1, <1>3, BaseOK
  <2>4. x = y + z /\ D * (q * Base + q0) = y + w /\ z + p0 = w + s
    BY <2>1, <2>2, <1>3
  <2> HIDE DEF x, y, z, w
  <2>5. x + p0 = (y + w) + s
    BY <2>3, <2>4, <1>3
  <2> QED
    BY <2>4, <2>5 DEF x
<1> DEFINE m == N * Base + p0
           Q == q * Base + q0
<1>5. m \in Int /\ Q \in Int /\ m = D * Q + s
  BY <1>1, <1>3, <1>4, BaseOK
<1> HIDE DEF m, Q
<1>6. m \div D = Q
  BY <1>3, <1>5, DivIs
<1> QED
  BY <1>6 DEF m, Q, q0, M, q, R

LEMMA LongDivisionExact ==
  ASSUME NEW c \in Base .. Word - 1, NEW a \in 1 .. c - 1, NEW b \in 1 .. c - 1
  PROVE  LongDivision(a, b, c) = (a * b) \div c
<1> DEFINE norm == (Word - 1) \div c
           an == Times(a, norm)
           cn == Times(c, norm)
           ah == an \div Base
           al == an % Base
           bh == b \div Base
           bl == b % Base
           ch == cn \div Base
           cl == cn % Base
           low1 == Times(al, bl)
           mid  == Plus(low1 \div Base, Times(al, bh))
           mid2 == Plus(mid % Base, Times(ah, bl))
           p0 == low1 % Base
           p1 == mid2 % Base
           H  == High(mid, mid2, ah, bh)
           p2 == H % cn
           q1 == QuotientDigit(p2, p1, ch, cl)
           r1 == LowLeft(p2, p1, q1, cl)
           r2 == HighLeft(p2, r1, q1, ch)
           R  == Plus(r1 % Base, Times(r2 % Base, Base))
           q0 == QuotientDigit(R, p0, ch, cl)
<1>1. LongDivision(a, b, c) = Plus(q0, Times(q1, Base))
  BY Zenon DEF LongDivision, LowLeft, HighLeft, High
<1>2. /\ norm \in Nat \ {0} /\ cn = c * norm /\ cn \in Base .. Word - 1
      /\ an = a * norm /\ an \in 0 .. cn - 1
  BY Scaled
<1> HIDE DEF norm, an, cn
<1>3. /\ ah \in 0 .. Base - 1 /\ al \in 0 .. Base - 1 /\ an = ah * Base + al
      /\ bh \in 0 .. Base - 1 /\ bl \in 0 .. Base - 1 /\ b = bh * Base + bl
      /\ ch \in 0 .. Base - 1 /\ cl \in 0 .. Base - 1 /\ cn = ch * Base + cl
  <2>1. an \in 0 .. Word - 1 /\ b \in 0 .. Word - 1 /\ cn \in 0 .. Word - 1
    BY <1>2, BaseOK
  <2> QED
    BY <2>1, WordDigits
<1>4. ch \in Nat \ {0}
  BY <1>2, <1>3, BaseOK
<1> HIDE DEF ah, al, bh, bl, ch, cl
<1>5. /\ p0 \in 0 .. Base - 1 /\ p1 \in 0 .. Base - 1 /\ H \in 0 .. Word - 1
      /\ an * b = (H * Base + p1) * Base + p0
  BY <1>3, LongProduct
<1> HIDE DEF p0, p1, H
<1>6. H < cn
  <2>1. an * b <= an * Word
    BY <1>2, BaseOK, ProductMono
  <2>2. H >= cn => (an + 1) * Word <= H * Word
    BY <1>2, <1>5, BaseOK, ProductMono
  <2>3. (an + 1) * Word = an * Word + Word
    BY <1>2, BaseOK
  <2>4. (H * Base + p1) * Base + p0 = H * Word + (p1 * Base + p0)
    BY <1>5, BaseOK
  <2>5. p1 * Base + p0 \in Nat
    BY <1>5, BaseOK
  <2> DEFINE x == an * b
             y == an * Word
             z == H * Word
             w == p1 * Base + p0
  <2>6. x \in Nat /\ y \in Nat /\ z \in Nat /\ w \in Nat
    BY <1>2, <1>5, <2>5, BaseOK
  <2>7. x <= y /\ (H >= cn => y + Word <= z) /\ x = z + w
    BY <2>1, <2>2, <2>3, <2>4, <1>5
  <2> HIDE DEF x, y, z, w
  <2> QED
    BY <2>6, <2>7, <1>2, <1>5, BaseOK
<1>7. p2 = H /\ p2 \in 0 .. cn - 1
  <2>1. H \in 0 .. cn - 1 /\ cn \in Nat \ {0}
    BY <1>2, <1>5, <1>6, BaseOK
  <2> QED
    BY <2>1, SmallMod
<1> HIDE DEF p2
<1> DEFINE N == p2 * Base + p1
<1>8. q1 = N \div cn /\ q1 \in 0 .. Base - 1
  <2>1. p2 \in Nat /\ p2 < ch * Base + cl
    BY <1>2, <1>3, <1>7, BaseOK
  <2> QED
    BY <2>1, <1>3, <1>4, <1>5, DigitIsQuotient
<1> HIDE DEF q1
<1>9. N \in Nat /\ cn \in Nat \ {0}
  BY <1>2, <1>5, <1>7, BaseOK
<1>10. N % cn \in 0 .. cn - 1 /\ N = q1 * cn + (N % cn)
  <2> HIDE DEF N
  <2>1. N % cn \in 0 .. cn - 1 /\ N = cn * q1 + (N % cn)
    BY <1>8, <1>9, DivMod
  <2>2. cn * q1 = q1 * cn
    BY <1>8, <1>9, BaseOK
  <2> QED
    BY <2>1, <2>2
<1>11. R = N % cn
  BY <1>2, <1>5, <1>7, <1>8, <1>10, LeftOver DEF ch, cl
<1> HIDE DEF R, r1, r2
<1>12. q0 = (R * Base + p0) \div cn /\ q0 \in 0 .. Base - 1
  <2>1. R \in Nat /\ R < ch * Base + cl
    BY <1>2, <1>3, <1>10, <1>11, BaseOK
  <2> QED
    BY <2>1, <1>3, <1>4, <1>5, DigitIsQuotient
<1> HIDE DEF q0
<1>13. Plus(q0, Times(q1, Base)) = q1 * Base + q0
  BY <1>8, <1>12, DigitShift
<1>14. (N * Base + p0) \div cn = q1 * Base + q0
  <2> HIDE DEF N
  <2> QED
    BY <1>5, <1>8, <1>9, <1>11, <1>12, TwoSteps
<1>15. (an * b) \div cn = (a * b) \div c
  <2>1. an * b = (a * b) * norm
    BY <1>2
  <2>2. a * b \in Nat /\ c \in Nat \ {0}
    BY BaseOK
  <2> DEFINE n == a * b
  <2> HIDE DEF n
  <2>3. (n * norm) \div (c * norm) = n \div c
    BY <2>2, <1>2, DivScaled DEF n
  <2> QED
    BY <2>1, <2>3, <1>2 DEF n
<1> QED
  BY <1>1, <1>5, <1>7, <1>13, <1>14, <1>15

LEMMA ModPlus ==
  ASSUME NEW x \in Nat, NEW y \in Nat
  PROVE  /\ Plus(x % Word, y) = (x + y) % Word
         /\ Plus(x, y % Word) = (x + y) % Word
<1> DEFINE kx == x \div Word
           ky == y \div Word
           rx == x % Word
           ry == y % Word
<1>1. /\ kx \in Nat /\ rx \in 0 .. Word - 1 /\ x = Word * kx + rx
      /\ ky \in Nat /\ ry \in 0 .. Word - 1 /\ y = Word * ky + ry
  BY DivMod, Nonzero
<1> HIDE DEF kx, ky, rx, ry
<1>2. ASSUME NEW m \in Nat, NEW n \in Nat, NEW k \in Nat, n = Word * k + m
      PROVE  n % Word = m % Word
  <2> DEFINE j == m \div Word
             r == m % Word
  <2>1. j \in Nat /\ r \in 0 .. Word - 1 /\ m = Word * j + r
    BY DivMod, Nonzero
  <2> HIDE DEF j, r
  <2>2. n = Word * (k + j) + r
    <3>1. Word * (k + j) = Word * k + Word * j
      BY <2>1, BaseOK
    <3> DEFINE u == Word * k
               v == Word * j
    <3>2. u \in Nat /\ v \in Nat
      BY <2>1, BaseOK
    <3> HIDE DEF u, v
    <3>3. n = (u + v) + r
      BY <1>2, <2>1, <3>2 DEF u, v
    <3> QED
      BY <3>1, <3>3 DEF u, v
  <2>3. n % Word = r
    <3>1. k + j \in Int /\ n \in Int
      BY <2>1
    <3> QED
      BY <2>1, <2>2, <3>1, DivIs, Nonzero
  <2> QED
    BY <2>3 DEF r
<1>3. (x + y) % Word = (rx + y) % Word
  <2>1. rx + y \in Nat /\ x + y \in Nat
    BY <1>1, BaseOK
  <2>2. x + y = Word * kx + (rx + y)
    <3> DEFINE u == Word * kx
    <3>1. u \in Nat /\ x = u + rx
      BY <1>1, BaseOK
    <3> HIDE DEF u
    <3>2. x + y = u + (rx + y)
      BY <3>1, <1>1
    <3> QED
      BY <3>2 DEF u
  <2> QED
    BY <1>1, <1>2, <2>1, <2>2
<1>4. (x + y) % Word = (x + ry) % Word
  <2>1. x + ry \in Nat /\ x + y \in Nat
    BY <1>1, BaseOK
  <2>2. x + y = Word * ky + (x + ry)
    <3> DEFINE u == Word * ky
    <3>1. u \in Nat /\ y = u + ry
      BY <1>1, BaseOK
    <3> HIDE DEF u
    <3>2. x + y = u + (x + ry)
      BY <3>1, <1>1
    <3> QED
      BY <3>2 DEF u
  <2> QED
    BY <1>1, <1>2, <2>1, <2>2
<1> QED
  BY <1>3, <1>4 DEF Plus, rx, ry

\* Whole multiples of the divisor leave the product first.
LEMMA MulDivComputes ==
  ASSUME NEW a \in 0 .. Word - 1, NEW b \in 0 .. Word - 1, NEW c \in 1 .. Word - 1
  PROVE  muldiv64(a, b, c) = ((a * b) \div c) % Word
<1> DEFINE ka == a \div c
           x  == a % c
           kb == b \div c
           y  == b % c
           u  == ka * b
           v  == x * kb
           n  == x * y
           easy == Plus(Times(ka, b), Times(x, kb))
<1>1. c \in Nat \ {0} /\ a \in Nat /\ b \in Nat
  BY BaseOK
<1>2. /\ ka \in Nat /\ x \in 0 .. c - 1 /\ a = c * ka + x
      /\ kb \in Nat /\ y \in 0 .. c - 1 /\ b = c * kb + y
  BY <1>1, DivMod
<1> HIDE DEF ka, x, kb, y
<1>3. u \in Nat /\ v \in Nat /\ n \in Nat
  BY <1>1, <1>2
<1>4. a * b = c * (u + v) + n
  <2>1. a * b = c * u + x * b
    BY <1>1, <1>2
  <2>2. x * b = c * v + x * y
    <3>1. x * b = x * (c * kb) + x * y
      BY <1>1, <1>2
    <3>2. x * (c * kb) = c * (x * kb)
      BY <1>1, <1>2
    <3> QED
      BY <3>1, <3>2
  <2>3. c * (u + v) = c * u + c * v
    <3> HIDE DEF u, v
    <3> QED
      BY <1>1, <1>3
  <2> DEFINE p == c * u
             q == c * v
  <2>4. p \in Nat /\ q \in Nat
    <3> HIDE DEF u, v
    <3> QED
      BY <1>1, <1>3
  <2>5. a * b = p + (q + n) /\ c * (u + v) = p + q
    BY <2>1, <2>2, <2>3
  <2> HIDE DEF p, q, n
  <2>6. p + (q + n) = (p + q) + n
    BY <2>4, <1>3
  <2> QED
    BY <2>5, <2>6
<1>5. easy = (u + v) % Word
  <2>1. Times(ka, b) = u % Word /\ Times(x, kb) = v % Word
    BY DEF Times
  <2> HIDE DEF u, v
  <2>2. u % Word \in Nat
    BY <1>3, DivMod, Nonzero
  <2>3. Plus(u % Word, v % Word) = ((u % Word) + v) % Word
    BY <1>3, <2>2, ModPlus
  <2>4. Plus(u % Word, v) = (u + v) % Word
    BY <1>3, ModPlus
  <2>5. Plus(u % Word, v) = ((u % Word) + v) % Word
    BY DEF Plus
  <2> QED
    BY <2>1, <2>3, <2>4, <2>5
<1>6. (a * b) \div c = (u + v) + (n \div c)
  <2> DEFINE k == n \div c
             r == n % c
             w == u + v
             m == a * b
  <2>1. k \in Nat /\ r \in 0 .. c - 1 /\ n = c * k + r
    <3> HIDE DEF n
    <3> QED
      BY <1>1, <1>3, DivMod
  <2>2. w \in Nat /\ m \in Nat /\ m = c * w + n
    <3>1. w \in Nat
      <4> HIDE DEF u, v
      <4> QED
        BY <1>3
    <3>2. m \in Nat
      BY <1>1
    <3> QED
      BY <1>4, <3>1, <3>2
  <2> HIDE DEF k, r, w, m, n
  <2>3. m = c * (w + k) + r
    <3>1. c * (w + k) = c * w + c * k
      BY <1>1, <2>1, <2>2
    <3> DEFINE e == c * w
               f == c * k
    <3>2. e \in Nat /\ f \in Nat
      BY <1>1, <2>1, <2>2
    <3>3. m = e + n /\ n = f + r /\ c * (w + k) = e + f
      BY <2>1, <2>2, <3>1
    <3> HIDE DEF e, f
    <3>4. m = (e + f) + r
      BY <3>2, <3>3, <2>1
    <3> QED
      BY <3>3, <3>4
  <2>4. m \div c = w + k
    <3>1. m \in Int /\ w + k \in Int
      BY <2>1, <2>2
    <3> QED
      BY <1>1, <2>1, <2>3, <3>1, DivIs
  <2> QED
    BY <2>4 DEF m, w, k
<1> DEFINE w == u + v
           k == n \div c
<1>7. w \in Nat /\ k \in Nat
  <2>1. w \in Nat
    <3> HIDE DEF u, v
    <3> QED
      BY <1>3
  <2>2. k \in Nat
    <3> HIDE DEF n
    <3> QED
      BY <1>1, <1>3, DivMod
  <2> QED
    BY <2>1, <2>2
<1>8. easy = w % Word /\ (a * b) \div c = w + k
  BY <1>5, <1>6
<1>9. Plus(easy, k) = ((a * b) \div c) % Word
  <2> HIDE DEF w, k, easy
  <2> QED
    BY <1>7, <1>8, ModPlus
<1>10. CASE x = 0 \/ y = 0
  <2>1. n = 0
    BY <1>10, <1>1, <1>2
  <2>2. k = 0
    <3>1. 0 \div c = 0
      <4>1. 0 \in 0 .. c - 1
        BY <1>1
      <4> QED
        BY <4>1, <1>1, SmallMod
    <3> HIDE DEF n
    <3> QED
      BY <2>1, <3>1
  <2>3. muldiv64(a, b, c) = easy
    BY <1>10 DEF muldiv64, ka, x, kb, y
  <2> HIDE DEF w, k, easy
  <2> QED
    BY <1>7, <1>8, <2>2, <2>3
<1>11. CASE x # 0 /\ y # 0 /\ c < Base
  <2>1. Times(x, y) = n
    <3>1. x \in 0 .. Base - 1 /\ y \in 0 .. Base - 1
      BY <1>1, <1>2, <1>11, BaseOK
    <3> QED
      BY <3>1, DigitTimes
  <2>2. muldiv64(a, b, c) = Plus(easy, Times(x, y) \div c)
    BY <1>11 DEF muldiv64, ka, x, kb, y
  <2> QED
    BY <1>9, <2>1, <2>2
<1>12. CASE x # 0 /\ y # 0 /\ ~ (c < Base)
  <2>1. c \in Base .. Word - 1 /\ x \in 1 .. c - 1 /\ y \in 1 .. c - 1
    BY <1>1, <1>2, <1>12, BaseOK
  <2>2. LongDivision(x, y, c) = k
    BY <2>1, LongDivisionExact
  <2>3. muldiv64(a, b, c) = Plus(easy, LongDivision(x, y, c))
    BY <1>12 DEF muldiv64, ka, x, kb, y
  <2> QED
    BY <1>9, <2>2, <2>3
<1> QED
  BY <1>10, <1>11, <1>12

\* muldiv64 and timespec compute as ArithmeticExact says, for every size of a word and every
\* number of units in a second.
THEOREM ArithmeticAlwaysExact == Spec => []ArithmeticExact
<1>1. MulDivExact
  BY MulDivComputes DEF MulDivExact
<1>2. 0 .. 3 * Second \subseteq Nat
  BY SecondOK
<1>3. TimespecExact
  BY <1>2, TimespecComputes DEF TimespecExact
<1>4. ArithmeticExact
  BY <1>1, <1>3 DEF ArithmeticExact
<1> QED
  BY <1>4, PTL

-----------------------------------------------------------------------------
(***************************************************************************)
(* The recursion of fill_values.  A price that is missing is inside a      *)
(* pending range, and a price that low and high do not bound is at an end  *)
(* of one: when no range is pending, no price is missing and all of them   *)
(* are bounded.                                                            *)
(***************************************************************************)
LEMMA Constants ==
  /\ Initial \in Nat \ {0} /\ Amplitude \in Nat /\ BackFloor \in Nat \ {0}
  /\ FillFloor \in Nat /\ BackFloor <= FillFloor /\ BackFloor <= Initial
  /\ \A v \in Volumes : v \in Nat /\ v >= 2
  /\ \A margin \in Margins : margin \in Nat
  /\ NoMargin \notin Margins
BY GeneratorAssumption, BrokerAssumption

Calls == [first : Nat \ {0}, last : Nat, generation : Nat \ {0}]

Among(x, s) == \E k \in 1 .. Len(s) : x = s[k]

\* A call that meets the assertions of fill_values, on the prices v.
Callable(r, v) ==
  /\ r.last - r.first >= 2
  /\ r.last - 1 <= Len(v)
  /\ v[r.first] # 0
  /\ v[r.last - 1] # 0

Inside(r, i) == r.first < i /\ i < r.last - 1
AtEnd(r, i)  == i = r.first \/ i = r.last - 1

Prices ==
  /\ values \in Seq(Nat)
  /\ low \in Nat /\ high \in Nat
  /\ values # <<>> => values[1] = Initial
  /\ \A i \in 1 .. Len(values) : values[i] # 0 => values[i] >= BackFloor

Pending ==
  /\ ranges \in Seq(Calls)
  /\ \A r : Among(r, ranges) => Callable(r, values)

Covered ==
  \A i \in 1 .. Len(values) : values[i] = 0 => \E r : Among(r, ranges) /\ Inside(r, i)

Bounded ==
  \A i \in 1 .. Len(values) :
    \/ values[i] = 0
    \/ low <= values[i] /\ values[i] <= high
    \/ \E r : Among(r, ranges) /\ AtEnd(r, i)

Filling == Prices /\ Pending /\ Covered /\ Bounded

LEMMA AmongConcat ==
  ASSUME NEW S, NEW s \in Seq(S), NEW t \in Seq(S), NEW x
  PROVE  Among(x, s \o t) <=> Among(x, s) \/ Among(x, t)
<1>1. /\ Len(s) \in Nat /\ Len(t) \in Nat /\ Len(s \o t) = Len(s) + Len(t)
      /\ \A i \in 1 .. Len(s) + Len(t) : (s \o t)[i] = IF i <= Len(s) THEN s[i] ELSE t[i - Len(s)]
  BY ConcatProperties, LenProperties
<1>2. ASSUME Among(x, s \o t) PROVE Among(x, s) \/ Among(x, t)
  <2>1. PICK k \in 1 .. Len(s) + Len(t) : x = (s \o t)[k]
    BY <1>1, <1>2 DEF Among
  <2>2. CASE k <= Len(s)
    BY <1>1, <2>1, <2>2 DEF Among
  <2>3. CASE ~(k <= Len(s))
    <3>1. k - Len(s) \in 1 .. Len(t) /\ x = t[k - Len(s)]
      BY <1>1, <2>1, <2>3
    <3> QED
      BY <3>1 DEF Among
  <2> QED
    BY <2>2, <2>3
<1>3. ASSUME Among(x, s) PROVE Among(x, s \o t)
  <2>1. PICK k \in 1 .. Len(s) : x = s[k]
    BY <1>3 DEF Among
  <2>2. k \in 1 .. Len(s) + Len(t) /\ k <= Len(s)
    BY <1>1
  <2> QED
    BY <1>1, <2>1, <2>2 DEF Among
<1>4. ASSUME Among(x, t) PROVE Among(x, s \o t)
  <2>1. PICK k \in 1 .. Len(t) : x = t[k]
    BY <1>4 DEF Among
  <2>2. Len(s) + k \in 1 .. Len(s) + Len(t) /\ ~(Len(s) + k <= Len(s)) /\ (Len(s) + k) - Len(s) = k
    BY <1>1
  <2> QED
    BY <1>1, <2>1, <2>2 DEF Among
<1> QED
  BY <1>2, <1>3, <1>4

LEMMA AmongHeadTail ==
  ASSUME NEW S, NEW s \in Seq(S), s # <<>>, NEW x
  PROVE  Among(x, s) <=> x = Head(s) \/ Among(x, Tail(s))
<1>1. /\ Len(s) \in Nat /\ Len(s) > 0 /\ Head(s) = s[1] /\ Len(Tail(s)) = Len(s) - 1
      /\ \A i \in 1 .. Len(s) - 1 : Tail(s)[i] = s[i + 1]
  OBVIOUS
<1>2. ASSUME Among(x, s), x # Head(s) PROVE Among(x, Tail(s))
  <2>1. PICK k \in 1 .. Len(s) : x = s[k]
    BY <1>2 DEF Among
  <2>2. k - 1 \in 1 .. Len(s) - 1 /\ (k - 1) + 1 = k
    BY <1>1, <1>2, <2>1
  <2> QED
    BY <1>1, <2>1, <2>2 DEF Among
<1>3. ASSUME Among(x, Tail(s)) PROVE Among(x, s)
  <2>1. PICK k \in 1 .. Len(s) - 1 : x = Tail(s)[k]
    BY <1>1, <1>3 DEF Among
  <2>2. k + 1 \in 1 .. Len(s)
    BY <1>1
  <2> QED
    BY <1>1, <2>1, <2>2 DEF Among
<1>4. Among(Head(s), s)
  BY <1>1 DEF Among
<1> QED
  BY <1>2, <1>3, <1>4

LEMMA AmongOne ==
  ASSUME NEW x, NEW y
  PROVE  ~Among(x, <<>>) /\ (Among(x, <<y>>) <=> x = y)
BY DEF Among

\* What Split pushes.
LeftHalf(r, m)  == [first |-> r.first, last |-> m + 1, generation |-> r.generation + 1]
RightHalf(r, m) == [first |-> m, last |-> r.last, generation |-> r.generation + 1]

LEMMA SplitHalves ==
  ASSUME NEW r \in Calls, NEW m \in Nat \ {0}
  PROVE  /\ Split(r, m) \in Seq(Calls)
         /\ \A x : Among(x, Split(r, m)) <=> \/ m - r.first >= 2 /\ x = LeftHalf(r, m)
                                             \/ r.last - m >= 2 /\ x = RightHalf(r, m)
<1> DEFINE left  == IF m - r.first >= 2 THEN <<LeftHalf(r, m)>> ELSE <<>>
           right == IF r.last - m >= 2 THEN <<RightHalf(r, m)>> ELSE <<>>
<1>1. LeftHalf(r, m) \in Calls /\ RightHalf(r, m) \in Calls
  BY DEF Calls, LeftHalf, RightHalf
<1>2. left \in Seq(Calls) /\ right \in Seq(Calls)
  BY <1>1
<1>3. Split(r, m) = left \o right
  BY DEF Split, LeftHalf, RightHalf
<1>4. ASSUME NEW x
      PROVE  /\ Among(x, left) <=> m - r.first >= 2 /\ x = LeftHalf(r, m)
             /\ Among(x, right) <=> r.last - m >= 2 /\ x = RightHalf(r, m)
  BY AmongOne, Zenon
<1> HIDE DEF left, right
<1>5. left \o right \in Seq(Calls)
  BY <1>2
<1>6. \A x : Among(x, left \o right) <=> Among(x, left) \/ Among(x, right)
  BY <1>2, AmongConcat
<1> QED
  BY <1>3, <1>4, <1>5, <1>6, Zenon

LEMMA GenerateFills ==
  ASSUME NEW volume \in Volumes, Generate(volume)
  PROVE  Filling' /\ values' # <<>>
<1>1. PICK noise \in -Amplitude .. Amplitude :
        /\ values' = [i \in 1 .. volume |->
             CASE i = volume -> AtLeast(BackFloor, Initial + 2 * noise)
               [] i = 1 /\ i # volume -> Initial
               [] OTHER -> 0]
        /\ ranges' = <<[first |-> 1, last |-> volume + 1, generation |-> 1]>>
        /\ low' = Initial
        /\ high' = Initial
  BY DEF Generate
<1> DEFINE back == AtLeast(BackFloor, Initial + 2 * noise)
           all == [first |-> 1, last |-> volume + 1, generation |-> 1]
<1>2. volume \in Nat /\ volume >= 2
  BY Constants
<1>3. back \in Nat /\ back >= BackFloor
  BY Constants DEF AtLeast
<1> HIDE DEF back
<1>4. /\ values' \in Seq(Nat) /\ Len(values') = volume
      /\ values'[1] = Initial /\ values'[volume] = back
      /\ \A i \in 1 .. volume : i # 1 /\ i # volume => values'[i] = 0
  <2>1. values' \in [1 .. volume -> Nat]
    BY <1>1, <1>2, <1>3, Constants DEF back
  <2>2. values' \in Seq(Nat) /\ Len(values') = volume
    BY <1>2, <2>1
  <2> QED
    BY <1>1, <1>2, <2>2 DEF back
<1>5. Prices'
  <2>1. \A i \in 1 .. volume : values'[i] # 0 => i = 1 \/ i = volume
    BY <1>4
  <2>2. Initial \in Nat /\ BackFloor <= Initial
    BY Constants
  <2>3. \A i \in 1 .. volume : values'[i] # 0 => values'[i] >= BackFloor
    BY <1>3, <1>4, <2>1, <2>2
  <2> QED
    BY <1>1, <1>4, <2>2, <2>3 DEF Prices
<1>6. ranges' = <<all>> /\ all \in Calls /\ all.first = 1 /\ all.last = volume + 1
  BY <1>1, <1>2 DEF Calls
<1> HIDE DEF all
<1>7. \A r : Among(r, ranges') <=> r = all
  BY <1>6, AmongOne
<1>8. Pending'
  <2>1. Callable(all, values')
    BY <1>2, <1>3, <1>4, <1>6, Constants DEF Callable
  <2>2. ranges' \in Seq(Calls)
    BY <1>6
  <2> QED
    BY <1>7, <2>1, <2>2 DEF Pending
<1>9. Covered'
  <2>1. ASSUME NEW i \in 1 .. volume, values'[i] = 0 PROVE Inside(all, i)
    BY <1>2, <1>3, <1>4, <1>6, <2>1, Constants DEF Inside
  <2> QED
    BY <1>4, <1>7, <2>1 DEF Covered
<1>10. Bounded'
  <2>1. ASSUME NEW i \in 1 .. volume, values'[i] # 0 PROVE AtEnd(all, i)
    BY <1>2, <1>4, <1>6, <2>1 DEF AtEnd
  <2> QED
    BY <1>4, <1>7, <2>1 DEF Bounded
<1>11. values' # <<>>
  BY <1>2, <1>4
<1> QED
  BY <1>5, <1>8, <1>9, <1>10, <1>11 DEF Filling

LEMMA MiddleInside ==
  ASSUME NEW a \in Nat, NEW b \in Nat, b - a >= 2
  PROVE  LET m == a + Greatest((b - a) \div 2, 1)
         IN  m \in Nat /\ a < m /\ m <= b - 1
<1> DEFINE h == (b - a) \div 2
<1>1. h \in Nat /\ 1 <= h /\ 2 * h <= b - a
  OBVIOUS
<1> HIDE DEF h
<1>2. Greatest(h, 1) = h
  BY <1>1 DEF Greatest
<1>3. a + h \in Nat /\ a < a + h /\ a + h <= b - 1
  BY <1>1
<1> QED
  BY <1>2, <1>3 DEF h

LEMMA EndsInside ==
  ASSUME NEW a \in Nat, NEW b \in Nat, NEW n \in Nat, a >= 1, b - a >= 2, b - 1 <= n
  PROVE  a \in 1 .. n /\ b - 1 \in 1 .. n
OBVIOUS

LEMMA FillFills ==
  ASSUME Filling, Fill
  PROVE  Filling'
<1> DEFINE range  == Head(ranges)
           front  == values[range.first]
           back   == values[range.last - 1]
           middle == range.first + Greatest((range.last - range.first) \div 2, 1)
           share  == Amplitude \div range.generation
<1>1. PICK noise \in -share .. share :
        LET price == AtLeast(FillFloor, ((front + back) \div 2) + noise)
        IN  /\ values' = [values EXCEPT ![middle] = price]
            /\ low' = Least(low, Least(price, Least(front, back)))
            /\ high' = Greatest(high, Greatest(price, Greatest(front, back)))
            /\ ranges' = Split(range, middle) \o Tail(ranges)
  BY DEF Fill
<1> DEFINE price == AtLeast(FillFloor, ((front + back) \div 2) + noise)
<1>2. /\ values' = [values EXCEPT ![middle] = price]
      /\ low' = Least(low, Least(price, Least(front, back)))
      /\ high' = Greatest(high, Greatest(price, Greatest(front, back)))
      /\ ranges' = Split(range, middle) \o Tail(ranges)
  BY <1>1
<1>3. /\ ranges \in Seq(Calls) /\ ranges # <<>> /\ range \in Calls /\ Tail(ranges) \in Seq(Calls)
      /\ values \in Seq(Nat) /\ Len(values) \in Nat
  <2>1. ranges \in Seq(Calls) /\ values \in Seq(Nat)
    BY DEF Filling, Pending, Prices
  <2>2. ranges # <<>>
    BY DEF Fill
  <2> QED
    BY <2>1, <2>2, HeadTailProperties, LenProperties
<1>4. \A r : Among(r, ranges) <=> r = range \/ Among(r, Tail(ranges))
  BY <1>3, AmongHeadTail
<1>5. Callable(range, values)
  BY <1>4 DEF Filling, Pending
<1> HIDE DEF range
<1>6. /\ range.first \in Nat /\ range.first >= 1 /\ range.last \in Nat /\ range.generation \in Nat \ {0}
      /\ range.last - range.first >= 2 /\ range.last - 1 <= Len(values)
  BY <1>3, <1>5 DEF Calls, Callable
<1>7. middle \in Nat /\ range.first < middle /\ middle <= range.last - 1
  BY <1>6, MiddleInside
<1>8. range.first \in 1 .. Len(values) /\ range.last - 1 \in 1 .. Len(values)
  BY <1>3, <1>6, EndsInside
<1>9. middle \in 1 .. Len(values)
  BY <1>6, <1>7, <1>8
<1>10. front \in Nat /\ back \in Nat /\ front # 0 /\ back # 0
  <2>1. \A i \in 1 .. Len(values) : values[i] \in Nat
    BY <1>3, ElementOfSeq
  <2>2. front # 0 /\ back # 0
    BY <1>5 DEF Callable
  <2> QED
    BY <1>8, <2>1, <2>2
<1>11. price \in Nat /\ price >= BackFloor /\ price # 0
  <2>1. share \in Nat
    BY <1>6, DivMod, Constants
  <2>2. noise \in Int
    BY <2>1
  <2> HIDE DEF front, back
  <2>3. ((front + back) \div 2) + noise \in Int
    BY <1>10, <2>2
  <2> QED
    BY <2>3, Constants DEF AtLeast
<1> HIDE DEF middle, front, back, price, share
<1>12. /\ values' \in Seq(Nat) /\ Len(values') = Len(values)
       /\ values'[middle] = price
       /\ \A i \in 1 .. Len(values) : i # middle => values'[i] = values[i]
       /\ \A i \in 1 .. Len(values) : values[i] \in Nat /\ values'[i] \in Nat
  <2>1. middle \in 1 .. Len(values)
    BY <1>9
  <2>2. values' \in [1 .. Len(values) -> Nat]
    BY <1>2, <1>3, <1>11, <2>1
  <2>3. values' \in Seq(Nat) /\ Len(values') = Len(values)
    BY <1>2, <1>3, <1>11, <2>1
  <2> QED
    BY <1>2, <1>3, <2>1, <2>2, <2>3
<1>13. /\ low' \in Nat /\ high' \in Nat /\ low' <= low /\ high <= high'
       /\ low \in Nat /\ high \in Nat
       /\ low' <= price /\ price <= high'
       /\ low' <= front /\ front <= high'
       /\ low' <= back /\ back <= high'
  BY <1>2, <1>10, <1>11 DEF Filling, Prices, Least, Greatest
<1>14. /\ ranges' \in Seq(Calls)
       /\ \A r : Among(r, ranges') <=> \/ middle - range.first >= 2 /\ r = LeftHalf(range, middle)
                                       \/ range.last - middle >= 2 /\ r = RightHalf(range, middle)
                                       \/ Among(r, Tail(ranges))
  <2>1. middle \in Nat \ {0}
    BY <1>6, <1>7
  <2>2. Split(range, middle) \in Seq(Calls)
    BY <1>3, <2>1, SplitHalves
  <2>3. \A r : Among(r, ranges') <=> Among(r, Split(range, middle)) \/ Among(r, Tail(ranges))
    BY <1>2, <1>3, <2>2, AmongConcat, Zenon
  <2>4. \A r : Among(r, Split(range, middle)) <=>
                 \/ middle - range.first >= 2 /\ r = LeftHalf(range, middle)
                 \/ range.last - middle >= 2 /\ r = RightHalf(range, middle)
    BY <1>3, <2>1, SplitHalves
  <2>5. ranges' \in Seq(Calls)
    BY <1>2, <1>3, <2>2, ConcatProperties, Zenon
  <2> QED
    BY <2>3, <2>4, <2>5, Zenon
<1>15. /\ LeftHalf(range, middle).first = range.first /\ LeftHalf(range, middle).last = middle + 1
       /\ RightHalf(range, middle).first = middle /\ RightHalf(range, middle).last = range.last
  BY DEF LeftHalf, RightHalf
<1>16. \A i \in 1 .. Len(values) : values[i] # 0 => values'[i] # 0
  BY <1>11, <1>12
<1>17. Prices'
  <2>1. values # <<>> /\ 1 # middle /\ 1 \in 1 .. Len(values)
    BY <1>3, <1>6, <1>7
  <2>2. values'[1] = Initial
    BY <1>12, <2>1 DEF Filling, Prices
  <2>3. \A i \in 1 .. Len(values) : values'[i] # 0 => values'[i] >= BackFloor
    BY <1>11, <1>12 DEF Filling, Prices
  <2> QED
    BY <1>12, <1>13, <2>2, <2>3 DEF Prices
<1>18. Pending'
  <2> SUFFICES ASSUME NEW r, Among(r, ranges') PROVE Callable(r, values')
    BY <1>14 DEF Pending
  <2>1. middle <= Len(values')
    BY <1>3, <1>12, <1>9
  <2>2. values'[range.first] # 0 /\ values'[range.last - 1] # 0 /\ values'[middle] # 0
    BY <1>5, <1>11, <1>12, <1>16, <1>8, <1>9 DEF Callable
  <2>3. CASE middle - range.first >= 2 /\ r = LeftHalf(range, middle)
    <3>1. r.first = range.first /\ r.last = middle + 1
      BY <1>15, <2>3
    <3>2. r.last - 1 = middle /\ r.last - r.first >= 2
      BY <1>6, <1>7, <3>1
    <3> QED
      BY <2>1, <2>2, <3>1, <3>2 DEF Callable
  <2>4. CASE range.last - middle >= 2 /\ r = RightHalf(range, middle)
    <3>1. r.first = middle /\ r.last = range.last
      BY <1>15, <2>4
    <3> QED
      BY <1>6, <1>12, <2>2, <2>4, <3>1 DEF Callable
  <2>5. CASE Among(r, Tail(ranges))
    <3>1. Callable(r, values) /\ Among(r, ranges)
      BY <1>4, <2>5 DEF Filling, Pending
    <3>2. r \in Calls
      BY <1>3, <3>1 DEF Among
    <3>3. r.first \in 1 .. Len(values) /\ r.last - 1 \in 1 .. Len(values)
      <4>1. r.first \in Nat /\ r.first >= 1 /\ r.last \in Nat
        BY <3>2 DEF Calls
      <4>2. r.last - r.first >= 2 /\ r.last - 1 <= Len(values)
        BY <3>1 DEF Callable
      <4> QED
        BY <1>3, <4>1, <4>2, EndsInside
    <3> QED
      BY <1>12, <1>16, <3>1, <3>3 DEF Callable
  <2> QED
    BY <1>14, <2>3, <2>4, <2>5
<1>19. Covered'
  <2> SUFFICES ASSUME NEW i \in 1 .. Len(values), values'[i] = 0
               PROVE  \E r : Among(r, ranges') /\ Inside(r, i)
    BY <1>12 DEF Covered
  <2>1. i # middle /\ values[i] = 0
    BY <1>11, <1>12
  <2>2. PICK r : Among(r, ranges) /\ Inside(r, i)
    BY <2>1 DEF Filling, Covered
  <2>3. CASE Among(r, Tail(ranges))
    BY <1>14, <2>2, <2>3
  <2>4. CASE r = range
    <3>1. range.first < i /\ i < range.last - 1
      BY <2>2, <2>4 DEF Inside
    <3>2. CASE i < middle
      <4>1. middle - range.first >= 2 /\ Inside(LeftHalf(range, middle), i)
        BY <1>6, <1>7, <1>15, <3>1, <3>2 DEF Inside
      <4> QED
        BY <1>14, <4>1
    <3>3. CASE i > middle
      <4>1. range.last - middle >= 2 /\ Inside(RightHalf(range, middle), i)
        BY <1>6, <1>7, <1>15, <3>1, <3>3 DEF Inside
      <4> QED
        BY <1>14, <4>1
    <3> QED
      BY <1>7, <2>1, <3>2, <3>3
  <2> QED
    BY <1>4, <2>2, <2>3, <2>4
<1>20. Bounded'
  <2> SUFFICES ASSUME NEW i \in 1 .. Len(values), values'[i] # 0
               PROVE  \/ low' <= values'[i] /\ values'[i] <= high'
                      \/ \E r : Among(r, ranges') /\ AtEnd(r, i)
    BY <1>12 DEF Bounded
  <2>1. CASE i = middle
    BY <1>12, <1>13, <2>1
  <2>2. CASE i # middle
    <3>1. values'[i] = values[i] /\ values[i] # 0 /\ values[i] \in Nat
      BY <1>12, <2>2
    <3>2. CASE low <= values[i] /\ values[i] <= high
      BY <1>13, <3>1, <3>2
    <3>3. CASE \E r : Among(r, ranges) /\ AtEnd(r, i)
      <4>1. PICK r : Among(r, ranges) /\ AtEnd(r, i)
        BY <3>3
      <4>2. CASE Among(r, Tail(ranges))
        BY <1>14, <4>1, <4>2
      <4>3. CASE r = range
        <5>1. values[i] = front \/ values[i] = back
          BY <4>1, <4>3 DEF AtEnd, front, back
        <5> QED
          BY <1>13, <3>1, <5>1
      <4> QED
        BY <1>4, <4>1, <4>2, <4>3
    <3> QED
      BY <3>1, <3>2, <3>3 DEF Filling, Bounded
  <2> QED
    BY <2>1, <2>2
<1> QED
  BY <1>17, <1>18, <1>19, <1>20 DEF Filling

-----------------------------------------------------------------------------
(***************************************************************************)
(* The stages of a request.                                                *)
(***************************************************************************)
Requests == [broker : Names, volume : Volumes]

Stage ==
  /\ request = NoRequest \/ request \in Requests
  /\ ref # NoTime => request \in Requests /\ at = NoTime
  /\ at # NoTime => request \in Requests
  /\ values # <<>> => at # NoTime

\* A sequence of anything: nothing is known of the values of the counter clocks.
IsSequence(s) == \E S : s \in Seq(S)

LEMMA AppendAny ==
  ASSUME NEW s, IsSequence(s), NEW x
  PROVE  /\ IsSequence(Append(s, x))
         /\ Len(s) \in Nat
         /\ Len(Append(s, x)) = Len(s) + 1
         /\ \A i \in 1 .. Len(s) : Append(s, x)[i] = s[i]
         /\ Append(s, x)[Len(s) + 1] = x
<1>1. PICK S : s \in Seq(S)
  BY DEF IsSequence
<1> DEFINE R == S \cup {x}
<1>2. s \in Seq(R) /\ x \in R
  BY <1>1
<1> HIDE DEF R
<1>3. Append(s, x) \in Seq(R) /\ Len(s) \in Nat
  BY <1>2
<1> QED
  BY <1>2, <1>3, AppendProperties DEF IsSequence

Margined ==
  /\ product_margin \in [Names -> Margins \cup {NoMargin}]
  /\ IsSequence(given)
  /\ \A i \in 1 .. Len(given) :
       /\ given[i].broker \in Names
       /\ product_margin[given[i].broker] \in Margins
       /\ given[i].open = Initial + product_margin[given[i].broker]

Quoted ==
  quote # NoRequest =>
    /\ {quote.open, quote.close} \subseteq quote.series
    /\ \A price \in quote.series :
         /\ quote.low <= price /\ price <= quote.high
         /\ price >= BackFloor + product_margin[quote.broker]

QuoteInv == Filling /\ Stage /\ Margined /\ Quoted

LEMMA QuoteInitHolds == Init => QuoteInv
<1> SUFFICES ASSUME Init PROVE QuoteInv
  OBVIOUS
<1>1. Filling
  <2>1. values = <<>> /\ ranges = <<>> /\ low = 0 /\ high = 0
    BY DEF Init, QuoteInit
  <2>2. Len(values) = 0 /\ values \in Seq(Nat) /\ ranges \in Seq(Calls)
    BY <2>1
  <2>3. \A r : ~Among(r, ranges)
    BY <2>1, AmongOne
  <2> QED
    BY <2>1, <2>2, <2>3 DEF Filling, Prices, Pending, Covered, Bounded
<1>2. Stage
  BY DEF Init, ClockInit, QuoteInit, Stage
<1>3. Margined
  <2>1. given = <<>> /\ Len(given) = 0 /\ IsSequence(given)
    <3>1. <<>> \in Seq({})
      OBVIOUS
    <3> QED
      BY <3>1 DEF Init, IsSequence
  <2> QED
    BY <2>1 DEF Init, Margined
<1>4. Quoted
  BY DEF Init, Quoted
<1> QED
  BY <1>1, <1>2, <1>3, <1>4 DEF QuoteInv

LEMMA AnswerHolds ==
  ASSUME QuoteInv, NEW margin \in Margins, Answer(margin)
  PROVE  QuoteInv'
<1> DEFINE b == request.broker
<1>1. values # <<>> /\ ranges = <<>> /\ get_margin(b, margin)
  BY DEF Answer, Filled
<1>2. ref = NoTime /\ request \in Requests /\ b \in Names
  BY <1>1 DEF QuoteInv, Stage, Requests
<1>3. margin \in Nat /\ NoMargin \notin Margins /\ Initial \in Nat
  BY Constants
<1>4. /\ product_margin \in [Names -> Margins \cup {NoMargin}]
      /\ product_margin' = [product_margin EXCEPT ![b] = margin]
  BY DEF QuoteInv, Margined, Answer
<1>5. product_margin' \in [Names -> Margins \cup {NoMargin}] /\ product_margin'[b] = margin
  BY <1>2, <1>4
<1>6. ASSUME NEW c \in Names, product_margin[c] \in Margins
      PROVE  product_margin'[c] = product_margin[c]
  BY <1>1, <1>2, <1>3, <1>4, <1>6 DEF get_margin
<1>7. values \in Seq(Nat) /\ Len(values) \in Nat /\ Len(values) >= 1 /\ values[1] = Initial
  BY <1>1 DEF QuoteInv, Filling, Prices
<1>8. \A i \in 1 .. Len(values) :
        /\ values[i] \in Nat /\ values[i] >= BackFloor
        /\ low <= values[i] /\ values[i] <= high
  <2>1. \A r : ~Among(r, ranges)
    BY <1>1, AmongOne
  <2> QED
    BY <1>7, <2>1 DEF QuoteInv, Filling, Prices, Covered, Bounded
<1>9. low \in Nat /\ high \in Nat /\ BackFloor \in Nat
  BY Constants DEF QuoteInv, Filling, Prices
<1>10. Filling'
  <2>1. values' = <<>> /\ ranges' = <<>> /\ low' = 0 /\ high' = 0
    BY <1>1 DEF Answer
  <2>2. Len(values') = 0 /\ values' \in Seq(Nat) /\ ranges' \in Seq(Calls)
    BY <2>1
  <2>3. \A r : ~Among(r, ranges')
    BY <2>1, AmongOne
  <2> QED
    BY <2>1, <2>2, <2>3 DEF Filling, Prices, Pending, Covered, Bounded
<1>11. Stage'
  BY <1>2 DEF Answer, clockVars, Stage
<1>12. Quoted'
  <2> DEFINE q == [broker |-> b,
                   series |-> {values[i] + margin : i \in 1 .. Len(values)},
                   volume |-> Len(values),
                   open   |-> values[1] + margin,
                   high   |-> high + margin,
                   low    |-> low + margin,
                   close  |-> values[Len(values)] + margin]
  <2>1. quote' = q
    BY DEF Answer
  <2>2. q.open \in q.series /\ q.close \in q.series
    <3>1. 1 \in 1 .. Len(values) /\ Len(values) \in 1 .. Len(values)
      BY <1>7
    <3> QED
      BY <3>1
  <2>3. ASSUME NEW price \in q.series
        PROVE  q.low <= price /\ price <= q.high /\ price >= BackFloor + margin
    <3>1. PICK i \in 1 .. Len(values) : price = values[i] + margin
      OBVIOUS
    <3> QED
      BY <1>3, <1>8, <1>9, <3>1
  <2>4. q.broker = b
    OBVIOUS
  <2> HIDE DEF q
  <2> QED
    BY <1>5, <2>1, <2>2, <2>3, <2>4 DEF Quoted
<1>13. Margined'
  <2> DEFINE e == [broker |-> b, at |-> at.stamp, setbacks |-> at.setbacks, open |-> quote'.open]
  <2>1. given' = Append(given, e) /\ IsSequence(given)
    BY DEF Answer, QuoteInv, Margined
  <2>2. e.broker = b /\ e.open = Initial + margin
    BY <1>7 DEF Answer
  <2> HIDE DEF e
  <2>3. /\ IsSequence(given') /\ Len(given) \in Nat /\ Len(given') = Len(given) + 1
        /\ \A i \in 1 .. Len(given) : given'[i] = given[i]
        /\ given'[Len(given) + 1] = e
    BY <2>1, AppendAny
  <2>4. ASSUME NEW i \in 1 .. Len(given')
        PROVE  /\ given'[i].broker \in Names
               /\ product_margin'[given'[i].broker] \in Margins
               /\ given'[i].open = Initial + product_margin'[given'[i].broker]
    <3>1. CASE i = Len(given) + 1
      BY <1>2, <1>5, <2>2, <2>3, <3>1
    <3>2. CASE i # Len(given) + 1
      <4>1. i \in 1 .. Len(given) /\ given'[i] = given[i]
        BY <2>3, <3>2
      <4>2. /\ given[i].broker \in Names
            /\ product_margin[given[i].broker] \in Margins
            /\ given[i].open = Initial + product_margin[given[i].broker]
        BY <4>1 DEF QuoteInv, Margined
      <4> QED
        BY <1>6, <4>1, <4>2
    <3> QED
      BY <3>1, <3>2
  <2> QED
    BY <1>5, <2>3, <2>4 DEF Margined
<1> QED
  BY <1>10, <1>11, <1>12, <1>13 DEF QuoteInv

LEMMA QuoteNextHolds == QuoteInv /\ [Next]_vars => QuoteInv'
<1> SUFFICES ASSUME QuoteInv, [Next]_vars PROVE QuoteInv'
  OBVIOUS
<1>1. Filling /\ Stage /\ Margined /\ Quoted
  BY DEF QuoteInv
<1>2. ASSUME UNCHANGED quoteVars PROVE Filling'
  BY <1>1, <1>2 DEF quoteVars, Filling, Prices, Pending, Covered, Bounded, Among
<1>3. ASSUME UNCHANGED <<product_margin, given>> PROVE Margined'
  BY <1>1, <1>3 DEF Margined
<1>4. ASSUME UNCHANGED <<product_margin, quote>> PROVE Quoted'
  BY <1>1, <1>4 DEF Quoted
<1>5. ASSUME NEW b \in Names, NEW volume \in Volumes, request_quote(b, volume) PROVE QuoteInv'
  <2>1. Filling' /\ Margined'
    BY <1>2, <1>3, <1>5 DEF request_quote
  <2>2. Quoted'
    BY <1>5 DEF request_quote, Quoted
  <2>3. request' \in Requests
    BY <1>5 DEF request_quote, Requests
  <2>4. Stage'
    BY <1>1, <1>5, <2>3 DEF request_quote, clockVars, quoteVars, Stage
  <2> QED
    BY <2>1, <2>2, <2>4 DEF QuoteInv
<1>6. CASE BeginTimestamp
  <2>1. Filling' /\ Margined' /\ Quoted'
    BY <1>2, <1>3, <1>4, <1>6 DEF BeginTimestamp
  <2>2. Stage'
    BY <1>1, <1>6 DEF BeginTimestamp, ReadReference, quoteVars, Stage
  <2> QED
    BY <2>1, <2>2 DEF QuoteInv
<1>7. CASE EndTimestamp
  <2>1. Filling' /\ Margined' /\ Quoted'
    BY <1>2, <1>3, <1>4, <1>7 DEF EndTimestamp
  <2>2. Stage'
    BY <1>1, <1>7 DEF EndTimestamp, Draw, quoteVars, Stage
  <2> QED
    BY <2>1, <2>2 DEF QuoteInv
<1>8. CASE BeginColumns
  <2>1. request.volume \in Volumes
    BY <1>1, <1>8 DEF BeginColumns, Stage, Requests
  <2>2. Filling'
    BY <1>8, <2>1, GenerateFills DEF BeginColumns
  <2>3. Margined' /\ Quoted'
    BY <1>3, <1>4, <1>8 DEF BeginColumns
  <2>4. Stage'
    BY <1>1, <1>8 DEF BeginColumns, clockVars, Stage
  <2> QED
    BY <2>2, <2>3, <2>4 DEF QuoteInv
<1>9. CASE FillColumns
  <2>1. Filling'
    BY <1>1, <1>9, FillFills DEF FillColumns
  <2>2. Margined' /\ Quoted'
    BY <1>3, <1>4, <1>9 DEF FillColumns
  <2>3. values # <<>>
    <3>1. Among(Head(ranges), ranges) /\ ranges \in Seq(Calls) /\ ranges # <<>>
      BY <1>1, <1>9, AmongHeadTail DEF FillColumns, Fill, Filling, Pending
    <3>2. Callable(Head(ranges), values) /\ Head(ranges) \in Calls
      BY <1>1, <3>1 DEF Filling, Pending
    <3>3. Len(values) \in Nat /\ Len(values) # 0
      BY <1>1, <3>2 DEF Callable, Calls, Filling, Prices
    <3> QED
      BY <3>3
  <2>4. Stage'
    BY <1>1, <1>9, <2>3 DEF FillColumns, clockVars, Stage
  <2> QED
    BY <2>1, <2>2, <2>4 DEF QuoteInv
<1>10. ASSUME NEW margin \in Margins, Answer(margin) PROVE QuoteInv'
  BY <1>10, AnswerHolds
<1>11. ASSUME UNCHANGED <<quoteVars, request, at, product_margin, quote, given, ref>>
       PROVE  QuoteInv'
  <2>1. Filling' /\ Margined' /\ Quoted'
    BY <1>2, <1>3, <1>4, <1>11
  <2>2. Stage'
    BY <1>1, <1>11 DEF quoteVars, Stage
  <2> QED
    BY <2>1, <2>2 DEF QuoteInv
<1>12. CASE TimeGoesBy
  BY <1>11, <1>12 DEF TimeGoesBy, Tick
<1>13. ASSUME NEW t \in 0 .. time - 1, Correction(t) PROVE QuoteInv'
  BY <1>11, <1>13 DEF Correction, SetBack
<1>14. CASE UNCHANGED vars
  BY <1>11, <1>14 DEF vars, clockVars
<1> QED
  BY <1>5, <1>6, <1>7, <1>8, <1>9, <1>10, <1>12, <1>13, <1>14 DEF Next, Work

LEMMA QuoteInvAlways == Spec => []QuoteInv
BY QuoteInitHolds, QuoteNextHolds, PTL DEF Spec

\* Every call of fill_values meets the assertions at its top, whatever the volume is: two
\* elements or more, and a price at both ends.
THEOREM AssertionsAlwaysHold == Spec => []AssertionsHold
<1>1. QuoteInv => AssertionsHold
  <2> SUFFICES ASSUME QuoteInv, ranges # <<>>
               PROVE  LET range == Head(ranges)
                      IN  /\ range.last - range.first >= 2
                          /\ values[range.first] > 0
                          /\ values[range.last - 1] > 0
    BY DEF AssertionsHold
  <2> DEFINE range == Head(ranges)
  <2>1. ranges \in Seq(Calls) /\ values \in Seq(Nat)
    BY DEF QuoteInv, Filling, Pending, Prices
  <2>2. Among(range, ranges) /\ range \in Calls
    BY <2>1, AmongHeadTail
  <2>3. Callable(range, values)
    BY <2>2 DEF QuoteInv, Filling, Pending
  <2> HIDE DEF range
  <2>4. range.first \in 1 .. Len(values) /\ range.last - 1 \in 1 .. Len(values)
    <3>1. range.first \in Nat /\ range.first >= 1 /\ range.last \in Nat
      BY <2>2 DEF Calls
    <3>2. range.last - range.first >= 2 /\ range.last - 1 <= Len(values) /\ Len(values) \in Nat
      BY <2>1, <2>3 DEF Callable
    <3> QED
      BY <3>1, <3>2, EndsInside
  <2>5. values[range.first] > 0 /\ values[range.last - 1] > 0
    BY <2>1, <2>3, <2>4 DEF Callable
  <2> QED
    BY <2>3, <2>5 DEF Callable, range
<1> QED
  BY <1>1, QuoteInvAlways, PTL

\* Every quote is a possible summary of its series, and a broker opens all of its quotes at
\* one price.
THEOREM QuotesAlwaysCoherent == Spec => []QuoteCoherent
<1>1. QuoteInv => QuoteCoherent
  BY DEF QuoteInv, Quoted, Margined, QuoteCoherent
<1> QED
  BY <1>1, QuoteInvAlways, PTL

-----------------------------------------------------------------------------
(***************************************************************************)
(* Timestamps.  As long as nobody has set the clock back since the last    *)
(* quote, its timestamp is not after the reference, and the reference is   *)
(* not after the clock.                                                    *)
(***************************************************************************)
SystemClock == source \in SystemClocks

\* The units for n ticks of a counter, in numbers that do not wrap.
UnitsFor(counter, n) == (n * counter.factor) \div counter.frequency

\* The units that the counter shows fit into a word.
InRange == SystemClock \/ UnitsFor(source.counter, time) < Word

CounterClocks ==
  [os : {"windows", "mac"}, counter : Counters, zero_time : {Second - 1}, offset : Nat]

\* What a clock reads at a time, in units.
Shown(src, t) ==
  CASE src \in SystemClocks -> t
    [] src \notin SystemClocks /\ src.os = "windows" ->
         src.zero_time + UnitsFor(src.counter, t - src.offset)
    [] OTHER ->
         src.zero_time + (UnitsFor(src.counter, t) - UnitsFor(src.counter, src.offset))

Time ==
  /\ time \in 0 .. Word - 1 /\ setbacks \in Nat
  /\ ~SystemClock => source \in CounterClocks /\ source.offset <= time

LEMMA DivGrows ==
  ASSUME NEW g \in Nat \ {0}, NEW m \in Nat, NEW n \in Nat, m <= n
  PROVE  m \div g \in Nat /\ n \div g \in Nat /\ m \div g <= n \div g
<1> DEFINE p == m \div g
           q == n \div g
           r == m % g
           s == n % g
<1>1. p \in Nat /\ q \in Nat /\ r \in 0 .. g - 1 /\ s \in 0 .. g - 1
      /\ m = g * p + r /\ n = g * q + s
  BY DivMod
<1> HIDE DEF p, q, r, s
<1>2. q < p => (q + 1) * g <= p * g
  BY <1>1, ProductMono
<1>3. (q + 1) * g = g * q + g /\ p * g = g * p /\ g * p \in Nat /\ g * q \in Nat
  BY <1>1
<1>4. ~ (q < p)
  BY <1>1, <1>2, <1>3
<1> QED
  BY <1>1, <1>4 DEF p, q

LEMMA UnitsGrow ==
  ASSUME NEW c \in Counters, NEW m \in Nat, NEW n \in Nat, m <= n
  PROVE  /\ UnitsFor(c, m) \in Nat /\ UnitsFor(c, n) \in Nat
         /\ UnitsFor(c, m) <= UnitsFor(c, n)
<1>1. c.factor \in Nat /\ c.frequency \in Nat \ {0}
  BY ClockAssumption, BaseOK
<1>2. m * c.factor <= n * c.factor
  BY <1>1, ProductMono
<1> DEFINE a == m * c.factor
           b == n * c.factor
<1>3. a \in Nat /\ b \in Nat /\ a <= b
  BY <1>1, <1>2
<1> HIDE DEF a, b
<1>4. a \div c.frequency \in Nat /\ b \div c.frequency \in Nat /\ a \div c.frequency <= b \div c.frequency
  BY <1>1, <1>3, DivGrows
<1> QED
  BY <1>4 DEF a, b, UnitsFor

\* Ticks computes the units as long as they fit into a word.
LEMMA TicksExact ==
  ASSUME NEW c \in Counters, NEW n \in 0 .. Word - 1, UnitsFor(c, n) < Word
  PROVE  muldiv64(n, c.factor, c.frequency) = UnitsFor(c, n)
<1>1. c.factor \in 0 .. Word - 1 /\ c.frequency \in 1 .. Word - 1
  BY ClockAssumption, BaseOK
<1>2. muldiv64(n, c.factor, c.frequency) = UnitsFor(c, n) % Word
  BY <1>1, MulDivComputes DEF UnitsFor
<1>3. n \in Nat /\ n <= n
  BY BaseOK
<1>4. UnitsFor(c, n) \in Nat
  BY <1>3, UnitsGrow
<1>5. UnitsFor(c, n) \in 0 .. Word - 1
  BY <1>4, BaseOK
<1> QED
  BY <1>2, <1>5, SmallWord

\* Each of the four clocks reads what Shown says, and never less at a later time.
LEMMA NowShows ==
  ASSUME Time, InRange
  PROVE  Now = timespec(Shown(source, time)) /\ Shown(source, time) \in Nat
<1>1. CASE SystemClock
  <2>1. Now = timespec(time) /\ Shown(source, time) = time
    BY <1>1 DEF Now, Shown, SystemClock
  <2> QED
    BY <1>1, <2>1, BaseOK DEF Time
<1>2. CASE ~SystemClock
  <2> DEFINE c == source.counter
             z == source.zero_time
             o == source.offset
             U(n) == UnitsFor(c, n)
  <2>1. c \in Counters /\ z = Second - 1 /\ o \in Nat /\ o <= time /\ time \in 0 .. Word - 1
        /\ source.os \in {"windows", "mac"} /\ source \notin SystemClocks
    BY <1>2 DEF Time, CounterClocks, SystemClock
  <2>2. z \in Nat
    BY <2>1, SecondOK
  <2>3. UnitsFor(c, time) < Word
    BY <1>2 DEF InRange
  <2>4. \A n \in 0 .. time : /\ n \in 0 .. Word - 1 /\ UnitsFor(c, n) \in Nat
                             /\ UnitsFor(c, n) <= UnitsFor(c, time)
                             /\ muldiv64(n, c.factor, c.frequency) = UnitsFor(c, n)
    <3> SUFFICES ASSUME NEW n \in 0 .. time
                 PROVE  /\ n \in 0 .. Word - 1 /\ UnitsFor(c, n) \in Nat
                        /\ UnitsFor(c, n) <= UnitsFor(c, time)
                        /\ muldiv64(n, c.factor, c.frequency) = UnitsFor(c, n)
      OBVIOUS
    <3>1. n \in 0 .. Word - 1 /\ n \in Nat /\ time \in Nat /\ n <= time
      BY <2>1, BaseOK
    <3> HIDE DEF c
    <3>2. UnitsFor(c, n) \in Nat /\ UnitsFor(c, time) \in Nat /\ UnitsFor(c, n) <= UnitsFor(c, time)
      BY <2>1, <3>1, UnitsGrow
    <3>3. UnitsFor(c, n) < Word
      BY <2>3, <3>2, BaseOK
    <3> QED
      BY <2>1, <3>1, <3>2, <3>3, TicksExact
  <2>5. o \in 0 .. time /\ time \in 0 .. time /\ time - o \in 0 .. time
    BY <2>1, BaseOK
  <2>6. CASE source.os = "windows"
    <3>1. Minus(time, o) = time - o
      BY <2>4, <2>5, SmallWord DEF Minus
    <3>2. Ticks(Minus(time, o)) = UnitsFor(c, time - o)
      BY <2>4, <2>5, <3>1 DEF Ticks
    <3>3. Now = timespec(z + Ticks(Minus(time, o)))
      BY <2>1, <2>6 DEF Now, WindowsNow
    <3>4. Shown(source, time) = z + UnitsFor(c, time - o)
      BY <2>1, <2>6 DEF Shown
    <3>5. UnitsFor(c, time - o) \in Nat
      BY <2>4, <2>5
    <3> HIDE DEF z, c, o
    <3>6. z + UnitsFor(c, time - o) \in Nat
      BY <2>2, <3>5
    <3> QED
      BY <3>2, <3>3, <3>4, <3>6
  <2>7. CASE source.os = "mac"
    <3>1. Ticks(time) = UnitsFor(c, time) /\ Ticks(o) = UnitsFor(c, o)
      BY <2>4, <2>5 DEF Ticks
    <3>2. Now = AddTo(timespec(z), Ticks(time) - Ticks(o))
      BY <2>1, <2>7 DEF Now, MacNow
    <3>3. Shown(source, time) = z + (UnitsFor(c, time) - UnitsFor(c, o))
      BY <2>1, <2>7 DEF Shown
    <3>4. UnitsFor(c, time) \in Nat /\ UnitsFor(c, o) \in Nat /\ UnitsFor(c, o) <= UnitsFor(c, time)
      BY <2>4, <2>5
    <3> HIDE DEF z, c, o
    <3>5. UnitsFor(c, time) - UnitsFor(c, o) \in Nat
      BY <3>4
    <3>6. AddTo(timespec(z), UnitsFor(c, time) - UnitsFor(c, o))
            = timespec(z + (UnitsFor(c, time) - UnitsFor(c, o)))
      BY <2>2, <3>5, Adding
    <3>7. z + (UnitsFor(c, time) - UnitsFor(c, o)) \in Nat
      BY <2>2, <3>5
    <3> QED
      BY <3>1, <3>2, <3>3, <3>6, <3>7
  <2> QED
    BY <2>1, <2>6, <2>7
<1> QED
  BY <1>1, <1>2

LEMMA ShownGrows ==
  ASSUME Time
  PROVE  /\ Shown(source, time) \in Int /\ Shown(source, time + 1) \in Int
         /\ Shown(source, time) <= Shown(source, time + 1)
         /\ ~SystemClock => UnitsFor(source.counter, time) \in Nat
                            /\ UnitsFor(source.counter, time + 1) \in Nat
                            /\ UnitsFor(source.counter, time) <= UnitsFor(source.counter, time + 1)
<1>0. time \in Nat
  BY BaseOK DEF Time
<1>1. CASE SystemClock
  BY <1>0, <1>1 DEF Shown, SystemClock
<1>2. CASE ~SystemClock
  <2> DEFINE c == source.counter
             z == source.zero_time
             o == source.offset
  <2>1. c \in Counters /\ z = Second - 1 /\ o \in Nat /\ o <= time
        /\ source.os \in {"windows", "mac"} /\ source \notin SystemClocks
    BY <1>2 DEF Time, CounterClocks, SystemClock
  <2>2. z \in Nat
    BY <2>1, SecondOK
  <2>3. \/ source.os = "windows" /\ Shown(source, time) = z + UnitsFor(c, time - o)
           /\ Shown(source, time + 1) = z + UnitsFor(c, (time + 1) - o)
        \/ /\ Shown(source, time) = z + (UnitsFor(c, time) - UnitsFor(c, o))
           /\ Shown(source, time + 1) = z + (UnitsFor(c, time + 1) - UnitsFor(c, o))
    BY <2>1 DEF Shown
  <2> HIDE DEF c, z, o
  <2>4. time - o \in Nat /\ (time + 1) - o \in Nat /\ time - o <= (time + 1) - o
        /\ time + 1 \in Nat /\ time <= time + 1 /\ o <= o
    BY <1>0, <2>1
  <2>5. UnitsFor(c, time - o) \in Nat /\ UnitsFor(c, (time + 1) - o) \in Nat
        /\ UnitsFor(c, time - o) <= UnitsFor(c, (time + 1) - o)
    BY <2>1, <2>4, UnitsGrow
  <2>6. UnitsFor(c, time) \in Nat /\ UnitsFor(c, time + 1) \in Nat
        /\ UnitsFor(c, time) <= UnitsFor(c, time + 1)
    BY <1>0, <2>1, <2>4, UnitsGrow
  <2>7. UnitsFor(c, o) \in Nat
    BY <2>1, <2>4, UnitsGrow
  <2>8. /\ Shown(source, time) \in Int /\ Shown(source, time + 1) \in Int
        /\ Shown(source, time) <= Shown(source, time + 1)
    BY <2>2, <2>3, <2>5, <2>6, <2>7
  <2> QED
    BY <2>6, <2>8 DEF c
<1> QED
  BY <1>1, <1>2

Last == given[Len(given)]

Stamped ==
  /\ IsSequence(given)
  /\ \A i \in 1 .. Len(given) : given[i].at \in Timespecs /\ given[i].setbacks \in Nat
  /\ StampsIncrease
  /\ given # <<>> => /\ Last.setbacks <= setbacks
                     /\ Last.setbacks = setbacks => Units(Last.at) <= Shown(source, time)

Referred ==
  ref # NoTime =>
    /\ ref \in Timespecs
    /\ given # <<>> /\ Last.setbacks = setbacks =>
         Units(Last.at) <= Units(ref) /\ Units(ref) <= Shown(source, time)

Drawn ==
  at # NoTime =>
    /\ at.stamp \in Timespecs /\ at.setbacks \in Nat
    /\ at.setbacks <= setbacks
    /\ at.setbacks = setbacks => Units(at.stamp) <= Shown(source, time)
    /\ given # <<>> => Last.setbacks < at.setbacks \/ Units(Last.at) < Units(at.stamp)

StampInv == Time /\ (InRange => Stamped /\ Referred /\ Drawn)

LEMMA LastStamp ==
  ASSUME Stamped, given # <<>>
  PROVE  Len(given) \in Nat /\ Len(given) >= 1 /\ Last.at \in Timespecs /\ Last.setbacks \in Nat
         /\ Units(Last.at) \in Nat
<1>1. PICK S : given \in Seq(S)
  BY DEF Stamped, IsSequence
<1>2. Len(given) \in Nat /\ Len(given) >= 1
  BY <1>1
<1>3. Len(given) \in 1 .. Len(given)
  BY <1>2
<1>4. Last.at \in Timespecs /\ Last.setbacks \in Nat
  BY <1>3 DEF Stamped, Last
<1> QED
  BY <1>2, <1>4, UnitsOrder

LEMMA StampNextHolds == StampInv /\ QuoteInv /\ [Next]_vars => StampInv'
<1> SUFFICES ASSUME StampInv, QuoteInv, [Next]_vars
             PROVE  StampInv'
  OBVIOUS
<1>1. source' = source
  BY DEF Next, Work, request_quote, BeginTimestamp, ReadReference, EndTimestamp, Draw,
         BeginColumns, FillColumns, Answer, TimeGoesBy, Tick, Correction, SetBack, vars, clockVars
<1>2. Time /\ time \in Nat
  BY BaseOK DEF StampInv, Time
<1>3. \/ UNCHANGED time
      \/ time' = time + 1 /\ time < Word - 1
      \/ SystemClock /\ time' \in 0 .. time - 1
  BY DEF Next, Work, request_quote, BeginTimestamp, ReadReference, EndTimestamp, Draw, SystemClock,
         BeginColumns, FillColumns, Answer, TimeGoesBy, Tick, Correction, SetBack, vars, clockVars
<1>4. setbacks' \in Nat
  <2>1. setbacks \in Nat
    BY <1>2 DEF Time
  <2>2. setbacks' = setbacks \/ setbacks' = setbacks + 1
    BY DEF Next, Work, request_quote, BeginTimestamp, ReadReference, EndTimestamp, Draw,
           BeginColumns, FillColumns, Answer, TimeGoesBy, Tick, Correction, SetBack, vars, clockVars
  <2> QED
    BY <2>1, <2>2
<1>5. Time'
  <2>1. time' \in 0 .. Word - 1
    BY <1>2, <1>3, BaseOK DEF Time
  <2>2. ~SystemClock => source.offset <= time'
    <3> SUFFICES ASSUME ~SystemClock PROVE source.offset <= time'
      OBVIOUS
    <3>1. source.offset \in Nat /\ source.offset <= time
      BY <1>2 DEF Time, CounterClocks
    <3> QED
      BY <1>2, <1>3, <3>1
  <2> QED
    BY <1>1, <1>2, <1>4, <2>1, <2>2 DEF Time, SystemClock
<1>6. SUFFICES ASSUME InRange'
               PROVE  Stamped' /\ Referred' /\ Drawn'
  BY <1>5 DEF StampInv
<1>7. InRange
  <2>1. CASE SystemClock
    BY <2>1 DEF InRange
  <2>2. CASE ~SystemClock
    <3>1. UnitsFor(source.counter, time') < Word
      BY <1>1, <1>6, <2>2 DEF InRange, SystemClock
    <3>2. /\ UnitsFor(source.counter, time) \in Nat
          /\ UnitsFor(source.counter, time + 1) \in Nat
          /\ UnitsFor(source.counter, time) <= UnitsFor(source.counter, time + 1)
      BY <1>2, <2>2, ShownGrows
    <3>3. time' = time \/ time' = time + 1
      BY <1>3, <2>2
    <3>4. UnitsFor(source.counter, time) < Word
      BY <3>1, <3>2, <3>3, BaseOK
    <3> QED
      BY <3>4 DEF InRange
  <2> QED
    BY <2>1, <2>2
<1>8. Stamped /\ Referred /\ Drawn
  BY <1>7 DEF StampInv
<1> DEFINE shown == Shown(source, time)
<1>9. Now = timespec(shown) /\ Now \in Timespecs /\ Units(Now) = shown /\ shown \in Nat
  BY <1>2, <1>7, NowShows, OfUnits
<1> HIDE DEF shown
<1>10. ASSUME UNCHANGED <<time, setbacks, given>> PROVE Stamped'
  BY <1>1, <1>8, <1>10 DEF Stamped, Last, StampsIncrease
<1>11. ASSUME UNCHANGED <<time, setbacks, given, ref>> PROVE Referred'
  BY <1>1, <1>8, <1>11 DEF Referred, Last
<1>12. ASSUME UNCHANGED <<time, setbacks, given, at>> PROVE Drawn'
  BY <1>1, <1>8, <1>12 DEF Drawn, Last
<1>13. ASSUME UNCHANGED <<time, setbacks, given, ref, at>>
       PROVE  Stamped' /\ Referred' /\ Drawn'
  BY <1>10, <1>11, <1>12, <1>13
<1>14. ASSUME NEW b \in Names, NEW volume \in Volumes, request_quote(b, volume)
      PROVE  Stamped' /\ Referred' /\ Drawn'
  BY <1>13, <1>14 DEF request_quote, clockVars
<1>15. CASE BeginTimestamp
  <2>1. Stamped' /\ Drawn'
    BY <1>10, <1>12, <1>15 DEF BeginTimestamp, ReadReference
  <2>2. ref' = Now /\ UNCHANGED <<given, time, setbacks>>
    BY <1>15 DEF BeginTimestamp, ReadReference
  <2>3. given # <<>> /\ Last.setbacks = setbacks => Units(Last.at) <= shown
    BY <1>8 DEF Stamped, shown
  <2>4. shown <= shown /\ Shown(source', time') = shown
    BY <1>1, <1>9, <2>2 DEF shown
  <2>5. Referred'
    BY <1>9, <2>2, <2>3, <2>4 DEF Referred, Last
  <2> QED
    BY <2>1, <2>5
<1>16. CASE EndTimestamp
  <2>1. Stamped'
    BY <1>10, <1>16 DEF EndTimestamp, Draw
  <2>2. /\ ref # NoTime /\ ~DrawAgain(Now) /\ ref' = NoTime
        /\ at' = [stamp |-> Now, setbacks |-> setbacks]
        /\ UNCHANGED <<given, time, setbacks>>
    BY <1>16 DEF EndTimestamp, Draw
  <2>3. Referred'
    BY <2>2 DEF Referred
  <2>4. at'.stamp = Now /\ at'.setbacks = setbacks /\ setbacks \in Nat
        /\ shown <= shown /\ Shown(source', time') = shown
    BY <1>1, <1>2, <1>9, <2>2 DEF Time, shown
  <2>5. ASSUME given # <<>>
        PROVE  Last.setbacks < setbacks \/ Units(Last.at) < Units(Now)
    <3>1. Last.setbacks \in Nat /\ Last.setbacks <= setbacks /\ Units(Last.at) \in Nat
      BY <1>8, <2>5, LastStamp DEF Stamped
    <3>2. CASE Last.setbacks = setbacks
      <4>1. /\ ref \in Timespecs
            /\ Units(Last.at) <= Units(ref) /\ Units(ref) <= shown
        BY <1>8, <2>2, <2>5, <3>2 DEF Referred, shown
      <4>2. Units(ref) \in Nat
        BY <4>1, UnitsOrder
      <4>3. Units(ref) # Units(Now)
        <5> SUFFICES ASSUME ref = Now PROVE FALSE
          BY <1>9, <4>1, UnitsOrder
        <5>1. Now.sec \in Nat /\ Now.nsec \in Nat
          BY <1>9, SecondOK DEF Timespecs
        <5>2. Now.sec <= Now.sec /\ Now.nsec <= Now.nsec /\ ~Earlier(Now, Now)
          BY <5>1 DEF Earlier
        <5> QED
          BY <2>2, <5>2 DEF DrawAgain
      <4> QED
        BY <1>9, <2>4, <3>1, <4>1, <4>2, <4>3
    <3> QED
      BY <2>4, <3>1, <3>2
  <2>6. Drawn'
    BY <1>9, <2>2, <2>4, <2>5 DEF Drawn, Last
  <2> QED
    BY <2>1, <2>3, <2>6
<1>17. CASE BeginColumns
  BY <1>13, <1>17 DEF BeginColumns, clockVars
<1>18. CASE FillColumns
  BY <1>13, <1>18 DEF FillColumns, clockVars
<1>19. ASSUME NEW margin \in Margins, Answer(margin)
       PROVE  Stamped' /\ Referred' /\ Drawn'
  <2> DEFINE e == [broker |-> request.broker, at |-> at.stamp, setbacks |-> at.setbacks,
                   open |-> quote'.open]
  <2>1. given' = Append(given, e) /\ UNCHANGED <<time, setbacks, ref>> /\ at' = NoTime /\ values # <<>>
    BY <1>19 DEF Answer, clockVars, Filled
  <2>2. at # NoTime /\ ref = NoTime
    BY <2>1 DEF QuoteInv, Stage
  <2>3. e.at = at.stamp /\ e.setbacks = at.setbacks
    OBVIOUS
  <2> HIDE DEF e
  <2>4. /\ e.at \in Timespecs /\ e.setbacks \in Nat /\ e.setbacks <= setbacks
        /\ e.setbacks = setbacks => Units(e.at) <= Shown(source, time)
        /\ given # <<>> => Last.setbacks < e.setbacks \/ Units(Last.at) < Units(e.at)
    BY <1>8, <2>2, <2>3 DEF Drawn
  <2>5. Referred' /\ Drawn'
    BY <2>1, <2>2 DEF Referred, Drawn
  <2>6. /\ IsSequence(given') /\ Len(given) \in Nat /\ Len(given') = Len(given) + 1
        /\ \A i \in 1 .. Len(given) : given'[i] = given[i]
        /\ given'[Len(given) + 1] = e
    BY <1>8, <2>1, AppendAny DEF Stamped
  <2>7. \A i \in 1 .. Len(given') : given'[i].at \in Timespecs /\ given'[i].setbacks \in Nat
    <3> SUFFICES ASSUME NEW i \in 1 .. Len(given')
                 PROVE  given'[i].at \in Timespecs /\ given'[i].setbacks \in Nat
      OBVIOUS
    <3>1. i = Len(given) + 1 \/ i \in 1 .. Len(given)
      BY <2>6
    <3> QED
      BY <1>8, <2>4, <2>6, <3>1 DEF Stamped
  <2>8. StampsIncrease'
    <3> SUFFICES ASSUME NEW i \in 1 .. Len(given') - 1
                 PROVE  \/ given'[i].setbacks < given'[i + 1].setbacks
                        \/ Earlier(given'[i].at, given'[i + 1].at)
      BY DEF StampsIncrease
    <3>1. i \in 1 .. Len(given) /\ given'[i] = given[i]
      BY <2>6
    <3>2. CASE i = Len(given)
      <4>1. given'[i + 1] = e /\ given'[i] = Last
        BY <2>6, <3>1, <3>2 DEF Last
      <4>2. given # <<>>
        BY <3>1
      <4>3. Last.at \in Timespecs
        BY <1>8, <4>2, LastStamp
      <4> QED
        BY <2>4, <4>1, <4>2, <4>3, UnitsOrder
    <3>3. CASE i # Len(given)
      <4>1. i \in 1 .. Len(given) - 1 /\ i + 1 \in 1 .. Len(given)
        BY <2>6, <3>1, <3>3
      <4>2. given'[i + 1] = given[i + 1]
        BY <2>6, <4>1
      <4> QED
        BY <1>8, <3>1, <4>1, <4>2 DEF Stamped, StampsIncrease
    <3> QED
      BY <3>2, <3>3
  <2>9. Last' = e
    BY <2>6 DEF Last
  <2>10. Stamped'
    BY <1>1, <2>1, <2>4, <2>6, <2>7, <2>8, <2>9 DEF Stamped
  <2> QED
    BY <2>5, <2>10
<1>20. CASE TimeGoesBy
  <2>1. time' = time + 1 /\ UNCHANGED <<setbacks, given, ref, at>>
    BY <1>20 DEF TimeGoesBy, Tick
  <2>2. shown <= Shown(source', time') /\ Shown(source', time') \in Int
    BY <1>1, <1>2, <2>1, ShownGrows DEF shown
  <2>3. given # <<>> => Units(Last.at) \in Nat
    BY <1>8, LastStamp
  <2>4. Stamped'
    <3>1. given # <<>> => /\ Last.setbacks <= setbacks
                          /\ Last.setbacks = setbacks => Units(Last.at) <= Shown(source', time')
      BY <1>8, <1>9, <2>2, <2>3 DEF Stamped, shown
    <3>2. StampsIncrease'
      BY <1>8, <2>1 DEF Stamped, StampsIncrease
    <3> QED
      BY <1>8, <2>1, <3>1, <3>2 DEF Stamped, Last
  <2>5. Referred'
    <3>1. ref # NoTime => Units(ref) \in Nat
      BY <1>8, UnitsOrder DEF Referred
    <3>2. ref # NoTime /\ given # <<>> /\ Last.setbacks = setbacks => Units(ref) <= Shown(source', time')
      BY <1>8, <1>9, <2>2, <3>1 DEF Referred, shown
    <3> QED
      BY <1>8, <2>1, <3>2 DEF Referred, Last
  <2>6. Drawn'
    <3>1. at # NoTime => Units(at.stamp) \in Nat
      BY <1>8, UnitsOrder DEF Drawn
    <3>2. at # NoTime /\ at.setbacks = setbacks => Units(at.stamp) <= Shown(source', time')
      BY <1>8, <1>9, <2>2, <3>1 DEF Drawn, shown
    <3> QED
      BY <1>8, <2>1, <3>2 DEF Drawn, Last
  <2> QED
    BY <2>4, <2>5, <2>6
<1>21. ASSUME NEW t \in 0 .. time - 1, Correction(t)
       PROVE  Stamped' /\ Referred' /\ Drawn'
  <2>1. time' = t /\ setbacks' = setbacks + 1 /\ UNCHANGED <<given, ref, at>>
    BY <1>21 DEF Correction, SetBack
  <2>2. setbacks \in Nat
    BY <1>2 DEF Time
  <2>3. given # <<>> => Last.setbacks \in Nat /\ Last.setbacks <= setbacks
    BY <1>8, LastStamp DEF Stamped
  <2>4. Stamped'
    BY <1>8, <2>1, <2>2, <2>3 DEF Stamped, Last, StampsIncrease
  <2>5. Referred'
    BY <1>8, <2>1, <2>2, <2>3 DEF Referred, Last
  <2>6. Drawn'
    BY <1>8, <2>1, <2>2 DEF Drawn, Last
  <2> QED
    BY <2>4, <2>5, <2>6
<1>22. CASE UNCHANGED vars
  BY <1>13, <1>22 DEF vars, clockVars
<1> QED
  BY <1>14, <1>15, <1>16, <1>17, <1>18, <1>19, <1>20, <1>21, <1>22 DEF Next, Work

\* The quotes of a process are in the order of their timestamps and no two have the same one,
\* unless the clock was set back in between: with either system clock, and with a counter of any
\* frequency until the units that it has counted exceed a word.
THEOREM StampsAlwaysIncrease == Spec => [](InRange => StampsIncrease)
<1>1. Init => StampInv
  <2> SUFFICES ASSUME Init PROVE StampInv
    OBVIOUS
  <2>1. given = <<>> /\ Len(given) = 0 /\ IsSequence(given)
    <3>1. <<>> \in Seq({})
      OBVIOUS
    <3> QED
      BY <3>1 DEF Init, IsSequence
  <2>2. Stamped
    BY <2>1 DEF Stamped, StampsIncrease
  <2>3. Referred /\ Drawn
    BY DEF Init, ClockInit, Referred, Drawn
  <2>4. time \in {0, 1} /\ setbacks = 0 /\ time <= time
    BY DEF Init, ClockInit
  <2>5. time \in 0 .. Word - 1 /\ setbacks \in Nat
    BY <2>4, BaseOK
  <2>6. ~SystemClock => source \in CounterClocks /\ source.offset <= time
    <3> SUFFICES ASSUME ~SystemClock PROVE source \in CounterClocks /\ source.offset <= time
      OBVIOUS
    <3>1. source \in [os : {"windows", "mac"}, counter : Counters, zero_time : {Second - 1}, offset : {time}]
      BY DEF Init, ClockInit, SystemClock
    <3>2. source.offset = time /\ time \in Nat
      BY <2>4, <3>1
    <3> QED
      BY <2>4, <3>1, <3>2 DEF CounterClocks
  <2> QED
    BY <2>2, <2>3, <2>5, <2>6 DEF StampInv, Time
<1>2. StampInv => (InRange => StampsIncrease)
  BY DEF StampInv, Stamped
<1> QED
  BY <1>1, <1>2, QuoteInvAlways, StampNextHolds, PTL DEF Spec
=============================================================================
