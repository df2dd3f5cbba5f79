--------------------------- MODULE TimeArithmetic ---------------------------
(***************************************************************************)
(* The arithmetic under the clocks: muldiv64, a product divided without    *)
(* losing the product's high half, and the operators of timespec.          *)
(***************************************************************************)
EXTENDS Integers

CONSTANTS
  Base,    \* 2^32 in the code: half of a machine word
  Second   \* units of tv_nsec in a second

ASSUME ArithmeticAssumption ==
  /\ Base \in Nat \ {0, 1}
  /\ Second \in Nat \ {0}

Word == Base * Base

\* Addition, subtraction and multiplication of unsigned words.
Plus(a, b)  == (a + b) % Word
Minus(a, b) == (a - b) % Word
Times(a, b) == (a * b) % Word

\* Mutant: the remainder may already be larger than a digit, and is not looked at.
FitsAnyRemainder(q, rhat, digit, cl) ==
  q < Base /\ Times(q, cl) <= Plus(Times(rhat, Base), digit)

\* The loop's condition, negated: digit q of the quotient leaves a remainder.
Fits(q, rhat, digit, cl) ==
  q < Base /\ (rhat >= Base \/ Times(q, cl) <= Plus(Times(rhat, Base), digit))

\* One digit of the quotient: an estimate from the divisor's high digit, lowered until
\* it fits.
QuotientDigit(p, digit, ch, cl) ==
  LET FitsBy(n) == Fits((p \div ch) - n, (p % ch) + n * ch, digit, cl)
      n == CHOOSE k \in 0 .. p \div ch : FitsBy(k) /\ \A j \in 0 .. k - 1 : ~FitsBy(j)
  IN  (p \div ch) - n

\* What is left of a * b / c when 0 < a < c, 0 < b < c and c has two digits, on Windows:
\* scale a and c so that the high digit of c is large, multiply digit by digit, and
\* divide by hand.
LongDivision(a, b, c) ==
  LET norm == (Word - 1) \div c
      an == Times(a, norm)
      cn == Times(c, norm)
      ah == an \div Base      al == an % Base
      bh == b \div Base       bl == b % Base
      ch == cn \div Base      cl == cn % Base
      low  == Times(al, bl)
      mid  == Plus(low \div Base, Times(al, bh))
      mid2 == Plus(mid % Base, Times(ah, bl))
      p0 == low % Base
      p1 == mid2 % Base
      p2 == Plus(Plus(mid \div Base, Times(ah, bh)), mid2 \div Base) % cn
      q1 == QuotientDigit(p2, p1, ch, cl)
      r1 == Minus(Plus(Times(p2 % Base, Base), p1), Times(q1, cl))
      r2 == Minus(Plus(Times(p2 \div Base, Base), r1 \div Base), Times(q1, ch))
      q0 == QuotientDigit(Plus(r1 % Base, Times(r2 % Base, Base)), p0, ch, cl)
  IN  Plus(q0, Times(q1, Base))

muldiv64(a, b, c) ==
  LET easy == Plus(Times(a \div c, b), Times(a % c, b \div c))
      x == a % c
      y == b % c
  IN  CASE x = 0 \/ y = 0 -> easy
        [] x # 0 /\ y # 0 /\ c < Base -> Plus(easy, Times(x, y) \div c)
        [] OTHER -> Plus(easy, LongDivision(x, y, c))

-----------------------------------------------------------------------------
timespec(units) == [sec |-> units \div Second, nsec |-> units % Second]
Units(t)        == t.sec * Second + t.nsec

Earlier(s, t) == s.sec < t.sec \/ (s.sec = t.sec /\ s.nsec < t.nsec)

\* operator+=
AddTo(t, duration) ==
  [sec  |-> t.sec + ((t.nsec + duration) \div Second),
   nsec |-> (t.nsec + duration) % Second]

Zero == [sec |-> 0, nsec |-> 0]

\* operator-=, which stops at zero.
TakeFrom(t, duration) ==
  LET sec  == t.sec - (duration \div Second)
      nsec == t.nsec - (duration % Second)
  IN  CASE sec < 0 -> Zero
        [] sec = 0 /\ nsec < 0 -> Zero
        [] sec > 0 /\ nsec < 0 -> [sec |-> sec - 1, nsec |-> nsec + Second]
        [] OTHER -> [sec |-> sec, nsec |-> nsec]

delta(s, t) ==
  IF Earlier(t, s)
  THEN (s.sec - t.sec) * Second + (s.nsec - t.nsec)
  ELSE (t.sec - s.sec) * Second + (t.nsec - s.nsec)
=============================================================================
