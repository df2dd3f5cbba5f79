------------------------------- MODULE Broker -------------------------------
(***************************************************************************)
(* The brokers of one simulator: request_quote draws a timestamp, has the  *)
(* pricer that the brokers share generate a quote, and adds the margin of  *)
(* the broker, drawn once and kept.                                        *)
(***************************************************************************)
EXTENDS Clock, QuoteGenerator

CONSTANTS
  Names,       \* names of the brokers
  Volumes,     \* volumes that are asked for
  Margins,     \* margins a broker may draw
  MaxQuotes,   \* bound on the number of quotes
  NoRequest,   \* stands for no request
  NoMargin     \* stands for a margin that has not been drawn

ASSUME BrokerAssumption ==
  /\ Volumes \subseteq Nat \ {0, 1}
  /\ Margins \subseteq Nat \ {0}
  /\ NoMargin \notin Margins
  /\ MaxQuotes \in Nat

VARIABLES
  request,          \* the request that is being answered: [broker, volume], or NoRequest
  at,               \* its timestamp and how often the clock was set back until then, or NoTime
  product_margin,   \* of each broker, for the product
  quote,            \* the quote given last, with its series, until the next request
  given             \* history: broker, timestamp and opening price of the quotes, in order

vars == <<clockVars, quoteVars, request, at, product_margin, quote, given>>

Init ==
  /\ ClockInit
  /\ QuoteInit
  /\ request = NoRequest
  /\ at = NoTime
  /\ product_margin = [b \in Names |-> NoMargin]
  /\ quote = NoRequest
  /\ given = <<>>

request_quote(b, volume) ==
  /\ request = NoRequest
  /\ Len(given) < MaxQuotes
  /\ request' = [broker |-> b, volume |-> volume]
  /\ quote' = NoRequest
  /\ UNCHANGED <<clockVars, quoteVars, at, product_margin, given>>

\* quote{_name, p, volume, pricer}: the timestamp comes first,
BeginTimestamp ==
  /\ request # NoRequest
  /\ at = NoTime
  /\ ReadReference
  /\ UNCHANGED <<quoteVars, request, at, product_margin, quote, given>>

EndTimestamp ==
  /\ Draw
  /\ at' = [stamp |-> Now, setbacks |-> setbacks]
  /\ UNCHANGED <<quoteVars, request, product_margin, quote, given>>

\* then the columns.
BeginColumns ==
  /\ at # NoTime
  /\ values = <<>>
  /\ Generate(request.volume)
  /\ UNCHANGED <<clockVars, request, at, product_margin, quote, given>>

FillColumns ==
  /\ Fill
  /\ UNCHANGED <<clockVars, request, at, product_margin, quote, given>>

\* Mutant: a new margin is drawn for every quote.
get_margin_afresh(b, margin) == margin \in Margins

\* The margin for the broker's product, drawn when there is none.
get_margin(b, margin) ==
  IF product_margin[b] = NoMargin THEN margin \in Margins ELSE margin = product_margin[b]

Answer(margin) ==
  /\ Filled
  /\ get_margin(request.broker, margin)
  /\ product_margin' = [product_margin EXCEPT ![request.broker] = margin]
  /\ quote' = [broker |-> request.broker,
               series |-> {values[i] + margin : i \in 1 .. Len(values)},
               volume |-> Len(values),
               open   |-> values[1] + margin,
               high   |-> high + margin,
               low    |-> low + margin,
               close  |-> values[Len(values)] + margin]
  /\ given' = Append(given, [broker |-> request.broker, at |-> at.stamp,
                             setbacks |-> at.setbacks, open |-> quote'.open])
  /\ request' = NoRequest
  /\ at' = NoTime
  /\ values' = <<>>
  /\ low' = 0
  /\ high' = 0
  /\ UNCHANGED <<clockVars, ranges>>

\* One step of the simulator.
Work ==
  \/ BeginTimestamp
  \/ EndTimestamp
  \/ BeginColumns
  \/ FillColumns
  \/ \E margin \in Margins : Answer(margin)

TimeGoesBy == Tick /\ UNCHANGED <<quoteVars, request, at, product_margin, quote, given>>

Correction(t) == SetBack(t) /\ UNCHANGED <<quoteVars, request, at, product_margin, quote, given>>

Next ==
  \/ \E b \in Names, volume \in Volumes : request_quote(b, volume)
  \/ Work
  \/ TimeGoesBy
  \/ \E t \in 0 .. time - 1 : Correction(t)

\* The simulator runs, and the clock does not stop.
Spec == Init /\ [][Next]_vars /\ WF_vars(Work) /\ WF_vars(TimeGoesBy)

-----------------------------------------------------------------------------
\* No two quotes of a process have one timestamp, and they are in the order of their
\* timestamps, unless the real-time clock was set back in between: however coarse the
\* clock is, and however few ticks it makes while quotes are asked for.
StampsIncrease ==
  \A i \in 1 .. Len(given) - 1 :
    \/ given[i].setbacks < given[i + 1].setbacks
    \/ Earlier(given[i].at, given[i + 1].at)

\* The next call of fill_values meets the assertions at its top: two elements or more,
\* and both of its ends have a price already, although calls overwrite one another's
\* ends.
AssertionsHold ==
  ranges # <<>> =>
    LET range == Head(ranges)
    IN  /\ range.last - range.first >= 2
        /\ values[range.first] > 0
        /\ values[range.last - 1] > 0

\* A quote is a possible summary of its series, although a call of fill_values may
\* overwrite a price that another one has counted: every price is filled in and between
\* low and high, with the broker's margin on all of them; and a broker opens every quote
\* at the same price, because the margin is drawn once and _last never changes.
QuoteCoherent ==
  /\ quote # NoRequest =>
       /\ {quote.open, quote.close} \subseteq quote.series
       /\ \A price \in quote.series :
            /\ quote.low <= price /\ price <= quote.high
            /\ price >= BackFloor + product_margin[quote.broker]
  /\ \A i, j \in 1 .. Len(given) :
       given[i].broker = given[j].broker => given[i].open = given[j].open

\* The words of the machine, and durations beyond two seconds.
MulDivExact ==
  \A a, b \in 0 .. Word - 1, c \in 1 .. Word - 1 : muldiv64(a, b, c) = ((a * b) \div c) % Word

TimespecExact ==
  \A m, n \in 0 .. 3 * Second :
    /\ AddTo(timespec(m), n) = timespec(m + n)
    /\ TakeFrom(timespec(m), n) = timespec(Greatest(m - n, 0))
    /\ delta(timespec(m), timespec(n)) = Greatest(m - n, n - m)

\* muldiv64 divides the whole product, not its low half, and timespec computes like a
\* number of units that stops at zero, with every carry and borrow.  (This is about no
\* variable: it is evaluated before the first request.)
ArithmeticExact == request = NoRequest /\ given = <<>> => MulDivExact /\ TimespecExact

\* Every request is answered: the loop of timestamp() ends as long as the clock goes on,
\* even if the clock was set back while it waited, and so does the recursion.
QuoteAnswered == request # NoRequest ~> request = NoRequest
=============================================================================
