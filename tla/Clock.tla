------------------------------- MODULE Clock -------------------------------
(***************************************************************************)
(* timestamp(): it reads the clock, and reads it again until the value is  *)
(* greater, so that two timestamps of a process differ.                    *)
(*                                                                         *)
(* A process has one of four clocks.  The system clocks of Linux and of   *)
(* Windows count units of tv_nsec, and somebody may set them back.  The    *)
(* clocks of macOS and of old versions of Windows are derived from a       *)
(* counter that never goes back and has a frequency of its own.            *)
(***************************************************************************)
EXTENDS TimeArithmetic

CONSTANTS
  Counters,      \* the counters there are: [factor, frequency], units for ticks
  MaxTime,       \* bound on the clock while nobody waits for it
  MaxSetBacks,   \* bound on how often the clock is set back
  RealTime,      \* stands for CLOCK_REALTIME
  PreciseTime,   \* stands for GetSystemTimePreciseAsFileTime
  NoTime         \* stands for a timestamp that has not been drawn

ASSUME ClockAssumption ==
  /\ Counters \subseteq [factor : 1 .. Word - 1, frequency : 1 .. Word - 1]
  /\ MaxTime \in Nat
  /\ MaxSetBacks \in Nat

VARIABLES
  source,    \* RealTime, PreciseTime, or a counter and what it showed at the start
  time,      \* what the clock, or the counter, shows
  ref,       \* the first reading of the timestamp in progress, or NoTime
  setbacks   \* history: how often the clock was set back

clockVars == <<source, time, ref, setbacks>>

SystemClocks == {RealTime, PreciseTime}

\* get_timespec_function picks the clock on Windows.
ClockInit ==
  /\ time \in {0, 1}
  /\ source \in SystemClocks \cup
       [os : {"windows", "mac"}, counter : Counters, zero_time : {Second - 1}, offset : {time}]
  /\ ref = NoTime
  /\ setbacks = 0

Ticks(n) == muldiv64(n, source.counter.factor, source.counter.frequency)

\* hires_clock::now
WindowsNow == timespec(source.zero_time + Ticks(Minus(time, source.offset)))

\* mac_hires_clock::now
MacNow == AddTo(timespec(source.zero_time), Ticks(time) - Ticks(source.offset))

Now ==
  CASE source \in SystemClocks -> timespec(time)
    [] source \notin SystemClocks /\ source.os = "windows" -> WindowsNow
    [] OTHER -> MacNow

ReadReference ==
  /\ ref = NoTime
  /\ ref' = Now
  /\ UNCHANGED <<source, time, setbacks>>

\* Mutant: the reference itself is good enough.
DrawEqual(draw) ==
  IF source = RealTime
  THEN draw.sec < ref.sec /\ draw.nsec < ref.nsec
  ELSE Earlier(draw, ref)

\* Mutant: both fields must be greater.
DrawBoth(draw) ==
  IF source = RealTime
  THEN draw.sec <= ref.sec \/ draw.nsec <= ref.nsec
  ELSE ~Earlier(ref, draw)

\* The loop goes on: on Linux the fields are compared one by one, elsewhere as a pair.
DrawAgain(draw) ==
  IF source = RealTime
  THEN draw.sec <= ref.sec /\ draw.nsec <= ref.nsec
  ELSE ~Earlier(ref, draw)

\* A reading that does not end the loop leaves nothing behind; this one ends it.
Draw ==
  /\ ref # NoTime
  /\ ~DrawAgain(Now)
  /\ ref' = NoTime
  /\ UNCHANGED <<source, time, setbacks>>

\* The environment: time goes by, beyond the bound only for a loop that waits for it,
Tick ==
  /\ time < MaxTime \/ (ref # NoTime /\ DrawAgain(Now))
  /\ time < Word - 1
  /\ time' = time + 1
  /\ UNCHANGED <<source, ref, setbacks>>

\* or the system clock is corrected.
SetBack(t) ==
  /\ source \in SystemClocks
  /\ t < time
  /\ setbacks < MaxSetBacks
  /\ time' = t
  /\ setbacks' = setbacks + 1
  /\ UNCHANGED <<source, ref>>
=============================================================================
