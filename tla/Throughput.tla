----------------------------- MODULE Throughput ------------------------------
(***************************************************************************)
(* The byte side of fyneui/progress.go: the throughput estimate a Model    *)
(* makes of the staging events, and the time it says is left.              *)
(*                                                                         *)
(* Rates are exact: whole numbers of 1/Scale bytes per tick. Instants are  *)
(* kept as what the code reads of them, the ticks since the sample before. *)
(* A Duration counts Nanos to the tick and wraps beyond MaxDuration.       *)
(***************************************************************************)
EXTENDS Integers

CONSTANTS Total,       \* the size of the release, in bytes
          Elapsed,     \* ticks between two events, of a clock that may be set back
          Window,      \* rateWindow, in ticks
          Scale,       \* the unit of rates
          Nanos,       \* time.Second, in units of a Duration
          MaxDuration, \* math.MaxInt64
          MaxSamples,  \* bound of the model: staging events in a row
          Grain        \* what every rate is a multiple of after so many of them

ASSUME ThroughputAssumption ==
  /\ {Total, Window, Scale, Nanos, MaxDuration, MaxSamples} \subseteq Nat \ {0}
  /\ Elapsed \subseteq Int
  /\ Grain \in [0 .. MaxSamples -> Nat \ {0}]
  /\ \A n \in 1 .. MaxSamples : Grain[n - 1] = Window * Grain[n]
  /\ \A e \in Elapsed, n \in 0 .. MaxSamples : e > 0 => Scale % (e * Grain[n]) = 0

VARIABLES sampled, lastBytes, rate, \* Model: is lastAt set? and the estimate
          shown,                    \* Model.snap
          samples,                  \* staging events since the estimate began
          lo, hi,                   \* history: the slowest and the fastest measured
          steady                    \* history: what has been measured lately, for how long

estimate == <<sampled, lastBytes, rate>>
vars == <<estimate, shown, samples, lo, hi, steady>>

Blank == [rate |-> 0, remaining |-> 0, done |-> 0, total |-> 0]
Unmeasured == -1

\* No pace has been measured for any ticks.
Nothing == [pace |-> Unmeasured, ticks |-> 0, before |-> 0]

-----------------------------------------------------------------------------
\* Bytes per tick between two samples.
Instant(elapsed, bytes) == (bytes * Scale) \div elapsed

\* Mutants of Filtered: the weight is not capped; the window is twice as long.
FilteredUncapped(old, elapsed, instant) ==
  IF old = 0 THEN instant ELSE old + (elapsed * (instant - old)) \div Window
FilteredSlowly(old, elapsed, instant) ==
  IF old = 0 \/ elapsed >= 2 * Window THEN instant
  ELSE old + (elapsed * (instant - old)) \div (2 * Window)

\* The first-order filter of Model.sample, its weight capped at 1.
Filtered(old, elapsed, instant) ==
  IF old = 0 \/ elapsed >= Window THEN instant
  ELSE old + (elapsed * (instant - old)) \div Window

\* The cast of a number to an int64.
Wrapped(n) == ((n + MaxDuration + 1) % (2 * (MaxDuration + 1))) - (MaxDuration + 1)

\* Duration.Round to whole seconds.
Rounded(d) == ((d + Nanos \div 2) \div Nanos) * Nanos

\* A mutant of Remaining: seconds are compared with a limit of nanoseconds.
RemainingUnscaled(left, r) ==
  IF left <= 0 \/ r <= 0 \/ left * Scale > MaxDuration * r THEN 0
  ELSE Rounded(Wrapped((left * Scale * Nanos) \div r))

\* remaining: the rest at this rate, or 0 when that cannot be said.
Remaining(left, r) ==
  IF left <= 0 \/ r <= 0 \/ left * Scale > (MaxDuration \div Nanos) * r THEN 0
  ELSE Rounded(Wrapped((left * Scale * Nanos) \div r))

-----------------------------------------------------------------------------
\* Is a staging event a measurement, or a sample to drop?
Measures(done, elapsed) == sampled /\ elapsed > 0 /\ done >= lastBytes

\* Model.sample.
Sample(done, elapsed) ==
  /\ sampled' = TRUE /\ lastBytes' = done
  /\ rate' = IF Measures(done, elapsed)
             THEN Filtered(rate, elapsed, Instant(elapsed, done - lastBytes)) ELSE rate

\* The history of a measurement, kept apart from the estimate.
Measured(done, elapsed) ==
  IF Measures(done, elapsed)
  THEN LET pace == Instant(elapsed, done - lastBytes)
       IN  /\ lo' = IF lo = Unmeasured \/ pace < lo THEN pace ELSE lo
           /\ hi' = IF pace > hi THEN pace ELSE hi
           /\ steady' = IF pace = steady.pace THEN [steady EXCEPT !.ticks = @ + elapsed]
                        ELSE [pace |-> pace, ticks |-> elapsed, before |-> rate]
  ELSE UNCHANGED <<lo, hi, steady>>

\* Model.Apply of an event of staging.
Stage(done, elapsed) ==
  /\ samples < MaxSamples /\ samples' = samples + 1
  /\ Sample(done, elapsed)
  /\ shown' = [rate |-> rate', remaining |-> Remaining(Total - done, rate'),
               done |-> done, total |-> Total]
  /\ Measured(done, elapsed)

\* Model.reset, and the byte counts of the event that causes it.
Clear == /\ sampled' = FALSE /\ lastBytes' = 0 /\ rate' = 0
         /\ shown' = [shown EXCEPT !.rate = 0, !.remaining = 0, !.done = 0, !.total = 0]

\* Model.Apply of an event of any other phase.
Elsewhere == /\ Clear
             /\ samples' = 0 /\ lo' = Unmeasured /\ hi' = Unmeasured /\ steady' = Nothing

\* Panel.Reset puts a new Model in the place of the old one.
PanelReset == /\ sampled' = FALSE /\ lastBytes' = 0 /\ rate' = 0 /\ shown' = Blank
              /\ samples' = 0 /\ lo' = Unmeasured /\ hi' = Unmeasured /\ steady' = Nothing

Init == /\ sampled = FALSE /\ lastBytes = 0 /\ rate = 0 /\ shown = Blank
        /\ samples = 0 /\ lo = Unmeasured /\ hi = Unmeasured /\ steady = Nothing

Next == \/ \E done \in 0 .. Total, elapsed \in Elapsed : Stage(done, elapsed)
        \/ Elsewhere \/ PanelReset

Spec == Init /\ [][Next]_vars

-----------------------------------------------------------------------------
\* The rate shown lies among those measured since staging began: it neither
\* overshoots a change nor remembers another phase or another transaction, and a
\* steady download is shown at its own rate, whatever was dropped in between. With
\* nothing measured, no rate and no time are shown (progress.go sample, reset).
RateIsMeasured ==
  IF lo = Unmeasured THEN shown.rate = 0 /\ shown.remaining = 0
  ELSE lo <= shown.rate /\ shown.rate <= hi

\* When the pace changes and stays, three eighths of the difference at most are left
\* after a window, in however many samples it comes (progress.go rateWindow: "short
\* enough to react when a release moves from reused files to a download").
RateReacts ==
  LET Off(r) == IF r >= steady.pace THEN r - steady.pace ELSE steady.pace - r
  IN  steady.ticks >= Window => 8 * Off(rate) <= 3 * Off(steady.before)

\* A time that is shown is the rest at the rate shown, to half a second, and never
\* a number that wrapped (progress.go remaining: "zero when that cannot honestly be
\* said").
RemainingIsHonest ==
  LET exact == (shown.total - shown.done) * Scale * Nanos
      off   == shown.remaining * shown.rate - exact
  IN  /\ shown.remaining \in 0 .. MaxDuration
      /\ shown.remaining # 0 =>
           /\ 2 * off <= shown.rate * Nanos
           /\ -2 * off <= shown.rate * (Nanos + 2)

=============================================================================
