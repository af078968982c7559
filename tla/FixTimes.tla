------------------------------- MODULE FixTimes -------------------------------
(***************************************************************************)
(* When the fixes of the antenna come, and what that lets the kinematic    *)
(* alignment of Eskf (prism_loc_fusion/eskf.cpp) do: the fix period, the   *)
(* spans that scale with it, the buffer that is trimmed, and the check for *)
(* gaps in alignHeading().  A buffer is the sequence of the times of its   *)
(* fixes, oldest first, in ticks of the filter's clock; what a fix         *)
(* measured is not modelled.                                               *)
(*                                                                         *)
(* Windows and gaps can be halves of a tick and are given in half ticks.   *)
(***************************************************************************)
EXTENDS Integers, Sequences, FiniteSetsExt

CONSTANTS
  KnownFixes,  \* fixes an alignment needs (6)
  MedianOf,    \* intervals the period is the median of (15)
  SpanMin,     \* lever_align_span
  WindowMin,   \* lever_align_window
  GapMin,      \* lever_align_gap
  PeriodMax,   \* lever_align_period_max; 0: any period will do
  Second,      \* ticks of a second
  Jitter,      \* ticks of 0.2 s
  KMinFixes, KMaxFixes

ASSUME FixParams ==
  /\ KnownFixes \in Nat /\ KnownFixes >= 3
  /\ MedianOf \in Nat \ {0} /\ MedianOf < KMinFixes
  /\ SpanMin \in Nat \ {0} /\ WindowMin \in Nat /\ GapMin \in Nat /\ PeriodMax \in Nat
  /\ Second \in Nat \ {0} /\ Jitter \in Nat
  /\ KMinFixes \in Nat \ {0} /\ KMaxFixes \in Nat /\ KMinFixes <= KMaxFixes

Larger(a, b) == IF a < b THEN b ELSE a
Fewer(a, b) == IF a < b THEN a ELSE b

\* The interval that ends with fix i.
Interval(f, i) == f[i] - f[i - 1]

\* fixPeriod(): the upper median of the last intervals, newest first.
FixPeriod(f) ==
  IF Len(f) < 3 THEN 0
  ELSE LET m    == Fewer(Len(f) - 1, MedianOf)
           d(i) == Interval(f, Len(f) - i)
           upTo(x) == Cardinality({i \in 0..(m - 1) : d(i) <= x})
       IN  Min({x \in {d(i) : i \in 0..(m - 1)} : upTo(x) > m \div 2})

\* alignSpans(): span in ticks, the others in half ticks.
Spans(T) ==
  LET span    == Larger(SpanMin, 2 * T)
      window2 == Larger(2 * WindowMin, 3 * span)
  IN  [span |-> span,
       window2 |-> window2,
       gap2 |-> Larger(2 * GapMin, 5 * T),
       history2 |-> window2 + Larger(2 * Second, 2 * span + Larger(2 * Jitter, T))]

\* How long a fix is kept, in ticks.
Keep(T) == LET s == Spans(T) IN s.history2 + 4 * s.span + 4 * T

\* Mutant of Trimmed: keeps a count of fixes.
TrimmedByCount(f) == SubSeq(f, Larger(1, Len(f) - KMinFixes + 1), Len(f))

\* trimFixes(): the oldest fixes go while there are more than KMinFixes and they
\* are older than Keep (all that are more, while there is no period yet).
Trimmed(f) ==
  LET n == Len(f)
      T == FixPeriod(f)
      stays(i) == /\ n - i + 1 <= KMaxFixes
                  /\ n - i + 1 <= KMinFixes \/ (T > 0 /\ f[n] - f[i] <= Keep(T))
  IN  IF n = 0 THEN f ELSE SubSeq(f, Min({i \in 1..n : stays(i)}), n)
-----------------------------------------------------------------------------
(* alignHeading(), the part that looks at the times.                       *)

\* The fix a span ending at fix k begins with: the latest one that is two fixes
\* back and long enough ago; 0 if there is none.
SpanBegin(f, k, T) ==
  LET long == {j \in 1..(k - 2) : 2 * (f[k] - f[j]) >= 2 * Spans(T).span - T}
  IN  IF long = {} THEN 0 ELSE Max(long)

\* The last fix of the older velocity: a window ago, or the first one.
WindowBegin(f, T) ==
  LET n   == Len(f)
      old == {i \in 1..(n - 1) : 2 * (f[n] - f[i]) >= Spans(T).window2}
  IN  IF old = {} THEN 1 ELSE Max(old)

\* A velocity over the span that ends at fix k.
VelocityAt(f, k, T) ==
  LET j == SpanBegin(f, k, T)
  IN  /\ j > 0
      /\ 2 * (f[k] - f[j]) > Spans(T).span
      /\ 2 * (f[k] - f[j]) < Larger(4 * Second, 5 * Spans(T).span)

\* No gap up to the history, and none in the older span.
GapFree(f, T) ==
  LET n  == Len(f)
      i0 == WindowBegin(f, T)
  IN  /\ \A i \in 2..n : 2 * (f[n] - f[i - 1]) <= Spans(T).history2 =>
                           2 * Interval(f, i) <= Spans(T).gap2
      /\ \A i \in (SpanBegin(f, i0, T) + 1)..i0 : 2 * Interval(f, i) <= Spans(T).gap2

\* Mutant of WindowFits: the two velocities may lie any time apart.
WindowFitsAlways(f, T) == TRUE

WindowFits(f, T) ==
  2 * (f[Len(f)] - f[WindowBegin(f, T)]) <= Spans(T).window2 + Larger(2 * Second, 3 * T)

\* The times allow an alignment: the older velocity begins after the first fix.
TimesAlign(f) ==
  LET T == FixPeriod(f)
  IN  /\ Len(f) >= KnownFixes
      /\ T > 0 /\ (PeriodMax = 0 \/ T <= PeriodMax)
      /\ SpanBegin(f, WindowBegin(f, T), T) > 1
      /\ WindowFits(f, T)
      /\ GapFree(f, T)
      /\ VelocityAt(f, Len(f), T) /\ VelocityAt(f, WindowBegin(f, T), T)

\* The stretch an alignment looks at begins here.
AlignBegin(f) == LET T == FixPeriod(f) IN f[SpanBegin(f, WindowBegin(f, T), T)]
=============================================================================
