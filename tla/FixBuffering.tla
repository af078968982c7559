----------------------------- MODULE FixBuffering -----------------------------
(***************************************************************************)
(* The buffer of antenna fixes of one Eskf, beside all fixes since it was  *)
(* last cleared.  Fixes come at a rate that changes now and then; an       *)
(* interval longer than the usual ones is an outage.  An alignment, which  *)
(* also needs the motion of the robot, may or may not happen when the      *)
(* times allow it, and clears the buffer.                                  *)
(***************************************************************************)
EXTENDS FixTimes

CONSTANTS Intervals,  \* intervals between fixes
          MaxChanges, \* bound on the changes of the interval
          MaxFixes    \* bound on the fixes since the last clear

ASSUME BufferParams ==
  Intervals \subseteq Nat \ {0} /\ MaxChanges \in Nat /\ MaxFixes \in Nat

\* An alignment at fix period T looks back less than this, in half ticks: to the
\* end of the older velocity, and over its span.
Reach2(T) ==
  LET s == Spans(T)
  IN  s.window2 + Larger(2 * Second, 3 * T) + Larger(4 * Second, 5 * s.span)

\* What the defaults of EskfParams and the constants of trimFixes() satisfy, the
\* last for receivers of up to 650 Hz.
ASSUME TrimParams ==
  /\ Jitter <= Second /\ KnownFixes <= KMinFixes /\ PeriodMax > 0
  /\ \A T \in 1..PeriodMax : Reach2(T) <= 2 * (Keep(0) + T)
  /\ \A d \in Intervals : KMaxFixes * d > Keep(0) + PeriodMax

VARIABLES fixes,    \* fixes_
          every,    \* interval at which fixes come now
          changes,  \* changes of it so far
          all       \* history: the fixes since the last clear, none trimmed

fixVars == <<fixes, every, changes, all>>

FixInit == fixes = <<>> /\ every \in Intervals /\ changes = 0 /\ all = <<>>

\* A lever update stores its fix and trims; times count from the first fix.
Store ==
  /\ Len(all) < MaxFixes
  /\ LET t == IF all = <<>> THEN 0 ELSE all[Len(all)] + every
     IN  /\ fixes' = Trimmed(Append(fixes, t))
         /\ all' = Append(all, t)
  /\ UNCHANGED <<every, changes>>

ChangeRate ==
  /\ changes < MaxChanges
  /\ changes' = changes + 1
  /\ every' \in Intervals \ {every}
  /\ UNCHANGED <<fixes, all>>

Align ==
  /\ TimesAlign(fixes)
  /\ fixes' = <<>> /\ all' = <<>>
  /\ UNCHANGED <<every, changes>>

FixNext == Store \/ ChangeRate \/ Align

FixSpec == FixInit /\ [][FixNext]_fixVars
-----------------------------------------------------------------------------
Suffix(s, n) == SubSeq(s, Len(s) - n + 1, Len(s))

FixTypeOK == /\ fixes \in Seq(Nat) /\ Len(fixes) <= KMaxFixes
             /\ all \in Seq(Nat) /\ Len(fixes) <= Len(all)
             /\ every \in Intervals /\ changes \in 0..MaxChanges

\* No alignment reads a fix that was dropped, whatever the rate was then ("Drop
\* the fixes that no alignment can read any more", trimFixes()): with all fixes it
\* would not begin before the first one kept.  The trimmed buffer gives the same
\* alignments, over the same stretch, but one: the stretch must not begin with
\* the first fix there is.
TrimIsInvisible ==
  /\ fixes = Suffix(all, Len(fixes))
  /\ TimesAlign(all) => AlignBegin(all) >= fixes[1]
  /\ TimesAlign(fixes) <=> TimesAlign(all) /\ (fixes = all \/ AlignBegin(all) > fixes[1])
  /\ TimesAlign(fixes) => AlignBegin(fixes) = AlignBegin(all)

\* "It does nothing with a gap [...] between two fixes anywhere from the first
\* fix of the older velocity to now" (SPEC_fusion.md, alignHeading()).
NoGapInAlignment ==
  TimesAlign(fixes) =>
    \A i \in 2..Len(fixes) :
      fixes[i - 1] >= AlignBegin(fixes) => 2 * Interval(fixes, i) <= Spans(FixPeriod(fixes)).gap2
=============================================================================
