----------------------------- MODULE MatchMonitor -----------------------------
(***************************************************************************)
(* MatchMonitor (prism_loc/ndt_status.hpp): the ring buffer over the       *)
(* scan-to-map match of the last filter updates, as a record with the      *)
(* class's members and one function per method.  A fraction is an integer. *)
(***************************************************************************)
EXTENDS Integers, FiniteSetsExt

CONSTANTS KWindow,    \* length of the window
          KMaxCounted \* where since_reseed saturates

ASSUME WindowParams == KWindow \in Nat \ {0} /\ KMaxCounted \in Nat /\ KWindow <= KMaxCounted

Monitors == [values : [0..(KWindow - 1) -> Nat], count : 0..KWindow,
             next : 0..(KWindow - 1), since_reseed : 0..KMaxCounted]

NewMonitor == [values |-> [i \in 0..(KWindow - 1) |-> 0],
               count |-> 0, next |-> 0, since_reseed |-> 0]

\* Mutants of Emptied: keeps the count of judged updates; keeps the write index.
EmptiedStillVerified(m) == [m EXCEPT !.count = 0, !.next = 0]
EmptiedInPlace(m) == [m EXCEPT !.count = 0, !.since_reseed = 0]

Emptied(m) == [m EXCEPT !.count = 0, !.next = 0, !.since_reseed = 0]

Following(i) == (i + 1) % KWindow

\* update(): the update forced by a reseed empties the window, any other one is judged.
Judge(m, reseeded, fraction) ==
  IF reseeded THEN Emptied(m)
  ELSE [m EXCEPT !.values[m.next] = fraction,
                 !.next = Following(@),
                 !.count = IF @ < KWindow THEN @ + 1 ELSE @,
                 !.since_reseed = IF @ < KMaxCounted THEN @ + 1 ELSE @]

Verified(m, needed) == m.since_reseed >= needed

WindowSum(m) == MapThenSumSet(LAMBDA i : m.values[i], 0..(m.count - 1))

\* low(): the mean of the window is below the threshold.
Low(m, threshold) == m.count > 0 /\ WindowSum(m) < threshold * m.count
=============================================================================
