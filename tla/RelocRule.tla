------------------------------ MODULE RelocRule ------------------------------
(***************************************************************************)
(* What a relocalization verification promises, without poses, scores or   *)
(* odometry: a sequential test over a set of candidates.  It begins with   *)
(* the candidates of the first observation, every further observation may  *)
(* only eliminate candidates, an observation that says nothing changes     *)
(* nothing, and a verdict falls with the VerifyScans-th observation -- not *)
(* before and not after -- unless every candidate is eliminated first.     *)
(* (The decision rule documented in relocalization.hpp:10-23.)             *)
(***************************************************************************)
EXTENDS Integers

CONSTANTS TopK, VerifyScans

VARIABLES phase, count, alive

vars == <<phase, count, alive>>

Verdicts == {"accepted", "ambiguous", "no-candidate"}

Init == phase = "idle" /\ count = 0 /\ alive = {}

\* The outcome of an observation after which n scans are counted and the
\* candidates S remain.
Outcome(S, n) ==
  IF S = {} THEN {"no-candidate"}
  ELSE IF n < VerifyScans THEN {"pending"} ELSE Verdicts

Begin ==
  /\ phase # "pending"
  /\ \E m \in 0..TopK :
       /\ alive' = 1..m
       /\ count' = IF m = 0 THEN 0 ELSE 1
       /\ phase' \in Outcome(1..m, 1)

Observe ==
  /\ phase = "pending"
  /\ alive' \in SUBSET alive
  /\ count' = count + 1
  /\ phase' \in Outcome(alive', count + 1)

Next == Begin \/ Observe

Spec == Init /\ [][Next]_vars
=============================================================================
