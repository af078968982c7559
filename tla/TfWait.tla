-------------------------------- MODULE TfWait --------------------------------
(***************************************************************************)
(* The wait for a transform at the stamp of a message: TfWaitRule and      *)
(* TfWait (prism_loc/tf_wait_rule.hpp) and the polling loop around them,   *)
(* lookupTransformWait (prism_loc/tf_wait.hpp).                            *)
(*                                                                         *)
(* Two clocks are read: steady time, which always runs, and ROS time,      *)
(* which under use_sim_time stands still, runs at any speed, moves in      *)
(* steps or jumps back when a bag loops.  Both are integers in one unit.   *)
(***************************************************************************)
EXTENDS Integers

CONSTANTS
  Budget,      \* budget_s: ROS time to wait for a late transform
  FrozenAfter, \* frozen_after_s
  HardCap,     \* hard_cap_s
  StepMin,     \* step_min_s
  StepGrace,   \* step_grace_s
  Period,      \* the sleep between two polls
  Late,        \* how late after its sleep a poll may run
  Steps,       \* what the ROS clock may gain in a unit of steady time
  BagLength,   \* how far the ROS clock jumps back
  Horizon      \* bound on the steady time

ASSUME WaitParams ==
  /\ Budget \in Nat /\ FrozenAfter \in Nat /\ HardCap \in Nat
  /\ StepMin \in Nat /\ StepGrace \in Nat
  /\ Period \in Nat \ {0} /\ Late \in Nat
  /\ Steps \subseteq Nat
  /\ BagLength \in Nat \ {0} /\ Horizon \in Nat

\* A bag that starts over does not come back to where it was.
ASSUME LongBag == \A step \in Steps : Horizon * step < BagLength

VARIABLES
  steady, ros, \* the two clocks
  rule,        \* the node's TfWaitRule: seen, last_ros, changed_steady
  wait,        \* the TfWait of the callback that waits
  pc,          \* "idle", "polling" (about to call stop()) or "sleeping"
  due,         \* steady time at which the waiting callback runs, at the latest
  still,       \* history: steady time since which the ROS clock has its value
  stepped      \* history: steady time of the poll of this wait at which the
               \* clock passed the budget in a step; -1: none

waitVars == <<steady, ros, rule, wait, pc, due, still, stepped>>

\* Mutant of Observe: keeps the time of the first look.
ObserveOnce(r, s, n) ==
  IF ~r.seen THEN [seen |-> TRUE, last_ros |-> n, changed_steady |-> s]
  ELSE [r EXCEPT !.last_ros = n]

Observe(r, s, n) ==
  IF ~r.seen \/ n # r.last_ros THEN [seen |-> TRUE, last_ros |-> n, changed_steady |-> s] ELSE r

Frozen(r, s) == r.seen /\ s - r.changed_steady >= FrozenAfter

\* stop(): the transform is not there at steady time s and ROS time n.  The
\* rule and the wait after the call, and the answer.
Backward(w, n) == n < w.last_ros
\* Mutant of Capped: one poll later.
CappedLater(w, s) == s - w.steady0 > HardCap

Capped(w, s) == s - w.steady0 >= HardCap
Spent(w, n) == n - w.ros0 >= Budget
\* Mutant of StartsGrace: a step of exactly step_min_s is none.
StartsGraceAbove(w, n) == w.grace_from < 0 /\ n - w.last_ros > StepMin

StartsGrace(w, n) == w.grace_from < 0 /\ n - w.last_ros >= StepMin

WaitAfterStop(w, s, n) ==
  IF Backward(w, n) THEN w
  ELSE [w EXCEPT !.last_ros = n,
                 !.grace_from = IF ~Capped(w, s) /\ Spent(w, n) /\ StartsGrace(w, n) THEN s ELSE @]

Stops(r, w, s, n) ==
  LET grace_from == WaitAfterStop(w, s, n).grace_from
  IN  \/ Backward(w, n)
      \/ Capped(w, s)
      \/ Spent(w, n) /\ (grace_from < 0 \/ s - grace_from >= StepGrace)
      \/ ~Spent(w, n) /\ Frozen(Observe(r, s, n), s)
-----------------------------------------------------------------------------
WaitInit ==
  /\ steady = 0 /\ ros = 0
  /\ rule = [seen |-> FALSE, last_ros |-> 0, changed_steady |-> 0]
  /\ wait = [steady0 |-> 0, ros0 |-> 0, last_ros |-> 0, grace_from |-> -1]
  /\ pc = "idle" /\ due = 0 /\ still = 0 /\ stepped = -1

\* The constructor of TfWait.
Begin ==
  /\ pc = "idle"
  /\ wait' = [steady0 |-> steady, ros0 |-> ros, last_ros |-> ros, grace_from |-> -1]
  /\ rule' = Observe(rule, steady, ros)
  /\ pc' = "polling" /\ due' = steady + Late
  /\ stepped' = -1
  /\ UNCHANGED <<steady, ros, still>>

\* canTransform(): the transform has arrived, or was there from the beginning.
Resolve ==
  /\ pc = "polling"
  /\ pc' = "idle"
  /\ UNCHANGED <<steady, ros, rule, wait, due, still, stepped>>

\* It has not: stop() ends the wait or the callback sleeps.
Poll(stops) ==
  /\ pc = "polling"
  /\ stops = Stops(rule, wait, steady, ros)
  /\ wait' = WaitAfterStop(wait, steady, ros)
  /\ rule' = Observe(rule, steady, ros)
  /\ stepped' = IF /\ stepped = -1 /\ ros - wait.last_ros >= StepMin
                   /\ ros - wait.ros0 >= Budget /\ wait.last_ros - wait.ros0 < Budget
                THEN steady ELSE stepped
  /\ IF stops THEN pc' = "idle" /\ UNCHANGED due
     ELSE pc' = "sleeping" /\ due' = steady + Period + Late
  /\ UNCHANGED <<steady, ros, still>>

GiveUp == Poll(TRUE)
Sleep == Poll(FALSE)

Wake ==
  /\ pc = "sleeping"
  /\ steady >= due - Late
  /\ pc' = "polling"
  /\ UNCHANGED <<steady, ros, rule, wait, due, still, stepped>>

\* A unit of steady time passes; a waiting callback runs when it is due.
Elapse ==
  /\ steady < Horizon
  /\ pc # "idle" => steady < due
  /\ steady' = steady + 1
  /\ \E step \in Steps : ros' = ros + step
  /\ still' = IF ros' = ros THEN still ELSE steady'
  /\ UNCHANGED <<rule, wait, pc, due, stepped>>

\* A looping bag rewinds the clock, once in a behaviour.
Rewind ==
  /\ ros >= 0
  /\ ros' = ros - BagLength
  /\ ros' < 0
  /\ still' = steady
  /\ UNCHANGED <<steady, rule, wait, pc, due, stepped>>

WaitNext == Begin \/ Resolve \/ GiveUp \/ Sleep \/ Wake \/ Elapse \/ Rewind

WaitSpec == WaitInit /\ [][WaitNext]_waitVars
-----------------------------------------------------------------------------
WaitTypeOK ==
  /\ steady \in Nat /\ ros \in Int
  /\ rule \in [seen : BOOLEAN, last_ros : Int, changed_steady : Nat]
  /\ wait \in [steady0 : Nat, ros0 : Int, last_ros : Int, grace_from : Nat \cup {-1}]
  /\ pc \in {"idle", "polling", "sleeping"}
  /\ due \in Nat /\ still \in Nat /\ stepped \in Nat \cup {-1}

\* The wait holds the node's mutex, so its length is the time no other callback
\* runs: the cap, and the sleep in which the cap is reached.  No speed, step,
\* stop or jump of the ROS clock makes it longer.
WaitBounded ==
  pc # "idle" => steady - wait.steady0 < HardCap + Period + Late

\* While a clock does not jump back it counts as frozen only when it really
\* stood still for frozen_after_s, also between the waits, which do not look.
FrozenIsReal ==
  rule.seen /\ ros = rule.last_ros /\ Frozen(rule, steady) => steady - still >= FrozenAfter

\* A clock that passed the budget in a step gets its grace: the wait gives up
\* only step_grace_s later, when the cap does not end it and the clock does not
\* jump back.
StepGetsGrace ==
  [][GiveUp /\ stepped' >= 0 =>
       \/ steady - stepped' >= StepGrace
       \/ steady - wait.steady0 >= HardCap
       \/ ros < wait.last_ros]_waitVars
=============================================================================
