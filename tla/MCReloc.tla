------------------------------- MODULE MCReloc -------------------------------
(***************************************************************************)
(* Small instances of RelocVerification.                                   *)
(***************************************************************************)
EXTENDS RelocVerification

At(x) == [x |-> x, h |-> 1]
Turned(x) == [x |-> x, h |-> -1]

\* Odometry poses: a walk of two cells and a turn on the spot.
MCOdoms == {At(0), At(1), Turned(1), At(2)}
\* Two rooms that look alike, one of them seen in reverse.
MCAliases == {At(0), Turned(5)}
MCDrift == {Origin, At(1)}
=============================================================================
