------------------------------ MODULE MCLaser2d ------------------------------
(***************************************************************************)
(* Small instances of LocalizationNode with the laser2d backend.           *)
(***************************************************************************)
EXTENDS LocalizationNode

At(x) == [x |-> x, h |-> 1]
Turned(x) == [x |-> x, h |-> -1]

\* A step forward that ends in a turn.
MCOdoms == {At(0), Turned(1)}
MCAliases == {At(0), Turned(3)}
MCUser == {Turned(2)}
MCExact == {Origin}
MCDrift == {Origin, At(1)}
=============================================================================
