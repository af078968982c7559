------------------------------- MODULE MCNdt3d -------------------------------
(***************************************************************************)
(* Small instances of LocalizationNode with the ndt3d backend, which has   *)
(* no relocalization: the constants of the verifier are idle.              *)
(***************************************************************************)
EXTENDS LocalizationNode

At(x) == [x |-> x, h |-> 1]
Turned(x) == [x |-> x, h |-> -1]

MCOdoms == {At(0), At(1), Turned(1)}
MCUser == {Turned(2), At(1)}
MCNone == {}
MCDrift == {Origin, At(1)}
=============================================================================
