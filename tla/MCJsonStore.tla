---------------------------- MODULE MCJsonStore ----------------------------
(* JsonStore for TLC: two supervisors with two threads each, or fewer. *)
EXTENDS JsonStore, TLC

CONSTANTS p1, p2, a, b, c

TwoAndOne == (a :> p1) @@ (b :> p1) @@ (c :> p2)
OneAndOne == (a :> p1) @@ (c :> p2)
=============================================================================
