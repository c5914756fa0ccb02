---------------------------- MODULE MCTurnEngine ----------------------------
(* TurnEngine for TLC. *)
EXTENDS TurnEngine, TLC

Symmetry == Permutations(Robots)
=============================================================================
