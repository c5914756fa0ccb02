---------------------------- MODULE MCOnboarding ----------------------------
(* Onboarding for TLC. *)
EXTENDS Onboarding, TLC

Symmetry == Permutations(Timers)
=============================================================================
