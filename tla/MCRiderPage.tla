---------------------------- MODULE MCRiderPage ----------------------------
(* Small instances of RiderPage for TLC. *)
EXTENDS RiderPage, TLC

Symmetry == Permutations(Trip) \cup Permutations(Call)
=============================================================================
