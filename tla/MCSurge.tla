------------------------------ MODULE MCSurge ------------------------------
(***************************************************************************)
(* Surge for TLC: deliveries are interchangeable, and so are the ticks and *)
(* the flushes that are under way.                                         *)
(***************************************************************************)
EXTENDS Surge, TLC

Symmetry == Permutations(Delivery) \cup Permutations(Run) \cup Permutations(Flush)
=============================================================================
