------------------------------ MODULE MCDispatch ------------------------------
(* Small instances of Dispatch for TLC. *)
EXTENDS Dispatch, TLC

(* Trips and drivers are interchangeable: no action and no safety property  *)
(* tells one from another.                                                  *)
Symmetry == Permutations(Trip) \cup Permutations(Driver)
                \cup Permutations(Handler) \cup Permutations(Matcher)

=============================================================================
