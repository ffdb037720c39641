--------------------------- MODULE MCTokenBucket ---------------------------
(* An instance of TokenBucket for TLC. *)
EXTENDS TokenBucket

CONSTANTS p1, p2

\* The clocks of the two replicas are exact.
Exact == [p \in {p1, p2} |-> 0]
=============================================================================
