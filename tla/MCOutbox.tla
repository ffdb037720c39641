------------------------------- MODULE MCOutbox -------------------------------
(* Small instances of Outbox for TLC. *)
EXTENDS Outbox, TLC

CONSTANTS a1, a2, f1, f2, f3, t1, t2

(* Three events: requested and matched of one trip, requested of another. *)
TwoTrips    == (1 :> t1) @@ (2 :> t2) @@ (3 :> t1)
TwoReplicas == (f1 :> a1) @@ (f2 :> a1) @@ (f3 :> a2)
FourEvents  == TwoTrips @@ (4 :> t2)
OneReplica  == (f1 :> a1) @@ (f2 :> a1)

=============================================================================
