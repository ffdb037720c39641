------------------------------ MODULE EventFeed ------------------------------
(***************************************************************************)
(* What the trip event feed promises its readers: an event is on the topic *)
(* only after the change it tells of is recorded, it stays there, and it   *)
(* is marked as published only when it is there.  How often an event is on *)
(* the topic, and in which order, is left open.                            *)
(***************************************************************************)
CONSTANT Event          \* ids of trip_events rows

VARIABLES
    recorded,   \* events with a committed row
    announced,  \* events the topic holds at least once
    published   \* rows whose published_at is set

feedVars == <<recorded, announced, published>>

Init ==
    /\ recorded  = {}
    /\ announced = {}
    /\ published = {}

Record(e) ==
    /\ recorded' = recorded \cup {e}
    /\ UNCHANGED <<announced, published>>

Announce(e) ==
    /\ e \in recorded
    /\ announced' = announced \cup {e}
    /\ UNCHANGED <<recorded, published>>

Settle(batch) ==
    /\ batch \subseteq announced
    /\ published' = published \cup batch
    /\ UNCHANGED <<recorded, announced>>

Next ==
    \/ \E e \in Event : Record(e) \/ Announce(e)
    \/ \E batch \in SUBSET Event : Settle(batch)

Spec == Init /\ [][Next]_feedVars

=============================================================================
