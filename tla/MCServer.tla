------------------------------ MODULE MCServer -----------------------------
\* Instances of what the services keep apart from trips.  These parts share no state,
\* so that a behaviour of one of them, the focus, is enough at a time.
EXTENDS Vehicles, Ratings, Accounts, HashRing, MemoryStore, TokenBucket, TLC

CONSTANTS r1, r2, r3, r4, d1, p1, p2

VARIABLE focus

serverVars == <<vehiclesVars, ratingsVars, accountsVars, ringVars, storeVars, vars, focus>>

\* The clock of one replica is ahead.
OneAhead == [p \in {p1, p2} |-> IF p = p2 THEN 1 ELSE 0]
OneCab == [r \in Ride |-> d1]
\* Forms that share a phone, an email, or a licence with another one.
Forms ==
    {[phone |-> 1, email |-> 1, license |-> 1, role |-> "driver"],
     [phone |-> 1, email |-> 2, license |-> 2, role |-> "driver"],
     [phone |-> 2, email |-> 2, license |-> 1, role |-> "driver"],
     [phone |-> 3, email |-> 1, license |-> 0, role |-> "rider"]}

OnlyVehicles == VehiclesNext /\ UNCHANGED <<ratingsVars, accountsVars, ringVars, storeVars, vars>>
OnlyRatings == RatingsNext /\ UNCHANGED <<vehiclesVars, accountsVars, ringVars, storeVars, vars>>
OnlyAccounts == AccountsNext /\ UNCHANGED <<vehiclesVars, ratingsVars, ringVars, storeVars, vars>>
OnlyRing == HashRingNext /\ UNCHANGED <<vehiclesVars, ratingsVars, accountsVars, storeVars, vars>>
OnlyStore == StoreNext /\ UNCHANGED <<vehiclesVars, ratingsVars, accountsVars, ringVars, vars>>
OnlyBucket == Next /\ UNCHANGED <<vehiclesVars, ratingsVars, accountsVars, ringVars, storeVars>>

\* The virtual nodes of one member are interchangeable; those of the ring that
\* is not in focus are all at 0.
ServerInit ==
    /\ focus \in {"vehicles", "ratings", "accounts", "ring", "store", "bucket"}
    /\ VehiclesInit /\ RatingsInit /\ AccountsInit /\ HashRingInit /\ StoreInit /\ Init
    /\ \A n \in Node : place[n][1] <= place[n][2]
    /\ focus # "ring" => \A n \in Node : place[n][2] = 0

ServerNext ==
    /\ \/ focus = "vehicles" /\ OnlyVehicles
       \/ focus = "ratings" /\ OnlyRatings
       \/ focus = "accounts" /\ OnlyAccounts
       \/ focus = "ring" /\ OnlyRing
       \/ focus = "store" /\ OnlyStore
       \/ focus = "bucket" /\ OnlyBucket
    /\ UNCHANGED focus

ServerSpec == ServerInit /\ [][ServerNext]_serverVars

ServerTypeOK ==
    /\ VehiclesTypeOK /\ RatingsTypeOK /\ AccountsTypeOK
    /\ HashRingTypeOK /\ StoreTypeOK /\ TypeOK
=============================================================================
