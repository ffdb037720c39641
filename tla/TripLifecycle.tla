---------------------------- MODULE TripLifecycle ----------------------------
(***************************************************************************)
(* What a trip promises, whoever moves it: the status column of trips and  *)
(* the driver bound to it.  This is the abstract specification; the API,   *)
(* the matchers and the ingestor of module Dispatch implement it.          *)
(*                                                                         *)
(* The schema's enum also has 'expired'.  No statement of the program      *)
(* writes it, so it is a value of the type and of no transition.           *)
(***************************************************************************)
CONSTANTS
    Trip,       \* trip ids, created or not yet
    Driver,     \* driver ids
    NoDriver    \* trips.driver_id IS NULL

VARIABLES
    tripStatus, \* trips.status; "none" before the row exists
    tripDriver  \* trips.driver_id

lifecycleVars == <<tripStatus, tripDriver>>

(* trip_status, and "none" for a row not inserted yet. *)
TripStatus == {"none", "requested", "matched", "in_progress", "completed",
               "cancelled_by_rider", "cancelled_by_driver", "expired"}

(* A trip that still holds its driver: the pair of statuses the ingestor   *)
(* looks for, and the two a driver can start, complete or cancel.          *)
Active == {"matched", "in_progress"}

Init ==
    /\ tripStatus = [t \in Trip |-> "none"]
    /\ tripDriver = [t \in Trip |-> NoDriver]

Move(t, from, to) ==
    /\ tripStatus[t] \in from
    /\ tripStatus' = [tripStatus EXCEPT ![t] = to]

(* A rider asks for a ride: no driver yet. *)
Request(t) ==
    /\ Move(t, {"none"}, "requested")
    /\ UNCHANGED tripDriver

(* The one step that binds a driver, and only to a trip that has none. *)
Match(t, d) ==
    /\ tripDriver[t] = NoDriver
    /\ Move(t, {"requested"}, "matched")
    /\ tripDriver' = [tripDriver EXCEPT ![t] = d]

(* The bound driver picks the rider up, and later drops the rider off. *)
Start(t) ==
    /\ tripDriver[t] \in Driver
    /\ Move(t, {"matched"}, "in_progress")
    /\ UNCHANGED tripDriver

Complete(t) ==
    /\ tripDriver[t] \in Driver
    /\ Move(t, {"in_progress"}, "completed")
    /\ UNCHANGED tripDriver

(* Until pickup the rider may cancel; once matched the driver may too.  The *)
(* driver stays on the row.                                                 *)
CancelByRider(t) ==
    /\ Move(t, {"requested", "matched"}, "cancelled_by_rider")
    /\ UNCHANGED tripDriver

CancelByDriver(t) ==
    /\ tripDriver[t] \in Driver
    /\ Move(t, {"matched"}, "cancelled_by_driver")
    /\ UNCHANGED tripDriver

Next ==
    \E t \in Trip :
        \/ Request(t)
        \/ \E d \in Driver : Match(t, d)
        \/ Start(t)
        \/ Complete(t)
        \/ CancelByRider(t)
        \/ CancelByDriver(t)

Spec == Init /\ [][Next]_lifecycleVars

=============================================================================
