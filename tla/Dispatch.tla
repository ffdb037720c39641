------------------------------- MODULE Dispatch -------------------------------
(***************************************************************************)
(* The dispatch core: how trips, drivers and the Redis index of online     *)
(* drivers move under the API replicas, the ingestor and the matcher       *)
(* replicas.                                                               *)
(*                                                                         *)
(* Postgres is the source of truth.  Every handler changes it in one       *)
(* transaction, whose statements lock the rows they update and re-evaluate *)
(* their WHERE clause on the locked version (READ COMMITTED), so a         *)
(* transaction is one step taken when it commits.  What is NOT in the      *)
(* transaction is a step of its own: the Redis command a handler issues    *)
(* after COMMIT, and the part of the ingestor's SELECT that is evaluated   *)
(* on the statement's snapshot, before its row lock is granted.            *)
(*                                                                         *)
(* Left to other modules: publishing trip_events to Kafka (module Outbox). *)
(* Here the trip.requested event of a trip reaches a matcher at any time   *)
(* after it is recorded, and again after a fault.                          *)
(***************************************************************************)
EXTENDS Naturals, Sequences

CONSTANTS
    Trip,       \* trips that may be requested
    Driver,     \* drivers known to the system
    NoDriver,   \* trips.driver_id IS NULL
    Handler,    \* HTTP requests the API and the ingestor have in flight at once
    Matcher,    \* matcher replicas
    Faults      \* whether a process may die between two of its steps

ASSUME NoDriverAssumption == NoDriver \notin Driver
ASSUME FaultsAssumption == Faults \in BOOLEAN

VARIABLES
    tripStatus,   \* trips.status
    tripDriver,   \* trips.driver_id
    events,       \* trip_events of each trip, oldest first
    fares,        \* trips that have a row in fare_records
    ratings,      \* trips that have a row in trip_ratings
    driverStatus, \* drivers.status
    located,      \* drivers that have a row in driver_locations
    geo,          \* members of the Redis GEO set driver:online
    job,          \* what each request in flight still has to do
    matcher,      \* where each matcher replica is in its handler
    handled,      \* trips whose trip.requested event a matcher handler has
                  \* returned from, so that its offset may be committed
    drifted       \* history: drivers whose status was set by hand against
                  \* their trips and who have not been free since

tripVars    == <<tripStatus, tripDriver, events, fares, ratings>>
driverVars  == <<driverStatus, located, drifted>>
matcherVars == <<matcher, handled>>
vars        == <<tripVars, driverVars, geo, job, matcherVars>>

(* The abstract trip: the refinement mapping is the two columns of trips.  *)
Lifecycle == INSTANCE TripLifecycle
             WITH Trip <- Trip, Driver <- Driver, NoDriver <- NoDriver,
                  tripStatus <- tripStatus, tripDriver <- tripDriver

DriverStatus == {"offline", "online", "on_trip", "suspended"}
EventType    == {"requested", "matched", "started", "completed", "cancelled", "rated"}

(* A request in flight.  "ping": the ingestor's SELECT has read, on its    *)
(* snapshot, whether the driver has an active trip, and waits for the row  *)
(* lock.  "geoadd", "zrem": the transaction is committed and the command   *)
(* on driver:online is still to be sent.                                   *)
Job == [op     : {"idle", "ping", "geoadd", "zrem"},
        driver : Driver \cup {NoDriver},
        busy   : BOOLEAN]

IdleJob         == [op |-> "idle", driver |-> NoDriver, busy |-> FALSE]
RedisJob(op, d) == [op |-> op, driver |-> d, busy |-> FALSE]

(* A matcher replica.  "loop": it holds a geosearch answer and tries the   *)
(* candidates left in it.  "drop": it removes a candidate that turned out  *)
(* to be unavailable.  "won": its assignment is committed and the driver   *)
(* is still to be taken out of the index.                                  *)
Scan == [pc     : {"idle", "loop", "drop", "won"},
         trip   : Trip \cup {"none"},
         left   : SUBSET Driver,
         driver : Driver \cup {NoDriver}]

IdleScan == [pc |-> "idle", trip |-> "none", left |-> {}, driver |-> NoDriver]

(* Trips that hold driver d: matched to d or under way with d. *)
ActiveTrips(d) == {t \in Trip : tripDriver[t] = d /\ tripStatus[t] \in Lifecycle!Active}

Init ==
    /\ tripStatus   = [t \in Trip |-> "none"]
    /\ tripDriver   = [t \in Trip |-> NoDriver]
    /\ events       = [t \in Trip |-> <<>>]
    /\ fares        = {}
    /\ ratings      = {}
    /\ driverStatus = [d \in Driver |-> "offline"]
    /\ located      = {}
    /\ geo          = {}
    /\ job          = [h \in Handler |-> IdleJob]
    /\ matcher      = [m \in Matcher |-> IdleScan]
    /\ handled      = {}
    /\ drifted      = {}

-----------------------------------------------------------------------------
(* API: the trip endpoints. *)

Record(t, e) == events' = [events EXCEPT ![t] = Append(@, e)]

(* POST /trips: the row and its event, in one transaction. *)
Create(t) ==
    /\ tripStatus[t] = "none"
    /\ tripStatus' = [tripStatus EXCEPT ![t] = "requested"]
    /\ Record(t, "requested")
    /\ UNCHANGED <<tripDriver, fares, ratings, driverVars, geo, job, matcherVars>>

(* driver_id IS NOT NULL.  Mutant: the column is not looked at. *)
HasDriver_Unchecked(t) == TRUE
HasDriver(t) == tripDriver[t] \in Driver

(* Until the rider is on board.  Mutant: until the trip is completed. *)
Cancellable_UnderWay == {"requested", "matched", "in_progress"}
Cancellable == {"requested", "matched"}

(* A cancelled or completed trip frees its driver: drivers.status becomes  *)
(* 'online' whatever it was, and the handler goes on to restore the        *)
(* driver's entry in the index.                                            *)
FreeDriver(h, t, d) ==
    /\ driverStatus' = [driverStatus EXCEPT ![d] = "online"]
    /\ drifted' = IF ActiveTrips(d) \subseteq {t} THEN drifted \ {d} ELSE drifted
    /\ job' = [job EXCEPT ![h] = RedisJob("geoadd", d)]
    /\ UNCHANGED located

(* POST /trips/:id/cancel, as the role that cancels. *)
Cancel(h, t, to) ==
    /\ job[h] = IdleJob
    /\ tripStatus[t] \in Cancellable
    /\ tripStatus' = [tripStatus EXCEPT ![t] = to]
    /\ Record(t, "cancelled")
    /\ \/ /\ HasDriver(t)
          /\ FreeDriver(h, t, tripDriver[t])
       \/ /\ ~HasDriver(t)
          /\ UNCHANGED <<driverVars, job>>
    /\ UNCHANGED <<tripDriver, fares, ratings, geo, matcherVars>>

CancelByRider(h, t) == Cancel(h, t, "cancelled_by_rider")

(* Only the driver on the row: driver_id = actor. *)
CancelByDriver(h, t) ==
    /\ HasDriver(t)
    /\ Cancel(h, t, "cancelled_by_driver")

(* PATCH /trips/:id/start by the driver on the row. *)
Start(t) ==
    /\ HasDriver(t)
    /\ tripStatus[t] = "matched"
    /\ tripStatus' = [tripStatus EXCEPT ![t] = "in_progress"]
    /\ Record(t, "started")
    /\ UNCHANGED <<tripDriver, fares, ratings, driverVars, geo, job, matcherVars>>

(* PATCH /trips/:id/complete by the driver on the row.  The fare's amount  *)
(* is not modelled, its row is.                                            *)
Complete(h, t) ==
    /\ job[h] = IdleJob
    /\ HasDriver(t)
    /\ tripStatus[t] = "in_progress"
    /\ tripStatus' = [tripStatus EXCEPT ![t] = "completed"]
    /\ fares' = fares \cup {t}
    /\ Record(t, "completed")
    /\ FreeDriver(h, t, tripDriver[t])
    /\ UNCHANGED <<tripDriver, ratings, geo, matcherVars>>

(* POST /trips/:id/rating by the rider of the trip.  A second row of the trip *)
(* is refused by the primary key, and with it the transaction's event.  The   *)
(* stars and the driver's average are module Ratings'.                        *)
Rate(t) ==
    /\ HasDriver(t)
    /\ tripStatus[t] = "completed"
    /\ t \notin ratings
    /\ ratings' = ratings \cup {t}
    /\ Record(t, "rated")
    /\ UNCHANGED <<tripStatus, tripDriver, fares, driverVars, geo, job, matcherVars>>

-----------------------------------------------------------------------------
(* API: the driver's own switch.                                           *)

(* What a driver's new availability owes the index.  Mutant: the branch that *)
(* removes is lost.                                                          *)
IndexCommand_AlwaysAdd(online) == "geoadd"
IndexCommand(online) == IF online THEN "geoadd" ELSE "zrem"

(* PATCH /drivers/:id/status.  The only guard is on 'suspended': trips are *)
(* not looked at, so the switch can contradict them (drifted).             *)
SetStatus(h, d, s) ==
    /\ job[h] = IdleJob
    /\ driverStatus[d] # "suspended"
    /\ driverStatus' = [driverStatus EXCEPT ![d] = s]
    /\ drifted' = CASE (s = "on_trip") # (ActiveTrips(d) # {}) -> drifted \cup {d}
                    [] s # "on_trip" /\ ActiveTrips(d) = {}    -> drifted \ {d}
                    [] OTHER                                   -> drifted
    /\ job' = [job EXCEPT ![h] = RedisJob(IndexCommand(s = "online"), d)]
    /\ UNCHANGED <<tripVars, located, geo, matcherVars>>

(* An operator suspends a driver in the database: nothing under src/ writes *)
(* the value, two statements test for it.                                   *)
Suspend(d) ==
    /\ driverStatus[d] # "suspended"
    /\ driverStatus' = [driverStatus EXCEPT ![d] = "suspended"]
    /\ UNCHANGED <<tripVars, located, drifted, geo, job, matcherVars>>

-----------------------------------------------------------------------------
(* Ingestor: POST /v1/locations.                                           *)

(* The SELECT ... FOR UPDATE starts: has_active_trip is the statement       *)
(* snapshot's answer and stays so while the statement waits for the lock.   *)
StartPing(h, d) ==
    /\ job[h] = IdleJob
    /\ driverStatus[d] # "suspended"
    /\ job' = [job EXCEPT ![h] = [op     |-> "ping",
                                  driver |-> d,
                                  busy   |-> ActiveTrips(d) # {}]]
    /\ UNCHANGED <<tripVars, driverVars, geo, matcherVars>>

(* indexAsOnline.  Mutant: the status of the locked row is not looked at,   *)
(* only the snapshot's has_active_trip.                                     *)
IndexAsOnline_SnapshotOnly(d, busy) == ~busy
IndexAsOnline(d, busy) == driverStatus[d] # "on_trip" /\ ~busy

(* The lock is granted and the transaction runs to its COMMIT: status is    *)
(* that of the locked row.  A driver suspended meanwhile gets a 404.        *)
CommitPing(h) ==
    LET d      == job[h].driver
        online == IndexAsOnline(d, job[h].busy)
    IN  /\ job[h].op = "ping"
        /\ \/ /\ driverStatus[d] = "suspended"
              /\ job' = [job EXCEPT ![h] = IdleJob]
              /\ UNCHANGED <<driverStatus, located>>
           \/ /\ driverStatus[d] # "suspended"
              /\ driverStatus' = IF online THEN [driverStatus EXCEPT ![d] = "online"]
                                           ELSE driverStatus
              /\ located' = located \cup {d}
              /\ job' = [job EXCEPT ![h] = RedisJob(IndexCommand(online), d)]
        /\ UNCHANGED <<tripVars, drifted, geo, matcherVars>>

(* The command a committed request still owes the index.  GEOADD carries    *)
(* the stored position, so a driver without one is not added.               *)
UpdateIndex(h) ==
    LET d == job[h].driver
    IN  /\ job[h].op \in {"geoadd", "zrem"}
        /\ geo' = IF job[h].op = "zrem" THEN geo \ {d} ELSE geo \cup ({d} \cap located)
        /\ job' = [job EXCEPT ![h] = IdleJob]
        /\ UNCHANGED <<tripVars, driverVars, matcherVars>>

(* The process dies, or Redis does not answer: what was committed stays     *)
(* committed and the rest of the request never happens.                     *)
DropRequest(h) ==
    /\ Faults
    /\ job[h] # IdleJob
    /\ job' = [job EXCEPT ![h] = IdleJob]
    /\ UNCHANGED <<tripVars, driverVars, geo, matcherVars>>

-----------------------------------------------------------------------------
(* Matcher: handleTripEvent, fed by the consumer group.                    *)

(* The handler leaves candidate d: the next state of the replica is s, and   *)
(* when that is idle the handler has returned and the event is consumed.     *)
Continue(m, s) ==
    /\ matcher' = [matcher EXCEPT ![m] = s]
    /\ handled' = IF s = IdleScan THEN handled \cup {matcher[m].trip} ELSE handled

Holding(s, pc, d) == [s EXCEPT !.pc = pc, !.driver = d]

Without(s, d) ==
    IF s.left \subseteq {d} THEN IdleScan
    ELSE [pc |-> "loop", trip |-> s.trip, left |-> s.left \ {d}, driver |-> NoDriver]

(* The consumer group hands an event to one replica at a time until it is    *)
(* consumed; after a crash or a rebalance it may be handed out again.        *)
Deliverable(t) ==
    /\ events[t] # <<>>
    /\ Faults \/ (t \notin handled /\ \A m \in Matcher : matcher[m].trip # t)

(* A trip.requested event arrives and geosearch answers with some of the     *)
(* drivers in the index: those within two kilometres of the pickup.          *)
Deliver(m, t) ==
    /\ matcher[m].pc = "idle"
    /\ Deliverable(t)
    /\ \E near \in SUBSET geo \ {{}} :
          matcher' = [matcher EXCEPT ![m] = [pc |-> "loop", trip |-> t,
                                             left |-> near, driver |-> NoDriver]]
    /\ UNCHANGED <<tripVars, driverVars, geo, job, handled>>

(* Nobody is near: the handler returns and the trip is left as it is.        *)
FindNobody(m, t) ==
    /\ matcher[m].pc = "idle"
    /\ Deliverable(t)
    /\ handled' = handled \cup {t}
    /\ UNCHANGED <<tripVars, driverVars, geo, job, matcher>>

(* The status test of assignDriver's UPDATE trips.  Mutant: by id alone.     *)
StillRequested_ById(t) == TRUE
StillRequested(t) == tripStatus[t] = "requested"

(* assignDriver's SELECT joins an online driver with an active vehicle.      *)
(* Vehicles are outside this module: they are an input of the two actions.   *)
Assignable(d, hasVehicle) == driverStatus[d] = "online" /\ hasVehicle

(* The SELECT finds no row and assignDriver rolls back.                      *)
RejectDriver(m, d) ==
    /\ matcher[m].pc = "loop"
    /\ d \in matcher[m].left
    /\ \E hasVehicle \in BOOLEAN : ~Assignable(d, hasVehicle)
    /\ matcher' = [matcher EXCEPT ![m] = Holding(@, "drop", d)]
    /\ UNCHANGED <<tripVars, driverVars, geo, job, handled>>

(* assignDriver locks a driver but the trip is no longer requested: it       *)
(* rolls back and the loop goes on, although no candidate can succeed.       *)
TripTaken(m, d) ==
    /\ matcher[m].pc = "loop"
    /\ d \in matcher[m].left
    /\ \E hasVehicle \in BOOLEAN : Assignable(d, hasVehicle)
    /\ ~StillRequested(matcher[m].trip)
    /\ Continue(m, Without(matcher[m], d))
    /\ UNCHANGED <<tripVars, driverVars, geo, job>>

(* assignDriver commits: trip, driver and event in one transaction. *)
Assign(m, d) ==
    LET t == matcher[m].trip
    IN  /\ matcher[m].pc = "loop"
        /\ d \in matcher[m].left
        /\ \E hasVehicle \in BOOLEAN : Assignable(d, hasVehicle)
        /\ StillRequested(t)
        /\ tripStatus' = [tripStatus EXCEPT ![t] = "matched"]
        /\ tripDriver' = [tripDriver EXCEPT ![t] = d]
        /\ driverStatus' = [driverStatus EXCEPT ![d] = "on_trip"]
        /\ Record(t, "matched")
        /\ matcher' = [matcher EXCEPT ![m] = Holding(@, "won", d)]
        /\ UNCHANGED <<fares, ratings, located, drifted, geo, job, handled>>

(* The ZREM that follows a rejection or an assignment. *)
RemoveFromIndex(m) ==
    /\ matcher[m].pc \in {"drop", "won"}
    /\ geo' = geo \ {matcher[m].driver}
    /\ \/ matcher[m].pc = "won" /\ Continue(m, IdleScan)
       \/ matcher[m].pc = "drop" /\ Continue(m, Without(matcher[m], matcher[m].driver))
    /\ UNCHANGED <<tripVars, driverVars, job>>

(* The replica dies, or a database or Redis error leaves the handler by an   *)
(* exception: the event is delivered again later.                            *)
AbortScan(m) ==
    /\ Faults
    /\ matcher[m].pc # "idle"
    /\ matcher' = [matcher EXCEPT ![m] = IdleScan]
    /\ UNCHANGED <<tripVars, driverVars, geo, job, handled>>

-----------------------------------------------------------------------------
ApiNext ==
    \/ \E t \in Trip : Create(t) \/ Start(t) \/ Rate(t)
    \/ \E h \in Handler, t \in Trip :
          CancelByRider(h, t) \/ CancelByDriver(h, t) \/ Complete(h, t)
    \/ \E h \in Handler, d \in Driver, s \in {"online", "offline", "on_trip"} :
          SetStatus(h, d, s)

IngestorNext ==
    \/ \E h \in Handler, d \in Driver : StartPing(h, d)
    \/ \E h \in Handler : CommitPing(h)

MatcherNext ==
    \E m \in Matcher :
        \/ \E t \in Trip : Deliver(m, t) \/ FindNobody(m, t)
        \/ \E d \in Driver : RejectDriver(m, d) \/ TripTaken(m, d) \/ Assign(m, d)
        \/ RemoveFromIndex(m)
        \/ AbortScan(m)

Next ==
    \/ ApiNext
    \/ IngestorNext
    \/ MatcherNext
    \/ \E h \in Handler : UpdateIndex(h) \/ DropRequest(h)
    \/ \E d \in Driver : Suspend(d)

Spec == Init /\ [][Next]_vars

(* What the deployment keeps doing.  A request that is in flight again and   *)
(* again is carried through some time, crashes notwithstanding; an event     *)
(* that is not consumed is delivered, and a handler that has started goes    *)
(* on; the app of a driver who is not suspended sends pings every five       *)
(* seconds, and some of them are served.  Riders, drivers and operators      *)
(* owe nothing: no trip need be created, cancelled, started or completed.    *)
Fairness ==
    /\ \A h \in Handler : SF_vars(CommitPing(h)) /\ SF_vars(UpdateIndex(h))
    /\ \A d \in Driver : SF_vars(\E h \in Handler : StartPing(h, d))
    /\ \A m \in Matcher :
          /\ WF_vars(\E t \in Trip : t \notin handled /\ (Deliver(m, t) \/ FindNobody(m, t)))
          /\ WF_vars(\E d \in Driver : RejectDriver(m, d) \/ TripTaken(m, d) \/ Assign(m, d))
          /\ WF_vars(RemoveFromIndex(m))

FairSpec == Spec /\ Fairness

-----------------------------------------------------------------------------
(* Safety. *)

(* Type invariant: every variable holds values its column, set or handler   *)
(* can hold, and a request or a matcher that is not idle knows whom it is   *)
(* working for.                                                             *)
TypeOK ==
    /\ tripStatus   \in [Trip -> Lifecycle!TripStatus]
    /\ tripDriver   \in [Trip -> Driver \cup {NoDriver}]
    /\ events       \in [Trip -> Seq(EventType)]
    /\ fares        \in SUBSET Trip
    /\ ratings      \in SUBSET Trip
    /\ driverStatus \in [Driver -> DriverStatus]
    /\ located      \in SUBSET Driver
    /\ geo          \in SUBSET Driver
    /\ drifted      \in SUBSET Driver
    /\ handled      \in SUBSET Trip
    /\ job          \in [Handler -> Job]
    /\ matcher      \in [Matcher -> Scan]
    /\ \A h \in Handler : job[h].op # "idle" => job[h].driver \in Driver
    /\ \A m \in Matcher :
          /\ matcher[m].pc # "idle" => matcher[m].trip \in Trip
          /\ matcher[m].pc \in {"drop", "won"} => matcher[m].driver \in Driver

(* A driver holds a trip exactly while its status says so, and never two    *)
(* trips at once: whatever the order of matches, redeliveries, pings,       *)
(* cancels and completions on all replicas, only a status set by hand       *)
(* against the driver's trips breaks the tie between drivers.status and     *)
(* trips.status, and the tie is whole again once the driver is free.        *)
Agrees(d) ==
    /\ \A t1, t2 \in ActiveTrips(d) : t1 = t2
    /\ ActiveTrips(d) # {} => driverStatus[d] \in {"on_trip", "suspended"}
    /\ driverStatus[d] = "on_trip" => ActiveTrips(d) # {}

StatusAgrees == \A d \in Driver \ drifted : Agrees(d)

(* trip_events is an audit of every change of a trip: from the events of a  *)
(* trip alone one can tell its status, whether a driver is bound to it,     *)
(* whether its fare is settled and whether its rider has rated it.          *)
Audit(t, status, history, bound, settled) ==
    /\ tripStatus[t] \in status <=> events[t] \in history
    /\ events[t] \in history => /\ (tripDriver[t] # NoDriver) = bound
                                /\ (t \in fares) = settled

Driven == <<"requested", "matched", "started", "completed">>
Rated  == <<"requested", "matched", "started", "completed", "rated">>

AuditTellsAll ==
    \A t \in Trip :
        /\ Audit(t, {"none"}, {<<>>}, FALSE, FALSE)
        /\ Audit(t, {"requested"}, {<<"requested">>}, FALSE, FALSE)
        /\ Audit(t, {"matched"}, {<<"requested", "matched">>}, TRUE, FALSE)
        /\ Audit(t, {"in_progress"}, {<<"requested", "matched", "started">>}, TRUE, FALSE)
        /\ Audit(t, {"completed"}, {Driven, Rated}, TRUE, TRUE)
        /\ tripStatus[t] \in {"cancelled_by_rider", "cancelled_by_driver"}
              <=> events[t] \in {<<"requested", "cancelled">>,
                                <<"requested", "matched", "cancelled">>}
        /\ t \in ratings <=> events[t] = Rated

-----------------------------------------------------------------------------
(* The abstract specification. *)

(* Dispatch implements TripLifecycle: whichever replica moves a trip, and   *)
(* however often its event is delivered, the trip only takes the abstract   *)
(* transitions, and its driver is bound once.                               *)
ImplementsLifecycle == Lifecycle!Spec

-----------------------------------------------------------------------------
(* Liveness. *)

(* The index heals: a driver who stays online and free while the app keeps  *)
(* pinging is in the index again and again, and one who stays on a trip is  *)
(* out of it for good, whatever lost or late Redis commands the matches,    *)
(* cancels, completions and crashes before left behind.                     *)
IndexConverges ==
    \A d \in Driver :
        /\ <>[](driverStatus[d] = "online" /\ ActiveTrips(d) = {}) => []<>(d \in geo)
        /\ <>[](driverStatus[d] = "on_trip") => <>[](d \notin geo)

=============================================================================
