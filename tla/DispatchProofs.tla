---------------------------- MODULE DispatchProofs ----------------------------
(***************************************************************************)
(* Theorems of Dispatch, for any sets of trips, drivers, requests in       *)
(* flight and matcher replicas, with and without faults.                   *)
(***************************************************************************)
EXTENDS Dispatch, SequenceTheorems, TLAPS

USE NoDriverAssumption DEF Lifecycle!TripStatus, Lifecycle!Active, DriverStatus,
    EventType, Job, IdleJob, RedisJob, Scan, IdleScan

-----------------------------------------------------------------------------
(* Types. *)

LEMMA RecordType ==
    ASSUME NEW t \in Trip, NEW e \in EventType, Record(t, e),
           events \in [Trip -> Seq(EventType)]
    PROVE  events' \in [Trip -> Seq(EventType)]
  BY DEF Record

LEMMA InitTypeOK == Init => TypeOK
<1>1. <<>> \in Seq(EventType)
  OBVIOUS
<1> QED
  BY <1>1 DEF Init, TypeOK

LEMMA FreeDriverType ==
    ASSUME NEW h \in Handler, NEW t \in Trip, NEW d \in Driver,
           FreeDriver(h, t, d), TypeOK
    PROVE  /\ driverStatus' \in [Driver -> DriverStatus]
           /\ drifted' \in SUBSET Driver
           /\ located' \in SUBSET Driver
           /\ job' \in [Handler -> Job]
           /\ \A k \in Handler : job'[k].op # "idle" => job'[k].driver \in Driver
  BY DEF FreeDriver, TypeOK

LEMMA ApiTypeOK == TypeOK /\ ApiNext => TypeOK'
<1> SUFFICES ASSUME TypeOK, ApiNext
             PROVE  TypeOK'
  OBVIOUS
<1>1. ASSUME NEW t \in Trip, Create(t)
      PROVE  TypeOK'
  BY <1>1, RecordType DEF TypeOK, Create, driverVars, matcherVars
<1>2. ASSUME NEW t \in Trip, Start(t)
      PROVE  TypeOK'
  BY <1>2, RecordType DEF TypeOK, Start, driverVars, matcherVars
<1>3. ASSUME NEW h \in Handler, NEW t \in Trip,
             NEW to \in {"cancelled_by_rider", "cancelled_by_driver"}, Cancel(h, t, to)
      PROVE  TypeOK'
  <2>1. /\ tripStatus' \in [Trip -> Lifecycle!TripStatus]
        /\ events' \in [Trip -> Seq(EventType)]
        /\ UNCHANGED <<tripDriver, fares, ratings, geo, matcherVars>>
    BY <1>3, RecordType DEF TypeOK, Cancel
  <2>2. CASE HasDriver(t) /\ FreeDriver(h, t, tripDriver[t])
    BY <2>1, <2>2, FreeDriverType DEF TypeOK, HasDriver, matcherVars
  <2>3. CASE UNCHANGED <<driverVars, job>>
    BY <2>1, <2>3 DEF TypeOK, driverVars, matcherVars
  <2> QED
    BY <1>3, <2>2, <2>3 DEF Cancel
<1>4. ASSUME NEW h \in Handler, NEW t \in Trip, Complete(h, t)
      PROVE  TypeOK'
  <2>1. /\ tripStatus' \in [Trip -> Lifecycle!TripStatus]
        /\ events' \in [Trip -> Seq(EventType)]
        /\ fares' \in SUBSET Trip
        /\ UNCHANGED <<tripDriver, ratings, geo, matcherVars>>
    BY <1>4, RecordType DEF TypeOK, Complete
  <2> QED
    BY <1>4, <2>1, FreeDriverType DEF TypeOK, Complete, HasDriver, matcherVars
<1>5. ASSUME NEW h \in Handler, NEW d \in Driver,
             NEW s \in {"online", "offline", "on_trip"}, SetStatus(h, d, s)
      PROVE  TypeOK'
  <2>1. drifted' \in SUBSET Driver
    BY <1>5 DEF TypeOK, SetStatus
  <2>2. driverStatus' \in [Driver -> DriverStatus]
    BY <1>5 DEF TypeOK, SetStatus
  <2>3. /\ job' \in [Handler -> Job]
        /\ \A k \in Handler : job'[k].op # "idle" => job'[k].driver \in Driver
    BY <1>5 DEF TypeOK, SetStatus, IndexCommand
  <2> QED
    BY <1>5, <2>1, <2>2, <2>3 DEF TypeOK, SetStatus, tripVars, matcherVars
<1>6. ASSUME NEW t \in Trip, Rate(t)
      PROVE  TypeOK'
  BY <1>6, RecordType DEF TypeOK, Rate, driverVars, matcherVars
<1> QED
  BY <1>1, <1>2, <1>3, <1>4, <1>5, <1>6 DEF ApiNext, CancelByRider, CancelByDriver

LEMMA IngestorTypeOK == TypeOK /\ IngestorNext => TypeOK'
<1> SUFFICES ASSUME TypeOK, IngestorNext
             PROVE  TypeOK'
  OBVIOUS
<1>1. ASSUME NEW h \in Handler, NEW d \in Driver, StartPing(h, d)
      PROVE  TypeOK'
  BY <1>1 DEF TypeOK, StartPing, tripVars, driverVars, matcherVars
<1>2. ASSUME NEW h \in Handler, CommitPing(h)
      PROVE  TypeOK'
  <2>1. job[h].driver \in Driver
    BY <1>2 DEF TypeOK, CommitPing
  <2>2. /\ job' \in [Handler -> Job]
        /\ \A k \in Handler : job'[k].op # "idle" => job'[k].driver \in Driver
    <3>1. PICK op \in {"idle", "geoadd", "zrem"}, b \in Driver \cup {NoDriver} :
             /\ job' = [job EXCEPT ![h] = RedisJob(op, b)]
             /\ op # "idle" => b \in Driver
      BY <1>2, <2>1 DEF CommitPing, IndexCommand
    <3>2. RedisJob(op, b) \in Job
      OBVIOUS
    <3> QED
      BY <3>1, <3>2 DEF TypeOK
  <2>3. /\ driverStatus' \in [Driver -> DriverStatus]
        /\ located' \in SUBSET Driver
    BY <1>2, <2>1 DEF TypeOK, CommitPing
  <2> QED
    BY <1>2, <2>2, <2>3 DEF TypeOK, CommitPing, tripVars, matcherVars
<1> QED
  BY <1>1, <1>2 DEF IngestorNext

LEMMA MatcherTypeOK == TypeOK /\ MatcherNext => TypeOK'
<1> SUFFICES ASSUME TypeOK, MatcherNext
             PROVE  TypeOK'
  OBVIOUS
<1> DEFINE ScansOK == /\ matcher \in [Matcher -> Scan]
                      /\ \A n \in Matcher :
                            /\ matcher[n].pc # "idle" => matcher[n].trip \in Trip
                            /\ matcher[n].pc \in {"drop", "won"} => matcher[n].driver \in Driver
<1> USE DEF ScansOK
<1>0. ASSUME NEW s \in Scan, NEW pc \in {"drop", "won"}, NEW d \in Driver
      PROVE  /\ Holding(s, pc, d) \in Scan
             /\ Holding(s, pc, d).pc = pc
             /\ Holding(s, pc, d).trip = s.trip
             /\ Holding(s, pc, d).driver = d
  BY DEF Holding
<1>1. ASSUME NEW m \in Matcher, NEW t \in Trip, Deliver(m, t)
      PROVE  TypeOK'
  <2>1. ScansOK'
    BY <1>1 DEF TypeOK, Deliver
  <2> QED
    BY <1>1, <2>1 DEF TypeOK, Deliver, tripVars, driverVars
<1>2. ASSUME NEW m \in Matcher, NEW t \in Trip, FindNobody(m, t)
      PROVE  TypeOK'
  BY <1>2 DEF TypeOK, FindNobody, tripVars, driverVars
<1>3. ASSUME NEW m \in Matcher, NEW d \in Driver, RejectDriver(m, d)
      PROVE  TypeOK'
  <2>1. ScansOK'
    BY <1>0, <1>3 DEF TypeOK, RejectDriver
  <2> QED
    BY <1>3, <2>1 DEF TypeOK, RejectDriver, tripVars, driverVars
<1>4. ASSUME NEW m \in Matcher, NEW s \in Scan, Continue(m, s), matcher[m].pc # "idle",
             s.pc # "idle" => s.trip \in Trip, s.pc \notin {"drop", "won"}
      PROVE  ScansOK' /\ handled' \in SUBSET Trip
  BY <1>4 DEF TypeOK, Continue
<1>5. ASSUME NEW s \in Scan, NEW d \in Driver, s.trip \in Trip
      PROVE  /\ Without(s, d) \in Scan
             /\ Without(s, d).pc # "idle" => Without(s, d).trip \in Trip
             /\ Without(s, d).pc \notin {"drop", "won"}
  BY <1>5 DEF Without
<1>6. ASSUME NEW m \in Matcher, NEW d \in Driver, TripTaken(m, d)
      PROVE  TypeOK'
  <2>1. ScansOK' /\ handled' \in SUBSET Trip
    BY <1>4, <1>5, <1>6 DEF TypeOK, TripTaken
  <2> QED
    BY <1>6, <2>1 DEF TypeOK, TripTaken, tripVars, driverVars
<1>7. ASSUME NEW m \in Matcher, NEW d \in Driver, Assign(m, d)
      PROVE  TypeOK'
  <2>1. matcher[m].trip \in Trip
    BY <1>7 DEF TypeOK, Assign
  <2>2. ScansOK'
    <3>1. matcher' = [matcher EXCEPT ![m] = Holding(@, "won", d)]
      BY <1>7 DEF Assign
    <3> QED
      BY <1>0, <2>1, <3>1 DEF TypeOK
  <2>3. events' \in [Trip -> Seq(EventType)]
    BY <1>7, <2>1, RecordType DEF TypeOK, Assign
  <2>4. /\ tripStatus' \in [Trip -> Lifecycle!TripStatus]
        /\ tripDriver' \in [Trip -> Driver \cup {NoDriver}]
        /\ driverStatus' \in [Driver -> DriverStatus]
    BY <1>7, <2>1 DEF TypeOK, Assign
  <2> QED
    BY <1>7, <2>2, <2>3, <2>4 DEF TypeOK, Assign
<1>8. ASSUME NEW m \in Matcher, RemoveFromIndex(m)
      PROVE  TypeOK'
  <2>1. ScansOK' /\ handled' \in SUBSET Trip
    BY <1>4, <1>5, <1>8 DEF TypeOK, RemoveFromIndex
  <2> QED
    BY <1>8, <2>1 DEF TypeOK, RemoveFromIndex, tripVars, driverVars
<1>9. ASSUME NEW m \in Matcher, AbortScan(m)
      PROVE  TypeOK'
  <2>1. ScansOK'
    BY <1>9 DEF TypeOK, AbortScan
  <2> QED
    BY <1>9, <2>1 DEF TypeOK, AbortScan, tripVars, driverVars
<1> QED
  BY <1>1, <1>2, <1>3, <1>6, <1>7, <1>8, <1>9 DEF MatcherNext

LEMMA NextTypeOK == TypeOK /\ [Next]_vars => TypeOK'
<1> SUFFICES ASSUME TypeOK, [Next]_vars
             PROVE  TypeOK'
  OBVIOUS
<1>1. ASSUME NEW h \in Handler, UpdateIndex(h)
      PROVE  TypeOK'
  BY <1>1 DEF TypeOK, UpdateIndex, tripVars, driverVars, matcherVars
<1>2. ASSUME NEW h \in Handler, DropRequest(h)
      PROVE  TypeOK'
  BY <1>2 DEF TypeOK, DropRequest, tripVars, driverVars, matcherVars
<1>3. ASSUME NEW d \in Driver, Suspend(d)
      PROVE  TypeOK'
  BY <1>3 DEF TypeOK, Suspend, tripVars, matcherVars
<1>4. CASE UNCHANGED vars
  BY <1>4 DEF TypeOK, vars, tripVars, driverVars, matcherVars
<1> QED
  BY <1>1, <1>2, <1>3, <1>4, ApiTypeOK, IngestorTypeOK, MatcherTypeOK DEF Next

(* Whatever the handlers do, every column, set and handler holds a value of *)
(* its type.                                                                *)
THEOREM TypeCorrect == Spec => []TypeOK
<1>1. Init => TypeOK
  BY InitTypeOK
<1>2. TypeOK /\ [Next]_vars => TypeOK'
  BY NextTypeOK
<1> QED
  BY <1>1, <1>2, PTL DEF Spec

-----------------------------------------------------------------------------
(* Trips and drivers agree. *)

(* What StatusAgrees needs besides: a trip is bound by its match, no sooner. *)
UnboundUntilMatched ==
    \A t \in Trip : tripStatus[t] \in {"none", "requested"} => tripDriver[t] = NoDriver

AgreeInv == TypeOK /\ UnboundUntilMatched /\ StatusAgrees

LEMMA InitAgree == Init => AgreeInv
<1> SUFFICES ASSUME Init PROVE AgreeInv
  OBVIOUS
<1>1. UnboundUntilMatched
  BY DEF Init, UnboundUntilMatched
<1>2. StatusAgrees
  BY DEF Init, StatusAgrees, Agrees, ActiveTrips
<1> QED
  BY <1>1, <1>2, InitTypeOK DEF AgreeInv

(* A step that leaves a driver's trips and status alone, and does not take   *)
(* the driver out of drifted, leaves the driver in agreement.                *)
LEMMA AgreesStays ==
    ASSUME NEW d \in Driver, StatusAgrees, d \notin drifted' => d \notin drifted,
           ActiveTrips(d)' = ActiveTrips(d), driverStatus'[d] = driverStatus[d]
    PROVE  d \notin drifted' => Agrees(d)'
  BY DEF StatusAgrees, Agrees

(* The trip ends: its driver, and no other driver, has one trip less. *)
LEMMA EndedTrip ==
    ASSUME TypeOK, NEW t \in Trip, NEW s, s \notin Lifecycle!Active,
           tripStatus' = [tripStatus EXCEPT ![t] = s], UNCHANGED tripDriver
    PROVE  \A d \in Driver : ActiveTrips(d)' = ActiveTrips(d) \ {t}
  BY DEF TypeOK, ActiveTrips

(* Freeing the driver of an active trip as it ends restores agreement. *)
LEMMA FreeDriverAgrees ==
    ASSUME AgreeInv, NEW h \in Handler, NEW t \in Trip, NEW s, s \notin Lifecycle!Active,
           tripStatus[t] \in Lifecycle!Active, tripDriver[t] \in Driver,
           tripStatus' = [tripStatus EXCEPT ![t] = s], UNCHANGED tripDriver,
           FreeDriver(h, t, tripDriver[t])
    PROVE  StatusAgrees'
<1> DEFINE f == tripDriver[t]
<1>1. \A d \in Driver : ActiveTrips(d)' = ActiveTrips(d) \ {t}
  BY EndedTrip DEF AgreeInv
<1>2. t \in ActiveTrips(f)
  BY DEF ActiveTrips
<1>3. ASSUME f \notin drifted'
      PROVE  Agrees(f)'
  <2>1. ActiveTrips(f) \subseteq {t}
    BY <1>2, <1>3 DEF FreeDriver, AgreeInv, StatusAgrees, Agrees
  <2>2. driverStatus'[f] = "online" /\ ActiveTrips(f)' = {}
    BY <1>1, <2>1 DEF FreeDriver, AgreeInv, TypeOK
  <2> QED
    BY <2>2 DEF Agrees
<1>4. ASSUME NEW d \in Driver, d # f, d \notin drifted'
      PROVE  Agrees(d)'
  <2>1. t \notin ActiveTrips(d)
    BY <1>4 DEF ActiveTrips
  <2>2. ActiveTrips(d)' = ActiveTrips(d)
    BY <1>1, <2>1
  <2>3. driverStatus'[d] = driverStatus[d]
    BY <1>4 DEF FreeDriver, AgreeInv, TypeOK
  <2>4. d \notin drifted
    BY <1>4 DEF FreeDriver
  <2> QED
    BY <1>4, <2>2, <2>3, <2>4, AgreesStays DEF AgreeInv
<1> QED
  BY <1>3, <1>4 DEF StatusAgrees

LEMMA SameTripsSameActive ==
    ASSUME UNCHANGED <<tripStatus, tripDriver>>
    PROVE  \A d \in Driver : ActiveTrips(d)' = ActiveTrips(d)
  BY DEF ActiveTrips

LEMMA ApiAgree == AgreeInv /\ ApiNext => UnboundUntilMatched' /\ StatusAgrees'
<1> SUFFICES ASSUME AgreeInv, ApiNext
             PROVE  UnboundUntilMatched' /\ StatusAgrees'
  OBVIOUS
<1>1. ASSUME NEW t \in Trip, Create(t)
      PROVE  UnboundUntilMatched' /\ StatusAgrees'
  <2>1. \A d \in Driver : ActiveTrips(d)' = ActiveTrips(d)
    BY <1>1 DEF Create, ActiveTrips, AgreeInv, TypeOK
  <2> QED
    BY <1>1, <2>1, AgreesStays
       DEF Create, driverVars, AgreeInv, TypeOK, StatusAgrees, UnboundUntilMatched
<1>2. ASSUME NEW t \in Trip, Start(t)
      PROVE  UnboundUntilMatched' /\ StatusAgrees'
  <2>1. \A d \in Driver : ActiveTrips(d)' = ActiveTrips(d)
    BY <1>2 DEF Start, ActiveTrips, AgreeInv, TypeOK
  <2> QED
    BY <1>2, <2>1, AgreesStays
       DEF Start, driverVars, AgreeInv, TypeOK, StatusAgrees, UnboundUntilMatched
<1>3. ASSUME NEW h \in Handler, NEW t \in Trip,
             NEW to \in {"cancelled_by_rider", "cancelled_by_driver"}, Cancel(h, t, to)
      PROVE  UnboundUntilMatched' /\ StatusAgrees'
  <2>1. UnboundUntilMatched'
    BY <1>3 DEF Cancel, AgreeInv, TypeOK, UnboundUntilMatched
  <2>2. CASE HasDriver(t) /\ FreeDriver(h, t, tripDriver[t])
    <3>1. tripStatus[t] = "matched"
      BY <1>3, <2>2 DEF Cancel, Cancellable, HasDriver, AgreeInv, UnboundUntilMatched
    <3> QED
      BY <1>3, <2>1, <2>2, <3>1, FreeDriverAgrees DEF Cancel, HasDriver
  <2>3. CASE ~HasDriver(t) /\ UNCHANGED driverVars
    <3>1. \A d \in Driver : ActiveTrips(d)' = ActiveTrips(d)
      BY <1>3, <2>3 DEF Cancel, HasDriver, ActiveTrips, AgreeInv, TypeOK
    <3> QED
      BY <2>1, <2>3, <3>1, AgreesStays DEF driverVars, AgreeInv, StatusAgrees
  <2> QED
    BY <1>3, <2>2, <2>3 DEF Cancel
<1>4. ASSUME NEW h \in Handler, NEW t \in Trip, Complete(h, t)
      PROVE  UnboundUntilMatched' /\ StatusAgrees'
  <2>1. UnboundUntilMatched'
    BY <1>4 DEF Complete, AgreeInv, TypeOK, UnboundUntilMatched
  <2>2. StatusAgrees'
    BY <1>4, FreeDriverAgrees DEF Complete, HasDriver
  <2> QED
    BY <2>1, <2>2
<1>5. ASSUME NEW h \in Handler, NEW d \in Driver,
             NEW s \in {"online", "offline", "on_trip"}, SetStatus(h, d, s)
      PROVE  UnboundUntilMatched' /\ StatusAgrees'
  <2>1. UnboundUntilMatched'
    BY <1>5 DEF SetStatus, tripVars, AgreeInv, UnboundUntilMatched
  <2>2. \A e \in Driver : ActiveTrips(e)' = ActiveTrips(e)
    BY <1>5, SameTripsSameActive DEF SetStatus, tripVars
  <2>3. ASSUME d \notin drifted'
        PROVE  Agrees(d)'
    <3>1. driverStatus'[d] = s
      BY <1>5 DEF SetStatus, AgreeInv, TypeOK
    <3>2. (s = "on_trip") <=> (ActiveTrips(d) # {})
      BY <1>5, <2>3 DEF SetStatus
    <3>3. CASE ActiveTrips(d) = {}
      BY <2>2, <3>1, <3>2, <3>3 DEF Agrees
    <3>4. CASE ActiveTrips(d) # {}
      <4>1. d \notin drifted
        BY <1>5, <2>3, <3>2, <3>4 DEF SetStatus
      <4> QED
        BY <2>2, <3>1, <3>2, <3>4, <4>1 DEF AgreeInv, StatusAgrees, Agrees
    <3> QED
      BY <3>3, <3>4
  <2>4. ASSUME NEW e \in Driver, e # d, e \notin drifted'
        PROVE  Agrees(e)'
    <3>1. driverStatus'[e] = driverStatus[e] /\ e \notin drifted
      BY <1>5, <2>4 DEF SetStatus, AgreeInv, TypeOK
    <3> QED
      BY <2>2, <2>4, <3>1, AgreesStays DEF AgreeInv
  <2> QED
    BY <2>1, <2>3, <2>4 DEF StatusAgrees
<1>6. ASSUME NEW t \in Trip, Rate(t)
      PROVE  UnboundUntilMatched' /\ StatusAgrees'
  BY <1>6, SameTripsSameActive, AgreesStays
     DEF Rate, driverVars, AgreeInv, TypeOK, UnboundUntilMatched, StatusAgrees
<1> QED
  BY <1>1, <1>2, <1>3, <1>4, <1>5, <1>6 DEF ApiNext, CancelByRider, CancelByDriver

LEMMA IngestorAgree == AgreeInv /\ IngestorNext => UnboundUntilMatched' /\ StatusAgrees'
<1> SUFFICES ASSUME AgreeInv, IngestorNext
             PROVE  UnboundUntilMatched' /\ StatusAgrees'
  OBVIOUS
<1>1. UnboundUntilMatched' /\ drifted' = drifted
    /\ \A d \in Driver : ActiveTrips(d)' = ActiveTrips(d)
  BY SameTripsSameActive
     DEF IngestorNext, StartPing, CommitPing, tripVars, driverVars, AgreeInv, UnboundUntilMatched
<1>2. ASSUME NEW h \in Handler, NEW d \in Driver, StartPing(h, d)
      PROVE  StatusAgrees'
  BY <1>1, <1>2, AgreesStays DEF StartPing, driverVars, AgreeInv, StatusAgrees
<1>3. ASSUME NEW h \in Handler, CommitPing(h)
      PROVE  StatusAgrees'
  <2>1. PICK d \in Driver : d = job[h].driver
    BY <1>3 DEF AgreeInv, TypeOK, CommitPing
  <2>2. \/ UNCHANGED driverStatus
        \/ /\ driverStatus[d] \in {"online", "offline"}
           /\ driverStatus' = [driverStatus EXCEPT ![d] = "online"]
    BY <1>3, <2>1 DEF CommitPing, IndexAsOnline, AgreeInv, TypeOK
  <2>3. CASE UNCHANGED driverStatus
    BY <1>1, <2>3, AgreesStays DEF AgreeInv, StatusAgrees
  <2>4. CASE /\ driverStatus[d] \in {"online", "offline"}
             /\ driverStatus' = [driverStatus EXCEPT ![d] = "online"]
    <3>1. d \notin drifted => Agrees(d)'
      BY <1>1, <2>1, <2>4 DEF AgreeInv, TypeOK, StatusAgrees, Agrees
    <3>2. \A e \in Driver \ drifted : e # d => Agrees(e)'
      BY <1>1, <2>1, <2>4, AgreesStays DEF AgreeInv, TypeOK
    <3> QED
      BY <1>1, <3>1, <3>2 DEF StatusAgrees
  <2> QED
    BY <2>2, <2>3, <2>4
<1> QED
  BY <1>1, <1>2, <1>3 DEF IngestorNext

LEMMA AssignAgree ==
    ASSUME AgreeInv, NEW m \in Matcher, NEW d \in Driver, Assign(m, d)
    PROVE  UnboundUntilMatched' /\ StatusAgrees'
<1> DEFINE t == matcher[m].trip
<1>1. /\ t \in Trip
      /\ tripStatus[t] = "requested"
      /\ driverStatus[d] = "online"
      /\ tripStatus' = [tripStatus EXCEPT ![t] = "matched"]
      /\ tripDriver' = [tripDriver EXCEPT ![t] = d]
      /\ driverStatus' = [driverStatus EXCEPT ![d] = "on_trip"]
      /\ UNCHANGED drifted
  BY DEF Assign, Assignable, StillRequested, AgreeInv, TypeOK
<1>2. UnboundUntilMatched'
  BY <1>1 DEF AgreeInv, TypeOK, UnboundUntilMatched
<1>3. ASSUME d \notin drifted
      PROVE  Agrees(d)'
  <2>1. ActiveTrips(d) = {}
    BY <1>1, <1>3 DEF AgreeInv, StatusAgrees, Agrees
  <2>2. ActiveTrips(d)' = {t} /\ driverStatus'[d] = "on_trip"
    BY <1>1, <2>1 DEF ActiveTrips, AgreeInv, TypeOK
  <2> QED
    BY <2>2 DEF Agrees
<1>4. ASSUME NEW e \in Driver, e # d, e \notin drifted
      PROVE  Agrees(e)'
  <2>1. ActiveTrips(e)' = ActiveTrips(e) /\ driverStatus'[e] = driverStatus[e]
    BY <1>1, <1>4 DEF ActiveTrips, AgreeInv, TypeOK
  <2> QED
    BY <1>1, <1>4, <2>1, AgreesStays DEF AgreeInv
<1> QED
  BY <1>1, <1>2, <1>3, <1>4 DEF StatusAgrees

LEMMA MatcherAgree == AgreeInv /\ MatcherNext => UnboundUntilMatched' /\ StatusAgrees'
<1> SUFFICES ASSUME AgreeInv, NEW m \in Matcher,
                    \/ UNCHANGED <<tripVars, driverVars>>
                    \/ \E d \in Driver : Assign(m, d)
             PROVE  UnboundUntilMatched' /\ StatusAgrees'
  BY DEF MatcherNext, Deliver, FindNobody, RejectDriver, TripTaken, RemoveFromIndex, AbortScan
<1>1. CASE UNCHANGED <<tripVars, driverVars>>
  BY <1>1, SameTripsSameActive, AgreesStays
     DEF tripVars, driverVars, AgreeInv, UnboundUntilMatched, StatusAgrees
<1> QED
  BY <1>1, AssignAgree

LEMMA NextAgree == AgreeInv /\ [Next]_vars => AgreeInv'
<1> SUFFICES ASSUME AgreeInv, [Next]_vars
             PROVE  UnboundUntilMatched' /\ StatusAgrees'
  BY NextTypeOK DEF AgreeInv
<1>1. ASSUME UNCHANGED <<tripVars, driverVars>>
      PROVE  UnboundUntilMatched' /\ StatusAgrees'
  BY <1>1, SameTripsSameActive, AgreesStays
     DEF tripVars, driverVars, AgreeInv, UnboundUntilMatched, StatusAgrees
<1>2. ASSUME NEW d \in Driver, Suspend(d)
      PROVE  UnboundUntilMatched' /\ StatusAgrees'
  <2>1. UnboundUntilMatched' /\ \A e \in Driver : ActiveTrips(e)' = ActiveTrips(e)
    BY <1>2, SameTripsSameActive DEF Suspend, tripVars, AgreeInv, UnboundUntilMatched
  <2>2. driverStatus'[d] = "suspended" /\ \A e \in Driver \ {d} : driverStatus'[e] = driverStatus[e]
    BY <1>2 DEF Suspend, AgreeInv, TypeOK
  <2>3. d \notin drifted => Agrees(d)'
    BY <2>1, <2>2 DEF AgreeInv, StatusAgrees, Agrees
  <2>4. \A e \in Driver \ {d} : e \notin drifted => Agrees(e)'
    BY <1>2, <2>1, <2>2, AgreesStays DEF Suspend, AgreeInv
  <2> QED
    BY <1>2, <2>1, <2>3, <2>4 DEF Suspend, StatusAgrees
<1>3. ASSUME NEW h \in Handler, UpdateIndex(h) \/ DropRequest(h)
      PROVE  UNCHANGED <<tripVars, driverVars>>
  BY <1>3 DEF UpdateIndex, DropRequest
<1>4. CASE UNCHANGED vars
  BY <1>1, <1>4 DEF vars
<1> QED
  BY <1>1, <1>2, <1>3, <1>4, ApiAgree, IngestorAgree, MatcherAgree DEF Next

LEMMA AlwaysAgree == Spec => []AgreeInv
<1>1. Init => AgreeInv
  BY InitAgree
<1>2. AgreeInv /\ [Next]_vars => AgreeInv'
  BY NextAgree
<1> QED
  BY <1>1, <1>2, PTL DEF Spec

(* However many replicas, drivers and trips there are, and whatever the      *)
(* order of their transactions: a driver whose status nobody set by hand     *)
(* against the trips holds at most one trip, and holds one exactly while     *)
(* the status says so.                                                       *)
THEOREM NoDoubleBooking == Spec => []StatusAgrees
<1>1. AgreeInv => StatusAgrees
  BY DEF AgreeInv
<1> QED
  BY <1>1, AlwaysAgree, PTL

-----------------------------------------------------------------------------
(* The audit: what trip_events tells of a trip. *)

LEMMA AppendIs ==
    ASSUME NEW S, NEW s \in Seq(S), NEW e \in S, NEW x \in Seq(S),
           Len(x) = Len(s) + 1, \A i \in 1 .. Len(s) : x[i] = s[i], x[Len(s) + 1] = e
    PROVE  Append(s, e) = x
<1>1. /\ Append(s, e) \in Seq(S)
      /\ Len(Append(s, e)) = Len(x)
      /\ \A i \in 1 .. Len(x) : Append(s, e)[i] = x[i]
  BY AppendProperties
<1> QED
  BY <1>1, SeqEqual

LEMMA Histories ==
    /\ Append(<<>>, "requested") = <<"requested">>
    /\ Append(<<"requested">>, "matched") = <<"requested", "matched">>
    /\ Append(<<"requested">>, "cancelled") = <<"requested", "cancelled">>
    /\ Append(<<"requested", "matched">>, "started") = <<"requested", "matched", "started">>
    /\ Append(<<"requested", "matched">>, "cancelled") = <<"requested", "matched", "cancelled">>
    /\ Append(<<"requested", "matched", "started">>, "completed")
         = Driven
    /\ Append(Driven, "rated") = Rated
<1>1. \A e \in EventType : Append(<<>>, e) = <<e>>
  BY AppendIs
<1>2. \A a, e \in EventType : Append(<<a>>, e) = <<a, e>>
  <2> TAKE a, e \in EventType
  <2> DEFINE s == <<a>>
             x == <<a, e>>
  <2>1. /\ s \in Seq(EventType) /\ x \in Seq(EventType)
        /\ Len(x) = Len(s) + 1
        /\ \A i \in 1 .. Len(s) : x[i] = s[i]
        /\ x[Len(s) + 1] = e
    OBVIOUS
  <2> HIDE DEF s, x
  <2>2. Append(s, e) = x
    BY <2>1, AppendIs
  <2> QED
    BY <2>2 DEF s, x
<1>3. \A a, b, e \in EventType : Append(<<a, b>>, e) = <<a, b, e>>
  <2> TAKE a, b, e \in EventType
  <2> DEFINE s == <<a, b>>
             x == <<a, b, e>>
  <2>1. /\ s \in Seq(EventType) /\ x \in Seq(EventType)
        /\ Len(x) = Len(s) + 1
        /\ \A i \in 1 .. Len(s) : x[i] = s[i]
        /\ x[Len(s) + 1] = e
    OBVIOUS
  <2> HIDE DEF s, x
  <2>2. Append(s, e) = x
    BY <2>1, AppendIs
  <2> QED
    BY <2>2 DEF s, x
<1>4. \A a, b, c, e \in EventType : Append(<<a, b, c>>, e) = <<a, b, c, e>>
  <2> TAKE a, b, c, e \in EventType
  <2> DEFINE s == <<a, b, c>>
             x == <<a, b, c, e>>
  <2>1. /\ s \in Seq(EventType) /\ x \in Seq(EventType)
        /\ Len(x) = Len(s) + 1
        /\ \A i \in 1 .. Len(s) : x[i] = s[i]
        /\ x[Len(s) + 1] = e
    OBVIOUS
  <2> HIDE DEF s, x
  <2>2. Append(s, e) = x
    BY <2>1, AppendIs
  <2> QED
    BY <2>2 DEF s, x
<1>5. Append(Driven, "rated") = Rated
  <2>1. /\ Driven \in Seq(EventType) /\ Rated \in Seq(EventType) /\ "rated" \in EventType
        /\ Len(Rated) = Len(Driven) + 1
        /\ \A i \in 1 .. Len(Driven) : Rated[i] = Driven[i]
        /\ Rated[Len(Driven) + 1] = "rated"
    BY DEF Driven, Rated
  <2> QED
    BY <2>1, AppendIs
<1>6. {"requested", "matched", "started", "completed", "cancelled", "rated"} = EventType
  BY DEF EventType
<1>7. Append(<<"requested", "matched", "started">>, "completed") = Driven
  BY <1>4, <1>6 DEF Driven
<1> QED
  BY <1>1, <1>2, <1>3, <1>5, <1>6, <1>7

(* Where trip t stands: its row, its events, its fare and its rating.        *)
Stands(t, status, history, bound, settled, rated) ==
    /\ tripStatus[t] = status
    /\ events[t] = history
    /\ tripDriver[t] # NoDriver <=> bound
    /\ t \in fares <=> settled
    /\ t \in ratings <=> rated

Standing(t) ==
    \/ Stands(t, "none", <<>>, FALSE, FALSE, FALSE)
    \/ Stands(t, "requested", <<"requested">>, FALSE, FALSE, FALSE)
    \/ Stands(t, "matched", <<"requested", "matched">>, TRUE, FALSE, FALSE)
    \/ Stands(t, "in_progress", <<"requested", "matched", "started">>, TRUE, FALSE, FALSE)
    \/ Stands(t, "completed", Driven, TRUE, TRUE, FALSE)
    \/ Stands(t, "completed", Rated, TRUE, TRUE, TRUE)
    \/ \E by \in {"cancelled_by_rider", "cancelled_by_driver"} :
          \/ Stands(t, by, <<"requested", "cancelled">>, FALSE, FALSE, FALSE)
          \/ Stands(t, by, <<"requested", "matched", "cancelled">>, TRUE, FALSE, FALSE)

AuditInv == TypeOK /\ \A t \in Trip : Standing(t)

LEMMA InitAudit == Init => AuditInv
<1> SUFFICES ASSUME Init
             PROVE  \A t \in Trip : Standing(t)
  BY InitTypeOK DEF AuditInv
<1>1. \A t \in Trip : Stands(t, "none", <<>>, FALSE, FALSE, FALSE)
  BY DEF Init, Stands
<1> QED
  BY <1>1 DEF Standing

(* A transaction that writes the row, the events and the fare of one trip    *)
(* leaves those of the others as they are.                                   *)
OneTrip(t) ==
    \A u \in Trip \ {t} : /\ tripStatus'[u] = tripStatus[u]
                          /\ tripDriver'[u] = tripDriver[u]
                          /\ events'[u] = events[u]
                          /\ u \in fares' <=> u \in fares
                          /\ u \in ratings' <=> u \in ratings

LEMMA OthersStand ==
    ASSUME AuditInv, NEW t \in Trip, OneTrip(t), Standing(t)'
    PROVE  \A u \in Trip : Standing(u)'
<1> SUFFICES ASSUME NEW u \in Trip, u # t
             PROVE  Standing(u)'
  OBVIOUS
<1>1. Standing(u)
  BY DEF AuditInv
<1>2. /\ tripStatus'[u] = tripStatus[u]
      /\ tripDriver'[u] = tripDriver[u]
      /\ events'[u] = events[u]
      /\ u \in fares' <=> u \in fares
      /\ u \in ratings' <=> u \in ratings
  BY DEF OneTrip
<1> QED
  BY <1>1, <1>2 DEF Standing, Stands

LEMMA AuditStays ==
    ASSUME AuditInv, UNCHANGED tripVars
    PROVE  \A t \in Trip : Standing(t)'
  BY DEF AuditInv, tripVars, Standing, Stands

LEMMA RecordOne ==
    ASSUME NEW t \in Trip, NEW e, Record(t, e), TypeOK
    PROVE  /\ events'[t] = Append(events[t], e)
           /\ \A u \in Trip \ {t} : events'[u] = events[u]
  BY DEF Record, TypeOK

LEMMA CreateAudit ==
    ASSUME AuditInv, NEW t \in Trip, Create(t)
    PROVE  \A u \in Trip : Standing(u)'
<1>1. /\ tripStatus'[t] = "requested"
      /\ events'[t] = Append(events[t], "requested")
      /\ UNCHANGED <<tripDriver, fares, ratings>>
      /\ OneTrip(t)
  BY RecordOne DEF Create, AuditInv, TypeOK, OneTrip
<1>2. Stands(t, "none", <<>>, FALSE, FALSE, FALSE)
  BY DEF Create, AuditInv, Standing, Stands
<1>3. Stands(t, "requested", <<"requested">>, FALSE, FALSE, FALSE)'
  BY <1>1, <1>2, Histories DEF Stands
<1> QED
  BY <1>1, <1>3, OthersStand DEF Standing

LEMMA StartAudit ==
    ASSUME AuditInv, NEW t \in Trip, Start(t)
    PROVE  \A u \in Trip : Standing(u)'
<1>1. /\ tripStatus'[t] = "in_progress"
      /\ events'[t] = Append(events[t], "started")
      /\ UNCHANGED <<tripDriver, fares, ratings>>
      /\ OneTrip(t)
  BY RecordOne DEF Start, AuditInv, TypeOK, OneTrip
<1>2. Stands(t, "matched", <<"requested", "matched">>, TRUE, FALSE, FALSE)
  BY DEF Start, AuditInv, Standing, Stands
<1>3. Stands(t, "in_progress", <<"requested", "matched", "started">>, TRUE, FALSE, FALSE)'
  BY <1>1, <1>2, Histories DEF Stands
<1> QED
  BY <1>1, <1>3, OthersStand DEF Standing

LEMMA CompleteAudit ==
    ASSUME AuditInv, NEW h \in Handler, NEW t \in Trip, Complete(h, t)
    PROVE  \A u \in Trip : Standing(u)'
<1>1. /\ tripStatus'[t] = "completed"
      /\ events'[t] = Append(events[t], "completed")
      /\ fares' = fares \cup {t}
      /\ UNCHANGED <<tripDriver, ratings>>
      /\ OneTrip(t)
  BY RecordOne DEF Complete, AuditInv, TypeOK, OneTrip
<1>2. Stands(t, "in_progress", <<"requested", "matched", "started">>, TRUE, FALSE, FALSE)
  BY DEF Complete, AuditInv, Standing, Stands
<1>3. Stands(t, "completed", Driven, TRUE, TRUE, FALSE)'
  BY <1>1, <1>2, Histories DEF Stands
<1> QED
  BY <1>1, <1>3, OthersStand DEF Standing

LEMMA RateAudit ==
    ASSUME AuditInv, NEW t \in Trip, Rate(t)
    PROVE  \A u \in Trip : Standing(u)'
<1>1. /\ tripStatus'[t] = "completed"
      /\ events'[t] = Append(events[t], "rated")
      /\ ratings' = ratings \cup {t}
      /\ UNCHANGED <<tripDriver, fares>>
      /\ OneTrip(t)
  BY RecordOne DEF Rate, AuditInv, TypeOK, OneTrip
<1>2. Stands(t, "completed", Driven, TRUE, TRUE, FALSE)
  BY DEF Rate, AuditInv, Standing, Stands
<1>3. Stands(t, "completed", Rated, TRUE, TRUE, TRUE)'
  BY <1>1, <1>2, Histories DEF Stands
<1> QED
  BY <1>1, <1>3, OthersStand DEF Standing

(* A trip is cancelled before it has a driver or after: the events tell      *)
(* which.                                                                    *)
LEMMA CancelAudit ==
    ASSUME AuditInv, NEW h \in Handler, NEW t \in Trip,
           NEW by \in {"cancelled_by_rider", "cancelled_by_driver"}, Cancel(h, t, by)
    PROVE  \A u \in Trip : Standing(u)'
<1>1. /\ tripStatus'[t] = by
      /\ events'[t] = Append(events[t], "cancelled")
      /\ UNCHANGED <<tripDriver, fares, ratings>>
      /\ OneTrip(t)
  BY RecordOne DEF Cancel, AuditInv, TypeOK, OneTrip
<1>2. \/ Stands(t, "requested", <<"requested">>, FALSE, FALSE, FALSE)
      \/ Stands(t, "matched", <<"requested", "matched">>, TRUE, FALSE, FALSE)
  BY DEF Cancel, Cancellable, AuditInv, Standing, Stands
<1>3. \/ Stands(t, by, <<"requested", "cancelled">>, FALSE, FALSE, FALSE)'
      \/ Stands(t, by, <<"requested", "matched", "cancelled">>, TRUE, FALSE, FALSE)'
  BY <1>1, <1>2, Histories DEF Stands
<1> QED
  BY <1>1, <1>3, OthersStand DEF Standing

LEMMA AssignAudit ==
    ASSUME AuditInv, NEW m \in Matcher, NEW d \in Driver, Assign(m, d)
    PROVE  \A u \in Trip : Standing(u)'
<1>1. PICK t \in Trip : t = matcher[m].trip
  BY DEF Assign, AuditInv, TypeOK
<1>2. /\ tripStatus'[t] = "matched"
      /\ tripDriver'[t] = d
      /\ events'[t] = Append(events[t], "matched")
      /\ UNCHANGED <<fares, ratings>>
      /\ OneTrip(t)
  BY <1>1, RecordOne DEF Assign, AuditInv, TypeOK, OneTrip
<1>3. Stands(t, "requested", <<"requested">>, FALSE, FALSE, FALSE)
  BY <1>1 DEF Assign, StillRequested, AuditInv, Standing, Stands
<1>4. Stands(t, "matched", <<"requested", "matched">>, TRUE, FALSE, FALSE)'
  BY <1>2, <1>3, Histories DEF Stands
<1> QED
  BY <1>1, <1>2, <1>4, OthersStand DEF Standing

(* Every other step leaves the rows of trips, their events, their fares and  *)
(* their ratings alone.                                                      *)
LEMMA OnlyTripSteps ==
    ASSUME [Next]_vars
    PROVE  \/ \E t \in Trip : Create(t) \/ Start(t) \/ Rate(t)
           \/ \E h \in Handler, t \in Trip :
                 CancelByRider(h, t) \/ CancelByDriver(h, t) \/ Complete(h, t)
           \/ \E m \in Matcher, d \in Driver : Assign(m, d)
           \/ UNCHANGED tripVars
<1>1. ASSUME \/ \E h \in Handler, d \in Driver, s \in {"online", "offline", "on_trip"} :
                    SetStatus(h, d, s)
             \/ IngestorNext
             \/ \E h \in Handler : UpdateIndex(h) \/ DropRequest(h)
             \/ \E d \in Driver : Suspend(d)
             \/ UNCHANGED vars
      PROVE  UNCHANGED tripVars
  BY <1>1 DEF SetStatus, IngestorNext, StartPing, CommitPing, UpdateIndex, DropRequest,
              Suspend, vars
<1>2. ASSUME NEW m \in Matcher,
             \/ \E t \in Trip : Deliver(m, t) \/ FindNobody(m, t)
             \/ \E d \in Driver : RejectDriver(m, d) \/ TripTaken(m, d)
             \/ RemoveFromIndex(m) \/ AbortScan(m)
      PROVE  UNCHANGED tripVars
  BY <1>2 DEF Deliver, FindNobody, RejectDriver, TripTaken, RemoveFromIndex, AbortScan
<1> QED
  BY <1>1, <1>2 DEF Next, ApiNext, MatcherNext

LEMMA NextAudit == AuditInv /\ [Next]_vars => AuditInv'
<1> SUFFICES ASSUME AuditInv, [Next]_vars
             PROVE  \A t \in Trip : Standing(t)'
  BY NextTypeOK DEF AuditInv
<1>1. CASE \E t \in Trip : Create(t) \/ Start(t) \/ Rate(t)
  BY <1>1, CreateAudit, StartAudit, RateAudit
<1>2. CASE \E h \in Handler, t \in Trip :
              CancelByRider(h, t) \/ CancelByDriver(h, t) \/ Complete(h, t)
  BY <1>2, CancelAudit, CompleteAudit DEF CancelByRider, CancelByDriver
<1>3. CASE \E m \in Matcher, d \in Driver : Assign(m, d)
  BY <1>3, AssignAudit
<1>4. CASE UNCHANGED tripVars
  BY <1>4, AuditStays
<1> QED
  BY <1>1, <1>2, <1>3, <1>4, OnlyTripSteps

(* From the events of a trip alone one can tell its status, whether it has   *)
(* a driver, whether its fare is settled and whether it is rated, for any    *)
(* number of trips and replicas: the event is written in the transaction     *)
(* that writes the rows.                                                     *)
THEOREM AuditComplete == Spec => []AuditTellsAll
<1>1. AuditInv => AuditTellsAll
  <2> SUFFICES ASSUME NEW t \in Trip, Standing(t)
               PROVE  AuditTellsAll!(t)
    BY DEF AuditInv, AuditTellsAll
  <2> DEFINE none      == <<>>
             requested == <<"requested">>
             matched   == <<"requested", "matched">>
             started   == <<"requested", "matched", "started">>
             early     == <<"requested", "cancelled">>
             late      == <<"requested", "matched", "cancelled">>
  <2>1. /\ none \notin {requested, matched, started, Driven, Rated, early, late}
        /\ requested \notin {matched, started, Driven, Rated, early, late}
        /\ matched \notin {started, Driven, Rated, early, late}
        /\ started \notin {Driven, Rated, early, late}
        /\ Driven \notin {Rated, early, late}
        /\ Rated \notin {early, late}
    BY DEF Driven, Rated
  <2>2. \/ Stands(t, "none", none, FALSE, FALSE, FALSE)
        \/ Stands(t, "requested", requested, FALSE, FALSE, FALSE)
        \/ Stands(t, "matched", matched, TRUE, FALSE, FALSE)
        \/ Stands(t, "in_progress", started, TRUE, FALSE, FALSE)
        \/ Stands(t, "completed", Driven, TRUE, TRUE, FALSE)
        \/ Stands(t, "completed", Rated, TRUE, TRUE, TRUE)
        \/ \E by \in {"cancelled_by_rider", "cancelled_by_driver"} :
              \/ Stands(t, by, early, FALSE, FALSE, FALSE)
              \/ Stands(t, by, late, TRUE, FALSE, FALSE)
    BY DEF Standing
  <2> HIDE DEF none, requested, matched, started, early, late
  <2>3. /\ Audit(t, {"none"}, {none}, FALSE, FALSE)
        /\ Audit(t, {"requested"}, {requested}, FALSE, FALSE)
        /\ Audit(t, {"matched"}, {matched}, TRUE, FALSE)
        /\ Audit(t, {"in_progress"}, {started}, TRUE, FALSE)
        /\ Audit(t, {"completed"}, {Driven, Rated}, TRUE, TRUE)
        /\ tripStatus[t] \in {"cancelled_by_rider", "cancelled_by_driver"}
              <=> events[t] \in {early, late}
        /\ t \in ratings <=> events[t] = Rated
    BY <2>1, <2>2 DEF Stands, Audit
  <2> QED
    BY <2>3 DEF none, requested, matched, started, early, late
<1>2. Init => AuditInv
  BY InitAudit
<1>3. AuditInv /\ [Next]_vars => AuditInv'
  BY NextAudit
<1> QED
  BY <1>1, <1>2, <1>3, PTL DEF Spec

-----------------------------------------------------------------------------
(* Refinement. *)

LEMMA CancelRefines ==
    ASSUME AgreeInv, NEW h \in Handler, NEW t \in Trip,
           CancelByRider(h, t) \/ CancelByDriver(h, t)
    PROVE  Lifecycle!CancelByRider(t) \/ Lifecycle!CancelByDriver(t)
  BY DEF CancelByRider, CancelByDriver, Cancel, Cancellable, HasDriver, AgreeInv,
         UnboundUntilMatched, Lifecycle!CancelByRider, Lifecycle!CancelByDriver, Lifecycle!Move

LEMMA AssignRefines ==
    ASSUME AgreeInv, NEW m \in Matcher, NEW d \in Driver, Assign(m, d)
    PROVE  Lifecycle!Match(matcher[m].trip, d) /\ matcher[m].trip \in Trip
  BY DEF Assign, StillRequested, AgreeInv, TypeOK, UnboundUntilMatched,
         Lifecycle!Match, Lifecycle!Move

LEMMA StepRefines == AgreeInv /\ [Next]_vars => [Lifecycle!Next]_(Lifecycle!lifecycleVars)
<1> SUFFICES ASSUME AgreeInv, [Next]_vars
             PROVE  Lifecycle!Next \/ UNCHANGED <<tripStatus, tripDriver>>
  BY DEF Lifecycle!lifecycleVars
<1>1. ASSUME NEW t \in Trip, Create(t)
      PROVE  Lifecycle!Next
  BY <1>1 DEF Create, Lifecycle!Next, Lifecycle!Request, Lifecycle!Move
<1>2. ASSUME NEW t \in Trip, Start(t)
      PROVE  Lifecycle!Next
  BY <1>2 DEF Start, HasDriver, Lifecycle!Next, Lifecycle!Start, Lifecycle!Move
<1>3. ASSUME NEW h \in Handler, NEW t \in Trip, Complete(h, t)
      PROVE  Lifecycle!Next
  BY <1>3 DEF Complete, HasDriver, Lifecycle!Next, Lifecycle!Complete, Lifecycle!Move
<1>4. ASSUME NEW h \in Handler, NEW t \in Trip, CancelByRider(h, t) \/ CancelByDriver(h, t)
      PROVE  Lifecycle!Next
  BY <1>4, CancelRefines DEF Lifecycle!Next
<1>5. ASSUME NEW m \in Matcher, NEW d \in Driver, Assign(m, d)
      PROVE  Lifecycle!Next
  BY <1>5, AssignRefines DEF Lifecycle!Next
<1>6. ASSUME NEW t \in Trip, Rate(t)
      PROVE  UNCHANGED <<tripStatus, tripDriver>>
  BY <1>6 DEF Rate
<1>7. UNCHANGED tripVars => UNCHANGED <<tripStatus, tripDriver>>
  BY DEF tripVars
<1> QED
  BY <1>1, <1>2, <1>3, <1>4, <1>5, <1>6, <1>7, OnlyTripSteps

(* Dispatch implements the abstract trip: its first state is the abstract    *)
(* one's, and every commit is one abstract transition of one trip, or none.  *)
THEOREM Refinement == Spec => ImplementsLifecycle
<1>1. Init => Lifecycle!Init
  BY DEF Init, Lifecycle!Init
<1> QED
  BY <1>1, StepRefines, AlwaysAgree, PTL DEF Spec, ImplementsLifecycle, Lifecycle!Spec

=============================================================================
