-------------------------- MODULE RiderPageProofs --------------------------
(***************************************************************************)
(* Theorems about RiderPage, for any number of trips, of requests under    *)
(* way and of faults.                                                      *)
(***************************************************************************)
EXTENDS RiderPage, TLAPS

\* What the events tell of the statuses, and the other way round.
LogTells ==
    /\ \A t \in Trip :
          /\ tripStatus[t] = "matched" => [trip |-> t, kind |-> "matched"] \in recorded
          /\ tripStatus[t] = "in_progress" => [trip |-> t, kind |-> "started"] \in recorded
          /\ tripStatus[t] \in Terminal => [trip |-> t, kind |-> tripStatus[t]] \in recorded
    /\ \A e \in recorded : e.kind \in Ends => tripStatus[e.trip] = e.kind

\* What the page holds is about its trip, which exists.
PageIsAbout ==
    /\ tripId = NoTrip => sub = "none"
    /\ tripId # NoTrip => tripStatus[tripId] # "none"
    /\ \A k \in DOMAIN wire : tripId # NoTrip /\ [trip |-> tripId, kind |-> wire[k]] \in recorded
    /\ \A k \in DOMAIN inbox :
          tripId # NoTrip /\ [trip |-> tripId, kind |-> inbox[k]] \in recorded

\* What a request under way, and its answer, tell.
CreateTells(i) ==
    call[i].kind = "create" =>
        /\ IF call[i].deaf THEN astray ELSE tripId = NoTrip
        /\ IF call[i].answer = "pending"
           THEN call[i].trip = NoTrip
           ELSE call[i].trip # NoTrip /\ tripStatus[call[i].trip] # "none"

CancelTells(i) ==
    call[i].kind = "cancel" =>
        /\ call[i].trip # NoTrip
        /\ call[i].answer = "ok" => tripStatus[call[i].trip] \in Terminal

ReadTells(i) ==
    call[i].kind \in {"restore", "refresh"} =>
        /\ call[i].trip # NoTrip /\ tripStatus[call[i].trip] # "none"
        /\ call[i].kind = "restore" => call[i].trip = tripId
        /\ \/ call[i].answer = "pending"
           \/ call[i].answer \in Live \cup Terminal /\ Happened(call[i].trip, call[i].answer)

CallsTell ==
    /\ \A i \in Call : CreateTells(i) /\ CancelTells(i) /\ ReadTells(i)
    /\ \A i, j \in Call :
          (call[i].kind = "create" /\ ~call[i].deaf /\ call[j].kind = "create" /\ ~call[j].deaf)
              => i = j

IInv ==
    /\ TypeOK /\ LogTells /\ PageIsAbout /\ CallsTell
    /\ LiveTripOnPage /\ ShownHasHappened /\ EndIsUnderWay

----------------------------------------------------------------------------
(***************************************************************************)
(* What a step keeps as long as it leaves something alone.                 *)
(***************************************************************************)
\* The server does not take anything back.
Grows ==
    /\ recorded \subseteq recorded'
    /\ \A t \in Trip :
          /\ tripStatus[t] # "none" => tripStatus'[t] # "none"
          /\ tripStatus[t] \in Terminal => tripStatus'[t] = tripStatus[t]

LEMMA UnchangedGrows == server' = server => Grows
BY DEF Grows, server

LEMMA LogStays ==
    ASSUME LogTells, server' = server
    PROVE  LogTells'
BY DEF LogTells, server

LEMMA PageStays ==
    ASSUME IInv, Grows, UNCHANGED <<tripId, active, sub, wire, inbox>>
    PROVE  PageIsAbout' /\ ShownHasHappened'
<1>1. PageIsAbout'
  BY DEF IInv, TypeOK, Grows, PageIsAbout
<1>2. ASSUME active' # NoView, active'.trip = tripId'
      PROVE  Happened(tripId, active.status)'
  <2>1. active # NoView /\ active.trip = tripId
    BY <1>2
  <2>2. tripId \in Trip /\ Happened(tripId, active.status)
    BY <2>1 DEF IInv, TypeOK, ShownHasHappened, NoView
  <2> QED
    BY <2>2 DEF Happened, Grows
<1> QED
  BY <1>1, <1>2 DEF ShownHasHappened

Tells(i) == CreateTells(i) /\ CancelTells(i) /\ ReadTells(i)

\* A request that a step leaves alone tells what it told, if the trip of the
\* page stays.
LEMMA CallStays ==
    ASSUME IInv, Grows, NEW i \in Call, call'[i] = call[i],
           tripId' = tripId, astray => astray'
    PROVE  Tells(i)'
<1>1. call[i] \in CallRecord /\ Tells(i)
  BY DEF IInv, TypeOK, CallsTell, Tells
<1>2. CreateTells(i)'
  BY <1>1 DEF Tells, CreateTells, CallRecord, Grows
<1>3. CancelTells(i)'
  BY <1>1 DEF Tells, CancelTells, CallRecord, Grows
<1>4. ReadTells(i)'
  BY <1>1 DEF Tells, ReadTells, Happened, CallRecord, Grows
<1> QED
  BY <1>2, <1>3, <1>4 DEF Tells

\* A request that is over tells nothing.
LEMMA FreeTells == ASSUME NEW i \in Call, call'[i] = FreeCall PROVE Tells(i)'
BY DEF FreeCall, Tells, CreateTells, CancelTells, ReadTells

Asking(i) == call[i].kind = "create" /\ ~call[i].deaf

LEMMA CallsStay ==
    ASSUME CallsTell, \A i \in Call : Tells(i)', \A i \in Call : Asking(i)' => Asking(i)
    PROVE  CallsTell'
BY DEF CallsTell, Tells, Asking

LEMMA LiveTripStays ==
    ASSUME IInv, astray => astray',
           \A t \in Trip : tripStatus'[t] \in Live => tripStatus[t] \in Live,
           \A t \in Trip : ~astray' /\ tripStatus'[t] \in Live /\ tripId = t => tripId' = t,
           \A i \in Call : ~astray' /\ call[i].kind = "create"
                               => call'[i].kind = "create" /\ call'[i].trip = call[i].trip
    PROVE  LiveTripOnPage'
<1> SUFFICES ASSUME ~astray', NEW t \in Trip, tripStatus'[t] \in Live,
                    tripId' # t
             PROVE  \E i \in Call : call'[i].kind = "create" /\ call'[i].trip = t
  BY DEF LiveTripOnPage
<1>1. ~astray /\ tripStatus[t] \in Live /\ tripId # t
  OBVIOUS
<1>2. PICK i \in Call : call[i].kind = "create" /\ call[i].trip = t
  BY <1>1 DEF IInv, LiveTripOnPage
<1> QED
  BY <1>2

LEMMA EndStays ==
    ASSUME IInv, UNCHANGED <<recorded, fanned, tripId, sub, before, wire, inbox>>,
           \A t \in Trip : tripStatus'[t] \in Terminal => tripStatus[t] \in Terminal
    PROVE  EndIsUnderWay'
<1> SUFFICES ASSUME sub = "joined", tripStatus'[tripId] \in Terminal, before \cap Ends = {}
             PROVE  \/ \E e \in recorded \ fanned : e.trip = tripId /\ e.kind \in Ends
                    \/ \E k \in DOMAIN wire : wire[k] \in Ends
                    \/ \E k \in DOMAIN inbox : inbox[k] \in Ends
  BY DEF EndIsUnderWay
<1>1. tripId \in Trip
  BY DEF IInv, TypeOK, PageIsAbout
<1> QED
  BY <1>1 DEF IInv, EndIsUnderWay

\* A step of one request.
LEMMA SetCall ==
    ASSUME IInv, NEW i \in Call, NEW r \in CallRecord, call' = [call EXCEPT ![i] = r]
    PROVE  /\ call' \in [Call -> CallRecord]
           /\ call'[i] = r
           /\ \A j \in Call : j # i => call'[j] = call[j]
BY DEF IInv, TypeOK

\* A trip that is asked for exists.
LEMMA TripOfCall ==
    ASSUME IInv, NEW i \in Call, call[i].kind \in {"cancel", "restore", "refresh"}
    PROVE  call[i].trip \in Trip
<1>1. call[i] \in CallRecord
  BY DEF IInv, TypeOK
<1>2. call[i].trip # NoTrip
  BY DEF IInv, CallsTell, CancelTells, ReadTells
<1> QED
  BY <1>1, <1>2 DEF CallRecord

LEMMA CallTypes ==
    /\ FreeCall \in CallRecord
    /\ \A kind \in {"create", "cancel", "restore", "refresh"}, t \in Trip \cup {NoTrip} :
          NewCall(kind, t) \in CallRecord
BY DEF NewCall, FreeCall, CallRecord

----------------------------------------------------------------------------
(***************************************************************************)
(* The server's steps.                                                     *)
(***************************************************************************)
\* A trip moves on, and the event of it is recorded.  Its end is not forwarded yet.
Moves(t, status, kind) ==
    /\ Record(t, status, kind)
    /\ tripStatus[t] \in Live
    /\ \/ status = "matched" /\ kind = "matched"
       \/ status = "in_progress" /\ kind = "started"
       \/ status \in Terminal /\ kind = status

LEMMA MovesGrows ==
    ASSUME IInv, NEW t \in Trip, NEW status, NEW kind, Moves(t, status, kind)
    PROVE  /\ Grows
           /\ tripStatus' \in [Trip -> TripStatus]
           /\ recorded' \in SUBSET Event
           /\ fanned \in SUBSET recorded'
           /\ \A u \in Trip : tripStatus'[u] \in Live => tripStatus[u] \in Live
<1> USE DEF Moves, Record, IInv, TypeOK, Live, Terminal
<1>1. status \in TripStatus /\ [trip |-> t, kind |-> kind] \in Event
  BY DEF TripStatus, Event, Kind
<1>2. tripStatus' \in [Trip -> TripStatus] /\ recorded' \in SUBSET Event
  BY <1>1
<1>3. Grows
  BY DEF Grows
<1> QED
  BY <1>2, <1>3

LEMMA MovesTells ==
    ASSUME IInv, NEW t \in Trip, NEW status, NEW kind, Moves(t, status, kind)
    PROVE  LogTells'
<1> USE DEF Moves, Record, IInv, TypeOK, Live, Terminal
<1> DEFINE new == [trip |-> t, kind |-> kind]
<1>1. ASSUME NEW u \in Trip
      PROVE  /\ tripStatus'[u] = "matched" => [trip |-> u, kind |-> "matched"] \in recorded'
             /\ tripStatus'[u] = "in_progress" => [trip |-> u, kind |-> "started"] \in recorded'
             /\ tripStatus'[u] \in Terminal => [trip |-> u, kind |-> tripStatus'[u]] \in recorded'
  <2>1. CASE u = t
    <3>1. tripStatus'[u] = status
      BY <2>1
    <3>2. new \in recorded'
      OBVIOUS
    <3> QED
      BY <2>1, <3>1, <3>2
  <2>2. CASE u # t
    BY <2>2 DEF LogTells
  <2> QED
    BY <2>1, <2>2
<1>2. ASSUME NEW e \in recorded', e.kind \in Ends
      PROVE  tripStatus'[e.trip] = e.kind
  <2>1. CASE e \in recorded
    <3>1. tripStatus[e.trip] = e.kind /\ e.trip \in Trip
      BY <1>2, <2>1 DEF LogTells, Event
    <3>2. e.trip # t
      BY <1>2, <3>1 DEF Ends
    <3> QED
      BY <3>1, <3>2
  <2>2. CASE e = new
    BY <1>2, <2>2 DEF Ends
  <2> QED
    BY <2>1, <2>2
<1> QED
  BY <1>1, <1>2 DEF LogTells

LEMMA MovesEnds ==
    ASSUME IInv, NEW t \in Trip, NEW status, NEW kind, Moves(t, status, kind),
           UNCHANGED <<fanned, page>>
    PROVE  EndIsUnderWay'
<1> USE DEF Moves, Record, IInv, TypeOK, page
<1> SUFFICES ASSUME sub = "joined", tripStatus'[tripId] \in Terminal, before \cap Ends = {}
             PROVE  \/ \E e \in recorded' \ fanned : e.trip = tripId /\ e.kind \in Ends
                    \/ \E k \in DOMAIN wire : wire[k] \in Ends
                    \/ \E k \in DOMAIN inbox : inbox[k] \in Ends
  BY DEF EndIsUnderWay
<1>1. tripId \in Trip
  BY DEF PageIsAbout
<1>2. CASE tripId = t
  <2> DEFINE e == [trip |-> t, kind |-> kind]
  <2>1. kind \in Ends /\ e.kind = kind /\ e.trip = tripId
    BY <1>2 DEF Terminal, Ends
  <2>2. e \in recorded'
    OBVIOUS
  <2>3. e \notin recorded
    BY <1>2, <2>1 DEF LogTells, Live, Ends
  <2> QED
    BY <2>1, <2>2, <2>3
<1>3. CASE tripId # t
  <2>1. tripStatus[tripId] \in Terminal
    BY <1>1, <1>3
  <2> QED
    BY <2>1 DEF EndIsUnderWay
<1> QED
  BY <1>2, <1>3

LEMMA AdvanceKeeps ==
    ASSUME IInv, NEW t \in Trip, Advance(t)
    PROVE  IInv'
<1>1. PICK status, kind : Moves(t, status, kind)
  BY DEF Advance, Moves, Live, Terminal
<1>2. /\ Grows /\ tripStatus' \in [Trip -> TripStatus] /\ recorded' \in SUBSET Event
      /\ fanned \in SUBSET recorded'
      /\ \A u \in Trip : tripStatus'[u] \in Live => tripStatus[u] \in Live
  BY <1>1, MovesGrows
<1>3. TypeOK'
  BY <1>2 DEF Advance, IInv, TypeOK, page
<1>4. CallsTell'
  <2>1. \A i \in Call : Tells(i)'
    BY <1>2, CallStays DEF Advance, page
  <2> QED
    BY <2>1, CallsStay DEF Advance, IInv, Asking
<1>5. LiveTripOnPage'
  BY <1>2, LiveTripStays DEF Advance, page
<1>6. PageIsAbout' /\ ShownHasHappened'
  BY <1>2, PageStays DEF Advance, page
<1>7. LogTells' /\ EndIsUnderWay'
  BY <1>1, MovesTells, MovesEnds DEF Advance
<1> QED
  BY <1>3, <1>4, <1>5, <1>6, <1>7 DEF IInv

LEMMA ServeCreateKeeps ==
    ASSUME IInv, NEW i \in Call, ServeCreate(i)
    PROVE  IInv'
<1> USE DEF ServeCreate, page
<1>1. PICK t \in Trip : /\ tripStatus[t] = "none"
                        /\ tripStatus' = [tripStatus EXCEPT ![t] = "requested"]
                        /\ call' = [call EXCEPT ![i] = Answer(i, t, "ok")]
  OBVIOUS
<1>2. tripStatus' \in [Trip -> TripStatus]
  BY <1>1 DEF IInv, TypeOK, TripStatus, Live
<1>3. Grows
  BY <1>1 DEF IInv, TypeOK, Grows, Terminal
<1> DEFINE r == Answer(i, t, "ok")
<1>4. r \in CallRecord /\ r.kind = "create" /\ r.trip = t /\ r.answer = "ok"
      /\ r.deaf = call[i].deaf
  BY DEF Waiting, Answer, CallRecord, IInv, TypeOK
<1>5. /\ call' \in [Call -> CallRecord]
      /\ call'[i] = r
      /\ \A j \in Call : j # i => call'[j] = call[j]
  BY <1>1, <1>4, SetCall
<1>6. TypeOK'
  BY <1>2, <1>5 DEF IInv, TypeOK
<1>7. LogTells'
  BY <1>1 DEF IInv, TypeOK, LogTells, Ends, Terminal, Event
<1>8. PageIsAbout' /\ ShownHasHappened'
  BY <1>3, PageStays
<1>9. CallsTell'
  <2>1. Tells(i)'
    <3>1. t # NoTrip /\ tripStatus'[t] # "none"
      BY <1>1, RiderPageAssumption DEF IInv, TypeOK
    <3>2. CreateTells(i)'
      BY <1>4, <1>5, <3>1 DEF IInv, CallsTell, CreateTells, Waiting
    <3> QED
      BY <1>4, <1>5, <3>2 DEF Tells, CancelTells, ReadTells
  <2>2. \A j \in Call : Tells(j)'
    BY <1>3, <1>5, <2>1, CallStays
  <2> QED
    BY <1>4, <1>5, <2>2, CallsStay DEF IInv, Asking, Waiting
<1>10. LiveTripOnPage'
  <2> SUFFICES ASSUME ~astray, NEW u \in Trip, tripStatus'[u] \in Live, tripId # u
               PROVE  \E j \in Call : call'[j].kind = "create" /\ call'[j].trip = u
    BY DEF LiveTripOnPage
  <2>1. CASE u = t
    BY <1>4, <1>5, <2>1
  <2>2. CASE u # t
    <3>1. tripStatus[u] \in Live
      BY <1>1, <2>2 DEF IInv, TypeOK
    <3>2. PICK j \in Call : call[j].kind = "create" /\ call[j].trip = u
      BY <3>1 DEF IInv, LiveTripOnPage
    <3>3. j # i
      BY <3>2, RiderPageAssumption DEF Waiting, IInv, CallsTell, CreateTells
    <3> QED
      BY <1>5, <3>2, <3>3
  <2> QED
    BY <2>1, <2>2
<1>11. EndIsUnderWay'
  BY <1>1, EndStays DEF IInv, TypeOK, Terminal
<1> QED
  BY <1>6, <1>7, <1>8, <1>9, <1>10, <1>11 DEF IInv

LEMMA ServeCancelKeeps ==
    ASSUME IInv, NEW i \in Call, ServeCancel(i)
    PROVE  IInv'
<1> USE DEF ServeCancel, page
<1> DEFINE t == call[i].trip
           answer == IF tripStatus[t] \in {"requested", "matched"} THEN "ok" ELSE "refused"
           r == Answer(i, t, answer)
<1>1. t \in Trip
  BY TripOfCall DEF Waiting
<1>2. /\ r \in CallRecord /\ r.kind = "cancel" /\ r.trip = t /\ r.answer = answer
      /\ r.deaf = call[i].deaf
  BY <1>1 DEF Waiting, Answer, CallRecord, IInv, TypeOK
<1>3. /\ call' \in [Call -> CallRecord]
      /\ call'[i] = r
      /\ \A j \in Call : j # i => call'[j] = call[j]
  <2>1. call' = [call EXCEPT ![i] = r]
    OBVIOUS
  <2> QED
    BY <1>2, <2>1, SetCall
<1>4. /\ Grows /\ tripStatus' \in [Trip -> TripStatus] /\ recorded' \in SUBSET Event
      /\ fanned \in SUBSET recorded'
      /\ \A u \in Trip : tripStatus'[u] \in Live => tripStatus[u] \in Live
      /\ LogTells' /\ EndIsUnderWay'
      /\ answer = "ok" => tripStatus'[t] \in Terminal
  <2>1. CASE tripStatus[t] \in {"requested", "matched"}
    <3>1. Moves(t, "cancelled", "cancelled")
      BY <2>1 DEF Moves, Live, Terminal
    <3>2. tripStatus'[t] = "cancelled"
      BY <1>1, <2>1 DEF Record, IInv, TypeOK
    <3> QED
      BY <1>1, <3>1, <3>2, MovesGrows, MovesTells, MovesEnds DEF Terminal
  <2>2. CASE tripStatus[t] \notin {"requested", "matched"}
    <3>1. server' = server /\ answer = "refused"
      BY <2>2
    <3> QED
      BY <3>1, UnchangedGrows, LogStays, EndStays DEF server, IInv, TypeOK
  <2> QED
    BY <2>1, <2>2
<1>5. TypeOK'
  BY <1>3, <1>4 DEF IInv, TypeOK
<1>6. PageIsAbout' /\ ShownHasHappened'
  BY <1>4, PageStays
<1>7. CallsTell'
  <2>1. Tells(i)'
    BY <1>1, <1>2, <1>3, <1>4, RiderPageAssumption
       DEF Tells, CreateTells, CancelTells, ReadTells
  <2>2. \A j \in Call : Tells(j)'
    BY <1>3, <1>4, <2>1, CallStays
  <2> QED
    BY <1>2, <1>3, <2>2, CallsStay DEF IInv, Asking
<1>8. LiveTripOnPage'
  BY <1>2, <1>3, <1>4, LiveTripStays DEF Waiting
<1> QED
  BY <1>4, <1>5, <1>6, <1>7, <1>8 DEF IInv

LEMMA ServeReadKeeps ==
    ASSUME IInv, NEW i \in Call, ServeRead(i)
    PROVE  IInv'
<1> USE DEF ServeRead, page
<1> DEFINE t == call[i].trip
           r == Answer(i, t, tripStatus[t])
<1>1. t \in Trip /\ tripStatus[t] \in Live \cup Terminal
  BY TripOfCall DEF Waiting, IInv, TypeOK, TripStatus, CallsTell, ReadTells
<1>2. /\ r \in CallRecord /\ r.kind = call[i].kind /\ r.trip = t
      /\ r.answer = tripStatus[t] /\ r.deaf = call[i].deaf
  BY <1>1 DEF Waiting, Answer, CallRecord, TripStatus, IInv, TypeOK
<1>3. /\ call' \in [Call -> CallRecord]
      /\ call'[i] = r
      /\ \A j \in Call : j # i => call'[j] = call[j]
  BY <1>2, SetCall
<1>4. server' = server /\ Grows
  BY UnchangedGrows
<1>5. TypeOK' /\ LogTells'
  BY <1>3, <1>4, LogStays DEF IInv, TypeOK, server
<1>6. PageIsAbout' /\ ShownHasHappened'
  BY <1>4, PageStays
<1>7. CallsTell'
  <2>1. Happened(t, tripStatus[t])
    BY <1>1 DEF Happened, Live, Terminal, IInv, LogTells
  <2>2. Tells(i)'
    <3>1. ReadTells(i)'
      BY <1>1, <1>2, <1>3, <1>4, <2>1
         DEF Waiting, ReadTells, Happened, IInv, CallsTell, server
    <3> QED
      BY <1>2, <1>3, <3>1 DEF Waiting, Tells, CreateTells, CancelTells
  <2>3. \A j \in Call : Tells(j)'
    BY <1>3, <1>4, <2>2, CallStays
  <2> QED
    BY <1>2, <1>3, <2>3, CallsStay DEF IInv, Asking
<1>8. LiveTripOnPage' /\ EndIsUnderWay'
  BY <1>2, <1>3, <1>4, LiveTripStays, EndStays DEF Waiting, server
<1> QED
  BY <1>5, <1>6, <1>7, <1>8 DEF IInv

(***************************************************************************)
(* The gateway's steps.                                                    *)
(***************************************************************************)
\* A step that leaves the requests, and what the server and the page know, alone.
LEMMA GatewayKeeps ==
    ASSUME IInv, server' = server, UNCHANGED <<tripId, active, call, astray>>
    PROVE  Grows /\ LogTells' /\ CallsTell' /\ LiveTripOnPage' /\ ShownHasHappened'
<1>1. Grows /\ LogTells'
  BY UnchangedGrows, LogStays DEF IInv
<1>2. CallsTell'
  <2>1. \A i \in Call : Tells(i)'
    BY <1>1, CallStays
  <2> QED
    BY <2>1, CallsStay DEF IInv, Asking
<1>3. LiveTripOnPage'
  BY LiveTripStays DEF server
<1>4. ShownHasHappened'
  BY DEF IInv, ShownHasHappened, Happened, server
<1> QED
  BY <1>1, <1>2, <1>3, <1>4

LEMMA JoinKeeps == ASSUME IInv, Join PROVE IInv'
<1> USE DEF Join, server
<1>1. TypeOK'
  BY DEF IInv, TypeOK, Event
<1>2. tripId \in Trip
  BY DEF IInv, TypeOK, PageIsAbout
<1>3. PageIsAbout'
  BY <1>2, RiderPageAssumption DEF IInv, PageIsAbout
<1>4. EndIsUnderWay'
  <2> SUFFICES ASSUME tripStatus[tripId] \in Terminal, before' \cap Ends = {}
               PROVE  \E e \in recorded \ fanned : e.trip = tripId /\ e.kind \in Ends
    BY DEF EndIsUnderWay
  <2> DEFINE e == [trip |-> tripId, kind |-> tripStatus[tripId]]
  <2>1. e \in recorded /\ e.trip = tripId /\ e.kind \in Ends
    BY <1>2 DEF IInv, LogTells, Terminal, Ends
  <2>2. e \notin fanned
    BY <2>1
  <2> QED
    BY <2>1, <2>2
<1> QED
  BY <1>1, <1>3, <1>4, GatewayKeeps DEF IInv

LEMMA EmitTypes ==
    ASSUME IInv, NEW e \in recorded, Emit(e)
    PROVE  /\ wire' \in Seq(Kind)
           /\ \A k \in DOMAIN wire : k \in DOMAIN wire' /\ wire'[k] = wire[k]
           /\ \A k \in DOMAIN wire' :
                 \/ k \in DOMAIN wire /\ wire'[k] = wire[k]
                 \/ tripId = e.trip /\ sub = "joined" /\ wire'[k] = e.kind
           /\ tripId = e.trip /\ sub = "joined" => \E k \in DOMAIN wire' : wire'[k] = e.kind
<1>1. wire \in Seq(Kind) /\ e.kind \in Kind /\ Len(wire) \in Nat
  BY DEF IInv, TypeOK, Event
<1>2. CASE sub = "joined" /\ tripId = e.trip
  <2>1. wire' = Append(wire, e.kind)
    BY <1>2 DEF Emit
  <2>2. /\ wire' \in Seq(Kind)
        /\ DOMAIN wire = 1 .. Len(wire) /\ DOMAIN wire' = 1 .. Len(wire) + 1
        /\ \A k \in 1 .. Len(wire) : wire'[k] = wire[k]
        /\ wire'[Len(wire) + 1] = e.kind
    BY <1>1, <2>1
  <2> QED
    BY <1>1, <1>2, <2>2
<1>3. CASE ~(sub = "joined" /\ tripId = e.trip)
  BY <1>1, <1>3 DEF Emit
<1> QED
  BY <1>2, <1>3

\* What is on the wire is still about the trip of the page.
LEMMA EmitIsAbout ==
    ASSUME IInv, NEW e \in recorded, Emit(e), server' = server,
           UNCHANGED <<tripId, sub, inbox>>
    PROVE  PageIsAbout'
<1>1. e = [trip |-> e.trip, kind |-> e.kind] /\ e.trip \in Trip
  BY DEF IInv, TypeOK, Event
<1>2. ASSUME NEW k \in DOMAIN wire'
      PROVE  tripId # NoTrip /\ [trip |-> tripId, kind |-> wire'[k]] \in recorded
  BY <1>1, EmitTypes, RiderPageAssumption DEF IInv, PageIsAbout
<1> QED
  BY <1>2 DEF IInv, PageIsAbout, server

LEMMA FanoutKeeps == ASSUME IInv, NEW e \in recorded, Fanout(e) PROVE IInv'
<1> USE DEF Fanout, server
<1>1. TypeOK'
  BY EmitTypes DEF IInv, TypeOK
<1>2. PageIsAbout'
  BY EmitIsAbout
<1>3. EndIsUnderWay'
  <2> SUFFICES ASSUME sub = "joined", tripStatus[tripId] \in Terminal, before \cap Ends = {}
               PROVE  \/ \E f \in recorded \ fanned' : f.trip = tripId /\ f.kind \in Ends
                      \/ \E k \in DOMAIN wire' : wire'[k] \in Ends
                      \/ \E k \in DOMAIN inbox : inbox[k] \in Ends
    BY DEF EndIsUnderWay
  <2>1. CASE e.trip = tripId /\ e.kind \in Ends
    BY <2>1, EmitTypes
  <2>2. CASE \E f \in recorded \ fanned : f # e /\ f.trip = tripId /\ f.kind \in Ends
    BY <2>2
  <2>3. CASE \E k \in DOMAIN wire : wire[k] \in Ends
    BY <2>3, EmitTypes
  <2> QED
    BY <2>1, <2>2, <2>3 DEF IInv, EndIsUnderWay
<1> QED
  BY <1>1, <1>2, <1>3, GatewayKeeps DEF IInv

LEMMA FanoutAgainKeeps == ASSUME IInv, NEW e \in recorded, FanoutAgain(e) PROVE IInv'
<1> USE DEF FanoutAgain, server
<1>1. TypeOK'
  BY EmitTypes, RiderPageAssumption DEF IInv, TypeOK
<1>2. PageIsAbout'
  BY EmitIsAbout
<1>3. EndIsUnderWay'
  BY EmitTypes DEF IInv, EndIsUnderWay
<1> QED
  BY <1>1, <1>2, <1>3, GatewayKeeps DEF IInv

LEMMA DisconnectKeeps == ASSUME IInv, Disconnect PROVE IInv'
<1> USE DEF Disconnect, server
<1>1. TypeOK'
  BY RiderPageAssumption DEF IInv, TypeOK
<1>2. PageIsAbout' /\ EndIsUnderWay'
  BY DEF IInv, PageIsAbout, EndIsUnderWay
<1> QED
  BY <1>1, <1>2, GatewayKeeps DEF IInv

(***************************************************************************)
(* The page's steps.                                                       *)
(***************************************************************************)
\* A request is replaced by one that asks for no trip, and the page keeps its trip.
LEMMA OneCall ==
    ASSUME IInv, NEW i \in Call, NEW r \in CallRecord, call' = [call EXCEPT ![i] = r],
           r.kind = "create" => r.deaf, call[i].kind = "create" => astray',
           server' = server, tripId' = tripId, astray => astray', Tells(i)'
    PROVE  /\ Grows /\ LogTells' /\ CallsTell' /\ LiveTripOnPage'
           /\ call' \in [Call -> CallRecord]
<1>1. Grows /\ LogTells'
  BY UnchangedGrows, LogStays DEF IInv
<1>2. /\ call' \in [Call -> CallRecord]
      /\ call'[i] = r
      /\ \A j \in Call : j # i => call'[j] = call[j]
  BY SetCall
<1>3. CallsTell'
  <2>1. \A j \in Call : Tells(j)'
    BY <1>1, <1>2, CallStays
  <2> QED
    BY <1>2, <2>1, CallsStay DEF IInv, Asking
<1>4. LiveTripOnPage'
  BY <1>2, LiveTripStays DEF server
<1> QED
  BY <1>1, <1>2, <1>3, <1>4

LEMMA RequestRideKeeps == ASSUME IInv, NEW i \in Call, RequestRide(i) PROVE IInv'
<1> USE DEF RequestRide, page
<1> DEFINE r == NewCall("create", NoTrip)
<1>1. Grows /\ LogTells'
  BY UnchangedGrows, LogStays DEF IInv
<1>2. r \in CallRecord
  BY CallTypes
<1>3. /\ call' \in [Call -> CallRecord]
      /\ call'[i] = r
      /\ \A j \in Call : j # i => call'[j] = call[j]
  BY <1>2, SetCall
<1>4. TypeOK'
  BY <1>3 DEF IInv, TypeOK, server
<1>5. PageIsAbout' /\ ShownHasHappened'
  BY <1>1, PageStays
<1>6. CallsTell'
  <2>1. Tells(i)'
    BY <1>3 DEF NewCall, Tells, CreateTells, CancelTells, ReadTells
  <2>2. \A j \in Call : Tells(j)'
    BY <1>1, <1>3, <2>1, CallStays
  <2>3. \A j \in Call : Asking(j)' => j = i
    BY <1>3 DEF Asking
  <2> QED
    BY <2>2, <2>3 DEF CallsTell, Tells, Asking
<1>7. LiveTripOnPage'
  BY <1>3, LiveTripStays DEF Free, FreeCall, server
<1>8. EndIsUnderWay'
  BY EndStays DEF server
<1> QED
  BY <1>1, <1>4, <1>5, <1>6, <1>7, <1>8 DEF IInv

LEMMA CancelRideKeeps == ASSUME IInv, NEW i \in Call, CancelRide(i) PROVE IInv'
<1> USE DEF CancelRide, page
<1> DEFINE r == NewCall("cancel", tripId)
<1>1. r \in CallRecord /\ r.kind = "cancel"
  BY CallTypes DEF IInv, TypeOK, NewCall
<1>2. Tells(i)'
  BY <1>1, SetCall DEF NewCall, Tells, CreateTells, CancelTells, ReadTells
<1>3. call[i].kind # "create"
  BY DEF Free, FreeCall
<1>4. Grows /\ LogTells' /\ CallsTell' /\ LiveTripOnPage' /\ call' \in [Call -> CallRecord]
  BY <1>1, <1>2, <1>3, OneCall
<1>5. TypeOK'
  BY <1>4 DEF IInv, TypeOK, server
<1>6. PageIsAbout' /\ ShownHasHappened' /\ EndIsUnderWay'
  BY <1>4, PageStays, EndStays DEF server
<1> QED
  BY <1>4, <1>5, <1>6 DEF IInv

\* A step of one request that the page takes no notice of.
LEMMA UnnoticedKeeps ==
    ASSUME IInv, NEW i \in Call, NEW r \in CallRecord, call' = [call EXCEPT ![i] = r],
           r.kind = "create" => r.deaf, call[i].kind = "create" => astray', Tells(i)',
           UNCHANGED <<server, fanned, tripId, sub, before, wire, inbox>>,
           active' \in {active, NoView}, faults' \in 0 .. MaxFaults,
           astray' \in BOOLEAN, astray => astray'
    PROVE  IInv'
<1>1. Grows /\ LogTells' /\ CallsTell' /\ LiveTripOnPage' /\ call' \in [Call -> CallRecord]
  BY OneCall
<1>2. TypeOK'
  BY <1>1 DEF IInv, TypeOK, server
<1>3. PageIsAbout' /\ EndIsUnderWay'
  BY EndStays DEF IInv, PageIsAbout, server
<1>4. ShownHasHappened'
  BY DEF IInv, ShownHasHappened, Happened, server
<1> QED
  BY <1>1, <1>2, <1>3, <1>4 DEF IInv

\* An answer that nobody minds.
LEMMA DroppedKeeps ==
    ASSUME IInv, NEW i \in Call, call' = [call EXCEPT ![i] = FreeCall],
           call[i].kind = "create" => astray',
           UNCHANGED <<server, fanned, tripId, sub, before, wire, inbox>>,
           active' \in {active, NoView}, faults' \in 0 .. MaxFaults,
           astray' \in BOOLEAN, astray => astray'
    PROVE  IInv'
<1>1. Tells(i)'
  BY CallTypes, SetCall, FreeTells
<1>2. FreeCall \in CallRecord /\ FreeCall.kind # "create"
  BY CallTypes DEF FreeCall
<1> QED
  BY <1>1, <1>2, UnnoticedKeeps

\* A request whose answer nobody waits for any more.
LEMMA DeafKeeps ==
    ASSUME IInv, NEW i \in Call, call' = [call EXCEPT ![i] = Deaf(i)],
           call[i].kind \in {"create", "cancel"}, call[i].kind = "create" => astray',
           UNCHANGED <<server, fanned, tripId, sub, before, wire, inbox>>,
           active' \in {active, NoView}, faults' \in 0 .. MaxFaults,
           astray' \in BOOLEAN, astray => astray'
    PROVE  IInv'
<1>1. /\ Deaf(i) \in CallRecord /\ Deaf(i).kind = call[i].kind /\ Deaf(i).deaf
      /\ Deaf(i).trip = call[i].trip /\ Deaf(i).answer = call[i].answer
  BY DEF Deaf, CallRecord, IInv, TypeOK
<1>2. call'[i] = Deaf(i)
  BY <1>1, SetCall
<1>3. Tells(i)'
  <2>1. Tells(i)
    BY DEF IInv, CallsTell, Tells
  <2> QED
    BY <1>1, <1>2, <2>1 DEF Tells, CreateTells, CancelTells, ReadTells, server
<1> QED
  BY <1>1, <1>3, UnnoticedKeeps

LEMMA LoseAnswerKeeps == ASSUME IInv, NEW i \in Call, LoseAnswer(i) PROVE IInv'
<1>1. /\ faults' \in 0 .. MaxFaults /\ astray' \in BOOLEAN /\ (astray => astray')
      /\ call[i].kind = "create" => astray'
      /\ active' \in {active, NoView}
      /\ UNCHANGED <<server, fanned, tripId, sub, before, wire, inbox>>
  <2>1. faults' \in 0 .. MaxFaults /\ astray' \in BOOLEAN
    BY RiderPageAssumption DEF LoseAnswer, IInv, TypeOK
  <2>2. (astray => astray') /\ (call[i].kind = "create" => astray')
    BY DEF LoseAnswer
  <2>3. active' \in {active, NoView}
    BY DEF LoseAnswer
  <2> QED
    BY <2>1, <2>2, <2>3 DEF LoseAnswer
<1>2. CASE call' = [call EXCEPT ![i] = FreeCall]
  BY <1>1, <1>2, DroppedKeeps
<1>3. CASE (Waiting(i, "create") \/ Waiting(i, "cancel")) /\ call' = [call EXCEPT ![i] = Deaf(i)]
  <2>1. call[i].kind \in {"create", "cancel"}
    BY <1>3 DEF Waiting
  <2> QED
    BY <1>1, <1>3, <2>1, DeafKeeps
<1> QED
  BY <1>2, <1>3 DEF LoseAnswer

LEMMA UnheardKeeps == ASSUME IInv, NEW i \in Call, Unheard(i) PROVE IInv'
<1>1. call[i].kind = "create" => astray
  BY DEF Unheard, IInv, CallsTell, CreateTells
<1>2. faults \in 0 .. MaxFaults /\ astray \in BOOLEAN
  BY DEF IInv, TypeOK
<1> QED
  BY <1>1, <1>2, DroppedKeeps DEF Unheard, page

\* The answer of a read shows what has happened to its trip.
LEMMA ReadKeeps ==
    ASSUME IInv, NEW i \in Call, call[i].kind \in {"restore", "refresh"},
           call[i].answer \notin {"none", "pending"},
           active' = View(i), call' = [call EXCEPT ![i] = FreeCall],
           UNCHANGED <<server, fanned, tripId, sub, before, wire, inbox, faults, astray>>
    PROVE  IInv'
<1>1. Tells(i)'
  BY CallTypes, SetCall, FreeTells
<1>2. Grows /\ LogTells' /\ CallsTell' /\ LiveTripOnPage' /\ call' \in [Call -> CallRecord]
  BY <1>1, CallTypes, OneCall DEF FreeCall
<1>3. /\ call[i].trip \in Trip /\ call[i].answer \in Live \cup Terminal
      /\ Happened(call[i].trip, call[i].answer)
  BY TripOfCall DEF IInv, CallsTell, ReadTells
<1>4. TypeOK'
  BY <1>2, <1>3 DEF IInv, TypeOK, View, server
<1>5. PageIsAbout' /\ EndIsUnderWay'
  BY EndStays DEF IInv, PageIsAbout, server
<1>6. ShownHasHappened'
  BY <1>3 DEF View, ShownHasHappened, Happened, server
<1> QED
  BY <1>2, <1>4, <1>5, <1>6 DEF IInv

LEMMA RefreshedKeeps == ASSUME IInv, NEW i \in Call, Refreshed(i) PROVE IInv'
BY ReadKeeps DEF Refreshed, Answered

\* The page lets go of a trip that is over, unless it loses one.
LEMMA CloseTripKeeps ==
    ASSUME IInv, NEW calls \in [Call -> CallRecord], CloseTrip(calls),
           \A i \in Call : \/ calls[i] = call[i]
                           \/ calls[i] = FreeCall /\ call[i].kind # "create"
                           \/ /\ call[i] = FreeCall
                              /\ tripId # NoTrip /\ calls[i] = NewCall("refresh", tripId),
           tripId = NoTrip \/ tripStatus[tripId] \in Terminal \/ astray',
           UNCHANGED <<server, fanned, faults>>,
           astray' \in BOOLEAN, astray => astray'
    PROVE  IInv'
<1> USE DEF CloseTrip
<1>1. Grows /\ LogTells'
  BY UnchangedGrows, LogStays DEF IInv
<1>2. \A i \in Call : call'[i] = IF calls[i].kind = "restore" THEN FreeCall ELSE calls[i]
  BY DEF WithoutRestore
<1>3. TypeOK'
  <2>1. call' \in [Call -> CallRecord]
    BY CallTypes DEF WithoutRestore
  <2> QED
    BY <2>1 DEF IInv, TypeOK, server
<1>4. PageIsAbout' /\ ShownHasHappened' /\ EndIsUnderWay'
  BY DEF PageIsAbout, ShownHasHappened, EndIsUnderWay
<1>5. ASSUME NEW i \in Call
      PROVE  Tells(i)'
  <2>1. CASE call'[i] = FreeCall
    BY <2>1, FreeTells
  <2>2. CASE call'[i] = call[i] /\ call[i].kind # "restore"
    <3>1. Tells(i)
      BY DEF IInv, CallsTell, Tells
    <3> QED
      BY <2>2, <3>1 DEF Tells, CreateTells, CancelTells, ReadTells, Happened, server
  <2>3. CASE call'[i] = NewCall("refresh", tripId) /\ tripId # NoTrip
    BY <2>3 DEF IInv, PageIsAbout, NewCall, Tells, CreateTells, CancelTells, ReadTells, server
  <2> QED
    BY <1>2, <2>1, <2>2, <2>3
<1>6. CallsTell'
  BY <1>2, <1>5, CallsStay DEF IInv, Asking, FreeCall, NewCall
<1>7. LiveTripOnPage'
  <2> SUFFICES ASSUME ~astray', NEW t \in Trip, tripStatus[t] \in Live
               PROVE  \E i \in Call : call'[i].kind = "create" /\ call'[i].trip = t
    BY DEF LiveTripOnPage, server
  <2>1. tripId # t
    BY RiderPageAssumption DEF Live, Terminal
  <2>2. PICK i \in Call : call[i].kind = "create" /\ call[i].trip = t
    BY <2>1 DEF IInv, LiveTripOnPage
  <2>3. call'[i] = call[i]
    BY <1>2, <2>2 DEF FreeCall
  <2> QED
    BY <2>2, <2>3
<1> QED
  BY <1>1, <1>3, <1>4, <1>6, <1>7 DEF IInv

LEMMA CancelledKeeps == ASSUME IInv, NEW i \in Call, Cancelled(i) PROVE IInv'
<1> USE DEF Cancelled, Answered
<1>1. CASE call[i].answer = "ok"
  <2> DEFINE calls == [call EXCEPT ![i] = FreeCall]
  <2>1. calls \in [Call -> CallRecord] /\ \A j \in Call : j # i => calls[j] = call[j]
    BY CallTypes DEF IInv, TypeOK
  <2>2. calls[i] = FreeCall /\ call[i].kind # "create"
    BY DEF IInv, TypeOK
  <2>3. tripStatus[call[i].trip] \in Terminal
    BY <1>1 DEF IInv, CallsTell, CancelTells
  <2>4. tripId = NoTrip \/ tripStatus[tripId] \in Terminal \/ astray'
    BY <1>1, <2>3
  <2>5. astray' \in BOOLEAN /\ (astray => astray')
    BY <1>1 DEF IInv, TypeOK
  <2> HIDE DEF calls
  <2>6. CloseTrip(calls)
    BY <1>1 DEF calls
  <2> QED
    BY <2>1, <2>2, <2>4, <2>5, <2>6, CloseTripKeeps
<1>2. CASE call[i].answer # "ok"
  <2>1. faults \in 0 .. MaxFaults /\ astray \in BOOLEAN
    BY DEF IInv, TypeOK
  <2> QED
    BY <1>2, <2>1, DroppedKeeps DEF page
<1> QED
  BY <1>1, <1>2

LEMMA RestoredKeeps == ASSUME IInv, NEW i \in Call, Restored(i) PROVE IInv'
<1> USE DEF Restored, Answered
<1>1. CASE call[i].answer \in Terminal
  <2> DEFINE calls == [call EXCEPT ![i] = FreeCall]
  <2>1. calls \in [Call -> CallRecord] /\ \A j \in Call : j # i => calls[j] = call[j]
    BY CallTypes DEF IInv, TypeOK
  <2>2. calls[i] = FreeCall /\ call[i].kind # "create"
    BY DEF IInv, TypeOK
  <2>3. tripStatus[tripId] \in Terminal
    BY <1>1 DEF IInv, CallsTell, ReadTells, Happened, Terminal
  <2>4. astray \in BOOLEAN
    BY DEF IInv, TypeOK
  <2> HIDE DEF calls
  <2>5. CloseTrip(calls)
    BY <1>1 DEF calls
  <2> QED
    BY <2>1, <2>2, <2>3, <2>4, <2>5, CloseTripKeeps
<1>2. CASE call[i].answer \notin Terminal
  BY <1>2, ReadKeeps
<1> QED
  BY <1>1, <1>2

LEMMA CreatedKeeps == ASSUME IInv, NEW i \in Call, Created(i) PROVE IInv'
<1> USE DEF Created, Answered
<1> DEFINE t == call[i].trip
           r == NewCall("restore", t)
<1>1. t \in Trip /\ tripStatus[t] # "none" /\ tripId = NoTrip
  BY DEF IInv, TypeOK, CallRecord, CallsTell, CreateTells
<1>2. r \in CallRecord
  BY <1>1, CallTypes
<1>3. /\ call' \in [Call -> CallRecord]
      /\ call'[i] = r
      /\ \A j \in Call : j # i => call'[j] = call[j]
  BY <1>2, SetCall
<1>4. Grows /\ LogTells'
  BY UnchangedGrows, LogStays DEF IInv
<1>5. TypeOK'
  BY <1>1, <1>3 DEF IInv, TypeOK, Live, server
<1>6. PageIsAbout' /\ EndIsUnderWay'
  BY <1>1, RiderPageAssumption DEF PageIsAbout, EndIsUnderWay, server
<1>7. ShownHasHappened'
  BY DEF ShownHasHappened, Happened
<1>8. CallsTell'
  <2>1. Tells(i)'
    BY <1>1, <1>3, RiderPageAssumption
       DEF NewCall, Tells, CreateTells, CancelTells, ReadTells, server
  <2>2. ASSUME NEW j \in Call, j # i
        PROVE  Tells(j)' /\ ~Asking(j)
    <3>1. Tells(j) /\ ~Asking(j) /\ call'[j] = call[j] /\ call[j].kind # "restore"
      BY <1>1, <1>3, <2>2 DEF IInv, CallsTell, Tells, ReadTells, Asking
    <3> QED
      BY <3>1 DEF Tells, CreateTells, CancelTells, ReadTells, Asking, Happened, server
  <2>3. \A j \in Call : Tells(j)' /\ ~Asking(j)'
    <3>1. ~Asking(i)'
      BY <1>3 DEF Asking, NewCall
    <3> QED
      BY <1>3, <2>1, <2>2, <3>1 DEF Asking
  <2> QED
    BY <2>3 DEF CallsTell, Tells, Asking
<1>9. LiveTripOnPage'
  <2> SUFFICES ASSUME ~astray, NEW u \in Trip, tripStatus[u] \in Live, u # t
               PROVE  \E j \in Call : call'[j].kind = "create" /\ call'[j].trip = u
    BY DEF LiveTripOnPage, server
  <2>1. PICK j \in Call : call[j].kind = "create" /\ call[j].trip = u
    BY <1>1, RiderPageAssumption DEF IInv, LiveTripOnPage
  <2> QED
    BY <1>3, <2>1
<1> QED
  BY <1>4, <1>5, <1>6, <1>7, <1>8, <1>9 DEF IInv

LEMMA ReceiveKeeps == ASSUME IInv, Receive PROVE IInv'
<1> USE DEF Receive
<1>1. Grows /\ LogTells' /\ CallsTell' /\ LiveTripOnPage' /\ ShownHasHappened'
  BY GatewayKeeps
<1>2. /\ wire \in Seq(Kind) /\ inbox \in Seq(Kind) /\ wire # <<>>
      /\ Len(wire) \in Nat \ {0} /\ Len(inbox) \in Nat
  BY DEF IInv, TypeOK
<1>3. /\ Head(wire) = wire[1] /\ 1 \in DOMAIN wire /\ Head(wire) \in Kind
      /\ wire' \in Seq(Kind) /\ Len(wire') = Len(wire) - 1
      /\ \A k \in 1 .. Len(wire) - 1 : wire'[k] = wire[k + 1]
  BY <1>2
<1>4. /\ inbox' \in Seq(Kind) /\ Len(inbox') = Len(inbox) + 1
      /\ \A k \in 1 .. Len(inbox) : inbox'[k] = inbox[k]
      /\ inbox'[Len(inbox) + 1] = wire[1]
  BY <1>2, <1>3
<1>5. TypeOK'
  BY <1>3, <1>4 DEF IInv, TypeOK, server
<1>6. PageIsAbout'
  <2>1. ASSUME NEW k \in DOMAIN wire'
        PROVE  tripId # NoTrip /\ [trip |-> tripId, kind |-> wire'[k]] \in recorded
    <3>1. k \in 1 .. Len(wire) - 1 /\ k + 1 \in DOMAIN wire
      BY <1>2, <1>3, <2>1
    <3> QED
      BY <1>3, <3>1 DEF IInv, PageIsAbout
  <2>2. ASSUME NEW k \in DOMAIN inbox'
        PROVE  tripId # NoTrip /\ [trip |-> tripId, kind |-> inbox'[k]] \in recorded
    <3>1. \/ k \in DOMAIN inbox /\ inbox'[k] = inbox[k]
          \/ inbox'[k] = wire[1]
      BY <1>2, <1>4, <2>2
    <3> QED
      BY <1>3, <3>1 DEF IInv, PageIsAbout
  <2> QED
    BY <2>1, <2>2 DEF IInv, PageIsAbout, server
<1>7. EndIsUnderWay'
  <2> SUFFICES ASSUME sub = "joined", tripStatus[tripId] \in Terminal, before \cap Ends = {}
               PROVE  \/ \E e \in recorded \ fanned : e.trip = tripId /\ e.kind \in Ends
                      \/ \E k \in DOMAIN wire' : wire'[k] \in Ends
                      \/ \E k \in DOMAIN inbox' : inbox'[k] \in Ends
    BY DEF EndIsUnderWay, server
  <2>1. CASE \E k \in DOMAIN wire : wire[k] \in Ends
    <3>1. PICK k \in 1 .. Len(wire) : wire[k] \in Ends
      BY <1>2, <2>1
    <3>2. CASE k = 1
      <4>1. Len(inbox) + 1 \in DOMAIN inbox'
        BY <1>2, <1>4
      <4> QED
        BY <1>4, <3>1, <3>2, <4>1
    <3>3. CASE k # 1
      <4>1. k - 1 \in DOMAIN wire' /\ wire'[k - 1] = wire[k]
        BY <1>2, <1>3, <3>3
      <4> QED
        BY <3>1, <4>1
    <3> QED
      BY <3>2, <3>3
  <2>2. CASE \E k \in DOMAIN inbox : inbox[k] \in Ends
    <3>1. PICK k \in 1 .. Len(inbox) : inbox[k] \in Ends
      BY <1>2, <2>2
    <3>2. k \in DOMAIN inbox'
      BY <1>2, <1>4
    <3> QED
      BY <1>4, <3>1, <3>2
  <2> QED
    BY <2>1, <2>2 DEF IInv, EndIsUnderWay
<1> QED
  BY <1>1, <1>5, <1>6, <1>7 DEF IInv

LEMMA HandleEventsKeeps == ASSUME IInv, HandleEvents PROVE IInv'
<1> DEFINE Reading == {k \in DOMAIN inbox : inbox[k] \in Moving}
           calls(slot) == [i \in Call |-> IF i \in {slot[k] : k \in Reading}
                                          THEN NewCall("refresh", tripId) ELSE call[i]]
<1>1. PICK slot \in Injection(Reading, Free) :
          IF \E k \in DOMAIN inbox : inbox[k] \in Ending
          THEN CloseTrip(calls(slot))
          ELSE /\ active' = Merged(inbox[Len(inbox)])
               /\ inbox' = <<>>
               /\ call' = calls(slot)
               /\ UNCHANGED <<tripId, sub, before, wire>>
  BY DEF HandleEvents
<1>2. UNCHANGED <<server, fanned, faults, astray>>
  BY DEF HandleEvents
<1>3. /\ inbox \in Seq(Kind) /\ Len(inbox) \in DOMAIN inbox /\ inbox[Len(inbox)] \in Kind
      /\ faults \in 0 .. MaxFaults /\ astray \in BOOLEAN
  BY DEF HandleEvents, IInv, TypeOK
<1>4. tripId \in Trip /\ \A k \in DOMAIN inbox : [trip |-> tripId, kind |-> inbox[k]] \in recorded
  BY <1>3 DEF IInv, TypeOK, PageIsAbout
<1>5. \A i \in {slot[k] : k \in Reading} : i \in Call /\ call[i] = FreeCall
  BY DEF Injection, Free
<1> DEFINE new == calls(slot)
<1>6. /\ new \in [Call -> CallRecord]
      /\ \A i \in Call : \/ new[i] = call[i]
                         \/ /\ call[i] = FreeCall
                            /\ tripId # NoTrip /\ new[i] = NewCall("refresh", tripId)
  BY <1>4, <1>5, CallTypes, RiderPageAssumption DEF IInv, TypeOK
<1>7. CASE \E k \in DOMAIN inbox : inbox[k] \in Ending
  <2>1. tripStatus[tripId] \in Terminal
    BY <1>4, <1>7 DEF IInv, LogTells, Ending, Ends, Terminal
  <2>2. CloseTrip(new)
    BY <1>1, <1>7
  <2> HIDE DEF new
  <2> QED
    BY <1>2, <1>3, <1>6, <2>1, <2>2, CloseTripKeeps
<1>8. CASE ~ \E k \in DOMAIN inbox : inbox[k] \in Ending
  <2> DEFINE last == inbox[Len(inbox)]
  <2>1. /\ active' = Merged(last) /\ inbox' = <<>> /\ call' = new
        /\ UNCHANGED <<tripId, sub, before, wire>>
    BY <1>1, <1>8
  <2> HIDE DEF new
  <2>2. Grows /\ LogTells'
    BY <1>2, UnchangedGrows, LogStays DEF IInv
  <2>3. last \in {"matched", "started"}
    BY <1>3, <1>8 DEF Kind, Ending
  <2>4. active' # NoView /\ active' \in [trip : Trip, status : Live]
    BY <1>4, <2>1, <2>3 DEF IInv, TypeOK, Merged, Shown, Live, NoView
  <2>5. TypeOK'
    BY <1>2, <1>6, <2>1, <2>4 DEF IInv, TypeOK, server
  <2>6. PageIsAbout'
    BY <1>2, <2>1 DEF IInv, PageIsAbout, server
  <2>7. ShownHasHappened'
    BY <1>2, <1>3, <1>4, <2>1, <2>3 DEF ShownHasHappened, Happened, Merged, Shown, server
  <2>8. CallsTell'
    <3>1. ASSUME NEW i \in Call, call'[i] = NewCall("refresh", tripId)
          PROVE  Tells(i)'
      BY <1>2, <1>4, <2>1, <3>1, RiderPageAssumption
         DEF NewCall, Tells, CreateTells, CancelTells, ReadTells, IInv, PageIsAbout, server
    <3>2. \A i \in Call : Tells(i)'
      BY <1>2, <1>6, <2>1, <2>2, <3>1, CallStays
    <3> QED
      BY <1>6, <2>1, <3>2, CallsStay DEF IInv, Asking, NewCall
  <2>9. LiveTripOnPage'
    BY <1>2, <1>6, <2>1, LiveTripStays DEF FreeCall, server
  <2>10. EndIsUnderWay'
    BY <1>2, <1>8, <2>1 DEF IInv, EndIsUnderWay, Ending, Ends, server
  <2> QED
    BY <2>2, <2>5, <2>6, <2>7, <2>8, <2>9, <2>10 DEF IInv
<1> QED
  BY <1>7, <1>8

LEMMA ReloadKeeps == ASSUME IInv, Reload PROVE IInv'
<1> DEFINE left == [i \in Call |-> IF call[i].kind \in {"create", "cancel"}
                                   THEN Deaf(i) ELSE FreeCall]
<1>1. Grows /\ LogTells'
  BY UnchangedGrows, LogStays DEF IInv, Reload
<1>2. /\ left \in [Call -> CallRecord]
      /\ \A i \in Call : call[i].kind \in {"create", "cancel"} =>
            /\ left[i].kind = call[i].kind /\ left[i].trip = call[i].trip
            /\ left[i].answer = call[i].answer /\ left[i].deaf
  <2>1. \A i \in Call : call[i].kind \in {"create", "cancel"} => Deaf(i) \in CallRecord
    BY DEF IInv, TypeOK, CallRecord, Deaf
  <2> QED
    BY <2>1, CallTypes DEF Deaf
<1>3. \A i \in Call : \/ call'[i] = left[i]
                      \/ /\ tripId # NoTrip /\ left[i] = FreeCall
                         /\ call'[i] = NewCall("restore", tripId)
  BY <1>2 DEF Reload
<1>4. call' \in [Call -> CallRecord]
  BY <1>2, CallTypes DEF IInv, TypeOK, Reload
<1>5. /\ sub' \in {"none", "asked"} /\ (tripId = NoTrip => sub' = "none")
      /\ faults' \in 0 .. MaxFaults
      /\ astray' = (astray \/ \E i \in Call : call[i].kind = "create")
  BY RiderPageAssumption DEF IInv, TypeOK, Reload
<1>6. /\ astray' \in BOOLEAN /\ (astray => astray')
      /\ \A i \in Call : call[i].kind = "create" => astray'
  BY <1>5 DEF IInv, TypeOK
<1>7. TypeOK'
  BY <1>4, <1>5, <1>6 DEF IInv, TypeOK, Reload, server
<1>8. PageIsAbout' /\ ShownHasHappened' /\ EndIsUnderWay'
  BY <1>5 DEF IInv, PageIsAbout, ShownHasHappened, EndIsUnderWay, Reload, server
<1>9. CallsTell'
  <2>1. ASSUME NEW i \in Call
        PROVE  Tells(i)' /\ ~Asking(i)'
    <3>1. CASE call'[i] = FreeCall
      <4>1. Tells(i)'
        BY <3>1, FreeTells
      <4>2. ~Asking(i)'
        BY <3>1 DEF Asking, FreeCall
      <4> QED
        BY <4>1, <4>2
    <3>2. CASE call'[i] = left[i] /\ call[i].kind \in {"create", "cancel"}
      <4>1. Tells(i)
        BY DEF IInv, CallsTell, Tells
      <4> QED
        BY <1>2, <1>6, <3>2, <4>1
           DEF Tells, CreateTells, CancelTells, ReadTells, Asking, Reload, server
    <3>3. CASE call'[i] = NewCall("restore", tripId) /\ tripId # NoTrip
      BY <3>3 DEF IInv, PageIsAbout, NewCall, Tells, CreateTells, CancelTells, ReadTells,
                  Asking, Reload, server
    <3> QED
      BY <1>3, <3>1, <3>2, <3>3
  <2> QED
    BY <2>1 DEF CallsTell, Tells, Asking
<1>10. LiveTripOnPage'
  BY <1>2, <1>3, <1>6, LiveTripStays DEF FreeCall, Reload, server
<1> QED
  BY <1>1, <1>7, <1>8, <1>9, <1>10 DEF IInv

(***************************************************************************)
(* The theorems.                                                           *)
(***************************************************************************)
LEMMA InitHolds == Init => IInv
<1> SUFFICES ASSUME Init PROVE IInv
  OBVIOUS
<1> USE DEF Init
<1>1. TypeOK
  <2>1. tripStatus \in [Trip -> TripStatus] /\ call \in [Call -> CallRecord]
    BY CallTypes DEF TripStatus
  <2>2. wire \in Seq(Kind) /\ inbox \in Seq(Kind) /\ faults \in 0 .. MaxFaults
    BY RiderPageAssumption
  <2> QED
    BY <2>1, <2>2 DEF TypeOK
<1>2. LogTells
  BY DEF LogTells, Terminal
<1>3. PageIsAbout /\ ShownHasHappened /\ EndIsUnderWay
  BY DEF PageIsAbout, ShownHasHappened, EndIsUnderWay
<1>4. CallsTell
  BY DEF CallsTell, CreateTells, CancelTells, ReadTells, FreeCall
<1>5. LiveTripOnPage
  BY DEF LiveTripOnPage, Live
<1> QED
  BY <1>1, <1>2, <1>3, <1>4, <1>5 DEF IInv

LEMMA NextKeeps == IInv /\ [Next]_vars => IInv'
<1> SUFFICES ASSUME IInv, [Next]_vars PROVE IInv'
  OBVIOUS
<1>1. ASSUME NEW t \in Trip, Advance(t) PROVE IInv'
  BY <1>1, AdvanceKeeps
<1>2. ASSUME NEW i \in Call, ServeCreate(i) \/ ServeCancel(i) \/ ServeRead(i) PROVE IInv'
  BY <1>2, ServeCreateKeeps, ServeCancelKeeps, ServeReadKeeps
<1>3. CASE Join \/ Disconnect
  BY <1>3, JoinKeeps, DisconnectKeeps
<1>4. ASSUME NEW e \in recorded, Fanout(e) \/ FanoutAgain(e) PROVE IInv'
  BY <1>4, FanoutKeeps, FanoutAgainKeeps
<1>5. ASSUME NEW i \in Call, RequestRide(i) \/ CancelRide(i) PROVE IInv'
  BY <1>5, RequestRideKeeps, CancelRideKeeps
<1>6. ASSUME NEW i \in Call, Created(i) \/ Cancelled(i) \/ Restored(i) \/ Refreshed(i)
      PROVE  IInv'
  BY <1>6, CreatedKeeps, CancelledKeeps, RestoredKeeps, RefreshedKeeps
<1>7. CASE Receive \/ HandleEvents
  BY <1>7, ReceiveKeeps, HandleEventsKeeps
<1>8. ASSUME NEW i \in Call, LoseAnswer(i) \/ Unheard(i) PROVE IInv'
  BY <1>8, LoseAnswerKeeps, UnheardKeeps
<1>9. CASE Reload
  BY <1>9, ReloadKeeps
<1>10. CASE UNCHANGED vars
  BY <1>10 DEF vars, server, page, IInv, TypeOK, LogTells, PageIsAbout, CallsTell, CreateTells,
               CancelTells, ReadTells, Happened, LiveTripOnPage, ShownHasHappened, EndIsUnderWay
<1> QED
  BY <1>1, <1>2, <1>3, <1>4, <1>5, <1>6, <1>7, <1>8, <1>9, <1>10 DEF Next

LEMMA Invariance == Spec => []IInv
BY InitHolds, NextKeeps, PTL DEF Spec

(***************************************************************************)
(* What page, socket, requests and trips hold has its type.                *)
(***************************************************************************)
THEOREM TypeCorrect == Spec => []TypeOK
<1>1. IInv => TypeOK
  BY DEF IInv
<1> QED
  BY <1>1, Invariance, PTL

(***************************************************************************)
(* The page never loses a trip that is not over, but for the answers that  *)
(* mark it astray, over any number of trips, late answers, repeated        *)
(* events, failures and reloads.                                           *)
(***************************************************************************)
THEOREM TripIsKept == Spec => []LiveTripOnPage
<1>1. IInv => LiveTripOnPage
  BY DEF IInv
<1> QED
  BY <1>1, Invariance, PTL

(***************************************************************************)
(* While the socket is in the room, the end of the page's trip is on its   *)
(* way to the effect that handles it.                                      *)
(***************************************************************************)
THEOREM EndArrives == Spec => []EndIsUnderWay
<1>1. IInv => EndIsUnderWay
  BY DEF IInv
<1> QED
  BY <1>1, Invariance, PTL

(***************************************************************************)
(* The page shows of its trip only what has happened to it.                *)
(***************************************************************************)
THEOREM NothingInvented == Spec => []ShownHasHappened
<1>1. IInv => ShownHasHappened
  BY DEF IInv
<1> QED
  BY <1>1, Invariance, PTL
=============================================================================
