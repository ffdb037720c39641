----------------------------- MODULE RiderPage -----------------------------
(***************************************************************************)
(* The rider's page and what it is told: the answers of its own requests   *)
(* to the API, and the trip's events, which the WebSocket gateway forwards *)
(* to the sockets that are in the room of the trip at that moment and to   *)
(* nobody later.                                                           *)
(*                                                                         *)
(* A task of the page - the answer of a request, a message of the socket,  *)
(* the effect that handles the events of a render - runs alone, and the    *)
(* effects of a changed trip id are part of it.  Between the tasks         *)
(* everything may happen: other trips of the page, late answers, and what  *)
(* the driver does.  The events of the outbox come in any order, once or   *)
(* more often.                                                             *)
(***************************************************************************)
EXTENDS Naturals, Sequences, FiniteSets, Functions

CONSTANTS
    Trip,       \* trips the rider may come to have, one after the other
    NoTrip,
    Call,       \* requests of the page that may be under way at a time
    MaxBatch,   \* events on the wire, or waiting for one render
    MaxFaults   \* lost answers, broken connections, reloads, repeated events

ASSUME RiderPageAssumption ==
    /\ NoTrip \notin Trip
    /\ IsFiniteSet(Call)
    /\ MaxBatch \in Nat /\ MaxFaults \in Nat

VARIABLES
    tripStatus, \* trips.status
    recorded,   \* the events of trip_events that concern the page
    fanned,     \* those the gateway has forwarded at least once
    tripId,     \* of the page, and of its copy in localStorage
    active,     \* activeTrip: the trip and the status the page shows
    sub,        \* the page's socket: none, asked for the room, joined, or out
    before,     \* history: what was forwarded of the trip before the socket joined
    wire,       \* events forwarded to the socket
    inbox,      \* events received but not handled by the effect yet
    call,       \* the requests under way
    faults,
    astray      \* history: a trip may have got lost to the page

server == <<tripStatus, recorded>>
page == <<tripId, active, sub, before, wire, inbox>>
vars == <<server, fanned, page, call, faults, astray>>

Live == {"requested", "matched", "in_progress"}
Terminal == {"completed", "cancelled"}
TripStatus == {"none"} \cup Live \cup Terminal

Kind == {"matched", "started", "completed", "cancelled"}
Event == [trip : Trip, kind : Kind]
\* The effect's branches.  Mutant: only a completed trip ends.
Ending_Completed == {"completed"}
Ending == {"completed", "cancelled"}
Moving == {"matched", "started"}
\* Mutant: the type of the event as it is.
Shown_Raw(kind) == kind
Shown(kind) == IF kind = "matched" THEN "matched" ELSE "in_progress"

NoView == [trip |-> NoTrip, status |-> "none"]
FreeCall == [kind |-> "free", trip |-> NoTrip, answer |-> "none", deaf |-> FALSE]
NewCall(kind, t) == [kind |-> kind, trip |-> t, answer |-> "pending", deaf |-> FALSE]
CallRecord ==
    [kind : {"free", "create", "cancel", "restore", "refresh"},
     trip : Trip \cup {NoTrip},
     answer : {"none", "pending", "ok", "refused"} \cup TripStatus,
     deaf : BOOLEAN]
\* The request with its answer.
Answer(i, t, answer) ==
    [kind |-> call[i].kind, trip |-> t, answer |-> answer, deaf |-> call[i].deaf]
Free == {i \in Call : call[i] = FreeCall}

----------------------------------------------------------------------------
Init ==
    /\ tripStatus = [t \in Trip |-> "none"]
    /\ recorded = {}
    /\ fanned = {}
    /\ tripId = NoTrip
    /\ active = NoView
    /\ sub = "none"
    /\ before = {}
    /\ wire = <<>>
    /\ inbox = <<>>
    /\ call = [i \in Call |-> FreeCall]
    /\ faults = 0
    /\ astray = FALSE

(***************************************************************************)
(* The server: what matcher and driver do to a trip, and how it answers.   *)
(***************************************************************************)
Record(t, status, kind) ==
    /\ tripStatus' = [tripStatus EXCEPT ![t] = status]
    /\ recorded' = recorded \cup {[trip |-> t, kind |-> kind]}

Advance(t) ==
    /\ \/ tripStatus[t] = "requested" /\ Record(t, "matched", "matched")
       \/ tripStatus[t] = "matched" /\ Record(t, "in_progress", "started")
       \/ tripStatus[t] = "in_progress" /\ Record(t, "completed", "completed")
       \/ tripStatus[t] = "matched" /\ Record(t, "cancelled", "cancelled")
    /\ UNCHANGED <<fanned, page, call, faults, astray>>

Waiting(i, kind) == call[i].kind = kind /\ call[i].answer = "pending"

ServeCreate(i) ==
    /\ Waiting(i, "create")
    /\ \E t \in Trip :
          /\ tripStatus[t] = "none"
          /\ tripStatus' = [tripStatus EXCEPT ![t] = "requested"]
          /\ call' = [call EXCEPT ![i] = Answer(i, t, "ok")]
    /\ UNCHANGED <<recorded, fanned, page, faults, astray>>

ServeCancel(i) ==
    LET t == call[i].trip IN
    /\ Waiting(i, "cancel")
    /\ IF tripStatus[t] \in {"requested", "matched"}
       THEN /\ Record(t, "cancelled", "cancelled")
            /\ call' = [call EXCEPT ![i] = Answer(i, t, "ok")]
       ELSE call' = [call EXCEPT ![i] = Answer(i, t, "refused")] /\ UNCHANGED server
    /\ UNCHANGED <<fanned, page, faults, astray>>

ServeRead(i) ==
    /\ Waiting(i, "restore") \/ Waiting(i, "refresh")
    /\ call' = [call EXCEPT ![i] = Answer(i, call[i].trip, tripStatus[call[i].trip])]
    /\ UNCHANGED <<server, fanned, page, faults, astray>>

(***************************************************************************)
(* The gateway.                                                            *)
(***************************************************************************)
\* canSubscribeToTrip has answered - the trip is the rider's - and the socket joins.
Join ==
    /\ sub = "asked"
    /\ sub' = "joined"
    /\ before' = {e.kind : e \in {f \in fanned : f.trip = tripId}}
    /\ UNCHANGED <<server, fanned, tripId, active, wire, inbox, call, faults, astray>>

\* An event reaches the socket if it is in the room of the trip.
Emit(e) ==
    IF sub = "joined" /\ tripId = e.trip
    THEN /\ Len(wire) < MaxBatch
         /\ wire' = Append(wire, e.kind)
    ELSE UNCHANGED wire

Fanout(e) ==
    /\ e \in recorded \ fanned
    /\ fanned' = fanned \cup {e}
    /\ Emit(e)
    /\ UNCHANGED <<server, tripId, active, sub, before, inbox, call, faults, astray>>

FanoutAgain(e) ==
    /\ faults < MaxFaults
    /\ faults' = faults + 1
    /\ e \in fanned
    /\ Emit(e)
    /\ UNCHANGED <<server, fanned, tripId, active, sub, before, inbox, call, astray>>

\* The client connects again by itself, but nobody asks for the room again.
Disconnect ==
    /\ faults < MaxFaults
    /\ faults' = faults + 1
    /\ sub \in {"asked", "joined"}
    /\ sub' = "out"
    /\ before' = {}
    /\ wire' = <<>>
    /\ UNCHANGED <<server, fanned, tripId, active, inbox, call, astray>>

(***************************************************************************)
(* The page.                                                               *)
(***************************************************************************)
RequestRide(i) ==
    /\ tripId = NoTrip
    /\ ~ \E j \in Call : call[j].kind = "create" /\ ~call[j].deaf
    /\ \E t \in Trip : tripStatus[t] = "none"
    /\ i \in Free
    /\ call' = [call EXCEPT ![i] = NewCall("create", NoTrip)]
    /\ UNCHANGED <<server, fanned, page, faults, astray>>

CancelRide(i) ==
    /\ tripId # NoTrip
    /\ i \in Free
    /\ call' = [call EXCEPT ![i] = NewCall("cancel", tripId)]
    /\ UNCHANGED <<server, fanned, page, faults, astray>>

\* Leaving a trip id: the effect's cleanup makes the answer of restore
\* ignored.  Mutant: it does not.
WithoutRestore_Kept(calls) == calls
WithoutRestore(calls) ==
    [i \in Call |-> IF calls[i].kind = "restore" THEN FreeCall ELSE calls[i]]

\* setActiveTrip(null), setTripId(null) and the effects of that.
CloseTrip(calls) ==
    /\ tripId' = NoTrip
    /\ active' = NoView
    /\ sub' = "none"
    /\ before' = {}
    /\ wire' = <<>>
    /\ inbox' = <<>>
    /\ call' = WithoutRestore(calls)

Answered(i, kind) ==
    call[i].kind = kind /\ call[i].answer \notin {"none", "pending"} /\ ~call[i].deaf

\* The trip is there: the page stores it, opens a socket and reads it.
Created(i) ==
    /\ Answered(i, "create")
    /\ tripId' = call[i].trip
    /\ active' = [trip |-> call[i].trip, status |-> "requested"]
    /\ sub' = "asked"
    /\ before' = {}
    /\ wire' = <<>>
    /\ inbox' = <<>>
    /\ call' = [call EXCEPT ![i] = NewCall("restore", call[i].trip)]
    /\ UNCHANGED <<server, fanned, faults, astray>>

\* The answer of cancelRide, whatever trip the page has by then.
Cancelled(i) ==
    /\ Answered(i, "cancel")
    /\ IF call[i].answer = "ok"
       THEN /\ CloseTrip([call EXCEPT ![i] = FreeCall])
            /\ astray' = (astray \/ (tripId # NoTrip /\ tripId # call[i].trip))
       ELSE /\ call' = [call EXCEPT ![i] = FreeCall]
            /\ UNCHANGED <<page, astray>>
    /\ UNCHANGED <<server, fanned, faults>>

\* The view an answer gives.  Mutant: of the trip the page has by then.
View_OfPage(i) ==
    IF tripId = NoTrip THEN NoView ELSE [trip |-> tripId, status |-> call[i].answer]
View(i) == [trip |-> call[i].trip, status |-> call[i].answer]

Restored(i) ==
    /\ Answered(i, "restore")
    /\ IF call[i].answer \in Terminal
       THEN CloseTrip([call EXCEPT ![i] = FreeCall])
       ELSE /\ active' = View(i)
            /\ call' = [call EXCEPT ![i] = FreeCall]
            /\ UNCHANGED <<tripId, sub, before, wire, inbox>>
    /\ UNCHANGED <<server, fanned, faults, astray>>

\* setActiveTrip, without a look at the trip id the page has by then.
Refreshed(i) ==
    /\ Answered(i, "refresh")
    /\ active' = View(i)
    /\ call' = [call EXCEPT ![i] = FreeCall]
    /\ UNCHANGED <<server, fanned, tripId, sub, before, wire, inbox, faults, astray>>

\* A message of the socket: setEvents.
Receive ==
    /\ wire # <<>>
    /\ Len(inbox) < MaxBatch
    /\ inbox' = Append(inbox, Head(wire))
    /\ wire' = Tail(wire)
    /\ UNCHANGED <<server, fanned, tripId, active, sub, before, call, faults, astray>>

\* mergeActiveTrip: the trip shown keeps its id and takes the status.
Merged(kind) ==
    [trip |-> IF active = NoView THEN tripId ELSE active.trip, status |-> Shown(kind)]

\* The effect goes through all events of the render.  Each one that moves
\* the trip reads it again, also after one that has ended it.
HandleEvents ==
    LET Asking == {k \in DOMAIN inbox : inbox[k] \in Moving} IN
    /\ inbox # <<>>
    /\ \E slot \in Injection(Asking, Free) :
          LET calls == [i \in Call |-> IF i \in {slot[k] : k \in Asking}
                                       THEN NewCall("refresh", tripId) ELSE call[i]] IN
          IF \E k \in DOMAIN inbox : inbox[k] \in Ending
          THEN CloseTrip(calls)
          ELSE /\ active' = Merged(inbox[Len(inbox)])
               /\ inbox' = <<>>
               /\ call' = calls
               /\ UNCHANGED <<tripId, sub, before, wire>>
    /\ UNCHANGED <<server, fanned, faults, astray>>

Deaf(i) ==
    [kind |-> call[i].kind, trip |-> call[i].trip, answer |-> call[i].answer, deaf |-> TRUE]

\* A request that fails, before or after the server has worked on it, or
\* while it is still on its way there.  A failed restore clears the view.
LoseAnswer(i) ==
    /\ faults < MaxFaults
    /\ call[i] # FreeCall /\ ~call[i].deaf
    /\ faults' = faults + 1
    /\ \/ call' = [call EXCEPT ![i] = FreeCall]
       \/ /\ Waiting(i, "create") \/ Waiting(i, "cancel")
          /\ call' = [call EXCEPT ![i] = Deaf(i)]
    /\ active' = IF call[i].kind = "restore" THEN NoView ELSE active
    /\ astray' = (astray \/ call[i].kind = "create")
    /\ UNCHANGED <<server, fanned, tripId, sub, before, wire, inbox>>

\* The page is loaded again: localStorage has the trip id, and requests
\* that the server may still work on have nobody to answer to.
Reload ==
    LET left == [i \in Call |-> IF call[i].kind \in {"create", "cancel"}
                                THEN Deaf(i) ELSE FreeCall] IN
    /\ faults < MaxFaults
    /\ faults' = faults + 1
    /\ active' = NoView
    /\ before' = {}
    /\ wire' = <<>>
    /\ inbox' = <<>>
    /\ IF tripId = NoTrip
       THEN sub' = "none" /\ call' = left
       ELSE /\ sub' = "asked"
            /\ \E i \in {j \in Call : left[j] = FreeCall} :
                  call' = [left EXCEPT ![i] = NewCall("restore", tripId)]
    /\ astray' = (astray \/ \E i \in Call : call[i].kind = "create")
    /\ UNCHANGED <<server, fanned, tripId>>

\* The answer of a request of a page that is gone.
Unheard(i) ==
    /\ call[i].deaf /\ call[i].answer # "pending"
    /\ call' = [call EXCEPT ![i] = FreeCall]
    /\ UNCHANGED <<server, fanned, page, faults, astray>>

Next ==
    \/ \E t \in Trip : Advance(t)
    \/ \E i \in Call : ServeCreate(i) \/ ServeCancel(i) \/ ServeRead(i)
    \/ Join \/ Disconnect
    \/ \E e \in recorded : Fanout(e) \/ FanoutAgain(e)
    \/ \E i \in Call : RequestRide(i) \/ CancelRide(i)
    \/ \E i \in Call : Created(i) \/ Cancelled(i) \/ Restored(i) \/ Refreshed(i)
    \/ Receive \/ HandleEvents
    \/ \E i \in Call : LoseAnswer(i) \/ Unheard(i)
    \/ Reload

Spec == Init /\ [][Next]_vars

----------------------------------------------------------------------------
TypeOK ==
    /\ tripStatus \in [Trip -> TripStatus]
    /\ recorded \in SUBSET Event
    /\ fanned \in SUBSET recorded
    /\ tripId \in Trip \cup {NoTrip}
    /\ active \in {NoView} \cup [trip : Trip, status : Live \cup Terminal]
    /\ sub \in {"none", "asked", "joined", "out"}
    /\ before \in SUBSET Kind
    /\ wire \in Seq(Kind)
    /\ inbox \in Seq(Kind)
    /\ call \in [Call -> CallRecord]
    /\ faults \in 0 .. MaxFaults
    /\ astray \in BOOLEAN

(***************************************************************************)
(* A rider's trip that has not ended is the one on the page, or the page   *)
(* is about to learn its id: the request button stays off, and the trip    *)
(* can be cancelled.  The exceptions are marked astray: the answer of a    *)
(* request to create a trip was lost, or the answer of a cancellation came *)
(* when the page already had the next trip, which it then drops.           *)
(***************************************************************************)
LiveTripOnPage ==
    ~astray => \A t \in Trip : tripStatus[t] \in Live =>
        tripId = t \/ \E i \in Call : call[i].kind = "create" /\ call[i].trip = t

\* What has happened to a trip, by its events.
Happened(t, status) ==
    \/ status = "requested"
    \/ status = "matched" /\ [trip |-> t, kind |-> "matched"] \in recorded
    \/ status = "in_progress" /\ [trip |-> t, kind |-> "started"] \in recorded
    \/ status \in Terminal /\ tripStatus[t] = status

(***************************************************************************)
(* What the page shows of its trip may be out of date - an answer or an    *)
(* event may come late - but it has happened to this trip, and not only to *)
(* one the page had before.                                                *)
(***************************************************************************)
ShownHasHappened ==
    active # NoView /\ active.trip = tripId => Happened(tripId, active.status)

Ends == {"completed", "cancelled"}

(***************************************************************************)
(* A trip that ends leaves the page by itself if the socket is in the room *)
(* before the end is published and the connection holds: as long as the    *)
(* page has the trip, its end is still to be forwarded, on the wire, or    *)
(* waiting for the effect, whatever the page does in the meantime.         *)
(***************************************************************************)
EndIsUnderWay ==
    sub = "joined" /\ tripStatus[tripId] \in Terminal /\ before \cap Ends = {} =>
        \/ \E e \in recorded \ fanned : e.trip = tripId /\ e.kind \in Ends
        \/ \E k \in DOMAIN wire : wire[k] \in Ends
        \/ \E k \in DOMAIN inbox : inbox[k] \in Ends

(***************************************************************************)
(* What the requirements say: all changes of a trip are pushed to the      *)
(* rider.  Here only for a page that has the trip, is in its room, and has *)
(* not seen a fault.                                                       *)
(***************************************************************************)
EveryChangePushed == sub = "joined" /\ faults = 0 => before = {}
=============================================================================
