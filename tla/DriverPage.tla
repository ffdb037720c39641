----------------------------- MODULE DriverPage ----------------------------
(***************************************************************************)
(* The driver's page: the switch that goes online and offline, the loop    *)
(* that sends the position while the page is online, and the card of the   *)
(* active trip, which polls the API and starts, completes and cancels the  *)
(* trip it shows.  One driver, one page; what the services do with its     *)
(* requests is what modules Dispatch and its sources say.                  *)
(*                                                                         *)
(* Answers can be late and in another order than their requests, and a     *)
(* request that is reported as failed may reach the API all the same.      *)
(* Turning the page offline makes it deaf to the polls under way; leaving  *)
(* it, to every request, and what the next page sends may overtake them.   *)
(***************************************************************************)
EXTENDS Naturals, FiniteSets

CONSTANTS
    Assignment, \* trips the driver may be assigned, each once, in the order of their requests
    Nothing,
    ListLimit,  \* how many trips the card asks for
    Poll,       \* polls under way at a time
    Call,       \* requests of the switch and of the buttons under way at a time
    MaxPings    \* bound on the positions under way at a time: others are lost

ASSUME DriverPageAssumption ==
    /\ Assignment \subseteq Nat /\ Nothing \notin Assignment
    /\ MaxPings \in Nat /\ ListLimit \in Nat

VARIABLES
    availability,   \* drivers.status
    assigned,       \* status of the trips
    online,         \* of the page
    call,           \* the requests of the switch and of the card's buttons
    pings,          \* positions under way
    card,           \* the trip the card shows, with its status
    poll,           \* the polls under way
    loose,          \* history: the driver may be online though the page is not
    fresh,          \* history: the card was told the truth and nothing happened since
    lateAct         \* history: a button's call was under way as the page went offline

service == <<availability, assigned>>
history == <<loose, fresh, lateAct>>
driverPageVars == <<service, online, call, pings, card, poll, history>>

NoCard == [trip |-> Nothing, status |-> "none"]
Card == [trip : Assignment, status : {"matched", "in_progress"}] \cup {NoCard}
NoPoll == [at |-> "free", deaf |-> FALSE, seen |-> NoCard]
PollRecord == [at : {"free", "sent", "answered"}, deaf : BOOLEAN, seen : Card]

Switch == {"online", "offline"}
Button == {"start", "complete", "cancel"}
NoCall == [kind |-> "none", trip |-> Nothing, at |-> "none", deaf |-> FALSE]
CallRecord == [kind : {"none"} \cup Switch \cup Button, trip : Assignment \cup {Nothing},
               at : {"none", "sent", "ok", "refused"}, deaf : BOOLEAN]

\* Requests of the page that is there: it waits for each before it sends another of
\* the same kinds (statusPendingRef, busy).  Those of a page that was left, and those
\* that were given up, are waited for by nobody.
Pending(kinds) == {i \in Call : call[i].kind \in kinds /\ ~call[i].deaf}
Abandoned(c) == IF c.at = "sent" THEN [c EXCEPT !.deaf = TRUE] ELSE NoCall

DriverPageInit ==
    /\ availability \in {"offline", "online"}
    /\ assigned = [t \in Assignment |-> "none"]
    /\ online = FALSE
    /\ call = [i \in Call |-> NoCall]
    /\ pings = 0
    /\ card = NoCard
    /\ poll = [i \in Poll |-> NoPoll]
    /\ loose = (availability = "online")
    /\ fresh = FALSE
    /\ lateAct = FALSE

ActiveTrips == {t \in Assignment : assigned[t] \in {"matched", "in_progress"}}
\* listTrips, the newest first, cut off at the limit, and the first active one in it.
NewerThan(t) == {u \in Assignment : t < u /\ assigned[u] # "none"}
FirstActive(t) ==
    /\ t \in ActiveTrips
    /\ NewerThan(t) \cap ActiveTrips = {}
    /\ Cardinality(NewerThan(t)) < ListLimit
Truth == IF \E t \in Assignment : FirstActive(t)
         THEN LET t == CHOOSE t \in Assignment : FirstActive(t)
              IN  [trip |-> t, status |-> assigned[t]]
         ELSE NoCard

(***************************************************************************)
(* The services.  A trip that ends makes its driver online, whatever the   *)
(* driver has wanted in the meantime.                                      *)
(***************************************************************************)
Ends(t) ==
    /\ assigned' = [assigned EXCEPT ![t] = "ended"]
    /\ availability' = "online"
    /\ loose' = TRUE

Assigned(t) ==
    /\ availability = "online"
    /\ assigned[t] = "none"
    /\ assigned' = [assigned EXCEPT ![t] = "matched"]
    /\ availability' = "on_trip"
    /\ fresh' = FALSE
    /\ UNCHANGED <<online, call, pings, card, poll, loose, lateAct>>

CancelledByRider(t) ==
    /\ assigned[t] = "matched"
    /\ Ends(t)
    /\ fresh' = FALSE
    /\ UNCHANGED <<online, call, pings, card, poll, lateAct>>

\* persistLocation.
PingArrives ==
    /\ pings > 0
    /\ pings' = pings - 1
    /\ availability' = IF availability # "on_trip" /\ ActiveTrips = {} THEN "online" ELSE availability
    /\ UNCHANGED <<assigned, online, call, card, poll, history>>

PingLost ==
    /\ pings > 0
    /\ pings' = pings - 1
    /\ UNCHANGED <<service, online, call, card, poll, history>>

\* A page that is deaf to a call does not get the answer.
Reply(i, at) == IF call[i].deaf THEN NoCall ELSE [call[i] EXCEPT !.at = at]

\* A request to go online that was sent before and has not been served.
Overtaken(i) == \E j \in Call \ {i} : call[j].kind = "online" /\ call[j].at = "sent"

\* setStatus.
ToggleServed(i) ==
    /\ call[i].at = "sent" /\ call[i].kind \in Switch
    /\ availability' = call[i].kind
    /\ call' = [call EXCEPT ![i] = Reply(i, "ok")]
    /\ loose' = IF call[i].deaf THEN loose
                ELSE call[i].kind = "online" \/ pings > 0 \/ Overtaken(i)
    /\ UNCHANGED <<assigned, online, pings, card, poll, fresh, lateAct>>

ActServed(i) ==
    LET t == call[i].trip
        kind == call[i].kind
    IN
    /\ call[i].at = "sent"
    /\ \/ /\ kind = "start" /\ assigned[t] = "matched"
          /\ assigned' = [assigned EXCEPT ![t] = "in_progress"]
          /\ call' = [call EXCEPT ![i] = Reply(i, "ok")]
          /\ UNCHANGED <<availability, loose>>
       \/ /\ \/ kind = "complete" /\ assigned[t] = "in_progress"
             \/ kind = "cancel" /\ assigned[t] = "matched"
          /\ Ends(t)
          /\ call' = [call EXCEPT ![i] = Reply(i, "ok")]
       \/ /\ kind \in Button
          /\ assigned[t] # (IF kind = "complete" THEN "in_progress" ELSE "matched")
          /\ call' = [call EXCEPT ![i] = Reply(i, "refused")]
          /\ UNCHANGED <<service, loose>>
    /\ fresh' = FALSE
    /\ UNCHANGED <<online, pings, card, poll, lateAct>>

PollServed(i) ==
    /\ poll[i].at = "sent"
    /\ poll' = [poll EXCEPT ![i].at = "answered", ![i].seen = Truth]
    /\ fresh' = IF poll[i].deaf THEN fresh
                ELSE /\ Pending(Button) = {}
                     /\ \A j \in Poll \ {i} : poll[j].at = "free" \/ poll[j].deaf
    /\ UNCHANGED <<service, online, call, pings, card, loose, lateAct>>

(***************************************************************************)
(* The page.                                                               *)
(***************************************************************************)
\* The cleanups of the effects.
Deafened == [i \in Poll |-> IF poll[i].at = "free" THEN NoPoll ELSE [poll[i] EXCEPT !.deaf = TRUE]]

\* The effects of online: the loops end; those of a page that is online begin
\* by sending a position and a poll.
BecomeOnline ==
    LET deafened == Deafened IN
    \E i \in Poll :
        /\ poll[i].at = "free"
        /\ poll' = [deafened EXCEPT ![i] = [NoPoll EXCEPT !.at = "sent"]]
        /\ online' = TRUE
        /\ pings' = IF pings < MaxPings THEN pings + 1 ELSE pings
        /\ fresh' = FALSE
        /\ UNCHANGED card

BecomeOffline ==
    /\ online' = FALSE
    /\ card' = NoCard
    /\ poll' = Deafened
    /\ UNCHANGED <<pings, fresh>>

ToggleOnline(i) ==
    /\ Pending(Switch) = {} /\ call[i] = NoCall
    /\ call' = [call EXCEPT ![i] = [NoCall EXCEPT !.kind = IF online THEN "offline" ELSE "online",
                                                  !.at = "sent"]]
    /\ UNCHANGED <<service, online, pings, card, poll, history>>

\* setOnline(next), and the effects if that is a change.
ToggleAnswered(i) ==
    /\ call[i].at = "ok"
    /\ \/ call[i].kind = "online" /\ BecomeOnline /\ lateAct' = FALSE
       \/ call[i].kind = "offline" /\ BecomeOffline /\ lateAct' = (Pending(Button) # {})
    /\ call' = [call EXCEPT ![i] = NoCall]
    /\ UNCHANGED <<service, loose>>

\* The request or its answer is lost, or it takes so long that the page is told so: the
\* page stays as it is, with a message, and the request may still be served.
CallLost(i) ==
    /\ call[i] # NoCall
    /\ \E c \in {NoCall, Abandoned(call[i])} : call' = [call EXCEPT ![i] = c]
    /\ loose' = (loose \/ i \in Pending(Switch))
    /\ fresh' = (fresh /\ i \notin Pending(Button))
    /\ UNCHANGED <<service, online, pings, card, poll, lateAct>>

\* The loop of the positions.  Mutant: its timer is not cleared.
Broadcasting_Always == TRUE
Broadcasting == online

SendPing ==
    /\ Broadcasting
    /\ pings < MaxPings
    /\ pings' = pings + 1
    /\ loose' = (loose \/ Pending({"offline"}) # {})
    /\ UNCHANGED <<service, online, call, card, poll, fresh, lateAct>>

SendPoll(i) ==
    /\ online
    /\ poll[i].at = "free"
    /\ poll' = [poll EXCEPT ![i].at = "sent"]
    /\ UNCHANGED <<service, online, call, pings, card, history>>

\* The answer, or the error: neither is looked at once cancelled is set.
\* Mutant: cancelled is not looked at.
Heard_Always(i) == TRUE
Heard(i) == ~poll[i].deaf

PollAnswered(i) ==
    /\ poll[i].at = "answered"
    /\ poll' = [poll EXCEPT ![i] = NoPoll]
    /\ card' = IF Heard(i) THEN poll[i].seen ELSE card
    /\ UNCHANGED <<service, online, call, pings, history>>

PollLost(i) ==
    /\ poll[i].at # "free"
    /\ poll' = [poll EXCEPT ![i] = NoPoll]
    /\ fresh' = (fresh /\ poll[i].deaf)
    /\ UNCHANGED <<service, online, call, pings, card, loose, lateAct>>

\* start(), complete() and cancel(): the buttons the card shows while not busy.
Click(i, kind) ==
    /\ online /\ Pending(Button) = {} /\ call[i] = NoCall
    /\ \/ kind = "start" /\ card.status = "matched"
       \/ kind = "complete" /\ card.status = "in_progress"
       \/ kind = "cancel" /\ card # NoCard
    /\ call' = [call EXCEPT ![i] = [kind |-> kind, trip |-> card.trip, at |-> "sent", deaf |-> FALSE]]
    /\ UNCHANGED <<service, online, pings, card, poll, history>>

\* A start merges its answer into the trip of the click; the others clear the card.
\* Mutant: they merge it as well.
CardAfter_Merged(kind, t) ==
    [trip |-> t, status |-> IF kind = "start" THEN "in_progress" ELSE "ended"]
CardAfter(kind, t) ==
    IF kind = "start" THEN [trip |-> t, status |-> "in_progress"] ELSE NoCard

\* A call that is refused leaves the card as it is.
ActAnswered(i) ==
    /\ call[i].kind \in Button /\ call[i].at \in {"ok", "refused"}
    /\ call' = [call EXCEPT ![i] = NoCall]
    /\ card' = IF call[i].at = "ok" THEN CardAfter(call[i].kind, call[i].trip) ELSE card
    /\ fresh' = FALSE
    /\ UNCHANGED <<service, online, pings, poll, loose, lateAct>>

\* The page is left, or loaded again: a new one is offline, whatever the driver is,
\* and knows nothing of what the old one has sent, nor do answers to that reach it.
Leave ==
    /\ online' = FALSE
    /\ card' = NoCard
    /\ poll' = [i \in Poll |-> NoPoll]
    /\ call' = [i \in Call |-> Abandoned(call[i])]
    /\ loose' = (loose \/ online \/ Pending(Switch) # {})
    /\ lateAct' = FALSE
    /\ UNCHANGED <<service, pings, fresh>>

DriverPageNext ==
    \/ \E t \in Assignment : Assigned(t) \/ CancelledByRider(t)
    \/ PingArrives \/ PingLost \/ SendPing
    \/ \E i \in Call : ToggleOnline(i) \/ ToggleServed(i) \/ ToggleAnswered(i)
    \/ \E i \in Call, kind \in Button : Click(i, kind)
    \/ \E i \in Call : ActServed(i) \/ ActAnswered(i) \/ CallLost(i)
    \/ \E i \in Poll : PollServed(i) \/ SendPoll(i) \/ PollAnswered(i) \/ PollLost(i)
    \/ Leave

DriverPageSpec == DriverPageInit /\ [][DriverPageNext]_driverPageVars

----------------------------------------------------------------------------
\* Type invariant.
DriverPageTypeOK ==
    /\ availability \in {"offline", "online", "on_trip"}
    /\ assigned \in [Assignment -> {"none", "matched", "in_progress", "ended"}]
    /\ online \in BOOLEAN
    /\ call \in [Call -> CallRecord]
    /\ pings \in Nat
    /\ card \in Card
    /\ poll \in [Poll -> PollRecord]
    /\ loose \in BOOLEAN /\ fresh \in BOOLEAN /\ lateAct \in BOOLEAN

(***************************************************************************)
(* Whom the page tells that they are offline is not given trips: the       *)
(* services do not have the driver as online, unless a page was left since *)
(* that was online or had a request of the switch under way, or such a     *)
(* request has failed; a position, or an older request to go online, was   *)
(* under way when the switch reached the API, or a position was sent       *)
(* before its answer came; or a trip has ended since.                      *)
(***************************************************************************)
StoppedMeansOffline ==
    ~online /\ Pending(Switch) = {} /\ ~loose => availability # "online"

(***************************************************************************)
(* The card of a page that is online, with no request under way it listens *)
(* to, shows the active trip among the driver's latest, if the last poll   *)
(* overlapped no other poll and no call, and nothing has happened since;   *)
(* an offline page shows none, unless the answer of a start came when it   *)
(* was offline already.                                                    *)
(***************************************************************************)
CardAgrees ==
    /\ /\ online /\ fresh /\ Pending(Button) = {}
       /\ \A i \in Poll : poll[i].at = "free" \/ poll[i].deaf
       => card = Truth
    /\ ~online /\ ~lateAct => card = NoCard
=============================================================================
