------------------------------ MODULE WebProofs -----------------------------
(***************************************************************************)
(* Theorems of DriverPage, Session, RideMap and VehiclesPanel, alone and   *)
(* as parts of one client (MCWeb), for any numbers of trips, users,        *)
(* markers, vehicles, panels, and of requests under way.                   *)
(***************************************************************************)
EXTENDS MCWeb, VehiclesProofs, TLAPS

-----------------------------------------------------------------------------
(* The session.                                                              *)

(* Until another tab interferes: the gate is the store's; and unless a read  *)
(* for somebody else was under way or one has failed, only the user's own    *)
(* profile is being read, and a menu with another one is being corrected.    *)
MenuCorrects ==
    /\ \A u \in User \ {stored} : reads[u] = 0
    /\ me \in {Nobody, stored} \/ (stored \in User /\ reads[stored] > 0)

SessionInv ==
    /\ SessionTypeOK
    /\ ~elsewhere /\ Mounted(page) => gate = stored
    /\ ~elsewhere /\ ~late /\ ~failed => MenuCorrects

LEMMA ReadAsOK ==
    ASSUME NEW r \in [User -> 0 .. MaxReads], NEW s \in Signed
    PROVE  /\ ReadAs(r, s) \in [User -> 0 .. MaxReads]
           /\ \A u \in User \ {s} : ReadAs(r, s)[u] = r[u]
           /\ s \in User => ReadAs(r, s)[s] > 0
<1>1. CASE s \in User /\ r[s] < MaxReads
  BY <1>1, SessionAssumption DEF ReadAs
<1>2. CASE s \in User /\ ~(r[s] < MaxReads)
  <2>1. r[s] = MaxReads /\ MaxReads > 0
    BY <1>2, SessionAssumption
  <2> QED
    BY <1>2, <2>1 DEF ReadAs
<1>3. CASE s \notin User
  BY <1>3 DEF ReadAs
<1> QED
  BY <1>1, <1>2, <1>3

LEMMA NoReadsOK == NoReads \in [User -> 0 .. MaxReads] /\ \A u \in User : NoReads[u] = 0
  BY SessionAssumption DEF NoReads

LEMMA SessionInitInv == SessionInit => SessionInv
<1> SUFFICES ASSUME SessionInit PROVE SessionInv
  OBVIOUS
<1>1. /\ reads \in [User -> 0 .. MaxReads]
      /\ \A u \in User \ {stored} : reads[u] = 0
  BY ReadAsOK, NoReadsOK DEF SessionInit
<1> QED
  BY <1>1 DEF SessionInit, SessionInv, SessionTypeOK, MenuCorrects, Signed, Mounted

(* Whoever signs in or out, the tab's own listeners follow.                  *)
LEMMA ChangeInv ==
    ASSUME SessionInv, NEW s \in Signed, ChangeTo(s), UNCHANGED page, logins' \subseteq Login
    PROVE  SessionInv'
<1>1. /\ reads' \in [User -> 0 .. MaxReads]
      /\ \A u \in User \ {s} : reads'[u] = reads[u]
      /\ s \in User => reads'[s] > 0
  BY ReadAsOK DEF ChangeTo, Notified, SessionInv, SessionTypeOK
<1>2. SessionTypeOK'
  BY <1>1 DEF ChangeTo, Notified, SessionInv, SessionTypeOK, Signed
<1>3. Mounted(page)' => gate' = stored'
  BY DEF ChangeTo, Notified, Mounted
<1>4. ~late' => MenuCorrects'
  <2> SUFFICES ASSUME ~late' PROVE MenuCorrects'
    OBVIOUS
  <2>1. \A u \in User \ {s} : reads[u] = 0
    BY DEF ChangeTo, SessionInv, SessionTypeOK
  <2>2. stored' = s /\ (s = Nobody => me' = Nobody)
    BY DEF ChangeTo, Notified
  <2> QED
    BY <1>1, <2>1, <2>2 DEF MenuCorrects, Signed
<1> QED
  BY <1>2, <1>3, <1>4 DEF SessionInv

LEMMA SessionStepInv == SessionInv /\ [SessionNext]_sessionVars => SessionInv'
<1> USE DEF SessionInv, SessionTypeOK
<1> SUFFICES ASSUME SessionInv, [SessionNext]_sessionVars PROVE SessionInv'
  OBVIOUS
<1>1. ASSUME NEW p \in Role \cup {"home"}, Navigate(p) PROVE SessionInv'
  <2>1. \A l \in Login : [l EXCEPT !.gone = TRUE] \in Login
    BY DEF Login
  <2>2. logins' \subseteq Login
    BY <1>1, <2>1 DEF Navigate
  <2>3. gate' \in Signed /\ (Mounted(page)' => gate' = stored')
    BY <1>1 DEF Navigate, Mounted, Signed
  <2>4. UNCHANGED <<stored, me, reads, elsewhere, late, failed>> /\ page' \in Role \cup {"home"}
    BY <1>1 DEF Navigate, tellings
  <2>5. SessionTypeOK'
    BY <2>2, <2>3, <2>4
  <2>6. MenuCorrects => MenuCorrects'
    BY <2>4 DEF MenuCorrects
  <2>7. ~elsewhere' /\ Mounted(page)' => gate' = stored'
    BY <2>3
  <2>8. ~elsewhere' /\ ~late' /\ ~failed' => MenuCorrects'
    BY <2>4, <2>6
  <2> QED
    BY <2>5, <2>7, <2>8 DEF SessionInv
<1>2. CASE SubmitLogin
  <2>1. [role |-> page, gone |-> FALSE] \in Login
    BY <1>2 DEF SubmitLogin, Mounted, Login
  <2>2. logins' \subseteq Login
    BY <1>2, <2>1 DEF SubmitLogin
  <2>3. UNCHANGED <<stored, page, gate, me, reads, elsewhere, late, failed>>
    BY <1>2 DEF SubmitLogin, tellings
  <2>4. (MenuCorrects => MenuCorrects') /\ Mounted(page)' = Mounted(page)
    BY <2>3 DEF MenuCorrects, Mounted
  <2> QED
    BY <2>2, <2>3, <2>4
<1>3. CASE SignOut
  BY <1>3, ChangeInv DEF SignOut, Signed
<1>4. CASE OpenMenu
  <2>1. /\ reads' \in [User -> 0 .. MaxReads]
        /\ \A u \in User \ {stored} : reads'[u] = reads[u]
    BY <1>4, ReadAsOK DEF OpenMenu
  <2> QED
    BY <1>4, <2>1 DEF OpenMenu, tellings, MenuCorrects, Mounted
<1>5. CASE Reload
  <2>1. /\ reads' \in [User -> 0 .. MaxReads]
        /\ \A u \in User \ {stored} : reads'[u] = 0
    BY <1>5, ReadAsOK, NoReadsOK DEF Reload
  <2> QED
    BY <1>5, <2>1 DEF Reload, MenuCorrects, Mounted, Signed
<1>6. ASSUME NEW l \in logins, LoginFailed(l) PROVE SessionInv'
  BY <1>6 DEF LoginFailed, tellings, MenuCorrects, Mounted
<1>7. ASSUME NEW l \in logins, NEW u \in User, LoginAnswered(l, u) PROVE SessionInv'
  BY <1>7, ChangeInv DEF LoginAnswered, Signed
<1>8. ASSUME NEW u \in User, ReadAnswered(u) PROVE SessionInv'
  <2>1. reads' \in [User -> 0 .. MaxReads] /\ \A v \in User \ {u} : reads'[v] = reads[v]
    BY <1>8, SessionAssumption DEF ReadAnswered
  <2>2. MenuCorrects => u = stored /\ MenuCorrects'
    BY <1>8, <2>1 DEF ReadAnswered, MenuCorrects
  <2> QED
    BY <1>8, <2>1, <2>2 DEF ReadAnswered, tellings, Mounted, Signed
<1>9. ASSUME NEW u \in User, ReadFailed(u) PROVE SessionInv'
  <2>1. reads' \in [User -> 0 .. MaxReads]
    BY <1>9, SessionAssumption DEF ReadFailed
  <2> QED
    BY <1>9, <2>1 DEF ReadFailed, Mounted
<1>10. ASSUME NEW s \in Signed, OtherTab(s) PROVE SessionInv'
  BY <1>10 DEF OtherTab
<1>11. CASE UNCHANGED sessionVars
  BY <1>11 DEF sessionVars, tellings, MenuCorrects, Mounted
<1> QED
  BY <1>1, <1>2, <1>3, <1>4, <1>5, <1>6, <1>7, <1>8, <1>9, <1>10, <1>11 DEF SessionNext

LEMMA SessionInvHolds == SessionSpec => []SessionInv
  BY SessionInitInv, SessionStepInv, PTL DEF SessionSpec

(* Variables of the session keep their types.                                *)
THEOREM SessionTypeCorrect == SessionSpec => []SessionTypeOK
  BY SessionInvHolds, PTL DEF SessionInv

(* The gate, the requests and the menu of a tab speak of one user, for any   *)
(* number of users, logins and reads under way.                              *)
THEOREM IdentityIsOne == SessionSpec => []OneIdentity
<1>1. SessionInv => OneIdentity
  BY NoReadsOK DEF SessionInv, SessionTypeOK, OneIdentity, MenuCorrects
<1> QED
  BY <1>1, SessionInvHolds, PTL

-----------------------------------------------------------------------------
(* The map.                                                                  *)
RideMapInv == RideMapTypeOK /\ MapShowsThePage

LEMMA DiffedOK ==
    ASSUME RideMapTypeOK
    PROVE  /\ Diffed \in AnyMarkers
           /\ \A m \in Marker : Diffed[m] = Absent <=> markers[m] = Absent
           /\ \A m \in Marker : Diffed[m] # Absent => Diffed[m].at = markers[m].at
<1> SUFFICES ASSUME NEW m \in Marker
             PROVE  /\ Diffed[m] \in Look \cup {Absent}
                    /\ Diffed[m] = Absent <=> markers[m] = Absent
                    /\ Diffed[m] # Absent => Diffed[m].at = markers[m].at
  BY DEF Diffed, AnyMarkers
<1>1. markers[m] \in Look \cup {Absent} /\ nodes[m] \in Look \cup {Absent}
  BY DEF RideMapTypeOK, AnyMarkers
<1>2. CASE markers[m] = Absent \/ nodes[m] = Absent
  BY <1>1, <1>2 DEF Diffed
<1>3. CASE markers[m] # Absent /\ nodes[m] # Absent
  <2>1. Diffed[m] = [nodes[m] EXCEPT !.at = markers[m].at]
    BY <1>3 DEF Diffed
  <2>2. Diffed[m] \in Look /\ Diffed[m].at = markers[m].at
    BY <1>1, <1>3, <2>1 DEF Look
  <2> QED
    BY <1>3, <2>2, RideMapAssumption
<1> QED
  BY <1>2, <1>3

LEMMA RideMapInitInv == RideMapInit => RideMapInv
  BY DEF RideMapInit, RideMapInv, RideMapTypeOK, MapShowsThePage, NoMarker, AnyMarkers

LEMMA RideMapStepInv == RideMapInv /\ [RideMapNext]_rideMapVars => RideMapInv'
<1> USE DEF RideMapInv, RideMapTypeOK
<1> SUFFICES ASSUME RideMapInv, [RideMapNext]_rideMapVars PROVE RideMapInv'
  OBVIOUS
<1>1. CASE ScriptEnds \/ ApiSettles
  BY <1>1 DEF ScriptEnds, ApiSettles, props, canvas, MapShowsThePage
<1>2. CASE Mount
  BY <1>2 DEF Mount, LoadYandexMaps, vendor, MapShowsThePage, NoMarker, AnyMarkers
<1>3. CASE Unmount
  BY <1>3 DEF Unmount, vendor, props, MapShowsThePage, NoMarker, AnyMarkers
<1>4. CASE MapCreated
  BY <1>4 DEF MapCreated, vendor, props, canvas, MapShowsThePage
<1>5. CASE MapFailed
  BY <1>5 DEF MapFailed, LeafletShows, vendor, props, MapShowsThePage
<1>6. CASE PropsChange
  BY <1>6 DEF PropsChange, vendor, props, canvas, MapShowsThePage
<1>7. CASE Effects
  <2>1. CASE status = "ready" /\ nodes' = Diffed /\ view' = center
    BY <1>7, <2>1, DiffedOK DEF Effects, LeafletShows, vendor, props, MapShowsThePage
  <2>2. CASE status = "error" /\ nodes' = markers /\ view' = center
    BY <1>7, <2>2 DEF Effects, LeafletShows, vendor, props, MapShowsThePage
  <2>3. CASE status = "loading" /\ UNCHANGED canvas
    BY <1>7, <2>3 DEF Effects, LeafletShows, vendor, props, canvas, MapShowsThePage
  <2> QED
    BY <1>7, <2>1, <2>2, <2>3 DEF Effects, LeafletShows
<1>8. CASE UNCHANGED rideMapVars
  BY <1>8 DEF rideMapVars, vendor, props, canvas, MapShowsThePage
<1> QED
  BY <1>1, <1>2, <1>3, <1>4, <1>5, <1>6, <1>7, <1>8 DEF RideMapNext

LEMMA RideMapInvHolds == RideMapSpec => []RideMapInv
  BY RideMapInitInv, RideMapStepInv, PTL DEF RideMapSpec

(* The variables of the map keep their types.                                *)
THEOREM RideMapTypeCorrect == RideMapSpec => []RideMapTypeOK
  BY RideMapInvHolds, PTL DEF RideMapInv

(* Whatever the script of the vendor does and however often pages come and   *)
(* go, a map at rest shows the markers of its page, wherever they have moved.*)
THEOREM MapIsRight == RideMapSpec => []MapShowsThePage
  BY RideMapInvHolds, PTL DEF RideMapInv

-----------------------------------------------------------------------------
(* The driver's page.                                                        *)

(* The page waits for one request of the switch at a time; it is deaf only   *)
(* to what has not been served; a button's call is about a trip.             *)
CallsOK ==
    /\ \A i, j \in Pending(Switch) : i = j
    /\ \A i \in Call : /\ call[i].deaf => call[i].at = "sent"
                       /\ call[i].kind \in Button => call[i].trip \in Assignment

(* A page that has been told it is offline, or has stopped, is right until   *)
(* something loosens it: the driver is offline, no position is under way,    *)
(* and no request to go online but the page's own.                           *)
StopHolds ==
    ~loose => /\ \A i \in Call : call[i].kind = "online" => call[i].at # "ok" /\ ~call[i].deaf
              /\ \/ ~online /\ Pending(Switch) = {}
                 \/ \E i \in Pending({"offline"}) : call[i].at = "ok"
                 => availability = "offline" /\ pings = 0

(* While the card is fresh, every answer the page still listens to says what *)
(* is true, and if the card does not, there is one.                          *)
Telling(i) == poll[i].at = "answered" /\ ~poll[i].deaf
CardIsTold ==
    fresh /\ online =>
        /\ \A i \in Poll : Telling(i) => poll[i].seen = Truth
        /\ card = Truth \/ \E i \in Poll : Telling(i)

(* A page that is offline listens to no poll, and to a call of a button only *)
(* if that was under way as it went offline.                                 *)
OfflineIsDeaf ==
    ~online => /\ \A i \in Poll : poll[i].at = "free" \/ poll[i].deaf
               /\ ~lateAct => card = NoCard /\ Pending(Button) = {}

DriverPageInv ==
    /\ DriverPageTypeOK /\ CallsOK
    /\ StopHolds /\ CardIsTold /\ OfflineIsDeaf

LEMMA ConstantsOK ==
    /\ NoPoll \in PollRecord /\ NoCall \in CallRecord /\ NoCard \in Card
    /\ NoPoll.at = "free" /\ NoCall.at = "none" /\ NoCall.kind = "none" /\ ~NoCall.deaf
    /\ Switch = {"online", "offline"} /\ Button = {"start", "complete", "cancel"}
  BY DEF NoPoll, NoCall, NoCard, PollRecord, CallRecord, Card, Switch, Button

LEMMA DriverPageInitInv == DriverPageInit => DriverPageInv
<1> SUFFICES ASSUME DriverPageInit PROVE DriverPageInv
  OBVIOUS
<1>1. DriverPageTypeOK
  BY ConstantsOK DEF DriverPageInit, DriverPageTypeOK
<1>2. /\ \A i \in Poll : poll[i].at = "free"
      /\ \A i \in Call : call[i] = NoCall
  BY ConstantsOK DEF DriverPageInit
<1>3. \A kinds : "none" \notin kinds => Pending(kinds) = {}
  BY <1>2, ConstantsOK DEF Pending
<1>4. Pending(Switch) = {} /\ Pending(Button) = {} /\ Pending({"offline"}) = {}
  BY <1>3, ConstantsOK
<1>5. CallsOK /\ StopHolds
  BY <1>2, <1>4, ConstantsOK DEF DriverPageInit, CallsOK, StopHolds
<1>6. CardIsTold /\ OfflineIsDeaf
  BY <1>2, <1>4, ConstantsOK DEF DriverPageInit, CardIsTold, OfflineIsDeaf
<1> QED
  BY <1>1, <1>5, <1>6 DEF DriverPageInv

LEMMA TruthOK == assigned \in [Assignment -> {"none", "matched", "in_progress", "ended"}]
                 => Truth \in Card
<1> SUFFICES ASSUME assigned \in [Assignment -> {"none", "matched", "in_progress", "ended"}]
             PROVE  Truth \in Card
  OBVIOUS
<1>1. CASE \E t \in Assignment : FirstActive(t)
  <2> DEFINE t == CHOOSE t \in Assignment : FirstActive(t)
  <2>1. t \in Assignment /\ FirstActive(t)
    BY <1>1
  <2>2. assigned[t] \in {"matched", "in_progress"}
    BY <2>1 DEF FirstActive, ActiveTrips
  <2>3. Truth = [trip |-> t, status |-> assigned[t]]
    BY <1>1 DEF Truth
  <2> QED
    BY <2>1, <2>2, <2>3 DEF Card
<1>2. CASE ~\E t \in Assignment : FirstActive(t)
  BY <1>2, ConstantsOK DEF Truth
<1> QED
  BY <1>1, <1>2

LEMMA TruthStays == UNCHANGED assigned => Truth' = Truth
  BY DEF Truth, FirstActive, NewerThan, ActiveTrips

LEMMA DeafenedOK ==
    ASSUME poll \in [Poll -> PollRecord]
    PROVE  /\ Deafened \in [Poll -> PollRecord]
           /\ \A i \in Poll : Deafened[i].at = "free" \/ Deafened[i].deaf
  BY ConstantsOK DEF Deafened, PollRecord

(* What each step does to the requests of the switch and the buttons: one of *)
(* them, of the kind of the step, is sent, is served, is forgotten, or is no *)
(* longer waited for; a page that is left waits for none.                    *)
Sends(i, kinds, c) ==
    /\ Pending(kinds) = {} /\ c.kind \in kinds /\ c.at = "sent" /\ ~c.deaf
    /\ call' = [call EXCEPT ![i] = c]
Becomes(i, c) ==
    /\ c \in {NoCall, Abandoned(call[i]), Reply(i, "ok"), Reply(i, "refused")}
    /\ call' = [call EXCEPT ![i] = c]
AllAbandoned == call' = [j \in Call |-> Abandoned(call[j])]

LEMMA ReplyOK ==
    ASSUME DriverPageTypeOK, CallsOK, NEW i \in Call,
           NEW c \in {NoCall, Abandoned(call[i]), Reply(i, "ok"), Reply(i, "refused")}
    PROVE  /\ c \in CallRecord
           /\ c.deaf => c.at = "sent"
           /\ c.deaf => c = Abandoned(call[i]) /\ call[i].at = "sent"
           /\ c.kind \in {"none", call[i].kind}
           /\ c.kind # "none" => c.trip = call[i].trip
           /\ c.kind # "none" /\ ~c.deaf => ~call[i].deaf /\ c.at \in {"ok", "refused"}
           /\ c.at = "ok" /\ c.kind # "none" => c = Reply(i, "ok")
<1>1. call[i] \in CallRecord
  BY DEF DriverPageTypeOK
<1>2. CASE c = NoCall
  BY <1>2, ConstantsOK
<1>3. CASE c = Abandoned(call[i]) /\ call[i].at = "sent"
  <2>1. c = [call[i] EXCEPT !.deaf = TRUE]
    BY <1>3 DEF Abandoned
  <2>2. /\ c \in CallRecord /\ c.deaf /\ c.at = "sent"
        /\ c.kind = call[i].kind /\ c.trip = call[i].trip
    BY <1>1, <1>3, <2>1 DEF CallRecord
  <2> QED
    BY <1>3, <2>2
<1>4. ASSUME NEW at \in {"ok", "refused"}, c = [call[i] EXCEPT !.at = at], ~call[i].deaf,
             c = Reply(i, at)
      PROVE  /\ c \in CallRecord /\ ~c.deaf /\ c.at = at
             /\ c.kind = call[i].kind /\ c.trip = call[i].trip
  BY <1>1, <1>4 DEF CallRecord
<1> QED
  BY <1>2, <1>3, <1>4 DEF Abandoned, Reply

(* The requests of every step, one of these three or none.                   *)
LEMMA CallCases ==
    ASSUME DriverPageInv, [DriverPageNext]_driverPageVars
    PROVE  \/ UNCHANGED call
           \/ AllAbandoned /\ Leave
           \/ \E i \in Call : \E c : Becomes(i, c)
           \/ \E i \in Call, c \in CallRecord :
                 /\ Sends(i, Switch, c) \/ Sends(i, Button, c)
                 /\ c.kind \in Button => c.trip \in Assignment
<1> USE DEF Becomes
<1>1. ASSUME NEW t \in Assignment, Assigned(t) \/ CancelledByRider(t) PROVE UNCHANGED call
  BY <1>1 DEF Assigned, CancelledByRider
<1>2. CASE PingArrives \/ PingLost \/ SendPing
  BY <1>2 DEF PingArrives, PingLost, SendPing
<1>3. ASSUME NEW i \in Call, ToggleOnline(i)
      PROVE  \E c \in CallRecord : Sends(i, Switch, c) /\ c.kind \notin Button
  <2> DEFINE c == [NoCall EXCEPT !.kind = IF online THEN "offline" ELSE "online", !.at = "sent"]
  <2>1. c \in CallRecord /\ c.kind \in Switch /\ c.kind \notin Button /\ c.at = "sent" /\ ~c.deaf
    BY DEF NoCall, CallRecord, Switch, Button
  <2>2. Pending(Switch) = {} /\ call' = [call EXCEPT ![i] = c]
    BY <1>3 DEF ToggleOnline
  <2> QED
    BY <2>1, <2>2 DEF Sends
<1>4. ASSUME NEW i \in Call, ToggleServed(i) \/ ToggleAnswered(i) PROVE \E c : Becomes(i, c)
  BY <1>4 DEF ToggleServed, ToggleAnswered
<1>5. ASSUME NEW i \in Call, NEW kind \in Button, Click(i, kind)
      PROVE  \E c \in CallRecord : Sends(i, Button, c) /\ c.trip \in Assignment
  <2> DEFINE c == [kind |-> kind, trip |-> card.trip, at |-> "sent", deaf |-> FALSE]
  <2>1. card.trip \in Assignment
    <3>1. card \in Card
      BY DEF DriverPageInv, DriverPageTypeOK
    <3>2. NoCard.status = "none"
      BY DEF NoCard
    <3>3. card.status \in {"matched", "in_progress"} \/ card # NoCard
      BY <1>5, Zenon DEF Click
    <3> QED
      BY <3>1, <3>2, <3>3 DEF Card
  <2>2. c \in CallRecord /\ c.trip \in Assignment /\ c.kind \in Button /\ c.at = "sent" /\ ~c.deaf
    BY <2>1 DEF CallRecord
  <2>3. Pending(Button) = {} /\ call' = [call EXCEPT ![i] = c]
    BY <1>5 DEF Click
  <2> HIDE DEF c
  <2> QED
    BY <2>2, <2>3 DEF Sends
<1>6. ASSUME NEW i \in Call, ActServed(i) \/ ActAnswered(i) \/ CallLost(i)
      PROVE  \E c : Becomes(i, c)
  <2>1. CASE ActServed(i)
    BY <2>1 DEF ActServed
  <2>2. CASE ActAnswered(i)
    BY <2>2 DEF ActAnswered
  <2>3. CASE CallLost(i)
    BY <2>3 DEF CallLost
  <2> QED
    BY <1>6, <2>1, <2>2, <2>3
<1>7. ASSUME NEW i \in Poll, PollServed(i) \/ SendPoll(i) \/ PollAnswered(i) \/ PollLost(i)
      PROVE  UNCHANGED call
  BY <1>7 DEF PollServed, SendPoll, PollAnswered, PollLost
<1>8. CASE Leave
  BY <1>8 DEF Leave, AllAbandoned
<1>9. CASE UNCHANGED driverPageVars
  BY <1>9 DEF driverPageVars
<1> QED
  BY <1>1, <1>2, <1>3, <1>4, <1>5, <1>6, <1>7, <1>8, <1>9 DEF DriverPageNext

LEMMA AbandonedOK ==
    ASSUME DriverPageTypeOK, NEW i \in Call
    PROVE  LET c == Abandoned(call[i])
           IN  /\ c \in CallRecord
               /\ c = NoCall \/ (c.deaf /\ c.at = "sent" /\ call[i].at = "sent"
                                 /\ c.kind = call[i].kind /\ c.trip = call[i].trip)
<1>1. call[i] \in CallRecord
  BY DEF DriverPageTypeOK
<1>2. [call[i] EXCEPT !.deaf = TRUE] \in CallRecord
  BY <1>1 DEF CallRecord
<1>3. LET c == [call[i] EXCEPT !.deaf = TRUE]
      IN  c.deaf /\ c.at = call[i].at /\ c.kind = call[i].kind /\ c.trip = call[i].trip
  BY <1>1 DEF CallRecord
<1> QED
  BY <1>2, <1>3, ConstantsOK DEF Abandoned

LEMMA CallsStep == DriverPageInv /\ [DriverPageNext]_driverPageVars
                   => call' \in [Call -> CallRecord] /\ CallsOK'
<1> SUFFICES ASSUME DriverPageInv, [DriverPageNext]_driverPageVars
             PROVE  call' \in [Call -> CallRecord] /\ CallsOK'
  OBVIOUS
<1> USE DEF DriverPageInv, DriverPageTypeOK
<1>1. CASE UNCHANGED call
  BY <1>1 DEF CallsOK, Pending
<1>2. CASE AllAbandoned
  <2>1. \A j \in Call : /\ call'[j] \in CallRecord
                        /\ call'[j] = NoCall \/ (/\ call'[j].deaf /\ call'[j].at = "sent"
                                                 /\ call'[j].kind = call[j].kind
                                                 /\ call'[j].trip = call[j].trip)
    BY <1>2, AbandonedOK DEF AllAbandoned
  <2>2. call' \in [Call -> CallRecord]
    BY <1>2, <2>1 DEF AllAbandoned
  <2>3. Pending(Switch)' = {}
    BY <2>1, ConstantsOK DEF Pending
  <2>4. \A j \in Call : /\ call'[j].deaf => call'[j].at = "sent"
                        /\ call'[j].kind \in Button => call'[j].trip \in Assignment
    BY <2>1, ConstantsOK DEF CallsOK
  <2> QED
    BY <2>2, <2>3, <2>4 DEF CallsOK
<1>3. ASSUME NEW i \in Call, NEW c, Becomes(i, c) PROVE call' \in [Call -> CallRecord] /\ CallsOK'
  <2>1. /\ c \in CallRecord /\ (c.deaf => c.at = "sent") /\ c.kind \in {"none", call[i].kind}
        /\ c.kind # "none" => c.trip = call[i].trip
        /\ c.kind # "none" /\ ~c.deaf => ~call[i].deaf
    BY <1>3, ReplyOK DEF Becomes
  <2>2. /\ call'[i] = c /\ \A j \in Call \ {i} : call'[j] = call[j]
        /\ call' \in [Call -> CallRecord]
    BY <1>3, <2>1 DEF Becomes
  <2>3. Pending(Switch)' \subseteq Pending(Switch)
    BY <2>1, <2>2, ConstantsOK DEF Pending
  <2>4. \A j \in Call : /\ call'[j].deaf => call'[j].at = "sent"
                        /\ call'[j].kind \in Button => call'[j].trip \in Assignment
    BY <2>1, <2>2, ConstantsOK DEF CallsOK
  <2> QED
    BY <2>2, <2>3, <2>4 DEF CallsOK
<1>4. ASSUME NEW i \in Call, NEW c \in CallRecord, Sends(i, Switch, c) \/ Sends(i, Button, c),
             c.kind \in Button => c.trip \in Assignment
      PROVE  call' \in [Call -> CallRecord] /\ CallsOK'
  <2>1. /\ call'[i] = c /\ \A j \in Call \ {i} : call'[j] = call[j]
        /\ call' \in [Call -> CallRecord] /\ ~c.deaf
    BY <1>4 DEF Sends
  <2>2. \A j, k \in Pending(Switch)' : j = k
    <3>1. CASE Sends(i, Switch, c)
      <4>1. Pending(Switch)' \subseteq {i}
        BY <2>1, <3>1 DEF Pending, Sends
      <4> QED
        BY <4>1
    <3>2. CASE Sends(i, Button, c)
      <4>1. Pending(Switch)' \subseteq Pending(Switch)
        BY <2>1, <3>2, ConstantsOK DEF Pending, Sends
      <4> QED
        BY <4>1 DEF CallsOK
    <3> QED
      BY <1>4, <3>1, <3>2
  <2>3. \A j \in Call : /\ call'[j].deaf => call'[j].at = "sent"
                        /\ call'[j].kind \in Button => call'[j].trip \in Assignment
    BY <1>4, <2>1 DEF CallsOK
  <2> QED
    BY <2>1, <2>2, <2>3 DEF CallsOK
<1> QED
  BY <1>1, <1>2, <1>3, <1>4, CallCases

(* A trip ends, or is assigned: its status stays one.                        *)
LEMMA TypeStep == DriverPageInv /\ [DriverPageNext]_driverPageVars => DriverPageTypeOK'
<1> SUFFICES ASSUME DriverPageInv, [DriverPageNext]_driverPageVars
             PROVE  DriverPageTypeOK'
  OBVIOUS
<1> USE ConstantsOK DEF DriverPageInv, DriverPageTypeOK
<1>0. call' \in [Call -> CallRecord]
  BY CallsStep
<1>1. ASSUME NEW t \in Assignment, Assigned(t) \/ CancelledByRider(t) PROVE DriverPageTypeOK'
  BY <1>0, <1>1 DEF Assigned, CancelledByRider, Ends
<1>2. CASE PingArrives \/ PingLost
  BY <1>0, <1>2 DEF PingArrives, PingLost, service, history
<1>3. ASSUME NEW i \in Call, ToggleServed(i) PROVE DriverPageTypeOK'
  <2>1. availability' \in {"offline", "online", "on_trip"} /\ loose' \in BOOLEAN
    BY <1>3 DEF ToggleServed, CallRecord
  <2> QED
    BY <1>0, <1>3, <2>1 DEF ToggleServed
<1>4. ASSUME NEW i \in Call, ActServed(i) PROVE DriverPageTypeOK'
  <2>1. call[i].kind \in Button
    BY <1>4 DEF ActServed
  <2>2. call[i].trip \in Assignment
    BY <2>1 DEF CallsOK
  <2>3. /\ availability' \in {"offline", "online", "on_trip"}
        /\ assigned' \in [Assignment -> {"none", "matched", "in_progress", "ended"}]
        /\ loose' \in BOOLEAN /\ fresh' \in BOOLEAN
    BY <1>4, <2>2 DEF ActServed, Ends, service
  <2> QED
    BY <1>0, <1>4, <2>3 DEF ActServed
<1>5. ASSUME NEW i \in Call, ToggleOnline(i) PROVE DriverPageTypeOK'
  BY <1>0, <1>5 DEF ToggleOnline, service, history
<1>6. ASSUME NEW i \in Call, ToggleAnswered(i) PROVE DriverPageTypeOK'
  <2>1. [NoPoll EXCEPT !.at = "sent"] \in PollRecord
    BY DEF NoPoll, PollRecord
  <2>2. lateAct' \in BOOLEAN
    BY <1>6 DEF ToggleAnswered
  <2>3. CASE BecomeOnline
    <3>1. poll' \in [Poll -> PollRecord] /\ pings' \in Nat
      BY <2>1, <2>3, DeafenedOK DEF BecomeOnline
    <3>2. online' \in BOOLEAN /\ fresh' \in BOOLEAN /\ card' = card
      BY <2>3 DEF BecomeOnline
    <3>3. UNCHANGED <<availability, assigned, loose>>
      BY <1>6 DEF ToggleAnswered, service
    <3> QED
      BY <1>0, <2>2, <3>1, <3>2, <3>3
  <2>4. CASE BecomeOffline
    BY <1>0, <1>6, <2>2, <2>4, DeafenedOK DEF ToggleAnswered, BecomeOffline, service
  <2> QED
    BY <1>6, <2>3, <2>4 DEF ToggleAnswered
<1>7. ASSUME NEW i \in Call, CallLost(i) PROVE DriverPageTypeOK'
  BY <1>0, <1>7 DEF CallLost, service
<1>8. CASE SendPing
  BY <1>0, <1>8 DEF SendPing, service
<1>9. ASSUME NEW i \in Poll, PollServed(i) PROVE DriverPageTypeOK'
  <2>1. poll' \in [Poll -> PollRecord]
    BY <1>9, TruthOK DEF PollServed, PollRecord
  <2>2. fresh' \in BOOLEAN
    BY <1>9 DEF PollServed
  <2>3. UNCHANGED <<availability, assigned, online, pings, card, loose, lateAct>>
    BY <1>9 DEF PollServed, service
  <2> QED
    BY <1>0, <2>1, <2>2, <2>3
<1>10. ASSUME NEW i \in Poll, SendPoll(i) \/ PollAnswered(i) \/ PollLost(i)
       PROVE  DriverPageTypeOK'
  <2>1. [poll[i] EXCEPT !.at = "sent"] \in PollRecord /\ poll[i].seen \in Card
    BY DEF PollRecord
  <2>2. poll' \in [Poll -> PollRecord] /\ card' \in Card
    BY <1>10, <2>1 DEF SendPoll, PollAnswered, PollLost
  <2>3. fresh' \in BOOLEAN
    BY <1>10 DEF SendPoll, PollAnswered, PollLost, history
  <2>4. UNCHANGED <<availability, assigned, online, pings, loose, lateAct>>
    BY <1>10 DEF SendPoll, PollAnswered, PollLost, service, history
  <2> QED
    BY <1>0, <2>2, <2>3, <2>4
<1>11. ASSUME NEW i \in Call, NEW kind \in Button, Click(i, kind) PROVE DriverPageTypeOK'
  BY <1>0, <1>11 DEF Click, service, history
<1>12. ASSUME NEW i \in Call, ActAnswered(i) PROVE DriverPageTypeOK'
  <2>1. call[i].trip \in Assignment
    BY <1>12 DEF ActAnswered, CallsOK
  <2>2. card' \in Card
    BY <1>12, <2>1 DEF ActAnswered, CardAfter, Card
  <2> QED
    BY <1>0, <1>12, <2>2 DEF ActAnswered, service
<1>13. CASE Leave
  BY <1>0, <1>13 DEF Leave, service
<1>14. CASE UNCHANGED driverPageVars
  BY <1>14 DEF driverPageVars, service, history
<1> QED
  BY <1>1, <1>2, <1>3, <1>4, <1>5, <1>6, <1>7, <1>8, <1>9, <1>10, <1>11, <1>12, <1>13, <1>14
     DEF DriverPageNext

(* A step that has to do with no request of the switch the page waits for,   *)
(* and makes nobody available, leaves a stopped page stopped.                *)
LEMMA StopStays ==
    ASSUME DriverPageInv, NEW i \in Call, NEW c, call' = [call EXCEPT ![i] = c],
           call[i].kind \in Switch => call[i].deaf,
           c.kind \in Switch => c.deaf /\ (c.kind = "offline" \/ loose'),
           UNCHANGED <<online, pings>>, loose => loose',
           availability' \in {availability, "offline"}
    PROVE  StopHolds'
<1>1. call'[i] = c /\ \A j \in Call \ {i} : call'[j] = call[j]
  BY DEF DriverPageInv, DriverPageTypeOK
<1>2. Pending(Switch)' = Pending(Switch)
  BY <1>1 DEF Pending
<1>3. \A j \in Pending({"offline"})' : j \in Pending({"offline"}) /\ call'[j] = call[j]
  BY <1>1, ConstantsOK DEF Pending
<1>4. ASSUME ~loose', NEW j \in Call, call'[j].kind = "online"
      PROVE  call'[j].at # "ok" /\ ~call'[j].deaf
  <2>1. j # i
    BY <1>1, <1>4, ConstantsOK
  <2> QED
    BY <1>1, <1>4, <2>1 DEF DriverPageInv, StopHolds
<1>5. ASSUME ~loose', \/ ~online' /\ Pending(Switch)' = {}
                      \/ \E j \in Pending({"offline"})' : call'[j].at = "ok"
      PROVE  availability' = "offline" /\ pings' = 0
  BY <1>2, <1>3, <1>5 DEF DriverPageInv, StopHolds
<1> QED
  BY <1>4, <1>5 DEF StopHolds

LEMMA StopStep == DriverPageInv /\ [DriverPageNext]_driverPageVars => StopHolds'
<1> SUFFICES ASSUME DriverPageInv, [DriverPageNext]_driverPageVars PROVE StopHolds'
  OBVIOUS
<1> USE ConstantsOK DEF DriverPageInv, DriverPageTypeOK
<1>1. CASE loose'
  BY <1>1 DEF StopHolds
<1>2. CASE UNCHANGED <<availability, online, call, pings, loose>>
  BY <1>2 DEF StopHolds, Pending
<1>3. ASSUME NEW t \in Assignment, Assigned(t) \/ CancelledByRider(t) PROVE StopHolds'
  <2>1. CASE Assigned(t)
    BY <2>1 DEF Assigned, StopHolds, Pending
  <2>2. CASE CancelledByRider(t)
    BY <1>1, <2>2 DEF CancelledByRider, Ends
  <2> QED
    BY <1>3, <2>1, <2>2
<1>4. CASE PingArrives \/ PingLost
  <2>1. pings > 0 /\ UNCHANGED <<online, call, loose>>
    BY <1>4 DEF PingArrives, PingLost, history
  <2> QED
    BY <2>1 DEF StopHolds, Pending
<1>5. ASSUME NEW i \in Call, ToggleServed(i), ~loose' PROVE StopHolds'
  <2>1. call[i].at = "sent" /\ call[i].kind \in Switch /\ UNCHANGED <<online, pings>>
    BY <1>5 DEF ToggleServed
  <2>2. CASE call[i].deaf
    <3>1. ~loose /\ call[i].kind = "offline"
      BY <1>5, <2>1, <2>2 DEF ToggleServed, StopHolds
    <3>2. availability' = "offline" /\ call' = [call EXCEPT ![i] = NoCall]
      BY <1>5, <2>2, <3>1 DEF ToggleServed, Reply
    <3> QED
      BY <2>1, <2>2, <3>1, <3>2, StopStays
  <2>3. CASE ~call[i].deaf
    <3>1. call[i].kind = "offline" /\ pings = 0 /\ ~Overtaken(i) /\ availability' = "offline"
      <4>1. loose' <=> call[i].kind = "online" \/ pings > 0 \/ Overtaken(i)
        BY <1>5, <2>3, Zenon DEF ToggleServed
      <4>2. call[i].kind # "online" /\ ~(pings > 0) /\ ~Overtaken(i)
        BY <1>5, <4>1, Zenon
      <4>3. availability' = call[i].kind
        BY <1>5 DEF ToggleServed
      <4> QED
        BY <2>1, <4>2, <4>3
    <3>2. i \in Pending(Switch) /\ call[i] \in CallRecord
      BY <2>1, <2>3 DEF Pending
    <3>3. call'[i].kind = "offline" /\ \A j \in Call \ {i} : call'[j] = call[j]
      BY <1>5, <2>3, <3>1, <3>2 DEF ToggleServed, Reply, CallRecord
    <3>4. ASSUME NEW j \in Call, call'[j].kind = "online"
          PROVE  call'[j].at # "ok" /\ ~call'[j].deaf
      <4>1. j # i /\ call'[j] = call[j]
        BY <3>3, <3>4
      <4>2. call[j].at # "sent"
        BY <3>1, <3>4, <4>1 DEF Overtaken
      <4>3. ~call[j].deaf
        BY <4>2 DEF CallsOK
      <4>4. j \in Pending(Switch)
        BY <3>4, <4>1, <4>3 DEF Pending
      <4> QED
        BY <3>2, <4>1, <4>4 DEF CallsOK
    <3> QED
      BY <2>1, <3>1, <3>4 DEF StopHolds
  <2> QED
    BY <2>2, <2>3
<1>6. ASSUME NEW i \in Call, ActServed(i), ~loose' PROVE StopHolds'
  <2>1. /\ call[i].kind \in Button /\ UNCHANGED <<online, pings, availability, loose>>
        /\ \E at \in {"ok", "refused"} : call' = [call EXCEPT ![i] = Reply(i, at)]
    BY <1>6 DEF ActServed, Ends, service
  <2>2. PICK c : /\ c \in {Reply(i, "ok"), Reply(i, "refused")}
                 /\ call' = [call EXCEPT ![i] = c]
    BY <2>1
  <2>3. c.kind \in {"none", call[i].kind}
    BY <2>2, ReplyOK
  <2> QED
    BY <2>1, <2>2, <2>3, StopStays
<1>7. ASSUME NEW i \in Call, ToggleOnline(i) PROVE StopHolds'
  <2> DEFINE c == [NoCall EXCEPT !.kind = IF online THEN "offline" ELSE "online", !.at = "sent"]
  <2>1. /\ Pending(Switch) = {} /\ call' = [call EXCEPT ![i] = c]
        /\ UNCHANGED <<online, pings, availability, loose>>
    BY <1>7 DEF ToggleOnline, service, history
  <2>2. c.kind \in Switch /\ c.at = "sent" /\ ~c.deaf
    BY DEF NoCall
  <2>3. call'[i] = c /\ \A j \in Call \ {i} : call'[j] = call[j]
    BY <2>1
  <2>4. i \in Pending(Switch)'
    BY <2>2, <2>3 DEF Pending
  <2>5. \A j \in Pending({"offline"})' : j = i
    BY <2>1, <2>3 DEF Pending
  <2> QED
    BY <2>1, <2>2, <2>3, <2>4, <2>5 DEF StopHolds
<1>8. ASSUME NEW i \in Call, ToggleAnswered(i), ~loose' PROVE StopHolds'
  <2>1. /\ call[i].at = "ok" /\ call[i].kind \in Switch /\ ~loose
        /\ call' = [call EXCEPT ![i] = NoCall] /\ UNCHANGED availability
    BY <1>8 DEF ToggleAnswered, service
  <2>2. call[i].kind = "offline" /\ ~call[i].deaf
    BY <2>1 DEF StopHolds, CallsOK
  <2>3. i \in Pending({"offline"})
    BY <2>2 DEF Pending
  <2>4. availability = "offline" /\ pings = 0
    BY <2>1, <2>3 DEF StopHolds
  <2>5. pings' = pings
    BY <1>8, <2>2 DEF ToggleAnswered, BecomeOffline
  <2>6. call'[i] = NoCall /\ \A j \in Call \ {i} : call'[j] = call[j]
    BY <2>1
  <2>7. ASSUME NEW j \in Call, call'[j].kind = "online"
        PROVE  call'[j].at # "ok" /\ ~call'[j].deaf
    BY <2>1, <2>6, <2>7 DEF StopHolds
  <2> QED
    BY <2>1, <2>4, <2>5, <2>7 DEF StopHolds
<1>9. ASSUME NEW i \in Call, CallLost(i), ~loose' PROVE StopHolds'
  <2>1. PICK c \in {NoCall, Abandoned(call[i])} : call' = [call EXCEPT ![i] = c]
    BY <1>9 DEF CallLost
  <2>2. ~loose /\ i \notin Pending(Switch) /\ UNCHANGED <<availability, online, pings>>
    BY <1>9 DEF CallLost, service
  <2>3. call[i].kind \in Switch => call[i].deaf
    BY <2>2 DEF Pending
  <2>4. call[i].kind # "online"
    BY <2>2, <2>3 DEF StopHolds
  <2>5. c = NoCall \/ (c.deaf /\ c.kind = call[i].kind)
    BY <2>1, AbandonedOK
  <2> QED
    BY <2>1, <2>2, <2>3, <2>4, <2>5, StopStays
<1>10. CASE SendPing
  <2>1. online /\ UNCHANGED <<availability, online, call>>
    BY <1>10 DEF SendPing, Broadcasting, service
  <2>2. ~loose' => ~loose /\ Pending({"offline"}) = {}
    BY <1>10 DEF SendPing
  <2> QED
    BY <2>1, <2>2 DEF StopHolds, Pending
<1>11. ASSUME NEW i \in Poll, PollServed(i) \/ SendPoll(i) \/ PollAnswered(i) \/ PollLost(i)
       PROVE  StopHolds'
  BY <1>2, <1>11 DEF PollServed, SendPoll, PollAnswered, PollLost, service, history
<1>12. ASSUME NEW i \in Call, NEW kind \in Button, Click(i, kind) PROVE StopHolds'
  <2> DEFINE c == [kind |-> kind, trip |-> card.trip, at |-> "sent", deaf |-> FALSE]
  <2>1. call[i] = NoCall /\ call' = [call EXCEPT ![i] = c]
        /\ UNCHANGED <<availability, online, pings, loose>>
    BY <1>12 DEF Click, service, history
  <2>2. c.kind \notin Switch
    OBVIOUS
  <2> HIDE DEF c
  <2> QED
    BY <2>1, <2>2, StopStays
<1>13. ASSUME NEW i \in Call, ActAnswered(i) PROVE StopHolds'
  <2>1. /\ call[i].kind \in Button /\ call' = [call EXCEPT ![i] = NoCall]
        /\ UNCHANGED <<availability, online, pings, loose>>
    BY <1>13 DEF ActAnswered, service
  <2> QED
    BY <2>1, StopStays
<1>14. CASE Leave /\ ~loose'
  <2>1. ~online /\ Pending(Switch) = {} /\ ~loose /\ UNCHANGED <<availability, pings>>
    BY <1>14 DEF Leave, service
  <2>2. availability = "offline" /\ pings = 0
    BY <2>1 DEF StopHolds
  <2>3. ASSUME NEW j \in Call, call'[j].kind = "online"
        PROVE  call'[j].at # "ok" /\ ~call'[j].deaf
    <3>1. call'[j] = Abandoned(call[j])
      BY <1>14 DEF Leave
    <3>2. call[j].kind = "online"
      BY <2>3, <3>1, AbandonedOK
    <3>3. ~call[j].deaf
      BY <2>1, <3>2 DEF StopHolds
    <3>4. j \in Pending(Switch)
      BY <3>2, <3>3 DEF Pending
    <3> QED
      BY <2>1, <3>4
  <2> QED
    BY <2>1, <2>2, <2>3 DEF StopHolds
<1>15. CASE UNCHANGED driverPageVars
  BY <1>2, <1>15 DEF driverPageVars, service, history
<1> QED
  BY <1>1, <1>3, <1>4, <1>5, <1>6, <1>7, <1>8, <1>9, <1>10, <1>11, <1>12, <1>13, <1>14, <1>15
     DEF DriverPageNext

LEMMA CardStep == DriverPageInv /\ [DriverPageNext]_driverPageVars => CardIsTold'
<1> SUFFICES ASSUME DriverPageInv, [DriverPageNext]_driverPageVars PROVE CardIsTold'
  OBVIOUS
<1> USE DEF DriverPageInv, DriverPageTypeOK, CardIsTold, Telling
<1>1. CASE ~fresh' \/ ~online'
  BY <1>1
<1>2. CASE UNCHANGED <<assigned, card, poll, fresh, online>>
  BY <1>2, TruthStays
<1>3. ASSUME NEW i \in Poll, PollServed(i) PROVE CardIsTold'
  <2>1. poll' = [poll EXCEPT ![i].at = "answered", ![i].seen = Truth]
    BY <1>3 DEF PollServed
  <2>2. /\ poll'[i].at = "answered" /\ poll'[i].seen = Truth /\ poll'[i].deaf = poll[i].deaf
        /\ \A j \in Poll \ {i} : poll'[j] = poll[j]
    BY <2>1 DEF PollRecord
  <2>3. UNCHANGED <<assigned, card, online>> /\ Truth' = Truth
    BY <1>3, TruthStays DEF PollServed, service
  <2>4. CASE poll[i].deaf
    <3>1. fresh' = fresh
      BY <1>3, <2>4 DEF PollServed
    <3>2. poll[i].at = "sent"
      BY <1>3 DEF PollServed
    <3> QED
      BY <2>2, <2>3, <2>4, <3>1, <3>2
  <2>5. CASE ~poll[i].deaf
    <3>1. fresh' => \A j \in Poll \ {i} : poll[j].at = "free" \/ poll[j].deaf
      BY <1>3, <2>5 DEF PollServed
    <3> QED
      BY <2>2, <2>3, <2>5, <3>1
  <2> QED
    BY <2>4, <2>5
<1>4. ASSUME NEW i \in Poll, SendPoll(i) \/ PollAnswered(i) \/ PollLost(i)
      PROVE  CardIsTold'
  <2>1. UNCHANGED <<assigned, online>> /\ Truth' = Truth
    BY <1>4, TruthStays DEF SendPoll, PollAnswered, PollLost, service
  <2>2. /\ poll'[i].at # "answered"
        /\ \A j \in Poll \ {i} : poll'[j] = poll[j]
    BY <1>4, ConstantsOK DEF SendPoll, PollAnswered, PollLost, PollRecord
  <2>3. CASE SendPoll(i)
    <3>1. UNCHANGED <<card, fresh>> /\ poll[i].at # "answered"
      BY <2>3 DEF SendPoll, history
    <3> QED
      BY <2>1, <2>2, <3>1
  <2>4. CASE PollAnswered(i)
    <3>1. fresh' = fresh /\ poll[i].at = "answered"
      BY <2>4 DEF PollAnswered, history
    <3>2. card' = IF ~poll[i].deaf THEN poll[i].seen ELSE card
      BY <2>4 DEF PollAnswered, Heard
    <3> QED
      BY <2>1, <2>2, <3>1, <3>2
  <2>5. CASE PollLost(i)
    <3>1. (fresh' => fresh /\ poll[i].deaf) /\ card' = card
      BY <2>5 DEF PollLost
    <3> QED
      BY <2>1, <2>2, <3>1
  <2> QED
    BY <1>4, <2>3, <2>4, <2>5
<1>5. CASE PingArrives \/ PingLost \/ SendPing
  BY <1>2, <1>5 DEF PingArrives, PingLost, SendPing, service, history
<1>6. ASSUME NEW i \in Call, ToggleServed(i) \/ ToggleOnline(i) PROVE CardIsTold'
  BY <1>2, <1>6 DEF ToggleServed, ToggleOnline, service, history
<1>7. ASSUME NEW i \in Call, ToggleAnswered(i) PROVE CardIsTold'
  BY <1>1, <1>7 DEF ToggleAnswered, BecomeOnline, BecomeOffline
<1>8. ASSUME NEW i \in Call, CallLost(i) PROVE CardIsTold'
  <2>1. UNCHANGED <<assigned, online, card, poll>> /\ (fresh' => fresh)
    BY <1>8 DEF CallLost, service
  <2> QED
    BY <1>1, <1>2, <2>1
<1>9. ASSUME NEW i \in Call, ActServed(i) \/ ActAnswered(i) PROVE CardIsTold'
  BY <1>1, <1>9 DEF ActServed, ActAnswered
<1>10. CASE Leave
  BY <1>1, <1>10 DEF Leave
<1>11. ASSUME NEW t \in Assignment, Assigned(t) \/ CancelledByRider(t) PROVE CardIsTold'
  BY <1>1, <1>11 DEF Assigned, CancelledByRider
<1>12. ASSUME NEW i \in Call, NEW kind \in Button, Click(i, kind) PROVE CardIsTold'
  BY <1>2, <1>12 DEF Click, service, history
<1>13. CASE UNCHANGED driverPageVars
  BY <1>2, <1>13 DEF driverPageVars, service, history
<1> QED
  BY <1>3, <1>4, <1>5, <1>6, <1>7, <1>8, <1>9, <1>10, <1>11, <1>12, <1>13
     DEF DriverPageNext

LEMMA OfflineStep == DriverPageInv /\ [DriverPageNext]_driverPageVars => OfflineIsDeaf'
<1> SUFFICES ASSUME DriverPageInv, [DriverPageNext]_driverPageVars, ~online' PROVE OfflineIsDeaf'
  BY DEF OfflineIsDeaf
<1> USE ConstantsOK DEF DriverPageInv, DriverPageTypeOK, OfflineIsDeaf
<1>1. CASE /\ UNCHANGED <<online, card, poll, lateAct>>
           /\ Pending(Button)' \subseteq Pending(Button)
  BY <1>1
<1>2. ASSUME NEW i \in Call, NEW c, Becomes(i, c)
      PROVE  Pending(Button)' \subseteq Pending(Button)
  <2>1. /\ c.kind \in {"none", call[i].kind}
        /\ c.kind # "none" /\ ~c.deaf => ~call[i].deaf
    BY <1>2, ReplyOK DEF Becomes
  <2> QED
    BY <1>2, <2>1 DEF Becomes, Pending
<1>3. ASSUME NEW i \in Poll, PollServed(i) \/ PollAnswered(i) \/ PollLost(i)
      PROVE  OfflineIsDeaf'
  <2>1. ~online /\ UNCHANGED <<call, lateAct>> /\ poll[i].at # "free"
    BY <1>3 DEF PollServed, PollAnswered, PollLost, history
  <2>2. poll[i].deaf /\ card' = card
    BY <1>3, <2>1 DEF PollServed, PollAnswered, PollLost, Heard
  <2>3. poll'[i].at = "free" \/ poll'[i].deaf
    BY <1>3, <2>2 DEF PollServed, PollAnswered, PollLost, PollRecord
  <2>4. \A j \in Poll \ {i} : poll'[j] = poll[j]
    BY <1>3 DEF PollServed, PollAnswered, PollLost
  <2>5. Pending(Button)' = Pending(Button)
    BY <2>1 DEF Pending
  <2> QED
    BY <2>1, <2>2, <2>3, <2>4, <2>5
<1>4. ASSUME NEW i \in Call, ToggleAnswered(i) PROVE OfflineIsDeaf'
  <2>1. BecomeOffline /\ lateAct' = (Pending(Button) # {})
    BY <1>4 DEF ToggleAnswered, BecomeOnline
  <2>2. Becomes(i, NoCall)
    BY <1>4 DEF ToggleAnswered, Becomes
  <2>3. Pending(Button)' \subseteq Pending(Button)
    BY <1>2, <2>2
  <2> QED
    BY <2>1, <2>3, DeafenedOK DEF BecomeOffline
<1>5. ASSUME NEW i \in Call, ToggleServed(i) \/ ActServed(i) \/ CallLost(i) PROVE OfflineIsDeaf'
  <2>1. \E c : Becomes(i, c)
    BY <1>5 DEF ToggleServed, ActServed, CallLost, Becomes
  <2>2. Pending(Button)' \subseteq Pending(Button)
    BY <1>2, <2>1
  <2>3. UNCHANGED <<online, card, poll, lateAct>>
    BY <1>5 DEF ToggleServed, ActServed, CallLost
  <2> QED
    BY <1>1, <2>2, <2>3
<1>6. ASSUME NEW i \in Call, ToggleOnline(i) PROVE OfflineIsDeaf'
  <2>1. UNCHANGED <<online, card, poll, lateAct>>
    BY <1>6 DEF ToggleOnline, history
  <2>2. PICK c \in CallRecord : c.kind \notin Button /\ call' = [call EXCEPT ![i] = c]
    <3> DEFINE c == [NoCall EXCEPT !.kind = IF online THEN "offline" ELSE "online", !.at = "sent"]
    <3>1. c \in CallRecord /\ c.kind \notin Button
      BY DEF NoCall, CallRecord
    <3>2. call' = [call EXCEPT ![i] = c]
      BY <1>6 DEF ToggleOnline
    <3> QED
      BY <3>1, <3>2
  <2>3. Pending(Button)' \subseteq Pending(Button)
    BY <2>2 DEF Pending
  <2> QED
    BY <1>1, <2>1, <2>3
<1>7. ASSUME NEW i \in Call, ActAnswered(i) PROVE OfflineIsDeaf'
  <2>1. ~online /\ UNCHANGED <<poll, lateAct>> /\ i \in Pending(Button)
    BY <1>7 DEF ActAnswered, CallsOK, Pending
  <2> QED
    BY <2>1
<1>8. CASE Leave
  <2>1. \A j \in Call : call'[j] = NoCall \/ call'[j].deaf
    BY <1>8, AbandonedOK DEF Leave
  <2>2. Pending(Button)' = {}
    BY <2>1 DEF Pending
  <2> QED
    BY <1>8, <2>2 DEF Leave
<1>9. CASE PingArrives \/ PingLost \/ SendPing
  BY <1>1, <1>9 DEF PingArrives, PingLost, SendPing, history, Pending
<1>10. ASSUME NEW t \in Assignment, Assigned(t) \/ CancelledByRider(t) PROVE OfflineIsDeaf'
  BY <1>1, <1>10 DEF Assigned, CancelledByRider, Pending
<1>11. ASSUME NEW i \in Poll, SendPoll(i) PROVE OfflineIsDeaf'
  BY <1>11 DEF SendPoll
<1>12. ASSUME NEW i \in Call, NEW kind \in Button, Click(i, kind) PROVE OfflineIsDeaf'
  BY <1>12 DEF Click
<1>13. CASE UNCHANGED driverPageVars
  BY <1>1, <1>13 DEF driverPageVars, history, Pending
<1> QED
  BY <1>3, <1>4, <1>5, <1>6, <1>7, <1>8, <1>9, <1>10, <1>11, <1>12, <1>13 DEF DriverPageNext

LEMMA DriverPageInvHolds == DriverPageSpec => []DriverPageInv
<1>1. DriverPageInv /\ [DriverPageNext]_driverPageVars => DriverPageInv'
  BY TypeStep, CallsStep, StopStep, CardStep, OfflineStep DEF DriverPageInv
<1> QED
  BY <1>1, DriverPageInitInv, PTL DEF DriverPageSpec

(* The variables of the driver's page keep their types.                      *)
THEOREM DriverPageTypeCorrect == DriverPageSpec => []DriverPageTypeOK
  BY DriverPageInvHolds, PTL DEF DriverPageInv

(* Whom the page tells that they are offline is not given trips, but for the *)
(* exceptions StoppedMeansOffline names, for any number of trips and of      *)
(* requests, polls and positions under way.                                  *)
THEOREM OfflineIsOffline == DriverPageSpec => []StoppedMeansOffline
<1>1. DriverPageInv => StoppedMeansOffline
  BY ConstantsOK DEF DriverPageInv, StopHolds, StoppedMeansOffline
<1> QED
  BY <1>1, DriverPageInvHolds, PTL

(* The card shows the driver's trip, in whatever order answers come.         *)
THEOREM CardIsRight == DriverPageSpec => []CardAgrees
<1>1. DriverPageInv => CardAgrees
  <2> SUFFICES ASSUME DriverPageInv PROVE CardAgrees
    OBVIOUS
  <2>1. online /\ fresh /\ (\A i \in Poll : poll[i].at = "free" \/ poll[i].deaf) => card = Truth
    BY DEF DriverPageInv, CardIsTold, Telling
  <2>2. ~online /\ ~lateAct => card = NoCard
    BY DEF DriverPageInv, OfflineIsDeaf
  <2> QED
    BY <2>1, <2>2 DEF CardAgrees
<1> QED
  BY <1>1, DriverPageInvHolds, PTL

-----------------------------------------------------------------------------
(* The panel.                                                                *)

(* Each of its changes is a request of module Vehicles, and what it does     *)
(* besides leaves the rows and requests alone.                               *)
LEMMA PanelStepIsVehicles == [PanelNext]_panelVars => [VehiclesNext]_vehiclesVars
<1> SUFFICES ASSUME [PanelNext]_panelVars
             PROVE  [VehiclesNext]_vehiclesVars
  OBVIOUS
<1> USE PanelAssumption
<1>1. ASSUME NEW p \in Panel, Refresh(p)
      PROVE  UNCHANGED vehiclesVars
  BY <1>1 DEF Refresh
<1>2. ASSUME NEW p \in Panel, PanelReceive(p)
      PROVE  VehiclesNext
  BY <1>2 DEF PanelReceive, VehiclesNext
<1>3. ASSUME NEW p \in Panel, NEW op \in {"create", "activate", "remove"},
             NEW v \in Vehicle \cup {NoVehicle}, PanelChange(p, op, v)
      PROVE  VehiclesNext
  BY <1>3 DEF PanelChange, VehiclesNext, Operation
<1>4. ASSUME NEW p \in Panel, NEW i \in ReadId, ReadServed(p, i) \/ ReadApplied(p, i)
      PROVE  UNCHANGED vehiclesVars
  BY <1>4 DEF ReadServed, ReadApplied
<1>5. ASSUME NEW c \in Client, ServiceSteps(c)
      PROVE  VehiclesNext
  BY <1>5 DEF ServiceSteps, VehiclesNext
<1>6. ASSUME NEW c \in Client \ Panel,
             Receive(c) \/ \E op \in Scripted, v \in Vehicle \cup {NoVehicle} : Submit(c, op, v)
      PROVE  VehiclesNext
  BY <1>6 DEF VehiclesNext
<1>7. UNCHANGED panelVars => UNCHANGED vehiclesVars
  BY DEF panelVars, vehiclesVars
<1> QED
  BY <1>1, <1>2, <1>3, <1>4, <1>5, <1>6, <1>7 DEF PanelNext

(* With panels among its clients the service behaves as Vehicles says, so    *)
(* that every theorem of VehiclesProofs holds of it.                         *)
THEOREM PanelRefinesVehicles == PanelSpec => VehiclesSpec
<1>1. PanelInit => VehiclesInit
  BY DEF PanelInit
<1> QED
  BY <1>1, PanelStepIsVehicles, PTL DEF PanelSpec, VehiclesSpec

(* A panel that has sent a change is busy until it has the answer, and then  *)
(* until the one read it waits for is applied.                               *)
BusyWhileChanging(p) ==
    /\ ~panel[p].busy => txn[p].pc = "idle"
    /\ \A i \in ReadId : read[p][i].awaited => panel[p].busy /\ txn[p].pc = "idle"
    /\ \A i, j \in ReadId : read[p][i].awaited /\ read[p][j].awaited => i = j

(* No change of its own under way, no message, no overlap, no foreign change *)
(* since the last read was served: then what the panel shows, or what it is  *)
(* about to show, is what there is.                                          *)
Quiet(p) ==
    txn[p].pc = "idle" /\ ~panel[p].err /\ ~panel[p].overlap /\ ~foreign[p]

Shows(p) ==
    /\ ~panel[p].overlap => \A i, j \in Reading(p) : i = j
    /\ Quiet(p) /\ Reading(p) = {} => panel[p].list = Listed
    /\ Quiet(p) => \A i \in ReadId : read[p][i].at = "answered" => read[p][i].seen = Listed

PanelInv ==
    /\ VehiclesInv
    /\ PanelTypeOK
    /\ \A p \in Panel : BusyWhileChanging(p) /\ Shows(p)

LEMMA NoListOK == NoList \in List /\ NoRead \in ReadState
  BY DEF NoList, List, NoRead, ReadState

LEMMA ListedOK == VehiclesTypeOK => Listed \in List
  BY DEF VehiclesTypeOK, Listed, List, Present

LEMMA PanelInitInv == PanelInit => PanelInv
<1> SUFFICES ASSUME PanelInit
             PROVE  PanelInv
  OBVIOUS
<1>1. VehiclesInv
  BY VehiclesInitInv DEF PanelInit
<1>2. PanelTypeOK
  BY NoListOK DEF PanelInit, PanelTypeOK, PanelState, Sent, ReadState
<1>3. \A p \in Panel : /\ read[p][1] = Sent(FALSE) /\ read[p][2] = NoRead
                       /\ panel[p].busy = FALSE /\ txn[p].pc = "idle"
  BY PanelAssumption DEF PanelInit, VehiclesInit, NoTxn, ReadId
<1>4. Sent(FALSE).at = "sent" /\ ~Sent(FALSE).awaited /\ NoRead.at = "free" /\ ~NoRead.awaited
  BY DEF Sent, NoRead
<1>5. \A p \in Panel : BusyWhileChanging(p) /\ Shows(p)
  BY <1>3, <1>4 DEF BusyWhileChanging, Shows, Reading, ReadId
<1> QED
  BY <1>1, <1>2, <1>5 DEF PanelInv

(* A panel whose own state, reads and request stay as they are notices only  *)
(* a change of the rows, and such a change is foreign.                       *)
LEMMA PanelStays ==
    ASSUME PanelInv, NEW p \in Panel,
           panel'[p] = panel[p], read'[p] = read[p], txn'[p] = txn[p],
           ~foreign'[p] => ~foreign[p] /\ row' = row
    PROVE  BusyWhileChanging(p)' /\ Shows(p)'
<1>1. row' = row => Listed' = Listed
  BY DEF Listed
<1>2. Reading(p)' = Reading(p)
  BY DEF Reading
<1> QED
  BY <1>1, <1>2 DEF PanelInv, BusyWhileChanging, Shows, Quiet

LEMMA StartReadInv ==
    ASSUME PanelInv, NEW p \in Panel, NEW awaited \in BOOLEAN, NEW fields \in PanelState,
           StartRead(p, awaited, fields), UNCHANGED <<row, foreign>>,
           fields.busy = panel[p].busy,
           ~panel[p].busy => txn'[p].pc = "idle",
           \A i \in ReadId : read[p][i].awaited => txn'[p].pc = "idle" /\ ~awaited,
           awaited => panel[p].busy /\ txn'[p].pc = "idle"
    PROVE  /\ panel' \in [Panel -> PanelState]
           /\ read' \in [Panel -> [ReadId -> ReadState]]
           /\ BusyWhileChanging(p)' /\ Shows(p)'
           /\ \A q \in Panel \ {p} : panel'[q] = panel[q] /\ read'[q] = read[q]
<1>1. PICK i \in ReadId \ Reading(p) :
          /\ read' = [read EXCEPT ![p][i] = Sent(awaited)]
          /\ panel' = [panel EXCEPT ![p] = [fields EXCEPT !.loading = TRUE, !.err = FALSE,
                                                !.overlap = Reading(p) # {}]]
  BY DEF StartRead
<1>2. /\ Sent(awaited) \in ReadState
      /\ Sent(awaited).at = "sent" /\ Sent(awaited).awaited = awaited
  BY NoListOK DEF Sent, NoRead, ReadState
<1>3. /\ read' \in [Panel -> [ReadId -> ReadState]]
      /\ read'[p][i] = Sent(awaited)
      /\ \A j \in ReadId \ {i} : read'[p][j] = read[p][j]
      /\ \A q \in Panel \ {p} : read'[q] = read[q]
  BY <1>1, <1>2 DEF PanelInv, PanelTypeOK
<1>4. /\ panel' \in [Panel -> PanelState]
      /\ panel'[p].busy = panel[p].busy
      /\ panel'[p].overlap = (Reading(p) # {})
      /\ \A q \in Panel \ {p} : panel'[q] = panel[q]
  BY <1>1 DEF PanelInv, PanelTypeOK, PanelState
<1>5. Reading(p)' = Reading(p) \cup {i}
  BY <1>2, <1>3 DEF Reading
<1>6. BusyWhileChanging(p)'
  <2>1. /\ panel'[p].busy <=> panel[p].busy
        /\ read'[p][i].awaited <=> awaited
    BY <1>2, <1>3, <1>4
  <2>2. /\ ~panel'[p].busy => txn'[p].pc = "idle"
        /\ \A j \in ReadId : read'[p][j].awaited => panel'[p].busy /\ txn'[p].pc = "idle"
    BY <1>3, <2>1 DEF PanelInv, BusyWhileChanging
  <2>3. \A j, k \in ReadId : read'[p][j].awaited /\ read'[p][k].awaited => j = k
    BY <1>3, <2>1 DEF PanelInv, BusyWhileChanging
  <2> QED
    BY <2>2, <2>3 DEF BusyWhileChanging
<1>7. Shows(p)'
  <2>1. \A j \in ReadId : read'[p][j].at = "answered" => j \in Reading(p)
    BY <1>2, <1>3 DEF Reading
  <2> QED
    BY <1>4, <1>5, <2>1 DEF Shows, Quiet
<1> QED
  BY <1>3, <1>4, <1>6, <1>7

LEMMA RefreshInv ==
    ASSUME PanelInv, NEW p \in Panel, Refresh(p)
    PROVE  PanelTypeOK' /\ \A q \in Panel : BusyWhileChanging(q)' /\ Shows(q)'
<1>1. panel[p] \in PanelState /\ UNCHANGED <<row, txn, foreign>>
  BY DEF PanelInv, PanelTypeOK, Refresh, vehiclesVars
<1>2. /\ panel' \in [Panel -> PanelState]
      /\ read' \in [Panel -> [ReadId -> ReadState]]
      /\ BusyWhileChanging(p)' /\ Shows(p)'
      /\ \A q \in Panel \ {p} : panel'[q] = panel[q] /\ read'[q] = read[q]
  BY <1>1, StartReadInv DEF Refresh, PanelInv, BusyWhileChanging
<1> QED
  BY <1>1, <1>2, PanelStays DEF PanelInv, PanelTypeOK

LEMMA PanelChangeInv ==
    ASSUME PanelInv, NEW p \in Panel, NEW op \in {"create", "activate", "remove"},
           NEW v \in Vehicle \cup {NoVehicle}, PanelChange(p, op, v)
    PROVE  PanelTypeOK' /\ \A q \in Panel : BusyWhileChanging(q)' /\ Shows(q)'
<1>1. p \in Client
  BY PanelAssumption
<1>2. /\ txn'[p].pc # "idle"
      /\ \A c \in Client \ {p} : txn'[c] = txn[c]
      /\ UNCHANGED <<row, read, foreign>>
  BY <1>1 DEF PanelChange, Submit, FirstStep, NoTxn, PanelInv, VehiclesInv, VehiclesTypeOK
<1>3. /\ panel' \in [Panel -> PanelState]
      /\ panel'[p].busy
      /\ panel'[p].overlap = panel[p].overlap
      /\ \A q \in Panel \ {p} : panel'[q] = panel[q]
  BY DEF PanelChange, PanelInv, PanelTypeOK, PanelState
<1>4. BusyWhileChanging(p)'
  BY <1>2, <1>3 DEF PanelChange, PanelInv, BusyWhileChanging
<1>5. Shows(p)'
  BY <1>2, <1>3 DEF PanelInv, Shows, Quiet, Reading
<1> QED
  BY <1>2, <1>3, <1>4, <1>5, PanelStays, PanelAssumption DEF PanelInv, PanelTypeOK

LEMMA ReceiveAnswerInv ==
    ASSUME PanelInv, NEW p \in Panel, PanelReceive(p)
    PROVE  PanelTypeOK' /\ \A q \in Panel : BusyWhileChanging(q)' /\ Shows(q)'
<1>1. p \in Client
  BY PanelAssumption
<1>2. /\ txn[p].pc = "done" /\ txn'[p].pc = "idle"
      /\ \A c \in Client \ {p} : txn'[c] = txn[c]
      /\ UNCHANGED <<row, foreign>>
  BY <1>1 DEF PanelReceive, Receive, NoTxn, PanelInv, VehiclesInv, VehiclesTypeOK
<1>3. panel[p].busy /\ \A i \in ReadId : ~read[p][i].awaited
  BY <1>2 DEF PanelInv, BusyWhileChanging
<1>4. CASE Succeeded(p)
  <2>1. panel[p] \in PanelState
    BY DEF PanelInv, PanelTypeOK
  <2>2. /\ panel' \in [Panel -> PanelState]
        /\ read' \in [Panel -> [ReadId -> ReadState]]
        /\ BusyWhileChanging(p)' /\ Shows(p)'
        /\ \A q \in Panel \ {p} : panel'[q] = panel[q] /\ read'[q] = read[q]
    BY <1>2, <1>3, <1>4, <2>1, StartReadInv DEF Succeeded
  <2> QED
    BY <1>2, <2>2, PanelStays, PanelAssumption DEF PanelInv, PanelTypeOK
<1>5. CASE /\ panel' = [panel EXCEPT ![p].busy = FALSE, ![p].err = TRUE]
           /\ UNCHANGED read
  <2>1. /\ panel' \in [Panel -> PanelState]
        /\ panel'[p].err
        /\ panel'[p].overlap = panel[p].overlap
        /\ \A q \in Panel \ {p} : panel'[q] = panel[q]
    BY <1>5 DEF PanelInv, PanelTypeOK, PanelState
  <2>2. BusyWhileChanging(p)'
    BY <1>2, <1>3, <1>5 DEF PanelInv, BusyWhileChanging
  <2>3. Shows(p)'
    BY <1>5, <2>1 DEF PanelInv, Shows, Quiet, Reading
  <2> QED
    BY <1>2, <1>5, <2>1, <2>2, <2>3, PanelStays, PanelAssumption DEF PanelInv, PanelTypeOK
<1> QED
  BY <1>4, <1>5 DEF PanelReceive

LEMMA ReadServedInv ==
    ASSUME PanelInv, NEW p \in Panel, NEW i \in ReadId, ReadServed(p, i)
    PROVE  PanelTypeOK' /\ \A q \in Panel : BusyWhileChanging(q)' /\ Shows(q)'
<1>1. UNCHANGED <<row, txn, panel>> /\ Listed' = Listed
  BY DEF ReadServed, vehiclesVars, Listed
<1>2. Listed \in List
  BY ListedOK DEF PanelInv, VehiclesInv
<1>3. /\ read' \in [Panel -> [ReadId -> ReadState]]
      /\ read'[p][i] = [read[p][i] EXCEPT !.at = "answered", !.seen = Listed]
      /\ \A j \in ReadId \ {i} : read'[p][j] = read[p][j]
      /\ \A q \in Panel \ {p} : read'[q] = read[q]
  <2> DEFINE r == [read[p][i] EXCEPT !.at = "answered", !.seen = Listed]
  <2>1. read[p] \in [ReadId -> ReadState] /\ read[p][i] \in ReadState
    BY DEF PanelInv, PanelTypeOK
  <2>2. r \in ReadState
    BY <1>2, <2>1 DEF ReadState
  <2>3. read' = [read EXCEPT ![p] = [read[p] EXCEPT ![i] = r]]
    BY <2>1 DEF ReadServed, PanelInv, PanelTypeOK
  <2> HIDE DEF r
  <2>4. /\ read' \in [Panel -> [ReadId -> ReadState]]
        /\ read'[p][i] = r
        /\ \A j \in ReadId \ {i} : read'[p][j] = read[p][j]
        /\ \A q \in Panel \ {p} : read'[q] = read[q]
    BY <2>1, <2>2, <2>3 DEF PanelInv, PanelTypeOK
  <2> QED
    BY <2>4 DEF r
<1>4. read'[p][i].at = "answered" /\ read'[p][i].seen = Listed
        /\ read'[p][i].awaited = read[p][i].awaited
  BY <1>3 DEF PanelInv, PanelTypeOK, ReadState
<1>5. foreign' \in [Panel -> BOOLEAN] /\ \A q \in Panel \ {p} : foreign'[q] = foreign[q]
  BY DEF ReadServed, PanelInv, PanelTypeOK
<1>6. i \in Reading(p) /\ Reading(p)' = Reading(p)
  BY <1>3, <1>4 DEF ReadServed, Reading
<1>7. BusyWhileChanging(p)'
  BY <1>1, <1>3, <1>4 DEF PanelInv, BusyWhileChanging
<1>8. Shows(p)'
  <2>1. ~panel[p].overlap => \A j \in ReadId : read'[p][j].at = "answered" => j = i
    BY <1>3, <1>6 DEF PanelInv, Shows, Reading
  <2> QED
    BY <1>1, <1>4, <1>6, <2>1 DEF PanelInv, Shows, Quiet
<1> QED
  BY <1>1, <1>3, <1>5, <1>7, <1>8, PanelStays DEF PanelInv, PanelTypeOK

LEMMA ReadAppliedInv ==
    ASSUME PanelInv, NEW p \in Panel, NEW i \in ReadId, ReadApplied(p, i)
    PROVE  PanelTypeOK' /\ \A q \in Panel : BusyWhileChanging(q)' /\ Shows(q)'
<1>1. UNCHANGED <<row, txn, foreign>> /\ Listed' = Listed
  BY DEF ReadApplied, vehiclesVars, Listed
<1>2. /\ read' \in [Panel -> [ReadId -> ReadState]]
      /\ read'[p][i] = NoRead
      /\ \A j \in ReadId \ {i} : read'[p][j] = read[p][j]
      /\ \A q \in Panel \ {p} : read'[q] = read[q]
  BY NoListOK DEF ReadApplied, PanelInv, PanelTypeOK
<1>3. Reading(p)' = Reading(p) \ {i} /\ i \in Reading(p) /\ ~read'[p][i].awaited
  BY <1>2 DEF ReadApplied, Reading, NoRead
<1>4. /\ panel' \in [Panel -> PanelState]
      /\ panel'[p].busy = IF read[p][i].awaited THEN FALSE ELSE panel[p].busy
      /\ panel'[p].overlap = panel[p].overlap
      /\ \A q \in Panel \ {p} : panel'[q] = panel[q]
      /\ \/ panel'[p].err
         \/ /\ panel'[p].err = panel[p].err
            /\ read[p][i].at = "answered" /\ panel'[p].list = read[p][i].seen
  <2> DEFINE busy == IF read[p][i].awaited THEN FALSE ELSE panel[p].busy
             shown == [panel[p] EXCEPT !.list = read[p][i].seen, !.loading = FALSE,
                                       !.busy = busy]
             lost == [panel[p] EXCEPT !.err = TRUE, !.loading = FALSE, !.busy = busy]
  <2>1. panel[p] \in PanelState /\ read[p][i] \in ReadState
    BY DEF PanelInv, PanelTypeOK
  <2>2. busy \in BOOLEAN
    BY <2>1 DEF PanelState
  <2>3. \/ read[p][i].at = "answered" /\ panel' = [panel EXCEPT ![p] = shown]
        \/ panel' = [panel EXCEPT ![p] = lost]
    BY DEF ReadApplied, PanelInv, PanelTypeOK
  <2> HIDE DEF busy
  <2>4. /\ shown \in PanelState /\ lost \in PanelState
        /\ shown.busy = busy /\ lost.busy = busy
        /\ shown.overlap = panel[p].overlap /\ lost.overlap = panel[p].overlap
        /\ lost.err /\ shown.err = panel[p].err /\ shown.list = read[p][i].seen
    BY <2>1, <2>2 DEF PanelState, ReadState
  <2> HIDE DEF shown, lost
  <2> QED
    BY <2>3, <2>4 DEF PanelInv, PanelTypeOK, busy
<1>5. BusyWhileChanging(p)'
  BY <1>1, <1>2, <1>3, <1>4 DEF PanelInv, BusyWhileChanging
<1>6. Shows(p)'
  BY <1>1, <1>2, <1>3, <1>4 DEF PanelInv, Shows, Quiet, Reading
<1> QED
  BY <1>1, <1>2, <1>4, <1>5, <1>6, PanelStays DEF PanelInv, PanelTypeOK

(* A step of the service for a client that is a panel leaves its request     *)
(* unanswered; for the others it is a foreign change if it is one at all.    *)
LEMMA ServiceStepsInv ==
    ASSUME PanelInv, NEW c \in Client, ServiceSteps(c)
    PROVE  PanelTypeOK' /\ \A q \in Panel : BusyWhileChanging(q)' /\ Shows(q)'
<1>1. /\ txn[c].pc # "idle" /\ txn'[c].pc # "idle"
      /\ \A d \in Client \ {c} : txn'[d] = txn[d]
  <2>1. txn \in [Client -> Txn] /\ txn[c] \in Txn
    BY DEF PanelInv, VehiclesInv, VehiclesTypeOK
  <2>2. txn[c].pc \notin {"idle", "done"}
    BY DEF ServiceSteps, ServiceStep, Check, Insert, Snapshot, SwitchOff, SwitchOn, Single, Abort
  <2>3. CASE \E answer : Done(c, answer)
    BY <2>1, <2>2, <2>3 DEF Done, NoTxn
  <2>4. CASE Check(c) \/ Snapshot(c) \/ SwitchOff(c)
    BY <2>1, <2>2, <2>4 DEF Check, Snapshot, SwitchOff, Txn
  <2> QED
    BY <2>3, <2>4 DEF ServiceSteps, ServiceStep, Insert, SwitchOn, Single, Abort, Refuse
<1>2. /\ UNCHANGED <<panel, read>>
      /\ foreign' \in [Panel -> BOOLEAN]
      /\ \A q \in Panel : foreign'[q] = (foreign[q] \/ (q # c /\ row' # row))
  BY DEF ServiceSteps, PanelInv, PanelTypeOK
<1>3. ASSUME NEW q \in Panel, q # c
      PROVE  BusyWhileChanging(q)' /\ Shows(q)'
  <2>1. txn'[q] = txn[q]
    BY <1>1, <1>3, PanelAssumption
  <2>2. ~foreign'[q] => ~foreign[q] /\ row' = row
    BY <1>2, <1>3
  <2> QED
    BY <1>2, <2>1, <2>2, PanelStays
<1>4. ASSUME c \in Panel
      PROVE  BusyWhileChanging(c)' /\ Shows(c)'
  <2>1. BusyWhileChanging(c)'
    BY <1>1, <1>2, <1>4 DEF PanelInv, BusyWhileChanging
  <2>2. Shows(c)'
    BY <1>1, <1>2, <1>4 DEF PanelInv, Shows, Quiet, Reading
  <2> QED
    BY <2>1, <2>2
<1> QED
  BY <1>2, <1>3, <1>4 DEF PanelInv, PanelTypeOK

LEMMA PanelStepInv == PanelInv /\ [PanelNext]_panelVars => PanelInv'
<1> SUFFICES ASSUME PanelInv, [PanelNext]_panelVars
             PROVE  PanelTypeOK' /\ \A q \in Panel : BusyWhileChanging(q)' /\ Shows(q)'
  BY VehiclesStepInv, PanelStepIsVehicles DEF PanelInv
<1>1. ASSUME NEW c \in Client \ Panel, PanelIdle,
             Receive(c) \/ \E op \in Scripted, v \in Vehicle \cup {NoVehicle} : Submit(c, op, v)
      PROVE  PanelTypeOK' /\ \A q \in Panel : BusyWhileChanging(q)' /\ Shows(q)'
  <2>1. row' = row /\ \A d \in Client \ {c} : txn'[d] = txn[d]
    BY <1>1 DEF Receive, Submit, PanelInv, VehiclesInv, VehiclesTypeOK
  <2> QED
    BY <1>1, <2>1, PanelStays, PanelAssumption DEF PanelIdle, PanelInv, PanelTypeOK
<1>2. CASE UNCHANGED panelVars
  BY <1>2, PanelStays DEF panelVars, PanelInv, PanelTypeOK
<1> QED
  BY <1>1, <1>2, RefreshInv, PanelChangeInv, ReceiveAnswerInv, ReadServedInv, ReadAppliedInv,
     ServiceStepsInv DEF PanelNext

LEMMA PanelInvHolds == PanelSpec => []PanelInv
  BY PanelInitInv, PanelStepInv, PTL DEF PanelSpec

(* A panel at rest that shows no error shows the rows there are, unless      *)
(* somebody else has changed them since its last read was served or its      *)
(* last read overlapped an earlier one: for any number of panels and other   *)
(* clients, and whichever answers are lost.                                  *)
THEOREM PanelIsUpToDate == PanelSpec => []PanelUpToDate
<1>1. PanelInv => PanelUpToDate
  BY DEF PanelInv, BusyWhileChanging, Shows, Quiet, PanelUpToDate
<1> QED
  BY <1>1, PanelInvHolds, PTL

-----------------------------------------------------------------------------
(* The client as a whole.                                                    *)

LEMMA WebStep ==
    [WebNext]_webVars => /\ [PanelNext]_panelVars
                         /\ [DriverPageNext]_driverPageVars
                         /\ [SessionNext]_sessionVars
                         /\ [RideMapNext]_rideMapVars
  BY DEF WebNext, webVars

LEMMA WebIsItsParts ==
    WebSpec => PanelSpec /\ DriverPageSpec /\ SessionSpec /\ RideMapSpec
<1>1. WebInit => PanelInit /\ DriverPageInit /\ SessionInit /\ RideMapInit
  BY DEF WebInit
<1> QED
  BY <1>1, WebStep, PTL DEF WebSpec, PanelSpec, DriverPageSpec, SessionSpec, RideMapSpec

(* The type invariant of the whole client.                                   *)
THEOREM WebTypeCorrect == WebSpec => []WebTypeOK
<1>1. PanelInv /\ DriverPageTypeOK /\ SessionTypeOK /\ RideMapTypeOK => WebTypeOK
  BY DEF WebTypeOK, PanelInv
<1> QED
  BY <1>1, WebIsItsParts, PanelInvHolds, DriverPageTypeCorrect, SessionTypeCorrect,
     RideMapTypeCorrect, PTL

=============================================================================
