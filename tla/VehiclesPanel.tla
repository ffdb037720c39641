--------------------------- MODULE VehiclesPanel ---------------------------
(***************************************************************************)
(* The driver's vehicle panel, on top of the requests of module Vehicles.  *)
(* A panel is one of the clients: it sends one change at a time, because   *)
(* its buttons are disabled while one is under way, and reads the list     *)
(* again after a change that succeeded.  The Refresh button knows nothing  *)
(* of a change under way, so two reads of one panel can overlap; nothing   *)
(* stops the older answer from being applied last.  Both answers, and the  *)
(* answer to a change, can be lost with the connection.  Trips, for the    *)
(* sake of which a removal may be refused, are left out here.              *)
(***************************************************************************)
EXTENDS Vehicles

CONSTANTS
    Panel,      \* the clients that are panels; the others are scripts and tabs
    Scripted    \* bound: what the others ask for

ASSUME PanelAssumption == Panel \subseteq Client /\ Scripted \subseteq Operation

VARIABLES
    panel,      \* the React state of each panel
    read,       \* its reads under way
    foreign     \* history: someone else changed the rows since its last read

panelVars == <<row, used, txn, off, panel, read, foreign>>

\* Bound: two reads under way at a time, enough for one to overtake another.
ReadId == {1, 2}
NoList == [v \in Vehicle |-> "none"]
Listed == [v \in Vehicle |-> IF row[v] \in Present THEN row[v] ELSE "none"]
\* Read of the effect on mount, of Refresh, or awaited by a change.
NoRead == [at |-> "free", seen |-> NoList, awaited |-> FALSE]
Sent(awaited) == [NoRead EXCEPT !.at = "sent", !.awaited = awaited]
Reading(p) == {i \in ReadId : read[p][i].at # "free"}

\* overlap is history: the latest read was sent while another was under way.
PanelInit ==
    /\ VehiclesInit
    /\ panel = [p \in Panel |-> [list |-> NoList, loading |-> TRUE, err |-> FALSE,
                                 busy |-> FALSE, overlap |-> FALSE]]
    /\ read = [p \in Panel |-> [i \in ReadId |-> IF i = 1 THEN Sent(FALSE) ELSE NoRead]]
    /\ foreign = [p \in Panel |-> FALSE]

PanelIdle == UNCHANGED <<panel, read, foreign>>

\* refresh(), called with the other fields of the panel already set.
StartRead(p, awaited, fields) ==
    \E i \in ReadId \ Reading(p) :
        /\ \A j \in ReadId : j < i => j \in Reading(p)
        /\ read' = [read EXCEPT ![p][i] = Sent(awaited)]
        /\ panel' = [panel EXCEPT ![p] = [fields EXCEPT !.loading = TRUE, !.err = FALSE,
                                                        !.overlap = Reading(p) # {}]]

Refresh(p) ==
    /\ ~panel[p].loading
    /\ StartRead(p, FALSE, panel[p])
    /\ UNCHANGED <<vehiclesVars, foreign>>

\* What the panel has buttons for: the list is hidden while it is read; the form
\* can be opened and closed at any time, Refresh takes its place.
Offered(p, op, v) ==
    \/ op = "create" /\ v = NoVehicle
    \/ /\ v \in Vehicle /\ ~panel[p].loading
       /\ \/ op = "activate" /\ panel[p].list[v] = "inactive"
          \/ op = "remove" /\ panel[p].list[v] \in Present

\* submit(), setActive() and remove().
PanelChange(p, op, v) ==
    /\ ~panel[p].busy /\ Offered(p, op, v)
    /\ Submit(p, op, v)
    /\ panel' = [panel EXCEPT ![p].busy = TRUE, ![p].err = FALSE]
    /\ UNCHANGED <<read, foreign>>

\* A change that succeeded is followed by a read it waits for.  Mutant: it is not.
Succeeded_NoRefresh(p) ==
    /\ panel' = [panel EXCEPT ![p].busy = FALSE]
    /\ UNCHANGED read
Succeeded(p) == StartRead(p, TRUE, panel[p])

\* Any other answer, or none: the message is shown and the list is left as it is.
PanelReceive(p) ==
    /\ Receive(p)
    /\ \/ txn[p].answer = "ok" /\ Succeeded(p)
       \/ /\ panel' = [panel EXCEPT ![p].busy = FALSE, ![p].err = TRUE]
          /\ UNCHANGED read
    /\ UNCHANGED foreign

\* GET /vehicles is answered with what is committed.
ReadServed(p, i) ==
    /\ read[p][i].at = "sent"
    /\ read' = [read EXCEPT ![p][i].at = "answered", ![p][i].seen = Listed]
    /\ foreign' = [foreign EXCEPT ![p] = FALSE]
    /\ UNCHANGED <<vehiclesVars, panel>>

\* The answer reaches the panel, or the request fails: setList or setErr, and finally.
ReadApplied(p, i) ==
    /\ read[p][i].at # "free"
    /\ \/ /\ read[p][i].at = "answered"
          /\ panel' = [panel EXCEPT ![p].list = read[p][i].seen, ![p].loading = FALSE,
                                    ![p].busy = IF read[p][i].awaited THEN FALSE ELSE @]
       \/ panel' = [panel EXCEPT ![p].err = TRUE, ![p].loading = FALSE,
                                 ![p].busy = IF read[p][i].awaited THEN FALSE ELSE @]
    /\ read' = [read EXCEPT ![p][i] = NoRead]
    /\ UNCHANGED <<vehiclesVars, foreign>>

\* A step of the service for c, told to the history of the panels.
ServiceSteps(c) ==
    /\ ServiceStep(c)
    /\ foreign' = [p \in Panel |-> foreign[p] \/ (p # c /\ row' # row)]
    /\ UNCHANGED <<panel, read>>

PanelNext ==
    \/ \E p \in Panel :
          \/ Refresh(p) \/ PanelReceive(p)
          \/ \E op \in {"create", "activate", "remove"}, v \in Vehicle \cup {NoVehicle} :
                PanelChange(p, op, v)
          \/ \E i \in ReadId : ReadServed(p, i) \/ ReadApplied(p, i)
    \/ \E c \in Client : ServiceSteps(c)
    \/ \E c \in Client \ Panel :
          /\ \/ Receive(c)
             \/ \E op \in Scripted, v \in Vehicle \cup {NoVehicle} : Submit(c, op, v)
          /\ PanelIdle

PanelSpec == PanelInit /\ [][PanelNext]_panelVars

----------------------------------------------------------------------------
\* Type invariant of what the panels keep.
List == [Vehicle -> {"none"} \cup Present]
PanelState == [list : List, loading : BOOLEAN, err : BOOLEAN, busy : BOOLEAN, overlap : BOOLEAN]
ReadState == [at : {"free", "sent", "answered"}, seen : List, awaited : BOOLEAN]

PanelTypeOK ==
    /\ panel \in [Panel -> PanelState]
    /\ read \in [Panel -> [ReadId -> ReadState]]
    /\ foreign \in [Panel -> BOOLEAN]

(***************************************************************************)
(* A panel at rest that shows no error shows the rows there are, unless    *)
(* somebody else has changed them since, or its last read overlapped an    *)
(* earlier one, the answer of which may have been applied last.            *)
(***************************************************************************)
PanelUpToDate ==
    \A p \in Panel :
        /\ Reading(p) = {} /\ ~panel[p].busy /\ ~panel[p].err
        /\ ~panel[p].overlap /\ ~foreign[p]
        => panel[p].list = Listed
=============================================================================
