------------------------------ MODULE RideMap ------------------------------
(***************************************************************************)
(* The map of the rider's and of the driver's page, with the Yandex key    *)
(* configured.  The script of the vendor is loaded once for all the maps   *)
(* the tab shows one after the other, and its outcome kept, a failure as   *)
(* well; the map falls back on Leaflet.  A Yandex map is changed by hand   *)
(* in the effects that follow a rendering; Leaflet's is rendered.          *)
(*                                                                         *)
(* React runs the effects of a rendering before the next one.  Places and  *)
(* centres are the rounded ones their keys are made of.                    *)
(***************************************************************************)
CONSTANTS
    Marker,     \* ids
    Place, Label,
    Absent,     \* no such marker
    Center

\* What a marker is.
Look == [at : Place, label : Label]

ASSUME RideMapAssumption == Absent \notin Look

VARIABLES
    script,     \* the <script> element
    ymaps,      \* window.ymaps3: absent, there, ready, or broken
    promise,    \* yandexMapsPromise
    status,     \* of the map of the page, "none" if it has none
    awaits,     \* what its effect awaits: the promise, or nothing more
    markers, center,    \* the props
    nodes, view,        \* the markers and the centre of the map on the screen
    due                 \* the last rendering has effects left to run

vendor == <<script, ymaps, promise>>
props == <<markers, center>>
canvas == <<nodes, view>>
rideMapVars == <<vendor, status, awaits, props, canvas, due>>

NoMarker == [m \in Marker |-> Absent]
AnyMarkers == [Marker -> Look \cup {Absent}]

RideMapInit ==
    /\ script = "none" /\ ymaps = "absent" /\ promise = "none"
    /\ status = "none" /\ awaits = "nothing"
    /\ markers = NoMarker /\ center \in Center
    /\ nodes = NoMarker /\ view = center
    /\ due = FALSE

(***************************************************************************)
(* The script.                                                             *)
(***************************************************************************)
\* loadYandexMaps: what is there is taken as it is, a script under way or a failure too.
LoadYandexMaps ==
    \/ /\ ymaps # "absent"
       /\ awaits' = "nothing"
       /\ UNCHANGED vendor
    \/ /\ ymaps = "absent"
       /\ awaits' = "promise"
       /\ \/ promise # "none" /\ UNCHANGED vendor
          \/ promise = "none" /\ script' = "loading" /\ promise' = "pending" /\ UNCHANGED ymaps

\* onload and onerror.  A script that exposes nothing has failed.
ScriptEnds ==
    /\ script = "loading"
    /\ \/ script' = "loaded" /\ ymaps' = "there" /\ UNCHANGED promise
       \/ script' = "loaded" /\ promise' = "rejected" /\ UNCHANGED ymaps
       \/ script' = "failed" /\ promise' = "rejected" /\ UNCHANGED ymaps
    /\ UNCHANGED <<status, awaits, props, canvas, due>>

\* ymaps3.ready settles.
ApiSettles ==
    /\ ymaps = "there"
    /\ \/ ymaps' = "ready" /\ promise' = "resolved"
       \/ ymaps' = "broken" /\ promise' = "rejected"
    /\ UNCHANGED <<script, status, awaits, props, canvas, due>>

(***************************************************************************)
(* The map of a page.                                                      *)
(***************************************************************************)
\* A page is shown, with its markers, and the effect of the mount starts.
Mount ==
    /\ status = "none"
    /\ status' = "loading"
    /\ markers' \in AnyMarkers /\ center' \in Center
    /\ nodes' = NoMarker /\ view' = center'
    /\ LoadYandexMaps
    /\ due' = FALSE

\* The cleanup destroys the map and sets cancelled: what the effect awaited is not used.
Unmount ==
    /\ status # "none" /\ ~due
    /\ status' = "none" /\ awaits' = "nothing"
    /\ nodes' = NoMarker
    /\ UNCHANGED <<vendor, props, view, due>>

\* The effect goes on; the map is made, around the centre the page was mounted with,
\* or making it throws, as it may before the API is ready.  The effects depend on the
\* status, so that they run after it.
MapCreated ==
    /\ status = "loading" /\ ~due
    /\ awaits = "promise" => promise = "resolved"
    /\ status' = "ready"
    /\ due' = TRUE
    /\ UNCHANGED <<vendor, awaits, props, canvas>>

\* Leaflet renders the markers, and follows the centre with setView.
LeafletShows == nodes' = markers /\ view' = center

MapFailed ==
    /\ status = "loading" /\ ~due
    /\ \/ awaits = "promise" /\ promise = "rejected"
       \/ awaits = "nothing" /\ ymaps # "ready"
    /\ status' = "error"
    /\ LeafletShows
    /\ UNCHANGED <<vendor, awaits, props, due>>

\* The rider types, drivers move, come and go; the driver is nudged.
PropsChange ==
    /\ status # "none" /\ ~due
    /\ markers' \in AnyMarkers /\ center' \in Center
    /\ props' # props
    /\ due' = TRUE
    /\ UNCHANGED <<vendor, status, awaits, canvas>>

\* A marker that is there is moved and keeps its element, with the label it was made
\* with; others are made, and those that are gone removed.  Mutant: they stay.
Diffed_Kept ==
    [m \in Marker |-> IF markers[m] = Absent THEN nodes[m]
                      ELSE IF nodes[m] = Absent THEN markers[m]
                      ELSE [nodes[m] EXCEPT !.at = markers[m].at]]
Diffed ==
    [m \in Marker |-> IF markers[m] = Absent \/ nodes[m] = Absent THEN markers[m]
                      ELSE [nodes[m] EXCEPT !.at = markers[m].at]]

Effects ==
    /\ due
    /\ due' = FALSE
    /\ \/ status = "ready" /\ nodes' = Diffed /\ view' = center
       \/ status = "error" /\ LeafletShows
       \/ status = "loading" /\ UNCHANGED canvas
    /\ UNCHANGED <<vendor, status, awaits, props>>

RideMapNext ==
    \/ ScriptEnds \/ ApiSettles
    \/ Mount \/ Unmount \/ MapCreated \/ MapFailed \/ PropsChange \/ Effects

RideMapSpec == RideMapInit /\ [][RideMapNext]_rideMapVars

----------------------------------------------------------------------------
\* Type invariant.
RideMapTypeOK ==
    /\ script \in {"none", "loading", "loaded", "failed"}
    /\ ymaps \in {"absent", "there", "ready", "broken"}
    /\ promise \in {"none", "pending", "resolved", "rejected"}
    /\ status \in {"none", "loading", "ready", "error"}
    /\ awaits \in {"nothing", "promise"}
    /\ markers \in AnyMarkers /\ nodes \in AnyMarkers
    /\ center \in Center /\ view \in Center
    /\ due \in BOOLEAN

(***************************************************************************)
(* A map on the screen with no effects left to run shows the markers of    *)
(* its page and no other, each at its place, around the centre of the      *)
(* page; Leaflet's shows them with their present labels.                   *)
(***************************************************************************)
MapShowsThePage ==
    ~due /\ status \in {"ready", "error"} =>
        /\ view = center
        /\ \A m \in Marker : nodes[m] = Absent <=> markers[m] = Absent
        /\ \A m \in Marker : nodes[m] # Absent => nodes[m].at = markers[m].at
        /\ status = "error" => nodes = markers
=============================================================================
