------------------------------- MODULE MCWeb -------------------------------
\* Instances of the parts of the web client but the rider's page.  They share no state
\* here, so that a behaviour of one of them, the focus, is enough at a time.
EXTENDS VehiclesPanel, DriverPage, Session, RideMap, TLC

CONSTANTS u1, u2, u3

VARIABLE focus

webVars == <<panelVars, driverPageVars, sessionVars, rideMapVars, focus>>

Roles == (u1 :> "rider") @@ (u2 :> "rider") @@ (u3 :> "driver")
WebSymmetry == Permutations(Vehicle) \cup Permutations(Poll) \cup Permutations(Call)

WebInit ==
    /\ focus \in {"panel", "driver", "session", "map"}
    /\ PanelInit /\ DriverPageInit /\ SessionInit /\ RideMapInit
    /\ focus # "driver" => availability = "offline"
    /\ focus # "session" => stored = Nobody
    /\ focus # "map" => center = CHOOSE c \in Center : TRUE

WebNext ==
    /\ \/ focus = "panel" /\ PanelNext
          /\ UNCHANGED <<driverPageVars, sessionVars, rideMapVars>>
       \/ focus = "driver" /\ DriverPageNext
          /\ UNCHANGED <<panelVars, sessionVars, rideMapVars>>
       \/ focus = "session" /\ SessionNext
          /\ UNCHANGED <<panelVars, driverPageVars, rideMapVars>>
       \/ focus = "map" /\ RideMapNext
          /\ UNCHANGED <<panelVars, driverPageVars, sessionVars>>
    /\ UNCHANGED focus

WebSpec == WebInit /\ [][WebNext]_webVars

WebTypeOK == PanelTypeOK /\ DriverPageTypeOK /\ SessionTypeOK /\ RideMapTypeOK
=============================================================================
