---------------------------- MODULE SurgeProofs ----------------------------
(***************************************************************************)
(* Theorems about Surge, for any ring, any number of zones, of overlapping *)
(* ticks and flushes, and of faults.                                       *)
(***************************************************************************)
EXTENDS Surge, FiniteSetTheorems, TLAPS

(***************************************************************************)
(* The index moves by one or starts again.                                 *)
(***************************************************************************)
LEMMA AfterIs ==
    ASSUME NEW k \in Index
    PROVE  /\ After(k) \in Index
           /\ After(k) = IF k = Ring - 1 THEN 0 ELSE k + 1
<1>1. Ring \in Nat \ {0} /\ k \in Nat /\ k <= Ring - 1
  BY SurgeAssumption DEF Index
<1>2. CASE k = Ring - 1
  <2>1. (k + 1) % Ring = 0
    BY <1>1, <1>2, SMT
  <2> QED
    BY <1>1, <1>2, <2>1 DEF After, Index
<1>3. CASE k # Ring - 1
  <2>1. (k + 1) % Ring = k + 1
    BY <1>1, <1>3, SMT
  <2> QED
    BY <1>1, <1>3, <2>1 DEF After, Index
<1> QED
  BY <1>2, <1>3

(***************************************************************************)
(* Rounding to cents keeps a multiplier between 1.00 and the maximum.      *)
(***************************************************************************)
LEMMA NextMultiplierBounded ==
    ASSUME NEW c \in Multiplier, NEW q \in Nat, NEW n \in Nat,
           NEW m \in NextMultiplier(c, q, n)
    PROVE  m \in Multiplier
<1>1. c \in Nat /\ 100 <= c /\ c <= MaxMultiplier /\ MaxMultiplier \in Nat
  BY SurgeAssumption DEF Multiplier
<1>2. CASE 10 * q > High * n
  <2> DEFINE p == Smaller(10 * MaxMultiplier, 11 * c)
  <2>1. p \in Nat /\ 1000 <= p /\ p <= 10 * MaxMultiplier
    BY <1>1 DEF Smaller
  <2>2. m \in Rounded(p, 10)
    BY <1>2 DEF NextMultiplier
  <2>3. /\ m \in {p \div 10, p \div 10 + 1}
        /\ 2 * 10 * m <= 2 * p + 10
        /\ 2 * p <= 2 * 10 * m + 10
    BY <2>2 DEF Rounded
  <2> HIDE DEF p
  <2>4. m \in Nat
    BY <2>1, <2>3
  <2> QED
    BY <1>1, <2>1, <2>3, <2>4 DEF Multiplier
<1>3. CASE ~(10 * q > High * n) /\ 10 * q < Low * n
  <2> DEFINE p == Larger(10000, 97 * c)
  <2>1. p \in Nat /\ 10000 <= p /\ p <= 100 * MaxMultiplier
    BY <1>1 DEF Larger
  <2>2. m \in Rounded(p, 100)
    BY <1>3 DEF NextMultiplier
  <2>3. /\ m \in {p \div 100, p \div 100 + 1}
        /\ 2 * 100 * m <= 2 * p + 100
        /\ 2 * p <= 2 * 100 * m + 100
    BY <2>2 DEF Rounded
  <2> HIDE DEF p
  <2>4. m \in Nat
    BY <2>1, <2>3
  <2> QED
    BY <1>1, <2>1, <2>3, <2>4 DEF Multiplier
<1>4. CASE ~(10 * q > High * n) /\ ~(10 * q < Low * n)
  BY <1>4 DEF NextMultiplier
<1> QED
  BY <1>2, <1>3, <1>4

LEMMA DriversAreNumbers == Drivers \subseteq Nat
BY SurgeAssumption DEF Drivers, Larger

LEMMA SummingType ==
    ASSUME TypeOK, NEW z \in Zone
    PROVE  Summing(z) \in [at : {"drivers", "redis"}, zone : Zone, requests : Nat]
<1>1. Window(z) \subseteq Delivery
  BY DEF Window, TypeOK
<1>2. Cardinality(Window(z)) \in Nat
  BY <1>1, SurgeAssumption, FS_Subset, FS_CardinalityType
<1> QED
  BY <1>2 DEF Summing

(***************************************************************************)
(* Each tick, flush and event keeps the types.                             *)
(***************************************************************************)
LEMMA InitTypeOK == Init => TypeOK
<1> SUFFICES ASSUME Init PROVE TypeOK
  OBVIOUS
<1>1. 0 \in Index /\ 0 \in 0 .. MaxFaults /\ 0 \in 0 .. Ring + 1
  BY SurgeAssumption DEF Index
<1> QED
  BY <1>1 DEF Init, TypeOK

LEMMA CountType ==
    ASSUME TypeOK, NEW d \in Delivery, NEW z \in Zone, Count(d, z)
    PROVE  TypeOK'
<1>1. slot' \in [Zone -> [Index -> SUBSET Delivery]]
  BY DEF TypeOK, Count
<1>2. age' \in [Delivery -> 0 .. Ring + 1]
  BY SurgeAssumption DEF TypeOK, Count
<1> QED
  BY <1>1, <1>2 DEF TypeOK, Count

LEMMA StartTickType ==
    ASSUME TypeOK, NEW i \in Run, StartTick(i)
    PROVE  TypeOK'
<1>1. 1 \in Zone
  BY SurgeAssumption DEF Zone
<1>2. tickIdx' \in Index
  BY AfterIs DEF TypeOK, StartTick
<1>3. run' \in [Run -> {IdleRun} \cup
                  [at : {"drivers", "redis"}, zone : Zone, requests : Nat]]
  BY <1>1, SummingType DEF TypeOK, StartTick
<1>4. age' \in [Delivery -> 0 .. Ring + 1]
  BY SurgeAssumption DEF TypeOK, StartTick, Smaller
<1>5. counted' \in SUBSET Delivery
  BY <1>1 DEF TypeOK, StartTick, Window
<1> QED
  BY <1>2, <1>3, <1>4, <1>5 DEF TypeOK, StartTick

LEMMA RunAwaits ==
    ASSUME TypeOK, NEW i \in Run, run[i].at \in {"drivers", "redis"}
    PROVE  run[i] \in [at : {"drivers", "redis"}, zone : Zone, requests : Nat]
BY DEF TypeOK, IdleRun

LEMMA RunMoves ==
    ASSUME TypeOK, NEW i \in Run, run[i].at = "drivers",
           run' = [run EXCEPT ![i].at = "redis"]
    PROVE  run' \in [Run -> {IdleRun} \cup
                       [at : {"drivers", "redis"}, zone : Zone, requests : Nat]]
<1>1. run[i] \in [at : {"drivers", "redis"}, zone : Zone, requests : Nat]
  BY RunAwaits
<1>2. [run[i] EXCEPT !.at = "redis"]
         \in [at : {"drivers", "redis"}, zone : Zone, requests : Nat]
  BY <1>1
<1>3. run' = [run EXCEPT ![i] = [run[i] EXCEPT !.at = "redis"]]
  BY DEF TypeOK
<1> QED
  BY <1>2, <1>3 DEF TypeOK

\* The value a tick computes for its zone is a multiplier.
LEMMA TickComputes ==
    ASSUME TypeOK, NEW i \in Run, run[i].at = "drivers", NEW n \in Drivers,
           NEW m \in NextMultiplier(multiplier[run[i].zone], run[i].requests, n)
    PROVE  m \in Multiplier /\ run[i].zone \in Zone
<1>1. run[i] \in [at : {"drivers", "redis"}, zone : Zone, requests : Nat]
  BY RunAwaits
<1>2. multiplier[run[i].zone] \in Multiplier
  BY <1>1 DEF TypeOK
<1>3. n \in Nat
  BY DriversAreNumbers
<1> QED
  BY <1>1, <1>2, <1>3, NextMultiplierBounded

LEMMA SetMultiplierType ==
    ASSUME TypeOK, NEW i \in Run, SetMultiplier(i)
    PROVE  TypeOK'
<1>1. PICK n \in Drivers :
         \E m \in NextMultiplier(multiplier[run[i].zone], run[i].requests, n) :
            /\ multiplier' = [multiplier EXCEPT ![run[i].zone] = m]
            /\ hot' = [hot EXCEPT ![run[i].zone] = m]
  BY DEF SetMultiplier
<1>2. PICK m \in NextMultiplier(multiplier[run[i].zone], run[i].requests, n) :
         /\ multiplier' = [multiplier EXCEPT ![run[i].zone] = m]
         /\ hot' = [hot EXCEPT ![run[i].zone] = m]
  BY <1>1
<1>3. m \in Multiplier
  BY TickComputes DEF SetMultiplier
<1>4. multiplier' \in [Zone -> Multiplier] /\ hot' \in [Zone -> Multiplier \cup {Unset}]
  BY <1>2, <1>3 DEF TypeOK
<1>5. run' \in [Run -> {IdleRun} \cup
                  [at : {"drivers", "redis"}, zone : Zone, requests : Nat]]
  BY RunMoves DEF SetMultiplier
<1> QED
  BY <1>4, <1>5 DEF TypeOK, SetMultiplier

LEMMA NextZoneType ==
    ASSUME TypeOK, NEW i \in Run, NextZone(i)
    PROVE  TypeOK'
<1> DEFINE z == run[i].zone
<1>1. z \in Zone
  BY RunAwaits DEF NextZone
<1>2. slot' \in [Zone -> [Index -> SUBSET Delivery]]
  BY <1>1 DEF TypeOK, NextZone
<1>3. CASE z = Zones
  BY <1>2, <1>3 DEF TypeOK, NextZone
<1>4. CASE z # Zones
  <2>1. z + 1 \in Zone
    BY <1>1, <1>4, SurgeAssumption DEF Zone
  <2>2. Summing(z + 1) \in [at : {"drivers", "redis"}, zone : Zone, requests : Nat]
    BY <2>1, SummingType
  <2>3. run' \in [Run -> {IdleRun} \cup
                    [at : {"drivers", "redis"}, zone : Zone, requests : Nat]]
    BY <1>4, <2>2 DEF TypeOK, NextZone
  <2>4. counted' \in SUBSET Delivery
    BY <1>4, <2>1 DEF TypeOK, NextZone, Window
  <2> QED
    BY <1>2, <2>3, <2>4 DEF TypeOK, NextZone
<1> QED
  BY <1>3, <1>4

LEMMA FaultCounted ==
    ASSUME TypeOK, faults < MaxFaults, faults' = faults + 1
    PROVE  faults' \in 0 .. MaxFaults
BY SurgeAssumption DEF TypeOK

LEMMA FailTickType ==
    ASSUME TypeOK, NEW i \in Run, FailTick(i)
    PROVE  TypeOK'
<1>1. faults' \in 0 .. MaxFaults
  BY FaultCounted DEF FailTick
<1> QED
  BY <1>1 DEF TypeOK, FailTick

LEMMA LoseHotType ==
    ASSUME TypeOK, NEW i \in Run, LoseHot(i)
    PROVE  TypeOK'
<1>1. faults' \in 0 .. MaxFaults
  BY FaultCounted DEF LoseHot
<1>2. PICK n \in Drivers :
         \E m \in NextMultiplier(multiplier[run[i].zone], run[i].requests, n) :
            multiplier' = [multiplier EXCEPT ![run[i].zone] = m]
  BY DEF LoseHot
<1>3. PICK m \in NextMultiplier(multiplier[run[i].zone], run[i].requests, n) :
         multiplier' = [multiplier EXCEPT ![run[i].zone] = m]
  BY <1>2
<1>4. m \in Multiplier
  BY TickComputes DEF LoseHot
<1>5. multiplier' \in [Zone -> Multiplier]
  BY <1>3, <1>4 DEF TypeOK
<1> QED
  BY <1>1, <1>5 DEF TypeOK, LoseHot

LEMMA SendingType ==
    ASSUME TypeOK, NEW z \in Zone
    PROVE  Sending(z) \in [zone : Zone, value : Multiplier]
BY DEF TypeOK, Sending

LEMMA StartFlushType ==
    ASSUME TypeOK, NEW f \in Flush, StartFlush(f)
    PROVE  TypeOK'
<1>1. Sending(1) \in [zone : Zone, value : Multiplier]
  BY SendingType, SurgeAssumption DEF Zone
<1> QED
  BY <1>1 DEF TypeOK, StartFlush

LEMMA FlushZoneType ==
    ASSUME TypeOK, NEW f \in Flush, FlushZone(f)
    PROVE  TypeOK'
<1> DEFINE z == flush[f].zone
<1>1. flush[f] \in [zone : Zone, value : Multiplier]
  BY DEF TypeOK, FlushZone
<1>2. base' \in [Zone -> Multiplier]
  BY <1>1 DEF TypeOK, FlushZone
<1>3. z # Zones => z + 1 \in Zone
  BY <1>1, SurgeAssumption DEF Zone
<1>4. z # Zones => Sending(z + 1) \in [zone : Zone, value : Multiplier]
  BY <1>3, SendingType
<1>5. flush' \in [Flush -> {IdleFlush} \cup [zone : Zone, value : Multiplier]]
  BY <1>4 DEF TypeOK, FlushZone
<1> QED
  BY <1>2, <1>5 DEF TypeOK, FlushZone

LEMMA FailFlushType ==
    ASSUME TypeOK, NEW f \in Flush, FailFlush(f)
    PROVE  TypeOK'
<1>1. faults' \in 0 .. MaxFaults
  BY FaultCounted DEF FailFlush
<1> QED
  BY <1>1 DEF TypeOK, FailFlush

LEMMA RestartType ==
    ASSUME TypeOK, Restart
    PROVE  TypeOK'
<1>1. faults' \in 0 .. MaxFaults
  BY FaultCounted DEF Restart
<1>2. 0 \in Index /\ 0 \in 0 .. Ring + 1
  BY SurgeAssumption DEF Index
<1> QED
  BY <1>1, <1>2 DEF TypeOK, Restart

(***************************************************************************)
(* Every variable of the worker, of Redis and of the zones' rows keeps its *)
(* type; multipliers in all of them stay between 1.00 and the maximum.     *)
(***************************************************************************)
THEOREM TypeCorrect == Spec => []TypeOK
<1>1. TypeOK /\ [Next]_vars => TypeOK'
  <2> SUFFICES ASSUME TypeOK, [Next]_vars PROVE TypeOK'
    OBVIOUS
  <2>1. ASSUME NEW d \in Delivery, NEW z \in Zone, Count(d, z) PROVE TypeOK'
    BY <2>1, CountType
  <2>2. ASSUME NEW i \in Run, StartTick(i) PROVE TypeOK'
    BY <2>2, StartTickType
  <2>3. ASSUME NEW i \in Run, SetMultiplier(i) PROVE TypeOK'
    BY <2>3, SetMultiplierType
  <2>4. ASSUME NEW i \in Run, NextZone(i) PROVE TypeOK'
    BY <2>4, NextZoneType
  <2>5. ASSUME NEW i \in Run, FailTick(i) PROVE TypeOK'
    BY <2>5, FailTickType
  <2>6. ASSUME NEW i \in Run, LoseHot(i) PROVE TypeOK'
    BY <2>6, LoseHotType
  <2>7. ASSUME NEW f \in Flush, StartFlush(f) PROVE TypeOK'
    BY <2>7, StartFlushType
  <2>8. ASSUME NEW f \in Flush, FlushZone(f) PROVE TypeOK'
    BY <2>8, FlushZoneType
  <2>9. ASSUME NEW f \in Flush, FailFlush(f) PROVE TypeOK'
    BY <2>9, FailFlushType
  <2>10. CASE Restart
    BY <2>10, RestartType
  <2>11. CASE UNCHANGED vars
    BY <2>11 DEF TypeOK, vars
  <2> QED
    BY <2>1, <2>2, <2>3, <2>4, <2>5, <2>6, <2>7, <2>8, <2>9, <2>10, <2>11 DEF Next
<1> QED
  BY <1>1, InitTypeOK, PTL DEF Spec

(***************************************************************************)
(* The multiplier a fare is computed with stays between 1.00 and the       *)
(* maximum, whichever store answers and whatever has failed.               *)
(***************************************************************************)
THEOREM FaresBounded == Spec => []FareWithinBounds
<1>1. TypeOK => FareWithinBounds
  BY DEF TypeOK, FareWithinBounds, ResolveSurge
<1> QED
  BY <1>1, TypeCorrect, PTL

(***************************************************************************)
(* Where a request is tells how old it is: the slot it is in, and its age  *)
(* on top, lead around the ring to the index, unless it has been there for *)
(* a whole round already.                                                  *)
(***************************************************************************)
PlacedByAge ==
    \A z \in Zone : \A k \in Index : \A d \in slot[z][k] :
        age[d] >= Ring \/ k + age[d] = tickIdx \/ k + age[d] = tickIdx + Ring

WindowInv == TypeOK /\ PlacedByAge

\* What leaves the ring at the end of a tick's zone is at least Ring - 1 ticks old.
LEMMA NextSlotIsOld ==
    ASSUME WindowInv, NEW z \in Zone, NEW d \in slot[z][NextSlot]
    PROVE  age[d] >= Ring - 1
<1>1. Ring \in Nat \ {0} /\ tickIdx \in Index /\ NextSlot \in Index
  BY SurgeAssumption, AfterIs DEF WindowInv, TypeOK, NextSlot
<1>2. d \in Delivery /\ age[d] \in 0 .. Ring + 1
  BY <1>1 DEF WindowInv, TypeOK
<1>3. \/ age[d] >= Ring
      \/ NextSlot + age[d] = tickIdx
      \/ NextSlot + age[d] = tickIdx + Ring
  BY <1>1 DEF WindowInv, PlacedByAge
<1>4. NextSlot = IF tickIdx = Ring - 1 THEN 0 ELSE tickIdx + 1
  BY <1>1, AfterIs DEF NextSlot
<1> QED
  BY <1>1, <1>2, <1>3, <1>4 DEF Index

LEMMA CountPlaces ==
    ASSUME WindowInv, NEW e \in Delivery, NEW y \in Zone, Count(e, y)
    PROVE  PlacedByAge'
<1> SUFFICES ASSUME NEW z \in Zone, NEW k \in Index, NEW d \in slot'[z][k]
             PROVE  \/ age'[d] >= Ring
                    \/ k + age'[d] = tickIdx'
                    \/ k + age'[d] = tickIdx' + Ring
  BY DEF PlacedByAge
<1>1. tickIdx' = tickIdx /\ tickIdx \in Index
  BY DEF Count, WindowInv, TypeOK
<1>2. CASE d = e
  <2>1. age'[d] = 0
    BY <1>2 DEF Count, WindowInv, TypeOK
  <2>2. e \notin slot[z][k]
    BY DEF Count, Remembered, Window
  <2>3. k = tickIdx
    BY <1>2, <2>2 DEF Count, WindowInv, TypeOK
  <2> QED
    BY <1>1, <2>1, <2>3 DEF Index
<1>3. CASE d # e
  <2>1. d \in slot[z][k]
    BY <1>3 DEF Count, WindowInv, TypeOK
  <2>2. age'[d] = age[d]
    BY <1>3, <2>1 DEF Count, WindowInv, TypeOK
  <2> QED
    BY <1>1, <2>1, <2>2 DEF WindowInv, PlacedByAge
<1> QED
  BY <1>2, <1>3

LEMMA StartTickPlaces ==
    ASSUME WindowInv, NEW i \in Run, StartTick(i)
    PROVE  PlacedByAge'
<1> SUFFICES ASSUME NEW z \in Zone, NEW k \in Index, NEW d \in slot[z][k]
             PROVE  \/ age'[d] >= Ring
                    \/ k + age'[d] = tickIdx'
                    \/ k + age'[d] = tickIdx' + Ring
  BY DEF PlacedByAge, StartTick
<1>1. Ring \in Nat \ {0} /\ tickIdx \in Index /\ k \in Nat /\ k <= Ring - 1
  BY SurgeAssumption DEF WindowInv, TypeOK, Index
<1>2. tickIdx' = IF tickIdx = Ring - 1 THEN 0 ELSE tickIdx + 1
  BY <1>1, AfterIs DEF StartTick
<1>3. d \in Delivery /\ d \in Remembered /\ age[d] \in 0 .. Ring + 1
  BY DEF WindowInv, TypeOK, Remembered, Window
<1>4. age'[d] = Smaller(Ring + 1, age[d] + 1)
  BY <1>3 DEF StartTick
<1>5. age[d] >= Ring \/ k + age[d] = tickIdx \/ k + age[d] = tickIdx + Ring
  BY DEF WindowInv, PlacedByAge
<1> QED
  BY <1>1, <1>2, <1>3, <1>4, <1>5 DEF Smaller, Index

LEMMA NextZonePlaces ==
    ASSUME WindowInv, NEW i \in Run, NextZone(i)
    PROVE  PlacedByAge'
<1> SUFFICES ASSUME NEW z \in Zone, NEW k \in Index, NEW d \in slot'[z][k]
             PROVE  d \in slot[z][k]
  BY DEF PlacedByAge, WindowInv, NextZone
<1>1. run[i].zone \in Zone
  BY RunAwaits DEF NextZone, WindowInv
<1> QED
  BY <1>1 DEF NextZone, WindowInv, TypeOK

LEMMA RestartPlaces ==
    ASSUME WindowInv, Restart
    PROVE  PlacedByAge'
BY DEF Restart, PlacedByAge

LEMMA WindowInvInductive == Spec => []WindowInv
<1>1. Init => WindowInv
  BY InitTypeOK DEF Init, WindowInv, PlacedByAge
<1>2. WindowInv /\ TypeOK' /\ [Next]_vars => WindowInv'
  <2> SUFFICES ASSUME WindowInv, [Next]_vars PROVE PlacedByAge'
    BY DEF WindowInv
  <2>1. ASSUME NEW d \in Delivery, NEW z \in Zone, Count(d, z) PROVE PlacedByAge'
    BY <2>1, CountPlaces
  <2>2. ASSUME NEW i \in Run, StartTick(i) PROVE PlacedByAge'
    BY <2>2, StartTickPlaces
  <2>3. ASSUME NEW i \in Run, NextZone(i) PROVE PlacedByAge'
    BY <2>3, NextZonePlaces
  <2>4. ASSUME NEW i \in Run, SetMultiplier(i) \/ FailTick(i) \/ LoseHot(i)
        PROVE  PlacedByAge'
    BY <2>4 DEF WindowInv, PlacedByAge, SetMultiplier, FailTick, LoseHot
  <2>5. ASSUME NEW f \in Flush, StartFlush(f) \/ FlushZone(f) \/ FailFlush(f)
        PROVE  PlacedByAge'
    BY <2>5 DEF WindowInv, PlacedByAge, StartFlush, FlushZone, FailFlush
  <2>6. CASE Restart
    BY <2>6, RestartPlaces
  <2>7. CASE UNCHANGED vars
    BY <2>7 DEF WindowInv, PlacedByAge, vars
  <2> QED
    BY <2>1, <2>2, <2>3, <2>4, <2>5, <2>6, <2>7 DEF Next
<1> QED
  BY <1>1, <1>2, TypeCorrect, PTL DEF Spec

(***************************************************************************)
(* However many ticks overlap and fail, and however long the ring: only a  *)
(* restart forgets a request before Ring - 1 ticks have started after it.  *)
(***************************************************************************)
THEOREM WindowIsKept == Spec => KeptForTheWindow
<1>1. ASSUME WindowInv, [Next]_vars
      PROVE  [Restart \/ \A d \in Remembered :
                 d \in Remembered' \/ age[d] >= Ring - 1]_vars
  <2> SUFFICES ASSUME Next, ~Restart, NEW d \in Remembered, d \notin Remembered'
               PROVE  age[d] >= Ring - 1
    BY <1>1
  <2>1. PICK z \in Zone, k \in Index : d \in slot[z][k] /\ d \notin slot'[z][k]
    BY DEF Remembered, Window
  <2>2. ASSUME NEW e \in Delivery, NEW y \in Zone, Count(e, y) PROVE FALSE
    BY <1>1, <2>1, <2>2 DEF Count, WindowInv, TypeOK
  <2>3. PICK i \in Run : NextZone(i)
    BY <2>1, <2>2 DEF Next, StartTick, SetMultiplier, FailTick, LoseHot, StartFlush,
                      FlushZone, FailFlush
  <2>4. run[i].zone \in Zone
    BY <1>1, <2>3, RunAwaits DEF NextZone, WindowInv
  <2>5. k = NextSlot
    BY <1>1, <2>1, <2>3, <2>4 DEF NextZone, WindowInv, TypeOK
  <2> QED
    BY <1>1, <2>1, <2>5, NextSlotIsOld
<1> QED
  BY <1>1, WindowInvInductive, PTL DEF Spec, KeptForTheWindow

(***************************************************************************)
(* Ticks end before the next one starts.                                   *)
(***************************************************************************)
OneTickAtATime ==
    \A i, j \in Run : run[i] # IdleRun /\ run[j] # IdleRun => i = j

(***************************************************************************)
(* Until something fails, the slot ahead of the index is empty in every    *)
(* zone but those that a tick under way has still to visit, and what the   *)
(* ring holds is younger than a round: the index moves into an empty slot. *)
(***************************************************************************)
EmptyAhead ==
    \A z \in Zone :
        \/ slot[z][NextSlot] = {}
        \/ \E i \in Run : run[i] # IdleRun /\ run[i].zone <= z

Young == \A d \in Remembered : age[d] < Ring

SlidingInv == WindowInv /\ (faults = 0 => EmptyAhead /\ Young)

LEMMA NextSlotIsAnother ==
    ASSUME WindowInv, Ring > 1
    PROVE  NextSlot \in Index /\ NextSlot # tickIdx
BY AfterIs, SurgeAssumption DEF WindowInv, TypeOK, NextSlot, Index

LEMMA CountSlides ==
    ASSUME SlidingInv, Ring > 1, faults = 0,
           NEW e \in Delivery, NEW y \in Zone, Count(e, y)
    PROVE  EmptyAhead' /\ Young'
<1>1. NextSlot \in Index /\ NextSlot # tickIdx /\ NextSlot' = NextSlot
  BY NextSlotIsAnother DEF SlidingInv, Count, NextSlot
<1>2. \A z \in Zone : slot'[z][NextSlot] = slot[z][NextSlot]
  BY <1>1 DEF Count, SlidingInv, WindowInv, TypeOK
<1>3. EmptyAhead'
  BY <1>1, <1>2 DEF EmptyAhead, SlidingInv, Count
<1>4. ASSUME NEW d \in Remembered' PROVE age'[d] < Ring
  <2>1. d \in Remembered \cup {e}
    BY <1>4 DEF Remembered, Window, Count, SlidingInv, WindowInv, TypeOK
  <2>2. CASE d = e
    BY <2>2, SurgeAssumption DEF Count, SlidingInv, WindowInv, TypeOK
  <2>3. CASE d # e
    <3>1. age'[d] = age[d]
      BY <2>3 DEF Count, SlidingInv, WindowInv, TypeOK
    <3> QED
      BY <2>1, <2>3, <3>1 DEF SlidingInv, Young
  <2> QED
    BY <2>2, <2>3
<1> QED
  BY <1>3, <1>4 DEF Young

LEMMA StartTickSlides ==
    ASSUME SlidingInv, OneTickAtATime', faults = 0, NEW i \in Run, StartTick(i)
    PROVE  EmptyAhead' /\ Young'
<1>1. run'[i] # IdleRun /\ run'[i].zone = 1
  BY SurgeAssumption DEF StartTick, SlidingInv, WindowInv, TypeOK, Summing, IdleRun
<1>2. EmptyAhead'
  BY <1>1 DEF EmptyAhead, Zone
<1>3. \A j \in Run : run[j] = IdleRun
  <2>1. ASSUME NEW j \in Run, run[j] # IdleRun PROVE FALSE
    <3>1. j # i /\ run'[j] = run[j]
      BY <2>1 DEF StartTick, SlidingInv, WindowInv, TypeOK
    <3> QED
      BY <1>1, <2>1, <3>1 DEF OneTickAtATime
  <2> QED
    BY <2>1
<1>4. \A z \in Zone : slot[z][NextSlot] = {}
  BY <1>3 DEF SlidingInv, EmptyAhead
<1>5. ASSUME NEW d \in Remembered' PROVE age'[d] < Ring
  <2>1. PICK z \in Zone, k \in Index : d \in slot[z][k]
    BY <1>5 DEF Remembered, Window, StartTick
  <2>2. d \in Delivery /\ d \in Remembered /\ age[d] \in 0 .. Ring + 1 /\ age[d] < Ring
    BY <2>1 DEF Remembered, Window, SlidingInv, WindowInv, TypeOK, Young
  <2>3. k # NextSlot
    BY <1>4, <2>1
  <2>4. Ring \in Nat \ {0} /\ tickIdx \in Index
    BY SurgeAssumption DEF SlidingInv, WindowInv, TypeOK
  <2>5. NextSlot = IF tickIdx = Ring - 1 THEN 0 ELSE tickIdx + 1
    BY <2>4, AfterIs DEF NextSlot
  <2>6. k + age[d] = tickIdx \/ k + age[d] = tickIdx + Ring
    BY <2>1, <2>2, <2>4 DEF SlidingInv, WindowInv, PlacedByAge
  <2>7. age[d] # Ring - 1
    BY <2>2, <2>3, <2>4, <2>5, <2>6 DEF Index
  <2>8. age'[d] = Smaller(Ring + 1, age[d] + 1)
    BY <2>2 DEF StartTick
  <2> QED
    BY <2>2, <2>4, <2>7, <2>8 DEF Smaller
<1> QED
  BY <1>2, <1>5 DEF Young

LEMMA NextZoneSlides ==
    ASSUME SlidingInv, OneTickAtATime, faults = 0, NEW i \in Run, NextZone(i)
    PROVE  EmptyAhead' /\ Young'
<1> DEFINE z == run[i].zone
<1>1. run[i] # IdleRun /\ z \in Zone
  BY RunAwaits DEF NextZone, SlidingInv, WindowInv, IdleRun
<1>2. NextSlot \in Index /\ NextSlot' = NextSlot
  BY AfterIs DEF NextSlot, NextZone, SlidingInv, WindowInv, TypeOK
<1>3. ASSUME NEW y \in Zone
      PROVE  \/ slot'[y][NextSlot] = {}
             \/ \E j \in Run : run'[j] # IdleRun /\ run'[j].zone <= y
  <2>1. CASE y = z
    BY <1>1, <1>2, <2>1 DEF NextZone, SlidingInv, WindowInv, TypeOK
  <2>2. CASE y < z
    <3>1. slot[y][NextSlot] = {}
      <4>1. ASSUME NEW j \in Run, run[j] # IdleRun, run[j].zone <= y PROVE FALSE
        BY <1>1, <2>2, <4>1 DEF OneTickAtATime, Zone
      <4> QED
        BY <4>1 DEF SlidingInv, EmptyAhead
    <3> QED
      BY <1>1, <1>2, <2>2, <3>1 DEF NextZone, SlidingInv, WindowInv, TypeOK, Zone
  <2>3. CASE y > z
    <3>1. z # Zones /\ z + 1 <= y
      BY <1>1, <2>3, SurgeAssumption DEF Zone
    <3>2. run'[i] = Summing(z + 1)
      BY <1>1, <3>1 DEF NextZone, SlidingInv, WindowInv, TypeOK
    <3> QED
      BY <3>1, <3>2 DEF Summing, IdleRun
  <2> QED
    BY <1>1, <2>1, <2>2, <2>3 DEF Zone
<1>4. Remembered' \subseteq Remembered
  <2>1. \A y \in Zone, k \in Index : slot'[y][k] \subseteq slot[y][k]
    BY <1>1, <1>2 DEF NextZone, SlidingInv, WindowInv, TypeOK
  <2> QED
    BY <2>1 DEF Remembered, Window
<1> QED
  BY <1>2, <1>3, <1>4 DEF EmptyAhead, Young, NextZone, SlidingInv

LEMMA SetMultiplierSlides ==
    ASSUME SlidingInv, faults = 0, NEW i \in Run, SetMultiplier(i)
    PROVE  EmptyAhead' /\ Young'
<1>1. ASSUME NEW j \in Run, run[j] # IdleRun
      PROVE  run'[j] # IdleRun /\ run'[j].zone = run[j].zone
  BY <1>1 DEF SetMultiplier, SlidingInv, WindowInv, TypeOK, IdleRun
<1>2. NextSlot' = NextSlot /\ Remembered' = Remembered
  BY DEF SetMultiplier, NextSlot, Remembered, Window
<1> QED
  BY <1>1, <1>2 DEF SetMultiplier, SlidingInv, EmptyAhead, Young

(***************************************************************************)
(* While ticks end before the next one starts and nothing has failed, a    *)
(* ring of two slots or more forgets: it holds nothing that came a whole   *)
(* round or more ago.                                                      *)
(***************************************************************************)
THEOREM WindowSlides ==
    ASSUME Ring > 1
    PROVE  Spec /\ []OneTickAtATime => []SlidingWindow
<1>1. Init => SlidingInv
  <2> SUFFICES ASSUME Init PROVE SlidingInv
    OBVIOUS
  <2>1. WindowInv
    BY InitTypeOK DEF Init, WindowInv, PlacedByAge
  <2>2. NextSlot \in Index
    BY <2>1, AfterIs DEF NextSlot, WindowInv, TypeOK
  <2>3. EmptyAhead
    BY <2>2 DEF Init, EmptyAhead
  <2>4. Young
    BY DEF Init, Young, Remembered, Window
  <2> QED
    BY <2>1, <2>3, <2>4 DEF SlidingInv
<1>2. SlidingInv /\ WindowInv' /\ OneTickAtATime /\ OneTickAtATime' /\ [Next]_vars
      => SlidingInv'
  <2> SUFFICES ASSUME SlidingInv, OneTickAtATime, OneTickAtATime', [Next]_vars,
                      faults' = 0
               PROVE  EmptyAhead' /\ Young'
    BY DEF SlidingInv
  <2>1. ASSUME faults = 0, NEW d \in Delivery, NEW z \in Zone, Count(d, z)
        PROVE  EmptyAhead' /\ Young'
    BY <2>1, CountSlides
  <2>2. ASSUME faults = 0, NEW i \in Run, StartTick(i) PROVE EmptyAhead' /\ Young'
    BY <2>2, StartTickSlides
  <2>3. ASSUME faults = 0, NEW i \in Run, NextZone(i) PROVE EmptyAhead' /\ Young'
    BY <2>3, NextZoneSlides
  <2>4. ASSUME faults = 0, NEW i \in Run, SetMultiplier(i) PROVE EmptyAhead' /\ Young'
    BY <2>4, SetMultiplierSlides
  <2>5. ASSUME NEW i \in Run, FailTick(i) \/ LoseHot(i) PROVE FALSE
    BY <2>5 DEF FailTick, LoseHot, SlidingInv, WindowInv, TypeOK
  <2>6. ASSUME faults = 0, NEW f \in Flush, StartFlush(f) \/ FlushZone(f)
        PROVE  EmptyAhead' /\ Young'
    BY <2>6 DEF SlidingInv, EmptyAhead, Young, NextSlot, Remembered, Window,
                StartFlush, FlushZone
  <2>7. ASSUME NEW f \in Flush, FailFlush(f) PROVE FALSE
    BY <2>7 DEF FailFlush, SlidingInv, WindowInv, TypeOK
  <2>8. ASSUME Restart PROVE FALSE
    BY <2>8 DEF Restart, SlidingInv, WindowInv, TypeOK
  <2>9. CASE UNCHANGED vars
    BY <2>9 DEF vars, SlidingInv, EmptyAhead, Young, NextSlot, Remembered, Window
  <2>10. ASSUME Next PROVE faults = 0
    <3>1. CASE \E d \in Delivery, z \in Zone : Count(d, z)
      BY <3>1 DEF Count
    <3>2. ASSUME NEW i \in Run, StartTick(i) \/ SetMultiplier(i) \/ NextZone(i)
          PROVE  faults = 0
      BY <3>2 DEF StartTick, SetMultiplier, NextZone
    <3>3. ASSUME NEW f \in Flush, StartFlush(f) \/ FlushZone(f) PROVE faults = 0
      BY <3>3 DEF StartFlush, FlushZone
    <3> QED
      BY <2>5, <2>7, <2>8, <2>10, <3>1, <3>2, <3>3 DEF Next
  <2> QED
    BY <2>1, <2>2, <2>3, <2>4, <2>5, <2>6, <2>7, <2>8, <2>9, <2>10 DEF Next
<1>3. SlidingInv => SlidingWindow
  BY DEF SlidingInv, SlidingWindow, Young
<1> QED
  BY <1>1, <1>2, <1>3, WindowInvInductive, PTL DEF Spec

(***************************************************************************)
(* The ticks under way that have still to come to zone z.                  *)
(***************************************************************************)
Coming(z) == {i \in Run : run[i] # IdleRun /\ run[i].zone < z}

(***************************************************************************)
(* A request that no tick has summed is as old as the ticks that started   *)
(* after it, and each of these is still on its way to the zone or failed.  *)
(***************************************************************************)
PassedOver ==
    \A z \in Zone : \A k \in Index : \A d \in slot[z][k] :
        d \in counted \/ age[d] <= Cardinality(Coming(z)) + faults

CountingInv == WindowInv /\ PassedOver

LEMMA ComingFinite ==
    ASSUME IsFiniteSet(Run), NEW z
    PROVE  IsFiniteSet(Coming(z)) /\ Cardinality(Coming(z)) \in Nat
BY FS_Subset, FS_CardinalityType DEF Coming

LEMMA CountPassesOver ==
    ASSUME CountingInv, IsFiniteSet(Run), NEW e \in Delivery, NEW y \in Zone, Count(e, y)
    PROVE  PassedOver'
<1> SUFFICES ASSUME NEW z \in Zone, NEW k \in Index, NEW d \in slot'[z][k],
                    d \notin counted'
             PROVE  age'[d] <= Cardinality(Coming(z)) + faults
  BY DEF PassedOver, Count, Coming
<1>1. CASE d = e
  <2>1. age'[d] = 0
    BY <1>1 DEF Count, CountingInv, WindowInv, TypeOK
  <2> QED
    BY <2>1, ComingFinite DEF CountingInv, WindowInv, TypeOK
<1>2. CASE d # e
  <2>1. d \in slot[z][k] /\ d \notin counted /\ age'[d] = age[d]
    BY <1>2 DEF Count, CountingInv, WindowInv, TypeOK
  <2> QED
    BY <2>1 DEF CountingInv, PassedOver
<1> QED
  BY <1>1, <1>2

LEMMA StartTickPassesOver ==
    ASSUME CountingInv, IsFiniteSet(Run), NEW i \in Run, StartTick(i)
    PROVE  PassedOver'
<1> SUFFICES ASSUME NEW z \in Zone, NEW k \in Index, NEW d \in slot[z][k],
                    d \notin counted'
             PROVE  age'[d] <= Cardinality(Coming(z)') + faults
  BY DEF PassedOver, StartTick
<1>1. z # 1 /\ d \notin counted
  BY DEF StartTick, Window
<1>2. Coming(z)' = Coming(z) \cup {i} /\ i \notin Coming(z)
  BY <1>1, SurgeAssumption
  DEF Coming, StartTick, CountingInv, WindowInv, TypeOK, Zone, Summing, IdleRun
<1>3. Cardinality(Coming(z)') = Cardinality(Coming(z)) + 1 /\ Cardinality(Coming(z)) \in Nat
  BY <1>2, ComingFinite, FS_AddElement
<1>4. d \in Delivery /\ d \in Remembered /\ age[d] \in 0 .. Ring + 1
  BY DEF CountingInv, WindowInv, TypeOK, Remembered, Window
<1>5. age'[d] <= age[d] + 1 /\ age'[d] \in Nat
  BY <1>4, SurgeAssumption DEF StartTick, Smaller
<1>6. age[d] <= Cardinality(Coming(z)) + faults /\ faults \in Nat
  BY <1>1 DEF CountingInv, PassedOver, WindowInv, TypeOK
<1> QED
  BY <1>3, <1>4, <1>5, <1>6

LEMMA NextZonePassesOver ==
    ASSUME CountingInv, IsFiniteSet(Run), NEW i \in Run, NextZone(i)
    PROVE  PassedOver'
<1> SUFFICES ASSUME NEW z \in Zone, NEW k \in Index, NEW d \in slot'[z][k],
                    d \notin counted'
             PROVE  age[d] <= Cardinality(Coming(z)') + faults
  BY DEF PassedOver, NextZone
<1>1. run[i] # IdleRun /\ run[i].zone \in Zone
  BY RunAwaits DEF NextZone, CountingInv, WindowInv, IdleRun
<1>2. NextSlot \in Index
  BY AfterIs DEF NextSlot, CountingInv, WindowInv, TypeOK
<1>3. d \in slot[z][k] /\ d \notin counted
  BY <1>1, <1>2 DEF NextZone, CountingInv, WindowInv, TypeOK
<1>4. \A j \in Run \ {i} : run'[j] = run[j]
  BY <1>1 DEF NextZone, CountingInv, WindowInv, TypeOK
<1>5. i \in Coming(z) <=> i \in Coming(z)'
  <2>1. CASE run[i].zone = Zones
    BY <1>1, <2>1 DEF NextZone, CountingInv, WindowInv, TypeOK, Coming, Zone, IdleRun
  <2>2. CASE run[i].zone # Zones
    <3>1. run'[i] # IdleRun /\ run'[i].zone = run[i].zone + 1
      BY <1>1, <2>2 DEF NextZone, CountingInv, WindowInv, TypeOK, Summing, IdleRun
    <3>2. z # run[i].zone + 1
      <4>1. SUFFICES ASSUME z = run[i].zone + 1 PROVE d \in Window(z)
        BY <2>2 DEF NextZone
      <4> QED
        BY <1>3 DEF Window
    <3> QED
      BY <1>1, <3>1, <3>2 DEF Coming, Zone
  <2> QED
    BY <2>1, <2>2
<1>6. Coming(z)' = Coming(z)
  BY <1>4, <1>5 DEF Coming
<1> QED
  BY <1>3, <1>6 DEF CountingInv, PassedOver

\* A tick that fails was one of those to come, at most.
LEMMA FailurePassesOver ==
    ASSUME CountingInv, IsFiniteSet(Run), NEW i \in Run, FailTick(i) \/ LoseHot(i)
    PROVE  PassedOver'
<1> SUFFICES ASSUME NEW z \in Zone, NEW k \in Index, NEW d \in slot[z][k],
                    d \notin counted
             PROVE  age[d] <= Cardinality(Coming(z)') + faults'
  BY DEF PassedOver, FailTick, LoseHot
<1>1. faults' = faults + 1 /\ faults \in Nat
  BY DEF FailTick, LoseHot, CountingInv, WindowInv, TypeOK
<1>2. Coming(z)' = Coming(z) \ {i}
  BY DEF FailTick, LoseHot, CountingInv, WindowInv, TypeOK, Coming
<1>3. /\ IsFiniteSet(Coming(z)) /\ Cardinality(Coming(z)) \in Nat
      /\ Cardinality(Coming(z)') = IF i \in Coming(z) THEN Cardinality(Coming(z)) - 1
                                                   ELSE Cardinality(Coming(z))
  <2>1. IsFiniteSet(Coming(z)) /\ Cardinality(Coming(z)) \in Nat
    BY ComingFinite
  <2> QED
    BY <1>2, <2>1, FS_RemoveElement
<1>4. age[d] <= Cardinality(Coming(z)) + faults /\ age[d] \in Nat
  BY DEF CountingInv, PassedOver, WindowInv, TypeOK
<1> QED
  BY <1>1, <1>3, <1>4

LEMMA OthersPassOver ==
    ASSUME CountingInv, IsFiniteSet(Run),
           \/ \E i \in Run : SetMultiplier(i)
           \/ \E f \in Flush : StartFlush(f) \/ FlushZone(f) \/ FailFlush(f)
           \/ UNCHANGED vars
    PROVE  PassedOver'
<1>1. UNCHANGED <<slot, age, counted>>
  BY DEF SetMultiplier, StartFlush, FlushZone, FailFlush, vars
<1>2. faults \in Nat /\ (faults' = faults \/ faults' = faults + 1)
  BY DEF SetMultiplier, StartFlush, FlushZone, FailFlush, vars, CountingInv, WindowInv, TypeOK
<1>3. ASSUME NEW z \in Zone PROVE Coming(z)' = Coming(z)
  <2>1. ASSUME NEW i \in Run, SetMultiplier(i) PROVE Coming(z)' = Coming(z)
    BY <2>1 DEF SetMultiplier, Coming, CountingInv, WindowInv, TypeOK, IdleRun
  <2>2. CASE run' = run
    BY <2>2 DEF Coming
  <2> QED
    BY <2>1, <2>2 DEF StartFlush, FlushZone, FailFlush, vars
<1> SUFFICES ASSUME NEW z \in Zone, NEW k \in Index, NEW d \in slot[z][k],
                    d \notin counted
             PROVE  age[d] <= Cardinality(Coming(z)) + faults'
  BY <1>1, <1>3 DEF PassedOver
<1>4. age[d] <= Cardinality(Coming(z)) + faults /\ age[d] \in Nat
  BY DEF CountingInv, PassedOver, WindowInv, TypeOK
<1> QED
  BY <1>2, <1>4, ComingFinite

(***************************************************************************)
(* In a ring that is longer than the ticks that can overlap and the faults *)
(* taken together, no request is forgotten before some tick has summed it. *)
(***************************************************************************)
THEOREM RequestsCount ==
    ASSUME IsFiniteSet(Run), Ring > Cardinality(Run) + MaxFaults
    PROVE  Spec => EveryRequestCounts
<1>1. Init => CountingInv
  BY InitTypeOK DEF Init, CountingInv, WindowInv, PlacedByAge, PassedOver
<1>2. CountingInv /\ WindowInv' /\ [Next]_vars => CountingInv'
  <2> SUFFICES ASSUME CountingInv, [Next]_vars PROVE PassedOver'
    BY DEF CountingInv
  <2>1. ASSUME NEW d \in Delivery, NEW z \in Zone, Count(d, z) PROVE PassedOver'
    BY <2>1, CountPassesOver
  <2>2. ASSUME NEW i \in Run, StartTick(i) PROVE PassedOver'
    BY <2>2, StartTickPassesOver
  <2>3. ASSUME NEW i \in Run, NextZone(i) PROVE PassedOver'
    BY <2>3, NextZonePassesOver
  <2>4. ASSUME NEW i \in Run, FailTick(i) \/ LoseHot(i) PROVE PassedOver'
    BY <2>4, FailurePassesOver
  <2>5. CASE Restart
    BY <2>5 DEF Restart, PassedOver
  <2> QED
    BY <2>1, <2>2, <2>3, <2>4, <2>5, OthersPassOver DEF Next
<1>3. ASSUME CountingInv, [Next]_vars
      PROVE  [Restart \/ \A d \in Remembered : d \in Remembered' \/ d \in counted]_vars
  <2> SUFFICES ASSUME Next, ~Restart, NEW d \in Remembered, d \notin Remembered',
                      d \notin counted
               PROVE  FALSE
    BY <1>3
  <2>1. PICK z \in Zone, k \in Index : d \in slot[z][k] /\ d \notin slot'[z][k]
    BY DEF Remembered, Window
  <2>2. ASSUME NEW e \in Delivery, NEW y \in Zone, Count(e, y) PROVE FALSE
    BY <1>3, <2>1, <2>2 DEF Count, CountingInv, WindowInv, TypeOK
  <2>3. PICK i \in Run : NextZone(i)
    BY <2>1, <2>2 DEF Next, StartTick, SetMultiplier, FailTick, LoseHot, StartFlush,
                      FlushZone, FailFlush
  <2>4. run[i].zone \in Zone
    BY <1>3, <2>3, RunAwaits DEF NextZone, CountingInv, WindowInv
  <2>5. k = NextSlot /\ z = run[i].zone
    BY <1>3, <2>1, <2>3, <2>4 DEF NextZone, CountingInv, WindowInv, TypeOK
  <2>6. age[d] >= Ring - 1
    BY <1>3, <2>1, <2>5, NextSlotIsOld DEF CountingInv
  <2>7. age[d] <= Cardinality(Coming(z)) + faults
    BY <1>3, <2>1 DEF CountingInv, PassedOver
  <2>8. Coming(z) \subseteq Run \ {i}
    BY <2>4, <2>5 DEF Coming, Zone
  <2>9. Cardinality(Coming(z)) <= Cardinality(Run) - 1 /\ Cardinality(Coming(z)) \in Nat
    <3>1. IsFiniteSet(Run \ {i}) /\ Cardinality(Run \ {i}) = Cardinality(Run) - 1
      BY FS_RemoveElement
    <3>2. Cardinality(Coming(z)) <= Cardinality(Run \ {i})
      BY <2>8, <3>1, FS_Subset
    <3> QED
      BY <3>1, <3>2, ComingFinite
  <2>10. age[d] \in Nat /\ faults \in 0 .. MaxFaults /\ MaxFaults \in Nat /\ Ring \in Nat
    BY <1>3, <2>1, SurgeAssumption DEF CountingInv, WindowInv, TypeOK
  <2>11. Cardinality(Run) \in Nat
    BY FS_CardinalityType
  <2> QED
    BY <2>6, <2>7, <2>9, <2>10, <2>11
<1> QED
  BY <1>1, <1>2, <1>3, WindowInvInductive, PTL DEF Spec, EveryRequestCounts
=============================================================================
