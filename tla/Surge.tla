------------------------------- MODULE Surge -------------------------------
(***************************************************************************)
(* The surge worker: a ring of counters per zone, one for each second of   *)
(* the window, and a multiplier that follows the ratio of requests to      *)
(* online drivers.  The hot multiplier goes to Redis at every tick, the    *)
(* durable one to Postgres at every flush; fares read the first and fall   *)
(* back to the second.                                                     *)
(*                                                                         *)
(* The timer starts a tick every second, whether the last one has come     *)
(* back from its awaits or not.  A tick is therefore a process of its own: *)
(* between two awaits it runs alone, and events and other ticks interleave *)
(* at the awaits.                                                          *)
(*                                                                         *)
(* Multipliers are in cents.  A counter is the set of the deliveries that  *)
(* were counted in it: each delivery of an event counts, a repeated one    *)
(* counts again under another name.                                        *)
(***************************************************************************)
EXTENDS Naturals, FiniteSets

CONSTANTS
    Delivery,       \* deliveries of trip.requested that may be remembered at a time
    Zones,          \* number of surge zones; ticks visit them as 1, 2, ...
    Ring,           \* seconds in the window: the length of lastSeenIdx
    Run,            \* ticks that may be under way at a time
    Flush,          \* flushes that may be under way at a time
    MaxDrivers,     \* most drivers that are online in a zone
    MaxMultiplier,  \* SURGE_M_MAX, in cents
    High, Low,      \* SURGE_T_HIGH and SURGE_T_LOW, in tenths
    MaxFaults       \* failed ticks, failed flushes and restarts

ASSUME SurgeAssumption ==
    /\ IsFiniteSet(Delivery)
    /\ Zones \in Nat \ {0}
    /\ Ring \in Nat \ {0}
    /\ MaxDrivers \in Nat
    /\ MaxMultiplier \in Nat /\ MaxMultiplier >= 100
    /\ High \in Nat /\ Low \in Nat /\ Low <= High
    /\ MaxFaults \in Nat

VARIABLES
    slot,        \* slot[z][k]: the deliveries counted in lastSeenIdx[k] of zone z
    tickIdx,
    run,         \* each tick: the await it is in, its zone and the requests it summed
    multiplier,  \* of each zone, in memory
    hot,         \* the hash in Redis; Unset before the first tick ever
    base,        \* base_multiplier of the zone's row
    flush,       \* each flush: its zone and the value its UPDATE carries
    faults,
    age,         \* history: ticks started since a remembered delivery came
    counted      \* history: remembered deliveries that some tick has summed

vars == <<slot, tickIdx, run, multiplier, hot, base, flush, faults, age, counted>>

Zone == 1 .. Zones
Index == 0 .. Ring - 1
Multiplier == 100 .. MaxMultiplier
Unset == 0

IdleRun == [at |-> "idle", zone |-> 0, requests |-> 0]
IdleFlush == [zone |-> 0, value |-> 0]

\* The index after k in the ring.  Mutant: it does not wrap.
After_Unwrapped(k) == k + 1
After(k) == (k + 1) % Ring

Window(z) == UNION {slot[z][k] : k \in Index}
Remembered == UNION {Window(z) : z \in Zone}

(***************************************************************************)
(* The arithmetic.  Math.round works on a double that is near the exact    *)
(* product: at a tie the code may round either way.                        *)
(***************************************************************************)
Rounded(n, d) ==
    {r \in {n \div d, n \div d + 1} : 2 * d * r <= 2 * n + d /\ 2 * n <= 2 * d * r + d}

Smaller(a, b) == IF a < b THEN a ELSE b
Larger(a, b) == IF a > b THEN a ELSE b

\* The cents nextMultiplier may return for a ratio of requests to drivers.
\* Mutant: the decay has no lower bound.
NextMultiplier_Unbounded(current, requests, drivers) ==
    IF 10 * requests > High * drivers
    THEN Rounded(Smaller(10 * MaxMultiplier, 11 * current), 10)
    ELSE IF 10 * requests < Low * drivers THEN Rounded(97 * current, 100) ELSE {current}

NextMultiplier(current, requests, drivers) ==
    IF 10 * requests > High * drivers
    THEN Rounded(Smaller(10 * MaxMultiplier, 11 * current), 10)
    ELSE IF 10 * requests < Low * drivers
         THEN Rounded(Larger(10000, 97 * current), 100)
         ELSE {current}

\* A zone of which no driver is online counts as having one.  Mutant: it
\* does not, and the comparisons with 0 / 0 are false.
Drivers_OrNone == 0 .. MaxDrivers
Drivers == {Larger(1, n) : n \in 0 .. MaxDrivers}

----------------------------------------------------------------------------
Init ==
    /\ slot = [z \in Zone |-> [k \in Index |-> {}]]
    /\ tickIdx = 0
    /\ run = [i \in Run |-> IdleRun]
    /\ base \in [Zone -> Multiplier]
    /\ multiplier = base
    /\ hot = [z \in Zone |-> Unset]
    /\ flush = [f \in Flush |-> IdleFlush]
    /\ faults = 0
    /\ age = [d \in Delivery |-> 0]
    /\ counted = {}

(***************************************************************************)
(* onTripEvent: the pickup lies in zone z, and the counter of the current  *)
(* second is incremented when the lookup has returned.                     *)
(***************************************************************************)
Count(d, z) ==
    /\ d \notin Remembered
    /\ slot' = [slot EXCEPT ![z][tickIdx] = @ \cup {d}]
    /\ age' = [age EXCEPT ![d] = 0]
    /\ counted' = counted \ {d}
    /\ UNCHANGED <<tickIdx, run, multiplier, hot, base, flush, faults>>

\* What a tick does when it comes to zone z: it sums the ring and asks for the drivers.
Summing(z) == [at |-> "drivers", zone |-> z, requests |-> Cardinality(Window(z))]

\* The timer fires: the index moves on and the first zone is summed at once.
StartTick(i) ==
    /\ run[i] = IdleRun
    /\ tickIdx' = After(tickIdx)
    /\ run' = [run EXCEPT ![i] = Summing(1)]
    /\ counted' = counted \cup Window(1)
    /\ age' = [d \in Delivery |->
                  IF d \in Remembered THEN Smaller(Ring + 1, age[d] + 1) ELSE age[d]]
    /\ UNCHANGED <<slot, multiplier, hot, base, flush, faults>>

\* The count of drivers arrives: the multiplier moves and HSET is sent.
\* Commands of one connection take effect in the order they are sent.
SetMultiplier(i) ==
    /\ run[i].at = "drivers"
    /\ \E drivers \in Drivers :
          \E m \in NextMultiplier(multiplier[run[i].zone], run[i].requests, drivers) :
              /\ multiplier' = [multiplier EXCEPT ![run[i].zone] = m]
              /\ hot' = [hot EXCEPT ![run[i].zone] = m]
    /\ run' = [run EXCEPT ![i].at = "redis"]
    /\ UNCHANGED <<slot, tickIdx, base, flush, faults, age, counted>>

\* The slot the next tick will count into, by the index as it is now.
\* Mutants: the slot that is being counted into; the one after the next.
NextSlot_Current == tickIdx
NextSlot_Second == After(After(tickIdx))
NextSlot == After(tickIdx)

\* HSET is answered: the next slot of this zone is emptied and the next zone summed.
NextZone(i) ==
    LET z == run[i].zone IN
    /\ run[i].at = "redis"
    /\ slot' = [slot EXCEPT ![z][NextSlot] = {}]
    /\ IF z = Zones
       THEN run' = [run EXCEPT ![i] = IdleRun] /\ UNCHANGED counted
       ELSE run' = [run EXCEPT ![i] = Summing(z + 1)]
            /\ counted' = counted \cup Window(z + 1)
    /\ UNCHANGED <<tickIdx, multiplier, hot, base, flush, faults, age>>

\* An await rejects: the timer's catch logs, and the zones not yet visited
\* are skipped.
FailTick(i) ==
    /\ faults < MaxFaults
    /\ run[i] # IdleRun
    /\ faults' = faults + 1
    /\ run' = [run EXCEPT ![i] = IdleRun]
    /\ UNCHANGED <<slot, tickIdx, multiplier, hot, base, flush, age, counted>>

\* HSET never reaches Redis, and its await rejects.
LoseHot(i) ==
    /\ faults < MaxFaults
    /\ run[i].at = "drivers"
    /\ \E drivers \in Drivers :
          \E m \in NextMultiplier(multiplier[run[i].zone], run[i].requests, drivers) :
              multiplier' = [multiplier EXCEPT ![run[i].zone] = m]
    /\ faults' = faults + 1
    /\ run' = [run EXCEPT ![i] = IdleRun]
    /\ UNCHANGED <<slot, tickIdx, hot, base, flush, age, counted>>

(***************************************************************************)
(* flushToDb: one UPDATE per zone, each with the multiplier at the time it *)
(* is sent.                                                                *)
(***************************************************************************)
Sending(z) == [zone |-> z, value |-> multiplier[z]]

StartFlush(f) ==
    /\ flush[f] = IdleFlush
    /\ flush' = [flush EXCEPT ![f] = Sending(1)]
    /\ UNCHANGED <<slot, tickIdx, run, multiplier, hot, base, faults, age, counted>>

FlushZone(f) ==
    LET z == flush[f].zone IN
    /\ flush[f] # IdleFlush
    /\ base' = [base EXCEPT ![z] = flush[f].value]
    /\ flush' = [flush EXCEPT ![f] = IF z = Zones THEN IdleFlush ELSE Sending(z + 1)]
    /\ UNCHANGED <<slot, tickIdx, run, multiplier, hot, faults, age, counted>>

FailFlush(f) ==
    /\ faults < MaxFaults
    /\ flush[f] # IdleFlush
    /\ faults' = faults + 1
    /\ flush' = [flush EXCEPT ![f] = IdleFlush]
    /\ UNCHANGED <<slot, tickIdx, run, multiplier, hot, base, age, counted>>

\* The process dies and comes back: loadZones starts from the rows.
Restart ==
    /\ faults < MaxFaults
    /\ faults' = faults + 1
    /\ slot' = [z \in Zone |-> [k \in Index |-> {}]]
    /\ tickIdx' = 0
    /\ run' = [i \in Run |-> IdleRun]
    /\ flush' = [f \in Flush |-> IdleFlush]
    /\ multiplier' = base
    /\ age' = [d \in Delivery |-> 0]
    /\ counted' = {}
    /\ UNCHANGED <<hot, base>>

Next ==
    \/ \E d \in Delivery, z \in Zone : Count(d, z)
    \/ \E i \in Run :
          StartTick(i) \/ SetMultiplier(i) \/ NextZone(i) \/ FailTick(i) \/ LoseHot(i)
    \/ \E f \in Flush : StartFlush(f) \/ FlushZone(f) \/ FailFlush(f)
    \/ Restart

(***************************************************************************)
(* Both timers keep firing and every await ends.                           *)
(***************************************************************************)
Fairness ==
    /\ \A i \in Run :
          /\ WF_vars(StartTick(i))
          /\ WF_vars(SetMultiplier(i))
          /\ WF_vars(NextZone(i))
    /\ \A f \in Flush : WF_vars(StartFlush(f)) /\ WF_vars(FlushZone(f))

Spec == Init /\ [][Next]_vars
FairSpec == Spec /\ Fairness

----------------------------------------------------------------------------
TypeOK ==
    /\ slot \in [Zone -> [Index -> SUBSET Delivery]]
    /\ tickIdx \in Index
    /\ run \in [Run -> {IdleRun} \cup
                  [at : {"drivers", "redis"}, zone : Zone, requests : Nat]]
    /\ multiplier \in [Zone -> Multiplier]
    /\ hot \in [Zone -> Multiplier \cup {Unset}]
    /\ base \in [Zone -> Multiplier]
    /\ flush \in [Flush -> {IdleFlush} \cup [zone : Zone, value : Multiplier]]
    /\ faults \in 0 .. MaxFaults
    /\ age \in [Delivery -> 0 .. Ring + 1]
    /\ counted \in SUBSET Delivery

(***************************************************************************)
(* While every tick ends before the next one and nothing has failed, the   *)
(* ring forgets: when a tick has started, it holds nothing that came Ring  *)
(* or more ticks before.  Slots are emptied one ahead of the index that    *)
(* the next tick will move, after the awaits of this one.                  *)
(***************************************************************************)
SlidingWindow == faults = 0 => \A d \in Remembered : age[d] < Ring

(***************************************************************************)
(* However ticks overlap and wherever they fail, a request is in the       *)
(* counters for the whole window: it is not forgotten before Ring - 1      *)
(* ticks have started after it.  A tick empties a slot by the index it     *)
(* reads after its awaits, which later ticks have moved.                   *)
(***************************************************************************)
KeptForTheWindow ==
    [][Restart \/ \A d \in Remembered : d \in Remembered' \/ age[d] >= Ring - 1]_vars

(***************************************************************************)
(* A request is not forgotten before some tick has summed it, so it counts *)
(* towards the multiplier at least once, as long as the ring is longer     *)
(* than the ticks that overlap and those that fail together.               *)
(***************************************************************************)
EveryRequestCounts ==
    [][Restart \/ \A d \in Remembered : d \in Remembered' \/ d \in counted]_vars

(***************************************************************************)
(* What the documents say: the window is one minute long.  A second of     *)
(* slack is granted, since a request comes between two ticks.              *)
(***************************************************************************)
OneMinuteWindow == \A d \in Remembered : age[d] <= Ring

\* The multiplier a fare is computed with: resolveSurge of the trips service.
ResolveSurge(z) == IF hot[z] # Unset THEN hot[z] ELSE base[z]

(***************************************************************************)
(* A fare is never multiplied by less than one or by more than the         *)
(* maximum, whichever store answers: through rounding, restarts from the   *)
(* stored value, late flushes and a Redis that missed updates.             *)
(***************************************************************************)
FareWithinBounds == \A z \in Zone : ResolveSurge(z) \in Multiplier

\* From some time on no request arrives.
NoMoreRequests == <>[][~ \E d \in Delivery, z \in Zone : Count(d, z)]_vars

(***************************************************************************)
(* When demand has gone, the surge goes: both the multiplier of fares and  *)
(* the durable one come down to 1.00 and stay there, although rounding     *)
(* works on cents and flushes may carry values that are out of date.       *)
(***************************************************************************)
SurgeEnds ==
    NoMoreRequests => <>[](\A z \in Zone : ResolveSurge(z) = 100 /\ base[z] = 100)
=============================================================================
