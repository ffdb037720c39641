# TLA+ specifications of RideX

This directory models the parts of RideX whose correctness depends on the order
in which several processes act: how a trip finds a driver, how drivers'
availability follows, how trip events leave the database and reach the rider's
page, how surge prices follow demand, how requests are limited, what becomes of
ratings, accounts and vehicles that are written at the same time, and what the
pages of the web client show of it all. The modules are checked with TLC on
small instances, and the main results are proved with TLAPS for every value of
the constants. `PROJECT.json` holds the machine-readable side: which lines each
definition models, what each run checks, which mutation of the model each
property catches.

## 1. The system

| Component | State it keeps | Operations | Talks to |
|---|---|---|---|
| Trips API (`apps/api/src/trips`), two replicas | `trips`, `fare_records`, `trip_events`, `drivers.status` | create, cancel, start, complete, rate | Postgres; Redis `driver:online`; the outbox |
| Outbox (`trips.service.ts`, `trip-consumer.ts`) | `trip_events.published_at`, `outboxRunning` of each process | flush from a timer and after requests; the matcher publishes the event it recorded | Postgres row locks; Kafka topic of trip events |
| Matcher (`services/matcher`), two replicas | nothing of its own | on `trip.requested`: geosearch, then try the candidates one by one | Kafka consumer group; Redis; Postgres |
| Driver availability (`drivers.module.ts`) | `drivers.status` | setStatus, nearby | Postgres; Redis |
| Ingestor (`services/ingestor`) | `driver_locations`, `drivers.status` | a location ping | Postgres; Redis; Kafka location topic |
| Surge worker | a ring of per-second counters and a multiplier per zone | onTripEvent, tick, flushToDb | Kafka; Redis; Postgres |
| Rate limiter | a token bucket per key, in Redis, or in memory in a process without Redis | take | called by a guard of the API |
| Consistent hash ring | sorted virtual nodes, one ring per matcher | addNode, removeNode, getNode, getNodes | the matcher's location consumer only looks at a ping if the ring gives it the driver, and logs it |
| Vehicles | `vehicles` and a partial unique index | create, update, activate, remove | Postgres; the matcher joins the active one |
| Ratings (`trips.service.ts`, a trigger of the schema) | `trip_ratings`, `drivers.rating_count`, `rating_avg` | rate | Postgres |
| Authentication | `users`, `drivers` rows at signup | signup, login, demo login, JWT check | Postgres |
| WebSocket gateway | rooms of sockets | subscribe, fan out | Kafka; Postgres |
| Rider's page | the trip id, also in localStorage; the trip shown; a socket and its events | request, cancel, restore after a reload, handle events | the API and the gateway |
| Driver's page (`Driver.tsx`, `ActiveTripCard.tsx`) | the online switch, the loop of positions, the card of the trip | switch, ping, poll, start, complete, cancel | the API and the ingestor |
| Vehicle panel (`VehiclesPanel.tsx`) | the list it shows, what is under way | read, create, activate, remove | the API, beside other tabs and scripts |
| Session (`client.ts`, `AuthGate.tsx`, `useMe.ts`, `UserMenu.tsx`) | the session in localStorage, a copy in the page's gate, the profile in the menu | log in, sign out, navigate, read the profile | the API; other tabs through localStorage |
| Map (`RideMap.tsx`) | the vendor's script, the map and its markers | mount, unmount, effects of a rendering | the vendor's script, or Leaflet |
| Batch jobs, migration runner, metrics, health, admin | none that others depend on | refresh, export, migrate, read | Postgres |

The components share Postgres, which is the source of truth, a Redis GEO set
of online drivers, which is a cache of it kept by everybody, and two Kafka
topics, which are at-least-once.

What makes it hard:

* Two API replicas, two matchers and the ingestor change the same trip and
  driver rows. Each change is one transaction, but what follows it (a Redis
  command, a flush of the outbox) is not part of it.
* The ingestor decides on a column of the locked row and on a subquery of the
  statement's snapshot. Under READ COMMITTED these may be of different age.
* Events are delivered again after a crash or a rebalance.
* A process can die between any two awaits.
* A driver may set the status by hand in the middle of a trip.
* READ COMMITTED: a check and the write that relies on it are two statements
  (vehicles), or not even in one transaction (signup), and only a unique index
  stands behind them; foreign keys take locks nobody wrote down (ratings).
* A page has several requests under way, and nothing orders their answers; it
  may be left, or another user signed in, before they come.

What has to hold, component by component:

* Trips and drivers: a trip only moves along its lifecycle and is bound to a
  driver once; a driver is on one trip at a time; status and trips agree;
  `trip_events` tells every change; the index comes to agree.
* Outbox: a row is in one hand at a time, settled only when the topic holds
  its event, and every event gets there.
* Surge: a request counts for one window; the multiplier stays in its bounds.
* Rate limiter: no more than burst plus refill is admitted in any interval, and
  a refused client that waits as told is let in.
  A key of the store in memory gets one full bucket more per eviction, no more.
* Ring: a lookup finds the nearest member clockwise, and matchers with the same
  members agree on it, so that a ping is handled by one of them at most.
* Vehicles: at most one active vehicle, a driver who has one keeps one, and
  concurrent activations do not deadlock.
* Ratings: each counts once, the average drifts no more than rounding explains,
  and whoever rates is told what has become of it, also when the locks form a
  circle and Postgres has to break it.
* Accounts: no two with one phone or email, and no driver without a profile.
* Gateway and rider's page: the page has the rider's trip as long as it is not
  over, shows nothing that did not happen, and lets go of a trip that is over.
* Driver's page: whoever is told to be offline is not given trips, and the card
  shows the trip there is. Panel: it shows the rows there are. Session: page,
  requests and menu are of one user. Map: it shows the markers of its page.

## 2. Modules

| Module | What it is |
|---|---|
| `TripLifecycle` | Abstract specification: one trip's status and driver, and the six transitions it may take. |
| `Dispatch` | The core. API, ingestor, matchers and the Redis index together. Implements `TripLifecycle`. |
| `MCDispatch` | `Dispatch` for TLC, with its symmetry. |
| `DispatchProofs` | Theorems of `Dispatch`. |
| `EventFeed` | Abstract specification: what a reader of the topic can rely on. |
| `Outbox` | Flushes of the API replicas and publishes of the matchers. Implements `EventFeed`. |
| `MCOutbox` | `Outbox` for TLC: which event is about which trip, which flush runs where. |
| `OutboxProofs` | Theorems of `Outbox`. |
| `Surge` | The surge worker: a ring of counters, ticks, flushes, the multiplier. |
| `MCSurge` | `Surge` for TLC, with its symmetry. |
| `SurgeProofs` | Theorems of `Surge`. |
| `TokenBucket` | The rate limiter: a bucket in Redis, its script, the replicas' clocks. |
| `MCTokenBucket` | `TokenBucket` for TLC: the skew of each clock. |
| `TokenBucketProofs` | Theorems of `TokenBucket`. |
| `RiderPage` | The rider's page, the gateway, and the API as far as they see it. |
| `MCRiderPage` | `RiderPage` for TLC, with its symmetry. |
| `RiderPageProofs` | Theorems of `RiderPage`. |
| `Vehicles` | The vehicles of a driver: four transactions, row locks, the partial unique index. |
| `VehiclesProofs` | Theorems of `Vehicles`. |
| `Ratings` | `rate`, its trigger, the locks of both, Postgres' deadlock detector. |
| `Accounts` | Signing up: the check, the two rows, the unique columns. |
| `HashRing` | The consistent hash ring of each matcher, and the filter of the location consumer. |
| `MemoryStore` | The rate limiter's store in memory: chains of promises, eviction. |
| `MCServer` | `Vehicles`, `Ratings`, `Accounts`, `HashRing`, `MemoryStore` and `TokenBucket` for TLC. |
| `ServerProofs` | Theorems of `Ratings` and `Accounts`. |
| `VehiclesPanel` | The driver's vehicle panel, on top of `Vehicles`. |
| `DriverPage` | The driver's page, and the services as far as it sees them. |
| `Session` | Who is signed in, as one tab sees it. |
| `RideMap` | The map, the vendor's script and the fall back on Leaflet. |
| `MCWeb` | `VehiclesPanel`, `DriverPage`, `Session` and `RideMap` for TLC. |
| `WebProofs` | Theorems of `Session`, `RideMap` and `DriverPage`. |

`Dispatch` and `Outbox` meet at the topic: `Outbox` shows that a recorded event
gets there and that nothing else does, `Dispatch` lets an event be delivered
from the moment it is recorded, any number of times. `RiderPage` takes the
topic the same way, and the trip as `TripLifecycle` lets it move. `Surge` counts
deliveries, so a repeated event counts twice, as in the code. `VehiclesPanel`
EXTENDS `Vehicles`: a panel is one of its clients.

There are two refinements. `Dispatch` has an instance of `TripLifecycle` for
each trip (`ImplementsLifecycle`), and `Outbox` one of `EventFeed`
(`ImplementsFeed`), both INSTANCE ... WITH a mapping of the state; both are
checked and proved.

The parts of `MCServer` share no state with each other, nor do those of `MCWeb`.
The variable `focus`, chosen in the initial state, says which of them moves in a
behaviour, and the others stay at rest: the states of a run are then the sum of
the states of its parts and not their product, and no interleaving is lost that
a property could tell.

### Dispatch

State: `tripStatus`, `tripDriver`, `events`, `fares`, `ratings` are the columns
and rows of a trip; `driverStatus` and `located` those of a driver; `geo` is the Redis
set `driver:online`. `job[h]` is an HTTP request between two of its steps,
`matcher[m]` a matcher handler between two of its steps, `handled` the trips
whose event a handler has returned from. `drifted` is a history variable, see
below.

A transaction is one step, taken at COMMIT: every handler finds its rows by an
UPDATE or a SELECT FOR UPDATE whose condition Postgres evaluates again on the
locked row, and holds them until COMMIT. Two things are outside and are steps
of their own:

* the Redis command after COMMIT (`UpdateIndex`, `RemoveFromIndex`), and
* the snapshot part of the ingestor's SELECT: `StartPing` evaluates
  `has_active_trip`, `CommitPing` reads the status of the row once it is locked.

| Code | Actions |
|---|---|
| `TripsService.create` / `cancel` / `start` / `complete` | `Create`, `CancelByRider`, `CancelByDriver`, `Start`, `Complete`; `FreeDriver` is what cancel and complete do to the driver |
| `TripsService.rate` | `Rate`: the row of the rating and the `rated` event of a completed trip, which is all that other handlers can see of it; its locks, its trigger and its answers are module `Ratings` |
| `DriversService.setStatus` | `SetStatus` |
| `POST /v1/locations` | `StartPing`, `CommitPing` |
| `GEOADD` / `ZREM` of the three above | `UpdateIndex`, or `DropRequest` when the process dies or Redis fails first |
| `handleTripEvent` | `Deliver`, `FindNobody`; `RejectDriver`, `TripTaken`, `Assign` for one candidate; `RemoveFromIndex`; `AbortScan` for an exception or a crash |
| an operator in the database | `Suspend` (nothing under `src/` writes the value) |

Positions are left out: geosearch answers with any part of the index, which
covers every placement of pickups and drivers. Vehicles are left out too: the
join with the active vehicle is an input of `RejectDriver` and `Assign`.
Identity checks (the rider's own trip, the driver on the row) are in the guards
as far as they touch the modelled columns.

### Outbox

State: `recorded` and `published` are the committed rows of `trip_events` and
their `published_at`, `announced` the events the topic holds at least once,
`running` the flag of each API process, `up` which of them are alive, `worker`
where each flush and each matcher's publish is and which rows it has locked,
still has to send and has marked.

An event is a number, its id. `TripOf` says which trip it is about. Ids of one
trip are in the order of its changes, since every transaction that records one
holds the trip's row. Between trips an id may be committed before a smaller
one, as sequences allow. A `rated` event is one of them: it comes after the
`completed` of its trip, whose row it finds committed. The rider's page has no
branch for it, and `RiderPage` leaves it out.

A flush is `StartFlush` (flag), `SelectBatch` (the client is there, the SELECT
has run), one `Send` or `SendFails` per row, `Commit`. `RefusedInRequest` and
`RefusedInTimer` are the two outcomes of a rejected `connect()`. A matcher
records and publishes in one handler: `RecordByMatcher`, `SelectOwn`, `Send`,
`Commit`. `Abort` is a rollback, `Crash` and `Restart` are external.

Kafka's own retries of one send are not told apart from one success, because
`announced` is a set: how many copies there are is left open on purpose, and
module `Dispatch` assumes that an event may come more than once.

### Surge

State: `slot[z][k]` is `lastSeenIdx[k]` of zone `z`, as the set of the
deliveries counted in it, `tickIdx` the shared index, `multiplier` the value in
memory, `hot` the Redis hash, `base` the row. `run[i]` is a tick between two of
its awaits, `flush[f]` a flush between two UPDATEs. `age` and `counted` are
history: how many ticks have started since a delivery came, and whether some
tick has summed it. Multipliers are integers in cents, and `Rounded` allows
both neighbours at a tie, where the double may lie on either side.

| Code | Actions |
|---|---|
| `onTripEvent` | `Count` (its lookup of the zone changes nothing, so the step is the increment) |
| `tick` | `StartTick`; per zone `SetMultiplier` (drivers counted, HSET sent) and `NextZone` (HSET answered, next slot emptied); `FailTick`, `LoseHot` for a rejected await |
| `flushToDb` | `StartFlush`, `FlushZone`, `FailFlush` |
| restart, `loadZones` | `Restart` |
| `resolveSurge` of the trips service | `ResolveSurge` |

The index is read again after the awaits, as in the code: `NextSlot` is taken
in `NextZone` and not in `StartTick`. This is what makes overlapping ticks
interesting. Zones are disjoint and fixed (the worker loads them once), and the
rows start with multipliers between 1.00 and the maximum.

### TokenBucket

State: `bucket` is the hash in Redis, `sent[p]` the scripts of a replica under
way, with the time each carries, `now` true time, and `Skew` how far each clock
is ahead. `admitted`, `ordered` and `promise` are history. Amounts are in units
of which a token has `Token` and a millisecond brings `Rate`, so that a
fractional rate is an integer; the floating-point error of Lua is left out.

`Take` is `TokenBucket.take` up to the call of the script, `Run` the script in
Redis and the guard's decision, `Expire` PEXPIRE, `Tick` the passing of time.

### MemoryStore

State: `state` is the Map of buckets in its order of insertion, `chain[k]` the
promises of a key with the time each call has read, `inflight` the map of the
chains, `clock` the time, which does not go back here; `Since` is 0 where it
would have, as in `bucket.ts:73`. `let` and `lives` are history: how often a key was
admitted, and how often it was given a full bucket.

`Call` is `take` up to the first await, `Compute` the link that refills,
decides, stores and evicts (`maybeEvict`) in one task, `Settle` the `finally`
that comes a task later and forgets the chain if nobody has joined. Between the
two another call may join, which is what makes `inflight` worth a look.

### RiderPage

State: `tripStatus` and `recorded` are the server's; `fanned` the events the
gateway has forwarded; `tripId`, `active`, `inbox` the page's `tripId`,
`activeTrip` and unhandled `events`; `sub` and `wire` its socket; `call` its
requests under way. `before` and `astray` are history.

A task of the page runs alone, and the effects it causes run with it: a change
of `tripId` closes the socket, drops its events and runs the cleanup of the
restore, which is `CloseTrip`. A request is answered in two steps, one at the
server and one when the answer is handled, with anything in between.

| Code | Actions |
|---|---|
| `requestRide`, `cancelRide` | `RequestRide`, `CancelRide`; `ServeCreate`, `ServeCancel`; `Created`, `Cancelled` |
| restore effect of `tripId` | started in `Created` and `Reload`; `ServeRead`; `Restored` |
| events effect | `Receive`, `HandleEvents`; the reads it starts: `ServeRead`, `Refreshed` |
| `useTripSocket`, `trip:subscribe` | `Created`, `Reload`, `CloseTrip`; `Join` is the gateway's side |
| `createFanout` | `Fanout`, `FanoutAgain` |
| network, reloads | `LoseAnswer`, `Disconnect`, `Reload`, `Unheard` |

The matcher and the driver are `Advance`. Events reach the gateway in any
order, since nothing upstream promises one (see `InOrder`).

### Vehicles and VehiclesPanel

State: `row` holds the committed rows, `off[c]` the rows an open transaction has
switched off and keeps locked, `txn` where each request is, `used` the vehicles
a trip refers to. The rows of one driver are enough: those of others interact
through the plate only, which `Insert` may always find taken.

| Code | Actions |
|---|---|
| `create` | `Check` (SELECT EXISTS), `Insert` (INSERT and COMMIT, or a conflict) |
| `activate`, and `update` with `is_active` true | `Snapshot` and `SwitchOff` (the UPDATE of the others begins, then has its locks and looks again), `SwitchOn` (the UPDATE of the row, COMMIT, and 404 if there was none) |
| `update` with `is_active` false, `remove` | `Single` |
| rollback; answer; a match | `Abort`; `Receive`; `Use` |

`VehiclesPanel` adds `panel` (list, error, busy), the reads under way and two
marks of history. `PanelChange` is one of its buttons, `PanelReceive` the answer
to it and the read it awaits, `Refresh` the button that does not wait for
anything, `ReadServed` and `ReadApplied` a read at the API and in the panel.

### Ratings

State: `ratingOf`, `average` are the rows, `rating` the requests. A transaction
is `Select` (the trip is completed and the rider's), `InsertRating` (the primary
key), `Share` (the foreign key's FOR KEY SHARE on the driver), `Trigger` (FOR
UPDATE on the same driver, the new average), `CommitRating`. Two ratings of one
driver that both have the shared lock wait for each other; `Deadlocked` is
Postgres ending one of them, and external. `Refusal` is what the `catch` makes of
an error, and `answer` what the rider is told. The average is NUMERIC(3,2), an integer in
hundredths here, and is computed from the stored one, as in the trigger.

### Accounts

State: `user`, `profile` are the rows, `signup` the requests. `CheckForm` is the
query before the password is hashed, `InsertUser`, `InsertProfile` and
`CommitSignup` the transaction; `Open` are the transactions whose row an insert
with the same phone, email or licence has to wait for.

### HashRing

State: `place` gives the virtual nodes their hashes, any function, collisions
included; `ring`, `member` are what a matcher has, `added` the order it was
given them in. `LowerBound` is the binary search, a recursive function;
`Spliced` and `Placed` are `addNode`, `Without` is `removeNode`, `GetNode` and
`GetNodes` are the lookups, `Handles` the filter of the location consumer.
`Selected` is the filter of an array, by index; it takes the place of
`SelectSeq`, whose parameter is an operator, and of which nothing can be proved.

### DriverPage

State: `availability`, `assigned` are the server's; `online`, `card` the page's;
`call` the requests of the switch and of the card's buttons, `pings` and `poll`
what its two loops have sent. `loose`, `fresh` and `lateAct` are history.

The page waits for each request before it sends another of the kind
(`statusPendingRef`, `busy`: `Pending`), but these are of one page: a request of
a page that was left, or one that the page was told has failed, is `deaf`, may
be served at any time after, and may be overtaken by what comes later. A trip is
a number, in the order of the requests; the card asks for the latest `ListLimit`
trips and takes the first active one among them (`FirstActive`).

| Code | Actions |
|---|---|
| `toggleOnline` | `ToggleOnline`, `ToggleServed`, `ToggleAnswered`, `CallLost` |
| effects of `online` | `BecomeOnline`, `BecomeOffline` as part of the answer; `SendPing`, `SendPoll`, `PollAnswered`, `PollLost`; `Deafened` is their cleanup |
| `start`, `complete`, `cancel` of the card | `Click`, `ActServed`, `ActAnswered`, `CallLost` |
| the page is left or loaded again | `Leave` |
| services | `Assigned`, `CancelledByRider`, `PingArrives`, `PollServed` |

### Session

State: `stored` is the session in localStorage, `page` the route, `gate` the
copy AuthGate holds, `me` the profile of the menu, `reads` and `logins` what is
under way. `ChangeTo` is `auth.setSession` and `auth.clear` with the listeners
of the tab (`Notified`); `Navigate`, `SubmitLogin`, `LoginAnswered`,
`LoginFailed`, `SignOut`, `OpenMenu`, `ReadAnswered`, `ReadFailed` and `Reload`
are the tab's, `OtherTab` is a change the tab does not hear of.

### RideMap

State: `script`, `ymaps`, `promise` are of the module and outlive a map;
`status`, `awaits` are of the map of the page; `markers`, `center` its props,
`nodes`, `view` what is on the screen, `due` that a rendering has effects left.
`LoadYandexMaps`, `ScriptEnds` and `ApiSettles` are the loading; `Mount`,
`MapCreated`, `MapFailed` and `Unmount` the effect of the mount and its cleanup;
`PropsChange` and `Effects` a rendering and the effects that follow it.

## 3. Runs

| Run | Instance | Question |
|---|---|---|
| `dispatch_safety` | 2 trips, 1 driver, 2 requests, 2 matchers, faults | Can two replicas give one driver two trips, leave status and trips in disagreement, or move a trip off its lifecycle? Does the event log tell everything? |
| `dispatch_index` | 1 trip, 1 driver, 2 requests, 1 matcher, faults | Does the index come to agree when commands are lost and processes die? |
| `outbox_replicas` | 4 events of 2 trips, one of them a matcher's; 2 replicas, 3 flushes; 1 fault of any kind | Is a row ever in two hands, or settled without being on the topic? Who can overtake whom? Is every recorded event published? |
| `outbox_wedge` | 1 replica, 1 refused connection | Is publishing reliable? No (finding). |
| `surge_overlap` | 2 zones, a ring of 4, 2 ticks at a time, 1 fault | Is a request dropped early, or before any tick has summed it, when ticks overlap? |
| `surge_steady` | 1 zone, a ring of 3, 1 tick and 1 flush at a time, multipliers 1.00 to 1.04, 1 fault | Does a request leave the window in time? Is the fare in bounds? Does surge end? |
| `surge_failed_tick` | 2 zones, a ring of 3, 1 fault | Is the window one minute? No (finding). |
| `bucket_exact` | 2 replicas, exact clocks, 2 scripts each under way | Is the limit exact? No (finding). |
| `rider_page` | 2 trips, 2 requests under way, 2 events at a time, 1 fault | Can the page lose a trip, keep one that is over, or show what did not happen? |
| `rider_push` | 1 trip, no fault | Is every change pushed? No (finding). |
| `server_side` | one part at a time: 3 vehicles and 2 clients; 4 rides of 1 driver, 2 requests; 4 forms, 3 accounts, 2 requests; 3 ring members with 2 virtual nodes each, 2 matchers; 2 keys, 1 kept in memory; 2 replicas at the bucket in Redis, one clock ahead | Do the unique indexes and locks hold what the checks before them do not? Do the rings of two matchers agree, and who changes hands when a member comes or goes? Is the rate kept, and a promised time honoured? |
| `web_client` | one part at a time: a panel and a script over 2 vehicles; 2 trips, of which the card asks for the latest, 2 polls, 2 calls; 2 riders and a driver in a tab, 2 logins; 2 markers | Can late, lost or overlapping answers leave a page showing what is not so? |

The bounds. In `Dispatch` a trip is created once and a driver has one status,
so the sets of trips, drivers, requests and matchers are the only bounds. Two
trips and one driver are what it takes to book a driver twice; two requests in
flight are a ping overtaken by a match or by another Redis command; two matchers
are two deliveries of the same event. `Outbox` needs two events of one trip to
be out of order, a third to fill a batch and leave a row over, two replicas and
a matcher to compete, and two overlapping flushes in one process to need the
flag. `MaxFaults` bounds the faults: one is enough to wedge or kill one of the
two replicas, after which the other must do.

In `Surge` a delivery that has left the ring may be counted again under the same
name, so `Delivery` bounds only how many are remembered at a time. Two deliveries
and one driver make the ratio high; none makes it low. Two zones are needed for
a tick that fails between zones or is overtaken between them. The ring is longer
than two overlapping ticks and one failed tick together; `EveryRequestCounts`
would not hold for a shorter one, and the ring of 60 in the code is far from it.
The maximum of 1.04 lets the multiplier rise, be capped and decay with rounding;
the theorem has it for any maximum.

In `TokenBucket` three units a token and a rate of two make rounding matter,
a burst of six units is two tokens, and the time covers refill, cap and expiry
(`Ttl` stands for a day, and only has to be long enough to refill the bucket).
`MaxSent` and `MaxAdmitted` bound the scripts under way and the history.

In `RiderPage` two trips in a row are what it takes for an answer or an event to
come too late; two requests under way are one of each trip; two events at a time
are an end and a change of state in one render; a fault is a lost answer, a
broken connection, a reload, or an event delivered again.

In `server_side` two clients are two transactions that meet, and three vehicles
an active one and two that want to be; an id without a row and one that is gone
are among them. Three of the four rides may be rated, so that the average rounds
more than once, and the fourth is refused; the stars 1, 4 and 5 make it round
both ways. The four forms share a phone, an email or a licence with each other
in every way that matters. In the ring six virtual nodes on three hashes collide
in most placings, and in some they do not; two matchers add and remove members in every order.
The store keeps one bucket and has two keys, so that every other call evicts;
`MaxLives` bounds how often, `MaxCalls` the calls in a chain.

In `web_client` two vehicles are one to switch on and one to switch off, the
script creates and removes beside the panel, and two reads are enough for one to
overtake another. Two trips are one the card still shows and the next; two polls
overtake each other; two calls are one of the page and one of the page before, or
the switch and a button; one ping under way is one that arrives after the switch.
A list of one trip, for the five of the code, is one that a later trip can push
the active one out of.
Three users are two of a role and one of the other. Two places, labels and
centres tell a marker that was moved, renamed or left behind.

Symmetry is used only in runs without liveness properties: in `dispatch_safety`,
`rider_page` and `web_client`, for sets whose members no module tells apart. Deadlock checking is
off where the instance ends: in the runs of `Dispatch` (every trip over and the
driver suspended), `outbox_wedge` (the only flag stuck), `bucket_exact` and
`server_side` (clocks and ids are bounded), `web_client` (ids and trips used up)
and the rider's page (no trip left to request).

### The properties

`StatusAgrees` has one exception, and the history variable `drifted` makes it
exact. `setStatus` does not look at trips, so a driver can go online in mid-trip
and be matched again: that is how the code is, and the property would fail for
a reason that is plain from one line. `drifted` holds the drivers whose status
was set by hand against their trips, until they have no trip again. For all
others the agreement holds in every state, which is the part that depends on
locks, snapshots and orders. It also says that the damage heals.

`AuditTellsAll` is about what a reader of `trip_events` may conclude: the events
of a trip are one of a few lists, each of which goes with one status (or two, for
a cancelled trip: the kind of its event does not say who cancelled), and tells
whether a driver is bound, the fare settled and the trip rated.

`IndexConverges` is what the index can promise: not exactness, since late
commands leave it wrong with nothing in flight, but that a driver who stays free is found
again and again and one who stays on a trip is gone for good.

`InOrder` says exactly who overtakes whom. SKIP LOCKED lets one process announce
an event while another has an earlier one of the same trip in hand, and a failed
send is overtaken in its own batch; nothing else is out of order, in particular
not two flushes of one replica, which the flag keeps apart. Nothing in the
repository promises an order, so this is a hazard for the readers of the topic
and not a finding.

`KeptForTheWindow` and `EveryRequestCounts` say that overlap never shortens the
window; `SlidingWindow` that nothing stays longer than it, and that only while
no tick has failed. `OneMinuteWindow` shows what a failed tick does.

`WithinRate` depends on `ordered`: scripts must reach Redis in the order of the
times they carry. Skewed clocks and scripts that overtake each other break that,
and `ExactlyLimited` shows the extra token. `RetryHonoured` holds in any order.

`LiveTripOnPage` has two exceptions, marked by `astray`: the lost answer of a
request to create a trip, which the page cannot know of, and a cancellation whose
answer comes when the page has the next trip, which is then dropped although it
goes on (`Rider.tsx:334`). Everything else that could lose a trip - late answers
of a restore, repeated or late events, failed reads, reloads - is shown not to.

`EndIsUnderWay` is the safe part of "the page lets go of a trip that is over":
while the page is in the room and has a trip whose end was not forwarded before
it joined, the end is still on its way to the effect that handles it. A
connection that broke (`sub` is `out`) and an end that came before the room was
joined are the two ways in which a page can keep a dead trip until it is loaded
again or its read of the trip tells.

`OneActive` is what the partial unique index is for: `Check` alone lets two
creates of one driver both insert an active vehicle. `HoldersNeverWait` says
why activations of two tabs, which lock several rows in no fixed order, cannot
deadlock: only an activation holds rows, it holds the active one, and there is
one. `SwapIsAtomic` has one exception that is the code's: activating an id
without a row commits the switching-off of the others before the 404
(`vehicles.service.ts:129`), so that the driver is left without a vehicle.

`CountAgrees` and `AverageDrift` relate the trigger's columns to the rows. The
average is rounded to hundredths at each rating and the next is computed from
the rounded one, so that errors add up: after n ratings, n times the average is
at most n(n+1)/4 hundredths from their sum. That is what the code promises, not
what a reader might hope for: from a hundred ratings on, an average half a star
from a new rating is not moved by it.

`AnswersAreTrue` is about what the rider is told by a transaction that can lose
at three places - the primary key, where it waits for another that may be rolled
back; the driver's row, where it may be the victim of a deadlock; and any await,
at which its connection may die. A rating was accepted only if it is the one the
ride has, and the ride is rated already only if it is. An error says nothing: the
publishing after COMMIT may fail, and the request with it, although the rating
counts. Nor is it claimed that no rider gets an error by a deadlock: the order
in which `rate` takes its locks invites it (`0004_trip_ratings.sql:28`), and only
Postgres' detector resolves it.

`OneWholeAccount` holds although the check before the transaction does not see
the other request; the second one is answered with an internal error in place of
a conflict.

`RingsAgree` needs the same order of additions or no collision: with a collision
the member inserted last comes first. The matchers build their rings from one
list in the configuration, so that the first of these holds unless two of them
are configured differently. `OthersKeepTheirs` is what consistent hashing is
for (`ring.ts:21`): a driver changes hands only to a member that is new or from
one that is gone. Collisions could break it, for a position that two members
share has one owner; that the later of them comes first, and that `filter` keeps
the order, is what saves it. `RatePerLife` counts the full buckets a key was
given, because an evicted key forgets that it was exhausted
(`memory.ts:51`).

`PanelUpToDate` leaves out two ways of being stale that no code guards against:
somebody else has changed the rows since, and two reads that overlapped, of
which the older may be applied last. `StoppedMeansOffline` leaves out, with
`loose`, the ways in which a driver is online behind the page's back: a page was
left that was online or had a request of the switch under way, or such a request
has failed; when the switch reached the API a position was under way, or an
older request to go online, of an earlier page (`Overtaken`); a position was sent
before the answer came; or a trip has ended, which makes its driver online
whatever was wanted. What is left is that a stopped loop is stopped, and that
nothing else, in whatever order pages, requests and answers come, undoes the
switch. `CardAgrees` claims the
truth for a poll that overlapped no other and no call (`fresh`), and that an
offline page has no card, unless the answer of a start came after the switch
(`lateAct`, `Driver.tsx`). `OneIdentity` does not claim anything after another
tab has changed the store, of which this one does not hear, and not of the
profile after a read that failed or was under way for the user before.
`MapShowsThePage` asks for places, and for labels on Leaflet only: the element
of a Yandex marker keeps the label it was made with (`RideMap.tsx:312`), which
the driver's page changes when it goes online. That every map comes up in the end
is liveness, and not claimed.

What the program does wrong in such an excepted case is among the hazards of
`PROJECT.json`, with no property, or with a note that says which case the
property does not cover.

### Fairness

`Dispatch` (`Fairness`): the app of a driver pings every five seconds, so for
every driver some ping starts infinitely often if it can (SF: a suspended driver
may not ping); requests that have been started finish in the long run even if
some are lost (SF on `CommitPing`, `UpdateIndex`: with `Faults` a single request
may always die). The consumer delivers an event that no handler has returned
from, and a running handler goes on (WF). Riders, drivers and operators owe
nothing.

`Outbox` (`Fairness`): the timer of a live process fires (WF on `StartFlush`),
and every await ends, since pool, broker client and database answer or reject
(WF). Faults are finitely many. A dead replica need not be restarted: the
compose file has no restart policy.

`Surge` (`Fairness`): both timers fire and every await ends (WF); faults are
finitely many and `SurgeEnds` assumes that requests stop, since they need not.

The other modules are checked for safety only and assume nothing.

## 4. Proofs

TLAPS proves every invariant and every action property of the passing runs, and
the refinements of `TripLifecycle` and of `EventFeed`, from the named assumptions
on the constants; the two theorems about the surge window that need more say so.
What stays with TLC is at the end of this section.

### Trips, drivers and their log (`DispatchProofs`)

* `TypeCorrect`: `Spec => []TypeOK`, one lemma per process.
* `NoDoubleBooking`: `Spec => []StatusAgrees`. The invariant is
  inductive together with `TypeOK` and `UnboundUntilMatched` (a trip has no
  driver before its match), without which cancelling a requested trip could
  free some driver. The argument: `Assign` needs an online driver, who by
  agreement has no trip; `FreeDriver` ends the only trip of its driver
  (`FreeDriverAgrees`); `CommitPing` changes only drivers that are online or
  offline, whatever its snapshot said; every other step leaves trips and status
  of a driver alone (`AgreesStays`).
* `AuditComplete`: `Spec => []AuditTellsAll`. `AuditInv` says where each trip
  stands (`Standing`): its row, its events, its driver and its fare are one of
  a few combinations, and each transaction takes a trip from one of them to the
  next; what leaves the trips alone leaves them where they stand.
* `Refinement`: `Spec => ImplementsLifecycle`, from `AgreeInv`: a cancel by a
  driver finds a matched trip because only those have a driver, and a match
  finds a trip that has none.

### Outbox (`OutboxProofs`)

* `NoRowInTwoHands`: `Spec => []RowsExclusive`.
* `TypeCorrect` and `FeedRefinement`: `Spec => ImplementsFeed`.
  All rest on `OutboxInv`: types, exclusive rows, and `MarkedIsAnnounced` (what an open
  transaction has marked is on the topic), the link between the sends of a
  transaction and the commit that settles them. `WorkerMoves`, `WorkerLocks`
  and `WorkersEnd` are the three ways in which a worker changes.
* `TripsInOrder`: `Spec => InOrder`, from `OrderInv`, which says
  where an earlier event of the same trip can be while a later one is in hand:
  announced, in the same hand and before it, or in another process.

### Surge (`SurgeProofs`)

* `TypeCorrect` and `FaresBounded`: every multiplier in memory, in
  Redis, in the rows and in a late flush is between 1.00 and the maximum, for
  any thresholds, any maximum and any requests; `MultiplierStays` is the lemma
  about the arithmetic.
* `WindowIsKept`: `Spec => KeptForTheWindow`, from
  `TypeOK` and `PlacedByAge`, which ties the slot of a delivery to its age: the
  distance of its slot from the index, around the ring, is the number of ticks
  since it came, as long as that is less than the ring. A tick that empties the
  slot ahead of the index it reads therefore drops only what is Ring - 1 ticks
  old, whichever tick it is and however late.
* `WindowSlides`: `Spec /\ []OneTickAtATime => []SlidingWindow`, for `Ring > 1`.
  The invariant adds `EmptyAhead`: the slot ahead of the index is empty in every
  zone that no tick under way has still to visit, so that the index moves into
  an empty slot. Both hypotheses are needed: two ticks that
  overlap both empty the slot ahead of the later index, so that the one before it
  keeps what it had, and a ring of one slot moves into the slot it is in. The code has 60 slots, and a tick a
  second that is over long before the next; `surge_steady` has one tick by its
  constants.
* `RequestsCount`: `Spec => EveryRequestCounts`, when
  `Ring > Cardinality(Run) + MaxFaults`. `PassedOver`: a delivery that no tick
  has summed is not older than the ticks that have still to come to its zone and
  those that have failed, together. At the moment a slot is emptied, its content
  is Ring - 1 ticks old (`NextSlotIsOld`) and the tick that empties it is no
  longer on its way to the zone, so that there are not enough of them left to
  explain that age. The hypothesis bounds the faults, as the run does; without a
  bound every tick may fail before it sums a zone and the property is false.

### Rate limiter (`TokenBucketProofs`)

* `TypeCorrect` and `RateIsKept`: `Spec => []WithinRate`, from
  `BucketInv`: types; `PaidFor` (from any admission on, the tokens taken since
  and the tokens left are paid by the burst and the refill up to the last
  write), which is the strengthening `WithinRate` needs; `NotAhead` (the time in
  the hash was not ahead of every clock when it was written) and `Recent` (no
  script under way is older than the expiry), which together make an expired
  bucket a full one.
* `RetryIsHonoured`: `Spec => RetryHonoured`, from `WaitPaysOff`: while a promise
  stands, what the bucket holds and what the wait brings is a token, and the
  bucket was not written at a later time than the one that was promised. Only an
  admission takes a token; a refusal stores what the refill has brought and
  makes the promise anew, never for a later time. The rounding of `retry_after`
  enters in `RefusalPromises`, which shows that each refusal establishes it.
* `RateIsPerLife`: `StoreSpec => []RatePerLife`, and `StoreTypeCorrect`. `StoreInv`
  adds that the calls of a key join its chain in the order of their times, that
  what a key was let through is paid for up to the time of each call that
  waits (`Paid`), and, while its bucket is kept, up to the time it was written
  and with what is left in it on top (`Banked`). A call reads its time, waits, and may
  find its bucket evicted and take a full one at a time long past; `Paid` for the
  calls that wait is what makes that safe. `Distinct` (one bucket
  per key in the Map) is part of the types.

### Rider's page (`RiderPageProofs`)

* `TypeCorrect`, `TripIsKept`, `EndArrives`, `NothingInvented`:
  `TypeOK`, `LiveTripOnPage`, `EndIsUnderWay` and `ShownHasHappened` in every
  state. They rest on one invariant, `IInv`, which adds `LogTells` (status and
  events of a trip tell each other), `PageIsAbout` (what is on the wire and in
  the inbox happened to the trip the page has) and `CallsTell` (what each
  request under way, and its answer, says of trip and page: there is one request
  to create a trip at most, a restore is always about the page's trip, and the
  answer of a read is a status its trip has had). `CloseTripKeeps` is the heart
  of it: closing is safe if the trip is over, and every caller of it must show
  that.

### Vehicles (`VehiclesProofs`)

* `AtMostOneActive`, `NoDeadlock`, `SwapAtomic`, `VehiclesTypeCorrect`,
  from `VehiclesInv`: types, `OneActive`, and `HeldRows` (what an open
  transaction has switched off is active for the others, and held by it alone).
  It is `HeldRows` that makes the re-check after a lock safe: the rows found by
  the snapshot may have changed, those that match still are locked.

### Ratings, accounts, ring and the services together (`ServerProofs`)

* `CountIsExact`, `DriftIsBounded`, `RatingsTypeCorrect`. The
  invariant ties what a trigger has computed to the average it has read: who is
  about to commit holds the driver alone, so that its count and average are one
  rating ahead of the row, and still are when it commits. `NewAverageBounds` is
  the lemma about the rounding, from which the bound follows by induction over
  the steps.
* `RidersAreToldTheTruth`: `RatingsSpec => []AnswersAreTrue`. It stands on the
  same invariant: a ride's row does not change once it is committed, and a
  transaction gets to its COMMIT only while its ride has none.
* `AccountsAreWhole`, `AccountsTypeCorrect`. The invariant adds that
  open transactions share nothing with each other or with what is committed, so
  that a commit cannot break a unique column.
* `LookupIsClockwise`, `RingsDoAgree`, `OnlyItsDriversMove`, `HashRingTypeCorrect`:
  `Clockwise`, `RingsAgree` and `OthersKeepTheirs`, for any placing of the
  virtual nodes. `HashRingInv` says of each matcher's ring (`IsRing`): `added`
  lists each member once; the positions of the ring are the virtual nodes of the
  members; they are `Ordered`, by hash and, where hashes are equal, the member
  added later first. Joining keeps it because the binary search returns the first
  position whose hash is not smaller (`LowerBoundIs`), leaving because `Selected`
  keeps what it is to keep, in its order. The order decides the node at every
  position, so two rings with the same members and either the same order or no
  collision find the same one, and so do the rings before and after a step for
  the members that are in both.
* `ServerTypeCorrect`: the types hold together. The lemma `ServerIsItsParts`, that
  a behaviour of `ServerSpec` is one of each of its parts, is no result about the
  code; it is by it that the theorems of the parts apply to what the run checks.

What a recursive function computes is shown without an induction principle over
operators, of which the provers can make nothing: `EveryNumber` is induction for
a *set* of numbers (from the well-foundedness of the order on them,
`LeastExists`), and the set is that of the lengths of the interval for which the
search returns what it should, or of the prefixes that a filter has got right.

### Web client (`WebProofs`)

* `IdentityIsOne`, `MapIsRight`, `OfflineIsOffline`, `CardIsRight` and
  the type invariants `SessionTypeCorrect`, `RideMapTypeCorrect` and
  `DriverPageTypeCorrect`. `OfflineIsDeaf` (an offline page listens to no poll)
  and `CardIsTold` (what a poll it listens to has seen is still so) are the
  strengthenings the card needs. The switch needs `StopHolds`: while nothing is
  loose, a stopped page has a driver who is offline and no position under way,
  and no request to go online is on its way but the page's own; and `CallsOK`, by
  which a page waits for one request of the switch at most.
* `PanelRefinesVehicles`: `PanelSpec => VehiclesSpec`. Every button of a panel is
  a request of the service and everything else it does leaves the rows alone, so
  that `VehiclesProofs` holds of a service with panels among its clients.
* `PanelIsUpToDate`: `PanelSpec => []PanelUpToDate`, from `PanelInv`: the
  vehicles' own invariant; `BusyWhileChanging` (a panel whose change is under way
  is busy, until the one read it awaits is applied) and `Shows` (unless somebody
  else changed the rows, what a panel shows, or has been answered, is what there
  is). The rows change under a panel at rest only by somebody else's hand, because its
  own change keeps it busy until it has read again.
* `WebTypeCorrect`, by the lemma `WebIsItsParts`: as for the services.

### What is only model-checked

The liveness properties `IndexConverges`, `EventuallyPublished` and `SurgeEnds`,
since fairness and ENABLED are beyond TLAPS; and what the
four runs with an expected violation show, which are counterexamples.

## 5. Findings

* `outbox_wedge`: one refused connection in a flush that a request awaits
  leaves `outboxRunning` up for the life of the process (`trips.service.ts:428`
  is before the `try`), although the outbox is there for reliable publishing.
* `surge_failed_tick`: a tick that fails between zones skips the slots of the
  rest, so that requests stay in the one-minute window for another minute.
* `bucket_exact`: the script is atomic but carries a time read before it was
  sent, so that two scripts which overtake each other refill the bucket twice
  for the same interval. The store is called exact.
* `rider_push`: a change of the trip that the gateway forwards while the page's
  subscription is being checked is pushed to nobody.

Two differences between documents and code that no run is spent on:
`docs/bpmn/trip-lifecycle.bpmn:61` has a request for which nobody is found
expire, but no statement writes `expired` and nothing times out; and
`docs/report-draft.md:526` calls a difference between the counts of online
drivers in Postgres and in Redis an anomaly, but commands that arrive late make
it part of ordinary operation.

## 6. Not modelled, and why

* Positions and geometry: geosearch answers with any part of the index, zones
  are disjoint, the drivers near a zone are a number. The hash of the ring is
  any function.
* A deadlock of cancel or complete with the matcher's assignment. The first two
  lock the trip and then its driver, the third the driver and then the trip, but
  they cannot want the same two rows: an assignment looks for a trip that is
  `requested`, which has no driver, and does not wait for one whose committed
  status is another.
* Who is online across users: `online` is state of the driver's page above its
  gate (`Driver.tsx:74`), so that it outlives the session of a driver who is
  signed out without leaving the page. `DriverPage` has one driver and `Session`
  no switch; their product is too large for one property that this line breaks
  at once, and the hazard is listed without one.
* A request nobody can be found for: the handler returns and nothing tries again
  (`trip-consumer.ts:55`). There is nothing to check, as no end is promised but
  the rider's cancellation.
* The fare's amount apart from the surge factor, the zones a point falls in, and
  what the guard of the rate limiter calls a key: arithmetic and routing without
  state.
* Batch jobs, migrations and the seed: each is one statement, or a script that
  an operator runs alone before the services start.
* Administration, history, the rating dialog: pages that read and show, with at
  most one request at a time.
* Payload validation, JWT and password hashing, demo accounts' switches, HTTP
  routing, read endpoints, metrics, health checks, CSV export, layout, nginx and
  observability configuration. They keep no state the properties depend on, or
  are input and output only.
