------------------------------- MODULE Outbox -------------------------------
(***************************************************************************)
(* The transactional outbox: how committed trip_events rows reach the      *)
(* Kafka topic of trip events.                                             *)
(*                                                                         *)
(* Every API replica flushes pending rows, from a timer and after each     *)
(* request that recorded an event; a flag in the process keeps its         *)
(* invocations apart, row locks keep the replicas apart.  A matcher        *)
(* replica publishes the matched event it has just recorded itself.        *)
(*                                                                         *)
(* A flush awaits a pool connection, then the SELECT, then one send after  *)
(* the other, then COMMIT: each await is a step boundary here.  What the   *)
(* open transaction has written (marked) is seen by nobody else until it   *)
(* commits.                                                                *)
(***************************************************************************)
EXTENDS Naturals, FiniteSets

CONSTANTS
    Event,      \* ids of trip_events rows, in the order of the sequence
    TripOf,     \* the trip each event is about
    Matched,    \* the events recorded by matchers; the others are the API's
    Api,        \* API replicas
    Flush,      \* invocations of publishPendingTripEvents that may overlap
    ApiOf,      \* the replica each invocation runs in
    Publisher,  \* matcher handlers
    Limit,      \* rows one flush selects at most (50 in the code)
    FaultKinds, \* what may go wrong
    MaxFaults   \* how often, in all

ASSUME EventAssumption == Event \subseteq Nat /\ Matched \subseteq Event
ASSUME FlushAssumption ==
    /\ ApiOf \in [Flush -> Api]
    /\ Flush \cap Publisher = {} /\ Api \cap Publisher = {}
ASSUME BoundAssumption ==
    /\ Limit \in Nat \ {0}
    /\ MaxFaults \in Nat
    /\ FaultKinds \subseteq {"refused_request", "refused_timer", "send", "abort", "crash"}

VARIABLES
    recorded,   \* events with a committed row
    announced,  \* events the topic holds at least once
    published,  \* rows whose published_at is set and committed
    running,    \* outboxRunning of each API replica
    up,         \* API replicas that are alive
    worker,     \* where each flush and each matcher handler is
    faults      \* faults so far

feedVars == <<recorded, announced, published>>
vars     == <<feedVars, running, up, worker, faults>>

(* The abstract feed: locks, flags, transactions and faults are mapped away. *)
Feed == INSTANCE EventFeed
        WITH Event <- Event, recorded <- recorded,
             announced <- announced, published <- published

Worker == Flush \cup Publisher

(* "connect": awaits a client of the pool; "open": in its transaction.  A   *)
(* matcher knows its row before it locks it, a flush selects its rows.      *)
Work == [pc     : {"idle", "connect", "open"},
         locked : SUBSET Event,     \* rows it holds FOR UPDATE
         todo   : SUBSET Event,     \* rows still to be sent
         marked : SUBSET Event]     \* rows it has set published_at of

Idle            == [pc |-> "idle", locked |-> {}, todo |-> {}, marked |-> {}]
Connecting(row) == [pc |-> "connect", locked |-> {}, todo |-> row, marked |-> {}]

Init ==
    /\ Feed!Init
    /\ running = [a \in Api |-> FALSE]
    /\ up      = [a \in Api |-> TRUE]
    /\ worker  = [w \in Worker |-> Idle]
    /\ faults  = 0

Fault(kind) ==
    /\ kind \in FaultKinds
    /\ faults < MaxFaults
    /\ faults' = faults + 1

-----------------------------------------------------------------------------
(* Recording. *)

(* Events of one trip are recorded in id order: every transaction that       *)
(* records one holds the trip's row.  A matcher moves a trip only after it   *)
(* has read the trip's earlier events on the topic.                          *)
Earlier(e) == {i \in Event : TripOf[i] = TripOf[e] /\ i < e}

RecordByApi(e) ==
    /\ e \notin Matched \cup recorded
    /\ Earlier(e) \subseteq recorded
    /\ \E a \in Api : up[a]
    /\ recorded' = recorded \cup {e}
    /\ UNCHANGED <<announced, published, running, up, worker, faults>>

(* assignDriver commits, and handleTripEvent goes on to publish the event. *)
RecordByMatcher(p, e) ==
    /\ worker[p] = Idle
    /\ e \in Matched \ recorded
    /\ Earlier(e) \subseteq announced
    /\ recorded' = recorded \cup {e}
    /\ worker' = [worker EXCEPT ![p] = Connecting({e})]
    /\ UNCHANGED <<announced, published, running, up, faults>>

-----------------------------------------------------------------------------
(* Publishing. *)

(* The guard at the head of a flush.  Mutant: the flag is not looked at. *)
FlushFree_Always(a) == TRUE
FlushFree(a) == ~running[a]

StartFlush(f) ==
    /\ worker[f] = Idle
    /\ up[ApiOf[f]]
    /\ FlushFree(ApiOf[f])
    /\ running' = [running EXCEPT ![ApiOf[f]] = TRUE]
    /\ worker' = [worker EXCEPT ![f] = Connecting({})]
    /\ UNCHANGED <<feedVars, up, faults>>

(* Rows another transaction holds are skipped. *)
LockedRows == UNION {worker[w].locked : w \in Worker}

(* published_at IS NULL, checked again on the row that is locked.  Mutant:  *)
(* SKIP LOCKED without FOR UPDATE, so that nobody skips anything.           *)
Selectable_Unlocked == recorded \ published
Selectable == (recorded \ published) \ LockedRows

(* ORDER BY id LIMIT.  Mutant: in no order. *)
Batch_AnyOrder(rows, n) == {S \in SUBSET rows : Cardinality(S) <= n}
Batch(rows, n) == {{e \in rows : Cardinality({i \in rows : i < e}) < n}}

(* The transaction holds the rows it is going to send.  Mutant: it does not  *)
(* hold them.                                                                *)
Holding_Nothing(rows) == [pc |-> "open", locked |-> {}, todo |-> rows, marked |-> {}]
Holding(rows) == [pc |-> "open", locked |-> rows, todo |-> rows, marked |-> {}]

SelectBatch(f) ==
    /\ worker[f].pc = "connect"
    /\ \E rows \in Batch(Selectable, Limit) :
          worker' = [worker EXCEPT ![f] = Holding(rows)]
    /\ UNCHANGED <<feedVars, running, up, faults>>

(* The matcher's row may be locked or published by a flush already: then     *)
(* there is nothing to do.                                                   *)
SelectOwn(p) ==
    /\ worker[p].pc = "connect"
    /\ \/ /\ worker[p].todo \subseteq Selectable
          /\ worker' = [worker EXCEPT ![p] = Holding(worker[p].todo)]
       \/ /\ ~(worker[p].todo \subseteq Selectable)
          /\ worker' = [worker EXCEPT ![p] = Idle]
    /\ UNCHANGED <<feedVars, running, up, faults>>

(* Rows are sent in id order, one at a time. *)
NextRow(w, e) ==
    /\ worker[w].pc = "open"
    /\ e \in worker[w].todo
    /\ \A i \in worker[w].todo : e <= i

(* The row was sent; ok tells whether the broker's answer has come.  Mutant: *)
(* the row is marked before the answer.                                      *)
AfterSend_MarkFirst(work, e, ok) ==
    [work EXCEPT !.todo = @ \ {e}, !.marked = @ \cup {e}]
AfterSend(work, e, ok) ==
    [work EXCEPT !.todo = @ \ {e}, !.marked = IF ok THEN @ \cup {e} ELSE @]

Send(w, e) ==
    /\ NextRow(w, e)
    /\ announced' = announced \cup {e}
    /\ worker' = [worker EXCEPT ![w] = AfterSend(@, e, TRUE)]
    /\ UNCHANGED <<recorded, published, running, up, faults>>

(* The producer gives up: the broker may or may not have the message.  The   *)
(* attempt is noted on the row, which stays pending, and the loop goes on    *)
(* with the next row.                                                        *)
SendFails(w, e) ==
    /\ Fault("send")
    /\ NextRow(w, e)
    /\ announced' \in {announced, announced \cup {e}}
    /\ worker' = [worker EXCEPT ![w] = AfterSend(@, e, FALSE)]
    /\ UNCHANGED <<recorded, published, running, up>>

(* The worker's handler ends; a flush lowers the flag on its way out.        *)
(* Mutant: only a matcher ends cleanly, the flag stays up.                   *)
Finish_KeepFlag(w) ==
    /\ worker' = [worker EXCEPT ![w] = Idle]
    /\ running' = running
Finish(w) ==
    /\ worker' = [worker EXCEPT ![w] = Idle]
    /\ running' = [a \in Api |-> IF w \in Flush /\ a = ApiOf[w] THEN FALSE ELSE running[a]]

Commit(w) ==
    /\ worker[w].pc = "open"
    /\ worker[w].todo = {}
    /\ published' = published \cup worker[w].marked
    /\ Finish(w)
    /\ UNCHANGED <<recorded, announced, up, faults>>

-----------------------------------------------------------------------------
(* Faults. *)

(* A statement fails and the transaction is rolled back; for a matcher also  *)
(* a failed ZREM or connect, or the death of the replica, whose next handler *)
(* starts afresh.                                                            *)
Abort(w) ==
    /\ Fault("abort")
    /\ \/ worker[w].pc = "open"
       \/ w \in Publisher /\ worker[w].pc = "connect"
    /\ Finish(w)
    /\ UNCHANGED <<feedVars, up>>

(* The process dies with all its invocations. *)
Die(a) ==
    /\ up' = [up EXCEPT ![a] = FALSE]
    /\ running' = [running EXCEPT ![a] = FALSE]
    /\ worker' = [w \in Worker |-> IF w \in Flush /\ ApiOf[w] = a THEN Idle ELSE worker[w]]
    /\ UNCHANGED feedVars

Crash(a) ==
    /\ Fault("crash")
    /\ up[a]
    /\ Die(a)

(* connect() rejects before the try block.  In a flush that a request awaits *)
(* the request fails and the flag stays up; in a flush of the timer nobody   *)
(* awaits the promise and the unhandled rejection ends the process.          *)
RefusedInRequest(f) ==
    /\ Fault("refused_request")
    /\ worker[f].pc = "connect"
    /\ recorded \ Matched # {}
    /\ worker' = [worker EXCEPT ![f] = Idle]
    /\ UNCHANGED <<feedVars, running, up>>

RefusedInTimer(f) ==
    /\ Fault("refused_timer")
    /\ worker[f].pc = "connect"
    /\ Die(ApiOf[f])

(* Somebody starts the replica again: the deployment has no restart policy.  *)
Restart(a) ==
    /\ ~up[a]
    /\ up' = [up EXCEPT ![a] = TRUE]
    /\ UNCHANGED <<feedVars, running, worker, faults>>

-----------------------------------------------------------------------------
FlushNext(f) ==
    StartFlush(f) \/ SelectBatch(f) \/ RefusedInRequest(f) \/ RefusedInTimer(f)

SendNext(w) == Commit(w) \/ Abort(w) \/ \E e \in Event : Send(w, e) \/ SendFails(w, e)

Next ==
    \/ \E e \in Event : RecordByApi(e) \/ \E p \in Publisher : RecordByMatcher(p, e)
    \/ \E f \in Flush : FlushNext(f)
    \/ \E p \in Publisher : SelectOwn(p)
    \/ \E w \in Worker : SendNext(w)
    \/ \E a \in Api : Crash(a) \/ Restart(a)

Spec == Init /\ [][Next]_vars

(* The timer of a live replica fires again and again, and an await ends: the *)
(* pool, the broker client and the database answer, well or badly.  Faults   *)
(* are finitely many (MaxFaults); nobody has to restart a dead replica.      *)
Fairness ==
    /\ \A a \in Api : WF_vars(\E f \in Flush : ApiOf[f] = a /\ StartFlush(f))
    /\ \A f \in Flush : WF_vars(SelectBatch(f))
    /\ \A p \in Publisher : WF_vars(SelectOwn(p))
    /\ \A w \in Worker : WF_vars(Commit(w) \/ \E e \in Event : Send(w, e))

FairSpec == Spec /\ Fairness

-----------------------------------------------------------------------------
(* Safety. *)

(* Type invariant: every set holds rows that exist, an idle worker holds     *)
(* nothing, and an open transaction works on rows it has locked.             *)
TypeOK ==
    /\ recorded  \in SUBSET Event
    /\ announced \in SUBSET Event
    /\ published \in SUBSET Event
    /\ running   \in [Api -> BOOLEAN]
    /\ up        \in [Api -> BOOLEAN]
    /\ worker    \in [Worker -> Work]
    /\ faults    \in 0..MaxFaults
    /\ \A w \in Worker :
          /\ worker[w].pc # "open" => worker[w].locked = {} /\ worker[w].marked = {}
          /\ worker[w].todo \cup worker[w].marked
                \subseteq (IF worker[w].pc = "open" THEN worker[w].locked ELSE recorded)

(* No row is in two hands: across replicas and matchers an unfinished        *)
(* transaction is the only one at work on its rows, and none of them is      *)
(* published already, so what is settled is never sent again.                *)
RowsExclusive ==
    \A w \in Worker :
        /\ worker[w].locked \subseteq recorded \ published
        /\ \A v \in Worker \ {w} : worker[v].locked \cap worker[w].locked = {}


-----------------------------------------------------------------------------
(* The abstract specification, liveness, and what the documentation says. *)

(* Outbox implements EventFeed: whatever fails in between, a row is settled  *)
(* only when the topic holds its event, and nothing is announced that was    *)
(* rolled back.                                                              *)
ImplementsFeed == Feed!Spec

(* Until a fault, an event is announced before an earlier one of its trip    *)
(* only while another process has the earlier one in hand: one replica skips *)
(* the row another has locked, but two flushes of one replica, which the     *)
(* flag keeps apart, never overtake each other.                              *)
Process(w) == IF w \in Flush THEN ApiOf[w] ELSE w
InOrder ==
    [][\A e \in announced' \ announced, d \in Event :
          d \in Earlier(e) \ announced =>
              \/ faults' > 0
              \/ \E v, w \in Worker : /\ e \in worker[v].todo /\ d \in worker[w].todo
                                     /\ Process(v) # Process(w)]_vars

(* While one replica is left that suffered no fault, every recorded event is *)
(* announced and settled, the ones included whose sender died or was turned  *)
(* away.                                                                     *)
EventuallyPublished == \A e \in Event : e \in recorded ~> e \in announced \cap published

(* db/migrations/0005_trip_events_outbox.sql:1 calls it reliable publishing. *)
(* It is not once a request's flush was refused a connection: the flag of    *)
(* that replica stays up and every later flush returns at once.              *)
ReliablePublishing == \A e \in Event : e \in recorded ~> e \in announced

=============================================================================
