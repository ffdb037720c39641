----------------------------- MODULE OutboxProofs -----------------------------
(***************************************************************************)
(* Theorems of Outbox, for any numbers of events, replicas, overlapping    *)
(* flushes and matchers, any batch limit and any faults.                   *)
(***************************************************************************)
EXTENDS Outbox, FiniteSetTheorems, TLAPS

USE EventAssumption, FlushAssumption, BoundAssumption DEF Worker, Work, Idle, Connecting

-----------------------------------------------------------------------------
(* The inductive invariant. *)

(* What an open transaction has marked, the topic holds already.             *)
MarkedIsAnnounced == \A w \in Worker : worker[w].marked \subseteq announced

OutboxInv == TypeOK /\ RowsExclusive /\ MarkedIsAnnounced

(* One worker's state on its own: its type, and what it may work on.         *)
WorkOK(k, rows) ==
    /\ k \in Work
    /\ k.pc # "open" => k.locked = {} /\ k.marked = {}
    /\ k.todo \cup k.marked \subseteq (IF k.pc = "open" THEN k.locked ELSE rows)

LEMMA WorkersOK == TypeOK => \A w \in Worker : WorkOK(worker[w], recorded)
  BY DEF TypeOK, WorkOK

LEMMA FaultType == ASSUME NEW kind, Fault(kind), faults \in 0..MaxFaults
                   PROVE  faults' \in 0..MaxFaults
  BY DEF Fault

LEMMA InitInv == Init => OutboxInv
  BY DEF Init, Feed!Init, OutboxInv, TypeOK, RowsExclusive, MarkedIsAnnounced

(* One worker moves on and takes no row it did not hold; what is recorded    *)
(* and announced only grows, what is published does not change.              *)
LEMMA WorkerMoves ==
    ASSUME OutboxInv, NEW w \in Worker, NEW k,
           worker' = [worker EXCEPT ![w] = k],
           WorkOK(k, recorded'), k.locked \subseteq worker[w].locked,
           k.marked \subseteq announced',
           recorded \subseteq recorded', recorded' \subseteq Event,
           announced \subseteq announced', announced' \subseteq Event,
           UNCHANGED published,
           running' \in [Api -> BOOLEAN], up' \in [Api -> BOOLEAN], faults' \in 0..MaxFaults
    PROVE  OutboxInv'
<1>1. /\ worker' \in [Worker -> Work]
      /\ worker'[w] = k
      /\ \A v \in Worker \ {w} : worker'[v] = worker[v]
  BY DEF OutboxInv, TypeOK, WorkOK
<1>2. \A v \in Worker : WorkOK(worker'[v], recorded')
  BY <1>1, WorkersOK DEF OutboxInv, WorkOK
<1>3. TypeOK'
  BY <1>1, <1>2 DEF OutboxInv, TypeOK, WorkOK
<1>4. \A v \in Worker : worker'[v].locked \subseteq worker[v].locked
  BY <1>1
<1>5. RowsExclusive'
  BY <1>4 DEF OutboxInv, RowsExclusive
<1>6. MarkedIsAnnounced'
  BY <1>1 DEF OutboxInv, MarkedIsAnnounced
<1> QED
  BY <1>3, <1>5, <1>6 DEF OutboxInv

(* One worker locks rows that nobody holds and that are not published.       *)
LEMMA WorkerLocks ==
    ASSUME OutboxInv, NEW w \in Worker, NEW rows \in SUBSET Selectable,
           worker' = [worker EXCEPT ![w] = Holding(rows)],
           UNCHANGED <<feedVars, running, up, faults>>
    PROVE  OutboxInv'
<1>1. rows \subseteq recorded \ published /\ \A v \in Worker : rows \cap worker[v].locked = {}
  BY DEF Selectable, LockedRows
<1>2. WorkOK(Holding(rows), recorded)
  BY <1>1 DEF Holding, WorkOK, OutboxInv, TypeOK
<1>3. /\ worker' \in [Worker -> Work]
      /\ worker'[w] = Holding(rows)
      /\ \A v \in Worker \ {w} : worker'[v] = worker[v]
  BY <1>2 DEF OutboxInv, TypeOK, WorkOK
<1>4. TypeOK'
  <2>1. \A v \in Worker : WorkOK(worker'[v], recorded')
    BY <1>2, <1>3, WorkersOK DEF OutboxInv, feedVars
  <2> QED
    BY <1>3, <2>1 DEF OutboxInv, TypeOK, WorkOK, feedVars
<1>5. RowsExclusive'
  <2>1. worker'[w].locked = rows
    BY <1>3 DEF Holding
  <2> QED
    BY <1>1, <1>3, <2>1 DEF OutboxInv, RowsExclusive, feedVars
<1>6. MarkedIsAnnounced'
  BY <1>3 DEF OutboxInv, MarkedIsAnnounced, Holding, feedVars
<1> QED
  BY <1>4, <1>5, <1>6 DEF OutboxInv

(* Any workers end with nothing in their hands. *)
LEMMA WorkersEnd ==
    ASSUME OutboxInv, NEW S \in SUBSET Worker,
           worker' = [w \in Worker |-> IF w \in S THEN Idle ELSE worker[w]],
           UNCHANGED feedVars,
           running' \in [Api -> BOOLEAN], up' \in [Api -> BOOLEAN], faults' \in 0..MaxFaults
    PROVE  OutboxInv'
<1>1. worker' \in [Worker -> Work]
  BY DEF OutboxInv, TypeOK
<1>2. \A w \in Worker : worker'[w] \in {worker[w], Idle}
  OBVIOUS
<1>3. TypeOK'
  <2>1. WorkOK(Idle, recorded)
    BY DEF WorkOK
  <2>2. \A w \in Worker : WorkOK(worker'[w], recorded')
    BY <1>2, <2>1, WorkersOK DEF OutboxInv, feedVars
  <2> QED
    BY <1>1, <2>2 DEF OutboxInv, TypeOK, WorkOK, feedVars
<1>4. RowsExclusive'
  BY <1>2 DEF OutboxInv, RowsExclusive, feedVars
<1>5. MarkedIsAnnounced'
  BY <1>2 DEF OutboxInv, MarkedIsAnnounced, feedVars
<1> QED
  BY <1>3, <1>4, <1>5 DEF OutboxInv

LEMMA FinishType ==
    ASSUME OutboxInv, NEW w \in Worker, Finish(w)
    PROVE  /\ running' \in [Api -> BOOLEAN]
           /\ worker' = [v \in Worker |-> IF v \in {w} THEN Idle ELSE worker[v]]
  BY DEF Finish, OutboxInv, TypeOK

(* The rows a commit settles are held by the worker that commits, so they    *)
(* are in nobody else's hands.                                               *)
LEMMA CommitInv == ASSUME OutboxInv, NEW w \in Worker, Commit(w)
                   PROVE  OutboxInv'
<1>1. /\ worker' = [v \in Worker |-> IF v \in {w} THEN Idle ELSE worker[v]]
      /\ running' \in [Api -> BOOLEAN]
      /\ published' = published \cup worker[w].marked
      /\ UNCHANGED <<recorded, announced, up, faults>>
  BY FinishType DEF Commit
<1>2. worker[w].marked \subseteq worker[w].locked /\ worker[w].marked \subseteq Event
  BY DEF Commit, OutboxInv, TypeOK
<1>3. worker' \in [Worker -> Work] /\ worker'[w] = Idle
    /\ \A v \in Worker \ {w} : worker'[v] = worker[v]
  BY <1>1 DEF OutboxInv, TypeOK
<1>4. TypeOK'
  <2>1. WorkOK(Idle, recorded)
    BY DEF WorkOK
  <2>2. \A v \in Worker : WorkOK(worker'[v], recorded')
    BY <1>1, <1>3, <2>1, WorkersOK DEF OutboxInv
  <2> QED
    BY <1>1, <1>2, <1>3, <2>2 DEF OutboxInv, TypeOK, WorkOK
<1>5. RowsExclusive'
  BY <1>1, <1>2, <1>3 DEF OutboxInv, RowsExclusive
<1>6. MarkedIsAnnounced'
  BY <1>1, <1>3 DEF OutboxInv, MarkedIsAnnounced
<1> QED
  BY <1>4, <1>5, <1>6 DEF OutboxInv

LEMMA RecordInv ==
    ASSUME OutboxInv, NEW e \in Event,
           RecordByApi(e) \/ \E p \in Publisher : RecordByMatcher(p, e)
    PROVE  OutboxInv'
<1>1. CASE RecordByApi(e)
  <2>1. recorded \subseteq recorded' /\ recorded' \subseteq Event
    BY <1>1 DEF RecordByApi, OutboxInv, TypeOK
  <2>2. TypeOK'
    BY <1>1, <2>1 DEF RecordByApi, OutboxInv, TypeOK
  <2> QED
    BY <1>1, <2>1, <2>2 DEF RecordByApi, OutboxInv, RowsExclusive, MarkedIsAnnounced
<1>2. ASSUME NEW p \in Publisher, RecordByMatcher(p, e)
      PROVE  OutboxInv'
  <2>1. WorkOK(Connecting({e}), recorded')
    BY <1>2 DEF WorkOK, RecordByMatcher
  <2>2. /\ recorded \subseteq recorded' /\ recorded' \subseteq Event
        /\ UNCHANGED <<announced, published, running, up, faults>>
        /\ worker' = [worker EXCEPT ![p] = Connecting({e})]
    BY <1>2 DEF RecordByMatcher, OutboxInv, TypeOK
  <2>3. Connecting({e}).locked = {} /\ Connecting({e}).marked = {}
    OBVIOUS
  <2> QED
    BY <2>1, <2>2, <2>3, WorkerMoves DEF OutboxInv, TypeOK
<1> QED
  BY <1>1, <1>2

LEMMA SendInv ==
    ASSUME OutboxInv, NEW w \in Worker, NEW e \in Event, Send(w, e) \/ SendFails(w, e)
    PROVE  OutboxInv'
<1>1. e \in worker[w].locked /\ worker[w].pc = "open" /\ WorkOK(worker[w], recorded)
  BY WorkersOK DEF Send, SendFails, NextRow, WorkOK, OutboxInv
<1>2. ASSUME NEW ok \in BOOLEAN, worker' = [worker EXCEPT ![w] = AfterSend(@, e, ok)],
             announced' \in {announced, announced \cup {e}}, ok => e \in announced',
             UNCHANGED <<recorded, published, running, up>>, faults' \in 0..MaxFaults
      PROVE  OutboxInv'
  <2> DEFINE k == AfterSend(worker[w], e, ok)
  <2>1. k \in Work /\ k.pc = "open" /\ k.locked = worker[w].locked
        /\ k.todo \subseteq worker[w].todo /\ k.marked \subseteq worker[w].marked \cup {e}
        /\ (~ok => k.marked = worker[w].marked)
    BY <1>1 DEF AfterSend, WorkOK
  <2>2. WorkOK(k, recorded')
    BY <1>1, <2>1 DEF WorkOK
  <2>3. k.marked \subseteq announced'
    BY <1>2, <2>1 DEF OutboxInv, MarkedIsAnnounced
  <2>4. worker' = [worker EXCEPT ![w] = k]
    BY <1>2
  <2>5. /\ running' \in [Api -> BOOLEAN] /\ up' \in [Api -> BOOLEAN]
        /\ recorded \subseteq recorded' /\ recorded' \subseteq Event
        /\ announced \subseteq announced' /\ announced' \subseteq Event
    BY <1>2 DEF OutboxInv, TypeOK
  <2> HIDE DEF k
  <2>6. k.locked \subseteq worker[w].locked
    BY <2>1
  <2> QED
    BY <1>2, <2>2, <2>3, <2>4, <2>5, <2>6, WorkerMoves
<1>3. CASE Send(w, e)
  <2>1. /\ worker' = [worker EXCEPT ![w] = AfterSend(@, e, TRUE)]
        /\ announced' = announced \cup {e} /\ faults' \in 0..MaxFaults
        /\ UNCHANGED <<recorded, published, running, up>>
    BY <1>3 DEF Send, OutboxInv, TypeOK
  <2> QED
    BY <1>2, <2>1
<1>4. CASE SendFails(w, e)
  <2>1. /\ worker' = [worker EXCEPT ![w] = AfterSend(@, e, FALSE)]
        /\ announced' \in {announced, announced \cup {e}} /\ faults' \in 0..MaxFaults
        /\ UNCHANGED <<recorded, published, running, up>>
    BY <1>4, FaultType DEF SendFails, OutboxInv, TypeOK
  <2> QED
    BY <1>2, <2>1
<1> QED
  BY <1>3, <1>4

LEMMA DieInv == ASSUME OutboxInv, NEW a \in Api, Die(a), faults' \in 0..MaxFaults
                PROVE  OutboxInv'
<1> DEFINE S == {w \in Worker : w \in Flush /\ ApiOf[w] = a}
<1>1. worker' = [w \in Worker |-> IF w \in S THEN Idle ELSE worker[w]]
  BY DEF Die
<1>2. /\ running' \in [Api -> BOOLEAN] /\ up' \in [Api -> BOOLEAN]
      /\ UNCHANGED feedVars
  BY DEF Die, OutboxInv, TypeOK
<1> HIDE DEF S
<1>3. S \in SUBSET Worker
  BY DEF S
<1> QED
  BY <1>1, <1>2, <1>3, WorkersEnd

LEMMA FlushInv == ASSUME OutboxInv, NEW f \in Flush, FlushNext(f)
                  PROVE  OutboxInv'
<1>1. CASE StartFlush(f)
  <2>1. WorkOK(Connecting({}), recorded)
    BY DEF WorkOK
  <2>2. /\ worker' = [worker EXCEPT ![f] = Connecting({})]
        /\ running' \in [Api -> BOOLEAN]
        /\ UNCHANGED <<feedVars, up, faults>>
    BY <1>1 DEF StartFlush, OutboxInv, TypeOK
  <2>3. Connecting({}).locked = {} /\ Connecting({}).marked = {}
    OBVIOUS
  <2> QED
    BY <2>1, <2>2, <2>3, WorkerMoves DEF OutboxInv, TypeOK, feedVars
<1>2. CASE SelectBatch(f)
  <2>1. PICK rows \in SUBSET Selectable : worker' = [worker EXCEPT ![f] = Holding(rows)]
    BY <1>2 DEF SelectBatch, Batch
  <2> QED
    BY <1>2, <2>1, WorkerLocks DEF SelectBatch
<1>3. CASE RefusedInRequest(f)
  <2>1. worker' = [w \in Worker |-> IF w \in {f} THEN Idle ELSE worker[w]]
    BY <1>3 DEF RefusedInRequest, OutboxInv, TypeOK
  <2> QED
    <3>1. /\ running' \in [Api -> BOOLEAN] /\ up' \in [Api -> BOOLEAN]
          /\ faults' \in 0..MaxFaults /\ UNCHANGED feedVars
      BY <1>3, FaultType DEF RefusedInRequest, OutboxInv, TypeOK
    <3>2. {f} \in SUBSET Worker
      OBVIOUS
    <3> QED
      BY <2>1, <3>1, <3>2, WorkersEnd
<1>4. CASE RefusedInTimer(f)
  BY <1>4, DieInv, FaultType DEF RefusedInTimer, OutboxInv, TypeOK
<1> QED
  BY <1>1, <1>2, <1>3, <1>4 DEF FlushNext

LEMMA NextInv == OutboxInv /\ [Next]_vars => OutboxInv'
<1> SUFFICES ASSUME OutboxInv, [Next]_vars
             PROVE  OutboxInv'
  OBVIOUS
<1>1. ASSUME NEW p \in Publisher, SelectOwn(p)
      PROVE  OutboxInv'
  <2>1. CASE /\ worker[p].todo \subseteq Selectable
             /\ worker' = [worker EXCEPT ![p] = Holding(worker[p].todo)]
    BY <1>1, <2>1, WorkerLocks DEF SelectOwn
  <2>2. CASE worker' = [worker EXCEPT ![p] = Idle]
    <3>1. worker' = [w \in Worker |-> IF w \in {p} THEN Idle ELSE worker[w]]
      BY <2>2 DEF OutboxInv, TypeOK
    <3>2. /\ running' \in [Api -> BOOLEAN] /\ up' \in [Api -> BOOLEAN]
          /\ faults' \in 0..MaxFaults /\ UNCHANGED feedVars
      BY <1>1 DEF SelectOwn, OutboxInv, TypeOK
    <3>3. {p} \in SUBSET Worker
      OBVIOUS
    <3> QED
      BY <3>1, <3>2, <3>3, WorkersEnd
  <2> QED
    BY <1>1, <2>1, <2>2 DEF SelectOwn
<1>2. ASSUME NEW w \in Worker, Abort(w)
      PROVE  OutboxInv'
  <2>1. /\ worker' = [v \in Worker |-> IF v \in {w} THEN Idle ELSE worker[v]]
        /\ running' \in [Api -> BOOLEAN]
    BY <1>2, FinishType DEF Abort
  <2>2. up' \in [Api -> BOOLEAN] /\ faults' \in 0..MaxFaults /\ UNCHANGED feedVars
    BY <1>2, FaultType DEF Abort, OutboxInv, TypeOK
  <2>3. {w} \in SUBSET Worker
    OBVIOUS
  <2> QED
    BY <2>1, <2>2, <2>3, WorkersEnd
<1>3. ASSUME NEW a \in Api, Crash(a)
      PROVE  OutboxInv'
  BY <1>3, DieInv, FaultType DEF Crash, OutboxInv, TypeOK
<1>4. ASSUME NEW a \in Api, Restart(a)
      PROVE  OutboxInv'
  BY <1>4 DEF Restart, feedVars, OutboxInv, TypeOK, RowsExclusive, MarkedIsAnnounced
<1>5. CASE UNCHANGED vars
  BY <1>5 DEF vars, feedVars, OutboxInv, TypeOK, RowsExclusive, MarkedIsAnnounced
<1> QED
  BY <1>1, <1>2, <1>3, <1>4, <1>5, RecordInv, FlushInv, SendInv, CommitInv DEF Next, SendNext

LEMMA AlwaysInv == Spec => []OutboxInv
<1>1. OutboxInv /\ [Next]_vars => OutboxInv'
  BY NextInv
<1> QED
  BY <1>1, InitInv, PTL DEF Spec

-----------------------------------------------------------------------------
(* The theorems. *)

(* However many replicas flush and matchers publish at once, with any        *)
(* faults: no row is in two hands, and none that is settled is in any.       *)
THEOREM NoRowInTwoHands == Spec => []RowsExclusive
<1>1. OutboxInv => RowsExclusive
  BY DEF OutboxInv
<1> QED
  BY <1>1, AlwaysInv, PTL

LEMMA StepRefines == OutboxInv /\ [Next]_vars => [Feed!Next]_(Feed!feedVars)
<1> SUFFICES ASSUME OutboxInv, [Next]_vars
             PROVE  Feed!Next \/ UNCHANGED feedVars
  BY DEF Feed!feedVars, feedVars
<1>1. ASSUME NEW e \in Event, RecordByApi(e) \/ \E p \in Publisher : RecordByMatcher(p, e)
      PROVE  Feed!Next
  BY <1>1 DEF RecordByApi, RecordByMatcher, Feed!Next, Feed!Record
<1>2. ASSUME NEW w \in Worker, NEW e \in Event, Send(w, e) \/ SendFails(w, e)
      PROVE  Feed!Next \/ UNCHANGED feedVars
  <2>1. e \in recorded
    BY <1>2 DEF Send, SendFails, NextRow, OutboxInv, TypeOK, RowsExclusive
  <2> QED
    BY <1>2, <2>1 DEF Send, SendFails, Feed!Next, Feed!Announce, feedVars
<1>3. ASSUME NEW w \in Worker, Commit(w)
      PROVE  Feed!Next
  <2>1. worker[w].marked \subseteq announced /\ worker[w].marked \subseteq Event
    BY DEF OutboxInv, TypeOK, MarkedIsAnnounced
  <2>2. Feed!Settle(worker[w].marked)
    BY <1>3, <2>1 DEF Commit, Feed!Settle
  <2> QED
    BY <2>1, <2>2 DEF Feed!Next
<1>4. ASSUME NEW f \in Flush, FlushNext(f)
      PROVE  UNCHANGED feedVars
  BY <1>4 DEF FlushNext, StartFlush, SelectBatch, RefusedInRequest, RefusedInTimer, Die
<1>5. ASSUME \/ \E p \in Publisher : SelectOwn(p)
             \/ \E w \in Worker : Abort(w)
             \/ \E a \in Api : Crash(a) \/ Restart(a)
             \/ UNCHANGED vars
      PROVE  UNCHANGED feedVars
  BY <1>5 DEF SelectOwn, Abort, Crash, Die, Restart, vars
<1> QED
  BY <1>1, <1>2, <1>3, <1>4, <1>5 DEF Next, SendNext

(* Outbox implements the event feed: nothing is announced that was not       *)
(* recorded, nothing settled that is not on the topic, nothing taken back.   *)
THEOREM FeedRefinement == Spec => ImplementsFeed
<1>1. Init => Feed!Init
  BY DEF Init
<1> QED
  BY <1>1, StepRefines, AlwaysInv, PTL DEF Spec, ImplementsFeed, Feed!Spec

(* Variables of the outbox keep their types.                                 *)
THEOREM TypeCorrect == Spec => []TypeOK
<1>1. OutboxInv => TypeOK
  BY DEF OutboxInv
<1> QED
  BY <1>1, AlwaysInv, PTL

-----------------------------------------------------------------------------
(* The order of a trip's events. *)

AnnouncedLast == published \subseteq announced /\ announced \subseteq recorded
TripInOrder == \A e \in recorded : Earlier(e) \subseteq recorded

(* Until a fault: a matcher's row is the next of its trip; the flag is up    *)
(* while a flush is under way and keeps the others of its replica away; and  *)
(* what an open transaction has to send is preceded by what the topic holds  *)
(* or an open transaction has to send.                                       *)
OwnRowIsNext == \A p \in Publisher : \A e \in worker[p].todo : Earlier(e) \subseteq announced
OneFlush ==
    \A f \in Flush : worker[f].pc # "idle" =>
        /\ running[ApiOf[f]]
        /\ \A g \in Flush \ {f} : ApiOf[g] = ApiOf[f] => worker[g].pc = "idle"
HeldIsTodo == \A w \in Worker : worker[w].locked \subseteq worker[w].todo \cup worker[w].marked
InHand(d) == \E w \in Worker : worker[w].pc = "open" /\ d \in worker[w].todo
EarlierInHand ==
    \A v \in Worker : worker[v].pc = "open" =>
        \A e \in worker[v].todo : \A d \in Earlier(e) \ announced : InHand(d)

OrderInv ==
    /\ AnnouncedLast /\ TripInOrder
    /\ faults = 0 => OwnRowIsNext /\ OneFlush /\ HeldIsTodo /\ EarlierInHand

LEMMA SentIsRecorded ==
    ASSUME OutboxInv, NEW w \in Worker, NEW e \in Event, NextRow(w, e)
    PROVE  e \in recorded /\ worker[w].pc = "open"
  BY DEF NextRow, OutboxInv, TypeOK, RowsExclusive

LEMMA RecordedInOrder ==
    OutboxInv /\ OrderInv /\ [Next]_vars => AnnouncedLast' /\ TripInOrder'
<1> SUFFICES ASSUME OutboxInv, OrderInv, [Next]_vars PROVE AnnouncedLast' /\ TripInOrder'
  OBVIOUS
<1> USE DEF OrderInv, AnnouncedLast, TripInOrder
<1>1. ASSUME NEW e \in Event, RecordByApi(e) \/ \E p \in Publisher : RecordByMatcher(p, e)
      PROVE  AnnouncedLast' /\ TripInOrder'
  <2>1. Earlier(e) \subseteq recorded /\ recorded' = recorded \cup {e}
        /\ UNCHANGED <<announced, published>>
    BY <1>1 DEF RecordByApi, RecordByMatcher
  <2> QED
    BY <2>1
<1>2. ASSUME NEW w \in Worker, NEW e \in Event, Send(w, e) \/ SendFails(w, e)
      PROVE  AnnouncedLast' /\ TripInOrder'
  BY <1>2, SentIsRecorded DEF Send, SendFails
<1>3. ASSUME NEW w \in Worker, Commit(w) PROVE AnnouncedLast' /\ TripInOrder'
  BY <1>3 DEF Commit, OutboxInv, MarkedIsAnnounced
<1>4. ASSUME UNCHANGED feedVars PROVE AnnouncedLast' /\ TripInOrder'
  BY <1>4 DEF feedVars
<1>5. ASSUME NEW f \in Flush, FlushNext(f) PROVE UNCHANGED feedVars
  BY <1>5 DEF FlushNext, StartFlush, SelectBatch, RefusedInRequest, RefusedInTimer, Die
<1>6. ASSUME \/ \E p \in Publisher : SelectOwn(p)
             \/ \E w \in Worker : Abort(w)
             \/ \E a \in Api : Crash(a) \/ Restart(a)
             \/ UNCHANGED vars
      PROVE  UNCHANGED feedVars
  BY <1>6 DEF SelectOwn, Abort, Crash, Die, Restart, vars
<1> QED
  BY <1>1, <1>2, <1>3, <1>4, <1>5, <1>6 DEF Next, SendNext

(* What the four parts say of a worker that was idle or awaits its rows.     *)
LEMMA WorkerOpens ==
    ASSUME OutboxInv, OrderInv, faults = 0, NEW w \in Worker,
           worker[w].pc = "connect", NEW rows \in SUBSET Selectable,
           worker' = [worker EXCEPT ![w] = Holding(rows)],
           UNCHANGED <<announced, running>>,
           \A e \in rows : \A d \in Earlier(e) \ announced : d \in rows \/ InHand(d),
           w \in Publisher => \A e \in rows : Earlier(e) \subseteq announced
    PROVE  (OwnRowIsNext /\ OneFlush /\ HeldIsTodo /\ EarlierInHand)'
<1>1. /\ worker'[w] = Holding(rows)
      /\ \A v \in Worker \ {w} : worker'[v] = worker[v]
  BY DEF OutboxInv, TypeOK
<1>2. /\ worker'[w].pc = "open" /\ worker'[w].todo = rows
      /\ worker'[w].locked = rows
  BY <1>1 DEF Holding
<1>3. OwnRowIsNext'
  BY <1>1, <1>2 DEF OrderInv, OwnRowIsNext, Earlier
<1>4. OneFlush'
  BY <1>1, <1>2 DEF OrderInv, OneFlush
<1>5. HeldIsTodo'
  BY <1>1, <1>2 DEF OrderInv, HeldIsTodo
<1>6. \A d : InHand(d) => InHand(d)'
  <2> SUFFICES ASSUME NEW d, NEW v \in Worker, worker[v].pc = "open", d \in worker[v].todo
               PROVE  InHand(d)'
    BY DEF InHand
  <2> QED
    BY <1>1 DEF InHand
<1>7. \A d \in rows : InHand(d)'
  BY <1>2 DEF InHand
<1>8. EarlierInHand'
  <2> SUFFICES ASSUME NEW v \in Worker, worker'[v].pc = "open", NEW e \in worker'[v].todo,
                      NEW d \in Earlier(e) \ announced
               PROVE  InHand(d)'
    BY DEF EarlierInHand, Earlier
  <2>1. CASE v = w
    BY <2>1, <1>2, <1>6, <1>7
  <2>2. CASE v # w
    BY <2>2, <1>1, <1>6 DEF OrderInv, EarlierInHand
  <2> QED
    BY <2>1, <2>2
<1> QED
  BY <1>3, <1>4, <1>5, <1>8

(* A row has no more rows before it than a later one.                        *)
LEMMA FewerBefore ==
    ASSUME NEW S \in SUBSET Nat, NEW d \in Nat, NEW e \in Nat, d < e
    PROVE  \A n \in Nat : Cardinality({j \in S : j < e}) < n => Cardinality({j \in S : j < d}) < n
<1>1. {j \in S : j < d} \subseteq {j \in S : j < e}
  <2>1. ASSUME NEW j \in S, j < d PROVE j < e
    <3>1. j \in Nat
      OBVIOUS
    <3> QED
      BY <2>1, <3>1
  <2> QED
    BY <2>1, Zenon
<1>2. {j \in S : j < e} \subseteq 0 .. e
  <2>1. ASSUME NEW j \in S, j < e PROVE j \in 0 .. e
    <3>1. j \in Nat
      OBVIOUS
    <3> QED
      BY <2>1, <3>1
  <2> QED
    BY <2>1, Zenon
<1>3. IsFiniteSet({j \in S : j < e})
  <2>1. IsFiniteSet(0 .. e)
    BY FS_Interval
  <2> QED
    BY <1>2, <2>1, FS_Subset, Zenon
<1>4. /\ Cardinality({j \in S : j < d}) \in Nat /\ Cardinality({j \in S : j < e}) \in Nat
      /\ Cardinality({j \in S : j < d}) <= Cardinality({j \in S : j < e})
  BY <1>1, <1>3, FS_Subset, FS_CardinalityType
<1> QED
  BY <1>4

(* A batch begins with the first pending row that nobody holds.              *)
LEMMA BatchInOrder ==
    ASSUME OutboxInv, OrderInv, faults = 0, NEW rows \in Batch(Selectable, Limit),
           NEW e \in rows, NEW d \in Earlier(e) \ announced
    PROVE  d \in rows \/ InHand(d)
<1>1. /\ rows = {i \in Selectable : Cardinality({j \in Selectable : j < i}) < Limit}
      /\ e \in Selectable
  BY DEF Batch
<1>2. d \in Event /\ e \in Event /\ d < e /\ d \in recorded /\ d \notin published
  BY <1>1 DEF Earlier, OrderInv, AnnouncedLast, TripInOrder, Selectable, OutboxInv, TypeOK
<1>3. CASE d \in Selectable
  <2>1. Selectable \subseteq Nat /\ d \in Nat /\ e \in Nat
    BY <1>2 DEF Selectable, OutboxInv, TypeOK
  <2>2. Cardinality({j \in Selectable : j < e}) < Limit
    BY <1>1
  <2>3. Cardinality({j \in Selectable : j < d}) < Limit
    BY <1>2, <2>1, <2>2, FewerBefore
  <2> QED
    BY <1>1, <1>3, <2>3
<1>4. CASE d \notin Selectable
  <2>1. PICK w \in Worker : d \in worker[w].locked
    BY <1>2, <1>4 DEF Selectable, LockedRows
  <2>2. worker[w].pc = "open"
    BY <2>1 DEF OutboxInv, TypeOK
  <2>3. d \in worker[w].todo
    BY <2>1 DEF OrderInv, HeldIsTodo, OutboxInv, MarkedIsAnnounced
  <2> QED
    BY <2>2, <2>3 DEF InHand
<1> QED
  BY <1>3, <1>4

LEMMA OrderStep ==
    ASSUME OutboxInv, OrderInv, [Next]_vars, faults' = 0
    PROVE  (OwnRowIsNext /\ OneFlush /\ HeldIsTodo /\ EarlierInHand)'
<1> DEFINE Order == OwnRowIsNext /\ OneFlush /\ HeldIsTodo /\ EarlierInHand
<1> SUFFICES Order'
  OBVIOUS
<1>1. ASSUME NEW kind, Fault(kind) PROVE FALSE
  BY <1>1 DEF Fault, OutboxInv, TypeOK
<1>2. faults = 0
  <2>1. faults' = faults \/ \E kind : Fault(kind)
    BY DEF Next, FlushNext, SendNext, RecordByApi, RecordByMatcher, StartFlush, SelectBatch,
           RefusedInRequest, RefusedInTimer, SelectOwn, Send, SendFails, Commit, Abort, Crash,
           Restart, vars
  <2> QED
    BY <1>1, <2>1
<1>3. Order
  BY <1>2 DEF OrderInv
<1>4. ASSUME UNCHANGED <<worker, announced, running>> PROVE Order'
  BY <1>3, <1>4 DEF OwnRowIsNext, OneFlush, HeldIsTodo, EarlierInHand, InHand, Earlier
<1>5. ASSUME NEW w \in Worker, NEW k \in Work, worker' = [worker EXCEPT ![w] = k],
             worker[w].pc # "open", k.pc # "open", k.locked = {}, announced' = announced,
             w \in Publisher => \A e \in k.todo : Earlier(e) \subseteq announced,
             OneFlush'
      PROVE  Order'
  <2>1. /\ worker'[w] = k
        /\ \A v \in Worker \ {w} : worker'[v] = worker[v]
    BY <1>5 DEF OutboxInv, TypeOK
  <2>2. \A d : InHand(d) => InHand(d)'
    BY <1>5, <2>1 DEF InHand
  <2>3. EarlierInHand'
    BY <1>3, <1>5, <2>1, <2>2 DEF EarlierInHand, Earlier
  <2>4. OwnRowIsNext' /\ HeldIsTodo'
    BY <1>3, <1>5, <2>1 DEF OwnRowIsNext, HeldIsTodo, Earlier
  <2> QED
    BY <1>5, <2>3, <2>4
<1>6. ASSUME NEW e \in Event, RecordByApi(e) PROVE Order'
  BY <1>4, <1>6 DEF RecordByApi
<1>7. ASSUME NEW e \in Event, NEW p \in Publisher, RecordByMatcher(p, e) PROVE Order'
  <2>1. /\ worker[p].pc = "idle" /\ Earlier(e) \subseteq announced
        /\ worker' = [worker EXCEPT ![p] = Connecting({e})] /\ UNCHANGED <<announced, running>>
    BY <1>7 DEF RecordByMatcher
  <2>2. Connecting({e}) \in Work
    OBVIOUS
  <2>3. OneFlush'
    BY <1>3, <2>1 DEF OneFlush, OutboxInv, TypeOK
  <2> QED
    BY <1>5, <2>1, <2>2, <2>3
<1>8. ASSUME NEW f \in Flush, StartFlush(f) PROVE Order'
  <2>1. /\ worker[f].pc = "idle" /\ ~running[ApiOf[f]] /\ announced' = announced
        /\ worker' = [worker EXCEPT ![f] = Connecting({})]
        /\ running' = [running EXCEPT ![ApiOf[f]] = TRUE]
    BY <1>8 DEF StartFlush, FlushFree, feedVars
  <2>2. /\ worker'[f].pc = "connect"
        /\ \A g \in Flush \ {f} : worker'[g] = worker[g]
        /\ \A g \in Flush : running[ApiOf[g]] \/ ApiOf[g] = ApiOf[f] => running'[ApiOf[g]]
    BY <2>1 DEF OutboxInv, TypeOK
  <2>3. \A g \in Flush \ {f} : ApiOf[g] = ApiOf[f] => worker[g].pc = "idle"
    BY <1>3, <2>1 DEF OneFlush
  <2>4. OneFlush'
    BY <1>3, <2>2, <2>3 DEF OneFlush
  <2>5. Connecting({}) \in Work
    OBVIOUS
  <2> QED
    BY <1>5, <2>1, <2>4, <2>5
<1>9. ASSUME NEW f \in Flush, SelectBatch(f) PROVE Order'
  <2>1. PICK rows \in Batch(Selectable, Limit) : worker' = [worker EXCEPT ![f] = Holding(rows)]
    BY <1>9 DEF SelectBatch
  <2>2. rows \in SUBSET Selectable
    BY DEF Batch
  <2>3. \A e \in rows : \A d \in Earlier(e) \ announced : d \in rows \/ InHand(d)
    BY <1>2, BatchInOrder
  <2>4. worker[f].pc = "connect" /\ UNCHANGED <<announced, running>>
    BY <1>9 DEF SelectBatch, feedVars
  <2> QED
    BY <1>2, <2>1, <2>2, <2>3, <2>4, WorkerOpens
<1>10. ASSUME NEW p \in Publisher, SelectOwn(p) PROVE Order'
  <2>1. worker[p].pc = "connect" /\ UNCHANGED <<announced, running>>
    BY <1>10 DEF SelectOwn, feedVars
  <2>2. \A e \in worker[p].todo : Earlier(e) \subseteq announced
    BY <1>3 DEF OwnRowIsNext
  <2>3. CASE worker[p].todo \subseteq Selectable /\ worker' = [worker EXCEPT ![p] = Holding(worker[p].todo)]
    BY <1>2, <2>1, <2>2, <2>3, WorkerOpens
  <2>4. CASE worker' = [worker EXCEPT ![p] = Idle]
    <3>1. Idle \in Work
      OBVIOUS
    <3>2. OneFlush'
      BY <1>3, <2>1, <2>4 DEF OneFlush, OutboxInv, TypeOK
    <3> QED
      BY <1>5, <2>1, <2>4, <3>1, <3>2
  <2> QED
    BY <1>10, <2>3, <2>4 DEF SelectOwn
<1>11. ASSUME NEW w \in Worker, NEW e \in Event, Send(w, e) PROVE Order'
  <2>1. /\ worker[w].pc = "open" /\ announced' = announced \cup {e} /\ running' = running
        /\ worker' = [worker EXCEPT ![w] = AfterSend(@, e, TRUE)]
    BY <1>11, SentIsRecorded DEF Send
  <2>2. /\ worker'[w].pc = "open" /\ worker'[w].todo = worker[w].todo \ {e}
        /\ worker'[w].locked = worker[w].locked
        /\ worker'[w].marked = worker[w].marked \cup {e}
        /\ \A v \in Worker \ {w} : worker'[v] = worker[v]
    BY <2>1 DEF AfterSend, OutboxInv, TypeOK
  <2>3. OwnRowIsNext'
    BY <1>3, <2>1, <2>2 DEF OwnRowIsNext, Earlier
  <2>4. OneFlush'
    <3>1. \A v \in Worker : worker'[v].pc = worker[v].pc
      BY <2>1, <2>2
    <3> QED
      BY <1>3, <2>1, <3>1 DEF OneFlush
  <2>5. HeldIsTodo'
    BY <1>3, <2>2 DEF HeldIsTodo
  <2>6. \A d : InHand(d) /\ d # e => InHand(d)'
    BY <2>1, <2>2 DEF InHand
  <2>7. EarlierInHand'
    <3> SUFFICES ASSUME NEW v \in Worker, worker'[v].pc = "open", NEW i \in worker'[v].todo,
                        NEW d \in Earlier(i) \ announced'
                 PROVE  InHand(d)'
      BY DEF EarlierInHand, Earlier
    <3>1. worker[v].pc = "open" /\ i \in worker[v].todo /\ d # e /\ d \notin announced
      BY <2>1, <2>2
    <3> QED
      BY <1>3, <2>6, <3>1 DEF EarlierInHand
  <2> QED
    BY <2>3, <2>4, <2>5, <2>7
<1>12. ASSUME NEW w \in Worker, Commit(w) PROVE Order'
  <2>1. /\ worker[w].pc = "open" /\ worker[w].todo = {} /\ announced' = announced
        /\ worker' = [worker EXCEPT ![w] = Idle]
        /\ running' = [a \in Api |-> IF w \in Flush /\ a = ApiOf[w] THEN FALSE ELSE running[a]]
    BY <1>12 DEF Commit, Finish
  <2>2. /\ worker'[w] = Idle
        /\ \A v \in Worker \ {w} : worker'[v] = worker[v]
    BY <2>1 DEF OutboxInv, TypeOK
  <2>3. OneFlush'
    <3> SUFFICES ASSUME NEW f \in Flush, worker'[f].pc # "idle"
                 PROVE  /\ running'[ApiOf[f]]
                        /\ \A g \in Flush \ {f} : ApiOf[g] = ApiOf[f] => worker'[g].pc = "idle"
      BY DEF OneFlush
    <3>1. f # w /\ worker[f].pc # "idle" /\ (w \in Flush => ApiOf[w] # ApiOf[f])
      BY <1>3, <2>1, <2>2 DEF OneFlush
    <3>2. running[ApiOf[f]] /\ \A g \in Flush \ {f} : ApiOf[g] = ApiOf[f] => worker[g].pc = "idle"
      BY <1>3, <3>1 DEF OneFlush
    <3> QED
      BY <2>1, <2>2, <3>1, <3>2
  <2>4. OwnRowIsNext' /\ HeldIsTodo'
    BY <1>3, <2>1, <2>2 DEF OwnRowIsNext, HeldIsTodo, Earlier
  <2>5. \A d : InHand(d) => InHand(d)'
    BY <2>1, <2>2 DEF InHand
  <2>6. EarlierInHand'
    BY <1>3, <2>1, <2>2, <2>5 DEF EarlierInHand, Earlier
  <2> QED
    BY <2>3, <2>4, <2>6
<1>13. ASSUME NEW a \in Api, Restart(a) PROVE Order'
  BY <1>4, <1>13 DEF Restart, feedVars
<1>14. ASSUME UNCHANGED vars PROVE Order'
  BY <1>4, <1>14 DEF vars, feedVars
<1> HIDE DEF Order
<1> QED
  BY <1>1, <1>6, <1>7, <1>8, <1>9, <1>10, <1>11, <1>12, <1>13, <1>14
     DEF Next, FlushNext, SendNext, SendFails, Abort, Crash, RefusedInRequest, RefusedInTimer

LEMMA OrderInvHolds == Spec => []OrderInv
<1>1. Init => OrderInv
  BY DEF Init, Feed!Init, OrderInv, AnnouncedLast, TripInOrder, OwnRowIsNext, OneFlush,
         HeldIsTodo, EarlierInHand
<1>2. OutboxInv /\ OrderInv /\ [Next]_vars => OrderInv'
  BY RecordedInOrder, OrderStep DEF OrderInv
<1> QED
  BY <1>1, <1>2, AlwaysInv, PTL DEF Spec

(* Whatever flushes and matchers there are, an event overtakes an earlier    *)
(* one of its trip only after a fault, or while another process has that one *)
(* in hand.                                                                  *)
THEOREM TripsInOrder == Spec => InOrder
<1>1. OutboxInv /\ OutboxInv' /\ OrderInv /\ [Next]_vars
      => [\A e \in announced' \ announced, d \in Event :
             d \in Earlier(e) \ announced =>
                 \/ faults' > 0
                 \/ \E v, w \in Worker : /\ e \in worker[v].todo /\ d \in worker[w].todo
                                        /\ Process(v) # Process(w)]_vars
  <2> SUFFICES ASSUME OutboxInv, OutboxInv', OrderInv, [Next]_vars,
                      NEW e \in announced' \ announced, NEW d \in Event,
                      d \in Earlier(e) \ announced, ~(faults' > 0)
               PROVE  \E v, w \in Worker : /\ e \in worker[v].todo /\ d \in worker[w].todo
                                          /\ Process(v) # Process(w)
    OBVIOUS
  <2>1. faults' = 0 /\ faults \in Nat
    BY DEF OutboxInv, TypeOK
  <2>10. ~(\E kind : Fault(kind))
    BY <2>1 DEF Fault
  <2>11. announced' # announced
    OBVIOUS
  <2>2. PICK v \in Worker, i \in Event : Send(v, i)
    <3>1. ASSUME NEW f \in Flush PROVE ~FlushNext(f)
      BY <2>10, <2>11 DEF FlushNext, StartFlush, SelectBatch, RefusedInRequest, RefusedInTimer,
                          feedVars
    <3>2. ASSUME NEW w \in Worker PROVE ~Commit(w) /\ ~Abort(w) /\ \A j \in Event : ~SendFails(w, j)
      BY <2>10, <2>11 DEF Commit, Abort, SendFails
    <3>3. ASSUME NEW j \in Event PROVE ~RecordByApi(j) /\ \A p \in Publisher : ~RecordByMatcher(p, j)
      BY <2>11 DEF RecordByApi, RecordByMatcher
    <3>4. ASSUME NEW p \in Publisher PROVE ~SelectOwn(p)
      BY <2>11 DEF SelectOwn, feedVars
    <3>5. ASSUME NEW a \in Api PROVE ~Crash(a) /\ ~Restart(a)
      BY <2>10, <2>11 DEF Crash, Restart, feedVars
    <3>6. ~(UNCHANGED vars)
      BY <2>11 DEF vars, feedVars
    <3> QED
      BY <3>1, <3>2, <3>3, <3>4, <3>5, <3>6 DEF Next, SendNext
  <2>3. /\ worker[v].pc = "open" /\ e \in worker[v].todo /\ faults = 0
        /\ \A j \in worker[v].todo : e <= j
    BY <2>1, <2>2 DEF Send, NextRow
  <2>4. PICK w \in Worker : worker[w].pc = "open" /\ d \in worker[w].todo
    BY <2>3 DEF OrderInv, EarlierInHand, InHand
  <2>5. d < e /\ e \in Event
    BY <2>3 DEF Earlier, OutboxInv, TypeOK
  <2>6. v # w
    BY <2>3, <2>4, <2>5
  <2>7. v \notin Publisher
    BY <2>3 DEF OrderInv, OwnRowIsNext
  <2>8. w \in Flush => ApiOf[v] # ApiOf[w]
    BY <2>3, <2>4, <2>6, <2>7 DEF OrderInv, OneFlush
  <2>9. Process(v) # Process(w)
    BY <2>7, <2>8 DEF Process
  <2> QED
    BY <2>3, <2>4, <2>9
<1> QED
  BY <1>1, AlwaysInv, OrderInvHolds, PTL DEF Spec, InOrder

=============================================================================
