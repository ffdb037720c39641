------------------------------ MODULE Vehicles ------------------------------
(***************************************************************************)
(* The vehicles of one driver: the rows of the table, the partial unique   *)
(* index that allows one active row, and the transactions of the service.  *)
(* Rows of other drivers do not interact, but for the plate, which is      *)
(* unique over all of them.                                                *)
(*                                                                         *)
(* Postgres runs at READ COMMITTED.  A statement sees what was committed   *)
(* when it began; it waits for a row another transaction has updated, and  *)
(* then looks at the row again; an insertion into the unique index waits   *)
(* for a transaction that is about to take the conflicting entry out.      *)
(* row holds what is committed, off[c] the rows an open transaction has    *)
(* switched off, which it keeps locked.                                    *)
(***************************************************************************)
EXTENDS Naturals

CONSTANTS
    Vehicle,    \* ids the rows of the driver may come to have
    NoVehicle,  \* the id of a row that is still to be inserted
    Client      \* tabs and scripts of the driver, one request each at a time

ASSUME VehiclesAssumption == NoVehicle \notin Vehicle

VARIABLES
    row,        \* none, inactive, active, or gone: ids do not come back
    used,       \* vehicles a trip refers to
    txn,        \* where the request of each client is
    off         \* rows the open transaction of a client has switched off

vehiclesVars == <<row, used, txn, off>>

Present == {"inactive", "active"}
Operation == {"create", "activate", "deactivate", "remove"}
\* A request and the answer it has when it is done.
Txn == [pc : {"idle", "check", "insert", "snapshot", "others", "this", "single", "done"},
        op : Operation,
        vehicle : Vehicle \cup {NoVehicle},
        \* others: the rows the first UPDATE has found; insert: is_active
        found : SUBSET Vehicle,
        first : BOOLEAN,
        answer : {"none", "ok", "conflict", "missing", "refused", "error"}]
NoTxn == [pc |-> "idle", op |-> "create", vehicle |-> NoVehicle, found |-> {},
          first |-> FALSE, answer |-> "none"]

VehiclesInit ==
    /\ row = [v \in Vehicle |-> "none"]
    /\ used = {}
    /\ txn = [c \in Client |-> NoTxn]
    /\ off = [c \in Client |-> {}]

Active == {v \in Vehicle : row[v] = "active"}

\* Somebody else's open transaction holds the row.
Locked(c, v) == \E other \in Client \ {c} : v \in off[other]

\* Entries of the unique index that stand in the way of making v active.
InTheWay_NoIndex(c, v) == {}
InTheWay(c, v) == Active \ ({v} \cup off[c])

\* COMMIT or ROLLBACK, and the answer.
Done(c, answer) ==
    /\ txn' = [txn EXCEPT ![c] = [NoTxn EXCEPT !.pc = "done", !.answer = answer]]
    /\ off' = [off EXCEPT ![c] = {}]
Refuse(c, answer) == Done(c, answer) /\ UNCHANGED <<row, used>>

(***************************************************************************)
(* The requests: POST, PATCH and DELETE of /vehicles.  Any id of the       *)
(* driver's may come in one, also when its row has been removed.  A PATCH  *)
(* that leaves is_active alone changes nothing here.                       *)
(***************************************************************************)
FirstStep(op) ==
    CASE op = "create" -> "check"
      [] op = "activate" -> "snapshot"
      [] OTHER -> "single"

Submit(c, op, v) ==
    /\ txn[c].pc = "idle"
    /\ (op = "create") = (v = NoVehicle)
    /\ txn' = [txn EXCEPT ![c] = [NoTxn EXCEPT !.pc = FirstStep(op), !.op = op, !.vehicle = v]]
    /\ UNCHANGED <<row, used, off>>

\* create: SELECT EXISTS.
HasActive == Active # {}

Check(c) ==
    /\ txn[c].pc = "check"
    /\ txn' = [txn EXCEPT ![c].pc = "insert", ![c].first = ~HasActive]
    /\ UNCHANGED <<row, used, off>>

\* create: INSERT and COMMIT.  The plate may be somebody else's already.
Insert(c) ==
    /\ txn[c].pc = "insert"
    /\ \/ Refuse(c, "conflict")
       \/ \E v \in Vehicle :
             /\ row[v] = "none"
             /\ txn[c].first => InTheWay(c, v) = {}
             /\ row' = [row EXCEPT ![v] = IF txn[c].first THEN "active" ELSE "inactive"]
             /\ Done(c, "ok")
             /\ UNCHANGED used

\* The WHERE clause of the UPDATE of the others.  Mutant: it takes inactive ones too.
Matching_Inactive(v) == {w \in Vehicle \ {v} : row[w] \in Present}
Matching(v) == Active \ {v}

\* activate: this UPDATE begins, and finds its rows.
Snapshot(c) ==
    /\ txn[c].pc = "snapshot"
    /\ txn' = [txn EXCEPT ![c].pc = "others", ![c].found = Matching(txn[c].vehicle)]
    /\ UNCHANGED <<row, used, off>>

\* It has their locks, and switches off those that match still.
\* Mutant: without BEGIN, this is committed at once.
SwitchOff_NoBegin(c) ==
    /\ txn[c].pc = "others"
    /\ \A v \in txn[c].found : ~Locked(c, v)
    /\ row' = [v \in Vehicle |->
                  IF v \in txn[c].found \cap Matching(txn[c].vehicle) THEN "inactive" ELSE row[v]]
    /\ txn' = [txn EXCEPT ![c].pc = "this", ![c].found = {}]
    /\ UNCHANGED <<used, off>>
SwitchOff(c) ==
    /\ txn[c].pc = "others"
    /\ \A v \in txn[c].found : ~Locked(c, v)
    /\ off' = [off EXCEPT ![c] = txn[c].found \cap Matching(txn[c].vehicle)]
    /\ txn' = [txn EXCEPT ![c].pc = "this", ![c].found = {}]
    /\ UNCHANGED <<row, used>>

\* activate: the UPDATE of the row itself has to wait, for a lock on it or
\* for a transaction that takes away the entry in the way.
Waits(c, v) ==
    \/ row[v] \in Present /\ Locked(c, v)
    \/ row[v] \in Present /\ \E w \in InTheWay(c, v) : Locked(c, w)

\* What COMMIT makes of the rows.
Committed(c, v) ==
    [w \in Vehicle |-> IF w = v THEN "active" ELSE IF w \in off[c] THEN "inactive" ELSE row[w]]

SwitchOn(c) ==
    LET v == txn[c].vehicle IN
    /\ txn[c].pc = "this"
    /\ ~Waits(c, v)
    /\ \/ /\ row[v] \in Present
          /\ InTheWay(c, v) = {}
          /\ row' = Committed(c, v)
          /\ Done(c, "ok")
          /\ UNCHANGED used
       \/ /\ row[v] \in Present
          /\ InTheWay(c, v) # {}
          /\ Refuse(c, "conflict")
       \* No row: COMMIT all the same, and then 404.
       \/ /\ row[v] \notin Present
          /\ row' = [w \in Vehicle |-> IF w \in off[c] THEN "inactive" ELSE row[w]]
          /\ Done(c, "missing")
          /\ UNCHANGED used

\* A single UPDATE ... SET is_active = FALSE, or a single DELETE.  A row a
\* trip refers to cannot be deleted.
Single(c) ==
    LET v == txn[c].vehicle IN
    /\ txn[c].pc = "single"
    /\ row[v] \in Present => ~Locked(c, v)
    /\ \/ row[v] \notin Present /\ Refuse(c, "missing")
       \/ row[v] \in Present /\ txn[c].op = "remove" /\ v \in used /\ Refuse(c, "refused")
       \/ /\ row[v] \in Present
          /\ txn[c].op = "remove" => v \notin used
          /\ row' = [row EXCEPT ![v] = IF txn[c].op = "remove" THEN "gone" ELSE "inactive"]
          /\ Done(c, "ok")
          /\ UNCHANGED used

\* The process dies, or the connection: Postgres rolls back.
Abort(c) ==
    /\ txn[c].pc \notin {"idle", "done"}
    /\ Refuse(c, "error")

\* The client has its answer.
Receive(c) ==
    /\ txn[c].pc = "done"
    /\ txn' = [txn EXCEPT ![c] = NoTxn]
    /\ UNCHANGED <<row, used, off>>

\* The matcher binds the active vehicle to a trip (see Dispatch).
Use(v) ==
    /\ row[v] = "active"
    /\ used' = used \cup {v}
    /\ UNCHANGED <<row, txn, off>>

ServiceStep(c) ==
    Check(c) \/ Insert(c) \/ Snapshot(c) \/ SwitchOff(c) \/ SwitchOn(c) \/ Single(c) \/ Abort(c)

VehiclesNext ==
    \/ \E c \in Client :
          \/ \E op \in Operation, v \in Vehicle \cup {NoVehicle} : Submit(c, op, v)
          \/ ServiceStep(c)
          \/ Receive(c)
    \/ \E v \in Vehicle : Use(v)

VehiclesSpec == VehiclesInit /\ [][VehiclesNext]_vehiclesVars

----------------------------------------------------------------------------
\* Type invariant.
VehiclesTypeOK ==
    /\ row \in [Vehicle -> {"none", "gone"} \cup Present]
    /\ used \in SUBSET Vehicle
    /\ txn \in [Client -> Txn]
    /\ off \in [Client -> SUBSET Vehicle]
    /\ \A c \in Client :
          /\ txn[c].pc \in {"snapshot", "others", "this", "single"} => txn[c].vehicle \in Vehicle
          /\ txn[c].pc \in {"snapshot", "others", "this"} => txn[c].op = "activate"

(***************************************************************************)
(* The matcher joins a driver with one active vehicle: however creations,  *)
(* activations, removals and aborted transactions of several tabs and      *)
(* scripts interleave, there are never two.                                *)
(***************************************************************************)
OneActive == \A v, w \in Active : v = w

(***************************************************************************)
(* Two activations of one driver update several rows each, in an order     *)
(* that is not fixed.  Nevertheless they cannot wait for each other: a     *)
(* transaction that holds a row has nothing to wait for any more.          *)
(***************************************************************************)
HoldersNeverWait ==
    \A c \in Client : off[c] # {} /\ txn[c].pc = "this" => ~Waits(c, txn[c].vehicle)

(***************************************************************************)
(* An active vehicle stops being active only when another one takes over   *)
(* in the same commit, when it is itself switched off or removed - or when *)
(* an id without a row is activated: that request ends with 404, but the   *)
(* commit before has switched the active vehicle off.  In particular a     *)
(* request refused by the index, or aborted, takes no vehicle away.        *)
(***************************************************************************)
SwapIsAtomic ==
    [][\A v \in Active :
          \/ v \in Active'
          \/ Active' \ Active # {}
          \/ \E c \in Client : Single(c) /\ txn[c].vehicle = v
          \/ \E c \in Client : txn[c].op = "activate" /\ row[txn[c].vehicle] \notin Present
                                  /\ txn'[c].answer = "missing"]_vehiclesVars
=============================================================================
