--------------------------- MODULE VehiclesProofs ---------------------------
(***************************************************************************)
(* Theorems of Vehicles, for any numbers of vehicles and clients.          *)
(***************************************************************************)
EXTENDS Vehicles, TLAPS

USE VehiclesAssumption

-----------------------------------------------------------------------------
(* The inductive invariant: a transaction keeps locked only active rows,    *)
(* other ones than it is about to switch on, and none that another one      *)
(* keeps locked; and only between its two updates.                          *)
HeldRows ==
    \A c \in Client :
        /\ off[c] \subseteq Active
        /\ off[c] # {} => txn[c].pc = "this"
        /\ txn[c].vehicle \notin off[c]
        /\ \A d \in Client \ {c} : off[c] \cap off[d] = {}

VehiclesInv == VehiclesTypeOK /\ OneActive /\ HeldRows

(* A request on its own, as the type invariant has it.                       *)
RequestOK(k) ==
    /\ k \in Txn
    /\ k.pc \in {"snapshot", "others", "this", "single"} => k.vehicle \in Vehicle
    /\ k.pc \in {"snapshot", "others", "this"} => k.op = "activate"

LEMMA NoTxnOK == RequestOK(NoTxn)
  BY DEF RequestOK, NoTxn, Txn, Operation

LEMMA VehiclesInitInv == VehiclesInit => VehiclesInv
<1> SUFFICES ASSUME VehiclesInit PROVE VehiclesInv
  OBVIOUS
<1>1. VehiclesTypeOK
  BY NoTxnOK DEF VehiclesInit, VehiclesTypeOK, RequestOK
<1>2. Active = {}
  BY DEF VehiclesInit, Active
<1> QED
  BY <1>1, <1>2 DEF VehiclesInit, VehiclesInv, OneActive, HeldRows

(* A client's request moves on and holds no row; its vehicle may be anything.*)
LEMMA Released ==
    ASSUME VehiclesInv, NEW c \in Client, NEW k, RequestOK(k),
           txn' = [txn EXCEPT ![c] = k],
           off' = [off EXCEPT ![c] = {}],
           row' \in [Vehicle -> {"none", "gone"} \cup Present], used' \in SUBSET Vehicle,
           OneActive',
           \A d \in Client \ {c} : off[d] \subseteq Active'
    PROVE  VehiclesInv'
<1>1. /\ txn' \in [Client -> Txn] /\ txn'[c] = k
      /\ \A d \in Client \ {c} : txn'[d] = txn[d]
  BY DEF VehiclesInv, VehiclesTypeOK, RequestOK
<1>2. /\ off' \in [Client -> SUBSET Vehicle] /\ off'[c] = {}
      /\ \A d \in Client \ {c} : off'[d] = off[d]
  BY DEF VehiclesInv, VehiclesTypeOK
<1>3. VehiclesTypeOK'
  BY <1>1, <1>2 DEF VehiclesInv, VehiclesTypeOK, RequestOK
<1>4. HeldRows'
  BY <1>1, <1>2 DEF VehiclesInv, HeldRows
<1> QED
  BY <1>3, <1>4 DEF VehiclesInv

(* Outside of its two updates a request holds no row, and moving on there    *)
(* changes none.                                                             *)
LEMMA Moves ==
    ASSUME VehiclesInv, NEW c \in Client, NEW k, RequestOK(k),
           txn' = [txn EXCEPT ![c] = k], txn[c].pc # "this",
           UNCHANGED <<row, off>>, used' \in SUBSET Vehicle
    PROVE  VehiclesInv'
<1>1. off[c] = {}
  BY DEF VehiclesInv, HeldRows
<1>2. off' = [off EXCEPT ![c] = {}]
  BY <1>1 DEF VehiclesInv, VehiclesTypeOK
<1>3. Active' = Active
  BY DEF Active
<1>4. OneActive' /\ \A d \in Client : off[d] \subseteq Active'
  BY <1>3 DEF VehiclesInv, OneActive, HeldRows
<1> QED
  BY <1>2, <1>4, Released DEF VehiclesInv, VehiclesTypeOK

LEMMA RefuseInv ==
    ASSUME VehiclesInv, NEW c \in Client, NEW answer \in {"conflict", "missing", "refused", "error"},
           Refuse(c, answer)
    PROVE  VehiclesInv'
<1> DEFINE k == [NoTxn EXCEPT !.pc = "done", !.answer = answer]
<1>1. RequestOK(k)
  BY DEF RequestOK, NoTxn, Txn, Operation
<1>2. Active' = Active
  BY DEF Refuse, Active
<1>3. OneActive' /\ \A d \in Client : off[d] \subseteq Active'
  BY <1>2 DEF VehiclesInv, OneActive, HeldRows
<1> QED
  BY <1>1, <1>3, Released DEF Refuse, Done, VehiclesInv, VehiclesTypeOK

LEMMA SubmitInv ==
    ASSUME VehiclesInv, NEW c \in Client, NEW op \in Operation, NEW v \in Vehicle \cup {NoVehicle},
           Submit(c, op, v)
    PROVE  VehiclesInv'
<1> DEFINE k == [NoTxn EXCEPT !.pc = FirstStep(op), !.op = op, !.vehicle = v]
<1>1. RequestOK(k)
  <2>1. k \in Txn /\ k.vehicle = v /\ k.op = op /\ k.pc = FirstStep(op)
    BY DEF NoTxn, Txn, Operation, FirstStep
  <2>2. FirstStep(op) = "snapshot" => op = "activate"
    BY DEF FirstStep, Operation
  <2>3. FirstStep(op) \in {"check", "snapshot", "single"} /\ (FirstStep(op) # "check" => op # "create")
    BY DEF FirstStep, Operation
  <2>4. op # "create" => v \in Vehicle
    BY DEF Submit
  <2> HIDE DEF k
  <2> QED
    BY <2>1, <2>2, <2>3, <2>4 DEF RequestOK
<1> QED
  BY <1>1, Moves DEF Submit, VehiclesInv, VehiclesTypeOK

LEMMA CheckInv ==
    ASSUME VehiclesInv, NEW c \in Client, Check(c)
    PROVE  VehiclesInv'
<1> DEFINE k == [txn[c] EXCEPT !.pc = "insert", !.first = ~HasActive]
<1>1. RequestOK(k)
  <2>1. txn[c] \in Txn
    BY DEF VehiclesInv, VehiclesTypeOK
  <2>2. k \in Txn /\ k.pc = "insert"
    BY <2>1 DEF Txn, HasActive
  <2> QED
    BY <2>2 DEF RequestOK
<1>2. txn' = [txn EXCEPT ![c] = k]
  BY DEF Check, VehiclesInv, VehiclesTypeOK
<1> QED
  BY <1>1, <1>2, Moves DEF Check, VehiclesInv, VehiclesTypeOK

LEMMA InsertInv ==
    ASSUME VehiclesInv, NEW c \in Client, Insert(c)
    PROVE  VehiclesInv'
<1>1. CASE Refuse(c, "conflict")
  BY <1>1, RefuseInv
<1>2. ASSUME NEW v \in Vehicle, row[v] = "none", txn[c].first => InTheWay(c, v) = {},
             row' = [row EXCEPT ![v] = IF txn[c].first THEN "active" ELSE "inactive"],
             Done(c, "ok"), UNCHANGED used
      PROVE  VehiclesInv'
  <2> DEFINE k == [NoTxn EXCEPT !.pc = "done", !.answer = "ok"]
  <2>1. RequestOK(k)
    BY DEF RequestOK, NoTxn, Txn, Operation
  <2>2. off[c] = {}
    BY DEF Insert, VehiclesInv, HeldRows
  <2>3. row' \in [Vehicle -> {"none", "gone"} \cup Present]
    BY <1>2 DEF VehiclesInv, VehiclesTypeOK, Present
  <2>4. OneActive' /\ Active \subseteq Active'
    <3>1. CASE txn[c].first
      <4>1. Active = {}
        BY <1>2, <2>2, <3>1 DEF InTheWay, Active
      <4> QED
        BY <1>2, <3>1, <4>1 DEF VehiclesInv, VehiclesTypeOK, OneActive, Active
    <3>2. CASE ~txn[c].first
      <4>1. Active' = Active
        BY <1>2, <3>2 DEF VehiclesInv, VehiclesTypeOK, Active
      <4> QED
        BY <4>1 DEF VehiclesInv, OneActive
    <3> QED
      BY <3>1, <3>2
  <2> QED
    BY <1>2, <2>1, <2>3, <2>4, Released DEF Done, VehiclesInv, VehiclesTypeOK, HeldRows
<1> QED
  BY <1>1, <1>2 DEF Insert

LEMMA SnapshotInv ==
    ASSUME VehiclesInv, NEW c \in Client, Snapshot(c)
    PROVE  VehiclesInv'
<1> DEFINE k == [txn[c] EXCEPT !.pc = "others", !.found = Matching(txn[c].vehicle)]
<1>1. RequestOK(k)
  BY DEF Snapshot, RequestOK, Txn, VehiclesInv, VehiclesTypeOK, Matching, Active
<1>2. txn' = [txn EXCEPT ![c] = k]
  BY DEF Snapshot, VehiclesInv, VehiclesTypeOK
<1> QED
  BY <1>1, <1>2, Moves DEF Snapshot, VehiclesInv, VehiclesTypeOK

LEMMA SwitchOffInv ==
    ASSUME VehiclesInv, NEW c \in Client, SwitchOff(c)
    PROVE  VehiclesInv'
<1> DEFINE v == txn[c].vehicle
           held == txn[c].found \cap Matching(v)
           k == [txn[c] EXCEPT !.pc = "this", !.found = {}]
<1>1. RequestOK(k) /\ k.vehicle = v /\ k.pc = "this"
  BY DEF SwitchOff, RequestOK, Txn, VehiclesInv, VehiclesTypeOK
<1>2. /\ txn' \in [Client -> Txn] /\ txn'[c] = k
      /\ \A d \in Client \ {c} : txn'[d] = txn[d]
  BY <1>1 DEF SwitchOff, VehiclesInv, VehiclesTypeOK, RequestOK
<1>3. held \subseteq Active /\ v \notin held
  BY DEF Matching
<1>4. \A d \in Client \ {c} : held \cap off[d] = {}
  BY DEF SwitchOff, Locked
<1>5. /\ off' \in [Client -> SUBSET Vehicle] /\ off'[c] = held
      /\ \A d \in Client \ {c} : off'[d] = off[d]
  BY <1>3 DEF SwitchOff, VehiclesInv, VehiclesTypeOK, Active
<1>6. Active' = Active
  BY DEF SwitchOff, Active
<1>7. VehiclesTypeOK'
  BY <1>1, <1>2, <1>5 DEF SwitchOff, VehiclesInv, VehiclesTypeOK, RequestOK
<1>8. OneActive'
  BY <1>6 DEF VehiclesInv, OneActive
<1>9. HeldRows'
  <2> SUFFICES ASSUME NEW d \in Client
               PROVE  /\ off'[d] \subseteq Active'
                      /\ off'[d] # {} => txn'[d].pc = "this"
                      /\ txn'[d].vehicle \notin off'[d]
                      /\ \A e \in Client \ {d} : off'[d] \cap off'[e] = {}
    BY DEF HeldRows
  <2> HIDE DEF held, k
  <2>1. CASE d = c
    <3>1. /\ off'[d] = held /\ txn'[d].pc = "this" /\ txn'[d].vehicle = v
      BY <1>1, <1>2, <1>5, <2>1
    <3>2. \A e \in Client \ {d} : off'[e] = off[e]
      BY <1>5, <2>1
    <3> QED
      BY <1>3, <1>4, <1>6, <2>1, <3>1, <3>2
  <2>2. CASE d # c
    <3>1. off'[d] = off[d] /\ txn'[d] = txn[d] /\ d \in Client \ {c}
      BY <1>2, <1>5, <2>2
    <3>2. \A e \in Client \ {d} : off'[d] \cap off'[e] = {}
      <4> SUFFICES ASSUME NEW e \in Client \ {d} PROVE off[d] \cap off'[e] = {}
        BY <3>1
      <4>1. CASE e = c
        BY <1>4, <1>5, <3>1, <4>1
      <4>2. CASE e # c
        BY <1>5, <4>2 DEF VehiclesInv, HeldRows
      <4> QED
        BY <4>1, <4>2
    <3> QED
      BY <1>6, <3>1, <3>2 DEF VehiclesInv, HeldRows
  <2> QED
    BY <2>1, <2>2
<1> QED
  BY <1>7, <1>8, <1>9 DEF VehiclesInv

LEMMA SwitchOnInv ==
    ASSUME VehiclesInv, NEW c \in Client, SwitchOn(c)
    PROVE  VehiclesInv'
<1> DEFINE v == txn[c].vehicle
<1>1. v \in Vehicle
  BY DEF SwitchOn, VehiclesInv, VehiclesTypeOK
<1>2. CASE Refuse(c, "conflict")
  BY <1>2, RefuseInv
<1>3. ASSUME InTheWay(c, v) = {}, row' = Committed(c, v), Done(c, "ok"), UNCHANGED used
      PROVE  VehiclesInv'
  <2> DEFINE k == [NoTxn EXCEPT !.pc = "done", !.answer = "ok"]
  <2>1. RequestOK(k)
    BY DEF RequestOK, NoTxn, Txn, Operation
  <2>2. row' \in [Vehicle -> {"none", "gone"} \cup Present]
    BY <1>3 DEF Committed, VehiclesInv, VehiclesTypeOK, Present
  <2>3. Active \subseteq {v} \cup off[c]
    BY <1>3 DEF InTheWay
  <2>4. Active' = {v}
    BY <1>1, <1>3, <2>3 DEF Committed, Active
  <2>5. \A d \in Client \ {c} : off[d] \subseteq Active'
    BY <2>3, <2>4 DEF VehiclesInv, HeldRows
  <2>6. OneActive'
    BY <2>4 DEF OneActive
  <2> QED
    BY <1>3, <2>1, <2>2, <2>5, <2>6, Released DEF Done, VehiclesInv, VehiclesTypeOK
<1>4. ASSUME row' = [w \in Vehicle |-> IF w \in off[c] THEN "inactive" ELSE row[w]],
             Done(c, "missing"), UNCHANGED used
      PROVE  VehiclesInv'
  <2> DEFINE k == [NoTxn EXCEPT !.pc = "done", !.answer = "missing"]
  <2>1. RequestOK(k)
    BY DEF RequestOK, NoTxn, Txn, Operation
  <2>2. row' \in [Vehicle -> {"none", "gone"} \cup Present]
    BY <1>4 DEF VehiclesInv, VehiclesTypeOK, Present
  <2>3. Active' = Active \ off[c]
    BY <1>4 DEF Active
  <2>4. OneActive' /\ \A d \in Client \ {c} : off[d] \subseteq Active'
    BY <2>3 DEF VehiclesInv, OneActive, HeldRows
  <2> QED
    BY <1>4, <2>1, <2>2, <2>4, Released DEF Done, VehiclesInv, VehiclesTypeOK
<1> QED
  BY <1>2, <1>3, <1>4 DEF SwitchOn

LEMMA SingleInv ==
    ASSUME VehiclesInv, NEW c \in Client, Single(c)
    PROVE  VehiclesInv'
<1> DEFINE v == txn[c].vehicle
<1>1. CASE Refuse(c, "missing") \/ Refuse(c, "refused")
  BY <1>1, RefuseInv
<1>2. ASSUME row[v] \in Present, Done(c, "ok"), UNCHANGED used,
             row' = [row EXCEPT ![v] = IF txn[c].op = "remove" THEN "gone" ELSE "inactive"]
      PROVE  VehiclesInv'
  <2> DEFINE k == [NoTxn EXCEPT !.pc = "done", !.answer = "ok"]
  <2>1. RequestOK(k)
    BY DEF RequestOK, NoTxn, Txn, Operation
  <2>2. row' \in [Vehicle -> {"none", "gone"} \cup Present]
    BY <1>2 DEF VehiclesInv, VehiclesTypeOK, Present
  <2>3. v \in Vehicle
    BY DEF Single, VehiclesInv, VehiclesTypeOK
  <2>4. Active' = Active \ {v}
    BY <1>2, <2>3 DEF Active, VehiclesInv, VehiclesTypeOK
  <2>5. \A d \in Client \ {c} : v \notin off[d]
    BY <1>2 DEF Single, Locked
  <2>6. OneActive' /\ \A d \in Client \ {c} : off[d] \subseteq Active'
    BY <2>4, <2>5 DEF VehiclesInv, OneActive, HeldRows
  <2> QED
    BY <1>2, <2>1, <2>2, <2>6, Released DEF Done, VehiclesInv, VehiclesTypeOK
<1> QED
  BY <1>1, <1>2 DEF Single

LEMMA ReceiveInv ==
    ASSUME VehiclesInv, NEW c \in Client, Receive(c)
    PROVE  VehiclesInv'
  BY NoTxnOK, Moves DEF Receive, VehiclesInv, VehiclesTypeOK

LEMMA UseInv ==
    ASSUME VehiclesInv, NEW v \in Vehicle, Use(v)
    PROVE  VehiclesInv'
<1>1. VehiclesTypeOK'
  BY DEF Use, VehiclesInv, VehiclesTypeOK
<1>2. Active' = Active
  BY DEF Use, Active
<1> QED
  BY <1>1, <1>2 DEF Use, VehiclesInv, OneActive, HeldRows

LEMMA VehiclesStepInv == VehiclesInv /\ [VehiclesNext]_vehiclesVars => VehiclesInv'
<1> SUFFICES ASSUME VehiclesInv, [VehiclesNext]_vehiclesVars PROVE VehiclesInv'
  OBVIOUS
<1>1. ASSUME NEW c \in Client, ServiceStep(c) PROVE VehiclesInv'
  <2>1. CASE Abort(c)
    BY <2>1, RefuseInv DEF Abort
  <2> QED
    BY <1>1, <2>1, CheckInv, InsertInv, SnapshotInv, SwitchOffInv, SwitchOnInv, SingleInv
       DEF ServiceStep
<1>2. CASE UNCHANGED vehiclesVars
  <2>1. Active' = Active
    BY <1>2 DEF vehiclesVars, Active
  <2> QED
    BY <1>2, <2>1 DEF vehiclesVars, VehiclesInv, VehiclesTypeOK, OneActive, HeldRows
<1> QED
  BY <1>1, <1>2, SubmitInv, ReceiveInv, UseInv DEF VehiclesNext

LEMMA VehiclesInvHolds == VehiclesSpec => []VehiclesInv
  BY VehiclesInitInv, VehiclesStepInv, PTL DEF VehiclesSpec

-----------------------------------------------------------------------------
(* Rows, requests and locked rows keep their types: a request that is to     *)
(* change a vehicle has one.                                                 *)
THEOREM VehiclesTypeCorrect == VehiclesSpec => []VehiclesTypeOK
  BY VehiclesInvHolds, PTL DEF VehiclesInv

(* However creations, activations, removals and aborted transactions of any  *)
(* number of clients interleave, a driver never has two active vehicles.     *)
THEOREM AtMostOneActive == VehiclesSpec => []OneActive
  BY VehiclesInvHolds, PTL DEF VehiclesInv

(* A transaction that has switched a row off has nothing to wait for: two    *)
(* activations never wait for each other.                                    *)
THEOREM NoDeadlock == VehiclesSpec => []HoldersNeverWait
<1>1. VehiclesInv => HoldersNeverWait
  <2> SUFFICES ASSUME VehiclesInv, NEW c \in Client, NEW a \in off[c], txn[c].pc = "this",
                      NEW v, v = txn[c].vehicle, Waits(c, v)
               PROVE  FALSE
    BY DEF HoldersNeverWait
  <2>1. a \in Active /\ \A w \in Active : w = a
    BY DEF VehiclesInv, HeldRows, OneActive
  <2>2. v # a
    BY DEF VehiclesInv, HeldRows
  <2>3. ~Locked(c, v)
    BY <2>1, <2>2 DEF Locked, VehiclesInv, HeldRows
  <2>4. InTheWay(c, v) = {}
    BY <2>1 DEF InTheWay
  <2> QED
    BY <2>3, <2>4 DEF Waits
<1> QED
  BY <1>1, VehiclesInvHolds, PTL

(* An active vehicle stops being active only as SwapIsAtomic lists it.        *)
THEOREM SwapAtomic == VehiclesSpec => SwapIsAtomic
<1> DEFINE Allowed(v) ==
      \/ v \in Active'
      \/ Active' \ Active # {}
      \/ \E c \in Client : Single(c) /\ txn[c].vehicle = v
      \/ \E c \in Client : txn[c].op = "activate" /\ row[txn[c].vehicle] \notin Present
                              /\ txn'[c].answer = "missing"
<1>1. ASSUME VehiclesInv, NEW v \in Active, v \notin Active', VehiclesNext PROVE Allowed(v)
  <2>0. v \in Vehicle /\ row[v] = "active" /\ row'[v] # "active"
    BY <1>1 DEF Active
  <2>1. ASSUME NEW c \in Client, Insert(c) PROVE FALSE
    BY <1>1, <2>0, <2>1 DEF Insert, Refuse, VehiclesInv, VehiclesTypeOK
  <2>2. ASSUME NEW c \in Client, SwitchOn(c) PROVE Allowed(v)
    <3> DEFINE w == txn[c].vehicle
    <3>1. txn[c].op = "activate" /\ w \in Vehicle
      BY <1>1, <2>2 DEF SwitchOn, VehiclesInv, VehiclesTypeOK
    <3>2. CASE Refuse(c, "conflict")
      BY <2>0, <3>2 DEF Refuse
    <3>3. CASE row' = Committed(c, w)
      <4>1. w \in Active' /\ w # v
        BY <2>0, <3>1, <3>3 DEF Committed, Active
      <4>2. w \notin Active
        BY <1>1, <4>1 DEF VehiclesInv, OneActive
      <4> QED
        BY <4>1, <4>2
    <3>4. CASE row[w] \notin Present /\ Done(c, "missing")
      <4>1. txn'[c].answer = "missing"
        BY <1>1, <3>4 DEF Done, NoTxn, VehiclesInv, VehiclesTypeOK
      <4> QED
        BY <3>1, <3>4, <4>1
    <3> QED
      BY <2>2, <3>2, <3>3, <3>4 DEF SwitchOn
  <2>3. ASSUME NEW c \in Client, Single(c) PROVE Allowed(v)
    <3>1. txn[c].vehicle = v
      BY <1>1, <2>0, <2>3 DEF Single, Refuse, VehiclesInv, VehiclesTypeOK
    <3> QED
      BY <2>3, <3>1
  <2>4. ASSUME row' = row PROVE FALSE
    BY <2>0, <2>4
  <2>5. ASSUME NEW c \in Client, ServiceStep(c) PROVE Allowed(v)
    BY <2>1, <2>2, <2>3, <2>4, <2>5
       DEF ServiceStep, Check, Snapshot, SwitchOff, Abort, Refuse
  <2> QED
    BY <1>1, <2>4, <2>5 DEF VehiclesNext, Submit, Receive, Use
<1>2. VehiclesInv /\ [VehiclesNext]_vehiclesVars
          => [\A v \in Active : Allowed(v)]_vehiclesVars
  BY <1>1
<1> QED
  BY <1>2, VehiclesInvHolds, PTL DEF VehiclesSpec, SwapIsAtomic
=============================================================================
